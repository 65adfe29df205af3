---------------------------- MODULE JsonDecoder ----------------------------
(***************************************************************************)
(* How the answer of a model becomes a JSON value: JsonTemplateDecoder     *)
(* takes what is inside a code fence, then the first balanced object or    *)
(* array outside a string, parses it and compares its shape with a         *)
(* template.  A text is a sequence of tokens.                              *)
(*                                                                         *)
(* Code: cognition/engine/decoder.rs.                                      *)
(***************************************************************************)
EXTENDS Naturals, Sequences, SequencesExt, FiniteSets

(* Tokens: the four brackets, a quote, an escaped quote, a code fence, a    *)
(* newline, "key" for "name": with its quotes, and "x" for anything else   *)
(* (a number, a word, a separator).                                        *)
Token == {"{", "}", "[", "]", "quote", "escaped", "fence", "newline", "key", "x"}

FirstAt(s, from, toks) ==   \* 0: there is none
  LET at == {i \in from..Len(s) : s[i] \in toks}
  IN  IF at = {} THEN 0 ELSE CHOOSE i \in at : \A j \in at : i <= j

\* strip_code_fences: the newline after the opening fence may be any later one.
StripCodeFences(s) ==
  LET open == FirstAt(s, 1, {"fence"})
      line == FirstAt(s, open + 1, {"newline"})
      from == IF line = 0 THEN open + 1 ELSE line + 1
      close == FirstAt(s, from, {"fence"})
  IN  IF open = 0 \/ close = 0 THEN s ELSE SubSeq(s, from, close - 1)

\* in_string after each token, from outside a string on.  A backslash escapes
\* only inside a string, so that an escaped quote always leaves it in one.
InString(s) ==
  LET in[i \in 0..Len(s)] ==
        IF i = 0 THEN FALSE
        ELSE CASE s[i] = "quote"   -> ~in[i - 1]
               [] s[i] = "escaped" -> TRUE
               [] OTHER            -> in[i - 1]
  IN  in

Closing(tok) == IF tok = "{" THEN "}" ELSE "]"

\* extract_balanced_json of a text that starts with a bracket: where the bracket
\* is closed, 0 if nowhere.  Brackets of the other kind are not counted.
ClosedAt(s) ==
  LET in == InString(s)
      depth[i \in 0..Len(s)] ==
        IF i = 0 THEN 0
        ELSE IF in[i - 1] THEN depth[i - 1]
        ELSE CASE s[i] = s[1]          -> depth[i - 1] + 1
               [] s[i] = Closing(s[1]) -> depth[i - 1] - 1
               [] OTHER                -> depth[i - 1]
      at == {i \in 1..Len(s) : depth[i] = 0}
  IN  IF at = {} THEN 0 ELSE CHOOSE i \in at : \A j \in at : i <= j

From(s, i) == SubSeq(s, i, Len(s))

FaultyExtractJsonValue(s) ==   \* the first bracket decides
  LET in == InString(s)
      starts == {i \in 1..Len(s) : ~in[i - 1] /\ s[i] \in {"{", "["}}
      i == CHOOSE i \in starts : \A j \in starts : i <= j
  IN  IF starts = {} \/ ClosedAt(From(s, i)) = 0 THEN s
      ELSE SubSeq(s, i, i + ClosedAt(From(s, i)) - 1)

\* extract_json_value, or the text itself when there is none.
ExtractJsonValue(s) ==
  LET in == InString(s)
      starts == {i \in 1..Len(s) : /\ ~in[i - 1] /\ s[i] \in {"{", "["}
                                   /\ ClosedAt(From(s, i)) # 0}
      i == CHOOSE i \in starts : \A j \in starts : i <= j
  IN  IF starts = {} THEN s ELSE SubSeq(s, i, i + ClosedAt(From(s, i)) - 1)

----------------------------------------------------------------------------
(* JSON values, up to what a template tells apart: a primitive, an array,  *)
(* an object with or without the one key of the template.                  *)

Prim == [kind |-> "prim"]
Arr(items) == [kind |-> "array", items |-> items]
Obj(fields) == [kind |-> "object", fields |-> fields]   \* the values of "key"

\* validate_shape_at; an array of the template holds one item or none.
RECURSIVE ShapeFits(_, _)
ShapeFits(value, template) ==
  CASE template.kind = "prim" -> value.kind = "prim"
    [] template.kind = "array" ->
         /\ value.kind = "array"
         /\ template.items # <<>> =>
              \A i \in DOMAIN value.items : ShapeFits(value.items[i], template.items[1])
    [] template.kind = "object" ->
         /\ value.kind = "object"
         /\ template.fields # <<>> =>
              value.fields # <<>> /\ ShapeFits(value.fields[1], template.fields[1])

RECURSIVE Rendered(_)
\* The texts of a value: serde_json's grammar on these tokens.
Rendered(v) ==
  CASE v.kind = "prim" ->
         {<<"x">>} \cup {<<"quote">> \o s \o <<"quote">> :
                           s \in {<<>>, <<"x">>, <<"{">>, <<"escaped">>}}
    [] v.kind = "array" ->
         LET body[i \in 0..Len(v.items)] ==
               IF i = 0 THEN {<<>>}
               ELSE {a \o b : a \in body[i - 1], b \in Rendered(v.items[i])}
         IN  {<<"[">> \o b \o <<"]">> : b \in body[Len(v.items)]}
    [] v.kind = "object" ->
         IF v.fields = <<>> THEN {<<"{", "}">>}
         ELSE {<<"{", "key">> \o b \o <<"}">> : b \in Rendered(v.fields[1])}

\* The values of a nesting depth of at most two, arrays of at most one item.
Flat == {Prim, Arr(<<>>), Obj(<<>>)}
Values == Flat \cup {Arr(<<v>>) : v \in Flat} \cup {Obj(<<v>>) : v \in Flat}
               \cup {Obj(<<Arr(<<v>>)>>) : v \in Flat}

\* s without the line breaks between its tokens (not those in a string).
Blanks(s) ==
  LET in == InString(s)
      kept[i \in 0..Len(s)] ==
        IF i = 0 THEN <<>>
        ELSE IF s[i] = "newline" /\ ~in[i - 1] THEN kept[i - 1] ELSE Append(kept[i - 1], s[i])
  IN  kept[Len(s)]

\* decode: is s accepted against the template?
Decode(s, template) ==
  LET text == Blanks(ExtractJsonValue(StripCodeFences(s)))
  IN  \E v \in Values : text \in Rendered(v) /\ ShapeFits(v, template)
=============================================================================
