---------------------------- MODULE MCCognition ----------------------------
(* CognitionCall with the answers of a chatty model: every short text, and *)
(* values with text around them.                                           *)
EXTENDS CognitionCall, JsonDecoder

CONSTANTS
  ShortText,     \* every text of so many tokens
  MaxAround,     \* tokens before a value, and tokens after it
  MaxTogether    \* and both together

ASSUME BoundsAssumption == ShortText \in Nat /\ MaxAround \in Nat /\ MaxTogether \in Nat

Template == Obj(<<Arr(<<Prim>>)>>)

TextsUpTo(n, toks) == UNION {[1..k -> toks] : k \in 0..n}

Around == TextsUpTo(MaxAround, Token \ {"key"})
Bodies == UNION {Rendered(v) : v \in {Prim, Obj(<<>>), Obj(<<Prim>>), Arr(<<Prim>>),
                                      Obj(<<Arr(<<>>)>>), Obj(<<Arr(<<Prim>>)>>)}}

\* Every short text, and the values alone and in a fence of their own.
ShortAnswers ==
  TextsUpTo(ShortText, Token) \cup Bodies
    \cup {<<"fence", "x", "newline">> \o b \o <<"newline", "fence">> \o c :
            b \in Bodies, c \in TextsUpTo(1, Token \ {"key"})}

MCAnswer ==
  ShortAnswers
    \cup {a \o b \o c : <<a, b, c>> \in
            {t \in Around \X Bodies \X Around : Len(t[1]) + Len(t[3]) <= MaxTogether}}

MCBlank == {a \in MCAnswer : \A i \in DOMAIN a : a[i] = "newline"}
MCDecoded == {a \in MCAnswer \ MCBlank : Decode(a, Template)}

MCPolicies ==
  {[max |-> 0, retryError |-> TRUE, retryEmpty |-> TRUE, repair |-> TRUE]}
    \cup [max : {3}, retryError : BOOLEAN, retryEmpty : BOOLEAN, repair : BOOLEAN]
\* Bounds: values with text around them are answered to one attempt only, and from
\* the second attempt on there is one answer of every kind.
Few == {<<>>, <<"x">>, <<"{", "}">>, <<"{", "key", "[", "]", "}">>}

Answers ==
  IF attempt > 1 THEN Few ELSE IF policy.max = 0 THEN Answer ELSE ShortAnswers

MCNext ==
  \/ Begin
  \/ outcome = "waiting" /\ \E r \in {NoAnswer} \cup {<<a>> : a \in Answers} : ChatOnce(r)

MCSpec == Init /\ [][MCNext]_vars
----------------------------------------------------------------------------
(* Properties of the decoder                                               *)

FittingTexts == UNION {Rendered(v) : v \in {w \in Values : ShapeFits(w, Template)}}

Quiet == {"x", "newline"}
IsInside(part, s) == \E i \in 1..(Len(s) - Len(part) + 1) :
                       SubSeq(s, i, i + Len(part) - 1) = part

\* What stands before and after a value begins on the line of an opening fence that
\* is closed on a later line: the newline strip_code_fences looks for behind the
\* fence is then the one behind the value, and the value is cut off with the line.
OnFenceLine(pre, post) ==
  /\ pre # <<>> /\ pre[1] = "fence" /\ ~Contains(pre, "newline")
  /\ Contains(post, "newline") /\ Contains(post, "fence")

\* s is t with quiet text around it and perhaps brackets before it that are never
\* closed, in a code fence of its own or not.
QuietlyAround(s, t) ==
  \E i \in 1..(Len(s) - Len(t) + 1) :
    LET pre == SubSeq(s, 1, i - 1)
        post == SubSeq(s, i + Len(t), Len(s))
    IN  /\ SubSeq(s, i, i + Len(t) - 1) = t
        /\ \A k \in DOMAIN pre : pre[k] \in Quiet \cup {"{", "["} \/ (k = 1 /\ pre[k] = "fence")
        /\ \A k \in DOMAIN post : post[k] \in Quiet \/ (k = Len(post) /\ post[k] = "fence")
        /\ ~OnFenceLine(pre, post)

\* decode: an answer that is accepted holds a value of the template's shape,
\* nothing is made up; and a value of that shape is found in prose, behind a bracket
\* that is never closed, in a fence of its own, and with brackets and quotes in its
\* strings, except on the line of an opening fence that is closed on a later line.
AnswerIsFound ==
  raw # NoAnswer =>
    /\ outcome = "success" => \E t \in FittingTexts : IsInside(t, Blanks(raw[1]))
    /\ (\E t \in FittingTexts : QuietlyAround(raw[1], t)) => outcome = "success"
=============================================================================
