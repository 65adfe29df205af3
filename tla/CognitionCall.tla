--------------------------- MODULE CognitionCall ---------------------------
(***************************************************************************)
(* One evaluate() of a CognitionEngine: the model is asked until it gives  *)
(* an answer the decoder accepts, an attempt fails that the policy does    *)
(* not retry, or the attempts are used up.                                 *)
(*                                                                         *)
(* Code: cognition/engine/mod.rs; the model itself is external.            *)
(***************************************************************************)
EXTENDS Naturals, Sequences

CONSTANTS
  Policies,   \* retry policies: [max, retryError, retryEmpty, repair]
  Answer,     \* the answers the model may give
  Blank,      \* those of them that are empty after trimming
  Decoded     \* those the decoder accepts

\* What the model may do: fail (no answer) or answer.
NoAnswer == <<>>
Reply == {NoAnswer} \cup {<<a>> : a \in Answer}

CognitionRetryPolicy ==
  [max : Nat, retryError : BOOLEAN, retryEmpty : BOOLEAN, repair : BOOLEAN]

ASSUME PoliciesAssumption == Policies \subseteq CognitionRetryPolicy
ASSUME AnswerAssumption ==
  Blank \subseteq Answer /\ Decoded \subseteq Answer \ Blank

VARIABLES
  outcome,   \* "idle", "waiting" for the model, "success" or "failure"
  policy,    \* CognitionEngine.retry_policy
  attempt,   \* the number of the attempt under way
  prompt,    \* what follows base_messages in the messages of this attempt
  raw,       \* the last answer
  failure,   \* last_failure: what went wrong and at which attempt
  asked      \* history: what came of every call of the model so far

vars == <<outcome, policy, attempt, prompt, raw, failure, asked>>

Failures == {"error", "empty", "undecodable"}
NoFailure == [why |-> "did not run", at |-> 0]

\* CognitionRetryPolicy::max_attempts
MaxAttempts(p) == IF p.max = 0 THEN 1 ELSE p.max

KindOf(r) ==
  IF r = NoAnswer THEN "error"
  ELSE IF r[1] \in Blank THEN "empty"
  ELSE IF r[1] \in Decoded THEN "decoded" ELSE "undecodable"

Wanted(p, kind) == CASE kind = "error"       -> p.retryError
                     [] kind = "empty"       -> p.retryEmpty
                     [] kind = "undecodable" -> p.repair

\* retry_messages and repair_messages: both start again from base_messages.
NoteFor(kind, r, next) ==
  IF kind = "undecodable"
  THEN <<[says |-> "repair", about |-> r, attempt |-> next]>>
  ELSE <<[says |-> kind, about |-> NoAnswer, attempt |-> next]>>

\* evaluate is entered with some input.
Begin ==
  /\ outcome = "idle"
  /\ outcome' = "waiting"
  /\ attempt' = 1
  /\ prompt' = <<>>
  /\ raw' = NoAnswer
  /\ failure' = NoFailure
  /\ asked' = <<>>
  /\ UNCHANGED policy

FaultyChatOnce(r) ==   \* the flags are looked at, the attempts are not counted
  LET kind == KindOf(r)
  IN  /\ outcome = "waiting"
      /\ raw' = r
      /\ asked' = Append(asked, kind)
      /\ IF kind = "decoded"
         THEN /\ outcome' = "success"
              /\ prompt' = <<>>
              /\ UNCHANGED <<policy, attempt, failure>>
         ELSE /\ failure' = [why |-> kind, at |-> attempt]
              /\ IF attempt <= MaxAttempts(policy) /\ Wanted(policy, kind)
                 THEN /\ attempt' = attempt + 1
                      /\ prompt' = NoteFor(kind, r, attempt + 1)
                      /\ UNCHANGED <<outcome, policy>>
                 ELSE /\ outcome' = "failure"
                      /\ prompt' = <<>>
                      /\ UNCHANGED <<policy, attempt>>

\* chat_once returns: one turn of the loop in evaluate.  The messages went into
\* the call and are made anew for the next one.
ChatOnce(r) ==
  LET kind == KindOf(r)
  IN  /\ outcome = "waiting"
      /\ raw' = r
      /\ asked' = Append(asked, kind)
      /\ IF kind = "decoded"
         THEN /\ outcome' = "success"
              /\ prompt' = <<>>
              /\ UNCHANGED <<policy, attempt, failure>>
         ELSE /\ failure' = [why |-> kind, at |-> attempt]
              /\ IF attempt < MaxAttempts(policy) /\ Wanted(policy, kind)
                 THEN /\ attempt' = attempt + 1
                      /\ prompt' = NoteFor(kind, r, attempt + 1)
                      /\ UNCHANGED <<outcome, policy>>
                 ELSE /\ outcome' = "failure"
                      /\ prompt' = <<>>
                      /\ UNCHANGED <<policy, attempt>>

Init ==
  /\ policy \in Policies
  /\ outcome = "idle" /\ attempt = 1 /\ prompt = <<>> /\ raw = NoAnswer
  /\ failure = NoFailure /\ asked = <<>>

Next == Begin \/ \E r \in Reply : ChatOnce(r)

Spec == Init /\ [][Next]_vars
----------------------------------------------------------------------------
(* Properties                                                              *)

TypeOK ==
  /\ outcome \in {"idle", "waiting", "success", "failure"}
  /\ policy \in Policies
  /\ attempt \in Nat \ {0}
  /\ raw \in Reply
  /\ asked \in Seq(Failures \cup {"decoded"})
  /\ failure \in [why : Failures, at : Nat \ {0}] \cup {NoFailure}

\* The messages of an attempt are the base messages and one note about what went
\* wrong in the attempt before it, with the answer to repair if there was one:
\* notes of earlier attempts do not pile up.
PromptTellsLastFailure ==
  outcome = "waiting" =>
    IF attempt = 1 THEN prompt = <<>>
    ELSE /\ Len(prompt) = 1
         /\ prompt[1].attempt = attempt
         /\ failure.at = attempt - 1
         /\ prompt[1].says = (IF failure.why = "undecodable" THEN "repair" ELSE failure.why)
         /\ failure.why = "undecodable" => prompt[1].about = raw

\* evaluate: the model is asked at most max_attempts times and at least once
\* even if that is 0, never again after an answer that decodes, and again only
\* after failures of a kind the policy retries, being told of the last of them;
\* success is the last answer, failure the last failure, which was final: no
\* attempt left or no retry wanted.
RetriesAreJustified ==
  LET n == Len(asked)
  IN  /\ n <= MaxAttempts(policy)
      /\ \A i \in 1..n : asked[i] = "decoded" => i = n /\ outcome = "success"
      /\ \A i \in 1..n : (i < n \/ outcome = "waiting") /\ asked[i] # "decoded"
                            => Wanted(policy, asked[i])
      /\ outcome = "success" => n > 0 /\ raw # NoAnswer /\ raw[1] \in Decoded
      /\ outcome = "failure" =>
           /\ n > 0 /\ failure = [why |-> asked[n], at |-> n]
           /\ n = MaxAttempts(policy) \/ ~Wanted(policy, asked[n])
      /\ PromptTellsLastFailure
=============================================================================
