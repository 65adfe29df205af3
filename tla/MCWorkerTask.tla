---------------------------- MODULE MCWorkerTask ----------------------------
(* WorkerTask with the answers of a model that gets one thing wrong.         *)
EXTENDS WorkerTask

Some == {"some", "full"}
Line == <<Some>>

\* An output that every rule of both roles is content with, and what may be wrong.
Fine == [summary |-> Some \cup {"domain"}, findings |-> Line,
         recommendations |-> Line \o Line \o Line, evidence |-> <<{"some", "traffic"}>>,
         risks |-> Line, open_questions |-> <<>>]

RoleOutputs ==
  {Fine, EmptyOutput,
   [Fine EXCEPT !.summary = {"some"}],
   [Fine EXCEPT !.summary = @ \cup {"refusal"}],
   [Fine EXCEPT !.risks = <<>>],
   [Fine EXCEPT !.evidence = <<{"some", "elsewhere"}>>],
   [Fine EXCEPT !.evidence = <<>>, !.risks = <<>>],
   [Fine EXCEPT !.open_questions = Line],
   [Fine EXCEPT !.open_questions = <<{"some", "blocking"}>>],
   [Fine EXCEPT !.findings = <<{"some", "placeholder"}>>]}

Written(kind, inner, outer) ==
  [kind |-> kind, inner |-> inner, outer |-> outer, answer |-> {}]

Answers ==
  {Written("object", o, EmptyOutput) : o \in RoleOutputs}
    \cup {Written("flat", EmptyOutput, o) : o \in {Fine, [Fine EXCEPT !.risks = <<>>]}}
    \cup {Written("text", [EmptyOutput EXCEPT !.summary = Some], [EmptyOutput EXCEPT !.risks = Line]),
          Written("other", EmptyOutput, Fine)}

Request(id, input) == [id |-> id, input |-> input]
Empty == <<>>

\* For accounting and ops one of every fate.
Requests ==
  {Request("", Empty),
   Request("data_query_store_metrics", Empty),
   Request("accounting_budget_plan", Empty),
   Request("data_channel_roi", Empty),
   Request("data_channel_roi", [enough |-> "fit"]),
   Request("ops_smart_pricing", Empty),
   Request("coordination_create_task", [title |-> "fit"]),
   Request("coordination_create_task", [title |-> "unfit"])}

Borrows == Request("data_channel_roi", [enough |-> "fit"])

\* None, any one, and any one after a skill of another trade.
Asking == {<<>>} \cup {<<r>> : r \in Requests} \cup {<<Borrows, r>> : r \in Requests \ {Borrows}}

Values ==
  {[kind |-> a.kind, inner |-> a.inner, outer |-> a.outer, answer |-> a.answer,
    requests |-> r, act |-> Len(r) # 1] : a \in Answers, r \in Asking}

Few == {v \in Values : v.inner = Fine /\ Len(v.requests) <= 1}

\* TLC computes a definition once, but one that replaces a constant every time.
MCValue == Values
MCLater == Few

MCOther == {[kind |-> "garbage"]}

\* CognitionRetryPolicy::default with a second attempt, and one that wants less.
MCPolicies ==
  {[max |-> 2, retryError |-> TRUE, retryEmpty |-> TRUE, repair |-> TRUE],
   [max |-> 2, retryError |-> FALSE, retryEmpty |-> TRUE, repair |-> FALSE]}
MCInputs == [traffic |-> "data"]
=============================================================================
