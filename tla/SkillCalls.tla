----------------------------- MODULE SkillCalls -----------------------------
(***************************************************************************)
(* An executor and a request for a skill it is given: any id, registered   *)
(* or not, with any input as far as the skill looks at it.  One request    *)
(* stands for all: the executor keeps nothing of the ones before it.       *)
(*                                                                         *)
(* Code: skills/runtime.rs, LocalSkillExecutor.                            *)
(***************************************************************************)
EXTENDS SkillRuntime

VARIABLES
  executor,   \* "none", "ready", or "broken" when the registry does not load
  request,    \* the request, <<>> before it
  result      \* its result

vars == <<executor, request, result>>

UnknownId == "data_query_store_metrics"   \* what a stale prompt may still ask for

\* Skills that look at no optional input but the data.
NoOptions == {"ops_promo_planning", "ops_assortment_planning", "ops_execution_plan",
              "data_channel_roi"}

\* The names a request for a skill is told apart by.
Names(id) ==
  IF id \notin SkillIds THEN {"option"}
  ELSE Wanted(id) \cup (IF id \in NoOptions THEN {} ELSE {"option"})
         \cup (CASE id = "service_sentiment_analyzer" -> {"batch_texts", "customer_text"}
                 [] id \in {"creative_title_ctr_scorer", "web_title_seo_scorer"} -> {"title"}
                 [] id = "engineering_system_check" -> {"test_live"}
                 [] OTHER -> {})

\* Points without a price, costs above the price, nobody who answered.
Shortable == {"data_price_elasticity", "accounting_break_even_calc", "service_nps_analyzer"}

Inputs(id) ==
  LET values == {"fit", "unfit", "null"} \cup (IF id \in Shortable THEN {"short"} ELSE {})
  IN  {NotAnObject} \cup
        UNION {{input \in [names -> values] :
                  \A name \in names : input[name] = "short" => name = "enough"} :
                names \in SUBSET Names(id)}

\* LocalSkillExecutor::new
New ==
  /\ executor = "none"
  /\ executor' = IF Loads(StagedSpecs) THEN "ready" ELSE "broken"
  /\ UNCHANGED <<request, result>>

Call(named, id, input) ==
  /\ executor = "ready" /\ request = <<>>
  /\ request' = <<[named |-> named, id |-> id, input |-> input]>>
  /\ result' = <<Execute(named, id, input)>>
  /\ UNCHANGED executor

Init == executor = "none" /\ request = <<>> /\ result = <<>>

Next ==
  \/ New
  \/ \E id \in SkillIds \cup {UnknownId, ""} :
       \E input \in Inputs(id) : \E named \in BOOLEAN : Call(named, id, input)

Spec == Init /\ [][Next]_vars
----------------------------------------------------------------------------
(* Properties                                                              *)

\* format_skill_line tells a role which skills run at once, which only say what
\* they would do and which wait for a human.  What then happens keeps to it: a
\* skill that changes a shop or speaks to the outside is never reported as done,
\* and a result that is put off says of itself, in its metadata, why.
ApprovalIsNeverSkipped ==
  result # <<>> =>
    LET r == result[1]
    IN  r.status \in {"Success", "Deferred", "PendingApproval"} =>
          /\ (r.status = "PendingApproval" \/ PromptMode(r.id) = "pending_approval")
               => r.metadata.approval
          /\ r.metadata.approval => r.status \in {"Deferred", "PendingApproval"}
          /\ r.metadata.approval /\ r.status = "Deferred" =>
               r.metadata.mode = "deferred"

\* execute: the status tells how a skill ended, and the output what came of it.
\* Success says no more than that a local skill came to its end, or one that had the
\* data its fallback needs: in its output are figures exactly if all they are about
\* was given and nothing was of another type.  Otherwise they are wholly or partly
\* assumed, or the output only says that there is no data, and that without an error
\* happens to skills of ops, accounting and data alone; a required input of another
\* type is passed over by ops and accounting alone.  Deferred and pending, that the
\* skill only said so; failed, that an input the skill reads is missing, too little
\* or of another type, and never that a registered skill has no code behind it; and
\* the loader accepts the skills the program ships.  The two texts of the sentiment
\* analyzer are left aside: it looks at the batch and at the single text only without.
StatusTellsTheTruth ==
  /\ executor # "broken"
  /\ result # <<>> =>
       LET call == request[1]
           r == result[1]
           is(name, values) == call.input # NotAnObject /\ Has(call.input, name, values)
           fit(name) == is(name, {"fit"})
           wrong(name) == name \notin {"batch_texts", "customer_text"}
                            /\ is(name, {"unfit", "short"})
           spec == Registry[r.id]
       IN  CASE r.status = "Success" ->
                  /\ \/ PromptMode(r.id) = "local"
                     \/ "deterministic_fallback" \in spec.tags /\ fit("enough")
                  /\ r.output \in {"figures", "assumed", "lacking"}
                  /\ r.output = "figures" <=>
                       /\ \A name \in spec.required : fit(name)
                       /\ "enough" \in Names(r.id) => fit("enough")
                       /\ \A name \in Names(r.id) : ~wrong(name)
                  /\ r.output = "lacking" => spec.category \in {"ops", "accounting", "Data"}
                  /\ (\E name \in spec.required : ~fit(name))
                       => spec.category \in {"ops", "accounting"}
             [] r.status = "Deferred" ->
                  /\ PromptMode(r.id) = "deferred" /\ r.metadata.mode = "deferred"
                  /\ r.output = "plan"
             [] r.status = "PendingApproval" ->
                  /\ PromptMode(r.id) = "pending_approval" \/ fit("test_live")
                  /\ r.output = "plan"
             [] r.status = "Failed" ->
                  /\ call.named /\ call.id \in SkillIds
                  /\ \E name \in Names(r.id) :
                       \/ is(name, {"unfit", "short", "null"})
                       \/ name \in {"title", "customer_text"} /\ ~fit(name)
             [] r.status = "NotFound" -> call.id \notin SkillIds
             [] r.status = "ValidationError" ->
                  \/ ~call.named \/ call.id = "" \/ call.input = NotAnObject
                  \/ ~(Registry[call.id].required \subseteq DOMAIN call.input)
=============================================================================
