---------------------------- MODULE WorkerReport ----------------------------
(***************************************************************************)
(* How a worker makes its report: the role output is read from what the    *)
(* cognition returned, the skills that asks for are run as far as the role *)
(* may, and their results are merged into it.  A value the cognition       *)
(* returns has                                                             *)
(*   kind      what stands under "role_output": an "object", a "text",     *)
(*             nothing ("flat": the value itself is read), or "other"      *)
(*   inner     the fields of role_output, outer those of the value itself  *)
(*   answer    the text of the decision, {} without                        *)
(*   requests  skill_requests: [id, input], id "" if none can be read      *)
(*   act       whether the decision is an ActionIntent                     *)
(*                                                                         *)
(* Code: agent/worker/runner.rs from execute_requested_skills on.          *)
(***************************************************************************)
EXTENDS ReportEvaluation, SkillRuntime, Positions

\* The words by which the rules know a bad answer, whatever else it says.
Betraying == {"blocking", "tool", "external", "refusal", "placeholder"}

IsCognitionOutput(v) ==
  /\ v.inner \in RoleWorkOutput /\ v.outer \in RoleWorkOutput
  /\ v.requests \in Seq({v.requests[i] : i \in DOMAIN v.requests})

\* string_array_field of both objects in turn: what a flat value lists is read twice.
Both(v, source, name) == source[name] \o v.outer[name]

HasContent(o) == o # EmptyOutput

\* parse_role_work_output
ParseRoleWorkOutput(v) ==
  LET source == IF v.kind = "flat" THEN v.outer ELSE v.inner
      text == [EmptyOutput EXCEPT
                 !.summary = v.inner.summary, !.evidence = v.outer.evidence,
                 !.risks = v.outer.risks, !.open_questions = v.outer.open_questions]
      object == [source EXCEPT
                   !.summary = IF @ # {} THEN @ ELSE v.outer.summary,
                   !.evidence = Both(v, source, "evidence"),
                   !.risks = Both(v, source, "risks"),
                   !.open_questions = Both(v, source, "open_questions")]
  IN  CASE v.kind = "text" /\ v.inner.summary # {} -> <<text>>
        [] v.kind \in {"object", "flat"} /\ HasContent(object) -> <<object>>
        [] OTHER -> <<>>

\* format_role_work_output_content: the evidence is not part of it.
FormatContent(o) ==
  o.summary \cup Joined(o.findings) \cup Joined(o.recommendations)
    \cup Joined(o.risks) \cup Joined(o.open_questions)

\* extract_worker_content: the answer, or else the whole text.
ExtractContent(v) ==
  IF v.answer # {} THEN v.answer
  ELSE {"some", "full"} \cup FormatContent(v.inner) \cup FormatContent(v.outer)

\* parse_worker_role_output
Parse(v) ==
  LET o == ParseRoleWorkOutput(v)
      Listed(name) == IF o # <<>> /\ o[1][name] # <<>> THEN o[1][name] ELSE v.outer[name]
  IN  [content        |-> IF o # <<>> /\ FormatContent(o[1]) # {} THEN FormatContent(o[1])
                          ELSE ExtractContent(v),
       role_output    |-> o,
       evidence       |-> Listed("evidence"),
       risks          |-> Listed("risks"),
       open_questions |-> Listed("open_questions")]

\* parse_skill_requests
ParseSkillRequests(v) == Picked(v.requests, {i \in DOMAIN v.requests : v.requests[i].id # ""})

\* skill_not_allowed_result
NotAllowed(id) == Refused(id, "ValidationError")

\* execute_requested_skills
RunRequested(role, requests) ==
  [i \in DOMAIN requests |->
     IF RoleCanUse(role, requests[i].id)
     THEN Execute(TRUE, requests[i].id, requests[i].input)
     ELSE NotAllowed(requests[i].id)]

\* The texts of format_success_skill_evidence, format_incomplete_skill_risk,
\* format_incomplete_skill_question and format_failed_skill_risk.  The id of a
\* skill starts with a role as a rule, and so the evidence names that role.
NamedRole(id) == {IF Registry[id].category = "Data" THEN "data" ELSE Registry[id].category}
EvidenceText(r) == {"some", "full", r.id, r.status} \cup NamedRole(r.id)
RiskText(r) == {"some", "full", r.id, r.status}
QuestionText(r) ==
  IF r.status \in {"Deferred", "PendingApproval"} THEN {"some", "full", r.id, "incomplete"}
  ELSE RiskText(r)

PushUnique(items, item) ==
  IF \E i \in DOMAIN items : items[i] = item THEN items ELSE Append(items, item)

\* merge_skill_results, one result: into the lists of the report and of its output.
MergeInto(lists, r) ==
  IF r.status = "Success"
  THEN [lists EXCEPT !.evidence = PushUnique(@, EvidenceText(r))]
  ELSE [lists EXCEPT !.risks = PushUnique(@, RiskText(r)),
                     !.open_questions = PushUnique(@, QuestionText(r))]

Merged(lists, results) ==
  LET after[i \in 0..Len(results)] ==
        IF i = 0 THEN lists ELSE MergeInto(after[i - 1], results[i])
  IN  after[Len(results)]

MergeSkillResults(parsed, results) ==
  IF results = <<>> THEN parsed
  ELSE LET o == Merged(IF parsed.role_output = <<>> THEN EmptyOutput
                       ELSE parsed.role_output[1], results)
       IN  [Merged(parsed, results) EXCEPT
              !.role_output = <<o>>,
              !.content = IF FormatContent(o) # {} THEN FormatContent(o) ELSE @]
=============================================================================
