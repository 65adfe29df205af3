-------------------------- MODULE ReportEvaluation --------------------------
(***************************************************************************)
(* The rules by which the commander judges the report of a node.  A text   *)
(* is the set of what the rules look for in it: "some" (it is not empty),  *)
(* "full" (8 characters or more), "domain" (words of the role's trade),    *)
(* words that betray a bad answer, and what it cites.                      *)
(*                                                                         *)
(* Code: agent/commander/task_graph.rs, evaluate_report and below.         *)
(***************************************************************************)
EXTENDS Naturals, Sequences, FiniteSets

RoleWorkOutput ==
  [summary : SUBSET STRING, findings : Seq(SUBSET STRING),
   recommendations : Seq(SUBSET STRING), evidence : Seq(SUBSET STRING),
   risks : Seq(SUBSET STRING), open_questions : Seq(SUBSET STRING)]

\* RoleWorkOutput::default
EmptyOutput ==
  [summary |-> {}, findings |-> <<>>, recommendations |-> <<>>,
   evidence |-> <<>>, risks |-> <<>>, open_questions |-> <<>>]

Joined(items) == UNION {items[i] : i \in DOMAIN items}

When(condition, reason) == IF condition THEN {reason} ELSE {}

FaultyOpenQuestionsAreBlocking(output, questions) ==   \* any question blocks
  questions # <<>>

\* open_questions_are_blocking; output is <<>> or <<o>>.
OpenQuestionsAreBlocking(output, questions) ==
  /\ questions # <<>>
  /\ \/ "blocking" \in Joined(questions)
     \/ output = <<>>
     \/ output[1].summary = {}
     \/ output[1].findings = <<>> /\ output[1].recommendations = <<>>

\* evaluate_role_output: which list every role must fill and in which text its
\* words must stand.
NeedsRecommendation == {"design", "creative", "service", "web"}
NeedsRisk == {"data", "accounting", "engineering"}
DomainInFindings == {"accounting", "engineering"}
DomainInRecommendations == {"design", "creative", "service", "web"}

EvaluateRoleOutput(role, o) ==
  When(o.summary = {}, "summary empty")
  \cup When(OpenQuestionsAreBlocking(<<o>>, o.open_questions), "open questions")
  \cup When("tool" \in o.summary \cup Joined(o.findings) \cup Joined(o.recommendations),
            "claims a tool")
  \cup When(role = "data" /\ Len(o.findings) < 2, "findings")
  \cup When(role = "ops" /\ Len(o.recommendations) < 3, "recommendations")
  \cup When(role \in NeedsRecommendation /\ o.recommendations = <<>>, "recommendations")
  \cup When(role \in NeedsRisk /\ o.risks = <<>>, "risks")
  \cup When(role \in DomainInFindings /\ "domain" \notin o.summary \cup Joined(o.findings),
            "off topic")
  \cup When(role \in DomainInRecommendations
              /\ "domain" \notin o.summary \cup Joined(o.recommendations), "off topic")

IsActionOrientedRole(role) ==
  role \in {"ops", "design", "creative", "service", "engineering", "web"}
IsRiskSensitiveRole(role) ==
  role \in {"ops", "data", "accounting", "engineering", "service", "web"}

EvaluateQualityContract(report, o) ==
  LET content == o.summary \cup Joined(o.findings) \cup Joined(o.recommendations)
                   \cup Joined(o.risks) \cup report.content
  IN  When("full" \notin o.summary, "summary thin")
      \cup When(o.findings = <<>> /\ o.recommendations = <<>>, "nothing found")
      \cup When("external" \in content, "fabrication")
      \cup When(IsActionOrientedRole(report.role) /\ o.recommendations = <<>>,
                "recommendations")
      \cup When(IsRiskSensitiveRole(report.role) /\ o.risks = <<>>, "risks")
      \cup When("refusal" \in content /\ o.open_questions = <<>>, "refusal")

\* evaluate_upstream_evidence: inputs are the node's input_refs, roleOf the roles
\* of the reports that are there.
EvaluateUpstreamEvidence(inputs, roleOf, o) ==
  LET cited(n) == \/ n \in Joined(o.evidence)
                  \/ n \in DOMAIN roleOf /\ roleOf[n] \in Joined(o.evidence)
  IN  When(\E n \in inputs : ~cited(n), "citation")

\* evaluate_report: the reasons why the report does not pass.
EvaluateReport(report, inputs, roleOf) ==
  When(report.status = "Failed", "failed")
  \cup When(report.content = {}, "content empty")
  \cup When(OpenQuestionsAreBlocking(report.role_output, report.open_questions),
            "open questions")
  \cup (IF report.role_output = <<>> THEN {"no role output"}
        ELSE LET o == report.role_output[1]
             IN  EvaluateRoleOutput(report.role, o)
                   \cup EvaluateQualityContract(report, o)
                   \cup EvaluateUpstreamEvidence(inputs, roleOf, o))
  \cup When("placeholder" \in report.content, "placeholder")
=============================================================================
