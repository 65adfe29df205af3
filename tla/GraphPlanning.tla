--------------------------- MODULE GraphPlanning ---------------------------
(***************************************************************************)
(* How a command becomes a task graph: the file of task graph rules is     *)
(* read and validated rule by rule, the search for dependency cycles       *)
(* included, and the first rule that matches the task gives the graph.  If *)
(* a rule is not valid the whole file is ignored; then, or if no rule      *)
(* matches, the graph is built from the keywords of the task.              *)
(*                                                                         *)
(* One action is one check of validate_rule, one step of the recursive     *)
(* visit of validate_rule_has_no_cycles, or the choice of the graph.       *)
(*                                                                         *)
(* Code: agent/commander/task_graph.rs (plan_task_graph and what it calls).*)
(***************************************************************************)
EXTENDS Naturals, Sequences, SequencesExt, TaskPlans

CONSTANTS
  Roles,      \* the runtime roles of RoleCatalog::configured()
  Requests    \* the rule files and tasks that are planned

\* A node of a rule or of a graph.  A worker is named after the role of the node;
\* complete: its id, title and objective are not blank.
RuleNode == [id : Node, role : Worker, complete : BOOLEAN, deps : SUBSET Node, max : 0..MaxU8]

\* matches: the keywords of the rule occur in the task.  named: its id is not blank.
Rule == [id : STRING, named : BOOLEAN, matches : BOOLEAN, nodes : Seq(RuleNode)]

\* The keyword lists of plan_builtin_task_graph.
Topic == {"marketing", "service", "web", "engineering", "data", "design",
          "budget", "campaign", "ops", "content"}

\* readable is FALSE for a missing file and for one that is no JSON of a rule set.
Request == [readable : BOOLEAN, rules : Seq(Rule), topics : SUBSET Topic, primary : Worker]

\* The roles that plan_builtin_task_graph names are roles, and a node may be called
\* by a role.
BuiltinRoles == {"service", "web", "engineering", "data", "design", "accounting",
                 "creative", "ops"}

ASSUME RequestsAreRequests == Requests \subseteq Request
ASSUME RolesAreNames == BuiltinRoles \subseteq Worker /\ Worker \subseteq Node

VARIABLES
  request,   \* what is planned
  stage,     \* check, search; or the verdict on the file: accepted, ignored
  rule,      \* the index of the rule under validation
  marks,     \* marks[n]: the VisitState of node n, "new" if it has none
  path,      \* the nodes of the calls of visit that have not returned
  left,      \* left[n]: what the loop of visit(n) has still to look at
  graph      \* the nodes of the graph, <<>> until there is one

vars == <<request, stage, rule, marks, path, left, graph>>

----------------------------------------------------------------------------
(* Graphs as the commander gets them                                       *)

Ids(nodes) == {nodes[i].id : i \in DOMAIN nodes}

DistinctIds(nodes) ==
  \A i, j \in DOMAIN nodes : nodes[i].id = nodes[j].id => i = j

Inputs(nodes) ==
  [n \in Node |-> UNION {nodes[i].deps : i \in {j \in DOMAIN nodes : nodes[j].id = n}}]

At(nodes, n) == CHOOSE i \in DOMAIN nodes : nodes[i].id = n

\* The same graph the way TaskGraph writes it.
AsPlan(nodes) ==
  [nodes  |-> Ids(nodes),
   inputs |-> Inputs(nodes),
   worker |-> [n \in Node |-> IF n \in Ids(nodes) THEN nodes[At(nodes, n)].role
                             ELSE CHOOSE w \in Worker : TRUE],
   max    |-> [n \in Node |-> IF n \in Ids(nodes) THEN nodes[At(nodes, n)].max ELSE 1]]

----------------------------------------------------------------------------
(* The graph of a rule and the graphs of the keywords                      *)

\* build_configured_task_graph
Configured(r) ==
  [i \in DOMAIN r.nodes |-> [r.nodes[i] EXCEPT !.max = IF @ = 0 THEN 1 ELSE @]]

\* node() with max_attempts = 2; the id of a builtin node is its role.
Builtin(role, deps) ==
  [id |-> role, role |-> role, complete |-> TRUE, deps |-> deps, max |-> 2]

When(condition, nodes) == IF condition THEN nodes ELSE <<>>

FaultyDataNodes(t) ==   \* ops waits for design and accounting, there or not
  <<Builtin("data", {})>>
    \o When("design" \in t, <<Builtin("design", {"data"})>>)
    \o When("budget" \in t, <<Builtin("accounting", {"data"})>>)
    \o When("ops" \in t, <<Builtin("ops", {"design", "accounting"})>>)

\* The branch of plan_builtin_task_graph for data: what else is asked for builds
\* on the diagnosis, and ops on all that stands before it.
DataNodes(t) ==
  LET campaign == {"marketing", "campaign"} \subseteq t
      design   == "design" \in t
      cost     == "budget" \in t \/ campaign
      before   == {r \in {"design", "accounting", "creative"} :
                     \/ r = "design" /\ design
                     \/ r = "accounting" /\ cost
                     \/ r = "creative" /\ campaign}
  IN  <<Builtin("data", {})>>
        \o When(design, <<Builtin("design", {"data"})>>)
        \o When(cost, <<Builtin("accounting", {"data"})>>)
        \o When(campaign, <<Builtin("creative", {"data"})>>)
        \o When("ops" \in t,
                <<Builtin("ops", IF before = {} THEN {"data"} ELSE before)>>)
        \o When("content" \in t /\ ~campaign, <<Builtin("creative", {"data"})>>)

\* plan_builtin_task_graph: the first list with a keyword in the task decides.
BuiltinNodes(t, primary) ==
  IF "service" \in t THEN <<Builtin("service", {})>>
  ELSE IF "web" \in t THEN <<Builtin("web", {})>>
  ELSE IF "engineering" \in t THEN <<Builtin("engineering", {})>>
  ELSE IF "data" \in t THEN DataNodes(t)
  ELSE IF "content" \in t THEN <<Builtin("ops", {}), Builtin("creative", {"ops"})>>
  ELSE <<Builtin(primary, {})>>

----------------------------------------------------------------------------
(* Validation                                                              *)

rules == request.rules
nodesOf == rules[rule].nodes
Deps == Inputs(nodesOf)

\* validate_rule up to the search: what one look at the rule finds.
Misses(r) ==
  \/ ~r.named \/ r.nodes = <<>>
  \/ ~DistinctIds(r.nodes)
  \/ \E i \in DOMAIN r.nodes :
       \/ ~r.nodes[i].complete
       \/ r.nodes[i].role \notin Roles
       \/ ~(r.nodes[i].deps \subseteq Ids(r.nodes))
       \/ r.nodes[i].id \in r.nodes[i].deps
  \/ \A i \in DOMAIN r.nodes : r.nodes[i].deps # {}

\* plan_configured_task_graph: the error is logged, the builtin graph is taken.
Ignore ==
  /\ stage' = "ignored"
  /\ graph' = BuiltinNodes(request.topics, request.primary)
  /\ UNCHANGED <<request, rule, marks, path, left>>

NoFile == stage = "check" /\ ~request.readable /\ Ignore

CheckRule ==
  /\ stage = "check" /\ request.readable /\ rule \in DOMAIN rules
  /\ \/ Misses(rules[rule]) /\ Ignore
     \/ /\ ~Misses(rules[rule])
        /\ stage' = "search"
        /\ marks' = [n \in Node |-> "new"]
        /\ UNCHANGED <<request, rule, path, left, graph>>

Enter(n) ==
  /\ marks' = [marks EXCEPT ![n] = "visiting"]
  /\ path' = Append(path, n)

\* validate_rule_has_no_cycles: visit of a node that no earlier visit reached.
VisitNode ==
  /\ stage = "search" /\ path = <<>>
  /\ \E n \in Ids(nodesOf) :
       /\ marks[n] = "new"
       /\ Enter(n)
       /\ left' = [left EXCEPT ![n] = Deps[n]]
  /\ UNCHANGED <<request, stage, rule, graph>>

FaultyVisitDependency ==   \* one visited set instead of two states
  /\ stage = "search" /\ path # <<>>
  /\ \E d \in left[Last(path)] :
       LET taken == [left EXCEPT ![Last(path)] = @ \ {d}]
       IN  \/ /\ marks[d] # "new"
              /\ left' = taken
              /\ UNCHANGED <<request, stage, rule, marks, path, graph>>
           \/ /\ marks[d] = "new"
              /\ Enter(d)
              /\ left' = [taken EXCEPT ![d] = Deps[d]]
              /\ UNCHANGED <<request, stage, rule, graph>>

\* The loop of visit takes the next dependency: a node on the path closes a
\* cycle, a finished one is done with, another one is visited.
VisitDependency ==
  /\ stage = "search" /\ path # <<>>
  /\ \E d \in left[Last(path)] :
       LET taken == [left EXCEPT ![Last(path)] = @ \ {d}]
       IN  \/ marks[d] = "visiting" /\ Ignore
           \/ /\ marks[d] = "done"
              /\ left' = taken
              /\ UNCHANGED <<request, stage, rule, marks, path, graph>>
           \/ /\ marks[d] = "new"
              /\ Enter(d)
              /\ left' = [taken EXCEPT ![d] = Deps[d]]
              /\ UNCHANGED <<request, stage, rule, graph>>

FaultyReturn ==   \* the mark is removed
  /\ stage = "search" /\ path # <<>> /\ left[Last(path)] = {}
  /\ marks' = [marks EXCEPT ![Last(path)] = "new"]
  /\ path' = Front(path)
  /\ UNCHANGED <<request, stage, rule, left, graph>>

Return ==
  /\ stage = "search" /\ path # <<>> /\ left[Last(path)] = {}
  /\ marks' = [marks EXCEPT ![Last(path)] = "done"]
  /\ path' = Front(path)
  /\ UNCHANGED <<request, stage, rule, left, graph>>

\* validate_task_graph_rules_with_catalog: a valid rule still needs an id of its own.
RulePasses ==
  /\ stage = "search" /\ path = <<>>
  /\ \A n \in Ids(nodesOf) : marks[n] = "done"
  /\ \/ (\E i \in 1..(rule - 1) : rules[i].id = rules[rule].id) /\ Ignore
     \/ /\ \A i \in 1..(rule - 1) : rules[i].id # rules[rule].id
        /\ rule' = rule + 1
        /\ stage' = "check"
        /\ UNCHANGED <<request, marks, path, left, graph>>

\* plan_task_graph_from_rules, once all rules are valid.
ChooseGraph ==
  /\ stage = "check" /\ request.readable /\ rule \notin DOMAIN rules
  /\ stage' = "accepted"
  /\ \/ \E i \in DOMAIN rules :
          /\ rules[i].matches /\ \A j \in 1..(i - 1) : ~rules[j].matches
          /\ graph' = Configured(rules[i])
     \/ /\ \A i \in DOMAIN rules : ~rules[i].matches
        /\ graph' = BuiltinNodes(request.topics, request.primary)
  /\ UNCHANGED <<request, rule, marks, path, left>>

Init ==
  /\ request \in Requests
  /\ stage = "check" /\ rule = 1
  /\ marks = [n \in Node |-> "new"]
  /\ path = <<>>
  /\ left = [n \in Node |-> {}]
  /\ graph = <<>>

Next ==
  \/ NoFile \/ CheckRule \/ ChooseGraph
  \/ VisitNode \/ VisitDependency \/ Return \/ RulePasses

Spec == Init /\ [][Next]_vars
----------------------------------------------------------------------------
(* Properties                                                              *)

TypeOK ==
  /\ request \in Request
  /\ stage \in {"check", "search", "accepted", "ignored"}
  /\ rule \in 1..(Len(rules) + 1)
  /\ marks \in [Node -> {"new", "visiting", "done"}]
  /\ path \in Seq(Node)
  /\ left \in [Node -> SUBSET Node]
  /\ graph \in Seq({n \in RuleNode : n.max > 0})

\* A valid rule: its nodes make a graph without a cycle.  That no node depends on
\* itself and that one has no dependency follows, so the search decides.
Valid(r) ==
  /\ r.named /\ r.nodes # <<>>
  /\ DistinctIds(r.nodes)
  /\ \A i \in DOMAIN r.nodes :
       /\ r.nodes[i].complete /\ r.nodes[i].role \in Roles
       /\ r.nodes[i].deps \subseteq Ids(r.nodes)
  /\ NoCycle(Ids(r.nodes), Inputs(r.nodes))

ValidRules ==
  /\ \A i \in DOMAIN rules : Valid(rules[i])
  /\ \A i, j \in DOMAIN rules : rules[i].id = rules[j].id => i = j

\* The checks and the search accept a file exactly when every rule is valid: no
\* cycle is missed, whatever the order of the visits that share their marks, and
\* no file is thrown away for nothing.
VerdictIsRight ==
  /\ stage = "accepted" => request.readable /\ ValidRules
  /\ stage = "ignored" => ~(request.readable /\ ValidRules)

\* Every graph the commander gets is what TaskGraph assumes of its plans, and
\* names no node twice.
PlanIsValid ==
  stage \in {"accepted", "ignored"} => DistinctIds(graph) /\ ValidPlan(AsPlan(graph))
=============================================================================
