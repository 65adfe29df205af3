--------------------------- MODULE CommandRouting ---------------------------
(***************************************************************************)
(* How a session and its commander route one command.  The session ranks   *)
(* the roles of the whole catalog and, with the fast route on, plans the   *)
(* graph of the task only to know which workers to start.  The commander   *)
(* ranks again, but only the roles that were started, and plans the graph  *)
(* again for its own route.  Then the task goes as a graph, straight to    *)
(* the primary role, or where the commander's cognition sends it.          *)
(*                                                                         *)
(* The two plannings are runs of GraphPlanning; what becomes of the        *)
(* decision is in TaskGraph and Collaboration.                             *)
(*                                                                         *)
(* Code: agent_session/session.rs (select_roles_for_task), roles/router.rs,*)
(* roles/catalog.rs, agent/commander/runner.rs (step_thinking and what it  *)
(* asks), agent/commander/routing.rs.                                      *)
(***************************************************************************)
EXTENDS GraphPlanning, FiniteSets, Positions

CONSTANTS
  BuiltinCatalog,   \* the roles of config/roles-default.json
  Commands          \* what is asked, and under which configuration

\* A role as far as routing reads it; complete: name, keywords and preferred
\* actions are there, the runtime role is a name of allowed characters.
RoleProfile == [id : STRING, role : Worker, priority : Nat, general : BOOLEAN,
                complete : BOOLEAN]

\* roles: the roles file, <<>> if it is missing or no JSON of a role set.
\* hits[r]: how many keywords of role r occur in the task.  fast, min: the options
\* of the commander, min as all scores in halves.  ask: what is planned.
Command == [roles : Seq(RoleProfile), hits : [Worker -> Nat], fast : BOOLEAN,
            min : Nat, ask : Request]

ASSUME CommandsAreCommands == Commands \subseteq Command

VARIABLES
  command,   \* the command, fixed
  phase,     \* preselect, think, plan, evaluate, decided
  planned,   \* the roles of the graph that the session planned
  started,   \* the roles whose workers were started, the commander's catalog
  decision   \* what the commander does

routingVars == <<command, phase, planned, started, decision>>
commandVars == <<vars, routingVars>>

----------------------------------------------------------------------------
(* Catalogs and routes                                                     *)

RolesOf(profiles) == [i \in DOMAIN profiles |-> profiles[i].role]

FaultyValidCatalog(profiles) ==   \* two roles may share a worker
  /\ profiles # <<>>
  /\ \A i \in DOMAIN profiles : profiles[i].complete
  /\ \A i, j \in DOMAIN profiles : profiles[i].id = profiles[j].id => i = j

\* validate_configured_roles
ValidCatalog(profiles) ==
  /\ profiles # <<>>
  /\ \A i \in DOMAIN profiles : profiles[i].complete
  /\ \A i, j \in DOMAIN profiles :
       (profiles[i].id = profiles[j].id \/ profiles[i].role = profiles[j].role) => i = j

\* RoleCatalog::builtin expects that its own file is valid.
ASSUME BuiltinCatalogIsValid ==
  BuiltinCatalog \in Seq(RoleProfile) /\ ValidCatalog(BuiltinCatalog)

\* RoleCatalog::configured: a file that is not valid is ignored as a whole.
Catalog == IF ValidCatalog(command.roles) THEN command.roles ELSE BuiltinCatalog

\* score_role without a preferred action, in halves: two for a keyword, and half a
\* point for the general domain, only on top of a keyword.
Score(p) ==
  LET hits == command.hits[p.role]
  IN  IF hits > 0 THEN 4 * hits + (IF p.general THEN 1 ELSE 0) ELSE 0

\* The stable sort of route puts profile i before profile j: score, hits, priority.
Above(profiles, i, j) ==
  LET p == profiles[i]  q == profiles[j]
      hits(r) == command.hits[r.role]
  IN  \/ Score(p) > Score(q)
      \/ Score(p) = Score(q) /\ hits(p) > hits(q)
      \/ Score(p) = Score(q) /\ hits(p) = hits(q) /\ p.priority < q.priority
      \/ Score(p) = Score(q) /\ hits(p) = hits(q) /\ p.priority = q.priority /\ i < j

\* Of the profiles at P, the one that the sort puts first.
First(profiles) ==
  [P \in SUBSET DOMAIN profiles |->
     CHOOSE i \in P : \A j \in P \ {i} : Above(profiles, i, j)]

\* take(max_roles - 1) of them once they are sorted; max_roles is 3.
FirstTwo(profiles) ==
  [P \in SUBSET DOMAIN profiles |->
     IF P = {} THEN <<>>
     ELSE LET best == First(profiles)[P]
          IN  <<best>> \o When(P # {best}, <<First(profiles)[P \ {best}]>>)]

\* find: the first profile with a role.
FirstNamed(profiles, r) ==
  CHOOSE i \in DOMAIN profiles :
    profiles[i].role = r /\ \A j \in 1..(i - 1) : profiles[j].role # r

Fallback(profiles) ==
  CASE Contains(RolesOf(profiles), "chat") -> profiles[FirstNamed(profiles, "chat")]
    [] ~Contains(RolesOf(profiles), "chat") /\ Contains(RolesOf(profiles), "ops") ->
         profiles[FirstNamed(profiles, "ops")]
    [] OTHER -> profiles[1]

\* RoleRouter::route of the task, and primary_route_score of the result.
RouteOver(profiles) ==
  LET best    == profiles[First(profiles)[DOMAIN profiles]]
      primary == IF Score(best) > 0 THEN best ELSE Fallback(profiles)
      others  == {i \in DOMAIN profiles :
                    profiles[i].id # primary.id /\ Score(profiles[i]) > 0}
      support == FirstTwo(profiles)[others]
  IN  [primary |-> primary.role,
       score   |-> Score(primary),
       support |-> [k \in DOMAIN support |-> profiles[support[k]].role]]

\* What is planned is the task, with the primary role of a route.
AskedWith(primary) == [command.ask EXCEPT !.primary = primary]

\* The loop of select_roles_for_task: each role once, what no profile has is left
\* out, and one is started at least.
Selected(names) ==
  LET firsts == {i \in DOMAIN names : /\ Contains(RolesOf(Catalog), names[i])
                                      /\ \A j \in 1..(i - 1) : names[j] # names[i]}
  IN  IF firsts = {} THEN <<Catalog[1]>>
      ELSE Picked([i \in DOMAIN names |-> Catalog[FirstNamed(Catalog, names[i])]], firsts)

WithChat(names) == IF Contains(names, "chat") THEN names ELSE Append(names, "chat")

----------------------------------------------------------------------------
(* The session                                                             *)

NoDecision == [way |-> "none", worker |-> "none"]

\* GraphPlanning at work, for the session or for the commander.
Planning ==
  /\ phase = "plan" \/ (phase = "preselect" /\ command.fast)
  /\ Next
  /\ UNCHANGED routingVars

HasPlanned == stage \in {"accepted", "ignored"}

Start(names) ==
  /\ phase' = "think"
  /\ started' = Selected(WithChat(names))

\* select_roles_for_task: the roles of the graph if the fast route is on, or those
\* of the route.  SessionRuntime::start starts a worker for each.
StartForGraph ==
  /\ phase = "preselect" /\ command.fast /\ HasPlanned
  /\ planned' = RolesOf(graph)
  /\ Start(RolesOf(graph))
  /\ UNCHANGED <<command, decision, vars>>

StartForRoute ==
  /\ phase = "preselect" /\ ~command.fast
  /\ \E roles \in {Catalog} : \E whole \in {RouteOver(roles)} :
       Start(<<whole.primary>> \o whole.support)
  /\ UNCHANGED <<command, planned, decision, vars>>

----------------------------------------------------------------------------
(* The commander                                                           *)

\* current_role_route: the router of the commander knows what was started.
route == RouteOver(started)

GoodEnough == command.fast /\ route.score >= command.min

\* try_task_graph_route and try_fast_route return early on a low score.
ThinkSlowly ==
  /\ phase = "think" /\ ~GoodEnough
  /\ phase' = "evaluate"
  /\ UNCHANGED <<command, planned, started, decision, vars>>

\* try_task_graph_route calls plan_task_graph once more.
PlanAgain ==
  /\ phase = "think" /\ GoodEnough
  /\ phase' = "plan"
  /\ request' = AskedWith(route.primary)
  /\ stage' = "check" /\ rule' = 1
  /\ marks' = [n \in Node |-> "new"]
  /\ path' = <<>>
  /\ left' = [n \in Node |-> {}]
  /\ graph' = <<>>
  /\ UNCHANGED <<command, planned, started, decision>>

Decide(way, w) ==
  /\ phase' = "decided"
  /\ decision' = [way |-> way, worker |-> w]
  /\ UNCHANGED <<command, planned, started, vars>>

\* A graph that needs a worker nobody started is not run; try_fast_route then
\* gives the task to the primary role, which always has one.
RunGraph ==
  /\ phase = "plan" /\ HasPlanned
  /\ ToSet(RolesOf(graph)) \subseteq ToSet(RolesOf(started))
  /\ Decide("graph", "none")

TakeFastRoute ==
  /\ phase = "plan" /\ HasPlanned
  /\ ~(ToSet(RolesOf(graph)) \subseteq ToSet(RolesOf(started)))
  /\ Decide("fast", route.primary)

\* decision_intent_from_json with a task at hand: the kinds of output that start
\* it, and those (any text among them) that are only replied to.  A target is a
\* worker, or one that does not exist, or is left to the route.
Kind == {"RouteTask", "ActionIntent", "KeepCurrentAssignment", "AskForClarification",
         "NoRoute", "NoAction", "StateProposal", "StrategyHint", "failure"}

DecisionIntent(kind) ==
  IF kind \in {"RouteTask", "ActionIntent"} THEN "ExecuteTask" ELSE "reply"

Evaluate ==
  /\ phase = "evaluate"
  /\ \/ \E kind \in Kind : DecisionIntent(kind) = "reply" /\ Decide("reply", "none")
     \/ \E kind \in Kind, target \in Worker :
          /\ DecisionIntent(kind) = "ExecuteTask"
          /\ Decide(IF Contains(RolesOf(started), target) THEN "task" ELSE "undelivered",
                    target)
     \/ \E kind \in Kind :   \* without a target
          DecisionIntent(kind) = "ExecuteTask" /\ Decide("task", route.primary)

CommandInit ==
  /\ command \in Commands
  /\ \E roles \in {Catalog} : request = AskedWith(RouteOver(roles).primary)
  /\ Init
  /\ phase = "preselect"
  /\ planned = <<>> /\ started = <<>>
  /\ decision = NoDecision

CommandNext ==
  \/ Planning \/ StartForGraph \/ StartForRoute
  \/ ThinkSlowly \/ PlanAgain \/ RunGraph \/ TakeFastRoute \/ Evaluate

\* Session and commander run to their decision; a cognition ends by its timeout.
CommandSpec == CommandInit /\ [][CommandNext]_commandVars /\ WF_commandVars(CommandNext)
----------------------------------------------------------------------------
(* Properties                                                              *)

\* What the session prepares is what the commander needs, though each ranks the
\* roles of another catalog: the commander plans the graph that the session
\* planned; it runs it unless the catalog lacks a role of the graph, never because
\* a worker was not started; and without the fast route both find the same primary
\* and the same supporting roles.
RoutesAgree ==
  phase = "decided" =>
    /\ decision.way \in {"graph", "fast"} => RolesOf(graph) = planned
    /\ decision.way = "fast" => ~(ToSet(planned) \subseteq ToSet(RolesOf(Catalog)))
    /\ ~command.fast => route = RouteOver(Catalog)

\* However the rules, the roles and the scores are, the command is decided: both
\* searches for cycles return.
CommandIsDecided == <>(phase = "decided")
=============================================================================
