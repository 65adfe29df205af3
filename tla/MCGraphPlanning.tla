-------------------------- MODULE MCGraphPlanning --------------------------
(* Instances of CommandRouting: small rule files, every set of keywords, and    *)
(* small catalogs with every count of hits.                                     *)
EXTENDS CommandRouting

MCRoles == {"chat", "ops", "data", "design", "creative", "accounting", "web",
            "service", "engineering"}
MCWorker == MCRoles \cup {"pilot"}   \* a role the catalog does not have
MCNode == MCWorker \cup {"n1", "n2", "n3", "n4", "ghost"}

FileOf(rs, t) == [readable |-> TRUE, rules |-> rs, topics |-> t, primary |-> "chat"]
RuleOf(name, matches, nodes) ==
  [id |-> name, named |-> TRUE, matches |-> matches, nodes |-> nodes]
NodeOf(n, deps, k) ==
  [id |-> n, role |-> "ops", complete |-> TRUE, deps |-> deps, max |-> k]

\* The keywords of "campaign" are also keywords of one of three other lists.
Topics == {t \in SUBSET Topic :
             "campaign" \in t => t \cap {"marketing", "data", "ops"} # {}}

\* Without a file, every set of keywords.
Keywords == {[readable |-> FALSE, rules |-> <<>>, topics |-> t, primary |-> "chat"] :
               t \in Topics}

\* One rule over four nodes with any dependencies of a node on others.
Names == <<"n1", "n2", "n3", "n4">>
Graphs4 ==
  {FileOf(<<RuleOf("a", TRUE, [i \in 1..4 |-> NodeOf(Names[i], d[i], 0)])>>, {}) :
     d \in {f \in [1..4 -> SUBSET Range(Names)] : \A i \in 1..4 : Names[i] \notin f[i]}}

\* One rule with whatever validate_rule looks for.
Flawed ==
  {FileOf(<<[id |-> "a", named |-> named, matches |-> TRUE,
             nodes |-> SubSeq(<<NodeOf("n1", d, 0),
                                [id |-> second, role |-> role, complete |-> complete,
                                 deps |-> e, max |-> 2]>>, 1, size)]>>, {"data"}) :
     named, complete \in BOOLEAN, size \in {0, 2}, role \in {"ops", "pilot"},
     second \in {"n1", "n2"}, d \in SUBSET {"n1", "n2", "ghost"},
     e \in SUBSET {"n1", "n2"}}

\* Two rules over two nodes: their ids, which of them match, one search after another.
Pairs ==
  LET Small == {RuleOf(name, matches, <<NodeOf("n1", d, 1), NodeOf("n2", e, 2)>>) :
                  name \in {"a", "b"}, matches \in BOOLEAN,
                  d \in SUBSET {"n2"}, e \in SUBSET {"n1"}}
  IN  {FileOf(<<r, s>>, {"service"}) : r \in Small, s \in Small}

NoRules == {FileOf(<<>>, {"content"})}

----------------------------------------------------------------------------
\* The priorities of config/roles-default.json, in its order.
DefaultRoles ==
  LET names == <<"chat", "ops", "data", "service", "creative", "engineering",
                 "accounting", "design", "web">>
  IN  [i \in DOMAIN names |-> [id |-> names[i], role |-> names[i], priority |-> 10 * i,
                               general |-> TRUE, complete |-> TRUE]]

MCBuiltinCatalog == DefaultRoles

Hits(some) == [w \in MCWorker |-> IF w \in DOMAIN some THEN some[w] ELSE 0]

CommandOf(roles, some, fast, min, ask) ==
  [roles |-> roles, hits |-> Hits(some), fast |-> fast, min |-> min, ask |-> ask]

\* What is planned, with the builtin roles.  A rule file is searched once, by the
\* session: the task has no hit and the commander wants one.
Planned ==
  {CommandOf(<<>>, [creative |-> h], TRUE, 0, ask) : h \in {0, 1}, ask \in Keywords}
    \cup {CommandOf(<<>>, [chat |-> 0], TRUE, 4, ask) : ask \in Graphs4 \cup Flawed}
    \cup {CommandOf(<<>>, [chat |-> 0], TRUE, 0, ask) : ask \in Pairs \cup NoRules}

\* Three roles of a file: with the names that the fallback looks for or without,
\* with equal priorities, a role twice; and files with an id twice or a role that
\* is not complete.
Profile(id, role, k, general) ==
  [id |-> id, role |-> role, priority |-> k, general |-> general, complete |-> TRUE]

Files ==
  {<<Profile("a", r, 1, TRUE), Profile("b", s, k, general), Profile("c", t, 1, TRUE)>> :
     r \in {"pilot", "ops"}, s \in {"data", "ops"}, t \in {"pilot", "chat"},
     k \in {1, 2}, general \in BOOLEAN}
    \cup {<<Profile("a", "data", 1, TRUE), [Profile(id, "pilot", 1, TRUE) EXCEPT !.complete = FALSE]>> :
            id \in {"a", "b"}}
    \cup {<<Profile("a", "data", 1, TRUE), Profile("a", "pilot", 1, TRUE)>>}

\* Up to two hits for the roles of a file, or for four of the builtin ones.
SomeHits == {f \in [{"chat", "ops", "data", "pilot"} -> 0..2] : f["chat"] < 2 /\ f["ops"] < 2}

Asks == {[readable |-> FALSE, rules |-> <<>>, topics |-> t, primary |-> "chat"] :
           t \in {{}, {"data", "ops"}, {"content"}}}

\* Without the fast route nothing is planned.
Routed ==
  {CommandOf(roles, some, TRUE, min, ask) :
     roles \in Files \cup {<<>>}, some \in SomeHits, min \in {0, 4}, ask \in Asks}
    \cup {CommandOf(roles, some, FALSE, 0, ask) :
            roles \in Files \cup {<<>>}, some \in SomeHits,
            ask \in {a \in Asks : a.topics = {}}}

PlannedOrRouted == Planned \cup Routed
MCCommands == PlannedOrRouted

\* The route puts the primary role in.
PlannedRequests ==
  Graphs4 \cup Flawed \cup Pairs
    \cup {[ask EXCEPT !.primary = p] : ask \in Keywords \cup NoRules \cup Asks, p \in MCWorker}
MCRequests == PlannedRequests
=============================================================================
