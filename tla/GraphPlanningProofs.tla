----------------------- MODULE GraphPlanningProofs -----------------------
(***************************************************************************)
(* The validation of task graph rules is right for rules of any size: the  *)
(* depth-first search, whose visits share their marks, accepts a graph     *)
(* exactly when every nonempty set of its nodes has one that depends on    *)
(* none of them; and what is planned is a valid graph, whatever the        *)
(* keywords of the task.                                                   *)
(*                                                                         *)
(* The session and the commander agree on a command for catalogs of any    *)
(* size and any scores, though each ranks and plans for itself.            *)
(***************************************************************************)
EXTENDS CommandRouting, SequenceTheorems, FiniteSetTheorems, WellFoundedInduction,
        TLAPS

----------------------------------------------------------------------------
(* Graphs                                                                  *)

\* The dependency map of a list of nodes and the ids in it are made of nodes.
LEMMA InputsAreTyped ==
  ASSUME NEW nodes \in Seq(RuleNode)
  PROVE  /\ Inputs(nodes) \in [Node -> SUBSET Node]
         /\ Ids(nodes) \subseteq Node
         /\ DOMAIN nodes = 1..Len(nodes) /\ Len(nodes) \in Nat
<1>1. DOMAIN nodes = 1..Len(nodes) /\ Len(nodes) \in Nat
  OBVIOUS
<1>2. \A i \in DOMAIN nodes : nodes[i] \in RuleNode
  BY <1>1
<1>3. \A i \in DOMAIN nodes : nodes[i].id \in Node /\ nodes[i].deps \subseteq Node
  BY <1>2 DEF RuleNode
<1> QED
  BY <1>1, <1>3 DEF Inputs, Ids

\* With distinct ids a node depends on what its one declaration names.
LEMMA InputsOfANode ==
  ASSUME NEW nodes \in Seq(RuleNode), DistinctIds(nodes), NEW i \in DOMAIN nodes
  PROVE  Inputs(nodes)[nodes[i].id] = nodes[i].deps
<1>1. nodes[i].id \in Node
  BY InputsAreTyped DEF Ids
<1>2. {j \in DOMAIN nodes : nodes[j].id = nodes[i].id} = {i}
  BY DEF DistinctIds
<1>3. Inputs(nodes)[nodes[i].id] = UNION {nodes[k].deps : k \in {i}}
  BY <1>1, <1>2 DEF Inputs
<1> QED
  BY <1>3

\* A finished node may join the finished ones: visit returns when all its
\* dependencies are done.
LEMMA DoneMayGrow ==
  ASSUME NEW D \in [Node -> SUBSET Node], NEW A \in SUBSET Node, NEW n \in Node \ A,
         NoCycle(A, D), \A a \in A : D[a] \subseteq A, D[n] \subseteq A
  PROVE  NoCycle(A \cup {n}, D)
<1> SUFFICES ASSUME NEW S \in SUBSET (A \cup {n}), S # {}
             PROVE  \E m \in S : D[m] \cap S = {}
  BY DEF NoCycle
<1>1. CASE S \cap A = {}
  <2>1. S = {n}
    BY <1>1
  <2> QED
    BY <2>1
<1>2. CASE S \cap A # {}
  <2>1. PICK m \in S \cap A : D[m] \cap (S \cap A) = {}
    BY <1>2 DEF NoCycle
  <2>2. D[m] \subseteq A
    BY <2>1
  <2>3. D[m] \cap S = {}
    BY <2>1, <2>2
  <2> QED
    BY <2>1, <2>3
<1> QED
  BY <1>1, <1>2

\* A dependency of the last node of a path on a node of the path closes a cycle.
LEMMA PathClosesCycle ==
  ASSUME NEW N, NEW D, NEW p \in Seq(N), NEW k \in 1..Len(p),
         \A i \in 1..(Len(p) - 1) : p[i + 1] \in D[p[i]],
         p[k] \in D[p[Len(p)]]
  PROVE  ~NoCycle(N, D)
<1> DEFINE S == {p[i] : i \in k..Len(p)}
<1>1. Len(p) \in Nat /\ DOMAIN p = 1..Len(p) /\ \A i \in 1..Len(p) : p[i] \in N
  OBVIOUS
<1>2. S \in SUBSET N /\ p[k] \in S
  BY <1>1
<1>3. ASSUME NEW m \in S PROVE D[m] \cap S # {}
  <2>1. PICK i \in k..Len(p) : m = p[i]
    OBVIOUS
  <2>2. CASE i = Len(p)
    BY <1>2, <2>1, <2>2
  <2>3. CASE i # Len(p)
    <3>1. i \in 1..(Len(p) - 1) /\ i + 1 \in k..Len(p)
      <4>1. Len(p) \in Nat /\ k \in 1..Len(p) /\ i \in k..Len(p)
        BY <1>1
      <4> QED
        BY <2>3, <4>1
    <3>2. p[i + 1] \in D[p[i]] /\ p[i + 1] \in S
      BY <3>1
    <3> QED
      BY <2>1, <3>2
  <2> QED
    BY <2>2, <2>3
<1> HIDE DEF S
<1> QED
  BY <1>2, <1>3 DEF NoCycle

\* What validate_rule finds before the search is a flaw indeed: a node that
\* depends on itself is a cycle, and so are all nodes together if none is a root.
LEMMA MissesAreFlaws ==
  ASSUME NEW r \in Rule, Misses(r)
  PROVE  ~Valid(r)
<1> SUFFICES ASSUME Valid(r) PROVE FALSE
  OBVIOUS
<1> DEFINE D == Inputs(r.nodes)
<1>1. r.nodes \in Seq(RuleNode)
  BY DEF Rule
<1>2. r.nodes # <<>> /\ DistinctIds(r.nodes) /\ NoCycle(Ids(r.nodes), D)
  BY DEF Valid
<1>3. \A i \in DOMAIN r.nodes : r.nodes[i].id \in Ids(r.nodes)
                              /\ D[r.nodes[i].id] = r.nodes[i].deps
  BY <1>1, <1>2, InputsOfANode DEF Ids
<1>4. ASSUME NEW i \in DOMAIN r.nodes, r.nodes[i].id \in r.nodes[i].deps
      PROVE  FALSE
  <2>1. {r.nodes[i].id} \in SUBSET Ids(r.nodes)
    BY <1>3
  <2>2. PICK n \in {r.nodes[i].id} : D[n] \cap {r.nodes[i].id} = {}
    BY <1>2, <2>1 DEF NoCycle
  <2> QED
    BY <1>3, <1>4, <2>2
<1>5. ASSUME \A i \in DOMAIN r.nodes : r.nodes[i].deps # {}
      PROVE  FALSE
  <2>1. Ids(r.nodes) # {}
    <3>1. 1 \in DOMAIN r.nodes
      BY <1>1, <1>2
    <3> QED
      BY <3>1 DEF Ids
  <2>2. PICK n \in Ids(r.nodes) : D[n] \cap Ids(r.nodes) = {}
    BY <1>2, <2>1 DEF NoCycle
  <2>3. PICK i \in DOMAIN r.nodes : n = r.nodes[i].id
    BY DEF Ids
  <2>4. D[n] # {} /\ D[n] \subseteq Ids(r.nodes)
    BY <1>3, <1>5, <2>3 DEF Valid
  <2> QED
    BY <2>2, <2>4
<1> QED
  BY <1>4, <1>5 DEF Misses, Valid
----------------------------------------------------------------------------
(* The path of the search: the nodes whose visit has not returned.  A are  *)
(* the finished nodes, lf is what each node has still to look at.          *)

\* Each node on the path depends on the next one, and what it has looked at is
\* finished, but for that next one.
PathOK(p, lf, A, D) ==
  /\ \A i, j \in 1..Len(p) : p[i] = p[j] => i = j
  /\ \A i \in 1..Len(p) :
       /\ lf[p[i]] \subseteq D[p[i]]
       /\ i < Len(p) => /\ p[i + 1] \in D[p[i]]
                        /\ D[p[i]] \ lf[p[i]] \subseteq A \cup {p[i + 1]}
       /\ i = Len(p) => D[p[i]] \ lf[p[i]] \subseteq A

\* What Append does to a path, element by element.
LEMMA SeqFacts ==
  ASSUME NEW p \in Seq(Node)
  PROVE  /\ Len(p) \in Nat /\ DOMAIN p = 1..Len(p)
         /\ \A i \in 1..Len(p) : p[i] \in Node
         /\ p # <<>> <=> Len(p) > 0
         /\ \A d \in Node : /\ Append(p, d) \in Seq(Node)
                            /\ Len(Append(p, d)) = Len(p) + 1
                            /\ \A i \in 1..Len(p) : Append(p, d)[i] = p[i]
                            /\ Append(p, d)[Len(p) + 1] = d
OBVIOUS

\* What Last and Front take from a nonempty path, element by element.
LEMMA FrontFacts ==
  ASSUME NEW p \in Seq(Node), p # <<>>
  PROVE  /\ Last(p) = p[Len(p)] /\ Last(p) \in Node
         /\ Front(p) \in Seq(Node)
         /\ Len(Front(p)) = Len(p) - 1
         /\ \A i \in 1..(Len(p) - 1) : Front(p)[i] = p[i]
BY DEF Last, Front

\* visit calls itself for a new dependency d of the last node: the longer path is
\* one as well, and the last node has d ahead of it instead of among its open ones.
LEMMA PathGrows ==
  ASSUME NEW D \in [Node -> SUBSET Node], NEW lf \in [Node -> SUBSET Node],
         NEW A \in SUBSET Node, NEW p \in Seq(Node), p # <<>>, PathOK(p, lf, A, D),
         NEW d \in lf[Last(p)], \A i \in 1..Len(p) : p[i] # d
  PROVE  PathOK(Append(p, d),
                [[lf EXCEPT ![Last(p)] = @ \ {d}] EXCEPT ![d] = D[d]], A, D)
<1> DEFINE n  == Len(p)
           q  == Append(p, d)
           l2 == [[lf EXCEPT ![Last(p)] = @ \ {d}] EXCEPT ![d] = D[d]]
<1>1. n \in Nat /\ n > 0 /\ Last(p) = p[n] /\ d \in Node /\ \A i \in 1..n : p[i] \in Node
  BY SeqFacts, FrontFacts
<1>2. Len(q) = n + 1 /\ q[n + 1] = d /\ \A i \in 1..n : q[i] = p[i]
  BY <1>1, SeqFacts
<1>3. /\ l2[d] = D[d] /\ l2[p[n]] = lf[p[n]] \ {d}
      /\ \A i \in 1..n : i # n => l2[p[i]] = lf[p[i]]
  BY <1>1 DEF PathOK
<1> HIDE DEF n, q, l2
<1>4. \A i, j \in 1..(n + 1) : q[i] = q[j] => i = j
  <2> SUFFICES ASSUME NEW i \in 1..(n + 1), NEW j \in 1..(n + 1), q[i] = q[j]
               PROVE  i = j
    OBVIOUS
  <2>1. \A k \in 1..(n + 1) : k \in 1..n \/ k = n + 1
    BY <1>1
  <2> QED
    BY <1>1, <1>2, <2>1 DEF PathOK, n
<1>5. ASSUME NEW i \in 1..(n + 1)
      PROVE  /\ l2[q[i]] \subseteq D[q[i]]
             /\ i < n + 1 => /\ q[i + 1] \in D[q[i]]
                             /\ D[q[i]] \ l2[q[i]] \subseteq A \cup {q[i + 1]}
             /\ i = n + 1 => D[q[i]] \ l2[q[i]] \subseteq A
  <2>1. CASE i = n + 1
    BY <1>1, <1>2, <1>3, <2>1
  <2>2. CASE i = n
    <3>1. n \in 1..n /\ n < n + 1 /\ n # n + 1
      BY <1>1
    <3>2. lf[p[n]] \subseteq D[p[n]] /\ D[p[n]] \ lf[p[n]] \subseteq A
      BY <3>1 DEF PathOK, n
    <3>3. q[n] = p[n] /\ q[n + 1] = d /\ d \in D[p[n]]
      BY <1>1, <1>2, <3>1, <3>2
    <3> QED
      BY <1>3, <2>2, <3>1, <3>2, <3>3
  <2>3. CASE i < n
    <3>1. i \in 1..n /\ i + 1 \in 1..n /\ i # n /\ i # n + 1
      BY <1>1, <2>3
    <3>2. /\ lf[p[i]] \subseteq D[p[i]] /\ p[i + 1] \in D[p[i]]
          /\ D[p[i]] \ lf[p[i]] \subseteq A \cup {p[i + 1]}
      BY <2>3, <3>1 DEF PathOK, n
    <3>3. q[i] = p[i] /\ q[i + 1] = p[i + 1] /\ l2[p[i]] = lf[p[i]]
      BY <1>2, <1>3, <3>1
    <3> QED
      BY <3>1, <3>2, <3>3
  <2> QED
    BY <1>1, <2>1, <2>2, <2>3
<1> QED
  BY <1>2, <1>4, <1>5 DEF PathOK, q, l2

\* visit passes over a dependency that is done: the path stays one.
LEMMA PathProceeds ==
  ASSUME NEW D \in [Node -> SUBSET Node], NEW lf \in [Node -> SUBSET Node],
         NEW A \in SUBSET Node, NEW p \in Seq(Node), p # <<>>, PathOK(p, lf, A, D),
         NEW d \in A
  PROVE  PathOK(p, [lf EXCEPT ![Last(p)] = @ \ {d}], A, D)
<1> DEFINE n  == Len(p)
           l2 == [lf EXCEPT ![Last(p)] = @ \ {d}]
<1>1. n \in Nat /\ n > 0 /\ Last(p) = p[n] /\ \A i \in 1..n : p[i] \in Node
  BY SeqFacts, FrontFacts
<1>2. /\ l2[p[n]] = lf[p[n]] \ {d}
      /\ \A i \in 1..n : i # n => l2[p[i]] = lf[p[i]]
  BY <1>1 DEF PathOK
<1> HIDE DEF l2
<1>3. ASSUME NEW i \in 1..n
      PROVE  /\ l2[p[i]] \subseteq D[p[i]]
             /\ i < n => /\ p[i + 1] \in D[p[i]]
                         /\ D[p[i]] \ l2[p[i]] \subseteq A \cup {p[i + 1]}
             /\ i = n => D[p[i]] \ l2[p[i]] \subseteq A
  <2>1. CASE i = n
    BY <1>1, <1>2, <2>1 DEF PathOK
  <2>2. CASE i # n
    BY <1>1, <1>2, <2>2 DEF PathOK
  <2> QED
    BY <2>1, <2>2
<1> QED
  BY <1>3 DEF PathOK, l2

\* visit returns: the shorter path is one, with the last node among the finished.
LEMMA PathShrinks ==
  ASSUME NEW D \in [Node -> SUBSET Node], NEW lf \in [Node -> SUBSET Node],
         NEW A \in SUBSET Node, NEW p \in Seq(Node), p # <<>>, PathOK(p, lf, A, D)
  PROVE  PathOK(Front(p), lf, A \cup {Last(p)}, D)
<1> DEFINE n == Len(p)
           q == Front(p)
<1>1. /\ n \in Nat /\ n > 0 /\ Last(p) = p[n] /\ Len(q) = n - 1
      /\ \A i \in 1..(n - 1) : q[i] = p[i]
  BY SeqFacts, FrontFacts
<1> HIDE DEF q
<1>2. \A i, j \in 1..(n - 1) : q[i] = q[j] => i = j
  BY <1>1 DEF PathOK
<1>3. ASSUME NEW i \in 1..(n - 1)
      PROVE  /\ lf[q[i]] \subseteq D[q[i]]
             /\ i < n - 1 => /\ q[i + 1] \in D[q[i]]
                             /\ D[q[i]] \ lf[q[i]] \subseteq A \cup {p[n]} \cup {q[i + 1]}
             /\ i = n - 1 => D[q[i]] \ lf[q[i]] \subseteq A \cup {p[n]}
  <2>1. i \in 1..n /\ i < n /\ q[i] = p[i]
    BY <1>1
  <2>2. /\ lf[p[i]] \subseteq D[p[i]] /\ p[i + 1] \in D[p[i]]
        /\ D[p[i]] \ lf[p[i]] \subseteq A \cup {p[i + 1]}
    BY <2>1 DEF PathOK
  <2>3. /\ i < n - 1 => q[i + 1] = p[i + 1]
        /\ i = n - 1 => i + 1 = n
    BY <1>1
  <2> QED
    BY <2>1, <2>2, <2>3
<1> QED
  BY <1>1, <1>2, <1>3 DEF PathOK, q
----------------------------------------------------------------------------
(* The invariant                                                           *)

Finished == {n \in Node : marks[n] = "done"}

Typed ==
  /\ request \in Request
  /\ stage \in {"check", "search", "accepted", "ignored"}
  /\ rule \in 1..(Len(rules) + 1)
  /\ marks \in [Node -> {"new", "visiting", "done"}]
  /\ path \in Seq(Node)
  /\ left \in [Node -> SUBSET Node]

\* The rules before the current one are valid and have different ids.
Checked ==
  \A i \in 1..(rule - 1) :
    Valid(rules[i]) /\ \A j \in 1..(rule - 1) : rules[i].id = rules[j].id => i = j

\* The state of the search: the finished nodes make a graph without a cycle that
\* no dependency leaves, and the nodes being visited are those on the path.
Searching ==
  stage = "search" =>
    /\ request.readable /\ rule \in DOMAIN rules /\ ~Misses(rules[rule])
    /\ \A n \in Node : marks[n] # "new" => n \in Ids(nodesOf)
    /\ \A i \in 1..Len(path) : marks[path[i]] = "visiting"
    /\ \A n \in Node : marks[n] = "visiting" => \E i \in 1..Len(path) : path[i] = n
    /\ \A n \in Finished : Deps[n] \subseteq Finished
    /\ NoCycle(Finished, Deps)
    /\ PathOK(path, left, Finished, Deps)

IInv ==
  /\ Typed /\ Checked /\ Searching /\ VerdictIsRight
  /\ stage = "check" => path = <<>>

\* The rule under validation, its nodes and its dependency map have their types.
LEMMA RuleIsTyped ==
  ASSUME Typed, rule \in DOMAIN rules
  PROVE  /\ rules \in Seq(Rule) /\ rules[rule] \in Rule
         /\ nodesOf \in Seq(RuleNode)
         /\ Deps \in [Node -> SUBSET Node]
         /\ Ids(nodesOf) \subseteq Node
<1>1. rules \in Seq(Rule)
  BY DEF Typed, Request, rules
<1>2. rules[rule] \in Rule
  BY <1>1
<1>3. nodesOf \in Seq(RuleNode)
  BY <1>2 DEF Rule, nodesOf
<1> QED
  BY <1>1, <1>2, <1>3, InputsAreTyped DEF Deps

\* A rule without a flaw at first sight has all it needs but for cycles.
LEMMA RulesWithoutMisses ==
  ASSUME NEW r \in Rule, ~Misses(r)
  PROVE  /\ Valid(r) <=> NoCycle(Ids(r.nodes), Inputs(r.nodes))
         /\ \A n \in Ids(r.nodes) : Inputs(r.nodes)[n] \subseteq Ids(r.nodes)
<1>1. r.nodes \in Seq(RuleNode)
  BY DEF Rule
<1>2. /\ r.named /\ r.nodes # <<>> /\ DistinctIds(r.nodes)
      /\ \A i \in DOMAIN r.nodes : /\ r.nodes[i].complete /\ r.nodes[i].role \in Roles
                                   /\ r.nodes[i].deps \subseteq Ids(r.nodes)
  BY DEF Misses
<1>3. \A i \in DOMAIN r.nodes : Inputs(r.nodes)[r.nodes[i].id] = r.nodes[i].deps
  BY <1>1, <1>2, InputsOfANode
<1>4. \A n \in Ids(r.nodes) : Inputs(r.nodes)[n] \subseteq Ids(r.nodes)
  BY <1>2, <1>3 DEF Ids
<1> QED
  BY <1>2, <1>4 DEF Valid

\* If a file has a rule that is not valid or a second rule of the same id, it is
\* right to ignore it, and nothing is left to show.
LEMMA IgnoreKeeps ==
  ASSUME IInv, Ignore, request.readable => ~ValidRules
  PROVE  IInv'
<1>1. Typed' /\ Checked'
  BY DEF IInv, Typed, Checked, Ignore, Valid, rules
<1>2. Searching' /\ (stage = "check" => path = <<>>)'
  BY DEF Ignore, Searching
<1>3. VerdictIsRight'
  BY DEF Ignore, VerdictIsRight, ValidRules, Valid, rules
<1> QED
  BY <1>1, <1>2, <1>3 DEF IInv

\* The first look at a rule and the choice of the graph keep the invariant: at the
\* end of the file the rules that were checked are all of them.
LEMMA CheckKeeps ==
  ASSUME IInv, NoFile \/ CheckRule \/ ChooseGraph
  PROVE  IInv'
<1>1. CASE NoFile
  BY <1>1, IgnoreKeeps DEF NoFile
<1>2. CASE CheckRule
  <2>1. rule \in DOMAIN rules /\ request.readable /\ stage = "check"
    BY <1>2 DEF CheckRule
  <2>2. CASE Misses(rules[rule]) /\ Ignore
    <3>1. ~Valid(rules[rule])
      BY <2>1, <2>2, RuleIsTyped, MissesAreFlaws DEF IInv
    <3> QED
      BY <2>1, <2>2, <3>1, IgnoreKeeps DEF ValidRules
  <2>3. CASE /\ ~Misses(rules[rule]) /\ stage' = "search"
             /\ marks' = [n \in Node |-> "new"]
             /\ UNCHANGED <<request, rule, path, left, graph>>
    <3>1. Typed' /\ Checked'
      BY <2>3 DEF IInv, Typed, Checked, Valid, rules
    <3>2. path = <<>> /\ path' = <<>> /\ Finished' = {}
      BY <2>1, <2>3 DEF IInv, Finished
    <3>3. Deps' = Deps /\ nodesOf' = nodesOf /\ rules' = rules
      BY <2>3 DEF Deps, nodesOf, rules
    <3>4. NoCycle(Finished', Deps')
      BY <3>2 DEF NoCycle
    <3>5. PathOK(path', left', Finished', Deps')
      BY <3>2 DEF PathOK
    <3>6. Searching'
      BY <2>1, <2>3, <3>2, <3>3, <3>4, <3>5 DEF Searching, Misses
    <3>7. VerdictIsRight' /\ (stage = "check" => path = <<>>)'
      BY <2>3 DEF VerdictIsRight
    <3> QED
      BY <3>1, <3>6, <3>7 DEF IInv
  <2> QED
    BY <1>2, <2>2, <2>3 DEF CheckRule
<1>3. CASE ChooseGraph
  <2>1. /\ stage = "check" /\ stage' = "accepted" /\ rule \notin DOMAIN rules
        /\ request.readable /\ UNCHANGED <<request, rule, marks, path, left>>
    BY <1>3 DEF ChooseGraph
  <2>2. Typed' /\ Checked'
    BY <2>1 DEF IInv, Typed, Checked, Valid, rules
  <2>3. Searching' /\ (stage = "check" => path = <<>>)'
    BY <2>1 DEF Searching
  <2>4. DOMAIN rules = 1..(rule - 1)
    <3>1. rules \in Seq(Rule) /\ rule \in 1..(Len(rules) + 1)
      BY DEF IInv, Typed, Request, rules
    <3>2. DOMAIN rules = 1..Len(rules) /\ Len(rules) \in Nat
      BY <3>1
    <3>3. rule = Len(rules) + 1
      BY <2>1, <3>1, <3>2
    <3> QED
      BY <3>2, <3>3
  <2>5. ValidRules
    BY <2>4 DEF IInv, Checked, ValidRules
  <2>6. VerdictIsRight'
    BY <2>1, <2>5 DEF VerdictIsRight, ValidRules, Valid, rules
  <2> QED
    BY <2>2, <2>3, <2>6 DEF IInv
<1> QED
  BY <1>1, <1>2, <1>3

\* The steps that leave the rule and the graph alone.
LEMMA SearchKeeps ==
  ASSUME IInv, VisitNode \/ VisitDependency \/ Return
  PROVE  IInv'
<1> DEFINE D == Deps
<1>1. stage = "search" /\ rule \in DOMAIN rules /\ request.readable /\ ~Misses(rules[rule])
  BY DEF IInv, Searching, VisitNode, VisitDependency, Return
<1>2. /\ rules[rule] \in Rule /\ D \in [Node -> SUBSET Node]
      /\ Ids(nodesOf) \subseteq Node
      /\ \A n \in Ids(nodesOf) : D[n] \subseteq Ids(nodesOf)
  BY <1>1, RuleIsTyped, RulesWithoutMisses DEF IInv, Deps, nodesOf
<1>3. /\ marks \in [Node -> {"new", "visiting", "done"}]
      /\ path \in Seq(Node) /\ left \in [Node -> SUBSET Node]
      /\ \A n \in Node : marks[n] # "new" => n \in Ids(nodesOf)
      /\ \A i \in 1..Len(path) : marks[path[i]] = "visiting"
      /\ \A n \in Node : marks[n] = "visiting" => \E i \in 1..Len(path) : path[i] = n
      /\ \A n \in Finished : D[n] \subseteq Finished
      /\ NoCycle(Finished, D)
      /\ PathOK(path, left, Finished, D)
  BY <1>1 DEF IInv, Typed, Searching
<1>4. ASSUME UNCHANGED <<request, stage, rule, graph>>,
             marks' \in [Node -> {"new", "visiting", "done"}],
             path' \in Seq(Node), left' \in [Node -> SUBSET Node],
             \A n \in Node : marks'[n] # "new" => n \in Ids(nodesOf),
             \A i \in 1..Len(path') : marks'[path'[i]] = "visiting",
             \A n \in Node : marks'[n] = "visiting" => \E i \in 1..Len(path') : path'[i] = n,
             \A n \in Finished' : D[n] \subseteq Finished',
             NoCycle(Finished', D), PathOK(path', left', Finished', D)
      PROVE  IInv'
  <2>1. rules' = rules /\ nodesOf' = nodesOf /\ Deps' = D
    BY <1>4 DEF rules, nodesOf, Deps
  <2>2. Typed' /\ Checked'
    BY <1>4, <2>1 DEF IInv, Typed, Checked, Valid
  <2>3. Searching'
    BY <1>1, <1>4, <2>1 DEF Searching, Misses
  <2>4. VerdictIsRight' /\ (stage = "check" => path = <<>>)'
    BY <1>1, <1>4 DEF VerdictIsRight
  <2> QED
    BY <2>2, <2>3, <2>4 DEF IInv
<1>5. CASE VisitNode
  <2>1. PICK n \in Ids(nodesOf) : /\ marks[n] = "new" /\ Enter(n)
                                  /\ left' = [left EXCEPT ![n] = D[n]]
    BY <1>5 DEF VisitNode
  <2>2. path = <<>> /\ n \in Node /\ UNCHANGED <<request, stage, rule, graph>>
    BY <1>2, <1>5 DEF VisitNode
  <2>3. /\ marks' = [marks EXCEPT ![n] = "visiting"] /\ Finished' = Finished
        /\ path' \in Seq(Node) /\ Len(path') = 1 /\ path'[1] = n
    BY <1>3, <2>1, <2>2 DEF Enter, Finished
  <2>4. left'[n] = D[n] /\ left' \in [Node -> SUBSET Node]
    BY <1>2, <1>3, <2>1, <2>2
  <2>5. PathOK(path', left', Finished', D)
    BY <2>3, <2>4 DEF PathOK
  <2>6. /\ \A i \in 1..Len(path') : marks'[path'[i]] = "visiting"
        /\ \A m \in Node : marks'[m] = "visiting" => \E i \in 1..Len(path') : path'[i] = m
    <3>1. \A m \in Node : marks[m] # "visiting"
      BY <1>3, <2>2, SeqFacts
    <3> QED
      BY <1>3, <2>2, <2>3, <3>1
  <2>7. /\ marks' \in [Node -> {"new", "visiting", "done"}]
        /\ \A m \in Node : marks'[m] # "new" => m \in Ids(nodesOf)
    BY <1>3, <2>1, <2>2, <2>3
  <2> QED
    BY <1>3, <1>4, <2>2, <2>3, <2>4, <2>5, <2>6, <2>7
<1>6. CASE VisitDependency
  <2> DEFINE last == Last(path)
             taken(d) == [left EXCEPT ![last] = @ \ {d}]
  <2>1. path # <<>> /\ last \in Node /\ last = path[Len(path)] /\ Len(path) \in 1..Len(path)
    BY <1>3, <1>6, FrontFacts, SeqFacts DEF VisitDependency
  <2>2. PICK d \in left[last] :
          \/ marks[d] = "visiting" /\ Ignore
          \/ /\ marks[d] = "done" /\ left' = taken(d)
             /\ UNCHANGED <<request, stage, rule, marks, path, graph>>
          \/ /\ marks[d] = "new" /\ Enter(d)
             /\ left' = [taken(d) EXCEPT ![d] = D[d]]
             /\ UNCHANGED <<request, stage, rule, graph>>
    BY <1>6 DEF VisitDependency
  <2>3. d \in Node /\ d \in D[last] /\ D[last] \subseteq Ids(nodesOf)
    BY <1>2, <1>3, <2>1 DEF PathOK
  <2>4. taken(d) \in [Node -> SUBSET Node]
    BY <1>3, <2>1
  <2>5. CASE marks[d] = "visiting" /\ Ignore
    <3>1. \A i \in 1..Len(path) : path[i] \in Ids(nodesOf)
      BY <1>3, SeqFacts
    <3>2. path \in Seq(Ids(nodesOf))
      BY <1>3, <3>1
    <3>3. \A i \in 1..(Len(path) - 1) : path[i + 1] \in D[path[i]]
      BY <1>3, SeqFacts DEF PathOK
    <3>4. PICK k \in 1..Len(path) : path[k] = d
      BY <1>3, <2>3, <2>5
    <3>5. ~NoCycle(Ids(nodesOf), D)
      BY <2>1, <2>3, <3>2, <3>3, <3>4, PathClosesCycle
    <3>6. ~Valid(rules[rule])
      BY <1>1, <1>2, <3>5, RulesWithoutMisses DEF Deps, nodesOf
    <3> QED
      BY <1>1, <2>5, <3>6, IgnoreKeeps DEF ValidRules
  <2>6. CASE /\ marks[d] = "done" /\ left' = taken(d)
             /\ UNCHANGED <<request, stage, rule, marks, path, graph>>
    <3>1. d \in Finished /\ Finished' = Finished
      BY <2>3, <2>6 DEF Finished
    <3>2. PathOK(path', left', Finished', D)
      BY <1>2, <1>3, <2>1, <2>6, <3>1, PathProceeds DEF Finished
    <3> QED
      BY <1>3, <1>4, <2>4, <2>6, <3>1, <3>2
  <2>7. CASE /\ marks[d] = "new" /\ Enter(d)
             /\ left' = [taken(d) EXCEPT ![d] = D[d]]
             /\ UNCHANGED <<request, stage, rule, graph>>
    <3>1. /\ marks' = [marks EXCEPT ![d] = "visiting"] /\ path' = Append(path, d)
          /\ Finished' = Finished
      BY <1>3, <2>7 DEF Enter, Finished
    <3>2. /\ path' \in Seq(Node) /\ left' \in [Node -> SUBSET Node]
          /\ marks' \in [Node -> {"new", "visiting", "done"}]
      BY <1>2, <1>3, <2>3, <2>4, <2>7, <3>1
    <3>3. \A i \in 1..Len(path) : path[i] # d
      BY <1>3, <2>7
    <3>4. PathOK(path', left', Finished', D)
      BY <1>2, <1>3, <2>1, <2>7, <3>1, <3>3, PathGrows DEF Finished
    <3>5. \A i \in 1..Len(path') : marks'[path'[i]] = "visiting"
      BY <1>3, <2>3, <3>1, SeqFacts
    <3>6. \A n \in Node : marks'[n] # "new" => n \in Ids(nodesOf)
      BY <1>3, <2>3, <3>1
    <3>7. ASSUME NEW n \in Node, marks'[n] = "visiting"
          PROVE  \E i \in 1..Len(path') : path'[i] = n
      <4>1. /\ Len(path') = Len(path) + 1 /\ path'[Len(path) + 1] = d
            /\ \A i \in 1..Len(path) : path'[i] = path[i] /\ i \in 1..Len(path')
            /\ Len(path) + 1 \in 1..Len(path')
        BY <1>3, <2>3, <3>1, SeqFacts
      <4>2. CASE n = d
        BY <4>1, <4>2
      <4>3. CASE n # d
        <5>1. PICK i \in 1..Len(path) : path[i] = n
          BY <1>3, <3>1, <3>7, <4>3
        <5> QED
          BY <4>1, <5>1
      <4> QED
        BY <4>2, <4>3
    <3> QED
      BY <1>3, <1>4, <2>7, <3>1, <3>2, <3>4, <3>5, <3>6, <3>7
  <2> QED
    BY <2>2, <2>5, <2>6, <2>7
<1>7. CASE Return
  <2> DEFINE n == Last(path)
  <2>1. /\ path # <<>> /\ left[n] = {} /\ path' = Front(path)
        /\ marks' = [marks EXCEPT ![n] = "done"]
        /\ UNCHANGED <<request, stage, rule, left, graph>>
    BY <1>7 DEF Return
  <2>2. /\ n = path[Len(path)] /\ n \in Node /\ Len(path) \in 1..Len(path)
        /\ path' \in Seq(Node) /\ Len(path') = Len(path) - 1
        /\ \A i \in 1..(Len(path) - 1) : path'[i] = path[i]
    <3>1. /\ n = path[Len(path)] /\ n \in Node
          /\ Front(path) \in Seq(Node) /\ Len(Front(path)) = Len(path) - 1
          /\ \A i \in 1..(Len(path) - 1) : Front(path)[i] = path[i]
      BY <1>3, <2>1, FrontFacts
    <3>2. Len(path) \in 1..Len(path)
      BY <1>3, <2>1, SeqFacts
    <3> QED
      BY <2>1, <3>1, <3>2
  <2>3. marks[n] = "visiting" /\ n \notin Finished
    BY <1>3, <2>2 DEF Finished
  <2>4. Finished' = Finished \cup {n}
    BY <1>3, <2>1, <2>2 DEF Finished
  <2>5. D[n] \subseteq Finished
    BY <1>3, <2>1, <2>2 DEF PathOK
  <2>6. NoCycle(Finished', D) /\ \A m \in Finished' : D[m] \subseteq Finished'
    <3>1. Finished \in SUBSET Node /\ n \in Node \ Finished
      BY <2>2, <2>3 DEF Finished
    <3>2. NoCycle(Finished \cup {n}, D)
      BY <1>2, <1>3, <2>5, <3>1, DoneMayGrow
    <3> QED
      BY <1>3, <2>4, <2>5, <3>2
  <2>7. PathOK(path', left', Finished', D)
    BY <1>2, <1>3, <2>1, <2>4, PathShrinks DEF Finished
  <2>8. \A i \in 1..Len(path') : marks'[path'[i]] = "visiting"
    <3>1. \A i \in 1..(Len(path) - 1) : i \in 1..Len(path) /\ i # Len(path)
      BY <1>3, SeqFacts
    <3>2. \A i \in 1..(Len(path) - 1) : path[i] # n
      BY <1>3, <2>2, <3>1 DEF PathOK
    <3>3. \A i \in 1..(Len(path) - 1) : /\ path[i] \in Node /\ path'[i] = path[i]
                                        /\ marks[path[i]] = "visiting"
      BY <1>3, <2>2, <3>1, SeqFacts
    <3>4. \A m \in Node : m # n => marks'[m] = marks[m]
      BY <1>3, <2>1
    <3>5. 1..Len(path') = 1..(Len(path) - 1)
      BY <2>2
    <3> QED
      BY <3>2, <3>3, <3>4, <3>5
  <2>9. /\ marks' \in [Node -> {"new", "visiting", "done"}]
        /\ \A m \in Node : marks'[m] # "new" => m \in Ids(nodesOf)
    BY <1>3, <2>1, <2>2, <2>3
  <2>10. ASSUME NEW m \in Node, marks'[m] = "visiting"
         PROVE  \E i \in 1..Len(path') : path'[i] = m
    <3>1. m # n /\ marks[m] = "visiting"
      BY <1>3, <2>1, <2>2, <2>10
    <3>2. PICK i \in 1..Len(path) : path[i] = m
      BY <1>3, <3>1
    <3>3. i \in 1..(Len(path) - 1)
      BY <1>3, <2>2, <3>1, <3>2, SeqFacts
    <3> QED
      BY <2>2, <3>2, <3>3
  <2> QED
    BY <1>3, <1>4, <2>1, <2>2, <2>6, <2>7, <2>8, <2>9, <2>10
<1> QED
  BY <1>5, <1>6, <1>7

\* All nodes are finished, so the finished nodes are those of the rule.
LEMMA RulePassesKeeps ==
  ASSUME IInv, RulePasses
  PROVE  IInv'
<1>1. /\ stage = "search" /\ path = <<>> /\ \A n \in Ids(nodesOf) : marks[n] = "done"
      /\ rule \in DOMAIN rules /\ ~Misses(rules[rule])
  BY DEF RulePasses, IInv, Searching
<1>2. rules \in Seq(Rule) /\ rules[rule] \in Rule /\ Ids(nodesOf) \subseteq Node
  BY <1>1, RuleIsTyped DEF IInv
<1>3. Finished = Ids(nodesOf)
  BY <1>1, <1>2 DEF Finished, IInv, Searching
<1>4. Valid(rules[rule])
  BY <1>1, <1>2, <1>3, RulesWithoutMisses DEF IInv, Searching, Deps, nodesOf
<1>5. rule \in Nat \ {0} /\ DOMAIN rules = 1..Len(rules) /\ Len(rules) \in Nat
  BY <1>2 DEF IInv, Typed
<1>6. CASE (\E i \in 1..(rule - 1) : rules[i].id = rules[rule].id) /\ Ignore
  <2>1. PICK i \in 1..(rule - 1) : rules[i].id = rules[rule].id
    BY <1>6
  <2>2. i \in DOMAIN rules /\ i # rule
    BY <1>1, <1>5, <2>1
  <2> QED
    BY <1>1, <1>6, <2>1, <2>2, IgnoreKeeps DEF ValidRules
<1>7. CASE /\ \A i \in 1..(rule - 1) : rules[i].id # rules[rule].id
           /\ rule' = rule + 1 /\ stage' = "check"
           /\ UNCHANGED <<request, marks, path, left, graph>>
  <2>1. rules' = rules
    BY <1>7 DEF rules
  <2>2. Typed'
    BY <1>1, <1>5, <1>7, <2>1 DEF IInv, Typed
  <2>3. \A i \in 1..(rule' - 1) : i \in 1..(rule - 1) \/ i = rule
    BY <1>5, <1>7
  <2>4. \A i \in 1..(rule' - 1) : Valid(rules[i])
    BY <1>4, <2>3 DEF IInv, Checked
  <2>5. \A i, j \in 1..(rule' - 1) : rules[i].id = rules[j].id => i = j
    BY <1>7, <2>3 DEF IInv, Checked
  <2>6. Checked'
    BY <2>1, <2>4, <2>5 DEF Checked, Valid
  <2>7. Searching' /\ VerdictIsRight' /\ (stage = "check" => path = <<>>)'
    BY <1>1, <1>7 DEF Searching, VerdictIsRight
  <2> QED
    BY <2>2, <2>6, <2>7 DEF IInv
<1> QED
  BY <1>6, <1>7 DEF RulePasses

----------------------------------------------------------------------------
\* Every step of the planning keeps the invariant.
LEMMA StepKeeps ==
  ASSUME IInv, [Next]_vars
  PROVE  IInv'
<1>1. CASE UNCHANGED vars
  BY <1>1 DEF vars, IInv, Typed, Checked, Searching, VerdictIsRight, ValidRules, Valid,
              Misses, Finished, Deps, nodesOf, rules, PathOK
<1> QED
  BY <1>1, CheckKeeps, SearchKeeps, RulePassesKeeps DEF Next

\* Typed, Checked and Searching hold in every reachable state, and with them the
\* verdict on the rules.
THEOREM PlanningInvariant == Spec => []IInv
<1>1. Init => IInv
  <2> SUFFICES ASSUME Init PROVE IInv
    OBVIOUS
  <2>1. request \in Request /\ rules \in Seq(Rule)
    BY RequestsAreRequests DEF Init, Request, rules
  <2>2. Typed
    BY <2>1 DEF Init, Typed
  <2> QED
    BY <2>2 DEF Init, IInv, Checked, Searching, VerdictIsRight
<1>2. IInv /\ [Next]_vars => IInv'
  BY StepKeeps
<1> QED
  BY <1>1, <1>2, PTL DEF Spec

\* For rule files of any size: the file is accepted only if no rule has a cycle or
\* another flaw, and ignored only if it cannot be read or one has.
THEOREM VerdictsAreRight == Spec => []VerdictIsRight
<1>1. IInv => VerdictIsRight
  BY DEF IInv
<1> QED
  BY <1>1, PlanningInvariant, PTL

----------------------------------------------------------------------------
(* The graph of a valid rule                                               *)

\* build_configured_task_graph keeps ids, roles and dependencies and gives every
\* node at least one attempt.
LEMMA ConfiguredFacts ==
  ASSUME NEW r \in Rule
  PROVE  /\ Configured(r) \in Seq(RuleNode) /\ DOMAIN Configured(r) = DOMAIN r.nodes
         /\ \A i \in DOMAIN r.nodes :
              /\ Configured(r)[i].id = r.nodes[i].id
              /\ Configured(r)[i].deps = r.nodes[i].deps
              /\ Configured(r)[i].role = r.nodes[i].role /\ r.nodes[i].role \in Worker
              /\ Configured(r)[i].max \in 1..MaxU8
<1> DEFINE c == Configured(r)
<1>1. r.nodes \in Seq(RuleNode) /\ DOMAIN r.nodes = 1..Len(r.nodes) /\ Len(r.nodes) \in Nat
  BY DEF Rule
<1>2. ASSUME NEW i \in DOMAIN r.nodes
      PROVE  /\ c[i] \in RuleNode /\ c[i].id = r.nodes[i].id /\ c[i].deps = r.nodes[i].deps
             /\ c[i].role = r.nodes[i].role /\ c[i].role \in Worker /\ c[i].max \in 1..MaxU8
  <2>1. r.nodes[i] \in RuleNode
    BY <1>1
  <2>2. c[i] = [r.nodes[i] EXCEPT !.max = IF r.nodes[i].max = 0 THEN 1 ELSE r.nodes[i].max]
    BY DEF Configured
  <2> QED
    BY <2>1, <2>2 DEF RuleNode, MaxU8
<1>3. c \in [1..Len(r.nodes) -> RuleNode]
  BY <1>1, <1>2 DEF Configured
<1>4. c \in Seq(RuleNode) /\ DOMAIN c = DOMAIN r.nodes
  BY <1>1, <1>3
<1> QED
  BY <1>2, <1>4

\* The graph of a valid rule is a valid plan without a doubled id.
LEMMA ConfiguredIsValid ==
  ASSUME NEW r \in Rule, Valid(r)
  PROVE  DistinctIds(Configured(r)) /\ ValidPlan(AsPlan(Configured(r)))
<1> DEFINE c == Configured(r)
           p == AsPlan(c)
<1>1. r.nodes \in Seq(RuleNode) /\ 1 \in DOMAIN r.nodes
  BY DEF Rule, Valid
<1>2. DistinctIds(c) /\ Ids(c) = Ids(r.nodes) /\ Inputs(c) = Inputs(r.nodes)
  BY ConfiguredFacts DEF Valid, DistinctIds, Ids, Inputs
<1>3. /\ Ids(c) \subseteq Node /\ Inputs(c) \in [Node -> SUBSET Node]
  BY <1>1, <1>2, InputsAreTyped
<1>4. \A n \in Ids(c) : At(c, n) \in DOMAIN c
  BY DEF At, Ids
<1>5. Worker # {} /\ (CHOOSE w \in Worker : TRUE) \in Worker
  BY <1>1, ConfiguredFacts
<1>6. \A n \in Ids(c) : c[At(c, n)].role \in Worker /\ c[At(c, n)].max \in 1..MaxU8
  BY <1>4, ConfiguredFacts
<1>7. p \in Plan
  <2>1. p.worker \in [Node -> Worker]
    BY <1>5, <1>6 DEF AsPlan
  <2>2. p.max \in [Node -> 1..MaxU8]
    BY <1>6 DEF AsPlan, MaxU8
  <2> QED
    BY <1>3, <2>1, <2>2 DEF AsPlan, Plan
<1>8. p.nodes # {}
  BY <1>1, <1>2 DEF AsPlan, Ids
<1>9. \A n \in p.nodes : p.inputs[n] \subseteq p.nodes
  <2>1. ~Misses(r)
    BY MissesAreFlaws
  <2> QED
    BY <1>2, <2>1, RulesWithoutMisses DEF AsPlan
<1>10. Acyclic(p)
  BY <1>2 DEF Acyclic, AsPlan, Valid
<1> QED
  BY <1>2, <1>7, <1>8, <1>9, <1>10 DEF ValidPlan

\* Once a file is accepted, the graph of each of its rules is what TaskGraph
\* assumes of a plan, whatever its size.
THEOREM ConfiguredPlansAreValid ==
  Spec => [](stage = "accepted" =>
               \A i \in DOMAIN rules : /\ DistinctIds(Configured(rules[i]))
                                       /\ ValidPlan(AsPlan(Configured(rules[i]))))
<1>1. IInv => (stage = "accepted" =>
                 \A i \in DOMAIN rules : /\ DistinctIds(Configured(rules[i]))
                                         /\ ValidPlan(AsPlan(Configured(rules[i]))))
  <2> SUFFICES ASSUME IInv, stage = "accepted", NEW i \in DOMAIN rules
               PROVE  /\ DistinctIds(Configured(rules[i]))
                      /\ ValidPlan(AsPlan(Configured(rules[i])))
    OBVIOUS
  <2>1. rules[i] \in Rule
    BY DEF IInv, Typed, Request, rules
  <2>2. Valid(rules[i])
    BY DEF IInv, VerdictIsRight, ValidRules
  <2> QED
    BY <2>1, <2>2, ConfiguredIsValid
<1> QED
  BY <1>1, PlanningInvariant, PTL

----------------------------------------------------------------------------
(* The graphs of the keywords                                              *)

\* A list of builtin nodes that makes a graph.
Good(s) ==
  /\ s \in Seq(RuleNode) /\ \A i \in DOMAIN s : s[i].max = 2
  /\ DistinctIds(s) /\ NoCycle(Ids(s), Inputs(s))
  /\ \A i \in DOMAIN s : s[i].deps \subseteq Ids(s)

LEMMA BuiltinIsNode ==
  ASSUME NEW role \in Worker, NEW deps \in SUBSET Node
  PROVE  /\ Builtin(role, deps) \in RuleNode /\ Builtin(role, deps).max = 2
         /\ Builtin(role, deps).id = role /\ Builtin(role, deps).deps = deps
BY RolesAreNames DEF Builtin, RuleNode, MaxU8

\* Where a longer list differs from a list.
LEMMA OneMore ==
  ASSUME NEW s \in Seq(RuleNode), NEW x \in RuleNode, NEW t, t = s \o <<x>>
  PROVE  /\ t \in Seq(RuleNode)
         /\ \A i \in DOMAIN t : \/ i \in DOMAIN s /\ t[i] = s[i]
                                \/ i = Len(s) + 1 /\ t[i] = x
         /\ \A i \in DOMAIN s : i \in DOMAIN t /\ t[i] = s[i]
         /\ Len(s) + 1 \in DOMAIN t /\ t[Len(s) + 1] = x /\ Len(s) + 1 \notin DOMAIN s
OBVIOUS

\* A graph grows by a node that builds on nodes it has.
LEMMA GraphGrows ==
  ASSUME NEW s, Good(s), NEW role \in Worker, NEW deps \in SUBSET Ids(s), role \notin Ids(s)
  PROVE  /\ Good(s \o <<Builtin(role, deps)>>)
         /\ Ids(s \o <<Builtin(role, deps)>>) = Ids(s) \cup {role}
<1> DEFINE x == Builtin(role, deps)
           t == s \o <<x>>
<1>1. s \in Seq(RuleNode) /\ Ids(s) \in SUBSET Node /\ role \in Node \ Ids(s)
  BY InputsAreTyped, RolesAreNames DEF Good
<1>2. x \in RuleNode /\ x.max = 2 /\ x.id = role /\ x.deps = deps
  BY <1>1, BuiltinIsNode
<1> HIDE DEF x
<1>3. /\ t \in Seq(RuleNode)
      /\ \A i \in DOMAIN t : \/ i \in DOMAIN s /\ t[i] = s[i]
                             \/ i = Len(s) + 1 /\ t[i] = x
      /\ \A i \in DOMAIN s : i \in DOMAIN t /\ t[i] = s[i]
      /\ Len(s) + 1 \in DOMAIN t /\ t[Len(s) + 1] = x /\ Len(s) + 1 \notin DOMAIN s
  BY <1>1, <1>2, OneMore
<1> HIDE DEF t
<1>4. \A i \in DOMAIN s : s[i].id \in Ids(s) /\ s[i].id # role
  BY DEF Ids
<1>5. DistinctIds(t)
  BY <1>2, <1>3, <1>4 DEF DistinctIds, Good
<1>6. Ids(t) = Ids(s) \cup {role}
  <2>1. Ids(t) \subseteq Ids(s) \cup {role}
    BY <1>2, <1>3 DEF Ids
  <2>2. Ids(s) \subseteq Ids(t)
    BY <1>3 DEF Ids
  <2>3. role \in Ids(t)
    BY <1>2, <1>3 DEF Ids
  <2> QED  BY <2>1, <2>2, <2>3
<1>7. /\ Inputs(t) \in [Node -> SUBSET Node] /\ Inputs(t)[role] = deps
      /\ \A n \in Ids(s) : Inputs(t)[n] = Inputs(s)[n] /\ Inputs(s)[n] \subseteq Ids(s)
  <2>1. Inputs(t) \in [Node -> SUBSET Node]
    BY <1>3, InputsAreTyped
  <2>2. Inputs(t)[role] = deps
    BY <1>2, <1>3, <1>5, InputsOfANode
  <2>3. ASSUME NEW i \in DOMAIN s
        PROVE  Inputs(t)[s[i].id] = s[i].deps /\ Inputs(s)[s[i].id] = s[i].deps
    BY <1>1, <1>3, <1>5, InputsOfANode DEF Good
  <2> QED  BY <2>1, <2>2, <2>3 DEF Ids, Good
<1>8. NoCycle(Ids(s), Inputs(t))
  BY <1>7 DEF Good, NoCycle
<1>9. NoCycle(Ids(t), Inputs(t))
  BY <1>1, <1>6, <1>7, <1>8, DoneMayGrow
<1>10. \A i \in DOMAIN t : t[i].max = 2 /\ t[i].deps \subseteq Ids(t)
  BY <1>2, <1>3, <1>6 DEF Good
<1>11. Good(t)
  BY <1>3, <1>5, <1>9, <1>10 DEF Good
<1> QED  BY <1>6, <1>11 DEF t, x

\* The ifs of plan_builtin_task_graph.
LEMMA GraphMayGrow ==
  ASSUME NEW s, Good(s), NEW c \in BOOLEAN, NEW role \in Worker, NEW deps,
         c => deps \in SUBSET Ids(s) /\ role \notin Ids(s)
  PROVE  /\ Good(s \o When(c, <<Builtin(role, deps)>>))
         /\ Ids(s \o When(c, <<Builtin(role, deps)>>)) = Ids(s) \cup {r \in {role} : c}
<1>1. CASE c
  <2>1. When(c, <<Builtin(role, deps)>>) = <<Builtin(role, deps)>>
    BY <1>1 DEF When
  <2>2. {r \in {role} : c} = {role}
    BY <1>1
  <2> QED  BY <1>1, <2>1, <2>2, GraphGrows
<1>2. CASE ~c
  <2>1. When(c, <<Builtin(role, deps)>>) = <<>>
    BY <1>2 DEF When
  <2>2. s \o <<>> = s
    BY DEF Good
  <2>3. {r \in {role} : c} = {}
    BY <1>2
  <2> QED  BY <2>1, <2>2, <2>3
<1> QED  BY <1>1, <1>2

LEMMA OneNodeIsGood ==
  ASSUME NEW role \in Worker
  PROVE  Good(<<Builtin(role, {})>>) /\ Ids(<<Builtin(role, {})>>) = {role}
<1>1. Good(<<>>) /\ Ids(<<>>) = {}
  <2>1. Ids(<<>>) = {} /\ DistinctIds(<<>>)
    BY DEF Ids, DistinctIds
  <2>2. NoCycle({}, Inputs(<<>>))
    BY DEF NoCycle
  <2>3. <<>> \in Seq(RuleNode) /\ \A i \in DOMAIN <<>> : FALSE
    OBVIOUS
  <2> QED  BY <2>1, <2>2, <2>3 DEF Good
<1>2. Good(<<>> \o <<Builtin(role, {})>>) /\ Ids(<<>> \o <<Builtin(role, {})>>) = {role}
  <2>1. {} \in SUBSET Ids(<<>>) /\ role \notin Ids(<<>>) /\ Ids(<<>>) \cup {role} = {role}
    BY <1>1
  <2> HIDE DEF Good
  <2> QED  BY <1>1, <2>1, GraphGrows
<1>3. <<>> \o <<Builtin(role, {})>> = <<Builtin(role, {})>>
  <2>1. Builtin(role, {}) \in RuleNode
    BY BuiltinIsNode
  <2> QED  BY <2>1
<1> QED  BY <1>2, <1>3

\* The branch for data: each node builds on those that stand before it, whichever
\* of them the keywords have brought in.
LEMMA DataNodesAreGood ==
  ASSUME NEW t \in SUBSET Topic
  PROVE  Good(DataNodes(t)) /\ DataNodes(t) # <<>>
<1> DEFINE campaign == {"marketing", "campaign"} \subseteq t
           design   == "design" \in t
           cost     == "budget" \in t \/ campaign
           content  == "content" \in t /\ ~campaign
           ops      == "ops" \in t
           before   == {r \in {"design", "accounting", "creative"} :
                          \/ r = "design" /\ design
                          \/ r = "accounting" /\ cost
                          \/ r = "creative" /\ campaign}
           build    == IF before = {} THEN {"data"} ELSE before
           s1 == <<Builtin("data", {})>>
           s2 == s1 \o When(design, <<Builtin("design", {"data"})>>)
           s3 == s2 \o When(cost, <<Builtin("accounting", {"data"})>>)
           s4 == s3 \o When(campaign, <<Builtin("creative", {"data"})>>)
           s5 == s4 \o When(ops, <<Builtin("ops", build)>>)
           s6 == s5 \o When(content, <<Builtin("creative", {"data"})>>)
<1>0. DataNodes(t) = s6
  BY DEF DataNodes
<1>1. {"data", "design", "accounting", "creative", "ops"} \subseteq Worker
  BY RolesAreNames DEF BuiltinRoles
<1>2. Good(s1) /\ Ids(s1) = {"data"}
  BY <1>1, OneNodeIsGood
<1>3. /\ campaign \in BOOLEAN /\ design \in BOOLEAN /\ cost \in BOOLEAN /\ content \in BOOLEAN
      /\ ops \in BOOLEAN
  OBVIOUS
<1>4. /\ \A r \in before : r \in {"design", "accounting", "creative"}
      /\ "design" \in before => design
      /\ "accounting" \in before => cost
      /\ "creative" \in before => campaign
  OBVIOUS
<1>5. build \subseteq {"data"} \cup before
  OBVIOUS
<1>6. content => ~campaign
  OBVIOUS
<1> HIDE DEF campaign, design, cost, content, ops, before, build, s1
<1>7. Good(s2) /\ Ids(s2) = {"data"} \cup {r \in {"design"} : design}
  BY <1>1, <1>2, <1>3, GraphMayGrow
<1> HIDE DEF s2
<1>8. Good(s3) /\ Ids(s3) = Ids(s2) \cup {r \in {"accounting"} : cost}
  <2>1. {"data"} \in SUBSET Ids(s2) /\ "accounting" \notin Ids(s2)
    BY <1>7
  <2> QED  BY <1>1, <1>3, <1>7, <2>1, GraphMayGrow
<1> HIDE DEF s3
<1>9. Good(s4) /\ Ids(s4) = Ids(s3) \cup {r \in {"creative"} : campaign}
  <2>1. {"data"} \in SUBSET Ids(s3) /\ "creative" \notin Ids(s3)
    BY <1>7, <1>8
  <2> QED  BY <1>1, <1>3, <1>8, <2>1, GraphMayGrow
<1> HIDE DEF s4
<1>10. Good(s5) /\ Ids(s5) = Ids(s4) \cup {r \in {"ops"} : ops}
  <2>1. before \subseteq Ids(s4)
    BY <1>4, <1>7, <1>8, <1>9
  <2>2. build \in SUBSET Ids(s4) /\ "ops" \notin Ids(s4)
    BY <1>5, <1>7, <1>8, <1>9, <2>1
  <2> QED  BY <1>1, <1>3, <1>9, <2>2, GraphMayGrow
<1> HIDE DEF s5
<1>11. Good(s6) /\ "data" \in Ids(s6)
  <2>1. {"data"} \in SUBSET Ids(s5) /\ (content => "creative" \notin Ids(s5))
    BY <1>6, <1>7, <1>8, <1>9, <1>10
  <2> QED  BY <1>1, <1>3, <1>10, <2>1, GraphMayGrow
<1>12. s6 # <<>>
  BY <1>11 DEF Ids
<1> QED  BY <1>0, <1>11, <1>12

LEMMA OneAndOne ==
  ASSUME NEW S, NEW a \in S, NEW b \in S
  PROVE  <<a>> \o <<b>> = <<a, b>>
<1> DEFINE s == <<a>>
           t == <<b>>
           u == <<a, b>>
<1>1. /\ s \in Seq(S) /\ t \in Seq(S) /\ u \in Seq(S)
      /\ Len(s) = 1 /\ Len(t) = 1 /\ Len(u) = 2
  OBVIOUS
<1>2. s[1] = a /\ t[1] = b /\ u[1] = a /\ u[2] = b
  OBVIOUS
<1> HIDE DEF s, t, u
<1>3. s \o t \in Seq(S) /\ Len(s \o t) = 2 /\ (s \o t)[1] = a /\ (s \o t)[2] = b
  BY <1>1, <1>2, ConcatProperties
<1>4. s \o t = u
  BY <1>1, <1>2, <1>3
<1> QED  BY <1>4 DEF s, t, u

LEMMA BuiltinNodesAreGood ==
  ASSUME NEW t \in SUBSET Topic, NEW primary \in Worker
  PROVE  Good(BuiltinNodes(t, primary)) /\ BuiltinNodes(t, primary) # <<>>
<1>1. BuiltinRoles \subseteq Worker
  BY RolesAreNames
<1>2. ASSUME NEW role \in Worker
      PROVE  Good(<<Builtin(role, {})>>) /\ <<Builtin(role, {})>> # <<>>
  BY OneNodeIsGood
<1> DEFINE pair == <<Builtin("ops", {}), Builtin("creative", {"ops"})>>
<1>3. Good(pair) /\ pair # <<>>
  <2>1. Good(<<Builtin("ops", {})>>) /\ Ids(<<Builtin("ops", {})>>) = {"ops"}
    BY <1>1, OneNodeIsGood DEF BuiltinRoles
  <2>2. Good(<<Builtin("ops", {})>> \o <<Builtin("creative", {"ops"})>>)
    <3>1. {"ops"} \in SUBSET Ids(<<Builtin("ops", {})>>) /\ "creative" \notin Ids(<<Builtin("ops", {})>>)
      BY <2>1
    <3> QED  BY <1>1, <2>1, <3>1, GraphGrows DEF BuiltinRoles
  <2>4. {} \subseteq Node /\ {"ops"} \subseteq Node /\ {"ops", "creative"} \subseteq Worker
    BY <1>1, RolesAreNames DEF BuiltinRoles
  <2>5. Builtin("ops", {}) \in RuleNode /\ Builtin("creative", {"ops"}) \in RuleNode
    BY <2>4, BuiltinIsNode
  <2>6. pair = <<Builtin("ops", {})>> \o <<Builtin("creative", {"ops"})>>
    BY <2>5, OneAndOne
  <2>7. Good(pair)
    BY <2>2, <2>6
  <2> QED  BY <2>7
<1> HIDE DEF pair
<1>4. Good(DataNodes(t)) /\ DataNodes(t) # <<>>
  BY DataNodesAreGood
<1> HIDE DEF Good
<1>5. BuiltinNodes(t, primary) \in
        {<<Builtin(role, {})>> : role \in Worker} \cup {DataNodes(t), pair}
  BY <1>1 DEF BuiltinNodes, BuiltinRoles, pair
<1> QED  BY <1>2, <1>3, <1>4, <1>5

LEMMA GoodIsValid ==
  ASSUME NEW s, Good(s), s # <<>>
  PROVE  DistinctIds(s) /\ ValidPlan(AsPlan(s))
<1> DEFINE p == AsPlan(s)
<1>1. s \in Seq(RuleNode) /\ DistinctIds(s) /\ 1 \in DOMAIN s
  BY DEF Good
<1>2. Ids(s) \subseteq Node /\ Inputs(s) \in [Node -> SUBSET Node]
  BY <1>1, InputsAreTyped
<1>3. \A n \in Ids(s) : At(s, n) \in DOMAIN s /\ s[At(s, n)].id = n
  BY DEF At, Ids
<1>4. \A i \in DOMAIN s : s[i].role \in Worker /\ s[i].max \in 1..MaxU8
  <2> TAKE i \in DOMAIN s
  <2>1. s[i] \in RuleNode
    BY <1>1
  <2>2. s[i].role \in Worker
    BY <2>1 DEF RuleNode
  <2>3. s[i].max = 2
    BY DEF Good
  <2> QED  BY <2>2, <2>3 DEF MaxU8
<1>5. (CHOOSE w \in Worker : TRUE) \in Worker
  BY <1>1, <1>4
<1>6. p \in Plan
  <2>1. p.worker \in [Node -> Worker]
    BY <1>3, <1>4, <1>5 DEF AsPlan
  <2>2. p.max \in [Node -> 1..MaxU8]
    BY <1>3, <1>4 DEF AsPlan, MaxU8
  <2> QED
    BY <1>2, <2>1, <2>2 DEF AsPlan, Plan
<1>7. p.nodes # {}
  BY <1>1 DEF AsPlan, Ids
<1>8. \A n \in p.nodes : p.inputs[n] \subseteq p.nodes
  <2>1. \A i \in DOMAIN s : Inputs(s)[s[i].id] = s[i].deps
    BY <1>1, InputsOfANode
  <2> QED
    BY <1>3, <2>1 DEF AsPlan, Good
<1>9. Acyclic(p)
  BY DEF Acyclic, AsPlan, Good
<1> QED
  BY <1>1, <1>6, <1>7, <1>8, <1>9 DEF ValidPlan

----------------------------------------------------------------------------
(* The graph that is planned                                               *)

HasVerdict == stage \in {"accepted", "ignored"}

Right(req) ==
  /\ req.readable
  /\ \A i \in DOMAIN req.rules : Valid(req.rules[i])
  /\ \A i, j \in DOMAIN req.rules : req.rules[i].id = req.rules[j].id => i = j

FirstMatch(req, i) == req.rules[i].matches /\ \A j \in 1..(i - 1) : ~req.rules[j].matches

\* The graph of a request: of the first rule that matches in a valid file, or that
\* of the keywords.  Only the last resort of the latter asks for the primary role.
PlannedFor(req, g) ==
  \/ /\ Right(req)
     /\ \E i \in DOMAIN req.rules : FirstMatch(req, i) /\ g = Configured(req.rules[i])
  \/ /\ ~(Right(req) /\ \E i \in DOMAIN req.rules : req.rules[i].matches)
     /\ g = BuiltinNodes(req.topics, req.primary)

IsPlanned == HasVerdict => PlannedFor(request, graph)

\* A file that is ignored is not right.
LEMMA IgnoreIsPlanned ==
  ASSUME Ignore, VerdictIsRight'
  PROVE  IsPlanned'
<1>1. request' = request /\ stage' = "ignored"
      /\ graph' = BuiltinNodes(request.topics, request.primary)
  BY DEF Ignore
<1>2. ~Right(request)
  BY <1>1 DEF VerdictIsRight, ValidRules, rules, Right
<1> QED  BY <1>1, <1>2 DEF IsPlanned, PlannedFor

\* The steps of the planning come to the graph that PlannedFor says.
LEMMA PlanningIsPlanned ==
  ASSUME IsPlanned, VerdictIsRight', [Next]_vars
  PROVE  IsPlanned'
<1>1. CASE Ignore
  BY <1>1, IgnoreIsPlanned
<1>2. CASE ChooseGraph
  <2>1. request' = request /\ stage' = "accepted"
    BY <1>2 DEF ChooseGraph
  <2>2. Right(request)
    BY <2>1 DEF VerdictIsRight, ValidRules, rules, Right
  <2>3. PlannedFor(request, graph')
    BY <1>2, <2>2 DEF ChooseGraph, PlannedFor, FirstMatch, rules
  <2> QED  BY <2>1, <2>3 DEF IsPlanned
<1>3. CASE UNCHANGED vars
  BY <1>3 DEF vars, IsPlanned, HasVerdict
<1>4. CASE ~HasVerdict'
  BY <1>4 DEF IsPlanned
<1>5. NoFile => Ignore
  BY DEF NoFile
<1>6. CheckRule => Ignore \/ ~HasVerdict'
  BY DEF CheckRule, HasVerdict
<1>7. VisitNode \/ Return => ~HasVerdict'
  BY DEF VisitNode, Return, HasVerdict
<1>8. VisitDependency => Ignore \/ ~HasVerdict'
  BY DEF VisitDependency, HasVerdict
<1>9. RulePasses => Ignore \/ ~HasVerdict'
  BY DEF RulePasses, HasVerdict
<1> QED  BY <1>1, <1>2, <1>3, <1>4, <1>5, <1>6, <1>7, <1>8, <1>9 DEF Next

\* The graph of a rule that was found valid, or of the keywords, is a valid one.
LEMMA PlannedIsValid ==
  ASSUME IInv, IsPlanned, HasVerdict
  PROVE  DistinctIds(graph) /\ ValidPlan(AsPlan(graph))
<1>1. request.topics \in SUBSET Topic /\ request.primary \in Worker /\ rules \in Seq(Rule)
  BY DEF IInv, Typed, Request, rules
<1>2. CASE graph = BuiltinNodes(request.topics, request.primary)
  BY <1>1, <1>2, BuiltinNodesAreGood, GoodIsValid
<1>3. ASSUME Right(request), NEW i \in DOMAIN rules, graph = Configured(rules[i])
      PROVE  DistinctIds(graph) /\ ValidPlan(AsPlan(graph))
  <2>1. rules[i] \in Rule /\ Valid(rules[i])
    BY <1>1, <1>3 DEF Right, rules
  <2> QED  BY <1>3, <2>1, ConfiguredIsValid
<1> QED  BY <1>2, <1>3 DEF IsPlanned, PlannedFor, rules

\* Whatever the rules, their number and size, and whatever keywords the task has:
\* the graph that plan_task_graph returns is what TaskGraph assumes of its plans.
THEOREM PlansAreValidGraphs == Spec => []PlanIsValid
<1>1. Init => IsPlanned
  BY DEF Init, IsPlanned, HasVerdict
<1>2. IInv' /\ IsPlanned /\ [Next]_vars => IsPlanned'
  BY PlanningIsPlanned DEF IInv
<1>3. IInv /\ IsPlanned => PlanIsValid
  BY PlannedIsValid DEF PlanIsValid, HasVerdict
<1> QED  BY <1>1, <1>2, <1>3, PlanningInvariant, PTL DEF Spec

----------------------------------------------------------------------------
(* The ranking of the roles                                                *)

\* The least of a set of numbers.
LEMMA LeastExists ==
  ASSUME NEW S \in SUBSET Nat, S # {}
  PROVE  \E least \in S : \A k \in S : least <= k
<1>1. PICK least \in S : \A k \in S : <<k, least>> \notin OpToRel(<, Nat)
  BY NatLessThanWellFounded, WFMin, Zenon
<1>2. \A k \in S : ~(k < least)
  BY <1>1, Zenon DEF OpToRel
<1> QED  BY <1>2

\* Scores, hits and priorities are numbers.
LEMMA ScoreIs ==
  ASSUME command \in Command, NEW p \in RoleProfile
  PROVE  Score(p) \in Nat /\ command.hits[p.role] \in Nat /\ p.priority \in Nat
<1>1. p.role \in Worker /\ p.priority \in Nat /\ command.hits \in [Worker -> Nat]
  BY DEF RoleProfile, Command
<1>2. command.hits[p.role] \in Nat
  BY <1>1
<1>3. PICK h \in Nat : h = command.hits[p.role]
  BY <1>2
<1>4. Score(p) = IF h > 0 THEN 4 * h + (IF p.general THEN 1 ELSE 0) ELSE 0
  BY <1>3 DEF Score
<1> QED  BY <1>1, <1>2, <1>4

\* The sort of route has one result: of two profiles one is before the other.
LEMMA AboveIsOrder ==
  ASSUME command \in Command, NEW C \in Seq(RoleProfile)
  PROVE  /\ \A i \in DOMAIN C : ~Above(C, i, i)
         /\ \A i, j, k \in DOMAIN C : Above(C, i, j) /\ Above(C, j, k) => Above(C, i, k)
         /\ \A i, j \in DOMAIN C : i # j => Above(C, i, j) \/ Above(C, j, i)
<1> DEFINE s(i) == Score(C[i])
           h(i) == command.hits[C[i].role]
           p(i) == C[i].priority
<1>1. \A i \in DOMAIN C : i \in Nat /\ s(i) \in Nat /\ h(i) \in Nat /\ p(i) \in Nat
  BY ScoreIs
<1>2. \A i, j : Above(C, i, j) <=>
        \/ s(i) > s(j)
        \/ s(i) = s(j) /\ h(i) > h(j)
        \/ s(i) = s(j) /\ h(i) = h(j) /\ p(i) < p(j)
        \/ s(i) = s(j) /\ h(i) = h(j) /\ p(i) = p(j) /\ i < j
  BY DEF Above
<1> HIDE DEF s, h, p
<1>3. \A i \in DOMAIN C : ~Above(C, i, i)
  BY <1>1, <1>2
<1>4. ASSUME NEW i \in DOMAIN C, NEW j \in DOMAIN C, NEW k \in DOMAIN C,
             Above(C, i, j), Above(C, j, k)
      PROVE  Above(C, i, k)
  BY <1>1, <1>2, <1>4
<1>5. \A i, j \in DOMAIN C : i # j => Above(C, i, j) \/ Above(C, j, i)
  BY <1>1, <1>2
<1> QED  BY <1>3, <1>4, <1>5

\* Whatever is sorted, one profile comes first.
LEMMA FirstIsBest ==
  ASSUME command \in Command, NEW C \in Seq(RoleProfile),
         NEW P \in SUBSET DOMAIN C, P # {}
  PROVE  /\ First(C)[P] \in P
         /\ \A j \in P \ {First(C)[P]} : Above(C, First(C)[P], j)
<1> DEFINE B(i) == {j \in P : Above(C, j, i)}
           U == {B(i) : i \in P}
           R == StrictSubsetOrdering(P)
<1>1. IsFiniteSet(P)
  <2>1. IsFiniteSet(1..Len(C))
    BY FS_Interval
  <2> QED  BY <2>1, FS_Subset
<1>2. U \subseteq FiniteSubsetsOf(P) /\ U # {}
  <2>1. FiniteSubsetsOf(P) = SUBSET P
    BY <1>1, FS_FiniteSubsetsOfFinite
  <2>2. \A i \in P : B(i) \in SUBSET P
    OBVIOUS
  <2> HIDE DEF B
  <2> QED  BY <2>1, <2>2
<1>3. IsWellFoundedOn(R, FiniteSubsetsOf(P))
  BY FS_StrictSubsetOrderingWellFounded
<1>4. PICK least \in U : \A b \in U : ~(<<b, least>> \in R)
  <2> HIDE DEF U, R
  <2> QED  BY <1>2, <1>3, WFMin
<1>5. PICK i \in P : least = B(i)
  OBVIOUS
<1>6. ASSUME NEW j \in B(i) PROVE FALSE
  <2>1. j \in P /\ Above(C, j, i)
    OBVIOUS
  <2>2. B(j) \subseteq B(i)
    BY <2>1, AboveIsOrder
  <2>3. j \notin B(j)
    BY <2>1, AboveIsOrder
  <2>4. <<B(j), B(i)>> \in R
    BY <2>2, <2>3 DEF StrictSubsetOrdering
  <2> QED  BY <1>4, <1>5, <2>1, <2>4
<1>7. \A j \in P \ {i} : Above(C, i, j)
  BY <1>6, AboveIsOrder
<1>8. First(C)[P] = CHOOSE k \in P : \A j \in P \ {k} : Above(C, k, j)
  BY DEF First
<1> QED  BY <1>7, <1>8

\* One that is before all others is the first: the order leaves no choice.
LEMMA FirstIs ==
  ASSUME command \in Command, NEW C \in Seq(RoleProfile),
         NEW P \in SUBSET DOMAIN C, NEW i \in P, \A j \in P \ {i} : Above(C, i, j)
  PROVE  First(C)[P] = i
<1>1. /\ First(C)[P] \in P
      /\ \A j \in P \ {First(C)[P]} : Above(C, First(C)[P], j)
  BY FirstIsBest
<1> QED  BY <1>1, AboveIsOrder

\* No two profiles have the same role, and so find finds the one.
LEMMA FirstNamedIs ==
  ASSUME NEW C \in Seq(RoleProfile), ValidCatalog(C), NEW i \in DOMAIN C
  PROVE  FirstNamed(C, C[i].role) = i
<1>1. \A j \in DOMAIN C : C[j].role = C[i].role => j = i
  BY DEF ValidCatalog
<1>2. i \in DOMAIN C /\ C[i].role = C[i].role /\ \A j \in 1..(i - 1) : C[j].role # C[i].role
  <2>1. \A j \in 1..(i - 1) : j \in DOMAIN C /\ j # i
    OBVIOUS
  <2> QED  BY <1>1, <2>1
<1> QED  BY <1>1, <1>2 DEF FirstNamed

----------------------------------------------------------------------------
(* The roles that are started                                              *)

\* A filter loses nothing that it is to keep, and adds nothing.
LEMMA PickedHolds ==
  ASSUME NEW s, NEW P \in SUBSET Nat, IsFiniteSet(P)
  PROVE  /\ DOMAIN Picked(s, P) = 1..Cardinality(P) /\ Cardinality(P) \in Nat
         /\ \A i \in P : \E k \in 1..Cardinality(P) : Picked(s, P)[k] = s[i]
         /\ \A k \in 1..Cardinality(P) : \E i \in P : Picked(s, P)[k] = s[i]
<1> DEFINE B(j) == {l \in P : l < j}
           n == Cardinality(P)
           place == [j \in P |-> Cardinality(B(j))]
<1>1. n \in Nat
  BY FS_CardinalityType
<1>2. \A j \in P : IsFiniteSet(B(j)) /\ Cardinality(B(j)) \in Nat
  <2> SUFFICES ASSUME NEW j \in P PROVE IsFiniteSet(B(j)) /\ Cardinality(B(j)) \in Nat
    OBVIOUS
  <2>1. B(j) \in SUBSET P
    OBVIOUS
  <2> HIDE DEF B
  <2> QED  BY <2>1, FS_Subset, FS_CardinalityType
<1>3. ASSUME NEW j \in P, NEW l \in P, l < j
      PROVE  Cardinality(B(l)) < Cardinality(B(j))
  <2>1. l \in B(j) /\ B(l) \in SUBSET (B(j) \ {l})
    <3>1. l \in Nat /\ j \in Nat /\ \A x \in P : x \in Nat
      OBVIOUS
    <3>2. \A x \in B(l) : x < j /\ x # l
      BY <1>3, <3>1
    <3> QED  BY <1>3, <3>2
  <2> HIDE DEF B
  <2>2. IsFiniteSet(B(j) \ {l}) /\ Cardinality(B(j) \ {l}) = Cardinality(B(j)) - 1
    BY <1>2, <2>1, FS_RemoveElement
  <2>3. Cardinality(B(l)) <= Cardinality(B(j) \ {l})
    BY <2>1, <2>2, FS_Subset
  <2> QED  BY <1>2, <2>2, <2>3
<1>4. ASSUME NEW i \in P PROVE Cardinality(B(i)) <= n - 1
  <2>1. B(i) \in SUBSET (P \ {i})
    OBVIOUS
  <2> HIDE DEF B
  <2>2. IsFiniteSet(P \ {i}) /\ Cardinality(P \ {i}) = n - 1
    BY FS_RemoveElement
  <2> QED  BY <2>1, <2>2, FS_Subset
<1>5. \A i, j \in P : Cardinality(B(i)) = Cardinality(B(j)) => i = j
  <2>1. \A i, j \in P : i = j \/ i < j \/ j < i
    OBVIOUS
  <2> HIDE DEF B
  <2> QED  BY <1>2, <1>3, <2>1
<1>6. place \in Surjection(P, 0..(n - 1))
  <2>1. place \in [P -> 0..(n - 1)]
    BY <1>1, <1>2, <1>4
  <2>2. \A i, j \in P : i # j => place[i] # place[j]
    BY <1>5
  <2>3. IsFiniteSet(0..(n - 1)) /\ Cardinality(0..(n - 1)) = n
    <3>1. 0 \in Int /\ n - 1 \in Int
      BY <1>1
    <3>2. /\ IsFiniteSet(0..(n - 1))
          /\ Cardinality(0..(n - 1)) = IF 0 > n - 1 THEN 0 ELSE n - 1 - 0 + 1
      BY <3>1, FS_Interval
    <3> HIDE DEF n
    <3> QED  BY <1>1, <3>2
  <2> HIDE DEF place
  <2>4. place \in Injection(P, 0..(n - 1))
    BY <2>1, <2>2 DEF Injection, IsInjective
  <2>5. Cardinality(P) = n
    OBVIOUS
  <2> HIDE DEF n
  <2> QED  BY <2>3, <2>4, <2>5, FS_Injection
<1>7. \A k \in 1..n : \E i \in P : Cardinality(B(i)) = k - 1
  <2> SUFFICES ASSUME NEW k \in 1..n PROVE \E i \in P : Cardinality(B(i)) = k - 1
    OBVIOUS
  <2>1. k - 1 \in 0..(n - 1)
    BY <1>1
  <2>2. PICK i \in P : place[i] = k - 1
    <3> HIDE DEF n, place
    <3> QED  BY <1>6, <2>1 DEF Surjection
  <2> QED  BY <2>2
<1>8. Picked(s, P) = [k \in 1..n |-> s[CHOOSE j \in P : Cardinality(B(j)) = k - 1]]
  BY DEF Picked, Arranged
<1>9. ASSUME NEW k \in 1..n, NEW i \in P, Cardinality(B(i)) = k - 1
      PROVE  Picked(s, P)[k] = s[i]
  <2>1. \A j \in P : Cardinality(B(j)) = k - 1 <=> j = i
    <3> HIDE DEF B
    <3> QED  BY <1>5, <1>9
  <2> HIDE DEF B, n
  <2>2. (CHOOSE j \in P : Cardinality(B(j)) = k - 1) = i
    BY <2>1
  <2> QED  BY <1>8, <2>2
<1>10. ASSUME NEW i \in P PROVE \E k \in 1..n : Picked(s, P)[k] = s[i]
  <2>1. PICK k : k = Cardinality(B(i)) + 1
    OBVIOUS
  <2>2. k \in 1..n /\ Cardinality(B(i)) = k - 1
    <3>1. Cardinality(B(i)) \in Nat /\ Cardinality(B(i)) <= n - 1
      BY <1>2, <1>4
    <3> HIDE DEF B, n
    <3> QED  BY <1>1, <2>1, <3>1
  <2> HIDE DEF B, n
  <2> QED  BY <1>9, <2>2
<1>11. ASSUME NEW k \in 1..n PROVE \E i \in P : Picked(s, P)[k] = s[i]
  <2> HIDE DEF B, n
  <2> QED  BY <1>7, <1>9
<1>12. DOMAIN Picked(s, P) = 1..n
  <2> HIDE DEF B, n
  <2> QED  BY <1>8
<1> QED  BY <1>1, <1>10, <1>11, <1>12

\* A filter that keeps the elements up to the n-th.
\* Nothing is lost if nothing is filtered out.
LEMMA PickedUpTo ==
  ASSUME NEW s, NEW n \in Nat
  PROVE  Picked(s, 1..n) = [k \in 1..n |-> s[k]]
<1> DEFINE B(j) == {l \in 1..n : l < j}
<1>1. Cardinality(1..n) = n
  BY FS_Interval
<1>2. \A j \in 1..n : Cardinality(B(j)) = j - 1
  <2> SUFFICES ASSUME NEW j \in 1..n PROVE Cardinality(B(j)) = j - 1
    OBVIOUS
  <2>1. B(j) = 1..(j - 1) /\ j - 1 \in Int /\ 1 \in Int
    OBVIOUS
  <2> HIDE DEF B
  <2> QED  BY <2>1, FS_Interval
<1>3. \A k \in 1..n : (CHOOSE j \in 1..n : Cardinality(B(j)) = k - 1) = k
  <2> HIDE DEF B
  <2>1. \A k, j \in 1..n : Cardinality(B(j)) = k - 1 <=> j = k
    BY <1>2
  <2> QED  BY <2>1
<1>4. Picked(s, 1..n) = [k \in 1..n |-> s[CHOOSE j \in 1..n : Cardinality(B(j)) = k - 1]]
  BY <1>1 DEF Picked, Arranged
<1> HIDE DEF B
<1> QED  BY <1>3, <1>4

\* A file that is not valid is ignored, so the catalog is valid.
LEMMA CatalogIsGood ==
  ASSUME command \in Command
  PROVE  /\ Catalog \in Seq(RoleProfile) /\ ValidCatalog(Catalog)
         /\ DOMAIN Catalog = 1..Len(Catalog) /\ Len(Catalog) \in Nat \ {0}
<1>1. command.roles \in Seq(RoleProfile)
  BY DEF Command
<1>2. Catalog \in Seq(RoleProfile) /\ ValidCatalog(Catalog)
  BY <1>1, BuiltinCatalogIsValid DEF Catalog
<1>3. Catalog # <<>>
  BY <1>2 DEF ValidCatalog
<1> QED  BY <1>2, <1>3

\* The roles of a list of profiles.
LEMMA RolesOfIs ==
  ASSUME NEW C \in Seq(RoleProfile)
  PROVE  /\ RolesOf(C) \in Seq(Worker)
         /\ DOMAIN RolesOf(C) = DOMAIN C /\ DOMAIN C = 1..Len(C) /\ Len(C) \in Nat
         /\ \A i \in DOMAIN C : RolesOf(C)[i] = C[i].role /\ C[i].role \in Worker
         /\ \A w : Contains(RolesOf(C), w) <=> \E i \in DOMAIN C : C[i].role = w
         /\ \A w : w \in ToSet(RolesOf(C)) <=> \E i \in DOMAIN C : C[i].role = w
<1>1. DOMAIN C = 1..Len(C) /\ Len(C) \in Nat
  OBVIOUS
<1>2. \A i \in DOMAIN C : C[i].role \in Worker
  <2>1. \A i \in DOMAIN C : C[i] \in RoleProfile
    OBVIOUS
  <2> QED  BY <2>1 DEF RoleProfile
<1>3. DOMAIN RolesOf(C) = DOMAIN C /\ \A i \in DOMAIN C : RolesOf(C)[i] = C[i].role
  BY DEF RolesOf
<1>4. RolesOf(C) \in Seq(Worker)
  BY <1>1, <1>2 DEF RolesOf
<1>5. Len(RolesOf(C)) = Len(C)
  BY <1>1, <1>3, <1>4
<1>6. \A w : Contains(RolesOf(C), w) <=> \E i \in DOMAIN C : C[i].role = w
  BY <1>1, <1>3, <1>5 DEF Contains
<1>7. \A w : w \in ToSet(RolesOf(C)) <=> \E i \in DOMAIN C : C[i].role = w
  BY <1>3 DEF ToSet
<1> QED  BY <1>1, <1>2, <1>3, <1>4, <1>6, <1>7

\* The loop of select_roles_for_task starts every role of a list that has a profile.
LEMMA SelectedKeeps ==
  ASSUME command \in Command, NEW T, NEW names \in Seq(T),
         NEW w \in ToSet(names), w \in ToSet(RolesOf(Catalog))
  PROVE  w \in ToSet(RolesOf(Selected(names)))
<1> DEFINE firsts == {i \in DOMAIN names : /\ Contains(RolesOf(Catalog), names[i])
                                           /\ \A j \in 1..(i - 1) : names[j] # names[i]}
           at == [i \in DOMAIN names |-> Catalog[FirstNamed(Catalog, names[i])]]
           S == {i \in DOMAIN names : names[i] = w}
<1>1. DOMAIN names = 1..Len(names) /\ Len(names) \in Nat
  OBVIOUS
<1>2. PICK i \in S : \A k \in S : i <= k
  <2>1. S \in SUBSET Nat /\ S # {}
    BY <1>1 DEF ToSet
  <2> HIDE DEF S
  <2> QED  BY <2>1, LeastExists
<1>3. \A j \in 1..(i - 1) : names[j] # names[i]
  BY <1>1, <1>2
<1>4. PICK c \in DOMAIN Catalog : w = Catalog[c].role
  BY CatalogIsGood, RolesOfIs
<1>6. Contains(RolesOf(Catalog), names[i])
  BY <1>2, <1>4, CatalogIsGood, RolesOfIs
<1>7. i \in firsts /\ firsts \in SUBSET Nat
  BY <1>1, <1>3, <1>6
<1>8. IsFiniteSet(firsts)
  <2>1. firsts \in SUBSET (1..Len(names)) /\ IsFiniteSet(1..Len(names))
    BY <1>1, FS_Interval
  <2> HIDE DEF firsts
  <2> QED  BY <2>1, FS_Subset
<1>9. Selected(names) = Picked(at, firsts)
  BY <1>7 DEF Selected
<1>10. PICK k \in DOMAIN Selected(names) : Selected(names)[k] = at[i]
  <2> HIDE DEF at, firsts
  <2>1. PICK n : n = Cardinality(firsts)
    OBVIOUS
  <2>2. /\ DOMAIN Picked(at, firsts) = 1..n
        /\ \A j \in firsts : \E k \in 1..n : Picked(at, firsts)[k] = at[j]
    BY <1>7, <1>8, <2>1, PickedHolds
  <2>3. \E k \in 1..n : Picked(at, firsts)[k] = at[i]
    BY <1>7, <2>2
  <2> QED  BY <1>9, <2>2, <2>3
<1>11. at[i].role = w
  BY <1>2, <1>4, CatalogIsGood, FirstNamedIs
<1> HIDE DEF at
<1> QED  BY <1>10, <1>11 DEF RolesOf, ToSet

\* What is started is made of profiles of the catalog, one at least.
LEMMA SelectedIsCatalog ==
  ASSUME command \in Command, NEW T, NEW names \in Seq(T)
  PROVE  Selected(names) \in Seq(RoleProfile) /\ Selected(names) # <<>>
<1> DEFINE firsts == {i \in DOMAIN names : /\ Contains(RolesOf(Catalog), names[i])
                                           /\ \A j \in 1..(i - 1) : names[j] # names[i]}
           at == [i \in DOMAIN names |-> Catalog[FirstNamed(Catalog, names[i])]]
<1>1. DOMAIN names = 1..Len(names) /\ Len(names) \in Nat
  OBVIOUS
<1>2. \A c \in DOMAIN Catalog : Catalog[c] \in RoleProfile
  BY CatalogIsGood
<1>3. CASE firsts = {}
  <2>1. Selected(names) = <<Catalog[1]>>
    BY <1>3 DEF Selected
  <2> QED  BY <1>2, <2>1, CatalogIsGood
<1>4. CASE firsts # {}
  <2>1. Selected(names) = Picked(at, firsts)
    BY <1>4 DEF Selected
  <2>2. firsts \in SUBSET (1..Len(names)) /\ IsFiniteSet(1..Len(names))
    BY <1>1, FS_Interval
  <2>3. \A i \in firsts : at[i] \in RoleProfile
    <3> SUFFICES ASSUME NEW i \in firsts PROVE at[i] \in RoleProfile
      OBVIOUS
    <3>1. i \in DOMAIN names /\ Contains(RolesOf(Catalog), names[i])
      OBVIOUS
    <3>2. PICK c \in DOMAIN Catalog : Catalog[c].role = names[i]
      BY <3>1, CatalogIsGood, RolesOfIs
    <3>3. at[i] = Catalog[c]
      BY <3>1, <3>2, CatalogIsGood, FirstNamedIs
    <3> QED  BY <1>2, <3>3
  <2> HIDE DEF at, firsts
  <2>31. IsFiniteSet(firsts)
    BY <2>2, FS_Subset
  <2>32. firsts \in SUBSET Nat
    BY <1>1, <2>2
  <2>4. IsFiniteSet(firsts) /\ firsts \in SUBSET Nat
    BY <2>31, <2>32
  <2>5. PICK n : n = Cardinality(firsts)
    OBVIOUS
  <2>6. /\ DOMAIN Picked(at, firsts) = 1..n /\ n \in Nat
        /\ \A i \in firsts : \E k \in 1..n : Picked(at, firsts)[k] = at[i]
        /\ \A k \in 1..n : \E i \in firsts : Picked(at, firsts)[k] = at[i]
    BY <2>4, <2>5, PickedHolds
  <2>7. \A k \in 1..n : Picked(at, firsts)[k] \in RoleProfile
    BY <2>3, <2>6
  <2>8. n # 0
    BY <1>4, <2>6
  <2>9. Picked(at, firsts) = [k \in 1..n |-> Picked(at, firsts)[k]]
    BY <2>6 DEF Picked, Arranged
  <2>10. PICK f : f = Picked(at, firsts)
    OBVIOUS
  <2>11. f \in [1..n -> RoleProfile]
    BY <2>7, <2>9, <2>10
  <2>12. f \in Seq(RoleProfile) /\ Len(f) = n
    BY <2>6, <2>11
  <2> QED  BY <2>1, <2>8, <2>10, <2>12
<1> QED  BY <1>3, <1>4

\* A route has a primary role, one of the profiles.
LEMMA PrimaryIsRole ==
  ASSUME command \in Command, NEW C \in Seq(RoleProfile), C # <<>>
  PROVE  RouteOver(C).primary \in Worker
<1>1. 1 \in DOMAIN C /\ \A c \in DOMAIN C : C[c].role \in Worker
  BY RolesOfIs
<1>2. First(C)[DOMAIN C] \in DOMAIN C
  BY <1>1, FirstIsBest
<1>3. ASSUME NEW w, \E c \in DOMAIN C : C[c].role = w
      PROVE  FirstNamed(C, w) \in DOMAIN C
  <2>1. PICK S : S = {c \in DOMAIN C : C[c].role = w}
    OBVIOUS
  <2>2. DOMAIN C = 1..Len(C) /\ Len(C) \in Nat
    OBVIOUS
  <2>3. PICK c \in S : \A d \in S : c <= d
    <3>1. S \in SUBSET Nat /\ S # {}
      BY <1>3, <2>1, <2>2
    <3> QED  BY <3>1, LeastExists
  <2>4. c \in DOMAIN C /\ C[c].role = w /\ \A j \in 1..(c - 1) : C[j].role # w
    BY <2>1, <2>2, <2>3
  <2> QED  BY <2>4 DEF FirstNamed
<1>4. PICK f \in DOMAIN C : Fallback(C) = C[f]
  <2>1. CASE \E c \in DOMAIN C : C[c].role = "chat"
    BY <1>3, <2>1, RolesOfIs DEF Fallback
  <2>2. CASE (~\E c \in DOMAIN C : C[c].role = "chat") /\ \E c \in DOMAIN C : C[c].role = "ops"
    BY <1>3, <2>2, RolesOfIs DEF Fallback
  <2>3. CASE (~\E c \in DOMAIN C : C[c].role = "chat") /\ ~\E c \in DOMAIN C : C[c].role = "ops"
    BY <1>1, <2>3, RolesOfIs DEF Fallback
  <2> QED  BY <2>1, <2>2, <2>3
<1> QED  BY <1>1, <1>2, <1>4 DEF RouteOver

\* Each role once.
Distinct(at) == \A k, l \in DOMAIN at : at[k] = at[l] => k = l

\* A list that names each role once and ends, at most, with a role that has no
\* profile gives the profiles in its order.
LEMMA SelectedAre ==
  ASSUME command \in Command,
         NEW m \in Nat \ {0}, NEW at \in [1..m -> DOMAIN Catalog], Distinct(at),
         NEW T, NEW names \in Seq(T), Len(names) \in m..(m + 1),
         \A k \in 1..m : names[k] = Catalog[at[k]].role,
         Len(names) = m + 1 => names[m + 1] \notin ToSet(RolesOf(Catalog))
  PROVE  Selected(names) = [k \in 1..m |-> Catalog[at[k]]]
<1> DEFINE firsts == {i \in DOMAIN names : /\ Contains(RolesOf(Catalog), names[i])
                                           /\ \A j \in 1..(i - 1) : names[j] # names[i]}
           found == [i \in DOMAIN names |-> Catalog[FirstNamed(Catalog, names[i])]]
<1>1. /\ DOMAIN names = 1..Len(names) /\ Len(names) \in Nat
      /\ \A k \in 1..m : k \in DOMAIN names /\ at[k] \in DOMAIN Catalog
      /\ \A k \in DOMAIN names : k \in 1..m \/ (k = m + 1 /\ Len(names) = m + 1)
  OBVIOUS
<1>2. \A w : Contains(RolesOf(Catalog), w) <=> w \in ToSet(RolesOf(Catalog))
  BY CatalogIsGood, RolesOfIs
<1>3. ASSUME NEW k \in 1..m PROVE k \in firsts
  <2>1. names[k] \in ToSet(RolesOf(Catalog))
    BY <1>1, CatalogIsGood, RolesOfIs
  <2>2. ASSUME NEW j \in 1..(k - 1), names[j] = names[k] PROVE FALSE
    <3>1. j \in 1..m /\ j # k
      OBVIOUS
    <3>2. at[j] = at[k]
      BY <1>1, <2>2, <3>1, CatalogIsGood DEF ValidCatalog
    <3> QED  BY <3>1, <3>2 DEF Distinct
  <2> QED  BY <1>1, <1>2, <2>1, <2>2
<1>4. ASSUME NEW k \in firsts PROVE k \in 1..m
  BY <1>1, <1>2
<1>5. firsts = 1..m
  <2> HIDE DEF firsts
  <2> QED  BY <1>3, <1>4
<1>6. Selected(names) = Picked(found, firsts)
  <2>1. 1 \in firsts
    BY <1>3
  <2> QED  BY <2>1 DEF Selected
<1>7. Selected(names) = [k \in 1..m |-> found[k]]
  <2> HIDE DEF firsts, found
  <2> QED  BY <1>5, <1>6, PickedUpTo
<1>8. \A k \in 1..m : found[k] = Catalog[at[k]]
  BY <1>1, CatalogIsGood, FirstNamedIs
<1> HIDE DEF found
<1> QED  BY <1>7, <1>8

\* The profiles at and, if none of them is chat and chat has one, that one last.
WithChatLast(m, at, n, all, profiles) ==
  /\ n \in m..(m + 1) /\ all \in [1..n -> DOMAIN Catalog] /\ Distinct(all)
  /\ \A k \in 1..m : all[k] = at[k]
  /\ n = m + 1 => Catalog[all[n]].role = "chat"
  /\ (\E c \in DOMAIN Catalog : Catalog[c].role = "chat")
       => \E k \in 1..n : Catalog[all[k]].role = "chat"
  /\ profiles = [k \in 1..n |-> Catalog[all[k]]]

\* What is started for distinct roles of the catalog: those, in their order, and chat at
\* the end if the catalog has it and it is not one of them.
LEMMA StartedAre ==
  ASSUME command \in Command,
         NEW m \in Nat \ {0}, NEW at \in [1..m -> DOMAIN Catalog], Distinct(at)
  PROVE  \E n, all :
           WithChatLast(m, at, n, all, Selected(WithChat([k \in 1..m |-> Catalog[at[k]].role])))
<1> DEFINE names == [k \in 1..m |-> Catalog[at[k]].role]
           chats == {c \in DOMAIN Catalog : Catalog[c].role = "chat"}
<1>0. \A c \in DOMAIN Catalog : Catalog[c].role \in Worker
  BY CatalogIsGood, RolesOfIs
<1>1. names \in Seq(Worker) /\ Len(names) = m
  BY <1>0
<1>2. \A k \in 1..m : names[k] = Catalog[at[k]].role
  OBVIOUS
<1>3. "chat" \in ToSet(RolesOf(Catalog)) <=> chats # {}
  BY CatalogIsGood, RolesOfIs
<1>4. Contains(names, "chat") <=> \E k \in 1..m : Catalog[at[k]].role = "chat"
  BY <1>1, <1>2 DEF Contains
<1>7. PICK started1 : started1 = Selected(WithChat(names))
  OBVIOUS
<1> SUFFICES \E n, all : WithChatLast(m, at, n, all, started1)
  BY <1>7
<1> HIDE DEF names
<1>5. CASE Contains(names, "chat")
  <2>1. Selected(names) = [k \in 1..m |-> Catalog[at[k]]]
    BY <1>1, <1>2, SelectedAre
  <2>3. WithChat(names) = names
    BY <1>5 DEF WithChat
  <2>2. WithChatLast(m, at, m, at, started1)
    BY <1>4, <1>5, <1>7, <2>1, <2>3 DEF WithChatLast
  <2> QED  BY <2>2
<1>6. CASE ~Contains(names, "chat")
  <2>1. PICK more : more = Append(names, "chat")
    OBVIOUS
  <2>2. WithChat(names) = more
    BY <1>6, <2>1 DEF WithChat
  <2>3. more \in Seq(Worker \cup {"chat"})
    BY <1>1, <2>1
  <2>4. Len(more) = m + 1 /\ more[m + 1] = "chat" /\ \A k \in 1..m : more[k] = names[k]
    BY <1>1, <2>1
  <2>5. CASE chats = {}
    <3>1. Selected(more) = [k \in 1..m |-> Catalog[at[k]]]
      BY <1>1, <1>2, <1>3, <2>3, <2>4, <2>5, SelectedAre
    <3>2. WithChatLast(m, at, m, at, started1)
      BY <1>7, <2>2, <2>5, <3>1 DEF WithChatLast
    <3> QED  BY <3>2
  <2>6. CASE chats # {}
    <3>1. PICK c \in DOMAIN Catalog : Catalog[c].role = "chat"
      BY <2>6
    <3>2. PICK all : all = [k \in 1..(m + 1) |-> IF k = m + 1 THEN c ELSE at[k]]
      OBVIOUS
    <3>3. \A k \in 1..(m + 1) : k \in 1..m \/ k = m + 1
      OBVIOUS
    <3>4. all \in [1..(m + 1) -> DOMAIN Catalog] /\ all[m + 1] = c /\ \A k \in 1..m : all[k] = at[k]
      BY <3>2
    <3>5. Distinct(all)
      BY <1>4, <1>6, <3>1, <3>3, <3>4 DEF Distinct
    <3>7. \A k \in 1..(m + 1) : more[k] = Catalog[all[k]].role
      BY <1>2, <2>4, <3>1, <3>3, <3>4
    <3>8. Selected(more) = [k \in 1..(m + 1) |-> Catalog[all[k]]]
      BY <1>0, <2>3, <2>4, <3>1, <3>4, <3>5, <3>7, SelectedAre
    <3>9. WithChatLast(m, at, m + 1, all, started1)
      BY <1>7, <2>2, <3>1, <3>4, <3>5, <3>8 DEF WithChatLast
    <3> QED  BY <3>9
  <2> QED  BY <2>5, <2>6
<1> QED  BY <1>5, <1>6

----------------------------------------------------------------------------
(* The route over the roles that were started                              *)

Others(C, p) == {i \in DOMAIN C : C[i].id # p.id /\ Score(C[i]) > 0}
RolesAt(C, at) == [k \in DOMAIN at |-> C[at[k]].role]

\* With hits the primary role is the first one of all.
LEMMA RouteWithHits ==
  ASSUME command \in Command, NEW C \in Seq(RoleProfile),
         NEW p \in DOMAIN C, \A j \in DOMAIN C \ {p} : Above(C, p, j), Score(C[p]) > 0
  PROVE  RouteOver(C) = [primary |-> C[p].role, score |-> Score(C[p]),
                         support |-> RolesAt(C, FirstTwo(C)[Others(C, C[p])])]
<1>1. First(C)[DOMAIN C] = p
  BY FirstIs
<1>2. C[First(C)[DOMAIN C]] = C[p]
  BY <1>1
<1> QED  BY <1>2 DEF RouteOver, Others, RolesAt

\* Without hits it is the fallback: chat if there is one.
LEMMA RouteWithoutHits ==
  ASSUME command \in Command, NEW C \in Seq(RoleProfile), ValidCatalog(C),
         \A i \in DOMAIN C : Score(C[i]) = 0
  PROVE  \E f \in DOMAIN C :
           /\ (\E c \in DOMAIN C : C[c].role = "chat") => C[f].role = "chat"
           /\ RouteOver(C) = [primary |-> C[f].role, score |-> 0, support |-> <<>>]
<1>1. 1 \in DOMAIN C
  BY DEF ValidCatalog
<1>2. First(C)[DOMAIN C] \in DOMAIN C
  BY <1>1, FirstIsBest
<1>3. \A c \in DOMAIN C : FirstNamed(C, C[c].role) = c
  BY FirstNamedIs
<1>4. PICK f \in DOMAIN C : /\ Fallback(C) = C[f]
                            /\ (\E c \in DOMAIN C : C[c].role = "chat") => C[f].role = "chat"
  <2>1. CASE \E c \in DOMAIN C : C[c].role = "chat"
    BY <1>3, <2>1, RolesOfIs DEF Fallback
  <2>2. CASE (~\E c \in DOMAIN C : C[c].role = "chat") /\ \E c \in DOMAIN C : C[c].role = "ops"
    BY <1>3, <2>2, RolesOfIs DEF Fallback
  <2>3. CASE (~\E c \in DOMAIN C : C[c].role = "chat") /\ ~\E c \in DOMAIN C : C[c].role = "ops"
    BY <1>1, <2>3, RolesOfIs DEF Fallback
  <2> QED  BY <2>1, <2>2, <2>3
<1>5. PICK others : others = Others(C, C[f])
  OBVIOUS
<1>6. others = {}
  BY <1>5 DEF Others
<1>7. FirstTwo(C)[others] = <<>>
  BY <1>6 DEF FirstTwo
<1>8. RolesAt(C, FirstTwo(C)[others]) = <<>>
  BY <1>7 DEF RolesAt
<1>9. RouteOver(C) = [primary |-> C[f].role, score |-> Score(C[f]),
                      support |-> RolesAt(C, FirstTwo(C)[others])]
  <2>1. ~(Score(C[First(C)[DOMAIN C]]) > 0)
    BY <1>2
  <2> QED  BY <1>4, <1>5, <2>1 DEF RouteOver, Others, RolesAt
<1> QED  BY <1>4, <1>8, <1>9

\* Some roles of the catalog, in an order of their own, are a catalog; and they are
\* ranked as they are there if their order is the ranking.
LEMMA ChosenIsGood ==
  ASSUME command \in Command, NEW n \in Nat \ {0},
         NEW all \in [1..n -> DOMAIN Catalog], Distinct(all),
         NEW S, S = [k \in 1..n |-> Catalog[all[k]]]
  PROVE  /\ S \in Seq(RoleProfile) /\ ValidCatalog(S) /\ DOMAIN S = 1..n
         /\ \A k \in 1..n : S[k] = Catalog[all[k]] /\ all[k] \in DOMAIN Catalog
         /\ \A k, l \in 1..n : k < l /\ Above(Catalog, all[k], all[l]) => Above(S, k, l)
<1>1. DOMAIN S = 1..n /\ \A k \in 1..n : S[k] = Catalog[all[k]] /\ all[k] \in DOMAIN Catalog
  OBVIOUS
<1>2. S \in Seq(RoleProfile)
  <2>1. \A c \in DOMAIN Catalog : Catalog[c] \in RoleProfile
    BY CatalogIsGood
  <2> QED  BY <1>1, <2>1
<1>3. ValidCatalog(S)
  <2>1. S # <<>>
    BY <1>1, <1>2
  <2>2. \A k \in DOMAIN S : S[k].complete
    BY <1>1, CatalogIsGood DEF ValidCatalog
  <2>3. ASSUME NEW k \in DOMAIN S, NEW l \in DOMAIN S, S[k].id = S[l].id \/ S[k].role = S[l].role
        PROVE  k = l
    <3>1. all[k] = all[l]
      BY <1>1, <2>3, CatalogIsGood DEF ValidCatalog
    <3> QED  BY <1>1, <3>1 DEF Distinct
  <2> QED  BY <2>1, <2>2, <2>3 DEF ValidCatalog
<1>4. ASSUME NEW k \in 1..n, NEW l \in 1..n, k < l, Above(Catalog, all[k], all[l])
      PROVE  Above(S, k, l)
  BY <1>1, <1>4 DEF Above
<1> QED  BY <1>1, <1>2, <1>3, <1>4

NoHits == \A i \in DOMAIN Catalog : Score(Catalog[i]) = 0

HasHits(p) ==
  /\ p \in DOMAIN Catalog /\ Score(Catalog[p]) > 0
  /\ \A j \in DOMAIN Catalog \ {p} : Above(Catalog, p, j)

\* Either no role has a hit, or one is before all others and has one.
LEMMA HitsOrNot ==
  ASSUME command \in Command
  PROVE  NoHits \/ \E p : HasHits(p)
<1>1. PICK p \in DOMAIN Catalog : \A j \in DOMAIN Catalog \ {p} : Above(Catalog, p, j)
  <2>1. 1 \in DOMAIN Catalog
    BY CatalogIsGood
  <2> QED  BY <2>1, CatalogIsGood, FirstIsBest
<1>2. \A i \in DOMAIN Catalog : Score(Catalog[i]) \in Nat
  BY CatalogIsGood, ScoreIs
<1>3. \A j \in DOMAIN Catalog : Above(Catalog, p, j) => Score(Catalog[p]) >= Score(Catalog[j])
  BY <1>2 DEF Above
<1>4. CASE Score(Catalog[p]) = 0
  <2>1. \A j \in DOMAIN Catalog : Score(Catalog[j]) = 0
    BY <1>1, <1>2, <1>3, <1>4
  <2> QED  BY <2>1 DEF NoHits
<1>5. CASE Score(Catalog[p]) # 0
  BY <1>1, <1>2, <1>5 DEF HasHits
<1> QED  BY <1>4, <1>5

\* Without hits the primary role alone is started, and is the fallback of its own.
LEMMA FallbackStays ==
  ASSUME command \in Command, NoHits, NEW w, w = RouteOver(Catalog)
  PROVE  w.support = <<>> /\ RouteOver(Selected(WithChat(<<w.primary>>))) = w
<1>1. PICK f \in DOMAIN Catalog :
        /\ (\E c \in DOMAIN Catalog : Catalog[c].role = "chat") => Catalog[f].role = "chat"
        /\ w = [primary |-> Catalog[f].role, score |-> 0, support |-> <<>>]
  BY CatalogIsGood, RouteWithoutHits DEF NoHits
<1>2. PICK at : at = <<f>>
  OBVIOUS
<1>3. at \in [1..1 -> DOMAIN Catalog] /\ at[1] = f /\ Distinct(at) /\ 1 \in Nat \ {0}
  BY <1>2 DEF Distinct
<1>4. <<w.primary>> = [k \in 1..1 |-> Catalog[at[k]].role]
  BY <1>1, <1>3
<1>5. PICK n, all : WithChatLast(1, at, n, all, Selected(WithChat(<<w.primary>>)))
  BY <1>3, <1>4, StartedAre
<1>6. PICK S : S = Selected(WithChat(<<w.primary>>))
  OBVIOUS
<1>7. n = 1 /\ all[1] = f
  <2>1. n \in 1..2 /\ all[1] = f /\ all \in [1..n -> DOMAIN Catalog] /\ Distinct(all)
    BY <1>3, <1>5 DEF WithChatLast
  <2>2. ASSUME n = 2 PROVE FALSE
    <3>1. Catalog[all[2]].role = "chat" /\ all[2] \in DOMAIN Catalog
      BY <1>5, <2>1, <2>2 DEF WithChatLast
    <3>2. all[2] = f
      BY <1>1, <3>1, CatalogIsGood DEF ValidCatalog
    <3> QED  BY <2>1, <2>2, <3>2 DEF Distinct
  <2> QED  BY <2>1, <2>2
<1>8. /\ n \in Nat \ {0} /\ S = [k \in 1..n |-> Catalog[all[k]]]
      /\ all \in [1..n -> DOMAIN Catalog] /\ Distinct(all)
  BY <1>5, <1>6, <1>7 DEF WithChatLast
<1>9. S \in Seq(RoleProfile) /\ ValidCatalog(S) /\ DOMAIN S = 1..1 /\ S[1] = Catalog[f]
  <2>1. /\ S \in Seq(RoleProfile) /\ ValidCatalog(S) /\ DOMAIN S = 1..n
        /\ \A k \in 1..n : S[k] = Catalog[all[k]]
    BY <1>8, ChosenIsGood
  <2> QED  BY <1>7, <2>1
<1>10. \A i \in DOMAIN S : Score(S[i]) = 0
  BY <1>9 DEF NoHits
<1>11. RouteOver(S) = [primary |-> S[1].role, score |-> 0, support |-> <<>>]
  BY <1>9, <1>10, RouteWithoutHits
<1> QED  BY <1>1, <1>6, <1>9, <1>11

\* With hits the primary role is started first, and still is before all others.
LEMMA PrimaryLeads ==
  ASSUME command \in Command, NEW p, HasHits(p),
         NEW m \in Nat \ {0}, NEW at \in [1..m -> DOMAIN Catalog], at[1] = p,
         NEW n, NEW all, NEW S, WithChatLast(m, at, n, all, S)
  PROVE  /\ n \in m..(m + 1) /\ all \in [1..n -> DOMAIN Catalog] /\ Distinct(all)
         /\ S \in Seq(RoleProfile) /\ ValidCatalog(S) /\ DOMAIN S = 1..n
         /\ \A k \in 1..n : S[k] = Catalog[all[k]] /\ all[k] \in DOMAIN Catalog
         /\ \A k, l \in 1..n : k < l /\ Above(Catalog, all[k], all[l]) => Above(S, k, l)
         /\ 1 \in DOMAIN S /\ S[1] = Catalog[p] /\ Score(S[1]) > 0
         /\ \A l \in DOMAIN S \ {1} : Above(S, 1, l)
<1>1. n \in m..(m + 1) /\ all \in [1..n -> DOMAIN Catalog] /\ Distinct(all) /\ all[1] = p
  BY DEF WithChatLast
<1>2. n \in Nat \ {0} /\ 1 \in 1..n /\ S = [k \in 1..n |-> Catalog[all[k]]]
  BY <1>1 DEF WithChatLast
<1>3. /\ S \in Seq(RoleProfile) /\ ValidCatalog(S) /\ DOMAIN S = 1..n
      /\ \A k \in 1..n : S[k] = Catalog[all[k]] /\ all[k] \in DOMAIN Catalog
      /\ \A k, l \in 1..n : k < l /\ Above(Catalog, all[k], all[l]) => Above(S, k, l)
  BY <1>1, <1>2, ChosenIsGood
<1>4. ASSUME NEW l \in DOMAIN S \ {1} PROVE Above(S, 1, l)
  <2>1. l \in 1..n /\ 1 < l /\ all[l] # p
    BY <1>1, <1>2, <1>3 DEF Distinct
  <2>2. Above(Catalog, all[1], all[l])
    BY <1>1, <1>3, <2>1 DEF HasHits
  <2> QED  BY <1>2, <1>3, <2>1, <2>2
<1> QED  BY <1>1, <1>2, <1>3, <1>4 DEF HasHits

\* If the primary role is all that is planned, it stays the primary role.
LEMMA PrimaryAgrees ==
  ASSUME command \in Command, NEW w, w = RouteOver(Catalog)
  PROVE  RouteOver(Selected(WithChat(<<w.primary>>))).primary = w.primary
<1>1. CASE NoHits
  BY <1>1, FallbackStays
<1>2. ASSUME NEW p, HasHits(p)
      PROVE  RouteOver(Selected(WithChat(<<w.primary>>))).primary = w.primary
  <2>1. p \in DOMAIN Catalog /\ w.primary = Catalog[p].role
    BY <1>2, CatalogIsGood, RouteWithHits DEF HasHits
  <2>2. PICK at, m : at = <<p>> /\ m = 1
    OBVIOUS
  <2>3. m \in Nat \ {0} /\ at \in [1..m -> DOMAIN Catalog] /\ at[1] = p /\ Distinct(at)
    BY <2>1, <2>2 DEF Distinct
  <2>4. <<w.primary>> = [k \in 1..m |-> Catalog[at[k]].role]
    BY <2>1, <2>2
  <2>5. PICK S : S = Selected(WithChat(<<w.primary>>))
    OBVIOUS
  <2>6. PICK n, all : WithChatLast(m, at, n, all, S)
    BY <2>3, <2>4, <2>5, StartedAre
  <2>7. /\ S \in Seq(RoleProfile) /\ 1 \in DOMAIN S /\ S[1] = Catalog[p] /\ Score(S[1]) > 0
        /\ \A l \in DOMAIN S \ {1} : Above(S, 1, l)
    BY <1>2, <2>3, <2>6, PrimaryLeads
  <2>8. RouteOver(S).primary = S[1].role
    BY <2>7, RouteWithHits
  <2> QED  BY <2>1, <2>5, <2>7, <2>8
<1> QED  BY <1>1, <1>2, HitsOrNot

\* Taking two of the others: none, the one there is, or the two that no other is before.
Leads(C, P, two) ==
  \/ P = {} /\ two = <<>>
  \/ \E a \in P : P = {a} /\ two = <<a>>
  \/ \E a, b \in P : /\ a # b /\ two = <<a, b>> /\ Above(C, a, b)
                     /\ \A j \in P \ {a, b} : Above(C, a, j) /\ Above(C, b, j)

\* A list of one or two.
LEMMA OneOrTwo ==
  ASSUME NEW a, NEW b, NEW more \in BOOLEAN
  PROVE  <<a>> \o When(more, <<b>>) = IF more THEN <<a, b>> ELSE <<a>>
<1>0. PICK T : T = {a, b}
  OBVIOUS
<1>1. <<a>> \o <<b>> = <<a, b>> /\ <<a>> \o <<>> = <<a>>
  <2>1. <<a>> \in Seq(T) /\ <<b>> \in Seq(T) /\ <<>> \in Seq(T) /\ <<a, b>> \in Seq(T)
    BY <1>0
  <2>2. <<a>> \o <<b>> = Append(<<a>>, b) /\ <<a>> \o <<>> = <<a>>
    BY <2>1
  <2>3. Append(<<a>>, b) = <<a, b>>
    <3>1. PICK s, t : s = Append(<<a>>, b) /\ t = <<a, b>>
      OBVIOUS
    <3>2. s \in Seq(T) /\ t \in Seq(T) /\ Len(s) = 2 /\ Len(t) = 2
      BY <1>0, <2>1, <3>1
    <3>3. s[1] = a /\ s[2] = b /\ t[1] = a /\ t[2] = b
      BY <2>1, <3>1
    <3>4. \A i \in 1..Len(s) : s[i] = t[i]
      BY <3>2, <3>3
    <3> QED  BY <3>1, <3>2, <3>4, SeqEqual
  <2> QED  BY <2>2, <2>3
<1>2. When(more, <<b>>) = IF more THEN <<b>> ELSE <<>>
  BY DEF When
<1> QED  BY <1>1, <1>2

\* FirstTwo takes the first and the second by the order.
LEMMA FirstTwoLead ==
  ASSUME command \in Command, NEW C \in Seq(RoleProfile), NEW P \in SUBSET DOMAIN C
  PROVE  Leads(C, P, FirstTwo(C)[P])
<1>1. CASE P = {}
  BY <1>1 DEF FirstTwo, Leads
<1>2. CASE P # {}
  <2>1. PICK a \in P : a = First(C)[P] /\ \A j \in P \ {a} : Above(C, a, j)
    BY <1>2, FirstIsBest
  <2>2. PICK rest : rest = P \ {a}
    OBVIOUS
  <2>3. FirstTwo(C)[P] = <<a>> \o When(P # {a}, <<First(C)[rest]>>)
    BY <1>2, <2>1, <2>2 DEF FirstTwo
  <2>4. CASE P = {a}
    <3>1. FirstTwo(C)[P] = <<a>>
      BY <2>3, <2>4 DEF When
    <3> QED  BY <2>4, <3>1 DEF Leads
  <2>5. CASE P # {a}
    <3>1. rest \in SUBSET DOMAIN C /\ rest # {}
      BY <2>2, <2>5
    <3>2. PICK b \in rest : b = First(C)[rest] /\ \A j \in rest \ {b} : Above(C, b, j)
      BY <3>1, FirstIsBest
    <3>3. FirstTwo(C)[P] = <<a, b>>
      BY <2>3, <2>5, <3>2, OneOrTwo
    <3> QED  BY <2>1, <2>2, <3>2, <3>3 DEF Leads
  <2> QED  BY <2>4, <2>5
<1> QED  BY <1>1, <1>2

\* Nothing else leads, so FirstTwo is determined by the order.
LEMMA LeadingTwo ==
  ASSUME command \in Command, NEW C \in Seq(RoleProfile), NEW P \in SUBSET DOMAIN C,
         NEW two, Leads(C, P, two)
  PROVE  FirstTwo(C)[P] = two
<1>1. CASE P = {} /\ two = <<>>
  BY <1>1 DEF FirstTwo
<1>2. ASSUME NEW a \in P, P = {a}, two = <<a>>
      PROVE  FirstTwo(C)[P] = two
  <2>1. First(C)[P] = a
    BY <1>2, FirstIs
  <2>2. PICK b : b = First(C)[P \ {a}]
    OBVIOUS
  <2>3. FirstTwo(C)[P] = <<a>> \o When(P # {a}, <<b>>)
    BY <1>2, <2>1, <2>2 DEF FirstTwo
  <2> QED  BY <1>2, <2>3, OneOrTwo
<1>3. ASSUME NEW a \in P, NEW b \in P, a # b, two = <<a, b>>, Above(C, a, b),
             \A j \in P \ {a, b} : Above(C, a, j) /\ Above(C, b, j)
      PROVE  FirstTwo(C)[P] = two
  <2>1. First(C)[P] = a
    BY <1>3, FirstIs
  <2>2. PICK rest : rest = P \ {a}
    OBVIOUS
  <2>3. First(C)[rest] = b
    <3>1. rest \in SUBSET DOMAIN C /\ b \in rest /\ \A j \in rest \ {b} : Above(C, b, j)
      BY <1>3, <2>2
    <3> QED  BY <3>1, FirstIs
  <2>4. FirstTwo(C)[P] = <<a>> \o When(P # {a}, <<b>>)
    BY <1>3, <2>1, <2>2, <2>3 DEF FirstTwo
  <2>5. P # {a}
    BY <1>3
  <2> QED  BY <1>3, <2>4, <2>5, OneOrTwo
<1> QED  BY <1>1, <1>2, <1>3 DEF Leads

\* After the primary role the supporting ones are started, and are taken again.
LEMMA SupportStays ==
  ASSUME command \in Command, NEW p, HasHits(p),
         NEW m \in 1..3, NEW at \in [1..m -> DOMAIN Catalog], at[1] = p, Distinct(at),
         NEW cand, cand = Others(Catalog, Catalog[p]),
         \A k \in 2..m : at[k] \in cand,
         m < 3 => \A j \in cand : \E k \in 2..m : j = at[k],
         m = 3 => /\ Above(Catalog, at[2], at[3])
                  /\ \A j \in cand \ {at[2], at[3]} :
                       Above(Catalog, at[2], j) /\ Above(Catalog, at[3], j),
         NEW n, NEW all, NEW S, WithChatLast(m, at, n, all, S)
  PROVE  Leads(S, Others(S, S[1]), IF m = 1 THEN <<>> ELSE IF m = 2 THEN <<2>> ELSE <<2, 3>>)
<1>0. m \in Nat \ {0}
  OBVIOUS
<1>1. /\ n \in m..(m + 1) /\ all \in [1..n -> DOMAIN Catalog] /\ Distinct(all)
      /\ S \in Seq(RoleProfile) /\ ValidCatalog(S) /\ DOMAIN S = 1..n
      /\ \A k \in 1..n : S[k] = Catalog[all[k]] /\ all[k] \in DOMAIN Catalog
      /\ \A k, l \in 1..n : k < l /\ Above(Catalog, all[k], all[l]) => Above(S, k, l)
  BY <1>0, PrimaryLeads
<1>2. \A k \in 1..m : all[k] = at[k] /\ k \in 1..n
  BY <1>1 DEF WithChatLast
<1>3. \A c \in DOMAIN Catalog : c \in cand <=> c # p /\ Score(Catalog[c]) > 0
  BY CatalogIsGood DEF Others, ValidCatalog, HasHits
<1>4. PICK taken : taken = Others(S, S[1])
  OBVIOUS
<1>5. taken \subseteq 1..n /\ \A k \in 1..n : k \in taken <=> k # 1 /\ all[k] \in cand
  <2>1. 1 \in 1..n
    BY <1>1
  <2>2. \A k \in 1..n : S[k].id # S[1].id <=> k # 1
    BY <1>1, <2>1 DEF ValidCatalog
  <2>3. \A k \in 1..n : k \in taken <=> k # 1 /\ Score(S[k]) > 0
    BY <1>1, <1>4, <2>2 DEF Others
  <2>4. \A k \in 1..n : k # 1 => all[k] # p
    BY <1>1, <1>2, <2>1 DEF Distinct
  <2>5. \A k \in 1..n : k \in taken <=> k # 1 /\ all[k] \in cand
    BY <1>1, <1>3, <2>3, <2>4
  <2> QED  BY <1>1, <1>4, <2>5 DEF Others
<1>6. \A k \in 2..m : k \in taken
  <2>1. \A k \in 2..m : k \in 1..m /\ k # 1
    OBVIOUS
  <2> QED  BY <1>2, <1>5, <2>1
<1>7. m < 3 => \A k \in taken : k \in 2..m
  <2> SUFFICES ASSUME m < 3, NEW k \in taken PROVE k \in 2..m
    OBVIOUS
  <2>1. k \in 1..n /\ all[k] \in cand
    BY <1>5
  <2>2. PICK l \in 2..m : all[k] = at[l]
    BY <2>1
  <2>3. l \in 1..m /\ l \in 1..n /\ all[l] = all[k]
    BY <1>2, <2>2
  <2>4. k = l
    BY <1>1, <2>1, <2>3 DEF Distinct
  <2> QED  BY <2>4
<1>8. CASE m = 1
  <2>1. taken = {}
    BY <1>7, <1>8
  <2> QED  BY <1>4, <1>8, <2>1 DEF Leads
<1>9. CASE m = 2
  <2>1. taken = {2}
    BY <1>6, <1>7, <1>9
  <2> QED  BY <1>4, <1>9, <2>1 DEF Leads
<1>10. CASE m = 3
  <2>1. 2 \in taken /\ 3 \in taken /\ 2 \in 1..n /\ 3 \in 1..n /\ all[2] = at[2] /\ all[3] = at[3]
    BY <1>2, <1>6, <1>10
  <2>2. Above(S, 2, 3)
    BY <1>1, <1>10, <2>1
  <2>3. ASSUME NEW k \in taken \ {2, 3} PROVE Above(S, 2, k) /\ Above(S, 3, k)
    <3>1. k \in 1..n /\ all[k] \in cand /\ 2 < k /\ 3 < k
      BY <1>1, <1>5, <2>3
    <3>2. all[k] # at[2] /\ all[k] # at[3]
      BY <1>1, <2>1, <3>1 DEF Distinct
    <3>3. Above(Catalog, all[2], all[k]) /\ Above(Catalog, all[3], all[k])
      BY <1>10, <2>1, <3>1, <3>2
    <3> QED  BY <1>1, <2>1, <3>1, <3>3
  <2> QED  BY <1>4, <1>10, <2>1, <2>2, <2>3 DEF Leads
<1> QED  BY <1>8, <1>9, <1>10

\* The commander finds the primary and the supporting roles of the whole catalog.
LEMMA RoutesAreSame ==
  ASSUME command \in Command, NEW w, w = RouteOver(Catalog)
  PROVE  RouteOver(Selected(WithChat(<<w.primary>> \o w.support))) = w
<1>1. CASE NoHits
  <2>1. w.support = <<>> /\ RouteOver(Selected(WithChat(<<w.primary>>))) = w
    BY <1>1, FallbackStays
  <2>2. PICK T : T = {w.primary}
    OBVIOUS
  <2>3. <<w.primary>> \in Seq(T)
    BY <2>2
  <2>4. <<w.primary>> \o <<>> = <<w.primary>>
    BY <2>3
  <2> QED  BY <2>1, <2>4
<1>2. ASSUME NEW p, HasHits(p)
      PROVE  RouteOver(Selected(WithChat(<<w.primary>> \o w.support))) = w
  <2>1. PICK cand, two : cand = Others(Catalog, Catalog[p]) /\ two = FirstTwo(Catalog)[cand]
    OBVIOUS
  <2>2. /\ p \in DOMAIN Catalog
        /\ w = [primary |-> Catalog[p].role, score |-> Score(Catalog[p]),
                support |-> RolesAt(Catalog, two)]
    BY <1>2, <2>1, CatalogIsGood, RouteWithHits DEF HasHits
  <2>3. cand \in SUBSET DOMAIN Catalog /\ p \notin cand
    BY <2>1 DEF Others
  <2>4. Leads(Catalog, cand, two)
    BY <2>1, <2>3, CatalogIsGood, FirstTwoLead
  <2>5. ASSUME NEW m \in 1..3, NEW at \in [1..m -> DOMAIN Catalog], at[1] = p, Distinct(at),
               \A k \in 2..m : at[k] \in cand,
               m < 3 => \A j \in cand : \E k \in 2..m : j = at[k],
               m = 3 => /\ Above(Catalog, at[2], at[3])
                        /\ \A j \in cand \ {at[2], at[3]} :
                             Above(Catalog, at[2], j) /\ Above(Catalog, at[3], j),
               two = IF m = 1 THEN <<>> ELSE IF m = 2 THEN <<at[2]>> ELSE <<at[2], at[3]>>
        PROVE  RouteOver(Selected(WithChat(<<w.primary>> \o w.support))) = w
    <3>0. m \in Nat \ {0} /\ \A k \in 1..m : at[k] \in DOMAIN Catalog
      OBVIOUS
    <3>1. PICK names : names = [k \in 1..m |-> Catalog[at[k]].role]
      OBVIOUS
    <3>2. \A c \in DOMAIN Catalog : Catalog[c].role \in Worker
      BY CatalogIsGood, RolesOfIs
    <3>3. names \in Seq(Worker) /\ Len(names) = m
      BY <3>0, <3>1, <3>2
    <3>4. w.support \in Seq(Worker) /\ Len(w.support) = m - 1
          /\ \A k \in 1..(m - 1) : w.support[k] = Catalog[at[k + 1]].role
      <4>1. w.support = RolesAt(Catalog, two)
        BY <2>2
      <4>2. CASE m = 1
        <5>1. two = <<>>
          BY <2>5, <4>2
        <5>2. w.support = <<>>
          BY <4>1, <5>1 DEF RolesAt
        <5> QED  BY <4>2, <5>2
      <4>3. CASE m = 2
        <5>1. two = <<at[2]>> /\ at[2] \in DOMAIN Catalog
          BY <2>5, <3>0, <4>3
        <5>2. w.support = [k \in 1..1 |-> Catalog[two[k]].role] /\ two[1] = at[2]
          BY <4>1, <5>1 DEF RolesAt
        <5> QED  BY <3>2, <4>3, <5>1, <5>2
      <4>4. CASE m = 3
        <5>1. two = <<at[2], at[3]>> /\ at[2] \in DOMAIN Catalog /\ at[3] \in DOMAIN Catalog
          BY <2>5, <3>0, <4>4
        <5>2. /\ w.support = [k \in 1..2 |-> Catalog[two[k]].role]
              /\ two[1] = at[2] /\ two[2] = at[3]
          BY <4>1, <5>1 DEF RolesAt
        <5> QED  BY <3>2, <4>4, <5>1, <5>2
      <4> QED  BY <4>2, <4>3, <4>4
    <3>5. <<w.primary>> \o w.support = names
      <4>1. PICK one, both : one = <<w.primary>> /\ both = one \o w.support
        OBVIOUS
      <4>2. one \in Seq(Worker) /\ Len(one) = 1 /\ one[1] = Catalog[p].role
        BY <2>2, <3>2, <4>1
      <4>3. both \in Seq(Worker) /\ Len(both) = m
            /\ \A k \in 1..m : both[k] = IF k <= 1 THEN one[k] ELSE w.support[k - 1]
        BY <3>4, <4>1, <4>2, ConcatProperties
      <4>4. \A k \in 1..m : both[k] = names[k]
        <5> SUFFICES ASSUME NEW k \in 1..m PROVE both[k] = names[k]
          OBVIOUS
        <5>1. names[k] = Catalog[at[k]].role
          BY <3>1
        <5>2. CASE k = 1
          BY <2>5, <4>2, <4>3, <5>1, <5>2
        <5>3. CASE k # 1
          <6>1. k - 1 \in 1..(m - 1) /\ ~(k <= 1) /\ (k - 1) + 1 = k
            BY <5>3
          <6> QED  BY <3>4, <4>3, <5>1, <6>1
        <5> QED  BY <5>2, <5>3
      <4> QED  BY <3>3, <4>1, <4>3, <4>4, SeqEqual
    <3>6. PICK S : S = Selected(WithChat(names))
      OBVIOUS
    <3>7. PICK n, all : WithChatLast(m, at, n, all, S)
      BY <2>5, <3>0, <3>1, <3>6, StartedAre
    <3>8. /\ n \in m..(m + 1) /\ all \in [1..n -> DOMAIN Catalog]
          /\ S \in Seq(RoleProfile) /\ DOMAIN S = 1..n
          /\ \A k \in 1..n : S[k] = Catalog[all[k]]
          /\ 1 \in DOMAIN S /\ S[1] = Catalog[p] /\ Score(S[1]) > 0
          /\ \A l \in DOMAIN S \ {1} : Above(S, 1, l)
      BY <1>2, <2>5, <3>0, <3>7, PrimaryLeads
    <3>9. PICK two1 : two1 = IF m = 1 THEN <<>> ELSE IF m = 2 THEN <<2>> ELSE <<2, 3>>
      OBVIOUS
    <3>10. Leads(S, Others(S, S[1]), two1)
      BY <1>2, <2>1, <2>5, <3>7, <3>9, SupportStays
    <3>11. PICK others : others = Others(S, S[1]) /\ others \in SUBSET DOMAIN S
      BY DEF Others
    <3>12. FirstTwo(S)[others] = two1
      BY <3>8, <3>10, <3>11, LeadingTwo
    <3>13. RouteOver(S) = [primary |-> S[1].role, score |-> Score(S[1]),
                           support |-> RolesAt(S, two1)]
      BY <3>8, <3>11, <3>12, RouteWithHits
    <3>14. RolesAt(S, two1) = RolesAt(Catalog, two)
      <4>1. \A k \in 1..m : k \in 1..n /\ S[k] = Catalog[at[k]]
        BY <3>7, <3>8 DEF WithChatLast
      <4>2. CASE m = 1
        <5>1. two1 = <<>> /\ two = <<>>
          BY <2>5, <3>9, <4>2
        <5> QED  BY <5>1 DEF RolesAt
      <4>3. CASE m = 2
        <5>1. two1 = <<2>> /\ two = <<at[2]>>
          BY <2>5, <3>9, <4>3
        <5>2. S[2] = Catalog[at[2]]
          BY <4>1, <4>3
        <5> QED  BY <5>1, <5>2 DEF RolesAt
      <4>4. CASE m = 3
        <5>1. two1 = <<2, 3>> /\ two = <<at[2], at[3]>>
          BY <2>5, <3>9, <4>4
        <5>2. S[2] = Catalog[at[2]] /\ S[3] = Catalog[at[3]]
          BY <4>1, <4>4
        <5> QED  BY <5>1, <5>2 DEF RolesAt
      <4> QED  BY <4>2, <4>3, <4>4
    <3> QED  BY <2>2, <3>5, <3>6, <3>8, <3>13, <3>14
  <2>6. CASE cand = {} /\ two = <<>>
    <3>1. PICK at : at = <<p>>
      OBVIOUS
    <3>2. PICK m \in 1..3 : m = 1
      OBVIOUS
    <3>3. at \in [1..m -> DOMAIN Catalog] /\ at[1] = p /\ Distinct(at)
      BY <2>2, <3>1, <3>2 DEF Distinct
    <3>4. \A k \in 2..m : at[k] \in cand
      BY <3>2
    <3> QED  BY <2>5, <2>6, <3>2, <3>3, <3>4
  <2>7. ASSUME NEW a \in cand, cand = {a}, two = <<a>>
        PROVE  RouteOver(Selected(WithChat(<<w.primary>> \o w.support))) = w
    <3>1. PICK at : at = <<p, a>>
      OBVIOUS
    <3>2. PICK m \in 1..3 : m = 2
      OBVIOUS
    <3>3. at \in [1..m -> DOMAIN Catalog] /\ at[1] = p /\ at[2] = a /\ Distinct(at)
      BY <2>2, <2>3, <3>1, <3>2 DEF Distinct
    <3>4. 2 \in 2..m /\ \A k \in 2..m : k = 2
      BY <3>2
    <3>5. \A k \in 2..m : at[k] \in cand
      BY <3>3, <3>4
    <3>6. \A j \in cand : \E k \in 2..m : j = at[k]
      BY <2>7, <3>3, <3>4
    <3>7. two = IF m = 1 THEN <<>> ELSE IF m = 2 THEN <<at[2]>> ELSE <<at[2], at[3]>>
      BY <2>7, <3>2, <3>3
    <3> QED  BY <2>5, <3>2, <3>3, <3>5, <3>6, <3>7
  <2>8. ASSUME NEW a \in cand, NEW b \in cand, a # b, two = <<a, b>>, Above(Catalog, a, b),
               \A j \in cand \ {a, b} : Above(Catalog, a, j) /\ Above(Catalog, b, j)
        PROVE  RouteOver(Selected(WithChat(<<w.primary>> \o w.support))) = w
    <3>1. PICK at : at = <<p, a, b>>
      OBVIOUS
    <3>2. PICK m \in 1..3 : m = 3
      OBVIOUS
    <3>3. at \in [1..m -> DOMAIN Catalog] /\ at[1] = p /\ at[2] = a /\ at[3] = b /\ Distinct(at)
      BY <2>2, <2>3, <2>8, <3>1, <3>2 DEF Distinct
    <3>4. \A k \in 2..m : k = 2 \/ k = 3
      BY <3>2
    <3>5. \A k \in 2..m : at[k] \in cand
      BY <3>3, <3>4
    <3>6. two = IF m = 1 THEN <<>> ELSE IF m = 2 THEN <<at[2]>> ELSE <<at[2], at[3]>>
      BY <2>8, <3>2, <3>3
    <3> QED  BY <2>5, <2>8, <3>2, <3>3, <3>5, <3>6
  <2> QED  BY <2>4, <2>6, <2>7, <2>8 DEF Leads
<1> QED  BY <1>1, <1>2, HitsOrNot

----------------------------------------------------------------------------
(* The command is fixed, and so are its routes                             *)

FirstRule ==
  command \in Command =>
    \A C \in Seq(RoleProfile) : \A P \in SUBSET DOMAIN C : \A i \in P :
      (\A j \in P \ {i} : Above(C, i, j)) => First(C)[P] = i

\* The uniqueness of the first profile, now and after a step.
LEMMA FirstRuleHolds == FirstRule /\ FirstRule'
<1>1. FirstRule
  BY FirstIs DEF FirstRule
<1> QED  BY <1>1, PTL

\* Scores and order depend on the command alone.
LEMMA AboveStays ==
  ASSUME command' = command
  PROVE  /\ \A p : Score(p)' = Score(p)
         /\ \A C, i, j : Above(C, i, j)' <=> Above(C, i, j)
         /\ Catalog' = Catalog
<1>1. ASSUME NEW p PROVE Score(p)' = Score(p)
  BY DEF Score
<1>2. ASSUME NEW C, NEW i, NEW j PROVE Above(C, i, j)' <=> Above(C, i, j)
  BY DEF Above, Score
<1>3. Catalog' = Catalog
  BY DEF Catalog, ValidCatalog
<1> QED  BY <1>1, <1>2, <1>3

\* So do the first profiles,
LEMMA FirstStays ==
  ASSUME command' = command, command \in Command, NEW C \in Seq(RoleProfile),
         NEW P \in SUBSET DOMAIN C
  PROVE  /\ P # {} => First(C)'[P] = First(C)[P] /\ First(C)[P] \in P
         /\ FirstTwo(C)'[P] = FirstTwo(C)[P]
<1>1. ASSUME NEW Q \in SUBSET DOMAIN C, Q # {}
      PROVE  First(C)'[Q] = First(C)[Q] /\ First(C)[Q] \in Q
  <2>1. PICK i : i = First(C)[Q] /\ i \in Q /\ \A j \in Q \ {i} : Above(C, i, j)
    BY <1>1, FirstIsBest
  <2>2. \A j \in Q \ {i} : Above(C, i, j)'
    BY <2>1, AboveStays
  <2>3. command' \in Command
    OBVIOUS
  <2>4. First(C)'[Q] = i
    BY <2>1, <2>2, <2>3, FirstRuleHolds DEF FirstRule
  <2> QED  BY <2>1, <2>4
<1>2. CASE P = {}
  <2>1. FirstTwo(C)[P] = <<>>
    BY <1>2 DEF FirstTwo
  <2>2. FirstTwo(C)'[P] = <<>>
    BY <1>2 DEF FirstTwo
  <2> QED  BY <1>2, <2>1, <2>2
<1>3. CASE P # {}
  <2>1. PICK a : a = First(C)[P] /\ a = First(C)'[P] /\ a \in P
    BY <1>1, <1>3
  <2>2. FirstTwo(C)[P] = <<a>> \o When(P # {a}, <<First(C)[P \ {a}]>>)
    BY <1>3, <2>1 DEF FirstTwo
  <2>3. FirstTwo(C)'[P] = <<a>> \o When(P # {a}, <<First(C)'[P \ {a}]>>)
    BY <1>3, <2>1 DEF FirstTwo
  <2>4. CASE P = {a}
    <3>1. FirstTwo(C)[P] = <<a>> \o <<>> /\ FirstTwo(C)'[P] = <<a>> \o <<>>
      BY <2>2, <2>3, <2>4 DEF When
    <3> QED  BY <1>1, <1>3, <3>1
  <2>5. CASE P # {a}
    <3>1. First(C)[P \ {a}] = First(C)'[P \ {a}]
      BY <1>1, <2>1, <2>5
    <3>2. FirstTwo(C)'[P] = FirstTwo(C)[P]
      BY <2>2, <2>3, <3>1
    <3> QED  BY <1>1, <1>3, <3>2
  <2> QED  BY <2>4, <2>5
<1> QED  BY <1>2, <1>3

\* and the route.
LEMMA RouteStays ==
  ASSUME command' = command, command \in Command, NEW C \in Seq(RoleProfile), C # <<>>
  PROVE  RouteOver(C)' = RouteOver(C)
<1>1. DOMAIN C # {}
  OBVIOUS
<1>2. PICK best : best = C[First(C)[DOMAIN C]] /\ best = C[First(C)'[DOMAIN C]]
  BY <1>1, FirstStays
<1>3. \A p : Score(p)' = Score(p)
  BY AboveStays
<1>4. PICK primary : primary = IF Score(best) > 0 THEN best ELSE Fallback(C)
  OBVIOUS
<1>5. PICK others : others = Others(C, primary) /\ others \in SUBSET DOMAIN C
  BY DEF Others
<1>6. PICK support : support = FirstTwo(C)[others] /\ support = FirstTwo(C)'[others]
  BY <1>5, FirstStays
<1>7. RouteOver(C) = [primary |-> primary.role, score |-> Score(primary),
                      support |-> RolesAt(C, support)]
  BY <1>2, <1>4, <1>5, <1>6 DEF RouteOver, Others, RolesAt
<1>8. others = {i \in DOMAIN C : C[i].id # primary.id /\ Score(C[i])' > 0}
  BY <1>3, <1>5 DEF Others
<1>9. primary = IF Score(best)' > 0 THEN best ELSE Fallback(C)
  BY <1>3, <1>4
<1>10. RouteOver(C)' = [primary |-> primary.role, score |-> Score(primary)',
                        support |-> RolesAt(C, support)]
  BY <1>2, <1>6, <1>8, <1>9 DEF RouteOver, RolesAt
<1> QED  BY <1>3, <1>7, <1>10

----------------------------------------------------------------------------
(* Both plan the same                                                      *)

\* A request is the task as it was asked, but for the primary role.
LEMMA AskedIsRequest ==
  ASSUME command \in Command, NEW v \in Worker
  PROVE  /\ AskedWith(v) \in Request /\ AskedWith(v).primary = v
         /\ AskedWith(v).readable = command.ask.readable
         /\ AskedWith(v).rules = command.ask.rules /\ command.ask.rules \in Seq(Rule)
         /\ AskedWith(v).topics = command.ask.topics
<1>1. command.ask \in Request
  BY DEF Command
<1>2. command.ask.rules \in Seq(Rule)
  BY <1>1 DEF Request
<1> QED  BY <1>1, <1>2 DEF AskedWith, Request

\* Session and commander plan the same, or only the primary role each has found.
LEMMA SamePlan ==
  ASSUME command \in Command, NEW v \in Worker, NEW w \in Worker, NEW g, NEW h,
         PlannedFor(AskedWith(v), g), PlannedFor(AskedWith(w), h)
  PROVE  g = h \/ (g = <<Builtin(v, {})>> /\ h = <<Builtin(w, {})>>)
<1>1. PICK file, topics, a, b :
        /\ a = AskedWith(v) /\ b = AskedWith(w) /\ file = command.ask.rules
        /\ topics = command.ask.topics
  OBVIOUS
<1>2. /\ a.rules = file /\ b.rules = file /\ a.topics = topics /\ b.topics = topics
      /\ a.primary = v /\ b.primary = w
      /\ DOMAIN file = 1..Len(file) /\ Len(file) \in Nat
  BY <1>1, AskedIsRequest
<1>3. Right(a) <=> Right(b)
  BY <1>1, AskedIsRequest DEF Right
<1>4. PlannedFor(a, g) /\ PlannedFor(b, h)
  BY <1>1
<1>5. ASSUME NEW i \in DOMAIN file, FirstMatch(a, i), NEW j \in DOMAIN file, FirstMatch(b, j)
      PROVE  i = j
  <2>1. file[i].matches /\ file[j].matches
        /\ (\A k \in 1..(i - 1) : ~file[k].matches) /\ (\A k \in 1..(j - 1) : ~file[k].matches)
    BY <1>2, <1>5 DEF FirstMatch
  <2> QED  BY <1>2, <2>1
<1>6. CASE Right(a) /\ \E i \in DOMAIN file : file[i].matches
  <2>1. PICK i \in DOMAIN file : FirstMatch(a, i) /\ g = Configured(file[i])
    BY <1>2, <1>4, <1>6 DEF PlannedFor
  <2>2. PICK j \in DOMAIN file : FirstMatch(b, j) /\ h = Configured(file[j])
    BY <1>2, <1>3, <1>4, <1>6 DEF PlannedFor
  <2> QED  BY <1>5, <2>1, <2>2
<1>7. CASE ~(Right(a) /\ \E i \in DOMAIN file : file[i].matches)
  <2>1. g = BuiltinNodes(topics, v) /\ h = BuiltinNodes(topics, w)
    BY <1>2, <1>3, <1>4, <1>7 DEF PlannedFor, FirstMatch
  <2> QED  BY <2>1 DEF BuiltinNodes
<1> QED  BY <1>6, <1>7

----------------------------------------------------------------------------
(* Planning on behalf of a command                                         *)

PlanInv == IInv /\ IsPlanned

\* plan_task_graph when it is called.
Called ==
  /\ request \in Request
  /\ stage = "check" /\ rule = 1
  /\ marks = [n \in Node |-> "new"]
  /\ path = <<>>
  /\ left = [n \in Node |-> {}]

\* A call of plan_task_graph starts with the invariant.
LEMMA CallsAreGood == (Called => PlanInv) /\ (Called' => PlanInv')
<1>1. Called => PlanInv
  <2> SUFFICES ASSUME Called PROVE PlanInv
    OBVIOUS
  <2>1. rules \in Seq(Rule)
    BY DEF Called, Request, rules
  <2>2. Typed
    BY <2>1 DEF Called, Typed
  <2>3. IInv
    BY <2>2 DEF Called, IInv, Checked, Searching, VerdictIsRight
  <2>4. IsPlanned
    BY DEF Called, IsPlanned, HasVerdict
  <2> QED  BY <2>3, <2>4 DEF PlanInv
<1> QED  BY <1>1, PTL

\* Planning keeps both.
LEMMA PlanningKeeps ==
  ASSUME PlanInv, [Next]_vars
  PROVE  PlanInv'
<1>1. IInv'
  BY StepKeeps DEF PlanInv
<1> QED  BY <1>1, PlanningIsPlanned DEF PlanInv, IInv

----------------------------------------------------------------------------
(* The steps of a command                                                  *)

\* What the session plans, and what it starts.
Wanted == AskedWith(RouteOver(Catalog).primary)

ForGraph(g) ==
  /\ PlannedFor(Wanted, g)
  /\ planned = RolesOf(g)
  /\ started = Selected(WithChat(RolesOf(g)))

ForRoute ==
  started = Selected(WithChat(<<RouteOver(Catalog).primary>> \o RouteOver(Catalog).support))

Prepared == IF command.fast THEN \E g : ForGraph(g) ELSE ForRoute

\* The commander has planned for the primary role that it finds.
PlannedAgain == command.fast /\ request = AskedWith(route.primary)

Routed ==
  /\ command \in Command
  /\ phase \in {"preselect", "think", "plan", "evaluate", "decided"}
  /\ phase = "preselect" => request = Wanted
  /\ phase # "preselect" => Prepared
  /\ phase = "plan" => PlannedAgain
  /\ phase = "decided" /\ decision.way \in {"graph", "fast"} => HasVerdict /\ PlannedAgain
  /\ phase = "decided" /\ decision.way = "fast" =>
       ~(ToSet(RolesOf(graph)) \subseteq ToSet(RolesOf(started)))

CommandInv == PlanInv /\ Routed

\* The command is fixed, and with it the catalog and all that is ranked.
LEMMA CommandIsFixed ==
  ASSUME command' = command, command \in Command
  PROVE  /\ Catalog' = Catalog /\ Wanted' = Wanted
         /\ RouteOver(Catalog)' = RouteOver(Catalog)
         /\ \A names : Selected(names)' = Selected(names)
         /\ \A v : AskedWith(v)' = AskedWith(v)
<1>1. Catalog' = Catalog
  BY AboveStays
<1>2. PICK C \in Seq(RoleProfile) : C = Catalog /\ C # <<>>
  BY CatalogIsGood DEF ValidCatalog
<1>3. RouteOver(C)' = RouteOver(C)
  BY <1>2, RouteStays
<1>4. RouteOver(Catalog)' = RouteOver(Catalog)
  BY <1>1, <1>2, <1>3
<1>5. ASSUME NEW names PROVE Selected(names)' = Selected(names)
  BY <1>1 DEF Selected
<1>6. ASSUME NEW v PROVE AskedWith(v)' = AskedWith(v)
  BY DEF AskedWith
<1>7. Wanted' = Wanted
  BY <1>4, <1>6 DEF Wanted
<1> QED  BY <1>1, <1>4, <1>5, <1>6, <1>7

\* What was started is a part of the catalog, and so has a primary role.
LEMMA StartedHasPrimary ==
  ASSUME command \in Command, NEW g, NEW v \in Worker, PlannedFor(AskedWith(v), g),
         started = Selected(WithChat(RolesOf(g)))
  PROVE  /\ started \in Seq(RoleProfile) /\ started # <<>>
         /\ route.primary \in Worker
         /\ \E T : RolesOf(g) \in Seq(T) /\ WithChat(RolesOf(g)) \in Seq(T)
<1>1. PICK a : a = AskedWith(v)
  OBVIOUS
<1>2. a \in Request
  BY <1>1, AskedIsRequest
<1>3. g \in Seq(RuleNode)
  <2>1. a.rules \in Seq(Rule) /\ a.topics \in SUBSET Topic /\ a.primary \in Worker
    BY <1>2 DEF Request
  <2>2. CASE g = BuiltinNodes(a.topics, a.primary)
    BY <2>1, <2>2, BuiltinNodesAreGood DEF Good
  <2>3. ASSUME NEW i \in DOMAIN a.rules, g = Configured(a.rules[i])
        PROVE  g \in Seq(RuleNode)
    <3>1. a.rules[i] \in Rule
      BY <2>1
    <3> QED  BY <2>3, <3>1, ConfiguredFacts
  <2> QED  BY <1>1, <2>2, <2>3 DEF PlannedFor
<1>4. PICK T : T = Worker \cup {"chat"}
  OBVIOUS
<1>5. RolesOf(g) \in Seq(T)
  <2>1. DOMAIN g = 1..Len(g) /\ Len(g) \in Nat
    BY <1>3
  <2>2. \A i \in DOMAIN g : g[i].role \in T
    <3>1. \A i \in DOMAIN g : g[i] \in RuleNode
      BY <1>3
    <3> QED  BY <1>4, <3>1 DEF RuleNode
  <2>3. RolesOf(g) \in [1..Len(g) -> T]
    BY <2>1, <2>2 DEF RolesOf
  <2> QED  BY <2>1, <2>3
<1>6. WithChat(RolesOf(g)) \in Seq(T)
  BY <1>4, <1>5 DEF WithChat
<1>7. started \in Seq(RoleProfile) /\ started # <<>>
  BY <1>6, SelectedIsCatalog
<1>8. route.primary \in Worker
  BY <1>7, PrimaryIsRole DEF route
<1> QED  BY <1>5, <1>6, <1>7, <1>8

\* The session asks for the task, with the primary role of the whole catalog.
LEMMA WantedIsRequest ==
  ASSUME command \in Command
  PROVE  Wanted \in Request /\ RouteOver(Catalog).primary \in Worker
<1>1. RouteOver(Catalog).primary \in Worker
  BY CatalogIsGood, PrimaryIsRole DEF ValidCatalog
<1> QED  BY <1>1, AskedIsRequest DEF Wanted

\* Where a command starts.
LEMMA InitIsGood ==
  ASSUME CommandInit
  PROVE  CommandInv
<1>1. command \in Command
  BY CommandsAreCommands DEF CommandInit
<1>2. request = Wanted
  BY DEF CommandInit, Wanted
<1>3. Called
  BY <1>1, <1>2, WantedIsRequest DEF Called, CommandInit, Init
<1>4. Routed
  BY <1>1, <1>2 DEF Routed, CommandInit
<1> QED  BY <1>3, <1>4, CallsAreGood DEF CommandInv

\* What stays while the commander works on what the session has prepared.
LEMMA PreparedStays ==
  ASSUME CommandInv, phase # "preselect",
         command' = command, planned' = planned, started' = started
  PROVE  /\ Prepared'
         /\ command.fast => /\ route.primary \in Worker /\ route' = route
                            /\ AskedWith(route.primary)' = AskedWith(route.primary)
<1>0. command \in Command /\ Prepared
  BY DEF CommandInv, Routed
<1>1. /\ Catalog' = Catalog /\ Wanted' = Wanted
      /\ RouteOver(Catalog)' = RouteOver(Catalog)
      /\ \A names : Selected(names)' = Selected(names)
      /\ \A v : AskedWith(v)' = AskedWith(v)
  BY <1>0, CommandIsFixed
<1>2. ASSUME NEW g, ForGraph(g), command.fast
      PROVE  route.primary \in Worker /\ route' = route /\ ForGraph(g)'
  <2>1. PICK v \in Worker : v = RouteOver(Catalog).primary
    BY <1>0, WantedIsRequest
  <2>2. PlannedFor(AskedWith(v), g) /\ started = Selected(WithChat(RolesOf(g)))
    BY <1>2, <2>1 DEF ForGraph, Wanted
  <2>3. started \in Seq(RoleProfile) /\ started # <<>> /\ route.primary \in Worker
    BY <1>0, <2>2, StartedHasPrimary
  <2>4. PICK S \in Seq(RoleProfile) : S = started /\ S # <<>>
    BY <2>3
  <2>5. RouteOver(S)' = RouteOver(S)
    BY <1>0, <2>4, RouteStays
  <2>6. route' = route
    BY <2>4, <2>5 DEF route
  <2>7. ForGraph(g)'
    BY <1>1, <1>2 DEF ForGraph
  <2> QED  BY <2>3, <2>6, <2>7
<1>3. ForRoute => ForRoute'
  BY <1>1 DEF ForRoute
<1>4. ASSUME NEW w, w = route.primary, route' = route
      PROVE  AskedWith(route.primary)' = AskedWith(route.primary)
  <2>1. AskedWith(w)' = AskedWith(w) /\ route'.primary = w
    BY <1>1, <1>4
  <2> QED  BY <1>4, <2>1
<1> QED  BY <1>0, <1>2, <1>3, <1>4 DEF Prepared

\* Planning is for the session or for the commander, and asks for what it did.
LEMMA PlanningStepKeeps ==
  ASSUME CommandInv, Planning
  PROVE  CommandInv'
<1>1. /\ phase = "plan" \/ (phase = "preselect" /\ command.fast)
      /\ Next /\ command' = command /\ phase' = phase /\ planned' = planned
      /\ started' = started /\ decision' = decision
  BY DEF Planning, routingVars
<1>2. request' = request
  BY <1>1 DEF Next, NoFile, CheckRule, ChooseGraph, VisitNode, VisitDependency, Return,
              RulePasses, Ignore
<1>3. PlanInv'
  BY <1>1, PlanningKeeps DEF CommandInv
<1>4. command \in Command /\ Wanted' = Wanted
  BY <1>1, CommandIsFixed DEF CommandInv, Routed
<1>5. CASE phase = "preselect"
  BY <1>1, <1>2, <1>3, <1>4, <1>5 DEF CommandInv, Routed
<1>6. CASE phase = "plan"
  <2>1. PlannedAgain'
    BY <1>1, <1>2, <1>6, PreparedStays DEF CommandInv, Routed, PlannedAgain
  <2> QED  BY <1>1, <1>3, <1>4, <1>6, <2>1, PreparedStays DEF CommandInv, Routed
<1> QED  BY <1>1, <1>3, <1>5, <1>6 DEF CommandInv, Routed

\* A step that plans nothing.
LEMMA PlanInvStays ==
  ASSUME PlanInv, UNCHANGED vars
  PROVE  PlanInv' /\ HasVerdict' = HasVerdict /\ graph' = graph
<1>1. PlanInv'
  BY PlanningKeeps
<1> QED  BY <1>1 DEF vars, HasVerdict

\* The session starts what the graph or the route needs.
LEMMA StartKeeps ==
  ASSUME CommandInv, StartForGraph \/ StartForRoute
  PROVE  CommandInv'
<1>1. /\ phase = "preselect" /\ command' = command /\ phase' = "think" /\ UNCHANGED vars
  BY DEF StartForGraph, StartForRoute, Start
<1>2. PlanInv' /\ command \in Command /\ request = Wanted /\ request' = request
  BY <1>1, PlanInvStays DEF CommandInv, Routed, vars
<1>3. /\ Catalog' = Catalog /\ Wanted' = Wanted
      /\ RouteOver(Catalog)' = RouteOver(Catalog)
      /\ \A names : Selected(names)' = Selected(names)
  BY <1>1, <1>2, CommandIsFixed
<1>4. CASE StartForGraph
  <2>1. /\ command.fast /\ HasVerdict /\ planned' = RolesOf(graph)
        /\ started' = Selected(WithChat(RolesOf(graph)))
    BY <1>4 DEF StartForGraph, Start, HasPlanned, HasVerdict
  <2>2. PlannedFor(Wanted, graph)
    BY <1>2, <2>1 DEF CommandInv, PlanInv, IsPlanned
  <2>3. PICK g : g = graph
    OBVIOUS
  <2>4. ForGraph(g)'
    BY <1>3, <2>1, <2>2, <2>3 DEF ForGraph
  <2>5. Prepared'
    BY <1>1, <2>1, <2>4 DEF Prepared
  <2> QED  BY <1>1, <1>2, <2>5 DEF CommandInv, Routed
<1>5. CASE StartForRoute
  <2>1. ~command.fast
        /\ started' = Selected(WithChat(<<RouteOver(Catalog).primary>> \o RouteOver(Catalog).support))
    BY <1>5 DEF StartForRoute, Start
  <2>2. ForRoute'
    BY <1>3, <2>1 DEF ForRoute
  <2>3. Prepared'
    BY <1>1, <2>1, <2>2 DEF Prepared
  <2> QED  BY <1>1, <1>2, <2>3 DEF CommandInv, Routed
<1> QED  BY <1>4, <1>5

\* The steps of the commander that do without a graph.
LEMMA ThinkKeeps ==
  ASSUME CommandInv, ThinkSlowly \/ Evaluate
  PROVE  CommandInv'
<1>1. /\ phase \in {"think", "evaluate"} /\ command' = command /\ planned' = planned
      /\ started' = started /\ UNCHANGED vars /\ phase' \in {"evaluate", "decided"}
  BY DEF ThinkSlowly, Evaluate, Decide
<1>2. phase' = "decided" => decision'.way \notin {"graph", "fast"}
  BY DEF ThinkSlowly, Evaluate, Decide
<1>3. PlanInv' /\ Prepared' /\ command \in Command
  BY <1>1, PlanInvStays, PreparedStays DEF CommandInv, Routed
<1> QED  BY <1>1, <1>2, <1>3 DEF CommandInv, Routed

\* The commander plans for the primary role among what was started.
LEMMA PlanAgainKeeps ==
  ASSUME CommandInv, PlanAgain
  PROVE  CommandInv'
<1>1. /\ phase = "think" /\ phase' = "plan" /\ command' = command /\ command.fast
      /\ planned' = planned /\ started' = started /\ request' = AskedWith(route.primary)
      /\ command \in Command
  BY DEF PlanAgain, GoodEnough, CommandInv, Routed
<1>2. Prepared' /\ route.primary \in Worker /\ route' = route
      /\ AskedWith(route.primary)' = AskedWith(route.primary)
  BY <1>1, PreparedStays
<1>3. request' \in Request
  BY <1>1, <1>2, AskedIsRequest
<1>4. Called'
  BY <1>3 DEF Called, PlanAgain
<1>5. PlannedAgain'
  BY <1>1, <1>2 DEF PlannedAgain
<1> QED  BY <1>1, <1>2, <1>4, <1>5, CallsAreGood DEF CommandInv, Routed

\* The commander runs the graph, or a role of it was not started.
LEMMA DecideKeeps ==
  ASSUME CommandInv, RunGraph \/ TakeFastRoute
  PROVE  CommandInv'
<1>1. /\ phase = "plan" /\ phase' = "decided" /\ command' = command /\ planned' = planned
      /\ started' = started /\ UNCHANGED vars /\ HasVerdict
      /\ command \in Command /\ PlannedAgain
  BY DEF RunGraph, TakeFastRoute, Decide, HasPlanned, HasVerdict, CommandInv, Routed
<1>2. PlanInv' /\ HasVerdict' /\ graph' = graph /\ request' = request
  BY <1>1, PlanInvStays DEF CommandInv, vars
<1>3. Prepared' /\ PlannedAgain'
  BY <1>1, <1>2, PreparedStays DEF PlannedAgain
<1>4. decision'.way = "fast" => ~(ToSet(RolesOf(graph)) \subseteq ToSet(RolesOf(started)))
  BY DEF RunGraph, TakeFastRoute, Decide
<1>5. RolesOf(graph)' = RolesOf(graph) /\ RolesOf(started)' = RolesOf(started)
  BY <1>1, <1>2 DEF RolesOf
<1>6. (~(ToSet(RolesOf(graph)) \subseteq ToSet(RolesOf(started))))' =
      ~(ToSet(RolesOf(graph)) \subseteq ToSet(RolesOf(started)))
  BY <1>5 DEF ToSet
<1> QED  BY <1>1, <1>2, <1>3, <1>4, <1>6 DEF CommandInv, Routed

\* Nothing happens.
LEMMA CommandStutters ==
  ASSUME CommandInv, UNCHANGED commandVars
  PROVE  CommandInv'
<1>1. /\ command' = command /\ phase' = phase /\ planned' = planned
      /\ started' = started /\ decision' = decision /\ UNCHANGED vars
      /\ request' = request /\ graph' = graph
  BY DEF commandVars, routingVars, vars
<1>2. PlanInv' /\ HasVerdict' = HasVerdict /\ command \in Command
  BY <1>1, PlanInvStays DEF CommandInv, Routed
<1>3. Wanted' = Wanted
  BY <1>1, <1>2, CommandIsFixed
<1>4. CASE phase = "preselect"
  BY <1>1, <1>2, <1>3, <1>4 DEF CommandInv, Routed
<1>5. CASE phase # "preselect"
  <2>1. Prepared'
    BY <1>1, <1>5, PreparedStays
  <2>2. PlannedAgain => PlannedAgain'
    BY <1>1, <1>5, PreparedStays DEF PlannedAgain
  <2>3. RolesOf(graph)' = RolesOf(graph) /\ RolesOf(started)' = RolesOf(started)
    BY <1>1 DEF RolesOf
  <2>4. (~(ToSet(RolesOf(graph)) \subseteq ToSet(RolesOf(started))))' =
        ~(ToSet(RolesOf(graph)) \subseteq ToSet(RolesOf(started)))
    BY <2>3 DEF ToSet
  <2> QED  BY <1>1, <1>2, <1>5, <2>1, <2>2, <2>4 DEF CommandInv, Routed
<1> QED  BY <1>4, <1>5

\* For every command, under every catalog: each planning of its graph is right, the
\* workers started are those of the graph or of the route, and the commander plans for
\* the primary role that it finds among them.
THEOREM CommandInvariant == CommandSpec => []CommandInv
<1>1. CommandInit => CommandInv
  BY InitIsGood
<1>2. CommandInv /\ [CommandNext]_commandVars => CommandInv'
  BY PlanningStepKeeps, StartKeeps, ThinkKeeps, PlanAgainKeeps, DecideKeeps, CommandStutters
     DEF CommandNext
<1> QED  BY <1>1, <1>2, PTL DEF CommandSpec

\* Whether the session or the commander plans: a rules file is accepted if and only if
\* it can be read and all its rules are valid.
THEOREM CommandVerdictsAreRight == CommandSpec => []VerdictIsRight
<1>1. CommandInv => VerdictIsRight
  BY DEF CommandInv, PlanInv, IInv
<1> QED  BY <1>1, CommandInvariant, PTL

\* The graph of either planning is what TaskGraph assumes of its plans.
THEOREM CommandPlansAreValid == CommandSpec => []PlanIsValid
<1>1. CommandInv => PlanIsValid
  BY PlannedIsValid DEF CommandInv, PlanInv, PlanIsValid, HasVerdict
<1> QED  BY <1>1, CommandInvariant, PTL

\* The invariant makes session and commander agree.
LEMMA DecidedAgrees ==
  ASSUME CommandInv, phase = "decided"
  PROVE  RoutesAgree
<1>0. command \in Command /\ Prepared
  BY DEF CommandInv, Routed
<1>1. PICK w : w = RouteOver(Catalog)
  OBVIOUS
<1>2. PICK v \in Worker : v = w.primary
  BY <1>0, <1>1, WantedIsRequest
<1>3. ASSUME decision.way \in {"graph", "fast"}
      PROVE  \E g : ForGraph(g) /\ g = graph
  <2>1. /\ command.fast /\ HasVerdict /\ request = AskedWith(route.primary)
        /\ PlannedFor(request, graph)
    BY <1>3 DEF CommandInv, Routed, PlannedAgain, PlanInv, IsPlanned
  <2>2. PICK g : ForGraph(g)
    BY <1>0, <2>1 DEF Prepared
  <2>3. PlannedFor(AskedWith(v), g) /\ started = Selected(WithChat(RolesOf(g)))
    BY <1>1, <1>2, <2>2 DEF ForGraph, Wanted
  <2>4. PICK u \in Worker : u = route.primary
    BY <1>0, <2>3, StartedHasPrimary
  <2>5. PICK h : h = graph /\ PlannedFor(AskedWith(u), h)
    BY <2>1, <2>4
  <2>6. g = h \/ (g = <<Builtin(v, {})>> /\ h = <<Builtin(u, {})>>)
    BY <1>0, <2>3, <2>5, SamePlan
  <2>7. CASE g = <<Builtin(v, {})>> /\ h = <<Builtin(u, {})>>
    <3>1. RolesOf(g) = <<v>>
      BY <2>7 DEF RolesOf, Builtin
    <3>2. route.primary = v
      BY <1>0, <1>1, <1>2, <2>3, <3>1, PrimaryAgrees DEF route
    <3> QED  BY <2>2, <2>4, <2>5, <2>7, <3>2
  <2> QED  BY <2>2, <2>5, <2>6, <2>7
<1>4. ASSUME decision.way = "fast"
      PROVE  ~(ToSet(planned) \subseteq ToSet(RolesOf(Catalog)))
  <2> SUFFICES ASSUME ToSet(planned) \subseteq ToSet(RolesOf(Catalog)) PROVE FALSE
    OBVIOUS
  <2>1. PICK g : ForGraph(g) /\ g = graph
    BY <1>3, <1>4
  <2>2. planned = RolesOf(g) /\ started = Selected(WithChat(RolesOf(g)))
        /\ PlannedFor(AskedWith(v), g)
    BY <1>1, <1>2, <2>1 DEF ForGraph, Wanted
  <2>3. PICK T : RolesOf(g) \in Seq(T) /\ WithChat(RolesOf(g)) \in Seq(T)
    BY <1>0, <2>2, StartedHasPrimary
  <2>4. PICK r \in ToSet(RolesOf(g)) : r \notin ToSet(RolesOf(started))
    BY <1>4, <2>1 DEF CommandInv, Routed
  <2>5. r \in ToSet(WithChat(RolesOf(g)))
    BY <2>3 DEF WithChat, ToSet
  <2>6. r \in ToSet(RolesOf(Catalog))
    BY <2>2
  <2>7. r \in ToSet(RolesOf(Selected(WithChat(RolesOf(g)))))
    BY <1>0, <2>3, <2>5, <2>6, SelectedKeeps
  <2> QED  BY <2>2, <2>4, <2>7
<1>5. ~command.fast => route = RouteOver(Catalog)
  BY <1>0, <1>1, RoutesAreSame DEF Prepared, ForRoute, route
<1> QED  BY <1>3, <1>4, <1>5 DEF RoutesAgree, ForGraph

\* For catalogs of any size, any scores, priorities and keywords: the commander plans the
\* graph that the session planned, runs it unless the whole catalog lacks a role of it,
\* and without the fast route finds the same primary and supporting roles, though it ranks
\* only what was started.
THEOREM RoutesDoAgree == CommandSpec => []RoutesAgree
<1>1. CommandInv => RoutesAgree
  BY DecidedAgrees DEF RoutesAgree
<1> QED  BY <1>1, CommandInvariant, PTL
=============================================================================
