-------------------------- MODULE MCInMemoryStore --------------------------
(* Instances of InMemoryStore for TLC. *)
EXTENDS InMemoryStore, TLC

GroupsAndKeys == Permutations(Group) \cup Permutations(Key)
\* Room for two records and for four, for one and a part of three characters, and
\* for less than one.
Rooms == {<<2, 12>>, <<4, 4>>, <<4, 2>>}
SomeQueries ==
  LET asked(gs, t, room) == [groups |-> gs, text |-> t, limit |-> room[1], chars |-> room[2]]
  IN  {asked(Group, 0, room) : room \in Rooms}
        \cup {asked(Group, 2, <<4, 4>>)}
        \cup {asked({g}, 0, <<4, 4>>) : g \in Group}
MCQueries == SomeQueries
=============================================================================
