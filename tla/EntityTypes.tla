----------------------------- MODULE EntityTypes ----------------------------
(***************************************************************************)
(* What adding and removing ids means for the ids of an entity             *)
(* (docs/ComponentTraits.md: Exclusive, With, OnInstantiate; docs on       *)
(* prefabs), with nothing of the tables and of the graph that caches how   *)
(* to get from one table to another.                                       *)
(*                                                                         *)
(* <<c, 0>> is the tag or component c, <<r, t>> the relationship r with    *)
(* target t, <<c, AutoOverride>> the component c with that flag.           *)
(***************************************************************************)
EXTENDS Integers, FiniteSets

CONSTANTS
    Entities,     \* the entities, numbers
    Exclusive,    \* relationships with the Exclusive trait
    With,         \* pairs <<c, d>>: c has (With, d)
    IsA,          \* the relationship to a base
    AddIds        \* ids that an application adds

VARIABLE ids      \* the ids of each entity

NoTarget == 0
Wildcard == -1
AutoOverride == -2

IsPair(id) == id[2] \notin {NoTarget, AutoOverride}
Mentions(id) == {id[1], id[2]} \intersect Entities
Matches(pattern, id) == id = pattern \/ (IsPair(id) /\ pattern = <<id[1], Wildcard>>)
SameRelationship(set, id) == {x \in set : IsPair(id) /\ IsPair(x) /\ x[1] = id[1]}

\* Everything that arcs lead to from x, with x.
Reach(arcs, x) ==
    LET nodes == {x} \union {arc[2] : arc \in arcs}
        closed == {s \in SUBSET nodes : x \in s /\ \A arc \in arcs : arc[1] \in s => arc[2] \in s}
    IN  {y \in nodes : \A s \in closed : y \in s}

IsAArcs == UNION {{<<e, id[2]>> : id \in {x \in ids[e] : x[1] = IsA}} : e \in Entities}

\* What the bases of an instance override.
Overrides(base) ==
    {<<id[1], NoTarget>> :
        id \in {x \in UNION {ids[b] : b \in Reach(IsAArcs, base)} : x[2] = AutoOverride}}

\* What comes with an id.
Implied(id) ==
    {<<c, id[2]>> : c \in Reach(With, id[1])}
    \union IF id[1] = IsA /\ IsPair(id) THEN Overrides(id[2]) ELSE {}

\* An id that is already there changes nothing; an exclusive relationship takes
\* the place of the one before.
Added(set, id) ==
    IF id \in set /\ id[1] \notin Exclusive THEN set
    ELSE (set \ IF id[1] \in Exclusive THEN SameRelationship(set, id) ELSE {}) \union Implied(id)

Without(set, pattern) == {id \in set : ~ Matches(pattern, id)}

Add(e, id) == ids' = [ids EXCEPT ![e] = Added(@, id)]
Remove(e, pattern) == ids' = [ids EXCEPT ![e] = Without(@, pattern)]

\* An entity is deleted, and its number is given out again.
Recycle(x) ==
    ids' = [e \in Entities |-> IF e = x THEN {} ELSE {id \in ids[e] : x \notin Mentions(id)}]

Patterns == AddIds \union {<<id[1], Wildcard>> : id \in {x \in AddIds : IsPair(x)}}

Init == ids \in [Entities -> SUBSET (Entities \X (Entities \union {NoTarget, AutoOverride}))]

Changed == {e \in Entities : ids'[e] # ids[e]}

Next ==
    /\ ids' # ids
    /\ \/ \E e \in Changed :  \/ \E id \in AddIds : Add(e, id)
                              \/ \E pattern \in Patterns : Remove(e, pattern)
       \/ \E x \in Entities : Recycle(x)

Spec == Init /\ [][Next]_ids
=============================================================================
