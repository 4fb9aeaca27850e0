---------------------------- MODULE CleanupTraits ---------------------------
(***************************************************************************)
(* What the cleanup traits promise (docs/ComponentTraits.md, "Cleanup      *)
(* traits"), with nothing of how tables and component records get there:   *)
(* an operation that deletes entities deletes, in one step, everything the *)
(* Delete policies reach and removes every reference to what was deleted   *)
(* from the entities that stay.                                            *)
(*                                                                         *)
(* An id is a pair of numbers: <<c, 0>> is the tag or component c, <<r, t>>*)
(* is the relationship r with target t.                                    *)
(***************************************************************************)
EXTENDS Integers, FiniteSets

CONSTANTS
    Entities,        \* the entities, numbers
    OnDeleteDelete,  \* entities with (OnDelete, Delete)
    OnDeletePanic,   \* entities with (OnDelete, Panic)
    TargetDelete,    \* relationships with (OnDeleteTarget, Delete)
    TargetPanic,     \* relationships with (OnDeleteTarget, Panic)
    Prefab           \* the tag of prefabs

VARIABLE world   \* the alive entities with their ids

NoTarget == 0
Wildcard == -1

Alive == DOMAIN world
IsPair(id) == id[2] # NoTarget
Mentions(id) == {id[1], id[2]} \ {NoTarget, Wildcard}

\* ecs_id_match, without the wildcards that match everything.
Matches(pattern, id) ==
    \/ id = pattern
    \/ IsPair(id) /\ pattern = <<id[1], Wildcard>>
    \/ IsPair(id) /\ pattern = <<Wildcard, id[2]>>

HasMatch(pattern, ids) == \E id \in ids : Matches(pattern, id)
IsPrefab(ids) == <<Prefab, NoTarget>> \in ids

\* The entities that cannot stay when gone are deleted.
Follows(gone) ==
    {e \in Alive : \E id \in world[e] :
        \/ id[1] \in gone \intersect OnDeleteDelete
        \/ id[2] \in gone /\ id[1] \in TargetDelete}

\* The least set with start that the policies do not leave.
Closure(start) ==
    LET closed == {gone \in SUBSET Alive : start \subseteq gone /\ Follows(gone) \subseteq gone}
    IN  {e \in Alive : \A gone \in closed : e \in gone}

\* A Panic policy protects something that an entity that stays refers to.
Forbidden(gone) ==
    \E e \in Alive \ gone : \E id \in world[e] :
        \/ id[1] \in gone \intersect OnDeletePanic
        \/ id[2] \in gone /\ id[1] \in TargetPanic

After(gone) ==
    [e \in Alive \ gone |-> {id \in world[e] : Mentions(id) \intersect gone = {}}]

Cleanup(start) ==
    \E gone \in {Closure(start)} :
        /\ ~ Forbidden(gone)
        /\ world' = After(gone)

Add(e, id) ==
    /\ e \in Alive /\ Mentions(id) \subseteq Alive
    /\ world' = [world EXCEPT ![e] = @ \union {id}]

Delete(e) == e \in Alive /\ Cleanup({e})

\* ecs_delete_with and ecs_remove_all leave prefabs alone.
DeleteWith(pattern) == Cleanup({e \in Alive : HasMatch(pattern, world[e]) /\ ~ IsPrefab(world[e])})

RemoveAll(pattern) ==
    world' = [e \in Alive |->
        {id \in world[e] : IsPrefab(world[e]) \/ ~ Matches(pattern, id)}]

Ids == Entities \X (Entities \union {NoTarget})
Patterns == Ids \union (Entities \X {Wildcard}) \union ({Wildcard} \X Entities)

Init == world \in [Entities -> SUBSET Ids]

Next ==
    /\ world' # world
    /\ \/ \E e \in Alive : Delete(e)
       \/ \E e \in Alive, id \in Ids : Add(e, id)
       \/ \E pattern \in Patterns : DeleteWith(pattern) \/ RemoveAll(pattern)

Spec == Init /\ [][Next]_world
=============================================================================
