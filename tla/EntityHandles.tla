--------------------------- MODULE EntityHandles ---------------------------
(***************************************************************************)
(* What the entity index promises its users: a set of handles that are     *)
(* alive, at most one per id, that only a call naming the handle can       *)
(* change.  A handle is an id with a generation.  `retired` are the        *)
(* handles that were deleted and that the generation still tells apart     *)
(* from the ones handed out since: creating entities never returns one.    *)
(***************************************************************************)
EXTENDS Integers

CONSTANTS
    MaxId,    \* largest entity id
    MaxGen    \* largest generation

VARIABLES live, retired

Handles == [id : 1 .. MaxId, gen : 0 .. MaxGen]

Init == live = {} /\ retired = {}

\* ecs_new and bulk creation
Create(S) ==
    /\ \A h \in S : h \notin retired /\ \A k \in live : k.id # h.id
    /\ \A h, k \in S : h.id = k.id => h = k
    /\ live' = live \union S
    /\ UNCHANGED retired

\* ecs_delete; at the last generation the count starts over
Delete(h) ==
    /\ h \in live
    /\ live' = live \ {h}
    /\ retired' = IF h.gen = MaxGen THEN {k \in retired : k.id # h.id}
                                    ELSE retired \union {h}

Forget(h) == {k \in retired : k.id = h.id => k.gen < h.gen}

\* ecs_make_alive: the caller chooses the generation
MakeAlive(h) ==
    /\ \A k \in live : k.id # h.id
    /\ live' = live \union {h}
    /\ retired' = Forget(h)

\* ecs_set_version: replaces the handle of an id that is alive, or sets the
\* generation the id will have when it is recycled
SetVersion(h) ==
    /\ live' = IF \E k \in live : k.id = h.id
                 THEN {k \in live : k.id # h.id} \union {h}
                 ELSE live
    /\ retired' = Forget(h)

Next ==
    \/ \E S \in SUBSET Handles : Create(S)
    \/ \E h \in Handles : Delete(h) \/ MakeAlive(h) \/ SetVersion(h)

Spec == Init /\ [][Next]_<<live, retired>>
=============================================================================
