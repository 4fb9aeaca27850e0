------------------------------ MODULE OnDelete ------------------------------
(***************************************************************************)
(* Deleting entities and ids (on_delete.c, ecs_delete in entity.c): ids to *)
(* delete are marked depth first, then the tables of the marked ids are    *)
(* cleared, last marked first, then tables and component records go.       *)
(*                                                                         *)
(* A table is the set of ids of its entities.  The recursion of marking is *)
(* a stack of what is still to be done.  Id flags, value pairs, and        *)
(* storage that does not fragment tables are left out.                     *)
(***************************************************************************)
EXTENDS Integers, Sequences, FiniteSets, SequencesExt

CONSTANTS
    Entities, OnDeleteDelete, OnDeletePanic, TargetDelete, TargetPanic, Prefab,
    OnDeleteRemove,  \* entities with an explicit (OnDelete, Remove)
    Holders,         \* entities that the application gives ids
    AddIds,          \* ids it gives them
    Deletable,       \* entities the application deletes
    BulkIds,         \* what it gives to ecs_delete_with and ecs_remove_all
    ObserverAdds,    \* <<entity, id>>: what an OnRemove observer may add
    DyingTargets,    \* may an observer refer to the entity that is being deleted?
    MaxIds,          \* bound: ids of all entities together at first
    MaxAdds,         \* bound: ids added later
    MaxOps           \* bound: operations that delete

ASSUME EntitiesAssumption == Entities \subseteq Nat \ {0} /\ IsFiniteSet(Entities)
ASSUME TraitsAssumption ==
    /\ OnDeleteDelete \subseteq Entities /\ OnDeletePanic \subseteq Entities
    /\ OnDeleteDelete \intersect OnDeletePanic = {}
    /\ TargetDelete \subseteq Entities /\ TargetPanic \subseteq Entities
    /\ TargetDelete \intersect TargetPanic = {}
ASSUME OnDeleteRemoveAssumption ==
    OnDeleteRemove \intersect (OnDeleteDelete \union OnDeletePanic) = {}
ASSUME BoundsAssumption == MaxIds \in Nat /\ MaxAdds \in Nat /\ MaxOps \in Nat

VARIABLES
    type,      \* alive entities and the type of the table they are in
    tables,    \* types of the tables that exist
    records,   \* ids that have a component record
    flagged,   \* records with EcsIdMarkedForDelete
    doomed,    \* tables with EcsTableMarkedForDelete
    marked,    \* world->store.marked_ids
    work,      \* stack: what marking, clearing or releasing has still to do
    calls,     \* calls of flecs_on_delete that the operation has still to make
    cmds,      \* commands that observers deferred
    pc,
    op,        \* the operation, and what it found
    ops,       \* operations that delete so far
    adds       \* ids added so far

vars == <<type, tables, records, flagged, doomed, marked, work, calls, cmds, pc, op, ops, adds>>

Traits == INSTANCE CleanupTraits WITH
    world <- CASE pc = "idle" -> type
               [] pc = "merge" -> [e \in DOMAIN type \ {op.entity} |-> type[e]]
               [] OTHER -> op.before

ASSUME IdsAssumption ==
    /\ AddIds \subseteq Traits!Ids /\ BulkIds \subseteq Traits!Patterns
    /\ ObserverAdds \subseteq Entities \X Traits!Ids

NoTarget == Traits!NoTarget
Wildcard == Traits!Wildcard
IsPair(id) == Traits!IsPair(id)
Matches(pattern, id) == Traits!Matches(pattern, id)
HasMatch(pattern, ids) == Traits!HasMatch(pattern, ids)
IsPrefab(table) == Traits!IsPrefab(table)
IsWildcard(id) == Wildcard \in {id[1], id[2]}

Alive == DOMAIN type
Rows(table) == {e \in Alive : type[e] = table}
TablesOf(id) == {table \in tables : HasMatch(id, table)}
Filled(id) == {table \in TablesOf(id) : Rows(table) # {}}

NoOp == [entity |-> 0, before |-> [e \in {} |-> {}], force |-> FALSE]

\* The component records that come with an id of a table.
RecordsOf(id) == IF IsPair(id) THEN {id, <<id[1], Wildcard>>, <<Wildcard, id[2]>>} ELSE {id}
-----------------------------------------------------------------------------
(* The actions that the traits ask for.                                    *)

\* ECS_ID_ON_DELETE and ECS_ID_ON_DELETE_TARGET of the flags of a record, which
\* are those of its first element; wildcards have none.
OnDeleteAction(e) == CASE e \in OnDeleteDelete -> "Delete"
                       [] e \in OnDeleteRemove -> "Remove"
                       [] e \in OnDeletePanic -> "Panic"
                       [] OTHER -> "none"

OnDeleteTargetAction(r) == CASE r \in TargetDelete -> "Delete"
                             [] r \in TargetPanic -> "Panic"
                             [] OTHER -> "none"

\* Mutant: the first pair with the target decides.
TargetAction_First(table, tgt) ==
    LET rels == {id[1] : id \in {x \in table : x[2] = tgt}}
    IN  OnDeleteTargetAction(Min(rels))

\* flecs_get_delete_action: Delete takes precedence, otherwise the last pair of
\* the type with this target decides; types are sorted by relationship.
TargetAction(table, tgt) ==
    LET rels == {id[1] : id \in {x \in table : x[2] = tgt}}
    IN  IF rels \intersect TargetDelete # {} THEN "Delete" ELSE OnDeleteTargetAction(Max(rels))

\* A call (*, Target) without an action takes the action from each table.
DeleteAction(id, action, table) ==
    IF action = "none" /\ id[1] = Wildcard THEN TargetAction(table, id[2]) ELSE action
-----------------------------------------------------------------------------
(***************************************************************************)
(* The application, while no deletion is in progress.                      *)
(***************************************************************************)
\* ecs_add_id: the entity moves to a table, which is created when needed with
\* the component records of its ids.
MoveTo(e, id) ==
    /\ type' = [type EXCEPT ![e] = @ \union {id}]
    /\ tables' = tables \union {type[e] \union {id}}
    /\ records' = records \union RecordsOf(id)

Addable(e, id) == e \in Alive /\ Traits!Mentions(id) \subseteq Alive

Add(e, id) ==
    /\ pc = "idle" /\ ops < MaxOps /\ adds < MaxAdds
    /\ Addable(e, id) /\ id \notin type[e]
    /\ MoveTo(e, id)
    /\ adds' = adds + 1
    /\ UNCHANGED <<flagged, doomed, marked, work, calls, cmds, pc, op, ops>>

Begin(entity, todo, force) ==
    /\ pc = "idle" /\ ops < MaxOps
    /\ calls' = todo
    /\ op' = [entity |-> entity, before |-> type, force |-> force]
    /\ ops' = ops + 1
    /\ pc' = "call"
    /\ UNCHANGED <<type, tables, records, flagged, doomed, marked, work, cmds, adds>>

Call(id, action, del) == [id |-> id, action |-> action, del |-> del]

\* ecs_delete: refused for an entity with (OnDelete, Panic).  A Panic aborts here
\* and below, as ecs_check and ecs_throw do unless FLECS_NDEBUG removes them.
Delete(e) ==
    /\ e \in Alive \ OnDeletePanic
    /\ Begin(e, <<Call(<<Wildcard, e>>, "none", TRUE), Call(<<e, NoTarget>>, "none", TRUE),
                  Call(<<e, Wildcard>>, "none", TRUE)>>, TRUE)

\* ecs_delete_with and ecs_remove_all.
DeleteWith(id) == Begin(0, <<Call(id, "Delete", FALSE)>>, FALSE)
RemoveAll(id) == Begin(0, <<Call(id, "Remove", FALSE)>>, FALSE)
-----------------------------------------------------------------------------
(***************************************************************************)
(* flecs_on_delete: mark.                                                  *)
(***************************************************************************)
Item(kind, x, action, del) == [kind |-> kind, x |-> x, action |-> action, del |-> del]

\* flecs_on_delete_mark: the action of a component or relationship is derived
\* from its traits.
OnDeleteMark ==
    /\ pc = "call" /\ calls # <<>>
    /\ LET call == Head(calls)
           action == IF call.action = "none" /\ call.id[1] # Wildcard
                       THEN OnDeleteAction(call.id[1]) ELSE call.action
       IN  /\ work' = IF call.id \in records
                        THEN <<Item("id", call.id, action, call.del)>> ELSE <<>>
           /\ pc' = IF call.id \in records /\ action = "Panic" THEN "abort" ELSE "mark"
    /\ calls' = Tail(calls)
    /\ UNCHANGED <<type, tables, records, flagged, doomed, marked, cmds, op, ops, adds>>

\* The id has a record that is not marked yet.
NotMarked(id) == id \in records \ flagged

Marking(kind) == pc = "mark" /\ work # <<>> /\ Head(work).kind = kind

\* flecs_component_mark_for_delete: push the id, then visit its tables.
MarkId ==
    /\ Marking("id")
    /\ LET item == Head(work)
       IN  \/ /\ NotMarked(item.x)
              /\ marked' = Append(marked, [id |-> item.x, action |-> item.action, del |-> item.del])
              /\ flagged' = flagged \union {item.x}
              /\ \E order \in SetToSeqs(Filled(item.x)) :
                    work' = [i \in 1 .. Len(order) |->
                                Item("table", [id |-> item.x, table |-> order[i]], item.action, item.del)]
                            \o <<Item("rest", item.x, item.action, item.del)>> \o Tail(work)
           \/ /\ ~ NotMarked(item.x)
              /\ work' = Tail(work)
              /\ UNCHANGED <<marked, flagged>>
    /\ UNCHANGED <<type, tables, records, doomed, calls, cmds, pc, op, ops, adds>>

\* Tables that deleting visits but leaves to prefabs.
Spared(table, del) == ~ del /\ ~ op.force /\ IsPrefab(table)

\* The body of the loop over the tables: a table to delete is marked, and what
\* refers to its entities is marked next.
MarkTable ==
    /\ Marking("table")
    /\ LET item == Head(work)
           table == item.x.table
           action == DeleteAction(item.x.id, item.action, table)
           visit == table \notin doomed /\ ~ Spared(table, item.del)
       IN  \/ /\ visit /\ action = "Delete"
              /\ doomed' = doomed \union {table}
              /\ \E order \in SetToSeqs(Rows(table)) :
                    work' = [i \in 1 .. Len(order) |-> Item("entity", order[i], "none", TRUE)]
                            \o Tail(work)
              /\ UNCHANGED pc
           \/ /\ visit /\ action = "Panic"
              /\ pc' = "abort"
              /\ UNCHANGED <<doomed, work>>
           \/ /\ visit => action \notin {"Delete", "Panic"}
              /\ work' = Tail(work)
              /\ UNCHANGED <<doomed, pc>>
    /\ UNCHANGED <<type, tables, records, flagged, marked, calls, cmds, op, ops, adds>>

\* flecs_target_mark_for_delete.
MarkEntity ==
    /\ Marking("entity")
    /\ LET e == Head(work).x
       IN  work' = <<Item("id", <<e, NoTarget>>, OnDeleteAction(e), TRUE),
                     Item("id", <<e, Wildcard>>, OnDeleteAction(e), TRUE),
                     Item("id", <<Wildcard, e>>, "none", TRUE)>> \o Tail(work)
    /\ UNCHANGED <<type, tables, records, flagged, doomed, marked, calls, cmds, pc, op, ops, adds>>

\* The end of flecs_component_mark_for_delete: empty tables, and the records of
\* the pairs of a wildcard.
MarkRest ==
    /\ Marking("rest")
    /\ LET id == Head(work).x
       IN  /\ doomed' = doomed \union (TablesOf(id) \ Filled(id))
           /\ flagged' = flagged \union {r \in records : ~ IsWildcard(r) /\ Matches(id, r)}
    /\ work' = Tail(work)
    /\ UNCHANGED <<type, tables, records, marked, calls, cmds, pc, op, ops, adds>>

\* Mutant: ids are cleared in the order in which they were marked.
ClearOrder_Marked == marked

\* Ids are cleared in reverse order.
ClearOrder == Reverse(marked)

\* Nothing left to mark: the topmost call cleans up, when there is anything.
MarkDone ==
    /\ pc = "mark" /\ work = <<>>
    /\ \/ /\ marked = <<>>
          /\ pc' = "call"
          /\ UNCHANGED work
       \/ /\ marked # <<>>
          /\ pc' = "clear"
          /\ work' = ClearOrder
    /\ UNCHANGED <<type, tables, records, flagged, doomed, marked, calls, cmds, op, ops, adds>>
-----------------------------------------------------------------------------
(***************************************************************************)
(* flecs_on_delete: clear.                                                 *)
(***************************************************************************)
\* flecs_remove_from_table: all marked ids are removed.
Remaining(table) == {id \in table : \A i \in DOMAIN marked : ~ Matches(marked[i].id, id)}

\* Tables whose entities are deleted; an explicit Remove wins over the mark.
ClearedTables(item) ==
    {table \in Filled(item.id) :
        ~ Spared(table, item.del) /\ item.action # "Remove" /\ table \in doomed}

ReducedTables(item) ==
    {table \in Filled(item.id) : ~ Spared(table, item.del)} \ ClearedTables(item)

\* What an OnRemove observer may defer now.
Deferrable ==
    {add \in ObserverAdds :
        DyingTargets \/ op.entity \notin {add[1]} \union Traits!Mentions(add[2])}

\* flecs_on_delete_clear_entities, for one marked id: its tables are emptied.
ClearEntities ==
    /\ pc = "clear" /\ work # <<>>
    /\ LET item == Head(work)
           reduced == ReducedTables(item)
       IN  /\ type' = [e \in {x \in Alive : type[x] \notin ClearedTables(item)} |->
                          IF type[e] \in reduced THEN Remaining(type[e]) ELSE type[e]]
           /\ tables' = tables \union {Remaining(table) : table \in reduced}
           /\ doomed' = doomed \ {table \in Filled(item.id) : Spared(table, item.del)}
           /\ \/ UNCHANGED cmds
              \/ /\ ClearedTables(item) \union reduced # {} /\ cmds = <<>>
                 /\ \E add \in Deferrable : cmds' = <<add>>
    /\ work' = Tail(work)
    /\ UNCHANGED <<records, flagged, marked, calls, pc, op, ops, adds>>

ClearDone ==
    /\ pc = "clear" /\ work = <<>>
    /\ work' = marked
    /\ pc' = "ids"
    /\ UNCHANGED <<type, tables, records, flagged, doomed, marked, calls, cmds, op, ops, adds>>

\* Mutant: a wildcard does not release its pairs.
Freed_Only(id) == {id}

\* flecs_component_free: a wildcard releases the pairs it matches.
Freed(id) == {r \in records : r = id \/ (IsWildcard(id) /\ ~ IsWildcard(r) /\ Matches(id, r))}

\* Tables of the id are left, which keep it alive.
Kept(item) == Filled(item.id) # {}

\* Mutant: an id that tables keep alive stays marked.
Unmarked_NotKept(item) == IF item.del \/ Kept(item) THEN {} ELSE {item.id}

\* Records that are no longer marked, as they are not deleted.
Unmarked(item) == IF item.del /\ ~ Kept(item) THEN {} ELSE {item.id}

\* The marked ids are walked twice: normal ids are released before wildcards.
Passes == {"ids", "wildcards"}
InPass(item) == IsWildcard(item.id) <=> pc = "wildcards"

\* flecs_on_delete_clear_ids, for one marked id.
SkipId ==
    /\ pc \in Passes /\ work # <<>>
    /\ ~ InPass(Head(work))
    /\ work' = Tail(work)
    /\ UNCHANGED <<type, tables, records, flagged, doomed, marked, calls, cmds, pc, op, ops, adds>>

ClearId ==
    /\ pc \in Passes /\ work # <<>>
    /\ InPass(Head(work))
    /\ LET item == Head(work)
           gone == IF item.del /\ ~ Kept(item) THEN Freed(item.id) ELSE {}
       IN  /\ pc' = IF Kept(item) /\ op.force THEN "abort" ELSE pc
           /\ tables' = tables \ (TablesOf(item.id) \ Filled(item.id))
           /\ records' = records \ gone
           /\ flagged' = (flagged \ gone) \ Unmarked(item)
    /\ doomed' = doomed \intersect tables'
    /\ work' = Tail(work)
    /\ UNCHANGED <<type, marked, calls, cmds, op, ops, adds>>

ClearIdsDone ==
    /\ pc \in Passes /\ work = <<>>
    /\ \/ /\ pc = "ids"
          /\ pc' = "wildcards"
          /\ work' = marked
          /\ UNCHANGED marked
       \/ /\ pc = "wildcards"
          /\ pc' = "call"
          /\ marked' = <<>>
          /\ UNCHANGED work
    /\ UNCHANGED <<type, tables, records, flagged, doomed, calls, cmds, op, ops, adds>>
-----------------------------------------------------------------------------
(* The end of the operation.                                               *)
CallsDone ==
    /\ pc = "call" /\ calls = <<>>
    /\ pc' = "merge"
    /\ UNCHANGED <<type, tables, records, flagged, doomed, marked, work, calls, cmds, op, ops, adds>>

\* flecs_defer_end runs the deferred commands; a command for an entity or with
\* a target that is dead is dropped.
Merge ==
    /\ pc = "merge" /\ cmds # <<>>
    /\ LET e == cmds[1][1]
           id == cmds[1][2]
       IN  \/ /\ Addable(e, id)
              /\ MoveTo(e, id)
           \/ /\ ~ Addable(e, id)
              /\ UNCHANGED <<type, tables, records>>
    /\ cmds' = <<>>
    /\ UNCHANGED <<flagged, doomed, marked, work, calls, pc, op, ops, adds>>

\* ecs_delete: delete the entity itself, unless a cycle did.
Finish ==
    /\ pc = "merge" /\ cmds = <<>>
    /\ type' = [e \in Alive \ {op.entity} |-> type[e]]
    /\ pc' = "idle"
    /\ op' = NoOp
    /\ UNCHANGED <<tables, records, flagged, doomed, marked, work, calls, cmds, ops, adds>>
-----------------------------------------------------------------------------
\* A world that was just built; tables that building it left empty are deleted.
Init ==
    /\ \E n \in 0 .. MaxIds : \E given \in kSubset(n, Holders \X AddIds) :
          type = [e \in Entities |-> {id \in AddIds : <<e, id>> \in given}]
    /\ tables = {{}} \union {type[e] : e \in Entities}
    /\ records = UNION {RecordsOf(id) : id \in UNION tables}
    /\ flagged = {} /\ doomed = {}
    /\ marked = <<>> /\ work = <<>> /\ calls = <<>> /\ cmds = <<>>
    /\ pc = "idle" /\ op = NoOp /\ ops = 0 /\ adds = 0

Application ==
    \/ \E e \in Alive \intersect Holders, id \in AddIds : Add(e, id)
    \/ \E e \in Alive \intersect Deletable : Delete(e)
    \/ \E id \in BulkIds : DeleteWith(id) \/ RemoveAll(id)

Cleanup ==
    \/ OnDeleteMark \/ MarkId \/ MarkTable \/ MarkEntity \/ MarkRest \/ MarkDone
    \/ ClearEntities \/ ClearDone \/ SkipId \/ ClearId \/ ClearIdsDone
    \/ CallsDone \/ Merge \/ Finish

Next == Application \/ Cleanup

\* A deletion runs to its end without waiting for anything.
Spec == Init /\ [][Next]_vars /\ WF_vars(Cleanup)
-----------------------------------------------------------------------------
\* The deletion does what the cleanup traits promise: it deletes what the Delete
\* policies reach, removes every reference to it from the rest, and does not go
\* through when a Panic policy forbids it.
ImplementsTraits == Traits!Spec

\* Outside of an operation the store has no dangling reference: no type, table
\* or component record mentions an entity that is not alive, and tables and
\* records agree (flecs_component_new: "the store won't contain any tables with
\* deleted ids").
NoDangling ==
    pc = "idle" =>
        /\ {type[e] : e \in Alive} \subseteq tables
        /\ \A table \in tables : \A id \in table : RecordsOf(id) \subseteq records
        /\ \A id \in records : Traits!Mentions(id) \subseteq Alive

\* No mark outlives the operation: a record or table that stays marked would be
\* skipped by the next deletion.
MarksCleared == pc = "idle" => flagged = {} /\ doomed = {} /\ marked = <<>>

\* Entities form a tree under the Delete policies: at most one parent, no cycle,
\* and its entities refer to each other in no other way.
Parents(e) == {id[2] : id \in {x \in op.before[e] : x[1] \in TargetDelete}}
IsTree ==
    /\ \A e \in DOMAIN op.before :
          /\ Cardinality(Parents(e)) <= 1
          /\ \A id \in op.before[e] :
                \/ id[1] \in TargetDelete
                \/ ~ IsPair(id) /\ id[1] # op.entity /\ Parents(id[1]) = {}
    /\ \A set \in SUBSET DOMAIN op.before \ {{}} : \E e \in set : Parents(e) \intersect set = {}

\* ecs_delete deletes trees bottom to top (the comment in flecs_on_delete_clear_entities):
\* as long as a child is there, for its OnRemove observers, so is its parent.
ChildrenFirst ==
    (pc = "clear" /\ op.entity # 0 /\ IsTree) =>
        \A e \in Alive : \A id \in type[e] : id[1] \in TargetDelete => id[2] \in Alive
=============================================================================
