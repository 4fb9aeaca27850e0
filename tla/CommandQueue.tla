--------------------------- MODULE CommandQueue ----------------------------
(***************************************************************************)
(* The command queues of the stages (commands.c) and the operations they   *)
(* defer (entity.c, stage.c): a call made while a stage is deferred is     *)
(* appended to the queue of the stage, the commands of one entity are      *)
(* chained, and the flush applies a chain as a single move of the entity   *)
(* before it walks through the commands one by one.                        *)
(*                                                                         *)
(* An entity is a pair <<index, generation>>.  The value of a component is *)
(* the number of the call that wrote it; Default is what a constructor     *)
(* leaves.  A pair id stands for (relationship, Parent), for one           *)
(* relationship that deletes and one that only removes the pair when its   *)
(* target is deleted.  Observers react to an event of an entity with one   *)
(* more call for that entity.                                              *)
(***************************************************************************)
EXTENDS Integers, Sequences, FiniteSets, SequencesExt

CONSTANTS
    StageCount,      \* world->stage_count
    Indices,         \* entity indices; 1 is the index of Parent
    Components,      \* ids that carry a value
    Trivial,         \* components without hooks and OnSet observers
    DeletePairs,     \* pair ids whose target policy is (OnDeleteTarget, Delete)
    RemovePairs,     \* pair ids whose target policy is (OnDeleteTarget, Remove)
    Calls,           \* <<operation, id>> the application calls
    SuspendedCalls,  \* the ones it calls while deferring is suspended
    Observers,       \* <<event, id, operation, id of the reaction>>
    MaxCalls,        \* bound: calls of the application
    MaxDefer,        \* bound: nesting of ecs_defer_begin
    MaxGen           \* bound: times an index is recycled

ASSUME StageCountAssumption == StageCount \in Nat \ {0}
ASSUME IndicesAssumption == 1 \in Indices /\ Indices \subseteq Nat \ {0}
ASSUME ObserversAssumption == \A o \in Observers : o[2] \in Components
ASSUME TrivialAssumption == Trivial \subseteq Components
\* A relationship has one policy for targets that are deleted.
ASSUME PairsAssumption == DeletePairs \intersect RemovePairs = {}

Pairs == DeletePairs \union RemovePairs
Ids == Components \union Pairs
NoId == "none"
Stages == 0 .. StageCount - 1
Parent == <<1, 0>>
Absent == -1
Default == 0
Now == -1        \* the frame of a call that is not deferred

\* A call that runs while deferring is suspended has no value to move.
Operations == {"Add", "Remove", "Set", "Ensure", "Emplace", "Modified", "Clear", "Delete"}
ASSUME CallsAssumption ==
    /\ \A k \in Calls : k[1] \in Operations /\ k[2] \in Ids \union {NoId}
    /\ \A k \in SuspendedCalls :
          k[1] \in Operations \ {"Set", "Ensure", "Emplace"} /\ k[2] \in Ids \union {NoId}
    /\ \A o \in Observers : o[3] \in Operations /\ o[4] \in Ids \union {NoId}
ASSUME FiniteAssumption == IsFiniteSet(Indices) /\ IsFiniteSet(Ids)

VARIABLES
    stages,     \* per stage: defer, cmd_flushing, the two queues and entries
    store,      \* entities and components: live, generation and values
    frames,     \* flushes under way, the innermost first
    readonly,   \* EcsWorldReadonly
    merging,    \* stages that flecs_stage_merge has still to end
    calls,      \* number of calls so far
    called,     \* history: a store in which each call runs when it is flushed
    stale_set   \* history: an OnSet observer saw a value older than the set

vars == <<stages, store, frames, readonly, merging, calls, called, stale_set>>
-----------------------------------------------------------------------------
(***************************************************************************)
(* The store: what the operations do to it.                                *)
(***************************************************************************)
Alive(s, e) == s.live[e[1]] /\ s.gen[e[1]] = e[2]
Has(s, e, id) == s.val[e[1]][id] # Absent
Type(s, e) == {id \in Ids : Has(s, e, id)}
Valid(s, id) == id \in Pairs => Alive(s, Parent)

Put(s, e, id, v) == [s EXCEPT !.val[e[1]][id] = v]
AddId(s, e, id) == IF Has(s, e, id) THEN s ELSE Put(s, e, id, Default)
RemoveId(s, e, id) == Put(s, e, id, Absent)
Clear(s, e) == [s EXCEPT !.val[e[1]] = [id \in Ids |-> Absent]]

\* Entities that ecs_delete removes: e and, for Parent, its children.
Deleted(s, e) ==
    {e[1]} \union {n \in Indices : e = Parent /\ \E id \in DeletePairs : s.val[n][id] # Absent}

Delete(s, e) ==
    IF ~ Alive(s, e) THEN s
    ELSE [live |-> [n \in Indices |-> s.live[n] /\ n \notin Deleted(s, e)],
          gen  |-> [n \in Indices |-> s.gen[n] + IF n \in Deleted(s, e) THEN 1 ELSE 0],
          val  |-> [n \in Indices |-> [id \in Ids |->
                      IF n \in Deleted(s, e) \/ (e = Parent /\ id \in Pairs)
                        THEN Absent ELSE s.val[n][id]]]]

\* Mutant: the components that both tables have are constructed again.
CommitFresh(s, e, type) ==
    [s EXCEPT !.val[e[1]] = [id \in Ids |-> IF id \in type THEN Default ELSE Absent]]

\* Move an entity to the table with this type.
Commit(s, e, type) ==
    [s EXCEPT !.val[e[1]] = [id \in Ids |->
        CASE id \notin type -> Absent
          [] id \in type /\ Has(s, e, id) -> s.val[e[1]][id]
          [] OTHER -> Default]]

\* What a call means when it is not deferred; calls for an entity that is
\* no longer alive are ignored.
Perform(s, c) ==
    CASE ~ Alive(s, c.e) -> s
      [] c.op = "Add" /\ Valid(s, c.id) -> AddId(s, c.e, c.id)
      [] c.op = "Add" /\ c.id \in DeletePairs -> Delete(s, c.e)
      [] c.op = "Remove" -> RemoveId(s, c.e, c.id)
      [] c.op \in {"Set", "Ensure", "Emplace"} -> Put(s, c.e, c.id, c.val)
      [] c.op = "Clear" -> Clear(s, c.e)
      [] c.op = "Delete" -> Delete(s, c.e)
      [] OTHER -> s
-----------------------------------------------------------------------------
(***************************************************************************)
(* Queueing a call.  A world is a record of the variables that a flush     *)
(* step may change several times.                                          *)
(***************************************************************************)
World == [stages |-> stages, store |-> store, frames |-> frames,
          calls |-> calls, called |-> called, stale_set |-> stale_set]

Becomes(w) ==
    \E x \in {w} :
        /\ stages' = x.stages /\ store' = x.store /\ frames' = x.frames
        /\ calls' = x.calls /\ called' = x.called /\ stale_set' = x.stale_set

\* The member of a singleton.  TLC evaluates the members of a set once, but a
\* definition in a LET each time it is used.
Only(S) == CHOOSE x \in S : TRUE

NoEntry == [first |-> -1, last |-> 0]

\* flecs_cmd_new: a command outside of the chain of its entity.
CmdNew(stage, c) ==
    [stage EXCEPT !.queue[stage.cmd] =
        Append(@, c)]

\* Mutant: entries are compared by index only.
ChainedAnyVersion(queue, entry, e) == entry.first # -1

\* A command continues the chain of the entry unless the entry was invalidated
\* or belongs to another generation of the index.
Chained(queue, entry, e) == entry.first # -1 /\ queue[entry.last].e = e

\* The link to a new command, negative in the first command of the chain.
LinkTo(entry, cur) == IF entry.last = entry.first THEN - cur ELSE cur

\* flecs_cmd_new_batched.
CmdNewBatched(stage, c) ==
    LET queue == stage.queue[stage.cmd]
        entry == stage.entries[stage.cmd][c.e[1]]
        cur == Len(queue) + 1
        linked == [queue EXCEPT ![entry.last].next = LinkTo(entry, cur)]
    IN  IF Chained(queue, entry, c.e)
          THEN [stage EXCEPT !.queue[stage.cmd] = Append(linked, c),
                             !.entries[stage.cmd][c.e[1]].last = cur]
          ELSE [stage EXCEPT !.queue[stage.cmd] = Append(queue, [c EXCEPT !.entry = TRUE]),
                             !.entries[stage.cmd][c.e[1]] = [first |-> cur, last |-> cur]]

\* ecs_ensure and ecs_emplace for a component the entity has return the
\* component, and are left with making sure that it stays.
Asked(s, c) ==
    IF c.op \in {"Ensure", "Emplace"} /\ Has(s, c.e, c.id)
      THEN [c EXCEPT !.op = "Add", !.kind = "Add"] ELSE c

\* Mutant: also when there are other stages.
DirectWriteAlways(s, c) == c.op = "Set" /\ Has(s, c.e, c.id)

\* flecs_defer_set: with one stage, the value of a component the entity has
\* is written at once rather than to temporary storage.
DirectWrite(s, c) == c.op = "Set" /\ StageCount = 1 /\ Has(s, c.e, c.id)

\* Mutant: a value that was written at once is only notified.
CmdKindNoAdd(s, c) ==
    CASE c.op = "Set" /\ DirectWrite(s, c) -> "Modified"
      [] c.op = "Set" /\ ~ DirectWrite(s, c) -> "Set"
      [] OTHER -> c.op

CmdKind(s, c) ==
    CASE c.op = "Set" /\ c.id \notin Trivial ->
            IF DirectWrite(s, c) THEN "AddModified" ELSE "Set"
      [] c.op = "Set" /\ c.id \in Trivial ->
            IF DirectWrite(s, c) THEN "Add" ELSE "Ensure"
      [] OTHER -> c.op

DeferAsked(w, s, c) ==
    LET cmd == [c EXCEPT !.kind = CmdKind(w.store, c)]
    IN  [w EXCEPT
            !.stages[s] = IF c.op = "Modified" THEN CmdNew(@, cmd) ELSE CmdNewBatched(@, cmd),
            !.store = IF DirectWrite(@, c) THEN Put(@, c.e, c.id, c.val) ELSE @,
            !.calls = @ + 1]

Defer(w, s, c) == DeferAsked(w, s, Asked(w.store, c))

\* A call, and the command record it becomes: kind, the link to the next
\* command of the entity, whether it owns the entry of the entity, and
\* (history) whether it was performed in called.
NewCall(op, e, id, number) ==
    [op |-> op, e |-> e, id |-> id, val |-> number,
     kind |-> op, next |-> 0, entry |-> FALSE, done |-> FALSE]

\* The observers of an event <<event, entity, id>>, and of a sequence of
\* events: each queues its call on stage 0, which is deferred while an
\* operation runs.
Observe(w, ev) ==
    LET reacting == {o \in Observers : o[1] = ev[1] /\ o[2] = ev[3]}
        o == CHOOSE o \in reacting : TRUE
    IN  IF reacting = {} THEN w
        ELSE Defer(w, 0, NewCall(o[3], ev[2], o[4], w.calls + 1))

React(w, events) == FoldLeft(LAMBDA acc, ev : Only({Observe(x, ev) : x \in {acc}}), w, events)

\* OnAdd for those of the ids that the entity has in a store.
NotifyAdded(w, s, e, ids) ==
    FoldLeft(LAMBDA acc, id : IF ~ Has(s, e, id) THEN acc
                              ELSE Only({Observe(x, <<"OnAdd", e, id>>) : x \in {acc}}),
             w, ids)

Events(event, e, ids) == [k \in DOMAIN ids |-> <<event, e, ids[k]>>]
-----------------------------------------------------------------------------
(***************************************************************************)
(* Flushing.  A frame is a flush of the queue of a stage, or one call that *)
(* is not deferred; i is the command it is at and phase what comes next:   *)
(*   read  read whether the entity is alive, batch if a chain starts here  *)
(*   copy  copy the values of a batch, then notify OnAdd                   *)
(*   exec  execute the command of an entity that was alive                 *)
(*   move  move the value of a set to the component that was ensured.      *)
(***************************************************************************)
Frame(s, call) == [stage |-> s, call |-> call, i |-> 1, phase |-> "read", added |-> <<>>]

Flushed(w, s) == w.stages[s].queue[1 - w.stages[s].cmd]
Commands(w, f) == IF f.stage = Now THEN <<f.call>> ELSE Flushed(w, f.stage)
SetCommands(w, f, cmds) ==
    IF f.stage = Now THEN w
    ELSE [w EXCEPT !.stages[f.stage].queue[1 - w.stages[f.stage].cmd] = cmds]

\* Mutant: the loop over the queues does not end at an empty queue.
StartFlushAlways(w, s) ==
    [w EXCEPT !.stages[s].cmd_flushing = TRUE, !.frames = <<Frame(s, <<>>)>> \o @]

\* Swap the queues of a stage and, unless there are no commands, flush.
StartFlush(w, s) ==
    IF Flushed(w, s) = <<>> THEN w
    ELSE [w EXCEPT !.stages[s].cmd_flushing = TRUE, !.frames = <<Frame(s, <<>>)>> \o @]

SwapAndFlush(w, s) ==
    Only({StartFlush(x, s) : x \in {[w EXCEPT !.stages[s].cmd = 1 - @]}})

\* flecs_defer_end when the count drops to zero.
EndDefer(w, s) ==
    Only({IF x.stages[s].cmd_flushing THEN x ELSE SwapAndFlush(x, s) : x \in {w}})

\* Go on with the innermost frame, after the commands that the operation's
\* observers queued on stage 0 unless stage 0 is being flushed.
GoOn(w, i, phase) ==
    EndDefer([w EXCEPT !.frames[1].i = i, !.frames[1].phase = phase], 0)

Notify(w, c) ==
    IF Has(w.store, c.e, c.id)
      THEN React([w EXCEPT !.stale_set =
                    @ \/ (c.op # "Modified" /\ w.store.val[c.e[1]][c.id] < c.val)],
                 <<<<"OnSet", c.e, c.id>>>>)
      ELSE w

\* Operations that change the store, with the observers they notify: OnRemove
\* before the change, OnAdd after it.
DoAdd(w, e, id) ==
    IF Has(w.store, e, id) THEN w
    ELSE React([w EXCEPT !.store = AddId(@, e, id)], <<<<"OnAdd", e, id>>>>)

DoRemove(w, e, ids) ==
    LET removed == SetToSeq(ids \intersect Type(w.store, e))
        notified == React(w, Events("OnRemove", e, removed))
    IN  [notified EXCEPT !.store = Commit(@, e, Type(@, e) \ ids)]

\* Mutant: the children of a deleted entity stay.
DoDeleteOne(w, e) ==
    [w EXCEPT !.store = [Clear(@, e) EXCEPT !.live[e[1]] = FALSE, !.gen[e[1]] = @ + 1]]

\* ecs_delete also flushes the queue before it deletes the entity itself; nothing
\* but the reactions of observers could be in it.
DoDelete(w, e) ==
    LET notified == FoldLeft(LAMBDA acc, n : React(acc, Events("OnRemove", <<n, w.store.gen[n]>>,
                                                 SetToSeq(Type(w.store, <<n, 0>>)))),
                             w, SetToSeq(Deleted(w.store, e) \ {e[1]}) \o <<e[1]>>)
    IN  [notified EXCEPT !.store = Delete(@, e)]
-----------------------------------------------------------------------------
(***************************************************************************)
(* flecs_cmd_batch_for_entity.                                             *)
(***************************************************************************)
Link(c) == IF c.next < 0 THEN - c.next ELSE c.next

\* Walk the chain that starts at i: f is applied to the accumulator and the
\* position of each command until acc.cur is 0.
WalkChain(f(_, _), acc, len) ==
    FoldLeft(LAMBDA a, j : Only({IF j = x.cur THEN f(x, j) ELSE x : x \in {a}}),
             acc, [j \in 1 .. len |-> j])

\* The command at j becomes one of this kind, and the entity is to have a type.
BatchNext(a, j, kind, type, added, removed) ==
    LET c == a.cmds[j]
    IN  [a EXCEPT !.cmds[j] = [c EXCEPT !.kind = kind, !.done = kind # "Delete"],
                  !.cur = IF kind = "Delete" THEN 0 ELSE Link(c),
                  !.type = type, !.added = @ \o added, !.removed = @ \union removed,
                  !.called = IF kind = "Delete" THEN @ ELSE Perform(@, c)]

\* Find the table of the entity after the whole chain.
BatchStep(a, j) ==
    LET c == a.cmds[j]
        s == a.store
        new == IF c.id \in a.type THEN <<>> ELSE <<c.id>>
    IN  CASE ~ Valid(s, c.id) /\ c.id \in RemovePairs ->
                BatchNext(a, j, "Skip", a.type, <<>>, {})
          [] ~ Valid(s, c.id) /\ c.id \in DeletePairs ->
                [BatchNext(a, j, "Skip", a.type, <<>>, {}) EXCEPT !.cur = 0, !.deleted = TRUE]
          [] Valid(s, c.id) /\ c.kind = "Add" ->
                BatchNext(a, j, "Skip", a.type \union {c.id}, new, {})
          [] Valid(s, c.id) /\ c.kind = "AddModified" ->
                BatchNext(a, j, "Modified", a.type \union {c.id}, new, {})
          [] Valid(s, c.id) /\ c.kind \in {"Set", "Ensure"} ->
                BatchNext(a, j, c.kind, a.type \union {c.id}, new, {})
          [] Valid(s, c.id) /\ c.kind = "Remove" ->
                BatchNext(a, j, "Skip", a.type \ {c.id}, <<>>, {c.id} \intersect a.type)
          [] c.kind = "Clear" ->
                BatchNext(a, j, "Skip", {}, <<>>, a.type)
          [] OTHER -> BatchNext(a, j, c.kind, a.type, <<>>, {})

Batch(w, cmds, i) ==
    WalkChain(BatchStep, [cmds |-> cmds, cur |-> i, store |-> w.store,
                          type |-> Type(w.store, cmds[i].e), added |-> <<>>, removed |-> {},
                          deleted |-> FALSE, called |-> w.called], Len(cmds))

\* Copy the values of the chain to the components the entity ended up with.
CopyStep(a, j) ==
    LET c == a.cmds[j]
        valued == c.kind \in {"Set", "Ensure"}
        present == Has(a.store, c.e, c.id)
    IN  [a EXCEPT
            !.cur = IF c.kind = "Delete" THEN 0 ELSE Link(c),
            !.store = IF valued /\ present THEN Put(@, c.e, c.id, c.val) ELSE @,
            !.cmds[j].kind =
                CASE valued /\ present /\ @ = "Set" -> "Modified"
                  [] valued /\ ~ (present /\ @ = "Set") -> "Skip"
                  [] OTHER -> @]
-----------------------------------------------------------------------------
(***************************************************************************)
(* Steps of the innermost flush, flecs_defer_end.                          *)
(***************************************************************************)
Top == Head(frames)
TopCommands == Commands(World, Top)
Cmd == TopCommands[Top.i]

Flushing == frames # <<>> /\ Top.i \in DOMAIN TopCommands

\* Mutant: the chain of a dead entity is batched too.
StartsBatchDead == Top.phase = "read" /\ Cmd.next < 0

StartsBatch == Top.phase = "read" /\ Cmd.next < 0 /\ Alive(store, Cmd.e)

FlushStep(w) == Becomes(w) /\ UNCHANGED <<readonly, merging>>

\* First walk over the chain and the commit.
BatchEntity ==
    /\ Flushing
    /\ StartsBatch
    /\ \E batch \in {Batch(World, TopCommands, Top.i)} :
       LET e == Cmd.e
           marked == [SetCommands(World, Top, batch.cmds) EXCEPT !.called = batch.called,
                        !.frames[1].added = batch.added]
           start == Type(store, e)
           notified == React(marked, Events("OnRemove", e,
                                            SetToSeq(batch.removed \intersect start)))
       IN  FlushStep(
             IF batch.deleted
               THEN GoOn(DoDelete(marked, e), Top.i, "exec")
             ELSE IF batch.type = start
               THEN GoOn(marked, Top.i, "copy")
             ELSE GoOn([notified EXCEPT !.store = Commit(@, e, batch.type)], Top.i, "copy"))

\* Second walk over the chain, then the OnAdd observers.
BatchCopy ==
    /\ Flushing
    /\ Top.phase = "copy"
    /\ Alive(store, Cmd.e)
    /\ \E copy \in {WalkChain(CopyStep, [cmds |-> TopCommands, cur |-> Top.i, store |-> store],
                               Len(TopCommands))} :
       LET copied == [SetCommands(World, Top, copy.cmds) EXCEPT !.store = copy.store,
                        !.frames[1].added = <<>>]
       IN  FlushStep(
             IF Top.added = <<>>
               THEN [copied EXCEPT !.frames[1].phase = "exec"]
               ELSE GoOn(NotifyAdded(copied, copy.store, Cmd.e, Top.added), Top.i, "exec"))

\* The entry of the entity is invalidated when its first command is reached,
\* and a command that was not batched is performed in called.
Reached(w) ==
    LET f == w.frames[1]
        c == Commands(w, f)[f.i]
        q == 1 - w.stages[f.stage].cmd
        performed == IF c.done THEN w ELSE [w EXCEPT !.called = Perform(@, c)]
    IN  IF f.stage # Now /\ c.entry
          THEN [performed EXCEPT !.stages[f.stage].entries[q][c.e[1]].first = -1]
          ELSE performed

Skipped == Cmd.kind = "Skip" \/ (Top.phase = "read" /\ ~ Alive(store, Cmd.e))

Discard ==
    /\ Flushing
    /\ Top.phase \in {"read", "exec"}
    /\ ~ StartsBatch
    /\ Skipped
    /\ FlushStep([Reached(World) EXCEPT !.frames[1].i = @ + 1, !.frames[1].phase = "read"])

\* The store after a command that has no value to move.
Execute(w, c) ==
    CASE c.kind = "Add" /\ Valid(w.store, c.id) -> DoAdd(w, c.e, c.id)
      [] c.kind = "Add" /\ ~ Valid(w.store, c.id) /\ c.id \in DeletePairs -> DoDelete(w, c.e)
      [] c.kind = "Add" /\ ~ Valid(w.store, c.id) /\ c.id \in RemovePairs -> w
      [] c.kind = "Remove" -> DoRemove(w, c.e, {c.id})
      [] c.kind = "Clear" -> DoRemove(w, c.e, Ids)
      [] c.kind = "Delete" -> DoDelete(w, c.e)
      [] c.kind = "Modified" -> Notify(w, c)
      [] c.kind = "AddModified" -> Notify(DoAdd(w, c.e, c.id), c)

RunCommand ==
    /\ Flushing
    /\ Top.phase \in {"read", "exec"}
    /\ ~ StartsBatch /\ ~ Skipped
    /\ Alive(store, Cmd.e)
    /\ Cmd.kind \notin {"Set", "Ensure", "Emplace"}
    /\ \E w \in {Reached(World)}, c \in {Cmd} :
          FlushStep(GoOn(Execute(w, c), Top.i + 1, "read"))

\* flecs_set_id_move and ecs_emplace_id: first ensure the component, which
\* flushes what its OnAdd observers queued, then move the value.
EnsureComponent ==
    /\ Flushing
    /\ Top.phase \in {"read", "exec"}
    /\ ~ StartsBatch /\ ~ Skipped
    /\ Alive(store, Cmd.e)
    /\ Cmd.kind \in {"Set", "Ensure", "Emplace"}
    /\ \E w \in {Reached(World)}, c \in {Cmd} :
          FlushStep(GoOn(DoAdd(w, c.e, c.id), Top.i, "move"))

MoveValue ==
    /\ Flushing
    /\ Top.phase = "move"
    /\ Alive(store, Cmd.e) /\ Has(store, Cmd.e, Cmd.id)
    /\ LET moved == [World EXCEPT !.store = Put(@, Cmd.e, Cmd.id, Cmd.val)]
       IN  FlushStep(GoOn(IF Cmd.kind = "Set" THEN Notify(moved, Cmd) ELSE moved,
                          Top.i + 1, "read"))

ClearQueue(w, s) ==
    [w EXCEPT !.stages[s].queue[1 - w.stages[s].cmd] = <<>>,
              !.stages[s].cmd_flushing = FALSE]

\* Mutant: commands that were queued during the flush wait for the next one.
QueueDoneOnce ==
    /\ frames # <<>> /\ ~ Flushing
    /\ LET popped == [World EXCEPT !.frames = Tail(@)]
       IN  FlushStep(IF Top.stage = Now THEN popped ELSE ClearQueue(popped, Top.stage))

\* The queue is done: clear it and flush what was queued meanwhile.
QueueDone ==
    /\ frames # <<>> /\ ~ Flushing
    /\ LET popped == [World EXCEPT !.frames = Tail(@)]
       IN  FlushStep(IF Top.stage = Now THEN popped
                     ELSE SwapAndFlush(ClearQueue(popped, Top.stage), Top.stage))

Flush == BatchEntity \/ BatchCopy \/ Discard \/ RunCommand \/ EnsureComponent
         \/ MoveValue \/ QueueDone
-----------------------------------------------------------------------------
(***************************************************************************)
(* The application, which waits for a flush to return.                     *)
(***************************************************************************)
Idle == frames = <<>> /\ merging = {}

Stage == [defer |-> 0, cmd_flushing |-> FALSE, cmd |-> 0,
          queue |-> [q \in 0 .. 1 |-> <<>>],
          entries |-> [q \in 0 .. 1 |-> [n \in Indices |-> NoEntry]]]

InitialStore(has) ==
    [live |-> [n \in Indices |-> TRUE], gen |-> [n \in Indices |-> 0],
     val  |-> [n \in Indices |-> [id \in Ids |->
                 IF n # Parent[1] /\ id \in has THEN Default ELSE Absent]]]

Init ==
    /\ stages = [s \in Stages |-> Stage]
    /\ \E has \in SUBSET Ids : store = InitialStore(has)
    /\ called = store
    /\ frames = <<>> /\ readonly = FALSE /\ merging = {}
    /\ calls = 0 /\ stale_set = FALSE

\* Calls that the API accepts: the entity is alive, so is the target of a
\* pair, and a component without OnSet observers is never modified.
CallsNow(allowed) ==
    {NewCall(k[1], <<n, store.gen[n]>>, k[2], calls + 1) :
        k \in {k \in allowed : Valid(store, k[2])},
        n \in {n \in Indices : store.live[n]}}

Accepted(c) ==
    /\ c.e = Parent => c.id \in Components \union {NoId}
    /\ c.op = "Modified" => c.id \notin Trivial

AppStep(w) == Becomes(w) /\ UNCHANGED <<readonly, merging>>

DeferBegin ==
    /\ Idle /\ ~ readonly
    /\ stages[0].defer \in 0 .. MaxDefer - 1
    /\ AppStep([World EXCEPT !.stages[0].defer = @ + 1])

\* flecs_defer_end on a stage that is not suspended.
LeaveDefer(s) ==
    LET left == [World EXCEPT !.stages[s].defer = @ - 1]
    IN  IF stages[s].defer = 1 THEN EndDefer(left, s) ELSE left

DeferEnd ==
    /\ Idle /\ ~ readonly
    /\ stages[0].defer > 0
    /\ AppStep(LeaveDefer(0))

Suspend ==
    /\ Idle /\ ~ readonly
    /\ SuspendedCalls # {}
    /\ stages[0].defer > 0
    /\ AppStep([World EXCEPT !.stages[0].defer = - @])

Resume ==
    /\ Idle /\ ~ readonly
    /\ stages[0].defer < 0
    /\ AppStep([World EXCEPT !.stages[0].defer = - @])

ReadonlyBegin ==
    /\ Idle /\ ~ readonly
    /\ \A s \in Stages : stages[s].defer = 0
    /\ readonly' = TRUE
    /\ Becomes([World EXCEPT !.stages = [s \in Stages |-> [stages[s] EXCEPT !.defer = 1]]])
    /\ UNCHANGED merging

ReadonlyEnd ==
    /\ Idle /\ readonly
    /\ readonly' = FALSE
    /\ merging' = Stages
    /\ UNCHANGED <<stages, store, frames, calls, called, stale_set>>

\* flecs_stage_merge: the stages one after the other.
MergeStage ==
    /\ frames = <<>> /\ merging # {}
    /\ LET s == Min(merging)
       IN  merging' = merging \ {s} /\ Becomes(LeaveDefer(s))
    /\ UNCHANGED readonly

CallDeferred(s) ==
    /\ Idle
    /\ stages[s].defer > 0
    /\ calls < MaxCalls
    /\ \E c \in CallsNow(Calls) : Accepted(c) /\ AppStep(Defer(World, s, c))

\* A call while stage 0 is not deferred runs at once.
CallNow ==
    /\ Idle /\ ~ readonly
    /\ stages[0].defer = 0
    /\ calls < MaxCalls
    /\ \E c \in CallsNow(Calls) :
          /\ Accepted(c)
          /\ c.op = "Modified" => Has(store, c.e, c.id)
          /\ LET call == [Asked(store, c) EXCEPT
                            !.kind = IF c.op = "Set" /\ c.id \in Trivial THEN "Ensure" ELSE @]
             IN  AppStep([World EXCEPT !.frames = <<Frame(Now, call)>>, !.calls = @ + 1])

\* A call while deferring is suspended runs at once and queues nothing; the
\* calls considered here notify no observer.
CallSuspended ==
    /\ Idle
    /\ stages[0].defer < 0
    /\ calls < MaxCalls
    /\ \E c \in CallsNow(SuspendedCalls) :
          /\ Accepted(c)
          /\ LET done == Execute(World, c)
             IN  /\ done.calls = calls
                 /\ AppStep([done EXCEPT !.calls = @ + 1, !.called = Perform(@, c)])

\* ecs_new is never deferred; it recycles the index of a deleted entity.
New ==
    /\ Idle /\ ~ readonly
    /\ \E n \in Indices \ {Parent[1]} :
          /\ ~ store.live[n] /\ store.gen[n] <= MaxGen
          /\ AppStep([World EXCEPT !.store.live[n] = TRUE, !.called.live[n] = TRUE])

Next ==
    \/ Flush
    \/ DeferBegin \/ DeferEnd \/ Suspend \/ Resume
    \/ ReadonlyBegin \/ ReadonlyEnd \/ MergeStage
    \/ \E s \in Stages : CallDeferred(s)
    \/ CallNow \/ CallSuspended \/ New

\* A flush runs on the calling thread until it is done.
Spec == Init /\ [][Next]_vars /\ WF_vars(Flush \/ MergeStage)
-----------------------------------------------------------------------------
(***************************************************************************)
(* Properties.                                                             *)
(***************************************************************************)
Quiet == Idle /\ \A s \in Stages : stages[s].defer = 0

\* Once nothing is deferred or being flushed, the entities that are alive,
\* the components they have and the values that were set are the ones that
\* the calls lead to when the calls of each entity run one after the other
\* in the order they were made (the batching of flecs_cmd_batch_for_entity
\* and the discarding in flecs_defer_end are invisible).  A component that
\* was removed and added again may keep its old value.
FlushedAsCalled ==
    Quiet =>
        /\ store.live = called.live /\ store.gen = called.gen
        /\ \A n \in Indices, id \in Ids :
              /\ store.val[n][id] = Absent <=> called.val[n][id] = Absent
              /\ called.val[n][id] > Default => store.val[n][id] = called.val[n][id]

\* In the queue that a stage is filling, every batched command is linked to
\* the next one for the same entity handle, the link of the first one is
\* negative, and no link leads to another entity or another generation of
\* the same index (flecs_cmd_new_batched).
ChainsComplete ==
    \A s \in Stages :
        LET queue == stages[s].queue[stages[s].cmd]
            Same(e) == {j \in DOMAIN queue : queue[j].e = e /\ queue[j].op # "Modified"}
        IN  \A j \in {j \in DOMAIN queue : queue[j].op # "Modified"} :
              LET later == {k \in Same(queue[j].e) : k > j}
                  first == \A k \in Same(queue[j].e) : k >= j
              IN  queue[j].next = IF later = {} THEN 0
                                  ELSE IF first THEN - Min(later) ELSE Min(later)

\* When a stage is neither deferred nor being flushed no command is left in
\* either of its queues, and no entry still points into a queue that was
\* cleared: the next command of an entity starts a chain (flecs_defer_end).
QueuesDrained ==
    Idle => \A s \in Stages :
        stages[s].defer = 0 =>
            /\ ~ stages[s].cmd_flushing
            /\ \A q \in 0 .. 1 :
                  /\ stages[s].queue[q] = <<>>
                  /\ \A n \in Indices : stages[s].entries[q][n].first = -1

\* An OnSet observer never finds a value older than the one whose set it is
\* notified of, wherever the value was written: at the call, when the batch
\* was copied or by the command itself.
ObserverSeesSetValue == ~ stale_set

\* No command is executed, and no batch continued, for an entity that died
\* after flecs_defer_end read that it was alive; flecs_entities_get asserts
\* that the entity is alive.
NoCommandOnDead ==
    Flushing /\ Top.phase # "read" =>
        Cmd.kind = "Skip" \/ Alive(store, Cmd.e)

\* A flush ends, although the commands of observers keep arriving while it
\* runs, and so does the merge of all stages.
FlushEnds == ~ Idle ~> Idle
=============================================================================
