# Flecs: a TLA+ verification project

This directory holds TLA+ models of the concurrent and stateful core of Flecs
(the C sources under `src/src`), TLC runs that check them on small instances,
and TLAPS proofs for all instances. File references below are relative to the
repository; `entity_index.c` means `src/storage/entity_index.c` and so on.

## 1. Inventory of the system

| Component | State | Operations | Interaction | What is hard |
|---|---|---|---|---|
| Entity index (`storage/entity_index.c`, callers in `entity.c`, `world.c`) | dense array split into alive and recyclable ids, a record per id, `max_id`, id ranges with saved recycled lists | new, bulk new, delete, make_alive, set_version, range_new, range_set | every API call looks up entities here; deleting and creating move slots under each other | slots and records must stay in step; generation wraps; lists move between the index and ranges |
| Stages and command queue (`stage.c`, `commands.c`) | per stage: defer depth, two command queues, per-entity command chains | defer begin/end, suspend/resume, one enqueue function per command, batching, flush | systems write commands on their stage; the frame loop merges | commands of an entity are reordered by batching; a flush runs observers that enqueue again |
| Pipeline threads (`addons/pipeline/worker.c`, frame loop in `pipeline.c`) | mutex, two condition variables, counts of running and waiting workers, flags of the world | progress, set_threads, set_task_threads, fini | main thread wakes workers, waits for them, merges their stages | lost and spurious wakeups, quit flag read outside of the lock, reconfiguration |
| Pipeline schedule (`addons/pipeline/pipeline.c`) | operations (slices of the list of systems with flags), write state per component, position in the frame | build, update after each merge, next system | built from the terms of systems; a merge may change systems and so the schedule | missing merge points, resuming in a rebuilt schedule |
| Deletion and cleanup (`on_delete.c`, `ecs_delete` in `entity.c`) | marked ids with their actions, marks on component records and tables | delete, delete_with, remove_all | runs observers, which defer, and deletes entities while it walks tables | cycles, entities that are deleted while being deleted, marks that must not survive |
| Observers and events (`observable.c`, `observer.c`) | observers per event and id, event id, last event of a multi observer | create, delete, emit, yield existing, enqueue | called from every structural change | nested events, observers fired twice or for dead entities |
| Table graph (`storage/table_graph.c`) | tables by type; cached edges with what they add and remove and who observes it; lists of incoming edges | find or create the next table for an add or a remove, drop the edges of a table or of an id | every add and remove follows an edge; observers and deleted entities change what an edge should say | stale and dangling edges, traits that change several ids at once |
| Tables and component index (`storage/table*.c`, `component_index.c`) | columns and rows, component records | move, clear, delete table | the storage below everything | rows move and the records of moved entities must follow |
| Queries and query cache (`query/`) | compiled operations, matched tables, groups, monitors | match, unmatch, iterate, change detection | told of new and deleted tables by events | stale matches |
| Hierarchies (`non_fragmenting_childof.c`, `ordered_children.c`, `sparse_storage.c`) | child lists, sparse component storage | add, remove, reorder | kept in step with pairs in tables | two representations of one fact |
| Timers and frames (`timer.c`, `frame.c`) | tick sources, rate filters, time spent | progress of timers, time scale | systems take them as tick source | reset and rounding of periods |
| HTTP server (`addons/http/http.c`) and REST (`rest.c`) | connections, queue of requests, ring buffer of replies, cache of replies | accept, receive, enqueue, dequeue, reply, purge, start, stop | server thread, send thread and main thread share one mutex; some reads do without | a purge while the server thread receives, a full ring buffer, a stop at any moment |
| Data structures (`datastructures/`) | vectors, maps, sparse sets, allocators | the usual ones | used everywhere | iterators invalidated by changes |
| Scripts, reflection, JSON, logs, metrics, alerts, statistics, units | parsers, serializers, registered data | - | on top of the public API | string processing |

For each component the properties that make it correct:

* Entity index: a record points at the slot that holds its id; an id is handed
  out at most once until it is deleted; a deleted handle stays dead until its
  generation wraps; ids stay in their range.
* Pipeline threads: every stage runs every multithreaded operation exactly once;
  nobody runs during a merge; every frame, join and reconfiguration ends.
* Pipeline schedule: a merge lies between a staged write and its use; systems
  are run in order, at most once and not skipped.
* Command queue: the flush has the effect of running the commands in order,
  commands for dead entities are dropped, every queued command is executed.
* Cleanup: what the Delete policies reach is deleted and nothing else, no entity,
  table or record keeps a reference to what is gone, no mark survives, trees go
  bottom to top.
* Table graph: an edge connects tables that exist and leads where a fresh lookup
  would lead; adding and removing mean the same whatever was cached.
* HTTP server: a socket has one owner, who closes it once; every connection and
  every stop ends; stopping leaves nothing behind.
* Observers: fired once per event and only for what is there.

## 2. Plan

Modules, the most important behaviour first:

| Step | Module | Composes / abstract specification | State |
|---|---|---|---|
| 1 | `EntityIndex` | implements `EntityHandles`, a set of live handles | modelled, checked, proved |
| 2 | `PipelineWorkers` | implements `ForkJoin`: fork, finish, join, merge | modelled, checked, proved |
| 3 | `PipelineSchedule` | the operations that `PipelineWorkers` leaves open | modelled, checked, proved |
| 4 | `CommandQueue` | a flush against the calls made one by one (`called`) | modelled, checked, partly proved |
| 5 | `HttpServer` | three threads, the connections and the two queues between them | modelled, checked, safety proved |
| 6 | `OnDelete` | implements `CleanupTraits`: the closure of the Delete policies in one step | modelled, checked, partly proved |
| 7 | `TableGraph` | implements `EntityTypes`: adding and removing ids without tables | modelled, checked, partly proved |
| 8 | `CommandQueue`, rest | clone, bulk new, enable, events, hooks, merging into a deferred world; `OnDelete` in place of its two fixed policies | open |
| 9 | `Observers` | order, multi-term observers, yield existing; the reactions of `CommandQueue` | open |
| 10 | `Tables` | rows and component records; abstract: an entity has a set of ids with values | open |
| 11 | `QueryCache` | matched tables and change detection against a match from scratch | open |
| 12 | `OrderedChildren`, `SparseSet`, `BlockAllocator`, `Timers`, `PolyRefcount` | small components, each against its contract | open |

Runs: one per question, with two or three of everything that takes part and one
bound per unbounded counter, as in section 4. Where the code has a disagreement
with its documentation, the passing runs leave out the calls that lead to it, so
that the rest stays checked, and section 4 says how to see it.

Theorems: the inductive invariant of the entity index and what follows from it;
the safety invariants of `PipelineWorkers` for any number of workers and the
refinement of `ForkJoin`; the safety invariants of `HttpServer` for any number of
clients; the safety properties of `PipelineSchedule` for any systems; `QueuesDrained` and
`ChainsComplete` of `CommandQueue` for any calls and observers;
`EdgesConnected`, `DiffsExact`, `EdgesFresh` and `OwnIdObserved` of `TableGraph` and its
refinement of `EntityTypes`; `MarksCleared` and `NoDangling` of `OnDelete` (all of these done, section 5). Next: `FlushedAsCalled` for
calls without observers, then `ChildrenFirst` and `ImplementsTraits` of `OnDelete`. No module uses a `RECURSIVE` operator, so all of
them can be proved about.

## 3. Modules and how they follow the code

### EntityIndex, EntityHandles

`EntityIndex` has the fields of `ecs_entity_index_t` as variables. The slot 0 of
`dense` that the code reserves makes positions of the TLA+ sequence and slots of
the array the same numbers. Pages are left out: `records` is a total function
whose value 0 means that there is no entry, as in `ecs_record_t.dense`. A range
is identified by its `min`, which is unique because ranges do not overlap.
Assertions and `ecs_check`s of the code are guards: the caller does not make a
call that fails them.

Actions: `NewRecycled` and `NewFresh` (the two branches of
`flecs_entity_index_new_id`), `NewIds` (`flecs_entity_index_new_ids`), `Delete`
(`flecs_entity_index_remove` with its three helpers), `MakeAlive`
(`ecs_make_alive`: `flecs_entities_make_alive` and `flecs_entities_ensure`),
`SetVersion`, `RangeNew`, `RangeSetActive`. Two history variables: `retired`,
the deleted handles that a generation still tells apart, and `issued`, what the
last creating call returned.

The constant `RangeDiscipline` says whether the application keeps bulk creation
and `ecs_make_alive` inside of the active range. The code does not enforce it;
`entity_index_bulk` is a run without it, and section 4 says what else happens then.
That recycled ids stay with their range (`RecycledInRange`) does not depend on it.

`EntityHandles` is the abstract specification: a set of live handles that only
changes by calls that name the handle, and creation that never returns a
retired handle. `ImplementsHandles` is the refinement, with `Alive`, the entries
below `alive_count`, as the set of live handles.

### PipelineWorkers, ForkJoin

One variable `pc` per thread. A step is what a thread does between two points
at which another thread can see or change the shared state: acquiring the
mutex, releasing it or waiting on a condition, and the reads of the quit flag
that happen without the mutex. `worker_cond` and `sync_cond` are the sets of
waiting threads; a broadcast or signal empties them. The main thread's part
follows `ecs_progress`, `flecs_run_pipeline`, `flecs_wait_for_sync`,
`flecs_join_worker_threads` and `flecs_set_threads_internal`, with the startup
pipeline that runs before the first frame on one stage. The rounds in which
`flecs_wait_for_workers` (`worker.c:131`) locks, compares and unlocks until all
workers run are one step that is possible when the comparison holds; the rounds
change nothing. How many operations a
pipeline has and which flags they carry is chosen freely, which includes every
schedule that `PipelineSchedule` builds.

`ForkJoin` is the abstract specification: fork an operation to stages, finish,
join, merge.

### PipelineSchedule

`Build` is `flecs_pipeline_build` as a fold over the systems in pipeline order,
with `CheckTerm`/`CheckTerms` for the merge decision and the write state as a
record of the ids written to the stage and to the world, split in exact and
wildcard ids as in the code. `StartFrame`, `RunOp`, `Update` and `EndFrame`
walk the schedule as `flecs_run_pipeline` and `flecs_run_pipeline_ops` do; in
`RunOp` the merge changes the systems. `Resume` and `OpAfter` find the place in
a rebuilt schedule. After a merge the builder checks the terms of the system again and
asserts that no other merge is needed; the model goes on with the write state of that
second check, as a build without assertions does. The matching of ids (`ecs_id_match`) is a constant that the
MC module defines for one pair and the wildcards over it.

### CommandQueue

`stages` holds of each `ecs_stage_t` the defer depth (negative when suspended),
`cmd_flushing`, the two queues with the entries per entity index, and `cmd`, the
queue that is being filled. `store` is what the operations act on: which
indices are alive, their generation and the value of every id. Positions in a
queue start at 1; `next` is `next_for_entity`, with the same sign convention.
A component's value is the number of the call that wrote it, so that two writes
are always told apart, and `Default` is what a constructor leaves.

A flush is not atomic, because a flush can start inside another one: while
stage 1 is merged, `flecs_add_id`, `flecs_commit` and others defer and flush
stage 0. `frames` is the stack of flushes; a frame is at a command `i` and in
one of the phases between which such a nested flush can run. `BatchEntity` and
`BatchCopy` are the two halves of `flecs_cmd_batch_for_entity`; `Discard`,
`RunCommand`, `EnsureComponent` and `MoveValue` are the cases of the switch in
`flecs_defer_end`, the last two being the halves of `flecs_set_id_move`;
`QueueDone` clears the queue and goes round the loop with the other one. A call
that is not deferred is a frame with one command and no stage.

The application: `DeferBegin`, `DeferEnd`, `Suspend`, `Resume`, `ReadonlyBegin`,
`ReadonlyEnd` with `MergeStage` for each stage, `CallDeferred`, `CallNow`,
`CallSuspended` and `New`. Observers are a constant set of rules "event on id,
then this call for the same entity"; their calls go to stage 0, as in the code.
`Trivial` components have neither hooks nor OnSet observers, which makes
`flecs_defer_set` queue different commands.

The history variable `called` is the reference: a second store in which the
calls of one entity run one by one in call order (`Perform`), all calls of a
chain at the time of its batch, and a delete at its own position in the queue.
That is the order the code promises: only commands of one entity are moved
together. `FlushedAsCalled` compares the two stores when nothing is deferred.
It asks for equal values only where a call set one: a component that is removed
and added again within one batch keeps its old value, since the entity is moved
once. `stale_set` records that an OnSet observer found a value older than the
set it was told of.

Left out are the commands named in `PROJECT.json`, and calls that would notify
observers while deferring is suspended. `ecs_delete` is one step: of an entity that
others refer to, the commands that observers deferred while those were cleared would be
flushed in the middle of it (`entity.c:1683`), which `OnDelete` models; no run of
`CommandQueue` has both observers and references to entities.

### HttpServer

One record per thread (`server`, `sender`, `main`) with its place in the code and
its local variables. A step is what a thread does between two points at which
another thread can change what it looks at: a critical section under `srv->lock`,
a system call, or a read that the code makes without the mutex, such as the test
whether a connection is alive before its request is parsed. The main thread holds
the mutex over several steps while it dequeues, so `lock` is a variable; the
critical sections of the other threads are single steps. Parsing is the choice of
what a client sent: a GET, a PUT, an OPTIONS, half a request, an invalid one, or a
hangup.

`files` is the table of descriptors of the process, outside of the repository: the
lowest free one is handed out, so that a descriptor that was closed soon belongs
to another connection. That is what makes a close at the wrong moment visible:
`misuse` is a history variable with the kinds of use of a descriptor that was not, at
that moment, what the thread meant. Descriptor 0 is a file of the application; it is
also what the thread finds in the zeroed element of a connection that was removed.

A preflight request is answered without the mutex, in three steps: `PreflightSend`,
`PreflightClose` and `PreflightClear`, since `http_close` closes the descriptor before
it writes to the connection. Nothing keeps the main thread from purging the connection
at any of these steps (`http.c:1276`), and then the socket of another connection, or
descriptor 0, is used or closed, or one is closed twice. That is `PreflightPurged`,
cause `"preflight"` in `misuse`, the one exception the properties make; such a run goes
on in the model, and only the properties say nothing about it. The thread's end
(`ServerDone`) closes the listening socket once more after `ecs_http_server_stop` did,
unless `errno` is `EBADF`, which depends on what the interrupted `accept` reports; that
is cause `"listener"`, which `NoStrayClose` names too. In the instance nobody opens a
file between the two closes, so the other properties hold all the same.
`conns`, `requests` and `queue` are `srv->connections`, `srv->requests` and
`srv->send_queue`; a connection is named after its client, which stands for the
id with generation that the code compares. The purge timeout passes somewhere
between `PurgeRetries` and `PurgeSurely` dequeues. `OneOwner` says who will close
a descriptor: the server thread before it has registered the connection and while
it gives up, the connection, a slot of the queue, or the send thread. Left out: a
thread that cannot be created (`http.c:1405`), and, of a request that the application
makes itself (`EmulatedRequest`, a call of the main thread, also while the server is
stopped), everything but that it may fill the cache.

### OnDelete, CleanupTraits

A table is the set of ids of its entities, an id a pair of numbers (a tag or
component has no target). `flecs_component_mark_for_delete` and
`flecs_target_mark_for_delete` call each other; the recursion is the stack `work`,
with one kind of item per place to which the code returns, in the code's order,
and with tables and rows in any order. `MarkId`, `MarkTable`, `MarkEntity` and
`MarkRest` are the pieces of the two functions, `ClearEntities` is
`flecs_on_delete_clear_entities` for one marked id, `SkipId` and `ClearId` are
`flecs_on_delete_clear_ids` for one, which walks the marked ids twice, wildcards the
second time. `flagged` and `doomed` are the marks on
records and tables. While tables are cleared an OnRemove observer may defer an
add, which is merged (`Merge`) before `ecs_delete` removes the entity itself
(`Finish`). A Panic is the end of the behaviour (`abort`): `ecs_throw` and `ecs_check`
abort the process unless the build defines `FLECS_NDEBUG` or `FLECS_SOFT_ASSERT`
(`include/flecs/addons/log.h:540`);
with it the walk would go on, which is not modelled.

`CleanupTraits` says what the traits mean without tables: one step deletes the
least set that the Delete policies do not leave and removes every id that mentions
it from the rest, and is not possible when an entity that stays has an id that a
Panic policy protects. The refinement shows the old world until the operation has
finished.

Left out: id flags, value pairs, ids in sparse and non-fragmenting storage,
`Parent`, tables that are kept, locks of queries, and type info.

### TableGraph, EntityTypes

A table is again the set of its ids. An edge is found by its kind, the table it
leaves and its id; `edges` holds where it leads and the cached
`ecs_table_diff_t` with its two observer flags, `refs` the lists of incoming edges
by which `flecs_table_clear_edges` finds what to drop. `AddId` and `RemoveId` are
`flecs_add_id` and `flecs_remove_id`: take the edge or create it
(`FindTableWith`, `FindTableWithout`, `ComputeTableDiff`), then `Commit`. The
traits are constants: exclusive relationships, With, IsA with components that the
base overrides, and ids that do not fragment tables, whose entities are in
`sparse` and whose edges lead from a table to itself. `DeleteEmptyTable` and
`Recycle` drop tables and records with their edges, `CreateObserver` flags the
edges that exist.

`EntityTypes` says what adding and removing means for the ids of an entity, with
nothing cached. `ImplementsTypes` asks for more than the refinement: the step that
adds an id is the abstract addition of that id, not just some abstract step.
`missed` and `spurious` are history variables: what an observer should have been told
and was not, and what it was told although it had not happened, according to `Told`,
the two loops of `flecs_actions_on_add_intern` and `flecs_actions_on_remove_intern`
with `flecs_emit`, which skips ids that the table does not have.

Left out: the array for low ids, which is another place to keep an edge, ChildOf
and Prefab, Parent, overrides that a trait asks for, ids that are both exclusive
and non-fragmenting, observers of any event, other id flags, bulk creation. `HasFlag`
asks for the observers that exist; a pair's record of the code also inherits the flags
that `(R, *)` has when the pair is first used (`component_index.c:541`) and keeps them
when the observer goes, which makes the code test more often and notify nobody else.
Bounds of `Recycle`: no table has two pairs with the deleted entity, and no
observer is about it.

## 4. Runs

| Run | Question | Bounds |
|---|---|---|
| `entity_index` | safety of the index and the refinement | 3 ids, generations 0..1, bulk of 2: enough for two ranges and a third id between them, for swaps of different slots and for a generation that wraps |
| `entity_index_bulk` (violation) | do operations that create ids stay in the active range? | the same, with `RangeDiscipline = FALSE` |
| `workers` | safety, termination of every frame, join and reconfiguration, refinement of fork and join | up to 3 workers or tasks, 2 operations per pipeline, any number of frames and reconfigurations |
| `pipeline` | do operations cut the schedule with merges where they are needed, and is every system run once and in order when merges change systems? | every choice of 3 systems out of 9 descriptors, each active, inactive or absent; frames with 2 changes of systems for the choices out of 3 descriptors |
| `commands_values` | one stage: do the store and the observers see the values that were set? | 2 entities, 2 components, one of them trivial, 3 calls of 7 kinds and the calls of 2 observers |
| `commands_cleanup` | deletion of entities and targets, recycled indices, suspended calls: is batching invisible, are chains complete, is no command run for a dead entity? | 2 entities, one the target of a deleting and a removing pair, 3 calls of 7 kinds, nesting 2, an index reused once |
| `commands_stages` | two stages merged in turn, with nested flushes of stage 0: is batching invisible, are queues empty, does every flush and merge end? | 2 stages, 3 calls of 4 kinds, 2 observers that react to each other |
| `commands_dead_parent` (violation) | is no command run for an entity that its own batch deleted? | 3 calls |
| `http_server` | has every socket one owner, do all connections and stops end, is nothing left after a stop? | 2 clients with one message each, a ring buffer with one free slot, 2 starts, a purge as early as the first dequeue and at any step of the server thread |
| `on_delete` | does a deletion do what the traits promise and leave neither marks nor dangling references? | 7 entities, 3 of them relationships and 1 the prefab tag; every world with up to 2 of 21 possible ids and one added later; one deletion with up to one deferred add |
| `table_graph` | are cached edges neither stale nor dangling, do they report what they change, and is caching invisible? | 9 entities, of which one changes, 5 ids with every trait and 2 wildcards, 5 operations |
| `table_graph_observers` (violation) | are observers told of every id that comes and goes? | the same |

Three calls are what a chain with a first, a middle and a last command needs,
or a chain of two and a command of the other entity between or before them;
every reaction of an observer comes on top. A second entity suffices since a
chain only concerns one entity, the other one being the target of pairs or the
one whose commands change places with it. The passing command runs leave out
the combinations that lead to the disagreements listed below: in `commands_cleanup` no
value is set, so that the first command of a batch that deletes its entity is
always one that the batch absorbs, and only the removing pair is removed; in
`commands_stages` an emplaced component is not set or removed by the
application; in `commands_values` nothing but a set leads to a reaction that sets.

Two clients are enough for a descriptor that is used again by the other one, and
for a ring buffer that is full when the second reply comes. The run's messages are a
GET, an OPTIONS and a hangup; a PUT goes the way of a GET that is not in the
cache, and half a request leaves the connection to the purge as a hangup does, so
that adding them multiplies states and no new step appears. Two ids of three
entities and one more make cycles of two parents, a chain of two children, two
pairs that meet at one target, and an id that is kept alive by a prefab; a second
deletion starts from a world like the first one, as `NoDangling` and
`MarksCleared` say. Five operations are what it takes to cache an edge, delete and
recycle what it is about, and come back to it.

In `pipeline` systems whose descriptors are all in `Changing` start out active, since
merges and frames lead from there to every other status; in the other choices systems do
not change, and an absent one has one descriptor for all (`MCInit`).

Each violation is a disagreement between the code and a comment, assertion or
document of the repository; `PROJECT.json` quotes the lines.

### Other disagreements met while modelling

No run is listed for these, either because the code does on purpose what the
document denies or because a variation of a listed run shows them:

* `entity_index` with `RangeDiscipline = FALSE` violates `RecycledOnce` as well:
  `ecs_make_alive` of an id that waits in the list of an inactive range leaves it
  in that list. Activating the range then fails the assertion at
  `entity_index.c:365`, `r->table == NULL`, or, in a build without assertions,
  gives one id two slots.
* `workers` with `SPECIFICATION SpuriousSpec` violates `WorkersRunInsideOp`:
  `flecs_wait_for_sync` (`worker.c:153`) waits inside an `if`, so a wakeup without
  a signal lets the main thread go on while workers run. The comment at line 157
  says "We shouldn't have been signalled unless all workers are waiting on sync",
  but a condition variable may wake up without a signal.
* `flecs_set_threads_internal` (`worker.c:266`) frees `worker_cond` without
  clearing it, and `pipeline.c:614` takes the pointer as the sign of threads: in
  a world that is set back to one thread a multithreaded system still runs with
  `EcsWorldMultiThreaded`.
* A system with a term that writes a component on its stage and a later term
  that reads it there, as the descriptor `SelfReader` of `pipeline` has, fails the
  builder's own assertion at `pipeline.c:354`, "The component states were just reset,
  so if we conclude that another merge is needed something is wrong." The run has such
  systems and follows a build without assertions: the schedule is right for the systems
  around them, and no merge can come between two terms of one system.
* `pipeline` with a system that reads `(*, *)` next to one that writes `(R, *)`
  violates `MergeBeforeUse`: `flecs_pipeline_get_write_state` (`pipeline.c:80`)
  does not relate two different wildcard ids.
* `pipeline` with `AllMayLeave = TRUE` violates `NoSystemSkipped`: when a merge
  removes all systems that ran, `flecs_pipeline_build` does not assign the
  position (`pipeline.c:449`) and the old index is used on the new schedule. The
  comment at 572 says "so we know from where to resume the schedule in case the
  schedule changes during a merge".
* `flecs_pipeline_build` inserts merges for inactive systems, on purpose (comment
  at `pipeline.c:336`); `docs/Systems.md:1113` says that they are ignored.
* `commands_cleanup` with the call remove of `ChildOf` violates
  `FlushedAsCalled`: the test at `commands.c:887`, "Check if added id is still
  valid", is also made for removes, so removing a pair that the entity does not
  have deletes the entity when the target is gone.
* `commands_values` with the call emplace of `C` violates
  `ObserverSeesSetValue` and `FlushedAsCalled`: an
  emplace is not batched (`commands.c:923`), so its value replaces that of a
  later set, and the component survives a later remove.
* `commands_values` with the call modified of `C` violates `FlushedAsCalled`, and
  without trivial components `ObserverSeesSetValue`: with one stage a set by an
  observer writes the component at once (`commands.c:492`), a remove further on
  in the flushed queue destroys the value, and OnSet reports the default.
* With one stage a deferred set of a component that the entity has changes the
  value at the call (`commands.c:546`); `docs/Manual.md:330` says that the
  effects "will not be visible until the `ecs_defer_end` operation".
* `http_server` without `PreflightPurged` in `NoStrayClose`, `OneOwner`,
  `RequestHasConnection` and `StoppedClean` is violated: the reply to an OPTIONS request
  is sent without the mutex (`http.c:906`), and if the main thread purges the connection
  meanwhile the socket is read from a zeroed element, so that descriptor 0 is closed, or
  a descriptor that was closed and handed out again. No document promises otherwise.
* `http_server` without `"listener"` in `NoStrayClose` is violated:
  `http_accept_connections` closes the listening socket, which `ecs_http_server_stop`
  closed before, once more when `errno` is not `EBADF` (`http.c:1124`). If the
  application opened a file in between, that file would be closed.
* `http_enqueue_request` reads `conn->pub.server` before it takes the mutex
  (`http.c:475`); `ecs_http_server_http_request` uses the cache without the mutex and
  answers a PUT from the cached GET.
* `on_delete` with `OnDeleteRemove = {5}` violates `ImplementsTraits`: an explicit
  `(OnDelete, Remove)` is obeyed for tables that another policy marked for
  deletion (`on_delete.c:564`), while the comment at 122 says that Delete takes
  precedence.
* `on_delete` with `BulkIds <- MCBulkWildcards` violates `MarksCleared`: an
  `ecs_delete_with` of a wildcard leaves the records of its pairs marked
  (`on_delete.c:389`), and only the wildcard's own mark is taken back; the comment
  at 697 says that ids that are not deleted are unmarked.
* `on_delete` with `DyingTargets = TRUE` violates `NoDangling`: an observer may add
  a pair to the entity that is being deleted, which is merged before that entity
  is gone (`entity.c:1683`); `docs/ComponentTraits.md:129` says that a reference
  to a deleted entity is always cleaned up. Likewise an `ecs_delete_with(c)` whose
  cascade deletes `c` itself leaves the record of `c`.
* A Panic policy is lost when another pair of the same entity with the same target
  has a higher relationship id, since the last pair decides
  (`flecs_get_delete_action`); the instance gives the panicking relationship the
  highest id.
* "Bottom to top" (`on_delete.c:534`) holds for plain trees only, which is what
  `IsTree` says; with a second relationship between the entities the order of
  marking is no longer that of the tree.
* `table_graph` with `KnownIds = {}`, which breaks `TraitsKnown`, violates
  `ImplementsTypes`: a remove of an id
  that has no component record yet caches an edge that does nothing, because
  `flecs_find_table_without` cannot see the trait without a record, and a later
  remove of the non-fragmenting id then has no effect. `include/flecs.h:3198` says
  "If the entity does not have the component, this operation will have no side
  effects."
* `table_graph` with `INVARIANT OnlyChangesHeard` is violated: creating an observer
  gives cached edges a diff (`table_graph.c:1385`), also an edge from a table to
  itself, which is linked when the table is flagged for non-fragmenting ids. An entity
  with `(R, a)` and a non-fragmenting id adds `(R, a)` again, which caches the edge;
  after an OnAdd observer for `(R, *)` is created, adding `(R, a)` once more calls it.
  `docs/ObserversManual.md:134` says "An event only fires when the component is
  actually added to the entity, so not on each `add` operation."
* `table_graph` with an arc of `With` to a non-fragmenting component, which breaks
  `TraitsApart`, violates `ImplementsTypes`: `flecs_add_with_property`
  (`table_graph.c:1038`) leaves that component out of the new table and nothing else
  adds it, nor does anything come along with a non-fragmenting one, while
  `docs/ComponentTraits.md:2076` says of a component with `With` "that it must always
  come together with another component".
* Further cases of edges that outlive what they were computed from, found by
  reading and not modelled: an override that is added to a base after the edge of
  `(IsA, base)` was cached; a parent that becomes a prefab after the edge of
  `(ChildOf, p)` was cached; observers of `EcsAny` or of every event.

Deadlock is checked in every run but `on_delete` and `table_graph`, whose number
of operations is bounded: an index, a world, a pipeline and a server can always
take another step, and `Stopped` is the only step of a world that is gone.

### Fairness

`PipelineWorkers` assumes weak fairness of the main thread's steps and of each
worker: the operating system schedules every thread that can run, and hands a
free mutex to a thread that waits for it (the mutex is free again after every
critical section, and `MainReturns` holds although only weak fairness is
assumed). Nothing is assumed of the application, which need never start a
frame. `PipelineSchedule` assumes that the main thread keeps running, and
`CommandQueue` that a flush or a merge that has begun goes on, since it is a
function that the calling thread runs to its end. `OnDelete` assumes the same of
a deletion.

`HttpServer` assumes weak fairness of the server thread, of the send thread and
of the main thread's dequeues and joins (an application that runs the server
calls `ecs_http_server_dequeue` every frame), and strong fairness of the steps
that take the mutex, which is free for most of the time: the main thread takes it
at most every `ECS_HTTP_MIN_DEQUEUE_INTERVAL`. Nothing is assumed of clients, of
the age of the cache, or of when the server is started and stopped.

## 5. Proofs

Seven modules hold the theorems about the models: `EntityIndexProofs`,
`PipelineWorkersProofs`, `PipelineScheduleProofs`, `CommandQueueProofs`,
`HttpServerProofs`, `TableGraphProofs` and `OnDeleteProofs`. Each extends the module
it is about, defines the parts of an inductive invariant `IndInv`, has one lemma per
action which shows that the action preserves it, part by part, and derives the
theorems from it. `IndInv` was checked with TLC on the instance of the module's run
before it was proved. The eighth, `Induction`, is about loops.

### Induction

The models write the loops of the code as `FoldLeft`, whose definition chooses a
function that satisfies a recursive equation. To reason about a loop one needs that
such a function exists and an induction along it, and the library's induction
theorems take an operator as a parameter, which the installed provers cannot
instantiate. A module with an operator constant can be instantiated: `Induction` has
the constants `Step`, the body of the loop, and `Inv`, its invariant, each with a
parameter for what the loop refers to (`ctx`), and a proofs module takes one `INSTANCE`
of it per loop. It proves that a non-empty set of numbers has a least element
(`LeastNumber`, from the pigeonhole facts about finite sets), from that induction
over the numbers up to n (`Upwards`), that the function exists (`FoldExists`), and
`FoldInvariant`: an invariant that every step of the loop keeps holds of its result.

### EntityIndexProofs

It proves, for all values of `MaxId`, `MaxGen` and `MaxBulk`:

| Theorem | Hypothesis | Statement |
|---|---|---|
| `IndInvHolds` | `RangeDiscipline` | `Spec => []IndInv` |
| `TypeCorrect` | `RangeDiscipline` | `Spec => []TypeOK` |
| `DenseAndRecordsAgree` | `RangeDiscipline` | `Spec => []DenseRecordsAgree` |
| `RecycledIdsKeptApart` | `RangeDiscipline` | `Spec => []RecycledOnce` |
| `FreshIdsAreUnused` | `RangeDiscipline` | `Spec => []FreshIdUnused` |
| `DeletedStaysDead` | `RangeDiscipline` | `Spec => []NoResurrection` |
| `IndexImplementsHandles` | `RangeDiscipline` | `Spec => ImplementsHandles` |
| `SearchIsRight` | `RangeDiscipline` | `Spec => []SearchFindsRange` |
| `RecycledStaysInRange` | | `Spec => []RecycledInRange` |

The argument. None of the properties is inductive. `FreshIdUnused` speaks about
the active range, but a range switch makes another range active, so the
invariant has to say for every range that what it handed out lies at or below
its last id (`UsedBelowLast`, with `LastIssued` picking `max_id` or the saved
`cur`). `NoResurrection` speaks about entries that are alive, but a handle is
revived by recycling, so the invariant says that the generation waiting for an
id, in the index or in the list of a range, lies above that of every retired
handle (`RetiredBehind`). Both need to know that an id is in one place only
(`RecycledOnce`, `RecycledInRange`, `RangesDisjoint`), and all of it needs slots
and records to agree. `IndInv` is the conjunction. There is one lemma per action (`NewFreshInv`,
`DeleteActiveInv`, `RangeSetInv`, ...), resting on lemmas about what a swap, an
append and a dropped last slot do to `Agree`.

`SearchIsRight` is about `flecs_entity_index_find_range`, the loop by which a deleted
id is returned to its range. A second invariant, `RangesSorted`, says that the ranges
lie in the order of their minimum without overlap: `range_new` inserts at the place
the minimum gives and refuses an overlapping range (`InsertSorted`). In a sorted
sequence one comparison decides for one side of the window (`OneSide`), so one turn
of the loop is right if the rest of the search is (`TurnFinds`), and the search as a
whole follows by induction on the size of the window (`SearchRight`, through
`Upwards` of `Induction`).

`RecycledStaysInRange` also holds when bulk creation and `ecs_make_alive` leave the
active range, where `IndInv` is false: an id may then be in a slot and in the list of its
range, and ids in use have nothing to do with the active range. It has an invariant of
its own, `LooseInv`, which says less about slots and records, namely only that a record
finds a slot with its id, and that the slots behind `alive_count` and the saved lists
hold ids of their range. Deleting keeps it because `flecs_entity_index_remove` asks for
the range of the id and not of the moment, and bulk creation only writes over slots of
its own.

Assumptions: the four named `ASSUME`s of `EntityIndex` on its constants.

### PipelineWorkersProofs

For every `MaxStages >= 1` and every `MaxOps`, so for any number of worker threads
and any length of a pipeline:

| Theorem | Statement |
|---|---|
| `Invariance` | `Spec => []IndInv` |
| `WorkersInsideOp` | `Spec => []WorkersRunInsideOp` |
| `StagesRanOnce` | `Spec => []EveryStageRanOnce` |
| `FreedSyncUnused` | `Spec => []NothingUsesFreedSync` |
| `ForkJoinImplemented` | `Spec => ImplementsForkJoin` |

The argument. All four say that the main thread knows where the workers are, and
all it looks at are two counters. The invariant gives the counters their meaning:
`workers_running` is the number of threads between the end of their start-up and
their exit, and `workers_waiting` is the number of threads on `worker_cond` as
long as an operation is forked (`Counts`). When a counter equals the number of
workers, the set that it counts has as many members as the set of all workers and
is that set (`AllReady`, `AllWaiting`, from `FS_Subset` of `FiniteSetTheorems`).
For the counters to be right the threads have to be in the right places:
`ThreadsPlace` (which threads exist, depending on the frame, on
`ecs_set_threads` and on the temporary return to one stage at startup),
`MutexPlace` (who holds the mutex), `WorkersPlace` (where a worker can be while an
operation is forked, while threads are joined, and otherwise), `FlagsPlace` (the
flags of the world during an operation), `SyncPlace` (no signal is lost: the main
thread waits on `sync_cond` only while a worker has yet to come) and `RanPlace`
(who ran the operation). The refinement maps every step to a step of `ForkJoin`
or to a stutter; it is the safety part, which is all that `ForkJoin` states.
`SpuriousSpec`, where a condition variable may wake up without a signal, is
outside of these theorems: section 4 says what happens then.

### PipelineScheduleProofs

For any systems, descriptors, terms and changes of the systems by merges:

| Theorem | Hypotheses | Statement |
|---|---|---|
| `Invariance` | | `Spec => []IndInv` |
| `TypeCorrect` | | `Spec => []TypeOK` |
| `Cutting` | | `Spec => []OpsCutSchedule` |
| `MergesBeforeUse` | `NoLostWrite`, `NoCrossing` | `Spec => []MergeBeforeUse` |
| `NoneSkipped` | `~ AllMayLeave` | `Spec => []NoSystemSkipped` |
| `InPipelineOrder` | `~ AllMayLeave` | `Spec => RunsInOrder` |

The argument. `flecs_pipeline_build` is a loop over the systems with a loop over the
terms of each inside; both are folds, with the loop invariants `LoopInv` and
`PassInv`. The inner one gives what a system adds to the write state and whether
one of its terms needs what was written before (`CheckTermsIs`). The outer one says
that the systems that were looked at are cut into pieces with the same flags
(`Cut`), are in the order of the query (`InOrder`) and are the active ones
(`Scheduled`), and that the operation under construction knows every write of its
systems, none of which a later system needs (`OpenMerged`, `Merged`). The schedule in
the state is always the one that the loop builds, or, before a merge has been
noticed, the one it built from the systems before (`ScheduleInv`). For the walk,
`FrameInv` says that a system which was active all the time and comes before one that
ran has run too, and `WalkInv` that the walk stands behind all systems that ran and
has left out none of the steady ones; after a rebuild `Resume` finds a place of which
this is true.

The hypotheses. `NoLostWrite`: no two terms on the entity itself stage components that
match, because after the first one `flecs_pipeline_check_term` returns for the second
before it records the write. Systems that read back from the stage what they put there
are not excluded. `NoCrossing`: a wildcard that is needed matches each wildcard that is
written and shares a component with it. And a merge leaves at least one of the systems
that ran (`~ AllMayLeave`). Section 4 shows that the last two are needed.
`MCPipelineSchedule` has TLC check that the run satisfies the first two
(`HypothesesHold`). Assumptions: that the query yields each system once and that
descriptors have flags and a list of terms (`SystemsAssumption`,
`DescriptorsAssumption`), and that a component which is not a wildcard matches
only itself and wildcards (`IdMatchAssumption`).

### CommandQueueProofs

For any number of stages, entities, ids, calls and nested `ecs_defer_begin`s, whatever
is called and whatever observers do:

| Theorem | Statement |
|---|---|
| `Invariance` | `Spec => []IndInv` |
| `QueuesStayDrained` | `Spec => []QueuesDrained` |
| `ChainsStayComplete` | `Spec => []ChainsComplete` |

The argument. In the queue that a stage fills (`Chains`), an entry spans the chain of
the newest handle of its index (`EntryOK`): it starts at the first command of the
chain and ends at the last one, so that a command that is linked to the end of the
entry is linked to the last command of its entity. An entry of another generation is
recognized by the handle in the last command; since the generations in a queue are at
most the one in the store and only grow, the chain of an older handle is never
continued. When the queues are swapped, the entries of the queue to be filled have to be
clear, although nothing in the flush clears them as a whole: the entry is invalidated by
the first command of its chain. `FlushAt` says that it is still to come: every entry of the
queue that is being flushed belongs to a command at or after the position of the flush
(`ToCome`), whatever was skipped, batched or turned into another kind, so that at the end
of the queue all are clear. `FramesOK` says that for each stage that is flushing there is
one frame, and only one, so that nested flushes work on other queues. `Drained`
is what the swap at the end of `flecs_defer_end` is for: a stage that is neither deferred
nor flushing has nothing in the queue that it fills.

A step of a flush notifies observers, which enqueue on stage 0 while it is flushing
another stage or the same one, and may start another flush. So a step is
proved through the worlds in between: `Queued` is the relation between a world and what
reactions make of it, `Beside` the part of it that leaves the flushed queue alone,
`ReadyFor` says that the flush may go on at a position, and `Sound` that all of the
invariant holds. The loops over the events, the removed and added ids, and the chain in
its two walks have an instance of `Induction` each (`Reactions`, `Removals`, `Additions`,
`Batches`, `Copies`).

Assumptions: the named `ASSUME`s of `CommandQueue`: one or more stages, finitely many
indices and ids, that calls are operations on ids, that a call made while
deferring is suspended sets no value, and that a relationship has one policy for targets
that are deleted, which the batch and the command both ask for.

### HttpServerProofs

For every finite set of clients and every size of the ring buffer of replies of
at least 2, without further hypotheses:

| Theorem | Statement |
|---|---|
| `Invariance` | `Spec => []Inv` |
| `NoStrayCloses` | `Spec => []NoStrayClose` |
| `DescriptorsHaveOneOwner` | `Spec => []OneOwner` |
| `RequestsHaveConnections` | `Spec => []RequestHasConnection` |
| `StopsClean` | `Spec => []StoppedClean` |

The argument. A close is right when the descriptor still belongs to the connection
that the thread means, although the descriptor may have been closed and handed out
again since the thread last held the mutex. The invariant says for every place that
holds a descriptor what the table of descriptors has there: the connections
(`ConnPlace`), the part of the ring buffer that is in use (`QueuePlace`), the
message that the send thread took out (`SenderPlace`), the local variables of the
server thread (`ServerPlace`), the listening socket and the server thread's copy
of it (`ListenPlace`); and the other way round, that every open descriptor of a
client is in one of these places (`FilesPlace`). A client is in one place at a
time: `ServerPlace` and `QueuePlace` exclude the others, and `RequestPlace` gives
every request its own connection. `ThreadsPlace` says how far the three threads
are from one another while the server stops, which is what `StopsClean` needs, and
`RepliesPlace` that nobody is answered twice. Two sets of lemmas support this: which
slots lie between `tail` and `head` after a put or a get, with indices modulo the
size (`PostSlot`, `TakeSlot`), and that a descriptor is free whenever one
is needed, by counting (`FreeFdExists`: there are more descriptors than clients).

A purge may strike while a preflight request is answered, and nothing is promised about
what follows a descriptor that was misused because of it. So the invariant is
`Inv == PreflightPurged \/ IndInv`: `misuse` only grows (`MisuseGrows`), and a step from
`IndInv` that does not lead to `PreflightPurged` leads to `IndInv`. That is not a
matter of the purge alone: the server thread may be between two steps of its answer
when its connection goes, and the lemma `PurgedConn` says that in that case the very next
step, or the purge itself, is recorded as misuse, so that no state in between escapes the
invariant. `FewMisuses` says that nothing but the second close of the listening socket
is ever recorded otherwise. The properties are stated with the same exception, and the
proofs need no assumption about when connections are purged.

### TableGraphProofs

For all entities, traits, ids, observers and numbers of operations:

| Theorem | Statement |
|---|---|
| `Invariance` | `Spec => []IndInv` |
| `GraphConnected` | `Spec => []EdgesConnected` |
| `ObserversOfOwnId` | `Spec => []OwnIdObserved` |
| `DiffsAreExact` | `Spec => []DiffsExact` |
| `EdgesStayFresh` | `Discipline` implies `Spec => []EdgesFresh` |
| `TypesImplemented` | `Discipline` and `TraitsApart` imply `Spec => ImplementsTypes` |

The argument for the first two. An edge is created between the table of an entity and a table that
was found or created, so `IndInv` says that entities are in tables that exist
(`TypesHaveTables`); deleting a table follows the lists of incoming edges, which
`EdgesConnected` itself says are complete. `OwnIdObserved` depends on the component
records: a new observer flags the edges of the tables of the records that match its
pattern, so that the ids of a table have to have records, and wildcard records too
(`TablesHaveRecords`), and a remove edge that leads elsewhere has to leave a table
with an id that matches (`RemoveEdgesRemove`). The attempt to prove it changed the
property: `OwnIdObserved` used to speak of every add edge that leads to another
table, which is false for an exclusive relationship with `With`. Adding a pair that
the entity has, after the id that comes with it was removed, leads to another table
and adds nothing but that other id. It now speaks of edges that add their own id.

`DiffsExact` needs `DiffInv`: an edge without a diff reports its own id
(`UncachedEmpty`), an edge for a non-fragmenting id never leaves its table
(`NonfragLoops`), which for a remove edge follows from `TablesHaveRecords`, and the
test for trivial edges (`Trivial`) only lets through edges that add or remove exactly
their id. That last step made the model follow the code more closely: the code tests
whether the one id that comes or goes is the edge's own only while the other table has
a higher id left, and the model had tested it always. The weaker test suffices, except
for an add edge whose id the table has already, which `DiffsExact` leaves out.

`EdgesFresh` needs `FreshInv`. The next table is a function of the table, the id and
what does not change, apart from the non-fragmenting ids that are left (`Found`,
`FindIs`), as long as `Grounds` holds: bases have the ids they had (`BasesHold`) and
non-fragmenting ids have their trait records (`TraitsSeen`). When an entity is deleted
and its number used again, the table would change for edges of that id alone
(`FoundStays`), and those edges are dropped, since the records know every table that
has one (`EdgesVisited`). That TLC accepted the property on the instance did not make
it true. It used to say also that an edge whose diff names its id and that stays
within its table is for a non-fragmenting id. The proof attempt failed, and a larger
instance showed why: the remove edge of an id whose number is used again for
one that fragments tables may lead back to its table, and an observer that is created
then gives it a diff, which is harmless, because `flecs_emit` skips the ids that a
table does not have. The other half of the same story, an add edge, is not harmless:
section 4 has it under `OnlyChangesHeard`.

The hypothesis `Discipline` has three parts, which `MCTableGraph` assumes and TLC
evaluates (`HypothesesHold`): what the application inherits from is not changed or
deleted afterwards (`BasesStay`), nor is what comes along with an id (`WithStays`), and
non-fragmenting ids have component records from the start (`TraitsKnown`). None is
enforced by the code; section 4 says what happens otherwise.

`TypesImplemented` is the refinement of `EntityTypes`, step by step. A fourth
invariant, `TypeInv`, keeps the two storages apart: ids that do not fragment tables
are in no table (`PlainTables`), their edges stay within a table that has the flag and
have a diff with that id and nothing else (`NonfragEdges`), other edges have none of
them in their diffs (`OtherEdges`), and sparse storage has no others
(`SparseOfSubjects`). So an operation either moves the entity or changes one entry of
sparse storage (`OperateMeans`), and since the edge is fresh, what is left is to compare
one lookup with one abstract step: `ImpliedIs` and `AddedIs` for With, overrides of the
base and exclusive relationships, `AddMeans`, `RemoveMeans` and `RecycleMeans` for the
steps. What an instance inherits is computed from the ids of all entities in the one
and from those of the bases in the other; `ReachDepends` says that only what can be
reached from the base matters.

The refinement has a further hypothesis, `TraitsApart`, also evaluated by TLC: ids that
do not fragment tables take no part in With, IsA and overrides, because
`flecs_find_table_with` returns before it gets there, and `flecs_add_with_property`
and `flecs_add_overrides_for_base` leave them out (overrides of that kind are added
when a prefab is instantiated, which is not modelled); and exclusive relationships are
added with a target. Without the first part the refinement is false, see section 4.

Assumptions: `TraitsAssumption` and `EntitiesAssumption`, that the entities which
change are entities and that each has a type at first.

### OnDeleteProofs

For all entities, ids, traits, worlds, observers and numbers of operations:

| Theorem | Hypotheses | Statement |
|---|---|---|
| `Invariance` | `PlainBulk` | `Spec => []IndInv` |
| `MarksAreCleared` | `PlainBulk` | `Spec => []MarksCleared` |
| `NothingDangles` | `PlainBulk`, `Discipline` | `Spec => []NoDangling` |

The argument. Marking is a depth-first traversal that stops at whatever is marked
already, so the invariant says of every mark and of everything that will go why it
is in good hands at that moment. `MarksPlace`: a record or a table that is marked has
a marked id that covers it and that is still to be released (`Pending`, which follows
the two passes of the release: normal ids, then wildcards). When the second pass is
over nothing is pending, so there are no marks. `DeadPlace`: an entity that is dead,
or in a table that is doomed, is either on the stack to be visited, or each of its
three records (the component, the relationship, the target) is `Assured` to go: it
does not exist, is marked for deletion, or is on the stack to be marked. When the
traversal meets a record that is already marked the mark has to be one that deletes
the record; that is `FlaggedAssured`, and it is where `Discipline` is needed: the mark
of an `ecs_delete_with` only clears. `OpPlace` says the same of the entity that
`ecs_delete` was called for, whose records go with the calls that are left. For a
record to be deleted its tables have to be empty: `WorkPlace` says that the tables of
an id that was cleared stay empty (`Emptied`), since an entity that moves loses all
that is marked and not only the id that is being cleared. `StorePlace` says that
tables have their records and pairs the records of their wildcards; releasing a
record keeps it, because every table and every pair that needs the record goes with
it (`CoversMatch`, `MatchCovers`).

The hypotheses are the ones that section 4 shows to be needed: `PlainBulk` says that
`ecs_delete_with` and `ecs_remove_all` get no wildcard, `Discipline` that observers
do not refer to the entity that is being deleted and that nobody deletes with a
component that itself has ids. The run `on_delete` satisfies both. Assumptions:
`EntitiesAssumption`, `BoundsAssumption` and `IdsAssumption`, that entities are
finitely many positive numbers and that what the application adds and deletes are ids.

### What is only model-checked

* Liveness (`MainReturns`, `ConnectionsEnd`, `StopReturns`, `FlushEnds` and the
  others) and the fairness it needs: out of the prover's reach.
* `ChildrenFirst` and `ImplementsTraits` of `OnDelete`: the order in which a tree
  was marked, and the least set that the Delete policies do not leave, would have to
  be related to the stack of the traversal.
* `FlushedAsCalled` of `CommandQueue` needs that calls of different entities commute
  and that the batch of a chain amounts to its calls, with the reactions in between.
  `ObserverSeesSetValue` and `NoCommandOnDead` hold for the calls and observers of the
  instances and not for all: section 4 has the exceptions.

## 6. Not modelled

The parts that `PROJECT.json` lists as `not_modelled`, with a reason each. In
short: string processing (scripts, JSON, reflection, names, the text of HTTP
messages), floating point (statistics, metrics, frame times), registration of
fixed data, and the components that the plan schedules for later. Within the
modelled parts: pages of records, memory allocation, time measurement, logging,
and the user code of systems, of which only the effect on shared state is
modelled; what else a module leaves out is named in section 3 and in its
component's note.

Most lines of the repository are copies: `distr/flecs.c` is the amalgamation of
`src/src`, and `bench/` holds a few dozen patched copies of that amalgamation. The
models refer to the original files only.
