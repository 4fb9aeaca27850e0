-------------------------- MODULE PipelineWorkers --------------------------
(***************************************************************************)
(* The threads that run a pipeline (addons/pipeline/worker.c and the frame *)
(* loop of addons/pipeline/pipeline.c): the main thread, worker threads    *)
(* that live as long as the world or as tasks for one frame, one mutex and *)
(* two condition variables.                                                *)
(*                                                                         *)
(* Stage 0 is the main thread, stage i the i-th worker.  What an operation *)
(* of the pipeline does is left out: the schedule chooses how many         *)
(* operations a frame has and the flags of each.                           *)
(***************************************************************************)
EXTENDS Integers, FiniteSets

CONSTANTS
    MaxStages,        \* largest number of threads the application asks for
    MaxOps            \* largest number of operations of a pipeline

ASSUME MaxStagesAssumption == MaxStages \in Nat \ {0}
ASSUME MaxOpsAssumption == MaxOps \in Nat

Main == 0
Free == -1     \* nobody holds the mutex
Workers == 1 .. MaxStages - 1

Ops == {op \in [multi_threaded : BOOLEAN, immediate : BOOLEAN] :
          ~ (op.multi_threaded /\ op.immediate)}

VARIABLES
    pc,               \* where each thread is; "none": no such thread
    mutex,            \* holder of world->sync_mutex
    worker_cond,      \* threads waiting on world->worker_cond
    sync_cond,        \* threads waiting on world->sync_cond
    workers_running,  \* world->workers_running
    workers_waiting,  \* world->workers_waiting
    stage_count,      \* world->stage_count
    quit_workers,     \* EcsWorldQuitWorkers
    readonly,         \* EcsWorldReadonly
    multi_threaded,   \* EcsWorldMultiThreaded
    has_cond,         \* world->worker_cond is not 0
    use_task_api,     \* world->workers_use_task_api
    request,          \* arguments of the ecs_set_threads call under way
    frame,            \* what flecs_run_pipeline is called for
    op,               \* the current operation of the pipeline, world->pq
    ops_left,         \* operations still to run in this pipeline
    first_frame,      \* world->info.frame_count_total is 0
    saved_count,      \* stage_count while the startup systems run
    ran               \* history: times each thread ran the current operation

condVars == <<worker_cond, sync_cond>>
worldVars == <<stage_count, readonly, multi_threaded, has_cond, use_task_api,
               request, first_frame, saved_count>>
pipelineVars == <<frame, op, ops_left, ran>>
vars == <<pc, mutex, condVars, workers_running, workers_waiting, quit_workers,
          worldVars, pipelineVars>>

NoRequest == [threads |-> 0, tasks |-> FALSE, resume |-> "idle"]
Idle == [multi_threaded |-> FALSE, immediate |-> FALSE]

\* Threads the main thread expects at a synchronisation point.
Expected == stage_count - 1

GoTo(t, label) == pc' = [pc EXCEPT ![t] = label]

Init ==
    /\ pc = [t \in {Main} \union Workers |-> IF t = Main THEN "idle" ELSE "none"]
    /\ mutex = Free
    /\ worker_cond = {} /\ sync_cond = {}
    /\ workers_running = 0 /\ workers_waiting = 0
    /\ stage_count = 1
    /\ quit_workers = FALSE /\ readonly = FALSE /\ multi_threaded = FALSE
    /\ has_cond = FALSE /\ use_task_api = FALSE
    /\ request = NoRequest
    /\ frame = "none" /\ op = Idle /\ ops_left = 0
    /\ first_frame = TRUE /\ saved_count = 1
    /\ ran = [t \in {Main} \union Workers |-> 0]
-----------------------------------------------------------------------------
(***************************************************************************)
(* flecs_worker and flecs_sync_worker.                                     *)
(***************************************************************************)
Acquire(t, from, to) ==
    /\ pc[t] = from
    /\ mutex = Free
    /\ mutex' = t
    /\ GoTo(t, to)

WorkerLockStart(w) ==
    /\ Acquire(w, "start", "started")
    /\ UNCHANGED <<condVars, workers_running, workers_waiting, quit_workers,
                   worldVars, pipelineVars>>

\* Mutant: a new worker does not wait for its first signal.
WorkerReadyNoWait(w) ==
    /\ pc[w] = "started"
    /\ workers_running' = workers_running + 1
    /\ mutex' = Free
    /\ GoTo(w, "check")
    /\ UNCHANGED <<condVars, workers_waiting, quit_workers, worldVars,
                   pipelineVars>>

\* Count the worker as running and wait for work, or leave if told to quit.
WorkerReady(w) ==
    /\ pc[w] = "started"
    /\ workers_running' = workers_running + 1
    /\ mutex' = Free
    /\ IF quit_workers
         THEN GoTo(w, "check") /\ UNCHANGED worker_cond
         ELSE GoTo(w, "wait") /\ worker_cond' = worker_cond \union {w}
    /\ UNCHANGED <<sync_cond, workers_waiting, quit_workers, worldVars,
                   pipelineVars>>

\* The wait returns with the mutex held, which is released at once.
WorkerWake(w) ==
    /\ pc[w] = "wait"
    /\ w \notin worker_cond
    /\ mutex = Free
    /\ GoTo(w, "check")
    /\ UNCHANGED <<mutex, condVars, workers_running, workers_waiting,
                   quit_workers, worldVars, pipelineVars>>

\* The loop condition, read without the mutex.
WorkerCheck(w) ==
    /\ pc[w] = "check"
    /\ GoTo(w, IF quit_workers THEN "exit" ELSE "run")
    /\ UNCHANGED <<mutex, condVars, workers_running, workers_waiting,
                   quit_workers, worldVars, pipelineVars>>

\* flecs_run_pipeline_ops on the stage of the worker.
WorkerRun(w) ==
    /\ pc[w] = "run"
    /\ ran' = [ran EXCEPT ![w] = @ + 1]
    /\ GoTo(w, "sync")
    /\ UNCHANGED <<mutex, condVars, workers_running, workers_waiting,
                   quit_workers, worldVars, frame, op, ops_left>>

\* With a single stage flecs_sync_worker returns and the loop goes on.
WorkerLockSync(w) ==
    /\ \/ Expected > 0 /\ Acquire(w, "sync", "synced")
       \/ Expected <= 0 /\ pc[w] = "sync" /\ GoTo(w, "check")
            /\ UNCHANGED mutex
    /\ UNCHANGED <<condVars, workers_running, workers_waiting, quit_workers,
                   worldVars, pipelineVars>>

WorkerSync(w) ==
    /\ pc[w] = "synced"
    /\ workers_waiting' = workers_waiting + 1
    /\ sync_cond' = IF workers_waiting' = Expected THEN {} ELSE sync_cond
    /\ worker_cond' = worker_cond \union {w}
    /\ mutex' = Free
    /\ GoTo(w, "wait")
    /\ UNCHANGED <<workers_running, quit_workers, worldVars, pipelineVars>>

WorkerLockExit(w) ==
    /\ Acquire(w, "exit", "exiting")
    /\ UNCHANGED <<condVars, workers_running, workers_waiting, quit_workers,
                   worldVars, pipelineVars>>

\* Mutant: a worker that leaves is still counted as running.
WorkerExitCounted(w) ==
    /\ pc[w] = "exiting"
    /\ mutex' = Free
    /\ GoTo(w, "stopped")
    /\ UNCHANGED <<condVars, workers_running, workers_waiting, quit_workers,
                   worldVars, pipelineVars>>

WorkerExit(w) ==
    /\ pc[w] = "exiting"
    /\ workers_running' = workers_running - 1
    /\ mutex' = Free
    /\ GoTo(w, "stopped")
    /\ UNCHANGED <<condVars, workers_waiting, quit_workers, worldVars,
                   pipelineVars>>

Worker(w) ==
    \/ WorkerLockStart(w) \/ WorkerReady(w) \/ WorkerWake(w)
    \/ WorkerCheck(w) \/ WorkerRun(w) \/ WorkerLockSync(w) \/ WorkerSync(w)
    \/ WorkerLockExit(w) \/ WorkerExit(w)
-----------------------------------------------------------------------------
(***************************************************************************)
(* The frame: ecs_progress (or ecs_run_pipeline) and flecs_run_pipeline.   *)
(***************************************************************************)
\* The first frame runs the startup systems first, with stage_count set to 1.
Progress ==
    /\ pc[Main] = "idle"
    /\ IF first_frame
         THEN /\ frame' = "startup"
              /\ saved_count' = stage_count
              /\ stage_count' = 1
              /\ GoTo(Main, "wait_workers")
         ELSE /\ frame' = "frame"
              /\ GoTo(Main, "create")
              /\ UNCHANGED <<saved_count, stage_count>>
    /\ UNCHANGED <<mutex, condVars, workers_running, workers_waiting,
                   quit_workers, readonly, multi_threaded, has_cond,
                   use_task_api, request, first_frame, op, ops_left, ran>>

\* flecs_create_worker_threads
Created(count, label) ==
    [t \in DOMAIN pc |-> IF t = Main THEN label
                         ELSE IF t < count THEN "start" ELSE pc[t]]

CreateTasks ==
    /\ pc[Main] = "create"
    /\ IF use_task_api THEN pc' = Created(stage_count, "wait_workers")
                       ELSE GoTo(Main, "wait_workers")
    /\ UNCHANGED <<mutex, condVars, workers_running, workers_waiting,
                   quit_workers, worldVars, pipelineVars>>

\* The loop of flecs_wait_for_workers ends when this holds: it takes the mutex and
\* leaves it again until then.  The rounds before are not steps, since they change
\* nothing and hold the mutex for a moment.
WorkersReady ==
    stage_count <= 1 \/ (mutex = Free /\ workers_running = Expected)

WaitForWorkers ==
    /\ pc[Main] = "wait_workers"
    /\ WorkersReady
    /\ ops_left' \in 0 .. MaxOps
    /\ GoTo(Main, "next_op")
    /\ UNCHANGED <<mutex, condVars, workers_running, workers_waiting,
                   quit_workers, worldVars, frame, op, ran>>

\* ecs_readonly_begin or flecs_defer_begin, and EcsWorldMultiThreaded
BeginOp ==
    /\ pc[Main] = "next_op"
    /\ ops_left > 0
    /\ op' \in Ops
    /\ ops_left' = ops_left - 1
    /\ readonly' = ~ op'.immediate
    /\ multi_threaded' = (has_cond /\ op'.multi_threaded)
    /\ ran' = [t \in DOMAIN ran |-> 0]
    /\ GoTo(Main, IF multi_threaded' THEN "signal" ELSE "run")
    /\ UNCHANGED <<mutex, condVars, workers_running, workers_waiting,
                   quit_workers, stage_count, has_cond, use_task_api, request,
                   first_frame, saved_count, frame>>

\* flecs_signal_workers
Broadcast(from, to) ==
    /\ pc[Main] = from
    /\ GoTo(Main, to)
    /\ IF stage_count <= 1 THEN UNCHANGED worker_cond
                           ELSE mutex = Free /\ worker_cond' = {}

SignalWorkers ==
    /\ Broadcast("signal", "run")
    /\ UNCHANGED <<mutex, sync_cond, workers_running, workers_waiting,
                   quit_workers, worldVars, pipelineVars>>

\* Mutant: the main thread merges without waiting for the workers.
MainRunNoSync ==
    /\ pc[Main] = "run"
    /\ ran' = [ran EXCEPT ![Main] = @ + 1]
    /\ GoTo(Main, "merge")
    /\ UNCHANGED <<mutex, condVars, workers_running, workers_waiting,
                   quit_workers, worldVars, frame, op, ops_left>>

MainRun ==
    /\ pc[Main] = "run"
    /\ ran' = [ran EXCEPT ![Main] = @ + 1]
    /\ GoTo(Main, IF multi_threaded /\ stage_count > 1 THEN "sync" ELSE "merge")
    /\ UNCHANGED <<mutex, condVars, workers_running, workers_waiting,
                   quit_workers, worldVars, frame, op, ops_left>>

\* flecs_wait_for_sync
MainLockSync ==
    /\ Acquire(Main, "sync", "test")
    /\ UNCHANGED <<condVars, workers_running, workers_waiting, quit_workers,
                   worldVars, pipelineVars>>

\* Mutant: the main thread polls the count instead of waiting for the signal.
MainTestPolls ==
    /\ pc[Main] = "test"
    /\ IF workers_waiting # Expected
         THEN mutex' = Free /\ GoTo(Main, "sync")
         ELSE GoTo(Main, "synced") /\ UNCHANGED mutex
    /\ UNCHANGED <<condVars, workers_running, workers_waiting, quit_workers,
                   worldVars, pipelineVars>>

MainTest ==
    /\ pc[Main] = "test"
    /\ IF workers_waiting # Expected
         THEN /\ sync_cond' = sync_cond \union {Main}
              /\ mutex' = Free
              /\ GoTo(Main, "wait_sync")
         ELSE GoTo(Main, "synced") /\ UNCHANGED <<sync_cond, mutex>>
    /\ UNCHANGED <<worker_cond, workers_running, workers_waiting, quit_workers,
                   worldVars, pipelineVars>>

MainWake ==
    /\ Main \notin sync_cond
    /\ Acquire(Main, "wait_sync", "synced")
    /\ UNCHANGED <<condVars, workers_running, workers_waiting, quit_workers,
                   worldVars, pipelineVars>>

\* Mutant: the count of waiting workers is not reset.
MainSyncedNoReset ==
    /\ pc[Main] = "synced"
    /\ mutex' = Free
    /\ GoTo(Main, "merge")
    /\ UNCHANGED <<condVars, workers_running, workers_waiting, quit_workers,
                   worldVars, pipelineVars>>

MainSynced ==
    /\ pc[Main] = "synced"
    /\ workers_waiting' = 0
    /\ mutex' = Free
    /\ GoTo(Main, "merge")
    /\ UNCHANGED <<condVars, workers_running, quit_workers, worldVars,
                   pipelineVars>>

\* ecs_readonly_end or flecs_defer_end: the flags are cleared, then every
\* stage is merged; then the pipeline moves on to its next operation.
BeginMerge ==
    /\ pc[Main] = "merge"
    /\ readonly' = FALSE
    /\ multi_threaded' = FALSE
    /\ GoTo(Main, "merging")
    /\ UNCHANGED <<mutex, condVars, workers_running, workers_waiting,
                   quit_workers, stage_count, has_cond, use_task_api, request,
                   first_frame, saved_count, pipelineVars>>

EndMerge ==
    /\ pc[Main] = "merging"
    /\ GoTo(Main, "next_op")
    /\ UNCHANGED <<mutex, condVars, workers_running, workers_waiting,
                   quit_workers, worldVars, pipelineVars>>

\* After the startup systems stage_count is restored and the frame runs; after
\* the frame the tasks are joined.
EndPipeline ==
    /\ pc[Main] = "next_op"
    /\ ops_left = 0
    /\ op' = Idle
    /\ ran' = [t \in DOMAIN ran |-> 0]
    /\ IF frame = "startup"
         THEN /\ frame' = "frame"
              /\ stage_count' = saved_count
              /\ GoTo(Main, "create")
              /\ UNCHANGED request
         ELSE /\ frame' = "none"
              /\ request' = NoRequest
              /\ GoTo(Main, IF use_task_api THEN "join" ELSE "idle")
              /\ UNCHANGED stage_count
    /\ first_frame' = FALSE
    /\ UNCHANGED <<mutex, condVars, workers_running, workers_waiting,
                   quit_workers, readonly, multi_threaded, has_cond,
                   use_task_api, saved_count, ops_left>>
-----------------------------------------------------------------------------
(***************************************************************************)
(* flecs_join_worker_threads and flecs_set_threads_internal.               *)
(***************************************************************************)
Threads == {w \in Workers : w < stage_count /\ pc[w] # "none"}

\* Without threads there is nothing to join; else wait until all run.
Join ==
    /\ pc[Main] = "join"
    /\ IF Threads = {}
         THEN GoTo(Main, request.resume) /\ UNCHANGED quit_workers
         ELSE /\ WorkersReady
              /\ quit_workers' = TRUE
              /\ GoTo(Main, "join_signal")
    /\ UNCHANGED <<mutex, condVars, workers_running, workers_waiting,
                   worldVars, pipelineVars>>

JoinSignal ==
    /\ Broadcast("join_signal", "joining")
    /\ UNCHANGED <<mutex, sync_cond, workers_running, workers_waiting,
                   quit_workers, worldVars, pipelineVars>>

JoinThreads ==
    /\ pc[Main] = "joining"
    /\ \A w \in Threads : pc[w] = "stopped"
    /\ quit_workers' = FALSE
    /\ pc' = [t \in DOMAIN pc |-> IF t = Main THEN request.resume
                                  ELSE IF t \in Threads THEN "none" ELSE pc[t]]
    /\ UNCHANGED <<mutex, condVars, workers_running, workers_waiting,
                   worldVars, pipelineVars>>

\* Nothing happens if neither the count nor the kind of thread changes.
SetThreads(threads, tasks) ==
    /\ pc[Main] = "idle"
    /\ stage_count # threads \/ tasks # use_task_api
    /\ request' = [threads |-> threads, tasks |-> tasks, resume |-> "set_threads"]
    /\ GoTo(Main, IF stage_count > 1 THEN "join" ELSE "set_threads")
    /\ UNCHANGED <<mutex, condVars, workers_running, workers_waiting,
                   quit_workers, stage_count, readonly, multi_threaded, has_cond,
                   use_task_api, first_frame, saved_count, pipelineVars>>

\* The condition variables are freed but the fields keep their old values.
StartThreads ==
    /\ pc[Main] = "set_threads"
    /\ use_task_api' = request.tasks
    /\ has_cond' = (has_cond \/ request.threads > 1)
    /\ stage_count' = IF request.threads > 1 THEN request.threads ELSE 1
    /\ IF request.threads > 1 /\ ~ request.tasks
         THEN pc' = Created(request.threads, "idle")
         ELSE GoTo(Main, IF request.threads = 0 THEN "fini" ELSE "idle")
    /\ request' = NoRequest
    /\ UNCHANGED <<mutex, condVars, workers_running, workers_waiting,
                   quit_workers, readonly, multi_threaded, first_frame,
                   saved_count, pipelineVars>>

\* FlecsPipelineFini: ecs_set_threads(world, 0), after which the world is gone.
Fini == SetThreads(0, FALSE)

Stopped == pc[Main] = "fini" /\ UNCHANGED vars
-----------------------------------------------------------------------------
MainStep ==
    \/ CreateTasks \/ WaitForWorkers \/ BeginOp \/ SignalWorkers \/ MainRun
    \/ MainLockSync \/ MainTest \/ MainWake \/ MainSynced \/ BeginMerge
    \/ EndMerge \/ EndPipeline \/ Join \/ JoinSignal \/ JoinThreads
    \/ StartThreads

Application ==
    \/ Progress
    \/ \E threads \in 1 .. MaxStages, tasks \in BOOLEAN :
          SetThreads(threads, tasks)
    \/ Fini

Next ==
    \/ Application
    \/ MainStep
    \/ \E w \in Workers : Worker(w)
    \/ Stopped

(***************************************************************************)
(* Every thread is scheduled: a thread that can take its next step takes   *)
(* it.  Nothing is assumed of the application.                             *)
(***************************************************************************)
Spec ==
    /\ Init
    /\ [][Next]_vars
    /\ WF_vars(MainStep)
    /\ \A w \in Workers : WF_vars(Worker(w))

(***************************************************************************)
(* Not in the code: a wait on a condition variable may end without a       *)
(* signal, as POSIX allows.                                                *)
(***************************************************************************)
SpuriousWake ==
    /\ \/ \E w \in worker_cond :
            worker_cond' = worker_cond \ {w} /\ UNCHANGED sync_cond
       \/ sync_cond # {} /\ sync_cond' = {} /\ UNCHANGED worker_cond
    /\ UNCHANGED <<pc, mutex, workers_running, workers_waiting, quit_workers,
                   worldVars, pipelineVars>>

SpuriousSpec == Init /\ [][Next \/ SpuriousWake]_vars
-----------------------------------------------------------------------------
(***************************************************************************)
(* Properties.                                                             *)
(***************************************************************************)
\* A worker runs systems only while the main thread is inside the operation that
\* it was woken for, which is multithreaded (the assertion at the top of
\* flecs_run_pipeline_ops), with the world readonly: never during a merge.
WorkersRunInsideOp ==
    \A w \in Workers : pc[w] \in {"check", "run", "sync", "synced"} /\ ~ quit_workers =>
        /\ op.multi_threaded /\ multi_threaded /\ readonly
        /\ pc[Main] \in {"run", "sync", "test", "wait_sync"}

\* When an operation is merged the main thread ran it once, and so did every
\* worker if it is multithreaded; no other worker ran it.
EveryStageRanOnce ==
    pc[Main] = "merge" =>
        /\ ran[Main] = 1
        /\ \A w \in Workers :
              ran[w] = IF multi_threaded /\ w < stage_count THEN 1 ELSE 0

\* When the mutex and the condition variables are freed no thread is left that
\* could hold or wait on them, and the count of running workers is back at 0.
NothingUsesFreedSync ==
    pc[Main] = "set_threads" =>
        /\ \A w \in Workers : pc[w] = "none"
        /\ worker_cond = {} /\ sync_cond = {} /\ mutex = Free
        /\ workers_running = 0

\* Every frame, every join and every change of the number of threads comes to an
\* end: no wakeup is lost and nobody waits for a thread that waits for him.
MainReturns == pc[Main] # "idle" ~> pc[Main] \in {"idle", "fini"}

\* The protocol implements fork and join: a stage works on an operation from the
\* broadcast until it counted itself as waiting.
Phase == IF pc[Main] \in {"run", "sync", "test", "wait_sync", "synced", "merge"}
           THEN "running" ELSE "merged"

Working ==
    {t \in {Main} \union Workers :
        /\ Phase = "running"
        /\ \/ t = Main /\ pc[t] = "run"
           \/ t # Main /\ pc[t] \in {"check", "run", "sync", "synced"}
           \/ t # Main /\ pc[t] = "wait" /\ t \notin worker_cond}

Abstract == INSTANCE ForkJoin
    WITH Stages <- {Main} \union Workers, phase <- Phase, working <- Working

ImplementsForkJoin == Abstract!Spec
=============================================================================
