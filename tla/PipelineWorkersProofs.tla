----------------------- MODULE PipelineWorkersProofs -----------------------
(***************************************************************************)
(* The threads of a pipeline keep in step for every number of stages and   *)
(* every length of a pipeline: the theorems of PipelineWorkers, from the   *)
(* inductive invariant IndInv.                                             *)
(***************************************************************************)
EXTENDS PipelineWorkers, TLAPS, FiniteSetTheorems

USE MaxStagesAssumption, MaxOpsAssumption

Stages == {Main} \union Workers

MainLabels ==
    {"idle", "wait_workers", "create", "next_op", "signal", "run", "sync",
     "test", "wait_sync", "synced", "merge", "merging", "join", "join_signal",
     "joining", "set_threads", "fini"}

WorkerLabels ==
    {"none", "start", "started", "wait", "check", "run", "sync", "synced",
     "exit", "exiting", "stopped"}

TypeOK ==
    /\ pc \in [Stages -> MainLabels \union WorkerLabels]
    /\ pc[Main] \in MainLabels
    /\ \A w \in Workers : pc[w] \in WorkerLabels
    /\ mutex \in {Free} \union Stages
    /\ worker_cond \in SUBSET Workers /\ sync_cond \in SUBSET {Main}
    /\ workers_running \in Nat /\ workers_waiting \in Nat
    /\ stage_count \in 1 .. MaxStages /\ saved_count \in 1 .. MaxStages
    /\ quit_workers \in BOOLEAN /\ readonly \in BOOLEAN
    /\ multi_threaded \in BOOLEAN /\ has_cond \in BOOLEAN
    /\ use_task_api \in BOOLEAN /\ first_frame \in BOOLEAN
    /\ request \in [threads : 0 .. MaxStages, tasks : BOOLEAN,
                    resume : {"idle", "set_threads"}]
    /\ frame \in {"none", "startup", "frame"}
    /\ op \in Ops
    /\ ops_left \in 0 .. MaxOps
    /\ ran \in [Stages -> Nat]

-----------------------------------------------------------------------------
(***************************************************************************)
(* The parts of the inductive invariant.                                   *)
(***************************************************************************)
Joining == {"join", "join_signal", "joining"}

\* The main thread is inside flecs_run_pipeline exactly while frame says so.
MainPlace ==
    /\ frame = "none" <=>
          pc[Main] \in Joining \union {"idle", "set_threads", "fini"}
    /\ frame = "startup" => stage_count = 1 /\ pc[Main] # "create"
    /\ pc[Main] \in Joining /\ request.resume = "idle" => use_task_api
    /\ pc[Main] \in {"join_signal", "joining"} => stage_count > 1
    /\ quit_workers <=> pc[Main] \in {"join_signal", "joining"}

\* Worker threads live from ecs_set_threads to the next one, tasks from the
\* start of a frame until they are joined at its end.
ThreadsExist ==
    IF use_task_api
      THEN \/ frame = "frame" /\ pc[Main] # "create"
           \/ pc[Main] \in Joining /\ request.resume = "idle"
      ELSE pc[Main] \notin {"set_threads", "fini"}

ThreadCount == IF frame = "startup" THEN saved_count ELSE stage_count

ThreadsPlace ==
    \A w \in Workers : pc[w] # "none" <=> ThreadsExist /\ w < ThreadCount

\* A thread holds the mutex between its lock and its unlock and nowhere else.
MutexPlace ==
    /\ mutex = Main <=> pc[Main] \in {"test", "synced"}
    /\ \A w \in Workers : mutex = w <=> pc[w] \in {"started", "synced", "exiting"}

\* The flags of the world while an operation runs.
InsideOp == {"signal", "run", "sync", "test", "wait_sync", "synced", "merge"}

FlagsPlace ==
    /\ pc[Main] \in InsideOp =>
          /\ multi_threaded => op.multi_threaded
          /\ readonly = ~ op.immediate
    /\ pc[Main] \notin InsideOp => ~ multi_threaded
    /\ pc[Main] = "signal" => multi_threaded
    /\ pc[Main] \in {"sync", "test", "wait_sync", "synced"} =>
          multi_threaded /\ stage_count > 1

\* The workers run an operation: from the broadcast until the main thread saw
\* that all of them wait.
Forked ==
    /\ multi_threaded /\ stage_count > 1
    /\ pc[Main] \in {"run", "sync", "test", "wait_sync"}

\* Outside of that, and until it is told to quit, a worker has not started or
\* waits for a signal that was not yet sent.
WorkerPlace(w) ==
    IF Forked THEN pc[w] \in {"none", "wait", "check", "run", "sync", "synced"}
    ELSE IF pc[Main] = "joining"
      THEN /\ pc[w] \in {"none", "wait", "check", "exit", "exiting", "stopped"}
           /\ w \notin worker_cond
    ELSE /\ pc[w] \in {"none", "start", "started", "wait"}
         /\ pc[w] = "wait" => w \in worker_cond

\* flecs_wait_for_workers returned: no thread that was created is still starting.
AllStarted ==
    \/ frame = "frame" /\ pc[Main] \notin {"create", "wait_workers"}
    \/ pc[Main] = "join_signal"

WorkersPlace ==
    /\ \A w \in Workers : WorkerPlace(w)
    /\ AllStarted => \A w \in Workers : pc[w] \notin {"start", "started"}
    /\ \A w \in worker_cond : pc[w] = "wait"

\* The two counters.
Counted ==
    {w \in Workers : pc[w] \in {"wait", "check", "run", "sync", "synced", "exit",
                                "exiting"}}

Counts ==
    /\ workers_running = Cardinality(Counted)
    /\ workers_waiting = IF Forked \/ pc[Main] = "synced"
                           THEN Cardinality(worker_cond) ELSE 0

\* The main thread waits on sync_cond as long as a worker has yet to come.
SyncPlace ==
    /\ Main \in sync_cond => pc[Main] = "wait_sync"
    /\ pc[Main] = "wait_sync" => (Main \in sync_cond <=> workers_waiting # Expected)
    /\ pc[Main] = "synced" => \A w \in Workers : w < stage_count => w \in worker_cond

\* Who ran the operation so far.
RanPlace ==
    /\ pc[Main] \in {"signal", "run"} => ran[Main] = 0
    /\ pc[Main] \in {"sync", "test", "wait_sync", "synced", "merge"} => ran[Main] = 1
    /\ pc[Main] \in InsideOp => \A w \in Workers :
          ran[w] = IF /\ multi_threaded /\ stage_count > 1 /\ pc[Main] # "signal"
                      /\ pc[w] \in {"sync", "synced"} \/ w \in worker_cond
                     THEN 1 ELSE 0

IndInv ==
    /\ TypeOK /\ MainPlace /\ ThreadsPlace /\ MutexPlace /\ FlagsPlace
    /\ WorkersPlace /\ Counts /\ SyncPlace /\ RanPlace
-----------------------------------------------------------------------------
(***************************************************************************)
(* Facts that every step needs.                                            *)
(***************************************************************************)
\* The main thread is no worker and nobody is a free mutex.
LEMMA ThreadNames ==
    /\ Main \notin Workers /\ Free \notin Workers /\ Free # Main
    /\ Main \in Stages /\ Workers \subseteq Stages
    /\ \A w \in Workers : w \in Nat /\ w >= 1 /\ w < MaxStages
BY DEF Main, Free, Workers, Stages

\* The main thread moves on to another line and no worker moves.
LEMMA MainMoves ==
    ASSUME TypeOK, NEW label \in MainLabels, GoTo(Main, label)
    PROVE  /\ pc' \in [Stages -> MainLabels \union WorkerLabels]
           /\ pc'[Main] = label
           /\ \A w \in Workers : pc'[w] = pc[w]
BY ThreadNames DEF TypeOK, GoTo

\* One worker moves on to another line, nobody else moves.
LEMMA WorkerMoves ==
    ASSUME TypeOK, NEW w \in Workers, NEW label \in WorkerLabels, GoTo(w, label)
    PROVE  /\ pc' \in [Stages -> MainLabels \union WorkerLabels]
           /\ pc'[Main] = pc[Main]
           /\ pc'[w] = label
           /\ \A v \in Workers : v # w => pc'[v] = pc[v]
BY ThreadNames DEF TypeOK, GoTo

\* The workers that are counted form a finite set, and so do those that wait.
LEMMA FiniteWorkers ==
    /\ IsFiniteSet(Workers) /\ IsFiniteSet(Counted)
    /\ \A S \in SUBSET Workers : IsFiniteSet(S) /\ Cardinality(S) \in Nat
<1>1. IsFiniteSet(Workers)
  BY FS_Interval DEF Workers
<1> QED  BY <1>1, FS_Subset, FS_CardinalityType DEF Counted

\* Workers below a bound, all of them if there are as many as the bound allows.
LEMMA AllThere ==
    ASSUME NEW n \in 1 .. MaxStages, NEW S \in SUBSET Workers,
           \A w \in S : w < n, Cardinality(S) = n - 1
    PROVE  \A w \in Workers : w < n => w \in S
<1>1. IsFiniteSet(1 .. n - 1) /\ Cardinality(1 .. n - 1) = n - 1
  BY FS_Interval
<1>2. S \subseteq 1 .. n - 1
  BY DEF Workers
<1>3. S = 1 .. n - 1
  BY <1>1, <1>2, FS_Subset
<1> QED  BY <1>3 DEF Workers

\* The values of request and op when nothing is asked for and nothing runs.
LEMMA NoRequestType ==
    /\ NoRequest \in [threads : 0 .. MaxStages, tasks : BOOLEAN,
                     resume : {"idle", "set_threads"}]
    /\ Idle \in Ops
BY DEF NoRequest, Idle, Ops

\* The main thread sees that all workers wait: then they do.
LEMMA AllWaiting ==
    ASSUME IndInv, Forked, workers_waiting = Expected
    PROVE  \A w \in Workers : w < stage_count => w \in worker_cond
<1>1. \A w \in worker_cond : w < stage_count
  BY DEF IndInv, TypeOK, WorkersPlace, ThreadsPlace, ThreadCount, MainPlace,
         Forked
<1>2. Cardinality(worker_cond) = stage_count - 1
  BY DEF IndInv, Counts, Expected
<1> QED  BY <1>1, <1>2, AllThere DEF IndInv, TypeOK

\* flecs_wait_for_workers returns: then every thread has started.
LEMMA AllReady ==
    ASSUME IndInv, frame # "startup", WorkersReady
    PROVE  \A w \in Workers : pc[w] \notin {"start", "started"}
<1>1. \A w \in Workers : pc[w] # "none" => w < stage_count
  BY DEF IndInv, ThreadsPlace, ThreadCount
<1>2. CASE stage_count <= 1
  BY <1>1, <1>2, ThreadNames DEF IndInv, TypeOK
<1>3. CASE workers_running = Expected
  <2>1. Cardinality(Counted) = stage_count - 1 /\ Counted \in SUBSET Workers
    BY <1>3 DEF IndInv, Counts, Expected, Counted
  <2>2. \A w \in Counted : w < stage_count
    BY <1>1 DEF Counted
  <2>3. \A w \in Workers : w < stage_count => w \in Counted
    BY <2>1, <2>2, AllThere DEF IndInv, TypeOK
  <2> QED  BY <1>1, <2>3 DEF Counted
<1> QED  BY <1>2, <1>3 DEF WorkersReady

\* A worker takes the mutex for the first time: it is not yet counted.
LEMMA WorkerLockStartInv ==
    ASSUME IndInv, NEW w \in Workers, WorkerLockStart(w)
    PROVE  IndInv'
<1>0. /\ pc' \in [Stages -> MainLabels \union WorkerLabels]
      /\ pc'[Main] = pc[Main] /\ pc'[w] = "started"
      /\ \A v \in Workers : v # w => pc'[v] = pc[v]
  BY WorkerMoves DEF IndInv, WorkerLockStart, Acquire, MainLabels, WorkerLabels
<1>1. TypeOK'
  BY <1>0, ThreadNames
     DEF IndInv, TypeOK, WorkerLockStart, Acquire, condVars, worldVars,
         pipelineVars, WorkerLabels
<1>2. MainPlace'
  BY <1>0
     DEF IndInv, MainPlace, WorkerLockStart, Acquire, worldVars, pipelineVars
<1>3. ThreadsPlace'
  BY <1>0
     DEF IndInv, ThreadsPlace, ThreadsExist, ThreadCount, WorkerLockStart,
         Acquire, worldVars, pipelineVars
<1>4. MutexPlace'
  BY <1>0, ThreadNames DEF IndInv, MutexPlace, WorkerLockStart, Acquire
<1>5. FlagsPlace'
  BY <1>0
     DEF IndInv, FlagsPlace, WorkerLockStart, Acquire, worldVars, pipelineVars
<1>6. WorkersPlace'
  BY <1>0
     DEF IndInv, TypeOK, WorkersPlace, WorkerPlace, AllStarted, Forked,
         WorkerLockStart, Acquire, condVars, worldVars, pipelineVars
<1>7. Counts'
  BY <1>0, ThreadNames
     DEF IndInv, TypeOK, Counts, Counted, Forked, FlagsPlace, InsideOp,
         WorkerLockStart, Acquire, condVars, worldVars, pipelineVars
<1>8. SyncPlace'
  BY <1>0
     DEF IndInv, SyncPlace, Expected, WorkerLockStart, Acquire, condVars,
         worldVars
<1>9. RanPlace'
  BY <1>0
     DEF IndInv, RanPlace, WorkerLockStart, Acquire, condVars, worldVars,
         pipelineVars
<1> QED  BY <1>1, <1>2, <1>3, <1>4, <1>5, <1>6, <1>7, <1>8, <1>9 DEF IndInv

\* A worker is counted and waits for the first signal.  Nobody can have asked it to
\* quit: flecs_signal_workers and flecs_join_worker_threads wait for workers first.
LEMMA WorkerReadyInv ==
    ASSUME IndInv, NEW w \in Workers, WorkerReady(w)
    PROVE  IndInv'
<1>a. ~ quit_workers
  BY DEF IndInv, WorkersPlace, WorkerPlace, MainPlace, AllStarted, WorkerReady
<1>0. /\ pc' \in [Stages -> MainLabels \union WorkerLabels]
      /\ pc'[Main] = pc[Main] /\ pc'[w] = "wait"
      /\ \A v \in Workers : v # w => pc'[v] = pc[v]
  BY <1>a, WorkerMoves DEF IndInv, WorkerReady, WorkerLabels
<1>1. TypeOK'
  BY <1>0 DEF IndInv, TypeOK, WorkerReady, worldVars, pipelineVars, WorkerLabels
<1>2. MainPlace'
  BY <1>0 DEF IndInv, MainPlace, WorkerReady, worldVars, pipelineVars
<1>3. ThreadsPlace'
  BY <1>0
     DEF IndInv, ThreadsPlace, ThreadsExist, ThreadCount, WorkerReady,
         worldVars, pipelineVars
<1>4. MutexPlace'
  BY <1>0, ThreadNames DEF IndInv, MutexPlace, WorkerReady
<1>5. FlagsPlace'
  BY <1>0 DEF IndInv, FlagsPlace, WorkerReady, worldVars, pipelineVars
<1>6. WorkersPlace'
  BY <1>0
     DEF IndInv, TypeOK, WorkersPlace, WorkerPlace, AllStarted, Forked,
         MainPlace, WorkerReady, worldVars, pipelineVars
<1>7. Counts'
  <2>1. Counted' = Counted \union {w} /\ w \notin Counted
    BY <1>0 DEF Counted, WorkerReady
  <2>2. Cardinality(Counted') = Cardinality(Counted) + 1
    BY <2>1, FS_AddElement, FiniteWorkers
  <2>3. ~ Forked /\ pc[Main] # "synced"
    BY DEF IndInv, TypeOK, WorkersPlace, WorkerPlace, WorkerReady, AllStarted,
           MainPlace, FlagsPlace, Joining
  <2> QED  BY <1>0, <2>2, <2>3
              DEF IndInv, Counts, Forked, WorkerReady, worldVars
<1>8. SyncPlace'
  BY <1>0 DEF IndInv, SyncPlace, Expected, WorkerReady, worldVars
<1>9. RanPlace'
  BY <1>0
     DEF IndInv, TypeOK, RanPlace, InsideOp, WorkersPlace, MainPlace,
         AllStarted, Joining, WorkerReady, worldVars, pipelineVars
<1> QED  BY <1>1, <1>2, <1>3, <1>4, <1>5, <1>6, <1>7, <1>8, <1>9 DEF IndInv

\* A worker that was woken has the mutex again.
LEMMA WorkerWakeInv ==
    ASSUME IndInv, NEW w \in Workers, WorkerWake(w)
    PROVE  IndInv'
<1>0. /\ pc' \in [Stages -> MainLabels \union WorkerLabels]
      /\ pc'[Main] = pc[Main] /\ pc'[w] = "check"
      /\ \A v \in Workers : v # w => pc'[v] = pc[v]
  BY WorkerMoves DEF IndInv, WorkerWake, MainLabels, WorkerLabels
<1>1. TypeOK'
  BY <1>0
     DEF IndInv, TypeOK, WorkerWake, condVars, worldVars, pipelineVars,
         WorkerLabels
<1>2. MainPlace'
  BY <1>0 DEF IndInv, MainPlace, WorkerWake, worldVars, pipelineVars
<1>3. ThreadsPlace'
  BY <1>0
     DEF IndInv, ThreadsPlace, ThreadsExist, ThreadCount, WorkerWake, worldVars,
         pipelineVars
<1>4. MutexPlace'
  BY <1>0 DEF IndInv, MutexPlace, WorkerWake
<1>5. FlagsPlace'
  BY <1>0 DEF IndInv, FlagsPlace, WorkerWake, worldVars, pipelineVars
<1>6. WorkersPlace'
  BY <1>0
     DEF IndInv, TypeOK, WorkersPlace, WorkerPlace, Forked, WorkerWake,
         condVars, worldVars
<1>7. Counts'
  BY <1>0 DEF IndInv, Counts, Counted, Forked, WorkerWake, condVars, worldVars
<1>8. SyncPlace'
  BY <1>0 DEF IndInv, SyncPlace, Expected, WorkerWake, condVars, worldVars
<1>9. RanPlace'
  BY <1>0 DEF IndInv, RanPlace, WorkerWake, condVars, worldVars, pipelineVars
<1> QED  BY <1>1, <1>2, <1>3, <1>4, <1>5, <1>6, <1>7, <1>8, <1>9 DEF IndInv

\* A worker tests quit_workers after it was woken: it runs the operation or ends.
LEMMA WorkerCheckInv ==
    ASSUME IndInv, NEW w \in Workers, WorkerCheck(w)
    PROVE  IndInv'
<1>0. /\ pc' \in [Stages -> MainLabels \union WorkerLabels]
      /\ pc'[Main] = pc[Main] /\ pc'[w] = (IF quit_workers THEN "exit" ELSE "run")
      /\ \A v \in Workers : v # w => pc'[v] = pc[v]
  BY WorkerMoves DEF IndInv, WorkerCheck, MainLabels, WorkerLabels
<1>1. TypeOK'
  BY <1>0
     DEF IndInv, TypeOK, WorkerCheck, condVars, worldVars, pipelineVars,
         WorkerLabels
<1>2. MainPlace'
  BY <1>0 DEF IndInv, MainPlace, WorkerCheck, worldVars, pipelineVars
<1>3. ThreadsPlace'
  BY <1>0
     DEF IndInv, ThreadsPlace, ThreadsExist, ThreadCount, WorkerCheck,
         worldVars, pipelineVars
<1>4. MutexPlace'
  BY <1>0 DEF IndInv, MutexPlace, WorkerCheck
<1>5. FlagsPlace'
  BY <1>0 DEF IndInv, FlagsPlace, WorkerCheck, worldVars, pipelineVars
<1>6. WorkersPlace'
  BY <1>0
     DEF IndInv, TypeOK, WorkersPlace, WorkerPlace, Forked, MainPlace,
         WorkerCheck, condVars, worldVars
<1>7. Counts'
  BY <1>0, ThreadNames
     DEF IndInv, TypeOK, Counts, Counted, Forked, FlagsPlace, InsideOp,
         WorkerCheck, condVars, worldVars, pipelineVars
<1>8. SyncPlace'
  BY <1>0 DEF IndInv, SyncPlace, Expected, WorkerCheck, condVars, worldVars
<1>9. RanPlace'
  BY <1>0 DEF IndInv, RanPlace, WorkerCheck, condVars, worldVars, pipelineVars
<1> QED  BY <1>1, <1>2, <1>3, <1>4, <1>5, <1>6, <1>7, <1>8, <1>9 DEF IndInv

\* A worker runs the systems of the operation on its stage, for the first time.
LEMMA WorkerRunInv ==
    ASSUME IndInv, NEW w \in Workers, WorkerRun(w)
    PROVE  IndInv'
<1>0. /\ pc' \in [Stages -> MainLabels \union WorkerLabels]
      /\ pc'[Main] = pc[Main] /\ pc'[w] = "sync"
      /\ \A v \in Workers : v # w => pc'[v] = pc[v]
  BY WorkerMoves DEF IndInv, WorkerRun, MainLabels, WorkerLabels
<1>1. TypeOK'
  <2>1. ran' \in [Stages -> Nat]
    BY ThreadNames DEF IndInv, TypeOK, WorkerRun
  <2> QED  BY <1>0, <2>1
              DEF IndInv, TypeOK, WorkerRun, condVars, worldVars, WorkerLabels
<1>2. MainPlace'
  BY <1>0 DEF IndInv, MainPlace, WorkerRun, worldVars
<1>3. ThreadsPlace'
  BY <1>0
     DEF IndInv, ThreadsPlace, ThreadsExist, ThreadCount, WorkerRun, worldVars
<1>4. MutexPlace'
  BY <1>0 DEF IndInv, MutexPlace, WorkerRun
<1>5. FlagsPlace'
  BY <1>0 DEF IndInv, FlagsPlace, WorkerRun, worldVars
<1>6. WorkersPlace'
  BY <1>0
     DEF IndInv, TypeOK, WorkersPlace, WorkerPlace, Forked, WorkerRun, condVars,
         worldVars
<1>7. Counts'
  BY <1>0, ThreadNames
     DEF IndInv, TypeOK, Counts, Counted, Forked, FlagsPlace, InsideOp,
         WorkerRun, condVars, worldVars, pipelineVars
<1>8. SyncPlace'
  BY <1>0 DEF IndInv, SyncPlace, Expected, WorkerRun, condVars, worldVars
<1>9. RanPlace'
  BY <1>0, ThreadNames
     DEF IndInv, TypeOK, RanPlace, WorkersPlace, WorkerPlace, Forked, WorkerRun,
         condVars, worldVars
<1> QED  BY <1>1, <1>2, <1>3, <1>4, <1>5, <1>6, <1>7, <1>8, <1>9 DEF IndInv

\* A worker takes the mutex in flecs_sync_worker.
LEMMA WorkerLockSyncInv ==
    ASSUME IndInv, NEW w \in Workers, WorkerLockSync(w)
    PROVE  IndInv'
<1>a. Expected > 0
  BY DEF IndInv, TypeOK, WorkersPlace, WorkerPlace, WorkerLockSync, Acquire,
         Forked, Expected
<1>0. /\ pc' \in [Stages -> MainLabels \union WorkerLabels]
      /\ pc'[Main] = pc[Main] /\ pc'[w] = "synced"
      /\ \A v \in Workers : v # w => pc'[v] = pc[v]
  BY <1>a, WorkerMoves
     DEF IndInv, TypeOK, WorkerLockSync, Acquire, Expected, WorkerLabels
<1>1. TypeOK'
  BY <1>0, ThreadNames
     DEF IndInv, TypeOK, WorkerLockSync, Acquire, condVars, worldVars,
         pipelineVars, WorkerLabels
<1>2. MainPlace'
  BY <1>0
     DEF IndInv, MainPlace, WorkerLockSync, Acquire, worldVars, pipelineVars
<1>3. ThreadsPlace'
  BY <1>0
     DEF IndInv, ThreadsPlace, ThreadsExist, ThreadCount, WorkerLockSync,
         Acquire, worldVars, pipelineVars
<1>4. MutexPlace'
  BY <1>0, <1>a, ThreadNames
     DEF IndInv, TypeOK, MutexPlace, WorkerLockSync, Acquire, Expected
<1>5. FlagsPlace'
  BY <1>0
     DEF IndInv, FlagsPlace, WorkerLockSync, Acquire, worldVars, pipelineVars
<1>6. WorkersPlace'
  BY <1>0
     DEF IndInv, TypeOK, WorkersPlace, WorkerPlace, Forked, WorkerLockSync,
         Acquire, condVars, worldVars
<1>7. Counts'
  BY <1>0, <1>a, ThreadNames
     DEF IndInv, TypeOK, Counts, Counted, Forked, FlagsPlace, InsideOp,
         WorkerLockSync, Acquire, Expected, condVars, worldVars, pipelineVars
<1>8. SyncPlace'
  BY <1>0
     DEF IndInv, SyncPlace, Expected, WorkerLockSync, Acquire, condVars,
         worldVars
<1>9. RanPlace'
  BY <1>0
     DEF IndInv, RanPlace, WorkerLockSync, Acquire, condVars, worldVars,
         pipelineVars
<1> QED  BY <1>1, <1>2, <1>3, <1>4, <1>5, <1>6, <1>7, <1>8, <1>9 DEF IndInv

\* A worker counts itself as waiting; the last one signals the main thread.
LEMMA WorkerSyncInv ==
    ASSUME IndInv, NEW w \in Workers, WorkerSync(w)
    PROVE  IndInv'
<1>0. /\ pc' \in [Stages -> MainLabels \union WorkerLabels]
      /\ pc'[Main] = pc[Main] /\ pc'[w] = "wait"
      /\ \A v \in Workers : v # w => pc'[v] = pc[v]
  BY WorkerMoves DEF IndInv, WorkerSync, MainLabels, WorkerLabels
<1>a. Forked /\ w \notin worker_cond /\ w < stage_count
  BY DEF IndInv, WorkerSync, WorkersPlace, WorkerPlace, ThreadsPlace,
         ThreadCount, MainPlace, Forked
<1>b. workers_waiting' = Cardinality(worker_cond')
  BY <1>a, FS_AddElement, FiniteWorkers DEF IndInv, TypeOK, Counts, WorkerSync
<1>c. workers_waiting # Expected
  BY <1>a, AllWaiting
<1>1. TypeOK'
  BY <1>0 DEF IndInv, TypeOK, WorkerSync, worldVars, pipelineVars, WorkerLabels
<1>2. MainPlace'
  BY <1>0 DEF IndInv, MainPlace, WorkerSync, worldVars, pipelineVars
<1>3. ThreadsPlace'
  BY <1>0
     DEF IndInv, ThreadsPlace, ThreadsExist, ThreadCount, WorkerSync, worldVars,
         pipelineVars
<1>4. MutexPlace'
  BY <1>0, ThreadNames DEF IndInv, MutexPlace, WorkerSync
<1>5. FlagsPlace'
  BY <1>0 DEF IndInv, FlagsPlace, WorkerSync, worldVars, pipelineVars
<1>6. WorkersPlace'
  BY <1>0
     DEF IndInv, TypeOK, WorkersPlace, WorkerPlace, Forked, WorkerSync,
         worldVars
<1>7. Counts'
  <2>1. Counted' = Counted
    BY <1>0 DEF Counted, WorkerSync
  <2> QED  BY <1>0, <1>a, <1>b, <2>1
              DEF IndInv, Counts, Forked, WorkerSync, worldVars
<1>8. SyncPlace'
  BY <1>0, <1>c DEF IndInv, SyncPlace, Expected, WorkerSync, worldVars
<1>9. RanPlace'
  BY <1>0 DEF IndInv, RanPlace, WorkerSync, worldVars, pipelineVars
<1> QED  BY <1>1, <1>2, <1>3, <1>4, <1>5, <1>6, <1>7, <1>8, <1>9 DEF IndInv

\* A worker that ends takes the mutex.
LEMMA WorkerLockExitInv ==
    ASSUME IndInv, NEW w \in Workers, WorkerLockExit(w)
    PROVE  IndInv'
<1>0. /\ pc' \in [Stages -> MainLabels \union WorkerLabels]
      /\ pc'[Main] = pc[Main] /\ pc'[w] = "exiting"
      /\ \A v \in Workers : v # w => pc'[v] = pc[v]
  BY WorkerMoves DEF IndInv, WorkerLockExit, Acquire, MainLabels, WorkerLabels
<1>1. TypeOK'
  BY <1>0, ThreadNames
     DEF IndInv, TypeOK, WorkerLockExit, Acquire, condVars, worldVars,
         pipelineVars, WorkerLabels
<1>2. MainPlace'
  BY <1>0
     DEF IndInv, MainPlace, WorkerLockExit, Acquire, worldVars, pipelineVars
<1>3. ThreadsPlace'
  BY <1>0
     DEF IndInv, ThreadsPlace, ThreadsExist, ThreadCount, WorkerLockExit,
         Acquire, worldVars, pipelineVars
<1>4. MutexPlace'
  BY <1>0, ThreadNames DEF IndInv, MutexPlace, WorkerLockExit, Acquire
<1>5. FlagsPlace'
  BY <1>0
     DEF IndInv, FlagsPlace, WorkerLockExit, Acquire, worldVars, pipelineVars
<1>6. WorkersPlace'
  BY <1>0
     DEF IndInv, TypeOK, WorkersPlace, WorkerPlace, Forked, WorkerLockExit,
         Acquire, condVars
<1>7. Counts'
  BY <1>0, ThreadNames
     DEF IndInv, TypeOK, Counts, Counted, Forked, FlagsPlace, InsideOp,
         WorkerLockExit, Acquire, condVars, worldVars, pipelineVars
<1>8. SyncPlace'
  BY <1>0
     DEF IndInv, SyncPlace, Expected, WorkerLockExit, Acquire, condVars,
         worldVars
<1>9. RanPlace'
  BY <1>0
     DEF IndInv, RanPlace, InsideOp, WorkersPlace, WorkerPlace, WorkerLockExit,
         Acquire
<1> QED  BY <1>1, <1>2, <1>3, <1>4, <1>5, <1>6, <1>7, <1>8, <1>9 DEF IndInv

\* A worker that ends is no longer counted.
LEMMA WorkerExitInv ==
    ASSUME IndInv, NEW w \in Workers, WorkerExit(w)
    PROVE  IndInv'
<1>0. /\ pc' \in [Stages -> MainLabels \union WorkerLabels]
      /\ pc'[Main] = pc[Main] /\ pc'[w] = "stopped"
      /\ \A v \in Workers : v # w => pc'[v] = pc[v]
  BY WorkerMoves DEF IndInv, WorkerExit, MainLabels, WorkerLabels
<1>a. /\ Counted' = Counted \ {w} /\ w \in Counted
  BY <1>0 DEF Counted, WorkerExit
<1>b. /\ Cardinality(Counted') = Cardinality(Counted) - 1
      /\ Cardinality(Counted') \in Nat
  BY <1>a, FS_RemoveElement, FiniteWorkers, FS_CardinalityType
<1>1. TypeOK'
  <2>1. workers_running' \in Nat
    BY <1>b DEF IndInv, Counts, WorkerExit
  <2> QED  BY <1>0, <2>1
              DEF IndInv, TypeOK, WorkerExit, condVars, worldVars, pipelineVars,
                  WorkerLabels
<1>2. MainPlace'
  BY <1>0 DEF IndInv, MainPlace, WorkerExit, worldVars, pipelineVars
<1>3. ThreadsPlace'
  BY <1>0
     DEF IndInv, ThreadsPlace, ThreadsExist, ThreadCount, WorkerExit, worldVars,
         pipelineVars
<1>4. MutexPlace'
  BY <1>0, ThreadNames DEF IndInv, MutexPlace, WorkerExit
<1>5. FlagsPlace'
  BY <1>0 DEF IndInv, FlagsPlace, WorkerExit, worldVars, pipelineVars
<1>6. WorkersPlace'
  BY <1>0
     DEF IndInv, TypeOK, WorkersPlace, WorkerPlace, Forked, WorkerExit, condVars
<1>7. Counts'
  BY <1>0, <1>b DEF IndInv, Counts, Forked, WorkerExit, condVars, worldVars
<1>8. SyncPlace'
  BY <1>0 DEF IndInv, SyncPlace, Expected, WorkerExit, condVars, worldVars
<1>9. RanPlace'
  BY <1>0 DEF IndInv, RanPlace, InsideOp, WorkersPlace, WorkerPlace, WorkerExit
<1> QED  BY <1>1, <1>2, <1>3, <1>4, <1>5, <1>6, <1>7, <1>8, <1>9 DEF IndInv

\* The tasks of a frame are created.
LEMMA CreateTasksInv ==
    ASSUME IndInv, CreateTasks
    PROVE  IndInv'
<1>0. /\ pc' \in [Stages -> MainLabels \union WorkerLabels]
      /\ pc'[Main] = "wait_workers"
      /\ \A v \in Workers :
            pc'[v] = IF use_task_api /\ v < stage_count THEN "start" ELSE pc[v]
  BY ThreadNames
     DEF IndInv, TypeOK, CreateTasks, Created, GoTo, MainLabels, WorkerLabels
<1>a. use_task_api => \A v \in Workers : pc[v] = "none"
  BY DEF IndInv, CreateTasks, ThreadsPlace, ThreadsExist, Joining
<1>1. TypeOK'
  BY <1>0
     DEF IndInv, TypeOK, CreateTasks, condVars, worldVars, pipelineVars,
         MainLabels, WorkerLabels
<1>2. MainPlace'
  BY <1>0 DEF IndInv, MainPlace, Joining, CreateTasks, pipelineVars
<1>3. ThreadsPlace'
  BY <1>0
     DEF IndInv, TypeOK, ThreadsPlace, ThreadsExist, ThreadCount, MainPlace,
         Joining, CreateTasks, worldVars, pipelineVars
<1>4. MutexPlace'
  BY <1>0, <1>a DEF IndInv, MutexPlace, CreateTasks
<1>5. FlagsPlace'
  BY <1>0 DEF IndInv, FlagsPlace, InsideOp, CreateTasks, worldVars
<1>6. WorkersPlace'
  BY <1>0, <1>a
     DEF IndInv, TypeOK, WorkersPlace, WorkerPlace, AllStarted, Forked,
         CreateTasks, condVars
<1>7. Counts'
  <2>1. Counted' = Counted
    BY <1>0, <1>a DEF Counted
  <2> QED  BY <1>0, <2>1 DEF IndInv, Counts, Forked, CreateTasks
<1>8. SyncPlace'
  BY <1>0 DEF IndInv, SyncPlace, CreateTasks, condVars
<1>9. RanPlace'
  BY <1>0 DEF IndInv, RanPlace, InsideOp, CreateTasks
<1> QED  BY <1>1, <1>2, <1>3, <1>4, <1>5, <1>6, <1>7, <1>8, <1>9 DEF IndInv

\* flecs_wait_for_workers returns: all workers are counted, hence all of them wait.
LEMMA WaitForWorkersInv ==
    ASSUME IndInv, WaitForWorkers
    PROVE  IndInv'
<1>0. /\ pc' \in [Stages -> MainLabels \union WorkerLabels]
      /\ pc'[Main] = "next_op" /\ \A v \in Workers : pc'[v] = pc[v]
  BY MainMoves DEF IndInv, WaitForWorkers, MainLabels, WorkerLabels
<1>a. frame # "startup" => \A v \in Workers : pc[v] \notin {"start", "started"}
  BY AllReady DEF WaitForWorkers
<1>1. TypeOK'
  BY <1>0 DEF IndInv, TypeOK, WaitForWorkers, condVars, worldVars, MainLabels
<1>2. MainPlace'
  BY <1>0 DEF IndInv, MainPlace, Joining, WaitForWorkers, worldVars
<1>3. ThreadsPlace'
  BY <1>0
     DEF IndInv, ThreadsPlace, ThreadsExist, ThreadCount, Joining,
         WaitForWorkers, worldVars
<1>4. MutexPlace'
  BY <1>0 DEF IndInv, MutexPlace, WaitForWorkers
<1>5. FlagsPlace'
  BY <1>0 DEF IndInv, FlagsPlace, InsideOp, WaitForWorkers, worldVars
<1>6. WorkersPlace'
  BY <1>0, <1>a
     DEF IndInv, TypeOK, WorkersPlace, WorkerPlace, AllStarted, Forked,
         WaitForWorkers, condVars
<1>7. Counts'
  BY <1>0, <1>a, ThreadNames
     DEF IndInv, TypeOK, Counts, Counted, Forked, FlagsPlace, InsideOp,
         WaitForWorkers, condVars, worldVars, pipelineVars
<1>8. SyncPlace'
  BY <1>0 DEF IndInv, SyncPlace, WaitForWorkers, condVars
<1>9. RanPlace'
  BY <1>0 DEF IndInv, RanPlace, InsideOp, WaitForWorkers
<1> QED  BY <1>1, <1>2, <1>3, <1>4, <1>5, <1>6, <1>7, <1>8, <1>9 DEF IndInv

\* The next operation of the pipeline begins; nobody has run it.
LEMMA BeginOpInv ==
    ASSUME IndInv, BeginOp
    PROVE  IndInv'
<1>0. /\ pc' \in [Stages -> MainLabels \union WorkerLabels]
      /\ pc'[Main] = (IF multi_threaded' THEN "signal" ELSE "run")
      /\ \A v \in Workers : pc'[v] = pc[v]
  BY MainMoves DEF IndInv, BeginOp, Ops, MainLabels, WorkerLabels
<1>1. TypeOK'
  BY <1>0 DEF IndInv, TypeOK, BeginOp, Ops, condVars, MainLabels
<1>2. MainPlace'
  BY <1>0 DEF IndInv, MainPlace, Joining, BeginOp, Ops
<1>3. ThreadsPlace'
  BY <1>0
     DEF IndInv, ThreadsPlace, ThreadsExist, ThreadCount, Joining, BeginOp, Ops
<1>4. MutexPlace'
  BY <1>0 DEF IndInv, MutexPlace, BeginOp, Ops
<1>5. FlagsPlace'
  BY <1>0 DEF IndInv, FlagsPlace, InsideOp, BeginOp, Ops
<1>6. WorkersPlace'
  BY <1>0
     DEF IndInv, TypeOK, WorkersPlace, WorkerPlace, AllStarted, Forked, BeginOp,
         Ops, condVars
<1>7. Counts'
  <2>1. Counted' = Counted
    BY <1>0 DEF Counted
  <2>2. ~ Forked' /\ pc'[Main] # "synced" /\ ~ Forked /\ pc[Main] # "synced"
    BY <1>0 DEF IndInv, BeginOp, FlagsPlace, InsideOp, Forked
  <2> QED  BY <2>1, <2>2 DEF IndInv, Counts, BeginOp
<1>8. SyncPlace'
  BY <1>0 DEF IndInv, SyncPlace, BeginOp, Ops, condVars
<1>9. RanPlace'
  BY <1>0, ThreadNames DEF IndInv, TypeOK, RanPlace, BeginOp, Ops
<1> QED  BY <1>1, <1>2, <1>3, <1>4, <1>5, <1>6, <1>7, <1>8, <1>9 DEF IndInv

\* flecs_signal_workers: all workers wait on worker_cond, so that the broadcast
\* reaches each of them.
LEMMA SignalWorkersInv ==
    ASSUME IndInv, SignalWorkers
    PROVE  IndInv'
<1>0. /\ pc' \in [Stages -> MainLabels \union WorkerLabels]
      /\ pc'[Main] = "run" /\ \A v \in Workers : pc'[v] = pc[v]
  BY MainMoves DEF IndInv, SignalWorkers, Broadcast, MainLabels, WorkerLabels
<1>a. multi_threaded /\ ~ Forked /\ pc[Main] = "signal"
  BY DEF IndInv, FlagsPlace, Forked, SignalWorkers, Broadcast
<1>b. stage_count > 1 =>
         /\ \A v \in Workers : pc[v] \in {"none", "wait"}
         /\ worker_cond' = {} /\ Forked'
  BY <1>0, <1>a
     DEF IndInv, TypeOK, WorkersPlace, WorkerPlace, AllStarted, MainPlace,
         Forked, Joining, SignalWorkers, Broadcast, worldVars
<1>c. stage_count <= 1 => worker_cond' = worker_cond /\ ~ Forked'
  BY DEF IndInv, TypeOK, Forked, SignalWorkers, Broadcast, worldVars
<1>1. TypeOK'
  BY <1>0, <1>c
     DEF IndInv, TypeOK, SignalWorkers, Broadcast, worldVars, pipelineVars,
         MainLabels
<1>2. MainPlace'
  BY <1>0, <1>c
     DEF IndInv, MainPlace, Joining, SignalWorkers, Broadcast, worldVars,
         pipelineVars
<1>3. ThreadsPlace'
  BY <1>0, <1>c
     DEF IndInv, ThreadsPlace, ThreadsExist, ThreadCount, Joining,
         SignalWorkers, Broadcast, worldVars, pipelineVars
<1>4. MutexPlace'
  BY <1>0, <1>c DEF IndInv, MutexPlace, SignalWorkers, Broadcast
<1>5. FlagsPlace'
  BY <1>0, <1>c
     DEF IndInv, FlagsPlace, InsideOp, SignalWorkers, Broadcast, worldVars,
         pipelineVars
<1>6. WorkersPlace'
  <2>1. CASE stage_count > 1
    BY <1>0, <1>b, <2>1 DEF IndInv, WorkersPlace, WorkerPlace
  <2>2. CASE stage_count <= 1
    BY <1>0, <1>a, <1>c, <2>2
       DEF IndInv, TypeOK, WorkersPlace, WorkerPlace, AllStarted, SignalWorkers,
           pipelineVars
  <2> QED  BY <2>1, <2>2 DEF IndInv, TypeOK
<1>7. Counts'
  <2>1. Counted' = Counted
    BY <1>0 DEF Counted
  <2>2. workers_waiting = 0 /\ Cardinality({}) = 0
    BY <1>a, FS_EmptySet DEF IndInv, Counts
  <2> QED  BY <1>0, <1>b, <1>c, <2>1, <2>2
              DEF IndInv, TypeOK, Counts, SignalWorkers
<1>8. SyncPlace'
  BY <1>0, <1>c DEF IndInv, SyncPlace, SignalWorkers, Broadcast
<1>9. RanPlace'
  BY <1>0, <1>a, <1>b, <1>c, ThreadNames
     DEF IndInv, TypeOK, RanPlace, InsideOp, WorkersPlace, WorkerPlace, Forked,
         FlagsPlace, MainPlace, AllStarted, Joining, SignalWorkers, Broadcast,
         condVars, worldVars, pipelineVars
<1> QED  BY <1>1, <1>2, <1>3, <1>4, <1>5, <1>6, <1>7, <1>8, <1>9 DEF IndInv

\* The main thread runs its own stage.
LEMMA MainRunInv ==
    ASSUME IndInv, MainRun
    PROVE  IndInv'
<1>0. /\ pc' \in [Stages -> MainLabels \union WorkerLabels]
      /\ pc'[Main] = (IF multi_threaded /\ stage_count > 1 THEN "sync" ELSE "merge")
      /\ \A v \in Workers : pc'[v] = pc[v]
  BY MainMoves DEF IndInv, MainRun, MainLabels, WorkerLabels
<1>1. TypeOK'
  <2>1. ran' \in [Stages -> Nat]
    BY ThreadNames DEF IndInv, TypeOK, MainRun
  <2> QED  BY <1>0, <2>1
              DEF IndInv, TypeOK, MainRun, condVars, worldVars, MainLabels
<1>2. MainPlace'
  BY <1>0 DEF IndInv, MainPlace, Joining, MainRun, worldVars
<1>3. ThreadsPlace'
  BY <1>0
     DEF IndInv, ThreadsPlace, ThreadsExist, ThreadCount, Joining, MainRun,
         worldVars
<1>4. MutexPlace'
  BY <1>0 DEF IndInv, MutexPlace, MainRun
<1>5. FlagsPlace'
  BY <1>0 DEF IndInv, FlagsPlace, InsideOp, MainRun, worldVars
<1>6. WorkersPlace'
  BY <1>0
     DEF IndInv, TypeOK, WorkersPlace, WorkerPlace, AllStarted, Forked, MainRun,
         condVars, worldVars
<1>7. Counts'
  BY <1>0, ThreadNames
     DEF IndInv, TypeOK, Counts, Counted, Forked, FlagsPlace, InsideOp, MainRun,
         condVars, worldVars, pipelineVars
<1>8. SyncPlace'
  BY <1>0 DEF IndInv, SyncPlace, MainRun, condVars
<1>9. RanPlace'
  BY <1>0, ThreadNames
     DEF IndInv, TypeOK, RanPlace, InsideOp, MainRun, condVars, worldVars
<1> QED  BY <1>1, <1>2, <1>3, <1>4, <1>5, <1>6, <1>7, <1>8, <1>9 DEF IndInv

\* The main thread takes the mutex in flecs_wait_for_sync.
LEMMA MainLockSyncInv ==
    ASSUME IndInv, MainLockSync
    PROVE  IndInv'
<1>0. /\ pc' \in [Stages -> MainLabels \union WorkerLabels]
      /\ pc'[Main] = "test" /\ \A v \in Workers : pc'[v] = pc[v]
  BY MainMoves DEF IndInv, MainLockSync, Acquire, MainLabels, WorkerLabels
<1>1. TypeOK'
  BY <1>0, ThreadNames
     DEF IndInv, TypeOK, MainLockSync, Acquire, condVars, worldVars,
         pipelineVars, WorkerLabels
<1>2. MainPlace'
  BY <1>0
     DEF IndInv, MainPlace, Joining, MainLockSync, Acquire, worldVars,
         pipelineVars
<1>3. ThreadsPlace'
  BY <1>0
     DEF IndInv, ThreadsPlace, ThreadsExist, ThreadCount, Joining, MainLockSync,
         Acquire, worldVars, pipelineVars
<1>4. MutexPlace'
  BY <1>0, ThreadNames DEF IndInv, MutexPlace, MainLockSync, Acquire
<1>5. FlagsPlace'
  BY <1>0
     DEF IndInv, FlagsPlace, InsideOp, MainLockSync, Acquire, worldVars,
         pipelineVars
<1>6. WorkersPlace'
  BY <1>0
     DEF IndInv, TypeOK, WorkersPlace, WorkerPlace, Forked, FlagsPlace,
         MainLockSync, Acquire, condVars, worldVars
<1>7. Counts'
  BY <1>0, ThreadNames
     DEF IndInv, TypeOK, Counts, Counted, Forked, FlagsPlace, InsideOp,
         MainLockSync, Acquire, condVars, worldVars, pipelineVars
<1>8. SyncPlace'
  BY <1>0 DEF IndInv, SyncPlace, MainLockSync, Acquire, condVars
<1>9. RanPlace'
  BY <1>0
     DEF IndInv, RanPlace, InsideOp, MainLockSync, Acquire, condVars, worldVars,
         pipelineVars
<1> QED  BY <1>1, <1>2, <1>3, <1>4, <1>5, <1>6, <1>7, <1>8, <1>9 DEF IndInv

\* The main thread compares workers_waiting with the number of workers and waits if
\* one is missing.
LEMMA MainTestInv ==
    ASSUME IndInv, MainTest
    PROVE  IndInv'
<1>0. /\ pc' \in [Stages -> MainLabels \union WorkerLabels]
      /\ pc'[Main] = (IF workers_waiting # Expected THEN "wait_sync" ELSE "synced")
      /\ \A v \in Workers : pc'[v] = pc[v]
  BY MainMoves DEF IndInv, MainTest, Expected, MainLabels, WorkerLabels
<1>a. Forked /\ frame = "frame"
  BY DEF IndInv, TypeOK, MainTest, FlagsPlace, Forked, MainPlace, Joining
<1>b. workers_waiting = Expected =>
         \A w \in Workers : w < stage_count => w \in worker_cond
  BY <1>a, AllWaiting
<1>c. workers_waiting = Expected => \A v \in Workers :
         pc[v] = "none" \/ (pc[v] = "wait" /\ v \in worker_cond)
  BY <1>a, <1>b DEF IndInv, WorkersPlace, ThreadsPlace, ThreadCount
<1>1. TypeOK'
  BY <1>0, <1>c
     DEF IndInv, TypeOK, MainTest, worldVars, pipelineVars, MainLabels
<1>2. MainPlace'
  BY <1>0, <1>a, <1>c DEF IndInv, MainPlace, Joining, MainTest, pipelineVars
<1>3. ThreadsPlace'
  BY <1>0, <1>a, <1>c
     DEF IndInv, ThreadsPlace, ThreadsExist, ThreadCount, MainTest, worldVars,
         pipelineVars
<1>4. MutexPlace'
  BY <1>0, <1>c, ThreadNames DEF IndInv, MutexPlace, MainTest
<1>5. FlagsPlace'
  BY <1>0, <1>c
     DEF IndInv, FlagsPlace, InsideOp, MainTest, worldVars, pipelineVars
<1>6. WorkersPlace'
  BY <1>0, <1>a, <1>c
     DEF IndInv, TypeOK, WorkersPlace, WorkerPlace, Forked, MainTest, worldVars
<1>7. Counts'
  <2>1. Counted' = Counted
    BY <1>0 DEF Counted
  <2>2. (Forked \/ pc[Main] = "synced")' /\ UNCHANGED worker_cond
    BY <1>0, <1>a DEF Forked, MainTest, worldVars, pipelineVars
  <2> QED  BY <1>a, <2>1, <2>2 DEF IndInv, Counts, MainTest
<1>8. SyncPlace'
  BY <1>0, <1>b, <1>c DEF IndInv, SyncPlace, Expected, MainTest, worldVars
<1>9. RanPlace'
  BY <1>0, <1>c
     DEF IndInv, RanPlace, InsideOp, MainTest, worldVars, pipelineVars
<1> QED  BY <1>1, <1>2, <1>3, <1>4, <1>5, <1>6, <1>7, <1>8, <1>9 DEF IndInv

\* The main thread was signalled: every worker is waiting.
LEMMA MainWakeInv ==
    ASSUME IndInv, MainWake
    PROVE  IndInv'
<1>0. /\ pc' \in [Stages -> MainLabels \union WorkerLabels]
      /\ pc'[Main] = "synced" /\ \A v \in Workers : pc'[v] = pc[v]
  BY MainMoves DEF IndInv, MainWake, Acquire, MainLabels, WorkerLabels
<1>a. Forked /\ workers_waiting = Expected
  BY DEF IndInv, MainWake, Acquire, FlagsPlace, Forked, SyncPlace
<1>b. \A w \in Workers : w < stage_count => w \in worker_cond
  BY <1>a, AllWaiting
<1>c. \A v \in Workers :
         pc[v] = "none" \/ (pc[v] = "wait" /\ v \in worker_cond)
  BY <1>a, <1>b
     DEF IndInv, WorkersPlace, ThreadsPlace, ThreadCount, MainPlace, Forked
<1>1. TypeOK'
  BY <1>0, <1>c, ThreadNames
     DEF IndInv, TypeOK, MainWake, Acquire, condVars, worldVars, pipelineVars,
         MainLabels
<1>2. MainPlace'
  BY <1>0, <1>c
     DEF IndInv, MainPlace, Joining, MainWake, Acquire, worldVars, pipelineVars
<1>3. ThreadsPlace'
  BY <1>0, <1>c
     DEF IndInv, ThreadsPlace, ThreadsExist, ThreadCount, Joining, MainWake,
         Acquire, worldVars, pipelineVars
<1>4. MutexPlace'
  BY <1>0, <1>c DEF IndInv, MutexPlace, MainWake, Acquire
<1>5. FlagsPlace'
  BY <1>0, <1>c
     DEF IndInv, FlagsPlace, InsideOp, MainWake, Acquire, worldVars,
         pipelineVars
<1>6. WorkersPlace'
  BY <1>0, <1>a, <1>b, <1>c, ThreadNames
     DEF IndInv, TypeOK, WorkersPlace, WorkerPlace, AllStarted, Forked,
         FlagsPlace, MainPlace, InsideOp, Joining, MainWake, Acquire, condVars,
         worldVars, pipelineVars
<1>7. Counts'
  BY <1>0, <1>a, <1>c DEF IndInv, Counts, Counted, MainWake, Acquire, condVars
<1>8. SyncPlace'
  BY <1>0, <1>b, <1>c
     DEF IndInv, SyncPlace, MainWake, Acquire, condVars, worldVars
<1>9. RanPlace'
  BY <1>0, <1>c
     DEF IndInv, RanPlace, InsideOp, MainWake, Acquire, condVars, worldVars,
         pipelineVars
<1> QED  BY <1>1, <1>2, <1>3, <1>4, <1>5, <1>6, <1>7, <1>8, <1>9 DEF IndInv

\* The main thread resets workers_waiting.
LEMMA MainSyncedInv ==
    ASSUME IndInv, MainSynced
    PROVE  IndInv'
<1>0. /\ pc' \in [Stages -> MainLabels \union WorkerLabels]
      /\ pc'[Main] = "merge" /\ \A v \in Workers : pc'[v] = pc[v]
  BY MainMoves DEF IndInv, MainSynced, MainLabels, WorkerLabels
<1>1. TypeOK'
  BY <1>0
     DEF IndInv, TypeOK, MainSynced, condVars, worldVars, pipelineVars,
         MainLabels
<1>2. MainPlace'
  BY <1>0 DEF IndInv, MainPlace, Joining, MainSynced, worldVars, pipelineVars
<1>3. ThreadsPlace'
  BY <1>0
     DEF IndInv, ThreadsPlace, ThreadsExist, ThreadCount, Joining, MainSynced,
         worldVars, pipelineVars
<1>4. MutexPlace'
  BY <1>0, ThreadNames DEF IndInv, MutexPlace, MainSynced
<1>5. FlagsPlace'
  BY <1>0 DEF IndInv, FlagsPlace, InsideOp, MainSynced, worldVars, pipelineVars
<1>6. WorkersPlace'
  BY <1>0
     DEF IndInv, TypeOK, WorkersPlace, WorkerPlace, AllStarted, Forked,
         FlagsPlace, MainPlace, Joining, MainSynced, condVars
<1>7. Counts'
  BY <1>0, ThreadNames
     DEF IndInv, TypeOK, Counts, Counted, Forked, FlagsPlace, InsideOp,
         MainSynced, condVars, worldVars, pipelineVars
<1>8. SyncPlace'
  BY <1>0 DEF IndInv, SyncPlace, MainSynced, condVars
<1>9. RanPlace'
  BY <1>0
     DEF IndInv, RanPlace, InsideOp, MainSynced, condVars, worldVars,
         pipelineVars
<1> QED  BY <1>1, <1>2, <1>3, <1>4, <1>5, <1>6, <1>7, <1>8, <1>9 DEF IndInv

\* The commands of the operation are merged; no worker is running.
LEMMA BeginMergeInv ==
    ASSUME IndInv, BeginMerge
    PROVE  IndInv'
<1>0. /\ pc' \in [Stages -> MainLabels \union WorkerLabels]
      /\ pc'[Main] = "merging" /\ \A v \in Workers : pc'[v] = pc[v]
  BY MainMoves DEF IndInv, BeginMerge, MainLabels, WorkerLabels
<1>1. TypeOK'
  BY <1>0, ThreadNames
     DEF IndInv, TypeOK, BeginMerge, condVars, worldVars, pipelineVars,
         MainLabels, WorkerLabels
<1>2. MainPlace'
  BY <1>0 DEF IndInv, MainPlace, Joining, BeginMerge, pipelineVars
<1>3. ThreadsPlace'
  BY <1>0
     DEF IndInv, ThreadsPlace, ThreadsExist, ThreadCount, Joining, BeginMerge,
         pipelineVars
<1>4. MutexPlace'
  BY <1>0 DEF IndInv, MutexPlace, BeginMerge
<1>5. FlagsPlace'
  BY <1>0 DEF IndInv, FlagsPlace, InsideOp, BeginMerge
<1>6. WorkersPlace'
  BY <1>0
     DEF IndInv, TypeOK, WorkersPlace, WorkerPlace, AllStarted, Forked,
         BeginMerge, condVars, pipelineVars
<1>7. Counts'
  BY <1>0, ThreadNames
     DEF IndInv, TypeOK, Counts, Counted, Forked, FlagsPlace, InsideOp,
         BeginMerge, condVars, worldVars, pipelineVars
<1>8. SyncPlace'
  BY <1>0 DEF IndInv, SyncPlace, BeginMerge, condVars
<1>9. RanPlace'
  BY <1>0 DEF IndInv, RanPlace, InsideOp, BeginMerge
<1> QED  BY <1>1, <1>2, <1>3, <1>4, <1>5, <1>6, <1>7, <1>8, <1>9 DEF IndInv

\* The merge has ended.
LEMMA EndMergeInv ==
    ASSUME IndInv, EndMerge
    PROVE  IndInv'
<1>0. /\ pc' \in [Stages -> MainLabels \union WorkerLabels]
      /\ pc'[Main] = "next_op" /\ \A v \in Workers : pc'[v] = pc[v]
  BY MainMoves DEF IndInv, EndMerge, MainLabels, WorkerLabels
<1>1. TypeOK'
  BY <1>0
     DEF IndInv, TypeOK, EndMerge, condVars, worldVars, pipelineVars, MainLabels
<1>2. MainPlace'
  BY <1>0 DEF IndInv, MainPlace, Joining, EndMerge, worldVars, pipelineVars
<1>3. ThreadsPlace'
  BY <1>0
     DEF IndInv, ThreadsPlace, ThreadsExist, ThreadCount, Joining, EndMerge,
         worldVars, pipelineVars
<1>4. MutexPlace'
  BY <1>0 DEF IndInv, MutexPlace, EndMerge
<1>5. FlagsPlace'
  BY <1>0 DEF IndInv, FlagsPlace, InsideOp, EndMerge, worldVars
<1>6. WorkersPlace'
  BY <1>0, ThreadNames
     DEF IndInv, TypeOK, WorkersPlace, WorkerPlace, AllStarted, Forked,
         FlagsPlace, MainPlace, InsideOp, Joining, EndMerge, condVars,
         worldVars, pipelineVars
<1>7. Counts'
  BY <1>0 DEF IndInv, Counts, Counted, Forked, EndMerge
<1>8. SyncPlace'
  BY <1>0 DEF IndInv, SyncPlace, EndMerge, condVars
<1>9. RanPlace'
  BY <1>0 DEF IndInv, RanPlace, InsideOp, EndMerge
<1> QED  BY <1>1, <1>2, <1>3, <1>4, <1>5, <1>6, <1>7, <1>8, <1>9 DEF IndInv

\* The pipeline has ended.
LEMMA EndPipelineInv ==
    ASSUME IndInv, EndPipeline
    PROVE  IndInv'
<1>0. /\ pc' \in [Stages -> MainLabels \union WorkerLabels]
      /\ pc'[Main] = (IF frame = "startup" THEN "create"
                       ELSE IF use_task_api THEN "join" ELSE "idle")
      /\ \A v \in Workers : pc'[v] = pc[v]
  BY MainMoves
     DEF IndInv, EndPipeline, NoRequest, Idle, Ops, MainLabels, WorkerLabels
<1>1. TypeOK'
  <2>1. ran' \in [Stages -> Nat]
    BY DEF IndInv, TypeOK, EndPipeline
  <2> QED  BY <1>0, <2>1, NoRequestType
              DEF IndInv, TypeOK, EndPipeline, condVars, MainLabels
<1>2. MainPlace'
  BY <1>0 DEF IndInv, MainPlace, Joining, EndPipeline, NoRequest, Idle, Ops
<1>3. ThreadsPlace'
  BY <1>0
     DEF IndInv, TypeOK, ThreadsPlace, ThreadsExist, ThreadCount, MainPlace,
         Joining, EndPipeline, NoRequest, Idle, Ops
<1>4. MutexPlace'
  BY <1>0 DEF IndInv, MutexPlace, EndPipeline, NoRequest, Idle, Ops
<1>5. FlagsPlace'
  BY <1>0 DEF IndInv, FlagsPlace, InsideOp, EndPipeline, NoRequest, Idle, Ops
<1>6. WorkersPlace'
  BY <1>0
     DEF IndInv, TypeOK, WorkersPlace, WorkerPlace, AllStarted, Forked,
         EndPipeline, NoRequest, Idle, Ops, condVars
<1>7. Counts'
  BY <1>0, ThreadNames
     DEF IndInv, TypeOK, Counts, Counted, Forked, FlagsPlace, InsideOp,
         EndPipeline, NoRequest, Idle, Ops, condVars, worldVars, pipelineVars
<1>8. SyncPlace'
  BY <1>0 DEF IndInv, SyncPlace, EndPipeline, NoRequest, Idle, Ops, condVars
<1>9. RanPlace'
  BY <1>0 DEF IndInv, RanPlace, InsideOp, EndPipeline, NoRequest, Idle, Ops
<1> QED  BY <1>1, <1>2, <1>3, <1>4, <1>5, <1>6, <1>7, <1>8, <1>9 DEF IndInv

\* flecs_join_worker_threads: nothing to do, or the workers have to be told.
LEMMA JoinInv ==
    ASSUME IndInv, Join
    PROVE  IndInv'
<1>0. /\ pc' \in [Stages -> MainLabels \union WorkerLabels]
      /\ pc'[Main] = (IF Threads = {} THEN request.resume ELSE "join_signal")
      /\ \A v \in Workers : pc'[v] = pc[v]
  BY MainMoves DEF IndInv, TypeOK, Join, MainLabels
<1>a. \A v \in Workers : pc[v] # "none" <=> v \in Threads
  BY DEF IndInv, Join, ThreadsPlace, ThreadCount, MainPlace, Joining, Threads
<1>b. Threads # {} =>
         /\ quit_workers' /\ stage_count > 1
         /\ \A v \in Workers : pc[v] \notin {"start", "started"}
  BY ThreadNames, AllReady DEF IndInv, TypeOK, Join, MainPlace, Threads
<1>c. Threads = {} => quit_workers' = quit_workers
  BY DEF Join
<1>1. TypeOK'
  <2>1. pc'[Main] \in MainLabels
    BY <1>0 DEF IndInv, TypeOK, MainLabels
  <2>2. quit_workers' \in BOOLEAN
    BY <1>b, <1>c DEF IndInv, TypeOK
  <2> QED  BY <1>0, <2>1, <2>2
              DEF IndInv, TypeOK, Join, condVars, worldVars, pipelineVars
<1>2. MainPlace'
  BY <1>0, <1>b, <1>c
     DEF IndInv, TypeOK, MainPlace, Joining, Join, worldVars, pipelineVars
<1>3. ThreadsPlace'
  BY <1>0, <1>a, <1>c
     DEF IndInv, ThreadsPlace, ThreadsExist, ThreadCount, Joining, Join,
         worldVars, pipelineVars
<1>4. MutexPlace'
  BY <1>0, <1>c DEF IndInv, TypeOK, MutexPlace, Join
<1>5. FlagsPlace'
  BY <1>0, <1>c DEF IndInv, TypeOK, FlagsPlace, InsideOp, Join, worldVars
<1>6. WorkersPlace'
  BY <1>0, <1>a, <1>b, <1>c, ThreadNames
     DEF IndInv, TypeOK, WorkersPlace, WorkerPlace, AllStarted, Forked,
         FlagsPlace, MainPlace, InsideOp, Joining, Join, condVars, worldVars,
         pipelineVars
<1>7. Counts'
  BY <1>0, <1>b, <1>c, ThreadNames
     DEF IndInv, TypeOK, Counts, Counted, Forked, Join
<1>8. SyncPlace'
  BY <1>0, <1>c DEF IndInv, TypeOK, SyncPlace, Join, condVars
<1>9. RanPlace'
  BY <1>0, <1>c DEF IndInv, TypeOK, RanPlace, InsideOp, Join
<1> QED  BY <1>1, <1>2, <1>3, <1>4, <1>5, <1>6, <1>7, <1>8, <1>9 DEF IndInv

\* The workers are told to quit.
LEMMA JoinSignalInv ==
    ASSUME IndInv, JoinSignal
    PROVE  IndInv'
<1>0. /\ pc' \in [Stages -> MainLabels \union WorkerLabels]
      /\ pc'[Main] = "joining" /\ \A v \in Workers : pc'[v] = pc[v]
  BY MainMoves DEF IndInv, JoinSignal, Broadcast, MainLabels, WorkerLabels
<1>1. TypeOK'
  BY <1>0
     DEF IndInv, TypeOK, JoinSignal, Broadcast, worldVars, pipelineVars,
         MainLabels
<1>2. MainPlace'
  BY <1>0
     DEF IndInv, MainPlace, Joining, JoinSignal, Broadcast, worldVars,
         pipelineVars
<1>3. ThreadsPlace'
  BY <1>0
     DEF IndInv, ThreadsPlace, ThreadsExist, ThreadCount, Joining, JoinSignal,
         Broadcast, worldVars, pipelineVars
<1>4. MutexPlace'
  BY <1>0 DEF IndInv, MutexPlace, JoinSignal, Broadcast
<1>5. FlagsPlace'
  BY <1>0 DEF IndInv, FlagsPlace, InsideOp, JoinSignal, Broadcast, worldVars
<1>6. WorkersPlace'
  BY <1>0, ThreadNames
     DEF IndInv, TypeOK, WorkersPlace, WorkerPlace, AllStarted, Forked,
         FlagsPlace, MainPlace, InsideOp, Joining, JoinSignal, Broadcast,
         condVars, worldVars, pipelineVars
<1>7. Counts'
  BY <1>0, ThreadNames
     DEF IndInv, TypeOK, Counts, Counted, Forked, FlagsPlace, InsideOp,
         JoinSignal, Broadcast, condVars, worldVars, pipelineVars
<1>8. SyncPlace'
  BY <1>0 DEF IndInv, SyncPlace, JoinSignal, Broadcast
<1>9. RanPlace'
  BY <1>0 DEF IndInv, RanPlace, InsideOp, JoinSignal, Broadcast
<1> QED  BY <1>1, <1>2, <1>3, <1>4, <1>5, <1>6, <1>7, <1>8, <1>9 DEF IndInv

\* All threads have ended: none is left to be counted, and quit_workers is reset.
LEMMA JoinThreadsInv ==
    ASSUME IndInv, JoinThreads
    PROVE  IndInv'
<1>0. /\ pc' \in [Stages -> MainLabels \union WorkerLabels]
      /\ pc'[Main] = request.resume
      /\ \A v \in Workers : pc[v] \in {"none", "stopped"} /\ pc'[v] = "none"
  BY ThreadNames
     DEF IndInv, TypeOK, JoinThreads, Threads, MainLabels, WorkerLabels,
         MainPlace, ThreadsPlace, ThreadCount
<1>1. TypeOK'
  <2>1. request.resume \in MainLabels /\ "none" \in WorkerLabels
    BY DEF IndInv, TypeOK, MainLabels, WorkerLabels
  <2>2. pc'[Main] \in MainLabels /\ \A w \in Workers : pc'[w] \in WorkerLabels
    BY <1>0, <2>1
  <2> QED  BY <1>0, <2>2
              DEF IndInv, TypeOK, JoinThreads, condVars, worldVars, pipelineVars
<1>2. MainPlace'
  BY <1>0 DEF IndInv, TypeOK, MainPlace, Joining, JoinThreads, pipelineVars
<1>3. ThreadsPlace'
  BY <1>0
     DEF IndInv, TypeOK, ThreadsPlace, ThreadsExist, ThreadCount, MainPlace,
         Joining, JoinThreads, worldVars, pipelineVars
<1>4. MutexPlace'
  BY <1>0 DEF IndInv, TypeOK, MutexPlace, JoinThreads
<1>5. FlagsPlace'
  BY <1>0 DEF IndInv, TypeOK, FlagsPlace, InsideOp, JoinThreads, worldVars
<1>6. WorkersPlace'
  BY <1>0, ThreadNames
     DEF IndInv, TypeOK, WorkersPlace, WorkerPlace, AllStarted, Forked,
         FlagsPlace, MainPlace, InsideOp, Joining, JoinThreads, condVars,
         worldVars, pipelineVars
<1>7. Counts'
  BY <1>0, ThreadNames
     DEF IndInv, TypeOK, Counts, Counted, Forked, FlagsPlace, InsideOp,
         JoinThreads, condVars, worldVars, pipelineVars
<1>8. SyncPlace'
  BY <1>0 DEF IndInv, TypeOK, SyncPlace, JoinThreads, condVars
<1>9. RanPlace'
  BY <1>0 DEF IndInv, TypeOK, RanPlace, InsideOp, JoinThreads
<1> QED  BY <1>1, <1>2, <1>3, <1>4, <1>5, <1>6, <1>7, <1>8, <1>9 DEF IndInv

\* ecs_set_threads creates the threads of the new stages.
LEMMA StartThreadsInv ==
    ASSUME IndInv, StartThreads
    PROVE  IndInv'
<1>0. /\ pc' \in [Stages -> MainLabels \union WorkerLabels]
      /\ pc'[Main] = (IF request.threads = 0 THEN "fini" ELSE "idle")
      /\ \A v \in Workers :
            pc'[v] = IF ~ request.tasks /\ v < request.threads THEN "start" ELSE "none"
  <2>1. \A v \in Workers : pc[v] = "none"
    BY DEF IndInv, StartThreads, ThreadsPlace, ThreadsExist, MainPlace, Joining
  <2> QED  BY <2>1, ThreadNames
              DEF IndInv, TypeOK, StartThreads, Created, GoTo, MainLabels,
                  WorkerLabels
<1>a. \A v \in Workers : pc[v] = "none"
  BY DEF IndInv, StartThreads, ThreadsPlace, ThreadsExist, MainPlace, Joining
<1>1. TypeOK'
  BY <1>0
     DEF IndInv, TypeOK, StartThreads, NoRequest, condVars, pipelineVars,
         MainLabels, WorkerLabels
<1>2. MainPlace'
  BY <1>0 DEF IndInv, MainPlace, Joining, StartThreads, NoRequest, pipelineVars
<1>3. ThreadsPlace'
  BY <1>0, ThreadNames
     DEF IndInv, TypeOK, ThreadsPlace, ThreadsExist, ThreadCount, MainPlace,
         Joining, StartThreads, NoRequest, pipelineVars
<1>4. MutexPlace'
  BY <1>0, <1>a DEF IndInv, MutexPlace, StartThreads, NoRequest
<1>5. FlagsPlace'
  BY <1>0 DEF IndInv, FlagsPlace, InsideOp, StartThreads, NoRequest
<1>6. WorkersPlace'
  BY <1>0, <1>a, ThreadNames
     DEF IndInv, TypeOK, WorkersPlace, WorkerPlace, AllStarted, Forked,
         FlagsPlace, MainPlace, InsideOp, Joining, StartThreads, NoRequest,
         condVars, worldVars, pipelineVars
<1>7. Counts'
  <2>1. Counted' = Counted
    BY <1>0, <1>a DEF Counted
  <2> QED  BY <1>0, <2>1 DEF IndInv, Counts, Forked, StartThreads
<1>8. SyncPlace'
  BY <1>0 DEF IndInv, SyncPlace, StartThreads, NoRequest, condVars
<1>9. RanPlace'
  BY <1>0 DEF IndInv, RanPlace, InsideOp, StartThreads, NoRequest
<1> QED  BY <1>1, <1>2, <1>3, <1>4, <1>5, <1>6, <1>7, <1>8, <1>9 DEF IndInv

\* ecs_progress begins a frame.
LEMMA ProgressInv ==
    ASSUME IndInv, Progress
    PROVE  IndInv'
<1>0. /\ pc' \in [Stages -> MainLabels \union WorkerLabels]
      /\ pc'[Main] = (IF first_frame THEN "wait_workers" ELSE "create")
      /\ \A v \in Workers : pc'[v] = pc[v]
  BY MainMoves DEF IndInv, Progress, MainLabels, WorkerLabels
<1>1. TypeOK'
  BY <1>0 DEF IndInv, TypeOK, Progress, condVars, MainLabels
<1>2. MainPlace'
  BY <1>0 DEF IndInv, MainPlace, Joining, Progress
<1>3. ThreadsPlace'
  BY <1>0
     DEF IndInv, ThreadsPlace, ThreadsExist, ThreadCount, MainPlace, Joining,
         Progress
<1>4. MutexPlace'
  BY <1>0 DEF IndInv, MutexPlace, Progress
<1>5. FlagsPlace'
  BY <1>0 DEF IndInv, FlagsPlace, InsideOp, Progress
<1>6. WorkersPlace'
  BY <1>0, ThreadNames
     DEF IndInv, TypeOK, WorkersPlace, WorkerPlace, AllStarted, Forked,
         FlagsPlace, MainPlace, InsideOp, Joining, Progress, condVars,
         worldVars, pipelineVars
<1>7. Counts'
  BY <1>0 DEF IndInv, Counts, Counted, Forked, Progress
<1>8. SyncPlace'
  BY <1>0 DEF IndInv, SyncPlace, Progress, condVars
<1>9. RanPlace'
  BY <1>0 DEF IndInv, RanPlace, InsideOp, Progress
<1> QED  BY <1>1, <1>2, <1>3, <1>4, <1>5, <1>6, <1>7, <1>8, <1>9 DEF IndInv

\* ecs_set_threads, ecs_set_task_threads or ecs_fini first ends the threads there are.
LEMMA SetThreadsInv ==
    ASSUME IndInv, NEW threads \in 0 .. MaxStages, NEW tasks \in BOOLEAN,
           SetThreads(threads, tasks)
    PROVE  IndInv'
<1>0. /\ pc' \in [Stages -> MainLabels \union WorkerLabels]
      /\ pc'[Main] = (IF stage_count > 1 THEN "join" ELSE "set_threads")
      /\ \A v \in Workers : pc'[v] = pc[v]
  BY MainMoves DEF IndInv, SetThreads, MainLabels, WorkerLabels
<1>1. TypeOK'
  BY <1>0 DEF IndInv, TypeOK, SetThreads, condVars, pipelineVars, MainLabels
<1>2. MainPlace'
  BY <1>0 DEF IndInv, MainPlace, Joining, SetThreads, pipelineVars
<1>3. ThreadsPlace'
  BY <1>0, ThreadNames
     DEF IndInv, TypeOK, ThreadsPlace, ThreadsExist, ThreadCount, MainPlace,
         Joining, SetThreads, pipelineVars
<1>4. MutexPlace'
  BY <1>0 DEF IndInv, MutexPlace, SetThreads
<1>5. FlagsPlace'
  BY <1>0 DEF IndInv, FlagsPlace, InsideOp, SetThreads
<1>6. WorkersPlace'
  BY <1>0, ThreadNames
     DEF IndInv, TypeOK, WorkersPlace, WorkerPlace, AllStarted, Forked,
         FlagsPlace, MainPlace, InsideOp, Joining, SetThreads, condVars,
         worldVars, pipelineVars
<1>7. Counts'
  BY <1>0, ThreadNames
     DEF IndInv, TypeOK, Counts, Counted, Forked, FlagsPlace, InsideOp,
         SetThreads, condVars, worldVars, pipelineVars
<1>8. SyncPlace'
  BY <1>0 DEF IndInv, SyncPlace, SetThreads, condVars
<1>9. RanPlace'
  BY <1>0 DEF IndInv, RanPlace, InsideOp, SetThreads
<1> QED  BY <1>1, <1>2, <1>3, <1>4, <1>5, <1>6, <1>7, <1>8, <1>9 DEF IndInv
-----------------------------------------------------------------------------
(***************************************************************************)
(* The invariant holds in every state.                                     *)
(***************************************************************************)
LEMMA InitInv ==
    Init => IndInv
<1> SUFFICES ASSUME Init PROVE IndInv
  OBVIOUS
<1>1. pc[Main] = "idle" /\ \A w \in Workers : pc[w] = "none"
  BY ThreadNames DEF Init, Stages
<1>2. TypeOK
  <2>1. pc \in [Stages -> MainLabels \union WorkerLabels]
    BY DEF Init, Stages, MainLabels, WorkerLabels
  <2>2. ran \in [Stages -> Nat]
    BY DEF Init, Stages
  <2>3. request \in [threads : 0 .. MaxStages, tasks : BOOLEAN,
                    resume : {"idle", "set_threads"}] /\ op \in Ops
    BY NoRequestType DEF Init
  <2>4. 1 \in 1 .. MaxStages /\ 0 \in 0 .. MaxOps
    OBVIOUS
  <2> QED  BY <1>1, <2>1, <2>2, <2>3, <2>4, ThreadNames
              DEF Init, TypeOK, MainLabels, WorkerLabels
<1>3. MainPlace
  BY DEF Init, MainPlace, Joining
<1>4. ThreadsPlace
  BY ThreadNames DEF Init, ThreadsPlace, ThreadCount
<1>5. MutexPlace /\ FlagsPlace
  BY ThreadNames DEF Init, MutexPlace, FlagsPlace, InsideOp
<1>6. WorkersPlace /\ SyncPlace /\ RanPlace
  BY <1>1
     DEF Init, WorkersPlace, WorkerPlace, AllStarted, Forked, SyncPlace,
         RanPlace, InsideOp
<1>7. Counts
  <2>1. Counted = {}
    BY <1>1 DEF Counted
  <2> QED  BY <2>1, FS_EmptySet DEF Init, Counts
<1> QED  BY <1>2, <1>3, <1>4, <1>5, <1>6, <1>7 DEF IndInv

\* A step that changes nothing.
LEMMA StutterInv ==
    ASSUME IndInv, UNCHANGED vars
    PROVE  IndInv'
BY DEF IndInv, vars, condVars, worldVars, pipelineVars, TypeOK, MainPlace,
       ThreadsPlace, ThreadsExist, ThreadCount, MutexPlace, FlagsPlace,
       WorkersPlace, WorkerPlace, AllStarted, Forked, Counts, Counted,
       SyncPlace, Expected, RanPlace

\* Every step of every thread.
LEMMA NextInv ==
    IndInv /\ [Next]_vars => IndInv'
<1> SUFFICES ASSUME IndInv, [Next]_vars PROVE IndInv'
  OBVIOUS
<1>1. CASE Application
  <2>1. ASSUME NEW threads \in 1 .. MaxStages, NEW tasks \in BOOLEAN,
               SetThreads(threads, tasks)
        PROVE  IndInv'
    BY <2>1, SetThreadsInv
  <2>2. CASE Fini
    <3>1. SetThreads(0, FALSE)
      BY <2>2, Zenon DEF Fini
    <3>2. 0 \in 0 .. MaxStages /\ FALSE \in BOOLEAN
      OBVIOUS
    <3> QED  BY <3>1, <3>2, SetThreadsInv, Zenon
  <2> QED  BY <1>1, <2>1, <2>2, ProgressInv DEF Application
<1>2. CASE MainStep
  BY <1>2, CreateTasksInv, WaitForWorkersInv, BeginOpInv, SignalWorkersInv,
     MainRunInv, MainLockSyncInv, MainTestInv, MainWakeInv, MainSyncedInv,
     BeginMergeInv, EndMergeInv, EndPipelineInv, JoinInv, JoinSignalInv,
     JoinThreadsInv, StartThreadsInv
     DEF MainStep
<1>3. ASSUME NEW w \in Workers, Worker(w)
      PROVE  IndInv'
  BY <1>3, WorkerLockStartInv, WorkerReadyInv, WorkerWakeInv, WorkerCheckInv,
     WorkerRunInv, WorkerLockSyncInv, WorkerSyncInv, WorkerLockExitInv,
     WorkerExitInv
     DEF Worker
<1>4. CASE Stopped \/ UNCHANGED vars
  BY <1>4, StutterInv DEF Stopped
<1> QED  BY <1>1, <1>2, <1>3, <1>4 DEF Next

\* In every state the threads are where the invariant says they are.
THEOREM Invariance == Spec => []IndInv
<1> QED  BY InitInv, NextInv, PTL DEF Spec

\* A worker is inside flecs_run_pipeline_ops only while the main thread runs the
\* multithreaded operation it was woken for, in a readonly world: for any number
\* of stages and operations no system of a worker overlaps a merge.
THEOREM WorkersInsideOp == Spec => []WorkersRunInsideOp
<1>1. IndInv => WorkersRunInsideOp
  <2> SUFFICES ASSUME IndInv, NEW w \in Workers, ~ quit_workers,
                      pc[w] \in {"check", "run", "sync", "synced"}
               PROVE  /\ op.multi_threaded /\ multi_threaded /\ readonly
                      /\ pc[Main] \in {"run", "sync", "test", "wait_sync"}
    BY DEF WorkersRunInsideOp
  <2>1. Forked
    BY DEF IndInv, WorkersPlace, WorkerPlace, MainPlace
  <2> QED  BY <2>1 DEF IndInv, TypeOK, FlagsPlace, Forked, Ops
<1> QED  BY <1>1, Invariance, PTL

\* An operation that is about to be merged was run once by the main thread and,
\* if it is multithreaded, once by every worker there is, and by nobody else.
THEOREM StagesRanOnce == Spec => []EveryStageRanOnce
<1>1. IndInv => EveryStageRanOnce
  <2>1. IndInv /\ pc[Main] = "merge" => ran[Main] = 1
    BY DEF IndInv, RanPlace
  <2> SUFFICES ASSUME IndInv, pc[Main] = "merge", NEW w \in Workers
               PROVE  ran[w] = IF multi_threaded /\ w < stage_count THEN 1 ELSE 0
    BY <2>1 DEF EveryStageRanOnce
  <2>2. pc[w] \notin {"sync", "synced"}
    BY DEF IndInv, WorkersPlace, WorkerPlace, Forked
  <2>3. ran[w] = IF multi_threaded /\ stage_count > 1 /\ w \in worker_cond THEN 1 ELSE 0
    BY <2>2 DEF IndInv, RanPlace, InsideOp
  <2>4. w < stage_count /\ stage_count > 1 => w \in worker_cond
    BY DEF IndInv, TypeOK, WorkersPlace, WorkerPlace, AllStarted, Forked,
           ThreadsPlace, ThreadsExist, ThreadCount, MainPlace, Joining
  <2>5. stage_count > 1 /\ w \in worker_cond => w < stage_count
    BY DEF IndInv, WorkersPlace, ThreadsPlace, ThreadCount, MainPlace
  <2> QED  BY <2>3, <2>4, <2>5, ThreadNames DEF IndInv, TypeOK
<1> QED  BY <1>1, Invariance, PTL

\* flecs_set_threads_internal frees the mutex and the condition variables when no
\* thread is left that could use them.
THEOREM FreedSyncUnused == Spec => []NothingUsesFreedSync
<1>1. IndInv => NothingUsesFreedSync
  <2> SUFFICES ASSUME IndInv, pc[Main] = "set_threads"
               PROVE  /\ \A w \in Workers : pc[w] = "none"
                      /\ worker_cond = {} /\ sync_cond = {} /\ mutex = Free
                      /\ workers_running = 0
    BY DEF NothingUsesFreedSync
  <2>1. \A w \in Workers : pc[w] = "none"
    BY DEF IndInv, ThreadsPlace, ThreadsExist, MainPlace, Joining
  <2>2. worker_cond = {} /\ sync_cond = {}
    BY <2>1 DEF IndInv, TypeOK, WorkersPlace, SyncPlace
  <2>3. mutex = Free
    BY <2>1 DEF IndInv, TypeOK, MutexPlace, Stages
  <2>4. Counted = {}
    BY <2>1 DEF Counted
  <2> QED  BY <2>1, <2>2, <2>3, <2>4, FS_EmptySet DEF IndInv, Counts
<1> QED  BY <1>1, Invariance, PTL
-----------------------------------------------------------------------------
(***************************************************************************)
(* The protocol implements ForkJoin.                                       *)
(***************************************************************************)
AtWork == {"check", "run", "sync", "synced"}
MainRunning == {"run", "sync", "test", "wait_sync", "synced", "merge"}

\* Which workers a stage of ForkJoin stands for, in states of the invariant.
LEMMA WorkingIs ==
    ASSUME IndInv
    PROVE  /\ pc[Main] \notin MainRunning => Phase = "merged" /\ Working = {}
           /\ pc[Main] \in MainRunning => Phase = "running"
           /\ Working \in SUBSET Stages
           /\ Main \in Working <=> pc[Main] = "run"
           /\ \A w \in Workers : w \in Working <=>
                 /\ pc[Main] \in MainRunning
                 /\ pc[w] \in AtWork \/ (pc[w] = "wait" /\ w \notin worker_cond)
BY ThreadNames DEF Phase, Working, Stages, MainRunning, AtWork

\* When the main thread merges, nobody works.
LEMMA NobodyWorks ==
    ASSUME IndInv, pc[Main] = "merge"
    PROVE  Working = {}
<1>1. \A w \in Workers : w \notin Working
  BY WorkingIs DEF IndInv, WorkersPlace, WorkerPlace, Forked, AtWork
<1> QED  BY <1>1, WorkingIs DEF Stages

\* The worker that counts itself as waiting has finished; no other step of a
\* worker changes who works.
LEMMA WorkerImplements ==
    ASSUME IndInv, IndInv', NEW w \in Workers, Worker(w)
    PROVE  Abstract!Finish(w) \/ UNCHANGED <<Phase, Working>>
<1>1. pc'[Main] = pc[Main] /\ \A v \in Workers : v # w => pc'[v] = pc[v]
  BY ThreadNames
     DEF IndInv, TypeOK, Worker, WorkerLockStart, WorkerReady, WorkerWake,
         WorkerCheck, WorkerRun, WorkerLockSync, WorkerSync, WorkerLockExit,
         WorkerExit, Acquire, GoTo
<1>2. UNCHANGED Phase
  BY <1>1 DEF Phase
<1>3. /\ Working \in SUBSET Stages /\ Working' \in SUBSET Stages
      /\ Main \in Working' <=> Main \in Working
  <2>1. Working \in SUBSET Stages /\ Working' \in SUBSET Stages
    BY DEF Working, Stages
  <2>2. Main \in Working' <=> Main \in Working
    BY <1>1 DEF Working, Phase
  <2> QED  BY <2>1, <2>2
<1>4. CASE WorkerSync(w)
  <2>1. Forked /\ pc[w] = "synced" /\ pc'[w] = "wait"
    BY <1>4, ThreadNames
       DEF IndInv, TypeOK, WorkersPlace, WorkerPlace, WorkerSync, GoTo
  <2>2. worker_cond' = worker_cond \union {w}
    BY <1>4 DEF WorkerSync
  <2>3. w \in Working /\ Phase = "running"
    BY <2>1, WorkingIs DEF Forked, MainRunning, AtWork
  <2>4. \A v \in Workers : v \in Working' <=> v \in Working /\ v # w
    BY <1>1, <2>1, <2>2 DEF Working, Phase
  <2>5. Working' = Working \ {w}
    BY <1>3, <2>4 DEF Stages
  <2> QED  BY <1>2, <2>3, <2>5 DEF Abstract!Finish
<1>5. CASE ~ WorkerSync(w)
  <2>1. \A v \in Workers : v # w => (v \in worker_cond' <=> v \in worker_cond)
    BY <1>5
       DEF Worker, WorkerLockStart, WorkerReady, WorkerWake, WorkerCheck,
           WorkerRun, WorkerLockSync, WorkerLockExit, WorkerExit, Acquire,
           condVars
  <2>2. \A v \in Workers : v # w => (v \in Working' <=> v \in Working)
    BY <1>1, <1>2, <2>1 DEF Working
  <2>3. w \in Working' <=> w \in Working
    <3>1. Phase = "running" => ~ quit_workers
      BY DEF IndInv, MainPlace, Phase
    <3>2. ~ quit_workers =>
            (pc'[w] \in AtWork \/ (pc'[w] = "wait" /\ w \notin worker_cond')
               <=> pc[w] \in AtWork \/ (pc[w] = "wait" /\ w \notin worker_cond))
      BY <1>5
         DEF IndInv, TypeOK, AtWork, Worker, WorkerLockStart, WorkerReady,
             WorkerWake, WorkerCheck, WorkerRun, WorkerLockSync, WorkerLockExit,
             WorkerExit, Acquire, GoTo, condVars
    <3> QED  BY <1>1, <1>2, <3>1, <3>2 DEF Working, AtWork
  <2>4. Working' = Working
    BY <1>3, <2>2, <2>3 DEF Stages
  <2> QED  BY <1>2, <2>4
<1> QED  BY <1>4, <1>5

\* A step of the main thread that leaves the workers and their condition variable
\* alone, and neither starts nor ends its own part of the operation.
LEMMA MainStutters ==
    ASSUME IndInv, IndInv', pc[Main] # "run", pc'[Main] # "run",
           \/ pc[Main] \notin MainRunning /\ pc'[Main] \notin MainRunning
           \/ /\ pc[Main] \in MainRunning /\ pc'[Main] \in MainRunning
              /\ UNCHANGED worker_cond /\ \A w \in Workers : pc'[w] = pc[w]
    PROVE  UNCHANGED <<Phase, Working>>
<1>1. UNCHANGED Phase
  BY DEF Phase, MainRunning
<1>2. \A t \in Stages : t \in Working' <=> t \in Working
  BY DEF Working, Phase, MainRunning, Stages
<1>3. Working' = Working
  BY <1>2 DEF Working, Stages
<1> QED  BY <1>1 , <1>3

\* An operation is forked by the step that lets the main thread run it.
LEMMA MainForks ==
    ASSUME IndInv, pc[Main] \notin MainRunning, pc'[Main] = "run"
    PROVE  \E S \in SUBSET Stages : Abstract!Fork(S)
<1>1. Phase = "merged" /\ Phase' = "running"
  BY WorkingIs DEF Phase
<1>2. Working' \in SUBSET Stages /\ Main \in Working'
  BY DEF Working, Stages, Phase
<1> QED  BY <1>1, <1>2 DEF Abstract!Fork

\* Every step of the main thread and of the application is a step of ForkJoin.
LEMMA MainImplements ==
    ASSUME IndInv, IndInv', MainStep
    PROVE  Abstract!Next \/ UNCHANGED <<Phase, Working>>
<1>1. CASE MainRun
  <2>1. /\ pc[Main] = "run" /\ pc'[Main] \in {"sync", "merge"}
        /\ \A w \in Workers : pc'[w] = pc[w]
        /\ UNCHANGED worker_cond
    BY <1>1, ThreadNames DEF IndInv, TypeOK, MainRun, GoTo, condVars
  <2>2. Phase = "running" /\ UNCHANGED Phase /\ Main \in Working
    BY <2>1 DEF Phase, Working
  <2>3. \A t \in Stages : t \in Working' <=> t \in Working \ {Main}
    BY <2>1 DEF Working, Phase, Stages
  <2>4. Working' = Working \ {Main}
    BY <2>3 DEF Working, Stages
  <2> QED  BY <2>2, <2>4 DEF Abstract!Next, Abstract!Finish
<1>2. CASE BeginMerge
  <2>1. pc[Main] = "merge" /\ pc'[Main] = "merging"
    BY <1>2 DEF IndInv, TypeOK, BeginMerge, GoTo
  <2>2. Phase = "running" /\ Phase' = "merged" /\ Working' = {}
    BY <2>1 DEF Phase, Working
  <2> QED  BY <2>1, <2>2, NobodyWorks DEF Abstract!Next, Abstract!Join
<1>3. CASE BeginOp \/ SignalWorkers
  <2>1. pc[Main] \notin MainRunning /\ pc'[Main] \in {"run", "signal"}
    BY <1>3, ThreadNames
       DEF IndInv, TypeOK, BeginOp, SignalWorkers, Broadcast, GoTo, MainRunning
  <2>2. CASE pc'[Main] = "run"
    BY <2>1, <2>2, MainForks DEF Abstract!Next, Stages
  <2>3. CASE pc'[Main] = "signal"
    BY <2>1, <2>3, MainStutters DEF MainRunning
  <2> QED  BY <2>1, <2>2, <2>3
<1>4. CASE MainLockSync \/ MainTest \/ MainWake \/ MainSynced
  <2>1. /\ pc[Main] \in {"sync", "test", "wait_sync", "synced"}
        /\ pc'[Main] \in {"test", "wait_sync", "synced", "merge"}
        /\ \A w \in Workers : pc'[w] = pc[w]
        /\ UNCHANGED worker_cond
    BY <1>4, ThreadNames
       DEF IndInv, TypeOK, MainLockSync, MainTest, MainWake, MainSynced,
           Acquire, GoTo, condVars
  <2> QED  BY <2>1, MainStutters DEF MainRunning
<1>5. CASE CreateTasks \/ WaitForWorkers \/ EndMerge \/ EndPipeline
  <2>1. /\ pc[Main] \in {"create", "wait_workers", "merging", "next_op"}
        /\ pc'[Main] \in {"wait_workers", "next_op", "create", "join", "idle"}
    BY <1>5, ThreadNames
       DEF IndInv, TypeOK, CreateTasks, Created, WaitForWorkers, EndMerge,
           EndPipeline, GoTo
  <2> QED  BY <2>1, MainStutters DEF MainRunning
<1>6. CASE Join \/ JoinSignal \/ JoinThreads \/ StartThreads
  <2>1. /\ pc[Main] \in {"join", "join_signal", "joining", "set_threads"}
        /\ pc'[Main] \in {"idle", "set_threads", "join_signal", "joining", "fini"}
    BY <1>6, ThreadNames
       DEF IndInv, TypeOK, Join, JoinSignal, Broadcast, JoinThreads,
           StartThreads, Created, GoTo
  <2> QED  BY <2>1, MainStutters DEF MainRunning
<1> QED  BY <1>1, <1>2, <1>3, <1>4, <1>5, <1>6 DEF MainStep

\* Every step of the threads and of the application is a step of ForkJoin or
\* leaves its state alone.
LEMMA StepImplements ==
    ASSUME IndInv, IndInv', [Next]_vars
    PROVE  [Abstract!Next]_<<Phase, Working>>
<1>1. CASE Application
  <2>1. /\ pc[Main] = "idle"
        /\ pc'[Main] \in {"wait_workers", "create", "join", "set_threads"}
    BY <1>1, ThreadNames
       DEF IndInv, TypeOK, Application, Progress, SetThreads, Fini, GoTo
  <2> QED  BY <2>1, MainStutters DEF MainRunning
<1>2. CASE MainStep
  BY <1>2, MainImplements
<1>3. ASSUME NEW w \in Workers, Worker(w)
      PROVE  [Abstract!Next]_<<Phase, Working>>
  BY <1>3, WorkerImplements DEF Abstract!Next, Stages
<1>4. CASE Stopped \/ UNCHANGED vars
  BY <1>4 DEF Stopped, vars, condVars, Phase, Working
<1> QED  BY <1>1, <1>2, <1>3, <1>4 DEF Next

\* The threads implement fork and join: for any number of stages an operation
\* starts only when the last merge is over, and a merge only when the main thread
\* and every worker that was woken have finished their part.
THEOREM ForkJoinImplemented == Spec => ImplementsForkJoin
<1>1. Init => Abstract!Init
  BY DEF Init, Abstract!Init, Phase, Working
<1>2. IndInv /\ IndInv' /\ [Next]_vars => [Abstract!Next]_<<Phase, Working>>
  BY StepImplements
<1> QED  BY <1>1, <1>2, Invariance, PTL
            DEF Spec, ImplementsForkJoin, Abstract!Spec
=============================================================================
