-------------------------- MODULE PipelineSchedule --------------------------
(***************************************************************************)
(* The schedule of a pipeline (addons/pipeline/pipeline.c): how the systems*)
(* it matches are divided into operations between which commands are       *)
(* merged, and how the main thread walks the schedule during a frame while *)
(* merges change which systems there are.                                  *)
(*                                                                         *)
(* Pointers into the vectors `ops` and `systems` are positions, counted    *)
(* from 1; 0 stands for a NULL cur_op.                                     *)
(***************************************************************************)
EXTENDS Integers, Sequences, FiniteSets, SequencesExt

CONSTANTS
    Systems,      \* the systems, a sequence in the order of the pipeline query
    Descriptors,  \* the descriptors a system may have
    Wildcard,     \* the component id EcsWildcard
    IsWildcard(_),\* ecs_id_is_wildcard(id)
    IdMatch(_, _),\* ecs_id_match(id, pattern)
    Components,   \* the ids that are not wildcards
    MaxChanges,   \* bound: how many systems one merge may change
    Changing,     \* bound: systems only change when all have these descriptors
    AllMayLeave   \* TRUE: a merge may remove every system that already ran

ASSUME MaxChangesAssumption == MaxChanges \in Nat /\ Changing \subseteq Descriptors
ASSUME AllMayLeaveAssumption == AllMayLeave \in BOOLEAN

\* The query yields each system once; a system has flags and a list of terms.
ASSUME SystemsAssumption ==
    /\ Systems \in Seq(ToSet(Systems))
    /\ \A i, j \in DOMAIN Systems : Systems[i] = Systems[j] => i = j
ASSUME DescriptorsAssumption ==
    \A d \in Descriptors :
        /\ d.multi_threaded \in BOOLEAN /\ d.immediate \in BOOLEAN
        /\ d.terms \in Seq(ToSet(d.terms))

\* A component matches an id that is not a wildcard only if it is that id.
ASSUME IdMatchAssumption ==
    /\ IsWildcard(Wildcard)
    /\ \A c \in Components :
        /\ ~ IsWildcard(c)
        /\ \A d \in Descriptors : \A t \in ToSet(d.terms) :
              ~ IsWildcard(t.id) => (IdMatch(c, t.id) => c = t.id)

VARIABLES
    desc,         \* the descriptor of each system
    status,       \* "active"; "inactive": has EcsEmpty; "absent": not matched
    ops,          \* pq->ops
    systems,      \* pq->systems
    stale,        \* the query's match count is not the one of the schedule
    cur_op,       \* pq->cur_op
    cur_i,        \* pq->cur_i
    pc,           \* where flecs_run_pipeline is
    ran,          \* systems whose last_frame is this frame
    run_count,    \* history: 0, 1 or (2) more runs of each system in this frame
    steady        \* history: systems active since the frame began

vars == <<desc, status, ops, systems, stale, cur_op, cur_i, pc, ran,
          run_count, steady>>

SystemSet == ToSet(Systems)

\* The member of a singleton.  TLC evaluates the members of a set once, but a
\* definition in a LET each time it is used.
Only(S) == CHOOSE x \in S : TRUE
-----------------------------------------------------------------------------
(***************************************************************************)
(* Components written by commands since the last merge.                    *)
(***************************************************************************)
NoWrites == [barrier |-> FALSE, ids |-> {}]

\* Mutant: components that match through a wildcard are not looked up.
StagedExact(ws, id) ==
    ws.barrier \/ (id = Wildcard /\ ws.ids # {}) \/ id \in ws.ids

\* flecs_pipeline_get_write_state.  The set ids holds the keys of both maps of
\* the code, ids and wildcard_ids.
Staged(ws, id) ==
    \/ ws.barrier
    \/ id = Wildcard /\ ws.ids # {}
    \/ \E x \in ws.ids :
          IF IsWildcard(x) THEN IdMatch(id, x)
          ELSE IF IsWildcard(id) THEN IdMatch(x, id)
          ELSE x = id

\* flecs_pipeline_set_write_state
SetStaged(ws, id) ==
    IF id = Wildcard THEN [ws EXCEPT !.barrier = TRUE]
                     ELSE [ws EXCEPT !.ids = @ \union {id}]

(***************************************************************************)
(* flecs_pipeline_check_term: does the term need a merge, and what does    *)
(* the system write to its stage.  The source of a term is "this", "shared"*)
(* (this, but not self), "fixed" or "none" (ecs_term_match_0).             *)
(***************************************************************************)
InOut(term) ==
    IF term.inout # "default" THEN term.inout
    ELSE IF term.src = "none" THEN "none"
    ELSE IF term.src = "this" THEN "inout" ELSE "in"

FromThis(term) == term.src \in {"this", "shared"}

FromAny(term) ==
    \/ term.src = "none" /\ InOut(term) # "none"
    \/ term.oper = "not" /\ InOut(term) = "out"

CheckTerm(acc, term, active) ==
    LET staged == Staged(acc.ws, term.id)
        merge == FromThis(term) /\ staged
        writes == FromAny(term) /\ InOut(term) \in {"out", "inout"} /\ active
        reads == FromAny(term) /\ InOut(term) \in {"in", "inout"}
    IN  IF term.inout = "filter" THEN acc
        ELSE IF merge THEN [acc EXCEPT !.merge = TRUE]
        ELSE [ws |-> IF writes THEN SetStaged(acc.ws, term.id) ELSE acc.ws,
              merge |-> acc.merge \/ (reads /\ staged)]

\* One of the loops of flecs_pipeline_check_terms: over the terms on $this, or
\* over the others.
CheckPass(terms, active, this, start) ==
    FoldLeft(LAMBDA acc, t : IF FromThis(t) # this THEN acc
                             ELSE Only({CheckTerm(a, t, active) : a \in {acc}}),
             start, terms)

\* flecs_pipeline_check_terms: the terms on $this come first.
CheckTerms(terms, active, ws) ==
    CheckPass(terms, active, FALSE,
              CheckPass(terms, active, TRUE, [ws |-> ws, merge |-> FALSE]))
-----------------------------------------------------------------------------
(***************************************************************************)
(* flecs_pipeline_build: one operation of a run of systems up to the next  *)
(* merge.  The accumulator holds the local variables of the loop; `open` is*)
(* the operation being filled, the last of ops, if any.                    *)
(***************************************************************************)
NewOp(offset) ==
    [offset |-> offset, count |-> 0, multi_threaded |-> FALSE, immediate |-> FALSE]

BuildStart ==
    [ops |-> <<>>, systems |-> <<>>, open |-> FALSE, ws |-> NoWrites,
     first |-> TRUE, multi_threaded |-> FALSE, immediate |-> FALSE]

\* Mutant: only the multi_threaded flag is compared.
FlagsChangedThreads(b, mt, im) == ~ b.first /\ mt # b.multi_threaded

\* The system cannot share the operation of the systems before it.
FlagsChanged(b, mt, im) ==
    ~ b.first /\ (mt # b.multi_threaded \/ im # b.immediate)

\* The system is checked (check) and added to the schedule.
BuildWith(b, s, check) ==
    LET d == desc[s]
        active == status[s] = "active"
        \* the flags of the operation under construction
        mt == IF active THEN d.multi_threaded ELSE b.multi_threaded
        im == IF active THEN d.immediate ELSE b.immediate
        merge == check.merge \/ (active /\ FlagsChanged(b, mt, im)) \/ im
        ws == IF ~ merge THEN check.ws
              ELSE IF active THEN CheckTerms(d.terms, TRUE, NoWrites).ws
              ELSE NoWrites
        open == b.open /\ ~ (merge /\ Last(b.ops).count > 0)
        ops1 == IF open THEN b.ops
                ELSE Append(b.ops, NewOp(Len(b.systems) + 1))
        n == Len(ops1)
        op == ops1[n]
        filled == [offset |-> op.offset, count |-> op.count + 1,
                   multi_threaded |-> IF op.count = 0 THEN mt ELSE op.multi_threaded,
                   immediate |-> IF op.count = 0 THEN im ELSE op.immediate]
    IN  [ops |-> IF active THEN [ops1 EXCEPT ![n] = filled] ELSE ops1,
         systems |-> IF active THEN Append(b.systems, s) ELSE b.systems,
         open |-> TRUE, ws |-> ws, first |-> b.first /\ ~ active,
         multi_threaded |-> mt, immediate |-> im]

BuildStep(b, s) ==
    Only({BuildWith(b, s, c) : c \in {CheckTerms(desc[s].terms, status[s] = "active", b.ws)}})

\* The loop over the systems that the pipeline query matches.
BuildLoop(matched) ==
    FoldLeft(LAMBDA b, s : IF status[s] = "absent" THEN b
                           ELSE Only({BuildStep(x, s) : x \in {b}}),
             BuildStart, matched)

\* An empty operation at the end is dropped.
BuildEnd(b) ==
    [ops |-> IF Len(b.ops) > 1 /\ Last(b.ops).count = 0 THEN Front(b.ops) ELSE b.ops,
     systems |-> b.systems]

\* Mutant: the systems are not taken in the order of the query.
BuildReversed == Only({BuildEnd(b) : b \in {BuildLoop(Reverse(Systems))}})

Build == Only({BuildEnd(b) : b \in {BuildLoop(Systems)}})

\* Mutant: an operation that ends one system after position i counts as done.
OpAfterNext(b, i) ==
    LET done == {k \in DOMAIN b.ops : b.ops[k].offset + b.ops[k].count - 1 <= i + 1}
    IN  IF Len(b.ops) \in done THEN 0
        ELSE CHOOSE k \in DOMAIN b.ops \ done : \A j \in DOMAIN b.ops \ done : k <= j

\* The operation that holds position i of the schedule, or the next one if i is
\* the last position of its operation.
OpAfter(b, i) ==
    LET done == {k \in DOMAIN b.ops : b.ops[k].offset + b.ops[k].count - 1 <= i}
    IN  IF Len(b.ops) \in done THEN 0
        ELSE CHOOSE k \in DOMAIN b.ops \ done : \A j \in DOMAIN b.ops \ done : k <= j

\* Mutant: a rebuilt schedule is walked from its start, as in a new frame.
ResumeAtStart(b) == [op |-> 1, i |-> 0]

\* Where the frame is in a rebuilt schedule: at the last system that already ran
\* in this frame.  If none of them is left nothing is assigned.
Resume(b) ==
    LET seen == {i \in DOMAIN b.systems : b.systems[i] \in ran}
    IN  IF seen = {} THEN [op |-> cur_op, i |-> cur_i]
        ELSE LET i == CHOOSE i \in seen : \A j \in seen : j <= i
                 k == OpAfter(b, i)
             IN  [op |-> k, i |-> IF k = 0 THEN 1 ELSE i]

\* flecs_pipeline_next_system.  A cur_op behind the last operation of a rebuilt
\* schedule points at memory the vector no longer uses; the walk ends there.
NextSystem(schedule, p) ==
    LET i == p.i + 1
    IN  IF p.op = 0 THEN p
        ELSE IF p.op > Len(schedule.ops) THEN [op |-> 0, i |-> i]
        ELSE IF i < schedule.ops[p.op].offset + schedule.ops[p.op].count
          THEN [p EXCEPT !.i = i]
        ELSE [op |-> IF p.op + 1 > Len(schedule.ops) THEN 0 ELSE p.op + 1,
              i |-> i]
-----------------------------------------------------------------------------
Init ==
    /\ desc \in [SystemSet -> Descriptors]
    /\ status \in [SystemSet -> {"active", "inactive", "absent"}]
    /\ ops = <<>> /\ systems = <<>>
    /\ stale = TRUE
    /\ cur_op = 0 /\ cur_i = 1
    /\ pc = "idle"
    /\ ran = {}
    /\ run_count = [s \in SystemSet |-> 0]
    /\ steady = {}

\* ecs_progress enters flecs_run_pipeline: the schedule is brought up to date
\* and the walk starts at its first operation.
StartFrame ==
    \E b \in {IF stale THEN Build ELSE [ops |-> ops, systems |-> systems]} :
        /\ pc = "idle"
        /\ ops' = b.ops /\ systems' = b.systems
        /\ stale' = FALSE
        /\ cur_op' = IF b.ops = <<>> THEN 0 ELSE 1
        /\ cur_i' = 1
        /\ pc' = IF b.ops = <<>> THEN "done" ELSE "loop"
        /\ ran' = {}
        /\ run_count' = [s \in SystemSet |-> 0]
        /\ steady' = {s \in SystemSet : status[s] = "active"}
        /\ UNCHANGED <<desc, status>>

\* The systems from cur_i on until the operation has run as many as it counts.
OpEnd == ops[cur_op].offset + ops[cur_op].count - 1
ToRun == {i \in DOMAIN systems : i >= cur_i /\ (cur_i > OpEnd \/ i <= OpEnd)}

\* Commands, or the application between frames, enable, disable, create or delete
\* systems.  The match count of the pipeline query then changes; it may also
\* change when the tables of the systems are merely sorted again.
ChangeSystems ==
    /\ status' \in [SystemSet -> {"active", "inactive", "absent"}]
    /\ status' # status => \A s \in SystemSet : desc[s] \in Changing
    /\ Cardinality({s \in SystemSet : status'[s] # status[s]}) <= MaxChanges
    /\ stale' \in BOOLEAN
    /\ status' # status => stale'

(***************************************************************************)
(* flecs_run_pipeline_ops for the operation, then the merge, which      *)
(* executes the commands of the systems.                                   *)
(***************************************************************************)
RunOp ==
    /\ pc = "loop"
    /\ cur_i # Len(systems) + 1
    /\ ran' = ran \union {systems[i] : i \in ToRun}
    /\ run_count' = [s \in SystemSet |->
          IF \A i \in ToRun : systems[i] # s THEN run_count[s]
          ELSE IF run_count[s] = 0 THEN 1 ELSE 2]
    /\ cur_i' = IF OpEnd \in ToRun THEN OpEnd ELSE Len(systems) + 1
    /\ ChangeSystems
    /\ ~ AllMayLeave => \E s \in ran' : status'[s] = "active"
    /\ steady' = {s \in steady : status'[s] = "active"}
    /\ pc' = "update"
    /\ UNCHANGED <<desc, ops, systems, cur_op>>

\* flecs_pipeline_update after a merge, or when the schedule holds no system.
Update ==
    /\ pc = "update" \/ (pc = "loop" /\ cur_i = Len(systems) + 1)
    /\ \E b \in {IF stale THEN Build ELSE [ops |-> ops, systems |-> systems]} :
       \E at \in {NextSystem(b, IF stale THEN Resume(b)
                                        ELSE [op |-> cur_op, i |-> cur_i])} :
        /\ ops' = b.ops /\ systems' = b.systems
        /\ stale' = FALSE
        /\ cur_op' = at.op /\ cur_i' = at.i
        /\ pc' = IF at.op = 0 THEN "done" ELSE "loop"
        /\ UNCHANGED <<desc, status, ran, run_count, steady>>

\* Back in ecs_progress; the application may change systems between frames.
EndFrame ==
    /\ pc = "done"
    /\ ChangeSystems
    /\ pc' = "idle"
    /\ UNCHANGED <<desc, ops, systems, cur_op, cur_i, ran, run_count, steady>>

Frame == StartFrame \/ RunOp \/ Update \/ EndFrame
Next == Frame
Spec == Init /\ [][Next]_vars /\ WF_vars(Frame)
-----------------------------------------------------------------------------
(***************************************************************************)
(* Properties.                                                             *)
(***************************************************************************)
Members(o) == {systems[i] : i \in o.offset .. o.offset + o.count - 1}

\* The operations cut the scheduled systems into consecutive pieces, without
\* gaps or overlap, and the flags of a piece are those of each of its systems:
\* an immediate system is never run on a stage, a single-threaded one never on
\* the workers.
OpsCutSchedule ==
    /\ \A k \in DOMAIN ops :
          /\ ops[k].offset = IF k = 1 THEN 1
                             ELSE ops[k - 1].offset + ops[k - 1].count
          /\ \A s \in Members(ops[k]) :
                /\ desc[s].multi_threaded = ops[k].multi_threaded
                /\ desc[s].immediate = ops[k].immediate
    /\ ops # <<>> => Last(ops).offset + Last(ops).count = Len(systems) + 1

\* What a term adds to the stage, and what it needs to find merged.
TermWrites(t) ==
    t.inout # "filter" /\ FromAny(t) /\ InOut(t) \in {"out", "inout"}

TermNeeds(t) ==
    /\ t.inout # "filter"
    /\ FromThis(t) \/ (FromAny(t) /\ InOut(t) \in {"in", "inout"})

Writes(s) == {t.id : t \in {x \in ToSet(desc[s].terms) : TermWrites(x)}}
Needs(s) == {t.id : t \in {x \in ToSet(desc[s].terms) : TermNeeds(x)}}

\* There is a component that both ids stand for.
SameComponent(x, y) ==
    \/ Wildcard \in {x, y}
    \/ \E c \in Components : (c = x \/ IdMatch(c, x)) /\ (c = y \/ IdMatch(c, y))

Position(s) == CHOOSE i \in DOMAIN Systems : Systems[i] = s

\* No write is lost because a write by the same system precedes it: a term on $this
\* whose id is staged sends the system back before its own write is recorded.
NoLostWrite ==
    \A d \in Descriptors : \A i, j \in DOMAIN d.terms :
        /\ i < j /\ FromThis(d.terms[i]) /\ FromThis(d.terms[j])
        /\ TermWrites(d.terms[i]) /\ TermWrites(d.terms[j])
        => ~ Staged(SetStaged(NoWrites, d.terms[i].id), d.terms[j].id)

\* A wildcard that is needed matches each wildcard that is written and stands for
\* one of its components.
WriteIds == UNION {{t.id : t \in {x \in ToSet(d.terms) : TermWrites(x)}} : d \in Descriptors}
NeedIds == UNION {{t.id : t \in {x \in ToSet(d.terms) : TermNeeds(x)}} : d \in Descriptors}

NoCrossing ==
    \A x \in WriteIds \ {Wildcard}, z \in NeedIds \ {Wildcard} :
        IsWildcard(x) /\ IsWildcard(z) /\ SameComponent(x, z) => IdMatch(z, x)

\* "When a pipeline sees a read for a component for which commands could have been
\* inserted, a sync point is inserted before the system that reads": this includes
\* a reader that is inactive, since the merge may be what makes it match.
MergeBeforeUse ==
    ~ stale => \A k \in DOMAIN ops : \A a \in Members(ops[k]), z \in Members(ops[k]) :
        \A s \in SystemSet :
            /\ status[s] # "absent"
            /\ Position(a) < Position(s) /\ Position(s) <= Position(z)
            => \A x \in Writes(a), y \in Needs(s) : ~ SameComponent(x, y)

\* "We know from where to resume the schedule in case the schedule changes during
\* a merge": a system that is active during the whole frame runs in that frame.
NoSystemSkipped == pc = "done" => \A s \in steady : run_count[s] = 1

\* Systems run in the order of the pipeline: when a system runs, no system of the
\* schedule that comes after it has already run in this frame.
RunsInOrder ==
    [][\A s \in SystemSet : run_count'[s] > run_count[s] =>
          \A r \in ran \intersect ToSet(systems) : Position(r) < Position(s)]_vars

\* Every frame ends, even if every merge changes the systems: a rebuilt schedule
\* never takes the walk back (the loop of flecs_run_pipeline).
FrameEnds == pc # "idle" ~> pc = "idle"
=============================================================================
