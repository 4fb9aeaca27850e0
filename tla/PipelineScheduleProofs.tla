----------------------- MODULE PipelineScheduleProofs ------------------------
(***************************************************************************)
(* Proofs about PipelineSchedule, for any systems, terms and changes of    *)
(* the systems by merges.  They follow the code: what the check of a term  *)
(* and the two loops over the terms find out (CheckTermsIs), what one      *)
(* system adds to the schedule (ShapeStep, MergedStep), what the loop over *)
(* the systems builds (BuildIs), where the walk goes on in a rebuilt       *)
(* schedule (ResumeIs, UpdateWalks), and the invariant of the frame.  The  *)
(* loops are folds, and the facts about them come from module Induction.   *)
(***************************************************************************)
EXTENDS PipelineSchedule, SequenceTheorems, TLAPS

(***************************************************************************)
(* What a schedule is: o the operations, y the systems.                    *)
(***************************************************************************)
Ops == [offset : Nat, count : Nat, multi_threaded : BOOLEAN, immediate : BOOLEAN]

\* The systems are in the order of the query.
InOrder(y) ==
    /\ y \in Seq(SystemSet)
    /\ \A i, j \in DOMAIN y : i < j => Position(y[i]) < Position(y[j])

\* The n operations o cut the m systems y into pieces with the same flags; only
\* the last one may be empty.
Pieces(o, n, y, m) ==
    /\ \A k \in 1 .. n :
          /\ o[k] \in Ops
          /\ o[k].offset = IF k = 1 THEN 1 ELSE o[k - 1].offset + o[k - 1].count
          /\ k < n => o[k].count > 0
          /\ o[k].offset >= 1 /\ o[k].offset + o[k].count <= m + 1
          /\ \A i \in o[k].offset .. o[k].offset + o[k].count - 1 :
                /\ desc[y[i]].multi_threaded = o[k].multi_threaded
                /\ desc[y[i]].immediate = o[k].immediate
    /\ IF n = 0 THEN m = 0 ELSE o[n].offset + o[n].count = m + 1

Cut(o, y) == o \in Seq(Ops) /\ Pieces(o, Len(o), y, Len(y))

\* The scheduled systems are the active ones among the first k of the query.
Scheduled(y, k) ==
    /\ \A i \in DOMAIN y : status[y[i]] = "active" /\ Position(y[i]) <= k
    /\ \A j \in 1 .. k : status[Systems[j]] = "active" => \E i \in DOMAIN y : y[i] = Systems[j]

\* What a writes to its stage concerns something that s needs.
Conflict(a, s) == \E x \in Writes(a), z \in Needs(s) : SameComponent(x, z)

\* No system between two systems of an operation needs what one before it
\* writes.
Merged(o, y) ==
    \A k \in DOMAIN o :
        \A i, j \in o[k].offset .. o[k].offset + o[k].count - 1 :
            \A s \in SystemSet :
                /\ status[s] # "absent"
                /\ Position(y[i]) < Position(s) /\ Position(s) <= Position(y[j])
                => ~ Conflict(y[i], s)

\* What an operation under construction knows: the writes of its systems, none
\* of which a later system up to the k-th needs.
Covers(ws, a) ==
    \A x \in Writes(a) : IF x = Wildcard THEN ws.barrier ELSE x \in ws.ids

OpenMerged(b, k) ==
    b.ops # <<>> =>
        \A i \in b.ops[Len(b.ops)].offset .. Len(b.systems) :
            /\ Covers(b.ws, b.systems[i])
            /\ \A j \in 1 .. k :
                  /\ status[Systems[j]] # "absent"
                  /\ Position(b.systems[i]) < j
                  => ~ Conflict(b.systems[i], Systems[j])

\* The ids of terms, and what can be staged.
TermIds == UNION {{t.id : t \in ToSet(d.terms)} : d \in Descriptors}
WriteStates == [barrier : BOOLEAN, ids : SUBSET TermIds]

\* The loop over the first k systems.
Shape(b, k) ==
    /\ InOrder(b.systems) /\ Cut(b.ops, b.systems) /\ Scheduled(b.systems, k)
    /\ b.open = (b.ops # <<>>)
    /\ b.ws \in WriteStates
    /\ b.first \in BOOLEAN /\ b.multi_threaded \in BOOLEAN /\ b.immediate \in BOOLEAN
    /\ b.ops # <<>> /\ b.ops[Len(b.ops)].count > 0 =>
          /\ ~ b.first
          /\ b.ops[Len(b.ops)].multi_threaded = b.multi_threaded
          /\ b.ops[Len(b.ops)].immediate = b.immediate

-----------------------------------------------------------------------------
(***************************************************************************)
(* The inductive invariant.                                                *)
(***************************************************************************)
TypeOK ==
    /\ desc \in [SystemSet -> Descriptors]
    /\ status \in [SystemSet -> {"active", "inactive", "absent"}]
    /\ stale \in BOOLEAN
    /\ cur_op \in Nat /\ cur_i \in Nat
    /\ pc \in {"idle", "loop", "update", "done"}
    /\ ran \in SUBSET SystemSet /\ steady \in SUBSET SystemSet
    /\ run_count \in [SystemSet -> 0 .. 2]

\* The schedule is one that flecs_pipeline_build returned, for the systems as they
\* are unless it is stale, and it is not stale while it is walked.
ScheduleInv ==
    /\ pc \in {"loop", "done"} => ~ stale
    /\ InOrder(systems) /\ Cut(ops, systems)
    /\ Len(ops) > 1 => ops[Len(ops)].count > 0
    /\ ~ stale => Scheduled(systems, Len(Systems))
    /\ ~ stale /\ NoLostWrite /\ NoCrossing => Merged(ops, systems)

\* During a frame: a system that was active all the time and comes before one
\* that ran has run too.
FrameInv ==
    pc # "idle" =>
        /\ \A s \in SystemSet : run_count[s] = IF s \in ran THEN 1 ELSE 0
        /\ \A s \in steady : \A r \in ran : Position(s) <= Position(r) => s \in ran
        /\ pc # "done" => \A s \in steady : status[s] = "active"

\* The walk is in its operation, behind the systems that have run, and the steady
\* systems behind it have run.
WalkInv ==
    /\ pc \in {"loop", "update"} =>
          /\ cur_op \in DOMAIN ops
          /\ \A j \in DOMAIN systems :
                systems[j] \in ran => IF pc = "loop" THEN j < cur_i ELSE j <= cur_i
          /\ \A j \in DOMAIN systems :
                systems[j] \in steady /\ (IF pc = "loop" THEN j < cur_i ELSE j <= cur_i) => systems[j] \in ran
    /\ pc = "loop" =>
          /\ cur_i >= ops[cur_op].offset
          /\ IF systems = <<>> THEN cur_i = 1
             ELSE cur_i < ops[cur_op].offset + ops[cur_op].count
    /\ pc = "update" =>
          /\ cur_i = ops[cur_op].offset + ops[cur_op].count - 1
          /\ cur_i \in DOMAIN systems
          /\ \E s \in ran : status[s] = "active"
    /\ pc = "done" => \A s \in steady : s \in ran

\* FrameInv and WalkInv need a system that ran to stay active in each merge.
IndInv == TypeOK /\ ScheduleInv /\ (~ AllMayLeave => FrameInv /\ WalkInv)
-----------------------------------------------------------------------------
(***************************************************************************)
(* The write state and the check of one term.                              *)
(***************************************************************************)
\* The results of a check; what one term stages; an id is recorded as written;
\* a write state records all that another does.
Checks == [ws : WriteStates, merge : BOOLEAN]
Single(t) == SetStaged(NoWrites, t.id)
Written(ws, id) == IF id = Wildcard THEN ws.barrier ELSE id \in ws.ids
Grown(ws, new) == (ws.barrier => new.barrier) /\ ws.ids \subseteq new.ids

\* The member of a singleton is its element.
LEMMA OnlyIs ==
    ASSUME NEW x
    PROVE  Only({x}) = x
BY DEF Only

\* A write adds the id to the write state and forgets nothing.
LEMMA SetStagedType ==
    ASSUME NEW ws \in WriteStates, NEW id \in TermIds
    PROVE  /\ SetStaged(ws, id) \in WriteStates
           /\ Grown(ws, SetStaged(ws, id))
           /\ Written(SetStaged(ws, id), id)
           /\ \A x : Written(ws, x) => Written(SetStaged(ws, id), x)
BY DEF SetStaged, WriteStates, Grown, Written

\* A write state that has grown stages at least as much.
LEMMA StagedGrows ==
    ASSUME NEW ws \in WriteStates, NEW new \in WriteStates, Grown(ws, new), NEW id,
           Staged(ws, id)
    PROVE  Staged(new, id)
<1>1. CASE ws.barrier
  BY <1>1 DEF Staged, Grown
<1>2. CASE id = Wildcard /\ ws.ids # {}
  BY <1>2 DEF Staged, Grown
<1>3. CASE ~ ws.barrier /\ ~ (id = Wildcard /\ ws.ids # {})
  <2>1. PICK x \in ws.ids : IF IsWildcard(x) THEN IdMatch(id, x)
                            ELSE IF IsWildcard(id) THEN IdMatch(x, id) ELSE x = id
    BY <1>3 DEF Staged
  <2>2. x \in new.ids
    BY DEF Grown
  <2> QED  BY <2>1, <2>2 DEF Staged
<1> QED  BY <1>1, <1>2, <1>3

\* What is staged after a write was staged before it or is staged by it.
LEMMA StagedSplits ==
    ASSUME NEW ws \in WriteStates, NEW t, t.id \in TermIds, NEW id,
           Staged(SetStaged(ws, t.id), id)
    PROVE  Staged(ws, id) \/ Staged(Single(t), id)
<1>1. CASE t.id = Wildcard
  BY <1>1 DEF Staged, SetStaged, Single, NoWrites
<1>2. CASE t.id # Wildcard
  <2>1. SetStaged(ws, t.id).barrier = ws.barrier /\ SetStaged(ws, t.id).ids = ws.ids \union {t.id}
    BY <1>2 DEF SetStaged, WriteStates
  <2>2. Single(t).ids = {t.id} /\ Single(t).barrier = FALSE
    BY <1>2 DEF SetStaged, Single, NoWrites
  <2>3. CASE ws.barrier
    BY <2>3 DEF Staged
  <2>4. CASE id = Wildcard
    BY <2>2, <2>4 DEF Staged
  <2>5. CASE ~ ws.barrier /\ id # Wildcard
    <3>1. PICK x \in ws.ids \union {t.id} : IF IsWildcard(x) THEN IdMatch(id, x)
                            ELSE IF IsWildcard(id) THEN IdMatch(x, id) ELSE x = id
      BY <2>1, <2>5 DEF Staged
    <3>2. CASE x \in ws.ids
      BY <3>1, <3>2 DEF Staged
    <3>3. CASE x = t.id
      BY <3>1, <3>3, <2>2 DEF Staged
    <3> QED  BY <3>2, <3>3
  <2> QED  BY <2>3, <2>4, <2>5
<1> QED  BY <1>1, <1>2

\* After a merge nothing is staged.
LEMMA NothingStaged ==
    ASSUME NEW id
    PROVE  ~ Staged(NoWrites, id) /\ NoWrites \in WriteStates
BY DEF Staged, NoWrites, WriteStates

\* What flecs_pipeline_check_term does.
LEMMA CheckTermIs ==
    ASSUME NEW acc \in Checks, NEW t, t.id \in TermIds, NEW active \in BOOLEAN
    PROVE  /\ CheckTerm(acc, t, active) \in Checks
           /\ Grown(acc.ws, CheckTerm(acc, t, active).ws)
           /\ \A x : Written(acc.ws, x) => Written(CheckTerm(acc, t, active).ws, x)
           /\ acc.merge => CheckTerm(acc, t, active).merge
           /\ CheckTerm(acc, t, active).merge /\ ~ acc.merge => TermNeeds(t) /\ Staged(acc.ws, t.id)
           /\ TermNeeds(t) /\ Staged(acc.ws, t.id) => CheckTerm(acc, t, active).merge
           /\ TermWrites(t) /\ active
                => \/ Written(CheckTerm(acc, t, active).ws, t.id)
                   \/ FromThis(t) /\ Staged(acc.ws, t.id) /\ CheckTerm(acc, t, active).merge
           /\ \A id : Staged(CheckTerm(acc, t, active).ws, id) =>
                 Staged(acc.ws, id) \/ (TermWrites(t) /\ Staged(Single(t), id))
<1> DEFINE r == CheckTerm(acc, t, active)
           staged == Staged(acc.ws, t.id)
           writes == FromAny(t) /\ InOut(t) \in {"out", "inout"} /\ active
           reads == FromAny(t) /\ InOut(t) \in {"in", "inout"}
<1>1. acc.ws \in WriteStates /\ acc.merge \in BOOLEAN
  BY DEF Checks
<1>2. CASE t.inout = "filter"
  <2>1. r = acc
    BY <1>2 DEF CheckTerm
  <2> QED  BY <1>1, <1>2, <2>1 DEF TermNeeds, TermWrites, Grown
<1>3. CASE t.inout # "filter" /\ FromThis(t) /\ staged
  <2>1. r = [acc EXCEPT !.merge = TRUE]
    BY <1>3 DEF CheckTerm
  <2>2. r.ws = acc.ws /\ r.merge = TRUE /\ r \in Checks
    BY <2>1 DEF Checks
  <2> QED  BY <1>1, <1>3, <2>2 DEF TermNeeds, TermWrites, Grown
<1>4. CASE t.inout # "filter" /\ ~ (FromThis(t) /\ staged)
  <2>1. r = [ws |-> IF writes THEN SetStaged(acc.ws, t.id) ELSE acc.ws,
             merge |-> acc.merge \/ (reads /\ staged)]
    BY <1>4 DEF CheckTerm
  <2>2. /\ r.ws = IF writes THEN SetStaged(acc.ws, t.id) ELSE acc.ws
        /\ r.merge = (acc.merge \/ (reads /\ staged))
        /\ r \in [ws : {r.ws}, merge : BOOLEAN]
    BY <2>1
  <2>3. TermNeeds(t) /\ staged <=> reads /\ staged
    BY <1>4 DEF TermNeeds
  <2>4. writes <=> TermWrites(t) /\ active
    BY <1>4 DEF TermWrites
  <2> HIDE DEF r, staged, writes, reads
  <2>5. CASE writes
    <3>1. r.ws = SetStaged(acc.ws, t.id)
      BY <2>2, <2>5
    <3>2. /\ r.ws \in WriteStates /\ Grown(acc.ws, r.ws) /\ Written(r.ws, t.id)
          /\ \A x : Written(acc.ws, x) => Written(r.ws, x)
      BY <1>1, <3>1, SetStagedType
    <3>3. \A id : Staged(r.ws, id) => Staged(acc.ws, id) \/ Staged(Single(t), id)
      BY <1>1, <3>1, StagedSplits
    <3>4. r \in Checks
      BY <2>2, <3>2 DEF Checks
    <3> QED  BY <1>1, <2>2, <2>3, <2>4, <2>5, <3>2, <3>3, <3>4 DEF r, staged
  <2>6. CASE ~ writes
    <3>1. r.ws = acc.ws
      BY <2>2, <2>6
    <3>2. r \in Checks
      BY <1>1, <2>2, <3>1 DEF Checks
    <3>3. Grown(acc.ws, r.ws)
      BY <3>1 DEF Grown
    <3> QED  BY <1>1, <2>2, <2>3, <2>4, <2>6, <3>1, <3>2, <3>3 DEF r, staged
  <2> QED  BY <2>5, <2>6
<1> QED  BY <1>2, <1>3, <1>4
-----------------------------------------------------------------------------
(***************************************************************************)
(* The two loops over the terms.  A pass is described by                   *)
(* [terms, active, this, start].                                           *)
(***************************************************************************)
InPass(p, j) == FromThis(p.terms[j]) = p.this

PassStep(p, acc, t) ==
    IF FromThis(t) # p.this THEN acc
    ELSE Only({CheckTerm(a, t, p.active) : a \in {acc}})

\* After k terms: what the writes and the merge come from, what it means that no
\* merge is needed, and that a write is recorded unless its id was staged before.
StagedBy(p, k, id) ==
    \/ Staged(p.start.ws, id)
    \/ \E j \in 1 .. k : InPass(p, j) /\ TermWrites(p.terms[j]) /\ Staged(Single(p.terms[j]), id)

PassInv(p, acc, k) ==
    /\ acc \in Checks
    /\ Grown(p.start.ws, acc.ws)
    /\ \A x : Written(p.start.ws, x) => Written(acc.ws, x)
    /\ p.start.merge => acc.merge
    /\ \A id : Staged(acc.ws, id) => StagedBy(p, k, id)
    /\ acc.merge => \/ p.start.merge
                    \/ \E i \in 1 .. k : /\ InPass(p, i) /\ TermNeeds(p.terms[i])
                                         /\ StagedBy(p, i - 1, p.terms[i].id)
    /\ ~ acc.merge => \A j \in 1 .. k : InPass(p, j) =>
          /\ TermNeeds(p.terms[j]) => ~ Staged(p.start.ws, p.terms[j].id)
          /\ TermWrites(p.terms[j]) /\ p.active => Written(acc.ws, p.terms[j].id)
    /\ \A j \in 1 .. k : InPass(p, j) /\ TermWrites(p.terms[j]) /\ p.active =>
          \/ Written(acc.ws, p.terms[j].id)
          \/ FromThis(p.terms[j]) /\ StagedBy(p, j - 1, p.terms[j].id)

Passes == INSTANCE Induction WITH Step <- PassStep, Inv <- PassInv

Pass(terms, active, this, start) ==
    [terms |-> terms, active |-> active, this |-> this, start |-> start]

\* A loop over the terms is a fold, so that the induction rule applies to it.
LEMMA CheckPassFold ==
    ASSUME NEW terms, NEW active, NEW this, NEW start
    PROVE  CheckPass(terms, active, this, start) =
              Passes!Fold(Pass(terms, active, this, start), start, terms)
BY DEF CheckPass, Passes!Fold, PassStep, Pass, FoldLeft, Passes!FoldLeft, MapThenFoldSet,
       Passes!MapThenFoldSet, Max, Passes!Max

IsTerms(terms, n) == n \in Nat /\ DOMAIN terms = 1 .. n /\ \A j \in 1 .. n : terms[j].id \in TermIds

\* What a loop has found out about the terms so far, one term later.
LEMMA PassStepKeeps ==
    ASSUME NEW p, NEW n, IsTerms(p.terms, n), p.active \in BOOLEAN, p.start \in Checks,
           NEW acc, NEW k \in 1 .. n, PassInv(p, acc, k - 1)
    PROVE  PassInv(p, PassStep(p, acc, p.terms[k]), k)
<1> DEFINE t == p.terms[k]
           r == CheckTerm(acc, t, p.active)
<1>0. k - 1 \in Nat /\ k \in 1 .. k /\ 1 .. k = 1 .. (k - 1) \union {k} /\ t.id \in TermIds
  BY DEF IsTerms
<1>1. CASE ~ InPass(p, k)
  <2>1. PassStep(p, acc, t) = acc
    BY <1>1 DEF PassStep, InPass
  <2>2. \A id : StagedBy(p, k - 1, id) => StagedBy(p, k, id)
    BY <1>0 DEF StagedBy
  <2> QED  BY <1>0, <1>1, <2>1, <2>2 DEF PassInv
<1>2. CASE InPass(p, k)
  <2>1. PassStep(p, acc, t) = r
    BY <1>2, OnlyIs DEF PassStep, InPass
  <2>2. acc \in Checks
    BY DEF PassInv
  <2>3. /\ r \in Checks
        /\ Grown(acc.ws, r.ws)
        /\ \A x : Written(acc.ws, x) => Written(r.ws, x)
        /\ acc.merge => r.merge
        /\ r.merge /\ ~ acc.merge => TermNeeds(t) /\ Staged(acc.ws, t.id)
        /\ TermNeeds(t) /\ Staged(acc.ws, t.id) => r.merge
        /\ TermWrites(t) /\ p.active =>
              Written(r.ws, t.id) \/ (FromThis(t) /\ Staged(acc.ws, t.id) /\ r.merge)
        /\ \A id : Staged(r.ws, id) => Staged(acc.ws, id) \/ (TermWrites(t) /\ Staged(Single(t), id))
    BY <1>0, <2>2, CheckTermIs
  <2> HIDE DEF r
  <2>4. Grown(p.start.ws, r.ws)
    BY <2>3 DEF Grown, PassInv
  <2>5. ASSUME NEW id, Staged(r.ws, id)
        PROVE  StagedBy(p, k, id)
    <3>1. CASE Staged(acc.ws, id)
      BY <1>0, <3>1 DEF PassInv, StagedBy
    <3>2. CASE TermWrites(t) /\ Staged(Single(t), id)
      BY <1>0, <1>2, <3>2 DEF StagedBy
    <3> QED  BY <2>3, <2>5, <3>1, <3>2
  <2>6. ASSUME r.merge
        PROVE  \/ p.start.merge
               \/ \E i \in 1 .. k : /\ InPass(p, i) /\ TermNeeds(p.terms[i])
                                    /\ StagedBy(p, i - 1, p.terms[i].id)
    <3>1. CASE acc.merge
      BY <1>0, <3>1 DEF PassInv
    <3>2. CASE ~ acc.merge
      <4>1. TermNeeds(t) /\ StagedBy(p, k - 1, t.id)
        BY <2>3, <2>6, <3>2 DEF PassInv
      <4> QED  BY <1>0, <1>2, <4>1
    <3> QED  BY <3>1, <3>2
  <2>7. ASSUME ~ r.merge, NEW j \in 1 .. k, InPass(p, j)
        PROVE  /\ TermNeeds(p.terms[j]) => ~ Staged(p.start.ws, p.terms[j].id)
               /\ TermWrites(p.terms[j]) /\ p.active => Written(r.ws, p.terms[j].id)
    <3>1. CASE j \in 1 .. k - 1
      BY <2>3, <2>7, <3>1 DEF PassInv
    <3>2. CASE j = k
      <4>1. Staged(p.start.ws, t.id) => Staged(acc.ws, t.id)
        BY <2>2, StagedGrows DEF PassInv, Checks
      <4> QED  BY <2>3, <2>7, <3>2, <4>1
    <3> QED  BY <1>0, <3>1, <3>2
  <2>8. p.start.merge => r.merge
    BY <2>3 DEF PassInv
  <2>9. \A x : Written(p.start.ws, x) => Written(r.ws, x)
    BY <2>3 DEF PassInv
  <2>10. ASSUME NEW j \in 1 .. k, InPass(p, j), TermWrites(p.terms[j]), p.active
         PROVE  \/ Written(r.ws, p.terms[j].id)
                \/ FromThis(p.terms[j]) /\ StagedBy(p, j - 1, p.terms[j].id)
    <3>1. CASE j \in 1 .. k - 1
      BY <2>3, <2>10, <3>1 DEF PassInv
    <3>2. CASE j = k
      BY <2>3, <2>10, <3>2 DEF PassInv
    <3> QED  BY <1>0, <3>1, <3>2
  <2> QED  BY <2>1, <2>3, <2>4, <2>5, <2>6, <2>7, <2>8, <2>9, <2>10 DEF PassInv
<1> QED  BY <1>1, <1>2

\* What a loop over the terms has found out at its end.
LEMMA CheckPassIs ==
    ASSUME NEW terms, NEW n, IsTerms(terms, n), NEW active \in BOOLEAN, NEW this,
           NEW start \in Checks
    PROVE  PassInv(Pass(terms, active, this, start), CheckPass(terms, active, this, start), n)
<1> DEFINE p == Pass(terms, active, this, start)
<1>1. p.terms = terms /\ p.active = active /\ p.this = this /\ p.start = start
  BY DEF Pass
<1>2. PassInv(p, start, 0)
  BY <1>1 DEF PassInv, Grown, StagedBy
<1> HIDE DEF p
<1>3. \A acc : \A k \in 1 .. n : PassInv(p, acc, k - 1) => PassInv(p, PassStep(p, acc, terms[k]), k)
  BY <1>1, PassStepKeeps
<1>4. PassInv(p, Passes!Fold(p, start, terms), n)
  BY <1>2, <1>3, Passes!FoldInvariant DEF IsTerms
<1> QED  BY <1>4, CheckPassFold DEF p

Check0(ws) == [ws |-> ws, merge |-> FALSE]

\* What flecs_pipeline_check_terms finds out: it only adds to the write state,
\* if no merge is needed nothing that the system needs was staged before it and
\* all that it writes is staged after it, ...
LEMMA CheckTermsIs ==
    ASSUME NEW terms, NEW n, IsTerms(terms, n), NEW active \in BOOLEAN, NEW ws \in WriteStates
    PROVE  /\ CheckTerms(terms, active, ws) \in Checks
           /\ \A x : Written(ws, x) => Written(CheckTerms(terms, active, ws).ws, x)
           /\ ~ CheckTerms(terms, active, ws).merge => \A j \in 1 .. n :
                /\ TermNeeds(terms[j]) => ~ Staged(ws, terms[j].id)
                /\ TermWrites(terms[j]) /\ active =>
                      Written(CheckTerms(terms, active, ws).ws, terms[j].id)
<1> DEFINE c1 == CheckPass(terms, active, TRUE, Check0(ws))
           c2 == CheckPass(terms, active, FALSE, c1)
           p1 == Pass(terms, active, TRUE, Check0(ws))
           p2 == Pass(terms, active, FALSE, c1)
<1>0. Check0(ws) \in Checks /\ Check0(ws).ws = ws /\ Check0(ws).merge = FALSE
  BY DEF Check0, Checks
<1>1. PassInv(p1, c1, n)
  BY <1>0, CheckPassIs
<1>2. c1 \in Checks
  BY <1>1 DEF PassInv
<1>3. PassInv(p2, c2, n)
  BY <1>2, CheckPassIs
<1>4. CheckTerms(terms, active, ws) = c2
  BY DEF CheckTerms, Check0
<1>5. /\ p1.terms = terms /\ p1.active = active /\ p1.start = Check0(ws) /\ p1.this = TRUE
      /\ p2.terms = terms /\ p2.active = active /\ p2.start = c1 /\ p2.this = FALSE
  BY DEF Pass
<1> HIDE DEF c1, c2, p1, p2
<1>6. c2 \in Checks
  BY <1>3 DEF PassInv
<1>7. \A x : Written(ws, x) => Written(c2.ws, x)
  BY <1>0, <1>1, <1>3, <1>5 DEF PassInv
<1>8. ASSUME ~ c2.merge, NEW j \in 1 .. n
      PROVE  /\ TermNeeds(terms[j]) => ~ Staged(ws, terms[j].id)
             /\ TermWrites(terms[j]) /\ active => Written(c2.ws, terms[j].id)
  <2>1. ~ c1.merge
    BY <1>3, <1>5, <1>8 DEF PassInv
  <2>2. CASE FromThis(terms[j])
    <3>1. InPass(p1, j)
      BY <2>2, <1>5 DEF InPass, FromThis
    <3> QED  BY <1>0, <1>1, <1>3, <1>5, <2>1, <3>1 DEF PassInv
  <2>3. CASE ~ FromThis(terms[j])
    <3>1. InPass(p2, j)
      <4>1. FromThis(terms[j]) \in BOOLEAN
        BY DEF FromThis
      <4> QED  BY <4>1, <2>3, <1>5 DEF InPass
    <3>2. Staged(ws, terms[j].id) => Staged(c1.ws, terms[j].id)
      <4>1. Grown(ws, c1.ws) /\ c1.ws \in WriteStates
        BY <1>0, <1>1, <1>2, <1>5 DEF PassInv, Checks
      <4> QED  BY <4>1, StagedGrows
    <3> QED  BY <1>3, <1>5, <1>8, <3>1, <3>2 DEF PassInv
  <2> QED  BY <2>2, <2>3
<1> QED  BY <1>4, <1>6, <1>7, <1>8

\* ... and after a merge it records all that the system writes, also if it finds
\* that another merge is needed.
LEMMA NoWriteIsLost ==
    ASSUME NEW terms, NEW n, IsTerms(terms, n),
           \A i, j \in 1 .. n :
              /\ i < j /\ FromThis(terms[i]) /\ FromThis(terms[j])
              /\ TermWrites(terms[i]) /\ TermWrites(terms[j])
              => ~ Staged(Single(terms[i]), terms[j].id),
           NEW j \in 1 .. n, TermWrites(terms[j])
    PROVE  Written(CheckTerms(terms, TRUE, NoWrites).ws, terms[j].id)
<1> DEFINE ws == NoWrites
           c1 == CheckPass(terms, TRUE, TRUE, Check0(ws))
           c2 == CheckPass(terms, TRUE, FALSE, c1)
           p1 == Pass(terms, TRUE, TRUE, Check0(ws))
           p2 == Pass(terms, TRUE, FALSE, c1)
<1>0. /\ Check0(ws) \in Checks /\ Check0(ws).ws = ws
      /\ \A id : ~ Staged(ws, id)
  BY NothingStaged DEF Check0, Checks
<1>1. PassInv(p1, c1, n)
  BY <1>0, CheckPassIs
<1>2. c1 \in Checks
  BY <1>1 DEF PassInv
<1>3. PassInv(p2, c2, n)
  BY <1>2, CheckPassIs
<1>4. CheckTerms(terms, TRUE, ws) = c2
  BY DEF CheckTerms, Check0
<1>5. /\ p1.terms = terms /\ p1.active = TRUE /\ p1.start = Check0(ws) /\ p1.this = TRUE
      /\ p2.terms = terms /\ p2.active = TRUE /\ p2.start = c1 /\ p2.this = FALSE
  BY DEF Pass
<1>6. n \in Nat /\ FromThis(terms[j]) \in BOOLEAN
  BY DEF IsTerms, FromThis
<1> HIDE DEF c1, c2, p1, p2, ws
<1>7. CASE FromThis(terms[j])
  <2>1. InPass(p1, j)
    BY <1>5, <1>6, <1>7 DEF InPass
  <2>2. ~ StagedBy(p1, j - 1, terms[j].id)
    <3> SUFFICES ASSUME StagedBy(p1, j - 1, terms[j].id)  PROVE FALSE
      OBVIOUS
    <3>1. PICK i \in 1 .. j - 1 : InPass(p1, i) /\ TermWrites(terms[i]) /\ Staged(Single(terms[i]), terms[j].id)
      BY <1>0, <1>5 DEF StagedBy
    <3>2. i \in 1 .. n /\ i < j /\ FromThis(terms[i])
      BY <1>5, <1>6, <3>1 DEF InPass
    <3> QED  BY <1>7, <3>1, <3>2
  <2>3. Written(c1.ws, terms[j].id)
    BY <1>1, <1>5, <2>1, <2>2 DEF PassInv
  <2> QED  BY <1>3, <1>4, <1>5, <2>3 DEF PassInv, ws
<1>8. CASE ~ FromThis(terms[j])
  <2>1. InPass(p2, j)
    BY <1>5, <1>6, <1>8 DEF InPass
  <2> QED  BY <1>3, <1>4, <1>5, <1>8, <2>1 DEF PassInv, ws
<1> QED  BY <1>6, <1>7, <1>8
-----------------------------------------------------------------------------
(***************************************************************************)
(* One round of the loop in flecs_pipeline_build.                          *)
(***************************************************************************)
\* The k-th system of the query is at position k.
LEMMA PositionIs ==
    /\ DOMAIN Systems = 1 .. Len(Systems) /\ Len(Systems) \in Nat
    /\ \A i \in DOMAIN Systems : Systems[i] \in SystemSet /\ Position(Systems[i]) = i
    /\ \A s \in SystemSet : Position(s) \in DOMAIN Systems /\ Systems[Position(s)] = s
<1>1. DOMAIN Systems = 1 .. Len(Systems) /\ Len(Systems) \in Nat
  BY SystemsAssumption
<1>2. \A i \in DOMAIN Systems : Systems[i] \in SystemSet
  BY DEF SystemSet, ToSet
<1>3. ASSUME NEW s \in SystemSet
      PROVE  Position(s) \in DOMAIN Systems /\ Systems[Position(s)] = s
  <2>1. PICK i \in DOMAIN Systems : Systems[i] = s
    BY DEF SystemSet, ToSet
  <2> QED  BY <2>1 DEF Position
<1>4. ASSUME NEW i \in DOMAIN Systems
      PROVE  Position(Systems[i]) = i
  BY <1>2, <1>3, SystemsAssumption
<1> QED  BY <1>1, <1>2, <1>3, <1>4

\* The terms of a descriptor.
LEMMA DescriptorTerms ==
    ASSUME NEW d \in Descriptors
    PROVE  IsTerms(d.terms, Len(d.terms)) /\ DOMAIN d.terms = 1 .. Len(d.terms)
<1>1. d.terms \in Seq(ToSet(d.terms))
  BY DescriptorsAssumption
<1>2. DOMAIN d.terms = 1 .. Len(d.terms) /\ Len(d.terms) \in Nat
  BY <1>1
<1>3. \A j \in DOMAIN d.terms : d.terms[j].id \in TermIds
  BY DEF TermIds, ToSet
<1> QED  BY <1>2, <1>3 DEF IsTerms

\* What a system writes and needs, term by term.
LEMMA WritesAndNeeds ==
    ASSUME NEW s, desc[s] \in Descriptors
    PROVE  /\ \A x \in Writes(s) : \E j \in DOMAIN desc[s].terms :
                TermWrites(desc[s].terms[j]) /\ x = desc[s].terms[j].id
           /\ \A x \in Needs(s) : \E j \in DOMAIN desc[s].terms :
                TermNeeds(desc[s].terms[j]) /\ x = desc[s].terms[j].id
           /\ Writes(s) \subseteq WriteIds /\ Needs(s) \subseteq NeedIds
<1>1. \A x \in Writes(s) : \E j \in DOMAIN desc[s].terms :
         TermWrites(desc[s].terms[j]) /\ x = desc[s].terms[j].id
  BY DEF Writes, ToSet
<1>2. \A x \in Needs(s) : \E j \in DOMAIN desc[s].terms :
         TermNeeds(desc[s].terms[j]) /\ x = desc[s].terms[j].id
  BY DEF Needs, ToSet
<1>3. Writes(s) \subseteq WriteIds /\ Needs(s) \subseteq NeedIds
  BY DEF Writes, Needs, WriteIds, NeedIds
<1> QED  BY <1>1, <1>2, <1>3

\* A component that an id of a term and a staged id stand for is staged.
LEMMA SameIsStaged ==
    ASSUME NoCrossing, NEW ws \in WriteStates, NEW x \in WriteIds,
           NEW z \in NeedIds, Written(ws, x), SameComponent(x, z)
    PROVE  Staged(ws, z)
<1>1. CASE x = Wildcard
  BY <1>1 DEF Written, Staged
<1>2. CASE x # Wildcard /\ z = Wildcard
  BY <1>2 DEF Written, Staged
<1>3. CASE x # Wildcard /\ z # Wildcard
  <2>1. x \in ws.ids
    BY <1>3 DEF Written
  <2>2. PICK c \in Components : (c = x \/ IdMatch(c, x)) /\ (c = z \/ IdMatch(c, z))
    BY <1>3 DEF SameComponent
  <2>3. /\ ~ IsWildcard(c)
        /\ ~ IsWildcard(x) => (IdMatch(c, x) => c = x)
        /\ ~ IsWildcard(z) => (IdMatch(c, z) => c = z)
    BY IdMatchAssumption DEF WriteIds, NeedIds
  <2>4. CASE IsWildcard(x) /\ IsWildcard(z)
    <3>1. IdMatch(z, x)
      BY <1>3, <2>4 DEF NoCrossing
    <3> QED  BY <2>1, <2>4, <3>1 DEF Staged
  <2>5. CASE IsWildcard(x) /\ ~ IsWildcard(z)
    <3>1. c = z /\ IdMatch(z, x)
      BY <2>2, <2>3, <2>5
    <3> QED  BY <2>1, <2>5, <3>1 DEF Staged
  <2>6. CASE ~ IsWildcard(x) /\ IsWildcard(z)
    <3>1. c = x /\ IdMatch(x, z)
      BY <2>2, <2>3, <2>6
    <3> QED  BY <2>1, <2>6, <3>1 DEF Staged
  <2>7. CASE ~ IsWildcard(x) /\ ~ IsWildcard(z)
    <3>1. x = z
      BY <2>2, <2>3, <2>7
    <3> QED  BY <2>1, <2>7, <3>1 DEF Staged
  <2> QED  BY <2>4, <2>5, <2>6, <2>7
<1> QED  BY <1>1, <1>2, <1>3

\* A new operation is opened behind one that is not empty.
LEMMA PiecesNew ==
    ASSUME NEW o, NEW n \in Nat, NEW y, NEW m \in Nat, Pieces(o, n, y, m),
           n # 0 => o[n].count > 0,
           NEW new,
           \A i \in 1 .. n : new[i] = o[i],
           new[n + 1] = NewOp(m + 1)
    PROVE  Pieces(new, n + 1, y, m)
<1>1. new[n + 1].offset = m + 1 /\ new[n + 1].count = 0 /\ new[n + 1] \in Ops
  BY DEF NewOp, Ops
<1>2. n # 0 => o[n].offset + o[n].count = m + 1
  BY DEF Pieces
<1>3. n = 0 => m = 0
  BY DEF Pieces
<1>4. ASSUME NEW k \in 1 .. n + 1
      PROVE  /\ new[k] \in Ops
             /\ new[k].offset = IF k = 1 THEN 1 ELSE new[k - 1].offset + new[k - 1].count
             /\ k < n + 1 => new[k].count > 0
             /\ new[k].offset >= 1 /\ new[k].offset + new[k].count <= m + 1
             /\ \A i \in new[k].offset .. new[k].offset + new[k].count - 1 :
                   /\ desc[y[i]].multi_threaded = new[k].multi_threaded
                   /\ desc[y[i]].immediate = new[k].immediate
  <2>1. CASE k \in 1 .. n
    <3>1. /\ o[k] \in Ops
          /\ o[k].offset = IF k = 1 THEN 1 ELSE o[k - 1].offset + o[k - 1].count
          /\ k < n => o[k].count > 0
          /\ o[k].offset >= 1 /\ o[k].offset + o[k].count <= m + 1
          /\ \A i \in o[k].offset .. o[k].offset + o[k].count - 1 :
                /\ desc[y[i]].multi_threaded = o[k].multi_threaded
                /\ desc[y[i]].immediate = o[k].immediate
      BY <2>1 DEF Pieces
    <3>2. o[k].count > 0
      BY <2>1, <3>1
    <3>3. new[k] = o[k] /\ (k # 1 => new[k - 1] = o[k - 1])
      BY <2>1
    <3> QED  BY <3>1, <3>2, <3>3
  <2>2. CASE k = n + 1
    <3>1. k # 1 => n # 0 /\ new[n] = o[n] /\ k - 1 = n
      BY <2>2
    <3> QED  BY <1>1, <1>2, <1>3, <2>2, <3>1
  <2> QED  BY <2>1, <2>2
<1> QED  BY <1>1, <1>4 DEF Pieces

\* System s, with the flags of the last operation unless that is empty, is added
\* to it: f is the operation after that.
Fills(o, n, y, m, s, f, new, z) ==
    /\ f \in Ops /\ f.offset = o[n].offset /\ f.count = o[n].count + 1
    /\ o[n].count > 0 =>
          f.multi_threaded = o[n].multi_threaded /\ f.immediate = o[n].immediate
    /\ f.multi_threaded = desc[s].multi_threaded /\ f.immediate = desc[s].immediate
    /\ \A i \in 1 .. n : new[i] = IF i = n THEN f ELSE o[i]
    /\ \A i \in 1 .. m : z[i] = y[i]
    /\ z[m + 1] = s

\* A system is added to the last operation, with whose flags it agrees.
LEMMA PiecesFill ==
    ASSUME NEW o, NEW n \in Nat \ {0}, NEW y, NEW m \in Nat, Pieces(o, n, y, m),
           NEW s, NEW f, NEW new, NEW z, Fills(o, n, y, m, s, f, new, z)
    PROVE  Pieces(new, n, z, m + 1)
<1> SUFFICES ASSUME f \in Ops, f.offset = o[n].offset, f.count = o[n].count + 1,
                    o[n].count > 0 => /\ f.multi_threaded = o[n].multi_threaded
                                      /\ f.immediate = o[n].immediate,
                    f.multi_threaded = desc[s].multi_threaded, f.immediate = desc[s].immediate,
                    \A i \in 1 .. n : new[i] = IF i = n THEN f ELSE o[i],
                    \A i \in 1 .. m : z[i] = y[i],
                    z[m + 1] = s
             PROVE  Pieces(new, n, z, m + 1)
  BY DEF Fills
<1>1. o[n].offset + o[n].count = m + 1 /\ o[n] \in Ops
  BY DEF Pieces
<1>2. new[n] = f
  OBVIOUS
<1>3. ASSUME NEW k \in 1 .. n
      PROVE  /\ new[k] \in Ops
             /\ new[k].offset = IF k = 1 THEN 1 ELSE new[k - 1].offset + new[k - 1].count
             /\ k < n => new[k].count > 0
             /\ new[k].offset >= 1 /\ new[k].offset + new[k].count <= m + 1 + 1
             /\ \A i \in new[k].offset .. new[k].offset + new[k].count - 1 :
                   /\ desc[z[i]].multi_threaded = new[k].multi_threaded
                   /\ desc[z[i]].immediate = new[k].immediate
  <2>1. /\ o[k] \in Ops
        /\ o[k].offset = IF k = 1 THEN 1 ELSE o[k - 1].offset + o[k - 1].count
        /\ k < n => o[k].count > 0
        /\ o[k].offset >= 1 /\ o[k].offset + o[k].count <= m + 1
        /\ \A i \in o[k].offset .. o[k].offset + o[k].count - 1 :
              /\ desc[y[i]].multi_threaded = o[k].multi_threaded
              /\ desc[y[i]].immediate = o[k].immediate
    BY DEF Pieces
  <2>2. o[k].offset \in Nat /\ o[k].count \in Nat
    BY <2>1 DEF Ops
  <2>3. k # 1 => new[k - 1] = o[k - 1]
    OBVIOUS
  <2>4. CASE k # n
    <3>1. new[k] = o[k] /\ k < n
      BY <2>4
    <3>2. \A i \in o[k].offset .. o[k].offset + o[k].count - 1 : z[i] = y[i]
      BY <2>1, <2>2
    <3> QED  BY <2>1, <2>2, <2>3, <3>1, <3>2
  <2>5. CASE k = n
    <3>2. ASSUME NEW i \in f.offset .. f.offset + f.count - 1
          PROVE  /\ desc[z[i]].multi_threaded = f.multi_threaded
                 /\ desc[z[i]].immediate = f.immediate
      <4>1. CASE i = m + 1
        BY <4>1
      <4>2. CASE i # m + 1
        <5>1. i \in o[n].offset .. o[n].offset + o[n].count - 1 /\ i \in 1 .. m /\ o[n].count > 0
          BY <1>1, <2>1, <2>2, <2>5, <4>2
        <5> QED  BY <2>1, <2>5, <5>1
      <4> QED  BY <4>1, <4>2
    <3>3. f.offset >= 1 /\ f.offset + f.count <= m + 1 + 1
      BY <1>1, <2>1, <2>2, <2>5
    <3> QED  BY <1>2, <2>1, <2>3, <2>5, <3>2, <3>3
  <2> QED  BY <2>4, <2>5
<1>4. new[n].offset + new[n].count = m + 1 + 1
  <2>1. o[n].offset \in Nat /\ o[n].count \in Nat
    BY <1>1 DEF Ops
  <2> QED  BY <1>1, <1>2, <2>1
<1> QED  BY <1>3, <1>4 DEF Pieces
\* The operations after flecs_pipeline_build made sure that one is open.
Opened(b, merge) ==
    IF b.open /\ ~ (merge /\ Last(b.ops).count > 0) THEN b.ops
    ELSE Append(b.ops, NewOp(Len(b.systems) + 1))

\* The operation that the next system goes to: the last one, or a new one if a
\* merge is due and the last one is not empty.
LEMMA OpenedIs ==
    ASSUME NEW b, NEW k, Shape(b, k), NEW merge, NEW o, o = Opened(b, merge)
    PROVE  /\ o \in Seq(Ops) /\ Len(o) \in Nat \ {0}
           /\ Pieces(o, Len(o), b.systems, Len(b.systems))
           /\ o[Len(o)].count > 0 => ~ merge /\ o = b.ops
           /\ \/ o = b.ops
              \/ /\ Len(o) = Len(b.ops) + 1
                 /\ \A i \in 1 .. Len(b.ops) : o[i] = b.ops[i]
                 /\ o[Len(o)] = NewOp(Len(b.systems) + 1)
<1> DEFINE n == Len(b.ops)
           m == Len(b.systems)
<1>1. /\ b.ops \in Seq(Ops) /\ n \in Nat /\ Pieces(b.ops, n, b.systems, m)
      /\ b.open = (b.ops # <<>>)
      /\ b.systems \in Seq(SystemSet)
  BY DEF Shape, Cut, InOrder
<1>2. m \in Nat /\ (b.ops = <<>> <=> n = 0)
  BY <1>1
<1>3. CASE b.open /\ ~ (merge /\ b.ops[n].count > 0)
  <2>1. o = b.ops
    BY <1>3 DEF Opened, Last
  <2> QED  BY <1>1, <1>2, <1>3, <2>1
<1>4. CASE ~ (b.open /\ ~ (merge /\ b.ops[n].count > 0))
  <2>1. o = Append(b.ops, NewOp(m + 1))
    BY <1>4 DEF Opened, Last
  <2>2. NewOp(m + 1) \in Ops /\ NewOp(m + 1).count = 0
    BY <1>2 DEF NewOp, Ops
  <2>3. /\ o \in Seq(Ops) /\ Len(o) = n + 1 /\ o[n + 1] = NewOp(m + 1)
        /\ \A i \in 1 .. n : o[i] = b.ops[i]
    BY <1>1, <2>1, <2>2, AppendProperties
  <2>4. n # 0 => b.ops[n].count > 0
    BY <1>1, <1>2, <1>4
  <2> HIDE DEF n, m
  <2>5. Pieces(o, n + 1, b.systems, m)
    BY <1>1, <1>2, <2>3, <2>4, PiecesNew
  <2> QED  BY <1>1, <1>2, <2>2, <2>3, <2>5 DEF n, m
<1> QED  BY <1>3, <1>4

IsActive(s) == status[s] = "active"
StepMt(b, s) == IF IsActive(s) THEN desc[s].multi_threaded ELSE b.multi_threaded
StepIm(b, s) == IF IsActive(s) THEN desc[s].immediate ELSE b.immediate
StepMerge(b, s) ==
    \/ CheckTerms(desc[s].terms, IsActive(s), b.ws).merge
    \/ IsActive(s) /\ FlagsChanged(b, StepMt(b, s), StepIm(b, s))
    \/ StepIm(b, s)
StepWs(b, s) ==
    IF ~ StepMerge(b, s) THEN CheckTerms(desc[s].terms, IsActive(s), b.ws).ws
    ELSE IF IsActive(s) THEN CheckTerms(desc[s].terms, TRUE, NoWrites).ws
    ELSE NoWrites
Filled(op, mt, im) ==
    [offset |-> op.offset, count |-> op.count + 1,
     multi_threaded |-> IF op.count = 0 THEN mt ELSE op.multi_threaded,
     immediate |-> IF op.count = 0 THEN im ELSE op.immediate]

\* The round of the loop for system s, with its local variables as operators.
LEMMA BuildStepIs ==
    ASSUME NEW b, NEW s, NEW o, o = Opened(b, StepMerge(b, s))
    PROVE  BuildStep(b, s) =
             [ops |-> IF IsActive(s) THEN [o EXCEPT ![Len(o)] = Filled(o[Len(o)], StepMt(b, s), StepIm(b, s))]
                      ELSE o,
              systems |-> IF IsActive(s) THEN Append(b.systems, s) ELSE b.systems,
              open |-> TRUE, ws |-> StepWs(b, s), first |-> b.first /\ ~ IsActive(s),
              multi_threaded |-> StepMt(b, s), immediate |-> StepIm(b, s)]
<1>1. BuildStep(b, s) = BuildWith(b, s, CheckTerms(desc[s].terms, IsActive(s), b.ws))
  BY OnlyIs DEF BuildStep, IsActive
<1> QED  BY <1>1 DEF BuildWith, Opened, StepMerge, StepWs, StepMt, StepIm, IsActive, Filled

\* The operation after a system was added: the first system sets the flags.
LEMMA FilledIs ==
    ASSUME NEW op \in Ops, NEW mt \in BOOLEAN, NEW im \in BOOLEAN
    PROVE  /\ Filled(op, mt, im) \in Ops
           /\ Filled(op, mt, im).offset = op.offset /\ Filled(op, mt, im).count = op.count + 1
           /\ Filled(op, mt, im).multi_threaded = (IF op.count = 0 THEN mt ELSE op.multi_threaded)
           /\ Filled(op, mt, im).immediate = (IF op.count = 0 THEN im ELSE op.immediate)
<1> DEFINE mt2 == IF op.count = 0 THEN mt ELSE op.multi_threaded
           im2 == IF op.count = 0 THEN im ELSE op.immediate
           f == [offset |-> op.offset, count |-> op.count + 1,
                 multi_threaded |-> mt2, immediate |-> im2]
<1>1. mt2 \in BOOLEAN /\ im2 \in BOOLEAN
  BY DEF Ops
<1>2. op \in [offset : Nat, count : Nat, multi_threaded : BOOLEAN, immediate : BOOLEAN]
  BY DEF Ops
<1>3. Filled(op, mt, im) = f
  BY DEF Filled
<1> HIDE DEF mt2, im2
<1>4. f.offset = op.offset /\ f.count = op.count + 1 /\ f.multi_threaded = mt2 /\ f.immediate = im2
  BY <1>2
<1>5. f \in [offset : Nat, count : Nat, multi_threaded : BOOLEAN, immediate : BOOLEAN]
  BY <1>1, <1>2
<1> HIDE DEF f
<1> QED  BY <1>3, <1>4, <1>5 DEF mt2, im2, Ops

Typed ==
    /\ desc \in [SystemSet -> Descriptors]
    /\ status \in [SystemSet -> {"active", "inactive", "absent"}]

\* The write state stays one.
LEMMA StepWsType ==
    ASSUME Typed, NEW b, b.ws \in WriteStates, NEW s \in SystemSet
    PROVE  StepWs(b, s) \in WriteStates
<1>1. desc[s] \in Descriptors /\ IsTerms(desc[s].terms, Len(desc[s].terms))
  BY DescriptorTerms DEF Typed
<1>2. IsActive(s) \in BOOLEAN /\ NoWrites \in WriteStates
  BY NothingStaged DEF IsActive
<1>3. CheckTerms(desc[s].terms, IsActive(s), b.ws) \in Checks
  BY <1>1, <1>2, CheckTermsIs
<1>4. CheckTerms(desc[s].terms, TRUE, NoWrites) \in Checks
  BY <1>1, <1>2, CheckTermsIs
<1> QED  BY <1>2, <1>3, <1>4 DEF StepWs, Checks

\* The shape of the schedule, for a system that is matched ...
LEMMA ShapeStep ==
    ASSUME Typed, NEW b, NEW k \in DOMAIN Systems, Shape(b, k - 1), NEW s, s = Systems[k]
    PROVE  Shape(BuildStep(b, s), k)
<1> DEFINE y == b.systems
           m == Len(y)
           merge == StepMerge(b, s)
           o == Opened(b, merge)
           n == Len(o)
           f == Filled(o[n], StepMt(b, s), StepIm(b, s))
           r == BuildStep(b, s)
<1>1. /\ y \in Seq(SystemSet) /\ m \in Nat /\ DOMAIN y = 1 .. m
      /\ \A i, j \in DOMAIN y : i < j => Position(y[i]) < Position(y[j])
      /\ Scheduled(y, k - 1) /\ b.ws \in WriteStates
      /\ b.first \in BOOLEAN /\ b.multi_threaded \in BOOLEAN /\ b.immediate \in BOOLEAN
  BY DEF Shape, InOrder
<1>2. s \in SystemSet /\ desc[s] \in Descriptors /\ Position(s) = k /\ k \in Nat
  BY PositionIs DEF Typed
<1>3. /\ o \in Seq(Ops) /\ n \in Nat \ {0} /\ Pieces(o, n, y, m)
      /\ o[n].count > 0 => ~ merge /\ o = b.ops
  BY OpenedIs
<1>4. /\ r.ops = IF IsActive(s) THEN [o EXCEPT ![n] = f] ELSE o
      /\ r.systems = IF IsActive(s) THEN Append(y, s) ELSE y
      /\ r.open = TRUE /\ r.ws = StepWs(b, s) /\ r.first = (b.first /\ ~ IsActive(s))
      /\ r.multi_threaded = StepMt(b, s) /\ r.immediate = StepIm(b, s)
  <2>1. r = [ops |-> IF IsActive(s) THEN [o EXCEPT ![n] = f] ELSE o,
             systems |-> IF IsActive(s) THEN Append(y, s) ELSE y,
             open |-> TRUE, ws |-> StepWs(b, s), first |-> b.first /\ ~ IsActive(s),
             multi_threaded |-> StepMt(b, s), immediate |-> StepIm(b, s)]
    BY BuildStepIs
  <2> HIDE DEF r, o, f, n, y
  <2> QED  BY <2>1
<1>5. r.ws \in WriteStates
  BY <1>1, <1>2, <1>4, StepWsType
<1>6. StepMt(b, s) \in BOOLEAN /\ StepIm(b, s) \in BOOLEAN
  BY <1>1, <1>2, DescriptorsAssumption DEF StepMt, StepIm
<1>7. o[n] \in Ops
  BY <1>3 DEF Pieces
<1>8. o[n].count > 0 =>
         /\ ~ b.first /\ o[n].multi_threaded = b.multi_threaded /\ o[n].immediate = b.immediate
         /\ IsActive(s) => StepMt(b, s) = b.multi_threaded /\ StepIm(b, s) = b.immediate
  <2> SUFFICES ASSUME o[n].count > 0
               PROVE  /\ ~ b.first /\ o[n].multi_threaded = b.multi_threaded
                      /\ o[n].immediate = b.immediate
                      /\ IsActive(s) => StepMt(b, s) = b.multi_threaded /\ StepIm(b, s) = b.immediate
    OBVIOUS
  <2>1. ~ merge /\ o = b.ops
    BY <1>3
  <2>2. b.ops # <<>>
    BY <1>3, <2>1
  <2> HIDE DEF o
  <2>3. ~ b.first /\ o[n].multi_threaded = b.multi_threaded /\ o[n].immediate = b.immediate
    BY <2>1, <2>2 DEF Shape
  <2>4. IsActive(s) => StepMt(b, s) = b.multi_threaded /\ StepIm(b, s) = b.immediate
    BY <2>1, <2>3 DEF StepMerge, FlagsChanged
  <2> QED  BY <2>3, <2>4
<1> HIDE DEF o, r, merge, y
<1>9. CASE ~ IsActive(s)
  <2>1. r.ops = o /\ r.systems = y /\ r.first = b.first
    BY <1>1, <1>4, <1>9
  <2>2. Scheduled(y, k)
    <3>1. k - 1 \in Nat /\ 1 .. k = 1 .. (k - 1) \union {k}
      BY <1>2, PositionIs
    <3>2. \A i \in DOMAIN y : status[y[i]] = "active" /\ Position(y[i]) <= k
      <4>1. \A i \in DOMAIN y : y[i] \in SystemSet /\ Position(y[i]) \in Nat
        BY <1>1, PositionIs
      <4> QED  BY <1>1, <1>2, <4>1 DEF Scheduled
    <3>3. \A j \in 1 .. k : status[Systems[j]] = "active" => \E i \in DOMAIN y : y[i] = Systems[j]
      BY <1>1, <1>9, <3>1 DEF Scheduled, IsActive
    <3> QED  BY <3>2, <3>3 DEF Scheduled
  <2>3. StepMt(b, s) = b.multi_threaded /\ StepIm(b, s) = b.immediate
    BY <1>9 DEF StepMt, StepIm
  <2>4. InOrder(y) /\ Cut(o, y) /\ o # <<>>
    BY <1>1, <1>3 DEF InOrder, Cut
  <2>5. /\ InOrder(r.systems) /\ Cut(r.ops, r.systems) /\ Scheduled(r.systems, k)
        /\ r.ops # <<>> /\ r.ops[Len(r.ops)] = o[n]
    BY <2>1, <2>2, <2>4
  <2>6. r.multi_threaded = b.multi_threaded /\ r.immediate = b.immediate
    BY <1>4, <2>3
  <2>7. r.open = (r.ops # <<>>)
    BY <1>4, <2>5
  <2>8. r.multi_threaded \in BOOLEAN /\ r.immediate \in BOOLEAN /\ r.first \in BOOLEAN
    BY <1>1, <2>1, <2>6
  <2>9. r.ops # <<>> /\ r.ops[Len(r.ops)].count > 0 =>
            /\ ~ r.first
            /\ r.ops[Len(r.ops)].multi_threaded = r.multi_threaded
            /\ r.ops[Len(r.ops)].immediate = r.immediate
    BY <1>8, <2>1, <2>5, <2>6
  <2> QED  BY <1>5, <2>5, <2>7, <2>8, <2>9 DEF Shape, r
<1>10. CASE IsActive(s)
  <2> DEFINE o2 == [o EXCEPT ![n] = f]
             z == Append(y, s)
  <2>1. r.ops = o2 /\ r.systems = z /\ r.first = FALSE
    BY <1>4, <1>10
  <2>2. /\ f \in Ops /\ f.offset = o[n].offset /\ f.count = o[n].count + 1
        /\ f.multi_threaded = (IF o[n].count = 0 THEN StepMt(b, s) ELSE o[n].multi_threaded)
        /\ f.immediate = (IF o[n].count = 0 THEN StepIm(b, s) ELSE o[n].immediate)
    BY <1>6, <1>7, FilledIs
  <2>3. StepMt(b, s) = desc[s].multi_threaded /\ StepIm(b, s) = desc[s].immediate
    BY <1>10 DEF StepMt, StepIm
  <2>4. o[n].count \in Nat
    BY <1>7 DEF Ops
  <2>5. f.multi_threaded = StepMt(b, s) /\ f.immediate = StepIm(b, s)
    BY <1>8, <1>10, <2>2, <2>4
  <2> HIDE DEF f
  <2>6. /\ o2 \in Seq(Ops) /\ Len(o2) = n
        /\ \A i \in 1 .. n : o2[i] = IF i = n THEN f ELSE o[i]
    BY <1>3, <2>2, ExceptSeq
  <2>7. /\ z \in Seq(SystemSet) /\ Len(z) = m + 1 /\ z[m + 1] = s
        /\ \A i \in 1 .. m : z[i] = y[i]
    BY <1>1, <1>2, AppendProperties
  <2> HIDE DEF o2, z, n, m
  <2>8. Pieces(o2, n, z, m + 1)
    <3>1. n \in Nat /\ n # 0 /\ m \in Nat /\ Pieces(o, n, y, m)
      BY <1>1, <1>3
    <3>2. o[n].count > 0 => f.multi_threaded = o[n].multi_threaded /\ f.immediate = o[n].immediate
      BY <2>2
    <3>3. f.multi_threaded = desc[s].multi_threaded /\ f.immediate = desc[s].immediate
      BY <2>3, <2>5
    <3>4. f \in Ops /\ f.offset = o[n].offset /\ f.count = o[n].count + 1
      BY <2>2
    <3>5. Fills(o, n, y, m, s, f, o2, z)
      BY <2>6, <2>7, <3>2, <3>3, <3>4 DEF Fills
    <3> QED  BY <3>1, <3>5, PiecesFill
  <2>9. Cut(o2, z)
    BY <2>6, <2>7, <2>8 DEF Cut
  <2>10. DOMAIN z = 1 .. m + 1
    BY <2>7
  <2>11. \A i \in 1 .. m : y[i] \in SystemSet /\ Position(y[i]) \in Nat /\ Position(y[i]) < k
                          /\ status[y[i]] = "active"
    <3>1. \A i \in 1 .. m : y[i] \in SystemSet /\ Position(y[i]) \in Nat
      BY <1>1, PositionIs
    <3> QED  BY <1>1, <1>2, <3>1 DEF Scheduled
  <2>12. InOrder(z)
    <3>1. ASSUME NEW i \in 1 .. m + 1, NEW j \in 1 .. m + 1, i < j
          PROVE  Position(z[i]) < Position(z[j])
      <4>1. i \in 1 .. m
        BY <1>1, <3>1
      <4>2. CASE j = m + 1
        BY <1>2, <2>7, <2>11, <4>1, <4>2
      <4>3. CASE j # m + 1
        <5>1. j \in 1 .. m
          BY <1>1, <4>3
        <5> QED  BY <1>1, <2>7, <3>1, <4>1, <5>1
      <4> QED  BY <4>2, <4>3
    <3> QED  BY <2>7, <2>10, <3>1 DEF InOrder
  <2>13. Scheduled(z, k)
    <3>1. k - 1 \in Nat /\ 1 .. k = 1 .. (k - 1) \union {k} /\ 1 .. m + 1 = 1 .. m \union {m + 1}
      BY <1>1, <1>2, PositionIs, SMTT(20)
    <3>2. \A i \in 1 .. m + 1 : status[z[i]] = "active" /\ Position(z[i]) <= k
      BY <1>2, <1>10, <2>7, <2>11, <3>1 DEF IsActive
    <3>3. ASSUME NEW j \in 1 .. k, status[Systems[j]] = "active"
          PROVE  \E i \in 1 .. m + 1 : z[i] = Systems[j]
      <4>1. CASE j = k
        BY <2>7, <3>1, <4>1
      <4>2. CASE j \in 1 .. k - 1
        <5>1. PICK i \in 1 .. m : y[i] = Systems[j]
          BY <1>1, <3>3, <4>2 DEF Scheduled
        <5> QED  BY <2>7, <3>1, <5>1
      <4> QED  BY <3>1, <4>1, <4>2
    <3> QED  BY <2>10, <3>2, <3>3 DEF Scheduled
  <2>14. o2[n] = f /\ o2 # <<>>
    BY <1>3, <2>6
  <2>15. /\ InOrder(r.systems) /\ Cut(r.ops, r.systems) /\ Scheduled(r.systems, k)
         /\ r.ops # <<>> /\ r.ops[Len(r.ops)] = f
    BY <2>1, <2>6, <2>9, <2>12, <2>13, <2>14
  <2>16. r.multi_threaded = f.multi_threaded /\ r.immediate = f.immediate
    BY <1>4, <2>5
  <2>17. r.open = (r.ops # <<>>) /\ r.first \in BOOLEAN
    BY <1>4, <2>1, <2>15
  <2>18. r.multi_threaded \in BOOLEAN /\ r.immediate \in BOOLEAN /\ ~ r.first
    BY <1>4, <1>6, <2>1
  <2>19. r.ops # <<>> /\ r.ops[Len(r.ops)].count > 0 =>
            /\ ~ r.first
            /\ r.ops[Len(r.ops)].multi_threaded = r.multi_threaded
            /\ r.ops[Len(r.ops)].immediate = r.immediate
    BY <2>15, <2>16, <2>18
  <2> QED  BY <1>5, <2>15, <2>17, <2>18, <2>19 DEF Shape, r
<1> QED  BY <1>9, <1>10 DEF r
\* A system that does not bring a merge about needs nothing that is written.
LEMMA NoMergeNoConflict ==
    ASSUME Typed, NoCrossing, NEW b, b.ws \in WriteStates, NEW s \in SystemSet,
           ~ StepMerge(b, s), NEW a \in SystemSet, Covers(b.ws, a)
    PROVE  ~ Conflict(a, s)
<1> SUFFICES ASSUME NEW x \in Writes(a), NEW z \in Needs(s), SameComponent(x, z)
             PROVE  FALSE
  BY DEF Conflict
<1>1. desc[s] \in Descriptors /\ desc[a] \in Descriptors
  BY DEF Typed
<1>2. x \in WriteIds /\ z \in NeedIds
  BY <1>1, WritesAndNeeds
<1>3. Written(b.ws, x)
  BY DEF Covers, Written
<1>4. Staged(b.ws, z)
  BY <1>2, <1>3, SameIsStaged
<1>5. IsTerms(desc[s].terms, Len(desc[s].terms)) /\ DOMAIN desc[s].terms = 1 .. Len(desc[s].terms)
  BY <1>1, DescriptorTerms
<1>6. ~ CheckTerms(desc[s].terms, IsActive(s), b.ws).merge /\ IsActive(s) \in BOOLEAN
  BY DEF StepMerge, IsActive
<1>7. \A j \in 1 .. Len(desc[s].terms) :
         TermNeeds(desc[s].terms[j]) => ~ Staged(b.ws, desc[s].terms[j].id)
  BY <1>5, <1>6, CheckTermsIs
<1> QED  BY <1>1, <1>4, <1>5, <1>7, WritesAndNeeds

\* The write state covers the writes of the system itself ...
LEMMA OwnWritesCovered ==
    ASSUME Typed, NoLostWrite, NEW b, b.ws \in WriteStates, NEW s \in SystemSet, IsActive(s)
    PROVE  Covers(StepWs(b, s), s)
<1> SUFFICES ASSUME NEW x \in Writes(s)
             PROVE  Written(StepWs(b, s), x)
  BY DEF Covers, Written
<1>1. desc[s] \in Descriptors
  BY DEF Typed
<1> DEFINE terms == desc[s].terms
<1>2. IsTerms(terms, Len(terms)) /\ DOMAIN terms = 1 .. Len(terms)
  BY <1>1, DescriptorTerms
<1>3. PICK j \in 1 .. Len(terms) : TermWrites(terms[j]) /\ x = terms[j].id
  BY <1>1, <1>2, WritesAndNeeds
<1>4. IsActive(s) = TRUE
  BY DEF IsActive
<1>5. CASE StepMerge(b, s)
  <2>1. StepWs(b, s) = CheckTerms(terms, TRUE, NoWrites).ws
    BY <1>4, <1>5 DEF StepWs
  <2>2. \A i, k \in 1 .. Len(terms) :
              /\ i < k /\ FromThis(terms[i]) /\ FromThis(terms[k])
              /\ TermWrites(terms[i]) /\ TermWrites(terms[k])
              => ~ Staged(Single(terms[i]), terms[k].id)
    BY <1>1, <1>2 DEF NoLostWrite, Single
  <2> HIDE DEF terms
  <2>4. Written(CheckTerms(terms, TRUE, NoWrites).ws, terms[j].id)
    BY <1>2, <1>3, <2>2, NoWriteIsLost
  <2> QED  BY <1>3, <2>1, <2>4
<1>6. CASE ~ StepMerge(b, s)
  <2>1. StepWs(b, s) = CheckTerms(terms, TRUE, b.ws).ws
    BY <1>4, <1>6 DEF StepWs
  <2>2. ~ CheckTerms(terms, TRUE, b.ws).merge
    BY <1>4, <1>6 DEF StepMerge
  <2> HIDE DEF terms
  <2>4. Written(CheckTerms(terms, TRUE, b.ws).ws, terms[j].id)
    BY <1>2, <1>3, <2>2, CheckTermsIs
  <2> QED  BY <1>3, <2>1, <2>4
<1> QED  BY <1>5, <1>6

\* ... and, without a merge, of the systems before it.
LEMMA OldWritesCovered ==
    ASSUME Typed, NEW b, b.ws \in WriteStates, NEW s \in SystemSet, ~ StepMerge(b, s),
           NEW a, Covers(b.ws, a)
    PROVE  Covers(StepWs(b, s), a)
<1>1. IsTerms(desc[s].terms, Len(desc[s].terms)) /\ IsActive(s) \in BOOLEAN
  BY DescriptorTerms DEF Typed, IsActive
<1>2. \A x : Written(b.ws, x) => Written(StepWs(b, s), x)
  BY <1>1, CheckTermsIs DEF StepWs
<1> QED  BY <1>2 DEF Covers, Written

\* ... and the merges: the system either needs nothing that the open operation
\* writes, or a new operation begins with it.
LEMMA MergedStep ==
    ASSUME Typed, NoLostWrite, NoCrossing, NEW b, NEW k \in DOMAIN Systems, Shape(b, k - 1),
           NEW s, s = Systems[k], Merged(b.ops, b.systems), OpenMerged(b, k - 1)
    PROVE  Merged(BuildStep(b, s).ops, BuildStep(b, s).systems) /\ OpenMerged(BuildStep(b, s), k)
<1> DEFINE y == b.systems
           m == Len(y)
           merge == StepMerge(b, s)
           o == Opened(b, merge)
           n == Len(o)
           f == Filled(o[n], StepMt(b, s), StepIm(b, s))
           r == BuildStep(b, s)
<1>1. /\ y \in Seq(SystemSet) /\ m \in Nat /\ DOMAIN y = 1 .. m
      /\ \A i, j \in DOMAIN y : i < j => Position(y[i]) < Position(y[j])
      /\ Scheduled(y, k - 1) /\ b.ws \in WriteStates
      /\ b.multi_threaded \in BOOLEAN /\ b.immediate \in BOOLEAN
  BY DEF Shape, InOrder
<1>2. s \in SystemSet /\ desc[s] \in Descriptors /\ Position(s) = k /\ k \in Nat
  BY PositionIs DEF Typed
<1>3. /\ o \in Seq(Ops) /\ n \in Nat \ {0} /\ Pieces(o, n, y, m)
      /\ o[n].count > 0 => ~ merge /\ o = b.ops
      /\ \/ o = b.ops
         \/ /\ Len(o) = Len(b.ops) + 1
            /\ \A i \in 1 .. Len(b.ops) : o[i] = b.ops[i]
            /\ o[Len(o)] = NewOp(m + 1)
  BY OpenedIs, ZenonT(30)
<1>4. /\ r.ops = IF IsActive(s) THEN [o EXCEPT ![n] = f] ELSE o
      /\ r.systems = IF IsActive(s) THEN Append(y, s) ELSE y
      /\ r.ws = StepWs(b, s)
  <2>1. r = [ops |-> IF IsActive(s) THEN [o EXCEPT ![n] = f] ELSE o,
             systems |-> IF IsActive(s) THEN Append(y, s) ELSE y,
             open |-> TRUE, ws |-> StepWs(b, s), first |-> b.first /\ ~ IsActive(s),
             multi_threaded |-> StepMt(b, s), immediate |-> StepIm(b, s)]
    BY BuildStepIs
  <2> HIDE DEF r, o, f, n, y
  <2> QED  BY <2>1
<1>5. StepMt(b, s) \in BOOLEAN /\ StepIm(b, s) \in BOOLEAN
  BY <1>1, <1>2, DescriptorsAssumption DEF StepMt, StepIm
<1> HIDE DEF o, r, merge, y
<1>6. /\ o[n] \in Ops /\ o[n].offset + o[n].count = m + 1 /\ o[n].offset \in Nat /\ o[n].count \in Nat
      /\ o[n].offset >= 1
  BY <1>3 DEF Pieces, Ops
<1>7. \A i \in 1 .. m : y[i] \in SystemSet /\ Position(y[i]) \in Nat /\ Position(y[i]) < k
  <2>1. \A i \in 1 .. m : y[i] \in SystemSet /\ Position(y[i]) \in Nat
    BY <1>1, PositionIs
  <2> QED  BY <1>1, <1>2, <2>1 DEF Scheduled
<1>8. Merged(o, y)
  <2>1. CASE o = b.ops
    BY <2>1 DEF y
  <2>2. CASE o # b.ops
    <3>1. o[n].count = 0
      BY <1>3, <1>6, <2>2
    <3> SUFFICES ASSUME NEW q \in DOMAIN o,
                        NEW i \in o[q].offset .. o[q].offset + o[q].count - 1,
                        NEW j \in o[q].offset .. o[q].offset + o[q].count - 1,
                        NEW u \in SystemSet, status[u] # "absent",
                        Position(y[i]) < Position(u), Position(u) <= Position(y[j])
                 PROVE  ~ Conflict(y[i], u)
      BY DEF Merged
    <3>2. DOMAIN o = 1 .. n /\ DOMAIN b.ops = 1 .. Len(b.ops) /\ Len(b.ops) \in Nat
      BY <1>3 DEF Shape, Cut
    <3>3. q # n
      BY <1>6, <3>1
    <3>4. q \in DOMAIN b.ops /\ o[q] = b.ops[q]
      <4>1. n = Len(b.ops) + 1 /\ \A h \in 1 .. Len(b.ops) : o[h] = b.ops[h]
        BY <1>3, <2>2
      <4>2. q \in 1 .. n
        BY <3>2
      <4> HIDE DEF n
      <4>3. q \in 1 .. Len(b.ops)
        BY <3>2, <3>3, <4>1, <4>2
      <4> QED  BY <3>2, <4>1, <4>3
    <3> QED  BY <3>4 DEF Merged, y
  <2> QED  BY <2>1, <2>2
\* The systems of the open operation and the system s.
<1>9. ASSUME NEW i \in o[n].offset .. m
      PROVE  /\ ~ merge /\ i \in 1 .. m
             /\ Covers(b.ws, y[i])
             /\ \A j \in 1 .. k - 1 : status[Systems[j]] # "absent" /\ Position(y[i]) < j
                                       => ~ Conflict(y[i], Systems[j])
  <2>1. o[n].count > 0 /\ i \in 1 .. m
    BY <1>1, <1>6
  <2>2. ~ merge /\ o = b.ops /\ n = Len(b.ops) /\ b.ops # <<>>
    BY <1>3, <2>1
  <2>3. i \in b.ops[Len(b.ops)].offset .. Len(b.systems)
    BY <2>2 DEF y
  <2> QED  BY <2>1, <2>2, <2>3 DEF OpenMerged, y
<1>10. ASSUME NEW i \in o[n].offset .. m
       PROVE  Covers(r.ws, y[i]) /\ ~ Conflict(y[i], s)
  <2>1. ~ merge /\ i \in 1 .. m /\ Covers(b.ws, y[i]) /\ y[i] \in SystemSet
    BY <1>7, <1>9
  <2> QED  BY <1>1, <1>2, <1>4, <2>1, OldWritesCovered, NoMergeNoConflict DEF merge
<1>11. ASSUME NEW i \in o[n].offset .. m, NEW j \in 1 .. k, status[Systems[j]] # "absent",
              Position(y[i]) < j
       PROVE  ~ Conflict(y[i], Systems[j])
  <2>1. CASE j = k
    BY <1>10, <2>1
  <2>2. CASE j # k
    <3>1. j \in 1 .. k - 1
      BY <1>2, <2>2
    <3> QED  BY <1>9, <1>11, <3>1
  <2> QED  BY <2>1, <2>2
<1>12. CASE ~ IsActive(s)
  <2>1. r.ops = o /\ r.systems = y
    BY <1>4, <1>12
  <2>2. OpenMerged(r, k)
    <3>1. \A i \in o[n].offset .. m :
             /\ Covers(r.ws, y[i])
             /\ \A j \in 1 .. k : status[Systems[j]] # "absent" /\ Position(y[i]) < j
                                   => ~ Conflict(y[i], Systems[j])
      BY <1>10, <1>11
    <3> QED  BY <2>1, <3>1 DEF OpenMerged
  <2> QED  BY <1>8, <2>1, <2>2 DEF r
<1>13. CASE IsActive(s)
  <2> DEFINE o2 == [o EXCEPT ![n] = f]
             z == Append(y, s)
  <2>1. r.ops = o2 /\ r.systems = z
    BY <1>4, <1>13
  <2>2. f \in Ops /\ f.offset = o[n].offset /\ f.count = o[n].count + 1
    BY <1>5, <1>6, FilledIs
  <2> HIDE DEF f
  <2>3. /\ o2 \in Seq(Ops) /\ Len(o2) = n
        /\ \A i \in 1 .. n : o2[i] = IF i = n THEN f ELSE o[i]
    BY <1>3, <2>2, ExceptSeq
  <2>4. /\ z \in Seq(SystemSet) /\ Len(z) = m + 1 /\ z[m + 1] = s
        /\ \A i \in 1 .. m : z[i] = y[i]
    BY <1>1, <1>2, AppendProperties
  <2> HIDE DEF o2, z
  <2>5. DOMAIN o2 = 1 .. n /\ o2[n] = f /\ DOMAIN o = 1 .. n /\ o2 # <<>>
    BY <1>3, <2>3
  <2> HIDE DEF n, m
  <2>6. ASSUME NEW i \in o[n].offset .. m + 1
        PROVE  /\ Covers(r.ws, z[i])
               /\ \A j \in 1 .. k : status[Systems[j]] # "absent" /\ Position(z[i]) < j
                                     => ~ Conflict(z[i], Systems[j])
    <3>1. CASE i = m + 1
      <4>1. Covers(r.ws, s)
        BY <1>1, <1>2, <1>4, <1>13, OwnWritesCovered
      <4> QED  BY <1>2, <2>4, <3>1, <4>1
    <3>2. CASE i # m + 1
      <4>1. i \in o[n].offset .. m /\ i \in 1 .. m
        BY <1>1, <1>6, <3>2
      <4> QED  BY <1>10, <1>11, <2>4, <4>1
    <3> QED  BY <3>1, <3>2
  <2>7. OpenMerged(r, k)
    BY <2>1, <2>2, <2>3, <2>4, <2>5, <2>6 DEF OpenMerged
  <2>8. ASSUME NEW q \in DOMAIN o2,
               NEW i \in o2[q].offset .. o2[q].offset + o2[q].count - 1,
               NEW j \in o2[q].offset .. o2[q].offset + o2[q].count - 1,
               NEW u \in SystemSet, status[u] # "absent",
               Position(z[i]) < Position(u), Position(u) <= Position(z[j])
        PROVE  ~ Conflict(z[i], u)
    <3>1. CASE q = n
      <4>1. i \in o[n].offset .. m + 1 /\ j \in o[n].offset .. m + 1
        BY <1>6, <2>2, <2>5, <3>1
      <4>2. Position(z[j]) \in Nat /\ Position(z[j]) <= k
        <5>1. CASE j = m + 1
          BY <1>2, <2>4, <5>1
        <5>2. CASE j # m + 1
          <6>1. j \in 1 .. m
            BY <1>1, <1>6, <4>1, <5>2
          <6> QED  BY <1>2, <1>7, <2>4, <6>1
        <5> QED  BY <5>1, <5>2
      <4>3. Position(u) \in 1 .. k /\ Systems[Position(u)] = u
        BY <1>2, <2>8, <4>2, PositionIs
      <4> QED  BY <2>6, <2>8, <4>1, <4>3
    <3>2. CASE q # n
      <4>1. o2[q] = o[q] /\ q \in 1 .. n /\ q < n
        BY <2>3, <2>5, <3>2, <1>3
      <4>2. o[q] \in Ops /\ o[q].offset >= 1 /\ o[q].offset + o[q].count <= m + 1
        BY <1>3, <4>1 DEF Pieces
      <4>3. o[q].offset \in Nat /\ o[q].count \in Nat
        BY <4>2 DEF Ops
      <4>4. i \in 1 .. m /\ j \in 1 .. m
        <5> DEFINE off == o[q].offset
                   cnt == o[q].count
        <5>1. /\ i \in off .. off + cnt - 1 /\ j \in off .. off + cnt - 1
              /\ off \in Nat /\ cnt \in Nat /\ off >= 1 /\ off + cnt <= m + 1 /\ m \in Nat
          BY <1>1, <4>1, <4>2, <4>3 DEF m
        <5> HIDE DEF off, cnt
        <5> QED  BY <5>1
      <4>5. z[i] = y[i] /\ z[j] = y[j]
        BY <2>4, <4>4
      <4> QED  BY <1>8, <2>5, <2>8, <4>1, <4>5 DEF Merged
    <3> QED  BY <3>1, <3>2
  <2>9. Merged(o2, z)
    BY <2>8 DEF Merged
  <2> QED  BY <2>1, <2>7, <2>9 DEF r
<1> QED  BY <1>12, <1>13
-----------------------------------------------------------------------------
(***************************************************************************)
(* The whole loop, by induction over the systems of the query.             *)
(***************************************************************************)
LoopStep(ctx, b, s) ==
    IF status[s] = "absent" THEN b ELSE Only({BuildStep(x, s) : x \in {b}})

LoopInv(ctx, b, k) ==
    /\ Shape(b, k)
    /\ NoLostWrite /\ NoCrossing => Merged(b.ops, b.systems) /\ OpenMerged(b, k)

Loops == INSTANCE Induction WITH Step <- LoopStep, Inv <- LoopInv

\* The loop of flecs_pipeline_build is a fold.
LEMMA BuildLoopFold ==
    BuildLoop(Systems) = Loops!Fold(0, BuildStart, Systems)
BY DEF BuildLoop, Loops!Fold, LoopStep, FoldLeft, Loops!FoldLeft, MapThenFoldSet,
       Loops!MapThenFoldSet, Max, Loops!Max

\* Before the loop there are no operations.
LEMMA LoopStarts ==
    LoopInv(0, BuildStart, 0)
<1> DEFINE b == BuildStart
<1>1. /\ b.ops = <<>> /\ b.systems = <<>> /\ b.open = FALSE /\ b.ws = NoWrites /\ b.first = TRUE
      /\ b.multi_threaded = FALSE /\ b.immediate = FALSE
  BY DEF BuildStart
<1> HIDE DEF b
<1>2. InOrder(<<>>) /\ Scheduled(<<>>, 0)
  BY DEF InOrder, Scheduled
<1>3. Cut(<<>>, <<>>)
  BY DEF Cut, Pieces
<1>4. b.open = (b.ops # <<>>)
  BY <1>1
<1>5. Shape(b, 0)
  BY <1>1, <1>2, <1>3, <1>4, NothingStaged DEF Shape
<1>6. Merged(<<>>, <<>>) /\ OpenMerged(b, 0)
  BY <1>1 DEF Merged, OpenMerged
<1> QED  BY <1>1, <1>5, <1>6 DEF LoopInv, b

\* A system that the query does not match changes nothing.
LEMMA AbsentStep ==
    ASSUME Typed, NEW b, NEW k \in DOMAIN Systems, LoopInv(0, b, k - 1),
           status[Systems[k]] = "absent"
    PROVE  LoopInv(0, b, k)
<1>1. k \in Nat /\ k - 1 \in Nat /\ 1 .. k = 1 .. (k - 1) \union {k}
  BY PositionIs
<1>2. Scheduled(b.systems, k)
  <2>1. \A i \in DOMAIN b.systems : Position(b.systems[i]) \in Nat
    BY PositionIs DEF LoopInv, Shape, InOrder
  <2> QED  BY <1>1, <2>1 DEF LoopInv, Shape, Scheduled
<1>3. Shape(b, k)
  BY <1>2 DEF LoopInv, Shape
<1>4. OpenMerged(b, k - 1) => OpenMerged(b, k)
  BY <1>1 DEF OpenMerged
<1> QED  BY <1>3, <1>4 DEF LoopInv

\* After the loop all systems of the query have been looked at.
LEMMA LoopRuns ==
    ASSUME Typed
    PROVE  LoopInv(0, BuildLoop(Systems), Len(Systems))
<1>1. DOMAIN Systems = 1 .. Len(Systems) /\ Len(Systems) \in Nat
  BY PositionIs
<1>2. ASSUME NEW b, NEW k \in 1 .. Len(Systems), LoopInv(0, b, k - 1)
      PROVE  LoopInv(0, LoopStep(0, b, Systems[k]), k)
  <2>1. CASE status[Systems[k]] = "absent"
    <3>1. LoopStep(0, b, Systems[k]) = b
      BY <2>1 DEF LoopStep
    <3> QED  BY <1>1, <1>2, <2>1, <3>1, AbsentStep
  <2>2. CASE status[Systems[k]] # "absent"
    <3>1. LoopStep(0, b, Systems[k]) = BuildStep(b, Systems[k])
      BY <2>2, OnlyIs DEF LoopStep
    <3>2. Shape(BuildStep(b, Systems[k]), k)
      BY <1>1, <1>2, ShapeStep DEF LoopInv
    <3>3. NoLostWrite /\ NoCrossing =>
            /\ Merged(BuildStep(b, Systems[k]).ops, BuildStep(b, Systems[k]).systems)
            /\ OpenMerged(BuildStep(b, Systems[k]), k)
      BY <1>1, <1>2, MergedStep DEF LoopInv
    <3> QED  BY <3>1, <3>2, <3>3 DEF LoopInv
  <2> QED  BY <2>1, <2>2
<1>3. LoopInv(0, Loops!Fold(0, BuildStart, Systems), Len(Systems))
  BY <1>1, <1>2, LoopStarts, Loops!FoldInvariant
<1> QED  BY <1>3, BuildLoopFold

\* A schedule that was just built.
Built(b) ==
    /\ InOrder(b.systems) /\ Cut(b.ops, b.systems)
    /\ Len(b.ops) > 1 => b.ops[Len(b.ops)].count > 0
    /\ Scheduled(b.systems, Len(Systems))
    /\ NoLostWrite /\ NoCrossing => Merged(b.ops, b.systems)

\* What flecs_pipeline_build returns, after an empty last operation was dropped.
LEMMA BuildIs ==
    ASSUME Typed
    PROVE  Built(Build)
<1> DEFINE b == BuildLoop(Systems)
           n == Len(b.ops)
           r == BuildEnd(b)
<1>1. Build = r
  BY OnlyIs DEF Build
<1>2. Shape(b, Len(Systems)) /\ (NoLostWrite /\ NoCrossing => Merged(b.ops, b.systems))
  BY LoopRuns DEF LoopInv
<1> HIDE DEF b
<1>3. r.systems = b.systems /\ r.ops = IF n > 1 /\ b.ops[n].count = 0 THEN Front(b.ops) ELSE b.ops
  BY DEF BuildEnd, Last
<1> HIDE DEF r
<1>4. /\ InOrder(r.systems) /\ Scheduled(r.systems, Len(Systems)) /\ b.ops \in Seq(Ops) /\ n \in Nat
      /\ Pieces(b.ops, n, b.systems, Len(b.systems)) /\ Len(b.systems) \in Nat
  BY <1>2, <1>3 DEF Shape, Cut, InOrder
<1>5. CASE ~ (n > 1 /\ b.ops[n].count = 0)
  <2>1. r.ops = b.ops
    BY <1>3, <1>5
  <2>2. n > 1 => b.ops[n].count > 0
    <3>1. n > 1 => b.ops[n] \in Ops
      BY <1>4
    <3> QED  BY <1>5, <3>1 DEF Ops
  <2> QED  BY <1>1, <1>2, <1>3, <1>4, <2>1, <2>2 DEF Built, Shape
<1>6. CASE n > 1 /\ b.ops[n].count = 0
  <2> DEFINE o == SubSeq(b.ops, 1, n - 1)
  <2>1. r.ops = o
    BY <1>3, <1>6 DEF Front
  <2>2. \A i \in 1 .. n - 1 : b.ops[i] \in Ops
    BY <1>4
  <2>3. n - 1 \in Int /\ 1 \in Int /\ 1 <= n - 1 /\ n - 1 - 1 + 1 = n - 1 /\ \A i \in Int : 1 + i - 1 = i
    BY <1>4, <1>6
  <2>4. o \in Seq(Ops) /\ Len(o) = n - 1 /\ \A i \in 1 .. n - 1 : o[i] = b.ops[i]
    BY <2>2, <2>3, SubSeqProperties
  <2> HIDE DEF o, n
  <2>5. Pieces(o, n - 1, b.systems, Len(b.systems))
    <3>1. b.ops[n - 1].offset + b.ops[n - 1].count = Len(b.systems) + 1
      <4>1. n \in 1 .. n /\ n # 1 /\ n # 0
        BY <1>4, <1>6
      <4>2. b.ops[n].offset = b.ops[n - 1].offset + b.ops[n - 1].count
        BY <1>4, <4>1 DEF Pieces
      <4>3. b.ops[n].offset + b.ops[n].count = Len(b.systems) + 1 /\ b.ops[n] \in Ops
        BY <1>4, <4>1 DEF Pieces
      <4> QED  BY <1>6, <4>2, <4>3 DEF Ops
    <3>2. o[n - 1] = b.ops[n - 1] /\ n - 1 # 0
      BY <1>4, <1>6, <2>4
    <3>3. ASSUME NEW k \in 1 .. n - 1
          PROVE  /\ o[k] \in Ops
                 /\ o[k].offset = IF k = 1 THEN 1 ELSE o[k - 1].offset + o[k - 1].count
                 /\ k < n - 1 => o[k].count > 0
                 /\ o[k].offset >= 1 /\ o[k].offset + o[k].count <= Len(b.systems) + 1
                 /\ \A i \in o[k].offset .. o[k].offset + o[k].count - 1 :
                       /\ desc[b.systems[i]].multi_threaded = o[k].multi_threaded
                       /\ desc[b.systems[i]].immediate = o[k].immediate
      <4>1. k \in 1 .. n /\ k < n /\ o[k] = b.ops[k] /\ (k # 1 => o[k - 1] = b.ops[k - 1])
        BY <1>4, <1>6, <2>4
      <4> QED  BY <1>4, <4>1 DEF Pieces
    <3> QED  BY <3>1, <3>2, <3>3 DEF Pieces
  <2>6. o[n - 1].count > 0
    <3>1. n - 1 \in 1 .. n /\ n - 1 < n /\ n - 1 \in 1 .. n - 1
      BY <1>4, <1>6
    <3> QED  BY <1>4, <2>4, <3>1 DEF Pieces
  <2>7. ASSUME Merged(b.ops, b.systems)
        PROVE  Merged(o, b.systems)
    <3>1. \A q \in DOMAIN o : q \in DOMAIN b.ops /\ o[q] = b.ops[q]
      <4>1. DOMAIN o = 1 .. n - 1 /\ DOMAIN b.ops = 1 .. n
        BY <1>4, <2>4 DEF n
      <4> QED  BY <1>4, <2>4, <4>1
    <3> QED  BY <2>7, <3>1 DEF Merged
  <2>8. Cut(o, b.systems)
    BY <2>4, <2>5 DEF Cut
  <2> QED  BY <1>1, <1>2, <1>3, <1>4, <2>1, <2>4, <2>6, <2>7, <2>8 DEF Built
<1> QED  BY <1>5, <1>6
-----------------------------------------------------------------------------
(***************************************************************************)
(* The frame.                                                              *)
(***************************************************************************)
\* The invariants that no hypothesis on the merges is needed for.
LEMMA InitInv ==
    Init => IndInv
<1> SUFFICES ASSUME Init PROVE IndInv
  OBVIOUS
<1> USE DEF Init
<1>1. TypeOK
  BY DEF TypeOK
<1>2. ScheduleInv
  <2>1. InOrder(<<>>) /\ Cut(<<>>, <<>>) /\ Len(<<>>) = 0
    BY DEF InOrder, Cut, Pieces
  <2> QED  BY <2>1 DEF ScheduleInv
<1>3. FrameInv /\ WalkInv
  BY DEF FrameInv, WalkInv
<1> QED  BY <1>1, <1>2, <1>3 DEF IndInv

\* The schedule depends on the systems and their status only.
LEMMA ScheduleStays ==
    ASSUME ScheduleInv, UNCHANGED <<desc, ops, systems>>,
           ~ stale' => ~ stale /\ status' = status,
           pc' \in {"loop", "done"} => ~ stale'
    PROVE  ScheduleInv'
<1>1. InOrder(systems)' /\ Cut(ops, systems)'
  BY DEF ScheduleInv, InOrder, Cut, Pieces, Ops, Position, SystemSet, ToSet
<1>2. (Len(ops) > 1 => ops[Len(ops)].count > 0)'
  BY DEF ScheduleInv
<1>3. (~ stale => Scheduled(systems, Len(Systems)))'
  BY DEF ScheduleInv, Scheduled, Position
<1>4. (~ stale /\ NoLostWrite /\ NoCrossing => Merged(ops, systems))'
  <2> SUFFICES ASSUME ~ stale', NoLostWrite', NoCrossing'
               PROVE  Merged(ops, systems)'
    OBVIOUS
  <2>1. NoLostWrite
    OBVIOUS
  <2>2. NoCrossing
    OBVIOUS
  <2>3. Merged(ops, systems)
    BY <2>1, <2>2 DEF ScheduleInv
  <2>4. \A a, s : Conflict(a, s)' <=> Conflict(a, s)
    BY DEF Conflict, Writes, Needs
  <2> QED  BY <2>3, <2>4 DEF Merged
<1> QED  BY <1>1, <1>2, <1>3, <1>4 DEF ScheduleInv

\* What the schedule is after a rebuild, or without one if it is not stale.
Current == IF stale THEN Build ELSE [ops |-> ops, systems |-> systems]

\* It is one that flecs_pipeline_build would return for the systems as they are.
LEMMA CurrentBuilt ==
    ASSUME TypeOK, ScheduleInv
    PROVE  Built(Current)
<1>1. CASE stale
  BY <1>1, BuildIs DEF Current, Typed, TypeOK
<1>2. CASE ~ stale
  <2> DEFINE b == Current
  <2>1. b.ops = ops /\ b.systems = systems
    BY <1>2 DEF Current
  <2> HIDE DEF b
  <2>2. Built(b)
    BY <1>2, <2>1 DEF Built, ScheduleInv
  <2> QED  BY <2>2 DEF b
<1> QED  BY <1>1, <1>2 DEF TypeOK

\* A step that takes such a schedule establishes the invariant of the schedule.
LEMMA ScheduleFresh ==
    ASSUME NEW b, Built(b), ops' = b.ops, systems' = b.systems, ~ stale',
           UNCHANGED <<desc, status>>
    PROVE  ScheduleInv'
<1>1. InOrder(systems)' /\ Cut(ops, systems)'
  BY SMTT(20) DEF Built, InOrder, Cut, Pieces, Ops, Position, SystemSet, ToSet
<1>2. (Len(ops) > 1 => ops[Len(ops)].count > 0)'
  BY DEF Built
<1>3. (~ stale => Scheduled(systems, Len(Systems)))'
  BY DEF Built, Scheduled, Position
<1>4. (~ stale /\ NoLostWrite /\ NoCrossing => Merged(ops, systems))'
  <2> SUFFICES ASSUME NoLostWrite', NoCrossing'
               PROVE  Merged(ops, systems)'
    OBVIOUS
  <2>1. NoLostWrite
    OBVIOUS
  <2>2. NoCrossing
    OBVIOUS
  <2>3. Merged(b.ops, b.systems)
    BY <2>1, <2>2 DEF Built
  <2>4. \A a, s : Conflict(a, s)' <=> Conflict(a, s)
    BY DEF Conflict, Writes, Needs
  <2> QED  BY <2>3, <2>4 DEF Merged
<1> QED  BY <1>1, <1>2, <1>3, <1>4 DEF ScheduleInv

\* Facts about a schedule that the steps of the walk use.
LEMMA OpsFacts ==
    ASSUME NEW b, Built(b)
    PROVE  /\ DOMAIN b.systems = 1 .. Len(b.systems) /\ Len(b.systems) \in Nat
           /\ DOMAIN b.ops = 1 .. Len(b.ops) /\ Len(b.ops) \in Nat
           /\ \A i \in DOMAIN b.systems : b.systems[i] \in SystemSet
           /\ b.systems # <<>> <=> Len(b.systems) # 0
           /\ b.ops # <<>> <=> Len(b.ops) # 0
           /\ \A i, j \in DOMAIN b.systems :
                 /\ Position(b.systems[i]) <= Position(b.systems[j]) <=> i <= j
                 /\ b.systems[i] = b.systems[j] => i = j
           /\ \A k \in 1 .. Len(b.ops) :
                 /\ b.ops[k].offset \in Nat /\ b.ops[k].count \in Nat /\ b.ops[k].offset >= 1
                 /\ b.ops[k].offset + b.ops[k].count <= Len(b.systems) + 1
                 /\ k # 1 => b.ops[k].offset = b.ops[k - 1].offset + b.ops[k - 1].count
                 /\ k = 1 => b.ops[k].offset = 1
                 /\ Len(b.systems) # 0 => b.ops[k].count > 0
                 /\ k = Len(b.ops) => b.ops[k].offset + b.ops[k].count = Len(b.systems) + 1
           /\ Len(b.systems) = 0 => Len(b.ops) <= 1
           /\ Len(b.ops) = 0 => Len(b.systems) = 0
           /\ \A s \in SystemSet : status[s] = "active" => \E j \in DOMAIN b.systems : b.systems[j] = s
           /\ \A j \in DOMAIN b.systems : status[b.systems[j]] = "active"
<1> DEFINE y == b.systems
           m == Len(y)
           o == b.ops
           n == Len(o)
<1>1. /\ y \in Seq(SystemSet) /\ o \in Seq(Ops) /\ Pieces(o, n, y, m)
      /\ \A i, j \in DOMAIN y : i < j => Position(y[i]) < Position(y[j])
      /\ n > 1 => o[n].count > 0
      /\ Scheduled(y, Len(Systems))
  BY DEF Built, InOrder, Cut
<1>2. DOMAIN y = 1 .. m /\ m \in Nat /\ DOMAIN o = 1 .. n /\ n \in Nat
  BY <1>1
<1>3. \A i \in DOMAIN y : y[i] \in SystemSet /\ Position(y[i]) \in Nat
  BY <1>1, PositionIs
<1>4. ASSUME NEW i \in DOMAIN y, NEW j \in DOMAIN y
      PROVE  /\ Position(y[i]) <= Position(y[j]) <=> i <= j
             /\ y[i] = y[j] => i = j
  <2>1. i < j => Position(y[i]) < Position(y[j])
    BY <1>1
  <2>2. j < i => Position(y[j]) < Position(y[i])
    BY <1>1
  <2>3. Position(y[i]) \in Nat /\ Position(y[j]) \in Nat /\ i \in Nat /\ j \in Nat
    BY <1>2, <1>3
  <2> HIDE DEF y
  <2> QED  BY <2>1, <2>2, <2>3
<1>5. ASSUME NEW k \in 1 .. n
      PROVE  /\ o[k].offset \in Nat /\ o[k].count \in Nat /\ o[k].offset >= 1
             /\ o[k].offset + o[k].count <= m + 1
             /\ k # 1 => o[k].offset = o[k - 1].offset + o[k - 1].count
             /\ k = 1 => o[k].offset = 1
             /\ k < n => o[k].count > 0
             /\ k = n => o[k].offset + o[k].count = m + 1
  <2>1. o[k] \in Ops
    BY <1>1 DEF Pieces
  <2>2. o[k].offset \in Nat /\ o[k].count \in Nat
    BY <2>1 DEF Ops
  <2>3. /\ o[k].offset = IF k = 1 THEN 1 ELSE o[k - 1].offset + o[k - 1].count
        /\ k < n => o[k].count > 0
        /\ o[k].offset >= 1 /\ o[k].offset + o[k].count <= m + 1
    BY <1>1 DEF Pieces
  <2>4. n # 0 => o[n].offset + o[n].count = m + 1
    BY <1>1 DEF Pieces
  <2>5. n # 0
    BY <1>2
  <2> HIDE DEF o, n, m
  <2> QED  BY <2>2, <2>3, <2>4, <2>5
<1>6. ASSUME NEW k \in 1 .. n, m # 0
      PROVE  o[k].count > 0
  <2>1. CASE k < n
    BY <1>5, <2>1
  <2>2. CASE k = n /\ n > 1
    BY <1>1, <2>2
  <2>3. CASE k = n /\ n = 1
    <3>1. o[k].offset = 1 /\ o[k].offset + o[k].count = m + 1 /\ o[k].count \in Nat
      BY <1>5, <2>3
    <3> HIDE DEF o, n, m
    <3> QED  BY <1>2, <1>6, <3>1
  <2>4. k \in Nat /\ k <= n /\ k >= 1 /\ n \in Nat
    BY <1>2
  <2> HIDE DEF o, n, m
  <2> QED  BY <2>1, <2>2, <2>3, <2>4
<1>7. m = 0 => n <= 1
  <2> SUFFICES ASSUME m = 0, n > 1 PROVE FALSE
    BY <1>2
  <2>1. 1 \in 1 .. n /\ 1 < n
    BY <1>2
  <2>2. o[1].offset = 1 /\ o[1].count > 0 /\ o[1].count \in Nat /\ o[1].offset + o[1].count <= m + 1
    BY <1>5, <2>1
  <2> HIDE DEF o, n, m
  <2> QED  BY <2>2
<1>8. n = 0 => m = 0
  BY <1>1 DEF Pieces
<1>9. ASSUME NEW s \in SystemSet, status[s] = "active"
      PROVE  \E j \in DOMAIN y : y[j] = s
  <2>1. Position(s) \in 1 .. Len(Systems) /\ Systems[Position(s)] = s
    BY PositionIs
  <2> QED  BY <1>1, <1>9, <2>1 DEF Scheduled
<1>10. \A j \in DOMAIN y : status[y[j]] = "active"
  BY <1>1 DEF Scheduled
<1>11. (y # <<>> <=> m # 0) /\ (o # <<>> <=> n # 0)
  BY <1>1
<1> QED  BY <1>2, <1>3, <1>4, <1>5, <1>6, <1>7, <1>8, <1>9, <1>10, <1>11
\* The beginning of a frame: nothing has run, the walk is at the first system.
LEMMA StartFrameKeeps ==
    ASSUME IndInv, StartFrame
    PROVE  IndInv'
<1>1. TypeOK /\ ScheduleInv
  BY DEF IndInv
<1> DEFINE b == Current
<1>2. /\ pc = "idle" /\ ops' = b.ops /\ systems' = b.systems /\ stale' = FALSE
      /\ cur_op' = IF b.ops = <<>> THEN 0 ELSE 1
      /\ cur_i' = 1 /\ pc' = IF b.ops = <<>> THEN "done" ELSE "loop"
      /\ ran' = {} /\ run_count' = [s \in SystemSet |-> 0]
      /\ steady' = {s \in SystemSet : status[s] = "active"}
      /\ desc' = desc /\ status' = status
  BY DEF StartFrame, Current
<1>3. Built(b)
  BY <1>1, CurrentBuilt
<1> HIDE DEF b
<1>4. TypeOK'
  <2>1. run_count' \in [SystemSet -> 0 .. 2]
    BY <1>2
  <2> QED  BY <1>1, <1>2, <2>1 DEF TypeOK
<1>5. ScheduleInv'
  BY <1>2, <1>3, ScheduleFresh
<1>6. FrameInv'
  BY <1>2 DEF FrameInv
<1>7. WalkInv'
  <2> USE <1>3
  <2>1. CASE b.ops = <<>>
    <3>1. Len(b.ops) = 0 /\ Len(b.systems) = 0 /\ DOMAIN b.systems = {}
      BY <2>1, OpsFacts
    <3>2. steady' = {}
      BY <1>2, <3>1, OpsFacts
    <3>3. pc' = "done"
      BY <1>2, <2>1
    <3> QED  BY <3>2, <3>3 DEF WalkInv
  <2>2. CASE b.ops # <<>>
    <3>1. pc' = "loop" /\ cur_op' = 1 /\ cur_i' = 1
      BY <1>2, <2>2
    <3>2. /\ 1 \in 1 .. Len(b.ops) /\ DOMAIN b.ops = 1 .. Len(b.ops) /\ b.ops[1].offset = 1
          /\ b.ops[1].count \in Nat
          /\ b.systems # <<>> => b.ops[1].count > 0
          /\ DOMAIN b.systems \subseteq Nat \ {0}
      BY <2>2, OpsFacts
    <3>3. cur_op' \in DOMAIN ops' /\ ops'[cur_op'].offset = 1
      BY <1>2, <3>1, <3>2
    <3>4. \A j \in DOMAIN systems' : ~ (j < cur_i') /\ systems'[j] \notin ran'
      BY <1>2, <3>1, <3>2
    <3>5. IF systems' = <<>> THEN cur_i' = 1 ELSE cur_i' < ops'[cur_op'].offset + ops'[cur_op'].count
      BY <1>2, <3>1, <3>2
    <3> QED  BY <3>1, <3>3, <3>4, <3>5 DEF WalkInv
  <2> QED  BY <2>1, <2>2
<1> QED  BY <1>4, <1>5, <1>6, <1>7 DEF IndInv

\* At a loop step that runs systems, the ones to run are those from cur_i to the
\* end of the operation; none of them has run.
LEMMA ToRunIs ==
    ASSUME TypeOK, ScheduleInv, WalkInv, pc = "loop", cur_i # Len(systems) + 1
    PROVE  /\ OpEnd \in DOMAIN systems /\ cur_i \in DOMAIN systems /\ cur_i <= OpEnd
           /\ ToRun = cur_i .. OpEnd
           /\ ToRun \subseteq DOMAIN systems
           /\ \A j \in ToRun : systems[j] \notin ran
<1> DEFINE b == [ops |-> ops, systems |-> systems]
<1>1. b.ops = ops /\ b.systems = systems
  OBVIOUS
<1> HIDE DEF b
<1>2. Built(b) /\ ~ stale
  BY <1>1 DEF ScheduleInv, Built
<1>3. /\ DOMAIN systems = 1 .. Len(systems) /\ Len(systems) \in Nat /\ (systems # <<>> <=> Len(systems) # 0)
      /\ DOMAIN ops = 1 .. Len(ops)
      /\ \A k \in 1 .. Len(ops) :
            /\ ops[k].offset \in Nat /\ ops[k].count \in Nat /\ ops[k].offset >= 1
            /\ ops[k].offset + ops[k].count <= Len(systems) + 1
  BY <1>1, <1>2, OpsFacts
<1>4. /\ cur_op \in DOMAIN ops /\ cur_i >= ops[cur_op].offset /\ cur_i \in Nat
      /\ IF systems = <<>> THEN cur_i = 1 ELSE cur_i < ops[cur_op].offset + ops[cur_op].count
      /\ \A j \in DOMAIN systems : systems[j] \in ran => j < cur_i
  BY DEF WalkInv, TypeOK
<1>5. systems # <<>>
  BY <1>3, <1>4
<1>6. /\ ops[cur_op].offset \in Nat /\ ops[cur_op].count \in Nat /\ ops[cur_op].offset >= 1
      /\ ops[cur_op].offset + ops[cur_op].count <= Len(systems) + 1
      /\ cur_i < ops[cur_op].offset + ops[cur_op].count
  BY <1>3, <1>4, <1>5
<1>7. OpEnd \in Int /\ OpEnd \in 1 .. Len(systems) /\ cur_i <= OpEnd /\ cur_i \in 1 .. Len(systems)
  <2> DEFINE off == ops[cur_op].offset
             cnt == ops[cur_op].count
  <2>1. OpEnd = off + cnt - 1
    BY DEF OpEnd
  <2>2. off \in Nat /\ cnt \in Nat /\ off >= 1 /\ off + cnt <= Len(systems) + 1
        /\ cur_i < off + cnt /\ cur_i >= off
    BY <1>4, <1>6
  <2> HIDE DEF off, cnt
  <2> QED  BY <1>3, <1>4, <2>1, <2>2
<1>8. ToRun = cur_i .. OpEnd
  BY <1>3, <1>4, <1>7 DEF ToRun
<1>9. ToRun \subseteq DOMAIN systems /\ \A j \in ToRun : systems[j] \notin ran
  <2>1. \A j \in ToRun : j \in 1 .. Len(systems) /\ j >= cur_i
    BY <1>3, <1>7, <1>8
  <2>2. \A j \in ToRun : ~ (j < cur_i)
    BY <1>4, <2>1
  <2> QED  BY <1>3, <1>4, <2>1, <2>2
<1> QED  BY <1>3, <1>7, <1>8, <1>9

\* A step that runs an operation and merges: the systems it runs are the next ones
\* in the order, so that no steady system is left behind.
LEMMA RunOpKeeps ==
    ASSUME IndInv, RunOp
    PROVE  IndInv'
<1>1. TypeOK /\ ScheduleInv
  BY DEF IndInv
<1>2. /\ pc = "loop" /\ cur_i # Len(systems) + 1
      /\ ran' = ran \union {systems[i] : i \in ToRun}
      /\ run_count' = [s \in SystemSet |->
            IF \A i \in ToRun : systems[i] # s THEN run_count[s]
            ELSE IF run_count[s] = 0 THEN 1 ELSE 2]
      /\ cur_i' = IF OpEnd \in ToRun THEN OpEnd ELSE Len(systems) + 1
      /\ ~ AllMayLeave => \E s \in ran' : status'[s] = "active"
      /\ steady' = {s \in steady : status'[s] = "active"}
      /\ pc' = "update"
      /\ desc' = desc /\ ops' = ops /\ systems' = systems /\ cur_op' = cur_op
      /\ status' \in [SystemSet -> {"active", "inactive", "absent"}]
      /\ stale' \in BOOLEAN /\ (status' # status => stale')
  BY DEF RunOp, ChangeSystems
<1> DEFINE b == [ops |-> ops, systems |-> systems]
<1>3. b.ops = ops /\ b.systems = systems
  OBVIOUS
<1> HIDE DEF b
<1>4. Built(b) /\ ~ stale
  BY <1>1, <1>2, <1>3 DEF ScheduleInv, Built
<1>5. /\ DOMAIN systems = 1 .. Len(systems) /\ Len(systems) \in Nat
      /\ \A i \in DOMAIN systems : systems[i] \in SystemSet
      /\ \A i, j \in DOMAIN systems :
            /\ Position(systems[i]) <= Position(systems[j]) <=> i <= j
            /\ systems[i] = systems[j] => i = j
      /\ \A s \in SystemSet : status[s] = "active" => \E j \in DOMAIN systems : systems[j] = s
  BY <1>3, <1>4, OpsFacts
<1>6. ToRun \subseteq DOMAIN systems
  BY DEF ToRun
<1>7. TypeOK'
  <2>1. ran' \in SUBSET SystemSet
    BY <1>1, <1>2, <1>5, <1>6 DEF TypeOK
  <2>2. cur_i' \in Nat
    BY <1>2, <1>5, <1>6
  <2>3. run_count' \in [SystemSet -> 0 .. 2]
    BY <1>1, <1>2 DEF TypeOK
  <2> QED  BY <1>1, <1>2, <2>1, <2>2, <2>3 DEF TypeOK
<1>8. ScheduleInv'
  BY <1>1, <1>2, <1>4, ScheduleStays
<1>9. ASSUME ~ AllMayLeave
      PROVE  FrameInv' /\ WalkInv'
  <2>1. FrameInv /\ WalkInv
    BY <1>9 DEF IndInv
  <2>2. /\ OpEnd \in DOMAIN systems /\ cur_i \in DOMAIN systems /\ cur_i <= OpEnd
        /\ ToRun = cur_i .. OpEnd
        /\ \A j \in ToRun : systems[j] \notin ran
    BY <1>1, <1>2, <2>1, ToRunIs
  <2>3. OpEnd \in ToRun /\ cur_i' = OpEnd /\ OpEnd \in Nat
    BY <1>2, <1>5, <2>2
  <2>4. /\ \A s \in SystemSet : run_count[s] = IF s \in ran THEN 1 ELSE 0
        /\ \A s \in steady : \A r \in ran : Position(s) <= Position(r) => s \in ran
        /\ \A s \in steady : status[s] = "active" /\ s \in SystemSet
    BY <1>1, <1>2, <2>1 DEF FrameInv, TypeOK
  <2>5. /\ cur_op \in DOMAIN ops
        /\ \A j \in DOMAIN systems : systems[j] \in ran => j < cur_i
        /\ \A j \in DOMAIN systems : systems[j] \in steady /\ j < cur_i => systems[j] \in ran
    BY <1>2, <2>1 DEF WalkInv
  <2>6. ASSUME NEW s \in SystemSet
        PROVE  run_count'[s] = IF s \in ran' THEN 1 ELSE 0
    <3>1. CASE \E i \in ToRun : systems[i] = s
      <4>1. s \notin ran /\ s \in ran' /\ run_count[s] = 0
        BY <1>2, <2>2, <2>4, <3>1
      <4> QED  BY <1>2, <3>1, <4>1
    <3>2. CASE ~ \E i \in ToRun : systems[i] = s
      <4>1. s \in ran' <=> s \in ran
        BY <1>2, <3>2
      <4> QED  BY <1>2, <2>4, <3>2, <4>1
    <3> QED  BY <3>1, <3>2
  \* A steady system up to the end of the operation has run.
  <2>7. ASSUME NEW j \in DOMAIN systems, systems[j] \in steady, j <= OpEnd
        PROVE  systems[j] \in ran'
    <3>1. CASE j < cur_i
      BY <1>2, <2>5, <2>7, <3>1
    <3>2. CASE ~ (j < cur_i)
      <4>1. j \in ToRun
        BY <1>5, <2>2, <2>7, <3>2
      <4> QED  BY <1>2, <4>1
    <3> QED  BY <3>1, <3>2
  <2>8. ASSUME NEW s \in steady', NEW r \in ran', Position(s) <= Position(r)
        PROVE  s \in ran'
    <3>1. s \in steady
      BY <1>2
    <3>2. CASE r \in ran
      BY <1>2, <2>4, <2>8, <3>1, <3>2
    <3>3. CASE r \notin ran
      <4>1. PICK i \in ToRun : systems[i] = r
        BY <1>2, <3>3
      <4>2. PICK j \in DOMAIN systems : systems[j] = s
        BY <1>5, <2>4, <3>1
      <4>3. j <= i /\ i <= OpEnd /\ i \in Nat /\ j \in Nat
        BY <1>5, <1>6, <2>2, <2>8, <4>1, <4>2
      <4> QED  BY <2>3, <2>7, <3>1, <4>2, <4>3
    <3> QED  BY <3>2, <3>3
  <2>9. FrameInv'
    BY <1>2, <2>6, <2>8 DEF FrameInv
  <2>10. ASSUME NEW j \in DOMAIN systems, systems[j] \in ran'
         PROVE  j <= OpEnd
    <3>1. CASE systems[j] \in ran
      BY <1>5, <2>2, <2>3, <2>5, <3>1
    <3>2. CASE systems[j] \notin ran
      <4>1. PICK i \in ToRun : systems[i] = systems[j]
        BY <1>2, <2>10, <3>2
      <4>2. i = j
        BY <1>5, <1>6, <4>1
      <4> QED  BY <2>2, <4>2
    <3> QED  BY <3>1, <3>2
  <2>11. cur_i' = ops'[cur_op'].offset + ops'[cur_op'].count - 1
    BY <1>2, <2>3 DEF OpEnd
  <2>12. \A j \in DOMAIN systems' : systems'[j] \in steady' /\ j <= cur_i' => systems'[j] \in ran'
    BY <1>2, <2>3, <2>7
  <2>13. \A j \in DOMAIN systems' : systems'[j] \in ran' => j <= cur_i'
    BY <1>2, <2>3, <2>10
  <2>14. WalkInv'
    BY <1>2, <1>9, <2>2, <2>3, <2>5, <2>11, <2>12, <2>13 DEF WalkInv
  <2> QED  BY <2>9, <2>14
<1> QED  BY <1>7, <1>8, <1>9 DEF IndInv

\* Between frames only the systems change.
LEMMA EndFrameKeeps ==
    ASSUME IndInv, EndFrame
    PROVE  IndInv'
<1>1. TypeOK /\ ScheduleInv
  BY DEF IndInv
<1>2. /\ pc = "done" /\ pc' = "idle"
      /\ UNCHANGED <<desc, ops, systems, cur_op, cur_i, ran, run_count, steady>>
      /\ status' \in [SystemSet -> {"active", "inactive", "absent"}]
      /\ stale' \in BOOLEAN /\ (status' # status => stale')
  BY DEF EndFrame, ChangeSystems
<1>3. TypeOK'
  BY <1>1, <1>2 DEF TypeOK
<1>4. ~ stale
  BY <1>1, <1>2 DEF ScheduleInv
<1>5. ScheduleInv'
  BY <1>1, <1>2, <1>4, ScheduleStays
<1>6. FrameInv' /\ WalkInv'
  BY <1>2 DEF FrameInv, WalkInv
<1> QED  BY <1>3, <1>5, <1>6 DEF IndInv
\* Where flecs_pipeline_build resumes: at the last system of the new schedule that
\* has run, and the operation that is open there.
LEMMA ResumeIs ==
    ASSUME NEW b, Built(b), TypeOK, NEW p, p = Resume(b)
    PROVE  /\ p.op \in Nat /\ p.i \in Nat
           /\ (\E j \in DOMAIN b.systems : b.systems[j] \in ran) =>
                \E i \in DOMAIN b.systems :
                  /\ b.systems[i] \in ran
                  /\ \A j \in DOMAIN b.systems : b.systems[j] \in ran => j <= i
                  /\ \/ p.op = 0 /\ i = Len(b.systems)
                     \/ /\ p.op \in DOMAIN b.ops /\ p.i = i
                        /\ b.ops[p.op].offset <= i + 1
                        /\ i + 1 < b.ops[p.op].offset + b.ops[p.op].count
<1> DEFINE seen == {i \in DOMAIN b.systems : b.systems[i] \in ran}
           n == Len(b.ops)
           m == Len(b.systems)
<1>1. /\ DOMAIN b.systems = 1 .. m /\ m \in Nat
      /\ DOMAIN b.ops = 1 .. n /\ n \in Nat
      /\ \A k \in 1 .. n :
           /\ b.ops[k].offset \in Nat /\ b.ops[k].count \in Nat /\ b.ops[k].offset >= 1
           /\ b.ops[k].offset + b.ops[k].count <= m + 1
           /\ k # 1 => b.ops[k].offset = b.ops[k - 1].offset + b.ops[k - 1].count
           /\ k = 1 => b.ops[k].offset = 1
           /\ k = n => b.ops[k].offset + b.ops[k].count = m + 1
      /\ n = 0 => m = 0
  BY OpsFacts
<1> HIDE DEF n, m
<1>2. CASE seen = {}
  <2>1. p = [op |-> cur_op, i |-> cur_i]
    BY <1>2 DEF Resume
  <2> QED  BY <1>2, <2>1 DEF TypeOK
<1>3. CASE seen # {}
  <2> DEFINE i == CHOOSE i \in seen : \A j \in seen : j <= i
             k == OpAfter(b, i)
             done == {q \in DOMAIN b.ops : b.ops[q].offset + b.ops[q].count - 1 <= i}
             rest == DOMAIN b.ops \ done
  <2>1. p = [op |-> k, i |-> IF k = 0 THEN 1 ELSE i]
    BY <1>3 DEF Resume
  <2>2. i \in seen /\ \A j \in seen : j <= i
    <3>1. seen \in SUBSET (1 .. m)
      BY <1>1
    <3> HIDE DEF seen
    <3>2. \E x \in seen : \A y \in seen : y <= x
      BY <1>1, <1>3, <3>1, Loops!GreatestNumber
    <3> QED  BY <3>2
  <2> HIDE DEF i
  <2>3. i \in 1 .. m /\ b.systems[i] \in ran /\ \A j \in DOMAIN b.systems : b.systems[j] \in ran => j <= i
    BY <1>1, <2>2
  <2>4. n # 0 /\ n \in 1 .. n
    BY <1>1, <2>3
  <2>5. k = IF n \in done THEN 0 ELSE CHOOSE q \in rest : \A j \in rest : q <= j
    BY DEF OpAfter, n
  <2> HIDE DEF k, seen
  <2>6. CASE n \in done
    <3>1. b.ops[n].offset + b.ops[n].count = m + 1 /\ b.ops[n].offset + b.ops[n].count - 1 <= i
      BY <1>1, <2>4, <2>6
    <3>2. i = m
      BY <1>1, <2>3, <3>1, SMTT(20)
    <3>3. p.op = 0 /\ p.i = 1
      BY <2>1, <2>5, <2>6
    <3> QED  BY <1>1, <2>3, <3>2, <3>3 DEF m
  <2>7. CASE n \notin done
    <3>1. rest \in SUBSET (1 .. n) /\ rest # {}
      BY <1>1, <2>4, <2>7
    <3>2. \E x \in rest : \A y \in rest : x <= y
      <4> HIDE DEF rest
      <4> QED  BY <1>1, <3>1, Loops!LeastNumber
    <3>3. k \in rest /\ \A j \in rest : k <= j
      <4> HIDE DEF rest, done
      <4> QED  BY <2>5, <2>7, <3>2
    <3>4. k \in 1 .. n /\ k # 0 /\ k \notin done
      BY <1>1, <3>3
    <3>5. p.op = k /\ p.i = i
      BY <2>1, <3>4
    <3> DEFINE off(q) == b.ops[q].offset
               cnt(q) == b.ops[q].count
    <3>6. off(k) \in Nat /\ cnt(k) \in Nat /\ i \in Nat
      BY <1>1, <2>3, <3>4
    <3>7. ~ (off(k) + cnt(k) - 1 <= i)
      BY <1>1, <3>4
    <3>8. off(k) <= i + 1
      <4>1. CASE k = 1
        BY <1>1, <3>4, <3>6, <4>1
      <4>2. CASE k # 1
        <5>1. k - 1 \in 1 .. n /\ ~ (k <= k - 1)
          BY <1>1, <3>4, <4>2
        <5>2. k - 1 \notin rest
          <6> HIDE DEF rest
          <6> QED  BY <3>3, <5>1
        <5>3. off(k - 1) + cnt(k - 1) - 1 <= i
          BY <1>1, <5>1, <5>2
        <5>4. off(k) = off(k - 1) + cnt(k - 1) /\ off(k - 1) \in Nat /\ cnt(k - 1) \in Nat
          BY <1>1, <3>4, <4>2, <5>1
        <5> HIDE DEF off, cnt
        <5> QED  BY <3>6, <5>3, <5>4
      <4> QED  BY <4>1, <4>2
    <3>9. i + 1 < off(k) + cnt(k)
      <4> HIDE DEF off, cnt
      <4> QED  BY <3>6, <3>7
    <3>10. p.op \in DOMAIN b.ops /\ b.ops[p.op].offset <= i + 1 /\ i + 1 < b.ops[p.op].offset + b.ops[p.op].count
      BY <1>1, <3>4, <3>5, <3>8, <3>9
    <3>11. p.op \in Nat /\ p.i \in Nat
      BY <1>1, <3>4, <3>5, <3>6
    <3> QED  BY <1>1, <2>3, <3>5, <3>10, <3>11
  <2> QED  BY <2>6, <2>7
<1> QED  BY <1>2, <1>3

\* flecs_pipeline_next_system returns a position.
LEMMA NextSystemType ==
    ASSUME NEW b, NEW p, p.op \in Nat, p.i \in Nat, Len(b.ops) \in Nat, NEW at,
           at = NextSystem(b, p)
    PROVE  at.op \in Nat /\ at.i \in Nat
<1>1. CASE p.op = 0
  BY <1>1 DEF NextSystem
<1>2. CASE p.op # 0 /\ p.op > Len(b.ops)
  BY <1>2 DEF NextSystem
<1>3. CASE p.op # 0 /\ ~ (p.op > Len(b.ops)) /\ p.i + 1 < b.ops[p.op].offset + b.ops[p.op].count
  <2>1. at = [p EXCEPT !.i = p.i + 1]
    BY <1>3 DEF NextSystem
  <2> QED  BY <2>1
<1>4. CASE p.op # 0 /\ ~ (p.op > Len(b.ops)) /\ ~ (p.i + 1 < b.ops[p.op].offset + b.ops[p.op].count)
  BY <1>4 DEF NextSystem
<1> QED  BY <1>1, <1>2, <1>3, <1>4

\* Where the walk is at b if it is at at: behind every system that has run, and
\* every steady system behind it has run.
WalkAt(b, at) ==
    IF at.op = 0 THEN \A s \in steady : s \in ran
    ELSE /\ at.op \in DOMAIN b.ops
         /\ \A j \in DOMAIN b.systems : b.systems[j] \in ran => j < at.i
         /\ \A j \in DOMAIN b.systems : b.systems[j] \in steady /\ j < at.i => b.systems[j] \in ran
         /\ at.i >= b.ops[at.op].offset
         /\ IF b.systems = <<>> THEN at.i = 1
            ELSE at.i < b.ops[at.op].offset + b.ops[at.op].count

\* Position i of the schedule has been reached: the systems that ran are not
\* behind it, the steady ones before it ran.
Reached(b, i) ==
    /\ i \in DOMAIN b.systems
    /\ \A j \in DOMAIN b.systems : b.systems[j] \in ran => j <= i
    /\ \A j \in DOMAIN b.systems : b.systems[j] \in steady /\ j <= i => b.systems[j] \in ran
    /\ \A s \in steady : s \in SystemSet /\ status[s] = "active"

\* flecs_pipeline_next_system goes to the system after the one reached, which is
\* in the operation that is open there or the first of the one after it.
LEMMA NextSystemWalks ==
    ASSUME NEW b, Built(b), NEW i, Reached(b, i), NEW op \in Nat, NEW pi \in Nat,
           \/ op = 0 /\ i = Len(b.systems)
           \/ /\ op \in DOMAIN b.ops /\ pi = i
              /\ b.ops[op].offset <= i + 1
              /\ i + 1 <= b.ops[op].offset + b.ops[op].count,
           NEW at, at = NextSystem(b, [op |-> op, i |-> pi])
    PROVE  WalkAt(b, at)
<1> DEFINE n == Len(b.ops)
           m == Len(b.systems)
           off(q) == b.ops[q].offset
           cnt(q) == b.ops[q].count
<1>1. /\ DOMAIN b.systems = 1 .. m /\ m \in Nat
      /\ DOMAIN b.ops = 1 .. n /\ n \in Nat
      /\ \A s \in SystemSet : status[s] = "active" => \E j \in DOMAIN b.systems : b.systems[j] = s
      /\ b.systems # <<>> <=> m # 0
  BY OpsFacts
<1>2. ASSUME NEW q \in 1 .. n
      PROVE  /\ off(q) \in Nat /\ cnt(q) \in Nat
             /\ q # 1 => off(q) = off(q - 1) + cnt(q - 1)
             /\ m # 0 => cnt(q) > 0
             /\ q = n => off(q) + cnt(q) = m + 1
  BY <1>2, OpsFacts
<1>3. i \in 1 .. m /\ m # 0 /\ b.systems # <<>>
  BY <1>1 DEF Reached
\* At the end of the schedule every steady system has been reached.
<1>4. ASSUME i = m PROVE \A s \in steady : s \in ran
  <2> SUFFICES ASSUME NEW s \in steady PROVE s \in ran
    OBVIOUS
  <2>1. PICK j \in DOMAIN b.systems : b.systems[j] = s
    BY <1>1 DEF Reached
  <2>2. j <= i
    BY <1>1, <1>4
  <2> QED  BY <2>1, <2>2 DEF Reached
\* At the next position the walk is in order.
<1>5. ASSUME NEW k \in 1 .. n, off(k) <= i + 1, i + 1 < off(k) + cnt(k), at.op = k, at.i = i + 1
      PROVE  WalkAt(b, at)
  <2>1. k # 0 /\ k \in DOMAIN b.ops
    BY <1>1
  <2>2. \A j \in DOMAIN b.systems : j < i + 1 <=> j <= i
    BY <1>1, <1>3
  <2>3. \A j \in DOMAIN b.systems : b.systems[j] \in ran => j < at.i
    BY <1>5, <2>2 DEF Reached
  <2>4. \A j \in DOMAIN b.systems : b.systems[j] \in steady /\ j < at.i => b.systems[j] \in ran
    BY <1>5, <2>2 DEF Reached
  <2>5. at.i >= off(k)
    BY <1>1, <1>2, <1>3, <1>5
  <2> QED  BY <1>3, <1>5, <2>1, <2>3, <2>4, <2>5 DEF WalkAt
<1> DEFINE p == [op |-> op, i |-> pi]
<1>6. CASE op = 0 /\ i = Len(b.systems)
  <2>1. at = p
    BY <1>6 DEF NextSystem
  <2>2. at.op = 0
    BY <1>6, <2>1
  <2> QED  BY <1>4, <1>6, <2>2 DEF WalkAt
<1>7. CASE op \in DOMAIN b.ops /\ pi = i /\ off(op) <= i + 1 /\ i + 1 <= off(op) + cnt(op)
  <2>1. op \in 1 .. n /\ op # 0 /\ ~ (op > n)
    BY <1>1, <1>7
  <2>2. CASE i + 1 < off(op) + cnt(op)
    <3>1. at = [op |-> op, i |-> i + 1]
      BY <1>7, <2>1, <2>2 DEF NextSystem
    <3> QED  BY <1>5, <1>7, <2>1, <2>2, <3>1
  <2>3. CASE ~ (i + 1 < off(op) + cnt(op))
    <3>1. at = [op |-> IF op + 1 > n THEN 0 ELSE op + 1, i |-> i + 1]
      BY <1>7, <2>1, <2>3 DEF NextSystem
    <3>2. off(op) \in Nat /\ cnt(op) \in Nat
      BY <1>2, <2>1
    <3>3. i + 1 = off(op) + cnt(op)
      <4> HIDE DEF off, cnt
      <4> QED  BY <1>1, <1>3, <1>7, <2>3, <3>2
    <3>4. CASE op + 1 > n
      <4>1. op = n
        BY <1>1, <2>1, <3>4
      <4>2. off(op) + cnt(op) = m + 1
        BY <1>2, <2>1, <4>1
      <4>3. i = m
        BY <1>1, <1>3, <3>3, <4>2
      <4>4. at.op = 0
        BY <3>1, <3>4
      <4> QED  BY <1>4, <4>3, <4>4 DEF WalkAt
    <3>5. CASE ~ (op + 1 > n)
      <4>1. op + 1 \in 1 .. n /\ op + 1 # 1 /\ (op + 1) - 1 = op
        BY <1>1, <2>1, <3>5
      <4>2. off(op + 1) = off(op) + cnt(op) /\ cnt(op + 1) > 0 /\ off(op + 1) \in Nat /\ cnt(op + 1) \in Nat
        BY <1>2, <1>3, <4>1
      <4>3. off(op + 1) <= i + 1 /\ i + 1 < off(op + 1) + cnt(op + 1)
        <5> HIDE DEF off, cnt
        <5> QED  BY <1>1, <1>3, <3>2, <3>3, <4>2
      <4>4. at.op = op + 1 /\ at.i = i + 1
        BY <3>1, <3>5
      <4> QED  BY <1>5, <4>1, <4>3, <4>4
    <3> QED  BY <3>4, <3>5
  <2> QED  BY <2>2, <2>3
<1> QED  BY <1>6, <1>7

\* After a merge the walk goes on behind the last system that has run, also when
\* the schedule was rebuilt.
LEMMA UpdateWalks ==
    ASSUME TypeOK, ScheduleInv, FrameInv, WalkInv, NEW b, b = Current,
           pc = "update" \/ (pc = "loop" /\ cur_i = Len(systems) + 1),
           NEW at,
           at = NextSystem(b, IF stale THEN Resume(b) ELSE [op |-> cur_op, i |-> cur_i])
    PROVE  WalkAt(b, at)
<1>1. Built(b)
  BY CurrentBuilt
<1>2. \A s \in steady : s \in SystemSet /\ status[s] = "active"
  BY DEF FrameInv, TypeOK
<1>3. ~ stale => b.ops = ops /\ b.systems = systems
  BY DEF Current
<1>4. cur_op \in Nat /\ cur_i \in Nat /\ stale \in BOOLEAN
  BY DEF TypeOK
<1>5. CASE pc = "update" /\ ~ stale
  <2>1. /\ cur_op \in DOMAIN b.ops
        /\ cur_i = b.ops[cur_op].offset + b.ops[cur_op].count - 1
        /\ Reached(b, cur_i)
    BY <1>2, <1>3, <1>5 DEF WalkInv, Reached
  <2>2. /\ b.ops[cur_op].offset \in Nat /\ b.ops[cur_op].count \in Nat
        /\ b.ops[cur_op].offset + b.ops[cur_op].count <= Len(b.systems) + 1
        /\ b.ops[cur_op].count > 0
    <3>1. cur_op \in 1 .. Len(b.ops) /\ Len(b.systems) # 0
      BY <1>1, <2>1, OpsFacts DEF Reached
    <3> QED  BY <1>1, <3>1, OpsFacts
  <2>3. b.ops[cur_op].offset <= cur_i + 1 /\ cur_i + 1 <= b.ops[cur_op].offset + b.ops[cur_op].count
    <3> DEFINE off == b.ops[cur_op].offset
               cnt == b.ops[cur_op].count
    <3>1. off \in Nat /\ cnt \in Nat /\ cur_i = off + cnt - 1
      BY <2>1, <2>2
    <3> HIDE DEF off, cnt
    <3>2. off <= cur_i + 1 /\ cur_i + 1 <= off + cnt
      BY <3>1
    <3> QED  BY <3>2 DEF off, cnt
  <2>4. at = NextSystem(b, [op |-> cur_op, i |-> cur_i])
    BY <1>5
  <2> QED  BY <1>1, <1>4, <2>1, <2>3, <2>4, NextSystemWalks
<1>6. CASE pc = "update" /\ stale
  <2> DEFINE p == Resume(b)
  <2>1. \E s \in ran : status[s] = "active" /\ s \in SystemSet
    BY <1>6 DEF WalkInv, TypeOK
  <2>2. \E j \in DOMAIN b.systems : b.systems[j] \in ran
    BY <1>1, <2>1, OpsFacts
  <2>3. p.op \in Nat /\ p.i \in Nat
    BY <1>1, ResumeIs
  <2>4. PICK i \in DOMAIN b.systems :
          /\ b.systems[i] \in ran
          /\ \A j \in DOMAIN b.systems : b.systems[j] \in ran => j <= i
          /\ \/ p.op = 0 /\ i = Len(b.systems)
             \/ /\ p.op \in DOMAIN b.ops /\ p.i = i
                /\ b.ops[p.op].offset <= i + 1
                /\ i + 1 < b.ops[p.op].offset + b.ops[p.op].count
    BY <1>1, <2>2, ResumeIs
  <2>5. p = [op |-> p.op, i |-> p.i]
    BY <1>4 DEF Resume
  <2>6. at = NextSystem(b, p)
    BY <1>6
  <2> HIDE DEF p
  <2>7. Reached(b, i)
    <3>1. ASSUME NEW j \in DOMAIN b.systems, b.systems[j] \in steady, j <= i
          PROVE  b.systems[j] \in ran
      <4>1. Position(b.systems[j]) <= Position(b.systems[i])
        BY <1>1, <3>1, OpsFacts
      <4> QED  BY <1>6, <2>4, <3>1, <4>1 DEF FrameInv
    <3> QED  BY <1>2, <2>4, <3>1 DEF Reached
  <2>8. p.op \in DOMAIN b.ops /\ i + 1 < b.ops[p.op].offset + b.ops[p.op].count
          => i + 1 <= b.ops[p.op].offset + b.ops[p.op].count
    <3> SUFFICES ASSUME p.op \in DOMAIN b.ops, i + 1 < b.ops[p.op].offset + b.ops[p.op].count
                 PROVE  i + 1 <= b.ops[p.op].offset + b.ops[p.op].count
      OBVIOUS
    <3> DEFINE off == b.ops[p.op].offset
               cnt == b.ops[p.op].count
    <3>1. off \in Nat /\ cnt \in Nat /\ i \in Nat
      <4>1. p.op \in 1 .. Len(b.ops) /\ i \in 1 .. Len(b.systems)
        BY <1>1, OpsFacts
      <4>2. i \in Nat
        BY <4>1
      <4>3. off \in Nat /\ cnt \in Nat
        BY <1>1, <4>1, OpsFacts
      <4> QED  BY <4>2, <4>3
    <3> HIDE DEF off, cnt
    <3>2. i + 1 < off + cnt => i + 1 <= off + cnt
      BY <3>1
    <3> QED  BY <3>2 DEF off, cnt
  <2>9. at = NextSystem(b, [op |-> p.op, i |-> p.i])
    BY <2>5, <2>6
  <2> QED  BY <1>1, <2>3, <2>4, <2>7, <2>8, <2>9, NextSystemWalks
<1>7. CASE pc = "loop" /\ cur_i = Len(systems) + 1
  <2>1. ~ stale
    BY <1>7 DEF ScheduleInv
  <2>2. /\ cur_op \in DOMAIN b.ops
        /\ IF b.systems = <<>> THEN cur_i = 1
           ELSE cur_i < b.ops[cur_op].offset + b.ops[cur_op].count
        /\ cur_i = Len(b.systems) + 1
    BY <1>3, <1>7, <2>1 DEF WalkInv
  <2>3. /\ DOMAIN b.ops = 1 .. Len(b.ops) /\ Len(b.ops) \in Nat
        /\ b.systems # <<>> <=> Len(b.systems) # 0
        /\ Len(b.systems) = 0 => Len(b.ops) <= 1
        /\ Len(b.systems) \in Nat /\ DOMAIN b.systems = 1 .. Len(b.systems)
        /\ \A s \in SystemSet : status[s] = "active" => \E j \in DOMAIN b.systems : b.systems[j] = s
    BY <1>1, OpsFacts
  <2> DEFINE off == b.ops[cur_op].offset
             cnt == b.ops[cur_op].count
             m == Len(b.systems)
  <2>4. off \in Nat /\ cnt \in Nat /\ off + cnt <= m + 1 /\ m \in Nat
    BY <1>1, <2>2, OpsFacts
  <2>5. b.systems = <<>>
    <3> SUFFICES ASSUME b.systems # <<>> PROVE FALSE
      OBVIOUS
    <3>1. m + 1 < off + cnt
      BY <2>2
    <3> HIDE DEF off, cnt, m
    <3> QED  BY <2>4, <3>1
  <2>6. m = 0 /\ Len(b.ops) = 1 /\ cur_op = 1 /\ cur_i = 1
    <3>1. m = 0 /\ Len(b.ops) <= 1
      BY <2>3, <2>5
    <3>2. cur_op \in 1 .. Len(b.ops) /\ cur_i = 1
      BY <2>2, <2>3, <2>5
    <3>3. cur_op = 1 /\ Len(b.ops) = 1
      <4> DEFINE n == Len(b.ops)
      <4>1. n \in Nat /\ n <= 1 /\ cur_op \in 1 .. n
        BY <2>3, <3>1, <3>2
      <4> HIDE DEF n
      <4>2. cur_op = 1 /\ n = 1
        BY <4>1
      <4> QED  BY <4>2 DEF n
    <3> QED  BY <3>1, <3>2, <3>3
  <2>7. ~ (cur_i + 1 < off + cnt)
    <3> HIDE DEF off, cnt, m
    <3> QED  BY <2>4, <2>6
  <2>8. at = NextSystem(b, [op |-> cur_op, i |-> cur_i])
    BY <2>1
  <2>9. at.op = 0
    BY <2>6, <2>7, <2>8 DEF NextSystem
  <2>10. steady = {}
    BY <1>2, <2>3, <2>6
  <2> QED  BY <2>9, <2>10 DEF WalkAt
<1> QED  BY <1>4, <1>5, <1>6, <1>7

\* flecs_pipeline_update keeps the invariant.
LEMMA UpdateKeeps ==
    ASSUME IndInv, Update
    PROVE  IndInv'
<1>1. TypeOK /\ ScheduleInv
  BY DEF IndInv
<1> DEFINE b == Current
           p == IF stale THEN Resume(b) ELSE [op |-> cur_op, i |-> cur_i]
           at == NextSystem(b, p)
<1>2. /\ pc = "update" \/ (pc = "loop" /\ cur_i = Len(systems) + 1)
      /\ ops' = b.ops /\ systems' = b.systems /\ stale' = FALSE
      /\ cur_op' = at.op /\ cur_i' = at.i
      /\ pc' = IF at.op = 0 THEN "done" ELSE "loop"
      /\ desc' = desc /\ status' = status /\ ran' = ran
      /\ run_count' = run_count /\ steady' = steady
  BY DEF Update, Current
<1>3. Built(b)
  BY <1>1, CurrentBuilt
<1>4. p.op \in Nat /\ p.i \in Nat
  <2>1. CASE stale
    BY <1>1, <1>3, <2>1, ResumeIs
  <2>2. CASE ~ stale
    BY <1>1, <2>2 DEF TypeOK
  <2> QED  BY <2>1, <2>2
<1>5. at.op \in Nat /\ at.i \in Nat
  BY <1>3, <1>4, OpsFacts, NextSystemType
<1>6. ~ AllMayLeave => WalkAt(b, at)
  BY <1>1, <1>2, UpdateWalks DEF IndInv
<1> HIDE DEF b, p, at
<1>7. TypeOK'
  BY <1>1, <1>2, <1>5 DEF TypeOK
<1>8. ScheduleInv'
  BY <1>2, <1>3, ScheduleFresh
<1>9. ASSUME ~ AllMayLeave PROVE FrameInv' /\ WalkInv'
  <2>1. FrameInv /\ WalkAt(b, at)
    BY <1>6, <1>9 DEF IndInv
  <2>2. FrameInv'
    <3>1. pc # "idle" /\ pc # "done"
      BY <1>2
    <3> QED  BY <1>2, <2>1, <3>1 DEF FrameInv, Position, SystemSet
  <2>3. CASE at.op = 0
    <3>1. pc' = "done" /\ \A s \in steady' : s \in ran'
      BY <1>2, <2>1, <2>3 DEF WalkAt
    <3> QED  BY <2>2, <3>1 DEF WalkInv
  <2>4. CASE at.op # 0
    <3>1. /\ pc' = "loop" /\ cur_op' \in DOMAIN ops'
          /\ \A j \in DOMAIN systems' : systems'[j] \in ran' => j < cur_i'
          /\ \A j \in DOMAIN systems' : systems'[j] \in steady' /\ j < cur_i' => systems'[j] \in ran'
          /\ cur_i' >= ops'[cur_op'].offset
          /\ IF systems' = <<>> THEN cur_i' = 1
             ELSE cur_i' < ops'[cur_op'].offset + ops'[cur_op'].count
      BY <1>2, <2>1, <2>4 DEF WalkAt
    <3> QED  BY <2>2, <3>1 DEF WalkInv
  <2> QED  BY <2>3, <2>4
<1> QED  BY <1>7, <1>8, <1>9 DEF IndInv

\* A step that changes nothing.
LEMMA StutterKeeps ==
    ASSUME IndInv, UNCHANGED vars
    PROVE  IndInv'
<1>1. UNCHANGED <<desc, status, ops, systems, stale, cur_op, cur_i, pc, ran, run_count, steady>>
  BY DEF vars
<1>2. TypeOK' /\ ScheduleInv'
  <2>1. TypeOK'
    BY <1>1 DEF IndInv, TypeOK
  <2>2. pc' \in {"loop", "done"} => ~ stale'
    BY <1>1 DEF IndInv, ScheduleInv
  <2>3. ScheduleInv'
    BY <1>1, <2>2, ScheduleStays DEF IndInv
  <2> QED  BY <2>1, <2>3
<1>3. ~ AllMayLeave => FrameInv' /\ WalkInv'
  BY <1>1 DEF IndInv, FrameInv, WalkInv, Position, SystemSet
<1> QED  BY <1>2, <1>3 DEF IndInv

\* The invariant holds of every behaviour.
THEOREM Invariance ==
    Spec => []IndInv
<1>1. ASSUME IndInv, [Next]_vars PROVE IndInv'
  <2>1. CASE StartFrame
    BY <1>1, <2>1, StartFrameKeeps
  <2>2. CASE RunOp
    BY <1>1, <2>2, RunOpKeeps
  <2>3. CASE Update
    BY <1>1, <2>3, UpdateKeeps
  <2>4. CASE EndFrame
    BY <1>1, <2>4, EndFrameKeeps
  <2>5. CASE UNCHANGED vars
    BY <1>1, <2>5, StutterKeeps
  <2> QED  BY <1>1, <2>1, <2>2, <2>3, <2>4, <2>5 DEF Next, Frame
<1> QED  BY <1>1, InitInv, PTL DEF Spec
-----------------------------------------------------------------------------
(***************************************************************************)
(* The theorems.                                                           *)
(***************************************************************************)

\* The variables of the schedule and of the walk keep their types.
THEOREM TypeCorrect ==
    Spec => []TypeOK
<1>1. IndInv => TypeOK
  BY DEF IndInv
<1> QED  BY <1>1, Invariance, PTL

\* A schedule that is cut into pieces is so in the words of the property.
LEMMA CutIsOpsCutSchedule ==
    ASSUME Cut(ops, systems)
    PROVE  OpsCutSchedule
<1>1. /\ ops \in Seq(Ops) /\ DOMAIN ops = 1 .. Len(ops) /\ Len(ops) \in Nat
      /\ Pieces(ops, Len(ops), systems, Len(systems))
  BY DEF Cut
<1>2. ASSUME NEW k \in DOMAIN ops
      PROVE  /\ ops[k].offset = IF k = 1 THEN 1 ELSE ops[k - 1].offset + ops[k - 1].count
             /\ \A s \in Members(ops[k]) :
                   /\ desc[s].multi_threaded = ops[k].multi_threaded
                   /\ desc[s].immediate = ops[k].immediate
  BY <1>1 DEF Pieces, Members
<1>3. ASSUME ops # <<>>
      PROVE  Last(ops).offset + Last(ops).count = Len(systems) + 1
  <2>1. Len(ops) # 0 /\ Last(ops) = ops[Len(ops)]
    BY <1>1, <1>3 DEF Last
  <2> QED  BY <1>1, <2>1 DEF Pieces
<1> QED  BY <1>2, <1>3 DEF OpsCutSchedule

\* In every reachable state the operations cut the scheduled systems into
\* consecutive pieces with the flags of their systems: flecs_pipeline_build for
\* any systems, any terms and any changes of the systems.
THEOREM Cutting ==
    Spec => []OpsCutSchedule
<1>1. IndInv => OpsCutSchedule
  BY CutIsOpsCutSchedule DEF IndInv, ScheduleInv
<1> QED  BY <1>1, Invariance, PTL

\* If the early return of flecs_pipeline_check_term loses no write of a system, and
\* wildcards that share a component are comparable, then there is a merge between a system that writes a
\* component and a later one that needs it.
THEOREM MergesBeforeUse ==
    ASSUME NoLostWrite, NoCrossing
    PROVE  Spec => []MergeBeforeUse
<1>1. ASSUME IndInv PROVE MergeBeforeUse
  <2> SUFFICES ASSUME ~ stale PROVE MergeBeforeUse
    BY DEF MergeBeforeUse
  <2>1. Merged(ops, systems)
    BY <1>1 DEF IndInv, ScheduleInv
  <2> QED  BY <2>1 DEF MergeBeforeUse, Merged, Members, Conflict
<1> QED  BY <1>1, Invariance, PTL

\* If after each merge a system that ran is still active, a system that is active
\* during the whole frame runs exactly once in it, whatever else the merges change.
THEOREM NoneSkipped ==
    ASSUME ~ AllMayLeave
    PROVE  Spec => []NoSystemSkipped
<1>1. ASSUME IndInv PROVE NoSystemSkipped
  <2>1. TypeOK /\ FrameInv /\ WalkInv
    BY <1>1 DEF IndInv
  <2> QED  BY <2>1 DEF NoSystemSkipped, FrameInv, WalkInv, TypeOK
<1> QED  BY <1>1, Invariance, PTL

\* Under the same condition systems run in the order of the pipeline.
THEOREM InPipelineOrder ==
    ASSUME ~ AllMayLeave
    PROVE  Spec => RunsInOrder
<1> DEFINE A == \A s \in SystemSet : run_count'[s] > run_count[s] =>
                  \A r \in ran \intersect ToSet(systems) : Position(r) < Position(s)
<1>1. ASSUME IndInv, [Next]_vars PROVE [A]_vars
  <2>1. TypeOK /\ ScheduleInv /\ FrameInv /\ WalkInv
    BY <1>1 DEF IndInv
  <2>2. \A s \in SystemSet : run_count[s] \in 0 .. 2
    BY <2>1 DEF TypeOK
  <2>3. ASSUME RunOp, NEW s \in SystemSet, run_count'[s] > run_count[s],
               NEW r \in ran \intersect ToSet(systems)
        PROVE  Position(r) < Position(s)
    <3>1. /\ pc = "loop" /\ cur_i # Len(systems) + 1
          /\ run_count' = [x \in SystemSet |->
                IF \A i \in ToRun : systems[i] # x THEN run_count[x]
                ELSE IF run_count[x] = 0 THEN 1 ELSE 2]
      BY <2>3 DEF RunOp
    <3>2. /\ ToRun = cur_i .. OpEnd /\ ToRun \subseteq DOMAIN systems
          /\ cur_i \in DOMAIN systems /\ OpEnd \in DOMAIN systems
      BY <2>1, <3>1, ToRunIs
    <3>3. PICK i \in ToRun : systems[i] = s
      BY <2>2, <2>3, <3>1
    <3>4. PICK j \in DOMAIN systems : systems[j] = r
      BY DEF ToSet
    <3>5. j < cur_i
      BY <2>1, <2>3, <3>1, <3>4 DEF WalkInv
    <3>6. DOMAIN systems \subseteq Int
      BY <2>1 DEF ScheduleInv, InOrder
    <3>7. j < i
      BY <3>2, <3>5, <3>6
    <3> QED  BY <2>1, <3>2, <3>3, <3>4, <3>7 DEF ScheduleInv, InOrder
  <2>4. CASE StartFrame
    <3>1. \A s \in SystemSet : run_count'[s] = 0
      BY <2>4 DEF StartFrame
    <3> QED  BY <2>2, <3>1
  <2>5. CASE RunOp
    BY <2>3, <2>5
  <2>6. CASE Update
    <3>1. run_count' = run_count
      BY <2>6 DEF Update
    <3> QED  BY <2>2, <3>1
  <2>7. CASE EndFrame
    <3>1. run_count' = run_count
      BY <2>7 DEF EndFrame
    <3> QED  BY <2>2, <3>1
  <2> QED  BY <1>1, <2>4, <2>5, <2>6, <2>7 DEF Next, Frame
<1>2. Spec => [][A]_vars
  BY <1>1, Invariance, PTL DEF Spec
<1> QED  BY <1>2 DEF RunsInOrder
=============================================================================
