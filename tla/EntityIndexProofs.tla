------------------------- MODULE EntityIndexProofs -------------------------
(***************************************************************************)
(* The entity index keeps its promises for every number of ids and every   *)
(* generation width: the theorems of EntityIndex, from the inductive       *)
(* invariant IndInv, and from LooseInv where ids may be made outside the   *)
(* active range.                                                           *)
(***************************************************************************)
EXTENDS EntityIndex, TLAPS, SequenceTheorems, FiniteSetTheorems

USE MaxIdAssumption, MaxGenAssumption, MaxBulkAssumption

\* The two parts of an ecs_entity_t: an id and a generation.
LEMMA EntityFields ==
    ASSUME NEW e \in Entities
    PROVE  e.id \in Ids /\ e.gen \in Gens
BY DEF Entities

\* ECS_GENERATION_INC leaves the id alone and adds one to the generation, which
\* wraps around at the last one.
LEMMA GenerationIncType ==
    ASSUME NEW e \in Entities
    PROVE  /\ GenerationInc(e) \in Entities
           /\ GenerationInc(e).id = e.id
           /\ e.gen # MaxGen => GenerationInc(e).gen = e.gen + 1
BY DEF GenerationInc, Entities, Ids, Gens

(***************************************************************************)
(* The three changes made to dense and records keep them in agreement.     *)
(***************************************************************************)
\* Adding an entity at the end of dense.
LEMMA AppendAgree ==
    ASSUME NEW seq \in Seq(Entities), NEW rec \in [Ids -> Nat], Agree(seq, rec),
           NEW e \in Entities, rec[e.id] = 0
    PROVE  /\ Append(seq, e) \in Seq(Entities)
           /\ Len(Append(seq, e)) = Len(seq) + 1
           /\ [rec EXCEPT ![e.id] = Len(seq) + 1] \in [Ids -> Nat]
           /\ Agree(Append(seq, e), [rec EXCEPT ![e.id] = Len(seq) + 1])
BY EntityFields DEF Agree

\* Writing an entity to a slot of dense that already holds its id.
LEMMA WriteAgree ==
    ASSUME NEW seq \in Seq(Entities), NEW rec \in [Ids -> Nat], Agree(seq, rec),
           NEW e \in Entities, rec[e.id] # 0
    PROVE  /\ [seq EXCEPT ![rec[e.id]] = e] \in Seq(Entities)
           /\ Len([seq EXCEPT ![rec[e.id]] = e]) = Len(seq)
           /\ Agree([seq EXCEPT ![rec[e.id]] = e], rec)
BY EntityFields DEF Agree

\* Exchanging the entities of two slots.
SwapDense(seq, i, j) == [seq EXCEPT ![i] = seq[j], ![j] = seq[i]]
SwapRecords(seq, rec, i, j) == [rec EXCEPT ![seq[j].id] = i, ![seq[i].id] = j]

\* dense and records agree again after the exchange.
LEMMA SwapAgree ==
    ASSUME NEW seq \in Seq(Entities), NEW rec \in [Ids -> Nat], Agree(seq, rec),
           NEW i \in 1 .. Len(seq), NEW j \in 1 .. Len(seq)
    PROVE  /\ SwapDense(seq, i, j) \in Seq(Entities)
           /\ Len(SwapDense(seq, i, j)) = Len(seq)
           /\ SwapRecords(seq, rec, i, j) \in [Ids -> Nat]
           /\ Agree(SwapDense(seq, i, j), SwapRecords(seq, rec, i, j))
           /\ \A d \in Ids :
                 /\ SwapRecords(seq, rec, i, j)[d] = 0 <=> rec[d] = 0
                 /\ rec[d] # 0 => SwapDense(seq, i, j)[SwapRecords(seq, rec, i, j)[d]]
                                    = seq[rec[d]]
<1> DEFINE seq1 == [seq EXCEPT ![i] = seq[j], ![j] = seq[i]]
           rec1 == [rec EXCEPT ![seq[j].id] = i, ![seq[i].id] = j]
<1>1. seq[i] \in Entities /\ seq[j] \in Entities
  BY ElementOfSeq
<1>2. seq1 \in Seq(Entities) /\ Len(seq1) = Len(seq)
  BY <1>1
<1>3. rec1 \in [Ids -> Nat]
  BY <1>1, EntityFields
<1>4. \A k \in 1 .. Len(seq) :
         seq1[k] = IF k = j THEN seq[i] ELSE IF k = i THEN seq[j] ELSE seq[k]
  OBVIOUS
<1>5. \A d \in Ids : rec1[d] = IF d = seq[i].id THEN j
                               ELSE IF d = seq[j].id THEN i ELSE rec[d]
  BY <1>1, EntityFields
<1>6. \A k \in 1 .. Len(seq) : seq[k].id \in Ids /\ rec[seq[k].id] = k
  BY ElementOfSeq, EntityFields DEF Agree
<1> HIDE DEF seq1, rec1
<1>7. \A k \in 1 .. Len(seq1) : rec1[seq1[k].id] = k
  BY <1>2, <1>4, <1>5, <1>6
<1>8. ASSUME NEW d \in Ids, rec1[d] # 0
      PROVE  rec1[d] \in 1 .. Len(seq1) /\ seq1[rec1[d]].id = d
  <2>1. rec[d] # 0 => rec[d] \in 1 .. Len(seq) /\ seq[rec[d]].id = d
    BY DEF Agree
  <2> QED  BY <2>1, <1>2, <1>4, <1>5, <1>6, <1>8
<1>9. ASSUME NEW d \in Ids
      PROVE  (rec1[d] = 0 <=> rec[d] = 0) /\ (rec[d] # 0 => seq1[rec1[d]] = seq[rec[d]])
  <2>1. rec[d] # 0 => rec[d] \in 1 .. Len(seq) /\ seq[rec[d]].id = d
    BY DEF Agree
  <2> QED  BY <2>1, <1>4, <1>5, <1>6
<1>10. Agree(seq1, rec1)
  BY <1>7, <1>8 DEF Agree
<1> QED  BY <1>2, <1>3, <1>9, <1>10 DEF seq1, rec1, SwapDense, SwapRecords

\* Removing the entity of a slot, which the last entity takes.
LEMMA DropAgree ==
    ASSUME NEW seq \in Seq(Entities), NEW rec \in [Ids -> Nat], Agree(seq, rec),
           NEW e \in Entities, rec[e.id] # 0
    PROVE  /\ DropDense(seq, rec[e.id]) \in Seq(Entities)
           /\ Len(DropDense(seq, rec[e.id])) = Len(seq) - 1
           /\ DropRecords(rec, seq, rec[e.id], e) \in [Ids -> Nat]
           /\ Agree(DropDense(seq, rec[e.id]), DropRecords(rec, seq, rec[e.id], e))
           /\ DropRecords(rec, seq, rec[e.id], e)[e.id] = 0
           /\ \A d \in Ids : d # e.id =>
                 /\ DropRecords(rec, seq, rec[e.id], e)[d] = 0 <=> rec[d] = 0
                 /\ rec[d] # 0 =>
                      DropDense(seq, rec[e.id])[DropRecords(rec, seq, rec[e.id], e)[d]]
                        = seq[rec[d]]
           /\ \A i \in 1 .. Len(seq) - 1 : DropDense(seq, rec[e.id])[i] =
                 IF i = rec[e.id] THEN seq[Len(seq)] ELSE seq[i]
<1> DEFINE seq1 == DropDense(seq, rec[e.id])
           rec1 == DropRecords(rec, seq, rec[e.id], e)
<1>1. /\ e.id \in Ids /\ rec[e.id] \in 1 .. Len(seq) /\ seq[rec[e.id]].id = e.id
      /\ Len(seq) \in Nat \ {0}
      /\ seq[Len(seq)] \in Entities /\ seq[Len(seq)].id \in Ids /\ rec[seq[Len(seq)].id] = Len(seq)
  BY EntityFields DEF Agree
<1>2. seq1 \in Seq(Entities) /\ Len(seq1) = Len(seq) - 1
  BY <1>1 DEF DropDense
<1>3. \A i \in 1 .. Len(seq) - 1 :
         seq1[i] = IF i = rec[e.id] THEN seq[Len(seq)] ELSE seq[i]
  BY <1>1 DEF DropDense
<1>4. /\ rec1 \in [Ids -> Nat]
      /\ \A d \in Ids : rec1[d] = IF d = e.id THEN 0
                                  ELSE IF d = seq[Len(seq)].id THEN rec[e.id] ELSE rec[d]
  BY <1>1 DEF DropRecords
<1> HIDE DEF seq1, rec1
<1>5. Agree(seq1, rec1)
  <2>1. \A i \in 1 .. Len(seq) : seq[i].id \in Ids /\ rec[seq[i].id] = i
    BY EntityFields DEF Agree
  <2>2. ASSUME NEW i \in 1 .. Len(seq1)
        PROVE  rec1[seq1[i].id] = i
    <3>1. i \in 1 .. Len(seq) - 1 /\ i \in 1 .. Len(seq) /\ i # Len(seq)
      BY <1>1, <1>2
    <3>2. CASE i = rec[e.id]
      BY <1>1, <1>3, <1>4, <3>1, <3>2
    <3>3. CASE i # rec[e.id]
      <4>1. seq1[i] = seq[i]
        BY <1>3, <3>1, <3>3
      <4>2. seq[i].id \in Ids /\ rec[seq[i].id] = i
        BY <2>1, <3>1
      <4>3. seq[i].id # e.id /\ seq[i].id # seq[Len(seq)].id
        BY <1>1, <3>1, <3>3, <4>2
      <4> QED  BY <1>4, <4>1, <4>2, <4>3
    <3> QED  BY <3>2, <3>3
  <2>3. ASSUME NEW d \in Ids, rec1[d] # 0
        PROVE  rec1[d] \in 1 .. Len(seq1) /\ seq1[rec1[d]].id = d
    <3>1. rec[d] # 0 => rec[d] \in 1 .. Len(seq) /\ seq[rec[d]].id = d
      BY DEF Agree
    <3> QED  BY <1>1, <1>2, <1>3, <1>4, <2>1, <2>3, <3>1
  <2> QED  BY <2>2, <2>3 DEF Agree
<1>6. ASSUME NEW d \in Ids, d # e.id
      PROVE  (rec1[d] = 0 <=> rec[d] = 0) /\ (rec[d] # 0 => seq1[rec1[d]] = seq[rec[d]])
  <2>1. rec[d] # 0 => rec[d] \in 1 .. Len(seq) /\ seq[rec[d]].id = d
    BY DEF Agree
  <2> QED  BY <1>1, <1>3, <1>4, <1>6, <2>1
<1> QED  BY <1>1, <1>2, <1>3, <1>4, <1>5, <1>6 DEF seq1, rec1
-----------------------------------------------------------------------------
\* flecs_entity_index_init: the invariant holds of an empty index.
LEMMA InitInv == Init => IndInv
BY EmptySeq DEF Init, IndInv, TypeOK, DenseRecordsAgree, Agree, RecycledOnce, RecycledInRange,
   RangesDisjoint, UsedBelowLast, RetiredBehind, RangeSet, Exists, InActiveRange, Ids

\* What the parts of the invariant that only speak of ranges say is not changed
\* by an action that leaves the ranges alone.
LEMMA RangesUnchanged ==
    ASSUME UNCHANGED rangeVars
    PROVE  /\ RangeSet' = RangeSet
           /\ \A m, d : InRange(m, d)' <=> InRange(m, d)
           /\ \A d : InActiveRange(d)' <=> InActiveRange(d)
           /\ RangesDisjoint => RangesDisjoint'
BY DEF rangeVars, RangeSet, InRange, InActiveRange, RangesDisjoint

\* The ranges of a world are named by ids.
LEMMA RangeSetIds ==
    ASSUME TypeOK
    PROVE  RangeSet \subseteq Ids
BY ElementOfSeq DEF TypeOK, RangeSet

\* What set_range and remove save with a range are entities.
LEMMA SavedType ==
    ASSUME TypeOK, NEW m \in Ids, NEW i \in DOMAIN recycled[m]
    PROVE  recycled[m][i] \in Entities /\ recycled[m][i].id \in Ids
BY ElementOfSeq, EntityFields DEF TypeOK

\* UsedBelowLast after a step that leaves the ranges alone: the ids it brings
\* into use are in the active range and not above its last id.
LEMMA UsedStep ==
    ASSUME IndInv, UNCHANGED rangeVars, max_id' \in Int, max_id <= max_id',
           \A d \in Ids : records'[d] # 0 =>
              records[d] # 0 \/ (InActiveRange(d) /\ d <= max_id')
    PROVE  UsedBelowLast'
<1>1. /\ max_id \in Int /\ cur \in [Ids -> Int]
      /\ RangeSet \subseteq Ids /\ RangeSet' = RangeSet
      /\ active_range' = active_range /\ cur' = cur /\ recycled' = recycled
      /\ \A m, d : InRange(m, d)' <=> InRange(m, d)
      /\ Ids \subseteq Int
  <2>1. RangeSet \subseteq Ids
    BY RangeSetIds DEF IndInv
  <2>2. RangeSet' = RangeSet /\ \A m, d : InRange(m, d)' <=> InRange(m, d)
    BY RangesUnchanged
  <2>3. max_id \in Int /\ cur \in [Ids -> Int] /\ Ids \subseteq Int
    BY DEF IndInv, TypeOK, Ids
  <2> QED  BY <2>1, <2>2, <2>3 DEF rangeVars
<1>2. \A m \in Ids : LastIssued(m) \in Int /\ LastIssued(m)' \in Int
                     /\ LastIssued(m) <= LastIssued(m)'
  BY <1>1 DEF LastIssued
<1>3. \A m \in RangeSet' : m - 1 <= LastIssued(m)'
  BY <1>1, <1>2 DEF IndInv, UsedBelowLast
<1>4. ASSUME NEW d \in Ids, Exists(d)'
      PROVE  IF active_range' = 0 THEN d <= max_id'
             ELSE \E m \in RangeSet' : InRange(m, d)' /\ d <= LastIssued(m)'
  <2>1. CASE records[d] # 0
    <3>1. IF active_range = 0 THEN d <= max_id
          ELSE \E m \in RangeSet : InRange(m, d) /\ d <= LastIssued(m)
      BY <2>1 DEF IndInv, UsedBelowLast, Exists
    <3> QED  BY <1>1, <1>2, <3>1
  <2>2. CASE InActiveRange(d) /\ d <= max_id'
    <3>1. active_range # 0 => active_range \in RangeSet /\ InRange(active_range, d)
      BY <2>2 DEF IndInv, RangesDisjoint, InActiveRange
    <3>2. active_range # 0 => LastIssued(active_range)' = max_id'
      BY <1>1 DEF LastIssued
    <3> QED  BY <1>1, <2>2, <3>1, <3>2
  <2> QED  BY <1>4, <2>1, <2>2 DEF Exists
<1>5. \A m \in Ids : \A i \in DOMAIN recycled'[m] : recycled'[m][i].id <= LastIssued(m)'
  <2>1. \A m \in Ids : \A i \in DOMAIN recycled[m] : recycled[m][i].id \in Int
    BY <1>1, SavedType DEF IndInv
  <2> QED  BY <1>1, <1>2, <2>1 DEF IndInv, UsedBelowLast
<1> QED  BY <1>3, <1>4, <1>5 DEF UsedBelowLast

\* RecycledOnce after a step that saves nothing: it brings no saved id into use.
LEMMA RecycledOnceStep ==
    ASSUME IndInv, UNCHANGED recycled,
           \A d \in Ids : records'[d] # 0 =>
              \/ records[d] # 0
              \/ \A m \in Ids : \A i \in DOMAIN recycled[m] : recycled[m][i].id # d
    PROVE  RecycledOnce'
BY SavedType DEF IndInv, RecycledOnce

\* RetiredBehind after a step that saves nothing and retires nothing: entries
\* stay, and one that it writes is ahead of the handles still retired.
LEMMA RetiredStep ==
    ASSUME IndInv, UNCHANGED recycled, retired' \subseteq retired,
           \A h \in retired' : records[h.id] # 0 =>
              /\ records'[h.id] # 0
              /\ \/ dense'[records'[h.id]] = dense[records[h.id]]
                 \/ h.gen < dense'[records'[h.id]].gen
    PROVE  RetiredBehind'
BY DEF IndInv, RetiredBehind, Exists

\* An id of the active range is not saved with any range.
LEMMA ActiveNotSaved ==
    ASSUME IndInv, NEW d \in Ids, InActiveRange(d)
    PROVE  \A m \in Ids : \A i \in DOMAIN recycled[m] : recycled[m][i].id # d
<1> SUFFICES ASSUME NEW m \in Ids, NEW i \in DOMAIN recycled[m], recycled[m][i].id = d
             PROVE  FALSE
  OBVIOUS
<1>1. m \in RangeSet /\ InRange(m, d) /\ active_range # 0
  BY DEF IndInv, RecycledInRange, RangesDisjoint
<1>2. m = active_range
  BY <1>1 DEF IndInv, RangesDisjoint, InActiveRange
<1> QED  BY <1>1, <1>2 DEF IndInv, RangesDisjoint

\* An id of the active range above max_id is nowhere: not in the index, not saved
\* with a range, and no handle with it was ever deleted.
LEMMA FreshUnused ==
    ASSUME IndInv, NEW d \in Ids, d > max_id, InActiveRange(d)
    PROVE  /\ records[d] = 0
           /\ \A m \in Ids : \A i \in DOMAIN recycled[m] : recycled[m][i].id # d
           /\ \A h \in retired : h.id # d
<1>1. records[d] = 0
  BY SMTT(30) DEF IndInv, TypeOK, UsedBelowLast, RangesDisjoint, InActiveRange, Exists, LastIssued, Ids
<1>2. \A m \in Ids : \A i \in DOMAIN recycled[m] : recycled[m][i].id # d
  BY ActiveNotSaved
<1> QED  BY <1>1, <1>2 DEF IndInv, RetiredBehind, Exists

\* The ids above max_id up to one that does not exceed the active range are in it.
LEMMA FreshInRange ==
    ASSUME IndInv, NEW d \in Ids, d > max_id, NEW top \in Ids, d <= top,
           active_range # 0 /\ range_max[active_range] # 0
             => top <= range_max[active_range]
    PROVE  InActiveRange(d)
<1>1. active_range # 0 => active_range - 1 <= max_id
  BY DEF IndInv, UsedBelowLast, RangesDisjoint, LastIssued
<1>2. CASE active_range = 0
  BY <1>2 DEF InActiveRange
<1>3. CASE active_range # 0
  <2>1. active_range \in Int /\ range_max[active_range] \in Int /\ max_id \in Int
    BY <1>3 DEF IndInv, TypeOK, Ids
  <2>2. d \in Int /\ top \in Int
    BY DEF Ids
  <2>3. d >= active_range /\ (range_max[active_range] = 0 \/ d <= range_max[active_range])
    BY <1>1, <1>3, <2>1, <2>2
  <2> QED  BY <2>3 DEF InActiveRange, InRange
<1> QED  BY <1>2, <1>3

\* flecs_entity_index_new_id out of the ids that wait to be recycled.
LEMMA NewRecycledInv ==
    ASSUME IndInv, NewRecycled
    PROVE  IndInv'
<1> USE DEF IndInv
<1>1. /\ alive_count # Len(dense) + 1
      /\ issued' = {dense[alive_count]}
      /\ alive_count' = alive_count + 1
      /\ UNCHANGED <<dense, records, max_id, rangeVars, retired>>
      /\ UNCHANGED recycled
  BY DEF NewRecycled, rangeVars
<1>2. alive_count \in 1 .. Len(dense) /\ Len(dense) \in Nat /\ max_id \in Int
  BY <1>1 DEF TypeOK, DenseRecordsAgree
<1>3. dense[alive_count] \in Entities
  BY <1>2, ElementOfSeq DEF TypeOK
<1>11. TypeOK'
  BY <1>1, <1>2, <1>3 DEF TypeOK, rangeVars
<1>12. DenseRecordsAgree'
  BY <1>1, <1>2 DEF DenseRecordsAgree, Agree
<1>13. RecycledOnce'
  BY <1>1, RecycledOnceStep
<1>14. RecycledInRange'
  BY <1>1, <1>2, RangesUnchanged DEF RecycledInRange
<1>15. RangesDisjoint'
  BY <1>1, RangesUnchanged
<1>16. UsedBelowLast'
  BY <1>1, <1>2, UsedStep
<1>17. RetiredBehind'
  BY <1>1, RetiredStep
<1> QED  BY <1>11, <1>12, <1>13, <1>14, <1>15, <1>16, <1>17

\* flecs_entity_index_new_id with a fresh id: it is in the active range and was
\* used by nobody before.
LEMMA NewFreshInv ==
    ASSUME IndInv, NewFresh
    PROVE  IndInv'
<1> DEFINE e == [id |-> max_id + 1, gen |-> 0]
<1> USE DEF IndInv
<1>1. e \in Entities /\ e.id = max_id + 1 /\ e.id \in Ids
  BY DEF NewFresh, TypeOK, Entities, Ids, Gens
<1> HIDE DEF e
<1>2. /\ alive_count = Len(dense) + 1 /\ alive_count' = alive_count + 1
      /\ max_id' = e.id
      /\ dense' = Append(dense, e)
      /\ records' = [records EXCEPT ![e.id] = Len(dense) + 1]
      /\ issued' = {e}
      /\ UNCHANGED <<rangeVars, retired>> /\ UNCHANGED recycled
      /\ active_range # 0 /\ range_max[active_range] # 0
             => e.id <= range_max[active_range]
  BY DEF NewFresh, e, rangeVars
<1>3. /\ alive_count \in Nat \ {0} /\ Len(dense) \in Nat
      /\ dense \in Seq(Entities) /\ records \in [Ids -> Nat] /\ Agree(dense, records)
      /\ max_id \in Nat /\ e.id > max_id /\ e.id <= e.id /\ e.id \in 0 .. MaxId
  <2>1. max_id \in 0 .. MaxId
    BY DEF TypeOK
  <2>2. max_id \in Nat /\ e.id > max_id /\ e.id <= e.id /\ e.id \in 0 .. MaxId
    BY <1>1, <2>1 DEF Ids
  <2> QED  BY <2>2 DEF TypeOK, DenseRecordsAgree
<1>4. InActiveRange(e.id)
  BY <1>1, <1>2, <1>3, FreshInRange
<1>5. /\ records[e.id] = 0
      /\ \A m \in Ids : \A i \in DOMAIN recycled[m] : recycled[m][i].id # e.id
      /\ \A h \in retired : h.id # e.id
  BY <1>1, <1>3, <1>4, FreshUnused
<1>6. /\ dense' \in Seq(Entities) /\ Len(dense') = Len(dense) + 1
      /\ records' \in [Ids -> Nat]
      /\ Agree(dense', records')
  BY <1>1, <1>2, <1>3, <1>5, AppendAgree
<1>7. \A d \in Ids : d # e.id => records'[d] = records[d]
  BY <1>1, <1>2, <1>3
<1>8. \A i \in 1 .. Len(dense) : dense'[i] = dense[i]
  BY <1>1, <1>2, <1>3
<1>11. TypeOK'
  BY <1>1, <1>2, <1>3, <1>6, SMTT(30) DEF TypeOK, rangeVars
<1>12. DenseRecordsAgree'
  BY <1>2, <1>3, <1>6 DEF DenseRecordsAgree, Agree
<1>13. RecycledOnce'
  BY <1>2, <1>5, <1>7, RecycledOnceStep
<1>14. RecycledInRange'
  BY <1>2, <1>3, <1>6, RangesUnchanged DEF RecycledInRange
<1>15. RangesDisjoint'
  BY <1>2, RangesUnchanged
<1>16. UsedBelowLast'
  BY <1>1, <1>2, <1>3, <1>4, <1>7, UsedStep
<1>17. RetiredBehind'
  <2>1. \A h \in retired : h.id \in Ids /\ h.id # e.id
    BY <1>5, EntityFields DEF TypeOK
  <2> QED  BY <1>2, <1>3, <1>7, <1>8, <2>1, RetiredStep DEF Agree
<1> QED  BY <1>11, <1>12, <1>13, <1>14, <1>15, <1>16, <1>17

\* SetVersion and MakeAlive keep what the generation of e still tells apart.
LEMMA RetiredBelowType ==
    ASSUME NEW e
    PROVE  /\ RetiredBelow(e) \subseteq retired
           /\ \A h \in RetiredBelow(e) : h.id = e.id => h.gen < e.gen
BY DEF RetiredBelow

\* ecs_set_version: the entry keeps its slot.
LEMMA SetVersionInv ==
    ASSUME IndInv, NEW e \in Entities, SetVersion(e)
    PROVE  IndInv'
<1> USE DEF IndInv
<1>1. /\ records[e.id] # 0
      /\ dense' = [dense EXCEPT ![records[e.id]] = e]
      /\ retired' = RetiredBelow(e)
      /\ issued' = {}
      /\ UNCHANGED <<records, alive_count, max_id, rangeVars>> /\ UNCHANGED recycled
  BY DEF SetVersion, Exists, rangeVars
<1>2. /\ dense \in Seq(Entities) /\ records \in [Ids -> Nat] /\ Agree(dense, records)
      /\ e.id \in Ids /\ max_id \in Int
  BY EntityFields DEF TypeOK, DenseRecordsAgree
<1>3. dense' \in Seq(Entities) /\ Len(dense') = Len(dense) /\ Agree(dense', records)
  BY <1>1, <1>2, WriteAgree
<1>4. records[e.id] \in 1 .. Len(dense) /\ dense[records[e.id]].id = e.id
  BY <1>1, <1>2 DEF Agree
<1>5. \A i \in 1 .. Len(dense) : dense'[i] = IF i = records[e.id] THEN e ELSE dense[i]
  BY <1>1, <1>2
<1>11. TypeOK'
  BY <1>1, <1>3, RetiredBelowType DEF TypeOK, rangeVars
<1>12. DenseRecordsAgree'
  BY <1>1, <1>3 DEF DenseRecordsAgree, Agree
<1>13. RecycledOnce'
  BY <1>1, RecycledOnceStep
<1>14. RecycledInRange'
  <2>1. \A i \in 1 .. Len(dense) : dense'[i].id = dense[i].id
    BY <1>4, <1>5
  <2>2. \A i \in alive_count .. Len(dense) : i \in 1 .. Len(dense)
    BY <1>2 DEF TypeOK
  <2> QED  BY <1>1, <1>3, <2>1, <2>2, RangesUnchanged DEF RecycledInRange
<1>15. RangesDisjoint'
  BY <1>1, RangesUnchanged
<1>16. UsedBelowLast'
  BY <1>1, <1>2, UsedStep
<1>17. RetiredBehind'
  <2>1. ASSUME NEW h \in retired', records[h.id] # 0
        PROVE  dense'[records[h.id]] = dense[records[h.id]]
               \/ h.gen < dense'[records[h.id]].gen
    <3>1. h \in retired /\ (h.id = e.id => h.gen < e.gen) /\ h.id \in Ids
      BY <1>1, RetiredBelowType, EntityFields DEF TypeOK
    <3>2. records[h.id] \in 1 .. Len(dense) /\ dense[records[h.id]].id = h.id
      BY <1>2, <2>1, <3>1 DEF Agree
    <3> QED  BY <1>4, <1>5, <3>1, <3>2
  <2> QED  BY <1>1, <2>1, RetiredStep, RetiredBelowType
<1> QED  BY <1>11, <1>12, <1>13, <1>14, <1>15, <1>16, <1>17

\* flecs_entities_ensure: the entry of e is written or added, then exchanged
\* with the first one that is not alive.
LEMMA EnsureAgree ==
    ASSUME IndInv, NEW e \in Entities, ~ IdIsAlive(e.id)
    PROVE  /\ EnsuredDense(e) \in Seq(Entities)
           /\ alive_count \in 1 .. Len(EnsuredDense(e))
           /\ EnsuredRecords(e) \in [Ids -> Nat]
           /\ Agree(EnsuredDense(e), EnsuredRecords(e))
           /\ EnsuredRecords(e)[e.id] = alive_count
           /\ EnsuredDense(e)[alive_count] = e
           /\ \A d \in Ids : d # e.id =>
                 /\ EnsuredRecords(e)[d] = 0 <=> records[d] = 0
                 /\ records[d] # 0 => EnsuredDense(e)[EnsuredRecords(e)[d]] = dense[records[d]]
           /\ \A i \in 1 .. alive_count - 1 : EnsuredDense(e)[i] = dense[i]
           /\ \A i \in alive_count + 1 .. Len(EnsuredDense(e)) :
                 \E j \in alive_count .. Len(dense) : EnsuredDense(e)[i].id = dense[j].id
<1> DEFINE ids == IF Exists(e.id) THEN [dense EXCEPT ![records[e.id]] = e]
                                  ELSE Append(dense, e)
           rec == IF Exists(e.id) THEN records
                  ELSE [records EXCEPT ![e.id] = Len(dense) + 1]
           slot == SlotOf(e)
           seq1 == SwapDense(ids, slot, alive_count)
           rec1 == SwapRecords(ids, rec, slot, alive_count)
<1>1. /\ dense \in Seq(Entities) /\ records \in [Ids -> Nat] /\ Agree(dense, records)
      /\ e.id \in Ids /\ Len(dense) \in Nat /\ alive_count \in 1 .. Len(dense) + 1
  BY EntityFields DEF IndInv, TypeOK, DenseRecordsAgree
<1>2. /\ ids \in Seq(Entities) /\ rec \in [Ids -> Nat] /\ Agree(ids, rec)
      /\ Len(ids) = IF Exists(e.id) THEN Len(dense) ELSE Len(dense) + 1
  <2>1. CASE Exists(e.id)
    BY <1>1, <2>1, WriteAgree DEF Exists
  <2>2. CASE ~ Exists(e.id)
    BY <1>1, <2>2, AppendAgree DEF Exists
  <2> QED  BY <2>1, <2>2
<1>3. slot \in alive_count .. Len(ids) /\ ids[slot] = e
  <2>1. CASE Exists(e.id)
    BY <1>1, <1>2, <2>1 DEF SlotOf, IdIsAlive, Agree, Exists
  <2>2. CASE ~ Exists(e.id)
    BY <1>1, <1>2, <2>2 DEF SlotOf
  <2> QED  BY <2>1, <2>2
<1>4. \A i \in 1 .. Len(dense) : i # slot => ids[i] = dense[i]
  BY <1>1 DEF SlotOf
<1>5. \A i \in 1 .. Len(dense) : ids[i].id = dense[i].id
  BY <1>1, <1>4, <1>3 DEF SlotOf, Agree, Exists
<1>6. \A d \in Ids : d # e.id =>
         rec[d] = records[d] /\ (records[d] # 0 => ids[records[d]] = dense[records[d]])
  <2>1. \A d \in Ids : d # e.id => rec[d] = records[d]
    BY <1>1
  <2>2. ASSUME NEW d \in Ids, d # e.id, records[d] # 0
        PROVE  ids[records[d]] = dense[records[d]]
    <3>1. records[d] \in 1 .. Len(dense) /\ dense[records[d]].id = d
      BY <1>1, <2>2 DEF Agree
    <3>2. records[d] # slot
      BY <1>1, <2>2, <3>1 DEF SlotOf, Exists, Agree
    <3> QED  BY <1>4, <3>1, <3>2
  <2> HIDE DEF ids, rec
  <2> QED  BY <2>1, <2>2
<1>7. EnsuredDense(e) = seq1
  BY <1>3 DEF EnsuredDense, SlotOf, SwapDense
<1>8. EnsuredRecords(e) = rec1
  <2>1. ids[slot].id = e.id
    BY <1>3
  <2>2. ids[alive_count].id = IF alive_count <= Len(dense) THEN dense[alive_count].id ELSE e.id
    BY <1>1, <1>2, <1>3, <1>5 DEF SlotOf
  <2>3. rec1 = [rec EXCEPT ![ids[alive_count].id] = slot, ![e.id] = alive_count]
    BY <2>1 DEF SwapRecords
  <2>4. EnsuredRecords(e) = [records EXCEPT ![ids[alive_count].id] = slot, ![e.id] = alive_count]
    BY <2>2 DEF EnsuredRecords
  <2>5. \A d \in Ids : d # e.id => rec[d] = records[d]
    BY <1>1
  <2>6. rec \in [Ids -> Nat] /\ records \in [Ids -> Nat]
    BY <1>1, <1>2
  <2> HIDE DEF ids, slot, rec
  <2>7. \A d \in Ids : rec1[d] = EnsuredRecords(e)[d]
    BY <2>3, <2>4, <2>5, <2>6
  <2>8. /\ rec1 = [d \in Ids |-> rec1[d]]
        /\ EnsuredRecords(e) = [d \in Ids |-> EnsuredRecords(e)[d]]
    BY <2>3, <2>4, <2>6
  <2> HIDE DEF rec1
  <2> QED  BY <2>7, <2>8
<1> HIDE DEF ids, rec, slot
<1>9. /\ slot \in 1 .. Len(ids) /\ alive_count \in 1 .. Len(ids)
      /\ Len(ids) \in Nat /\ slot \in Int /\ alive_count \in Int
  BY <1>1, <1>2, <1>3
<1>10. /\ seq1 \in Seq(Entities) /\ Len(seq1) = Len(ids)
       /\ rec1 \in [Ids -> Nat] /\ Agree(seq1, rec1)
       /\ \A d \in Ids : rec1[d] = 0 <=> rec[d] = 0
       /\ \A d \in Ids : rec[d] # 0 => seq1[rec1[d]] = ids[rec[d]]
  BY <1>2, <1>9, SwapAgree
<1>11. \A i \in 1 .. Len(ids) : seq1[i] = IF i = alive_count THEN e
                              ELSE IF i = slot THEN ids[alive_count] ELSE ids[i]
  BY <1>2, <1>3, <1>9 DEF SwapDense
<1>12. rec1[e.id] = alive_count
  BY <1>1, <1>2, <1>3 DEF SwapRecords
<1> HIDE DEF seq1, rec1
<1>13. \A i \in 1 .. alive_count - 1 : seq1[i] = dense[i]
  BY <1>1, <1>3, <1>4, <1>9, <1>11
<1>14. ASSUME NEW i \in alive_count + 1 .. Len(seq1)
       PROVE  \E j \in alive_count .. Len(dense) : seq1[i].id = dense[j].id
  <2>1. i \in 1 .. Len(ids) /\ i # alive_count /\ i \in Int
    BY <1>9, <1>10
  <2>2. Len(ids) \in {Len(dense), Len(dense) + 1} /\ (Len(ids) = Len(dense) + 1 => slot = Len(ids))
    BY <1>1, <1>2 DEF slot, SlotOf
  <2>3. CASE i = slot
    <3>1. alive_count <= Len(dense)
      BY <1>1, <2>1, <2>2, <2>3, <1>9, <1>10
    <3> QED  BY <1>1, <1>5, <1>11, <2>1, <2>3, <3>1
  <2>4. CASE i # slot
    <3>1. i \in alive_count .. Len(dense)
      BY <1>1, <1>9, <1>10, <2>1, <2>2, <2>4
    <3>2. seq1[i] = dense[i]
      BY <1>1, <1>4, <1>11, <2>1, <2>4, <3>1
    <3> QED  BY <3>1, <3>2
  <2> QED  BY <2>3, <2>4
<1>15. \A d \in Ids : d # e.id =>
          /\ rec1[d] = 0 <=> records[d] = 0
          /\ records[d] # 0 => seq1[rec1[d]] = dense[records[d]]
  BY <1>6, <1>10
<1> QED  BY <1>7, <1>8, <1>9, <1>10, <1>11, <1>12, <1>13, <1>14, <1>15

\* ecs_make_alive of an id of the active range.
LEMMA MakeAliveInv ==
    ASSUME IndInv, RangeDiscipline, NEW e \in Entities, MakeAlive(e)
    PROVE  IndInv'
<1> USE DEF IndInv
<1>1. /\ ~ IdIsAlive(e.id) /\ InActiveRange(e.id)
      /\ dense' = EnsuredDense(e) /\ records' = EnsuredRecords(e)
      /\ max_id' = IF Exists(e.id) THEN max_id ELSE Larger(e.id, max_id)
      /\ alive_count' = alive_count + 1
      /\ retired' = RetiredBelow(e)
      /\ issued' = {}
      /\ UNCHANGED rangeVars /\ UNCHANGED recycled
  BY DEF MakeAlive, rangeVars
<1>2. /\ dense \in Seq(Entities) /\ records \in [Ids -> Nat] /\ Agree(dense, records)
      /\ e.id \in Ids /\ max_id \in 0 .. MaxId /\ alive_count \in Nat \ {0}
  BY EntityFields DEF TypeOK, DenseRecordsAgree
<1>3. /\ dense' \in Seq(Entities) /\ records' \in [Ids -> Nat] /\ Agree(dense', records')
      /\ alive_count \in 1 .. Len(dense')
      /\ records'[e.id] = alive_count /\ dense'[alive_count] = e
      /\ \A d \in Ids : d # e.id =>
            /\ records'[d] = 0 <=> records[d] = 0
            /\ records[d] # 0 => dense'[records'[d]] = dense[records[d]]
      /\ \A i \in alive_count + 1 .. Len(dense') :
            \E j \in alive_count .. Len(dense) : dense'[i].id = dense[j].id
  BY <1>1, EnsureAgree
<1>4. /\ max_id' \in 0 .. MaxId /\ max_id <= max_id'
      /\ ~ Exists(e.id) => e.id <= max_id'
  BY <1>1, <1>2 DEF Larger, Ids
<1>5. \A m \in Ids : \A i \in DOMAIN recycled[m] : recycled[m][i].id # e.id
  BY <1>1, <1>2, ActiveNotSaved
<1>6. Len(dense') \in Nat
  BY <1>3
<1>11. TypeOK'
  BY <1>1, <1>2, <1>3, <1>4, RetiredBelowType DEF TypeOK, rangeVars
<1>12. DenseRecordsAgree'
  BY <1>1, <1>2, <1>3, <1>6 DEF DenseRecordsAgree, Agree
<1>13. RecycledOnce'
  BY <1>1, <1>3, <1>5, RecycledOnceStep
<1>14. RecycledInRange'
  BY <1>1, <1>2, <1>3, RangesUnchanged DEF RecycledInRange
<1>15. RangesDisjoint'
  BY <1>1, RangesUnchanged
<1>16. UsedBelowLast'
  <2>1. \A d \in Ids : records'[d] # 0 =>
           records[d] # 0 \/ (InActiveRange(d) /\ d <= max_id')
    BY <1>1, <1>3, <1>4 DEF Exists
  <2> QED  BY <1>1, <1>2, <1>4, <2>1, UsedStep
<1>17. RetiredBehind'
  <2>1. ASSUME NEW h \in retired', records[h.id] # 0
        PROVE  /\ records'[h.id] # 0
               /\ dense'[records'[h.id]] = dense[records[h.id]]
                  \/ h.gen < dense'[records'[h.id]].gen
    <3>1. h \in retired /\ (h.id = e.id => h.gen < e.gen) /\ h.id \in Ids
      BY <1>1, RetiredBelowType, EntityFields DEF TypeOK
    <3> QED  BY <1>2, <1>3, <2>1, <3>1
  <2> QED  BY <1>1, <2>1, RetiredStep, RetiredBelowType
<1> QED  BY <1>11, <1>12, <1>13, <1>14, <1>15, <1>16, <1>17

\* flecs_entity_index_remove_intern: the entity is exchanged with the last one
\* alive, then its next generation is written.
LEMMA RemoveAgree ==
    ASSUME IndInv, NEW e \in Entities, IsAlive(e)
    PROVE  /\ RemovedDense(e) \in Seq(Entities) /\ Len(RemovedDense(e)) = Len(dense)
           /\ RemovedRecords(e) \in [Ids -> Nat]
           /\ Agree(RemovedDense(e), RemovedRecords(e))
           /\ alive_count - 1 \in 1 .. Len(dense)
           /\ RemovedRecords(e)[e.id] = alive_count - 1
           /\ RemovedDense(e)[alive_count - 1] = GenerationInc(e)
           /\ \A d \in Ids : d # e.id =>
                 /\ RemovedRecords(e)[d] = 0 <=> records[d] = 0
                 /\ records[d] # 0 =>
                      RemovedDense(e)[RemovedRecords(e)[d]] = dense[records[d]]
           /\ \A i \in 1 .. Len(dense) : RemovedDense(e)[i] =
                 IF i = alive_count - 1 THEN GenerationInc(e)
                 ELSE IF i = records[e.id] THEN dense[alive_count - 1] ELSE dense[i]
<1> DEFINE a == alive_count - 1
           k == records[e.id]
           seq1 == SwapDense(dense, k, a)
           rec1 == SwapRecords(dense, records, k, a)
<1>1. /\ dense \in Seq(Entities) /\ records \in [Ids -> Nat] /\ Agree(dense, records)
      /\ e.id \in Ids /\ Len(dense) \in Nat /\ alive_count \in 1 .. Len(dense) + 1
  BY EntityFields DEF IndInv, TypeOK, DenseRecordsAgree
<1>2. k \in 1 .. a /\ a \in 1 .. Len(dense) /\ k \in 1 .. Len(dense) /\ dense[k] = e
  BY <1>1 DEF IsAlive, Exists, Agree
<1>3. /\ seq1 \in Seq(Entities) /\ Len(seq1) = Len(dense)
      /\ rec1 \in [Ids -> Nat] /\ Agree(seq1, rec1)
      /\ \A d \in Ids :
            /\ rec1[d] = 0 <=> records[d] = 0
            /\ records[d] # 0 => seq1[rec1[d]] = dense[records[d]]
  BY <1>1, <1>2, SwapAgree
<1>4. RemovedRecords(e) = rec1
  BY <1>2 DEF RemovedRecords, SwapRecords
<1>5. rec1[e.id] = a
  BY <1>1, <1>2 DEF SwapRecords
<1>6. \A i \in 1 .. Len(dense) : RemovedDense(e)[i] =
         IF i = a THEN GenerationInc(e) ELSE IF i = k THEN dense[a] ELSE dense[i]
  BY <1>1, <1>2 DEF RemovedDense
<1>7. RemovedDense(e) = [seq1 EXCEPT ![rec1[GenerationInc(e).id]] = GenerationInc(e)]
  BY <1>1, <1>2, <1>5, GenerationIncType DEF SwapDense, RemovedDense
<1> HIDE DEF seq1, rec1, a
<1>8. GenerationInc(e) \in Entities /\ GenerationInc(e).id = e.id
  BY GenerationIncType
<1>9. /\ RemovedDense(e) \in Seq(Entities) /\ Len(RemovedDense(e)) = Len(seq1)
      /\ Agree(RemovedDense(e), rec1)
  <2>1. rec1[GenerationInc(e).id] # 0
    BY <1>2, <1>5, <1>8
  <2> DEFINE g == GenerationInc(e)
             seq2 == [seq1 EXCEPT ![rec1[g.id]] = g]
  <2> HIDE DEF g
  <2>2. g \in Entities /\ rec1[g.id] # 0
    BY <1>8, <2>1 DEF g
  <2>3. seq2 \in Seq(Entities) /\ Len(seq2) = Len(seq1) /\ Agree(seq2, rec1)
    BY <1>3, <2>2, WriteAgree
  <2> QED  BY <1>7, <2>3 DEF g
<1>10. ASSUME NEW d \in Ids, d # e.id, records[d] # 0
       PROVE  RemovedDense(e)[rec1[d]] = dense[records[d]]
  <2>1. rec1[d] \in 1 .. Len(seq1) /\ seq1[rec1[d]].id = d
    BY <1>3, <1>10 DEF Agree
  <2>2. rec1[d] # a
    BY <1>1, <1>2, <1>3, <1>5, <1>10, <2>1 DEF Agree
  <2> QED  BY <1>3, <1>5, <1>7, <1>8, <1>10, <2>1, <2>2
<1> QED  BY <1>2, <1>3, <1>4, <1>5, <1>6, <1>8, <1>9, <1>10 DEF a

\* ecs_delete retires the handle it is given, and forgets those with its id when
\* the generation wraps around.
LEMMA RetiredByType ==
    ASSUME NEW e \in Entities, TypeOK
    PROVE  /\ RetiredBy(e) \subseteq Entities
           /\ RetiredBy(e) \subseteq retired \union {e}
           /\ e.gen = MaxGen => \A h \in RetiredBy(e) : h.id # e.id
BY DEF RetiredBy, TypeOK

\* Every handle retired by the deletion of e is behind the next generation of e.
LEMMA RetiredByBehind ==
    ASSUME IndInv, NEW e \in Entities, IsAlive(e), NEW h \in RetiredBy(e), h.id = e.id
    PROVE  h.gen < GenerationInc(e).gen
<1>1. h \in retired \union {e} /\ e.gen # MaxGen /\ h.gen \in Int /\ e.gen \in Int
  BY RetiredByType, EntityFields DEF IndInv, Gens
<1>2. GenerationInc(e).gen = e.gen + 1
  BY <1>1, GenerationIncType
<1>3. h \in retired => h.gen < e.gen
  BY EntityFields DEF IndInv, RetiredBehind, RecycledOnce, IsAlive, Exists
<1> QED  BY <1>1, <1>2, <1>3

\* Deleting an entity of the active range leaves its id in the index.
LEMMA DeleteActiveInv ==
    ASSUME IndInv, NEW e \in Entities, Delete(e), InActiveRange(e.id)
    PROVE  IndInv'
<1> USE DEF IndInv
<1>1. /\ IsAlive(e)
      /\ dense' = RemovedDense(e) /\ records' = RemovedRecords(e)
      /\ alive_count' = alive_count - 1
      /\ retired' = RetiredBy(e) /\ issued' = {}
      /\ UNCHANGED <<max_id, recycled>> /\ UNCHANGED rangeVars
  BY DEF Delete, rangeVars
<1>2. /\ dense \in Seq(Entities) /\ records \in [Ids -> Nat] /\ Agree(dense, records)
      /\ e.id \in Ids /\ records[e.id] # 0 /\ max_id \in Int /\ Len(dense) \in Nat
      /\ alive_count \in Nat \ {0}
  BY <1>1, EntityFields DEF TypeOK, DenseRecordsAgree, IsAlive, Exists
<1>3. /\ dense' \in Seq(Entities) /\ Len(dense') = Len(dense)
      /\ records' \in [Ids -> Nat] /\ Agree(dense', records')
      /\ alive_count - 1 \in 1 .. Len(dense)
      /\ records'[e.id] = alive_count - 1
      /\ dense'[alive_count - 1] = GenerationInc(e)
      /\ \A d \in Ids : d # e.id =>
            /\ records'[d] = 0 <=> records[d] = 0
            /\ records[d] # 0 => dense'[records'[d]] = dense[records[d]]
      /\ \A i \in 1 .. Len(dense) : dense'[i] =
            IF i = alive_count - 1 THEN GenerationInc(e)
            ELSE IF i = records[e.id] THEN dense[alive_count - 1] ELSE dense[i]
  BY <1>1, RemoveAgree
<1>4. records[e.id] < alive_count
  BY <1>1 DEF IsAlive
<1>11. TypeOK'
  <2>1. alive_count' \in Nat \ {0} /\ retired' \subseteq Entities
    BY <1>1, <1>2, <1>3, RetiredByType
  <2> QED  BY <1>1, <1>3, <2>1 DEF TypeOK, rangeVars
<1>12. DenseRecordsAgree'
  BY <1>1, <1>2, <1>3 DEF DenseRecordsAgree, Agree
<1>13. RecycledOnce'
  BY <1>1, <1>2, <1>3, RecycledOnceStep
<1>14. RecycledInRange'
  <2>1. ASSUME NEW i \in alive_count' .. Len(dense')
        PROVE  InActiveRange(dense'[i].id)
    <3>1. i = alive_count - 1 \/ (i \in alive_count .. Len(dense) /\ dense'[i] = dense[i])
      BY <1>1, <1>2, <1>3, <1>4
    <3>2. dense'[alive_count - 1].id = e.id
      BY <1>3, GenerationIncType
    <3> QED  BY <3>1, <3>2 DEF RecycledInRange
  <2> QED  BY <1>1, <2>1, RangesUnchanged DEF RecycledInRange
<1>15. RangesDisjoint'
  BY <1>1, RangesUnchanged
<1>16. UsedBelowLast'
  BY <1>1, <1>2, <1>3, UsedStep
<1>17. RetiredBehind'
  <2> SUFFICES ASSUME NEW h \in retired'
               PROVE  \/ records'[h.id] # 0 /\ h.gen < dense'[records'[h.id]].gen
                      \/ \E m \in Ids : \E i \in DOMAIN recycled[m] :
                            recycled[m][i].id = h.id /\ h.gen < recycled[m][i].gen
    BY <1>1 DEF RetiredBehind, Exists
  <2>1. CASE h.id = e.id
    BY <1>1, <1>2, <1>3, <2>1, RetiredByBehind
  <2>2. CASE h.id # e.id
    <3>1. h \in retired /\ h.id \in Ids
      BY <1>1, <2>2, RetiredByType, EntityFields DEF TypeOK
    <3> QED  BY <1>3, <2>2, <3>1 DEF RetiredBehind, Exists
  <2> QED  BY <2>1, <2>2
<1> QED  BY <1>11, <1>12, <1>13, <1>14, <1>15, <1>16, <1>17

\* The range that remove finds for an id outside of the active range.
LEMMA InactiveRange ==
    ASSUME IndInv, NEW d \in Ids, Exists(d), ~ InActiveRange(d)
    PROVE  /\ FindRange(d) \in RangeSet /\ FindRange(d) \in Ids
           /\ FindRange(d) # 0 /\ FindRange(d) # active_range
           /\ InRange(FindRange(d), d) /\ d <= LastIssued(FindRange(d))
<1>1. active_range # 0
  BY DEF InActiveRange
<1>2. PICK m \in RangeSet : InRange(m, d) /\ d <= LastIssued(m)
  BY <1>1 DEF IndInv, UsedBelowLast
<1>3. FindRange(d) \in RangeSet /\ InRange(FindRange(d), d)
  BY <1>2 DEF FindRange
<1>4. FindRange(d) = m
  BY <1>2, <1>3 DEF IndInv, RangesDisjoint
<1>5. m # active_range
  BY <1>1, <1>2 DEF InActiveRange
<1>6. m \in Ids /\ m # 0
  BY RangeSetIds DEF IndInv, Ids
<1> QED  BY <1>2, <1>4, <1>5, <1>6

\* Deleting an entity of another range takes its id out of the index and saves
\* it with its range.
LEMMA DeleteInactiveInv ==
    ASSUME IndInv, NEW e \in Entities, Delete(e), ~ InActiveRange(e.id)
    PROVE  IndInv'
<1> DEFINE seq == RemovedDense(e)
           rec == RemovedRecords(e)
           a == alive_count - 1
           r == FindRange(e.id)
           g == GenerationInc(e)
<1> USE DEF IndInv
<1>1. IsAlive(e) /\ e.id \in Ids /\ Exists(e.id)
  BY EntityFields DEF Delete, IsAlive
<1>2. /\ r \in RangeSet /\ r \in Ids /\ r # 0 /\ r # active_range
      /\ InRange(r, e.id) /\ e.id <= LastIssued(r)
  BY <1>1, InactiveRange
<1>3. /\ seq \in Seq(Entities) /\ Len(seq) = Len(dense)
      /\ rec \in [Ids -> Nat] /\ Agree(seq, rec)
      /\ a \in 1 .. Len(dense) /\ rec[e.id] = a
      /\ \A d \in Ids : d # e.id =>
            /\ rec[d] = 0 <=> records[d] = 0
            /\ records[d] # 0 => seq[rec[d]] = dense[records[d]]
      /\ \A i \in 1 .. Len(dense) : seq[i] =
            IF i = a THEN g ELSE IF i = records[e.id] THEN dense[a] ELSE dense[i]
  BY <1>1, RemoveAgree
<1>4. /\ dense' = DropDense(seq, rec[e.id])
      /\ records' = DropRecords(rec, seq, rec[e.id], e)
      /\ recycled' = [recycled EXCEPT ![r] = Append(@, g)]
      /\ alive_count' = alive_count - 1
      /\ retired' = RetiredBy(e) /\ issued' = {}
      /\ UNCHANGED <<max_id, ranges, range_max, cur, active_range>>
  BY <1>2, <1>3 DEF Delete
<1> HIDE DEF seq, rec, r, g
<1>5. rec[e.id] # 0 /\ Len(dense) \in Nat /\ alive_count \in Nat \ {0}
  BY <1>3 DEF TypeOK
<1>6. /\ dense' \in Seq(Entities) /\ Len(dense') = Len(dense) - 1
      /\ records' \in [Ids -> Nat] /\ Agree(dense', records')
      /\ records'[e.id] = 0
      /\ \A d \in Ids : d # e.id =>
            /\ records'[d] = 0 <=> rec[d] = 0
            /\ rec[d] # 0 => dense'[records'[d]] = seq[rec[d]]
      /\ \A i \in 1 .. Len(dense) - 1 :
            dense'[i] = IF i = a THEN seq[Len(dense)] ELSE seq[i]
  BY <1>1, <1>3, <1>4, <1>5, DropAgree, SMTT(30)
<1>7. \A d \in Ids : d # e.id =>
         /\ records'[d] = 0 <=> records[d] = 0
         /\ records[d] # 0 => dense'[records'[d]] = dense[records[d]]
  BY <1>3, <1>6
<1>8. records[e.id] \in 1 .. a
  BY <1>1, <1>3, <1>5 DEF IsAlive, Exists, TypeOK
<1>9. g \in Entities /\ g.id = e.id
  BY GenerationIncType DEF g
<1>10. /\ recycled' \in [Ids -> Seq(Entities)]
       /\ \A m \in Ids : m # r => recycled'[m] = recycled[m]
       /\ DOMAIN recycled[r] = 1 .. Len(recycled[r]) /\ Len(recycled[r]) \in Nat
       /\ DOMAIN recycled'[r] = 1 .. Len(recycled[r]) + 1
       /\ \A i \in DOMAIN recycled[r] : recycled'[r][i] = recycled[r][i]
       /\ recycled'[r][Len(recycled[r]) + 1] = g
  BY <1>2, <1>4, <1>9, AppendProperties, LenProperties DEF TypeOK
<1>11. TypeOK'
  <2>1. alive_count' \in Nat \ {0} /\ retired' \subseteq Entities
    BY <1>3, <1>4, <1>5, RetiredByType
  <2> QED  BY <1>4, <1>6, <1>10, <2>1 DEF TypeOK
<1>12. DenseRecordsAgree'
  BY <1>3, <1>4, <1>5, <1>6 DEF DenseRecordsAgree, Agree
<1> DEFINE Old(m, i) == i \in DOMAIN recycled[m] /\ recycled'[m][i] = recycled[m][i]
           New(m, i) == m = r /\ i = Len(recycled[r]) + 1 /\ recycled'[m][i] = g
<1>20. \A m \in Ids : \A i \in DOMAIN recycled'[m] : Old(m, i) \/ New(m, i)
  BY <1>10
<1>21. \A m \in Ids : \A i \in DOMAIN recycled[m] :
          recycled[m][i].id \in Ids /\ recycled[m][i].id # e.id
  BY <1>1, SavedType DEF RecycledOnce, Exists
<1>22. /\ RangeSet' = RangeSet
       /\ \A m, d : InRange(m, d)' <=> InRange(m, d)
       /\ \A d : InActiveRange(d)' <=> InActiveRange(d)
  BY <1>4 DEF RangeSet, InRange, InActiveRange
<1>13. RecycledOnce'
  <2>1. \A m \in Ids : \A i \in DOMAIN recycled'[m] : records'[recycled'[m][i].id] = 0
    BY <1>6, <1>7, <1>9, <1>20, <1>21 DEF RecycledOnce
  <2>2. ASSUME NEW m \in Ids, NEW i \in DOMAIN recycled'[m],
               NEW n \in Ids, NEW j \in DOMAIN recycled'[n],
               recycled'[n][j].id = recycled'[m][i].id
        PROVE  n = m /\ j = i
    <3>1. CASE Old(m, i) /\ Old(n, j)
      BY <2>2, <3>1 DEF RecycledOnce
    <3>2. CASE New(m, i) /\ New(n, j)
      BY <3>2
    <3>3. CASE (New(m, i) /\ Old(n, j)) \/ (Old(m, i) /\ New(n, j))
      BY <1>9, <1>21, <2>2, <3>3
    <3> QED  BY <1>20, <3>1, <3>2, <3>3
  <2> QED  BY <2>1, <2>2 DEF RecycledOnce
<1>14. RecycledInRange'
  <2>1. ASSUME NEW i \in alive_count' .. Len(dense')
        PROVE  InActiveRange(dense'[i].id)
    <3>1. i \in 1 .. Len(dense) - 1 /\ i >= a
      BY <1>3, <1>4, <1>5, <1>6
    <3>2. \E j \in alive_count .. Len(dense) : dense'[i] = dense[j]
      <4>1. CASE i = a
        <5>1. /\ Len(dense) \in alive_count .. Len(dense) /\ Len(dense) \in 1 .. Len(dense)
              /\ Len(dense) # a /\ Len(dense) # records[e.id]
          BY <1>3, <1>5, <1>8, <3>1, <4>1
        <5>2. dense'[i] = seq[Len(dense)]
          BY <1>6, <3>1, <4>1
        <5> QED  BY <1>3, <5>1, <5>2
      <4>2. CASE i # a
        <5>1. /\ i \in alive_count .. Len(dense) /\ i \in 1 .. Len(dense)
              /\ i # a /\ i # records[e.id]
          BY <1>3, <1>5, <1>8, <3>1, <4>2
        <5>2. dense'[i] = seq[i]
          BY <1>6, <3>1, <4>2
        <5> QED  BY <1>3, <5>1, <5>2
      <4> QED  BY <4>1, <4>2
    <3> QED  BY <3>2 DEF RecycledInRange
  <2>2. \A m \in Ids : \A i \in DOMAIN recycled'[m] :
           m \in RangeSet /\ InRange(m, recycled'[m][i].id)
    BY <1>2, <1>9, <1>20 DEF RecycledInRange
  <2> QED  BY <1>22, <2>1, <2>2 DEF RecycledInRange
<1>15. RangesDisjoint'
  BY <1>2, <1>4, <1>10, <1>22, RangeSetIds DEF RangesDisjoint
<1>16. UsedBelowLast'
  <2>1. \A m : LastIssued(m)' = LastIssued(m)
    BY <1>4 DEF LastIssued
  <2>2. \A d \in Ids : Exists(d)' => Exists(d)
    BY <1>6, <1>7 DEF Exists
  <2>3. \A m \in Ids : \A i \in DOMAIN recycled'[m] : recycled'[m][i].id <= LastIssued(m)
    BY <1>2, <1>9, <1>20 DEF UsedBelowLast
  <2> QED  BY <1>4, <1>22, <2>1, <2>2, <2>3 DEF UsedBelowLast
<1>17. RetiredBehind'
  <2> SUFFICES ASSUME NEW h \in retired'
               PROVE  \/ records'[h.id] # 0 /\ h.gen < dense'[records'[h.id]].gen
                      \/ \E m \in Ids : \E i \in DOMAIN recycled'[m] :
                            recycled'[m][i].id = h.id /\ h.gen < recycled'[m][i].gen
    BY DEF RetiredBehind, Exists
  <2>1. CASE h.id = e.id
    <3>1. h.gen < g.gen
      BY <1>1, <1>4, <2>1, RetiredByBehind DEF g
    <3> QED  BY <1>2, <1>9, <1>10, <2>1, <3>1
  <2>2. CASE h.id # e.id
    <3>1. h \in retired /\ h.id \in Ids
      BY <1>4, <2>2, RetiredByType, EntityFields DEF TypeOK
    <3>2. CASE records[h.id] # 0 /\ h.gen < dense[records[h.id]].gen
      BY <1>7, <2>2, <3>1, <3>2
    <3>3. ASSUME NEW m \in Ids, NEW i \in DOMAIN recycled[m],
                 recycled[m][i].id = h.id, h.gen < recycled[m][i].gen
          PROVE  i \in DOMAIN recycled'[m] /\ recycled'[m][i] = recycled[m][i]
      <4>1. CASE m = r
        BY <1>10, <4>1
      <4>2. CASE m # r
        BY <1>10, <4>2
      <4> QED  BY <4>1, <4>2
    <3> QED  BY <3>1, <3>2, <3>3 DEF RetiredBehind, Exists
  <2> QED  BY <2>1, <2>2
<1> QED  BY <1>11, <1>12, <1>13, <1>14, <1>15, <1>16, <1>17

\* Bulk creation out of the ids that wait to be recycled.
LEMMA NewIdsRecycleInv ==
    ASSUME IndInv, NEW count \in 2 .. MaxBulk, NewIds(count),
           ToAdd(count) <= 0
    PROVE  IndInv'
<1> USE DEF IndInv
<1>1. /\ alive_count' = alive_count + count
      /\ issued' = {dense'[i] : i \in alive_count .. alive_count + count - 1}
      /\ UNCHANGED <<dense, records, max_id, rangeVars, retired>> /\ UNCHANGED recycled
  <2>1. issued' = {dense'[i] : i \in alive_count .. alive_count + count - 1}
    BY Zenon DEF NewIds
  <2>2. /\ alive_count' = alive_count + count
        /\ UNCHANGED <<rangeVars, retired>> /\ UNCHANGED <<dense, records, max_id>>
    BY DEF NewIds, rangeVars
  <2> QED  BY <2>1, <2>2 DEF rangeVars
<1>2. /\ Len(dense) \in Nat /\ max_id \in Int /\ count \in Nat
      /\ alive_count \in Nat \ {0} /\ alive_count' \in Nat \ {0}
      /\ alive_count <= alive_count' /\ alive_count' <= Len(dense) + 1
  BY <1>1 DEF TypeOK, ToAdd
<1>3. issued' \subseteq Entities
  BY <1>1, <1>2, ElementOfSeq DEF TypeOK
<1>11. TypeOK'
  BY <1>1, <1>2, <1>3 DEF TypeOK, rangeVars
<1>12. DenseRecordsAgree'
  BY <1>1, <1>2 DEF DenseRecordsAgree, Agree
<1>13. RecycledOnce'
  BY <1>1, RecycledOnceStep
<1>14. RecycledInRange'
  BY <1>1, <1>2, RangesUnchanged DEF RecycledInRange
<1>15. RangesDisjoint'
  BY <1>1, RangesUnchanged
<1>16. UsedBelowLast'
  BY <1>1, <1>2, UsedStep
<1>17. RetiredBehind'
  BY <1>1, RetiredStep
<1> QED  BY <1>11, <1>12, <1>13, <1>14, <1>15, <1>16, <1>17

\* Bulk creation that needs fresh ids as well.
LEMMA NewIdsFreshInv ==
    ASSUME IndInv, RangeDiscipline, NEW count \in 2 .. MaxBulk, NewIds(count),
           ~ (ToAdd(count) <= 0)
    PROVE  IndInv'
<1> DEFINE n == ToAdd(count)
           fresh == FreshIds(n)
<1> USE DEF IndInv
<1>1. /\ dense \in Seq(Entities) /\ records \in [Ids -> Nat] /\ Agree(dense, records)
      /\ Len(dense) \in Nat /\ max_id \in 0 .. MaxId /\ max_id \in Nat
      /\ alive_count \in Nat \ {0} /\ alive_count <= Len(dense) + 1
      /\ count \in Nat /\ n \in Nat \ {0}
  <2>1. alive_count \in Nat \ {0} /\ Len(dense) \in Nat /\ count \in Nat
    BY DEF TypeOK
  <2>2. n \in Nat \ {0}
    BY <2>1 DEF ToAdd
  <2> QED  BY <2>1, <2>2 DEF TypeOK, DenseRecordsAgree
<1>2. /\ max_id + n <= MaxId
      /\ InActiveRange(max_id + n)
      /\ dense' = dense \o fresh
      /\ records' = FreshRecords(n)
      /\ max_id' = max_id + n
      /\ alive_count' = alive_count + count
      /\ issued' = {dense'[i] : i \in alive_count .. alive_count + count - 1}
      /\ UNCHANGED <<rangeVars, retired>> /\ UNCHANGED recycled
  <2>1. issued' = {dense'[i] : i \in alive_count .. alive_count + count - 1}
    BY Zenon DEF NewIds
  <2>2. /\ max_id + n <= MaxId /\ InActiveRange(max_id + n)
        /\ dense' = dense \o fresh /\ records' = FreshRecords(n) /\ max_id' = max_id + n
        /\ alive_count' = alive_count + count /\ UNCHANGED <<rangeVars, retired>>
    BY DEF NewIds, rangeVars
  <2> QED  BY <2>1, <2>2 DEF rangeVars
<1>3. /\ fresh \in Seq(Entities) /\ Len(fresh) = n
      /\ \A i \in 1 .. n : fresh[i] \in Entities /\ fresh[i].id = max_id + i
  <2> HIDE DEF n
  <2>1. ASSUME NEW i \in 1 .. n
        PROVE  [id |-> max_id + i, gen |-> 0] \in Entities
    <3>1. max_id + i \in 1 .. MaxId
      BY <1>1, <1>2
    <3> QED  BY <3>1 DEF Entities, Ids, Gens
  <2>2. fresh \in [1 .. n -> Entities]
    BY <2>1 DEF FreshIds
  <2>3. fresh \in Seq(Entities) /\ Len(fresh) = n
    BY <1>1, <2>2, SeqDef, LenProperties
  <2> QED  BY <2>2, <2>3 DEF FreshIds
<1> HIDE DEF n, fresh
<1>4. /\ dense' \in Seq(Entities) /\ Len(dense') = Len(dense) + n
      /\ \A i \in 1 .. Len(dense) : dense'[i] = dense[i]
      /\ \A i \in Len(dense) + 1 .. Len(dense) + n : dense'[i].id = max_id + i - Len(dense)
  <2>1. /\ dense' \in Seq(Entities) /\ Len(dense') = Len(dense) + n
        /\ \A i \in 1 .. Len(dense) + n :
              dense'[i] = IF i <= Len(dense) THEN dense[i] ELSE fresh[i - Len(dense)]
    BY <1>1, <1>2, <1>3, ConcatProperties
  <2>2. ASSUME NEW i \in Len(dense) + 1 .. Len(dense) + n
        PROVE  dense'[i].id = max_id + i - Len(dense)
    <3>1. i - Len(dense) \in 1 .. n /\ i \in 1 .. Len(dense) + n /\ ~ (i <= Len(dense))
      BY <1>1
    <3> QED  BY <1>1, <1>3, <2>1, <3>1
  <2> QED  BY <1>1, <2>1, <2>2
<1>5. ASSUME NEW d \in max_id + 1 .. max_id + n
      PROVE  d \in Ids /\ d > max_id /\ InActiveRange(d)
  <2>1. d \in Ids /\ max_id + n \in Ids /\ d > max_id /\ d <= max_id + n
    <3>1. d \in Int /\ max_id + 1 <= d /\ d <= max_id + n
      BY <1>1
    <3>2. max_id \in Int /\ max_id >= 0 /\ n \in Int /\ max_id + n <= MaxId
      BY <1>1, <1>2
    <3> QED  BY <3>1, <3>2 DEF Ids
  <2>2. active_range # 0 /\ range_max[active_range] # 0
          => max_id + n <= range_max[active_range]
    BY <1>2 DEF InActiveRange, InRange
  <2> QED  BY <2>1, <2>2, FreshInRange
<1>6. \A d \in max_id + 1 .. max_id + n :
         /\ records[d] = 0
         /\ \A m \in Ids : \A i \in DOMAIN recycled[m] : recycled[m][i].id # d
         /\ \A h \in retired : h.id # d
  BY <1>5, FreshUnused
<1>7. \A d \in Ids : records'[d] = IF d \in max_id + 1 .. max_id + n
                                     THEN Len(dense) + d - max_id ELSE records[d]
  BY <1>2 DEF FreshRecords
<1>8. records' \in [Ids -> Nat]
  <2>1. \A d \in Ids : records'[d] \in Nat
    BY <1>1, <1>7
  <2> QED  BY <1>2, <2>1 DEF FreshRecords
<1>9. Agree(dense', records')
  <2>1. ASSUME NEW i \in 1 .. Len(dense')
        PROVE  records'[dense'[i].id] = i
    <3>1. CASE i \in 1 .. Len(dense)
      <4>1. dense'[i] = dense[i] /\ dense[i].id \in Ids /\ records[dense[i].id] = i /\ i # 0
        BY <1>1, <1>4, <3>1, ElementOfSeq, EntityFields DEF Agree
      <4> QED  BY <1>6, <1>7, <4>1
    <3>2. CASE i \in Len(dense) + 1 .. Len(dense) + n
      <4>1. /\ dense'[i].id = max_id + i - Len(dense)
            /\ max_id + i - Len(dense) \in max_id + 1 .. max_id + n
        BY <1>1, <1>4, <3>2
      <4>2. dense'[i].id \in Ids /\ dense'[i].id \in max_id + 1 .. max_id + n
        BY <1>5, <4>1
      <4>3. records'[dense'[i].id] = Len(dense) + dense'[i].id - max_id
        BY <1>7, <4>2
      <4> QED  BY <1>1, <3>2, <4>1, <4>3
    <3> QED  BY <1>1, <1>4, <3>1, <3>2
  <2>2. ASSUME NEW d \in Ids, records'[d] # 0
        PROVE  records'[d] \in 1 .. Len(dense') /\ dense'[records'[d]].id = d
    <3>1. CASE d \in max_id + 1 .. max_id + n
      <4>1. /\ records'[d] = Len(dense) + d - max_id
            /\ records'[d] \in Len(dense) + 1 .. Len(dense) + n
        BY <1>1, <1>7, <3>1
      <4>2. dense'[records'[d]].id = max_id + records'[d] - Len(dense)
        BY <1>4, <4>1
      <4>3. d \in Int /\ records'[d] \in Int /\ records'[d] \in 1 .. Len(dense) + n
        BY <1>1, <4>1 DEF Ids
      <4> QED  BY <1>1, <1>4, <4>1, <4>2, <4>3
    <3>2. CASE d \notin max_id + 1 .. max_id + n
      <4>1. records'[d] = records[d] /\ records[d] \in 1 .. Len(dense) /\ dense[records[d]].id = d
        BY <1>1, <1>7, <2>2, <3>2 DEF Agree
      <4> QED  BY <1>1, <1>4, <4>1
    <3> QED  BY <3>1, <3>2
  <2> QED  BY <2>1, <2>2 DEF Agree
<1>10. alive_count' = Len(dense') + 1 /\ alive_count' \in Nat \ {0} /\ max_id' \in 0 .. MaxId
  BY <1>1, <1>2, <1>4 DEF n, ToAdd
<1>11. TypeOK'
  <2>1. issued' \subseteq Entities
    <3>1. ASSUME NEW i \in alive_count .. alive_count + count - 1
          PROVE  dense'[i] \in Entities
      <4>1. i \in 1 .. Len(dense')
        <5>1. alive_count + count = Len(dense') + 1
          BY <1>2, <1>10
        <5>2. Len(dense') \in Nat /\ i \in Int /\ i >= alive_count /\ i <= alive_count + count - 1
          BY <1>1, <1>4
        <5> QED  BY <1>1, <5>1, <5>2
      <4> QED  BY <1>4, <4>1, ElementOfSeq
    <3> QED  BY <1>2, <3>1
  <2> QED  BY <1>2, <1>4, <1>8, <1>10, <2>1 DEF TypeOK, rangeVars
<1>12. DenseRecordsAgree'
  BY <1>4, <1>9, <1>10 DEF DenseRecordsAgree, Agree
<1>13. RecycledOnce'
  BY <1>2, <1>6, <1>7, RecycledOnceStep
<1>14. RecycledInRange'
  BY <1>2, <1>4, <1>10, RangesUnchanged DEF RecycledInRange
<1>15. RangesDisjoint'
  BY <1>2, RangesUnchanged
<1>16. UsedBelowLast'
  <2>1. \A d \in Ids : records'[d] # 0 =>
           records[d] # 0 \/ (InActiveRange(d) /\ d <= max_id')
    BY <1>1, <1>2, <1>5, <1>7
  <2>2. max_id' \in Int /\ max_id <= max_id'
    BY <1>1, <1>2
  <2> QED  BY <1>2, <2>1, <2>2, UsedStep
<1>17. RetiredBehind'
  <2>1. ASSUME NEW h \in retired, records[h.id] # 0
        PROVE  records'[h.id] # 0 /\ dense'[records'[h.id]] = dense[records[h.id]]
    <3>1. h.id \in Ids /\ records'[h.id] = records[h.id] /\ records[h.id] \in 1 .. Len(dense)
      BY <1>1, <1>6, <1>7, <2>1, EntityFields DEF TypeOK, Agree
    <3> QED  BY <1>4, <2>1, <3>1
  <2> QED  BY <1>2, <2>1, RetiredStep
<1> QED  BY <1>11, <1>12, <1>13, <1>14, <1>15, <1>16, <1>17

\* The vector with a range inserted holds the ranges it held and the new one.
LEMMA InsertProperties ==
    ASSUME NEW s \in Seq(Ids), NEW m \in Ids
    PROVE  /\ Insert(s, m) \in Seq(Ids)
           /\ {Insert(s, m)[i] : i \in DOMAIN Insert(s, m)}
                = {s[i] : i \in DOMAIN s} \union {m}
<1> DEFINE n == Cardinality({i \in DOMAIN s : s[i] <= m})
           left == SubSeq(s, 1, n)
           right == SubSeq(s, n + 1, Len(s))
           t == left \o <<m>>
<1>1. n \in 0 .. Len(s)
  <2>1. IsFiniteSet(1 .. Len(s)) /\ Cardinality(1 .. Len(s)) = Len(s)
    <3>1. Len(s) \in Nat
      OBVIOUS
    <3>2. Cardinality(1 .. Len(s)) = IF 1 > Len(s) THEN 0 ELSE Len(s) - 1 + 1
      BY <3>1, FS_Interval
    <3>3. IsFiniteSet(1 .. Len(s))
      BY <3>1, FS_Interval
    <3> QED  BY <3>1, <3>2, <3>3
  <2>2. {i \in DOMAIN s : s[i] <= m} \subseteq 1 .. Len(s)
    OBVIOUS
  <2>3. n \in Nat /\ n <= Cardinality(1 .. Len(s))
    BY <2>1, <2>2, FS_Subset, FS_CardinalityType
  <2> QED  BY <2>1, <2>3
<1>2. Insert(s, m) = t \o right
  BY DEF Insert
<1> HIDE DEF n
<1>3. /\ left \in Seq(Ids) /\ Len(left) = n
      /\ \A i \in 1 .. n : left[i] = s[i]
  BY <1>1
<1>4. /\ right \in Seq(Ids) /\ Len(right) = Len(s) - n
      /\ \A i \in 1 .. Len(s) - n : right[i] = s[n + i]
  BY <1>1
<1> HIDE DEF left, right
<1>5. /\ t \in Seq(Ids) /\ Len(t) = n + 1
      /\ \A i \in 1 .. n : t[i] = s[i]
      /\ t[n + 1] = m
  BY <1>1, <1>3
<1> HIDE DEF t
<1>6. /\ t \o right \in Seq(Ids) /\ Len(t \o right) = Len(s) + 1
      /\ \A i \in 1 .. Len(s) + 1 :
            (t \o right)[i] = IF i <= n + 1 THEN t[i] ELSE right[i - (n + 1)]
  BY <1>1, <1>4, <1>5, ConcatProperties
<1> DEFINE u == t \o right
<1> HIDE DEF u
<1>7. /\ DOMAIN u = 1 .. Len(s) + 1 /\ DOMAIN s = 1 .. Len(s) /\ Len(s) \in Nat /\ n \in Nat
      /\ \A i \in 1 .. Len(s) + 1 :
            u[i] = IF i <= n + 1 THEN t[i] ELSE right[i - (n + 1)]
  BY <1>1, <1>6 DEF u
<1>8. ASSUME NEW i \in 1 .. Len(s) + 1
      PROVE  u[i] = m \/ \E j \in DOMAIN s : u[i] = s[j]
  <2>1. CASE i <= n
    <3>1. i \in 1 .. n /\ i \in DOMAIN s
      BY <1>1, <1>7, <2>1
    <3> QED  BY <1>5, <1>7, <2>1, <3>1
  <2>2. CASE i = n + 1
    BY <1>5, <1>7, <2>2
  <2>3. CASE i > n + 1
    <3>1. i - (n + 1) \in 1 .. Len(s) - n /\ i - 1 \in DOMAIN s /\ n + (i - (n + 1)) = i - 1
      BY <1>1, <1>7, <2>3
    <3>2. u[i] = right[i - (n + 1)]
      BY <1>7, <2>3
    <3> QED  BY <1>4, <3>1, <3>2
  <2> QED  BY <1>7, <2>1, <2>2, <2>3
<1>9. ASSUME NEW j \in DOMAIN s
      PROVE  \E i \in DOMAIN u : u[i] = s[j]
  <2>1. CASE j <= n
    <3>1. j \in 1 .. n /\ j \in DOMAIN u /\ j <= n + 1 /\ j \in 1 .. Len(s) + 1
      BY <1>1, <1>7, <2>1
    <3> QED  BY <1>5, <1>7, <3>1
  <2>2. CASE j > n
    <3>1. /\ j - n \in 1 .. Len(s) - n /\ j + 1 \in DOMAIN u /\ j + 1 \in 1 .. Len(s) + 1
          /\ ~ (j + 1 <= n + 1) /\ (j + 1) - (n + 1) = j - n /\ n + (j - n) = j
      BY <1>1, <1>7, <2>2
    <3>2. u[j + 1] = right[j - n]
      BY <1>7, <3>1
    <3> QED  BY <1>4, <3>1, <3>2
  <2> QED  BY <1>7, <2>1, <2>2
<1>10. {u[i] : i \in DOMAIN u} = {s[i] : i \in DOMAIN s} \union {m}
  <2>1. u[n + 1] = m /\ n + 1 \in DOMAIN u
    BY <1>1, <1>5, <1>7
  <2>2. \A i \in DOMAIN u : u[i] \in {s[j] : j \in DOMAIN s} \union {m}
    BY <1>7, <1>8
  <2>3. \A x \in {s[j] : j \in DOMAIN s} \union {m} : x \in {u[i] : i \in DOMAIN u}
    BY <1>9, <2>1
  <2> QED  BY <2>2, <2>3
<1>11. Insert(s, m) = u
  BY <1>2 DEF u
<1>12. u \in Seq(Ids)
  BY <1>6 DEF u
<1> QED  BY <1>10, <1>11, <1>12

\* What RangeNew does to the invariant, whatever the ranges are afterwards: the
\* parts that speak of ranges remain to be shown.
LEMMA RangeNewParts ==
    ASSUME IndInv, NEW min \in Ids, NEW max \in 0 .. MaxId, RangeNew(min, max)
    PROVE  /\ max # 0 => max >= min
           /\ alive_count = Len(dense) + 1
           /\ UNCHANGED <<dense, records, alive_count, max_id, recycled, retired>>
           /\ issued' = {}
           /\ DenseRecordsAgree' /\ RecycledOnce' /\ RetiredBehind'
<1>1. /\ max # 0 => max >= min
      /\ NotAliveCount = 0
      /\ issued' = {}
      /\ UNCHANGED <<dense, records, alive_count, max_id, recycled, retired>>
  BY DEF RangeNew
<1>2. Len(dense) \in Nat /\ alive_count \in Nat
  BY DEF IndInv, TypeOK
<1>3. alive_count = Len(dense) + 1
  BY <1>1, <1>2 DEF NotAliveCount
<1>4. DenseRecordsAgree'
  BY <1>1 DEF IndInv, DenseRecordsAgree, Agree
<1>5. RecycledOnce' /\ RetiredBehind'
  BY <1>1 DEF IndInv, RecycledOnce, RetiredBehind, Exists
<1> QED  BY <1>1, <1>3, <1>4, <1>5

\* ecs_entity_range_new for the first range: what was created before lies in the
\* range that starts at 1, and the range asked for lies behind it.
LEMMA RangeNewFirstInv ==
    ASSUME IndInv, NEW min \in Ids, NEW max \in 0 .. MaxId,
           RangeNew(min, max), RangeNewFirst(min, max)
    PROVE  IndInv'
<1> USE DEF IndInv
<1>1. /\ max # 0 => max >= min
      /\ alive_count = Len(dense) + 1 /\ alive_count \in Nat \ {0} /\ Len(dense) \in Nat
      /\ UNCHANGED <<dense, records, alive_count, max_id, recycled, retired>>
      /\ issued' = {}
      /\ DenseRecordsAgree' /\ RecycledOnce' /\ RetiredBehind'
  BY RangeNewParts DEF TypeOK
<1>2. /\ ranges = <<>> /\ active_range' = 1
      /\ IF min = 1
           THEN /\ max # 0 => max >= max_id
                /\ ranges' = <<1>>
                /\ range_max' = [range_max EXCEPT ![1] = max]
                /\ cur' = [cur EXCEPT ![1] = max_id]
           ELSE /\ min - 1 >= max_id
                /\ ranges' = <<1, min>>
                /\ range_max' = [range_max EXCEPT ![1] = min - 1, ![min] = max]
                /\ cur' = [cur EXCEPT ![1] = max_id, ![min] = min - 1]
  BY DEF RangeNewFirst
<1>3. active_range = 0 /\ \A m \in Ids : DOMAIN recycled[m] = {}
  <2>1. RangeSet = {}
    BY <1>2 DEF RangeSet
  <2> QED  BY <2>1 DEF RangesDisjoint, RecycledInRange
<1>4. \A d \in Ids : Exists(d)' => d <= max_id
  BY <1>1, <1>3 DEF UsedBelowLast, Exists
<1>5. /\ max_id \in 0 .. MaxId /\ max_id \in Int /\ 1 \in Ids /\ min \in Int /\ max \in Int
      /\ range_max \in [Ids -> 0 .. MaxId] /\ cur \in [Ids -> 0 .. MaxId]
      /\ min - 1 \in 0 .. MaxId /\ Ids \subseteq Int /\ min >= 1
  <2>1. /\ max_id \in 0 .. MaxId /\ range_max \in [Ids -> 0 .. MaxId]
        /\ cur \in [Ids -> 0 .. MaxId]
    BY DEF TypeOK
  <2> QED  BY <2>1 DEF Ids
<1>6. recycled' = recycled /\ recycled[1] = <<>>
  <2>1. recycled[1] \in Seq(Entities) /\ DOMAIN recycled[1] = {}
    BY <1>3, <1>5 DEF TypeOK
  <2>2. Len(recycled[1]) = 0
    <3>1. DOMAIN recycled[1] = 1 .. Len(recycled[1]) /\ Len(recycled[1]) \in Nat
      BY <2>1, LenProperties
    <3>2. 1 \notin 1 .. Len(recycled[1])
      BY <2>1, <3>1
    <3> QED  BY <3>1, <3>2
  <2> QED  BY <1>1, <2>1, <2>2, EmptySeq
<1>7. CASE min = 1
  <2>1. ranges' = <<1>> /\ RangeSet' = {1}
    BY <1>2, <1>7 DEF RangeSet
  <2>2. /\ range_max' \in [Ids -> 0 .. MaxId] /\ cur' \in [Ids -> 0 .. MaxId]
        /\ range_max'[1] = max /\ (max # 0 => max >= max_id)
    BY <1>2, <1>5, <1>7
  <2>3. TypeOK'
    BY <1>1, <1>2, <1>5, <2>1, <2>2 DEF TypeOK
  <2>4. RecycledInRange'
    BY <1>1, <1>3, <2>1 DEF RecycledInRange
  <2>5. RangesDisjoint'
    BY <1>1, <1>2, <1>6, <1>7, <2>1, <2>2 DEF RangesDisjoint
  <2>6. UsedBelowLast'
    <3>1. LastIssued(1)' = max_id
      BY <1>1, <1>2 DEF LastIssued
    <3>2. ASSUME NEW d \in Ids, Exists(d)'
          PROVE  InRange(1, d)' /\ d <= LastIssued(1)'
      <4>1. d \in Int /\ d >= 1 /\ d <= max_id
        BY <1>4, <3>2 DEF Ids
      <4> QED  BY <1>5, <2>2, <3>1, <4>1 DEF InRange
    <3>3. \A m \in RangeSet' : m - 1 <= LastIssued(m)'
      BY <1>5, <2>1, <3>1
    <3> QED  BY <1>2, <1>3, <1>6, <2>1, <3>2, <3>3 DEF UsedBelowLast
  <2> QED  BY <1>1, <2>3, <2>4, <2>5, <2>6
<1>8. CASE min # 1
  <2>1. ranges' = <<1, min>> /\ RangeSet' = {1, min}
    BY <1>2, <1>8 DEF RangeSet
  <2>2. /\ range_max' \in [Ids -> 0 .. MaxId] /\ cur' \in [Ids -> 0 .. MaxId]
        /\ range_max'[1] = min - 1 /\ range_max'[min] = max /\ cur'[min] = min - 1
        /\ min - 1 >= max_id /\ min > 1
    <3>1. range_max' = [range_max EXCEPT ![1] = min - 1, ![min] = max]
      BY <1>2, <1>8
    <3>2. cur' = [cur EXCEPT ![1] = max_id, ![min] = min - 1]
      BY <1>2, <1>8
    <3>3. range_max' \in [Ids -> 0 .. MaxId]
      BY <1>5, <3>1
    <3>4. cur' \in [Ids -> 0 .. MaxId]
      BY <1>5, <3>2
    <3>5. range_max'[1] = min - 1 /\ range_max'[min] = max /\ cur'[min] = min - 1
      BY <1>5, <1>8, <3>1, <3>2
    <3> QED  BY <1>2, <1>5, <1>8, <3>3, <3>4, <3>5
  <2>3. TypeOK'
    <3>1. ranges' \in Seq(Ids) /\ active_range' \in 0 .. MaxId
      BY <1>2, <1>5, <2>1 DEF Ids
    <3> QED  BY <1>1, <2>2, <3>1 DEF TypeOK
  <2>4. RecycledInRange'
    BY <1>1, <1>3, <2>1 DEF RecycledInRange
  <2>5. RangesDisjoint'
    <3>1. \A d \in Ids : ~ (InRange(1, d)' /\ InRange(min, d)')
      BY <1>5, <2>2 DEF InRange
    <3>2. \A m \in RangeSet' : range_max'[m] # 0 => m <= range_max'[m]
      BY <1>1, <1>5, <2>1, <2>2, SMTT(30)
    <3>3. \A m, n \in RangeSet' : \A d \in Ids : InRange(m, d)' /\ InRange(n, d)' => m = n
      BY <2>1, <3>1
    <3> QED  BY <1>2, <1>6, <2>1, <3>2, <3>3 DEF RangesDisjoint
  <2>6. UsedBelowLast'
    <3>1. LastIssued(1)' = max_id /\ LastIssued(min)' = min - 1
      BY <1>1, <1>2, <1>8, <2>2 DEF LastIssued
    <3>2. ASSUME NEW d \in Ids, Exists(d)'
          PROVE  InRange(1, d)' /\ d <= LastIssued(1)'
      <4>1. d \in Int /\ d >= 1 /\ d <= max_id
        BY <1>4, <3>2 DEF Ids
      <4> QED  BY <1>5, <2>2, <3>1, <4>1 DEF InRange
    <3>3. \A m \in RangeSet' : m - 1 <= LastIssued(m)'
      BY <1>5, <2>1, <3>1
    <3> QED  BY <1>2, <1>3, <1>6, <2>1, <3>2, <3>3 DEF UsedBelowLast
  <2> QED  BY <1>1, <2>3, <2>4, <2>5, <2>6
<1> QED  BY <1>7, <1>8

\* ecs_entity_range_new for a further range, which overlaps none.
LEMMA RangeNewNextInv ==
    ASSUME IndInv, NEW min \in Ids, NEW max \in 0 .. MaxId,
           RangeNew(min, max), RangeNewNext(min, max)
    PROVE  IndInv'
<1> USE DEF IndInv
<1>1. /\ max # 0 => max >= min
      /\ alive_count = Len(dense) + 1 /\ alive_count \in Nat \ {0} /\ Len(dense) \in Nat
      /\ UNCHANGED <<dense, records, alive_count, max_id, recycled, retired>>
      /\ issued' = {}
      /\ DenseRecordsAgree' /\ RecycledOnce' /\ RetiredBehind'
  BY RangeNewParts DEF TypeOK
<1>2. /\ ranges # <<>>
      /\ \A m \in RangeSet : ~ Overlap(m, range_max[m], min, max)
      /\ ranges' = Insert(ranges, min)
      /\ range_max' = [range_max EXCEPT ![min] = max]
      /\ cur' = [cur EXCEPT ![min] = min - 1]
      /\ UNCHANGED active_range
  BY DEF RangeNewNext
<1>3. RangeSet' = RangeSet \union {min} /\ ranges' \in Seq(Ids)
  <2>1. ranges \in Seq(Ids)
    BY DEF TypeOK
  <2>2. /\ ranges' \in Seq(Ids)
        /\ {ranges'[i] : i \in DOMAIN ranges'} = {ranges[i] : i \in DOMAIN ranges} \union {min}
    <3>1. /\ Insert(ranges, min) \in Seq(Ids)
          /\ {Insert(ranges, min)[i] : i \in DOMAIN Insert(ranges, min)}
               = {ranges[i] : i \in DOMAIN ranges} \union {min}
      BY <2>1, InsertProperties, Zenon
    <3> QED  BY <1>2, <3>1
  <2> QED  BY <2>2 DEF RangeSet
<1>4. /\ min \in Int /\ max \in Int /\ min >= 1 /\ min - 1 \in 0 .. MaxId /\ Ids \subseteq Int
      /\ range_max \in [Ids -> 0 .. MaxId] /\ cur \in [Ids -> 0 .. MaxId]
      /\ RangeSet \subseteq Ids
  <2>1. RangeSet \subseteq Ids
    BY RangeSetIds
  <2>2. min \in Int /\ max \in Int /\ min >= 1 /\ min - 1 \in 0 .. MaxId /\ Ids \subseteq Int
    BY DEF Ids
  <2> QED  BY <2>1, <2>2 DEF TypeOK
<1>5. /\ range_max' \in [Ids -> 0 .. MaxId] /\ cur' \in [Ids -> 0 .. MaxId]
      /\ range_max'[min] = max /\ cur'[min] = min - 1
      /\ \A m \in Ids : m # min => range_max'[m] = range_max[m] /\ cur'[m] = cur[m]
  BY <1>2, <1>4
<1>6. active_range # 0 /\ active_range \in RangeSet
  <2>1. ranges[1] \in RangeSet
    <3>1. 1 \in DOMAIN ranges
      BY <1>2, EmptySeq, LenProperties DEF TypeOK
    <3> QED  BY <3>1 DEF RangeSet
  <2> QED  BY <2>1 DEF RangesDisjoint
<1>7. min \notin RangeSet
  BY <1>1, <1>2, <1>4 DEF Overlap, RangesDisjoint
<1>8. /\ \A m \in RangeSet : \A d : InRange(m, d)' <=> InRange(m, d)
      /\ \A m \in RangeSet : LastIssued(m)' = LastIssued(m)
      /\ \A d : InActiveRange(d)' <=> InActiveRange(d)
  <2>1. \A m \in RangeSet : range_max'[m] = range_max[m] /\ cur'[m] = cur[m]
    BY <1>4, <1>5, <1>7
  <2> QED  BY <1>1, <1>2, <1>6, <2>1 DEF InRange, LastIssued, InActiveRange
<1>9. \A m \in RangeSet : \A d \in Ids : ~ (InRange(m, d) /\ InRange(min, d)')
  <2> SUFFICES ASSUME NEW m \in RangeSet, NEW d \in Ids, InRange(m, d), InRange(min, d)'
               PROVE  FALSE
    OBVIOUS
  <2>1. ~ Overlap(m, range_max[m], min, max)
    BY <1>2
  <2>2. m \in Int /\ d \in Int /\ range_max[m] \in Int
    BY <1>4
  <2> QED  BY <1>4, <1>5, <2>1, <2>2 DEF Overlap, InRange
<1>11. TypeOK'
  BY <1>1, <1>2, <1>3, <1>5 DEF TypeOK
<1>14. RecycledInRange'
  <2>1. \A i \in alive_count' .. Len(dense') : FALSE
    BY <1>1
  <2>2. \A m \in Ids : \A i \in DOMAIN recycled'[m] :
           m \in RangeSet /\ InRange(m, recycled'[m][i].id)
    BY <1>1 DEF RecycledInRange
  <2> QED  BY <1>3, <1>8, <2>1, <2>2 DEF RecycledInRange
<1>15. RangesDisjoint'
  <2>1. \A m \in RangeSet' : range_max'[m] # 0 => m <= range_max'[m]
    BY <1>1, <1>3, <1>4, <1>5 DEF RangesDisjoint
  <2>2. \A m, n \in RangeSet' : \A d \in Ids : InRange(m, d)' /\ InRange(n, d)' => m = n
    BY <1>3, <1>8, <1>9 DEF RangesDisjoint
  <2> QED  BY <1>1, <1>2, <1>3, <1>6, <2>1, <2>2 DEF RangesDisjoint
<1>16. UsedBelowLast'
  <2>1. LastIssued(min)' = min - 1
    BY <1>2, <1>5, <1>6, <1>7 DEF LastIssued
  <2>2. ASSUME NEW m \in RangeSet'
        PROVE  m - 1 <= LastIssued(m)'
    <3>1. CASE m = min
      BY <1>4, <2>1, <3>1
    <3>2. CASE m \in RangeSet
      BY <1>8, <3>2 DEF UsedBelowLast
    <3> QED  BY <1>3, <3>1, <3>2
  <2>3. \A d \in Ids : Exists(d)' => \E m \in RangeSet' : InRange(m, d)' /\ d <= LastIssued(m)'
    BY <1>1, <1>3, <1>6, <1>8 DEF UsedBelowLast, Exists
  <2>4. \A m \in Ids : \A i \in DOMAIN recycled[m] : recycled[m][i].id <= LastIssued(m)'
    BY <1>8 DEF UsedBelowLast, RecycledInRange
  <2> QED  BY <1>1, <1>2, <1>6, <2>2, <2>3, <2>4 DEF UsedBelowLast
<1> QED  BY <1>1, <1>11, <1>14, <1>15, <1>16

\* ecs_entity_range_set.  What is saved with the range that was active and what is
\* loaded from range m are ids of different ranges, unless m was active already.
LEMMA RangeSetInv ==
    ASSUME IndInv, NEW m \in RangeSet, RangeSetActive(m)
    PROVE  IndInv'
<1> DEFINE saved == SavedIds
           keep == SubSeq(dense, 1, alive_count - 1)
           r1 == SavedRecycled
           load == r1[m]
           Loaded(d) == \E i \in DOMAIN load : load[i].id = d
           Saved(d) == \E i \in DOMAIN saved : saved[i].id = d
<1> USE DEF IndInv
<1>1. active_range # 0 /\ active_range \in RangeSet /\ recycled[active_range] = <<>>
  BY DEF RangesDisjoint
<1>2. /\ m \in Ids /\ active_range \in Ids /\ RangeSet \subseteq Ids
      /\ dense \in Seq(Entities) /\ Len(dense) \in Nat /\ Agree(dense, records)
      /\ records \in [Ids -> Nat]
      /\ alive_count \in Nat \ {0} /\ alive_count <= Len(dense) + 1
      /\ recycled \in [Ids -> Seq(Entities)] /\ cur \in [Ids -> 0 .. MaxId]
      /\ max_id \in 0 .. MaxId
  <2>1. RangeSet \subseteq Ids
    BY RangeSetIds
  <2>2. m \in Ids /\ active_range \in Ids
    BY <1>1, <2>1
  <2>3. /\ dense \in Seq(Entities) /\ records \in [Ids -> Nat] /\ alive_count \in Nat \ {0}
        /\ recycled \in [Ids -> Seq(Entities)] /\ cur \in [Ids -> 0 .. MaxId]
        /\ max_id \in 0 .. MaxId
    BY DEF TypeOK
  <2>4. alive_count <= Len(dense) + 1 /\ Agree(dense, records)
    BY DEF DenseRecordsAgree
  <2> QED  BY <2>1, <2>2, <2>3, <2>4, LenProperties
<1>40. alive_count \in Int /\ alive_count >= 1 /\ Len(dense) \in Int /\ alive_count <= Len(dense) + 1
  BY <1>2
<1>41. \A i \in 1 .. Len(dense) : dense[i].id \in Ids /\ records[dense[i].id] = i
  BY <1>2, ElementOfSeq, EntityFields DEF Agree
<1>42. \A d \in Ids : records[d] # 0 => records[d] \in 1 .. Len(dense) /\ dense[records[d]].id = d
  BY <1>2 DEF Agree
<1>43. \A d \in Ids : records[d] \in Int
  BY <1>2
<1>3. /\ dense' = keep \o load
      /\ records' = LoadedRecords(load)
      /\ recycled' = [r1 EXCEPT ![m] = <<>>]
      /\ cur' = [cur EXCEPT ![active_range] = max_id]
      /\ max_id' = cur'[m] /\ active_range' = m /\ issued' = {}
      /\ UNCHANGED <<alive_count, ranges, range_max, retired>>
  BY <1>1 DEF RangeSetActive, SavedCur
<1>4. /\ saved \in Seq(Entities) /\ Len(saved) = Len(dense) - alive_count + 1
      /\ DOMAIN saved = 1 .. Len(saved)
      /\ \A i \in 1 .. Len(saved) : saved[i] = dense[alive_count + i - 1]
  BY <1>2, SMTT(30) DEF SavedIds
<1>5. /\ keep \in Seq(Entities) /\ Len(keep) = alive_count - 1
      /\ \A i \in 1 .. alive_count - 1 : keep[i] = dense[i]
  BY <1>2
<1> HIDE DEF keep
<1>6. /\ r1 \in [Ids -> Seq(Entities)] /\ r1[active_range] = saved
      /\ \A n \in Ids : n # active_range => r1[n] = recycled[n]
      /\ load \in Seq(Entities) /\ DOMAIN load = 1 .. Len(load) /\ Len(load) \in Nat
  <2>1. r1 = [recycled EXCEPT ![active_range] = saved]
    BY <1>1 DEF SavedRecycled
  <2>2. /\ r1 \in [Ids -> Seq(Entities)] /\ r1[active_range] = saved
        /\ \A n \in Ids : n # active_range => r1[n] = recycled[n]
    BY <1>2, <1>4, <2>1
  <2> QED  BY <1>2, <2>2, LenProperties
<1> HIDE DEF saved, r1, load
<1>7. ASSUME NEW d \in Ids
      PROVE  Saved(d) <=> records[d] >= alive_count
  <2>1. ASSUME NEW i \in DOMAIN saved, saved[i].id = d
        PROVE  records[d] >= alive_count
    <3>1. i \in 1 .. Len(dense) - alive_count + 1
      BY <1>4
    <3>2. alive_count + i - 1 \in 1 .. Len(dense) /\ alive_count + i - 1 >= alive_count
      BY <1>40, <3>1
    <3>3. saved[i] = dense[alive_count + i - 1]
      BY <1>4
    <3> QED  BY <1>41, <2>1, <3>2, <3>3
  <2>2. ASSUME records[d] >= alive_count
        PROVE  Saved(d)
    <3>1. records[d] \in 1 .. Len(dense) /\ dense[records[d]].id = d
      BY <1>40, <1>42, <1>43, <2>2
    <3>2. /\ records[d] - alive_count + 1 \in 1 .. Len(dense) - alive_count + 1
          /\ alive_count + (records[d] - alive_count + 1) - 1 = records[d]
      BY <1>40, <2>2, <3>1
    <3> QED  BY <1>4, <3>1, <3>2
  <2> QED  BY <2>1, <2>2
<1>8. /\ \A i, j \in DOMAIN load : load[i].id = load[j].id => i = j
      /\ \A i \in DOMAIN load : load[i] \in Entities /\ load[i].id \in Ids
      /\ \A d \in Ids : Loaded(d) => IF m = active_range THEN Saved(d) ELSE records[d] = 0
  <2>1. CASE m = active_range
    <3>1. load = saved
      BY <1>6, <2>1 DEF load
    <3>2. ASSUME NEW i \in DOMAIN saved
          PROVE  records[saved[i].id] = alive_count + i - 1
      <4>1. i \in 1 .. Len(dense) - alive_count + 1
        BY <1>4
      <4>2. alive_count + i - 1 \in 1 .. Len(dense)
        BY <1>40, <4>1
      <4>3. saved[i] = dense[alive_count + i - 1]
        BY <1>4
      <4> QED  BY <1>41, <4>2, <4>3
    <3>3. \A i, j \in DOMAIN saved : saved[i].id = saved[j].id => i = j
      <4>1. \A i \in DOMAIN saved : i \in Int
        BY <1>4
      <4> QED  BY <1>40, <3>2, <4>1
    <3> QED  BY <1>6, <2>1, <3>1, <3>3, ElementOfSeq, EntityFields
  <2>2. CASE m # active_range
    <3>1. load = recycled[m]
      BY <1>2, <1>6, <2>2 DEF load
    <3>2. \A i \in DOMAIN load : load[i] \in Entities /\ load[i].id \in Ids
      BY <1>6, ElementOfSeq, EntityFields
    <3>3. \A i, j \in DOMAIN load : load[i].id = load[j].id => i = j
      BY <1>2, <3>1 DEF RecycledOnce
    <3>4. \A d \in Ids : Loaded(d) => records[d] = 0
      BY <1>2, <3>1 DEF RecycledOnce
    <3> QED  BY <2>2, <3>2, <3>3, <3>4
  <2> QED  BY <2>1, <2>2
<1>9. \A i \in DOMAIN load : LoadPosition(load, load[i].id) = i
  BY <1>6, <1>8 DEF LoadPosition
<1>10. ASSUME NEW d \in Ids
       PROVE  \/ \E i \in DOMAIN load : load[i].id = d /\ records'[d] = alive_count + i - 1
              \/ ~ Loaded(d) /\ Saved(d) /\ records'[d] = 0
              \/ ~ Loaded(d) /\ ~ Saved(d) /\ records'[d] = records[d]
  BY <1>3, <1>9 DEF LoadedRecords, saved
<1>11. /\ dense' \in Seq(Entities) /\ Len(dense') = alive_count - 1 + Len(load)
       /\ \A i \in 1 .. alive_count - 1 : dense'[i] = dense[i]
       /\ \A i \in DOMAIN load : dense'[alive_count + i - 1] = load[i]
  <2>1. /\ keep \o load \in Seq(Entities) /\ Len(keep \o load) = alive_count - 1 + Len(load)
        /\ \A i \in 1 .. alive_count - 1 + Len(load) : (keep \o load)[i] =
              IF i <= alive_count - 1 THEN keep[i] ELSE load[i - (alive_count - 1)]
    <3>1. /\ keep \o load \in Seq(Entities) /\ Len(keep \o load) = Len(keep) + Len(load)
          /\ \A i \in 1 .. Len(keep) + Len(load) : (keep \o load)[i] =
                IF i <= Len(keep) THEN keep[i] ELSE load[i - Len(keep)]
      BY <1>5, <1>6, ConcatProperties
    <3> QED  BY <1>5, <3>1
  <2>2. ASSUME NEW i \in DOMAIN load
        PROVE  (keep \o load)[alive_count + i - 1] = load[i]
    <3>1. /\ alive_count + i - 1 \in 1 .. alive_count - 1 + Len(load)
          /\ ~ (alive_count + i - 1 <= alive_count - 1)
          /\ alive_count + i - 1 - (alive_count - 1) = i
      <4>1. i \in 1 .. Len(load)
        BY <1>6
      <4> QED  BY <1>6, <1>40, <4>1
    <3> DEFINE k == alive_count + i - 1
    <3> HIDE DEF k
    <3>2. (keep \o load)[k] = load[k - (alive_count - 1)]
      BY <2>1, <3>1 DEF k
    <3>3. k = alive_count + i - 1
      BY DEF k
    <3>4. k - (alive_count - 1) = i
      <4>1. i \in Int /\ alive_count \in Int
        BY <1>6, <1>40
      <4> QED  BY <3>3, <4>1
    <3> QED  BY <3>2, <3>3, <3>4
  <2>3. \A i \in 1 .. alive_count - 1 : (keep \o load)[i] = dense[i]
    BY <1>2, <1>5, <1>6, <2>1
  <2> QED  BY <1>3, <2>1, <2>2, <2>3
<1>12. /\ recycled' \in [Ids -> Seq(Entities)] /\ recycled'[m] = <<>>
       /\ m # active_range => recycled'[active_range] = saved
       /\ \A n \in Ids : n # m /\ n # active_range => recycled'[n] = recycled[n]
  BY <1>2, <1>3, <1>6, EmptySeq
<1>13. /\ cur' \in [Ids -> 0 .. MaxId] /\ max_id' \in 0 .. MaxId
       /\ \A n \in Ids : LastIssued(n)' = LastIssued(n)
  BY <1>2, <1>3 DEF LastIssued
<1>14. RangeSet' = RangeSet /\ \A n, d : InRange(n, d)' <=> InRange(n, d)
  BY <1>3 DEF RangeSet, InRange
<1>15. \A i \in DOMAIN saved : saved[i].id \in Ids /\ InRange(active_range, saved[i].id)
  <2> SUFFICES ASSUME NEW i \in DOMAIN saved
               PROVE  saved[i].id \in Ids /\ InRange(active_range, saved[i].id)
    OBVIOUS
  <2>1. alive_count + i - 1 \in alive_count .. Len(dense)
    BY <1>4, <1>40
  <2> QED  BY <1>1, <1>4, <2>1, ElementOfSeq, EntityFields DEF RecycledInRange, InActiveRange
<1>16. \A i \in DOMAIN load : InRange(m, load[i].id)
  <2>1. m = active_range => load = saved
    BY <1>6 DEF load
  <2>2. m # active_range => load = recycled[m]
    BY <1>2, <1>6 DEF load
  <2> QED  BY <1>2, <1>15, <2>1, <2>2 DEF RecycledInRange
<1>17. records' \in [Ids -> Nat]
  <2>1. ASSUME NEW d \in Ids
        PROVE  records'[d] \in Nat
    <3>1. \A i \in DOMAIN load : alive_count + i - 1 \in Nat
      BY <1>6, <1>40
    <3>2. records[d] \in Nat
      BY <1>2
    <3> QED  BY <1>10, <3>1, <3>2
  <2> QED  BY <1>3, <2>1 DEF LoadedRecords
<1>18. alive_count - 1 + Len(load) \in Nat
  BY <1>6, <1>40
<1>21. TypeOK'
  <2>1. active_range' \in 0 .. MaxId
    BY <1>2, <1>3 DEF Ids
  <2>2. alive_count' \in Nat \ {0} /\ issued' \subseteq Entities
    BY <1>2, <1>3
  <2>3. ranges' \in Seq(Ids) /\ range_max' \in [Ids -> 0 .. MaxId] /\ retired' \subseteq Entities
    BY <1>3 DEF TypeOK
  <2> QED  BY <1>11, <1>12, <1>13, <1>17, <2>1, <2>2, <2>3 DEF TypeOK
<1>22. DenseRecordsAgree'
  <2>1. ASSUME NEW i \in 1 .. Len(dense')
        PROVE  records'[dense'[i].id] = i
    <3>1. CASE i <= alive_count - 1
      <4>1. i \in 1 .. alive_count - 1 /\ i \in 1 .. Len(dense) /\ i < alive_count /\ i # 0
        BY <1>40, <3>1
      <4>2. dense'[i] = dense[i] /\ dense[i].id \in Ids /\ records[dense[i].id] = i
        BY <1>11, <1>41, <4>1
      <4>3. ~ Saved(dense[i].id)
        BY <1>7, <1>40, <4>1, <4>2
      <4>4. ~ Loaded(dense[i].id)
        BY <1>8, <4>1, <4>2, <4>3
      <4> QED  BY <1>10, <4>2, <4>3, <4>4
    <3>2. CASE ~ (i <= alive_count - 1)
      <4>1. /\ i - alive_count + 1 \in 1 .. Len(load)
            /\ alive_count + (i - alive_count + 1) - 1 = i
        BY <1>6, <1>11, <1>40, <3>2
      <4>2. i - alive_count + 1 \in DOMAIN load
        BY <1>6, <4>1
      <4>3. dense'[i] = load[i - alive_count + 1] /\ dense'[i].id \in Ids
        BY <1>8, <1>11, <4>1, <4>2
      <4> QED  BY <1>8, <1>10, <4>1, <4>2, <4>3
    <3> QED  BY <3>1, <3>2
  <2>2. ASSUME NEW d \in Ids, records'[d] # 0
        PROVE  records'[d] \in 1 .. Len(dense') /\ dense'[records'[d]].id = d
    <3>1. ASSUME NEW i \in DOMAIN load, load[i].id = d, records'[d] = alive_count + i - 1
          PROVE  records'[d] \in 1 .. Len(dense') /\ dense'[records'[d]].id = d
      <4>1. i \in 1 .. Len(load)
        BY <1>6
      <4>2. alive_count + i - 1 \in 1 .. alive_count - 1 + Len(load)
        BY <1>6, <1>40, <4>1
      <4> QED  BY <1>11, <3>1, <4>2
    <3>2. ASSUME ~ Saved(d), records'[d] = records[d]
          PROVE  records'[d] \in 1 .. Len(dense') /\ dense'[records'[d]].id = d
      <4>1. records[d] \in 1 .. Len(dense) /\ dense[records[d]].id = d
        BY <1>42, <2>2, <3>2
      <4>2. records[d] < alive_count
        BY <1>7, <1>40, <1>43, <3>2
      <4>3. records[d] \in 1 .. alive_count - 1 /\ records[d] \in 1 .. alive_count - 1 + Len(load)
        BY <1>6, <1>40, <4>1, <4>2
      <4> QED  BY <1>11, <3>2, <4>1, <4>3
    <3> QED  BY <1>10, <2>2, <3>1, <3>2
  <2>3. alive_count' <= Len(dense') + 1
    BY <1>3, <1>6, <1>11, <1>40
  <2> QED  BY <2>1, <2>2, <2>3 DEF DenseRecordsAgree, Agree
\* Where a saved id is after the step: with the range that was active, or with
\* a range that the step does not concern.
<1> DEFINE New(n, i) == n = active_range /\ n # m /\ i \in DOMAIN saved
                          /\ recycled'[n][i] = saved[i]
           Old(n, i) == n # active_range /\ n # m /\ i \in DOMAIN recycled[n]
                          /\ recycled'[n][i] = recycled[n][i]
<1>19. \A n \in Ids : \A i \in DOMAIN recycled'[n] : New(n, i) \/ Old(n, i)
  BY <1>12
<1>20. /\ \A i \in DOMAIN saved : records[saved[i].id] = alive_count + i - 1
       /\ \A i \in DOMAIN saved : records[saved[i].id] # 0 /\ i \in Int
  <2> SUFFICES ASSUME NEW i \in DOMAIN saved
               PROVE  /\ records[saved[i].id] = alive_count + i - 1
                      /\ records[saved[i].id] # 0 /\ i \in Int
    OBVIOUS
  <2>1. i \in 1 .. Len(dense) - alive_count + 1
    BY <1>4
  <2>2. alive_count + i - 1 \in 1 .. Len(dense)
    BY <1>40, <2>1
  <2>3. saved[i] = dense[alive_count + i - 1]
    BY <1>4
  <2> QED  BY <1>41, <2>1, <2>2, <2>3
<1>23. RecycledOnce'
  <2>1. ASSUME NEW n \in Ids, NEW i \in DOMAIN recycled'[n]
        PROVE  records'[recycled'[n][i].id] = 0
    <3>1. CASE New(n, i)
      <4>1. saved[i].id \in Ids /\ Saved(saved[i].id) /\ records[saved[i].id] # 0
        BY <1>15, <1>20, <3>1
      <4>2. ~ Loaded(saved[i].id)
        BY <1>8, <3>1, <4>1
      <4> QED  BY <1>10, <3>1, <4>1, <4>2
    <3>2. CASE Old(n, i)
      <4>1. recycled[n][i].id \in Ids /\ records[recycled[n][i].id] = 0
        BY <3>2, SavedType DEF RecycledOnce
      <4>2. ~ Saved(recycled[n][i].id)
        BY <1>20, <4>1
      <4>3. ~ Loaded(recycled[n][i].id)
        <5>1. CASE m = active_range
          BY <1>8, <4>1, <4>2, <5>1
        <5>2. CASE m # active_range
          <6>1. load = recycled[m]
            BY <1>2, <1>6, <5>2 DEF load
          <6> QED  BY <1>2, <3>2, <6>1 DEF RecycledOnce
        <5> QED  BY <5>1, <5>2
      <4> QED  BY <1>10, <3>2, <4>1, <4>2, <4>3
    <3> QED  BY <1>19, <3>1, <3>2
  <2>2. ASSUME NEW n \in Ids, NEW i \in DOMAIN recycled'[n],
               NEW k \in Ids, NEW j \in DOMAIN recycled'[k],
               recycled'[k][j].id = recycled'[n][i].id
        PROVE  k = n /\ j = i
    <3>1. CASE Old(n, i) /\ Old(k, j)
      BY <2>2, <3>1 DEF RecycledOnce
    <3>2. CASE New(n, i) /\ New(k, j)
      BY <1>20, <1>40, <2>2, <3>2
    <3>3. CASE (New(n, i) /\ Old(k, j)) \/ (Old(n, i) /\ New(k, j))
      <4>1. \A x \in Ids : \A y \in DOMAIN recycled[x] : records[recycled[x][y].id] = 0
        BY DEF RecycledOnce
      <4> QED  BY <1>20, <2>2, <3>3, <4>1
    <3> QED  BY <1>19, <3>1, <3>2, <3>3
  <2> QED  BY <2>1, <2>2 DEF RecycledOnce
<1>24. RecycledInRange'
  <2>1. ASSUME NEW i \in alive_count' .. Len(dense')
        PROVE  InRange(m, dense'[i].id)
    <3>1. /\ i - alive_count + 1 \in 1 .. Len(load)
          /\ alive_count + (i - alive_count + 1) - 1 = i
      BY <1>3, <1>6, <1>11, <1>40
    <3>2. i - alive_count + 1 \in DOMAIN load
      BY <1>6, <3>1
    <3> QED  BY <1>11, <1>16, <3>1, <3>2
  <2>2. \A n \in Ids : \A i \in DOMAIN recycled'[n] :
           n \in RangeSet /\ InRange(n, recycled'[n][i].id)
    BY <1>1, <1>15, <1>19 DEF RecycledInRange
  <2> QED  BY <1>3, <1>14, <2>1, <2>2 DEF RecycledInRange, InActiveRange
<1>25. RangesDisjoint'
  <2>1. active_range' # 0 /\ RangeSet' # {}
    <3>1. m # 0
      BY <1>2 DEF Ids
    <3> QED  BY <1>3, <1>14, <3>1
  <2>2. \A n \in RangeSet' : range_max'[n] # 0 => n <= range_max'[n]
    BY <1>3, <1>14 DEF RangesDisjoint
  <2>3. \A k, n \in RangeSet' : \A d \in Ids : InRange(k, d)' /\ InRange(n, d)' => k = n
    BY <1>14 DEF RangesDisjoint
  <2> QED  BY <1>3, <1>12, <1>14, <2>1, <2>2, <2>3 DEF RangesDisjoint
<1>26. UsedBelowLast'
  <2>1. \A n \in RangeSet' : n - 1 <= LastIssued(n)'
    BY <1>2, <1>13, <1>14 DEF UsedBelowLast
  <2>2. ASSUME NEW d \in Ids, Exists(d)'
        PROVE  \E n \in RangeSet : InRange(n, d) /\ d <= LastIssued(n)
    <3>1. CASE records[d] # 0
      BY <1>1, <3>1 DEF UsedBelowLast, Exists
    <3>2. CASE records[d] = 0
      <4>1. PICK i \in DOMAIN load : load[i].id = d
        BY <1>10, <2>2, <3>2 DEF Exists
      <4>2. m # active_range
        <5>1. Loaded(d) /\ ~ (0 >= alive_count)
          BY <1>40, <4>1
        <5>2. ~ Saved(d)
          BY <1>7, <3>2, <5>1
        <5> QED  BY <1>8, <5>1, <5>2
      <4>3. load = recycled[m]
        BY <1>2, <1>6, <4>2 DEF load
      <4>4. InRange(m, d) /\ d <= LastIssued(m)
        BY <1>2, <1>16, <4>1, <4>3 DEF UsedBelowLast
      <4> QED  BY <4>4
    <3> QED  BY <3>1, <3>2
  <2>3. ASSUME NEW n \in Ids, NEW i \in DOMAIN recycled'[n]
        PROVE  recycled'[n][i].id <= LastIssued(n)
    <3>1. CASE New(n, i)
      <4>1. saved[i].id \in Ids /\ InRange(active_range, saved[i].id) /\ records[saved[i].id] # 0
        BY <1>15, <1>20, <3>1
      <4>2. PICK k \in RangeSet : InRange(k, saved[i].id) /\ saved[i].id <= LastIssued(k)
        BY <1>1, <4>1 DEF UsedBelowLast, Exists
      <4>3. k = active_range
        BY <1>1, <4>1, <4>2 DEF RangesDisjoint
      <4> QED  BY <3>1, <4>2, <4>3
    <3>2. CASE Old(n, i)
      BY <3>2 DEF UsedBelowLast
    <3> QED  BY <1>19, <3>1, <3>2
  <2>4. \A d \in Ids : Exists(d)' => \E n \in RangeSet' : InRange(n, d)' /\ d <= LastIssued(n)'
    BY <1>2, <1>13, <1>14, <2>2
  <2>5. \A n \in Ids : \A i \in DOMAIN recycled'[n] : recycled'[n][i].id <= LastIssued(n)'
    BY <1>13, <2>3
  <2>6. active_range' # 0
    BY <1>2, <1>3 DEF Ids
  <2> QED  BY <2>1, <2>4, <2>5, <2>6 DEF UsedBelowLast
<1>27. RetiredBehind'
  <2> SUFFICES ASSUME NEW h \in retired
               PROVE  \/ records'[h.id] # 0 /\ h.gen < dense'[records'[h.id]].gen
                      \/ \E n \in Ids : \E i \in DOMAIN recycled'[n] :
                            recycled'[n][i].id = h.id /\ h.gen < recycled'[n][i].gen
    BY <1>3 DEF RetiredBehind, Exists
  <2>1. h.id \in Ids
    BY EntityFields DEF TypeOK
  <2>2. ASSUME NEW i \in DOMAIN load, load[i].id = h.id
        PROVE  records'[h.id] # 0 /\ dense'[records'[h.id]] = load[i]
    <3>1. records'[h.id] = alive_count + i - 1
      BY <1>8, <1>10, <2>1, <2>2
    <3>2. i \in 1 .. Len(load)
      BY <1>6
    <3>3. alive_count + i - 1 # 0
      BY <1>40, <3>2
    <3> QED  BY <1>11, <3>1, <3>3
  <2>3. CASE records[h.id] # 0 /\ h.gen < dense[records[h.id]].gen
    <3>1. CASE Saved(h.id)
      <4>1. PICK i \in DOMAIN saved : saved[i].id = h.id
        BY <3>1
      <4>2. dense[records[h.id]] = saved[i]
        BY <1>4, <1>20, <4>1
      <4>3. CASE m = active_range
        <5>1. load = saved
          BY <1>6, <4>3 DEF load
        <5> QED  BY <2>2, <2>3, <4>1, <4>2, <5>1
      <4>4. CASE m # active_range
        <5>1. /\ active_range \in Ids /\ i \in DOMAIN recycled'[active_range]
              /\ recycled'[active_range][i] = saved[i]
          BY <1>2, <1>12, <4>4
        <5> QED  BY <2>3, <4>1, <4>2, <5>1
      <4> QED  BY <4>3, <4>4
    <3>2. CASE ~ Saved(h.id)
      <4>1. ~ Loaded(h.id)
        BY <1>8, <2>1, <2>3, <3>2
      <4>2. records'[h.id] = records[h.id]
        BY <1>10, <2>1, <3>2, <4>1
      <4>3. records[h.id] \in 1 .. Len(dense) /\ ~ (records[h.id] >= alive_count)
        BY <1>7, <1>42, <2>1, <2>3, <3>2
      <4>4. records[h.id] \in 1 .. alive_count - 1
        BY <1>40, <4>3
      <4> QED  BY <1>11, <2>3, <4>2, <4>4
    <3> QED  BY <3>1, <3>2
  <2>4. ASSUME NEW n \in Ids, NEW i \in DOMAIN recycled[n],
               recycled[n][i].id = h.id, h.gen < recycled[n][i].gen
        PROVE  \/ records'[h.id] # 0 /\ h.gen < dense'[records'[h.id]].gen
               \/ i \in DOMAIN recycled'[n] /\ recycled'[n][i] = recycled[n][i]
    <3>1. n # active_range
      BY <1>1, <2>4
    <3>2. CASE n = m
      <4>1. load = recycled[n]
        BY <1>2, <1>6, <3>1, <3>2 DEF load
      <4> QED  BY <2>2, <2>4, <4>1
    <3>3. CASE n # m
      BY <1>12, <3>1, <3>3, <2>4
    <3> QED  BY <3>2, <3>3
  <2> QED  BY <2>3, <2>4 DEF RetiredBehind, Exists
<1> QED  BY <1>21, <1>22, <1>23, <1>24, <1>25, <1>26, <1>27
-----------------------------------------------------------------------------
(***************************************************************************)
(* The theorems.                                                           *)
(***************************************************************************)
\* Every call on the index, and every step that leaves it alone, keeps IndInv.
LEMMA NextInv ==
    ASSUME IndInv, RangeDiscipline, [Next]_vars
    PROVE  IndInv'
<1>1. CASE NewRecycled
  BY <1>1, NewRecycledInv
<1>2. CASE NewFresh
  BY <1>2, NewFreshInv
<1>3. ASSUME NEW count \in 2 .. MaxBulk, NewIds(count) PROVE IndInv'
  BY <1>3, NewIdsRecycleInv, NewIdsFreshInv
<1>4. ASSUME NEW e \in Entities, Delete(e) PROVE IndInv'
  BY <1>4, DeleteActiveInv, DeleteInactiveInv
<1>5. ASSUME NEW e \in Entities, MakeAlive(e) PROVE IndInv'
  BY <1>5, MakeAliveInv
<1>6. ASSUME NEW e \in Entities, SetVersion(e) PROVE IndInv'
  BY <1>6, SetVersionInv
<1>7. ASSUME NEW min \in Ids, NEW max \in 0 .. MaxId, RangeNew(min, max) PROVE IndInv'
  <2>1. RangeNewFirst(min, max) \/ RangeNewNext(min, max)
    BY <1>7 DEF RangeNew
  <2> QED  BY <1>7, <2>1, RangeNewFirstInv, RangeNewNextInv
<1>8. ASSUME NEW m \in RangeSet, RangeSetActive(m) PROVE IndInv'
  BY <1>8, RangeSetInv
<1>9. CASE UNCHANGED vars
  BY <1>9 DEF vars, IndInv, TypeOK, DenseRecordsAgree, Agree, RecycledOnce, RecycledInRange,
     RangesDisjoint, UsedBelowLast, RetiredBehind, RangeSet, InRange, InActiveRange, Exists,
     LastIssued
<1> QED  BY <1>1, <1>2, <1>3, <1>4, <1>5, <1>6, <1>7, <1>8, <1>9 DEF Next

\* As long as bulk creation and ecs_make_alive stay in the active range, IndInv
\* holds in every state.
THEOREM IndInvHolds ==
    ASSUME RangeDiscipline
    PROVE  Spec => []IndInv
<1>1. Init => IndInv
  BY InitInv
<1>2. IndInv /\ [Next]_vars => IndInv'
  BY NextInv
<1> QED  BY <1>1, <1>2, PTL DEF Spec

\* Every field of the index has its type in every state.
THEOREM TypeCorrect ==
    ASSUME RangeDiscipline
    PROVE  Spec => []TypeOK
<1>1. IndInv => TypeOK
  BY DEF IndInv
<1> QED  BY <1>1, IndInvHolds, PTL

\* Through any number of swaps, drops and reloads of a range, every slot of dense
\* and every record point at each other.
THEOREM DenseAndRecordsAgree ==
    ASSUME RangeDiscipline
    PROVE  Spec => []DenseRecordsAgree
<1>1. IndInv => DenseRecordsAgree
  BY DEF IndInv
<1> QED  BY <1>1, IndInvHolds, PTL

\* An id that is saved with a range waits in one place only, whatever ranges are
\* created, activated and deleted from.
THEOREM RecycledIdsKeptApart ==
    ASSUME RangeDiscipline
    PROVE  Spec => []RecycledOnce
<1>1. IndInv => RecycledOnce
  BY DEF IndInv
<1> QED  BY <1>1, IndInvHolds, PTL

\* The assertion "new entity id already in use" of new_id and new_ids never fails.
THEOREM FreshIdsAreUnused ==
    ASSUME RangeDiscipline
    PROVE  Spec => []FreshIdUnused
<1>1. IndInv => FreshIdUnused
  BY FreshUnused DEF FreshIdUnused, Exists
<1> QED  BY <1>1, IndInvHolds, PTL

\* A deleted handle is never alive again before the generation of its id wraps.
THEOREM DeletedStaysDead ==
    ASSUME RangeDiscipline
    PROVE  Spec => []NoResurrection
<1>1. ASSUME IndInv, NEW h \in retired, IsAlive(h)
      PROVE  FALSE
  <2>1. h.gen \in Int /\ records[h.id] # 0 /\ dense[records[h.id]] = h
    BY <1>1, EntityFields DEF IndInv, TypeOK, IsAlive, Exists, Gens
  <2>2. ~ (h.gen < dense[records[h.id]].gen)
    BY <2>1
  <2>3. \A m \in Ids : \A i \in DOMAIN recycled[m] : recycled[m][i].id # h.id
    BY <1>1, <2>1 DEF IndInv, RecycledOnce
  <2> QED  BY <1>1, <2>2, <2>3 DEF IndInv, RetiredBehind
<1>2. IndInv => NoResurrection
  BY <1>1 DEF NoResurrection
<1> QED  BY <1>2, IndInvHolds, PTL
-----------------------------------------------------------------------------
(***************************************************************************)
(* The binary search of flecs_entity_index_find_range.                     *)
(***************************************************************************)
RangesSorted == \A i, j \in DOMAIN ranges : i < j => ranges[i] < ranges[j]

\* The range at the positions w[1] to w[2] that holds d, 0 if there is none.
Holder(d, w) ==
    IF \E i \in w[1] .. w[2] : InRange(ranges[i], d)
      THEN ranges[CHOOSE i \in w[1] .. w[2] : InRange(ranges[i], d)] ELSE 0

\* The search is right for all windows of up to n positions.
SearchInv(d, search, n) ==
    \A w \in Windows : w[2] - w[1] + 1 <= n => search[w] = Holder(d, w)

Searches == INSTANCE Induction WITH Step <- SearchStep, Inv <- SearchInv

\* Two windows with the same positions that hold d have the same holder.
LEMMA SameHolder ==
    ASSUME NEW d, NEW v, NEW w,
           \A i : i \in w[1] .. w[2] /\ InRange(ranges[i], d)
                    <=> i \in v[1] .. v[2] /\ InRange(ranges[i], d)
    PROVE  Holder(d, v) = Holder(d, w)
<1> DEFINE P(i) == i \in w[1] .. w[2] /\ InRange(ranges[i], d)
           Q(i) == i \in v[1] .. v[2] /\ InRange(ranges[i], d)
<1>1. \A i : P(i) <=> Q(i)
  OBVIOUS
<1>2. (CHOOSE i : P(i)) = (CHOOSE i : Q(i))
  <2> HIDE DEF P, Q
  <2> QED  BY <1>1
<1>3. (CHOOSE i \in w[1] .. w[2] : InRange(ranges[i], d)) = CHOOSE i : P(i)
  OBVIOUS
<1>4. (CHOOSE i \in v[1] .. v[2] : InRange(ranges[i], d)) = CHOOSE i : Q(i)
  OBVIOUS
<1>5. (\E i \in w[1] .. w[2] : InRange(ranges[i], d)) <=> (\E i \in v[1] .. v[2] : InRange(ranges[i], d))
  OBVIOUS
<1> QED  BY <1>2, <1>3, <1>4, <1>5 DEF Holder

\* A range that is inserted behind those that start at or below it, and starts
\* at none of them, leaves the vector sorted.
LEMMA InsertSorted ==
    ASSUME NEW s \in Seq(Ids), NEW m \in Ids,
           \A i, j \in DOMAIN s : i < j => s[i] < s[j],
           \A i \in DOMAIN s : s[i] # m
    PROVE  \A i, j \in DOMAIN Insert(s, m) : i < j => Insert(s, m)[i] < Insert(s, m)[j]
<1> DEFINE P == {i \in DOMAIN s : s[i] <= m}
           n == Cardinality(P)
           left == SubSeq(s, 1, n)
           right == SubSeq(s, n + 1, Len(s))
           t == left \o <<m>>
           u == t \o right
<1>1. /\ Len(s) \in Nat /\ DOMAIN s = 1 .. Len(s) /\ \A i \in 1 .. Len(s) : s[i] \in Int
      /\ m \in Int
  BY DEF Ids
<1>2. \E k \in 0 .. Len(s) : P = 1 .. k
  <2>1. CASE P = {}
    BY <1>1, <2>1
  <2>2. CASE P # {}
    <3>1. P \in SUBSET (1 .. Len(s))
      BY <1>1
    <3>2. PICK k \in P : \A y \in P : y <= k
      <4> HIDE DEF P
      <4> QED  BY <1>1, <2>2, <3>1, Searches!GreatestNumber
    <3>3. k \in 1 .. Len(s) /\ s[k] <= m
      BY <1>1, <3>2
    <3>4. ASSUME NEW i \in 1 .. k
          PROVE  i \in P
      <4>1. i \in DOMAIN s /\ (i = k \/ s[i] < s[k]) /\ s[i] \in Int /\ s[k] \in Int
        BY <1>1, <3>3
      <4> QED  BY <1>1, <3>3, <4>1
    <3>5. \A i \in P : i \in 1 .. k
      BY <1>1, <3>2
    <3> QED  BY <3>3, <3>4, <3>5
  <2> QED  BY <2>1, <2>2
<1>3. n \in 0 .. Len(s) /\ P = 1 .. n
  <2>1. PICK k \in 0 .. Len(s) : P = 1 .. k
    BY <1>2
  <2>2. Cardinality(1 .. k) = k
    <3>1. Cardinality(1 .. k) = IF 1 > k THEN 0 ELSE k - 1 + 1
      BY <1>1, <2>1, FS_Interval
    <3> QED  BY <1>1, <3>1
  <2> HIDE DEF P
  <2> QED  BY <2>1, <2>2
<1>4. Insert(s, m) = u
  BY DEF Insert
<1> HIDE DEF n
<1>5. /\ \A i \in 1 .. n : s[i] <= m
      /\ \A i \in 1 .. Len(s) : i > n => s[i] > m
  <2>1. \A i \in 1 .. n : i \in P
    BY <1>3
  <2>2. \A i \in 1 .. Len(s) : i > n => i \notin P
    <3> HIDE DEF P
    <3> QED  BY <1>1, <1>3
  <2> QED  BY <1>1, <2>1, <2>2
<1> HIDE DEF P
<1>0. n \in 0 .. Len(s)
  BY <1>3
<1>6. /\ left \in Seq(Ids) /\ Len(left) = n
      /\ \A i \in 1 .. n : left[i] = s[i]
  BY <1>0
<1>7. /\ right \in Seq(Ids) /\ Len(right) = Len(s) - n
      /\ \A i \in 1 .. Len(s) - n : right[i] = s[n + i]
  BY <1>0
<1> HIDE DEF left, right
<1>8. /\ t \in Seq(Ids) /\ Len(t) = n + 1
      /\ \A i \in 1 .. n : t[i] = s[i]
      /\ t[n + 1] = m
  BY <1>3, <1>6
<1> HIDE DEF t
<1>9. /\ u \in Seq(Ids) /\ Len(u) = Len(s) + 1
      /\ \A i \in 1 .. Len(s) + 1 : u[i] = IF i <= n + 1 THEN t[i] ELSE right[i - (n + 1)]
  BY <1>3, <1>7, <1>8, ConcatProperties
<1> HIDE DEF u
<1>10. ASSUME NEW i \in 1 .. Len(s) + 1
       PROVE  u[i] = IF i <= n THEN s[i] ELSE IF i = n + 1 THEN m ELSE s[i - 1]
  <2>1. CASE i <= n
    <3>1. i \in 1 .. n
      BY <1>1, <1>3, <2>1
    <3> QED  BY <1>1, <1>3, <1>8, <1>9, <2>1, <3>1
  <2>2. CASE i = n + 1
    BY <1>1, <1>3, <1>8, <1>9, <2>2
  <2>3. CASE i > n + 1
    <3>1. i - (n + 1) \in 1 .. Len(s) - n /\ n + (i - (n + 1)) = i - 1
      BY <1>1, <1>3, <2>3
    <3>2. u[i] = right[i - (n + 1)]
      BY <1>1, <1>3, <1>9, <2>3
    <3>3. right[i - (n + 1)] = s[n + (i - (n + 1))]
      BY <1>7, <3>1
    <3> QED  BY <1>0, <1>1, <2>3, <3>1, <3>2, <3>3
  <2> QED  BY <1>1, <1>3, <2>1, <2>2, <2>3
<1>11. ASSUME NEW i \in 1 .. Len(s) + 1, NEW j \in 1 .. Len(s) + 1, i < j
       PROVE  u[i] < u[j]
  <2>1. CASE j <= n
    <3>1. i \in DOMAIN s /\ j \in DOMAIN s /\ i <= n
      BY <1>1, <1>3, <1>11, <2>1
    <3> QED  BY <1>10, <1>11, <2>1, <3>1
  <2>2. CASE j = n + 1
    <3>1. i \in 1 .. n /\ i \in DOMAIN s /\ i <= n /\ ~ (j <= n) /\ s[i] \in Int
      BY <1>1, <1>3, <1>11, <2>2
    <3>2. s[i] <= m /\ s[i] # m
      BY <1>5, <3>1
    <3> QED  BY <1>1, <1>10, <2>2, <3>1, <3>2
  <2>3. CASE j > n + 1
    <3>1. j - 1 \in 1 .. Len(s) /\ j - 1 > n /\ ~ (j <= n) /\ j # n + 1 /\ s[j - 1] \in Int
      BY <1>1, <1>3, <1>11, <2>3
    <3>2. u[j] = s[j - 1] /\ s[j - 1] > m
      BY <1>5, <1>10, <3>1
    <3>3. CASE i <= n
      <4>1. i \in 1 .. n /\ i \in DOMAIN s /\ s[i] \in Int
        BY <1>1, <1>3, <3>3
      <4> QED  BY <1>1, <1>5, <1>10, <3>1, <3>2, <3>3, <4>1
    <3>4. CASE i = n + 1
      <4>1. u[i] = m
        BY <1>1, <1>3, <1>10, <3>4
      <4> QED  BY <1>1, <3>1, <3>2, <4>1
    <3>5. CASE i > n + 1
      <4>1. i - 1 \in DOMAIN s /\ j - 1 \in DOMAIN s /\ i - 1 < j - 1
        BY <1>1, <1>3, <1>11, <3>1, <3>5
      <4>2. u[i] = s[i - 1]
        BY <1>1, <1>3, <1>10, <3>5
      <4> QED  BY <3>2, <4>1, <4>2
    <3> QED  BY <1>1, <1>3, <3>3, <3>4, <3>5
  <2> QED  BY <1>1, <1>3, <2>1, <2>2, <2>3
<1>12. DOMAIN u = 1 .. Len(s) + 1
  BY <1>1, <1>9
<1> QED  BY <1>4, <1>11, <1>12

\* The vector of ranges stays sorted: ecs_entity_range_new refuses a range that
\* starts where another one does.
LEMMA SortedStep ==
    ASSUME IndInv, RangesSorted, [Next]_vars
    PROVE  RangesSorted'
<1>1. CASE UNCHANGED ranges
  BY <1>1 DEF RangesSorted
<1>2. ASSUME NEW min \in Ids, NEW max \in 0 .. MaxId, RangeNew(min, max)
      PROVE  RangesSorted'
  <2>1. CASE RangeNewFirst(min, max)
    <3>1. min \in Int /\ min >= 1
      BY DEF Ids
    <3>2. ranges' = <<1>> \/ (ranges' = <<1, min>> /\ min > 1)
      BY <2>1, <3>1 DEF RangeNewFirst
    <3>3. CASE ranges' = <<1>>
      BY <3>3 DEF RangesSorted
    <3>4. CASE ranges' = <<1, min>> /\ min > 1
      BY <3>4 DEF RangesSorted
    <3> QED  BY <3>2, <3>3, <3>4
  <2>2. CASE RangeNewNext(min, max)
    <3>1. ranges' = Insert(ranges, min) /\ \A m \in RangeSet : ~ Overlap(m, range_max[m], min, max)
      BY <2>2 DEF RangeNewNext
    <3>2. ranges \in Seq(Ids) /\ range_max \in [Ids -> 0 .. MaxId] /\ RangeSet \subseteq Ids
      BY RangeSetIds DEF IndInv, TypeOK
    <3>3. min \notin RangeSet
      <4>1. max # 0 => max >= min
        BY <1>2 DEF RangeNew
      <4>2. \A m \in RangeSet : range_max[m] # 0 => m <= range_max[m]
        BY DEF IndInv, RangesDisjoint
      <4> QED  BY <3>1, <4>1, <4>2 DEF Overlap
    <3>4. \A i \in DOMAIN ranges : ranges[i] # min
      BY <3>3 DEF RangeSet
    <3>5. \A i, j \in DOMAIN Insert(ranges, min) :
             i < j => Insert(ranges, min)[i] < Insert(ranges, min)[j]
      <4>1. \A i, j \in DOMAIN ranges : i < j => ranges[i] < ranges[j]
        BY DEF RangesSorted
      <4> QED  BY <3>2, <3>4, <4>1, InsertSorted, Zenon
    <3> QED  BY <3>1, <3>5 DEF RangesSorted
  <2> QED  BY <1>2, <2>1, <2>2 DEF RangeNew
<1>3. UNCHANGED ranges \/ \E min \in Ids, max \in 0 .. MaxId : RangeNew(min, max)
  BY DEF Next, vars, rangeVars, NewRecycled, NewFresh, NewIds, Delete, MakeAlive, SetVersion,
         RangeSetActive
<1> QED  BY <1>1, <1>2, <1>3

\* In a sorted vector of ranges that do not overlap, a range that ends before d,
\* and all ranges before it, do not hold d; nor does one that starts after d, nor
\* those behind it.
LEMMA OneSide ==
    ASSUME IndInv, RangesSorted, NEW d \in Ids, NEW mid \in DOMAIN ranges, NEW i \in DOMAIN ranges
    PROVE  /\ d < ranges[mid] /\ mid <= i => ~ InRange(ranges[i], d)
           /\ range_max[ranges[mid]] # 0 /\ d > range_max[ranges[mid]] /\ i <= mid
              => ~ InRange(ranges[i], d)
<1> DEFINE m == ranges[mid]
           r == ranges[i]
<1>1. /\ m \in RangeSet /\ r \in RangeSet /\ m \in Ids /\ r \in Ids
      /\ range_max[m] \in Int /\ range_max[r] \in Int /\ m \in Int /\ r \in Int /\ d \in Int
      /\ mid \in Int /\ i \in Int
  <2>1. m \in RangeSet /\ r \in RangeSet
    BY DEF RangeSet
  <2>2. m \in Ids /\ r \in Ids /\ range_max \in [Ids -> 0 .. MaxId] /\ ranges \in Seq(Ids)
    BY <2>1, RangeSetIds DEF IndInv, TypeOK
  <2>3. mid \in Int /\ i \in Int
    BY <2>2
  <2> HIDE DEF m, r
  <2>4. range_max[m] \in 0 .. MaxId /\ range_max[r] \in 0 .. MaxId
    BY <2>2
  <2> QED  BY <2>1, <2>2, <2>3, <2>4 DEF Ids
<1>2. /\ mid < i => m < r
      /\ i < mid => r < m
      /\ i = mid => r = m
  BY DEF RangesSorted
<1>3. /\ range_max[m] # 0 => m <= range_max[m]
      /\ \A x \in Ids : InRange(m, x) /\ InRange(r, x) => m = r
  BY <1>1 DEF IndInv, RangesDisjoint
<1> HIDE DEF m, r
<1>4. ASSUME d < m, mid <= i
      PROVE  ~ InRange(r, d)
  BY <1>1, <1>2, <1>4 DEF InRange
<1>5. ASSUME range_max[m] # 0, d > range_max[m], i <= mid, InRange(r, d)
      PROVE  FALSE
  <2>1. r < m
    BY <1>1, <1>2, <1>5 DEF InRange
  <2>2. InRange(m, m) /\ InRange(r, m)
    BY <1>1, <1>3, <1>5, <2>1 DEF InRange
  <2> QED  BY <1>1, <1>3, <2>1, <2>2
<1> QED  BY <1>4, <1>5 DEF m, r

\* A turn of the loop finds what the rest of the loop finds, if that is right for
\* smaller windows.
LEMMA TurnFinds ==
    ASSUME IndInv, RangesSorted, NEW d \in Ids, NEW search, NEW w \in Windows,
           \A v \in Windows : v[2] - v[1] < w[2] - w[1] => search[v] = Holder(d, v)
    PROVE  SearchStep(d, search, w) = Holder(d, w)
<1> DEFINE lo == w[1]
           hi == w[2]
           mid == (lo + hi) \div 2
           m == ranges[mid]
<1>1. Len(ranges) \in Nat /\ DOMAIN ranges = 1 .. Len(ranges)
  BY DEF IndInv, TypeOK
<1>2. lo \in 1 .. Len(ranges) + 1 /\ hi \in 0 .. Len(ranges)
  BY DEF Windows
<1>3. CASE lo > hi
  <2>1. SearchStep(d, search, w) = 0
    BY <1>3 DEF SearchStep
  <2>2. ~ \E i \in lo .. hi : TRUE
    BY <1>1, <1>2, <1>3
  <2> QED  BY <2>1, <2>2 DEF Holder
<1>4. CASE lo <= hi
  <2>1. mid \in lo .. hi /\ mid \in DOMAIN ranges /\ mid \in Int
    BY <1>1, <1>2, <1>4
  <2> HIDE DEF mid
  <2>2. ASSUME d < m
        PROVE  SearchStep(d, search, w) = Holder(d, w)
    <3> DEFINE v == <<lo, mid - 1>>
    <3>1. v \in Windows /\ v[2] - v[1] < hi - lo /\ v[1] = lo /\ v[2] = mid - 1
      BY <1>1, <1>2, <2>1 DEF Windows
    <3>2. \A i \in lo .. hi : i \in lo .. mid - 1 \/ ~ InRange(ranges[i], d)
      <4>1. ASSUME NEW i \in lo .. hi, i >= mid
            PROVE  ~ InRange(ranges[i], d)
        <5>1. i \in DOMAIN ranges
          BY <1>1, <1>2
        <5> QED  BY <2>1, <2>2, <4>1, <5>1, OneSide
      <4> QED  BY <1>1, <1>2, <2>1, <4>1
    <3>3. \A i \in lo .. mid - 1 : i \in lo .. hi
      BY <1>1, <1>2, <2>1
    <3>4. Holder(d, v) = Holder(d, w)
      <4>1. \A i : i \in lo .. hi /\ InRange(ranges[i], d)
                     <=> i \in lo .. mid - 1 /\ InRange(ranges[i], d)
        BY <3>2, <3>3
      <4> QED  BY <3>1, <4>1, SameHolder
    <3>5. SearchStep(d, search, w) = search[v]
      BY <1>1, <1>2, <1>4, <2>2 DEF SearchStep, mid
    <3> QED  BY <3>1, <3>4, <3>5
  <2>3. ASSUME ~ (d < m), range_max[m] # 0, d > range_max[m]
        PROVE  SearchStep(d, search, w) = Holder(d, w)
    <3> DEFINE v == <<mid + 1, hi>>
    <3>1. v \in Windows /\ v[2] - v[1] < hi - lo /\ v[1] = mid + 1 /\ v[2] = hi
      BY <1>1, <1>2, <2>1 DEF Windows
    <3>2. \A i \in lo .. hi : i \in mid + 1 .. hi \/ ~ InRange(ranges[i], d)
      <4>1. ASSUME NEW i \in lo .. hi, i <= mid
            PROVE  ~ InRange(ranges[i], d)
        <5>1. i \in DOMAIN ranges
          BY <1>1, <1>2
        <5> QED  BY <2>1, <2>3, <4>1, <5>1, OneSide
      <4> QED  BY <1>1, <1>2, <2>1, <4>1
    <3>3. \A i \in mid + 1 .. hi : i \in lo .. hi
      BY <1>1, <1>2, <2>1
    <3>4. Holder(d, v) = Holder(d, w)
      <4>1. \A i : i \in lo .. hi /\ InRange(ranges[i], d)
                     <=> i \in mid + 1 .. hi /\ InRange(ranges[i], d)
        BY <3>2, <3>3
      <4> QED  BY <3>1, <4>1, SameHolder
    <3>5. SearchStep(d, search, w) = search[v]
      BY <1>1, <1>2, <1>4, <2>3 DEF SearchStep, mid
    <3> QED  BY <3>1, <3>4, <3>5
  <2>4. ASSUME ~ (d < m), ~ (range_max[m] # 0 /\ d > range_max[m])
        PROVE  SearchStep(d, search, w) = Holder(d, w)
    <3>1. SearchStep(d, search, w) = m
      BY <1>1, <1>2, <1>4, <2>4 DEF SearchStep, mid
    <3>2. m \in RangeSet /\ m \in Ids
      <4>1. m \in RangeSet
        BY <2>1 DEF RangeSet
      <4> QED  BY <4>1, RangeSetIds DEF IndInv
    <3>3. InRange(m, d)
      <4>1. m \in Int /\ d \in Int /\ range_max[m] \in Int
        <5>1. range_max[m] \in 0 .. MaxId
          BY <3>2 DEF IndInv, TypeOK
        <5> QED  BY <3>2, <5>1 DEF Ids
      <4> QED  BY <2>4, <4>1 DEF InRange
    <3>4. PICK i \in lo .. hi : /\ i = CHOOSE k \in lo .. hi : InRange(ranges[k], d)
                                /\ InRange(ranges[i], d)
      BY <2>1, <3>3
    <3>5. ranges[i] = m
      <4>1. i \in DOMAIN ranges
        BY <1>1, <1>2, <3>4
      <4>2. ranges[i] \in RangeSet
        BY <4>1 DEF RangeSet
      <4> QED  BY <3>2, <3>3, <3>4, <4>2 DEF IndInv, RangesDisjoint
    <3> QED  BY <2>1, <3>1, <3>3, <3>4, <3>5 DEF Holder
  <2> QED  BY <2>2, <2>3, <2>4
<1> QED  BY <1>1, <1>2, <1>3, <1>4

\* The function that BinarySearch defines recursively, for a window.
SearchFcn(d, search) == [w \in Windows |-> SearchStep(d, search, w)]

\* The loop finds the range: a function that does so satisfies the recursive
\* equation, and every function that satisfies it does so, by induction on the size
\* of the window.
LEMMA SearchRight ==
    ASSUME IndInv, RangesSorted, NEW d \in Ids
    PROVE  BinarySearch(d) = Holder(d, <<1, Len(ranges)>>)
<1> DEFINE F(f) == SearchFcn(d, f)
           n == Len(ranges)
           found == [w \in Windows |-> Holder(d, w)]
           search == CHOOSE f : f = F(f)
<1>1. n \in Nat
  BY DEF IndInv, TypeOK
<1>2. found = F(found)
  <2>1. ASSUME NEW w \in Windows
        PROVE  SearchStep(d, found, w) = Holder(d, w)
    <3>1. \A v \in Windows : found[v] = Holder(d, v)
      OBVIOUS
    <3> HIDE DEF found
    <3> QED  BY <3>1, TurnFinds
  <2> QED  BY <2>1 DEF SearchFcn
<1>3. search = F(search)
  <2> HIDE DEF F, found
  <2> QED  BY <1>2
<1>4. BinarySearch(d) = search[<<1, n>>]
  BY DEF BinarySearch, SearchFcn
<1> HIDE DEF search, found
<1>5. \A w \in Windows : search[w] = SearchStep(d, search, w)
  <2>1. \A w \in Windows : F(search)[w] = SearchStep(d, search, w)
    BY DEF SearchFcn
  <2> HIDE DEF F
  <2> QED  BY <1>3, <2>1
<1>6. ASSUME NEW k \in 0 .. n, \A v \in Windows : v[2] - v[1] + 1 < k => search[v] = Holder(d, v)
      PROVE  SearchInv(d, search, k)
  <2> SUFFICES ASSUME NEW w \in Windows, w[2] - w[1] + 1 <= k
               PROVE  search[w] = Holder(d, w)
    BY DEF SearchInv
  <2>1. w[1] \in Int /\ w[2] \in Int
    BY <1>1 DEF Windows
  <2>2. ASSUME NEW v \in Windows, v[2] - v[1] < w[2] - w[1]
        PROVE  search[v] = Holder(d, v)
    <3>1. v[1] \in Int /\ v[2] \in Int
      BY <1>1 DEF Windows
    <3>2. v[2] - v[1] + 1 < k
      <4>1. k \in Int /\ w[2] - w[1] + 1 <= k
        BY <1>1
      <4>2. \A a, b, x, y \in Int : a - b < x - y /\ x - y + 1 <= k => a - b + 1 < k
        BY <4>1
      <4> QED  BY <2>1, <2>2, <3>1, <4>1, <4>2
    <3> QED  BY <1>6, <3>2
  <2> QED  BY <1>5, <2>2, TurnFinds
<1> DEFINE g == [k \in 0 .. n |-> search]
<1>7. SearchInv(d, g[0], 0)
  <2>1. ASSUME NEW v \in Windows, v[2] - v[1] + 1 < 0
        PROVE  search[v] = Holder(d, v)
    <3>1. v[1] \in Int /\ v[2] \in Int
      BY <1>1 DEF Windows
    <3>2. ~ \E i \in v[1] .. v[2] : TRUE
      BY <2>1, <3>1
    <3>3. v[1] > v[2]
      BY <2>1, <3>1
    <3> QED  BY <1>5, <3>2, <3>3 DEF SearchStep, Holder
  <2> QED  BY <1>1, <1>6, <2>1
<1>8. \A k \in 1 .. n : SearchInv(d, g[k - 1], k - 1) => SearchInv(d, g[k], k)
  <2> SUFFICES ASSUME NEW k \in 1 .. n, SearchInv(d, search, k - 1)
               PROVE  SearchInv(d, search, k)
    BY <1>1
  <2>1. ASSUME NEW v \in Windows, v[2] - v[1] + 1 < k
        PROVE  search[v] = Holder(d, v)
    <3>1. v[1] \in Int /\ v[2] \in Int
      BY <1>1 DEF Windows
    <3>2. v[2] - v[1] + 1 <= k - 1
      BY <1>1, <2>1, <3>1
    <3> QED  BY <3>2 DEF SearchInv
  <2> QED  BY <1>1, <1>6, <2>1
<1>9. SearchInv(d, g[n], n)
  <2>1. \A k \in 0 .. n : SearchInv(d, g[k], k)
    <3> HIDE DEF g, n
    <3> QED  BY <1>1, <1>7, <1>8, Searches!Upwards
  <2> QED  BY <1>1, <2>1
<1>10. <<1, n>> \in Windows /\ <<1, n>>[2] - <<1, n>>[1] + 1 <= n
  BY <1>1 DEF Windows
<1> QED  BY <1>1, <1>4, <1>9, <1>10 DEF SearchInv

\* flecs_entity_index_find_range, the binary search by which ecs_delete finds the
\* list for an id, returns the range of every id for any ranges, created in any
\* order, and no id is in two ranges.
THEOREM SearchIsRight ==
    ASSUME RangeDiscipline
    PROVE  Spec => []SearchFindsRange
<1>1. Init => RangesSorted
  BY DEF Init, RangesSorted
<1>2. IndInv /\ RangesSorted /\ [Next]_vars => RangesSorted'
  BY SortedStep
<1>3. ASSUME IndInv, RangesSorted
      PROVE  SearchFindsRange
  <2>1. \A d \in Ids, m, n \in RangeSet : InRange(m, d) /\ InRange(n, d) => m = n
    BY <1>3 DEF IndInv, RangesDisjoint
  <2>2. ASSUME NEW d \in Ids
        PROVE  BinarySearch(d) = FindRange(d)
    <3> DEFINE w == <<1, Len(ranges)>>
    <3>1. RangeSet = {ranges[i] : i \in w[1] .. w[2]}
      <4>1. w[1] = 1 /\ w[2] = Len(ranges) /\ DOMAIN ranges = 1 .. Len(ranges)
        BY <1>3 DEF IndInv, TypeOK
      <4> QED  BY <4>1 DEF RangeSet
    <3>2. Holder(d, w) = FindRange(d)
      <4> HIDE DEF w
      <4>1. CASE \E i \in w[1] .. w[2] : InRange(ranges[i], d)
        <5>1. Holder(d, w) \in RangeSet /\ InRange(Holder(d, w), d)
          <6>1. PICK i \in w[1] .. w[2] : /\ i = CHOOSE k \in w[1] .. w[2] : InRange(ranges[k], d)
                                          /\ InRange(ranges[i], d)
            BY <4>1
          <6>2. Holder(d, w) = ranges[i]
            BY <4>1, <6>1 DEF Holder
          <6> QED  BY <3>1, <6>1, <6>2
        <5>2. FindRange(d) \in RangeSet /\ InRange(FindRange(d), d)
          BY <5>1 DEF FindRange
        <5> QED  BY <2>1, <5>1, <5>2
      <4>2. CASE ~ \E i \in w[1] .. w[2] : InRange(ranges[i], d)
        <5>1. ~ \E m \in RangeSet : InRange(m, d)
          BY <3>1, <4>2
        <5> QED  BY <4>2, <5>1 DEF Holder, FindRange
      <4> QED  BY <4>1, <4>2
    <3> QED  BY <1>3, <3>2, SearchRight
  <2> QED  BY <2>1, <2>2 DEF SearchFindsRange
<1> QED  BY <1>1, <1>2, <1>3, IndInvHolds, PTL DEF Spec
-----------------------------------------------------------------------------
(***************************************************************************)
(* The index implements EntityHandles.                                     *)
(***************************************************************************)
\* The slots below b are those below a and those from a on.
LEMMA SlotSplit ==
    ASSUME NEW a \in Nat \ {0}, NEW b \in Nat \ {0}
    PROVE  /\ \A n \in Nat : b - 1 <= n => \A i \in 1 .. b - 1 : i \in 1 .. n
           /\ a <= b =>
                /\ \A i \in a .. b - 1 : i \in 1 .. b - 1
                /\ \A i \in 1 .. a - 1 : i \in 1 .. b - 1
                /\ \A i \in 1 .. a - 1, j \in a .. b - 1 : i # j
                /\ \A i \in 1 .. b - 1 : i \in 1 .. a - 1 \/ i \in a .. b - 1
OBVIOUS

\* The slots below alive_count hold entities, one per id; what is alive is what
\* they hold.
LEMMA AliveSlots ==
    ASSUME IndInv
    PROVE  /\ alive_count \in Nat \ {0} /\ alive_count - 1 <= Len(dense) /\ Len(dense) \in Nat
           /\ \A i \in 1 .. alive_count - 1 :
                 dense[i] \in Entities /\ dense[i].id \in Ids /\ records[dense[i].id] = i
           /\ \A i, j \in 1 .. alive_count - 1 : dense[i].id = dense[j].id => i = j
<1>1. /\ alive_count \in Nat \ {0} /\ alive_count - 1 <= Len(dense) /\ Len(dense) \in Nat
      /\ dense \in Seq(Entities)
  BY DEF IndInv, TypeOK, DenseRecordsAgree
<1>2. \A i \in 1 .. alive_count - 1 :
         dense[i] \in Entities /\ dense[i].id \in Ids /\ records[dense[i].id] = i
  <2>1. \A i \in 1 .. alive_count - 1 : i \in 1 .. Len(dense)
    BY <1>1
  <2> QED  BY <1>1, <2>1, ElementOfSeq, EntityFields DEF IndInv, DenseRecordsAgree, Agree
<1> QED  BY <1>1, <1>2

\* A step that keeps the slots that are alive and retires nothing creates the
\* handles of the slots it adds.
LEMMA CreateStep ==
    ASSUME IndInv, IndInv', retired' = retired, alive_count <= alive_count',
           \A i \in 1 .. alive_count - 1 : dense'[i] = dense[i]
    PROVE  \E S \in SUBSET Entities : Handles!Create(S)
<1> DEFINE S == {dense'[i] : i \in alive_count .. alive_count' - 1}
<1>1. /\ alive_count \in Nat \ {0} /\ alive_count - 1 <= Len(dense) /\ Len(dense) \in Nat
      /\ \A i \in 1 .. alive_count - 1 :
            dense[i] \in Entities /\ dense[i].id \in Ids /\ records[dense[i].id] = i
  BY AliveSlots
<1>2. /\ alive_count' \in Nat \ {0} /\ alive_count' - 1 <= Len(dense')
      /\ \A i \in 1 .. alive_count' - 1 :
            dense'[i] \in Entities /\ dense'[i].id \in Ids /\ records'[dense'[i].id] = i
      /\ \A i, j \in 1 .. alive_count' - 1 : dense'[i].id = dense'[j].id => i = j
  <2>1. /\ alive_count' \in Nat \ {0} /\ alive_count' - 1 <= Len(dense') /\ Len(dense') \in Nat
        /\ dense' \in Seq(Entities)
    BY DEF IndInv, TypeOK, DenseRecordsAgree
  <2>2. \A i \in 1 .. alive_count' - 1 :
           dense'[i] \in Entities /\ dense'[i].id \in Ids /\ records'[dense'[i].id] = i
    <3>1. \A i \in 1 .. alive_count' - 1 : i \in 1 .. Len(dense')
      BY <2>1, SlotSplit
    <3> QED  BY <2>1, <3>1, ElementOfSeq, EntityFields DEF IndInv, DenseRecordsAgree, Agree
  <2> QED  BY <2>1, <2>2
<1>3. /\ \A i \in alive_count .. alive_count' - 1 : i \in 1 .. alive_count' - 1
      /\ \A i \in 1 .. alive_count - 1 : i \in 1 .. alive_count' - 1
      /\ \A i \in 1 .. alive_count - 1, j \in alive_count .. alive_count' - 1 : i # j
      /\ \A i \in 1 .. alive_count' - 1 :
            i \in 1 .. alive_count - 1 \/ i \in alive_count .. alive_count' - 1
  <2>1. alive_count \in Nat \ {0} /\ alive_count' \in Nat \ {0} /\ alive_count <= alive_count'
    BY <1>1, <1>2
  <2> QED  BY <2>1, SlotSplit
<1>4. S \in SUBSET Entities
  BY <1>2, <1>3
<1>5. Alive' = Alive \union S
  BY <1>3 DEF Alive
<1>6. ASSUME NEW h \in S PROVE h \notin retired
  <2>1. PICK i \in 1 .. alive_count' - 1 : h = dense'[i]
    BY <1>3
  <2>2. records'[h.id] = i /\ i # 0 /\ dense'[records'[h.id]] = h /\ h.gen \in Int
    <3>1. h \in Entities /\ records'[h.id] = i
      BY <1>2, <2>1
    <3>2. h.gen \in Int
      BY <3>1, EntityFields DEF Gens
    <3> QED  BY <2>1, <3>1, <3>2
  <2>3. \A m \in Ids : \A j \in DOMAIN recycled'[m] : recycled'[m][j].id # h.id
    BY <2>2 DEF IndInv, RecycledOnce
  <2>4. ~ (h.gen < dense'[records'[h.id]].gen)
    BY <2>2
  <2>5. h \notin retired'
    BY <2>3, <2>4 DEF IndInv, RetiredBehind
  <2> QED  BY <2>5
<1>7. ASSUME NEW h \in S, NEW k \in Alive PROVE k.id # h.id
  <2>1. PICK i \in alive_count .. alive_count' - 1 : h = dense'[i]
    OBVIOUS
  <2>2. PICK j \in 1 .. alive_count - 1 : k = dense[j]
    BY DEF Alive
  <2>3. k = dense'[j] /\ i # j /\ i \in 1 .. alive_count' - 1 /\ j \in 1 .. alive_count' - 1
    BY <1>3, <2>1, <2>2
  <2> QED  BY <1>2, <2>1, <2>3
<1>8. ASSUME NEW h \in S, NEW k \in S, h.id = k.id PROVE h = k
  <2>1. PICK i \in 1 .. alive_count' - 1 : h = dense'[i]
    BY <1>3
  <2>2. PICK j \in 1 .. alive_count' - 1 : k = dense'[j]
    BY <1>3
  <2> QED  BY <1>2, <1>8, <2>1, <2>2
<1> HIDE DEF S
<1>9. Handles!Create(S)
  BY <1>5, <1>6, <1>7, <1>8 DEF Handles!Create
<1> QED  BY <1>4, <1>9

\* ecs_new and bulk creation create handles that nobody holds.
LEMMA NewStep ==
    ASSUME IndInv, IndInv',
           NewRecycled \/ NewFresh \/ \E count \in 2 .. MaxBulk : NewIds(count)
    PROVE  \E S \in SUBSET Entities : Handles!Create(S)
<1>1. alive_count \in Nat \ {0} /\ dense \in Seq(Entities) /\ Len(dense) \in Nat
      /\ alive_count - 1 <= Len(dense)
  BY DEF IndInv, TypeOK, DenseRecordsAgree
<1>2. CASE NewRecycled
  <2>1. retired' = retired /\ alive_count' = alive_count + 1 /\ dense' = dense
    BY <1>2 DEF NewRecycled
  <2> QED  BY <1>1, <2>1, CreateStep
<1>3. CASE NewFresh
  <2>1. /\ retired' = retired /\ alive_count' = alive_count + 1
        /\ dense' = Append(dense, [id |-> max_id + 1, gen |-> 0])
    BY <1>3 DEF NewFresh
  <2>2. \A i \in 1 .. alive_count - 1 : dense'[i] = dense[i]
    BY <1>1, <2>1
  <2> QED  BY <1>1, <2>1, <2>2, CreateStep
<1>4. ASSUME NEW count \in 2 .. MaxBulk, NewIds(count)
      PROVE  \E S \in SUBSET Entities : Handles!Create(S)
  <2>1. retired' = retired /\ alive_count' = alive_count + count
    BY <1>4 DEF NewIds
  <2>2. \A i \in 1 .. alive_count - 1 : dense'[i] = dense[i]
    <3>1. CASE ToAdd(count) <= 0
      BY <1>4, <3>1 DEF NewIds
    <3>2. CASE ~ (ToAdd(count) <= 0)
      <4> DEFINE n == ToAdd(count)
      <4>1. dense' = dense \o FreshIds(n) /\ max_id + n <= MaxId
        BY <1>4, <3>2 DEF NewIds
      <4>2. n \in Nat \ {0} /\ max_id \in 0 .. MaxId
        BY <1>1, <3>2 DEF ToAdd, IndInv, TypeOK
      <4> HIDE DEF n
      <4>3. FreshIds(n) \in Seq(Entities)
        <5>1. \A k \in 1 .. n : [id |-> max_id + k, gen |-> 0] \in Entities
          BY <4>1, <4>2 DEF Entities, Ids, Gens
        <5> QED  BY <4>2, <5>1 DEF FreshIds
      <4> QED  BY <1>1, <4>1, <4>3
    <3> QED  BY <3>1, <3>2
  <2> QED  BY <1>1, <2>1, <2>2, CreateStep
<1> QED  BY <1>2, <1>3, <1>4

\* The slot of a handle that is alive.
LEMMA AliveSlot ==
    ASSUME IndInv, NEW e \in Entities
    PROVE  /\ IsAlive(e) <=> e \in Alive
           /\ IsAlive(e) => records[e.id] \in 1 .. alive_count - 1 /\ dense[records[e.id]] = e
           /\ IdIsAlive(e.id) <=> \E k \in Alive : k.id = e.id
           /\ IdIsAlive(e.id) =>
                 records[e.id] \in 1 .. alive_count - 1 /\ dense[records[e.id]].id = e.id
<1>1. /\ alive_count \in Nat \ {0} /\ alive_count - 1 <= Len(dense) /\ Len(dense) \in Nat
      /\ \A i \in 1 .. alive_count - 1 : dense[i].id \in Ids /\ records[dense[i].id] = i
  BY AliveSlots
<1>2. e.id \in Ids /\ records[e.id] \in Nat
  BY EntityFields DEF IndInv, TypeOK
<1>3. IdIsAlive(e.id) => records[e.id] \in 1 .. alive_count - 1 /\ dense[records[e.id]].id = e.id
  BY <1>1, <1>2 DEF IdIsAlive, Exists, IndInv, DenseRecordsAgree, Agree
<1>4. IsAlive(e) => IdIsAlive(e.id) /\ dense[records[e.id]] = e
  BY DEF IsAlive, IdIsAlive
<1>5. ASSUME NEW i \in 1 .. alive_count - 1, dense[i].id = e.id
      PROVE  IdIsAlive(e.id) /\ records[e.id] = i
  BY <1>1, <1>5 DEF IdIsAlive, Exists
<1>6. e \in Alive => IsAlive(e)
  <2>1. SUFFICES ASSUME NEW i \in 1 .. alive_count - 1, e = dense[i]
                 PROVE  IsAlive(e)
    BY DEF Alive
  <2> QED  BY <1>5, <2>1 DEF IsAlive, IdIsAlive
<1>7. IsAlive(e) => e \in Alive
  BY <1>3, <1>4 DEF Alive
<1>8. IdIsAlive(e.id) => \E k \in Alive : k.id = e.id
  BY <1>3 DEF Alive
<1>9. ASSUME NEW k \in Alive, k.id = e.id PROVE IdIsAlive(e.id)
  BY <1>5, <1>9 DEF Alive
<1> QED  BY <1>3, <1>4, <1>6, <1>7, <1>8, <1>9

\* ecs_delete takes away the handle it is given and no other: the last entity that
\* is alive moves to its slot.
LEMMA DeleteStep ==
    ASSUME IndInv, NEW e \in Entities, Delete(e)
    PROVE  Handles!Delete(e)
<1> DEFINE a == alive_count - 1
           s == records[e.id]
<1>1. IsAlive(e) /\ alive_count' = alive_count - 1 /\ retired' = RetiredBy(e)
  BY DEF Delete
<1>2. /\ alive_count \in Nat \ {0} /\ a <= Len(dense) /\ Len(dense) \in Nat
      /\ \A i \in 1 .. a : dense[i] \in Entities /\ dense[i].id \in Ids
      /\ \A i, j \in 1 .. a : dense[i].id = dense[j].id => i = j
  BY AliveSlots
<1>3. e \in Alive /\ s \in 1 .. a /\ dense[s] = e
  BY <1>1, AliveSlot
<1>4. /\ Len(RemovedDense(e)) = Len(dense) /\ RemovedDense(e) \in Seq(Entities)
      /\ \A i \in 1 .. Len(dense) : RemovedDense(e)[i] =
            IF i = a THEN GenerationInc(e) ELSE IF i = s THEN dense[a] ELSE dense[i]
  BY <1>1, RemoveAgree
<1>5. \A i \in 1 .. a - 1 : dense'[i] = IF i = s THEN dense[a] ELSE dense[i]
  <2>1. \A i \in 1 .. a - 1 : i \in 1 .. Len(dense) /\ i # a /\ i \in 1 .. Len(dense) - 1
    BY <1>2
  <2>2. CASE InActiveRange(e.id)
    <3>1. dense' = RemovedDense(e)
      BY <2>2 DEF Delete
    <3> QED  BY <1>4, <2>1, <3>1
  <2>3. CASE ~ InActiveRange(e.id)
    <3>1. dense' = DropDense(RemovedDense(e), a)
      BY <2>3 DEF Delete
    <3> QED  BY <1>4, <2>1, <3>1 DEF DropDense
  <2> QED  BY <2>2, <2>3
<1> HIDE DEF a, s
<1>6. alive_count' - 1 = a - 1 /\ a \in Nat \ {0}
  BY <1>1, <1>2, <1>3 DEF a
<1>7. Alive = {dense[i] : i \in 1 .. a} /\ Alive' = {dense'[i] : i \in 1 .. a - 1}
  BY <1>6 DEF Alive, a
<1>8. ASSUME NEW h \in Alive' PROVE h \in Alive /\ h # e
  <2>1. PICK i \in 1 .. a - 1 : h = dense'[i]
    BY <1>7
  <2>2. a \in 1 .. a /\ i \in 1 .. a /\ i # a
    BY <1>6
  <2>3. CASE i = s
    <3>1. h = dense[a] /\ a # s
      BY <1>5, <2>1, <2>2, <2>3
    <3> QED  BY <1>2, <1>3, <1>7, <2>2, <3>1 DEF a
  <2>4. CASE i # s
    <3>1. h = dense[i]
      BY <1>5, <2>1, <2>4
    <3> QED  BY <1>2, <1>3, <1>7, <2>2, <2>4, <3>1 DEF a
  <2> QED  BY <2>3, <2>4
<1>9. ASSUME NEW h \in Alive, h # e PROVE h \in Alive'
  <2>1. PICK i \in 1 .. a : h = dense[i]
    BY <1>7
  <2>2. i # s
    BY <1>3, <1>9, <2>1
  <2>3. CASE i = a
    <3>1. s \in 1 .. a - 1
      BY <1>3, <1>6, <2>2, <2>3
    <3>2. dense'[s] = h
      BY <1>5, <2>1, <2>3, <3>1
    <3> QED  BY <1>7, <3>1, <3>2
  <2>4. CASE i # a
    <3>1. i \in 1 .. a - 1
      BY <1>6, <2>4
    <3>2. dense'[i] = h
      BY <1>5, <2>1, <2>2, <3>1
    <3> QED  BY <1>7, <3>1, <3>2
  <2> QED  BY <2>3, <2>4
<1>10. Alive' = Alive \ {e}
  BY <1>3, <1>8, <1>9
<1> QED  BY <1>1, <1>3, <1>10 DEF Handles!Delete, RetiredBy

\* ecs_make_alive adds the handle it is given.
LEMMA MakeAliveStep ==
    ASSUME IndInv, NEW e \in Entities, MakeAlive(e)
    PROVE  Handles!MakeAlive(e)
<1>1. /\ ~ IdIsAlive(e.id) /\ dense' = EnsuredDense(e)
      /\ alive_count' = alive_count + 1 /\ retired' = RetiredBelow(e)
  BY DEF MakeAlive
<1>2. /\ dense'[alive_count] = e
      /\ \A i \in 1 .. alive_count - 1 : dense'[i] = dense[i]
  BY <1>1, EnsureAgree
<1>3. /\ alive_count' - 1 = alive_count
      /\ \A i \in 1 .. alive_count - 1 : i \in 1 .. alive_count
      /\ \A i \in 1 .. alive_count : i \in 1 .. alive_count - 1 \/ i = alive_count
      /\ alive_count \in 1 .. alive_count
  BY <1>1 DEF IndInv, TypeOK
<1>4. Alive' = {dense'[i] : i \in 1 .. alive_count}
  BY <1>3 DEF Alive
<1>5. Alive' = Alive \union {e}
  BY <1>2, <1>3, <1>4 DEF Alive
<1>6. \A k \in Alive : k.id # e.id
  BY <1>1, AliveSlot
<1> QED  BY <1>1, <1>5, <1>6 DEF Handles!MakeAlive, Handles!Forget, RetiredBelow

\* ecs_set_version replaces the handle of an id that is alive, and changes no
\* handle that is alive if the id is not.
LEMMA SetVersionStep ==
    ASSUME IndInv, NEW e \in Entities, SetVersion(e)
    PROVE  Handles!SetVersion(e)
<1> DEFINE s == records[e.id]
<1>1. /\ s # 0 /\ dense' = [dense EXCEPT ![s] = e]
      /\ alive_count' = alive_count /\ retired' = RetiredBelow(e)
  BY DEF SetVersion, Exists
<1>2. /\ alive_count \in Nat \ {0} /\ alive_count - 1 <= Len(dense) /\ Len(dense) \in Nat
      /\ \A i, j \in 1 .. alive_count - 1 : dense[i].id = dense[j].id => i = j
  BY AliveSlots
<1>3. dense \in Seq(Entities) /\ s \in Nat
  BY EntityFields DEF IndInv, TypeOK
<1>4. \A i \in 1 .. alive_count - 1 : dense'[i] = IF i = s THEN e ELSE dense[i]
  BY <1>1, <1>2, <1>3
<1>5. Alive' = {dense'[i] : i \in 1 .. alive_count - 1}
  BY <1>1 DEF Alive
<1>6. CASE IdIsAlive(e.id)
  <2>1. /\ s \in 1 .. alive_count - 1 /\ dense[s].id = e.id
        /\ \E k \in Alive : k.id = e.id
    BY <1>6, AliveSlot
  <2> HIDE DEF s
  <2>2. ASSUME NEW h \in Alive' PROVE h \in {k \in Alive : k.id # e.id} \union {e}
    <3>1. PICK i \in 1 .. alive_count - 1 : h = dense'[i]
      BY <1>5
    <3>2. CASE i = s
      BY <1>4, <3>1, <3>2
    <3>3. CASE i # s
      <4>1. h = dense[i] /\ dense[i].id # e.id
        BY <1>2, <1>4, <2>1, <3>1, <3>3
      <4> QED  BY <4>1 DEF Alive
    <3> QED  BY <3>2, <3>3
  <2>3. ASSUME NEW h \in Alive, h.id # e.id PROVE h \in Alive'
    <3>1. PICK i \in 1 .. alive_count - 1 : h = dense[i]
      BY DEF Alive
    <3>2. dense'[i] = h
      BY <1>4, <2>1, <2>3, <3>1
    <3> QED  BY <1>5, <3>2
  <2>4. e \in Alive'
    BY <1>4, <1>5, <2>1
  <2>5. Alive' = {k \in Alive : k.id # e.id} \union {e}
    BY <2>2, <2>3, <2>4
  <2> QED  BY <1>1, <2>1, <2>5 DEF Handles!SetVersion, Handles!Forget, RetiredBelow
<1>7. CASE ~ IdIsAlive(e.id)
  <2>1. s \notin 1 .. alive_count - 1
    BY <1>1, <1>2, <1>7 DEF IdIsAlive, Exists
  <2>2. \A i \in 1 .. alive_count - 1 : dense'[i] = dense[i]
    BY <1>4, <2>1
  <2>3. Alive' = Alive
    BY <1>5, <2>2 DEF Alive
  <2>4. ~ \E k \in Alive : k.id = e.id
    BY <1>7, AliveSlot
  <2> QED  BY <1>1, <2>3, <2>4 DEF Handles!SetVersion, Handles!Forget, RetiredBelow
<1> QED  BY <1>6, <1>7

\* Creating a range, or activating one, changes no handle.
LEMMA RangeStep ==
    ASSUME IndInv,
           \/ \E min \in Ids, max \in 0 .. MaxId : RangeNew(min, max)
           \/ \E m \in RangeSet : RangeSetActive(m)
    PROVE  UNCHANGED <<Alive, retired>>
<1>1. /\ dense \in Seq(Entities) /\ alive_count \in Nat \ {0} /\ Len(dense) \in Nat
      /\ alive_count - 1 <= Len(dense)
  BY DEF IndInv, TypeOK, DenseRecordsAgree
<1>2. CASE \E min \in Ids, max \in 0 .. MaxId : RangeNew(min, max)
  BY <1>2 DEF RangeNew, Alive
<1>3. ASSUME NEW m \in RangeSet, RangeSetActive(m)
      PROVE  UNCHANGED <<Alive, retired>>
  <2> DEFINE keep == SubSeq(dense, 1, alive_count - 1)
             load == SavedRecycled[m]
  <2>1. dense' = keep \o load /\ alive_count' = alive_count /\ retired' = retired
    BY <1>3 DEF RangeSetActive
  <2>2. /\ keep \in Seq(Entities) /\ Len(keep) = alive_count - 1
        /\ \A i \in 1 .. alive_count - 1 : keep[i] = dense[i]
    BY <1>1, SubSeqProperties
  <2>3. load \in Seq(Entities)
    <3>1. m \in Ids
      BY RangeSetIds DEF IndInv
    <3>2. SavedIds \in Seq(Entities)
      BY <1>1, SubSeqProperties DEF SavedIds
    <3> QED  BY <3>1, <3>2 DEF SavedRecycled, IndInv, TypeOK
  <2> HIDE DEF keep, load
  <2>4. \A i \in 1 .. alive_count - 1 : dense'[i] = dense[i]
    <3>1. \A i \in 1 .. Len(keep) : (keep \o load)[i] = keep[i]
      BY <2>2, <2>3
    <3> QED  BY <2>1, <2>2, <3>1
  <2>5. Alive' = Alive
    BY <2>1, <2>4 DEF Alive
  <2> QED  BY <2>1, <2>5
<1> QED  BY <1>2, <1>3

\* The index implements the handles of EntityHandles: every call creates, deletes
\* or renames exactly the handles it is asked to, and a new handle is never one
\* that was deleted.
THEOREM IndexImplementsHandles ==
    ASSUME RangeDiscipline
    PROVE  Spec => ImplementsHandles
<1>1. Init => Handles!Init
  <2>1. ASSUME Init PROVE Alive = {}
    <3>1. alive_count - 1 = 0
      BY <2>1 DEF Init
    <3> QED  BY <3>1 DEF Alive
  <2> QED  BY <2>1 DEF Init, Handles!Init
<1>2. ASSUME IndInv, IndInv', [Next]_vars
      PROVE  [Handles!Next]_<<Alive, retired>>
  <2> USE <1>2
  <2>1. CASE NewRecycled \/ NewFresh \/ \E count \in 2 .. MaxBulk : NewIds(count)
    <3>1. \E S \in SUBSET Entities : Handles!Create(S)
      BY <2>1, NewStep
    <3> QED  BY <3>1 DEF Handles!Next, Handles!Handles, Entities, Ids, Gens
  <2>2. ASSUME NEW e \in Entities, Delete(e) \/ MakeAlive(e) \/ SetVersion(e)
        PROVE  Handles!Next
    <3>1. Handles!Delete(e) \/ Handles!MakeAlive(e) \/ Handles!SetVersion(e)
      BY <2>2, DeleteStep, MakeAliveStep, SetVersionStep
    <3> QED  BY <3>1 DEF Handles!Next, Handles!Handles, Entities, Ids, Gens
  <2>3. CASE \/ \E min \in Ids, max \in 0 .. MaxId : RangeNew(min, max)
             \/ \E m \in RangeSet : RangeSetActive(m)
    BY <2>3, RangeStep
  <2>4. CASE UNCHANGED vars
    BY <2>4 DEF vars, Alive
  <2> QED  BY <2>1, <2>2, <2>3, <2>4 DEF Next
<1> QED  BY <1>1, <1>2, IndInvHolds, PTL DEF Spec, ImplementsHandles, Handles!Spec
-----------------------------------------------------------------------------
(***************************************************************************)
(* Ids made outside the active range: what is left of the invariant then   *)
(* is LooseInv, which every call keeps whatever bulk creation and          *)
(* ecs_make_alive are asked for.                                           *)
(***************************************************************************)
\* Writing an entity to the slot its record points at.
WriteDense(seq, rec, e) == [seq EXCEPT ![rec[e.id]] = e]

\* The slots keep their ids.
LEMMA WriteFind ==
    ASSUME NEW seq \in Seq(Entities), NEW rec \in [Ids -> Nat], RecordsFind(seq, rec),
           NEW e \in Entities, rec[e.id] # 0
    PROVE  /\ rec[e.id] \in 1 .. Len(seq)
           /\ WriteDense(seq, rec, e) \in Seq(Entities)
           /\ Len(WriteDense(seq, rec, e)) = Len(seq)
           /\ \A i \in 1 .. Len(seq) : WriteDense(seq, rec, e)[i].id = seq[i].id
           /\ RecordsFind(WriteDense(seq, rec, e), rec)
<1> DEFINE k == rec[e.id]
           seq1 == [seq EXCEPT ![k] = e]
<1>1. e.id \in Ids /\ k \in 1 .. Len(seq) /\ seq[k].id = e.id
  BY EntityFields DEF RecordsFind
<1> HIDE DEF k
<1>2. /\ seq1 \in Seq(Entities) /\ Len(seq1) = Len(seq)
      /\ \A i \in 1 .. Len(seq) : seq1[i] = IF i = k THEN e ELSE seq[i]
  BY <1>1
<1>3. WriteDense(seq, rec, e) = seq1
  BY DEF WriteDense, k
<1> HIDE DEF seq1
<1>4. \A i \in 1 .. Len(seq) : seq1[i].id = seq[i].id
  BY <1>1, <1>2
<1>5. RecordsFind(seq1, rec)
  BY <1>2, <1>4 DEF RecordsFind
<1> QED  BY <1>1, <1>2, <1>3, <1>4, <1>5 DEF k

\* Slot j goes to slot i, whose id is written to slot j.
MoveDense(seq, i, j, x) == [seq EXCEPT ![i] = seq[j], ![j] = x]
MoveRecords(seq, rec, i, j, x) == [rec EXCEPT ![seq[j].id] = i, ![x.id] = j]

\* Every record still finds its id, even when another slot holds it too.
LEMMA SwapFind ==
    ASSUME NEW seq \in Seq(Entities), NEW rec \in [Ids -> Nat], RecordsFind(seq, rec),
           NEW i \in 1 .. Len(seq), NEW j \in 1 .. Len(seq),
           NEW x \in Entities, x.id = seq[i].id
    PROVE  /\ MoveDense(seq, i, j, x) \in Seq(Entities)
           /\ Len(MoveDense(seq, i, j, x)) = Len(seq)
           /\ \A k \in 1 .. Len(seq) : MoveDense(seq, i, j, x)[k] =
                 IF k = j THEN x ELSE IF k = i THEN seq[j] ELSE seq[k]
           /\ MoveRecords(seq, rec, i, j, x) \in [Ids -> Nat]
           /\ RecordsFind(MoveDense(seq, i, j, x), MoveRecords(seq, rec, i, j, x))
<1> DEFINE seq1 == [seq EXCEPT ![i] = seq[j], ![j] = x]
           rec1 == [rec EXCEPT ![seq[j].id] = i, ![x.id] = j]
<1>1. seq[j] \in Entities /\ seq[j].id \in Ids /\ x.id \in Ids
  BY ElementOfSeq, EntityFields
<1>2. seq1 \in Seq(Entities) /\ Len(seq1) = Len(seq)
  BY <1>1
<1>3. \A k \in 1 .. Len(seq) :
         seq1[k] = IF k = j THEN x ELSE IF k = i THEN seq[j] ELSE seq[k]
  OBVIOUS
<1>4. /\ rec1 \in [Ids -> Nat]
      /\ \A d \in Ids : rec1[d] = IF d = x.id THEN j ELSE IF d = seq[j].id THEN i ELSE rec[d]
  BY <1>1
<1> HIDE DEF seq1, rec1
<1>5. ASSUME NEW d \in Ids, rec1[d] # 0
      PROVE  rec1[d] \in 1 .. Len(seq1) /\ seq1[rec1[d]].id = d
  <2>1. rec[d] # 0 => rec[d] \in 1 .. Len(seq) /\ seq[rec[d]].id = d
    BY DEF RecordsFind
  <2>2. CASE d = x.id
    BY <1>2, <1>3, <1>4, <2>2
  <2>3. CASE d # x.id /\ d = seq[j].id
    BY <1>2, <1>3, <1>4, <2>3
  <2>4. CASE d # x.id /\ d # seq[j].id
    BY <1>2, <1>3, <1>4, <1>5, <2>1, <2>4
  <2> QED  BY <2>2, <2>3, <2>4
<1>6. RecordsFind(seq1, rec1)
  BY <1>5 DEF RecordsFind
<1>7. MoveDense(seq, i, j, x) = seq1 /\ MoveRecords(seq, rec, i, j, x) = rec1
  BY DEF MoveDense, MoveRecords, seq1, rec1
<1> QED  BY <1>2, <1>3, <1>4, <1>6, <1>7

\* The last slot goes to the slot of an id that is dropped.
LEMMA DropFind ==
    ASSUME NEW seq \in Seq(Entities), NEW rec \in [Ids -> Nat], RecordsFind(seq, rec),
           NEW slot \in 1 .. Len(seq), NEW e \in Entities, seq[slot].id = e.id
    PROVE  /\ DropDense(seq, slot) \in Seq(Entities)
           /\ Len(DropDense(seq, slot)) = Len(seq) - 1
           /\ \A i \in 1 .. Len(seq) - 1 :
                 DropDense(seq, slot)[i] = IF i = slot THEN seq[Len(seq)] ELSE seq[i]
           /\ DropRecords(rec, seq, slot, e) \in [Ids -> Nat]
           /\ RecordsFind(DropDense(seq, slot), DropRecords(rec, seq, slot, e))
<1> DEFINE seq1 == DropDense(seq, slot)
           rec1 == DropRecords(rec, seq, slot, e)
<1>1. /\ e.id \in Ids /\ Len(seq) \in Nat \ {0}
      /\ seq[Len(seq)] \in Entities /\ seq[Len(seq)].id \in Ids
  BY EntityFields, ElementOfSeq
<1>2. /\ seq1 \in Seq(Entities) /\ Len(seq1) = Len(seq) - 1
      /\ \A i \in 1 .. Len(seq) - 1 : seq1[i] = IF i = slot THEN seq[Len(seq)] ELSE seq[i]
  BY <1>1 DEF DropDense
<1>3. /\ rec1 \in [Ids -> Nat]
      /\ \A d \in Ids : rec1[d] = IF d = e.id THEN 0
                                  ELSE IF d = seq[Len(seq)].id THEN slot ELSE rec[d]
  BY <1>1 DEF DropRecords
<1> HIDE DEF seq1, rec1
<1>4. ASSUME NEW d \in Ids, rec1[d] # 0
      PROVE  rec1[d] \in 1 .. Len(seq1) /\ seq1[rec1[d]].id = d
  <2>1. rec[d] # 0 => rec[d] \in 1 .. Len(seq) /\ seq[rec[d]].id = d
    BY DEF RecordsFind
  <2>2. d # e.id
    BY <1>3, <1>4
  <2>3. CASE d = seq[Len(seq)].id
    <3>1. slot # Len(seq)
      BY <2>2, <2>3
    <3>2. slot \in 1 .. Len(seq) - 1
      BY <1>1, <3>1
    <3>3. rec1[d] = slot /\ seq1[slot] = seq[Len(seq)]
      BY <1>2, <1>3, <2>2, <2>3, <3>2
    <3> QED  BY <1>2, <2>3, <3>2, <3>3
  <2>4. CASE d # seq[Len(seq)].id
    <3>1. rec1[d] = rec[d] /\ rec[d] \in 1 .. Len(seq) - 1 /\ rec[d] # slot
      BY <1>1, <1>3, <1>4, <2>1, <2>2, <2>4
    <3> QED  BY <1>2, <2>1, <3>1
  <2> QED  BY <2>3, <2>4
<1> QED  BY <1>2, <1>3, <1>4 DEF seq1, rec1, RecordsFind

\* A call that leaves the ranges and what is saved with them alone: it must keep
\* what waits to be recycled in the active range.
LEMMA LooseStep ==
    ASSUME LooseInv, UNCHANGED rangeVars, TypeOK', alive_count' <= Len(dense') + 1,
           RecordsFind(dense', records'),
           \A i \in alive_count' .. Len(dense') : InActiveRange(dense'[i].id)
    PROVE  LooseInv'
<1>1. RecycledInRange'
  BY RangesUnchanged DEF LooseInv, RecycledInRange, rangeVars
<1>2. RangesKept'
  BY DEF LooseInv, RangesKept, rangeVars, RangeSet
<1> QED  BY <1>1, <1>2 DEF LooseInv, RecordsFind

\* ecs_new out of the ids that wait to be recycled.
LEMMA NewRecycledLoose ==
    ASSUME LooseInv, NewRecycled
    PROVE  LooseInv'
<1> USE DEF LooseInv
<1>1. /\ alive_count # Len(dense) + 1
      /\ issued' = {dense[alive_count]}
      /\ alive_count' = alive_count + 1
      /\ UNCHANGED <<dense, records, max_id, rangeVars, retired>>
  BY DEF NewRecycled
<1>2. alive_count \in 1 .. Len(dense) /\ Len(dense) \in Nat
  BY <1>1 DEF TypeOK
<1>3. dense[alive_count] \in Entities
  BY <1>2, ElementOfSeq DEF TypeOK
<1>4. TypeOK'
  BY <1>1, <1>2, <1>3 DEF TypeOK, rangeVars
<1>5. \A i \in alive_count' .. Len(dense') : i \in alive_count .. Len(dense) /\ dense'[i] = dense[i]
  BY <1>1, <1>2
<1> QED  BY <1>1, <1>2, <1>4, <1>5, LooseStep DEF RecycledInRange

\* ecs_new with a fresh id: nothing waits before and after it.
LEMMA NewFreshLoose ==
    ASSUME LooseInv, NewFresh
    PROVE  LooseInv'
<1> USE DEF LooseInv
<1> DEFINE e == [id |-> max_id + 1, gen |-> 0]
<1>1. /\ alive_count = Len(dense) + 1 /\ max_id < MaxId /\ max_id' = max_id + 1
      /\ dense' = Append(dense, e)
      /\ records' = [records EXCEPT ![max_id + 1] = alive_count]
      /\ alive_count' = alive_count + 1
      /\ issued' = {e}
      /\ UNCHANGED <<rangeVars, retired>>
  BY DEF NewFresh
<1>2. e \in Entities /\ max_id + 1 \in Ids /\ max_id + 1 \in 0 .. MaxId /\ e.id = max_id + 1
  BY <1>1 DEF TypeOK, Entities, Ids, Gens
<1> HIDE DEF e
<1>3. /\ dense \in Seq(Entities) /\ records \in [Ids -> Nat] /\ Len(dense) \in Nat
      /\ alive_count \in Nat \ {0}
  BY DEF TypeOK
<1>4. dense' \in Seq(Entities) /\ Len(dense') = Len(dense) + 1
      /\ \A i \in 1 .. Len(dense) : dense'[i] = dense[i]
      /\ dense'[Len(dense) + 1] = e
  BY <1>1, <1>2, <1>3
<1>5. TypeOK'
  BY <1>1, <1>2, <1>3, <1>4 DEF TypeOK, rangeVars
<1>6. RecordsFind(dense', records')
  BY <1>1, <1>2, <1>3, <1>4 DEF RecordsFind
<1>7. alive_count' = Len(dense') + 1 /\ alive_count' .. Len(dense') = {}
  BY <1>1, <1>3, <1>4
<1> QED  BY <1>1, <1>3, <1>4, <1>5, <1>6, <1>7, LooseStep

\* Bulk creation: recycled ids leave the waiting ones from the front, fresh ids
\* follow when there are none left.
LEMMA NewIdsLoose ==
    ASSUME LooseInv, NEW count \in 2 .. MaxBulk, NewIds(count)
    PROVE  LooseInv'
<1> USE DEF LooseInv
<1> DEFINE n == ToAdd(count)
<1>1. /\ alive_count' = alive_count + count
      /\ issued' = {dense'[i] : i \in alive_count .. alive_count + count - 1}
      /\ UNCHANGED <<rangeVars, retired>>
  BY DEF NewIds
<1>2. /\ dense \in Seq(Entities) /\ records \in [Ids -> Nat] /\ Len(dense) \in Nat
      /\ alive_count \in Nat \ {0} /\ max_id \in 0 .. MaxId /\ count \in Nat
      /\ n = alive_count + count - (Len(dense) + 1) /\ n \in Int
  BY DEF TypeOK, ToAdd
<1>3. CASE n <= 0
  <2>1. dense' = dense /\ records' = records /\ max_id' = max_id
    BY <1>3 DEF NewIds
  <2>2. \A i \in alive_count .. alive_count + count - 1 : i \in 1 .. Len(dense)
    BY <1>2, <1>3
  <2>3. issued' \subseteq Entities
    <3>1. \A i \in 1 .. Len(dense) : dense[i] \in Entities
      BY <1>2, ElementOfSeq
    <3> QED  BY <1>1, <2>1, <2>2, <3>1
  <2>4. alive_count' <= Len(dense') + 1 /\ alive_count' \in Nat \ {0}
    BY <1>1, <1>2, <1>3, <2>1
  <2>5. TypeOK'
    BY <1>1, <1>2, <2>1, <2>3, <2>4 DEF TypeOK, rangeVars
  <2>6. \A i \in alive_count' .. Len(dense') : i \in alive_count .. Len(dense) /\ dense'[i] = dense[i]
    BY <1>1, <1>2, <2>1
  <2> QED  BY <1>1, <2>1, <2>4, <2>5, <2>6, LooseStep DEF RecycledInRange
<1>4. CASE ~ (n <= 0)
  <2>1. /\ max_id + n <= MaxId
        /\ dense' = dense \o FreshIds(n)
        /\ records' = FreshRecords(n)
        /\ max_id' = max_id + n
    BY <1>4 DEF NewIds
  <2>2. n \in Nat \ {0}
    BY <1>2, <1>4
  <2> HIDE DEF n
  <2>3. /\ FreshIds(n) \in Seq(Entities) /\ Len(FreshIds(n)) = n
        /\ \A k \in 1 .. n : FreshIds(n)[k].id = max_id + k
    <3>1. \A k \in 1 .. n : [id |-> max_id + k, gen |-> 0] \in Entities
      BY <1>2, <2>1, <2>2 DEF Entities, Ids, Gens
    <3> QED  BY <2>2, <3>1 DEF FreshIds
  <2>4. /\ dense' \in Seq(Entities) /\ Len(dense') = Len(dense) + n
        /\ \A i \in 1 .. Len(dense) + n : dense'[i] =
              IF i <= Len(dense) THEN dense[i] ELSE FreshIds(n)[i - Len(dense)]
    BY <1>2, <2>1, <2>3, ConcatProperties
  <2>5. /\ records' \in [Ids -> Nat]
        /\ \A d \in Ids : records'[d] = IF d \in max_id + 1 .. max_id + n
                                          THEN Len(dense) + d - max_id ELSE records[d]
    <3>1. \A d \in Ids : d \in max_id + 1 .. max_id + n => Len(dense) + d - max_id \in Nat
      BY <1>2, <2>2 DEF Ids
    <3> QED  BY <1>2, <2>1, <3>1 DEF FreshRecords
  <2>6. RecordsFind(dense', records')
    <3> SUFFICES ASSUME NEW d \in Ids, records'[d] # 0
                 PROVE  records'[d] \in 1 .. Len(dense') /\ dense'[records'[d]].id = d
      BY DEF RecordsFind
    <3>1. CASE d \in max_id + 1 .. max_id + n
      <4>1. /\ records'[d] = Len(dense) + d - max_id
            /\ d - max_id \in 1 .. n
            /\ records'[d] \in 1 .. Len(dense) + n
            /\ ~ (records'[d] <= Len(dense)) /\ records'[d] - Len(dense) = d - max_id
        BY <1>2, <2>2, <2>5, <3>1
      <4>2. dense'[records'[d]] = FreshIds(n)[d - max_id] /\ max_id + (d - max_id) = d
        BY <1>2, <2>2, <2>4, <3>1, <4>1
      <4> QED  BY <2>3, <2>4, <4>1, <4>2
    <3>2. CASE d \notin max_id + 1 .. max_id + n
      <4>1. records'[d] = records[d] /\ records[d] \in 1 .. Len(dense) /\ dense[records[d]].id = d
        BY <2>5, <3>2 DEF RecordsFind
      <4> QED  BY <1>2, <2>2, <2>4, <4>1
    <3> QED  BY <3>1, <3>2
  <2>7. /\ alive_count' = Len(dense') + 1 /\ alive_count' .. Len(dense') = {}
        /\ alive_count' \in Nat \ {0}
    BY <1>1, <1>2, <2>2, <2>4
  <2>8. issued' \subseteq Entities
    <3>1. \A i \in alive_count .. alive_count + count - 1 : i \in 1 .. Len(dense')
      BY <1>2, <2>2, <2>4
    <3> QED  BY <1>1, <2>4, <3>1, ElementOfSeq
  <2>9. max_id' \in 0 .. MaxId
    BY <1>2, <2>1, <2>2
  <2>10. TypeOK'
    BY <1>1, <1>2, <2>4, <2>5, <2>7, <2>8, <2>9 DEF TypeOK, rangeVars
  <2> QED  BY <1>1, <2>4, <2>6, <2>7, <2>10, LooseStep
<1> QED  BY <1>3, <1>4

\* What remove does in either case: the entity, with its next generation, has
\* changed places with the last one alive.
LEMMA RemoveFind ==
    ASSUME LooseInv, NEW e \in Entities, IsAlive(e)
    PROVE  /\ alive_count - 1 \in 1 .. Len(dense) /\ Len(dense) \in Nat
           /\ RemovedDense(e) \in Seq(Entities)
           /\ Len(RemovedDense(e)) = Len(dense)
           /\ RemovedDense(e)[alive_count - 1] = GenerationInc(e)
           /\ \A i \in alive_count .. Len(dense) : RemovedDense(e)[i] = dense[i]
           /\ RemovedRecords(e) \in [Ids -> Nat]
           /\ RecordsFind(RemovedDense(e), RemovedRecords(e))
<1> DEFINE i == records[e.id]
           j == alive_count - 1
           x == GenerationInc(e)
<1>1. /\ dense \in Seq(Entities) /\ records \in [Ids -> Nat] /\ RecordsFind(dense, records)
      /\ alive_count \in Nat \ {0} /\ Len(dense) \in Nat /\ alive_count <= Len(dense) + 1
  BY DEF LooseInv, TypeOK
<1>2. e.id \in Ids /\ i # 0 /\ i < alive_count /\ dense[i] = e
  BY EntityFields DEF IsAlive, Exists
<1>3. i \in 1 .. Len(dense)
  BY <1>1, <1>2 DEF RecordsFind
<1>4. j \in 1 .. Len(dense)
  BY <1>1, <1>2, <1>3
<1>5. x \in Entities /\ x.id = e.id /\ x.id = dense[i].id
  BY <1>2, GenerationIncType
<1>6. /\ RemovedDense(e) = MoveDense(dense, i, j, x)
      /\ RemovedRecords(e) = MoveRecords(dense, records, i, j, x)
  BY <1>5 DEF RemovedDense, RemovedRecords, MoveDense, MoveRecords
<1> HIDE DEF i, j, x
<1>7. /\ RemovedDense(e) \in Seq(Entities)
      /\ Len(RemovedDense(e)) = Len(dense)
      /\ \A k \in 1 .. Len(dense) : RemovedDense(e)[k] =
            IF k = j THEN x ELSE IF k = i THEN dense[j] ELSE dense[k]
      /\ RemovedRecords(e) \in [Ids -> Nat]
      /\ RecordsFind(RemovedDense(e), RemovedRecords(e))
  BY <1>1, <1>3, <1>4, <1>5, <1>6, SwapFind
<1>8. \A k \in alive_count .. Len(dense) : k \in 1 .. Len(dense) /\ k # j /\ k # i
  BY <1>1, <1>2, <1>3 DEF j
<1> QED  BY <1>1, <1>4, <1>7, <1>8 DEF j, x

\* ecs_delete of an id of the active range: the id stays in the index.
LEMMA DeleteActiveLoose ==
    ASSUME LooseInv, NEW e \in Entities, Delete(e), InActiveRange(e.id)
    PROVE  LooseInv'
<1>1. /\ IsAlive(e)
      /\ alive_count' = alive_count - 1
      /\ dense' = RemovedDense(e) /\ records' = RemovedRecords(e)
      /\ retired' = RetiredBy(e) /\ issued' = {}
      /\ UNCHANGED <<max_id, rangeVars>>
  BY DEF Delete, rangeVars
<1>2. /\ alive_count - 1 \in 1 .. Len(dense) /\ Len(dense) \in Nat
      /\ RemovedDense(e) \in Seq(Entities)
      /\ Len(RemovedDense(e)) = Len(dense)
      /\ RemovedDense(e)[alive_count - 1] = GenerationInc(e)
      /\ \A i \in alive_count .. Len(dense) : RemovedDense(e)[i] = dense[i]
      /\ RemovedRecords(e) \in [Ids -> Nat]
      /\ RecordsFind(RemovedDense(e), RemovedRecords(e))
  BY <1>1, RemoveFind
<1>3. alive_count \in Nat /\ retired' \subseteq Entities
  BY <1>1, RetiredByType DEF LooseInv, TypeOK
<1>4. TypeOK'
  BY <1>1, <1>2, <1>3 DEF LooseInv, TypeOK, rangeVars
<1>5. ASSUME NEW i \in alive_count' .. Len(dense')
      PROVE  InActiveRange(dense'[i].id)
  <2>1. CASE i = alive_count - 1
    BY <1>1, <1>2, <2>1, GenerationIncType
  <2>2. CASE i # alive_count - 1
    <3>1. i \in alive_count .. Len(dense) /\ dense'[i] = dense[i]
      BY <1>1, <1>2, <1>3, <1>5, <2>2
    <3> QED  BY <3>1 DEF LooseInv, RecycledInRange
  <2> QED  BY <2>1, <2>2
<1>6. alive_count' <= Len(dense') + 1 /\ RecordsFind(dense', records')
  BY <1>1, <1>2, <1>3
<1> QED  BY <1>1, <1>4, <1>5, <1>6, LooseStep

\* ecs_delete of an id outside the active range: the index forgets it, and the
\* range that holds it, if there is one, has it to recycle.
LEMMA DeleteInactiveLoose ==
    ASSUME LooseInv, NEW e \in Entities, Delete(e), ~ InActiveRange(e.id)
    PROVE  LooseInv'
<1> DEFINE seq == RemovedDense(e)
           slot == alive_count - 1
           f == FindRange(e.id)
<1>1. /\ IsAlive(e)
      /\ alive_count' = alive_count - 1
      /\ dense' = DropDense(seq, slot)
      /\ records' = DropRecords(RemovedRecords(e), seq, slot, e)
      /\ recycled' = IF f = 0 THEN recycled
                     ELSE [recycled EXCEPT ![f] = Append(@, GenerationInc(e))]
      /\ retired' = RetiredBy(e) /\ issued' = {}
      /\ UNCHANGED <<max_id, ranges, range_max, cur, active_range>>
  BY DEF Delete
<1>2. /\ slot \in 1 .. Len(dense) /\ Len(dense) \in Nat
      /\ seq \in Seq(Entities) /\ Len(seq) = Len(dense)
      /\ seq[slot] = GenerationInc(e)
      /\ \A i \in alive_count .. Len(dense) : seq[i] = dense[i]
      /\ RemovedRecords(e) \in [Ids -> Nat]
      /\ RecordsFind(seq, RemovedRecords(e))
  BY <1>1, RemoveFind
<1>3. GenerationInc(e) \in Entities /\ GenerationInc(e).id = e.id /\ e.id \in Ids
  BY GenerationIncType, EntityFields
<1>4. alive_count \in Nat /\ retired' \subseteq Entities /\ recycled \in [Ids -> Seq(Entities)]
  BY <1>1, RetiredByType DEF LooseInv, TypeOK
<1>5. f # 0 => f \in RangeSet /\ f \in Ids /\ InRange(f, e.id)
  <2>1. f # 0 => \E m \in RangeSet : InRange(m, e.id)
    BY DEF FindRange
  <2>2. f # 0 => f \in RangeSet /\ InRange(f, e.id)
    BY <2>1 DEF FindRange
  <2> QED  BY <2>2, RangeSetIds DEF LooseInv
<1> HIDE DEF seq, slot, f
<1>6. /\ dense' \in Seq(Entities) /\ Len(dense') = Len(dense) - 1
      /\ \A i \in 1 .. Len(dense) - 1 :
            dense'[i] = IF i = slot THEN seq[Len(dense)] ELSE seq[i]
      /\ records' \in [Ids -> Nat]
      /\ RecordsFind(dense', records')
  <2>1. seq[slot].id = e.id /\ slot \in 1 .. Len(seq)
    BY <1>2, <1>3
  <2> DEFINE rec == RemovedRecords(e)
  <2> HIDE DEF rec
  <2>2. /\ DropDense(seq, slot) \in Seq(Entities)
        /\ Len(DropDense(seq, slot)) = Len(seq) - 1
        /\ \A i \in 1 .. Len(seq) - 1 :
              DropDense(seq, slot)[i] = IF i = slot THEN seq[Len(seq)] ELSE seq[i]
        /\ DropRecords(rec, seq, slot, e) \in [Ids -> Nat]
        /\ RecordsFind(DropDense(seq, slot), DropRecords(rec, seq, slot, e))
    BY <1>2, <2>1, DropFind DEF rec
  <2> QED  BY <1>1, <1>2, <2>2 DEF rec
<1>7. recycled' \in [Ids -> Seq(Entities)]
  BY <1>1, <1>3, <1>4, <1>5
<1>8. TypeOK'
  BY <1>1, <1>2, <1>4, <1>6, <1>7 DEF LooseInv, TypeOK, slot
<1>9. /\ RangeSet' = RangeSet /\ \A m, d : InRange(m, d)' <=> InRange(m, d)
      /\ \A d : InActiveRange(d)' <=> InActiveRange(d)
  BY <1>1 DEF RangeSet, InRange, InActiveRange
<1>10. ASSUME NEW i \in alive_count' .. Len(dense')
       PROVE  InActiveRange(dense'[i].id)
  <2>1. i \in slot .. Len(dense) - 1 /\ i \in 1 .. Len(dense) - 1
        /\ Len(dense) \in alive_count .. Len(dense)
    BY <1>1, <1>2, <1>4, <1>6 DEF slot
  <2>2. CASE i = slot
    <3>1. dense'[i] = dense[Len(dense)]
      BY <1>2, <1>6, <2>1, <2>2
    <3> QED  BY <2>1, <3>1 DEF LooseInv, RecycledInRange
  <2>3. CASE i # slot
    <3>1. i \in alive_count .. Len(dense) /\ dense'[i] = dense[i]
      BY <1>2, <1>4, <1>6, <2>1, <2>3 DEF slot
    <3> QED  BY <3>1 DEF LooseInv, RecycledInRange
  <2> QED  BY <2>2, <2>3
<1>11. ASSUME NEW m \in Ids, NEW i \in DOMAIN recycled'[m]
       PROVE  m \in RangeSet /\ InRange(m, recycled'[m][i].id)
  <2>1. \A k \in DOMAIN recycled[m] : m \in RangeSet /\ InRange(m, recycled[m][k].id)
    BY DEF LooseInv, RecycledInRange
  <2>2. CASE f # 0 /\ m = f
    <3>1. recycled'[m] = Append(recycled[m], GenerationInc(e)) /\ recycled[m] \in Seq(Entities)
      BY <1>1, <1>4, <2>2
    <3>2. /\ DOMAIN recycled'[m] = 1 .. Len(recycled[m]) + 1 /\ Len(recycled[m]) \in Nat
          /\ DOMAIN recycled[m] = 1 .. Len(recycled[m])
          /\ \A k \in 1 .. Len(recycled[m]) : recycled'[m][k] = recycled[m][k]
          /\ recycled'[m][Len(recycled[m]) + 1] = GenerationInc(e)
      BY <1>3, <3>1
    <3>3. CASE i = Len(recycled[m]) + 1
      BY <1>3, <1>5, <2>2, <3>2, <3>3
    <3>4. CASE i # Len(recycled[m]) + 1
      <4>1. i \in 1 .. Len(recycled[m])
        BY <3>2, <3>4
      <4> QED  BY <2>1, <3>2, <4>1
    <3> QED  BY <3>3, <3>4
  <2>3. CASE ~ (f # 0 /\ m = f)
    <3>1. recycled'[m] = recycled[m]
      BY <1>1, <1>4, <2>3
    <3> QED  BY <2>1, <3>1
  <2> QED  BY <2>2, <2>3
<1>12. RecycledInRange'
  BY <1>9, <1>10, <1>11 DEF RecycledInRange
<1>13. RangesKept'
  BY <1>1, <1>9 DEF LooseInv, RangesKept
<1>14. alive_count' <= Len(dense') + 1
  BY <1>1, <1>2, <1>4, <1>6 DEF slot
<1> QED  BY <1>6, <1>8, <1>12, <1>13, <1>14 DEF LooseInv, RecordsFind

\* ecs_set_version: the id in the slot stays what it is.
LEMMA SetVersionLoose ==
    ASSUME LooseInv, NEW e \in Entities, SetVersion(e)
    PROVE  LooseInv'
<1>1. /\ records[e.id] # 0
      /\ dense' = [dense EXCEPT ![records[e.id]] = e]
      /\ retired' = RetiredBelow(e) /\ issued' = {}
      /\ UNCHANGED <<records, alive_count, max_id, rangeVars>>
  BY DEF SetVersion, Exists
<1>2. /\ dense \in Seq(Entities) /\ records \in [Ids -> Nat] /\ RecordsFind(dense, records)
      /\ Len(dense) \in Nat /\ alive_count \in Nat \ {0}
  BY DEF LooseInv, TypeOK
<1>3. /\ dense' \in Seq(Entities) /\ Len(dense') = Len(dense)
      /\ \A i \in 1 .. Len(dense) : dense'[i].id = dense[i].id
      /\ RecordsFind(dense', records')
  <2>1. dense' = WriteDense(dense, records, e) /\ records' = records
    BY <1>1 DEF WriteDense
  <2> DEFINE seq == WriteDense(dense, records, e)
  <2>2. /\ seq \in Seq(Entities) /\ Len(seq) = Len(dense)
        /\ \A i \in 1 .. Len(dense) : seq[i].id = dense[i].id
        /\ RecordsFind(seq, records)
    BY <1>1, <1>2, WriteFind
  <2> HIDE DEF seq
  <2>3. dense' = seq
    BY <2>1 DEF seq
  <2> QED  BY <2>1, <2>2, <2>3
<1>4. retired' \subseteq Entities
  BY <1>1 DEF LooseInv, TypeOK, RetiredBelow
<1>5. TypeOK'
  BY <1>1, <1>3, <1>4 DEF LooseInv, TypeOK, rangeVars
<1>6. ASSUME NEW i \in alive_count' .. Len(dense')
      PROVE  InActiveRange(dense'[i].id)
  <2>1. i \in alive_count .. Len(dense) /\ i \in 1 .. Len(dense)
    BY <1>1, <1>2, <1>3
  <2> QED  BY <1>3, <2>1 DEF LooseInv, RecycledInRange
<1> QED  BY <1>1, <1>3, <1>5, <1>6, LooseStep DEF LooseInv

\* ecs_make_alive: what waited in the slot the entity takes goes where it was, or
\* to the end.
LEMMA MakeAliveLoose ==
    ASSUME LooseInv, NEW e \in Entities, MakeAlive(e)
    PROVE  LooseInv'
<1> DEFINE ids == IF Exists(e.id) THEN [dense EXCEPT ![records[e.id]] = e] ELSE Append(dense, e)
           i == SlotOf(e)
           j == alive_count
<1>1. /\ ~ IdIsAlive(e.id)
      /\ dense' = EnsuredDense(e) /\ records' = EnsuredRecords(e)
      /\ max_id' = IF Exists(e.id) THEN max_id ELSE Larger(e.id, max_id)
      /\ alive_count' = alive_count + 1
      /\ retired' = RetiredBelow(e) /\ issued' = {}
      /\ UNCHANGED rangeVars
  BY DEF MakeAlive
<1>2. /\ dense \in Seq(Entities) /\ records \in [Ids -> Nat] /\ RecordsFind(dense, records)
      /\ Len(dense) \in Nat /\ alive_count \in Nat \ {0} /\ max_id \in 0 .. MaxId
      /\ alive_count <= Len(dense) + 1 /\ e.id \in Ids
  BY EntityFields DEF LooseInv, TypeOK
<1>3. /\ ids \in Seq(Entities) /\ RecordsFind(ids, records)
      /\ i \in 1 .. Len(ids) /\ j \in 1 .. Len(ids) /\ i >= j
      /\ Len(ids) = IF Exists(e.id) THEN Len(dense) ELSE Len(dense) + 1
      /\ ids[i].id = e.id
      /\ \A k \in 1 .. Len(dense) : ids[k].id = dense[k].id
      /\ Exists(e.id) \/ (i = Len(dense) + 1 /\ ids[i] = e)
  <2>1. CASE Exists(e.id)
    <3>1. records[e.id] # 0 /\ ids = WriteDense(dense, records, e) /\ i = records[e.id]
      BY <2>1 DEF Exists, SlotOf, WriteDense
    <3> HIDE DEF ids, i
    <3>2. /\ i \in 1 .. Len(dense) /\ ids \in Seq(Entities) /\ Len(ids) = Len(dense)
          /\ \A k \in 1 .. Len(dense) : ids[k].id = dense[k].id
          /\ RecordsFind(ids, records)
      BY <1>2, <3>1, WriteFind
    <3>3. i >= j
      BY <1>1, <1>2, <2>1, <3>1 DEF IdIsAlive, Exists
    <3>4. dense[i].id = e.id
      BY <1>2, <3>1 DEF RecordsFind
    <3> QED  BY <1>2, <2>1, <3>2, <3>3, <3>4
  <2>2. CASE ~ Exists(e.id)
    <3>1. ids = Append(dense, e) /\ i = Len(dense) + 1
      BY <2>2 DEF SlotOf
    <3> HIDE DEF ids, i
    <3>2. /\ ids \in Seq(Entities) /\ Len(ids) = Len(dense) + 1
          /\ \A k \in 1 .. Len(dense) : ids[k] = dense[k]
          /\ ids[Len(dense) + 1] = e
      BY <1>2, <3>1
    <3>3. RecordsFind(ids, records)
      BY <1>2, <3>2 DEF RecordsFind
    <3> QED  BY <1>2, <2>2, <3>1, <3>2, <3>3
  <2> QED  BY <2>1, <2>2
<1>4. /\ dense' = MoveDense(ids, i, j, e)
      /\ records' = MoveRecords(ids, records, i, j, e)
  <2>1. dense' = MoveDense(ids, i, j, e)
    BY <1>1 DEF EnsuredDense, MoveDense
  <2>2. records' = [records EXCEPT ![IF alive_count <= Len(dense) THEN dense[alive_count].id
                                     ELSE e.id] = i, ![e.id] = j]
    BY <1>1 DEF EnsuredRecords
  <2> HIDE DEF ids, i
  <2>3. ids[j].id = IF alive_count <= Len(dense) THEN dense[alive_count].id ELSE e.id
    <3>1. CASE alive_count <= Len(dense)
      BY <1>2, <1>3, <3>1
    <3>2. CASE ~ (alive_count <= Len(dense))
      <4>1. j = Len(dense) + 1 /\ i = j
        BY <1>2, <1>3, <3>2
      <4> QED  BY <1>3, <3>2, <4>1
    <3> QED  BY <3>1, <3>2
  <2> QED  BY <2>1, <2>2, <2>3 DEF MoveRecords
<1> HIDE DEF ids, i
<1>5. /\ dense' \in Seq(Entities) /\ Len(dense') = Len(ids)
      /\ \A k \in 1 .. Len(ids) : dense'[k] =
            IF k = j THEN e ELSE IF k = i THEN ids[j] ELSE ids[k]
      /\ records' \in [Ids -> Nat]
      /\ RecordsFind(dense', records')
  <2>1. /\ MoveDense(ids, i, j, e) \in Seq(Entities)
        /\ Len(MoveDense(ids, i, j, e)) = Len(ids)
        /\ \A k \in 1 .. Len(ids) : MoveDense(ids, i, j, e)[k] =
              IF k = j THEN e ELSE IF k = i THEN ids[j] ELSE ids[k]
        /\ MoveRecords(ids, records, i, j, e) \in [Ids -> Nat]
        /\ RecordsFind(MoveDense(ids, i, j, e), MoveRecords(ids, records, i, j, e))
    <3> HIDE DEF j
    <3> QED  BY <1>2, <1>3, SwapFind
  <2> QED  BY <1>4, <2>1
<1>6. retired' \subseteq Entities
  BY <1>1 DEF LooseInv, TypeOK, RetiredBelow
<1>7. max_id' \in 0 .. MaxId /\ alive_count' \in Nat \ {0}
  BY <1>1, <1>2 DEF Larger, Ids
<1>8. TypeOK'
  BY <1>1, <1>5, <1>6, <1>7 DEF LooseInv, TypeOK, rangeVars
<1>9. alive_count' <= Len(dense') + 1
  BY <1>1, <1>2, <1>3, <1>5
<1>10. ASSUME NEW k \in alive_count' .. Len(dense')
       PROVE  InActiveRange(dense'[k].id)
  <2>1. k \in 1 .. Len(ids) /\ k > j
    BY <1>1, <1>2, <1>5
  <2>2. CASE k = i
    <3>1. dense'[k] = ids[j] /\ j \in 1 .. Len(dense) /\ j \in alive_count .. Len(dense)
      BY <1>2, <1>3, <1>5, <2>1, <2>2
    <3>2. dense'[k].id = dense[j].id
      BY <1>3, <3>1
    <3> QED  BY <3>1, <3>2 DEF LooseInv, RecycledInRange
  <2>3. CASE k # i
    <3>1. dense'[k] = ids[k] /\ k \in alive_count .. Len(dense) /\ k \in 1 .. Len(dense)
      BY <1>2, <1>3, <1>5, <2>1, <2>3
    <3>2. dense'[k].id = dense[k].id
      BY <1>3, <3>1
    <3> QED  BY <3>1, <3>2 DEF LooseInv, RecycledInRange
  <2> QED  BY <2>2, <2>3
<1> QED  BY <1>1, <1>5, <1>8, <1>9, <1>10, LooseStep

\* ecs_entity_range_new for the first range: nothing waits to be recycled.
LEMMA RangeNewFirstLoose ==
    ASSUME LooseInv, NEW min \in Ids, NEW max \in 0 .. MaxId,
           RangeNew(min, max), RangeNewFirst(min, max)
    PROVE  LooseInv'
<1>1. /\ max # 0 => max >= min
      /\ NotAliveCount = 0
      /\ issued' = {}
      /\ UNCHANGED <<dense, records, alive_count, max_id, recycled, retired>>
  BY DEF RangeNew
<1>2. /\ ranges = <<>> /\ active_range' = 1
      /\ IF min = 1
           THEN /\ ranges' = <<1>>
                /\ range_max' = [range_max EXCEPT ![1] = max]
                /\ cur' = [cur EXCEPT ![1] = max_id]
           ELSE /\ ranges' = <<1, min>>
                /\ range_max' = [range_max EXCEPT ![1] = min - 1, ![min] = max]
                /\ cur' = [cur EXCEPT ![1] = max_id, ![min] = min - 1]
  BY DEF RangeNewFirst
<1>3. \A m \in Ids : DOMAIN recycled[m] = {}
  <2>1. RangeSet = {}
    BY <1>2 DEF RangeSet
  <2> QED  BY <2>1 DEF LooseInv, RecycledInRange
<1>4. /\ alive_count \in Nat /\ Len(dense) \in Nat
      /\ max_id \in 0 .. MaxId /\ 1 \in Ids /\ min \in Int /\ max \in Int /\ min >= 1
      /\ range_max \in [Ids -> 0 .. MaxId] /\ cur \in [Ids -> 0 .. MaxId]
      /\ min - 1 \in 0 .. MaxId
  <2>1. /\ max_id \in 0 .. MaxId /\ range_max \in [Ids -> 0 .. MaxId]
        /\ cur \in [Ids -> 0 .. MaxId] /\ alive_count \in Nat /\ Len(dense) \in Nat
    BY DEF LooseInv, TypeOK
  <2>2. 1 \in Ids /\ min \in Int /\ max \in Int /\ min >= 1 /\ min - 1 \in 0 .. MaxId
    BY DEF Ids
  <2> QED  BY <2>1, <2>2
<1>5. \A i \in alive_count' .. Len(dense') : FALSE
  BY <1>1, <1>4 DEF NotAliveCount
<1>6. RecycledInRange'
  BY <1>1, <1>3, <1>5 DEF RecycledInRange
<1>7. /\ ranges' \in Seq(Ids) /\ 1 \in RangeSet' /\ RangeSet' \subseteq {1, min}
      /\ range_max' \in [Ids -> 0 .. MaxId] /\ cur' \in [Ids -> 0 .. MaxId]
      /\ \A m \in RangeSet' : range_max'[m] # 0 => m <= range_max'[m]
  <2>1. CASE min = 1
    <3>1. ranges' = <<1>> /\ RangeSet' = {1}
      BY <1>2, <2>1 DEF RangeSet
    <3>2. /\ range_max' \in [Ids -> 0 .. MaxId] /\ cur' \in [Ids -> 0 .. MaxId]
          /\ range_max'[1] = max
      BY <1>2, <1>4, <2>1
    <3> QED  BY <1>1, <1>4, <2>1, <3>1, <3>2
  <2>2. CASE min # 1
    <3>1. ranges' = <<1, min>> /\ RangeSet' = {1, min}
      BY <1>2, <2>2 DEF RangeSet
    <3>2. range_max' = [range_max EXCEPT ![1] = min - 1, ![min] = max]
      BY <1>2, <2>2
    <3>3. cur' = [cur EXCEPT ![1] = max_id, ![min] = min - 1]
      BY <1>2, <2>2
    <3>4. range_max' \in [Ids -> 0 .. MaxId]
      BY <1>4, <3>2
    <3>5. cur' \in [Ids -> 0 .. MaxId]
      BY <1>4, <3>3
    <3>6. range_max'[1] = min - 1 /\ range_max'[min] = max
      BY <1>4, <2>2, <3>2
    <3>7. ranges' \in Seq(Ids)
      BY <1>4, <3>1
    <3>8. \A m \in RangeSet' : range_max'[m] # 0 => m <= range_max'[m]
      BY <1>1, <1>4, <2>2, <3>1, <3>6, SMTT(30)
    <3> QED  BY <3>1, <3>4, <3>5, <3>7, <3>8
  <2> QED  BY <2>1, <2>2
<1>8. RangesKept'
  BY <1>2, <1>7 DEF RangesKept
<1>9. TypeOK'
  <2>1. active_range' \in 0 .. MaxId
    BY <1>2
  <2> QED  BY <1>1, <1>7, <2>1 DEF LooseInv, TypeOK
<1>10. alive_count' <= Len(dense') + 1 /\ RecordsFind(dense, records)'
  BY <1>1 DEF LooseInv, RecordsFind
<1> QED  BY <1>6, <1>8, <1>9, <1>10 DEF LooseInv

\* ecs_entity_range_new for a further range: it starts where no other does.
LEMMA RangeNewNextLoose ==
    ASSUME LooseInv, NEW min \in Ids, NEW max \in 0 .. MaxId,
           RangeNew(min, max), RangeNewNext(min, max)
    PROVE  LooseInv'
<1>1. /\ max # 0 => max >= min
      /\ NotAliveCount = 0
      /\ issued' = {}
      /\ UNCHANGED <<dense, records, alive_count, max_id, recycled, retired>>
  BY DEF RangeNew
<1>2. /\ ranges # <<>>
      /\ \A m \in RangeSet : ~ Overlap(m, range_max[m], min, max)
      /\ ranges' = Insert(ranges, min)
      /\ range_max' = [range_max EXCEPT ![min] = max]
      /\ cur' = [cur EXCEPT ![min] = min - 1]
      /\ UNCHANGED active_range
  BY DEF RangeNewNext
<1>3. RangeSet' = RangeSet \union {min} /\ ranges' \in Seq(Ids)
  <2>1. ranges \in Seq(Ids)
    BY DEF LooseInv, TypeOK
  <2>2. /\ ranges' \in Seq(Ids)
        /\ {ranges'[i] : i \in DOMAIN ranges'} = {ranges[i] : i \in DOMAIN ranges} \union {min}
    <3>1. /\ Insert(ranges, min) \in Seq(Ids)
          /\ {Insert(ranges, min)[i] : i \in DOMAIN Insert(ranges, min)}
               = {ranges[i] : i \in DOMAIN ranges} \union {min}
      BY <2>1, InsertProperties, Zenon
    <3> QED  BY <1>2, <3>1
  <2> QED  BY <2>2 DEF RangeSet
<1>4. /\ min \in Int /\ max \in Int /\ min >= 1 /\ min - 1 \in 0 .. MaxId /\ Ids \subseteq Int
      /\ range_max \in [Ids -> 0 .. MaxId] /\ cur \in [Ids -> 0 .. MaxId]
      /\ RangeSet \subseteq Ids /\ alive_count \in Nat /\ Len(dense) \in Nat
  <2>1. RangeSet \subseteq Ids
    BY RangeSetIds DEF LooseInv
  <2>2. min \in Int /\ max \in Int /\ min >= 1 /\ min - 1 \in 0 .. MaxId /\ Ids \subseteq Int
    BY DEF Ids
  <2> QED  BY <2>1, <2>2 DEF LooseInv, TypeOK
<1>5. /\ range_max' \in [Ids -> 0 .. MaxId] /\ cur' \in [Ids -> 0 .. MaxId]
      /\ range_max'[min] = max
      /\ \A m \in Ids : m # min => range_max'[m] = range_max[m]
  BY <1>2, <1>4
<1>6. active_range # 0 /\ active_range \in RangeSet
  <2>1. ranges[1] \in RangeSet
    <3>1. 1 \in DOMAIN ranges
      BY <1>2, EmptySeq, LenProperties DEF LooseInv, TypeOK
    <3> QED  BY <3>1 DEF RangeSet
  <2> QED  BY <2>1 DEF LooseInv, RangesKept
<1>7. min \notin RangeSet
  BY <1>1, <1>2, <1>4 DEF Overlap, LooseInv, RangesKept
<1>8. \A m \in RangeSet : \A d : InRange(m, d)' <=> InRange(m, d)
  BY <1>4, <1>5, <1>7 DEF InRange
<1>9. \A i \in alive_count' .. Len(dense') : FALSE
  BY <1>1, <1>4 DEF NotAliveCount
<1>10. RecycledInRange'
  <2>1. \A m \in Ids : \A i \in DOMAIN recycled'[m] :
           m \in RangeSet /\ InRange(m, recycled'[m][i].id)
    BY <1>1 DEF LooseInv, RecycledInRange
  <2> QED  BY <1>3, <1>8, <1>9, <2>1 DEF RecycledInRange
<1>11. RangesKept'
  <2>1. \A m \in RangeSet' : range_max'[m] # 0 => m <= range_max'[m]
    BY <1>1, <1>3, <1>4, <1>5, <1>7 DEF LooseInv, RangesKept
  <2> QED  BY <1>2, <1>3, <1>6, <2>1 DEF RangesKept
<1>12. TypeOK'
  BY <1>1, <1>2, <1>3, <1>5 DEF LooseInv, TypeOK
<1>13. alive_count' <= Len(dense') + 1 /\ RecordsFind(dense, records)'
  BY <1>1 DEF LooseInv, RecordsFind
<1> QED  BY <1>10, <1>11, <1>12, <1>13 DEF LooseInv

\* ecs_entity_range_set: what waits goes to the list of the range that was active,
\* what range m had saved waits in its place.
LEMMA RangeSetLoose ==
    ASSUME LooseInv, NEW m \in RangeSet, RangeSetActive(m)
    PROVE  LooseInv'
<1> DEFINE saved == SavedIds
           keep == SubSeq(dense, 1, alive_count - 1)
           r1 == SavedRecycled
           load == r1[m]
           Loaded(d) == \E i \in DOMAIN load : load[i].id = d
           Saved(d) == \E i \in DOMAIN saved : saved[i].id = d
<1>1. /\ m \in Ids /\ active_range \in Ids /\ active_range \in RangeSet /\ active_range # 0
      /\ dense \in Seq(Entities) /\ Len(dense) \in Nat
      /\ records \in [Ids -> Nat] /\ RecordsFind(dense, records)
      /\ alive_count \in Nat \ {0} /\ alive_count <= Len(dense) + 1
      /\ recycled \in [Ids -> Seq(Entities)] /\ cur \in [Ids -> 0 .. MaxId]
      /\ max_id \in 0 .. MaxId
  <2>1. RangeSet \subseteq Ids
    BY RangeSetIds DEF LooseInv
  <2>2. active_range # 0 /\ active_range \in RangeSet
    BY DEF LooseInv, RangesKept
  <2>3. /\ dense \in Seq(Entities) /\ records \in [Ids -> Nat] /\ alive_count \in Nat \ {0}
        /\ recycled \in [Ids -> Seq(Entities)] /\ cur \in [Ids -> 0 .. MaxId]
        /\ max_id \in 0 .. MaxId
    BY DEF LooseInv, TypeOK
  <2>4. alive_count <= Len(dense) + 1 /\ RecordsFind(dense, records)
    BY DEF LooseInv
  <2> QED  BY <2>1, <2>2, <2>3, <2>4, LenProperties
<1>40. /\ alive_count \in Int /\ alive_count >= 1 /\ Len(dense) \in Int
       /\ alive_count <= Len(dense) + 1
  BY <1>1
<1>2. /\ dense' = keep \o load
      /\ records' = LoadedRecords(load)
      /\ recycled' = [r1 EXCEPT ![m] = <<>>]
      /\ cur' = [cur EXCEPT ![active_range] = max_id]
      /\ max_id' = cur'[m] /\ active_range' = m /\ issued' = {}
      /\ UNCHANGED <<alive_count, ranges, range_max, retired>>
  BY <1>1 DEF RangeSetActive, SavedCur
<1>3. /\ saved \in Seq(Entities) /\ Len(saved) = Len(dense) - alive_count + 1
      /\ DOMAIN saved = 1 .. Len(saved)
      /\ \A i \in 1 .. Len(saved) : saved[i] = dense[alive_count + i - 1]
  BY <1>1, SMTT(30) DEF SavedIds
<1>4. /\ keep \in Seq(Entities) /\ Len(keep) = alive_count - 1
      /\ \A i \in 1 .. alive_count - 1 : keep[i] = dense[i]
  BY <1>1
<1> HIDE DEF keep
<1>5. /\ r1 \in [Ids -> Seq(Entities)] /\ r1[active_range] = saved
      /\ \A n \in Ids : n # active_range => r1[n] = recycled[n]
      /\ load \in Seq(Entities) /\ DOMAIN load = 1 .. Len(load) /\ Len(load) \in Nat
  <2>1. r1 = [recycled EXCEPT ![active_range] = saved]
    BY <1>1 DEF SavedRecycled
  <2>2. /\ r1 \in [Ids -> Seq(Entities)] /\ r1[active_range] = saved
        /\ \A n \in Ids : n # active_range => r1[n] = recycled[n]
    BY <1>1, <1>3, <2>1
  <2> QED  BY <1>1, <2>2, LenProperties
<1> HIDE DEF saved, r1, load
\* What is saved is of the active range, what is loaded of range m.
<1>6. \A i \in DOMAIN saved : InRange(active_range, saved[i].id)
  <2> SUFFICES ASSUME NEW i \in DOMAIN saved
               PROVE  InRange(active_range, saved[i].id)
    OBVIOUS
  <2>1. alive_count + i - 1 \in alive_count .. Len(dense) /\ i \in 1 .. Len(saved)
    BY <1>3, <1>40
  <2>2. InActiveRange(dense[alive_count + i - 1].id)
    BY <2>1 DEF LooseInv, RecycledInRange
  <2> QED  BY <1>1, <1>3, <2>1, <2>2 DEF InActiveRange
<1>7. \A i \in DOMAIN load : load[i].id \in Ids /\ InRange(m, load[i].id)
  <2>1. \A i \in DOMAIN load : load[i].id \in Ids
    BY <1>5, ElementOfSeq, EntityFields
  <2>2. m = active_range => load = saved
    BY <1>5 DEF load
  <2>3. m # active_range => load = recycled[m]
    BY <1>1, <1>5 DEF load
  <2>4. m # active_range => \A i \in DOMAIN load : InRange(m, load[i].id)
    BY <1>1, <2>3 DEF LooseInv, RecycledInRange
  <2> QED  BY <1>6, <2>1, <2>2, <2>4
<1>8. /\ dense' \in Seq(Entities) /\ Len(dense') = alive_count - 1 + Len(load)
      /\ \A i \in 1 .. alive_count - 1 + Len(load) : dense'[i] =
            IF i <= alive_count - 1 THEN dense[i] ELSE load[i - (alive_count - 1)]
  <2>1. /\ keep \o load \in Seq(Entities) /\ Len(keep \o load) = Len(keep) + Len(load)
        /\ \A i \in 1 .. Len(keep) + Len(load) : (keep \o load)[i] =
              IF i <= Len(keep) THEN keep[i] ELSE load[i - Len(keep)]
    BY <1>4, <1>5, ConcatProperties
  <2>2. \A i \in 1 .. alive_count - 1 + Len(load) : i <= alive_count - 1 => i \in 1 .. alive_count - 1
    BY <1>1, <1>5
  <2> QED  BY <1>2, <1>4, <2>1, <2>2
\* The record of an id that is loaded more than once finds the last of its slots.
<1>9. ASSUME NEW d \in Ids, Loaded(d)
      PROVE  LoadPosition(load, d) \in DOMAIN load /\ load[LoadPosition(load, d)].id = d
  <2> DEFINE S == {i \in DOMAIN load : load[i].id = d}
  <2>1. S \in SUBSET (1 .. Len(load)) /\ S # {}
    BY <1>5, <1>9
  <2>2. \E x \in S : \A y \in S : y <= x
    BY <1>5, <2>1, Searches!GreatestNumber
  <2>3. \E i \in DOMAIN load :
           load[i].id = d /\ \A j \in DOMAIN load : load[j].id = d => j <= i
    BY <2>2
  <2> QED  BY <2>3 DEF LoadPosition
<1>10. ASSUME NEW d \in Ids
       PROVE  \/ \E i \in DOMAIN load : load[i].id = d /\ records'[d] = alive_count + i - 1
              \/ ~ Loaded(d) /\ Saved(d) /\ records'[d] = 0
              \/ ~ Loaded(d) /\ ~ Saved(d) /\ records'[d] = records[d]
  <2>1. records'[d] = IF Loaded(d) THEN alive_count + LoadPosition(load, d) - 1
                      ELSE IF Saved(d) THEN 0 ELSE records[d]
    BY <1>2 DEF LoadedRecords, saved
  <2>2. CASE Loaded(d)
    BY <1>9, <2>1, <2>2
  <2>3. CASE ~ Loaded(d)
    BY <2>1, <2>3
  <2> QED  BY <2>2, <2>3
<1>41. \A r \in 1 .. Len(dense) : r >= alive_count =>
          /\ r - alive_count + 1 \in 1 .. Len(dense) - alive_count + 1
          /\ alive_count + (r - alive_count + 1) - 1 = r
  BY <1>40
<1>11. \A d \in Ids : ~ Saved(d) /\ records[d] # 0 =>
          records[d] \in 1 .. alive_count - 1 /\ dense[records[d]].id = d
  <2> SUFFICES ASSUME NEW d \in Ids, ~ Saved(d), records[d] # 0
               PROVE  records[d] \in 1 .. alive_count - 1 /\ dense[records[d]].id = d
    OBVIOUS
  <2>1. records[d] \in 1 .. Len(dense) /\ dense[records[d]].id = d
    BY <1>1 DEF RecordsFind
  <2>2. ASSUME records[d] >= alive_count
        PROVE  FALSE
    <3> DEFINE k == records[d] - alive_count + 1
    <3>1. k \in DOMAIN saved /\ k \in 1 .. Len(saved) /\ alive_count + k - 1 = records[d]
      <4>1. k \in 1 .. Len(dense) - alive_count + 1 /\ alive_count + k - 1 = records[d]
        BY <1>41, <2>1, <2>2
      <4> HIDE DEF k
      <4> QED  BY <1>3, <4>1
    <3> HIDE DEF k
    <3> QED  BY <1>3, <2>1, <3>1
  <2> QED  BY <1>40, <2>1, <2>2
<1>12. records' \in [Ids -> Nat]
  <2>1. ASSUME NEW d \in Ids
        PROVE  records'[d] \in Nat
    <3>1. \A i \in DOMAIN load : alive_count + i - 1 \in Nat
      BY <1>5, <1>40
    <3>2. records[d] \in Nat
      BY <1>1
    <3> QED  BY <1>10, <3>1, <3>2
  <2> QED  BY <1>2, <2>1 DEF LoadedRecords
<1>13. RecordsFind(dense', records')
  <2> SUFFICES ASSUME NEW d \in Ids, records'[d] # 0
               PROVE  records'[d] \in 1 .. Len(dense') /\ dense'[records'[d]].id = d
    BY DEF RecordsFind
  <2>1. ASSUME NEW i \in DOMAIN load, load[i].id = d, records'[d] = alive_count + i - 1
        PROVE  records'[d] \in 1 .. Len(dense') /\ dense'[records'[d]].id = d
    <3> DEFINE k == alive_count + i - 1
    <3>1. /\ k \in 1 .. alive_count - 1 + Len(load)
          /\ ~ (k <= alive_count - 1) /\ k - (alive_count - 1) = i
      <4>1. i \in 1 .. Len(load) /\ Len(load) \in Int
        BY <1>5
      <4> QED  BY <1>40, <4>1
    <3>2. records'[d] = k
      BY <2>1
    <3> HIDE DEF k
    <3>3. dense'[k] = load[i]
      BY <1>8, <3>1
    <3> QED  BY <1>8, <2>1, <3>1, <3>2, <3>3
  <2>2. ASSUME ~ Saved(d), records'[d] = records[d]
        PROVE  records'[d] \in 1 .. Len(dense') /\ dense'[records'[d]].id = d
    <3>1. records'[d] \in 1 .. alive_count - 1 /\ dense[records'[d]].id = d
      BY <1>11, <2>2
    <3>2. records'[d] \in 1 .. alive_count - 1 + Len(load) /\ records'[d] <= alive_count - 1
      <4>1. Len(load) \in Nat
        BY <1>5
      <4> QED  BY <1>40, <3>1, <4>1
    <3> QED  BY <1>8, <3>1, <3>2
  <2> QED  BY <1>10, <2>1, <2>2
<1>14. /\ recycled' \in [Ids -> Seq(Entities)] /\ recycled'[m] = <<>>
       /\ m # active_range => recycled'[active_range] = saved
       /\ \A n \in Ids : n # m /\ n # active_range => recycled'[n] = recycled[n]
  BY <1>1, <1>2, <1>5, EmptySeq
<1>15. RangeSet' = RangeSet /\ \A n, d : InRange(n, d)' <=> InRange(n, d)
  BY <1>2 DEF RangeSet, InRange
<1>16. ASSUME NEW i \in alive_count' .. Len(dense')
       PROVE  InActiveRange(dense[i].id)'
  <2>1. /\ i \in 1 .. alive_count - 1 + Len(load) /\ ~ (i <= alive_count - 1)
        /\ i - (alive_count - 1) \in DOMAIN load
    BY <1>2, <1>5, <1>8, <1>40
  <2>2. InRange(m, dense'[i].id)
    BY <1>7, <1>8, <2>1
  <2> QED  BY <1>2, <2>2 DEF InActiveRange, InRange
<1>17. ASSUME NEW n \in Ids, NEW i \in DOMAIN recycled'[n]
       PROVE  n \in RangeSet /\ InRange(n, recycled'[n][i].id)
  <2>1. n # m
    BY <1>14
  <2>2. CASE n = active_range
    BY <1>1, <1>6, <1>14, <2>1, <2>2
  <2>3. CASE n # active_range
    BY <1>14, <2>1, <2>3 DEF LooseInv, RecycledInRange
  <2> QED  BY <2>2, <2>3
<1>18. RecycledInRange'
  BY <1>15, <1>16, <1>17 DEF RecycledInRange
<1>19. RangesKept'
  <2>1. \A n \in RangeSet' : range_max'[n] # 0 => n <= range_max'[n]
    BY <1>2, <1>15 DEF LooseInv, RangesKept
  <2>2. active_range' # 0 /\ active_range' \in RangeSet'
    BY <1>1, <1>2, <1>15 DEF Ids
  <2> QED  BY <2>1, <2>2 DEF RangesKept
<1>20. TypeOK'
  <2>1. active_range' \in 0 .. MaxId /\ alive_count' \in Nat \ {0} /\ issued' \subseteq Entities
    BY <1>1, <1>2 DEF Ids
  <2>2. ranges' \in Seq(Ids) /\ range_max' \in [Ids -> 0 .. MaxId] /\ retired' \subseteq Entities
    BY <1>2 DEF LooseInv, TypeOK
  <2>3. cur' \in [Ids -> 0 .. MaxId] /\ max_id' \in 0 .. MaxId
    BY <1>1, <1>2
  <2> QED  BY <1>8, <1>12, <1>14, <2>1, <2>2, <2>3 DEF TypeOK
<1>21. alive_count' <= Len(dense') + 1
  BY <1>1, <1>2, <1>5, <1>8
<1> QED  BY <1>13, <1>18, <1>19, <1>20, <1>21 DEF LooseInv, RecordsFind

\* Every call on the index keeps LooseInv.
LEMMA NextLoose ==
    ASSUME LooseInv, [Next]_vars
    PROVE  LooseInv'
<1>1. CASE NewRecycled
  BY <1>1, NewRecycledLoose
<1>2. CASE NewFresh
  BY <1>2, NewFreshLoose
<1>3. ASSUME NEW count \in 2 .. MaxBulk, NewIds(count) PROVE LooseInv'
  BY <1>3, NewIdsLoose
<1>4. ASSUME NEW e \in Entities, Delete(e) PROVE LooseInv'
  BY <1>4, DeleteActiveLoose, DeleteInactiveLoose
<1>5. ASSUME NEW e \in Entities, MakeAlive(e) PROVE LooseInv'
  BY <1>5, MakeAliveLoose
<1>6. ASSUME NEW e \in Entities, SetVersion(e) PROVE LooseInv'
  BY <1>6, SetVersionLoose
<1>7. ASSUME NEW min \in Ids, NEW max \in 0 .. MaxId, RangeNew(min, max) PROVE LooseInv'
  <2>1. RangeNewFirst(min, max) \/ RangeNewNext(min, max)
    BY <1>7 DEF RangeNew
  <2> QED  BY <1>7, <2>1, RangeNewFirstLoose, RangeNewNextLoose
<1>8. ASSUME NEW m \in RangeSet, RangeSetActive(m) PROVE LooseInv'
  BY <1>8, RangeSetLoose
<1>9. CASE UNCHANGED vars
  <2>1. TypeOK' /\ alive_count' <= Len(dense') + 1 /\ RecordsFind(dense', records')
    BY <1>9 DEF vars, LooseInv, TypeOK
  <2>2. UNCHANGED rangeVars /\ \A i \in alive_count' .. Len(dense') : InActiveRange(dense'[i].id)
    BY <1>9 DEF vars, rangeVars, LooseInv, RecycledInRange
  <2> QED  BY <2>1, <2>2, LooseStep
<1> QED  BY <1>1, <1>2, <1>3, <1>4, <1>5, <1>6, <1>7, <1>8, <1>9 DEF Next

\* Recycled ids never leak across ranges, whatever is asked of the index: an id
\* that bulk creation or ecs_make_alive brought into use outside the active range
\* is recycled by the range it belongs to as well.
THEOREM RecycledStaysInRange == Spec => []RecycledInRange
<1>1. Init => LooseInv
  BY EmptySeq DEF Init, LooseInv, TypeOK, RecordsFind, RecycledInRange, RangesKept, RangeSet,
     InActiveRange, Ids
<1>2. LooseInv /\ [Next]_vars => LooseInv'
  BY NextLoose
<1>3. LooseInv => RecycledInRange
  BY DEF LooseInv
<1> QED  BY <1>1, <1>2, <1>3, PTL DEF Spec
=============================================================================
