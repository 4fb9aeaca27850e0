---------------------------- MODULE EntityIndex ----------------------------
(***************************************************************************)
(* The entity index of a world (storage/entity_index.c) with the calls of  *)
(* the public API that change it: ecs_new, bulk creation, ecs_delete,      *)
(* ecs_make_alive, ecs_set_version, ecs_entity_range_new and               *)
(* ecs_entity_range_set.                                                   *)
(*                                                                         *)
(* Slot 0 of the C array `dense` is reserved, so position i of the TLA+    *)
(* sequence is slot i of the array.  Slots below alive_count hold the      *)
(* entities that are alive, the slots from alive_count on the ids that     *)
(* wait to be recycled, each with the generation its next use will have.   *)
(* A range is identified by its first id, standing for the pointer.        *)
(***************************************************************************)
EXTENDS Integers, Sequences, FiniteSets

CONSTANTS
    MaxId,            \* largest entity id (UINT32_MAX in the code)
    MaxGen,           \* largest generation (0xFFFF in the code)
    MaxBulk,          \* largest count of one bulk creation
    RangeDiscipline   \* TRUE: bulk creation and make_alive stay in the range

ASSUME MaxIdAssumption == MaxId \in Nat \ {0}
ASSUME MaxGenAssumption == MaxGen \in Nat \ {0}
ASSUME MaxBulkAssumption == MaxBulk \in Nat
ASSUME DisciplineAssumption == RangeDiscipline \in BOOLEAN

VARIABLES
    dense,         \* index->dense
    records,       \* the dense field of each id's ecs_record_t, 0: no entry
    alive_count,   \* index->alive_count
    max_id,        \* index->max_id
    ranges,        \* index->ranges, the vector of ranges sorted by min
    range_max,     \* max of each range, 0: unbounded
    cur,           \* the max_id saved while a range is not active
    recycled,      \* the recycled ids saved while a range is not active
    active_range,  \* index->active_range, 0: NULL
    retired,       \* history: deleted handles the generation tells apart
    issued         \* history: the ids handed out by the last new or bulk call

vars == <<dense, records, alive_count, max_id, ranges, range_max, cur,
          recycled, active_range, retired, issued>>

rangeVars == <<ranges, range_max, cur, recycled, active_range>>

Ids == 1 .. MaxId
Gens == 0 .. MaxGen

\* ecs_entity_t: 32 bits of id and 16 bits of generation
Entities == [id : Ids, gen : Gens]

\* ECS_GENERATION_INC
GenerationInc(e) == [e EXCEPT !.gen = (e.gen + 1) % (MaxGen + 1)]

Larger(a, b) == IF a > b THEN a ELSE b
-----------------------------------------------------------------------------
(***************************************************************************)
(* Queries on the index.                                                   *)
(***************************************************************************)
Exists(d) == records[d] # 0

IsAlive(e) ==
    /\ Exists(e.id)
    /\ records[e.id] < alive_count
    /\ dense[records[e.id]] = e

\* An entity with this id is alive, whatever its generation.
IdIsAlive(d) == Exists(d) /\ records[d] < alive_count

NotAliveCount == Len(dense) + 1 - alive_count

RangeSet == {ranges[i] : i \in DOMAIN ranges}

InRange(m, d) == d >= m /\ (range_max[m] = 0 \/ d <= range_max[m])

InActiveRange(d) == active_range # 0 => InRange(active_range, d)

\* flecs_entity_index_find_range: the range holding d, 0 if there is none
FindRange(d) ==
    IF \E m \in RangeSet : InRange(m, d)
      THEN CHOOSE m \in RangeSet : InRange(m, d)
      ELSE 0
-----------------------------------------------------------------------------
Init ==
    /\ dense = <<>>
    /\ records = [d \in Ids |-> 0]
    /\ alive_count = 1
    /\ max_id = 0
    /\ ranges = <<>>
    /\ range_max = [m \in Ids |-> 0]
    /\ cur = [m \in Ids |-> 0]
    /\ recycled = [m \in Ids |-> <<>>]
    /\ active_range = 0
    /\ retired = {}
    /\ issued = {}

(***************************************************************************)
(* ecs_new.  The guard on a fresh id holds the two assertions: the id fits *)
(* its 32 bits, and it does not exceed the active range.                   *)
(***************************************************************************)
NewRecycled ==
    /\ alive_count # Len(dense) + 1
    /\ issued' = {dense[alive_count]}
    /\ alive_count' = alive_count + 1
    /\ UNCHANGED <<dense, records, max_id, rangeVars, retired>>

NewFresh ==
    LET e == [id |-> max_id + 1, gen |-> 0]
    IN  /\ alive_count = Len(dense) + 1
        /\ max_id < MaxId
        /\ active_range # 0 /\ range_max[active_range] # 0
             => e.id <= range_max[active_range]
        /\ max_id' = e.id
        /\ dense' = Append(dense, e)
        /\ records' = [records EXCEPT ![e.id] = alive_count]
        /\ alive_count' = alive_count + 1
        /\ issued' = {e}
        /\ UNCHANGED <<rangeVars, retired>>

(***************************************************************************)
(* flecs_entity_index_new_ids: recycles what there is, then takes fresh    *)
(* ids.  Unlike ecs_new this path never looks at the active range; with    *)
(* RangeDiscipline the caller does not ask for more than the range has.    *)
(***************************************************************************)
\* How many of count ids are not there to be recycled.
ToAdd(count) == alive_count + count - (Len(dense) + 1)

FreshIds(n) == [i \in 1 .. n |-> [id |-> max_id + i, gen |-> 0]]

FreshRecords(n) ==
    [d \in Ids |-> IF d \in max_id + 1 .. max_id + n
                     THEN Len(dense) + d - max_id ELSE records[d]]

NewIds(count) ==
    /\ IF ToAdd(count) <= 0
         THEN UNCHANGED <<dense, records, max_id>>
         ELSE /\ max_id + ToAdd(count) <= MaxId
              /\ RangeDiscipline => InActiveRange(max_id + ToAdd(count))
              /\ dense' = dense \o FreshIds(ToAdd(count))
              /\ records' = FreshRecords(ToAdd(count))
              /\ max_id' = max_id + ToAdd(count)
    /\ alive_count' = alive_count + count
    /\ issued' = {dense'[i] : i \in alive_count .. alive_count + count - 1}
    /\ UNCHANGED <<rangeVars, retired>>

(***************************************************************************)
(* ecs_delete, as far as the index is concerned: the entity changes places *)
(* with the last alive one and its generation is incremented.              *)
(***************************************************************************)
\* Mutant: the generation of the deleted entity is not incremented.
RemovedDenseSameGen(e) ==
    [dense EXCEPT ![records[e.id]] = dense[alive_count - 1],
                  ![alive_count - 1] = e]

RemovedDense(e) ==
    [dense EXCEPT ![records[e.id]] = dense[alive_count - 1],
                  ![alive_count - 1] = GenerationInc(e)]

RemovedRecords(e) ==
    [records EXCEPT ![dense[alive_count - 1].id] = records[e.id],
                    ![e.id] = alive_count - 1]

\* flecs_entity_index_remove_not_alive: the last entry fills slot `slot`.
DropDense(seq, slot) ==
    [i \in 1 .. Len(seq) - 1 |-> IF i = slot THEN seq[Len(seq)] ELSE seq[i]]

DropRecords(rec, seq, slot, e) ==
    [rec EXCEPT ![seq[Len(seq)].id] = slot, ![e.id] = 0]

\* What the generation no longer tells apart after it wraps is forgotten.
RetiredBy(e) ==
    IF e.gen = MaxGen THEN {h \in retired : h.id # e.id}
                      ELSE retired \union {e}

\* Mutant: a deleted id stays in the index, whatever range it is of.
DeleteKeep(e) ==
    /\ IsAlive(e)
    /\ alive_count' = alive_count - 1
    /\ dense' = RemovedDense(e)
    /\ records' = RemovedRecords(e)
    /\ retired' = RetiredBy(e)
    /\ issued' = {}
    /\ UNCHANGED <<max_id, rangeVars>>

Delete(e) ==
    /\ IsAlive(e)
    /\ alive_count' = alive_count - 1
    /\ IF InActiveRange(e.id)
         THEN /\ dense' = RemovedDense(e)
              /\ records' = RemovedRecords(e)
              /\ UNCHANGED recycled
         ELSE /\ dense' = DropDense(RemovedDense(e), alive_count - 1)
              /\ records' = DropRecords(RemovedRecords(e), RemovedDense(e),
                                        alive_count - 1, e)
              /\ recycled' =
                   IF FindRange(e.id) = 0 THEN recycled
                   ELSE [recycled EXCEPT ![FindRange(e.id)] =
                           Append(@, GenerationInc(e))]
    /\ retired' = RetiredBy(e)
    /\ issued' = {}
    /\ UNCHANGED <<max_id, ranges, range_max, cur, active_range>>

(***************************************************************************)
(* ecs_make_alive of an id that is not alive: flecs_entities_make_alive    *)
(* sets the generation of an existing entry, flecs_entities_ensure adds    *)
(* the entry or moves it to the first not alive slot.                      *)
(***************************************************************************)
SlotOf(e) == IF Exists(e.id) THEN records[e.id] ELSE Len(dense) + 1

EnsuredDense(e) ==
    LET ids == IF Exists(e.id) THEN [dense EXCEPT ![records[e.id]] = e]
                               ELSE Append(dense, e)
    IN  [ids EXCEPT ![SlotOf(e)] = ids[alive_count], ![alive_count] = e]

EnsuredRecords(e) ==
    LET swap == IF alive_count <= Len(dense) THEN dense[alive_count].id
                                             ELSE e.id
    IN  [records EXCEPT ![swap] = SlotOf(e), ![e.id] = alive_count]

\* Setting a generation by hand gives up what later generations told apart.
RetiredBelow(e) == {h \in retired : h.id = e.id => h.gen < e.gen}

\* Mutant: max_id is not raised to the id that is made alive.
MakeAliveSameMax(e) ==
    /\ ~ IdIsAlive(e.id)
    /\ RangeDiscipline => InActiveRange(e.id)
    /\ dense' = EnsuredDense(e)
    /\ records' = EnsuredRecords(e)
    /\ alive_count' = alive_count + 1
    /\ retired' = RetiredBelow(e)
    /\ issued' = {}
    /\ UNCHANGED <<max_id, rangeVars>>

\* Mutant: an entry that exists is made alive where it is, without a swap.
MakeAliveNoSwap(e) ==
    /\ ~ IdIsAlive(e.id)
    /\ RangeDiscipline => InActiveRange(e.id)
    /\ IF Exists(e.id)
         THEN /\ dense' = [dense EXCEPT ![records[e.id]] = e]
              /\ UNCHANGED <<records, max_id>>
         ELSE /\ dense' = EnsuredDense(e)
              /\ records' = EnsuredRecords(e)
              /\ max_id' = Larger(e.id, max_id)
    /\ alive_count' = alive_count + 1
    /\ retired' = RetiredBelow(e)
    /\ issued' = {}
    /\ UNCHANGED rangeVars

MakeAlive(e) ==
    /\ ~ IdIsAlive(e.id)
    /\ RangeDiscipline => InActiveRange(e.id)
    /\ dense' = EnsuredDense(e)
    /\ records' = EnsuredRecords(e)
    /\ max_id' = IF Exists(e.id) THEN max_id ELSE Larger(e.id, max_id)
    /\ alive_count' = alive_count + 1
    /\ retired' = RetiredBelow(e)
    /\ issued' = {}
    /\ UNCHANGED rangeVars

\* ecs_set_version: overrides the generation of an entry, alive or not.
SetVersion(e) ==
    /\ Exists(e.id)
    /\ dense' = [dense EXCEPT ![records[e.id]] = e]
    /\ retired' = RetiredBelow(e)
    /\ issued' = {}
    /\ UNCHANGED <<records, alive_count, max_id, rangeVars>>
-----------------------------------------------------------------------------
(***************************************************************************)
(* Ranges.                                                                 *)
(***************************************************************************)
Overlap(m, x, min, max) ==
    /\ max = 0 \/ max >= m
    /\ x = 0 \/ min <= x

\* Mutant: the new range goes behind all others.
InsertLast(s, m) == Append(s, m)

\* The vector with m inserted behind the ranges that start at or below it.
Insert(s, m) ==
    LET n == Cardinality({i \in DOMAIN s : s[i] <= m})
    IN  SubSeq(s, 1, n) \o <<m>> \o SubSeq(s, n + 1, Len(s))

RangeNewFirst(min, max) ==
    /\ ranges = <<>>
    /\ IF min = 1
         THEN /\ max # 0 => max >= max_id
              /\ ranges' = <<1>>
              /\ range_max' = [range_max EXCEPT ![1] = max]
              /\ cur' = [cur EXCEPT ![1] = max_id]
         ELSE /\ min - 1 >= max_id
              /\ ranges' = <<1, min>>
              /\ range_max' = [range_max EXCEPT ![1] = min - 1, ![min] = max]
              /\ cur' = [cur EXCEPT ![1] = max_id, ![min] = min - 1]
    /\ active_range' = 1

RangeNewNext(min, max) ==
    /\ ranges # <<>>
    /\ \A m \in RangeSet : ~ Overlap(m, range_max[m], min, max)
    /\ ranges' = Insert(ranges, min)
    /\ range_max' = [range_max EXCEPT ![min] = max]
    /\ cur' = [cur EXCEPT ![min] = min - 1]
    /\ UNCHANGED active_range

\* ecs_entity_range_new; the first range of a world is also activated.
RangeNew(min, max) ==
    /\ max # 0 => max >= min
    /\ NotAliveCount = 0
    /\ RangeNewFirst(min, max) \/ RangeNewNext(min, max)
    /\ issued' = {}
    /\ UNCHANGED <<dense, records, alive_count, max_id, recycled, retired>>

LoadPosition(load, d) ==
    CHOOSE i \in DOMAIN load :
        load[i].id = d /\ \A j \in DOMAIN load : load[j].id = d => j <= i

(***************************************************************************)
(* flecs_entity_index_set_range: the ids to recycle are saved with the     *)
(* active range, those of range m are loaded in their place.               *)
(***************************************************************************)
SavedIds == SubSeq(dense, alive_count, Len(dense))

SavedRecycled == IF active_range = 0 THEN recycled
                 ELSE [recycled EXCEPT ![active_range] = SavedIds]

SavedCur == IF active_range = 0 THEN cur
            ELSE [cur EXCEPT ![active_range] = max_id]

LoadedRecords(load) ==
    [d \in Ids |->
        IF \E i \in DOMAIN load : load[i].id = d
          THEN alive_count + LoadPosition(load, d) - 1
        ELSE IF \E i \in DOMAIN SavedIds : SavedIds[i].id = d THEN 0
        ELSE records[d]]

\* Mutant: the list that was loaded is not emptied.
RangeSetActiveKeep(m) ==
    /\ dense' = SubSeq(dense, 1, alive_count - 1) \o SavedRecycled[m]
    /\ records' = LoadedRecords(SavedRecycled[m])
    /\ recycled' = SavedRecycled
    /\ cur' = SavedCur
    /\ max_id' = SavedCur[m]
    /\ active_range' = m
    /\ issued' = {}
    /\ UNCHANGED <<alive_count, ranges, range_max, retired>>

RangeSetActive(m) ==
    /\ dense' = SubSeq(dense, 1, alive_count - 1) \o SavedRecycled[m]
    /\ records' = LoadedRecords(SavedRecycled[m])
    /\ recycled' = [SavedRecycled EXCEPT ![m] = <<>>]
    /\ cur' = SavedCur
    /\ max_id' = SavedCur[m]
    /\ active_range' = m
    /\ issued' = {}
    /\ UNCHANGED <<alive_count, ranges, range_max, retired>>
-----------------------------------------------------------------------------
Next ==
    \/ NewRecycled
    \/ NewFresh
    \/ \E count \in 2 .. MaxBulk : NewIds(count)
    \/ \E e \in Entities : Delete(e) \/ MakeAlive(e) \/ SetVersion(e)
    \/ \E min \in Ids, max \in 0 .. MaxId : RangeNew(min, max)
    \/ \E m \in RangeSet : RangeSetActive(m)

Spec == Init /\ [][Next]_vars
-----------------------------------------------------------------------------
(***************************************************************************)
(* Properties.                                                             *)
(***************************************************************************)
TypeOK ==
    /\ dense \in Seq(Entities)
    /\ records \in [Ids -> Nat]
    /\ alive_count \in Nat \ {0}
    /\ max_id \in 0 .. MaxId
    /\ ranges \in Seq(Ids)
    /\ range_max \in [Ids -> 0 .. MaxId]
    /\ cur \in [Ids -> 0 .. MaxId]
    /\ recycled \in [Ids -> Seq(Entities)]
    /\ active_range \in 0 .. MaxId
    /\ retired \subseteq Entities
    /\ issued \subseteq Entities

\* Every slot of seq is the slot its id's record points at, and every record
\* points at the slot that holds its id.
Agree(seq, rec) ==
    /\ \A i \in 1 .. Len(seq) : rec[seq[i].id] = i
    /\ \A d \in Ids : rec[d] # 0 =>
          rec[d] \in 1 .. Len(seq) /\ seq[rec[d]].id = d

\* The swaps of remove and ensure, and the reload of set_range, never leave a
\* record pointing at the slot of another entity.
DenseRecordsAgree ==
    /\ alive_count <= Len(dense) + 1
    /\ Agree(dense, records)

\* An id saved in the recycled list of a range has no entry in the index, and
\* is in one list only, once: it can never be handed out twice.
RecycledOnce ==
    \A m \in Ids : \A i \in DOMAIN recycled[m] :
        /\ records[recycled[m][i].id] = 0
        /\ \A n \in Ids : \A j \in DOMAIN recycled[n] :
              recycled[n][j].id = recycled[m][i].id => n = m /\ j = i

\* "Recycled ids never leak across ranges": the ids waiting in the index are of
\* the active range, those saved with a range are of that range, whatever ids bulk
\* creation and make_alive brought into use outside the active range.
RecycledInRange ==
    /\ \A i \in alive_count .. Len(dense) : InActiveRange(dense[i].id)
    /\ \A m \in Ids : \A i \in DOMAIN recycled[m] :
          m \in RangeSet /\ InRange(m, recycled[m][i].id)

\* "When the active range runs out of available ids, operations that create new
\* entities will assert" (docs/EntitiesComponents.md:444): what ecs_new and bulk
\* creation hand out is in the active range.  Bulk creation breaks it.
IssuedInRange == \A e \in issued : InActiveRange(e.id)

\* The assertion "new entity id already in use" of new_id and new_ids: no id
\* above max_id of the active range is in use.
FreshIdUnused ==
    \A d \in Ids : d > max_id /\ InActiveRange(d) => ~ Exists(d)

\* A handle that was deleted is never alive again, across recycling, range
\* switches and bulk creation, until its 16 bit generation has wrapped around.
NoResurrection == \A h \in retired : ~ IsAlive(h)

\* The index implements the set of handles of EntityHandles: swapping, recycling
\* and loading ranges never change which handles are alive behind the caller.
Alive == {dense[i] : i \in 1 .. alive_count - 1}

Handles == INSTANCE EntityHandles WITH live <- Alive

ImplementsHandles == Handles!Spec

\* flecs_entity_index_find_range: a binary search over the ranges.  SearchStep is
\* one turn of its loop, with the positions w[1] to w[2] left.
SearchStep(d, search, w) ==
    LET mid == (w[1] + w[2]) \div 2
        m == ranges[mid]
    IN  IF w[1] > w[2] THEN 0
        ELSE IF d < m THEN search[<<w[1], mid - 1>>]
        ELSE IF range_max[m] # 0 /\ d > range_max[m] THEN search[<<mid + 1, w[2]>>]
        ELSE m

Windows == (1 .. Len(ranges) + 1) \X (0 .. Len(ranges))

BinarySearch(d) ==
    LET search[w \in Windows] == SearchStep(d, search, w)
    IN  search[<<1, Len(ranges)>>]

\* The binary search by which remove finds the list for an id reaches the range
\* of every id, in the order in which ranges are inserted and never overlap.
SearchFindsRange ==
    \A d \in Ids :
        /\ BinarySearch(d) = FindRange(d)
        /\ \A m, n \in RangeSet : InRange(m, d) /\ InRange(n, d) => m = n
-----------------------------------------------------------------------------
(***************************************************************************)
(* The inductive invariant behind the properties.                          *)
(***************************************************************************)
\* Ranges do not overlap, one of them is active as soon as there are any, and
\* the active one has nothing saved.
RangesDisjoint ==
    /\ active_range = 0 <=> RangeSet = {}
    /\ active_range # 0 => active_range \in RangeSet /\ recycled[active_range] = <<>>
    /\ \A m \in RangeSet : range_max[m] # 0 => m <= range_max[m]
    /\ \A m, n \in RangeSet : \A d \in Ids : InRange(m, d) /\ InRange(n, d) => m = n

\* The last id a range has handed out.
LastIssued(m) == IF m = active_range THEN max_id ELSE cur[m]

\* An id in use, or saved to be recycled, was handed out by the range it is in;
\* without ranges all of them are below max_id.
UsedBelowLast ==
    /\ \A m \in RangeSet : m - 1 <= LastIssued(m)
    /\ \A d \in Ids : Exists(d) =>
          IF active_range = 0 THEN d <= max_id
          ELSE \E m \in RangeSet : InRange(m, d) /\ d <= LastIssued(m)
    /\ \A m \in Ids : \A i \in DOMAIN recycled[m] : recycled[m][i].id <= LastIssued(m)

\* The generation of an id, in the index or saved with a range, is above that of
\* every retired handle of the id.
RetiredBehind ==
    \A h \in retired :
        \/ Exists(h.id) /\ h.gen < dense[records[h.id]].gen
        \/ \E m \in Ids : \E i \in DOMAIN recycled[m] :
              recycled[m][i].id = h.id /\ h.gen < recycled[m][i].gen

IndInv ==
    /\ TypeOK
    /\ DenseRecordsAgree
    /\ RecycledOnce
    /\ RecycledInRange
    /\ RangesDisjoint
    /\ UsedBelowLast
    /\ RetiredBehind

(***************************************************************************)
(* What is left of it when ids are made outside the active range: an id    *)
(* may then have two slots, but its record still finds one of them.        *)
(***************************************************************************)
RecordsFind(seq, rec) ==
    \A d \in Ids : rec[d] # 0 => rec[d] \in 1 .. Len(seq) /\ seq[rec[d]].id = d

RangesKept ==
    /\ active_range = 0 <=> RangeSet = {}
    /\ active_range # 0 => active_range \in RangeSet
    /\ \A m \in RangeSet : range_max[m] # 0 => m <= range_max[m]

LooseInv ==
    /\ TypeOK
    /\ alive_count <= Len(dense) + 1
    /\ RecordsFind(dense, records)
    /\ RecycledInRange
    /\ RangesKept
=============================================================================
