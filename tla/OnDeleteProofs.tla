--------------------------- MODULE OnDeleteProofs ---------------------------
(***************************************************************************)
(* A deletion leaves neither marks nor references to what it deleted, for  *)
(* all entities, ids, traits and worlds: the theorems of OnDelete, from    *)
(* the inductive invariant IndInv.                                         *)
(***************************************************************************)
EXTENDS OnDelete, TLAPS, FiniteSetTheorems

USE EntitiesAssumption, IdsAssumption, BoundsAssumption

(***************************************************************************)
(* The parts of the inductive invariant.                                   *)
(***************************************************************************)
Ids == Traits!Ids
Patterns == Traits!Patterns
Actions == {"Delete", "Remove", "Panic", "none"}
MarkedId == [id : Patterns, action : Actions, del : BOOLEAN]

\* The entities that can ever have an id.
Users == Holders \union {add[1] : add \in ObserverAdds}

\* ecs_delete_with and ecs_remove_all are not given wildcards.
PlainBulk == \A id \in BulkIds : ~ IsWildcard(id)

\* Nobody deletes with a tag or component that itself has ids, so that the deletion
\* does not reach it, and no observer refers to the entity that is being deleted.
Discipline ==
    /\ ~ DyingTargets
    /\ \A id \in BulkIds : IsPair(id) \/ id[1] \notin Users

TypeOK ==
    /\ DOMAIN type \in SUBSET Entities
    /\ type \in [DOMAIN type -> SUBSET Ids]
    /\ tables \in SUBSET SUBSET Ids
    /\ records \in SUBSET Patterns
    /\ flagged \in SUBSET records
    /\ doomed \in SUBSET tables
    /\ marked \in Seq(MarkedId)
    /\ calls \in Seq(MarkedId)
    /\ cmds \in Seq(ObserverAdds)
    /\ op.force \in BOOLEAN
    /\ pc \in {"idle", "call", "mark", "clear", "ids", "wildcards", "merge", "abort"}

\* Entities are in tables that exist, tables have the component records of their
\* ids, and a pair has the records of its wildcards.
StorePlace ==
    /\ \A e \in Alive : type[e] \in tables /\ (type[e] # {} => e \in Users)
    /\ \A table \in tables : \A id \in table : RecordsOf(id) \subseteq records
    /\ \A r \in records : ~ IsWildcard(r) => RecordsOf(r) \subseteq records

\* Between two calls of flecs_on_delete nothing is marked.
RestPlace ==
    pc \in {"idle", "call", "merge"} =>
        flagged = {} /\ doomed = {} /\ marked = <<>> /\ work = <<>>

\* An id with a mark is released with this marked id.
Covers(p, r) == r = p \/ (IsWildcard(p) /\ ~ IsWildcard(r) /\ Matches(p, r))

\* The marked id is still to be released.
Pending(m) ==
    \/ pc \in {"mark", "clear", "abort"}
    \/ pc = "ids" /\ (IsWildcard(m.id) \/ m \in Range(work))
    \/ pc = "wildcards" /\ IsWildcard(m.id) /\ m \in Range(work)

\* Marks have a reason: a marked id that will take them back.
MarksPlace ==
    /\ \A m \in Range(marked) : m.del \/ (m.id \in BulkIds /\ ~ op.force)
    /\ \A r \in flagged : \E m \in Range(marked) : Pending(m) /\ Covers(m.id, r)
    /\ \A table \in doomed : \E m \in Range(marked) : Pending(m) /\ HasMatch(m.id, table)

\* What is on the stack while ids are marked.
MarkItems ==
    [kind : {"id", "rest"}, x : Patterns, action : Actions, del : BOOLEAN]
    \union [kind : {"table"}, x : [id : Patterns, table : SUBSET Ids], action : Actions,
            del : BOOLEAN]
    \union [kind : {"entity"}, x : Entities, action : Actions, del : BOOLEAN]

MarkItem(item) ==
    /\ item.kind = "id" => item.del \/ (item.x \in BulkIds /\ ~ op.force)
    /\ item.kind = "table" =>
          /\ item.x.table \in tables /\ HasMatch(item.x.id, item.x.table)
          /\ \E m \in Range(marked) : m.id = item.x.id
    /\ item.kind = "rest" => \E m \in Range(marked) : m.id = item.x

\* No entity is left in a table of the id, except for prefabs, which stay.
Emptied(m) == \A table \in Filled(m.id) : Spared(table, m.del) /\ table \notin doomed

WorkPlace ==
    /\ pc = "mark" => work \in Seq(MarkItems) /\ \A item \in Range(work) : MarkItem(item)
    /\ pc \in {"clear"} \union Passes =>
          work \in Seq(MarkedId) /\ Range(work) \subseteq Range(marked)
    /\ pc = "clear" => \A m \in Range(marked) : Emptied(m) \/ m \in Range(work)
    /\ pc \in Passes => \A m \in Range(marked) : Emptied(m)

\* The records by which others refer to an entity.
IdsOf(e) == {<<e, NoTarget>>, <<e, Wildcard>>, <<Wildcard, e>>}

\* The record of the id will be deleted by the present call of flecs_on_delete, if
\* there is one.
Assured(id) ==
    \/ id \notin records
    \/ \E m \in Range(marked) : m.id = id /\ m.del /\ Pending(m)
    \/ pc = "mark" /\ \E item \in Range(work) : item.kind = "id" /\ item.x = id /\ item.del

\* An entity that is deleted takes its records with it.
Visited(e) == pc = "mark" /\ \E item \in Range(work) : item.kind = "entity" /\ item.x = e

DeadPlace ==
    Discipline =>
        /\ pc \notin {"clear", "abort"} \union Passes =>
              \A e \in Entities \ Alive : \A id \in IdsOf(e) : id \notin records
        /\ pc \in {"mark", "clear"} \union Passes =>
              \A e \in Entities : (e \notin Alive \/ type[e] \in doomed) =>
                  Visited(e) \/ \A id \in IdsOf(e) : Assured(id)

\* So does the entity that ecs_delete was called for, which goes last.
OpPlace ==
    /\ \A call \in Range(calls) : call.del \/ (call.id \in BulkIds /\ ~ op.force)
    /\ pc = "idle" => calls = <<>> /\ cmds = <<>>
    /\ pc = "merge" => calls = <<>>
    /\ op.entity # 0 => op.force /\ op.entity \in Entities
    /\ Discipline =>
          /\ pc \notin {"idle", "abort"} /\ op.entity # 0 =>
                \A id \in IdsOf(op.entity) :
                    Assured(id) \/ \E call \in Range(calls) : call.id = id /\ call.del
          /\ \A add \in Range(cmds) : op.entity \notin Traits!Mentions(add[2])

IndInv ==
    /\ TypeOK /\ StorePlace /\ RestPlace /\ MarksPlace /\ WorkPlace /\ DeadPlace
    /\ OpPlace
-----------------------------------------------------------------------------
(***************************************************************************)
(* Sequences and what they hold.                                           *)
(***************************************************************************)
\* Taking the first element off.
LEMMA TailRange ==
    ASSUME NEW S, NEW s \in Seq(S), s # <<>>
    PROVE  /\ Head(s) \in S /\ Tail(s) \in Seq(S)
           /\ Range(s) = {Head(s)} \union Range(Tail(s))
<1>1. /\ Len(s) \in Nat \ {0} /\ DOMAIN s = 1 .. Len(s) /\ Head(s) = s[1] /\ 1 \in DOMAIN s
      /\ Tail(s) \in Seq(S) /\ DOMAIN Tail(s) = 1 .. Len(s) - 1
      /\ \A k \in 1 .. Len(s) - 1 : Tail(s)[k] = s[k + 1]
  OBVIOUS
<1>2. Head(s) \in S
  BY <1>1
<1>3. ASSUME NEW y \in Range(s)
      PROVE  y = Head(s) \/ y \in Range(Tail(s))
  <2>1. PICK k \in DOMAIN s : y = s[k]
    BY <1>3 DEF Range
  <2>2. CASE k = 1
    BY <1>1, <2>1, <2>2
  <2>3. CASE k # 1
    <3>1. k - 1 \in DOMAIN Tail(s) /\ Tail(s)[k - 1] = s[(k - 1) + 1] /\ (k - 1) + 1 = k
      BY <1>1, <2>3
    <3> QED  BY <2>1, <3>1 DEF Range
  <2> QED  BY <2>2, <2>3
<1>4. ASSUME NEW y \in Range(Tail(s))
      PROVE  y \in Range(s)
  <2>1. PICK k \in DOMAIN Tail(s) : y = Tail(s)[k]
    BY <1>4 DEF Range
  <2>2. k + 1 \in DOMAIN s /\ y = s[k + 1]
    BY <1>1, <2>1
  <2> QED  BY <2>2 DEF Range
<1>5. Head(s) \in Range(s)
  BY <1>1 DEF Range
<1> QED  BY <1>1, <1>2, <1>3, <1>4, <1>5

\* Putting two sequences together.
LEMMA ConcatRange ==
    ASSUME NEW S, NEW s \in Seq(S), NEW t \in Seq(S)
    PROVE  s \o t \in Seq(S) /\ Range(s \o t) = Range(s) \union Range(t)
<1> DEFINE u == s \o t
<1>1. /\ u \in Seq(S) /\ Len(s) \in Nat /\ Len(t) \in Nat
      /\ DOMAIN s = 1 .. Len(s) /\ DOMAIN t = 1 .. Len(t)
      /\ DOMAIN u = 1 .. Len(s) + Len(t)
      /\ \A k \in 1 .. Len(s) + Len(t) :
            u[k] = IF k <= Len(s) THEN s[k] ELSE t[k - Len(s)]
  OBVIOUS
<1> HIDE DEF u
<1>2. ASSUME NEW y \in Range(u)
      PROVE  y \in Range(s) \union Range(t)
  <2>1. PICK k \in DOMAIN u : y = u[k]
    BY <1>2 DEF Range
  <2>2. CASE k <= Len(s)
    <3>1. k \in DOMAIN s /\ y = s[k]
      BY <1>1, <2>1, <2>2
    <3> QED  BY <3>1 DEF Range
  <2>3. CASE ~ (k <= Len(s))
    <3>1. k - Len(s) \in DOMAIN t /\ y = t[k - Len(s)]
      BY <1>1, <2>1, <2>3
    <3> QED  BY <3>1 DEF Range
  <2> QED  BY <2>2, <2>3
<1>3. ASSUME NEW y \in Range(s)
      PROVE  y \in Range(u)
  <2>1. PICK k \in DOMAIN s : y = s[k]
    BY <1>3 DEF Range
  <2>2. k \in DOMAIN u /\ u[k] = y
    BY <1>1, <2>1
  <2> QED  BY <2>2 DEF Range
<1>4. ASSUME NEW y \in Range(t)
      PROVE  y \in Range(u)
  <2>1. PICK k \in DOMAIN t : y = t[k]
    BY <1>4 DEF Range
  <2>2. Len(s) + k \in DOMAIN u /\ ~ (Len(s) + k <= Len(s)) /\ (Len(s) + k) - Len(s) = k
    BY <1>1
  <2>3. u[Len(s) + k] = y
    BY <1>1, <2>1, <2>2
  <2> QED  BY <2>2, <2>3 DEF Range
<1> QED  BY <1>1, <1>2, <1>3, <1>4 DEF u

\* Replacing the first element by others.
LEMMA PushRange ==
    ASSUME NEW S, NEW s \in Seq(S), NEW w \in Seq(S), w # <<>>
    PROVE  s \o Tail(w) \in Seq(S) /\ Range(s \o Tail(w)) = Range(s) \union Range(Tail(w))
<1> DEFINE t == Tail(w)
<1>1. t \in Seq(S)
  OBVIOUS
<1> HIDE DEF t
<1>2. s \o t \in Seq(S) /\ Range(s \o t) = Range(s) \union Range(t)
  BY <1>1, ConcatRange
<1> QED  BY <1>2 DEF t

\* Sequences that are written out.
LEMMA TupleRange ==
    ASSUME NEW S
    PROVE  /\ <<>> \in Seq(S) /\ Range(<<>>) = {}
           /\ \A a \in S : <<a>> \in Seq(S) /\ Range(<<a>>) = {a}
           /\ \A a, b, c \in S : <<a, b, c>> \in Seq(S) /\ Range(<<a, b, c>>) = {a, b, c}
<1>1. <<>> \in Seq(S) /\ Range(<<>>) = {}
  BY DEF Range
<1>2. ASSUME NEW a \in S
      PROVE  <<a>> \in Seq(S) /\ Range(<<a>>) = {a}
  <2>1. <<a>> \in Seq(S) /\ DOMAIN <<a>> = {1} /\ <<a>>[1] = a
    OBVIOUS
  <2> QED  BY <2>1 DEF Range
<1>3. ASSUME NEW a \in S, NEW b \in S, NEW c \in S
      PROVE  <<a, b, c>> \in Seq(S) /\ Range(<<a, b, c>>) = {a, b, c}
  <2> DEFINE s == <<a, b, c>>
  <2>1. s \in Seq(S) /\ DOMAIN s = {1, 2, 3} /\ s[1] = a /\ s[2] = b /\ s[3] = c
    OBVIOUS
  <2> HIDE DEF s
  <2>2. Range(s) = {a, b, c}
    BY <2>1 DEF Range
  <2> QED  BY <2>1, <2>2 DEF s
<1> QED  BY <1>1, <1>2, <1>3

\* One more marked id.
LEMMA AppendRange ==
    ASSUME NEW S, NEW s \in Seq(S), NEW a \in S
    PROVE  Append(s, a) \in Seq(S) /\ Range(Append(s, a)) = Range(s) \union {a}
<1> DEFINE t == <<a>>
<1>1. Append(s, a) = s \o t /\ Append(s, a) \in Seq(S)
  OBVIOUS
<1>2. t \in Seq(S) /\ Range(t) = {a}
  BY TupleRange
<1> HIDE DEF t
<1>3. Range(s \o t) = Range(s) \union Range(t)
  BY <1>2, ConcatRange
<1> QED  BY <1>1, <1>2, <1>3

\* A sequence and its reverse.
LEMMA ReverseRange ==
    ASSUME NEW S, NEW s \in Seq(S)
    PROVE  Reverse(s) \in Seq(S) /\ Range(Reverse(s)) = Range(s)
<1>1. Len(s) \in Nat /\ DOMAIN s = 1 .. Len(s) /\ s \in [1 .. Len(s) -> S]
  OBVIOUS
<1>2. \A k \in 1 .. Len(s) : (Len(s) - k) + 1 \in 1 .. Len(s)
                             /\ (Len(s) - ((Len(s) - k) + 1)) + 1 = k
  BY <1>1
<1> DEFINE u == Reverse(s)
<1>3. u \in [1 .. Len(s) -> S] /\ \A k \in 1 .. Len(s) : u[k] = s[(Len(s) - k) + 1]
  BY <1>1, <1>2 DEF Reverse
<1>4. u \in Seq(S)
  BY <1>1, <1>3
<1> HIDE DEF u
<1>5. DOMAIN u = 1 .. Len(s)
  BY <1>3
<1>6. ASSUME NEW y \in Range(u)
      PROVE  y \in Range(s)
  <2>1. PICK k \in DOMAIN u : y = u[k]
    BY <1>6 DEF Range
  <2> QED  BY <1>1, <1>2, <1>3, <1>5, <2>1 DEF Range
<1>7. ASSUME NEW y \in Range(s)
      PROVE  y \in Range(u)
  <2>1. PICK k \in DOMAIN s : y = s[k]
    BY <1>7 DEF Range
  <2>2. (Len(s) - k) + 1 \in DOMAIN u /\ u[(Len(s) - k) + 1] = s[k]
    BY <1>1, <1>2, <1>3, <1>5
  <2> QED  BY <2>1, <2>2 DEF Range
<1> QED  BY <1>4, <1>6, <1>7 DEF u

\* An order of a finite set has all of its members.
LEMMA OrderRange ==
    ASSUME NEW S, IsFiniteSet(S), NEW order \in SetToSeqs(S)
    PROVE  order \in Seq(S) /\ DOMAIN order = 1 .. Len(order) /\ Range(order) = S
<1> DEFINE n == Cardinality(S)
<1>1. n \in Nat
  BY FS_CardinalityType
<1>2. order \in [1 .. n -> S] /\ \A i, j \in 1 .. n : i # j => order[i] # order[j]
  BY DEF SetToSeqs
<1> HIDE DEF n
<1>3. order \in Seq(S) /\ DOMAIN order = 1 .. n /\ Len(order) = n
  BY <1>1, <1>2
<1>4. Range(order) \subseteq S
  BY <1>2 DEF Range
<1>5. order \in Bijection(1 .. n, Range(order))
  BY <1>2 DEF Bijection, Injection, Surjection, IsInjective, Range
<1>6. IsFiniteSet(1 .. n) /\ Cardinality(1 .. n) = n
  <2>1. IsFiniteSet(1 .. n) /\ Cardinality(1 .. n) = IF 1 > n THEN 0 ELSE n - 1 + 1
    BY <1>1, FS_Interval
  <2> QED  BY <1>1, <2>1
<1>7. IsFiniteSet(Range(order)) /\ Cardinality(Range(order)) = n
  <2>1. ExistsBijection(1 .. n, Range(order))
    BY <1>5 DEF ExistsBijection
  <2> QED  BY <1>6, <2>1, FS_Bijection
<1>8. Range(order) = S
  BY <1>4, <1>7, FS_Subset DEF n
<1> QED  BY <1>3, <1>8
-----------------------------------------------------------------------------
(***************************************************************************)
(* Ids and the records that stand for them.                                *)
(***************************************************************************)
\* Every id is a pair of numbers.
LEMMA PatternForm ==
    ASSUME NEW p \in Patterns
    PROVE  /\ p = <<p[1], p[2]>>
           /\ p[1] \in Entities \union {Wildcard}
           /\ p[2] \in Entities \union {Wildcard, NoTarget}
           /\ ~ IsWildcard(p) <=> p \in Ids
           /\ IsWildcard(p) => \E e \in Entities : p = <<e, Wildcard>> \/ p = <<Wildcard, e>>
<1>1. CASE p \in Ids
  BY <1>1 DEF Ids, Traits!Ids, IsWildcard, Wildcard, Traits!Wildcard, NoTarget,
              Traits!NoTarget
<1>2. CASE p \in Entities \X {Wildcard}
  <2>1. p = <<p[1], p[2]>>
    BY <1>2
  <2>2. p[1] \in Entities /\ p[2] = Wildcard
    BY <1>2
  <2>3. Wildcard \notin Entities \union {NoTarget}
    BY DEF Wildcard, Traits!Wildcard, NoTarget, Traits!NoTarget
  <2>4. p \notin Ids
    BY <2>2, <2>3 DEF Ids, Traits!Ids, NoTarget
  <2>5. IsWildcard(p)
    BY <2>2 DEF IsWildcard
  <2> QED  BY <2>1, <2>2, <2>4, <2>5
<1>3. CASE p \in {Wildcard} \X Entities
  <2>1. p = <<p[1], p[2]>>
    BY <1>3
  <2>2. p[1] = Wildcard /\ p[2] \in Entities
    BY <1>3
  <2>3. Wildcard \notin Entities \union {NoTarget}
    BY DEF Wildcard, Traits!Wildcard, NoTarget, Traits!NoTarget
  <2>4. p \notin Ids
    BY <2>2, <2>3 DEF Ids, Traits!Ids, NoTarget
  <2>5. IsWildcard(p)
    BY <2>2 DEF IsWildcard
  <2> QED  BY <2>1, <2>2, <2>4, <2>5
<1> QED  BY <1>1, <1>2, <1>3 DEF Patterns, Traits!Patterns, Ids, Wildcard

\* The id of an entity.
LEMMA IdForm ==
    ASSUME NEW id \in Ids
    PROVE  /\ id = <<id[1], id[2]>> /\ id \in Patterns /\ ~ IsWildcard(id)
           /\ id[1] \in Entities /\ id[2] \in Entities \union {NoTarget}
           /\ RecordsOf(id) \subseteq Patterns /\ id \in RecordsOf(id)
           /\ \A q \in RecordsOf(id) : ~ IsWildcard(q) => q = id
<1>1. /\ id = <<id[1], id[2]>> /\ id[1] \in Entities
      /\ id[2] \in Entities \union {NoTarget}
  BY DEF Ids, Traits!Ids, NoTarget
<1>2. id \in Patterns /\ ~ IsWildcard(id)
  BY <1>1 DEF Ids, Patterns, Traits!Patterns, IsWildcard, Wildcard, Traits!Wildcard,
              NoTarget, Traits!NoTarget
<1>3. IsPair(id) => id[2] \in Entities
  BY <1>1 DEF IsPair, Traits!IsPair, NoTarget
<1>4. RecordsOf(id) \subseteq Patterns
  BY <1>1, <1>2, <1>3 DEF RecordsOf, Patterns, Traits!Patterns, Wildcard
<1>5. id \in RecordsOf(id) /\ \A q \in RecordsOf(id) : ~ IsWildcard(q) => q = id
  BY DEF RecordsOf, IsWildcard
<1> QED  BY <1>1, <1>2, <1>4, <1>5

\* A marked id that releases a record of an id matches the id.
LEMMA CoversMatch ==
    ASSUME NEW p \in Patterns, NEW id \in Ids, NEW q \in RecordsOf(id), Covers(p, q)
    PROVE  Matches(p, id)
<1>1. CASE q = p
  BY <1>1 DEF RecordsOf, Matches, Traits!Matches, IsPair, Traits!IsPair, Wildcard
<1>2. CASE q # p
  <2>1. Matches(p, q) /\ ~ IsWildcard(q)
    BY <1>2 DEF Covers
  <2> QED  BY <2>1, IdForm
<1> QED  BY <1>1, <1>2

\* What matches an id and is not the id is a wildcard.
LEMMA MatchCovers ==
    ASSUME NEW p \in Patterns, NEW id \in Ids, Matches(p, id)
    PROVE  Covers(p, id) /\ (p = id \/ IsWildcard(p)) /\ p \in RecordsOf(id)
<1>1. p = id \/ p = <<id[1], Wildcard>> \/ p = <<Wildcard, id[2]>>
  BY DEF Matches, Traits!Matches, Wildcard
<1>2. p = id \/ IsWildcard(p)
  BY <1>1 DEF IsWildcard
<1>3. p \in RecordsOf(id)
  BY DEF RecordsOf, Matches, Traits!Matches, IsPair, Wildcard
<1> QED  BY <1>2, <1>3, IdForm DEF Covers

\* The records of an entity are released by nothing but themselves.
LEMMA CoversOwn ==
    ASSUME NEW p \in Patterns, NEW e \in Entities, NEW id \in IdsOf(e), Covers(p, id)
    PROVE  p = id
<1>1. CASE id = <<e, NoTarget>>
  BY <1>1 DEF Covers, Matches, Traits!Matches, Traits!IsPair, NoTarget
<1>2. CASE id # <<e, NoTarget>>
  BY <1>2 DEF Covers, IdsOf, IsWildcard
<1> QED  BY <1>1, <1>2

\* An id that comes with a record of an entity mentions the entity.
LEMMA RecordMentions ==
    ASSUME NEW id \in Ids, NEW e \in Entities, NEW q \in RecordsOf(id), q \in IdsOf(e)
    PROVE  e \in Traits!Mentions(id)
<1>1. e # NoTarget /\ e # Wildcard /\ Wildcard # NoTarget
  BY DEF NoTarget, Wildcard, Traits!NoTarget, Traits!Wildcard
<1>2. e = id[1] \/ e = id[2]
  BY <1>1, IdForm DEF RecordsOf, IdsOf, IsPair
<1> QED  BY <1>1, <1>2 DEF Traits!Mentions, NoTarget, Wildcard

\* A record that mentions an entity is one of its records or comes with one.
LEMMA MentionsRecord ==
    ASSUME NEW r \in Patterns, NEW e \in Traits!Mentions(r)
    PROVE  /\ e \in Entities
           /\ \/ r \in IdsOf(e)
              \/ ~ IsWildcard(r) /\ \E id \in IdsOf(e) : id \in RecordsOf(r)
<1>1. /\ e # NoTarget /\ e # Wildcard /\ e \in {r[1], r[2]}
  BY DEF Traits!Mentions, NoTarget, Wildcard
<1>2. e \in Entities
  BY <1>1, PatternForm
<1>3. CASE IsWildcard(r)
  BY <1>1, <1>2, <1>3, PatternForm DEF IdsOf
<1>4. CASE ~ IsWildcard(r)
  <2>1. r = <<r[1], r[2]>>
    BY PatternForm
  <2>2. CASE IsPair(r)
    <3>1. {<<r[1], Wildcard>>, <<Wildcard, r[2]>>} \subseteq RecordsOf(r)
      BY <2>2 DEF RecordsOf
    <3>2. <<e, Wildcard>> \in RecordsOf(r) \/ <<Wildcard, e>> \in RecordsOf(r)
      BY <1>1, <3>1
    <3> QED  BY <1>2, <1>4, <3>2 DEF IdsOf
  <2>3. CASE ~ IsPair(r)
    <3>1. r[2] = NoTarget
      BY <2>3 DEF IsPair, Traits!IsPair, NoTarget
    <3> QED  BY <1>1, <1>2, <2>1, <3>1 DEF IdsOf
  <2> QED  BY <2>2, <2>3
<1> QED  BY <1>2, <1>3, <1>4
-----------------------------------------------------------------------------
(***************************************************************************)
(* The steps.                                                              *)
(***************************************************************************)
\* What does not change with the state.
LEMMA Constants ==
    /\ Ids' = Ids /\ Patterns' = Patterns /\ MarkedId' = MarkedId /\ MarkItems' = MarkItems
    /\ Users' = Users /\ PlainBulk' = PlainBulk /\ Discipline' = Discipline
    /\ \A p : IsWildcard(p)' = IsWildcard(p)
    /\ \A p, r : Covers(p, r)' = Covers(p, r)
    /\ \A p, r : Matches(p, r)' = Matches(p, r)
    /\ \A p, table : HasMatch(p, table)' = HasMatch(p, table)
    /\ \A id : RecordsOf(id)' = RecordsOf(id)
    /\ \A e : IdsOf(e)' = IdsOf(e)
    /\ \A id : Traits!Mentions(id)' = Traits!Mentions(id)
    /\ \A table : IsPrefab(table)' = IsPrefab(table)
BY DEF Ids, Patterns, MarkedId, MarkItems, Actions, Users, PlainBulk, Discipline, IsWildcard, Covers,
  Matches, HasMatch, RecordsOf, IdsOf, IsPair, IsPrefab, Wildcard, NoTarget,
  Traits!Ids, Traits!Patterns, Traits!Matches, Traits!HasMatch, Traits!Mentions,
  Traits!IsPair, Traits!IsPrefab, Traits!Wildcard, Traits!NoTarget

\* Steps that leave entities, tables and records alone.
LEMMA StoreFrame ==
    ASSUME StorePlace, UNCHANGED <<type, tables, records>>
    PROVE  StorePlace'
BY Constants DEF StorePlace, Alive

\* Steps that leave the entities of tables alone.
LEMMA EmptiedFrame ==
    ASSUME UNCHANGED <<type, tables, doomed, op>>, NEW m
    PROVE  Emptied(m)' = Emptied(m)
<1>1. \A id : Filled(id)' = Filled(id)
  BY Constants DEF Filled, TablesOf, Rows, Alive
<1>2. \A table, del : Spared(table, del)' = Spared(table, del)
  BY Constants DEF Spared
<1> QED  BY <1>1, <1>2 DEF Emptied

\* Outside of marking and clearing, only a record that is gone is assured to go.
LEMMA RestAssured ==
    ASSUME RestPlace, pc \in {"call", "merge"}, NEW id, Assured(id)
    PROVE  id \notin records
<1>1. Range(marked) = {}
  BY TupleRange DEF RestPlace
<1> QED  BY <1>1 DEF Assured

\* The last call of flecs_on_delete has returned.
LEMMA CallsDoneStep ==
    ASSUME IndInv, CallsDone
    PROVE  IndInv'
<1>1. TypeOK'
  BY Constants DEF IndInv, CallsDone, TypeOK
<1>2. StorePlace'
  BY StoreFrame DEF IndInv, CallsDone
<1>3. RestPlace' /\ Range(marked) = {}
  BY TupleRange DEF IndInv, CallsDone, RestPlace
<1>4. MarksPlace'
  BY <1>3, Constants DEF IndInv, CallsDone, MarksPlace, RestPlace
<1>5. WorkPlace'
  BY DEF IndInv, CallsDone, WorkPlace, Passes
<1>6. DeadPlace'
  BY Constants DEF IndInv, CallsDone, DeadPlace, Alive, Passes
<1>7. OpPlace'
  <2>1. \A id : Assured(id) => Assured(id)'
    BY RestAssured DEF IndInv, CallsDone, Assured
  <2> QED  BY <2>1, Constants DEF IndInv, CallsDone, OpPlace
<1> QED  BY <1>1, <1>2, <1>3, <1>4, <1>5, <1>6, <1>7 DEF IndInv

\* An operation begins, and calls flecs_on_delete for what it deletes.
LEMMA BeginStep ==
    ASSUME IndInv, NEW entity, NEW todo \in Seq(MarkedId), NEW force \in BOOLEAN,
           Begin(entity, todo, force),
           \A call \in Range(todo) : call.del \/ (call.id \in BulkIds /\ ~ force),
           entity # 0 =>
               /\ force /\ entity \in Entities
               /\ \A id \in IdsOf(entity) : \E call \in Range(todo) : call.id = id /\ call.del
    PROVE  IndInv'
<1>1. TypeOK'
  BY Constants DEF IndInv, Begin, TypeOK
<1>2. StorePlace'
  BY StoreFrame DEF IndInv, Begin
<1>3. RestPlace' /\ Range(marked) = {} /\ Range(cmds) = {}
  BY TupleRange DEF IndInv, Begin, RestPlace, OpPlace
<1>4. MarksPlace'
  BY <1>3, Constants DEF IndInv, Begin, MarksPlace, RestPlace
<1>5. WorkPlace'
  BY DEF Begin, WorkPlace, Passes
<1>6. DeadPlace'
  BY Constants DEF IndInv, Begin, DeadPlace, Alive, Passes
<1>7. OpPlace'
  <2>1. op'.entity = entity /\ op'.force = force /\ calls' = todo /\ cmds' = cmds
    BY DEF Begin
  <2>2. pc' = "call"
    BY DEF Begin
  <2> QED  BY <1>3, <2>1, <2>2, Constants DEF OpPlace
<1> QED  BY <1>1, <1>2, <1>3, <1>4, <1>5, <1>6, <1>7 DEF IndInv

\* ecs_delete calls it for the three records of the entity; ecs_delete_with and
\* ecs_remove_all for the id they are given.
LEMMA ApplicationDeletes ==
    ASSUME IndInv,
           \/ \E e \in Alive : Delete(e)
           \/ \E id \in BulkIds : DeleteWith(id) \/ RemoveAll(id)
    PROVE  IndInv'
<1>1. ASSUME NEW e \in Alive, Delete(e)
      PROVE  IndInv'
  <2>1. e \in Entities /\ e # 0
    BY <1>1 DEF IndInv, TypeOK, Alive
  <2> DEFINE a == Call(<<Wildcard, e>>, "none", TRUE)
             b == Call(<<e, NoTarget>>, "none", TRUE)
             c == Call(<<e, Wildcard>>, "none", TRUE)
  <2>2. {<<Wildcard, e>>, <<e, NoTarget>>, <<e, Wildcard>>} \subseteq Patterns
    BY <2>1 DEF Patterns, Traits!Patterns, Traits!Ids, Wildcard, NoTarget
  <2>3. a \in MarkedId /\ b \in MarkedId /\ c \in MarkedId
    BY <2>2 DEF MarkedId, Actions, Call
  <2>5. a.id = <<Wildcard, e>> /\ b.id = <<e, NoTarget>> /\ c.id = <<e, Wildcard>>
        /\ a.del /\ b.del /\ c.del
    BY DEF Call
  <2>6. Begin(e, <<a, b, c>>, TRUE)
    BY <1>1 DEF Delete
  <2> HIDE DEF a, b, c
  <2>4. <<a, b, c>> \in Seq(MarkedId) /\ Range(<<a, b, c>>) = {a, b, c}
    BY <2>3, TupleRange
  <2>7. \A id \in IdsOf(e) : \E call \in Range(<<a, b, c>>) : call.id = id /\ call.del
    BY <2>4, <2>5 DEF IdsOf
  <2>8. \A call \in Range(<<a, b, c>>) : call.del \/ (call.id \in BulkIds /\ ~ TRUE)
    BY <2>4, <2>5
  <2> QED  BY <2>1, <2>4, <2>6, <2>7, <2>8, BeginStep
<1>2. ASSUME NEW id \in BulkIds, NEW action \in {"Delete", "Remove"},
             Begin(0, <<Call(id, action, FALSE)>>, FALSE)
      PROVE  IndInv'
  <2> DEFINE a == Call(id, action, FALSE)
  <2>1. a \in MarkedId
    BY DEF MarkedId, Actions, Patterns, Call
  <2>2. <<a>> \in Seq(MarkedId) /\ Range(<<a>>) = {a}
    BY <2>1, TupleRange
  <2>3. a.id \in BulkIds
    BY DEF Call
  <2> HIDE DEF a
  <2>4. Begin(0, <<a>>, FALSE)
    BY <1>2 DEF a
  <2> QED  BY <2>2, <2>3, <2>4, BeginStep
<1> QED  BY <1>1, <1>2 DEF DeleteWith, RemoveAll

\* flecs_on_delete takes up the id of a call, if there is a record for it.
LEMMA OnDeleteMarkStep ==
    ASSUME IndInv, OnDeleteMark
    PROVE  IndInv'
<1> DEFINE call == Head(calls)
           action == IF call.action = "none" /\ call.id[1] # Wildcard
                       THEN OnDeleteAction(call.id[1]) ELSE call.action
           item == Item("id", call.id, action, call.del)
<1>1. /\ call \in MarkedId /\ Tail(calls) \in Seq(MarkedId)
      /\ Range(calls) = {call} \union Range(Tail(calls))
  BY TailRange DEF IndInv, TypeOK, OnDeleteMark
<1>2. action \in Actions
  BY <1>1 DEF MarkedId, OnDeleteAction, Actions
<1>3. /\ pc = "call" /\ pc' \in {"mark", "abort"} /\ calls' = Tail(calls)
      /\ work' = IF call.id \in records THEN <<item>> ELSE <<>>
      /\ UNCHANGED <<type, tables, records, flagged, doomed, marked, cmds, op>>
  BY DEF OnDeleteMark
<1>4. /\ item \in MarkItems /\ item.kind = "id" /\ item.x = call.id /\ item.del = call.del
  BY <1>1, <1>2 DEF Item, MarkItems, MarkedId
<1> HIDE DEF item, action, call
<1>5. /\ work' \in Seq(MarkItems)
      /\ Range(work') = IF call.id \in records THEN {item} ELSE {}
  BY <1>3, <1>4, TupleRange
<1>6. /\ flagged = {} /\ doomed = {} /\ Range(marked) = {}
  BY <1>3, TupleRange DEF IndInv, RestPlace
<1>a. TypeOK'
  BY <1>1, <1>3, Constants DEF IndInv, TypeOK
<1>b. StorePlace'
  BY <1>3, StoreFrame DEF IndInv
<1>c. RestPlace' /\ MarksPlace'
  BY <1>3, <1>6, Constants DEF RestPlace, MarksPlace
<1>d. WorkPlace'
  <2>1. ASSUME NEW i \in Range(work')
        PROVE  MarkItem(i)'
    BY <1>1, <1>3, <1>4, <1>5 DEF IndInv, OpPlace, MarkItem
  <2> QED  BY <1>3, <1>5, <2>1, Constants DEF WorkPlace, Passes
<1>7. \A id : id \notin records => Assured(id)'
  BY <1>3 DEF Assured
<1>e. DeadPlace'
  BY <1>3, <1>6, <1>7, Constants DEF IndInv, DeadPlace, Alive, Passes
<1>f. OpPlace'
  <2>1. ASSUME Discipline, pc' = "mark", op.entity # 0, NEW id \in IdsOf(op.entity)
        PROVE  Assured(id)' \/ \E c \in Range(calls') : c.id = id /\ c.del
    <3>1. CASE id \notin records
      BY <1>7, <3>1
    <3>2. CASE id \in records
      <4>1. PICK c \in Range(calls) : c.id = id /\ c.del
        BY <1>3, <2>1, <3>2, RestAssured DEF IndInv, OpPlace
      <4>2. CASE c = call
        BY <1>3, <1>4, <1>5, <2>1, <3>2, <4>1, <4>2 DEF Assured
      <4>3. CASE c # call
        BY <1>1, <1>3, <4>1, <4>3
      <4> QED  BY <4>2, <4>3
    <3> QED  BY <3>1, <3>2
  <2>2. \A c \in Range(calls') : c.del \/ (c.id \in BulkIds /\ ~ op.force)
    BY <1>1, <1>3 DEF IndInv, OpPlace
  <2> QED  BY <1>3, <2>1, <2>2, Constants DEF IndInv, OpPlace
<1> QED  BY <1>a, <1>b, <1>c, <1>d, <1>e, <1>f DEF IndInv

\* An entity of a doomed table: its three records are marked next.
LEMMA MarkEntityStep ==
    ASSUME IndInv, MarkEntity
    PROVE  IndInv'
<1> DEFINE head == Head(work)
           e == head.x
           a == Item("id", <<e, NoTarget>>, OnDeleteAction(e), TRUE)
           b == Item("id", <<e, Wildcard>>, OnDeleteAction(e), TRUE)
           c == Item("id", <<Wildcard, e>>, "none", TRUE)
<1>1. /\ pc = "mark" /\ pc' = "mark" /\ work # <<>> /\ head.kind = "entity"
      /\ work' = <<a, b, c>> \o Tail(work)
      /\ UNCHANGED <<type, tables, records, flagged, doomed, marked, calls, cmds, op>>
  BY DEF MarkEntity, Marking
<1>2. /\ head \in MarkItems /\ Tail(work) \in Seq(MarkItems)
      /\ Range(work) = {head} \union Range(Tail(work))
  BY <1>1, TailRange DEF IndInv, WorkPlace
<1>3. e \in Entities
  BY <1>1, <1>2 DEF MarkItems
<1>4. {<<Wildcard, e>>, <<e, NoTarget>>, <<e, Wildcard>>} \subseteq Patterns
  BY <1>3 DEF Patterns, Traits!Patterns, Traits!Ids, Wildcard, NoTarget
<1>5. OnDeleteAction(e) \in Actions
  BY DEF OnDeleteAction, Actions
<1>6. a \in MarkItems /\ b \in MarkItems /\ c \in MarkItems
  BY <1>4, <1>5 DEF Item, MarkItems, Actions
<1>7. /\ a.kind = "id" /\ a.x = <<e, NoTarget>> /\ a.del
      /\ b.kind = "id" /\ b.x = <<e, Wildcard>> /\ b.del
      /\ c.kind = "id" /\ c.x = <<Wildcard, e>> /\ c.del
  BY DEF Item
<1> HIDE DEF a, b, c, e, head
<1>8. /\ work' \in Seq(MarkItems)
      /\ Range(work') = {a, b, c} \union Range(Tail(work))
  <2> DEFINE s == <<a, b, c>>
  <2>1. s \in Seq(MarkItems) /\ Range(s) = {a, b, c}
    BY <1>6, TupleRange
  <2> DEFINE v == s \o Tail(work)
  <2>2. work' = v
    BY <1>1
  <2> HIDE DEF s
  <2>3. work \in Seq(MarkItems)
    BY <1>1 DEF IndInv, WorkPlace
  <2>4. v \in Seq(MarkItems) /\ Range(v) = Range(s) \union Range(Tail(work))
    BY <1>1, <2>1, <2>3, PushRange
  <2> HIDE DEF v
  <2> QED  BY <2>1, <2>2, <2>4
<1>a. TypeOK'
  BY <1>1, Constants DEF IndInv, TypeOK
<1>b. StorePlace'
  BY <1>1, StoreFrame DEF IndInv
<1>9. \A m : Pending(m)
  BY <1>1 DEF Pending
<1>10. \A m : Pending(m)'
  BY <1>1 DEF Pending
<1>c. RestPlace' /\ MarksPlace'
  BY <1>1, <1>9, <1>10, Constants DEF IndInv, RestPlace, MarksPlace
<1>d. WorkPlace'
  <2>1. ASSUME NEW i \in Range(work')
        PROVE  MarkItem(i)'
    BY <1>1, <1>2, <1>7, <1>8, Constants DEF IndInv, WorkPlace, MarkItem
  <2> QED  BY <1>1, <1>8, <2>1, Constants DEF WorkPlace, Passes
<1>11. \A id : Assured(id) => Assured(id)'
  <2>1. \A m : m.kind = "id" /\ m \in Range(work) => m \in Range(work')
    BY <1>1, <1>2, <1>8
  <2> QED  BY <1>1, <1>10, <2>1 DEF Assured
<1>12. \A id \in IdsOf(e) : Assured(id)'
  BY <1>1, <1>7, <1>8 DEF IdsOf, Assured
<1>13. \A f : Visited(f) => Visited(f)' \/ f = e
  BY <1>1, <1>2, <1>8 DEF Visited, e
<1>e. DeadPlace'
  BY <1>1, <1>11, <1>12, <1>13, Constants DEF IndInv, DeadPlace, Alive
<1>f. OpPlace'
  BY <1>1, <1>11, Constants DEF IndInv, OpPlace
<1> QED  BY <1>a, <1>b, <1>c, <1>d, <1>e, <1>f DEF IndInv

\* Marking is over.
LEMMA MarkDoneStep ==
    ASSUME IndInv, MarkDone
    PROVE  IndInv'
<1>1. /\ pc = "mark" /\ work = <<>> /\ Range(work) = {}
      /\ UNCHANGED <<type, tables, records, flagged, doomed, marked, calls, cmds, op>>
  BY TupleRange DEF MarkDone
<1>2. \A e : ~ Visited(e)
  BY <1>1 DEF Visited
<1>b. StorePlace'
  BY <1>1, StoreFrame DEF IndInv
<1>3. CASE marked = <<>>
  <2>1. pc' = "call" /\ work' = work /\ Range(marked) = {}
    BY <1>3, TupleRange DEF MarkDone
  <2>2. flagged = {} /\ doomed = {}
    BY <2>1 DEF IndInv, MarksPlace
  <2>3. \A id : Assured(id) => Assured(id)'
    BY <1>1, <2>1 DEF Assured
  <2>a. TypeOK'
    BY <1>1, <2>1, Constants DEF IndInv, TypeOK
  <2>c. RestPlace' /\ MarksPlace' /\ WorkPlace'
    BY <1>1, <1>3, <2>1, <2>2, Constants DEF RestPlace, MarksPlace, WorkPlace, Passes
  <2>e. DeadPlace'
    BY <1>1, <2>1, Constants DEF IndInv, DeadPlace, Alive, Passes
  <2>f. OpPlace'
    BY <1>1, <2>1, <2>3, Constants DEF IndInv, OpPlace
  <2> QED  BY <1>b, <2>a, <2>c, <2>e, <2>f DEF IndInv
<1>4. CASE marked # <<>>
  <2>1. pc' = "clear" /\ work' = Reverse(marked)
    BY <1>4 DEF MarkDone, ClearOrder
  <2>2. work' \in Seq(MarkedId) /\ Range(work') = Range(marked)
    BY <2>1, ReverseRange DEF IndInv, TypeOK
  <2>3. \A m : Pending(m) /\ Pending(m)'
    BY <1>1, <2>1 DEF Pending
  <2>4. \A id : Assured(id) => Assured(id)'
    BY <1>1, <2>3 DEF Assured
  <2>a. TypeOK'
    BY <1>1, <2>1, Constants DEF IndInv, TypeOK
  <2>c. RestPlace' /\ MarksPlace'
    BY <1>1, <2>1, <2>3, Constants DEF IndInv, RestPlace, MarksPlace
  <2>d. WorkPlace'
    BY <1>1, <2>1, <2>2, Constants DEF WorkPlace, Passes
  <2>e. DeadPlace'
    BY <1>1, <1>2, <2>1, <2>4, Constants DEF IndInv, DeadPlace, Alive, Passes
  <2>f. OpPlace'
    BY <1>1, <2>1, <2>4, Constants DEF IndInv, OpPlace
  <2> QED  BY <1>b, <2>a, <2>c, <2>d, <2>e, <2>f DEF IndInv
<1> QED  BY <1>3, <1>4

\* Clearing is over.
LEMMA ClearDoneStep ==
    ASSUME IndInv, ClearDone
    PROVE  IndInv'
<1>1. /\ pc = "clear" /\ pc' = "ids" /\ work = <<>> /\ Range(work) = {} /\ work' = marked
      /\ UNCHANGED <<type, tables, records, flagged, doomed, marked, calls, cmds, op>>
  BY TupleRange DEF ClearDone
<1>2. \A m \in Range(marked) : Pending(m)'
  BY <1>1 DEF Pending
<1>3. \A id : Assured(id) => Assured(id)'
  BY <1>1, <1>2 DEF Assured
<1>a. TypeOK'
  BY <1>1, Constants DEF IndInv, TypeOK
<1>b. StorePlace'
  BY <1>1, StoreFrame DEF IndInv
<1>c. RestPlace' /\ MarksPlace'
  BY <1>1, <1>2, Constants DEF IndInv, RestPlace, MarksPlace
<1>d. WorkPlace'
  <2>1. \A m : Emptied(m) => Emptied(m)'
    BY <1>1, EmptiedFrame
  <2> QED  BY <1>1, <2>1, Constants DEF IndInv, WorkPlace, TypeOK, Passes
<1>e. DeadPlace'
  BY <1>1, <1>3, Constants DEF IndInv, DeadPlace, Alive, Passes, Visited
<1>f. OpPlace'
  BY <1>1, <1>3, Constants DEF IndInv, OpPlace
<1> QED  BY <1>a, <1>b, <1>c, <1>d, <1>e, <1>f DEF IndInv

\* A marked id that belongs to the other pass.
LEMMA SkipIdStep ==
    ASSUME IndInv, SkipId
    PROVE  IndInv'
<1>1. /\ pc \in Passes /\ pc' = pc /\ work # <<>> /\ work' = Tail(work)
      /\ ~ InPass(Head(work))
      /\ UNCHANGED <<type, tables, records, flagged, doomed, marked, calls, cmds, op>>
  BY DEF SkipId
<1>2. /\ work' \in Seq(MarkedId) /\ Range(work) = {Head(work)} \union Range(work')
  BY <1>1, TailRange DEF IndInv, WorkPlace
<1>3. \A m : Pending(m) => Pending(m)'
  BY <1>1, <1>2, Constants DEF Pending, InPass, Passes
<1>4. \A id : Assured(id) => Assured(id)'
  BY <1>1, <1>3 DEF Assured, Passes
<1>a. TypeOK'
  BY <1>1, Constants DEF IndInv, TypeOK
<1>b. StorePlace'
  BY <1>1, StoreFrame DEF IndInv
<1>c. RestPlace' /\ MarksPlace'
  BY <1>1, <1>3, Constants DEF IndInv, RestPlace, MarksPlace, Passes
<1>d. WorkPlace'
  <2>1. \A m : Emptied(m) => Emptied(m)'
    BY <1>1, EmptiedFrame
  <2> QED  BY <1>1, <1>2, <2>1, Constants DEF IndInv, WorkPlace, Passes
<1>e. DeadPlace'
  BY <1>1, <1>4, Constants DEF IndInv, DeadPlace, Alive, Passes, Visited
<1>f. OpPlace'
  BY <1>1, <1>4, Constants DEF IndInv, OpPlace, Passes
<1> QED  BY <1>a, <1>b, <1>c, <1>d, <1>e, <1>f DEF IndInv

\* A pass is over; after the second one there are no marks left, since each was
\* released with a marked id of its pass.
LEMMA ClearIdsDoneStep ==
    ASSUME IndInv, ClearIdsDone
    PROVE  IndInv'
<1>1. /\ pc \in Passes /\ work = <<>> /\ Range(work) = {}
      /\ UNCHANGED <<type, tables, records, flagged, doomed, calls, cmds, op>>
  BY TupleRange DEF ClearIdsDone
<1>b. StorePlace'
  BY <1>1, StoreFrame DEF IndInv
<1>2. CASE pc = "ids"
  <2>1. pc' = "wildcards" /\ work' = marked /\ marked' = marked
    BY <1>2 DEF ClearIdsDone
  <2>2. \A m \in Range(marked) : Pending(m) => Pending(m)'
    BY <1>1, <1>2, <2>1, Constants DEF Pending
  <2>3. \A id : Assured(id) => Assured(id)'
    BY <1>1, <1>2, <2>1, <2>2 DEF Assured
  <2>a. TypeOK'
    BY <1>1, <2>1, Constants DEF IndInv, TypeOK
  <2>c. RestPlace' /\ MarksPlace'
    BY <1>1, <2>1, <2>2, Constants DEF IndInv, RestPlace, MarksPlace
  <2>d. WorkPlace'
    <3>1. \A m : Emptied(m) => Emptied(m)'
      BY <1>1, EmptiedFrame
    <3> QED  BY <1>1, <2>1, <3>1, Constants DEF IndInv, WorkPlace, TypeOK, Passes
  <2>e. DeadPlace'
    BY <1>1, <2>1, <2>3, Constants DEF IndInv, DeadPlace, Alive, Passes, Visited
  <2>f. OpPlace'
    BY <1>1, <2>1, <2>3, Constants DEF IndInv, OpPlace, Passes
  <2> QED  BY <1>b, <2>a, <2>c, <2>d, <2>e, <2>f DEF IndInv
<1>3. CASE pc = "wildcards"
  <2>1. pc' = "call" /\ work' = work /\ marked' = <<>> /\ Range(marked') = {}
    BY <1>3, TupleRange DEF ClearIdsDone
  <2>2. \A m : ~ Pending(m)
    BY <1>1, <1>3 DEF Pending
  <2>3. flagged = {} /\ doomed = {}
    BY <2>2 DEF IndInv, MarksPlace
  <2>4. \A id : Assured(id) => id \notin records
    BY <1>3, <2>2 DEF Assured
  <2>5. \A id : id \notin records => Assured(id)'
    BY <1>1 DEF Assured
  <2>a. TypeOK'
    BY <1>1, <2>1, Constants DEF IndInv, TypeOK
  <2>c. RestPlace' /\ MarksPlace' /\ WorkPlace'
    BY <1>1, <2>1, <2>3, Constants DEF RestPlace, MarksPlace, WorkPlace, Passes
  <2>e. DeadPlace'
    BY <1>1, <1>3, <2>1, <2>4, Constants DEF IndInv, DeadPlace, Alive, Passes, Visited
  <2>f. OpPlace'
    BY <1>1, <1>3, <2>1, <2>4, <2>5, Constants DEF IndInv, OpPlace
  <2> QED  BY <1>b, <2>a, <2>c, <2>e, <2>f DEF IndInv
<1> QED  BY <1>1, <1>2, <1>3 DEF Passes

\* The end of a marked id: only empty tables are marked, so no entity is doomed,
\* and only records that the marked id will release.
LEMMA MarkRestStep ==
    ASSUME IndInv, MarkRest
    PROVE  IndInv'
<1> DEFINE head == Head(work)
           id == head.x
<1>1. /\ pc = "mark" /\ pc' = "mark" /\ work # <<>> /\ head.kind = "rest"
      /\ work' = Tail(work)
      /\ doomed' = doomed \union (TablesOf(id) \ Filled(id))
      /\ flagged' = flagged \union {r \in records : ~ IsWildcard(r) /\ Matches(id, r)}
      /\ UNCHANGED <<type, tables, records, marked, calls, cmds, op>>
  BY DEF MarkRest, Marking
<1>2. /\ head \in MarkItems /\ work' \in Seq(MarkItems)
      /\ Range(work) = {head} \union Range(work')
  BY <1>1, TailRange DEF IndInv, WorkPlace
<1>3. id \in Patterns /\ \E m \in Range(marked) : m.id = id
  BY <1>1, <1>2 DEF MarkItems, IndInv, WorkPlace, MarkItem
<1> HIDE DEF head, id
<1>4. \A m : Pending(m) /\ Pending(m)'
  BY <1>1 DEF Pending
<1>a. TypeOK'
  BY <1>1, Constants DEF IndInv, TypeOK, TablesOf
<1>b. StorePlace'
  BY <1>1, StoreFrame DEF IndInv
<1>c. MarksPlace' /\ RestPlace'
  <2>1. ASSUME NEW r \in flagged'
        PROVE  \E m \in Range(marked) : Covers(m.id, r)
    <3>1. CASE r \in flagged
      BY <3>1 DEF IndInv, MarksPlace
    <3>2. CASE r \notin flagged
      <4>1. r \in Ids /\ Matches(id, r)
        BY <1>1, <3>2, PatternForm DEF IndInv, TypeOK
      <4> QED  BY <1>3, <4>1, MatchCovers
    <3> QED  BY <3>1, <3>2
  <2>2. ASSUME NEW table \in doomed'
        PROVE  \E m \in Range(marked) : HasMatch(m.id, table)
    BY <1>1, <1>3 DEF IndInv, MarksPlace, TablesOf
  <2> QED  BY <1>1, <1>4, <2>1, <2>2, Constants DEF IndInv, MarksPlace, RestPlace
<1>d. WorkPlace'
  <2>1. ASSUME NEW i \in Range(work')
        PROVE  MarkItem(i)'
    BY <1>1, <1>2, Constants DEF IndInv, WorkPlace, MarkItem
  <2> QED  BY <1>1, <1>2, <2>1, Constants DEF WorkPlace, Passes
<1>5. \A q : Assured(q) => Assured(q)'
  BY <1>1, <1>2, <1>4 DEF Assured
<1>6. \A e : Visited(e) => Visited(e)'
  BY <1>1, <1>2 DEF Visited
<1>7. \A e \in Alive : type[e] \in doomed' => type[e] \in doomed
  BY <1>1 DEF Filled, Rows
<1>e. DeadPlace'
  BY <1>1, <1>5, <1>6, <1>7, Constants DEF IndInv, DeadPlace, Alive
<1>f. OpPlace'
  BY <1>1, <1>5, Constants DEF IndInv, OpPlace
<1> QED  BY <1>a, <1>b, <1>c, <1>d, <1>e, <1>f DEF IndInv

\* A record of an entity that goes has a mark of its own, which deletes it.
LEMMA FlaggedAssured ==
    ASSUME IndInv, PlainBulk, Discipline, pc = "mark", NEW e \in Entities,
           op.force \/ (e \in Alive /\ type[e] \in doomed),
           NEW id \in IdsOf(e), id \in flagged
    PROVE  \E m \in Range(marked) : m.id = id /\ m.del /\ Pending(m)
<1>1. PICK m \in Range(marked) : Pending(m) /\ Covers(m.id, id)
  BY DEF IndInv, MarksPlace
<1>2. m \in MarkedId
  BY DEF IndInv, TypeOK, Range
<1>3. m.id = id
  BY <1>1, <1>2, CoversOwn DEF MarkedId
<1>4. ASSUME ~ m.del
      PROVE  FALSE
  <2>1. id \in BulkIds /\ ~ op.force
    BY <1>3, <1>4 DEF IndInv, MarksPlace
  <2>2. PICK n \in Range(marked) : HasMatch(n.id, type[e])
    BY <2>1 DEF IndInv, MarksPlace
  <2>3. type[e] # {}
    BY <2>2 DEF HasMatch, Traits!HasMatch
  <2>4. e \in Users
    BY <2>1, <2>3 DEF IndInv, StorePlace
  <2>5. id = <<e, NoTarget>>
    BY <2>1 DEF PlainBulk, IdsOf, IsWildcard
  <2> QED  BY <2>1, <2>4, <2>5 DEF Discipline, IsPair, Traits!IsPair, NoTarget
<1> QED  BY <1>1, <1>3, <1>4

\* An id is marked, or it was and there is nothing to do, as the mark that it has
\* deletes it.
LEMMA MarkIdStep ==
    ASSUME IndInv, PlainBulk, MarkId
    PROVE  IndInv'
<1> DEFINE head == Head(work)
           new == [id |-> head.x, action |-> head.action, del |-> head.del]
<1>1. /\ pc = "mark" /\ pc' = "mark" /\ work # <<>> /\ head.kind = "id"
      /\ UNCHANGED <<type, tables, records, doomed, calls, cmds, op>>
  BY DEF MarkId, Marking
<1>2. /\ head \in MarkItems /\ Tail(work) \in Seq(MarkItems)
      /\ Range(work) = {head} \union Range(Tail(work))
  BY <1>1, TailRange DEF IndInv, WorkPlace
<1>3. /\ head.x \in Patterns /\ head.action \in Actions /\ head.del \in BOOLEAN
      /\ head.del \/ (head.x \in BulkIds /\ ~ op.force)
  BY <1>1, <1>2 DEF MarkItems, IndInv, WorkPlace, MarkItem
<1>4. \A m : Pending(m) /\ Pending(m)'
  BY <1>1 DEF Pending
<1>b. StorePlace'
  BY <1>1, StoreFrame DEF IndInv
<1>5. CASE NotMarked(head.x)
  <2>1. new \in MarkedId /\ new.id = head.x /\ new.del = head.del
    BY <1>3 DEF MarkedId
  <2>2. /\ marked' = Append(marked, new)
        /\ flagged' = flagged \union {head.x}
    BY <1>5 DEF MarkId
  <2> DEFINE it(table) == Item("table", [id |-> head.x, table |-> table], head.action, head.del)
             last == Item("rest", head.x, head.action, head.del)
  <2>3. PICK order \in SetToSeqs(Filled(head.x)) :
           work' = [i \in 1 .. Len(order) |-> it(order[i])] \o <<last>> \o Tail(work)
    BY <1>5 DEF MarkId
  <2>4. IsFiniteSet(Filled(head.x))
    <3>1. IsFiniteSet(Alive)
      BY FS_Subset DEF IndInv, TypeOK, Alive
    <3>2. IsFiniteSet({type[e] : e \in Alive})
      <4>1. type \in Surjection(Alive, {type[e] : e \in Alive})
        BY DEF IndInv, TypeOK, Alive, Surjection
      <4> QED  BY <3>1, <4>1, FS_Surjection DEF ExistsSurjection
    <3>3. Filled(head.x) \subseteq {type[e] : e \in Alive}
      BY DEF Filled, Rows
    <3> QED  BY <3>2, <3>3, FS_Subset
  <2>5. order \in Seq(Filled(head.x)) /\ DOMAIN order = 1 .. Len(order)
    BY <2>4, OrderRange
  <2>6. \A table \in Filled(head.x) :
           /\ table \in tables /\ HasMatch(head.x, table)
           /\ it(table) \in MarkItems /\ it(table).kind = "table"
           /\ it(table).x.id = head.x /\ it(table).x.table = table
    BY <1>3 DEF IndInv, TypeOK, Filled, TablesOf, Item, MarkItems
  <2>7. last \in MarkItems /\ last.kind = "rest" /\ last.x = head.x
    BY <1>3 DEF Item, MarkItems
  <2> HIDE DEF it, last, new, head
  <2> DEFINE visits == [i \in 1 .. Len(order) |-> it(order[i])]
             end == <<last>>
  <2>8. /\ visits \in Seq(MarkItems)
        /\ \A i \in Range(visits) : \E table \in Filled(head.x) : i = it(table)
    BY <2>5, <2>6 DEF Range
  <2>9. end \in Seq(MarkItems) /\ Range(end) = {last}
    BY <2>7, TupleRange
  <2>12. /\ work' \in Seq(MarkItems)
         /\ Range(work') = Range(visits) \union {last} \union Range(Tail(work))
    <3> DEFINE s == visits \o end
               v == s \o Tail(work)
    <3>1. work' = v
      BY <2>3
    <3> HIDE DEF visits, end
    <3>2. s \in Seq(MarkItems) /\ Range(s) = Range(visits) \union {last}
      BY <2>8, <2>9, ConcatRange
    <3> HIDE DEF s
    <3>3. work \in Seq(MarkItems)
      BY <1>1 DEF IndInv, WorkPlace
    <3>4. v \in Seq(MarkItems) /\ Range(v) = Range(s) \union Range(Tail(work))
      BY <1>1, <3>2, <3>3, PushRange
    <3> HIDE DEF v
    <3> QED  BY <3>1, <3>2, <3>4
  <2> HIDE DEF visits, end
  <2>13. marked' \in Seq(MarkedId) /\ Range(marked') = Range(marked) \union {new}
    BY <2>1, <2>2, AppendRange DEF IndInv, TypeOK
  <2>a. TypeOK'
    BY <1>1, <1>5, <2>2, <2>13, Constants DEF IndInv, TypeOK, NotMarked
  <2>c. MarksPlace' /\ RestPlace'
    <3>1. \A m \in Range(marked') : m.del \/ (m.id \in BulkIds /\ ~ op.force)
      BY <1>3, <2>1, <2>13 DEF IndInv, MarksPlace
    <3>2. \A r \in flagged' : \E m \in Range(marked') : Covers(m.id, r)
      BY <2>1, <2>2, <2>13 DEF IndInv, MarksPlace, Covers
    <3>3. \A table \in doomed : \E m \in Range(marked') : HasMatch(m.id, table)
      BY <2>13 DEF IndInv, MarksPlace
    <3> QED  BY <1>1, <1>4, <3>1, <3>2, <3>3, Constants DEF MarksPlace, RestPlace
  <2>d. WorkPlace'
    <3>1. ASSUME NEW i \in Range(visits)
          PROVE  MarkItem(i)'
      BY <1>1, <2>1, <2>6, <2>8, <2>13, Constants DEF MarkItem
    <3>2. ASSUME NEW i, i = last
          PROVE  MarkItem(i)'
      BY <3>2, <2>1, <2>7, <2>13 DEF MarkItem
    <3>3. ASSUME NEW i \in Range(Tail(work))
          PROVE  MarkItem(i)'
      <4>1. MarkItem(i)
        BY <1>1, <1>2 DEF IndInv, WorkPlace
      <4> QED  BY <1>1, <2>13, <4>1, Constants DEF MarkItem
    <3> QED  BY <1>1, <2>12, <3>1, <3>2, <3>3, Constants DEF WorkPlace, Passes
  <2>14. \A q : Assured(q) => Assured(q)'
    BY <1>1, <1>2, <1>4, <2>1, <2>12, <2>13 DEF Assured
  <2>15. \A e : Visited(e) => Visited(e)'
    BY <1>1, <1>2, <2>12 DEF Visited
  <2>e. DeadPlace'
    BY <1>1, <2>14, <2>15, Constants DEF IndInv, DeadPlace, Alive
  <2>f. OpPlace'
    BY <1>1, <2>14, Constants DEF IndInv, OpPlace
  <2> QED  BY <1>b, <2>a, <2>c, <2>d, <2>e, <2>f DEF IndInv
<1>6. CASE ~ NotMarked(head.x)
  <2>1. work' = Tail(work) /\ marked' = marked /\ flagged' = flagged
    BY <1>6 DEF MarkId
  <2>2. head.x \notin records \/ head.x \in flagged
    BY <1>6 DEF NotMarked
  <2> HIDE DEF head, new
  <2>a. TypeOK'
    BY <1>1, <2>1, Constants DEF IndInv, TypeOK
  <2>c. MarksPlace' /\ RestPlace'
    BY <1>1, <1>4, <2>1, Constants DEF IndInv, MarksPlace, RestPlace
  <2>d. WorkPlace'
    <3>1. ASSUME NEW i \in Range(Tail(work))
          PROVE  MarkItem(i)'
      <4>1. MarkItem(i)
        BY <1>1, <1>2 DEF IndInv, WorkPlace
      <4> QED  BY <1>1, <2>1, <4>1, Constants DEF MarkItem
    <3> QED  BY <1>1, <1>2, <2>1, <3>1, Constants DEF WorkPlace, Passes
  <2>3. \A q : Assured(q) /\ q # head.x => Assured(q)'
    BY <1>1, <1>2, <1>4, <2>1 DEF Assured
  <2>4. ASSUME Discipline, NEW e \in Entities, op.force \/ (e \in Alive /\ type[e] \in doomed),
               NEW q \in IdsOf(e), Assured(q)
        PROVE  Assured(q)'
    <3>1. CASE q # head.x
      BY <2>3, <2>4, <3>1
    <3>2. CASE q \notin records
      BY <1>1, <3>2 DEF Assured
    <3>3. CASE q = head.x /\ q \in records
      <4>1. \E m \in Range(marked) : m.id = q /\ m.del /\ Pending(m)
        BY <1>1, <2>2, <2>4, <3>3, FlaggedAssured
      <4> QED  BY <1>4, <2>1, <4>1 DEF Assured
    <3> QED  BY <3>1, <3>2, <3>3
  <2>5. \A e : Visited(e) => Visited(e)'
    BY <1>1, <1>2, <2>1 DEF Visited
  <2>6. \A q : q \notin records => Assured(q)'
    BY <1>1 DEF Assured
  <2>e. DeadPlace'
    <3>1. ASSUME Discipline, NEW e \in Entities, e \notin Alive \/ type[e] \in doomed,
                 ~ Visited(e)', NEW q \in IdsOf(e)
          PROVE  Assured(q)'
      <4>1. CASE e \notin Alive
        BY <1>1, <2>6, <3>1, <4>1 DEF IndInv, DeadPlace, Passes
      <4>2. CASE e \in Alive
        BY <1>1, <2>4, <2>5, <3>1, <4>2 DEF IndInv, DeadPlace, Passes
      <4> QED  BY <4>1, <4>2
    <3> QED  BY <1>1, <3>1, Constants DEF IndInv, DeadPlace, Alive
  <2>f. OpPlace'
    <3>1. ASSUME Discipline, op.entity # 0, NEW q \in IdsOf(op.entity), Assured(q)
          PROVE  Assured(q)'
      BY <2>4, <3>1 DEF IndInv, OpPlace
    <3> QED  BY <1>1, <3>1, Constants DEF IndInv, OpPlace
  <2> QED  BY <1>b, <2>a, <2>c, <2>d, <2>e, <2>f DEF IndInv
<1> QED  BY <1>5, <1>6

\* A table is doomed, and all of its entities are visited.
LEMMA MarkTableStep ==
    ASSUME IndInv, MarkTable
    PROVE  IndInv'
<1> DEFINE head == Head(work)
           table == head.x.table
           visit == table \notin doomed /\ ~ Spared(table, head.del)
           action == DeleteAction(head.x.id, head.action, table)
<1>1. /\ pc = "mark" /\ work # <<>> /\ head.kind = "table"
      /\ UNCHANGED <<type, tables, records, flagged, marked, calls, cmds, op>>
  BY DEF MarkTable, Marking
<1>2. /\ head \in MarkItems /\ Tail(work) \in Seq(MarkItems)
      /\ Range(work) = {head} \union Range(Tail(work))
  BY <1>1, TailRange DEF IndInv, WorkPlace
<1>3. /\ table \in tables
      /\ \E m \in Range(marked) : HasMatch(m.id, table)
  BY <1>1, <1>2 DEF IndInv, WorkPlace, MarkItem
<1>b. StorePlace'
  BY <1>1, StoreFrame DEF IndInv
<1>4. \A m : Pending(m)
  BY <1>1 DEF Pending
<1>5. CASE visit /\ action = "Delete"
  <2>1. pc' = pc /\ doomed' = doomed \union {table}
    BY <1>5 DEF MarkTable
  <2> DEFINE it(e) == Item("entity", e, "none", TRUE)
  <2>2. PICK order \in SetToSeqs(Rows(table)) :
           work' = [i \in 1 .. Len(order) |-> it(order[i])] \o Tail(work)
    BY <1>5 DEF MarkTable
  <2>3. IsFiniteSet(Rows(table))
    BY FS_Subset DEF IndInv, TypeOK, Alive, Rows
  <2>4. order \in Seq(Rows(table)) /\ DOMAIN order = 1 .. Len(order) /\ Range(order) = Rows(table)
    BY <2>3, OrderRange
  <2>5. \A e \in Rows(table) : it(e) \in MarkItems /\ it(e).kind = "entity" /\ it(e).x = e
    BY DEF IndInv, TypeOK, Alive, Rows, Item, MarkItems, Actions
  <2> HIDE DEF it, head, table, visit, action
  <2> DEFINE visits == [i \in 1 .. Len(order) |-> it(order[i])]
  <2>6. visits \in Seq(MarkItems)
    BY <2>4, <2>5
  <2>7. Range(visits) = {it(e) : e \in Rows(table)}
    BY <2>4 DEF Range
  <2>8. work' \in Seq(MarkItems) /\ Range(work') = Range(visits) \union Range(Tail(work))
    <3> DEFINE v == visits \o Tail(work)
    <3>1. work' = v
      BY <2>2
    <3> HIDE DEF visits
    <3>2. work \in Seq(MarkItems)
      BY <1>1 DEF IndInv, WorkPlace
    <3>3. v \in Seq(MarkItems) /\ Range(v) = Range(visits) \union Range(Tail(work))
      BY <1>1, <2>6, <3>2, PushRange
    <3> HIDE DEF v
    <3> QED  BY <3>1, <3>3
  <2> HIDE DEF visits
  <2>9. \A m : Pending(m)'
    BY <1>1, <2>1 DEF Pending
  <2>a. TypeOK'
    BY <1>1, <1>3, <2>1, Constants DEF IndInv, TypeOK
  <2>c. MarksPlace' /\ RestPlace'
    <3>1. \A t \in doomed' : \E m \in Range(marked) : HasMatch(m.id, t)
      BY <1>3, <2>1 DEF IndInv, MarksPlace
    <3> QED  BY <1>1, <1>4, <2>1, <2>9, <3>1, Constants DEF IndInv, MarksPlace, RestPlace
  <2>d. WorkPlace'
    <3>1. ASSUME NEW i \in Range(visits)
          PROVE  MarkItem(i)'
      BY <2>5, <2>7 DEF MarkItem
    <3>2. ASSUME NEW i \in Range(Tail(work))
          PROVE  MarkItem(i)'
      <4>1. MarkItem(i)
        BY <1>1, <1>2 DEF IndInv, WorkPlace
      <4> QED  BY <1>1, <4>1, Constants DEF MarkItem
    <3> QED  BY <1>1, <2>1, <2>8, <3>1, <3>2, Constants DEF WorkPlace, Passes
  <2>10. \A q : Assured(q) => Assured(q)'
    BY <1>1, <1>2, <2>1, <2>8, <2>9 DEF Assured
  <2>11. \A e : Visited(e) => Visited(e)'
    BY <1>1, <1>2, <2>1, <2>8 DEF Visited
  <2>12. \A e \in Rows(table) : Visited(e)'
    BY <1>1, <2>1, <2>5, <2>7, <2>8 DEF Visited
  <2>e. DeadPlace'
    <3>1. \A e \in Alive : type[e] \in doomed' => type[e] \in doomed \/ e \in Rows(table)
      BY <2>1 DEF Rows
    <3> QED  BY <1>1, <2>1, <2>10, <2>11, <2>12, <3>1, Constants DEF IndInv, DeadPlace, Alive
  <2>f. OpPlace'
    BY <1>1, <2>1, <2>10, Constants DEF IndInv, OpPlace
  <2> QED  BY <1>b, <2>a, <2>c, <2>d, <2>e, <2>f DEF IndInv
<1>6. CASE visit /\ action = "Panic"
  <2>1. pc' = "abort" /\ doomed' = doomed /\ work' = work
    BY <1>6 DEF MarkTable
  <2>2. \A m : Pending(m)'
    BY <2>1 DEF Pending
  <2>a. TypeOK' /\ MarksPlace' /\ RestPlace'
    BY <1>1, <1>4, <2>1, <2>2, Constants DEF IndInv, TypeOK, MarksPlace, RestPlace
  <2>b. WorkPlace' /\ DeadPlace'
    BY <2>1 DEF WorkPlace, DeadPlace, Passes
  <2>c. OpPlace'
    BY <1>1, <2>1, Constants DEF IndInv, OpPlace
  <2> QED  BY <1>b, <2>a, <2>b, <2>c DEF IndInv
<1>7. CASE visit => action \notin {"Delete", "Panic"}
  <2>1. pc' = pc /\ doomed' = doomed /\ work' = Tail(work)
    BY <1>7 DEF MarkTable
  <2> HIDE DEF head, table, visit, action
  <2>2. \A m : Pending(m)'
    BY <1>1, <2>1 DEF Pending
  <2>a. TypeOK' /\ MarksPlace' /\ RestPlace'
    BY <1>1, <1>4, <2>1, <2>2, Constants DEF IndInv, TypeOK, MarksPlace, RestPlace
  <2>d. WorkPlace'
    <3>1. ASSUME NEW i \in Range(Tail(work))
          PROVE  MarkItem(i)'
      <4>1. MarkItem(i)
        BY <1>1, <1>2 DEF IndInv, WorkPlace
      <4> QED  BY <1>1, <4>1, Constants DEF MarkItem
    <3> QED  BY <1>1, <1>2, <2>1, <3>1, Constants DEF WorkPlace, Passes
  <2>3. \A q : Assured(q) => Assured(q)'
    BY <1>1, <1>2, <2>1, <2>2 DEF Assured
  <2>4. \A e : Visited(e) => Visited(e)'
    BY <1>1, <1>2, <2>1 DEF Visited
  <2>e. DeadPlace'
    BY <1>1, <2>1, <2>3, <2>4, Constants DEF IndInv, DeadPlace, Alive
  <2>f. OpPlace'
    BY <1>1, <2>1, <2>3, Constants DEF IndInv, OpPlace
  <2> QED  BY <1>b, <2>a, <2>d, <2>e, <2>f DEF IndInv
<1> QED  BY <1>5, <1>6, <1>7

\* The tables of a marked id are emptied. What is removed from an entity is
\* everything that is marked, so it does not move to a table that is doomed or that
\* was emptied before.
LEMMA ClearEntitiesStep ==
    ASSUME IndInv, ClearEntities
    PROVE  IndInv'
<1> DEFINE item == Head(work)
           cleared == ClearedTables(item)
           reduced == ReducedTables(item)
<1>1. /\ pc = "clear" /\ pc' = "clear" /\ work # <<>> /\ work' = Tail(work)
      /\ type' = [e \in {x \in Alive : type[x] \notin cleared} |->
                     IF type[e] \in reduced THEN Remaining(type[e]) ELSE type[e]]
      /\ tables' = tables \union {Remaining(table) : table \in reduced}
      /\ doomed' = doomed \ {table \in Filled(item.id) : Spared(table, item.del)}
      /\ cmds' = cmds \/ \E add \in Deferrable : cmds' = <<add>>
      /\ UNCHANGED <<records, flagged, marked, calls, op>>
  BY DEF ClearEntities
<1>2. /\ item \in MarkedId /\ Tail(work) \in Seq(MarkedId)
      /\ Range(work) = {item} \union Range(Tail(work))
  BY <1>1, TailRange DEF IndInv, WorkPlace
<1>3. \A table \in Filled(item.id) :
         table \in cleared \/ table \in reduced \/ Spared(table, item.del)
  BY DEF ClearedTables, ReducedTables
<1>4. cleared \subseteq doomed /\ reduced \subseteq tables
  BY DEF ClearedTables, ReducedTables, Filled, TablesOf
<1> HIDE DEF cleared, reduced, item
<1>5. /\ Alive' = {x \in Alive : type[x] \notin cleared}
      /\ \A e \in Alive' : type'[e] = IF type[e] \in reduced THEN Remaining(type[e]) ELSE type[e]
  BY <1>1 DEF Alive
<1>6. \A table : Remaining(table) \subseteq table
  BY DEF Remaining
<1>7. \A m \in Range(marked) : \A table : ~ HasMatch(m.id, Remaining(table))
  BY DEF Remaining, Range, HasMatch, Traits!HasMatch, Matches
<1>8. \A m : Pending(m) /\ Pending(m)'
  BY <1>1 DEF Pending
<1>9. doomed' \subseteq doomed /\ tables \subseteq tables'
  BY <1>1
<1>10. \A e \in Alive' : type'[e] \in tables' /\ type'[e] \subseteq type[e]
  BY <1>1, <1>5, <1>6 DEF IndInv, StorePlace
<1>11. cmds' \in Seq(ObserverAdds)
       /\ (Discipline => \A add \in Range(cmds') : op.entity \notin Traits!Mentions(add[2]))
  <2>1. CASE cmds' = cmds
    BY <2>1 DEF IndInv, TypeOK, OpPlace
  <2>2. CASE \E add \in Deferrable : cmds' = <<add>>
    <3>1. PICK add \in Deferrable : cmds' = <<add>>
      BY <2>2
    <3>2. add \in ObserverAdds /\ (Discipline => op.entity \notin Traits!Mentions(add[2]))
      BY DEF Deferrable, Discipline
    <3>3. <<add>> \in Seq(ObserverAdds) /\ Range(<<add>>) = {add}
      BY <3>2, TupleRange
    <3> QED  BY <3>1, <3>2, <3>3
  <2> QED  BY <1>1, <2>1, <2>2
<1>a. TypeOK'
  <2>1. DOMAIN type' \subseteq Entities
    BY <1>5 DEF IndInv, TypeOK, Alive
  <2>2. type' \in [DOMAIN type' -> SUBSET Ids]
    <3>1. \A e \in DOMAIN type' : type'[e] \subseteq Ids
      BY <1>5, <1>10 DEF IndInv, TypeOK, Alive
    <3>2. type' = [e \in DOMAIN type' |-> type'[e]]
      BY <1>1
    <3> QED  BY <3>1, <3>2
  <2>3. tables' \subseteq SUBSET Ids
    BY <1>1, <1>4, <1>6 DEF IndInv, TypeOK
  <2> QED  BY <1>1, <1>9, <1>11, <2>1, <2>2, <2>3, Constants DEF IndInv, TypeOK
<1>b. StorePlace'
  <2>1. ASSUME NEW e \in Alive', type'[e] # {}
        PROVE  e \in Users
    BY <1>5, <1>10, <2>1 DEF IndInv, StorePlace
  <2>2. ASSUME NEW table \in tables', NEW id \in table
        PROVE  RecordsOf(id) \subseteq records
    BY <1>1, <1>4, <1>6 DEF IndInv, StorePlace
  <2> QED  BY <1>1, <1>10, <2>1, <2>2, Constants DEF IndInv, StorePlace
<1>c. MarksPlace' /\ RestPlace'
  BY <1>1, <1>8, <1>9, Constants DEF IndInv, MarksPlace, RestPlace
<1>d. WorkPlace'
  <2>1. ASSUME NEW m \in Range(marked), NEW table \in Filled(m.id)'
        PROVE  table \in Filled(m.id) /\ table \notin cleared /\ table \notin reduced
    <3>1. HasMatch(m.id, table) /\ \E e \in Alive' : type'[e] = table
      BY Constants DEF Filled, TablesOf, Rows
    <3>2. PICK e \in Alive' : type'[e] = table
      BY <3>1
    <3>3. type[e] \notin reduced /\ type[e] = table /\ e \in Alive /\ type[e] \notin cleared
      BY <1>5, <1>7, <3>1, <3>2
    <3>4. table \in tables /\ Rows(table) # {}
      BY <3>3 DEF IndInv, StorePlace, Rows
    <3> QED  BY <3>1, <3>3, <3>4 DEF Filled, TablesOf
  <2>2. \A table, del : Spared(table, del)' = Spared(table, del)
    BY <1>1, Constants DEF Spared
  <2>3. ASSUME NEW m \in Range(marked), Emptied(m)
        PROVE  Emptied(m)'
    BY <1>9, <2>1, <2>2, <2>3 DEF Emptied
  <2>4. ASSUME NEW m \in Range(marked), m = item
        PROVE  Emptied(m)'
    BY <1>1, <1>3, <2>1, <2>2, <2>4 DEF Emptied
  <2>5. \A m \in Range(marked) : Emptied(m)' \/ m \in Range(Tail(work))
    BY <1>1, <1>2, <2>3, <2>4 DEF IndInv, WorkPlace
  <2> QED  BY <1>1, <1>2, <2>5, Constants DEF IndInv, WorkPlace, Passes
<1>12. \A q : Assured(q) => Assured(q)'
  BY <1>1, <1>8 DEF Assured
<1>e. DeadPlace'
  <2>1. ASSUME NEW e \in Entities, e \notin Alive' \/ type'[e] \in doomed'
        PROVE  e \notin Alive \/ type[e] \in doomed
    <3>1. CASE e \notin Alive'
      BY <1>4, <1>5, <3>1
    <3>2. CASE e \in Alive'
      <4>1. PICK m \in Range(marked) : HasMatch(m.id, type'[e])
        BY <1>9, <2>1, <3>2 DEF IndInv, MarksPlace
      <4> QED  BY <1>5, <1>7, <1>9, <2>1, <3>2, <4>1
    <3> QED  BY <3>1, <3>2
  <2>2. \A e : ~ Visited(e)
    BY <1>1 DEF Visited
  <2> QED  BY <1>1, <1>12, <2>1, <2>2, Constants DEF IndInv, DeadPlace
<1>f. OpPlace'
  BY <1>1, <1>11, <1>12, Constants DEF IndInv, OpPlace
<1> QED  BY <1>a, <1>b, <1>c, <1>d, <1>e, <1>f DEF IndInv

\* A marked id is released. Its tables were emptied, and are deleted with it;
\* whatever still needs a record that goes would be one of them.
LEMMA ClearIdStep ==
    ASSUME IndInv, PlainBulk, ClearId
    PROVE  IndInv'
<1> DEFINE item == Head(work)
           gone == IF item.del /\ ~ Kept(item) THEN Freed(item.id) ELSE {}
<1>1. /\ pc \in Passes /\ work # <<>> /\ work' = Tail(work) /\ InPass(item)
      /\ pc' = "abort" \/ pc' = pc
      /\ tables' = tables \ (TablesOf(item.id) \ Filled(item.id))
      /\ records' = records \ gone
      /\ flagged' = (flagged \ gone) \ Unmarked(item)
      /\ doomed' = doomed \intersect tables'
      /\ UNCHANGED <<type, marked, calls, cmds, op>>
  BY DEF ClearId
<1>2. /\ item \in MarkedId /\ Tail(work) \in Seq(MarkedId)
      /\ Range(work) = {item} \union Range(Tail(work))
  BY <1>1, TailRange DEF IndInv, WorkPlace
<1>3. item.id \in Patterns /\ item.del \in BOOLEAN /\ item \in Range(marked) /\ Emptied(item)
  BY <1>1, <1>2 DEF IndInv, WorkPlace, MarkedId
<1>4. item.del => Filled(item.id) = {} /\ gone = {r \in records : Covers(item.id, r)}
  <2>1. item.del => Filled(item.id) = {}
    BY <1>3 DEF Emptied, Spared
  <2> QED  BY <2>1 DEF Kept, Freed, Covers
<1>5. ~ item.del => ~ IsWildcard(item.id) /\ gone = {} /\ Unmarked(item) = {item.id}
  BY <1>3 DEF IndInv, MarksPlace, PlainBulk, Unmarked
<1> HIDE DEF item, gone
<1>6. records' \subseteq records /\ flagged' \subseteq flagged /\ doomed' \subseteq doomed
      /\ tables' \subseteq tables /\ Alive' = Alive
  BY <1>1 DEF Alive
<1>7. \A m : Pending(m) /\ m # item => Pending(m)'
  BY <1>1, <1>2, Constants DEF Pending, Passes, InPass
<1>8. \A table \in tables' : HasMatch(item.id, table) => table \in Filled(item.id)
  BY <1>1 DEF TablesOf
<1>a. TypeOK'
  <2>1. flagged' \subseteq records'
    BY <1>1 DEF IndInv, TypeOK
  <2> QED  BY <1>1, <1>6, <2>1, Constants DEF IndInv, TypeOK, Passes
<1>b. StorePlace'
  <2>1. ASSUME NEW e \in Alive
        PROVE  type[e] \in tables' /\ (type[e] # {} => e \in Users)
    BY <1>1 DEF IndInv, StorePlace, Filled, Rows
  <2>2. ASSUME NEW id \in Ids, NEW q \in RecordsOf(id), q \in gone
        PROVE  item.del /\ Matches(item.id, id)
    BY <1>3, <1>4, <1>5, <2>2, CoversMatch
  <2>3. ASSUME NEW table \in tables', NEW id \in table
        PROVE  RecordsOf(id) \subseteq records'
    <3>1. id \in Ids /\ RecordsOf(id) \subseteq records
      BY <1>6 DEF IndInv, StorePlace, TypeOK
    <3>2. ASSUME NEW q \in RecordsOf(id), q \in gone
          PROVE  FALSE
      <4>1. item.del /\ HasMatch(item.id, table)
        BY <2>2, <3>1, <3>2 DEF HasMatch, Traits!HasMatch, Matches
      <4> QED  BY <1>4, <1>8, <4>1
    <3> QED  BY <1>1, <3>1, <3>2
  <2>4. ASSUME NEW r \in records', ~ IsWildcard(r)
        PROVE  RecordsOf(r) \subseteq records'
    <3>1. r \in Ids /\ RecordsOf(r) \subseteq records
      BY <1>6, <2>4, PatternForm DEF IndInv, StorePlace, TypeOK
    <3>2. ASSUME NEW q \in RecordsOf(r), q \in gone
          PROVE  FALSE
      <4>1. item.del /\ Covers(item.id, r)
        BY <1>3, <2>2, <3>1, <3>2, MatchCovers
      <4> QED  BY <1>1, <1>4, <4>1
    <3> QED  BY <1>1, <3>1, <3>2
  <2> QED  BY <1>1, <1>6, <2>1, <2>3, <2>4, Constants DEF StorePlace
<1>c. MarksPlace' /\ RestPlace'
  <2>1. ASSUME NEW r \in flagged'
        PROVE  ~ Covers(item.id, r)
    BY <1>1, <1>4, <1>5, <2>1, <1>3, <1>6 DEF Covers, IndInv, TypeOK
  <2>2. ASSUME NEW table \in doomed'
        PROVE  ~ HasMatch(item.id, table)
    BY <1>1, <1>3, <1>8 DEF Emptied
  <2>3. \A r \in flagged' : \E m \in Range(marked) : Pending(m)' /\ Covers(m.id, r)
    BY <1>6, <1>7, <2>1 DEF IndInv, MarksPlace
  <2>4. \A table \in doomed' : \E m \in Range(marked) : Pending(m)' /\ HasMatch(m.id, table)
    BY <1>6, <1>7, <2>2 DEF IndInv, MarksPlace
  <2> QED  BY <1>1, <2>3, <2>4, Constants DEF IndInv, MarksPlace, RestPlace, Passes
<1>d. WorkPlace'
  <2>1. \A id : Filled(id)' \subseteq Filled(id)
    BY <1>1, <1>6, Constants DEF Filled, TablesOf, Rows
  <2>2. \A table, del : Spared(table, del)' = Spared(table, del)
    BY <1>1, Constants DEF Spared
  <2>3. \A m : Emptied(m) => Emptied(m)'
    BY <1>6, <2>1, <2>2 DEF Emptied
  <2> QED  BY <1>1, <1>2, <2>3, Constants DEF IndInv, WorkPlace, Passes
<1>9. \A q : Assured(q) => Assured(q)'
  <2>1. ASSUME item.del
        PROVE  item.id \notin records'
    BY <1>1, <1>4, <2>1 DEF Covers
  <2> QED  BY <1>1, <1>6, <1>7, <2>1 DEF Assured, Passes
<1>e. DeadPlace'
  <2>1. \A e : ~ Visited(e)
    BY <1>1 DEF Visited, Passes
  <2> QED  BY <1>1, <1>6, <1>9, <2>1, Constants DEF IndInv, DeadPlace, Passes
<1>f. OpPlace'
  BY <1>1, <1>9, Constants DEF IndInv, OpPlace, Passes
<1> QED  BY <1>a, <1>b, <1>c, <1>d, <1>e, <1>f DEF IndInv

\* An id that is added brings no records but its own.
LEMMA MoveToStore ==
    ASSUME TypeOK, StorePlace, NEW e \in Users, NEW id \in Ids, Addable(e, id), MoveTo(e, id)
    PROVE  /\ Alive' = Alive /\ type' \in [DOMAIN type -> SUBSET Ids]
           /\ tables \subseteq tables' /\ tables' \subseteq SUBSET Ids
           /\ records \subseteq records' /\ records' \subseteq Patterns
           /\ StorePlace'
           /\ \A f \in Entities : f \notin Traits!Mentions(id) =>
                 \A q \in IdsOf(f) : q \notin records => q \notin records'
<1>1. /\ e \in Alive /\ type' = [type EXCEPT ![e] = @ \union {id}]
      /\ tables' = tables \union {type[e] \union {id}}
      /\ records' = records \union RecordsOf(id)
  BY DEF MoveTo, Addable
<1>2. Alive' = Alive /\ type' \in [DOMAIN type -> SUBSET Ids]
  BY <1>1 DEF TypeOK, Alive
<1>3. tables \subseteq tables' /\ tables' \subseteq SUBSET Ids
  BY <1>1 DEF TypeOK, Alive
<1>4. records \subseteq records' /\ records' \subseteq Patterns
  BY <1>1, IdForm DEF TypeOK
<1>5. ASSUME NEW f \in Entities, f \notin Traits!Mentions(id), NEW q \in IdsOf(f),
             q \notin records
      PROVE  q \notin records'
  BY <1>1, <1>5, RecordMentions
<1>6. StorePlace'
  <2>1. ASSUME NEW f \in Alive
        PROVE  type'[f] \in tables' /\ (type'[f] # {} => f \in Users)
    BY <1>1, <1>2 DEF TypeOK, Alive, StorePlace
  <2>2. ASSUME NEW table \in tables', NEW x \in table
        PROVE  RecordsOf(x) \subseteq records'
    BY <1>1 DEF StorePlace
  <2>3. ASSUME NEW r \in records', ~ IsWildcard(r)
        PROVE  RecordsOf(r) \subseteq records'
    BY <1>1, <2>3, IdForm DEF StorePlace
  <2> QED  BY <1>2, <2>1, <2>2, <2>3, Constants DEF StorePlace
<1> QED  BY <1>2, <1>3, <1>4, <1>5, <1>6

\* The application adds an id, for entities that are alive.
LEMMA AddStep ==
    ASSUME IndInv, NEW e \in Holders, NEW id \in AddIds, Add(e, id)
    PROVE  IndInv'
<1>1. /\ pc = "idle" /\ Addable(e, id) /\ MoveTo(e, id)
      /\ UNCHANGED <<flagged, doomed, marked, work, calls, cmds, pc, op>>
  BY DEF Add
<1>2. e \in Users /\ id \in Ids /\ Traits!Mentions(id) \subseteq Alive
  BY <1>1 DEF Users, Ids, Addable
<1>3. /\ Alive' = Alive /\ type' \in [DOMAIN type -> SUBSET Ids]
      /\ tables \subseteq tables' /\ tables' \subseteq SUBSET Ids
      /\ records \subseteq records' /\ records' \subseteq Patterns
      /\ StorePlace'
      /\ \A f \in Entities : f \notin Traits!Mentions(id) =>
            \A q \in IdsOf(f) : q \notin records => q \notin records'
  BY <1>1, <1>2, MoveToStore DEF IndInv
<1>4. flagged = {} /\ doomed = {} /\ marked = <<>> /\ work = <<>> /\ Range(marked) = {}
  BY <1>1, TupleRange DEF IndInv, RestPlace
<1>a. TypeOK'
  BY <1>1, <1>3, Constants DEF IndInv, TypeOK, Alive
<1>c. RestPlace' /\ MarksPlace' /\ WorkPlace'
  BY <1>1, <1>4, Constants DEF RestPlace, MarksPlace, WorkPlace, Passes
<1>e. DeadPlace'
  BY <1>1, <1>2, <1>3, Constants DEF IndInv, DeadPlace, Passes
<1>f. OpPlace'
  BY <1>1, Constants DEF IndInv, OpPlace
<1> QED  BY <1>3, <1>a, <1>c, <1>e, <1>f DEF IndInv

\* A command of an observer is run, or dropped.
LEMMA MergeStep ==
    ASSUME IndInv, Merge
    PROVE  IndInv'
<1> DEFINE e == cmds[1][1]
           id == cmds[1][2]
<1>1. /\ pc = "merge" /\ pc' = "merge" /\ cmds # <<>> /\ cmds' = <<>>
      /\ (Addable(e, id) /\ MoveTo(e, id)) \/ UNCHANGED <<type, tables, records>>
      /\ UNCHANGED <<flagged, doomed, marked, work, calls, op>>
  BY DEF Merge
<1>2. cmds[1] \in ObserverAdds /\ cmds[1] \in Range(cmds)
  BY <1>1 DEF IndInv, TypeOK, Range
<1>3. e \in Users /\ id \in Ids /\ (Discipline => op.entity \notin Traits!Mentions(id))
  BY <1>2 DEF IndInv, OpPlace, Users, Ids
<1> HIDE DEF e, id
<1>4. /\ DOMAIN type' = DOMAIN type /\ type' \in [DOMAIN type -> SUBSET Ids]
      /\ tables \subseteq tables' /\ tables' \subseteq SUBSET Ids
      /\ records \subseteq records' /\ records' \subseteq Patterns
      /\ StorePlace'
      /\ \A f \in Entities : f \notin Alive \/ (Discipline /\ f = op.entity) =>
            \A q \in IdsOf(f) : q \notin records => q \notin records'
  <2>1. CASE Addable(e, id) /\ MoveTo(e, id)
    <3>1. Traits!Mentions(id) \subseteq Alive
      BY <2>1 DEF Addable
    <3> QED  BY <1>3, <2>1, <3>1, MoveToStore DEF IndInv, Alive
  <2>2. CASE UNCHANGED <<type, tables, records>>
    BY <2>2, StoreFrame DEF IndInv, TypeOK
  <2> QED  BY <1>1, <2>1, <2>2
<1>5. flagged = {} /\ doomed = {} /\ marked = <<>> /\ work = <<>> /\ Range(marked) = {}
  BY <1>1, TupleRange DEF IndInv, RestPlace
<1>6. cmds' \in Seq(ObserverAdds) /\ Range(cmds') = {}
  BY <1>1, TupleRange
<1>a. TypeOK'
  BY <1>1, <1>4, <1>6, Constants DEF IndInv, TypeOK
<1>c. RestPlace' /\ MarksPlace' /\ WorkPlace'
  BY <1>1, <1>5, Constants DEF RestPlace, MarksPlace, WorkPlace, Passes
<1>e. DeadPlace'
  BY <1>1, <1>4, Constants DEF IndInv, DeadPlace, Passes, Alive
<1>f. OpPlace'
  <2>1. ASSUME Discipline, op.entity # 0, NEW q \in IdsOf(op.entity)
        PROVE  q \notin records'
    <3>1. calls = <<>> /\ Range(calls) = {} /\ op.entity \in Entities
      BY <1>1, <2>1, TupleRange DEF IndInv, OpPlace
    <3>2. Assured(q)
      BY <1>1, <2>1, <3>1 DEF IndInv, OpPlace
    <3> QED  BY <1>1, <1>4, <2>1, <3>1, <3>2, RestAssured DEF IndInv
  <2>2. \A q : q \notin records' => Assured(q)'
    BY DEF Assured
  <2> QED  BY <1>1, <1>6, <2>1, <2>2, Constants DEF IndInv, OpPlace
<1> QED  BY <1>4, <1>a, <1>c, <1>e, <1>f DEF IndInv

\* The entity itself goes, after all of its records.
LEMMA FinishStep ==
    ASSUME IndInv, Finish
    PROVE  IndInv'
<1>1. /\ pc = "merge" /\ pc' = "idle" /\ cmds = <<>> /\ Range(cmds) = {} /\ calls = <<>>
      /\ Range(calls) = {} /\ op'.entity = 0 /\ op'.force = FALSE
      /\ type' = [e \in Alive \ {op.entity} |-> type[e]]
      /\ UNCHANGED <<tables, records, flagged, doomed, marked, work, calls, cmds>>
  BY TupleRange DEF IndInv, OpPlace, Finish, NoOp
<1>2. flagged = {} /\ doomed = {} /\ marked = <<>> /\ work = <<>> /\ Range(marked) = {}
  BY <1>1, TupleRange DEF IndInv, RestPlace
<1>3. Alive' = Alive \ {op.entity} /\ \A e \in Alive' : type'[e] = type[e]
  BY <1>1 DEF Alive
<1>a. TypeOK'
  <2>1. type' \in [DOMAIN type' -> SUBSET Ids] /\ DOMAIN type' \subseteq Entities
    BY <1>1 DEF IndInv, TypeOK, Alive
  <2> QED  BY <1>1, <2>1, Constants DEF IndInv, TypeOK
<1>b. StorePlace'
  BY <1>1, <1>3, Constants DEF IndInv, StorePlace
<1>c. RestPlace' /\ MarksPlace' /\ WorkPlace'
  BY <1>1, <1>2, Constants DEF RestPlace, MarksPlace, WorkPlace, Passes
<1>e. DeadPlace'
  <2>1. ASSUME Discipline, NEW e \in Entities, e \notin Alive', NEW q \in IdsOf(e)
        PROVE  q \notin records
    <3>1. CASE e \notin Alive
      BY <1>1, <2>1, <3>1 DEF IndInv, DeadPlace, Passes
    <3>2. CASE e = op.entity
      <4>1. op.entity # 0
        BY <3>2
      <4>2. Assured(q)
        BY <1>1, <2>1, <3>2, <4>1 DEF IndInv, OpPlace
      <4> QED  BY <1>1, <4>2, RestAssured DEF IndInv
    <3> QED  BY <1>3, <2>1, <3>1, <3>2
  <2> QED  BY <1>1, <2>1, Constants DEF DeadPlace, Passes
<1>f. OpPlace'
  BY <1>1, Constants DEF OpPlace
<1> QED  BY <1>a, <1>b, <1>c, <1>e, <1>f DEF IndInv

\* The world that was just built.
LEMMA InitStep ==
    ASSUME Init
    PROVE  IndInv
<1>1. PICK given \in SUBSET (Holders \X AddIds) :
         type = [e \in Entities |-> {id \in AddIds : <<e, id>> \in given}]
  BY DEF Init, kSubset
<1>2. /\ tables = {{}} \union {type[e] : e \in Entities}
      /\ records = UNION {RecordsOf(id) : id \in UNION tables}
      /\ flagged = {} /\ doomed = {} /\ marked = <<>> /\ work = <<>> /\ calls = <<>>
      /\ cmds = <<>> /\ pc = "idle" /\ op.entity = 0 /\ op.force = FALSE
  BY DEF Init, NoOp
<1>3. given \subseteq Holders \X AddIds
  OBVIOUS
<1>4. Range(marked) = {} /\ Range(calls) = {} /\ Range(cmds) = {}
  BY <1>2, TupleRange
<1>5. type \in [Entities -> SUBSET Ids] /\ DOMAIN type = Entities
  BY <1>1 DEF Ids
<1>6. tables \subseteq SUBSET Ids
  BY <1>2, <1>5
<1>a. TypeOK
  <2>1. records \subseteq Patterns
    BY <1>2, <1>6, IdForm
  <2>2. <<>> \in Seq(MarkedId) /\ <<>> \in Seq(ObserverAdds)
    BY TupleRange
  <2> QED  BY <1>2, <1>5, <1>6, <2>1, <2>2 DEF TypeOK
<1>b. StorePlace
  <2>1. ASSUME NEW e \in Alive
        PROVE  type[e] \in tables /\ (type[e] # {} => e \in Users)
    BY <1>1, <1>2, <1>3, <1>5 DEF Alive, Users
  <2>2. ASSUME NEW table \in tables, NEW id \in table
        PROVE  RecordsOf(id) \subseteq records
    BY <1>2
  <2>3. ASSUME NEW r \in records, ~ IsWildcard(r)
        PROVE  RecordsOf(r) \subseteq records
    <3>1. PICK id \in UNION tables : r \in RecordsOf(id)
      BY <1>2
    <3>2. r = id
      BY <1>6, <2>3, <3>1, IdForm
    <3> QED  BY <2>2, <3>1, <3>2
  <2> QED  BY <2>1, <2>2, <2>3 DEF StorePlace
<1>c. RestPlace /\ MarksPlace /\ WorkPlace
  BY <1>2, <1>4 DEF RestPlace, MarksPlace, WorkPlace, Passes
<1>d. DeadPlace /\ OpPlace
  BY <1>2, <1>4, <1>5 DEF DeadPlace, OpPlace, Alive, Passes
<1> QED  BY <1>a, <1>b, <1>c, <1>d DEF IndInv

\* Nothing happens.
LEMMA StutterStep ==
    ASSUME IndInv, UNCHANGED vars
    PROVE  IndInv'
<1>1. UNCHANGED <<type, tables, records, flagged, doomed, marked, work, calls, cmds, pc, op>>
  BY DEF vars
<1>2. \A m : Pending(m)' = Pending(m)
  BY <1>1, Constants DEF Pending
<1>3. \A id : Assured(id)' = Assured(id)
  BY <1>1, <1>2 DEF Assured
<1>a. TypeOK' /\ RestPlace'
  BY <1>1, Constants DEF IndInv, TypeOK, RestPlace
<1>b. StorePlace'
  BY <1>1, StoreFrame DEF IndInv
<1>c. MarksPlace'
  BY <1>1, <1>2, Constants DEF IndInv, MarksPlace
<1>d. WorkPlace'
  <2>1. \A m : Emptied(m)' = Emptied(m)
    BY <1>1, EmptiedFrame
  <2>2. \A i : MarkItem(i)' = MarkItem(i)
    BY <1>1, Constants DEF MarkItem
  <2> QED  BY <1>1, <2>1, <2>2, Constants DEF IndInv, WorkPlace, Passes
<1>e. DeadPlace'
  BY <1>1, <1>3, Constants DEF IndInv, DeadPlace, Alive, Visited, Passes
<1>f. OpPlace'
  BY <1>1, <1>3, Constants DEF IndInv, OpPlace
<1> QED  BY <1>a, <1>b, <1>c, <1>d, <1>e, <1>f DEF IndInv
-----------------------------------------------------------------------------
(***************************************************************************)
(* The theorems.                                                           *)
(***************************************************************************)
\* Every step keeps the invariant.
LEMMA NextStep ==
    ASSUME IndInv, PlainBulk, Next
    PROVE  IndInv'
<1>1. CASE Application
  <2>1. ASSUME NEW e \in Alive \intersect Holders, NEW id \in AddIds, Add(e, id)
        PROVE  IndInv'
    BY <2>1, AddStep
  <2>2. ASSUME NEW e \in Alive \intersect Deletable, Delete(e)
        PROVE  IndInv'
    BY <2>2, ApplicationDeletes
  <2>3. ASSUME NEW id \in BulkIds, DeleteWith(id) \/ RemoveAll(id)
        PROVE  IndInv'
    BY <2>3, ApplicationDeletes
  <2> QED  BY <1>1, <2>1, <2>2, <2>3 DEF Application
<1>2. CASE Cleanup
  BY <1>2, OnDeleteMarkStep, MarkIdStep, MarkTableStep, MarkEntityStep, MarkRestStep,
     MarkDoneStep, ClearEntitiesStep, ClearDoneStep, SkipIdStep, ClearIdStep,
     ClearIdsDoneStep, CallsDoneStep, MergeStep, FinishStep DEF Cleanup
<1> QED  BY <1>1, <1>2 DEF Next

\* The invariant holds in every state of every behaviour, when ecs_delete_with and
\* ecs_remove_all get no wildcard.
THEOREM Invariance ==
    ASSUME PlainBulk
    PROVE  Spec => []IndInv
<1>1. Init => IndInv
  BY InitStep
<1>2. IndInv /\ [Next]_vars => IndInv'
  BY NextStep, StutterStep
<1> QED  BY <1>1, <1>2, PTL DEF Spec

\* MarksCleared, for every world, traits and observers: when an operation is over
\* no record and no table that it marked is left marked, however the deletion
\* spread, as long as ecs_delete_with and ecs_remove_all get no wildcard.
THEOREM MarksAreCleared ==
    ASSUME PlainBulk
    PROVE  Spec => []MarksCleared
<1>1. IndInv => MarksCleared
  BY DEF IndInv, RestPlace, MarksCleared
<1> QED  BY <1>1, Invariance, PTL

\* NoDangling, likewise: no type, table or component record refers to an entity
\* that was deleted, when observers do not refer to the entity that is deleted and
\* ecs_delete_with does not reach the component that it was given.
THEOREM NothingDangles ==
    ASSUME PlainBulk, Discipline
    PROVE  Spec => []NoDangling
<1>1. IndInv => NoDangling
  <2> SUFFICES ASSUME IndInv, pc = "idle" PROVE NoDangling
    BY DEF NoDangling
  <2>1. {type[e] : e \in Alive} \subseteq tables
    BY DEF IndInv, StorePlace
  <2>2. \A table \in tables : \A id \in table : RecordsOf(id) \subseteq records
    BY DEF IndInv, StorePlace
  <2>3. ASSUME NEW r \in records, NEW e \in Traits!Mentions(r)
        PROVE  e \in Alive
    <3>1. e \in Entities /\ \E id \in IdsOf(e) : id \in records
      BY MentionsRecord DEF IndInv, TypeOK, StorePlace
    <3> QED  BY <3>1 DEF IndInv, DeadPlace, Passes
  <2> QED  BY <2>1, <2>2, <2>3 DEF NoDangling
<1> QED  BY <1>1, Invariance, PTL
=============================================================================
