-------------------------- MODULE TableGraphProofs --------------------------
(***************************************************************************)
(* The table graph has no loose ends and no edge misses an observer of its *)
(* own id, for all entities, traits and ids and any number of operations:  *)
(* the theorems of TableGraph, from the inductive invariant IndInv.        *)
(***************************************************************************)
EXTENDS TableGraph, TLAPS

USE TraitsAssumption, EntitiesAssumption, MaxOpsAssumption

(***************************************************************************)
(* The parts of the inductive invariant, besides EdgesConnected and        *)
(* OwnIdObserved.                                                          *)
(***************************************************************************)
\* Every entity is in a table that exists, and there is always the root table.
TypesHaveTables ==
    /\ DOMAIN type = Entities
    /\ \A e \in Entities : type[e] \in tables
    /\ Root \in tables

\* The ids of tables have component records, and so have the wildcards for them.
TablesHaveRecords ==
    \A table \in tables : \A id \in table : RecordsOf(id) \subseteq records

\* A remove edge that leads elsewhere removes something that matches its id.
RemoveEdgesRemove ==
    \A key \in DOMAIN edges : key.kind = "remove" /\ edges[key].to # key.from =>
        \E x \in key.from : Matches(key.id, x)

\* Edges are records of type ecs_graph_edge_t with a diff.
IsDiff(d) ==
    d = [added |-> d.added, removed |-> d.removed, on_add |-> d.on_add,
         on_remove |-> d.on_remove, cached |-> d.cached]

IsEdge(edge) == edge = [to |-> edge.to, diff |-> edge.diff] /\ IsDiff(edge.diff)

EdgesAreEdges == \A key \in DOMAIN edges : IsEdge(edges[key])

IndInv ==
    /\ EdgesAreEdges
    /\ TypesHaveTables /\ TablesHaveRecords /\ RemoveEdgesRemove
    /\ nonfrag \subseteq DontFragment
    /\ EdgesConnected /\ OwnIdObserved
-----------------------------------------------------------------------------
(***************************************************************************)
(* Ids and patterns.                                                       *)
(***************************************************************************)
\* A pattern that matches an id is the id or its wildcard, both of which are
\* among the component records of the id.
LEMMA PatternHasRecord ==
    ASSUME NEW pattern, NEW id, Matches(pattern, id)
    PROVE  pattern \in RecordsOf(id)
BY DEF Matches, Types!Matches, RecordsOf, IsPair, Types!IsPair, Wildcard, Types!Wildcard

\* What matches the pattern of a pattern matches it as well.
LEMMA MatchesTransitive ==
    ASSUME NEW pattern, NEW id, NEW x, Matches(pattern, id), Matches(id, x)
    PROVE  Matches(pattern, x)
BY DEF Matches, Types!Matches, IsPair, Types!IsPair, Wildcard, Types!Wildcard

\* The record that is asked about the trait of an id is a record of every id that
\* matches it.
LEMMA TraitHasRecord ==
    ASSUME NEW id, NEW x, Matches(id, x)
    PROVE  TraitRecord(id) \in RecordsOf(x)
BY DEF Matches, Types!Matches, RecordsOf, TraitRecord, IsPair, Types!IsPair,
       Wildcard, Types!Wildcard, NoTarget, AutoOverride, Types!NoTarget, Types!AutoOverride

\* Relationships that are exclusive always fragment tables.
LEMMA NonfragNotExclusive ==
    ASSUME nonfrag \subseteq DontFragment, NEW node, NEW id, id[1] \in nonfrag
    PROVE  Replaced(node, id) = {}
BY DEF Replaced
-----------------------------------------------------------------------------
(***************************************************************************)
(* A new edge.                                                             *)
(***************************************************************************)
\* flecs_compute_table_diff makes a diff.
LEMMA DiffIsDiff ==
    ASSUME NEW kind, NEW node, NEW next, NEW id
    PROVE  IsDiff(ComputeTableDiff(kind, node, next, id)) /\ IsDiff(NoDiff)
BY DEF ComputeTableDiff, IsDiff, NoDiff

\* What flecs_table_traverse_add and _remove make of an edge that is not there.
NewEdge(key) ==
    LET to == FindTable(key.kind, key.from, key.id)
        flagged == IF MetDontFragment(key.kind, key.from, key.id)
                     THEN dontfrag \union {key.from} ELSE dontfrag
    IN  [to |-> to,
         diff |-> IF Linked(key, to, flagged)
                    THEN ComputeTableDiff(key.kind, key.from, to, key.id) ELSE NoDiff]

\* An add edge that adds its own id has the flag if the id is observed.
LEMMA NewAddEdge ==
    ASSUME nonfrag \subseteq DontFragment, NEW from, NEW id,
           NEW o \in observers, o.event = "OnAdd", Matches(o.pattern, id),
           id \in NewEdge(Key("add", from, id)).to \ from
    PROVE  NewEdge(Key("add", from, id)).diff.on_add
<1> DEFINE key == Key("add", from, id)
           to == FindTableWith(from, id)
<1>1. key.kind = "add" /\ key.from = from /\ key.id = id
  BY DEF Key
<1>2. NewEdge(key).to = to
  BY <1>1 DEF NewEdge, FindTable
<1>3. id \in to /\ id \notin from /\ to # from
  BY <1>2
<1>4. id[1] \notin nonfrag
  BY <1>3, NonfragNotExclusive DEF FindTableWith
<1>5. NewEdge(key).diff = ComputeTableDiff("add", from, to, id)
  BY <1>1, <1>3 DEF NewEdge, Linked, FindTable
<1>6. HasFlag("OnAdd", id)
  BY DEF HasFlag
<1>7. \E x \in to \ from : HasFlag("OnAdd", x)
  BY <1>3, <1>6
<1>8. ComputeTableDiff("add", from, to, id).on_add
  BY <1>4, <1>7 DEF ComputeTableDiff
<1> QED  BY <1>5, <1>8

\* A remove edge that leads elsewhere removes something that matches its id, and
\* has the flag if its id is observed.
LEMMA NewRemoveEdge ==
    ASSUME NEW from, from \in tables, NEW id, TablesHaveRecords,
           NewEdge(Key("remove", from, id)).to # from
    PROVE  /\ \E x \in from : Matches(id, x)
           /\ \A o \in observers : o.event = "OnRemove" /\ Matches(o.pattern, id) =>
                 NewEdge(Key("remove", from, id)).diff.on_remove
<1> DEFINE key == Key("remove", from, id)
           to == FindTableWithout(from, id)
<1>1. key.kind = "remove" /\ key.from = from /\ key.id = id
  BY DEF Key
<1>2. NewEdge(key).to = to
  BY <1>1 DEF NewEdge, FindTable
<1>3. to # from
  BY <1>2
<1>4. to = {x \in from : ~ Matches(id, x)}
  BY <1>3 DEF FindTableWithout
<1>5. PICK x \in from : Matches(id, x)
  BY <1>3, <1>4
<1>6. TraitRecord(id) \in records
  BY <1>5, TraitHasRecord DEF TablesHaveRecords
<1>7. id[1] \notin nonfrag
  BY <1>3, <1>6 DEF FindTableWithout
<1>8. NewEdge(key).diff = ComputeTableDiff("remove", from, to, id)
  BY <1>1, <1>3 DEF NewEdge, Linked, FindTable
<1>9. ASSUME NEW o \in observers, o.event = "OnRemove", Matches(o.pattern, id)
      PROVE  NewEdge(key).diff.on_remove
  <2>1. HasFlag("OnRemove", x)
    BY <1>5, <1>9, MatchesTransitive DEF HasFlag
  <2>2. \E y \in from \ to : HasFlag("OnRemove", y)
    BY <1>4, <1>5, <2>1
  <2>3. ComputeTableDiff("remove", from, to, id).on_remove
    BY <1>7, <2>2 DEF ComputeTableDiff
  <2> QED  BY <1>8, <2>3
<1> QED  BY <1>5, <1>9

\* What is cached for a new edge has the shape of an edge.
LEMMA NewEdgeIsEdge ==
    ASSUME NEW key
    PROVE  IsEdge(NewEdge(key))
BY DiffIsDiff DEF NewEdge, IsEdge

\* The graph with a new edge.
WithNewEdge(key) ==
    /\ DOMAIN edges' = DOMAIN edges \union {key}
    /\ edges'[key] = NewEdge(key)
    /\ \A k \in DOMAIN edges : k # key => edges'[k] = edges[k]
    /\ tables' = tables \union {NewEdge(key).to}
    /\ DOMAIN refs' = tables'
    /\ \A table \in tables' : refs'[table] \subseteq
          (IF table \in tables THEN refs[table] ELSE {})
          \union (IF table = NewEdge(key).to THEN {key} ELSE {})
    /\ \A table \in tables : refs[table] \subseteq refs'[table]
    /\ NewEdge(key).to # key.from => key \in refs'[NewEdge(key).to]
    /\ records \subseteq records'
    /\ \A x \in NewEdge(key).to : RecordsOf(x) \subseteq records'

\* flecs_table_traverse_add and flecs_table_traverse_remove add one edge and, unless it
\* exists, its target.
LEMMA CreateEdgeIs ==
    ASSUME NEW key, CreateEdge(key)
    PROVE  WithNewEdge(key)
BY DEF CreateEdge, NewEdge, Linked, WithNewEdge

\* Taking an edge, cached or new, from a table that exists.
LEMMA EdgeInv ==
    ASSUME IndInv, UNCHANGED observers, NEW from \in tables, NEW id,
           NEW kind \in {"add", "remove"}, Edge(Key(kind, from, id))
    PROVE  /\ tables \subseteq tables'
           /\ edges'[Key(kind, from, id)].to \in tables'
           /\ EdgesAreEdges' /\ TablesHaveRecords' /\ RemoveEdgesRemove'
           /\ EdgesConnected' /\ OwnIdObserved'
<1> DEFINE key == Key(kind, from, id)
<1>1. key.kind = kind /\ key.from = from /\ key.id = id
  BY DEF Key
<1> HIDE DEF key
<1>2. CASE key \in DOMAIN edges
  <2>1. UNCHANGED <<edges, tables, refs, dontfrag, records, visited>>
    BY <1>2 DEF Edge, CreateEdge, key
  <2> QED  BY <1>2, <2>1
           DEF IndInv, EdgesAreEdges, TablesHaveRecords, RemoveEdgesRemove,
               EdgesConnected, OwnIdObserved, key
<1>3. CASE key \notin DOMAIN edges
  <2>1. WithNewEdge(key)
    BY <1>3, CreateEdgeIs DEF Edge, key
  <2>2. tables \subseteq tables' /\ edges'[key].to \in tables'
    BY <2>1 DEF WithNewEdge
  <2>3. TablesHaveRecords'
    BY <2>1 DEF WithNewEdge, IndInv, TablesHaveRecords, RecordsOf
  <2>4. EdgesConnected'
    <3>1. ASSUME NEW k \in DOMAIN edges'
          PROVE  /\ k.from \in tables' /\ edges'[k].to \in tables'
                 /\ edges'[k].to # k.from => k \in refs'[edges'[k].to]
      BY <1>1, <2>1 DEF WithNewEdge, IndInv, EdgesConnected
    <3>2. ASSUME NEW table \in tables', NEW k \in refs'[table]
          PROVE  k \in DOMAIN edges' /\ edges'[k].to = table
      BY <1>3, <2>1 DEF WithNewEdge, IndInv, EdgesConnected
    <3> QED  BY <2>1, <3>1, <3>2 DEF WithNewEdge, EdgesConnected
  <2>5. RemoveEdgesRemove'
    BY <1>1, <2>1, NewRemoveEdge DEF WithNewEdge, IndInv, RemoveEdgesRemove, key
  <2>6. OwnIdObserved'
    <3>1. ASSUME NEW o \in observers, Matches(o.pattern, id), o.event = "OnAdd",
                 kind = "add", id \in NewEdge(key).to \ from
          PROVE  NewEdge(key).diff.on_add
      BY <3>1, NewAddEdge DEF IndInv, key
    <3>2. ASSUME NEW o \in observers, Matches(o.pattern, id), o.event = "OnRemove",
                 kind = "remove", NewEdge(key).to # from
          PROVE  NewEdge(key).diff.on_remove
      BY <3>2, NewRemoveEdge DEF IndInv, key
    <3> QED  BY <1>1, <2>1, <3>1, <3>2 DEF WithNewEdge, IndInv, OwnIdObserved
  <2>7. EdgesAreEdges'
    BY <2>1, NewEdgeIsEdge DEF IndInv, EdgesAreEdges, WithNewEdge
  <2> QED  BY <2>2, <2>3, <2>4, <2>5, <2>6, <2>7 DEF key
<1> QED  BY <1>2, <1>3
-----------------------------------------------------------------------------
(***************************************************************************)
(* Every action preserves the invariant.                                   *)
(***************************************************************************)
LEMMA OperateInv ==
    ASSUME IndInv, NEW kind \in {"add", "remove"}, NEW e \in Subjects, NEW id,
           Operate(kind, e, id)
    PROVE  IndInv'
<1> DEFINE key == Key(kind, type[e], id)
<1>1. Edge(key) /\ Commit(e, key, edges'[key]) /\ UNCHANGED <<nonfrag, observers>>
  BY DEF Operate
<1>2. e \in Entities /\ type[e] \in tables
  BY DEF IndInv, TypesHaveTables
<1>3. /\ tables \subseteq tables' /\ edges'[key].to \in tables'
      /\ EdgesAreEdges' /\ TablesHaveRecords' /\ RemoveEdgesRemove'
      /\ EdgesConnected' /\ OwnIdObserved'
  BY <1>1, <1>2, EdgeInv
<1>4. type' = [type EXCEPT ![e] = edges'[key].to]
  BY <1>1 DEF Commit
<1> HIDE DEF key
<1>5. TypesHaveTables'
  BY <1>2, <1>3, <1>4 DEF IndInv, TypesHaveTables, Root
<1> QED  BY <1>1, <1>3, <1>5 DEF IndInv

\* Tables go, with the edges from and to them: what is left is connected.
LEMMA DeleteTablesInv ==
    ASSUME IndInv, UNCHANGED observers, NEW gone, gone \subseteq tables,
           NEW disconnected, NEW created, DeleteTables(gone, disconnected, created)
    PROVE  /\ tables' = (tables \ gone) \union created
           /\ EdgesAreEdges' /\ RemoveEdgesRemove' /\ EdgesConnected' /\ OwnIdObserved'
<1>1. /\ DOMAIN edges' = DOMAIN edges \ (Cleared(gone) \union disconnected)
      /\ \A key \in DOMAIN edges' : edges'[key] = edges[key]
      /\ tables' = (tables \ gone) \union created
      /\ DOMAIN refs' = tables'
      /\ \A table \in tables' :
            refs'[table] = IF table \in tables THEN refs[table] \intersect DOMAIN edges' ELSE {}
  BY DEF DeleteTables
<1>2. ASSUME NEW key \in DOMAIN edges'
      PROVE  /\ key \in DOMAIN edges
             /\ key.from \notin gone /\ edges[key].to \notin gone
  <2>1. key \in DOMAIN edges /\ key \notin Cleared(gone)
    BY <1>1
  <2>2. key.from \notin gone
    BY <2>1 DEF Cleared
  <2>3. edges[key].to # key.from => edges[key].to \notin gone
    BY <2>1 DEF IndInv, EdgesConnected, Cleared
  <2> QED  BY <2>1, <2>2, <2>3
<1>3. EdgesConnected'
  <2>1. ASSUME NEW key \in DOMAIN edges'
        PROVE  /\ key.from \in tables' /\ edges'[key].to \in tables'
               /\ edges'[key].to # key.from => key \in refs'[edges'[key].to]
    <3>1. edges'[key] = edges[key] /\ key \in DOMAIN edges
      BY <1>1, <1>2
    <3>2. /\ key.from \in tables /\ edges[key].to \in tables
          /\ edges[key].to # key.from => key \in refs[edges[key].to]
      BY <3>1 DEF IndInv, EdgesConnected
    <3>3. key.from \in tables' /\ edges[key].to \in tables'
      BY <1>1, <1>2, <3>2
    <3>4. refs'[edges[key].to] = refs[edges[key].to] \intersect DOMAIN edges'
      BY <1>1, <3>2, <3>3
    <3> QED  BY <3>1, <3>2, <3>3, <3>4
  <2>2. ASSUME NEW table \in tables', NEW key \in refs'[table]
        PROVE  key \in DOMAIN edges' /\ edges'[key].to = table
    <3>1. table \in tables /\ key \in refs[table] /\ key \in DOMAIN edges'
      BY <1>1, <2>2
    <3>2. edges[key].to = table
      BY <3>1 DEF IndInv, EdgesConnected
    <3> QED  BY <1>1, <3>1, <3>2
  <2> QED  BY <1>1, <2>1, <2>2 DEF EdgesConnected
<1>4. EdgesAreEdges' /\ RemoveEdgesRemove' /\ OwnIdObserved'
  BY <1>1, <1>2 DEF IndInv, EdgesAreEdges, RemoveEdgesRemove, OwnIdObserved
<1> QED  BY <1>1, <1>3, <1>4

\* A table is freed: flecs_table_clear_edges removes its edges on both sides.
LEMMA DeleteEmptyTableInv ==
    ASSUME IndInv, NEW table \in tables, DeleteEmptyTable(table)
    PROVE  IndInv'
<1>1. /\ table # Root /\ Rows(table) = {} /\ DeleteTables({table}, {}, {})
      /\ UNCHANGED <<type, records, nonfrag, observers>>
  BY DEF DeleteEmptyTable
<1>2. /\ tables' = tables \ {table}
      /\ EdgesAreEdges' /\ RemoveEdgesRemove' /\ EdgesConnected' /\ OwnIdObserved'
  BY <1>1, DeleteTablesInv
<1>3. TypesHaveTables'
  BY <1>1, <1>2 DEF IndInv, TypesHaveTables, Rows, Root
<1>4. TablesHaveRecords'
  BY <1>1, <1>2 DEF IndInv, TablesHaveRecords, RecordsOf
<1> QED  BY <1>1, <1>2, <1>3, <1>4 DEF IndInv

\* Recycling x takes the tables and the records that mention it; the tables that
\* the entities of those tables move to keep the records of their ids.
LEMMA RecycleInv ==
    ASSUME IndInv, NEW x \in Recyclable, Recycle(x)
    PROVE  IndInv'
<1> DEFINE Pairs(table) == {id \in table : x \in Types!Mentions(id)}
           gone == {table \in tables : Pairs(table) # {}}
           created == {type'[e] : e \in Entities}
<1>1. /\ type' = [e \in Entities |-> IF e = x THEN Root ELSE type[e] \ Pairs(type[e])]
      /\ DeleteTables(gone, EdgesForId(x), created)
      /\ records' = {id \in records : x \notin Types!Mentions(id)}
      /\ nonfrag' = nonfrag \ {x}
      /\ UNCHANGED observers
  BY DEF Recycle
<1>2. /\ tables' = (tables \ gone) \union created
      /\ EdgesAreEdges' /\ RemoveEdgesRemove' /\ EdgesConnected' /\ OwnIdObserved'
  BY <1>1, DeleteTablesInv
<1>3. TypesHaveTables'
  BY <1>1, <1>2 DEF IndInv, TypesHaveTables, Root
<1>4. ASSUME NEW table \in tables', NEW id \in table
      PROVE  RecordsOf(id) \subseteq records'
  <2>1. x \notin Types!Mentions(id) /\ RecordsOf(id) \subseteq records
    <3>1. CASE table \in tables \ gone
      BY <3>1 DEF IndInv, TablesHaveRecords
    <3>2. CASE table \in created
      <4>1. PICK e \in Entities : table = type'[e]
        BY <3>2
      <4>2. type[e] \in tables /\ id \in type[e] \ Pairs(type[e])
        BY <1>1, <4>1 DEF IndInv, TypesHaveTables, Root
      <4> QED  BY <4>2 DEF IndInv, TablesHaveRecords
    <3> QED  BY <1>2, <3>1, <3>2
  <2>2. ASSUME NEW r \in RecordsOf(id)
        PROVE  x \notin Types!Mentions(r)
    <3>1. x # Wildcard
      BY DEF Wildcard
    <3> QED  BY <2>1, <3>1 DEF RecordsOf, Types!Mentions
  <2> QED  BY <1>1, <2>1, <2>2
<1>5. TablesHaveRecords'
  BY <1>4 DEF TablesHaveRecords, RecordsOf
<1> QED  BY <1>1, <1>2, <1>3, <1>5 DEF IndInv

\* The edges that a new observer is about get the flag.
LEMMA CreateObserverInv ==
    ASSUME IndInv, NEW event \in Events, NEW pattern, CreateObserver(event, pattern)
    PROVE  IndInv'
<1> DEFINE new == [event |-> event, pattern |-> pattern]
<1>1. /\ observers' = observers \union {new}
      /\ DOMAIN edges' = DOMAIN edges
      /\ UNCHANGED <<type, tables, refs, records, nonfrag>>
  BY DEF CreateObserver
<1>2. \A key \in DOMAIN edges :
         edges'[key] = IF key \in EdgesToFlag(event, pattern)
                         THEN [edges[key] EXCEPT !.diff = WithFlag(event, key, @)]
                         ELSE edges[key]
  BY DEF CreateObserver
<1>a. ASSUME NEW key \in DOMAIN edges
      PROVE  /\ IsEdge(edges'[key]) /\ edges'[key].to = edges[key].to
             /\ key \in EdgesToFlag(event, pattern) =>
                   edges'[key].diff = WithFlag(event, key, edges[key].diff)
             /\ key \notin EdgesToFlag(event, pattern) =>
                   edges'[key].diff = edges[key].diff
  <2>1. /\ edges[key] = [to |-> edges[key].to, diff |-> edges[key].diff]
        /\ IsDiff(edges[key].diff)
    BY DEF IndInv, EdgesAreEdges, IsEdge
  <2>2. [edges[key] EXCEPT !.diff = WithFlag(event, key, @)]
           = [to |-> edges[key].to, diff |-> WithFlag(event, key, edges[key].diff)]
    BY <2>1
  <2>3. IsDiff(WithFlag(event, key, edges[key].diff))
    BY <2>1 DEF IsDiff, WithFlag
  <2> QED  BY <1>2, <2>1, <2>2, <2>3 DEF IsEdge
<1>3. EdgesAreEdges'
  BY <1>1, <1>a DEF EdgesAreEdges
<1>4. ASSUME NEW key \in DOMAIN edges
      PROVE  /\ edges[key].diff.on_add => edges'[key].diff.on_add
             /\ edges[key].diff.on_remove => edges'[key].diff.on_remove
             /\ key \in EdgesToFlag(event, pattern) =>
                   /\ event = "OnAdd" => edges'[key].diff.on_add
                   /\ event = "OnRemove" => edges'[key].diff.on_remove
  <2>1. edges[key].diff =
           [added |-> edges[key].diff.added, removed |-> edges[key].diff.removed,
            on_add |-> edges[key].diff.on_add, on_remove |-> edges[key].diff.on_remove,
            cached |-> edges[key].diff.cached]
    BY DEF IndInv, EdgesAreEdges, IsEdge, IsDiff
  <2>2. CASE key \in EdgesToFlag(event, pattern)
    <3>1. edges'[key].diff = WithFlag(event, key, edges[key].diff)
      BY <1>a, <2>2
    <3>2. CASE event = "OnAdd"
      BY <2>1, <3>1, <3>2 DEF WithFlag
    <3>3. CASE event = "OnRemove"
      BY <2>1, <3>1, <3>3 DEF WithFlag
    <3> QED  BY <3>2, <3>3 DEF Events
  <2>3. CASE key \notin EdgesToFlag(event, pattern)
    BY <1>a, <2>3
  <2> QED  BY <2>2, <2>3
<1>5. ASSUME NEW key \in DOMAIN edges, Matches(pattern, key.id),
             event = "OnAdd", key.kind = "add", key.id \in edges[key].to \ key.from
      PROVE  edges'[key].diff.on_add
  <2>1. edges[key].to \in tables /\ key \in refs[edges[key].to]
    BY <1>5 DEF IndInv, EdgesConnected
  <2>2. pattern \in records
    BY <1>5, <2>1, PatternHasRecord DEF IndInv, TablesHaveRecords
  <2>3. edges[key].to \in TablesOf(pattern)
    BY <1>5, <2>1 DEF TablesOf
  <2>4. key \in EdgesToFlag(event, pattern)
    BY <1>5, <2>1, <2>2, <2>3 DEF EdgesToFlag
  <2> QED  BY <1>4, <1>5, <2>4
<1>6. ASSUME NEW key \in DOMAIN edges, Matches(pattern, key.id),
             event = "OnRemove", key.kind = "remove", edges[key].to # key.from
      PROVE  edges'[key].diff.on_remove
  <2>1. key.from \in tables
    BY DEF IndInv, EdgesConnected
  <2>2. PICK x \in key.from : Matches(key.id, x)
    BY <1>6 DEF IndInv, RemoveEdgesRemove
  <2>3. Matches(pattern, x)
    BY <1>6, <2>2, MatchesTransitive
  <2>4. pattern \in records
    BY <2>1, <2>2, <2>3, PatternHasRecord DEF IndInv, TablesHaveRecords
  <2>5. key.from \in TablesOf(pattern)
    BY <2>1, <2>2, <2>3 DEF TablesOf
  <2>6. key \in EdgesToFlag(event, pattern)
    BY <1>6, <2>4, <2>5 DEF EdgesToFlag
  <2> QED  BY <1>4, <1>6, <2>6
<1>7. OwnIdObserved'
  <2> SUFFICES ASSUME NEW key \in DOMAIN edges, NEW o \in observers \union {new},
                      Matches(o.pattern, key.id)
               PROVE  /\ o.event = "OnAdd" /\ key.kind = "add"
                           /\ key.id \in edges[key].to \ key.from =>
                         edges'[key].diff.on_add
                      /\ o.event = "OnRemove" /\ key.kind = "remove"
                           /\ edges[key].to # key.from =>
                         edges'[key].diff.on_remove
    BY <1>1, <1>a DEF OwnIdObserved
  <2>1. CASE o \in observers
    BY <1>4, <2>1 DEF IndInv, OwnIdObserved
  <2>2. CASE o = new
    BY <1>5, <1>6, <2>2
  <2> QED  BY <2>1, <2>2
<1>8. EdgesConnected' /\ RemoveEdgesRemove'
  BY <1>1, <1>a DEF IndInv, EdgesConnected, RemoveEdgesRemove
<1>9. TypesHaveTables' /\ TablesHaveRecords'
  BY <1>1 DEF IndInv, TypesHaveTables, TablesHaveRecords, RecordsOf
<1> QED  BY <1>1, <1>3, <1>7, <1>8, <1>9 DEF IndInv

\* An observer less, and nothing else changes.
LEMMA DeleteObserverInv ==
    ASSUME IndInv, NEW o \in observers, DeleteObserver(o)
    PROVE  IndInv'
BY DEF IndInv, EdgesAreEdges, DeleteObserver, TypesHaveTables, TablesHaveRecords, RecordsOf,
       RemoveEdgesRemove, EdgesConnected, OwnIdObserved

\* The graph starts with the root table.
LEMMA InitInv ==
    Init => IndInv
<1> SUFFICES ASSUME Init PROVE IndInv
  OBVIOUS
<1>1. TypesHaveTables
  BY DEF Init, TypesHaveTables
<1>2. TablesHaveRecords
  BY DEF Init, TablesHaveRecords
<1>3. DOMAIN edges = {}
  BY DEF Init
<1>4. EdgesConnected
  BY <1>3 DEF Init, EdgesConnected
<1> QED  BY <1>1, <1>2, <1>3, <1>4
         DEF Init, IndInv, EdgesAreEdges, RemoveEdgesRemove, OwnIdObserved

\* Every operation on the graph.
LEMMA NextInv ==
    IndInv /\ [Next]_vars => IndInv'
<1> SUFFICES ASSUME IndInv, [Next]_vars PROVE IndInv'
  OBVIOUS
<1>1. ASSUME NEW e \in Subjects, NEW id \in AddIds, AddId(e, id)
      PROVE  IndInv'
  BY <1>1, OperateInv DEF AddId
<1>2. ASSUME NEW e \in Subjects, NEW id \in Patterns, RemoveId(e, id)
      PROVE  IndInv'
  BY <1>2, OperateInv DEF RemoveId
<1>3. CASE UNCHANGED vars
  BY <1>3 DEF IndInv, vars, EdgesAreEdges, TypesHaveTables, TablesHaveRecords, RecordsOf,
              RemoveEdgesRemove, EdgesConnected, OwnIdObserved
<1> QED  BY <1>1, <1>2, <1>3, DeleteEmptyTableInv, RecycleInv, CreateObserverInv,
            DeleteObserverInv DEF Next

\* In every state entities are in tables that exist, their ids have component
\* records, and the graph is connected and knows of observers.
THEOREM Invariance == Spec => []IndInv
<1> QED  BY InitInv, NextInv, PTL DEF Spec

\* The graph has no loose ends, whatever tables and records were deleted: an edge
\* connects two tables that exist and is on the list of the table it leads to.
THEOREM GraphConnected == Spec => []EdgesConnected
<1>1. IndInv => EdgesConnected
  BY DEF IndInv
<1> QED  BY <1>1, Invariance, PTL

\* An edge that adds or removes its own id has the flag of every observer of it,
\* in whatever order edges, tables and observers came and went.
THEOREM ObserversOfOwnId == Spec => []OwnIdObserved
<1>1. IndInv => OwnIdObserved
  BY DEF IndInv
<1> QED  BY <1>1, Invariance, PTL
-----------------------------------------------------------------------------
(***************************************************************************)
(* What the diffs of edges say.                                            *)
(***************************************************************************)
EdgeKinds == \A key \in DOMAIN edges : key.kind \in {"add", "remove"}

\* An edge without a diff is about its own id.
UncachedEmpty == \A key \in DOMAIN edges : ~ edges[key].diff.cached => edges[key].diff = NoDiff

\* An edge for an id that does not fragment tables stays within its table.
NonfragLoops == \A key \in DOMAIN edges : key.id[1] \in nonfrag => edges[key].to = key.from

DiffInv == EdgeKinds /\ UncachedEmpty /\ NonfragLoops /\ DiffsExact

\* What DiffsExact says of one edge.
Exact(key, edge) ==
    /\ edge.to # key.from /\ key.id[1] \notin nonfrag
    /\ key.kind = "add" => key.id \notin key.from
    => /\ TraverseDiff(key, edge).added = edge.to \ key.from
       /\ TraverseDiff(key, edge).removed = key.from \ edge.to

\* A remove edge of an id that does not fragment tables stays within its table, also
\* when flecs_find_table_without cannot see the trait: no table has such an id
\* without the record of its trait.
LEMMA FindLoops ==
    ASSUME IndInv, NEW kind \in {"add", "remove"}, NEW from \in tables, NEW id,
           id[1] \in nonfrag
    PROVE  FindTable(kind, from, id) = from
<1>1. CASE kind = "add"
  BY <1>1, NonfragNotExclusive DEF IndInv, FindTable, FindTableWith
<1>2. CASE kind = "remove"
  <2>1. CASE TraitRecord(id) \in records
    BY <1>2, <2>1 DEF FindTable, FindTableWithout
  <2>2. CASE TraitRecord(id) \notin records
    <3>1. \A x \in from : ~ Matches(id, x)
      BY <2>2, TraitHasRecord DEF IndInv, TablesHaveRecords
    <3> QED  BY <1>2, <2>2, <3>1 DEF FindTable, FindTableWithout
  <2> QED  BY <2>1, <2>2
<1> QED  BY <1>1, <1>2

\* The ids by which a new edge to another table and its table differ, when there
\* is only one of them.
LEMMA OnlyOwnId ==
    ASSUME NEW kind \in {"add", "remove"}, NEW from, NEW id, id[1] \notin nonfrag,
           kind = "add" => id \notin from, ~ IsWildcard(id),
           FindTable(kind, from, id) # from,
           \A x, y \in (FindTable(kind, from, id) \ from) \union (from \ FindTable(kind, from, id)) :
              x = y
    PROVE  /\ FindTable(kind, from, id) \ from = IF kind = "add" THEN {id} ELSE {}
           /\ from \ FindTable(kind, from, id) = IF kind = "remove" THEN {id} ELSE {}
<1> DEFINE to == FindTable(kind, from, id)
<1>1. CASE kind = "add"
  <2>1. id \in to \ from
    BY <1>1 DEF FindTable, FindTableWith
  <2> QED  BY <1>1, <2>1
<1>2. CASE kind = "remove"
  <2>1. to = {x \in from : ~ Matches(id, x)}
    BY <1>2 DEF FindTable, FindTableWithout
  <2>2. \A x \in from : Matches(id, x) => x = id
    BY DEF Matches, Types!Matches, IsWildcard, Wildcard, Types!Wildcard
  <2>3. to \subseteq from /\ from \ to # {}
    BY <2>1
  <2> QED  BY <1>2, <2>1, <2>2, <2>3
<1> QED  BY <1>1, <1>2

\* What DiffInv says of a new edge.
SaysWhatItDoes(key) ==
    /\ ~ NewEdge(key).diff.cached => NewEdge(key).diff = NoDiff
    /\ key.id[1] \in nonfrag => NewEdge(key).to = key.from
    /\ Exact(key, NewEdge(key))

\* A new edge says what it does.
LEMMA NewDiff ==
    ASSUME IndInv, NEW kind \in {"add", "remove"}, NEW from \in tables, NEW id
    PROVE  SaysWhatItDoes(Key(kind, from, id))
<1> DEFINE key == Key(kind, from, id)
           to == FindTable(kind, from, id)
           edge == NewEdge(key)
<1>1. key.kind = kind /\ key.from = from /\ key.id = id
  BY DEF Key
<1>2. edge.to = to /\ edge.diff \in {NoDiff, ComputeTableDiff(kind, from, to, id)}
  BY <1>1 DEF NewEdge
<1>3. to # from => edge.diff = ComputeTableDiff(kind, from, to, id)
  BY <1>1 DEF NewEdge, Linked
<1> HIDE DEF edge, key
<1>4. ~ edge.diff.cached => edge.diff = NoDiff
  <2> DEFINE d == ComputeTableDiff(kind, from, to, id)
  <2>1. CASE id[1] \in nonfrag
    <3>1. d.cached
      BY <2>1 DEF ComputeTableDiff, NoDiff
    <3> QED  BY <1>2, <3>1
  <2>2. CASE id[1] \notin nonfrag
    <3>1. d = NoDiff \/ d.cached
      BY <2>2 DEF ComputeTableDiff
    <3> QED  BY <1>2, <3>1
  <2> QED  BY <2>1, <2>2
<1>5. id[1] \in nonfrag => edge.to = from
  BY <1>2, FindLoops
<1>6. ASSUME to # from, id[1] \notin nonfrag, kind = "add" => id \notin from
      PROVE  /\ TraverseDiff(key, edge).added = to \ from
             /\ TraverseDiff(key, edge).removed = from \ to
  <2>1. CASE edge.diff.cached
    <3>1. edge.diff.added = to \ from /\ edge.diff.removed = from \ to
      BY <1>3, <1>6, <2>1 DEF ComputeTableDiff, NoDiff
    <3> QED  BY <2>1, <3>1 DEF TraverseDiff
  <2>2. CASE ~ edge.diff.cached
    <3>1. Trivial(id, from, to)
      BY <1>3, <1>6, <2>2 DEF ComputeTableDiff
    <3>2. /\ to \ from = IF kind = "add" THEN {id} ELSE {}
          /\ from \ to = IF kind = "remove" THEN {id} ELSE {}
      BY <1>6, <3>1, OnlyOwnId DEF Trivial
    <3>3. TraverseDiff(key, edge) =
             [NoDiff EXCEPT !.added = IF kind = "add" THEN {id} ELSE {},
                            !.removed = IF kind = "remove" THEN {id} ELSE {}]
      BY <1>1, <1>2, <1>6, <2>2 DEF TraverseDiff
    <3> QED  BY <3>2, <3>3 DEF NoDiff
  <2> QED  BY <2>1, <2>2
<1>7. Exact(key, edge)
  BY <1>1, <1>2, <1>6 DEF Exact
<1> QED  BY <1>1, <1>4, <1>5, <1>7 DEF SaysWhatItDoes, key, edge

LEMMA OperateDiff ==
    ASSUME IndInv, DiffInv, NEW kind \in {"add", "remove"}, NEW e \in Subjects, NEW id,
           Operate(kind, e, id)
    PROVE  DiffInv'
<1> DEFINE key == Key(kind, type[e], id)
<1>1. Edge(key) /\ UNCHANGED nonfrag
  BY DEF Operate
<1>2. type[e] \in tables
  BY DEF IndInv, TypesHaveTables
<1>3. key.kind = kind /\ key.id = id /\ key.from = type[e]
  BY DEF Key
<1>4. CASE key \in DOMAIN edges
  <2>1. UNCHANGED edges
    BY <1>1, <1>4 DEF Edge, CreateEdge
  <2> QED  BY <1>1, <2>1 DEF DiffInv, EdgeKinds, UncachedEmpty, NonfragLoops, DiffsExact, TraverseDiff
<1>5. CASE key \notin DOMAIN edges
  <2>1. WithNewEdge(key)
    BY <1>1, <1>5, CreateEdgeIs DEF Edge
  <2>2. SaysWhatItDoes(key)
    BY <1>2, NewDiff
  <2> HIDE DEF key
  <2>3. EdgeKinds' /\ UncachedEmpty' /\ NonfragLoops'
    BY <1>1, <1>3, <2>1, <2>2
       DEF DiffInv, WithNewEdge, EdgeKinds, UncachedEmpty, NonfragLoops, SaysWhatItDoes
  <2>4. ASSUME NEW k \in DOMAIN edges', NEW edge, edge = edges'[k],
               edge.to # k.from, k.id[1] \notin nonfrag, k.kind = "add" => k.id \notin k.from
        PROVE  /\ TraverseDiff(k, edge).added = edge.to \ k.from
               /\ TraverseDiff(k, edge).removed = k.from \ edge.to
    <3>1. CASE k = key
      BY <2>1, <2>2, <2>4, <3>1 DEF WithNewEdge, SaysWhatItDoes, Exact
    <3>2. CASE k # key
      BY <2>1, <2>4, <3>2 DEF WithNewEdge, DiffInv, DiffsExact
    <3> QED  BY <3>1, <3>2
  <2>5. DiffsExact'
    BY <1>1, <2>4 DEF DiffsExact, TraverseDiff
  <2> QED  BY <2>3, <2>5 DEF DiffInv
<1> QED  BY <1>4, <1>5

\* Edges go, and ids that did not fragment tables do so now.
LEMMA FewerEdges ==
    ASSUME DiffInv, nonfrag' \subseteq nonfrag, DOMAIN edges' \subseteq DOMAIN edges,
           \A key \in DOMAIN edges' : edges'[key] = edges[key]
    PROVE  DiffInv'
<1>1. EdgeKinds' /\ UncachedEmpty' /\ NonfragLoops'
  BY DEF DiffInv, EdgeKinds, UncachedEmpty, NonfragLoops
<1>2. ASSUME NEW key \in DOMAIN edges', NEW edge, edge = edges'[key],
             edge.to # key.from, key.kind = "add" => key.id \notin key.from
      PROVE  /\ TraverseDiff(key, edge).added = edge.to \ key.from
             /\ TraverseDiff(key, edge).removed = key.from \ edge.to
  <2>1. key \in DOMAIN edges /\ edge = edges[key] /\ key.id[1] \notin nonfrag
    BY <1>2 DEF DiffInv, NonfragLoops
  <2> QED  BY <1>2, <2>1 DEF DiffInv, DiffsExact
<1>3. DiffsExact'
  BY <1>2 DEF DiffsExact, TraverseDiff
<1> QED  BY <1>1, <1>3 DEF DiffInv

SameReport(key, edge, new) ==
    edge.to # key.from =>
        /\ TraverseDiff(key, new).added = TraverseDiff(key, edge).added
        /\ TraverseDiff(key, new).removed = TraverseDiff(key, edge).removed

\* An observer gives an edge without a diff the one that it stands for.
LEMMA FlaggedDiff ==
    ASSUME NEW event \in Events, NEW key, NEW edge, IsEdge(edge),
           ~ edge.diff.cached => edge.diff = NoDiff,
           event = "OnAdd" => key.kind = "add", event = "OnRemove" => key.kind = "remove",
           NEW new, IsEdge(new), new.to = edge.to, new.diff = WithFlag(event, key, edge.diff)
    PROVE  new.diff.cached /\ SameReport(key, edge, new)
<1> USE DEF SameReport
<1> DEFINE d == edge.diff
<1>1. d = [added |-> d.added, removed |-> d.removed, on_add |-> d.on_add,
           on_remove |-> d.on_remove, cached |-> d.cached]
  BY DEF IsEdge, IsDiff
<1>2. CASE event = "OnAdd"
  <2>1. new.diff = [added |-> IF d.cached THEN d.added ELSE {key.id}, removed |-> d.removed,
                    on_add |-> TRUE, on_remove |-> d.on_remove, cached |-> TRUE]
    BY <1>1, <1>2 DEF WithFlag
  <2>2. CASE d.cached
    BY <2>1, <2>2 DEF TraverseDiff
  <2>3. CASE ~ d.cached
    <3>1. TraverseDiff(key, new) = new.diff /\ d.removed = {}
      BY <2>1, <2>3 DEF TraverseDiff, NoDiff
    <3>2. edge.to # key.from =>
             TraverseDiff(key, edge) =
                [NoDiff EXCEPT !.added = IF key.kind = "add" THEN {key.id} ELSE {},
                               !.removed = IF key.kind = "remove" THEN {key.id} ELSE {}]
      BY <2>3 DEF TraverseDiff
    <3>3. edge.to # key.from =>
             TraverseDiff(key, edge).added = {key.id} /\ TraverseDiff(key, edge).removed = {}
      BY <1>2, <3>2 DEF NoDiff
    <3> QED  BY <2>1, <2>3, <3>1, <3>3
  <2> QED  BY <2>2, <2>3
<1>3. CASE event = "OnRemove"
  <2>1. new.diff = [added |-> d.added, removed |-> IF d.cached THEN d.removed ELSE {key.id},
                    on_add |-> d.on_add, on_remove |-> TRUE, cached |-> TRUE]
    BY <1>1, <1>3 DEF WithFlag
  <2>2. CASE d.cached
    BY <2>1, <2>2 DEF TraverseDiff
  <2>3. CASE ~ d.cached
    <3>1. TraverseDiff(key, new) = new.diff /\ d.added = {}
      BY <2>1, <2>3 DEF TraverseDiff, NoDiff
    <3>2. edge.to # key.from =>
             TraverseDiff(key, edge) =
                [NoDiff EXCEPT !.added = IF key.kind = "add" THEN {key.id} ELSE {},
                               !.removed = IF key.kind = "remove" THEN {key.id} ELSE {}]
      BY <2>3 DEF TraverseDiff
    <3>3. edge.to # key.from =>
             TraverseDiff(key, edge).removed = {key.id} /\ TraverseDiff(key, edge).added = {}
      BY <1>3, <3>2 DEF NoDiff
    <3> QED  BY <2>1, <2>3, <3>1, <3>3
  <2> QED  BY <2>2, <2>3
<1> QED  BY <1>2, <1>3 DEF Events

LEMMA CreateObserverDiff ==
    ASSUME IndInv, DiffInv, NEW event \in Events, NEW pattern, CreateObserver(event, pattern)
    PROVE  DiffInv'
<1>1. /\ DOMAIN edges' = DOMAIN edges
      /\ \A key \in DOMAIN edges :
            edges'[key] = IF key \in EdgesToFlag(event, pattern)
                            THEN [edges[key] EXCEPT !.diff = WithFlag(event, key, @)]
                            ELSE edges[key]
      /\ UNCHANGED nonfrag
  BY DEF CreateObserver
<1>2. ASSUME NEW key \in DOMAIN edges
      PROVE  /\ edges'[key].to = edges[key].to
             /\ ~ edges'[key].diff.cached => edges'[key].diff = NoDiff
             /\ SameReport(key, edges[key], edges'[key])
  <2>1. CASE key \in EdgesToFlag(event, pattern)
    <3>1. /\ edges[key] = [to |-> edges[key].to, diff |-> edges[key].diff]
          /\ IsEdge(edges[key])
      BY DEF IndInv, EdgesAreEdges, IsEdge
    <3>2. edges'[key] = [to |-> edges[key].to, diff |-> WithFlag(event, key, edges[key].diff)]
      BY <1>1, <2>1, <3>1
    <3>3. IsDiff(WithFlag(event, key, edges[key].diff))
      BY <3>1 DEF IsEdge, IsDiff, WithFlag
    <3>4. IsEdge(edges'[key])
      BY <3>2, <3>3 DEF IsEdge
    <3>5. /\ event = "OnAdd" => key.kind = "add"
          /\ event = "OnRemove" => key.kind = "remove"
      BY <2>1 DEF EdgesToFlag
    <3>6. ~ edges[key].diff.cached => edges[key].diff = NoDiff
      BY DEF DiffInv, UncachedEmpty
    <3>7. edges'[key].to = edges[key].to
          /\ edges'[key].diff = WithFlag(event, key, edges[key].diff)
      BY <3>2
    <3> QED  BY <3>1, <3>4, <3>5, <3>6, <3>7, FlaggedDiff
  <2>2. CASE key \notin EdgesToFlag(event, pattern)
    BY <1>1, <2>2 DEF DiffInv, UncachedEmpty, SameReport
  <2> QED  BY <2>1, <2>2
<1>3. EdgeKinds' /\ UncachedEmpty' /\ NonfragLoops'
  BY <1>1, <1>2 DEF DiffInv, EdgeKinds, UncachedEmpty, NonfragLoops
<1>4. ASSUME NEW key \in DOMAIN edges, NEW edge, edge = edges'[key], edge.to # key.from,
             key.id[1] \notin nonfrag, key.kind = "add" => key.id \notin key.from
      PROVE  /\ TraverseDiff(key, edge).added = edge.to \ key.from
             /\ TraverseDiff(key, edge).removed = key.from \ edge.to
  BY <1>2, <1>4 DEF DiffInv, DiffsExact, SameReport
<1>5. DiffsExact'
  BY <1>1, <1>4 DEF DiffsExact, TraverseDiff
<1> QED  BY <1>3, <1>5 DEF DiffInv

\* Every operation on the graph.
LEMMA NextDiff ==
    IndInv /\ DiffInv /\ [Next]_vars => DiffInv'
<1> SUFFICES ASSUME IndInv, DiffInv, [Next]_vars PROVE DiffInv'
  OBVIOUS
<1>1. ASSUME NEW e \in Subjects, NEW id \in AddIds, AddId(e, id)
      PROVE  DiffInv'
  BY <1>1, OperateDiff DEF AddId
<1>2. ASSUME NEW e \in Subjects, NEW id \in Patterns, RemoveId(e, id)
      PROVE  DiffInv'
  BY <1>2, OperateDiff DEF RemoveId
<1>3. ASSUME NEW table \in tables, DeleteEmptyTable(table)
      PROVE  DiffInv'
  BY <1>3, FewerEdges DEF DeleteEmptyTable, DeleteTables
<1>4. ASSUME NEW x \in Recyclable, Recycle(x)
      PROVE  DiffInv'
  BY <1>4, FewerEdges DEF Recycle, DeleteTables
<1>5. ASSUME NEW event \in Events, NEW pattern \in Observable, CreateObserver(event, pattern)
      PROVE  DiffInv'
  BY <1>5, CreateObserverDiff
<1>6. ASSUME NEW o \in observers, DeleteObserver(o)
      PROVE  DiffInv'
  BY <1>6, FewerEdges DEF DeleteObserver
<1>7. CASE UNCHANGED vars
  BY <1>7, FewerEdges DEF vars
<1> QED  BY <1>1, <1>2, <1>3, <1>4, <1>5, <1>6, <1>7 DEF Next

LEMMA DiffInvariance == Spec => []DiffInv
<1>1. Init => DiffInv
  BY DEF Init, DiffInv, EdgeKinds, UncachedEmpty, NonfragLoops, DiffsExact
<1> QED  BY <1>1, NextDiff, Invariance, PTL DEF Spec

\* What a traversal of an edge to another table reports is exactly what distinguishes
\* the two tables, however the edge came to its diff.
THEOREM DiffsAreExact == Spec => []DiffsExact
<1>1. DiffInv => DiffsExact
  BY DEF DiffInv
<1> QED  BY <1>1, DiffInvariance, PTL
-----------------------------------------------------------------------------
(***************************************************************************)
(* Edges are not stale, if what they are computed from stays.              *)
(***************************************************************************)
\* Nothing in the table graph looks at an edge again when the ids of a base, the
\* trait of a component or what comes with an id change.
Discipline == BasesStay /\ WithStays /\ TraitsKnown

\* Edges are for ids that are added, and for those and their wildcards when they
\* are removed.
KeysKnown ==
    \A key \in DOMAIN edges :
        key.id \in Patterns /\ (key.kind = "add" => key.id \in AddIds)

\* A component record that does not fragment tables knows the tables with its edges.
EdgesVisited ==
    /\ DOMAIN visited = SparsePatterns
    /\ \A key \in DOMAIN edges : key.id[1] \in nonfrag => key.from \in visited[key.id]

BasesHold == \A b \in StableBases : type[b] = BaseType[b]

TraitsSeen == \A id \in SparsePatterns : id[1] \in nonfrag => TraitRecord(id) \in records

Grounds == KeysKnown /\ EdgesVisited /\ BasesHold /\ TraitsSeen

FreshInv == Grounds /\ EdgesFresh

(* flecs_find_table_with and flecs_find_table_without, with nothing in them  *)
(* that changes but the ids that do not fragment tables.                     *)
Overriding(base, nf) ==
    LET found == UNION {BaseType[b] : b \in Types!Reach(BaseArcs, base)}
    IN  {<<id[1], NoTarget>> : id \in {x \in found : x[2] = AutoOverride /\ x[1] \notin nf}}

AlongWith(r, o, nf) == {<<c, o>> : c \in Types!Reach(With, r) \ ({r} \union nf)}

FoundWith(node, id, nf) ==
    IF Replaced(node, id) = {} /\ (id[1] \in nf \/ id \in node) THEN node
    ELSE (node \ Replaced(node, id)) \union {id} \union AlongWith(id[1], id[2], nf)
         \union IF id[1] = IsA THEN Overriding(id[2], nf) ELSE {}

FoundWithout(node, id, nf) ==
    IF id[1] \in nf THEN node ELSE {x \in node : ~ Matches(id, x)}

Found(kind, node, id, nf) ==
    IF kind = "add" THEN FoundWith(node, id, nf) ELSE FoundWithout(node, id, nf)

\* Only the arcs that leave what can be reached decide what can be reached.
LEMMA ReachDepends ==
    ASSUME NEW arcs, NEW others, NEW x,
           \A y \in Types!Reach(arcs, x) : \A z : <<y, z>> \in arcs <=> <<y, z>> \in others,
           \A arc \in arcs \union others : arc = <<arc[1], arc[2]>>
    PROVE  Types!Reach(others, x) = Types!Reach(arcs, x)
<1> DEFINE Nodes(a) == {x} \union {arc[2] : arc \in a}
           Closed(a) == {s \in SUBSET Nodes(a) :
                            x \in s /\ \A arc \in a : arc[1] \in s => arc[2] \in s}
           reached == Types!Reach(arcs, x)
           reachedOther == Types!Reach(others, x)
<1>1. /\ reached = {y \in Nodes(arcs) : \A s \in Closed(arcs) : y \in s}
      /\ reachedOther = {y \in Nodes(others) : \A s \in Closed(others) : y \in s}
  BY DEF Types!Reach
<1>2. Nodes(arcs) \in Closed(arcs)
  OBVIOUS
<1>3. reached \in Closed(arcs)
  BY <1>1
<1>4. ASSUME NEW y \in reached, y # x
      PROVE  \E arc \in arcs : arc[1] \in reached /\ arc[2] = y
  <2> SUFFICES ASSUME \A arc \in arcs : arc[1] \in reached => arc[2] # y
               PROVE  FALSE
    OBVIOUS
  <2>1. reached \ {y} \in Closed(arcs)
    BY <1>3, <1>4
  <2>2. \A s \in Closed(arcs) : y \in s
    BY <1>1, <1>4
  <2> HIDE DEF Closed
  <2> QED  BY <2>1, <2>2
<1>5. ASSUME NEW arc, arc[1] \in reached, arc = <<arc[1], arc[2]>>
      PROVE  arc \in arcs <=> arc \in others
  BY <1>5
<1>6. reached \subseteq Nodes(others)
  <2> SUFFICES ASSUME NEW y \in reached, y # x
               PROVE  \E arc \in others : arc[2] = y
    OBVIOUS
  <2> QED  BY <1>4, <1>5
<1>7. reached \in Closed(others)
  BY <1>3, <1>5, <1>6
<1>8. reachedOther \subseteq reached
  BY <1>1, <1>7
<1>9. reachedOther \in Closed(others)
  BY <1>1
<1>10. reachedOther \in Closed(arcs)
  <2>1. reachedOther \subseteq Nodes(arcs)
    BY <1>1, <1>8
  <2>2. ASSUME NEW arc \in arcs, arc[1] \in reachedOther
        PROVE  arc[2] \in reachedOther
    BY <1>5, <1>8, <1>9, <2>2
  <2> QED  BY <1>9, <2>1, <2>2
<1> QED  BY <1>1, <1>8, <1>10

\* The arcs of a map from entities to ids.
ArcsIn(ids) == UNION {{<<e, id[2]>> : id \in {x \in ids[e] : x[1] = IsA}} : e \in Entities}

Inherits(ids, y, z) == \E x \in ids[y] : x[1] = IsA /\ x[2] = z

LEMMA ArcsOf ==
    ASSUME NEW ids, NEW y \in Entities, NEW z
    PROVE  <<y, z>> \in ArcsIn(ids) <=> Inherits(ids, y, z)
<1> DEFINE Arcs(e) == {<<e, id[2]>> : id \in {x \in ids[e] : x[1] = IsA}}
<1>1. <<y, z>> \in UNION {Arcs(e) : e \in Entities} <=> \E e \in Entities : <<y, z>> \in Arcs(e)
  <2> HIDE DEF Arcs
  <2> QED  OBVIOUS
<1>2. ASSUME NEW e \in Entities
      PROVE  <<y, z>> \in Arcs(e) <=> e = y /\ \E x \in ids[y] : x[1] = IsA /\ x[2] = z
  <2>1. ASSUME <<y, z>> \in Arcs(e)
        PROVE  e = y /\ \E x \in ids[y] : x[1] = IsA /\ x[2] = z
    <3>1. PICK x \in ids[e] : x[1] = IsA /\ <<y, z>> = <<e, x[2]>>
      BY <2>1
    <3> QED  BY <3>1
  <2>2. ASSUME e = y, NEW x \in ids[y], x[1] = IsA, x[2] = z
        PROVE  <<y, z>> \in Arcs(e)
    BY <2>2
  <2> QED  BY <2>1, <2>2
<1> HIDE DEF Arcs
<1>3. <<y, z>> \in UNION {Arcs(e) : e \in Entities}
         <=> \E x \in ids[y] : x[1] = IsA /\ x[2] = z
  BY <1>1, <1>2
<1> QED  BY <1>3 DEF Arcs, ArcsIn, Inherits

\* What a base overrides is what it did at first.
LEMMA OverridingIs ==
    Discipline /\ BasesHold =>
        \A id \in AddIds : id[1] = IsA => AddOverridesForBase(id[2]) = Overriding(id[2], nonfrag)
<1> SUFFICES ASSUME Discipline, BasesHold, NEW id \in AddIds, id[1] = IsA
             PROVE  AddOverridesForBase(id[2]) = Overriding(id[2], nonfrag)
  OBVIOUS
<1> DEFINE isa == ArcsIn(type)
           bases == Types!Reach(BaseArcs, id[2])
<1>1. bases \subseteq StableBases
  BY DEF Discipline, BasesStay
<1>2. \A b \in bases : b \in Entities /\ type[b] = BaseType[b]
  BY <1>1 DEF BasesHold, StableBases
<1> HIDE DEF bases
<1>3. ASSUME NEW y \in bases, NEW z
      PROVE  <<y, z>> \in BaseArcs <=> <<y, z>> \in isa
  <2>0. y \in Entities
    BY <1>2
  <2>1. BaseArcs = ArcsIn(BaseType)
    BY DEF BaseArcs, ArcsIn
  <2>2. <<y, z>> \in ArcsIn(BaseType) <=> Inherits(BaseType, y, z)
    BY <2>0, ArcsOf
  <2>3. <<y, z>> \in isa <=> Inherits(type, y, z)
    BY <2>0, ArcsOf DEF isa
  <2>4. Inherits(type, y, z) <=> Inherits(BaseType, y, z)
    BY <1>2 DEF Inherits
  <2> QED  BY <2>1, <2>2, <2>3, <2>4
<1>4. \A arc \in BaseArcs \union isa : arc = <<arc[1], arc[2]>>
  BY DEF BaseArcs, ArcsIn
<1> HIDE DEF isa
<1>5. Types!Reach(isa, id[2]) = bases
  BY <1>3, <1>4, ReachDepends DEF bases
<1>6. UNION {type[b] : b \in bases} = UNION {BaseType[b] : b \in bases}
  BY <1>2
<1>7. AddOverridesForBase(id[2]) =
         {<<y[1], NoTarget>> : y \in {x \in UNION {type[b] : b \in Types!Reach(isa, id[2])} :
                                         x[2] = AutoOverride /\ x[1] \notin nonfrag}}
  BY DEF AddOverridesForBase, ArcsIn, isa
<1> QED  BY <1>5, <1>6, <1>7 DEF Overriding, bases

\* Where an edge leads depends on nothing that changes but the ids that do not
\* fragment tables.
LEMMA FindIs ==
    Discipline /\ BasesHold /\ TraitsSeen /\ nonfrag \subseteq DontFragment =>
        \A kind, node, id : id \in Patterns /\ (kind = "add" => id \in AddIds) =>
            FindTable(kind, node, id) = Found(kind, node, id, nonfrag)
<1> SUFFICES ASSUME Discipline, BasesHold, TraitsSeen, nonfrag \subseteq DontFragment,
                    NEW kind, NEW node, NEW id, id \in Patterns, kind = "add" => id \in AddIds
             PROVE  FindTable(kind, node, id) = Found(kind, node, id, nonfrag)
  OBVIOUS
<1>1. CASE kind = "add"
  <2>1. AddWithProperty(id[1], id[2]) = AlongWith(id[1], id[2], nonfrag)
    BY DEF AddWithProperty, AlongWith
  <2>2. id[1] = IsA => AddOverridesForBase(id[2]) = Overriding(id[2], nonfrag)
    BY <1>1, OverridingIs
  <2>3. FindTableWith(node, id) = FoundWith(node, id, nonfrag)
    BY <2>1, <2>2 DEF FindTableWith, FoundWith
  <2> QED  BY <1>1, <2>3 DEF FindTable, Found
<1>2. CASE kind # "add"
  <2>1. id[1] \in nonfrag => TraitRecord(id) \in records
    BY DEF TraitsSeen, SparsePatterns
  <2>2. FindTableWithout(node, id) = FoundWithout(node, id, nonfrag)
    BY <2>1 DEF FindTableWithout, FoundWithout
  <2> QED  BY <1>2, <2>2 DEF FindTable, Found
<1> QED  BY <1>1, <1>2

\* An entity that is deleted takes part in none of this, unless the edge is for it.
Apart(gone, nf, left, kind, id) ==
    /\ gone \subseteq Recyclable /\ left = nf \ gone
    /\ id \in Patterns /\ (kind = "add" => id \in AddIds)
    /\ id[1] \in nf => id[1] \notin gone

LEMMA FoundStays ==
    ASSUME Discipline, NEW gone, NEW nf, NEW left, NEW kind, NEW node, NEW id,
           Apart(gone, nf, left, kind, id)
    PROVE  Found(kind, node, id, left) = Found(kind, node, id, nf)
<1> USE DEF Apart
<1>1. id[1] \in left <=> id[1] \in nf
  OBVIOUS
<1>2. AlongWith(id[1], id[2], left) = AlongWith(id[1], id[2], nf)
  <2>1. ASSUME NEW c \in Types!Reach(With, id[1]), c # id[1]
        PROVE  c \notin gone
    <3>1. PICK arc \in With : c = arc[2]
      BY <2>1 DEF Types!Reach
    <3> QED  BY <3>1 DEF Discipline, WithStays
  <2> QED  BY <2>1 DEF AlongWith
<1>3. ASSUME id \in AddIds, id[1] = IsA
      PROVE  Overriding(id[2], left) = Overriding(id[2], nf)
  <2>1. ASSUME NEW b \in Types!Reach(BaseArcs, id[2]), NEW y \in BaseType[b]
        PROVE  y[1] \notin gone
    <3>1. b \in StableBases
      BY <1>3 DEF Discipline, BasesStay
    <3> QED  BY <3>1 DEF StableBases, Types!Mentions
  <2> DEFINE found == UNION {BaseType[b] : b \in Types!Reach(BaseArcs, id[2])}
  <2>2. \A y \in found : y[1] \notin gone
    BY <2>1
  <2> HIDE DEF found
  <2>3. {y \in found : y[2] = AutoOverride /\ y[1] \notin left}
           = {y \in found : y[2] = AutoOverride /\ y[1] \notin nf}
    BY <2>2
  <2> QED  BY <2>3 DEF Overriding, found
<1>4. CASE kind = "add"
  BY <1>1, <1>2, <1>3, <1>4 DEF Found, FoundWith
<1>5. CASE kind # "add"
  BY <1>1, <1>5 DEF Found, FoundWithout
<1> QED  BY <1>4, <1>5

\* Likewise after a step.
LEMMA FindIsNext ==
    (Discipline /\ BasesHold /\ TraitsSeen /\ nonfrag \subseteq DontFragment =>
        \A kind, node, id : id \in Patterns /\ (kind = "add" => id \in AddIds) =>
            FindTable(kind, node, id) = Found(kind, node, id, nonfrag))'
BY FindIs, PTL

LEMMA FindIsThen ==
    ASSUME Discipline, Grounds', nonfrag' \subseteq DontFragment, NEW kind, NEW node, NEW id,
           id \in Patterns, kind = "add" => id \in AddIds
    PROVE  FindTable(kind, node, id)' = Found(kind, node, id, nonfrag')
<1>1. Discipline'
  BY DEF Discipline, BasesStay, WithStays, TraitsKnown, SparsePatterns
<1> QED  BY <1>1, FindIsNext DEF Grounds

\* What EdgesFresh says of one edge.
FreshEdge(key) ==
    /\ edges[key].to = FindTable(key.kind, key.from, key.id)
    /\ key.id[1] \in nonfrag =>
          /\ edges[key].to = key.from
          /\ key.id \in IF key.kind = "add" THEN edges[key].diff.added
                        ELSE edges[key].diff.removed

\* Edges that are left when entities are gone, with a flag more or not.
Left(left, gone) ==
    /\ gone \subseteq Recyclable /\ nonfrag' = nonfrag \ gone
    /\ left \subseteq DOMAIN edges
    /\ \A key \in left :
          /\ key.id[1] \in nonfrag => key.id[1] \notin gone
          /\ edges'[key].to = edges[key].to
          /\ edges[key].diff.added \subseteq edges'[key].diff.added
          /\ edges[key].diff.removed \subseteq edges'[key].diff.removed

\* They stay fresh: none of them is about an entity that is gone and fragments no
\* tables.
LEMMA StaysFresh ==
    ASSUME Discipline, FreshInv, nonfrag \subseteq DontFragment, Grounds',
           NEW left, NEW gone, Left(left, gone)
    PROVE  \A key \in left : FreshEdge(key)'
<1> SUFFICES ASSUME NEW key \in left
             PROVE  FreshEdge(key)'
  OBVIOUS
<1>0. /\ gone \subseteq Recyclable /\ nonfrag' = nonfrag \ gone /\ key \in DOMAIN edges
      /\ key.id[1] \in nonfrag => key.id[1] \notin gone
      /\ edges'[key].to = edges[key].to
      /\ edges[key].diff.added \subseteq edges'[key].diff.added
      /\ edges[key].diff.removed \subseteq edges'[key].diff.removed
  BY DEF Left
<1>1. key.id \in Patterns /\ (key.kind = "add" => key.id \in AddIds)
  BY <1>0 DEF FreshInv, Grounds, KeysKnown
<1>2. edges[key].to = Found(key.kind, key.from, key.id, nonfrag)
  BY <1>0, <1>1, FindIs DEF FreshInv, Grounds, EdgesFresh
<1>4. FindTable(key.kind, key.from, key.id)' = Found(key.kind, key.from, key.id, nonfrag')
  BY <1>0, <1>1, FindIsThen
<1>5. Found(key.kind, key.from, key.id, nonfrag') = Found(key.kind, key.from, key.id, nonfrag)
  <2>1. Apart(gone, nonfrag, nonfrag', key.kind, key.id)
    BY <1>0, <1>1 DEF Apart
  <2> QED  BY <2>1, FoundStays
<1>6. key.id[1] \in nonfrag' =>
         /\ edges'[key].to = key.from
         /\ key.id \in IF key.kind = "add" THEN edges'[key].diff.added
                       ELSE edges'[key].diff.removed
  BY <1>0 DEF FreshInv, EdgesFresh
<1> QED  BY <1>0, <1>2, <1>4, <1>5, <1>6 DEF FreshEdge

LEMMA OperateFresh ==
    ASSUME IndInv, DiffInv, Discipline, FreshInv, NEW kind \in {"add", "remove"},
           NEW e \in Subjects, NEW id \in Patterns, kind = "add" => id \in AddIds,
           Operate(kind, e, id)
    PROVE  FreshInv'
<1> DEFINE key == Key(kind, type[e], id)
<1>1. Edge(key) /\ Commit(e, key, edges'[key]) /\ UNCHANGED nonfrag
  BY DEF Operate
<1>2. e \in Entities /\ type[e] \in tables
  BY DEF IndInv, TypesHaveTables
<1>3. key.kind = kind /\ key.id = id /\ key.from = type[e]
  BY DEF Key
<1>4. type' = [type EXCEPT ![e] = edges'[key].to]
  BY <1>1 DEF Commit
<1> HIDE DEF key
<1>5. BasesHold'
  <2>1. ASSUME NEW b \in StableBases
        PROVE  type'[b] = BaseType[b]
    <3>1. b \in Entities /\ b # e /\ type[b] = BaseType[b]
      BY DEF StableBases, FreshInv, Grounds, BasesHold
    <3> QED  BY <1>4, <3>1 DEF IndInv, TypesHaveTables
  <2> QED  BY <2>1 DEF BasesHold, StableBases
<1>6. CASE key \in DOMAIN edges
  <2>1. UNCHANGED <<edges, records, visited>>
    BY <1>1, <1>6 DEF Edge, CreateEdge
  <2>2. Grounds'
    BY <1>1, <1>5, <2>1 DEF FreshInv, Grounds, KeysKnown, EdgesVisited, TraitsSeen, SparsePatterns
  <2>3. Left(DOMAIN edges, {})
    BY <1>1, <2>1 DEF Left
  <2>4. EdgesFresh'
    BY <2>1, <2>2, <2>3, StaysFresh DEF IndInv, EdgesFresh, FreshEdge
  <2> QED  BY <2>2, <2>4 DEF FreshInv
<1>7. CASE key \notin DOMAIN edges
  <2>1. WithNewEdge(key)
    BY <1>1, <1>7, CreateEdgeIs DEF Edge
  <2>2. SaysWhatItDoes(key)
    BY <1>2, NewDiff DEF key
  <2>3. KeysKnown'
    BY <1>3, <2>1 DEF WithNewEdge, FreshInv, Grounds, KeysKnown
  <2>4. TraitsSeen'
    BY <1>1, <2>1 DEF WithNewEdge, FreshInv, Grounds, TraitsSeen, SparsePatterns
  <2>5. id[1] \in nonfrag => MetDontFragment(kind, type[e], id)
    BY DEF MetDontFragment, IndInv, FreshInv, Grounds, TraitsSeen, SparsePatterns
  <2>6. id[1] \in nonfrag => id \in SparsePatterns
    BY DEF IndInv, SparsePatterns
  <2>7. EdgesVisited'
    <3>1. visited' = IF Linked(key, FindTable(kind, type[e], id),
                               IF MetDontFragment(kind, type[e], id)
                                 THEN dontfrag \union {type[e]} ELSE dontfrag)
                        /\ id[1] \in nonfrag
                       THEN [visited EXCEPT ![id] = @ \union {type[e]}] ELSE visited
      BY <1>1, <1>3, <1>7 DEF Edge, CreateEdge
    <3>2. CASE id[1] \in nonfrag
      <4>1. visited' = [visited EXCEPT ![id] = @ \union {type[e]}]
        BY <1>3, <2>5, <3>1, <3>2 DEF Linked
      <4>2. id \in DOMAIN visited
        BY <2>6, <3>2 DEF FreshInv, Grounds, EdgesVisited
      <4> QED  BY <1>1, <1>3, <2>1, <4>1, <4>2
               DEF WithNewEdge, FreshInv, Grounds, EdgesVisited, SparsePatterns
    <3>3. CASE id[1] \notin nonfrag
      <4>1. visited' = visited
        BY <3>1, <3>3
      <4> QED  BY <1>1, <1>3, <2>1, <3>3, <4>1
               DEF WithNewEdge, FreshInv, Grounds, EdgesVisited, SparsePatterns
    <3> QED  BY <3>2, <3>3
  <2>8. Grounds'
    BY <1>5, <2>3, <2>4, <2>7 DEF Grounds
  <2>9. \A k \in DOMAIN edges : FreshEdge(k)'
    <3>1. Left(DOMAIN edges, {})
      BY <1>1, <1>7, <2>1 DEF WithNewEdge, Left
    <3> QED  BY <2>8, <3>1, StaysFresh DEF IndInv
  <2>10. ASSUME NEW k, k = key
         PROVE  FreshEdge(k)'
    <3>1. edges'[k] = NewEdge(key) /\ k.kind = kind /\ k.id = id /\ k.from = type[e]
      BY <1>3, <2>1, <2>10 DEF WithNewEdge
    <3>2. edges'[k].to = Found(k.kind, k.from, k.id, nonfrag)
      BY <1>3, <3>1, FindIs DEF NewEdge, IndInv, FreshInv, Grounds
    <3>3. FindTable(k.kind, k.from, k.id)' = Found(k.kind, k.from, k.id, nonfrag')
      BY <1>1, <2>8, <3>1, FindIsThen DEF IndInv
    <3>4. ASSUME id[1] \in nonfrag
          PROVE  /\ edges'[k].to = k.from
                 /\ id \in IF kind = "add" THEN edges'[k].diff.added ELSE edges'[k].diff.removed
      <4>1. edges'[k].to = k.from
        BY <1>3, <2>2, <3>1, <3>4 DEF SaysWhatItDoes
      <4>2. edges'[k].diff = ComputeTableDiff(kind, type[e], edges'[k].to, id)
        BY <1>3, <2>5, <3>1, <3>4 DEF NewEdge, Linked
      <4> QED  BY <3>4, <4>1, <4>2 DEF ComputeTableDiff, NoDiff
    <3> QED  BY <1>1, <3>1, <3>2, <3>3, <3>4 DEF FreshEdge
  <2>11. DOMAIN edges' = DOMAIN edges \union {key}
    BY <2>1 DEF WithNewEdge
  <2>12. ASSUME NEW k \in DOMAIN edges'
         PROVE  FreshEdge(k)'
    BY <2>9, <2>10, <2>11
  <2>13. EdgesFresh'
    BY <2>12 DEF EdgesFresh, FreshEdge
  <2> QED  BY <2>8, <2>13 DEF FreshInv
<1> QED  BY <1>6, <1>7

\* What StaysFresh is about, when edges do not change.
LEMMA FewerFresh ==
    ASSUME IndInv, Discipline, FreshInv, Grounds', NEW gone, gone \subseteq Recyclable,
           nonfrag' = nonfrag \ gone, DOMAIN edges' \subseteq DOMAIN edges,
           \A key \in DOMAIN edges' : edges'[key] = edges[key],
           \A key \in DOMAIN edges' : key.id[1] \in nonfrag => key.id[1] \notin gone
    PROVE  FreshInv'
<1>1. Left(DOMAIN edges', gone)
  BY DEF Left
<1>2. ASSUME NEW key \in DOMAIN edges'
      PROVE  FreshEdge(key)'
  BY <1>1, StaysFresh DEF IndInv
<1>3. EdgesFresh'
  BY <1>2 DEF EdgesFresh, FreshEdge
<1> QED  BY <1>3 DEF FreshInv

LEMMA DeleteEmptyTableFresh ==
    ASSUME IndInv, Discipline, FreshInv, NEW table \in tables, DeleteEmptyTable(table)
    PROVE  FreshInv'
<1>1. /\ DOMAIN edges' = DOMAIN edges \ (Cleared({table}) \union {})
      /\ \A key \in DOMAIN edges' : edges'[key] = edges[key]
      /\ visited' = [id \in DOMAIN visited |-> visited[id] \ {table}]
      /\ UNCHANGED <<type, records, nonfrag>>
  BY DEF DeleteEmptyTable, DeleteTables
<1>2. \A key \in DOMAIN edges' : key \in DOMAIN edges /\ key.from # table
  BY <1>1 DEF Cleared
<1>3. EdgesVisited'
  <2>1. ASSUME NEW key \in DOMAIN edges', key.id[1] \in nonfrag
        PROVE  key.from \in visited'[key.id]
    <3>1. key.from \in visited[key.id] /\ key.id \in DOMAIN visited
      BY <1>2, <2>1 DEF FreshInv, Grounds, EdgesVisited, KeysKnown, SparsePatterns, IndInv
    <3> QED  BY <1>1, <1>2, <3>1
  <2> QED  BY <1>1, <2>1 DEF FreshInv, Grounds, EdgesVisited, SparsePatterns
<1>4. KeysKnown' /\ BasesHold' /\ TraitsSeen'
  BY <1>1, <1>2 DEF FreshInv, Grounds, KeysKnown, BasesHold, TraitsSeen, StableBases, SparsePatterns
<1>5. Grounds'
  BY <1>3, <1>4 DEF Grounds
<1>6. nonfrag' = nonfrag \ {}
  BY <1>1
<1> QED  BY <1>1, <1>2, <1>5, <1>6, FewerFresh

\* An entity that is deleted takes the edges for it, which its component records
\* know, when it fragmented no tables.
LEMMA RecycleFresh ==
    ASSUME IndInv, Discipline, FreshInv, NEW x \in Recyclable, Recycle(x)
    PROVE  FreshInv'
<1> DEFINE Pairs(table) == {id \in table : x \in Types!Mentions(id)}
           gone == {table \in tables : Pairs(table) # {}}
<1>1. /\ type' = [e \in Entities |-> IF e = x THEN Root ELSE type[e] \ Pairs(type[e])]
      /\ DOMAIN edges' = DOMAIN edges \ (Cleared(gone) \union EdgesForId(x))
      /\ \A key \in DOMAIN edges' : edges'[key] = edges[key]
      /\ records' = {id \in records : x \notin Types!Mentions(id)}
      /\ visited' = [id \in DOMAIN visited |->
                        IF x \in Types!Mentions(id) THEN {} ELSE visited[id] \ gone]
      /\ nonfrag' = nonfrag \ {x}
  BY DEF Recycle, DeleteTables
<1> HIDE DEF gone
<1>2. ASSUME NEW key \in DOMAIN edges'
      PROVE  /\ key \in DOMAIN edges /\ key.from \notin gone
             /\ key.id[1] \in nonfrag => /\ key.id \in DOMAIN visited
                                         /\ key.from \in visited[key.id]
                                         /\ x \notin Types!Mentions(key.id)
  <2>1. key \in DOMAIN edges /\ key \notin Cleared(gone) /\ key \notin EdgesForId(x)
    BY <1>1
  <2>2. key.id[1] \in nonfrag => key.id \in DOMAIN visited /\ key.from \in visited[key.id]
    BY <2>1 DEF FreshInv, Grounds, EdgesVisited, KeysKnown, SparsePatterns, IndInv
  <2> QED  BY <2>1, <2>2 DEF Cleared, EdgesForId
<1>3. KeysKnown'
  BY <1>2 DEF FreshInv, Grounds, KeysKnown
<1>4. EdgesVisited'
  <2>1. ASSUME NEW key \in DOMAIN edges', key.id[1] \in nonfrag'
        PROVE  key.from \in visited'[key.id]
    BY <1>1, <1>2, <2>1
  <2> QED  BY <1>1, <2>1 DEF FreshInv, Grounds, EdgesVisited, SparsePatterns
<1>5. BasesHold'
  <2>1. ASSUME NEW b \in StableBases
        PROVE  type'[b] = BaseType[b]
    <3>1. b \in Entities /\ b # x /\ type[b] = BaseType[b]
      BY DEF StableBases, FreshInv, Grounds, BasesHold
    <3>2. Pairs(type[b]) = {}
      BY <3>1 DEF StableBases
    <3> QED  BY <1>1, <3>1, <3>2
  <2> QED  BY <2>1 DEF BasesHold, StableBases
<1>6. TraitsSeen'
  <2>1. ASSUME NEW id \in SparsePatterns, id[1] \in nonfrag'
        PROVE  TraitRecord(id) \in records'
    <3>1. id[1] # x /\ TraitRecord(id) \in records
      BY <1>1, <2>1 DEF FreshInv, Grounds, TraitsSeen
    <3>2. x \notin Types!Mentions(TraitRecord(id))
      BY <3>1 DEF TraitRecord, Types!Mentions, IsPair, Types!IsPair, Wildcard, Types!NoTarget,
                  Types!AutoOverride
    <3> QED  BY <1>1, <3>1, <3>2
  <2> QED  BY <2>1 DEF TraitsSeen, SparsePatterns
<1>7. Grounds'
  BY <1>3, <1>4, <1>5, <1>6 DEF Grounds
<1>8. \A key \in DOMAIN edges' : key.id[1] \in nonfrag => key.id[1] \notin {x}
  <2>1. \A id : id[1] = x => x \in Types!Mentions(id)
    BY DEF Types!Mentions
  <2> QED  BY <1>2, <2>1
<1>9. {x} \subseteq Recyclable
  OBVIOUS
<1> QED  BY <1>1, <1>2, <1>7, <1>8, <1>9, FewerFresh

LEMMA CreateObserverFresh ==
    ASSUME IndInv, DiffInv, Discipline, FreshInv, NEW event \in Events, NEW pattern,
           CreateObserver(event, pattern)
    PROVE  FreshInv'
<1>1. /\ DOMAIN edges' = DOMAIN edges
      /\ \A key \in DOMAIN edges :
            edges'[key] = IF key \in EdgesToFlag(event, pattern)
                            THEN [edges[key] EXCEPT !.diff = WithFlag(event, key, @)]
                            ELSE edges[key]
      /\ UNCHANGED <<type, records, visited, nonfrag>>
  BY DEF CreateObserver
<1>2. Grounds'
  BY <1>1 DEF FreshInv, Grounds, KeysKnown, EdgesVisited, BasesHold, TraitsSeen, StableBases,
              SparsePatterns
<1>3. ASSUME NEW key \in DOMAIN edges
      PROVE  /\ edges'[key].to = edges[key].to
             /\ edges[key].diff.added \subseteq edges'[key].diff.added
             /\ edges[key].diff.removed \subseteq edges'[key].diff.removed
  <2>1. CASE key \in EdgesToFlag(event, pattern)
    <3> DEFINE d == edges[key].diff
    <3>1. edges[key] = [to |-> edges[key].to, diff |-> d] /\ IsDiff(d)
      BY DEF IndInv, EdgesAreEdges, IsEdge
    <3>2. edges'[key] = [to |-> edges[key].to, diff |-> WithFlag(event, key, d)]
      BY <1>1, <2>1, <3>1
    <3>3. ~ d.cached => d.added = {} /\ d.removed = {}
      BY DEF DiffInv, UncachedEmpty, NoDiff
    <3>4. WithFlag(event, key, d) =
             [added |-> IF event = "OnAdd" /\ ~ d.cached THEN {key.id} ELSE d.added,
              removed |-> IF event # "OnAdd" /\ ~ d.cached THEN {key.id} ELSE d.removed,
              on_add |-> IF event = "OnAdd" THEN TRUE ELSE d.on_add,
              on_remove |-> IF event # "OnAdd" THEN TRUE ELSE d.on_remove,
              cached |-> TRUE]
      BY <3>1 DEF WithFlag, IsDiff
    <3> QED  BY <3>2, <3>3, <3>4
  <2>2. CASE key \notin EdgesToFlag(event, pattern)
    BY <1>1, <2>2
  <2> QED  BY <2>1, <2>2
<1>4. Left(DOMAIN edges, {})
  BY <1>1, <1>3 DEF Left
<1>5. \A key \in DOMAIN edges : FreshEdge(key)'
  BY <1>2, <1>4, StaysFresh DEF IndInv
<1>6. EdgesFresh'
  BY <1>1, <1>5 DEF EdgesFresh, FreshEdge
<1> QED  BY <1>2, <1>6 DEF FreshInv

\* Nothing that the edges rest on changes.
LEMMA SameFresh ==
    ASSUME IndInv, Discipline, FreshInv, UNCHANGED <<type, edges, records, visited, nonfrag>>
    PROVE  FreshInv'
<1>1. Grounds'
  BY DEF FreshInv, Grounds, KeysKnown, EdgesVisited, BasesHold, TraitsSeen, StableBases,
         SparsePatterns
<1>2. nonfrag' = nonfrag \ {}
  OBVIOUS
<1> QED  BY <1>1, <1>2, FewerFresh

\* Every operation on the graph.
LEMMA NextFresh ==
    Discipline /\ IndInv /\ DiffInv /\ FreshInv /\ [Next]_vars => FreshInv'
<1> SUFFICES ASSUME Discipline, IndInv, DiffInv, FreshInv, [Next]_vars PROVE FreshInv'
  OBVIOUS
<1>1. ASSUME NEW e \in Subjects, NEW id \in AddIds, AddId(e, id)
      PROVE  FreshInv'
  <2>1. id \in Patterns
    BY DEF Patterns, Types!Patterns
  <2> QED  BY <1>1, <2>1, OperateFresh DEF AddId
<1>2. ASSUME NEW e \in Subjects, NEW id \in Patterns, RemoveId(e, id)
      PROVE  FreshInv'
  BY <1>2, OperateFresh DEF RemoveId
<1>3. ASSUME NEW table \in tables, DeleteEmptyTable(table)
      PROVE  FreshInv'
  BY <1>3, DeleteEmptyTableFresh
<1>4. ASSUME NEW x \in Recyclable, Recycle(x)
      PROVE  FreshInv'
  BY <1>4, RecycleFresh
<1>5. ASSUME NEW event \in Events, NEW pattern \in Observable, CreateObserver(event, pattern)
      PROVE  FreshInv'
  BY <1>5, CreateObserverFresh
<1>6. ASSUME NEW o \in observers, DeleteObserver(o)
      PROVE  FreshInv'
  BY <1>6, SameFresh DEF DeleteObserver
<1>7. CASE UNCHANGED vars
  BY <1>7, SameFresh DEF vars
<1> QED  BY <1>1, <1>2, <1>3, <1>4, <1>5, <1>6, <1>7 DEF Next

LEMMA FreshInvariance == ASSUME Discipline PROVE Spec => []FreshInv
<1>1. Init => FreshInv
  <2> SUFFICES ASSUME Init PROVE FreshInv
    OBVIOUS
  <2>1. KeysKnown /\ EdgesVisited /\ EdgesFresh
    BY DEF Init, KeysKnown, EdgesVisited, EdgesFresh
  <2>2. BasesHold
    BY DEF Init, BasesHold
  <2>3. TraitsSeen
    BY DEF Init, TraitsSeen, Discipline, TraitsKnown, SparsePatterns
  <2> QED  BY <2>1, <2>2, <2>3 DEF FreshInv, Grounds
<1>2. IndInv /\ DiffInv /\ FreshInv /\ [Next]_vars => FreshInv'
  BY NextFresh
<1> QED  BY <1>1, <1>2, Invariance, DiffInvariance, PTL DEF Spec

\* As long as what an edge was computed from stays, the edge is what a new lookup
\* would give, also after tables and entities have been deleted and numbers of
\* entities were used again.
THEOREM EdgesStayFresh ==
    ASSUME Discipline
    PROVE  Spec => []EdgesFresh
<1>1. FreshInv => EdgesFresh
  BY DEF FreshInv
<1> QED  BY <1>1, FreshInvariance, PTL
-----------------------------------------------------------------------------
(***************************************************************************)
(* The graph implements EntityTypes.                                       *)
(***************************************************************************)
Plain(table) == \A y \in table : y[1] \notin nonfrag

\* Ids that do not fragment tables are in no table.
PlainTables == \A table \in tables : Plain(table)

\* An edge for such an id is taken within its table, which has the flag, and is
\* about that id and no other.
OwnDiff(key, diff) ==
    /\ diff.cached
    /\ diff.added = IF key.kind = "add" THEN {key.id} ELSE {}
    /\ diff.removed = IF key.kind = "add" THEN {} ELSE {key.id}

NonfragEdges ==
    \A key \in DOMAIN edges : key.id[1] \in nonfrag =>
        key.from \in dontfrag /\ OwnDiff(key, edges[key].diff)

\* Other edges are about ids that fragment tables.
OtherDiff(diff) == \A y \in diff.added \union diff.removed : y[1] \notin nonfrag

OtherEdges == \A key \in DOMAIN edges : key.id[1] \notin nonfrag => OtherDiff(edges[key].diff)

\* Sparse storage has the ids that the application adds.
SparseOfSubjects ==
    /\ DOMAIN sparse = SparseIds
    /\ \A id \in SparseIds :
          /\ sparse[id] \subseteq Subjects
          /\ sparse[id] # {} => id[1] \in nonfrag

TypeInv == PlainTables /\ NonfragEdges /\ OtherEdges /\ SparseOfSubjects

\* The next table has no such ids either.
LEMMA PlainFind ==
    ASSUME nonfrag \subseteq DontFragment, NEW kind \in {"add", "remove"}, NEW from, Plain(from),
           NEW id
    PROVE  Plain(FindTable(kind, from, id))
<1>1. CASE kind = "remove"
  BY <1>1 DEF FindTable, FindTableWithout, Plain
<1>2. CASE kind = "add" /\ Replaced(from, id) = {} /\ (id[1] \in nonfrag \/ id \in from)
  BY <1>2 DEF FindTable, FindTableWith
<1>3. CASE kind = "add" /\ ~ (Replaced(from, id) = {} /\ (id[1] \in nonfrag \/ id \in from))
  <2>1. id[1] \notin nonfrag
    BY <1>3, NonfragNotExclusive
  <2>2. \A y \in AddWithProperty(id[1], id[2]) : y[1] \notin nonfrag
    BY DEF AddWithProperty
  <2>3. \A y \in AddOverridesForBase(id[2]) : y[1] \notin nonfrag
    BY DEF AddOverridesForBase
  <2>4. FindTable(kind, from, id) =
           (from \ Replaced(from, id)) \union {id} \union AddWithProperty(id[1], id[2])
              \union IF id[1] = IsA THEN AddOverridesForBase(id[2]) ELSE {}
    BY <1>3 DEF FindTable, FindTableWith
  <2> QED  BY <2>1, <2>2, <2>3, <2>4 DEF Plain
<1> QED  BY <1>1, <1>2, <1>3

LEMMA NewTypeDiff ==
    ASSUME IndInv, NEW kind \in {"add", "remove"}, NEW from \in tables, Plain(from), NEW id,
           id[1] \in nonfrag => MetDontFragment(kind, from, id)
    PROVE  /\ id[1] \in nonfrag => OwnDiff(Key(kind, from, id), NewEdge(Key(kind, from, id)).diff)
           /\ id[1] \notin nonfrag => OtherDiff(NewEdge(Key(kind, from, id)).diff)
<1> DEFINE key == Key(kind, from, id)
           to == FindTable(kind, from, id)
<1>1. key.kind = kind /\ key.from = from /\ key.id = id
  BY DEF Key
<1> HIDE DEF key
<1>2. ASSUME id[1] \in nonfrag
      PROVE  OwnDiff(key, NewEdge(key).diff)
  <2>1. NewEdge(key).diff = ComputeTableDiff(kind, from, to, id)
    BY <1>1, <1>2 DEF NewEdge, Linked
  <2>2. ComputeTableDiff(kind, from, to, id) =
           [NoDiff EXCEPT !.cached = TRUE, !.added = IF kind = "add" THEN {id} ELSE {},
                          !.removed = IF kind = "remove" THEN {id} ELSE {}]
    BY <1>2 DEF ComputeTableDiff
  <2> QED  BY <1>1, <2>1, <2>2 DEF OwnDiff, NoDiff
<1>3. ASSUME id[1] \notin nonfrag
      PROVE  OtherDiff(NewEdge(key).diff)
  <2> DEFINE d == ComputeTableDiff(kind, from, to, id)
  <2>1. NewEdge(key).diff \in {NoDiff, d}
    BY <1>1 DEF NewEdge
  <2>2. d = NoDiff \/ (d.added = to \ from /\ d.removed = from \ to)
    BY <1>3 DEF ComputeTableDiff
  <2>3. Plain(to)
    BY PlainFind DEF IndInv
  <2> HIDE DEF d
  <2>4. OtherDiff(d) /\ OtherDiff(NoDiff)
    BY <2>2, <2>3 DEF OtherDiff, Plain, NoDiff
  <2> QED  BY <2>1, <2>4
<1> QED  BY <1>2, <1>3 DEF key

LEMMA OperateTypes ==
    ASSUME IndInv, FreshInv, TypeInv, NEW kind \in {"add", "remove"}, NEW e \in Subjects,
           NEW id \in Patterns, Operate(kind, e, id)
    PROVE  TypeInv'
<1> DEFINE key == Key(kind, type[e], id)
<1>1. Edge(key) /\ Commit(e, key, edges'[key]) /\ UNCHANGED nonfrag
  BY DEF Operate
<1>2. type[e] \in tables
  BY DEF IndInv, TypesHaveTables
<1>3. key.kind = kind /\ key.id = id /\ key.from = type[e]
  BY DEF Key
<1> HIDE DEF key
<1>4. SparseOfSubjects'
  <2>1. DOMAIN sparse' = DOMAIN sparse
        /\ \A y \in DOMAIN sparse :
              /\ sparse'[y] \subseteq sparse[y] \union {e}
              /\ sparse'[y] \subseteq sparse[y] \/ IsSparse(y)
    BY <1>1 DEF Commit
  <2> QED  BY <1>1, <2>1 DEF TypeInv, SparseOfSubjects, SparseIds, IsSparse
<1>5. CASE key \in DOMAIN edges
  <2>1. UNCHANGED <<edges, tables, dontfrag>>
    BY <1>1, <1>5 DEF Edge, CreateEdge
  <2> QED  BY <1>1, <1>4, <2>1
           DEF TypeInv, PlainTables, Plain, NonfragEdges, OwnDiff, OtherEdges, OtherDiff
<1>6. CASE key \notin DOMAIN edges
  <2>1. WithNewEdge(key)
    BY <1>1, <1>6, CreateEdgeIs DEF Edge
  <2>2. dontfrag' = IF MetDontFragment(kind, type[e], id) THEN dontfrag \union {type[e]} ELSE dontfrag
    BY <1>1, <1>3, <1>6 DEF Edge, CreateEdge
  <2>3. id[1] \in nonfrag => MetDontFragment(kind, type[e], id)
    BY DEF MetDontFragment, IndInv, FreshInv, Grounds, TraitsSeen, SparsePatterns
  <2>4. Plain(type[e])
    BY <1>2 DEF TypeInv, PlainTables
  <2>5. /\ id[1] \in nonfrag => OwnDiff(key, NewEdge(key).diff)
        /\ id[1] \notin nonfrag => OtherDiff(NewEdge(key).diff)
    BY <1>2, <2>3, <2>4, NewTypeDiff DEF key
  <2>6. Plain(NewEdge(key).to)
    BY <1>3, <2>4, PlainFind DEF NewEdge, IndInv
  <2>7. PlainTables'
    BY <1>1, <2>1, <2>6 DEF WithNewEdge, TypeInv, PlainTables, Plain
  <2>8. NonfragEdges'
    <3>1. ASSUME NEW k \in DOMAIN edges', k.id[1] \in nonfrag
          PROVE  k.from \in dontfrag' /\ OwnDiff(k, edges'[k].diff)
      <4>1. CASE k = key
        BY <1>3, <2>1, <2>2, <2>3, <2>5, <3>1, <4>1 DEF WithNewEdge
      <4>2. CASE k # key
        BY <2>1, <2>2, <3>1, <4>2 DEF WithNewEdge, TypeInv, NonfragEdges
      <4> QED  BY <4>1, <4>2
    <3> QED  BY <1>1, <3>1 DEF NonfragEdges, OwnDiff
  <2>9. OtherEdges'
    BY <1>1, <1>3, <2>1, <2>5 DEF WithNewEdge, TypeInv, OtherEdges, OtherDiff
  <2> QED  BY <1>4, <2>7, <2>8, <2>9 DEF TypeInv
<1> QED  BY <1>5, <1>6

\* Tables go with their edges, and an entity with the edges for it.
LEMMA DeleteTablesTypes ==
    ASSUME FreshInv, TypeInv, nonfrag' \subseteq nonfrag, NEW gone,
           \A table \in tables' : Plain(table)', dontfrag' = dontfrag \ gone,
           \A key \in DOMAIN edges' :
              /\ key \in DOMAIN edges /\ edges'[key] = edges[key] /\ key.from \notin gone
              /\ key.id[1] \in nonfrag => key.id[1] \in nonfrag',
           SparseOfSubjects'
    PROVE  TypeInv'
<1>1. PlainTables'
  BY DEF PlainTables
<1>2. NonfragEdges'
  BY DEF TypeInv, NonfragEdges, OwnDiff
<1>3. OtherEdges'
  BY DEF TypeInv, OtherEdges, OtherDiff
<1> QED  BY <1>1, <1>2, <1>3 DEF TypeInv

LEMMA DeleteEmptyTableTypes ==
    ASSUME FreshInv, TypeInv, NEW table \in tables, DeleteEmptyTable(table)
    PROVE  TypeInv'
<1>1. /\ DOMAIN edges' = DOMAIN edges \ (Cleared({table}) \union {})
      /\ \A key \in DOMAIN edges' : edges'[key] = edges[key]
      /\ tables' = (tables \ {table}) \union {} /\ dontfrag' = dontfrag \ {table}
      /\ UNCHANGED <<sparse, nonfrag>>
  BY DEF DeleteEmptyTable, DeleteTables
<1>2. \A t \in tables' : Plain(t)'
  BY <1>1 DEF TypeInv, PlainTables, Plain
<1>3. \A key \in DOMAIN edges' : key \in DOMAIN edges /\ key.from \notin {table}
  BY <1>1 DEF Cleared
<1>4. SparseOfSubjects'
  BY <1>1 DEF TypeInv, SparseOfSubjects, SparseIds
<1> QED  BY <1>1, <1>2, <1>3, <1>4, DeleteTablesTypes

LEMMA RecycleTypes ==
    ASSUME IndInv, FreshInv, TypeInv, NEW x \in Recyclable, Recycle(x)
    PROVE  TypeInv'
<1> DEFINE Pairs(table) == {id \in table : x \in Types!Mentions(id)}
           gone == {table \in tables : Pairs(table) # {}}
<1>1. /\ type' = [e \in Entities |-> IF e = x THEN Root ELSE type[e] \ Pairs(type[e])]
      /\ DOMAIN edges' = DOMAIN edges \ (Cleared(gone) \union EdgesForId(x))
      /\ \A key \in DOMAIN edges' : edges'[key] = edges[key]
      /\ tables' = (tables \ gone) \union {type'[e] : e \in Entities}
      /\ dontfrag' = dontfrag \ gone
      /\ sparse' = [id \in DOMAIN sparse |->
                       IF x \in Types!Mentions(id) THEN {} ELSE sparse[id] \ {x}]
      /\ nonfrag' = nonfrag \ {x}
  BY DEF Recycle, DeleteTables
<1> HIDE DEF gone
<1>2. ASSUME NEW table \in tables'
      PROVE  Plain(table)'
  <2>1. CASE table \in tables
    BY <1>1, <2>1 DEF TypeInv, PlainTables, Plain
  <2>2. CASE table \notin tables
    <3>1. PICK e \in Entities : table = type'[e]
      BY <1>1, <2>2
    <3>2. table \subseteq type[e] /\ type[e] \in tables
      BY <1>1, <3>1 DEF Root, IndInv, TypesHaveTables
    <3> QED  BY <1>1, <3>2 DEF TypeInv, PlainTables, Plain
  <2> QED  BY <2>1, <2>2
<1>3. ASSUME NEW key \in DOMAIN edges'
      PROVE  /\ key \in DOMAIN edges /\ edges'[key] = edges[key] /\ key.from \notin gone
             /\ key.id[1] \in nonfrag => key.id[1] \in nonfrag'
  <2>1. key \in DOMAIN edges /\ key \notin Cleared(gone) /\ key \notin EdgesForId(x)
    BY <1>1
  <2>2. key.id[1] \in nonfrag => key.id \in DOMAIN visited /\ key.from \in visited[key.id]
    BY <2>1 DEF FreshInv, Grounds, EdgesVisited, KeysKnown, SparsePatterns, IndInv
  <2>3. key.id[1] = x => x \in Types!Mentions(key.id)
    BY DEF Types!Mentions, TraitsAssumption
  <2> QED  BY <1>1, <2>1, <2>2, <2>3 DEF Cleared, EdgesForId
<1>4. SparseOfSubjects'
  <2>1. \A id : id[1] = x => x \in Types!Mentions(id)
    BY TraitsAssumption DEF Types!Mentions
  <2> QED  BY <1>1, <2>1 DEF TypeInv, SparseOfSubjects, SparseIds
<1>5. nonfrag' \subseteq nonfrag
  BY <1>1
<1> QED  BY <1>1, <1>2, <1>3, <1>4, <1>5, DeleteTablesTypes

LEMMA CreateObserverTypes ==
    ASSUME IndInv, DiffInv, TypeInv, NEW event \in Events, NEW pattern,
           CreateObserver(event, pattern)
    PROVE  TypeInv'
<1>1. /\ DOMAIN edges' = DOMAIN edges
      /\ \A key \in DOMAIN edges :
            edges'[key] = IF key \in EdgesToFlag(event, pattern)
                            THEN [edges[key] EXCEPT !.diff = WithFlag(event, key, @)]
                            ELSE edges[key]
      /\ UNCHANGED <<tables, dontfrag, sparse, nonfrag>>
  BY DEF CreateObserver
<1>2. ASSUME NEW key \in DOMAIN edges
      PROVE  \/ edges'[key].diff = edges[key].diff
             \/ /\ edges'[key].diff.cached
                /\ edges[key].diff.cached =>
                      /\ edges'[key].diff.added = edges[key].diff.added
                      /\ edges'[key].diff.removed = edges[key].diff.removed
                /\ ~ edges[key].diff.cached =>
                      edges'[key].diff.added \union edges'[key].diff.removed \subseteq {key.id}
  <2>1. CASE key \in EdgesToFlag(event, pattern)
    <3> DEFINE d == edges[key].diff
    <3>1. edges[key] = [to |-> edges[key].to, diff |-> d] /\ IsDiff(d)
      BY DEF IndInv, EdgesAreEdges, IsEdge
    <3>2. edges'[key] = [to |-> edges[key].to, diff |-> WithFlag(event, key, d)]
      BY <1>1, <2>1, <3>1
    <3>3. ~ d.cached => d.added = {} /\ d.removed = {}
      BY DEF DiffInv, UncachedEmpty, NoDiff
    <3>4. WithFlag(event, key, d) =
             [added |-> IF event = "OnAdd" /\ ~ d.cached THEN {key.id} ELSE d.added,
              removed |-> IF event # "OnAdd" /\ ~ d.cached THEN {key.id} ELSE d.removed,
              on_add |-> IF event = "OnAdd" THEN TRUE ELSE d.on_add,
              on_remove |-> IF event # "OnAdd" THEN TRUE ELSE d.on_remove,
              cached |-> TRUE]
      BY <3>1 DEF WithFlag, IsDiff
    <3> QED  BY <3>2, <3>3, <3>4
  <2>2. CASE key \notin EdgesToFlag(event, pattern)
    BY <1>1, <2>2
  <2> QED  BY <2>1, <2>2
<1>3. NonfragEdges'
  BY <1>1, <1>2 DEF TypeInv, NonfragEdges, OwnDiff
<1>4. OtherEdges'
  BY <1>1, <1>2 DEF TypeInv, OtherEdges, OtherDiff
<1>5. PlainTables' /\ SparseOfSubjects'
  BY <1>1 DEF TypeInv, PlainTables, Plain, SparseOfSubjects, SparseIds
<1> QED  BY <1>3, <1>4, <1>5 DEF TypeInv

LEMMA SameTypes ==
    ASSUME TypeInv, UNCHANGED <<tables, dontfrag, edges, sparse, nonfrag>>
    PROVE  TypeInv'
BY DEF TypeInv, PlainTables, Plain, NonfragEdges, OwnDiff, OtherEdges, OtherDiff,
       SparseOfSubjects, SparseIds

LEMMA NextTypes ==
    IndInv /\ DiffInv /\ FreshInv /\ TypeInv /\ [Next]_vars => TypeInv'
<1> SUFFICES ASSUME IndInv, DiffInv, FreshInv, TypeInv, [Next]_vars PROVE TypeInv'
  OBVIOUS
<1>1. ASSUME NEW e \in Subjects, NEW id \in AddIds, AddId(e, id)
      PROVE  TypeInv'
  <2>1. id \in Patterns
    BY DEF Patterns, Types!Patterns
  <2> QED  BY <1>1, <2>1, OperateTypes DEF AddId
<1>2. ASSUME NEW e \in Subjects, NEW id \in Patterns, RemoveId(e, id)
      PROVE  TypeInv'
  BY <1>2, OperateTypes DEF RemoveId
<1>3. ASSUME NEW table \in tables, DeleteEmptyTable(table)
      PROVE  TypeInv'
  BY <1>3, DeleteEmptyTableTypes
<1>4. ASSUME NEW x \in Recyclable, Recycle(x)
      PROVE  TypeInv'
  BY <1>4, RecycleTypes
<1>5. ASSUME NEW event \in Events, NEW pattern \in Observable, CreateObserver(event, pattern)
      PROVE  TypeInv'
  BY <1>5, CreateObserverTypes
<1>6. ASSUME NEW o \in observers, DeleteObserver(o)
      PROVE  TypeInv'
  BY <1>6, SameTypes DEF DeleteObserver
<1>7. CASE UNCHANGED vars
  BY <1>7, SameTypes DEF vars
<1> QED  BY <1>1, <1>2, <1>3, <1>4, <1>5, <1>6, <1>7 DEF Next

LEMMA TypeInvariance == ASSUME Discipline, TraitsApart PROVE Spec => []TypeInv
<1>1. Init => TypeInv
  <2> SUFFICES ASSUME Init PROVE TypeInv
    OBVIOUS
  <2>1. PlainTables
    BY EntitiesAssumption DEF Init, PlainTables, Plain, TraitsApart, Root
  <2> QED  BY <2>1 DEF Init, TypeInv, NonfragEdges, OtherEdges, SparseOfSubjects
<1> QED  BY <1>1, NextTypes, Invariance, DiffInvariance, FreshInvariance, PTL DEF Spec

LEMMA MatchesFirst ==
    ASSUME NEW pattern, NEW id, Matches(pattern, id)
    PROVE  pattern[1] = id[1]
BY DEF Matches, Types!Matches

\* What an operation does to the table of the entity and to sparse storage.
LEMMA OperateMeans ==
    ASSUME IndInv, DiffInv, FreshInv, TypeInv, NEW kind \in {"add", "remove"},
           NEW e \in Subjects, NEW id \in Patterns, Operate(kind, e, id)
    PROVE  /\ type' = [type EXCEPT ![e] = FindTable(kind, type[e], id)]
           /\ DOMAIN sparse' = DOMAIN sparse
           /\ \A y \in DOMAIN sparse :
                 sparse'[y] = IF id[1] \notin nonfrag THEN sparse[y]
                              ELSE IF kind = "add"
                                THEN IF y = id THEN sparse[y] \union {e} ELSE sparse[y]
                                ELSE IF Matches(id, y) THEN sparse[y] \ {e} ELSE sparse[y]
<1> DEFINE key == Key(kind, type[e], id)
           edge == edges'[key]
           diff == IF edge.to # type[e] \/ type[e] \in dontfrag' THEN TraverseDiff(key, edge)
                   ELSE NoDiff
<1>1. Edge(key) /\ Commit(e, key, edge) /\ UNCHANGED nonfrag
  BY DEF Operate
<1>2. type[e] \in tables
  BY DEF IndInv, TypesHaveTables
<1>3. key.kind = kind /\ key.id = id /\ key.from = type[e]
  BY DEF Key
<1>4. /\ type' = [type EXCEPT ![e] = edge.to]
      /\ sparse' = [y \in DOMAIN sparse |->
                       (sparse[y] \union IF IsSparse(y) /\ y \in diff.added THEN {e} ELSE {})
                       \ IF IsSparse(y) /\ \E x \in diff.removed : Matches(x, y) THEN {e} ELSE {}]
  BY <1>1 DEF Commit
<1>5. TypeInv' /\ DiffInv'
  BY OperateTypes, OperateDiff
<1> HIDE DEF key
<1>6. key \in DOMAIN edges' /\ edge.to = FindTable(kind, type[e], id)
  <2>1. CASE key \in DOMAIN edges
    BY <1>1, <1>3, <2>1 DEF Edge, CreateEdge, FreshInv, EdgesFresh
  <2>2. CASE key \notin DOMAIN edges
    <3>1. WithNewEdge(key)
      BY <1>1, <2>2, CreateEdgeIs DEF Edge
    <3> QED  BY <1>3, <3>1 DEF WithNewEdge, NewEdge
  <2> QED  BY <2>1, <2>2
<1>7. ASSUME id[1] \in nonfrag
      PROVE  type[e] \in dontfrag' /\ OwnDiff(key, edge.diff)
  BY <1>1, <1>3, <1>5, <1>6, <1>7 DEF TypeInv, NonfragEdges, OwnDiff
<1>8. ASSUME id[1] \notin nonfrag
      PROVE  OtherDiff(edge.diff)
  BY <1>1, <1>3, <1>5, <1>6, <1>8 DEF TypeInv, OtherEdges, OtherDiff
<1> HIDE DEF edge
<1>9. ASSUME id[1] \in nonfrag
      PROVE  /\ diff.added = IF kind = "add" THEN {id} ELSE {}
             /\ diff.removed = IF kind = "add" THEN {} ELSE {id}
  BY <1>3, <1>7, <1>9 DEF OwnDiff, TraverseDiff
<1>10. ASSUME id[1] \notin nonfrag
       PROVE  OtherDiff(diff)
  <2>1. OtherDiff(NoDiff)
    BY DEF OtherDiff, NoDiff
  <2>2. OtherDiff(TraverseDiff(key, edge))
    <3>1. CASE edge.diff.cached
      BY <1>8, <1>10, <3>1 DEF TraverseDiff
    <3>2. CASE ~ edge.diff.cached /\ edge.to # type[e]
      <4>1. TraverseDiff(key, edge) =
               [NoDiff EXCEPT !.added = IF kind = "add" THEN {id} ELSE {},
                              !.removed = IF kind = "remove" THEN {id} ELSE {}]
        BY <1>3, <3>2 DEF TraverseDiff
      <4> QED  BY <1>10, <4>1 DEF OtherDiff, NoDiff
    <3>3. CASE ~ edge.diff.cached /\ edge.to = type[e]
      BY <1>3, <2>1, <3>3 DEF TraverseDiff
    <3> QED  BY <3>1, <3>2, <3>3
  <2> QED  BY <2>1, <2>2
<1> HIDE DEF diff
<1>11. ASSUME NEW y \in DOMAIN sparse
       PROVE  sparse'[y] = IF id[1] \notin nonfrag THEN sparse[y]
                           ELSE IF kind = "add"
                             THEN IF y = id THEN sparse[y] \union {e} ELSE sparse[y]
                             ELSE IF Matches(id, y) THEN sparse[y] \ {e} ELSE sparse[y]
  <2>0. sparse'[y] = (sparse[y] \union IF IsSparse(y) /\ y \in diff.added THEN {e} ELSE {})
                     \ IF IsSparse(y) /\ \E x \in diff.removed : Matches(x, y) THEN {e} ELSE {}
    BY <1>4
  <2>1. CASE id[1] \notin nonfrag
    <3>1. IsSparse(y) => y \notin diff.added /\ \A x \in diff.removed : ~ Matches(x, y)
      BY <1>10, <2>1, MatchesFirst DEF OtherDiff, IsSparse
    <3> QED  BY <2>0, <2>1, <3>1
  <2>2. CASE id[1] \in nonfrag
    <3>1. Matches(id, y) => IsSparse(y)
      BY <2>2, MatchesFirst DEF IsSparse
    <3>2. y = id => IsSparse(y)
      BY <2>2 DEF IsSparse
    <3> QED  BY <1>9, <2>0, <2>2, <3>1, <3>2
  <2> QED  BY <2>1, <2>2
<1> QED  BY <1>4, <1>6, <1>11

\* In EntityTypes: the ids that an entity has, and those that it gains.
IdsOf(e) == type[e] \union DontFragmentIds(e)

\* Sparse storage has no ids that fragment tables.
LEMMA SparseIsNonfrag ==
    ASSUME TypeInv, NEW e, NEW y \in DontFragmentIds(e)
    PROVE  y \in SparseIds /\ y[1] \in nonfrag
BY DEF TypeInv, SparseOfSubjects, DontFragmentIds

\* What a base overrides does not depend on the instance.
LEMMA OverridesAre ==
    ASSUME Discipline, TraitsApart, FreshInv, TypeInv, nonfrag \subseteq DontFragment,
           NEW id \in AddIds, id[1] = IsA
    PROVE  Types!Overrides(id[2]) = AddOverridesForBase(id[2])
<1> DEFINE ids == [e \in Entities |-> type[e] \union DontFragmentIds(e)]
           bases == Types!Reach(BaseArcs, id[2])
<1>1. bases \subseteq StableBases
  BY DEF Discipline, BasesStay
<1> HIDE DEF bases
<1>2. \A b \in bases : b \in Entities /\ type[b] = BaseType[b] /\ ids[b] = BaseType[b]
  <2> SUFFICES ASSUME NEW b \in bases
               PROVE  b \in Entities /\ type[b] = BaseType[b] /\ ids[b] = BaseType[b]
    OBVIOUS
  <2>1. b \in Entities /\ b \notin Subjects /\ type[b] = BaseType[b]
    BY <1>1 DEF StableBases, FreshInv, Grounds, BasesHold
  <2>2. DontFragmentIds(b) = {}
    BY <2>1 DEF DontFragmentIds, TypeInv, SparseOfSubjects
  <2> QED  BY <2>1, <2>2
<1> HIDE DEF ids
<1>3. ASSUME NEW y \in bases, NEW z
      PROVE  <<y, z>> \in BaseArcs <=> <<y, z>> \in ArcsIn(ids)
  <2>0. y \in Entities
    BY <1>2
  <2>1. BaseArcs = ArcsIn(BaseType)
    BY DEF BaseArcs, ArcsIn
  <2>2. <<y, z>> \in ArcsIn(BaseType) <=> Inherits(BaseType, y, z)
    BY <2>0, ArcsOf
  <2>3. <<y, z>> \in ArcsIn(ids) <=> Inherits(ids, y, z)
    BY <2>0, ArcsOf
  <2>4. Inherits(ids, y, z) <=> Inherits(BaseType, y, z)
    BY <1>2 DEF Inherits
  <2> QED  BY <2>1, <2>2, <2>3, <2>4
<1>4. \A arc \in BaseArcs \union ArcsIn(ids) : arc = <<arc[1], arc[2]>>
  BY DEF BaseArcs, ArcsIn
<1>5. Types!Reach(ArcsIn(ids), id[2]) = bases
  BY <1>3, <1>4, ReachDepends DEF bases
<1>6. Types!IsAArcs = ArcsIn(ids)
  BY DEF Types!IsAArcs, ArcsIn, ids
<1>7. UNION {ids[b] : b \in bases} = UNION {BaseType[b] : b \in bases}
  BY <1>2
<1>8. Types!Overrides(id[2]) =
         {<<y[1], NoTarget>> :
             y \in {x \in UNION {BaseType[b] : b \in bases} : x[2] = AutoOverride}}
  BY <1>5, <1>6, <1>7 DEF Types!Overrides, NoTarget, AutoOverride, Types!NoTarget,
                          Types!AutoOverride, ids
<1>9. \A y \in UNION {BaseType[b] : b \in bases} : y[1] \notin nonfrag
  <2>1. ASSUME NEW b \in bases, NEW y \in BaseType[b]
        PROVE  y[1] \notin nonfrag
    BY <1>2 DEF TraitsApart
  <2> QED  BY <2>1
<1>10. AddOverridesForBase(id[2]) = Overriding(id[2], nonfrag)
  BY OverridingIs DEF FreshInv, Grounds
<1> DEFINE found == UNION {BaseType[b] : b \in bases}
<1>11. {x \in found : x[2] = AutoOverride /\ x[1] \notin nonfrag} = {x \in found : x[2] = AutoOverride}
  BY <1>9
<1> QED  BY <1>8, <1>10, <1>11 DEF Overriding, bases

LEMMA ReachSelf ==
    ASSUME NEW arcs, NEW x
    PROVE  x \in Types!Reach(arcs, x)
BY DEF Types!Reach

\* Nothing is reached along arcs that lead from elsewhere.
LEMMA ReachAlone ==
    ASSUME NEW arcs, NEW x, \A arc \in arcs : arc[1] # x
    PROVE  Types!Reach(arcs, x) = {x}
<1> DEFINE nodes == {x} \union {arc[2] : arc \in arcs}
           closed == {s \in SUBSET nodes : x \in s /\ \A arc \in arcs : arc[1] \in s => arc[2] \in s}
<1>1. {x} \in closed
  OBVIOUS
<1>2. Types!Reach(arcs, x) = {y \in nodes : \A s \in closed : y \in s}
  BY DEF Types!Reach
<1>3. x \in nodes /\ \A s \in closed : x \in s
  OBVIOUS
<1> HIDE DEF closed, nodes
<1> QED  BY <1>1, <1>2, <1>3

\* What comes with an id, as EntityTypes and flecs_find_table_with have it.
LEMMA ImpliedIs ==
    ASSUME Discipline, TraitsApart, FreshInv, TypeInv, nonfrag \subseteq DontFragment,
           NEW id \in AddIds
    PROVE  Types!Implied(id) =
              IF id[1] \in nonfrag THEN {id}
              ELSE {id} \union AddWithProperty(id[1], id[2])
                   \union IF id[1] = IsA THEN AddOverridesForBase(id[2]) ELSE {}
<1>1. id = <<id[1], id[2]>>
  BY DEF TraitsApart, Ids
<1>2. id[1] = IsA => Types!IsPair(id)
  <2>1. id[1] = IsA => id[2] \in Entities
    BY ReachSelf DEF Discipline, BasesStay, StableBases
  <2> QED  BY <2>1, TraitsAssumption DEF Types!IsPair, Types!NoTarget, Types!AutoOverride
<1>3. Types!Implied(id) =
         {<<c, id[2]>> : c \in Types!Reach(With, id[1])}
         \union IF id[1] = IsA THEN Types!Overrides(id[2]) ELSE {}
  BY <1>2 DEF Types!Implied
<1>4. CASE id[1] \in nonfrag
  <2>1. Types!Reach(With, id[1]) = {id[1]}
    BY <1>4, ReachAlone DEF TraitsApart
  <2>2. id[1] # IsA
    BY <1>4 DEF TraitsApart
  <2> QED  BY <1>1, <1>3, <1>4, <2>1, <2>2
<1>5. CASE id[1] \notin nonfrag
  <2> DEFINE reached == Types!Reach(With, id[1])
  <2>1. id[1] \in reached
    BY ReachSelf
  <2>2. ASSUME NEW c \in reached, c # id[1]
        PROVE  c \notin nonfrag
    <3>1. PICK arc \in With : c = arc[2]
      BY <2>2 DEF Types!Reach
    <3> QED  BY <3>1 DEF TraitsApart
  <2>3. AddWithProperty(id[1], id[2]) = {<<c, id[2]>> : c \in reached \ ({id[1]} \union nonfrag)}
    BY DEF AddWithProperty
  <2> HIDE DEF reached
  <2>4. {<<c, id[2]>> : c \in reached} = {id} \union AddWithProperty(id[1], id[2])
    BY <1>1, <2>1, <2>2, <2>3
  <2>5. id[1] = IsA => Types!Overrides(id[2]) = AddOverridesForBase(id[2])
    BY OverridesAre
  <2> QED  BY <1>3, <1>5, <2>4, <2>5 DEF reached
<1> QED  BY <1>4, <1>5

\* What an id means in EntityTypes is what the lookup of the next table and sparse
\* storage amount to together.
LEMMA AddedIs ==
    ASSUME Discipline, TraitsApart, FreshInv, TypeInv, nonfrag \subseteq DontFragment,
           NEW e \in Entities, Plain(type[e]), NEW id \in AddIds
    PROVE  Types!Added(IdsOf(e), id) =
              IF id[1] \in nonfrag THEN IdsOf(e) \union {id}
              ELSE FindTable("add", type[e], id) \union DontFragmentIds(e)
<1> DEFINE set == IdsOf(e)
           others == DontFragmentIds(e)
<1>1. \A y \in others : y[1] \in nonfrag
  BY SparseIsNonfrag
<1>2. \A y \in type[e] : y[1] \notin nonfrag
  BY DEF Plain
<1>3. set = type[e] \union others
  BY DEF IdsOf
<1>4. Types!Added(set, id) =
         IF id \in set /\ id[1] \notin Exclusive THEN set
         ELSE (set \ IF id[1] \in Exclusive THEN Types!SameRelationship(set, id) ELSE {})
              \union Types!Implied(id)
  BY DEF Types!Added
<1> HIDE DEF set, others
<1>5. CASE id[1] \in nonfrag
  <2>1. id[1] \notin Exclusive
    BY <1>5, TraitsAssumption
  <2>2. Types!Implied(id) = {id}
    BY <1>5, ImpliedIs
  <2> QED  BY <1>4, <1>5, <2>1, <2>2 DEF set
<1>6. CASE id[1] \notin nonfrag
  <2> DEFINE gone == Replaced(type[e], id)
             found == (type[e] \ gone) \union Types!Implied(id)
  <2>1. gone = IF id[1] \in Exclusive THEN Types!SameRelationship(set, id) ELSE {}
    <3>1. CASE id[1] \notin Exclusive
      BY <3>1 DEF Replaced
    <3>2. CASE id[1] \in Exclusive
      <4>1. gone = {x \in type[e] : IsPair(id) /\ IsPair(x) /\ x[1] = id[1]}
        BY <3>2 DEF Replaced
      <4>2. Types!SameRelationship(set, id) = {x \in set : IsPair(id) /\ IsPair(x) /\ x[1] = id[1]}
        BY DEF Types!SameRelationship, IsPair
      <4> QED  BY <1>1, <1>3, <1>6, <3>2, <4>1, <4>2
    <3> QED  BY <3>1, <3>2
  <2>2. Types!Implied(id) =
           {id} \union AddWithProperty(id[1], id[2])
           \union IF id[1] = IsA THEN AddOverridesForBase(id[2]) ELSE {}
    BY <1>6, ImpliedIs
  <2>3. FindTable("add", type[e], id) =
           IF gone = {} /\ id \in type[e] THEN type[e] ELSE found
    BY <1>6, <2>2 DEF FindTable, FindTableWith
  <2>4. id \in set <=> id \in type[e]
    BY <1>1, <1>3, <1>6
  <2>5. gone \intersect others = {}
    <3>1. gone \subseteq type[e]
      BY DEF Replaced
    <3> QED  BY <1>1, <1>2, <3>1
  <2>6. id[1] \in Exclusive /\ id \in type[e] => id \in gone
    BY DEF Replaced, TraitsApart
  <2>7. id[1] \notin Exclusive => gone = {}
    BY DEF Replaced
  <2> HIDE DEF gone
  <2>8. CASE id \in type[e] /\ id[1] \notin Exclusive
    BY <1>3, <1>4, <1>6, <2>3, <2>4, <2>7, <2>8 DEF set, others
  <2>9. CASE ~ (id \in type[e] /\ id[1] \notin Exclusive)
    <3>1. Types!Added(set, id) = (set \ gone) \union Types!Implied(id)
      BY <1>4, <2>1, <2>4, <2>9
    <3>2. FindTable("add", type[e], id) = found
      BY <2>3, <2>6, <2>9
    <3>3. (set \ gone) \union Types!Implied(id) = found \union others
      BY <1>3, <2>5
    <3> QED  BY <1>6, <3>1, <3>2, <3>3 DEF set, others
  <2> QED  BY <2>8, <2>9
<1> QED  BY <1>5, <1>6

\* flecs_add_id adds the id and what comes with it.
LEMMA AddMeans ==
    ASSUME IndInv, DiffInv, Discipline, TraitsApart, FreshInv, TypeInv,
           NEW e \in Subjects, NEW id \in AddIds, Operate("add", e, id)
    PROVE  Types!Add(e, id)
<1>1. id \in Patterns
  BY DEF Patterns, Types!Patterns
<1>2. /\ type' = [type EXCEPT ![e] = FindTable("add", type[e], id)]
      /\ DOMAIN sparse' = DOMAIN sparse
      /\ \A y \in DOMAIN sparse :
            sparse'[y] = IF id[1] \in nonfrag /\ y = id THEN sparse[y] \union {e} ELSE sparse[y]
  BY <1>1, OperateMeans
<1>3. e \in Entities /\ type[e] \in tables /\ DOMAIN type = Entities
  BY DEF IndInv, TypesHaveTables
<1>4. Types!Added(IdsOf(e), id) =
         IF id[1] \in nonfrag THEN IdsOf(e) \union {id}
         ELSE FindTable("add", type[e], id) \union DontFragmentIds(e)
  BY <1>3, AddedIs DEF IndInv, TypeInv, PlainTables
<1>5. ASSUME id[1] \in nonfrag
      PROVE  FindTable("add", type[e], id) = type[e] /\ id \in DOMAIN sparse
  BY <1>3, <1>5, FindLoops DEF TypeInv, SparseOfSubjects, SparseIds, IndInv
<1>6. ASSUME NEW f \in Entities
      PROVE  type'[f] \union DontFragmentIds(f)' =
                IF f = e THEN Types!Added(IdsOf(e), id) ELSE IdsOf(f)
  <2>1. DontFragmentIds(f)' = {y \in DOMAIN sparse : f \in sparse'[y]}
    BY <1>2 DEF DontFragmentIds
  <2>2. DontFragmentIds(f)' = IF f = e /\ id[1] \in nonfrag THEN DontFragmentIds(f) \union {id}
                              ELSE DontFragmentIds(f)
    BY <1>2, <1>5, <2>1 DEF DontFragmentIds
  <2>3. type'[f] = IF f = e THEN FindTable("add", type[e], id) ELSE type[f]
    BY <1>2, <1>3
  <2> QED  BY <1>4, <1>5, <2>2, <2>3 DEF IdsOf
<1> QED  BY <1>3, <1>6 DEF Types!Add, IdsOf

\* flecs_remove_id removes the ids that match.
LEMMA RemoveMeans ==
    ASSUME IndInv, DiffInv, Discipline, FreshInv, TypeInv,
           NEW e \in Subjects, NEW id \in Patterns, Operate("remove", e, id)
    PROVE  Types!Remove(e, id)
<1>1. /\ type' = [type EXCEPT ![e] = FindTable("remove", type[e], id)]
      /\ DOMAIN sparse' = DOMAIN sparse
      /\ \A y \in DOMAIN sparse :
            sparse'[y] = IF id[1] \in nonfrag /\ Matches(id, y) THEN sparse[y] \ {e} ELSE sparse[y]
  BY OperateMeans
<1>2. e \in Entities /\ type[e] \in tables /\ DOMAIN type = Entities
  BY DEF IndInv, TypesHaveTables
<1>3. FindTable("remove", type[e], id) = {y \in type[e] : ~ Matches(id, y)}
  <2>1. CASE id[1] \in nonfrag
    <3>1. FindTable("remove", type[e], id) = type[e]
      BY <1>2, <2>1, FindLoops
    <3>2. \A y \in type[e] : ~ Matches(id, y)
      BY <1>2, <2>1, MatchesFirst DEF TypeInv, PlainTables, Plain
    <3> QED  BY <3>1, <3>2
  <2>2. CASE id[1] \notin nonfrag
    BY <2>2 DEF FindTable, FindTableWithout
  <2> QED  BY <2>1, <2>2
<1>4. ASSUME NEW f \in Entities
      PROVE  type'[f] \union DontFragmentIds(f)' =
                IF f = e THEN Types!Without(IdsOf(e), id) ELSE IdsOf(f)
  <2>1. DontFragmentIds(f)' = {y \in DOMAIN sparse : f \in sparse'[y]}
    BY <1>1 DEF DontFragmentIds
  <2>2. \A y \in DontFragmentIds(e) : Matches(id, y) => id[1] \in nonfrag
    BY SparseIsNonfrag, MatchesFirst
  <2>3. DontFragmentIds(f)' = IF f = e THEN {y \in DontFragmentIds(e) : ~ Matches(id, y)}
                              ELSE DontFragmentIds(f)
    BY <1>1, <2>1, <2>2 DEF DontFragmentIds
  <2>4. type'[f] = IF f = e THEN {y \in type[e] : ~ Matches(id, y)} ELSE type[f]
    BY <1>1, <1>2, <1>3
  <2> QED  BY <2>3, <2>4 DEF IdsOf, Types!Without, Matches
<1> QED  BY <1>2, <1>4 DEF Types!Remove, IdsOf

\* ecs_delete takes the pairs with the entity, wherever they are kept.
LEMMA RecycleMeans ==
    ASSUME IndInv, TypeInv, NEW x \in Recyclable, Recycle(x)
    PROVE  Types!Recycle(x)
<1>1. /\ type' = [e \in Entities |->
                     IF e = x THEN Root ELSE type[e] \ {id \in type[e] : x \in Types!Mentions(id)}]
      /\ sparse' = [id \in DOMAIN sparse |->
                       IF x \in Types!Mentions(id) THEN {} ELSE sparse[id] \ {x}]
  BY DEF Recycle
<1>2. ASSUME NEW e \in Entities
      PROVE  type'[e] \union DontFragmentIds(e)' =
                IF e = x THEN {} ELSE {id \in IdsOf(e) : x \notin Types!Mentions(id)}
  <2>1. DontFragmentIds(e)' =
           IF e = x THEN {} ELSE {id \in DontFragmentIds(e) : x \notin Types!Mentions(id)}
    BY <1>1 DEF DontFragmentIds
  <2> QED  BY <1>1, <2>1 DEF IdsOf, Root
<1> QED  BY <1>2 DEF Types!Recycle, IdsOf

\* Every step is a step of EntityTypes or changes the ids of no entity.
LEMMA StepImplements ==
    ASSUME IndInv, DiffInv, Discipline, TraitsApart, FreshInv, TypeInv, [Next]_vars
    PROVE  [Types!Next]_[e \in Entities |-> type[e] \union DontFragmentIds(e)]
<1> DEFINE ids == [e \in Entities |-> type[e] \union DontFragmentIds(e)]
<1> SUFFICES ASSUME ids' # ids
             PROVE  Types!Next
  OBVIOUS
<1>1. ASSUME NEW e \in Subjects, NEW id \in AddIds, AddId(e, id)
      PROVE  Types!Next
  <2>1. Types!Add(e, id)
    BY <1>1, AddMeans DEF AddId
  <2>2. ids' = [ids EXCEPT ![e] = Types!Added(@, id)]
    BY <2>1 DEF Types!Add
  <2>3. e \in Types!Changed
    <3>1. e \in Entities
      BY EntitiesAssumption
    <3>2. \A f \in Entities : f # e => ids'[f] = ids[f]
      BY <2>2
    <3>3. ids'[e] # ids[e]
      BY <2>2, <3>1
    <3> QED  BY <3>1, <3>3 DEF Types!Changed
  <2> QED  BY <2>1, <2>3 DEF Types!Next
<1>2. ASSUME NEW e \in Subjects, NEW id \in Patterns, RemoveId(e, id)
      PROVE  Types!Next
  <2>1. Types!Remove(e, id)
    BY <1>2, RemoveMeans DEF RemoveId
  <2>2. ids' = [ids EXCEPT ![e] = Types!Without(@, id)]
    BY <2>1 DEF Types!Remove
  <2>3. e \in Types!Changed
    <3>1. e \in Entities
      BY EntitiesAssumption
    <3>2. ids'[e] # ids[e]
      BY <2>2, <3>1
    <3> QED  BY <3>1, <3>2 DEF Types!Changed
  <2> QED  BY <2>1, <2>3 DEF Types!Next, Patterns
<1>3. ASSUME NEW table \in tables, DeleteEmptyTable(table)
      PROVE  FALSE
  BY <1>3 DEF DeleteEmptyTable, DontFragmentIds
<1>4. ASSUME NEW x \in Recyclable, Recycle(x)
      PROVE  Types!Next
  <2>1. Types!Recycle(x)
    BY <1>4, RecycleMeans
  <2> QED  BY <2>1, TraitsAssumption DEF Types!Next
<1>5. ASSUME NEW event \in Events, NEW pattern \in Observable, CreateObserver(event, pattern)
      PROVE  FALSE
  BY <1>5 DEF CreateObserver, DontFragmentIds
<1>6. ASSUME NEW o \in observers, DeleteObserver(o)
      PROVE  FALSE
  BY <1>6 DEF DeleteObserver, DontFragmentIds
<1>7. CASE UNCHANGED vars
  BY <1>7 DEF vars, DontFragmentIds
<1> QED  BY <1>1, <1>2, <1>3, <1>4, <1>5, <1>6, <1>7 DEF Next

\* An operation that was taken does what it means.
Means ==
    \A e \in Subjects :
        /\ \A id \in AddIds : Took("add", e, id) => Types!Add(e, id)
        /\ \A id \in Patterns : Took("remove", e, id) => Types!Remove(e, id)

LEMMA TakenMeans ==
    ASSUME IndInv, DiffInv, Discipline, TraitsApart, FreshInv, TypeInv
    PROVE  Means
BY AddMeans, RemoveMeans DEF Means, Took

\* Adding and removing ids mean what EntityTypes says, for any entities, traits, ids,
\* observers and histories: caching edges never shows in the ids of an entity.
THEOREM TypesImplemented ==
    ASSUME Discipline, TraitsApart
    PROVE  Spec => ImplementsTypes
<1>1. Init => Types!Init
  <2> SUFFICES ASSUME Init PROVE Types!Init
    OBVIOUS
  <2>1. \A e \in Entities : DontFragmentIds(e) = {} /\ type[e] = BaseType[e]
    BY DEF Init, DontFragmentIds
  <2>2. [e \in Entities |-> type[e] \union DontFragmentIds(e)] \in [Entities -> SUBSET Ids]
    BY <2>1 DEF TraitsApart
  <2> QED  BY <2>2 DEF Types!Init, Ids, NoTarget, AutoOverride, Types!NoTarget, Types!AutoOverride
<1>2. IndInv /\ DiffInv /\ FreshInv /\ TypeInv /\ [Next]_vars =>
         [Types!Next]_[e \in Entities |-> type[e] \union DontFragmentIds(e)]
  BY StepImplements
<1>3. IndInv /\ DiffInv /\ FreshInv /\ TypeInv => Means
  BY TakenMeans
<1>4. Spec => Types!Spec
  BY <1>1, <1>2, Invariance, DiffInvariance, FreshInvariance, TypeInvariance, PTL
     DEF Spec, Types!Spec
<1>5. Spec => [][Means]_vars
  BY <1>3, Invariance, DiffInvariance, FreshInvariance, TypeInvariance, PTL
<1> QED  BY <1>4, <1>5 DEF ImplementsTypes, Means
=============================================================================
