----------------------------- MODULE TableGraph -----------------------------
(***************************************************************************)
(* The table graph (storage/table_graph.c): the table that an entity moves *)
(* to when an id is added or removed is looked up once and then cached as  *)
(* an edge, with the ids that come and go and whether anybody observes     *)
(* them.  Edges are dropped with the tables they connect, and those of an  *)
(* id that does not fragment tables with its component record.             *)
(*                                                                         *)
(* A table is the set of its ids; an edge is found by its kind, the table  *)
(* it leaves and its id.  Ids are as in EntityTypes.  The arrays for low   *)
(* ids, ChildOf, Parent and id flags are left out.                         *)
(***************************************************************************)
EXTENDS Integers, FiniteSets

CONSTANTS
    Entities, Exclusive, With, IsA, AddIds,
    Subjects,        \* entities that ids are added to and removed from
    BaseType,        \* the ids of all entities at first
    DontFragment,    \* relationships and tags with the DontFragment trait at first
    KnownIds,        \* component records at first, besides those of the ids of entities
    Recyclable,      \* entities that are deleted, only used in pairs
    Observable,      \* patterns that observers are created for
    MaxOps           \* bound: operations

ASSUME TraitsAssumption ==
    /\ Entities \subseteq Nat \ {0}
    /\ Exclusive \subseteq Entities /\ DontFragment \subseteq Entities
    /\ Exclusive \intersect DontFragment = {}
    /\ With \subseteq Entities \X Entities
    /\ Recyclable \subseteq Entities
ASSUME EntitiesAssumption ==
    /\ Subjects \subseteq Entities
    /\ DOMAIN BaseType = Entities
ASSUME MaxOpsAssumption == MaxOps \in Nat

VARIABLES
    type,        \* the table of each entity
    sparse,      \* id that does not fragment -> entities that have it
    tables,      \* world->store.tables and the root table
    dontfrag,    \* tables with EcsTableHasDontFragment
    edges,       \* edges: key -> table and diff
    refs,        \* table -> keys of the edges on its list of incoming edges
    records,     \* component records
    visited,     \* cr->dont_fragment_tables: id -> tables with edges for it
    nonfrag,     \* entities with the DontFragment trait
    observers,   \* observers: event and pattern
    missed,      \* history: what an observer should have been told and was not
    spurious,    \* history: what an observer was told and did not happen
    ops          \* operations so far

vars == <<type, sparse, tables, dontfrag, edges, refs, records, visited, nonfrag, observers,
          missed, spurious, ops>>

\* Ids in sparse storage; others are kept in tables.
IsSparse(id) == id \in DOMAIN sparse /\ id[1] \in nonfrag
DontFragmentIds(e) == {id \in DOMAIN sparse : e \in sparse[id]}

Types == INSTANCE EntityTypes WITH ids <- [e \in Entities |-> type[e] \union DontFragmentIds(e)]

NoTarget == 0
Wildcard == -1
AutoOverride == -2
IsPair(id) == Types!IsPair(id)
Matches(pattern, id) == Types!Matches(pattern, id)
IsWildcard(id) == id[2] = Wildcard

Patterns == Types!Patterns
Events == {"OnAdd", "OnRemove"}
Root == {}
Rows(table) == {e \in Entities : type[e] = table}
TablesOf(pattern) == {table \in tables : \E id \in table : Matches(pattern, id)}
RecordsOf(id) == IF IsPair(id) THEN {id, <<id[1], Wildcard>>} ELSE {id}
-----------------------------------------------------------------------------
(* Which table an entity moves to.                                         *)

\* Mutant: the target of an exclusive relationship is not replaced.
Replaced_Never(node, id) == {}

\* The ids of an exclusive relationship that the new one replaces.
Replaced(node, id) ==
    IF id[1] \in Exclusive THEN {x \in node : IsPair(id) /\ IsPair(x) /\ x[1] = id[1]} ELSE {}

\* flecs_add_overrides_for_base, for the base and its bases: ids with the
\* AUTO_OVERRIDE flag that fragment tables.
AddOverridesForBase(base) ==
    LET isa == UNION {{<<e, id[2]>> : id \in {x \in type[e] : x[1] = IsA}} : e \in Entities}
        found == UNION {type[b] : b \in Types!Reach(isa, base)}
    IN  {<<id[1], NoTarget>> : id \in {x \in found : x[2] = AutoOverride /\ x[1] \notin nonfrag}}

\* flecs_add_with_property, which follows With from target to target.
AddWithProperty(r, o) == {<<c, o>> : c \in Types!Reach(With, r) \ ({r} \union nonfrag)}

\* flecs_find_table_with.
FindTableWith(node, id) ==
    IF Replaced(node, id) = {} /\ (id[1] \in nonfrag \/ id \in node) THEN node
    ELSE (node \ Replaced(node, id)) \union {id} \union AddWithProperty(id[1], id[2])
         \union IF id[1] = IsA THEN AddOverridesForBase(id[2]) ELSE {}

\* The record that flecs_find_table_without asks about the trait, if it exists.
TraitRecord(id) == IF IsPair(id) THEN <<id[1], Wildcard>> ELSE id

\* flecs_find_table_without.
FindTableWithout(node, id) ==
    IF TraitRecord(id) \in records /\ id[1] \in nonfrag THEN node
    ELSE {x \in node : ~ Matches(id, x)}

FindTable(kind, node, id) ==
    IF kind = "add" THEN FindTableWith(node, id) ELSE FindTableWithout(node, id)

\* The lookup met an id that does not fragment tables and flags the table.
MetDontFragment(kind, node, id) ==
    id[1] \in nonfrag /\ (kind = "add" \/ TraitRecord(id) \in records)
-----------------------------------------------------------------------------
(* Edges.                                                                  *)
Key(kind, from, id) == [kind |-> kind, from |-> from, id |-> id]

NoDiff == [added |-> {}, removed |-> {}, on_add |-> FALSE, on_remove |-> FALSE, cached |-> FALSE]

\* flecs_id_flags_get: somebody observes the id, or a pattern that matches it.
\* IsA always counts as observed.  The code may find more flags, which only makes
\* it compute a diff it could do without: the record of a pair has those of (R, *)
\* when it was created, and (OnInstantiate, Inherit) adds both.
HasFlag(event, id) == id[1] = IsA \/ \E o \in observers : o.event = event /\ Matches(o.pattern, id)

\* Ids are numbers; that of a pair has the highest bit, that of an override the
\* bit below.
Flag(id) == IF IsPair(id) THEN 2 ELSE IF id[2] = AutoOverride THEN 1 ELSE 0
Below(x, y) ==
    \/ Flag(x) < Flag(y)
    \/ Flag(x) = Flag(y) /\ (x[1] < y[1] \/ (x[1] = y[1] /\ x[2] < y[2]))

\* Mutant: how many ids come and go is not counted.
Trivial_NotCounted(id, node, next) == id[1] # IsA /\ ~ IsWildcard(id)

\* At most one id comes or goes.  Whether it is the id of the edge is tested only
\* while the other table has a higher id left.
Trivial(id, node, next) ==
    /\ id[1] # IsA /\ ~ IsWildcard(id)
    /\ \A x, y \in (next \ node) \union (node \ next) : x = y
    /\ \A x \in (next \ node) \ {id} : \A y \in node : ~ Below(x, y)
    /\ \A x \in (node \ next) \ {id} : \A y \in next : ~ Below(x, y)

\* flecs_compute_table_diff: a trivial edge that nobody observes needs no diff.
ComputeTableDiff(kind, node, next, id) ==
    LET added == next \ node
        removed == node \ next
        on_add == \E x \in added : HasFlag("OnAdd", x)
        on_remove == \E x \in removed : HasFlag("OnRemove", x)
        trivial == Trivial(id, node, next) /\ ~ on_add /\ ~ on_remove
    IN  CASE id[1] \in nonfrag ->
                [NoDiff EXCEPT !.cached = TRUE, !.added = IF kind = "add" THEN {id} ELSE {},
                               !.removed = IF kind = "remove" THEN {id} ELSE {}]
          [] id[1] \notin nonfrag /\ ~ trivial ->
                [added |-> added, removed |-> removed, on_add |-> on_add,
                 on_remove |-> on_remove, cached |-> TRUE]
          [] OTHER -> NoDiff

\* flecs_init_edge_for_add and _remove: an edge to the table itself is neither
\* linked nor given a diff, unless the table has ids that do not fragment it.
Linked(key, to, flagged) == key.from # to \/ key.from \in flagged

\* flecs_table_traverse_add and _remove: a new edge is created, with its table
\* and component records.
CreateEdge(key) ==
    LET to == FindTable(key.kind, key.from, key.id)
        met == MetDontFragment(key.kind, key.from, key.id)
        flagged == IF met THEN dontfrag \union {key.from} ELSE dontfrag
        linked == Linked(key, to, flagged)
        diff == IF linked THEN ComputeTableDiff(key.kind, key.from, to, key.id) ELSE NoDiff
        ensured == (IF key.kind = "add" THEN {TraitRecord(key.id)} ELSE {})
                   \union (IF linked THEN RecordsOf(key.id) ELSE {})
                   \union UNION {RecordsOf(x) : x \in to}
    IN  /\ edges' = [k \in DOMAIN edges \union {key} |->
                        IF k = key THEN [to |-> to, diff |-> diff] ELSE edges[k]]
        /\ tables' = tables \union {to}
        /\ refs' = [table \in tables \union {to} |->
                       (IF table \in tables THEN refs[table] ELSE {})
                       \union IF linked /\ table = to THEN {key} ELSE {}]
        /\ dontfrag' = flagged
        /\ records' = records \union ensured
        /\ visited' = IF linked /\ key.id[1] \in nonfrag
                        THEN [visited EXCEPT ![key.id] = @ \union {key.from}] ELSE visited

\* The edge that the traversal uses, cached or new.
Edge(key) ==
    \/ key \in DOMAIN edges /\ UNCHANGED <<edges, tables, refs, dontfrag, records, visited>>
    \/ key \notin DOMAIN edges /\ CreateEdge(key)

\* What a traversal of the edge reports; an edge without a diff is about its id.
TraverseDiff(key, edge) ==
    CASE edge.diff.cached -> edge.diff
      [] ~ edge.diff.cached /\ edge.to # key.from ->
            [NoDiff EXCEPT !.added = IF key.kind = "add" THEN {key.id} ELSE {},
                           !.removed = IF key.kind = "remove" THEN {key.id} ELSE {}]
      [] OTHER -> NoDiff
-----------------------------------------------------------------------------
(* Adding and removing.                                                    *)
Observed(event, set) == {id \in set : \E o \in observers : o.event = event /\ Matches(o.pattern, id)}

\* flecs_emit skips an id that the table of the entity does not have.
Emitted(set, table) == {id \in set : id \in table \/ IsSparse(id)}

\* What the observers are told when e moves from table to table: everything that
\* was added when a flag says so, likewise for what was removed.  Ids that do not
\* fragment tables count when they were really added or removed.
Told(event, diff, e, table) ==
    CASE event = "OnAdd" ->
            IF diff.on_add \/ \E id \in diff.added : IsSparse(id) /\ e \notin sparse[id]
              THEN Emitted(diff.added, table) ELSE {}
      [] event = "OnRemove" ->
            (IF diff.on_remove THEN Emitted(diff.removed, table) ELSE {})
            \union {id \in DontFragmentIds(e) : \E x \in diff.removed : Matches(x, id)}

\* flecs_commit for the entity and the edge that its operation took: within a
\* table only ids that do not fragment it can change.
Commit(e, key, edge) ==
    LET from == type[e]
        diff == IF edge.to # from \/ from \in dontfrag' THEN TraverseDiff(key, edge) ELSE NoDiff
        before == from \union DontFragmentIds(e)
    IN  /\ type' = [type EXCEPT ![e] = edge.to]
        /\ sparse' = [id \in DOMAIN sparse |->
                         (sparse[id] \union IF IsSparse(id) /\ id \in diff.added THEN {e} ELSE {})
                         \ IF IsSparse(id) /\ \E x \in diff.removed : Matches(x, id) THEN {e} ELSE {}]
        /\ LET after == edge.to \union {id \in DOMAIN sparse : e \in sparse'[id]}
               added == Observed("OnAdd", after \ before)
               removed == Observed("OnRemove", before \ after)
               told_added == Observed("OnAdd", Told("OnAdd", diff, e, edge.to))
               told_removed == Observed("OnRemove", Told("OnRemove", diff, e, from))
           IN  /\ missed' = missed \union (added \ told_added) \union (removed \ told_removed)
               /\ spurious' = spurious \union (told_added \ added) \union (told_removed \ removed)

Operate(kind, e, id) ==
    /\ ops < MaxOps
    /\ ops' = ops + 1
    /\ LET key == Key(kind, type[e], id)
       IN  Edge(key) /\ Commit(e, key, edges'[key])
    /\ UNCHANGED <<nonfrag, observers>>

\* flecs_add_id and flecs_remove_id.
AddId(e, id) == Operate("add", e, id)
RemoveId(e, id) == Operate("remove", e, id)
-----------------------------------------------------------------------------
(* Deleting tables and component records.                                  *)

\* Mutant: incoming remove edges are forgotten.
Cleared_AddOnly(gone) ==
    {key \in DOMAIN edges : key.from \in gone \/ (edges[key].to \in gone /\ key.kind = "add")}

\* flecs_table_clear_edges: outgoing edges, and the edges on the lists of refs.
Cleared(gone) == {key \in DOMAIN edges : key.from \in gone} \union UNION {refs[t] : t \in gone}

\* flecs_table_fini of tables, together with edges that are disconnected and
\* with tables that are new.
DeleteTables(gone, disconnected, created) ==
    LET left == DOMAIN edges \ (Cleared(gone) \union disconnected)
    IN  /\ edges' = [key \in left |-> edges[key]]
        /\ tables' = (tables \ gone) \union created
        /\ refs' = [table \in tables' |-> IF table \in tables THEN refs[table] \intersect left ELSE {}]
        /\ dontfrag' = dontfrag \ gone

\* ecs_delete_empty_tables, for one table.
DeleteEmptyTable(table) ==
    /\ ops < MaxOps /\ ops' = ops + 1
    /\ table # Root /\ Rows(table) = {}
    /\ DeleteTables({table}, {}, {})
    /\ visited' = [id \in DOMAIN visited |-> visited[id] \ {table}]
    /\ UNCHANGED <<type, sparse, records, nonfrag, observers, missed, spurious>>

\* Mutant: a component record goes without the edges for it.
EdgesForId_None(x) == {}

\* flecs_component_record_fini_dont_fragment, for the records of a deleted
\* entity: flecs_table_clear_edges_for_id in every table that has such edges.
EdgesForId(x) ==
    {key \in DOMAIN edges :
        key.id \in DOMAIN visited /\ x \in Types!Mentions(key.id) /\ key.from \in visited[key.id]}

\* ecs_delete of an entity that is only used in pairs, and a new entity with its
\* number: entities leave the tables with the pairs, tables and records go.
\* Bound: no table has two such pairs, and nobody observes them.
Recycle(x) ==
    LET Pairs(table) == {id \in table : x \in Types!Mentions(id)}
        gone == {table \in tables : Pairs(table) # {}}
    IN  /\ ops < MaxOps /\ ops' = ops + 1
        /\ \A table \in tables : Cardinality(Pairs(table)) <= 1
        /\ \A o \in observers : x \notin Types!Mentions(o.pattern)
        /\ type' = [e \in Entities |-> IF e = x THEN Root ELSE type[e] \ Pairs(type[e])]
        /\ DeleteTables(gone, EdgesForId(x), {type'[e] : e \in Entities})
        /\ sparse' = [id \in DOMAIN sparse |->
                         IF x \in Types!Mentions(id) THEN {} ELSE sparse[id] \ {x}]
        /\ records' = {id \in records : x \notin Types!Mentions(id)}
        /\ visited' = [id \in DOMAIN visited |->
                          IF x \in Types!Mentions(id) THEN {} ELSE visited[id] \ gone]
        /\ nonfrag' = nonfrag \ {x}
        /\ UNCHANGED <<observers, missed, spurious>>
-----------------------------------------------------------------------------
(* Observers.                                                              *)

\* Mutant: only edges that have a diff are given the flag.
WithFlag_OnlyDiffs(event, key, diff) ==
    IF event = "OnAdd" THEN [diff EXCEPT !.on_add = diff.cached]
    ELSE [diff EXCEPT !.on_remove = diff.cached]

\* An edge without a diff is given one, so that it can have the flag.
WithFlag(event, key, diff) ==
    IF event = "OnAdd"
      THEN [diff EXCEPT !.on_add = TRUE, !.cached = TRUE,
                        !.added = IF diff.cached THEN @ ELSE {key.id}]
      ELSE [diff EXCEPT !.on_remove = TRUE, !.cached = TRUE,
                        !.removed = IF diff.cached THEN @ ELSE {key.id}]

\* flecs_table_edges_add_flags: add edges to, and remove edges from, the tables
\* with the id, when their own id matches it.
EdgesToFlag(event, pattern) ==
    LET notified == IF pattern \in records THEN TablesOf(pattern) ELSE {}
    IN  {key \in DOMAIN edges :
            /\ Matches(pattern, key.id)
            /\ \/ event = "OnAdd" /\ key.kind = "add" /\ \E t \in notified : key \in refs[t]
               \/ event = "OnRemove" /\ key.kind = "remove" /\ key.from \in notified}

\* flecs_inc_observer_count, for the first observer of an event and an id.
CreateObserver(event, pattern) ==
    /\ ops < MaxOps /\ ops' = ops + 1
    /\ [event |-> event, pattern |-> pattern] \notin observers
    /\ observers' = observers \union {[event |-> event, pattern |-> pattern]}
    /\ edges' = [key \in DOMAIN edges |->
                    IF key \in EdgesToFlag(event, pattern)
                      THEN [edges[key] EXCEPT !.diff = WithFlag(event, key, @)] ELSE edges[key]]
    /\ UNCHANGED <<type, sparse, tables, dontfrag, refs, records, visited, nonfrag, missed, spurious>>

\* For the last one: edges keep their flags.
DeleteObserver(o) ==
    /\ ops < MaxOps /\ ops' = ops + 1
    /\ o \in observers
    /\ observers' = observers \ {o}
    /\ UNCHANGED <<type, sparse, tables, dontfrag, edges, refs, records, visited, nonfrag, missed, spurious>>
-----------------------------------------------------------------------------
SparseIds == {id \in AddIds : id[1] \in DontFragment}
SparsePatterns == {id \in Patterns : id[1] \in DontFragment}

Init ==
    /\ type = BaseType
    /\ sparse = [id \in SparseIds |-> {}]
    /\ tables = {Root} \union {type[e] : e \in Entities}
    /\ dontfrag = {}
    /\ edges = [key \in {} |-> [to |-> Root, diff |-> NoDiff]]
    /\ refs = [table \in tables |-> {}]
    /\ records = KnownIds \union UNION {RecordsOf(id) : id \in UNION tables}
    /\ visited = [id \in SparsePatterns |-> {}]
    /\ nonfrag = DontFragment
    /\ observers = {}
    /\ missed = {}
    /\ spurious = {}
    /\ ops = 0

Next ==
    \/ \E e \in Subjects, id \in AddIds : AddId(e, id)
    \/ \E e \in Subjects, id \in Patterns : RemoveId(e, id)
    \/ \E table \in tables : DeleteEmptyTable(table)
    \/ \E x \in Recyclable : Recycle(x)
    \/ \E event \in Events, pattern \in Observable : CreateObserver(event, pattern)
    \/ \E o \in observers : DeleteObserver(o)

Spec == Init /\ [][Next]_vars
-----------------------------------------------------------------------------
(* What keeps cached edges right: nothing in table_graph.c looks at an edge  *)
(* again when what it was computed from changes.                             *)

\* The ids of a base, and of what it inherits from, stay the same.
BaseArcs == UNION {{<<e, id[2]>> : id \in {x \in BaseType[e] : x[1] = IsA}} : e \in Entities}
StableBases ==
    {b \in Entities \ (Subjects \union Recyclable) :
        \A id \in BaseType[b] : Types!Mentions(id) \intersect Recyclable = {}}
BasesStay == \A id \in AddIds : id[1] = IsA => Types!Reach(BaseArcs, id[2]) \subseteq StableBases

\* Nothing that comes along with an id is deleted.
WithStays == \A arc \in With : arc[2] \notin Recyclable

\* Ids that do not fragment tables have a component record for
\* flecs_find_table_without to look at.
TraitsKnown == \A id \in SparsePatterns : TraitRecord(id) \in KnownIds

\* Ids that do not fragment tables, and what comes along with ids, keep apart;
\* exclusive relationships are used as relationships.
Ids == Entities \X (Entities \union {NoTarget, AutoOverride})
TraitsApart ==
    /\ AddIds \subseteq Ids /\ BaseType \in [Entities -> SUBSET Ids]
    /\ \A id \in AddIds : id[1] \in Exclusive => IsPair(id)
    /\ \A arc \in With : arc[1] \notin DontFragment /\ arc[2] \notin DontFragment
    /\ IsA \notin DontFragment
    /\ \A e \in Entities : \A id \in BaseType[e] : id[1] \notin DontFragment
-----------------------------------------------------------------------------
\* The graph has no loose ends: an edge connects tables that exist and, when it
\* leads to another table, is on that table's list of incoming edges, which is
\* how flecs_table_clear_edges finds it when that table is deleted; the lists
\* have nothing else.
EdgesConnected ==
    /\ \A key \in DOMAIN edges :
          /\ key.from \in tables /\ edges[key].to \in tables
          /\ edges[key].to # key.from => key \in refs[edges[key].to]
    /\ DOMAIN refs = tables
    /\ \A table \in tables : \A key \in refs[table] :
          key \in DOMAIN edges /\ edges[key].to = table

\* A cached edge is not stale: it leads where flecs_find_table_with or
\* flecs_find_table_without would lead now, and an edge for an id that does not
\* fragment tables says so, also after an entity was deleted and its number used
\* again for one that does.
EdgesFresh ==
    \A key \in DOMAIN edges :
        LET edge == edges[key] IN
        /\ edge.to = FindTable(key.kind, key.from, key.id)
        /\ key.id[1] \in nonfrag =>
              /\ edge.to = key.from
              /\ key.id \in IF key.kind = "add" THEN edge.diff.added ELSE edge.diff.removed

\* What a traversal reports is what distinguishes the two tables, whether the edge
\* was trivial or got its diff from flecs_compute_table_diff or from an observer,
\* unless it adds an id that the table has.
DiffsExact ==
    \A key \in DOMAIN edges :
        LET to == edges[key].to
            diff == TraverseDiff(key, edges[key])
        IN  /\ to # key.from /\ key.id[1] \notin nonfrag
            /\ key.kind = "add" => key.id \notin key.from
            => diff.added = to \ key.from /\ diff.removed = key.from \ to

\* Whatever the order in which edges and observers were created, an edge that adds
\* or removes its own id knows of the observers of it (flecs_compute_table_diff for
\* new edges, flecs_table_edges_add_flags for those that exist).
OwnIdObserved ==
    \A key \in DOMAIN edges : \A o \in observers : Matches(o.pattern, key.id) =>
        /\ o.event = "OnAdd" /\ key.kind = "add" /\ key.id \in edges[key].to \ key.from =>
              edges[key].diff.on_add
        /\ o.event = "OnRemove" /\ key.kind = "remove" /\ edges[key].to # key.from =>
              edges[key].diff.on_remove

\* The step is this operation; it has then used the edge, which is quick to test.
Took(kind, e, id) == Key(kind, type[e], id) \in DOMAIN edges' /\ Operate(kind, e, id)

\* The graph does what adding and removing ids means: every operation changes
\* the ids of the entity as EntityTypes has it, and nothing else changes them.
\* No operation gets lost because of what earlier ones cached.
ImplementsTypes ==
    /\ Types!Spec
    /\ [][\A e \in Subjects :
            /\ \A id \in AddIds : Took("add", e, id) => Types!Add(e, id)
            /\ \A id \in Patterns : Took("remove", e, id) => Types!Remove(e, id)]_vars

\* Observers are told of every id they observe that an entity gains or loses.
ObserversHear == missed = {}

\* Observers are told of nothing else: adding an id that the entity has is no event.
OnlyChangesHeard == spurious = {}
=============================================================================
