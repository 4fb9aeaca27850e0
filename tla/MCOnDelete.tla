----------------------------- MODULE MCOnDelete -----------------------------
(* Instances of OnDelete: three relationships, a prefab tag and entities.  *)
EXTENDS OnDelete

PartOf == 1      \* (OnDeleteTarget, Delete)
Likes == 2       \* no cleanup trait
Owes == 3        \* (OnDeleteTarget, Panic), the last in every type

MCEntities == 1 .. 7
MCPrefab == 7
MCTargetDelete == {PartOf}
MCTargetPanic == {Owes}
MCDeletable == {Likes, 4, 5}

\* Children, a cycle of parents, pairs that meet at one target, an entity that
\* is both a tag and a target, and a prefab.
MCAddIds ==
    {<<PartOf, 4>>, <<PartOf, 5>>, <<Likes, 4>>, <<Owes, 4>>, <<4, NoTarget>>, <<5, 6>>,
     <<MCPrefab, NoTarget>>}
MCBulkIds == {<<PartOf, 4>>, <<5, 6>>}
MCObserverAdds == {<<6, <<Likes, 5>>>>}

\* Wildcards, as ecs_delete_with takes them.
MCBulkWildcards == {<<Likes, Wildcard>>, <<Likes, 4>>}
=============================================================================
