--------------------------- MODULE MCCommandQueue --------------------------
(* Instances of CommandQueue: the calls and the observers of each run.      *)
EXTENDS CommandQueue

\* Values in a world with one stage, where a set writes a component that the
\* entity has at once.
ValueCalls == {<<"Set", "C">>, <<"Set", "D">>, <<"Ensure", "D">>, <<"Remove", "C">>,
               <<"Remove", "D">>, <<"Clear", NoId>>, <<"Delete", NoId>>}
ValueObservers == {<<"OnSet", "C", "Set", "D">>, <<"OnRemove", "D", "Add", "C">>}

\* Deletion of the target of a pair, of entities and recycling of indices.
CleanupCalls == {<<"Add", "C">>, <<"Remove", "C">>, <<"Add", "ChildOf">>, <<"Add", "Likes">>,
                 <<"Remove", "Likes">>, <<"Clear", NoId>>, <<"Delete", NoId>>}
CleanupSuspended == {<<"Add", "C">>, <<"Delete", NoId>>}

\* Two stages that are merged one after the other.
StageCalls == {<<"Set", "C">>, <<"Emplace", "D">>,
               <<"Modified", "C">>, <<"Delete", NoId>>}
StageObservers == {<<"OnSet", "C", "Add", "D">>, <<"OnAdd", "D", "Set", "C">>}

\* A parent that is deleted before its child is created.
DeadParentCalls == {<<"Set", "C">>, <<"Add", "ChildOf">>, <<"Delete", NoId>>}
=============================================================================
