---------------------------- MODULE MCTableGraph ----------------------------
(* An instance of TableGraph with every trait.                             *)
EXTENDS TableGraph

\* 1 is IsA; 2 is a tag with (With, 3); 4 is an exclusive relationship with the
\* targets 5 and 6; 7 does not fragment; 8 is a base that overrides 3; 9 is the
\* entity that changes.
MCEntities == 1 .. 9
MCWith == {<<2, 3>>}
MCAddIds == {<<2, NoTarget>>, <<4, 5>>, <<4, 6>>, <<7, 5>>, <<1, 8>>}
MCBaseType == [e \in MCEntities |-> IF e = 8 THEN {<<3, AutoOverride>>} ELSE {}]
MCKnownIds == {<<7, Wildcard>>}
MCObservable == {<<4, Wildcard>>}

\* The hypotheses under which EdgesFresh and ImplementsTypes are proved.
ASSUME HypothesesHold == BasesStay /\ WithStays /\ TraitsKnown /\ TraitsApart
=============================================================================
