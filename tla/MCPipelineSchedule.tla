------------------------- MODULE MCPipelineSchedule -------------------------
(* Small instances of PipelineSchedule. *)
EXTENDS PipelineSchedule

ThreeSystems == <<"A", "B", "C">>

\* The pair (R, T) and the wildcards (R, *), (*, *) and *.
Pairs == {"RT"}

MCIsWildcard(id) == id \in {"R*", "**", "*"}

MCIdMatch(id, pattern) ==
    \/ id = pattern
    \/ pattern = "R*" /\ id = "RT"
    \/ pattern = "**" /\ id \in {"RT", "R*"}

Term(id, src, oper, inout) ==
    [id |-> id, src |-> src, oper |-> oper, inout |-> inout]

Descriptor(mt, im, terms) ==
    [multi_threaded |-> mt, immediate |-> im, terms |-> terms]

Reader == Descriptor(FALSE, FALSE, <<Term("RT", "this", "and", "default")>>)
Writer == Descriptor(FALSE, FALSE, <<Term("RT", "none", "and", "out")>>)
Adder == Descriptor(FALSE, FALSE, <<Term("RT", "this", "not", "out")>>)
Getter == Descriptor(FALSE, FALSE, <<Term("R*", "none", "and", "in")>>)
WriteAll == Descriptor(FALSE, FALSE, <<Term("*", "none", "and", "out")>>)
Threaded == Descriptor(TRUE, FALSE, <<Term("RT", "shared", "and", "in")>>)
Immediate == Descriptor(FALSE, TRUE, <<Term("RT", "none", "and", "inout")>>)
Replacer == Descriptor(FALSE, FALSE, <<Term("R*", "none", "and", "out"),
                                       Term("R*", "this", "and", "in")>>)

\* A system that gets what it has put on the stage: the check after the merge finds
\* another merge needed, and a build without assertions goes on.
SelfReader == Descriptor(FALSE, FALSE, <<Term("RT", "none", "and", "out"),
                                         Term("RT", "none", "and", "in")>>)

ChangingDescriptors == {Reader, Writer, Immediate}
MCDescriptors == {Reader, Writer, Adder, Getter, WriteAll, Threaded, Immediate, Replacer,
                  SelfReader}

\* Systems that change reach every status from any other; where they do not, an
\* absent system is never looked at, and one descriptor stands for all.
MCInit ==
    /\ Init
    /\ \/ \A s \in SystemSet : desc[s] \in Changing /\ status[s] = "active"
       \/ /\ \E s \in SystemSet : desc[s] \notin Changing
          /\ \A s \in SystemSet : status[s] = "absent" => desc[s] = Reader

MCSpec == MCInit /\ [][Next]_vars /\ WF_vars(Frame)

\* The hypotheses under which MergeBeforeUse is proved.
ASSUME HypothesesHold == NoLostWrite /\ NoCrossing
=============================================================================
