------------------------- MODULE MCOverrideSchedule -------------------------
(* Small instances of OverrideSchedule.                                    *)
EXTENDS OverrideSchedule

MCSpec == [pod |-> 3, cpu |-> 2]

Cpu(n) == [r \in {"cpu"} |-> n]
Override(begin, end, threshold) == [begin |-> begin, end |-> end, threshold |-> threshold]

\* Terms that overlap, touch and nest; open ends; a malformed begin or end; no limit at all.
MCOverrides ==
    {<<Override(begin, end, [pod |-> 1, cpu |-> 5]), second>> :
        begin \in {Unset, 2}, end \in {Unset, 3},
        second \in {Override(2, 4, Cpu(7)), Override(3, Malformed, Cpu(7)),
                    Override(Malformed, 4, Cpu(7))}}
    \cup {<<Override(2, 4, NoAmount)>>}
=============================================================================
