---------------------------- MODULE MCChangeRules ----------------------------
(* Days of four minutes, windows of two to four of them. *)
EXTENDS ChangeRules

CONSTANTS g1, g2

Row(g, days, start, minutes, on) ==
    [group |-> g, weekdays |-> days, start |-> start, minutes |-> minutes, enabled |-> on]

\* Every start and length (the refused ones too) on a few sets of weekdays,
\* for one group, and a window of everyone, on and off.
SaveCandidates ==
    {Row(g1, days, s, m, TRUE) : days \in {{0}, {6}, {2, 3}, {}}, s \in 0..3, m \in 1..5}
      \cup {Row(NoGroup, {3, 6}, 3, 4, on) : on \in BOOLEAN}
=============================================================================
