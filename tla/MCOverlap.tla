------------------------------- MODULE MCOverlap -------------------------------
(* Overlap for TLC.                                                             *)
EXTENDS Overlap, TLC

CONSTANTS j1, j2

\* Unpaid with and without goods, and paid in part; of a party of either type.
MCRecorded == {[party |-> x, lines |-> [p \in Products |-> n], total |-> 3, paid |-> 0] :
                 x \in Parties \cup {NoParty}, n \in {0, 1}}
              \cup {[party |-> x, lines |-> [p \in Products |-> 1], total |-> 5, paid |-> 1] : x \in Parties}

Symmetric == Permutations({j1, j2})

\* A correction brings in one piece.
OnePieceMore == {1}
=============================================================================
