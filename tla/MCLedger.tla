------------------------------ MODULE MCLedger ------------------------------
(***************************************************************************)
(* Ledger for TLC, in two halves whose states add up: a sale and a receipt *)
(* with money on them and a product that is not corrected, and two sales   *)
(* and a receipt of goods only, for what sales and corrections do to each  *)
(* other's stock.  Sales are interchangeable.                              *)
(***************************************************************************)
EXTENDS Ledger, TLC

VARIABLE half

Recorded == {d \in Docs : status[d] # "absent"}

MCInit == Init /\ half \in {"money", "goods"}

MCNext == /\ Next
          /\ half = "money" => /\ \A d \in Recorded' : total'[d] > 0
                               /\ Cardinality(Recorded' \cap Sales) <= 1
                               /\ \A p \in products' : adjusted'[p] > 0
          /\ half = "goods" => /\ \A d \in Docs : total'[d] = 0
                               /\ parties' = {}
          /\ UNCHANGED half

MCSpec == MCInit /\ [][MCNext]_<<vars, half>>

SaleSymmetry == Permutations(Sales)

\* A correction takes away or brings in one piece.
OnePiece == {-1, 1}
=============================================================================
