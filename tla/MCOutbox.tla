------------------------------ MODULE MCOutbox ------------------------------
(* Outbox for TLC.  Workers are interchangeable in every formula checked     *)
(* without liveness, so they may be permuted.                                *)
EXTENDS Outbox, TLC

WorkerSymmetry == Permutations(Workers)
=============================================================================
