----------------------------- MODULE MCInbound -----------------------------
(* Values for TLC.                                                         *)
EXTENDS Inbound, TLC

CONSTANTS b1, b2, x1, p1

\* One process: a poller and the requests that collect by hand.
OneProcess == [c \in Collectors |-> p1]

\* Sweeps of one process differ in nothing.
Symmetry == Permutations(Collectors)

\* Orders, links to either business, and updates that carry nothing.
ChatUpdates ==
  [kind : {"order", "noise"}, chat : {x1}, to : {NoBusiness}]
    \cup [kind : {"link"}, chat : {x1}, to : {b1, b2}]

\* Orders and links with one business.
ChatOrders ==
  [kind : {"order"}, chat : {x1}, to : {NoBusiness}]
    \cup [kind : {"link"}, chat : {x1}, to : {b1}]

=============================================================================
