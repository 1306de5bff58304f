------------------------------ MODULE Decisions ------------------------------
(***************************************************************************)
(* What the review queue promises to the people in front of it, without    *)
(* collectors, transactions or requests under way.  An order that waits is *)
(* recorded or dismissed, as whoever is first decides, and that stands     *)
(* until somebody clears it away.  Of one whose recording was cut short    *)
(* nothing is promised: it is in the books and may still be on the desk.   *)
(*                                                                         *)
(*   docs/inbound-orders.md, "When two people have the Inbox open"         *)
(***************************************************************************)

CONSTANT Items  \* what may be waiting

VARIABLE verdict

Verdicts == {"none", "waiting", "recorded", "dismissed", "unsure"}

DecisionsInit == verdict = [m \in Items |-> "none"]

Arrive(m) ==
  /\ verdict[m] = "none"
  /\ verdict' = [verdict EXCEPT ![m] = "waiting"]

DecideOn(m, v) ==
  /\ verdict[m] = "waiting"
  /\ verdict' = [verdict EXCEPT ![m] = v]

Doubt(m) ==
  /\ verdict[m] = "recorded"
  /\ verdict' = [verdict EXCEPT ![m] = "unsure"]

ClearAway(S) ==
  verdict' = [m \in Items |-> IF m \in S /\ verdict[m] # "unsure" THEN "none" ELSE verdict[m]]

DecisionsNext ==
  \/ \E m \in Items : Arrive(m) \/ DecideOn(m, "recorded") \/ DecideOn(m, "dismissed") \/ Doubt(m)
  \/ \E S \in SUBSET Items : ClearAway(S)

DecisionsSpec == DecisionsInit /\ [][DecisionsNext]_verdict

=============================================================================
