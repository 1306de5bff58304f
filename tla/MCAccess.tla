------------------------------- MODULE MCAccess -------------------------------
(***************************************************************************)
(* Team and Throttle share no state that matters to either: a behaviour    *)
(* takes the steps of one of them, so that their states add up and do not  *)
(* multiply.                                                               *)
(***************************************************************************)
EXTENDS Team, Throttle, TLC

CONSTANTS a1, a2, a3, m1, b1, i1, i2, q1, q2, n1, n2, h1

Start == a1 :> [email |-> m1, business |-> b1, role |-> "owner", by |-> Nobody]

VARIABLE part

Init == /\ part \in {"team", "throttle"}
        /\ TeamInit
        /\ ThrottleInit
        /\ part = "team" => employees = {}

Next == \/ part = "team" /\ TeamNext /\ UNCHANGED <<part, throttle>>
        \/ part = "throttle" /\ ThrottleNext /\ UNCHANGED <<part, team>>

Spec == Init /\ [][Next]_<<part, team, throttle>>

Symmetry == Permutations({i1, i2}) \cup Permutations({q1, q2}) \cup Permutations({a2, a3})
=============================================================================
