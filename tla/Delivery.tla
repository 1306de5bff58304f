------------------------------ MODULE Delivery ------------------------------
(***************************************************************************)
(* What the outbox promises to the handlers that write through it, without *)
(* claims, workers, queues or sweeps.  An event that was committed with    *)
(* its business write is owed; it ends applied, or given up after bounded  *)
(* attempts, from where an operator may revive it.  The events it chains   *)
(* are owed from the moment it is applied.  The effects of an event in     *)
(* Once happen once, whatever is retried or replayed.                      *)
(*                                                                         *)
(*   docs/architecture.md, "Why the event bus is a table"                  *)
(***************************************************************************)
EXTENDS Naturals

CONSTANTS
  Ids,   \* event ids
  Once   \* those whose effects must not be repeated by a replay

VARIABLES
  outcome,  \* what has become of each event
  effects   \* how often its effects have been committed

dvars == <<outcome, effects>>

Outcomes == {"none", "owed", "applied", "given up"}

DeliveryInit ==
  /\ outcome = [e \in Ids |-> "none"]
  /\ effects = [e \in Ids |-> 0]

Promise(e) ==
  /\ outcome[e] = "none"
  /\ outcome' = [outcome EXCEPT ![e] = "owed"]
  /\ UNCHANGED effects

Apply(e, kids) ==
  /\ outcome[e] = "owed"
  /\ \A k \in kids : outcome[k] = "none"
  /\ outcome' = [x \in Ids |-> IF x = e THEN "applied"
                               ELSE IF x \in kids THEN "owed" ELSE outcome[x]]
  /\ effects' = [effects EXCEPT ![e] = @ + 1]

GiveUp(e) ==
  /\ outcome[e] = "owed"
  /\ outcome' = [outcome EXCEPT ![e] = "given up"]
  /\ UNCHANGED effects

Revive(e) ==
  /\ outcome[e] = "given up"
  /\ outcome' = [outcome EXCEPT ![e] = "owed"]
  /\ UNCHANGED effects

\* A replay of an event that nothing guards repeats what it did.
Repeat(e) ==
  /\ e \notin Once
  /\ outcome[e] = "applied"
  /\ effects' = [effects EXCEPT ![e] = @ + 1]
  /\ UNCHANGED outcome

DeliveryNext ==
  \E e \in Ids : \/ Promise(e)
                 \/ \E kids \in SUBSET Ids : Apply(e, kids)
                 \/ GiveUp(e)
                 \/ Revive(e)
                 \/ Repeat(e)

DeliverySpec == DeliveryInit /\ [][DeliveryNext]_dvars

=============================================================================
