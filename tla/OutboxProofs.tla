---------------------------- MODULE OutboxProofs ----------------------------
(***************************************************************************)
(* Proofs about Outbox, for every pool of events, every number of workers  *)
(* and every bound.                                                        *)
(***************************************************************************)
EXTENDS Outbox, TLAPS

(***************************************************************************)
(* The inductive invariant.  SingleHolder alone is not inductive: it rests *)
(* on the row of a held event saying `processing`, so that nobody can      *)
(* claim it, and on the age of the claim being the age of its holder's     *)
(* task, so that the sweep cannot release it.  AppliedAtMostOnce rests on  *)
(* what the holder has read still being true when it commits.              *)
(***************************************************************************)
HolderOwnsRow ==
  \A w \in Workers : Holding(w) => status[held[w]] = "processing"

ClaimAgeIsTaskAge ==
  \A w \in Workers :
    /\ Holding(w) => claimAge[held[w]] = clock[w]
    /\ Dispatch = "celery" => clock[w] <= TaskLimit
    /\ pc[w] = "idle" => clock[w] = 0

SeenIsCurrent ==
  \A w \in Workers :
    pc[w] = "running" => /\ seen[w].applied = (applied[held[w]] > 0)
                         /\ seen[w].status = "processing"

AppliedIffDone ==
  \A e \in Events : status[e] = "done" => applied[e] > 0

UnpublishedUntouched ==
  \A e \in Events : status[e] = "absent" => applied[e] = 0

IInv ==
  /\ TypeOK
  /\ SingleHolder
  /\ HolderOwnsRow
  /\ ClaimAgeIsTaskAge
  /\ SeenIsCurrent
  /\ AppliedAtMostOnce
  /\ AppliedIffDone
  /\ UnpublishedUntouched

-----------------------------------------------------------------------------
(* Helpers.                                                                *)

\* enqueue() keeps the copies of every message within the bound.
LEMMA EnqueueType ==
  ASSUME TypeOK, NEW S, Enqueue(S)
  PROVE  queue' \in [Events -> 0..MaxCopies]
<1>1. \A e \in Events : Least(queue[e] + 1, MaxCopies) \in 0..MaxCopies
  BY OutboxAssumption DEF TypeOK, Least
<1> QED
  BY <1>1 DEF Enqueue, TypeOK

LEMMA ReleaseType ==
  ASSUME TypeOK, NEW w \in Workers, Release(w)
  PROVE  /\ pc' \in [Workers -> {"idle", "claimed", "running", "failed", "handoff"}]
         /\ held' \in [Workers -> Events \cup {NoEvent}]
         /\ (\A v \in Workers : held[v] = NoEvent <=> pc[v] = "idle")'
         /\ seen' \in [Workers -> [applied : BOOLEAN, status : Statuses]]
         /\ fresh' \in [Workers -> SUBSET Events]
         /\ clock' \in [Workers -> 0..Abandoned]
BY OutboxAssumption DEF Release, TypeOK, Nothing, Statuses

LEMMA FinishType ==
  ASSUME TypeOK, NEW w \in Workers, Busy(w), Finish(w)
  PROVE  /\ pc' \in [Workers -> {"idle", "claimed", "running", "failed", "handoff"}]
         /\ held' \in [Workers -> Events \cup {NoEvent}]
         /\ (\A v \in Workers : held[v] = NoEvent <=> pc[v] = "idle")'
         /\ seen' \in [Workers -> [applied : BOOLEAN, status : Statuses]]
         /\ clock' \in [Workers -> 0..Abandoned]
<1>1. CASE Dispatch = "celery"
  BY <1>1 DEF Finish, TypeOK, Busy
<1>2. CASE Dispatch # "celery"
  <2>1. /\ pc'    = [pc EXCEPT ![w] = "idle"]
        /\ held'  = [held EXCEPT ![w] = NoEvent]
        /\ seen'  = [seen EXCEPT ![w] = Nothing]
        /\ clock' = [clock EXCEPT ![w] = 0]
    BY <1>2 DEF Finish
  <2> QED
    BY <2>1, OutboxAssumption DEF TypeOK, Nothing, Statuses
<1> QED
  BY <1>1, <1>2

\* A busy worker's task is about an event.
LEMMA BusyHolds ==
  ASSUME TypeOK, NEW w \in Workers, Busy(w)
  PROVE  held[w] \in Events
BY DEF TypeOK, Busy

-----------------------------------------------------------------------------
(* Type correctness.                                                       *)

LEMMA TypeInit == Init => TypeOK
BY OutboxAssumption DEF Init, TypeOK, Nothing, Statuses

LEMMA TypeNext == TypeOK /\ [Next]_vars => TypeOK'
<1> SUFFICES ASSUME TypeOK, [Next]_vars PROVE TypeOK'
  OBVIOUS
<1> USE OutboxAssumption
<1>1. ASSUME NEW e \in Events, Publish(e) PROVE TypeOK'
  BY <1>1 DEF Publish, Insert, WillDrain, TypeOK, Statuses
<1>2. CASE Drain \/ DrainByHand
  BY <1>2, EnqueueType DEF Drain, DrainByHand, TypeOK, rows, task
<1>3. ASSUME NEW w \in Workers, NEW e \in Events, ClaimPolled(w, e) PROVE TypeOK'
  BY <1>3 DEF ClaimPolled, Claim, TypeOK, Statuses
<1>4. ASSUME NEW w \in Workers, NEW e \in Events, ClaimDelivered(w, e) PROVE TypeOK'
  BY <1>4 DEF ClaimDelivered, Claim, TypeOK, Statuses
<1>5. ASSUME NEW w \in Workers, NEW e \in Events, SkipDelivered(w, e) PROVE TypeOK'
  BY <1>5 DEF SkipDelivered, TypeOK, rows, task
<1>6. ASSUME NEW w \in Workers, Load(w) PROVE TypeOK'
  <2>1. held[w] \in Events
    BY <1>6, BusyHolds DEF Load, Busy
  <2> QED
    BY <1>6, <2>1 DEF Load, TypeOK, rows
<1>7. ASSUME NEW w \in Workers, NEW kids \in Kids, Commit(w, kids) PROVE TypeOK'
  <2>1. /\ held[w] \in Events
        /\ Busy(w)
    BY <1>7, BusyHolds DEF Commit, Busy
  <2>2. /\ status' \in [Events -> Statuses]
        /\ applied' \in [Events -> Nat]
        /\ claimAge' \in [Events -> 0..Abandoned]
        /\ age' \in [Events -> 0..Stranded]
        /\ fresh' \in [Workers -> SUBSET Events]
    BY <1>7, <2>1 DEF Commit, TypeOK, Statuses
  <2>3. Finish(w) /\ UNCHANGED <<retry, queue, broker, draining, replays, faults>>
    BY <1>7 DEF Commit
  <2> QED
    BY <2>1, <2>2, <2>3, FinishType DEF TypeOK
<1>8. ASSUME NEW w \in Workers, Raise(w) PROVE TypeOK'
  BY <1>8 DEF Raise, TypeOK, rows
<1>9. ASSUME NEW w \in Workers, MarkFailed(w) PROVE TypeOK'
  <2>1. /\ held[w] \in Events
        /\ Busy(w)
    BY <1>9, BusyHolds DEF MarkFailed, Busy
  <2>2. /\ status' \in [Events -> Statuses]
        /\ retry' \in [Events -> Nat]
        /\ claimAge' \in [Events -> 0..Abandoned]
        /\ fresh' \in [Workers -> SUBSET Events]
    BY <1>9, <2>1 DEF MarkFailed, AfterFailure, TypeOK, Statuses
  <2>3. Finish(w) /\ UNCHANGED <<age, applied, queue, broker, draining, replays, faults>>
    BY <1>9 DEF MarkFailed
  <2> QED
    BY <2>1, <2>2, <2>3, FinishType DEF TypeOK
<1>10. ASSUME NEW w \in Workers, Handoff(w) PROVE TypeOK'
  BY <1>10, EnqueueType, ReleaseType DEF Handoff, TypeOK, rows
<1>11. CASE Tick
  <2>1. \A e \in Events : /\ Least(claimAge[e] + 1, Abandoned) \in 0..Abandoned
                          /\ Least(age[e] + 1, Stranded) \in 0..Stranded
    BY DEF TypeOK, Least
  <2>2. \A w \in Workers : Least(clock[w] + 1, Abandoned) \in 0..Abandoned
    BY DEF TypeOK, Least
  <2> QED
    BY <1>11, <2>1, <2>2 DEF Tick, TypeOK
<1>12. CASE Sweep
  <2>1. /\ status' \in [Events -> Statuses]
        /\ claimAge' \in [Events -> 0..Abandoned]
        /\ UNCHANGED <<retry, age, applied, broker, draining, task, replays, faults>>
    BY <1>12 DEF Sweep, TypeOK, Statuses
  <2>2. queue' \in [Events -> 0..MaxCopies]
    BY <1>12, EnqueueType DEF Sweep
  <2> QED
    BY <2>1, <2>2 DEF TypeOK, task
<1>13. ASSUME NEW w \in Workers, WorkerDies(w) PROVE TypeOK'
  <2>1. held[w] \in Events
    BY <1>13, BusyHolds DEF WorkerDies
  <2>2. queue' \in [Events -> 0..MaxCopies]
    BY <1>13, <2>1 DEF WorkerDies, TypeOK, Least
  <2>3. Release(w) /\ UNCHANGED <<rows, broker, draining, replays>> /\ faults' = faults + 1
    BY <1>13 DEF WorkerDies, Fault
  <2> QED
    BY <2>2, <2>3, ReleaseType DEF TypeOK, rows
<1>14. CASE HandlerDies
  BY <1>14 DEF HandlerDies, Fault, TypeOK, rows, task
<1>15. CASE BrokerFails
  BY <1>15 DEF BrokerFails, Fault, TypeOK, rows, task
<1>16. CASE BrokerReturns
  BY <1>16 DEF BrokerReturns, TypeOK, rows, task
<1>17. ASSUME NEW e \in Events, Replay(e) PROVE TypeOK'
  BY <1>17 DEF Replay, WillDrain, TypeOK, Statuses, task
<1>18. CASE UNCHANGED vars
  BY <1>18 DEF vars, rows, task, TypeOK
<1> QED
  BY <1>1, <1>2, <1>3, <1>4, <1>5, <1>6, <1>7, <1>8, <1>9, <1>10, <1>11, <1>12,
     <1>13, <1>14, <1>15, <1>16, <1>17, <1>18 DEF Next

\* Every variable of the outbox stays in its type, and a worker is idle exactly
\* when it holds no event.
THEOREM TypeCorrect == Spec => []TypeOK
BY TypeInit, TypeNext, PTL DEF Spec

-----------------------------------------------------------------------------
(* One worker per event, effects once.                                     *)

LEMMA InvInit == Init => IInv
BY TypeInit, OutboxAssumption
   DEF Init, IInv, SingleHolder, HolderOwnsRow, ClaimAgeIsTaskAge, SeenIsCurrent,
       AppliedAtMostOnce, AppliedIffDone, UnpublishedUntouched, Holding

\* A step that leaves the rows of held events alone, and lets workers only let
\* go of their events, keeps the ownership part of the invariant.
LEMMA InvStep ==
  ASSUME Disciplined, IInv, TypeOK', [Next]_vars
  PROVE  IInv'
<1> USE OutboxAssumption DEF IInv
<1> DEFINE Parts == /\ SingleHolder
                    /\ HolderOwnsRow
                    /\ ClaimAgeIsTaskAge
                    /\ SeenIsCurrent
                    /\ AppliedAtMostOnce
                    /\ AppliedIffDone
                    /\ UnpublishedUntouched
<1> SUFFICES Parts'
  OBVIOUS
<1> USE DEF SingleHolder, HolderOwnsRow, ClaimAgeIsTaskAge, SeenIsCurrent,
            AppliedAtMostOnce, AppliedIffDone, UnpublishedUntouched, Holding, TypeOK
<1>1. ASSUME NEW e \in Events, Publish(e) PROVE Parts'
  BY <1>1 DEF Publish
<1>2. CASE Drain \/ DrainByHand
  BY <1>2 DEF Drain, DrainByHand, rows, task
<1>3. ASSUME NEW w \in Workers, NEW e \in Events, ClaimPolled(w, e) PROVE Parts'
  BY <1>3 DEF ClaimPolled, Claim, Claimable
<1>4. ASSUME NEW w \in Workers, NEW e \in Events, ClaimDelivered(w, e) PROVE Parts'
  BY <1>4 DEF ClaimDelivered, Claim, Claimable
<1>5. ASSUME NEW w \in Workers, NEW e \in Events, SkipDelivered(w, e) PROVE Parts'
  BY <1>5 DEF SkipDelivered, rows, task
<1>6. ASSUME NEW w \in Workers, Load(w) PROVE Parts'
  BY <1>6 DEF Load, rows
<1>8. ASSUME NEW w \in Workers, Raise(w) PROVE Parts'
  BY <1>8 DEF Raise, rows
<1>10. ASSUME NEW w \in Workers, Handoff(w) PROVE Parts'
  BY <1>10 DEF Handoff, Release, rows
<1>11. CASE Tick
  BY <1>11 DEF Tick, Least, Busy, Disciplined
<1>12. CASE Sweep
  BY <1>12 DEF Sweep, Releasable, task
<1>13. ASSUME NEW w \in Workers, WorkerDies(w) PROVE Parts'
  BY <1>13 DEF WorkerDies, Release, rows
<1>14. CASE HandlerDies
  BY <1>14 DEF HandlerDies, rows, task
<1>15. CASE BrokerFails
  BY <1>15 DEF BrokerFails, rows, task
<1>16. CASE BrokerReturns
  BY <1>16 DEF BrokerReturns, rows, task
<1>17. ASSUME NEW e \in Events, Replay(e) PROVE Parts'
  BY <1>17 DEF Replay, Disciplined, task
<1>18. CASE UNCHANGED vars
  BY <1>18 DEF vars, rows, task
<1>7. ASSUME NEW w \in Workers, NEW kids \in Kids, Commit(w, kids) PROVE Parts'
  <2> DEFINE e == held[w]
  <2>1. /\ e \in Events
        /\ status[e] = "processing"
        /\ seen[w].applied = (applied[e] > 0)
        /\ seen[w].status = "processing"
    BY <1>7 DEF Commit
  <2>2. \A x \in kids : x \in Events /\ status[x] = "absent"
    BY <1>7 DEF Commit, Published
  <2>3. /\ status' = [x \in Events |-> IF x \in kids THEN "pending"
                                       ELSE IF x = e THEN "done" ELSE status[x]]
        /\ applied' = IF Repeats(w) THEN applied ELSE [applied EXCEPT ![e] = @ + 1]
        /\ claimAge' = [x \in Events |->
                          IF status'[x] = "processing" THEN claimAge[x] ELSE 0]
    BY <1>7, <2>1 DEF Commit
  <2>4. /\ ~Holding(w)'
        /\ \A v \in Workers \ {w} : /\ pc'[v] = pc[v] /\ held'[v] = held[v]
                                    /\ seen'[v] = seen[v] /\ clock'[v] = clock[v]
        /\ pc'[w] = "idle" => clock'[w] = 0
        /\ Dispatch = "celery" => clock'[w] <= TaskLimit
    BY <1>7 DEF Commit, Finish
  <2>5. \A v \in Workers \ {w} :
          Holding(v) => /\ held[v] \in Events
                        /\ status'[held[v]] = "processing"
                        /\ applied'[held[v]] = applied[held[v]]
                        /\ claimAge'[held[v]] = claimAge[held[v]]
    <3> SUFFICES ASSUME NEW v \in Workers \ {w}, Holding(v)
                 PROVE  /\ held[v] \in Events
                        /\ status'[held[v]] = "processing"
                        /\ applied'[held[v]] = applied[held[v]]
                        /\ claimAge'[held[v]] = claimAge[held[v]]
      OBVIOUS
    <3>1. held[v] \in Events /\ held[v] # e /\ held[v] \notin kids
      BY <1>7, <2>2 DEF Commit
    <3> QED
      BY <3>1, <2>3
  <2>6. SingleHolder'
    <3> SUFFICES ASSUME NEW u \in Workers, NEW v \in Workers,
                        u # v, Holding(u)', Holding(v)'
                 PROVE  held'[u] # held'[v]
      OBVIOUS
    <3>1. u # w /\ v # w
      BY <2>4
    <3> QED
      BY <2>4, <3>1
  <2>7. HolderOwnsRow'
    BY <2>4, <2>5
  <2>8. ClaimAgeIsTaskAge'
    <3> SUFFICES ASSUME NEW v \in Workers
                 PROVE  /\ Holding(v)' => claimAge'[held'[v]] = clock'[v]
                        /\ Dispatch = "celery" => clock'[v] <= TaskLimit
                        /\ pc'[v] = "idle" => clock'[v] = 0
      OBVIOUS
    <3>1. CASE v = w
      BY <2>4, <3>1
    <3>2. CASE v # w
      <4>1. /\ pc'[v] = pc[v] /\ held'[v] = held[v] /\ clock'[v] = clock[v]
            /\ Holding(v) => claimAge'[held[v]] = claimAge[held[v]]
        BY <2>4, <2>5, <3>2
      <4> QED
        BY <4>1
    <3> QED
      BY <3>1, <3>2
  <2>9. SeenIsCurrent'
    <3> SUFFICES ASSUME NEW v \in Workers, pc'[v] = "running"
                 PROVE  /\ seen'[v].applied = (applied'[held'[v]] > 0)
                        /\ seen'[v].status = "processing"
      OBVIOUS
    <3>1. v # w
      BY <2>4
    <3>2. /\ pc'[v] = pc[v] /\ held'[v] = held[v] /\ seen'[v] = seen[v]
          /\ applied'[held[v]] = applied[held[v]]
      BY <2>4, <2>5, <3>1
    <3> QED
      BY <3>2
  <2>10. (AppliedAtMostOnce /\ AppliedIffDone /\ UnpublishedUntouched)'
    BY <2>1, <2>2, <2>3 DEF Repeats
  <2> QED
    BY <2>6, <2>7, <2>8, <2>9, <2>10
<1>9. ASSUME NEW w \in Workers, MarkFailed(w) PROVE Parts'
  <2> DEFINE e == held[w]
  <2>1. /\ e \in Events
        /\ status[e] = "processing"
    BY <1>9 DEF MarkFailed
  <2>2. /\ \E s \in {"dead", "pending"} : status' = [status EXCEPT ![e] = s]
        /\ claimAge' = [claimAge EXCEPT ![e] = 0]
        /\ UNCHANGED applied
    BY <1>9 DEF MarkFailed, AfterFailure
  <2>3. /\ ~Holding(w)'
        /\ \A v \in Workers \ {w} : /\ pc'[v] = pc[v] /\ held'[v] = held[v]
                                    /\ seen'[v] = seen[v] /\ clock'[v] = clock[v]
        /\ pc'[w] = "idle" => clock'[w] = 0
        /\ Dispatch = "celery" => clock'[w] <= TaskLimit
    BY <1>9 DEF MarkFailed, Finish
  <2>4. \A v \in Workers \ {w} : Holding(v) => held[v] \in Events /\ held[v] # e
    BY <1>9 DEF MarkFailed
  <2>5. \A v \in Workers \ {w} :
          Holding(v) => /\ status'[held[v]] = "processing"
                        /\ claimAge'[held[v]] = claimAge[held[v]]
    BY <2>2, <2>4
  <2>6. SingleHolder'
    <3> SUFFICES ASSUME NEW u \in Workers, NEW v \in Workers,
                        u # v, Holding(u)', Holding(v)'
                 PROVE  held'[u] # held'[v]
      OBVIOUS
    <3>1. u # w /\ v # w
      BY <2>3
    <3> QED
      BY <2>3, <3>1
  <2>7. HolderOwnsRow'
    BY <2>3, <2>5
  <2>8. ClaimAgeIsTaskAge'
    <3> SUFFICES ASSUME NEW v \in Workers
                 PROVE  /\ Holding(v)' => claimAge'[held'[v]] = clock'[v]
                        /\ Dispatch = "celery" => clock'[v] <= TaskLimit
                        /\ pc'[v] = "idle" => clock'[v] = 0
      OBVIOUS
    <3>1. CASE v = w
      BY <2>3, <3>1
    <3>2. CASE v # w
      <4>1. /\ pc'[v] = pc[v] /\ held'[v] = held[v] /\ clock'[v] = clock[v]
            /\ Holding(v) => claimAge'[held[v]] = claimAge[held[v]]
        BY <2>3, <2>5, <3>2
      <4> QED
        BY <4>1
    <3> QED
      BY <3>1, <3>2
  <2>9. SeenIsCurrent'
    <3> SUFFICES ASSUME NEW v \in Workers, pc'[v] = "running"
                 PROVE  /\ seen'[v].applied = (applied'[held'[v]] > 0)
                        /\ seen'[v].status = "processing"
      OBVIOUS
    <3>1. v # w
      BY <2>3
    <3>2. /\ pc'[v] = pc[v] /\ held'[v] = held[v] /\ seen'[v] = seen[v]
          /\ UNCHANGED applied
      BY <2>2, <2>3, <3>1
    <3> QED
      BY <3>2
  <2>10. (AppliedAtMostOnce /\ AppliedIffDone /\ UnpublishedUntouched)'
    BY <2>1, <2>2
  <2> QED
    BY <2>6, <2>7, <2>8, <2>9, <2>10
<1> QED
  BY <1>1, <1>2, <1>3, <1>4, <1>5, <1>6, <1>7, <1>8, <1>9, <1>10, <1>11, <1>12,
     <1>13, <1>14, <1>15, <1>16, <1>17, <1>18 DEF Next

LEMMA Invariance == ASSUME Disciplined PROVE Spec => []IInv
<1>1. IInv /\ [Next]_vars => IInv'
  <2>1. IInv => TypeOK
    BY DEF IInv
  <2> QED
    BY <2>1, TypeNext, InvStep
<1> QED
  BY <1>1, InvInit, PTL DEF Spec

\* Where the time limit is enforced and nobody replays an event in processing,
\* no two workers ever work on one event: claim() and the age of the claim in
\* sweep_outbox() are enough.
THEOREM OneHolder == ASSUME Disciplined PROVE Spec => []SingleHolder
<1>1. IInv => SingleHolder
  BY DEF IInv
<1> QED
  BY <1>1, Invariance, PTL

\* There too, the effects of a document that moves stock are committed once at
\* most, whatever dies, is redelivered, released or replayed.
THEOREM AppliedOnce == ASSUME Disciplined PROVE Spec => []AppliedAtMostOnce
<1>1. IInv => AppliedAtMostOnce
  BY DEF IInv
<1> QED
  BY <1>1, Invariance, PTL

\* There too, a done or a dead event changes only when an operator replays it.
THEOREM SettledUntilReplay == ASSUME Disciplined PROVE Spec => SettledStays
<1>1. ASSUME IInv, [Next]_vars
      PROVE  [\A e \in Events :
                status[e] \in {"done", "dead"} /\ status'[e] # status[e] =>
                  replays' = replays + 1]_vars
  <2> SUFFICES ASSUME NEW e \in Events, Next,
                      status[e] \in {"done", "dead"}, status'[e] # status[e]
               PROVE  replays' = replays + 1
    BY <1>1
  <2> USE <1>1 DEF IInv, TypeOK, HolderOwnsRow, Holding
  <2>1. ASSUME NEW x \in Events, Publish(x) PROVE FALSE
    BY <2>1 DEF Publish
  <2>2. ASSUME NEW w \in Workers, NEW x \in Events,
               ClaimPolled(w, x) \/ ClaimDelivered(w, x) PROVE FALSE
    BY <2>2 DEF ClaimPolled, ClaimDelivered, Claim, Claimable
  <2>3. ASSUME NEW w \in Workers, NEW kids \in Kids, Commit(w, kids) PROVE FALSE
    BY <2>3 DEF Commit, Published
  <2>4. ASSUME NEW w \in Workers, MarkFailed(w) PROVE FALSE
    BY <2>4 DEF MarkFailed
  <2>5. CASE Sweep
    BY <2>5 DEF Sweep, Releasable
  <2>6. ASSUME NEW x \in Events, Replay(x) PROVE replays' = replays + 1
    BY <2>6 DEF Replay
  <2>7. \/ Drain \/ DrainByHand \/ Tick \/ HandlerDies \/ BrokerFails \/ BrokerReturns
        \/ \E w \in Workers : \/ Load(w) \/ Raise(w) \/ Handoff(w) \/ WorkerDies(w)
                              \/ \E x \in Events : SkipDelivered(w, x)
        => FALSE
    BY DEF Drain, DrainByHand, Tick, HandlerDies, BrokerFails, BrokerReturns, Load, Raise, Handoff,
           WorkerDies, SkipDelivered, rows
  <2> QED
    BY <2>1, <2>2, <2>3, <2>4, <2>5, <2>6, <2>7 DEF Next
<1> QED
  BY <1>1, Invariance, PTL DEF Spec, SettledStays

-----------------------------------------------------------------------------
(* The outbox implements Delivery.                                         *)

LEMMA RefinementInit == Init => D!DeliveryInit
BY DEF Init, D!DeliveryInit, OutcomeOf

\* Steps that keep the class of every row and commit no effects are stutters.
LEMMA RefinementStutter ==
  ASSUME UNCHANGED applied,
         \A e \in Events : \/ status'[e] = status[e]
                           \/ {status[e], status'[e]} \subseteq {"pending", "processing"}
  PROVE  UNCHANGED D!dvars
<1>1. \A e \in Events : OutcomeOf(e)' = OutcomeOf(e)
  BY DEF OutcomeOf
<1> QED
  BY <1>1 DEF D!dvars

LEMMA OutcomeUpdate ==
  ASSUME NEW e \in Events, NEW o, OutcomeOf(e)' = o,
         \A x \in Events : x # e => OutcomeOf(x)' = OutcomeOf(x)
  PROVE  [x \in Events |-> OutcomeOf(x)]' = [[x \in Events |-> OutcomeOf(x)] EXCEPT ![e] = o]
OBVIOUS

LEMMA RefinementStep ==
  ASSUME IInv, [Next]_vars
  PROVE  [D!DeliveryNext]_(D!dvars)
<1> DEFINE Outcome == [e \in Events |-> OutcomeOf(e)]
<1>0. /\ status \in [Events -> Statuses]
      /\ applied \in [Events -> Nat]
      /\ seen \in [Workers -> [applied : BOOLEAN, status : Statuses]]
      /\ \A w \in Workers : pc[w] # "idle" => held[w] \in Events
      /\ HolderOwnsRow /\ SeenIsCurrent /\ AppliedIffDone /\ UnpublishedUntouched
  BY DEF IInv, TypeOK
<1>1. ASSUME NEW e \in Events, Publish(e) PROVE D!Promise(e)
  <2>1. Outcome[e] = "none"
    BY <1>0, <1>1 DEF Publish, OutcomeOf
  <2>2. /\ status' = [status EXCEPT ![e] = "pending"]
        /\ UNCHANGED applied
        /\ applied[e] = 0
    BY <1>0, <1>1 DEF Publish, UnpublishedUntouched
  <2>3. /\ OutcomeOf(e)' = "owed"
        /\ \A x \in Events : x # e => OutcomeOf(x)' = OutcomeOf(x)
    BY <1>0, <2>2 DEF OutcomeOf
  <2>4. Outcome' = [Outcome EXCEPT ![e] = "owed"]
    BY <2>3, OutcomeUpdate
  <2> QED
    BY <2>1, <2>2, <2>4 DEF D!Promise
<1>2. ASSUME NEW w \in Workers, NEW e \in Events,
             ClaimPolled(w, e) \/ ClaimDelivered(w, e)
      PROVE  UNCHANGED D!dvars
  BY <1>0, <1>2, RefinementStutter DEF ClaimPolled, ClaimDelivered, Claim, Claimable
<1>3. ASSUME NEW w \in Workers, NEW kids \in Kids, Commit(w, kids)
      PROVE  D!DeliveryNext \/ UNCHANGED D!dvars
  <2> DEFINE e == held[w]
  <2>1. /\ e \in Events /\ status[e] = "processing"
        /\ seen[w].applied = (applied[e] > 0)
        /\ seen[w].status = "processing"
    BY <1>0, <1>3 DEF Commit, HolderOwnsRow, SeenIsCurrent, Holding
  <2>2. /\ kids \in SUBSET Events
        /\ \A x \in kids : status[x] = "absent" /\ applied[x] = 0
    BY <1>0, <1>3 DEF Commit, Published, UnpublishedUntouched
  <2>3. status' = [x \in Events |-> IF x \in kids THEN "pending"
                                    ELSE IF x = e THEN "done" ELSE status[x]]
    BY <1>0, <1>3, <2>1 DEF Commit
  <2>4. CASE applied[e] = 0
    <3>1. applied' = [applied EXCEPT ![e] = @ + 1]
      BY <1>0, <1>3, <2>1, <2>4 DEF Commit, Repeats
    <3>2. OutcomeOf(e) = "owed" /\ \A x \in kids : OutcomeOf(x) = "none"
      BY <2>1, <2>2, <2>4 DEF OutcomeOf
    <3>3. \A x \in Events :
            OutcomeOf(x)' = IF x = e THEN "applied"
                            ELSE IF x \in kids THEN "owed" ELSE OutcomeOf(x)
      <4> SUFFICES ASSUME NEW x \in Events
                   PROVE  OutcomeOf(x)' = IF x = e THEN "applied"
                                          ELSE IF x \in kids THEN "owed" ELSE OutcomeOf(x)
        OBVIOUS
      <4>1. CASE x = e
        <5>1. status'[x] = "done" /\ applied'[x] = 1
          BY <1>0, <2>1, <2>2, <2>3, <2>4, <3>1, <4>1
        <5> QED
          BY <4>1, <5>1 DEF OutcomeOf
      <4>2. CASE x # e /\ x \in kids
        <5>1. status'[x] = "pending" /\ applied'[x] = 0
          BY <1>0, <2>1, <2>2, <2>3, <3>1, <4>2
        <5> QED
          BY <4>2, <5>1 DEF OutcomeOf
      <4>3. CASE x # e /\ x \notin kids
        <5>1. status'[x] = status[x] /\ applied'[x] = applied[x]
          BY <1>0, <2>1, <2>3, <3>1, <4>3
        <5> QED
          BY <4>3, <5>1 DEF OutcomeOf
      <4> QED
        BY <4>1, <4>2, <4>3
    <3>4. /\ Outcome[e] = "owed" /\ \A x \in kids : Outcome[x] = "none"
          /\ Outcome' = [x \in Events |-> IF x = e THEN "applied"
                                         ELSE IF x \in kids THEN "owed" ELSE Outcome[x]]
      BY <2>1, <2>2, <3>2, <3>3
    <3>5. D!Apply(e, kids)
      BY <3>1, <3>4 DEF D!Apply
    <3> QED
      BY <2>1, <2>2, <3>5 DEF D!DeliveryNext
  <2>5. CASE applied[e] > 0
    <3>1. kids = {}
      BY <1>0, <1>3, <2>1, <2>5 DEF Commit, Repeats
    <3>2. Outcome[e] = "applied"
      BY <1>0, <2>1, <2>5 DEF OutcomeOf
    <3>3. CASE e \in Guarded
      <4>1. UNCHANGED applied
        BY <1>0, <1>3, <2>1, <2>5, <3>3 DEF Commit, Repeats
      <4>2. \A x \in Events : OutcomeOf(x)' = OutcomeOf(x)
        BY <1>0, <2>1, <2>3, <2>5, <3>1, <4>1 DEF OutcomeOf
      <4> QED
        BY <4>1, <4>2 DEF D!dvars
    <3>4. CASE e \notin Guarded
      <4>1. applied' = [applied EXCEPT ![e] = @ + 1]
        BY <1>0, <1>3, <3>4 DEF Commit, Repeats
      <4>2. \A x \in Events : OutcomeOf(x)' = OutcomeOf(x)
        <5> SUFFICES ASSUME NEW x \in Events PROVE OutcomeOf(x)' = OutcomeOf(x)
          OBVIOUS
        <5>1. CASE x = e
          <6>1. status'[x] = "done" /\ applied'[x] > 0
            BY <1>0, <2>1, <2>3, <2>5, <3>1, <4>1, <5>1
          <6> QED
            BY <2>1, <2>5, <5>1, <6>1 DEF OutcomeOf
        <5>2. CASE x # e
          <6>1. status'[x] = status[x] /\ applied'[x] = applied[x]
            BY <1>0, <2>1, <2>3, <3>1, <4>1, <5>2
          <6> QED
            BY <6>1 DEF OutcomeOf
        <5> QED
          BY <5>1, <5>2
      <4>3. D!Repeat(e)
        BY <3>2, <3>4, <4>1, <4>2 DEF D!Repeat
      <4> QED
        BY <2>1, <4>3 DEF D!DeliveryNext
    <3> QED
      BY <3>3, <3>4
  <2> QED
    BY <1>0, <2>1, <2>4, <2>5
<1>4. ASSUME NEW w \in Workers, MarkFailed(w)
      PROVE  D!DeliveryNext \/ UNCHANGED D!dvars
  <2>0. PICK e \in Events : e = held[w]
    BY <1>0, <1>4 DEF MarkFailed
  <2>1. status[e] = "processing" /\ UNCHANGED applied
    BY <1>0, <1>4, <2>0 DEF MarkFailed, HolderOwnsRow, Holding
  <2>2. status' = [status EXCEPT ![e] = "dead"] \/ status' = [status EXCEPT ![e] = "pending"]
    BY <1>0, <1>4, <2>0 DEF MarkFailed, AfterFailure
  <2>3. CASE status' = [status EXCEPT ![e] = "dead"] /\ applied[e] = 0
    <3>1. /\ status'[e] = "dead" /\ applied'[e] = 0
          /\ \A x \in Events : x # e => status'[x] = status[x]
      BY <1>0, <2>1, <2>3
    <3>2. /\ OutcomeOf(e) = "owed" /\ OutcomeOf(e)' = "given up"
          /\ \A x \in Events : x # e => OutcomeOf(x)' = OutcomeOf(x)
      BY <2>1, <2>3, <3>1 DEF OutcomeOf
    <3>3. Outcome[e] = "owed" /\ Outcome' = [Outcome EXCEPT ![e] = "given up"]
      BY <2>1, <3>2, OutcomeUpdate
    <3>4. D!GiveUp(e)
      BY <2>1, <3>3 DEF D!GiveUp
    <3> QED
      BY <2>1, <3>4 DEF D!DeliveryNext
  <2>4. CASE ~(status' = [status EXCEPT ![e] = "dead"] /\ applied[e] = 0)
    <3>1. \A x \in Events : x # e => status'[x] = status[x]
      BY <1>0, <2>1, <2>2
    <3>2. \/ applied[e] > 0 /\ status'[e] \in {"dead", "pending"}
          \/ status'[e] = "pending"
      BY <1>0, <2>1, <2>2, <2>4
    <3>3. \A x \in Events : OutcomeOf(x)' = OutcomeOf(x)
      BY <2>1, <3>1, <3>2 DEF OutcomeOf
    <3> QED
      BY <2>1, <3>3 DEF D!dvars
  <2> QED
    BY <2>3, <2>4
<1>5. CASE Sweep
  BY <1>0, <1>5, RefinementStutter DEF Sweep, Releasable
<1>6. ASSUME NEW e \in Events, Replay(e)
      PROVE  D!DeliveryNext \/ UNCHANGED D!dvars
  <2>1. status' = [status EXCEPT ![e] = "pending"] /\ UNCHANGED applied
        /\ status[e] # "absent"
    BY <1>0, <1>6, OutboxAssumption DEF Replay
  <2>2. CASE status[e] = "dead" /\ applied[e] = 0
    <3>1. /\ OutcomeOf(e) = "given up" /\ OutcomeOf(e)' = "owed"
          /\ \A x \in Events : x # e => OutcomeOf(x)' = OutcomeOf(x)
      BY <1>0, <2>1, <2>2 DEF OutcomeOf
    <3>2. D!Revive(e)
      BY <2>1, <3>1, OutcomeUpdate DEF D!Revive
    <3> QED
      BY <3>2 DEF D!DeliveryNext
  <2>3. CASE ~(status[e] = "dead" /\ applied[e] = 0)
    <3>1. \A x \in Events : x # e => status'[x] = status[x]
      BY <1>0, <2>1
    <3>2. status'[e] = "pending" /\ (applied[e] > 0 \/ status[e] \in {"pending", "processing"})
      BY <1>0, <2>1, <2>3 DEF AppliedIffDone, Statuses
    <3>3. \A x \in Events : OutcomeOf(x)' = OutcomeOf(x)
      BY <2>1, <3>1, <3>2 DEF OutcomeOf
    <3> QED
      BY <2>1, <3>3 DEF D!dvars
  <2> QED
    BY <2>2, <2>3
<1>7. \/ Drain \/ DrainByHand \/ Tick \/ HandlerDies \/ BrokerFails \/ BrokerReturns \/ UNCHANGED vars
      \/ \E w \in Workers : \/ Load(w) \/ Raise(w) \/ Handoff(w) \/ WorkerDies(w)
                            \/ \E e \in Events : SkipDelivered(w, e)
      => UNCHANGED D!dvars
  <2>1. UNCHANGED <<status, applied>> => UNCHANGED D!dvars
    BY RefinementStutter
  <2> QED
    BY <2>1 DEF Drain, DrainByHand, Tick, HandlerDies, BrokerFails, BrokerReturns, Load, Raise, Handoff,
                WorkerDies, SkipDelivered, rows, vars
<1>8. ASSUME NEW e \in Events, D!Promise(e) PROVE D!DeliveryNext
  BY <1>8 DEF D!DeliveryNext
<1> QED
  BY <1>1, <1>2, <1>3, <1>4, <1>5, <1>6, <1>7, <1>8 DEF Next

\* Where the deployment is disciplined, the outbox is an implementation of
\* Delivery: every event is owed from its commit on, applied in one step
\* together with its chain, and never owed again once it is applied.
THEOREM Refinement == ASSUME Disciplined PROVE Spec => ImplementsDelivery
BY RefinementInit, RefinementStep, Invariance, PTL
   DEF Spec, ImplementsDelivery, D!DeliverySpec

-----------------------------------------------------------------------------
(* Outcomes.                                                               *)

\* The steps that change what a row says.
LEMMA RowSteps ==
  ASSUME [Next]_vars
  PROVE  \/ UNCHANGED <<status, retry, applied, replays>>
         \/ \E e \in Events : Publish(e) \/ Replay(e)
         \/ \E w \in Workers, e \in Events : Claim(w, e)
         \/ \E w \in Workers, kids \in Kids : Commit(w, kids)
         \/ \E w \in Workers : MarkFailed(w)
         \/ Sweep
<1>1. ASSUME \/ Drain \/ DrainByHand \/ Tick \/ HandlerDies \/ BrokerFails \/ BrokerReturns
             \/ \E w \in Workers : \/ Load(w) \/ Raise(w) \/ Handoff(w) \/ WorkerDies(w)
                                   \/ \E e \in Events : SkipDelivered(w, e)
             \/ UNCHANGED vars
      PROVE  UNCHANGED <<status, retry, applied, replays>>
  BY <1>1 DEF Drain, DrainByHand, Tick, HandlerDies, BrokerFails, BrokerReturns, Load, Raise, Handoff,
              WorkerDies, SkipDelivered, rows, vars
<1> QED
  BY <1>1 DEF Next, ClaimPolled, ClaimDelivered

\* A step of a row in processing, once the row is its holder's.
LEMMA OutcomeRows ==
  ASSUME IInv, NEW w \in Workers
  PROVE  /\ \A kids \in Kids : Commit(w, kids) =>
              /\ held[w] \in Events /\ status[held[w]] = "processing"
              /\ \A x \in kids : x \in Events /\ status[x] = "absent"
              /\ status' = [x \in Events |-> IF x \in kids THEN "pending"
                                             ELSE IF x = held[w] THEN "done" ELSE status[x]]
              /\ UNCHANGED <<retry, replays>>
              /\ \/ applied' = [applied EXCEPT ![held[w]] = @ + 1]
                 \/ applied' = applied /\ applied[held[w]] > 0
         /\ MarkFailed(w) =>
              /\ held[w] \in Events /\ status[held[w]] = "processing"
              /\ retry' = [retry EXCEPT ![held[w]] = @ + 1]
              /\ status' = [status EXCEPT ![held[w]] = AfterFailure(retry[held[w]] + 1)]
              /\ UNCHANGED <<applied, replays>>
<1> USE DEF IInv, HolderOwnsRow, Holding
<1>1. ASSUME NEW kids \in Kids, Commit(w, kids)
      PROVE  /\ held[w] \in Events /\ status[held[w]] = "processing"
             /\ \A x \in kids : x \in Events /\ status[x] = "absent"
             /\ status' = [x \in Events |-> IF x \in kids THEN "pending"
                                             ELSE IF x = held[w] THEN "done" ELSE status[x]]
             /\ UNCHANGED <<retry, replays>>
             /\ \/ applied' = [applied EXCEPT ![held[w]] = @ + 1]
                \/ applied' = applied /\ applied[held[w]] > 0
  <2>1. held[w] \in Events /\ status[held[w]] = "processing"
    BY <1>1, BusyHolds DEF Commit, Busy
  <2>2. seen[w].status = "processing" /\ seen[w].applied = (applied[held[w]] > 0)
    BY <1>1 DEF Commit, SeenIsCurrent
  <2>3. \A x \in kids : x \in Events /\ status[x] = "absent"
    BY <1>1 DEF Commit, Published
  <2>4. applied' = IF Repeats(w) THEN applied ELSE [applied EXCEPT ![held[w]] = @ + 1]
    BY <1>1 DEF Commit
  <2>5. status' = [x \in Events |-> IF x \in kids THEN "pending"
                                    ELSE IF x = held[w] THEN "done" ELSE status[x]]
        /\ UNCHANGED <<retry, replays>>
    BY <1>1, <2>2 DEF Commit
  <2> QED
    BY <2>1, <2>2, <2>3, <2>4, <2>5 DEF Repeats
<1>2. ASSUME MarkFailed(w)
      PROVE  /\ held[w] \in Events /\ status[held[w]] = "processing"
             /\ retry' = [retry EXCEPT ![held[w]] = @ + 1]
             /\ status' = [status EXCEPT ![held[w]] = AfterFailure(retry[held[w]] + 1)]
             /\ UNCHANGED <<applied, replays>>
  BY <1>2, BusyHolds DEF MarkFailed, Busy
<1> QED
  BY <1>1, <1>2

LEMMA OutcomesInit ==
  ASSUME Init
  PROVE  DoneMeansApplied /\ DeadLetterBound
<1>1. \A e \in Events : status[e] = "absent" /\ applied[e] = 0 /\ retry[e] = 0
  BY DEF Init
<1>2. DoneMeansApplied
  <2>1. ASSUME NEW e \in Events
        PROVE  status[e] # "done" /\ ~(applied[e] > 0)
    BY <1>1
  <2> QED BY <2>1 DEF DoneMeansApplied
<1>3. DeadLetterBound
  <2>1. ASSUME NEW e \in Events
        PROVE  /\ status[e] # "dead"
               /\ ~(retry[e] >= MaxRetries)
               /\ retry[e] <= MaxRetries
    BY <1>1, OutboxAssumption
  <2> QED BY <2>1 DEF DeadLetterBound
<1> QED
  BY <1>2, <1>3

LEMMA AppliedStep ==
  ASSUME IInv, DoneMeansApplied, [Next]_vars
  PROVE  DoneMeansApplied'
<1> USE DEF DoneMeansApplied, TypeOK, IInv
<1>1. ASSUME NEW e \in Events, Publish(e)  PROVE DoneMeansApplied'
  BY <1>1 DEF Publish, UnpublishedUntouched
<1>2. ASSUME NEW e \in Events, Replay(e)  PROVE DoneMeansApplied'
  BY <1>2 DEF Replay
<1>3. ASSUME NEW w \in Workers, NEW e \in Events, Claim(w, e)  PROVE DoneMeansApplied'
  BY <1>3 DEF Claim, Claimable
<1>4. ASSUME NEW w \in Workers, NEW kids \in Kids, Commit(w, kids)  PROVE DoneMeansApplied'
  <2>1. /\ held[w] \in Events
        /\ \A x \in kids : x \in Events /\ status[x] = "absent"
        /\ status' = [x \in Events |-> IF x \in kids THEN "pending"
                                       ELSE IF x = held[w] THEN "done" ELSE status[x]]
        /\ status[held[w]] = "processing"
        /\ UNCHANGED replays
    BY <1>4, OutcomeRows
  <2>2. \/ applied' = [applied EXCEPT ![held[w]] = @ + 1]
        \/ applied' = applied /\ applied[held[w]] > 0
    BY <1>4, OutcomeRows
  <2>3. \A x \in kids : applied[x] = 0 /\ x # held[w]  BY <2>1 DEF UnpublishedUntouched
  <2> QED  BY <2>1, <2>2, <2>3
<1>5. ASSUME NEW w \in Workers, MarkFailed(w)  PROVE DoneMeansApplied'
  <2>1. /\ held[w] \in Events /\ status[held[w]] = "processing"
        /\ status' = [status EXCEPT ![held[w]] = AfterFailure(retry[held[w]] + 1)]
        /\ UNCHANGED <<applied, replays>>
    BY <1>5, OutcomeRows
  <2>2. AfterFailure(retry[held[w]] + 1) # "done"  BY DEF AfterFailure
  <2> QED  BY <2>1, <2>2
<1>6. CASE Sweep
  BY <1>6 DEF Sweep, Releasable
<1>7. CASE UNCHANGED <<status, retry, applied, replays>>
  BY <1>7
<1> QED
  BY <1>1, <1>2, <1>3, <1>4, <1>5, <1>6, <1>7, RowSteps

LEMMA DeadStep ==
  ASSUME IInv, DeadLetterBound, [Next]_vars
  PROVE  DeadLetterBound'
<1> USE OutboxAssumption DEF DeadLetterBound, TypeOK, IInv
<1>1. ASSUME NEW e \in Events, Publish(e)  PROVE DeadLetterBound'
  BY <1>1 DEF Publish
<1>2. ASSUME NEW e \in Events, Replay(e)  PROVE DeadLetterBound'
  BY <1>2 DEF Replay
<1>3. ASSUME NEW w \in Workers, NEW e \in Events, Claim(w, e)  PROVE DeadLetterBound'
  BY <1>3 DEF Claim, Claimable
<1>4. ASSUME NEW w \in Workers, NEW kids \in Kids, Commit(w, kids)  PROVE DeadLetterBound'
  <2>1. /\ held[w] \in Events /\ status[held[w]] = "processing"
        /\ \A x \in kids : x \in Events /\ status[x] = "absent"
        /\ status' = [x \in Events |-> IF x \in kids THEN "pending"
                                       ELSE IF x = held[w] THEN "done" ELSE status[x]]
        /\ UNCHANGED retry
    BY <1>4, OutcomeRows
  <2>2. \A x \in Events : status'[x] = "dead" <=> status[x] = "dead"  BY <2>1
  <2> QED  BY <2>1, <2>2
<1>5. ASSUME NEW w \in Workers, MarkFailed(w)  PROVE DeadLetterBound'
  <2>1. /\ held[w] \in Events /\ status[held[w]] = "processing"
        /\ retry' = [retry EXCEPT ![held[w]] = @ + 1]
        /\ status' = [status EXCEPT ![held[w]] = AfterFailure(retry[held[w]] + 1)]
    BY <1>5, OutcomeRows
  <2>2. retry[held[w]] < MaxRetries /\ retry[held[w]] \in Nat  BY <2>1
  <2>3. AfterFailure(retry[held[w]] + 1) = "dead" <=> retry[held[w]] + 1 >= MaxRetries
    BY DEF AfterFailure
  <2> QED  BY <2>1, <2>2, <2>3
<1>6. CASE Sweep
  BY <1>6 DEF Sweep, Releasable
<1>7. CASE UNCHANGED <<status, retry, applied, replays>>
  BY <1>7
<1> QED
  BY <1>1, <1>2, <1>3, <1>4, <1>5, <1>6, <1>7, RowSteps

\* There too, a row that says done has had its effects committed, and without a
\* replay effects that were committed leave the row done (worker.py commits both
\* at once, and a failure never touches a settled row).
THEOREM AppliedIsDone == ASSUME Disciplined PROVE Spec => []DoneMeansApplied
<1>1. Init => DoneMeansApplied
  BY OutcomesInit
<1> QED
  BY <1>1, AppliedStep, Invariance, PTL DEF Spec

\* There too, the dead letters are exactly the rows with MaxRetries failures:
\* _mark_failed() counts every failure of an attempt, and only those.
THEOREM DeadAfterRetries == ASSUME Disciplined PROVE Spec => []DeadLetterBound
<1>1. Init => DeadLetterBound
  BY OutcomesInit
<1> QED
  BY <1>1, DeadStep, Invariance, PTL DEF Spec

\* There too, a row leaves processing by the hand of its holder, or by the sweep
\* when it has none.
THEOREM NobodySteals == ASSUME Disciplined PROVE Spec => NoTheft
<1>1. ASSUME IInv, [Next]_vars
      PROVE  [\A e \in Events :
                status[e] = "processing" /\ status'[e] # "processing" =>
                  \/ \E w \in Workers : Holding(w) /\ held[w] = e /\ ~Holding(w)'
                  \/ ~\E w \in Workers : Holding(w) /\ held[w] = e]_vars
  <2> SUFFICES ASSUME NEW e \in Events, status[e] = "processing", status'[e] # "processing"
               PROVE  \/ \E w \in Workers : Holding(w) /\ held[w] = e /\ ~Holding(w)'
                      \/ ~\E w \in Workers : Holding(w) /\ held[w] = e
    OBVIOUS
  <2> USE DEF IInv, TypeOK
  <2>1. ASSUME NEW x \in Events, Publish(x) \/ Replay(x)  PROVE FALSE
    BY <1>1, <2>1 DEF Publish, Replay, Disciplined
  <2>2. ASSUME NEW w \in Workers, NEW x \in Events, Claim(w, x)  PROVE FALSE
    BY <1>1, <2>2 DEF Claim, Claimable
  <2>3. ASSUME NEW w \in Workers, NEW kids \in Kids, Commit(w, kids)
        PROVE  Holding(w) /\ held[w] = e /\ ~Holding(w)'
    <3>1. held[w] = e  BY <1>1, <2>3, OutcomeRows
    <3> QED  BY <1>1, <2>3, <3>1 DEF Commit, Finish, Holding
  <2>4. ASSUME NEW w \in Workers, MarkFailed(w)
        PROVE  Holding(w) /\ held[w] = e /\ ~Holding(w)'
    <3>1. held[w] = e  BY <1>1, <2>4, OutcomeRows
    <3> QED  BY <1>1, <2>4, <3>1 DEF MarkFailed, Finish, Holding
  <2>5. CASE Sweep
    <3>1. claimAge[e] >= Abandoned /\ Dispatch = "celery"  BY <1>1, <2>5 DEF Sweep, Releasable
    <3> QED  BY <1>1, <3>1, OutboxAssumption DEF ClaimAgeIsTaskAge
  <2> QED
    BY <1>1, <2>1, <2>2, <2>3, <2>4, <2>5, RowSteps
<1> QED
  BY <1>1, Invariance, PTL DEF Spec, NoTheft
=============================================================================
