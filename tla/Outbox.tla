------------------------------- MODULE Outbox -------------------------------
(***************************************************************************)
(* The transactional outbox of SmartSME: the `events` table, the handlers  *)
(* that append to it, the workers that claim and apply its rows, and, in   *)
(* celery mode, the Redis queue and the sweep that repairs it.             *)
(*                                                                         *)
(*   backend/app/events.py      publish                                    *)
(*   backend/app/worker.py      claim, process_claimed, _mark_failed,      *)
(*                              process_batch, drain_queue                 *)
(*   backend/app/tasks.py       process_event, sweep_outbox, enqueue       *)
(*   backend/app/celery_app.py  late acknowledgement, time limit           *)
(*   backend/app/routers/ops.py replay_event                               *)
(*                                                                         *)
(* A worker is whatever runs process_claimed: a request thread or the      *)
(* background poller in inline mode, a Celery worker process in celery     *)
(* mode.  Each action below is one database transaction, or one step of a  *)
(* worker between two transactions.                                        *)
(***************************************************************************)
EXTENDS Naturals

CONSTANTS
  Events,        \* pool of event ids; an id is used once
  Workers,       \* threads or processes that apply events
  Guarded,       \* events of documents with product lines: they move stock, chain
                 \* STOCK_UPDATED events, and are the ones the replay guard sees
  NoEvent,       \* what an idle worker holds
  Dispatch,      \* settings.event_dispatch
  LimitEnforced, \* does the pool kill a task at its time limit (solo does not)
  MaxRetries,    \* worker.MAX_RETRIES
  TaskLimit,     \* task_time_limit, in ticks
  Abandoned,     \* age at which the sweep calls a claim abandoned, in ticks
  Stranded,      \* age at which the sweep calls an event stranded, in ticks
  ReplayFrom,    \* statuses in which an operator asks for a replay
  MaxReplays,    \* bound: replays in a behaviour
  MaxFaults,     \* bound: deaths of workers or API processes, losses of the broker
  MaxCopies      \* bound: copies of one message in the queue

Statuses == {"absent", "pending", "processing", "done", "dead"}

ASSUME OutboxAssumption ==
  /\ NoEvent \notin Events
  /\ Guarded \subseteq Events
  /\ Dispatch \in {"inline", "celery"}
  /\ LimitEnforced \in BOOLEAN
  /\ MaxRetries \in Nat \ {0}
  /\ TaskLimit \in Nat \ {0}
  /\ Abandoned \in Nat
  /\ Stranded \in Nat
  /\ TaskLimit < Abandoned
  /\ Stranded <= Abandoned
  /\ ReplayFrom \subseteq Statuses \ {"absent"}
  /\ MaxReplays \in Nat
  /\ MaxFaults \in Nat
  /\ MaxCopies \in Nat \ {0}

VARIABLES
  status,    \* events.status, "absent" for an id not yet inserted
  retry,     \* events.retry_count
  claimAge,  \* ticks since events.claimed_at, 0 unless the row is processing
  age,       \* ticks since events.created_at, saturating at Stranded
  applied,   \* how many times the effects of the event have been committed
  queue,     \* copies of each event's message in Redis
  broker,    \* is Redis reachable
  draining,  \* API handlers between their commit and their drain_queue()
  pc,        \* where each worker is
  held,      \* the event a worker's task is about
  seen,      \* what a worker's transaction has read of its event
  fresh,     \* events inserted since a worker's task started
  clock,     \* ticks since a worker's task claimed its event
  replays,   \* replays so far
  faults     \* faults so far

rows == <<status, retry, claimAge, age, applied>>
task == <<pc, held, seen, fresh, clock>>
vars == <<rows, queue, broker, draining, task, replays, faults>>

Least(m, n) == IF m <= n THEN m ELSE n

Nothing == [applied |-> FALSE, status |-> "absent"]

\* A worker is busy while its task runs; it holds its event until it has
\* written the outcome of the event.
Busy(w)    == pc[w] # "idle"
Holding(w) == pc[w] \in {"claimed", "running", "failed"}

Pending   == {e \in Events : status[e] = "pending"}
Published == {e \in Events : status[e] # "absent"}

-----------------------------------------------------------------------------

Init ==
  /\ status   = [e \in Events |-> "absent"]
  /\ retry    = [e \in Events |-> 0]
  /\ claimAge = [e \in Events |-> 0]
  /\ age      = [e \in Events |-> 0]
  /\ applied  = [e \in Events |-> 0]
  /\ queue    = [e \in Events |-> 0]
  /\ broker   = "up"
  /\ draining = 0
  /\ pc       = [w \in Workers |-> "idle"]
  /\ held     = [w \in Workers |-> NoEvent]
  /\ seen     = [w \in Workers |-> Nothing]
  /\ fresh    = [w \in Workers |-> {}]
  /\ clock    = [w \in Workers |-> 0]
  /\ replays  = 0
  /\ faults   = 0

\* enqueue() swallows a broker that is down: nothing is sent, nothing is raised.
Enqueue(S) ==
  queue' = IF broker = "up"
           THEN [e \in Events |-> IF e \in S THEN Least(queue[e] + 1, MaxCopies)
                                             ELSE queue[e]]
           ELSE queue

\* Rows inserted by publish(): pending, and newer than every running task.
Insert(S) ==
  /\ age'   = [e \in Events |-> IF e \in S THEN 0 ELSE age[e]]
  /\ fresh' = [w \in Workers |-> IF Busy(w) THEN fresh[w] \cup S ELSE {}]

\* In celery mode a handler still has to hand its rows over after its commit;
\* in inline mode its thread becomes one of the workers.
WillDrain == draining' = IF Dispatch = "celery" THEN draining + 1 ELSE draining

\* The end of a task: the worker forgets its event.
Release_KeepsEvent(w) ==
  /\ pc'    = [pc EXCEPT ![w] = "idle"]
  /\ fresh' = [fresh EXCEPT ![w] = {}]
  /\ clock' = [clock EXCEPT ![w] = 0]
  /\ UNCHANGED <<held, seen>>

Release(w) ==
  /\ pc'    = [pc EXCEPT ![w] = "idle"]
  /\ held'  = [held EXCEPT ![w] = NoEvent]
  /\ seen'  = [seen EXCEPT ![w] = Nothing]
  /\ fresh' = [fresh EXCEPT ![w] = {}]
  /\ clock' = [clock EXCEPT ![w] = 0]

-----------------------------------------------------------------------------
(* Writes and hand-over.                                                   *)

\* A business write commits together with the event it publishes.
Publish(e) ==
  /\ status[e] = "absent"
  /\ status' = [status EXCEPT ![e] = "pending"]
  /\ Insert({e})
  /\ WillDrain
  /\ UNCHANGED <<retry, claimAge, applied, queue, broker, pc, held, seen, clock,
                 replays, faults>>

\* drain_queue() in celery mode: everything pending goes to Redis.
Drain ==
  /\ draining > 0
  /\ draining' = draining - 1
  /\ Enqueue(Pending)
  /\ UNCHANGED <<rows, broker, task, replays, faults>>

\* POST /events/drain: the same by hand, at any time.
DrainByHand ==
  /\ Dispatch = "celery"
  /\ Enqueue(Pending)
  /\ UNCHANGED <<rows, broker, draining, task, replays, faults>>

\* claim(): UPDATE ... SET status='processing' WHERE status='pending'.
Claimable_Unconditional(e) == status[e] # "absent"
Claimable(e) == status[e] = "pending"

Claim(w, e) ==
  /\ Claimable(e)
  /\ status'   = [status EXCEPT ![e] = "processing"]
  /\ claimAge' = [claimAge EXCEPT ![e] = 0]
  /\ pc'       = [pc EXCEPT ![w] = "claimed"]
  /\ held'     = [held EXCEPT ![w] = e]
  /\ UNCHANGED <<retry, age, applied, broker, draining, seen, fresh, clock,
                 replays, faults>>

\* process_batch(): a request thread or the poller claims a pending row.
ClaimPolled(w, e) ==
  /\ Dispatch = "inline"
  /\ pc[w] = "idle"
  /\ Claim(w, e)
  /\ UNCHANGED queue

\* process_event(): a Celery worker takes a message and wins the claim.  The
\* message is acknowledged late, but nobody else can receive it meanwhile.
ClaimDelivered(w, e) ==
  /\ Dispatch = "celery"
  /\ pc[w] = "idle"
  /\ queue[e] > 0
  /\ queue' = [queue EXCEPT ![e] = @ - 1]
  /\ Claim(w, e)

\* process_event(): the claim is lost, the task answers "skipped".
SkipDelivered(w, e) ==
  /\ Dispatch = "celery"
  /\ pc[w] = "idle"
  /\ queue[e] > 0
  /\ ~Claimable(e)
  /\ queue' = [queue EXCEPT ![e] = @ - 1]
  /\ UNCHANGED <<rows, broker, draining, task, replays, faults>>

-----------------------------------------------------------------------------
(* process_claimed(): one transaction, then the outcome.                   *)

\* The transaction reads the event, and its handler reads whether the effects
\* are already there (the replay guard looks for a stock movement).
Load(w) ==
  /\ pc[w] = "claimed"
  /\ pc'   = [pc EXCEPT ![w] = "running"]
  /\ seen' = [seen EXCEPT ![w] = [applied |-> applied[held[w]] > 0,
                                  status  |-> status[held[w]]]]
  /\ UNCHANGED <<rows, queue, broker, draining, held, fresh, clock, replays, faults>>

\* After its outcome is written a Celery task still hands the chain over; an
\* inline thread is done with the event.
Finish(w) ==
  IF Dispatch = "celery"
  THEN /\ pc' = [pc EXCEPT ![w] = "handoff"]
       /\ UNCHANGED <<held, seen, clock>>
  ELSE /\ pc'    = [pc EXCEPT ![w] = "idle"]
       /\ held'  = [held EXCEPT ![w] = NoEvent]
       /\ seen'  = [seen EXCEPT ![w] = Nothing]
       /\ clock' = [clock EXCEPT ![w] = 0]

\* The guard holds back a document whose movements the transaction has seen.
Repeats_NoGuard(w) == FALSE
Repeats(w) == held[w] \in Guarded /\ seen[w].applied

\* The commit of process_claimed: the effects, the chained events they publish
\* and the status go out together.  The status is written only if it differs
\* from the one the session loaded.
Commit(w, kids) ==
  LET e == held[w] IN
  /\ pc[w] = "running"
  /\ kids \subseteq Events \ (Published \cup Guarded)
  /\ e \notin Guarded \/ Repeats(w) => kids = {}
  /\ applied' = IF Repeats(w) THEN applied ELSE [applied EXCEPT ![e] = @ + 1]
  /\ status' = [x \in Events |->
                  IF x \in kids THEN "pending"
                  ELSE IF x = e /\ seen[w].status # "done" THEN "done"
                  ELSE status[x]]
  /\ claimAge' = [x \in Events |-> IF status'[x] = "processing" THEN claimAge[x] ELSE 0]
  /\ age' = [x \in Events |-> IF x \in kids THEN 0 ELSE age[x]]
  /\ fresh' = [v \in Workers |->
                 IF Busy(v) /\ (v # w \/ Dispatch = "celery")
                 THEN fresh[v] \cup kids ELSE {}]
  /\ Finish(w)
  /\ UNCHANGED <<retry, queue, broker, draining, replays, faults>>

\* run_workflow_rules raises: the transaction is rolled back.
Raise(w) ==
  /\ pc[w] = "running"
  /\ pc' = [pc EXCEPT ![w] = "failed"]
  /\ UNCHANGED <<rows, queue, broker, draining, held, seen, fresh, clock, replays, faults>>

\* _mark_failed(): a transaction of its own.
AfterFailure_OneMore(n) == IF n > MaxRetries THEN "dead" ELSE "pending"
AfterFailure_Swallowed(n) == "done"
AfterFailure(n) == IF n >= MaxRetries THEN "dead" ELSE "pending"

MarkFailed(w) ==
  LET e == held[w] IN
  /\ pc[w] = "failed"
  /\ retry'    = [retry EXCEPT ![e] = @ + 1]
  /\ status'   = [status EXCEPT ![e] = AfterFailure(retry[e] + 1)]
  /\ claimAge' = [claimAge EXCEPT ![e] = 0]
  /\ Finish(w)
  /\ fresh' = IF Dispatch = "celery" THEN fresh ELSE [fresh EXCEPT ![w] = {}]
  /\ UNCHANGED <<age, applied, queue, broker, draining, replays, faults>>

\* The last step of process_event: what was raised meanwhile goes to Redis, and
\* the message of this event is acknowledged.
Handoff(w) ==
  /\ pc[w] = "handoff"
  /\ Enqueue((fresh[w] \cap Pending) \ {held[w]})
  /\ Release(w)
  /\ UNCHANGED <<rows, broker, draining, replays, faults>>

-----------------------------------------------------------------------------
(* Time and the sweep (celery mode).                                       *)

\* One tick.  A pool that enforces the limit kills a task no later than
\* TaskLimit ticks after it claimed its event.
Tick ==
  /\ Dispatch = "celery"
  /\ LimitEnforced => \A w \in Workers : Busy(w) => clock[w] < TaskLimit
  /\ claimAge' = [e \in Events |->
                    IF status[e] = "processing" THEN Least(claimAge[e] + 1, Abandoned)
                                                ELSE claimAge[e]]
  /\ age' = [e \in Events |->
               IF status[e] = "absent" THEN age[e] ELSE Least(age[e] + 1, Stranded)]
  /\ clock' = [w \in Workers |->
                 IF Busy(w) THEN Least(clock[w] + 1, Abandoned) ELSE clock[w]]
  /\ UNCHANGED <<status, retry, applied, queue, broker, draining, pc, held, seen,
                 fresh, replays, faults>>

\* sweep_outbox(), first transaction: which claims are given up.
Releasable_ByEventAge(e) == status[e] = "processing" /\ age[e] >= Stranded
Releasable_Never(e) == FALSE
Releasable(e) == status[e] = "processing" /\ claimAge[e] >= Abandoned

\* sweep_outbox(): release what a dead worker holds, re-enqueue what is stranded.
Sweep ==
  LET released == {e \in Events : Releasable(e)} IN
  /\ Dispatch = "celery"
  /\ status' = [e \in Events |-> IF e \in released THEN "pending" ELSE status[e]]
  /\ claimAge' = [e \in Events |-> IF e \in released THEN 0 ELSE claimAge[e]]
  /\ Enqueue({e \in Pending \cup released : age[e] >= Stranded})
  /\ UNCHANGED <<retry, age, applied, broker, draining, task, replays, faults>>

-----------------------------------------------------------------------------
(* Faults and the operator.                                                *)

Fault == faults < MaxFaults /\ faults' = faults + 1

\* A worker dies, or is killed at its limit, wherever it is.  Its open
\* transaction is rolled back.  Celery redelivers the message of a lost worker
\* and acknowledges that of a task it killed for exceeding the limit.
WorkerDies(w) ==
  /\ Fault
  /\ Busy(w)
  /\ \/ UNCHANGED queue
     \/ /\ Dispatch = "celery"
        /\ queue' = [queue EXCEPT ![held[w]] = Least(@ + 1, MaxCopies)]
  /\ Release(w)
  /\ UNCHANGED <<rows, broker, draining, replays>>

\* An API process dies between its commit and its drain_queue().
HandlerDies ==
  /\ Fault
  /\ draining > 0
  /\ draining' = draining - 1
  /\ UNCHANGED <<rows, queue, broker, task, replays>>

\* Redis becomes unreachable, and may lose messages it held.
BrokerFails ==
  /\ Fault
  /\ Dispatch = "celery"
  /\ broker = "up"
  /\ broker' = "down"
  /\ \E lost \in SUBSET Events :
       queue' = [e \in Events |-> IF e \in lost THEN 0 ELSE queue[e]]
  /\ UNCHANGED <<rows, draining, task, replays>>

BrokerReturns ==
  /\ broker = "down"
  /\ broker' = "up"
  /\ UNCHANGED <<rows, queue, draining, task, replays, faults>>

\* replay_event(): the handler itself accepts any status; ReplayFrom says when
\* an operator asks (the page offers the button for done and dead rows).
Replay(e) ==
  /\ replays < MaxReplays
  /\ status[e] \in ReplayFrom
  /\ replays'  = replays + 1
  /\ status'   = [status EXCEPT ![e] = "pending"]
  /\ retry'    = [retry EXCEPT ![e] = 0]
  /\ claimAge' = [claimAge EXCEPT ![e] = 0]
  /\ WillDrain
  /\ UNCHANGED <<age, applied, queue, broker, task, faults>>

-----------------------------------------------------------------------------

\* Bound: a document chains at most one event.
Kids == {{}} \cup {{k} : k \in Events}

Next ==
  \/ \E e \in Events : Publish(e)
  \/ Drain
  \/ DrainByHand
  \/ \E w \in Workers, e \in Events : ClaimPolled(w, e)
  \/ \E w \in Workers, e \in Events : ClaimDelivered(w, e)
  \/ \E w \in Workers, e \in Events : SkipDelivered(w, e)
  \/ \E w \in Workers : Load(w)
  \/ \E w \in Workers, kids \in Kids : Commit(w, kids)
  \/ \E w \in Workers : Raise(w)
  \/ \E w \in Workers : MarkFailed(w)
  \/ \E w \in Workers : Handoff(w)
  \/ Tick
  \/ Sweep
  \/ \E w \in Workers : WorkerDies(w)
  \/ HandlerDies
  \/ BrokerFails
  \/ BrokerReturns
  \/ \E e \in Events : Replay(e)

Spec == Init /\ [][Next]_vars

(***************************************************************************)
(* Fairness.  A thread that runs takes its next step; a message in a list  *)
(* of Redis is delivered in its turn to some worker (strong fairness: a    *)
(* worker may be busy whenever the message is there); beat runs the sweep  *)
(* again and again while the broker is up, time passes, and an outage      *)
(* ends.  Nothing is assumed of Drain: the sweep alone must be enough.     *)
(***************************************************************************)
Fairness ==
  /\ \A w \in Workers :
       /\ WF_vars(Load(w))
       /\ WF_vars((\E kids \in Kids : Commit(w, kids)) \/ Raise(w))
       /\ WF_vars(MarkFailed(w))
       /\ WF_vars(Handoff(w))
  /\ \A e \in Events :
       SF_vars(\E w \in Workers : ClaimPolled(w, e) \/ ClaimDelivered(w, e)
                                                    \/ SkipDelivered(w, e))
  /\ WF_vars(Tick)
  /\ WF_vars(broker = "up" /\ Sweep)
  /\ WF_vars(BrokerReturns)

FairSpec == Spec /\ Fairness

-----------------------------------------------------------------------------
(* Properties.                                                             *)

TypeOK ==
  /\ status   \in [Events -> Statuses]
  /\ retry    \in [Events -> Nat]
  /\ claimAge \in [Events -> 0..Abandoned]
  /\ age      \in [Events -> 0..Stranded]
  /\ applied  \in [Events -> Nat]
  /\ queue    \in [Events -> 0..MaxCopies]
  /\ broker   \in {"up", "down"}
  /\ draining \in Nat
  /\ pc       \in [Workers -> {"idle", "claimed", "running", "failed", "handoff"}]
  /\ held     \in [Workers -> Events \cup {NoEvent}]
  /\ \A w \in Workers : held[w] = NoEvent <=> pc[w] = "idle"
  /\ seen     \in [Workers -> [applied : BOOLEAN, status : Statuses]]
  /\ fresh    \in [Workers -> SUBSET Events]
  /\ clock    \in [Workers -> 0..Abandoned]
  /\ replays  \in Nat
  /\ faults   \in Nat

\* The deployment the promises are made for: the pool enforces the time limit,
\* and nobody replays an event that is being processed.
Disciplined ==
  /\ Dispatch = "celery" => LimitEnforced
  /\ "processing" \notin ReplayFrom

\* No event is ever worked on by two workers at once: what claim() and the age
\* of the claim in sweep_outbox() are for.
SingleHolder ==
  \A v, w \in Workers : v # w /\ Holding(v) /\ Holding(w) => held[v] # held[w]

\* The effects of a document with product lines are committed once at most,
\* through crashes, redeliveries, releases and replays.
AppliedAtMostOnce == \A e \in Guarded : applied[e] <= 1

\* A row that says done has had its effects committed, and effects that are
\* committed are not forgotten: until somebody replays it, the row stays done.
DoneMeansApplied ==
  \A e \in Events : /\ status[e] = "done" => applied[e] > 0
                    /\ applied[e] > 0 /\ replays = 0 => status[e] = "done"

\* A failed event goes back to work until its attempts are spent, and no
\* further: the dead letters are the rows with MaxRetries failures.
DeadLetterBound ==
  \A e \in Events : /\ status[e] = "dead" <=> retry[e] >= MaxRetries
                    /\ retry[e] <= MaxRetries

\* A row leaves `processing` only by the hand of the worker that holds it, or by
\* the sweep when no worker does.
NoTheft ==
  [][\A e \in Events :
       status[e] = "processing" /\ status'[e] # "processing" =>
         \/ \E w \in Workers : Holding(w) /\ held[w] = e /\ ~Holding(w)'
         \/ ~\E w \in Workers : Holding(w) /\ held[w] = e]_vars

\* What is settled stays settled, unless an operator replays it: no late
\* worker, retry, redelivery or sweep reopens a done or a dead row.
SettledStays ==
  [][\A e \in Events :
       status[e] \in {"done", "dead"} /\ status'[e] # status[e] =>
         replays' = replays + 1]_vars

\* Every event that was committed with its business write is eventually applied
\* or dead-lettered, whatever dies in between and however often Redis is lost.
EventuallySettled ==
  \A e \in Events : status[e] \in {"pending", "processing"} ~> status[e] \in {"done", "dead"}

-----------------------------------------------------------------------------
(* The outbox implements Delivery.                                         *)

OutcomeOf(e) ==
  IF status[e] = "absent" THEN "none"
  ELSE IF applied[e] > 0 THEN "applied"
  ELSE IF status[e] = "dead" THEN "given up"
  ELSE "owed"

D == INSTANCE Delivery WITH Ids     <- Events,
                            Once    <- Guarded,
                            outcome <- [e \in Events |-> OutcomeOf(e)],
                            effects <- applied

\* Every step of the outbox is a step of Delivery or changes none of its state:
\* in particular an applied event is never owed again, and what Once names is
\* applied by one transaction, together with the events it chains.
ImplementsDelivery == D!DeliverySpec

=============================================================================
