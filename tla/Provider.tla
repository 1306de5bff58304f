------------------------------- MODULE Provider -------------------------------
(***************************************************************************)
(* The AI provider and its circuit breaker.                                *)
(*                                                                         *)
(*   backend/app/ai/client.py                                              *)
(*                                                                         *)
(* Requests and mail collection call the provider from several threads of  *)
(* a process.  A call that hangs ends at its timeout, whenever that is; the*)
(* lock covers the counter and not the call.  Time is in ticks.            *)
(***************************************************************************)
EXTENDS Integers, Sequences, FiniteSets

CONSTANTS
  Callers,          \* threads that call
  BreakerFailures,  \* _BREAKER_FAILURES
  Cooldown,         \* _BREAKER_COOLDOWN
  MaxTime, MaxWaits \* bounds: the clock, and failed calls in a row

ASSUME ProviderAssumption ==
  /\ {BreakerFailures, Cooldown} \subseteq Nat \ {0}
  /\ {MaxTime, MaxWaits} \subseteq Nat
  /\ IsFiniteSet(Callers)

VARIABLES
  time,
  consecutiveFailures, skipUntil,
  calling,  \* callers whose call is out
  waits     \* history: when the calls failed, since the last one that succeeded

provider == <<time, consecutiveFailures, skipUntil, calling, waits>>

ProviderInit == /\ time = 0 /\ consecutiveFailures = 0 /\ skipUntil = 0
                /\ calling = {} /\ waits = <<>>

BreakerIsOpen == time < skipUntil

\* complete(): a caller that finds the breaker open is refused at once.
Call(c) ==
  /\ c \notin calling
  /\ ~BreakerIsOpen
  /\ calling' = calling \cup {c}
  /\ UNCHANGED <<time, consecutiveFailures, skipUntil, waits>>

Succeed(c) ==
  /\ c \in calling
  /\ calling' = calling \ {c}
  /\ consecutiveFailures' = 0
  /\ skipUntil' = 0
  /\ waits' = <<>>
  /\ UNCHANGED time

\* _record_failure(): the count goes on through a cooldown, so that one more
\* failure after it is enough.
SkipAfter_Late(failures) == IF failures > BreakerFailures THEN time + Cooldown ELSE skipUntil
SkipAfter(failures) == IF failures >= BreakerFailures THEN time + Cooldown ELSE skipUntil

Break(c) ==
  /\ c \in calling
  /\ Len(waits) < MaxWaits
  /\ calling' = calling \ {c}
  /\ consecutiveFailures' = consecutiveFailures + 1
  /\ skipUntil' = SkipAfter(consecutiveFailures + 1)
  /\ waits' = Append(waits, time)
  /\ UNCHANGED time

Wait ==
  /\ time < MaxTime
  /\ time' = time + 1
  /\ UNCHANGED <<consecutiveFailures, skipUntil, calling, waits>>

ProviderNext ==
  \/ \E c \in Callers : Call(c)
  \/ \E c \in Callers : Succeed(c)
  \/ \E c \in Callers : Break(c)
  \/ Wait

ProviderSpec == ProviderInit /\ [][ProviderNext]_provider

-----------------------------------------------------------------------------

ProviderTypeOK ==
  /\ time \in Nat /\ consecutiveFailures \in Nat /\ skipUntil \in Nat
  /\ calling \subseteq Callers
  /\ waits \in Seq(Nat)

\* A provider that is down is not waited for over and over: between two
\* successes, no more than BreakerFailures calls fail within a cooldown, plus the
\* calls that were out when the breaker opened - however late those fail, and
\* however often it opens again.
WaitBudget ==
  LET k == BreakerFailures + Cardinality(Callers) - 1 IN
  \A i \in DOMAIN waits : i + k \in DOMAIN waits => waits[i + k] - waits[i] >= Cooldown

=============================================================================
