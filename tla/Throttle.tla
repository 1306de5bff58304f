------------------------------- MODULE Throttle -------------------------------
(***************************************************************************)
(* Sign-in and its two limits.                                             *)
(*                                                                         *)
(*   backend/app/core/throttle.py   the limits, derived from attempt rows  *)
(*   backend/app/routers/auth.py    sign_in                                *)
(*   backend/app/models/access.py   LoginAttempt                           *)
(*                                                                         *)
(* sign_in() asks whether an attempt is allowed, then spends its time on   *)
(* the password, then appends the outcome: other attempts are checked and  *)
(* recorded in between.  Time is in ticks; an attempt lives within one.    *)
(***************************************************************************)
EXTENDS Integers, FiniteSetsExt, Functions

CONSTANTS
  Names,         \* emails, with or without an account
  Addresses,     \* client addresses
  Attempts,      \* sign-ins under way at once
  MaxAttempts,   \* settings.login_max_attempts
  LockTicks,     \* settings.login_lock_minutes
  MaxLock, Lookback, Retention,
  WindowTicks,   \* settings.login_window_minutes
  MaxIpAttempts, \* settings.login_max_ip_attempts
  Horizon, MaxRows   \* bounds: the clock, and rows in the table

ASSUME ThrottleAssumption ==
  /\ {MaxAttempts, LockTicks, MaxLock, Lookback, Retention, WindowTicks, MaxIpAttempts} \subseteq Nat \ {0}
  /\ LockTicks <= MaxLock /\ MaxLock <= Lookback /\ WindowTicks <= Retention /\ Lookback <= Retention
  /\ {Horizon, MaxRows} \subseteq Nat
  /\ IsFiniteSet(Attempts)

VARIABLES
  now,
  rows,      \* login_attempts, numbered in the order of created_at
  tried,     \* the number of the last one
  passed,    \* attempts that were let through: who, from where
  employees  \* names whose account has a role that is not locked; it keeps it

throttle == <<now, rows, tried, passed, employees>>

NoAttempt == <<>>

ThrottleInit ==
  /\ now = 0 /\ rows = [i \in {} |-> 0] /\ tried = 0
  /\ passed = [q \in Attempts |-> NoAttempt]
  /\ employees \in SUBSET Names

-----------------------------------------------------------------------------

\* _failure_streak(): failures of the address since its last success, within
\* the lookback; the query's limit of 100 rows is beyond every cap below.
Recent(n) == {i \in DOMAIN rows : rows[i].name = n /\ rows[i].time >= now - Lookback}
Streak(n) == {i \in Recent(n) : \A j \in Recent(n) : j >= i => ~rows[j].ok}

\* _lock_expiry(): every further MaxAttempts failures double the lock.
Least(m, n) == IF m <= n THEN m ELSE n
LockFor(failures) == Least(LockTicks * 2 ^ (failures \div MaxAttempts - 1), MaxLock)
LockedUntil_Late(n) ==
  LET s == Streak(n) IN
  IF Cardinality(s) <= MaxAttempts THEN 0 ELSE rows[Max(s)].time + LockFor(Cardinality(s))
LockedUntil(n) ==
  LET s == Streak(n) IN
  IF Cardinality(s) < MaxAttempts THEN 0 ELSE rows[Max(s)].time + LockFor(Cardinality(s))
Locked(n) == n \notin employees /\ now < LockedUntil(n)

\* _ip_failures(): across every account; an unknown address is not limited.
FailuresFrom(h) == {i \in DOMAIN rows : rows[i].ip = h /\ ~rows[i].ok}
IpFailures(h) == Cardinality({i \in FailuresFrom(h) : rows[i].time >= now - WindowTicks})
IpSpent_Never(h) == FALSE
IpSpent(h) == IpFailures(h) >= MaxIpAttempts

\* check_sign_in_allowed().  A refused attempt is not recorded: it changes nothing.
Allowed(n, h) == ~IpSpent(h) /\ ~Locked(n)

\* What sign_in() holds on to for record_attempt().
Attempt(n, h) == <<n, h>>

Check(q, n, h) ==
  /\ passed[q] = NoAttempt
  /\ Cardinality(DOMAIN rows) < MaxRows
  /\ Allowed(n, h)
  /\ passed' = [passed EXCEPT ![q] = Attempt(n, h)]
  /\ UNCHANGED <<now, rows, tried, employees>>

\* record_attempt(): a success also sweeps rows too old to matter.
Record(q, ok) ==
  LET row   == [name |-> passed[q][1], ip |-> passed[q][2], ok |-> ok, time |-> now]
      added == [i \in DOMAIN rows \cup {tried'} |-> IF i = tried' THEN row ELSE rows[i]] IN
  /\ passed[q] # NoAttempt
  /\ tried' = tried + 1
  /\ rows' = IF ok THEN Restrict(added, {i \in DOMAIN added : added[i].time >= now - Retention})
            ELSE added
  /\ passed' = [passed EXCEPT ![q] = NoAttempt]
  /\ UNCHANGED <<now, employees>>

Tick ==
  /\ now < Horizon
  /\ \A q \in Attempts : passed[q] = NoAttempt
  /\ now' = now + 1
  /\ UNCHANGED <<rows, tried, passed, employees>>

ThrottleNext ==
  \/ \E q \in Attempts, n \in Names, h \in Addresses : Check(q, n, h)
  \/ \E q \in Attempts, ok \in BOOLEAN : Record(q, ok)
  \/ Tick

ThrottleSpec == ThrottleInit /\ [][ThrottleNext]_throttle

-----------------------------------------------------------------------------
(* Properties.                                                             *)

\* What the overlap of attempts can add to a limit.
Slack == Cardinality(Attempts) - 1

\* Nobody gets more than MaxAttempts wrong passwords in a row at an address
\* within the length of a lock, up to those that overlapped: although the lock is
\* a function of rows that leave the lookback, is shorter than the lookback, and
\* doubles from the time of the last failure and not of the lock.
GuessBudget ==
  \A n \in Names \ employees :
    LET R == {i \in DOMAIN rows : rows[i].name = n} IN
    \A i, j \in R :
      /\ Cardinality(R \cap i..j) > MaxAttempts + Slack
      /\ \A k \in R \cap i..j : ~rows[k].ok
      => rows[j].time - rows[i].time >= LockTicks

\* One address cannot spray: over all accounts together, employees included,
\* MaxIpAttempts + 1 failures from it span more than the window, up to those
\* that overlapped.
SprayBudget ==
  \A h \in Addresses : \A i, j \in FailuresFrom(h) :
    Cardinality(FailuresFrom(h) \cap i..j) > MaxIpAttempts + Slack =>
      rows[j].time - rows[i].time > WindowTicks

=============================================================================
