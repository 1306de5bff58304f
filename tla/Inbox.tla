-------------------------------- MODULE Inbox --------------------------------
(***************************************************************************)
(* The review queue: messages that arrived from outside and what the       *)
(* people who review them make of them.                                    *)
(*                                                                         *)
(*   backend/app/routers/inbox.py    accept, reject, remove, clear_handled *)
(*   backend/app/smart_input.py      publish_draft                         *)
(*   backend/app/models/inbound.py   InboundMessage                        *)
(*                                                                         *)
(* The rows are put there by the collectors of Inbound, which composes the *)
(* actions below into a specification.  A reviewer is a request under way. *)
(* accept() is two transactions: the domain layer commits the document     *)
(* that it creates, and with that commit the lock on the row is gone; only *)
(* then does accept() write the new status and commit again.               *)
(***************************************************************************)
EXTENDS Integers, FiniteSets

CONSTANTS
  Businesses,
  Mails,      \* pool of emails
  MaxUpdates, \* bound: updates that Telegram sends
  Reviewers,  \* requests that decide on messages
  Nowhere     \* where a reviewer is who is between no two transactions

Updates  == 1..MaxUpdates
Messages == Mails \cup Updates
Rows     == Businesses \X Messages
Statuses == {"absent", "pending", "failed", "accepted", "rejected"}

ASSUME InboxAssumption ==
  /\ MaxUpdates \in Nat
  /\ Mails \cap Updates = {}
  /\ Nowhere \notin Rows

VARIABLES
  row,     \* inbound_messages.status; "absent" is no row
  docs,    \* documents recorded from the row
  gone,    \* history: rows that somebody deleted
  cut,     \* history: rows of which an accept was cut short
  at       \* the row on which a reviewer is between two transactions

inbox == <<row, docs, gone, cut, at>>

InboxInit ==
  /\ row  = [m \in Rows |-> "absent"]
  /\ docs = [m \in Rows |-> 0]
  /\ gone = {}
  /\ cut  = {}
  /\ at   = [r \in Reviewers |-> Nowhere]

\* _pending_or_404() lets a message through that is not dealt with yet; one
\* that could not be read may still be recorded from a corrected draft.
Undecided_Any(m) == row[m] # "absent"
Undecided(m) == row[m] \in {"pending", "failed"}

\* The unique constraint: a second row for a message is rolled back.
Queue(m, s) ==
  /\ row'  = IF row[m] = "absent" THEN [row EXCEPT ![m] = s] ELSE row
  /\ UNCHANGED <<docs, gone, cut, at>>

-----------------------------------------------------------------------------

\* The first transaction of accept(): the check under the lock, and the
\* document.  A draft the domain layer refuses changes nothing.
Record_RefusedToo(r, m) ==
  /\ at[r] = Nowhere
  /\ Undecided(m)
  /\ docs' \in {docs, [docs EXCEPT ![m] = @ + 1]}
  /\ at' = [at EXCEPT ![r] = m]
  /\ UNCHANGED <<row, gone, cut>>

Record(r, m) ==
  /\ at[r] = Nowhere
  /\ Undecided(m)
  /\ docs' = [docs EXCEPT ![m] = @ + 1]
  /\ at'   = [at EXCEPT ![r] = m]
  /\ UNCHANGED <<row, gone, cut>>

\* The second one: the status, written without another look at the row.
MarkAccepted(r) ==
  /\ at[r] # Nowhere
  /\ row' = [row EXCEPT ![at[r]] = "accepted"]
  /\ at'  = [at EXCEPT ![r] = Nowhere]
  /\ UNCHANGED <<docs, gone, cut>>

\* The process of a reviewer dies in between.
Interrupt(r) ==
  /\ at[r] # Nowhere
  /\ at'  = [at EXCEPT ![r] = Nowhere]
  /\ cut' = cut \cup {at[r]}
  /\ UNCHANGED <<row, docs, gone>>

Reject(r, m) ==
  /\ at[r] = Nowhere
  /\ Undecided(m)
  /\ row' = [row EXCEPT ![m] = "rejected"]
  /\ UNCHANGED <<docs, gone, cut, at>>

\* Rows are deleted under whoever is about to write to them: the update of
\* MarkAccepted then finds no row and the request fails.
Delete(D) ==
  /\ row'  = [m \in Rows |-> IF m \in D THEN "absent" ELSE row[m]]
  /\ docs' = [m \in Rows |-> IF m \in D THEN 0 ELSE docs[m]]
  /\ gone' = gone \cup D
  /\ at'   = [r \in Reviewers |-> IF at[r] \in D THEN Nowhere ELSE at[r]]
  /\ UNCHANGED cut

Remove(m) == row[m] # "absent" /\ Delete({m})

Cleared(b) == {m \in Rows : m[1] = b /\ row[m] \in {"accepted", "rejected"}}
ClearHandled(b) == Cleared(b) # {} /\ Delete(Cleared(b))

-----------------------------------------------------------------------------

InboxTypeOK ==
  /\ row \in [Rows -> Statuses]
  /\ docs \in [Rows -> Nat]
  /\ gone \subseteq Rows
  /\ cut \subseteq Rows
  /\ at \in [Reviewers -> Rows \cup {Nowhere}]

=============================================================================
