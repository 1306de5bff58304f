-------------------------------- MODULE Overlap --------------------------------
(***************************************************************************)
(* The books of Ledger under transactions that overlap.                    *)
(*                                                                         *)
(*   backend/app/workflow.py          _apply_sale, _apply_purchase         *)
(*   backend/app/domain/*.py          cancelling, payments, corrections    *)
(*   backend/app/core/db.py           the session                          *)
(*                                                                         *)
(* A handler reads rows one query after the other, each as committed by    *)
(* then: a document and then the products and the party it is about, or,   *)
(* to settle, the party and then its documents.  The session keeps the new *)
(* values and writes them at the commit, where they differ from what was   *)
(* read.  No row is locked in between.  Movement rows are inserted with the*)
(* commit, whatever others have read.  The documents have been recorded,   *)
(* and the catalogue stays as it is.                                       *)
(***************************************************************************)
EXTENDS Ledger

CONSTANTS
  Jobs,       \* handlers under way at once: requests and workers
  Recorded,   \* documents as they are written: [party, lines, total, paid]
  MaxTaken    \* bound: handlers in a behaviour

ASSUME OverlapAssumption ==
  /\ MaxTaken \in Nat
  /\ Recorded \subseteq [party : Parties \cup {NoParty}, lines : [Products -> Nat],
                         total : Nat, paid : Nat]
  /\ \A r \in Recorded : r.paid <= r.total

VARIABLES
  job,        \* what each handler has read and is going to write
  torn,       \* history: rows that were written under a handler that had read them
  taken       \* handlers so far

overlap == <<job, torn, taken>>

Idle == [op |-> "none", reads |-> {}]

\* Documents have been recorded and their events are pending; the histories begin
\* here.
OverlapInit ==
  /\ products = Products /\ parties = Parties
  /\ adjusted \in [Products -> Quantities] /\ stock = adjusted
  /\ type \in [Parties -> {"customer", "supplier"}]
  /\ opening \in [Parties -> Openings] /\ balance = opening
  /\ \E row \in [Docs -> Recorded] :
       /\ party = [d \in Docs |-> row[d].party]
       /\ lines = [d \in Docs |-> row[d].lines]
       /\ total = [d \in Docs |-> row[d].total]
       /\ paid  = [d \in Docs |-> row[d].paid]
  /\ payment \in [Docs -> {"unpaid", "partial", "paid"}]
  /\ \A d \in Docs : payment[d] \in StatusesFor(paid[d], total[d])
  /\ status = [d \in Docs |-> "completed"] /\ event = [d \in Docs |-> "pending"]
  /\ moved = [d \in Docs |-> NoLines] /\ undone = [d \in Docs |-> NoLines]
  /\ replays = 0 /\ skewed = {} /\ rushed = {}
  /\ job = [j \in Jobs |-> Idle]
  /\ torn = {} /\ taken = 0

\* A session writes a column where its value is no longer what it was.
Nothing == [x \in {} |-> 0]
Changed(x, was, now) == IF now = was THEN Nothing ELSE [y \in {x} |-> now]

\* A handler that has read `rows', will insert movement rows of `shift', will
\* change the balance of party x by `credit', what is paid on documents to `pay'
\* and their payment status to `label'.
Work(op, about, x, shift, credit, pay, label, rows) ==
  [op |-> op, step |-> "opened", about |-> about, party |-> x, shift |-> shift,
   credit |-> credit, pay |-> pay, label |-> label, shelf |-> Nothing, purse |-> Nothing,
   reads |-> rows]

Take(j, work) == /\ job[j] = Idle
                 /\ taken < MaxTaken
                 /\ taken' = taken + 1
                 /\ job' = [job EXCEPT ![j] = work]
                 /\ UNCHANGED <<vars, torn>>

-----------------------------------------------------------------------------
(* The first query, and what follows from it.                              *)

\* One worker holds an event.
TakeEvent(j, d) ==
  /\ event[d] \in {"pending", "again"}
  /\ \A k \in Jobs : job[k] # Idle => ~(job[k].op = "apply" /\ job[k].about = d)
  /\ Take(j, IF NoEffects(d) THEN Work("apply", d, NoParty, NoLines, 0, Nothing, Nothing, {d})
                             ELSE Work("apply", d, party[d], Moves(d), Due(d), Nothing, Nothing, {d}))

\* The movements that exist, and the due amount that may never have been added.
Returned_Lines(d) == [p \in Products |-> 0 - Moves(d)[p]]
Returned(d) == [p \in Products |-> 0 - moved[d][p]]

TakeCancel(j, d) ==
  /\ status[d] = "completed"
  /\ Take(j, Work("cancel", d, party[d], Returned(d), 0 - Reversal(d), Nothing, Nothing, {d}))

TakePayment(j, d, amount) ==
  /\ status[d] = "completed"
  /\ \E s \in StatusesFor(PaidAfter(d, amount), total[d]) :
       LET now == IF s = "paid" THEN total[d] ELSE PaidAfter(d, amount) IN
       Take(j, Work("pay", d, party[d], NoLines, paid[d] - now, Changed(d, paid[d], now),
                    Changed(d, payment[d], s), {d}))

TakeParty(j, x) ==
  /\ x \in parties
  /\ Take(j, [Work("settle", x, x, NoLines, 0, Nothing, Nothing, {x}) EXCEPT
                !.purse = Changed(x, balance[x], 0)])

TakeCorrection(j, p, n) ==
  /\ p \in products
  /\ adjusted[p] + n \in (0 - MaxCorrected)..MaxCorrected
  /\ Correctable(p, n)
  /\ Take(j, [Work("adjust", p, NoParty, [NoLines EXCEPT ![p] = n], 0, Nothing, Nothing, {p}) EXCEPT
                !.step = "ready", !.shelf = [q \in {p} |-> stock[p] + n]])

-----------------------------------------------------------------------------
(* The others.                                                             *)

\* The products and the party, for the new values.
Fetch(j) ==
  LET touched == {p \in Products : job[j].shift[p] # 0}
      owing   == IF job[j].credit = 0 THEN {} ELSE {job[j].party} \ {NoParty} IN
  /\ job[j].op \in {"apply", "cancel", "pay"} /\ job[j].step = "opened"
  /\ job' = [job EXCEPT ![j].step = "ready",
               ![j].shelf = [p \in touched |-> Shifted(p, job[j].shift[p])],
               ![j].purse = [x \in owing |-> balance[x] + job[j].credit],
               ![j].reads = @ \cup touched \cup owing]
  /\ UNCHANGED <<vars, torn, taken>>

\* The label of what is settled is written where it is not that already.
Relabelled_Unpaid(D) == [d \in {e \in D : payment[e] = "unpaid"} |-> "paid"]
Relabelled(D) == [d \in {e \in D : payment[e] # "paid"} |-> "paid"]

\* settle_party(): the documents that its type says.
FetchDocs(j) ==
  LET x == job[j].about
      D == {d \in DocsOfParty(x) : status[d] = "completed"}
      due == {d \in D : Open(d)} IN
  /\ job[j].op = "settle" /\ job[j].step = "opened"
  /\ job' = [job EXCEPT ![j].step = "ready",
               ![j].pay = [d \in due |-> total[d]],
               ![j].label = Relabelled(due),
               ![j].reads = @ \cup D]
  /\ UNCHANGED <<vars, torn, taken>>

-----------------------------------------------------------------------------
(* The commit.                                                             *)

\* What the commit writes.  Movement rows belong to their document.
Writes(w) == DOMAIN w.shelf \cup DOMAIN w.purse \cup DOMAIN w.pay \cup DOMAIN w.label
               \cup (IF w.op = "cancel" \/ (w.op = "apply" /\ w.shift # NoLines)
                     THEN {w.about} ELSE {})

Inserted(rows, d, shift) == [rows EXCEPT ![d] = [p \in Products |-> @[p] + shift[p]]]

Commit(j) ==
  LET w == job[j]
      d == w.about IN
  /\ w # Idle /\ w.step = "ready"
  /\ stock'   = [p \in Products |-> IF p \in DOMAIN w.shelf THEN w.shelf[p] ELSE stock[p]]
  /\ balance' = [x \in Parties |-> IF x \in DOMAIN w.purse THEN w.purse[x] ELSE balance[x]]
  /\ paid'    = [e \in Docs |-> IF e \in DOMAIN w.pay THEN w.pay[e] ELSE paid[e]]
  /\ payment' = [e \in Docs |-> IF e \in DOMAIN w.label THEN w.label[e] ELSE payment[e]]
  /\ status'  = IF w.op = "cancel" THEN [status EXCEPT ![d] = "cancelled"] ELSE status
  /\ event'   = IF w.op = "apply" THEN [event EXCEPT ![d] = "done"] ELSE event
  /\ moved'   = IF w.op = "apply" THEN Inserted(moved, d, w.shift) ELSE moved
  /\ undone'  = IF w.op = "cancel" THEN Inserted(undone, d, w.shift) ELSE undone
  /\ adjusted' = IF w.op = "adjust" THEN [adjusted EXCEPT ![d] = @ + w.shift[d]] ELSE adjusted
  /\ opening' = IF w.op = "settle" THEN [opening EXCEPT ![d] = 0] ELSE opening
  /\ torn'    = torn \cup (Writes(w) \cap UNION {job[k].reads : k \in Jobs \ {j}})
  /\ skewed'  = CASE w.op \in {"pay", "cancel"} -> Skewed(d, w.credit)
                  [] w.op = "settle" -> skewed \cup Strays(DocsOfParty(d), {d})
                  [] OTHER -> skewed
  /\ rushed'  = IF w.op = "adjust" THEN Rushed([p \in Products |-> 0 - w.shift[p]]) ELSE rushed
  /\ job'     = [job EXCEPT ![j] = Idle]
  /\ UNCHANGED <<products, parties, type, written, replays, taken>>

\* Only the row of the event.
ReplayOne(d) == Replay(d) /\ UNCHANGED overlap

OverlapNext ==
  \/ \E d \in Docs : ReplayOne(d)
  \/ \E j \in Jobs, d \in Docs : TakeEvent(j, d)
  \/ \E j \in Jobs, d \in Docs : TakeCancel(j, d)
  \/ \E j \in Jobs, d \in Docs, amount \in Payments : TakePayment(j, d, amount)
  \/ \E j \in Jobs, x \in Parties : TakeParty(j, x)
  \/ \E j \in Jobs, p \in Products, n \in Corrections : TakeCorrection(j, p, n)
  \/ \E j \in Jobs : Fetch(j)
  \/ \E j \in Jobs : FetchDocs(j)
  \/ \E j \in Jobs : Commit(j)

OverlapSpec == OverlapInit /\ [][OverlapNext]_<<vars, overlap>>

-----------------------------------------------------------------------------
(* Properties.                                                             *)

\* Transactions may overlap as long as none writes a row that another has read
\* and not yet finished with: then the history of a product explains its stock -
\* also if a document is cancelled while its event is applied, or twice at once,
\* for then rows and stock are off alike - and any other document has moved its
\* lines whole or not at all, and taken them back when cancelled.
StockExplained ==
  /\ \A p \in products \ torn : stock[p] = adjusted[p] + SumFunction(Rows(p))
  /\ \A d \in Docs \ torn :
       /\ moved[d] \in {NoLines, Moves(d)}
       /\ undone[d] = IF status[d] = "cancelled" THEN [p \in Products |-> 0 - moved[d][p]]
                                                 ELSE NoLines

\* Likewise for money: the balance of a party is explained by its documents,
\* unless its row or one of theirs was written under a handler that had read it,
\* or one is a document that whole transactions book wrongly too.
BalanceExplained ==
  \A x \in parties \ torn :
    \/ balance[x] = opening[x] + SumFunction(Dues(x))
    \/ \E d \in torn \cup skewed : d \in Docs /\ party[d] = x

\* Likewise for payments: no more is paid than the total, and the label of a
\* document agrees with it, unless the row was written under a handler that had
\* read it - then the amount may be one handler's and the label another's, and
\* a document that is called paid may still be owed for.
LabelsAgree ==
  \A d \in Docs :
    /\ paid[d] \in 0..total[d]
    /\ d \in torn \/ payment[d] \in StatusesFor(paid[d], total[d])

=============================================================================
