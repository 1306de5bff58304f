------------------------------- MODULE Ledger -------------------------------
(***************************************************************************)
(* The books of one business: stock and its movement rows, the balances of *)
(* customers and suppliers, sales and purchases with what is paid on them. *)
(*                                                                         *)
(*   backend/app/domain/sales.py, purchases.py, payments.py, catalog.py    *)
(*   backend/app/workflow.py   _apply_sale, _apply_purchase                *)
(*                                                                         *)
(* Recording a document only writes its rows and an event; its effects on  *)
(* stock and balance come when the event is applied.  Each action here is  *)
(* one committed transaction.  Money is in hundredths, what round2 leaves. *)
(* An event is pending or done here; Outbox says how it gets from one to   *)
(* the other.                                                              *)
(***************************************************************************)
EXTENDS Integers, FiniteSetsExt

CONSTANTS
  Sales, Purchases, \* pools of document ids
  Products,         \* pool of product ids
  Parties, NoParty, \* pool of customers and suppliers; a walk-in document has none
  Quantities,       \* bound: quantities on a line, and opening stocks
  Totals,           \* bound: totals of documents
  Payments,         \* bound: single payments
  Openings,         \* bound: opening balances
  Corrections,      \* bound: manual stock corrections
  MaxCorrected,     \* bound: net stock brought in by corrections
  MaxReplays        \* bound: replays in a behaviour

Docs == Sales \cup Purchases

ASSUME LedgerAssumption ==
  /\ IsFiniteSet(Sales) /\ IsFiniteSet(Purchases)
  /\ Sales \cap Purchases = {}
  /\ NoParty \notin Parties
  /\ Quantities \subseteq Nat
  /\ Totals \subseteq Nat
  /\ Payments \subseteq Nat \ {0}
  /\ Openings \subseteq Int
  /\ Corrections \subseteq Int \ {0}
  /\ MaxCorrected \in Nat
  /\ MaxReplays \in Nat

VARIABLES
  products, stock,  \* products that exist; products.stock
  adjusted,         \* sum of a product's movement rows with no document
  parties, type,    \* parties that exist; parties.type
  balance,          \* parties.balance
  opening,          \* history: what balance holds that is on no document
  status,           \* of a document, "absent" for an id not yet used
  party, lines, total, paid, payment,
  event,            \* of its creation event; "again" is pending by a replay
  moved,            \* sum of its movement rows per product
  undone,           \* sum of the rows that its cancellation added
  replays,          \* replays so far
  skewed,           \* history: documents whose due amount the balance of their party
                    \* may hold not at all or twice
  rushed            \* history: products that were sold or corrected away while the
                    \* goods of a recorded sale were still in stock

catalog == <<products, adjusted, parties, type>>
written == <<party, lines, total>>  \* of a document, never edited afterwards
vars == <<catalog, stock, balance, opening, status, written, paid, payment, event,
          moved, undone, replays, skewed, rushed>>

NoLines == [p \in Products |-> 0]
Due(d)  == total[d] - paid[d]
Least(m, n) == IF m <= n THEN m ELSE n

-----------------------------------------------------------------------------

Init ==
  /\ products = {}
  /\ stock    = [p \in Products |-> 0]
  /\ adjusted = [p \in Products |-> 0]
  /\ parties  = {}
  /\ type     = [x \in Parties |-> "customer"]
  /\ balance  = [x \in Parties |-> 0]
  /\ opening  = [x \in Parties |-> 0]
  /\ status   = [d \in Docs |-> "absent"]
  /\ party    = [d \in Docs |-> NoParty]
  /\ lines    = [d \in Docs |-> NoLines]
  /\ total    = [d \in Docs |-> 0]
  /\ paid     = [d \in Docs |-> 0]
  /\ payment  = [d \in Docs |-> "unpaid"]
  /\ event    = [d \in Docs |-> "none"]
  /\ moved    = [d \in Docs |-> NoLines]
  /\ undone   = [d \in Docs |-> NoLines]
  /\ replays  = 0
  /\ skewed   = {}
  /\ rushed   = {}

\* payment_status_for() compares floats against total - 0.01: one hundredth
\* below the total the comparison goes either way, as the total rounds.
StatusesFor(p, t) ==
  IF p <= 0 THEN {"unpaid"}
  ELSE IF p >= t THEN {"paid"}
  ELSE IF p = t - 1 THEN {"paid", "partial"}
  ELSE {"partial"}

\* A change to the balance of a document's party, if it still has one.
Credit(x, amount) ==
  balance' = IF x = NoParty THEN balance ELSE [balance EXCEPT ![x] = @ + amount]

\* The stock of a product after a movement.  It may go below zero: nothing in
\* the handlers that call this clamps it.
Shifted_Clamped(p, n) == IF stock[p] + n < 0 THEN 0 ELSE stock[p] + n
Shifted(p, n) == stock[p] + n

-----------------------------------------------------------------------------
(* Documents.                                                              *)

\* The rows of a document and its event, in one transaction.  What is paid at
\* once is capped at the total.
Create(d, x, ls, t, amount) ==
  /\ status[d] = "absent"
  /\ \A p \in Products : ls[p] > 0 => p \in products
  /\ \E s \in StatusesFor(Least(amount, t), t) : payment' = [payment EXCEPT ![d] = s]
  /\ status' = [status EXCEPT ![d] = "completed"]
  /\ party'  = [party EXCEPT ![d] = x]
  /\ lines'  = [lines EXCEPT ![d] = ls]
  /\ total'  = [total EXCEPT ![d] = t]
  /\ paid'   = [paid EXCEPT ![d] = Least(amount, t)]
  /\ event'  = [event EXCEPT ![d] = "pending"]
  /\ UNCHANGED <<catalog, stock, balance, opening, moved, undone, replays, skewed>>

\* Goods of p leave, in quantity n, while others that are sold have not left yet.
Waits(p) == \E s \in Sales : /\ status[s] = "completed" /\ event[s] = "pending"
                             /\ lines[s][p] > 0

Rushed(n) == rushed \cup {p \in Products : n[p] > 0 /\ Waits(p)}

\* create_sale() refuses what the stock does not cover.
Covered_Unchecked(ls) == TRUE
Covered(ls) == \A p \in Products : ls[p] > 0 => ls[p] <= stock[p]

\* assert_party_owned() looks for a party of the business, of whatever type.
CreateSale(s, x, ls, t, amount) ==
  /\ x \in parties \cup {NoParty}
  /\ Covered(ls)
  /\ Create(s, x, ls, t, amount)
  /\ rushed' = Rushed(ls)

CreatePurchase(b, x, ls, t, amount) ==
  /\ x \in parties \cup {NoParty}
  /\ Create(b, x, ls, t, amount)
  /\ UNCHANGED rushed

\* The movement of a document: a sale takes stock out, a purchase brings it in.
Moves(d) == IF d \in Sales THEN [p \in Products |-> 0 - lines[d][p]] ELSE lines[d]

\* The replay guard of _apply_sale and _apply_purchase: rows for this document
\* exist.  They do only if it has product lines, which are never unlinked,
\* because delete_product refuses.
AlreadyMoved_Never(d) == FALSE
AlreadyMoved(d) == \E p \in Products : moved[d][p] # 0

\* A document that was cancelled before its event was applied has no effects.
NoEffects_Forgotten(d) == AlreadyMoved(d)
NoEffects(d) == status[d] = "cancelled" \/ AlreadyMoved(d)

Apply(d) ==
  /\ event[d] \in {"pending", "again"}
  /\ event' = [event EXCEPT ![d] = "done"]
  /\ IF NoEffects(d)
     THEN UNCHANGED <<stock, moved, balance>>
     ELSE /\ stock' = [p \in Products |-> Shifted(p, Moves(d)[p])]
          /\ moved' = [moved EXCEPT ![d] = [p \in Products |-> @[p] + Moves(d)[p]]]
          /\ Credit(party[d], Due(d))
  /\ UNCHANGED <<catalog, opening, status, written, paid, payment, undone, replays,
                 skewed, rushed>>

ApplySale(s)     == s \in Sales /\ Apply(s)
ApplyPurchase(b) == b \in Purchases /\ Apply(b)

\* replay_event() on the creation event of a document.  One without product
\* lines has no rows for the guard to find.
Replay(d) ==
  /\ replays < MaxReplays
  /\ event[d] = "done"
  /\ event'   = [event EXCEPT ![d] = "again"]
  /\ replays' = replays + 1
  /\ skewed'  = IF lines[d] = NoLines THEN skewed \cup {d} ELSE skewed
  /\ UNCHANGED <<catalog, stock, balance, opening, status, written, paid, payment,
                 moved, undone, rushed>>

\* A due amount that changes before the event adds what is left of it.
Skewed(d, amount) == IF event[d] = "pending" /\ amount # 0 THEN skewed \cup {d} ELSE skewed

\* cancel_sale(), cancel_purchase(): take back the rows that exist, and the due
\* amount whether or not it was ever added.
Reversal_Total(d) == total[d]
Reversal(d) == Due(d)

Cancel(d) ==
  /\ status[d] = "completed"
  /\ status' = [status EXCEPT ![d] = "cancelled"]
  /\ stock'  = [p \in Products |-> Shifted(p, 0 - moved[d][p])]
  /\ undone' = [undone EXCEPT ![d] = [p \in Products |-> @[p] - moved[d][p]]]
  /\ Credit(party[d], 0 - Reversal(d))
  /\ skewed' = Skewed(d, Reversal(d))
  /\ UNCHANGED <<catalog, opening, written, paid, payment, event, moved, replays, rushed>>

CancelSale(s)     == s \in Sales /\ Cancel(s)
CancelPurchase(b) == b \in Purchases /\ Cancel(b)

-----------------------------------------------------------------------------
(* Payments.                                                               *)

\* record_payment(): never beyond the total, and snapped to it when the status
\* says paid, so that the balance gets the same amount as the document.
PaidAfter(d, amount) == Least(paid[d] + amount, total[d])

RecordPayment(d, amount) ==
  /\ status[d] = "completed"
  /\ \E s \in StatusesFor(PaidAfter(d, amount), total[d]) :
       LET now == IF s = "paid" THEN total[d] ELSE PaidAfter(d, amount) IN
       /\ paid'    = [paid EXCEPT ![d] = now]
       /\ payment' = [payment EXCEPT ![d] = s]
       /\ Credit(party[d], paid[d] - now)
       /\ skewed'  = Skewed(d, paid[d] - now)
  /\ UNCHANGED <<catalog, stock, opening, status, written, event, moved, undone, replays,
                 rushed>>

\* The live documents among D that still have a due amount are paid in full.
Open_UnpaidOnly(d) == status[d] = "completed" /\ payment[d] = "unpaid"
Open(d) == status[d] = "completed" /\ Due(d) > 0

SettleDocs(D) ==
  /\ paid'    = [d \in Docs |-> IF d \in D /\ Open(d) THEN total[d] ELSE paid[d]]
  /\ payment' = [d \in Docs |-> IF d \in D /\ Open(d) THEN "paid" ELSE payment[d]]

\* Applied documents that a settlement of D pays without clearing their party,
\* or whose party, in X, it clears without paying them.
Strays(D, X) ==
  {d \in Docs : /\ status[d] = "completed" /\ event[d] \in {"done", "again"}
                /\ Due(d) > 0 /\ party[d] # NoParty
                /\ (d \in D) # (party[d] \in X)}

\* What a party of type t owes or is owed on.
DocsOf(t) == IF t = "supplier" THEN Purchases ELSE Sales

\* settle_party(): the documents its present type says, then the whole balance.
DocsOfParty(x) == {d \in DocsOf(type[x]) : party[d] = x}

SettleParty(x) ==
  /\ x \in parties
  /\ SettleDocs(DocsOfParty(x))
  /\ balance' = [balance EXCEPT ![x] = 0]
  /\ opening' = [opening EXCEPT ![x] = 0]
  /\ skewed'  = skewed \cup Strays(DocsOfParty(x), {x})
  /\ UNCHANGED <<catalog, stock, status, written, event, moved, undone, replays, rushed>>

\* settle_all_outstanding(): walk-in documents too.
Cleared(x, t) == x \in parties /\ type[x] = t

SettleAll(t) ==
  /\ SettleDocs(DocsOf(t))
  /\ balance' = [x \in Parties |-> IF Cleared(x, t) THEN 0 ELSE balance[x]]
  /\ opening' = [x \in Parties |-> IF Cleared(x, t) THEN 0 ELSE opening[x]]
  /\ skewed'  = skewed \cup Strays(DocsOf(t), {x \in parties : type[x] = t})
  /\ UNCHANGED <<catalog, stock, status, written, event, moved, undone, replays, rushed>>

-----------------------------------------------------------------------------
(* The catalogue.                                                          *)

CreateProduct(p, n) ==
  /\ p \notin products
  /\ products' = products \cup {p}
  /\ stock'    = [stock EXCEPT ![p] = n]
  /\ adjusted' = [adjusted EXCEPT ![p] = n]
  /\ UNCHANGED <<parties, type, balance, opening, status, written, paid, payment,
                 event, moved, undone, replays, skewed, rushed>>

\* adjust_stock() never takes a product below zero.
Correctable(p, n) == stock[p] + n >= 0

AdjustStock(p, n) ==
  /\ p \in products
  /\ adjusted[p] + n \in (0 - MaxCorrected)..MaxCorrected
  /\ Correctable(p, n)
  /\ stock'    = [stock EXCEPT ![p] = Shifted(p, n)]
  /\ adjusted' = [adjusted EXCEPT ![p] = @ + n]
  /\ rushed'   = Rushed([NoLines EXCEPT ![p] = 0 - n])
  /\ UNCHANGED <<products, parties, type, balance, opening, status, written, paid,
                 payment, event, moved, undone, replays, skewed>>

\* delete_product() refuses a product that is on any document; the movement
\* rows of the others go with them.
Deletable(p) == \A d \in Docs : lines[d][p] = 0

DeleteProduct(p) ==
  /\ p \in products
  /\ Deletable(p)
  /\ products' = products \ {p}
  /\ stock'    = [stock EXCEPT ![p] = 0]
  /\ adjusted' = [adjusted EXCEPT ![p] = 0]
  /\ moved'    = [d \in Docs |-> [moved[d] EXCEPT ![p] = 0]]
  /\ undone'   = [d \in Docs |-> [undone[d] EXCEPT ![p] = 0]]
  /\ rushed'   = rushed \ {p}
  /\ UNCHANGED <<parties, type, balance, opening, status, written, paid, payment,
                 event, replays, skewed>>

CreateParty(x, t, b) ==
  /\ x \notin parties
  /\ parties' = parties \cup {x}
  /\ type'    = [type EXCEPT ![x] = t]
  /\ balance' = [balance EXCEPT ![x] = b]
  /\ opening' = [opening EXCEPT ![x] = b]
  /\ UNCHANGED <<products, adjusted, stock, status, written, paid, payment, event,
                 moved, undone, replays, skewed, rushed>>

\* update_party() writes whatever type the form sends; it leaves the balance and
\* the documents.
UpdateParty(x, t) ==
  /\ x \in parties
  /\ type' = [type EXCEPT ![x] = t]
  /\ UNCHANGED <<products, adjusted, parties, stock, balance, opening, status, written,
                 paid, payment, event, moved, undone, replays, skewed, rushed>>

\* delete_party(): the documents lose their party (ON DELETE SET NULL).
Unlinked_Never(x) == party
Unlinked(x) == [d \in Docs |-> IF party[d] = x THEN NoParty ELSE party[d]]

DeleteParty(x) ==
  /\ x \in parties
  /\ parties' = parties \ {x}
  /\ type'    = [type EXCEPT ![x] = "customer"]
  /\ balance' = [balance EXCEPT ![x] = 0]
  /\ opening' = [opening EXCEPT ![x] = 0]
  /\ party'   = Unlinked(x)
  /\ UNCHANGED <<products, adjusted, stock, status, lines, total, paid, payment,
                 event, moved, undone, replays, skewed, rushed>>

-----------------------------------------------------------------------------

Types == {"customer", "supplier"}
Baskets == [Products -> Quantities \cup {0}]
PaidAtOnce == Payments \cup {0}

Next ==
  \/ \E s \in Sales, x \in Parties \cup {NoParty}, ls \in Baskets, t \in Totals,
        amount \in PaidAtOnce : CreateSale(s, x, ls, t, amount)
  \/ \E b \in Purchases, x \in Parties \cup {NoParty}, ls \in Baskets, t \in Totals,
        amount \in PaidAtOnce : CreatePurchase(b, x, ls, t, amount)
  \/ \E d \in Docs : ApplySale(d)
  \/ \E d \in Docs : ApplyPurchase(d)
  \/ \E d \in Docs : Replay(d)
  \/ \E d \in Docs : CancelSale(d)
  \/ \E d \in Docs : CancelPurchase(d)
  \/ \E d \in Docs, amount \in Payments : RecordPayment(d, amount)
  \/ \E x \in Parties : SettleParty(x)
  \/ \E t \in Types : SettleAll(t)
  \/ \E p \in Products, n \in Quantities : CreateProduct(p, n)
  \/ \E p \in Products, n \in Corrections : AdjustStock(p, n)
  \/ \E p \in Products : DeleteProduct(p)
  \/ \E x \in Parties, t \in Types, b \in Openings : CreateParty(x, t, b)
  \/ \E x \in Parties, t \in Types : UpdateParty(x, t)
  \/ \E x \in Parties : DeleteParty(x)

Spec == Init /\ [][Next]_vars

-----------------------------------------------------------------------------
(* Properties.                                                             *)

TypeOK ==
  /\ products \subseteq Products
  /\ parties \subseteq Parties
  /\ stock    \in [Products -> Int]
  /\ adjusted \in [Products -> Int]
  /\ type     \in [Parties -> Types]
  /\ balance  \in [Parties -> Int]
  /\ opening  \in [Parties -> Int]
  /\ status   \in [Docs -> {"absent", "completed", "cancelled"}]
  /\ party    \in [Docs -> parties \cup {NoParty}]
  /\ lines    \in [Docs -> [Products -> Nat]]
  /\ total    \in [Docs -> Nat]
  /\ paid     \in [Docs -> Nat]
  /\ payment  \in [Docs -> {"unpaid", "partial", "paid"}]
  /\ event    \in [Docs -> {"none", "pending", "done", "again"}]
  /\ \A d \in Docs : event[d] = "none" <=> status[d] = "absent"
  /\ moved    \in [Docs -> [Products -> Int]]
  /\ undone   \in [Docs -> [Products -> Int]]
  /\ replays  \in Nat
  /\ skewed \subseteq Docs /\ rushed \subseteq Products

\* A document moves stock by exactly its lines or not at all, and a cancelled
\* one has given back what it moved, however creation, application, replays and
\* the cancellation are ordered.
MovesAreWhole ==
  \A d \in Docs :
    /\ moved[d] \in {NoLines, Moves(d)}
    /\ undone[d] = IF status[d] = "cancelled" THEN [p \in Products |-> 0 - moved[d][p]]
                                              ELSE NoLines

\* What a document says of its payment agrees with the amount: never negative,
\* never beyond the total, and labelled as payment_status_for() would.
PaymentAgrees ==
  \A d \in Docs : /\ paid[d] \in 0..total[d]
                  /\ payment[d] \in StatusesFor(paid[d], total[d])

\* The movement rows of a product, per document.
Rows(p) == [d \in Docs |-> moved[d][p] + undone[d][p]]

\* products.stock is the sum of the product's movement rows: the history page
\* explains the number on the product page.
StockIsLedger == \A p \in products : stock[p] = adjusted[p] + SumFunction(Rows(p))

\* The live documents of x whose effects have been applied.
Booked(x) == {d \in Docs : party[d] = x /\ status[d] = "completed"
                                        /\ event[d] \in {"done", "again"}}

Dues(x) == [d \in Docs |-> IF d \in Booked(x) THEN Due(d) ELSE 0]

\* The balance of a party is what its documents leave due, and its opening
\* balance until that is settled: the list of unpaid bills under a balance on
\* the parties page explains it.  Nothing spoils that but a document paid or
\* cancelled before its event, one without product lines that is replayed, and
\* one of the kind that a settlement of its party, or of its kind, passes over: a
\* purchase from what is a customer, a sale to what is a supplier.
BalanceIsDues ==
  \A x \in parties : \/ balance[x] = opening[x] + SumFunction(Dues(x))
                     \/ \E d \in skewed : party[d] = x

TakenBack(p) == [b \in Purchases |-> undone[b][p]]

\* Stock is never below zero by more than what cancelled receipts have taken
\* back: neither a sale, a correction, a late event nor a replay oversells,
\* unless the check of a sale or a correction has counted goods that a recorded
\* sale was still to take.
NoOversell ==
  \A p \in products \ rushed : stock[p] >= SumFunction(TakenBack(p))

\* A cancelled document stays cancelled, and neither a payment, a settlement,
\* a late event nor a replay moves money or stock for it again.
CancelledIsFinal ==
  [][\A d \in Docs : status[d] = "cancelled" =>
       UNCHANGED <<status[d], paid[d], payment[d], moved[d], undone[d]>>]_vars

\* Money recorded on a document is never taken off it.
PaidNeverFalls == [][\A d \in Docs : paid'[d] >= paid[d]]_vars

=============================================================================
