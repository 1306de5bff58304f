---------------------------- MODULE LedgerProofs ----------------------------
(***************************************************************************)
(* Proofs about Ledger, for every pool of documents, products and parties, *)
(* and for every interleaving of operations, pending events and replays.   *)
(***************************************************************************)
EXTENDS Ledger, SetLemmas

-----------------------------------------------------------------------------
(***************************************************************************)
(* What has no effects yet has none: MovesAreWhole and PaidNeverFalls rest *)
(* on the id of a new document having no rows and no money.                *)
(***************************************************************************)
AbsentIsBlank ==
  \A d \in Docs : status[d] = "absent" =>
    moved[d] = NoLines /\ undone[d] = NoLines /\ paid[d] = 0

DocInv == TypeOK /\ MovesAreWhole /\ PaymentAgrees /\ AbsentIsBlank

-----------------------------------------------------------------------------
(* Helpers.                                                                *)

\* The movement of a document is a function of the products.
LEMMA MovesType ==
  ASSUME TypeOK, NEW d \in Docs
  PROVE  Moves(d) \in [Products -> Int]
BY DEF TypeOK, Moves

LEMMA NoLinesType == NoLines \in [Products -> Nat]
BY DEF NoLines

\* Whatever payment_status_for() answers is a status.
LEMMA StatusesAreStatuses ==
  ASSUME NEW m \in Int, NEW t \in Int
  PROVE  StatusesFor(m, t) \subseteq {"unpaid", "partial", "paid"}
BY DEF StatusesFor

LEMMA LeastType ==
  ASSUME NEW m \in Nat, NEW n \in Nat
  PROVE  Least(m, n) \in 0..n
BY DEF Least

LEMMA CreditType ==
  ASSUME TypeOK, NEW x \in parties \cup {NoParty}, NEW amount \in Int, Credit(x, amount)
  PROVE  balance' \in [Parties -> Int]
<1>1. CASE x = NoParty
  BY <1>1 DEF Credit, TypeOK
<1>2. CASE x # NoParty
  BY <1>2 DEF Credit, TypeOK
<1> QED
  BY <1>1, <1>2

-----------------------------------------------------------------------------
(* Type correctness.                                                       *)

LEMMA TypeInit == Init => TypeOK
BY NoLinesType DEF Init, TypeOK, Types, NoLines

LEMMA CreateTyped ==
  ASSUME TypeOK, NEW d \in Docs, NEW x \in parties \cup {NoParty}, NEW ls \in Baskets,
         NEW t \in Totals, NEW amount \in PaidAtOnce, Create(d, x, ls, t, amount),
         rushed' \subseteq Products
  PROVE  TypeOK'
<1>1. /\ ls \in [Products -> Nat]
      /\ t \in Nat
      /\ amount \in Nat
  <2>1. Quantities \cup {0} \subseteq Nat /\ Totals \subseteq Nat /\ PaidAtOnce \subseteq Nat
    BY LedgerAssumption DEF PaidAtOnce
  <2> QED
    BY <2>1 DEF Baskets
<1>2. Least(amount, t) \in Nat
  BY <1>1, LeastType
<1>3. payment' \in [Docs -> {"unpaid", "partial", "paid"}]
  BY <1>1, <1>2, StatusesAreStatuses DEF Create, TypeOK
<1> QED
  BY <1>1, <1>2, <1>3 DEF Create, TypeOK, catalog

LEMMA ApplyTyped ==
  ASSUME TypeOK, NEW d \in Docs, Apply(d)
  PROVE  TypeOK'
<1>1. Moves(d) \in [Products -> Int]
  BY MovesType
<1>2. Due(d) \in Int /\ party[d] \in parties \cup {NoParty}
  BY DEF TypeOK, Due
<1>3. /\ stock' \in [Products -> Int]
      /\ moved' \in [Docs -> [Products -> Int]]
      /\ balance' \in [Parties -> Int]
  <2>1. CASE NoEffects(d)
    BY <2>1 DEF Apply, TypeOK
  <2>2. CASE ~NoEffects(d)
    <3>1. /\ stock' = [p \in Products |-> stock[p] + Moves(d)[p]]
          /\ moved' = [moved EXCEPT ![d] = [p \in Products |-> moved[d][p] + Moves(d)[p]]]
          /\ Credit(party[d], Due(d))
      BY <2>2 DEF Apply, Shifted
    <3>2. balance' \in [Parties -> Int]
      BY <3>1, <1>2, CreditType
    <3>3. /\ stock \in [Products -> Int]
          /\ moved \in [Docs -> [Products -> Int]]
      BY DEF TypeOK
    <3>4. [p \in Products |-> moved[d][p] + Moves(d)[p]] \in [Products -> Int]
      BY <3>3, <1>1
    <3> QED
      BY <3>1, <3>2, <3>3, <3>4, <1>1
  <2> QED
    BY <2>1, <2>2
<1>4. /\ event' = [event EXCEPT ![d] = "done"]
      /\ event[d] \in {"pending", "again"}
      /\ UNCHANGED <<catalog, opening, status, written, paid, payment, undone, replays,
                     skewed, rushed>>
  BY DEF Apply
<1> QED
  BY <1>3, <1>4 DEF TypeOK, catalog, written

LEMMA CancelTyped ==
  ASSUME TypeOK, NEW d \in Docs, Cancel(d)
  PROVE  TypeOK'
<1>1. 0 - Reversal(d) \in Int /\ party[d] \in parties \cup {NoParty}
  BY DEF TypeOK, Reversal, Due
<1>2. balance' \in [Parties -> Int]
  BY <1>1, CreditType DEF Cancel
<1> QED
  BY <1>2 DEF Cancel, Shifted, Skewed, TypeOK, catalog, written

LEMMA PaymentTyped ==
  ASSUME TypeOK, PaymentAgrees, NEW d \in Docs, NEW amount \in Payments,
         RecordPayment(d, amount)
  PROVE  TypeOK'
<1>1. /\ amount \in Nat
      /\ total[d] \in Nat
      /\ paid[d] \in Nat
      /\ party[d] \in parties \cup {NoParty}
  BY LedgerAssumption DEF TypeOK
<1>2. PaidAfter(d, amount) \in Nat
  <2>1. paid[d] + amount \in Nat
    BY <1>1
  <2>2. Least(paid[d] + amount, total[d]) \in 0..total[d]
    BY <1>1, <2>1, LeastType
  <2> QED
    BY <1>1, <2>2 DEF PaidAfter
<1>3. PICK s \in StatusesFor(PaidAfter(d, amount), total[d]), now \in Nat :
        /\ paid' = [paid EXCEPT ![d] = now]
        /\ payment' = [payment EXCEPT ![d] = s]
        /\ Credit(party[d], paid[d] - now)
        /\ skewed' \subseteq Docs
  BY <1>1, <1>2 DEF RecordPayment, Skewed, TypeOK
<1>4. s \in {"unpaid", "partial", "paid"}
  BY <1>1, <1>2, <1>3, StatusesAreStatuses
<1>5. balance' \in [Parties -> Int]
  BY <1>1, <1>3, CreditType
<1>6. UNCHANGED <<catalog, stock, opening, status, written, event, moved, undone, replays,
                  rushed>>
  BY DEF RecordPayment
<1> QED
  BY <1>3, <1>4, <1>5, <1>6 DEF TypeOK, catalog, written

LEMMA TypeNext == TypeOK /\ PaymentAgrees /\ [Next]_vars => TypeOK'
<1> SUFFICES ASSUME TypeOK, PaymentAgrees, [Next]_vars PROVE TypeOK'
  OBVIOUS
<1> USE LedgerAssumption
<1>1. ASSUME NEW s \in Sales, NEW x \in Parties \cup {NoParty}, NEW ls \in Baskets,
             NEW t \in Totals, NEW amount \in PaidAtOnce, CreateSale(s, x, ls, t, amount)
      PROVE  TypeOK'
  BY <1>1, CreateTyped DEF CreateSale, Docs, Rushed, TypeOK
<1>2. ASSUME NEW b \in Purchases, NEW x \in Parties \cup {NoParty}, NEW ls \in Baskets,
             NEW t \in Totals, NEW amount \in PaidAtOnce, CreatePurchase(b, x, ls, t, amount)
      PROVE  TypeOK'
  BY <1>2, CreateTyped DEF CreatePurchase, Docs, TypeOK
<1>3. ASSUME NEW d \in Docs, ApplySale(d) \/ ApplyPurchase(d) PROVE TypeOK'
  BY <1>3, ApplyTyped DEF ApplySale, ApplyPurchase
<1>4. ASSUME NEW d \in Docs, Replay(d) PROVE TypeOK'
  BY <1>4 DEF Replay, TypeOK, catalog, written
<1>5. ASSUME NEW d \in Docs, CancelSale(d) \/ CancelPurchase(d) PROVE TypeOK'
  BY <1>5, CancelTyped DEF CancelSale, CancelPurchase
<1>6. ASSUME NEW d \in Docs, NEW amount \in Payments, RecordPayment(d, amount) PROVE TypeOK'
  BY <1>6, PaymentTyped
<1>7. ASSUME NEW x \in Parties, SettleParty(x) PROVE TypeOK'
  BY <1>7 DEF SettleParty, SettleDocs, Strays, TypeOK, catalog, written
<1>8. ASSUME NEW t \in Types, SettleAll(t) PROVE TypeOK'
  BY <1>8 DEF SettleAll, SettleDocs, Strays, TypeOK, catalog, written
<1>9. ASSUME NEW p \in Products, NEW n \in Quantities, CreateProduct(p, n) PROVE TypeOK'
  BY <1>9 DEF CreateProduct, TypeOK, written
<1>10. ASSUME NEW p \in Products, NEW n \in Corrections, AdjustStock(p, n) PROVE TypeOK'
  BY <1>10 DEF AdjustStock, Shifted, Rushed, TypeOK, written
<1>11. ASSUME NEW p \in Products, DeleteProduct(p) PROVE TypeOK'
  BY <1>11 DEF DeleteProduct, TypeOK, written
<1>12. ASSUME NEW x \in Parties, NEW t \in Types, NEW b \in Openings, CreateParty(x, t, b)
       PROVE  TypeOK'
  BY <1>12 DEF CreateParty, TypeOK, written
<1>13. ASSUME NEW x \in Parties, NEW t \in Types, UpdateParty(x, t) PROVE TypeOK'
  BY <1>13 DEF UpdateParty, TypeOK, written
<1>14. ASSUME NEW x \in Parties, DeleteParty(x) PROVE TypeOK'
  BY <1>14 DEF DeleteParty, Unlinked, TypeOK, Types
<1>15. CASE UNCHANGED vars
  BY <1>15 DEF vars, catalog, written, TypeOK
<1> QED
  BY <1>1, <1>2, <1>3, <1>4, <1>5, <1>6, <1>7, <1>8, <1>9, <1>10, <1>11, <1>12,
     <1>13, <1>14, <1>15 DEF Next

-----------------------------------------------------------------------------
(* Whole movements, and payments that agree with their documents.          *)

LEMMA DocInit == Init => DocInv
<1> SUFFICES ASSUME Init PROVE DocInv
  OBVIOUS
<1>1. MovesAreWhole /\ AbsentIsBlank
  BY DEF Init, MovesAreWhole, AbsentIsBlank
<1>2. PaymentAgrees
  BY DEF Init, PaymentAgrees, StatusesFor
<1> QED
  BY <1>1, <1>2, TypeInit DEF DocInv

LEMMA CreateKeeps ==
  ASSUME DocInv, NEW d \in Docs, NEW x \in parties \cup {NoParty}, NEW ls \in Baskets,
         NEW t \in Totals, NEW amount \in PaidAtOnce, Create(d, x, ls, t, amount)
  PROVE  (MovesAreWhole /\ PaymentAgrees /\ AbsentIsBlank)'
<1> USE DEF DocInv
<1>1. /\ t \in Nat
      /\ amount \in Nat
  BY LedgerAssumption DEF PaidAtOnce
<1>2. PICK s \in StatusesFor(Least(amount, t), t) : payment' = [payment EXCEPT ![d] = s]
  BY DEF Create
<1>3. /\ status[d] = "absent"
      /\ status' = [status EXCEPT ![d] = "completed"]
      /\ lines' = [lines EXCEPT ![d] = ls]
      /\ total' = [total EXCEPT ![d] = t]
      /\ paid' = [paid EXCEPT ![d] = Least(amount, t)]
      /\ UNCHANGED <<moved, undone>>
  BY DEF Create
<1>4. moved[d] = NoLines /\ undone[d] = NoLines
  BY <1>3 DEF AbsentIsBlank
<1>5. \A c \in Docs \ {d} : /\ lines'[c] = lines[c] /\ status'[c] = status[c]
                            /\ total'[c] = total[c] /\ paid'[c] = paid[c]
                            /\ payment'[c] = payment[c]
  BY <1>2, <1>3 DEF TypeOK
<1>6. MovesAreWhole'
  <2> SUFFICES ASSUME NEW c \in Docs
               PROVE  /\ moved'[c] \in {NoLines, Moves(c)'}
                      /\ undone'[c] = IF status'[c] = "cancelled"
                                      THEN [p \in Products |-> 0 - moved'[c][p]] ELSE NoLines
    BY DEF MovesAreWhole
  <2>1. CASE c = d
    BY <2>1, <1>3, <1>4 DEF TypeOK
  <2>2. CASE c # d
    BY <2>2, <1>3, <1>5 DEF MovesAreWhole, Moves
  <2> QED
    BY <2>1, <2>2
<1>7. PaymentAgrees'
  <2> SUFFICES ASSUME NEW c \in Docs
               PROVE  paid'[c] \in 0..total'[c] /\ payment'[c] \in StatusesFor(paid'[c], total'[c])
    BY DEF PaymentAgrees, StatusesFor
  <2>1. CASE c = d
    <3>1. paid'[d] = Least(amount, t) /\ total'[d] = t /\ payment'[d] = s
      BY <1>2, <1>3 DEF TypeOK
    <3>2. Least(amount, t) \in 0..t
      BY <1>1, LeastType
    <3> QED
      BY <2>1, <3>1, <3>2, <1>2
  <2>2. CASE c # d
    BY <2>2, <1>5 DEF PaymentAgrees
  <2> QED
    BY <2>1, <2>2
<1>8. AbsentIsBlank'
  <2> SUFFICES ASSUME NEW c \in Docs, status'[c] = "absent"
               PROVE  moved'[c] = NoLines /\ undone'[c] = NoLines /\ paid'[c] = 0
    BY DEF AbsentIsBlank, NoLines
  <2>1. c # d
    BY <1>3 DEF TypeOK
  <2> QED
    BY <2>1, <1>3, <1>5 DEF AbsentIsBlank
<1> QED
  BY <1>6, <1>7, <1>8

LEMMA ApplyKeeps ==
  ASSUME DocInv, NEW d \in Docs, Apply(d)
  PROVE  (MovesAreWhole /\ PaymentAgrees /\ AbsentIsBlank)'
<1> USE DEF DocInv
<1>1. /\ event[d] # "none"
      /\ UNCHANGED <<status, lines, total, paid, payment, undone>>
  BY DEF Apply, written
<1>2. PaymentAgrees'
  BY <1>1 DEF PaymentAgrees
<1>3. status[d] # "absent"
  BY <1>1 DEF TypeOK
<1>4. CASE NoEffects(d)
  <2>1. UNCHANGED moved
    BY <1>4 DEF Apply
  <2> QED
    BY <2>1, <1>1, <1>2 DEF MovesAreWhole, AbsentIsBlank, Moves
<1>5. CASE ~NoEffects(d)
  <2>1. /\ status[d] # "cancelled"
        /\ \A p \in Products : moved[d][p] = 0
    BY <1>5 DEF NoEffects, AlreadyMoved
  <2>2. moved' = [moved EXCEPT ![d] = [p \in Products |-> moved[d][p] + Moves(d)[p]]]
    BY <1>5 DEF Apply
  <2>3. [p \in Products |-> moved[d][p] + Moves(d)[p]] = Moves(d)
    <3>1. Moves(d) \in [Products -> Int]
      BY MovesType
    <3>2. \A p \in Products : moved[d][p] + Moves(d)[p] = Moves(d)[p]
      BY <2>1, <3>1
    <3>3. [p \in Products |-> moved[d][p] + Moves(d)[p]] = [p \in Products |-> Moves(d)[p]]
      BY <3>2
    <3> QED
      BY <3>1, <3>3
  <2>4. moved'[d] = Moves(d) /\ \A c \in Docs \ {d} : moved'[c] = moved[c]
    BY <2>2, <2>3 DEF TypeOK
  <2>5. \A c \in Docs : Moves(c)' = Moves(c)
    BY <1>1 DEF Moves
  <2>6. MovesAreWhole'
    <3> SUFFICES ASSUME NEW c \in Docs
                 PROVE  /\ moved'[c] \in {NoLines, Moves(c)'}
                        /\ undone'[c] = IF status'[c] = "cancelled"
                                        THEN [p \in Products |-> 0 - moved'[c][p]] ELSE NoLines
      BY DEF MovesAreWhole
    <3>1. CASE c = d
      BY <3>1, <2>1, <2>4, <2>5, <1>1 DEF MovesAreWhole
    <3>2. CASE c # d
      BY <3>2, <2>4, <2>5, <1>1 DEF MovesAreWhole
    <3> QED
      BY <3>1, <3>2
  <2>7. AbsentIsBlank'
    BY <2>4, <1>1, <1>3 DEF AbsentIsBlank, NoLines
  <2> QED
    BY <2>6, <2>7, <1>2
<1> QED
  BY <1>4, <1>5

LEMMA CancelKeeps ==
  ASSUME DocInv, NEW d \in Docs, Cancel(d)
  PROVE  (MovesAreWhole /\ PaymentAgrees /\ AbsentIsBlank)'
<1> USE DEF DocInv
<1>1. /\ status[d] = "completed"
      /\ status' = [status EXCEPT ![d] = "cancelled"]
      /\ undone' = [undone EXCEPT ![d] = [p \in Products |-> undone[d][p] - moved[d][p]]]
      /\ UNCHANGED <<lines, total, paid, payment, moved>>
  BY DEF Cancel, written
<1>2. undone[d] = NoLines /\ moved[d] \in [Products -> Int]
  BY <1>1 DEF MovesAreWhole, TypeOK
<1>3. /\ status'[d] = "cancelled"
      /\ undone'[d] = [p \in Products |-> 0 - moved[d][p]]
      /\ \A c \in Docs \ {d} : status'[c] = status[c] /\ undone'[c] = undone[c]
  BY <1>1, <1>2 DEF TypeOK, NoLines
<1>4. \A c \in Docs : Moves(c)' = Moves(c)
  BY <1>1 DEF Moves
<1>5. MovesAreWhole'
  <2> SUFFICES ASSUME NEW c \in Docs
               PROVE  /\ moved'[c] \in {NoLines, Moves(c)'}
                      /\ undone'[c] = IF status'[c] = "cancelled"
                                      THEN [p \in Products |-> 0 - moved'[c][p]] ELSE NoLines
    BY DEF MovesAreWhole
  <2>1. CASE c = d
    BY <2>1, <1>1, <1>3, <1>4 DEF MovesAreWhole
  <2>2. CASE c # d
    BY <2>2, <1>1, <1>3, <1>4 DEF MovesAreWhole
  <2> QED
    BY <2>1, <2>2
<1>6. PaymentAgrees'
  BY <1>1 DEF PaymentAgrees
<1>7. AbsentIsBlank'
  BY <1>1, <1>3 DEF AbsentIsBlank, NoLines
<1> QED
  BY <1>5, <1>6, <1>7

LEMMA PaymentKeeps ==
  ASSUME DocInv, NEW d \in Docs, NEW amount \in Payments, RecordPayment(d, amount)
  PROVE  /\ (MovesAreWhole /\ PaymentAgrees /\ AbsentIsBlank)'
         /\ paid'[d] >= paid[d]
<1> USE DEF DocInv
<1>1. /\ amount \in Nat \ {0}
      /\ total[d] \in Nat
      /\ paid[d] \in 0..total[d]
  BY LedgerAssumption DEF TypeOK, PaymentAgrees
<1>2. PICK s \in StatusesFor(PaidAfter(d, amount), total[d]) :
        /\ paid' = [paid EXCEPT ![d] = IF s = "paid" THEN total[d] ELSE PaidAfter(d, amount)]
        /\ payment' = [payment EXCEPT ![d] = s]
  BY DEF RecordPayment
<1>3. /\ status[d] = "completed"
      /\ UNCHANGED <<status, lines, total, moved, undone>>
  BY DEF RecordPayment, written
<1>4. /\ paid'[d] = IF s = "paid" THEN total[d] ELSE PaidAfter(d, amount)
      /\ payment'[d] = s
      /\ \A c \in Docs \ {d} : paid'[c] = paid[c] /\ payment'[c] = payment[c]
  BY <1>2 DEF TypeOK
<1>5. /\ PaidAfter(d, amount) \in 0..total[d]
      /\ PaidAfter(d, amount) >= paid[d]
  BY <1>1 DEF PaidAfter, Least
<1>6. s = "paid" => s \in StatusesFor(total[d], total[d])
  BY <1>1, <1>2, <1>5 DEF StatusesFor
<1>7. paid'[d] \in 0..total[d] /\ payment'[d] \in StatusesFor(paid'[d], total[d])
  BY <1>1, <1>2, <1>4, <1>5, <1>6
<1>8. PaymentAgrees'
  <2> SUFFICES ASSUME NEW c \in Docs
               PROVE  paid'[c] \in 0..total'[c] /\ payment'[c] \in StatusesFor(paid'[c], total'[c])
    BY DEF PaymentAgrees, StatusesFor
  <2>1. CASE c = d
    BY <2>1, <1>3, <1>7
  <2>2. CASE c # d
    BY <2>2, <1>3, <1>4 DEF PaymentAgrees
  <2> QED
    BY <2>1, <2>2
<1>9. MovesAreWhole' /\ AbsentIsBlank'
  BY <1>3, <1>4 DEF MovesAreWhole, AbsentIsBlank, Moves, NoLines
<1> QED
  BY <1>1, <1>4, <1>5, <1>8, <1>9

\* Settling pays documents in full and does nothing else to them.
LEMMA SettleKeeps ==
  ASSUME DocInv, NEW D \in SUBSET Docs, SettleDocs(D),
         UNCHANGED <<status, lines, total, moved, undone>>
  PROVE  /\ (MovesAreWhole /\ PaymentAgrees /\ AbsentIsBlank)'
         /\ \A d \in Docs : paid'[d] >= paid[d]
<1> USE DEF DocInv
<1>1. \A d \in Docs :
        \/ /\ d \in D /\ status[d] = "completed" /\ total[d] - paid[d] > 0
           /\ paid'[d] = total[d] /\ payment'[d] = "paid"
        \/ paid'[d] = paid[d] /\ payment'[d] = payment[d]
  BY DEF SettleDocs, Open, Due
<1>2. \A d \in Docs : total[d] \in Nat /\ paid[d] \in 0..total[d]
  BY DEF TypeOK, PaymentAgrees
<1>3. \A d \in Docs : paid'[d] >= paid[d]
  BY <1>1, <1>2
<1>4. PaymentAgrees'
  <2> SUFFICES ASSUME NEW d \in Docs
               PROVE  paid'[d] \in 0..total'[d] /\ payment'[d] \in StatusesFor(paid'[d], total'[d])
    BY DEF PaymentAgrees, StatusesFor
  <2>1. CASE /\ total[d] - paid[d] > 0
             /\ paid'[d] = total[d] /\ payment'[d] = "paid"
    <3>1. "paid" \in StatusesFor(total[d], total[d])
      BY <2>1, <1>2 DEF StatusesFor
    <3> QED
      BY <2>1, <3>1, <1>2
  <2>2. CASE paid'[d] = paid[d] /\ payment'[d] = payment[d]
    BY <2>2 DEF PaymentAgrees
  <2> QED
    BY <2>1, <2>2, <1>1
<1>5. MovesAreWhole'
  BY DEF MovesAreWhole, Moves, NoLines
<1>6. AbsentIsBlank'
  <2> SUFFICES ASSUME NEW d \in Docs, status[d] = "absent"
               PROVE  moved[d] = NoLines /\ undone[d] = NoLines /\ paid'[d] = 0
    BY DEF AbsentIsBlank, NoLines
  <2> QED
    BY <1>1 DEF AbsentIsBlank
<1> QED
  BY <1>3, <1>4, <1>5, <1>6

LEMMA DeleteProductKeeps ==
  ASSUME DocInv, NEW p \in Products, DeleteProduct(p)
  PROVE  (MovesAreWhole /\ PaymentAgrees /\ AbsentIsBlank)'
         /\ \A d \in Docs : moved'[d] = moved[d] /\ undone'[d] = undone[d]
<1> USE DEF DocInv
<1>1. /\ \A d \in Docs : lines[d][p] = 0
      /\ moved' = [d \in Docs |-> [moved[d] EXCEPT ![p] = 0]]
      /\ undone' = [d \in Docs |-> [undone[d] EXCEPT ![p] = 0]]
      /\ UNCHANGED <<status, lines, total, paid, payment>>
  BY DEF DeleteProduct, Deletable, written
<1>2. \A d \in Docs : moved'[d] = moved[d] /\ undone'[d] = undone[d]
  <2> SUFFICES ASSUME NEW d \in Docs
               PROVE  moved'[d] = moved[d] /\ undone'[d] = undone[d]
    OBVIOUS
  <2>1. moved[d] \in [Products -> Int] /\ undone[d] \in [Products -> Int]
    BY DEF TypeOK
  <2>2. Moves(d)[p] = 0
    BY <1>1 DEF Moves, TypeOK
  <2>3. moved[d][p] = 0 /\ undone[d][p] = 0
    <3>1. NoLines[p] = 0 /\ moved[d] \in {NoLines, Moves(d)}
      BY DEF MovesAreWhole, NoLines
    <3>2. moved[d][p] = 0
      BY <3>1, <2>2
    <3>3. \/ undone[d] = [q \in Products |-> 0 - moved[d][q]]
          \/ undone[d] = NoLines
      BY DEF MovesAreWhole
    <3> QED
      BY <3>1, <3>2, <3>3
  <2>4. [moved[d] EXCEPT ![p] = 0] = moved[d] /\ [undone[d] EXCEPT ![p] = 0] = undone[d]
    BY <2>1, <2>3
  <2> QED
    BY <1>1, <2>4
<1>3. \A d \in Docs : Moves(d)' = Moves(d)
  BY <1>1 DEF Moves
<1>4. MovesAreWhole'
  <2> SUFFICES ASSUME NEW d \in Docs
               PROVE  /\ moved'[d] \in {NoLines, Moves(d)'}
                      /\ undone'[d] = IF status'[d] = "cancelled"
                                      THEN [q \in Products |-> 0 - moved'[d][q]] ELSE NoLines
    BY DEF MovesAreWhole
  <2> QED
    BY <1>1, <1>2, <1>3 DEF MovesAreWhole
<1>5. PaymentAgrees' /\ AbsentIsBlank'
  BY <1>1, <1>2 DEF PaymentAgrees, AbsentIsBlank, NoLines
<1> QED
  BY <1>2, <1>4, <1>5

\* Steps that are about no document.
LEMMA CatalogueKeeps ==
  ASSUME DocInv, UNCHANGED <<status, lines, total, paid, payment, moved, undone>>
  PROVE  (MovesAreWhole /\ PaymentAgrees /\ AbsentIsBlank)'
BY DEF DocInv, MovesAreWhole, PaymentAgrees, AbsentIsBlank, Moves, NoLines

LEMMA DocNext == DocInv /\ [Next]_vars => DocInv'
<1> SUFFICES ASSUME DocInv, [Next]_vars PROVE DocInv'
  OBVIOUS
<1>0. TypeOK'
  BY TypeNext DEF DocInv
<1> DEFINE Parts == MovesAreWhole /\ PaymentAgrees /\ AbsentIsBlank
<1> SUFFICES Parts'
  BY <1>0 DEF DocInv
<1>1. ASSUME NEW s \in Sales, NEW x \in Parties \cup {NoParty}, NEW ls \in Baskets,
             NEW t \in Totals, NEW amount \in PaidAtOnce, CreateSale(s, x, ls, t, amount)
      PROVE  Parts'
  BY <1>1, CreateKeeps DEF CreateSale, Docs
<1>2. ASSUME NEW b \in Purchases, NEW x \in Parties \cup {NoParty}, NEW ls \in Baskets,
             NEW t \in Totals, NEW amount \in PaidAtOnce, CreatePurchase(b, x, ls, t, amount)
      PROVE  Parts'
  BY <1>2, CreateKeeps DEF CreatePurchase, Docs
<1>3. ASSUME NEW d \in Docs, ApplySale(d) \/ ApplyPurchase(d) PROVE Parts'
  BY <1>3, ApplyKeeps DEF ApplySale, ApplyPurchase
<1>4. ASSUME NEW d \in Docs, CancelSale(d) \/ CancelPurchase(d) PROVE Parts'
  BY <1>4, CancelKeeps DEF CancelSale, CancelPurchase
<1>5. ASSUME NEW d \in Docs, NEW amount \in Payments, RecordPayment(d, amount) PROVE Parts'
  BY <1>5, PaymentKeeps
<1>6. ASSUME NEW x \in Parties, SettleParty(x) PROVE Parts'
  <2>1. DocsOfParty(x) \subseteq Docs
    BY DEF DocsOfParty, DocsOf, Docs
  <2> QED
    BY <1>6, <2>1, SettleKeeps DEF SettleParty, written
<1>7. ASSUME NEW t \in Types, SettleAll(t) PROVE Parts'
  <2>1. DocsOf(t) \subseteq Docs
    BY DEF DocsOf, Docs
  <2> QED
    BY <1>7, <2>1, SettleKeeps DEF SettleAll, written
<1>8. ASSUME NEW p \in Products, DeleteProduct(p) PROVE Parts'
  BY <1>8, DeleteProductKeeps
<1>9. \/ UNCHANGED vars
      \/ \E d \in Docs : Replay(d)
      \/ \E p \in Products, n \in Quantities : CreateProduct(p, n)
      \/ \E p \in Products, n \in Corrections : AdjustStock(p, n)
      \/ \E x \in Parties, t \in Types, b \in Openings : CreateParty(x, t, b)
      \/ \E x \in Parties, t \in Types : UpdateParty(x, t)
      \/ \E x \in Parties : DeleteParty(x)
      => Parts'
  <2> SUFFICES ASSUME \/ UNCHANGED vars
                      \/ \E d \in Docs : Replay(d)
                      \/ \E p \in Products, n \in Quantities : CreateProduct(p, n)
                      \/ \E p \in Products, n \in Corrections : AdjustStock(p, n)
                      \/ \E x \in Parties, t \in Types, b \in Openings : CreateParty(x, t, b)
                      \/ \E x \in Parties, t \in Types : UpdateParty(x, t)
                      \/ \E x \in Parties : DeleteParty(x)
               PROVE  Parts'
    OBVIOUS
  <2>1. UNCHANGED <<status, lines, total, paid, payment, moved, undone>>
    BY DEF vars, written, Replay, CreateProduct, AdjustStock, CreateParty, UpdateParty,
           DeleteParty
  <2> QED
    BY <2>1, CatalogueKeeps
<1> QED
  BY <1>1, <1>2, <1>3, <1>4, <1>5, <1>6, <1>7, <1>8, <1>9 DEF Next

LEMMA DocInvariance == Spec => []DocInv
BY DocInit, DocNext, PTL DEF Spec

\* Every row of the books stays in its type, and no document of a party that
\* was deleted still refers to it.
THEOREM TypeCorrect == Spec => []TypeOK
<1>1. DocInv => TypeOK
  BY DEF DocInv
<1> QED
  BY <1>1, DocInvariance, PTL

\* A document moves stock by its lines or not at all, and its cancellation gives
\* back what it moved, in whatever order its event, replays and cancellation come.
THEOREM WholeMoves == Spec => []MovesAreWhole
<1>1. DocInv => MovesAreWhole
  BY DEF DocInv
<1> QED
  BY <1>1, DocInvariance, PTL

\* The money on a document is within its total and labelled accordingly.
THEOREM PaymentsAgree == Spec => []PaymentAgrees
<1>1. DocInv => PaymentAgrees
  BY DEF DocInv
<1> QED
  BY <1>1, DocInvariance, PTL

-----------------------------------------------------------------------------
(* What a step may never do to a document.                                 *)

\* Money recorded on a document is never taken off it, by any operation in any
\* order.
THEOREM PaidOnlyRises == Spec => PaidNeverFalls
<1>1. DocInv /\ [Next]_vars => [\A d \in Docs : paid'[d] >= paid[d]]_vars
  <2> SUFFICES ASSUME DocInv, Next, NEW d \in Docs
               PROVE  paid'[d] >= paid[d]
    BY DEF vars
  <2>0. paid[d] \in Nat
    BY DEF DocInv, TypeOK
  <2>1. ASSUME NEW c \in Docs, NEW x \in Parties \cup {NoParty}, NEW ls \in Baskets,
               NEW t \in Totals, NEW amount \in PaidAtOnce, Create(c, x, ls, t, amount)
        PROVE  paid'[d] >= paid[d]
    <3>1. /\ t \in Nat /\ amount \in Nat
          /\ status[c] = "absent"
          /\ paid' = [paid EXCEPT ![c] = Least(amount, t)]
      BY <2>1, LedgerAssumption DEF Create, PaidAtOnce
    <3>2. Least(amount, t) \in Nat
      BY <3>1, LeastType
    <3>3. paid[c] = 0
      BY <3>1 DEF DocInv, AbsentIsBlank
    <3>4. paid \in [Docs -> Nat]
      BY DEF DocInv, TypeOK
    <3> QED
      BY <3>1, <3>2, <3>3, <3>4
  <2>2. ASSUME NEW c \in Docs, NEW amount \in Payments, RecordPayment(c, amount)
        PROVE  paid'[d] >= paid[d]
    <3>1. CASE c = d
      BY <2>2, <3>1, PaymentKeeps
    <3>2. CASE c # d
      BY <2>0, <2>2, <3>2 DEF RecordPayment
    <3> QED
      BY <3>1, <3>2
  <2>3. ASSUME NEW x \in Parties, SettleParty(x) PROVE paid'[d] >= paid[d]
    <3>1. DocsOfParty(x) \subseteq Docs
      BY DEF DocsOfParty, DocsOf, Docs
    <3> QED
      BY <2>3, <3>1, SettleKeeps DEF SettleParty, written
  <2>4. ASSUME NEW t \in Types, SettleAll(t) PROVE paid'[d] >= paid[d]
    <3>1. DocsOf(t) \subseteq Docs
      BY DEF DocsOf, Docs
    <3> QED
      BY <2>4, <3>1, SettleKeeps DEF SettleAll, written
  <2>5. ASSUME UNCHANGED paid PROVE paid'[d] >= paid[d]
    BY <2>0, <2>5
  <2> QED
    BY <2>1, <2>2, <2>3, <2>4, <2>5
       DEF Next, CreateSale, CreatePurchase, ApplySale, ApplyPurchase, Apply, Replay,
           CancelSale, CancelPurchase, Cancel, CreateProduct, AdjustStock, DeleteProduct,
           CreateParty, UpdateParty, DeleteParty, Docs
<1> QED
  BY <1>1, DocInvariance, PTL DEF Spec, PaidNeverFalls

\* Nothing moves money or stock for a cancelled document again: not a payment,
\* not a settlement, not its late event, not a replay.
THEOREM CancelledStays == Spec => CancelledIsFinal
<1>1. DocInv /\ [Next]_vars =>
        [\A d \in Docs : status[d] = "cancelled" =>
           UNCHANGED <<status[d], paid[d], payment[d], moved[d], undone[d]>>]_vars
  <2> SUFFICES ASSUME DocInv, Next, NEW d \in Docs, status[d] = "cancelled"
               PROVE  UNCHANGED <<status[d], paid[d], payment[d], moved[d], undone[d]>>
    BY DEF vars
  <2> DEFINE Same == UNCHANGED <<status[d], paid[d], payment[d], moved[d], undone[d]>>
  <2> USE DEF DocInv, TypeOK
  <2>1. ASSUME NEW c \in Docs, NEW x \in Parties \cup {NoParty}, NEW ls \in Baskets,
               NEW t \in Totals, NEW amount \in PaidAtOnce, Create(c, x, ls, t, amount)
        PROVE  Same
    BY <2>1 DEF Create
  <2>2. ASSUME NEW c \in Docs, Apply(c) PROVE Same
    <3>1. UNCHANGED <<status, paid, payment, undone>>
      BY <2>2 DEF Apply
    <3>2. moved'[d] = moved[d]
      BY <2>2 DEF Apply, NoEffects
    <3> QED
      BY <3>1, <3>2
  <2>3. ASSUME NEW c \in Docs, Cancel(c) PROVE Same
    BY <2>3 DEF Cancel
  <2>4. ASSUME NEW c \in Docs, NEW amount \in Payments, RecordPayment(c, amount) PROVE Same
    BY <2>4 DEF RecordPayment
  <2>5. ASSUME NEW D \in SUBSET Docs, SettleDocs(D), UNCHANGED <<status, moved, undone>>
        PROVE  Same
    BY <2>5 DEF SettleDocs, Open
  <2>6. ASSUME NEW x \in Parties, SettleParty(x) PROVE Same
    <3>1. DocsOfParty(x) \subseteq Docs
      BY DEF DocsOfParty, DocsOf, Docs
    <3> QED
      BY <2>5, <2>6, <3>1 DEF SettleParty
  <2>7. ASSUME NEW t \in Types, SettleAll(t) PROVE Same
    <3>1. DocsOf(t) \subseteq Docs
      BY DEF DocsOf, Docs
    <3> QED
      BY <2>5, <2>7, <3>1 DEF SettleAll
  <2>8. ASSUME NEW p \in Products, DeleteProduct(p) PROVE Same
    <3>1. UNCHANGED <<status, paid, payment>>
      BY <2>8 DEF DeleteProduct
    <3> QED
      BY <2>8, <3>1, DeleteProductKeeps
  <2>9. ASSUME UNCHANGED <<status, paid, payment, moved, undone>> PROVE Same
    BY <2>9
  <2> HIDE DEF Same, DocInv, TypeOK
  <2> QED
    BY <2>1, <2>2, <2>3, <2>4, <2>6, <2>7, <2>8, <2>9
       DEF Next, CreateSale, CreatePurchase, ApplySale, ApplyPurchase, Replay,
           CancelSale, CancelPurchase, CreateProduct, AdjustStock, CreateParty,
           UpdateParty, DeleteParty, Docs, Same
<1> QED
  BY <1>1, DocInvariance, PTL DEF Spec, CancelledIsFinal

-----------------------------------------------------------------------------
(* Stock and its movement rows.                                            *)

\* A product that some document names exists: the id of a new product has no
\* rows yet, and deleting one leaves none behind.
NamesProducts == \A d \in Docs, p \in Products : p \notin products => lines[d][p] = 0

\* A live document has moved its lines once its event has been applied, and
\* nothing before that.
EffectsOnce ==
  \A d \in Docs : status[d] = "completed" =>
    moved[d] = IF event[d] \in {"done", "again"} THEN Moves(d) ELSE NoLines

\* StockIsLedger, and the same of ids that are not in use.
AllRows == \A p \in Products : stock[p] = adjusted[p] + SumFunction(Rows(p))

RowsInv == DocInv /\ NamesProducts /\ EffectsOnce /\ AllRows

LEMMA DocsFinite == IsFiniteSet(Docs)
BY LedgerAssumption, FS_Union DEF Docs

LEMMA RowsType ==
  ASSUME TypeOK, NEW p \in Products
  PROVE  /\ Rows(p) \in [Docs -> Int]
         /\ SumFunction(Rows(p)) \in Int
<1>1. Rows(p) \in [Docs -> Int]
  BY DEF Rows, TypeOK
<1> QED
  BY <1>1, DocsFinite, SumBounds

\* The sum of a product's rows changes by what the rows of one document do.
LEMMA RowsChange ==
  ASSUME TypeOK, TypeOK', NEW p \in Products, NEW d \in Docs,
         \A e \in Docs : e # d => moved'[e][p] = moved[e][p] /\ undone'[e][p] = undone[e][p]
  PROVE  SumFunction(Rows(p))' = SumFunction(Rows(p)) + (moved'[d][p] + undone'[d][p])
                                                      - (moved[d][p] + undone[d][p])
<1>1. Rows(p) \in [Docs -> Int] /\ Rows(p)' \in [Docs -> Int]
  BY DEF Rows, TypeOK
<1>2. \A e \in Docs : e # d => Rows(p)'[e] = Rows(p)[e]
  BY DEF Rows
<1>3. SumFunction(Rows(p)') = SumFunction(Rows(p)) + Rows(p)'[d] - Rows(p)[d]
  BY <1>1, <1>2, DocsFinite, SumChange
<1>4. Rows(p)'[d] = moved'[d][p] + undone'[d][p] /\ Rows(p)[d] = moved[d][p] + undone[d][p]
  BY DEF Rows
<1> QED
  BY <1>3, <1>4

LEMMA RowsSame ==
  ASSUME NEW p \in Products,
         \A e \in Docs : moved'[e][p] = moved[e][p] /\ undone'[e][p] = undone[e][p]
  PROVE  SumFunction(Rows(p))' = SumFunction(Rows(p))
<1>1. Rows(p)' = Rows(p)
  BY DEF Rows
<1> QED
  BY <1>1

LEMMA RowsOfNone ==
  ASSUME TypeOK, MovesAreWhole, NEW p \in Products, \A d \in Docs : lines[d][p] = 0
  PROVE  SumFunction(Rows(p)) = 0
<1>1. ASSUME NEW d \in Docs PROVE moved[d][p] = 0 /\ undone[d][p] = 0
  <2>1. Moves(d)[p] = 0 /\ NoLines[p] = 0
    BY DEF Moves, NoLines
  <2>2. moved[d][p] = 0
    BY <2>1 DEF MovesAreWhole
  <2>3. undone[d] = [q \in Products |-> 0 - moved[d][q]] \/ undone[d] = NoLines
    BY DEF MovesAreWhole
  <2> QED
    BY <2>1, <2>2, <2>3
<1>2. \A d \in Docs : Rows(p)[d] = 0
  BY <1>1 DEF Rows
<1> QED
  BY <1>2, RowsType, DocsFinite, SumBounds

LEMMA RowsInit == Init => RowsInv
<1> SUFFICES ASSUME Init PROVE RowsInv
  OBVIOUS
<1>1. DocInv
  BY DocInit
<1>2. NamesProducts /\ EffectsOnce
  BY DEF Init, NamesProducts, EffectsOnce, NoLines
<1>3. ASSUME NEW p \in Products PROVE stock[p] = adjusted[p] + SumFunction(Rows(p))
  <2>1. \A d \in Docs : lines[d][p] = 0
    BY DEF Init, NoLines
  <2>2. SumFunction(Rows(p)) = 0
    BY <1>1, <2>1, RowsOfNone DEF DocInv
  <2> QED
    BY <2>2 DEF Init
<1> QED
  BY <1>1, <1>2, <1>3 DEF RowsInv, AllRows

LEMMA CreateRows ==
  ASSUME RowsInv, NEW d \in Docs, NEW x \in parties \cup {NoParty}, NEW ls \in Baskets,
         NEW t \in Totals, NEW amount \in PaidAtOnce, Create(d, x, ls, t, amount), DocInv'
  PROVE  RowsInv'
<1> USE DEF RowsInv
<1>1. /\ \A p \in Products : ls[p] > 0 => p \in products
      /\ status[d] = "absent"
      /\ lines' = [lines EXCEPT ![d] = ls]
      /\ status' = [status EXCEPT ![d] = "completed"]
      /\ event' = [event EXCEPT ![d] = "pending"]
      /\ UNCHANGED <<products, stock, adjusted, moved, undone>>
  BY DEF Create, catalog
<1>2. lines \in [Docs -> [Products -> Nat]] /\ ls \in [Products -> Nat]
  <2>1. Quantities \cup {0} \subseteq Nat
    BY LedgerAssumption
  <2> QED
    BY <2>1 DEF DocInv, TypeOK, Baskets
<1>3. NamesProducts'
  BY <1>1, <1>2 DEF NamesProducts
<1>4. EffectsOnce'
  <2> SUFFICES ASSUME NEW e \in Docs, status'[e] = "completed"
               PROVE  moved'[e] = IF event'[e] \in {"done", "again"} THEN Moves(e)' ELSE NoLines
    BY DEF EffectsOnce, NoLines
  <2>1. CASE e = d
    <3>1. moved[d] = NoLines
      BY <1>1 DEF DocInv, AbsentIsBlank
    <3>2. event'[d] = "pending"
      BY <1>1 DEF DocInv, TypeOK
    <3> QED
      BY <2>1, <3>1, <3>2, <1>1
  <2>2. CASE e # d
    <3>1. status[e] = "completed" /\ event'[e] = event[e] /\ lines'[e] = lines[e]
      BY <2>2, <1>1 DEF DocInv, TypeOK
    <3>2. Moves(e)' = Moves(e)
      BY <3>1 DEF Moves
    <3> QED
      BY <3>1, <3>2, <1>1 DEF EffectsOnce
  <2> QED
    BY <2>1, <2>2
<1>5. AllRows'
  BY <1>1, RowsSame DEF AllRows
<1> QED
  BY <1>3, <1>4, <1>5

LEMMA ApplyRows ==
  ASSUME RowsInv, NEW d \in Docs, Apply(d), DocInv'
  PROVE  /\ RowsInv'
         /\ status[d] = "completed" => moved'[d] = Moves(d)
<1> USE DEF RowsInv
<1>1. /\ event[d] \in {"pending", "again"}
      /\ event' = [event EXCEPT ![d] = "done"]
      /\ UNCHANGED <<products, lines, adjusted, status, undone>>
  BY DEF Apply, catalog, written
<1>2. NamesProducts'
  BY <1>1 DEF NamesProducts
<1>3. \A e \in Docs : Moves(e)' = Moves(e)
  BY <1>1 DEF Moves
<1>4. Moves(d) \in [Products -> Int]
  BY MovesType DEF DocInv
<1>5. status[d] = "completed" => moved'[d] = Moves(d)
  <2> SUFFICES ASSUME status[d] = "completed" PROVE moved'[d] = Moves(d)
    OBVIOUS
  <2>1. CASE NoEffects(d)
    <3>1. AlreadyMoved(d) /\ moved' = moved
      BY <2>1 DEF NoEffects, Apply
    <3>2. moved[d] # NoLines
      BY <3>1 DEF AlreadyMoved, NoLines
    <3> QED
      BY <3>1, <3>2 DEF DocInv, MovesAreWhole
  <2>2. CASE ~NoEffects(d)
    <3>1. \A p \in Products : moved[d][p] = 0
      BY <2>2 DEF NoEffects, AlreadyMoved
    <3>2. moved'[d] = [p \in Products |-> moved[d][p] + Moves(d)[p]]
      BY <2>2 DEF Apply, DocInv, TypeOK
    <3>3. \A p \in Products : moved[d][p] + Moves(d)[p] = Moves(d)[p]
      BY <3>1, <1>4
    <3>4. [p \in Products |-> moved[d][p] + Moves(d)[p]] = [p \in Products |-> Moves(d)[p]]
      BY <3>3
    <3> QED
      BY <3>2, <3>4, <1>4
  <2> QED
    BY <2>1, <2>2
<1>6. \A e \in Docs : e # d => moved'[e] = moved[e] /\ event'[e] = event[e]
  <2>1. CASE NoEffects(d)
    BY <2>1, <1>1 DEF Apply, DocInv, TypeOK
  <2>2. CASE ~NoEffects(d)
    BY <2>2, <1>1 DEF Apply, DocInv, TypeOK
  <2> QED
    BY <2>1, <2>2
<1>7. EffectsOnce'
  <2> SUFFICES ASSUME NEW e \in Docs, status'[e] = "completed"
               PROVE  moved'[e] = IF event'[e] \in {"done", "again"} THEN Moves(e)' ELSE NoLines
    BY DEF EffectsOnce, NoLines
  <2>1. CASE e = d
    <3>1. event'[d] = "done"
      BY <1>1 DEF DocInv, TypeOK
    <3> QED
      BY <2>1, <3>1, <1>1, <1>3, <1>5
  <2>2. CASE e # d
    BY <2>2, <1>1, <1>3, <1>6 DEF EffectsOnce
  <2> QED
    BY <2>1, <2>2
<1>8. AllRows'
  <2> SUFFICES ASSUME NEW p \in Products
               PROVE  stock'[p] = adjusted'[p] + SumFunction(Rows(p))'
    BY DEF AllRows
  <2>1. CASE NoEffects(d)
    <3>1. UNCHANGED <<stock, moved>>
      BY <2>1 DEF Apply
    <3> QED
      BY <3>1, <1>1, RowsSame DEF AllRows
  <2>2. CASE ~NoEffects(d)
    <3>1. stock'[p] = stock[p] + Moves(d)[p] /\ moved'[d][p] = moved[d][p] + Moves(d)[p]
      BY <2>2 DEF Apply, Shifted, DocInv, TypeOK
    <3>2. SumFunction(Rows(p))' = SumFunction(Rows(p)) + (moved'[d][p] + undone'[d][p])
                                                       - (moved[d][p] + undone[d][p])
      BY <1>1, <1>6, RowsChange DEF DocInv
    <3>3. /\ moved[d][p] \in Int /\ undone[d][p] \in Int /\ Moves(d)[p] \in Int
          /\ stock[p] \in Int /\ adjusted[p] \in Int
          /\ SumFunction(Rows(p)) \in Int
      BY <1>4, RowsType DEF DocInv, TypeOK
    <3>4. stock[p] = adjusted[p] + SumFunction(Rows(p))
      BY DEF AllRows
    <3>5. SumFunction(Rows(p))' = SumFunction(Rows(p)) + Moves(d)[p]
      BY <3>1, <3>2, <3>3, <1>1
    <3> QED
      BY <3>1, <3>3, <3>4, <3>5, <1>1
  <2> QED
    BY <2>1, <2>2
<1> QED
  BY <1>2, <1>5, <1>7, <1>8

LEMMA CancelRows ==
  ASSUME RowsInv, NEW d \in Docs, Cancel(d), DocInv'
  PROVE  RowsInv'
<1> USE DEF RowsInv
<1>1. /\ status' = [status EXCEPT ![d] = "cancelled"]
      /\ stock' = [p \in Products |-> stock[p] + (0 - moved[d][p])]
      /\ undone' = [undone EXCEPT ![d] = [p \in Products |-> undone[d][p] - moved[d][p]]]
      /\ UNCHANGED <<products, adjusted, lines, moved, event>>
  BY DEF Cancel, Shifted, catalog, written
<1>2. NamesProducts'
  BY <1>1 DEF NamesProducts
<1>3. EffectsOnce'
  <2> SUFFICES ASSUME NEW e \in Docs, status'[e] = "completed"
               PROVE  moved'[e] = IF event'[e] \in {"done", "again"} THEN Moves(e)' ELSE NoLines
    BY DEF EffectsOnce, NoLines
  <2>1. status[e] = "completed"
    BY <1>1 DEF DocInv, TypeOK
  <2>2. Moves(e)' = Moves(e)
    BY <1>1 DEF Moves
  <2> QED
    BY <2>1, <2>2, <1>1 DEF EffectsOnce
<1>4. AllRows'
  <2> SUFFICES ASSUME NEW p \in Products
               PROVE  stock'[p] = adjusted'[p] + SumFunction(Rows(p))'
    BY DEF AllRows
  <2>1. undone'[d][p] = undone[d][p] - moved[d][p]
    BY <1>1 DEF DocInv, TypeOK
  <2>2. \A e \in Docs : e # d => undone'[e] = undone[e]
    BY <1>1 DEF DocInv, TypeOK
  <2>3. SumFunction(Rows(p))' = SumFunction(Rows(p)) + (moved'[d][p] + undone'[d][p])
                                                     - (moved[d][p] + undone[d][p])
    BY <1>1, <2>2, RowsChange DEF DocInv
  <2>4. /\ moved[d][p] \in Int /\ undone[d][p] \in Int
        /\ stock[p] \in Int /\ adjusted[p] \in Int
        /\ SumFunction(Rows(p)) \in Int
    BY RowsType DEF DocInv, TypeOK
  <2>5. stock[p] = adjusted[p] + SumFunction(Rows(p))
    BY DEF AllRows
  <2>6. SumFunction(Rows(p))' = SumFunction(Rows(p)) - moved[d][p]
    BY <2>1, <2>3, <2>4, <1>1
  <2> QED
    BY <2>4, <2>5, <2>6, <1>1
<1> QED
  BY <1>2, <1>3, <1>4

\* Steps that neither move stock nor add, remove or apply a document.
LEMMA OtherRows ==
  ASSUME RowsInv, DocInv',
         UNCHANGED <<products, stock, adjusted, status, lines, moved, undone>>,
         \A d \in Docs : event'[d] \in {"done", "again"} <=> event[d] \in {"done", "again"}
  PROVE  RowsInv'
<1>1. NamesProducts'
  BY DEF RowsInv, NamesProducts
<1>2. EffectsOnce'
  BY DEF RowsInv, EffectsOnce, Moves, NoLines
<1>3. AllRows'
  BY RowsSame DEF RowsInv, AllRows
<1> QED
  BY <1>1, <1>2, <1>3 DEF RowsInv

\* What a new product or a correction brings in is a movement row of its own.
LEMMA StockRows ==
  ASSUME RowsInv, DocInv', NEW p \in Products, NEW n \in Int,
         \/ products' = products \cup {p} /\ p \notin products
              /\ stock' = [stock EXCEPT ![p] = n] /\ adjusted' = [adjusted EXCEPT ![p] = n]
         \/ products' = products
              /\ stock' = [stock EXCEPT ![p] = stock[p] + n]
              /\ adjusted' = [adjusted EXCEPT ![p] = adjusted[p] + n],
         UNCHANGED <<status, lines, event, moved, undone>>
  PROVE  RowsInv'
<1> USE DEF RowsInv
<1>1. NamesProducts'
  BY DEF NamesProducts
<1>2. EffectsOnce'
  BY DEF EffectsOnce, Moves, NoLines
<1>3. AllRows'
  <2> SUFFICES ASSUME NEW q \in Products
               PROVE  stock'[q] = adjusted'[q] + SumFunction(Rows(q))'
    BY DEF AllRows
  <2>1. SumFunction(Rows(q))' = SumFunction(Rows(q))
    BY RowsSame
  <2>2. /\ stock \in [Products -> Int] /\ adjusted \in [Products -> Int]
        /\ SumFunction(Rows(q)) \in Int
    BY RowsType DEF DocInv, TypeOK
  <2>3. stock[q] = adjusted[q] + SumFunction(Rows(q))
    BY DEF AllRows
  <2>4. CASE q # p
    BY <2>1, <2>2, <2>3, <2>4
  <2>5. CASE q = p /\ products' = products \cup {p} /\ p \notin products
    <3>1. SumFunction(Rows(q)) = 0
      BY <2>5, RowsOfNone DEF DocInv, NamesProducts
    <3>2. stock'[q] = n /\ adjusted'[q] = n
      BY <2>2, <2>5
    <3> QED
      BY <3>1, <3>2, <2>1
  <2>6. CASE q = p /\ ~(products' = products \cup {p} /\ p \notin products)
    <3>1. stock'[q] = stock[q] + n /\ adjusted'[q] = adjusted[q] + n
      BY <2>2, <2>6
    <3> QED
      BY <3>1, <2>1, <2>2, <2>3
  <2> QED
    BY <2>4, <2>5, <2>6
<1> QED
  BY <1>1, <1>2, <1>3

LEMMA DeleteRows ==
  ASSUME RowsInv, DocInv', NEW p \in Products, DeleteProduct(p)
  PROVE  RowsInv'
<1> USE DEF RowsInv
<1>1. /\ \A d \in Docs : lines[d][p] = 0
      /\ products' = products \ {p}
      /\ stock' = [stock EXCEPT ![p] = 0]
      /\ adjusted' = [adjusted EXCEPT ![p] = 0]
      /\ UNCHANGED <<lines, status, event>>
  BY DEF DeleteProduct, Deletable, written
<1>2. \A d \in Docs : moved'[d] = moved[d] /\ undone'[d] = undone[d]
  BY DeleteProductKeeps
<1>3. NamesProducts'
  BY <1>1 DEF NamesProducts
<1>4. EffectsOnce'
  BY <1>1, <1>2 DEF EffectsOnce, Moves, NoLines
<1>5. AllRows'
  <2> SUFFICES ASSUME NEW q \in Products
               PROVE  stock'[q] = adjusted'[q] + SumFunction(Rows(q))'
    BY DEF AllRows
  <2>1. SumFunction(Rows(q))' = SumFunction(Rows(q))
    BY <1>2, RowsSame
  <2>2. stock \in [Products -> Int] /\ adjusted \in [Products -> Int]
    BY DEF DocInv, TypeOK
  <2>3. CASE q # p
    BY <2>1, <2>2, <2>3, <1>1 DEF AllRows
  <2>4. CASE q = p
    <3>1. SumFunction(Rows(q)) = 0
      BY <2>4, <1>1, RowsOfNone DEF DocInv
    <3> QED
      BY <3>1, <2>1, <2>2, <2>4, <1>1
  <2> QED
    BY <2>3, <2>4
<1> QED
  BY <1>3, <1>4, <1>5

LEMMA RowsNext == RowsInv /\ [Next]_vars => RowsInv'
<1> SUFFICES ASSUME RowsInv, [Next]_vars PROVE RowsInv'
  OBVIOUS
<1>0. DocInv /\ DocInv'
  BY DocNext DEF RowsInv
<1>1. ASSUME NEW s \in Sales, NEW x \in Parties \cup {NoParty}, NEW ls \in Baskets,
             NEW t \in Totals, NEW amount \in PaidAtOnce, CreateSale(s, x, ls, t, amount)
      PROVE  RowsInv'
  BY <1>0, <1>1, CreateRows DEF CreateSale, Docs
<1>2. ASSUME NEW b \in Purchases, NEW x \in Parties \cup {NoParty}, NEW ls \in Baskets,
             NEW t \in Totals, NEW amount \in PaidAtOnce, CreatePurchase(b, x, ls, t, amount)
      PROVE  RowsInv'
  BY <1>0, <1>2, CreateRows DEF CreatePurchase, Docs
<1>3. ASSUME NEW d \in Docs, ApplySale(d) \/ ApplyPurchase(d) PROVE RowsInv'
  BY <1>0, <1>3, ApplyRows DEF ApplySale, ApplyPurchase
<1>4. ASSUME NEW d \in Docs, CancelSale(d) \/ CancelPurchase(d) PROVE RowsInv'
  BY <1>0, <1>4, CancelRows DEF CancelSale, CancelPurchase
<1>5. ASSUME NEW p \in Products, NEW n \in Quantities, CreateProduct(p, n) PROVE RowsInv'
  <2>1. n \in Int
    BY LedgerAssumption
  <2> QED
    BY <1>0, <1>5, <2>1, StockRows DEF CreateProduct, written
<1>6. ASSUME NEW p \in Products, NEW n \in Corrections, AdjustStock(p, n) PROVE RowsInv'
  <2>1. n \in Int
    BY LedgerAssumption
  <2> QED
    BY <1>0, <1>6, <2>1, StockRows DEF AdjustStock, Shifted, written
<1>7. ASSUME NEW p \in Products, DeleteProduct(p) PROVE RowsInv'
  BY <1>0, <1>7, DeleteRows
<1>8. ASSUME NEW d \in Docs, Replay(d) PROVE RowsInv'
  <2>1. \A e \in Docs : event'[e] \in {"done", "again"} <=> event[e] \in {"done", "again"}
    BY <1>0, <1>8 DEF Replay, DocInv, TypeOK
  <2> QED
    BY <1>0, <1>8, <2>1, OtherRows DEF Replay, catalog, written
<1>9. \/ UNCHANGED vars
      \/ \E d \in Docs, amount \in Payments : RecordPayment(d, amount)
      \/ \E x \in Parties : SettleParty(x)
      \/ \E t \in Types : SettleAll(t)
      \/ \E x \in Parties, t \in Types, b \in Openings : CreateParty(x, t, b)
      \/ \E x \in Parties, t \in Types : UpdateParty(x, t)
      \/ \E x \in Parties : DeleteParty(x)
      => RowsInv'
  <2> SUFFICES ASSUME \/ UNCHANGED vars
                      \/ \E d \in Docs, amount \in Payments : RecordPayment(d, amount)
                      \/ \E x \in Parties : SettleParty(x)
                      \/ \E t \in Types : SettleAll(t)
                      \/ \E x \in Parties, t \in Types, b \in Openings : CreateParty(x, t, b)
                      \/ \E x \in Parties, t \in Types : UpdateParty(x, t)
                      \/ \E x \in Parties : DeleteParty(x)
               PROVE  RowsInv'
    OBVIOUS
  <2>1. UNCHANGED <<products, stock, adjusted, status, lines, event, moved, undone>>
    BY DEF vars, catalog, written, RecordPayment, SettleParty, SettleAll, CreateParty,
           UpdateParty, DeleteParty
  <2> QED
    BY <1>0, <2>1, OtherRows
<1> QED
  BY <1>1, <1>2, <1>3, <1>4, <1>5, <1>6, <1>7, <1>8, <1>9 DEF Next

LEMMA RowsInvariance == Spec => []RowsInv
BY RowsInit, RowsNext, PTL DEF Spec

\* The movement rows of a product explain its stock whatever operations, late
\* events, cancellations and replays have done, also when ids are used again.
THEOREM StockIsExplained == Spec => []StockIsLedger
<1>1. RowsInv => StockIsLedger
  BY DEF RowsInv, AllRows, StockIsLedger, DocInv, TypeOK
<1> QED
  BY <1>1, RowsInvariance, PTL

-----------------------------------------------------------------------------
(* Overselling.                                                            *)

\* The movements that recorded sales have not made yet.
Promised(p) == [s \in Sales |-> IF status[s] = "completed" /\ event[s] = "pending"
                                THEN 0 - lines[s][p] ELSE 0]

\* The stock covers what is promised, but for what cancelled receipts took back.
Covers(p) == stock[p] + SumFunction(Promised(p)) >= SumFunction(TakenBack(p))

StockedInv == RowsInv /\ \A p \in products \ rushed : Covers(p)

\* Moved rows of a purchase bring in; what its cancellation adds takes back.
LEMMA TakenBackSign ==
  ASSUME TypeOK, MovesAreWhole, NEW p \in Products
  PROVE  /\ TakenBack(p) \in [Purchases -> Int]
         /\ SumFunction(TakenBack(p)) \in Int
         /\ SumFunction(TakenBack(p)) <= 0
<1>1. ASSUME NEW b \in Purchases PROVE undone[b][p] \in Int /\ undone[b][p] <= 0
  <2>1. b \in Docs /\ b \notin Sales
    BY LedgerAssumption DEF Docs
  <2>2. lines[b][p] \in Nat /\ undone[b][p] \in Int /\ moved[b][p] \in Int
    BY <2>1 DEF TypeOK
  <2>3. Moves(b) = lines[b] /\ NoLines[p] = 0
    BY <2>1 DEF Moves, NoLines
  <2>4. moved[b][p] >= 0
    <3>1. moved[b] = NoLines \/ moved[b] = Moves(b)
      BY <2>1 DEF MovesAreWhole
    <3> QED
      BY <3>1, <2>2, <2>3
  <2>5. undone[b] = [q \in Products |-> 0 - moved[b][q]] \/ undone[b] = NoLines
    BY <2>1 DEF MovesAreWhole
  <2> QED
    BY <2>2, <2>3, <2>4, <2>5
<1>2. TakenBack(p) \in [Purchases -> Int] /\ \A b \in Purchases : TakenBack(p)[b] <= 0
  BY <1>1 DEF TakenBack
<1> QED
  BY <1>2, LedgerAssumption, SumBounds

LEMMA TakenBackSame ==
  ASSUME NEW p \in Products, \A b \in Purchases : undone'[b][p] = undone[b][p]
  PROVE  SumFunction(TakenBack(p))' = SumFunction(TakenBack(p))
<1>1. TakenBack(p)' = TakenBack(p)
  BY DEF TakenBack
<1> QED
  BY <1>1

LEMMA TakenBackChange ==
  ASSUME TypeOK, TypeOK', NEW p \in Products, NEW d \in Purchases,
         \A e \in Purchases : e # d => undone'[e][p] = undone[e][p]
  PROVE  SumFunction(TakenBack(p))' = SumFunction(TakenBack(p)) + undone'[d][p] - undone[d][p]
<1>1. TakenBack(p) \in [Purchases -> Int] /\ TakenBack(p)' \in [Purchases -> Int]
  BY DEF TakenBack, TypeOK, Docs
<1>2. \A e \in Purchases : e # d => TakenBack(p)'[e] = TakenBack(p)[e]
  BY DEF TakenBack
<1>3. SumFunction(TakenBack(p)') = SumFunction(TakenBack(p)) + TakenBack(p)'[d] - TakenBack(p)[d]
  BY <1>1, <1>2, LedgerAssumption, SumChange
<1> QED
  BY <1>3 DEF TakenBack

LEMMA PromisedType ==
  ASSUME TypeOK, NEW p \in Products
  PROVE  /\ Promised(p) \in [Sales -> Int]
         /\ SumFunction(Promised(p)) \in Int
         /\ SumFunction(Promised(p)) <= 0
         /\ ~Waits(p) => SumFunction(Promised(p)) = 0
<1>1. \A s \in Sales : lines[s][p] \in Nat
  BY DEF TypeOK, Docs
<1>2. Promised(p) \in [Sales -> Int] /\ \A s \in Sales : Promised(p)[s] <= 0
  BY <1>1 DEF Promised
<1>3. ~Waits(p) => \A s \in Sales : Promised(p)[s] = 0
  BY <1>1 DEF Promised, Waits
<1> QED
  BY <1>2, <1>3, LedgerAssumption, SumBounds

LEMMA PromisedSame ==
  ASSUME NEW p \in Products, \A s \in Sales : Promised(p)'[s] = Promised(p)[s]
  PROVE  SumFunction(Promised(p))' = SumFunction(Promised(p))
<1>1. Promised(p)' = Promised(p)
  BY DEF Promised
<1> QED
  BY <1>1

LEMMA PromisedChange ==
  ASSUME TypeOK, TypeOK', NEW p \in Products, NEW d \in Sales,
         \A s \in Sales : s # d => Promised(p)'[s] = Promised(p)[s]
  PROVE  SumFunction(Promised(p))' = SumFunction(Promised(p)) + Promised(p)'[d] - Promised(p)[d]
<1>1. Promised(p) \in [Sales -> Int]
  BY PromisedType
<1>2. Promised(p)' \in [Sales -> Int]
  BY DEF Promised, TypeOK, Docs
<1>3. \A s \in Sales : s # d => Promised(p)'[s] = Promised(p)[s]
  OBVIOUS
<1>4. SumFunction(Promised(p)') = SumFunction(Promised(p)) + Promised(p)'[d] - Promised(p)[d]
  BY <1>1, <1>2, <1>3, LedgerAssumption, SumChange
<1> QED
  BY <1>4

LEMMA StockedInit == Init => StockedInv
<1> SUFFICES ASSUME Init PROVE StockedInv
  OBVIOUS
<1>1. RowsInv
  BY RowsInit
<1>2. products = {}
  BY DEF Init
<1> QED
  BY <1>1, <1>2 DEF StockedInv

\* A new sale takes what the stock covers, and nothing else waits for it.
LEMMA CreateStocked ==
  ASSUME StockedInv, RowsInv', NEW d \in Docs, NEW x \in Parties \cup {NoParty},
         NEW ls \in Baskets, NEW t \in Totals, NEW amount \in PaidAtOnce,
         Create(d, x, ls, t, amount),
         \/ d \in Sales /\ Covered(ls) /\ rushed' = Rushed(ls)
         \/ d \in Purchases /\ rushed' = rushed
  PROVE  StockedInv'
<1> USE DEF StockedInv
<1>0. TypeOK /\ TypeOK' /\ MovesAreWhole
  BY DEF RowsInv, DocInv
<1>1. /\ status[d] = "absent"
      /\ status' = [status EXCEPT ![d] = "completed"]
      /\ event' = [event EXCEPT ![d] = "pending"]
      /\ lines' = [lines EXCEPT ![d] = ls]
      /\ UNCHANGED <<products, stock, undone>>
  BY DEF Create, catalog
<1> SUFFICES ASSUME NEW p \in products, p \notin rushed'
             PROVE  Covers(p)'
  BY <1>1
<1>2. p \in Products /\ p \notin rushed /\ Covers(p)
  BY <1>0 DEF TypeOK, Rushed
<1>3. SumFunction(TakenBack(p))' = SumFunction(TakenBack(p))
  BY <1>1, <1>2, TakenBackSame
<1>4. \A s \in Sales : s # d => Promised(p)'[s] = Promised(p)[s]
  BY <1>0, <1>1 DEF Promised, TypeOK, Docs
<1>5. CASE d \in Purchases
  <2>1. d \notin Sales
    BY <1>5, LedgerAssumption
  <2>2. SumFunction(Promised(p))' = SumFunction(Promised(p))
    BY <1>2, <1>4, <2>1, PromisedSame
  <2> QED
    BY <1>1, <1>2, <1>3, <2>2 DEF Covers
<1>6. CASE d \in Sales /\ Covered(ls) /\ rushed' = Rushed(ls)
  <2>1. /\ Promised(p)[d] = 0
        /\ Promised(p)'[d] = 0 - ls[p]
        /\ ls[p] \in Nat
    BY <1>0, <1>1, <1>2, <1>6 DEF Promised, TypeOK
  <2>2. SumFunction(Promised(p))' = SumFunction(Promised(p)) - ls[p]
    BY <1>0, <1>2, <1>4, <1>6, <2>1, PromisedChange, PromisedType
  <2>3. /\ SumFunction(TakenBack(p)) \in Int /\ SumFunction(TakenBack(p)) <= 0
        /\ SumFunction(Promised(p)) \in Int /\ stock[p] \in Int
    BY <1>0, <1>2, TakenBackSign, PromisedType DEF TypeOK
  <2>4. CASE ls[p] = 0
    BY <1>1, <1>2, <1>3, <2>2, <2>3, <2>4 DEF Covers
  <2>5. CASE ls[p] > 0
    <3>1. ~Waits(p) /\ ls[p] <= stock[p]
      BY <1>2, <1>6, <2>5 DEF Rushed, Covered
    <3>2. SumFunction(Promised(p)) = 0
      BY <1>0, <1>2, <3>1, PromisedType
    <3> QED
      BY <1>1, <1>3, <2>1, <2>2, <2>3, <3>1, <3>2 DEF Covers
  <2> QED
    BY <2>1, <2>4, <2>5
<1> QED
  BY <1>5, <1>6

\* The event of a sale takes what was promised.
LEMMA ApplyStocked ==
  ASSUME StockedInv, RowsInv', NEW d \in Docs, Apply(d)
  PROVE  StockedInv'
<1> USE DEF StockedInv
<1>0. TypeOK /\ TypeOK' /\ MovesAreWhole
  BY DEF RowsInv, DocInv
<1>1. /\ event[d] \in {"pending", "again"}
      /\ event' = [event EXCEPT ![d] = "done"]
      /\ UNCHANGED <<products, rushed, lines, status, undone>>
  BY DEF Apply, catalog, written
<1> SUFFICES ASSUME NEW p \in products, p \notin rushed
             PROVE  Covers(p)'
  BY <1>1
<1>2. p \in Products /\ Covers(p)
  BY <1>0 DEF TypeOK
<1>3. SumFunction(TakenBack(p))' = SumFunction(TakenBack(p))
  BY <1>1, <1>2, TakenBackSame
<1>4. \A s \in Sales : s # d => Promised(p)'[s] = Promised(p)[s]
  BY <1>0, <1>1 DEF Promised, TypeOK, Docs
<1>5. /\ SumFunction(TakenBack(p)) \in Int
      /\ SumFunction(Promised(p)) \in Int
      /\ stock[p] \in Int /\ lines[d][p] \in Nat
      /\ stock \in [Products -> Int]
  BY <1>0, <1>2, TakenBackSign, PromisedType DEF TypeOK
<1>6. CASE d \notin Sales
  <2>1. SumFunction(Promised(p))' = SumFunction(Promised(p))
    BY <1>2, <1>4, <1>6, PromisedSame
  <2>2. stock'[p] \in Int /\ stock'[p] >= stock[p]
    <3>1. Moves(d)[p] = lines[d][p]
      BY <1>6 DEF Moves
    <3>2. stock' = stock \/ stock'[p] = stock[p] + Moves(d)[p]
      BY <1>2 DEF Apply, Shifted
    <3> QED
      BY <1>5, <3>1, <3>2
  <2> QED
    BY <1>2, <1>3, <1>5, <2>1, <2>2 DEF Covers
<1>7. CASE d \in Sales
  <2>1. Promised(p)'[d] = 0
    BY <1>0, <1>1, <1>7 DEF Promised, TypeOK
  <2>2. SumFunction(Promised(p))' = SumFunction(Promised(p)) - Promised(p)[d]
    BY <1>0, <1>2, <1>4, <1>5, <1>7, <2>1, PromisedChange, PromisedType
  <2>3. CASE NoEffects(d)
    <3>1. stock' = stock
      BY <2>3 DEF Apply
    <3>2. status[d] # "completed" \/ event[d] # "pending"
      BY <2>3 DEF NoEffects, AlreadyMoved, RowsInv, EffectsOnce, NoLines
    <3>3. Promised(p)[d] = 0
      BY <1>7, <3>2 DEF Promised
    <3> QED
      BY <1>2, <1>3, <1>5, <2>2, <3>1, <3>3 DEF Covers
  <2>4. CASE ~NoEffects(d)
    <3>1. stock'[p] = stock[p] - lines[d][p]
      <4>1. Moves(d)[p] = 0 - lines[d][p]
        BY <1>2, <1>7 DEF Moves
      <4>2. stock'[p] = stock[p] + Moves(d)[p]
        BY <1>2, <2>4 DEF Apply, Shifted
      <4> QED
        BY <1>5, <4>1, <4>2
    <3>2. status[d] = "completed"
      BY <1>0, <1>1, <2>4 DEF NoEffects, TypeOK
    <3>3. Promised(p)[d] = 0 - lines[d][p]
      <4>1. CASE event[d] = "pending"
        BY <1>7, <3>2, <4>1 DEF Promised
      <4>2. CASE event[d] = "again"
        <5>1. moved[d] = Moves(d)
          BY <3>2, <4>2 DEF RowsInv, EffectsOnce
        <5>2. Moves(d)[p] = 0 - lines[d][p] /\ moved[d][p] = 0
          BY <1>2, <1>7, <2>4 DEF Moves, NoEffects, AlreadyMoved
        <5> QED
          BY <1>5, <1>7, <4>2, <5>1, <5>2 DEF Promised
      <4> QED
        BY <1>1, <4>1, <4>2
    <3> QED
      BY <1>2, <1>3, <1>5, <2>2, <3>1, <3>3 DEF Covers
  <2> QED
    BY <2>3, <2>4
<1> QED
  BY <1>6, <1>7

\* A cancelled sale gives back or promises no more; a cancelled purchase takes
\* back what it brought, and its rows say so.
LEMMA CancelStocked ==
  ASSUME StockedInv, RowsInv', NEW d \in Docs, Cancel(d)
  PROVE  StockedInv'
<1> USE DEF StockedInv
<1>0. TypeOK /\ TypeOK' /\ MovesAreWhole
  BY DEF RowsInv, DocInv
<1>1. /\ status[d] = "completed"
      /\ status' = [status EXCEPT ![d] = "cancelled"]
      /\ stock' = [p \in Products |-> stock[p] + (0 - moved[d][p])]
      /\ undone' = [undone EXCEPT ![d] = [p \in Products |-> undone[d][p] - moved[d][p]]]
      /\ UNCHANGED <<products, rushed, lines, moved, event>>
  BY DEF Cancel, Shifted, catalog, written
<1> SUFFICES ASSUME NEW p \in products, p \notin rushed
             PROVE  Covers(p)'
  BY <1>1
<1>2. p \in Products /\ Covers(p)
  BY <1>0 DEF TypeOK
<1>3. /\ SumFunction(TakenBack(p)) \in Int
      /\ SumFunction(Promised(p)) \in Int
      /\ stock[p] \in Int /\ lines[d][p] \in Nat
      /\ moved[d][p] \in Int /\ undone[d][p] \in Int
  BY <1>0, <1>2, TakenBackSign, PromisedType DEF TypeOK
<1>4. stock'[p] = stock[p] - moved[d][p]
  BY <1>1, <1>2, <1>3
<1>5. \A e \in Docs : e # d => undone'[e] = undone[e] /\ status'[e] = status[e]
  BY <1>0, <1>1 DEF TypeOK
<1>6. \A s \in Sales : s # d => Promised(p)'[s] = Promised(p)[s]
  BY <1>1, <1>5 DEF Promised, Docs
<1>7. CASE d \in Purchases
  <2>1. undone'[d][p] = undone[d][p] - moved[d][p]
    BY <1>0, <1>1, <1>2 DEF TypeOK
  <2>2. SumFunction(TakenBack(p))' = SumFunction(TakenBack(p)) + undone'[d][p] - undone[d][p]
    BY <1>0, <1>2, <1>5, <1>7, TakenBackChange DEF Docs
  <2>3. d \notin Sales
    BY <1>7, LedgerAssumption
  <2>4. SumFunction(Promised(p))' = SumFunction(Promised(p))
    BY <1>2, <1>6, <2>3, PromisedSame
  <2> QED
    BY <1>2, <1>3, <1>4, <2>1, <2>2, <2>4 DEF Covers
<1>8. CASE d \notin Purchases
  <2>1. SumFunction(TakenBack(p))' = SumFunction(TakenBack(p))
    BY <1>2, <1>5, <1>8, TakenBackSame DEF Docs
  <2>2. d \in Sales
    BY <1>8 DEF Docs
  <2>3. moved[d][p] <= 0
    <3>1. Moves(d)[p] = 0 - lines[d][p] /\ NoLines[p] = 0
      BY <1>2, <2>2 DEF Moves, NoLines
    <3>2. moved[d] = NoLines \/ moved[d] = Moves(d)
      BY <1>0 DEF MovesAreWhole
    <3> QED
      BY <1>3, <3>1, <3>2
  <2>4. Promised(p)'[d] = 0
    BY <1>0, <1>1, <2>2 DEF Promised, TypeOK
  <2>5. Promised(p)[d] \in Int /\ Promised(p)[d] <= 0
    BY <1>3, <2>2 DEF Promised
  <2>6. SumFunction(Promised(p))' = SumFunction(Promised(p)) - Promised(p)[d]
    BY <1>0, <1>2, <1>3, <1>6, <2>2, <2>4, <2>5, PromisedChange
  <2> QED
    BY <1>2, <1>3, <1>4, <2>1, <2>3, <2>5, <2>6 DEF Covers
<1> QED
  BY <1>7, <1>8

\* Steps that neither move stock nor add, cancel or apply a document.
LEMMA OtherStocked ==
  ASSUME StockedInv, RowsInv',
         UNCHANGED <<products, rushed, stock, status, lines, moved, undone>>,
         \A d \in Docs : event'[d] = "pending" <=> event[d] = "pending"
  PROVE  StockedInv'
<1> USE DEF StockedInv
<1> SUFFICES ASSUME NEW p \in products, p \notin rushed
             PROVE  Covers(p)'
  OBVIOUS
<1>1. p \in Products
  BY DEF RowsInv, DocInv, TypeOK
<1>2. SumFunction(TakenBack(p))' = SumFunction(TakenBack(p))
  BY <1>1, TakenBackSame
<1>3. \A s \in Sales : Promised(p)'[s] = Promised(p)[s]
  BY DEF Promised, Docs
<1>4. SumFunction(Promised(p))' = SumFunction(Promised(p))
  BY <1>1, <1>3, PromisedSame
<1> QED
  BY <1>2, <1>4 DEF Covers

\* A correction, or a new or deleted product, changes one stock, and where sales
\* wait for it only upwards.
LEMMA CatalogueStocked ==
  ASSUME StockedInv, RowsInv', UNCHANGED <<status, lines, event>>,
         \A d \in Docs, p \in Products : undone'[d][p] = undone[d][p],
         \A p \in products' \ rushed' :
           \/ p \in products \ rushed /\ stock'[p] >= stock[p]
           \/ ~Waits(p) /\ stock'[p] >= 0
  PROVE  StockedInv'
<1> USE DEF StockedInv
<1>0. TypeOK /\ TypeOK' /\ MovesAreWhole
  BY DEF RowsInv, DocInv
<1> SUFFICES ASSUME NEW p \in products' \ rushed'
             PROVE  Covers(p)'
  OBVIOUS
<1>1. p \in Products /\ stock[p] \in Int /\ stock'[p] \in Int
  BY <1>0 DEF TypeOK
<1>2. SumFunction(TakenBack(p))' = SumFunction(TakenBack(p))
  BY <1>1, TakenBackSame DEF Docs
<1>3. \A s \in Sales : Promised(p)'[s] = Promised(p)[s]
  BY DEF Promised
<1>4. SumFunction(Promised(p))' = SumFunction(Promised(p))
  BY <1>1, <1>3, PromisedSame
<1>5. /\ SumFunction(TakenBack(p)) \in Int /\ SumFunction(TakenBack(p)) <= 0
      /\ SumFunction(Promised(p)) \in Int
      /\ ~Waits(p) => SumFunction(Promised(p)) = 0
  BY <1>0, <1>1, TakenBackSign, PromisedType
<1>6. CASE p \in products \ rushed /\ stock'[p] >= stock[p]
  BY <1>1, <1>2, <1>4, <1>5, <1>6 DEF Covers
<1>7. CASE ~Waits(p) /\ stock'[p] >= 0
  BY <1>1, <1>2, <1>4, <1>5, <1>7 DEF Covers
<1> QED
  BY <1>6, <1>7

LEMMA StockedNext == StockedInv /\ [Next]_vars => StockedInv'
<1> SUFFICES ASSUME StockedInv, [Next]_vars PROVE StockedInv'
  OBVIOUS
<1>0. RowsInv /\ RowsInv' /\ TypeOK /\ TypeOK'
  BY RowsNext DEF StockedInv, RowsInv, DocInv
<1>1. ASSUME NEW s \in Sales, NEW x \in Parties \cup {NoParty}, NEW ls \in Baskets,
             NEW t \in Totals, NEW amount \in PaidAtOnce, CreateSale(s, x, ls, t, amount)
      PROVE  StockedInv'
  BY <1>0, <1>1, CreateStocked DEF CreateSale, Docs
<1>2. ASSUME NEW b \in Purchases, NEW x \in Parties \cup {NoParty}, NEW ls \in Baskets,
             NEW t \in Totals, NEW amount \in PaidAtOnce, CreatePurchase(b, x, ls, t, amount)
      PROVE  StockedInv'
  BY <1>0, <1>2, CreateStocked DEF CreatePurchase, Docs
<1>3. ASSUME NEW d \in Docs, ApplySale(d) \/ ApplyPurchase(d) PROVE StockedInv'
  BY <1>0, <1>3, ApplyStocked DEF ApplySale, ApplyPurchase
<1>4. ASSUME NEW d \in Docs, CancelSale(d) \/ CancelPurchase(d) PROVE StockedInv'
  BY <1>0, <1>4, CancelStocked DEF CancelSale, CancelPurchase
<1>5. ASSUME NEW p \in Products, NEW n \in Quantities, CreateProduct(p, n) PROVE StockedInv'
  <2>1. n \in Nat
    BY LedgerAssumption
  <2>2. /\ products' = products \cup {p} /\ p \notin products
        /\ stock' = [stock EXCEPT ![p] = n]
        /\ UNCHANGED <<rushed, status, lines, event, undone>>
    BY <1>5 DEF CreateProduct, written
  <2>3. stock \in [Products -> Int]
    BY <1>0 DEF TypeOK
  <2>4. ~Waits(p)
    BY <2>2 DEF StockedInv, RowsInv, NamesProducts, Waits, Docs
  <2>5. \A q \in products' \ rushed' :
           \/ q \in products \ rushed /\ stock'[q] >= stock[q]
           \/ ~Waits(q) /\ stock'[q] >= 0
    <3> SUFFICES ASSUME NEW q \in products' \ rushed'
                 PROVE  \/ q \in products \ rushed /\ stock'[q] >= stock[q]
                        \/ ~Waits(q) /\ stock'[q] >= 0
      OBVIOUS
    <3>1. CASE q = p
      BY <2>1, <2>2, <2>3, <2>4, <3>1
    <3>2. CASE q # p
      <4>1. q \in products \ rushed /\ q \in Products /\ stock'[q] = stock[q] /\ stock[q] \in Int
        BY <1>0, <2>2, <2>3, <3>2 DEF TypeOK
      <4> QED
        BY <4>1
    <3> QED
      BY <3>1, <3>2
  <2> QED
    BY <1>0, <2>2, <2>5, CatalogueStocked
<1>6. ASSUME NEW p \in Products, NEW n \in Corrections, AdjustStock(p, n) PROVE StockedInv'
  <2>1. /\ products' = products
        /\ stock' = [stock EXCEPT ![p] = stock[p] + n]
        /\ stock[p] + n >= 0
        /\ rushed' = Rushed([NoLines EXCEPT ![p] = 0 - n])
        /\ UNCHANGED <<status, lines, event, undone>>
    BY <1>6 DEF AdjustStock, Shifted, Correctable, written
  <2>2. stock \in [Products -> Int] /\ n \in Int
    BY <1>0, LedgerAssumption DEF TypeOK
  <2>3. rushed \subseteq rushed' /\ (0 - n > 0 /\ Waits(p) => p \in rushed')
    BY <2>1 DEF Rushed, NoLines
  <2>4. \A q \in products' \ rushed' :
           \/ q \in products \ rushed /\ stock'[q] >= stock[q]
           \/ ~Waits(q) /\ stock'[q] >= 0
    <3> SUFFICES ASSUME NEW q \in products' \ rushed'
                 PROVE  \/ q \in products \ rushed /\ stock'[q] >= stock[q]
                        \/ ~Waits(q) /\ stock'[q] >= 0
      OBVIOUS
    <3>1. q \in products \ rushed /\ q \in Products /\ stock[q] \in Int
      BY <1>0, <2>1, <2>2, <2>3 DEF TypeOK
    <3>2. CASE q = p
      BY <2>1, <2>2, <2>3, <3>1, <3>2
    <3>3. CASE q # p
      BY <2>1, <2>2, <3>1, <3>3
    <3> QED
      BY <3>2, <3>3
  <2> QED
    BY <1>0, <2>1, <2>4, CatalogueStocked
<1>7. ASSUME NEW p \in Products, DeleteProduct(p) PROVE StockedInv'
  <2>1. /\ products' = products \ {p} /\ rushed' = rushed \ {p}
        /\ stock' = [stock EXCEPT ![p] = 0]
        /\ UNCHANGED <<status, lines, event>>
    BY <1>7 DEF DeleteProduct, written
  <2>2. \A d \in Docs : undone'[d] = undone[d]
    BY <1>0, <1>7, DeleteProductKeeps DEF RowsInv
  <2>3. \A q \in products' \ rushed' : q \in products \ rushed /\ stock'[q] >= stock[q]
    BY <2>1, <1>0 DEF TypeOK
  <2> QED
    BY <1>0, <2>1, <2>2, <2>3, CatalogueStocked
<1>8. ASSUME NEW d \in Docs, Replay(d) PROVE StockedInv'
  <2>1. /\ UNCHANGED <<products, rushed, stock, status, lines, moved, undone>>
        /\ \A e \in Docs : event'[e] = "pending" <=> event[e] = "pending"
    BY <1>0, <1>8 DEF Replay, catalog, written, TypeOK
  <2> QED
    BY <1>0, <2>1, OtherStocked
<1>9. \/ UNCHANGED vars
      \/ \E d \in Docs, amount \in Payments : RecordPayment(d, amount)
      \/ \E x \in Parties : SettleParty(x)
      \/ \E t \in Types : SettleAll(t)
      \/ \E x \in Parties, t \in Types, b \in Openings : CreateParty(x, t, b)
      \/ \E x \in Parties, t \in Types : UpdateParty(x, t)
      \/ \E x \in Parties : DeleteParty(x)
      => StockedInv'
  <2> SUFFICES ASSUME \/ UNCHANGED vars
                      \/ \E d \in Docs, amount \in Payments : RecordPayment(d, amount)
                      \/ \E x \in Parties : SettleParty(x)
                      \/ \E t \in Types : SettleAll(t)
                      \/ \E x \in Parties, t \in Types, b \in Openings : CreateParty(x, t, b)
                      \/ \E x \in Parties, t \in Types : UpdateParty(x, t)
                      \/ \E x \in Parties : DeleteParty(x)
               PROVE  StockedInv'
    OBVIOUS
  <2>1. UNCHANGED <<products, rushed, stock, status, lines, event, moved, undone>>
    BY DEF vars, catalog, written, RecordPayment, SettleParty, SettleAll, CreateParty,
           UpdateParty, DeleteParty
  <2> QED
    BY <1>0, <2>1, OtherStocked
<1> QED
  BY <1>1, <1>2, <1>3, <1>4, <1>5, <1>6, <1>7, <1>8, <1>9 DEF Next

\* No sale, correction, late event or replay oversells, in any order, unless the
\* goods of a recorded sale were counted by the check of another sale or of a
\* correction: only taking back a receipt that was sold from leaves stock below
\* zero.
THEOREM NeverOversold == Spec => []NoOversell
<1>1. StockedInv => NoOversell
  <2> SUFFICES ASSUME StockedInv, NEW p \in products \ rushed
               PROVE  stock[p] >= SumFunction(TakenBack(p))
    BY DEF NoOversell
  <2>1. p \in Products /\ TypeOK /\ MovesAreWhole /\ stock[p] \in Int /\ Covers(p)
    BY DEF StockedInv, RowsInv, DocInv, TypeOK
  <2>2. /\ SumFunction(TakenBack(p)) \in Int
        /\ SumFunction(Promised(p)) \in Int /\ SumFunction(Promised(p)) <= 0
    BY <2>1, TakenBackSign, PromisedType
  <2> QED
    BY <2>1, <2>2 DEF Covers
<1> QED
  BY <1>1, StockedInit, StockedNext, PTL DEF Spec

-----------------------------------------------------------------------------
(* Balances.                                                               *)

\* The histories know the documents that are replayed without rows, and speak of
\* recorded ones.
HistoryInv ==
  \A d \in Docs : /\ d \in skewed => status[d] # "absent"
                  /\ event[d] = "again" /\ lines[d] = NoLines => d \in skewed

Skewing(x) == \E d \in skewed : party[d] = x

\* BalanceIsDues, and the same of ids that are not in use.
AllDues == \A x \in Parties : Skewing(x) \/ balance[x] = opening[x] + SumFunction(Dues(x))

DuesInv == RowsInv /\ HistoryInv /\ AllDues

LEMMA DuesValue ==
  ASSUME NEW x, NEW d \in Docs
  PROVE  Dues(x)[d] = IF /\ party[d] = x
                         /\ status[d] = "completed"
                         /\ event[d] \in {"done", "again"} THEN total[d] - paid[d] ELSE 0
BY DEF Dues, Booked, Due

LEMMA DuesType ==
  ASSUME TypeOK, NEW x
  PROVE  /\ Dues(x) \in [Docs -> Int]
         /\ SumFunction(Dues(x)) \in Int
         /\ (\A d \in Docs : Dues(x)[d] = 0) => SumFunction(Dues(x)) = 0
<1>1. Dues(x) \in [Docs -> Int]
  BY DEF Dues, Due, TypeOK
<1> QED
  BY <1>1, DocsFinite, SumBounds

LEMMA DuesSame ==
  ASSUME NEW x, \A d \in Docs : Dues(x)'[d] = Dues(x)[d]
  PROVE  SumFunction(Dues(x))' = SumFunction(Dues(x))
<1>1. Dues(x)' = Dues(x)
  BY DEF Dues
<1> QED
  BY <1>1

\* The balance of the party of a document moves by as much as the due amount of
\* the document that is booked.
LEMMA CreditedDues ==
  ASSUME TypeOK, TypeOK', AllDues, NEW d \in Docs, NEW amount \in Int,
         Credit(party[d], amount), opening' = opening,
         \A x \in Parties : Skewing(x) => Skewing(x)',
         \A x \in Parties, e \in Docs : e # d => Dues(x)'[e] = Dues(x)[e],
         \A x \in Parties : ~Skewing(x)' =>
           Dues(x)'[d] = Dues(x)[d] + (IF party[d] = x THEN amount ELSE 0)
  PROVE  AllDues'
<1> SUFFICES ASSUME NEW x \in Parties, ~Skewing(x)'
             PROVE  balance'[x] = opening'[x] + SumFunction(Dues(x))'
  BY DEF AllDues
<1>1. balance'[x] = balance[x] + (IF party[d] = x THEN amount ELSE 0)
  <2>1. x # NoParty /\ balance \in [Parties -> Int]
    BY LedgerAssumption DEF TypeOK
  <2> QED
    BY <2>1 DEF Credit
<1>2. Dues(x) \in [Docs -> Int] /\ Dues(x)' \in [Docs -> Int] /\ SumFunction(Dues(x)) \in Int
  <2>1. Dues(x)' \in [Docs -> Int]
    BY DEF Dues, Due, TypeOK
  <2> QED
    BY <2>1, DuesType
<1>3. SumFunction(Dues(x)') = SumFunction(Dues(x)) + Dues(x)'[d] - Dues(x)[d]
  <2>1. \A e \in Docs : e # d => Dues(x)'[e] = Dues(x)[e]
    OBVIOUS
  <2> QED
    BY <1>2, <2>1, DocsFinite, SumChange
<1>4. balance[x] = opening[x] + SumFunction(Dues(x))
  BY DEF AllDues
<1>5. balance[x] \in Int /\ opening[x] \in Int /\ Dues(x)[d] \in Int
  BY <1>2 DEF TypeOK
<1>6. PICK change \in Int : change = (IF party[d] = x THEN amount ELSE 0)
  OBVIOUS
<1>7. Dues(x)'[d] = Dues(x)[d] + change /\ balance'[x] = balance[x] + change
  BY <1>1, <1>6
<1> QED
  BY <1>2, <1>3, <1>4, <1>5, <1>6, <1>7

LEMMA UncreditedDues ==
  ASSUME AllDues, balance' = balance, opening' = opening,
         \A x \in Parties : Skewing(x) => Skewing(x)',
         \A x \in Parties, e \in Docs : Dues(x)'[e] = Dues(x)[e]
  PROVE  AllDues'
BY DuesSame DEF AllDues

-----------------------------------------------------------------------------
(* Balances, step by step.                                                 *)

LEMMA ApplyDues ==
  ASSUME RowsInv, TypeOK', HistoryInv, AllDues, NEW d \in Docs, Apply(d)
  PROVE  AllDues'
<1>0. TypeOK
  BY DEF RowsInv, DocInv
<1>1. /\ event[d] \in {"pending", "again"}
      /\ event' = [event EXCEPT ![d] = "done"]
      /\ UNCHANGED <<opening, status, party, lines, total, paid, skewed>>
  BY DEF Apply, written
<1>2. event'[d] = "done" /\ \A e \in Docs : e # d => event'[e] = event[e]
  BY <1>0, <1>1 DEF TypeOK
<1>3. ASSUME NEW x \in Parties, NEW e \in Docs, e # d PROVE Dues(x)'[e] = Dues(x)[e]
  BY <1>1, <1>2, <1>3, DuesValue DEF Dues, Booked, Due
<1>4. ASSUME status[d] = "completed", event[d] = "again", d \notin skewed
      PROVE  AlreadyMoved(d)
  <2>1. lines[d] # NoLines /\ lines[d] \in [Products -> Nat]
    BY <1>0, <1>4 DEF HistoryInv, TypeOK
  <2>2. PICK p \in Products : lines[d][p] # 0
    BY <2>1 DEF NoLines
  <2>3. moved[d] = Moves(d)
    BY <1>4 DEF RowsInv, EffectsOnce
  <2>4. Moves(d)[p] # 0
    BY <2>1, <2>2 DEF Moves
  <2> QED
    BY <2>3, <2>4 DEF AlreadyMoved
<1>5. ASSUME status[d] = "completed", event[d] = "pending"
      PROVE  ~AlreadyMoved(d)
  BY <1>5 DEF RowsInv, EffectsOnce, AlreadyMoved, NoLines
<1>s. \A x \in Parties : Skewing(x)' <=> Skewing(x)
  BY <1>1 DEF Skewing
<1>6. CASE NoEffects(d)
  <2>1. balance' = balance
    BY <1>6 DEF Apply
  <2>2. status[d] # "completed" \/ event[d] = "again"
    BY <1>1, <1>5, <1>6 DEF NoEffects
  <2>3. ASSUME NEW x \in Parties PROVE Dues(x)'[d] = Dues(x)[d]
    BY <1>1, <1>2, <2>2 DEF Dues, Booked, Due
  <2>4. \A x \in Parties, e \in Docs : Dues(x)'[e] = Dues(x)[e]
    BY <1>3, <2>3
  <2> QED
    BY <1>1, <1>s, <2>1, <2>4, UncreditedDues
<1>7. CASE ~NoEffects(d)
  <2>1. Credit(party[d], Due(d))
    BY <1>7 DEF Apply
  <2>2. status[d] = "completed" /\ (event[d] = "again" => d \in skewed)
    BY <1>0, <1>1, <1>4, <1>7 DEF NoEffects, TypeOK
  <2>3. Due(d) \in Int
    BY <1>0 DEF Due, TypeOK
  <2>4. ASSUME NEW x \in Parties, ~Skewing(x)'
        PROVE  Dues(x)'[d] = Dues(x)[d] + (IF party[d] = x THEN Due(d) ELSE 0)
    <3>1. CASE party[d] = x
      <4>1. event[d] = "pending"
        BY <1>1, <1>s, <2>2, <2>4, <3>1 DEF Skewing
      <4>2. Dues(x)[d] = 0
        BY <4>1 DEF Dues, Booked
      <4>3. Dues(x)'[d] = Due(d)
        BY <1>1, <1>2, <2>2, <3>1 DEF Dues, Booked, Due
      <4> QED
        BY <2>3, <3>1, <4>2, <4>3
    <3>2. CASE party[d] # x
      <4>1. Dues(x)[d] = 0 /\ Dues(x)'[d] = 0
        BY <1>1, <3>2 DEF Dues, Booked
      <4> QED
        BY <3>2, <4>1
    <3> QED
      BY <3>1, <3>2
  <2> QED
    BY <1>0, <1>1, <1>3, <1>s, <2>1, <2>3, <2>4, CreditedDues
<1> QED
  BY <1>6, <1>7

LEMMA CancelDues ==
  ASSUME RowsInv, TypeOK', AllDues, NEW d \in Docs, Cancel(d)
  PROVE  AllDues'
<1>0. TypeOK
  BY DEF RowsInv, DocInv
<1>1. /\ status[d] = "completed"
      /\ status' = [status EXCEPT ![d] = "cancelled"]
      /\ Credit(party[d], 0 - Due(d))
      /\ UNCHANGED <<opening, party, total, paid, event>>
      /\ skewed' = Skewed(d, Due(d))
  BY DEF Cancel, Reversal, written
<1>2. event[d] \in {"pending", "done", "again"}
  BY <1>0, <1>1 DEF TypeOK
<1>3. Due(d) \in Int /\ 0 - Due(d) \in Int
  BY <1>0 DEF Due, TypeOK
<1>4. status'[d] = "cancelled" /\ \A e \in Docs : e # d => status'[e] = status[e]
  BY <1>0, <1>1 DEF TypeOK
<1>s. \A x \in Parties : Skewing(x) => Skewing(x)'
  BY <1>1 DEF Skewing, Skewed
<1>5. ASSUME NEW x \in Parties, NEW e \in Docs, e # d PROVE Dues(x)'[e] = Dues(x)[e]
  BY <1>1, <1>4, <1>5 DEF Dues, Booked, Due
<1>6. ASSUME NEW x \in Parties, ~Skewing(x)'
      PROVE  Dues(x)'[d] = Dues(x)[d] + (IF party[d] = x THEN 0 - Due(d) ELSE 0)
  <2>1. Dues(x)'[d] = 0
    BY <1>4 DEF Dues, Booked
  <2>2. CASE party[d] # x
    <3>1. Dues(x)[d] = 0
      BY <2>2 DEF Dues, Booked
    <3> QED
      BY <2>1, <2>2, <3>1
  <2>3. CASE party[d] = x /\ event[d] = "pending"
    <3>1. Due(d) = 0
      BY <1>1, <1>6, <2>3 DEF Skewing, Skewed
    <3>2. Dues(x)[d] = 0
      BY <2>3 DEF Dues, Booked
    <3> QED
      BY <2>1, <3>1, <3>2
  <2>4. CASE party[d] = x /\ event[d] \in {"done", "again"}
    <3>1. Dues(x)[d] = Due(d)
      BY <1>1, <2>4 DEF Dues, Booked
    <3> QED
      BY <1>3, <2>1, <2>4, <3>1
  <2> QED
    BY <1>2, <2>2, <2>3, <2>4
<1> QED
  BY <1>0, <1>1, <1>3, <1>5, <1>6, <1>s, CreditedDues

LEMMA PaymentDues ==
  ASSUME RowsInv, TypeOK', AllDues, NEW d \in Docs,
         NEW amount \in Payments, RecordPayment(d, amount)
  PROVE  AllDues'
<1>0. TypeOK
  BY DEF RowsInv, DocInv
<1>1. PICK now :
        /\ paid' = [paid EXCEPT ![d] = now]
        /\ Credit(party[d], paid[d] - now)
        /\ skewed' = Skewed(d, paid[d] - now)
  BY DEF RecordPayment
<1>2. /\ status[d] = "completed"
      /\ UNCHANGED <<opening, status, party, total, event>>
  BY DEF RecordPayment, written
<1>3. event[d] \in {"pending", "done", "again"}
  BY <1>0, <1>2 DEF TypeOK
<1>4. paid'[d] = now /\ \A e \in Docs : e # d => paid'[e] = paid[e]
  BY <1>0, <1>1 DEF TypeOK
<1>5. now \in Int /\ paid[d] \in Int /\ total[d] \in Int
  BY <1>0, <1>4 DEF TypeOK
<1>s. \A x \in Parties : Skewing(x) => Skewing(x)'
  BY <1>1, <1>2 DEF Skewing, Skewed
<1>6. ASSUME NEW x \in Parties, NEW e \in Docs, e # d PROVE Dues(x)'[e] = Dues(x)[e]
  BY <1>2, <1>4, <1>6 DEF Dues, Booked, Due
<1>7. ASSUME NEW x \in Parties, ~Skewing(x)'
      PROVE  Dues(x)'[d] = Dues(x)[d] + (IF party[d] = x THEN paid[d] - now ELSE 0)
  <2>1. CASE party[d] # x \/ event[d] = "pending"
    <3>1. Dues(x)[d] = 0 /\ Dues(x)'[d] = 0
      BY <1>2, <2>1 DEF Dues, Booked
    <3>2. party[d] = x => paid[d] - now = 0
      BY <1>1, <1>2, <1>7, <2>1 DEF Skewing, Skewed
    <3> QED
      BY <3>1, <3>2
  <2>2. CASE party[d] = x /\ event[d] \in {"done", "again"}
    <3>1. Dues(x)[d] = total[d] - paid[d]
      BY <1>2, <2>2, DuesValue
    <3>2. Dues(x)'[d] = total[d] - now
      BY <1>2, <1>4, <2>2 DEF Dues, Booked, Due
    <3> QED
      BY <1>5, <2>2, <3>1, <3>2
  <2> QED
    BY <1>3, <2>1, <2>2
<1>8. paid[d] - now \in Int
  BY <1>5
<1> QED
  BY <1>0, <1>1, <1>2, <1>6, <1>7, <1>8, <1>s, CreditedDues

\* Settling leaves no due amount where it clears a balance, and leaves the
\* other parties and their documents alone, but for the strays.
LEMMA SettleDues ==
  ASSUME DocInv, TypeOK', AllDues, NEW D, NEW X \in SUBSET Parties, SettleDocs(D),
         balance' = [x \in Parties |-> IF x \in X THEN 0 ELSE balance[x]],
         opening' = [x \in Parties |-> IF x \in X THEN 0 ELSE opening[x]],
         skewed' = skewed \cup Strays(D, X),
         UNCHANGED <<status, party, total, event>>
  PROVE  AllDues'
<1> SUFFICES ASSUME NEW x \in Parties, ~Skewing(x)'
             PROVE  balance'[x] = opening'[x] + SumFunction(Dues(x))'
  BY DEF AllDues
<1>1. ~Skewing(x)
  BY DEF Skewing
<1>2. \A d \in Docs : total[d] \in Nat /\ paid[d] \in 0..total[d]
  BY DEF DocInv, TypeOK, PaymentAgrees
<1>3. \A d \in Docs : paid'[d] = IF d \in D /\ Open(d) THEN total[d] ELSE paid[d]
  BY DEF SettleDocs
<1>4. ASSUME NEW d \in Docs, party[d] = x, status[d] = "completed",
             event[d] \in {"done", "again"}, (d \in D) # (x \in X)
      PROVE  total[d] - paid[d] = 0
  <2>1. d \notin Strays(D, X) /\ party[d] # NoParty
    BY <1>4, LedgerAssumption DEF Skewing
  <2>2. ~(Due(d) > 0)
    BY <1>4, <2>1 DEF Strays
  <2> QED
    BY <1>2, <2>2 DEF Due
<1>5. CASE x \in X
  <2>1. ASSUME NEW d \in Docs PROVE Dues(x)'[d] = 0
    <3>1. ASSUME party[d] = x, status[d] = "completed", event[d] \in {"done", "again"}
          PROVE  total'[d] - paid'[d] = 0
      <4>1. CASE d \in D
        BY <1>2, <1>3, <3>1, <4>1 DEF Open, Due
      <4>2. CASE d \notin D
        <5>1. paid'[d] = paid[d]
          BY <1>3, <4>2
        <5>2. total[d] - paid[d] = 0
          BY <1>4, <1>5, <3>1, <4>2
        <5> QED
          BY <5>1, <5>2
      <4> QED
        BY <4>1, <4>2
    <3> QED
      BY <3>1 DEF Dues, Booked, Due
  <2>2. SumFunction(Dues(x)') = 0
    <3>1. Dues(x)' \in [Docs -> Int]
      BY DEF Dues, Due, TypeOK
    <3> QED
      BY <2>1, <3>1, DocsFinite, SumBounds
  <2> QED
    BY <1>5, <2>2
<1>6. CASE x \notin X
  <2>1. ASSUME NEW d \in Docs PROVE Dues(x)'[d] = Dues(x)[d]
    <3>1. ASSUME party[d] = x, status[d] = "completed", event[d] \in {"done", "again"}
          PROVE  paid'[d] = paid[d]
      <4>1. CASE d \in D
        <5>1. total[d] - paid[d] = 0
          BY <1>4, <1>6, <3>1, <4>1
        <5> QED
          BY <1>3, <5>1 DEF Open, Due
      <4>2. CASE d \notin D
        BY <1>3, <4>2
      <4> QED
        BY <4>1, <4>2
    <3> QED
      BY <3>1 DEF Dues, Booked, Due
  <2>2. SumFunction(Dues(x))' = SumFunction(Dues(x))
    BY <2>1, DuesSame
  <2> QED
    BY <1>1, <1>6, <2>2 DEF AllDues
<1> QED
  BY <1>5, <1>6

\* Parties come and go without documents.
LEMMA PartyDues ==
  ASSUME TypeOK, TypeOK', AllDues, NEW x \in Parties, NEW b \in Int,
         balance' = [balance EXCEPT ![x] = b], opening' = [opening EXCEPT ![x] = b],
         \A d \in Docs : party'[d] # x,
         \A d \in Docs : party'[d] = party[d] \/ (party[d] = x /\ party'[d] \notin Parties),
         UNCHANGED <<status, total, paid, event, skewed>>
  PROVE  AllDues'
<1> SUFFICES ASSUME NEW y \in Parties, ~Skewing(y)'
             PROVE  balance'[y] = opening'[y] + SumFunction(Dues(y))'
  BY DEF AllDues
<1>1. CASE y = x
  <2>1. \A d \in Docs : Dues(x)'[d] = 0
    BY DEF Dues, Booked
  <2>2. SumFunction(Dues(x)') = 0
    <3>1. Dues(x)' \in [Docs -> Int]
      BY DEF Dues, Due, TypeOK
    <3> QED
      BY <2>1, <3>1, DocsFinite, SumBounds
  <2>3. balance'[x] = b /\ opening'[x] = b
    BY DEF TypeOK
  <2> QED
    BY <1>1, <2>2, <2>3
<1>2. CASE y # x
  <2>1. ASSUME NEW d \in Docs PROVE Dues(y)'[d] = Dues(y)[d]
    <3>1. party'[d] = y <=> party[d] = y
      BY <1>2
    <3> QED
      BY <3>1 DEF Dues, Booked, Due
  <2>2. SumFunction(Dues(y))' = SumFunction(Dues(y))
    BY <2>1, DuesSame
  <2>3. balance'[y] = balance[y] /\ opening'[y] = opening[y]
    BY <1>2 DEF TypeOK
  <2>4. ~Skewing(y)
    <3> SUFFICES ASSUME NEW d \in skewed, party[d] = y
                 PROVE  Skewing(y)'
      BY DEF Skewing
    <3>1. d \in Docs
      BY DEF TypeOK
    <3>2. party'[d] = y
      BY <1>2, <3>1
    <3> QED
      BY <3>2 DEF Skewing
  <2> QED
    BY <2>2, <2>3, <2>4 DEF AllDues
<1> QED
  BY <1>1, <1>2

LEMMA DuesInit == Init => DuesInv
<1> SUFFICES ASSUME Init PROVE DuesInv
  OBVIOUS
<1>1. RowsInv /\ HistoryInv
  BY RowsInit DEF Init, HistoryInv
<1>2. AllDues
  <2> SUFFICES ASSUME NEW x \in Parties
               PROVE  balance[x] = opening[x] + SumFunction(Dues(x))
    BY DEF AllDues
  <2>1. \A d \in Docs : Dues(x)[d] = 0
    BY DEF Init, Dues, Booked
  <2>2. SumFunction(Dues(x)) = 0
    BY <1>1, <2>1, DuesType DEF RowsInv, DocInv
  <2> QED
    BY <2>2 DEF Init
<1> QED
  BY <1>1, <1>2 DEF DuesInv

LEMMA HistoryNext == TypeOK /\ HistoryInv /\ [Next]_vars => HistoryInv'
<1> SUFFICES ASSUME TypeOK, HistoryInv, [Next]_vars PROVE HistoryInv'
  OBVIOUS
<1>1. ASSUME NEW d \in Docs, NEW x \in Parties \cup {NoParty}, NEW ls \in Baskets,
             NEW t \in Totals, NEW amount \in PaidAtOnce, Create(d, x, ls, t, amount)
      PROVE  HistoryInv'
  BY <1>1 DEF Create, HistoryInv, TypeOK, NoLines
<1>2. ASSUME NEW d \in Docs, Apply(d) PROVE HistoryInv'
  BY <1>2 DEF Apply, HistoryInv, TypeOK, NoLines, written
<1>3. ASSUME NEW d \in Docs, Replay(d) PROVE HistoryInv'
  BY <1>3 DEF Replay, HistoryInv, TypeOK, NoLines, written
<1>4. ASSUME NEW d \in Docs, Cancel(d) PROVE HistoryInv'
  BY <1>4 DEF Cancel, Skewed, HistoryInv, TypeOK, NoLines, written
<1>5. ASSUME NEW d \in Docs, NEW amount \in Payments, RecordPayment(d, amount)
      PROVE  HistoryInv'
  BY <1>5 DEF RecordPayment, Skewed, HistoryInv, TypeOK, NoLines, written
<1>6. ASSUME NEW D, NEW X, skewed' = skewed \cup Strays(D, X), UNCHANGED <<status, event, lines>>
      PROVE  HistoryInv'
  BY <1>6 DEF HistoryInv, Strays, NoLines
<1>7. ASSUME UNCHANGED <<status, event, lines, skewed>> PROVE HistoryInv'
  BY <1>7 DEF HistoryInv, NoLines
<1>8. ASSUME NEW x \in Parties, SettleParty(x) PROVE HistoryInv'
  BY <1>6, <1>8 DEF SettleParty, written
<1>9. ASSUME NEW t \in Types, SettleAll(t) PROVE HistoryInv'
  BY <1>6, <1>9 DEF SettleAll, written
<1> QED
  BY <1>1, <1>2, <1>3, <1>4, <1>5, <1>7, <1>8, <1>9
     DEF Next, vars, catalog, written, CreateSale, CreatePurchase, ApplySale, ApplyPurchase,
         CancelSale, CancelPurchase, CreateProduct, AdjustStock, DeleteProduct, CreateParty,
         UpdateParty, DeleteParty, Docs

LEMMA DuesNext ==
  ASSUME DuesInv, [Next]_vars
  PROVE  DuesInv'
<1>0. RowsInv /\ RowsInv' /\ DocInv /\ DocInv' /\ TypeOK /\ TypeOK' /\ AllDues
  BY RowsNext DEF DuesInv, RowsInv, DocInv
<1>a. HistoryInv /\ HistoryInv'
  BY <1>0, HistoryNext DEF DuesInv
<1> SUFFICES AllDues'
  BY <1>0, <1>a DEF DuesInv
<1>1. ASSUME NEW d \in Docs, NEW x \in Parties \cup {NoParty}, NEW ls \in Baskets,
             NEW t \in Totals, NEW amount \in PaidAtOnce, Create(d, x, ls, t, amount)
      PROVE  AllDues'
  <2>1. /\ status[d] = "absent" /\ event'[d] = "pending"
        /\ UNCHANGED <<balance, opening, skewed>>
    BY <1>0, <1>1 DEF Create, TypeOK
  <2>2. \A e \in Docs : e # d =>
          /\ party'[e] = party[e] /\ status'[e] = status[e] /\ event'[e] = event[e]
          /\ total'[e] = total[e] /\ paid'[e] = paid[e]
    BY <1>0, <1>1 DEF Create, TypeOK
  <2>3. ASSUME NEW y \in Parties, NEW e \in Docs PROVE Dues(y)'[e] = Dues(y)[e]
    BY <2>1, <2>2 DEF Dues, Booked, Due
  <2>4. ASSUME NEW y \in Parties, Skewing(y) PROVE Skewing(y)'
    <3>1. PICK e \in skewed : party[e] = y
      BY <2>4 DEF Skewing
    <3>2. e \in Docs /\ e # d
      BY <1>0, <1>a, <2>1, <3>1 DEF HistoryInv, TypeOK
    <3> QED
      BY <2>1, <2>2, <3>1, <3>2 DEF Skewing
  <2> QED
    BY <1>0, <2>1, <2>3, <2>4, UncreditedDues
<1>2. ASSUME NEW d \in Docs, Apply(d) PROVE AllDues'
  BY <1>0, <1>a, <1>2, ApplyDues
<1>3. ASSUME NEW d \in Docs, Replay(d) PROVE AllDues'
  <2>1. /\ UNCHANGED <<balance, opening, status, party, total, paid>>
        /\ \A e \in Docs : event'[e] \in {"done", "again"} <=> event[e] \in {"done", "again"}
        /\ skewed \subseteq skewed'
    BY <1>0, <1>3 DEF Replay, written, TypeOK
  <2>2. ASSUME NEW y \in Parties, NEW e \in Docs PROVE Dues(y)'[e] = Dues(y)[e]
    BY <2>1 DEF Dues, Booked, Due
  <2>3. \A y \in Parties : Skewing(y) => Skewing(y)'
    BY <2>1 DEF Skewing
  <2> QED
    BY <1>0, <2>1, <2>2, <2>3, UncreditedDues
<1>4. ASSUME NEW d \in Docs, Cancel(d) PROVE AllDues'
  BY <1>0, <1>4, CancelDues
<1>5. ASSUME NEW d \in Docs, NEW amount \in Payments, RecordPayment(d, amount) PROVE AllDues'
  BY <1>0, <1>5, PaymentDues
<1>6. ASSUME NEW x \in Parties, SettleParty(x) PROVE AllDues'
  <2>1. /\ SettleDocs(DocsOfParty(x))
        /\ balance' = [y \in Parties |-> IF y \in {x} THEN 0 ELSE balance[y]]
        /\ opening' = [y \in Parties |-> IF y \in {x} THEN 0 ELSE opening[y]]
        /\ skewed' = skewed \cup Strays(DocsOfParty(x), {x})
        /\ UNCHANGED <<status, party, total, event>>
    BY <1>0, <1>6 DEF SettleParty, written, TypeOK
  <2> QED
    BY <1>0, <2>1, SettleDues
<1>7. ASSUME NEW t \in Types, SettleAll(t) PROVE AllDues'
  <2> DEFINE X == {x \in parties : type[x] = t}
  <2>1. /\ SettleDocs(DocsOf(t))
        /\ balance' = [y \in Parties |-> IF y \in X THEN 0 ELSE balance[y]]
        /\ opening' = [y \in Parties |-> IF y \in X THEN 0 ELSE opening[y]]
        /\ skewed' = skewed \cup Strays(DocsOf(t), X)
        /\ UNCHANGED <<status, party, total, event>>
    BY <1>7 DEF SettleAll, Cleared, written
  <2>2. X \in SUBSET Parties
    BY <1>0 DEF TypeOK
  <2> HIDE DEF X
  <2> QED
    BY <1>0, <2>1, <2>2, SettleDues
<1>8. ASSUME NEW x \in Parties, NEW t \in Types, NEW b \in Openings, CreateParty(x, t, b)
      PROVE  AllDues'
  <2>1. /\ b \in Int /\ x \notin parties
        /\ balance' = [balance EXCEPT ![x] = b] /\ opening' = [opening EXCEPT ![x] = b]
        /\ UNCHANGED <<status, party, total, paid, event, skewed>>
    BY <1>8, LedgerAssumption DEF CreateParty, written
  <2>2. \A d \in Docs : party[d] # x
    BY <1>0, <2>1, LedgerAssumption DEF TypeOK
  <2> QED
    BY <1>0, <2>1, <2>2, PartyDues
<1>9. ASSUME NEW x \in Parties, DeleteParty(x) PROVE AllDues'
  <2>1. /\ balance' = [balance EXCEPT ![x] = 0] /\ opening' = [opening EXCEPT ![x] = 0]
        /\ UNCHANGED <<status, total, paid, event, skewed>>
        /\ party' = [d \in Docs |-> IF party[d] = x THEN NoParty ELSE party[d]]
    BY <1>9 DEF DeleteParty, Unlinked
  <2>2. /\ \A d \in Docs : party'[d] # x
        /\ \A d \in Docs : party'[d] = party[d] \/ (party[d] = x /\ party'[d] \notin Parties)
    BY <2>1, LedgerAssumption
  <2>3. TypeOK /\ TypeOK' /\ AllDues /\ 0 \in Int
    BY <1>0
  <2>4. UNCHANGED <<status, total, paid, event, skewed>>
    BY <2>1
  <2> QED
    BY <2>1, <2>2, <2>3, <2>4, PartyDues
<1>10. ASSUME UNCHANGED <<balance, opening, status, party, total, paid, event, skewed>>
       PROVE  AllDues'
  <2>1. ASSUME NEW y \in Parties, NEW e \in Docs PROVE Dues(y)'[e] = Dues(y)[e]
    BY <1>10 DEF Dues, Booked, Due
  <2>2. \A y \in Parties : Skewing(y) => Skewing(y)'
    BY <1>10 DEF Skewing
  <2> QED
    BY <1>0, <1>10, <2>1, <2>2, UncreditedDues
<1> QED
  BY <1>1, <1>2, <1>3, <1>4, <1>5, <1>6, <1>7, <1>8, <1>9, <1>10
     DEF Next, vars, catalog, written, CreateSale, CreatePurchase, ApplySale, ApplyPurchase,
         CancelSale, CancelPurchase, CreateProduct, AdjustStock, DeleteProduct, UpdateParty, Docs

\* The due amounts of the booked documents and the unsettled opening explain a
\* balance, whatever the order of operations, events and replays, unless one of
\* the party's documents was paid or cancelled before its event, replayed without
\* product lines, or settled apart from its party.
THEOREM BalanceIsExplained == Spec => []BalanceIsDues
<1>1. DuesInv /\ [Next]_vars => DuesInv'
  BY DuesNext
<1>2. DuesInv => BalanceIsDues
  BY DEF DuesInv, RowsInv, DocInv, TypeOK, AllDues, Skewing, BalanceIsDues
<1> QED
  BY <1>1, <1>2, DuesInit, PTL DEF Spec

=============================================================================
