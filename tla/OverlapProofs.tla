----------------------------- MODULE OverlapProofs -----------------------------
(***************************************************************************)
(* Proofs about Overlap: what overlapping transactions keep of the books,  *)
(* for any number of handlers, documents, products and parties.            *)
(*                                                                         *)
(* StockInv says what the handlers under way have in hand: as long as the  *)
(* rows they read are not torn, the new stocks they keep are the present   *)
(* ones plus the movements they will insert, and those movements are still *)
(* due.  BalanceInv says the same of balances and due amounts, WholeInv of *)
(* all that a handler is going to write, so that its commit is one step of *)
(* Ledger, and LabelInv that amounts and labels agree once it has written  *)
(* them.  A commit spares what another handler has read, unless it tears   *)
(* it.                                                                     *)
(***************************************************************************)
EXTENDS Overlap, LedgerProofs

-----------------------------------------------------------------------------
(* The inductive invariants.                                               *)

\* Functions from a part of S: the rows that a session has new values for.
PartOf(S, T) == UNION {[D -> T] : D \in SUBSET S}

\* The work a handler has in hand.
Works ==
  [op     : {"apply", "cancel", "pay", "settle", "adjust"},
   step   : {"opened", "ready"},
   about  : Docs \cup Parties \cup Products,
   party  : Parties \cup {NoParty},
   shift  : [Products -> Int],
   credit : Int,
   pay    : PartOf(Docs, Nat),
   label  : PartOf(Docs, {"unpaid", "partial", "paid"}),
   shelf  : PartOf(Products, Int),
   purse  : PartOf(Parties, Int),
   reads  : SUBSET (Docs \cup Parties \cup Products)]

\* The catalogue stays whole, and no document is absent or overpaid.
OverlapTyped ==
  /\ TypeOK /\ products = Products /\ parties = Parties
  /\ \A d \in Docs : status[d] # "absent" /\ paid[d] <= total[d]
  /\ job \in [Jobs -> Works \cup {Idle}]

\* Handlers of one document.
AboutDoc(w) == w.op \in {"apply", "cancel", "pay"}

\* The products and the party whose rows the handler reads and changes.
Touched(w)  == {p \in Products : w.shift[p] # 0}
Owing(w)    == IF w.credit = 0 THEN {} ELSE {w.party} \ {NoParty}

\* What a handler has in hand follows from what it is for.
WellFormed(w) ==
  /\ \A e \in DOMAIN w.pay : w.pay[e] <= total[e] /\ e \in w.reads
  /\ DOMAIN w.label \subseteq w.reads
  /\ AboutDoc(w) => /\ w.about \in Docs /\ w.about \in w.reads
                    /\ w.party \in {party[w.about], NoParty}
                    /\ DOMAIN w.pay \subseteq {w.about} /\ DOMAIN w.label \subseteq {w.about}
  /\ w.op = "settle" => w.about \in Parties /\ w.about \in w.reads /\ w.credit = 0
                        /\ \A e \in DOMAIN w.pay : party[e] = w.about
  /\ w.op = "adjust" => w.about \in Products /\ w.credit = 0 /\ w.step = "ready"
                        /\ \A p \in Products : p # w.about => w.shift[p] = 0
  /\ w.op \in {"apply", "cancel", "adjust"} => w.pay = Nothing /\ w.label = Nothing
  /\ w.op \in {"pay", "settle"} => w.shift = NoLines
  /\ w.op = "settle" => w.shelf = Nothing /\ DOMAIN w.purse \subseteq {w.about}
                        /\ \A x \in DOMAIN w.purse : w.purse[x] = 0
  /\ w.step = "ready" => DOMAIN w.shelf = Touched(w) /\ Touched(w) \subseteq w.reads
  /\ w.step = "ready" /\ w.op # "settle" => DOMAIN w.purse = Owing(w) /\ Owing(w) \subseteq w.reads

Live(j) == job[j] # Idle

AllWellFormed == \A j \in Jobs : Live(j) => WellFormed(job[j])

\* The stock that the handler will write counts from the present one.
Shelved(w) == w.step = "ready" =>
  \A p \in DOMAIN w.shelf : p \in torn \/ w.shelf[p] = stock[p] + w.shift[p]

\* The movements that the handler will insert are due when it commits: an event
\* moves the lines that are not moved yet, a cancellation takes back what is.
ShiftIsDue(w) ==
  LET d == w.about IN
  /\ w.op = "apply" /\ d \notin torn =>
       IF status[d] = "completed"
       THEN \/ moved[d] = NoLines /\ w.shift = Moves(d)
            \/ moved[d] = Moves(d) /\ w.shift = NoLines
       ELSE w.shift = NoLines
  /\ w.op = "cancel" /\ d \notin torn =>
       status[d] = "completed" /\ w.shift = [p \in Products |-> 0 - moved[d][p]]

\* The two halves of StockExplained; the catalogue is whole.
DocsWhole == \A d \in Docs \ torn :
       /\ moved[d] \in {NoLines, Moves(d)}
       /\ undone[d] = IF status[d] = "cancelled" THEN [p \in Products |-> 0 - moved[d][p]]
                                                 ELSE NoLines
StockSum == \A p \in Products \ torn : stock[p] = adjusted[p] + SumFunction(Rows(p))

\* The inductive invariant for stock.
StockInv ==
  /\ OverlapTyped /\ AllWellFormed
  /\ \A j \in Jobs : Live(j) => Shelved(job[j]) /\ ShiftIsDue(job[j])
  /\ DocsWhole /\ StockSum

\* No two workers hold the event of one document.
OneWorker ==
  \A j, k \in Jobs : Live(j) /\ Live(k) /\ job[j].op = "apply" /\ job[k].op = "apply"
                      /\ job[j].about = job[k].about => j = k

\* A live document has moved its lines once its event has been applied, and
\* nothing before that.
EffectsSeen == \A d \in Docs \ torn : status[d] = "completed" =>
    moved[d] = IF event[d] \in {"done", "again"} THEN Moves(d) ELSE NoLines

\* The balance that the handler will write counts from the present one.
Pursed(w) == w.step = "ready" /\ AboutDoc(w) =>
  \A x \in DOMAIN w.purse : x \in torn \/ w.purse[x] = balance[x] + w.credit

\* The amount is due when the handler commits: the document still has the status
\* and the payment that it was computed from.
CreditIsDue(w) ==
  LET d == w.about IN
  /\ w.op = "apply" => event[d] \in {"pending", "again"}
  /\ w.op = "apply" /\ d \notin torn \cup skewed =>
       IF status[d] = "completed" /\ event[d] = "pending"
       THEN w.credit = Due(d) /\ w.party = party[d]
       ELSE w.credit = 0
  /\ w.op = "cancel" /\ d \notin torn =>
       status[d] = "completed" /\ w.credit = 0 - Due(d) /\ w.party = party[d]
  /\ w.op = "pay" /\ d \notin torn =>
       /\ status[d] = "completed" /\ w.party = party[d]
       /\ w.credit = paid[d] - (IF d \in DOMAIN w.pay THEN w.pay[d] ELSE paid[d])

\* A settlement finds or leaves the balance at zero, and has read and pays every
\* live document that the type of the party says, and no other.
Clears(w) ==
  LET x == w.about IN
  w.op = "settle" =>
    /\ x \notin torn /\ x \notin DOMAIN w.purse => balance[x] = 0
    /\ w.step = "ready" => DOMAIN w.pay \subseteq DocsOfParty(x)
    /\ w.step = "ready" => \A d \in DocsOfParty(x) : status[d] = "completed" =>
         /\ d \in w.reads
         /\ d \notin torn => (IF d \in DOMAIN w.pay THEN w.pay[d] ELSE paid[d]) = total[d]

\* BalanceExplained, of one party.
DuesExplain(x) ==
  \/ balance[x] = opening[x] + SumFunction(Dues(x))
  \/ \E d \in torn \cup skewed : d \in Docs /\ party[d] = x

\* The inductive invariant for balances.
BalanceInv ==
  /\ StockInv /\ HistoryInv /\ OneWorker /\ EffectsSeen
  /\ \A j \in Jobs : Live(j) => Pursed(job[j]) /\ CreditIsDue(job[j]) /\ Clears(job[j])
  /\ \A x \in Parties \ torn : DuesExplain(x)

\* The columns that the handler will write, and those it leaves, agree.
LabelFits(w) ==
  \A e \in Docs \ torn : e \in DOMAIN w.pay \cup DOMAIN w.label =>
    (IF e \in DOMAIN w.label THEN w.label[e] ELSE payment[e])
      \in StatusesFor(IF e \in DOMAIN w.pay THEN w.pay[e] ELSE paid[e], total[e])

\* LabelsAgree without the bounds of what is paid, which rows keep when torn.
Labelled == \A d \in Docs \ torn : payment[d] \in StatusesFor(paid[d], total[d])

\* The inductive invariant for payments.
LabelInv == StockInv /\ Labelled /\ \A j \in Jobs : Live(j) => LabelFits(job[j])

\* None of the rows that the handler has read is torn.
Untorn(w) == w.reads \cap torn = {}

\* Nobody else finishes the event that a worker holds.
ToApply(w) == w.op = "apply" => event[w.about] \in {"pending", "again"}

\* What the handler has in hand is what it would find if it read only now.
AppliesAsRead(w) ==
  LET d == w.about IN
  w.op = "apply" =>
    IF NoEffects(d) THEN w.shift = NoLines /\ w.credit = 0
                    ELSE w.shift = Moves(d) /\ w.credit = Due(d) /\ w.party = party[d]

CancelsAsRead(w) ==
  LET d == w.about IN
  w.op = "cancel" =>
    /\ status[d] = "completed" /\ w.party = party[d]
    /\ w.shift = Returned(d) /\ w.credit = 0 - Due(d)

PaysAsRead(w) ==
  LET d == w.about IN
  w.op = "pay" =>
    /\ status[d] = "completed" /\ w.party = party[d]
    /\ \E amount \in Payments : \E s \in StatusesFor(PaidAfter(d, amount), total[d]) :
         LET now == IF s = "paid" THEN total[d] ELSE PaidAfter(d, amount) IN
         /\ w.credit = paid[d] - now
         /\ now = IF d \in DOMAIN w.pay THEN w.pay[d] ELSE paid[d]
         /\ s = IF d \in DOMAIN w.label THEN w.label[d] ELSE payment[d]

SettlesAsRead(w) ==
  LET x == w.about IN
  w.op = "settle" =>
    /\ x \notin DOMAIN w.purse => balance[x] = 0
    /\ w.step = "ready" =>
         /\ DOMAIN w.pay = {d \in DocsOfParty(x) : Open(d)}
         /\ \A d \in DOMAIN w.pay : w.pay[d] = total[d]
         /\ DOMAIN w.label = {d \in DOMAIN w.pay : payment[d] # "paid"}
         /\ \A d \in DOMAIN w.label : w.label[d] = "paid"
         /\ \A d \in DocsOfParty(x) : status[d] = "completed" => d \in w.reads

CorrectsAsRead(w) ==
  LET p == w.about IN
  w.op = "adjust" =>
    /\ w.shift[p] \in Corrections
    /\ adjusted[p] + w.shift[p] \in (0 - MaxCorrected)..MaxCorrected
    /\ Correctable(p, w.shift[p])

AsRead(w) == /\ AppliesAsRead(w) /\ CancelsAsRead(w) /\ PaysAsRead(w)
             /\ SettlesAsRead(w) /\ CorrectsAsRead(w)

\* The inductive invariant for whole transactions.
InHand(w) == Pursed(w) /\ ToApply(w) /\ (Untorn(w) => AsRead(w))

WholeInv == StockInv /\ OneWorker /\ \A j \in Jobs : Live(j) => InHand(job[j])

\* A step is a transaction of Ledger or writes no row of the books, unless it is
\* the commit of a handler that has read a row which is torn.
WholeOrTorn ==
  [][[Next]_vars \/ \E j \in Jobs : Commit(j) /\ ~Untorn(job[j])]_<<vars, overlap>>

-----------------------------------------------------------------------------
(* What a handler has in hand.                                             *)

\* Functions on a part of S.
LEMMA PartOfIntro ==
  ASSUME NEW S, NEW T, NEW D \in SUBSET S, NEW f \in [D -> T]
  PROVE  f \in PartOf(S, T)
BY DEF PartOf

LEMMA PartOfElim ==
  ASSUME NEW S, NEW T, NEW f \in PartOf(S, T)
  PROVE  DOMAIN f \in SUBSET S /\ f \in [DOMAIN f -> T]
BY DEF PartOf

LEMMA NothingIsPart ==
  ASSUME NEW S, NEW T
  PROVE  Nothing \in PartOf(S, T) /\ DOMAIN Nothing = {}
<1>1. Nothing \in [{} -> T] /\ DOMAIN Nothing = {}
  BY DEF Nothing
<1> QED
  BY <1>1, PartOfIntro

LEMMA ChangedValues ==
  ASSUME NEW x, NEW was, NEW now
  PROVE  /\ DOMAIN Changed(x, was, now) \subseteq {x}
         /\ x \notin DOMAIN Changed(x, was, now) => now = was
         /\ \A y \in DOMAIN Changed(x, was, now) : Changed(x, was, now)[y] = now
<1>1. CASE now = was
  BY <1>1 DEF Changed, Nothing
<1>2. CASE now # was
  BY <1>2 DEF Changed
<1> QED
  BY <1>1, <1>2

LEMMA ChangedIsPart ==
  ASSUME NEW S, NEW T, NEW x \in S, NEW was, NEW now \in T
  PROVE  Changed(x, was, now) \in PartOf(S, T)
<1>1. CASE now = was
  BY <1>1, NothingIsPart DEF Changed
<1>2. CASE now # was
  <2>1. [y \in {x} |-> now] \in [{x} -> T]
    OBVIOUS
  <2>2. {x} \in SUBSET S
    OBVIOUS
  <2>3. [y \in {x} |-> now] \in PartOf(S, T)
    BY <2>1, <2>2, PartOfIntro
  <2> QED
    BY <1>2, <2>3 DEF Changed
<1> QED
  BY <1>1, <1>2

\* Work() makes work, and work is never idle.
LEMMA WorkType ==
  ASSUME NEW op \in {"apply", "cancel", "pay", "settle", "adjust"},
         NEW about \in Docs \cup Parties \cup Products,
         NEW x \in Parties \cup {NoParty}, NEW shift \in [Products -> Int],
         NEW credit \in Int,
         NEW pay \in PartOf(Docs, Nat), NEW label \in PartOf(Docs, {"unpaid", "partial", "paid"}),
         NEW rows \in SUBSET (Docs \cup Parties \cup Products)
  PROVE  Work(op, about, x, shift, credit, pay, label, rows) \in Works
BY NothingIsPart DEF Work, Works

LEMMA WorkNotIdle == \A w \in Works : w # Idle /\ w.op # "none"
BY DEF Works, Idle

\* A handler takes a query further; no row is written.
LEMMA HandlerTyped ==
  ASSUME OverlapTyped, NEW j \in Jobs, NEW w \in Works, job' = [job EXCEPT ![j] = w],
         UNCHANGED vars
  PROVE  OverlapTyped'
<1>1. UNCHANGED <<products, stock, adjusted, parties, type, balance, opening, status,
                  party, lines, total, paid, payment, event, moved, undone, replays, skewed, rushed>>
  BY DEF vars, catalog, written
<1> QED
  BY <1>1 DEF OverlapTyped, TypeOK

\* A handler whose new work is in order keeps the invariant.
LEMMA HandlerStock ==
  ASSUME StockInv, NEW j \in Jobs, NEW w \in Works, job' = [job EXCEPT ![j] = w],
         UNCHANGED vars, torn' = torn, WellFormed(w), Shelved(w), ShiftIsDue(w)
  PROVE  StockInv'
<1>1. UNCHANGED <<products, stock, adjusted, parties, type, balance, opening, status,
                  party, lines, total, paid, payment, event, moved, undone, replays, skewed, rushed>>
  BY DEF vars, catalog, written
<1>2. OverlapTyped'
  BY HandlerTyped DEF StockInv
<1>3. job'[j] = w /\ \A k \in Jobs : k # j => job'[k] = job[k]
  BY DEF StockInv, OverlapTyped
<1>4. ASSUME NEW k \in Jobs, job'[k] # Idle
      PROVE  /\ WellFormed(job'[k])
             /\ Shelved(job'[k])
             /\ ShiftIsDue(job'[k])
  <2>1. CASE k = j
    BY <1>3, <2>1
  <2>2. CASE k # j
    <3>1. job'[k] = job[k] /\ Live(k)
      BY <1>3, <1>4, <2>2 DEF Live
    <3>2. WellFormed(job[k]) /\ Shelved(job[k]) /\ ShiftIsDue(job[k])
      BY <3>1 DEF StockInv, AllWellFormed
    <3> QED
      BY <3>1, <3>2
  <2> QED
    BY <2>1, <2>2
<1>5. ASSUME NEW k \in Jobs, Live(k)'
      PROVE  WellFormed(job[k])' /\ Shelved(job[k])' /\ ShiftIsDue(job[k])'
  <2>1. job'[k] # Idle
    BY <1>5 DEF Live, Idle
  <2>2. WellFormed(job'[k]) /\ Shelved(job'[k]) /\ ShiftIsDue(job'[k])
    BY <1>4, <2>1
  <2>3. Moves(job'[k].about) = Moves(job[k].about)'
    BY <1>1 DEF Moves
  <2>4. WellFormed(job[k])'
    BY <2>2, <1>1 DEF WellFormed, AboutDoc, Touched, Owing, Nothing, NoLines
  <2>5. Shelved(job[k])'
    BY <2>2, <1>1 DEF Shelved
  <2>6. ShiftIsDue(job[k])'
    BY <2>2, <2>3, <1>1 DEF ShiftIsDue, NoLines
  <2> QED
    BY <2>4, <2>5, <2>6
<1>6. DocsWhole'
  BY <1>1 DEF StockInv, DocsWhole, Moves, NoLines
<1>7. StockSum'
  BY <1>1, RowsSame DEF StockInv, StockSum
<1> QED
  BY <1>2, <1>5, <1>6, <1>7 DEF StockInv, AllWellFormed

\* What Work() puts together.
LEMMA WorkFields ==
  ASSUME NEW op, NEW about, NEW x, NEW shift, NEW credit, NEW pay, NEW label,
         NEW rows, NEW w, w = Work(op, about, x, shift, credit, pay, label, rows)
  PROVE  /\ w.op = op /\ w.step = "opened" /\ w.about = about /\ w.party = x
         /\ w.shift = shift /\ w.credit = credit /\ w.pay = pay /\ w.label = label
         /\ w.shelf = Nothing /\ w.purse = Nothing /\ w.reads = rows
BY DEF Work

\* Types of what the first query finds.
LEMMA Whole ==
  ASSUME OverlapTyped, NEW d \in Docs
  PROVE  /\ party[d] \in Parties \cup {NoParty}
         /\ Moves(d) \in [Products -> Int] /\ NoLines \in [Products -> Int]
         /\ moved[d] \in [Products -> Int]
         /\ total[d] \in Nat /\ paid[d] \in Nat /\ paid[d] <= total[d]
         /\ Due(d) \in Int /\ 0 - Due(d) \in Int
         /\ Docs \subseteq Docs \cup Parties \cup Products
  BY MovesType, NoLinesType DEF OverlapTyped, TypeOK, Due

\* The work of a worker that takes an event, of a cancellation, of a payment.
LEMMA EventWork ==
  ASSUME StockInv, NEW j \in Jobs, NEW d \in Docs, TakeEvent(j, d)
  PROVE  \E w \in Works :
           /\ job' = [job EXCEPT ![j] = w]
           /\ w.op = "apply" /\ w.about = d /\ w.step = "opened"
           /\ IF NoEffects(d) THEN w.party = NoParty /\ w.shift = NoLines /\ w.credit = 0
                              ELSE w.party = party[d] /\ w.shift = Moves(d) /\ w.credit = Due(d)
           /\ w.pay = Nothing /\ w.label = Nothing /\ w.shelf = Nothing /\ w.purse = Nothing /\ w.reads = {d}
<1> USE Whole DEF StockInv
<1>1. {d} \in SUBSET (Docs \cup Parties \cup Products)
      /\ d \in Docs \cup Parties \cup Products
      /\ "apply" \in {"apply", "cancel", "pay", "settle", "adjust"}
  OBVIOUS
<1>2. CASE NoEffects(d)
  <2>1. PICK w : w = Work("apply", d, NoParty, NoLines, 0, Nothing, Nothing, {d})
    OBVIOUS
  <2>2. w \in Works
    <3>1. NoLines \in [Products -> Int] /\ NoParty \in Parties \cup {NoParty} /\ 0 \in Int
      OBVIOUS
    <3> QED
      BY <2>1, <1>1, <3>1, WorkType, NothingIsPart
  <2>3. job' = [job EXCEPT ![j] = w]
    BY <1>2, <2>1 DEF TakeEvent, Take
  <2>4. /\ w.op = "apply" /\ w.about = d /\ w.step = "opened" /\ w.party = NoParty
        /\ w.shift = NoLines /\ w.credit = 0 /\ w.pay = Nothing /\ w.label = Nothing
        /\ w.shelf = Nothing /\ w.purse = Nothing /\ w.reads = {d}
    BY <2>1, WorkFields
  <2> QED
    BY <1>2, <2>2, <2>3, <2>4
<1>3. CASE ~NoEffects(d)
  <2>1. PICK w : w = Work("apply", d, party[d], Moves(d), Due(d), Nothing, Nothing, {d})
    OBVIOUS
  <2>2. w \in Works
    <3>1. Moves(d) \in [Products -> Int] /\ party[d] \in Parties \cup {NoParty} /\ Due(d) \in Int
      OBVIOUS
    <3> QED
      BY <2>1, <1>1, <3>1, WorkType, NothingIsPart
  <2>3. job' = [job EXCEPT ![j] = w]
    BY <1>3, <2>1 DEF TakeEvent, Take
  <2>4. /\ w.op = "apply" /\ w.about = d /\ w.step = "opened" /\ w.party = party[d]
        /\ w.shift = Moves(d) /\ w.credit = Due(d) /\ w.pay = Nothing /\ w.label = Nothing
        /\ w.shelf = Nothing /\ w.purse = Nothing /\ w.reads = {d}
    BY <2>1, WorkFields
  <2> QED
    BY <1>3, <2>2, <2>3, <2>4
<1> QED
  BY <1>2, <1>3

LEMMA CancelWork ==
  ASSUME StockInv, NEW j \in Jobs, NEW d \in Docs, TakeCancel(j, d)
  PROVE  \E w \in Works :
           /\ job' = [job EXCEPT ![j] = w]
           /\ w.op = "cancel" /\ w.about = d /\ w.step = "opened" /\ w.party = party[d]
           /\ w.shift = Returned(d) /\ w.credit = 0 - Due(d)
           /\ w.pay = Nothing /\ w.label = Nothing /\ w.shelf = Nothing /\ w.purse = Nothing /\ w.reads = {d}
<1>1. {d} \in SUBSET (Docs \cup Parties \cup Products)
      /\ d \in Docs \cup Parties \cup Products
      /\ "cancel" \in {"apply", "cancel", "pay", "settle", "adjust"}
  OBVIOUS
<1>2. /\ Returned(d) \in [Products -> Int]
      /\ party[d] \in Parties \cup {NoParty}
      /\ 0 - Due(d) \in Int
  BY Whole DEF StockInv, Returned
<1>3. PICK w : w = Work("cancel", d, party[d], Returned(d), 0 - Due(d), Nothing, Nothing, {d})
  OBVIOUS
<1>4. w \in Works
  BY <1>1, <1>2, <1>3, WorkType, NothingIsPart
<1>5. job' = [job EXCEPT ![j] = w]
  BY <1>3 DEF TakeCancel, Take, Reversal
<1>6. /\ w.op = "cancel" /\ w.about = d /\ w.step = "opened" /\ w.party = party[d]
      /\ w.shift = Returned(d) /\ w.credit = 0 - Due(d) /\ w.pay = Nothing /\ w.label = Nothing
      /\ w.shelf = Nothing /\ w.purse = Nothing /\ w.reads = {d}
  BY <1>3, WorkFields
<1> QED
  BY <1>4, <1>5, <1>6

LEMMA PaymentWork ==
  ASSUME StockInv, NEW j \in Jobs, NEW d \in Docs, NEW amount \in Payments,
         TakePayment(j, d, amount)
  PROVE  \E w \in Works :
           /\ job' = [job EXCEPT ![j] = w]
           /\ w.op = "pay" /\ w.about = d /\ w.step = "opened" /\ w.party = party[d]
           /\ w.shift = NoLines
           /\ w.credit = paid[d] - (IF d \in DOMAIN w.pay THEN w.pay[d] ELSE paid[d])
           /\ DOMAIN w.pay \subseteq {d} /\ \A e \in DOMAIN w.pay : w.pay[e] <= total[d]
           /\ DOMAIN w.label \subseteq {d}
           /\ w.shelf = Nothing /\ w.purse = Nothing /\ w.reads = {d}
<1> USE DEF StockInv
<1>1. {d} \in SUBSET (Docs \cup Parties \cup Products)
      /\ d \in Docs \cup Parties \cup Products
      /\ "pay" \in {"apply", "cancel", "pay", "settle", "adjust"}
  OBVIOUS
<1>2. /\ party[d] \in Parties \cup {NoParty} /\ NoLines \in [Products -> Int]
      /\ total[d] \in Nat /\ paid[d] \in Nat /\ paid[d] <= total[d]
      /\ amount \in Nat
  BY Whole, LedgerAssumption
<1>3. PaidAfter(d, amount) \in 0..total[d]
  BY <1>2 DEF PaidAfter, Least
<1>4. PICK s \in StatusesFor(PaidAfter(d, amount), total[d]) :
        LET n == IF s = "paid" THEN total[d] ELSE PaidAfter(d, amount) IN
        Take(j, Work("pay", d, party[d], NoLines, paid[d] - n, Changed(d, paid[d], n),
                     Changed(d, payment[d], s), {d}))
  BY DEF TakePayment
<1>5. s \in {"unpaid", "partial", "paid"}
  BY <1>2, <1>3, StatusesAreStatuses
<1>6. PICK now \in 0..total[d] : now = IF s = "paid" THEN total[d] ELSE PaidAfter(d, amount)
  BY <1>2, <1>3
<1>7. PICK pay : pay = Changed(d, paid[d], now)
  OBVIOUS
<1>8. PICK label : label = Changed(d, payment[d], s)
  OBVIOUS
<1>9. /\ pay \in PartOf(Docs, Nat) /\ label \in PartOf(Docs, {"unpaid", "partial", "paid"})
      /\ DOMAIN pay \subseteq {d} /\ \A e \in DOMAIN pay : pay[e] <= total[d]
      /\ DOMAIN label \subseteq {d}
      /\ paid[d] - now = paid[d] - (IF d \in DOMAIN pay THEN pay[d] ELSE paid[d])
  <2>1. now \in Nat /\ now <= total[d]
    BY <1>2, <1>6
  <2>2. pay \in PartOf(Docs, Nat)
    BY <1>7, <2>1, ChangedIsPart
  <2>3. label \in PartOf(Docs, {"unpaid", "partial", "paid"})
    BY <1>5, <1>8, ChangedIsPart
  <2>4. DOMAIN pay \subseteq {d} /\ (d \notin DOMAIN pay => now = paid[d])
        /\ \A e \in DOMAIN pay : pay[e] = now
    BY <1>7, ChangedValues
  <2>5. DOMAIN label \subseteq {d}
    BY <1>8, ChangedValues
  <2> QED
    BY <2>1, <2>2, <2>3, <2>4, <2>5
<1>10. PICK w : w = Work("pay", d, party[d], NoLines, paid[d] - now, pay, label, {d})
  OBVIOUS
<1>11. w \in Works
  <2>1. paid[d] - now \in Int
    BY <1>2, <1>6
  <2> QED
    BY <1>1, <1>2, <1>9, <1>10, <2>1, WorkType
<1>12. job' = [job EXCEPT ![j] = w]
  BY <1>4, <1>6, <1>7, <1>8, <1>10 DEF Take
<1>13. /\ w.op = "pay" /\ w.about = d /\ w.step = "opened" /\ w.party = party[d]
       /\ w.shift = NoLines /\ w.credit = paid[d] - now /\ w.pay = pay /\ w.label = label
       /\ w.shelf = Nothing /\ w.purse = Nothing /\ w.reads = {d}
  BY <1>10, WorkFields
<1> QED
  BY <1>9, <1>11, <1>12, <1>13

\* The work of a settlement.
LEMMA PartyWork ==
  ASSUME StockInv, NEW j \in Jobs, NEW x \in Parties, TakeParty(j, x)
  PROVE  \E w \in Works :
           /\ job' = [job EXCEPT ![j] = w]
           /\ w.op = "settle" /\ w.about = x /\ w.step = "opened"
           /\ w.shift = NoLines /\ w.credit = 0 /\ w.pay = Nothing /\ w.label = Nothing /\ w.shelf = Nothing
           /\ DOMAIN w.purse \subseteq {x} /\ \A y \in DOMAIN w.purse : w.purse[y] = 0
           /\ x \notin DOMAIN w.purse => balance[x] = 0
           /\ w.reads = {x}
<1>1. PICK v : v = Work("settle", x, x, NoLines, 0, Nothing, Nothing, {x})
  OBVIOUS
<1>2. v \in Works
  <2>1. {x} \in SUBSET (Docs \cup Parties \cup Products)
        /\ x \in Docs \cup Parties \cup Products
        /\ x \in Parties \cup {NoParty} /\ 0 \in Int
        /\ "settle" \in {"apply", "cancel", "pay", "settle", "adjust"}
        /\ NoLines \in [Products -> Int]
    BY NoLinesType
  <2> QED
    BY <1>1, <2>1, WorkType, NothingIsPart
<1>3. PICK purse : purse = Changed(x, balance[x], 0)
  OBVIOUS
<1>4. /\ purse \in PartOf(Parties, Int)
      /\ DOMAIN purse \subseteq {x} /\ \A y \in DOMAIN purse : purse[y] = 0
      /\ x \notin DOMAIN purse => balance[x] = 0
  <2>1. 0 \in Int
    OBVIOUS
  <2>2. purse \in PartOf(Parties, Int)
    BY <1>3, <2>1, ChangedIsPart
  <2>3. DOMAIN purse \subseteq {x} /\ (x \notin DOMAIN purse => 0 = balance[x])
        /\ \A y \in DOMAIN purse : purse[y] = 0
    BY <1>3, ChangedValues
  <2> QED
    BY <2>2, <2>3
<1>5. PICK w : w = [v EXCEPT !.purse = purse]
  OBVIOUS
<1>6. w \in Works
  BY <1>2, <1>4, <1>5 DEF Works
<1>7. job' = [job EXCEPT ![j] = w]
  BY <1>1, <1>3, <1>5 DEF TakeParty, Take
<1>8. /\ v.op = "settle" /\ v.step = "opened" /\ v.about = x /\ v.party = x
      /\ v.shift = NoLines /\ v.credit = 0 /\ v.pay = Nothing /\ v.label = Nothing
      /\ v.shelf = Nothing /\ v.purse = Nothing /\ v.reads = {x}
  BY <1>1, WorkFields
<1>9. /\ w.op = "settle" /\ w.step = "opened" /\ w.about = x
      /\ w.shift = NoLines /\ w.credit = 0 /\ w.pay = Nothing /\ w.label = Nothing
      /\ w.shelf = Nothing /\ w.purse = purse /\ w.reads = {x}
  BY <1>2, <1>5, <1>8 DEF Works
<1> QED
  BY <1>4, <1>6, <1>7, <1>9

\* The work of a correction.
LEMMA CorrectionWork ==
  ASSUME StockInv, NEW j \in Jobs, NEW p \in Products, NEW n \in Corrections,
         TakeCorrection(j, p, n)
  PROVE  \E w \in Works :
           /\ job' = [job EXCEPT ![j] = w]
           /\ w.op = "adjust" /\ w.about = p /\ w.step = "ready"
           /\ w.shift[p] = n /\ n # 0 /\ \A q \in Products : q # p => w.shift[q] = 0
           /\ w.credit = 0 /\ w.pay = Nothing /\ w.label = Nothing /\ w.purse = Nothing
           /\ DOMAIN w.shelf = {p} /\ w.shelf[p] = stock[p] + n
           /\ w.reads = {p}
<1>0. n \in Int /\ n # 0 /\ stock[p] \in Int
  BY LedgerAssumption DEF StockInv, OverlapTyped, TypeOK
<1>1. PICK shift : shift = [NoLines EXCEPT ![p] = n]
  OBVIOUS
<1>2. shift \in [Products -> Int] /\ shift[p] = n /\ \A q \in Products : q # p => shift[q] = 0
  BY <1>0, <1>1 DEF NoLines
<1>3. PICK v : v = Work("adjust", p, NoParty, shift, 0, Nothing, Nothing, {p})
  OBVIOUS
<1>4. v \in Works
  <2>1. {p} \in SUBSET (Docs \cup Parties \cup Products)
        /\ p \in Docs \cup Parties \cup Products
        /\ NoParty \in Parties \cup {NoParty} /\ 0 \in Int
        /\ "adjust" \in {"apply", "cancel", "pay", "settle", "adjust"}
    OBVIOUS
  <2> QED
    BY <1>2, <1>3, <2>1, WorkType, NothingIsPart
<1>5. PICK shelf : shelf = [q \in {p} |-> stock[p] + n]
  OBVIOUS
<1>6. shelf \in PartOf(Products, Int) /\ DOMAIN shelf = {p} /\ shelf[p] = stock[p] + n
  <2>1. shelf \in [{p} -> Int]
    BY <1>0, <1>5
  <2> QED
    BY <1>5, <2>1, PartOfIntro
<1>7. PICK w : w = [v EXCEPT !.step = "ready", !.shelf = shelf]
  OBVIOUS
<1>8. w \in Works
  BY <1>4, <1>6, <1>7 DEF Works
<1>9. job' = [job EXCEPT ![j] = w]
  <2>1. [q \in {p} |-> stock[p] + n] = shelf
    BY <1>5
  <2> QED
    BY <1>1, <1>3, <2>1, <1>7 DEF TakeCorrection, Take
<1>10. /\ v.op = "adjust" /\ v.about = p /\ v.shift = shift /\ v.credit = 0 /\ v.pay = Nothing
       /\ v.label = Nothing /\ v.purse = Nothing /\ v.reads = {p}
  BY <1>3, WorkFields
<1>11. /\ w.op = "adjust" /\ w.about = p /\ w.step = "ready" /\ w.shift = shift
       /\ w.credit = 0 /\ w.pay = Nothing /\ w.label = Nothing /\ w.purse = Nothing /\ w.shelf = shelf
       /\ w.reads = {p}
  BY <1>4, <1>7, <1>10 DEF Works
<1> QED
  BY <1>0, <1>2, <1>6, <1>8, <1>9, <1>11

\* The work after the other queries.
LEMMA FetchWork ==
  ASSUME StockInv, NEW j \in Jobs, Fetch(j)
  PROVE  \E w \in Works :
           /\ job' = [job EXCEPT ![j] = w]
           /\ Live(j) /\ AboutDoc(job[j]) /\ job[j].step = "opened"
           /\ w.op = job[j].op /\ w.about = job[j].about /\ w.step = "ready"
           /\ w.party = job[j].party /\ w.shift = job[j].shift
           /\ w.credit = job[j].credit /\ w.pay = job[j].pay /\ w.label = job[j].label
           /\ DOMAIN w.shelf = Touched(job[j])
           /\ \A p \in DOMAIN w.shelf : w.shelf[p] = stock[p] + w.shift[p]
           /\ DOMAIN w.purse = Owing(job[j])
           /\ \A x \in DOMAIN w.purse : w.purse[x] = balance[x] + w.credit
           /\ w.reads = job[j].reads \cup Touched(job[j]) \cup Owing(job[j])
<1>1. job[j].op \in {"apply", "cancel", "pay"} /\ job[j].step = "opened"
  BY DEF Fetch
<1>2. job[j] \in Works /\ Live(j)
  <2>1. Idle.op = "none"
    BY DEF Idle
  <2>2. job[j] \in Works \cup {Idle}
    BY DEF StockInv, OverlapTyped
  <2> QED
    BY <1>1, <2>1, <2>2, WorkNotIdle DEF Live
<1>3. PICK v \in Works : v = job[j]
  BY <1>2
<1>4. PICK shelf : shelf = [p \in Touched(v) |-> stock[p] + v.shift[p]]
  OBVIOUS
<1>5. PICK purse : purse = [x \in Owing(v) |-> balance[x] + v.credit]
  OBVIOUS
<1>6. shelf \in PartOf(Products, Int) /\ DOMAIN shelf = Touched(v)
  <2>1. stock \in [Products -> Int] /\ v.shift \in [Products -> Int]
    BY <1>3 DEF Works, StockInv, OverlapTyped, TypeOK
  <2>2. Touched(v) \in SUBSET Products
    BY DEF Touched
  <2>3. shelf \in [Touched(v) -> Int]
    BY <1>4, <2>1, <2>2
  <2> QED
    BY <2>2, <2>3, PartOfIntro
<1>7. purse \in PartOf(Parties, Int) /\ DOMAIN purse = Owing(v)
  <2>1. balance \in [Parties -> Int] /\ v.credit \in Int /\ v.party \in Parties \cup {NoParty}
    BY <1>3 DEF Works, StockInv, OverlapTyped, TypeOK
  <2>2. Owing(v) \in SUBSET Parties
    BY <2>1 DEF Owing
  <2>3. purse \in [Owing(v) -> Int]
    BY <1>5, <2>1, <2>2
  <2> QED
    BY <2>2, <2>3, PartOfIntro
<1>8. PICK reads : reads = v.reads \cup Touched(v) \cup Owing(v)
  OBVIOUS
<1>9. PICK w : w = [v EXCEPT !.step = "ready", !.shelf = shelf, !.purse = purse, !.reads = reads]
  OBVIOUS
<1>10. reads \in SUBSET (Docs \cup Parties \cup Products)
  <2>1. v.reads \in SUBSET (Docs \cup Parties \cup Products) /\ v.party \in Parties \cup {NoParty}
    BY <1>3 DEF Works
  <2> QED
    BY <1>8, <2>1 DEF Touched, Owing
<1>11. w \in Works
  BY <1>3, <1>6, <1>7, <1>9, <1>10 DEF Works
<1>12. /\ w.op = v.op /\ w.about = v.about /\ w.step = "ready" /\ w.party = v.party
       /\ w.shift = v.shift /\ w.credit = v.credit /\ w.pay = v.pay /\ w.label = v.label
       /\ w.shelf = shelf /\ w.purse = purse /\ w.reads = reads
  BY <1>3, <1>9 DEF Works
<1>13. job' = [job EXCEPT ![j] = w]
  <2>1. job' = [job EXCEPT ![j] = [v EXCEPT !.step = "ready",
                  !.shelf = [p \in Touched(v) |-> stock[p] + v.shift[p]],
                  !.purse = [x \in Owing(v) |-> balance[x] + v.credit],
                  !.reads = v.reads \cup Touched(v) \cup Owing(v)]]
    <3>1. job' = [job EXCEPT ![j].step = "ready",
                    ![j].shelf = [p \in Touched(job[j]) |-> stock[p] + job[j].shift[p]],
                    ![j].purse = [x \in Owing(job[j]) |-> balance[x] + job[j].credit],
                    ![j].reads = @ \cup Touched(job[j]) \cup Owing(job[j])]
      BY DEF Fetch, Shifted, Touched, Owing
    <3>2. job \in [Jobs -> Works \cup {Idle}]
      BY DEF StockInv, OverlapTyped
    <3> QED
      BY <3>1, <3>2, <1>3
  <2> QED
    BY <2>1, <1>4, <1>5, <1>8, <1>9
<1>14. /\ DOMAIN w.shelf = Touched(job[j])
       /\ \A p \in DOMAIN w.shelf : w.shelf[p] = stock[p] + w.shift[p]
  BY <1>3, <1>4, <1>6, <1>12
<1>15. /\ DOMAIN w.purse = Owing(job[j])
       /\ \A x \in DOMAIN w.purse : w.purse[x] = balance[x] + w.credit
  BY <1>3, <1>5, <1>7, <1>12
<1>16. w.reads = job[j].reads \cup Touched(job[j]) \cup Owing(job[j])
  BY <1>3, <1>8, <1>12
<1>17. AboutDoc(job[j])
  BY <1>1 DEF AboutDoc
<1> QED
  BY <1>1, <1>2, <1>3, <1>11, <1>12, <1>13, <1>14, <1>15, <1>16, <1>17

\* The work of a settlement that has read the documents.
LEMMA FetchDocsWork ==
  ASSUME StockInv, NEW j \in Jobs, FetchDocs(j)
  PROVE  \E w \in Works :
           /\ job' = [job EXCEPT ![j] = w]
           /\ Live(j) /\ job[j].op = "settle" /\ job[j].step = "opened"
           /\ w.op = "settle" /\ w.about = job[j].about /\ w.step = "ready"
           /\ w.shift = job[j].shift /\ w.credit = job[j].credit
           /\ w.shelf = job[j].shelf /\ w.purse = job[j].purse
           /\ \A d \in DOMAIN w.pay : /\ d \in Docs /\ party[d] = w.about
                                      /\ w.pay[d] = total[d] /\ d \in w.reads
           /\ DOMAIN w.label \subseteq DOMAIN w.pay
           /\ job[j].reads \subseteq w.reads
           /\ DOMAIN w.pay \subseteq DocsOfParty(w.about)
           /\ \A d \in DocsOfParty(w.about) : status[d] = "completed" =>
                d \in w.reads /\ (d \notin DOMAIN w.pay => paid[d] = total[d])
<1>1. job[j].op = "settle" /\ job[j].step = "opened"
  BY DEF FetchDocs
<1>2. job[j] \in Works /\ Live(j)
  <2>1. Idle.op = "none"
    BY DEF Idle
  <2>2. job[j] \in Works \cup {Idle}
    BY DEF StockInv, OverlapTyped
  <2> QED
    BY <1>1, <2>1, <2>2, WorkNotIdle DEF Live
<1>3. PICK v \in Works : v = job[j]
  BY <1>2
<1>4. PICK D : D = {d \in DocsOfParty(v.about) : status[d] = "completed"}
  OBVIOUS
<1>5. D \in SUBSET Docs
  BY <1>4 DEF DocsOfParty, DocsOf, Docs
<1>6. PICK pay : pay = [d \in {e \in D : Open(e)} |-> total[d]]
  OBVIOUS
<1>6a. PICK label : label = [d \in {e \in {f \in D : Open(f)} : payment[e] # "paid"} |-> "paid"]
  OBVIOUS
<1>7. /\ pay \in PartOf(Docs, Nat) /\ label \in PartOf(Docs, {"unpaid", "partial", "paid"})
      /\ DOMAIN pay = {e \in D : Open(e)} /\ \A d \in DOMAIN pay : pay[d] = total[d]
      /\ DOMAIN label \subseteq DOMAIN pay
  <2>1. {e \in D : Open(e)} \in SUBSET Docs
        /\ {e \in {f \in D : Open(f)} : payment[e] # "paid"} \in SUBSET Docs
    BY <1>5
  <2>2. total \in [Docs -> Nat]
    BY DEF StockInv, OverlapTyped, TypeOK
  <2>3. pay \in [{e \in D : Open(e)} -> Nat]
        /\ label \in [{e \in {f \in D : Open(f)} : payment[e] # "paid"} -> {"unpaid", "partial", "paid"}]
    BY <1>6, <1>6a, <2>1, <2>2
  <2>4. pay \in PartOf(Docs, Nat) /\ label \in PartOf(Docs, {"unpaid", "partial", "paid"})
    BY <2>1, <2>3, PartOfIntro
  <2> QED
    BY <1>6, <1>6a, <2>4
<1>8. PICK w : w = [v EXCEPT !.step = "ready", !.pay = pay, !.label = label, !.reads = v.reads \cup D]
  OBVIOUS
<1>9. w \in Works
  BY <1>3, <1>5, <1>7, <1>8 DEF Works
<1>10. /\ w.op = v.op /\ w.about = v.about /\ w.step = "ready"
       /\ w.shift = v.shift /\ w.credit = v.credit /\ w.pay = pay /\ w.label = label
       /\ w.shelf = v.shelf /\ w.purse = v.purse /\ w.reads = v.reads \cup D
  BY <1>3, <1>8 DEF Works
<1>11. job' = [job EXCEPT ![j] = w]
  <2>1. job' = [job EXCEPT ![j] = [v EXCEPT !.step = "ready",
                  !.pay = [d \in {e \in D : Open(e)} |-> total[d]],
                  !.label = [d \in {e \in {f \in D : Open(f)} : payment[e] # "paid"} |-> "paid"],
                  !.reads = v.reads \cup D]]
    BY <1>3, <1>4 DEF FetchDocs, Relabelled, StockInv, OverlapTyped
  <2> QED
    BY <2>1, <1>6, <1>6a, <1>8
<1>12. ASSUME NEW d \in D, d \notin DOMAIN pay
       PROVE  paid[d] = total[d]
  <2>1. status[d] = "completed" /\ ~Open(d)
    BY <1>4, <1>7, <1>12
  <2>2. paid[d] \in Nat /\ total[d] \in Nat /\ paid[d] <= total[d]
    BY <1>5 DEF StockInv, OverlapTyped, TypeOK
  <2> QED
    BY <2>1, <2>2 DEF Open, Due
<1>13. /\ \A d \in DOMAIN pay : d \in Docs /\ party[d] = v.about /\ pay[d] = total[d] /\ d \in D
       /\ DOMAIN pay \subseteq DocsOfParty(v.about)
       /\ \A d \in DocsOfParty(v.about) : status[d] = "completed" =>
            d \in D /\ (d \notin DOMAIN pay => paid[d] = total[d])
  BY <1>4, <1>5, <1>7, <1>12 DEF DocsOfParty
<1>14. /\ \A d \in DOMAIN w.pay : d \in Docs /\ party[d] = w.about /\ w.pay[d] = total[d]
                                  /\ d \in w.reads
       /\ DOMAIN w.label \subseteq DOMAIN w.pay
  BY <1>7, <1>10, <1>13
<1>15. /\ DOMAIN w.pay \subseteq DocsOfParty(w.about)
       /\ \A d \in DocsOfParty(w.about) : status[d] = "completed" =>
            d \in w.reads /\ (d \notin DOMAIN w.pay => paid[d] = total[d])
  BY <1>10, <1>13
<1>16. /\ w.op = "settle" /\ w.about = job[j].about /\ w.step = "ready"
       /\ w.shift = job[j].shift /\ w.credit = job[j].credit
       /\ w.shelf = job[j].shelf /\ w.purse = job[j].purse
       /\ job[j].reads \subseteq w.reads
  BY <1>1, <1>3, <1>10
<1> QED
  BY <1>1, <1>2, <1>9, <1>11, <1>14, <1>15, <1>16

\* The first queries and the others keep the invariant.
LEMMA TakesKeepStock ==
  ASSUME StockInv, NEW j \in Jobs,
         \/ \E d \in Docs : TakeEvent(j, d)
         \/ \E d \in Docs : TakeCancel(j, d)
         \/ \E d \in Docs, amount \in Payments : TakePayment(j, d, amount)
         \/ \E x \in Parties : TakeParty(j, x)
         \/ \E p \in Products, n \in Corrections : TakeCorrection(j, p, n)
  PROVE  StockInv'
<1>1. UNCHANGED <<vars, torn>>
  BY DEF TakeEvent, TakeCancel, TakePayment, TakeParty, TakeCorrection, Take
<1>0. DOMAIN Nothing = {}
  BY NothingIsPart
<1>2. ASSUME NEW d \in Docs, TakeEvent(j, d) PROVE StockInv'
  <2>1. PICK w \in Works :
           /\ job' = [job EXCEPT ![j] = w]
           /\ w.op = "apply" /\ w.about = d /\ w.step = "opened"
           /\ IF NoEffects(d) THEN w.party = NoParty /\ w.shift = NoLines /\ w.credit = 0
                              ELSE w.party = party[d] /\ w.shift = Moves(d) /\ w.credit = Due(d)
           /\ w.pay = Nothing /\ w.label = Nothing /\ w.shelf = Nothing /\ w.purse = Nothing /\ w.reads = {d}
    BY <1>2, EventWork
  <2>2. WellFormed(w)
    BY <2>1, <1>0 DEF WellFormed, AboutDoc
  <2>3. Shelved(w)
    BY <2>1 DEF Shelved
  <2>4. ShiftIsDue(w)
    <3>1. SUFFICES ASSUME d \notin torn
                   PROVE  IF status[d] = "completed"
                          THEN \/ moved[d] = NoLines /\ w.shift = Moves(d)
                               \/ moved[d] = Moves(d) /\ w.shift = NoLines
                          ELSE w.shift = NoLines
      BY <2>1 DEF ShiftIsDue
    <3>2. moved[d] = NoLines \/ moved[d] = Moves(d)
      BY <3>1 DEF StockInv, DocsWhole
    <3>3. status[d] \in {"completed", "cancelled"}
      BY DEF StockInv, OverlapTyped, TypeOK
    <3>4. CASE status[d] = "cancelled"
      BY <2>1, <3>4 DEF NoEffects
    <3>5. CASE status[d] = "completed" /\ ~NoEffects(d)
      <4>1. moved[d] = NoLines
        <5>1. moved[d] \in [Products -> Int]
          BY Whole DEF StockInv
        <5>2. \A p \in Products : moved[d][p] = 0
          BY <3>5 DEF NoEffects, AlreadyMoved
        <5> QED
          BY <5>1, <5>2 DEF NoLines
      <4> QED
        BY <2>1, <3>5, <4>1
    <3>6. CASE status[d] = "completed" /\ NoEffects(d)
      <4>1. moved[d] # NoLines
        BY <3>6 DEF NoEffects, AlreadyMoved, NoLines
      <4> QED
        BY <2>1, <3>2, <3>6, <4>1
    <3> QED
      BY <3>3, <3>4, <3>5, <3>6
  <2> QED
    BY <1>1, <2>1, <2>2, <2>3, <2>4, HandlerStock
<1>3. ASSUME NEW d \in Docs, TakeCancel(j, d) PROVE StockInv'
  <2>1. PICK w \in Works :
           /\ job' = [job EXCEPT ![j] = w]
           /\ w.op = "cancel" /\ w.about = d /\ w.step = "opened" /\ w.party = party[d]
           /\ w.shift = Returned(d) /\ w.credit = 0 - Due(d)
           /\ w.pay = Nothing /\ w.label = Nothing /\ w.shelf = Nothing /\ w.purse = Nothing /\ w.reads = {d}
    BY <1>3, CancelWork
  <2>2. WellFormed(w)
    BY <2>1, <1>0 DEF WellFormed, AboutDoc
  <2>3. Shelved(w)
    BY <2>1 DEF Shelved
  <2>4. ShiftIsDue(w)
    BY <1>3, <2>1 DEF ShiftIsDue, TakeCancel, Returned
  <2> QED
    BY <1>1, <2>1, <2>2, <2>3, <2>4, HandlerStock
<1>4. ASSUME NEW d \in Docs, NEW amount \in Payments, TakePayment(j, d, amount) PROVE StockInv'
  <2>1. PICK w \in Works :
           /\ job' = [job EXCEPT ![j] = w]
           /\ w.op = "pay" /\ w.about = d /\ w.step = "opened" /\ w.party = party[d]
           /\ w.shift = NoLines
           /\ w.credit = paid[d] - (IF d \in DOMAIN w.pay THEN w.pay[d] ELSE paid[d])
           /\ DOMAIN w.pay \subseteq {d} /\ \A e \in DOMAIN w.pay : w.pay[e] <= total[d]
           /\ DOMAIN w.label \subseteq {d}
           /\ w.shelf = Nothing /\ w.purse = Nothing /\ w.reads = {d}
    BY <1>4, PaymentWork
  <2>2. WellFormed(w)
    BY <2>1, <1>0 DEF WellFormed, AboutDoc
  <2>3. Shelved(w)
    BY <2>1 DEF Shelved
  <2>4. ShiftIsDue(w)
    BY <2>1 DEF ShiftIsDue
  <2> QED
    BY <1>1, <2>1, <2>2, <2>3, <2>4, HandlerStock
<1>5. ASSUME NEW x \in Parties, TakeParty(j, x) PROVE StockInv'
  <2>1. PICK w \in Works :
           /\ job' = [job EXCEPT ![j] = w]
           /\ w.op = "settle" /\ w.about = x /\ w.step = "opened"
           /\ w.shift = NoLines /\ w.credit = 0 /\ w.pay = Nothing /\ w.label = Nothing /\ w.shelf = Nothing
           /\ DOMAIN w.purse \subseteq {x} /\ \A y \in DOMAIN w.purse : w.purse[y] = 0
           /\ x \notin DOMAIN w.purse => balance[x] = 0
           /\ w.reads = {x}
    BY <1>5, PartyWork
  <2>2. WellFormed(w)
    BY <2>1, <1>0 DEF WellFormed, AboutDoc
  <2>3. Shelved(w)
    BY <2>1 DEF Shelved
  <2>4. ShiftIsDue(w)
    BY <2>1 DEF ShiftIsDue
  <2> QED
    BY <1>1, <2>1, <2>2, <2>3, <2>4, HandlerStock
<1>6. ASSUME NEW p \in Products, NEW n \in Corrections, TakeCorrection(j, p, n) PROVE StockInv'
  <2>1. PICK w \in Works :
           /\ job' = [job EXCEPT ![j] = w]
           /\ w.op = "adjust" /\ w.about = p /\ w.step = "ready"
           /\ w.shift[p] = n /\ n # 0 /\ \A q \in Products : q # p => w.shift[q] = 0
           /\ w.credit = 0 /\ w.pay = Nothing /\ w.label = Nothing /\ w.purse = Nothing
           /\ DOMAIN w.shelf = {p} /\ w.shelf[p] = stock[p] + n
           /\ w.reads = {p}
    BY <1>6, CorrectionWork
  <2>2. WellFormed(w)
    BY <2>1, <1>0 DEF WellFormed, AboutDoc, Touched, Owing
  <2>3. Shelved(w)
    BY <2>1 DEF Shelved
  <2>4. ShiftIsDue(w)
    BY <2>1 DEF ShiftIsDue
  <2> QED
    BY <1>1, <2>1, <2>2, <2>3, <2>4, HandlerStock
<1> QED
  BY <1>2, <1>3, <1>4, <1>5, <1>6

\* The other queries keep the invariant.
LEMMA FetchKeepsStock ==
  ASSUME StockInv, NEW j \in Jobs, Fetch(j)
  PROVE  StockInv'
<1>1. UNCHANGED <<vars, torn>>
  BY DEF Fetch
<1>2. PICK w \in Works :
           /\ job' = [job EXCEPT ![j] = w]
           /\ Live(j) /\ AboutDoc(job[j]) /\ job[j].step = "opened"
           /\ w.op = job[j].op /\ w.about = job[j].about /\ w.step = "ready"
           /\ w.party = job[j].party /\ w.shift = job[j].shift
           /\ w.credit = job[j].credit /\ w.pay = job[j].pay /\ w.label = job[j].label
           /\ DOMAIN w.shelf = Touched(job[j])
           /\ \A p \in DOMAIN w.shelf : w.shelf[p] = stock[p] + w.shift[p]
           /\ DOMAIN w.purse = Owing(job[j])
           /\ \A x \in DOMAIN w.purse : w.purse[x] = balance[x] + w.credit
           /\ w.reads = job[j].reads \cup Touched(job[j]) \cup Owing(job[j])
  BY FetchWork
<1>3. WellFormed(job[j]) /\ ShiftIsDue(job[j])
  BY <1>2 DEF StockInv, AllWellFormed
<1>4. Touched(w) = Touched(job[j]) /\ Owing(w) = Owing(job[j])
  BY <1>2 DEF Touched, Owing
<1>5. WellFormed(w)
  BY <1>2, <1>3, <1>4 DEF WellFormed, AboutDoc
<1>6. Shelved(w)
  BY <1>2 DEF Shelved
<1>7. ShiftIsDue(w)
  BY <1>2, <1>3 DEF ShiftIsDue
<1> QED
  BY <1>1, <1>2, <1>5, <1>6, <1>7, HandlerStock

LEMMA FetchDocsKeepsStock ==
  ASSUME StockInv, NEW j \in Jobs, FetchDocs(j)
  PROVE  StockInv'
<1>1. UNCHANGED <<vars, torn>>
  BY DEF FetchDocs
<1>2. PICK w \in Works :
           /\ job' = [job EXCEPT ![j] = w]
           /\ Live(j) /\ job[j].op = "settle" /\ job[j].step = "opened"
           /\ w.op = "settle" /\ w.about = job[j].about /\ w.step = "ready"
           /\ w.shift = job[j].shift /\ w.credit = job[j].credit
           /\ w.shelf = job[j].shelf /\ w.purse = job[j].purse
           /\ \A d \in DOMAIN w.pay : /\ d \in Docs /\ party[d] = w.about
                                      /\ w.pay[d] = total[d] /\ d \in w.reads
           /\ DOMAIN w.label \subseteq DOMAIN w.pay
           /\ job[j].reads \subseteq w.reads
           /\ DOMAIN w.pay \subseteq DocsOfParty(w.about)
           /\ \A d \in DocsOfParty(w.about) : status[d] = "completed" =>
                d \in w.reads /\ (d \notin DOMAIN w.pay => paid[d] = total[d])
  BY FetchDocsWork
<1>3. WellFormed(job[j])
  BY <1>2 DEF StockInv, AllWellFormed
<1>4. WellFormed(w)
  <2>1. DOMAIN w.shelf = {} /\ Touched(w) = {}
    BY <1>2, <1>3, NothingIsPart DEF WellFormed, Touched, NoLines
  <2>2. \A e \in DOMAIN w.pay : w.pay[e] <= total[e]
    BY <1>2 DEF StockInv, OverlapTyped, TypeOK
  <2> QED
    BY <1>2, <1>3, <2>1, <2>2 DEF WellFormed, AboutDoc
<1>5. Shelved(w)
  BY <1>2, <1>3, NothingIsPart DEF Shelved, WellFormed
<1>6. ShiftIsDue(w)
  BY <1>2 DEF ShiftIsDue
<1> QED
  BY <1>1, <1>2, <1>4, <1>5, <1>6, HandlerStock

\* A replay changes no row that anyone counts from.
LEMMA ReplayKeepsStock ==
  ASSUME StockInv, NEW d \in Docs, ReplayOne(d)
  PROVE  StockInv'
<1>1. UNCHANGED <<products, stock, adjusted, parties, type, balance, opening, status,
                  party, lines, total, paid, payment, moved, undone, job, torn>>
  BY DEF ReplayOne, Replay, overlap, catalog, written
<1>2. /\ event' = [event EXCEPT ![d] = "again"] /\ replays' = replays + 1
      /\ skewed' \subseteq skewed \cup {d} /\ rushed' = rushed
  BY DEF ReplayOne, Replay
<1>3. OverlapTyped'
  BY <1>1, <1>2 DEF StockInv, OverlapTyped, TypeOK
<1>4. ASSUME NEW k \in Jobs, Live(k)'
      PROVE  WellFormed(job[k])' /\ Shelved(job[k])' /\ ShiftIsDue(job[k])'
  <2>1. Live(k)
    BY <1>1, <1>4 DEF Live, Idle
  <2>2. WellFormed(job[k]) /\ Shelved(job[k]) /\ ShiftIsDue(job[k])
    BY <2>1 DEF StockInv, AllWellFormed
  <2>3. Moves(job[k].about)' = Moves(job[k].about)
    BY <1>1 DEF Moves
  <2>4. WellFormed(job[k])'
    BY <2>2, <1>1 DEF WellFormed, AboutDoc, Touched, Owing, Nothing, NoLines
  <2>5. Shelved(job[k])'
    BY <2>2, <1>1 DEF Shelved
  <2>6. ShiftIsDue(job[k])'
    BY <2>2, <2>3, <1>1 DEF ShiftIsDue, NoLines
  <2> QED
    BY <2>4, <2>5, <2>6
<1>5. DocsWhole'
  BY <1>1 DEF StockInv, DocsWhole, Moves, NoLines
<1>6. StockSum'
  BY <1>1, RowsSame DEF StockInv, StockSum
<1> QED
  BY <1>3, <1>4, <1>5, <1>6 DEF StockInv, AllWellFormed

-----------------------------------------------------------------------------
(* A commit, and the stock.                                                *)

\* A commit, row by row.
LEMMA CommitWork ==
  ASSUME StockInv, NEW j \in Jobs, Commit(j)
  PROVE  /\ Live(j) /\ job[j] \in Works /\ job[j].step = "ready"
         /\ WellFormed(job[j]) /\ Shelved(job[j]) /\ ShiftIsDue(job[j])
         /\ job'[j] = Idle /\ \A k \in Jobs : k # j => job'[k] = job[k]
         /\ UNCHANGED <<products, parties, type, party, lines, total, replays>>
<1>1. job[j] # Idle /\ job[j].step = "ready"
  BY DEF Commit
<1>2. job \in [Jobs -> Works \cup {Idle}] /\ job' = [job EXCEPT ![j] = Idle]
  BY DEF Commit, StockInv, OverlapTyped
<1>3. job[j] \in Works
  BY <1>1, <1>2
<1>4. WellFormed(job[j]) /\ Shelved(job[j]) /\ ShiftIsDue(job[j])
  BY <1>1 DEF StockInv, AllWellFormed, Live
<1>5. UNCHANGED <<products, parties, type, party, lines, total, replays>>
  BY DEF Commit, written
<1> QED
  BY <1>1, <1>2, <1>3, <1>4, <1>5 DEF Live

LEMMA CommitRows ==
  ASSUME StockInv, NEW j \in Jobs, Commit(j), NEW w, w = job[j]
  PROVE  /\ \A p \in Products : stock'[p] = IF p \in DOMAIN w.shelf THEN w.shelf[p] ELSE stock[p]
         /\ \A p \in Products :
              adjusted'[p] = IF w.op = "adjust" /\ p = w.about THEN adjusted[p] + w.shift[p]
                                                               ELSE adjusted[p]
         /\ \A x \in Parties : balance'[x] = IF x \in DOMAIN w.purse THEN w.purse[x] ELSE balance[x]
         /\ \A x \in Parties :
              opening'[x] = IF w.op = "settle" /\ x = w.about THEN 0 ELSE opening[x]
         /\ \A d \in Docs :
              /\ paid'[d] = IF d \in DOMAIN w.pay THEN w.pay[d] ELSE paid[d]
              /\ status'[d] = IF w.op = "cancel" /\ d = w.about THEN "cancelled" ELSE status[d]
              /\ event'[d] = IF w.op = "apply" /\ d = w.about THEN "done" ELSE event[d]
              /\ w.op = "apply" /\ d = w.about => \A p \in Products : moved'[d][p] = moved[d][p] + w.shift[p]
              /\ ~(w.op = "apply" /\ d = w.about) => moved'[d] = moved[d]
              /\ w.op = "cancel" /\ d = w.about => \A p \in Products : undone'[d][p] = undone[d][p] + w.shift[p]
              /\ ~(w.op = "cancel" /\ d = w.about) => undone'[d] = undone[d]
<1> DEFINE a == w.about
<1>1. /\ w.op = "apply" => moved' = Inserted(moved, a, w.shift)
      /\ w.op # "apply" => moved' = moved
      /\ w.op = "cancel" => undone' = Inserted(undone, a, w.shift)
      /\ w.op # "cancel" => undone' = undone
      /\ w.op = "cancel" => status' = [status EXCEPT ![a] = "cancelled"]
      /\ w.op # "cancel" => status' = status
      /\ w.op = "apply" => event' = [event EXCEPT ![a] = "done"]
      /\ w.op # "apply" => event' = event
      /\ w.op = "adjust" => adjusted' = [adjusted EXCEPT ![a] = adjusted[a] + w.shift[a]]
      /\ w.op # "adjust" => adjusted' = adjusted
      /\ w.op = "settle" => opening' = [opening EXCEPT ![a] = 0]
      /\ w.op # "settle" => opening' = opening
  <2>1. adjusted \in [Products -> Int]
    BY DEF StockInv, OverlapTyped, TypeOK
  <2>2. w.op = "adjust" => a \in Products
    BY CommitWork DEF WellFormed
  <2> QED
    BY <2>1, <2>2 DEF Commit
<1>2. WellFormed(w)
  BY CommitWork
<1>3. /\ moved \in [Docs -> [Products -> Int]] /\ undone \in [Docs -> [Products -> Int]]
      /\ DOMAIN status = Docs /\ DOMAIN event = Docs
      /\ DOMAIN adjusted = Products /\ DOMAIN opening = Parties
  BY DEF StockInv, OverlapTyped, TypeOK
<1>4. /\ w.op \in {"apply", "cancel"} => a \in Docs
      /\ w.op = "settle" => a \in Parties
      /\ w.op = "adjust" => a \in Products
  BY <1>2 DEF WellFormed, AboutDoc
<1>5. /\ \A p \in Products : stock'[p] = IF p \in DOMAIN w.shelf THEN w.shelf[p] ELSE stock[p]
      /\ \A x \in Parties : balance'[x] = IF x \in DOMAIN w.purse THEN w.purse[x] ELSE balance[x]
      /\ \A d \in Docs : paid'[d] = IF d \in DOMAIN w.pay THEN w.pay[d] ELSE paid[d]
  BY DEF Commit
<1>6. ASSUME NEW d \in Docs
      PROVE  /\ status'[d] = IF w.op = "cancel" /\ d = w.about THEN "cancelled" ELSE status[d]
             /\ event'[d] = IF w.op = "apply" /\ d = w.about THEN "done" ELSE event[d]
             /\ w.op = "apply" /\ d = w.about => \A p \in Products : moved'[d][p] = moved[d][p] + w.shift[p]
             /\ ~(w.op = "apply" /\ d = w.about) => moved'[d] = moved[d]
             /\ w.op = "cancel" /\ d = w.about => \A p \in Products : undone'[d][p] = undone[d][p] + w.shift[p]
             /\ ~(w.op = "cancel" /\ d = w.about) => undone'[d] = undone[d]
  BY <1>1, <1>3, <1>4 DEF Inserted
<1>7. \A p \in Products :
        adjusted'[p] = IF w.op = "adjust" /\ p = w.about THEN adjusted[p] + w.shift[p] ELSE adjusted[p]
  BY <1>1, <1>3, <1>4
<1>8. \A x \in Parties : opening'[x] = IF w.op = "settle" /\ x = w.about THEN 0 ELSE opening[x]
  BY <1>1, <1>3, <1>4
<1> QED
  BY <1>5, <1>6, <1>7, <1>8

\* A commit keeps the types.
LEMMA CommitTyped ==
  ASSUME StockInv, NEW j \in Jobs, Commit(j)
  PROVE  OverlapTyped'
<1>1. PICK w \in Works : w = job[j]
  BY CommitWork
<1>2. WellFormed(w)
  BY <1>1, CommitWork
<1>3. UNCHANGED <<products, parties, type, party, lines, total, replays>>
  BY CommitWork
<1>4. TypeOK /\ OverlapTyped
  BY DEF StockInv, OverlapTyped
<1>5. /\ w.shift \in [Products -> Int]
      /\ w.shelf \in [DOMAIN w.shelf -> Int]
      /\ w.purse \in [DOMAIN w.purse -> Int]
      /\ w.pay \in [DOMAIN w.pay -> Nat]
      /\ w.label \in [DOMAIN w.label -> {"unpaid", "partial", "paid"}]
  <2>1. w.shelf \in PartOf(Products, Int) /\ w.purse \in PartOf(Parties, Int)
        /\ w.pay \in PartOf(Docs, Nat) /\ w.label \in PartOf(Docs, {"unpaid", "partial", "paid"})
        /\ w.shift \in [Products -> Int]
    BY DEF Works
  <2> QED
    BY <2>1, PartOfElim
<1>6. stock' \in [Products -> Int] /\ balance' \in [Parties -> Int]
  <2>1. stock \in [Products -> Int] /\ balance \in [Parties -> Int]
    BY <1>4 DEF TypeOK
  <2>2. stock' = [p \in Products |-> IF p \in DOMAIN w.shelf THEN w.shelf[p] ELSE stock[p]]
        /\ balance' = [x \in Parties |-> IF x \in DOMAIN w.purse THEN w.purse[x] ELSE balance[x]]
    BY <1>1 DEF Commit
  <2>3. \A p \in Products : (IF p \in DOMAIN w.shelf THEN w.shelf[p] ELSE stock[p]) \in Int
    BY <1>5, <2>1
  <2>4. \A x \in Parties : (IF x \in DOMAIN w.purse THEN w.purse[x] ELSE balance[x]) \in Int
    BY <1>5, <2>1
  <2> QED
    BY <2>2, <2>3, <2>4
<1>7. paid' \in [Docs -> Nat] /\ payment' \in [Docs -> {"unpaid", "partial", "paid"}]
      /\ \A d \in Docs : paid'[d] <= total[d]
  <2>1. /\ paid \in [Docs -> Nat] /\ payment \in [Docs -> {"unpaid", "partial", "paid"}]
        /\ \A d \in Docs : paid[d] <= total[d]
    BY <1>4 DEF TypeOK, OverlapTyped
  <2>2. paid' = [e \in Docs |-> IF e \in DOMAIN w.pay THEN w.pay[e] ELSE paid[e]]
        /\ payment' = [e \in Docs |-> IF e \in DOMAIN w.label THEN w.label[e] ELSE payment[e]]
    BY <1>1 DEF Commit
  <2>3. /\ \A e \in DOMAIN w.pay : w.pay[e] \in Nat /\ w.pay[e] <= total[e]
        /\ \A e \in DOMAIN w.label : w.label[e] \in {"unpaid", "partial", "paid"}
    BY <1>2, <1>5 DEF WellFormed
  <2> QED
    BY <2>1, <2>2, <2>3
<1>8. adjusted' \in [Products -> Int] /\ opening' \in [Parties -> Int]
  <2>1. adjusted \in [Products -> Int] /\ opening \in [Parties -> Int]
    BY <1>4 DEF TypeOK
  <2>2. adjusted' = (IF w.op = "adjust" THEN [adjusted EXCEPT ![w.about] = @ + w.shift[w.about]] ELSE adjusted)
        /\ opening' = (IF w.op = "settle" THEN [opening EXCEPT ![w.about] = 0] ELSE opening)
    BY <1>1 DEF Commit
  <2>3. \A p \in Products : adjusted[p] + w.shift[p] \in Int
    BY <2>1, <1>5
  <2>4. w.op = "adjust" => w.about \in Products
    BY <1>2 DEF WellFormed
  <2>5. adjusted' \in [Products -> Int]
    <3>1. CASE w.op = "adjust"
      <4>1. PICK p \in Products : p = w.about
        BY <2>4, <3>1
      <4>2. adjusted' = [adjusted EXCEPT ![p] = adjusted[p] + w.shift[p]]
        BY <2>1, <2>2, <3>1, <4>1
      <4> QED
        BY <2>1, <2>3, <4>2
    <3>2. CASE w.op # "adjust"
      BY <2>1, <2>2, <3>2
    <3> QED
      BY <3>1, <3>2
  <2>6. opening' \in [Parties -> Int]
    <3>1. w.op = "settle" => opening' = [opening EXCEPT ![w.about] = 0]
      BY <2>2
    <3>2. w.op # "settle" => opening' = opening
      BY <2>2
    <3>3. 0 \in Int
      OBVIOUS
    <3> QED
      BY <2>1, <3>1, <3>2, <3>3
  <2> QED
    BY <2>5, <2>6
<1>9. moved' \in [Docs -> [Products -> Int]] /\ undone' \in [Docs -> [Products -> Int]]
  <2>1. moved \in [Docs -> [Products -> Int]] /\ undone \in [Docs -> [Products -> Int]]
    BY <1>4 DEF TypeOK
  <2>2. moved' = (IF w.op = "apply" THEN Inserted(moved, w.about, w.shift) ELSE moved)
        /\ undone' = (IF w.op = "cancel" THEN Inserted(undone, w.about, w.shift) ELSE undone)
    BY <1>1 DEF Commit
  <2>3. ASSUME NEW rows \in [Docs -> [Products -> Int]]
        PROVE  Inserted(rows, w.about, w.shift) \in [Docs -> [Products -> Int]]
    <3>1. ASSUME NEW d \in Docs
          PROVE  [p \in Products |-> rows[d][p] + w.shift[p]] \in [Products -> Int]
      <4>1. \A p \in Products : rows[d][p] + w.shift[p] \in Int
        BY <1>5
      <4> QED
        BY <4>1
    <3> QED
      BY <3>1 DEF Inserted
  <2> QED
    BY <2>1, <2>2, <2>3
<1>10. status' \in [Docs -> {"absent", "completed", "cancelled"}]
       /\ event' \in [Docs -> {"none", "pending", "done", "again"}]
       /\ \A d \in Docs : status'[d] # "absent" /\ event'[d] # "none"
  <2>1. /\ status \in [Docs -> {"absent", "completed", "cancelled"}]
        /\ event \in [Docs -> {"none", "pending", "done", "again"}]
        /\ \A d \in Docs : status[d] # "absent" /\ event[d] # "none"
    BY <1>4 DEF TypeOK, OverlapTyped
  <2>2. status' = (IF w.op = "cancel" THEN [status EXCEPT ![w.about] = "cancelled"] ELSE status)
        /\ event' = (IF w.op = "apply" THEN [event EXCEPT ![w.about] = "done"] ELSE event)
    BY <1>1 DEF Commit
  <2> QED
    BY <2>1, <2>2
<1>11. job' \in [Jobs -> Works \cup {Idle}]
  BY DEF Commit, StockInv, OverlapTyped
<1>12. skewed' \subseteq Docs /\ rushed' \subseteq Products
  <2>1. skewed \subseteq Docs /\ rushed \subseteq Products
    BY <1>4 DEF TypeOK
  <2>2. w.op \in {"pay", "cancel"} => w.about \in Docs
    BY <1>2 DEF WellFormed, AboutDoc
  <2>3. skewed' \subseteq Docs
    BY <1>1, <2>1, <2>2 DEF Commit, Skewed, Strays
  <2>4. rushed' \subseteq Products
    BY <1>1, <2>1 DEF Commit, Rushed
  <2> QED
    BY <2>3, <2>4
<1> QED
  BY <1>3, <1>4, <1>6, <1>7, <1>8, <1>9, <1>10, <1>11, <1>12 DEF OverlapTyped, TypeOK

\* What a commit writes under another handler that has read it is torn.
LEMMA CommitTears ==
  ASSUME StockInv, NEW j \in Jobs, Commit(j)
  PROVE  /\ torn \subseteq torn'
         /\ \A k \in Jobs : k # j => \A e \in job[k].reads : e \in Writes(job[j]) => e \in torn'
<1>1. torn' = torn \cup (Writes(job[j]) \cap UNION {job[k].reads : k \in Jobs \ {j}})
  BY DEF Commit
<1> QED
  BY <1>1

\* The stock of a product that nobody tore changes by what the handler moves.
LEMMA CommitStock ==
  ASSUME StockInv, NEW j \in Jobs, Commit(j), NEW p \in Products, p \notin torn
  PROVE  stock'[p] = stock[p] + job[j].shift[p]
<1>1. PICK w \in Works : w = job[j]
  BY CommitWork
<1>2. WellFormed(w) /\ Shelved(w) /\ w.step = "ready"
  BY <1>1, CommitWork
<1>3. stock'[p] = IF p \in DOMAIN w.shelf THEN w.shelf[p] ELSE stock[p]
  BY <1>1, CommitRows
<1>4. stock[p] \in Int /\ w.shift[p] \in Int
  BY DEF Works, StockInv, OverlapTyped, TypeOK
<1>5. CASE p \in DOMAIN w.shelf
  BY <1>1, <1>2, <1>3, <1>5 DEF Shelved
<1>6. CASE p \notin DOMAIN w.shelf
  <2>1. w.shift[p] = 0
    BY <1>2, <1>6 DEF WellFormed, Touched
  <2> QED
    BY <1>1, <1>3, <1>4, <1>6, <2>1
<1> QED
  BY <1>5, <1>6

\* A document that a handler has read and nobody tears stays as it is.
LEMMA CommitSpares ==
  ASSUME StockInv, NEW j \in Jobs, Commit(j), NEW k \in Jobs, k # j,
         NEW d \in Docs, d \in job[k].reads, d \notin torn'
  PROVE  UNCHANGED <<status[d], moved[d], paid[d]>>
<1>1. PICK w \in Works : w = job[j]
  BY CommitWork
<1>2. d \notin Writes(w)
  BY <1>1, CommitTears
<1>3. d \notin DOMAIN w.pay /\ ~(w.op = "cancel" /\ d = w.about)
      /\ (w.op = "apply" /\ d = w.about => w.shift = NoLines)
  BY <1>2 DEF Writes
<1>4. status'[d] = status[d] /\ paid'[d] = paid[d]
  BY <1>1, <1>3, CommitRows
<1>5. moved'[d] = moved[d]
  <2>1. CASE w.op = "apply" /\ d = w.about
    <3>1. \A p \in Products : moved'[d][p] = moved[d][p] + 0
      BY <1>1, <1>3, <2>1, CommitRows DEF NoLines
    <3>2. moved[d] \in [Products -> Int] /\ moved'[d] \in [Products -> Int]
      BY CommitTyped DEF StockInv, OverlapTyped, TypeOK
    <3> QED
      BY <3>1, <3>2
  <2>2. CASE ~(w.op = "apply" /\ d = w.about)
    BY <1>1, <2>2, CommitRows
  <2> QED
    BY <2>1, <2>2
<1> QED
  BY <1>4, <1>5

\* The other handlers still have in hand what they had.
LEMMA CommitKeepsOthers ==
  ASSUME StockInv, NEW j \in Jobs, Commit(j), NEW k \in Jobs, Live(k)'
  PROVE  /\ k # j /\ Live(k) /\ job'[k] = job[k]
         /\ WellFormed(job[k])' /\ Shelved(job[k])' /\ ShiftIsDue(job[k])'
<1>1. k # j /\ Live(k) /\ job'[k] = job[k]
  BY CommitWork DEF Live, Idle
<1>2. PICK v \in Works : v = job[k]
  BY <1>1 DEF StockInv, OverlapTyped, Live
<1>3. WellFormed(v) /\ Shelved(v) /\ ShiftIsDue(v)
  BY <1>1, <1>2 DEF StockInv, AllWellFormed
<1>4. job'[k] = v
  BY <1>1, <1>2
<1>5. UNCHANGED <<party, lines, total>>
  BY CommitWork
<1>6. torn \subseteq torn'
  BY CommitTears
<1>7. WellFormed(job[k])'
  BY <1>3, <1>4, <1>5 DEF WellFormed, AboutDoc, Touched, Owing, Nothing, NoLines
<1>8. Shelved(job[k])'
  <2> SUFFICES ASSUME v.step = "ready", NEW p \in DOMAIN v.shelf, p \notin torn'
               PROVE  v.shelf[p] = stock'[p] + v.shift[p]
    BY <1>4 DEF Shelved
  <2>1. p \in Products /\ p \in v.reads
    BY <1>3 DEF WellFormed, Touched
  <2>2. p \notin DOMAIN job[j].shelf
    BY <2>1, <1>1, <1>2, CommitTears DEF Writes
  <2>3. stock'[p] = stock[p]
    BY <2>1, <2>2, CommitRows
  <2> QED
    BY <1>3, <1>6, <2>3 DEF Shelved
<1>9. ShiftIsDue(job[k])'
  <2>1. CASE v.op \in {"apply", "cancel"} /\ v.about \notin torn'
    <3>1. PICK d \in Docs : d = v.about
      BY <1>3, <2>1 DEF WellFormed, AboutDoc
    <3>2. d \in job[k].reads
      BY <1>2, <1>3, <2>1, <3>1 DEF WellFormed, AboutDoc
    <3>3. UNCHANGED <<status[d], moved[d]>>
      BY <1>1, <2>1, <3>1, <3>2, CommitSpares
    <3>4. Moves(d)' = Moves(d)
      BY <1>5 DEF Moves
    <3>5. /\ v.op = "apply" => IF status[d] = "completed"
                               THEN \/ moved[d] = NoLines /\ v.shift = Moves(d)
                                    \/ moved[d] = Moves(d) /\ v.shift = NoLines
                               ELSE v.shift = NoLines
          /\ v.op = "cancel" => status[d] = "completed" /\ v.shift = [p \in Products |-> 0 - moved[d][p]]
      BY <1>3, <1>6, <2>1, <3>1 DEF ShiftIsDue
    <3>6. /\ v.op = "apply" => IF status'[d] = "completed"
                               THEN \/ moved'[d] = NoLines /\ v.shift = Moves(d)'
                                    \/ moved'[d] = Moves(d)' /\ v.shift = NoLines
                               ELSE v.shift = NoLines
          /\ v.op = "cancel" => status'[d] = "completed" /\ v.shift = [p \in Products |-> 0 - moved'[d][p]]
      BY <3>3, <3>4, <3>5
    <3>7. Moves(d)' = Moves(job[k].about)'
      BY <1>4, <3>1 DEF Moves
    <3> QED
      BY <1>4, <3>1, <3>6, <3>7 DEF ShiftIsDue, NoLines
  <2>2. CASE ~(v.op \in {"apply", "cancel"} /\ v.about \notin torn')
    BY <1>4, <2>2 DEF ShiftIsDue
  <2> QED
    BY <2>1, <2>2
<1> QED
  BY <1>1, <1>7, <1>8, <1>9

\* The document of the commit is whole after it.
LEMMA CommitKeepsDocs ==
  ASSUME StockInv, NEW j \in Jobs, Commit(j)
  PROVE  DocsWhole'
<1> SUFFICES ASSUME NEW d \in Docs, d \notin torn'
             PROVE  /\ moved'[d] \in {NoLines, Moves(d)'}
                    /\ undone'[d] = IF status'[d] = "cancelled" THEN [p \in Products |-> 0 - moved'[d][p]]
                                                                ELSE NoLines
  BY DEF DocsWhole, NoLines
<1>1. PICK w \in Works : w = job[j]
  BY CommitWork
<1>2. WellFormed(w) /\ ShiftIsDue(w)
  BY <1>1, CommitWork
<1>3. d \notin torn
  BY CommitTears
<1>4. Moves(d)' = Moves(d)
  BY CommitWork DEF Moves
<1>5. /\ moved[d] \in {NoLines, Moves(d)}
      /\ undone[d] = IF status[d] = "cancelled" THEN [p \in Products |-> 0 - moved[d][p]] ELSE NoLines
  BY <1>3 DEF StockInv, DocsWhole
<1>6. /\ moved[d] \in [Products -> Int] /\ moved'[d] \in [Products -> Int]
      /\ undone[d] \in [Products -> Int] /\ undone'[d] \in [Products -> Int]
      /\ Moves(d) \in [Products -> Int] /\ w.shift \in [Products -> Int]
      /\ status[d] \in {"completed", "cancelled"}
  BY CommitTyped, MovesType DEF StockInv, OverlapTyped, TypeOK, Works
<1>7. CASE w.op = "apply" /\ d = w.about
  <2>1. \A p \in Products : moved'[d][p] = moved[d][p] + w.shift[p]
    BY <1>1, <1>7, CommitRows
  <2>2. undone'[d] = undone[d] /\ status'[d] = status[d]
    BY <1>1, <1>7, CommitRows
  <2>3. CASE w.shift = NoLines
    <3>1. moved'[d] = moved[d]
      BY <1>6, <2>1, <2>3 DEF NoLines
    <3> QED
      BY <1>4, <1>5, <2>2, <3>1
  <2>4. CASE w.shift # NoLines
    <3>1. status[d] = "completed" /\ moved[d] = NoLines /\ w.shift = Moves(d)
      BY <1>2, <1>3, <1>7, <2>4 DEF ShiftIsDue
    <3>2. moved'[d] = Moves(d)
      BY <1>6, <2>1, <3>1 DEF NoLines
    <3> QED
      BY <1>4, <1>5, <2>2, <3>1, <3>2
  <2> QED
    BY <2>3, <2>4
<1>8. CASE w.op = "cancel" /\ d = w.about
  <2>1. status[d] = "completed" /\ w.shift = [p \in Products |-> 0 - moved[d][p]]
    BY <1>2, <1>3, <1>8 DEF ShiftIsDue
  <2>2. moved'[d] = moved[d] /\ status'[d] = "cancelled"
        /\ \A p \in Products : undone'[d][p] = undone[d][p] + w.shift[p]
    BY <1>1, <1>8, CommitRows
  <2>3. undone[d] = NoLines
    BY <1>5, <2>1
  <2>4. \A p \in Products : undone'[d][p] = 0 - moved[d][p]
    BY <1>6, <2>1, <2>2, <2>3 DEF NoLines
  <2>5. undone'[d] = [p \in Products |-> 0 - moved[d][p]]
    BY <1>6, <2>4
  <2> QED
    BY <1>4, <1>5, <2>2, <2>5
<1>9. CASE ~(w.op \in {"apply", "cancel"} /\ d = w.about)
  <2>1. moved'[d] = moved[d] /\ undone'[d] = undone[d] /\ status'[d] = status[d]
    BY <1>1, <1>9, CommitRows
  <2> QED
    BY <1>4, <1>5, <2>1
<1> QED
  BY <1>7, <1>8, <1>9

\* The rows of a product still add up to its stock.
LEMMA CommitKeepsSums ==
  ASSUME StockInv, NEW j \in Jobs, Commit(j)
  PROVE  StockSum'
<1> SUFFICES ASSUME NEW p \in Products, p \notin torn'
             PROVE  stock'[p] = adjusted'[p] + SumFunction(Rows(p))'
  BY DEF StockSum
<1>1. PICK w \in Works : w = job[j]
  BY CommitWork
<1>2. WellFormed(w)
  BY <1>1, CommitWork
<1>3. p \notin torn
  BY CommitTears
<1>4. stock'[p] = stock[p] + w.shift[p] /\ stock[p] = adjusted[p] + SumFunction(Rows(p))
  BY <1>1, <1>3, CommitStock DEF StockInv, StockSum
<1>5. TypeOK /\ TypeOK'
  BY CommitTyped DEF StockInv, OverlapTyped
<1>6. SumFunction(Rows(p)) \in Int /\ adjusted[p] \in Int /\ w.shift[p] \in Int
  BY <1>5, RowsType DEF TypeOK, Works
<1>7. CASE w.op \in {"apply", "cancel"}
  <2>1. PICK d \in Docs : d = w.about
    BY <1>2, <1>7 DEF WellFormed, AboutDoc
  <2>2. \A e \in Docs : e # d => moved'[e][p] = moved[e][p] /\ undone'[e][p] = undone[e][p]
    BY <1>1, <2>1, CommitRows
  <2>3. SumFunction(Rows(p))' = SumFunction(Rows(p)) + (moved'[d][p] + undone'[d][p])
                                                     - (moved[d][p] + undone[d][p])
    BY <1>5, <2>2, RowsChange
  <2>4. moved'[d][p] + undone'[d][p] = moved[d][p] + undone[d][p] + w.shift[p]
    <3>1. moved[d][p] \in Int /\ undone[d][p] \in Int
      BY <1>5 DEF TypeOK
    <3>2. CASE w.op = "apply"
      <4>1. moved'[d][p] = moved[d][p] + w.shift[p] /\ undone'[d] = undone[d]
        BY <1>1, <2>1, <3>2, CommitRows
      <4> QED
        BY <1>6, <3>1, <4>1
    <3>3. CASE w.op = "cancel"
      <4>1. undone'[d][p] = undone[d][p] + w.shift[p] /\ moved'[d] = moved[d]
        BY <1>1, <2>1, <3>3, CommitRows
      <4> QED
        BY <1>6, <3>1, <4>1
    <3> QED
      BY <1>7, <3>2, <3>3
  <2>5. adjusted'[p] = adjusted[p]
    BY <1>1, <1>7, CommitRows
  <2>6. moved[d][p] + undone[d][p] \in Int
    BY <1>5 DEF TypeOK
  <2> QED
    BY <1>4, <1>6, <2>3, <2>4, <2>5, <2>6
<1>8. CASE w.op \notin {"apply", "cancel"}
  <2>1. \A e \in Docs : moved'[e][p] = moved[e][p] /\ undone'[e][p] = undone[e][p]
    BY <1>1, <1>8, CommitRows
  <2>2. SumFunction(Rows(p))' = SumFunction(Rows(p))
    BY <2>1, RowsSame
  <2>3. adjusted'[p] = adjusted[p] + w.shift[p]
    <3>1. CASE w.op = "adjust"
      <4>1. p # w.about => w.shift[p] = 0
        BY <1>2, <3>1 DEF WellFormed
      <4>2. adjusted'[p] = IF p = w.about THEN adjusted[p] + w.shift[p] ELSE adjusted[p]
        BY <1>1, <3>1, CommitRows
      <4> QED
        BY <1>6, <4>1, <4>2
    <3>2. CASE w.op # "adjust"
      <4>1. w.op \in {"pay", "settle"}
        BY <1>8, <3>2 DEF Works
      <4>2. w.shift[p] = 0
        BY <1>2, <4>1 DEF WellFormed, NoLines
      <4>3. adjusted'[p] = adjusted[p]
        BY <1>1, <3>2, CommitRows
      <4> QED
        BY <1>6, <4>2, <4>3
    <3> QED
      BY <3>1, <3>2
  <2> QED
    BY <1>4, <1>6, <2>2, <2>3
<1> QED
  BY <1>7, <1>8

LEMMA CommitKeepsStock ==
  ASSUME StockInv, NEW j \in Jobs, Commit(j)
  PROVE  StockInv'
BY CommitTyped, CommitKeepsOthers, CommitKeepsDocs, CommitKeepsSums DEF StockInv, AllWellFormed

LEMMA OverlapStarts == OverlapInit => StockInv
<1> SUFFICES ASSUME OverlapInit PROVE StockInv
  OBVIOUS
<1>1. PICK row \in [Docs -> Recorded] :
        /\ party = [d \in Docs |-> row[d].party]
        /\ lines = [d \in Docs |-> row[d].lines]
        /\ total = [d \in Docs |-> row[d].total]
        /\ paid  = [d \in Docs |-> row[d].paid]
  BY DEF OverlapInit
<1>2. \A d \in Docs : /\ row[d].party \in Parties \cup {NoParty}
                      /\ row[d].lines \in [Products -> Nat]
                      /\ row[d].total \in Nat /\ row[d].paid \in Nat
                      /\ row[d].paid <= row[d].total
  BY OverlapAssumption
<1>3. Quantities \subseteq Int /\ Openings \subseteq Int
  BY LedgerAssumption
<1>4. TypeOK
  <2>1. /\ products = Products /\ parties = Parties /\ stock = adjusted
        /\ adjusted \in [Products -> Quantities] /\ opening \in [Parties -> Openings]
        /\ balance = opening /\ type \in [Parties -> {"customer", "supplier"}]
        /\ payment \in [Docs -> {"unpaid", "partial", "paid"}]
        /\ status = [d \in Docs |-> "completed"] /\ event = [d \in Docs |-> "pending"]
        /\ moved = [d \in Docs |-> NoLines] /\ undone = [d \in Docs |-> NoLines] /\ replays = 0
        /\ skewed = {} /\ rushed = {}
    BY DEF OverlapInit
  <2>2. adjusted \in [Products -> Int] /\ opening \in [Parties -> Int]
    BY <1>3, <2>1
  <2>3. /\ party \in [Docs -> Parties \cup {NoParty}] /\ lines \in [Docs -> [Products -> Nat]]
        /\ total \in [Docs -> Nat] /\ paid \in [Docs -> Nat]
    BY <1>1, <1>2
  <2>4. NoLines \in [Products -> Int]
    BY NoLinesType
  <2> QED
    BY <2>1, <2>2, <2>3, <2>4 DEF TypeOK, Types
<1>5. OverlapTyped
  BY <1>1, <1>2, <1>4 DEF OverlapTyped, OverlapInit
<1>6. \A j \in Jobs : ~Live(j)
  BY DEF OverlapInit, Live
<1>7. DocsWhole
  BY DEF OverlapInit, DocsWhole
<1>8. ASSUME NEW p \in Products PROVE stock[p] = adjusted[p] + SumFunction(Rows(p))
  <2>1. \A d \in Docs : Rows(p)[d] = 0
    BY DEF OverlapInit, Rows, NoLines
  <2>2. SumFunction(Rows(p)) = 0
    BY <1>4, <2>1, RowsType, DocsFinite, SumBounds
  <2>3. stock[p] = adjusted[p] /\ adjusted[p] \in Int
    BY <1>4 DEF OverlapInit, TypeOK
  <2> QED
    BY <2>2, <2>3
<1> QED
  BY <1>5, <1>6, <1>7, <1>8 DEF StockInv, AllWellFormed, StockSum

LEMMA OverlapStockNext == StockInv /\ [OverlapNext]_<<vars, overlap>> => StockInv'
<1> SUFFICES ASSUME StockInv, [OverlapNext]_<<vars, overlap>> PROVE StockInv'
  OBVIOUS
<1>1. CASE OverlapNext
  <2>1. CASE \E d \in Docs : ReplayOne(d)
    BY <2>1, ReplayKeepsStock
  <2>2. CASE \E j \in Jobs, d \in Docs : TakeEvent(j, d)
    BY <2>2, TakesKeepStock
  <2>3. CASE \E j \in Jobs, d \in Docs : TakeCancel(j, d)
    BY <2>3, TakesKeepStock
  <2>4. CASE \E j \in Jobs, d \in Docs, amount \in Payments : TakePayment(j, d, amount)
    BY <2>4, TakesKeepStock
  <2>5. CASE \E j \in Jobs, x \in Parties : TakeParty(j, x)
    BY <2>5, TakesKeepStock
  <2>6. CASE \E j \in Jobs, p \in Products, n \in Corrections : TakeCorrection(j, p, n)
    BY <2>6, TakesKeepStock
  <2>7. CASE \E j \in Jobs : Fetch(j)
    BY <2>7, FetchKeepsStock
  <2>8. CASE \E j \in Jobs : FetchDocs(j)
    BY <2>8, FetchDocsKeepsStock
  <2>9. CASE \E j \in Jobs : Commit(j)
    BY <2>9, CommitKeepsStock
  <2> QED
    BY <1>1, <2>1, <2>2, <2>3, <2>4, <2>5, <2>6, <2>7, <2>8, <2>9 DEF OverlapNext
<1>2. CASE UNCHANGED <<vars, overlap>>
  <2>1. UNCHANGED <<products, stock, adjusted, parties, type, balance, opening, status,
                    party, lines, total, paid, payment, event, moved, undone, replays,
                    skewed, rushed, job, torn>>
    BY <1>2 DEF vars, catalog, written, overlap
  <2>2. OverlapTyped'
    BY <2>1 DEF StockInv, OverlapTyped, TypeOK
  <2>3. ASSUME NEW k \in Jobs, Live(k)'
        PROVE  WellFormed(job[k])' /\ Shelved(job[k])' /\ ShiftIsDue(job[k])'
    <3>1. Live(k)
      BY <2>1, <2>3 DEF Live, Idle
    <3>2. WellFormed(job[k]) /\ Shelved(job[k]) /\ ShiftIsDue(job[k])
      BY <3>1 DEF StockInv, AllWellFormed
    <3>3. Moves(job[k].about)' = Moves(job[k].about)
      BY <2>1 DEF Moves
    <3>4. WellFormed(job[k])'
      BY <3>2, <2>1 DEF WellFormed, AboutDoc, Touched, Owing, Nothing, NoLines
    <3>5. Shelved(job[k])'
      BY <3>2, <2>1 DEF Shelved
    <3>6. ShiftIsDue(job[k])'
      BY <3>2, <3>3, <2>1 DEF ShiftIsDue, NoLines
    <3> QED
      BY <3>4, <3>5, <3>6
  <2>4. DocsWhole'
    BY <2>1 DEF StockInv, DocsWhole, Moves, NoLines
  <2>5. StockSum'
    BY <2>1, RowsSame DEF StockInv, StockSum
  <2> QED
    BY <2>2, <2>3, <2>4, <2>5 DEF StockInv, AllWellFormed
<1> QED
  BY <1>1, <1>2

\* While transactions overlap, a product that no commit wrote under a handler
\* that had read it has the stock its movement rows explain, and a document that
\* none wrote so has moved its lines whole or not at all, and taken them back when
\* cancelled: _apply_sale, _apply_purchase, cancel_sale, cancel_purchase and
\* adjust_stock lose or double nothing but by that race.
THEOREM OverlapStock == OverlapSpec => []StockExplained
<1>1. OverlapInit => StockInv
  BY OverlapStarts
<1>2. StockInv /\ [OverlapNext]_<<vars, overlap>> => StockInv'
  BY OverlapStockNext
<1>3. StockInv => StockExplained
  BY DEF StockInv, StockExplained, StockSum, DocsWhole, OverlapTyped
<1> QED
  BY <1>1, <1>2, <1>3, PTL DEF OverlapSpec

-----------------------------------------------------------------------------
(* The balances.                                                           *)

\* A handler whose new work is in order keeps the invariant.
LEMMA HandlerBalance ==
  ASSUME BalanceInv, StockInv', NEW j \in Jobs, NEW w \in Works, job' = [job EXCEPT ![j] = w],
         UNCHANGED vars, torn' = torn, Pursed(w), CreditIsDue(w), Clears(w),
         w.op = "apply" => \A k \in Jobs : Live(k) /\ k # j /\ job[k].op = "apply" => job[k].about # w.about
  PROVE  BalanceInv'
<1>1. UNCHANGED <<products, stock, adjusted, parties, type, balance, opening, status,
                  party, lines, total, paid, payment, event, moved, undone, replays, skewed, rushed>>
  BY DEF vars, catalog, written
<1>2. job'[j] = w /\ \A k \in Jobs : k # j => job'[k] = job[k]
  BY DEF BalanceInv, StockInv, OverlapTyped
<1>3. HistoryInv'
  BY <1>1 DEF BalanceInv, HistoryInv, NoLines
<1>4. EffectsSeen'
  BY <1>1 DEF BalanceInv, EffectsSeen, Moves, NoLines
<1>5. OneWorker'
  <2> SUFFICES ASSUME NEW k \in Jobs, NEW l \in Jobs, job'[k] # Idle, job'[l] # Idle,
                      job'[k].op = "apply", job'[l].op = "apply", job'[k].about = job'[l].about
               PROVE  k = l
    BY DEF OneWorker, Live, Idle
  <2>1. CASE k = j /\ l # j
    BY <1>2, <2>1 DEF Live
  <2>2. CASE l = j /\ k # j
    BY <1>2, <2>2 DEF Live
  <2>3. CASE k # j /\ l # j
    BY <1>2, <2>3 DEF Live, BalanceInv, OneWorker
  <2> QED
    BY <2>1, <2>2, <2>3
<1>6. ASSUME NEW k \in Jobs, Live(k)'
      PROVE  Pursed(job[k])' /\ CreditIsDue(job[k])' /\ Clears(job[k])'
  <2>1. job'[k] # Idle
    BY <1>6 DEF Live, Idle
  <2>2. Pursed(job'[k]) /\ CreditIsDue(job'[k]) /\ Clears(job'[k])
    <3>1. CASE k = j
      BY <1>2, <3>1
    <3>2. CASE k # j
      <4>1. job'[k] = job[k] /\ Live(k)
        BY <1>2, <2>1, <3>2 DEF Live
      <4>2. Pursed(job[k]) /\ CreditIsDue(job[k]) /\ Clears(job[k])
        BY <4>1 DEF BalanceInv
      <4> QED
        BY <4>1, <4>2
    <3> QED
      BY <3>1, <3>2
  <2>3. Pursed(job[k])'
    BY <2>2, <1>1 DEF Pursed, AboutDoc
  <2>4. CreditIsDue(job[k])'
    BY <2>2, <1>1 DEF CreditIsDue, Due
  <2>5. Clears(job[k])'
    BY <2>2, <1>1 DEF Clears, DocsOfParty, DocsOf
  <2> QED
    BY <2>3, <2>4, <2>5
<1>7. ASSUME NEW x \in Parties, x \notin torn'
      PROVE  DuesExplain(x)'
  <2>1. DuesExplain(x)
    BY <1>7 DEF BalanceInv
  <2>2. Dues(x)' = Dues(x)
    BY <1>1 DEF Dues, Booked, Due
  <2> QED
    BY <2>1, <2>2, <1>1 DEF DuesExplain
<1> QED
  BY <1>3, <1>4, <1>5, <1>6, <1>7 DEF BalanceInv

\* The first queries: what they find is due.
LEMMA TakesKeepBalance ==
  ASSUME BalanceInv, StockInv', NEW j \in Jobs,
         \/ \E d \in Docs : TakeEvent(j, d)
         \/ \E d \in Docs : TakeCancel(j, d)
         \/ \E d \in Docs, amount \in Payments : TakePayment(j, d, amount)
         \/ \E x \in Parties : TakeParty(j, x)
         \/ \E p \in Products, n \in Corrections : TakeCorrection(j, p, n)
  PROVE  BalanceInv'
<1>0. StockInv
  BY DEF BalanceInv
<1>1. UNCHANGED <<vars, torn>>
  BY DEF TakeEvent, TakeCancel, TakePayment, TakeParty, TakeCorrection, Take
<1>2. ASSUME NEW d \in Docs, TakeEvent(j, d) PROVE BalanceInv'
  <2>1. PICK w \in Works :
           /\ job' = [job EXCEPT ![j] = w]
           /\ w.op = "apply" /\ w.about = d /\ w.step = "opened"
           /\ IF NoEffects(d) THEN w.party = NoParty /\ w.shift = NoLines /\ w.credit = 0
                              ELSE w.party = party[d] /\ w.shift = Moves(d) /\ w.credit = Due(d)
           /\ w.pay = Nothing /\ w.label = Nothing /\ w.shelf = Nothing /\ w.purse = Nothing /\ w.reads = {d}
    BY <1>0, <1>2, EventWork
  <2>2. Pursed(w) /\ Clears(w)
    BY <2>1 DEF Pursed, Clears
  <2>3. event[d] \in {"pending", "again"}
    BY <1>2 DEF TakeEvent
  <2>4. ASSUME d \notin torn \cup skewed
        PROVE  IF status[d] = "completed" /\ event[d] = "pending"
               THEN w.credit = Due(d) /\ w.party = party[d]
               ELSE w.credit = 0
    <3>0. status[d] \in {"completed", "cancelled"} /\ moved[d] \in [Products -> Int]
          /\ lines[d] \in [Products -> Nat]
      BY <1>0 DEF StockInv, OverlapTyped, TypeOK
    <3>1. CASE status[d] = "cancelled"
      BY <2>1, <3>1 DEF NoEffects
    <3>2. CASE status[d] = "completed" /\ event[d] = "pending"
      <4>1. moved[d] = NoLines
        BY <2>4, <3>2 DEF BalanceInv, EffectsSeen
      <4>2. ~NoEffects(d)
        BY <3>2, <4>1 DEF NoEffects, AlreadyMoved, NoLines
      <4> QED
        BY <2>1, <3>2, <4>2
    <3>3. CASE status[d] = "completed" /\ event[d] = "again"
      <4>1. moved[d] = Moves(d)
        BY <2>4, <3>3 DEF BalanceInv, EffectsSeen
      <4>2. lines[d] # NoLines
        BY <2>4, <3>3 DEF BalanceInv, HistoryInv
      <4>3. PICK p \in Products : lines[d][p] # 0
        BY <3>0, <4>2 DEF NoLines
      <4>4. moved[d][p] # 0
        BY <3>0, <4>1, <4>3 DEF Moves
      <4>5. NoEffects(d)
        BY <4>4 DEF NoEffects, AlreadyMoved
      <4> QED
        BY <2>1, <3>3, <4>5
    <3> QED
      BY <2>3, <3>0, <3>1, <3>2, <3>3
  <2>5. CreditIsDue(w)
    BY <2>1, <2>3, <2>4 DEF CreditIsDue
  <2>6. \A k \in Jobs : Live(k) /\ k # j /\ job[k].op = "apply" => job[k].about # w.about
    BY <1>2, <2>1 DEF TakeEvent, Live
  <2> QED
    BY <1>1, <2>1, <2>2, <2>5, <2>6, HandlerBalance
<1>3. ASSUME NEW d \in Docs, TakeCancel(j, d) PROVE BalanceInv'
  <2>1. PICK w \in Works :
           /\ job' = [job EXCEPT ![j] = w]
           /\ w.op = "cancel" /\ w.about = d /\ w.step = "opened" /\ w.party = party[d]
           /\ w.shift = Returned(d) /\ w.credit = 0 - Due(d)
           /\ w.pay = Nothing /\ w.label = Nothing /\ w.shelf = Nothing /\ w.purse = Nothing /\ w.reads = {d}
    BY <1>0, <1>3, CancelWork
  <2>2. Pursed(w) /\ Clears(w) /\ CreditIsDue(w)
    BY <1>3, <2>1 DEF Pursed, Clears, CreditIsDue, TakeCancel
  <2> QED
    BY <1>1, <2>1, <2>2, HandlerBalance
<1>4. ASSUME NEW d \in Docs, NEW amount \in Payments, TakePayment(j, d, amount) PROVE BalanceInv'
  <2>1. PICK w \in Works :
           /\ job' = [job EXCEPT ![j] = w]
           /\ w.op = "pay" /\ w.about = d /\ w.step = "opened" /\ w.party = party[d]
           /\ w.shift = NoLines
           /\ w.credit = paid[d] - (IF d \in DOMAIN w.pay THEN w.pay[d] ELSE paid[d])
           /\ DOMAIN w.pay \subseteq {d} /\ \A e \in DOMAIN w.pay : w.pay[e] <= total[d]
           /\ DOMAIN w.label \subseteq {d}
           /\ w.shelf = Nothing /\ w.purse = Nothing /\ w.reads = {d}
    BY <1>0, <1>4, PaymentWork
  <2>2. Pursed(w) /\ Clears(w) /\ CreditIsDue(w)
    BY <1>4, <2>1 DEF Pursed, Clears, CreditIsDue, TakePayment
  <2> QED
    BY <1>1, <2>1, <2>2, HandlerBalance
<1>5. ASSUME NEW x \in Parties, TakeParty(j, x) PROVE BalanceInv'
  <2>1. PICK w \in Works :
           /\ job' = [job EXCEPT ![j] = w]
           /\ w.op = "settle" /\ w.about = x /\ w.step = "opened"
           /\ w.shift = NoLines /\ w.credit = 0 /\ w.pay = Nothing /\ w.label = Nothing /\ w.shelf = Nothing
           /\ DOMAIN w.purse \subseteq {x} /\ \A y \in DOMAIN w.purse : w.purse[y] = 0
           /\ x \notin DOMAIN w.purse => balance[x] = 0
           /\ w.reads = {x}
    BY <1>0, <1>5, PartyWork
  <2>2. Pursed(w) /\ Clears(w) /\ CreditIsDue(w)
    BY <2>1 DEF Pursed, Clears, CreditIsDue
  <2> QED
    BY <1>1, <2>1, <2>2, HandlerBalance
<1>6. ASSUME NEW p \in Products, NEW n \in Corrections, TakeCorrection(j, p, n) PROVE BalanceInv'
  <2>1. PICK w \in Works :
           /\ job' = [job EXCEPT ![j] = w]
           /\ w.op = "adjust" /\ w.about = p /\ w.step = "ready"
           /\ w.shift[p] = n /\ n # 0 /\ \A q \in Products : q # p => w.shift[q] = 0
           /\ w.credit = 0 /\ w.pay = Nothing /\ w.label = Nothing /\ w.purse = Nothing
           /\ DOMAIN w.shelf = {p} /\ w.shelf[p] = stock[p] + n
           /\ w.reads = {p}
    BY <1>0, <1>6, CorrectionWork
  <2>2. Pursed(w) /\ Clears(w) /\ CreditIsDue(w)
    BY <2>1 DEF Pursed, Clears, CreditIsDue, AboutDoc
  <2> QED
    BY <1>1, <2>1, <2>2, HandlerBalance
<1> QED
  BY <1>2, <1>3, <1>4, <1>5, <1>6

\* The others: the balance is read late, the documents of a settlement too.
LEMMA FetchesKeepBalance ==
  ASSUME BalanceInv, StockInv', NEW j \in Jobs, Fetch(j) \/ FetchDocs(j)
  PROVE  BalanceInv'
<1>0. StockInv
  BY DEF BalanceInv
<1>1. UNCHANGED <<vars, torn>>
  BY DEF Fetch, FetchDocs
<1>2. ASSUME Fetch(j) PROVE BalanceInv'
  <2>1. PICK w \in Works :
           /\ job' = [job EXCEPT ![j] = w]
           /\ Live(j) /\ AboutDoc(job[j]) /\ job[j].step = "opened"
           /\ w.op = job[j].op /\ w.about = job[j].about /\ w.step = "ready"
           /\ w.party = job[j].party /\ w.shift = job[j].shift
           /\ w.credit = job[j].credit /\ w.pay = job[j].pay /\ w.label = job[j].label
           /\ DOMAIN w.shelf = Touched(job[j])
           /\ \A p \in DOMAIN w.shelf : w.shelf[p] = stock[p] + w.shift[p]
           /\ DOMAIN w.purse = Owing(job[j])
           /\ \A x \in DOMAIN w.purse : w.purse[x] = balance[x] + w.credit
           /\ w.reads = job[j].reads \cup Touched(job[j]) \cup Owing(job[j])
    BY <1>0, <1>2, FetchWork
  <2>2. CreditIsDue(job[j])
    BY <2>1 DEF BalanceInv
  <2>3. CreditIsDue(w)
    BY <2>1, <2>2 DEF CreditIsDue
  <2>4. Pursed(w) /\ Clears(w)
    BY <2>1 DEF Pursed, Clears, AboutDoc
  <2>5. w.op = "apply" => \A k \in Jobs : Live(k) /\ k # j /\ job[k].op = "apply" => job[k].about # w.about
    BY <2>1 DEF BalanceInv, OneWorker
  <2> QED
    BY <1>1, <2>1, <2>3, <2>4, <2>5, HandlerBalance
<1>3. ASSUME FetchDocs(j) PROVE BalanceInv'
  <2>1. PICK w \in Works :
           /\ job' = [job EXCEPT ![j] = w]
           /\ Live(j) /\ job[j].op = "settle" /\ job[j].step = "opened"
           /\ w.op = "settle" /\ w.about = job[j].about /\ w.step = "ready"
           /\ w.shift = job[j].shift /\ w.credit = job[j].credit
           /\ w.shelf = job[j].shelf /\ w.purse = job[j].purse
           /\ \A d \in DOMAIN w.pay : /\ d \in Docs /\ party[d] = w.about
                                      /\ w.pay[d] = total[d] /\ d \in w.reads
           /\ DOMAIN w.label \subseteq DOMAIN w.pay
           /\ job[j].reads \subseteq w.reads
           /\ DOMAIN w.pay \subseteq DocsOfParty(w.about)
           /\ \A d \in DocsOfParty(w.about) : status[d] = "completed" =>
                d \in w.reads /\ (d \notin DOMAIN w.pay => paid[d] = total[d])
    BY <1>0, <1>3, FetchDocsWork
  <2>2. Clears(job[j]) /\ WellFormed(job[j])
    BY <1>0, <2>1 DEF BalanceInv, StockInv, AllWellFormed
  <2>5. ASSUME NEW d \in DocsOfParty(w.about), status[d] = "completed"
        PROVE  d \in w.reads /\ (IF d \in DOMAIN w.pay THEN w.pay[d] ELSE paid[d]) = total[d]
    <3>1. d \in w.reads /\ (d \notin DOMAIN w.pay => paid[d] = total[d])
      BY <2>1, <2>5
    <3>2. d \in DOMAIN w.pay => w.pay[d] = total[d]
      BY <2>1
    <3> QED
      BY <3>1, <3>2
  <2>6. Clears(w)
    BY <2>1, <2>2, <2>5 DEF Clears
  <2>7. Pursed(w) /\ CreditIsDue(w)
    BY <2>1 DEF Pursed, AboutDoc, CreditIsDue
  <2> QED
    BY <1>1, <2>1, <2>6, <2>7, HandlerBalance
<1> QED
  BY <1>2, <1>3

\* A replay of a document with lines will find its rows and do nothing; one
\* without skews its party.
LEMMA ReplayKeepsBalance ==
  ASSUME BalanceInv, StockInv', NEW d \in Docs, ReplayOne(d)
  PROVE  BalanceInv'
<1>1. UNCHANGED <<products, stock, adjusted, parties, type, balance, opening, status,
                  party, lines, total, paid, payment, moved, undone, job, torn>>
  BY DEF ReplayOne, Replay, overlap, catalog, written
<1>2. /\ event' = [event EXCEPT ![d] = "again"] /\ event[d] = "done"
      /\ skewed \subseteq skewed'
  BY DEF ReplayOne, Replay
<1>3. \A e \in Docs : event'[e] = IF e = d THEN "again" ELSE event[e]
  BY <1>2 DEF BalanceInv, StockInv, OverlapTyped, TypeOK
<1>4. HistoryInv'
  <2>1. /\ skewed' = IF lines[d] = NoLines THEN skewed \cup {d} ELSE skewed
        /\ status[d] # "absent"
    BY DEF ReplayOne, Replay, BalanceInv, StockInv, OverlapTyped
  <2> QED
    BY <1>1, <1>3, <2>1 DEF BalanceInv, HistoryInv, NoLines
<1>5. EffectsSeen'
  <2> SUFFICES ASSUME NEW e \in Docs, e \notin torn', status'[e] = "completed"
               PROVE  moved'[e] = IF event'[e] \in {"done", "again"} THEN Moves(e)' ELSE NoLines
    BY DEF EffectsSeen, NoLines
  <2>1. Moves(e)' = Moves(e)
    BY <1>1 DEF Moves
  <2>2. moved[e] = IF event[e] \in {"done", "again"} THEN Moves(e) ELSE NoLines
    BY <1>1 DEF BalanceInv, EffectsSeen
  <2> QED
    BY <1>1, <1>2, <1>3, <2>1, <2>2
<1>6. OneWorker'
  BY <1>1 DEF BalanceInv, OneWorker, Live, Idle
<1>7. ASSUME NEW k \in Jobs, Live(k)'
      PROVE  Pursed(job[k])' /\ CreditIsDue(job[k])' /\ Clears(job[k])'
  <2>1. PICK v \in Works : v = job[k] /\ Live(k)
    BY <1>1, <1>7 DEF Live, Idle, BalanceInv, StockInv, OverlapTyped
  <2>2. Pursed(v) /\ CreditIsDue(v) /\ Clears(v) /\ WellFormed(v)
    BY <2>1 DEF BalanceInv, StockInv, AllWellFormed
  <2>3. job'[k] = v
    BY <1>1, <2>1
  <2>4. Pursed(job[k])' /\ Clears(job[k])'
    BY <1>1, <2>2, <2>3 DEF Pursed, AboutDoc, Clears, DocsOfParty, DocsOf
  <2>5. v.op = "apply" => v.about \in Docs /\ v.about # d
    BY <1>2, <2>2 DEF CreditIsDue, WellFormed, AboutDoc
  <2>6. CreditIsDue(job[k])'
    BY <1>1, <1>2, <1>3, <2>2, <2>3, <2>5 DEF CreditIsDue, Due
  <2> QED
    BY <2>4, <2>6
<1>8. ASSUME NEW x \in Parties, x \notin torn'
      PROVE  DuesExplain(x)'
  <2>1. DuesExplain(x)
    BY <1>1, <1>8 DEF BalanceInv
  <2>2. Booked(x)' = Booked(x)
    BY <1>1, <1>2, <1>3 DEF Booked
  <2>3. Dues(x)' = Dues(x)
    BY <1>1, <2>2 DEF Dues, Due
  <2> QED
    BY <2>1, <2>3, <1>1, <1>2 DEF DuesExplain
<1> QED
  BY <1>4, <1>5, <1>6, <1>7, <1>8 DEF BalanceInv

\* What a commit leaves of a document, a party and a product that another handler
\* has read, unless it tears the row.
LEMMA CommitSparesRows ==
  ASSUME StockInv, NEW j \in Jobs, Commit(j), NEW k \in Jobs, k # j
  PROVE  /\ \A d \in Docs : d \in job[k].reads /\ d \notin torn' =>
              UNCHANGED <<status[d], moved[d], paid[d], payment[d]>>
         /\ \A x \in Parties : x \in job[k].reads /\ x \notin torn' => balance'[x] = balance[x]
         /\ \A p \in Products : p \in job[k].reads /\ p \notin torn' =>
              UNCHANGED <<stock[p], adjusted[p]>>
<1>1. PICK w \in Works : w = job[j]
  BY CommitWork
<1>2. WellFormed(w) /\ w.step = "ready"
  BY <1>1, CommitWork
<1>3. \A e \in job[k].reads : e \notin torn' => e \notin Writes(w)
  BY <1>1, CommitTears
<1>4. ASSUME NEW d \in Docs, d \in job[k].reads, d \notin torn'
      PROVE  UNCHANGED <<status[d], moved[d], paid[d], payment[d]>>
  <2>1. d \notin DOMAIN w.label
    BY <1>3, <1>4 DEF Writes
  <2>2. payment'[d] = payment[d]
    BY <1>1, <2>1 DEF Commit
  <2> QED
    BY <1>4, <2>2, CommitSpares
<1>5. ASSUME NEW x \in Parties, x \in job[k].reads, x \notin torn'
      PROVE  balance'[x] = balance[x]
  <2>1. x \notin DOMAIN w.purse
    BY <1>3, <1>5 DEF Writes
  <2> QED
    BY <1>1, <2>1, CommitRows
<1>6. ASSUME NEW p \in Products, p \in job[k].reads, p \notin torn'
      PROVE  UNCHANGED <<stock[p], adjusted[p]>>
  <2>1. p \notin DOMAIN w.shelf
    BY <1>3, <1>6 DEF Writes
  <2>2. w.shift[p] = 0 /\ adjusted[p] \in Int
    BY <1>2, <2>1 DEF WellFormed, Touched, StockInv, OverlapTyped, TypeOK
  <2>3. stock'[p] = stock[p]
    BY <1>1, <2>1, CommitRows
  <2>4. adjusted'[p] = IF w.op = "adjust" /\ p = w.about THEN adjusted[p] + w.shift[p] ELSE adjusted[p]
    BY <1>1, CommitRows
  <2> QED
    BY <2>2, <2>3, <2>4
<1> QED
  BY <1>4, <1>5, <1>6

\* The new balance that another handler keeps, and the event that it holds.
LEMMA CommitKeepsPurse ==
  ASSUME StockInv, OneWorker, NEW j \in Jobs, Commit(j), NEW k \in Jobs, Live(k)',
         Pursed(job[k]), ToApply(job[k])
  PROVE  Pursed(job[k])' /\ ToApply(job[k])'
<1>1. k # j /\ Live(k) /\ job'[k] = job[k]
  BY CommitKeepsOthers
<1>2. PICK v \in Works : v = job[k]
  BY <1>1 DEF StockInv, OverlapTyped, Live
<1>3. WellFormed(v) /\ Pursed(v) /\ ToApply(v) /\ job'[k] = v
  BY <1>1, <1>2 DEF StockInv, AllWellFormed
<1>4. torn \subseteq torn'
  BY CommitTears
<1>5. Pursed(job[k])'
  <2> SUFFICES ASSUME v.step = "ready", AboutDoc(v), NEW x \in DOMAIN v.purse, x \notin torn'
               PROVE  v.purse[x] = balance'[x] + v.credit
    BY <1>3 DEF Pursed, AboutDoc
  <2>1. x \in v.reads /\ x \in Parties
    <3>1. v.op # "settle"
      BY DEF AboutDoc
    <3>2. v.party \in Parties \cup {NoParty}
      BY DEF Works
    <3> QED
      BY <1>3, <3>1, <3>2 DEF WellFormed, Owing
  <2>2. v.purse[x] = balance[x] + v.credit
    BY <1>3, <1>4 DEF Pursed
  <2>3. balance'[x] = balance[x]
    BY <1>1, <1>2, <2>1, CommitSparesRows
  <2> QED
    BY <2>2, <2>3
<1>6. ToApply(job[k])'
  <2>1. CASE v.op = "apply"
    <3>1. PICK d \in Docs : d = v.about
      BY <1>3, <2>1 DEF WellFormed, AboutDoc
    <3>2. Live(j) /\ ~(job[j].op = "apply" /\ d = job[j].about)
      BY <1>1, <1>2, <2>1, <3>1, CommitWork DEF OneWorker
    <3>3. event'[d] = event[d]
      BY <3>2, CommitRows
    <3> QED
      BY <1>3, <2>1, <3>1, <3>3 DEF ToApply
  <2>2. CASE v.op # "apply"
    BY <1>3, <2>2 DEF ToApply
  <2> QED
    BY <2>1, <2>2
<1> QED
  BY <1>5, <1>6

\* The other handlers still have in hand what they had.
LEMMA CommitKeepsCredits ==
  ASSUME BalanceInv, StockInv', NEW j \in Jobs, Commit(j), NEW k \in Jobs, Live(k)'
  PROVE  Pursed(job[k])' /\ CreditIsDue(job[k])' /\ Clears(job[k])'
<1>0. StockInv
  BY DEF BalanceInv
<1>1. k # j /\ Live(k) /\ job'[k] = job[k]
  BY <1>0, CommitKeepsOthers
<1>2. PICK v \in Works : v = job[k]
  BY <1>0, <1>1 DEF StockInv, OverlapTyped, Live
<1>3. WellFormed(v) /\ Pursed(v) /\ CreditIsDue(v) /\ Clears(v)
  BY <1>1, <1>2 DEF BalanceInv, StockInv, AllWellFormed
<1>4. job'[k] = v
  BY <1>1, <1>2
<1>5. UNCHANGED <<party, total, type>>
  BY <1>0, CommitWork
<1>6. torn \subseteq torn' /\ skewed \subseteq skewed'
  <2>1. skewed \subseteq skewed'
    BY DEF Commit, Skewed
  <2> QED
    BY <1>0, <2>1, CommitTears
<1>7. \A x \in Parties : x \in v.reads /\ x \notin torn' => balance'[x] = balance[x]
  BY <1>0, <1>1, <1>2, CommitSparesRows
<1>8. \A d \in Docs : d \in v.reads /\ d \notin torn' => status'[d] = status[d] /\ paid'[d] = paid[d]
  BY <1>0, <1>1, <1>2, CommitSparesRows
<1>9. Pursed(job[k])'
  BY <1>0, <1>2, <1>3, CommitKeepsPurse DEF BalanceInv, CreditIsDue, ToApply
<1>10. CreditIsDue(job[k])'
  <2>1. CASE AboutDoc(v)
    <3>1. PICK d \in Docs : d = v.about
      BY <1>3, <2>1 DEF WellFormed
    <3>2. d \in v.reads
      BY <1>3, <2>1, <3>1 DEF WellFormed
    <3>3. v.op = "apply" => event'[d] = event[d] /\ event[d] \in {"pending", "again"}
      <4> SUFFICES ASSUME v.op = "apply"
                   PROVE  event'[d] = event[d] /\ event[d] \in {"pending", "again"}
        OBVIOUS
      <4>1. Live(j) /\ ~(job[j].op = "apply" /\ d = job[j].about)
        BY <1>0, <1>1, <1>2, <3>1, CommitWork DEF BalanceInv, OneWorker
      <4>2. event'[d] = event[d]
        BY <1>0, <4>1, CommitRows
      <4> QED
        BY <1>3, <3>1, <4>2 DEF CreditIsDue
    <3>4. d \notin torn' => status'[d] = status[d] /\ paid'[d] = paid[d] /\ Due(d)' = Due(d)
      BY <1>5, <1>8, <3>2 DEF Due
    <3>5. d \notin torn' =>
            /\ v.op = "apply" /\ d \notin skewed' =>
                   IF status'[d] = "completed" /\ event'[d] = "pending"
                   THEN v.credit = Due(d)' /\ v.party = party'[d]
                   ELSE v.credit = 0
            /\ v.op = "cancel" => status'[d] = "completed" /\ v.credit = 0 - Due(d)'
                                  /\ v.party = party'[d]
            /\ v.op = "pay" =>
                 /\ status'[d] = "completed" /\ v.party = party'[d]
                 /\ v.credit = paid'[d] - (IF d \in DOMAIN v.pay THEN v.pay[d] ELSE paid'[d])
      BY <1>3, <1>5, <1>6, <3>1, <3>3, <3>4 DEF CreditIsDue
    <3>6. Due(job[k].about)' = Due(d)'
      BY <1>4, <3>1
    <3> QED
      BY <1>4, <3>1, <3>3, <3>5, <3>6 DEF CreditIsDue
  <2>2. CASE ~AboutDoc(v)
    BY <1>4, <2>2 DEF AboutDoc, CreditIsDue
  <2> QED
    BY <2>1, <2>2
<1>11. Clears(job[k])'
  <2>1. CASE v.op = "settle"
    <3>1. v.about \in Parties /\ v.about \in v.reads
      BY <1>3, <2>1 DEF WellFormed
    <3>2. v.about \notin torn' /\ v.about \notin DOMAIN v.purse => balance'[v.about] = 0
      BY <1>3, <1>6, <1>7, <2>1, <3>1 DEF Clears
    <3>4. DocsOfParty(v.about)' = DocsOfParty(v.about) /\ DocsOfParty(v.about) \subseteq Docs
      BY <1>5 DEF DocsOfParty, DocsOf, Docs
    <3>5. v.step = "ready" => DOMAIN v.pay \subseteq DocsOfParty(v.about)
      BY <1>3, <2>1 DEF Clears
    <3>3. ASSUME v.step = "ready", NEW d \in DocsOfParty(v.about), status'[d] = "completed"
          PROVE  /\ d \in v.reads
                 /\ d \notin torn' => (IF d \in DOMAIN v.pay THEN v.pay[d] ELSE paid'[d]) = total'[d]
      <4>1. status[d] = "completed"
        BY <1>0, <3>3, <3>4, CommitRows
      <4>2. /\ d \in v.reads
            /\ d \notin torn => (IF d \in DOMAIN v.pay THEN v.pay[d] ELSE paid[d]) = total[d]
        BY <1>3, <1>5, <2>1, <3>3, <4>1 DEF Clears
      <4> QED
        BY <1>5, <1>6, <1>8, <3>4, <4>2
    <3>6. DocsOfParty(job[k].about)' = DocsOfParty(v.about)
      BY <1>4, <3>4
    <3> QED
      BY <1>4, <3>2, <3>3, <3>5, <3>6 DEF Clears
  <2>2. CASE v.op # "settle"
    BY <1>4, <2>2 DEF Clears
  <2> QED
    BY <2>1, <2>2
<1> QED
  BY <1>9, <1>10, <1>11

\* A commit moves the lines of a document when its event is done.
LEMMA CommitKeepsEffects ==
  ASSUME BalanceInv, StockInv', NEW j \in Jobs, Commit(j)
  PROVE  EffectsSeen'
<1>0. StockInv
  BY DEF BalanceInv
<1> SUFFICES ASSUME NEW d \in Docs, d \notin torn', status'[d] = "completed"
             PROVE  moved'[d] = IF event'[d] \in {"done", "again"} THEN Moves(d)' ELSE NoLines
  BY DEF EffectsSeen, NoLines
<1>1. PICK w \in Works : w = job[j]
  BY <1>0, CommitWork
<1>2. WellFormed(w) /\ ShiftIsDue(w) /\ d \notin torn
  BY <1>0, <1>1, CommitWork, CommitTears
<1>3. Moves(d)' = Moves(d)
  BY <1>0, CommitWork DEF Moves
<1>4. status[d] = "completed" /\ ~(w.op = "cancel" /\ d = w.about)
  BY <1>0, <1>1, CommitRows
<1>5. moved[d] = IF event[d] \in {"done", "again"} THEN Moves(d) ELSE NoLines
  BY <1>2, <1>4 DEF BalanceInv, EffectsSeen
<1>6. /\ moved[d] \in [Products -> Int] /\ moved'[d] \in [Products -> Int]
      /\ Moves(d) \in [Products -> Int] /\ w.shift \in [Products -> Int]
  BY <1>0, MovesType DEF StockInv, OverlapTyped, TypeOK, Works
<1>7. CASE w.op = "apply" /\ d = w.about
  <2>1. \/ moved[d] = NoLines /\ w.shift = Moves(d)
        \/ moved[d] = Moves(d) /\ w.shift = NoLines
    BY <1>2, <1>4, <1>7 DEF ShiftIsDue
  <2>2. \A p \in Products : moved'[d][p] = moved[d][p] + w.shift[p]
    BY <1>0, <1>1, <1>7, CommitRows
  <2>3. event'[d] = "done"
    BY <1>0, <1>1, <1>7, CommitRows
  <2>4. moved'[d] = Moves(d)
    <3>1. \A p \in Products : moved'[d][p] = Moves(d)[p]
      BY <1>6, <2>1, <2>2 DEF NoLines
    <3> QED
      BY <1>6, <3>1
  <2> QED
    BY <1>3, <2>3, <2>4
<1>8. CASE ~(w.op = "apply" /\ d = w.about)
  <2>1. moved'[d] = moved[d] /\ event'[d] = event[d]
    BY <1>0, <1>1, <1>8, CommitRows
  <2> QED
    BY <1>3, <1>5, <2>1
<1> QED
  BY <1>7, <1>8

\* The balance of a party that nobody tore changes by what the handler credits.
LEMMA CommitCredit ==
  ASSUME BalanceInv, NEW j \in Jobs, Commit(j), NEW x \in Parties, x \notin torn,
         job[j].op # "settle"
  PROVE  balance'[x] = balance[x] + (IF job[j].party = x THEN job[j].credit ELSE 0)
<1>0. StockInv
  BY DEF BalanceInv
<1>1. PICK w \in Works : w = job[j]
  BY <1>0, CommitWork
<1>2. Live(j) /\ WellFormed(w) /\ w.step = "ready" /\ Pursed(w)
  <2>1. Live(j) /\ WellFormed(w) /\ w.step = "ready"
    BY <1>0, <1>1, CommitWork
  <2> QED
    BY <1>1, <2>1 DEF BalanceInv
<1>3. balance'[x] = IF x \in DOMAIN w.purse THEN w.purse[x] ELSE balance[x]
  BY <1>0, <1>1, CommitRows
<1>4. balance[x] \in Int /\ w.credit \in Int
  BY <1>0 DEF Works, StockInv, OverlapTyped, TypeOK
<1>5. DOMAIN w.purse = Owing(w)
  BY <1>1, <1>2 DEF WellFormed
<1>6. CASE x \in DOMAIN w.purse
  <2>1. w.party = x /\ w.credit # 0
    BY <1>5, <1>6 DEF Owing
  <2>2. AboutDoc(w)
    BY <1>1, <1>2, <2>1 DEF WellFormed, AboutDoc, Works
  <2>3. w.purse[x] = balance[x] + w.credit
    BY <1>2, <1>6, <2>2 DEF Pursed
  <2> QED
    BY <1>1, <1>3, <1>6, <2>1, <2>3
<1>7. CASE x \notin DOMAIN w.purse
  <2>1. w.party # x \/ w.credit = 0
    BY <1>5, <1>7, LedgerAssumption DEF Owing
  <2> QED
    BY <1>1, <1>3, <1>4, <1>7, <2>1
<1> QED
  BY <1>6, <1>7

\* What a party owes changes by what it owes on one document.
LEMMA DuesChange ==
  ASSUME TypeOK, TypeOK', NEW x \in Parties, NEW d \in Docs,
         \A e \in Docs : e # d => Dues(x)'[e] = Dues(x)[e]
  PROVE  SumFunction(Dues(x))' = SumFunction(Dues(x)) + Dues(x)'[d] - Dues(x)[d]
<1>1. Dues(x) \in [Docs -> Int] /\ Dues(x)' \in [Docs -> Int]
  BY DEF TypeOK, Dues, Due
<1> QED
  BY <1>1, DocsFinite, SumChange

\* A handler for one document.
LEMMA CommitKeepsDuesOfDoc ==
  ASSUME BalanceInv, StockInv', NEW j \in Jobs, Commit(j), AboutDoc(job[j]),
         NEW x \in Parties, x \notin torn',
         \A d \in Docs : d \in torn' \cup skewed' => party'[d] # x
  PROVE  balance'[x] = opening'[x] + SumFunction(Dues(x))'
<1>0. StockInv
  BY DEF BalanceInv
<1>1. PICK w \in Works : w = job[j]
  BY <1>0, CommitWork
<1>2. Live(j) /\ WellFormed(w) /\ CreditIsDue(w) /\ w.step = "ready"
  <2>1. Live(j) /\ WellFormed(w) /\ w.step = "ready"
    BY <1>0, <1>1, CommitWork
  <2> QED
    BY <1>1, <2>1 DEF BalanceInv
<1>3. PICK d \in Docs : d = w.about
  BY <1>1, <1>2 DEF WellFormed
<1>4. UNCHANGED <<party, total>> /\ torn \subseteq torn' /\ skewed \subseteq skewed'
  <2>1. skewed \subseteq skewed'
    BY DEF Commit, Skewed
  <2> QED
    BY <1>0, <2>1, CommitWork, CommitTears
<1>5. balance[x] = opening[x] + SumFunction(Dues(x))
  <2>1. DuesExplain(x)
    BY <1>4 DEF BalanceInv
  <2> QED
    BY <1>4, <2>1 DEF DuesExplain
<1>6. opening'[x] = opening[x]
  BY <1>0, <1>1, CommitRows DEF AboutDoc
<1>7. balance'[x] = balance[x] + (IF w.party = x THEN w.credit ELSE 0)
  BY <1>1, <1>4, CommitCredit DEF AboutDoc
<1>8. TypeOK /\ TypeOK'
  BY <1>0 DEF StockInv, OverlapTyped
<1>9. ASSUME NEW e \in Docs, e # d
      PROVE  Dues(x)'[e] = Dues(x)[e]
  <2>1. status'[e] = status[e] /\ event'[e] = event[e] /\ paid'[e] = paid[e]
    <3>1. e \notin DOMAIN w.pay
      BY <1>1, <1>2, <1>3, <1>9 DEF WellFormed
    <3> QED
      BY <1>0, <1>1, <1>3, <1>9, <3>1, CommitRows
  <2> QED
    BY <1>4, <2>1 DEF Dues, Booked, Due
<1>10. SumFunction(Dues(x))' = SumFunction(Dues(x)) + Dues(x)'[d] - Dues(x)[d]
  BY <1>8, <1>9, DuesChange
<1>11. /\ Dues(x)[d] = IF party[d] = x /\ status[d] = "completed" /\ event[d] \in {"done", "again"}
                       THEN total[d] - paid[d] ELSE 0
       /\ Dues(x)'[d] = IF party[d] = x /\ status'[d] = "completed" /\ event'[d] \in {"done", "again"}
                        THEN total[d] - paid'[d] ELSE 0
  BY <1>4 DEF Dues, Booked, Due
<1>12. /\ SumFunction(Dues(x)) \in Int /\ opening[x] \in Int
       /\ Dues(x)[d] \in Int /\ Dues(x)'[d] \in Int
       /\ total[d] \in Nat /\ paid[d] \in Nat /\ paid'[d] \in Nat /\ w.credit \in Int
       /\ status[d] \in {"completed", "cancelled"} /\ event[d] \in {"pending", "done", "again"}
  <2>1. SumFunction(Dues(x)) \in Int
    BY <1>8, DuesType
  <2> QED
    BY <1>0, <1>8, <1>11, <2>1 DEF StockInv, OverlapTyped, TypeOK, Works
<1>13. /\ status'[d] = IF w.op = "cancel" THEN "cancelled" ELSE status[d]
       /\ event'[d] = IF w.op = "apply" THEN "done" ELSE event[d]
       /\ paid'[d] = IF d \in DOMAIN w.pay THEN w.pay[d] ELSE paid[d]
  BY <1>0, <1>1, <1>3, CommitRows
<1>14. Dues(x)'[d] = Dues(x)[d] + (IF w.party = x THEN w.credit ELSE 0)
  <2>1. CASE party[d] # x
    <3>1. w.party # x
      BY <1>1, <1>2, <1>3, <2>1, LedgerAssumption DEF WellFormed
    <3> QED
      BY <1>11, <2>1, <3>1
  <2>2. CASE party[d] = x
    <3>1. d \notin torn /\ d \notin torn' /\ d \notin skewed'
      BY <1>4, <2>2
    <3>2. CASE w.op = "apply"
      <4>1. event[d] \in {"pending", "again"} /\ paid'[d] = paid[d]
        <5>1. d \notin DOMAIN w.pay
          BY <1>2, <3>2, NothingIsPart DEF WellFormed
        <5> QED
          BY <1>2, <1>3, <1>13, <3>2, <5>1 DEF CreditIsDue
      <4>2. IF status[d] = "completed" /\ event[d] = "pending"
            THEN w.credit = total[d] - paid[d] /\ w.party = x
            ELSE w.credit = 0
        BY <1>2, <1>3, <1>4, <2>2, <3>1, <3>2 DEF CreditIsDue, Due
      <4> QED
        BY <1>11, <1>12, <1>13, <2>2, <3>2, <4>1, <4>2
    <3>3. w.op \in {"pay", "cancel"} /\ w.credit # 0 /\ w.party = x => event[d] # "pending"
      <4> SUFFICES ASSUME w.op \in {"pay", "cancel"}, w.credit # 0, w.party = x, event[d] = "pending"
                   PROVE  FALSE
        OBVIOUS
      <4>1. d \in skewed'
        BY <1>1, <1>3 DEF Commit, Skewed
      <4> QED
        BY <3>1, <4>1
    <3>4. CASE w.op = "cancel"
      <4>1. status[d] = "completed" /\ w.credit = 0 - (total[d] - paid[d]) /\ w.party = x
        BY <1>2, <1>3, <2>2, <3>1, <3>4 DEF CreditIsDue, Due
      <4> QED
        BY <1>11, <1>12, <1>13, <2>2, <3>3, <3>4, <4>1
    <3>5. CASE w.op = "pay"
      <4>1. status[d] = "completed" /\ w.party = x /\ w.credit = paid[d] - paid'[d]
        BY <1>2, <1>3, <1>13, <2>2, <3>1, <3>5 DEF CreditIsDue
      <4> QED
        BY <1>11, <1>12, <1>13, <2>2, <3>3, <3>5, <4>1
    <3> QED
      BY <1>1, <3>2, <3>4, <3>5 DEF AboutDoc
  <2> QED
    BY <2>1, <2>2
<1> QED
  BY <1>5, <1>6, <1>7, <1>10, <1>12, <1>14

\* A settlement or a correction.
LEMMA CommitKeepsOtherDues ==
  ASSUME BalanceInv, StockInv', NEW j \in Jobs, Commit(j), ~AboutDoc(job[j]),
         NEW x \in Parties, x \notin torn',
         \A d \in Docs : d \in torn' \cup skewed' => party'[d] # x
  PROVE  balance'[x] = opening'[x] + SumFunction(Dues(x))'
<1>0. StockInv
  BY DEF BalanceInv
<1>1. PICK w \in Works : w = job[j]
  BY <1>0, CommitWork
<1>2. Live(j) /\ WellFormed(w) /\ Clears(w) /\ w.step = "ready"
  <2>1. Live(j) /\ WellFormed(w) /\ w.step = "ready"
    BY <1>0, <1>1, CommitWork
  <2> QED
    BY <1>1, <2>1 DEF BalanceInv
<1>3. w.op \in {"settle", "adjust"}
  BY <1>1 DEF AboutDoc, Works
<1>4. UNCHANGED <<party, total, type>> /\ torn \subseteq torn' /\ skewed \subseteq skewed'
  <2>1. skewed \subseteq skewed'
    BY DEF Commit, Skewed
  <2> QED
    BY <1>0, <2>1, CommitWork, CommitTears
<1>5. balance[x] = opening[x] + SumFunction(Dues(x))
  <2>1. DuesExplain(x)
    BY <1>4 DEF BalanceInv
  <2> QED
    BY <1>4, <2>1 DEF DuesExplain
<1>6. \A d \in Docs : /\ status'[d] = status[d] /\ event'[d] = event[d]
                      /\ paid'[d] = IF d \in DOMAIN w.pay THEN w.pay[d] ELSE paid[d]
  BY <1>0, <1>1, <1>3, CommitRows
<1>7. CASE w.op = "settle" /\ w.about = x
  <2>1. opening'[x] = 0
    BY <1>0, <1>1, <1>7, CommitRows
  <2>2. balance'[x] = 0
    <3>1. balance'[x] = IF x \in DOMAIN w.purse THEN w.purse[x] ELSE balance[x]
      BY <1>0, <1>1, CommitRows
    <3>2. x \in DOMAIN w.purse => w.purse[x] = 0
      BY <1>2, <1>7 DEF WellFormed
    <3>3. x \notin DOMAIN w.purse => balance[x] = 0
      BY <1>2, <1>4, <1>7 DEF Clears
    <3> QED
      BY <3>1, <3>2, <3>3
  <2>3. ASSUME NEW d \in Docs PROVE Dues(x)'[d] = 0
    <3>1. CASE d \in DocsOfParty(x) /\ status[d] = "completed"
      <4>1. d \notin torn
        BY <1>4, <3>1 DEF DocsOfParty
      <4>2. (IF d \in DOMAIN w.pay THEN w.pay[d] ELSE paid[d]) = total[d]
        BY <1>2, <1>7, <3>1, <4>1 DEF Clears
      <4>3. paid'[d] = total'[d] /\ total'[d] \in Nat
        BY <1>0, <1>4, <1>6, <4>2 DEF StockInv, OverlapTyped, TypeOK
      <4> QED
        BY <4>3 DEF Dues, Due
    <3>2. CASE d \notin DocsOfParty(x) /\ d \in Booked(x)
      <4>1. d \notin DOMAIN w.pay
        BY <1>2, <1>7, <3>2 DEF Clears
      <4>2. paid'[d] = paid[d] /\ total'[d] = total[d]
        BY <1>4, <1>6, <4>1
      <4>3. /\ party[d] = x /\ x # NoParty /\ status[d] = "completed"
            /\ event[d] \in {"done", "again"} /\ d \notin skewed'
        BY <1>4, <3>2, LedgerAssumption DEF Booked
      <4>4. ~(Due(d) > 0)
        BY <1>1, <1>7, <3>2, <4>3 DEF Commit, Strays
      <4>5. paid[d] \in Nat /\ total[d] \in Nat /\ paid[d] <= total[d]
        BY <1>0 DEF StockInv, OverlapTyped, TypeOK
      <4>6. total'[d] - paid'[d] = 0
        BY <4>2, <4>4, <4>5 DEF Due
      <4> QED
        BY <4>6 DEF Dues, Due
    <3>3. CASE status[d] # "completed" \/ d \notin Booked(x)
      BY <1>4, <1>6, <3>3 DEF Dues, Booked
    <3> QED
      BY <3>1, <3>2, <3>3
  <2>4. Dues(x)' \in [Docs -> Int]
    BY DEF StockInv, OverlapTyped, TypeOK, Dues, Due
  <2>5. SumFunction(Dues(x)') = 0
    BY <2>3, <2>4, DocsFinite, SumBounds
  <2> QED
    BY <2>1, <2>2, <2>5
<1>8. CASE ~(w.op = "settle" /\ w.about = x)
  <2>1. opening'[x] = opening[x]
    BY <1>0, <1>1, <1>8, CommitRows
  <2>2. balance'[x] = balance[x]
    <3>1. x \notin DOMAIN w.purse
      BY <1>2, <1>3, <1>8 DEF WellFormed, Owing
    <3> QED
      BY <1>0, <1>1, <3>1, CommitRows
  <2>3. ASSUME NEW d \in Docs PROVE Dues(x)'[d] = Dues(x)[d]
    <3>1. CASE party[d] = x
      <4>1. d \notin DOMAIN w.pay
        BY <1>2, <1>3, <1>8, <3>1, NothingIsPart DEF WellFormed
      <4>2. paid'[d] = paid[d]
        BY <1>6, <4>1
      <4> QED
        BY <1>4, <1>6, <4>2 DEF Dues, Booked, Due
    <3>2. CASE party[d] # x
      BY <1>4, <3>2 DEF Dues, Booked
    <3> QED
      BY <3>1, <3>2
  <2>4. SumFunction(Dues(x))' = SumFunction(Dues(x))
    BY <2>3, DuesSame
  <2> QED
    BY <1>5, <2>1, <2>2, <2>4
<1> QED
  BY <1>7, <1>8

\* Every balance stays explained.
LEMMA CommitKeepsBalance ==
  ASSUME BalanceInv, StockInv', NEW j \in Jobs, Commit(j)
  PROVE  BalanceInv'
<1>0. StockInv
  BY DEF BalanceInv
<1>1. UNCHANGED <<party, type, lines>>
  BY <1>0, CommitWork
<1>2. \A d \in Docs : event'[d] \in {event[d], "done"}
  BY <1>0, CommitRows
<1>3. HistoryInv'
  <2>1. \A d \in Docs : status'[d] # "absent"
    BY DEF StockInv, OverlapTyped
  <2>2. skewed \subseteq skewed'
    BY DEF Commit, Skewed
  <2> QED
    BY <1>1, <1>2, <2>1, <2>2 DEF BalanceInv, HistoryInv, NoLines
<1>4. EffectsSeen'
  BY CommitKeepsEffects
<1>5. OneWorker'
  <2> SUFFICES ASSUME NEW k \in Jobs, NEW l \in Jobs, Live(k)', Live(l)',
                      job'[k].op = "apply", job'[l].op = "apply", job'[k].about = job'[l].about
               PROVE  k = l
    BY DEF OneWorker
  <2>1. Live(k) /\ Live(l) /\ job'[k] = job[k] /\ job'[l] = job[l]
    BY <1>0, CommitKeepsOthers
  <2> QED
    BY <2>1 DEF BalanceInv, OneWorker
<1>6. \A k \in Jobs : Live(k)' => Pursed(job[k])' /\ CreditIsDue(job[k])' /\ Clears(job[k])'
  BY CommitKeepsCredits
<1>7. ASSUME NEW x \in Parties, x \notin torn'
      PROVE  DuesExplain(x)'
  <2>1. CASE \E d \in torn' \cup skewed' : d \in Docs /\ party'[d] = x
    BY <2>1 DEF DuesExplain
  <2>2. CASE \A d \in Docs : d \in torn' \cup skewed' => party'[d] # x
    <3>1. balance'[x] = opening'[x] + SumFunction(Dues(x))'
      BY <1>7, <2>2, CommitKeepsDuesOfDoc, CommitKeepsOtherDues
    <3> QED
      BY <3>1 DEF DuesExplain
  <2> QED
    BY <2>1, <2>2
<1> QED
  BY <1>3, <1>4, <1>5, <1>6, <1>7 DEF BalanceInv

LEMMA OverlapBalanceStarts == OverlapInit => BalanceInv
<1> SUFFICES ASSUME OverlapInit PROVE BalanceInv
  OBVIOUS
<1>1. StockInv
  BY OverlapStarts
<1>2. \A j \in Jobs : ~Live(j)
  BY DEF OverlapInit, Live
<1>3. HistoryInv
  BY DEF OverlapInit, HistoryInv
<1>4. EffectsSeen
  BY DEF OverlapInit, EffectsSeen
<1>5. OneWorker
  BY <1>2 DEF OneWorker
<1>6. ASSUME NEW x \in Parties PROVE balance[x] = opening[x] + SumFunction(Dues(x))
  <2>1. TypeOK
    BY <1>1 DEF StockInv, OverlapTyped
  <2>2. \A d \in Docs : Dues(x)[d] = 0
    BY DEF OverlapInit, Dues, Booked
  <2>3. SumFunction(Dues(x)) = 0
    BY <2>1, <2>2, DuesType
  <2>4. balance[x] = opening[x] /\ opening[x] \in Int
    BY <2>1 DEF OverlapInit, TypeOK
  <2> QED
    BY <2>3, <2>4
<1> QED
  BY <1>1, <1>2, <1>3, <1>4, <1>5, <1>6 DEF BalanceInv, DuesExplain

LEMMA OverlapBalanceNext ==
  BalanceInv /\ [OverlapNext]_<<vars, overlap>> => BalanceInv'
<1> SUFFICES ASSUME BalanceInv, [OverlapNext]_<<vars, overlap>> PROVE BalanceInv'
  OBVIOUS
<1>0. StockInv'
  BY OverlapStockNext DEF BalanceInv
<1>1. CASE OverlapNext
  <2>1. CASE \E d \in Docs : ReplayOne(d)
    BY <1>0, <2>1, ReplayKeepsBalance
  <2>2. CASE \E j \in Jobs, d \in Docs : TakeEvent(j, d)
    BY <1>0, <2>2, TakesKeepBalance
  <2>3. CASE \E j \in Jobs, d \in Docs : TakeCancel(j, d)
    BY <1>0, <2>3, TakesKeepBalance
  <2>4. CASE \E j \in Jobs, d \in Docs, amount \in Payments : TakePayment(j, d, amount)
    BY <1>0, <2>4, TakesKeepBalance
  <2>5. CASE \E j \in Jobs, x \in Parties : TakeParty(j, x)
    BY <1>0, <2>5, TakesKeepBalance
  <2>6. CASE \E j \in Jobs, p \in Products, n \in Corrections : TakeCorrection(j, p, n)
    BY <1>0, <2>6, TakesKeepBalance
  <2>7. CASE \E j \in Jobs : Fetch(j)
    BY <1>0, <2>7, FetchesKeepBalance
  <2>8. CASE \E j \in Jobs : FetchDocs(j)
    BY <1>0, <2>8, FetchesKeepBalance
  <2>9. CASE \E j \in Jobs : Commit(j)
    BY <1>0, <2>9, CommitKeepsBalance
  <2> QED
    BY <1>1, <2>1, <2>2, <2>3, <2>4, <2>5, <2>6, <2>7, <2>8, <2>9 DEF OverlapNext
<1>2. CASE UNCHANGED <<vars, overlap>>
  <2>1. UNCHANGED <<products, stock, adjusted, parties, type, balance, opening, status,
                    party, lines, total, paid, payment, event, moved, undone, replays,
                    skewed, rushed, job, torn>>
    BY <1>2 DEF vars, catalog, written, overlap
  <2>2. HistoryInv' /\ OneWorker' /\ EffectsSeen'
    <3>1. HistoryInv'
      BY <2>1 DEF BalanceInv, HistoryInv, NoLines
    <3>2. OneWorker'
      BY <2>1 DEF BalanceInv, OneWorker, Live, Idle
    <3>3. EffectsSeen'
      BY <2>1 DEF BalanceInv, EffectsSeen, Moves, NoLines
    <3> QED
      BY <3>1, <3>2, <3>3
  <2>3. ASSUME NEW k \in Jobs, Live(k)'
        PROVE  Pursed(job[k])' /\ CreditIsDue(job[k])' /\ Clears(job[k])'
    <3>1. Pursed(job[k]) /\ CreditIsDue(job[k]) /\ Clears(job[k])
      BY <2>1, <2>3 DEF BalanceInv, Live, Idle
    <3>2. Pursed(job[k])'
      BY <2>1, <3>1 DEF Pursed, AboutDoc
    <3>3. CreditIsDue(job[k])'
      BY <2>1, <3>1 DEF CreditIsDue, Due
    <3>4. Clears(job[k])'
      BY <2>1, <3>1 DEF Clears, DocsOfParty, DocsOf
    <3> QED
      BY <3>2, <3>3, <3>4
  <2>4. ASSUME NEW x \in Parties, x \notin torn' PROVE DuesExplain(x)'
    <3>1. DuesExplain(x)
      BY <2>1, <2>4 DEF BalanceInv
    <3>2. Dues(x)' = Dues(x)
      BY <2>1 DEF Dues, Booked, Due
    <3> QED
      BY <2>1, <3>1, <3>2 DEF DuesExplain
  <2> QED
    BY <1>0, <2>2, <2>3, <2>4 DEF BalanceInv
<1> QED
  BY <1>1, <1>2

\* While transactions overlap, the balance of a party is explained by its opening
\* balance and its documents, unless its row or one of theirs was written under a
\* handler that had read it, or one is of those that whole transactions book
\* wrongly too: paid or cancelled before its event, replayed without product lines
\* for the guard of _apply_sale and _apply_purchase to find, or left unpaid by a
\* settlement of its party, whose type says the other kind of document.
THEOREM OverlapBalance == OverlapSpec => []BalanceExplained
<1>1. OverlapInit => BalanceInv
  BY OverlapBalanceStarts
<1>2. BalanceInv /\ [OverlapNext]_<<vars, overlap>> => BalanceInv'
  BY OverlapBalanceNext
<1>3. BalanceInv => BalanceExplained
  BY DEF BalanceInv, BalanceExplained, DuesExplain, StockInv, OverlapTyped
<1> QED
  BY <1>1, <1>2, <1>3, PTL DEF OverlapSpec

-----------------------------------------------------------------------------
(* Whole transactions.                                                     *)

\* What a handler has in hand and the rows it has read, neither changed.
LEMMA AsReadFrame ==
  ASSUME NEW k \in Jobs, NEW v, AsRead(v), job'[k] = v,
         UNCHANGED <<stock, adjusted, type, balance, status, party, lines, total, paid,
                     payment, moved>>
  PROVE  AsRead(job[k])'
<1>1. AppliesAsRead(job[k])'
  BY DEF AsRead, AppliesAsRead, NoEffects, AlreadyMoved, Moves, Due, NoLines
<1>2. CancelsAsRead(job[k])'
  BY DEF AsRead, CancelsAsRead, Returned, Due
<1>3. PaysAsRead(job[k])'
  BY DEF AsRead, PaysAsRead, PaidAfter, Least, StatusesFor
<1>4. SettlesAsRead(job[k])'
  BY DEF AsRead, SettlesAsRead, DocsOfParty, DocsOf, Open, Due
<1>5. CorrectsAsRead(job[k])'
  BY DEF AsRead, CorrectsAsRead, Correctable
<1> QED
  BY <1>1, <1>2, <1>3, <1>4, <1>5 DEF AsRead

\* A handler whose new work is in order keeps the invariant.
LEMMA HandlerWhole ==
  ASSUME WholeInv, StockInv', NEW j \in Jobs, NEW w \in Works, job' = [job EXCEPT ![j] = w],
         UNCHANGED vars, torn' = torn, InHand(w),
         w.op = "apply" => \A k \in Jobs : Live(k) /\ k # j /\ job[k].op = "apply" => job[k].about # w.about
  PROVE  WholeInv'
<1>1. UNCHANGED <<products, stock, adjusted, parties, type, balance, opening, status,
                  party, lines, total, paid, payment, event, moved, undone, replays, skewed, rushed>>
  BY DEF vars, catalog, written
<1>2. job'[j] = w /\ \A k \in Jobs : k # j => job'[k] = job[k]
  BY DEF WholeInv, StockInv, OverlapTyped
<1>3. OneWorker'
  <2> SUFFICES ASSUME NEW k \in Jobs, NEW l \in Jobs, job'[k] # Idle, job'[l] # Idle,
                      job'[k].op = "apply", job'[l].op = "apply", job'[k].about = job'[l].about
               PROVE  k = l
    BY DEF OneWorker, Live, Idle
  <2>1. CASE k = j /\ l # j
    BY <1>2, <2>1 DEF Live
  <2>2. CASE l = j /\ k # j
    BY <1>2, <2>2 DEF Live
  <2>3. CASE k # j /\ l # j
    BY <1>2, <2>3 DEF Live, WholeInv, OneWorker
  <2> QED
    BY <2>1, <2>2, <2>3
<1>4. ASSUME NEW k \in Jobs, Live(k)'
      PROVE  InHand(job[k])'
  <2>1. job'[k] # Idle
    BY <1>4 DEF Live, Idle
  <2>2. PICK v : v = job'[k]
    OBVIOUS
  <2>3. InHand(v)
    <3>1. CASE k = j
      BY <1>2, <2>2, <3>1
    <3>2. CASE k # j
      BY <1>2, <2>1, <2>2, <3>2 DEF Live, WholeInv
    <3> QED
      BY <3>1, <3>2
  <2>4. Pursed(job[k])' /\ ToApply(job[k])'
    BY <1>1, <2>2, <2>3 DEF InHand, Pursed, AboutDoc, ToApply
  <2>5. ASSUME Untorn(job[k])' PROVE AsRead(job[k])'
    <3>1. Untorn(v)
      BY <2>2, <2>5 DEF Untorn
    <3>2. AsRead(v)
      BY <2>3, <3>1 DEF InHand
    <3> QED
      BY <1>1, <2>2, <3>2, AsReadFrame
  <2> QED
    BY <2>4, <2>5 DEF InHand
<1> QED
  BY <1>3, <1>4 DEF WholeInv

\* What a payment finds, however its status rounds.
LEMMA PaymentAsRead ==
  ASSUME StockInv, NEW j \in Jobs, NEW d \in Docs, NEW amount \in Payments,
         TakePayment(j, d, amount)
  PROVE  PaysAsRead(job'[j])
<1>1. PICK s \in StatusesFor(PaidAfter(d, amount), total[d]) :
        LET n == IF s = "paid" THEN total[d] ELSE PaidAfter(d, amount) IN
        Take(j, Work("pay", d, party[d], NoLines, paid[d] - n, Changed(d, paid[d], n),
                     Changed(d, payment[d], s), {d}))
  BY DEF TakePayment
<1>2. PICK now : now = IF s = "paid" THEN total[d] ELSE PaidAfter(d, amount)
  OBVIOUS
<1>3. PICK pay : pay = Changed(d, paid[d], now)
  OBVIOUS
<1>3a. PICK label : label = Changed(d, payment[d], s)
  OBVIOUS
<1>4. PICK w : w = Work("pay", d, party[d], NoLines, paid[d] - now, pay, label, {d})
  OBVIOUS
<1>5. job' = [job EXCEPT ![j] = w]
  BY <1>1, <1>2, <1>3, <1>3a, <1>4 DEF Take
<1>6. job'[j] = w
  BY <1>5 DEF StockInv, OverlapTyped
<1>7. w.op = "pay" /\ w.about = d /\ w.party = party[d] /\ w.credit = paid[d] - now /\ w.pay = pay
      /\ w.label = label
  BY <1>4, WorkFields
<1>8. /\ now = IF d \in DOMAIN pay THEN pay[d] ELSE paid[d]
      /\ s = IF d \in DOMAIN label THEN label[d] ELSE payment[d]
  <2>1. (d \notin DOMAIN pay => now = paid[d]) /\ \A e \in DOMAIN pay : pay[e] = now
    BY <1>3, ChangedValues
  <2>2. (d \notin DOMAIN label => s = payment[d]) /\ \A e \in DOMAIN label : label[e] = s
    BY <1>3a, ChangedValues
  <2> QED
    BY <2>1, <2>2
<1>9. status[d] = "completed"
  BY DEF TakePayment
<1>10. \E m \in Payments : \E t \in StatusesFor(PaidAfter(d, m), total[d]) :
         LET n == IF t = "paid" THEN total[d] ELSE PaidAfter(d, m) IN
         /\ w.credit = paid[d] - n
         /\ n = IF d \in DOMAIN w.pay THEN w.pay[d] ELSE paid[d]
         /\ t = IF d \in DOMAIN w.label THEN w.label[d] ELSE payment[d]
  <2>1. WITNESS amount \in Payments
  <2>2. WITNESS s \in StatusesFor(PaidAfter(d, amount), total[d])
  <2> QED
    BY <1>2, <1>7, <1>8
<1> QED
  BY <1>6, <1>7, <1>9, <1>10 DEF PaysAsRead

\* A correction is one of those that are made, and within the bound.
LEMMA CorrectionAsRead ==
  ASSUME StockInv, NEW j \in Jobs, NEW p \in Products, NEW n \in Corrections,
         TakeCorrection(j, p, n), NEW w, w.about = p, w.shift[p] = n
  PROVE  CorrectsAsRead(w)
BY DEF TakeCorrection, CorrectsAsRead

\* What the first query finds is what it finds now.
LEMMA TakesKeepWhole ==
  ASSUME WholeInv, StockInv', NEW j \in Jobs,
         \/ \E d \in Docs : TakeEvent(j, d)
         \/ \E d \in Docs : TakeCancel(j, d)
         \/ \E d \in Docs, amount \in Payments : TakePayment(j, d, amount)
         \/ \E x \in Parties : TakeParty(j, x)
         \/ \E p \in Products, n \in Corrections : TakeCorrection(j, p, n)
  PROVE  WholeInv'
<1>0. StockInv
  BY DEF WholeInv
<1>1. UNCHANGED <<vars, torn>>
  BY DEF TakeEvent, TakeCancel, TakePayment, TakeParty, TakeCorrection, Take
<1> USE DEF AsRead, AppliesAsRead, CancelsAsRead, PaysAsRead, SettlesAsRead, CorrectsAsRead
<1>2. ASSUME NEW d \in Docs, TakeEvent(j, d) PROVE WholeInv'
  <2>1. PICK w \in Works :
           /\ job' = [job EXCEPT ![j] = w]
           /\ w.op = "apply" /\ w.about = d /\ w.step = "opened"
           /\ IF NoEffects(d) THEN w.party = NoParty /\ w.shift = NoLines /\ w.credit = 0
                              ELSE w.party = party[d] /\ w.shift = Moves(d) /\ w.credit = Due(d)
           /\ w.pay = Nothing /\ w.label = Nothing /\ w.shelf = Nothing /\ w.purse = Nothing /\ w.reads = {d}
    BY <1>0, <1>2, EventWork
  <2>2. Pursed(w) /\ ToApply(w)
    BY <1>2, <2>1 DEF Pursed, ToApply, TakeEvent
  <2>3. AsRead(w)
    BY <2>1
  <2>4. \A k \in Jobs : Live(k) /\ k # j /\ job[k].op = "apply" => job[k].about # w.about
    BY <1>2, <2>1 DEF TakeEvent, Live
  <2> QED
    BY <1>1, <2>1, <2>2, <2>3, <2>4, HandlerWhole DEF InHand
<1>3. ASSUME NEW d \in Docs, TakeCancel(j, d) PROVE WholeInv'
  <2>1. PICK w \in Works :
           /\ job' = [job EXCEPT ![j] = w]
           /\ w.op = "cancel" /\ w.about = d /\ w.step = "opened" /\ w.party = party[d]
           /\ w.shift = Returned(d) /\ w.credit = 0 - Due(d)
           /\ w.pay = Nothing /\ w.label = Nothing /\ w.shelf = Nothing /\ w.purse = Nothing /\ w.reads = {d}
    BY <1>0, <1>3, CancelWork
  <2>2. Pursed(w) /\ ToApply(w)
    BY <2>1 DEF Pursed, ToApply
  <2>3. AsRead(w)
    BY <1>3, <2>1 DEF TakeCancel, Returned
  <2> QED
    BY <1>1, <2>1, <2>2, <2>3, HandlerWhole DEF InHand
<1>4. ASSUME NEW d \in Docs, NEW amount \in Payments, TakePayment(j, d, amount) PROVE WholeInv'
  <2>1. PICK w \in Works :
           /\ job' = [job EXCEPT ![j] = w]
           /\ w.op = "pay" /\ w.about = d /\ w.step = "opened"
    BY <1>0, <1>4, PaymentWork
  <2>2. Pursed(w) /\ ToApply(w)
    BY <2>1 DEF Pursed, ToApply
  <2>3. AsRead(w)
    <3>1. job'[j] = w
      BY <1>0, <2>1 DEF StockInv, OverlapTyped
    <3>2. PaysAsRead(w)
      BY <1>0, <1>4, <3>1, PaymentAsRead
    <3> QED
      BY <2>1, <3>2
  <2> QED
    BY <1>1, <2>1, <2>2, <2>3, HandlerWhole DEF InHand
<1>5. ASSUME NEW x \in Parties, TakeParty(j, x) PROVE WholeInv'
  <2>1. PICK w \in Works :
           /\ job' = [job EXCEPT ![j] = w]
           /\ w.op = "settle" /\ w.about = x /\ w.step = "opened"
           /\ w.shift = NoLines /\ w.credit = 0 /\ w.pay = Nothing /\ w.label = Nothing /\ w.shelf = Nothing
           /\ DOMAIN w.purse \subseteq {x} /\ \A y \in DOMAIN w.purse : w.purse[y] = 0
           /\ x \notin DOMAIN w.purse => balance[x] = 0
           /\ w.reads = {x}
    BY <1>0, <1>5, PartyWork
  <2>2. Pursed(w) /\ ToApply(w)
    BY <2>1 DEF Pursed, ToApply
  <2>3. AsRead(w)
    BY <2>1
  <2> QED
    BY <1>1, <2>1, <2>2, <2>3, HandlerWhole DEF InHand
<1>6. ASSUME NEW p \in Products, NEW n \in Corrections, TakeCorrection(j, p, n) PROVE WholeInv'
  <2>1. PICK w \in Works :
           /\ job' = [job EXCEPT ![j] = w]
           /\ w.op = "adjust" /\ w.about = p /\ w.step = "ready"
           /\ w.shift[p] = n
    BY <1>0, <1>6, CorrectionWork
  <2>2. Pursed(w) /\ ToApply(w)
    BY <2>1 DEF Pursed, ToApply, AboutDoc
  <2>3. CorrectsAsRead(w)
    BY <1>0, <1>6, <2>1, CorrectionAsRead
  <2>4. AsRead(w)
    BY <2>1, <2>3
  <2> QED
    BY <1>1, <2>1, <2>2, <2>4, HandlerWhole DEF InHand
<1> QED
  BY <1>2, <1>3, <1>4, <1>5, <1>6

\* What a settlement finds.
LEMMA DocsAsRead ==
  ASSUME StockInv, NEW j \in Jobs, FetchDocs(j), NEW v \in Works, v = job[j]
  PROVE  /\ DOMAIN job'[j].pay = {d \in DocsOfParty(v.about) : Open(d)}
         /\ \A d \in DOMAIN job'[j].pay : job'[j].pay[d] = total[d]
         /\ DOMAIN job'[j].label = {d \in DOMAIN job'[j].pay : payment[d] # "paid"}
         /\ \A d \in DOMAIN job'[j].label : job'[j].label[d] = "paid"
         /\ \A d \in DocsOfParty(v.about) : status[d] = "completed" => d \in job'[j].reads
<1>1. PICK D : D = {d \in DocsOfParty(v.about) : status[d] = "completed"}
  OBVIOUS
<1>2. PICK pay : pay = [d \in {e \in D : Open(e)} |-> total[d]]
  OBVIOUS
<1>2a. PICK label : label = [d \in {e \in {f \in D : Open(f)} : payment[e] # "paid"} |-> "paid"]
  OBVIOUS
<1>3. PICK w : w = [v EXCEPT !.step = "ready", !.pay = pay, !.label = label, !.reads = v.reads \cup D]
  OBVIOUS
<1>4. w.pay = pay /\ w.label = label /\ w.reads = v.reads \cup D
  BY <1>3 DEF Works
<1>5. job' = [job EXCEPT ![j] = w]
  <2>1. job' = [job EXCEPT ![j] = [v EXCEPT !.step = "ready",
                  !.pay = [d \in {e \in D : Open(e)} |-> total[d]],
                  !.label = [d \in {e \in {f \in D : Open(f)} : payment[e] # "paid"} |-> "paid"],
                  !.reads = v.reads \cup D]]
    BY <1>1 DEF FetchDocs, Relabelled, StockInv, OverlapTyped
  <2> QED
    BY <2>1, <1>2, <1>2a, <1>3
<1>6. job'[j] = w
  BY <1>5 DEF StockInv, OverlapTyped
<1>7. {e \in D : Open(e)} = {d \in DocsOfParty(v.about) : Open(d)}
  BY <1>1 DEF Open
<1>8. \A d \in DocsOfParty(v.about) : status[d] = "completed" => d \in D
  BY <1>1
<1>9. /\ DOMAIN pay = {e \in D : Open(e)}
      /\ \A d \in DOMAIN pay : pay[d] = total[d]
      /\ DOMAIN label = {d \in DOMAIN pay : payment[d] # "paid"}
      /\ \A d \in DOMAIN label : label[d] = "paid"
  BY <1>2, <1>2a
<1>10. /\ DOMAIN w.pay = {d \in DocsOfParty(v.about) : Open(d)}
       /\ \A d \in DOMAIN w.pay : w.pay[d] = total[d]
       /\ \A d \in DOMAIN w.label : w.label[d] = "paid"
       /\ \A d \in DocsOfParty(v.about) : status[d] = "completed" => d \in w.reads
  BY <1>4, <1>7, <1>8, <1>9
<1>11. DOMAIN w.label = {d \in DOMAIN w.pay : payment[d] # "paid"}
  BY <1>4, <1>9
<1> QED
  BY <1>6, <1>10, <1>11

\* The others keep what the first query found.
LEMMA FetchesKeepWhole ==
  ASSUME WholeInv, StockInv', NEW j \in Jobs, Fetch(j) \/ FetchDocs(j)
  PROVE  WholeInv'
<1>0. StockInv
  BY DEF WholeInv
<1>1. UNCHANGED <<vars, torn>>
  BY DEF Fetch, FetchDocs
<1>2. ASSUME Fetch(j) PROVE WholeInv'
  <2>1. PICK w \in Works :
           /\ job' = [job EXCEPT ![j] = w]
           /\ Live(j) /\ AboutDoc(job[j]) /\ job[j].step = "opened"
           /\ w.op = job[j].op /\ w.about = job[j].about /\ w.step = "ready"
           /\ w.party = job[j].party /\ w.shift = job[j].shift
           /\ w.credit = job[j].credit /\ w.pay = job[j].pay /\ w.label = job[j].label
           /\ DOMAIN w.shelf = Touched(job[j])
           /\ \A p \in DOMAIN w.shelf : w.shelf[p] = stock[p] + w.shift[p]
           /\ DOMAIN w.purse = Owing(job[j])
           /\ \A x \in DOMAIN w.purse : w.purse[x] = balance[x] + w.credit
           /\ w.reads = job[j].reads \cup Touched(job[j]) \cup Owing(job[j])
    BY <1>0, <1>2, FetchWork
  <2>2. InHand(job[j])
    BY <2>1 DEF WholeInv
  <2>3. Pursed(w) /\ ToApply(w)
    BY <2>1, <2>2 DEF InHand, Pursed, AboutDoc, ToApply
  <2>4. ASSUME Untorn(w) PROVE AsRead(w)
    <3>1. AsRead(job[j])
      BY <2>1, <2>2, <2>4 DEF InHand, Untorn
    <3>2. w.op \in {"apply", "cancel", "pay"}
      BY <2>1 DEF AboutDoc
    <3>3. AppliesAsRead(w)
      BY <2>1, <3>1 DEF AsRead, AppliesAsRead
    <3>4. CancelsAsRead(w)
      BY <2>1, <3>1 DEF AsRead, CancelsAsRead
    <3>5. PaysAsRead(w)
      BY <2>1, <3>1 DEF AsRead, PaysAsRead
    <3>6. SettlesAsRead(w) /\ CorrectsAsRead(w)
      BY <3>2 DEF SettlesAsRead, CorrectsAsRead
    <3> QED
      BY <3>3, <3>4, <3>5, <3>6 DEF AsRead
  <2>5. w.op = "apply" => \A k \in Jobs : Live(k) /\ k # j /\ job[k].op = "apply" => job[k].about # w.about
    BY <2>1 DEF WholeInv, OneWorker
  <2> QED
    BY <1>1, <2>1, <2>3, <2>4, <2>5, HandlerWhole DEF InHand
<1>3. ASSUME FetchDocs(j) PROVE WholeInv'
  <2>1. PICK w \in Works :
           /\ job' = [job EXCEPT ![j] = w]
           /\ Live(j) /\ job[j].op = "settle" /\ job[j].step = "opened"
           /\ w.op = "settle" /\ w.about = job[j].about /\ w.step = "ready"
           /\ w.purse = job[j].purse
           /\ job[j].reads \subseteq w.reads
    BY <1>0, <1>3, FetchDocsWork
  <2>2. PICK v \in Works : v = job[j]
    BY <1>0, <2>1 DEF StockInv, OverlapTyped, Live
  <2>3. job'[j] = w
    BY <1>0, <2>1 DEF StockInv, OverlapTyped
  <2>4. /\ DOMAIN w.pay = {d \in DocsOfParty(w.about) : Open(d)}
        /\ \A d \in DOMAIN w.pay : w.pay[d] = total[d]
        /\ DOMAIN w.label = {d \in DOMAIN w.pay : payment[d] # "paid"}
        /\ \A d \in DOMAIN w.label : w.label[d] = "paid"
        /\ \A d \in DocsOfParty(w.about) : status[d] = "completed" => d \in w.reads
    BY <1>0, <1>3, <2>1, <2>2, <2>3, DocsAsRead
  <2>5. Pursed(w) /\ ToApply(w)
    BY <2>1 DEF Pursed, AboutDoc, ToApply
  <2>6. ASSUME Untorn(w) PROVE AsRead(w)
    <3>1. Untorn(job[j])
      BY <2>1, <2>6 DEF Untorn
    <3>2. w.about \notin DOMAIN w.purse => balance[w.about] = 0
      BY <2>1, <3>1 DEF WholeInv, InHand, AsRead, SettlesAsRead
    <3>3. SettlesAsRead(w)
      BY <2>4, <3>2 DEF SettlesAsRead
    <3>4. AppliesAsRead(w) /\ CancelsAsRead(w) /\ PaysAsRead(w) /\ CorrectsAsRead(w)
      BY <2>1 DEF AppliesAsRead, CancelsAsRead, PaysAsRead, CorrectsAsRead
    <3> QED
      BY <3>3, <3>4 DEF AsRead
  <2> QED
    BY <1>1, <2>1, <2>5, <2>6, HandlerWhole DEF InHand
<1> QED
  BY <1>2, <1>3

\* A replay leaves what handlers have read.
LEMMA ReplayKeepsWhole ==
  ASSUME WholeInv, StockInv', NEW d \in Docs, ReplayOne(d)
  PROVE  WholeInv'
<1>1. UNCHANGED <<products, stock, adjusted, parties, type, balance, opening, status,
                  party, lines, total, paid, payment, moved, undone, job, torn>>
  BY DEF ReplayOne, Replay, overlap, catalog, written
<1>2. event[d] = "done" /\ \A e \in Docs : e # d => event'[e] = event[e]
  BY DEF ReplayOne, Replay, WholeInv, StockInv, OverlapTyped, TypeOK
<1>3. OneWorker'
  BY <1>1 DEF WholeInv, OneWorker, Live, Idle
<1>4. ASSUME NEW k \in Jobs, Live(k)'
      PROVE  InHand(job[k])'
  <2>1. PICK v \in Works : v = job[k] /\ Live(k)
    BY <1>1, <1>4 DEF Live, Idle, WholeInv, StockInv, OverlapTyped
  <2>2. InHand(v) /\ WellFormed(v) /\ job'[k] = v
    BY <1>1, <2>1 DEF WholeInv, StockInv, AllWellFormed
  <2>3. Pursed(job[k])'
    BY <1>1, <2>2 DEF InHand, Pursed, AboutDoc
  <2>4. ToApply(job[k])'
    BY <1>2, <2>2 DEF InHand, ToApply, WellFormed, AboutDoc
  <2>5. ASSUME Untorn(job[k])' PROVE AsRead(job[k])'
    <3>1. AsRead(v)
      BY <1>1, <2>2, <2>5 DEF InHand, Untorn
    <3> QED
      BY <1>1, <2>2, <3>1, AsReadFrame
  <2> QED
    BY <2>3, <2>4, <2>5 DEF InHand
<1> QED
  BY <1>3, <1>4 DEF WholeInv

\* What another handler has read is still so, unless the commit tears it.
LEMMA CommitKeepsRead ==
  ASSUME StockInv, NEW j \in Jobs, Commit(j), NEW k \in Jobs, Live(k)',
         AsRead(job[k]), Untorn(job[k])'
  PROVE  AsRead(job[k])'
<1>1. k # j /\ Live(k) /\ job'[k] = job[k]
  BY CommitKeepsOthers
<1>2. PICK v \in Works : v = job[k]
  BY <1>1 DEF StockInv, OverlapTyped, Live
<1>3. WellFormed(v) /\ AsRead(v) /\ job'[k] = v
  BY <1>1, <1>2 DEF StockInv, AllWellFormed
<1>4. \A e \in v.reads : e \notin torn'
  BY <1>3 DEF Untorn
<1>5. UNCHANGED <<type, party, lines, total>>
  BY CommitWork
<1>6. /\ \A d \in Docs : d \in v.reads => UNCHANGED <<status[d], moved[d], paid[d], payment[d]>>
      /\ \A x \in Parties : x \in v.reads => balance'[x] = balance[x]
      /\ \A p \in Products : p \in v.reads => UNCHANGED <<stock[p], adjusted[p]>>
  BY <1>1, <1>2, <1>4, CommitSparesRows
<1>7. CASE AboutDoc(v)
  <2>1. PICK d \in Docs : d = v.about /\ d \in v.reads
    BY <1>3, <1>7 DEF WellFormed
  <2>2. UNCHANGED <<status[d], moved[d], paid[d], payment[d], party[d], lines[d], total[d]>>
    BY <1>5, <1>6, <2>1
  <2>3. NoEffects(d)' = NoEffects(d) /\ Moves(d)' = Moves(d) /\ Due(d)' = Due(d)
    BY <1>5, <2>2 DEF NoEffects, AlreadyMoved, Moves, Due
  <2>4. AppliesAsRead(job[k])'
    <3> SUFFICES ASSUME v.op = "apply"
                 PROVE  IF NoEffects(d)' THEN v.shift = NoLines /\ v.credit = 0
                                         ELSE v.shift = Moves(d)' /\ v.credit = Due(d)' /\ v.party = party'[d]
      BY <1>3, <2>1 DEF AppliesAsRead, NoLines, NoEffects, AlreadyMoved, Moves, Due
    <3> QED
      BY <1>3, <2>1, <2>2, <2>3 DEF AsRead, AppliesAsRead
  <2>5. CancelsAsRead(job[k])'
    BY <1>3, <2>1, <2>2 DEF AsRead, CancelsAsRead, Returned, Due
  <2>6. PaysAsRead(job[k])'
    <3>1. CASE v.op = "pay"
      <4>1. \A amount \in Payments : PaidAfter(d, amount)' = PaidAfter(d, amount)
        BY <2>2 DEF PaidAfter
      <4>2. /\ status[d] = "completed" /\ v.party = party[d]
            /\ \E amount \in Payments : \E s \in StatusesFor(PaidAfter(d, amount), total[d]) :
                 LET now == IF s = "paid" THEN total[d] ELSE PaidAfter(d, amount) IN
                 /\ v.credit = paid[d] - now
                 /\ now = IF d \in DOMAIN v.pay THEN v.pay[d] ELSE paid[d]
                 /\ s = IF d \in DOMAIN v.label THEN v.label[d] ELSE payment[d]
        BY <1>3, <2>1, <3>1 DEF AsRead, PaysAsRead
      <4>3. \E amount \in Payments : \E s \in StatusesFor(PaidAfter(d, amount)', total'[d]) :
                 LET now == IF s = "paid" THEN total'[d] ELSE PaidAfter(d, amount)' IN
                 /\ v.credit = paid'[d] - now
                 /\ now = IF d \in DOMAIN v.pay THEN v.pay[d] ELSE paid'[d]
                 /\ s = IF d \in DOMAIN v.label THEN v.label[d] ELSE payment'[d]
        BY <2>2, <4>1, <4>2
      <4>4. status'[d] = "completed" /\ v.party = party'[d]
        BY <2>2, <4>2
      <4> QED
        BY <1>3, <2>1, <4>3, <4>4 DEF PaysAsRead, PaidAfter, Least, StatusesFor
    <3>2. CASE v.op # "pay"
      BY <1>3, <3>2 DEF PaysAsRead
    <3> QED
      BY <3>1, <3>2
  <2>7. SettlesAsRead(job[k])' /\ CorrectsAsRead(job[k])'
    BY <1>3, <1>7 DEF AboutDoc, SettlesAsRead, CorrectsAsRead
  <2> QED
    BY <2>4, <2>5, <2>6, <2>7 DEF AsRead
<1>8. CASE v.op = "settle"
  <2>1. PICK x \in Parties : x = v.about /\ x \in v.reads
    BY <1>3, <1>8 DEF WellFormed
  <2>2. x \notin DOMAIN v.purse => balance'[x] = 0
    BY <1>3, <1>6, <1>8, <2>1 DEF AsRead, SettlesAsRead
  <2>3. ASSUME v.step = "ready"
        PROVE  /\ DOMAIN v.pay = {d \in DocsOfParty(x)' : Open(d)'}
               /\ \A d \in DOMAIN v.pay : v.pay[d] = total'[d]
               /\ DOMAIN v.label = {d \in DOMAIN v.pay : payment'[d] # "paid"}
               /\ \A d \in DOMAIN v.label : v.label[d] = "paid"
               /\ \A d \in DocsOfParty(x)' : status'[d] = "completed" => d \in v.reads
    <3>1. DocsOfParty(x)' = DocsOfParty(x) /\ DocsOfParty(x) \subseteq Docs
      BY <1>5 DEF DocsOfParty, DocsOf, Docs
    <3>2. /\ DOMAIN v.pay = {d \in DocsOfParty(x) : Open(d)}
          /\ \A d \in DOMAIN v.pay : v.pay[d] = total[d]
          /\ DOMAIN v.label = {d \in DOMAIN v.pay : payment[d] # "paid"}
          /\ \A d \in DOMAIN v.label : v.label[d] = "paid"
          /\ \A d \in DocsOfParty(x) : status[d] = "completed" => d \in v.reads
      BY <1>3, <1>8, <2>1, <2>3 DEF AsRead, SettlesAsRead
    <3>3. ASSUME NEW d \in DocsOfParty(x)
          PROVE  /\ status'[d] = "completed" => d \in v.reads
                 /\ Open(d)' <=> Open(d)
                 /\ Open(d) => payment'[d] = payment[d]
      <4>1. d \in Docs /\ (status'[d] = "completed" => status[d] = "completed")
        BY <3>1, CommitRows
      <4>2. CASE status[d] = "completed"
        <5>1. UNCHANGED <<status[d], paid[d], payment[d]>>
          BY <1>6, <3>2, <4>1, <4>2
        <5> QED
          BY <1>5, <3>2, <4>2, <5>1 DEF Open, Due
      <4>3. CASE status[d] # "completed"
        BY <4>1, <4>3 DEF Open
      <4> QED
        BY <4>2, <4>3
    <3>4. {d \in DocsOfParty(x)' : Open(d)'} = {d \in DocsOfParty(x) : Open(d)}
      BY <3>1, <3>3
    <3>5. {d \in DOMAIN v.pay : payment'[d] # "paid"} = {d \in DOMAIN v.pay : payment[d] # "paid"}
      BY <3>2, <3>3
    <3>6. \A d \in DOMAIN v.pay : v.pay[d] = total'[d]
      BY <1>5, <3>2
    <3>7. \A d \in DocsOfParty(x)' : status'[d] = "completed" => d \in v.reads
      BY <3>1, <3>3
    <3> QED
      BY <3>2, <3>4, <3>5, <3>6, <3>7
  <2>4. SettlesAsRead(job[k])'
    BY <1>3, <2>1, <2>2, <2>3 DEF SettlesAsRead
  <2>5. AppliesAsRead(job[k])' /\ CancelsAsRead(job[k])' /\ PaysAsRead(job[k])' /\ CorrectsAsRead(job[k])'
    BY <1>3, <1>8 DEF AppliesAsRead, CancelsAsRead, PaysAsRead, CorrectsAsRead
  <2> QED
    BY <2>4, <2>5 DEF AsRead
<1>9. CASE v.op = "adjust"
  <2>1. PICK p \in Products : p = v.about
    BY <1>3, <1>9 DEF WellFormed
  <2>2. p \in v.reads \/ v.shift[p] = 0
    BY <1>3, <1>9, <2>1 DEF WellFormed, Touched
  <2>3. v.shift[p] \in Corrections /\ v.shift[p] # 0
    BY <1>3, <1>9, <2>1, LedgerAssumption DEF AsRead, CorrectsAsRead
  <2>4. UNCHANGED <<stock[p], adjusted[p]>>
    BY <1>6, <2>2, <2>3
  <2>5. CorrectsAsRead(job[k])'
    BY <1>3, <1>9, <2>1, <2>4 DEF AsRead, CorrectsAsRead, Correctable
  <2>6. AppliesAsRead(job[k])' /\ CancelsAsRead(job[k])' /\ PaysAsRead(job[k])' /\ SettlesAsRead(job[k])'
    BY <1>3, <1>9 DEF AppliesAsRead, CancelsAsRead, PaysAsRead, SettlesAsRead
  <2> QED
    BY <2>5, <2>6 DEF AsRead
<1>10. v.op \in {"apply", "cancel", "pay", "settle", "adjust"}
  BY DEF Works
<1> QED
  BY <1>7, <1>8, <1>9, <1>10 DEF AboutDoc

LEMMA CommitKeepsWhole ==
  ASSUME WholeInv, StockInv', NEW j \in Jobs, Commit(j)
  PROVE  WholeInv'
<1>0. StockInv /\ OneWorker
  BY DEF WholeInv
<1>1. OneWorker'
  <2> SUFFICES ASSUME NEW k \in Jobs, NEW l \in Jobs, Live(k)', Live(l)',
                      job'[k].op = "apply", job'[l].op = "apply", job'[k].about = job'[l].about
               PROVE  k = l
    BY DEF OneWorker
  <2>1. /\ Live(k) /\ job'[k] = job[k]
        /\ Live(l) /\ job'[l] = job[l]
    BY <1>0, CommitKeepsOthers
  <2> QED
    BY <1>0, <2>1 DEF OneWorker
<1>2. ASSUME NEW k \in Jobs, Live(k)'
      PROVE  InHand(job[k])'
  <2>1. Live(k) /\ job'[k] = job[k]
    BY <1>0, <1>2, CommitKeepsOthers
  <2>2. InHand(job[k])
    BY <2>1 DEF WholeInv
  <2>3. Pursed(job[k])' /\ ToApply(job[k])'
    BY <1>0, <1>2, <2>2, CommitKeepsPurse DEF InHand
  <2>4. Untorn(job[k])' => Untorn(job[k])
    BY <1>0, <2>1, CommitTears DEF Untorn
  <2>5. Untorn(job[k])' => AsRead(job[k])'
    BY <1>0, <1>2, <2>2, <2>4, CommitKeepsRead DEF InHand
  <2> QED
    BY <2>3, <2>5 DEF InHand
<1> QED
  BY <1>1, <1>2 DEF WholeInv

\* What the commit of a handler writes if none of the rows it has read is torn:
\* stocks and a balance that count from the present ones.
LEMMA UntornCommit ==
  ASSUME WholeInv, NEW j \in Jobs, Commit(j), NEW w \in Works, w = job[j], Untorn(w)
  PROVE  /\ AsRead(w) /\ ToApply(w) /\ WellFormed(w) /\ w.step = "ready"
         /\ stock' = [p \in Products |-> stock[p] + w.shift[p]]
         /\ AboutDoc(w) => Credit(w.party, w.credit)
         /\ w.pay = Nothing /\ w.label = Nothing => paid' = paid /\ payment' = payment
<1>0. StockInv
  BY DEF WholeInv
<1>1. Live(j) /\ WellFormed(w) /\ Shelved(w) /\ w.step = "ready"
  BY <1>0, CommitWork
<1>2. InHand(w)
  BY <1>1 DEF WholeInv
<1>3. /\ stock \in [Products -> Int] /\ balance \in [Parties -> Int]
      /\ paid \in [Docs -> Nat] /\ payment \in [Docs -> {"unpaid", "partial", "paid"}]
      /\ w.shift \in [Products -> Int] /\ w.credit \in Int /\ w.party \in Parties \cup {NoParty}
  BY <1>0 DEF StockInv, OverlapTyped, TypeOK, Works
<1>4. stock' = [p \in Products |-> stock[p] + w.shift[p]]
  <2>1. stock' = [p \in Products |-> IF p \in DOMAIN w.shelf THEN w.shelf[p] ELSE stock[p]]
    BY DEF Commit
  <2>2. ASSUME NEW p \in Products
        PROVE  (IF p \in DOMAIN w.shelf THEN w.shelf[p] ELSE stock[p]) = stock[p] + w.shift[p]
    <3>1. CASE p \in DOMAIN w.shelf
      <4>1. p \notin torn
        BY <1>1, <3>1 DEF Untorn, WellFormed
      <4> QED
        BY <1>1, <3>1, <4>1 DEF Shelved
    <3>2. CASE p \notin DOMAIN w.shelf
      <4>1. w.shift[p] = 0
        BY <1>1, <3>2 DEF WellFormed, Touched
      <4> QED
        BY <1>3, <3>2, <4>1
    <3> QED
      BY <3>1, <3>2
  <2> QED
    BY <2>1, <2>2
<1>5. ASSUME AboutDoc(w) PROVE Credit(w.party, w.credit)
  <2>1. balance' = [x \in Parties |-> IF x \in DOMAIN w.purse THEN w.purse[x] ELSE balance[x]]
    BY DEF Commit
  <2>2. DOMAIN w.purse = Owing(w) /\ Owing(w) \subseteq w.reads
    BY <1>1, <1>5 DEF WellFormed, AboutDoc
  <2>3. \A x \in DOMAIN w.purse : w.purse[x] = balance[x] + w.credit
    BY <1>1, <1>2, <1>5, <2>2 DEF InHand, Pursed, Untorn
  <2>4. CASE w.party = NoParty
    <3>1. DOMAIN w.purse = {}
      BY <2>2, <2>4 DEF Owing
    <3> QED
      BY <1>3, <2>1, <2>4, <3>1 DEF Credit
  <2>5. CASE w.party # NoParty
    <3>1. \A x \in Parties : (IF x \in DOMAIN w.purse THEN w.purse[x] ELSE balance[x])
                               = IF x = w.party THEN balance[x] + w.credit ELSE balance[x]
      BY <1>3, <2>2, <2>3, <2>5 DEF Owing
    <3>2. balance' = [x \in Parties |-> IF x = w.party THEN balance[x] + w.credit ELSE balance[x]]
      BY <2>1, <3>1
    <3>3. balance' = [balance EXCEPT ![w.party] = balance[w.party] + w.credit]
      BY <1>3, <2>5, <3>2
    <3> QED
      BY <2>5, <3>3 DEF Credit
  <2> QED
    BY <2>4, <2>5
<1>6. ASSUME w.pay = Nothing, w.label = Nothing PROVE paid' = paid /\ payment' = payment
  <2>1. DOMAIN w.pay = {} /\ DOMAIN w.label = {}
    BY <1>6, NothingIsPart
  <2>2. /\ paid' = [e \in Docs |-> IF e \in DOMAIN w.pay THEN w.pay[e] ELSE paid[e]]
        /\ payment' = [e \in Docs |-> IF e \in DOMAIN w.label THEN w.label[e] ELSE payment[e]]
    BY DEF Commit
  <2> QED
    BY <1>3, <2>1, <2>2
<1>7. AsRead(w) /\ ToApply(w)
  BY <1>2 DEF InHand
<1> QED
  BY <1>1, <1>4, <1>5, <1>6, <1>7

\* The commit of a worker is the event applied.
LEMMA UntornApply ==
  ASSUME WholeInv, NEW j \in Jobs, Commit(j), NEW w \in Works, w = job[j], Untorn(w),
         w.op = "apply"
  PROVE  Next
<1>0. StockInv
  BY DEF WholeInv
<1>1. /\ AsRead(w) /\ ToApply(w) /\ WellFormed(w)
      /\ stock' = [p \in Products |-> stock[p] + w.shift[p]]
      /\ Credit(w.party, w.credit)
  BY UntornCommit DEF AboutDoc
<1>2. paid' = paid /\ payment' = payment
  BY <1>1, UntornCommit DEF WellFormed
<1>3. PICK d \in Docs : d = w.about
  BY <1>1 DEF WellFormed, AboutDoc
<1>4. /\ event' = [event EXCEPT ![d] = "done"] /\ moved' = Inserted(moved, d, w.shift)
      /\ UNCHANGED <<catalog, opening, status, written, undone, replays, skewed, rushed>>
  BY <1>3 DEF Commit, catalog, written
<1>5. event[d] \in {"pending", "again"}
  BY <1>1, <1>3 DEF ToApply
<1>6. /\ stock \in [Products -> Int] /\ balance \in [Parties -> Int]
      /\ moved \in [Docs -> [Products -> Int]]
  BY <1>0 DEF StockInv, OverlapTyped, TypeOK
<1>7. CASE NoEffects(d)
  <2>1. w.shift = NoLines /\ w.credit = 0
    BY <1>1, <1>3, <1>7 DEF AsRead, AppliesAsRead
  <2>2. stock' = stock
    BY <1>1, <1>6, <2>1 DEF NoLines
  <2>3. balance' = balance
    BY <1>1, <1>6, <2>1 DEF Credit
  <2>4. moved' = moved
    BY <1>4, <1>6, <2>1 DEF Inserted, NoLines
  <2>5. Apply(d)
    BY <1>2, <1>4, <1>5, <1>7, <2>2, <2>3, <2>4 DEF Apply
  <2> QED
    BY <2>5 DEF Next, ApplySale, ApplyPurchase, Docs
<1>8. CASE ~NoEffects(d)
  <2>1. w.shift = Moves(d) /\ w.credit = Due(d) /\ w.party = party[d]
    BY <1>1, <1>3, <1>8 DEF AsRead, AppliesAsRead
  <2>2. stock' = [p \in Products |-> Shifted(p, Moves(d)[p])]
    BY <1>1, <2>1 DEF Shifted
  <2>3. moved' = [moved EXCEPT ![d] = [p \in Products |-> @[p] + Moves(d)[p]]]
    BY <1>4, <2>1 DEF Inserted
  <2>4. Credit(party[d], Due(d))
    BY <1>1, <2>1
  <2>5. Apply(d)
    BY <1>2, <1>4, <1>5, <1>8, <2>2, <2>3, <2>4 DEF Apply
  <2> QED
    BY <2>5 DEF Next, ApplySale, ApplyPurchase, Docs
<1> QED
  BY <1>7, <1>8

\* The commit of a cancellation is the cancellation.
LEMMA UntornCancel ==
  ASSUME WholeInv, NEW j \in Jobs, Commit(j), NEW w \in Works, w = job[j], Untorn(w),
         w.op = "cancel"
  PROVE  Next
<1>0. StockInv
  BY DEF WholeInv
<1>1. /\ AsRead(w) /\ WellFormed(w)
      /\ stock' = [p \in Products |-> stock[p] + w.shift[p]]
      /\ Credit(w.party, w.credit)
  BY UntornCommit DEF AboutDoc
<1>2. paid' = paid /\ payment' = payment
  BY <1>1, UntornCommit DEF WellFormed
<1>3. PICK d \in Docs : d = w.about
  BY <1>1 DEF WellFormed, AboutDoc
<1>4. /\ status' = [status EXCEPT ![d] = "cancelled"] /\ undone' = Inserted(undone, d, w.shift)
      /\ skewed' = Skewed(d, w.credit)
      /\ UNCHANGED <<catalog, opening, written, event, moved, replays, rushed>>
  BY <1>3 DEF Commit, catalog, written
<1>5. /\ status[d] = "completed" /\ w.party = party[d] /\ w.credit = 0 - Due(d)
      /\ w.shift = [p \in Products |-> 0 - moved[d][p]]
  BY <1>1, <1>3 DEF AsRead, CancelsAsRead, Returned
<1>6. /\ moved \in [Docs -> [Products -> Int]] /\ undone \in [Docs -> [Products -> Int]]
      /\ stock \in [Products -> Int]
  BY <1>0 DEF StockInv, OverlapTyped, TypeOK
<1>7. stock' = [p \in Products |-> Shifted(p, 0 - moved[d][p])]
  BY <1>1, <1>5 DEF Shifted
<1>8. undone' = [undone EXCEPT ![d] = [p \in Products |-> @[p] - moved[d][p]]]
  <2>1. [p \in Products |-> undone[d][p] + w.shift[p]] = [p \in Products |-> undone[d][p] - moved[d][p]]
    <3>1. ASSUME NEW p \in Products PROVE undone[d][p] + w.shift[p] = undone[d][p] - moved[d][p]
      BY <1>5, <1>6
    <3> QED
      BY <3>1
  <2>2. undone' = [undone EXCEPT ![d] = [p \in Products |-> undone[d][p] + w.shift[p]]]
    BY <1>4, <1>6 DEF Inserted
  <2>3. undone' = [undone EXCEPT ![d] = [p \in Products |-> undone[d][p] - moved[d][p]]]
    BY <2>1, <2>2
  <2> QED
    BY <1>6, <2>3
<1>9. skewed' = Skewed(d, Due(d))
  <2>1. Due(d) \in Int
    BY <1>0 DEF StockInv, OverlapTyped, TypeOK, Due
  <2>2. w.credit # 0 <=> Due(d) # 0
    BY <1>5, <2>1
  <2> QED
    BY <1>4, <2>2 DEF Skewed
<1>10. Cancel(d)
  BY <1>1, <1>2, <1>4, <1>5, <1>7, <1>8, <1>9 DEF Cancel, Reversal
<1> QED
  BY <1>10 DEF Next, CancelSale, CancelPurchase, Docs

\* The commit of a payment is the payment.
LEMMA UntornPayment ==
  ASSUME WholeInv, NEW j \in Jobs, Commit(j), NEW w \in Works, w = job[j], Untorn(w),
         w.op = "pay"
  PROVE  Next
<1>0. StockInv
  BY DEF WholeInv
<1>1. /\ AsRead(w) /\ WellFormed(w)
      /\ stock' = [p \in Products |-> stock[p] + w.shift[p]]
      /\ Credit(w.party, w.credit)
  BY UntornCommit DEF AboutDoc
<1>2. PICK d \in Docs : d = w.about /\ DOMAIN w.pay \subseteq {d} /\ DOMAIN w.label \subseteq {d}
  BY <1>1 DEF WellFormed, AboutDoc
<1>3. status[d] = "completed" /\ w.party = party[d]
  BY <1>1, <1>2 DEF AsRead, PaysAsRead
<1>4a. PICK amount \in Payments : \E t \in StatusesFor(PaidAfter(d, amount), total[d]) :
         LET n == IF t = "paid" THEN total[d] ELSE PaidAfter(d, amount) IN
         /\ w.credit = paid[d] - n
         /\ n = IF d \in DOMAIN w.pay THEN w.pay[d] ELSE paid[d]
         /\ t = IF d \in DOMAIN w.label THEN w.label[d] ELSE payment[d]
  BY <1>1, <1>2 DEF AsRead, PaysAsRead
<1>4. PICK s \in StatusesFor(PaidAfter(d, amount), total[d]) :
        LET n == IF s = "paid" THEN total[d] ELSE PaidAfter(d, amount) IN
        /\ w.credit = paid[d] - n
        /\ n = IF d \in DOMAIN w.pay THEN w.pay[d] ELSE paid[d]
        /\ s = IF d \in DOMAIN w.label THEN w.label[d] ELSE payment[d]
  BY <1>4a
<1>5. PICK now : now = IF s = "paid" THEN total[d] ELSE PaidAfter(d, amount)
  OBVIOUS
<1>6. /\ w.credit = paid[d] - now
      /\ now = IF d \in DOMAIN w.pay THEN w.pay[d] ELSE paid[d]
      /\ s = IF d \in DOMAIN w.label THEN w.label[d] ELSE payment[d]
  BY <1>4, <1>5
<1>7. /\ stock \in [Products -> Int] /\ w.shift = NoLines
      /\ paid \in [Docs -> Nat] /\ payment \in [Docs -> {"unpaid", "partial", "paid"}]
  BY <1>0, <1>1 DEF StockInv, OverlapTyped, TypeOK, WellFormed
<1>8. stock' = stock
  BY <1>1, <1>7 DEF NoLines
<1>9. paid' = [paid EXCEPT ![d] = now] /\ payment' = [payment EXCEPT ![d] = s]
  <2>1. /\ paid' = [e \in Docs |-> IF e \in DOMAIN w.pay THEN w.pay[e] ELSE paid[e]]
        /\ payment' = [e \in Docs |-> IF e \in DOMAIN w.label THEN w.label[e] ELSE payment[e]]
    BY DEF Commit
  <2>2. \A e \in Docs :
          /\ (IF e \in DOMAIN w.pay THEN w.pay[e] ELSE paid[e]) = IF e = d THEN now ELSE paid[e]
          /\ (IF e \in DOMAIN w.label THEN w.label[e] ELSE payment[e]) = IF e = d THEN s ELSE payment[e]
    BY <1>2, <1>6
  <2>3. /\ paid' = [e \in Docs |-> IF e = d THEN now ELSE paid[e]]
        /\ payment' = [e \in Docs |-> IF e = d THEN s ELSE payment[e]]
    BY <2>1, <2>2
  <2> QED
    BY <1>7, <2>3
<1>10. UNCHANGED <<catalog, opening, status, written, event, moved, undone, replays, rushed>>
  BY DEF Commit, catalog, written
<1>11. Credit(party[d], paid[d] - now)
  BY <1>1, <1>3, <1>6
<1>12. skewed' = Skewed(d, paid[d] - now)
  BY <1>2, <1>6 DEF Commit
<1>13. RecordPayment(d, amount)
  BY <1>3, <1>5, <1>8, <1>9, <1>10, <1>11, <1>12 DEF RecordPayment
<1> QED
  BY <1>13 DEF Next

\* The commit of a settlement is the settlement.
LEMMA UntornSettle ==
  ASSUME WholeInv, NEW j \in Jobs, Commit(j), NEW w \in Works, w = job[j], Untorn(w),
         w.op = "settle"
  PROVE  Next
<1>0. StockInv
  BY DEF WholeInv
<1>1. /\ AsRead(w) /\ WellFormed(w) /\ w.step = "ready"
      /\ stock' = [p \in Products |-> stock[p] + w.shift[p]]
  BY UntornCommit
<1>2. PICK x \in Parties : x = w.about
  BY <1>1 DEF WellFormed
<1>3. /\ x \notin DOMAIN w.purse => balance[x] = 0
      /\ DOMAIN w.pay = {d \in DocsOfParty(x) : Open(d)}
      /\ \A d \in DOMAIN w.pay : w.pay[d] = total[d]
      /\ DOMAIN w.label = {d \in DOMAIN w.pay : payment[d] # "paid"}
      /\ \A d \in DOMAIN w.label : w.label[d] = "paid"
  BY <1>1, <1>2 DEF AsRead, SettlesAsRead
<1>4. /\ w.shift = NoLines /\ DOMAIN w.purse \subseteq {x}
      /\ \A y \in DOMAIN w.purse : w.purse[y] = 0
  BY <1>1, <1>2 DEF WellFormed
<1>5. /\ stock \in [Products -> Int] /\ balance \in [Parties -> Int] /\ parties = Parties
      /\ opening \in [Parties -> Int]
  BY <1>0 DEF StockInv, OverlapTyped, TypeOK
<1>6. stock' = stock
  BY <1>1, <1>4, <1>5 DEF NoLines
<1>7. balance' = [balance EXCEPT ![x] = 0]
  <2>1. balance' = [y \in Parties |-> IF y \in DOMAIN w.purse THEN w.purse[y] ELSE balance[y]]
    BY DEF Commit
  <2>2. \A y \in Parties : (IF y \in DOMAIN w.purse THEN w.purse[y] ELSE balance[y])
                             = IF y = x THEN 0 ELSE balance[y]
    BY <1>3, <1>4
  <2>3. balance' = [y \in Parties |-> IF y = x THEN 0 ELSE balance[y]]
    BY <2>1, <2>2
  <2> QED
    BY <1>5, <2>3
<1>8. opening' = [opening EXCEPT ![x] = 0]
      /\ skewed' = skewed \cup Strays(DocsOfParty(x), {x})
      /\ UNCHANGED <<catalog, status, written, event, moved, undone, replays, rushed>>
  BY <1>2 DEF Commit, catalog, written
<1>9. SettleDocs(DocsOfParty(x))
  <2>1. /\ paid' = [e \in Docs |-> IF e \in DOMAIN w.pay THEN w.pay[e] ELSE paid[e]]
        /\ payment' = [e \in Docs |-> IF e \in DOMAIN w.label THEN w.label[e] ELSE payment[e]]
    BY DEF Commit
  <2>2. \A e \in Docs : e \in DOMAIN w.pay <=> e \in DocsOfParty(x) /\ Open(e)
    BY <1>3
  <2>3. \A e \in Docs :
          /\ (IF e \in DOMAIN w.pay THEN w.pay[e] ELSE paid[e])
               = IF e \in DocsOfParty(x) /\ Open(e) THEN total[e] ELSE paid[e]
          /\ (IF e \in DOMAIN w.label THEN w.label[e] ELSE payment[e])
               = IF e \in DocsOfParty(x) /\ Open(e) THEN "paid" ELSE payment[e]
    BY <1>3, <2>2
  <2> QED
    BY <2>1, <2>3 DEF SettleDocs
<1>10. SettleParty(x)
  BY <1>5, <1>6, <1>7, <1>8, <1>9 DEF SettleParty
<1> QED
  BY <1>10 DEF Next

\* The commit of a correction is the correction.
LEMMA UntornCorrection ==
  ASSUME WholeInv, NEW j \in Jobs, Commit(j), NEW w \in Works, w = job[j], Untorn(w),
         w.op = "adjust"
  PROVE  Next
<1>0. StockInv
  BY DEF WholeInv
<1>1. /\ AsRead(w) /\ WellFormed(w) /\ w.step = "ready"
      /\ stock' = [p \in Products |-> stock[p] + w.shift[p]]
  BY UntornCommit
<1>2. paid' = paid /\ payment' = payment
  BY <1>1, UntornCommit DEF WellFormed
<1>3. PICK p \in Products : p = w.about
  BY <1>1 DEF WellFormed
<1>4. PICK n \in Corrections : n = w.shift[p]
  BY <1>1, <1>3 DEF AsRead, CorrectsAsRead
<1>5. /\ adjusted[p] + n \in (0 - MaxCorrected)..MaxCorrected
      /\ Correctable(p, n)
  BY <1>1, <1>3, <1>4 DEF AsRead, CorrectsAsRead
<1>6. \A q \in Products : q # p => w.shift[q] = 0
  BY <1>1, <1>3 DEF WellFormed
<1>7. /\ stock \in [Products -> Int] /\ balance \in [Parties -> Int] /\ products = Products
      /\ adjusted \in [Products -> Int]
  BY <1>0 DEF StockInv, OverlapTyped, TypeOK
<1>8. stock' = [stock EXCEPT ![p] = Shifted(p, n)]
  <2>1. \A q \in Products : stock[q] + w.shift[q] = IF q = p THEN stock[p] + n ELSE stock[q]
    BY <1>4, <1>6, <1>7
  <2>2. stock' = [q \in Products |-> IF q = p THEN stock[p] + n ELSE stock[q]]
    BY <1>1, <2>1
  <2> QED
    BY <1>7, <2>2 DEF Shifted
<1>9. balance' = balance
  <2>1. balance' = [y \in Parties |-> IF y \in DOMAIN w.purse THEN w.purse[y] ELSE balance[y]]
    BY DEF Commit
  <2>2. DOMAIN w.purse = {}
    BY <1>1 DEF WellFormed, Owing
  <2> QED
    BY <1>7, <2>1, <2>2
<1>10. adjusted' = [adjusted EXCEPT ![p] = adjusted[p] + n]
       /\ UNCHANGED <<products, parties, type, opening, status, written, event, moved, undone, replays,
                      skewed>>
  BY <1>3, <1>4, <1>7 DEF Commit, written
<1>11. rushed' = Rushed([NoLines EXCEPT ![p] = 0 - n])
  <2>1. \A q \in Products : 0 - w.shift[q] = IF q = p THEN 0 - n ELSE 0
    BY <1>4, <1>6
  <2>2. [q \in Products |-> 0 - w.shift[q]] = [NoLines EXCEPT ![p] = 0 - n]
    BY <2>1 DEF NoLines
  <2>3. rushed' = Rushed([q \in Products |-> 0 - w.shift[q]])
    BY DEF Commit
  <2> QED
    BY <2>2, <2>3
<1>12. AdjustStock(p, n)
  BY <1>2, <1>5, <1>7, <1>8, <1>9, <1>10, <1>11 DEF AdjustStock
<1> QED
  BY <1>12 DEF Next

\* A step from a state of the invariant is whole or torn.
LEMMA StepsAreWhole ==
  ASSUME WholeInv, [OverlapNext]_<<vars, overlap>>
  PROVE  [Next]_vars \/ \E j \in Jobs : Commit(j) /\ ~Untorn(job[j])
<1>1. CASE \E d \in Docs : ReplayOne(d)
  BY <1>1 DEF ReplayOne, Next
<1>2. CASE \/ \E j \in Jobs, d \in Docs : TakeEvent(j, d)
           \/ \E j \in Jobs, d \in Docs : TakeCancel(j, d)
           \/ \E j \in Jobs, d \in Docs, amount \in Payments : TakePayment(j, d, amount)
           \/ \E j \in Jobs, x \in Parties : TakeParty(j, x)
           \/ \E j \in Jobs, p \in Products, n \in Corrections : TakeCorrection(j, p, n)
  BY <1>2 DEF TakeEvent, TakeCancel, TakePayment, TakeParty, TakeCorrection, Take
<1>3. CASE \E j \in Jobs : Fetch(j) \/ FetchDocs(j)
  BY <1>3 DEF Fetch, FetchDocs
<1>4. ASSUME NEW j \in Jobs, Commit(j), Untorn(job[j]) PROVE Next
  <2>1. PICK w \in Works : w = job[j]
    BY <1>4, CommitWork DEF WholeInv
  <2>2. w.op \in {"apply", "cancel", "pay", "settle", "adjust"}
    BY DEF Works
  <2>3. Untorn(w)
    BY <1>4, <2>1
  <2>4. CASE w.op = "apply"
    BY <1>4, <2>1, <2>3, <2>4, UntornApply
  <2>5. CASE w.op = "cancel"
    BY <1>4, <2>1, <2>3, <2>5, UntornCancel
  <2>6. CASE w.op = "pay"
    BY <1>4, <2>1, <2>3, <2>6, UntornPayment
  <2>7. CASE w.op = "settle"
    BY <1>4, <2>1, <2>3, <2>7, UntornSettle
  <2>8. CASE w.op = "adjust"
    BY <1>4, <2>1, <2>3, <2>8, UntornCorrection
  <2> QED
    BY <2>2, <2>4, <2>5, <2>6, <2>7, <2>8
<1>5. CASE \E j \in Jobs : Commit(j)
  BY <1>4, <1>5
<1>6. CASE UNCHANGED <<vars, overlap>>
  BY <1>6
<1> QED
  BY <1>1, <1>2, <1>3, <1>5, <1>6 DEF OverlapNext

LEMMA WholeStarts == OverlapInit => WholeInv
<1> SUFFICES ASSUME OverlapInit PROVE WholeInv
  OBVIOUS
<1>1. \A j \in Jobs : ~Live(j)
  BY DEF OverlapInit, Live
<1> QED
  BY <1>1, OverlapStarts DEF WholeInv, OneWorker

LEMMA WholeNext == WholeInv /\ [OverlapNext]_<<vars, overlap>> => WholeInv'
<1> SUFFICES ASSUME WholeInv, [OverlapNext]_<<vars, overlap>> PROVE WholeInv'
  OBVIOUS
<1>0. StockInv'
  BY OverlapStockNext DEF WholeInv
<1>1. CASE OverlapNext
  <2>1. CASE \E d \in Docs : ReplayOne(d)
    BY <1>0, <2>1, ReplayKeepsWhole
  <2>2. CASE \E j \in Jobs, d \in Docs : TakeEvent(j, d)
    BY <1>0, <2>2, TakesKeepWhole
  <2>3. CASE \E j \in Jobs, d \in Docs : TakeCancel(j, d)
    BY <1>0, <2>3, TakesKeepWhole
  <2>4. CASE \E j \in Jobs, d \in Docs, amount \in Payments : TakePayment(j, d, amount)
    BY <1>0, <2>4, TakesKeepWhole
  <2>5. CASE \E j \in Jobs, x \in Parties : TakeParty(j, x)
    BY <1>0, <2>5, TakesKeepWhole
  <2>6. CASE \E j \in Jobs, p \in Products, n \in Corrections : TakeCorrection(j, p, n)
    BY <1>0, <2>6, TakesKeepWhole
  <2>7. CASE \E j \in Jobs : Fetch(j)
    BY <1>0, <2>7, FetchesKeepWhole
  <2>8. CASE \E j \in Jobs : FetchDocs(j)
    BY <1>0, <2>8, FetchesKeepWhole
  <2>9. CASE \E j \in Jobs : Commit(j)
    BY <1>0, <2>9, CommitKeepsWhole
  <2> QED
    BY <1>1, <2>1, <2>2, <2>3, <2>4, <2>5, <2>6, <2>7, <2>8, <2>9 DEF OverlapNext
<1>2. CASE UNCHANGED <<vars, overlap>>
  <2>1. UNCHANGED <<products, stock, adjusted, parties, type, balance, opening, status,
                    party, lines, total, paid, payment, event, moved, undone, replays,
                    skewed, rushed, job, torn>>
    BY <1>2 DEF vars, catalog, written, overlap
  <2>2. OneWorker'
    BY <2>1 DEF WholeInv, OneWorker, Live, Idle
  <2>3. ASSUME NEW k \in Jobs, Live(k)' PROVE InHand(job[k])'
    <3>1. PICK v : v = job[k]
      OBVIOUS
    <3>2. InHand(v) /\ job'[k] = v
      BY <2>1, <2>3, <3>1 DEF WholeInv, Live, Idle
    <3>3. Pursed(job[k])' /\ ToApply(job[k])'
      BY <2>1, <3>2 DEF InHand, Pursed, AboutDoc, ToApply
    <3>4. Untorn(job[k])' => AsRead(v)
      BY <2>1, <3>2 DEF InHand, Untorn
    <3>5. Untorn(job[k])' => AsRead(job[k])'
      BY <2>1, <3>2, <3>4, AsReadFrame
    <3> QED
      BY <3>3, <3>5 DEF InHand
  <2> QED
    BY <1>0, <2>2, <2>3 DEF WholeInv
<1> QED
  BY <1>1, <1>2

\* The handlers and workers behave as if each did its transaction at its commit,
\* all at once: every step of the overlapping transactions is one that Ledger
\* takes with the rows as they are then, or writes no row, but for the commit of
\* a handler that had read a row which was written under some handler that had
\* read it.  So what one-action transactions are shown to keep, step by step,
\* the code keeps as long as no such commit is made.
THEOREM TransactionsAreWhole == OverlapSpec => WholeOrTorn
<1>1. OverlapInit => WholeInv
  BY WholeStarts
<1>2. WholeInv /\ [OverlapNext]_<<vars, overlap>> => WholeInv'
  BY WholeNext
<1>3. WholeInv /\ [OverlapNext]_<<vars, overlap>> =>
        [[Next]_vars \/ \E j \in Jobs : Commit(j) /\ ~Untorn(job[j])]_<<vars, overlap>>
  BY StepsAreWhole
<1> QED
  BY <1>1, <1>2, <1>3, PTL DEF OverlapSpec, WholeOrTorn

-----------------------------------------------------------------------------
(* Payments.                                                               *)

\* A handler whose columns fit keeps the invariant.
LEMMA HandlerLabels ==
  ASSUME LabelInv, StockInv', NEW j \in Jobs, NEW w \in Works, job' = [job EXCEPT ![j] = w],
         UNCHANGED vars, torn' = torn, LabelFits(w)
  PROVE  LabelInv'
<1>1. UNCHANGED <<total, paid, payment>>
  BY DEF vars, written
<1>2. job'[j] = w /\ \A k \in Jobs : k # j => job'[k] = job[k]
  BY DEF LabelInv, StockInv, OverlapTyped
<1>3. Labelled'
  BY <1>1 DEF LabelInv, Labelled, StatusesFor
<1>4. ASSUME NEW k \in Jobs, Live(k)'
      PROVE  LabelFits(job[k])'
  <2>1. PICK v : v = job'[k]
    OBVIOUS
  <2>2. LabelFits(v)
    <3>1. CASE k = j
      BY <1>2, <2>1, <3>1
    <3>2. CASE k # j
      BY <1>2, <1>4, <2>1, <3>2 DEF Live, Idle, LabelInv
    <3> QED
      BY <3>1, <3>2
  <2> QED
    BY <1>1, <2>1, <2>2 DEF LabelFits, StatusesFor
<1> QED
  BY <1>3, <1>4 DEF LabelInv

\* An amount that is snapped to the total is labelled paid.
LEMMA SnappedFits ==
  ASSUME NEW t \in Nat, NEW p \in 0..t, NEW s \in StatusesFor(p, t)
  PROVE  s \in StatusesFor(IF s = "paid" THEN t ELSE p, t)
BY DEF StatusesFor

LEMMA TakesKeepLabels ==
  ASSUME LabelInv, StockInv', NEW j \in Jobs,
         \/ \E d \in Docs : TakeEvent(j, d)
         \/ \E d \in Docs : TakeCancel(j, d)
         \/ \E d \in Docs, amount \in Payments : TakePayment(j, d, amount)
         \/ \E x \in Parties : TakeParty(j, x)
         \/ \E p \in Products, n \in Corrections : TakeCorrection(j, p, n)
  PROVE  LabelInv'
<1>0. StockInv
  BY DEF LabelInv
<1>1. UNCHANGED <<vars, torn>>
  BY DEF TakeEvent, TakeCancel, TakePayment, TakeParty, TakeCorrection, Take
<1>2. ASSUME NEW w, w.pay = Nothing, w.label = Nothing
      PROVE  LabelFits(w)
  BY <1>2 DEF LabelFits, Nothing
<1>3. ASSUME NEW d \in Docs, TakeEvent(j, d) PROVE LabelInv'
  <2>1. PICK w \in Works : /\ job' = [job EXCEPT ![j] = w]
                           /\ w.pay = Nothing /\ w.label = Nothing
    BY <1>0, <1>3, EventWork
  <2> QED
    BY <1>1, <1>2, <2>1, HandlerLabels
<1>4. ASSUME NEW d \in Docs, TakeCancel(j, d) PROVE LabelInv'
  <2>1. PICK w \in Works : /\ job' = [job EXCEPT ![j] = w]
                           /\ w.pay = Nothing /\ w.label = Nothing
    BY <1>0, <1>4, CancelWork
  <2> QED
    BY <1>1, <1>2, <2>1, HandlerLabels
<1>5. ASSUME NEW d \in Docs, NEW amount \in Payments, TakePayment(j, d, amount) PROVE LabelInv'
  <2>1. PICK w \in Works : /\ job' = [job EXCEPT ![j] = w] /\ w.op = "pay" /\ w.about = d
                           /\ DOMAIN w.pay \subseteq {d} /\ DOMAIN w.label \subseteq {d}
    BY <1>0, <1>5, PaymentWork
  <2>2. job'[j] = w
    BY <1>0, <2>1 DEF StockInv, OverlapTyped
  <2>3. PaysAsRead(w)
    BY <1>0, <1>5, <2>2, PaymentAsRead
  <2>4. PICK m \in Payments : \E t \in StatusesFor(PaidAfter(d, m), total[d]) :
           LET n == IF t = "paid" THEN total[d] ELSE PaidAfter(d, m) IN
           /\ w.credit = paid[d] - n
           /\ n = IF d \in DOMAIN w.pay THEN w.pay[d] ELSE paid[d]
           /\ t = IF d \in DOMAIN w.label THEN w.label[d] ELSE payment[d]
    BY <2>1, <2>3 DEF PaysAsRead
  <2>5. PICK t \in StatusesFor(PaidAfter(d, m), total[d]) :
           /\ (IF t = "paid" THEN total[d] ELSE PaidAfter(d, m))
                = IF d \in DOMAIN w.pay THEN w.pay[d] ELSE paid[d]
           /\ t = IF d \in DOMAIN w.label THEN w.label[d] ELSE payment[d]
    BY <2>4
  <2>6. total[d] \in Nat /\ PaidAfter(d, m) \in 0..total[d]
    <3>1. /\ total[d] \in Nat /\ paid[d] \in Nat /\ paid[d] <= total[d] /\ m \in Nat
      BY <1>0, Whole, LedgerAssumption DEF StockInv
    <3> QED
      BY <3>1 DEF PaidAfter, Least
  <2>7. t \in StatusesFor(IF t = "paid" THEN total[d] ELSE PaidAfter(d, m), total[d])
    BY <2>6, SnappedFits
  <2>8. (IF d \in DOMAIN w.label THEN w.label[d] ELSE payment[d])
          \in StatusesFor(IF d \in DOMAIN w.pay THEN w.pay[d] ELSE paid[d], total[d])
    BY <2>5, <2>7
  <2>9. LabelFits(w)
    BY <2>1, <2>8 DEF LabelFits
  <2> QED
    BY <1>1, <2>1, <2>9, HandlerLabels
<1>6. ASSUME NEW x \in Parties, TakeParty(j, x) PROVE LabelInv'
  <2>1. PICK w \in Works : /\ job' = [job EXCEPT ![j] = w]
                           /\ w.pay = Nothing /\ w.label = Nothing
    BY <1>0, <1>6, PartyWork
  <2> QED
    BY <1>1, <1>2, <2>1, HandlerLabels
<1>7. ASSUME NEW p \in Products, NEW n \in Corrections, TakeCorrection(j, p, n) PROVE LabelInv'
  <2>1. PICK w \in Works : /\ job' = [job EXCEPT ![j] = w]
                           /\ w.pay = Nothing /\ w.label = Nothing
    BY <1>0, <1>7, CorrectionWork
  <2> QED
    BY <1>1, <1>2, <2>1, HandlerLabels
<1> QED
  BY <1>3, <1>4, <1>5, <1>6, <1>7

LEMMA FetchesKeepLabels ==
  ASSUME LabelInv, StockInv', NEW j \in Jobs, Fetch(j) \/ FetchDocs(j)
  PROVE  LabelInv'
<1>0. StockInv
  BY DEF LabelInv
<1>1. UNCHANGED <<vars, torn>>
  BY DEF Fetch, FetchDocs
<1>2. ASSUME Fetch(j) PROVE LabelInv'
  <2>1. PICK w \in Works : /\ job' = [job EXCEPT ![j] = w] /\ Live(j)
                           /\ w.pay = job[j].pay /\ w.label = job[j].label
    BY <1>0, <1>2, FetchWork
  <2>2. LabelFits(w)
    BY <2>1 DEF LabelInv, LabelFits
  <2> QED
    BY <1>1, <2>1, <2>2, HandlerLabels
<1>3. ASSUME FetchDocs(j) PROVE LabelInv'
  <2>1. PICK w \in Works : job' = [job EXCEPT ![j] = w] /\ Live(j)
    BY <1>0, <1>3, FetchDocsWork
  <2>2. PICK v \in Works : v = job[j]
    BY <1>0, <2>1 DEF StockInv, OverlapTyped, Live
  <2>3. job'[j] = w
    BY <1>0, <2>1 DEF StockInv, OverlapTyped
  <2>4. /\ DOMAIN w.pay = {d \in DocsOfParty(v.about) : Open(d)}
        /\ \A d \in DOMAIN w.pay : w.pay[d] = total[d]
        /\ DOMAIN w.label = {d \in DOMAIN w.pay : payment[d] # "paid"}
        /\ \A d \in DOMAIN w.label : w.label[d] = "paid"
    BY <1>0, <1>3, <2>2, <2>3, DocsAsRead
  <2>5. ASSUME NEW e \in Docs, e \in DOMAIN w.pay \cup DOMAIN w.label
        PROVE  (IF e \in DOMAIN w.label THEN w.label[e] ELSE payment[e])
                 \in StatusesFor(IF e \in DOMAIN w.pay THEN w.pay[e] ELSE paid[e], total[e])
    <3>1. e \in DOMAIN w.pay /\ w.pay[e] = total[e] /\ Open(e)
      BY <2>4, <2>5
    <3>2. (IF e \in DOMAIN w.label THEN w.label[e] ELSE payment[e]) = "paid"
      BY <2>4, <3>1
    <3>3. total[e] \in Nat /\ paid[e] \in Nat
      BY <1>0, Whole DEF StockInv
    <3>4. "paid" \in StatusesFor(total[e], total[e])
      BY <3>1, <3>3 DEF Open, Due, StatusesFor
    <3> QED
      BY <3>1, <3>2, <3>4
  <2>6. LabelFits(w)
    BY <2>5 DEF LabelFits
  <2> QED
    BY <1>1, <2>1, <2>6, HandlerLabels
<1> QED
  BY <1>2, <1>3

\* A commit writes columns that fit, and spares the rows that another handler
\* has read, or tears them.
LEMMA CommitKeepsLabels ==
  ASSUME LabelInv, StockInv', NEW j \in Jobs, Commit(j)
  PROVE  LabelInv'
<1>0. StockInv
  BY DEF LabelInv
<1>1. PICK w \in Works : w = job[j] /\ Live(j)
  BY <1>0, CommitWork
<1>2. LabelFits(w) /\ torn \subseteq torn' /\ total' = total
  BY <1>0, <1>1, CommitWork, CommitTears DEF LabelInv
<1>3. \A e \in Docs : /\ paid'[e] = IF e \in DOMAIN w.pay THEN w.pay[e] ELSE paid[e]
                      /\ payment'[e] = IF e \in DOMAIN w.label THEN w.label[e] ELSE payment[e]
  BY <1>1 DEF Commit
<1>4. ASSUME NEW d \in Docs, d \notin torn'
      PROVE  payment'[d] \in StatusesFor(paid'[d], total[d])
  <2>1. CASE d \in DOMAIN w.pay \cup DOMAIN w.label
    BY <1>2, <1>3, <1>4, <2>1 DEF LabelFits
  <2>2. CASE d \notin DOMAIN w.pay \cup DOMAIN w.label
    <3>1. payment'[d] = payment[d] /\ paid'[d] = paid[d]
      BY <1>3, <2>2
    <3> QED
      BY <1>2, <1>4, <3>1 DEF LabelInv, Labelled
  <2> QED
    BY <2>1, <2>2
<1>5. Labelled'
  BY <1>2, <1>4 DEF Labelled, StatusesFor
<1>6. ASSUME NEW k \in Jobs, Live(k)'
      PROVE  LabelFits(job[k])'
  <2>1. k # j /\ Live(k) /\ job'[k] = job[k]
    BY <1>0, <1>6, CommitKeepsOthers
  <2>2. PICK v \in Works : v = job[k]
    BY <1>0, <2>1 DEF StockInv, OverlapTyped, Live
  <2>3. LabelFits(v) /\ WellFormed(v) /\ job'[k] = v
    BY <1>0, <2>1, <2>2 DEF LabelInv, StockInv, AllWellFormed
  <2>4. ASSUME NEW e \in Docs, e \notin torn', e \in DOMAIN v.pay \cup DOMAIN v.label
        PROVE  (IF e \in DOMAIN v.label THEN v.label[e] ELSE payment'[e])
                 \in StatusesFor(IF e \in DOMAIN v.pay THEN v.pay[e] ELSE paid'[e], total[e])
    <3>1. e \in v.reads /\ e \notin torn
      BY <1>2, <2>3, <2>4 DEF WellFormed
    <3>2. paid'[e] = paid[e] /\ payment'[e] = payment[e]
      BY <1>0, <2>1, <2>2, <2>4, <3>1, CommitSparesRows
    <3> QED
      BY <2>3, <2>4, <3>1, <3>2 DEF LabelFits
  <2> QED
    BY <1>2, <2>3, <2>4 DEF LabelFits, StatusesFor
<1> QED
  BY <1>5, <1>6 DEF LabelInv

LEMMA LabelStarts == OverlapInit => LabelInv
<1> SUFFICES ASSUME OverlapInit PROVE LabelInv
  OBVIOUS
<1>1. StockInv
  BY OverlapStarts
<1>2. Labelled
  BY DEF OverlapInit, Labelled
<1>3. \A j \in Jobs : ~Live(j)
  BY DEF OverlapInit, Live
<1> QED
  BY <1>1, <1>2, <1>3 DEF LabelInv

LEMMA LabelNext == LabelInv /\ [OverlapNext]_<<vars, overlap>> => LabelInv'
<1> SUFFICES ASSUME LabelInv, [OverlapNext]_<<vars, overlap>> PROVE LabelInv'
  OBVIOUS
<1>0. StockInv'
  BY OverlapStockNext DEF LabelInv
<1>1. ASSUME UNCHANGED <<paid, payment, total, torn, job>> PROVE LabelInv'
  BY <1>0, <1>1 DEF LabelInv, Labelled, LabelFits, StatusesFor, Live, Idle
<1>2. CASE OverlapNext
  <2>1. CASE \E d \in Docs : ReplayOne(d)
    BY <1>1, <2>1 DEF ReplayOne, Replay, overlap, written
  <2>2. CASE \E j \in Jobs, d \in Docs : TakeEvent(j, d)
    BY <1>0, <2>2, TakesKeepLabels
  <2>3. CASE \E j \in Jobs, d \in Docs : TakeCancel(j, d)
    BY <1>0, <2>3, TakesKeepLabels
  <2>4. CASE \E j \in Jobs, d \in Docs, amount \in Payments : TakePayment(j, d, amount)
    BY <1>0, <2>4, TakesKeepLabels
  <2>5. CASE \E j \in Jobs, x \in Parties : TakeParty(j, x)
    BY <1>0, <2>5, TakesKeepLabels
  <2>6. CASE \E j \in Jobs, p \in Products, n \in Corrections : TakeCorrection(j, p, n)
    BY <1>0, <2>6, TakesKeepLabels
  <2>7. CASE \E j \in Jobs : Fetch(j)
    BY <1>0, <2>7, FetchesKeepLabels
  <2>8. CASE \E j \in Jobs : FetchDocs(j)
    BY <1>0, <2>8, FetchesKeepLabels
  <2>9. CASE \E j \in Jobs : Commit(j)
    BY <1>0, <2>9, CommitKeepsLabels
  <2> QED
    BY <1>2, <2>1, <2>2, <2>3, <2>4, <2>5, <2>6, <2>7, <2>8, <2>9 DEF OverlapNext
<1>3. CASE UNCHANGED <<vars, overlap>>
  BY <1>1, <1>3 DEF vars, written, overlap
<1> QED
  BY <1>2, <1>3

\* No more is ever paid on a document than its total, whatever overlaps, and its
\* label agrees with what is paid unless its row was written under a handler that
\* had read it: only such an overlap calls a document paid that is owed for.
THEOREM OverlapPayments == OverlapSpec => []LabelsAgree
<1>1. OverlapInit => LabelInv
  BY LabelStarts
<1>2. LabelInv /\ [OverlapNext]_<<vars, overlap>> => LabelInv'
  BY LabelNext
<1>3. LabelInv => LabelsAgree
  <2> SUFFICES ASSUME LabelInv, NEW d \in Docs
               PROVE  /\ paid[d] \in 0..total[d]
                      /\ d \in torn \/ payment[d] \in StatusesFor(paid[d], total[d])
    BY DEF LabelsAgree
  <2>1. paid[d] \in Nat /\ total[d] \in Nat /\ paid[d] <= total[d]
    BY Whole DEF LabelInv, StockInv
  <2> QED
    BY <2>1 DEF LabelInv, Labelled
<1> QED
  BY <1>1, <1>2, <1>3, PTL DEF OverlapSpec

=============================================================================
