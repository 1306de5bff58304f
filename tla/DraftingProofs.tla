---------------------------- MODULE DraftingProofs ------------------------------
(***************************************************************************)
(* Theorems about Provider, for every number of callers, every threshold   *)
(* and every cooldown, about Drafting, for every catalogue, vocabulary,    *)
(* note, slip and pool of drafts, and about Figures, for every calendar,   *)
(* tax rate, pool of documents and length of a series.                     *)
(***************************************************************************)
EXTENDS Provider, Drafting, Figures, SetLemmas, SequenceTheorems

-----------------------------------------------------------------------------
(* The breaker of the provider.                                            *)

Times == 1..Len(waits)

\* The count is of the failures since the last success, in the order of time.
Counted == /\ consecutiveFailures = Len(waits)
           /\ \A i \in Times : waits[i] <= time
           /\ \A i, j \in Times : i <= j => waits[i] <= waits[j]

\* Once there are enough of them, the last one decides how long to skip.
SkipsFromLast == Len(waits) >= BreakerFailures => skipUntil = waits[Len(waits)] + Cooldown

\* Within a cooldown of a failure that opened the breaker nobody new calls: who
\* failed since, and who may still fail, were out at the time, and its own caller
\* was one of them.
StillOut ==
  \A i \in BreakerFailures..Len(waits) :
    time < waits[i] + Cooldown =>
      (Len(waits) - i) + Cardinality(calling) <= Cardinality(Callers) - 1

BreakerInv == ProviderTypeOK /\ Counted /\ SkipsFromLast /\ StillOut

-----------------------------------------------------------------------------

\* What is known of the callers that are out.
LEMMA Crowd ==
  ASSUME ProviderTypeOK
  PROVE  /\ IsFiniteSet(calling) /\ Cardinality(calling) \in Nat
         /\ Cardinality(Callers) \in Nat
         /\ Cardinality(calling) <= Cardinality(Callers)
         /\ \A c \in calling : /\ Cardinality(calling \ {c}) = Cardinality(calling) - 1
                               /\ Cardinality(calling) >= 1
<1>1. IsFiniteSet(Callers) /\ calling \subseteq Callers  BY ProviderAssumption DEF ProviderTypeOK
<1>2. IsFiniteSet(calling) /\ Cardinality(calling) <= Cardinality(Callers)  BY <1>1, FS_Subset
<1>3. Cardinality(calling) \in Nat /\ Cardinality(Callers) \in Nat  BY <1>1, <1>2, FS_CardinalityType
<1>4. ASSUME NEW c \in calling
      PROVE  Cardinality(calling \ {c}) = Cardinality(calling) - 1 /\ Cardinality(calling) >= 1
  <2>1. Cardinality(calling \ {c}) = Cardinality(calling) - 1  BY <1>2, FS_RemoveElement
  <2>2. Cardinality(calling \ {c}) \in Nat  BY <1>2, FS_RemoveElement, FS_CardinalityType
  <2> QED  BY <1>3, <2>1, <2>2
<1> QED  BY <1>2, <1>3, <1>4

\* A failure is one more time at the end.
LEMMA OneMore ==
  ASSUME ProviderTypeOK, NEW c \in Callers, Break(c)
  PROVE  /\ Len(waits) \in Nat /\ Len(waits') = Len(waits) + 1
         /\ \A i \in Times : waits'[i] = waits[i] /\ waits[i] \in Nat
         /\ waits'[Len(waits) + 1] = time
         /\ waits' \in Seq(Nat)
BY DEF ProviderTypeOK, Break, Times

LEMMA TypeStep ==
  ASSUME ProviderTypeOK, [ProviderNext]_provider
  PROVE  ProviderTypeOK'
<1>1. ASSUME NEW c \in Callers, Call(c)  PROVE ProviderTypeOK'  BY <1>1 DEF ProviderTypeOK, Call
<1>2. ASSUME NEW c \in Callers, Succeed(c)  PROVE ProviderTypeOK'  BY <1>2 DEF ProviderTypeOK, Succeed
<1>3. ASSUME NEW c \in Callers, Break(c)  PROVE ProviderTypeOK'
  <2>1. waits' \in Seq(Nat)  BY <1>3, OneMore
  <2> QED  BY <1>3, <2>1, ProviderAssumption DEF ProviderTypeOK, Break, SkipAfter
<1>4. CASE Wait  BY <1>4 DEF ProviderTypeOK, Wait
<1>5. CASE UNCHANGED provider  BY <1>5 DEF ProviderTypeOK, provider
<1> QED  BY <1>1, <1>2, <1>3, <1>4, <1>5 DEF ProviderNext

\* The breaker and its history keep their types.
THEOREM TypeCorrect == ProviderSpec => []ProviderTypeOK
<1>1. ProviderInit => ProviderTypeOK  BY DEF ProviderInit, ProviderTypeOK
<1> QED  BY <1>1, TypeStep, PTL DEF ProviderSpec

-----------------------------------------------------------------------------

\* A failure changes the number of those that are out and of those that failed by
\* one each.
LEMMA BreakStep ==
  ASSUME BreakerInv, NEW c \in Callers, Break(c)
  PROVE  (Counted /\ SkipsFromLast /\ StillOut)'
<1> DEFINE n == Len(waits)
<1>1. /\ n \in Nat /\ Len(waits') = n + 1
      /\ \A i \in 1..n : waits'[i] = waits[i] /\ waits[i] \in Nat
      /\ waits'[n + 1] = time
  BY OneMore DEF BreakerInv, Times
<1>2. /\ c \in calling /\ calling' = calling \ {c} /\ time' = time
      /\ consecutiveFailures' = consecutiveFailures + 1
      /\ skipUntil' = SkipAfter(consecutiveFailures + 1)
  BY DEF Break
<1>3. time \in Nat /\ BreakerFailures \in Nat \ {0} /\ Cooldown \in Nat
  BY ProviderAssumption DEF BreakerInv, ProviderTypeOK
<1>4. /\ Cardinality(calling) \in Nat /\ Cardinality(Callers) \in Nat
      /\ Cardinality(calling') = Cardinality(calling) - 1
      /\ Cardinality(calling) <= Cardinality(Callers)
  BY <1>2, Crowd DEF BreakerInv
<1>5. Counted'
  BY <1>1, <1>2, <1>3 DEF BreakerInv, Counted, Times
<1>6. SkipsFromLast'
  BY <1>1, <1>2, <1>3 DEF BreakerInv, Counted, SkipsFromLast, SkipAfter
<1>7. StillOut'
  <2>1. SUFFICES ASSUME NEW i \in BreakerFailures..(n + 1), time < waits'[i] + Cooldown
                 PROVE  (n + 1 - i) + (Cardinality(calling) - 1) <= Cardinality(Callers) - 1
    BY <1>1, <1>2, <1>4 DEF StillOut
  <2>2. CASE i = n + 1  BY <2>2, <1>1, <1>3, <1>4
  <2>3. CASE i # n + 1
    <3>1. i \in BreakerFailures..n /\ i \in 1..n  BY <2>1, <2>3, <1>1, <1>3
    <3>2. (n - i) + Cardinality(calling) <= Cardinality(Callers) - 1
      BY <2>1, <3>1, <1>1 DEF BreakerInv, StillOut
    <3> QED  BY <3>1, <3>2, <1>1, <1>3, <1>4
  <2> QED  BY <2>2, <2>3
<1> QED  BY <1>5, <1>6, <1>7

LEMMA BreakerStep ==
  ASSUME BreakerInv, [ProviderNext]_provider
  PROVE  BreakerInv'
<1>0. ProviderTypeOK'  BY TypeStep DEF BreakerInv
<1>1. ASSUME NEW c \in Callers, Call(c)  PROVE BreakerInv'
  <2>1. UNCHANGED <<time, consecutiveFailures, skipUntil, waits>> /\ ~(time < skipUntil)
    BY <1>1 DEF Call, BreakerIsOpen
  <2>2. Counted' /\ SkipsFromLast'
    BY <2>1 DEF BreakerInv, Counted, SkipsFromLast, Times
  <2>3. ASSUME NEW i \in BreakerFailures..Len(waits)  PROVE ~(time < waits[i] + Cooldown)
    <3>1. /\ Len(waits) \in Nat /\ BreakerFailures \in Nat \ {0} /\ Cooldown \in Nat /\ time \in Nat
          /\ \A j \in 1..Len(waits) : waits[j] \in Nat
      BY ProviderAssumption DEF BreakerInv, ProviderTypeOK
    <3>2. i \in Times /\ Len(waits) \in Times /\ Len(waits) >= BreakerFailures  BY <3>1 DEF Times
    <3>3. waits[i] <= waits[Len(waits)] /\ skipUntil = waits[Len(waits)] + Cooldown
      BY <3>1, <3>2 DEF BreakerInv, Counted, SkipsFromLast
    <3> QED  BY <3>1, <3>2, <3>3, <2>1 DEF Times
  <2>4. StillOut'  BY <2>1, <2>3 DEF StillOut
  <2> QED  BY <1>0, <2>2, <2>4 DEF BreakerInv
<1>2. ASSUME NEW c \in Callers, Succeed(c)  PROVE BreakerInv'
  <2>1. waits' = <<>> /\ Len(waits') = 0 /\ consecutiveFailures' = 0  BY <1>2 DEF Succeed
  <2> QED  BY <1>0, <2>1, ProviderAssumption DEF BreakerInv, Counted, SkipsFromLast, StillOut, Times
<1>3. ASSUME NEW c \in Callers, Break(c)  PROVE BreakerInv'
  BY <1>0, <1>3, BreakStep DEF BreakerInv
<1>4. CASE Wait
  <2>1. UNCHANGED <<consecutiveFailures, skipUntil, calling, waits>> /\ time' = time + 1
    BY <1>4 DEF Wait
  <2>2. /\ time \in Nat /\ Len(waits) \in Nat /\ BreakerFailures \in Nat \ {0} /\ Cooldown \in Nat
        /\ \A j \in Times : waits[j] \in Nat
    BY ProviderAssumption DEF BreakerInv, ProviderTypeOK, Times
  <2>3. Counted'  BY <2>1, <2>2 DEF BreakerInv, Counted, Times
  <2>4. SkipsFromLast'  BY <2>1 DEF BreakerInv, SkipsFromLast
  <2>5. StillOut'
    <3>1. SUFFICES ASSUME NEW i \in BreakerFailures..Len(waits), time + 1 < waits[i] + Cooldown
                   PROVE  (Len(waits) - i) + Cardinality(calling) <= Cardinality(Callers) - 1
      BY <2>1 DEF StillOut
    <3>2. i \in Times /\ waits[i] \in Nat  BY <2>2 DEF Times
    <3>3. time < waits[i] + Cooldown  BY <3>1, <3>2, <2>2
    <3> QED  BY <3>3 DEF BreakerInv, StillOut
  <2> QED  BY <1>0, <2>3, <2>4, <2>5 DEF BreakerInv
<1>5. CASE UNCHANGED provider
  BY <1>0, <1>5 DEF provider, BreakerInv, Counted, SkipsFromLast, StillOut, Times
<1> QED  BY <1>1, <1>2, <1>3, <1>4, <1>5 DEF ProviderNext

-----------------------------------------------------------------------------

\* Of k + 1 failures in a row the (BreakerFailures)-th at the latest opened the
\* breaker; within a cooldown of it there is not one caller too many left to fail.
LEMMA BudgetStep ==
  ASSUME BreakerInv, WaitBudget, [ProviderNext]_provider
  PROVE  WaitBudget'
<1>1. ASSUME NEW c \in Callers, Break(c)  PROVE WaitBudget'
  <2> DEFINE n == Len(waits)
             C == Cardinality(Callers)
             k == BreakerFailures + C - 1
  <2>1. /\ n \in Nat /\ Len(waits') = n + 1 /\ DOMAIN waits' = 1..(n + 1) /\ DOMAIN waits = 1..n
        /\ \A i \in 1..n : waits'[i] = waits[i] /\ waits[i] \in Nat
        /\ waits'[n + 1] = time
    BY <1>1, OneMore DEF BreakerInv, Times, ProviderTypeOK
  <2>2. time \in Nat /\ BreakerFailures \in Nat \ {0} /\ Cooldown \in Nat
    BY ProviderAssumption DEF BreakerInv, ProviderTypeOK
  <2>3. C \in Nat /\ Cardinality(calling) \in Nat /\ Cardinality(calling) >= 1 /\ C >= 1
    <3>1. c \in calling  BY <1>1 DEF Break
    <3>2. /\ Cardinality(calling) \in Nat /\ C \in Nat
          /\ Cardinality(calling) <= C /\ Cardinality(calling) >= 1
      BY <3>1, Crowd DEF BreakerInv
    <3> QED  BY <3>2
  <2>4. SUFFICES ASSUME NEW i \in 1..(n + 1), i + k \in 1..(n + 1)
                 PROVE  waits'[i + k] - waits'[i] >= Cooldown
    BY <2>1 DEF WaitBudget
  <2>5. k \in Nat /\ k >= 1  BY <2>2, <2>3
  <2>6. CASE i + k # n + 1
    <3>1. i \in 1..n /\ i + k \in 1..n  BY <2>1, <2>4, <2>5, <2>6
    <3> QED  BY <3>1, <2>1 DEF WaitBudget
  <2>7. CASE i + k = n + 1
    <3> DEFINE j == i + BreakerFailures - 1
    <3>1. j \in BreakerFailures..n /\ j \in 1..n /\ i \in 1..n /\ i <= j /\ n - j = C - 1
      BY <2>1, <2>2, <2>3, <2>4, <2>7
    <3>2. ~(time < waits[j] + Cooldown)
      <4>1. (time < waits[j] + Cooldown) => (n - j) + Cardinality(calling) <= C - 1
        BY <3>1 DEF BreakerInv, StillOut
      <4> QED  BY <4>1, <3>1, <2>3
    <3>3. waits[i] <= waits[j]  BY <3>1 DEF BreakerInv, Counted, Times
    <3>4. waits'[i + k] = time /\ waits'[i] = waits[i] /\ waits[i] \in Nat /\ waits[j] \in Nat
      BY <2>1, <2>7, <3>1
    <3> QED  BY <2>2, <3>2, <3>3, <3>4
  <2> QED  BY <2>6, <2>7
<1>2. ASSUME NEW c \in Callers, Succeed(c)  PROVE WaitBudget'
  BY <1>2 DEF Succeed, WaitBudget
<1>3. CASE UNCHANGED waits  BY <1>3 DEF WaitBudget
<1>4. (\E c \in Callers : Call(c)) \/ Wait \/ UNCHANGED provider => UNCHANGED waits
  BY DEF Call, Wait, provider
<1> QED  BY <1>1, <1>2, <1>3, <1>4 DEF ProviderNext

\* Between two successes no more calls fail within a cooldown than the threshold and
\* the calls that were out at the time, however late those fail and however often
\* the breaker opens again.
THEOREM BoundedWaiting == ProviderSpec => []WaitBudget
<1>1. ProviderInit => BreakerInv /\ WaitBudget
  <2>1. ProviderInit => ProviderTypeOK  BY DEF ProviderInit, ProviderTypeOK
  <2>2. ProviderInit => Counted /\ SkipsFromLast /\ StillOut /\ WaitBudget
    BY ProviderAssumption DEF ProviderInit, Counted, SkipsFromLast, StillOut, Times, WaitBudget
  <2> QED  BY <2>1, <2>2 DEF BreakerInv
<1>2. BreakerInv /\ WaitBudget /\ [ProviderNext]_provider => (BreakerInv /\ WaitBudget)'  BY BreakerStep, BudgetStep
<1> QED  BY <1>1, <1>2, PTL DEF ProviderSpec

-----------------------------------------------------------------------------
(* From a draft to its document.                                           *)

Steps == {"blank", "drafted", "checked", "recorded", "applied"}

\* A known party's type decides the kind of a draft.
Sided(draft, cat) ==
  draft.party # None => (draft.type = "purchase") = (cat.type[draft.party] = "supplier")

\* The fields of a document.
Whole(doc) == doc = [kind |-> doc.kind, party |-> doc.party, lines |-> doc.lines,
                     discount |-> doc.discount, number |-> doc.number, amount |-> doc.amount]

\* What was checked is the draft.
Agrees(doc, draft) ==
  /\ doc.kind = draft.type /\ doc.party = draft.party /\ doc.discount = draft.discount
  /\ IF doc.kind = "expense" THEN doc.amount = draft.amount /\ doc.lines = <<>>
     ELSE doc.lines = Kept(draft.lines)

\* What is known of a draft wherever it is.
OnDesk(e) ==
  /\ e.step \in Steps
  /\ e.step # "blank" => Sided(e.draft, e.cat)
  /\ e.step = "checked" => Whole(e.doc) /\ Agrees(e.doc, e.draft)
  /\ e.step = "recorded" => e = [step |-> e.step, draft |-> e.draft, said |-> e.said, cat |-> e.cat]

Tables == /\ desk = [q \in Drafts |-> desk[q]]
          /\ document = [q \in Drafts |-> document[q]]
          /\ deleting \subseteq Products
          /\ \A q \in Drafts : OnDesk(desk[q])
          /\ \A q \in Recorded : Whole(document[q])

\* DocumentIsDraft and LinesNameGoods, of one document.
Faithful(q) ==
  LET doc == document[q]  draft == desk[q].draft  cat == desk[q].cat  agreed == Kept(draft.lines) IN
  /\ doc.kind = draft.type
  /\ draft.party # None => (doc.kind = "purchase") = (cat.type[draft.party] = "supplier")
  /\ doc.party = draft.party \/ (doc.party = None /\ draft.party \notin DOMAIN people)
  /\ doc.discount = draft.discount
  /\ IF doc.kind = "expense" THEN doc.amount = draft.amount
     ELSE /\ DOMAIN doc.lines = DOMAIN agreed
          /\ \A i \in DOMAIN doc.lines :
               <<doc.lines[i].quantity, doc.lines[i].price>> = <<agreed[i].quantity, agreed[i].price>>

NamesGoods(q) ==
  \A i \in DOMAIN document[q].lines :
    LET p == Kept(desk[q].draft.lines)[i].product IN
    \/ /\ document[q].lines[i].product = p
       /\ p \in DOMAIN goods \cup {None}
    \/ <<q, p>> \in raced /\ document[q].lines[i].product = None /\ p \notin DOMAIN goods

\* A product on a document is being deleted only if the document was recorded after
\* the request looked for one.
Raced(q) == \A p \in Named(document[q]) \cap deleting : <<q, p>> \in raced

DraftInv == Tables /\ \A q \in Recorded : Faithful(q) /\ NamesGoods(q) /\ Raced(q)

-----------------------------------------------------------------------------
(* What the steps change.                                                  *)

\* One draft moves along: the others stay where they are.
LEMMA DeskMoves ==
  ASSUME Tables, NEW q \in Drafts, NEW e, OnDesk(e), desk' = [desk EXCEPT ![q] = e]
  PROVE  /\ desk' = [r \in Drafts |-> desk'[r]]
         /\ \A r \in Drafts : desk'[r] = IF r = q THEN e ELSE desk[r]
         /\ \A r \in Drafts : OnDesk(desk'[r])
         /\ Recorded' = IF e.step \in {"recorded", "applied"} THEN Recorded \cup {q}
                                                              ELSE Recorded \ {q}
<1>1. \A r \in Drafts : desk'[r] = IF r = q THEN e ELSE desk[r]
  BY DEF Tables
<1>2. desk' = [r \in Drafts |-> desk'[r]]
  BY DEF Tables
<1>3. \A r \in Drafts : OnDesk(desk'[r])
  BY <1>1 DEF Tables
<1>4. Recorded' = IF e.step \in {"recorded", "applied"} THEN Recorded \cup {q} ELSE Recorded \ {q}
  BY <1>1 DEF Recorded
<1> QED
  BY <1>1, <1>2, <1>3, <1>4

\* A draft is sided, whichever way it was made.
LEMMA TextSided ==
  ASSUME NEW cat, NEW parsed, NEW draft \in GroundText(cat, parsed)
  PROVE  Sided(draft, cat)
<1>1. CASE Said(parsed.eventType) = "expense"
  BY <1>1 DEF GroundText, Sided
<1>2. CASE Said(parsed.eventType) # "expense"
  <2> DEFINE kind(x) == Direction(cat.type, x, Said(parsed.eventType))
             made(x, c) == [type |-> kind(x), party |-> x, amount |-> parsed.amount,
                            discount |-> Off(kind(x), parsed.discount),
                            lines |-> IF parsed.all /\ kind(x) = "sale" /\ InStock(cat) # {}
                                      THEN AllStock(cat, kind(x))
                                      ELSE NeverEmpty([i \in DOMAIN c |->
                                             TextLine(cat, c[i], parsed.lineItems[i], kind(x), parsed)])]
  <2>1. GroundText(cat, parsed) =
          UNION {{made(x, c) : c \in Matchings(cat, parsed.lineItems)} : x \in Best(cat.party, parsed.party)}
    BY <1>2, Zenon DEF GroundText
  <2>2. PICK x \in Best(cat.party, parsed.party) :
          draft \in {made(x, c) : c \in Matchings(cat, parsed.lineItems)}
    <3> HIDE DEF made
    <3> QED
      BY <2>1
  <2>3. PICK c \in Matchings(cat, parsed.lineItems) : draft = made(x, c)
    <3> HIDE DEF made
    <3> QED
      BY <2>2
  <2>4. draft.party = x /\ draft.type = kind(x)
    BY <2>3
  <2> QED
    BY <2>4 DEF Direction, Sided
<1> QED
  BY <1>1, <1>2

\* So is one of a slip.
LEMMA SlipSided ==
  ASSUME NEW cat, NEW slip, NEW draft \in GroundSlip(cat, slip)
  PROVE  Sided(draft, cat)
<1> DEFINE phoned == ByPhone(cat.phone, slip.phone)
           parties == IF phoned # {None} THEN phoned ELSE Best(cat.party, slip.party)
           kind(x) == Direction(cat.type, x, slip.docType)
           made(x, c) == [type |-> kind(x), party |-> x, amount |-> slip.total,
                          discount |-> Off(kind(x), slip.discount),
                          lines |-> NeverEmpty([i \in DOMAIN c |->
                                      SlipLine(cat, c[i], slip.lineItems[i], kind(x))])]
<1>1. GroundSlip(cat, slip) =
        UNION {{made(x, c) : c \in Matchings(cat, slip.lineItems)} : x \in parties}
  BY Zenon DEF GroundSlip
<1>2. PICK x \in parties : draft \in {made(x, c) : c \in Matchings(cat, slip.lineItems)}
  <2> HIDE DEF made, parties
  <2> QED
    BY <1>1
<1>3. PICK c \in Matchings(cat, slip.lineItems) : draft = made(x, c)
  <2> HIDE DEF made, parties
  <2> QED
    BY <1>2
<1>4. draft.party = x /\ draft.type = kind(x)
  BY <1>3
<1> QED
  BY <1>4 DEF Direction, Sided

\* What a document owes to its draft, it owes it still after a step that leaves the
\* two and the goods alone.
LEMMA Stays ==
  ASSUME NEW q, Faithful(q), NamesGoods(q), Raced(q),
         document'[q] = document[q], desk'[q].draft = desk[q].draft, desk'[q].cat = desk[q].cat,
         DOMAIN people' \subseteq DOMAIN people, DOMAIN goods' = DOMAIN goods,
         raced \subseteq raced', Named(document[q]) \cap deleting' \subseteq deleting
  PROVE  Faithful(q)' /\ NamesGoods(q)' /\ Raced(q)'
<1>1. Faithful(q)'
  BY DEF Faithful
<1>2. NamesGoods(q)'
  BY DEF NamesGoods
<1>3. Raced(q)'
  BY DEF Raced, Named
<1> QED
  BY <1>1, <1>2, <1>3

\* A new draft is no document yet.
LEMMA DraftStep ==
  ASSUME DraftInv, NEW q \in Drafts, NEW draft, NEW said, Drafted(q, draft, said),
         desk[q] = Untouched, Sided(draft, Catalogue)
  PROVE  DraftInv'
<1> DEFINE e == [step |-> "drafted", draft |-> draft, said |-> said,
                 cat |-> [stock |-> Catalogue.stock, type |-> Catalogue.type]]
<1>1. desk' = [desk EXCEPT ![q] = e] /\ UNCHANGED <<goods, people, document, deleting, raced>>
  BY DEF Drafted
<1>2. OnDesk(e)
  BY DEF OnDesk, Steps, Sided
<1>3. desk[q].step = "blank"
  BY DEF Untouched
<1>4. e.step = "drafted"
  OBVIOUS
<1> HIDE DEF e
<1>5. /\ desk' = [r \in Drafts |-> desk'[r]]
      /\ \A r \in Drafts : desk'[r] = IF r = q THEN e ELSE desk[r]
      /\ \A r \in Drafts : OnDesk(desk'[r])
      /\ Recorded' = Recorded \ {q}
  BY <1>1, <1>2, <1>4, DeskMoves DEF DraftInv
<1>6. Recorded' = Recorded /\ q \notin Recorded
  BY <1>3, <1>5 DEF Recorded
<1>7. Tables'
  BY <1>1, <1>5, <1>6 DEF DraftInv, Tables
<1>8. ASSUME NEW r \in Recorded PROVE Faithful(r)' /\ NamesGoods(r)' /\ Raced(r)'
  <2>1. desk'[r] = desk[r]
    BY <1>5, <1>6 DEF Recorded
  <2> QED
    BY <1>1, <2>1, Stays DEF DraftInv
<1> QED
  BY <1>6, <1>7, <1>8 DEF DraftInv

\* What the checks of a confirmation see is what the draft says.
LEMMA ConfirmStep ==
  ASSUME DraftInv, NEW q \in Drafts, NEW form \in BOOLEAN, Confirm(q, form)
  PROVE  DraftInv'
<1> DEFINE draft == desk[q].draft
           kind == draft.type
           doc == [kind |-> kind, party |-> draft.party,
                   lines |-> IF kind = "expense" THEN <<>> ELSE Kept(draft.lines),
                   discount |-> draft.discount, number |-> Numbered(kind),
                   amount |-> IF kind = "expense" THEN draft.amount ELSE None]
           e == [step |-> "checked", draft |-> draft, said |-> desk[q].said, cat |-> desk[q].cat,
                 doc |-> doc]
<1>1. /\ desk[q].step = "drafted" /\ desk' = [desk EXCEPT ![q] = e]
      /\ UNCHANGED <<goods, people, document, deleting, raced>>
  BY DEF Confirm, KindOf, DraftInv, Tables
<1>2. OnDesk(desk[q])
  BY DEF DraftInv, Tables
<1>3. Whole(doc) /\ Agrees(doc, draft)
  BY DEF Whole, Agrees
<1>4. e.step = "checked" /\ e.draft = draft /\ e.cat = desk[q].cat /\ e.doc = doc
  OBVIOUS
<1> HIDE DEF e, doc
<1>5. OnDesk(e)
  BY <1>1, <1>2, <1>3, <1>4 DEF OnDesk, Steps
<1>6. /\ desk' = [r \in Drafts |-> desk'[r]]
      /\ \A r \in Drafts : desk'[r] = IF r = q THEN e ELSE desk[r]
      /\ \A r \in Drafts : OnDesk(desk'[r])
      /\ Recorded' = Recorded \ {q}
  BY <1>1, <1>4, <1>5, DeskMoves DEF DraftInv
<1>7. Recorded' = Recorded /\ q \notin Recorded
  BY <1>1, <1>6 DEF Recorded
<1>8. Tables'
  BY <1>1, <1>6, <1>7 DEF DraftInv, Tables
<1>9. ASSUME NEW r \in Recorded PROVE Faithful(r)' /\ NamesGoods(r)' /\ Raced(r)'
  <2>1. desk'[r] = desk[r]
    BY <1>6, <1>7 DEF Recorded
  <2> QED
    BY <1>1, <2>1, Stays DEF DraftInv
<1> QED
  BY <1>7, <1>8, <1>9 DEF DraftInv

\* A document that is recorded names only what is still there, and what is being
\* deleted is noted.
LEMMA RecordStep ==
  ASSUME DraftInv, NEW q \in Drafts, Record(q)
  PROVE  DraftInv'
<1> DEFINE doc == desk[q].doc
           draft == desk[q].draft
           moved(s) == [step |-> s, draft |-> draft, said |-> desk[q].said, cat |-> desk[q].cat]
<1>1. /\ desk[q].step = "checked"
      /\ UNCHANGED <<goods, people, deleting>>
  BY DEF Record
<1>2. Whole(doc) /\ Agrees(doc, draft) /\ Sided(draft, desk[q].cat)
  BY <1>1 DEF DraftInv, Tables, OnDesk
<1>3. q \notin Recorded
  BY <1>1 DEF Recorded
<1>4. \A s \in {"drafted", "recorded"} : OnDesk(moved(s)) /\ moved(s).step = s
                                         /\ moved(s).draft = draft /\ moved(s).cat = desk[q].cat
  BY <1>2 DEF OnDesk, Steps
<1>5. CASE ~(Named(doc) \subseteq DOMAIN goods /\ doc.party \in DOMAIN people \cup {None})
  <2>1. desk' = [desk EXCEPT ![q] = moved("drafted")] /\ UNCHANGED <<document, raced>>
    BY <1>5 DEF Record, DraftInv, Tables
  <2> HIDE DEF moved
  <2>2. /\ desk' = [r \in Drafts |-> desk'[r]]
        /\ \A r \in Drafts : desk'[r] = IF r = q THEN moved("drafted") ELSE desk[r]
        /\ \A r \in Drafts : OnDesk(desk'[r])
        /\ Recorded' = Recorded \ {q}
    BY <1>4, <2>1, DeskMoves DEF DraftInv
  <2>3. Tables' /\ Recorded' = Recorded
    BY <1>1, <1>3, <2>1, <2>2 DEF DraftInv, Tables
  <2>4. ASSUME NEW r \in Recorded PROVE Faithful(r)' /\ NamesGoods(r)' /\ Raced(r)'
    <3>1. desk'[r] = desk[r]
      BY <1>3, <2>2 DEF Recorded
    <3> QED
      BY <1>1, <2>1, <3>1, Stays DEF DraftInv
  <2> QED
    BY <2>3, <2>4 DEF DraftInv
<1>6. CASE Named(doc) \subseteq DOMAIN goods /\ doc.party \in DOMAIN people \cup {None}
  <2>1. /\ desk' = [desk EXCEPT ![q] = moved("recorded")]
        /\ document' = [document EXCEPT ![q] = doc]
        /\ raced' = raced \cup {<<q, p>> : p \in Named(doc) \cap deleting}
    BY <1>6 DEF Record, DraftInv, Tables
  <2> HIDE DEF moved
  <2>2. /\ desk' = [r \in Drafts |-> desk'[r]]
        /\ \A r \in Drafts : desk'[r] = IF r = q THEN moved("recorded") ELSE desk[r]
        /\ \A r \in Drafts : OnDesk(desk'[r])
        /\ Recorded' = Recorded \cup {q}
    BY <1>4, <2>1, DeskMoves DEF DraftInv
  <2>3. \A r \in Drafts : document'[r] = IF r = q THEN doc ELSE document[r]
    BY <2>1 DEF DraftInv, Tables
  <2>4. document' = [r \in Drafts |-> document'[r]]
    BY <2>1 DEF DraftInv, Tables
  <2>5. Recorded \subseteq Drafts
    BY DEF Recorded
  <2>6. Tables'
    BY <1>1, <1>2, <1>3, <2>2, <2>3, <2>4, <2>5 DEF DraftInv, Tables
  <2>7. ASSUME NEW r \in Recorded PROVE Faithful(r)' /\ NamesGoods(r)' /\ Raced(r)'
    <3>1. desk'[r] = desk[r] /\ document'[r] = document[r]
      BY <1>3, <2>2, <2>3, <2>5
    <3> QED
      BY <1>1, <2>1, <3>1, Stays DEF DraftInv
  <2>8. /\ desk'[q].draft = draft /\ desk'[q].cat = desk[q].cat /\ document'[q] = doc
        /\ doc.kind = draft.type /\ doc.party = draft.party /\ doc.discount = draft.discount
        /\ IF doc.kind = "expense" THEN doc.amount = draft.amount /\ doc.lines = <<>>
           ELSE doc.lines = Kept(draft.lines)
    BY <1>2, <1>4, <2>2, <2>3 DEF Agrees
  <2> HIDE DEF doc, draft
  <2>9. Faithful(q)'
    BY <1>2, <2>8 DEF Faithful, Sided
  <2>10. NamesGoods(q)'
    <3>1. CASE doc.kind = "expense"
      BY <2>8, <3>1 DEF NamesGoods
    <3>2. CASE doc.kind # "expense"
      <4>1. \A i \in DOMAIN doc.lines : doc.lines[i].product \in DOMAIN goods \cup {None}
        BY <1>6 DEF Named
      <4> QED
        BY <1>1, <2>8, <3>2, <4>1 DEF NamesGoods
    <3> QED
      BY <3>1, <3>2
  <2>11. Raced(q)'
    BY <1>1, <2>1, <2>8 DEF Raced, Named
  <2> QED
    BY <2>2, <2>6, <2>7, <2>9, <2>10, <2>11 DEF DraftInv
<1> QED
  BY <1>5, <1>6

\* Moving the goods touches neither the document nor the rows of the catalogue.
LEMMA ApplyStep ==
  ASSUME DraftInv, NEW q \in Drafts, ApplyInventory(q)
  PROVE  DraftInv'
<1> DEFINE e == [step |-> "applied", draft |-> desk[q].draft, said |-> desk[q].said,
                 cat |-> desk[q].cat]
<1>1. /\ desk[q].step = "recorded" /\ DOMAIN goods' = DOMAIN goods
      /\ UNCHANGED <<people, document, deleting, raced>>
      /\ desk' = [desk EXCEPT ![q].step = "applied"]
  BY DEF ApplyInventory
<1>2. /\ desk[q] = [step |-> "recorded", draft |-> desk[q].draft, said |-> desk[q].said,
                    cat |-> desk[q].cat]
      /\ Sided(desk[q].draft, desk[q].cat)
  BY <1>1 DEF DraftInv, Tables, OnDesk, Steps
<1>3. desk' = [desk EXCEPT ![q] = e]
  <2>1. [desk[q] EXCEPT !.step = "applied"] = e
    BY <1>2
  <2> QED
    BY <1>1, <2>1
<1>4. e.step = "applied" /\ e.draft = desk[q].draft /\ e.cat = desk[q].cat
  OBVIOUS
<1> HIDE DEF e
<1>5. OnDesk(e)
  BY <1>2, <1>4 DEF OnDesk, Steps
<1>6. /\ desk' = [r \in Drafts |-> desk'[r]]
      /\ \A r \in Drafts : desk'[r] = IF r = q THEN e ELSE desk[r]
      /\ \A r \in Drafts : OnDesk(desk'[r])
      /\ Recorded' = Recorded \cup {q}
  BY <1>3, <1>4, <1>5, DeskMoves DEF DraftInv
<1>7. Recorded' = Recorded
  BY <1>1, <1>6 DEF Recorded
<1>8. Tables'
  BY <1>1, <1>6, <1>7 DEF DraftInv, Tables
<1>9. ASSUME NEW r \in Recorded PROVE Faithful(r)' /\ NamesGoods(r)' /\ Raced(r)'
  <2>1. desk'[r].draft = desk[r].draft /\ desk'[r].cat = desk[r].cat
    BY <1>4, <1>6 DEF Recorded
  <2> QED
    BY <1>1, <2>1, Stays DEF DraftInv
<1> QED
  BY <1>7, <1>8, <1>9 DEF DraftInv

\* The catalogue changes and no document with it.
LEMMA CatalogueStep ==
  ASSUME DraftInv,
         UNCHANGED <<desk, document, raced>>, deleting' \subseteq Products,
         DOMAIN goods' = DOMAIN goods, DOMAIN people' = DOMAIN people,
         \A p \in deleting' \ deleting : ~OnDocument(p)
  PROVE  DraftInv'
<1>1. Recorded' = Recorded
  BY DEF Recorded
<1>2. Tables'
  BY <1>1 DEF DraftInv, Tables
<1>3. ASSUME NEW q \in Recorded PROVE Faithful(q)' /\ NamesGoods(q)' /\ Raced(q)'
  <2>1. Named(document[q]) \cap deleting' \subseteq deleting
    BY DEF OnDocument
  <2> QED
    BY <2>1, Stays DEF DraftInv
<1> QED
  BY <1>1, <1>2, <1>3 DEF DraftInv

\* A document whose party is deleted names none.
LEMMA DeletePartyStep ==
  ASSUME DraftInv, NEW x \in Parties, DeleteParty(x)
  PROVE  DraftInv'
<1>1. /\ UNCHANGED <<goods, desk, deleting, raced>> /\ DOMAIN people' = DOMAIN people \ {x}
      /\ document' = [q \in Drafts |-> IF q \in Recorded /\ document[q].party = x
                                       THEN [document[q] EXCEPT !.party = None] ELSE document[q]]
  BY DEF DeleteParty, Without
<1>2. Recorded' = Recorded /\ Recorded \subseteq Drafts
  BY <1>1 DEF Recorded
<1>3. \A q \in Recorded : \/ document'[q] = document[q]
                          \/ /\ document[q].party = x
                             /\ document'[q] = [document[q] EXCEPT !.party = None]
  BY <1>1, <1>2
<1>4. ASSUME NEW q \in Recorded, document[q].party = x,
             document'[q] = [document[q] EXCEPT !.party = None]
      PROVE  /\ Whole(document'[q]) /\ document'[q].party = None
             /\ document'[q].kind = document[q].kind /\ document'[q].lines = document[q].lines
             /\ document'[q].discount = document[q].discount
             /\ document'[q].amount = document[q].amount
  <2> DEFINE d == document[q]
  <2>1. d = [kind |-> d.kind, party |-> d.party, lines |-> d.lines,
             discount |-> d.discount, number |-> d.number, amount |-> d.amount]
    BY DEF DraftInv, Tables, Whole
  <2>2. document'[q] = [kind |-> d.kind, party |-> None, lines |-> d.lines,
                        discount |-> d.discount, number |-> d.number, amount |-> d.amount]
    BY <1>4, <2>1
  <2> QED
    BY <2>2 DEF Whole
<1>5. Tables'
  <2>1. \A q \in Recorded : Whole(document'[q])
    BY <1>3, <1>4 DEF DraftInv, Tables
  <2> QED
    BY <1>1, <1>2, <2>1 DEF DraftInv, Tables
<1>6. ASSUME NEW q \in Recorded PROVE Faithful(q)' /\ NamesGoods(q)' /\ Raced(q)'
  <2>1. CASE document'[q] = document[q]
    BY <1>1, <2>1, Stays DEF DraftInv
  <2>2. CASE document[q].party = x /\ document'[q] = [document[q] EXCEPT !.party = None]
    <3>1. Faithful(q) /\ NamesGoods(q) /\ Raced(q)
      BY DEF DraftInv
    <3>2. Faithful(q)'
      <4>1. document[q].party = desk[q].draft.party \/ desk[q].draft.party \notin DOMAIN people
        BY <3>1 DEF Faithful
      <4>2. desk[q].draft.party \notin DOMAIN people'
        BY <1>1, <2>2, <4>1
      <4> QED
        BY <1>1, <1>4, <2>2, <3>1, <4>2 DEF Faithful
    <3>3. NamesGoods(q)'
      BY <1>1, <1>4, <2>2, <3>1 DEF NamesGoods
    <3>4. Raced(q)'
      BY <1>1, <1>4, <2>2, <3>1 DEF Raced, Named
    <3> QED
      BY <3>2, <3>3, <3>4
  <2> QED
    BY <1>3, <2>1, <2>2
<1> QED
  BY <1>2, <1>5, <1>6 DEF DraftInv

\* A line whose product is gone keeps its quantity and its price.
LEMMA StruckLine ==
  ASSUME NEW l
  PROVE  Struck(l).product = None /\ Struck(l).quantity = l.quantity /\ Struck(l).price = l.price
BY DEF Struck

\* The lines of a document that name a product that is deleted name none; and the
\* document was recorded while the deletion was on its way.
LEMMA DeleteProductStep ==
  ASSUME DraftInv, NEW p \in Products, DeleteProduct(p)
  PROVE  DraftInv'
<1> DEFINE struck(ls) == [i \in DOMAIN ls |-> IF ls[i].product = p THEN Struck(ls[i]) ELSE ls[i]]
<1>1. /\ p \in deleting /\ DOMAIN goods' = DOMAIN goods \ {p} /\ deleting' = deleting \ {p}
      /\ UNCHANGED <<people, desk, raced>>
      /\ document' = [q \in Drafts |->
           IF q \notin Recorded THEN document[q]
           ELSE [document[q] EXCEPT !.lines = struck(@)]]
  BY DEF DeleteProduct, Without
<1>2. Recorded' = Recorded /\ Recorded \subseteq Drafts
  BY <1>1 DEF Recorded
<1>3. ASSUME NEW q \in Recorded
      PROVE  /\ Whole(document'[q])
             /\ document'[q].lines = struck(document[q].lines)
             /\ document'[q].kind = document[q].kind /\ document'[q].party = document[q].party
             /\ document'[q].discount = document[q].discount
             /\ document'[q].amount = document[q].amount
  <2> DEFINE d == document[q]
  <2> HIDE DEF struck
  <2>1. d = [kind |-> d.kind, party |-> d.party, lines |-> d.lines,
             discount |-> d.discount, number |-> d.number, amount |-> d.amount]
    BY DEF DraftInv, Tables, Whole
  <2>2. document'[q] = [d EXCEPT !.lines = struck(d.lines)]
    BY <1>1, <1>2
  <2>3. document'[q] = [kind |-> d.kind, party |-> d.party, lines |-> struck(d.lines),
                        discount |-> d.discount, number |-> d.number, amount |-> d.amount]
    BY <2>1, <2>2
  <2> QED
    BY <2>3 DEF Whole
<1>4. Tables'
  <2>1. document' = [q \in Drafts |-> document'[q]]
    BY <1>1
  <2> QED
    BY <1>1, <1>2, <1>3, <2>1 DEF DraftInv, Tables
<1>5. ASSUME NEW q \in Recorded PROVE Faithful(q)' /\ NamesGoods(q)' /\ Raced(q)'
  <2>1. Faithful(q) /\ NamesGoods(q) /\ Raced(q)
    BY DEF DraftInv
  <2> DEFINE ls == document[q].lines
             new == document'[q].lines
             agreed == Kept(desk[q].draft.lines)
  <2>2. /\ DOMAIN new = DOMAIN ls
        /\ \A i \in DOMAIN ls : new[i] = IF ls[i].product = p THEN Struck(ls[i]) ELSE ls[i]
    BY <1>3
  <2> HIDE DEF ls, new, agreed
  <2>3. \A i \in DOMAIN ls : new[i].quantity = ls[i].quantity /\ new[i].price = ls[i].price
    BY <2>2, StruckLine
  <2>4. /\ \A i \in DOMAIN ls : ls[i].product = p => new[i].product = None
        /\ \A i \in DOMAIN ls : ls[i].product # p => new[i].product = ls[i].product
    BY <2>2, StruckLine
  <2>5. /\ IF document[q].kind = "expense" THEN document[q].amount = desk[q].draft.amount
           ELSE /\ DOMAIN ls = DOMAIN agreed
                /\ \A i \in DOMAIN ls :
                     <<ls[i].quantity, ls[i].price>> = <<agreed[i].quantity, agreed[i].price>>
    BY <2>1 DEF Faithful, ls, agreed
  <2>6. IF document[q].kind = "expense" THEN document[q].amount = desk[q].draft.amount
        ELSE /\ DOMAIN new = DOMAIN agreed
             /\ \A i \in DOMAIN new :
                  <<new[i].quantity, new[i].price>> = <<agreed[i].quantity, agreed[i].price>>
    BY <2>2, <2>3, <2>5
  <2>7. Faithful(q)'
    <3>1. /\ document[q].kind = desk[q].draft.type
          /\ desk[q].draft.party # None =>
               (document[q].kind = "purchase") = (desk[q].cat.type[desk[q].draft.party] = "supplier")
          /\ \/ document[q].party = desk[q].draft.party
             \/ document[q].party = None /\ desk[q].draft.party \notin DOMAIN people
          /\ document[q].discount = desk[q].draft.discount
      BY <2>1 DEF Faithful
    <3>2. /\ desk'[q] = desk[q] /\ people' = people
          /\ document'[q].kind = document[q].kind /\ document'[q].party = document[q].party
          /\ document'[q].discount = document[q].discount
          /\ document'[q].amount = document[q].amount
      BY <1>1, <1>3
    <3>3. Faithful(q)' =
            (/\ document'[q].kind = desk'[q].draft.type
             /\ desk'[q].draft.party # None =>
                  (document'[q].kind = "purchase") = (desk'[q].cat.type[desk'[q].draft.party] = "supplier")
             /\ \/ document'[q].party = desk'[q].draft.party
                \/ document'[q].party = None /\ desk'[q].draft.party \notin DOMAIN people'
             /\ document'[q].discount = desk'[q].draft.discount
             /\ IF document'[q].kind = "expense" THEN document'[q].amount = desk'[q].draft.amount
                ELSE /\ DOMAIN new = DOMAIN Kept(desk'[q].draft.lines)
                     /\ \A i \in DOMAIN new :
                          <<new[i].quantity, new[i].price>> =
                            <<Kept(desk'[q].draft.lines)[i].quantity, Kept(desk'[q].draft.lines)[i].price>>)
      BY DEF Faithful, new
    <3>4. Kept(desk'[q].draft.lines) = agreed
      BY <3>2 DEF agreed
    <3> QED
      BY <2>6, <3>1, <3>2, <3>3, <3>4
  <2>8. None # p
    BY DraftingAssumption
  <2>9. ASSUME NEW i \in DOMAIN new
        PROVE  \/ new[i].product = agreed[i].product /\ agreed[i].product \in DOMAIN goods' \cup {None}
               \/ /\ <<q, agreed[i].product>> \in raced
                  /\ new[i].product = None /\ agreed[i].product \notin DOMAIN goods'
    <3>1. i \in DOMAIN ls
      BY <2>2
    <3>2. \/ ls[i].product = agreed[i].product /\ agreed[i].product \in DOMAIN goods \cup {None}
          \/ <<q, agreed[i].product>> \in raced /\ ls[i].product = None
             /\ agreed[i].product \notin DOMAIN goods
      BY <2>1, <3>1 DEF NamesGoods, ls, agreed
    <3>3. CASE ls[i].product = p
      <4>1. p \in Named(document[q]) \cap deleting
        BY <1>1, <2>8, <3>1, <3>3 DEF Named, ls
      <4>2. <<q, p>> \in raced
        BY <2>1, <4>1 DEF Raced
      <4>3. agreed[i].product = p
        BY <2>8, <3>2, <3>3
      <4> QED
        BY <1>1, <2>4, <3>1, <3>3, <4>2, <4>3
    <3>4. CASE ls[i].product # p
      <4>1. new[i].product = ls[i].product
        BY <2>4, <3>1, <3>4
      <4> QED
        BY <1>1, <3>2, <3>4, <4>1
    <3> QED
      BY <3>3, <3>4
  <2>10. NamesGoods(q)'
    BY <1>1, <2>9 DEF NamesGoods, new, agreed
  <2>11. Raced(q)'
    <3>1. \A i \in DOMAIN new : i \in DOMAIN ls /\ new[i].product \in {None, ls[i].product}
      BY <2>2, <2>4
    <3>2. Named(document'[q]) \subseteq Named(document[q])
      BY <3>1 DEF Named, ls, new
    <3> QED
      BY <1>1, <2>1, <3>2 DEF Raced
  <2> QED
    BY <2>7, <2>10, <2>11
<1> QED
  BY <1>2, <1>4, <1>5 DEF DraftInv

LEMMA DraftInvInit ==
  ASSUME DraftingInit
  PROVE  DraftInv
<1>1. \A q \in Drafts : desk[q] = Untouched /\ desk[q].step = "blank"
  BY DEF DraftingInit, Untouched
<1>2. Recorded = {}
  BY <1>1 DEF Recorded
<1> QED
  BY <1>1, <1>2 DEF DraftingInit, DraftInv, Tables, OnDesk, Steps

LEMMA DraftInvNext ==
  ASSUME DraftInv, [DraftingNext]_drafting
  PROVE  DraftInv'
<1>1. ASSUME NEW q \in Blanks, NEW o \in Orders, DraftFromReply(q, o) PROVE DraftInv'
  BY <1>1, DraftStep, TextSided DEF Blanks, DraftFromReply
<1>2. ASSUME NEW q \in Blanks, NEW o \in Orders, NEW pen \in Pens, DraftFromText(q, o, pen)
      PROVE DraftInv'
  BY <1>2, DraftStep, TextSided DEF Blanks, DraftFromText
<1>3. ASSUME NEW q \in Blanks, NEW s \in Slips, DraftFromImage(q, s) PROVE DraftInv'
  BY <1>3, DraftStep, SlipSided DEF Blanks, DraftFromImage
<1>4. deleting \subseteq Products
  BY DEF DraftInv, Tables
<1>5. ASSUME NEW p \in Products, NEW price \in Prices, UpdateProduct(p, price) PROVE DraftInv'
  BY <1>4, <1>5, CatalogueStep DEF UpdateProduct
<1>6. ASSUME NEW x \in Parties, NEW type \in {"customer", "supplier"}, UpdateParty(x, type)
      PROVE DraftInv'
  BY <1>4, <1>6, CatalogueStep DEF UpdateParty
<1>7. ASSUME NEW p \in Products, CheckDelete(p) PROVE DraftInv'
  BY <1>4, <1>7, CatalogueStep DEF CheckDelete
<1>8. ASSUME UNCHANGED drafting PROVE DraftInv'
  BY <1>4, <1>8, CatalogueStep DEF drafting
<1> QED
  BY <1>1, <1>2, <1>3, <1>5, <1>6, <1>7, <1>8, ConfirmStep, RecordStep, ApplyStep,
     DeletePartyStep, DeleteProductStep DEF DraftingNext

-----------------------------------------------------------------------------
(* Numbers.                                                                *)

Checked == {q \in Drafts : desk[q].step = "checked"}

\* A document, or what is about to be one.
Paper(q) == IF q \in Recorded THEN document[q] ELSE desk[q].doc

OfKind(kind) == {q \in Recorded : document[q].kind = kind}

\* What is recorded is behind the count, and what is checked is not ahead of it; and
\* whoever have a number together were confirmed together.
NumberInv ==
  /\ \A q \in Recorded : Paper(q).number \in Nat /\ Paper(q).number < Numbered(Paper(q).kind)
  /\ \A q \in Checked  : Paper(q).number \in Nat /\ Paper(q).number <= Numbered(Paper(q).kind)
  /\ \A q, r \in Recorded \cup Checked :
       q # r /\ Paper(q).kind = Paper(r).kind /\ Paper(q).number = Paper(r).number
       => {q, r} \in overlapped

\* The count of a kind is finite and starts at one.
LEMMA Counts ==
  ASSUME NEW kind
  PROVE  /\ IsFiniteSet(OfKind(kind)) /\ Numbered(kind) = 1 + Cardinality(OfKind(kind))
         /\ Numbered(kind) \in Nat /\ Numbered(kind) >= 1
<1>1. OfKind(kind) \subseteq Drafts
  BY DEF OfKind, Recorded
<1>2. IsFiniteSet(OfKind(kind)) /\ Cardinality(OfKind(kind)) \in Nat
  BY <1>1, DraftingAssumption, FS_Subset, FS_CardinalityType
<1> QED
  BY <1>2 DEF Numbered, OfKind

\* Nothing is recorded and still under way.
LEMMA Disjoint == Checked \cap Recorded = {}
BY DEF Checked, Recorded

\* Documents that keep their kinds and numbers.
LEMMA NumbersStay ==
  ASSUME NumberInv, Recorded' = Recorded, Checked' \subseteq Checked,
         \A q \in Recorded : document'[q].kind = document[q].kind /\ document'[q].number = document[q].number,
         \A q \in Checked' : desk'[q].doc = desk[q].doc,
         overlapped' = overlapped
  PROVE  NumberInv'
<1>1. \A kind : OfKind(kind)' = OfKind(kind)
  BY DEF OfKind
<1>2. \A kind : Numbered(kind)' = Numbered(kind)
  BY <1>1 DEF Numbered, OfKind
<1>3. \A q \in Recorded \cup Checked' :
        Paper(q)'.kind = Paper(q).kind /\ Paper(q)'.number = Paper(q).number
  BY DEF Paper
<1>4. \A q \in Recorded' : Paper(q)'.number \in Nat /\ Paper(q)'.number < Numbered(Paper(q).kind)'
  BY <1>2, <1>3 DEF NumberInv
<1>5. \A q \in Checked' : Paper(q)'.number \in Nat /\ Paper(q)'.number <= Numbered(Paper(q).kind)'
  BY <1>2, <1>3 DEF NumberInv
<1>6. \A q, r \in Recorded' \cup Checked' :
        q # r /\ Paper(q)'.kind = Paper(r)'.kind /\ Paper(q)'.number = Paper(r)'.number
        => {q, r} \in overlapped'
  BY <1>3 DEF NumberInv
<1> QED
  BY <1>4, <1>5, <1>6 DEF NumberInv

\* At the start nobody has a number.
LEMMA NumbersInit ==
  ASSUME DraftingInit
  PROVE  NumberInv
BY DEF DraftingInit, NumberInv, Recorded, Checked, Untouched

\* A draft has none yet.
LEMMA NumberedDraft ==
  ASSUME NumberInv, Tables, NEW q \in Drafts, NEW draft, NEW said, Drafted(q, draft, said),
         desk[q] = Untouched
  PROVE  NumberInv'
<1>1. UNCHANGED <<document, overlapped>>
  BY DEF Drafted
<1>2. \A r \in Drafts : desk'[r] = desk[r] \/ (r = q /\ desk'[r].step = "drafted")
  BY DEF Drafted, Tables
<1>3. Recorded' = Recorded /\ Checked' = Checked /\ q \notin Checked'
  BY <1>2 DEF Recorded, Checked, Untouched
<1>4. \A r \in Checked' : desk'[r].doc = desk[r].doc
  BY <1>2, <1>3 DEF Checked
<1> QED
  BY <1>1, <1>3, <1>4, NumbersStay

\* A new number is ahead of all that are recorded; who else has it is under way.
LEMMA NumberedConfirm ==
  ASSUME NumberInv, Tables, NEW q \in Drafts, NEW form \in BOOLEAN, Confirm(q, form)
  PROVE  NumberInv'
<1> DEFINE kind == desk[q].draft.type
<1>1. /\ desk[q].step = "drafted" /\ document' = document
      /\ overlapped' = overlapped \cup {{q, r} : r \in Checked}
  BY DEF Confirm, Checked
<1>2. /\ desk'[q].step = "checked" /\ desk'[q].doc.number = Numbered(kind) /\ desk'[q].doc.kind = kind
      /\ \A r \in Drafts \ {q} : desk'[r] = desk[r]
  BY DEF Confirm, KindOf, Tables
<1> HIDE DEF kind
<1>3. Recorded' = Recorded /\ Checked' = Checked \cup {q} /\ q \notin Recorded \cup Checked
  BY <1>1, <1>2 DEF Recorded, Checked
<1>4. \A k : Numbered(k)' = Numbered(k)
  BY <1>1, <1>3 DEF Numbered
<1>5. \A r \in Recorded \cup Checked : Paper(r)' = Paper(r)
  BY <1>1, <1>2, <1>3 DEF Paper, Checked
<1>6. Paper(q)'.number = Numbered(kind) /\ Paper(q)'.kind = kind /\ Numbered(kind) \in Nat
  BY <1>2, <1>3, Counts DEF Paper
<1>7. \A r \in Recorded' : Paper(r)'.number \in Nat /\ Paper(r)'.number < Numbered(Paper(r).kind)'
  BY <1>3, <1>4, <1>5 DEF NumberInv
<1>8. \A r \in Checked' : Paper(r)'.number \in Nat /\ Paper(r)'.number <= Numbered(Paper(r).kind)'
  BY <1>3, <1>4, <1>5, <1>6 DEF NumberInv
<1>9. \A r \in Recorded : ~(Paper(r).kind = kind /\ Paper(r).number = Numbered(kind))
  BY <1>6 DEF NumberInv
<1>10. \A r \in Checked : {q, r} \in overlapped' /\ {r, q} \in overlapped'
  <2>1. \A r : {r, q} = {q, r}
    OBVIOUS
  <2> QED
    BY <1>1, <2>1
<1>11. ASSUME NEW r \in Recorded' \cup Checked', NEW s \in Recorded' \cup Checked', r # s,
              Paper(r)'.kind = Paper(s)'.kind, Paper(r)'.number = Paper(s)'.number
       PROVE  {r, s} \in overlapped'
  <2>1. CASE r = q
    BY <1>3, <1>5, <1>6, <1>9, <1>10, <1>11, <2>1
  <2>2. CASE s = q
    BY <1>3, <1>5, <1>6, <1>9, <1>10, <1>11, <2>2
  <2>3. CASE r # q /\ s # q
    BY <1>1, <1>3, <1>5, <1>11, <2>3 DEF NumberInv
  <2> QED
    BY <2>1, <2>2, <2>3
<1> QED
  BY <1>7, <1>8, <1>11 DEF NumberInv

\* The count grows by the document.
LEMMA NumberedRecord ==
  ASSUME NumberInv, Tables, NEW q \in Drafts, Record(q)
  PROVE  NumberInv'
<1> PICK doc : doc = desk[q].doc
  OBVIOUS
<1>1. desk[q].step = "checked" /\ overlapped' = overlapped
  BY DEF Record
<1>2. q \in Checked /\ q \notin Recorded
  BY <1>1 DEF Checked, Recorded
<1>3. CASE /\ document' = document /\ desk'[q].step = "drafted"
           /\ \A r \in Drafts \ {q} : desk'[r] = desk[r]
  <2>1. Recorded' = Recorded /\ Checked' = Checked \ {q}
    BY <1>2, <1>3 DEF Recorded, Checked
  <2>2. \A r \in Checked' : desk'[r].doc = desk[r].doc
    BY <1>3, <2>1 DEF Checked
  <2> QED
    BY <1>1, <1>3, <2>1, <2>2, NumbersStay
<1>4. CASE /\ document'[q] = doc /\ desk'[q].step = "recorded"
           /\ \A r \in Drafts \ {q} : desk'[r] = desk[r] /\ document'[r] = document[r]
  <2>1. Recorded' = Recorded \cup {q} /\ Checked' = Checked \ {q}
    BY <1>2, <1>4 DEF Recorded, Checked
  <2>2. \A r \in Recorded \cup Checked : Paper(r)' = Paper(r)
    BY <1>2, <1>4, <2>1, Disjoint DEF Paper, Recorded, Checked
  <2>3. Paper(q) = doc
    BY <1>2 DEF Paper
  <2>4. \A k : OfKind(k)' = IF k = doc.kind THEN OfKind(k) \cup {q} ELSE OfKind(k)
    <3>1. \A r \in Recorded : document'[r] = document[r]
      BY <1>2, <1>4 DEF Recorded
    <3> QED
      BY <1>4, <2>1, <3>1 DEF OfKind
  <2>5. \A k : Numbered(k)' = 1 + Cardinality(OfKind(k)')
    BY DEF Numbered, OfKind
  <2>6. Numbered(doc.kind)' = Numbered(doc.kind) + 1
    <3>1. PICK some : some = OfKind(doc.kind)
      OBVIOUS
    <3>2. q \notin some /\ IsFiniteSet(some)
      BY <1>2, <3>1, Counts DEF OfKind
    <3>3. Cardinality(some \cup {q}) = Cardinality(some) + 1
      BY <3>2, FS_AddElement
    <3>4. Cardinality(some) \in Nat
      BY <3>2, FS_CardinalityType
    <3>5. Numbered(doc.kind) = 1 + Cardinality(some)
      BY <3>1, Counts
    <3>6. OfKind(doc.kind)' = some \cup {q}
      BY <2>4, <3>1
    <3>7. Numbered(doc.kind)' = 1 + Cardinality(some \cup {q})
      BY <2>5, <3>6
    <3> QED
      BY <3>3, <3>4, <3>5, <3>7
  <2>7. \A k : k # doc.kind => Numbered(k)' = Numbered(k)
    BY <2>4, <2>5, Counts
  <2>8. \A k : Numbered(k) \in Nat /\ Numbered(k)' \in Nat /\ Numbered(k) <= Numbered(k)'
    BY <2>6, <2>7, Counts
  <2>9. ASSUME NEW r \in Recorded'
        PROVE  Paper(r)'.number \in Nat /\ Paper(r)'.number < Numbered(Paper(r).kind)'
    <3>1. CASE r = q
      BY <1>2, <2>2, <2>3, <2>6, <2>8, <3>1 DEF NumberInv
    <3>2. CASE r # q
      <4>1. r \in Recorded /\ Paper(r)' = Paper(r)
        BY <2>1, <2>2, <3>2
      <4>2. Paper(r).number \in Nat /\ Paper(r).number < Numbered(Paper(r).kind)
        BY <4>1 DEF NumberInv
      <4> QED
        BY <2>8, <4>1, <4>2
    <3> QED
      BY <3>1, <3>2
  <2>10. ASSUME NEW r \in Checked'
         PROVE  Paper(r)'.number \in Nat /\ Paper(r)'.number <= Numbered(Paper(r).kind)'
    <3>1. r \in Checked /\ Paper(r)' = Paper(r)
      BY <2>1, <2>2
    <3>2. Paper(r).number \in Nat /\ Paper(r).number <= Numbered(Paper(r).kind)
      BY <3>1 DEF NumberInv
    <3> QED
      BY <2>8, <3>1, <3>2
  <2>11. \A r, s \in Recorded' \cup Checked' :
           r # s /\ Paper(r)'.kind = Paper(s)'.kind /\ Paper(r)'.number = Paper(s)'.number
           => {r, s} \in overlapped'
    BY <1>1, <1>2, <2>1, <2>2 DEF NumberInv
  <2> QED
    BY <2>9, <2>10, <2>11 DEF NumberInv
<1>5. \/ /\ document' = document /\ desk'[q].step = "drafted"
         /\ \A r \in Drafts \ {q} : desk'[r] = desk[r]
      \/ /\ document'[q] = doc /\ desk'[q].step = "recorded"
         /\ \A r \in Drafts \ {q} : desk'[r] = desk[r] /\ document'[r] = document[r]
  BY DEF Record, Tables
<1> QED
  BY <1>3, <1>4, <1>5

\* Moving the goods and deleting rows leave kinds and numbers alone.
LEMMA NumberedApply ==
  ASSUME NumberInv, Tables, NEW q \in Drafts, ApplyInventory(q)
  PROVE  NumberInv'
<1>1. /\ desk[q].step = "recorded" /\ UNCHANGED <<document, overlapped>>
      /\ desk' = [desk EXCEPT ![q].step = "applied"]
  BY DEF ApplyInventory
<1>2. "step" \in DOMAIN desk[q]
  BY <1>1 DEF Tables, OnDesk
<1>3. desk'[q].step = "applied" /\ \A r \in Drafts \ {q} : desk'[r] = desk[r]
  BY <1>1, <1>2 DEF Tables
<1>4. Recorded' = Recorded /\ Checked' = Checked /\ q \notin Checked
  BY <1>1, <1>3 DEF Recorded, Checked
<1>5. \A r \in Checked' : desk'[r].doc = desk[r].doc
  BY <1>3, <1>4 DEF Checked
<1> QED
  BY <1>1, <1>4, <1>5, NumbersStay

LEMMA NumberedDelete ==
  ASSUME NumberInv, Tables,
         \/ \E x \in Parties : DeleteParty(x)
         \/ \E p \in Products : DeleteProduct(p)
  PROVE  NumberInv'
<1>1. desk' = desk /\ overlapped' = overlapped /\ Recorded' = Recorded /\ Checked' = Checked
  BY DEF DeleteParty, DeleteProduct, Recorded, Checked
<1>2. ASSUME NEW q \in Recorded
      PROVE  document'[q].kind = document[q].kind /\ document'[q].number = document[q].number
  <2>1. q \in Drafts
    BY DEF Recorded
  <2>2. {"kind", "number"} \subseteq DOMAIN document[q]
    <3>1. PICK d : d = document[q]
      OBVIOUS
    <3>2. d = [kind |-> d.kind, party |-> d.party, lines |-> d.lines,
               discount |-> d.discount, number |-> d.number, amount |-> d.amount]
      BY <3>1 DEF Tables, Whole
    <3>3. DOMAIN d = {"kind", "party", "lines", "discount", "number", "amount"}
      BY <3>2
    <3> QED
      BY <3>1, <3>3
  <2>3. CASE \E x \in Parties : DeleteParty(x)
    <3>1. \/ document'[q] = document[q]
          \/ document'[q] = [document[q] EXCEPT !.party = None]
      BY <2>1, <2>3 DEF DeleteParty
    <3> QED
      BY <2>2, <3>1
  <2>4. CASE \E p \in Products : DeleteProduct(p)
    <3>1. PICK ls : document'[q] = [document[q] EXCEPT !.lines = ls]
      BY <2>1, <2>4 DEF DeleteProduct
    <3> QED
      BY <2>2, <3>1
  <2> QED
    BY <2>3, <2>4
<1> QED
  BY <1>1, <1>2, NumbersStay

LEMMA NumberInvNext ==
  ASSUME NumberInv, Tables, [DraftingNext]_drafting
  PROVE  NumberInv'
<1>1. CASE UNCHANGED <<desk, document, overlapped>>
  BY <1>1, NumbersStay DEF Recorded, Checked
<1>2. ASSUME NEW q \in Blanks, NEW o \in Orders, DraftFromReply(q, o) PROVE NumberInv'
  BY <1>2, NumberedDraft DEF Blanks, DraftFromReply
<1>3. ASSUME NEW q \in Blanks, NEW o \in Orders, NEW pen \in Pens, DraftFromText(q, o, pen)
      PROVE NumberInv'
  BY <1>3, NumberedDraft DEF Blanks, DraftFromText
<1>4. ASSUME NEW q \in Blanks, NEW s \in Slips, DraftFromImage(q, s) PROVE NumberInv'
  BY <1>4, NumberedDraft DEF Blanks, DraftFromImage
<1>5. CASE \/ \E p \in Products, price \in Prices : UpdateProduct(p, price)
           \/ \E x \in Parties, type \in {"customer", "supplier"} : UpdateParty(x, type)
           \/ \E p \in Products : CheckDelete(p)
           \/ UNCHANGED drafting
  BY <1>1, <1>5 DEF UpdateProduct, UpdateParty, CheckDelete, drafting
<1> QED
  BY <1>2, <1>3, <1>4, <1>5, NumberedConfirm, NumberedRecord, NumberedApply, NumberedDelete
  DEF DraftingNext

-----------------------------------------------------------------------------

\* What is recorded is what the draft said when somebody agreed to it: its kind,
\* party, discount, amount, quantities and prices, whatever became of the catalogue
\* meanwhile.
THEOREM DocumentsKeepToDrafts == DraftingSpec => []DocumentIsDraft
<1>1. DraftInv => DocumentIsDraft
  BY DEF DraftInv, DocumentIsDraft, Faithful
<1>2. DraftingInit => DraftInv
  BY DraftInvInit
<1>3. DraftInv /\ [DraftingNext]_drafting => DraftInv'
  BY DraftInvNext
<1> QED
  BY <1>1, <1>2, <1>3, PTL DEF DraftingSpec

\* A line goes on naming its goods, unless its document came between the check and
\* the deletion of a product.
THEOREM LinesKeepGoods == DraftingSpec => []LinesNameGoods
<1>1. DraftInv => LinesNameGoods
  BY DEF DraftInv, LinesNameGoods, NamesGoods
<1>2. DraftingInit => DraftInv
  BY DraftInvInit
<1>3. DraftInv /\ [DraftingNext]_drafting => DraftInv'
  BY DraftInvNext
<1> QED
  BY <1>1, <1>2, <1>3, PTL DEF DraftingSpec

\* A number is given twice only to two documents that were confirmed at once.
THEOREM NumbersUnique == DraftingSpec => []NumbersDiffer
<1>1. DraftInv /\ NumberInv => NumbersDiffer
  BY DEF NumberInv, NumbersDiffer, Paper
<1>2. DraftingInit => DraftInv /\ NumberInv
  BY DraftInvInit, NumbersInit
<1>3. DraftInv /\ NumberInv /\ [DraftingNext]_drafting => (DraftInv /\ NumberInv)'
  BY DraftInvNext, NumberInvNext DEF DraftInv
<1> QED
  BY <1>1, <1>2, <1>3, PTL DEF DraftingSpec

-----------------------------------------------------------------------------
(* What is entered.                                                        *)

Opens  == Moment(MonthStart[1], Midnight)
Closes == Moment(MonthStart[Len(MonthStart)] - 1, EndOfDay)

\* An entry is dated within the calendar, and never paid beyond its total.
EntryOK(e) ==
  /\ e = [kind |-> e.kind, at |-> e.at, total |-> e.total, paid |-> e.paid, cancelled |-> e.cancelled]
  /\ e.kind \in {"sale", "purchase", "expense"}
  /\ e.at \in Int /\ Opens <= e.at /\ e.at <= Closes
  /\ e.total \in Nat /\ e.paid \in 0..e.total
  /\ e.cancelled \in BOOLEAN /\ (e.kind = "expense" => ~e.cancelled)

FiguresInv ==
  /\ today \in FirstDay..LastDay
  /\ entry = [i \in Ids |-> entry[i]]
  /\ \A i \in Entered : EntryOK(entry[i])

LEMMA MaxOfTwo ==
  ASSUME NEW a \in Int
  PROVE  Max({0, a}) = IF a >= 0 THEN a ELSE 0
<1>1. IsFiniteSet({0, a})
  <2>1. IsFiniteSet({0} \cup {a})
    BY FS_Singleton, FS_Union
  <2>2. {0, a} = {0} \cup {a}
    OBVIOUS
  <2> QED
    BY <2>1, <2>2
<1>2. Max({0, a}) \in {0, a} /\ \A y \in {0, a} : y <= Max({0, a})
  BY <1>1, LargestExists
<1> QED
  BY <1>2

LEMMA MinOfTwo ==
  ASSUME NEW a \in Int, NEW b \in Int
  PROVE  Min({a, b}) \in {a, b} /\ Min({a, b}) <= b
<1>1. \E x \in {a, b} : \A y \in {a, b} : x <= y
  <2>1. CASE a <= b
    BY <2>1
  <2>2. CASE b <= a
    BY <2>2
  <2> QED
    BY <2>1, <2>2
<1> QED
  BY <1>1 DEF Min

\* Sums of lines, discounts and taxes are whole, and a total is not negative.
LEMMA SubtotalType ==
  ASSUME NEW in \in Inputs
  PROVE  Subtotal(in.lines) \in Int
<1> DEFINE lines == in.lines
           cost == [i \in DOMAIN lines |-> lines[i][1] * lines[i][2]]
<1>1. lines \in Seq(Nat \X Nat)
  BY FiguresAssumption
<1>2. DOMAIN lines = 1..Len(lines) /\ Len(lines) \in Nat /\ IsFiniteSet(1..Len(lines))
  BY <1>1, FS_Interval, LenProperties
<1>3. ASSUME NEW i \in DOMAIN lines PROVE cost[i] \in Int
  <2>1. lines[i] \in Nat \X Nat
    BY <1>1, <1>3, ElementOfSeq, <1>2
  <2> QED
    BY <2>1
<1> HIDE DEF lines
<1>4. SumFunctionOnSet(cost, DOMAIN lines) \in Int
  <2> HIDE DEF cost
  <2> QED
    BY <1>2, <1>3, SumType
<1> QED
  BY <1>4 DEF SumFunction, Subtotal, lines

LEMMA RoundType ==
  ASSUME NEW a \in Int
  PROVE  Round(a, 100) \in Int /\ (a >= 0 => Round(a, 100) >= 0)
BY DEF Round

LEMMA TotalsType ==
  ASSUME NEW in \in Inputs
  PROVE  Totals(Subtotal(in.lines), in.off, in.discount) \in Nat
<1> DEFINE less == Max({0, Subtotal(in.lines) - Discount(Subtotal(in.lines), in.off, in.discount)})
<1>1. in.off \in {"amount", "percentage", "none"} /\ in.discount \in Int /\ TaxRate \in Nat
  BY FiguresAssumption
<1>2. Discount(Subtotal(in.lines), in.off, in.discount) \in Int
  <2>1. Subtotal(in.lines) * in.discount \in Int
    BY <1>1, SubtotalType
  <2> QED
    BY <1>1, <2>1, RoundType DEF Discount
<1>3. less \in Nat
  BY <1>2, SubtotalType, MaxOfTwo
<1> HIDE DEF less
<1>4. less * TaxRate \in Nat
  BY <1>1, <1>3
<1>5. Round(less * TaxRate, 100) \in Nat
  BY <1>4, RoundType
<1>6. less + Round(less * TaxRate, 100) \in Nat
  BY <1>3, <1>5
<1> QED
  BY <1>6 DEF Totals, less

\* The dates people enter are in the calendar.
LEMMA DatesFit ==
  ASSUME today \in FirstDay..LastDay, NEW in \in Inputs
  PROVE  /\ Moment(today - in.ago, in.part) \in Int
         /\ Opens <= Moment(today - in.ago, in.part) /\ Moment(today - in.ago, in.part) <= Closes
<1>1. in.ago \in Int /\ in.part \in 0..3 /\ FirstDay \in Int /\ LastDay \in Int
  BY FiguresAssumption
<1>2. MonthStart[1] \in Int /\ MonthStart[Len(MonthStart)] \in Int
  BY FiguresAssumption, CalendarIsLong
<1>3. MonthStart[1] <= FirstDay - in.ago /\ LastDay - in.ago < MonthStart[Len(MonthStart)] - 1
  BY CalendarIsLong
<1>4. PICK day \in Int : day = today - in.ago
  BY <1>1
<1>5. MonthStart[1] <= day /\ day < MonthStart[Len(MonthStart)] - 1
  BY <1>1, <1>2, <1>3, <1>4
<1>6. /\ Moment(day, in.part) = 4 * day + in.part
      /\ Opens = 4 * MonthStart[1] /\ Closes = 4 * (MonthStart[Len(MonthStart)] - 1) + 2
  BY <1>1, <1>2, <1>4 DEF Moment, Opens, Closes, Midnight, EndOfDay
<1> QED
  <2> DEFINE part == in.part  opens == MonthStart[1]  closes == MonthStart[Len(MonthStart)]
  <2>1. part \in 0..3 /\ opens \in Int /\ closes \in Int /\ opens <= day /\ day < closes - 1
    BY <1>1, <1>2, <1>5
  <2> HIDE DEF part, opens, closes
  <2>2. 4 * day + part \in Int /\ 4 * opens <= 4 * day + part /\ 4 * day + part <= 4 * (closes - 1) + 2
    BY <2>1, <1>4
  <2> QED
    BY <1>4, <1>6, <2>2 DEF part, opens, closes

LEMMA FiguresInvInit ==
  ASSUME FiguresInit
  PROVE  FiguresInv
BY FiguresAssumption DEF FiguresInit, FiguresInv, Entered

\* One entry changes.
LEMMA EntryMoves ==
  ASSUME FiguresInv, NEW i \in Ids, NEW e, entry' = [entry EXCEPT ![i] = e],
         today' = today, e = Blank \/ EntryOK(e)
  PROVE  FiguresInv'
BY DEF FiguresInv, Entered

LEMMA FiguresInvNext ==
  ASSUME FiguresInv, [FiguresNext]_figures
  PROVE  FiguresInv'
<1>1. ASSUME NEW i \in Ids, NEW in \in Inputs, Enter(i, in) PROVE FiguresInv'
  <2> DEFINE total == Totals(Subtotal(in.lines), in.off, in.discount)
             paid  == Max({0, Min({in.paid, total})})
             e == [kind |-> in.kind, at |-> Moment(today - in.ago, in.part), total |-> total,
                   paid |-> paid, cancelled |-> FALSE]
  <2>1. entry' = [entry EXCEPT ![i] = e] /\ today' = today /\ in.kind \in {"sale", "purchase"}
    BY <1>1 DEF Enter
  <2>2. total \in Nat /\ in.paid \in Int
    BY TotalsType, FiguresAssumption
  <2> HIDE DEF total
  <2>3. paid \in 0..total
    BY <2>2, MinOfTwo, MaxOfTwo
  <2> HIDE DEF paid
  <2>4. EntryOK(e)
    BY <2>1, <2>2, <2>3, DatesFit DEF EntryOK, FiguresInv
  <2> QED
    BY <2>1, <2>4, EntryMoves
<1>2. ASSUME NEW i \in Ids, NEW in \in Inputs, EnterExpense(i, in) PROVE FiguresInv'
  <2> DEFINE e == [kind |-> "expense", at |-> Moment(today - in.ago, in.part),
                   total |-> Subtotal(in.lines), paid |-> 0, cancelled |-> FALSE]
  <2>1. entry' = [entry EXCEPT ![i] = e] /\ today' = today /\ Subtotal(in.lines) > 0
    BY <1>2 DEF EnterExpense
  <2>2. Subtotal(in.lines) \in Nat /\ 0 \in 0..Subtotal(in.lines)
    BY <2>1, SubtotalType
  <2>3. EntryOK(e)
    BY <2>2, DatesFit DEF EntryOK, FiguresInv
  <2> QED
    BY <2>1, <2>3, EntryMoves
<1>3. ASSUME NEW i \in Ids, Cancel(i) PROVE FiguresInv'
  <2>0. PICK e : e = [entry[i] EXCEPT !.cancelled = TRUE]
    OBVIOUS
  <2>1. entry' = [entry EXCEPT ![i] = e] /\ today' = today /\ i \in Entered /\ entry[i].kind # "expense"
    BY <1>3, <2>0 DEF Cancel, Entered
  <2>2. EntryOK(entry[i])
    BY <2>1 DEF FiguresInv
  <2>3. e = [kind |-> entry[i].kind, at |-> entry[i].at, total |-> entry[i].total,
             paid |-> entry[i].paid, cancelled |-> TRUE]
    BY <2>0, <2>2 DEF EntryOK
  <2>4. EntryOK(e)
    BY <2>1, <2>2, <2>3 DEF EntryOK
  <2> QED
    BY <2>1, <2>4, EntryMoves
<1>4. ASSUME NEW i \in Ids, DeleteExpense(i) PROVE FiguresInv'
  BY <1>4, EntryMoves DEF DeleteExpense
<1>5. CASE NextDay
  BY <1>5, FiguresAssumption DEF NextDay, FiguresInv, Entered
<1>6. CASE UNCHANGED figures
  BY <1>6 DEF figures, FiguresInv, Entered
<1> QED
  BY <1>1, <1>2, <1>3, <1>4, <1>5, <1>6 DEF FiguresNext

-----------------------------------------------------------------------------
(* The calendar and the buckets of a series.                               *)

LEMMA CalendarGrows ==
  /\ Len(MonthStart) \in Nat /\ 12 < Len(MonthStart)
  /\ \A m \in 1..Len(MonthStart) : MonthStart[m] \in Int
  /\ \A m \in 1..Len(MonthStart) : m # 1 => MonthStart[m] > MonthStart[m - 1]
<1>1. Len(MonthStart) \in Nat /\ \A m \in 1..Len(MonthStart) : MonthStart[m] \in Int
  BY FiguresAssumption, ElementOfSeq, LenProperties
<1>2. ASSUME NEW m \in 1..Len(MonthStart), m # 1 PROVE MonthStart[m] > MonthStart[m - 1]
  <2>1. m \in 2..Len(MonthStart) /\ m - 1 \in 1..Len(MonthStart)
    BY <1>1, <1>2
  <2>2. MonthStart[m] \in Int /\ MonthStart[m - 1] \in Int
    BY <1>1, <2>1
  <2>3. MonthStart[m] - MonthStart[m - 1] \in 28..31
    BY <2>1, FiguresAssumption
  <2> QED
    BY <2>2, <2>3
<1> QED
  BY <1>1, <1>2, CalendarIsLong

LEMMA CalendarRises ==
  ASSUME NEW a \in 1..Len(MonthStart), NEW b \in a..Len(MonthStart)
  PROVE  MonthStart[a] <= MonthStart[b]
<1> DEFINE Bad == {c \in a..Len(MonthStart) : MonthStart[c] < MonthStart[a]}
<1>1. a \in Nat /\ Len(MonthStart) \in Nat /\ MonthStart[a] \in Int
  BY CalendarGrows
<1> SUFFICES ASSUME Bad # {} PROVE FALSE
  BY CalendarGrows, <1>1
<1>2. Bad \subseteq Nat
  BY <1>1
<1>3. PICK c \in Bad : \A d \in Bad : c <= d
  <2> HIDE DEF Bad
  <2> QED
    BY <1>2, SmallestExists
<1>4. c \in a..Len(MonthStart) /\ MonthStart[c] < MonthStart[a] /\ c # a
  BY <1>1
<1>5. c - 1 \in a..Len(MonthStart) /\ c \in 1..Len(MonthStart) /\ c # 1 /\ c - 1 \in 1..Len(MonthStart)
  BY <1>1, <1>4
<1>6. MonthStart[c] > MonthStart[c - 1] /\ MonthStart[c] \in Int /\ MonthStart[c - 1] \in Int
  BY <1>5, CalendarGrows
<1>7. MonthStart[c - 1] < MonthStart[a]
  BY <1>1, <1>4, <1>6
<1>8. c - 1 \in Bad
  BY <1>5, <1>7
<1> QED
  BY <1>3, <1>5, <1>8

\* Today is in a month of the calendar, a year or more after its first.
LEMMA MonthIs ==
  ASSUME today \in FirstDay..LastDay
  PROVE  /\ today \in Int
         /\ MonthOf(today) \in 12..(Len(MonthStart) - 1)
         /\ MonthStart[MonthOf(today)] <= today /\ today < MonthStart[MonthOf(today) + 1]
<1>1. /\ Len(MonthStart) \in Nat /\ 12 < Len(MonthStart) /\ today \in Int
      /\ MonthStart[12] <= today /\ today < MonthStart[Len(MonthStart)]
      /\ \A m \in 1..Len(MonthStart) : MonthStart[m] \in Int
  <2>1. FirstDay \in Int /\ LastDay \in Int
    BY FiguresAssumption
  <2>2. MonthStart[12] \in Int /\ MonthStart[Len(MonthStart)] \in Int
    BY CalendarGrows
  <2> QED
    BY <2>1, <2>2, CalendarGrows, CalendarIsLong
<1> DEFINE Later == {k \in 1..Len(MonthStart) : today < MonthStart[k]}
<1>2. PICK k \in Later : \A j \in Later : k <= j
  <2>1. Len(MonthStart) \in Later /\ Later \subseteq Nat
    BY <1>1
  <2> HIDE DEF Later
  <2> QED
    BY <2>1, SmallestExists
<1>3. ASSUME k <= 12 PROVE FALSE
  <2>1. k \in 1..Len(MonthStart) /\ 12 \in k..Len(MonthStart)
    BY <1>1, <1>3
  <2>2. MonthStart[k] <= MonthStart[12]
    BY <2>1, CalendarRises
  <2> QED
    BY <1>1, <1>2, <2>1, <2>2
<1>4. k - 1 \in 1..(Len(MonthStart) - 1) /\ k - 1 \notin Later /\ k \in 13..Len(MonthStart)
  BY <1>1, <1>2, <1>3
<1>5. MonthStart[k - 1] <= today /\ today < MonthStart[(k - 1) + 1]
  BY <1>1, <1>4
<1>6. \E m \in 1..(Len(MonthStart) - 1) : today \in MonthStart[m]..(MonthStart[m + 1] - 1)
  <2>1. MonthStart[k - 1] \in Int /\ MonthStart[(k - 1) + 1] \in Int
    BY <1>1, <1>4
  <2> QED
    BY <1>1, <1>4, <1>5, <2>1
<1>7. PICK m : m = MonthOf(today)
  OBVIOUS
<1>8. m \in 1..(Len(MonthStart) - 1) /\ today \in MonthStart[m]..(MonthStart[m + 1] - 1)
  BY <1>6, <1>7 DEF MonthOf
<1>9. m \in 1..Len(MonthStart) /\ m + 1 \in 1..Len(MonthStart)
  BY <1>1, <1>8
<1>10. MonthStart[m] <= today /\ today < MonthStart[m + 1]
  BY <1>1, <1>8, <1>9
<1>11. m + 1 \in Later
  BY <1>9, <1>10
<1>12. m \in 12..(Len(MonthStart) - 1)
  BY <1>1, <1>2, <1>4, <1>8, <1>11
<1> QED
  BY <1>1, <1>7, <1>10, <1>12

\* n days, weeks or months one after the other.
Cut(bs, n) ==
  /\ n \in Nat \ {0} /\ DOMAIN bs = 1..n
  /\ \A b \in 1..n : bs[b].start \in Int /\ bs[b].end \in Int /\ bs[b].start < bs[b].end
  /\ \A b \in 1..n : b # n => bs[b].end = bs[b + 1].start

LEMMA CutLength ==
  ASSUME NEW bs, NEW n, Cut(bs, n), bs = [b \in DOMAIN bs |-> bs[b]]
  PROVE  Len(bs) = n
<1> DEFINE S == {bs[b] : b \in 1..n}
<1>1. bs \in [1..n -> S]
  BY DEF Cut
<1>2. bs \in Seq(S)
  BY <1>1, SeqDef DEF Cut
<1>3. Len(bs) \in Nat /\ DOMAIN bs = 1..Len(bs)
  BY <1>2, LenProperties
<1>4. 1..n = 1..Len(bs) /\ n \in Nat
  BY <1>3 DEF Cut
<1> QED
  BY <1>3, <1>4

\* A bucket is over before a later one begins.
LEMMA CutOrdered ==
  ASSUME NEW bs, NEW n, Cut(bs, n), NEW b \in 1..n, NEW c \in 1..n, b < c
  PROVE  bs[b].end <= bs[c].start
<1> DEFINE Bad == {d \in (b + 1)..n : bs[d].start < bs[b].end}
<1>1. /\ b \in Nat /\ n \in Nat /\ c \in (b + 1)..n
      /\ \A d \in 1..n : bs[d].start \in Int /\ bs[d].end \in Int /\ bs[d].start < bs[d].end
      /\ \A d \in 1..n : d # n => bs[d].end = bs[d + 1].start
  BY DEF Cut
<1>2. \A d \in (b + 1)..n : d \in 1..n
  BY <1>1
<1> SUFFICES ASSUME Bad # {} PROVE FALSE
  BY <1>1, <1>2
<1>3. PICK d \in Bad : \A e \in Bad : d <= e
  <2>1. Bad \subseteq Nat
    BY <1>1
  <2> HIDE DEF Bad
  <2> QED
    BY <2>1, SmallestExists
<1>4. d \in (b + 1)..n /\ bs[d].start < bs[b].end /\ d \in 1..n /\ d - 1 \in 1..n /\ d - 1 # n
  BY <1>1, <1>2
<1>5. bs[d - 1].end = bs[(d - 1) + 1].start
  BY <1>1, <1>4
<1>6. (d - 1) + 1 = d
  BY <1>1, <1>4
<1>7. CASE d - 1 = b
  BY <1>1, <1>4, <1>5, <1>6, <1>7
<1>8. CASE d - 1 # b
  <2>1. d - 1 \in (b + 1)..n
    BY <1>1, <1>4, <1>8
  <2>2. bs[d - 1].start < bs[b].end
    BY <1>1, <1>4, <1>5, <1>6
  <2>3. d - 1 \in Bad
    BY <2>1, <2>2
  <2> QED
    BY <1>1, <1>3, <1>4, <2>3
<1> QED
  BY <1>7, <1>8

\* Between its first and its last day, every moment is in one of them.
LEMMA CutCovers ==
  ASSUME NEW bs, NEW n, Cut(bs, n), NEW at \in Int
  PROVE  (\E b \in 1..n : at \in (4 * bs[b].start)..(4 * bs[b].end - 1))
            <=> at \in (4 * bs[1].start)..(4 * bs[n].end - 1)
<1>1. /\ n \in Nat \ {0} /\ 1 \in 1..n /\ n \in 1..n
      /\ \A d \in 1..n : bs[d].start \in Int /\ bs[d].end \in Int /\ bs[d].start < bs[d].end
      /\ \A d \in 1..n : d # n => bs[d].end = bs[d + 1].start
  BY DEF Cut
<1>2. ASSUME NEW b \in 1..n, at \in (4 * bs[b].start)..(4 * bs[b].end - 1)
      PROVE  at \in (4 * bs[1].start)..(4 * bs[n].end - 1)
  <2>1. bs[1].start <= bs[b].start
    <3>1. CASE b = 1
      BY <3>1, <1>1
    <3>2. CASE b # 1
      <4>1. bs[1].end <= bs[b].start
        BY <3>2, <1>1, CutOrdered
      <4> QED
        BY <4>1, <1>1
    <3> QED
      BY <3>1, <3>2
  <2>2. bs[b].end <= bs[n].end
    <3>1. CASE b = n
      BY <3>1, <1>1
    <3>2. CASE b # n
      <4>1. bs[b].end <= bs[n].start
        BY <3>2, <1>1, CutOrdered
      <4> QED
        BY <4>1, <1>1
    <3> QED
      BY <3>1, <3>2
  <2> QED
    BY <1>1, <1>2, <2>1, <2>2
<1>3. ASSUME at \in (4 * bs[1].start)..(4 * bs[n].end - 1)
      PROVE  \E b \in 1..n : at \in (4 * bs[b].start)..(4 * bs[b].end - 1)
  <2> DEFINE Open == {b \in 1..n : at < 4 * bs[b].end}
  <2>1. n \in Open /\ Open \subseteq Nat
    BY <1>1, <1>3
  <2>2. PICK b \in Open : \A c \in Open : b <= c
    <3> HIDE DEF Open
    <3> QED
      BY <2>1, SmallestExists
  <2>3. b \in 1..n /\ at < 4 * bs[b].end /\ bs[b].start \in Int /\ bs[b].end \in Int
    BY <1>1
  <2>4. 4 * bs[b].start <= at
    <3>1. CASE b = 1
      BY <3>1, <1>1, <1>3
    <3>2. CASE b # 1
      <4>1. b - 1 \in 1..n /\ b - 1 # n /\ (b - 1) + 1 = b /\ b - 1 < b
        BY <2>3, <3>2, <1>1
      <4>2. bs[b - 1].end = bs[b].start
        BY <1>1, <4>1
      <4>3. b - 1 \notin Open
        BY <2>2, <4>1
      <4>4. ~(at < 4 * bs[b - 1].end)
        BY <4>1, <4>3
      <4> QED
        BY <2>3, <4>2, <4>4
    <3> QED
      BY <3>1, <3>2
  <2> QED
    BY <2>3, <2>4
<1> QED
  BY <1>2, <1>3

-----------------------------------------------------------------------------
(* The sums of a report and of a series.                                   *)

\* The sales that count, from one moment to another.
Between(a, b) == {i \in Live("sale") : entry[i].at \in a..b}

\* The amounts of what is entered.
Amounts == [i \in Entered |-> entry[i].total]

LEMMA AmountsType ==
  ASSUME FiguresInv
  PROVE  /\ IsFiniteSet(Entered) /\ \A i \in Entered : Amounts[i] \in Int
         /\ Live("sale") \subseteq Entered
         /\ \A i \in Live("sale") : entry[i].at \in Int
<1>1. IsFiniteSet(Entered)
  BY FiguresAssumption, FS_Subset DEF Entered
<1>2. ASSUME NEW i \in Entered PROVE Amounts[i] \in Int
  <2>1. Amounts[i] = entry[i].total
    BY DEF Amounts
  <2>2. EntryOK(entry[i])
    BY DEF FiguresInv
  <2> QED
    BY <2>1, <2>2 DEF EntryOK
<1> QED
  BY <1>1, <1>2 DEF FiguresInv, EntryOK, Live

LEMMA TotalIs ==
  ASSUME FiguresInv, NEW S \in SUBSET Entered
  PROVE  TotalOf(S) = SumFunctionOnSet(Amounts, S) /\ TotalOf(S) \in Int
<1> DEFINE own == [i \in S |-> entry[i].total]
<1>1. IsFiniteSet(S) /\ \A i \in S : Amounts[i] \in Int /\ own[i] = Amounts[i]
  BY AmountsType, FS_Subset DEF Amounts
<1>2. SumFunctionOnSet(own, S) = SumFunctionOnSet(Amounts, S)
  <2> HIDE DEF own
  <2> QED
    BY <1>1, SumAgrees
<1>3. SumFunctionOnSet(Amounts, S) \in Int
  BY <1>1, SumType
<1>4. TotalOf(S) = SumFunctionOnSet(own, S)
  BY DEF TotalOf, SumFunction
<1> QED
  BY <1>2, <1>3, <1>4

\* A report over some days misses what is after the end of the last.
LEMMA ReportAndLate ==
  ASSUME FiguresInv, NEW first \in Int, NEW last \in Int, first <= last
  PROVE  TotalOf(Between(4 * first, 4 * (last + 1) - 1))
           = Section("sale", Span(first, last)).total + Late(last)
<1> DEFINE all == Between(4 * first, 4 * (last + 1) - 1)
           shown == Between(4 * first, 4 * last + 2)
           late == {i \in Live("sale") : entry[i].at = 4 * last + 3}
<1>1. shown \in SUBSET all /\ late = all \ shown /\ all \in SUBSET Entered
  BY AmountsType DEF Between
<1>2. Section("sale", Span(first, last)).total = TotalOf(shown)
  <2>1. Span(first, last).start = 4 * first /\ Span(first, last).end = 4 * last + 2
    BY DEF Span, Moment, Midnight, EndOfDay
  <2> DEFINE rows == {i \in Entered : entry[i].kind = "sale" /\ entry[i].at \in Span(first, last).start..Span(first, last).end}
  <2>2. {i \in rows : ~entry[i].cancelled} = shown
    BY <2>1 DEF Between, Live
  <2>3. Section("sale", Span(first, last)).total = TotalOf({i \in rows : ~entry[i].cancelled})
    BY DEF Section
  <2> QED
    BY <2>2, <2>3
<1>3. Late(last) = TotalOf(late)
  BY DEF Late, Moment, After
<1> HIDE DEF all, shown, late
<1>4. IsFiniteSet(all) /\ \A i \in all : Amounts[i] \in Int
  BY <1>1, AmountsType, FS_Subset
<1>5. SumFunctionOnSet(Amounts, all) = SumFunctionOnSet(Amounts, shown) + SumFunctionOnSet(Amounts, all \ shown)
  BY <1>1, <1>4, SumOfTwo
<1>6. all \ shown \in SUBSET Entered /\ shown \in SUBSET Entered
  BY <1>1
<1>7. TotalOf(all) = TotalOf(shown) + TotalOf(all \ shown)
  BY <1>1, <1>5, <1>6, TotalIs
<1> QED
  BY <1>1, <1>2, <1>3, <1>7 DEF all

\* A figure of a series is the sum of the sales of its bucket.
LEMMA SeriesBucket ==
  ASSUME FiguresInv, NEW days, NEW n, Cut(Buckets(days), n), NEW b \in 1..n
  PROVE  /\ Series(days)[b] = TotalOf(Between(4 * Buckets(days)[b].start, 4 * Buckets(days)[b].end - 1))
         /\ DOMAIN Series(days) = 1..n
<1>1. PICK bs : bs = Buckets(days)
  OBVIOUS
<1>2. DOMAIN bs = 1..n /\ Cut(bs, n) /\ n \in Nat
  BY <1>1 DEF Cut
<1> DEFINE takes(c, i) == entry[i].at \in Moment(bs[c].start, Midnight)..(Moment(bs[c].end, Midnight) - 1)
           part(c) == {i \in Live("sale") : takes(c, i) /\ \A d \in 1..(c - 1) : ~takes(d, i)}
<1>3. Series(days) = [c \in 1..n |-> TotalOf(part(c))]
  <2>1. Series(days) = [c \in DOMAIN bs |-> TotalOf(part(c))]
    BY <1>1, Zenon DEF Series
  <2> QED
    BY <1>2, <2>1
<1>3a. ASSUME NEW c \in 1..n
       PROVE  Moment(bs[c].start, Midnight) = 4 * bs[c].start /\ Moment(bs[c].end, Midnight) = 4 * bs[c].end
  BY <1>2 DEF Cut, Moment, Midnight
<1>4. ASSUME NEW i \in Live("sale"), takes(b, i), NEW d \in 1..(b - 1), takes(d, i) PROVE FALSE
  <2>1. d \in 1..n /\ d < b
    BY <1>2, <1>4
  <2>2. bs[d].end <= bs[b].start
    BY <1>2, <2>1, CutOrdered
  <2>3. bs[d].end \in Int /\ bs[b].start \in Int /\ entry[i].at \in Int
    BY <1>2, <2>1, AmountsType DEF Cut
  <2> QED
    BY <1>4, <1>3a, <2>1, <2>2, <2>3
<1>5. part(b) = Between(4 * bs[b].start, 4 * bs[b].end - 1)
  BY <1>4, <1>3a DEF Between
<1> QED
  <2>1. Series(days)[b] = TotalOf(part(b)) /\ DOMAIN Series(days) = 1..n
    BY <1>3
  <2> QED
    BY <1>1, <1>5, <2>1

\* A series adds up to the sales of its days.
LEMMA SeriesSum ==
  ASSUME FiguresInv, NEW days, NEW n, Cut(Buckets(days), n)
  PROVE  SumFunction(Series(days))
           = TotalOf(Between(4 * Buckets(days)[1].start, 4 * Buckets(days)[n].end - 1))
<1>1. PICK bs : bs = Buckets(days)
  OBVIOUS
<1>2. PICK g : g = Series(days)
  OBVIOUS
<1>3. PICK P : P = [b \in 1..n |-> Between(4 * bs[b].start, 4 * bs[b].end - 1)]
  OBVIOUS
<1>4. /\ Cut(bs, n) /\ n \in Nat /\ 1 \in 1..n
      /\ \A b \in 1..n : bs[b].start \in Int /\ bs[b].end \in Int
  BY <1>1 DEF Cut
<1>5. \A b \in 1..n : P[b] = Between(4 * bs[b].start, 4 * bs[b].end - 1) /\ P[b] \in SUBSET Entered
  BY <1>3, AmountsType DEF Between
<1>6. DOMAIN g = 1..n /\ \A b \in 1..n : g[b] = SumFunctionOnSet(Amounts, P[b])
  <2>1. DOMAIN g = 1..n
    BY <1>1, <1>2, <1>4, SeriesBucket
  <2>2. ASSUME NEW b \in 1..n PROVE g[b] = SumFunctionOnSet(Amounts, P[b])
    <3>1. g[b] = TotalOf(P[b])
      BY <1>1, <1>2, <1>4, <1>5, SeriesBucket
    <3> QED
      BY <1>5, <3>1, TotalIs
  <2> QED
    BY <2>1, <2>2
<1>7. ASSUME NEW b \in 1..n, NEW c \in 1..n, b # c PROVE P[b] \cap P[c] = {}
  <2>1. bs[b].end <= bs[c].start \/ bs[c].end <= bs[b].start
    BY <1>4, <1>7, CutOrdered
  <2> SUFFICES ASSUME NEW i \in P[b], i \in P[c] PROVE FALSE
    OBVIOUS
  <2>2. entry[i].at \in (4 * bs[b].start)..(4 * bs[b].end - 1) /\ entry[i].at \in (4 * bs[c].start)..(4 * bs[c].end - 1)
    BY <1>5 DEF Between
  <2> QED
    BY <1>4, <2>1, <2>2
<1> DEFINE all == Between(4 * bs[1].start, 4 * bs[n].end - 1)
<1>8. \A i \in Entered : i \in all <=> \E b \in 1..n : i \in P[b]
  <2>1. ASSUME NEW i \in Live("sale")
        PROVE  (\E b \in 1..n : entry[i].at \in (4 * bs[b].start)..(4 * bs[b].end - 1))
                 <=> entry[i].at \in (4 * bs[1].start)..(4 * bs[n].end - 1)
    BY <1>4, AmountsType, CutCovers
  <2> QED
    BY <1>5, <2>1 DEF Between
<1>9. SumFunctionOnSet(g, 1..n) = SumFunctionOnSet(Amounts, all)
  <2>1. IsFiniteSet(1..n)
    BY <1>4, FS_Interval
  <2>2. IsFiniteSet(Entered) /\ \A i \in Entered : Amounts[i] \in Int
    BY AmountsType
  <2>3. \A b \in 1..n : P[b] \in SUBSET Entered
    BY <1>5
  <2>4. \A b, c \in 1..n : b # c => P[b] \cap P[c] = {}
    BY <1>7
  <2>5. \A b \in 1..n : g[b] = SumFunctionOnSet(Amounts, P[b])
    BY <1>6
  <2>6. all \in SUBSET Entered
    BY AmountsType DEF Between
  <2> HIDE DEF all
  <2>7. PICK E, f, T : E = Entered /\ f = Amounts /\ T = all
    OBVIOUS
  <2>8. SumFunctionOnSet(g, 1..n) = SumFunctionOnSet(f, T)
    <3>1. IsFiniteSet(E) /\ \A i \in E : f[i] \in Int
      BY <2>2, <2>7
    <3>2. \A b \in 1..n : P[b] \in SUBSET E
      BY <2>3, <2>7
    <3>3. \A b \in 1..n : g[b] = SumFunctionOnSet(f, P[b])
      BY <2>5, <2>7
    <3>4. T \in SUBSET E /\ \A i \in E : i \in T <=> \E b \in 1..n : i \in P[b]
      BY <1>8, <2>6, <2>7
    <3>5. SumsOfParts(g, 1..n, f, P, T, E)
      BY <2>1, <2>4, <3>1, <3>2, <3>3, <3>4 DEF SumsOfParts
    <3> QED
      BY <3>5, SumOfParts
  <2> QED
    BY <2>7, <2>8
<1>10. all \in SUBSET Entered
  BY AmountsType DEF Between
<1>11. SumFunction(g) = TotalOf(all)
  BY <1>6, <1>9, <1>10, TotalIs DEF SumFunction
<1> QED
  BY <1>1, <1>2, <1>11

-----------------------------------------------------------------------------
(* The buckets are a cut, whatever the number of days.                     *)

LEMMA DaysCut ==
  ASSUME FiguresInv, NEW days \in AllowedDays, days <= 31
  PROVE  /\ Buckets(days) = [b \in 1..days |-> [start |-> today - days + b, end |-> today - days + b + 1]]
         /\ Cut(Buckets(days), days)
<1>1. days \in Nat \ {0} /\ today \in Int
  BY FiguresAssumption, MonthIs DEF FiguresInv
<1> QED
  BY <1>1 DEF Buckets, Cut

LEMMA WeeksCut ==
  ASSUME FiguresInv, NEW days \in AllowedDays, days > 31, days <= 92
  PROVE  /\ Weeks(days) \in Nat \ {0}
         /\ Buckets(days) = [b \in 1..Weeks(days) |->
                               [start |-> today + 1 - 7 * (Weeks(days) - b + 1),
                                end   |-> today + 1 - 7 * (Weeks(days) - b)]]
         /\ Cut(Buckets(days), Weeks(days))
<1>1. days \in Nat \ {0} /\ today \in Int
  BY FiguresAssumption, MonthIs DEF FiguresInv
<1>2. PICK w : w = Weeks(days)
  OBVIOUS
<1>3. w \in Nat \ {0}
  BY <1>1, <1>2 DEF Weeks
<1>4. Buckets(days) = [b \in 1..w |-> [start |-> today + 1 - 7 * (w - b + 1), end |-> today + 1 - 7 * (w - b)]]
  BY <1>1, <1>2 DEF Buckets
<1>5. Cut(Buckets(days), w)
  BY <1>1, <1>3, <1>4 DEF Cut
<1> QED
  BY <1>2, <1>3, <1>4, <1>5


LEMMA MonthsCut ==
  ASSUME FiguresInv, NEW days \in AllowedDays, days > 92
  PROVE  /\ Months(days) \in 1..12
         /\ Buckets(days) = [b \in 1..Months(days) |->
                               [start |-> MonthStart[MonthOf(today) - Months(days) + b],
                                end   |-> MonthStart[MonthOf(today) - Months(days) + b + 1]]]
         /\ Cut(Buckets(days), Months(days))
<1>1. days \in Nat \ {0} /\ MonthOf(today) \in 12..(Len(MonthStart) - 1)
  BY FiguresAssumption, MonthIs DEF FiguresInv
<1>2. PICK months : months = Months(days)
  OBVIOUS
<1>3. months \in 1..12
  <2>1. CASE days >= 330
    BY <1>2, <2>1 DEF Months
  <2>2. CASE days < 330
    <3>1. PICK n : n = days + (IF days % 60 = 15 THEN 14 ELSE 15)
      OBVIOUS
    <3>2. n \in 93..345 /\ months = n \div 30
      BY <1>1, <1>2, <2>2, <3>1 DEF Months
    <3> QED
      BY <3>2
  <2> QED
    BY <1>1, <2>1, <2>2
<1>4. PICK m : m = MonthOf(today) - months
  OBVIOUS
<1>5. /\ Len(MonthStart) \in Nat /\ m \in Int /\ 0 <= m /\ m + months < Len(MonthStart)
      /\ \A k \in 1..Len(MonthStart) : MonthStart[k] \in Int
      /\ \A k \in 1..Len(MonthStart) : k # 1 => MonthStart[k] > MonthStart[k - 1]
  BY <1>1, <1>3, <1>4, CalendarGrows
<1>6. Buckets(days) = [b \in 1..months |-> [start |-> MonthStart[m + b], end |-> MonthStart[m + b + 1]]]
  BY <1>1, <1>2, <1>4 DEF Buckets
<1>7. ASSUME NEW b \in 1..months
      PROVE  /\ MonthStart[m + b] \in Int /\ MonthStart[m + b + 1] \in Int
             /\ MonthStart[m + b] < MonthStart[m + b + 1]
  <2>1. m + b \in 1..Len(MonthStart) /\ m + b + 1 \in 1..Len(MonthStart) /\ m + b + 1 # 1 /\ (m + b + 1) - 1 = m + b
    BY <1>3, <1>5
  <2> QED
    BY <1>5, <2>1
<1>8. \A b \in 1..months : b # months => m + b + 1 = m + (b + 1) /\ b + 1 \in 1..months
  BY <1>3, <1>5
<1>9. Cut(Buckets(days), months)
  <2>1. months \in Nat \ {0}
    BY <1>3
  <2>2. \A b \in 1..months : m + (b + 1) + 1 = m + b + 1 + 1
    BY <1>5
  <2> QED
    BY <1>6, <1>7, <1>8, <2>1, <2>2 DEF Cut
<1> QED
  BY <1>2, <1>3, <1>4, <1>6, <1>9

LEMMA BucketsCut ==
  ASSUME FiguresInv, NEW days \in AllowedDays
  PROVE  \E n : Cut(Buckets(days), n) /\ Len(Buckets(days)) = n
<1>1. days \in Nat
  BY FiguresAssumption
<1>2. CASE days <= 31
  BY <1>2, DaysCut, CutLength
<1>3. CASE days > 31 /\ days <= 92
  BY <1>3, WeeksCut, CutLength
<1>4. CASE days > 92
  BY <1>4, MonthsCut, CutLength
<1> QED
  BY <1>1, <1>2, <1>3, <1>4

-----------------------------------------------------------------------------
(* The figures agree.                                                      *)

\* What a report of a period from first to last is called.
LEMMA SameAs ==
  ASSUME FiguresInv, NEW first \in Int, NEW last \in Int, first <= last,
         NEW preset, NEW from, NEW to, ResolvePeriod(preset, from, to) = Span(first, last),
         NEW figure, figure = TotalOf(Between(4 * first, 4 * (last + 1) - 1))
  PROVE  Same(figure, preset, from, to, last)
BY ReportAndLate DEF Same, Sales

\* The ends of a period may be given in any order.
LEMMA CustomPeriod ==
  ASSUME NEW first \in Int, NEW last \in Int, first <= last
  PROVE  /\ ResolvePeriod("custom", first, last) = Span(first, last)
         /\ ResolvePeriod("custom", last, first) = Span(first, last)
<1>1. first # Blank /\ last # Blank
  BY FiguresAssumption
<1>2. /\ Span(first, last) = [start |-> 4 * first, end |-> 4 * last + 2]
      /\ Span(last, first) = [start |-> 4 * last, end |-> 4 * first + 2]
  BY DEF Span, Moment, Midnight, EndOfDay
<1>3. ASSUME NEW from \in Int, NEW to \in Int
      PROVE  ResolvePeriod("custom", from, to)
               = IF Span(from, to).start > Span(from, to).end THEN Span(to, from) ELSE Span(from, to)
  <2>1. from # Blank /\ to # Blank
    BY FiguresAssumption
  <2> QED
    BY <2>1 DEF ResolvePeriod
<1>4. ResolvePeriod("custom", first, last) = Span(first, last)
  BY <1>2, <1>3
<1>5. CASE first = last
  BY <1>4, <1>5
<1>6. CASE first < last
  BY <1>2, <1>3, <1>4, <1>6
<1> QED
  BY <1>4, <1>5, <1>6

LEMMA SeriesAlwaysAgrees ==
  ASSUME FiguresInv, NEW days \in AllowedDays
  PROVE  SeriesAgrees(days)
<1>1. PICK n : Cut(Buckets(days), n) /\ Len(Buckets(days)) = n
  BY BucketsCut
<1>2. PICK bs : bs = Buckets(days)
  OBVIOUS
<1>3. PICK first, last : first = bs[1].start /\ last = bs[n].end - 1
  OBVIOUS
<1>4. first \in Int /\ last \in Int /\ first <= last /\ bs[n].end = last + 1
  <2>1. /\ 1 \in 1..n /\ n \in 1..n /\ n \in Nat
        /\ \A b \in 1..n : bs[b].start \in Int /\ bs[b].end \in Int /\ bs[b].start < bs[b].end
    <3>1. Cut(bs, n)
      BY <1>1, <1>2
    <3> QED
      BY <3>1 DEF Cut
  <2>2. n # 1 => bs[1].end <= bs[n].start
    BY <1>1, <1>2, <2>1, CutOrdered
  <2> QED
    BY <1>3, <2>1, <2>2
<1>5. SumFunction(Series(days)) = TotalOf(Between(4 * first, 4 * (last + 1) - 1))
  BY <1>1, <1>2, <1>3, <1>4, SeriesSum
<1>6. PICK sum : sum = SumFunction(Series(days))
  OBVIOUS
<1>7. Same(sum, "custom", first, last, last) /\ Same(sum, "custom", last, first, last)
  BY <1>4, <1>5, <1>6, CustomPeriod, SameAs
<1> QED
  BY <1>1, <1>2, <1>3, <1>6, <1>7 DEF SeriesAgrees

\* The last seven days are those of the week, the last day today.
LEMMA DaysAgree ==
  ASSUME FiguresInv, 7 \in AllowedDays
  PROVE  /\ Same(Series(7)[7], "today", Blank, Blank, today)
         /\ Same(SumFunction(Series(7)), "week", Blank, Blank, today)
<1>1. PICK bs : bs = Buckets(7)
  OBVIOUS
<1>2. today \in Int /\ today - 6 \in Int
  BY MonthIs DEF FiguresInv
<1>3. /\ Cut(bs, 7)
      /\ bs = [b \in 1..7 |-> [start |-> today - 7 + b, end |-> today - 7 + b + 1]]
  <2>1. PICK days \in AllowedDays : days = 7
    OBVIOUS
  <2>2. days <= 31 /\ bs = Buckets(days)
    BY <1>1, <2>1
  <2>3. /\ bs = [b \in 1..days |-> [start |-> today - days + b, end |-> today - days + b + 1]]
        /\ Cut(bs, days)
    BY <2>2, DaysCut
  <2> QED
    BY <2>1, <2>3
<1>4. bs[7].start = today /\ bs[7].end = today + 1 /\ bs[1].start = today - 6
  BY <1>2, <1>3
<1>5. /\ Series(7)[7] = TotalOf(Between(4 * today, 4 * (today + 1) - 1))
      /\ SumFunction(Series(7)) = TotalOf(Between(4 * (today - 6), 4 * (today + 1) - 1))
  BY <1>1, <1>3, <1>4, SeriesBucket, SeriesSum
<1>6. /\ ResolvePeriod("today", Blank, Blank) = Span(today, today)
      /\ ResolvePeriod("week", Blank, Blank) = Span(today - 6, today)
  BY DEF ResolvePeriod
<1>7. Same(Series(7)[7], "today", Blank, Blank, today)
  BY <1>2, <1>5, <1>6, SameAs
<1>8. Same(SumFunction(Series(7)), "week", Blank, Blank, today)
  <2>1. today - 6 <= today
    BY <1>2
  <2> QED
    BY <1>2, <1>5, <1>6, <2>1, SameAs
<1> QED
  BY <1>7, <1>8

\* Thirteen weeks are the quarter.
LEMMA WeeksAgree ==
  ASSUME FiguresInv, 90 \in AllowedDays
  PROVE  Same(SumFunction(Series(90)), "quarter", Blank, Blank, today)
<1>1. PICK bs : bs = Buckets(90)
  OBVIOUS
<1>2. today \in Int /\ today - 90 \in Int /\ today - 90 <= today /\ Weeks(90) = 13
  BY MonthIs DEF FiguresInv, Weeks
<1>3. /\ Cut(bs, 13)
      /\ bs = [b \in 1..13 |-> [start |-> today + 1 - 7 * (13 - b + 1), end |-> today + 1 - 7 * (13 - b)]]
  <2>1. PICK days \in AllowedDays : days = 90
    OBVIOUS
  <2>2. days > 31 /\ days <= 92 /\ bs = Buckets(days) /\ Weeks(days) = 13
    BY <1>1, <1>2, <2>1
  <2>3. /\ bs = [b \in 1..Weeks(days) |->
                 [start |-> today + 1 - 7 * (Weeks(days) - b + 1),
                  end   |-> today + 1 - 7 * (Weeks(days) - b)]]
        /\ Cut(bs, Weeks(days))
    BY <2>2, WeeksCut
  <2> QED
    BY <2>2, <2>3
<1>4. bs[1].start = today - 90 /\ bs[13].end = today + 1
  BY <1>2, <1>3
<1>5. SumFunction(Series(90)) = TotalOf(Between(4 * (today - 90), 4 * (today + 1) - 1))
  BY <1>1, <1>3, <1>4, SeriesSum
<1>6. ResolvePeriod("quarter", Blank, Blank) = Span(today - 90, today)
  BY DEF ResolvePeriod
<1> QED
  BY <1>2, <1>5, <1>6, SameAs

\* The last two of six months are the last one and this one.
LEMMA MonthsAgree ==
  ASSUME FiguresInv, 180 \in AllowedDays
  PROVE  LET m == MonthOf(today)  end == MonthStart[m + 1] - 1 IN
         /\ Same(Series(180)[5], "last_month", Blank, Blank, MonthStart[m] - 1)
         /\ Same(Series(180)[6], "custom", Blank, end, end)
<1>1. PICK bs, m : bs = Buckets(180) /\ m = MonthOf(today)
  OBVIOUS
<1>2. /\ m \in 12..(Len(MonthStart) - 1) /\ m \in Int /\ Len(MonthStart) \in Nat /\ Months(180) = 6
      /\ \A k \in 1..Len(MonthStart) : MonthStart[k] \in Int
  BY <1>1, MonthIs, CalendarGrows DEF FiguresInv, Months
<1>3. /\ Cut(bs, 6)
      /\ bs = [b \in 1..6 |-> [start |-> MonthStart[m - 6 + b], end |-> MonthStart[m - 6 + b + 1]]]
  <2>1. PICK days \in AllowedDays : days = 180
    OBVIOUS
  <2>2. days > 92 /\ bs = Buckets(days) /\ Months(days) = 6
    BY <1>1, <1>2, <2>1
  <2>3. /\ bs = [b \in 1..Months(days) |->
                 [start |-> MonthStart[MonthOf(today) - Months(days) + b],
                  end   |-> MonthStart[MonthOf(today) - Months(days) + b + 1]]]
        /\ Cut(bs, Months(days))
    BY <2>2, MonthsCut
  <2> QED
    BY <1>1, <2>2, <2>3
<1>4. m - 6 + 5 = m - 1 /\ m - 6 + 5 + 1 = m /\ m - 6 + 6 = m /\ m - 6 + 6 + 1 = m + 1
  BY <1>2
<1>5. /\ bs[5].start = MonthStart[m - 1] /\ bs[5].end = MonthStart[m]
      /\ bs[6].start = MonthStart[m] /\ bs[6].end = MonthStart[m + 1]
  BY <1>3, <1>4
<1>6. PICK a, b, c : a = MonthStart[m - 1] /\ b = MonthStart[m] /\ c = MonthStart[m + 1]
  OBVIOUS
<1>7. a \in Int /\ b \in Int /\ c \in Int /\ a <= b - 1 /\ b <= c - 1
  <2>1. bs[5].start \in Int /\ bs[5].end \in Int /\ bs[5].start < bs[5].end
    BY <1>3 DEF Cut
  <2>2. bs[6].start \in Int /\ bs[6].end \in Int /\ bs[6].start < bs[6].end
    BY <1>3 DEF Cut
  <2> QED
    BY <1>5, <1>6, <2>1, <2>2
<1>8. /\ Series(180)[5] = TotalOf(Between(4 * a, 4 * ((b - 1) + 1) - 1))
      /\ Series(180)[6] = TotalOf(Between(4 * b, 4 * ((c - 1) + 1) - 1))
  <2>1. (b - 1) + 1 = b /\ (c - 1) + 1 = c
    BY <1>7
  <2> QED
    BY <1>1, <1>3, <1>5, <1>6, <2>1, SeriesBucket
<1>9. ResolvePeriod("last_month", Blank, Blank) = Span(a, b - 1)
  BY <1>1, <1>6 DEF ResolvePeriod
<1>10. ResolvePeriod("custom", Blank, c - 1) = Span(b, c - 1)
  <2>1. c - 1 # Blank
    BY <1>7, FiguresAssumption
  <2>2. ~(Span(b, c - 1).start > Span(b, c - 1).end)
    BY <1>7 DEF Span, Moment, Midnight, EndOfDay
  <2> QED
    BY <1>1, <1>6, <2>1, <2>2 DEF ResolvePeriod
<1>11. Same(Series(180)[5], "last_month", Blank, Blank, b - 1)
  <2>1. b - 1 \in Int
    BY <1>7
  <2> QED
    BY <1>7, <1>8, <1>9, <2>1, SameAs
<1>12. Same(Series(180)[6], "custom", Blank, c - 1, c - 1)
  <2>1. c - 1 \in Int
    BY <1>7
  <2> QED
    BY <1>7, <1>8, <1>10, <2>1, SameAs
<1> QED
  BY <1>1, <1>6, <1>11, <1>12

\* Everything is within the calendar, so that a report over it leaves nothing out.
LEMMA OverviewAlwaysAgrees ==
  ASSUME FiguresInv
  PROVE  OverviewAgrees
<1>1. PICK span : span = Span(MonthStart[1], MonthStart[Len(MonthStart)] - 1)
  OBVIOUS
<1>2. \A i \in Entered : EntryOK(entry[i])
  BY DEF FiguresInv
<1>3. \A i \in Entered : entry[i].at \in span.start..span.end
  <2>1. span.start = Opens /\ span.end = Closes
    BY <1>1 DEF Span, Opens, Closes
  <2>2. Opens \in Int /\ Closes \in Int
    <3>1. MonthStart[1] \in Int /\ MonthStart[Len(MonthStart)] \in Int
      BY CalendarGrows
    <3> QED
      BY <3>1 DEF Opens, Closes, Moment, Midnight, EndOfDay
  <2> SUFFICES ASSUME NEW i \in Entered PROVE entry[i].at \in span.start..span.end
    OBVIOUS
  <2>3. entry[i].at \in Int /\ Opens <= entry[i].at /\ entry[i].at <= Closes
    BY <1>2 DEF EntryOK
  <2> QED
    BY <2>1, <2>2, <2>3
<1> DEFINE rows(kind) == {i \in Entered : entry[i].kind = kind /\ entry[i].at \in span.start..span.end}
           live(kind) == {i \in rows(kind) : ~entry[i].cancelled}
<1>4. /\ live("sale") = Live("sale") /\ live("purchase") = Live("purchase")
      /\ rows("expense") = Live("expense")
  BY <1>2, <1>3 DEF Live, EntryOK
<1> DEFINE owes == [i \in rows("sale") |-> IF i \in live("sale") THEN entry[i].total - entry[i].paid ELSE 0]
           due == [i \in Live("sale") |-> Max({0, entry[i].total - entry[i].paid})]
<1>5. /\ Section("sale", span).total = TotalOf(Live("sale"))
      /\ Section("purchase", span).total = TotalOf(Live("purchase"))
      /\ ExpenseSection(span).total = TotalOf(Live("expense"))
      /\ Section("sale", span).due = SumFunction(owes)
  BY <1>4 DEF Section, ExpenseSection
<1>6. Report(span).net = TotalOf(Live("sale")) - TotalOf(Live("purchase")) - TotalOf(Live("expense"))
  BY <1>5 DEF Report
<1>7. SumFunction(owes) = SumFunction(due)
  <2>1. ASSUME NEW i \in Entered
        PROVE  /\ entry[i].total - entry[i].paid \in Int
               /\ Max({0, entry[i].total - entry[i].paid}) = entry[i].total - entry[i].paid
    <3>1. entry[i].total \in Nat /\ entry[i].paid \in 0..entry[i].total
      BY <1>2 DEF EntryOK
    <3>2. entry[i].total - entry[i].paid \in Int /\ entry[i].total - entry[i].paid >= 0
      BY <3>1
    <3> QED
      BY <3>2, MaxOfTwo
  <2>2. PICK R, L, f, g : R = rows("sale") /\ L = Live("sale") /\ f = owes /\ g = due
    OBVIOUS
  <2>3. /\ L \in SUBSET R /\ R \in SUBSET Entered /\ IsFiniteSet(R) /\ IsFiniteSet(L)
        /\ DOMAIN f = R /\ DOMAIN g = L
    <3>1. R \in SUBSET Entered /\ L \in SUBSET R
      BY <1>4, <2>2
    <3> QED
      BY <2>2, <3>1, AmountsType, FS_Subset
  <2>4. \A i \in R : f[i] \in Int
    <3> SUFFICES ASSUME NEW i \in R PROVE f[i] \in Int
      OBVIOUS
    <3>1. f[i] = IF i \in live("sale") THEN entry[i].total - entry[i].paid ELSE 0
      BY <2>2
    <3>2. entry[i].total - entry[i].paid \in Int
      BY <2>1, <2>3
    <3> QED
      BY <3>1, <3>2
  <2>5. \A i \in R \ L : f[i] = 0
    BY <1>4, <2>2
  <2>6. \A i \in L : f[i] = g[i]
    BY <1>4, <2>1, <2>2, <2>3
  <2>7. SumFunctionOnSet(f, R) = SumFunctionOnSet(f, L)
    BY <2>3, <2>4, <2>5, SumWithoutZeros
  <2>8. SumFunctionOnSet(f, L) = SumFunctionOnSet(g, L)
    BY <2>3, <2>6, SumAgrees
  <2> QED
    BY <2>2, <2>3, <2>7, <2>8 DEF SumFunction
<1>8. Overview.sales - Overview.purchases - Overview.expenses = Report(span).net
  BY <1>6 DEF Overview
<1>9. Overview.outstanding = Report(span).sales.due
  BY <1>5, <1>7 DEF Overview, Report
<1> QED
  BY <1>1, <1>8, <1>9 DEF OverviewAgrees

\* Whatever is entered, cancelled and deleted, on whatever day, for every calendar,
\* tax rate and length of a series, the figures agree: the buckets of a series cut
\* its days into disjoint parts that leave no moment out, so that their sums add up
\* to the sum over all of it.
THEOREM FiguresAlwaysAgree == FiguresSpec => []FiguresAgree
<1>1. FiguresInit => FiguresInv
  BY FiguresInvInit
<1>2. FiguresInv /\ [FiguresNext]_figures => FiguresInv'
  BY FiguresInvNext
<1>3. FiguresInv => FiguresAgree
  BY SeriesAlwaysAgrees, DaysAgree, WeeksAgree, MonthsAgree, OverviewAlwaysAgrees
  DEF FiguresAgree, PresetsAgree
<1> QED
  BY <1>1, <1>2, <1>3, PTL DEF FiguresSpec

=================================================================================
