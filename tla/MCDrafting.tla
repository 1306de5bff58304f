------------------------------- MODULE MCDrafting -------------------------------
(***************************************************************************)
(* Provider, Drafting and Figures share no state: a behaviour takes the    *)
(* steps of one of them, so that their states add up and do not multiply.  *)
(***************************************************************************)
EXTENDS Provider, Drafting, Figures, TLC

CONSTANTS c1, c2, q1, q2, i1, i2, p1, p2, x1, x2,
          anita, anitaHi, stores, ram, rice, basmati, flour, chawal, tea,
          phone1

\* anitaHi is Anita in another script; chawal is a word for rice.
MCFold  == [w \in Words |-> IF w = anitaHi THEN anita ELSE w]
MCBones == [w \in Words |-> IF w = tea THEN None ELSE MCFold[w]]
MCScript == [w \in Words |-> IF w = anitaHi THEN "devanagari" ELSE "latin"]
MCConcept == [w \in Words |-> IF w \in {rice, chawal} THEN {"rice"} ELSE IF w = tea THEN {"tea"} ELSE {}]

Price(s, p) == [sale |-> s, purchase |-> p]
MCGoods == p1 :> [name |-> <<rice, basmati>>,   price |-> Price(5, 4), stock |-> 3]
        @@ p2 :> [name |-> <<tea>>,         price |-> Price(2, 1), stock |-> 2]
MCPeople == x1 :> [name |-> <<anita, stores>>, type |-> "customer", phone |-> phone1]
         @@ x2 :> [name |-> <<ram>>,           type |-> "supplier", phone |-> None]

MCPrices == {Price(2, 1)}

Line(w, n, ps) == [product |-> w, quantity |-> n, means |-> ps]
Order(verb, x, who, ls, off) ==
  [verb |-> verb, party |-> x, whom |-> who, lines |-> ls, all |-> FALSE, discount |-> off,
   amount |-> None, for |-> <<>>]

MCOrders ==
  {Order("sold",   <<anita, stores>>, {x1}, <<Line(<<rice>>, 2, {p1}), Line(<<tea>>, 1, {p2})>>, 0),
   Order("wants",  <<ram>>,     {x2}, <<Line(<<chawal, basmati>>, 3, {p1})>>, 0),
   Order("bought", <<ram>>,     {x2}, <<Line(<<basmati>>, 1, {p1})>>, 0),
   [Order("sold",  <<anitaHi>>, {x1}, <<>>, 10) EXCEPT !.all = TRUE],
   [Order("spent", <<>>,        {},   <<>>, 0)  EXCEPT !.amount = 12, !.for = <<tea>>]}

MCPens ==
  {pen \in [tongue : {"english", "apart", "glued"}, first : BOOLEAN, joined : BOOLEAN,
            units : BOOLEAN, price : {"none", "last", "each"}] :
     (pen.price # "none" => ~pen.first /\ pen.tongue = "english") /\ (pen.units = pen.joined)}

MCSlips ==
  {[docType |-> "sale", party |-> <<ram>>, phone |-> phone1, total |-> None, discount |-> 0,
    lineItems |-> <<[product |-> <<tea, flour>>, quantity |-> 0, price |-> 3],
                    [product |-> <<flour>>, quantity |-> 9, price |-> None]>>]}

Doc(k, ls, off, d, paid, ago, at) ==
  [kind |-> k, lines |-> ls, off |-> off, discount |-> d, paid |-> paid, ago |-> ago, part |-> at]

\* Both ends of each period and of each bucket, at both ends of a day.
MCInputs ==
  {Doc("sale", << <<3, 5>> >>, "percentage", 10, 7, ago, at) :
     ago \in {-1, 0, 6, 29, 83, 84, 90, 91}, at \in {Midnight, EndOfDay, After}}
  \cup {Doc("sale", << <<1, 9>>, <<2, 1>> >>, "amount", 4, 99, ago, Noon) : ago \in {0, 28, 32, 366}}
  \cup {Doc("sale", << <<1, 3>> >>, "amount", 4, 0, 0, Noon),
        Doc("purchase", << <<2, 7>> >>, "none", 0, 3, 2, Noon),
        Doc("expense", << <<1, 6>> >>, "none", 0, 0, 1, Noon)}

\* Two years from a January, the second a leap year; open at the end of its February.
Calendar == <<0, 31, 59, 90, 120, 151, 181, 212, 243, 273, 304, 334,
              365, 396, 425, 456, 486, 517, 547, 578, 609, 639, 670, 700, 731>>

VARIABLE part

Init == /\ part \in {"provider", "drafting", "figures"}
        /\ ProviderInit
        /\ DraftingInit
        /\ FiguresInit

Next == \/ part = "provider" /\ ProviderNext /\ UNCHANGED <<part, drafting, figures>>
        \/ part = "drafting" /\ DraftingNext /\ UNCHANGED <<part, provider, figures>>
        \/ part = "figures"  /\ FiguresNext  /\ UNCHANGED <<part, provider, drafting>>

Spec == Init /\ [][Next]_<<part, provider, drafting, figures>>

Symmetry == Permutations({q1, q2})
=============================================================================
