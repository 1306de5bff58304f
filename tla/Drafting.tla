------------------------------- MODULE Drafting -------------------------------
(***************************************************************************)
(* From an order to a document: somebody writes or photographs an order, it*)
(* becomes a draft, and later somebody confirms the draft.                 *)
(*                                                                         *)
(*   backend/app/smart_input.py        drafts, publish_draft               *)
(*   backend/app/routers/input.py      the requests                        *)
(*   backend/app/routers/catalog.py, backend/app/domain/catalog.py         *)
(*                                     products and parties, meanwhile     *)
(*   backend/app/domain/line_items.py  the checks of a document            *)
(*                                                                         *)
(* Nothing holds the catalogue still: prices, types and rows change between*)
(* the draft and its confirmation, and between the checks of a request and *)
(* its commit.  Balances and cancelling are the subject of Ledger.         *)
(***************************************************************************)
EXTENDS Lang

CONSTANTS
  Products, Parties,
  Orders,     \* what people want to record: [verb, party, lines, all, amount, discount],
              \* with what the words mean: [whom] of an order, [means] of a line
  Pens,       \* ways to write an order: [tongue, first, joined, units, price]
  Slips,      \* what the readers of images make of a photograph
  Goods, People,  \* the catalogue at the start: records per product and per party
  Prices,     \* what a price is changed to
  Drafts,     \* pool of drafts
  HasKey, HasOcr,   \* settings: a provider, and OCR.space
  MaxQuantity, MaxPrice,  \* MAX_QUANTITY, MAX_UNIT_PRICE
  MaxChanges  \* bound: edits of the catalogue

ASSUME DraftingAssumption ==
  /\ {HasKey, HasOcr} \subseteq BOOLEAN /\ {MaxQuantity, MaxPrice, MaxChanges} \subseteq Nat
  /\ None \notin Products \cup Parties
  /\ DOMAIN Goods \subseteq Products /\ DOMAIN People \subseteq Parties
  /\ IsFiniteSet(Drafts)

VARIABLES
  goods,     \* products: a function from those that exist to [name, price, stock]
  people,    \* parties, likewise: [name, type, phone]
  desk,      \* drafts: where each is
  document,  \* what was recorded from a draft
  deleting,  \* products that a request has found on no document
  overlapped, \* history: pairs of drafts whose confirmations overlapped
  raced,     \* history: <<draft, product>> recorded while the product was being deleted
  changes

drafting == <<goods, people, desk, document, deleting, overlapped, raced, changes>>

Untouched == [step |-> "blank"]

DraftingInit ==
  /\ goods = Goods /\ people = People
  /\ desk = [q \in Drafts |-> Untouched]
  /\ document = [q \in Drafts |-> None]
  /\ deleting = {} /\ overlapped = {} /\ raced = {} /\ changes = 0

\* Drafts that are still to be made, and those that have become documents.
Blanks == {q \in Drafts : desk[q] = Untouched}
Recorded == {q \in Drafts : desk[q].step \in {"recorded", "applied"}}

\* _load_tenant().
Catalogue ==
  [name  |-> [p \in DOMAIN goods |-> goods[p].name],
   price |-> [p \in DOMAIN goods |-> goods[p].price],
   stock |-> [p \in DOMAIN goods |-> goods[p].stock],
   party |-> [x \in DOMAIN people |-> people[x].name],
   type  |-> [x \in DOMAIN people |-> people[x].type],
   phone |-> [x \in DOMAIN people |-> people[x].phone]]

-----------------------------------------------------------------------------
(* Writing an order down.                                                  *)

Spell(name) == [i \in DOMAIN name |-> <<"word", name[i]>>]

\* What a note says of money.
Money == 12

WriteLines(lines, pen) ==
  FlattenSeq([i \in DOMAIN lines |->
    (IF i > 1 /\ pen.joined THEN << <<"and">> >> ELSE <<>>)
      \o << <<"number", lines[i].quantity>> >>
      \o (IF pen.units THEN << <<"unit">> >> ELSE <<>>)
      \o Spell(lines[i].product)
      \o (IF pen.price = "each" THEN << <<"for">>, <<"number", Money>> >> ELSE <<>>)])

\* "sold 5 kg rice and 2 tea to Anita at 10% for 1200", "sold 5 rice for 1200 to
\* Anita", "from Anita 5 rice bought", "sold everything to Anita", "spent 12 for tea".
WriteEnglish(order, pen) ==
  LET verb  == << <<order.verb>> >>
      whom  == IF order.party = <<>> THEN <<>>
               ELSE << <<IF order.verb = "bought" THEN "from" ELSE "to">> >> \o Spell(order.party)
      what  == IF order.all THEN << <<"everything">> >> ELSE WriteLines(order.lines, pen)
      price == IF pen.price = "last" THEN << <<"for">>, <<"number", Money>> >> ELSE <<>>
      off   == IF order.discount > 0 THEN << <<"at">>, <<"percent", order.discount>> >> ELSE <<>> IN
  CASE order.verb = "spent" -> verb \o << <<"number", order.amount>>, <<"for">> >> \o Spell(order.for)
    [] order.verb # "spent" /\ pen.first -> whom \o what \o verb \o off
    [] OTHER -> verb \o what \o whom \o off \o price

\* "Anita ko 5 kilo chawal aur 2 chai becha", "5 chawal Anita ko becha", and with
\* the postposition at the end of the name: the verb is last.
WriteVerbLast(order, pen) ==
  LET name  == Spell(order.party)
      whom  == IF name = <<>> THEN <<>>
               ELSE IF pen.tongue = "glued"
               THEN Front(name) \o << <<"glued", Last(order.party),
                                        IF order.verb = "bought" THEN "from" ELSE "to">> >>
               ELSE Append(name, <<IF order.verb = "bought" THEN "se" ELSE "ko">>)
      known == {"unit", "everything"}
      lines == IF order.all THEN << <<"everything">> >>
               ELSE IF order.verb = "spent" THEN Append(Spell(order.for), <<"number", order.amount>>)
               ELSE WriteLines(order.lines, pen)
      what  == [i \in DOMAIN lines |-> IF lines[i][1] \in known THEN <<"vernacular", lines[i]>> ELSE lines[i]]
      off   == IF order.discount = 0 THEN <<>>
               ELSE << <<"percent", order.discount>>, <<"vernacular", <<"discount">> >> >> IN
  (IF pen.first THEN whom \o what ELSE what \o whom) \o << <<"vernacular", <<order.verb>> >> >> \o off

Write(order, pen) == IF pen.tongue = "english" THEN WriteEnglish(order, pen)
                     ELSE WriteVerbLast(order, pen)

\* A model that understands the order answers with it, and with things nobody
\* asked for.
Reply(order) ==
  [eventType |-> CASE order.verb = "bought" -> "PURCHASE_CREATED" [] order.verb = "sold" -> "SALE_CREATED"
                   [] order.verb = "wants" -> "ORDER_CREATED" [] order.verb = "spent" -> "EXPENSE_ADDED",
   party |-> order.party, all |-> order.all, amount |-> order.amount,
   discount  |-> IF order.discount > 0 THEN order.discount ELSE -1,
   lineItems |-> Append([i \in DOMAIN order.lines |-> [product  |-> order.lines[i].product,
                                                        quantity |-> order.lines[i].quantity]],
                        [product |-> <<>>, quantity |-> None])]

\* Where the rules misread a note.  A price that is not its last word is a
\* quantity to them, of whatever follows: of the name, of a joining word, or of the
\* next line, which is lost.  Of two words of goods before one word of a name with
\* a postposition, the second goes to the name.
Misread(order, pen) ==
  {m \in {"priced", "unjoined", "halved"} :
     CASE m = "priced"   -> pen.price = "each" /\ order.lines # <<>>
       [] m = "unjoined" -> pen.price = "each" /\ ~pen.joined /\ Len(order.lines) > 1
       [] m = "halved"   -> /\ pen.tongue = "apart" /\ ~pen.first /\ Len(order.party) = 1
                            /\ order.lines # <<>> /\ Len(Last(order.lines).product) > 1}

-----------------------------------------------------------------------------
(* Drafts.                                                                 *)

\* What it is drafted from is kept: the order, and how the rules misread it.
Drafted(q, draft, said) ==
  /\ desk' = [desk EXCEPT ![q] = [step |-> "drafted", draft |-> draft, said |-> said,
                                  cat |-> [stock |-> Catalogue.stock, type |-> Catalogue.type]]]
  /\ UNCHANGED <<goods, people, document, deleting, overlapped, raced, changes>>

\* parse_command(): the provider's answer, if there is a provider and it gives one;
DraftFromReply(q, order) ==
  /\ HasKey
  /\ \E draft \in GroundText(Catalogue, Normalize(Reply(order))) :
       Drafted(q, draft, [order |-> order, misread |-> {}])

\* What the rules make of a note, which no state changes.
Heard == [order \in Orders, pen \in Pens |-> Heuristic(Rewritten(Write(order, pen)))]

\* otherwise - there is none, it fails, is skipped or answers junk - the heuristic
\* parser.
DraftFromText(q, order, pen) ==
  \E draft \in GroundText(Catalogue, Heard[order, pen]) :
    Drafted(q, draft, [order |-> order, misread |-> Misread(order, pen)])

\* read_image(): a vision model first, then OCR.space, if they are set; a slip that
\* neither can read is an error, and leaves nothing.
DraftFromImage(q, slip) ==
  /\ HasKey \/ HasOcr
  /\ \E draft \in GroundSlip(Catalogue, slip) : Drafted(q, draft, None)

-----------------------------------------------------------------------------
(* publish_draft().                                                        *)

\* The form names the kind in "type"; a draft that is published as it is, from
\* the queue of inbound orders, in "suggestedType".
KindOf_TypeOnly(form, draft) == IF form THEN draft.type ELSE "sale"
KindOf(form, draft) == draft.type

\* clean_line_items().
Kept(lines) == SelectSeq(lines, LAMBDA l : l.name # <<>> /\ l.quantity > 0)

Wanted(lines, p) == FoldSeq(LAMBDA l, n : n + IF l.product = p THEN l.quantity ELSE 0, 0, lines)

\* The checks of create_sale(), create_purchase() and create_expense(), against
\* the rows as they are now.
Acceptable(kind, draft, lines) ==
  IF kind = "expense" THEN draft.amount # None /\ draft.amount > 0
  ELSE /\ lines # <<>>
       /\ \A i \in DOMAIN lines : lines[i].quantity <= MaxQuantity /\ lines[i].price <= MaxPrice
       /\ draft.party \in DOMAIN people \cup {None}
       /\ \A i \in DOMAIN lines : lines[i].product \in DOMAIN goods \cup {None}
       /\ kind = "sale" =>
            /\ \A p \in DOMAIN goods : Wanted(lines, p) <= goods[p].stock
            /\ draft.discount <= 100 \/ \A i \in DOMAIN lines : lines[i].price = 0

Moved(kind, lines, p) == IF kind = "sale" THEN -Wanted(lines, p) ELSE Wanted(lines, p)

\* Invoices and orders are counted, and the count is one more.
Numbered_Known(kind) ==
  1 + Cardinality({q \in Recorded : document[q].kind = kind /\ document[q].party # None})
Numbered(kind) == 1 + Cardinality({q \in Recorded : document[q].kind = kind})

Confirm(q, form) ==
  LET draft == desk[q].draft
      kind  == KindOf(form, draft)
      lines == IF kind = "expense" THEN <<>> ELSE Kept(draft.lines) IN
  /\ desk[q].step = "drafted"
  /\ Acceptable(kind, draft, lines)
  /\ desk' = [desk EXCEPT ![q] =
       [step |-> "checked", draft |-> draft, said |-> @.said, cat |-> @.cat,
        doc  |-> [kind |-> kind, party |-> draft.party, lines |-> lines,
                  discount |-> draft.discount, number |-> Numbered(kind),
                  amount |-> IF kind = "expense" THEN draft.amount ELSE None]]]
  /\ overlapped' = overlapped \cup {{q, r} : r \in {d \in Drafts : desk[d].step = "checked"}}
  /\ UNCHANGED <<goods, people, document, deleting, raced, changes>>

Named(doc) == {doc.lines[i].product : i \in DOMAIN doc.lines} \ {None}

\* The commit: a row that the document names and that is gone meanwhile fails it,
\* and the draft can be confirmed again.
Record(q) ==
  LET doc == desk[q].doc IN
  /\ desk[q].step = "checked"
  /\ IF Named(doc) \subseteq DOMAIN goods /\ doc.party \in DOMAIN people \cup {None}
     THEN /\ document' = [document EXCEPT ![q] = doc]
          /\ desk'  = [desk EXCEPT ![q] = [step |-> "recorded", draft |-> @.draft,
                                           said |-> @.said, cat |-> @.cat]]
          /\ raced' = raced \cup {<<q, p>> : p \in Named(doc) \cap deleting}
     ELSE /\ desk' = [desk EXCEPT ![q] = [step |-> "drafted", draft |-> @.draft,
                                          said |-> @.said, cat |-> @.cat]]
          /\ UNCHANGED <<document, raced>>
  /\ UNCHANGED <<goods, people, deleting, overlapped, changes>>

\* The worker, later: the goods of the lines that still name some.
ApplyInventory(q) ==
  /\ desk[q].step = "recorded" /\ document[q].kind # "expense"
  /\ goods' = [p \in DOMAIN goods |->
               [goods[p] EXCEPT !.stock = @ + Moved(document[q].kind, document[q].lines, p)]]
  /\ desk' = [desk EXCEPT ![q].step = "applied"]
  /\ UNCHANGED <<people, document, deleting, overlapped, raced, changes>>

-----------------------------------------------------------------------------
(* The catalogue, meanwhile.                                               *)

Change ==
  /\ changes < MaxChanges
  /\ changes' = changes + 1

UpdateProduct(p, price) ==
  /\ p \in DOMAIN goods /\ goods[p].price # price
  /\ Change
  /\ goods' = [goods EXCEPT ![p].price = price]
  /\ UNCHANGED <<people, desk, document, deleting, overlapped, raced>>

UpdateParty(x, type) ==
  /\ x \in DOMAIN people /\ people[x].type # type
  /\ Change
  /\ people' = [people EXCEPT ![x].type = type]
  /\ UNCHANGED <<goods, desk, document, deleting, overlapped, raced>>

Without(f, x) == [y \in DOMAIN f \ {x} |-> f[y]]

\* ON DELETE SET NULL, on the documents and on their lines.
Struck(line) == [product |-> None, name |-> line.name, quantity |-> line.quantity, price |-> line.price]

DeleteParty(x) ==
  /\ x \in DOMAIN people
  /\ Change
  /\ people' = Without(people, x)
  /\ document' = [q \in Drafts |-> IF q \in Recorded /\ document[q].party = x
                                   THEN [document[q] EXCEPT !.party = None] ELSE document[q]]
  /\ UNCHANGED <<goods, desk, deleting, overlapped, raced>>

\* delete_product(): refused for a product that is on a document.
OnDocument_Sales(p) == \E q \in Recorded : document[q].kind = "sale" /\ p \in Named(document[q])
OnDocument(p) == \E q \in Recorded : p \in Named(document[q])

CheckDelete(p) ==
  /\ p \in DOMAIN goods \ deleting
  /\ ~OnDocument(p)
  /\ Change
  /\ deleting' = deleting \cup {p}
  /\ UNCHANGED <<goods, people, desk, document, overlapped, raced>>

DeleteProduct(p) ==
  /\ p \in deleting
  /\ goods'    = Without(goods, p)
  /\ deleting' = deleting \ {p}
  /\ document' = [q \in Drafts |->
       IF q \notin Recorded THEN document[q]
       ELSE [document[q] EXCEPT !.lines = [i \in DOMAIN @ |-> IF @[i].product = p THEN Struck(@[i]) ELSE @[i]]]]
  /\ UNCHANGED <<people, desk, overlapped, raced, changes>>

-----------------------------------------------------------------------------

DraftingNext ==
  \/ \E q \in Blanks, o \in Orders : DraftFromReply(q, o)
  \/ \E q \in Blanks, o \in Orders, pen \in Pens : DraftFromText(q, o, pen)
  \/ \E q \in Blanks, s \in Slips : DraftFromImage(q, s)
  \/ \E q \in Drafts, form \in BOOLEAN : Confirm(q, form)
  \/ \E q \in Drafts : Record(q)
  \/ \E q \in Drafts : ApplyInventory(q)
  \/ \E p \in Products, price \in Prices : UpdateProduct(p, price)
  \/ \E x \in Parties, type \in {"customer", "supplier"} : UpdateParty(x, type)
  \/ \E x \in Parties : DeleteParty(x)
  \/ \E p \in Products : CheckDelete(p)
  \/ \E p \in Products : DeleteProduct(p)

DraftingSpec == DraftingInit /\ [][DraftingNext]_drafting
-----------------------------------------------------------------------------

HasDraft(q) == desk[q].step # "blank"

\* What it finds of a name is one of the rows that are meant, if any is there.
Found(row, meant, rows) == IF meant \cap rows # {} THEN row \in meant ELSE row = None

\* A draft of a note says what the note says, whether a model or the rules read it,
\* with the name first or last, in either script, with joining words and units:
\* every line, its quantity and its goods, the party, the direction - which a known
\* party's own type decides - the discount of a sale, the amount of an expense.  Of
\* a note with a price before the name there are more lines than that, each of a
\* price, and the lines that follow a price at once are lost; where goods are
\* halved, these and the party may be wrong.  That is all that goes wrong, and the
\* confirmation will leave no line out, nor one of a slip.
NothingDropped ==
  \A q \in Drafts : HasDraft(q) =>
    LET said == desk[q].said  draft == desk[q].draft  cat == desk[q].cat IN
    /\ Kept(draft.lines) = draft.lines
    /\ said # None =>
       LET order == said.order
           asked == IF "unjoined" \in said.misread THEN <<Head(order.lines)>> ELSE order.lines
           lines == SelectSeq(draft.lines, LAMBDA l : "priced" \in said.misread => l.quantity # Money) IN
       IF order.verb = "spent" THEN draft.type = "expense" /\ draft.amount = order.amount
       ELSE /\ "halved" \in said.misread \/ Found(draft.party, order.whom, DOMAIN cat.type)
            /\ draft.type = IF draft.party # None
                            THEN IF cat.type[draft.party] = "supplier" THEN "purchase" ELSE "sale"
                            ELSE IF order.verb = "bought" THEN "purchase" ELSE "sale"
            /\ draft.discount = IF draft.type = "sale" THEN order.discount ELSE 0
            /\ IF order.all
               THEN draft.type = "sale" =>
                      {<<l.product, l.quantity>> : l \in ToSet(draft.lines)} =
                        IF InStock(cat) = {} THEN {<<None, 1>>}
                        ELSE {<<p, cat.stock[p]>> : p \in InStock(cat)}
               ELSE /\ Len(lines) = Len(asked)
                    /\ \A i \in DOMAIN asked :
                         /\ lines[i].quantity = asked[i].quantity
                         /\ \/ "halved" \in said.misread /\ i = Len(asked)
                            \/ Found(lines[i].product, asked[i].means, DOMAIN cat.stock)

\* "Words that can never be part of a party or product name" (ai/nlp.py:297): no
\* line that the rules read from a note is of something with such a word in its
\* name.
NamesWithoutStopWords ==
  \A q \in Drafts : HasDraft(q) =>
    \A i \in DOMAIN desk[q].draft.lines :
      \A t \in ToSet(desk[q].draft.lines[i].name) : t \notin {<<w>> : w \in StopWords}

\* What is recorded is what the draft said when somebody agreed to it, with the
\* kind, the goods, quantities and prices it had then, and bought from a supplier
\* or sold to a customer - whatever became of prices, types and rows meanwhile,
\* and whichever way it was published.  Only a deleted party is no longer named,
\* and lines without a name or a quantity are left out.
DocumentIsDraft ==
  \A q \in Recorded :
    LET doc == document[q]  draft == desk[q].draft  cat == desk[q].cat  agreed == Kept(draft.lines) IN
    /\ doc.kind = draft.type
    /\ draft.party # None => (doc.kind = "purchase") = (cat.type[draft.party] = "supplier")
    /\ doc.party = draft.party \/ (doc.party = None /\ draft.party \notin DOMAIN people)
    /\ doc.discount = draft.discount
    /\ IF doc.kind = "expense" THEN doc.amount = draft.amount
       ELSE /\ DOMAIN doc.lines = DOMAIN agreed
            /\ \A i \in DOMAIN doc.lines :
                 <<doc.lines[i].quantity, doc.lines[i].price>> = <<agreed[i].quantity, agreed[i].price>>

\* A product that is on a document can't be deleted, so that a line goes on naming
\* its goods; unless the document came while a request that had found none was
\* about to delete the product.
LinesNameGoods ==
  \A q \in Recorded :
    \A i \in DOMAIN document[q].lines :
      LET p == Kept(desk[q].draft.lines)[i].product IN
      \/ /\ document[q].lines[i].product = p
         /\ p \in DOMAIN goods \cup {None}
      \/ <<q, p>> \in raced /\ document[q].lines[i].product = None /\ p \notin DOMAIN goods

\* A number of an invoice or of an order is given twice only to two documents that
\* were confirmed at once: nothing locks the count, and deleting parties and
\* products does not lower it.
NumbersDiffer ==
  \A q, r \in Recorded :
    /\ q # r
    /\ document[q].kind = document[r].kind /\ document[q].kind # "expense"
    /\ document[q].number = document[r].number
    => {q, r} \in overlapped

=============================================================================
