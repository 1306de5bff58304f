--------------------------------- MODULE Notes ---------------------------------
(***************************************************************************)
(* Smart Input: what a note or an order slip says, and the draft made of   *)
(* it against a catalogue.                                                 *)
(*                                                                         *)
(*   backend/app/ai/nlp.py        heuristic_parse, _normalize              *)
(*   backend/app/smart_input.py   best_match, ground_text, draft_from_image*)
(*                                                                         *)
(* A note is a sequence of tokens: <<"number", n>>, <<"word", w>>, or one  *)
(* of the words the parser knows, as Lang leaves it.  Case and punctuation *)
(* are abstracted away; script and spelling remain, as what a word folds   *)
(* to.                                                                     *)
(***************************************************************************)
EXTENDS Integers, Sequences, SequencesExt, FiniteSets

CONSTANTS
  Words,       \* the words of names, in any script
  FoldOf,      \* fold() and stem(): a function from Words
  BonesOf,     \* skeleton() of what they fold to; None, if it is a single letter
  ConceptOf,   \* concepts_in(): what goods a word stands for, a set
  ShortFolds,  \* folds of less than three letters
  None

ASSUME NotesAssumption ==
  /\ None \notin Words
  /\ DOMAIN FoldOf = Words /\ DOMAIN BonesOf = Words /\ DOMAIN ConceptOf = Words
  /\ \A w \in Words : IsFiniteSet(ConceptOf[w])

-----------------------------------------------------------------------------
(* Names.                                                                  *)

\* A name is a sequence of words, and what a note made part of it: a token of
\* another kind, like <<"to">>, that is spelt like itself only.
Fold(w) == IF w \in Words THEN FoldOf[w] ELSE w

\* What a single consonant or digit is left of is no key.
Bone(w) == IF w \in Words THEN BonesOf[w]
           ELSE IF w \in {<<"to">>, <<"at">>} \cup {<<"number", n>> : n \in 0..9} THEN None ELSE w

Tokens(name) == [i \in DOMAIN name |-> Fold(name[i])]
Bones(name)  == SelectSeq([i \in DOMAIN name |-> Bone(name[i])], LAMBDA b : b # None)
Concepts(name) == UNION {ConceptOf[w] : w \in ToSet(name) \cap Words}

\* _run_of(): whole words in a row, and not a single short one.
RunOf(haystack, needle) ==
  /\ needle # <<>> /\ Len(needle) <= Len(haystack)
  /\ ~(Len(needle) = 1 /\ needle[1] \in ShortFolds)
  /\ \E i \in 0..(Len(haystack) - Len(needle)) : SubSeq(haystack, i + 1, i + Len(needle)) = needle

EitherRuns(s, t) == RunOf(s, t) \/ RunOf(t, s)

\* The shorter of the two, of which every word is in the other.
AnyOrder(row, query) ==
  IF Len(query) <= Len(row) THEN query # <<>> /\ ToSet(query) \subseteq ToSet(row)
                            ELSE row # <<>> /\ ToSet(row) \subseteq ToSet(query)

\* best_match(): the rows of the first pass that has any.  The catalogue is read
\* in no order, so the first row of a pass may be any of them; the last pass
\* declines to choose.
Best(names, query) ==
  LET exact    == {i \in DOMAIN names : names[i] = query}
      words    == {i \in DOMAIN names : EitherRuns(Tokens(names[i]), Tokens(query))}
      concept  == {i \in DOMAIN names : Concepts(names[i]) \cap Concepts(query) # {}}
      anyorder == {i \in DOMAIN names : AnyOrder(Tokens(names[i]), Tokens(query))}
      bones    == {i \in DOMAIN names : EitherRuns(Bones(names[i]), Bones(query))} IN
  CASE query = <<>>   -> {None}
    [] query # <<>> /\ exact # {}                                        -> exact
    [] query # <<>> /\ exact = {} /\ words # {}                          -> words
    [] query # <<>> /\ exact \cup words = {} /\ concept # {}             -> concept
    [] query # <<>> /\ exact \cup words \cup concept = {} /\ anyorder # {} -> anyorder
    [] OTHER -> IF Cardinality(bones) = 1 THEN bones ELSE {None}

\* party_by_phone(): exact, or nothing.
ByPhone(phones, phone) ==
  LET hits == {i \in DOMAIN phones : phones[i] = phone} IN
  IF phone # None /\ Cardinality(hits) = 1 THEN hits ELSE {None}

-----------------------------------------------------------------------------
(* The heuristic parser.                                                   *)

IsNumber(t) == t[1] = "number"
IsWord(t)   == t[1] = "word"
IsUnit(t)   == t[1] = "unit"
HasDigits(t) == t[1] \in {"number", "percent"}
IsJoiner(t) == t[1] = "and"

\* STOP_WORDS, as far as the notes use them.
Markers   == {"to", "from", "for"}
BuyWords  == {"bought"}
WantWords == {"wants"}
CostWords == {"spent"}
StopWords == Markers \cup BuyWords \cup WantWords \cup CostWords
               \cup {"sold", "everything", "at", "discount"}
IsStop(t) == t[1] \in StopWords

Says(note, words) == \E i \in DOMAIN note : note[i][1] \in words

\* The first rule that applies decides.
EventType(note) ==
  CASE Says(note, BuyWords) -> "PURCHASE_CREATED"
    [] ~Says(note, BuyWords) /\ Says(note, WantWords) -> "ORDER_CREATED"
    [] /\ ~Says(note, BuyWords \cup WantWords)
       /\ Says(note, CostWords) \/ (Says(note, {"paid"}) /\ ~Says(note, {"to"})) -> "EXPENSE_ADDED"
    [] OTHER -> "SALE_CREATED"

\* The end of what belongs to position i: a stop word, or a number that is not
\* the last token.  The token after i belongs to it whatever it is.
EndOf(note, i) ==
  CHOOSE j \in (i + 2)..(Len(note) + 1) :
    /\ j = Len(note) + 1 \/ IsStop(note[j]) \/ (IsNumber(note[j]) /\ j < Len(note))
    /\ \A k \in (i + 2)..(j - 1) : ~IsStop(note[k]) /\ ~(IsNumber(note[k]) /\ k < Len(note))

\* Joiners go from both ends, if there is something else, and unit words from
\* anywhere.
Product(run) ==
  LET front == IF Len(run) > 1 /\ IsJoiner(Head(run)) THEN Tail(run) ELSE run
      both  == IF Len(front) > 1 /\ IsJoiner(Last(front)) THEN Front(front) ELSE front IN
  SelectSeq(both, LAMBDA t : ~IsUnit(t))

\* _read_items(): every quantity and its words; a note is a list.
ReadItems_First(note) ==
  LET S == {i \in DOMAIN note : IsNumber(note[i]) /\ i < Len(note)} IN
  IF S = {} THEN <<>>
  ELSE LET i == CHOOSE i \in S : \A k \in S : i <= k IN
       <<[product |-> Product(SubSeq(note, i + 1, EndOf(note, i) - 1)), quantity |-> note[i][2]]>>

ReadItems(note) ==
  LET read[i \in 1..(Len(note) + 1)] ==
        IF i >= Len(note) THEN <<>>
        ELSE IF ~IsNumber(note[i]) THEN read[i + 1]
        ELSE LET p == Product(SubSeq(note, i + 1, EndOf(note, i) - 1)) IN
             (IF p = <<>> THEN <<>> ELSE <<[product |-> p, quantity |-> note[i][2]]>>)
               \o read[EndOf(note, i)] IN
  read[1]

\* The phrase after the first to, from or for that no number follows.
PartyIn(note) ==
  LET S == {i \in 1..(Len(note) - 1) : note[i][1] \in Markers /\ ~HasDigits(note[i + 1])} IN
  IF S = {} THEN <<>>
  ELSE LET i == CHOOSE i \in S : \A k \in S : i <= k
           j == CHOOSE j \in (i + 2)..(Len(note) + 1) :
                  /\ j = Len(note) + 1 \/ IsStop(note[j]) \/ HasDigits(note[j])
                  /\ \A k \in (i + 2)..(j - 1) : ~IsStop(note[k]) /\ ~HasDigits(note[k]) IN
       SubSeq(note, i + 1, j - 1)

\* The number after "for", and for an expense any number.
FirstOf(note, S) == IF S = {} THEN None ELSE note[CHOOSE i \in S : \A k \in S : i <= k][2]
AmountIn(note) ==
  FirstOf(note, {i \in DOMAIN note : i > 1 /\ IsNumber(note[i]) /\ note[i - 1][1] = "for"})
FirstNumber(note) == FirstOf(note, {i \in DOMAIN note : HasDigits(note[i])})

\* parse_discount(), for percentages: "10%" is no quantity.
PercentIn(note) == LET d == FirstOf(note, {i \in DOMAIN note : note[i][1] = "percent"}) IN
                   IF d = None THEN 0 ELSE d

\* Tokens as a name.
Phrase(ts) == [i \in DOMAIN ts |-> IF IsWord(ts[i]) THEN ts[i][2] ELSE ts[i]]

\* heuristic_parse().  A quantity of zero counts as none.
Heuristic(note) ==
  LET type  == EventType(note)
      some(q) == IF q > 0 THEN q ELSE FirstNumber(note)
      items == ReadItems(note) IN
  IF type = "EXPENSE_ADDED"
  THEN [eventType |-> type, party |-> <<>>, lineItems |-> <<>>, all |-> FALSE, discount |-> 0,
        amount |-> IF AmountIn(note) # None THEN AmountIn(note) ELSE FirstNumber(note)]
  ELSE [eventType |-> type, party |-> Phrase(PartyIn(note)),
        lineItems |-> [i \in DOMAIN items |-> [product  |-> Phrase(items[i].product),
                                               quantity |-> some(items[i].quantity)]],
        all |-> Says(note, {"everything"}), discount |-> PercentIn(note), amount |-> AmountIn(note)]

\* _normalize(): what a model answered, with the lines that name nothing dropped
\* and a discount that is not negative.
Normalize(reply) ==
  [reply EXCEPT !.lineItems = SelectSeq(@, LAMBDA l : l.product # <<>>),
                !.discount  = IF @ > 0 THEN @ ELSE 0]

-----------------------------------------------------------------------------
(* Grounding: a draft against the catalogue as it is now.                  *)

\* _direction_from_party(): a party's own type decides.
Direction(types, x, said) ==
  IF x = None THEN said ELSE IF types[x] = "supplier" THEN "purchase" ELSE "sale"

BlankLine == [product |-> None, name |-> << <<"item">> >>, quantity |-> 1, price |-> 0]

\* In hundredths: round2(amount / quantity).
Share(amount, quantity) == (200 * amount + quantity) \div (2 * quantity)

\* One line of a note: at the catalogue's price, or a share of the amount when
\* it is the only one.
TextLine(cat, p, line, kind, parsed) ==
  LET qty == IF line.quantity # None /\ line.quantity > 0 THEN line.quantity ELSE 1 IN
  [product |-> p,
   name    |-> IF p # None THEN cat.name[p] ELSE line.product,
   quantity |-> qty,
   price   |-> IF p # None THEN cat.price[p][kind]
               ELSE IF parsed.amount \notin {None, 0} /\ Len(parsed.lineItems) = 1
               THEN Share(parsed.amount, qty) ELSE 0]

\* One line of a slip: the price on it counts first.
SlipLine(cat, p, line, kind) ==
  [product |-> p,
   name    |-> IF p # None THEN cat.name[p] ELSE line.product,
   quantity |-> IF line.quantity > 0 THEN line.quantity ELSE 1,
   price   |-> IF line.price # None /\ line.price > 0 THEN line.price
               ELSE IF p # None THEN cat.price[p][kind] ELSE 0]

NeverEmpty(lines) == IF lines = <<>> THEN <<BlankLine>> ELSE lines

\* Every way to match the lines against the catalogue.
Matchings(cat, lines) ==
  {c \in [DOMAIN lines -> DOMAIN cat.name \cup {None}] :
     \A i \in DOMAIN lines : c[i] \in Best(cat.name, lines[i].product)}

InStock(cat) == {p \in DOMAIN cat.stock : cat.stock[p] > 0}
AllStock(cat, kind) ==
  LET ps == SetToSeq(InStock(cat)) IN
  [i \in DOMAIN ps |-> [product |-> ps[i], name |-> cat.name[ps[i]],
                        quantity |-> cat.stock[ps[i]], price |-> cat.price[ps[i]]["sale"]]]

Said(eventType) == CASE eventType = "PURCHASE_CREATED" -> "purchase"
                     [] eventType = "EXPENSE_ADDED"    -> "expense"
                     [] OTHER                          -> "sale"

\* A discount is for sales.
Off(kind, discount) == IF kind = "sale" THEN discount ELSE 0

\* ground_text(): the drafts that a parsed note may give.
GroundText(cat, parsed) ==
  IF Said(parsed.eventType) = "expense"
  THEN {[type |-> "expense", party |-> None, lines |-> <<>>, amount |-> parsed.amount, discount |-> 0]}
  ELSE UNION {
    LET kind == Direction(cat.type, x, Said(parsed.eventType)) IN
    {[type |-> kind, party |-> x, amount |-> parsed.amount, discount |-> Off(kind, parsed.discount),
      lines |-> IF parsed.all /\ kind = "sale" /\ InStock(cat) # {} THEN AllStock(cat, kind)
                ELSE NeverEmpty([i \in DOMAIN c |->
                       TextLine(cat, c[i], parsed.lineItems[i], kind, parsed)])]
       : c \in Matchings(cat, parsed.lineItems)}
    : x \in Best(cat.party, parsed.party)}

\* draft_from_image(): the phone number first, then the name.
GroundSlip(cat, slip) ==
  LET phoned == ByPhone(cat.phone, slip.phone) IN
  UNION {
    LET kind == Direction(cat.type, x, slip.docType) IN
    {[type |-> kind, party |-> x, amount |-> slip.total, discount |-> Off(kind, slip.discount),
      lines |-> NeverEmpty([i \in DOMAIN c |-> SlipLine(cat, c[i], slip.lineItems[i], kind)])]
       : c \in Matchings(cat, slip.lineItems)}
    : x \in IF phoned # {None} THEN phoned ELSE Best(cat.party, slip.party)}

=============================================================================
