---------------------------------- MODULE Lang ----------------------------------
(***************************************************************************)
(* Hindi and Kannada notes, rewritten into the English shape that          *)
(* heuristic_parse() understands.                                          *)
(*                                                                         *)
(*   backend/app/ai/lang.py   normalize                                    *)
(*                                                                         *)
(* Three more kinds of token: <<"vernacular", t>>, a word of the vocabulary*)
(* that stands for the token t; a postposition, <<"ko">> (to) or <<"se">>  *)
(* (from), after a name; and <<"glued", w, m>>, the Kannada word w with    *)
(* the postposition for the marker m at its end.  Dates are left out.      *)
(***************************************************************************)
EXTENDS Notes

CONSTANT ScriptOf   \* the script of a word of a name

ASSUME LangAssumption == DOMAIN ScriptOf = Words

\* The vocabulary first, so that no word of it is taken apart.
Vocabulary(note) == [i \in DOMAIN note |-> IF note[i][1] = "vernacular" THEN note[i][2] ELSE note[i]]

\* "to Anita" where the postposition is glued to the word before.
Unglued(note) ==
  FlattenSeq([i \in DOMAIN note |->
    IF note[i][1] = "glued" THEN << <<note[i][3]>>, <<"word", note[i][2]>> >> ELSE <<note[i]>>])

\* What starts with a letter may be part of a name, except what the vocabulary
\* gives ("expense" for "spent", "entire stock" for "everything") and a few more.
Letters(t) == ~HasDigits(t)
NotAName(t) == t[1] \in {"sold", "bought", "wants", "spent", "unit", "and", "for", "at",
                         "everything", "discount"}

Script(t) == IF IsWord(t) THEN ScriptOf[t[2]] ELSE "latin"

\* The goods follow the quantity, with or without a unit.
AfterQuantity(note, i) == i > 1 /\ (HasDigits(note[i - 1]) \/ IsUnit(note[i - 1]))

\* _one_name(): whether the tokens at i and i + 1 are one name, as in "Anita
\* Stores ko", or goods and a name, as in "5 chawal Anita ko".
OneName(note, i) == /\ ~AfterQuantity(note, i)
                    /\ ~NotAName(note[i])
                    /\ Script(note[i]) = Script(note[i + 1])

\* _move_postposition(): one or two words before the postposition; the marker goes
\* before the name.
TwoWords(note, i, post, marker) ==
  LET kept == IF OneName(note, i) THEN <<>> ELSE <<note[i]>>
      name == IF OneName(note, i) THEN <<note[i], note[i + 1]>> ELSE <<note[i + 1]>> IN
  IF \E t \in ToSet(name) : NotAName(t) THEN <<note[i], note[i + 1], <<post>> >>
  ELSE kept \o << <<marker>> >> \o name

OneWord(note, i, post, marker) ==
  IF NotAName(note[i]) THEN <<note[i], <<post>> >> ELSE << <<marker>>, note[i] >>

MovePostposition(note, post, marker) ==
  LET After(i, n) == i + n <= Len(note) /\ note[i + n] = <<post>>
                       /\ \A k \in i..(i + n - 1) : Letters(note[k])
      move[i \in 1..(Len(note) + 1)] ==
        IF i > Len(note) THEN <<>>
        ELSE IF After(i, 2) THEN TwoWords(note, i, post, marker) \o move[i + 3]
        ELSE IF After(i, 1) THEN OneWord(note, i, post, marker) \o move[i + 2]
        ELSE <<note[i]>> \o move[i + 1] IN
  move[1]

\* normalize(): nothing happens to a note in English.
Rewritten(note) ==
  MovePostposition(MovePostposition(Unglued(Vocabulary(note)), "ko", "to"), "se", "from")

=============================================================================
