------------------------------- MODULE Phones --------------------------------
(***************************************************************************)
(* How telfed.go finds a phone number in a paragraph and brings it into a  *)
(* common form.  A paragraph is a sequence of words; of a word only what   *)
(* the code looks at is kept: a sign in front, the groups its digits are   *)
(* written in, and whether "tel:" is put in front of it.  The remaining     *)
(* characters are dropped by the code, too.                                *)
(***************************************************************************)
EXTENDS Naturals, Sequences, SequencesExt

CONSTANT Paragraphs   \* the texts that are looked at

VARIABLES text, marker, phone

phoneVars == <<text, marker, phone>>

None == [sign |-> "", tel |-> FALSE, groups |-> <<>>]

Digits(word) == FlattenSeq(word.groups)
Starts(ds, prefixes) == \E p \in prefixes : IsPrefix(p, ds)

Landline == {<<0, 2>>, <<0, 3>>, <<0, 4>>, <<0, 8>>, <<0, 9>>}

------------------------------------------------------------------------------

AllSame(ds) == \A i \in DOMAIN ds : ds[i] = ds[1]

Doubled(ds) == \E half \in 1..Len(ds) :
  /\ Len(ds) = 2 * half
  /\ SubSeq(ds, 1, half) = SubSeq(ds, half + 1, 2 * half)

MostlyZeros(ds) == Len(SelectSeq(ds, LAMBDA d : d = 0)) > Len(ds) \div 2

isValidPhone(word) ==
  LET ds == Digits(word)
  IN  /\ word.sign # "-"
      /\ Len(ds) \in 8..13
      /\ ~AllSame(ds) /\ ~Doubled(ds) /\ ~MostlyZeros(ds)
      /\ \/ Len(ds) = 10 /\ Starts(ds, Landline \union {<<0, 5>>, <<0, 7, 7>>})
         \/ Len(ds) \in 9..10 /\ Starts(ds, {<<9, 7, 2>>})
         \/ Len(ds) \in 10..13 /\ word.sign = "+"

\* The parts an Israeli number is cut into.  The sign in front is not among
\* the characters that are counted.
Cut(ds, from, to) == SubSeq(ds, Len(ds) - from + 1, Len(ds) - to)

normalizePhone(word) ==
  LET ds == Digits(word)
  IN  IF Starts(ds, {<<9, 7, 2>>}) /\ Len(ds) >= 12
        THEN [None EXCEPT !.sign = "+",
                !.groups = <<<<9, 7, 2>>, Cut(ds, 11, 9), Cut(ds, 9, 6), Cut(ds, 6, 0)>>]
      ELSE IF Starts(ds, {<<0>>}) /\ Len(ds) = 10
        THEN [None EXCEPT !.groups = <<Cut(ds, 10, 7), Cut(ds, 7, 4), Cut(ds, 4, 0)>>]
      ELSE word

------------------------------------------------------------------------------

AllGroups(ws) == FlattenSeq([i \in DOMAIN ws |-> ws[i].groups])

\* Two or three groups of digits of the whole text that make a number together.
extractPhonePattern(ws) ==
  LET gs == AllGroups(ws)
      joined == [None EXCEPT !.groups = gs]
      fits == \/ Len(gs) = 2
              \/ /\ Len(gs) = 3
                 /\ Len(gs[2]) = 3 /\ Len(gs[3]) >= 4
                 /\ \/ Len(gs[1]) = 3 /\ Starts(gs[1], Landline \union {<<0, 5>>})
                    \/ Len(gs[1]) = 2 /\ Starts(gs[1], Landline)
  IN  IF fits /\ isValidPhone(joined) THEN joined ELSE None

IsTel(word) == word.tel

\* The number behind the first "tel:", the first word that is a number, or one
\* that is spread over words.
findPhoneInText(ws) ==
  LET tel == SelectInSeq(ws, IsTel)
      valid == SelectInSeq(ws, isValidPhone)
      pattern == extractPhonePattern(ws)
  IN  IF tel # 0 /\ isValidPhone(ws[tel]) THEN normalizePhone(ws[tel])
      ELSE IF valid # 0 THEN normalizePhone(ws[valid])
      ELSE IF pattern # None THEN normalizePhone(pattern)
      ELSE None

\* "tel:" comes first and is taken as it is; then what follows a marker such
\* as "phone:", which stands before word number m; then the whole paragraph.
extractPhoneFromParagraph(ws, m) ==
  LET tel == SelectInSeq(ws, IsTel)
      marked == findPhoneInText(SubSeq(ws, m, Len(ws)))
  IN  IF tel # 0 /\ isValidPhone(ws[tel]) THEN ws[tel]
      ELSE IF marked # None THEN marked
      ELSE findPhoneInText(ws)

------------------------------------------------------------------------------

PhonesInit ==
  /\ text \in Paragraphs
  /\ marker \in 1..Len(text) + 1
  /\ phone = None

Extract ==
  /\ phone = None
  /\ phone' = extractPhoneFromParagraph(text, marker)
  /\ phone' # None
  /\ UNCHANGED <<text, marker>>

PhonesSpec == PhonesInit /\ [][Extract]_phoneVars

------------------------------------------------------------------------------

\* "Israeli international format: +972-XX-XXX-XXXX": a number that the search
\* has brought into the international form has two, three and four digits
\* behind the country's code, and they are those of a word (telfed.go:681).
InternationalFormat ==
  phone # None /\ phone.sign = "+" /\ ~Contains(text, phone)
    => /\ [g \in DOMAIN phone.groups |-> Len(phone.groups[g])] = <<3, 2, 3, 4>>
       /\ \E i \in DOMAIN text : Digits(phone) = Digits(text[i])
==============================================================================
