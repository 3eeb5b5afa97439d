------------------------------ MODULE ImportFiles -------------------------------
(* What an import makes of a file: which field each column is taken for, and    *)
(* what each cell of a row is read as.  A behaviour is one file: its columns    *)
(* are mapped, or one of its rows is normalised.  Signs, currencies, and dates  *)
(* in words are left out.                                                       *)
EXTENDS Naturals, Sequences, FiniteSets, FiniteSetsExt, Functions

CONSTANTS
  Columns,  \* how many headers the file has
  Targets,  \* the fields of the entity, in the order they are offered
  Needed,   \* those that are required
  Wholes,   \* whole units of the amounts in the file
  Unread    \* nothing, and what cannot be read

ASSUME ImportFilesAssumption ==
  /\ Columns \in Nat /\ Targets \subseteq Nat /\ Needed \subseteq Targets /\ Wholes \subseteq Nat
  /\ Unread \notin Targets

VARIABLES
  file,   \* what was uploaded
  result  \* what was made of it

fileVars == <<file, result>>

Headers == 1..Columns

\* equal: the header is the label, the key or an alias of the field; contains: one
\* of them contains the header or is contained in it.
Likeness == [Headers \X Targets -> {"no", "contains", "equal"}]

-----------------------------------------------------------------------------
(* What people write                                                        *)

\* A text of an amount is a sequence of digits and of the two marks.
Point == 10
Comma == 11
Other(mark) == IF mark = Point THEN Comma ELSE Point

Digits[n \in Nat] == IF n < 10 THEN <<n>> ELSE Append(Digits[n \div 10], n % 10)

\* The last three digits follow behind a mark.
WithGroup(text, mark, n) == text \o <<mark, (n \div 100) % 10, (n \div 10) % 10, n % 10>>

Grouped(mark, whole) ==
  LET text[n \in Nat] ==
        IF n < 1000 THEN Digits[n] ELSE WithGroup(text[n \div 1000], mark, n)
  IN text[whole]

\* Whole units in groups or not, with two decimals or with none.
Amount == [whole : Wholes, cents : {0, 5, 99}, mark : {Point, Comma},
           grouped : BOOLEAN, decimals : BOOLEAN]

AmountText(m) ==
  (IF m.grouped THEN Grouped(Other(m.mark), m.whole) ELSE Digits[m.whole])
    \o IF m.decimals THEN <<m.mark, m.cents \div 10, m.cents % 10>> ELSE <<>>

AmountMeant(m) == 100 * m.whole + IF m.decimals THEN m.cents ELSE 0

\* Whole units with one group and no decimals: a mark that may be either kind.
InOneGroup(n) == n >= 1000 /\ n < 1000000

Ambiguous(m) == m.grouped /\ ~m.decimals /\ InOneGroup(m.whole)

Orders == {"DMY", "MDY", "ISO"}

\* Dates as they are written in one of the orders, whether there is such a day or
\* not; one that starts with its year has all of it.
DateText ==
  {d \in [written : Orders, day : {1, 12, 13, 29, 30, 31}, month : {1, 2, 12, 13},
          year : {24, 69, 70, 2023, 2024}] : d.written = "ISO" => d.year > 99}

DaysIn(month, year) ==
  IF month = 2 THEN IF year % 4 = 0 THEN 29 ELSE 28
  ELSE IF month \in {4, 6, 9, 11} THEN 30 ELSE 31

FullYear(year) == IF year < 70 THEN 2000 + year ELSE IF year < 100 THEN 1900 + year ELSE year

DateMeant(d) ==
  IF d.month \in 1..12 /\ d.day \in 1..DaysIn(d.month, FullYear(d.year))
  THEN <<FullYear(d.year), d.month, d.day>> ELSE Unread

-----------------------------------------------------------------------------
(* What the import reads                                                    *)

Number(digits) ==
  LET first[i \in 0..Len(digits)] == IF i = 0 THEN 0 ELSE 10 * first[i - 1] + digits[i]
  IN first[Len(digits)]

\* Number() of at most one point, times a hundred and rounded.
Minor(text) ==
  LET points == {i \in DOMAIN text : text[i] = Point}
      at == IF points = {} THEN Len(text) + 1 ELSE Min(points)
      decimals == SubSeq(text, at + 1, Len(text)) \o <<0, 0, 0>>
  IN IF Cardinality(points) > 1 THEN Unread
     ELSE 100 * Number(SubSeq(text, 1, at - 1)) + Number(SubSeq(decimals, 1, 2))
            + IF decimals[3] >= 5 THEN 1 ELSE 0

LastOf(text, mark) == Max({0} \cup {i \in DOMAIN text : text[i] = mark})

Without(text, mark) ==
  LET first[i \in 0..Len(text)] ==
        IF i = 0 THEN <<>>
        ELSE IF text[i] = mark THEN first[i - 1] ELSE Append(first[i - 1], text[i])
  IN first[Len(text)]

\* Mutant: a comma always groups.
ParseMoneyWithPoint(text) == Minor(Without(text, Comma))

\* parseMoneyMinor(): "the last separator decides"; of several commas only the
\* first is made a point, and the rest is no number.
ParseMoneyMinor(text) ==
  IF LastOf(text, Comma) <= LastOf(text, Point) THEN Minor(Without(text, Comma))
  ELSE LET bare == Without(text, Point)
           commas == {i \in DOMAIN bare : bare[i] = Comma}
       IN IF Cardinality(commas) > 1 THEN Unread ELSE Minor([bare EXCEPT ![Min(commas)] = Point])

\* parseDate(): a date that starts with its year is read as one whatever was
\* declared; another is read in the order that was, or not at all.
ParseDate(d, order) ==
  LET a == IF d.written = "DMY" THEN d.day ELSE d.month
      b == IF d.written = "DMY" THEN d.month ELSE d.day
  IN CASE d.written = "ISO" -> DateMeant(d)
       [] d.written # "ISO" /\ order = "ISO" -> Unread
       [] d.written # "ISO" /\ order = "DMY" -> DateMeant([d EXCEPT !.day = a, !.month = b])
       [] d.written # "ISO" /\ order = "MDY" -> DateMeant([d EXCEPT !.month = a, !.day = b])

\* normaliseRow(): a blank cell is passed over, and what a name lacks or a cell
\* cannot be read as is an error of its own.
NormaliseRow(row) ==
  LET price == IF row.price = Unread THEN Unread ELSE ParseMoneyMinor(AmountText(row.price))
      bought == IF row.bought = Unread THEN Unread ELSE ParseDate(row.bought, row.order)
  IN [price |-> price, bought |-> bought,
      errors |-> {e \in {"name", "price", "bought"} :
                    \/ e = "name" /\ ~row.named
                    \/ e = "price" /\ row.price # Unread /\ price = Unread
                    \/ e = "bought" /\ row.bought # Unread /\ bought = Unread}]

-----------------------------------------------------------------------------
(* What the columns are taken for                                           *)

\* The first field that is free and like the header, unless it has one.
MatchHeader(like, grades, mapping, h) ==
  LET free == {t \in Targets \ Range(mapping) : like[h, t] \in grades}
  IN IF mapping[h] # Unread \/ free = {} THEN mapping ELSE [mapping EXCEPT ![h] = Min(free)]

\* One pass: each header in turn.
Match(like, grades, mapping) ==
  LET after[h \in 0..Columns] ==
        IF h = 0 THEN mapping ELSE MatchHeader(like, grades, after[h - 1], h)
  IN after[Columns]

NoMapping == [h \in Headers |-> Unread]

\* Mutant: one pass for every likeness.
SuggestInOnePass(like) == Match(like, {"equal", "contains"}, NoMapping)

\* suggestMapping(): its first two passes ask the same.
SuggestMapping(like) ==
  Match(like, {"equal", "contains"}, Match(like, {"equal"}, Match(like, {"equal"}, NoMapping)))

MissingRequired(mapping) == Needed \ Range(mapping)

-----------------------------------------------------------------------------
FilesTypeOK ==
  \/ result = Unread
  \/ /\ file.kind = "columns" /\ result.missing \subseteq Needed
     /\ result.mapping \in [Headers -> Targets \cup {Unread}]
  \/ file.kind = "row" /\ result.errors \subseteq {"name", "price", "bought"}

\* A row has one of the two cells, or neither.
FilesInit ==
  /\ \/ \E like \in Likeness : file = [kind |-> "columns", like |-> like]
     \/ \E row \in {[named |-> n, price |-> m, bought |-> Unread, order |-> "DMY"] :
                       n \in BOOLEAN, m \in Amount \cup {Unread}}
             \cup {[named |-> TRUE, price |-> Unread, bought |-> d, order |-> o] :
                       d \in DateText, o \in Orders} :
          file = [kind |-> "row", row |-> row]
  /\ result = Unread

MapColumns ==
  /\ file.kind = "columns" /\ result = Unread
  /\ LET mapping == SuggestMapping(file.like)
     IN result' = [mapping |-> mapping, missing |-> MissingRequired(mapping)]
  /\ UNCHANGED file

ReadRow ==
  /\ file.kind = "row" /\ result = Unread
  /\ result' = NormaliseRow(file.row)
  /\ UNCHANGED file

FilesNext == MapColumns \/ ReadRow

FilesSpec == FilesInit /\ [][FilesNext]_fileVars

-----------------------------------------------------------------------------
(* Properties                                                               *)

\* A cell is read as what its writer meant, or reported: an amount in either
\* convention unless it is the ambiguous one, whose only mark groups ("1,200" is
\* read as one and a fifth), and a date written in the declared order.
ReadAsWritten ==
  (file.kind = "row" /\ result # Unread) =>
    /\ (file.row.price # Unread /\ ~Ambiguous(file.row.price))
         => result.price = AmountMeant(file.row.price) \/ "price" \in result.errors
    /\ (file.row.bought # Unread /\ file.row.bought.written \in {"ISO", file.row.order})
         => result.bought = DateMeant(file.row.bought)

\* No two columns are taken for one field, and none is taken for a field on a
\* likeness of words while another that is equal to it is taken for nothing, or on
\* a likeness too.
BestColumnWins ==
  (file.kind = "columns" /\ result # Unread) =>
    \A g, h \in Headers :
      LET t == result.mapping[g] IN
      (g # h /\ t # Unread) =>
        /\ result.mapping[h] # t
        /\ (file.like[g, t] = "contains" /\ file.like[h, t] = "equal") =>
             result.mapping[h] # Unread /\ file.like[h, result.mapping[h]] = "equal"

\* What is staged for a file is what the file says, and what cannot be read is
\* reported "rather than storing a plausible-looking wrong number"
\* (rowValidation.ts:70-72), but for what ReadAsWritten leaves out: the amount
\* "1,200", which is staged as 1.20 without a word, and a date that is not written
\* in the order declared for its file.  No column is taken for a field that another
\* one fits better.
NothingMisread == ReadAsWritten /\ BestColumnWins
================================================================================
