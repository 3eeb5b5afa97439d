------------------------------- MODULE Listing --------------------------------
(* Lists a screen reads page by page: assets, people, vendors, licences and    *)
(* repairs, newest first, each page continuing after the last row of the one   *)
(* before, while rows come, go and are edited between two pages.               *)
EXTENDS Naturals, FiniteSets, Sequences, SequencesExt

CONSTANTS
  RowIds,     \* _id of the rows, which are compared
  Ticks,      \* createdAt of the rows
  PageSizes,  \* limits a client asks for
  NotThere    \* no row, and no cursor

ASSUME ListingAssumption ==
  /\ RowIds \subseteq Nat /\ IsFiniteSet(RowIds)
  /\ Ticks \subseteq Nat /\ PageSizes \subseteq Nat \ {0}
  /\ NotThere \notin [at : Ticks, taken : BOOLEAN] \cup (Ticks \X RowIds)

VARIABLES
  listed,  \* the rows: when they were created, and whether the filter takes them
  reader,  \* the client: its limit, its cursor and the rows it has been given
  stayed   \* history: the rows in the list at every moment since page one

listingVars == <<listed, reader, stayed>>

ListingTypeOK ==
  /\ listed \in [RowIds -> [at : Ticks, taken : BOOLEAN] \cup {NotThere}]
  /\ reader \in [limit : PageSizes, cursor : (Ticks \X RowIds) \cup {NotThere},
                 seen : Seq(RowIds), done : BOOLEAN]
  /\ stayed \subseteq RowIds

\* buildAssetFilter() and the soft delete, whatever they ask of a row.
InList == {k \in RowIds : listed[k] # NotThere /\ listed[k].taken}

PageOne(limit) == [limit |-> limit, cursor |-> NotThere, seen |-> <<>>, done |-> FALSE]

ListingInit ==
  /\ listed \in [RowIds -> [at : Ticks, taken : {TRUE}] \cup {NotThere}]
  /\ \E limit \in PageSizes : reader = PageOne(limit)
  /\ stayed = InList

KeyOf(k) == <<listed[k].at, k>>

Before(key, other) ==
  \/ key[1] < other[1]
  \/ key[1] = other[1] /\ key[2] < other[2]

\* Mutant: the cursor without the id that breaks ties.
AfterTime(cursor) == {k \in InList : cursor = NotThere \/ listed[k].at < cursor[1]}

\* afterCursor(): nothing is asked on page one.
AfterCursor(cursor) == {k \in InList : cursor = NotThere \/ Before(KeyOf(k), cursor)}

Newest(k, j) == Before(KeyOf(j), KeyOf(k))

\* .sort({ createdAt: -1, _id: -1 })
Sorted(rows) ==
  CHOOSE order \in [1..Cardinality(rows) -> rows] :
    \A i, j \in DOMAIN order : i < j => Newest(order[i], order[j])

\* The query takes one row more than the page, which says whether there is another.
PageRows ==
  LET sorted == Sorted(AfterCursor(reader.cursor))
  IN SubSeq(sorted, 1, IF Len(sorted) > reader.limit THEN reader.limit + 1 ELSE Len(sorted))

\* toPage(): a cursor only when there is more.
ToPage(rows) ==
  LET more == Len(rows) > reader.limit
      items == IF more THEN Front(rows) ELSE rows
  IN [items |-> items, cursor |-> IF more THEN KeyOf(Last(items)) ELSE NotThere]

List ==
  /\ ~reader.done
  /\ LET page == ToPage(PageRows) IN
       reader' = [reader EXCEPT !.seen = @ \o page.items, !.cursor = page.cursor,
                                !.done = page.cursor = NotThere]
  /\ UNCHANGED <<listed, stayed>>

\* A cursor that does not decode is answered with page one.  So is one with an
\* invalid date, but not in the list of people, whose own decodeCursor() lets it
\* by: that request fails, and the client keeps what it had.
ListFromBadCursor ==
  /\ reader.cursor # NotThere
  /\ reader' = PageOne(reader.limit)
  /\ stayed' = InList
  /\ UNCHANGED listed

\* createdAt is the clock of the process that makes the row, which may be behind.
CreateRow(k) ==
  /\ listed[k] = NotThere /\ ~reader.done
  /\ \E t \in Ticks : listed' = [listed EXCEPT ![k] = [at |-> t, taken |-> TRUE]]
  /\ UNCHANGED <<reader, stayed>>

\* An edit, a deletion or a restoration; createdAt does not change.
ChangeRow(k) ==
  /\ listed[k] # NotThere /\ ~reader.done
  /\ listed' = [listed EXCEPT ![k].taken = ~@]
  /\ stayed' = stayed \ {k}
  /\ UNCHANGED reader

ListingNext ==
  \/ List \/ ListFromBadCursor
  \/ \E k \in RowIds : CreateRow(k) \/ ChangeRow(k)

ListingSpec == ListingInit /\ [][ListingNext]_listingVars

-----------------------------------------------------------------------------
(* Properties                                                               *)

\* A list read to its end gives each row that was in it all the while, once, in
\* order, whatever was created, edited or deleted between two pages, ties on
\* createdAt included; and at every page nothing before the cursor was missed.
EachRowOnce ==
  /\ IsInjective(reader.seen)
  /\ \A k \in stayed : (reader.done \/ (reader.cursor # NotThere /\ ~Before(KeyOf(k), reader.cursor)))
                         => k \in ToSet(reader.seen)
  /\ \A i, j \in 1..Len(reader.seen) :
       i < j => Before(KeyOf(reader.seen[j]), KeyOf(reader.seen[i]))
===============================================================================
