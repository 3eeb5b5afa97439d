---------------------------- MODULE RequestsProofs ----------------------------
(***************************************************************************)
(* What a reader of a list and an uploader of a file are given, for any    *)
(* list and any file, and the components of requests put together.         *)
(***************************************************************************)
EXTENDS MCRequests, QuotaProofs, RecordProofs, HierarchyProofs

-------------------------------------------------------------------------------
(***************************************************************************)
(* Paged lists.  The cursor is the key of the last row that was given, and *)
(* pages are cut from the rows behind it in one order: what was given is   *)
(* in that order, and every row before the cursor that stayed was given.   *)
(***************************************************************************)
\* The rows there are, whatever a filter takes of them.
ListRows == {k \in RowIds : listed[k] # NotThere}

\* Newest first.
InOrder(ranked) == \A i, j \in DOMAIN ranked : i < j => Newest(ranked[i], ranked[j])

HasOrder(S) == \E ranked \in [1..Cardinality(S) -> S] : InOrder(ranked)

\* Keys are pairs of naturals.
LEMMA KeysTyped ==
  ASSUME ListingTypeOK
  PROVE  \A k \in ListRows : /\ listed[k].at \in Ticks /\ listed[k].taken \in BOOLEAN
                         /\ listed[k].at \in Nat /\ k \in Nat
                         /\ KeyOf(k)[1] = listed[k].at /\ KeyOf(k)[2] = k
BY ListingAssumption DEF ListingTypeOK, ListRows, KeyOf

\* A row is newer than another, by its time or by its id.
LEMMA NewestIs ==
  ASSUME ListingTypeOK, NEW k \in ListRows, NEW j \in ListRows
  PROVE  Newest(k, j) <=> \/ listed[j].at < listed[k].at
                          \/ listed[j].at = listed[k].at /\ j < k
BY KeysTyped DEF Newest, Before

\* Newest is an order.
LEMMA NewestTransitive ==
  ASSUME ListingTypeOK, NEW i \in ListRows, NEW j \in ListRows, NEW k \in ListRows,
         Newest(i, j), Newest(j, k)
  PROVE  Newest(i, k)
BY NewestIs, KeysTyped

\* Of some rows one is the oldest.
LEMMA OldestRow ==
  ASSUME ListingTypeOK, NEW S \in SUBSET ListRows, S # {}
  PROVE  \E m \in S : \A k \in S \ {m} : Newest(k, m)
<1> DEFINE A == {listed[k].at : k \in S}
<1>1. A \in SUBSET Nat /\ A # {}  BY KeysTyped
<1>2. PICK a \in A : \A b \in A : a <= b  BY <1>1, LeastNatural
<1> DEFINE I == {k \in S : listed[k].at = a}
<1>3. I \in SUBSET Nat /\ I # {}  BY <1>2, KeysTyped
<1>4. PICK m \in I : \A k \in I : m <= k  BY <1>3, LeastNatural
<1>5. m \in S /\ listed[m].at = a  BY <1>4
<1>6. \A k \in S : a <= listed[k].at  BY <1>2
<1>7. \A k \in S : listed[k].at = a => m <= k  BY <1>4
<1> HIDE DEF A, I
<1>8. ASSUME NEW k \in S \ {m} PROVE Newest(k, m)
  <2>1. k \in Nat /\ m \in Nat /\ listed[k].at \in Nat /\ a \in Nat  BY <1>5, KeysTyped
  <2>2. a < listed[k].at \/ (a = listed[k].at /\ m < k)  BY <1>6, <1>7, <2>1
  <2> QED  BY <1>5, <2>2, NewestIs
<1> QED  BY <1>5, <1>8

\* Any rows can be put in order: the others, and then the oldest.
LEMMA OrderExists ==
  ASSUME ListingTypeOK, NEW S \in SUBSET ListRows, IsFiniteSet(S)
  PROVE  HasOrder(S)
<1> DEFINE T == {n \in Nat : \A R \in SUBSET ListRows :
                               (IsFiniteSet(R) /\ Cardinality(R) = n) => HasOrder(R)}
<1>1. 0 \in T
  <2> SUFFICES ASSUME NEW R \in SUBSET ListRows, IsFiniteSet(R), Cardinality(R) = 0
               PROVE  HasOrder(R)
    OBVIOUS
  <2>1. 1..Cardinality(R) = {}  OBVIOUS
  <2>2. [i \in 1..Cardinality(R) |-> i] \in [1..Cardinality(R) -> R]  BY <2>1
  <2>3. InOrder([i \in 1..Cardinality(R) |-> i])  BY <2>1 DEF InOrder
  <2> QED  BY <2>2, <2>3 DEF HasOrder
<1>2. ASSUME NEW n \in Nat, n \in T PROVE n + 1 \in T
  <2> SUFFICES ASSUME NEW R \in SUBSET ListRows, IsFiniteSet(R), Cardinality(R) = n + 1
               PROVE  HasOrder(R)
    OBVIOUS
  <2>1. R # {}  BY FS_EmptySet
  <2>2. PICK m \in R : \A k \in R \ {m} : Newest(k, m)  BY <2>1, OldestRow
  <2> DEFINE Q == R \ {m}
  <2>3. IsFiniteSet(Q) /\ Cardinality(Q) = n /\ Q \in SUBSET ListRows
    <3>1. IsFiniteSet(Q) /\ Cardinality(Q) = Cardinality(R) - 1  BY FS_RemoveElement
    <3> QED  BY <3>1
  <2>4. HasOrder(Q)  BY <1>2, <2>3
  <2>5. PICK ranked \in [1..n -> Q] : InOrder(ranked)  BY <2>3, <2>4 DEF HasOrder
  <2> DEFINE longer == [i \in 1..n+1 |-> IF i = n + 1 THEN m ELSE ranked[i]]
  <2>6. longer \in [1..n+1 -> R]  BY <2>5
  <2>7. ASSUME NEW i \in 1..n+1, NEW j \in 1..n+1, i < j PROVE Newest(longer[i], longer[j])
    <3>1. i \in 1..n /\ longer[i] = ranked[i] /\ ranked[i] \in Q  BY <2>5, <2>7
    <3>2. CASE j = n + 1  BY <2>2, <3>1, <3>2
    <3>3. CASE j # n + 1
      <4>1. j \in 1..n /\ longer[j] = ranked[j]  BY <3>3
      <4> QED  BY <2>5, <2>7, <3>1, <4>1 DEF InOrder
    <3> QED  BY <3>2, <3>3
  <2>8. InOrder(longer)  BY <2>6, <2>7 DEF InOrder
  <2> QED  BY <2>6, <2>8 DEF HasOrder
<1> HIDE DEF T
<1>3. \A n \in Nat : n \in T  BY <1>1, <1>2, AllNaturals
<1>4. Cardinality(S) \in Nat  BY FS_CardinalityType
<1> QED  BY <1>3, <1>4 DEF T

\* A query's answer has every row it selects, once, newest first.
LEMMA SortedRows ==
  ASSUME ListingTypeOK, NEW S \in SUBSET ListRows
  PROVE  /\ Cardinality(S) \in Nat
         /\ Sorted(S) \in [1..Cardinality(S) -> S]
         /\ InOrder(Sorted(S))
         /\ \A k \in S : \E i \in 1..Cardinality(S) : Sorted(S)[i] = k
<1>1. IsFiniteSet(S)  BY ListingAssumption, FS_Subset DEF ListRows
<1>2. Cardinality(S) \in Nat  BY <1>1, FS_CardinalityType
<1> DEFINE n == Cardinality(S)
<1>3. HasOrder(S)  BY <1>1, OrderExists
<1>4. Sorted(S) \in [1..n -> S] /\ InOrder(Sorted(S))
  BY <1>3 DEF Sorted, HasOrder, InOrder
<1>5. IsInjective(Sorted(S))
  <2> SUFFICES ASSUME NEW i \in 1..n, NEW j \in 1..n, Sorted(S)[i] = Sorted(S)[j], i # j
               PROVE  FALSE
    BY <1>4 DEF IsInjective
  <2>1. Newest(Sorted(S)[i], Sorted(S)[i])
    <3>1. i < j \/ j < i  BY <1>2
    <3> QED  BY <1>4, <3>1 DEF InOrder
  <2>2. Sorted(S)[i] \in ListRows  BY <1>4
  <2> QED  BY <2>1, <2>2, NewestIs, KeysTyped
<1>6. Sorted(S) \in Injection(1..n, S)  BY <1>4, <1>5 DEF Injection
<1>7. IsFiniteSet(1..n) /\ Cardinality(1..n) = n  BY <1>2, FS_Interval
<1>8. Sorted(S) \in Surjection(1..n, S)  BY <1>1, <1>6, <1>7, FS_Injection
<1>9. \A k \in S : \E i \in 1..n : Sorted(S)[i] = k  BY <1>8 DEF Surjection
<1> QED  BY <1>2, <1>4, <1>9
-----------------------------------------------------------------------------
\* What was given exists; the cursor is the key of the last row given, until the end.
SeenRows == \A i \in 1..Len(reader.seen) : reader.seen[i] \in ListRows

SeenInOrder ==
  \A i, j \in 1..Len(reader.seen) : i < j => Newest(reader.seen[i], reader.seen[j])

CursorIsLast ==
  /\ reader.cursor = NotThere => (reader.done \/ reader.seen = <<>>)
  /\ reader.cursor # NotThere => /\ ~reader.done
                                 /\ Len(reader.seen) > 0
                                 /\ reader.cursor = KeyOf(reader.seen[Len(reader.seen)])

\* A row of which the reader has come to the key.
Passed(k) == reader.done \/ (reader.cursor # NotThere /\ ~Before(KeyOf(k), reader.cursor))

StayedAreGiven ==
  \A k \in stayed : Passed(k) => \E i \in 1..Len(reader.seen) : reader.seen[i] = k

ListingInv ==
  /\ ListingTypeOK /\ stayed \subseteq InList
  /\ SeenRows /\ SeenInOrder /\ CursorIsLast /\ StayedAreGiven

\* What is read off the invariant.
LEMMA ListingInvGives == ListingInv => EachRowOnce
<1> SUFFICES ASSUME ListingInv PROVE EachRowOnce  OBVIOUS
<1> USE DEF ListingInv
<1>1. reader.seen \in Seq(RowIds)  BY DEF ListingTypeOK
<1>2. DOMAIN reader.seen = 1..Len(reader.seen) /\ Len(reader.seen) \in Nat  BY <1>1
<1>3. IsInjective(reader.seen)
  <2> SUFFICES ASSUME NEW i \in 1..Len(reader.seen), NEW j \in 1..Len(reader.seen),
                      reader.seen[i] = reader.seen[j], i # j
               PROVE  FALSE
    BY <1>2 DEF IsInjective
  <2>1. i < j \/ j < i  BY <1>2
  <2>2. Newest(reader.seen[i], reader.seen[i])  BY <2>1 DEF SeenInOrder
  <2>3. reader.seen[i] \in ListRows  BY DEF SeenRows
  <2> QED  BY <2>2, <2>3, NewestIs, KeysTyped
<1>4. \A k \in stayed : Passed(k) => k \in ToSet(reader.seen)
  BY <1>2 DEF StayedAreGiven, ToSet
<1>5. \A i, j \in 1..Len(reader.seen) :
        i < j => Before(KeyOf(reader.seen[j]), KeyOf(reader.seen[i]))
  BY DEF SeenInOrder, Newest
<1> QED  BY <1>3, <1>4, <1>5 DEF EachRowOnce, Passed

\* At the start nothing has been asked.
LEMMA PageOneIs ==
  ASSUME NEW limit \in PageSizes
  PROVE  /\ PageOne(limit) \in [limit : PageSizes, cursor : (Ticks \X RowIds) \cup {NotThere},
                                seen : Seq(RowIds), done : BOOLEAN]
         /\ PageOne(limit).seen = <<>> /\ PageOne(limit).cursor = NotThere
         /\ PageOne(limit).done = FALSE /\ PageOne(limit).limit = limit
         /\ Len(PageOne(limit).seen) = 0
<1>1. <<>> \in Seq(RowIds)  OBVIOUS
<1>2. PageOne(limit) = [limit |-> limit, cursor |-> NotThere, seen |-> <<>>, done |-> FALSE]
  BY DEF PageOne
<1>3. Len(<<>>) = 0  OBVIOUS
<1> QED  BY <1>1, <1>2, <1>3

\* The invariant holds at the start.
LEMMA ListingInitInv == ListingInit => ListingInv
<1> SUFFICES ASSUME ListingInit PROVE ListingInv  OBVIOUS
<1>1. PICK limit \in PageSizes : reader = PageOne(limit)  BY DEF ListingInit
<1>2. listed \in [RowIds -> [at : Ticks, taken : BOOLEAN] \cup {NotThere}]
  BY DEF ListingInit
<1>3. stayed = InList /\ InList \subseteq RowIds  BY DEF ListingInit, InList
<1>4. ListingTypeOK  BY <1>1, <1>2, <1>3, PageOneIs DEF ListingTypeOK
<1>5. 1..Len(reader.seen) = {} /\ reader.seen = <<>> /\ reader.cursor = NotThere /\ ~reader.done
  <2>1. /\ PageOne(limit).seen = <<>> /\ PageOne(limit).cursor = NotThere
        /\ PageOne(limit).done = FALSE /\ Len(PageOne(limit).seen) = 0
    BY PageOneIs
  <2>2. 1..0 = {}  OBVIOUS
  <2> QED  BY <1>1, <2>1, <2>2
<1>6. SeenRows /\ SeenInOrder /\ CursorIsLast /\ StayedAreGiven
  BY <1>5 DEF SeenRows, SeenInOrder, CursorIsLast, StayedAreGiven, Passed
<1> QED  BY <1>3, <1>4, <1>6 DEF ListingInv

\* The page: the first rows after the cursor, as many as the limit takes.
PageLength == IF Cardinality(AfterCursor(reader.cursor)) > reader.limit
              THEN reader.limit ELSE Cardinality(AfterCursor(reader.cursor))

\* A page is the first rows behind the cursor, in order.
LEMMA PageIs ==
  ASSUME ListingInv
  PROVE  LET rows == AfterCursor(reader.cursor)
             page == ToPage(PageRows)
         IN  /\ PageLength \in Nat /\ PageLength <= Cardinality(rows)
             /\ page.items \in Seq(RowIds) /\ Len(page.items) = PageLength
             /\ \A i \in 1..PageLength : page.items[i] = Sorted(rows)[i]
             /\ page.cursor = IF Cardinality(rows) > reader.limit
                              THEN KeyOf(Sorted(rows)[reader.limit]) ELSE NotThere
<1> DEFINE rows == AfterCursor(reader.cursor)
           n == Cardinality(rows)
           limit == reader.limit
           first == SubSeq(Sorted(rows), 1, IF Len(Sorted(rows)) > limit THEN limit + 1
                                            ELSE Len(Sorted(rows)))
<1>1. rows \in SUBSET ListRows  BY DEF AfterCursor, InList, ListRows
<1>2. ListingTypeOK /\ limit \in Nat /\ limit > 0
  <2>1. ListingTypeOK  BY DEF ListingInv
  <2>2. reader.limit \in PageSizes  BY <2>1 DEF ListingTypeOK
  <2>3. reader.limit \in Nat \ {0}  BY <2>2, ListingAssumption
  <2>4. reader.limit \in Nat /\ reader.limit > 0  BY ONLY <2>3
  <2> QED  BY <2>1, <2>4
<1>3. n \in Nat /\ Sorted(rows) \in [1..n -> rows]  BY <1>1, <1>2, SortedRows
<1>4. Sorted(rows) \in [1..n -> RowIds]  BY <1>1, <1>3 DEF ListRows
<1>5. PageRows = first  BY DEF PageRows
<1> HIDE DEF rows, n, limit
<1>6. Sorted(rows) \in Seq(RowIds) /\ Len(Sorted(rows)) = n  BY <1>3, <1>4
<1>7. CASE n > limit
  <2>1. first = SubSeq(Sorted(rows), 1, limit + 1)  BY <1>6, <1>7
  <2>2. /\ first \in Seq(RowIds) /\ Len(first) = limit + 1
        /\ \A i \in 1..limit+1 : first[i] = Sorted(rows)[i]
    BY <1>2, <1>3, <1>6, <1>7, <2>1, SubSeqProperties
  <2>3. Front(first) = SubSeq(first, 1, limit)
    <3>1. Len(first) - 1 = limit  BY <1>2, <2>2
    <3> QED  BY <3>1 DEF Front
  <2>4. /\ Front(first) \in Seq(RowIds) /\ Len(Front(first)) = limit
        /\ \A i \in 1..limit : Front(first)[i] = Sorted(rows)[i]
    BY <1>2, <2>2, <2>3, SubSeqProperties
  <2>5. Last(Front(first)) = Sorted(rows)[limit]  BY <1>2, <2>4 DEF Last
  <2>6. ToPage(first) = [items |-> Front(first), cursor |-> KeyOf(Sorted(rows)[limit])]
    BY <1>2, <2>2, <2>5 DEF ToPage, limit
  <2>7. PageLength = limit  BY <1>7 DEF PageLength, rows, n, limit
  <2>8. /\ ToPage(first).items = Front(first)
        /\ ToPage(first).cursor = KeyOf(Sorted(rows)[limit])
    BY <2>6
  <2> HIDE DEF first
  <2> QED  BY <1>2, <1>3, <1>5, <1>7, <2>4, <2>7, <2>8 DEF rows, n, limit
<1>8. CASE ~(n > limit)
  <2>1. first = SubSeq(Sorted(rows), 1, n)  BY <1>6, <1>8
  <2>2. first = Sorted(rows)  BY <1>6, <2>1, SubSeqFull
  <2>3. ToPage(first) = [items |-> first, cursor |-> NotThere]
    BY <1>6, <1>8, <2>2 DEF ToPage, limit
  <2>4. PageLength = n  BY <1>8 DEF PageLength, rows, n, limit
  <2> HIDE DEF first
  <2>5. ToPage(first).items = first /\ ToPage(first).cursor = NotThere  BY <2>3
  <2> QED  BY <1>3, <1>5, <1>6, <1>8, <2>2, <2>4, <2>5 DEF rows, n, limit
<1> QED  BY <1>7, <1>8

\* A page continues the list.
LEMMA ListInv == ListingInv /\ List => ListingInv'
<1> SUFFICES ASSUME ListingInv, List PROVE ListingInv'  OBVIOUS
<1> DEFINE rows == AfterCursor(reader.cursor)
           n == Cardinality(rows)
           page == ToPage(PageRows)
           ranked == Sorted(rows)
           seen == reader.seen
           m == Len(reader.seen)
           p == PageLength
<1>1. /\ reader' = [reader EXCEPT !.seen = seen \o page.items, !.cursor = page.cursor,
                                  !.done = page.cursor = NotThere]
      /\ ~reader.done /\ listed' = listed /\ stayed' = stayed
  BY DEF List
<1>2. /\ ListingTypeOK /\ stayed \subseteq InList
      /\ SeenRows /\ SeenInOrder /\ CursorIsLast /\ StayedAreGiven
  BY DEF ListingInv
<1>3. /\ p \in Nat /\ p <= n /\ page.items \in Seq(RowIds) /\ Len(page.items) = p
      /\ \A i \in 1..p : page.items[i] = ranked[i]
      /\ page.cursor = IF n > reader.limit THEN KeyOf(ranked[reader.limit]) ELSE NotThere
  BY PageIs
<1>4. rows \in SUBSET ListRows  BY DEF AfterCursor, InList, ListRows
<1>5. /\ n \in Nat /\ ranked \in [1..n -> rows] /\ InOrder(ranked)
      /\ \A k \in rows : \E i \in 1..n : ranked[i] = k
  BY <1>2, <1>4, SortedRows
<1>6. seen \in Seq(RowIds) /\ m \in Nat  BY <1>2 DEF ListingTypeOK
<1>7. reader.limit \in Nat /\ reader.limit > 0 /\ p = IF n > reader.limit THEN reader.limit ELSE n
  <2>1. reader.limit \in PageSizes  BY <1>2 DEF ListingTypeOK
  <2>2. reader.limit \in Nat \ {0}  BY <2>1, ListingAssumption
  <2>3. reader.limit \in Nat /\ reader.limit > 0  BY ONLY <2>2
  <2> QED  BY <2>3 DEF PageLength
<1>8. \A k \in ListRows : KeyOf(k) \in Ticks \X RowIds /\ KeyOf(k) # NotThere
  <2> SUFFICES ASSUME NEW k \in ListRows
               PROVE  KeyOf(k) \in Ticks \X RowIds /\ KeyOf(k) # NotThere
    OBVIOUS
  <2>1. listed[k].at \in Ticks /\ k \in RowIds  BY <1>2, KeysTyped DEF ListRows
  <2>2. KeyOf(k) \in Ticks \X RowIds  BY <2>1 DEF KeyOf
  <2>3. NotThere \notin Ticks \X RowIds  BY ListingAssumption
  <2> QED  BY <2>2, <2>3
<1> HIDE DEF rows, n, page, ranked, seen, m, p
<1>9. /\ seen \o page.items \in Seq(RowIds) /\ Len(seen \o page.items) = m + p
      /\ \A i \in 1..m : (seen \o page.items)[i] = seen[i]
      /\ \A i \in m+1..m+p : (seen \o page.items)[i] = ranked[i - m]
  <2>1. /\ Len(seen \o page.items) = m + p
        /\ \A i \in 1..m+p : (seen \o page.items)[i] = IF i <= m THEN seen[i] ELSE page.items[i - m]
    <3>1. Len(seen) = m  BY DEF m, seen
    <3>2. PICK items : items = page.items  OBVIOUS
    <3>3. items \in Seq(RowIds) /\ Len(items) = p  BY <1>3, <3>2
    <3>4. /\ Len(seen \o items) = Len(seen) + Len(items)
          /\ \A i \in 1..Len(seen) + Len(items) :
               (seen \o items)[i] = IF i <= Len(seen) THEN seen[i] ELSE items[i - Len(seen)]
      BY ONLY <1>6, <3>3, ConcatProperties
    <3> QED  BY <3>1, <3>2, <3>3, <3>4
  <2>2. seen \o page.items \in Seq(RowIds)  BY <1>3, <1>6
  <2>3. \A i \in m+1..m+p : (seen \o page.items)[i] = ranked[i - m]
    <3> SUFFICES ASSUME NEW i \in m+1..m+p PROVE (seen \o page.items)[i] = ranked[i - m]
      OBVIOUS
    <3>1. i \in 1..m+p /\ ~(i <= m) /\ i - m \in 1..p  BY <1>3, <1>6
    <3> QED  BY <1>3, <2>1, <3>1
  <2>4. \A i \in 1..m : i \in 1..m+p /\ i <= m  BY <1>3, <1>6
  <2> QED  BY <2>1, <2>2, <2>3, <2>4
<1>10. PICK all : all = seen \o page.items  OBVIOUS
<1>11. PICK c : c = page.cursor  OBVIOUS
<1>12. /\ reader'.seen = all /\ reader'.cursor = c /\ reader'.limit = reader.limit
       /\ reader'.done = (c = NotThere)
  <2>1. reader \in [limit : PageSizes, cursor : (Ticks \X RowIds) \cup {NotThere},
                    seen : Seq(RowIds), done : BOOLEAN]
    BY <1>2 DEF ListingTypeOK
  <2>2. reader' = [reader EXCEPT !.seen = all, !.cursor = c, !.done = c = NotThere]
    BY <1>1, <1>10, <1>11
  <2> QED  BY <2>1, <2>2
<1>13. /\ all \in Seq(RowIds) /\ Len(all) = m + p
       /\ \A i \in 1..m : all[i] = seen[i]
       /\ \A i \in m+1..m+p : all[i] = ranked[i - m]
  BY <1>9, <1>10
<1>14. \A i \in 1..n : ranked[i] \in rows /\ ranked[i] \in ListRows  BY <1>4, <1>5
<1>15. (c = NotThere) <=> ~(n > reader.limit)
  <2>1. CASE n > reader.limit
    <3>1. reader.limit \in 1..n  BY <1>5, <1>7, <2>1
    <3> QED  BY <1>3, <1>8, <1>11, <1>14, <2>1, <3>1
  <2>2. CASE ~(n > reader.limit)  BY <1>3, <1>11, <2>2
  <2> QED  BY <2>1, <2>2
<1>16. c # NotThere => c = KeyOf(ranked[p]) /\ p \in 1..n  BY <1>3, <1>5, <1>7, <1>11, <1>15
<1>17. c = NotThere => p = n  BY <1>5, <1>7, <1>15
<1>18. /\ ListRows' = ListRows /\ InList' = InList
       /\ \A k \in ListRows : KeyOf(k)' = KeyOf(k)
       /\ \A k, j \in ListRows : Newest(k, j)' = Newest(k, j)
  BY <1>1 DEF ListRows, InList, KeyOf, Newest
<1>19. ListingTypeOK'
  <2>1. c \in (Ticks \X RowIds) \cup {NotThere}
    BY <1>8, <1>14, <1>16
  <2>2. reader \in [limit : PageSizes, cursor : (Ticks \X RowIds) \cup {NotThere},
                    seen : Seq(RowIds), done : BOOLEAN]
    BY <1>2 DEF ListingTypeOK
  <2>3. reader' = [reader EXCEPT !.seen = all, !.cursor = c, !.done = c = NotThere]
    BY <1>1, <1>10, <1>11
  <2>4. reader' \in [limit : PageSizes, cursor : (Ticks \X RowIds) \cup {NotThere},
                     seen : Seq(RowIds), done : BOOLEAN]
    BY <1>13, <2>1, <2>2, <2>3
  <2> QED  BY <1>1, <1>2, <2>4 DEF ListingTypeOK
<1>20. \A i \in 1..m : seen[i] \in ListRows  BY <1>2 DEF SeenRows, seen, m
<1>21. ASSUME NEW i \in 1..m+p, ~(i <= m) PROVE i \in m+1..m+p /\ i - m \in 1..p /\ i - m \in 1..n
  BY <1>3, <1>5, <1>6, <1>21
<1>22. ASSUME NEW i \in 1..m+p PROVE all[i] \in ListRows
  <2>1. CASE i <= m
    <3>1. i \in 1..m  BY <1>3, <1>6, <2>1
    <3> QED  BY <1>13, <1>20, <3>1
  <2>2. CASE ~(i <= m)  BY <1>13, <1>14, <1>21, <2>2
  <2> QED  BY <2>1, <2>2
<1>23. ASSUME NEW i \in 1..m+p, NEW j \in 1..m+p, i < j PROVE Newest(all[i], all[j])
  <2>1. CASE j <= m
    <3>1. i \in 1..m /\ j \in 1..m  BY <1>3, <1>6, <1>23, <2>1
    <3> QED  BY <1>2, <1>13, <1>23, <3>1 DEF SeenInOrder, seen, m
  <2>2. CASE i <= m /\ ~(j <= m)
    <3>1. i \in 1..m /\ m \in 1..m /\ m > 0  BY <1>3, <1>6, <2>2
    <3>2. reader.cursor # NotThere /\ reader.cursor = KeyOf(seen[m])
      <4>1. reader.seen # <<>>  BY <3>1 DEF m, seen
      <4> QED  BY <1>1, <1>2, <4>1 DEF CursorIsLast, m, seen
    <3>3. ranked[j - m] \in rows /\ all[j] = ranked[j - m]  BY <1>13, <1>14, <1>21, <2>2
    <3>4. Newest(seen[m], ranked[j - m])  BY <3>2, <3>3 DEF rows, AfterCursor, Newest
    <3>5. i = m \/ Newest(seen[i], seen[m])
      <4>1. i = m \/ i < m  BY <1>6, <3>1
      <4> QED  BY <1>2, <3>1, <4>1 DEF SeenInOrder, seen, m
    <3>6. Newest(seen[i], ranked[j - m])
      BY <1>2, <1>4, <1>20, <3>1, <3>3, <3>4, <3>5, NewestTransitive
    <3> QED  BY <1>13, <3>1, <3>3, <3>6
  <2>3. CASE ~(i <= m) /\ ~(j <= m)
    <3>1. i - m \in 1..n /\ j - m \in 1..n /\ i - m < j - m  BY <1>6, <1>21, <1>23, <2>3
    <3>2. Newest(ranked[i - m], ranked[j - m])  BY <1>5, <3>1 DEF InOrder
    <3> QED  BY <1>13, <1>21, <2>3, <3>2
  <2>4. j <= m => i <= m  BY <1>3, <1>6, <1>23
  <2> QED  BY <2>1, <2>2, <2>3, <2>4
<1>24. SeenRows'
  BY <1>12, <1>13, <1>18, <1>22 DEF SeenRows
<1>25. SeenInOrder'
  BY <1>12, <1>13, <1>18, <1>22, <1>23 DEF SeenInOrder
<1>26. CursorIsLast'
  <2>1. CASE c = NotThere  BY <1>12, <2>1 DEF CursorIsLast
  <2>2. CASE c # NotThere
    <3>1. m + p \in m+1..m+p /\ m + p > 0 /\ (m + p) - m = p /\ p \in 1..n
      BY <1>3, <1>6, <1>16, <2>2
    <3>2. all[m + p] = ranked[p] /\ ranked[p] \in ListRows  BY <1>13, <1>14, <3>1
    <3>3. PICK o : o = ranked[p]  OBVIOUS
    <3>4. c = KeyOf(o) /\ KeyOf(o)' = KeyOf(o)  BY <1>16, <1>18, <2>2, <3>2, <3>3
    <3>5. reader'.seen[Len(reader'.seen)] = o  BY <1>12, <1>13, <3>2, <3>3
    <3>6. KeyOf(reader.seen[Len(reader.seen)])' = c  BY <3>4, <3>5 DEF KeyOf
    <3> QED  BY <1>12, <1>13, <2>2, <3>1, <3>6 DEF CursorIsLast
  <2> QED  BY <2>1, <2>2
<1>27. ASSUME NEW k \in stayed, c = NotThere \/ ~Before(KeyOf(k), c)
       PROVE  \E i \in 1..m+p : all[i] = k
  <2>1. k \in InList  BY <1>2
  <2>2. CASE k \in rows
    <3>1. PICK q \in 1..n : ranked[q] = k  BY <1>5, <2>2
    <3>2. q <= p
      <4> SUFFICES ASSUME ~(q <= p) PROVE FALSE  OBVIOUS
      <4>1. c # NotThere  BY <1>3, <1>5, <1>17
      <4>2. p \in 1..n /\ c = KeyOf(ranked[p]) /\ p < q  BY <1>3, <1>5, <1>16, <4>1
      <4>3. Newest(ranked[p], ranked[q])  BY <1>5, <4>2 DEF InOrder
      <4> QED  BY <1>27, <3>1, <4>1, <4>2, <4>3 DEF Newest
    <3>3. m + q \in m+1..m+p /\ m + q \in 1..m+p /\ (m + q) - m = q  BY <1>3, <1>5, <1>6, <3>2
    <3> QED  BY <1>13, <3>1, <3>3
  <2>3. CASE k \notin rows
    <3>1. Passed(k)  BY <2>1, <2>3 DEF rows, AfterCursor, Passed
    <3>2. PICK i \in 1..m : seen[i] = k  BY <1>2, <3>1 DEF StayedAreGiven, seen, m
    <3>3. i \in 1..m+p  BY <1>3, <1>6
    <3> QED  BY <1>13, <3>2, <3>3
  <2> QED  BY <2>2, <2>3
<1>28. StayedAreGiven'
  <2> SUFFICES ASSUME NEW k \in stayed', Passed(k)'
               PROVE  (\E i \in 1..Len(reader.seen) : reader.seen[i] = k)'
    BY DEF StayedAreGiven
  <2>1. k \in stayed /\ k \in ListRows  BY <1>1, <1>2 DEF InList, ListRows
  <2>2. KeyOf(k)' = KeyOf(k)  BY <1>18, <2>1
  <2>3. c = NotThere \/ ~Before(KeyOf(k), c)  BY <1>12, <2>2 DEF Passed, Before
  <2>4. \E i \in 1..m+p : all[i] = k  BY <1>27, <2>1, <2>3
  <2> QED  BY <1>12, <1>13, <2>4
<1>29. stayed' \subseteq InList'  BY <1>1, <1>2, <1>18
<1> QED  BY <1>19, <1>24, <1>25, <1>26, <1>28, <1>29 DEF ListingInv

\* A cursor that does not decode begins the list again.
LEMMA ListFromBadCursorInv == ListingInv /\ ListFromBadCursor => ListingInv'
<1> SUFFICES ASSUME ListingInv, ListFromBadCursor PROVE ListingInv'  OBVIOUS
<1>1. /\ reader' = PageOne(reader.limit) /\ stayed' = InList /\ listed' = listed
  BY DEF ListFromBadCursor
<1>2. ListingTypeOK  BY DEF ListingInv
<1>3. PICK limit \in PageSizes : limit = reader.limit  BY <1>2 DEF ListingTypeOK
<1>4. /\ reader'.seen = <<>> /\ reader'.cursor = NotThere /\ ~reader'.done
      /\ Len(reader'.seen) = 0
  <2>1. /\ PageOne(limit).seen = <<>> /\ PageOne(limit).cursor = NotThere
        /\ PageOne(limit).done = FALSE /\ Len(PageOne(limit).seen) = 0
    BY PageOneIs
  <2> QED  BY <1>1, <1>3, <2>1
<1>5. stayed' \subseteq RowIds /\ stayed' = InList'  BY <1>1 DEF InList
<1>6. ListingTypeOK'  BY <1>1, <1>2, <1>3, <1>5, PageOneIs DEF ListingTypeOK
<1>7. 1..0 = {}  OBVIOUS
<1>8. SeenRows' /\ SeenInOrder' /\ CursorIsLast' /\ StayedAreGiven'
  BY <1>4, <1>7 DEF SeenRows, SeenInOrder, CursorIsLast, StayedAreGiven, Passed
<1> QED  BY <1>5, <1>6, <1>8 DEF ListingInv

\* A step that leaves the reader and the time of every row there is alone.
LEMMA RowsMoveInv ==
  ASSUME ListingInv, ListingTypeOK', reader' = reader, ListRows \subseteq ListRows',
         \A k \in ListRows : listed'[k].at = listed[k].at,
         stayed' \subseteq stayed, stayed' \subseteq InList'
  PROVE  ListingInv'
<1>1. \A k \in ListRows : KeyOf(k)' = KeyOf(k)  BY DEF KeyOf
<1>2. \A k, j \in ListRows : Newest(k, j)' = Newest(k, j)  BY <1>1 DEF Newest, KeyOf
<1>3. \A i \in 1..Len(reader.seen) : reader.seen[i] \in ListRows  BY DEF ListingInv, SeenRows
<1>4. SeenRows'  BY <1>3 DEF SeenRows
<1>5. SeenInOrder'  BY <1>2, <1>3 DEF ListingInv, SeenInOrder
<1>6. CursorIsLast'
  <2>1. CASE Len(reader.seen) > 0
    <3>1. Len(reader.seen) \in 1..Len(reader.seen)
      <4>1. reader.seen \in Seq(RowIds)  BY DEF ListingInv, ListingTypeOK
      <4>2. Len(reader.seen) \in Nat  BY <4>1
      <4> QED  BY <2>1, <4>2
    <3>2. PICK o \in ListRows : o = reader.seen[Len(reader.seen)]  BY <1>3, <3>1
    <3>3. KeyOf(o)' = KeyOf(o)  BY <1>1
    <3>4. KeyOf(reader.seen[Len(reader.seen)])' = KeyOf(reader.seen[Len(reader.seen)])
      BY <3>2, <3>3 DEF KeyOf
    <3> QED  BY <3>4 DEF ListingInv, CursorIsLast
  <2>2. CASE ~(Len(reader.seen) > 0)  BY <2>2 DEF ListingInv, CursorIsLast
  <2> QED  BY <2>1, <2>2
<1>7. StayedAreGiven'
  <2> SUFFICES ASSUME NEW k \in stayed', Passed(k)'
               PROVE  \E i \in 1..Len(reader.seen) : reader.seen[i] = k
    BY DEF StayedAreGiven
  <2>1. k \in stayed /\ k \in ListRows  BY DEF ListingInv, InList, ListRows
  <2>2. KeyOf(k)' = KeyOf(k)  BY <1>1, <2>1
  <2>3. Passed(k)  BY <2>2 DEF Passed
  <2> QED  BY <2>1, <2>3 DEF ListingInv, StayedAreGiven
<1> QED  BY <1>4, <1>5, <1>6, <1>7 DEF ListingInv

\* A row that is new was in no list before.
LEMMA CreateRowInv ==
  ASSUME ListingInv, NEW k \in RowIds, CreateRow(k)
  PROVE  ListingInv'
<1>1. PICK t \in Ticks : listed' = [listed EXCEPT ![k] = [at |-> t, taken |-> TRUE]]
  BY DEF CreateRow
<1>2. listed[k] = NotThere /\ reader' = reader /\ stayed' = stayed  BY DEF CreateRow
<1>3. ListingTypeOK /\ stayed \subseteq InList  BY DEF ListingInv
<1>4. [at |-> t, taken |-> TRUE] \in [at : Ticks, taken : BOOLEAN]  OBVIOUS
<1>5. [at |-> t, taken |-> TRUE] # NotThere  BY <1>4, ListingAssumption
<1>6. \A j \in RowIds : j # k => listed'[j] = listed[j]  BY <1>1, <1>3 DEF ListingTypeOK
<1>7. listed'[k] # NotThere  BY <1>1, <1>3, <1>5 DEF ListingTypeOK
<1>8. ListingTypeOK'  BY <1>1, <1>2, <1>3, <1>4 DEF ListingTypeOK
<1>9. /\ ListRows \subseteq ListRows' /\ \A j \in ListRows : listed'[j].at = listed[j].at
      /\ \A j \in InList : listed'[j] = listed[j]
  BY <1>2, <1>6, <1>7 DEF ListRows, InList
<1>10. stayed' \subseteq InList'  BY <1>2, <1>3, <1>9 DEF InList
<1> QED  BY <1>2, <1>8, <1>9, <1>10, RowsMoveInv

\* A row that is edited, deleted or restored keeps its time.
LEMMA ChangeRowInv ==
  ASSUME ListingInv, NEW k \in RowIds, ChangeRow(k)
  PROVE  ListingInv'
<1>1. /\ listed' = [listed EXCEPT ![k].taken = ~@] /\ listed[k] # NotThere
      /\ reader' = reader /\ stayed' = stayed \ {k}
  BY DEF ChangeRow
<1>2. ListingTypeOK /\ stayed \subseteq InList  BY DEF ListingInv
<1>3. PICK was \in [at : Ticks, taken : BOOLEAN] : was = listed[k]
  BY <1>1, <1>2 DEF ListingTypeOK
<1>4. PICK other : other = [at |-> was.at, taken |-> ~was.taken]  OBVIOUS
<1>5. other \in [at : Ticks, taken : BOOLEAN] /\ other.at = was.at  BY <1>3, <1>4
<1>6. [was EXCEPT !.taken = ~@] = other  BY <1>3, <1>4
<1>7. listed' = [listed EXCEPT ![k] = other]  BY <1>1, <1>3, <1>6
<1>8. other # NotThere  BY <1>5, ListingAssumption
<1>9. /\ \A j \in RowIds : j # k => listed'[j] = listed[j]
      /\ listed'[k] = other
  BY <1>2, <1>7 DEF ListingTypeOK
<1>10. ListingTypeOK'  BY <1>1, <1>2, <1>5, <1>7 DEF ListingTypeOK
<1>11. ListRows \subseteq ListRows'  BY <1>8, <1>9 DEF ListRows
<1>12. \A j \in ListRows : listed'[j].at = listed[j].at  BY <1>3, <1>5, <1>9 DEF ListRows
<1>13. stayed' \subseteq InList'  BY <1>1, <1>2, <1>9 DEF InList
<1>14. stayed' \subseteq stayed  BY <1>1
<1> QED  BY <1>1, <1>10, <1>11, <1>12, <1>13, <1>14, RowsMoveInv

\* Every step keeps the invariant.
LEMMA ListingNextInv == ListingInv /\ [ListingNext]_listingVars => ListingInv'
<1> SUFFICES ASSUME ListingInv, [ListingNext]_listingVars PROVE ListingInv'  OBVIOUS
<1>1. CASE List  BY <1>1, ListInv
<1>2. CASE ListFromBadCursor  BY <1>2, ListFromBadCursorInv
<1>3. ASSUME NEW k \in RowIds, CreateRow(k) \/ ChangeRow(k) PROVE ListingInv'
  BY <1>3, CreateRowInv, ChangeRowInv
<1>4. CASE UNCHANGED listingVars
  <2>1. listed' = listed /\ reader' = reader /\ stayed' = stayed  BY <1>4 DEF listingVars
  <2>2. ListingTypeOK /\ stayed \subseteq InList  BY DEF ListingInv
  <2>3. ListingTypeOK'  BY <2>1, <2>2 DEF ListingTypeOK
  <2>4. ListRows' = ListRows /\ InList' = InList  BY <2>1 DEF ListRows, InList
  <2> QED  BY <2>1, <2>2, <2>3, <2>4, RowsMoveInv
<1> QED  BY <1>1, <1>2, <1>3, <1>4 DEF ListingNext

\* It holds of every list.
LEMMA ListingInvHolds == ListingSpec => []ListingInv
BY ListingInitInv, ListingNextInv, PTL DEF ListingSpec

\* Every variable of the list and its reader has its type.
THEOREM ListingTypeCorrect == ListingSpec => []ListingTypeOK
<1>1. ListingInv => ListingTypeOK  BY DEF ListingInv
<1> QED  BY <1>1, ListingInvHolds, PTL

\* A list read page by page gives each row that stayed in it, once, newest first,
\* for any rows, times and page sizes.
THEOREM PagesGiveEachRowOnce == ListingSpec => []EachRowOnce
BY ListingInvGives, ListingInvHolds, PTL

-------------------------------------------------------------------------------
(***************************************************************************)
(* Import files: the columns.                                              *)
(***************************************************************************)
Mappings == [Headers -> Targets \cup {Unread}]

\* The smallest of some fields is one of them.
LEMMA MinIsOne ==
  ASSUME NEW S \in SUBSET Targets, S # {}
  PROVE  Min(S) \in S
<1>1. S \in SUBSET Nat  BY ImportFilesAssumption
<1>2. \E x \in S : \A y \in S : x <= y  BY <1>1, LeastNatural
<1> QED  BY <1>2 DEF Min

\* What a header is given: a field that is free and like it, or what it had.
Gives(like, grades, m, h, n) ==
  /\ n \in Mappings
  /\ \A g \in Headers : g # h => n[g] = m[g]
  /\ m[h] # Unread => n = m
  /\ m[h] = Unread =>
       \/ n[h] \in Targets \ Range(m) /\ like[h, n[h]] \in grades
       \/ n = m /\ \A t \in Targets : like[h, t] \in grades => t \in Range(m)

\* One header is given a free field that it is like, or none.
LEMMA MatchHeaderGives ==
  ASSUME NEW like \in Likeness, NEW grades, NEW m \in Mappings, NEW h \in Headers
  PROVE  Gives(like, grades, m, h, MatchHeader(like, grades, m, h))
<1> SUFFICES ASSUME NEW n, n = MatchHeader(like, grades, m, h) PROVE Gives(like, grades, m, h, n)
  OBVIOUS
<1> USE DEF Gives
<1> DEFINE free == {t \in Targets \ Range(m) : like[h, t] \in grades}
<1>1. n
        = IF m[h] # Unread \/ free = {} THEN m ELSE [m EXCEPT ![h] = Min(free)]
  BY DEF MatchHeader
<1>2. free # {} => Min(free) \in free  BY MinIsOne
<1>3. free = {} => \A t \in Targets : like[h, t] \in grades => t \in Range(m)  OBVIOUS
<1>4. PICK t : t = Min(free)  OBVIOUS
<1>5. free # {} => t \in Targets \ Range(m) /\ like[h, t] \in grades  BY <1>2, <1>4
<1>6. n
        = IF m[h] # Unread \/ free = {} THEN m ELSE [m EXCEPT ![h] = t]
  BY <1>1, <1>4
<1> HIDE DEF free
<1>7. CASE m[h] # Unread  BY <1>6, <1>7
<1>8. CASE m[h] = Unread /\ free = {}  BY <1>3, <1>6, <1>8
<1>9. CASE m[h] = Unread /\ free # {}
  <2>1. n = [m EXCEPT ![h] = t] /\ t \in Targets  BY <1>5, <1>6, <1>9
  <2>2. [m EXCEPT ![h] = t] \in Mappings /\ [m EXCEPT ![h] = t][h] = t
        /\ \A g \in Headers : g # h => [m EXCEPT ![h] = t][g] = m[g]
    BY <2>1 DEF Mappings
  <2> QED  BY <1>5, <1>9, <2>1, <2>2
<1> QED  BY <1>7, <1>8, <1>9

\* The mappings of one pass, header by header.
Passes(like, grades, mapping, after) ==
  after = [h \in 0..Columns |-> IF h = 0 THEN mapping
                                ELSE MatchHeader(like, grades, after[h - 1], h)]

\* A pass has a mapping for every number of headers, worked out one after the other.
LEMMA OnePass ==
  ASSUME NEW like \in Likeness, NEW grades, NEW mapping \in Mappings
  PROVE  \E after \in [0..Columns -> Mappings] :
            /\ after[0] = mapping /\ Match(like, grades, mapping) = after[Columns]
            /\ \A h \in Headers : after[h] = MatchHeader(like, grades, after[h - 1], h)
<1> DEFINE base == [n \in Nat |-> mapping]
           down == [n \in Nat \ {0} |-> n - 1]
           step == [p \in Mappings \X Nat |->
                      IF p[2] \in Headers THEN MatchHeader(like, grades, p[1], p[2]) ELSE p[1]]
<1>0. Columns \in Nat  BY ImportFilesAssumption
<1>1. Recipe(Mappings, {0}, base, down, step)
  <2>1. \A m \in Mappings, h \in Headers : MatchHeader(like, grades, m, h) \in Mappings
    BY MatchHeaderGives DEF Gives
  <2>2. step \in [Mappings \X Nat -> Mappings]  BY <2>1
  <2> QED  BY <2>2 DEF Recipe
<1>2. PICK f \in [Nat -> Mappings] : WorksOut(f, {0}, base, down, step, Nat)
  <2> HIDE DEF base, down, step
  <2> QED  BY ONLY <1>1, WorkedOut
<1>3. ASSUME NEW h \in 0..Columns
      PROVE  f[h] = IF h = 0 THEN mapping ELSE MatchHeader(like, grades, f[h - 1], h)
  <2>1. f[h] = IF h \in {0} THEN base[h] ELSE step[f[down[h]], h]
    <3>1. h \in Nat  BY <1>0
    <3> HIDE DEF base, down, step
    <3> QED  BY <1>2, <3>1 DEF WorksOut
  <2>2. CASE h = 0  BY <2>1, <2>2
  <2>3. CASE h # 0
    <3>1. h \in Headers /\ h \in Nat /\ down[h] = h - 1 /\ h - 1 \in Nat  BY <1>0, <2>3 DEF Headers
    <3>2. f[h - 1] \in Mappings  BY <3>1
    <3>3. step[f[h - 1], h] = MatchHeader(like, grades, f[h - 1], h)  BY <3>1, <3>2
    <3> QED  BY <2>1, <2>3, <3>1, <3>3
  <2> QED  BY <2>2, <2>3
<1> HIDE DEF base, down, step
<1> DEFINE g == [h \in 0..Columns |-> f[h]]
<1>4. Passes(like, grades, mapping, g)
  <2>1. \A h \in 0..Columns : h # 0 => h - 1 \in 0..Columns  BY <1>0
  <2>2. \A h \in 0..Columns : h # 0 => g[h - 1] = f[h - 1]  BY <2>1
  <2>3. \A h \in 0..Columns : f[h] = IF h = 0 THEN mapping ELSE MatchHeader(like, grades, g[h - 1], h)
    BY <1>3, <2>2
  <2>4. g = [h \in 0..Columns |-> IF h = 0 THEN mapping ELSE MatchHeader(like, grades, g[h - 1], h)]
    BY <2>3
  <2> HIDE DEF g
  <2> QED  BY <2>4 DEF Passes
<1>5. \E after : Passes(like, grades, mapping, after)  BY <1>4
<1>6. Match(like, grades, mapping) = (CHOOSE after : Passes(like, grades, mapping, after))[Columns]
  BY DEF Match, Passes
<1>7. PICK after : after = CHOOSE a : Passes(like, grades, mapping, a)  OBVIOUS
<1>8. Passes(like, grades, mapping, after)  BY <1>5, <1>7
<1>9. Match(like, grades, mapping) = after[Columns]  BY <1>6, <1>7
<1>10. \A h \in 0..Columns : after[h] = IF h = 0 THEN mapping
                                        ELSE MatchHeader(like, grades, after[h - 1], h)
  BY <1>8 DEF Passes
<1>11. after = [h \in 0..Columns |-> after[h]]  BY <1>8 DEF Passes
<1> DEFINE T == {n \in Nat : n <= Columns => after[n] \in Mappings}
<1>12. ASSUME NEW n \in Nat, n \in T PROVE n + 1 \in T
  <2> SUFFICES ASSUME n + 1 <= Columns PROVE after[n + 1] \in Mappings  OBVIOUS
  <2>1. n + 1 \in Headers /\ n + 1 \in 0..Columns /\ n + 1 - 1 = n /\ n + 1 # 0  BY <1>0 DEF Headers
  <2>2. after[n] \in Mappings  BY <1>0, <1>12
  <2>3. after[n + 1] = MatchHeader(like, grades, after[n], n + 1)  BY <1>10, <2>1
  <2>4. MatchHeader(like, grades, after[n], n + 1) \in Mappings
    BY <2>1, <2>2, MatchHeaderGives DEF Gives
  <2> QED  BY <2>3, <2>4
<1>13. 0 \in T  BY <1>0, <1>10
<1> HIDE DEF T
<1>14. \A n \in Nat : n \in T  BY <1>12, <1>13, AllNaturals
<1>15. after \in [0..Columns -> Mappings]  BY <1>11, <1>14 DEF T
<1>16. Headers \subseteq 0..Columns /\ 0 \in 0..Columns /\ \A h \in Headers : h # 0  BY <1>0 DEF Headers
<1> QED  BY <1>9, <1>10, <1>15, <1>16

\* No two headers have one field, and every header has been given its field by a
\* pass or had it before.
OneEach(m) == \A g, h \in Headers : (g # h /\ m[g] # Unread) => m[h] # m[g]

\* What one pass does to a mapping, whatever the other headers are given.
Completes(like, grades, mapping, m) ==
  /\ m \in Mappings /\ OneEach(m)
  /\ \A h \in Headers : mapping[h] # Unread => m[h] = mapping[h]
  /\ \A h \in Headers : (mapping[h] = Unread /\ m[h] # Unread) => like[h, m[h]] \in grades
  /\ \A h \in Headers : m[h] = Unread =>
       \A t \in Targets : like[h, t] \in grades => t \in Range(m)

\* One pass keeps what there was, and leaves free no field that a header without one is like.
LEMMA PassGives ==
  ASSUME NEW like \in Likeness, NEW grades, NEW mapping \in Mappings, OneEach(mapping)
  PROVE  Completes(like, grades, mapping, Match(like, grades, mapping))
<1> SUFFICES ASSUME NEW m, m = Match(like, grades, mapping)
             PROVE  Completes(like, grades, mapping, m)
  OBVIOUS
<1>0. Columns \in Nat /\ Unread \notin Targets  BY ImportFilesAssumption
<1>1. PICK after \in [0..Columns -> Mappings] :
         /\ after[0] = mapping /\ Match(like, grades, mapping) = after[Columns]
         /\ \A h \in Headers : after[h] = MatchHeader(like, grades, after[h - 1], h)
  BY ONLY like \in Likeness, mapping \in Mappings, OnePass
\* After the first n headers.
<1> DEFINE Good(n) ==
      /\ OneEach(after[n])
      /\ \A h \in Headers : mapping[h] # Unread => after[n][h] = mapping[h]
      /\ \A h \in Headers : (mapping[h] = Unread /\ after[n][h] # Unread)
                               => like[h, after[n][h]] \in grades
      /\ \A h \in Headers : (h <= n /\ after[n][h] = Unread) =>
           \A t \in Targets : like[h, t] \in grades => t \in Range(after[n])
      /\ \A h \in Headers : h > n => after[n][h] = mapping[h]
    T == {n \in Nat : n <= Columns => Good(n)}
<1>2. Good(0)
  <2>1. \A h \in Headers : ~(h <= 0) /\ h > 0  BY <1>0 DEF Headers
  <2> QED  BY <1>1, <2>1
<1>3. ASSUME NEW n \in Nat, n + 1 <= Columns, Good(n) PROVE Good(n + 1)
  <2> HIDE DEF Good, T
  <2>1. PICK k \in Headers : k = n + 1 /\ k - 1 = n /\ ~(k <= n)  BY <1>0, <1>3 DEF Headers
  <2>2. n \in 0..Columns /\ k \in 0..Columns  BY <1>0, <1>3, <2>1
  <2>3. PICK x \in Mappings : x = after[n]  BY <2>2
  <2>4. PICK w \in Mappings : w = after[k]  BY <2>2
  <2>5. w = MatchHeader(like, grades, x, k)  BY <1>1, <2>1, <2>3, <2>4
  <2>6. /\ \A g \in Headers : g # k => w[g] = x[g]
        /\ x[k] # Unread => w = x
        /\ x[k] = Unread =>
             \/ w[k] \in Targets \ Range(x) /\ like[k, w[k]] \in grades
             \/ w = x /\ \A t \in Targets : like[k, t] \in grades => t \in Range(x)
    <3>1. Gives(like, grades, x, k, w)  BY <2>5, MatchHeaderGives
    <3> QED  BY <3>1 DEF Gives
  <2>7. \A h \in Headers : x[h] \in Range(x)  BY DEF Range, Mappings
  <2>8. Range(x) \ {Unread} \subseteq Range(w)
    <3> SUFFICES ASSUME NEW h \in Headers, x[h] # Unread PROVE x[h] \in Range(w)
      BY DEF Range, Mappings
    <3>1. w[h] = x[h]  BY <2>6
    <3> QED  BY <3>1 DEF Range, Mappings
  <2>9. OneEach(x) /\ x[k] = mapping[k]
    <3>1. k > n  BY <1>3, <2>1
    <3> QED  BY <1>3, <2>3, <3>1 DEF Good
  <2>10. OneEach(w)  BY <2>6, <2>7, <2>9, <1>0 DEF OneEach
  <2>11. ASSUME NEW h \in Headers, mapping[h] # Unread PROVE w[h] = mapping[h]
    BY <1>3, <2>3, <2>6, <2>9, <2>11 DEF Good
  <2>12. ASSUME NEW h \in Headers, mapping[h] = Unread, w[h] # Unread PROVE like[h, w[h]] \in grades
    BY <1>3, <2>3, <2>6, <2>9, <2>12 DEF Good
  <2>13. ASSUME NEW h \in Headers, h <= k, w[h] = Unread, NEW t \in Targets, like[h, t] \in grades
         PROVE  t \in Range(w)
    <3>1. CASE h = k  BY <1>0, <2>6, <2>9, <2>13, <3>1, <2>8
    <3>2. CASE h # k
      <4>1. h \in Nat  BY <1>0 DEF Headers
      <4>2. h <= n  BY ONLY n \in Nat, h <= k, <2>1, <3>2, <4>1
      <4>3. x[h] = Unread  BY <2>6, <2>13, <3>2
      <4>4. t \in Range(x)  BY <1>3, <2>3, <2>13, <4>2, <4>3 DEF Good
      <4> QED  BY <1>0, <2>8, <4>4
    <3> QED  BY <3>1, <3>2
  <2>14. ASSUME NEW h \in Headers, h > k PROVE w[h] = mapping[h]
    <3>1. h # k /\ h > n  BY <1>0, <2>1, <2>14 DEF Headers
    <3> QED  BY <1>3, <2>3, <2>6, <3>1 DEF Good
  <2> QED  BY <2>1, <2>4, <2>10, <2>11, <2>12, <2>13, <2>14 DEF Good
<1> HIDE DEF Good
<1>4. \A n \in Nat : n \in T => n + 1 \in T  BY <1>0, <1>3
<1>5. 0 \in T  BY <1>2
<1> HIDE DEF T
<1>6. \A n \in Nat : n \in T  BY <1>4, <1>5, AllNaturals
<1>7. Good(Columns)  BY <1>0, <1>6 DEF T
<1>8. Columns \in 0..Columns /\ \A h \in Headers : h <= Columns  BY <1>0 DEF Headers
<1>9. m \in Mappings /\ m = after[Columns]  BY <1>1, <1>8
<1> QED  BY <1>7, <1>8, <1>9 DEF Good, Completes

\* One header has another field than the other, and is not equal to the other's field
\* and like its own at most.
Best(like, m, g, h) ==
  /\ m[h] # m[g]
  /\ (like[g, m[g]] = "contains" /\ like[h, m[g]] = "equal")
       => m[h] # Unread /\ like[h, m[h]] = "equal"

\* The columns are mapped as BestColumnWins says: the passes that ask for an equal
\* header leave none that is equal to a free field.
LEMMA BestIsTaken ==
  ASSUME NEW like \in Likeness, NEW g \in Headers, NEW h \in Headers, g # h,
         SuggestMapping(like)[g] # Unread
  PROVE  Best(like, SuggestMapping(like), g, h)
<1> DEFINE a == Match(like, {"equal"}, NoMapping)
           b == Match(like, {"equal"}, a)
           c == Match(like, {"equal", "contains"}, b)
<1>1. NoMapping \in Mappings /\ OneEach(NoMapping) /\ \A k \in Headers : NoMapping[k] = Unread
  BY DEF NoMapping, Mappings, OneEach
<1>2. /\ a \in Mappings /\ OneEach(a)
      /\ \A k \in Headers : a[k] # Unread => like[k, a[k]] = "equal"
      /\ \A k \in Headers : a[k] = Unread =>
           \A t \in Targets : like[k, t] = "equal" => t \in Range(a)
  <2>1. Completes(like, {"equal"}, NoMapping, a)  BY <1>1, PassGives
  <2> HIDE DEF a
  <2> QED  BY <1>1, <2>1 DEF Completes
<1> HIDE DEF a
<1>3. b \in Mappings /\ OneEach(b) /\ \A k \in Headers : a[k] # Unread => b[k] = a[k]
  <2>1. Completes(like, {"equal"}, a, b)  BY <1>2, PassGives
  <2> HIDE DEF b
  <2> QED  BY <2>1 DEF Completes
<1> HIDE DEF b
<1>4. c \in Mappings /\ OneEach(c) /\ \A k \in Headers : b[k] # Unread => c[k] = b[k]
  <2>1. Completes(like, {"equal", "contains"}, b, c)  BY <1>3, PassGives
  <2> HIDE DEF c
  <2> QED  BY <2>1 DEF Completes
<1>5. SuggestMapping(like) = c  BY DEF SuggestMapping, a, b
<1> HIDE DEF c
<1>6. c[g] # Unread /\ c[g] \in Targets  BY <1>4, <1>5 DEF Mappings
<1>7. c[h] # c[g]  BY <1>4, <1>6 DEF OneEach
<1>8. ASSUME like[g, c[g]] = "contains", like[h, c[g]] = "equal"
      PROVE  c[h] # Unread /\ like[h, c[h]] = "equal"
  <2>1. CASE a[h] # Unread  BY <1>2, <1>3, <1>4, <2>1
  <2>2. CASE a[h] = Unread
    <3>1. c[g] \in Range(a)  BY <1>2, <1>6, <1>8, <2>2
    <3>2. PICK k \in Headers : a[k] = c[g]  BY <1>2, <3>1 DEF Range, Mappings
    <3>3. c[k] = c[g] /\ like[k, c[g]] = "equal"  BY <1>2, <1>3, <1>4, <1>6, <3>2
    <3>4. k = g  BY <1>4, <1>6, <3>3 DEF OneEach
    <3> QED  BY <1>8, <3>3, <3>4
  <2> QED  BY <2>1, <2>2
<1> QED  BY <1>5, <1>7, <1>8 DEF Best

-------------------------------------------------------------------------------
(***************************************************************************)
(* Import files: the amounts.  What an amount means is defined by its value, *)
(* what is read by its characters.  Removing the marks of the groups       *)
(* (Without) leaves digits that are worth the number (Number), the last mark *)
(* decides where the decimals begin, and groups of a million and more have *)
(* two marks, which no number has.                                         *)
(***************************************************************************)
Figures == 0..9

\* What the characters so far are worth.
Worth(digits, first) ==
  first = [i \in 0..Len(digits) |-> IF i = 0 THEN 0 ELSE 10 * first[i - 1] + digits[i]]

\* The number of a text is worked out character by character.
LEMMA NumberUpto ==
  ASSUME NEW s \in Seq(Nat)
  PROVE  \E first \in [0..Len(s) -> Nat] :
            /\ first[0] = 0 /\ Number(s) = first[Len(s)]
            /\ \A i \in 1..Len(s) : first[i] = 10 * first[i - 1] + s[i]
<1> DEFINE base == [n \in Nat |-> 0]
           down == [n \in Nat \ {0} |-> n - 1]
           step == [p \in Nat \X Nat |-> IF p[2] \in 1..Len(s) THEN 10 * p[1] + s[p[2]] ELSE 0]
<1>0. Len(s) \in Nat /\ \A i \in 1..Len(s) : s[i] \in Nat /\ i - 1 \in 0..Len(s)
  BY ElementOfSeq
<1>1. Recipe(Nat, {0}, base, down, step)
  <2>1. step \in [Nat \X Nat -> Nat]  BY <1>0
  <2> QED  BY <2>1 DEF Recipe
<1>2. PICK f \in [Nat -> Nat] : WorksOut(f, {0}, base, down, step, Nat)
  <2> HIDE DEF base, down, step
  <2> QED  BY ONLY <1>1, WorkedOut
<1>3. ASSUME NEW i \in 0..Len(s)
      PROVE  f[i] = IF i = 0 THEN 0 ELSE 10 * f[i - 1] + s[i]
  <2>1. f[i] = IF i \in {0} THEN base[i] ELSE step[f[down[i]], i]
    <3>1. i \in Nat  BY <1>0
    <3> HIDE DEF base, down, step
    <3> QED  BY <1>2, <3>1 DEF WorksOut
  <2>2. CASE i = 0  BY <2>1, <2>2
  <2>3. CASE i # 0
    <3>1. i \in 1..Len(s) /\ i \in Nat /\ down[i] = i - 1 /\ i - 1 \in Nat  BY <1>0, <2>3
    <3>2. step[f[i - 1], i] = 10 * f[i - 1] + s[i]  BY <3>1
    <3> QED  BY <2>1, <2>3, <3>1, <3>2
  <2> QED  BY <2>2, <2>3
<1> HIDE DEF base, down, step
<1> DEFINE g == [i \in 0..Len(s) |-> f[i]]
<1>4. Worth(s, g)
  <2>1. \A i \in 0..Len(s) : i # 0 => i - 1 \in 0..Len(s)  BY <1>0
  <2>2. \A i \in 0..Len(s) : i # 0 => g[i - 1] = f[i - 1]  BY <2>1
  <2>3. \A i \in 0..Len(s) : f[i] = IF i = 0 THEN 0 ELSE 10 * g[i - 1] + s[i]  BY <1>3, <2>2
  <2>4. g = [i \in 0..Len(s) |-> IF i = 0 THEN 0 ELSE 10 * g[i - 1] + s[i]]  BY <2>3
  <2> HIDE DEF g
  <2> QED  BY <2>4 DEF Worth
<1>5. \E first : Worth(s, first)  BY <1>4
<1>6. Number(s) = (CHOOSE first : Worth(s, first))[Len(s)]  BY DEF Number, Worth
<1>7. PICK first : first = CHOOSE a : Worth(s, a)  OBVIOUS
<1>8. Worth(s, first)  BY <1>5, <1>7
<1>9. Number(s) = first[Len(s)]  BY <1>6, <1>7
<1>10. \A i \in 0..Len(s) : first[i] = IF i = 0 THEN 0 ELSE 10 * first[i - 1] + s[i]
  BY <1>8 DEF Worth
<1>11. first = [i \in 0..Len(s) |-> first[i]]  BY <1>8 DEF Worth
<1> DEFINE T == {n \in Nat : n <= Len(s) => first[n] \in Nat}
<1>12. ASSUME NEW n \in Nat, n \in T PROVE n + 1 \in T
  <2> SUFFICES ASSUME n + 1 <= Len(s) PROVE first[n + 1] \in Nat  OBVIOUS
  <2>1. n + 1 \in 1..Len(s) /\ n + 1 \in 0..Len(s) /\ n + 1 - 1 = n /\ n + 1 # 0  BY <1>0
  <2>2. first[n] \in Nat  BY <1>0, <1>12
  <2>3. first[n + 1] = 10 * first[n] + s[n + 1]  BY <1>10, <2>1
  <2>4. PICK a \in Nat, b \in Nat : a = first[n] /\ b = s[n + 1]  BY <1>0, <2>1, <2>2
  <2>5. 10 * a + b \in Nat  OBVIOUS
  <2> QED  BY <2>3, <2>4, <2>5, Zenon
<1>13. 0 \in T  BY <1>0, <1>10
<1> HIDE DEF T
<1>14. \A n \in Nat : n \in T  BY <1>12, <1>13, AllNaturals
<1>15. first \in [0..Len(s) -> Nat]  BY <1>11, <1>14 DEF T
<1>16. 1..Len(s) \subseteq 0..Len(s) /\ 0 \in 0..Len(s) /\ \A i \in 1..Len(s) : i # 0  BY <1>0
<1> QED  BY <1>9, <1>10, <1>15, <1>16

\* A character more.
LEMMA NumberAppend ==
  ASSUME NEW s \in Seq(Nat), NEW c \in Nat
  PROVE  Number(s) \in Nat /\ Number(Append(s, c)) = 10 * Number(s) + c
<1>1. PICK f \in [0..Len(s) -> Nat] :
         /\ f[0] = 0 /\ Number(s) = f[Len(s)]
         /\ \A i \in 1..Len(s) : f[i] = 10 * f[i - 1] + s[i]
  BY NumberUpto
<1>2. PICK t \in Seq(Nat) : t = Append(s, c)  BY AppendProperties
<1>3. PICK g \in [0..Len(t) -> Nat] :
         /\ g[0] = 0 /\ Number(t) = g[Len(t)]
         /\ \A i \in 1..Len(t) : g[i] = 10 * g[i - 1] + t[i]
  BY NumberUpto
<1>4. /\ Len(s) \in Nat /\ Len(t) = Len(s) + 1 /\ t[Len(t)] = c
      /\ \A i \in 1..Len(s) : t[i] = s[i] /\ s[i] \in Nat
  BY <1>2, ElementOfSeq
<1> DEFINE T == {n \in Nat : n <= Len(s) => f[n] = g[n]}
<1>5. ASSUME NEW n \in Nat, n \in T PROVE n + 1 \in T
  <2> SUFFICES ASSUME n + 1 <= Len(s) PROVE f[n + 1] = g[n + 1]  OBVIOUS
  <2>1. n + 1 \in 1..Len(s) /\ n + 1 \in 1..Len(t) /\ n + 1 - 1 = n  BY <1>4
  <2>2. f[n] = g[n]  BY <1>4, <1>5
  <2>3. f[n + 1] = 10 * f[n] + s[n + 1] /\ g[n + 1] = 10 * g[n] + t[n + 1]  BY <1>1, <1>3, <2>1
  <2> QED  BY <1>4, <2>1, <2>2, <2>3
<1>6. 0 \in T  BY <1>1, <1>3
<1> HIDE DEF T
<1>7. \A n \in Nat : n \in T  BY <1>5, <1>6, AllNaturals
<1>8. f[Len(s)] = g[Len(s)]
  <2>1. Len(s) \in T /\ Len(s) <= Len(s)  BY <1>4, <1>7
  <2> QED  BY <2>1 DEF T
<1>9. Len(t) \in 1..Len(t) /\ Len(t) - 1 = Len(s) /\ Len(s) \in 0..Len(s)  BY <1>4
<1>10. g[Len(t)] = 10 * g[Len(s)] + c  BY <1>3, <1>4, <1>9
<1> QED  BY <1>1, <1>2, <1>3, <1>8, <1>9, <1>10

\* Nothing is worth nothing.
LEMMA NumberEmpty == Number(<<>>) = 0
<1>1. <<>> \in Seq(Nat)  OBVIOUS
<1>2. PICK s \in Seq(Nat) : s = <<>> /\ Len(s) = 0  BY <1>1
<1>3. Number(s) = 0  BY <1>2, NumberUpto
<1> QED  BY <1>2, <1>3

-----------------------------------------------------------------------------
\* What is left of the characters so far.
Left(text, mark, first) ==
  first = [i \in 0..Len(text) |->
             IF i = 0 THEN <<>>
             ELSE IF text[i] = mark THEN first[i - 1] ELSE Append(first[i - 1], text[i])]

LeftBy(s, mark, first) ==
  /\ first \in [0..Len(s) -> Seq(Nat)]
  /\ first[0] = <<>> /\ Without(s, mark) = first[Len(s)]
  /\ \A i \in 1..Len(s) :
       first[i] = IF s[i] = mark THEN first[i - 1] ELSE Append(first[i - 1], s[i])

\* What is left of a text is worked out character by character.
LEMMA WithoutUpto ==
  ASSUME NEW s \in Seq(Nat), NEW mark
  PROVE  \E first : LeftBy(s, mark, first)
<1> DEFINE base == [n \in Nat |-> <<>>]
           down == [n \in Nat \ {0} |-> n - 1]
           step == [p \in Seq(Nat) \X Nat |->
                      IF p[2] \in 1..Len(s) /\ s[p[2]] # mark THEN Append(p[1], s[p[2]]) ELSE p[1]]
<1>0. Len(s) \in Nat /\ \A i \in 1..Len(s) : s[i] \in Nat /\ i - 1 \in 0..Len(s)
  BY ElementOfSeq
<1>1. Recipe(Seq(Nat), {0}, base, down, step)
  <2>1. \A x \in Seq(Nat), c \in Nat : Append(x, c) \in Seq(Nat)  BY AppendProperties
  <2>2. step \in [Seq(Nat) \X Nat -> Seq(Nat)]  BY <1>0, <2>1
  <2>3. <<>> \in Seq(Nat)  OBVIOUS
  <2>4. base \in [Nat -> Seq(Nat)]  BY <2>3
  <2> HIDE DEF base, step
  <2> QED  BY <2>2, <2>4 DEF Recipe
<1>2. PICK f \in [Nat -> Seq(Nat)] : WorksOut(f, {0}, base, down, step, Nat)
  <2> HIDE DEF base, down, step
  <2> QED  BY ONLY <1>1, WorkedOut
<1>3. ASSUME NEW i \in 0..Len(s)
      PROVE  f[i] = IF i = 0 THEN <<>>
                    ELSE IF s[i] = mark THEN f[i - 1] ELSE Append(f[i - 1], s[i])
  <2>1. f[i] = IF i \in {0} THEN base[i] ELSE step[f[down[i]], i]
    <3>1. i \in Nat  BY <1>0
    <3> HIDE DEF base, down, step
    <3> QED  BY <1>2, <3>1 DEF WorksOut
  <2>2. CASE i = 0  BY <2>1, <2>2
  <2>3. CASE i # 0
    <3>1. i \in 1..Len(s) /\ i \in Nat /\ down[i] = i - 1 /\ i - 1 \in Nat  BY <1>0, <2>3
    <3>2. PICK v \in Seq(Nat) : v = f[i - 1]  BY <3>1
    <3>3. step[v, i] = IF s[i] = mark THEN v ELSE Append(v, s[i])  BY <3>1
    <3> QED  BY <2>1, <2>3, <3>1, <3>2, <3>3
  <2> QED  BY <2>2, <2>3
<1> HIDE DEF base, down, step
<1> DEFINE g == [i \in 0..Len(s) |-> f[i]]
<1>4. Left(s, mark, g)
  <2>1. \A i \in 0..Len(s) : i # 0 => i - 1 \in 0..Len(s)  BY <1>0
  <2>2. \A i \in 0..Len(s) : i # 0 => g[i - 1] = f[i - 1]  BY <2>1
  <2>3. \A i \in 0..Len(s) : f[i] = IF i = 0 THEN <<>>
                    ELSE IF s[i] = mark THEN g[i - 1] ELSE Append(g[i - 1], s[i])
    BY <1>3, <2>2
  <2>4. g = [i \in 0..Len(s) |-> IF i = 0 THEN <<>>
                    ELSE IF s[i] = mark THEN g[i - 1] ELSE Append(g[i - 1], s[i])]
    BY <2>3
  <2> HIDE DEF g
  <2> QED  BY <2>4 DEF Left
<1>5. \E first : Left(s, mark, first)  BY <1>4
<1>6. Without(s, mark) = (CHOOSE first : Left(s, mark, first))[Len(s)]  BY DEF Without, Left
<1>7. PICK first : first = CHOOSE a : Left(s, mark, a)  OBVIOUS
<1>8. Left(s, mark, first)  BY <1>5, <1>7
<1>9. Without(s, mark) = first[Len(s)]  BY <1>6, <1>7
<1>10. \A i \in 0..Len(s) : first[i] = IF i = 0 THEN <<>>
                    ELSE IF s[i] = mark THEN first[i - 1] ELSE Append(first[i - 1], s[i])
  BY <1>8 DEF Left
<1>11. first = [i \in 0..Len(s) |-> first[i]]  BY <1>8 DEF Left
<1> DEFINE T == {n \in Nat : n <= Len(s) => first[n] \in Seq(Nat)}
<1>12. ASSUME NEW n \in Nat, n \in T PROVE n + 1 \in T
  <2> SUFFICES ASSUME n + 1 <= Len(s) PROVE first[n + 1] \in Seq(Nat)  OBVIOUS
  <2>1. n + 1 \in 1..Len(s) /\ n + 1 \in 0..Len(s) /\ n + 1 - 1 = n /\ n + 1 # 0  BY <1>0
  <2>2. first[n] \in Seq(Nat)  BY <1>0, <1>12
  <2>3. PICK a \in Seq(Nat), b \in Nat : a = first[n] /\ b = s[n + 1]  BY <1>0, <2>1, <2>2
  <2>4. first[n + 1] = IF b = mark THEN a ELSE Append(a, b)  BY <1>10, <2>1, <2>3
  <2>5. Append(a, b) \in Seq(Nat)  BY AppendProperties
  <2> QED  BY <2>4, <2>5, Zenon
<1>13. 0 \in T
  <2>1. <<>> \in Seq(Nat)  OBVIOUS
  <2>2. first[0] = <<>>  BY <1>0, <1>10
  <2> QED  BY <2>1, <2>2
<1> HIDE DEF T
<1>14. \A n \in Nat : n \in T  BY <1>12, <1>13, AllNaturals
<1>15. first \in [0..Len(s) -> Seq(Nat)]  BY <1>11, <1>14 DEF T
<1>16. 1..Len(s) \subseteq 0..Len(s) /\ 0 \in 0..Len(s) /\ \A i \in 1..Len(s) : i # 0  BY <1>0
<1> QED  BY <1>9, <1>10, <1>15, <1>16 DEF LeftBy

\* A character more.
LEMMA WithoutAppend ==
  ASSUME NEW s \in Seq(Nat), NEW c \in Nat, NEW mark
  PROVE  /\ Without(s, mark) \in Seq(Nat)
         /\ Without(Append(s, c), mark) = IF c = mark THEN Without(s, mark)
                                          ELSE Append(Without(s, mark), c)
<1>1. PICK f : LeftBy(s, mark, f)  BY WithoutUpto
<1>2. PICK t \in Seq(Nat) : t = Append(s, c)  BY AppendProperties
<1>3. PICK g : LeftBy(t, mark, g)  BY WithoutUpto
<1>4. /\ Len(s) \in Nat /\ Len(t) = Len(s) + 1 /\ t[Len(t)] = c
      /\ \A i \in 1..Len(s) : t[i] = s[i] /\ s[i] \in Nat
  BY <1>2, ElementOfSeq
<1> DEFINE T == {n \in Nat : n <= Len(s) => f[n] = g[n]}
<1>5. ASSUME NEW n \in Nat, n \in T PROVE n + 1 \in T
  <2> SUFFICES ASSUME n + 1 <= Len(s) PROVE f[n + 1] = g[n + 1]  OBVIOUS
  <2>1. n + 1 \in 1..Len(s) /\ n + 1 \in 1..Len(t) /\ n + 1 - 1 = n  BY <1>4
  <2>2. f[n] = g[n]  BY <1>4, <1>5
  <2>3. t[n + 1] = s[n + 1]  BY <1>4, <2>1
  <2>4. PICK a, b : a = f[n] /\ b = s[n + 1]  OBVIOUS
  <2>5. f[n + 1] = IF b = mark THEN a ELSE Append(a, b)  BY <1>1, <2>1, <2>4 DEF LeftBy
  <2>6. g[n + 1] = IF b = mark THEN a ELSE Append(a, b)  BY <1>3, <2>1, <2>2, <2>3, <2>4 DEF LeftBy
  <2> QED  BY <2>5, <2>6
<1>6. 0 \in T  BY <1>1, <1>3 DEF LeftBy
<1> HIDE DEF T
<1>7. \A n \in Nat : n \in T  BY <1>5, <1>6, AllNaturals
<1>8. f[Len(s)] = g[Len(s)]
  <2>1. Len(s) \in T /\ Len(s) <= Len(s)  BY <1>4, <1>7
  <2> QED  BY <2>1 DEF T
<1>9. Len(t) \in 1..Len(t) /\ Len(t) - 1 = Len(s) /\ Len(s) \in 0..Len(s)  BY <1>4
<1>10. g[Len(t)] = IF c = mark THEN g[Len(s)] ELSE Append(g[Len(s)], c)
  BY <1>3, <1>4, <1>9 DEF LeftBy
<1> QED  BY <1>1, <1>2, <1>3, <1>8, <1>9, <1>10 DEF LeftBy

\* Nothing is left of nothing.
LEMMA WithoutEmpty == ASSUME NEW mark PROVE Without(<<>>, mark) = <<>>
<1>1. <<>> \in Seq(Nat)  OBVIOUS
<1>2. PICK s \in Seq(Nat) : s = <<>> /\ Len(s) = 0  BY <1>1
<1>3. PICK first : LeftBy(s, mark, first)  BY WithoutUpto
<1>4. Without(s, mark) = <<>>  BY <1>2, <1>3 DEF LeftBy
<1> QED  BY <1>2, <1>4

\* What has no such mark is left as it is.
LEMMA WithoutNone ==
  ASSUME NEW mark, NEW text \in Seq(Nat), \A i \in 1..Len(text) : text[i] # mark
  PROVE  Without(text, mark) = text
<1> DEFINE T == {n \in Nat : \A s \in Seq(Nat) :
                               (Len(s) = n /\ \A i \in 1..Len(s) : s[i] # mark) => Without(s, mark) = s}
<1>1. 0 \in T
  <2>1. \A s \in Seq(Nat) : Len(s) = 0 => s = <<>>  BY EmptySeq
  <2> QED  BY <2>1, WithoutEmpty
<1>2. ASSUME NEW n \in Nat, n \in T PROVE n + 1 \in T
  <2> SUFFICES ASSUME NEW s \in Seq(Nat), Len(s) = n + 1, \A i \in 1..Len(s) : s[i] # mark
               PROVE  Without(s, mark) = s
    OBVIOUS
  <2>1. PICK r \in Seq(Nat), c \in Nat : s = Append(r, c)
    <3>1. s # <<>>  OBVIOUS
    <3> QED  BY <3>1, SequenceEmptyOrAppend
  <2>2. Len(r) = n /\ c = s[n + 1] /\ \A i \in 1..n : s[i] = r[i]
    <3>1. Len(s) = Len(r) + 1 /\ s[Len(r) + 1] = c /\ \A i \in 1..Len(r) : s[i] = r[i] /\ Len(r) \in Nat
      BY <2>1
    <3> QED  BY <3>1
  <2>3. Without(r, mark) = r  BY <1>2, <2>2
  <2>4. c # mark  BY <2>2
  <2> QED  BY <2>1, <2>3, <2>4, WithoutAppend
<1> HIDE DEF T
<1>3. \A n \in Nat : n \in T  BY <1>1, <1>2, AllNaturals
<1>4. Len(text) \in T  BY <1>3
<1> QED  BY <1>4 DEF T

-----------------------------------------------------------------------------
\* The digits of a number are digits of a smaller one and one more.
DigitsOf(f) == f = [n \in Nat |-> IF n < 10 THEN <<n>> ELSE Append(f[n \div 10], n % 10)]

\* Every number has its digits, and they satisfy the equation that defines them.
LEMMA DigitsAre ==
  /\ Digits \in [Nat -> Seq(Figures)]
  /\ \A n \in Nat : Digits[n] = IF n < 10 THEN <<n>> ELSE Append(Digits[n \div 10], n % 10)
<1> DEFINE base == [n \in Nat |-> IF n < 10 THEN <<n>> ELSE <<>>]
           down == [n \in Nat \ Figures |-> n \div 10]
           step == [p \in Seq(Figures) \X Nat |-> Append(p[1], p[2] % 10)]
<1>0. /\ \A n \in Nat : n \in Figures <=> n < 10
      /\ \A n \in Nat : n % 10 \in Figures
      /\ \A n \in Nat \ Figures : n \div 10 \in Nat /\ n \div 10 < n
  BY DEF Figures
<1>1. Recipe(Seq(Figures), Figures, base, down, step)
  <2>1. \A x \in Seq(Figures), c \in Figures : Append(x, c) \in Seq(Figures)  BY AppendProperties
  <2>2. step \in [Seq(Figures) \X Nat -> Seq(Figures)]  BY <1>0, <2>1
  <2>3. \A n \in Figures : <<n>> \in Seq(Figures)  OBVIOUS
  <2>4. <<>> \in Seq(Figures)  OBVIOUS
  <2>5. base \in [Nat -> Seq(Figures)]  BY <1>0, <2>3, <2>4
  <2>6. down \in [Nat \ Figures -> Nat] /\ \A n \in Nat \ Figures : down[n] < n  BY <1>0
  <2>7. Figures \in SUBSET Nat  BY DEF Figures
  <2> HIDE DEF base, step, down
  <2> QED  BY <2>2, <2>5, <2>6, <2>7 DEF Recipe
<1>2. PICK f \in [Nat -> Seq(Figures)] : WorksOut(f, Figures, base, down, step, Nat)
  <2> HIDE DEF base, down, step
  <2> QED  BY ONLY <1>1, WorkedOut
<1>3. ASSUME NEW n \in Nat
      PROVE  f[n] = IF n < 10 THEN <<n>> ELSE Append(f[n \div 10], n % 10)
  <2>1. f[n] = IF n \in Figures THEN base[n] ELSE step[f[down[n]], n]
    <3> HIDE DEF base, down, step
    <3> QED  BY <1>2 DEF WorksOut
  <2>2. CASE n < 10  BY <1>0, <2>1, <2>2
  <2>3. CASE ~(n < 10)
    <3>1. n \notin Figures /\ down[n] = n \div 10 /\ n \div 10 \in Nat  BY <1>0, <2>3
    <3>2. PICK v \in Seq(Figures) : v = f[n \div 10]  BY <3>1
    <3>3. step[v, n] = Append(v, n % 10)  OBVIOUS
    <3> QED  BY <2>1, <2>3, <3>1, <3>2, <3>3
  <2> QED  BY <2>2, <2>3
<1> HIDE DEF base, down, step
<1>4. DigitsOf(f)  BY <1>3 DEF DigitsOf
<1>5. Digits = CHOOSE g : DigitsOf(g)  BY DEF Digits, DigitsOf
<1>6. DigitsOf(Digits)  BY <1>4, <1>5
<1>7. /\ Digits = [n \in Nat |-> Digits[n]]
      /\ \A n \in Nat : Digits[n] = IF n < 10 THEN <<n>> ELSE Append(Digits[n \div 10], n % 10)
  BY <1>6 DEF DigitsOf
<1> DEFINE T == {n \in Nat : Digits[n] \in Seq(Figures)}
<1>8. ASSUME NEW n \in Nat, \A m \in 0..(n - 1) : m \in T PROVE n \in T
  <2>1. CASE n < 10
    <3>1. n \in Figures  BY <1>0, <2>1
    <3>2. <<n>> \in Seq(Figures)  BY <3>1
    <3> QED  BY <1>7, <2>1, <3>2
  <2>2. CASE ~(n < 10)
    <3>1. n \div 10 \in 0..(n - 1) /\ n % 10 \in Figures  BY <1>0, <2>2
    <3>2. PICK v \in Seq(Figures), c \in Figures : v = Digits[n \div 10] /\ c = n % 10
      BY <1>8, <3>1
    <3>3. Append(v, c) \in Seq(Figures)  BY AppendProperties
    <3> QED  BY <1>7, <2>2, <3>2, <3>3
  <2> QED  BY <2>1, <2>2
<1> HIDE DEF T
<1>9. \A n \in Nat : n \in T  BY <1>8, AllNaturalsFromSmaller
<1> QED  BY <1>7, <1>9 DEF T

\* Digits are naturals and no marks.
LEMMA FiguresAre ==
  /\ Figures \subseteq Nat /\ Seq(Figures) \subseteq Seq(Nat)
  /\ Point \notin Figures /\ Comma \notin Figures /\ Point # Comma
  /\ \A s \in Seq(Figures) : Len(s) \in Nat /\ \A i \in 1..Len(s) : s[i] \in Figures
BY SeqMonotonic, ElementOfSeq DEF Figures, Point, Comma

\* They are worth the number.
LEMMA DigitsWorth == \A n \in Nat : Number(Digits[n]) = n
<1> DEFINE T == {n \in Nat : Number(Digits[n]) = n}
<1>1. ASSUME NEW n \in Nat, \A m \in 0..(n - 1) : m \in T PROVE n \in T
  <2>1. CASE n < 10
    <3>1. <<>> \in Seq(Nat)  OBVIOUS
    <3>2. Number(Append(<<>>, n)) = 10 * 0 + n  BY <3>1, NumberAppend, NumberEmpty
    <3>3. Append(<<>>, n) = <<n>>  OBVIOUS
    <3>4. Digits[n] = <<n>>  BY <2>1, DigitsAre
    <3>5. 10 * 0 + n = n  OBVIOUS
    <3> QED  BY <3>2, <3>3, <3>4, <3>5, Zenon
  <2>2. CASE ~(n < 10)
    <3>1. n \div 10 \in 0..(n - 1) /\ n % 10 \in Nat /\ n = 10 * (n \div 10) + (n % 10)
      <4> HIDE DEF T
      <4>1. n \div 10 \in 0..(n - 1)  BY <2>2
      <4>2. n % 10 \in Nat /\ n = 10 * (n \div 10) + (n % 10)  OBVIOUS
      <4> QED  BY <4>1, <4>2
    <3>2. Number(Digits[n \div 10]) = n \div 10  BY <1>1, <3>1
    <3>3. PICK d \in Nat, c \in Nat : d = n \div 10 /\ c = n % 10  BY <3>1
    <3>4. Digits[d] \in Seq(Nat)  BY DigitsAre, FiguresAre
    <3>5. Number(Append(Digits[d], c)) = 10 * Number(Digits[d]) + c  BY <3>4, NumberAppend
    <3>6. Digits[n] = Append(Digits[d], c)  BY <2>2, <3>3, DigitsAre
    <3>7. n = 10 * d + c /\ Number(Digits[d]) = d  BY <3>1, <3>2, <3>3
    <3> QED  BY <3>5, <3>6, <3>7
  <2> QED  BY <2>1, <2>2
<1> HIDE DEF T
<1>2. \A n \in Nat : n \in T  BY <1>1, AllNaturalsFromSmaller
<1> QED  BY <1>2 DEF T

-----------------------------------------------------------------------------
\* A number in groups is a smaller one in groups and one more group.
GroupedBy(mark, f) ==
  f = [n \in Nat |-> IF n < 1000 THEN Digits[n] ELSE WithGroup(f[n \div 1000], mark, n)]

Thousands(n) == n \div 1000

\* The three last figures of a number.
LastThree(n, a, b, c) == (1000 * Thousands(n)) + (100 * a) + (10 * b) + c = n

FourMore(text, mark, a, b, c, longer) ==
  longer = Append(Append(Append(Append(text, mark), a), b), c)

\* One group more is four characters more.
LEMMA WithGroupIs ==
  ASSUME NEW text \in Seq(Nat), NEW mark \in Nat, NEW n \in Nat
  PROVE  /\ \E a \in Figures, b \in Figures, c \in Figures :
               /\ LastThree(n, a, b, c)
               /\ FourMore(text, mark, a, b, c, WithGroup(text, mark, n))
         /\ WithGroup(text, mark, n) \in Seq(Nat)
<1>1. PICK a \in Figures, b \in Figures, c \in Figures :
        /\ a = (n \div 100) % 10 /\ b = (n \div 10) % 10 /\ c = n % 10
        /\ (1000 * (n \div 1000)) + (100 * a) + (10 * b) + c = n
  <2>1. PICK x \in Nat, y \in Nat, z \in Nat : x = n \div 10 /\ y = n \div 100 /\ z = n \div 1000
    OBVIOUS
  <2>2. y = x \div 10 /\ z = y \div 10  BY <2>1
  <2>3. PICK a \in Figures, b \in Figures, c \in Figures : a = y % 10 /\ b = x % 10 /\ c = n % 10
    BY DEF Figures
  <2>4. n = (10 * x) + c  BY <2>1, <2>3
  <2>5. x = (10 * y) + b  BY <2>2, <2>3
  <2>6. y = (10 * z) + a  BY <2>2, <2>3
  <2>7. (1000 * z) + (100 * a) + (10 * b) + c = n  BY <2>4, <2>5, <2>6 DEF Figures
  <2> QED  BY <2>1, <2>3, <2>7
<1>2. a \in Nat /\ b \in Nat /\ c \in Nat  BY FiguresAre
<1>3. WithGroup(text, mark, n) = text \o <<mark, a, b, c>>  BY <1>1 DEF WithGroup
<1>4. text \o <<mark, a, b, c>> = Append(Append(Append(Append(text, mark), a), b), c)
  BY <1>2
<1>5. text \o <<mark, a, b, c>> \in Seq(Nat)
  <2>1. <<mark, a, b, c>> \in Seq(Nat)  BY <1>2
  <2> QED  BY <2>1, ConcatProperties
<1>6. PICK w : w = WithGroup(text, mark, n)  OBVIOUS
<1>7. w = Append(Append(Append(Append(text, mark), a), b), c) /\ w \in Seq(Nat)
  BY <1>3, <1>4, <1>5, <1>6, Zenon
<1>8. LastThree(n, a, b, c)  BY <1>1 DEF LastThree, Thousands
<1>9. FourMore(text, mark, a, b, c, w)  BY <1>7 DEF FourMore
<1> QED  BY <1>6, <1>7, <1>8, <1>9

Small == 0..999

\* Every number has its groups, and they satisfy the equation that defines them.
LEMMA GroupedIs ==
  ASSUME NEW mark \in Nat, NEW n \in Nat
  PROVE  /\ Grouped(mark, n) \in Seq(Nat)
         /\ n \in Small => Grouped(mark, n) = Digits[n]
         /\ n \notin Small => Grouped(mark, n) = WithGroup(Grouped(mark, Thousands(n)), mark, n)
         /\ Thousands(n) \in Nat /\ (n \notin Small => Thousands(n) \in 0..(n - 1))
<1> DEFINE Fewer(k) == k \div 1000
           base == [k \in Nat |-> Digits[k]]
           down == [k \in Nat \ Small |-> Fewer(k)]
           step == [p \in Seq(Nat) \X Nat |-> WithGroup(p[1], mark, p[2])]
<1>0. /\ \A k \in Nat : k \in Small <=> k < 1000
      /\ \A k \in Nat : Fewer(k) \in Nat
      /\ \A k \in Nat \ Small : Fewer(k) \in 0..(k - 1)
      /\ \A k \in Nat : Digits[k] \in Seq(Nat)
  <2>1. \A k \in Nat : Digits[k] \in Seq(Nat)  BY DigitsAre, FiguresAre
  <2>2. \A k \in Nat : k \in Small <=> k < 1000  BY DEF Small
  <2>3. \A k \in Nat \ Small : Fewer(k) \in 0..(k - 1)  BY DEF Small
  <2> QED  BY <2>1, <2>2, <2>3
<1>2. \A f : GroupedBy(mark, f) <=>
        f = [k \in Nat |-> IF k \in Small THEN Digits[k] ELSE WithGroup(f[Fewer(k)], mark, k)]
  <2> SUFFICES ASSUME NEW f
               PROVE  [k \in Nat |-> IF k < 1000 THEN Digits[k] ELSE WithGroup(f[Fewer(k)], mark, k)]
                    = [k \in Nat |-> IF k \in Small THEN Digits[k] ELSE WithGroup(f[Fewer(k)], mark, k)]
    BY DEF GroupedBy
  <2> HIDE DEF Fewer
  <2> QED  BY <1>0
<1>3. \A k : Grouped(mark, k) = (CHOOSE f : GroupedBy(mark, f))[k]  BY DEF Grouped, GroupedBy
<1> HIDE DEF Fewer
<1>4. Recipe(Seq(Nat), Small, base, down, step)
  <2>1. \A x \in Seq(Nat), k \in Nat : WithGroup(x, mark, k) \in Seq(Nat)
    BY WithGroupIs
  <2>2. step \in [Seq(Nat) \X Nat -> Seq(Nat)]  BY <2>1
  <2>3. base \in [Nat -> Seq(Nat)]  BY <1>0
  <2>4. down \in [Nat \ Small -> Nat]  BY <1>0
  <2>5. \A k \in Nat \ Small : down[k] < k
    <3> SUFFICES ASSUME NEW k \in Nat \ Small PROVE down[k] < k  OBVIOUS
    <3>1. down[k] = Fewer(k) /\ Fewer(k) \in 0..(k - 1)  BY <1>0
    <3> QED  BY <3>1
  <2>6. Small \in SUBSET Nat  BY DEF Small
  <2> HIDE DEF base, step, down
  <2> QED  BY <2>2, <2>3, <2>4, <2>5, <2>6 DEF Recipe
<1>5. PICK f \in [Nat -> Seq(Nat)] : WorksOut(f, Small, base, down, step, Nat)
  <2> HIDE DEF base, down, step
  <2> QED  BY ONLY <1>4, WorkedOut
<1>6. ASSUME NEW k \in Nat
      PROVE  f[k] = IF k \in Small THEN Digits[k] ELSE WithGroup(f[Fewer(k)], mark, k)
  <2>1. f[k] = IF k \in Small THEN base[k] ELSE step[f[down[k]], k]
    <3> HIDE DEF base, down, step
    <3> QED  BY <1>5 DEF WorksOut
  <2>2. base[k] = Digits[k]  OBVIOUS
  <2>3. k \notin Small => down[k] = Fewer(k)  OBVIOUS
  <2>4. f[Fewer(k)] \in Seq(Nat)  BY <1>0
  <2>5. step[f[Fewer(k)], k] = WithGroup(f[Fewer(k)], mark, k)  BY <2>4
  <2> HIDE DEF base, down, step
  <2> QED  BY <2>1, <2>2, <2>3, <2>5
<1> HIDE DEF base, down, step
<1>7. GroupedBy(mark, f)
  <2>1. f = [k \in Nat |-> IF k \in Small THEN Digits[k] ELSE WithGroup(f[Fewer(k)], mark, k)]
    BY <1>6
  <2> QED  BY <1>2, <2>1
<1>8. PICK text : text = CHOOSE g : GroupedBy(mark, g)  OBVIOUS
<1>9. \A k \in Nat : Grouped(mark, k) = text[k]  BY <1>3, <1>8
<1>10. GroupedBy(mark, text)  BY <1>7, <1>8
<1>11. text = [k \in Nat |-> IF k \in Small THEN Digits[k] ELSE WithGroup(text[Fewer(k)], mark, k)]
  BY <1>2, <1>10
<1>12. \A k \in Nat : text[k] = IF k \in Small THEN Digits[k] ELSE WithGroup(text[Fewer(k)], mark, k)
  BY <1>11
<1> DEFINE T == {k \in Nat : text[k] \in Seq(Nat)}
<1>13. ASSUME NEW k \in Nat, \A m \in 0..(k - 1) : m \in T PROVE k \in T
  <2>1. CASE k \in Small  BY <1>0, <1>12, <2>1
  <2>2. CASE k \notin Small
    <3>1. PICK v \in Seq(Nat) : v = text[Fewer(k)]  BY <1>0, <1>13, <2>2
    <3>2. WithGroup(v, mark, k) \in Seq(Nat)  BY WithGroupIs
    <3> QED  BY <1>12, <2>2, <3>1, <3>2
  <2> QED  BY <2>1, <2>2
<1> HIDE DEF T
<1>14. \A k \in Nat : k \in T  BY <1>13, AllNaturalsFromSmaller
<1>15. text[n] \in Seq(Nat)  BY <1>14 DEF T
<1>16. Grouped(mark, n) = text[n] /\ Grouped(mark, Fewer(n)) = text[Fewer(n)]  BY <1>0, <1>9
<1>17. /\ n \in Small => Grouped(mark, n) = Digits[n]
       /\ n \notin Small => Grouped(mark, n) = WithGroup(Grouped(mark, Fewer(n)), mark, n)
  BY <1>12, <1>16
<1>18. Fewer(n) = Thousands(n)  BY DEF Fewer, Thousands
<1>19. Fewer(n) \in Nat /\ (n \notin Small => Fewer(n) \in 0..(n - 1))  BY <1>0
<1> QED  BY <1>15, <1>16, <1>17, <1>18, <1>19

-----------------------------------------------------------------------------
\* A text of a number: without its mark it is digits that are worth the number, and
\* it has the mark when the number is not small.
Tells(text, mark, n) ==
  /\ text \in Seq(Nat)
  /\ \A i \in 1..Len(text) : text[i] \in Figures \cup {mark}
  /\ Without(text, mark) \in Seq(Figures) /\ Number(Without(text, mark)) = n
  /\ n \in Small => \A i \in 1..Len(text) : text[i] # mark
  /\ n \notin Small => \E i \in 1..Len(text) : text[i] = mark

\* Digits have no mark, and are worth their number.
LEMMA DigitsTell ==
  ASSUME NEW mark \in {Point, Comma}, NEW n \in Nat
  PROVE  /\ \A i \in 1..Len(Digits[n]) : Digits[n][i] \in Figures /\ Digits[n][i] # mark
         /\ Digits[n] \in Seq(Nat) /\ Digits[n] \in Seq(Figures)
         /\ Without(Digits[n], mark) = Digits[n] /\ Number(Digits[n]) = n
<1>1. PICK d \in Seq(Figures) : d = Digits[n]  BY DigitsAre
<1>2. d \in Seq(Nat) /\ \A i \in 1..Len(d) : d[i] \in Figures /\ d[i] # mark  BY FiguresAre
<1>3. Without(d, mark) = d  BY <1>2, WithoutNone
<1>4. Number(d) = n  BY <1>1, DigitsWorth
<1> QED  BY <1>1, <1>2, <1>3, <1>4

\* A character of a longer text is one of the shorter or the one that was added.
LEMMA AppendIs ==
  ASSUME NEW s \in Seq(Nat), NEW c \in Nat
  PROVE  /\ Append(s, c) \in Seq(Nat) /\ Len(Append(s, c)) = Len(s) + 1 /\ Len(s) \in Nat
         /\ Append(s, c)[Len(s) + 1] = c /\ \A i \in 1..Len(s) : Append(s, c)[i] = s[i]
BY AppendProperties

\* A digit more is a digit more of what is read.
LEMMA FigureMore ==
  ASSUME NEW mark \in {Point, Comma}, NEW s \in Seq(Nat), NEW c \in Figures,
         Without(s, mark) \in Seq(Figures),
         \A i \in 1..Len(s) : s[i] \in Figures \cup {mark}
  PROVE  /\ Append(s, c) \in Seq(Nat)
         /\ Without(Append(s, c), mark) \in Seq(Figures)
         /\ Number(Without(Append(s, c), mark)) = 10 * Number(Without(s, mark)) + c
         /\ Number(Without(s, mark)) \in Nat
         /\ \A i \in 1..Len(Append(s, c)) : Append(s, c)[i] \in Figures \cup {mark}
<1>1. c \in Nat /\ c # mark  BY FiguresAre
<1>2. PICK w \in Seq(Figures) : w = Without(s, mark)  OBVIOUS
<1>3. w \in Seq(Nat)  BY FiguresAre
<1>4. Without(Append(s, c), mark) = Append(w, c)  BY <1>1, <1>2, WithoutAppend
<1>5. Append(w, c) \in Seq(Figures)  BY AppendProperties
<1>6. Number(w) \in Nat /\ Number(Append(w, c)) = 10 * Number(w) + c  BY <1>1, <1>3, NumberAppend
<1>7. PICK t : t = Append(s, c)  OBVIOUS
<1>8. t \in Seq(Nat) /\ Len(t) = Len(s) + 1 /\ Len(s) \in Nat /\ t[Len(s) + 1] = c
      /\ \A i \in 1..Len(s) : t[i] = s[i]
  BY <1>1, <1>7, AppendIs
<1>9. \A i \in 1..Len(t) : t[i] \in Figures \cup {mark}
  <2> SUFFICES ASSUME NEW i \in 1..Len(t) PROVE t[i] \in Figures \cup {mark}  OBVIOUS
  <2>1. i \in 1..Len(s) \/ i = Len(s) + 1  BY <1>8
  <2> QED  BY <1>8, <2>1
<1> QED  BY <1>2, <1>4, <1>5, <1>6, <1>7, <1>8, <1>9

\* A number in groups tells its number, whichever its mark.
LEMMA GroupedTells ==
  ASSUME NEW mark \in {Point, Comma}
  PROVE  \A n \in Nat : Tells(Grouped(mark, n), mark, n)
<1>0. mark \in Nat  BY DEF Point, Comma
<1> DEFINE T == {n \in Nat : Tells(Grouped(mark, n), mark, n)}
<1>1. ASSUME NEW n \in Nat, \A m \in 0..(n - 1) : m \in T PROVE n \in T
  <2>1. CASE n \in Small
    <3> HIDE DEF T
    <3>1. Grouped(mark, n) = Digits[n]  BY <1>0, <2>1, GroupedIs
    <3>2. Tells(Digits[n], mark, n)  BY <2>1, DigitsTell DEF Tells
    <3> QED  BY <3>1, <3>2 DEF T
  <2>2. CASE n \notin Small
    <3>1. PICK q \in 0..(n - 1) : q = Thousands(n)  BY <1>0, <2>2, GroupedIs
    <3>2. q \in Nat /\ q \in T  BY <1>1, <3>1
    <3>3. PICK s : s = Grouped(mark, q)  OBVIOUS
    <3>4. Tells(s, mark, q)  BY <3>2, <3>3
    <3>5. Grouped(mark, n) = WithGroup(s, mark, n)  BY <1>0, <2>2, <3>1, <3>3, GroupedIs
    <3> HIDE DEF T
    <3>6. s \in Seq(Nat)  BY <3>4 DEF Tells
    <3>7. PICK a \in Figures, b \in Figures, c \in Figures :
            /\ LastThree(n, a, b, c)
            /\ FourMore(s, mark, a, b, c, WithGroup(s, mark, n))
      BY <1>0, <3>6, WithGroupIs
    <3>8. PICK s1 : s1 = Append(s, mark)  OBVIOUS
    <3>9. /\ s1 \in Seq(Nat) /\ Len(s1) = Len(s) + 1 /\ Len(s) \in Nat /\ s1[Len(s) + 1] = mark
          /\ \A i \in 1..Len(s) : s1[i] = s[i]
      BY <1>0, <3>6, <3>8, AppendIs
    <3>10. Without(s1, mark) = Without(s, mark)  BY <1>0, <3>6, <3>8, WithoutAppend
    <3>11. \A i \in 1..Len(s1) : s1[i] \in Figures \cup {mark}
      <4> SUFFICES ASSUME NEW i \in 1..Len(s1) PROVE s1[i] \in Figures \cup {mark}  OBVIOUS
      <4>1. i \in 1..Len(s) \/ i = Len(s) + 1  BY <3>9
      <4> QED  BY <3>4, <3>9, <4>1 DEF Tells
    <3>12. Without(s1, mark) \in Seq(Figures) /\ Number(Without(s1, mark)) = q
      BY <3>4, <3>10 DEF Tells
    <3>13. PICK s2 : s2 = Append(s1, a)  OBVIOUS
    <3>14. /\ s2 \in Seq(Nat) /\ Without(s2, mark) \in Seq(Figures)
           /\ Number(Without(s2, mark)) = 10 * q + a
           /\ \A i \in 1..Len(s2) : s2[i] \in Figures \cup {mark}
      BY <3>9, <3>11, <3>12, <3>13, FigureMore
    <3>15. PICK s3 : s3 = Append(s2, b)  OBVIOUS
    <3>16. /\ s3 \in Seq(Nat) /\ Without(s3, mark) \in Seq(Figures)
           /\ Number(Without(s3, mark)) = 10 * (10 * q + a) + b
           /\ \A i \in 1..Len(s3) : s3[i] \in Figures \cup {mark}
      BY <3>14, <3>15, FigureMore
    <3>17. PICK s4 : s4 = Append(s3, c)  OBVIOUS
    <3>18. /\ s4 \in Seq(Nat) /\ Without(s4, mark) \in Seq(Figures)
           /\ Number(Without(s4, mark)) = 10 * (10 * (10 * q + a) + b) + c
           /\ \A i \in 1..Len(s4) : s4[i] \in Figures \cup {mark}
      BY <3>16, <3>17, FigureMore
    <3>19. 10 * (10 * (10 * q + a) + b) + c = n
      <4>1. (1000 * q) + (100 * a) + (10 * b) + c = n  BY <3>1, <3>7 DEF LastThree
      <4> QED  BY <3>2, <4>1 DEF Figures
    <3>20. a \in Nat /\ b \in Nat /\ c \in Nat  BY FiguresAre
    <3>21. /\ Len(s2) = Len(s1) + 1 /\ \A i \in 1..Len(s1) : s2[i] = s1[i]
           /\ Len(s3) = Len(s2) + 1 /\ \A i \in 1..Len(s2) : s3[i] = s2[i]
           /\ Len(s4) = Len(s3) + 1 /\ \A i \in 1..Len(s3) : s4[i] = s3[i]
      <4>1. Len(s2) = Len(s1) + 1 /\ \A i \in 1..Len(s1) : s2[i] = s1[i]
        BY <3>9, <3>13, <3>20, AppendIs
      <4>2. Len(s3) = Len(s2) + 1 /\ \A i \in 1..Len(s2) : s3[i] = s2[i]
        BY <3>14, <3>15, <3>20, AppendIs
      <4>3. Len(s4) = Len(s3) + 1 /\ \A i \in 1..Len(s3) : s4[i] = s3[i]
        BY <3>16, <3>17, <3>20, AppendIs
      <4> QED  BY <4>1, <4>2, <4>3
    <3>22. PICK k : k = Len(s) + 1  OBVIOUS
    <3>23. k \in 1..Len(s1) /\ k \in 1..Len(s2) /\ k \in 1..Len(s3) /\ k \in 1..Len(s4) /\ s1[k] = mark
      BY <3>9, <3>21, <3>22
    <3>24. s4[k] = mark  BY <3>21, <3>23
    <3>25. s4 = Grouped(mark, n)  BY <3>5, <3>7, <3>8, <3>13, <3>15, <3>17 DEF FourMore
    <3>26. Tells(s4, mark, n)  BY <2>2, <3>18, <3>19, <3>23, <3>24 DEF Tells
    <3> QED  BY <3>25, <3>26 DEF T
  <2> QED  BY <2>1, <2>2
<1> HIDE DEF T
<1>2. \A n \in Nat : n \in T  BY <1>1, AllNaturalsFromSmaller
<1> QED  BY <1>2 DEF T

\* A million and more has two groups.
LEMMA GroupedTwice ==
  ASSUME NEW mark \in {Point, Comma}, NEW n \in Nat \ Small, Thousands(n) \notin Small
  PROVE  \E i, j \in 1..Len(Grouped(mark, n)) :
            i # j /\ Grouped(mark, n)[i] = mark /\ Grouped(mark, n)[j] = mark
<1>0. mark \in Nat  BY DEF Point, Comma
<1>1. PICK q \in Nat : q = Thousands(n) /\ q \notin Small /\ n \notin Small
  <2>1. Thousands(n) \in Nat  BY <1>0, GroupedIs
  <2> QED  BY <2>1
<1>2. PICK s : s = Grouped(mark, q)  OBVIOUS
<1>3. Tells(s, mark, q)  BY <1>2, GroupedTells
<1>4. Grouped(mark, n) = WithGroup(s, mark, n)  BY <1>0, <1>1, <1>2, GroupedIs
<1>5. s \in Seq(Nat)  BY <1>3 DEF Tells
<1>6. PICK i \in 1..Len(s) : s[i] = mark  BY <1>1, <1>3 DEF Tells
<1>7. PICK a \in Figures, b \in Figures, c \in Figures :
        FourMore(s, mark, a, b, c, WithGroup(s, mark, n))
  BY <1>0, <1>5, WithGroupIs
<1>8. a \in Nat /\ b \in Nat /\ c \in Nat  BY FiguresAre
<1>9. PICK s1, s2, s3, s4 :
        s1 = Append(s, mark) /\ s2 = Append(s1, a) /\ s3 = Append(s2, b) /\ s4 = Append(s3, c)
  OBVIOUS
<1>10. s4 = Grouped(mark, n)  BY <1>4, <1>7, <1>9 DEF FourMore
<1>11. /\ s1 \in Seq(Nat) /\ Len(s1) = Len(s) + 1 /\ Len(s) \in Nat /\ s1[Len(s) + 1] = mark
       /\ \A k \in 1..Len(s) : s1[k] = s[k]
  BY <1>0, <1>5, <1>9, AppendIs
<1>12. s2 \in Seq(Nat) /\ Len(s2) = Len(s1) + 1 /\ \A k \in 1..Len(s1) : s2[k] = s1[k]
  BY <1>8, <1>9, <1>11, AppendIs
<1>13. s3 \in Seq(Nat) /\ Len(s3) = Len(s2) + 1 /\ \A k \in 1..Len(s2) : s3[k] = s2[k]
  <2>1. s3 = Append(s2, b) /\ s2 \in Seq(Nat)  BY <1>9, <1>12
  <2> QED  BY <1>8, <2>1, AppendIs
<1>14. Len(s4) = Len(s3) + 1 /\ \A k \in 1..Len(s3) : s4[k] = s3[k]
  <2>1. s4 = Append(s3, c) /\ s3 \in Seq(Nat)  BY <1>9, <1>13
  <2> QED  BY <1>8, <2>1, AppendIs
<1>15. PICK j : j = Len(s) + 1  OBVIOUS
<1>16. /\ i \in 1..Len(s1) /\ i \in 1..Len(s2) /\ i \in 1..Len(s3) /\ i \in 1..Len(s4)
       /\ j \in 1..Len(s1) /\ j \in 1..Len(s2) /\ j \in 1..Len(s3) /\ j \in 1..Len(s4)
       /\ i # j
  <2>1. PICK l \in Nat : l = Len(s) /\ i \in 1..l  BY <1>6, <1>11
  <2>2. Len(s1) = l + 1 /\ Len(s2) = l + 2 /\ Len(s3) = l + 3 /\ Len(s4) = l + 4
    <3>1. Len(s1) = l + 1 BY <1>11, <2>1
    <3>2. Len(s2) = l + 2 BY <1>12, <3>1
    <3>3. Len(s3) = l + 3 BY <1>13, <3>2
    <3>4. Len(s4) = l + 4 BY <1>14, <3>3
    <3> QED  BY <3>1, <3>2, <3>3, <3>4
  <2>3. j = l + 1  BY <1>15, <2>1
  <2> QED  BY <2>1, <2>2, <2>3
<1>18. s1[i] = mark /\ s1[j] = mark  BY <1>6, <1>11, <1>15
<1>17. s4[i] = mark /\ s4[j] = mark  BY <1>12, <1>13, <1>14, <1>16, <1>18
<1> QED  BY <1>10, <1>16, <1>17

-----------------------------------------------------------------------------
\* The characters behind the first marks of a text: two or none.
TwoMore(s, mark, x, y, longer) == longer = Append(Append(Append(s, mark), x), y)

\* The characters of a text with a mark and two characters more.
LEMMA TwoMoreIs ==
  ASSUME NEW s \in Seq(Nat), NEW mark \in Nat, NEW x \in Nat, NEW y \in Nat, NEW t,
         TwoMore(s, mark, x, y, t)
  PROVE  /\ t \in Seq(Nat) /\ Len(s) \in Nat /\ Len(t) = Len(s) + 3
         /\ \A i \in 1..Len(s) : t[i] = s[i]
         /\ t[Len(s) + 1] = mark /\ t[Len(s) + 2] = x /\ t[Len(s) + 3] = y
<1>1. PICK a, b : a = Append(s, mark) /\ b = Append(a, x) /\ t = Append(b, y)  BY DEF TwoMore
<1>2. a \in Seq(Nat) /\ Len(a) = Len(s) + 1 /\ Len(s) \in Nat /\ a[Len(s) + 1] = mark
      /\ \A i \in 1..Len(s) : a[i] = s[i]
  BY <1>1, AppendIs
<1>3. b \in Seq(Nat) /\ Len(b) = Len(a) + 1 /\ b[Len(a) + 1] = x /\ \A i \in 1..Len(a) : b[i] = a[i]
  BY <1>1, <1>2, AppendIs
<1>4. t \in Seq(Nat) /\ Len(t) = Len(b) + 1 /\ t[Len(b) + 1] = y /\ \A i \in 1..Len(b) : t[i] = b[i]
  BY <1>1, <1>3, AppendIs
<1>5. PICK l \in Nat : l = Len(s)  BY <1>2
<1>6. Len(a) = l + 1 /\ Len(b) = l + 2 /\ Len(t) = l + 3
  <2>1. Len(b) = l + 2  BY <1>2, <1>3, <1>5
  <2> QED  BY <1>2, <1>4, <1>5, <2>1
<1>7. t[l + 1] = mark /\ t[l + 2] = x /\ t[l + 3] = y
  <2>1. l + 1 \in 1..(l + 1) /\ l + 1 \in 1..(l + 2) /\ l + 2 \in 1..(l + 2)  OBVIOUS
  <2>2. a[l + 1] = mark /\ b[l + 1] = a[l + 1] /\ t[l + 1] = b[l + 1]
    BY <1>2, <1>3, <1>4, <1>5, <1>6, <2>1
  <2>3. b[l + 2] = x /\ t[l + 2] = b[l + 2]
    <3>1. (l + 1) + 1 = l + 2  OBVIOUS
    <3> QED  BY <1>3, <1>4, <1>6, <2>1, <3>1
  <2>4. t[l + 3] = y
    <3>1. (l + 2) + 1 = l + 3  OBVIOUS
    <3> QED  BY <1>4, <1>6, <3>1
  <2> QED  BY <2>2, <2>3, <2>4
<1>8. \A i \in 1..l : t[i] = s[i]
  <2>1. \A i \in 1..l : i \in 1..(l + 1) /\ i \in 1..(l + 2)  OBVIOUS
  <2> QED  BY <1>2, <1>3, <1>4, <1>5, <1>6, <2>1
<1> QED  BY <1>4, <1>5, <1>6, <1>7, <1>8

\* The least of one number is that number.
LEMMA MinOfOne == ASSUME NEW k \in Nat PROVE Min({k}) = k
BY DEF Min

\* What is taken for the decimals of a text that has two of them or none.
LEMMA FirstTwo ==
  ASSUME NEW u \in Seq(Nat), Len(u) \in {0, 2}, NEW z, z = u \o <<0, 0, 0>>,
         NEW two, two = SubSeq(z, 1, 2)
  PROVE  /\ two \in Seq(Nat) /\ Len(two) = 2 /\ z[3] = 0
         /\ Len(u) = 0 => two[1] = 0 /\ two[2] = 0
         /\ Len(u) = 2 => two[1] = u[1] /\ two[2] = u[2]
<1>1. PICK zs : zs = <<0, 0, 0>>  OBVIOUS
<1>2. zs \in Seq(Nat) /\ Len(zs) = 3 /\ zs[1] = 0 /\ zs[2] = 0 /\ zs[3] = 0  BY <1>1
<1>3. /\ z \in Seq(Nat) /\ Len(z) = Len(u) + 3
      /\ \A i \in 1..(Len(u) + 3) : z[i] = IF i <= Len(u) THEN u[i] ELSE zs[i - Len(u)]
  BY <1>1, <1>2, ConcatProperties
<1>4. \A i \in 1..2 : z[i] \in Nat  BY <1>3, ElementOfSeq
<1>5. /\ SubSeq(z, 1, 2) \in Seq(Nat)
      /\ Len(SubSeq(z, 1, 2)) = IF 1 <= 2 THEN 2 - 1 + 1 ELSE 0
      /\ \A i \in 1..(2 - 1 + 1) : SubSeq(z, 1, 2)[i] = z[1 + i - 1]
  <2>1. 1 \in Int /\ 2 \in Int  OBVIOUS
  <2> QED  BY ONLY <1>4, <2>1, SubSeqProperties
<1>6. two \in Seq(Nat) /\ Len(two) = 2 /\ two[1] = z[1] /\ two[2] = z[2]  BY <1>5
<1>7. CASE Len(u) = 0  BY <1>2, <1>3, <1>6, <1>7
<1>8. CASE Len(u) = 2  BY <1>2, <1>3, <1>6, <1>8
<1> QED  BY <1>6, <1>7, <1>8

\* Two digits are worth tens and ones.
LEMMA NumberOfTwo ==
  ASSUME NEW two \in Seq(Nat), Len(two) = 2
  PROVE  Number(two) = 10 * two[1] + two[2]
<1>1. PICK f \in [0..Len(two) -> Nat] :
        /\ f[0] = 0 /\ Number(two) = f[Len(two)]
        /\ \A i \in 1..Len(two) : f[i] = 10 * f[i - 1] + two[i]
  BY NumberUpto
<1>2. f[1] = 10 * 0 + two[1] /\ f[2] = 10 * f[1] + two[2] /\ Number(two) = f[2]  BY <1>1
<1>3. two[1] \in Nat /\ two[2] \in Nat
  <2>1. 1 \in 1..Len(two) /\ 2 \in 1..Len(two)  OBVIOUS
  <2> QED  BY <2>1, ElementOfSeq
<1> QED  BY <1>2, <1>3

\* Digits alone are whole units.
LEMMA MinorWhole ==
  ASSUME NEW d \in Seq(Figures)
  PROVE  Minor(d) = 100 * Number(d)
<1>1. d \in Seq(Nat) /\ Len(d) \in Nat /\ DOMAIN d = 1..Len(d) /\ \A i \in 1..Len(d) : d[i] # Point
  BY FiguresAre, LenProperties
<1>2. {i \in DOMAIN d : d[i] = Point} = {}  BY <1>1
<1>3. PICK none : none = SubSeq(d, (Len(d) + 1) + 1, Len(d))  OBVIOUS
<1>4. none = <<>>
  <2>1. (Len(d) + 1) + 1 \in Int /\ Len(d) \in Int /\ Len(d) < (Len(d) + 1) + 1  BY <1>1
  <2> QED  BY <1>3, <2>1, SubSeqEmpty
<1>5. SubSeq(d, 1, (Len(d) + 1) - 1) = d
  <2>1. (Len(d) + 1) - 1 = Len(d)  BY <1>1
  <2>2. SubSeq(d, 1, Len(d)) = d  BY SubSeqFull
  <2> QED  BY <2>1, <2>2
<1>6. PICK z : z = none \o <<0, 0, 0>>  OBVIOUS
<1>8. PICK two : two = SubSeq(z, 1, 2)  OBVIOUS
<1>9. none \in Seq(Nat) /\ Len(none) = 0  BY <1>4, EmptySeq
<1>7. two \in Seq(Nat) /\ Len(two) = 2 /\ two[1] = 0 /\ two[2] = 0 /\ z[3] = 0
  BY <1>6, <1>8, <1>9, FirstTwo
<1>10. Number(two) = 0
  <2>1. Number(two) = 10 * two[1] + two[2]  BY <1>7, NumberOfTwo
  <2> QED  BY <1>7, <2>1
<1>11. Cardinality({}) = 0  BY FS_EmptySet
<1>12. Number(d) \in Nat  BY <1>1, NumberAppend
<1>15. ~(0 > 1)  OBVIOUS
<1>13. Minor(d) = 100 * Number(d) + Number(two) + IF z[3] >= 5 THEN 1 ELSE 0
  BY <1>2, <1>3, <1>5, <1>6, <1>8, <1>11, <1>15 DEF Minor
<1> QED  BY <1>7, <1>10, <1>12, <1>13

\* Digits, a point and two digits are whole units and cents.
LEMMA MinorDecimals ==
  ASSUME NEW d \in Seq(Figures), NEW x \in Figures, NEW y \in Figures, NEW t,
         TwoMore(d, Point, x, y, t)
  PROVE  Minor(t) = 100 * Number(d) + (10 * x + y)
<1>1. /\ x \in Nat /\ y \in Nat /\ x # Point /\ y # Point /\ Point \in Nat
      /\ d \in Seq(Nat) /\ Len(d) \in Nat /\ \A i \in 1..Len(d) : d[i] # Point
  BY FiguresAre, LenProperties DEF Point
<1>2. PICK l \in Nat : l = Len(d)  BY <1>1
<1>3. /\ t \in Seq(Nat) /\ Len(t) = l + 3 /\ \A i \in 1..l : t[i] = d[i]
      /\ t[l + 1] = Point /\ t[l + 2] = x /\ t[l + 3] = y
  BY <1>1, <1>2, TwoMoreIs
<1>4. DOMAIN t = 1..(l + 3)  BY <1>3, LenProperties
<1>5. {i \in DOMAIN t : t[i] = Point} = {l + 1}
  <2>1. \A i \in 1..(l + 3) : i \in 1..l \/ i = l + 1 \/ i = l + 2 \/ i = l + 3  OBVIOUS
  <2>2. \A i \in 1..l : t[i] # Point  BY <1>1, <1>2, <1>3
  <2>3. t[l + 2] # Point /\ t[l + 3] # Point /\ t[l + 1] = Point /\ l + 1 \in 1..(l + 3)
    BY <1>1, <1>3
  <2> QED  BY <1>4, <2>1, <2>2, <2>3
<1>6. Cardinality({l + 1}) = 1  BY FS_Singleton
<1>7. Min({l + 1}) = l + 1  BY MinOfOne
<1>8. PICK u : u = SubSeq(t, (l + 1) + 1, Len(t))  OBVIOUS
<1>9. u \in Seq(Nat) /\ Len(u) = 2 /\ u[1] = x /\ u[2] = y
  <2>1. (l + 1) + 1 = l + 2 /\ l + 2 \in Int /\ l + 3 \in Int /\ Len(t) = l + 3  BY <1>3
  <2>2. \A i \in (l + 2)..(l + 3) : t[i] \in Nat
    <3>1. \A i \in (l + 2)..(l + 3) : i = l + 2 \/ i = l + 3  OBVIOUS
    <3> QED  BY <1>1, <1>3, <3>1
  <2>3. u = SubSeq(t, l + 2, l + 3)  BY <1>8, <2>1
  <2>4. /\ SubSeq(t, l + 2, l + 3) \in Seq(Nat)
        /\ Len(SubSeq(t, l + 2, l + 3)) = IF l + 2 <= l + 3 THEN (l + 3) - (l + 2) + 1 ELSE 0
        /\ \A i \in 1..((l + 3) - (l + 2) + 1) : SubSeq(t, l + 2, l + 3)[i] = t[(l + 2) + i - 1]
    BY ONLY <2>1, <2>2, SubSeqProperties
  <2>5. u \in Seq(Nat) /\ Len(u) = 2 /\ \A i \in 1..2 : u[i] = t[(l + 2) + i - 1]
    <3>1. (l + 3) - (l + 2) + 1 = 2 /\ l + 2 <= l + 3  OBVIOUS
    <3> QED  BY <2>3, <2>4, <3>1
  <2>6. u[1] = x /\ u[2] = y
    <3>1. (l + 2) + 1 - 1 = l + 2 /\ (l + 2) + 2 - 1 = l + 3 /\ 1 \in 1..2 /\ 2 \in 1..2  OBVIOUS
    <3>2. u[1] = t[(l + 2) + 1 - 1] /\ u[2] = t[(l + 2) + 2 - 1]  BY <2>5, <3>1
    <3> QED  BY <1>3, <3>1, <3>2
  <2> QED  BY <2>5, <2>6
<1>10. PICK s : s = SubSeq(t, 1, (l + 1) - 1)  OBVIOUS
<1>11. s = d
  <2>1. (l + 1) - 1 = l  OBVIOUS
  <2>2. \A i \in 1..l : t[i] \in Nat  BY <1>1, <1>2, <1>3, ElementOfSeq
  <2>3. /\ SubSeq(t, 1, l) \in Seq(Nat)
        /\ Len(SubSeq(t, 1, l)) = IF 1 <= l THEN l - 1 + 1 ELSE 0
        /\ \A i \in 1..(l - 1 + 1) : SubSeq(t, 1, l)[i] = t[1 + i - 1]
    <3>1. 1 \in Int /\ l \in Int  OBVIOUS
    <3> QED  BY ONLY <2>2, <3>1, SubSeqProperties
  <2>4. s = SubSeq(t, 1, l)  BY <1>10, <2>1
  <2>5. l - 1 + 1 = l /\ (~(1 <= l) => l = 0)  OBVIOUS
  <2>6. s \in Seq(Nat) /\ Len(s) = l /\ \A i \in 1..l : s[i] = t[1 + i - 1]  BY <2>3, <2>4, <2>5
  <2>7. \A i \in 1..l : 1 + i - 1 = i  OBVIOUS
  <2>8. \A i \in 1..Len(s) : s[i] = d[i]  BY <1>3, <2>6, <2>7
  <2> QED  BY <1>1, <1>2, <2>6, <2>8, SeqEqual
<1>12. PICK z : z = u \o <<0, 0, 0>>  OBVIOUS
<1>14. PICK two : two = SubSeq(z, 1, 2)  OBVIOUS
<1>17. two \in Seq(Nat) /\ Len(two) = 2 /\ two[1] = x /\ two[2] = y /\ z[3] = 0
  BY <1>9, <1>12, <1>14, FirstTwo
<1>16. Number(two) = 10 * x + y  BY <1>17, NumberOfTwo
<1>18. Number(s) \in Nat  BY <1>1, <1>11, NumberAppend
<1>19. ~(1 > 1) /\ {l + 1} # {}  OBVIOUS
<1>20. Minor(t) = 100 * Number(s) + Number(two) + IF z[3] >= 5 THEN 1 ELSE 0
  BY <1>5, <1>6, <1>7, <1>8, <1>10, <1>12, <1>14, <1>19 DEF Minor
<1>21. 100 * Number(s) + (10 * x + y) + 0 = 100 * Number(s) + (10 * x + y)  BY <1>1, <1>18
<1>22. ~(0 >= 5)  OBVIOUS
<1> QED  BY <1>11, <1>16, <1>17, <1>20, <1>21, <1>22

\* Two places are two.
LEMMA TwoAreTwo == ASSUME NEW i, NEW j, i # j PROVE Cardinality({i, j}) = 2
<1>1. Cardinality({i}) = 1 /\ IsFiniteSet({i})  BY FS_Singleton
<1>2. j \notin {i}  OBVIOUS
<1>3. Cardinality({i} \cup {j}) = Cardinality({i}) + 1  BY <1>1, <1>2, FS_AddElement
<1>4. {i} \cup {j} = {i, j}  OBVIOUS
<1> QED  BY <1>1, <1>3, <1>4

\* Two points are no number.
LEMMA MinorMany ==
  ASSUME NEW t \in Seq(Nat), NEW i \in 1..Len(t), NEW j \in 1..Len(t), i # j,
         t[i] = Point, t[j] = Point
  PROVE  Minor(t) = Unread
<1> DEFINE points == {k \in DOMAIN t : t[k] = Point}
<1>1. DOMAIN t = 1..Len(t) /\ Len(t) \in Nat  BY LenProperties
<1>2. IsFiniteSet(points)
  <2>1. IsFiniteSet(1..Len(t))  BY <1>1, FS_Interval
  <2>2. points \subseteq 1..Len(t)  BY <1>1
  <2> QED  BY <2>1, <2>2, FS_Subset
<1>3. {i, j} \subseteq points  BY <1>1
<1>4. Cardinality({i, j}) = 2  BY TwoAreTwo
<1>5. Cardinality(points) \in Nat /\ 2 <= Cardinality(points)
  BY <1>2, <1>3, <1>4, FS_Subset, FS_CardinalityType
<1>6. Cardinality(points) > 1  BY <1>5
<1> QED  BY <1>6 DEF Minor

-----------------------------------------------------------------------------
\* The last place of a mark.
LastAt(text, mark, p) ==
  /\ p \in 0..Len(text) /\ (p > 0 => text[p] = mark)
  /\ \A i \in 1..Len(text) : text[i] = mark => i <= p

\* LastOf is the last place of the mark, or nothing.
LEMMA LastOfIs ==
  ASSUME NEW t \in Seq(Nat), NEW mark
  PROVE  LastAt(t, mark, LastOf(t, mark))
<1> DEFINE S == {0} \cup {i \in DOMAIN t : t[i] = mark}
<1>1. DOMAIN t = 1..Len(t) /\ Len(t) \in Nat  BY LenProperties
<1>2. PICK l \in Nat : l = Len(t)  BY <1>1
<1>3. S = {0} \cup {i \in 1..l : t[i] = mark}  BY <1>1, <1>2
<1> DEFINE B == {l - i : i \in S}
<1>4. B \in SUBSET Nat /\ B # {}  BY <1>3
<1>5. PICK b \in B : \A y \in B : b <= y  BY <1>4, LeastNatural
<1>6. PICK p \in S : b = l - p  OBVIOUS
<1>7. \A i \in S : p >= i
  <2> SUFFICES ASSUME NEW i \in S PROVE p >= i  OBVIOUS
  <2>1. l - i \in B /\ i \in 0..l /\ p \in 0..l  BY <1>3
  <2>2. l - p <= l - i  BY <1>5, <1>6, <2>1
  <2> QED  BY <2>1, <2>2
<1>8. LastOf(t, mark) = CHOOSE x \in S : \A y \in S : x >= y  BY DEF LastOf, Max
<1>9. \E x \in S : \A y \in S : x >= y  BY <1>7
<1>10. PICK x : x = LastOf(t, mark)  OBVIOUS
<1>11. x \in S /\ \A y \in S : x >= y  BY <1>8, <1>9, <1>10
<1>12. LastAt(t, mark, x)
  <2>1. x \in 0..l /\ (x > 0 => t[x] = mark)  BY <1>3, <1>11
  <2>2. \A i \in 1..l : t[i] = mark => i \in S  BY <1>3
  <2>3. \A i \in 1..l : t[i] = mark => i <= x
    <3> SUFFICES ASSUME NEW i \in 1..l, t[i] = mark PROVE i <= x  OBVIOUS
    <3>1. x >= i  BY <1>11, <2>2
    <3> QED  BY <2>1, <3>1
  <2> HIDE DEF S
  <2> QED  BY <1>2, <2>1, <2>3 DEF LastAt
<1> QED  BY <1>10, <1>12

\* The whole units of a text, in groups behind the mark or not.
ReadsAs(text, mark, n) ==
  /\ text \in Seq(Nat)
  /\ \A i \in 1..Len(text) : text[i] \in Figures \cup {mark}
  /\ Without(text, mark) \in Seq(Figures) /\ Number(Without(text, mark)) = n

\* Digits are read as they are.
LEMMA DigitsParsed ==
  ASSUME NEW d \in Seq(Figures)
  PROVE  ParseMoneyMinor(d) = 100 * Number(d)
<1>1. d \in Seq(Nat) /\ Len(d) \in Nat /\ \A i \in 1..Len(d) : d[i] # Point /\ d[i] # Comma
  BY FiguresAre, LenProperties
<1>2. LastAt(d, Point, LastOf(d, Point)) /\ LastAt(d, Comma, LastOf(d, Comma))
  BY <1>1, LastOfIs
<1>3. PICK p, c : p = LastOf(d, Point) /\ c = LastOf(d, Comma)  OBVIOUS
<1>4. p = 0 /\ c = 0  BY <1>1, <1>2, <1>3 DEF LastAt
<1>5. Without(d, Comma) = d  BY <1>1, WithoutNone
<1>6. c <= p  BY <1>4
<1>7. ParseMoneyMinor(d) = Minor(d)  BY <1>3, <1>5, <1>6 DEF ParseMoneyMinor
<1> QED  BY <1>7, MinorWhole

\* Groups alone, of a million or more, are not read.
LEMMA GroupsNotParsed ==
  ASSUME NEW mark \in {Point, Comma}, NEW n \in Nat \ Small, Thousands(n) \notin Small
  PROVE  ParseMoneyMinor(Grouped(mark, n)) = Unread
<1>1. PICK t : t = Grouped(mark, n)  OBVIOUS
<1>2. Tells(t, mark, n)  BY <1>1, GroupedTells
<1>3. t \in Seq(Nat) /\ Len(t) \in Nat /\ DOMAIN t = 1..Len(t)  BY <1>2, LenProperties DEF Tells
<1>4. PICK i \in 1..Len(t), j \in 1..Len(t) : i # j /\ t[i] = mark /\ t[j] = mark
  BY <1>1, GroupedTwice
<1>5. \A k \in 1..Len(t) : t[k] # Other(mark)
  <2>1. Other(mark) \notin Figures /\ Other(mark) # mark  BY FiguresAre DEF Other
  <2> QED  BY <1>2, <2>1 DEF Tells
<1>6. PICK p, c : p = LastOf(t, Point) /\ c = LastOf(t, Comma)  OBVIOUS
<1>7. LastAt(t, Point, p) /\ LastAt(t, Comma, c)  BY <1>3, <1>6, LastOfIs
<1>8. CASE mark = Point
  <2>1. Other(mark) = Comma  BY <1>8 DEF Other
  <2>2. c = 0 /\ p \in Nat  BY <1>3, <1>5, <1>7, <2>1 DEF LastAt
  <2>3. c <= p  BY <2>2
  <2>4. Without(t, Comma) = t  BY <1>3, <1>5, <2>1, WithoutNone
  <2>5. ParseMoneyMinor(t) = Minor(t)  BY <1>6, <2>3, <2>4 DEF ParseMoneyMinor
  <2>6. Minor(t) = Unread  BY <1>3, <1>4, <1>8, MinorMany
  <2> QED  BY <1>1, <2>5, <2>6
<1>9. CASE mark = Comma
  <2>1. Other(mark) = Point  BY <1>9, FiguresAre DEF Other
  <2>2. p = 0  BY <1>3, <1>5, <1>7, <2>1 DEF LastAt
  <2>3. c \in Nat /\ i <= c  BY <1>3, <1>4, <1>7, <1>9 DEF LastAt
  <2>4. ~(c <= p)  BY <2>2, <2>3
  <2>5. Without(t, Point) = t  BY <1>3, <1>5, <2>1, WithoutNone
  <2>6. PICK commas : commas = {k \in DOMAIN t : t[k] = Comma}  OBVIOUS
  <2>7. Cardinality(commas) > 1
    <3>1. IsFiniteSet(commas)
      <4>1. IsFiniteSet(1..Len(t))  BY <1>3, FS_Interval
      <4>2. commas \subseteq 1..Len(t)  BY <1>3, <2>6
      <4> QED  BY <4>1, <4>2, FS_Subset
    <3>2. {i, j} \subseteq commas  BY <1>3, <1>4, <1>9, <2>6
    <3>3. Cardinality({i, j}) = 2  BY <1>4, TwoAreTwo
    <3>4. Cardinality(commas) \in Nat /\ 2 <= Cardinality(commas)
      BY <3>1, <3>2, <3>3, FS_Subset, FS_CardinalityType
    <3> QED  BY <3>4
  <2>8. ParseMoneyMinor(t) = Unread  BY <1>6, <2>4, <2>5, <2>6, <2>7 DEF ParseMoneyMinor
  <2> QED  BY <1>1, <2>8
<1> QED  BY <1>8, <1>9

\* Two characters more that are no mark of the groups stay behind what is left.
LEMMA WithoutTwoMore ==
  ASSUME NEW s \in Seq(Nat), NEW mark, NEW m \in Nat, NEW x \in Nat, NEW y \in Nat,
         m # mark, x # mark, y # mark, NEW t, TwoMore(s, m, x, y, t)
  PROVE  TwoMore(Without(s, mark), m, x, y, Without(t, mark))
<1>1. PICK a, b : a = Append(s, m) /\ b = Append(a, x) /\ t = Append(b, y)  BY DEF TwoMore
<1>2. a \in Seq(Nat) /\ b \in Seq(Nat)  BY <1>1, AppendIs
<1>3. PICK w, wa, wb : w = Without(s, mark) /\ wa = Without(a, mark) /\ wb = Without(b, mark)  OBVIOUS
<1>4. wa = Append(w, m)  BY <1>1, <1>3, WithoutAppend
<1>5. wb = Append(wa, x)
  <2>1. Without(Append(a, x), mark) = Append(Without(a, mark), x)  BY <1>2, WithoutAppend
  <2> QED  BY <1>1, <1>3, <2>1
<1>6. Without(t, mark) = Append(wb, y)
  <2>1. Without(Append(b, y), mark) = Append(Without(b, mark), y)  BY <1>2, WithoutAppend
  <2> QED  BY <1>1, <1>3, <2>1
<1> QED  BY <1>3, <1>4, <1>5, <1>6 DEF TwoMore

\* With decimals behind the other mark, both are read.
LEMMA DecimalsParsed ==
  ASSUME NEW mark \in {Point, Comma}, NEW n \in Nat, NEW s, ReadsAs(s, Other(mark), n),
         NEW x \in Figures, NEW y \in Figures, NEW t, TwoMore(s, mark, x, y, t)
  PROVE  ParseMoneyMinor(t) = 100 * n + (10 * x + y)
<1>1. PICK g : g = Other(mark)  OBVIOUS
<1>2. /\ g \in {Point, Comma} /\ g # mark /\ g \in Nat /\ mark \in Nat
      /\ g \notin Figures /\ mark \notin Figures
      /\ (mark = Point => g = Comma) /\ (mark = Comma => g = Point)
  BY <1>1, FiguresAre DEF Other, Point, Comma
<1>3. x \in Nat /\ y \in Nat /\ x # g /\ y # g /\ x # mark /\ y # mark  BY <1>2, FiguresAre
<1>4. s \in Seq(Nat) /\ \A i \in 1..Len(s) : s[i] \in Figures \cup {g}  BY <1>1 DEF ReadsAs
<1>5. PICK l \in Nat : l = Len(s)  BY <1>4, LenProperties
<1>6. /\ t \in Seq(Nat) /\ Len(t) = l + 3 /\ \A i \in 1..l : t[i] = s[i]
      /\ t[l + 1] = mark /\ t[l + 2] = x /\ t[l + 3] = y
  BY <1>2, <1>3, <1>4, <1>5, TwoMoreIs
<1>7. PICK p, c : p = LastOf(t, Point) /\ c = LastOf(t, Comma)  OBVIOUS
<1>8. LastAt(t, Point, p) /\ LastAt(t, Comma, c)  BY <1>6, <1>7, LastOfIs
<1>9. ASSUME NEW q, LastAt(t, mark, q) PROVE q = l + 1
  <2>1. q \in 0..(l + 3) /\ (q > 0 => t[q] = mark) /\ \A i \in 1..(l + 3) : t[i] = mark => i <= q
    BY <1>6, <1>9 DEF LastAt
  <2>2. l + 1 <= q /\ q > 0  BY <1>6, <2>1
  <2>3. t[q] = mark  BY <2>1, <2>2
  <2>4. q \in {l + 1, l + 2, l + 3}  BY <2>1, <2>2
  <2> QED  BY <1>3, <1>6, <2>3, <2>4
<1>10. ASSUME NEW q, LastAt(t, g, q) PROVE q \in 0..l
  <2>1. q \in 0..(l + 3) /\ (q > 0 => t[q] = g)  BY <1>6, <1>10 DEF LastAt
  <2>2. q # l + 1 /\ q # l + 2 /\ q # l + 3  BY <1>2, <1>3, <1>6, <2>1
  <2> QED  BY <2>1, <2>2
<1>11. PICK w : w = Without(s, g)  OBVIOUS
<1>12. w \in Seq(Figures) /\ Number(w) = n  BY <1>1, <1>11 DEF ReadsAs
<1>13. PICK r : r = Without(t, g)  OBVIOUS
<1>14. TwoMore(w, mark, x, y, r)  BY <1>2, <1>3, <1>4, <1>11, <1>13, WithoutTwoMore
<1>15. CASE mark = Point
  <2>1. p = l + 1 /\ c \in 0..l  BY <1>2, <1>8, <1>9, <1>10, <1>15
  <2>2. c <= p  BY <2>1
  <2>3. ParseMoneyMinor(t) = Minor(r)  BY <1>2, <1>7, <1>13, <1>15, <2>2 DEF ParseMoneyMinor
  <2> QED  BY <1>12, <1>14, <1>15, <2>3, MinorDecimals
<1>16. CASE mark = Comma
  <2>1. c = l + 1 /\ p \in 0..l  BY <1>2, <1>8, <1>9, <1>10, <1>16
  <2>2. ~(c <= p)  BY <2>1
  <2>3. PICK commas : commas = {i \in DOMAIN r : r[i] = Comma}  OBVIOUS
  <2>4. PICK k \in Nat : k = Len(w)  BY <1>12, LenProperties
  <2>5. w \in Seq(Nat) /\ \A i \in 1..k : w[i] # Comma  BY <1>12, <2>4, FiguresAre
  <2>6. /\ r \in Seq(Nat) /\ Len(r) = k + 3 /\ \A i \in 1..k : r[i] = w[i]
        /\ r[k + 1] = Comma /\ r[k + 2] = x /\ r[k + 3] = y
    BY <1>2, <1>3, <1>14, <1>16, <2>4, <2>5, TwoMoreIs
  <2>7. DOMAIN r = 1..(k + 3)  BY <2>6, LenProperties
  <2>8. commas = {k + 1}
    <3>1. \A i \in 1..(k + 3) : i \in 1..k \/ i = k + 1 \/ i = k + 2 \/ i = k + 3  OBVIOUS
    <3>2. \A i \in 1..k : r[i] # Comma  BY <2>5, <2>6
    <3>3. r[k + 2] # Comma /\ r[k + 3] # Comma /\ k + 1 \in 1..(k + 3)  BY <1>3, <1>16, <2>6
    <3> QED  BY <2>3, <2>6, <2>7, <3>1, <3>2, <3>3
  <2>9. ~(Cardinality(commas) > 1) /\ Min(commas) = k + 1
    <3>1. Cardinality(commas) = 1  BY <2>8, FS_Singleton
    <3>2. k + 1 \in Nat  OBVIOUS
    <3>3. Min(commas) = k + 1  BY <2>8, <3>2, MinOfOne
    <3> QED  BY <3>1, <3>3
  <2>10. PICK v : v = [r EXCEPT ![k + 1] = Point]  OBVIOUS
  <2>11. ParseMoneyMinor(t) = Minor(v)
    <3>1. Without(t, Point) = r  BY <1>2, <1>13, <1>16
    <3> QED  BY <1>7, <2>2, <2>3, <2>9, <2>10, <3>1 DEF ParseMoneyMinor
  <2>12. TwoMore(w, Point, x, y, v)
    <3>1. PICK o : o = Append(Append(Append(w, Point), x), y)  OBVIOUS
    <3>2. TwoMore(w, Point, x, y, o) /\ Point \in Nat  BY <3>1 DEF TwoMore, Point
    <3>3. /\ o \in Seq(Nat) /\ Len(o) = k + 3 /\ \A i \in 1..k : o[i] = w[i]
          /\ o[k + 1] = Point /\ o[k + 2] = x /\ o[k + 3] = y
      BY <1>3, <2>4, <2>5, <3>2, TwoMoreIs
    <3>4. /\ v \in Seq(Nat) /\ Len(v) = k + 3
          /\ \A i \in 1..(k + 3) : v[i] = IF i = k + 1 THEN Point ELSE r[i]
      <4>1. k + 1 \in 1..Len(r)  BY <2>6
      <4>2. /\ [r EXCEPT ![k + 1] = Point] \in Seq(Nat)
            /\ Len([r EXCEPT ![k + 1] = Point]) = Len(r)
            /\ \A i \in 1..Len(r) : [r EXCEPT ![k + 1] = Point][i] = IF i = k + 1 THEN Point ELSE r[i]
        BY ONLY <2>6, <3>2, <4>1, ExceptSeq
      <4> QED  BY <2>6, <2>10, <4>2
    <3>5. \A i \in 1..(k + 3) : v[i] = o[i]
      <4>1. \A i \in 1..(k + 3) : i \in 1..k \/ i = k + 1 \/ i = k + 2 \/ i = k + 3  OBVIOUS
      <4>2. \A i \in 1..k : v[i] = o[i]
        <5>1. \A i \in 1..k : i \in 1..(k + 3) /\ i # k + 1  OBVIOUS
        <5> QED  BY <2>6, <3>3, <3>4, <5>1
      <4>3. v[k + 1] = o[k + 1] /\ v[k + 2] = o[k + 2] /\ v[k + 3] = o[k + 3]
        <5>1. k + 1 \in 1..(k + 3) /\ k + 2 \in 1..(k + 3) /\ k + 3 \in 1..(k + 3)
              /\ k + 2 # k + 1 /\ k + 3 # k + 1
          OBVIOUS
        <5> QED  BY <2>6, <3>3, <3>4, <5>1
      <4> QED  BY <4>1, <4>2, <4>3
    <3>6. v = o  BY <3>3, <3>4, <3>5, SeqEqual
    <3> QED  BY <3>2, <3>6
  <2> QED  BY <1>12, <2>11, <2>12, MinorDecimals
<1> QED  BY <1>15, <1>16

-----------------------------------------------------------------------------
\* An amount in groups and without decimals has one mark at most when it is small,
\* and two when it is no ambiguous one.
LEMMA OneGroup ==
  ASSUME NEW m \in Amount, m.grouped, ~m.decimals, ~Ambiguous(m)
  PROVE  /\ m.whole \in Nat
         /\ m.whole \in Small \/ (m.whole \notin Small /\ Thousands(m.whole) \notin Small)
<1>1. m.whole \in Nat  BY ImportFilesAssumption DEF Amount
<1>2. PICK n \in Nat : n = m.whole /\ ~InOneGroup(n)  BY <1>1 DEF Ambiguous
<1>3. n <= 999 \/ n >= 1000000  BY <1>2, SMT DEF InOneGroup
<1>4. n <= 999 \/ n \div 1000 > 999  BY <1>3, SMT
<1>5. n \in Small \/ (n \notin Small /\ n \div 1000 \notin Small)  BY <1>4, SMT DEF Small
<1>6. Thousands(n) = n \div 1000  BY DEF Thousands
<1>7. n \in Small \/ (n \notin Small /\ Thousands(n) \notin Small)  BY <1>5, <1>6, SMT
<1> QED  BY <1>1, <1>2, <1>7

\* The whole units of an amount, in groups or not.
LEMMA WholeReads ==
  ASSUME NEW m \in Amount, NEW s,
         s = IF m.grouped THEN Grouped(Other(m.mark), m.whole) ELSE Digits[m.whole]
  PROVE  ReadsAs(s, Other(m.mark), m.whole) /\ m.whole \in Nat
<1>1. m.whole \in Nat /\ m.mark \in {Point, Comma}  BY ImportFilesAssumption DEF Amount
<1>2. Other(m.mark) \in {Point, Comma}  BY DEF Other
<1>3. PICK n \in Nat, g \in {Point, Comma} : n = m.whole /\ g = Other(m.mark)  BY <1>1, <1>2
<1>4. CASE m.grouped
  <2>1. s = Grouped(g, n)  BY <1>3, <1>4
  <2>2. Tells(s, g, n)  BY <2>1, GroupedTells
  <2>3. ReadsAs(s, g, n)  BY <2>2 DEF Tells, ReadsAs
  <2> QED  BY <1>3, <2>3
<1>5. CASE ~m.grouped
  <2>1. s = Digits[n]  BY <1>3, <1>5
  <2>2. /\ \A i \in 1..Len(s) : s[i] \in Figures /\ s[i] # g
        /\ s \in Seq(Nat) /\ s \in Seq(Figures)
        /\ Without(s, g) = s /\ Number(s) = n
    BY <2>1, DigitsTell
  <2>3. ReadsAs(s, g, n)  BY <2>2 DEF ReadsAs
  <2> QED  BY <1>3, <2>3
<1> QED  BY <1>4, <1>5

\* An amount is read as what is meant, or not at all, unless it is ambiguous.
LEMMA AmountParsed ==
  ASSUME NEW m \in Amount, ~Ambiguous(m)
  PROVE  ParseMoneyMinor(AmountText(m)) \in {AmountMeant(m), Unread}
<1>1. PICK s : s = IF m.grouped THEN Grouped(Other(m.mark), m.whole) ELSE Digits[m.whole]  OBVIOUS
<1>2. PICK g : g = Other(m.mark)  OBVIOUS
<1>3. m.whole \in Nat /\ ReadsAs(s, g, m.whole)  BY <1>1, <1>2, WholeReads
<1>4. PICK n \in Nat : n = m.whole  BY <1>3
<1>5. s \in Seq(Nat)  BY <1>3 DEF ReadsAs
<1>6. PICK mark \in {Point, Comma} : mark = m.mark  BY DEF Amount
<1>7. PICK t : t = AmountText(m)  OBVIOUS
<1>8. CASE m.decimals
  <2>1. PICK x \in Figures, y \in Figures :
          x = m.cents \div 10 /\ y = m.cents % 10 /\ 10 * x + y = m.cents
    <3>1. m.cents \in {0, 5, 99}  BY DEF Amount
    <3>2. m.cents \div 10 \in 0..9 /\ m.cents % 10 \in 0..9  BY <3>1
    <3>3. 10 * (m.cents \div 10) + (m.cents % 10) = m.cents  BY <3>1
    <3> QED  BY <3>2, <3>3 DEF Figures
  <2>2. x \in Nat /\ y \in Nat /\ mark \in Nat  BY FiguresAre DEF Point, Comma
  <2>3. t = s \o <<mark, x, y>>  BY <1>1, <1>6, <1>7, <1>8, <2>1 DEF AmountText
  <2>4. s \o <<mark, x, y>> = Append(Append(Append(s, mark), x), y)  BY <1>5, <2>2
  <2>5. TwoMore(s, mark, x, y, t)  BY <2>3, <2>4 DEF TwoMore
  <2>6. ReadsAs(s, Other(mark), n)  BY <1>2, <1>3, <1>4, <1>6
  <2>7. ParseMoneyMinor(t) = 100 * n + (10 * x + y)  BY <2>5, <2>6, DecimalsParsed
  <2>8. AmountMeant(m) = 100 * n + m.cents  BY <1>4, <1>8 DEF AmountMeant
  <2> QED  BY <1>7, <2>1, <2>7, <2>8
<1>9. CASE ~m.decimals
  <2>1. t = s
    <3>1. t = s \o <<>>  BY <1>1, <1>7, <1>9 DEF AmountText
    <3>2. s \o <<>> = s  BY <1>5, ConcatEmptySeq
    <3> QED  BY <3>1, <3>2
  <2>2. AmountMeant(m) = 100 * n
    <3>1. AmountMeant(m) = 100 * n + 0  BY <1>4, <1>9 DEF AmountMeant
    <3> QED  BY <3>1
  <2>3. CASE s = Digits[n]
    <3>1. Digits[n] \in Seq(Figures) /\ Number(Digits[n]) = n  BY DigitsAre, DigitsWorth
    <3>2. ParseMoneyMinor(s) = 100 * n  BY <2>3, <3>1, DigitsParsed
    <3> QED  BY <1>7, <2>1, <2>2, <3>2
  <2>4. CASE s # Digits[n]
    <3>1. m.grouped /\ s = Grouped(g, n)  BY <1>1, <1>2, <1>4, <2>4
    <3>2. g \in {Point, Comma} /\ g \in Nat  BY <1>2 DEF Other, Point, Comma
    <3>3. n \notin Small  BY <2>4, <3>1, <3>2, GroupedIs
    <3>4. Thousands(n) \notin Small  BY <1>4, <1>9, <3>1, <3>3, OneGroup
    <3>5. ParseMoneyMinor(s) = Unread  BY <3>1, <3>2, <3>3, <3>4, GroupsNotParsed
    <3> QED  BY <1>7, <2>1, <3>5
  <2> QED  BY <2>3, <2>4
<1> QED  BY <1>8, <1>9

\* A date that starts with its year, or is in the declared order, is read as meant.
LEMMA DateParsed ==
  ASSUME NEW d \in DateText, NEW declared \in Orders, d.written \in {"ISO", declared}
  PROVE  ParseDate(d, declared) = DateMeant(d)
<1>1. d \in [written : Orders, day : {1, 12, 13, 29, 30, 31}, month : {1, 2, 12, 13},
             year : {24, 69, 70, 2023, 2024}]
  BY DEF DateText
<1>2. [d EXCEPT !.day = d.day, !.month = d.month] = d
  <2>1. [d EXCEPT !.day = d.day] = d  BY <1>1
  <2>2. [d EXCEPT !.month = d.month] = d  BY <1>1
  <2> QED  BY <2>1, <2>2
<1>3. [d EXCEPT !.month = d.month, !.day = d.day] = d
  <2>1. [d EXCEPT !.month = d.month] = d  BY <1>1
  <2>2. [d EXCEPT !.day = d.day] = d  BY <1>1
  <2> QED  BY <2>1, <2>2
<1>4. CASE d.written = "ISO"  BY <1>4 DEF ParseDate
<1>5. CASE d.written # "ISO" /\ declared = "DMY"
  <2>1. d.written = "DMY" /\ declared = "DMY"  BY <1>5
  <2>2. ParseDate(d, declared) = DateMeant([d EXCEPT !.day = d.day, !.month = d.month])
    BY <2>1 DEF ParseDate
  <2> QED  BY <1>2, <2>2
<1>6. CASE d.written # "ISO" /\ declared = "MDY"
  <2>1. d.written = "MDY" /\ declared = "MDY"  BY <1>6
  <2>2. ParseDate(d, declared) = DateMeant([d EXCEPT !.month = d.month, !.day = d.day])
    BY <2>1 DEF ParseDate
  <2> QED  BY <1>3, <2>2
<1> QED  BY <1>4, <1>5, <1>6 DEF Orders

-------------------------------------------------------------------------------
(***************************************************************************)
(* Import files: what is made of a file.                                   *)
(***************************************************************************)
\* The files there are.
ColumnFiles == [kind : {"columns"}, like : Likeness]

FileRows == [named : BOOLEAN, price : Amount \cup {Unread}, bought : {Unread}, order : {"DMY"}]
          \cup [named : {TRUE}, price : {Unread}, bought : DateText, order : Orders]

RowFiles == [kind : {"row"}, row : FileRows]

\* What is made of a file is what the whole of it says, worked out at once.
Worked ==
  /\ file \in ColumnFiles \cup RowFiles
  /\ \/ result = Unread
     \/ /\ file \in ColumnFiles
        /\ result = [mapping |-> SuggestMapping(file.like),
                     missing |-> MissingRequired(SuggestMapping(file.like))]
     \/ file \in RowFiles /\ result = NormaliseRow(file.row)

\* It holds of every file.
LEMMA FilesInv == FilesSpec => []Worked
<1>1. FilesInit => Worked
  <2> SUFFICES ASSUME FilesInit PROVE Worked  OBVIOUS
  <2>1. result = Unread  BY DEF FilesInit
  <2>2. CASE \E like \in Likeness : file = [kind |-> "columns", like |-> like]
    BY <2>1, <2>2 DEF Worked, ColumnFiles
  <2>3. CASE \E r \in FileRows : file = [kind |-> "row", row |-> r]
    BY <2>1, <2>3 DEF Worked, RowFiles
  <2>4. \A r : r \in {[named |-> n, price |-> m, bought |-> Unread, order |-> "DMY"] :
                             n \in BOOLEAN, m \in Amount \cup {Unread}}
                   \cup {[named |-> TRUE, price |-> Unread, bought |-> d, order |-> o] :
                             d \in DateText, o \in Orders}
                 => r \in FileRows
    <3>1. \A n \in BOOLEAN, m \in Amount \cup {Unread} :
            [named |-> n, price |-> m, bought |-> Unread, order |-> "DMY"] \in FileRows
      BY DEF FileRows
    <3>2. \A d \in DateText, o \in Orders :
            [named |-> TRUE, price |-> Unread, bought |-> d, order |-> o] \in FileRows
      BY DEF FileRows
    <3> QED  BY <3>1, <3>2
  <2> QED  BY <2>2, <2>3, <2>4 DEF FilesInit
<1>2. Worked /\ [FilesNext]_fileVars => Worked'
  <2> SUFFICES ASSUME Worked, [FilesNext]_fileVars PROVE Worked'  OBVIOUS
  <2>1. CASE MapColumns
    <3>1. file.kind = "columns" /\ file' = file  BY <2>1 DEF MapColumns
    <3>2. file \in ColumnFiles  BY <3>1 DEF Worked, RowFiles, ColumnFiles
    <3> QED  BY <2>1, <3>1, <3>2 DEF MapColumns, Worked
  <2>2. CASE ReadRow
    <3>1. file.kind = "row" /\ file' = file  BY <2>2 DEF ReadRow
    <3>2. file \in RowFiles  BY <3>1 DEF Worked, RowFiles, ColumnFiles
    <3> QED  BY <2>2, <3>1, <3>2 DEF ReadRow, Worked
  <2>3. CASE UNCHANGED fileVars  BY <2>3 DEF fileVars, Worked
  <2> QED  BY <2>1, <2>2, <2>3 DEF FilesNext
<1> QED  BY <1>1, <1>2, PTL DEF FilesSpec

\* The columns are given fields or nothing.
LEMMA MappingIsOne == ASSUME NEW like \in Likeness PROVE SuggestMapping(like) \in Mappings
<1>1. NoMapping \in Mappings /\ OneEach(NoMapping)  BY DEF NoMapping, Mappings, OneEach
<1>2. PICK a : a = Match(like, {"equal"}, NoMapping)  OBVIOUS
<1>3. PICK b : b = Match(like, {"equal"}, a)  OBVIOUS
<1>4. PICK c : c = Match(like, {"equal", "contains"}, b)  OBVIOUS
<1>5. Completes(like, {"equal"}, NoMapping, a)  BY <1>1, <1>2, PassGives
<1>6. a \in Mappings /\ OneEach(a)  BY <1>5 DEF Completes
<1>7. Completes(like, {"equal"}, a, b)  BY <1>3, <1>6, PassGives
<1>8. b \in Mappings /\ OneEach(b)  BY <1>7 DEF Completes
<1>9. Completes(like, {"equal", "contains"}, b, c)  BY <1>4, <1>8, PassGives
<1>10. c \in Mappings  BY <1>9 DEF Completes
<1> QED  BY <1>2, <1>3, <1>4, <1>10 DEF SuggestMapping

\* What is made of a file is a mapping of its headers to fields, with the needed
\* fields it lacks, or a row with its errors.
THEOREM FilesTypeCorrect == FilesSpec => []FilesTypeOK
<1>1. Worked => FilesTypeOK
  <2> SUFFICES ASSUME Worked, result # Unread PROVE FilesTypeOK  BY DEF FilesTypeOK
  <2>1. CASE file \in ColumnFiles /\ result = [mapping |-> SuggestMapping(file.like),
                                  missing |-> MissingRequired(SuggestMapping(file.like))]
    <3>1. file.kind = "columns" /\ file.like \in Likeness  BY <2>1 DEF ColumnFiles
    <3>2. result.mapping \in Mappings  BY <2>1, <3>1, MappingIsOne
    <3>3. result.missing \subseteq Needed  BY <2>1 DEF MissingRequired
    <3> QED  BY <3>1, <3>2, <3>3 DEF FilesTypeOK, Mappings
  <2>2. CASE file \in RowFiles /\ result = NormaliseRow(file.row)
    <3>1. file.kind = "row"  BY <2>2 DEF RowFiles
    <3>2. result.errors \subseteq {"name", "price", "bought"}  BY <2>2 DEF NormaliseRow
    <3> QED  BY <3>1, <3>2 DEF FilesTypeOK
  <2> QED  BY <2>1, <2>2 DEF Worked
<1> QED  BY <1>1, FilesInv, PTL

\* An amount that is not ambiguous is read as meant or reported, a date in its order
\* is read as meant, and no column is taken for a field that another fits better.
THEOREM NothingIsMisread == FilesSpec => []NothingMisread
<1>1. Worked => ReadAsWritten
  <2> SUFFICES ASSUME Worked, file.kind = "row", result # Unread
               PROVE  /\ (file.row.price # Unread /\ ~Ambiguous(file.row.price))
                           => result.price = AmountMeant(file.row.price) \/ "price" \in result.errors
                      /\ (/\ file.row.bought # Unread
                          /\ file.row.bought.written \in {"ISO", file.row.order})
                           => result.bought = DateMeant(file.row.bought)
    BY DEF ReadAsWritten
  <2>1. file \in RowFiles /\ result = NormaliseRow(file.row)  BY DEF Worked, ColumnFiles
  <2>2. PICK r \in FileRows : r = file.row  BY <2>1 DEF RowFiles
  <2>3. PICK price, bought :
          /\ price = IF r.price = Unread THEN Unread ELSE ParseMoneyMinor(AmountText(r.price))
          /\ bought = IF r.bought = Unread THEN Unread ELSE ParseDate(r.bought, r.order)
    OBVIOUS
  <2>4. /\ result.price = price /\ result.bought = bought
        /\ (r.price # Unread /\ price = Unread) => "price" \in result.errors
    BY <2>1, <2>2, <2>3 DEF NormaliseRow
  <2>5. ASSUME r.price # Unread, ~Ambiguous(r.price)
        PROVE  result.price = AmountMeant(r.price) \/ "price" \in result.errors
    <3>1. r.price \in Amount  BY <2>5 DEF FileRows
    <3>2. price \in {AmountMeant(r.price), Unread}  BY <2>3, <2>5, <3>1, AmountParsed
    <3> QED  BY <2>4, <2>5, <3>2
  <2>6. ASSUME r.bought # Unread, r.bought.written \in {"ISO", r.order}
        PROVE  result.bought = DateMeant(r.bought)
    <3>1. r.bought \in DateText /\ r.order \in Orders  BY <2>6 DEF FileRows
    <3>2. bought = DateMeant(r.bought)  BY <2>3, <2>6, <3>1, DateParsed
    <3> QED  BY <2>4, <3>2
  <2> QED  BY <2>2, <2>5, <2>6
<1>2. Worked => BestColumnWins
  <2> SUFFICES ASSUME Worked, file.kind = "columns", result # Unread,
                      NEW g \in Headers, NEW h \in Headers, g # h, result.mapping[g] # Unread
               PROVE  /\ result.mapping[h] # result.mapping[g]
                      /\ (/\ file.like[g, result.mapping[g]] = "contains"
                          /\ file.like[h, result.mapping[g]] = "equal")
                           => result.mapping[h] # Unread /\ file.like[h, result.mapping[h]] = "equal"
    BY DEF BestColumnWins
  <2>1. file \in ColumnFiles /\ result.mapping = SuggestMapping(file.like)
    BY DEF Worked, RowFiles
  <2>2. PICK like \in Likeness : like = file.like  BY <2>1 DEF ColumnFiles
  <2>3. PICK m : m = SuggestMapping(like)  OBVIOUS
  <2>4. result.mapping = m /\ m[g] # Unread  BY <2>1, <2>2, <2>3
  <2>5. Best(like, m, g, h)  BY <2>3, <2>4, BestIsTaken
  <2> QED  BY <2>2, <2>4, <2>5 DEF Best
<1>3. Worked => NothingMisread  BY <1>1, <1>2 DEF NothingMisread
<1> QED  BY <1>3, FilesInv, PTL

-------------------------------------------------------------------------------
(***************************************************************************)
(* All of them in one behaviour. A step of one component leaves the others *)
(* as they are, so that what is said of each holds of the whole.           *)
(***************************************************************************)

\* A step of the whole is a step of each component or leaves it as it is.
LEMMA RequestsSteps ==
  [RequestsNext]_requestsVars =>
    /\ [Next]_vars /\ [SessionsNext]_sessionVars
    /\ [MembershipsNext]_membershipVars /\ [DocumentsNext]_documentVars
    /\ [MaintenanceNext]_maintenanceVars /\ [ReceiptsNext]_receiptVars
    /\ [HierarchyNext]_hierarchyVars /\ [ReportingNext]_reportingVars
    /\ [UsageNext]_usageVars /\ [FieldsNext]_fieldVars
    /\ [ListingNext]_listingVars /\ [FilesNext]_fileVars
    /\ [RegistrationNext]_registrationVars /\ scenario' = scenario
<1> SUFFICES ASSUME [RequestsNext]_requestsVars
             PROVE
               /\ [Next]_vars /\ [SessionsNext]_sessionVars
               /\ [MembershipsNext]_membershipVars /\ [DocumentsNext]_documentVars
               /\ [MaintenanceNext]_maintenanceVars /\ [ReceiptsNext]_receiptVars
               /\ [HierarchyNext]_hierarchyVars /\ [ReportingNext]_reportingVars
               /\ [UsageNext]_usageVars /\ [FieldsNext]_fieldVars
               /\ [ListingNext]_listingVars /\ [FilesNext]_fileVars
               /\ [RegistrationNext]_registrationVars /\ scenario' = scenario
  OBVIOUS
<1>1. [Next]_vars  BY DEF RequestsNext, Following, requestsVars
<1>2. [SessionsNext]_sessionVars  BY DEF RequestsNext, Following, requestsVars
<1>3. [MembershipsNext]_membershipVars  BY DEF RequestsNext, Following, requestsVars
<1>4. [DocumentsNext]_documentVars  BY DEF RequestsNext, Following, requestsVars
<1>5. [MaintenanceNext]_maintenanceVars  BY DEF RequestsNext, Following, requestsVars
<1>6. [ReceiptsNext]_receiptVars  BY DEF RequestsNext, Following, requestsVars
<1>7. [HierarchyNext]_hierarchyVars  BY DEF RequestsNext, Following, requestsVars
<1>8. [ReportingNext]_reportingVars  BY DEF RequestsNext, Following, requestsVars
<1>9. [UsageNext]_usageVars  BY DEF RequestsNext, Following, requestsVars
<1>10. [FieldsNext]_fieldVars  BY DEF RequestsNext, Following, requestsVars
<1>11. [ListingNext]_listingVars  BY DEF RequestsNext, Following, requestsVars
<1>12. [FilesNext]_fileVars  BY DEF RequestsNext, Following, requestsVars
<1>13. [RegistrationNext]_registrationVars  BY DEF RequestsNext, Following, requestsVars
<1>14. scenario' = scenario  BY DEF RequestsNext, Following, requestsVars
<1> QED  BY <1>1, <1>2, <1>3, <1>4, <1>5, <1>6, <1>7, <1>8, <1>9, <1>10, <1>11, <1>12, <1>13,
            <1>14

\* What the runs check of all of them at once is what the theorems say of each: whatever
\* the components do beside each other, every one of them behaves as it does alone.
THEOREM RequestsComposed ==
  RequestsSpec =>
    /\ Spec /\ SessionsSpec /\ MembershipsSpec /\ DocumentsSpec
    /\ MaintenanceSpec /\ ReceiptsSpec /\ HierarchySpec /\ ReportingSpec
    /\ UsageSpec /\ FieldsSpec /\ ListingSpec /\ FilesSpec
    /\ RegistrationSpec
<1>1. RequestsInit =>
        /\ Init /\ SessionsInit /\ MembershipsInit /\ DocumentsInit
        /\ MaintenanceInit /\ ReceiptsInit /\ HierarchyInit /\ ReportingInit
        /\ UsageInit /\ FieldsInit /\ ListingInit /\ FilesInit
        /\ RegistrationInit
  BY DEF RequestsInit
<1> QED  BY <1>1, RequestsSteps, PTL DEF RequestsSpec, Spec, SessionsSpec, MembershipsSpec,
         DocumentsSpec, MaintenanceSpec, ReceiptsSpec, HierarchySpec, ReportingSpec, UsageSpec,
         FieldsSpec, ListingSpec, FilesSpec, RegistrationSpec

\* Every variable has its type, of the component that is followed as of the others.
THEOREM RequestsTypeCorrect == RequestsSpec => []RequestsTypeOK
<1>1. RequestsInit => scenario \in AllScenarios
  BY ScenariosAssumption DEF RequestsInit
<1>2. scenario \in AllScenarios /\ [RequestsNext]_requestsVars => (scenario \in AllScenarios)'
  BY RequestsSteps
<1>3. (/\ scenario \in AllScenarios /\ TypeOK /\ SessionsTypeOK /\ MembershipsTypeOK
       /\ DocumentsTypeOK /\ MaintenanceTypeOK /\ ReceiptsTypeOK /\ HierarchyTypeOK
       /\ ReportingTypeOK /\ UsageTypeOK /\ FieldsTypeOK /\ ListingTypeOK
       /\ FilesTypeOK /\ RegistrationTypeOK)
      => RequestsTypeOK
  BY DEF RequestsTypeOK, AllScenarios
<1> QED  BY <1>1, <1>2, <1>3, RequestsComposed, TypeCorrect, SessionsTypeCorrect,
         MembershipsTypeCorrect, DocumentsTypeCorrect, MaintenanceTypeCorrect,
         ReceiptsTypeCorrect, HierarchyTypeCorrect, ReportingTypeCorrect, UsageTypeCorrect,
         FieldsTypeCorrect, ListingTypeCorrect, FilesTypeCorrect, RegistrationTypeCorrect,
         PTL DEF RequestsSpec
===============================================================================
