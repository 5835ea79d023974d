---------------------------- MODULE PagesProofs ----------------------------
(***************************************************************************)
(* Proofs about module Pages, for every number of clients and rows and for *)
(* every size of a page.                                                   *)
(***************************************************************************)
EXTENDS Pages, FiniteSetTheorems, TLAPS

\* What comes before i in S.
Preceding(S, i) == {j \in S : Before(j, i)}

\* A list has a strict total order.
LEMMA Order ==
    \A i, j, k \in Ids :
        /\ ~Before(i, i)
        /\ Before(i, j) /\ Before(j, k) => Before(i, k)
        /\ i = j \/ Before(i, j) \/ Before(j, i)
BY MaxIdAssumption DEF Before, Ids

\* Every part of a list is finite.
LEMMA Finite ==
    ASSUME NEW S \in SUBSET Ids
    PROVE  IsFiniteSet(S) /\ Cardinality(S) \in Nat
<1>1. IsFiniteSet(Ids)
    BY MaxIdAssumption, FS_Interval DEF Ids
<1>. QED BY <1>1, FS_Subset, FS_CardinalityType

\* A smaller part has no more rows, and less if it lacks one.
LEMMA Smaller ==
    ASSUME NEW S \in SUBSET Ids, NEW T \in SUBSET S
    PROVE  /\ Cardinality(T) <= Cardinality(S)
           /\ T # S => Cardinality(T) < Cardinality(S)
<1>1. T \in SUBSET Ids /\ IsFiniteSet(S) /\ IsFiniteSet(T)
    BY Finite
<1>2. /\ Cardinality(T) <= Cardinality(S)
      /\ Cardinality(S) = Cardinality(T) => S = T
    BY <1>1, FS_Subset
<1>. QED BY <1>1, <1>2, Finite

\* A part of a list that is not empty has a first row.
LEMMA HasFirst ==
    ASSUME NEW S \in SUBSET Ids, S # {}
    PROVE  \E i \in S : Preceding(S, i) = {}
<1>. DEFINE T == {Preceding(S, i) : i \in S}
            R == StrictSubsetOrdering(S)
<1>1. IsWellFoundedOn(R, FiniteSubsetsOf(S))
    BY FS_StrictSubsetOrderingWellFounded
<1>2. T \subseteq FiniteSubsetsOf(S) /\ T # {}
  <2>1. ASSUME NEW i \in S PROVE Preceding(S, i) \in FiniteSubsetsOf(S)
      BY Finite DEF Preceding, FiniteSubsetsOf
  <2>. QED BY <2>1
<1>3. PICK P \in T : \A Q \in T : ~(<<Q, P>> \in R)
  <2>. HIDE DEF T, R
  <2>. QED BY <1>1, <1>2, WFMin
<1>4. PICK i \in S : P = Preceding(S, i)
    OBVIOUS
<1>5. ASSUME NEW j \in P PROVE FALSE
  <2>1. j \in S /\ Before(j, i)
      BY <1>4 DEF Preceding
  <2>2. PICK Q \in T : Q = Preceding(S, j)
      BY <2>1
  <2>3. Q \subseteq P /\ j \notin Q
      BY <1>4, <2>1, <2>2, Order DEF Preceding
  <2>4. Q \in SUBSET S /\ P \in SUBSET S
      BY <1>4, <2>2 DEF Preceding
  <2>5. <<Q, P>> \in R
      BY <2>3, <2>4 DEF StrictSubsetOrdering
  <2>. QED BY <1>3, <2>5
<1>. QED BY <1>4, <1>5

\* It has a last row too, and LastOf is that row.
LEMMA HasLast ==
    ASSUME NEW S \in SUBSET Ids, S # {}
    PROVE  LastOf(S) \in S /\ \A j \in S : ~Before(LastOf(S), j)
<1>. DEFINE After(i) == {j \in S : Before(i, j)}
            T == {After(i) : i \in S}
            R == StrictSubsetOrdering(S)
<1>1. IsWellFoundedOn(R, FiniteSubsetsOf(S))
    BY FS_StrictSubsetOrderingWellFounded
<1>2. T \subseteq FiniteSubsetsOf(S) /\ T # {}
  <2>1. ASSUME NEW i \in S PROVE After(i) \in FiniteSubsetsOf(S)
      BY Finite DEF FiniteSubsetsOf
  <2>. QED BY <2>1
<1>3. PICK P \in T : \A Q \in T : ~(<<Q, P>> \in R)
  <2>. HIDE DEF T, R
  <2>. QED BY <1>1, <1>2, WFMin
<1>4. PICK i \in S : P = After(i)
    OBVIOUS
<1>5. ASSUME NEW j \in P PROVE FALSE
  <2>1. j \in S /\ Before(i, j)
      BY <1>4
  <2>2. PICK Q \in T : Q = After(j)
      BY <2>1
  <2>3. Q \subseteq P /\ j \notin Q
      BY <1>4, <2>1, <2>2, Order
  <2>4. Q \in SUBSET S /\ P \in SUBSET S
      BY <1>4, <2>2
  <2>5. <<Q, P>> \in R
      BY <2>3, <2>4 DEF StrictSubsetOrdering
  <2>. QED BY <1>3, <2>5
<1>6. \E x \in S : \A j \in S : ~Before(x, j)
    BY <1>4, <1>5
<1>. QED BY <1>6 DEF LastOf

-----------------------------------------------------------------------------
(* LIMIT. *)

\* A page has the rows that come first: what precedes one of its rows is in
\* it, and what is not in it comes after all of it.
LEMMA Prefix ==
    ASSUME NEW S \in SUBSET Ids, NEW n \in Int
    PROVE  /\ First(n, S) \subseteq S
           /\ \A i \in First(n, S) : Preceding(S, i) \subseteq First(n, S)
           /\ \A i \in First(n, S), j \in S \ First(n, S) : Before(i, j)
<1>1. First(n, S) \subseteq S
    BY DEF First
<1>2. ASSUME NEW i \in First(n, S), NEW j \in Preceding(S, i)
      PROVE  j \in First(n, S)
  <2>1. /\ i \in S /\ j \in S /\ Before(j, i)
        /\ Cardinality(Preceding(S, i)) < n
      BY DEF First, Preceding
  <2>2. PICK P \in SUBSET Ids : P = Preceding(S, i)
      BY DEF Preceding
  <2>5. PICK Q \in SUBSET P : Q = Preceding(S, j)
      BY <2>1, <2>2, Order DEF Preceding
  <2>3. Cardinality(Q) <= Cardinality(P)
      BY Smaller
  <2>4. Cardinality(P) \in Nat /\ Cardinality(Q) \in Nat
      BY Finite
  <2>. QED BY <2>1, <2>2, <2>3, <2>4, <2>5 DEF First, Preceding
<1>3. ASSUME NEW i \in First(n, S), NEW j \in S \ First(n, S)
      PROVE  Before(i, j)
    BY <1>1, <1>2, Order DEF Preceding
<1>. QED BY <1>1, <1>2, <1>3

\* A page that has not all the rows is full.
LEMMA Filled ==
    ASSUME NEW S \in SUBSET Ids, NEW n \in Int, First(n, S) # S
    PROVE  Cardinality(First(n, S)) >= n
<1>. DEFINE F == First(n, S)
<1>1. F \subseteq S
    BY Prefix
<1>2. PICK Rest \in SUBSET Ids : Rest = S \ F /\ Rest # {}
    BY <1>1
<1>3. PICK i \in Rest : Preceding(Rest, i) = {}
    BY <1>2, HasFirst
<1>4. PICK P \in SUBSET F : P = Preceding(S, i)
    BY <1>2, <1>3 DEF Preceding
<1>5. Cardinality(P) <= Cardinality(F)
    BY <1>1, <1>4, Smaller
<1>6. ~(Cardinality(P) < n)
    BY <1>2, <1>4 DEF First, Preceding
<1>7. Cardinality(P) \in Nat /\ Cardinality(F) \in Nat
    BY <1>1, <1>4, Finite
<1>. QED BY <1>5, <1>6, <1>7

\* A page is no larger than was asked for.
LEMMA Bounded ==
    ASSUME NEW S \in SUBSET Ids, NEW n \in Nat
    PROVE  Cardinality(First(n, S)) <= n
<1>1. PICK F \in SUBSET Ids : F = First(n, S) /\ F \subseteq S
    BY DEF First
<1>2. CASE F = {}
    BY <1>1, <1>2, FS_EmptySet
<1>3. CASE F # {}
  <2>1. PICK l \in F : \A j \in F : ~Before(l, j)
      BY <1>1, <1>3, HasLast
  <2>2. PICK P \in SUBSET Ids : P = Preceding(S, l)
      BY <1>1 DEF Preceding
  <2>3. Cardinality(P) < n
      BY <1>1, <2>1, <2>2 DEF First, Preceding
  <2>4. F \ {l} \subseteq P
      BY <1>1, <2>1, <2>2, Order DEF Preceding
  <2>5. Cardinality(F \ {l}) = Cardinality(F) - 1
      BY <1>1, Finite, FS_RemoveElement
  <2>6. Cardinality(F \ {l}) <= Cardinality(P)
      BY <2>2, <2>4, Smaller
  <2>7. /\ Cardinality(P) \in Nat /\ Cardinality(F) \in Nat
      BY <1>1, <2>2, Finite
  <2>. QED BY <1>1, <2>3, <2>5, <2>6, <2>7
<1>. QED BY <1>2, <1>3

\* Without an extra row, the page has all the rows that are left.
LEMMA LastPage ==
    ASSUME NEW S \in SUBSET Ids, NEW n \in Nat,
           ~(Cardinality(First(n + 1, S)) > n)
    PROVE  First(n, First(n + 1, S)) = S
<1>1. Cardinality(First(n + 1, S)) \in Nat
    BY Finite, Prefix
<1>2. First(n + 1, S) = S
    BY <1>1, Filled
<1>3. ASSUME First(n, S) # S PROVE FALSE
  <2>1. PICK F \in SUBSET S : F = First(n, S)
      BY Prefix
  <2>2. Cardinality(F) >= n /\ Cardinality(F) < Cardinality(S)
      BY <1>3, <2>1, Filled, Smaller
  <2>3. Cardinality(F) \in Nat /\ Cardinality(S) \in Nat
      BY Finite
  <2>. QED BY <1>2, <2>2, <2>3
<1>. QED BY <1>2, <1>3

\* With an extra row, the next cursor is the last row of the page, and every
\* row that is not on the page, one at least, comes after it.
LEMMA MorePages ==
    ASSUME NEW S \in SUBSET Ids, NEW n \in Nat \ {0}, NEW F \in SUBSET S,
           F = First(n + 1, S), Cardinality(F) > n,
           NEW c, c = LastOf(First(n, F))
    PROVE  /\ c \in First(n, F)
           /\ \A i \in First(n, F) : ~Before(c, i)
           /\ \A i \in S \ First(n, F) : Before(c, i)
           /\ S \ First(n, F) # {}
<1>1. PICK P \in SUBSET F : P = First(n, F)
    BY DEF First
<1>2. Cardinality(F) \in Nat /\ Cardinality(P) \in Nat /\ Cardinality(P) <= n
    BY <1>1, Finite, Bounded
<1>3. P # F
    BY <1>2
<1>4. F # {}
    BY FS_EmptySet
<1>5. P # {}
  <2>1. PICK i \in F : Preceding(F, i) = {}
      BY <1>4, HasFirst
  <2>. QED BY <1>1, <2>1, FS_EmptySet DEF First, Preceding
<1>6. c \in P /\ \A i \in P : ~Before(c, i)
    BY <1>1, <1>5, HasLast
<1>7. \A i \in F \ P : Before(c, i)
    BY <1>1, <1>6, Prefix
<1>8. \A i \in S \ F : Before(c, i)
    BY <1>1, <1>6, Prefix
<1>. QED BY <1>1, <1>3, <1>6, <1>7, <1>8

-----------------------------------------------------------------------------
(* The rows come and go. *)

\* The invariant holds at first.
LEMMA InitIInv == Init => IInv
<1>. SUFFICES ASSUME Init PROVE IInv
    OBVIOUS
<1>1. Fresh \in Reader
    BY DEF Fresh, Reader
<1>2. TypeOK /\ RowsInv
    BY <1>1, MaxIdAssumption DEF Init, TypeOK, RowsInv, Fresh
<1>3. ASSUME NEW r \in Readers PROVE ReaderInv(reader[r])
    BY DEF Init, Fresh, ReaderInv
<1>4. MoreIsThere
    BY DEF Init, Fresh, MoreIsThere
<1>. QED BY <1>2, <1>3, <1>4 DEF IInv

\* Messages are drawn and committed; a commit brings a row, and takes none.
LEMMA MessageStep ==
    ASSUME IInv, Draw \/ \E i \in Ids : Create(i) \/ CreateFails(i) \/ Appear(i)
    PROVE  IInv'
<1>1. TypeOK /\ RowsInv
    BY DEF IInv
<1>2. UNCHANGED <<list, reader>> /\ rows \subseteq rows'
    BY DEF Draw, Create, CreateFails, Appear
<1>3. TypeOK' /\ RowsInv'
  <2>1. CASE Draw
    <3>1. last' \in 0 .. MaxId /\ last' = last + 1 /\ last \in Nat
        BY <1>1, <2>1, MaxIdAssumption DEF Draw, TypeOK
    <3>2. 1 .. last \subseteq 1 .. last' /\ last' \in 1 .. last' /\ last' \notin 1 .. last
        BY <3>1
    <3>. QED BY <1>1, <2>1, <3>1, <3>2 DEF Draw, TypeOK, RowsInv
  <2>2. ASSUME NEW i \in Ids, Create(i) \/ CreateFails(i) \/ Appear(i)
        PROVE  TypeOK' /\ RowsInv'
      BY <1>1, <2>2 DEF Create, CreateFails, Appear, TypeOK, RowsInv
  <2>. QED BY <2>1, <2>2
<1>4. ASSUME NEW r \in Readers PROVE ReaderInv(reader[r])'
    BY <1>2 DEF IInv, ReaderInv, Before
<1>5. MoreIsThere'
    BY <1>2 DEF IInv, MoreIsThere, Beyond, Before
<1>. QED BY <1>3, <1>4, <1>5 DEF IInv

\* A row of a user that leaves the list has not stayed.
LEMMA VanishStep ==
    ASSUME IInv, NEW i \in Ids, Vanish(i) PROVE IInv'
<1>1. /\ TypeOK /\ RowsInv /\ list # "messages" /\ rows' = rows \ {i}
      /\ UNCHANGED <<list, last, drawn>>
    BY DEF IInv, Vanish
<1>2. ASSUME NEW r \in Readers
      PROVE  /\ reader'[r] \in Reader /\ ReaderInv(reader[r])'
             /\ reader'[r].cursor # None => reader'[r].more
  <2>1. reader[r] \in Reader /\ ReaderInv(reader[r])
      BY <1>1 DEF IInv, TypeOK
  <2>2. PICK q : q = [reader[r] EXCEPT !.stay = @ \ {i}]
      OBVIOUS
  <2>3. /\ q \in Reader /\ q.stay = reader[r].stay \ {i}
        /\ q.more = reader[r].more /\ q.cursor = reader[r].cursor
        /\ q.page = reader[r].page /\ q.shown = reader[r].shown
        /\ q.cut = reader[r].cut
      BY <2>1, <2>2 DEF Reader
  <2>4. reader'[r] = q
      BY <2>2 DEF Vanish
  <2>. QED BY <1>1, <2>1, <2>3, <2>4 DEF ReaderInv, Before, TypeOK
<1>3. TypeOK' /\ RowsInv'
    BY <1>1, <1>2 DEF TypeOK, RowsInv, Vanish
<1>4. MoreIsThere'
    BY <1>1 DEF MoreIsThere
<1>. QED BY <1>2, <1>3, <1>4 DEF IInv

-----------------------------------------------------------------------------
(* The clients read. *)

\* One client changes, and no row.
LEMMA OneReader ==
    ASSUME IInv, UNCHANGED <<list, rows, last, drawn>>,
           NEW r \in Readers, NEW q \in Reader, reader' = [reader EXCEPT ![r] = q],
           q.cursor # None => q.more, ReaderInv(q),
           list = "messages" /\ q.cursor # None => Beyond(q.cursor) # {}
    PROVE  IInv'
<1>1. TypeOK' /\ RowsInv'
    BY DEF IInv, TypeOK, RowsInv
<1>2. ASSUME NEW x \in Readers PROVE ReaderInv(reader[x])'
    BY DEF IInv, TypeOK, ReaderInv, Before
<1>3. MoreIsThere'
    BY DEF IInv, TypeOK, MoreIsThere, Beyond, Before
<1>. QED BY <1>1, <1>2, <1>3 DEF IInv

\* A page that is answered, whole or cut.
LEMMA Received ==
    ASSUME IInv, UNCHANGED <<list, rows, last, drawn>>,
           NEW r \in Readers, reader[r].more,
           NEW n \in Nat \ {0}, NEW cut \in BOOLEAN,
           NEW F \in SUBSET Beyond(reader[r].cursor), Receive(r, F, n, cut),
           cut => Cardinality(F) <= n,
           ~cut => F = First(n + 1, Beyond(reader[r].cursor))
    PROVE  IInv'
<1>. DEFINE S == Beyond(reader[r].cursor)
            old == reader[r]
<1>1. TypeOK /\ old \in Reader /\ ReaderInv(old) /\ rows \subseteq Ids
    BY DEF IInv, TypeOK
<1>2. S \in SUBSET rows /\ S \in SUBSET Ids /\ F \in SUBSET Ids
    BY <1>1 DEF Beyond
<1>3. PICK page \in SUBSET F : page = First(n, F)
    BY DEF First
<1>4. PICK c : c = NextCursor(F, n)
    OBVIOUS
<1>5. PICK shown \in SUBSET Ids : shown = old.shown \cup old.page
    BY <1>1 DEF Reader
<1>6. PICK stay \in SUBSET Ids : stay = IF old.cursor = None THEN rows ELSE old.stay
    BY <1>1 DEF Reader
<1>7. PICK q : q = [more |-> c # None, cursor |-> c, page |-> page,
                    shown |-> shown, stay |-> stay, cut |-> cut]
    OBVIOUS
<1>8. reader' = [reader EXCEPT ![r] = q]
    BY <1>3, <1>4, <1>5, <1>6, <1>7 DEF Receive
<1>9. Cardinality(F) \in Nat
    BY <1>2, Finite
<1>10. Cardinality(F) > n =>
           /\ ~cut /\ c \in page
           /\ \A i \in page : ~Before(c, i)
           /\ \A i \in S \ page : Before(c, i)
           /\ S \ page # {}
  <2>. SUFFICES ASSUME Cardinality(F) > n
                PROVE  /\ ~cut /\ c \in page
                       /\ \A i \in page : ~Before(c, i)
                       /\ \A i \in S \ page : Before(c, i)
                       /\ S \ page # {}
      OBVIOUS
  <2>1. ~cut
      BY <1>9
  <2>2. c = LastOf(First(n, F))
      BY <1>4 DEF NextCursor
  <2>. QED BY <1>2, <1>3, <2>1, <2>2, MorePages
<1>11. ~(Cardinality(F) > n) => c = None /\ (cut \/ page = S)
    BY <1>2, <1>3, <1>4, LastPage DEF NextCursor
<1>12. None \notin Ids
    BY NoneAssumption, MaxIdAssumption DEF Ids
<1>13. c # None => Cardinality(F) > n /\ c \in page
    BY <1>10, <1>11
<1>14. q \in Reader
    BY <1>2, <1>7, <1>13 DEF Reader
<1>15. \A i \in shown, j \in page : Before(i, j)
  <2>. SUFFICES ASSUME NEW i \in shown, NEW j \in page PROVE Before(i, j)
      OBVIOUS
  <2>1. CASE old.cursor = None
      BY <1>1, <1>5, <2>1 DEF ReaderInv
  <2>2. CASE old.cursor # None
    <3>1. ~Before(old.cursor, i) /\ Before(old.cursor, j)
        BY <1>1, <1>5, <2>2 DEF ReaderInv, Beyond
    <3>2. old.cursor \in Ids /\ i \in Ids /\ j \in Ids
        BY <1>1, <1>2, <2>2 DEF Reader
    <3>. QED BY <3>1, <3>2, Order
  <2>. QED BY <2>1, <2>2
<1>16. \A i \in stay : i \in rows /\ (i \in shown \/ i \in S)
    BY <1>1, <1>5, <1>6 DEF ReaderInv, Beyond
<1>17. ReaderInv(q)
  <2>1. \A i \in stay : i \in shown \cup page \/ (c # None /\ Before(c, i)) \/ (c = None /\ cut)
      BY <1>10, <1>11, <1>13, <1>16, <1>12, <1>2
  <2>2. c # None => \A i \in shown \cup page : ~Before(c, i)
    <3>. SUFFICES ASSUME c # None, NEW i \in shown PROVE ~Before(c, i)
        BY <1>10, <1>13
    <3>1. c \in page /\ c \in Ids /\ i \in Ids /\ Before(i, c)
        BY <1>2, <1>13, <1>15
    <3>. QED BY <3>1, Order
  <2>. QED BY <1>7, <1>15, <1>16, <2>1, <2>2 DEF ReaderInv
<1>18. c # None => Beyond(c) # {}
    BY <1>2, <1>10, <1>13 DEF Beyond
<1>. QED BY <1>7, <1>8, <1>14, <1>17, <1>18, OneReader

\* The page sizes that the code asks for are positive.
LEMMA Sizes ==
    ASSUME NEW limit \in Limits
    PROVE  Clamp(limit) \in Nat \ {0}
BY LimitsAssumption, SizesAssumption DEF Clamp

\* What a page has is beyond the cursor.
LEMMA FetchedIn ==
    ASSUME IInv, NEW r \in Readers, NEW n \in Nat
    PROVE  /\ Fetched(reader[r].cursor, n) \subseteq Beyond(reader[r].cursor)
           /\ Fetched(reader[r].cursor, n) \in SUBSET Ids
           /\ Cardinality(Fetched(reader[r].cursor, n)) \in Nat
           /\ Cardinality(Fetched(reader[r].cursor, n)) <= n + 1
<1>1. PICK S \in SUBSET Ids : S = Beyond(reader[r].cursor)
    BY DEF IInv, TypeOK, Beyond
<1>2. PICK F \in SUBSET S : F = First(n + 1, S)
    BY DEF First
<1>3. Cardinality(F) <= n + 1 /\ Cardinality(F) \in Nat
  <2>1. n + 1 \in Nat
      OBVIOUS
  <2>. QED BY <1>2, <2>1, Bounded, Finite
<1>. QED BY <1>1, <1>2, <1>3 DEF Fetched

\* A whole page.
LEMMA PageStep ==
    ASSUME IInv, NEW r \in Readers, Page(r) PROVE IInv'
<1>1. PICK limit \in Limits :
          Receive(r, Fetched(reader[r].cursor, Clamp(limit)), Clamp(limit), FALSE)
    BY DEF Page
<1>2. PICK n \in Nat \ {0} : n = Clamp(limit)
    BY Sizes
<1>3. PICK F \in SUBSET Beyond(reader[r].cursor) : F = Fetched(reader[r].cursor, n)
    BY FetchedIn
<1>. QED BY <1>1, <1>2, <1>3, Received DEF Page, Fetched

\* A search page that a broken connection has cut.
LEMMA CutPageStep ==
    ASSUME IInv, NEW r \in Readers, CutPage(r) PROVE IInv'
<1>1. PICK limit \in Limits :
          \E k \in 0 .. Cardinality(Fetched(reader[r].cursor, Clamp(limit))) - 1 :
              Receive(r, First(k, Fetched(reader[r].cursor, Clamp(limit))),
                      Clamp(limit), TRUE)
    BY DEF CutPage
<1>2. PICK n \in Nat \ {0} : n = Clamp(limit)
    BY Sizes
<1>3. PICK found \in SUBSET Beyond(reader[r].cursor) :
          found = Fetched(reader[r].cursor, n)
    BY FetchedIn
<1>4. /\ found \in SUBSET Ids /\ Cardinality(found) \in Nat
      /\ Cardinality(found) <= n + 1
    BY <1>3, FetchedIn
<1>5. PICK k \in Nat : k <= n /\ Receive(r, First(k, found), n, TRUE)
  <2>1. PICK k \in 0 .. Cardinality(found) - 1 : Receive(r, First(k, found), n, TRUE)
      BY <1>1, <1>2, <1>3
  <2>2. k \in Nat /\ k <= n
      BY <1>4
  <2>. QED BY <2>1, <2>2
<1>6. PICK F \in SUBSET found : F = First(k, found)
    BY DEF First
<1>7. Cardinality(F) <= n
    BY <1>4, <1>5, <1>6, Bounded, Finite
<1>8. F \in SUBSET Beyond(reader[r].cursor)
    BY <1>3, <1>6
<1>. QED BY <1>5, <1>6, <1>7, <1>8, Received DEF CutPage

\* A list that is read anew.
LEMMA ReloadStep ==
    ASSUME IInv, NEW r \in Readers, Reload(r) PROVE IInv'
<1>1. Fresh \in Reader /\ Fresh.cursor = None /\ ReaderInv(Fresh)
    BY DEF Fresh, Reader, ReaderInv
<1>. QED BY <1>1, OneReader DEF Reload

-----------------------------------------------------------------------------
(* Theorems. *)

\* Every page, and every row that comes or goes, preserves the inductive
\* invariant.
THEOREM Inductive == IInv /\ [Next]_vars => IInv'
<1>. SUFFICES ASSUME IInv, [Next]_vars PROVE IInv'
    OBVIOUS
<1>1. CASE UNCHANGED vars
    BY <1>1 DEF vars, IInv, TypeOK, RowsInv, ReaderInv, MoreIsThere, Beyond, Before
<1>. QED BY <1>1, MessageStep, VanishStep, PageStep, CutPageStep, ReloadStep DEF Next

\* The inductive invariant holds in every reachable state.
THEOREM Invariance == Spec => []IInv
<1>. QED BY InitIInv, Inductive, PTL DEF Spec

\* The list and what the clients have been told have their types; a next
\* cursor comes only with the word that there is more.
THEOREM TypeCorrect == Spec => []TypeOK
<1>1. IInv => TypeOK
    BY DEF IInv
<1>. QED BY <1>1, Invariance, PTL

\* No row is shown twice, and none out of order, whatever comes and goes
\* between two pages.
THEOREM NoRepeats == Spec => []NothingTwice
<1>1. IInv => NothingTwice
    BY DEF IInv, ReaderInv, NothingTwice
<1>. QED BY <1>1, Invariance, PTL

\* A client who is told that there is no more has been shown every row that
\* has been there all the time, for every size of the pages.
THEOREM NothingSkipped == Spec => []Complete
<1>1. IInv => Complete
    BY DEF IInv, ReaderInv, Complete
<1>. QED BY <1>1, Invariance, PTL

\* A conversation that promises more has more.
THEOREM PromisesKept == Spec => []MoreIsThere
<1>1. IInv => MoreIsThere
    BY DEF IInv
<1>. QED BY <1>1, Invariance, PTL
=============================================================================
