------------------------------- MODULE Pages -------------------------------
(***************************************************************************)
(* Lists that a client reads page by page while their rows come and go:    *)
(* the messages of a conversation, the results of a user search, and the   *)
(* friends or the pending requests of a user.                              *)
(*                                                                         *)
(* A page is one SELECT: the rows beyond the cursor in the order of the    *)
(* list, one more than the page holds; the extra row says that there is    *)
(* more, and the last row of the page is the next cursor.  The server      *)
(* keeps nothing between two pages.  A request that fails is answered      *)
(* with an error and asked again.                                          *)
(***************************************************************************)
EXTENDS FiniteSets, Integers

CONSTANTS
    Lists,      \* the lists of the instance
    Readers,    \* clients, each reading the list
    MaxId,      \* bound: the identifiers that there can be
    Limits,     \* the page sizes that the clients ask for
    Default,    \* the page size of a client that asks for none
    MaxLimit,   \* the largest page of a list that has one
    Faults,     \* may the connection to the database break?
    None

AllLists == {"messages", "search", "friends"}

Ids == 1 .. MaxId

ASSUME ListsAssumption == Lists \subseteq AllLists
ASSUME MaxIdAssumption == MaxId \in Nat
ASSUME LimitsAssumption == Limits \subseteq Int
ASSUME SizesAssumption == Default \in Nat \ {0} /\ MaxLimit \in Nat \ {0}
ASSUME FaultsAssumption == Faults \in BOOLEAN
ASSUME NoneAssumption == None \notin Nat

VARIABLES
    list,       \* the list that is read
    rows,       \* the identifiers of the rows that it has
    last,       \* the last identifier that SendMessage has drawn
    drawn,      \* identifiers of messages that are not committed yet
    reader      \* what each client has received

vars == <<list, rows, last, drawn, reader>>

-----------------------------------------------------------------------------
\* "more" and "cursor" are what the client was told at last, "page" has the
\* rows of the last page, and "shown" those of the pages before it.
\* History: "stay" has the rows listed ever since the first page was read, and
\* "cut" says that a broken connection has ended the reading.
Reader == [more: BOOLEAN, cursor: Ids \cup {None}, page: SUBSET Ids,
           shown: SUBSET Ids, stay: SUBSET Ids, cut: BOOLEAN]

Fresh == [more |-> TRUE, cursor |-> None, page |-> {}, shown |-> {},
          stay |-> {}, cut |-> FALSE]

TypeOK ==
    /\ list \in Lists
    /\ rows \subseteq Ids
    /\ last \in 0 .. MaxId
    /\ drawn \subseteq 1 .. last \ rows
    /\ reader \in [Readers -> Reader]
    /\ \A r \in Readers : reader[r].cursor # None => reader[r].more

\* A conversation is read from its beginning on; any users can be there.
Init ==
    /\ list \in Lists
    /\ rows \in SUBSET Ids
    /\ list = "messages" => rows = {}
    /\ last = 0
    /\ drawn = {}
    /\ reader = [r \in Readers |-> Fresh]

-----------------------------------------------------------------------------
(* The rows.                                                               *)

\* uuid.NewV7 grows from call to call; SendMessage draws the identifier
\* before its INSERT, and concurrent requests commit in any order.
Draw ==
    /\ list = "messages" /\ last < MaxId
    /\ last' = last + 1
    /\ drawn' = drawn \cup {last'}
    /\ UNCHANGED <<list, rows, reader>>

Create(i) ==
    /\ i \in drawn
    /\ rows' = rows \cup {i}
    /\ drawn' = drawn \ {i}
    /\ UNCHANGED <<list, last, reader>>

CreateFails(i) ==
    /\ i \in drawn
    /\ drawn' = drawn \ {i}
    /\ UNCHANGED <<list, rows, last, reader>>

\* A user registers, or befriends, renames or unblocks the reader: users have
\* random identifiers, so that a row can come anywhere in the list.
Appear(i) ==
    /\ list # "messages" /\ i \notin rows
    /\ rows' = rows \cup {i}
    /\ UNCHANGED <<list, last, drawn, reader>>

\* A row of a user leaves the list; a deleted message stays in it, without its
\* contents.
Vanish(i) ==
    /\ list # "messages" /\ i \in rows
    /\ rows' = rows \ {i}
    /\ reader' = [r \in Readers |-> [reader[r] EXCEPT !.stay = @ \ {i}]]
    /\ UNCHANGED <<list, last, drawn>>

-----------------------------------------------------------------------------
(* A page.                                                                 *)

\* ORDER BY id DESC for messages, ORDER BY u.id for users.
Before(i, j) == IF list = "messages" THEN i > j ELSE i < j

\* Mutant: the row of the cursor is taken again.
BeyondOrAt(cursor) == {i \in rows : cursor = None \/ ~Before(i, cursor)}

\* Mutant: the condition on the cursor is not part of the statement.
BeyondNothing(cursor) == rows

Beyond(cursor) == {i \in rows : cursor = None \/ Before(cursor, i)}

\* LIMIT n.
First(n, S) == {i \in S : Cardinality({j \in S : Before(j, i)}) < n}

\* The last row of a page.
LastOf(S) == CHOOSE i \in S : \A j \in S : ~Before(i, j)

Capped == {"messages", "search"}

Clamp(limit) ==
    IF limit <= 0 THEN Default
    ELSE IF list \in Capped /\ limit > MaxLimit THEN MaxLimit ELSE limit

\* Mutant: the statement asks for the rows of the page only.
FetchedPage(cursor, n) == First(n, Beyond(cursor))

Fetched(cursor, n) == First(n + 1, Beyond(cursor))

\* Mutant: the next cursor is the extra row.
NextCursorExtra(found, n) == IF Cardinality(found) > n THEN LastOf(found) ELSE None

\* Mutant: a full page says that there is more.
NextCursorFull(found, n) ==
    IF Cardinality(found) >= n THEN LastOf(First(n, found)) ELSE None

\* nextCursor is set if and only if there is more.
NextCursor(found, n) ==
    IF Cardinality(found) > n THEN LastOf(First(n, found)) ELSE None

\* Mutant: the two results are swapped.
ReceiveSwapped(r, found, n, cut) ==
    reader' = [reader EXCEPT ![r].more = NextCursor(found, n),
                             ![r].cursor = Cardinality(found) > n]

Receive(r, found, n, cut) ==
    reader' = [reader EXCEPT ![r] =
        [more |-> NextCursor(found, n) # None,
         cursor |-> NextCursor(found, n),
         page |-> First(n, found),
         shown |-> reader[r].shown \cup reader[r].page,
         stay |-> IF reader[r].cursor = None THEN rows ELSE reader[r].stay,
         cut |-> cut]]

Page(r) ==
    /\ reader[r].more
    /\ \E limit \in Limits :
        LET n == Clamp(limit) IN
        Receive(r, Fetched(reader[r].cursor, n), n, FALSE)
    /\ UNCHANGED <<list, rows, last, drawn>>

\* Search reads its rows one at a time and does not ask for the error that
\* has ended them: a broken connection looks like the end of the list.
CutPage(r) ==
    /\ Faults /\ list = "search" /\ reader[r].more
    /\ \E limit \in Limits :
        LET n == Clamp(limit)
            found == Fetched(reader[r].cursor, n)
        IN \E k \in 0 .. Cardinality(found) - 1 :
            Receive(r, First(k, found), n, TRUE)
    /\ UNCHANGED <<list, rows, last, drawn>>

\* The client reads the list anew.
Reload(r) ==
    /\ ~reader[r].more
    /\ reader' = [reader EXCEPT ![r] = Fresh]
    /\ UNCHANGED <<list, rows, last, drawn>>

-----------------------------------------------------------------------------
Next ==
    \/ Draw
    \/ \E i \in Ids : Create(i) \/ CreateFails(i) \/ Appear(i) \/ Vanish(i)
    \/ \E r \in Readers : Page(r) \/ CutPage(r) \/ Reload(r)

Spec == Init /\ [][Next]_vars

\* A client that goes on asking, and is answered sooner or later.
FairSpec == Spec /\ \A r \in Readers : WF_vars(Page(r))

-----------------------------------------------------------------------------
(* Properties.                                                             *)

\* Whatever is sent, committed late or removed between two pages, each page
\* goes on where the one before has ended: no row is shown twice, and none
\* out of the order of the list.
NothingTwice ==
    \A r \in Readers :
        \A i \in reader[r].shown, j \in reader[r].page : Before(i, j)

\* A client that has been told that there is no more has seen every row that
\* was there all the time, unless a broken connection has cut a search short:
\* neither the cursor nor the extra row skips one.
Complete ==
    \A r \in Readers : ~reader[r].more /\ ~reader[r].cut =>
        reader[r].stay \subseteq reader[r].shown \cup reader[r].page

\* A client of a conversation that is told that there is more finds more: no
\* message that a page has promised is gone when it is asked for.
MoreIsThere ==
    \A r \in Readers :
        list = "messages" /\ reader[r].cursor # None =>
            Beyond(reader[r].cursor) # {}

\* A client that goes on asking comes to the end, whatever comes and goes in
\* the meantime: each page that promises more moves his cursor on.
ReachesEnd == \A r \in Readers : []<>~reader[r].more

-----------------------------------------------------------------------------
(* The inductive invariant, proved in PagesProofs.                         *)

\* Messages have identifiers that have been drawn, and nothing else has any.
RowsInv == IF list = "messages" THEN rows \subseteq 1 .. last ELSE drawn = {}

\* A client who has read up to his cursor has got no row beyond it and every
\* row before it that has stayed.
ReaderInv(q) ==
    /\ q.stay \subseteq rows
    /\ \A i \in q.shown, j \in q.page : Before(i, j)
    /\ q.more /\ q.cursor = None => q.shown = {} /\ q.page = {}
    /\ q.cursor # None =>
        /\ \A i \in q.shown \cup q.page : ~Before(q.cursor, i)
        /\ \A i \in q.stay : i \in q.shown \cup q.page \/ Before(q.cursor, i)
    /\ ~q.more /\ ~q.cut => q.stay \subseteq q.shown \cup q.page

IInv ==
    /\ TypeOK
    /\ RowsInv
    /\ \A r \in Readers : ReaderInv(reader[r])
    /\ MoreIsThere
=============================================================================
