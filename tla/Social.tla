------------------------------- MODULE Social -------------------------------
(***************************************************************************)
(* What two users are to each other: the friend service, the block service *)
(* and the creation of conversations, over the PostgreSQL tables friends,  *)
(* blocks and conversations, and the removal of an account, which takes    *)
(* its rows of all three along (ON DELETE CASCADE).  As in Messages, a     *)
(* request is a process cut at its calls to the database, and "pc" is the  *)
(* call that it makes next; a statement or a transaction that has to wait  *)
(* with a row taken is cut there too.                                      *)
(*                                                                         *)
(*   add                        exists, block, upsert                      *)
(*   accept                     find, upsert                               *)
(*   cancel, decline, unfriend  find, delete                               *)
(*   block                      begin, commit (one transaction)            *)
(*   unblock                    unblock                                    *)
(*   open                       pair, get or block, create                 *)
(*   remove                     lock, cascade (one statement)              *)
(***************************************************************************)
EXTENDS FiniteSets, Naturals

CONSTANTS
    Users,      \* accounts at the start; an id is never used again
    Requests,   \* requests that can be in flight at the same time
    Ops,        \* the operations that the clients call
    Faults,     \* may a database call fail, or the server crash?
    None

AllOps == {"add", "accept", "cancel", "decline", "unfriend", "block",
           "unblock", "open", "remove"}

Results == {"ok", "created", "notfound", "forbidden", "conflict", "error"}

ASSUME OpsAssumption == Ops \subseteq AllOps
ASSUME FaultsAssumption == Faults \in BOOLEAN
ASSUME NoneAssumption == None \notin Users \cup Requests \cup AllOps \cup Results

VARIABLES
    friends,    \* the row of a pair of users in table friends
    blocks,     \* the rows <<blocker, blocked>> of table blocks
    convs,      \* the pairs that have a row in table conversations
    accounts,   \* the users that have a row in table users
    lock,       \* the transaction that has a friends row deleted, uncommitted
    going,      \* the DELETE that has a users row deleted, uncommitted
    req,        \* the requests in flight
    agreed,     \* history: who has asked since the pair's row last came to be
    under       \* history: requests under a block all the time so far

tables == <<friends, blocks, convs, accounts>>
locks == <<lock, going>>
history == <<agreed, under>>
vars == <<friends, blocks, convs, accounts, lock, going, req, agreed, under>>

-----------------------------------------------------------------------------
\* canonical(a, b): the order of the two columns stands for the pair.
Pairs == {p \in SUBSET Users : \E a, b \in Users : a # b /\ p = {a, b}}

Friend == [status: {"none", "pending", "accepted"},
           requester: Users \cup {None}]

NoFriend == [status |-> "none", requester |-> None]

PCs == {"idle", "exists", "find", "block", "upsert", "delete", "begin",
        "commit", "unblock", "pair", "get", "create", "lock", "cascade", "done"}

Request == [op: AllOps \cup {None}, pc: PCs, user: Users \cup {None},
            other: Users \cup {None}, res: Results \cup {None}]

Idle == [op |-> None, pc |-> "idle", user |-> None, other |-> None,
         res |-> None]

TypeOK ==
    /\ friends \in [Pairs -> Friend]
    /\ blocks \subseteq Users \X Users
    /\ convs \subseteq Pairs
    /\ accounts \subseteq Users
    /\ lock \in [Pairs -> Requests \cup {None}]
    /\ going \in [Users -> Requests \cup {None}]
    /\ req \in [Requests -> Request]
    /\ agreed \in [Pairs -> SUBSET Users]
    /\ under \subseteq Requests

Init ==
    /\ friends = [p \in Pairs |-> NoFriend]
    /\ blocks = {}
    /\ convs = {}
    /\ accounts = Users
    /\ lock = [p \in Pairs |-> None]
    /\ going = [u \in Users |-> None]
    /\ req = [r \in Requests |-> Idle]
    /\ agreed = [p \in Pairs |-> {}]
    /\ under = {}

At(r, op, pc) == req[r].op = op /\ req[r].pc = pc

Goto(r, pc) == req' = [req EXCEPT ![r].pc = pc]

Answer(r, res) ==
    req' = [req EXCEPT ![r] = [Idle EXCEPT !.op = req[r].op, !.pc = "done",
                                           !.res = res]]

PairOf(r) == {req[r].user, req[r].other}

Row(r) == friends[PairOf(r)]

IsBlockedEitherWay(p) == \E x \in blocks : {x[1], x[2]} = p

Release(r) ==
    /\ lock' = [p \in Pairs |-> IF lock[p] = r THEN None ELSE lock[p]]
    /\ going' = [u \in Users |-> IF going[u] = r THEN None ELSE going[u]]

-----------------------------------------------------------------------------
(* The foreign keys of an INSERT that names the users of p: it waits for a *)
(* DELETE that has one of their rows, and fails if a row is gone.          *)

Settled(p) == \A u \in p : going[u] = None

Exist(p) == p \subseteq accounts

-----------------------------------------------------------------------------
\* The first call of each operation.
Entry(op) ==
    CASE op = "add" -> "exists"
      [] op \in {"accept", "cancel", "decline", "unfriend"} -> "find"
      [] op = "block" -> "begin"
      [] op = "unblock" -> "unblock"
      [] op = "open" -> "pair"
      [] op = "remove" -> "lock"

\* A request of a user about himself is refused before anything is read.
\* The access token of a removed user is taken until it expires.
Call(r) ==
    /\ req[r].pc = "idle"
    /\ \E op \in Ops, u, v \in Users :
        /\ u # v
        /\ req' = [req EXCEPT ![r] = [op |-> op, pc |-> Entry(op), user |-> u,
                                      other |-> v, res |-> None]]
        /\ under' = IF IsBlockedEitherWay({u, v}) THEN under \cup {r} ELSE under
    /\ UNCHANGED <<tables, locks, agreed>>

-----------------------------------------------------------------------------
(* The friend service.  FindByPair is a plain read, and what it shows may  *)
(* be stale when the row is written.  A write waits for a transaction that *)
(* has the row deleted.                                                    *)

AddExists(r) ==
    /\ At(r, "add", "exists")
    /\ \/ req[r].other \notin accounts /\ Answer(r, "notfound")
       \/ req[r].other \in accounts /\ Goto(r, "block")
    /\ UNCHANGED <<tables, locks, history>>

\* Mutant: only the caller's own blocks are looked at.
AddBlockOneWay(r) ==
    /\ At(r, "add", "block")
    /\ \/ <<req[r].user, req[r].other>> \in blocks /\ Answer(r, "forbidden")
       \/ <<req[r].user, req[r].other>> \notin blocks /\ Goto(r, "upsert")
    /\ UNCHANGED <<tables, locks, history>>

AddBlock(r) ==
    /\ At(r, "add", "block")
    /\ \/ IsBlockedEitherWay(PairOf(r)) /\ Answer(r, "forbidden")
       \/ ~IsBlockedEitherWay(PairOf(r)) /\ Goto(r, "upsert")
    /\ UNCHANGED <<tables, locks, history>>

Sent(r) == Row(r).requester = req[r].user

AcceptFind(r) ==
    /\ At(r, "accept", "find")
    /\ \/ Row(r).status = "none" /\ Answer(r, "notfound")
       \/ Row(r).status = "accepted" /\ Answer(r, "conflict")
       \/ Row(r).status = "pending" /\ Sent(r) /\ Answer(r, "forbidden")
       \/ Row(r).status = "pending" /\ ~Sent(r) /\ Goto(r, "upsert")
    /\ UNCHANGED <<tables, locks, history>>

CancelFind(r) ==
    /\ At(r, "cancel", "find")
    /\ \/ Row(r).status = "none" /\ Answer(r, "notfound")
       \/ Row(r).status = "accepted" /\ Answer(r, "conflict")
       \/ Row(r).status = "pending" /\ ~Sent(r) /\ Answer(r, "forbidden")
       \/ Row(r).status = "pending" /\ Sent(r) /\ Goto(r, "delete")
    /\ UNCHANGED <<tables, locks, history>>

DeclineFind(r) ==
    /\ At(r, "decline", "find")
    /\ \/ Row(r).status # "pending" /\ Answer(r, "notfound")
       \/ Row(r).status = "pending" /\ Sent(r) /\ Answer(r, "forbidden")
       \/ Row(r).status = "pending" /\ ~Sent(r) /\ Goto(r, "delete")
    /\ UNCHANGED <<tables, locks, history>>

UnfriendFind(r) ==
    /\ At(r, "unfriend", "find")
    /\ \/ Row(r).status # "accepted" /\ Answer(r, "notfound")
       \/ Row(r).status = "accepted" /\ Goto(r, "delete")
    /\ UNCHANGED <<tables, locks, history>>

Unlocked(p) == lock[p] = None

\* Mutant: the WHERE does not compare the requesters.
MayAcceptOwn(r) == Row(r).status = "pending"

\* UpsertFriend: one statement inserts a pending row, accepts the one that
\* the other user has sent, or returns no row.
MayAccept(r) == Row(r).status = "pending" /\ ~Sent(r)

\* Mutant: the values of the INSERT are swapped.
UpsertSwapped(r) ==
    /\ req[r].pc = "upsert"
    /\ Unlocked(PairOf(r))
    /\ Row(r).status = "none"
    /\ friends' = [friends EXCEPT ![PairOf(r)] =
                [status |-> req[r].user, requester |-> "pending"]]
    /\ Answer(r, "ok")
    /\ UNCHANGED <<blocks, convs, accounts, locks, history>>

Insert(r) ==
    /\ friends' = [friends EXCEPT ![PairOf(r)] =
                [status |-> "pending", requester |-> req[r].user]]
    /\ agreed' = [agreed EXCEPT ![PairOf(r)] = {req[r].user}]
    /\ Answer(r, "ok")

\* Mutant: table friends has no foreign keys; the service has asked for the
\* other user before.
InsertUnkeyed(r) == Row(r).status = "none" /\ Insert(r)

InsertKeyed(r) ==
    /\ Row(r).status = "none"
    /\ Settled(PairOf(r))
    /\ \/ Exist(PairOf(r)) /\ Insert(r)
       \/ ~Exist(PairOf(r)) /\ Answer(r, "error") /\ UNCHANGED <<friends, agreed>>

Upsert(r) ==
    /\ req[r].pc = "upsert"
    /\ Unlocked(PairOf(r))
    /\ \/ InsertKeyed(r)
       \/ /\ MayAccept(r)
          /\ friends' = [friends EXCEPT ![PairOf(r)].status = "accepted"]
          /\ agreed' = [agreed EXCEPT ![PairOf(r)] = @ \cup {req[r].user}]
          /\ Answer(r, "ok")
       \/ /\ Row(r).status # "none" /\ ~MayAccept(r)
          /\ Answer(r, "conflict")
          /\ UNCHANGED <<friends, agreed>>
    /\ UNCHANGED <<blocks, convs, accounts, locks, under>>

\* DeleteByPair deletes the row whatever it says by now.
Delete(r) ==
    /\ req[r].pc = "delete"
    /\ Unlocked(PairOf(r))
    /\ friends' = [friends EXCEPT ![PairOf(r)] = NoFriend]
    /\ agreed' = [agreed EXCEPT ![PairOf(r)] = {}]
    /\ Answer(r, "ok")
    /\ UNCHANGED <<blocks, convs, accounts, locks, under>>

-----------------------------------------------------------------------------
(* The block service.  BlockUserAtomic is one transaction at the default   *)
(* level, READ COMMITTED: its DELETE takes the row that exists at the time *)
(* and shows with the INSERT at the commit.                                *)

BlockBegin(r) ==
    /\ At(r, "block", "begin")
    /\ Unlocked(PairOf(r))
    /\ lock' = IF Row(r).status # "none"
               THEN [lock EXCEPT ![PairOf(r)] = r] ELSE lock
    /\ Goto(r, "commit")
    /\ UNCHANGED <<tables, going, history>>

\* Mutant: the transaction does not delete the friends row.
BlockCommitKeeps(r) ==
    /\ At(r, "block", "commit")
    /\ blocks' = blocks \cup {<<req[r].user, req[r].other>>}
    /\ Answer(r, "ok")
    /\ Release(r)
    /\ UNCHANGED <<friends, convs, accounts, history>>

\* Mutant: a failed INSERT is not rolled back.
BlockCommitHangs(r) ==
    /\ At(r, "block", "commit")
    /\ LET b == <<req[r].user, req[r].other>> IN
        /\ blocks' = blocks \cup {b}
        /\ Answer(r, IF b \in blocks THEN "error" ELSE "ok")
        /\ IF b \in blocks THEN UNCHANGED locks ELSE Release(r)
    /\ UNCHANGED <<friends, convs, accounts, history>>

\* The primary key of blocks refuses a second block, its foreign keys one
\* of a user who is gone, and the deferred Rollback brings the friends row
\* back.  An INSERT that waits for a users row keeps the friends row.
BlockCommit(r) ==
    /\ At(r, "block", "commit")
    /\ LET p == PairOf(r)
           b == <<req[r].user, req[r].other>> IN
        \/ /\ b \in blocks \/ (Settled(p) /\ ~Exist(p))
           /\ Answer(r, "error")
           /\ UNCHANGED <<friends, blocks, agreed>>
        \/ /\ b \notin blocks /\ Settled(p) /\ Exist(p)
           /\ blocks' = blocks \cup {b}
           /\ friends' = IF lock[p] = r
                         THEN [friends EXCEPT ![p] = NoFriend] ELSE friends
           /\ agreed' = IF lock[p] = r THEN [agreed EXCEPT ![p] = {}] ELSE agreed
           /\ Answer(r, "ok")
    /\ Release(r)
    /\ UNCHANGED <<convs, accounts, under>>

\* An answered request has been under a block if it was until its answer.
StillUnder ==
    {q \in under : \/ req[q].pc = "done"
                  \/ \E x \in blocks' : {x[1], x[2]} = PairOf(q)}

Unblock(r) ==
    /\ At(r, "unblock", "unblock")
    /\ blocks' = blocks \ {<<req[r].user, req[r].other>>}
    /\ under' = StillUnder
    /\ Answer(r, "ok")
    /\ UNCHANGED <<friends, convs, accounts, locks, agreed>>

-----------------------------------------------------------------------------
(* CreateConversation.                                                     *)

OpenPair(r) ==
    /\ At(r, "open", "pair")
    /\ Goto(r, IF PairOf(r) \in convs THEN "get" ELSE "block")
    /\ UNCHANGED <<tables, locks, history>>

\* FindByID: the row that FindByPair has found may be gone with an account.
OpenGet(r) ==
    /\ At(r, "open", "get")
    /\ Answer(r, IF PairOf(r) \in convs THEN "ok" ELSE "notfound")
    /\ UNCHANGED <<tables, locks, history>>

OpenBlock(r) ==
    /\ At(r, "open", "block")
    /\ \/ IsBlockedEitherWay(PairOf(r)) /\ Answer(r, "notfound")
       \/ ~IsBlockedEitherWay(PairOf(r)) /\ Goto(r, "create")
    /\ UNCHANGED <<tables, locks, history>>

\* The unique constraint on the pair, without ON CONFLICT, and the foreign
\* keys.
OpenCreate(r) ==
    /\ At(r, "open", "create")
    /\ LET p == PairOf(r) IN
        \/ /\ p \in convs \/ (Settled(p) /\ ~Exist(p))
           /\ Answer(r, "error")
           /\ UNCHANGED convs
        \/ /\ p \notin convs /\ Settled(p) /\ Exist(p)
           /\ Answer(r, "created")
           /\ convs' = convs \cup {p}
    /\ UNCHANGED <<friends, blocks, accounts, locks, history>>

-----------------------------------------------------------------------------
(* DeleteAccount: one DELETE FROM users.  It takes the row, and the        *)
(* cascade then waits for a transaction that has taken one of the rows     *)
(* that go along; with several, it waits for all of them at once here.     *)

RemoveLock(r) ==
    /\ At(r, "remove", "lock")
    /\ LET u == req[r].user IN
        /\ going[u] = None
        /\ \/ /\ u \notin accounts
              /\ Answer(r, "notfound")
              /\ UNCHANGED going
           \/ /\ u \in accounts
              /\ going' = [going EXCEPT ![u] = r]
              /\ Goto(r, "cascade")
    /\ UNCHANGED <<tables, lock, history>>

PairsOf(u) == {p \in Pairs : u \in p}

RemoveCascade(r) ==
    /\ At(r, "remove", "cascade")
    /\ LET u == req[r].user IN
        /\ \A p \in PairsOf(u) : Unlocked(p)
        /\ accounts' = accounts \ {u}
        /\ friends' = [p \in Pairs |-> IF u \in p THEN NoFriend ELSE friends[p]]
        /\ agreed' = [p \in Pairs |-> IF u \in p THEN {} ELSE agreed[p]]
        /\ blocks' = {x \in blocks : u \notin {x[1], x[2]}}
        /\ convs' = convs \ PairsOf(u)
    /\ under' = StillUnder
    /\ Answer(r, "ok")
    /\ Release(r)

\* A block transaction waits for the DELETE of one of its users, and the
\* DELETE for the block transaction that has a friends row of the user.
WaitsFor(r, q) ==
    \/ /\ At(r, "block", "commit")
       /\ <<req[r].user, req[r].other>> \notin blocks
       /\ \E u \in PairOf(r) : going[u] = q
    \/ /\ At(r, "remove", "cascade")
       /\ \E p \in PairsOf(req[r].user) : lock[p] = q

\* PostgreSQL aborts a transaction that it finds in a ring of waiting ones.
DeadlockTimeout(r) ==
    /\ \E R \in SUBSET Requests :
        /\ r \in R
        /\ \A x \in R : (\E y \in R : WaitsFor(x, y)) /\ (\E y \in R : WaitsFor(y, x))
    /\ Answer(r, "error")
    /\ Release(r)
    /\ UNCHANGED <<tables, history>>

-----------------------------------------------------------------------------
Respond(r) ==
    /\ req[r].pc = "done"
    /\ req' = [req EXCEPT ![r] = Idle]
    /\ under' = under \ {r}
    /\ UNCHANGED <<tables, locks, agreed>>

\* A call fails, or the server crashes; an open transaction is rolled back.
\* A DELETE also fails when messages keep the user (messages.sender_id and
\* messages.deleted_by are foreign keys without a cascade).
Abort(r) ==
    /\ Faults
    /\ req[r].pc \notin {"idle", "done"}
    /\ Answer(r, "error")
    /\ Release(r)
    /\ UNCHANGED <<tables, history>>

Handle(r) ==
    \/ AddExists(r) \/ AddBlock(r) \/ AcceptFind(r) \/ CancelFind(r)
    \/ DeclineFind(r) \/ UnfriendFind(r) \/ Upsert(r) \/ Delete(r)
    \/ BlockBegin(r) \/ BlockCommit(r) \/ Unblock(r)
    \/ OpenPair(r) \/ OpenGet(r) \/ OpenBlock(r) \/ OpenCreate(r)
    \/ RemoveLock(r) \/ RemoveCascade(r) \/ DeadlockTimeout(r)

Next == \E r \in Requests : Call(r) \/ Handle(r) \/ Respond(r) \/ Abort(r)

Spec == Init /\ [][Next]_vars

\* Handlers run to their end, and PostgreSQL serves the waiters of a row lock
\* in turn, so that a step which is enabled again and again is taken.
FairSpec == Spec /\ \A r \in Requests : SF_vars(Handle(r))

-----------------------------------------------------------------------------
(* Properties.                                                             *)

\* Two users are friends only if each has asked for it, by AddFriend or by
\* AcceptFriendRequest, since their row last came to be: no sequence of calls
\* by one of them, however they race, makes a friendship (the WHERE of
\* UpsertFriend decides on the row as it is, not on what FindByPair read).
Consent == \A p \in Pairs : friends[p].status = "accepted" => agreed[p] = p

\* While a block is in force from the start of a request to its answer, no
\* friend request is sent and no conversation is created, by either side.
BlockRefuses ==
    \A r \in under :
        /\ req[r].op = "add" => req[r].res # "ok"
        /\ req[r].op = "open" => req[r].res # "created"

\* A friends row that a block transaction has found does not change until the
\* transaction ends, and is gone when the block shows: an accept, a cancel or
\* a second block that comes in between waits.
BlockTakesFriendship ==
    [][\A p \in Pairs : \A r \in Requests : lock[p] = r =>
        IF At(r, "block", "commit") /\ req'[r].res = "ok"
        THEN friends'[p] = NoFriend
        ELSE friends'[p] = friends[p]]_vars

\* An account leaves nothing behind, in whatever order its removal, the
\* checks of other requests and their INSERTs come: a friendship, a request, a
\* block or a conversation that AddFriend, BlockUser or CreateConversation has
\* begun to write before the removal ends with it or is refused.
NobodyLeft ==
    /\ \A p \in Pairs : friends[p].status # "none" => p \subseteq accounts
    /\ \A x \in blocks : {x[1], x[2]} \subseteq accounts
    /\ \A p \in convs : p \subseteq accounts

\* Nobody waits for a row for ever: a transaction that holds one ends, and a
\* block and a removal that wait for each other (the one has the friends row,
\* the other the users row) are parted.
Answered == \A r \in Requests : (req[r].pc # "idle") ~> (req[r].pc = "done")

-----------------------------------------------------------------------------
(* The inductive invariant, proved in SocialProofs.                        *)

\* Who has asked is one of the two, a pending row has asked for its requester,
\* and a row is held only by the block transaction of its own pair.
PairInv(p) ==
    /\ agreed[p] \subseteq p
    /\ friends[p].status = "pending" => friends[p].requester \in agreed[p]
    /\ \A r \in Requests : lock[p] = r => At(r, "block", "commit") /\ PairOf(r) = p

\* A request in flight is about two users and has no result yet; if it has
\* been under a block all the time it has not come past its block check.
RequestInv(r) ==
    /\ req[r].pc \notin {"idle", "done"} => PairOf(r) \in Pairs
    /\ req[r].pc # "done" => req[r].res = None
    /\ r \in under =>
           /\ req[r].pc # "idle"
           /\ req[r].pc # "done" => IsBlockedEitherWay(PairOf(r))
           /\ req[r].op = "add" => req[r].pc \notin {"upsert", "delete"}
           /\ req[r].op = "open" => req[r].pc # "create"

\* The invariant that every step preserves.
IInv ==
    /\ TypeOK
    /\ \A p \in Pairs : PairInv(p)
    /\ \A r \in Requests : RequestInv(r)
    /\ Consent /\ BlockRefuses /\ NobodyLeft
=============================================================================
