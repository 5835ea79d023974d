---------------------------- MODULE SocialProofs ----------------------------
(***************************************************************************)
(* Proofs about module Social, for every number of users and concurrent    *)
(* requests, with or without failures.                                     *)
(***************************************************************************)
EXTENDS Social, TLAPS

\* A request that goes on to its next call.
LEMMA Moves ==
    ASSUME TypeOK, NEW r \in Requests, NEW pc \in PCs, Goto(r, pc)
    PROVE  /\ req' \in [Requests -> Request]
           /\ \A x \in Requests \ {r} : req'[x] = req[x]
           /\ req'[r].pc = pc
           /\ req'[r].op = req[r].op /\ req'[r].res = req[r].res
           /\ PairOf(r)' = PairOf(r)
BY DEF TypeOK, Goto, Request, PairOf

\* A request that is answered.
LEMMA Ends ==
    ASSUME TypeOK, NEW r \in Requests, NEW res \in Results, Answer(r, res)
    PROVE  /\ req' \in [Requests -> Request]
           /\ \A x \in Requests \ {r} : req'[x] = req[x]
           /\ req'[r].pc = "done"
           /\ req'[r].op = req[r].op /\ req'[r].res = res
<1>. DEFINE q == [Idle EXCEPT !.op = req[r].op, !.pc = "done", !.res = res]
<1>1. req[r] \in Request /\ q \in Request
    BY DEF TypeOK, Request, Idle, PCs
<1>2. q.pc = "done" /\ q.op = req[r].op /\ q.res = res
    BY DEF Idle
<1>3. req' = [req EXCEPT ![r] = q]
    BY DEF Answer
<1>. HIDE DEF q
<1>. QED BY <1>1, <1>2, <1>3 DEF TypeOK

\* What the other requests know stays true in a step of r: their pairs, and
\* the block that is in force against those that are still under one.
LEMMA Others ==
    ASSUME IInv, NEW r \in Requests,
           \A x \in Requests \ {r} : req'[x] = req[x],
           \/ under' \subseteq under \cup {r} /\ blocks \subseteq blocks'
           \/ under' = StillUnder
    PROVE  \A x \in Requests \ {r} : RequestInv(x)'
<1>. SUFFICES ASSUME NEW x \in Requests \ {r} PROVE RequestInv(x)'
    OBVIOUS
<1>1. req'[x] = req[x] /\ PairOf(x)' = PairOf(x) /\ RequestInv(x)
    BY DEF PairOf, IInv
<1>2. ASSUME x \in under', req[x].pc # "done"
      PROVE  x \in under /\ IsBlockedEitherWay(PairOf(x))'
  <2>1. x \in under
      BY <1>2 DEF StillUnder
  <2>2. CASE blocks \subseteq blocks'
      BY <1>1, <1>2, <2>1, <2>2 DEF RequestInv, IsBlockedEitherWay
  <2>3. CASE under' = StillUnder
      BY <1>1, <1>2, <2>3 DEF StillUnder, IsBlockedEitherWay
  <2>. QED BY <2>1, <2>2, <2>3
<1>3. x \in under' => x \in under
    BY DEF StillUnder
<1>. QED BY <1>1, <1>2, <1>3 DEF RequestInv

\* The locks of the other requests stay theirs in a step of r.
LEMMA Locks ==
    ASSUME IInv, NEW r \in Requests,
           \A x \in Requests \ {r} : req'[x] = req[x],
           NEW p \in Pairs, lock'[p] # r, lock'[p] \in {lock[p], None}
    PROVE  \A x \in Requests :
               lock'[p] = x => At(x, "block", "commit")' /\ PairOf(x)' = p
<1>. SUFFICES ASSUME NEW x \in Requests, lock'[p] = x
              PROVE  At(x, "block", "commit")' /\ PairOf(x)' = p
    OBVIOUS
<1>1. x # r /\ lock[p] = x
    BY NoneAssumption
<1>. QED BY <1>1 DEF IInv, PairInv, At, PairOf

\* A step that changes no table and no history, and takes no lock.
LEMMA Quiet ==
    ASSUME IInv, NEW r \in Requests, UNCHANGED <<tables, history>>,
           req' \in [Requests -> Request],
           \A x \in Requests \ {r} : req'[x] = req[x],
           lock' \in [Pairs -> Requests \cup {None}],
           going' \in [Users -> Requests \cup {None}],
           \A p \in Pairs : \/ lock[p] # r /\ lock'[p] = lock[p]
                            \/ lock'[p] = None,
           RequestInv(r)',
           req'[r].op = req[r].op,
           r \in under => /\ req[r].op = "add" => req'[r].res # "ok"
                          /\ req[r].op = "open" => req'[r].res # "created"
    PROVE  IInv'
<1>1. TypeOK'
    BY DEF IInv, TypeOK, tables, history
<1>2. ASSUME NEW p \in Pairs PROVE PairInv(p)'
  <2>1. lock'[p] # r /\ lock'[p] \in {lock[p], None}
      BY NoneAssumption
  <2>. QED BY <2>1, Locks DEF IInv, PairInv, tables, history
<1>3. \A x \in Requests : RequestInv(x)'
    BY Others DEF tables, history
<1>4. Consent' /\ NobodyLeft'
    BY DEF IInv, Consent, NobodyLeft, tables, history
<1>5. BlockRefuses'
    BY DEF IInv, TypeOK, BlockRefuses, history
<1>. QED BY <1>1, <1>2, <1>3, <1>4, <1>5 DEF IInv

\* A call that only reads, after which its handler makes another one.
LEMMA GoesOn ==
    ASSUME IInv, NEW r \in Requests, NEW pc \in PCs \ {"idle", "done"},
           Goto(r, pc), UNCHANGED <<tables, locks, history>>,
           req[r].pc \notin {"idle", "done", "commit"},
           r \in under => /\ req[r].op = "add" => pc \notin {"upsert", "delete"}
                          /\ req[r].op = "open" => pc # "create"
    PROVE  IInv'
<1>1. TypeOK /\ RequestInv(r) /\ req[r].res = None
    BY DEF IInv, RequestInv
<1>2. /\ req' \in [Requests -> Request]
      /\ \A x \in Requests \ {r} : req'[x] = req[x]
      /\ req'[r].pc = pc
      /\ req'[r].op = req[r].op /\ req'[r].res = None
      /\ PairOf(r)' = PairOf(r)
    BY <1>1, Moves
<1>3. RequestInv(r)'
    BY <1>1, <1>2 DEF RequestInv, IsBlockedEitherWay, tables, history
<1>4. \A p \in Pairs : lock[p] # r
    BY DEF IInv, PairInv, At
<1>5. r \in under => /\ req[r].op = "add" => req'[r].res # "ok"
                     /\ req[r].op = "open" => req'[r].res # "created"
    BY <1>1, <1>2 DEF IInv, BlockRefuses
<1>. QED
    BY <1>1, <1>2, <1>3, <1>4, <1>5, Quiet DEF TypeOK, locks

\* An answer that changes no table, after which the request holds no lock.
LEMMA Answers ==
    ASSUME IInv, NEW r \in Requests, NEW res \in Results,
           Answer(r, res), UNCHANGED <<tables, history>>,
           (UNCHANGED locks /\ req[r].pc # "commit") \/ Release(r),
           r \in under => /\ req[r].op = "add" => res # "ok"
                          /\ req[r].op = "open" => res # "created",
           req[r].pc # "idle"
    PROVE  IInv'
<1>1. TypeOK
    BY DEF IInv
<1>2. /\ req' \in [Requests -> Request]
      /\ \A x \in Requests \ {r} : req'[x] = req[x]
      /\ req'[r].pc = "done"
      /\ req'[r].op = req[r].op /\ req'[r].res = res
    BY <1>1, Ends
<1>3. RequestInv(r)'
    BY <1>2 DEF RequestInv
<1>4. /\ lock' \in [Pairs -> Requests \cup {None}]
      /\ going' \in [Users -> Requests \cup {None}]
      /\ \A p \in Pairs : \/ lock[p] # r /\ lock'[p] = lock[p]
                          \/ lock'[p] = None
  <2>1. CASE UNCHANGED locks /\ req[r].pc # "commit"
      BY <1>1, <2>1 DEF TypeOK, IInv, PairInv, At, locks
  <2>2. CASE Release(r)
      BY <1>1, <2>2 DEF TypeOK, Release
  <2>. QED BY <2>1, <2>2
<1>. QED BY <1>2, <1>3, <1>4, Quiet

\* The plain reads of the friend service and of CreateConversation.
LEMMA ReadSteps ==
    ASSUME IInv, NEW r \in Requests,
           \/ AddExists(r) \/ AddBlock(r) \/ AcceptFind(r) \/ CancelFind(r)
           \/ DeclineFind(r) \/ UnfriendFind(r)
           \/ OpenPair(r) \/ OpenGet(r) \/ OpenBlock(r)
    PROVE  IInv'
<1>. USE DEF At
<1>1. RequestInv(r)
    BY DEF IInv
<1>2. ASSUME NEW res \in Results \ {"created"}, Answer(r, res),
             UNCHANGED <<tables, locks, history>>,
             req[r].pc \notin {"idle", "commit"}, req[r].op = "add" => res # "ok"
      PROVE  IInv'
    BY <1>2, Answers
<1>3. ASSUME NEW pc \in {"block", "upsert", "delete", "get", "create"},
             Goto(r, pc), UNCHANGED <<tables, locks, history>>,
             req[r].pc \notin {"idle", "done", "commit"},
             r \in under => /\ req[r].op = "add" => pc \notin {"upsert", "delete"}
                            /\ req[r].op = "open" => pc # "create"
      PROVE  IInv'
    BY <1>3, GoesOn DEF PCs
<1>4. CASE AddExists(r)
    BY <1>2, <1>3, <1>4 DEF AddExists, Results
<1>5. CASE AddBlock(r)
    BY <1>1, <1>2, <1>3, <1>5 DEF AddBlock, RequestInv, Results
<1>6. CASE AcceptFind(r)
    BY <1>2, <1>3, <1>6 DEF AcceptFind, Results
<1>7. CASE CancelFind(r)
    BY <1>2, <1>3, <1>7 DEF CancelFind, Results
<1>8. CASE DeclineFind(r)
    BY <1>2, <1>3, <1>8 DEF DeclineFind, Results
<1>9. CASE UnfriendFind(r)
    BY <1>2, <1>3, <1>9 DEF UnfriendFind, Results
<1>10. CASE OpenPair(r)
    BY <1>2, <1>3, <1>10 DEF OpenPair, Results
<1>11. CASE OpenGet(r)
    BY <1>2, <1>3, <1>11 DEF OpenGet, Results
<1>12. CASE OpenBlock(r)
    BY <1>1, <1>2, <1>3, <1>12 DEF OpenBlock, RequestInv, Results
<1>. QED BY <1>4, <1>5, <1>6, <1>7, <1>8, <1>9, <1>10, <1>11, <1>12

\* A request comes in: it is about two users, and under the block that is in
\* force against them.
LEMMA CallStep ==
    ASSUME IInv, NEW r \in Requests, Call(r) PROVE IInv'
<1>1. PICK op \in Ops, u \in Users, v \in Users :
        /\ u # v
        /\ req' = [req EXCEPT ![r] = [op |-> op, pc |-> Entry(op), user |-> u,
                                      other |-> v, res |-> None]]
        /\ under' = IF IsBlockedEitherWay({u, v}) THEN under \cup {r} ELSE under
    BY DEF Call
<1>2. /\ TypeOK /\ UNCHANGED <<tables, locks, agreed>>
      /\ req[r].pc = "idle" /\ r \notin under
    BY DEF IInv, Call, RequestInv
<1>. DEFINE q == [op |-> op, pc |-> Entry(op), user |-> u, other |-> v,
                  res |-> None]
<1>3. Entry(op) \in PCs \ {"idle", "done", "upsert", "delete", "create"}
    BY OpsAssumption DEF Entry, AllOps, PCs
<1>4. q \in Request
    BY <1>3, OpsAssumption DEF Request
<1>5. /\ req' \in [Requests -> Request] /\ req'[r] = q
      /\ \A x \in Requests \ {r} : req'[x] = req[x]
    BY <1>1, <1>2, <1>4 DEF TypeOK
<1>6. TypeOK'
    BY <1>1, <1>2, <1>5 DEF TypeOK, tables, locks
<1>7. PairOf(r)' = {u, v} /\ {u, v} \in Pairs
    BY <1>1, <1>5 DEF PairOf, Pairs
<1>8. \A x \in Requests : RequestInv(x)'
  <2>1. RequestInv(r)'
      BY <1>1, <1>2, <1>3, <1>5, <1>7
      DEF RequestInv, IsBlockedEitherWay, tables
  <2>2. under' \subseteq under \cup {r} /\ blocks \subseteq blocks'
      BY <1>1, <1>2 DEF tables
  <2>. QED BY <1>5, <2>1, <2>2, Others
<1>9. ASSUME NEW p \in Pairs PROVE PairInv(p)'
  <2>1. lock[p] # r
      BY <1>2 DEF IInv, PairInv, At
  <2>. QED BY <1>2, <1>5, <2>1, Locks DEF IInv, PairInv, tables, locks
<1>10. Consent' /\ NobodyLeft'
    BY <1>2 DEF IInv, Consent, NobodyLeft, tables
<1>11. BlockRefuses'
    BY <1>1, <1>2, <1>5, NoneAssumption DEF IInv, TypeOK, BlockRefuses, Results
<1>. QED BY <1>6, <1>8, <1>9, <1>10, <1>11 DEF IInv

\* An answered request is forgotten, with what it has been under.
LEMMA RespondStep ==
    ASSUME IInv, NEW r \in Requests, Respond(r) PROVE IInv'
<1>1. /\ TypeOK /\ UNCHANGED <<tables, locks, agreed>>
      /\ req[r].pc = "done" /\ under' = under \ {r}
      /\ req' = [req EXCEPT ![r] = Idle]
    BY DEF IInv, Respond
<1>2. Idle \in Request /\ Idle.pc = "idle" /\ Idle.res = None
    BY DEF Idle, Request, PCs
<1>3. /\ req' \in [Requests -> Request] /\ req'[r] = Idle
      /\ \A x \in Requests \ {r} : req'[x] = req[x]
    BY <1>1, <1>2 DEF TypeOK
<1>4. TypeOK'
    BY <1>1, <1>3 DEF TypeOK, tables, locks
<1>5. \A x \in Requests : RequestInv(x)'
  <2>1. RequestInv(r)'
      BY <1>1, <1>2, <1>3 DEF RequestInv
  <2>. QED BY <1>1, <1>3, <2>1, Others DEF tables
<1>6. ASSUME NEW p \in Pairs PROVE PairInv(p)'
  <2>1. lock[p] # r
      BY <1>1 DEF IInv, PairInv, At
  <2>. QED BY <1>1, <1>3, <2>1, Locks DEF IInv, PairInv, tables, locks
<1>7. Consent' /\ NobodyLeft' /\ BlockRefuses'
    BY <1>1, <1>3 DEF IInv, TypeOK, Consent, NobodyLeft, BlockRefuses, tables
<1>. QED BY <1>4, <1>5, <1>6, <1>7 DEF IInv

\* A write of the row of the request's own pair, which nobody has deleted:
\* what it leaves there must be agreed on and between accounts.
LEMMA RowWritten ==
    ASSUME IInv, NEW r \in Requests, NEW res \in Results, Answer(r, res),
           UNCHANGED <<blocks, convs, accounts, locks, under>>,
           req[r].pc \notin {"idle", "done", "commit"},
           NEW row \in Friend, NEW asked \in SUBSET PairOf(r),
           friends' = [friends EXCEPT ![PairOf(r)] = row],
           agreed' = [agreed EXCEPT ![PairOf(r)] = asked],
           row.status = "pending" => row.requester \in asked,
           row.status = "accepted" => asked = PairOf(r),
           row.status # "none" => PairOf(r) \subseteq accounts,
           r \in under => req[r].op # "add", res # "created"
    PROVE  IInv'
<1>1. TypeOK /\ RequestInv(r) /\ PairOf(r) \in Pairs
    BY DEF IInv, RequestInv
<1>2. /\ req' \in [Requests -> Request]
      /\ \A x \in Requests \ {r} : req'[x] = req[x]
      /\ req'[r].pc = "done"
      /\ req'[r].op = req[r].op /\ req'[r].res = res
    BY <1>1, Ends
<1>3. TypeOK'
  <2>1. asked \subseteq Users
      BY <1>1 DEF Pairs
  <2>2. friends' \in [Pairs -> Friend] /\ agreed' \in [Pairs -> SUBSET Users]
      BY <1>1, <2>1 DEF TypeOK
  <2>. QED BY <1>1, <1>2, <2>2 DEF TypeOK, locks
<1>4. \A x \in Requests : RequestInv(x)'
  <2>1. RequestInv(r)'
      BY <1>2, <1>1 DEF RequestInv
  <2>. QED BY <1>2, <2>1, Others
<1>5. ASSUME NEW p \in Pairs PROVE PairInv(p)'
  <2>1. lock[p] # r
      BY DEF IInv, PairInv, At
  <2>2. \A x \in Requests :
            lock'[p] = x => At(x, "block", "commit")' /\ PairOf(x)' = p
      BY <1>2, <2>1, Locks DEF locks
  <2>3. CASE p = PairOf(r)
      BY <1>1, <2>2, <2>3 DEF PairInv, TypeOK
  <2>4. CASE p # PairOf(r)
      BY <1>1, <2>2, <2>4 DEF IInv, PairInv, TypeOK
  <2>. QED BY <2>3, <2>4
<1>6. Consent' /\ NobodyLeft'
    BY <1>1 DEF IInv, Consent, NobodyLeft, TypeOK
<1>7. BlockRefuses'
    BY <1>1, <1>2 DEF IInv, BlockRefuses, TypeOK
<1>. QED BY <1>3, <1>4, <1>5, <1>6, <1>7 DEF IInv

\* UpsertFriend accepts only what the other user has asked for, and inserts
\* only between accounts.
LEMMA UpsertStep ==
    ASSUME IInv, NEW r \in Requests, Upsert(r) PROVE IInv'
<1>. DEFINE p == PairOf(r)
<1>1. /\ TypeOK /\ RequestInv(r) /\ p \in Pairs
      /\ req[r].pc = "upsert" /\ PairInv(p) /\ Row(r) \in Friend
      /\ UNCHANGED <<blocks, convs, accounts, locks, under>>
    BY DEF IInv, TypeOK, RequestInv, Upsert, Row
<1>2. req[r].user \in p /\ req[r].user \in Users
    BY <1>1 DEF Pairs, PairOf
<1>3. r \in under => req[r].op # "add"
    BY <1>1 DEF RequestInv
<1>4. CASE InsertKeyed(r) /\ Insert(r) /\ Exist(p)
  <2>. DEFINE row == [status |-> "pending", requester |-> req[r].user]
  <2>1. row \in Friend /\ {req[r].user} \in SUBSET PairOf(r)
      BY <1>2 DEF Friend
  <2>. QED BY <1>1, <1>3, <1>4, <2>1, RowWritten DEF Insert, Exist, Results
<1>5. CASE /\ MayAccept(r)
           /\ friends' = [friends EXCEPT ![p].status = "accepted"]
           /\ agreed' = [agreed EXCEPT ![p] = @ \cup {req[r].user}]
           /\ Answer(r, "ok")
  <2>. DEFINE row == [Row(r) EXCEPT !.status = "accepted"]
              asked == agreed[p] \cup {req[r].user}
  <2>1. row \in Friend /\ row.status = "accepted"
      BY <1>1 DEF Friend
  <2>2. asked = PairOf(r)
      BY <1>1, <1>2, <1>5 DEF PairInv, MayAccept, Sent, Row, PairOf, Pairs
  <2>3. PairOf(r) \subseteq accounts
      BY <1>1, <1>5 DEF MayAccept, Row, IInv, NobodyLeft
  <2>4. /\ friends' = [friends EXCEPT ![PairOf(r)] = row]
        /\ agreed' = [agreed EXCEPT ![PairOf(r)] = asked]
      BY <1>1, <1>5 DEF TypeOK, Row
  <2>. HIDE DEF row, asked
  <2>. QED BY <1>1, <1>3, <1>5, <2>1, <2>2, <2>3, <2>4, RowWritten DEF Results
<1>6. CASE \E res \in {"error", "conflict"} :
               Answer(r, res) /\ UNCHANGED <<friends, agreed>>
    BY <1>1, <1>6, Answers DEF Results, tables, history
<1>. QED BY <1>4, <1>5, <1>6 DEF Upsert, InsertKeyed

\* DeleteByPair.
LEMMA DeleteStep ==
    ASSUME IInv, NEW r \in Requests, Delete(r) PROVE IInv'
<1>1. RequestInv(r)
    BY DEF IInv
<1>2. NoFriend \in Friend /\ NoFriend.status = "none" /\ {} \in SUBSET PairOf(r)
    BY DEF NoFriend, Friend
<1>. QED BY <1>1, <1>2, RowWritten DEF Delete, RequestInv, Results

\* The first half of the block transaction: it may take the friends row.
LEMMA BlockBeginStep ==
    ASSUME IInv, NEW r \in Requests, BlockBegin(r) PROVE IInv'
<1>1. /\ TypeOK /\ RequestInv(r) /\ At(r, "block", "begin")
      /\ Unlocked(PairOf(r)) /\ Goto(r, "commit")
      /\ UNCHANGED <<tables, going, history>>
    BY DEF IInv, BlockBegin
<1>2. /\ req' \in [Requests -> Request]
      /\ \A x \in Requests \ {r} : req'[x] = req[x]
      /\ req'[r].pc = "commit" /\ PairOf(r)' = PairOf(r)
      /\ req'[r].op = "block" /\ req'[r].res = req[r].res
    BY <1>1, Moves DEF PCs, At
<1>3. TypeOK'
    BY <1>1, <1>2 DEF TypeOK, BlockBegin, tables, history
<1>4. \A x \in Requests : RequestInv(x)'
  <2>1. RequestInv(r)'
      BY <1>1, <1>2
      DEF RequestInv, At, IsBlockedEitherWay, tables, history
  <2>. QED BY <1>1, <1>2, <2>1, Others DEF tables, history
<1>5. ASSUME NEW p \in Pairs PROVE PairInv(p)'
  <2>1. lock[p] # r
      BY <1>1 DEF IInv, PairInv, At
  <2>2. CASE lock'[p] = lock[p]
      BY <1>1, <1>2, <2>1, <2>2, Locks DEF IInv, PairInv, tables, history
  <2>3. CASE lock'[p] # lock[p]
    <3>1. p = PairOf(r) /\ lock'[p] = r
        BY <1>1, <2>3 DEF BlockBegin, TypeOK
    <3>. QED BY <1>1, <1>2, <3>1 DEF IInv, PairInv, At, tables, history
  <2>. QED BY <2>2, <2>3
<1>6. Consent' /\ NobodyLeft' /\ BlockRefuses'
    BY <1>1, <1>2
    DEF IInv, TypeOK, Consent, NobodyLeft, BlockRefuses, tables, history
<1>. QED BY <1>3, <1>4, <1>5, <1>6 DEF IInv

\* A lock that is released is no one's.
LEMMA Releases ==
    ASSUME IInv, NEW r \in Requests, Release(r)
    PROVE  /\ lock' \in [Pairs -> Requests \cup {None}]
           /\ going' \in [Users -> Requests \cup {None}]
           /\ \A p \in Pairs : lock'[p] # r /\ lock'[p] \in {lock[p], None}
BY NoneAssumption DEF IInv, TypeOK, Release

\* The second half: the block shows, and the friends row is gone with it.
LEMMA BlockCommitStep ==
    ASSUME IInv, NEW r \in Requests, BlockCommit(r) PROVE IInv'
<1>. DEFINE p == PairOf(r)
            b == <<req[r].user, req[r].other>>
<1>1. /\ TypeOK /\ RequestInv(r) /\ At(r, "block", "commit")
      /\ UNCHANGED <<convs, accounts, under>> /\ Release(r) /\ p \in Pairs
    BY DEF IInv, BlockCommit, At, RequestInv
<1>2. CASE Answer(r, "error") /\ UNCHANGED <<friends, blocks, agreed>>
    BY <1>1, <1>2, Answers DEF At, Results, tables, history
<1>3. CASE /\ Answer(r, "ok") /\ Exist(p)
           /\ blocks' = blocks \cup {b}
           /\ friends' = IF lock[p] = r
                         THEN [friends EXCEPT ![p] = NoFriend] ELSE friends
           /\ agreed' = IF lock[p] = r THEN [agreed EXCEPT ![p] = {}] ELSE agreed
  <2>1. /\ req' \in [Requests -> Request]
        /\ \A x \in Requests \ {r} : req'[x] = req[x]
        /\ req'[r].pc = "done"
        /\ req'[r].op = "block" /\ req'[r].res = "ok"
      BY <1>1, <1>3, Ends DEF At, Results
  <2>2. NoFriend \in Friend /\ NoFriend.status = "none"
      BY DEF NoFriend, Friend
  <2>3. req[r].user \in Users /\ req[r].other \in Users
      BY <1>1 DEF PairOf, Pairs
  <2>4. TypeOK'
      BY <1>1, <1>3, <2>1, <2>2, <2>3, Releases DEF TypeOK
  <2>5. \A x \in Requests : RequestInv(x)'
    <3>1. RequestInv(r)'
        BY <2>1 DEF RequestInv
    <3>. QED BY <1>1, <1>3, <2>1, <3>1, Others
  <2>6. ASSUME NEW o \in Pairs PROVE PairInv(o)'
    <3>1. \/ friends'[o] = friends[o] /\ agreed'[o] = agreed[o]
          \/ friends'[o] = NoFriend /\ agreed'[o] = {}
        BY <1>1, <1>3 DEF TypeOK
    <3>2. \A x \in Requests :
              lock'[o] = x => At(x, "block", "commit")' /\ PairOf(x)' = o
        BY <1>1, <2>1, Releases, Locks
    <3>. QED BY <2>2, <3>1, <3>2 DEF IInv, PairInv
  <2>7. Consent'
      BY <1>1, <1>3, <2>2 DEF IInv, Consent, TypeOK
  <2>8. NobodyLeft'
    <3>1. {b[1], b[2]} \subseteq accounts
        BY <1>3 DEF Exist, PairOf
    <3>. QED BY <1>1, <1>3, <2>2, <3>1 DEF IInv, NobodyLeft, TypeOK
  <2>9. BlockRefuses'
      BY <1>1, <2>1 DEF IInv, BlockRefuses, TypeOK
  <2>. QED BY <2>4, <2>5, <2>6, <2>7, <2>8, <2>9 DEF IInv
<1>. QED BY <1>2, <1>3 DEF BlockCommit

\* A block that is taken back releases the requests that were under it alone.
LEMMA UnblockStep ==
    ASSUME IInv, NEW r \in Requests, Unblock(r) PROVE IInv'
<1>1. /\ TypeOK /\ At(r, "unblock", "unblock") /\ Answer(r, "ok")
      /\ UNCHANGED <<friends, convs, accounts, locks, agreed>>
      /\ blocks' \subseteq blocks /\ under' = StillUnder /\ under' \subseteq under
    BY DEF IInv, Unblock, StillUnder
<1>2. /\ req' \in [Requests -> Request]
      /\ \A x \in Requests \ {r} : req'[x] = req[x]
      /\ req'[r].pc = "done" /\ req'[r].op = "unblock"
    BY <1>1, Ends DEF At, Results
<1>3. TypeOK'
    BY <1>1, <1>2 DEF TypeOK, locks
<1>4. \A x \in Requests : RequestInv(x)'
  <2>1. RequestInv(r)'
      BY <1>2 DEF RequestInv
  <2>. QED BY <1>1, <1>2, <2>1, Others
<1>5. ASSUME NEW p \in Pairs PROVE PairInv(p)'
  <2>1. lock[p] # r
      BY <1>1 DEF IInv, PairInv, At
  <2>. QED BY <1>1, <1>2, <2>1, Locks DEF IInv, PairInv, locks
<1>6. Consent' /\ NobodyLeft' /\ BlockRefuses'
    BY <1>1, <1>2 DEF IInv, TypeOK, Consent, NobodyLeft, BlockRefuses
<1>. QED BY <1>3, <1>4, <1>5, <1>6 DEF IInv

\* A conversation is created between accounts, and not under a block.
LEMMA OpenCreateStep ==
    ASSUME IInv, NEW r \in Requests, OpenCreate(r) PROVE IInv'
<1>1. /\ TypeOK /\ RequestInv(r) /\ At(r, "open", "create") /\ r \notin under
      /\ UNCHANGED <<friends, blocks, accounts, locks, history>>
    BY DEF IInv, OpenCreate, RequestInv, At
<1>2. CASE Answer(r, "error") /\ UNCHANGED convs
    BY <1>1, <1>2, Answers DEF At, Results, tables
<1>3. CASE /\ Answer(r, "created") /\ Exist(PairOf(r))
           /\ convs' = convs \cup {PairOf(r)}
  <2>1. /\ req' \in [Requests -> Request]
        /\ \A x \in Requests \ {r} : req'[x] = req[x]
        /\ req'[r].pc = "done"
      BY <1>1, <1>3, Ends DEF Results
  <2>2. PairOf(r) \in Pairs
      BY <1>1 DEF RequestInv, At
  <2>3. TypeOK'
      BY <1>1, <1>3, <2>1, <2>2 DEF TypeOK, locks, history
  <2>4. \A x \in Requests : RequestInv(x)'
    <3>1. RequestInv(r)'
        BY <2>1 DEF RequestInv
    <3>. QED BY <1>1, <2>1, <3>1, Others DEF history
  <2>5. ASSUME NEW p \in Pairs PROVE PairInv(p)'
    <3>1. lock[p] # r
        BY <1>1 DEF IInv, PairInv, At
    <3>. QED BY <1>1, <2>1, <3>1, Locks DEF IInv, PairInv, locks, history
  <2>6. Consent' /\ NobodyLeft' /\ BlockRefuses'
      BY <1>1, <1>3, <2>1
      DEF IInv, TypeOK, Consent, NobodyLeft, BlockRefuses, Exist, history
  <2>. QED BY <2>3, <2>4, <2>5, <2>6 DEF IInv
<1>. QED BY <1>2, <1>3 DEF OpenCreate

\* The DELETE of an account: its row is taken first.
LEMMA RemoveLockStep ==
    ASSUME IInv, NEW r \in Requests, RemoveLock(r) PROVE IInv'
<1>1. /\ TypeOK /\ RequestInv(r) /\ At(r, "remove", "lock")
      /\ UNCHANGED <<tables, lock, history>>
    BY DEF IInv, RemoveLock
<1>2. CASE Answer(r, "notfound") /\ UNCHANGED going
    BY <1>1, <1>2, Answers DEF At, Results, locks
<1>3. CASE /\ Goto(r, "cascade")
           /\ going' = [going EXCEPT ![req[r].user] = r]
  <2>1. /\ req' \in [Requests -> Request]
        /\ \A x \in Requests \ {r} : req'[x] = req[x]
        /\ req'[r].pc = "cascade" /\ PairOf(r)' = PairOf(r)
        /\ req'[r].op = "remove" /\ req'[r].res = req[r].res
      BY <1>1, <1>3, Moves DEF PCs, At
  <2>2. RequestInv(r)'
      BY <1>1, <2>1 DEF RequestInv, At, IsBlockedEitherWay, tables, history
  <2>3. \A p \in Pairs : lock[p] # r
      BY <1>1 DEF IInv, PairInv, At
  <2>. QED BY <1>1, <1>3, <2>1, <2>2, <2>3, Quiet DEF TypeOK, At
<1>. QED BY <1>2, <1>3 DEF RemoveLock

\* Its rows of the other tables go with it, those under a lock not excepted.
LEMMA RemoveCascadeStep ==
    ASSUME IInv, NEW r \in Requests, RemoveCascade(r) PROVE IInv'
<1>. DEFINE u == req[r].user
<1>1. /\ TypeOK /\ At(r, "remove", "cascade") /\ Answer(r, "ok") /\ Release(r)
      /\ accounts' = accounts \ {u}
      /\ friends' = [p \in Pairs |-> IF u \in p THEN NoFriend ELSE friends[p]]
      /\ agreed' = [p \in Pairs |-> IF u \in p THEN {} ELSE agreed[p]]
      /\ blocks' = {x \in blocks : u \notin {x[1], x[2]}}
      /\ convs' = convs \ PairsOf(u)
      /\ under' = StillUnder /\ under' \subseteq under
    BY DEF IInv, RemoveCascade, StillUnder
<1>2. /\ req' \in [Requests -> Request]
      /\ \A x \in Requests \ {r} : req'[x] = req[x]
      /\ req'[r].pc = "done" /\ req'[r].op = "remove"
    BY <1>1, Ends DEF At, Results
<1>3. NoFriend \in Friend /\ NoFriend.status = "none"
    BY DEF NoFriend, Friend
<1>4. TypeOK'
    BY <1>1, <1>2, <1>3, Releases DEF TypeOK
<1>5. \A x \in Requests : RequestInv(x)'
  <2>1. RequestInv(r)'
      BY <1>2 DEF RequestInv
  <2>. QED BY <1>1, <1>2, <2>1, Others
<1>6. ASSUME NEW p \in Pairs PROVE PairInv(p)'
  <2>1. \/ friends'[p] = friends[p] /\ agreed'[p] = agreed[p]
        \/ friends'[p] = NoFriend /\ agreed'[p] = {}
      BY <1>1
  <2>2. \A x \in Requests :
            lock'[p] = x => At(x, "block", "commit")' /\ PairOf(x)' = p
      BY <1>1, <1>2, Releases, Locks
  <2>. QED BY <1>3, <2>1, <2>2 DEF IInv, PairInv
<1>7. Consent'
    BY <1>1, <1>3 DEF IInv, Consent
<1>8. NobodyLeft'
    BY <1>1, <1>3 DEF IInv, NobodyLeft, TypeOK, PairsOf
<1>9. BlockRefuses'
    BY <1>1, <1>2 DEF IInv, BlockRefuses, TypeOK
<1>. QED BY <1>4, <1>5, <1>6, <1>7, <1>8, <1>9 DEF IInv

-----------------------------------------------------------------------------
\* The invariant holds at first.
LEMMA InitIInv == Init => IInv
<1>. SUFFICES ASSUME Init PROVE IInv
    OBVIOUS
<1>1. /\ Idle \in Request /\ Idle.pc = "idle" /\ Idle.res = None
      /\ NoFriend \in Friend /\ NoFriend.status = "none"
    BY DEF Idle, Request, PCs, NoFriend, Friend
<1>2. TypeOK
    BY <1>1 DEF Init, TypeOK
<1>3. ASSUME NEW p \in Pairs PROVE PairInv(p)
    BY <1>1, NoneAssumption DEF Init, PairInv
<1>4. ASSUME NEW r \in Requests PROVE RequestInv(r)
    BY <1>1 DEF Init, RequestInv
<1>5. Consent /\ BlockRefuses /\ NobodyLeft
    BY <1>1 DEF Init, Consent, BlockRefuses, NobodyLeft
<1>. QED BY <1>2, <1>3, <1>4, <1>5 DEF IInv

\* Every step preserves the invariant.
THEOREM Inductive == IInv /\ [Next]_vars => IInv'
<1>. SUFFICES ASSUME IInv, [Next]_vars PROVE IInv'
    OBVIOUS
<1>1. ASSUME NEW r \in Requests, Handle(r) PROVE IInv'
  <2>1. CASE DeadlockTimeout(r)
    <3>1. \E y \in Requests : WaitsFor(r, y)
        BY <2>1 DEF DeadlockTimeout
    <3>2. req[r].pc # "idle" /\ req[r].op \notin {"add", "open"}
        BY <3>1 DEF WaitsFor, At
    <3>. QED BY <2>1, <3>2, Answers DEF DeadlockTimeout, Results
  <2>. QED
      BY <1>1, <2>1, ReadSteps, UpsertStep, DeleteStep, BlockBeginStep,
         BlockCommitStep, UnblockStep, OpenCreateStep, RemoveLockStep,
         RemoveCascadeStep
      DEF Handle
<1>2. ASSUME NEW r \in Requests, Abort(r) PROVE IInv'
    BY <1>2, Answers DEF Abort, Results
<1>3. CASE UNCHANGED vars
    BY <1>3
    DEF vars, IInv, TypeOK, PairInv, RequestInv, Consent, BlockRefuses, NobodyLeft,
        At, PairOf, IsBlockedEitherWay
<1>. QED BY <1>1, <1>2, <1>3, CallStep, RespondStep DEF Next

\* The inductive invariant holds in every reachable state.
THEOREM Invariance == Spec => []IInv
<1>. QED BY InitIInv, Inductive, PTL DEF Spec

\* The tables, the locks and the requests have their types in every
\* reachable state.
THEOREM TypeCorrect == Spec => []TypeOK
<1>1. IInv => TypeOK
    BY DEF IInv
<1>. QED BY <1>1, Invariance, PTL

\* No sequence of calls of one user, however they race with those of others,
\* makes a friendship: UpsertFriend accepts only what the other has asked for.
THEOREM FriendshipNeedsBoth == Spec => []Consent
<1>1. IInv => Consent
    BY DEF IInv
<1>. QED BY <1>1, Invariance, PTL

\* A request under a block from its start to its answer sends no friend
\* request and creates no conversation.
THEOREM BlocksRefuse == Spec => []BlockRefuses
<1>1. IInv => BlockRefuses
    BY DEF IInv
<1>. QED BY <1>1, Invariance, PTL

\* The removal of an account leaves no row that names it in friends, blocks
\* and conversations, whatever was about to be written at the time.
THEOREM NothingLeft == Spec => []NobodyLeft
<1>1. IInv => NobodyLeft
    BY DEF IInv
<1>. QED BY <1>1, Invariance, PTL

\* A step is one request's.
LEMMA OneAtATime ==
    ASSUME TypeOK, NEW x \in Requests, NEW r \in Requests \ {x},
           Call(x) \/ Handle(x) \/ Respond(x) \/ Abort(x)
    PROVE  req'[r] = req[r]
<1>. USE DEF TypeOK, Goto, Answer
<1>1. CASE Call(x) BY <1>1 DEF Call
<1>2. CASE Respond(x) BY <1>2 DEF Respond
<1>3. CASE Abort(x) BY <1>3 DEF Abort
<1>4. CASE AddExists(x) \/ AddBlock(x) BY <1>4 DEF AddExists, AddBlock
<1>5. CASE \/ AcceptFind(x) \/ CancelFind(x) \/ DeclineFind(x) \/ UnfriendFind(x)
    BY <1>5 DEF AcceptFind, CancelFind, DeclineFind, UnfriendFind
<1>6. CASE Upsert(x) \/ Delete(x)
    BY <1>6 DEF Upsert, InsertKeyed, Insert, Delete
<1>7. CASE BlockBegin(x) \/ BlockCommit(x) \/ Unblock(x)
    BY <1>7 DEF BlockBegin, BlockCommit, Unblock
<1>8. CASE OpenPair(x) \/ OpenGet(x) \/ OpenBlock(x) \/ OpenCreate(x)
    BY <1>8 DEF OpenPair, OpenGet, OpenBlock, OpenCreate
<1>9. CASE RemoveLock(x) \/ RemoveCascade(x) \/ DeadlockTimeout(x)
    BY <1>9 DEF RemoveLock, RemoveCascade, DeadlockTimeout
<1>. QED
    BY <1>1, <1>2, <1>3, <1>4, <1>5, <1>6, <1>7, <1>8, <1>9 DEF Handle

\* A row that a transaction holds changes by that transaction alone.
LEMMA HeldRow ==
    ASSUME IInv, NEW x \in Requests, NEW p \in Pairs, lock[p] \notin {x, None},
           Call(x) \/ Handle(x) \/ Respond(x) \/ Abort(x)
    PROVE  friends'[p] = friends[p]
<1>1. TypeOK /\ ~Unlocked(p)
    BY DEF IInv, Unlocked
<1>2. CASE Upsert(x) \/ Delete(x)
    BY <1>1, <1>2 DEF Upsert, InsertKeyed, Insert, Delete, TypeOK
<1>3. CASE BlockCommit(x)
    BY <1>1, <1>3 DEF BlockCommit, TypeOK
<1>4. CASE RemoveCascade(x)
    BY <1>1, <1>4 DEF RemoveCascade, PairsOf
<1>5. CASE \/ Call(x) \/ Respond(x) \/ Abort(x) \/ DeadlockTimeout(x)
           \/ BlockBegin(x) \/ Unblock(x) \/ RemoveLock(x)
    BY <1>5
    DEF Call, Respond, Abort, DeadlockTimeout, BlockBegin, Unblock, RemoveLock,
        tables
<1>6. CASE \/ AddExists(x) \/ AddBlock(x) \/ AcceptFind(x) \/ CancelFind(x)
           \/ DeclineFind(x) \/ UnfriendFind(x)
    BY <1>6 DEF AddExists, AddBlock, AcceptFind, CancelFind, DeclineFind,
                UnfriendFind, tables
<1>7. CASE OpenPair(x) \/ OpenGet(x) \/ OpenBlock(x) \/ OpenCreate(x)
    BY <1>7 DEF OpenPair, OpenGet, OpenBlock, OpenCreate, tables
<1>. QED BY <1>2, <1>3, <1>4, <1>5, <1>6, <1>7 DEF Handle

\* A friends row that a block transaction has found stays as it is until the
\* transaction ends, and is gone if it ends well: the other writers wait.
THEOREM BlockEndsFriendship == Spec => BlockTakesFriendship
<1>1. IInv /\ [Next]_vars =>
        [\A p \in Pairs : \A r \in Requests : lock[p] = r =>
            IF At(r, "block", "commit") /\ req'[r].res = "ok"
            THEN friends'[p] = NoFriend
            ELSE friends'[p] = friends[p]]_vars
  <2>. SUFFICES ASSUME IInv, Next, NEW p \in Pairs, NEW r \in Requests,
                       lock[p] = r
                PROVE  IF At(r, "block", "commit") /\ req'[r].res = "ok"
                       THEN friends'[p] = NoFriend
                       ELSE friends'[p] = friends[p]
      BY DEF vars
  <2>1. /\ TypeOK /\ At(r, "block", "commit") /\ PairOf(r) = p
        /\ req[r].res = None /\ None \notin Requests /\ None # "ok"
      BY NoneAssumption DEF IInv, PairInv, RequestInv, At, Results
  <2>2. PICK x \in Requests : Call(x) \/ Handle(x) \/ Respond(x) \/ Abort(x)
      BY DEF Next
  <2>3. CASE x # r
      BY <2>1, <2>2, <2>3, OneAtATime, HeldRow
  <2>4. CASE x = r /\ BlockCommit(r)
    <3>1. CASE Answer(r, "error") /\ UNCHANGED <<friends, blocks, agreed>>
        BY <2>1, <3>1, Ends DEF Results
    <3>2. CASE /\ Answer(r, "ok")
               /\ friends' = [friends EXCEPT ![p] = NoFriend]
        BY <2>1, <3>2, Ends DEF Results, TypeOK
    <3>. QED BY <2>1, <2>4, <3>1, <3>2 DEF BlockCommit
  <2>5. CASE x = r /\ (Abort(r) \/ DeadlockTimeout(r))
      BY <2>1, <2>5, Ends DEF Abort, DeadlockTimeout, Results, tables
  <2>6. x = r => BlockCommit(r) \/ Abort(r) \/ DeadlockTimeout(r)
      BY <2>1, <2>2
      DEF At, Call, Respond, Handle, AddExists, AddBlock, AcceptFind, CancelFind,
          DeclineFind, UnfriendFind, Upsert, Delete, BlockBegin, Unblock,
          OpenPair, OpenGet, OpenBlock, OpenCreate, RemoveLock, RemoveCascade
  <2>. QED BY <2>3, <2>4, <2>5, <2>6
<1>. QED BY <1>1, Invariance, PTL DEF Spec, BlockTakesFriendship
=============================================================================
