--------------------------- MODULE SessionsProofs ---------------------------
(***************************************************************************)
(* Proofs about module Sessions, for every number of accounts, tokens and  *)
(* concurrent requests, and for every life time of a token.                *)
(***************************************************************************)
EXTENDS Sessions, TLAPS

\* One request changes, and no store.
LEMMA Quiet ==
    ASSUME IInv, UNCHANGED stores, NEW r \in Requests,
           req' \in [Requests -> Request],
           \A x \in Requests \ {r} : req'[x] = req[x],
           WellFormed(req'[r]), HoldsYoung(req'[r])
    PROVE  IInv'
<1>1. TypeOK' /\ StoredInv' /\ OneAccountPerEmail'
    BY DEF IInv, TypeOK, StoredInv, OneAccountPerEmail, Active, stores
<1>2. ASSUME NEW x \in Requests PROVE WellFormed(req[x])' /\ HoldsYoung(req[x])'
    BY DEF IInv, WellFormed, HoldsYoung, stores
<1>. QED BY <1>1, <1>2 DEF IInv

\* What a change of the program counter does to a request.
LEMMA Moves ==
    ASSUME TypeOK, NEW r \in Requests, NEW pc \in PCs, Goto(r, pc)
    PROVE  /\ req' \in [Requests -> Request]
           /\ \A x \in Requests \ {r} : req'[x] = req[x]
           /\ req'[r].op = req[r].op /\ req'[r].pc = pc
           /\ req'[r].user = req[r].user /\ req'[r].token = req[r].token
           /\ req'[r].minted = req[r].minted
           /\ req'[r].res = req[r].res
<1>1. req[r] \in Request
    BY DEF TypeOK
<1>2. [req[r] EXCEPT !.pc = pc] \in Request
    BY <1>1, Zenon DEF Request
<1>. QED BY <1>1, <1>2 DEF Goto, TypeOK, Request

\* The same for an answer.
LEMMA Ends ==
    ASSUME TypeOK, NEW r \in Requests, NEW res \in Results, Answer(r, res)
    PROVE  /\ req' \in [Requests -> Request]
           /\ \A x \in Requests \ {r} : req'[x] = req[x]
           /\ req'[r].op = req[r].op /\ req'[r].pc = "done"
           /\ req'[r].user = req[r].user
           /\ req'[r].minted = req[r].minted
           /\ req'[r].res = res
<1>1. /\ req[r] \in Request /\ req[r].op \in AllOps \cup {None}
      /\ req[r].user \in Users \cup {None}
      /\ req[r].minted \in Tokens \cup {None}
    BY DEF TypeOK, Request
<1>2. PICK q : q = [Idle EXCEPT !.op = req[r].op, !.pc = "done",
                                !.user = req[r].user, !.minted = req[r].minted,
                                !.res = res]
    OBVIOUS
<1>3. q = [op |-> req[r].op, pc |-> "done", user |-> req[r].user, email |-> None,
           name |-> None, bio |-> None, password |-> None, new |-> None,
           row |-> NoRow, token |-> None, minted |-> req[r].minted,
           found |-> {}, res |-> res]
    BY <1>2 DEF Idle
<1>4. q \in Request
    BY <1>1, <1>3 DEF Request, PCs, NoRow, Row
<1>. QED BY <1>2, <1>3, <1>4 DEF Answer, TypeOK

\* A request that is answered gives up what it held.
LEMMA Answers ==
    ASSUME IInv, NEW r \in Requests, NEW res \in Results, Answer(r, res),
           UNCHANGED stores
    PROVE  IInv'
<1>1. TypeOK /\ WellFormed(req[r])
    BY DEF IInv
<1>2. WellFormed(req'[r]) /\ HoldsYoung(req'[r])
    BY <1>1, Ends DEF WellFormed, HoldsYoung
<1>. QED BY <1>1, <1>2, Ends, Quiet

\* A request that goes on without touching a store.
LEMMA GoesOn ==
    ASSUME IInv, NEW r \in Requests, NEW pc \in PCs \ {"save"}, Goto(r, pc),
           UNCHANGED stores, WellFormed(req'[r]),
           pc \in {"rotate", "swap"} => req[r].pc \in {"rotate", "swap"}
    PROVE  IInv'
<1>1. TypeOK /\ HoldsYoung(req[r])
    BY DEF IInv
<1>2. HoldsYoung(req'[r])
    BY <1>1, Moves DEF HoldsYoung
<1>. QED BY <1>1, <1>2, Moves, Quiet

-----------------------------------------------------------------------------
(* Clients and outside. *)

\* The invariant holds at first.
LEMMA InitIInv == Init => IInv
<1>. SUFFICES ASSUME Init PROVE IInv
    OBVIOUS
<1>1. NoRow \in Row
    BY DEF NoRow, Row
<1>2. Idle \in Request
    BY <1>1 DEF Idle, Request, PCs
<1>3. TypeOK
    BY <1>1, <1>2, ClockAssumption DEF Init, TypeOK
<1>4. ASSUME NEW r \in Requests PROVE WellFormed(req[r]) /\ HoldsYoung(req[r])
    BY <1>4 DEF Init, Idle, WellFormed, HoldsYoung
<1>5. StoredInv /\ OneAccountPerEmail
    BY DEF Init, NoRow, StoredInv, OneAccountPerEmail, Active
<1>. QED BY <1>3, <1>4, <1>5 DEF IInv

\* A request that comes in holds no token.
LEMMA Begins ==
    ASSUME IInv, NEW r \in Requests, NEW q \in Request,
           NEW pc \in {"email", "find", "get", "members", "row", "done"},
           Begin(r, pc, q),
           pc \in {"members", "row"} => q.user \in Users,
           pc = "get" => q.token \in Tokens,
           pc = "members" => q.op \in {"logoutall", "remove"}
    PROVE  IInv'
<1>1. [q EXCEPT !.pc = pc] \in Request
  <2>1. pc \in PCs
      BY DEF PCs
  <2>. QED BY <2>1, Zenon DEF Request
<1>2. PICK x \in Request : x = [q EXCEPT !.pc = pc]
    BY <1>1
<1>3. /\ x.pc = pc /\ x.op = q.op /\ x.user = q.user /\ x.token = q.token
      /\ x.op \in Ops
    BY <1>2 DEF Request, Begin
<1>4. /\ req' \in [Requests -> Request] /\ req'[r] = x
      /\ \A y \in Requests \ {r} : req'[y] = req[y]
    BY <1>2 DEF Begin, IInv, TypeOK
<1>5. HoldsYoung(req'[r]) /\ WellFormed(req'[r])
    BY <1>3, <1>4 DEF HoldsYoung, WellFormed
<1>. QED BY <1>4, <1>5, Quiet DEF Begin

\* The calls of the clients.
LEMMA CallStep ==
    ASSUME IInv, NEW r \in Requests, Call(r) PROVE IInv'
<1>1. Idle \in Request /\ Callers \subseteq Users /\ Known \subseteq Tokens
    BY DEF Idle, Request, NoRow, Row, PCs, Callers, Known
<1>2. CASE Register(r)
  <2>1. PICK e \in Emails, n \in Names, p \in Passwords :
            Begin(r, "email", [Idle EXCEPT !.op = "register", !.email = e, !.name = n,
                                           !.password = p])
      BY <1>2 DEF Register
  <2>2. PICK q : q = [Idle EXCEPT !.op = "register", !.email = e, !.name = n,
                                  !.password = p]
      OBVIOUS
  <2>3. q \in Request
      BY <1>1, <2>2, Zenon DEF Request, AllOps
  <2>. QED BY <2>1, <2>2, <2>3, Begins
<1>3. CASE Login(r)
  <2>1. PICK e \in Emails, p \in Passwords :
            Begin(r, "find", [Idle EXCEPT !.op = "login", !.email = e, !.password = p])
      BY <1>3 DEF Login
  <2>2. PICK q : q = [Idle EXCEPT !.op = "login", !.email = e, !.password = p]
      OBVIOUS
  <2>3. q \in Request
      BY <1>1, <2>2, Zenon DEF Request, AllOps
  <2>. QED BY <2>1, <2>2, <2>3, Begins
<1>4. CASE Logout(r)
  <2>1. CASE Begin(r, "done", [Idle EXCEPT !.op = "logout", !.res = "ok"])
    <3>1. [Idle EXCEPT !.op = "logout", !.res = "ok"] \in Request
        BY <1>1, Zenon DEF Request, AllOps, Results
    <3>. QED BY <2>1, <3>1, Begins
  <2>2. CASE \E t \in Known :
                Begin(r, "get", [Idle EXCEPT !.op = "logout", !.token = t])
    <3>1. PICK t \in Known :
              Begin(r, "get", [Idle EXCEPT !.op = "logout", !.token = t])
        BY <2>2
    <3>2. PICK q : q = [Idle EXCEPT !.op = "logout", !.token = t]
        OBVIOUS
    <3>3. q \in Request
        BY <1>1, <3>2, Zenon DEF Request, AllOps
    <3>4. q.token = t
        BY <1>1, <3>2 DEF Request
    <3>. QED BY <1>1, <3>1, <3>2, <3>3, <3>4, Begins
  <2>. QED BY <1>4, <2>1, <2>2 DEF Logout
<1>5. CASE LogoutAll(r) \/ DeleteAccount(r)
  <2>1. PICK u \in Callers, op \in {"logoutall", "remove"} :
            Begin(r, "members", [Idle EXCEPT !.op = op, !.user = u])
      BY <1>5 DEF LogoutAll, DeleteAccount
  <2>2. PICK q : q = [Idle EXCEPT !.op = op, !.user = u]
      OBVIOUS
  <2>3. op \in AllOps
      BY DEF AllOps
  <2>4. q \in Request
      BY <1>1, <2>2, <2>3, Zenon DEF Request
  <2>5. q.user = u /\ q.op = op
      BY <1>1, <2>2 DEF Request
  <2>. QED BY <1>1, <2>1, <2>2, <2>4, <2>5, Begins
<1>6. CASE Refresh(r)
  <2>1. PICK t \in Known :
            Begin(r, "get", [Idle EXCEPT !.op = "refresh", !.token = t])
      BY <1>6 DEF Refresh
  <2>2. PICK q : q = [Idle EXCEPT !.op = "refresh", !.token = t]
      OBVIOUS
  <2>3. q \in Request
      BY <1>1, <2>2, Zenon DEF Request, AllOps
  <2>4. q.token = t
      BY <1>1, <2>2 DEF Request
  <2>. QED BY <1>1, <2>1, <2>2, <2>3, <2>4, Begins
<1>7. CASE UpdateProfile(r)
  <2>1. PICK u \in Callers, n \in Names \cup {None}, b \in Bios \cup {"", None} :
            Begin(r, "row", [Idle EXCEPT !.op = "profile", !.user = u, !.name = n,
                                         !.bio = b])
      BY <1>7 DEF UpdateProfile
  <2>2. PICK q : q = [Idle EXCEPT !.op = "profile", !.user = u, !.name = n, !.bio = b]
      OBVIOUS
  <2>3. q \in Request
      BY <1>1, <2>2, Zenon DEF Request, AllOps
  <2>4. q.user = u
      BY <1>1, <2>2 DEF Request
  <2>. QED BY <1>1, <2>1, <2>2, <2>3, <2>4, Begins
<1>8. CASE UpdateEmail(r)
  <2>1. PICK u \in Callers, e \in Emails, p \in Passwords :
            Begin(r, "row", [Idle EXCEPT !.op = "email", !.user = u, !.email = e,
                                         !.password = p])
      BY <1>8 DEF UpdateEmail
  <2>2. PICK q : q = [Idle EXCEPT !.op = "email", !.user = u, !.email = e,
                                  !.password = p]
      OBVIOUS
  <2>3. q \in Request
      BY <1>1, <2>2, Zenon DEF Request, AllOps
  <2>4. q.user = u
      BY <1>1, <2>2 DEF Request
  <2>. QED BY <1>1, <2>1, <2>2, <2>3, <2>4, Begins
<1>9. CASE ChangePassword(r)
  <2>1. PICK u \in Callers, p \in Passwords, n \in Passwords :
            \/ Begin(r, "row", [Idle EXCEPT !.op = "password", !.user = u,
                                            !.password = p, !.new = n])
            \/ Begin(r, "done", [Idle EXCEPT !.op = "password", !.user = u,
                                             !.res = "badrequest"])
      BY <1>9 DEF ChangePassword
  <2>2. [Idle EXCEPT !.op = "password", !.user = u, !.password = p, !.new = n]
            \in Request
      BY <1>1, Zenon DEF Request, AllOps
  <2>3. [Idle EXCEPT !.op = "password", !.user = u, !.res = "badrequest"] \in Request
      BY <1>1, Zenon DEF Request, AllOps, Results
  <2>4. [Idle EXCEPT !.op = "password", !.user = u, !.password = p, !.new = n].user = u
      BY <1>1 DEF Request
  <2>. QED BY <1>1, <2>1, <2>2, <2>3, <2>4, Begins
<1>. QED
    BY <1>2, <1>3, <1>4, <1>5, <1>6, <1>7, <1>8, <1>9 DEF Call

-----------------------------------------------------------------------------
(* Handlers that only read. *)

\* A handler that reads and is answered, or goes on, holds no new token.
LEMMA ReadSteps ==
    ASSUME IInv, NEW r \in Requests,
           \/ ExistsByEmail(r) \/ ExistsByUsername(r) \/ LogoutGet(r)
           \/ RefreshGet(r) \/ RefreshRotate(r) \/ VerifiedRow(r) \/ Abort(r)
    PROVE  IInv'
<1>1. UNCHANGED stores /\ TypeOK /\ WellFormed(req[r])
    BY DEF ExistsByEmail, ExistsByUsername, LogoutGet, RefreshGet,
           RefreshRotate, VerifiedRow, Abort, IInv
<1>2. ASSUME NEW res \in Results, Answer(r, res) PROVE IInv'
    BY <1>1, <1>2, Answers
<1>3. ASSUME NEW pc \in {"name", "create", "drop", "ttl", "update"}, Goto(r, pc),
             pc \in {"drop", "ttl"} => req[r].token \in Tokens,
             pc = "update" => req[r].user \in Users
      PROVE  IInv'
    BY <1>1, <1>3, Moves, GoesOn DEF PCs, WellFormed
<1>4. CASE ExistsByEmail(r) \/ ExistsByUsername(r)
    BY <1>2, <1>3, <1>4 DEF ExistsByEmail, ExistsByUsername, Results
<1>5. CASE LogoutGet(r) \/ RefreshGet(r)
    BY <1>1, <1>2, <1>3, <1>5 DEF LogoutGet, RefreshGet, Results, WellFormed, At
<1>6. CASE RefreshRotate(r)
  <2>1. CASE Answer(r, "error")
      BY <1>2, <2>1 DEF Results
  <2>2. CASE Goto(r, "swap")
      BY <1>1, <1>6, <2>2, Moves, GoesOn DEF RefreshRotate, PCs, WellFormed, At
  <2>. QED BY <1>6, <2>1, <2>2 DEF RefreshRotate
<1>7. CASE VerifiedRow(r)
    BY <1>1, <1>2, <1>3, <1>7 DEF VerifiedRow, Results, WellFormed
<1>8. CASE Abort(r)
    BY <1>2, <1>8 DEF Abort, Results
<1>. QED BY <1>4, <1>5, <1>6, <1>7, <1>8

\* What is minted is young.
LEMMA Mints ==
    ASSUME TypeOK, NEW u \in Users
    PROVE  /\ Mint(u) \in Tokens /\ Mint(u).user = u
           /\ Mint(u).issued <= clock /\ clock <= Mint(u).issued + MaxDelay
BY ClockAssumption DEF TypeOK, Mint, Tokens

\* A token that is minted is for the user of the request.
LEMMA MintsFor ==
    ASSUME TypeOK, NEW r \in Requests, WellFormed(req[r]), NEW u \in Users,
           req' = [req EXCEPT ![r].pc = "save", ![r].user = u,
                              ![r].minted = Mint(u)],
           clock' = clock
    PROVE  /\ req' \in [Requests -> Request]
           /\ \A x \in Requests \ {r} : req'[x] = req[x]
           /\ req'[r].op = req[r].op /\ req'[r].pc = "save"
           /\ req[r].op \in {"register", "login"} =>
                  WellFormed(req'[r]) /\ HoldsYoung(req'[r])
<1>1. req[r] \in Request /\ Mint(u) \in Tokens
    BY Mints DEF TypeOK
<1>2. PICK q : q = [req[r] EXCEPT !.pc = "save", !.user = u, !.minted = Mint(u)]
    OBVIOUS
<1>3. q \in Request
    BY <1>1, <1>2, Zenon DEF Request, PCs
<1>4. /\ q.op = req[r].op /\ q.pc = "save" /\ q.user = u
      /\ q.token = req[r].token /\ q.minted = Mint(u)
    BY <1>1, <1>2 DEF Request
<1>5. req' = [req EXCEPT ![r] = q]
    BY <1>2
<1>6. /\ req' \in [Requests -> Request] /\ req'[r] = q
      /\ \A x \in Requests \ {r} : req'[x] = req[x]
    BY <1>3, <1>5 DEF TypeOK
<1>7. WellFormed(q) /\ HoldsYoung(q)
    BY <1>1, <1>4, Mints DEF WellFormed, HoldsYoung
<1>. QED BY <1>4, <1>6, <1>7

\* A login mints a token for the account that it has found.
LEMMA LoginFindStep ==
    ASSUME IInv, NEW r \in Requests, LoginFind(r) PROVE IInv'
<1>1. TypeOK /\ WellFormed(req[r]) /\ UNCHANGED stores /\ req[r].op = "login"
    BY DEF IInv, LoginFind, At
<1>2. CASE Answer(r, "unauthorized")
    BY <1>1, <1>2, Answers DEF Results
<1>3. ASSUME NEW u \in Users,
             req' = [req EXCEPT ![r].pc = "save", ![r].user = u,
                                ![r].minted = Mint(u)]
      PROVE  IInv'
    BY <1>1, <1>3, MintsFor, Quiet DEF stores
<1>. QED BY <1>2, <1>3 DEF LoginFind

\* The new token is for the user of the old one.
LEMMA RefreshTTLStep ==
    ASSUME IInv, NEW r \in Requests, RefreshTTL(r) PROVE IInv'
<1>1. /\ TypeOK /\ WellFormed(req[r]) /\ UNCHANGED stores
      /\ req[r] \in Request /\ req[r].token \in Tokens
    BY DEF IInv, TypeOK, RefreshTTL, WellFormed, At
<1>2. CASE Answer(r, "unauthorized")
    BY <1>1, <1>2, Answers DEF Results
<1>3. CASE req' = [req EXCEPT ![r].pc = "rotate", ![r].minted = Mint(Owner(r))]
  <2>1. PICK u \in Users : u = Owner(r)
      BY <1>1 DEF Owner, Tokens
  <2>2. PICK q : q = [req[r] EXCEPT !.pc = "rotate", !.minted = Mint(u)]
      OBVIOUS
  <2>3. Mint(u) \in Tokens
      BY <1>1, Mints
  <2>4. q \in Request
      BY <1>1, <2>2, <2>3, Zenon DEF Request, PCs
  <2>5. /\ q.op = req[r].op /\ q.pc = "rotate" /\ q.user = req[r].user
        /\ q.token = req[r].token /\ q.minted = Mint(u)
      BY <1>1, <2>2 DEF Request
  <2>6. req' = [req EXCEPT ![r] = q]
      BY <1>3, <2>1, <2>2
  <2>7. /\ req' \in [Requests -> Request] /\ req'[r] = q
        /\ \A x \in Requests \ {r} : req'[x] = req[x]
      BY <1>1, <2>4, <2>6 DEF TypeOK
  <2>8. WellFormed(q) /\ HoldsYoung(q)
      BY <1>1, <2>1, <2>5, Mints DEF WellFormed, HoldsYoung, Owner
  <2>. QED BY <1>1, <2>7, <2>8, Quiet
<1>. QED BY <1>2, <1>3 DEF RefreshTTL

\* A profile update holds the row as it read it, with what is asked for.
LEMMA ProfileRowStep ==
    ASSUME IInv, NEW r \in Requests, ProfileRow(r) PROVE IInv'
<1>1. /\ TypeOK /\ WellFormed(req[r]) /\ UNCHANGED stores
      /\ req[r] \in Request /\ req[r].user \in Users
      /\ req[r].op = "profile"
    BY DEF IInv, TypeOK, ProfileRow, WellFormed, At
<1>2. CASE Answer(r, "notfound") \/ Answer(r, "badrequest")
    BY <1>1, <1>2, Answers DEF Results
<1>3. CASE req' = [req EXCEPT ![r].pc = "write",
                              ![r].row = Edited(rows[req[r].user], req[r])]
  <2>1. PICK row : row = Edited(rows[req[r].user], req[r])
      OBVIOUS
  <2>2. row \in Row
    <3>1. rows[req[r].user] \in Row
        BY <1>1 DEF TypeOK
    <3>2. /\ req[r].name \in Names \cup {None}
          /\ req[r].bio \in Bios \cup {"", None}
        BY <1>1 DEF Request
    <3>. QED BY <2>1, <3>1, <3>2 DEF Edited, Row
  <2>3. PICK q : q = [req[r] EXCEPT !.pc = "write", !.row = row]
      OBVIOUS
  <2>4. q \in Request
      BY <1>1, <2>2, <2>3, Zenon DEF Request, PCs
  <2>5. /\ q.op = req[r].op /\ q.pc = "write" /\ q.user = req[r].user
      BY <1>1, <2>3 DEF Request
  <2>6. req' = [req EXCEPT ![r] = q]
      BY <1>3, <2>1, <2>3
  <2>7. /\ req' \in [Requests -> Request] /\ req'[r] = q
        /\ \A x \in Requests \ {r} : req'[x] = req[x]
      BY <1>1, <2>4, <2>6 DEF TypeOK
  <2>8. WellFormed(q) /\ HoldsYoung(q)
      BY <1>1, <2>5 DEF WellFormed, HoldsYoung
  <2>. QED BY <1>1, <2>7, <2>8, Quiet
<1>. QED BY <1>2, <1>3 DEF ProfileRow

-----------------------------------------------------------------------------
(* The table of users. *)

\* A write of one row that the unique constraints accept, by a request that
\* is sound after it.
LEMMA Accounts ==
    ASSUME IInv, NEW u \in Users, NEW row \in Row,
           rows' = [rows EXCEPT ![u] = row],
           row.state = "active" => Unique(u, row),
           UNCHANGED <<stored, index, until, clock, missed>>,
           NEW r \in Requests, req' \in [Requests -> Request],
           \A x \in Requests \ {r} : req'[x] = req[x],
           WellFormed(req'[r]), HoldsYoung(req'[r])
    PROVE  IInv'
<1>1. TypeOK'
    BY DEF IInv, TypeOK
<1>2. StoredInv'
    BY DEF IInv, StoredInv
<1>3. ASSUME NEW x \in Requests PROVE WellFormed(req[x])' /\ HoldsYoung(req[x])'
    BY DEF IInv, WellFormed, HoldsYoung
<1>4. OneAccountPerEmail'
    BY DEF IInv, TypeOK, OneAccountPerEmail, Active, Unique
<1>. QED BY <1>1, <1>2, <1>3, <1>4 DEF IInv

\* Registration: the constraints, not the two checks before, keep emails and
\* user names unique.
LEMMA CreateUserStep ==
    ASSUME IInv, NEW r \in Requests, CreateUser(r) PROVE IInv'
<1>1. /\ TypeOK /\ WellFormed(req[r]) /\ req[r] \in Request
      /\ req[r].op = "register" /\ UNCHANGED <<stored, index, until, clock, missed>>
    BY DEF IInv, TypeOK, CreateUser, At
<1>2. CASE Answer(r, "error") /\ UNCHANGED rows
    BY <1>1, <1>2, Answers DEF Results, stores
<1>3. ASSUME Unique(None, NewRow(req[r])), NEW u \in Users,
             rows' = [rows EXCEPT ![u] = NewRow(req[r])],
             req' = [req EXCEPT ![r].pc = "save", ![r].user = u,
                                ![r].minted = Mint(u)]
      PROVE  IInv'
  <2>1. NewRow(req[r]) \in Row
      BY <1>1 DEF NewRow, Row, Request
  <2>2. Unique(u, NewRow(req[r]))
      BY <1>3, NoneAssumption DEF Unique
  <2>. QED BY <1>1, <1>3, <2>1, <2>2, MintsFor, Accounts
<1>. QED BY <1>2, <1>3 DEF CreateUser

\* The three updates of a row.
LEMMA UpdateSteps ==
    ASSUME IInv, NEW r \in Requests,
           ProfileWrite(r) \/ EmailUpdate(r) \/ PasswordUpdate(r)
    PROVE  IInv'
<1>. DEFINE u == req[r].user
<1>1. /\ TypeOK /\ WellFormed(req[r]) /\ req[r] \in Request
      /\ u \in Users /\ rows[u] \in Row
      /\ UNCHANGED <<stored, index, until, clock, missed>>
    BY DEF IInv, TypeOK, ProfileWrite, EmailUpdate, PasswordUpdate, At, WellFormed
<1>2. ASSUME NEW row \in Row, Update(r, row) PROVE IInv'
  <2>1. CASE (Answer(r, "notfound") \/ Answer(r, "error")) /\ UNCHANGED rows
      BY <1>1, <2>1, Answers DEF Results, stores
  <2>2. CASE /\ Unique(u, row) /\ rows' = [rows EXCEPT ![u] = row]
             /\ IF req[r].op = "password" THEN Goto(r, "members") ELSE Answer(r, "ok")
    <3>1. /\ req' \in [Requests -> Request]
          /\ \A x \in Requests \ {r} : req'[x] = req[x]
          /\ WellFormed(req'[r]) /\ HoldsYoung(req'[r])
      <4>1. CASE req[r].op = "password" /\ Goto(r, "members")
          BY <1>1, <4>1, Moves DEF PCs, WellFormed, HoldsYoung
      <4>2. CASE Answer(r, "ok")
          BY <1>1, <4>2, Ends DEF Results, WellFormed, HoldsYoung
      <4>. QED BY <2>2, <4>1, <4>2
    <3>. QED BY <1>1, <2>2, <3>1, Accounts
  <2>. QED BY <1>2, <2>1, <2>2 DEF Update
<1>3. /\ ProfileColumns(u, req[r].row) \in Row
      /\ [rows[u] EXCEPT !.email = req[r].email] \in Row
      /\ [rows[u] EXCEPT !.password = req[r].new] \in Row
  <2>1. /\ req[r].row \in Row /\ req[r].email \in Emails \cup {None}
        /\ req[r].new \in Passwords \cup {None}
      BY <1>1 DEF Request
  <2>2. ProfileColumns(u, req[r].row) \in Row
      BY <1>1, <2>1 DEF ProfileColumns, Row
  <2>3. [rows[u] EXCEPT !.email = req[r].email] \in Row
      BY <1>1, <2>1, Zenon DEF Row
  <2>4. [rows[u] EXCEPT !.password = req[r].new] \in Row
      BY <1>1, <2>1, Zenon DEF Row
  <2>. QED BY <2>2, <2>3, <2>4
<1>. QED BY <1>2, <1>3 DEF ProfileWrite, EmailUpdate, PasswordUpdate

\* The row of a deleted account gives its email and user name back.
LEMMA DeleteRowStep ==
    ASSUME IInv, NEW r \in Requests, DeleteRow(r) PROVE IInv'
<1>1. /\ TypeOK /\ WellFormed(req[r]) /\ req[r].user \in Users
      /\ UNCHANGED <<stored, index, until, clock, missed>>
    BY DEF IInv, TypeOK, DeleteRow, At, WellFormed
<1>2. CASE Answer(r, "notfound") /\ UNCHANGED rows
    BY <1>1, <1>2, Answers DEF Results, stores
<1>3. CASE /\ rows' = [rows EXCEPT ![req[r].user] = [NoRow EXCEPT !.state = "deleted"]]
           /\ Answer(r, "ok")
  <2>1. /\ [NoRow EXCEPT !.state = "deleted"] \in Row
        /\ [NoRow EXCEPT !.state = "deleted"].state # "active"
      BY DEF NoRow, Row
  <2>2. /\ req' \in [Requests -> Request]
        /\ \A x \in Requests \ {r} : req'[x] = req[x]
        /\ WellFormed(req'[r]) /\ HoldsYoung(req'[r])
      BY <1>1, <1>3, Ends DEF Results, WellFormed, HoldsYoung
  <2>. QED BY <1>1, <1>3, <2>1, <2>2, Accounts
<1>. QED BY <1>2, <1>3 DEF DeleteRow

-----------------------------------------------------------------------------
(* The tokens in Redis. *)

\* A change of the stored tokens and of the index by a request that holds no
\* token after it.
LEMMA TokenChange ==
    ASSUME IInv, UNCHANGED <<rows, clock>>,
           stored' \subseteq Tokens, index' \in [Users -> SUBSET Tokens],
           until' \in [Users -> Nat], missed' \subseteq Tokens, StoredInv',
           NEW r \in Requests, req' \in [Requests -> Request],
           \A x \in Requests \ {r} : req'[x] = req[x],
           WellFormed(req'[r]), HoldsYoung(req'[r])
    PROVE  IInv'
<1>1. TypeOK'
    BY DEF IInv, TypeOK
<1>2. ASSUME NEW x \in Requests PROVE WellFormed(req[x])' /\ HoldsYoung(req[x])'
    BY DEF IInv, WellFormed, HoldsYoung
<1>3. OneAccountPerEmail'
    BY DEF IInv, OneAccountPerEmail, Active
<1>. QED BY <1>1, <1>2, <1>3 DEF IInv

\* The times that the invariant compares are numbers.
LEMMA Times ==
    ASSUME TypeOK
    PROVE  /\ clock \in Nat /\ Lifetime \in Nat /\ MaxDelay \in Nat
           /\ \A t \in Tokens : t.issued \in Nat /\ t.user \in Users
BY ClockAssumption DEF TypeOK, Tokens

\* What a save does to the times: the new token is as old as its delay, and
\* no other token of the user is younger than now.
LEMMA Saves ==
    ASSUME IInv, NEW m \in Tokens, m.issued <= clock,
           clock <= m.issued + MaxDelay, UNCHANGED clock,
           stored' \subseteq stored \cup {m},
           Extend(m.user, m)
    PROVE  StoredInv' /\ until' \in [Users -> Nat]
<1>1. TypeOK /\ StoredInv
    BY DEF IInv
<1>2. /\ until' \in [Users -> Nat] /\ until'[m.user] = m.issued + Lifetime
      /\ \A u \in Users \ {m.user} : until'[u] = until[u]
    BY <1>1, Times DEF Extend, TypeOK
<1>3. ASSUME NEW t \in stored'
      PROVE  /\ t.issued <= clock
             /\ t.issued + Lifetime <= until'[t.user] + MaxDelay
  <2>1. t \in Tokens /\ (t = m \/ t \in stored) /\ t.issued <= clock
      BY <1>1 DEF TypeOK, StoredInv
  <2>2. CASE t.user = m.user
      BY <1>1, <1>2, <2>1, <2>2, Times
  <2>3. CASE t.user # m.user
    <3>1. t.issued + Lifetime <= until[t.user] + MaxDelay
        BY <1>1, <2>1, <2>3 DEF StoredInv
    <3>. QED BY <1>1, <1>2, <2>1, <2>3, <3>1, Times
  <2>. QED BY <2>1, <2>2, <2>3
<1>. QED BY <1>2, <1>3 DEF StoredInv

\* Tokens that go leave the times of the others alone.
LEMMA Drops ==
    ASSUME StoredInv, stored' \subseteq stored, UNCHANGED <<until, clock>>
    PROVE  StoredInv'
BY DEF StoredInv

\* SaveRefreshToken, after a registration or a login.
LEMMA SaveStep ==
    ASSUME IInv, NEW r \in Requests, SaveRefreshToken(r) PROVE IInv'
<1>1. PICK m \in Tokens : m = req[r].minted
    BY DEF IInv, SaveRefreshToken, HoldsYoung
<1>2. /\ TypeOK /\ UNCHANGED <<rows, clock>> /\ m.user = req[r].user
      /\ m.issued <= clock /\ clock <= m.issued + MaxDelay
      /\ m.user \in Users
    BY <1>1 DEF IInv, SaveRefreshToken, HoldsYoung, WellFormed
<1>3. CASE Answer(r, "error") /\ UNCHANGED <<stored, index, until, missed>>
    BY <1>2, <1>3, Answers DEF Results, stores
<1>4. CASE /\ stored' = stored \cup {m}
           /\ index' = [index EXCEPT ![m.user] = @ \cup {m}]
           /\ Extend(m.user, m)
           /\ missed' = missed \ {m}
           /\ Answer(r, "ok")
  <2>1. StoredInv' /\ until' \in [Users -> Nat]
      BY <1>2, <1>4, Saves
  <2>2. /\ stored' \subseteq Tokens /\ index' \in [Users -> SUBSET Tokens]
        /\ missed' \subseteq Tokens
      BY <1>2, <1>4 DEF TypeOK
  <2>3. /\ req' \in [Requests -> Request]
        /\ \A x \in Requests \ {r} : req'[x] = req[x]
        /\ WellFormed(req'[r]) /\ HoldsYoung(req'[r])
      BY <1>2, <1>4, Ends DEF IInv, Results, WellFormed, HoldsYoung
  <2>. QED BY <1>2, <2>1, <2>2, <2>3, TokenChange
<1>. QED BY <1>1, <1>2, <1>3, <1>4 DEF SaveRefreshToken

\* RotateRefreshToken swaps the tokens in one transaction.
LEMMA SwapStep ==
    ASSUME IInv, NEW r \in Requests, RefreshSwap(r) PROVE IInv'
<1>1. PICK m \in Tokens : m = req[r].minted
    BY DEF IInv, RefreshSwap, At, HoldsYoung
<1>2. /\ TypeOK /\ UNCHANGED <<rows, clock>> /\ m.user = Owner(r)
      /\ m.issued <= clock /\ clock <= m.issued + MaxDelay
      /\ m.user \in Users /\ Answer(r, "ok")
    BY <1>1, Times DEF IInv, RefreshSwap, At, HoldsYoung, Owner
<1>3. /\ stored' = Swap(stored, req[r].token, m)
      /\ index' = [index EXCEPT ![m.user] = Swap(@, req[r].token, m)]
      /\ Extend(m.user, m)
      /\ missed' = missed \ {m}
    BY <1>1, <1>2 DEF RefreshSwap
<1>4. StoredInv' /\ until' \in [Users -> Nat]
    BY <1>2, <1>3, Saves DEF Swap, With, Without
<1>5. /\ stored' \subseteq Tokens /\ index' \in [Users -> SUBSET Tokens]
      /\ missed' \subseteq Tokens
    BY <1>2, <1>3 DEF TypeOK, Swap, With, Without
<1>6. /\ req' \in [Requests -> Request]
      /\ \A x \in Requests \ {r} : req'[x] = req[x]
      /\ WellFormed(req'[r]) /\ HoldsYoung(req'[r])
    BY <1>2, Ends DEF IInv, Results, WellFormed, HoldsYoung
<1>. QED BY <1>2, <1>4, <1>5, <1>6, TokenChange

\* DeleteRefreshToken, of a logout.
LEMMA LogoutDropStep ==
    ASSUME IInv, NEW r \in Requests, LogoutDrop(r) PROVE IInv'
<1>1. /\ TypeOK /\ UNCHANGED <<rows, until, clock, missed>> /\ Answer(r, "ok")
      /\ Owner(r) \in Users /\ StoredInv
    BY Times DEF IInv, LogoutDrop, At, WellFormed, Owner
<1>2. /\ stored' \subseteq stored /\ stored' \subseteq Tokens
      /\ index' \in [Users -> SUBSET Tokens]
    BY <1>1 DEF LogoutDrop, TypeOK
<1>3. /\ req' \in [Requests -> Request]
      /\ \A x \in Requests \ {r} : req'[x] = req[x]
      /\ WellFormed(req'[r]) /\ HoldsYoung(req'[r])
    BY <1>1, Ends DEF IInv, Results, WellFormed, HoldsYoung
<1>. QED BY <1>1, <1>2, <1>3, Drops, TokenChange DEF IInv, TypeOK

\* What follows a revocation holds no token.
LEMMA Goes ==
    ASSUME IInv, NEW r \in Requests, Revoked(r),
           req[r].pc \in {"members", "revoke"}
    PROVE  /\ req' \in [Requests -> Request]
           /\ \A x \in Requests \ {r} : req'[x] = req[x]
           /\ WellFormed(req'[r]) /\ HoldsYoung(req'[r])
<1>1. TypeOK /\ WellFormed(req[r])
    BY DEF IInv
<1>2. CASE req[r].op = "remove" /\ Goto(r, "delete")
    BY <1>1, <1>2, Moves DEF PCs, WellFormed, HoldsYoung
<1>3. CASE Answer(r, "ok")
    BY <1>1, <1>3, Ends DEF Results, WellFormed, HoldsYoung
<1>. QED BY <1>2, <1>3 DEF Revoked

\* DeleteAllUserTokens: the index is read, and what was found is deleted.
LEMMA RevokeSteps ==
    ASSUME IInv, NEW r \in Requests, RevokeMembers(r) \/ RevokeFound(r)
    PROVE  IInv'
<1>1. TypeOK /\ WellFormed(req[r]) /\ req[r] \in Request /\ req[r].user \in Users
    BY DEF IInv, TypeOK, RevokeMembers, RevokeFound, WellFormed
<1>2. CASE RevokeMembers(r)
  <2>1. CASE Revoked(r)
      BY <1>2, <2>1, Goes, Quiet DEF RevokeMembers
  <2>2. CASE /\ Members(r) # {}
             /\ req' = [req EXCEPT ![r].pc = "revoke", ![r].found = Members(r)]
    <3>1. Members(r) = index[req[r].user] /\ req[r].op # "logoutall"
        BY <2>2 DEF Members, Subject
    <3>2. PICK f \in SUBSET Tokens : f = Members(r)
        BY <1>1, <3>1 DEF TypeOK
    <3>3. PICK q : q = [req[r] EXCEPT !.pc = "revoke", !.found = f]
        OBVIOUS
    <3>4. q \in Request
      <4>1. "revoke" \in PCs
          BY DEF PCs
      <4>2. PICK a \in Request : a = req[r]
          BY <1>1
      <4>3. q = [op |-> a.op, pc |-> "revoke", user |-> a.user, email |-> a.email,
                 name |-> a.name, bio |-> a.bio, password |-> a.password,
                 new |-> a.new, row |-> a.row, token |-> a.token,
                 minted |-> a.minted, found |-> f, res |-> a.res]
          BY <3>3, <4>2 DEF Request
      <4>4. /\ a.op \in AllOps \cup {None} /\ a.user \in Users \cup {None}
            /\ a.email \in Emails \cup {None} /\ a.name \in Names \cup {None}
            /\ a.bio \in Bios \cup {"", None}
            /\ a.password \in Passwords \cup {None}
            /\ a.new \in Passwords \cup {None} /\ a.row \in Row
            /\ a.token \in Tokens \cup {None} /\ a.minted \in Tokens \cup {None}
            /\ a.res \in Results \cup {None}
          BY DEF Request
      <4>. QED BY <3>2, <4>1, <4>3, <4>4 DEF Request
    <3>5. q.op = req[r].op /\ q.pc = "revoke" /\ q.user = req[r].user
        BY <1>1, <3>3 DEF Request
    <3>6. req' = [req EXCEPT ![r] = q]
        BY <2>2, <3>2, <3>3
    <3>7. /\ req' \in [Requests -> Request] /\ req'[r] = q
          /\ \A x \in Requests \ {r} : req'[x] = req[x]
        BY <1>1, <3>4, <3>6 DEF TypeOK
    <3>8. WellFormed(q) /\ HoldsYoung(q)
        BY <1>1, <1>2, <3>1, <3>5 DEF RevokeMembers, WellFormed, HoldsYoung
    <3>. QED BY <1>2, <3>7, <3>8, Quiet DEF RevokeMembers
  <2>. QED BY <1>2, <2>1, <2>2 DEF RevokeMembers
<1>3. CASE RevokeFound(r)
  <2>1. /\ UNCHANGED <<rows, until, clock>> /\ Revoked(r)
        /\ req[r].pc = "revoke"
      BY <1>3 DEF RevokeFound
  <2>2. /\ stored' \subseteq stored /\ stored' \subseteq Tokens
        /\ index' \in [Users -> SUBSET Tokens] /\ missed' \subseteq Tokens
      BY <1>1, <1>3 DEF RevokeFound, TypeOK
  <2>. QED BY <2>1, <2>2, Goes, Drops, TokenChange DEF IInv, TypeOK
<1>. QED BY <1>2, <1>3

\* Time, and what Redis does by itself.
LEMMA ExpiryStep ==
    ASSUME IInv, Expiry PROVE IInv'
<1>1. TypeOK /\ StoredInv
    BY DEF IInv
<1>2. UNCHANGED <<rows, until, missed, req>> /\ stored' \subseteq stored
    BY DEF Expiry, Tick, TokenExpires, IndexExpires
<1>3. clock' \in 0 .. LastSecond /\ clock <= clock' /\ clock' \in Nat
    BY <1>1, ClockAssumption
    DEF Expiry, Tick, TokenExpires, IndexExpires, TypeOK
<1>4. index' \in [Users -> SUBSET Tokens]
    BY <1>1 DEF Expiry, Tick, TokenExpires, IndexExpires, TypeOK
<1>5. TypeOK'
    BY <1>1, <1>2, <1>3, <1>4 DEF TypeOK
<1>6. StoredInv'
  <2>1. \A t \in stored : t.issued <= clock => t.issued <= clock'
      BY <1>1, <1>3, Times DEF TypeOK
  <2>. QED BY <1>1, <1>2, <2>1 DEF StoredInv
<1>7. ASSUME NEW r \in Requests PROVE WellFormed(req[r])' /\ HoldsYoung(req[r])'
  <2>1. WellFormed(req[r]) /\ HoldsYoung(req[r])
      BY DEF IInv
  <2>2. req[r].pc \in {"save", "rotate", "swap"} =>
            /\ req[r].minted.issued <= clock'
            /\ clock' <= req[r].minted.issued + MaxDelay
    <3>. SUFFICES ASSUME req[r].pc \in {"save", "rotate", "swap"}
                  PROVE  /\ req[r].minted.issued <= clock'
                         /\ clock' <= req[r].minted.issued + MaxDelay
        OBVIOUS
    <3>1. PICK m \in Tokens : m = req[r].minted
        BY <2>1 DEF HoldsYoung
    <3>2. m.issued <= clock /\ clock <= m.issued + MaxDelay
        BY <2>1, <3>1 DEF HoldsYoung
    <3>3. clock' = clock \/ (clock' = clock + 1 /\ clock < m.issued + MaxDelay)
        BY <3>1 DEF Expiry, Tick, TokenExpires, IndexExpires
    <3>. QED BY <1>1, <3>1, <3>2, <3>3, Times
  <2>. QED BY <1>2, <2>1, <2>2 DEF WellFormed, HoldsYoung
<1>8. OneAccountPerEmail'
    BY <1>2 DEF IInv, OneAccountPerEmail, Active
<1>. QED BY <1>5, <1>6, <1>7, <1>8 DEF IInv

\* The answer has reached the client.
LEMMA RespondStep ==
    ASSUME IInv, NEW r \in Requests, Respond(r) PROVE IInv'
<1>1. Idle \in Request
    BY DEF Idle, Request, NoRow, Row, PCs
<1>2. /\ req' \in [Requests -> Request] /\ req'[r] = Idle
      /\ \A x \in Requests \ {r} : req'[x] = req[x]
    BY <1>1 DEF Respond, IInv, TypeOK
<1>3. WellFormed(Idle) /\ HoldsYoung(Idle)
    BY DEF Idle, WellFormed, HoldsYoung
<1>. QED BY <1>2, <1>3, Quiet DEF Respond

-----------------------------------------------------------------------------
(* Theorems. *)

\* Every step of every request, and time, preserves the inductive invariant.
THEOREM Inductive == IInv /\ [Next]_vars => IInv'
<1>. SUFFICES ASSUME IInv, [Next]_vars PROVE IInv'
    OBVIOUS
<1>1. ASSUME NEW r \in Requests, Handle(r) PROVE IInv'
    BY <1>1, ReadSteps, CreateUserStep, LoginFindStep, SaveStep, LogoutDropStep,
       RefreshTTLStep, SwapStep, ProfileRowStep, UpdateSteps, RevokeSteps,
       DeleteRowStep
    DEF Handle
<1>2. CASE UNCHANGED vars
    BY <1>2
    DEF vars, IInv, TypeOK, WellFormed, HoldsYoung, StoredInv,
        OneAccountPerEmail, Active
<1>. QED
    BY <1>1, <1>2, CallStep, ReadSteps, RespondStep, ExpiryStep DEF Next

\* The inductive invariant holds in every reachable state.
THEOREM Invariance == Spec => []IInv
<1>. QED BY InitIInv, Inductive, PTL DEF Spec

\* The tables, the keys and the requests have their types.
THEOREM TypeCorrect == Spec => []TypeOK
<1>1. IInv => TypeOK
    BY DEF IInv
<1>. QED BY <1>1, Invariance, PTL

\* Two accounts never share an email or a user name, whichever registrations
\* and updates race.
THEOREM AccountsAreUnique == Spec => []OneAccountPerEmail
<1>1. IInv => OneAccountPerEmail
    BY DEF IInv
<1>. QED BY <1>1, Invariance, PTL

-----------------------------------------------------------------------------
(* What a step does to the accounts. *)

\* The handlers of the tokens leave the table of users alone.
LEMMA RowsStay ==
    ASSUME NEW r \in Requests, Call(r) \/ Handle(r) \/ Respond(r) \/ Abort(r)
    PROVE  \/ UNCHANGED rows
           \/ CreateUser(r) \/ ProfileWrite(r) \/ EmailUpdate(r)
           \/ PasswordUpdate(r) \/ DeleteRow(r)
<1>1. CASE Call(r)
    BY <1>1
    DEF Call, Register, Login, Logout, LogoutAll, Refresh, UpdateProfile,
        UpdateEmail, ChangePassword, DeleteAccount, Begin, stores
<1>2. CASE \/ ExistsByEmail(r) \/ ExistsByUsername(r) \/ LoginFind(r)
           \/ SaveRefreshToken(r) \/ LogoutGet(r) \/ LogoutDrop(r)
    BY <1>2 DEF ExistsByEmail, ExistsByUsername, LoginFind, SaveRefreshToken,
                LogoutGet, LogoutDrop, stores
<1>3. CASE RefreshGet(r) \/ RefreshTTL(r) \/ RefreshRotate(r) \/ RefreshSwap(r)
    BY <1>3 DEF RefreshGet, RefreshTTL, RefreshRotate, RefreshSwap, stores
<1>4. CASE ProfileRow(r) \/ VerifiedRow(r) \/ RevokeMembers(r) \/ RevokeFound(r)
    BY <1>4 DEF ProfileRow, VerifiedRow, RevokeMembers, RevokeFound, stores
<1>5. CASE Respond(r) \/ Abort(r)
    BY <1>5 DEF Respond, Abort, stores
<1>. QED BY <1>1, <1>2, <1>3, <1>4, <1>5 DEF Handle

\* An update either leaves the row of another account, and a row that is not
\* active, alone, or writes what it was given.
LEMMA UpdateOf ==
    ASSUME TypeOK, NEW r \in Requests, NEW row \in Row, Update(r, row),
           NEW u \in Users, rows'[u] # rows[u]
    PROVE  Active(u) /\ u = req[r].user /\ rows'[u] = row
BY DEF Update, TypeOK, Active

\* No update brings an email, a password or an account back that is older than
\* the call that it answers.
THEOREM OldCredentialsStayOld == Spec => CredentialsKept
<1>1. IInv /\ [Next]_vars =>
        [\A u \in Users : rows[u].state # "none" /\ rows'[u] # rows[u] =>
            /\ Active(u)
            /\ rows'[u].state = "active" =>
                /\ rows'[u].email # rows[u].email =>
                    \E r \in Requests :
                        /\ At(r, "email", "update")
                        /\ <<u, rows'[u].email>> = <<req[r].user, req[r].email>>
                /\ rows'[u].password # rows[u].password =>
                    \E r \in Requests :
                        /\ At(r, "password", "update")
                        /\ <<u, rows'[u].password>> = <<req[r].user, req[r].new>>
        ]_vars
  <2>. SUFFICES ASSUME IInv, Next, NEW u \in Users,
                       rows[u].state # "none", rows'[u] # rows[u]
                PROVE  /\ Active(u)
                       /\ rows'[u].state = "active" =>
                          /\ rows'[u].email # rows[u].email =>
                              \E r \in Requests :
                                  /\ At(r, "email", "update")
                                  /\ u = req[r].user /\ rows'[u].email = req[r].email
                          /\ rows'[u].password # rows[u].password =>
                              \E r \in Requests :
                                  /\ At(r, "password", "update")
                                  /\ u = req[r].user /\ rows'[u].password = req[r].new
      BY DEF vars
  <2>1. TypeOK
      BY DEF IInv
  <2>2. PICK r \in Requests : \/ CreateUser(r) \/ ProfileWrite(r) \/ EmailUpdate(r)
                              \/ PasswordUpdate(r) \/ DeleteRow(r)
      BY RowsStay DEF Next, Expiry, Tick, TokenExpires, IndexExpires
  <2>3. /\ req[r] \in Request /\ WellFormed(req[r]) /\ rows[u] \in Row
      BY <2>1 DEF IInv, TypeOK
  <2>4. CASE CreateUser(r)
      BY <2>1, <2>4 DEF CreateUser, TypeOK
  <2>5. CASE DeleteRow(r)
    <3>1. rows'[u] = [NoRow EXCEPT !.state = "deleted"] /\ Active(u)
        BY <2>1, <2>5 DEF DeleteRow, TypeOK
    <3>. QED BY <3>1 DEF NoRow
  <2>6. CASE ProfileWrite(r)
    <3>1. PICK row : row = ProfileColumns(req[r].user, req[r].row)
        OBVIOUS
    <3>2. req[r].user \in Users /\ rows[req[r].user] \in Row /\ req[r].row \in Row
        BY <2>1, <2>3, <2>6 DEF ProfileWrite, At, WellFormed, TypeOK, Request
    <3>3. row \in Row
        BY <3>1, <3>2 DEF ProfileColumns, Row
    <3>4. Active(u) /\ u = req[r].user /\ rows'[u] = row
        BY <2>1, <2>6, <3>1, <3>3, UpdateOf DEF ProfileWrite
    <3>5. row.email = rows[u].email /\ row.password = rows[u].password
        BY <2>3, <3>1, <3>4 DEF ProfileColumns, Row
    <3>. QED BY <3>4, <3>5
  <2>7. CASE EmailUpdate(r)
    <3>1. PICK row : row = [rows[req[r].user] EXCEPT !.email = req[r].email]
        OBVIOUS
    <3>2. /\ req[r].user \in Users /\ rows[req[r].user] \in Row
          /\ req[r].email \in Emails \cup {None}
        BY <2>1, <2>3, <2>7 DEF EmailUpdate, At, WellFormed, TypeOK, Request
    <3>3. row \in Row
        BY <3>1, <3>2, Zenon DEF Row
    <3>4. Active(u) /\ u = req[r].user /\ rows'[u] = row
        BY <2>1, <2>7, <3>1, <3>3, UpdateOf DEF EmailUpdate
    <3>5. row.email = req[r].email /\ row.password = rows[u].password
        BY <2>3, <3>1, <3>4 DEF Row
    <3>. QED BY <2>7, <3>4, <3>5 DEF EmailUpdate
  <2>8. CASE PasswordUpdate(r)
    <3>1. PICK row : row = [rows[req[r].user] EXCEPT !.password = req[r].new]
        OBVIOUS
    <3>2. /\ req[r].user \in Users /\ rows[req[r].user] \in Row
          /\ req[r].new \in Passwords \cup {None}
        BY <2>1, <2>3, <2>8 DEF PasswordUpdate, At, WellFormed, TypeOK, Request
    <3>3. row \in Row
        BY <3>1, <3>2, Zenon DEF Row
    <3>4. Active(u) /\ u = req[r].user /\ rows'[u] = row
        BY <2>1, <2>8, <3>1, <3>3, UpdateOf DEF PasswordUpdate
    <3>5. row.email = rows[u].email /\ row.password = req[r].new
        BY <2>3, <3>1, <3>4 DEF Row
    <3>. QED BY <2>8, <3>4, <3>5 DEF PasswordUpdate
  <2>. QED BY <2>2, <2>4, <2>5, <2>6, <2>7, <2>8
<1>. QED BY <1>1, Invariance, PTL DEF Spec, CredentialsKept

-----------------------------------------------------------------------------
(* What a step does to the tokens. *)

\* A step of a request leaves the other requests alone.
LEMMA OthersStay ==
    ASSUME TypeOK, NEW x \in Requests,
           Call(x) \/ Handle(x) \/ Respond(x) \/ Abort(x),
           NEW r \in Requests \ {x}
    PROVE  req'[r] = req[r]
<1>1. CASE Call(x)
    BY <1>1
    DEF Call, Register, Login, Logout, LogoutAll, Refresh, UpdateProfile,
        UpdateEmail, ChangePassword, DeleteAccount, Begin, TypeOK
<1>2. CASE ExistsByEmail(x) \/ ExistsByUsername(x) \/ CreateUser(x) \/ LoginFind(x)
    BY <1>2 DEF ExistsByEmail, ExistsByUsername, CreateUser, LoginFind,
                Answer, Goto, TypeOK
<1>3. CASE SaveRefreshToken(x) \/ LogoutGet(x) \/ LogoutDrop(x)
    BY <1>3 DEF SaveRefreshToken, LogoutGet, LogoutDrop, Answer, Goto, TypeOK
<1>4. CASE RefreshGet(x) \/ RefreshTTL(x) \/ RefreshRotate(x) \/ RefreshSwap(x)
    BY <1>4 DEF RefreshGet, RefreshTTL, RefreshRotate, RefreshSwap, Answer, Goto,
                TypeOK
<1>5. CASE ProfileRow(x) \/ VerifiedRow(x) \/ DeleteRow(x)
    BY <1>5 DEF ProfileRow, VerifiedRow, DeleteRow, Answer, Goto, TypeOK
<1>6. CASE ProfileWrite(x) \/ EmailUpdate(x) \/ PasswordUpdate(x)
  <2>1. PICK row : Update(x, row)
      BY <1>6 DEF ProfileWrite, EmailUpdate, PasswordUpdate
  <2>. QED BY <2>1 DEF Update, Answer, Goto, TypeOK
<1>7. CASE RevokeMembers(x) \/ RevokeFound(x) \/ Respond(x) \/ Abort(x)
    BY <1>7 DEF RevokeMembers, RevokeFound, Revoked, Respond, Abort, Answer,
                Goto, TypeOK
<1>. QED BY <1>1, <1>2, <1>3, <1>4, <1>5, <1>6, <1>7 DEF Handle

\* A registration, a login and a refresh end well with a save or a swap.
LEMMA EndsWell ==
    ASSUME IInv, NEW r \in Requests,
           Call(r) \/ Handle(r) \/ Respond(r) \/ Abort(r),
           req[r].op \in {"register", "login", "refresh"},
           req[r].pc # "done", req'[r].pc = "done", req'[r].res = "ok"
    PROVE  SaveRefreshToken(r) \/ RefreshSwap(r)
<1>1. TypeOK /\ WellFormed(req[r]) /\ req[r].op # None
    BY NoneAssumption DEF IInv, AllOps
<1>2. ASSUME NEW res \in Results \ {"ok"} PROVE ~Answer(r, res)
    BY <1>1, Ends
<1>3. ASSUME NEW pc \in PCs \ {"done"} PROVE ~Goto(r, pc)
    BY <1>1, Moves
<1>4. ~Call(r)
    BY <1>1
    DEF Call, Register, Login, Logout, LogoutAll, Refresh, UpdateProfile,
        UpdateEmail, ChangePassword, DeleteAccount, Begin, WellFormed
<1>5. ~ExistsByEmail(r) /\ ~ExistsByUsername(r)
    BY <1>2, <1>3 DEF ExistsByEmail, ExistsByUsername, Results, PCs
<1>6. ~CreateUser(r) /\ ~LoginFind(r)
  <2>1. ASSUME NEW u, req' = [req EXCEPT ![r].pc = "save", ![r].user = u,
                                        ![r].minted = Mint(u)]
        PROVE  FALSE
    <3>1. req \in [Requests -> Request] /\ req[r] \in Request
        BY <1>1 DEF TypeOK
    <3>2. req'[r].pc = "save"
        BY <2>1, <3>1 DEF Request
    <3>. QED BY <3>2
  <2>. QED BY <1>2, <2>1 DEF CreateUser, LoginFind, Results
<1>7. ~RefreshGet(r) /\ ~RefreshTTL(r) /\ ~RefreshRotate(r)
  <2>1. req' # [req EXCEPT ![r].pc = "rotate", ![r].minted = Mint(Owner(r))]
      BY <1>1 DEF TypeOK, Request
  <2>. QED BY <1>2, <1>3, <2>1
           DEF RefreshGet, RefreshTTL, RefreshRotate, Results, PCs
<1>8. ~Respond(r) /\ ~Abort(r)
    BY <1>2 DEF Respond, Abort, Results
<1>9. ~RevokeMembers(r) /\ ~RevokeFound(r)
    BY <1>1 DEF RevokeMembers, RevokeFound, WellFormed
<1>10. /\ ~LogoutGet(r) /\ ~LogoutDrop(r) /\ ~ProfileRow(r) /\ ~ProfileWrite(r)
       /\ ~VerifiedRow(r) /\ ~EmailUpdate(r) /\ ~PasswordUpdate(r)
       /\ ~DeleteRow(r)
    BY DEF LogoutGet, LogoutDrop, ProfileRow, ProfileWrite, VerifiedRow,
           EmailUpdate, PasswordUpdate, DeleteRow, At
<1>. QED BY <1>4, <1>5, <1>6, <1>7, <1>8, <1>9, <1>10 DEF Handle

\* The token that a client gets can be refreshed when it gets it.
THEOREM AnsweredTokenIsLive == Spec => IssuedTokenLives
<1>1. IInv /\ [Next]_vars =>
        [\A r \in Requests :
            /\ req[r].op \in {"register", "login", "refresh"}
            /\ req[r].pc # "done" /\ req'[r].pc = "done" /\ req'[r].res = "ok"
            => req'[r].minted \in stored']_vars
  <2>. SUFFICES ASSUME IInv, Next, NEW r \in Requests,
                       req[r].op \in {"register", "login", "refresh"},
                       req[r].pc # "done", req'[r].pc = "done",
                       req'[r].res = "ok"
                PROVE  req'[r].minted \in stored'
      BY DEF vars
  <2>1. TypeOK
      BY DEF IInv
  <2>2. Call(r) \/ Handle(r) \/ Respond(r) \/ Abort(r)
      BY <2>1, OthersStay DEF Next, Expiry, Tick, TokenExpires, IndexExpires
  <2>3. CASE SaveRefreshToken(r)
    <3>1. Answer(r, "ok") \/ Answer(r, "error")
        BY <2>3 DEF SaveRefreshToken
    <3>2. ~Answer(r, "error") /\ req'[r].minted = req[r].minted
        BY <2>1, <3>1, Ends DEF Results
    <3>. QED BY <2>3, <3>2 DEF SaveRefreshToken
  <2>4. CASE RefreshSwap(r)
    <3>1. req'[r].minted = req[r].minted
        BY <2>1, <2>4, Ends DEF RefreshSwap, Results
    <3>. QED BY <2>4, <3>1 DEF RefreshSwap, Swap, With
  <2>. QED BY <2>2, <2>3, <2>4, EndsWell
<1>. QED BY <1>1, Invariance, PTL DEF Spec, IssuedTokenLives

\* The handlers that write no token leave the tokens and the index alone.
LEMMA TokensStay ==
    ASSUME NEW r \in Requests, Call(r) \/ Handle(r) \/ Respond(r) \/ Abort(r)
    PROVE  \/ UNCHANGED <<stored, index, clock, missed>>
           \/ SaveRefreshToken(r) \/ RefreshSwap(r) \/ LogoutDrop(r) \/ RevokeFound(r)
<1>1. CASE Call(r)
    BY <1>1
    DEF Call, Register, Login, Logout, LogoutAll, Refresh, UpdateProfile,
        UpdateEmail, ChangePassword, DeleteAccount, Begin, stores
<1>2. CASE ExistsByEmail(r) \/ ExistsByUsername(r) \/ LoginFind(r) \/ LogoutGet(r)
    BY <1>2 DEF ExistsByEmail, ExistsByUsername, LoginFind, LogoutGet, stores
<1>3. CASE RefreshGet(r) \/ RefreshTTL(r) \/ RefreshRotate(r)
    BY <1>3 DEF RefreshGet, RefreshTTL, RefreshRotate, stores
<1>4. CASE ProfileRow(r) \/ VerifiedRow(r) \/ RevokeMembers(r)
    BY <1>4 DEF ProfileRow, VerifiedRow, RevokeMembers, stores
<1>5. CASE CreateUser(r) \/ ProfileWrite(r) \/ EmailUpdate(r) \/ PasswordUpdate(r)
    BY <1>5 DEF CreateUser, ProfileWrite, EmailUpdate, PasswordUpdate
<1>6. CASE DeleteRow(r) \/ Respond(r) \/ Abort(r)
    BY <1>6 DEF DeleteRow, Respond, Abort, stores
<1>. QED BY <1>1, <1>2, <1>3, <1>4, <1>5, <1>6 DEF Handle

\* What LiveTokensIndexed says of one token.
Found(t) ==
    t \in index[t.user] \/ t \in missed \/ clock + MaxDelay >= t.issued + Lifetime

\* A transaction that adds a token to the index of its user, and takes no
\* other token from it that stays stored, keeps the tokens indexed.
LEMMA IndexFollows ==
    ASSUME TypeOK, LiveTokensIndexed, UNCHANGED clock, NEW u \in Users,
           NEW add \in SUBSET Tokens, NEW drop \in SUBSET Tokens,
           \A t \in add : t.user = u,
           stored' \subseteq (stored \ drop) \cup add,
           missed \subseteq missed' \cup add,
           index' = [index EXCEPT ![u] = (@ \ drop) \cup add]
    PROVE  LiveTokensIndexed'
<1>. SUFFICES ASSUME NEW t \in stored' PROVE Found(t)'
    BY DEF LiveTokensIndexed, Found
<1>1. CASE t \in add
    BY <1>1 DEF TypeOK, Found
<1>2. CASE t \notin add
  <2>1. t \in stored /\ t \notin drop /\ t.user \in Users
      BY <1>2, Times DEF TypeOK
  <2>2. Found(t)
      BY <2>1 DEF LiveTokensIndexed, Found
  <2>. QED BY <1>2, <2>1, <2>2 DEF TypeOK, Found
<1>. QED BY <1>1, <1>2

\* Every step keeps the tokens indexed.
LEMMA IndexKept ==
    ASSUME IInv, LiveTokensIndexed, [Next]_vars
    PROVE  LiveTokensIndexed'
<1>1. TypeOK /\ StoredInv
    BY DEF IInv
<1>2. CASE UNCHANGED <<stored, index, clock, missed>>
    BY <1>2 DEF LiveTokensIndexed
<1>3. ASSUME NEW r \in Requests, SaveRefreshToken(r) PROVE LiveTokensIndexed'
  <2>1. PICK m \in Tokens : m = req[r].minted /\ m.user = req[r].user
      BY <1>3 DEF IInv, SaveRefreshToken, HoldsYoung
  <2>2. m.user \in Users /\ UNCHANGED clock
      BY <1>1, <1>3, Times DEF SaveRefreshToken
  <2>3. CASE /\ stored' = stored \cup {m}
             /\ index' = [index EXCEPT ![m.user] = @ \cup {m}]
             /\ missed' = missed \ {m}
    <3>1. PICK add \in SUBSET Tokens, drop \in SUBSET Tokens :
              add = {m} /\ drop = {}
        OBVIOUS
    <3>2. /\ stored' \subseteq (stored \ drop) \cup add
          /\ missed \subseteq missed' \cup add
          /\ index' = [index EXCEPT ![m.user] = (@ \ drop) \cup add]
          /\ \A t \in add : t.user = m.user
        BY <2>3, <3>1
    <3>. QED BY <1>1, <2>2, <3>2, IndexFollows
  <2>. QED BY <1>2, <1>3, <2>1, <2>2, <2>3 DEF SaveRefreshToken
<1>4. ASSUME NEW r \in Requests, RefreshSwap(r) PROVE LiveTokensIndexed'
  <2>1. PICK m \in Tokens : m = req[r].minted /\ m.user = Owner(r)
      BY <1>4 DEF IInv, RefreshSwap, At, HoldsYoung, Owner
  <2>2. PICK old \in Tokens : old = req[r].token
      BY <1>4 DEF IInv, RefreshSwap, At, WellFormed
  <2>3. m.user \in Users /\ UNCHANGED clock
      BY <1>1, <1>4, <2>1, Times DEF RefreshSwap
  <2>4. PICK add \in SUBSET Tokens, drop \in SUBSET Tokens :
            add = {m} /\ drop = {old}
      OBVIOUS
  <2>5. /\ stored' \subseteq (stored \ drop) \cup add
        /\ missed \subseteq missed' \cup add
        /\ index' = [index EXCEPT ![m.user] = (@ \ drop) \cup add]
        /\ \A t \in add : t.user = m.user
      BY <1>4, <2>1, <2>2, <2>4 DEF RefreshSwap, Swap, With, Without
  <2>. QED BY <1>1, <2>3, <2>5, IndexFollows
<1>5. ASSUME NEW r \in Requests, LogoutDrop(r) PROVE LiveTokensIndexed'
  <2>1. PICK old \in Tokens : old = req[r].token
      BY <1>5 DEF IInv, LogoutDrop, At, WellFormed
  <2>2. old.user \in Users /\ UNCHANGED <<clock, missed>> /\ Owner(r) = old.user
      BY <1>1, <1>5, <2>1, Times DEF LogoutDrop, Owner
  <2>3. CASE /\ stored' = stored \ {old}
             /\ index' = [index EXCEPT ![old.user] = @ \ {old}]
    <3>1. PICK add \in SUBSET Tokens, drop \in SUBSET Tokens :
              add = {} /\ drop = {old}
        OBVIOUS
    <3>2. /\ stored' \subseteq (stored \ drop) \cup add
          /\ missed \subseteq missed' \cup add
          /\ index' = [index EXCEPT ![old.user] = (@ \ drop) \cup add]
          /\ \A t \in add : t.user = old.user
        BY <2>2, <2>3, <3>1
    <3>. QED BY <1>1, <2>2, <3>2, IndexFollows
  <2>. QED BY <1>2, <1>5, <2>1, <2>2, <2>3 DEF LogoutDrop
<1>6. ASSUME NEW r \in Requests, RevokeFound(r) PROVE LiveTokensIndexed'
  <2>1. PICK u \in Users, found \in SUBSET Tokens :
            u = req[r].user /\ found = req[r].found
      BY <1>1, <1>6 DEF IInv, RevokeFound, WellFormed, TypeOK, Request
  <2>2. UNCHANGED clock
      BY <1>6 DEF RevokeFound
  <2>3. CASE /\ stored' = stored \ found
             /\ index' = [index EXCEPT ![u] = {}]
             /\ missed' = missed \cup (index[u] \ found)
    <3>. SUFFICES ASSUME NEW t \in stored' PROVE Found(t)'
        BY DEF LiveTokensIndexed, Found
    <3>1. t \in stored /\ t \notin found /\ t.user \in Users
        BY <1>1, <2>3, Times DEF TypeOK
    <3>2. Found(t)
        BY <3>1 DEF LiveTokensIndexed, Found
    <3>. QED BY <1>1, <2>2, <2>3, <3>1, <3>2 DEF TypeOK, Found
  <2>. QED BY <1>2, <1>6, <2>1, <2>2, <2>3 DEF RevokeFound
<1>7. CASE Expiry
  <2>1. CASE Tick
    <3>. SUFFICES ASSUME NEW t \in stored PROVE Found(t)'
        BY <2>1 DEF Tick, LiveTokensIndexed, Found
    <3>1. Found(t)
        BY DEF LiveTokensIndexed, Found
    <3>2. t \in Tokens /\ clock' = clock + 1 /\ UNCHANGED <<index, missed>>
        BY <1>1, <2>1 DEF TypeOK, Tick
    <3>. QED BY <1>1, <3>1, <3>2, Times DEF Found
  <2>2. CASE \E t \in Tokens : TokenExpires(t)
      BY <2>2 DEF TokenExpires, LiveTokensIndexed
  <2>3. ASSUME NEW u \in Users, IndexExpires(u) PROVE LiveTokensIndexed'
    <3>. SUFFICES ASSUME NEW t \in stored, t.user = u
                  PROVE  clock + MaxDelay >= t.issued + Lifetime
        BY <1>1, <2>3, Times DEF IndexExpires, LiveTokensIndexed, TypeOK
    <3>1. /\ t.issued + Lifetime <= until[u] + MaxDelay /\ clock >= until[u]
          /\ until[u] \in Nat /\ t \in Tokens
        BY <1>1, <2>3 DEF StoredInv, IndexExpires, TypeOK
    <3>. QED BY <1>1, <3>1, Times
  <2>. QED BY <1>7, <2>1, <2>2, <2>3 DEF Expiry
<1>. QED BY <1>2, <1>3, <1>4, <1>5, <1>6, <1>7, TokensStay DEF Next, vars

\* Every token that can still be refreshed is in the index of its user, short
\* of the last MaxDelay seconds of its life, unless a revocation has deleted
\* the index with an entry that it had not read.
THEOREM IndexIsComplete == Spec => []LiveTokensIndexed
<1>1. Init => LiveTokensIndexed
    BY DEF Init, LiveTokensIndexed
<1>2. IInv /\ LiveTokensIndexed /\ [Next]_vars => LiveTokensIndexed'
    BY IndexKept
<1>. QED BY <1>1, <1>2, Invariance, PTL DEF Spec
=============================================================================
