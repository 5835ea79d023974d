------------------------------ MODULE Sessions ------------------------------
(***************************************************************************)
(* Accounts and sessions: the auth service and the user service, over the  *)
(* PostgreSQL table users and, in Redis, a key refresh_token:{token} per   *)
(* live token and the set user_refresh_tokens:{user} that indexes them.    *)
(*                                                                         *)
(* A token is a JWT over the user and the times of issue and expiry, which *)
(* it holds in whole seconds: two tokens that one user is issued within a  *)
(* second are the same string.  The clock counts seconds.                  *)
(*                                                                         *)
(*   register   email, name, create, save                                  *)
(*   login      find, save                                                 *)
(*   logout     get, drop                                                  *)
(*   logoutall  members, revoke                                            *)
(*   refresh    get, ttl, rotate, swap                                     *)
(*   profile    row, write                                                 *)
(*   email      row, update                                                *)
(*   password   row, update, members, revoke                               *)
(*   remove     members, revoke, delete       (DeleteAccount)              *)
(***************************************************************************)
EXTENDS FiniteSets, Naturals

CONSTANTS
    Users, Emails, Names, Bios, Passwords, \* Names are user names
    Requests,   \* requests that can be in flight at the same time
    Ops,        \* the operations that the clients call
    Lifetime,   \* RefreshTokenExpiry, in seconds of the clock
    MaxDelay,   \* bound: seconds from the issue of a token to its save
    LastSecond, \* bound: the clock stops there
    Faults,     \* may a store call fail, or the server crash?
    None

AllOps == {"register", "login", "logout", "logoutall", "refresh", "profile",
           "email", "password", "remove"}

ASSUME OpsAssumption == Ops \subseteq AllOps
ASSUME ClockAssumption ==
    Lifetime \in Nat \ {0} /\ MaxDelay \in Nat /\ LastSecond \in Nat
ASSUME FaultsAssumption == Faults \in BOOLEAN
ASSUME NoneAssumption ==
    None \notin Users \cup Emails \cup Names \cup Bios \cup Passwords \cup AllOps

Tokens == [user: Users, issued: 0..LastSecond]

VARIABLES
    rows,       \* the rows of table users
    stored,     \* the tokens that have a key in Redis
    index,      \* index[u]: the set user_refresh_tokens:{u}
    until,      \* when the time to live of the index ends
    clock,
    missed,     \* history: whose entry a revocation deleted without reading it
    req         \* the requests in flight

stores == <<rows, stored, index, until, clock, missed>>
vars == <<rows, stored, index, until, clock, missed, req>>

-----------------------------------------------------------------------------
Row == [state: {"none", "active", "deleted"}, email: Emails \cup {None},
        name: Names \cup {None}, bio: Bios \cup {None},
        password: Passwords \cup {None}]

NoRow == [state |-> "none", email |-> None, name |-> None, bio |-> None,
          password |-> None]

PCs == {"idle", "email", "name", "create", "save", "find", "get", "drop",
        "members", "revoke", "ttl", "rotate", "swap", "row", "write",
        "update", "delete", "done"}

Results == {"ok", "conflict", "unauthorized", "notfound", "badrequest", "error"}

\* "email", "name" and "bio" are what the body asks for, None if it does not;
\* the bio "" clears the column.  "row" is the User struct that was read.
Request == [op: AllOps \cup {None}, pc: PCs, user: Users \cup {None},
            email: Emails \cup {None}, name: Names \cup {None},
            bio: Bios \cup {"", None}, password: Passwords \cup {None},
            new: Passwords \cup {None}, row: Row, token: Tokens \cup {None},
            minted: Tokens \cup {None}, found: SUBSET Tokens,
            res: Results \cup {None}]

Idle == [op |-> None, pc |-> "idle", user |-> None, email |-> None,
         name |-> None, bio |-> None, password |-> None, new |-> None,
         row |-> NoRow, token |-> None, minted |-> None, found |-> {},
         res |-> None]

TypeOK ==
    /\ rows \in [Users -> Row]
    /\ stored \subseteq Tokens
    /\ index \in [Users -> SUBSET Tokens]
    /\ until \in [Users -> Nat]
    /\ clock \in 0..LastSecond
    /\ missed \subseteq Tokens
    /\ req \in [Requests -> Request]

Init ==
    /\ rows = [u \in Users |-> NoRow]
    /\ stored = {}
    /\ index = [u \in Users |-> {}]
    /\ until = [u \in Users |-> 0]
    /\ clock = 0
    /\ missed = {}
    /\ req = [r \in Requests |-> Idle]

At(r, op, pc) == req[r].op = op /\ req[r].pc = pc

Goto(r, pc) == req' = [req EXCEPT ![r].pc = pc]

\* An answered request is its answer: to whom, which, and the token in it.
Answer(r, res) ==
    req' = [req EXCEPT ![r] =
              [Idle EXCEPT !.op = req[r].op, !.pc = "done", !.user = req[r].user,
                           !.minted = req[r].minted, !.res = res]]

Active(u) == rows[u].state = "active"

\* Mutant: the times of issue and expiry are swapped.
MintSwapped(u) == [user |-> u, issued |-> clock + Lifetime]

\* generateToken: what a token issued now to user u looks like.
Mint(u) == [user |-> u, issued |-> clock]

\* verifyToken: the exp claim.
Unexpired(t) == clock < t.issued + Lifetime

-----------------------------------------------------------------------------
(* Clients.  A caller of a protected route has an access token of a user   *)
(* who need not exist any more; a refresh token comes from a cookie, and a *)
(* browser sends none on logout (its Path is /v1/auth/refresh).            *)

Begin(r, pc, q) ==
    /\ q.op \in Ops
    /\ req[r].pc = "idle"
    /\ req' = [req EXCEPT ![r] = [q EXCEPT !.pc = pc]]
    /\ UNCHANGED stores

Callers == {u \in Users : rows[u].state # "none"}

\* The tokens that may have been handed out.
Known == {t \in Tokens : t.user \in Callers /\ t.issued <= clock}

Register(r) ==
    \E e \in Emails, n \in Names, p \in Passwords :
        Begin(r, "email", [Idle EXCEPT !.op = "register", !.email = e,
                                       !.name = n, !.password = p])

Login(r) ==
    \E e \in Emails, p \in Passwords :
        Begin(r, "find", [Idle EXCEPT !.op = "login", !.email = e,
                                      !.password = p])

\* A logout without a cookie reads nothing.
Logout(r) ==
    \/ \E t \in Known :
        Begin(r, "get", [Idle EXCEPT !.op = "logout", !.token = t])
    \/ Begin(r, "done", [Idle EXCEPT !.op = "logout", !.res = "ok"])

\* The route is not protected, so that no middleware has set user_id and the
\* handler passes an empty one on; "user" remembers who calls.
LogoutAll(r) ==
    \E u \in Callers :
        Begin(r, "members", [Idle EXCEPT !.op = "logoutall", !.user = u])

Refresh(r) ==
    \E t \in Known :
        Begin(r, "get", [Idle EXCEPT !.op = "refresh", !.token = t])

UpdateProfile(r) ==
    \E u \in Callers, n \in Names \cup {None}, b \in Bios \cup {"", None} :
        Begin(r, "row", [Idle EXCEPT !.op = "profile", !.user = u,
                                     !.name = n, !.bio = b])

UpdateEmail(r) ==
    \E u \in Callers, e \in Emails, p \in Passwords :
        Begin(r, "row", [Idle EXCEPT !.op = "email", !.user = u,
                                     !.email = e, !.password = p])

\* A new password that is not confirmed is refused before anything is read.
ChangePassword(r) ==
    \E u \in Callers, p, n \in Passwords :
        LET q == [Idle EXCEPT !.op = "password", !.user = u,
                              !.password = p, !.new = n]
        IN \/ Begin(r, "row", q)
           \/ Begin(r, "done", [Idle EXCEPT !.op = "password", !.user = u,
                                            !.res = "badrequest"])

DeleteAccount(r) ==
    \E u \in Callers :
        Begin(r, "members", [Idle EXCEPT !.op = "remove", !.user = u])

-----------------------------------------------------------------------------
(* Register and Login.                                                     *)

EmailTaken(e) == \E u \in Users : Active(u) /\ rows[u].email = e

NameTaken(n) == \E u \in Users : Active(u) /\ rows[u].name = n

ExistsByEmail(r) ==
    /\ At(r, "register", "email")
    /\ \/ EmailTaken(req[r].email) /\ Answer(r, "conflict")
       \/ ~EmailTaken(req[r].email) /\ Goto(r, "name")
    /\ UNCHANGED stores

ExistsByUsername(r) ==
    /\ At(r, "register", "name")
    /\ \/ NameTaken(req[r].name) /\ Answer(r, "conflict")
       \/ ~NameTaken(req[r].name) /\ Goto(r, "create")
    /\ UNCHANGED stores

\* Mutant: email is not unique in the table.
UniqueByName(u, row) ==
    \A v \in Users \ {u} : Active(v) => rows[v].name # row.name

\* The unique constraints on email and on username, for a row that user u has
\* or, if u is None, for a new one.
Unique(u, row) ==
    \A v \in Users \ {u} :
        Active(v) => rows[v].email # row.email /\ rows[v].name # row.name

NewRow(q) == [state |-> "active", email |-> q.email, name |-> q.name,
              bio |-> None, password |-> q.password]

\* The identifier of the new row is fresh.
\* Bound: an insert waits for an unused user identifier.
CreateUser(r) ==
    /\ At(r, "register", "create")
    /\ \/ ~Unique(None, NewRow(req[r])) /\ Answer(r, "error") /\ UNCHANGED rows
       \/ /\ Unique(None, NewRow(req[r]))
          /\ \E u \in Users :
              /\ rows[u].state = "none"
              /\ rows' = [rows EXCEPT ![u] = NewRow(req[r])]
              /\ req' = [req EXCEPT ![r].pc = "save", ![r].user = u,
                                    ![r].minted = Mint(u)]
    /\ UNCHANGED <<stored, index, until, clock, missed>>

LoginFind(r) ==
    /\ At(r, "login", "find")
    /\ LET matches(u) == Active(u) /\ rows[u].email = req[r].email
                             /\ rows[u].password = req[r].password
       IN \/ /\ Faults \/ \A u \in Users : ~matches(u)
             /\ Answer(r, "unauthorized")
          \/ \E u \in Users :
              /\ matches(u)
              /\ req' = [req EXCEPT ![r].pc = "save", ![r].user = u,
                                    ![r].minted = Mint(u)]
    /\ UNCHANGED stores

\* EXPIRE gives the index the time that was left to the token it has got last
\* when that was worked out, even if it had longer: "until" is the earliest
\* end that this can have.
Extend(u, t) == until' = [until EXCEPT ![u] = t.issued + Lifetime]

\* SET, SADD and EXPIRE in one transaction.
SaveRefreshToken(r) ==
    /\ req[r].pc = "save"
    /\ \/ /\ stored' = stored \cup {req[r].minted}
          /\ index' = [index EXCEPT ![req[r].user] = @ \cup {req[r].minted}]
          /\ Extend(req[r].user, req[r].minted)
          /\ missed' = missed \ {req[r].minted}
          /\ Answer(r, "ok")
       \/ /\ ~Unexpired(req[r].minted)
          /\ Answer(r, "error")
          /\ UNCHANGED <<stored, index, until, missed>>
    /\ UNCHANGED <<rows, clock>>

-----------------------------------------------------------------------------
(* Logout and Refresh.  The value of a token's key is its user.            *)

Owner(r) == req[r].token.user

LogoutGet(r) ==
    /\ At(r, "logout", "get")
    /\ \/ (req[r].token \notin stored \/ Faults) /\ Answer(r, "ok")
       \/ req[r].token \in stored /\ Goto(r, "drop")
    /\ UNCHANGED stores

\* DEL and SREM in one transaction; the handler ignores a failure.
LogoutDrop(r) ==
    /\ At(r, "logout", "drop")
    /\ \/ /\ stored' = stored \ {req[r].token}
          /\ index' = [index EXCEPT ![Owner(r)] = @ \ {req[r].token}]
       \/ Faults /\ UNCHANGED <<stored, index>>
    /\ Answer(r, "ok")
    /\ UNCHANGED <<rows, until, clock, missed>>

RefreshGet(r) ==
    /\ At(r, "refresh", "get")
    /\ \/ req[r].token \notin stored /\ Answer(r, "unauthorized")
       \/ req[r].token \in stored /\ Goto(r, "ttl")
    /\ UNCHANGED stores

\* TTL of a missing key is negative: expired.  The claims, not the key,
\* say for whom the new token is.
RefreshTTL(r) ==
    /\ At(r, "refresh", "ttl")
    /\ LET valid == req[r].token \in stored /\ Unexpired(req[r].token)
       IN \/ ~valid /\ Answer(r, "unauthorized")
          \/ /\ valid
             /\ req' = [req EXCEPT ![r].pc = "rotate",
                                   ![r].minted = Mint(Owner(r))]
    /\ UNCHANGED stores

\* ErrNotFound of RotateRefreshToken has no case in the handler.
RefreshRotate(r) ==
    /\ At(r, "refresh", "rotate")
    /\ \/ /\ req[r].token \notin stored \/ ~Unexpired(req[r].minted)
          /\ Answer(r, "error")
       \/ req[r].token \in stored /\ Goto(r, "swap")
    /\ UNCHANGED stores

Without(set, t) == set \ {t}
With(set, t) == set \cup {t}

\* Mutant: the new token is written before the old one is removed.
SwapLate(set, old, new) == Without(With(set, new), old)

\* DEL and SREM of the old token, then SET, SADD and EXPIRE of the new one.
Swap(set, old, new) == With(Without(set, old), new)

\* Mutant: the new token is not added to the index.
RefreshSwapUnindexed(r) ==
    /\ At(r, "refresh", "swap")
    /\ stored' = Swap(stored, req[r].token, req[r].minted)
    /\ index' = [index EXCEPT ![Owner(r)] = @ \ {req[r].token}]
    /\ Extend(Owner(r), req[r].minted)
    /\ missed' = missed \ {req[r].minted}
    /\ Answer(r, "ok")
    /\ UNCHANGED <<rows, clock>>

RefreshSwap(r) ==
    /\ At(r, "refresh", "swap")
    /\ LET old == req[r].token
           new == req[r].minted IN
        /\ stored' = Swap(stored, old, new)
        /\ index' = [index EXCEPT ![Owner(r)] = Swap(@, old, new)]
        /\ Extend(Owner(r), new)
        /\ missed' = missed \ {new}
    /\ Answer(r, "ok")
    /\ UNCHANGED <<rows, clock>>

-----------------------------------------------------------------------------
(* UpdateProfile reads the row, changes it as asked and writes the columns *)
(* of the profile, all of them; UpdateEmail and ChangePassword check the   *)
(* password on the row that they read.                                     *)

\* The row with what the request asks for.
Edited(row, q) ==
    [row EXCEPT !.name = IF q.name = None THEN @ ELSE q.name,
                !.bio = IF q.bio = None THEN @ ELSE IF q.bio = "" THEN None
                        ELSE q.bio]

ProfileRow(r) ==
    /\ At(r, "profile", "row")
    /\ LET u == req[r].user
           asked == req[r].name # None \/ req[r].bio # None
       IN \/ ~Active(u) /\ Answer(r, "notfound")
          \/ Active(u) /\ ~asked /\ Answer(r, "badrequest")
          \/ /\ Active(u) /\ asked
             /\ req' = [req EXCEPT ![r].pc = "write",
                                   ![r].row = Edited(rows[u], req[r])]
    /\ UNCHANGED stores

\* Mutant: the UPDATE writes every column of the row that was read.
ProfileColumnsAll(u, row) == row

\* What the UPDATE of a profile makes of the row of u.
ProfileColumns(u, row) == [rows[u] EXCEPT !.name = row.name, !.bio = row.bio]

\* An UPDATE of the row of the caller, which may be gone or collide by now.
Update(r, row) ==
    LET u == req[r].user IN
    \/ ~Active(u) /\ Answer(r, "notfound") /\ UNCHANGED rows
    \/ Active(u) /\ ~Unique(u, row) /\ Answer(r, "error") /\ UNCHANGED rows
    \/ /\ Active(u) /\ Unique(u, row)
       /\ rows' = [rows EXCEPT ![u] = row]
       /\ IF req[r].op = "password" THEN Goto(r, "members") ELSE Answer(r, "ok")

ProfileWrite(r) ==
    /\ At(r, "profile", "write")
    /\ Update(r, ProfileColumns(req[r].user, req[r].row))
    /\ UNCHANGED <<stored, index, until, clock, missed>>

VerifiedRow(r) ==
    /\ req[r].op \in {"email", "password"} /\ req[r].pc = "row"
    /\ LET u == req[r].user IN
        \/ ~Active(u) /\ Answer(r, "notfound")
        \/ Active(u) /\ rows[u].password # req[r].password
              /\ Answer(r, "unauthorized")
        \/ Active(u) /\ rows[u].password = req[r].password
              /\ Goto(r, "update")
    /\ UNCHANGED stores

EmailUpdate(r) ==
    /\ At(r, "email", "update")
    /\ Update(r, [rows[req[r].user] EXCEPT !.email = req[r].email])
    /\ UNCHANGED <<stored, index, until, clock, missed>>

PasswordUpdate(r) ==
    /\ At(r, "password", "update")
    /\ Update(r, [rows[req[r].user] EXCEPT !.password = req[r].new])
    /\ UNCHANGED <<stored, index, until, clock, missed>>

-----------------------------------------------------------------------------
(* Revocation: ChangePassword, DeleteAccount and LogoutAll.                *)

\* What follows a revocation, whether or not it failed.
Revoked(r) ==
    IF req[r].op = "remove" THEN Goto(r, "delete") ELSE Answer(r, "ok")

\* The user whose index is read; no set has the key of an empty user.
Subject(r) == IF req[r].op = "logoutall" THEN None ELSE req[r].user

Members(r) == IF Subject(r) = None THEN {} ELSE index[Subject(r)]

RevokeMembers(r) ==
    /\ req[r].pc = "members"
    /\ \/ (Members(r) = {} \/ (Faults /\ req[r].op # "logoutall")) /\ Revoked(r)
       \/ /\ Members(r) # {}
          /\ req' = [req EXCEPT ![r].pc = "revoke", ![r].found = Members(r)]
    /\ UNCHANGED stores

\* DEL of the tokens that were found and of the index, as it is by now.
RevokeFound(r) ==
    /\ req[r].pc = "revoke"
    /\ \/ /\ stored' = stored \ req[r].found
          /\ index' = [index EXCEPT ![req[r].user] = {}]
          /\ missed' = missed \cup (index[req[r].user] \ req[r].found)
       \/ Faults /\ UNCHANGED <<stored, index, missed>>
    /\ Revoked(r)
    /\ UNCHANGED <<rows, until, clock>>

DeleteRow(r) ==
    /\ At(r, "remove", "delete")
    /\ LET u == req[r].user IN
        \/ ~Active(u) /\ Answer(r, "notfound") /\ UNCHANGED rows
        \/ /\ Active(u)
           /\ rows' = [rows EXCEPT ![u] = [NoRow EXCEPT !.state = "deleted"]]
           /\ Answer(r, "ok")
    /\ UNCHANGED <<stored, index, until, clock, missed>>

-----------------------------------------------------------------------------
Respond(r) ==
    /\ req[r].pc = "done"
    /\ req' = [req EXCEPT ![r] = Idle]
    /\ UNCHANGED stores

Abort(r) ==
    /\ Faults
    /\ req[r].pc \notin {"idle", "done"}
    /\ Answer(r, "error")
    /\ UNCHANGED stores

\* Bound: no handler keeps a token it has issued for more than MaxDelay.
Tick ==
    /\ clock < LastSecond
    /\ \A r \in Requests : req[r].pc \in {"save", "rotate", "swap"} =>
           clock < req[r].minted.issued + MaxDelay
    /\ clock' = clock + 1
    /\ UNCHANGED <<rows, stored, index, until, missed, req>>

\* A key ends no earlier than the exp claim, which was computed before it.
TokenExpires(t) ==
    /\ t \in stored
    /\ ~Unexpired(t)
    /\ stored' = stored \ {t}
    /\ UNCHANGED <<rows, index, until, clock, missed, req>>

IndexExpires(u) ==
    /\ index[u] # {}
    /\ clock >= until[u]
    /\ index' = [index EXCEPT ![u] = {}]
    /\ UNCHANGED <<rows, stored, until, clock, missed, req>>

Call(r) ==
    \/ Register(r) \/ Login(r) \/ Logout(r) \/ LogoutAll(r) \/ Refresh(r)
    \/ UpdateProfile(r) \/ UpdateEmail(r) \/ ChangePassword(r) \/ DeleteAccount(r)

Handle(r) ==
    \/ ExistsByEmail(r) \/ ExistsByUsername(r) \/ CreateUser(r)
    \/ LoginFind(r) \/ SaveRefreshToken(r)
    \/ LogoutGet(r) \/ LogoutDrop(r)
    \/ RefreshGet(r) \/ RefreshTTL(r) \/ RefreshRotate(r) \/ RefreshSwap(r)
    \/ ProfileRow(r) \/ ProfileWrite(r)
    \/ VerifiedRow(r) \/ EmailUpdate(r) \/ PasswordUpdate(r)
    \/ RevokeMembers(r) \/ RevokeFound(r) \/ DeleteRow(r)

Expiry ==
    \/ Tick
    \/ \E t \in Tokens : TokenExpires(t)
    \/ \E u \in Users : IndexExpires(u)

Next ==
    \/ \E r \in Requests : Call(r) \/ Handle(r) \/ Respond(r) \/ Abort(r)
    \/ Expiry

Spec == Init /\ [][Next]_vars

-----------------------------------------------------------------------------
(* Properties.                                                             *)

\* Every token that can still be refreshed is in the index of its user, where
\* a revocation looks for it, although logins, refreshes and logouts of the
\* same token race, a rotation may replace a token by itself, and any call
\* may fail.  A save that is late shortens the life of the index, so that the
\* index may miss a token for the last MaxDelay seconds.  Otherwise only a
\* revocation takes an entry whose token lives on, one that it has not read.
LiveTokensIndexed ==
    \A t \in stored :
        \/ t \in index[t.user]
        \/ t \in missed
        \/ clock + MaxDelay >= t.issued + Lifetime

\* The token that a login or a refresh hands out is live when it does, even
\* if it is the very token that was presented.
IssuedTokenLives ==
    [][\A r \in Requests :
        /\ req[r].op \in {"register", "login", "refresh"}
        /\ req[r].pc # "done" /\ req'[r].pc = "done" /\ req'[r].res = "ok"
        => req'[r].minted \in stored']_vars

\* No email and no user name belongs to two accounts, whichever registrations,
\* renamings and changes of email race, and although a profile update writes
\* back a user name that somebody else may have taken since.
OneAccountPerEmail ==
    \A u, v \in Users :
        /\ Active(u) /\ Active(v)
        /\ rows[u].email = rows[v].email \/ rows[u].name = rows[v].name
        => u = v

\* The email and the password of an account change only to what a call of its
\* user, which showed a password of the account, has asked for: no update that
\* works from a row read earlier brings an old one back, and none brings back
\* an account that has been deleted.
CredentialsKept ==
    [][\A u \in Users : rows[u].state # "none" /\ rows'[u] # rows[u] =>
        /\ Active(u)
        /\ rows'[u].state = "active" =>
            /\ rows'[u].email # rows[u].email =>
                \E r \in Requests : /\ At(r, "email", "update")
                                    /\ <<u, rows'[u].email>> = <<req[r].user, req[r].email>>
            /\ rows'[u].password # rows[u].password =>
                \E r \in Requests : /\ At(r, "password", "update")
                                    /\ <<u, rows'[u].password>> = <<req[r].user, req[r].new>>
      ]_vars

-----------------------------------------------------------------------------
(* What a log line says and the code does not do.                          *)

\* internal/user/service.go:166: password changed, all sessions revoked.  No
\* token that is live when the revocation reports success survives it.
RevocationLeavesNone ==
    [][\A r \in Requests :
        At(r, "password", "revoke") /\ req'[r].res = "ok"
            => {t \in stored' : t.user = req[r].user} = {}]_vars

-----------------------------------------------------------------------------
(* The inductive invariant, proved in SessionsProofs.                      *)

\* What a request has when it is about to make a call.
WellFormed(q) ==
    /\ q.op \in Ops \cup {None}
    /\ q.pc \in {"save", "members", "revoke", "row", "write", "update", "delete"}
           => q.user \in Users
    /\ q.pc \in {"get", "drop", "ttl", "rotate", "swap"} => q.token \in Tokens
    /\ q.pc \in {"members", "revoke"} => q.op \in {"logoutall", "password", "remove"}
    /\ q.pc = "revoke" => q.op # "logoutall"
    /\ q.pc = "idle" => q.op = None

\* A token that a request holds but has not saved is young, and is for the
\* user whom the request saves it for.
HoldsYoung(q) ==
    q.pc \in {"save", "rotate", "swap"} =>
        /\ q.minted \in Tokens
        /\ q.minted.issued <= clock
        /\ clock <= q.minted.issued + MaxDelay
        /\ q.minted.user = IF q.pc = "save" THEN q.user ELSE q.token.user

\* No token comes from the future, and the index of its user lives nearly as
\* long as it does, whichever save was the last to set the time of the index.
StoredInv ==
    \A t \in stored :
        /\ t.issued <= clock
        /\ t.issued + Lifetime <= until[t.user] + MaxDelay

IInv ==
    /\ TypeOK
    /\ \A r \in Requests : WellFormed(req[r]) /\ HoldsYoung(req[r])
    /\ StoredInv
    /\ OneAccountPerEmail
=============================================================================
