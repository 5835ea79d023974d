# FlipChat: a verification project

TLA+ modules for the backend of FlipChat (Go, `backend/`), TLC runs that check
them on small instances, and TLAPS proofs for every instance. Paths below are
relative to `backend/` unless they start with `docs/`.

## The system

One Go server (Fiber) answers HTTP requests and keeps WebSocket connections.
It has no workers and no locks of its own but the hub's mutex: what is shared
between two requests lives in PostgreSQL, Redis and MinIO, and a request is a
goroutine that calls them one after the other, with almost no transactions
across calls.

| component | state | operations |
|---|---|---|
| message service (`internal/message`) | table `messages` | send, edit (within 15 minutes), soft delete, mark read; list |
| attachment service (`internal/attachment`) | MinIO objects; Redis `upload:{id}` (1 hour) | upload, download; the record is popped by a send |
| hub and client (`internal/ws`) | registry behind `Hub.mu`; per connection two goroutines, `sendCh`, `done` | register, unregister, send to a user, fan out; run, read pump, write pump, close |
| presence (`internal/presence`) | Redis `online:{user}` (35 s) | set online, set offline; look up |
| friend service (`internal/friend`) | table `friends`, one row per pair | add, accept, cancel, decline, unfriend; lists |
| block service (`internal/block`) | table `blocks` | block (one transaction with the friends row), unblock; list |
| conversation service (`internal/conversation`) | table `conversations`, unique per pair | get or create; lists |
| auth service (`internal/auth`) | table `users`; Redis `refresh_token:{token}` and the index `user_refresh_tokens:{user}` | register, login, logout, logout-all, refresh |
| user service (`internal/user`) | table `users` | profile, email, password, deletion; search |
| JWT, password policy, error mapping, configuration, logger, connectors, wiring | none that changes | |

How they interact:

- `message` calls `conversation.GetParticipants`, `block.IsBlockedEitherWay`,
  the upload store, the object store, and then `Hub.FanOutToConversation`.
- `attachment.Download` reads `message.FindByAttachmentID`.
- `friend` and `conversation` ask `block` before they write; `block` deletes
  from `friends` in its own transaction.
- `user` calls `auth` to revoke sessions on a change of password and on a
  deletion, and presence for search.
- `Client.Run` calls presence and `conversation.GetConversationsPartner`, and
  publishes through the hub.

What is hard: a handler decides on rows that it read some calls ago (edit,
delete, read, accept, cancel, refresh, registration); a call may fail or the
server may crash between two of them (upload, send, delete); two stores are
changed with no common transaction (PostgreSQL and MinIO, Redis and
PostgreSQL); keys expire; connections of one user replace each other while
both goroutines of each run; `done` is closed from two goroutines. The list
with lines and properties is `hazards` in `PROJECT.json`.

What makes each component correct:

- attachments: one holder at a time, from upload to message; no live message
  without its object; no object in two messages;
- messages: a deletion is final; no lost update; no event without a commit;
  one winner among racing deletions or receipts; replies stay in their
  conversation;
- hub: one connection per user; no double close; nobody waits for a client;
  goroutines end; presence follows connections in the end;
- friends, blocks, conversations: friendship needs both; a block ends it and
  refuses new ones; one conversation per pair; a removed account leaves no row;
  nobody waits for ever;
- accounts and sessions: one account per email and per user name; only the
  operations that are meant to change email and password do; a revocation finds
  every live token; a token that is handed out works;
- events: in the order of the requests, once, and none through a block;
- lists: no row twice, none skipped, and an end.

## Modules

| module | what it is |
|---|---|
| `Messages` | message and attachment services over PostgreSQL, Redis, MinIO |
| `Custody` | abstract: the life of an attachment; `Messages` implements it |
| `MessagesProofs` | the proofs about `Messages` |
| `CustodyProofs` | the proof that `Messages` implements `Custody` |
| `Hub` | registry, connections, channels, presence |
| `Registry` | abstract: what the hub promises; `Hub` implements it |
| `HubProofs` | the proofs about `Hub`, with the refinement of `Registry` |
| `Delivery` | handlers of the message service over `Registry`: the order of events |
| `DeliveryProofs` | the proofs about `Delivery` |
| `Social` | friends, blocks, creation of conversations, removal of accounts |
| `SocialProofs` | the proofs about `Social` |
| `Sessions` | accounts, refresh tokens, their index, the clock |
| `SessionsProofs` | the proofs about `Sessions` |
| `Pages` | lists that are read page by page while they change |
| `PagesProofs` | the proofs about `Pages` |
| `MCMessages`, `MCHub`, `MCDelivery`, `MCSocial`, `MCSessions`, `MCPages` | instances for TLC |

In `Messages`, `Social` and `Sessions` a request is a process: `req[r]` holds
the operation, its arguments, what it has read, the name `pc` of the call that
it makes next, and its result. The part of a handler between two store calls
runs in one step with the call before it, so a guard is the condition the code
tests and an `Answer` is its return. `Abort` (only if `Faults`) is any call that
fails without effect, and any crash; a call that took effect and reported an
error is its own step followed by `Abort`. A request that has been answered is
forgotten by `Respond`, so its slot can be used again and requests come for
ever.

`Messages`. `msgs` is the table; the conditional UPDATEs are the guards
`Stored(r).state = "live"` of `EditUpdate`, `DeleteUpdate`, `ReadUpdate`, and each
writes only the columns that the statement names. `SendPop` is the GET and DEL
of one Redis transaction: the record goes whoever asks. `RecordExpires` is the
TTL, and also a Redis that loses its memory. Time is only the edit window
(`late`). Participants of a conversation are a constant: no operation changes
them. Blocks come and go by themselves here; how they are made is in `Social`.

`Hub`. `run[c]` is the line of `Client.Run` that connection `c` executes next,
`pump[c]` that of `writePump`. `Register` is four steps, because `close()` is a
test and a close and the owner of the old connection may close too; `Unregister`
and the look-up of `SendToUser` are single steps that need the mutex. `closes[c]`
counts the closes of `done`. A write ends with the deadline that the code sets,
so `PumpMessage` and `PumpPing` never hang. `told[u]` is the last presence event
that the partners got.

`Registry` has three variables: which connection is current for a user, which
have ever been, and which have been told to close. `Promise` in `Hub` is the
mapping: the map of clients, the connections past their entry (`Entered`), and
those whose `done` is closed.

`Delivery` composes the message service with the hub. Of a handler it keeps what
follows its commit: the block check of `FanOutToConversation`, the look-up, the
enqueue into a channel that may be full or belong to a replaced connection, and
the answer. The connections are those of `Registry` (`Hub!Next`), so what is found
there holds for `Hub`, of which `HubProofs` shows that it takes no other steps.
`before` and `under` are history.

`Social`. The friends row of a pair, who asked (`agreed`, a history variable),
and `lock`, the transaction that has the row deleted and uncommitted: PostgreSQL
at READ COMMITTED makes every other writer of that row wait. `under` is history:
the requests that have had a block against them all the time. `accounts` is
table `users` as the foreign keys of the three tables see it: an INSERT waits for a
DELETE of one of its users that is under way (`going`), and fails if the user is
gone. `RemoveLock` and `RemoveCascade` are the one DELETE of `DeleteAccount`, cut
where it waits for the friends rows that a block transaction holds; if it waits
for several, it does so for all at once. A block and a removal can each wait for
the other; `DeadlockTimeout` is PostgreSQL's remedy. The revocation of sessions
that precedes the DELETE is in `Sessions`.

`Sessions`. A token is its user and the second of its issue: the claims hold
whole seconds, so two tokens of a user within a second are one string, and a
token refreshed within its first second is rotated to itself. `stored` are the
token keys, `index` the set of a user, `until` the earliest end of that set, and
`missed` is history: the tokens whose entry a revocation deleted unread. A row
of `users` has email, user name, bio (for all optional profile columns) and
password. `UpdateProfile` reads the row, changes the fields that the body names
and writes every profile column back; `UpdateEmail` and `ChangePassword` read the
row, compare the password and update one column. Access tokens are not modelled
but for the user they name, who may be deleted already.

`Pages`. A client reads messages (by identifier, newest first), the results of
a search, or his friends or requests (by user id), a page at a time. `Page` is one
SELECT with one row more than asked for; the server keeps nothing in between.
`Draw` and `Create` are apart, because `SendMessage` draws its identifier before the
INSERT. `CutPage` is a connection that breaks while `Search` reads its rows.
`shown`, `stay` and `cut` are history.

## Runs

`PROJECT.json` says in a sentence what each run shows.

| run | bounds | why they are enough |
|---|---|---|
| custody | send, delete, upload, download; 2 requests, 2 conversations with a common user, 1 attachment, 2 message identifiers, faults | any two of: upload, two sends, deletion, download; a second identifier is what a shared object would need |
| whole | all six; 2 requests, 1 conversation, 1 message, 1 text, no faults | every pair of handlers on one row; liveness, which faults would forbid: with them the object may stay, as the code says |
| registry | 3 connections of one user, faults | a replacer that is itself replaced |
| ends | 2 connections and a sender, channel of 1, no faults | replacement and end, a full channel; the key stays away from who has left and comes back to who has not |
| events | 2 requests, 2 connections of one participant, the other one not connected, channel of 1 | an order needs two events, a replacement two connections, an overflow two events for one place |
| races | all nine operations; 2 users, 2 requests, faults | every pair of operations, one holding a row and one waiting, each waiting for the other |
| accounts | register, logout-all, profile, email, password, removal; 2 users, 2 emails, 2 user names, 1 bio, 2 passwords, 2 requests, faults; the clock stands | a stale row of one account against every operation on it and on another one that wants its email or name |
| tokens | register, login, refresh, logout, password; 1 user, 2 requests, 4 seconds, `Lifetime` 3, faults | see below |
| pages | the three kinds of lists; 6 identifiers, page sizes none, 1 and too many (2 is the default and the most), broken connections | three full pages, rows that come and go before, in and after each; readers do not touch rows, so one is enough |
| retract, silent, password | the smallest instance that shows it | |

`registry`, `ends`, `retract`, `silent` and `events` do not check deadlock, because all
connections of the instance may have ended, nor do `accounts` and `tokens`, because
the clock stops and a registration may wait for a free identifier.

Every safety property and both refinements that these runs check are also proved for
all sizes and with faults (below), so that the runs are a test of the proofs' premises
and of the mutants more than the evidence itself. The liveness properties rest on the
runs alone. In `custody` a message has an attachment and no text, and `whole` has one
message: no instance holds two messages at once, so that `ReplyInConversation`, which
needs two, is proved but not run.

`Lifetime` and the clock in `tokens` are such that a token is saved, replaced in
its first second or later, and expires while a younger one lives. `MaxDelay` bounds
how long a handler holds a token that it has issued; `LiveTokensIndexed` states
the dependence on it. `LastSecond`, `MaxId`, `RoomForMessage`, `RoomForAttachment` and
the wait of `CreateUser` for an identifier are bounds of the instances. Symmetry is
used only in runs without liveness (`custody`, `registry`, `accounts`, `tokens`), over
identifiers that the code compares for equality only.

The runs with `expect` violation each show one sentence of a document, comment or
test that the code does not keep; `findings` in `PROJECT.json` quotes them.

### Fairness

`Messages`: weak fairness of every handler, of the answer and of the expiry of
records; a handler's steps are never disabled by others for ever. `Hub`: weak
fairness of both goroutines of a connection, of senders and of expiry; strong
fairness of `PumpDone` and `PumpPing`, since Go's `select` chooses at random
among the ready cases, so that a stream of events does not hide `done` or the
ticker. `Social`: strong fairness of a handler, since a waiter of a row lock may
be disabled by the next transaction and PostgreSQL queues waiters; the deadlock
timeout is one of its steps. `Delivery`: weak fairness of `writePump` (its start
and its writes), and of nothing else: what is in a channel does not need its
sender any more. `Pages`: weak fairness of `Page`, a client that goes on asking; that
it comes to an end is then due to the code, as each page moves the cursor on and
there are only so many identifiers beyond it (`MaxId` here). Nothing makes a client
call, a peer leave, or a heartbeat come.

## Proofs

Every component has an inductive invariant `IInv`, a conjunction of named parts in
the component's module, and theorems `Invariance` (`Spec => []IInv`) and `TypeCorrect`.
TLC has checked each `IInv` on the instances of the runs before it was proved. The
proofs hold for any sets of users, connections, messages, requests and so on, with or
without faults, and under the named assumptions on the constants only. One lemma per
action, or per group of actions that do the same to the state, shows that it preserves
the invariant.

| theorem | property |
|---|---|
| `MessagesProofs` `SingleCustodian`, `SendersOwnObject`, `DownloadsFind` | `OneCustodian`, `LiveAttachmentStored`, `AuthorisedDownloadFinds` |
| `Replies`, `CommitsFirst`, `SingleWinner` | `ReplyInConversation`, `EventsFollowCommits`, `OneWinner` |
| `Tombstones`, `Updates` | `TombstoneFinal`, `NoLostUpdate` (actions) |
| `CustodyProofs` `Refinement` | `LifeSpec` (refinement) |
| `HubProofs` `NoDoubleClose`, `LiveRegistry`, `ReplacedClosed` | `ClosedOnce`, `RegisteredIsLive`, `ReplacedIsClosed` |
| `Refinement` | `RegistrySpec` (refinement) |
| `DeliveryProofs` `EventsInOrder`, `BlocksSilence` | `InOrder`, `BlockedUntold` |
| `SocialProofs` `FriendshipNeedsBoth`, `BlocksRefuse`, `NothingLeft` | `Consent`, `BlockRefuses`, `NobodyLeft` |
| `BlockEndsFriendship` | `BlockTakesFriendship` (action) |
| `SessionsProofs` `AccountsAreUnique`, `IndexIsComplete` | `OneAccountPerEmail`, `LiveTokensIndexed` |
| `OldCredentialsStayOld`, `AnsweredTokenIsLive` | `CredentialsKept`, `IssuedTokenLives` (actions) |
| `PagesProofs` `NoRepeats`, `NothingSkipped`, `PromisesKept` | `NothingTwice`, `Complete`, `MoreIsThere` |

`Messages`. None of the properties is inductive. A record must know who stored the
object (else a pop could claim somebody else's), the holders of an attachment must
exclude each other pairwise, and what a request remembers must still be so: that
the reply target exists in its conversation, that a deletion's row names the same
attachment, that an event's change is committed. `IInv` is the conjunction of
`RowInv`, `AttachmentInv`, `RequestInv` and `OneWinner`, one row, attachment or request
at a time. Lemma `Quiet` covers the steps that only move a request, `Revision`
every UPDATE of an existing row, and one lemma each the steps that move an
attachment (`UploadPut`, `UploadSave`, `SendPop`, `SendCreate`, `DeleteObject`).

`Custody`. The abstract variable is the stage of each attachment, which `StageOf`
reads off the stores and the requests. From `OneCustodian` follows that at most one
of the facts it asks for holds (`Exclusive`), so that a step which changes one of
them is one move of one attachment (`Advances`) and any other step a stutter
(`Rests`). Every way in which a request can stop (an answer, a failure, a crash, a
check that refuses) goes through `GivesUp`: what it held is an orphan from then on.
`Custody` lets an orphan be cleaned up, as ADR-001 has it; the code never takes that
step (*Orphans*, below).

`Hub`. The point is `DoneInv`: a connection that still serves can have its channel
closed only by a registration of its own user that holds the mutex and is about to
enter, and a connection that closes its own channel has left the registry, so that
the test and the close of `close()` cannot be overtaken. The refinement of `Registry`
uses it twice: a connection enters once, and the one in whose place it enters has
been told to close before.

`Delivery`. The line of a connection is what it has been sent followed by what is in
its channel: an enqueue appends to it and a write moves an event within it. An event
in a line comes from a handler that is at its answer (`LineInv`), so a handler that
enqueues has no event in any line; and only an answered request is before another
one (`BeforeInv`), so that none comes after it either: its event may stand last.
`HandlerInv` says that a request which has been under a block all the time never
comes past its check.

`Social`. The row locks carry the proof: who holds the row of a pair is a block
transaction at its commit (`PairInv`), and every writer of a row asks for its lock, so
that what the DELETE has found cannot change under it. `agreed` within the two users
of the pair, and a pending request that its requester has agreed to, make `Consent`
inductive; a request under a block that never comes past its check (`RequestInv`)
makes `BlockRefuses` so.

`Sessions`. `OneAccountPerEmail` is inductive with the types: the unique constraints
keep it, and the two checks before the INSERT contribute nothing. The tokens need
`HoldsYoung` (a token that a request holds and has not saved is for the user whom it
saves it for, and no older than `MaxDelay`) and `StoredInv` (the index of a user ends at
most `MaxDelay` before any of his stored tokens, whichever save was the last to set
its time). From these follows that an index which expires takes only tokens in the
last `MaxDelay` seconds of their lives. A revocation takes others: it deletes the index
as it is by then, and with it the entry of a token saved since it read the set, which
is what the finding about `RevocationLeavesNone` shows. The history variable `missed`
holds exactly these tokens, until they are saved again, and `LiveTokensIndexed` says
that a live token outside the index is one of them or about to end: there is no other
way to lose an entry. It is proved with every operation, as `CredentialsKept` and
`IssuedTokenLives` are.

`Pages`. What a page is comes from lemmas about `First` on any finite set of
identifiers: it is a prefix of the list (`Prefix`), has no more rows than were asked
for (`Bounded`) and no fewer if there are any (`Filled`). So a page without an extra row
is all that was left (`LastPage`), and one with it ends at a row that all others come
after, one at least (`MorePages`). The first and the last row of a set exist because
proper inclusion of finite sets is well founded, which the library proves. `ReaderInv`
is then what the cursor stands for: nothing received is beyond it, and everything
that stayed and is not beyond it has been received.

Only model-checked: all liveness (`DeletedObjectRemoved`, `GoroutinesEnd`,
`SendersGoOn`, `PresenceHeals`, `AwayStaysOffline`, `Delivered`, `Answered`, `ReachesEnd`),
since the prover handles neither fairness nor ENABLED. No definition is recursive, so
that no theorem is kept from the prover for that reason.

## Differences

Three are shown by a run (`findings`): an offline event of a replaced connection that
comes after the online event of its successor (`retract`), a client that never sends a
heartbeat and stays online (`silent`), and a login that survives a change of password
(`password`). The others were met while modelling; the
modules contain their steps, and no run states them.

Between two requests:

- *Orphans.* An upload whose record expires leaves its object in MinIO for ever:
  nothing deletes objects but a message deletion. `docs/adr/adr-001-attachment-upload-metadata.md:62`
  says that the TTL cleans them up. (`UploadPut`, `UploadSave`, `RecordExpires`: stage
  `orphan` of `Custody`.)
- *Read twice.* Two receipts read the row unread; the second UPDATE finds no row
  and is answered 404. `docs/paths/messages.yaml:249` calls it idempotent.
- *Block and delivery.* A block committed after the check of `FanOutToConversation`
  does not stop the delivery. `docs/websocket.md:209` speaks of the time of delivery.
  `BlockedUntold` covers only a block that stands from the start of the request.
- *Ticker and heartbeat.* `docs/websocket.md:170` and `:221` have presence end 35
  seconds after the last heartbeat of the client, even if the connection is open. The
  ticker of `writePump` refreshes the key every 30 seconds whether or not a heartbeat
  has come, and the comment at `internal/ws/client.go:159` wants it so.
  `PresenceHeals` holds with the code and the comment; `silent` shows what the document
  says to be false. (In `Hub` a key may end before each refresh, since time has no
  length there; with the real times it is kept without a gap.)
- *Friends beside a block.* An add or an accept has passed its block check, a block
  commits and finds no accepted row to delete, and `UpsertFriend` inserts or accepts
  (`internal/friend/service.go:147`): the two are friends, or one is asked, under a
  block. `BlockRefuses` speaks of a block that stands from the start of a request to
  its end, and of this window it says nothing.
- *Presence overwritten.* A connection leaves the registry, a newer one sets the
  key and registers, and `SetOffline` of the old one deletes the key; the comment
  at `internal/ws/client.go:75` forbids it. The ticker repairs it (`PresenceHeals`).
- *Accept after cancel.* An accept reads a pending row, the requester cancels, and
  `UpsertFriend` inserts a pending request of the accepting user; the answer is
  200, "Friend request accepted" (`docs/paths/friends.yaml:163`).
- *Cancel after accept.* A cancel reads "pending", the other user accepts, and
  `DeleteByPair` ends the friendship (`internal/friend/service_test.go:378` expects a
  conflict for an accepted request). Decline and unfriend delete in the same way.
- *Conversation created twice.* The loser's INSERT violates the unique pair: 500,
  where `docs/paths/conversations.yaml:27` returns the existing one.
- *Registration.* The loser of two with one email is answered 500, not 409
  (`internal/auth/handler_test.go:183`).
- *Refresh after deletion.* A session saved between the revocation and the deletion
  of the row is refreshed afterwards, since `Refresh` does not read the user; the
  comment at `internal/user/service.go:172` wants the opposite.
- *Stale profile.* `UpdateProfile` writes every profile column of a row that it
  read before (`internal/user/service.go:109`): of two updates of different fields one
  is lost. `CredentialsKept` shows that it stays with these columns.
- *Stale password.* `UpdateEmail` and `ChangePassword` compare a password that may
  have been replaced by the time they write: a change asked for with the old one
  succeeds after the new one.
- *Name or email taken.* `UpdateProfile` and `UpdateEmail` leave the duplicate to the
  unique constraint and do not translate its error: 500, where
  `docs/paths/users.yaml:51` and `:98` have 409.
- *Block against removal.* A block that has the friends row waits for the users row
  that a removal has, which waits for the friends row. PostgreSQL aborts one of the
  two (`DeadlockTimeout`), which is answered 500.
- *Search cut short.* `Search` does not ask for `rows.Err()`
  (`internal/user/repository.go:160`): a connection that breaks while the rows are
  read looks like the end of the list (`CutPage`). `Complete` excuses a reading that was cut.
- *Late message.* A message that draws its identifier before another one and
  commits after it appears behind the cursor of a client that has read so far; he
  sees it when he reads anew (`Complete` speaks of rows that were there all the time).
- *Double refresh.* Two rotations of one token both pass the GET and both succeed
  (`docs/adr/adr-002-refresh-token-reuse-detection.md:11`: a reused token is rejected).
  `IssuedTokenLives` holds of both answers and does not exclude it.

Of one request alone:

- A deletion keeps `metadata` (`docs/paths/messages.yaml:198`: cleared, and null in the
  example of `docs/websocket.md`). `NoLostUpdate` says nothing of the deletion's own
  step; `DeleteUpdate` keeps the attachment, as the code does.
- ADR-001 says that the object key is never returned; it is part of `metadata`,
  which `toResponse` returns.
- The second of two sequential deletions is answered 409, the loser of two
  concurrent ones 404.
- The refresh cookie has the path `/v1/auth/refresh`, so a browser sends none to
  logout, and logout revokes nothing; it answers 200 where `docs/paths/auth.yaml`
  says 204.
- Logout-all is registered outside the group of protected routes
  (`cmd/server/main.go:122`), so `internal/auth/handler.go:118` finds no user, revokes
  nothing and answers 204; `docs/paths/auth.yaml:134` protects it by the access token.
- The block list never sets `next_cursor`, and its condition on the cursor compares a
  `uuid` with `$2::text` (`internal/block/repository.go:67`, `internal/block/service.go:64`);
  `docs/paths/blocks.yaml:7` describes pages. No test runs it on a database.
- `messages.sender_id` and `messages.deleted_by` have no cascade: if PostgreSQL checks
  them before the cascade over the conversation has reached the messages, the
  account of a user who has sent one cannot be deleted (500). `Abort` covers it.
- `ChangePassword` does not call `ValidatePassword`, which `Register` does.
- A second block of the same user is answered 500; `docs/paths/blocks.yaml` has 409.
- `RotateRefreshToken` returns not-found when the token is gone, for which the
  refresh handler has no case: 500.
- The answer of an accept names the accepting user himself.
- `docs/paths/friends.yaml` and the routes differ for cancel and decline.

## Not modelled

- Reads that change nothing and decide nothing later: profiles, one friend, the
  conversation list, the block list (see above), presence of others.
- The test of the first bytes of a file and the rules for passwords: pure functions
  over strings whose result is a guard of one step.
- The mapping of errors is modelled by the class of an answer, not by its text.
- A restart of the server in `Hub`: the registry begins anew and the presence keys
  of its connections end by their time to live, as after a crash of all of them.
  In `Messages`, `Social` and `Sessions` a crash is `Abort` of the requests in flight.
- In `Messages` the participants of a conversation are constant: the removal of an
  account with its conversations is in `Social`. Messages that go with a
  conversation leave their objects in MinIO, as an expired record does.
- Access tokens and the JWT middleware: an access token outlives a revocation by
  design (`docs/paths/auth.yaml`), so a caller is any user there has been.
- JWT signatures, logging, configuration, connectors, migrations, test helpers.

## Plan

The order has been: `Messages` with `Custody` and its proofs (the core of the
product), `Hub` and its proofs (the only shared memory), `Social`, `Sessions`; then
`Registry` and its refinement, the user service in `Sessions`, the removal of accounts
in `Social`, `Pages` and `Delivery`; then the proofs of all components and of the
refinement of `Custody`. What is left:

1. Steps of the liveness arguments that need no fairness, where they say something
   by themselves (each page moves its cursor on; a closed connection takes no event).
2. Pure operators: `DetectMIME`, `ValidatePassword` against reference definitions over
   bounded inputs.
