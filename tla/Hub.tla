-------------------------------- MODULE Hub --------------------------------
(***************************************************************************)
(* The WebSocket hub: the registry of connections behind a mutex, and, for *)
(* every connection, the goroutine of Client.Run with its read loop and    *)
(* the goroutine of writePump.  Handlers of other requests look a client   *)
(* up and put events into its channel.  Presence is a key in Redis with a  *)
(* time to live.                                                           *)
(*                                                                         *)
(* A step is what a goroutine does between two points at which another one *)
(* can be seen: a Redis call, taking the mutex, a channel operation.       *)
(*                                                                         *)
(*   run    new, online, register, check, close, put, announce, read,      *)
(*          beat, unregister, farewell, offline, lastseen, selfcheck,      *)
(*          selfclose, gone                                                *)
(*   pump   new, loop, refresh, gone                                       *)
(***************************************************************************)
EXTENDS Naturals

CONSTANTS
    Users, Clients, \* a client is one connection and is never used again
    Owner,          \* Owner[c]: the user whose token opened connection c
    Senders,        \* goroutines that call SendToUser
    Cap,            \* capacity of a client's channel (256 in the code)
    Faults,         \* may Redis or the partner query fail?
    None

ASSUME OwnerAssumption == Owner \in [Clients -> Users]
ASSUME CapAssumption == Cap \in Nat \ {0}
ASSUME FaultsAssumption == Faults \in BOOLEAN
ASSUME NoneAssumption == None \notin Clients

VARIABLES
    clients,    \* Hub.clients: the registered client of a user, or None
    mu,         \* the client whose Run holds Hub.mu across steps, or None
    run, pump,  \* where the two goroutines of a client are
    closes,     \* how often close(c.done) has run; a second time panics
    conn,       \* the connection: none, open, broken (peer gone), closed
    queued,     \* the number of events in sendCh
    send,       \* the client that a sender has looked up, or None
    presence,   \* does the key online:{user} exist?
    told        \* the last presence event that a user's partners were sent

vars == <<clients, mu, run, pump, closes, conn, queued, send, presence, told>>
registry == <<clients, mu, closes>>
redis == <<presence, told>>

RunPCs == {"new", "online", "register", "check", "close", "put", "announce",
           "read", "beat", "unregister", "farewell", "offline", "lastseen",
           "selfcheck", "selfclose", "gone"}

PumpPCs == {"new", "loop", "refresh", "gone"}

TypeOK ==
    /\ clients \in [Users -> Clients \cup {None}]
    /\ mu \in Clients \cup {None}
    /\ run \in [Clients -> RunPCs]
    /\ pump \in [Clients -> PumpPCs]
    /\ closes \in [Clients -> Nat]
    /\ conn \in [Clients -> {"none", "open", "broken", "closed"}]
    /\ queued \in [Clients -> 0..Cap]
    /\ send \in [Senders -> Clients \cup {None}]
    /\ presence \in [Users -> BOOLEAN]
    /\ told \in [Users -> {"nothing", "online", "offline"}]

Init ==
    /\ clients = [u \in Users |-> None]
    /\ mu = None
    /\ run = [c \in Clients |-> "new"]
    /\ pump = [c \in Clients |-> "new"]
    /\ closes = [c \in Clients |-> 0]
    /\ conn = [c \in Clients |-> "none"]
    /\ queued = [c \in Clients |-> 0]
    /\ send = [s \in Senders |-> None]
    /\ presence = [u \in Users |-> FALSE]
    /\ told = [u \in Users |-> "nothing"]

Move(c, from, to) == run[c] = from /\ run' = [run EXCEPT ![c] = to]

-----------------------------------------------------------------------------
(* Presence store: both calls log an error and go on.                      *)

SetOnline(c) ==
    /\ \/ presence' = [presence EXCEPT ![Owner[c]] = TRUE]
       \/ Faults /\ UNCHANGED presence
    /\ UNCHANGED told

SetOffline(c) ==
    /\ \/ presence' = [presence EXCEPT ![Owner[c]] = FALSE]
       \/ Faults /\ UNCHANGED presence
    /\ UNCHANGED told

\* fanOutPresence, to a partner that no block separates from the user.
FanOutPresence(c, event) ==
    /\ \/ told' = [told EXCEPT ![Owner[c]] = event]
       \/ Faults /\ UNCHANGED told
    /\ UNCHANGED presence

-----------------------------------------------------------------------------
(* Client.Run until the pumps run: SetOnline, Register, fanOutPresence.    *)

Connect(c) ==
    /\ Move(c, "new", "online")
    /\ conn' = [conn EXCEPT ![c] = "open"]
    /\ UNCHANGED <<registry, redis, pump, queued, send>>

RunOnline(c) ==
    /\ Move(c, "online", "register")
    /\ SetOnline(c)
    /\ UNCHANGED <<registry, pump, conn, queued, send>>

\* Mutant: an old connection is overwritten and left open.
RegisterLockOverwrites(c) ==
    /\ mu = None
    /\ mu' = c
    /\ Move(c, "register", "put")
    /\ UNCHANGED <<redis, clients, closes, pump, conn, queued, send>>

\* Register takes the mutex and looks for an old connection.
RegisterLock(c) ==
    /\ mu = None
    /\ mu' = c
    /\ Move(c, "register", IF clients[Owner[c]] # None THEN "check" ELSE "put")
    /\ UNCHANGED <<redis, clients, closes, pump, conn, queued, send>>

\* Mutant: close() does not look whether the channel is closed.
CloseUnchecked(c, d, from, closing, closed) ==
    /\ Move(c, from, closing)
    /\ UNCHANGED <<registry, redis, pump, conn, queued, send>>

\* close() looks at the channel first and closes it later: it is not atomic.
CloseCheck(c, d, from, closing, closed) ==
    /\ Move(c, from, IF closes[d] = 0 THEN closing ELSE closed)
    /\ UNCHANGED <<registry, redis, pump, conn, queued, send>>

CloseDone(c, d, from, closed) ==
    /\ Move(c, from, closed)
    /\ closes' = [closes EXCEPT ![d] = @ + 1]
    /\ UNCHANGED <<redis, clients, mu, pump, conn, queued, send>>

RegisterCheck(c) ==
    run[c] = "check" /\ CloseCheck(c, clients[Owner[c]], "check", "close", "put")

RegisterClose(c) ==
    run[c] = "close" /\ CloseDone(c, clients[Owner[c]], "close", "put")

\* Mutant: the mutex is not released.
RegisterPutLocked(c) ==
    /\ Move(c, "put", "announce")
    /\ clients' = [clients EXCEPT ![Owner[c]] = c]
    /\ UNCHANGED <<redis, mu, closes, pump, conn, queued, send>>

RegisterPut(c) ==
    /\ Move(c, "put", "announce")
    /\ clients' = [clients EXCEPT ![Owner[c]] = c]
    /\ mu' = None
    /\ UNCHANGED <<redis, closes, pump, conn, queued, send>>

\* The last step before the pumps: go c.writePump() and readPump.
RunAnnounce(c) ==
    /\ Move(c, "announce", "read")
    /\ FanOutPresence(c, "online")
    /\ pump' = [pump EXCEPT ![c] = "loop"]
    /\ UNCHANGED <<registry, conn, queued, send>>

-----------------------------------------------------------------------------
(* readPump and the end of Client.Run.                                     *)

ReadHeartbeat(c) ==
    /\ conn[c] = "open"
    /\ Move(c, "read", "beat")
    /\ UNCHANGED <<registry, redis, pump, conn, queued, send>>

HandleHeartbeat(c) ==
    /\ Move(c, "beat", "read")
    /\ SetOnline(c)
    /\ UNCHANGED <<registry, pump, conn, queued, send>>

\* ReadMessage fails: the peer has closed, has not answered a ping for
\* pongWait, or writePump has closed the connection.
ReadFails(c) ==
    /\ conn[c] # "open"
    /\ Move(c, "read", "unregister")
    /\ conn' = [conn EXCEPT ![c] = "closed"]
    /\ UNCHANGED <<registry, redis, pump, queued, send>>

\* Mutant: the client is not removed.
UnregisterForgets(c) ==
    /\ mu = None
    /\ Move(c, "unregister", IF clients[Owner[c]] = c THEN "farewell" ELSE "lastseen")
    /\ UNCHANGED <<redis, clients, mu, closes, pump, conn, queued, send>>

Unregister(c) ==
    /\ mu = None
    /\ \/ /\ clients[Owner[c]] = c
          /\ clients' = [clients EXCEPT ![Owner[c]] = None]
          /\ Move(c, "unregister", "farewell")
       \/ /\ clients[Owner[c]] # c
          /\ Move(c, "unregister", "lastseen")
          /\ UNCHANGED clients
    /\ UNCHANGED <<redis, mu, closes, pump, conn, queued, send>>

RunFarewell(c) ==
    /\ Move(c, "farewell", "offline")
    /\ FanOutPresence(c, "offline")
    /\ UNCHANGED <<registry, pump, conn, queued, send>>

RunOffline(c) ==
    /\ Move(c, "offline", "lastseen")
    /\ SetOffline(c)
    /\ UNCHANGED <<registry, pump, conn, queued, send>>

\* UpdateLastSeen writes a time that nothing here reads.
RunLastSeen(c) ==
    /\ Move(c, "lastseen", "selfcheck")
    /\ UNCHANGED <<registry, redis, pump, conn, queued, send>>

\* The deferred c.close(), which does not take the mutex.
RunCloseCheck(c) == CloseCheck(c, c, "selfcheck", "selfclose", "gone")
RunClose(c) == CloseDone(c, c, "selfclose", "gone")

-----------------------------------------------------------------------------
(* writePump: one select over sendCh, the ticker and done.                 *)

\* The deferred conn.Close().
PumpEnds(c) ==
    /\ pump' = [pump EXCEPT ![c] = "gone"]
    /\ conn' = [conn EXCEPT ![c] = "closed"]

\* Mutant: close() closes sendCh, and a receive on it yields no event.
PumpMessageOfClosed(c) ==
    /\ pump[c] = "loop"
    /\ queued[c] > 0 \/ closes[c] > 0
    /\ queued' = [queued EXCEPT ![c] = @ - 1]
    /\ UNCHANGED <<registry, redis, run, pump, conn, send>>

PumpMessage(c) ==
    /\ pump[c] = "loop"
    /\ queued[c] > 0
    /\ queued' = [queued EXCEPT ![c] = @ - 1]
    /\ \/ conn[c] # "closed" /\ UNCHANGED <<pump, conn>>
       \/ conn[c] # "open" /\ PumpEnds(c)
    /\ UNCHANGED <<registry, redis, run, send>>

PumpPing(c) ==
    /\ pump[c] = "loop"
    /\ \/ /\ conn[c] # "closed"
          /\ pump' = [pump EXCEPT ![c] = "refresh"]
          /\ UNCHANGED conn
       \/ conn[c] # "open" /\ PumpEnds(c)
    /\ UNCHANGED <<registry, redis, run, queued, send>>

\* Mutant: the ticker does not refresh the key.
PumpRefreshSkipped(c) ==
    /\ pump[c] = "refresh"
    /\ pump' = [pump EXCEPT ![c] = "loop"]
    /\ UNCHANGED <<registry, redis, run, conn, queued, send>>

PumpRefresh(c) ==
    /\ pump[c] = "refresh"
    /\ pump' = [pump EXCEPT ![c] = "loop"]
    /\ SetOnline(c)
    /\ UNCHANGED <<registry, run, conn, queued, send>>

\* Mutant: writePump leaves the connection open.
PumpDoneOpen(c) ==
    /\ pump[c] = "loop"
    /\ closes[c] > 0
    /\ pump' = [pump EXCEPT ![c] = "gone"]
    /\ UNCHANGED <<registry, redis, run, conn, queued, send>>

PumpDone(c) ==
    /\ pump[c] = "loop"
    /\ closes[c] > 0
    /\ PumpEnds(c)
    /\ UNCHANGED <<registry, redis, run, queued, send>>

-----------------------------------------------------------------------------
(* SendToUser: a look at the registry under the read lock, then the send   *)
(* on the channel of whatever client was found.                            *)

LookUp(s) ==
    /\ mu = None
    /\ send[s] = None
    /\ \E u \in Users :
        /\ clients[u] # None
        /\ send' = [send EXCEPT ![s] = clients[u]]
    /\ UNCHANGED <<registry, redis, run, pump, conn, queued>>

\* Mutant: a send on a full channel blocks.
EnqueueBlocking(s) ==
    /\ send[s] # None
    /\ queued[send[s]] < Cap
    /\ queued' = [queued EXCEPT ![send[s]] = @ + 1]
    /\ send' = [send EXCEPT ![s] = None]
    /\ UNCHANGED <<registry, redis, run, pump, conn>>

\* client.send: a full channel drops the event.
Enqueue(s) ==
    /\ send[s] # None
    /\ LET c == send[s] IN
        \/ queued[c] < Cap /\ queued' = [queued EXCEPT ![c] = @ + 1]
        \/ queued[c] = Cap /\ UNCHANGED queued
    /\ send' = [send EXCEPT ![s] = None]
    /\ UNCHANGED <<registry, redis, run, pump, conn>>

-----------------------------------------------------------------------------
\* The peer closes, or is lost.
PeerLeaves(c) ==
    /\ conn[c] = "open"
    /\ conn' = [conn EXCEPT ![c] = "broken"]
    /\ UNCHANGED <<registry, redis, run, pump, queued, send>>

\* The TTL of 35 s ends.  A refresh every 30 s keeps the key as a rule, but
\* one that is late by 5 s does not.
PresenceExpires(u) ==
    /\ presence[u]
    /\ presence' = [presence EXCEPT ![u] = FALSE]
    /\ UNCHANGED <<registry, told, run, pump, conn, queued, send>>

Starting(c) ==
    \/ RunOnline(c) \/ RegisterLock(c) \/ RegisterCheck(c) \/ RegisterClose(c)
    \/ RegisterPut(c) \/ RunAnnounce(c)

Ending(c) ==
    \/ Unregister(c) \/ RunFarewell(c) \/ RunOffline(c) \/ RunLastSeen(c)
    \/ RunCloseCheck(c) \/ RunClose(c)

RunStep(c) == Starting(c) \/ ReadFails(c) \/ HandleHeartbeat(c) \/ Ending(c)

\* Mutant: a goroutine that nobody stops has the ticker and refreshes the key.
PumpStepLeaks(c) ==
    \/ PumpMessage(c) \/ PumpPing(c) \/ PumpDone(c)
    \/ /\ pump[c] # "new"
       /\ SetOnline(c)
       /\ pump' = [pump EXCEPT ![c] = IF @ = "refresh" THEN "loop" ELSE @]
       /\ UNCHANGED <<registry, run, conn, queued, send>>

PumpStep(c) == PumpMessage(c) \/ PumpPing(c) \/ PumpRefresh(c) \/ PumpDone(c)

Next ==
    \/ \E c \in Clients :
        Connect(c) \/ RunStep(c) \/ ReadHeartbeat(c) \/ PumpStep(c) \/ PeerLeaves(c)
    \/ \E s \in Senders : LookUp(s) \/ Enqueue(s)
    \/ \E u \in Users : PresenceExpires(u)

Spec == Init /\ [][Next]_vars

\* Go runs every goroutine that can run.  A select with several ready cases
\* chooses among them at random, so that neither a closed done channel nor
\* the ticker is passed over for ever.  Nothing makes a peer connect, leave
\* or send a heartbeat.
FairSpec ==
    /\ Spec
    /\ \A c \in Clients : /\ WF_vars(RunStep(c)) /\ WF_vars(PumpStep(c))
                          /\ SF_vars(PumpDone(c)) /\ SF_vars(PumpPing(c))
    /\ \A s \in Senders : WF_vars(Enqueue(s))
    /\ \A u \in Users : WF_vars(PresenceExpires(u))

-----------------------------------------------------------------------------
(* Properties.                                                             *)

\* Between its registration and the end of its Run a client serves its user,
\* or has been replaced.
Serving == {"announce", "read", "beat", "unregister"}

\* No done channel is closed twice (that would panic), although close() tests
\* and closes in two steps, Register calls it under the mutex for somebody
\* else's client, and Run calls it for its own without the mutex.
ClosedOnce == \A c \in Clients : closes[c] <= 1

\* Whoever looks at the registry finds clients of the right user that nobody
\* has told to close and that have not left.
RegisteredIsLive ==
    \A u \in Users : mu = None /\ clients[u] # None =>
        /\ Owner[clients[u]] = u
        /\ closes[clients[u]] = 0
        /\ run[clients[u]] \in Serving

\* Of the clients of one user that serve, all but the registered one have been
\* told to close: one connection per user.
ReplacedIsClosed ==
    \A c \in Clients :
        run[c] \in Serving /\ clients[Owner[c]] # c => closes[c] = 1

\* Both goroutines of a client end after its peer is gone, after it has been
\* replaced, and after any of the two has closed the connection.
GoroutinesEnd ==
    \A c \in Clients :
        (conn[c] \in {"broken", "closed"} \/ closes[c] > 0)
            ~> (run[c] = "gone" /\ pump[c] = "gone")

\* No handler that publishes an event waits for a client: not for a full
\* channel, nor for one that no pump reads any more.
SendersGoOn == \A s \in Senders : (send[s] # None) ~> (send[s] = None)

\* While a user has a registered connection his presence key comes back after
\* anything that has deleted it, as the SetOffline of an older connection or
\* a refresh that was late: "so the server guarantees liveness" (client.go:159).
PresenceHeals ==
    \A u \in Users :
        (clients[u] # None) ~> (presence[u] \/ clients[u] = None)

Away(u) == \A c \in Clients : Owner[c] = u => run[c] \in {"new", "gone"}

\* Once the last connection of a user has ended for good he is offline in the
\* end and stays so.  His pumps may still be in a refresh that brings the key
\* back after SetOffline, but none of them goes on with it.
AwayStaysOffline == \A u \in Users : <>[]Away(u) => <>[]~presence[u]

-----------------------------------------------------------------------------
(* The inductive invariant, proved in HubProofs.                           *)

Locked == {"check", "close", "put"}

Before == {"new", "online", "register"}

\* Register holds the mutex from its look at the registry to its entry.
MutexInv == \A c \in Clients : mu = c <=> run[c] \in Locked

\* Only clients that serve are registered, each under its owner.
RegistryInv ==
    \A u \in Users : clients[u] # None =>
        Owner[clients[u]] = u /\ run[clients[u]] \in Serving

\* Who may have closed the done channel of c, by where c is.
DoneInv(c) ==
    /\ run[c] \in Before \cup Locked => closes[c] = 0
    /\ run[c] = "selfclose" => closes[c] = 0
    /\ run[c] \in Serving /\ clients[Owner[c]] # c => closes[c] = 1
    /\ run[c] \in Serving /\ clients[Owner[c]] = c /\ closes[c] # 0 =>
           \E d \in Clients :
               mu = d /\ Owner[d] = Owner[c] /\ run[d] = "put"

\* What Register knows of the client that it replaces.
RegisterInv(c) ==
    /\ run[c] \in {"check", "close"} => clients[Owner[c]] # None
    /\ run[c] = "close" => closes[clients[Owner[c]]] = 0
    /\ run[c] = "put" /\ clients[Owner[c]] # None =>
           closes[clients[Owner[c]]] = 1

IInv ==
    /\ TypeOK
    /\ MutexInv
    /\ RegistryInv
    /\ ClosedOnce
    /\ \A c \in Clients : DoneInv(c)
    /\ \A c \in Clients : RegisterInv(c)

-----------------------------------------------------------------------------
(* What module Registry promises.                                          *)

\* The clients that Register has entered at some time.
Entered == {c \in Clients : run[c] \notin Before \cup Locked}

Promise == INSTANCE Registry WITH
    current <- clients,
    entered <- Entered,
    ended <- {c \in Clients : closes[c] > 0}

\* The mutex, close() and the two goroutines of every client together keep
\* the promise of one connection per user, closed before it is replaced.
RegistrySpec == Promise!Spec

-----------------------------------------------------------------------------
(* What comments say and the code does not do.                             *)

\* internal/ws/client.go:73: the presence of a newer connection must not be
\* overwritten (nor fan-out be cleared, hub.go:51): once it has announced its
\* user, no other connection of the user tells the partners that he is offline.
OnlineIsNotRetracted ==
    \A c \in Clients :
        run[c] = "read" /\ clients[Owner[c]] = c => told[Owner[c]] # "offline"

\* docs/websocket.md:170: a user from whom no heartbeat comes any more appears
\* offline, even if his connection is open.
SilentIsOffline ==
    \A u \in Users :
        <>[](\A c \in Clients : Owner[c] = u => run[c] # "beat")
            => <>[]~presence[u]
=============================================================================
