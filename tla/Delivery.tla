------------------------------ MODULE Delivery ------------------------------
(***************************************************************************)
(* How the events of a conversation reach its two users: the handlers of   *)
(* the message service (Messages), each of which fans its event out before *)
(* it is answered, over the connections of the hub, as far as Registry     *)
(* tells of them (Hub implements it), through the channel of a connection  *)
(* and its writePump.                                                      *)
(*                                                                         *)
(* A request stands for its event; "pc" is what its handler does next:     *)
(* check, lookup, enqueue, answer.                                         *)
(***************************************************************************)
EXTENDS Naturals, Sequences

CONSTANTS
    Users,      \* the two participants
    Clients, Owner,     \* connections, and whose they are
    Requests,   \* requests that tell the other participant something
    Cap,        \* capacity of a client's channel (256 in the code)
    None

ASSUME OwnerAssumption == Owner \in [Clients -> Users]
ASSUME CapAssumption == Cap \in Nat \ {0}
ASSUME NoneAssumption == None \notin Users \cup Clients

VARIABLES
    current, entered, ended,    \* see Registry
    pump,       \* where the writePump of a client is
    queue,      \* the events in its channel
    written,    \* the events that it has written to its connection
    blockers,   \* the participants who have blocked the other one
    req,        \* the handlers
    answered,   \* history: the requests that are answered
    before,     \* history: <<q, r>> if q was answered when r began
    under       \* history: requests under a block all the time so far

Hub == INSTANCE Registry

registry == <<current, entered, ended>>
channels == <<pump, queue, written>>
history == <<answered, before, under>>
vars == <<registry, channels, blockers, req, history>>

-----------------------------------------------------------------------------
Request == [pc: {"idle", "check", "lookup", "enqueue", "answer"},
            to: Users \cup {None}, client: Clients \cup {None}]

TypeOK ==
    /\ current \in [Users -> Clients \cup {None}]
    /\ entered \subseteq Clients
    /\ ended \subseteq entered
    /\ pump \in [Clients -> {"new", "loop", "gone"}]
    /\ queue \in [Clients -> Seq(Requests)]
    /\ \A c \in Clients : Len(queue[c]) <= Cap
    /\ written \in [Clients -> Seq(Requests)]
    /\ blockers \subseteq Users
    /\ req \in [Requests -> Request]
    /\ answered \subseteq Requests
    /\ before \subseteq Requests \X Requests
    /\ under \subseteq Requests

Init ==
    /\ Hub!Init
    /\ pump = [c \in Clients |-> "new"]
    /\ queue = [c \in Clients |-> <<>>]
    /\ written = [c \in Clients |-> <<>>]
    /\ blockers = {}
    /\ req = [r \in Requests |-> [pc |-> "idle", to |-> None, client |-> None]]
    /\ answered = {}
    /\ before = {}
    /\ under = {}

Goto(r, pc) == req' = [req EXCEPT ![r].pc = pc]

-----------------------------------------------------------------------------
(* A handler, from its commit to its answer.                               *)

Begin(r) ==
    /\ req[r].pc = "idle"
    /\ \E u \in Users : req' = [req EXCEPT ![r].pc = "check", ![r].to = u]
    /\ before' = before \cup (answered \X {r})
    /\ under' = IF blockers # {} THEN under \cup {r} ELSE under
    /\ UNCHANGED <<registry, channels, blockers, answered>>

\* Mutant: only the sender's own blocks are looked at.
CheckBlockOneWay(r) ==
    /\ req[r].pc = "check"
    /\ Goto(r, IF blockers \subseteq {req[r].to} THEN "lookup" ELSE "answer")
    /\ UNCHANGED <<registry, channels, blockers, history>>

\* FanOutToConversation.  A check that fails is logged, and nothing is sent.
CheckBlock(r) ==
    /\ req[r].pc = "check"
    /\ \/ blockers = {} /\ Goto(r, "lookup")
       \/ Goto(r, "answer")
    /\ UNCHANGED <<registry, channels, blockers, history>>

\* SendToUser under the read lock.
LookUp(r) ==
    /\ req[r].pc = "lookup"
    /\ LET c == current[req[r].to] IN
        req' = [req EXCEPT ![r].pc = IF c = None THEN "answer" ELSE "enqueue",
                           ![r].client = c]
    /\ UNCHANGED <<registry, channels, blockers, history>>

\* Mutant: the channel has no capacity.
EnqueueAlways(r) ==
    /\ req[r].pc = "enqueue"
    /\ queue' = [queue EXCEPT ![req[r].client] = Append(@, r)]
    /\ Goto(r, "answer")
    /\ UNCHANGED <<registry, pump, written, blockers, history>>

\* client.send: the client may have been replaced, and its pump may be gone;
\* a full channel drops the event.
Enqueue(r) ==
    /\ req[r].pc = "enqueue"
    /\ LET c == req[r].client IN
        queue' = IF Len(queue[c]) < Cap
                 THEN [queue EXCEPT ![c] = Append(@, r)] ELSE queue
    /\ Goto(r, "answer")
    /\ UNCHANGED <<registry, pump, written, blockers, history>>

\* Mutant: the event is fanned out by a goroutine of its own.
RespondEarly(r) ==
    /\ req[r].pc # "idle" /\ r \notin answered
    /\ answered' = answered \cup {r}
    /\ UNCHANGED <<registry, channels, blockers, req, before, under>>

Respond(r) ==
    /\ req[r].pc = "answer" /\ r \notin answered
    /\ answered' = answered \cup {r}
    /\ UNCHANGED <<registry, channels, blockers, req, before, under>>

-----------------------------------------------------------------------------
(* Blocks, of one participant by the other.                                *)

Block(u) ==
    /\ blockers' = blockers \cup {u}
    /\ UNCHANGED <<registry, channels, req, history>>

Unblock(u) ==
    /\ u \in blockers
    /\ blockers' = blockers \ {u}
    /\ under' = IF blockers' = {} THEN under \cap answered ELSE under
    /\ UNCHANGED <<registry, channels, req, answered, before>>

-----------------------------------------------------------------------------
(* The connections.                                                        *)

Connections ==
    /\ Hub!Next
    /\ UNCHANGED <<channels, blockers, req, history>>

\* Mutant: writePump is called after readPump, not started beside it.
StartLate(c) ==
    /\ c \in ended /\ pump[c] = "new"
    /\ pump' = [pump EXCEPT ![c] = "loop"]
    /\ UNCHANGED <<registry, queue, written, blockers, req, history>>

\* The pump starts after Register: events can be in the channel by then.
Start(c) ==
    /\ c \in entered /\ pump[c] = "new"
    /\ pump' = [pump EXCEPT ![c] = "loop"]
    /\ UNCHANGED <<registry, queue, written, blockers, req, history>>

\* An event is written; of a client told to close, too (select chooses).
Write(c) ==
    /\ pump[c] = "loop" /\ queue[c] # <<>>
    /\ queue' = [queue EXCEPT ![c] = Tail(@)]
    /\ written' = [written EXCEPT ![c] = Append(@, Head(queue[c]))]
    /\ UNCHANGED <<registry, pump, blockers, req, history>>

\* The done channel, or a connection that is lost: a write fails.
Stop(c) ==
    /\ pump[c] = "loop"
    /\ pump' = [pump EXCEPT ![c] = "gone"]
    /\ UNCHANGED <<registry, queue, written, blockers, req, history>>

Pump(c) == Start(c) \/ Write(c)

Handle(r) == CheckBlock(r) \/ LookUp(r) \/ Enqueue(r) \/ Respond(r)

Next ==
    \/ \E r \in Requests : Begin(r) \/ Handle(r)
    \/ \E u \in Users : Block(u) \/ Unblock(u)
    \/ \E c \in Clients : Pump(c) \/ Stop(c)
    \/ Connections

Spec == Init /\ [][Next]_vars

\* Goroutines that can run do so; Write is a case of a select whose other
\* cases do not starve it.
FairSpec == Spec /\ \A c \in Clients : WF_vars(Pump(c))

-----------------------------------------------------------------------------
(* Properties.                                                             *)

\* What a connection has had or will have, in its order.
Line(c) == written[c] \o queue[c]

\* What one request has told and been answered for comes before what a later
\* request tells, on every connection and though the handlers run in parallel,
\* channels overflow and connections replace each other: a client that edits
\* its message after the answer to SendMessage is not seen to do it before.
\* Nothing is told twice.  (Requests that overlap are told in any order.)
InOrder ==
    \A c \in Clients : \A i, j \in DOMAIN Line(c) : i < j =>
        /\ Line(c)[i] # Line(c)[j]
        /\ <<Line(c)[j], Line(c)[i]>> \notin before

\* While either participant blocks the other from the start of a request to
\* its end, its event goes into no channel.
BlockedUntold ==
    \A r \in under, c \in Clients : \A i \in DOMAIN Line(c) : Line(c)[i] # r

\* What is in the channel of a connection is written to it in the end, or the
\* connection is lost.
Delivered ==
    \A c \in Clients, r \in Requests :
        (\E i \in DOMAIN queue[c] : queue[c][i] = r)
            ~> (\/ pump[c] = "gone"
                \/ \E i \in DOMAIN written[c] : written[c][i] = r)

-----------------------------------------------------------------------------
(* The inductive invariant, proved in DeliveryProofs.                      *)

\* A handler looks up a user and enqueues to a client; it is answered at its
\* end only, and one that is blocked all the time stops at its check.
HandlerInv(r) ==
    /\ req[r].pc # "idle" => req[r].to \in Users
    /\ req[r].pc = "enqueue" => req[r].client \in Clients
    /\ r \in answered => req[r].pc = "answer"
    /\ r \in under =>
           /\ req[r].pc \in {"check", "answer"}
           /\ r \in answered \/ blockers # {}

\* A request comes before another one only if it is answered and the other one
\* has begun.
BeforeInv ==
    \A q, r \in Requests : <<q, r>> \in before =>
        q \in answered /\ req[r].pc # "idle"

\* What a connection has or will have comes from handlers that are past it.
LineInv(c) == \A i \in DOMAIN Line(c) : req[Line(c)[i]].pc = "answer"

IInv ==
    /\ TypeOK
    /\ \A r \in Requests : HandlerInv(r)
    /\ BeforeInv
    /\ \A c \in Clients : LineInv(c)
    /\ InOrder
    /\ BlockedUntold
=============================================================================
