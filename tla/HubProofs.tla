----------------------------- MODULE HubProofs -----------------------------
(***************************************************************************)
(* Proofs about module Hub, for every number of users, of connections and  *)
(* of senders and for every capacity of the channels.                      *)
(***************************************************************************)
EXTENDS Hub, TLAPS

\* An empty registry and connections that have not begun satisfy the invariant.
LEMMA InitIInv == Init => IInv
BY NoneAssumption, CapAssumption
DEF Init, IInv, TypeOK, RunPCs, PumpPCs, MutexInv, Locked, RegistryInv,
    ClosedOnce, DoneInv, Before, Serving, RegisterInv

\* The types are kept by every step.
LEMMA Types == TypeOK /\ [Next]_vars => TypeOK'
<1>. SUFFICES ASSUME TypeOK, [Next]_vars PROVE TypeOK'
    OBVIOUS
<1>. USE DEF TypeOK, registry, redis, RunPCs, PumpPCs
<1>1. ASSUME NEW c \in Clients, Connect(c) \/ ReadHeartbeat(c) \/ PeerLeaves(c)
      PROVE  TypeOK'
    BY <1>1 DEF Connect, ReadHeartbeat, PeerLeaves, Move
<1>2. ASSUME NEW c \in Clients, Starting(c) PROVE TypeOK'
  <2>1. CASE RunOnline(c) \/ RunAnnounce(c)
      BY <2>1, OwnerAssumption
      DEF RunOnline, RunAnnounce, SetOnline, FanOutPresence, Move
  <2>2. CASE RegisterLock(c) \/ RegisterPut(c)
      BY <2>2, OwnerAssumption DEF RegisterLock, RegisterPut, Move
  <2>3. CASE RegisterCheck(c) \/ RegisterClose(c)
      BY <2>3, OwnerAssumption
      DEF RegisterCheck, RegisterClose, CloseCheck, CloseDone, Move
  <2>. QED BY <1>2, <2>1, <2>2, <2>3 DEF Starting
<1>3. ASSUME NEW c \in Clients, ReadFails(c) \/ HandleHeartbeat(c) PROVE TypeOK'
    BY <1>3, OwnerAssumption DEF ReadFails, HandleHeartbeat, SetOnline, Move
<1>4. ASSUME NEW c \in Clients, Ending(c) PROVE TypeOK'
  <2>1. CASE Unregister(c) \/ RunLastSeen(c)
      BY <2>1, OwnerAssumption DEF Unregister, RunLastSeen, Move
  <2>2. CASE RunFarewell(c) \/ RunOffline(c)
      BY <2>2, OwnerAssumption
      DEF RunFarewell, RunOffline, SetOffline, FanOutPresence, Move
  <2>3. CASE RunCloseCheck(c) \/ RunClose(c)
      BY <2>3 DEF RunCloseCheck, RunClose, CloseCheck, CloseDone, Move
  <2>. QED BY <1>4, <2>1, <2>2, <2>3 DEF Ending
<1>5. ASSUME NEW c \in Clients, PumpStep(c) PROVE TypeOK'
  <2>1. CASE PumpMessage(c)
      BY <2>1, CapAssumption DEF PumpMessage, PumpEnds
  <2>2. CASE PumpPing(c) \/ PumpRefresh(c) \/ PumpDone(c)
      BY <2>2, OwnerAssumption
      DEF PumpPing, PumpRefresh, PumpDone, PumpEnds, SetOnline
  <2>. QED BY <1>5, <2>1, <2>2 DEF PumpStep
<1>6. ASSUME NEW s \in Senders, LookUp(s) \/ Enqueue(s) PROVE TypeOK'
    BY <1>6, CapAssumption, NoneAssumption DEF LookUp, Enqueue
<1>7. ASSUME NEW u \in Users, PresenceExpires(u) PROVE TypeOK'
    BY <1>7 DEF PresenceExpires
<1>8. CASE UNCHANGED vars
    BY <1>8 DEF vars
<1>. QED
    BY <1>1, <1>2, <1>3, <1>4, <1>5, <1>6, <1>7, <1>8 DEF Next, RunStep

\* The parts of the invariant that are about the registry.
RegistryPart ==
    /\ MutexInv /\ RegistryInv /\ ClosedOnce
    /\ \A c \in Clients : DoneInv(c) /\ RegisterInv(c)

\* Steps that leave the registry alone, and take a client no further than
\* its place in the registry allows, keep those parts.
LEMMA Elsewhere ==
    ASSUME IInv, UNCHANGED registry, NEW c \in Clients,
           run' \in [Clients -> RunPCs],
           \A d \in Clients \ {c} : run'[d] = run[d],
           \/ run'[c] = run[c]
           \/ run[c] \in Before /\ run'[c] \in Before
           \/ run[c] \in Serving /\ run'[c] \in Serving
           \/ /\ run[c] \notin Before \cup Locked \cup Serving
              /\ run'[c] \notin Before \cup Locked \cup Serving
              /\ run'[c] = "selfclose" => closes[c] = 0
    PROVE  RegistryPart'
<1>. USE DEF Before, Locked, Serving
<1>1. MutexInv' /\ ClosedOnce'
    BY DEF IInv, MutexInv, ClosedOnce, registry
<1>2. RegistryInv'
    BY DEF IInv, RegistryInv, TypeOK, registry
<1>3. ASSUME NEW d \in Clients PROVE DoneInv(d)'
  <2>1. DoneInv(d)
      BY DEF IInv
  <2>2. \A e \in Clients : run[e] = "put" <=> run'[e] = "put"
      OBVIOUS
  <2>. QED BY <2>1, <2>2 DEF DoneInv, registry
<1>4. ASSUME NEW d \in Clients PROVE RegisterInv(d)'
    BY DEF IInv, RegisterInv, registry
<1>. QED BY <1>1, <1>2, <1>3, <1>4 DEF RegistryPart

\* Register takes the mutex.
LEMMA LockStep ==
    ASSUME IInv, NEW c \in Clients, RegisterLock(c) PROVE RegistryPart'
<1>. USE DEF Before, Locked, Serving
<1>1. /\ run[c] = "register" /\ mu = None /\ mu' = c
      /\ UNCHANGED <<clients, closes>>
      /\ run'[c] = IF clients[Owner[c]] # None THEN "check" ELSE "put"
      /\ \A d \in Clients \ {c} : run'[d] = run[d]
      /\ Owner[c] \in Users
    BY OwnerAssumption DEF RegisterLock, Move, IInv, TypeOK
<1>2. \A d \in Clients : run[d] \notin Locked
    BY <1>1, NoneAssumption DEF IInv, MutexInv
<1>3. MutexInv' /\ ClosedOnce'
    BY <1>1, <1>2 DEF IInv, MutexInv, ClosedOnce
<1>4. RegistryInv'
    BY <1>1 DEF IInv, RegistryInv, TypeOK
<1>5. ASSUME NEW d \in Clients PROVE DoneInv(d)'
    BY <1>1, <1>2 DEF IInv, DoneInv
<1>6. ASSUME NEW d \in Clients PROVE RegisterInv(d)'
    BY <1>1, <1>2 DEF IInv, RegisterInv
<1>. QED BY <1>3, <1>4, <1>5, <1>6 DEF RegistryPart

\* Register closes the client that it replaces, testing first.
LEMMA CloseOldStep ==
    ASSUME IInv, NEW c \in Clients, RegisterCheck(c) \/ RegisterClose(c)
    PROVE  RegistryPart'
<1>. USE DEF Before, Locked, Serving
<1>. DEFINE old == clients[Owner[c]]
<1>1. /\ run[c] \in {"check", "close"} /\ mu = c
      /\ UNCHANGED <<clients, mu>>
      /\ Owner[c] \in Users /\ old \in Clients
      /\ Owner[old] = Owner[c] /\ run[old] \in Serving /\ old # c
      /\ \A d \in Clients \ {c} : run'[d] = run[d]
      /\ run'[c] \in {"close", "put"}
      /\ \A d \in Clients : run[d] \in Locked => d = c
    BY OwnerAssumption, NoneAssumption
    DEF RegisterCheck, RegisterClose, CloseCheck, CloseDone, Move, registry,
        IInv, TypeOK, MutexInv, RegistryInv, RegisterInv
<1>2. /\ \A d \in Clients \ {old} : closes'[d] = closes[d]
      /\ closes[old] \in {0, 1}
      /\ run'[c] = "close" => closes[old] = 0 /\ closes'[old] = 0
      /\ run'[c] = "put" => closes'[old] = 1
    BY <1>1
    DEF RegisterCheck, RegisterClose, CloseCheck, CloseDone, Move, registry,
        IInv, TypeOK, ClosedOnce, RegisterInv
<1>3. MutexInv' /\ ClosedOnce'
    BY <1>1, <1>2 DEF IInv, MutexInv, ClosedOnce
<1>4. RegistryInv'
    BY <1>1 DEF IInv, RegistryInv, TypeOK
<1>5. ASSUME NEW d \in Clients PROVE DoneInv(d)'
  <2>1. DoneInv(d)
      BY DEF IInv
  <2>2. CASE d = c
      BY <1>1, <1>2, <2>1, <2>2 DEF DoneInv
  <2>3. CASE d = old
    <3>1. closes'[old] # 0 => run'[c] = "put"
        BY <1>1, <1>2
    <3>. QED BY <1>1, <1>2, <2>1, <2>3, <3>1 DEF DoneInv
  <2>4. CASE d # c /\ d # old
    <3>1. Owner[d] = Owner[c] /\ run[d] \in Serving => closes[d] = 1 /\ clients[Owner[d]] # d
        BY <1>1, <2>1, <2>4 DEF DoneInv
    <3>2. ~\E e \in Clients : mu = e /\ Owner[e] = Owner[d] /\ run[e] = "put"
        BY <1>1
    <3>. QED BY <1>1, <1>2, <2>1, <2>4, <3>1, <3>2 DEF DoneInv
  <2>. QED BY <2>2, <2>3, <2>4
<1>6. ASSUME NEW d \in Clients PROVE RegisterInv(d)'
    BY <1>1, <1>2 DEF IInv, RegisterInv
<1>. QED BY <1>3, <1>4, <1>5, <1>6 DEF RegistryPart

\* Register enters its own client and gives the mutex back.
LEMMA PutStep ==
    ASSUME IInv, NEW c \in Clients, RegisterPut(c) PROVE RegistryPart'
<1>. USE DEF Before, Locked, Serving
<1>1. /\ run[c] = "put" /\ mu = c /\ mu' = None
      /\ Owner[c] \in Users /\ UNCHANGED closes
      /\ clients' \in [Users -> Clients \cup {None}]
      /\ clients'[Owner[c]] = c
      /\ \A u \in Users \ {Owner[c]} : clients'[u] = clients[u]
      /\ run'[c] = "announce"
      /\ \A d \in Clients \ {c} : run'[d] = run[d]
      /\ \A d \in Clients : run[d] \in Locked => d = c
      /\ closes[c] = 0
    BY OwnerAssumption
    DEF RegisterPut, Move, IInv, TypeOK, MutexInv, DoneInv
<1>2. MutexInv' /\ ClosedOnce'
    BY <1>1, NoneAssumption DEF IInv, MutexInv, ClosedOnce
<1>3. RegistryInv'
    BY <1>1 DEF IInv, RegistryInv
<1>4. ASSUME NEW d \in Clients PROVE DoneInv(d)'
  <2>1. DoneInv(d) /\ Owner[d] \in Users
      BY OwnerAssumption DEF IInv
  <2>2. CASE d = c
      BY <1>1, <2>2 DEF DoneInv
  <2>3. CASE d # c /\ Owner[d] = Owner[c]
    <3>1. clients[Owner[d]] = d => closes[d] = 1
        BY <1>1, <2>3, NoneAssumption DEF IInv, RegisterInv
    <3>. QED BY <1>1, <2>1, <2>3, <3>1 DEF DoneInv
  <2>4. CASE d # c /\ Owner[d] # Owner[c]
      BY <1>1, <2>1, <2>4 DEF DoneInv
  <2>. QED BY <2>2, <2>3, <2>4
<1>5. ASSUME NEW d \in Clients PROVE RegisterInv(d)'
    BY <1>1 DEF IInv, RegisterInv
<1>. QED BY <1>2, <1>3, <1>4, <1>5 DEF RegistryPart

\* A client takes itself out, or has been replaced.
LEMMA UnregisterStep ==
    ASSUME IInv, NEW c \in Clients, Unregister(c) PROVE RegistryPart'
<1>. USE DEF Before, Locked, Serving
<1>1. /\ run[c] = "unregister" /\ mu = None /\ UNCHANGED <<mu, closes>>
      /\ Owner[c] \in Users
      /\ clients' \in [Users -> Clients \cup {None}]
      /\ clients'[Owner[c]] # c
      /\ clients'[Owner[c]] \in {None, clients[Owner[c]]}
      /\ clients[Owner[c]] # c => clients'[Owner[c]] = clients[Owner[c]]
      /\ \A u \in Users \ {Owner[c]} : clients'[u] = clients[u]
      /\ run'[c] \in {"farewell", "lastseen"}
      /\ \A d \in Clients \ {c} : run'[d] = run[d]
      /\ \A d \in Clients : run[d] \notin Locked
    BY OwnerAssumption, NoneAssumption
    DEF Unregister, Move, IInv, TypeOK, MutexInv
<1>2. MutexInv' /\ ClosedOnce'
    BY <1>1 DEF IInv, MutexInv, ClosedOnce
<1>3. RegistryInv'
    BY <1>1 DEF IInv, RegistryInv
<1>4. ASSUME NEW d \in Clients PROVE DoneInv(d)'
  <2>1. DoneInv(d) /\ Owner[d] \in Users
      BY OwnerAssumption DEF IInv
  <2>2. CASE d = c
      BY <1>1, <2>2 DEF DoneInv
  <2>3. CASE d # c
    <3>1. clients'[Owner[d]] = d <=> clients[Owner[d]] = d
        BY <1>1, <2>1, <2>3, NoneAssumption
    <3>. QED BY <1>1, <2>1, <2>3, <3>1 DEF DoneInv
  <2>. QED BY <2>2, <2>3
<1>5. ASSUME NEW d \in Clients PROVE RegisterInv(d)'
    BY <1>1 DEF IInv, RegisterInv
<1>. QED BY <1>2, <1>3, <1>4, <1>5 DEF RegistryPart

\* The deferred close of a client that has left the registry.
LEMMA SelfCloseStep ==
    ASSUME IInv, NEW c \in Clients, RunClose(c) PROVE RegistryPart'
<1>. USE DEF Before, Locked, Serving
<1>. USE DEF RunClose, CloseDone, Move
<1>a. TypeOK /\ DoneInv(c) /\ run[c] = "selfclose"
    BY DEF IInv
<1>b. closes[c] = 0
    BY <1>a DEF DoneInv
<1>1. /\ run[c] = "selfclose" /\ UNCHANGED <<clients, mu>>
      /\ closes[c] = 0 /\ closes'[c] = 1
      /\ \A d \in Clients \ {c} : closes'[d] = closes[d]
      /\ run'[c] = "gone"
      /\ \A d \in Clients \ {c} : run'[d] = run[d]
      /\ Owner \in [Clients -> Users]
      /\ clients \in [Users -> Clients \cup {None}]
    BY <1>a, <1>b, OwnerAssumption DEF TypeOK
<1>0. \A u \in Users : clients[u] # c
    BY <1>1, NoneAssumption DEF IInv, RegistryInv
<1>2. MutexInv' /\ ClosedOnce'
    BY <1>1 DEF IInv, MutexInv, ClosedOnce
<1>3. RegistryInv'
    BY <1>1 DEF IInv, RegistryInv, TypeOK
<1>4. ASSUME NEW d \in Clients PROVE DoneInv(d)'
    BY <1>0, <1>1 DEF IInv, DoneInv
<1>5. ASSUME NEW d \in Clients PROVE RegisterInv(d)'
  <2>1. RegisterInv(d) /\ Owner[d] \in Users
      BY <1>1 DEF IInv
  <2>2. clients[Owner[d]] # None => closes'[clients[Owner[d]]] = closes[clients[Owner[d]]]
      BY <1>0, <1>1, <2>1
  <2>. QED BY <1>1, <2>1, <2>2 DEF RegisterInv
<1>. QED BY <1>2, <1>3, <1>4, <1>5 DEF RegistryPart

-----------------------------------------------------------------------------
(* Theorems. *)

\* Every step of both goroutines of every client, of the senders and of Redis
\* preserves the inductive invariant.
THEOREM Inductive == IInv /\ [Next]_vars => IInv'
<1>. SUFFICES ASSUME IInv, [Next]_vars PROVE RegistryPart'
  <2>1. IInv /\ [Next]_vars => TypeOK'
      BY Types DEF IInv
  <2>. QED BY <2>1 DEF IInv, RegistryPart
<1>0. run \in [Clients -> RunPCs] /\ run' \in [Clients -> RunPCs]
    BY Types DEF IInv, TypeOK
<1>1. ASSUME NEW c \in Clients,
             \/ Connect(c) \/ RunOnline(c) \/ RunAnnounce(c)
             \/ ReadHeartbeat(c) \/ HandleHeartbeat(c) \/ ReadFails(c)
             \/ RunFarewell(c) \/ RunOffline(c) \/ RunLastSeen(c)
             \/ RunCloseCheck(c)
      PROVE  RegistryPart'
  <2>1. /\ UNCHANGED registry
        /\ \A d \in Clients \ {c} : run'[d] = run[d]
        /\ \/ run[c] \in Before /\ run'[c] \in Before
           \/ run[c] \in Serving /\ run'[c] \in Serving
           \/ /\ run[c] \notin Before \cup Locked \cup Serving
              /\ run'[c] \notin Before \cup Locked \cup Serving
              /\ run'[c] = "selfclose" => closes[c] = 0
      BY <1>0, <1>1
      DEF Connect, RunOnline, RunAnnounce, ReadHeartbeat, HandleHeartbeat,
          ReadFails, RunFarewell, RunOffline, RunLastSeen, RunCloseCheck,
          CloseCheck, Move, Before, Locked, Serving
  <2>. QED BY <1>0, <2>1, Elsewhere
<1>2. ASSUME UNCHANGED <<registry, run>> PROVE RegistryPart'
    BY <1>2
    DEF registry, IInv, RegistryPart, MutexInv, RegistryInv, ClosedOnce,
        DoneInv, RegisterInv
<1>3. ASSUME NEW c \in Clients, PumpStep(c) \/ PeerLeaves(c) PROVE RegistryPart'
    BY <1>2, <1>3
    DEF PumpStep, PumpMessage, PumpPing, PumpRefresh, PumpDone, PeerLeaves
<1>4. ASSUME NEW s \in Senders, LookUp(s) \/ Enqueue(s) PROVE RegistryPart'
    BY <1>2, <1>4 DEF LookUp, Enqueue
<1>5. ASSUME NEW u \in Users, PresenceExpires(u) PROVE RegistryPart'
    BY <1>2, <1>5 DEF PresenceExpires
<1>6. CASE UNCHANGED vars
    BY <1>2, <1>6 DEF vars, registry
<1>. QED
    BY <1>1, <1>3, <1>4, <1>5, <1>6, LockStep, CloseOldStep, PutStep,
       UnregisterStep, SelfCloseStep
    DEF Next, RunStep, Starting, Ending

\* The inductive invariant holds in every reachable state.
THEOREM Invariance == Spec => []IInv
<1>. QED BY InitIInv, Inductive, PTL DEF Spec

\* The types of the hub's state.
THEOREM TypeCorrect == Spec => []TypeOK
<1>1. IInv => TypeOK
    BY DEF IInv
<1>. QED BY <1>1, Invariance, PTL

\* No done channel is closed twice, so no goroutine of the server panics.
THEOREM NoDoubleClose == Spec => []ClosedOnce
<1>1. IInv => ClosedOnce
    BY DEF IInv
<1>. QED BY <1>1, Invariance, PTL

\* The registry holds only connections that serve and that nobody has told to
\* close.
THEOREM LiveRegistry == Spec => []RegisteredIsLive
<1>1. IInv => RegisteredIsLive
  <2>. SUFFICES ASSUME IInv, NEW u \in Users, mu = None, clients[u] # None
                PROVE  /\ Owner[clients[u]] = u
                       /\ closes[clients[u]] = 0
                       /\ run[clients[u]] \in Serving
      BY DEF RegisteredIsLive
  <2>1. /\ clients[u] \in Clients /\ Owner[clients[u]] = u
        /\ run[clients[u]] \in Serving /\ DoneInv(clients[u])
      BY DEF IInv, TypeOK, RegistryInv
  <2>. QED BY <2>1, NoneAssumption DEF DoneInv
<1>. QED BY <1>1, Invariance, PTL

\* A connection that serves and is no longer registered has been told to close.
THEOREM ReplacedClosed == Spec => []ReplacedIsClosed
<1>1. IInv => ReplacedIsClosed
    BY DEF IInv, DoneInv, ReplacedIsClosed
<1>. QED BY <1>1, Invariance, PTL

\* The hub starts as the registry that module Registry describes.
LEMMA PromisedInit == Init => Promise!Init
BY DEF Init, Promise!Init, Entered, Before, Locked

\* What the registry shows to its users does not change.
Shown == <<clients, Entered, {c \in Clients : closes[c] > 0}>>

\* A step of one client that leaves the registry alone, and does not take it
\* from its registration to its service, shows nothing.
LEMMA Hidden ==
    ASSUME TypeOK, NEW c \in Clients, UNCHANGED <<clients, closes>>,
           NEW pc, run' = [run EXCEPT ![c] = pc],
           run[c] \in Before \cup Locked <=> pc \in Before \cup Locked
    PROVE  UNCHANGED Shown
<1>1. Entered' = Entered
    BY DEF Entered, TypeOK
<1>. QED BY <1>1 DEF Shown

\* RegisterPut is the entry of a client.
LEMMA PutEnters ==
    ASSUME IInv, NEW c \in Clients, RegisterPut(c)
    PROVE  Promise!Enter(c)
<1>1. run[c] = "put" /\ run' = [run EXCEPT ![c] = "announce"] /\ closes' = closes
    BY DEF RegisterPut, Move
<1>2. c \notin Entered /\ Entered' = Entered \cup {c}
    BY <1>1 DEF Entered, Before, Locked, IInv, TypeOK
<1>3. clients[Owner[c]] \in {d \in Clients : closes[d] > 0} \cup {None}
  <2>1. Owner[c] \in Users
      BY OwnerAssumption
  <2>2. clients[Owner[c]] # None => closes[clients[Owner[c]]] = 1
      BY <1>1 DEF IInv, RegisterInv
  <2>. QED BY <2>1, <2>2 DEF IInv, TypeOK
<1>. QED BY <1>1, <1>2, <1>3 DEF Promise!Enter, RegisterPut

\* A close that finds the channel open is the end of a client that has entered.
LEMMA CloseEnds ==
    ASSUME IInv, NEW c \in Clients, NEW d \in Entered, closes[d] = 0,
           closes' = [closes EXCEPT ![d] = @ + 1], clients' = clients,
           Entered' = Entered
    PROVE  Promise!End(d)
<1>1. d \in Clients /\ closes \in [Clients -> Nat]
    BY DEF Entered, IInv, TypeOK
<1>2. {x \in Clients : closes'[x] > 0} = {x \in Clients : closes[x] > 0} \cup {d}
    BY <1>1
<1>. QED BY <1>1, <1>2 DEF Promise!End

\* Every step of the hub is a step of the registry, or shows nothing.
LEMMA PromisedStep == IInv /\ [Next]_vars => [Promise!Next]_Shown
<1>. SUFFICES ASSUME IInv, [Next]_vars PROVE Promise!Next \/ UNCHANGED Shown
    OBVIOUS
<1>0. TypeOK
    BY DEF IInv
<1>1. ASSUME NEW c \in Clients, RegisterPut(c) PROVE Promise!Next
    BY <1>1, PutEnters DEF Promise!Next
<1>2. ASSUME NEW c \in Clients, RegisterClose(c) PROVE Promise!Next
  <2>1. /\ run[c] = "close" /\ run' = [run EXCEPT ![c] = "put"]
        /\ closes' = [closes EXCEPT ![clients[Owner[c]]] = @ + 1]
        /\ clients' = clients
      BY <1>2 DEF RegisterClose, CloseDone, Move
  <2>2. /\ clients[Owner[c]] \in Clients
        /\ closes[clients[Owner[c]]] = 0
        /\ run[clients[Owner[c]]] \in Serving
    <3>1. Owner[c] \in Users
        BY OwnerAssumption
    <3>2. clients[Owner[c]] # None /\ closes[clients[Owner[c]]] = 0
        BY <2>1 DEF IInv, RegisterInv
    <3>. QED BY <3>1, <3>2 DEF IInv, TypeOK, RegistryInv
  <2>3. clients[Owner[c]] \in Entered /\ Entered' = Entered
      BY <1>0, <2>1, <2>2 DEF Entered, Serving, Before, Locked, TypeOK
  <2>. QED BY <2>1, <2>2, <2>3, CloseEnds DEF Promise!Next
<1>3. ASSUME NEW c \in Clients, RunClose(c) PROVE Promise!Next
  <2>1. /\ run[c] = "selfclose" /\ run' = [run EXCEPT ![c] = "gone"]
        /\ closes' = [closes EXCEPT ![c] = @ + 1] /\ clients' = clients
      BY <1>3 DEF RunClose, CloseDone, Move
  <2>2. closes[c] = 0
      BY <2>1 DEF IInv, DoneInv
  <2>3. c \in Entered /\ Entered' = Entered
      BY <1>0, <2>1 DEF Entered, Before, Locked, TypeOK
  <2>. QED BY <2>1, <2>2, <2>3, CloseEnds DEF Promise!Next
<1>4. ASSUME NEW c \in Clients, Unregister(c) PROVE Promise!Next \/ UNCHANGED Shown
  <2>1. /\ mu = None /\ run[c] = "unregister" /\ UNCHANGED closes
        /\ \E pc \in {"farewell", "lastseen"} : run' = [run EXCEPT ![c] = pc]
      BY <1>4 DEF Unregister, Move
  <2>2. Entered' = Entered
      BY <1>0, <2>1 DEF Entered, Before, Locked, TypeOK
  <2>3. CASE clients[Owner[c]] = c
    <3>1. closes[c] = 0
        BY <2>1, <2>3, NoneAssumption DEF IInv, DoneInv, Serving
    <3>2. clients' = [clients EXCEPT ![Owner[c]] = None]
        BY <1>4, <2>3 DEF Unregister
    <3>3. Promise!Leave(c)
        BY <2>1, <2>2, <2>3, <3>1, <3>2 DEF Promise!Leave
    <3>. QED BY <3>3 DEF Promise!Next
  <2>4. CASE clients[Owner[c]] # c
      BY <1>4, <2>1, <2>2, <2>4 DEF Unregister, Shown
  <2>. QED BY <2>3, <2>4
<1>5. ASSUME UNCHANGED <<clients, closes, run>> PROVE UNCHANGED Shown
    BY <1>5 DEF Shown, Entered
<1>6. ASSUME NEW c \in Clients, Connect(c) \/ RunOnline(c) \/ RegisterLock(c)
      PROVE  UNCHANGED Shown
    BY <1>0, <1>6, Hidden
    DEF Connect, RunOnline, RegisterLock, Move, registry, Before, Locked
<1>7. ASSUME NEW c \in Clients, RegisterCheck(c) \/ RunCloseCheck(c)
      PROVE  UNCHANGED Shown
    BY <1>0, <1>7, Hidden
    DEF RegisterCheck, RunCloseCheck, CloseCheck, Move, registry, Before, Locked
<1>8. ASSUME NEW c \in Clients,
             \/ RunAnnounce(c) \/ ReadHeartbeat(c) \/ HandleHeartbeat(c)
             \/ ReadFails(c) \/ RunFarewell(c) \/ RunOffline(c) \/ RunLastSeen(c)
      PROVE  UNCHANGED Shown
    BY <1>0, <1>8, Hidden
    DEF RunAnnounce, ReadHeartbeat, HandleHeartbeat, ReadFails, RunFarewell,
        RunOffline, RunLastSeen, Move, registry, Before, Locked
<1>9. ASSUME NEW c \in Clients, PumpStep(c) \/ PeerLeaves(c) PROVE UNCHANGED Shown
    BY <1>5, <1>9
    DEF PumpStep, PumpMessage, PumpPing, PumpRefresh, PumpDone, PeerLeaves,
        registry
<1>10. ASSUME NEW s \in Senders, LookUp(s) \/ Enqueue(s) PROVE UNCHANGED Shown
    BY <1>5, <1>10 DEF LookUp, Enqueue, registry
<1>11. ASSUME NEW u \in Users, PresenceExpires(u) PROVE UNCHANGED Shown
    BY <1>5, <1>11 DEF PresenceExpires, registry
<1>12. CASE UNCHANGED vars
    BY <1>5, <1>12 DEF vars
<1>. QED
    BY <1>1, <1>2, <1>3, <1>4, <1>6, <1>7, <1>8, <1>9, <1>10, <1>11, <1>12
    DEF Next, RunStep, Starting, Ending

\* The hub keeps the promise of module Registry: one connection per user, none
\* comes back, each is told to close once, and before it is replaced.
THEOREM Refinement == Spec => RegistrySpec
<1>. QED
    BY PromisedInit, PromisedStep, Invariance, PTL
    DEF Spec, RegistrySpec, Promise!Spec, Shown

=============================================================================
