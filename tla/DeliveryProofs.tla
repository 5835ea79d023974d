--------------------------- MODULE DeliveryProofs ---------------------------
(***************************************************************************)
(* Proofs about module Delivery, for every number of users, connections    *)
(* and concurrent requests, and for channels of every capacity.            *)
(***************************************************************************)
EXTENDS Delivery, TLAPS

(* Sequences. *)

\* What comes of appending to the second part of a line.
LEMMA AppendToLine ==
    ASSUME NEW S, NEW s \in Seq(S), NEW t \in Seq(S), NEW e \in S
    PROVE  /\ s \o Append(t, e) \in Seq(S)
           /\ Len(s \o Append(t, e)) = Len(s \o t) + 1
           /\ \A i \in 1 .. Len(s \o t) : (s \o Append(t, e))[i] = (s \o t)[i]
           /\ (s \o Append(t, e))[Len(s \o t) + 1] = e
<1>1. /\ Append(t, e) \in Seq(S) /\ Len(Append(t, e)) = Len(t) + 1
      /\ \A i \in 1 .. Len(t) : Append(t, e)[i] = t[i]
      /\ Append(t, e)[Len(t) + 1] = e
    OBVIOUS
<1>2. Len(s) \in Nat /\ Len(t) \in Nat
    OBVIOUS
<1>3. \A u \in Seq(S) : /\ s \o u \in Seq(S) /\ Len(s \o u) = Len(s) + Len(u)
                        /\ \A i \in 1 .. Len(s) + Len(u) :
                            (s \o u)[i] = IF i <= Len(s) THEN s[i] ELSE u[i - Len(s)]
    OBVIOUS
<1>. QED BY <1>1, <1>2, <1>3

\* The first element of the second part goes over to the first part.
LEMMA MoveInLine ==
    ASSUME NEW S, NEW s \in Seq(S), NEW t \in Seq(S), t # <<>>
    PROVE  /\ Head(t) \in S /\ Tail(t) \in Seq(S) /\ Len(Tail(t)) <= Len(t)
           /\ Append(s, Head(t)) \in Seq(S)
           /\ Append(s, Head(t)) \o Tail(t) = s \o t
<1>1. /\ Head(t) \in S /\ Head(t) = t[1]
      /\ Tail(t) \in Seq(S) /\ Len(t) \in Nat \ {0}
      /\ Len(Tail(t)) = Len(t) - 1
      /\ \A i \in 1 .. Len(Tail(t)) : Tail(t)[i] = t[i + 1]
    OBVIOUS
<1>2. /\ Append(s, Head(t)) \in Seq(S) /\ Len(s) \in Nat
      /\ Len(Append(s, Head(t))) = Len(s) + 1
      /\ \A i \in 1 .. Len(s) : Append(s, Head(t))[i] = s[i]
      /\ Append(s, Head(t))[Len(s) + 1] = t[1]
    BY <1>1
<1>3. \A u, v \in Seq(S) :
        /\ u \o v \in Seq(S) /\ Len(u \o v) = Len(u) + Len(v)
        /\ \A i \in 1 .. Len(u) + Len(v) :
              (u \o v)[i] = IF i <= Len(u) THEN u[i] ELSE v[i - Len(u)]
    OBVIOUS
<1>4. \A u, v \in Seq(S) :
        Len(u) = Len(v) /\ (\A i \in 1 .. Len(u) : u[i] = v[i]) => u = v
    OBVIOUS
<1>5. Append(s, Head(t)) \o Tail(t) = s \o t
  <2>1. ASSUME NEW i \in 1 .. Len(s \o t)
        PROVE  (Append(s, Head(t)) \o Tail(t))[i] = (s \o t)[i]
    <3>1. i \in 1 .. Len(s) + Len(t) /\ Len(t) \in Nat
        BY <1>1, <1>3
    <3>2. CASE i <= Len(s)
        BY <1>1, <1>2, <1>3, <3>1, <3>2
    <3>3. CASE i = Len(s) + 1
        BY <1>1, <1>2, <1>3, <3>1, <3>3
    <3>4. CASE i > Len(s) + 1
        BY <1>1, <1>2, <1>3, <3>1, <3>4
    <3>. QED BY <1>2, <3>1, <3>2, <3>3, <3>4
  <2>2. Len(Append(s, Head(t)) \o Tail(t)) = Len(s \o t)
      BY <1>1, <1>2, <1>3
  <2>. QED BY <1>1, <1>2, <1>3, <1>4, <2>1, <2>2
<1>. QED BY <1>1, <1>2, <1>5

-----------------------------------------------------------------------------
(* Steps that put nothing into a channel. *)

\* What is in a line.
LEMMA Lines ==
    ASSUME TypeOK, NEW c \in Clients
    PROVE  /\ Line(c) \in Seq(Requests)
           /\ DOMAIN Line(c) = 1 .. Len(Line(c)) /\ Len(Line(c)) \in Nat
           /\ \A i \in DOMAIN Line(c) : Line(c)[i] \in Requests
<1>1. written[c] \in Seq(Requests) /\ queue[c] \in Seq(Requests)
    BY DEF TypeOK
<1>2. \A s, t \in Seq(Requests) : s \o t \in Seq(Requests)
    OBVIOUS
<1>3. \A s \in Seq(Requests) : /\ DOMAIN s = 1 .. Len(s) /\ Len(s) \in Nat
                               /\ \A i \in 1 .. Len(s) : s[i] \in Requests
    OBVIOUS
<1>. QED BY <1>1, <1>2, <1>3 DEF Line

\* A line that does not change keeps what holds of it, if the handlers past
\* it stay so and no request that has told something begins anew.
LEMMA LinesKept ==
    ASSUME IInv, \A c \in Clients : Line(c)' = Line(c),
           \A r \in Requests : req[r].pc = "answer" => req'[r].pc = "answer",
           \A q, r \in Requests : <<q, r>> \in before' =>
               <<q, r>> \in before \/ req[r].pc = "idle",
           \A r \in under' : r \in under \/ req[r].pc = "idle"
    PROVE  (\A c \in Clients : LineInv(c)') /\ InOrder' /\ BlockedUntold'
<1>1. \A c \in Clients : \A i \in DOMAIN Line(c) :
        Line(c)[i] \in Requests /\ req[Line(c)[i]].pc = "answer"
    BY Lines DEF IInv, LineInv
<1>2. \A c \in Clients : LineInv(c)'
    BY <1>1 DEF LineInv
<1>3. InOrder'
    BY <1>1 DEF IInv, InOrder
<1>4. BlockedUntold'
    BY <1>1 DEF IInv, BlockedUntold
<1>. QED BY <1>2, <1>3, <1>4

\* What a step of one handler changes of it.
LEMMA Moves ==
    ASSUME TypeOK, NEW r \in Requests,
           NEW pc \in {"idle", "check", "lookup", "enqueue", "answer"},
           Goto(r, pc)
    PROVE  /\ req' \in [Requests -> Request]
           /\ \A x \in Requests \ {r} : req'[x] = req[x]
           /\ req'[r].pc = pc /\ req'[r].to = req[r].to
           /\ req'[r].client = req[r].client
BY DEF Goto, TypeOK, Request

\* The invariant holds at first.
LEMMA InitIInv == Init => IInv
<1>. SUFFICES ASSUME Init PROVE IInv
    OBVIOUS
<1>1. \A c \in Clients : Line(c) = <<>>
    BY DEF Init, Line
<1>2. <<>> \in Seq(Requests) /\ Len(<<>>) = 0
    OBVIOUS
<1>3. TypeOK
    BY <1>2, CapAssumption DEF Init, Hub!Init, TypeOK, Request
<1>4. InOrder /\ BlockedUntold /\ (\A c \in Clients : LineInv(c))
    BY <1>1 DEF InOrder, BlockedUntold, LineInv
<1>5. BeforeInv /\ (\A r \in Requests : HandlerInv(r))
    BY DEF Init, BeforeInv, HandlerInv
<1>. QED BY <1>3, <1>4, <1>5 DEF IInv

\* A request begins after everything that is answered, and has told nothing.
LEMMA BeginStep ==
    ASSUME IInv, NEW r \in Requests, Begin(r) PROVE IInv'
<1>1. /\ TypeOK /\ req[r].pc = "idle"
      /\ before' = before \cup (answered \X {r})
      /\ under' = IF blockers # {} THEN under \cup {r} ELSE under
      /\ UNCHANGED <<registry, channels, blockers, answered>>
    BY DEF Begin, IInv
<1>2. /\ req' \in [Requests -> Request]
      /\ \A x \in Requests \ {r} : req'[x] = req[x]
      /\ req'[r].pc = "check" /\ req'[r].to \in Users
  <2>1. PICK u \in Users : req' = [req EXCEPT ![r].pc = "check", ![r].to = u]
      BY DEF Begin
  <2>2. req \in [Requests -> Request] /\ req[r] \in Request
      BY <1>1 DEF TypeOK
  <2>3. [req[r] EXCEPT !.pc = "check", !.to = u] \in Request
      BY <2>2, Zenon DEF Request
  <2>. QED BY <2>1, <2>2, <2>3 DEF Request
<1>3. r \notin answered
    BY <1>1 DEF IInv, HandlerInv
<1>4. TypeOK'
    BY <1>1, <1>2 DEF TypeOK, registry, channels
<1>5. ASSUME NEW x \in Requests PROVE HandlerInv(x)'
    BY <1>1, <1>2, <1>3 DEF IInv, HandlerInv
<1>6. BeforeInv'
    BY <1>1, <1>2 DEF IInv, BeforeInv
<1>7. \A c \in Clients : Line(c)' = Line(c)
    BY <1>1 DEF Line, channels
<1>8. (\A c \in Clients : LineInv(c)') /\ InOrder' /\ BlockedUntold'
    BY <1>1, <1>2, <1>7, LinesKept
<1>. QED BY <1>4, <1>5, <1>6, <1>8 DEF IInv

\* The block check, the look up and the answer put nothing into a channel.
LEMMA GoesOn ==
    ASSUME IInv, NEW r \in Requests, CheckBlock(r) \/ LookUp(r) \/ Respond(r)
    PROVE  IInv'
<1>1. TypeOK /\ HandlerInv(r) /\ req[r] \in Request
    BY DEF IInv, TypeOK
<1>2. /\ UNCHANGED <<registry, channels, blockers, before, under>>
      /\ answered \subseteq answered' /\ answered' \subseteq answered \cup {r}
      /\ r \in answered' => req'[r].pc = "answer"
      /\ req' \in [Requests -> Request]
      /\ \A x \in Requests \ {r} : req'[x] = req[x]
      /\ req[r].pc # "idle" /\ req'[r].pc # "idle" /\ req'[r].to = req[r].to
      /\ req'[r].pc = "enqueue" => req'[r].client \in Clients
      /\ r \in under => req'[r].pc = "answer"
      /\ req[r].pc = "answer" => req'[r].pc = "answer"
  <2>1. CASE CheckBlock(r)
    <3>1. UNCHANGED <<registry, channels, blockers, history>> /\ r \notin answered
        BY <1>1, <2>1 DEF CheckBlock, HandlerInv
    <3>2. CASE blockers = {} /\ Goto(r, "lookup")
        BY <1>1, <2>1, <3>1, <3>2, Moves DEF CheckBlock, HandlerInv, history
    <3>3. CASE Goto(r, "answer")
        BY <1>1, <2>1, <3>1, <3>3, Moves DEF CheckBlock, HandlerInv, history
    <3>. QED BY <2>1, <3>2, <3>3 DEF CheckBlock
  <2>2. CASE LookUp(r)
    <3>1. /\ req[r].pc = "lookup" /\ r \notin under /\ r \notin answered
          /\ current[req[r].to] \in Clients \cup {None}
        BY <1>1, <2>2 DEF LookUp, HandlerInv, TypeOK
    <3>2. PICK c \in Clients \cup {None} : c = current[req[r].to]
        BY <3>1
    <3>3. req' = [req EXCEPT ![r].pc = IF c = None THEN "answer" ELSE "enqueue",
                             ![r].client = c]
        BY <2>2, <3>2 DEF LookUp
    <3>4. PICK pc \in {"answer", "enqueue"} :
            pc = IF c = None THEN "answer" ELSE "enqueue"
        OBVIOUS
    <3>5. [req[r] EXCEPT !.pc = pc, !.client = c] \in Request
        BY <1>1, Zenon DEF Request
    <3>6. /\ req' \in [Requests -> Request]
          /\ \A x \in Requests \ {r} : req'[x] = req[x]
          /\ req'[r].pc = pc /\ req'[r].to = req[r].to /\ req'[r].client = c
        BY <1>1, <3>3, <3>4, <3>5 DEF TypeOK, Request
    <3>. QED BY <2>2, <3>1, <3>4, <3>6 DEF LookUp, history
  <2>3. CASE Respond(r)
      BY <1>1, <2>3 DEF Respond, TypeOK
  <2>. QED BY <2>1, <2>2, <2>3
<1>3. TypeOK'
    BY <1>1, <1>2 DEF TypeOK, registry, channels
<1>4. ASSUME NEW x \in Requests PROVE HandlerInv(x)'
  <2>1. CASE x = r
      BY <1>1, <1>2, <2>1 DEF HandlerInv
  <2>2. CASE x # r
      BY <1>2, <2>2 DEF IInv, HandlerInv
  <2>. QED BY <2>1, <2>2
<1>5. BeforeInv'
    BY <1>2 DEF IInv, BeforeInv
<1>6. \A c \in Clients : Line(c)' = Line(c)
    BY <1>2 DEF Line, channels
<1>7. (\A c \in Clients : LineInv(c)') /\ InOrder' /\ BlockedUntold'
    BY <1>2, <1>6, LinesKept
<1>. QED BY <1>3, <1>4, <1>5, <1>7 DEF IInv

\* Blocks start and end, pumps start and stop, connections come and go.
LEMMA OutsideStep ==
    ASSUME IInv, \/ \E u \in Users : Block(u) \/ Unblock(u)
                 \/ \E c \in Clients : Start(c) \/ Stop(c)
                 \/ Connections
    PROVE  IInv'
<1>1. TypeOK
    BY DEF IInv
<1>2. /\ UNCHANGED <<queue, written, req, answered, before>>
      /\ under' \subseteq under
      /\ \A r \in under' : r \in answered \/ blockers # {} => blockers' # {} \/ r \in answered
  <2>1. ASSUME NEW u \in Users, Block(u) PROVE <1>2!:
      BY <2>1 DEF Block, channels, history
  <2>2. ASSUME NEW u \in Users, Unblock(u) PROVE <1>2!:
      BY <2>2 DEF Unblock, channels
  <2>3. ASSUME NEW c \in Clients, Start(c) \/ Stop(c) PROVE <1>2!:
      BY <2>3 DEF Start, Stop, history
  <2>4. CASE Connections
      BY <2>4 DEF Connections, channels, history
  <2>. QED BY <2>1, <2>2, <2>3, <2>4
<1>3. /\ blockers' \subseteq Users
      /\ pump' \in [Clients -> {"new", "loop", "gone"}]
      /\ current' \in [Users -> Clients \cup {None}]
      /\ entered' \subseteq Clients /\ ended' \subseteq entered'
  <2>1. CASE \E u \in Users : Block(u) \/ Unblock(u)
      BY <1>1, <2>1 DEF Block, Unblock, TypeOK, registry, channels
  <2>2. CASE \E c \in Clients : Start(c) \/ Stop(c)
      BY <1>1, <2>2 DEF Start, Stop, TypeOK, registry
  <2>3. CASE Connections
    <3>1. UNCHANGED <<pump, blockers>> /\ Hub!Next
        BY <2>3 DEF Connections, channels
    <3>2. /\ current' \in [Users -> Clients \cup {None}]
          /\ entered' \subseteq Clients /\ ended' \subseteq entered'
      <4>1. PICK c \in Clients : Hub!Enter(c) \/ Hub!End(c) \/ Hub!Leave(c)
          BY <3>1 DEF Hub!Next
      <4>2. Owner[c] \in Users
          BY OwnerAssumption
      <4>3. CASE Hub!Enter(c)
          BY <1>1, <4>2, <4>3 DEF Hub!Enter, TypeOK
      <4>4. CASE Hub!End(c) \/ Hub!Leave(c)
          BY <1>1, <4>2, <4>4 DEF Hub!End, Hub!Leave, TypeOK
      <4>. QED BY <4>1, <4>3, <4>4
    <3>. QED BY <1>1, <3>1, <3>2 DEF TypeOK
  <2>. QED BY <2>1, <2>2, <2>3
<1>4. TypeOK'
    BY <1>1, <1>2, <1>3 DEF TypeOK
<1>5. ASSUME NEW r \in Requests PROVE HandlerInv(r)'
    BY <1>2 DEF IInv, HandlerInv
<1>6. BeforeInv'
    BY <1>2 DEF IInv, BeforeInv
<1>7. \A c \in Clients : Line(c)' = Line(c)
    BY <1>2 DEF Line
<1>8. (\A c \in Clients : LineInv(c)') /\ InOrder' /\ BlockedUntold'
    BY <1>2, <1>7, LinesKept
<1>. QED BY <1>4, <1>5, <1>6, <1>8 DEF IInv

-----------------------------------------------------------------------------
(* The channels. *)

\* An event that is written leaves the channel for the end of what is written.
LEMMA WriteStep ==
    ASSUME IInv, NEW c \in Clients, Write(c) PROVE IInv'
<1>1. /\ TypeOK /\ queue[c] # <<>>
      /\ queue' = [queue EXCEPT ![c] = Tail(queue[c])]
      /\ written' = [written EXCEPT ![c] = Append(written[c], Head(queue[c]))]
      /\ UNCHANGED <<registry, pump, blockers, req, answered, before, under>>
    BY DEF Write, IInv, history
<1>2. /\ Tail(queue[c]) \in Seq(Requests) /\ Len(Tail(queue[c])) <= Len(queue[c])
      /\ Append(written[c], Head(queue[c])) \in Seq(Requests)
      /\ Append(written[c], Head(queue[c])) \o Tail(queue[c])
            = written[c] \o queue[c]
    BY <1>1, MoveInLine DEF TypeOK
<1>3. Len(Tail(queue[c])) <= Cap
  <2>1. Len(Tail(queue[c])) \in Nat /\ Len(queue[c]) \in Nat /\ Len(queue[c]) <= Cap
      BY <1>1, <1>2 DEF TypeOK
  <2>. QED BY <1>2, <2>1, CapAssumption
<1>4. TypeOK'
    BY <1>1, <1>2, <1>3 DEF TypeOK, registry
<1>5. \A d \in Clients : Line(d)' = Line(d)
    BY <1>1, <1>2 DEF Line, TypeOK
<1>6. (\A r \in Requests : HandlerInv(r)') /\ BeforeInv'
    BY <1>1 DEF IInv, HandlerInv, BeforeInv
<1>7. (\A d \in Clients : LineInv(d)') /\ InOrder' /\ BlockedUntold'
    BY <1>1, <1>5, LinesKept
<1>. QED BY <1>4, <1>6, <1>7 DEF IInv

\* An event is put at the end of a line, once, while its request is not
\* answered: nothing that is told already comes after it.
LEMMA EnqueueStep ==
    ASSUME IInv, NEW r \in Requests, Enqueue(r) PROVE IInv'
<1>1. PICK c \in Clients : c = req[r].client
    BY DEF Enqueue, IInv, HandlerInv
<1>2. /\ TypeOK /\ req[r].pc = "enqueue" /\ r \notin answered /\ r \notin under
      /\ UNCHANGED <<registry, pump, written, blockers, answered, before, under>>
      /\ queue' = IF Len(queue[c]) < Cap
                  THEN [queue EXCEPT ![c] = Append(queue[c], r)] ELSE queue
    BY <1>1 DEF Enqueue, IInv, HandlerInv, history
<1>3. /\ req' \in [Requests -> Request]
      /\ \A x \in Requests \ {r} : req'[x] = req[x]
      /\ req'[r].pc = "answer" /\ req'[r].to = req[r].to
    BY <1>2, Moves DEF Enqueue
<1>4. ASSUME NEW x \in Requests PROVE HandlerInv(x)'
    BY <1>2, <1>3 DEF IInv, HandlerInv
<1>5. BeforeInv'
    BY <1>2, <1>3 DEF IInv, BeforeInv
<1>6. CASE UNCHANGED queue
  <2>1. TypeOK'
      BY <1>2, <1>3, <1>6 DEF TypeOK, registry
  <2>2. \A d \in Clients : Line(d)' = Line(d)
      BY <1>2, <1>6 DEF Line
  <2>3. (\A d \in Clients : LineInv(d)') /\ InOrder' /\ BlockedUntold'
      BY <1>2, <1>3, <2>2, LinesKept
  <2>. QED BY <1>4, <1>5, <2>1, <2>3 DEF IInv
<1>7. CASE /\ Len(queue[c]) < Cap
           /\ queue' = [queue EXCEPT ![c] = Append(queue[c], r)]
  <2>1. /\ queue[c] \in Seq(Requests) /\ written[c] \in Seq(Requests)
        /\ Append(queue[c], r) \in Seq(Requests)
        /\ Len(Append(queue[c], r)) = Len(queue[c]) + 1
        /\ Len(queue[c]) \in Nat
      BY <1>2 DEF TypeOK
  <2>2. TypeOK'
      BY <1>2, <1>3, <1>7, <2>1, CapAssumption DEF TypeOK, registry
  <2>3. \A d \in Clients \ {c} : Line(d)' = Line(d)
      BY <1>2, <1>7 DEF Line, TypeOK
  <2>4. Line(c)' = written[c] \o Append(queue[c], r)
      BY <1>2, <1>7 DEF Line, TypeOK
  <2>5. PICK n \in Nat : n = Len(Line(c))
      BY <1>2, Lines
  <2>6. /\ DOMAIN Line(c) = 1 .. n /\ DOMAIN Line(c)' = 1 .. n + 1
        /\ \A i \in 1 .. n : Line(c)'[i] = Line(c)[i]
        /\ Line(c)'[n + 1] = r
    <3>1. /\ written[c] \o Append(queue[c], r) \in Seq(Requests)
          /\ Len(written[c] \o Append(queue[c], r)) = n + 1
          /\ \A i \in 1 .. n : (written[c] \o Append(queue[c], r))[i] = Line(c)[i]
          /\ (written[c] \o Append(queue[c], r))[n + 1] = r
      <4>1. PICK s \in Seq(Requests), t \in Seq(Requests) :
                s = written[c] /\ t = queue[c]
          BY <2>1
      <4>2. n = Len(s \o t)
          BY <2>5, <4>1 DEF Line
      <4>3. /\ s \o Append(t, r) \in Seq(Requests)
            /\ Len(s \o Append(t, r)) = Len(s \o t) + 1
            /\ \A i \in 1 .. Len(s \o t) : (s \o Append(t, r))[i] = (s \o t)[i]
            /\ (s \o Append(t, r))[Len(s \o t) + 1] = r
          BY AppendToLine
      <4>. QED BY <4>1, <4>2, <4>3 DEF Line
    <3>2. \A s \in Seq(Requests) : DOMAIN s = 1 .. Len(s)
        OBVIOUS
    <3>. QED BY <1>2, <2>4, <2>5, <3>1, <3>2, Lines
  <2>7. \A d \in Clients : \A i \in DOMAIN Line(d) :
            /\ Line(d)[i] \in Requests /\ req[Line(d)[i]].pc = "answer"
            /\ Line(d)[i] # r
      BY <1>2, Lines DEF IInv, LineInv
  <2>8. ASSUME NEW d \in Clients PROVE LineInv(d)'
    <3>1. CASE d = c
        BY <1>3, <2>6, <2>7, <3>1 DEF LineInv
    <3>2. CASE d # c
        BY <1>3, <2>3, <2>7, <3>2 DEF LineInv
    <3>. QED BY <3>1, <3>2
  <2>9. InOrder'
    <3>. SUFFICES ASSUME NEW d \in Clients,
                         NEW i \in DOMAIN Line(d)', NEW j \in DOMAIN Line(d)', i < j
                  PROVE  /\ Line(d)'[i] # Line(d)'[j]
                         /\ <<Line(d)'[j], Line(d)'[i]>> \notin before
        BY <1>2 DEF InOrder
    <3>1. CASE d # c
        BY <2>3, <3>1 DEF IInv, InOrder
    <3>2. CASE d = c /\ j \in 1 .. n
      <4>1. i \in 1 .. n
          BY <2>5, <2>6, <3>2
      <4>. QED BY <2>6, <3>2, <4>1 DEF IInv, InOrder
    <3>3. CASE d = c /\ j = n + 1
      <4>1. i \in 1 .. n
          BY <2>5, <2>6, <3>3
      <4>2. <<r, Line(c)[i]>> \notin before
          BY <1>2, <2>6, <2>7, <4>1 DEF IInv, BeforeInv
      <4>. QED BY <2>6, <2>7, <3>3, <4>1, <4>2
    <3>. QED BY <2>5, <2>6, <3>1, <3>2, <3>3
  <2>10. BlockedUntold'
    <3>. SUFFICES ASSUME NEW x \in under, NEW d \in Clients,
                         NEW i \in DOMAIN Line(d)'
                  PROVE  Line(d)'[i] # x
        BY <1>2 DEF BlockedUntold
    <3>1. CASE d # c
        BY <2>3, <3>1 DEF IInv, BlockedUntold
    <3>2. CASE d = c /\ i \in 1 .. n
        BY <2>6, <3>2 DEF IInv, BlockedUntold
    <3>3. CASE d = c /\ i = n + 1
        BY <1>2, <2>6, <3>3
    <3>. QED BY <2>5, <2>6, <3>1, <3>2, <3>3
  <2>. QED BY <1>4, <1>5, <2>2, <2>8, <2>9, <2>10 DEF IInv
<1>. QED BY <1>2, <1>6, <1>7

-----------------------------------------------------------------------------
(* Theorems. *)

\* Every step of every handler, pump, block and connection preserves the
\* inductive invariant.
THEOREM Inductive == IInv /\ [Next]_vars => IInv'
<1>. SUFFICES ASSUME IInv, [Next]_vars PROVE IInv'
    OBVIOUS
<1>1. CASE UNCHANGED vars
  <2>1. TypeOK' /\ BeforeInv' /\ (\A r \in Requests : HandlerInv(r)')
      BY <1>1
      DEF vars, registry, channels, history, IInv, TypeOK, BeforeInv, HandlerInv
  <2>2. \A c \in Clients : Line(c)' = Line(c)
      BY <1>1 DEF vars, channels, Line
  <2>3. (\A c \in Clients : LineInv(c)') /\ InOrder' /\ BlockedUntold'
      BY <1>1, <2>2, LinesKept DEF vars, history
  <2>. QED BY <2>1, <2>3 DEF IInv
<1>. QED
    BY <1>1, BeginStep, GoesOn, EnqueueStep, WriteStep, OutsideStep
    DEF Next, Handle, Pump

\* The inductive invariant holds in every reachable state.
THEOREM Invariance == Spec => []IInv
<1>. QED BY InitIInv, Inductive, PTL DEF Spec

\* Types, and no channel ever holds more than its capacity.
THEOREM TypeCorrect == Spec => []TypeOK
<1>1. IInv => TypeOK
    BY DEF IInv
<1>. QED BY <1>1, Invariance, PTL

\* No connection ever has an event twice, or the event of a request before
\* that of one which was answered when the request began.
THEOREM EventsInOrder == Spec => []InOrder
<1>1. IInv => InOrder
    BY DEF IInv
<1>. QED BY <1>1, Invariance, PTL

\* A request that is blocked from its start to its end tells nobody anything.
THEOREM BlocksSilence == Spec => []BlockedUntold
<1>1. IInv => BlockedUntold
    BY DEF IInv
<1>. QED BY <1>1, Invariance, PTL
=============================================================================
