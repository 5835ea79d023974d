---------------------------- MODULE CustodyProofs ----------------------------
(***************************************************************************)
(* The stores and the handlers of Messages implement module Custody: every *)
(* step of them moves one attachment along its life, or none.  The proof   *)
(* rests on the inductive invariant of MessagesProofs, by which at most    *)
(* one of record, send, upload and message has an attachment.              *)
(***************************************************************************)
EXTENDS MessagesProofs

\* The stages of an attachment, in the state before a step.
LEMMA Stages ==
    ASSUME NEW a \in Attachments
    PROVE  /\ objects[a] = None /\ ~Named(a) => StageOf(a) = "absent"
           /\ objects[a] = None /\ Named(a) => StageOf(a) = "removed"
           /\ objects[a] # None =>
                /\ records[a] # None => StageOf(a) = "offered"
                /\ records[a] = None =>
                     /\ Saved(a) => StageOf(a) = "stored"
                     /\ ~Saved(a) =>
                          /\ Claimed(a) => StageOf(a) = "claimed"
                          /\ ~Claimed(a) =>
                               /\ Shown(a) => StageOf(a) = "attached"
                               /\ ~Shown(a) /\ Named(a) => StageOf(a) = "condemned"
                               /\ ~Named(a) => StageOf(a) = "orphan"
BY DEF StageOf, Saved, Claimed, Named, Shown

\* And in the state after it.
LEMMA StagesNext ==
    ASSUME NEW a \in Attachments
    PROVE  /\ objects'[a] = None /\ ~Named(a)' => StageOf(a)' = "absent"
           /\ objects'[a] = None /\ Named(a)' => StageOf(a)' = "removed"
           /\ objects'[a] # None =>
                /\ records'[a] # None => StageOf(a)' = "offered"
                /\ records'[a] = None =>
                     /\ Saved(a)' => StageOf(a)' = "stored"
                     /\ ~Saved(a)' =>
                          /\ Claimed(a)' => StageOf(a)' = "claimed"
                          /\ ~Claimed(a)' =>
                               /\ Shown(a)' => StageOf(a)' = "attached"
                               /\ ~Shown(a)' /\ Named(a)' => StageOf(a)' = "condemned"
                               /\ ~Named(a)' => StageOf(a)' = "orphan"
BY DEF StageOf, Saved, Claimed, Named, Shown

\* An attachment of which nothing changes stays at its stage.
LEMMA Stays ==
    ASSUME NEW a \in Attachments,
           objects'[a] = objects[a], records'[a] = records[a],
           Saved(a)' <=> Saved(a), Claimed(a)' <=> Claimed(a),
           Named(a)' <=> Named(a), Shown(a)' <=> Shown(a)
    PROVE  StageOf(a)' = StageOf(a)
BY DEF StageOf, Saved, Claimed, Named, Shown

\* In a step of r it decides what r saves and claims.
LEMMA Holders ==
    ASSUME NEW r \in Requests, NEW a \in Attachments,
           \A x \in Requests \ {r} : req'[x] = req[x]
    PROVE  /\ (Saves(r, a)' <=> Saves(r, a)) => (Saved(a)' <=> Saved(a))
           /\ (Claims(r, a)' <=> Claims(r, a)) => (Claimed(a)' <=> Claimed(a))
<1>1. \A x \in Requests \ {r} :
        /\ Saves(x, a)' <=> Saves(x, a)
        /\ Claims(x, a)' <=> Claims(x, a)
    BY DEF Saves, Claims, At
<1>. QED BY <1>1 DEF Saved, Claimed

-----------------------------------------------------------------------------
\* The abstract variable, and a step of it.
Stage == [a \in Attachments |-> StageOf(a)]

\* One attachment that moves to a stage which may follow is a step of Custody.
LEMMA Advances ==
    ASSUME NEW a \in Attachments,
           StageOf(a)' \in Life!Stages, <<StageOf(a), StageOf(a)'>> \in Life!Moves,
           \A b \in Attachments \ {a} : StageOf(b)' = StageOf(b)
    PROVE  Life!Next
<1>1. Stage[a] = StageOf(a)
    BY DEF Stage
<1>2. Stage' = [Stage EXCEPT ![a] = StageOf(a)']
    BY DEF Stage
<1>. QED BY <1>1, <1>2 DEF Life!Next, Stage

\* If all attachments stay where they are, Custody stutters.
LEMMA Rests ==
    ASSUME \A a \in Attachments : StageOf(a)' = StageOf(a)
    PROVE  UNCHANGED Stage
BY DEF Stage

\* Who is no custodian when another one is.
LEMMA Exclusive ==
    ASSUME IInv, NEW a \in Attachments
    PROVE  /\ records[a] # None =>
                objects[a] # None /\ ~Saved(a) /\ ~Claimed(a) /\ ~Named(a)
           /\ Saved(a) \/ Claimed(a) =>
                /\ objects[a] # None /\ records[a] = None
                /\ ~Named(a) /\ ~(Saved(a) /\ Claimed(a))
           /\ \A r, q \in Requests :
                (Saves(r, a) \/ Claims(r, a)) /\ (Saves(q, a) \/ Claims(q, a))
                    => r = q
           /\ \A m, n \in Msgs : msgs[m].att = a /\ msgs[n].att = a => m = n
           /\ Shown(a) => objects[a] # None
<1>1. AttachmentInv(a) /\ TypeOK
    BY DEF IInv
<1>2. ASSUME NEW r \in Requests, Saves(r, a) \/ Claims(r, a)
      PROVE  objects[a] # None
  <2>1. req[r].user \in Users
      BY <1>2, NoneAssumption
      DEF IInv, RequestInv, WellFormed, Saves, Claims, At, AllOps
  <2>. QED BY <1>1, <1>2, <2>1, NoneAssumption DEF AttachmentInv
<1>3. ASSUME NEW m \in Msgs, msgs[m].att = a, msgs[m].state = "live"
      PROVE  objects[a] # None
    BY <1>3, NoneAssumption DEF IInv, RowInv
<1>4. ASSUME NEW r \in Requests PROVE ~(Saves(r, a) /\ Claims(r, a))
    BY DEF Saves, Claims, At
<1>. QED
    BY <1>1, <1>2, <1>3, <1>4 DEF AttachmentInv, Saved, Claimed, Named, Shown

-----------------------------------------------------------------------------
(* Steps that change no store. *)

\* A request holds at most the attachment that it names, and none when it
\* names none.
LEMMA HoldsNamed ==
    ASSUME NEW r \in Requests, NEW a \in Attachments, req[r].att # a
    PROVE  ~Saves(r, a) /\ ~Claims(r, a)
BY DEF Saves, Claims

\* A request that does not hold an attachment after its step, and touched no
\* row, object or record in it: what it held before has become an orphan.
LEMMA GivesUp ==
    ASSUME IInv, UNCHANGED <<msgs, objects, records>>,
           NEW r \in Requests, \A x \in Requests \ {r} : req'[x] = req[x],
           \A a \in Attachments : ~Saves(r, a)' /\ ~Claims(r, a)'
    PROVE  [Life!Next]_Stage
<1>1. ASSUME NEW a \in Attachments
      PROVE  (Named(a)' <=> Named(a)) /\ (Shown(a)' <=> Shown(a))
    BY DEF Named, Shown
<1>2. ASSUME NEW a \in Attachments, ~Saves(r, a), ~Claims(r, a)
      PROVE  StageOf(a)' = StageOf(a)
    BY <1>1, <1>2, Holders, Stays
<1>3. CASE \E a \in Attachments : Saves(r, a) \/ Claims(r, a)
  <2>1. PICK a \in Attachments : Saves(r, a) \/ Claims(r, a)
      BY <1>3
  <2>2. \A b \in Attachments \ {a} : StageOf(b)' = StageOf(b)
      BY <1>2, <2>1 DEF Saves, Claims
  <2>3. StageOf(a) \in {"stored", "claimed"}
      BY <2>1, Exclusive, Stages DEF Saved, Claimed
  <2>4. ~Saved(a)' /\ ~Claimed(a)'
    <3>1. ASSUME NEW x \in Requests PROVE ~Saves(x, a)' /\ ~Claims(x, a)'
      <4>1. x # r => ~Saves(x, a) /\ ~Claims(x, a)
          BY <2>1, Exclusive
      <4>. QED BY <4>1 DEF Saves, Claims, At
    <3>. QED BY <3>1 DEF Saved, Claimed
  <2>5. StageOf(a)' = "orphan"
      BY <1>1, <2>1, <2>4, Exclusive, StagesNext DEF Saved, Claimed
  <2>. QED
      BY <2>2, <2>3, <2>5, Advances DEF Life!Stages, Life!Moves
<1>4. CASE \A a \in Attachments : ~Saves(r, a) /\ ~Claims(r, a)
    BY <1>2, <1>4, Rests
<1>. QED BY <1>3, <1>4

\* An answer, a failure, a crash.
LEMMA Abandons ==
    ASSUME IInv, NEW r \in Requests, NEW res, Answer(r, res),
           UNCHANGED <<msgs, objects, records>>
    PROVE  [Life!Next]_Stage
<1>1. req'[r].pc = "done" /\ \A x \in Requests \ {r} : req'[x] = req[x]
    BY DEF Answer, IInv, TypeOK, Request
<1>. QED BY <1>1, GivesUp DEF Saves, Claims, At

\* A handler that goes on to a call before which it holds nothing.
LEMMA Continues ==
    ASSUME IInv, NEW r \in Requests, NEW pc, Goto(r, pc), pc # "save",
           pc = "create" => req[r].att = None,
           UNCHANGED <<msgs, objects, records>>
    PROVE  [Life!Next]_Stage
<1>1. /\ req'[r].pc = pc /\ req'[r].att = req[r].att
      /\ \A x \in Requests \ {r} : req'[x] = req[x]
    BY DEF Goto, IInv, TypeOK, Request
<1>2. \A a \in Attachments : a # None
    BY NoneAssumption
<1>. QED BY <1>1, <1>2, GivesUp DEF Saves, Claims, At

\* A client's call, and the answer that it gets.
LEMMA Calls ==
    ASSUME IInv, NEW r \in Requests, Call(r) \/ Respond(r)
    PROVE  [Life!Next]_Stage
<1>1. ASSUME NEW q, Begin(r, q), q.pc \notin {"save", "create"}
      PROVE  [Life!Next]_Stage
  <2>1. req'[r] = q /\ \A x \in Requests \ {r} : req'[x] = req[x]
      BY <1>1 DEF Begin, IInv, TypeOK
  <2>. QED BY <1>1, <2>1, GivesUp DEF Begin, stores, Saves, Claims, At
<1>2. CASE Respond(r)
  <2>1. req'[r] = Idle /\ \A x \in Requests \ {r} : req'[x] = req[x]
      BY <1>2 DEF Respond, IInv, TypeOK
  <2>. QED
      BY <1>2, <2>1, GivesUp DEF Respond, stores, Saves, Claims, At, Idle
<1>3. ASSUME NEW op, NEW pc, NEW u, NEW c, NEW m, NEW t, NEW p, NEW a,
             pc \notin {"save", "create"}, NEW res
      PROVE  LET q == Asks(op, pc, u, c, m, t, p, a)
             IN /\ q.pc \notin {"save", "create"}
                /\ OtherParticipant(q).pc \notin {"save", "create"}
                /\ [q EXCEPT !.pc = "done", !.res = res].pc = "done"
    BY <1>3 DEF OtherParticipant, Asks
<1>4. CASE SendMessage(r)
    BY <1>1, <1>3, <1>4, Zenon DEF SendMessage
<1>5. CASE EditMessage(r)
  <2>1. PICK u \in Users, c \in Convs, m \in Msgs, t \in Texts \cup {None} :
            LET q == Asks("edit", "fetch", u, c, m, t, None, None)
            IN \/ Begin(r, [q EXCEPT !.pc = "done", !.res = "badrequest"])
               \/ Begin(r, OtherParticipant(q))
      BY <1>5, Zenon DEF EditMessage
  <2>. QED BY <1>1, <1>3, <2>1
<1>6. CASE DeleteMessage(r) \/ MarkAsRead(r)
    BY <1>1, <1>3, <1>6 DEF DeleteMessage, MarkAsRead
<1>7. CASE Upload(r) \/ Download(r)
    BY <1>1, <1>7 DEF Upload, Download, Asks
<1>. QED BY <1>2, <1>4, <1>5, <1>6, <1>7 DEF Call

\* The steps of a handler that only read.
LEMMA Reads ==
    ASSUME IInv, NEW r \in Requests,
           \/ SendBlock(r) \/ SendReply(r) \/ EditFetch(r) \/ DeleteFetch(r)
           \/ ReadBlock(r) \/ ReadFetch(r) \/ DownloadFind(r) \/ DownloadGet(r)
           \/ FanOut(r) \/ Deliver(r) \/ Abort(r)
    PROVE  [Life!Next]_Stage
<1>1. UNCHANGED <<msgs, objects, records>>
    BY DEF SendBlock, SendReply, EditFetch, DeleteFetch, ReadBlock, ReadFetch,
           DownloadFind, DownloadGet, FanOut, Deliver, Abort, stores
<1>2. ASSUME NEW row, Hold(r, row) PROVE [Life!Next]_Stage
  <2>1. req'[r].pc = "update" /\ \A x \in Requests \ {r} : req'[x] = req[x]
      BY <1>2 DEF Hold, IInv, TypeOK, Request
  <2>. QED BY <1>1, <2>1, GivesUp DEF Saves, Claims, At
<1>3. CASE SendBlock(r) \/ SendReply(r)
    BY <1>1, <1>3, Abandons, Continues
    DEF SendBlock, SendReply, AfterBlock, AfterReply
<1>4. CASE EditFetch(r)
    BY <1>1, <1>2, <1>4, Abandons DEF EditFetch
<1>5. CASE DeleteFetch(r)
    BY <1>1, <1>2, <1>5, Abandons DEF DeleteFetch
<1>6. CASE ReadBlock(r) \/ FanOut(r)
    BY <1>1, <1>6, Abandons, Continues DEF ReadBlock, FanOut
<1>7. CASE ReadFetch(r)
    BY <1>1, <1>2, <1>7, Abandons DEF ReadFetch
<1>8. CASE DownloadFind(r)
  <2>1. ASSUME NEW m \in Msgs,
               req' = [req EXCEPT ![r].pc = "get", ![r].msg = m, ![r].row = msgs[m]]
        PROVE  [Life!Next]_Stage
    <3>1. req'[r].pc = "get" /\ \A x \in Requests \ {r} : req'[x] = req[x]
        BY <2>1 DEF IInv, TypeOK, Request
    <3>. QED BY <1>1, <3>1, GivesUp DEF Saves, Claims, At
  <2>. QED BY <1>1, <1>8, <2>1, Abandons DEF DownloadFind
<1>9. CASE DownloadGet(r) \/ Deliver(r) \/ Abort(r)
    BY <1>1, <1>9, Abandons DEF DownloadGet, Deliver, Abort
<1>. QED BY <1>3, <1>4, <1>5, <1>6, <1>7, <1>8, <1>9

-----------------------------------------------------------------------------
(* Steps that change one store. *)

\* PopUploadRecord ends the offer: the sender's own send claims the
\* attachment, and a send of anyone else loses it.
LEMMA PopMoves ==
    ASSUME IInv, NEW r \in Requests, SendPop(r)
    PROVE  [Life!Next]_Stage
<1>0. PICK a \in Attachments : a = req[r].att
    BY DEF SendPop, IInv, RequestInv, WellFormed, At
<1>1. /\ TypeOK /\ At(r, "send", "pop")
      /\ UNCHANGED <<msgs, objects>>
      /\ records' = [records EXCEPT ![a] = None]
    BY <1>0 DEF SendPop, IInv
<1>2. CASE records[a] = None
  <2>1. UNCHANGED records
      BY <1>1, <1>2 DEF TypeOK
  <2>2. req[r].user # None
      BY <1>1, NoneAssumption DEF IInv, RequestInv, WellFormed, At, AllOps
  <2>3. Answer(r, "notfound")
      BY <1>0, <1>2, <2>2 DEF SendPop
  <2>. QED BY <1>1, <2>1, <2>3, Abandons
<1>3. CASE records[a] # None
  <2>1. /\ \A x \in Requests \ {r} : req'[x] = req[x]
        /\ req'[r].op = "send" /\ req'[r].pc \in {"done", "create"}
        /\ req'[r].pc = "create" => req'[r].att = a
      BY <1>0, <1>1, <1>3 DEF SendPop, Answer, Goto, TypeOK, Request, At
  <2>2. \A b \in Attachments : ~Saves(r, b) /\ ~Claims(r, b) /\ ~Saves(r, b)'
      BY <1>1, <2>1 DEF Saves, Claims, At
  <2>3. ASSUME NEW b \in Attachments \ {a} PROVE StageOf(b)' = StageOf(b)
    <3>1. ~Claims(r, b)' /\ records'[b] = records[b]
        BY <1>1, <2>1 DEF Claims, At, TypeOK
    <3>. QED BY <1>1, <2>1, <2>2, <3>1, Holders, Stays DEF Named, Shown
  <2>4. StageOf(a) = "offered" /\ ~Named(a)' /\ ~Saved(a)'
      BY <1>1, <1>3, <2>1, <2>2, Exclusive, Stages, Holders DEF Named
  <2>5. objects'[a] # None /\ records'[a] = None
      BY <1>1, <1>3, Exclusive DEF TypeOK
  <2>6. StageOf(a)' \in {"claimed", "orphan"}
      BY <2>4, <2>5, StagesNext DEF Shown, Named
  <2>. QED BY <1>1, <2>3, <2>4, <2>6, Advances DEF Life!Stages, Life!Moves
<1>. QED BY <1>2, <1>3

\* The INSERT turns the claim into a message that shows the attachment; the
\* unique index never refuses the one who holds the claim.
LEMMA CreateMoves ==
    ASSUME IInv, NEW r \in Requests, SendCreate(r)
    PROVE  [Life!Next]_Stage
<1>. DEFINE q == req[r]
<1>1. /\ TypeOK /\ q \in Request /\ At(r, "send", "create")
      /\ UNCHANGED <<objects, records>>
    BY DEF SendCreate, IInv, TypeOK
<1>0. PICK a \in Attachments \cup {None} : a = q.att
    BY <1>1 DEF Request
<1>2. CASE Answer(r, "error") /\ UNCHANGED msgs
    BY <1>1, <1>2, Abandons
<1>3. ASSUME NEW m \in Msgs, msgs[m].state = "absent",
             msgs' = [msgs EXCEPT ![m] = NewRow(q)],
             req' = [req EXCEPT ![r].pc = "fanout", ![r].msg = m,
                                ![r].row = NewRow(q)]
      PROVE  [Life!Next]_Stage
  <2>1. /\ \A x \in Requests \ {r} : req'[x] = req[x]
        /\ req'[r].pc = "fanout"
      BY <1>1, <1>3 DEF TypeOK, Request
  <2>2. /\ msgs'[m].state = "live" /\ msgs'[m].att = a
        /\ \A n \in Msgs \ {m} : msgs'[n] = msgs[n]
        /\ msgs[m].att = None
      BY <1>0, <1>1, <1>3 DEF NewRow, TypeOK, IInv, RowInv
  <2>3. \A b \in Attachments :
            ~Saves(r, b) /\ ~Saves(r, b)' /\ ~Claims(r, b)'
      BY <1>1, <2>1 DEF Saves, Claims, At
  <2>4. ASSUME NEW b \in Attachments, b # a PROVE StageOf(b)' = StageOf(b)
    <3>1. ~Claims(r, b) /\ b # None
        BY <1>0, <2>4, HoldsNamed, NoneAssumption
    <3>2. Named(b)' <=> Named(b)
        BY <2>2, <2>4, <3>1 DEF Named
    <3>3. Shown(b)' <=> Shown(b)
        BY <2>2, <2>4, <3>1 DEF Shown
    <3>. QED BY <1>1, <2>1, <2>3, <3>1, <3>2, <3>3, Holders, Stays
  <2>5. CASE a = None
      BY <2>4, <2>5, Rests, NoneAssumption
  <2>6. CASE a # None
    <3>1. a \in Attachments /\ Claims(r, a)
        BY <1>0, <1>1, <2>6 DEF Claims
    <3>2. StageOf(a) = "claimed"
        BY <3>1, Exclusive, Stages DEF Claimed
    <3>3. ~Saved(a)' /\ ~Claimed(a)'
      <4>1. ASSUME NEW x \in Requests PROVE ~Saves(x, a)' /\ ~Claims(x, a)'
        <5>1. x # r => ~Saves(x, a) /\ ~Claims(x, a)
            BY <3>1, Exclusive
        <5>. QED BY <2>1, <5>1 DEF Saves, Claims, At
      <4>. QED BY <4>1 DEF Saved, Claimed
    <3>4. Shown(a)'
        BY <2>2 DEF Shown
    <3>5. objects[a] # None /\ records[a] = None
        BY <3>1, Exclusive DEF Claimed
    <3>6. StageOf(a)' = "attached"
        BY <1>1, <3>1, <3>3, <3>4, <3>5, StagesNext
    <3>. QED
        BY <2>4, <3>1, <3>2, <3>6, Advances DEF Life!Stages, Life!Moves
  <2>. QED BY <2>5, <2>6
<1>. QED BY <1>2, <1>3 DEF SendCreate

\* An UPDATE that keeps the rows' attachments, and what is live, moves none.
LEMMA RevisionRests ==
    ASSUME IInv, NEW r \in Requests, EditUpdate(r) \/ ReadUpdate(r)
    PROVE  [Life!Next]_Stage
<1>1. /\ TypeOK /\ Stored(r) \in Row /\ req[r].msg \in Msgs
      /\ UNCHANGED <<objects, records>>
    BY Names DEF EditUpdate, ReadUpdate, At, IInv
<1>2. ASSUME NEW res, Answer(r, res), UNCHANGED msgs PROVE [Life!Next]_Stage
    BY <1>1, <1>2, Abandons
<1>3. ASSUME Goto(r, "fanout"), req[r].pc = "update",
             \A m \in Msgs : /\ msgs'[m].att = msgs[m].att
                             /\ msgs'[m].state = msgs[m].state
      PROVE  [Life!Next]_Stage
  <2>1. /\ \A x \in Requests \ {r} : req'[x] = req[x]
        /\ req'[r].pc = "fanout"
      BY <1>1, <1>3 DEF Goto, TypeOK, Request
  <2>2. ASSUME NEW a \in Attachments PROVE StageOf(a)' = StageOf(a)
    <3>1. /\ ~Saves(r, a) /\ ~Claims(r, a)
          /\ ~Saves(r, a)' /\ ~Claims(r, a)'
        BY <1>3, <2>1 DEF Saves, Claims, At
    <3>2. (Named(a)' <=> Named(a)) /\ (Shown(a)' <=> Shown(a))
        BY <1>3 DEF Named, Shown
    <3>. QED BY <1>1, <2>1, <3>1, <3>2, Holders, Stays
  <2>. QED BY <2>2, Rests
<1>4. CASE EditUpdate(r)
  <2>1. ASSUME msgs' = [msgs EXCEPT ![req[r].msg].content = req[r].row.content,
                                    ![req[r].msg].edited = TRUE]
        PROVE  \A m \in Msgs : /\ msgs'[m].att = msgs[m].att
                               /\ msgs'[m].state = msgs[m].state
      BY <1>1, <2>1 DEF TypeOK, Row
  <2>. QED BY <1>2, <1>3, <1>4, <2>1 DEF EditUpdate, At
<1>5. CASE ReadUpdate(r)
  <2>1. ASSUME msgs' = [msgs EXCEPT ![req[r].msg].read = TRUE]
        PROVE  \A m \in Msgs : /\ msgs'[m].att = msgs[m].att
                               /\ msgs'[m].state = msgs[m].state
      BY <1>1, <2>1 DEF TypeOK, Row
  <2>. QED BY <1>2, <1>3, <1>5, <2>1 DEF ReadUpdate, At
<1>. QED BY <1>4, <1>5

\* The UPDATE of a deletion condemns the attachment of the row, if it has one.
LEMMA DeleteMoves ==
    ASSUME IInv, NEW r \in Requests, DeleteUpdate(r)
    PROVE  [Life!Next]_Stage
<1>1. /\ TypeOK /\ Stored(r) \in Row /\ req[r].msg \in Msgs
      /\ UNCHANGED <<objects, records>> /\ At(r, "delete", "update")
    BY Names DEF DeleteUpdate, At, IInv
<1>2. PICK m \in Msgs : m = req[r].msg
    BY <1>1
<1>3. CASE Answer(r, "notfound") /\ UNCHANGED msgs
    BY <1>1, <1>3, Abandons
<1>4. CASE /\ msgs[m].state = "live"
           /\ msgs' = [msgs EXCEPT ![m].content = None, ![m].state = "deleted"]
           /\ Goto(r, AfterDelete(req[r].row))
  <2>1. /\ \A x \in Requests \ {r} : req'[x] = req[x]
        /\ req'[r].pc \in {"object", "fanout"}
      BY <1>1, <1>4 DEF Goto, AfterDelete, TypeOK, Request
  <2>2. /\ \A n \in Msgs : msgs'[n].att = msgs[n].att
        /\ \A n \in Msgs \ {m} : msgs'[n] = msgs[n]
        /\ msgs'[m].state = "deleted"
      BY <1>1, <1>4 DEF TypeOK, Row
  <2>3. \A a \in Attachments :
            /\ ~Saves(r, a) /\ ~Claims(r, a)
            /\ ~Saves(r, a)' /\ ~Claims(r, a)'
            /\ Named(a)' <=> Named(a)
      BY <1>1, <2>1, <2>2 DEF Saves, Claims, At, Named
  <2>4. ASSUME NEW a \in Attachments, a # msgs[m].att
        PROVE  StageOf(a)' = StageOf(a)
    <3>1. Shown(a)' <=> Shown(a)
        BY <2>2, <2>4 DEF Shown
    <3>. QED BY <1>1, <2>1, <2>3, <3>1, Holders, Stays
  <2>5. CASE msgs[m].att = None
      BY <2>4, <2>5, Rests, NoneAssumption
  <2>6. CASE msgs[m].att # None
    <3>1. PICK a \in Attachments : a = msgs[m].att
        BY <1>1, <2>6 DEF TypeOK, Row
    <3>2. Named(a) /\ Shown(a)
        BY <1>4, <3>1 DEF Named, Shown
    <3>3. StageOf(a) = "attached"
        BY <3>2, Exclusive, Stages
    <3>4. ~Shown(a)'
      <4>1. \A n \in Msgs : msgs[n].att = a => n = m
          BY <3>1, Exclusive
      <4>. QED BY <2>2, <4>1 DEF Shown
    <3>5. /\ objects'[a] # None /\ records'[a] = None
          /\ ~Saved(a)' /\ ~Claimed(a)' /\ Named(a)'
        BY <1>1, <2>1, <2>3, <3>2, Exclusive, Holders
    <3>6. StageOf(a)' = "condemned"
        BY <3>4, <3>5, StagesNext
    <3>. QED
        BY <2>4, <3>1, <3>3, <3>6, Advances DEF Life!Stages, Life!Moves
  <2>. QED BY <2>5, <2>6
<1>. QED BY <1>2, <1>3, <1>4 DEF DeleteUpdate, Stored

\* Only the object of a condemned attachment is ever deleted.
LEMMA ObjectMoves ==
    ASSUME IInv, NEW r \in Requests, DeleteObject(r)
    PROVE  [Life!Next]_Stage
<1>1. /\ TypeOK /\ At(r, "delete", "object") /\ Goto(r, "fanout")
      /\ UNCHANGED <<msgs, records>>
      /\ req[r].row.att \in Attachments /\ req[r].row.att = Stored(r).att
      /\ Stored(r).state = "deleted" /\ req[r].msg \in Msgs
    BY Names DEF DeleteObject, IInv, RequestInv, At
<1>2. PICK a \in Attachments : a = req[r].row.att
    BY <1>1
<1>3. CASE UNCHANGED objects
    BY <1>1, <1>3, Continues
<1>4. CASE objects' = [objects EXCEPT ![a] = None]
  <2>1. /\ \A x \in Requests \ {r} : req'[x] = req[x]
        /\ req'[r].pc = "fanout"
      BY <1>1 DEF Goto, TypeOK, Request
  <2>2. \A b \in Attachments :
            /\ ~Saves(r, b) /\ ~Claims(r, b)
            /\ ~Saves(r, b)' /\ ~Claims(r, b)'
            /\ Named(b)' <=> Named(b)
            /\ Shown(b)' <=> Shown(b)
      BY <1>1, <2>1 DEF Saves, Claims, At, Named, Shown
  <2>3. ASSUME NEW b \in Attachments \ {a} PROVE StageOf(b)' = StageOf(b)
    <3>1. objects'[b] = objects[b]
        BY <1>1, <1>4 DEF TypeOK
    <3>. QED BY <1>1, <2>1, <2>2, <3>1, Holders, Stays
  <2>4. Named(a) /\ ~Shown(a)
    <3>1. \A n \in Msgs : msgs[n].att = a => n = req[r].msg
        BY <1>1, <1>2, Exclusive DEF Stored
    <3>. QED BY <1>1, <1>2, <3>1 DEF Named, Shown, Stored
  <2>5. objects'[a] = None
      BY <1>1, <1>4 DEF TypeOK
  <2>6. StageOf(a)' = "removed"
      BY <2>2, <2>4, <2>5, StagesNext
  <2>7. CASE objects[a] = None
    <3>1. StageOf(a) = "removed"
        BY <2>4, <2>7, Stages
    <3>. QED BY <2>3, <2>6, <3>1, Rests
  <2>8. CASE objects[a] # None
    <3>1. StageOf(a) = "condemned"
        BY <2>4, <2>8, Exclusive, Stages
    <3>. QED BY <2>3, <2>6, <3>1, Advances DEF Life!Stages, Life!Moves
  <2>. QED BY <2>7, <2>8
<1>. QED BY <1>2, <1>3, <1>4 DEF DeleteObject

\* An upload stores an object that nothing names yet, and then offers it.
LEMMA UploadMoves ==
    ASSUME IInv, NEW r \in Requests, UploadStep(r)
    PROVE  [Life!Next]_Stage
<1>1. TypeOK /\ req[r].user \in Users /\ req[r].user # None
    BY NoneAssumption
    DEF UploadStep, UploadPut, UploadSave, IInv, RequestInv, WellFormed, At,
        AllOps
<1>2. ASSUME NEW a \in Attachments, FreshAttachment(a),
             objects' = [objects EXCEPT ![a] = req[r].user],
             req' = [req EXCEPT ![r].pc = "save", ![r].att = a],
             At(r, "upload", "put"), UNCHANGED <<msgs, records>>
      PROVE  [Life!Next]_Stage
  <2>1. /\ \A x \in Requests \ {r} : req'[x] = req[x]
        /\ At(r, "upload", "save")' /\ req'[r].att = a
      BY <1>1, <1>2 DEF TypeOK, Request, At
  <2>2. ASSUME NEW b \in Attachments \ {a} PROVE StageOf(b)' = StageOf(b)
    <3>1. /\ ~Saves(r, b) /\ ~Claims(r, b)
          /\ ~Saves(r, b)' /\ ~Claims(r, b)'
          /\ objects'[b] = objects[b]
        BY <1>1, <1>2, <2>1 DEF Saves, Claims, At, TypeOK
    <3>. QED BY <1>2, <2>1, <3>1, Holders, Stays DEF Named, Shown
  <2>3. StageOf(a) = "absent"
      BY <1>2, Stages DEF FreshAttachment, Named
  <2>4. Saved(a)' /\ objects'[a] # None /\ records'[a] = None
      BY <1>1, <1>2, <2>1, Exclusive DEF Saved, Saves, FreshAttachment, TypeOK
  <2>5. StageOf(a)' = "stored"
      BY <2>4, StagesNext
  <2>. QED BY <2>2, <2>3, <2>5, Advances DEF Life!Stages, Life!Moves
<1>3. CASE UploadSave(r)
  <2>1. At(r, "upload", "save") /\ Answer(r, "ok") /\ UNCHANGED <<msgs, objects>>
      BY <1>3 DEF UploadSave
  <2>2. PICK a \in Attachments : a = req[r].att
      BY <2>1 DEF IInv, RequestInv, WellFormed, At
  <2>3. CASE UNCHANGED records
      BY <2>1, <2>3, Abandons
  <2>4. CASE records' = [records EXCEPT ![a] = req[r].user]
    <3>1. /\ \A x \in Requests \ {r} : req'[x] = req[x]
          /\ req'[r].pc = "done"
        BY <1>1, <2>1 DEF Answer, TypeOK, Request
    <3>2. ASSUME NEW b \in Attachments \ {a} PROVE StageOf(b)' = StageOf(b)
      <4>1. /\ ~Saves(r, b) /\ ~Claims(r, b)
            /\ ~Saves(r, b)' /\ ~Claims(r, b)'
            /\ records'[b] = records[b]
          BY <1>1, <2>1, <2>2, <2>4, <3>1 DEF Saves, Claims, At, TypeOK
      <4>. QED BY <2>1, <3>1, <4>1, Holders, Stays DEF Named, Shown
    <3>3. Saved(a) /\ StageOf(a) = "stored" /\ objects[a] # None
        BY <2>1, <2>2, Exclusive, Stages DEF Saved, Saves
    <3>4. StageOf(a)' = "offered"
        BY <1>1, <2>1, <2>4, <3>3, StagesNext DEF TypeOK
    <3>. QED BY <3>2, <3>3, <3>4, Advances DEF Life!Stages, Life!Moves
  <2>. QED BY <1>3, <2>2, <2>3, <2>4 DEF UploadSave
<1>. QED BY <1>2, <1>3 DEF UploadStep, UploadPut

\* The expiry of a record orphans its attachment; nothing else from outside
\* touches one.
LEMMA EnvironmentMoves ==
    ASSUME IInv, Environment PROVE [Life!Next]_Stage
<1>1. ASSUME NEW a \in Attachments, RecordExpires(a) PROVE [Life!Next]_Stage
  <2>1. /\ records[a] # None /\ records' = [records EXCEPT ![a] = None]
        /\ UNCHANGED <<msgs, objects, req>>
      BY <1>1 DEF RecordExpires
  <2>2. \A b \in Attachments :
            /\ Saved(b)' <=> Saved(b)
            /\ Claimed(b)' <=> Claimed(b)
            /\ Named(b)' <=> Named(b)
            /\ Shown(b)' <=> Shown(b)
      BY <2>1 DEF Saved, Saves, Claimed, Claims, At, Named, Shown
  <2>3. ASSUME NEW b \in Attachments \ {a} PROVE StageOf(b)' = StageOf(b)
    <3>1. records'[b] = records[b]
        BY <2>1 DEF IInv, TypeOK
    <3>. QED BY <2>1, <2>2, <3>1, Stays
  <2>4. /\ objects[a] # None /\ ~Saved(a) /\ ~Claimed(a) /\ ~Named(a)
        /\ StageOf(a) = "offered"
      BY <2>1, Exclusive, Stages
  <2>5. records'[a] = None /\ objects'[a] # None
      BY <2>1, <2>4 DEF IInv, TypeOK
  <2>6. ~Shown(a)'
      BY <2>2, <2>4 DEF Shown, Named
  <2>7. StageOf(a)' = "orphan"
      BY <2>2, <2>4, <2>5, <2>6, StagesNext
  <2>. QED BY <2>3, <2>4, <2>7, Advances DEF Life!Stages, Life!Moves
<1>2. ASSUME UNCHANGED <<msgs, objects, records, req>>
      PROVE  [Life!Next]_Stage
    BY <1>2, Stays, Rests DEF Saved, Saves, Claimed, Claims, At, Named, Shown
<1>. QED
    BY <1>1, <1>2 DEF Environment, EditWindowCloses, Block, Unblock

-----------------------------------------------------------------------------
(* The refinement. *)

\* Every attachment is absent at first.
LEMMA LifeInit == Init => Life!Init
<1>1. ASSUME Init, NEW a \in Attachments PROVE StageOf(a) = "absent"
  <2>1. \A m \in Msgs : msgs[m].att = None
      BY <1>1 DEF Init, NoRow
  <2>2. objects[a] = None /\ ~Named(a)
      BY <1>1, <2>1, NoneAssumption DEF Init, Named
  <2>. QED BY <2>2, Stages
<1>. QED BY <1>1 DEF Life!Init

\* Every step of the backend moves one attachment on, or none.
LEMMA LifeStep == IInv /\ [Next]_vars => [Life!Next]_Stage
<1>. SUFFICES ASSUME IInv, [Next]_vars PROVE [Life!Next]_Stage
    OBVIOUS
<1>1. ASSUME NEW r \in Requests, Handle(r) PROVE [Life!Next]_Stage
    BY <1>1, Reads, PopMoves, CreateMoves, RevisionRests, DeleteMoves,
       ObjectMoves, UploadMoves
    DEF Handle, SendStep, EditStep, DeleteStep, ReadStep, DownloadStep
<1>2. CASE UNCHANGED vars
    BY <1>2, Stays, Rests
    DEF vars, Saved, Saves, Claimed, Claims, At, Named, Shown
<1>. QED
    BY <1>1, <1>2, Calls, Reads, EnvironmentMoves DEF Next

\* The stores and the handlers keep the promise of module Custody: an
\* attachment is offered once, claimed by one send, shown by one message, and
\* an orphan never comes back, however requests, expiries, failures and
\* crashes interleave.
THEOREM Refinement == Spec => LifeSpec
<1>. QED
    BY LifeInit, LifeStep, Invariance, PTL
    DEF Spec, LifeSpec, Life!Spec, Stage
=============================================================================
