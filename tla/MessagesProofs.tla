--------------------------- MODULE MessagesProofs ---------------------------
(***************************************************************************)
(* Proofs about module Messages, for every number of users, conversations, *)
(* messages, attachments and concurrent requests.                          *)
(***************************************************************************)
EXTENDS Messages, TLAPS

\* Steps that only move requests between calls that the invariant is not
\* about leave it true: one request changes, to a value that is sound by
\* itself and that claims, saves and has won nothing more than before.
LEMMA Quiet ==
    ASSUME IInv, UNCHANGED <<msgs, objects, records>>,
           late' \subseteq Msgs, blocked' \subseteq Convs,
           req' \in [Requests -> Request],
           NEW r \in Requests,
           \A x \in Requests \ {r} : req'[x] = req[x],
           RequestInv(r)',
           \A a \in Attachments :
               /\ Claims(r, a)' => Claims(r, a) /\ req'[r].user = req[r].user
               /\ Saves(r, a)' => Saves(r, a) /\ req'[r].user = req[r].user,
           \A op \in {"delete", "read"} :
               Past(r, op)' => Past(r, op) /\ req'[r].msg = req[r].msg
    PROVE  IInv'
<1>1. TypeOK'
    BY DEF IInv, TypeOK
<1>2. ASSUME NEW m \in Msgs PROVE RowInv(m)'
    BY DEF IInv, RowInv
<1>3. ASSUME NEW a \in Attachments PROVE AttachmentInv(a)'
  <2>1. \A x \in Requests :
            /\ Claims(x, a)' => Claims(x, a) /\ req'[x].user = req[x].user
            /\ Saves(x, a)' => Saves(x, a) /\ req'[x].user = req[x].user
      BY DEF Claims, Saves, At
  <2>. QED BY <2>1 DEF IInv, AttachmentInv
<1>4. ASSUME NEW x \in Requests PROVE RequestInv(x)'
  <2>1. CASE x = r BY <2>1
  <2>2. CASE x # r
      BY <2>2 DEF IInv, RequestInv, Stored, ReplyTarget, At, Committed
  <2>. QED BY <2>1, <2>2
<1>5. OneWinner'
  <2>1. \A x \in Requests, op \in {"delete", "read"} :
            Past(x, op)' => Past(x, op) /\ req'[x].msg = req[x].msg
      BY DEF Past
  <2>. QED BY <2>1 DEF IInv, OneWinner
<1>. QED BY <1>1, <1>2, <1>3, <1>4, <1>5 DEF IInv

\* A request that comes in remembers nothing of the stores.
LEMMA Begins ==
    ASSUME IInv, NEW r \in Requests, NEW q \in Request,
           Begin(r, q), WellFormed(q),
           q.pc \in {"block", "fetch", "put", "find", "done"}
    PROVE  IInv'
<1>1. /\ req' \in [Requests -> Request] /\ req'[r] = q
      /\ \A x \in Requests \ {r} : req'[x] = req[x]
    BY DEF Begin, IInv, TypeOK
<1>2. RequestInv(r)'
    BY <1>1 DEF RequestInv, At
<1>. QED
    BY <1>1, <1>2, Quiet DEF Begin, stores, Claims, Saves, At, Past, IInv, TypeOK

\* What a change of the program counter does to a request.
LEMMA Moves ==
    ASSUME TypeOK, NEW r \in Requests, NEW pc \in PCs, Goto(r, pc)
    PROVE  /\ req' \in [Requests -> Request]
           /\ \A x \in Requests \ {r} : req'[x] = req[x]
           /\ req'[r].op = req[r].op /\ req'[r].pc = pc
           /\ req'[r].user = req[r].user /\ req'[r].conv = req[r].conv
           /\ req'[r].msg = req[r].msg /\ req'[r].reply = req[r].reply
           /\ req'[r].att = req[r].att /\ req'[r].row = req[r].row
BY DEF Goto, TypeOK, Request

\* The same for an answer.
LEMMA Ends ==
    ASSUME TypeOK, NEW r \in Requests, NEW res \in Results, Answer(r, res)
    PROVE  /\ req' \in [Requests -> Request]
           /\ \A x \in Requests \ {r} : req'[x] = req[x]
           /\ req'[r].op = req[r].op /\ req'[r].pc = "done"
           /\ req'[r].user = req[r].user /\ req'[r].conv = req[r].conv
           /\ req'[r].msg = req[r].msg
<1>1. req[r] \in Request
    BY DEF TypeOK
<1>2. [req[r] EXCEPT !.pc = "done", !.res = res] \in Request
    BY <1>1, Zenon DEF Request, PCs
<1>. QED
    BY <1>1, <1>2 DEF Answer, TypeOK, Request

\* A request that ends gives up what it held.
LEMMA Answers ==
    ASSUME IInv, NEW r \in Requests, NEW res \in Results,
           Answer(r, res), UNCHANGED stores
    PROVE  IInv'
<1>1. TypeOK /\ WellFormed(req[r])
    BY DEF IInv, RequestInv
<1>2. RequestInv(r)'
    BY <1>1, Ends DEF RequestInv, At, WellFormed
<1>. QED
    BY <1>1, <1>2, Ends, Quiet DEF stores, Claims, Saves, At, Past, TypeOK

\* A request that goes on without touching a store.
LEMMA GoesOn ==
    ASSUME IInv, NEW r \in Requests, NEW pc \in PCs \ {"save"},
           Goto(r, pc), UNCHANGED stores, RequestInv(r)',
           pc = "create" => req[r].att = None,
           pc \in {"object", "fanout", "deliver"} =>
               req[r].pc \in {"object", "fanout", "deliver"}
    PROVE  IInv'
<1>1. TypeOK
    BY DEF IInv
<1>2. \A a \in Attachments : a # None
    BY NoneAssumption
<1>. QED
    BY <1>1, <1>2, Moves, Quiet DEF stores, Claims, Saves, At, Past, TypeOK

-----------------------------------------------------------------------------
(* SendMessage. *)

\* The block check of a send, and its refusal of an empty message, touch no
\* store.
LEMMA SendBlockStep ==
    ASSUME IInv, NEW r \in Requests, SendBlock(r) PROVE IInv'
<1>1. /\ TypeOK /\ WellFormed(req[r])
      /\ At(r, "send", "block") /\ UNCHANGED stores
    BY DEF SendBlock, IInv, RequestInv
<1>2. CASE Answer(r, "notfound") \/ Answer(r, "badrequest")
    BY <1>1, <1>2, Answers DEF Results
<1>3. CASE Goto(r, AfterBlock(req[r]))
  <2>1. /\ AfterBlock(req[r]) \in {"reply", "pop", "create"}
        /\ AfterBlock(req[r]) = "reply" <=> req[r].reply # None
        /\ AfterBlock(req[r]) = "pop" => req[r].att # None
        /\ AfterBlock(req[r]) = "create" => req[r].att = None
      BY DEF AfterBlock, AfterReply
  <2>2. req[r].reply \in Msgs \cup {None} /\ req[r].att \in Attachments \cup {None}
      BY <1>1 DEF TypeOK, Request
  <2>3. WellFormed(req[r])'
      BY <1>1, <1>3, <2>1, <2>2, Moves DEF PCs, WellFormed, At
  <2>4. RequestInv(r)'
      BY <1>1, <1>3, <2>1, <2>3, Moves DEF PCs, RequestInv, At
  <2>. QED BY <1>1, <1>3, <2>1, <2>4, GoesOn DEF PCs
<1>. QED BY <1>2, <1>3 DEF SendBlock

\* A send goes past the check of the replied-to message only with a message
\* of its own conversation, and no row ever leaves its conversation.
LEMMA SendReplyStep ==
    ASSUME IInv, NEW r \in Requests, SendReply(r) PROVE IInv'
<1>1. /\ TypeOK /\ WellFormed(req[r])
      /\ At(r, "send", "reply") /\ UNCHANGED stores
    BY DEF SendReply, IInv, RequestInv
<1>2. CASE Answer(r, "notfound") \/ Answer(r, "forbidden")
    BY <1>1, <1>2, Answers DEF Results
<1>3. CASE /\ Goto(r, AfterReply(req[r]))
           /\ ReplyTarget(r).state = "live"
           /\ ReplyTarget(r).conv = req[r].conv
  <2>1. /\ AfterReply(req[r]) \in {"pop", "create"}
        /\ AfterReply(req[r]) = "pop" => req[r].att # None
        /\ AfterReply(req[r]) = "create" => req[r].att = None
      BY DEF AfterReply
  <2>2. req[r].att \in Attachments \cup {None}
      BY <1>1 DEF TypeOK, Request
  <2>3. WellFormed(req[r])'
      BY <1>1, <1>3, <2>1, <2>2, Moves DEF PCs, WellFormed, At
  <2>4. RequestInv(r)'
      BY <1>1, <1>3, <2>1, <2>3, Moves
      DEF PCs, RequestInv, At, ReplyTarget, stores
  <2>. QED BY <1>1, <1>3, <2>1, <2>4, GoesOn DEF PCs
<1>. QED BY <1>2, <1>3 DEF SendReply

\* The step in which the record becomes a claim, or is lost.
LEMMA SendPopStep ==
    ASSUME IInv, NEW r \in Requests, SendPop(r) PROVE IInv'
<1>. DEFINE a == req[r].att
<1>1. /\ TypeOK /\ WellFormed(req[r]) /\ RequestInv(r)
      /\ At(r, "send", "pop")
      /\ UNCHANGED <<msgs, late, objects, blocked>>
      /\ a \in Attachments
      /\ records' = [records EXCEPT ![a] = None]
    BY DEF SendPop, IInv, RequestInv, WellFormed, At
<1>2. /\ req' \in [Requests -> Request]
      /\ \A x \in Requests \ {r} : req'[x] = req[x]
      /\ req'[r].op = "send" /\ req'[r].pc \in {"done", "create"}
      /\ req'[r].user = req[r].user /\ req'[r].conv = req[r].conv
      /\ req'[r].pc = "create" =>
            /\ records[a] # None /\ records[a] = req[r].user
            /\ req'[r].att = a /\ req'[r].reply = req[r].reply
  <2>1. CASE Answer(r, "notfound") \/ Answer(r, "forbidden")
      BY <1>1, <2>1, Ends DEF Results, At
  <2>2. CASE records[a] = req[r].user /\ Goto(r, "create")
    <3>1. req[r].user # None
        BY <1>1, NoneAssumption DEF WellFormed, At, AllOps
    <3>. QED BY <1>1, <2>2, <3>1, Moves DEF PCs, At
  <2>. QED BY <2>1, <2>2 DEF SendPop
<1>3. TypeOK'
    BY <1>1, <1>2 DEF TypeOK
<1>4. ASSUME NEW m \in Msgs PROVE RowInv(m)'
    BY <1>1 DEF IInv, RowInv
<1>5. ASSUME NEW b \in Attachments PROVE AttachmentInv(b)'
  <2>1. /\ \A x \in Requests : Saves(x, b)' => Saves(x, b) /\ req'[x].user = req[x].user
        /\ \A x \in Requests \ {r} : Claims(x, b)' => Claims(x, b) /\ req'[x].user = req[x].user
        /\ Claims(r, b)' => b = a /\ records[a] # None /\ records[a] = req'[r].user
      BY <1>2 DEF Claims, Saves, At
  <2>2. records'[b] # None => records[b] = records'[b] /\ b # a
      BY <1>1 DEF TypeOK
  <2>. QED BY <1>1, <2>1, <2>2 DEF IInv, AttachmentInv
<1>6. ASSUME NEW x \in Requests PROVE RequestInv(x)'
  <2>1. CASE x = r
      BY <1>1, <1>2, <2>1 DEF RequestInv, WellFormed, At, ReplyTarget
  <2>2. CASE x # r
      BY <1>1, <1>2, <2>2
      DEF IInv, RequestInv, Stored, ReplyTarget, At, Committed
  <2>. QED BY <2>1, <2>2
<1>7. OneWinner'
    BY <1>2 DEF IInv, OneWinner, Past
<1>. QED BY <1>3, <1>4, <1>5, <1>6, <1>7 DEF IInv

\* What one new row does to the facts that requests remember.
LEMMA RowCreated ==
    ASSUME TypeOK, NEW m \in Msgs, msgs[m].state = "absent",
           NEW row \in Row, msgs' = [msgs EXCEPT ![m] = row],
           NEW r \in Requests, RequestInv(r), req'[r] = req[r]
    PROVE  RequestInv(r)'
<1>1. /\ msgs'[m] = row
      /\ \A n \in Msgs \ {m} : msgs'[n] = msgs[n]
      /\ req[r] \in Request
    BY DEF TypeOK
<1>2. WellFormed(req[r])'
    BY DEF RequestInv
<1>3. Committed(r) /\ req[r].msg \in Msgs => Committed(r)'
    BY <1>1 DEF Committed, Stored
<1>4. req[r].pc \in {"fanout", "deliver"} => Committed(r)'
    BY <1>3 DEF RequestInv, WellFormed
<1>5. req[r].reply \in Msgs \cup {None}
    BY <1>1 DEF Request
<1>. QED
    BY <1>1, <1>2, <1>4, <1>5 DEF RequestInv, WellFormed, At, Stored, ReplyTarget

\* The step in which a claim becomes a message: the claim ends, and the row
\* shows the object that the sender himself has stored.
LEMMA SendCreateStep ==
    ASSUME IInv, NEW r \in Requests, SendCreate(r) PROVE IInv'
<1>. DEFINE q == req[r]
<1>1. /\ TypeOK /\ WellFormed(q) /\ RequestInv(r) /\ q \in Request
      /\ At(r, "send", "create")
      /\ UNCHANGED <<late, objects, records, blocked>>
      /\ q.user \in Users /\ q.conv \in Convs
    BY NoneAssumption DEF SendCreate, IInv, RequestInv, TypeOK, WellFormed, At, AllOps
<1>2. CASE Answer(r, "error") /\ UNCHANGED msgs
    BY <1>1, <1>2, Answers DEF Results, stores
<1>3. ASSUME ~AttachmentTaken(q.att),
             NEW m \in Msgs, msgs[m].state = "absent",
             msgs' = [msgs EXCEPT ![m] = NewRow(q)],
             req' = [req EXCEPT ![r].pc = "fanout", ![r].msg = m,
                                ![r].row = NewRow(q)]
      PROVE  IInv'
  <2>1. NewRow(q) \in Row
      BY <1>1 DEF NewRow, Row, Request
  <2>2. [q EXCEPT !.pc = "fanout", !.msg = m, !.row = NewRow(q)] \in Request
      BY <1>1, <2>1, Zenon DEF Request, PCs
  <2>3. /\ req' \in [Requests -> Request]
        /\ \A x \in Requests \ {r} : req'[x] = req[x]
        /\ req'[r].op = "send" /\ req'[r].pc = "fanout"
        /\ req'[r].msg = m /\ req'[r].user = q.user /\ req'[r].conv = q.conv
      BY <1>1, <1>3, <2>2 DEF TypeOK, Request, At
  <2>4. /\ msgs'[m].state = "live" /\ msgs'[m].sender = q.user
        /\ msgs'[m].conv = q.conv /\ msgs'[m].reply = q.reply
        /\ msgs'[m].att = q.att
        /\ \A n \in Msgs \ {m} : msgs'[n] = msgs[n]
      BY <1>3 DEF NewRow, IInv, TypeOK
  <2>5. TypeOK'
      BY <1>1, <1>3, <2>1, <2>3 DEF TypeOK
  <2>6. ASSUME NEW n \in Msgs PROVE RowInv(n)'
    <3>1. CASE n = m
      <4>1. q.att # None => objects[q.att] = q.user
          BY <1>1 DEF IInv, AttachmentInv, Claims, Request
      <4>2. q.reply # None => /\ q.reply \in Msgs \ {m}
                              /\ msgs[q.reply].state # "absent"
                              /\ msgs[q.reply].conv = q.conv
          BY <1>1, <1>3 DEF RequestInv, ReplyTarget, At, Request
      <4>. QED BY <1>1, <2>4, <3>1, <4>1, <4>2 DEF RowInv
    <3>2. CASE n # m
      <4>1. msgs[n].reply # None => msgs[n].reply \in Msgs \ {m}
          BY <1>1, <1>3 DEF IInv, RowInv, TypeOK, Row
      <4>. QED BY <1>1, <2>4, <3>2, <4>1 DEF IInv, RowInv
    <3>. QED BY <3>1, <3>2
  <2>7. ASSUME NEW a \in Attachments PROVE AttachmentInv(a)'
    <3>1. \A x \in Requests :
              /\ Claims(x, a)' => Claims(x, a) /\ x # r /\ req'[x] = req[x]
              /\ Saves(x, a)' => Saves(x, a) /\ x # r /\ req'[x] = req[x]
        BY <1>1, <2>3 DEF Claims, Saves, At
    <3>2. q.att = a => Claims(r, a) /\ \A n \in Msgs : msgs[n].att # a
        BY <1>1, <1>3, NoneAssumption DEF Claims, AttachmentTaken
    <3>. QED BY <1>1, <2>4, <3>1, <3>2 DEF IInv, AttachmentInv
  <2>8. ASSUME NEW x \in Requests PROVE RequestInv(x)'
    <3>1. CASE x = r
      <4>1. WellFormed(req[r])'
          BY <1>1, <2>3 DEF WellFormed
      <4>. QED
          BY <1>1, <2>3, <2>4, <3>1, <4>1 DEF RequestInv, Committed, Stored, At
    <3>2. CASE x # r
        BY <1>1, <1>3, <2>1, <2>3, <3>2, RowCreated DEF IInv
    <3>. QED BY <3>1, <3>2
  <2>9. OneWinner'
      BY <2>3 DEF IInv, OneWinner, Past
  <2>. QED BY <2>5, <2>6, <2>7, <2>8, <2>9 DEF IInv
<1>. QED BY <1>2, <1>3 DEF SendCreate

-----------------------------------------------------------------------------
(* EditMessage, DeleteMessage, MarkAsRead. *)

\* The changes that the UPDATE statements make to a row.
Revises(m) ==
    /\ msgs' \in [Msgs -> Row]
    /\ \A n \in Msgs \ {m} : msgs'[n] = msgs[n]
    /\ msgs[m].state = "live" /\ msgs'[m].state \in {"live", "deleted"}
    /\ msgs'[m].conv = msgs[m].conv /\ msgs'[m].sender = msgs[m].sender
    /\ msgs'[m].reply = msgs[m].reply /\ msgs'[m].att = msgs[m].att
    /\ msgs[m].read => msgs'[m].read
    /\ msgs[m].edited => msgs'[m].edited
    /\ msgs'[m].state = "deleted" => msgs'[m].content = None

\* A revision that one request commits leaves the invariant true, if that
\* request then remembers what is so and nobody else has won its race.
LEMMA Revision ==
    ASSUME IInv, NEW m \in Msgs, Revises(m),
           UNCHANGED <<late, objects, records, blocked>>,
           NEW r \in Requests, req' \in [Requests -> Request],
           \A x \in Requests \ {r} : req'[x] = req[x],
           req'[r].pc \in {"object", "fanout"}, req'[r].msg = m,
           RequestInv(r)',
           \A x \in Requests \ {r}, op \in {"delete", "read"} :
               Past(x, op) /\ req[x].msg = m => req'[r].op # op
    PROVE  IInv'
<1>1. TypeOK'
    BY DEF IInv, TypeOK, Revises
<1>2. ASSUME NEW n \in Msgs PROVE RowInv(n)'
  <2>1. msgs[n].reply # None => msgs[n].reply \in Msgs
      BY DEF IInv, TypeOK, Row
  <2>. QED BY <2>1 DEF IInv, RowInv, Revises
<1>3. ASSUME NEW a \in Attachments PROVE AttachmentInv(a)'
  <2>1. \A x \in Requests :
            /\ Claims(x, a)' => Claims(x, a) /\ req'[x] = req[x]
            /\ Saves(x, a)' => Saves(x, a) /\ req'[x] = req[x]
      BY DEF Claims, Saves, At
  <2>2. \A n \in Msgs : msgs'[n].att = msgs[n].att
      BY DEF Revises
  <2>. QED BY <2>1, <2>2 DEF IInv, AttachmentInv
<1>4. ASSUME NEW x \in Requests PROVE RequestInv(x)'
  <2>1. CASE x = r BY <2>1
  <2>2. CASE x # r
    <3>1. req'[x] = req[x] /\ req[x] \in Request /\ RequestInv(x)
        BY <2>2 DEF IInv, TypeOK
    <3>2. WellFormed(req[x])'
        BY <3>1 DEF RequestInv
    <3>3. Committed(x) /\ req[x].msg \in Msgs => Committed(x)'
        BY <3>1 DEF Committed, Stored, Revises
    <3>4. req[x].pc \in {"fanout", "deliver"} => Committed(x)'
        BY <3>1, <3>3 DEF RequestInv, WellFormed
    <3>5. req[x].reply \in Msgs \cup {None}
        BY <3>1 DEF Request
    <3>. QED
        BY <3>1, <3>2, <3>4, <3>5
        DEF RequestInv, WellFormed, At, Stored, ReplyTarget, Revises
  <2>. QED BY <2>1, <2>2
<1>5. OneWinner'
  <2>1. \A x \in Requests \ {r}, op \in {"delete", "read"} :
            Past(x, op)' => Past(x, op) /\ req'[x].msg = req[x].msg
      BY DEF Past
  <2>2. \A op \in {"delete", "read"} : Past(r, op)' => req'[r].op = op
      BY DEF Past
  <2>. QED BY <2>1, <2>2 DEF IInv, OneWinner
<1>. QED BY <1>1, <1>2, <1>3, <1>4, <1>5 DEF IInv

\* A handler that has read the row and goes on to its UPDATE.
LEMMA Holds ==
    ASSUME IInv, NEW r \in Requests, NEW row \in Row, Hold(r, row),
           req[r].op \in {"edit", "delete", "read"}, UNCHANGED stores,
           req[r].op = "delete" =>
               row.att = Stored(r).att /\ Stored(r).state # "absent"
    PROVE  IInv'
<1>1. req[r] \in Request /\ WellFormed(req[r]) /\ TypeOK
    BY DEF IInv, TypeOK, RequestInv
<1>2. [req[r] EXCEPT !.pc = "update", !.row = row] \in Request
  <2>1. ASSUME NEW q \in Request
        PROVE  [q EXCEPT !.pc = "update", !.row = row] \in Request
      BY <2>1, ZenonT(30) DEF Request, PCs
  <2>. QED BY <1>1, <2>1
<1>3. /\ req' \in [Requests -> Request]
      /\ \A x \in Requests \ {r} : req'[x] = req[x]
      /\ req'[r].op = req[r].op /\ req'[r].pc = "update"
      /\ req'[r].user = req[r].user /\ req'[r].conv = req[r].conv
      /\ req'[r].msg = req[r].msg /\ req'[r].row = row
    BY <1>1, <1>2 DEF Hold, TypeOK, Request
<1>4. RequestInv(r)'
    BY <1>1, <1>3 DEF RequestInv, WellFormed, At, Stored, stores
<1>. QED
    BY <1>1, <1>3, <1>4, Quiet DEF stores, Claims, Saves, At, Past, TypeOK

\* What the request named by an UPDATE step knows.
LEMMA Names ==
    ASSUME IInv, NEW r \in Requests, NEW op \in {"edit", "delete", "read"},
           req[r].op = op
    PROVE  /\ TypeOK /\ WellFormed(req[r]) /\ RequestInv(r)
           /\ req[r] \in Request /\ req[r].row \in Row
           /\ req[r].msg \in Msgs /\ Stored(r) \in Row
           /\ req[r].user \in Users
<1>1. TypeOK /\ WellFormed(req[r]) /\ RequestInv(r) /\ req[r] \in Request
    BY DEF IInv, TypeOK, RequestInv
<1>2. req[r].op # None
    BY NoneAssumption DEF AllOps
<1>. QED BY <1>1, <1>2 DEF WellFormed, Stored, TypeOK, Request

\* EditMessage: the handler's read, and the UPDATE that names only the content
\* and the mark of an edit, of a row that is not deleted.
LEMMA EditSteps ==
    ASSUME IInv, NEW r \in Requests, EditStep(r) PROVE IInv'
<1>1. req[r].op = "edit"
    BY DEF EditStep, EditFetch, EditUpdate, At
<1>2. CASE EditFetch(r)
  <2>1. CASE Answer(r, "notfound") \/ Answer(r, "forbidden")
      BY <1>2, <2>1, Answers DEF EditFetch, Results
  <2>2. CASE Hold(r, [Stored(r) EXCEPT !.content = req[r].text, !.edited = TRUE])
    <3>1. [Stored(r) EXCEPT !.content = req[r].text, !.edited = TRUE] \in Row
        BY <1>1, Names DEF Row, Request
    <3>. QED BY <1>1, <1>2, <2>2, <3>1, Holds DEF EditFetch
  <2>. QED BY <1>2, <2>1, <2>2 DEF EditFetch
<1>3. CASE EditUpdate(r)
  <2>1. CASE Answer(r, "notfound") /\ UNCHANGED msgs
      BY <1>3, <2>1, Answers DEF EditUpdate, Results, stores
  <2>2. CASE /\ Stored(r).state = "live"
             /\ msgs' = [msgs EXCEPT ![req[r].msg].content = req[r].row.content,
                                     ![req[r].msg].edited = TRUE]
             /\ Goto(r, "fanout")
    <3>. DEFINE m == req[r].msg
    <3>1. /\ TypeOK /\ m \in Msgs /\ msgs[m] \in Row /\ msgs[m].state = "live"
          /\ req[r].row.content \in Texts \cup {None}
        BY <1>1, <2>2, Names DEF Stored, Row
    <3>2. Revises(m) /\ msgs'[m].edited /\ msgs'[m].state = "live"
        BY <2>2, <3>1 DEF TypeOK, Row, Revises
    <3>3. RequestInv(r)'
        BY <1>1, <2>2, <3>1, <3>2, Names, Moves
        DEF PCs, RequestInv, WellFormed, Committed, At, Stored
    <3>. QED
        BY <1>1, <1>3, <2>2, <3>1, <3>2, <3>3, Moves, Revision
        DEF EditUpdate, PCs
  <2>. QED BY <1>3, <2>1, <2>2 DEF EditUpdate
<1>. QED BY <1>2, <1>3 DEF EditStep

\* MarkAsRead: the handler's read, and the UPDATE of a row that is neither
\* deleted nor read, so that one request alone goes past it.
LEMMA ReadSteps ==
    ASSUME IInv, NEW r \in Requests, ReadStep(r) PROVE IInv'
<1>1. req[r].op = "read"
    BY DEF ReadStep, ReadBlock, ReadFetch, ReadUpdate, At
<1>2. CASE ReadBlock(r)
  <2>1. CASE Answer(r, "notfound")
      BY <1>2, <2>1, Answers DEF ReadBlock, Results
  <2>2. CASE Goto(r, "fetch")
    <3>1. RequestInv(r)'
        BY <1>1, <2>2, Names, Moves DEF PCs, RequestInv, WellFormed, At
    <3>. QED BY <1>2, <2>2, <3>1, GoesOn DEF ReadBlock, PCs
  <2>. QED BY <1>2, <2>1, <2>2 DEF ReadBlock
<1>3. CASE ReadFetch(r)
  <2>1. CASE Answer(r, "notfound") \/ Answer(r, "forbidden") \/ Answer(r, "ok")
      BY <1>3, <2>1, Answers DEF ReadFetch, Results
  <2>2. CASE Hold(r, [Stored(r) EXCEPT !.read = TRUE])
    <3>1. [Stored(r) EXCEPT !.read = TRUE] \in Row
        BY <1>1, Names DEF Row
    <3>. QED BY <1>1, <1>3, <2>2, <3>1, Holds DEF ReadFetch
  <2>. QED BY <1>3, <2>1, <2>2 DEF ReadFetch
<1>4. CASE ReadUpdate(r)
  <2>1. CASE Answer(r, "notfound") /\ UNCHANGED msgs
      BY <1>4, <2>1, Answers DEF ReadUpdate, Results, stores
  <2>2. CASE /\ Stored(r).state = "live" /\ ~Stored(r).read
             /\ msgs' = [msgs EXCEPT ![req[r].msg].read = TRUE]
             /\ Goto(r, "fanout")
    <3>. DEFINE m == req[r].msg
    <3>1. /\ TypeOK /\ m \in Msgs /\ msgs[m] \in Row
          /\ msgs[m].state = "live" /\ ~msgs[m].read
        BY <1>1, <2>2, Names DEF Stored
    <3>2. Revises(m) /\ msgs'[m].read /\ msgs'[m].state = "live"
        BY <2>2, <3>1 DEF TypeOK, Row, Revises
    <3>3. RequestInv(r)'
        BY <1>1, <2>2, <3>1, <3>2, Names, Moves
        DEF PCs, RequestInv, WellFormed, Committed, At, Stored
    <3>4. \A x \in Requests : Past(x, "read") => req[x].msg # m
        BY <3>1 DEF IInv, RequestInv, Past, Committed, Stored, At, WellFormed
    <3>. QED
        BY <1>1, <1>4, <2>2, <3>1, <3>2, <3>3, <3>4, Moves, Revision
        DEF ReadUpdate, PCs
  <2>. QED BY <1>4, <2>1, <2>2 DEF ReadUpdate
<1>. QED BY <1>2, <1>3, <1>4 DEF ReadStep

\* DeleteMessage: the handler's read, the UPDATE that one request alone goes
\* past, and the removal of the object, which no live message shows by then.
LEMMA DeleteSteps ==
    ASSUME IInv, NEW r \in Requests, DeleteStep(r) PROVE IInv'
<1>1. req[r].op = "delete"
    BY DEF DeleteStep, DeleteFetch, DeleteUpdate, DeleteObject, At
<1>2. CASE DeleteFetch(r)
  <2>1. CASE \/ Answer(r, "notfound") \/ Answer(r, "forbidden")
             \/ Answer(r, "conflict")
      BY <1>2, <2>1, Answers DEF DeleteFetch, Results
  <2>2. CASE /\ Hold(r, [Stored(r) EXCEPT !.content = None, !.state = "deleted"])
             /\ Stored(r).state = "live"
    <3>. DEFINE row == [Stored(r) EXCEPT !.content = None, !.state = "deleted"]
    <3>1. row \in Row /\ row.att = Stored(r).att
        BY <1>1, Names DEF Row
    <3>. QED BY <1>1, <1>2, <2>2, <3>1, Holds DEF DeleteFetch
  <2>. QED BY <1>2, <2>1, <2>2 DEF DeleteFetch
<1>3. CASE DeleteUpdate(r)
  <2>1. CASE Answer(r, "notfound") /\ UNCHANGED msgs
      BY <1>3, <2>1, Answers DEF DeleteUpdate, Results, stores
  <2>2. CASE /\ Stored(r).state = "live"
             /\ msgs' = [msgs EXCEPT ![req[r].msg].content = None,
                                     ![req[r].msg].state = "deleted"]
             /\ Goto(r, AfterDelete(req[r].row))
    <3>. DEFINE m == req[r].msg
    <3>1. /\ TypeOK /\ m \in Msgs /\ msgs[m] \in Row
          /\ msgs[m].state = "live"
          /\ req[r].row.att = msgs[m].att
        BY <1>1, <1>3, <2>2, Names DEF Stored, DeleteUpdate, RequestInv, At
    <3>2. /\ Revises(m) /\ msgs'[m].state = "deleted"
          /\ msgs'[m].att = msgs[m].att
      <4>. DEFINE row == [msgs[m] EXCEPT !.content = None, !.state = "deleted"]
      <4>1. row \in Row
          BY <3>1 DEF Row
      <4>2. /\ row.state = "deleted" /\ row.content = None
            /\ row.conv = msgs[m].conv /\ row.sender = msgs[m].sender
            /\ row.reply = msgs[m].reply /\ row.att = msgs[m].att
            /\ row.read = msgs[m].read /\ row.edited = msgs[m].edited
          BY <3>1 DEF Row
      <4>3. msgs' = [msgs EXCEPT ![m] = row]
          BY <2>2
      <4>. HIDE DEF row
      <4>. QED BY <3>1, <4>1, <4>2, <4>3 DEF TypeOK, Revises
    <3>3. /\ AfterDelete(req[r].row) \in {"object", "fanout"}
          /\ AfterDelete(req[r].row) = "object" => req[r].row.att \in Attachments
        BY <3>1 DEF AfterDelete, Row
    <3>4. RequestInv(r)'
      <4>1. /\ req'[r].op = "delete" /\ req'[r].pc = AfterDelete(req[r].row)
            /\ req'[r].user = req[r].user /\ req'[r].conv = req[r].conv
            /\ req'[r].msg = m /\ req'[r].row = req[r].row
          BY <1>1, <2>2, <3>1, <3>3, Moves DEF PCs
      <4>2. WellFormed(req[r])'
          BY <1>1, <3>1, <3>3, <4>1, Names DEF WellFormed
      <4>. QED
          BY <3>1, <3>2, <3>3, <4>1, <4>2 DEF RequestInv, Committed, At, Stored
    <3>5. \A x \in Requests : Past(x, "delete") => req[x].msg # m
        BY <3>1 DEF IInv, RequestInv, Past, Committed, Stored, At, WellFormed
    <3>. QED
        BY <1>1, <1>3, <2>2, <3>1, <3>2, <3>3, <3>4, <3>5, Moves, Revision
        DEF DeleteUpdate, PCs
  <2>. QED BY <1>3, <2>1, <2>2 DEF DeleteUpdate
<1>4. CASE DeleteObject(r)
  <2>. DEFINE b == req[r].row.att
  <2>1. /\ TypeOK /\ req[r].msg \in Msgs /\ b \in Attachments
        /\ Stored(r).state = "deleted" /\ Stored(r).att = b
        /\ At(r, "delete", "object")
      BY <1>1, <1>4, Names DEF DeleteObject, RequestInv, At
  <2>2. /\ objects' \in [Attachments -> Users \cup {None}]
        /\ \A a \in Attachments \ {b} : objects'[a] = objects[a]
        /\ UNCHANGED <<msgs, late, records, blocked>>
      BY <1>4, <2>1 DEF DeleteObject, TypeOK
  <2>3. /\ req' \in [Requests -> Request]
        /\ \A x \in Requests \ {r} : req'[x] = req[x]
        /\ req'[r].op = "delete" /\ req'[r].pc = "fanout"
        /\ req'[r].user = req[r].user /\ req'[r].conv = req[r].conv
        /\ req'[r].msg = req[r].msg
      BY <1>1, <1>4, <2>1, Moves DEF DeleteObject, PCs
  <2>4. TypeOK'
      BY <2>1, <2>2, <2>3 DEF TypeOK
  <2>5. ASSUME NEW n \in Msgs PROVE RowInv(n)'
    <3>1. /\ AttachmentInv(b) /\ RowInv(n)
          /\ msgs[n].att \in Attachments \cup {None}
        BY <2>1 DEF IInv, TypeOK, Row
    <3>2. msgs[n].state = "live" => msgs[n].att # b
        BY <2>1, <3>1 DEF AttachmentInv, Stored
    <3>. QED BY <2>2, <3>1, <3>2 DEF RowInv
  <2>6. ASSUME NEW a \in Attachments PROVE AttachmentInv(a)'
    <3>1. \A x \in Requests :
              /\ Claims(x, a)' => Claims(x, a) /\ req'[x] = req[x]
              /\ Saves(x, a)' => Saves(x, a) /\ req'[x] = req[x]
        BY <2>3 DEF Claims, Saves, At
    <3>2. CASE a # b
        BY <2>2, <3>1, <3>2 DEF IInv, AttachmentInv
    <3>3. CASE a = b
      <4>1. /\ records[b] = None
            /\ \A x \in Requests : ~Claims(x, b) /\ ~Saves(x, b)
          BY <2>1 DEF IInv, AttachmentInv, Stored
      <4>. QED BY <2>2, <3>1, <3>3, <4>1 DEF IInv, AttachmentInv
    <3>. QED BY <3>2, <3>3
  <2>7. ASSUME NEW x \in Requests PROVE RequestInv(x)'
    <3>1. CASE x = r
        BY <1>1, <2>1, <2>2, <2>3, <3>1, Names
        DEF RequestInv, WellFormed, Committed, At, Stored
    <3>2. CASE x # r
        BY <2>2, <2>3, <3>2
        DEF IInv, RequestInv, Stored, ReplyTarget, At, Committed
    <3>. QED BY <3>1, <3>2
  <2>8. OneWinner'
    <3>1. \A x \in Requests, op \in {"delete", "read"} :
              Past(x, op)' => Past(x, op) /\ req'[x].msg = req[x].msg
        BY <2>1, <2>3 DEF Past, At
    <3>. QED BY <3>1 DEF IInv, OneWinner
  <2>. QED BY <2>4, <2>5, <2>6, <2>7, <2>8 DEF IInv
<1>. QED BY <1>2, <1>3, <1>4 DEF DeleteStep

-----------------------------------------------------------------------------
(* Upload, Download, fan-out. *)

\* The object of a fresh attachment identifier disturbs no other attachment.
LEMMA UploadPutStep ==
    ASSUME IInv, NEW r \in Requests, UploadPut(r) PROVE IInv'
<1>1. /\ TypeOK /\ WellFormed(req[r]) /\ req[r] \in Request
      /\ At(r, "upload", "put") /\ req[r].user \in Users
      /\ UNCHANGED <<msgs, late, records, blocked>>
    BY NoneAssumption
    DEF UploadPut, IInv, RequestInv, TypeOK, WellFormed, At, AllOps
<1>2. PICK b \in Attachments :
          /\ FreshAttachment(b)
          /\ objects' = [objects EXCEPT ![b] = req[r].user]
          /\ req' = [req EXCEPT ![r].pc = "save", ![r].att = b]
    BY DEF UploadPut
<1>3. [req[r] EXCEPT !.pc = "save", !.att = b] \in Request
  <2>1. ASSUME NEW q \in Request
        PROVE  [q EXCEPT !.pc = "save", !.att = b] \in Request
      BY <2>1, ZenonT(30) DEF Request, PCs
  <2>. QED BY <1>1, <2>1
<1>4. /\ req' \in [Requests -> Request]
      /\ \A x \in Requests \ {r} : req'[x] = req[x]
      /\ req'[r].op = "upload" /\ req'[r].pc = "save"
      /\ req'[r].user = req[r].user /\ req'[r].conv = req[r].conv
      /\ req'[r].att = b
    BY <1>1, <1>2, <1>3 DEF TypeOK, Request, At
<1>5. /\ objects' \in [Attachments -> Users \cup {None}]
      /\ \A a \in Attachments \ {b} : objects'[a] = objects[a]
      /\ objects'[b] = req[r].user /\ objects[b] = None
      /\ \A m \in Msgs : msgs[m].att # b
    BY <1>1, <1>2 DEF FreshAttachment, TypeOK
<1>6. TypeOK'
    BY <1>1, <1>4, <1>5 DEF TypeOK
<1>7. ASSUME NEW m \in Msgs PROVE RowInv(m)'
  <2>1. msgs[m].att \in Attachments \cup {None}
      BY <1>1 DEF TypeOK, Row
  <2>. QED BY <1>1, <1>5, <2>1 DEF IInv, RowInv
<1>8. ASSUME NEW a \in Attachments PROVE AttachmentInv(a)'
  <2>1. /\ \A x \in Requests : req'[x].user = req[x].user
        /\ \A x \in Requests : Claims(x, a)' => Claims(x, a)
        /\ \A x \in Requests \ {r} : Saves(x, a)' => Saves(x, a)
        /\ Saves(r, a)' => a = b
      BY <1>4 DEF Claims, Saves, At
  <2>2. AttachmentInv(a)
      BY DEF IInv
  <2>3. CASE a # b
    <3>1. \A x \in Requests : Saves(x, a)' => Saves(x, a)
        BY <2>1, <2>3
    <3>. QED
        BY <1>1, <1>5, <2>1, <2>2, <2>3, <3>1 DEF AttachmentInv
  <2>4. CASE a = b
    <3>1. \A x \in Requests : Claims(x, b) \/ Saves(x, b) => req[x].user # None
        BY NoneAssumption
        DEF Claims, Saves, At, IInv, RequestInv, WellFormed, AllOps
    <3>2. records[b] = None
        BY <1>5, <2>2, <2>4, NoneAssumption, <1>1 DEF AttachmentInv, TypeOK
    <3>3. \A x \in Requests : ~Claims(x, b) /\ ~Saves(x, b)
        BY <1>5, <2>2, <2>4, <3>1 DEF AttachmentInv
    <3>4. \A x \in Requests : ~Claims(x, b)' /\ (Saves(x, b)' => x = r)
        BY <2>1, <2>4, <3>3
    <3>. QED
        BY <1>1, <1>5, <2>1, <2>4, <3>2, <3>4 DEF AttachmentInv
  <2>. QED BY <2>3, <2>4
<1>9. ASSUME NEW x \in Requests PROVE RequestInv(x)'
  <2>1. CASE x = r
      BY <1>1, <1>4, <2>1 DEF RequestInv, WellFormed, At
  <2>2. CASE x # r
      BY <1>1, <1>4, <2>2
      DEF IInv, RequestInv, Stored, ReplyTarget, At, Committed
  <2>. QED BY <2>1, <2>2
<1>10. OneWinner'
    BY <1>4 DEF IInv, OneWinner, Past
<1>. QED BY <1>6, <1>7, <1>8, <1>9, <1>10 DEF IInv

\* The step in which the stored object is offered to its uploader.
LEMMA UploadSaveStep ==
    ASSUME IInv, NEW r \in Requests, UploadSave(r) PROVE IInv'
<1>. DEFINE b == req[r].att
<1>1. /\ TypeOK /\ WellFormed(req[r]) /\ Saves(r, b)
      /\ b \in Attachments /\ req[r].user \in Users
      /\ UNCHANGED <<msgs, late, objects, blocked>>
    BY NoneAssumption
    DEF UploadSave, IInv, RequestInv, WellFormed, At, Saves, AllOps
<1>2. /\ records' \in [Attachments -> Users \cup {None}]
      /\ \A a \in Attachments \ {b} : records'[a] = records[a]
      /\ records'[b] \in {records[b], req[r].user}
    BY <1>1 DEF UploadSave, TypeOK
<1>3. /\ req' \in [Requests -> Request]
      /\ \A x \in Requests \ {r} : req'[x] = req[x]
      /\ req'[r].op = req[r].op /\ req'[r].pc = "done"
      /\ req'[r].user = req[r].user /\ req'[r].conv = req[r].conv
      /\ req'[r].msg = req[r].msg
    BY <1>1, Ends DEF UploadSave, Results
<1>4. TypeOK'
    BY <1>1, <1>2, <1>3 DEF TypeOK
<1>5. ASSUME NEW m \in Msgs PROVE RowInv(m)'
    BY <1>1 DEF IInv, RowInv
<1>6. ASSUME NEW a \in Attachments PROVE AttachmentInv(a)'
  <2>1. \A x \in Requests :
            /\ Claims(x, a)' => Claims(x, a) /\ x # r /\ req'[x] = req[x]
            /\ Saves(x, a)' => Saves(x, a) /\ x # r /\ req'[x] = req[x]
      BY <1>3 DEF Claims, Saves, At
  <2>2. CASE a # b
      BY <1>1, <1>2, <2>1, <2>2 DEF IInv, AttachmentInv
  <2>3. CASE a = b
      BY <1>1, <1>2, <2>1, <2>3 DEF IInv, AttachmentInv
  <2>. QED BY <2>2, <2>3
<1>7. ASSUME NEW x \in Requests PROVE RequestInv(x)'
  <2>1. CASE x = r
      BY <1>1, <1>3, <2>1 DEF RequestInv, WellFormed, At
  <2>2. CASE x # r
      BY <1>1, <1>3, <2>2
      DEF IInv, RequestInv, Stored, ReplyTarget, At, Committed
  <2>. QED BY <2>1, <2>2
<1>8. OneWinner'
    BY <1>3 DEF IInv, OneWinner, Past
<1>. QED BY <1>4, <1>5, <1>6, <1>7, <1>8 DEF IInv

\* Downloads read: what they remember of the row stays so, since no row loses
\* its attachment.
LEMMA DownloadSteps ==
    ASSUME IInv, NEW r \in Requests, DownloadStep(r) PROVE IInv'
<1>1. /\ TypeOK /\ WellFormed(req[r]) /\ req[r] \in Request
      /\ req[r].op = "download"
    BY DEF IInv, RequestInv, TypeOK, DownloadStep, DownloadFind, DownloadGet, At
<1>2. CASE DownloadGet(r)
    BY <1>2, Answers DEF DownloadGet, Results
<1>3. CASE DownloadFind(r)
  <2>1. CASE Answer(r, "notfound")
      BY <1>3, <2>1, Answers DEF DownloadFind, Results
  <2>2. ASSUME NEW m \in Msgs, msgs[m].att = req[r].att,
               req' = [req EXCEPT ![r].pc = "get", ![r].msg = m,
                                  ![r].row = msgs[m]]
        PROVE  IInv'
    <3>1. [req[r] EXCEPT !.pc = "get", !.msg = m, !.row = msgs[m]] \in Request
      <4>1. ASSUME NEW q \in Request, NEW row \in Row
            PROVE  [q EXCEPT !.pc = "get", !.msg = m, !.row = row] \in Request
          BY <4>1, ZenonT(30) DEF Request, PCs
      <4>. QED BY <1>1, <4>1 DEF TypeOK
    <3>2. /\ req' \in [Requests -> Request]
          /\ \A x \in Requests \ {r} : req'[x] = req[x]
          /\ req'[r].op = "download" /\ req'[r].pc = "get"
          /\ req'[r].user = req[r].user /\ req'[r].msg = m
          /\ req'[r].att = req[r].att
        BY <1>1, <2>2, <3>1 DEF TypeOK, Request
    <3>3. req[r].att \in Attachments /\ UNCHANGED stores
        BY <1>1, <1>3 DEF DownloadFind, At, WellFormed
    <3>4. msgs[m].state # "absent"
        BY <2>2, <3>3, NoneAssumption DEF IInv, RowInv
    <3>5. RequestInv(r)'
        BY <1>1, <2>2, <3>2, <3>3, <3>4
        DEF RequestInv, WellFormed, At, Stored, stores
    <3>. QED
        BY <1>1, <3>2, <3>3, <3>5, Quiet
        DEF stores, Claims, Saves, At, Past, TypeOK
  <2>. QED BY <1>3, <2>1, <2>2 DEF DownloadFind
<1>. QED BY <1>2, <1>3 DEF DownloadStep

\* The fan-out of an event touches no store.
LEMMA FanOutSteps ==
    ASSUME IInv, NEW r \in Requests, FanOut(r) \/ Deliver(r) PROVE IInv'
<1>1. CASE Answer(r, "ok")
    BY <1>1, Answers DEF FanOut, Deliver, Results
<1>2. CASE Goto(r, "deliver") /\ req[r].pc = "fanout"
  <2>1. TypeOK /\ RequestInv(r) /\ UNCHANGED stores
      BY <1>2 DEF IInv, FanOut, Deliver
  <2>2. RequestInv(r)'
      BY <1>2, <2>1, Moves
      DEF PCs, RequestInv, WellFormed, Committed, At, Stored, stores
  <2>. QED BY <1>2, <2>1, <2>2, GoesOn DEF PCs
<1>. QED BY <1>1, <1>2 DEF FanOut, Deliver

-----------------------------------------------------------------------------
(* The initial state, the clients and the environment. *)

\* Empty stores and idle requests satisfy the invariant.
LEMMA InitIInv == Init => IInv
<1>. SUFFICES ASSUME Init PROVE IInv
    OBVIOUS
<1>1. NoRow \in Row /\ Idle \in Request
    BY DEF NoRow, Row, Idle, Request, PCs
<1>2. TypeOK
    BY <1>1 DEF Init, TypeOK
<1>3. ASSUME NEW m \in Msgs PROVE RowInv(m)
    BY DEF Init, RowInv, NoRow
<1>4. ASSUME NEW a \in Attachments PROVE AttachmentInv(a)
    BY NoneAssumption
    DEF Init, AttachmentInv, Claims, Saves, At, Idle, NoRow
<1>5. ASSUME NEW r \in Requests PROVE RequestInv(r)
    BY NoneAssumption DEF Init, RequestInv, WellFormed, At, Idle, AllOps
<1>6. OneWinner
    BY DEF Init, OneWinner, Past, Idle
<1>. QED BY <1>2, <1>3, <1>4, <1>5, <1>6 DEF IInv

\* Every request that a client can make is sound before its first call.
LEMMA Asked ==
    ASSUME NEW op \in AllOps, NEW pc \in {"block", "fetch", "put", "find"},
           NEW u \in Users, NEW c \in Convs \cup {None},
           NEW m \in Msgs \cup {None}, NEW t \in Texts \cup {None},
           NEW p \in Msgs \cup {None}, NEW a \in Attachments \cup {None},
           op \in {"send", "edit", "delete", "read"} => c \in Convs,
           op \in {"edit", "delete", "read"} => m \in Msgs,
           pc = "find" => a \in Attachments
    PROVE  LET q == Asks(op, pc, u, c, m, t, p, a) IN
           /\ q \in Request /\ WellFormed(q) /\ q.pc = pc
<1>1. NoRow \in Row
    BY DEF NoRow, Row
<1>. QED BY <1>1 DEF Asks, Request, PCs, WellFormed

\* A refusal ends a request.
LEMMA Refused ==
    ASSUME NEW q \in Request, WellFormed(q), NEW res \in Results
    PROVE  LET d == [q EXCEPT !.pc = "done", !.res = res] IN
           /\ d \in Request /\ WellFormed(d) /\ d.pc = "done"
<1>1. [q EXCEPT !.pc = "done", !.res = res] \in Request
    BY ZenonT(30) DEF Request, PCs
<1>. QED BY <1>1 DEF WellFormed, Request

\* A client that is not a participant is refused; either way the request
\* comes in.
LEMMA Admitted ==
    ASSUME IInv, NEW r \in Requests, NEW q \in Request, WellFormed(q),
           q.pc \in {"block", "fetch"}, Begin(r, OtherParticipant(q))
    PROVE  IInv'
<1>1. CASE q.user \in Participants[q.conv]
    BY <1>1, Begins DEF OtherParticipant
<1>2. CASE q.user \notin Participants[q.conv]
  <2>. DEFINE d == [q EXCEPT !.pc = "done", !.res = "notfound"]
  <2>1. d \in Request /\ WellFormed(d) /\ d.pc = "done"
      BY Refused DEF Results
  <2>2. Begin(r, d)
      BY <1>2 DEF OtherParticipant
  <2>. HIDE DEF d
  <2>. QED BY <2>1, <2>2, Begins
<1>. QED BY <1>1, <1>2

\* A client's call, refused by the handler at once or not, leaves the
\* invariant true: one case for each operation.
LEMMA CallStep ==
    ASSUME IInv, NEW r \in Requests, Call(r) PROVE IInv'
<1>1. CASE SendMessage(r)
  <2>1. PICK u \in Users, c \in Convs, t \in Texts \cup {None},
             p \in Msgs \cup {None}, a \in Attachments \cup {None} :
          Begin(r, OtherParticipant(
                      Asks("send", "block", u, c, None, t, p, a)))
      BY <1>1 DEF SendMessage
  <2>. DEFINE q == Asks("send", "block", u, c, None, t, p, a)
  <2>2. q \in Request /\ WellFormed(q) /\ q.pc = "block"
    <3>1. NoRow \in Row
        BY DEF NoRow, Row
    <3>. QED BY <3>1 DEF Asks, Request, AllOps, PCs, WellFormed
  <2>. HIDE DEF q
  <2>. QED BY <2>1, <2>2, Admitted DEF q
<1>2. CASE EditMessage(r)
  <2>1. PICK u \in Users, c \in Convs, m \in Msgs, t \in Texts \cup {None} :
          LET q == Asks("edit", "fetch", u, c, m, t, None, None)
          IN Begin(r, IF t = None
                      THEN [q EXCEPT !.pc = "done", !.res = "badrequest"]
                      ELSE OtherParticipant(q))
      BY <1>2 DEF EditMessage
  <2>. DEFINE q == Asks("edit", "fetch", u, c, m, t, None, None)
              d == [q EXCEPT !.pc = "done", !.res = "badrequest"]
  <2>2. q \in Request /\ WellFormed(q) /\ q.pc = "fetch"
      BY Asked DEF AllOps
  <2>3. Begin(r, d) \/ Begin(r, OtherParticipant(q))
      BY <2>1
  <2>. HIDE DEF q
  <2>4. d \in Request /\ WellFormed(d) /\ d.pc = "done"
      BY <2>2, Refused DEF Results
  <2>. HIDE DEF d
  <2>. QED BY <2>2, <2>3, <2>4, Begins, Admitted
<1>3. CASE DeleteMessage(r)
  <2>1. PICK u \in Users, c \in Convs, m \in Msgs :
          Begin(r, OtherParticipant(
                      Asks("delete", "fetch", u, c, m, None, None, None)))
      BY <1>3 DEF DeleteMessage
  <2>. QED BY <2>1, Asked, Admitted DEF AllOps
<1>4. CASE MarkAsRead(r)
  <2>1. PICK u \in Users, c \in Convs, m \in Msgs :
          Begin(r, OtherParticipant(
                      Asks("read", "block", u, c, m, None, None, None)))
      BY <1>4 DEF MarkAsRead
  <2>. QED BY <2>1, Asked, Admitted DEF AllOps
<1>5. CASE Upload(r)
  <2>1. PICK u \in Users :
          Begin(r, Asks("upload", "put", u, None, None, None, None, None))
      BY <1>5 DEF Upload
  <2>. DEFINE q == Asks("upload", "put", u, None, None, None, None, None)
  <2>2. q \in Request /\ WellFormed(q) /\ q.pc = "put"
    <3>1. NoRow \in Row
        BY DEF NoRow, Row
    <3>. QED BY <3>1 DEF Asks, Request, AllOps, PCs, WellFormed
  <2>. HIDE DEF q
  <2>. QED BY <2>1, <2>2, Begins DEF q
<1>6. CASE Download(r)
  <2>1. PICK u \in Users, a \in Attachments :
          Begin(r, Asks("download", "find", u, None, None, None, None, a))
      BY <1>6 DEF Download
  <2>. DEFINE q == Asks("download", "find", u, None, None, None, None, a)
  <2>2. q \in Request /\ WellFormed(q) /\ q.pc = "find"
    <3>1. NoRow \in Row
        BY DEF NoRow, Row
    <3>. QED BY <3>1 DEF Asks, Request, AllOps, PCs, WellFormed
  <2>. HIDE DEF q
  <2>. QED BY <2>1, <2>2, Begins DEF q
<1>. QED BY <1>1, <1>2, <1>3, <1>4, <1>5, <1>6 DEF Call

\* A request that has been answered holds nothing and can be forgotten.
LEMMA RespondStep ==
    ASSUME IInv, NEW r \in Requests, Respond(r) PROVE IInv'
<1>1. Idle \in Request
    BY DEF Idle, NoRow, Row, Request, PCs
<1>2. /\ req' \in [Requests -> Request] /\ req'[r] = Idle
      /\ \A x \in Requests \ {r} : req'[x] = req[x]
      /\ UNCHANGED stores /\ TypeOK
    BY <1>1 DEF Respond, IInv, TypeOK
<1>3. Idle.pc = "idle" /\ Idle.op = None
    BY DEF Idle
<1>4. RequestInv(r)'
    BY <1>2, <1>3, NoneAssumption DEF RequestInv, WellFormed, At, AllOps
<1>. QED
    BY <1>2, <1>3, <1>4, Quiet DEF stores, Claims, Saves, At, Past, TypeOK

\* The expiry of an upload record, the end of an edit window, and blocks that
\* come and go.
LEMMA EnvironmentStep ==
    ASSUME IInv, Environment PROVE IInv'
<1>1. ASSUME NEW b \in Attachments, RecordExpires(b) PROVE IInv'
  <2>1. TypeOK'
      BY <1>1 DEF RecordExpires, IInv, TypeOK
  <2>2. ASSUME NEW m \in Msgs PROVE RowInv(m)'
      BY <1>1 DEF RecordExpires, IInv, RowInv
  <2>3. ASSUME NEW a \in Attachments PROVE AttachmentInv(a)'
    <3>1. records'[a] # None => records'[a] = records[a]
        BY <1>1 DEF RecordExpires, IInv, TypeOK
    <3>. QED
        BY <1>1, <3>1
        DEF RecordExpires, IInv, AttachmentInv, Claims, Saves, At
  <2>4. ASSUME NEW x \in Requests PROVE RequestInv(x)'
      BY <1>1
      DEF RecordExpires, IInv, RequestInv, At, Stored, ReplyTarget, Committed
  <2>5. OneWinner'
      BY <1>1 DEF RecordExpires, IInv, OneWinner, Past
  <2>. QED BY <2>1, <2>2, <2>3, <2>4, <2>5 DEF IInv
<1>2. CASE /\ UNCHANGED <<msgs, objects, records, req>>
           /\ late' \subseteq Msgs /\ blocked' \subseteq Convs
  <2>1. TypeOK'
      BY <1>2 DEF IInv, TypeOK
  <2>2. ASSUME NEW m \in Msgs PROVE RowInv(m)'
      BY <1>2 DEF IInv, RowInv
  <2>3. ASSUME NEW a \in Attachments PROVE AttachmentInv(a)'
      BY <1>2 DEF IInv, AttachmentInv, Claims, Saves, At
  <2>4. ASSUME NEW x \in Requests PROVE RequestInv(x)'
      BY <1>2 DEF IInv, RequestInv, At, Stored, ReplyTarget, Committed
  <2>5. OneWinner'
      BY <1>2 DEF IInv, OneWinner, Past
  <2>. QED BY <2>1, <2>2, <2>3, <2>4, <2>5 DEF IInv
<1>3. ASSUME NEW m \in Msgs, EditWindowCloses(m) PROVE IInv'
    BY <1>2, <1>3 DEF EditWindowCloses, IInv, TypeOK
<1>4. ASSUME NEW c \in Convs, Block(c) \/ Unblock(c) PROVE IInv'
    BY <1>2, <1>4 DEF Block, Unblock, IInv, TypeOK
<1>. QED BY <1>1, <1>3, <1>4 DEF Environment

-----------------------------------------------------------------------------
(* Theorems. *)

\* Every step of every request and of the environment preserves the inductive
\* invariant.
THEOREM Inductive == IInv /\ [Next]_vars => IInv'
<1>. SUFFICES ASSUME IInv, [Next]_vars PROVE IInv'
    OBVIOUS
<1>1. ASSUME NEW r \in Requests, Handle(r) PROVE IInv'
    BY <1>1, SendBlockStep, SendReplyStep, SendPopStep, SendCreateStep,
       EditSteps, DeleteSteps, ReadSteps, UploadPutStep, UploadSaveStep,
       DownloadSteps, FanOutSteps
    DEF Handle, SendStep, UploadStep
<1>2. ASSUME NEW r \in Requests, Abort(r) PROVE IInv'
    BY <1>2, Answers DEF Abort, Results
<1>3. CASE UNCHANGED vars
  <2>1. TypeOK' /\ OneWinner'
      BY <1>3 DEF vars, IInv, TypeOK, OneWinner, Past
  <2>2. ASSUME NEW m \in Msgs PROVE RowInv(m)'
      BY <1>3 DEF vars, IInv, RowInv
  <2>3. ASSUME NEW a \in Attachments PROVE AttachmentInv(a)'
      BY <1>3 DEF vars, IInv, AttachmentInv, Claims, Saves, At
  <2>4. ASSUME NEW x \in Requests PROVE RequestInv(x)'
      BY <1>3 DEF vars, IInv, RequestInv, At, Stored, ReplyTarget, Committed
  <2>. QED BY <2>1, <2>2, <2>3, <2>4 DEF IInv
<1>. QED
    BY <1>1, <1>2, <1>3, CallStep, RespondStep, EnvironmentStep DEF Next

\* The inductive invariant holds in every reachable state.
THEOREM Invariance == Spec => []IInv
<1>. QED BY InitIInv, Inductive, PTL DEF Spec

\* The stores and the requests have their types in every reachable state.
THEOREM TypeCorrect == Spec => []TypeOK
<1>1. IInv => TypeOK
    BY DEF IInv
<1>. QED BY <1>1, Invariance, PTL

\* An attachment never has two custodians: the record, a send, an upload and a
\* row exclude each other.
THEOREM SingleCustodian == Spec => []OneCustodian
<1>1. IInv => OneCustodian
  <2>. SUFFICES ASSUME IInv, NEW a \in Attachments,
                       NEW x \in Custodians(a), NEW y \in Custodians(a)
                PROVE  x = y
      BY DEF OneCustodian
  <2>1. AttachmentInv(a)
      BY DEF IInv
  <2>2. ASSUME NEW z \in Custodians(a)
        PROVE  \/ z = <<"record", a>> /\ records[a] # None
               \/ \E r \in Requests : z = <<"send", r>> /\ Claims(r, a)
               \/ \E r \in Requests : z = <<"upload", r>> /\ Saves(r, a)
               \/ \E m \in Msgs : z = <<"message", m>> /\ msgs[m].att = a
      BY <2>2, Zenon DEF Custodians
  <2>3. CASE records[a] # None
      BY <2>1, <2>2, <2>3 DEF AttachmentInv
  <2>4. CASE \E r \in Requests : Claims(r, a) \/ Saves(r, a)
    <3>1. PICK r \in Requests : Claims(r, a) \/ Saves(r, a)
        BY <2>4
    <3>2. ~(Claims(r, a) /\ Saves(r, a))
        BY DEF Claims, Saves, At
    <3>3. /\ records[a] = None
          /\ \A q \in Requests : Claims(q, a) \/ Saves(q, a) => q = r
          /\ \A m \in Msgs : msgs[m].att # a
        BY <2>1, <3>1 DEF AttachmentInv
    <3>. QED BY <2>2, <3>1, <3>2, <3>3
  <2>5. CASE /\ records[a] = None
             /\ \A r \in Requests : ~Claims(r, a) /\ ~Saves(r, a)
      BY <2>1, <2>2, <2>5 DEF AttachmentInv
  <2>. QED BY <2>3, <2>4, <2>5
<1>. QED BY <1>1, Invariance, PTL

\* Behind every message that is not deleted is an object that its own sender
\* has uploaded.
THEOREM SendersOwnObject == Spec => []LiveAttachmentStored
<1>1. IInv => LiveAttachmentStored
    BY DEF IInv, RowInv, LiveAttachmentStored
<1>. QED BY <1>1, Invariance, PTL

\* Nothing but the deletion of the message empties a download that has been
\* authorised.
THEOREM DownloadsFind == Spec => []AuthorisedDownloadFinds
<1>1. IInv => AuthorisedDownloadFinds
  <2>. SUFFICES ASSUME IInv, NEW r \in Requests, At(r, "download", "get"),
                       Stored(r).state # "deleted"
                PROVE  objects[req[r].att] # None
      BY DEF AuthorisedDownloadFinds
  <2>1. /\ TypeOK /\ req[r].msg \in Msgs /\ req[r].att \in Attachments
        /\ Stored(r).state # "absent" /\ Stored(r).att = req[r].att
        /\ RowInv(req[r].msg)
      BY DEF IInv, RequestInv, WellFormed, At
  <2>2. Stored(r).state = "live"
      BY <2>1 DEF TypeOK, Stored, Row
  <2>. QED BY <2>1, <2>2, NoneAssumption DEF RowInv, Stored
<1>. QED BY <1>1, Invariance, PTL

\* Replies stay in their conversation.
THEOREM Replies == Spec => []ReplyInConversation
<1>1. IInv => ReplyInConversation
    BY DEF IInv, RowInv, ReplyInConversation
<1>. QED BY <1>1, Invariance, PTL

\* No event goes to the hub before the change that it tells of is committed.
THEOREM CommitsFirst == Spec => []EventsFollowCommits
<1>1. IInv => EventsFollowCommits
    BY DEF IInv, RequestInv, EventsFollowCommits
<1>. QED BY <1>1, Invariance, PTL

\* Of concurrent deletions, or first readings, of a message one goes on to
\* delete the object and to tell of it.
THEOREM SingleWinner == Spec => []OneWinner
<1>1. IInv => OneWinner
    BY DEF IInv
<1>. QED BY <1>1, Invariance, PTL

\* What a step can do to a row that exists.
LEMMA RowsOnlyGrow ==
    ASSUME IInv, [Next]_vars, NEW m \in Msgs, msgs[m].state # "absent"
    PROVE  \/ msgs'[m] = msgs[m]
           \/ /\ msgs[m].state = "live"
              /\ msgs[m].read => msgs'[m].read
              /\ msgs[m].edited => msgs'[m].edited
              /\ msgs'[m].att = msgs[m].att
<1>1. TypeOK
    BY DEF IInv
<1>2. ASSUME NEW r \in Requests, SendCreate(r) PROVE msgs'[m] = msgs[m]
    BY <1>1, <1>2 DEF SendCreate, TypeOK
<1>3. ASSUME NEW r \in Requests,
             EditUpdate(r) \/ DeleteUpdate(r) \/ ReadUpdate(r)
      PROVE  \/ msgs'[m] = msgs[m]
             \/ /\ msgs[m].state = "live"
                /\ msgs[m].read => msgs'[m].read
                /\ msgs[m].edited => msgs'[m].edited
                /\ msgs'[m].att = msgs[m].att
  <2>1. /\ msgs \in [Msgs -> Row] /\ msgs[m] \in Row
        /\ UNCHANGED msgs \/ Stored(r).state = "live"
      BY <1>1, <1>3 DEF TypeOK, EditUpdate, DeleteUpdate, ReadUpdate
  <2>2. CASE req[r].msg # m
      BY <1>3, <2>1, <2>2 DEF EditUpdate, DeleteUpdate, ReadUpdate
  <2>3. CASE req[r].msg = m
    <3>1. CASE EditUpdate(r)
        BY <2>1, <2>3, <3>1 DEF EditUpdate, Stored, Row
    <3>2. CASE DeleteUpdate(r)
        BY <2>1, <2>3, <3>2 DEF DeleteUpdate, Stored, Row
    <3>3. CASE ReadUpdate(r)
        BY <2>1, <2>3, <3>3 DEF ReadUpdate, Stored, Row
    <3>. QED BY <1>3, <3>1, <3>2, <3>3
  <2>. QED BY <2>2, <2>3
<1>4. ASSUME NEW r \in Requests,
             \/ Call(r) \/ Respond(r) \/ Abort(r) \/ FanOut(r) \/ Deliver(r)
             \/ SendBlock(r) \/ SendReply(r) \/ SendPop(r)
             \/ EditFetch(r) \/ DeleteFetch(r) \/ DeleteObject(r)
             \/ ReadBlock(r) \/ ReadFetch(r)
             \/ UploadStep(r) \/ DownloadStep(r)
      PROVE  UNCHANGED msgs
    BY <1>4
    DEF Call, SendMessage, EditMessage, DeleteMessage, MarkAsRead, Upload,
        Download, Begin, stores, Respond, Abort, FanOut, Deliver, SendBlock,
        SendReply, SendPop, EditFetch, DeleteFetch, DeleteObject, ReadBlock,
        ReadFetch, UploadStep, UploadPut, UploadSave, DownloadStep,
        DownloadFind, DownloadGet
<1>5. Environment => UNCHANGED msgs
    BY DEF Environment, RecordExpires, EditWindowCloses, Block, Unblock
<1>. QED
    BY <1>2, <1>3, <1>4, <1>5
    DEF Next, vars, Handle, SendStep, EditStep, DeleteStep, ReadStep

\* A deleted message never changes again.
THEOREM Tombstones == Spec => TombstoneFinal
<1>1. IInv /\ [Next]_vars =>
          [\A m \in Msgs : msgs[m].state = "deleted" =>
              msgs'[m] = msgs[m] /\ msgs'[m].content = None]_vars
    BY RowsOnlyGrow DEF IInv, RowInv
<1>. QED BY <1>1, Invariance, PTL DEF Spec, TombstoneFinal

\* No update loses a committed read receipt, edit mark or deletion, nor the
\* attachment of a message that stays.
THEOREM Updates == Spec => NoLostUpdate
<1>1. IInv /\ [Next]_vars =>
          [\A m \in Msgs : msgs[m].state # "absent" =>
            /\ msgs[m].read => msgs'[m].read
            /\ msgs[m].edited => msgs'[m].edited
            /\ msgs'[m].state = "live" => msgs'[m].att = msgs[m].att
            /\ msgs[m].state = "deleted" => msgs'[m].state = "deleted"]_vars
    BY RowsOnlyGrow
<1>. QED BY <1>1, Invariance, PTL DEF Spec, NoLostUpdate

=============================================================================
