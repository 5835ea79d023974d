------------------------------ MODULE Messages ------------------------------
(***************************************************************************)
(* The message service and the attachment service of the backend, with the *)
(* three stores they share: the PostgreSQL table of messages, the upload   *)
(* records in Redis and the objects in MinIO.                              *)
(*                                                                         *)
(* Every HTTP request is a process.  A handler is cut at its calls to a    *)
(* store: what lies between two calls runs in one step with the call that  *)
(* precedes it, and any other request may run between two steps.  "pc" is  *)
(* the call that the request makes next.                                   *)
(*                                                                         *)
(*   send      block, reply, pop, create, fanout, deliver                  *)
(*   edit      fetch, update, fanout, deliver                              *)
(*   delete    fetch, update, object, fanout, deliver                      *)
(*   read      block, fetch, update, fanout, deliver                       *)
(*   upload    put, save                                                   *)
(*   download  find, get                                                   *)
(***************************************************************************)
EXTENDS FiniteSets, Naturals

CONSTANTS
    Users, Convs, Msgs, Attachments, Texts, \* identifiers and contents
    Requests,       \* requests that can be in flight at the same time
    Participants,   \* Participants[c]: the two users of conversation c
    Ops,            \* the operations that the clients call
    Faults,         \* may a store call fail, or the server crash?
    None            \* SQL NULL, a nil pointer, a missing key

AllOps == {"send", "edit", "delete", "read", "upload", "download"}

ASSUME ParticipantsAssumption == Participants \in [Convs -> SUBSET Users]
ASSUME OpsAssumption == Ops \subseteq AllOps
ASSUME FaultsAssumption == Faults \in BOOLEAN
ASSUME NoneAssumption ==
    None \notin Users \cup Convs \cup Msgs \cup Attachments \cup Texts
                \cup AllOps

VARIABLES
    msgs,       \* the rows of table messages
    late,       \* the messages whose edit window of 15 minutes is over
    objects,    \* MinIO: who stored the object of an attachment, or None
    records,    \* Redis: the uploader in key upload:{attachment}, or None
    blocked,    \* conversations in which one user has blocked the other
    req         \* the requests in flight

stores == <<msgs, late, objects, records, blocked>>
vars == <<msgs, late, objects, records, blocked, req>>

-----------------------------------------------------------------------------
(* A row, also the Message struct that a handler has read.  "att" is the   *)
(* attachment named by the metadata column.                                *)

Row == [state: {"absent", "live", "deleted"}, conv: Convs \cup {None},
        sender: Users \cup {None}, content: Texts \cup {None},
        reply: Msgs \cup {None}, att: Attachments \cup {None},
        edited: BOOLEAN, read: BOOLEAN]

NoRow == [state |-> "absent", conv |-> None, sender |-> None,
          content |-> None, reply |-> None, att |-> None,
          edited |-> FALSE, read |-> FALSE]

PCs == {"idle", "block", "reply", "pop", "create", "fetch", "update",
        "object", "fanout", "deliver", "put", "save", "find", "get", "done"}

Results == {"ok", "notfound", "forbidden", "conflict", "badrequest", "error"}

Request == [op: AllOps \cup {None}, pc: PCs, user: Users \cup {None},
            conv: Convs \cup {None}, msg: Msgs \cup {None},
            text: Texts \cup {None}, reply: Msgs \cup {None},
            att: Attachments \cup {None}, row: Row,
            res: Results \cup {None}]

Idle == [op |-> None, pc |-> "idle", user |-> None, conv |-> None,
         msg |-> None, text |-> None, reply |-> None, att |-> None,
         row |-> NoRow, res |-> None]

TypeOK ==
    /\ msgs \in [Msgs -> Row]
    /\ late \subseteq Msgs
    /\ objects \in [Attachments -> Users \cup {None}]
    /\ records \in [Attachments -> Users \cup {None}]
    /\ blocked \subseteq Convs
    /\ req \in [Requests -> Request]

Init ==
    /\ msgs = [m \in Msgs |-> NoRow]
    /\ late = {}
    /\ objects = [a \in Attachments |-> None]
    /\ records = [a \in Attachments |-> None]
    /\ blocked = {}
    /\ req = [r \in Requests |-> Idle]

At(r, op, pc) == req[r].op = op /\ req[r].pc = pc

Goto(r, pc) == req' = [req EXCEPT ![r].pc = pc]

Answer(r, res) == req' = [req EXCEPT ![r].pc = "done", ![r].res = res]

\* The row of the message that request r names, as the store has it now.
Stored(r) == msgs[req[r].msg]

-----------------------------------------------------------------------------
(* Clients.  A request starts with the checks that need no store that      *)
(* changes: the body, and otherParticipant on the immutable conversation.  *)

Asks(op, pc, user, conv, msg, text, reply, att) ==
    [op |-> op, pc |-> pc, user |-> user, conv |-> conv, msg |-> msg,
     text |-> text, reply |-> reply, att |-> att, row |-> NoRow, res |-> None]

Begin(r, q) ==
    /\ q.op \in Ops
    /\ req[r].pc = "idle"
    /\ req' = [req EXCEPT ![r] = q]
    /\ UNCHANGED stores

\* Bound: a send starts only if an unused message identifier is left for it.
RoomForMessage ==
    Cardinality({r \in Requests : req[r].op = "send" /\ req[r].msg = None})
        < Cardinality({m \in Msgs : msgs[m].state = "absent"})

\* uuid.New never repeats: an attachment identifier is fresh when no object
\* and no row carries it.
FreshAttachment(a) ==
    /\ objects[a] = None
    /\ \A m \in Msgs : msgs[m].att # a

\* Bound: an upload starts only if an unused attachment identifier is left.
RoomForAttachment ==
    Cardinality({r \in Requests : At(r, "upload", "put")})
        < Cardinality({a \in Attachments : FreshAttachment(a)})

OtherParticipant(q) ==
    IF q.user \in Participants[q.conv]
    THEN q ELSE [q EXCEPT !.pc = "done", !.res = "notfound"]

SendMessage(r) ==
    /\ RoomForMessage
    /\ \E u \in Users, c \in Convs, t \in Texts \cup {None},
          p \in Msgs \cup {None}, a \in Attachments \cup {None} :
        Begin(r, OtherParticipant(Asks("send", "block", u, c, None, t, p, a)))

\* A blank text (None) is refused before anything is read.
EditMessage(r) ==
    \E u \in Users, c \in Convs, m \in Msgs, t \in Texts \cup {None} :
        LET q == Asks("edit", "fetch", u, c, m, t, None, None)
        IN Begin(r, IF t = None
                    THEN [q EXCEPT !.pc = "done", !.res = "badrequest"]
                    ELSE OtherParticipant(q))

DeleteMessage(r) ==
    \E u \in Users, c \in Convs, m \in Msgs :
        Begin(r, OtherParticipant(
                    Asks("delete", "fetch", u, c, m, None, None, None)))

MarkAsRead(r) ==
    \E u \in Users, c \in Convs, m \in Msgs :
        Begin(r, OtherParticipant(
                    Asks("read", "block", u, c, m, None, None, None)))

Upload(r) ==
    /\ RoomForAttachment
    /\ \E u \in Users :
        Begin(r, Asks("upload", "put", u, None, None, None, None, None))

Download(r) ==
    \E u \in Users, a \in Attachments :
        Begin(r, Asks("download", "find", u, None, None, None, None, a))

-----------------------------------------------------------------------------
(* SendMessage: IsBlockedEitherWay, GetByID of the replied-to message,     *)
(* PopUploadRecord, Create.                                                *)

AfterReply(q) == IF q.att # None THEN "pop" ELSE "create"

AfterBlock(q) == IF q.reply # None THEN "reply" ELSE AfterReply(q)

SendBlock(r) ==
    /\ At(r, "send", "block")
    /\ \/ /\ req[r].conv \in blocked
          /\ Answer(r, "notfound")
       \/ /\ req[r].conv \notin blocked
          /\ req[r].text = None /\ req[r].att = None
          /\ Answer(r, "badrequest")
       \/ /\ req[r].conv \notin blocked
          /\ req[r].text # None \/ req[r].att # None
          /\ Goto(r, AfterBlock(req[r]))
    /\ UNCHANGED stores

ReplyTarget(r) == msgs[req[r].reply]

SendReply(r) ==
    /\ At(r, "send", "reply")
    /\ \/ /\ ReplyTarget(r).state = "absent"
          /\ Answer(r, "notfound")
       \/ /\ ReplyTarget(r).state # "absent"
          /\ ReplyTarget(r).conv # req[r].conv
          /\ Answer(r, "forbidden")
       \/ /\ ReplyTarget(r).state = "deleted"
          /\ ReplyTarget(r).conv = req[r].conv
          /\ Answer(r, "notfound")
       \/ /\ ReplyTarget(r).state = "live"
          /\ ReplyTarget(r).conv = req[r].conv
          /\ Goto(r, AfterReply(req[r]))
    /\ UNCHANGED stores

\* Mutant: GET without DEL.
SendPopKeeps(r) ==
    /\ At(r, "send", "pop")
    /\ \/ records[req[r].att] = None /\ Answer(r, "notfound")
       \/ records[req[r].att] \notin {None, req[r].user} /\ Answer(r, "forbidden")
       \/ records[req[r].att] = req[r].user /\ Goto(r, "create")
    /\ UNCHANGED stores

\* Mutant: the uploader is not compared with the sender.
SendPopOfAnyone(r) ==
    /\ At(r, "send", "pop")
    /\ records' = [records EXCEPT ![req[r].att] = None]
    /\ \/ records[req[r].att] = None /\ Answer(r, "notfound")
       \/ records[req[r].att] # None /\ Goto(r, "create")
    /\ UNCHANGED <<msgs, late, objects, blocked>>

\* GET and DEL in one transaction: the record is gone whoever asked for it.
SendPop(r) ==
    /\ At(r, "send", "pop")
    /\ LET a == req[r].att IN
        /\ records' = [records EXCEPT ![a] = None]
        /\ \/ records[a] = None /\ Answer(r, "notfound")
           \/ records[a] \notin {None, req[r].user} /\ Answer(r, "forbidden")
           \/ records[a] = req[r].user /\ Goto(r, "create")
    /\ UNCHANGED <<msgs, late, objects, blocked>>

NewRow(q) == [state |-> "live", conv |-> q.conv, sender |-> q.user,
              content |-> q.text, reply |-> q.reply, att |-> q.att,
              edited |-> FALSE, read |-> FALSE]

\* The unique index on metadata->>'attachment_id'.
AttachmentTaken(a) == a # None /\ \E m \in Msgs : msgs[m].att = a

SendCreate(r) ==
    /\ At(r, "send", "create")
    /\ \/ /\ AttachmentTaken(req[r].att)
          /\ Answer(r, "error")
          /\ UNCHANGED msgs
       \/ /\ ~AttachmentTaken(req[r].att)
          /\ \E m \in Msgs :
              /\ msgs[m].state = "absent"
              /\ msgs' = [msgs EXCEPT ![m] = NewRow(req[r])]
              /\ req' = [req EXCEPT ![r].pc = "fanout", ![r].msg = m,
                                    ![r].row = NewRow(req[r])]
    /\ UNCHANGED <<late, objects, records, blocked>>

-----------------------------------------------------------------------------
(* EditMessage, DeleteMessage and MarkAsRead: fetchMessageInConversation,  *)
(* the handler's checks on the row it read, then a conditional UPDATE.     *)

Missing(r) == Stored(r).state = "absent" \/ Stored(r).conv # req[r].conv

\* Continue with "row", the fetched Message as the handler has changed it.
Hold(r, row) == req' = [req EXCEPT ![r].pc = "update", ![r].row = row]

EditFetch(r) ==
    /\ At(r, "edit", "fetch")
    /\ LET mayEdit == /\ Stored(r).sender = req[r].user
                      /\ Stored(r).state = "live"
                      /\ req[r].msg \notin late
       IN \/ Missing(r) /\ Answer(r, "notfound")
          \/ ~Missing(r) /\ ~mayEdit /\ Answer(r, "forbidden")
          \/ /\ ~Missing(r) /\ mayEdit
             /\ Hold(r, [Stored(r) EXCEPT !.content = req[r].text,
                                          !.edited = TRUE])
    /\ UNCHANGED stores

\* Mutant: an UPDATE of no row is taken for a success.
EditUpdateUncounted(r) ==
    /\ At(r, "edit", "update")
    /\ msgs' = IF Stored(r).state # "live" THEN msgs ELSE
               [msgs EXCEPT ![req[r].msg].content = req[r].row.content,
                            ![req[r].msg].edited = TRUE]
    /\ Goto(r, "fanout")
    /\ UNCHANGED <<late, objects, records, blocked>>

\* Mutant: the UPDATE writes every column of the row that was read.
EditUpdateWholeRow(r) ==
    /\ At(r, "edit", "update")
    /\ Stored(r).state = "live"
    /\ msgs' = [msgs EXCEPT ![req[r].msg] = req[r].row]
    /\ Goto(r, "fanout")
    /\ UNCHANGED <<late, objects, records, blocked>>

EditUpdate(r) ==
    /\ At(r, "edit", "update")
    /\ \/ /\ Stored(r).state # "live"
          /\ Answer(r, "notfound")
          /\ UNCHANGED msgs
       \/ /\ Stored(r).state = "live"
          /\ msgs' = [msgs EXCEPT ![req[r].msg].content = req[r].row.content,
                                  ![req[r].msg].edited = TRUE]
          /\ Goto(r, "fanout")
    /\ UNCHANGED <<late, objects, records, blocked>>

\* Mutant: the object is deleted before the row is.
DeleteFetchObjectFirst(r) ==
    /\ At(r, "delete", "fetch")
    /\ \/ Missing(r) /\ Answer(r, "notfound") /\ UNCHANGED objects
       \/ /\ ~Missing(r)
          /\ Stored(r).sender = req[r].user /\ Stored(r).state = "live"
          /\ objects' = [a \in Attachments |->
                            IF a = Stored(r).att THEN None ELSE objects[a]]
          /\ Hold(r, [Stored(r) EXCEPT !.content = None, !.state = "deleted"])
    /\ UNCHANGED <<msgs, late, records, blocked>>

DeleteFetch(r) ==
    /\ At(r, "delete", "fetch")
    /\ \/ Missing(r) /\ Answer(r, "notfound")
       \/ /\ ~Missing(r) /\ Stored(r).sender # req[r].user
          /\ Answer(r, "forbidden")
       \/ /\ ~Missing(r) /\ Stored(r).sender = req[r].user
          /\ Stored(r).state = "deleted"
          /\ Answer(r, "conflict")
       \/ /\ ~Missing(r) /\ Stored(r).sender = req[r].user
          /\ Stored(r).state = "live"
          /\ Hold(r, [Stored(r) EXCEPT !.content = None, !.state = "deleted"])
    /\ UNCHANGED stores

\* Mutant: the metadata is cleared before the attachment is looked up in it.
AfterDeleteCleared(row) == "fanout"

AfterDelete(row) == IF row.att # None THEN "object" ELSE "fanout"

\* Mutant: the UPDATE has no "deleted_at IS NULL".
DeleteUpdateUnguarded(r) ==
    /\ At(r, "delete", "update")
    /\ msgs' = [msgs EXCEPT ![req[r].msg].content = None,
                            ![req[r].msg].state = "deleted"]
    /\ Goto(r, AfterDelete(req[r].row))
    /\ UNCHANGED <<late, objects, records, blocked>>

\* The UPDATE keeps the metadata column.
DeleteUpdate(r) ==
    /\ At(r, "delete", "update")
    /\ \/ /\ Stored(r).state # "live"
          /\ Answer(r, "notfound")
          /\ UNCHANGED msgs
       \/ /\ Stored(r).state = "live"
          /\ msgs' = [msgs EXCEPT ![req[r].msg].content = None,
                                  ![req[r].msg].state = "deleted"]
          /\ Goto(r, AfterDelete(req[r].row))
    /\ UNCHANGED <<late, objects, records, blocked>>

\* deleteAttachmentObject: a failure is logged and the request goes on.
DeleteObject(r) ==
    /\ At(r, "delete", "object")
    /\ \/ objects' = [objects EXCEPT ![req[r].row.att] = None]
       \/ Faults /\ UNCHANGED objects
    /\ Goto(r, "fanout")
    /\ UNCHANGED <<msgs, late, records, blocked>>

ReadBlock(r) ==
    /\ At(r, "read", "block")
    /\ \/ req[r].conv \in blocked /\ Answer(r, "notfound")
       \/ req[r].conv \notin blocked /\ Goto(r, "fetch")
    /\ UNCHANGED stores

ReadFetch(r) ==
    /\ At(r, "read", "fetch")
    /\ \/ Missing(r) /\ Answer(r, "notfound")
       \/ /\ ~Missing(r)
          /\ \/ Stored(r).sender = req[r].user
             \/ Stored(r).state = "deleted" /\ ~Stored(r).read
          /\ Answer(r, "forbidden")
       \/ /\ ~Missing(r) /\ Stored(r).sender # req[r].user
          /\ Stored(r).read
          /\ Answer(r, "ok")
       \/ /\ ~Missing(r) /\ Stored(r).sender # req[r].user
          /\ Stored(r).state = "live" /\ ~Stored(r).read
          /\ Hold(r, [Stored(r) EXCEPT !.read = TRUE])
    /\ UNCHANGED stores

\* Mutant: the UPDATE has no "deleted_at IS NULL".
ReadUpdateOfDeleted(r) ==
    /\ At(r, "read", "update")
    /\ ~Stored(r).read
    /\ msgs' = [msgs EXCEPT ![req[r].msg].read = TRUE]
    /\ Goto(r, "fanout")
    /\ UNCHANGED <<late, objects, records, blocked>>

ReadUpdate(r) ==
    /\ At(r, "read", "update")
    /\ LET mayRead == Stored(r).state = "live" /\ ~Stored(r).read
       IN \/ ~mayRead /\ Answer(r, "notfound") /\ UNCHANGED msgs
          \/ /\ mayRead
             /\ msgs' = [msgs EXCEPT ![req[r].msg].read = TRUE]
             /\ Goto(r, "fanout")
    /\ UNCHANGED <<late, objects, records, blocked>>

-----------------------------------------------------------------------------
(* FanOutToConversation: the block check (an error of it drops the event), *)
(* then the delivery to the hub, which module Hub models.                  *)

FanOut(r) ==
    /\ req[r].pc = "fanout"
    /\ \/ (req[r].conv \in blocked \/ Faults) /\ Answer(r, "ok")
       \/ req[r].conv \notin blocked /\ Goto(r, "deliver")
    /\ UNCHANGED stores

Deliver(r) ==
    /\ req[r].pc = "deliver"
    /\ Answer(r, "ok")
    /\ UNCHANGED stores

-----------------------------------------------------------------------------
(* Upload and Download.  A file that the validation refuses (its size, its *)
(* type) changes nothing and is not modelled.                              *)

UploadPut(r) ==
    /\ At(r, "upload", "put")
    /\ \E a \in Attachments :
        /\ FreshAttachment(a)
        /\ objects' = [objects EXCEPT ![a] = req[r].user]
        /\ req' = [req EXCEPT ![r].pc = "save", ![r].att = a]
    /\ UNCHANGED <<msgs, late, records, blocked>>

\* Mutant: the record holds the attachment instead of the uploader.
UploadSaveSwapped(r) ==
    /\ At(r, "upload", "save")
    /\ records' = [records EXCEPT ![req[r].att] = req[r].att]
    /\ Answer(r, "ok")
    /\ UNCHANGED <<msgs, late, objects, blocked>>

\* A failure to save the record is logged and the upload succeeds.
UploadSave(r) ==
    /\ At(r, "upload", "save")
    /\ \/ records' = [records EXCEPT ![req[r].att] = req[r].user]
       \/ Faults /\ UNCHANGED records
    /\ Answer(r, "ok")
    /\ UNCHANGED <<msgs, late, objects, blocked>>

Readable(row, user) ==
    /\ row.state = "live"
    /\ user \in Participants[row.conv]

DownloadFind(r) ==
    /\ At(r, "download", "find")
    /\ \/ /\ ~AttachmentTaken(req[r].att)
          /\ Answer(r, "notfound")
       \/ \E m \in Msgs :
          /\ msgs[m].att = req[r].att
          /\ \/ /\ Readable(msgs[m], req[r].user)
                /\ req' = [req EXCEPT ![r].pc = "get", ![r].msg = m,
                                      ![r].row = msgs[m]]
             \/ /\ ~Readable(msgs[m], req[r].user)
                /\ Answer(r, "notfound")
    /\ UNCHANGED stores

\* The object is streamed after the handler has answered: a missing object
\* shows only then.
DownloadGet(r) ==
    /\ At(r, "download", "get")
    /\ Answer(r, IF objects[req[r].att] # None THEN "ok" ELSE "error")
    /\ UNCHANGED stores

-----------------------------------------------------------------------------
(* What happens to requests and stores from outside.                       *)

Respond(r) ==
    /\ req[r].pc = "done"
    /\ req' = [req EXCEPT ![r] = Idle]
    /\ UNCHANGED stores

\* The next store call fails, or the server crashes; a call that took effect
\* and then reported an error is that call's step followed by this one.
Abort(r) ==
    /\ Faults
    /\ req[r].pc \notin {"idle", "done"}
    /\ Answer(r, "error")
    /\ UNCHANGED stores

\* The TTL of an upload record ends, or Redis loses it in a restart.
RecordExpires(a) ==
    /\ records[a] # None
    /\ records' = [records EXCEPT ![a] = None]
    /\ UNCHANGED <<msgs, late, objects, blocked, req>>

EditWindowCloses(m) ==
    /\ "edit" \in Ops
    /\ msgs[m].state # "absent"
    /\ late' = late \cup {m}
    /\ UNCHANGED <<msgs, objects, records, blocked, req>>

Block(c) ==
    /\ blocked' = blocked \cup {c}
    /\ UNCHANGED <<msgs, late, objects, records, req>>

Unblock(c) ==
    /\ blocked' = blocked \ {c}
    /\ UNCHANGED <<msgs, late, objects, records, req>>

-----------------------------------------------------------------------------
Call(r) ==
    \/ SendMessage(r) \/ EditMessage(r) \/ DeleteMessage(r)
    \/ MarkAsRead(r) \/ Upload(r) \/ Download(r)

SendStep(r) == SendBlock(r) \/ SendReply(r) \/ SendPop(r) \/ SendCreate(r)
EditStep(r) == EditFetch(r) \/ EditUpdate(r)
DeleteStep(r) == DeleteFetch(r) \/ DeleteUpdate(r) \/ DeleteObject(r)
ReadStep(r) == ReadBlock(r) \/ ReadFetch(r) \/ ReadUpdate(r)
UploadStep(r) == UploadPut(r) \/ UploadSave(r)
DownloadStep(r) == DownloadFind(r) \/ DownloadGet(r)

\* The steps that the server takes by itself once a request has come in.
Handle(r) ==
    \/ SendStep(r) \/ EditStep(r) \/ DeleteStep(r) \/ ReadStep(r)
    \/ UploadStep(r) \/ DownloadStep(r) \/ FanOut(r) \/ Deliver(r)

Environment ==
    \/ \E a \in Attachments : RecordExpires(a)
    \/ \E m \in Msgs : EditWindowCloses(m)
    \/ \E c \in Convs : Block(c) \/ Unblock(c)

Next ==
    \/ \E r \in Requests : Call(r) \/ Handle(r) \/ Respond(r) \/ Abort(r)
    \/ Environment

Spec == Init /\ [][Next]_vars

\* The Go scheduler runs every handler to its end, and Redis expires keys;
\* nothing makes a client call.
FairSpec ==
    /\ Spec
    /\ \A r \in Requests : WF_vars(Handle(r)) /\ WF_vars(Respond(r))
    /\ \A a \in Attachments : WF_vars(RecordExpires(a))

-----------------------------------------------------------------------------
(* Properties.                                                             *)

\* A send that has popped the upload record of a and has not stored it yet.
Claims(r, a) == At(r, "send", "create") /\ req[r].att = a

\* An upload that has stored the object of a and not its record yet.
Saves(r, a) == At(r, "upload", "save") /\ req[r].att = a

\* Everything that may still lead to a message that shows a: one record,
\* the requests that hold it, the rows that name it.
Custodians(a) ==
    (IF records[a] = None THEN {} ELSE {<<"record", a>>})
        \cup {<<"send", r>> : r \in {x \in Requests : Claims(x, a)}}
        \cup {<<"upload", r>> : r \in {x \in Requests : Saves(x, a)}}
        \cup {<<"message", m>> : m \in {x \in Msgs : msgs[x].att = a}}

\* However uploads, sends, expiries and failures interleave, an attachment
\* has at most one custodian, so no two messages ever share an object and no
\* second send can claim what one has claimed (PopUploadRecord is atomic; the
\* unique index is only a second line of defence).
OneCustodian == \A a \in Attachments : \A x, y \in Custodians(a) : x = y

\* A message that is not deleted shows an object that exists and that the
\* message's own sender uploaded (SendMessage's check of record.UploaderID).
LiveAttachmentStored ==
    \A m \in Msgs : msgs[m].state = "live" /\ msgs[m].att # None =>
        objects[msgs[m].att] = msgs[m].sender

\* A download that has been authorised reads an object that is there, unless
\* its message has been deleted in the meantime.
AuthorisedDownloadFinds ==
    \A r \in Requests : At(r, "download", "get") =>
        \/ objects[req[r].att] # None
        \/ Stored(r).state = "deleted"

\* A message and the message it replies to are in one conversation, although
\* SendMessage checks the target and creates the row at different times.
ReplyInConversation ==
    \A m \in Msgs : msgs[m].reply # None =>
        /\ msgs[msgs[m].reply].state # "absent"
        /\ msgs[msgs[m].reply].conv = msgs[m].conv

\* The change an event tells of, for each operation.
Committed(r) ==
    LET row == Stored(r) IN
    /\ row.state # "absent"
    /\ req[r].op = "send" => row.sender = req[r].user
    /\ req[r].op = "edit" => row.edited
    /\ req[r].op = "delete" => row.state = "deleted"
    /\ req[r].op = "read" => row.read

\* No event goes to the hub before its change is in the database, whatever
\* became of the row between the handler's read and its UPDATE.
EventsFollowCommits ==
    \A r \in Requests : req[r].pc \in {"fanout", "deliver"} => Committed(r)

\* Of concurrent deletes (or reads) of one message a single one goes past
\* the UPDATE: the object is deleted once and the event is sent once.
Past(r, op) == req[r].op = op /\ req[r].pc \in {"object", "fanout", "deliver"}

OneWinner ==
    \A op \in {"delete", "read"} : \A r, q \in Requests :
        /\ Past(r, op) /\ Past(q, op)
        /\ req[r].msg = req[q].msg
        => r = q

\* A deleted message never changes again: not by an edit or a read receipt
\* that found it alive and updates it late, and its content is gone.
TombstoneFinal ==
    [][\A m \in Msgs : msgs[m].state = "deleted" =>
        msgs'[m] = msgs[m] /\ msgs'[m].content = None]_vars

\* No update loses what another one has committed, although each works from
\* a row read earlier: a read receipt, the mark of an edit, the attachment of
\* a message that is not being deleted, and a deletion stay.
NoLostUpdate ==
    [][\A m \in Msgs : msgs[m].state # "absent" =>
        /\ msgs[m].read => msgs'[m].read
        /\ msgs[m].edited => msgs'[m].edited
        /\ msgs'[m].state = "live" => msgs'[m].att = msgs[m].att
        /\ msgs[m].state = "deleted" => msgs'[m].state = "deleted"]_vars

\* If no store call fails, the object of a deleted message is deleted
\* (DeleteMessage calls deleteAttachmentObject after the commit).
DeletedObjectRemoved ==
    \A m \in Msgs, a \in Attachments :
        (msgs[m].state = "deleted" /\ msgs[m].att = a) ~> (objects[a] = None)

-----------------------------------------------------------------------------
(* The inductive invariant, proved in MessagesProofs.                      *)

\* What holds of a row and of what it names.
RowInv(m) ==
    /\ msgs[m].state = "absent" => msgs[m].att = None /\ msgs[m].reply = None
    /\ msgs[m].state # "absent" =>
           msgs[m].sender \in Users /\ msgs[m].conv \in Convs
    /\ msgs[m].state = "deleted" => msgs[m].content = None
    /\ msgs[m].state = "live" /\ msgs[m].att # None =>
           objects[msgs[m].att] = msgs[m].sender
    /\ msgs[m].reply # None =>
           /\ msgs[msgs[m].reply].state # "absent"
           /\ msgs[msgs[m].reply].conv = msgs[m].conv

\* The custodians of an attachment exclude each other, and the one that has
\* it knows who stored the object.
AttachmentInv(a) ==
    /\ records[a] # None =>
           /\ objects[a] = records[a]
           /\ \A r \in Requests : ~Claims(r, a) /\ ~Saves(r, a)
           /\ \A m \in Msgs : msgs[m].att # a
    /\ \A r \in Requests : Claims(r, a) \/ Saves(r, a) =>
           /\ objects[a] = req[r].user
           /\ \A q \in Requests : Claims(q, a) \/ Saves(q, a) => q = r
           /\ \A m \in Msgs : msgs[m].att # a
    /\ \A m, n \in Msgs : msgs[m].att = a /\ msgs[n].att = a => m = n

\* The fields that a request has when it is about to make a call.
WellFormed(q) ==
    /\ q.op # None => q.user \in Users
    /\ q.op \in {"send", "edit", "delete", "read"} => q.conv \in Convs
    /\ q.op \in {"edit", "delete", "read"} => q.msg \in Msgs
    /\ q.pc = "reply" => q.reply \in Msgs
    /\ q.pc \in {"pop", "save", "find", "get"} => q.att \in Attachments
    /\ q.pc = "object" => q.op = "delete"
    /\ q.pc \in {"fanout", "deliver"} =>
           q.msg \in Msgs /\ q.op \in {"send", "edit", "delete", "read"}

\* What a request remembers of the stores is still so.
RequestInv(r) ==
    /\ WellFormed(req[r])
    /\ req[r].op = "send" /\ req[r].pc \in {"pop", "create"}
           /\ req[r].reply # None =>
               /\ ReplyTarget(r).state # "absent"
               /\ ReplyTarget(r).conv = req[r].conv
    /\ req[r].op = "delete" /\ req[r].pc \in {"update", "object"} =>
           /\ req[r].row.att = Stored(r).att
           /\ Stored(r).state # "absent"
    /\ At(r, "delete", "object") =>
           Stored(r).state = "deleted" /\ req[r].row.att \in Attachments
    /\ At(r, "download", "get") =>
           /\ req[r].msg \in Msgs
           /\ Stored(r).state # "absent" /\ Stored(r).att = req[r].att
    /\ req[r].pc \in {"fanout", "deliver"} => Committed(r)

\* The invariant that every step preserves; the safety properties follow.
IInv ==
    /\ TypeOK
    /\ \A m \in Msgs : RowInv(m)
    /\ \A a \in Attachments : AttachmentInv(a)
    /\ \A r \in Requests : RequestInv(r)
    /\ OneWinner

-----------------------------------------------------------------------------
(* The life of an attachment, as module Custody promises it.               *)

Saved(a) == \E r \in Requests : Saves(r, a)
Claimed(a) == \E r \in Requests : Claims(r, a)
Named(a) == \E m \in Msgs : msgs[m].att = a
Shown(a) == \E m \in Msgs : msgs[m].att = a /\ msgs[m].state = "live"

StageOf(a) ==
    IF objects[a] = None THEN IF Named(a) THEN "removed" ELSE "absent"
    ELSE IF records[a] # None THEN "offered"
    ELSE IF Saved(a) THEN "stored"
    ELSE IF Claimed(a) THEN "claimed"
    ELSE IF Shown(a) THEN "attached"
    ELSE IF Named(a) THEN "condemned"
    ELSE "orphan"

Life == INSTANCE Custody WITH stage <- [a \in Attachments |-> StageOf(a)]

\* The stores and the handlers together implement the custody of attachments.
LifeSpec == Life!Spec
=============================================================================
