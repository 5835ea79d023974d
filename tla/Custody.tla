------------------------------- MODULE Custody -------------------------------
(***************************************************************************)
(* What the backend promises about an attachment: it is stored, offered to *)
(* its uploader through an upload record, claimed by one send, attached to *)
(* one message, and removed when that message is deleted.  At any point    *)
(* before the message it may be lost.  An orphan may be cleaned up, and    *)
(* nothing brings it back into a message.                                  *)
(***************************************************************************)
CONSTANT Attachments

VARIABLE stage

Stages == {"absent", "stored", "offered", "claimed", "attached",
           "condemned", "removed", "orphan"}

TypeOK == stage \in [Attachments -> Stages]

Init == stage = [a \in Attachments |-> "absent"]

Moves == {<<"absent", "stored">>, <<"stored", "offered">>,
          <<"stored", "orphan">>, <<"offered", "claimed">>,
          <<"offered", "orphan">>, <<"claimed", "attached">>,
          <<"claimed", "orphan">>, <<"orphan", "absent">>,
          <<"attached", "condemned">>, <<"condemned", "removed">>}

Next == \E a \in Attachments, s \in Stages :
            /\ <<stage[a], s>> \in Moves
            /\ stage' = [stage EXCEPT ![a] = s]

Spec == Init /\ [][Next]_stage
=============================================================================
