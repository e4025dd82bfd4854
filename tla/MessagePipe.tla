---------------------------- MODULE MessagePipe ----------------------------
(***************************************************************************)
(* What ReadWebSocket promises to WSThreadProc: the messages of the server *)
(* come out one by one, whole and in the order they were sent, until the   *)
(* pipe closes.                                                            *)
(***************************************************************************)
EXTENDS Naturals, Sequences

CONSTANT Message

VARIABLES sent,    \* messages the server has finished
          taken,   \* messages handed to WebSocketOnDataArrival
          closed   \* the reader has given up

vars == <<sent, taken, closed>>

Init == sent = <<>> /\ taken = <<>> /\ closed = FALSE

Send == /\ sent' \in Seq(Message)
        /\ Len(sent') = Len(sent) + 1
        /\ SubSeq(sent', 1, Len(sent)) = sent
        /\ UNCHANGED <<taken, closed>>

Take == /\ ~closed
        /\ Len(taken) < Len(sent)
        /\ taken' = Append(taken, sent[Len(taken) + 1])
        /\ UNCHANGED <<sent, closed>>

Close == ~closed /\ closed' = TRUE /\ UNCHANGED <<sent, taken>>

Next == Send \/ Take \/ Close

Spec == Init /\ [][Next]_vars
=============================================================================
