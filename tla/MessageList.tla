----------------------------- MODULE MessageList -----------------------------
(***************************************************************************)
(* What the chat control promises to its callers: a list to which messages *)
(* are added one by one, and which is emptied as a whole.  No message is   *)
(* shown twice.  The promise ends when two threads use it at once.         *)
(***************************************************************************)
EXTENDS Sequences

CONSTANT Messages

VARIABLES list,  \* the messages shown, in the order in which they were added
          past,  \* messages that were shown at some time
          lost   \* two threads have used the list at once

vars == <<list, past, lost>>

Init == list = <<>> /\ past = {} /\ lost = FALSE

Add(m) ==
  /\ ~lost /\ m \notin past
  /\ list' = Append(list, m)
  /\ past' = past \cup {m}
  /\ UNCHANGED lost

Clear ==
  /\ ~lost
  /\ list' = <<>>
  /\ UNCHANGED <<past, lost>>

Lose ==
  /\ lost' = TRUE /\ list' = <<>> /\ past' = {}

Next == Clear \/ Lose \/ \E m \in Messages : Add(m)

Spec == Init /\ [][Next]_vars
=============================================================================
