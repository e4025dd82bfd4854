---------------------------- MODULE ConnService ----------------------------
(***************************************************************************)
(* What a keep-alive HTTPConnection promises to the threads that share it: *)
(* at most one of them holds it, and the holder gives it back -- until a   *)
(* holder abandons it.  An abandoned connection is never available again   *)
(* to anybody else.                                                        *)
(***************************************************************************)
CONSTANTS Threads,   \* threads that call SendHTTPRequest on the connection
          NoThread   \* "nobody"

VARIABLES holder,    \* the thread the connection belongs to, or NoThread
          abandoned  \* TRUE once the holder returned without giving it back

vars == <<holder, abandoned>>

TypeOK == /\ holder \in Threads \cup {NoThread}
          /\ abandoned \in BOOLEAN

Init == holder = NoThread /\ abandoned = FALSE

\* A thread takes the free connection.
Take(t) == /\ holder = NoThread
           /\ holder' = t
           /\ UNCHANGED abandoned

\* The holder gives it back, the normal end of a request.
GiveBack(t) == /\ holder = t
               /\ ~abandoned
               /\ holder' = NoThread
               /\ UNCHANGED abandoned

\* The holder returns to its caller and keeps the connection.
Abandon(t) == /\ holder = t
              /\ ~abandoned
              /\ abandoned' = TRUE
              /\ UNCHANGED holder

Next == \E t \in Threads : Take(t) \/ GiveBack(t) \/ Abandon(t)

Spec == Init /\ [][Next]_vars
=============================================================================
