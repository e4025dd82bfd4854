--------------------------- MODULE KeepAliveConn ---------------------------
(***************************************************************************)
(* One keep-alive HTTPConnection of src/http.c and the threads that call   *)
(* SendHTTPRequest on it.  cdncon is shared by the window thread and the   *)
(* gateway thread; maincon has one caller, the window thread.              *)
(*                                                                         *)
(* The server's half of the stream is a sequence of pieces: the header     *)
(* block of a response, the body pieces, and the last chunk of a chunked   *)
(* body.  A piece keeps only what the two read loops look for in it:       *)
(*   "mark" : body data that happens to contain "0\r\n\r\n"                *)
(*   "nul"  : body data that contains a NUL, where strstr stops looking.   *)
(*                                                                         *)
(* The critical section is recursive.  MessageBoxA runs a message loop, so *)
(* a thread that dispatches window messages (Reentrant) may begin another  *)
(* request while the box of a failed one is still open.                    *)
(***************************************************************************)
EXTENDS Naturals, Sequences, FiniteSets

CONSTANTS Threads,      \* threads that call SendHTTPRequest
          Reentrant,    \* those whose modal loops dispatch window messages
          NoThread,     \* owner of a free critical section
          Pieces,       \* kinds of body data the server may send
          Faults,       \* what may go wrong: "eof", "reset", "oom"
          MaxRequests,  \* bound: requests ever started
          MaxBody       \* bound: body pieces of one response

ASSUME ThreadsAssumption == /\ NoThread \notin Threads
                            /\ Reentrant \subseteq Threads
ASSUME PiecesAssumption  == Pieces \subseteq {"data", "mark", "nul"}
ASSUME FaultsAssumption  == Faults \subseteq {"eof", "reset", "oom"}
ASSUME BoundsAssumption  == MaxRequests \in Nat /\ MaxBody \in Nat

VARIABLES
  conn,    \* "up", "eof" (the server closed it) or "reset"; never reopened
  owner,   \* owning thread of conn->lock
  depth,   \* its recursion count
  pc,      \* where each thread is in SendHTTPRequest
  boxes,   \* per thread: message boxes of failed requests still open
  cur,     \* per thread: the request it is sending
  got,     \* per thread: pieces in `buffer`
  reply,   \* per thread: what its last successful request returned
  wire,    \* request parts the server has not answered yet
  stream,  \* response pieces not yet read from conn->ssl
  nreq,    \* requests started so far; they are numbered from 1
  taint    \* history: causes that leave the stream out of step

vars == <<conn, owner, depth, pc, boxes, cur, got, reply, wire, stream, nreq, taint>>

Heads  == {"lenHead", "chunkHead"}
Piece  == [id : Nat, kind : Heads \cup {"data", "mark", "nul", "last"}, n : Nat]
Part   == [id : Nat, what : {"headers", "payload"}, more : BOOLEAN]
Reply  == [req : Nat, got : Seq(Piece)]
NoReply == [req |-> 0, got |-> <<>>]

Locations == {"idle", "enter", "headers", "payload", "readHead", "readBody", "spin"}
Locked    == Locations \ {"idle", "enter"}
Inside(t) == pc[t] \in Locked

TypeOK ==
  /\ conn \in {"up", "eof", "reset"}
  /\ owner \in Threads \cup {NoThread}
  /\ depth \in Nat
  /\ pc \in [Threads -> Locations]
  /\ boxes \in [Threads -> Nat]
  /\ cur \in [Threads -> [id : Nat, payload : BOOLEAN]]
  /\ got \in [Threads -> Seq(Piece)]
  /\ reply \in [Threads -> Reply]
  /\ wire \in Seq(Part)
  /\ stream \in Seq(Piece)
  /\ nreq \in Nat
  /\ taint \subseteq {"mark", "oom"}

Init ==
  /\ conn = "up"
  /\ owner = NoThread
  /\ depth = 0
  /\ pc = [t \in Threads |-> "idle"]
  /\ boxes = [t \in Threads |-> 0]
  /\ cur = [t \in Threads |-> [id |-> 0, payload |-> FALSE]]
  /\ got = [t \in Threads |-> <<>>]
  /\ reply = [t \in Threads |-> NoReply]
  /\ wire = <<>>
  /\ stream = <<>>
  /\ nreq = 0
  /\ taint = {}

-----------------------------------------------------------------------------
(* What the read loops see in the buffer.                                   *)

\* strstr(buffer + from, ...): positions of a match, up to the first NUL.
Found(s, from, kinds) ==
  {i \in from..Len(s) : /\ s[i].kind \in kinds
                        /\ \A j \in from..(i - 1) : s[j].kind # "nul"}

\* "\r\n\r\n" ends a header block, and also the last chunk and a mark.
HeaderEnds(s) == Found(s, 1, Heads \cup {"mark", "last"})
HeaderAt(s)   == CHOOSE i \in HeaderEnds(s) : \A j \in HeaderEnds(s) : i <= j

\* Variant: body_have counted without taking the header off total_bytes.
BodyDone_CountsHeader(s) ==
  LET h == HeaderAt(s)
  IN  IF s[h].kind = "chunkHead"
      THEN Found(s, h + 1, {"mark", "last"}) # {}
      ELSE Len(s) >= s[h].n

\* The loop conditions of the two body loops.
BodyDone(s) ==
  LET h == HeaderAt(s)
  IN  IF s[h].kind = "chunkHead"
      THEN Found(s, h + 1, {"mark", "last"}) # {}
      ELSE Len(s) - h >= s[h].n

\* SSL_read moves some of what has arrived into the buffer.
Receive(t, k) ==
  /\ got' = [got EXCEPT ![t] = @ \o SubSeq(stream, 1, k)]
  /\ stream' = SubSeq(stream, k + 1, Len(stream))

\* A read that can only fail: nothing is left and nothing will come.
ReadFails == stream = <<>> /\ conn # "up"

\* return 1 or -1, with the critical section still held.
ReturnHolding(t, box) ==
  /\ pc' = [pc EXCEPT ![t] = "idle"]
  /\ boxes' = [boxes EXCEPT ![t] = IF box THEN @ + 1 ELSE @]
  /\ got' = [got EXCEPT ![t] = <<>>]
  /\ UNCHANGED <<conn, owner, depth, cur, reply, wire, nreq>>

-----------------------------------------------------------------------------
(* SendHTTPRequest, in order.  conn->connected is set once by HTTPConnect   *)
(* and never cleared, so its first test does not fail here.                 *)

\* A thread calls SendHTTPRequest; inside a box only a Reentrant one can.
Start(t, p) ==
  /\ pc[t] = "idle"
  /\ boxes[t] = 0 \/ t \in Reentrant
  /\ nreq < MaxRequests
  /\ nreq' = nreq + 1
  /\ cur' = [cur EXCEPT ![t] = [id |-> nreq + 1, payload |-> p]]
  /\ reply' = [reply EXCEPT ![t] = NoReply]
  /\ pc' = [pc EXCEPT ![t] = "enter"]
  /\ UNCHANGED <<conn, owner, depth, boxes, got, wire, stream, taint>>

\* Variant: TryEnterCriticalSection, its result ignored.
Enter_Unchecked(t) ==
  /\ pc[t] = "enter"
  /\ owner' = t
  /\ depth' = depth + 1
  /\ pc' = [pc EXCEPT ![t] = "headers"]
  /\ UNCHANGED <<conn, boxes, cur, got, reply, wire, stream, nreq, taint>>

\* EnterCriticalSection.
Enter(t) ==
  /\ pc[t] = "enter"
  /\ owner \in {NoThread, t}
  /\ owner' = t
  /\ depth' = depth + 1
  /\ pc' = [pc EXCEPT ![t] = "headers"]
  /\ UNCHANGED <<conn, boxes, cur, got, reply, wire, stream, nreq, taint>>

\* SSL_write of one part; it may still succeed after the server closed.
Write(t, what, more) ==
  /\ conn # "reset"
  /\ wire' = IF conn = "up"
             THEN Append(wire, [id |-> cur[t].id, what |-> what, more |-> more])
             ELSE wire
  /\ UNCHANGED <<conn, owner, depth, boxes, cur, got, reply, stream, nreq, taint>>

WriteHeaders(t) ==
  /\ pc[t] = "headers"
  /\ Write(t, "headers", cur[t].payload)
  /\ pc' = [pc EXCEPT ![t] = IF cur[t].payload THEN "payload" ELSE "readHead"]

WritePayload(t) ==
  /\ pc[t] = "payload"
  /\ Write(t, "payload", FALSE)
  /\ pc' = [pc EXCEPT ![t] = "readHead"]

\* SSL_write <= 0: a box, and return 1 without LeaveCriticalSection.
WriteFails(t) ==
  /\ pc[t] \in {"headers", "payload"}
  /\ conn # "up"
  /\ ReturnHolding(t, TRUE)
  /\ UNCHANGED <<stream, taint>>

\* One turn of the header loop, which stops once "\r\n\r\n" is in sight.
ReadHead(t) ==
  /\ pc[t] = "readHead"
  /\ \E k \in 1..Len(stream) : Receive(t, k)
  /\ pc' = [pc EXCEPT ![t] = IF HeaderEnds(got'[t]) # {} THEN "readBody" ELSE @]
  /\ UNCHANGED <<conn, owner, depth, boxes, cur, reply, wire, nreq, taint>>

\* SSL_read returns 0: total_bytes stays, the loop turns forever.
HeadEof(t) ==
  /\ pc[t] = "readHead"
  /\ ReadFails
  /\ conn = "eof"
  /\ pc' = [pc EXCEPT ![t] = "spin"]
  /\ UNCHANGED <<conn, owner, depth, boxes, cur, got, reply, wire, stream, nreq, taint>>

\* SSL_read returns -1: total_bytes wraps below zero and the buffer grows by
\* 8192 per turn until realloc fails: a box, and return -1 holding the lock.
HeadReset(t) ==
  /\ pc[t] = "readHead"
  /\ ReadFails
  /\ conn = "reset"
  /\ ReturnHolding(t, TRUE)
  /\ UNCHANGED <<stream, taint>>

\* The header loop has read more, and the realloc behind it fails: a box,
\* and return -1 holding the lock.
HeadOutOfMemory(t) ==
  /\ "oom" \in Faults
  /\ pc[t] = "readHead"
  /\ \E k \in 1..Len(stream) : stream' = SubSeq(stream, k + 1, Len(stream))
  /\ ReturnHolding(t, TRUE)
  /\ taint' = taint \cup {"oom"}

\* The realloc in front of a body read fails: return -1 holding the lock.
BodyOutOfMemory(t) ==
  /\ "oom" \in Faults
  /\ pc[t] = "readBody"
  /\ ~BodyDone(got[t])
  /\ ReturnHolding(t, FALSE)
  /\ taint' = taint \cup {"oom"}
  /\ UNCHANGED stream

\* One turn of a body loop.
ReadBody(t) ==
  /\ pc[t] = "readBody"
  /\ ~BodyDone(got[t])
  /\ \E k \in 1..Len(stream) : Receive(t, k)
  /\ UNCHANGED <<conn, owner, depth, pc, boxes, cur, reply, wire, nreq, taint>>

Returned(t) ==
  /\ reply' = [reply EXCEPT ![t] = [req |-> cur[t].id, got |-> got[t]]]
  /\ got' = [got EXCEPT ![t] = <<>>]
  /\ pc' = [pc EXCEPT ![t] = "idle"]
  /\ UNCHANGED <<conn, boxes, cur, wire, stream, nreq, taint>>

\* Variant: the return 0 without LeaveCriticalSection.
Finish_KeepsLock(t) ==
  /\ pc[t] = "readBody"
  /\ BodyDone(got[t]) \/ ReadFails
  /\ Returned(t)
  /\ UNCHANGED <<owner, depth>>

\* Variant: LeaveCriticalSection twice.
Finish_LeavesTwice(t) ==
  /\ pc[t] = "readBody"
  /\ BodyDone(got[t]) \/ ReadFails
  /\ Returned(t)
  /\ depth' = depth - 2
  /\ owner' = NoThread

\* Variant: one read of the body is taken for all of it.
Finish_ShortRead(t) ==
  /\ pc[t] = "readBody"
  /\ Returned(t)
  /\ depth' = depth - 1
  /\ owner' = IF depth = 1 THEN NoThread ELSE owner

\* The body is complete, or SSL_read <= 0 broke the loop: the pieces behind
\* the header are the response, LeaveCriticalSection, return 0.
Finish(t) ==
  /\ pc[t] = "readBody"
  /\ BodyDone(got[t]) \/ ReadFails
  /\ Returned(t)
  /\ depth' = depth - 1
  /\ owner' = IF depth = 1 THEN NoThread ELSE owner

\* Variant: LeaveCriticalSection once the box is closed, however it was opened.
Dismiss_Releases(t) ==
  /\ pc[t] = "idle"
  /\ boxes[t] > 0
  /\ boxes' = [boxes EXCEPT ![t] = @ - 1]
  /\ depth' = 0
  /\ owner' = NoThread
  /\ UNCHANGED <<conn, pc, cur, got, reply, wire, stream, nreq, taint>>

\* The user closes the innermost box and the failed request returns.
Dismiss(t) ==
  /\ pc[t] = "idle"
  /\ boxes[t] > 0
  /\ boxes' = [boxes EXCEPT ![t] = @ - 1]
  /\ UNCHANGED <<conn, owner, depth, pc, cur, got, reply, wire, stream, nreq, taint>>

-----------------------------------------------------------------------------
(* The server and the network.                                              *)

\* Parts that make up the first request on the wire, 0 if it is incomplete.
FirstRequest ==
  IF wire = <<>> THEN 0
  ELSE IF ~wire[1].more THEN 1
  ELSE IF Len(wire) > 1 THEN 2 ELSE 0

Body(i, kinds) == [j \in DOMAIN kinds |-> [id |-> i, kind |-> kinds[j], n |-> 0]]

Response(i, framing, kinds) ==
  <<[id |-> i, kind |-> framing, n |-> IF framing = "lenHead" THEN Len(kinds) ELSE 0]>>
    \o Body(i, kinds)
    \o (IF framing = "chunkHead" THEN <<[id |-> i, kind |-> "last", n |-> 0]>> ELSE <<>>)

\* The server answers the requests in the order it receives them.
Answer ==
  /\ conn = "up"
  /\ FirstRequest > 0
  /\ \E framing \in Heads, len \in 0..MaxBody : \E kinds \in [1..len -> Pieces] :
       /\ stream' = stream \o Response(wire[1].id, framing, kinds)
       /\ taint' = IF framing = "chunkHead" /\ \E j \in 1..len : kinds[j] = "mark"
                   THEN taint \cup {"mark"} ELSE taint
  /\ wire' = SubSeq(wire, FirstRequest + 1, Len(wire))
  /\ UNCHANGED <<conn, owner, depth, pc, boxes, cur, got, reply, nreq>>

\* The connection ends; what was still under way may be lost.
Drop ==
  /\ conn = "up"
  /\ conn' \in Faults \cap {"eof", "reset"}
  /\ \E k \in 0..Len(stream) : stream' = SubSeq(stream, 1, k)
  /\ wire' = <<>>
  /\ UNCHANGED <<owner, depth, pc, boxes, cur, got, reply, nreq, taint>>

-----------------------------------------------------------------------------
Step(t) == \/ WriteHeaders(t) \/ WritePayload(t) \/ WriteFails(t)
           \/ ReadHead(t) \/ HeadEof(t) \/ HeadReset(t)
           \/ ReadBody(t) \/ Finish(t)

Call(t) == \/ \E p \in BOOLEAN : Start(t, p)
           \/ Enter(t) \/ Step(t) \/ Dismiss(t)
           \/ HeadOutOfMemory(t) \/ BodyOutOfMemory(t)

Next == (\E t \in Threads : Call(t)) \/ Answer \/ Drop

Spec == Init /\ [][Next]_vars

\* A running thread gets the processor, the server answers what it received,
\* and a waiter on the critical section is served in the end (the release
\* hands it over in arrival order on the Windows versions Backcord targets).
\* Nothing obliges memory or the network to fail, or the user to close a box.
Fairness == /\ \A t \in Threads : WF_vars(Step(t)) /\ SF_vars(Enter(t))
            /\ WF_vars(Answer)

FairSpec == Spec /\ Fairness

-----------------------------------------------------------------------------
(* Properties.                                                              *)

\* Between EnterCriticalSection and its return SendHTTPRequest has the
\* connection for itself: no other thread writes or reads it.
OneThreadOnWire == \A s, t \in Threads : Inside(s) /\ Inside(t) => s = t

\* Thread t owns the lock more often than the request it is executing explains.
LeakedBy(t) == owner = t /\ depth > (IF Inside(t) THEN 1 ELSE 0)

\* The early returns that keep the lock are the only leak: as long as the
\* connection is up and memory sufficed, a thread outside owns nothing.
LeakOnlyAfterFault ==
  (\E t \in Threads : LeakedBy(t)) => conn # "up" \/ "oom" \in taint

\* A lock kept by an early return is never released: no later request of
\* that thread, nested or not, gives the connection back to the others.
LeakIsForever == [][\A t \in Threads : LeakedBy(t) => LeakedBy(t)']_vars

\* While nothing disturbed the stream, a free connection has nothing left on
\* it: the next request will find its own response and no other.
FreeMeansQuiet ==
  owner = NoThread /\ taint = {} => wire = <<>> /\ stream = <<>>

Own(r)   == \A i \in 1..Len(r.got) : r.got[i].id = r.req
Whole(r) == LET h == r.got[1]
            IN  IF h.kind = "lenHead" THEN Len(r.got) = 1 + h.n
                ELSE h.kind = "chunkHead" /\ r.got[Len(r.got)].kind = "last"

\* A request that returns 0 returns its own response (whatever other threads
\* did), and all of it unless the connection ended under the body loop.
PairedReply ==
  taint = {} => \A t \in Threads :
    reply[t] # NoReply => Own(reply[t]) /\ (conn = "up" => Whole(reply[t]))

\* The connection as the threads see it: exclusive, handed back after each
\* request, and lost to everybody but one thread after an abandoned one.
Service == INSTANCE ConnService
             WITH holder <- owner, abandoned <- \E t \in Threads : LeakedBy(t)
ImplementsService == Service!Spec

\* What may keep a request for ever: a connection that is not up, a failed
\* realloc with the lock held, and a NUL in a chunked body, behind which
\* strstr does not find the last chunk.
Excused ==
  \/ conn # "up" \/ "oom" \in taint
  \/ \E t \in Threads : \E i \in DOMAIN got[t] : got[t][i].kind = "nul"

\* On a connection that stays up every request comes back to its caller.
CallsReturnWhileUp == \A t \in Threads : []<>(pc[t] = "idle" \/ Excused)
=============================================================================
