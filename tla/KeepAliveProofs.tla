-------------------------- MODULE KeepAliveProofs --------------------------
(***************************************************************************)
(* Theorems about KeepAliveConn, for any number of threads, requests and   *)
(* body pieces and any combination of faults.                              *)
(***************************************************************************)
EXTENDS KeepAliveConn, SequenceTheorems, TLAPS

-----------------------------------------------------------------------------
(* Type correctness.                                                        *)

\* A read moves a piece of one sequence to the end of another.
LEMMA PrefixSuffixType ==
  ASSUME NEW S, NEW s \in Seq(S), NEW k \in 0..Len(s)
  PROVE  /\ SubSeq(s, 1, k) \in Seq(S)
         /\ SubSeq(s, k + 1, Len(s)) \in Seq(S)
<1>1. \A i \in 1..Len(s) : s[i] \in S
  BY ElementOfSeq
<1>2. SubSeq(s, 1, k) \in Seq(S)
  BY <1>1, SubSeqProperties
<1>3. SubSeq(s, k + 1, Len(s)) \in Seq(S)
  BY <1>1, SubSeqProperties, LenProperties
<1> QED BY <1>2, <1>3

\* What the server sends is a sequence of pieces.
LEMMA ResponseType ==
  ASSUME NEW i \in Nat, NEW framing \in Heads, NEW len \in Nat,
         NEW kinds \in [1..len -> Pieces]
  PROVE  Response(i, framing, kinds) \in Seq(Piece)
<1>1. kinds \in Seq(Pieces) /\ Len(kinds) = len /\ DOMAIN kinds = 1..len
  BY SeqDef, LenProperties
<1>2. Body(i, kinds) \in Seq(Piece)
  <2>1. \A j \in 1..len : [id |-> i, kind |-> kinds[j], n |-> 0] \in Piece
    BY PiecesAssumption DEF Piece
  <2>2. Body(i, kinds) \in [1..len -> Piece]
    BY <1>1, <2>1 DEF Body
  <2> QED BY <2>2, SeqDef
<1>3. \A p \in Piece : <<p>> \in Seq(Piece)
  BY EmptySeq, AppendProperties, AppendIsConcat, ConcatEmptySeq
<1>4. [id |-> i, kind |-> framing, n |-> IF framing = "lenHead" THEN Len(kinds) ELSE 0]
        \in Piece
  BY <1>1 DEF Piece, Heads
<1>5. [id |-> i, kind |-> "last", n |-> 0] \in Piece
  BY DEF Piece
<1>6. (IF framing = "chunkHead" THEN <<[id |-> i, kind |-> "last", n |-> 0]>>
       ELSE <<>>) \in Seq(Piece)
  BY <1>3, <1>5, EmptySeq
<1> QED BY <1>2, <1>3, <1>4, <1>6, ConcatProperties DEF Response

LEMMA ReceiveType ==
  ASSUME TypeOK, NEW t \in Threads, NEW k \in 1..Len(stream), Receive(t, k)
  PROVE  got' \in [Threads -> Seq(Piece)] /\ stream' \in Seq(Piece)
<1>1. k \in 0..Len(stream)
  BY LenProperties DEF TypeOK
<1>2. SubSeq(stream, 1, k) \in Seq(Piece) /\ SubSeq(stream, k + 1, Len(stream)) \in Seq(Piece)
  BY <1>1, PrefixSuffixType DEF TypeOK
<1>3. got[t] \o SubSeq(stream, 1, k) \in Seq(Piece)
  BY <1>2, ConcatProperties DEF TypeOK
<1> QED BY <1>2, <1>3 DEF Receive, TypeOK

-----------------------------------------------------------------------------
(* The inductive invariant of the critical section.                         *)

\* The lock is free exactly when its count is zero, whoever executes the body
\* of SendHTTPRequest owns it, and a leak has a cause.
LockInv == /\ owner = NoThread <=> depth = 0
           /\ \A t \in Threads : Inside(t) => owner = t
           /\ LeakOnlyAfterFault

Inv == TypeOK /\ LockInv

LEMMA InitInv == Init => Inv
<1> SUFFICES ASSUME Init PROVE Inv
  OBVIOUS
<1>1. TypeOK
  BY EmptySeq DEF Init, TypeOK, Locations, Reply, NoReply
<1>2. LockInv
  BY ThreadsAssumption
  DEF Init, LockInv, Inside, Locked, Locations, LeakOnlyAfterFault, LeakedBy
<1> QED BY <1>1, <1>2 DEF Inv

\* The count is at least one while a thread is inside.
LEMMA InsideHolds ==
  ASSUME Inv, NEW t \in Threads, Inside(t)
  PROVE  owner = t /\ depth > 0
BY ThreadsAssumption DEF Inv, LockInv, TypeOK

LEMMA TypeStep == Inv /\ [Next]_vars => TypeOK'
<1> SUFFICES ASSUME Inv, [Next]_vars PROVE TypeOK'
  OBVIOUS
<1>0. TypeOK
  BY DEF Inv
<1> USE <1>0 DEF TypeOK, Locations
<1>1. ASSUME NEW t \in Threads, NEW p \in BOOLEAN, Start(t, p) PROVE TypeOK'
  BY <1>1 DEF Start, Reply, NoReply
<1>2. ASSUME NEW t \in Threads, Enter(t) PROVE TypeOK'
  BY <1>2 DEF Enter
<1>3. ASSUME NEW t \in Threads, WriteHeaders(t) PROVE TypeOK'
  <2>1. Append(wire, [id |-> cur[t].id, what |-> "headers", more |-> cur[t].payload])
          \in Seq(Part)
    BY DEF Part
  <2> QED BY <1>3, <2>1 DEF WriteHeaders, Write
<1>4. ASSUME NEW t \in Threads, WritePayload(t) PROVE TypeOK'
  <2>1. Append(wire, [id |-> cur[t].id, what |-> "payload", more |-> FALSE]) \in Seq(Part)
    BY DEF Part
  <2> QED BY <1>4, <2>1 DEF WritePayload, Write
<1>5. ASSUME NEW t \in Threads, WriteFails(t) PROVE TypeOK'
  BY <1>5 DEF WriteFails, ReturnHolding
<1>6. ASSUME NEW t \in Threads, ReadHead(t) PROVE TypeOK'
  <2>1. got' \in [Threads -> Seq(Piece)] /\ stream' \in Seq(Piece)
    BY <1>6, ReceiveType DEF ReadHead
  <2> QED BY <1>6, <2>1 DEF ReadHead
<1>7. ASSUME NEW t \in Threads, HeadEof(t) PROVE TypeOK'
  BY <1>7 DEF HeadEof
<1>8. ASSUME NEW t \in Threads, HeadReset(t) PROVE TypeOK'
  BY <1>8 DEF HeadReset, ReturnHolding
<1>9. ASSUME NEW t \in Threads, HeadOutOfMemory(t) PROVE TypeOK'
  <2>1. stream' \in Seq(Piece)
    BY <1>9, PrefixSuffixType, LenProperties DEF HeadOutOfMemory
  <2> QED BY <1>9, <2>1 DEF HeadOutOfMemory, ReturnHolding
<1>10. ASSUME NEW t \in Threads, BodyOutOfMemory(t) PROVE TypeOK'
  BY <1>10 DEF BodyOutOfMemory, ReturnHolding
<1>11. ASSUME NEW t \in Threads, ReadBody(t) PROVE TypeOK'
  <2>1. got' \in [Threads -> Seq(Piece)] /\ stream' \in Seq(Piece)
    BY <1>11, ReceiveType DEF ReadBody
  <2> QED BY <1>11, <2>1 DEF ReadBody
<1>12. ASSUME NEW t \in Threads, Finish(t) PROVE TypeOK'
  <2>0. Inside(t)
    BY <1>12 DEF Finish, Inside, Locked
  <2>1. depth - 1 \in Nat
    BY <2>0, InsideHolds
  <2>2. [req |-> cur[t].id, got |-> got[t]] \in Reply
    BY DEF Reply
  <2>3. got' \in [Threads -> Seq(Piece)]
    BY <1>12, EmptySeq DEF Finish, Returned
  <2> QED BY <1>12, <2>1, <2>2, <2>3 DEF Finish, Returned
<1>13. ASSUME NEW t \in Threads, Dismiss(t) PROVE TypeOK'
  BY <1>13 DEF Dismiss
<1>14. ASSUME Answer PROVE TypeOK'
  <2>1. wire # <<>> /\ FirstRequest \in 0..Len(wire)
    BY <1>14, EmptySeq, LenProperties DEF Answer, FirstRequest
  <2>2. wire[1].id \in Nat
    <3>1. 1 \in 1..Len(wire)
      BY <2>1, EmptySeq
    <3>2. wire[1] \in Part
      BY <3>1, ElementOfSeq
    <3> QED BY <3>2 DEF Part
  <2>3. stream' \in Seq(Piece)
    <3>1. PICK framing \in Heads, len \in 0..MaxBody : \E kinds \in [1..len -> Pieces] :
            stream' = stream \o Response(wire[1].id, framing, kinds)
      BY <1>14, Zenon DEF Answer
    <3>2. PICK kinds \in [1..len -> Pieces] :
            stream' = stream \o Response(wire[1].id, framing, kinds)
      BY <3>1, Zenon
    <3>3. len \in Nat
      BY BoundsAssumption
    <3>4. Response(wire[1].id, framing, kinds) \in Seq(Piece)
      BY <2>2, <3>3, ResponseType, Zenon
    <3> QED BY <3>2, <3>4, ConcatProperties, Zenon
  <2>4. wire' \in Seq(Part)
    BY <1>14, <2>1, PrefixSuffixType DEF Answer
  <2>5. taint' \subseteq {"mark", "oom"}
    BY <1>14 DEF Answer
  <2> QED BY <1>14, <2>3, <2>4, <2>5 DEF Answer
<1>15. ASSUME Drop PROVE TypeOK'
  <2>1. stream' \in Seq(Piece)
    BY <1>15, PrefixSuffixType DEF Drop
  <2> QED BY <1>15, <2>1, EmptySeq DEF Drop
<1>16. CASE UNCHANGED vars
  BY <1>16 DEF vars
<1> HIDE <1>0 DEF TypeOK, Locations
<1> QED BY <1>1, <1>2, <1>3, <1>4, <1>5, <1>6, <1>7, <1>8, <1>9, <1>10, <1>11,
           <1>12, <1>13, <1>14, <1>15, <1>16 DEF Next, Call, Step

-----------------------------------------------------------------------------
(* One lemma per way in which a step can touch the lock.                    *)

\* A thread that stays on its side of the lock, which nobody moves.
LEMMA LockUntouched ==
  ASSUME Inv, NEW t \in Threads, UNCHANGED <<owner, depth>>,
         \A s \in Threads \ {t} : pc'[s] = pc[s],
         Inside(t)' <=> Inside(t),
         conn' = conn, taint \subseteq taint'
  PROVE  LockInv'
BY DEF Inv, TypeOK, LockInv, Inside, LeakOnlyAfterFault, LeakedBy

\* An early return that keeps the lock needs a cause.
LEMMA LockKept ==
  ASSUME Inv, NEW t \in Threads, Inside(t), pc' = [pc EXCEPT ![t] = "idle"],
         UNCHANGED <<owner, depth, conn>>, conn # "up" \/ "oom" \in taint'
  PROVE  LockInv'
BY DEF Inv, TypeOK, LockInv, Inside, Locked, Locations, LeakOnlyAfterFault, LeakedBy

LEMMA LockStep == Inv /\ [Next]_vars => LockInv'
<1> SUFFICES ASSUME Inv, [Next]_vars PROVE LockInv'
  OBVIOUS
<1>0. TypeOK /\ LockInv
  BY DEF Inv
<1>1. ASSUME NEW t \in Threads, NEW p \in BOOLEAN, Start(t, p) PROVE LockInv'
  BY <1>0, <1>1, LockUntouched DEF Start, TypeOK, Inside, Locked, Locations
<1>2. ASSUME NEW t \in Threads, Enter(t) PROVE LockInv'
  <2>1. owner' = t /\ depth' = depth + 1 /\ depth' # 0 /\ owner' # NoThread
    BY <1>0, <1>2, ThreadsAssumption DEF Enter, TypeOK
  <2>2. \A s \in Threads : Inside(s)' => s = t
    BY <1>0, <1>2, ThreadsAssumption DEF Enter, TypeOK, LockInv, Inside, Locked, Locations
  <2>3. (\E s \in Threads : LeakedBy(s))' => \E s \in Threads : LeakedBy(s)
    BY <1>0, <1>2, <2>1 DEF Enter, TypeOK, LockInv, LeakedBy, Inside, Locked, Locations
  <2> QED BY <1>0, <1>2, <2>1, <2>2, <2>3 DEF Enter, LockInv, LeakOnlyAfterFault
<1>3. ASSUME NEW t \in Threads, WriteHeaders(t) PROVE LockInv'
  BY <1>0, <1>3, LockUntouched DEF WriteHeaders, Write, TypeOK, Inside, Locked, Locations
<1>4. ASSUME NEW t \in Threads, WritePayload(t) PROVE LockInv'
  BY <1>0, <1>4, LockUntouched DEF WritePayload, Write, TypeOK, Inside, Locked, Locations
<1>5. ASSUME NEW t \in Threads, WriteFails(t) PROVE LockInv'
  BY <1>0, <1>5, LockKept DEF WriteFails, ReturnHolding, Inside, Locked, Locations
<1>6. ASSUME NEW t \in Threads, ReadHead(t) PROVE LockInv'
  BY <1>0, <1>6, LockUntouched DEF ReadHead, TypeOK, Inside, Locked, Locations
<1>7. ASSUME NEW t \in Threads, HeadEof(t) PROVE LockInv'
  BY <1>0, <1>7, LockUntouched DEF HeadEof, TypeOK, Inside, Locked, Locations
<1>8. ASSUME NEW t \in Threads, HeadReset(t) PROVE LockInv'
  BY <1>0, <1>8, LockKept DEF HeadReset, ReturnHolding, Inside, Locked, Locations
<1>9. ASSUME NEW t \in Threads, HeadOutOfMemory(t) PROVE LockInv'
  BY <1>0, <1>9, LockKept DEF HeadOutOfMemory, ReturnHolding, Inside, Locked, Locations
<1>10. ASSUME NEW t \in Threads, BodyOutOfMemory(t) PROVE LockInv'
  BY <1>0, <1>10, LockKept DEF BodyOutOfMemory, ReturnHolding, Inside, Locked, Locations
<1>11. ASSUME NEW t \in Threads, ReadBody(t) PROVE LockInv'
  BY <1>0, <1>11, LockUntouched DEF ReadBody, TypeOK, Inside
<1>12. ASSUME NEW t \in Threads, Finish(t) PROVE LockInv'
  <2>1. owner = t /\ depth > 0
    BY <1>12, InsideHolds DEF Finish, Inside, Locked, Locations
  <2>2. owner' = (IF depth = 1 THEN NoThread ELSE t) /\ depth' = depth - 1
    BY <1>12, <2>1 DEF Finish
  <2>3. \A s \in Threads : ~Inside(s)'
    BY <1>0, <1>12, <2>1 DEF Finish, Returned, TypeOK, LockInv, Inside, Locked, Locations
  <2>4. Inside(t)
    BY <1>12 DEF Finish, Inside, Locked, Locations
  <2>5. (\E s \in Threads : LeakedBy(s))' => LeakedBy(t)
    BY <1>0, <2>1, <2>2, <2>3, <2>4, ThreadsAssumption DEF LeakedBy, TypeOK
  <2>6. owner' = NoThread <=> depth' = 0
    BY <1>0, <2>1, <2>2, ThreadsAssumption DEF TypeOK
  <2> QED BY <1>0, <1>12, <2>3, <2>5, <2>6
          DEF Finish, Returned, LockInv, LeakOnlyAfterFault
<1>13. ASSUME NEW t \in Threads, Dismiss(t) PROVE LockInv'
  BY <1>0, <1>13, LockUntouched DEF Dismiss, Inside
<1>14. ASSUME Answer PROVE LockInv'
  BY <1>0, <1>14 DEF Answer, LockInv, Inside, LeakOnlyAfterFault, LeakedBy
<1>15. ASSUME Drop PROVE LockInv'
  BY <1>0, <1>15 DEF Drop, LockInv, Inside, LeakOnlyAfterFault, LeakedBy
<1>16. CASE UNCHANGED vars
  BY <1>0, <1>16 DEF vars, LockInv, Inside, LeakOnlyAfterFault, LeakedBy
<1> QED BY <1>1, <1>2, <1>3, <1>4, <1>5, <1>6, <1>7, <1>8, <1>9, <1>10, <1>11,
           <1>12, <1>13, <1>14, <1>15, <1>16 DEF Next, Call, Step

LEMMA InvStep == Inv /\ [Next]_vars => Inv'
BY TypeStep, LockStep DEF Inv

LEMMA SpecInv == Spec => []Inv
BY InitInv, InvStep, PTL DEF Spec

-----------------------------------------------------------------------------
(* The stream: whose pieces are on it, and how many are still to come.      *)

\* x is an answer to request id as far as it has arrived; all of it if whole.
Exchange(x, id, whole) ==
  /\ \A i \in 1..Len(x) : x[i].id = id
  /\ Len(x) > 0 =>
       /\ x[1].kind \in Heads
       /\ x[1].kind = "lenHead" => Len(x) <= 1 + x[1].n
       /\ x[1].kind = "chunkHead" =>
            \A i \in 1..Len(x) : x[i].kind # "mark" /\ (x[i].kind = "last" => i = Len(x))
  /\ whole => /\ Len(x) > 0
              /\ x[1].kind = "lenHead" => Len(x) = 1 + x[1].n
              /\ x[1].kind = "chunkHead" => x[Len(x)].kind = "last"

\* The request of t is on the wire and not answered.
Waiting(t) ==
  /\ stream = <<>> /\ Len(wire) \in {1, 2}
  /\ wire[1].id = cur[t].id
  /\ wire[1].more <=> Len(wire) = 2

\* What is under way while t is at its place in SendHTTPRequest.
Quiet == wire = <<>> /\ stream = <<>>
Place(t) ==
  /\ pc[t] \in {"headers", "spin"} => Quiet
  /\ pc[t] = "payload" =>
       /\ stream = <<>>
       /\ conn = "up" => Len(wire) = 1 /\ wire[1].more /\ wire[1].id = cur[t].id
  /\ pc[t] = "readHead" => Waiting(t) \/ (wire = <<>> /\ Exchange(stream, cur[t].id, conn = "up"))
  /\ pc[t] = "readBody" => /\ wire = <<>> /\ Len(got[t]) > 0
                           /\ Exchange(got[t] \o stream, cur[t].id, conn = "up")
  /\ pc[t] # "readBody" => got[t] = <<>>

\* Between requests, and during one, the connection carries nothing else.
StreamInv ==
  /\ conn # "up" => wire = <<>>
  /\ \A t \in Threads : ~Inside(t) => got[t] = <<>>
  /\ taint = {} =>
       /\ (\A t \in Threads : ~Inside(t)) => Quiet
       /\ \A t \in Threads : Place(t)
       /\ PairedReply

\* Where the items of two sequences joined are.
Joined(u, s, t) ==
  /\ u \in Seq(Piece) /\ Len(u) = Len(s) + Len(t)
  /\ Len(s) \in Nat /\ Len(t) \in Nat
  /\ \A i \in 1..Len(s) : u[i] = s[i]
  /\ \A i \in 1..Len(t) : u[Len(s) + i] = t[i]

LEMMA Joining ==
  ASSUME NEW s \in Seq(Piece), NEW t \in Seq(Piece)
  PROVE  Joined(s \o t, s, t)
<1> DEFINE u == s \o t
<1>1. u \in Seq(Piece) /\ Len(u) = Len(s) + Len(t) /\ Len(s) \in Nat /\ Len(t) \in Nat
  BY ConcatProperties, LenProperties
<1>2. ASSUME NEW i \in 1..Len(s) PROVE u[i] = s[i]
  OBVIOUS
<1>3. ASSUME NEW i \in 1..Len(t) PROVE u[Len(s) + i] = t[i]
  <2>1. ASSUME NEW j \in 1..(Len(s) + Len(t)) PROVE u[j] = IF j <= Len(s) THEN s[j] ELSE t[j - Len(s)]
    OBVIOUS
  <2>2. Len(s) + i \in 1..(Len(s) + Len(t)) /\ ~(Len(s) + i <= Len(s)) /\ (Len(s) + i) - Len(s) = i
    BY <1>1
  <2> QED BY <2>1, <2>2
<1> HIDE DEF u
<1>4. Joined(u, s, t)
  BY <1>1, <1>2, <1>3 DEF Joined
<1> QED BY <1>4 DEF u

\* The beginning of a sequence.
LEMMA Beginning ==
  ASSUME NEW s \in Seq(Piece), NEW k \in 0..Len(s)
  PROVE  /\ SubSeq(s, 1, k) \in Seq(Piece) /\ Len(SubSeq(s, 1, k)) = k
         /\ \A i \in 1..k : SubSeq(s, 1, k)[i] = s[i]
<1>1. Len(s) \in Nat /\ \A i \in 1..Len(s) : s[i] \in Piece
  BY ElementOfSeq, LenProperties
<1>2. \A i \in 1..k : s[i] \in Piece
  BY <1>1
<1>3. /\ SubSeq(s, 1, k) \in Seq(Piece)
      /\ Len(SubSeq(s, 1, k)) = IF 1 <= k THEN k - 1 + 1 ELSE 0
      /\ \A i \in 1..(k - 1 + 1) : SubSeq(s, 1, k)[i] = s[1 + i - 1]
  BY <1>2, SubSeqProperties
<1> QED BY <1>1, <1>3

\* Its end.
LEMMA Ending ==
  ASSUME NEW s \in Seq(Piece), NEW k \in 0..Len(s)
  PROVE  LET r == SubSeq(s, k + 1, Len(s))
         IN  /\ r \in Seq(Piece) /\ Len(r) = Len(s) - k
             /\ \A i \in 1..(Len(s) - k) : r[i] = s[k + i]
<1> DEFINE r == SubSeq(s, k + 1, Len(s))
<1>1. Len(s) \in Nat /\ \A i \in 1..Len(s) : s[i] \in Piece
  BY ElementOfSeq, LenProperties
<1>2. \A i \in (k + 1)..Len(s) : s[i] \in Piece
  BY <1>1
<1>3. /\ r \in Seq(Piece)
      /\ Len(r) = IF k + 1 <= Len(s) THEN Len(s) - (k + 1) + 1 ELSE 0
      /\ \A i \in 1..(Len(s) - (k + 1) + 1) : r[i] = s[(k + 1) + i - 1]
  BY <1>1, <1>2, SubSeqProperties
<1> HIDE DEF r
<1>4. r \in Seq(Piece) /\ Len(r) = Len(s) - k /\ \A i \in 1..(Len(s) - k) : r[i] = s[k + i]
  BY <1>1, <1>3
<1> QED BY <1>4 DEF r

\* A read moves the boundary between the buffer and the stream, nothing else.
LEMMA Moved ==
  ASSUME NEW g \in Seq(Piece), NEW s \in Seq(Piece), NEW k \in 0..Len(s)
  PROVE  (g \o SubSeq(s, 1, k)) \o SubSeq(s, k + 1, Len(s)) = g \o s
<1> DEFINE a == SubSeq(s, 1, k)
           b == SubSeq(s, k + 1, Len(s))
           ab == a \o b
<1>1. a \in Seq(Piece) /\ Len(a) = k /\ \A i \in 1..k : a[i] = s[i]
  BY Beginning
<1>2. b \in Seq(Piece) /\ Len(b) = Len(s) - k /\ \A i \in 1..(Len(s) - k) : b[i] = s[k + i]
  BY Ending
<1> HIDE DEF a, b
<1>3. Joined(ab, a, b)
  BY <1>1, <1>2, Joining, Zenon
<1>4. ab = s
  <2> HIDE DEF ab
  <2>1. Len(s) \in Nat
    BY LenProperties
  <2>2. ab \in Seq(Piece) /\ Len(ab) = Len(s)
    BY <1>1, <1>2, <1>3, <2>1 DEF Joined
  <2>3. ASSUME NEW i \in 1..Len(ab) PROVE ab[i] = s[i]
    <3>1. CASE i <= k
      BY <1>1, <1>3, <2>1, <2>2, <3>1 DEF Joined
    <3>2. CASE ~(i <= k)
      <4>1. i - k \in 1..(Len(s) - k) /\ k + (i - k) = i
        BY <2>1, <2>2, <3>2
      <4>2. ab[k + (i - k)] = b[i - k]
        BY <1>1, <1>2, <1>3, <4>1 DEF Joined
      <4> QED BY <1>2, <4>1, <4>2
    <3> QED BY <3>1, <3>2
  <2> QED BY <2>2, <2>3, SeqEqual
<1>5. (g \o a) \o b = g \o ab
  <2>1. a \in Seq(Piece) /\ b \in Seq(Piece)
    BY <1>1, <1>2
  <2>2. (g \o a) \o b = g \o (a \o b)
    BY <2>1, ConcatAssociative
  <2> QED BY <2>2
<1> QED BY <1>4, <1>5 DEF a, b

\* What arrives of an answer when the connection ends.
LEMMA ExchangePrefix ==
  ASSUME NEW x \in Seq(Piece), NEW id, NEW whole, Exchange(x, id, whole), NEW k \in 0..Len(x),
         NEW y \in Seq(Piece), Len(y) = k, \A i \in 1..k : y[i] = x[i]
  PROVE  Exchange(y, id, FALSE)
<1>1. Len(x) \in Nat
  BY LenProperties
<1>2. k > 0 => 1 \in 1..k /\ y[1] = x[1] /\ Len(x) > 0
  BY <1>1
<1>3. ASSUME k > 0, x[1].kind = "lenHead" PROVE k <= 1 + x[1].n
  <2>1. x[1].n \in Nat
    <3>1. x[1] \in Piece
      BY <1>1, <1>2, <1>3, ElementOfSeq
    <3> QED BY <3>1 DEF Piece
  <2> QED BY <1>1, <1>2, <1>3, <2>1 DEF Exchange
<1>4. ASSUME k > 0, x[1].kind = "chunkHead", NEW i \in 1..k
      PROVE  y[i].kind # "mark" /\ (y[i].kind = "last" => i = k)
  <2>1. i \in 1..Len(x) /\ y[i] = x[i] /\ (i = Len(x) => i = k)
    BY <1>1
  <2> QED BY <1>2, <1>4, <2>1 DEF Exchange
<1>5. \A i \in 1..k : y[i].id = id
  BY <1>1 DEF Exchange
<1>6. k > 0 => y[1].kind \in Heads
  BY <1>2 DEF Exchange
<1> QED BY <1>2, <1>3, <1>4, <1>5, <1>6 DEF Exchange

\* An answer is a whole exchange, if no chunk of it contains the mark.
LEMMA ResponseWhole ==
  ASSUME NEW id \in Nat, NEW framing \in Heads, NEW len \in Nat,
         NEW kinds \in [1..len -> Pieces],
         framing = "chunkHead" => \A j \in 1..len : kinds[j] # "mark"
  PROVE  Exchange(Response(id, framing, kinds), id, TRUE)
<1> DEFINE h == [id |-> id, kind |-> framing, n |-> IF framing = "lenHead" THEN Len(kinds) ELSE 0]
           z == [id |-> id, kind |-> "last", n |-> 0]
           head == <<h>>
           body == Body(id, kinds)
           end  == IF framing = "chunkHead" THEN <<z>> ELSE <<>>
           hb   == head \o body
           r    == hb \o end
<1>1. kinds \in Seq(Pieces) /\ Len(kinds) = len /\ DOMAIN kinds = 1..len
  BY SeqDef, LenProperties
<1>2. body \in Seq(Piece) /\ Len(body) = len
      /\ \A j \in 1..len : body[j] = [id |-> id, kind |-> kinds[j], n |-> 0]
  <2>1. \A j \in 1..len : [id |-> id, kind |-> kinds[j], n |-> 0] \in Piece
    BY PiecesAssumption DEF Piece
  <2>2. body = [j \in 1..len |-> [id |-> id, kind |-> kinds[j], n |-> 0]]
    BY <1>1 DEF Body
  <2> HIDE DEF body
  <2>3. body \in [1..len -> Piece]
    BY <2>1, <2>2
  <2>4. body \in Seq(Piece)
    BY <2>3, SeqDef
  <2>5. Len(body) = len
    BY <2>3, <2>4, LenProperties
  <2> QED BY <2>2, <2>4, <2>5
<1>3. h \in Piece /\ z \in Piece
  BY <1>1 DEF Piece, Heads
<1>4. Response(id, framing, kinds) = r
  BY DEF Response
<1>5. h.id = id /\ h.kind = framing /\ (framing = "lenHead" => h.n = len)
      /\ z.id = id /\ z.kind = "last"
  BY <1>1
<1> HIDE DEF h, z, body
<1>6. head \in Seq(Piece) /\ Len(head) = 1 /\ head[1] = h
  BY <1>3
<1>7. /\ end \in Seq(Piece)
      /\ framing = "chunkHead" => Len(end) = 1 /\ end[1] = z
      /\ framing # "chunkHead" => Len(end) = 0
  <2>1. CASE framing = "chunkHead"
    BY <1>3, <2>1
  <2>2. CASE framing # "chunkHead"
    BY <2>2, EmptySeq
  <2> QED BY <2>1, <2>2
<1> HIDE DEF head, end
<1>8. Joined(hb, head, body)
  BY <1>2, <1>6, Joining, Zenon
<1>9. hb \in Seq(Piece)
  BY <1>8 DEF Joined
<1>10. Joined(r, hb, end)
  <2> HIDE DEF hb
  <2> QED BY <1>7, <1>9, Joining, Zenon
<1> HIDE DEF hb, r
<1>11. /\ Len(hb) = len + 1 /\ hb[1] = h
       /\ \A i \in 1..len : hb[1 + i] = body[i]
  <2>1. Len(hb) = 1 + len /\ \A i \in 1..1 : hb[i] = head[i]
    BY <1>2, <1>6, <1>8 DEF Joined
  <2>2. \A i \in 1..len : hb[1 + i] = body[i]
    BY <1>2, <1>6, <1>8 DEF Joined
  <2> QED BY <1>6, <2>1, <2>2
<1>12. /\ Len(r) = len + 1 + Len(end) /\ r[1] = h
       /\ \A i \in 1..len : r[1 + i] = body[i]
       /\ framing = "chunkHead" => Len(r) = len + 2 /\ r[len + 2] = z
       /\ framing # "chunkHead" => Len(r) = len + 1
  <2>1. Len(r) = (len + 1) + Len(end) /\ \A i \in 1..(len + 1) : r[i] = hb[i]
    BY <1>10, <1>11 DEF Joined
  <2>2. r[1] = h
    BY <1>11, <2>1
  <2>3. ASSUME NEW i \in 1..len PROVE r[1 + i] = body[i]
    BY <1>11, <2>1
  <2>4. ASSUME framing = "chunkHead" PROVE Len(r) = len + 2 /\ r[len + 2] = z
    <3>0. Len(end) = 1 /\ end[1] = z
      BY <1>7, <2>4, Zenon
    <3>1. Len(end) = 1 /\ end[1] = z /\ 1 \in 1..Len(end)
      BY <3>0
    <3>2. r[Len(hb) + 1] = end[1]
      BY <1>10, <3>1 DEF Joined
    <3>3. Len(hb) + 1 = len + 2 /\ Len(r) = len + 2
      BY <1>11, <2>1, <3>1
    <3> QED BY <3>1, <3>2, <3>3
  <2>5. framing # "chunkHead" => Len(r) = len + 1
    BY <1>7, <2>1
  <2> QED BY <2>1, <2>2, <2>3, <2>4, <2>5
<1>13. \A i \in 1..Len(r) :
         \/ i = 1
         \/ i - 1 \in 1..len /\ r[i] = body[i - 1]
         \/ framing = "chunkHead" /\ i = len + 2
  <2> TAKE i \in 1..Len(r)
  <2>1. CASE i # 1 /\ i <= len + 1
    <3>1. i - 1 \in 1..len /\ 1 + (i - 1) = i
      BY <2>1
    <3> QED BY <1>12, <3>1
  <2>2. CASE i = 1 \/ ~(i <= len + 1)
    BY <1>12, <2>2
  <2> QED BY <2>1, <2>2
<1>14. \A i \in 1..Len(r) : r[i].id = id
  BY <1>2, <1>5, <1>12, <1>13
<1>15. framing = "chunkHead" =>
         \A i \in 1..Len(r) : r[i].kind # "mark" /\ (r[i].kind = "last" => i = Len(r))
  <2> SUFFICES ASSUME framing = "chunkHead", NEW i \in 1..Len(r)
               PROVE  r[i].kind # "mark" /\ (r[i].kind = "last" => i = Len(r))
    OBVIOUS
  <2>1. CASE i = 1
    BY <1>5, <1>12, <2>1
  <2>2. CASE i - 1 \in 1..len /\ r[i] = body[i - 1]
    <3>1. r[i].kind = kinds[i - 1] /\ kinds[i - 1] \in Pieces
      BY <1>2, <2>2
    <3>2. kinds[i - 1] # "mark" /\ kinds[i - 1] # "last"
      BY <2>2, <3>1, PiecesAssumption
    <3> QED BY <3>1, <3>2
  <2>3. CASE i = len + 2
    BY <1>5, <1>12, <2>3
  <2> QED BY <1>13, <2>1, <2>2, <2>3
<1>16. Len(r) > 0 /\ r[1].kind = framing /\ (framing = "lenHead" => r[1].n = len)
  BY <1>5, <1>7, <1>12 DEF Heads
<1>17. /\ framing = "lenHead" => Len(r) = 1 + r[1].n
       /\ framing = "chunkHead" => r[Len(r)].kind = "last"
  BY <1>5, <1>12, <1>16
<1>18. framing = "lenHead" => Len(r) <= 1 + r[1].n
  BY <1>12, <1>16
<1>19. Exchange(r, id, TRUE)
  BY <1>14, <1>15, <1>16, <1>17, <1>18 DEF Exchange
<1> QED BY <1>4, <1>19

\* The header block of an exchange is its first piece.
LEMMA HeaderIsFirst ==
  ASSUME NEW x \in Seq(Piece), Len(x) > 0, x[1].kind \in Heads
  PROVE  HeaderEnds(x) # {} /\ HeaderAt(x) = 1
<1>1. 1 \in HeaderEnds(x)
  BY LenProperties DEF HeaderEnds, Found
<1>2. \A i \in HeaderEnds(x) : i \in Nat /\ 1 <= i
  BY LenProperties DEF HeaderEnds, Found
<1>3. HeaderAt(x) \in HeaderEnds(x) /\ \A j \in HeaderEnds(x) : HeaderAt(x) <= j
  BY <1>1, <1>2 DEF HeaderAt
<1> QED BY <1>1, <1>2, <1>3

\* The body loops stop at the end of an exchange, not before and not behind it.
LEMMA BodyDoneAtEnd ==
  ASSUME NEW b \in Seq(Piece), NEW s \in Seq(Piece), NEW id, NEW whole, Len(b) > 0,
         Exchange(b \o s, id, whole), BodyDone(b)
  PROVE  s = <<>>
<1> DEFINE x == b \o s
<1>1. Joined(x, b, s)
  BY Joining, Zenon
<1>2. Exchange(x, id, whole)
  OBVIOUS
<1> HIDE DEF x
<1>3. /\ Len(x) = Len(b) + Len(s) /\ Len(b) \in Nat /\ Len(s) \in Nat /\ Len(x) > 0
      /\ \A i \in 1..Len(b) : x[i] = b[i]
  BY <1>1 DEF Joined
<1>4. x[1] = b[1] /\ b[1].kind \in Heads
  BY <1>2, <1>3 DEF Exchange
<1>5. HeaderAt(b) = 1
  BY <1>4, HeaderIsFirst
<1>6. CASE b[1].kind = "chunkHead"
  <2>1. Found(b, 2, {"mark", "last"}) # {}
    BY <1>5, <1>6 DEF BodyDone
  <2>2. PICK i \in 2..Len(b) : b[i].kind \in {"mark", "last"}
    BY <2>1 DEF Found
  <2>3. i \in 1..Len(x) /\ x[i] = b[i]
    BY <1>3
  <2>4. i = Len(x)
    BY <1>2, <1>3, <1>4, <1>6, <2>2, <2>3 DEF Exchange
  <2>5. Len(s) = 0
    BY <1>3, <2>4
  <2> QED BY <2>5, EmptySeq
<1>7. CASE b[1].kind = "lenHead"
  <2>1. Len(b) - 1 >= b[1].n
    BY <1>5, <1>7 DEF BodyDone
  <2>2. Len(x) <= 1 + b[1].n
    BY <1>2, <1>3, <1>4, <1>7 DEF Exchange
  <2>3. b[1].n \in Nat
    <3>1. b[1] \in Piece
      BY <1>3, ElementOfSeq
    <3> QED BY <3>1 DEF Piece
  <2>4. Len(s) = 0
    BY <1>3, <2>1, <2>2, <2>3
  <2> QED BY <2>4, EmptySeq
<1> QED BY <1>4, <1>6, <1>7 DEF Heads

\* What the end of the connection leaves of an exchange.
LEMMA CutShort ==
  ASSUME NEW b \in Seq(Piece), NEW s \in Seq(Piece), NEW id, NEW whole,
         Exchange(b \o s, id, whole), NEW k \in 0..Len(s)
  PROVE  Exchange(b \o SubSeq(s, 1, k), id, FALSE)
<1> DEFINE a == SubSeq(s, 1, k)
           x == b \o s
           y == b \o a
<1>1. a \in Seq(Piece) /\ Len(a) = k /\ \A i \in 1..k : a[i] = s[i]
  BY Beginning
<1>2. Joined(x, b, s)
  BY Joining, Zenon
<1> HIDE DEF a
<1>3. Joined(y, b, a)
  BY <1>1, Joining, Zenon
<1>4. Exchange(x, id, whole)
  OBVIOUS
<1> HIDE DEF x, y
<1>5. /\ x \in Seq(Piece) /\ y \in Seq(Piece) /\ Len(b) \in Nat /\ Len(s) \in Nat
      /\ Len(x) = Len(b) + Len(s) /\ Len(y) = Len(b) + k
  BY <1>1, <1>2, <1>3 DEF Joined
<1>6. ASSUME NEW i \in 1..Len(y) PROVE y[i] = x[i]
  <2>1. CASE i <= Len(b)
    BY <1>2, <1>3, <1>5, <2>1 DEF Joined
  <2>2. CASE ~(i <= Len(b))
    <3> DEFINE j == i - Len(b)
    <3>1. j \in 1..k /\ j \in 1..Len(s) /\ i = Len(b) + j
      BY <1>5, <2>2
    <3> HIDE DEF j
    <3>2. y[Len(b) + j] = a[j] /\ x[Len(b) + j] = s[j]
      BY <1>1, <1>2, <1>3, <3>1 DEF Joined
    <3> QED BY <1>1, <3>1, <3>2
  <2> QED BY <2>1, <2>2
<1>7. Len(y) \in 0..Len(x)
  BY <1>5
<1>8. Exchange(y, id, FALSE)
  BY <1>4, <1>5, <1>6, <1>7, ExchangePrefix
<1> QED BY <1>8 DEF a, y

\* Only one thread is inside, so only its place matters.
LEMMA OthersOutside ==
  ASSUME Inv, NEW t \in Threads, Inside(t), NEW s \in Threads \ {t}
  PROVE  ~Inside(s)
BY DEF Inv, LockInv

LEMMA OutsidePlace ==
  ASSUME NEW s \in Threads, pc[s] \in Locations, ~Inside(s), got[s] = <<>>
  PROVE  Place(s)
BY DEF Place, Inside, Locked, Locations

\* Replies that have been given stay right.
LEMMA RepliesKept ==
  ASSUME StreamInv, taint = {}, conn' = "up" => conn = "up",
         NEW t \in Threads, reply'[t] = reply[t], reply'[t] # NoReply
  PROVE  Own(reply'[t]) /\ (conn' = "up" => Whole(reply'[t]))
BY DEF StreamInv, PairedReply

\* A step of the thread inside, or of the one that enters: the others stay out.
LEMMA StepInside ==
  ASSUME StreamInv, TypeOK', NEW t \in Threads,
         \A s \in Threads \ {t} : ~Inside(s)' /\ got'[s] = <<>> /\ reply'[s] = reply[s],
         conn' = conn,
         conn # "up" => wire' = <<>>,
         ~Inside(t)' => got'[t] = <<>>,
         taint' = {} => /\ taint = {}
                        /\ ~Inside(t)' => Quiet'
                        /\ Place(t)'
                        /\ \/ reply'[t] = reply[t] \/ reply'[t] = NoReply
                           \/ Own(reply'[t]) /\ (conn = "up" => Whole(reply'[t]))
  PROVE  StreamInv'
<1>1. \A s \in Threads : ~Inside(s)' => got'[s] = <<>>
  OBVIOUS
<1>2. ASSUME taint' = {} PROVE \A s \in Threads : Place(s)'
  <2> SUFFICES ASSUME NEW s \in Threads PROVE Place(s)'
    OBVIOUS
  <2>1. CASE s = t
    BY <1>2, <2>1
  <2>2. CASE s # t
    <3>1. pc'[s] \in Locations /\ ~Inside(s)' /\ got'[s] = <<>>
      BY <2>2 DEF TypeOK
    <3> QED BY <3>1 DEF Place, Inside, Locked, Locations
  <2> QED BY <2>1, <2>2
<1>3. ASSUME taint' = {} PROVE PairedReply'
  <2>1. taint = {}
    BY <1>3
  <2>2. ASSUME NEW s \in Threads, reply'[s] # NoReply
        PROVE  Own(reply'[s]) /\ (conn' = "up" => Whole(reply'[s]))
    <3>1. CASE reply'[s] = reply[s]
      BY <2>1, <2>2, <3>1, RepliesKept
    <3>2. CASE reply'[s] # reply[s]
      <4>1. s = t
        BY <3>2
      <4> QED BY <1>3, <2>2, <3>2, <4>1
    <3> QED BY <3>1, <3>2
  <2> QED BY <2>2 DEF PairedReply, Own, Whole, NoReply
<1> QED BY <1>1, <1>2, <1>3 DEF StreamInv, Quiet

\* What the others are while t is inside.
LEMMA Others ==
  ASSUME Inv, StreamInv, NEW t \in Threads, Inside(t),
         pc' = [pc EXCEPT ![t] = pc'[t]], got' = [got EXCEPT ![t] = got'[t]],
         reply' = [reply EXCEPT ![t] = reply'[t]]
  PROVE  \A s \in Threads \ {t} : ~Inside(s)' /\ got'[s] = <<>> /\ reply'[s] = reply[s]
<1> SUFFICES ASSUME NEW s \in Threads \ {t}
             PROVE  ~Inside(s)' /\ got'[s] = <<>> /\ reply'[s] = reply[s]
  OBVIOUS
<1>1. ~Inside(s) /\ got[s] = <<>>
  BY OthersOutside DEF StreamInv
<1>2. pc'[s] = pc[s] /\ got'[s] = got[s] /\ reply'[s] = reply[s]
  BY DEF Inv, TypeOK
<1> QED BY <1>1, <1>2 DEF Inside

\* A thread is outside when it calls or closes a box, and stays there.
LEMMA StreamOutside ==
  ASSUME Inv, StreamInv, TypeOK', NEW t \in Threads,
         (\E p \in BOOLEAN : Start(t, p)) \/ Dismiss(t)
  PROVE  StreamInv'
<1>1. /\ pc[t] = "idle" /\ pc'[t] \in {"idle", "enter"}
      /\ UNCHANGED <<conn, got, wire, stream, taint>>
      /\ \A s \in Threads \ {t} : pc'[s] = pc[s] /\ cur'[s] = cur[s] /\ reply'[s] = reply[s]
      /\ reply'[t] = reply[t] \/ reply'[t] = NoReply
  BY DEF Start, Dismiss, Inv, TypeOK
<1>2. \A s \in Threads : Inside(s)' <=> Inside(s)
  BY <1>1 DEF Inside, Locked, Locations
<1>3. got[t] = <<>>
  BY <1>1 DEF StreamInv, Inside, Locked
<1>4. ASSUME taint = {} PROVE (\A s \in Threads : Place(s)') /\ PairedReply'
  <2>1. ASSUME NEW s \in Threads PROVE Place(s)'
    <3>1. CASE s = t
      BY <1>1, <1>3, <3>1 DEF Place
    <3>2. CASE s # t
      <4>1. Place(s)
        BY <1>4 DEF StreamInv
      <4> QED BY <1>1, <3>2, <4>1 DEF Place, Quiet, Waiting
    <3> QED BY <3>1, <3>2
  <2>2. PairedReply'
    BY <1>1, <1>4 DEF StreamInv, PairedReply
  <2> QED BY <2>1, <2>2
<1> QED BY <1>1, <1>2, <1>4 DEF StreamInv, Quiet

\* EnterCriticalSection succeeds on a quiet connection.
LEMMA StreamEnter ==
  ASSUME Inv, StreamInv, TypeOK', NEW t \in Threads, Enter(t)
  PROVE  StreamInv'
<1>1. \A s \in Threads : ~Inside(s)
  BY ThreadsAssumption DEF Enter, Inv, LockInv, Inside, Locked
<1>2. /\ UNCHANGED <<conn, cur, got, reply, wire, stream, taint>>
      /\ pc' = [pc EXCEPT ![t] = "headers"] /\ pc'[t] = "headers"
  BY DEF Enter, Inv, TypeOK
<1>3. \A s \in Threads \ {t} : ~Inside(s)'
  BY <1>1, <1>2 DEF Inside, Inv, TypeOK
<1>4. Inside(t)'
  BY <1>2 DEF Inside, Locked, Locations
<1>5. \A s \in Threads : got[s] = <<>>
  BY <1>1 DEF StreamInv
<1>6. taint = {} => Place(t)'
  BY <1>1, <1>2, <1>5 DEF StreamInv, Place, Quiet
<1> QED BY <1>2, <1>3, <1>4, <1>5, <1>6, StepInside DEF StreamInv

\* The two SSL_writes.
LEMMA StreamWrite ==
  ASSUME Inv, StreamInv, TypeOK', NEW t \in Threads, WriteHeaders(t) \/ WritePayload(t)
  PROVE  StreamInv'
<1>1. /\ pc[t] \in {"headers", "payload"} /\ pc'[t] \in {"payload", "readHead"}
      /\ pc' = [pc EXCEPT ![t] = pc'[t]]
      /\ UNCHANGED <<conn, cur, got, reply, stream, taint>>
      /\ conn # "up" => wire' = wire
  BY DEF WriteHeaders, WritePayload, Write, Inv, TypeOK
<1>2. Inside(t) /\ Inside(t)'
  BY <1>1 DEF Inside, Locked, Locations
<1>3. got' = [got EXCEPT ![t] = got'[t]] /\ reply' = [reply EXCEPT ![t] = reply'[t]]
  BY <1>1 DEF Inv, TypeOK
<1>4. \A s \in Threads \ {t} : ~Inside(s)' /\ got'[s] = <<>> /\ reply'[s] = reply[s]
  BY <1>1, <1>2, <1>3, Others
<1>5. conn # "up" => wire' = <<>>
  BY <1>1 DEF StreamInv
<1>6. ASSUME taint = {} PROVE Place(t)'
  <2>1. Place(t) /\ got[t] = <<>> /\ stream = <<>>
    BY <1>1, <1>6 DEF StreamInv, Place, Quiet
  <2>2. CASE conn # "up"
    <3>1. wire' = <<>> /\ stream' = <<>> /\ conn' # "up" /\ got'[t] = <<>>
      BY <1>1, <1>5, <2>1, <2>2
    <3>2. Exchange(stream', cur'[t].id, FALSE)
      BY <3>1 DEF Exchange
    <3> QED BY <1>1, <3>1, <3>2 DEF Place, Exchange
  <2>3. CASE conn = "up" /\ WriteHeaders(t)
    <3> DEFINE part == [id |-> cur[t].id, what |-> "headers", more |-> cur[t].payload]
    <3>1. wire = <<>> /\ wire' = Append(wire, part)
      BY <2>1, <2>3 DEF Place, Quiet, WriteHeaders, Write
    <3>2. part.id = cur[t].id /\ part.more = cur[t].payload
      OBVIOUS
    <3> HIDE DEF part
    <3>3. Len(wire') = 1 /\ wire'[1] = part
      BY <3>1
    <3>4. pc'[t] = IF cur[t].payload THEN "payload" ELSE "readHead"
      BY <2>3 DEF WriteHeaders, Inv, TypeOK
    <3>5. CASE cur[t].payload
      BY <1>1, <2>1, <3>2, <3>3, <3>4, <3>5 DEF Place
    <3>6. CASE ~cur[t].payload
      <4>1. Waiting(t)'
        BY <1>1, <2>1, <3>2, <3>3, <3>6 DEF Waiting
      <4> QED BY <1>1, <2>1, <3>4, <3>6, <4>1 DEF Place
    <3> QED BY <3>5, <3>6
  <2>4. CASE conn = "up" /\ WritePayload(t)
    <3> DEFINE part == [id |-> cur[t].id, what |-> "payload", more |-> FALSE]
    <3>1. Len(wire) = 1 /\ wire[1].more /\ wire[1].id = cur[t].id /\ wire' = Append(wire, part)
      BY <2>1, <2>4 DEF Place, WritePayload, Write
    <3>2. wire \in Seq(Part) /\ part \in Part
      BY DEF Inv, TypeOK, Part
    <3> HIDE DEF part
    <3>3. Len(wire') = 2 /\ wire'[1] = wire[1]
      <4>1. wire \in Seq(Part) /\ part \in Part /\ wire' = Append(wire, part)
        BY <3>1, <3>2
      <4>2. Len(wire') = Len(wire) + 1
        BY <4>1
      <4>3. \A i \in 1..Len(wire) : wire'[i] = wire[i]
        BY <4>1
      <4>4. 1 \in 1..Len(wire)
        BY <3>1
      <4> QED BY <3>1, <4>2, <4>3, <4>4
    <3>4. Waiting(t)'
      BY <1>1, <2>1, <3>1, <3>3 DEF Waiting
    <3>5. pc'[t] = "readHead"
      BY <2>4 DEF WritePayload, Inv, TypeOK
    <3> QED BY <1>1, <2>1, <3>4, <3>5 DEF Place
  <2> QED BY <2>2, <2>3, <2>4
<1> QED BY <1>1, <1>2, <1>4, <1>5, <1>6, StepInside

\* An early return leaves nothing behind: nothing was under way any more, or
\* the realloc that failed has tainted the stream.
LEMMA StreamEarlyReturn ==
  ASSUME Inv, StreamInv, TypeOK', NEW t \in Threads,
         WriteFails(t) \/ HeadReset(t) \/ HeadOutOfMemory(t) \/ BodyOutOfMemory(t)
  PROVE  StreamInv'
<1>1. /\ Inside(t) /\ pc' = [pc EXCEPT ![t] = "idle"] /\ got' = [got EXCEPT ![t] = <<>>]
      /\ UNCHANGED <<conn, cur, reply, wire>>
      /\ taint' = {} => taint = {} /\ stream' = stream
  BY DEF WriteFails, HeadReset, HeadOutOfMemory, BodyOutOfMemory, ReturnHolding,
         Inside, Locked, Locations
<1>2. ~Inside(t)' /\ got'[t] = <<>>
  BY <1>1 DEF Inside, Locked, Inv, TypeOK
<1>3. reply' = [reply EXCEPT ![t] = reply'[t]] /\ pc'[t] = "idle"
  BY <1>1 DEF Inv, TypeOK
<1>4. \A s \in Threads \ {t} : ~Inside(s)' /\ got'[s] = <<>> /\ reply'[s] = reply[s]
  BY <1>1, <1>2, <1>3, Others
<1>5. ASSUME taint' = {} PROVE Quiet' /\ Place(t)'
  <2>1. Place(t) /\ conn # "up" /\ (WriteFails(t) \/ HeadReset(t))
    BY <1>1, <1>5 DEF StreamInv, WriteFails, HeadReset, HeadOutOfMemory, BodyOutOfMemory
  <2>2. wire = <<>>
    BY <2>1 DEF StreamInv
  <2>3. stream = <<>>
    BY <2>1 DEF WriteFails, HeadReset, ReadFails, Place, Quiet
  <2> QED BY <1>1, <1>2, <1>3, <1>5, <2>2, <2>3 DEF Place, Quiet
<1> QED BY <1>1, <1>2, <1>4, <1>5, StepInside DEF StreamInv

\* The read loops: the first piece is the header block, and reading only moves
\* pieces from the stream to the buffer.
LEMMA StreamRead ==
  ASSUME Inv, StreamInv, TypeOK', NEW t \in Threads, ReadHead(t) \/ ReadBody(t)
  PROVE  StreamInv'
<1>1. /\ Inside(t) /\ UNCHANGED <<conn, cur, reply, wire, taint>>
      /\ pc[t] \in {"readHead", "readBody"} /\ pc'[t] \in {"readHead", "readBody"}
      /\ pc' = [pc EXCEPT ![t] = pc'[t]]
  BY DEF ReadHead, ReadBody, Inside, Locked, Locations, Inv, TypeOK
<1>2. PICK k \in 1..Len(stream) : Receive(t, k)
  BY DEF ReadHead, ReadBody
<1>3. /\ got'[t] = got[t] \o SubSeq(stream, 1, k)
      /\ stream' = SubSeq(stream, k + 1, Len(stream))
      /\ got' = [got EXCEPT ![t] = got'[t]] /\ reply' = [reply EXCEPT ![t] = reply'[t]]
      /\ got[t] \in Seq(Piece) /\ stream \in Seq(Piece) /\ got'[t] \in Seq(Piece)
  BY <1>1, <1>2 DEF Receive, Inv, TypeOK
<1>4. Inside(t)' /\ Len(stream) \in Nat /\ k \in 0..Len(stream)
  BY <1>1, <1>3, LenProperties DEF Inside, Locked, Locations
<1>5. \A s \in Threads \ {t} : ~Inside(s)' /\ got'[s] = <<>> /\ reply'[s] = reply[s]
  BY <1>1, <1>3, Others
<1>6. got'[t] \o stream' = got[t] \o stream
  <2>1. (got[t] \o SubSeq(stream, 1, k)) \o SubSeq(stream, k + 1, Len(stream)) = got[t] \o stream
    BY <1>3, <1>4, Moved, Zenon
  <2> QED BY <1>3, <2>1, Zenon
<1> DEFINE a == SubSeq(stream, 1, k)
<1>7. a \in Seq(Piece) /\ Len(a) = k /\ k > 0 /\ \A i \in 1..k : a[i] = stream[i]
  BY <1>3, <1>4, Beginning
<1> HIDE DEF a
<1>8. Joined(got'[t], got[t], a)
  BY <1>3, <1>7, Joining, Zenon DEF a
<1>9. Len(got'[t]) > 0
  BY <1>7, <1>8 DEF Joined
<1>10. ASSUME taint = {} PROVE Place(t)'
  <2>1. Place(t)
    BY <1>10 DEF StreamInv
  <2>2. CASE ReadBody(t)
    <3>1. pc[t] = "readBody" /\ pc'[t] = "readBody"
      BY <2>2 DEF ReadBody
    <3> QED BY <1>1, <1>6, <1>9, <2>1, <3>1 DEF Place
  <2>3. CASE ReadHead(t)
    <3>1. pc[t] = "readHead" /\ got[t] = <<>> /\ Len(stream) > 0
      BY <1>4, <2>1, <2>3 DEF ReadHead, Place
    <3>2. wire = <<>> /\ Exchange(stream, cur[t].id, conn = "up")
      BY <2>1, <3>1 DEF Place, Waiting
    <3>3. got'[t] \o stream' = stream
      BY <1>3, <1>6, <3>1, ConcatEmptySeq
    <3>4. got'[t] = a
      BY <1>3, <1>7, <3>1, ConcatEmptySeq DEF a
    <3>5. a[1] = stream[1] /\ stream[1].kind \in Heads
      BY <1>7, <3>1, <3>2 DEF Exchange
    <3>6. HeaderEnds(got'[t]) # {}
      BY <1>7, <3>4, <3>5, HeaderIsFirst
    <3>7. pc'[t] = "readBody"
      BY <2>3, <3>6 DEF ReadHead, Inv, TypeOK
    <3> QED BY <1>1, <1>9, <3>2, <3>3, <3>7 DEF Place
  <2> QED BY <2>2, <2>3
<1>11. conn # "up" => wire' = <<>>
  BY <1>1 DEF StreamInv
<1> QED BY <1>1, <1>4, <1>5, <1>10, <1>11, StepInside

\* SSL_read returned 0 in the header loop.
LEMMA StreamSpin ==
  ASSUME Inv, StreamInv, TypeOK', NEW t \in Threads, HeadEof(t)
  PROVE  StreamInv'
<1>1. /\ Inside(t) /\ UNCHANGED <<conn, cur, got, reply, wire, stream, taint>>
      /\ pc[t] = "readHead" /\ pc'[t] = "spin" /\ stream = <<>> /\ conn # "up"
      /\ pc' = [pc EXCEPT ![t] = pc'[t]]
  BY DEF HeadEof, ReadFails, Inside, Locked, Locations, Inv, TypeOK
<1>2. got' = [got EXCEPT ![t] = got'[t]] /\ reply' = [reply EXCEPT ![t] = reply'[t]]
  BY <1>1 DEF Inv, TypeOK
<1>3. \A s \in Threads \ {t} : ~Inside(s)' /\ got'[s] = <<>> /\ reply'[s] = reply[s]
  BY <1>1, <1>2, Others
<1>4. wire = <<>> /\ Inside(t)'
  BY <1>1 DEF StreamInv, Inside, Locked, Locations
<1>5. taint = {} => Place(t)'
  BY <1>1, <1>4 DEF StreamInv, Place, Quiet
<1> QED BY <1>1, <1>3, <1>4, <1>5, StepInside

\* return 0: the buffer holds the answer and the stream is empty.
LEMMA StreamFinish ==
  ASSUME Inv, StreamInv, TypeOK', NEW t \in Threads, Finish(t)
  PROVE  StreamInv'
<1>1. /\ Inside(t) /\ UNCHANGED <<conn, cur, wire, stream, taint>>
      /\ pc[t] = "readBody" /\ pc'[t] = "idle" /\ got'[t] = <<>>
      /\ reply'[t] = [req |-> cur[t].id, got |-> got[t]]
      /\ pc' = [pc EXCEPT ![t] = pc'[t]] /\ got' = [got EXCEPT ![t] = got'[t]]
      /\ reply' = [reply EXCEPT ![t] = reply'[t]]
  BY DEF Finish, Returned, Inside, Locked, Locations, Inv, TypeOK
<1>2. \A s \in Threads \ {t} : ~Inside(s)' /\ got'[s] = <<>> /\ reply'[s] = reply[s]
  BY <1>1, Others
<1>3. ~Inside(t)'
  BY <1>1 DEF Inside, Locked
<1>4. ASSUME taint = {}
      PROVE  /\ Quiet' /\ Place(t)'
             /\ Own(reply'[t]) /\ (conn = "up" => Whole(reply'[t]))
  <2> DEFINE b == got[t]
             r == [req |-> cur[t].id, got |-> b]
  <2>1. /\ wire = <<>> /\ Len(b) > 0 /\ Exchange(b \o stream, cur[t].id, conn = "up")
    BY <1>1, <1>4 DEF StreamInv, Place
  <2>2. b \in Seq(Piece) /\ stream \in Seq(Piece)
    BY DEF Inv, TypeOK
  <2>3. BodyDone(b) \/ (stream = <<>> /\ conn # "up")
    BY DEF Finish, ReadFails
  <2>4. stream = <<>>
    BY <2>1, <2>2, <2>3, BodyDoneAtEnd
  <2>5. Exchange(b, cur[t].id, conn = "up")
    BY <2>1, <2>2, <2>4, ConcatEmptySeq
  <2> HIDE DEF b
  <2>6. Own(r)
    BY <2>5 DEF Own, Exchange
  <2>7. conn = "up" => Whole(r)
    BY <2>1, <2>5 DEF Whole, Exchange, Heads
  <2> QED BY <1>1, <2>1, <2>4, <2>6, <2>7 DEF Quiet, Place, b
<1>5. conn # "up" => wire' = <<>>
  BY <1>1 DEF StreamInv
<1> QED BY <1>1, <1>2, <1>3, <1>4, <1>5, StepInside

\* The server answers the one request that waits.
LEMMA StreamAnswer ==
  ASSUME Inv, StreamInv, TypeOK', Answer
  PROVE  StreamInv'
<1>1. /\ conn = "up" /\ FirstRequest > 0 /\ wire # <<>>
      /\ wire' = SubSeq(wire, FirstRequest + 1, Len(wire))
      /\ UNCHANGED <<conn, pc, cur, got, reply>>
  BY DEF Answer, FirstRequest
<1>2. PICK framing \in Heads, len \in 0..MaxBody : \E kinds \in [1..len -> Pieces] :
        /\ stream' = stream \o Response(wire[1].id, framing, kinds)
        /\ taint' = IF framing = "chunkHead" /\ \E j \in 1..len : kinds[j] = "mark"
                    THEN taint \cup {"mark"} ELSE taint
  BY DEF Answer
<1>3. PICK kinds \in [1..len -> Pieces] :
        /\ stream' = stream \o Response(wire[1].id, framing, kinds)
        /\ taint' = IF framing = "chunkHead" /\ \E j \in 1..len : kinds[j] = "mark"
                    THEN taint \cup {"mark"} ELSE taint
  BY <1>2
<1>4. \A s \in Threads : Inside(s)' <=> Inside(s)
  BY <1>1 DEF Inside
<1>5. ASSUME taint' = {}
      PROVE  \E t \in Threads : /\ Inside(t) /\ Place(t)'
  <2>1. /\ taint = {}
        /\ framing = "chunkHead" => \A j \in 1..len : kinds[j] # "mark"
    BY <1>3, <1>5
  <2>2. PICK t \in Threads : Inside(t)
    BY <1>1, <2>1 DEF StreamInv, Quiet
  <2>3. Place(t)
    BY <2>1 DEF StreamInv
  <2>4. pc[t] = "readHead" /\ Waiting(t)
    <3>1. pc[t] \in {"headers", "payload", "readHead", "readBody", "spin"}
      BY <2>2 DEF Inside, Locked, Locations
    <3>2. pc[t] # "payload"
      <4>1. ASSUME pc[t] = "payload" PROVE FALSE
        <5>1. Len(wire) = 1 /\ wire[1].more
          BY <1>1, <2>3, <4>1 DEF Place
        <5>2. FirstRequest = 0
          BY <1>1, <5>1 DEF FirstRequest
        <5> QED BY <1>1, <5>2
      <4> QED BY <4>1
    <3> QED BY <1>1, <2>3, <3>1, <3>2 DEF Place, Quiet
  <2>5. wire \in Seq(Part) /\ wire[1].id = cur[t].id /\ cur[t].id \in Nat /\ stream = <<>>
    BY <2>4 DEF Waiting, Inv, TypeOK
  <2>6. FirstRequest = Len(wire)
    BY <1>1, <2>4 DEF FirstRequest, Waiting
  <2>7. wire' = <<>>
    BY <1>1, <2>5, <2>6, LenProperties, SubSeqEmpty
  <2> DEFINE resp == Response(cur[t].id, framing, kinds)
  <2>8. len \in Nat
    BY BoundsAssumption
  <2>9. resp \in Seq(Piece) /\ Exchange(resp, cur[t].id, TRUE)
    BY <2>1, <2>5, <2>8, ResponseType, ResponseWhole
  <2>10. stream' = resp
    <3>1. stream' = <<>> \o resp
      BY <1>3, <2>5
    <3> HIDE DEF resp
    <3> QED BY <2>9, <3>1, ConcatEmptySeq
  <2> HIDE DEF resp
  <2>11. got[t] = <<>>
    BY <2>3, <2>4 DEF Place
  <2>12. conn' = "up" /\ pc'[t] = "readHead" /\ got'[t] = <<>> /\ cur'[t] = cur[t]
    BY <1>1, <2>4, <2>11
  <2>13. Exchange(stream', cur'[t].id, conn' = "up")
    BY <2>9, <2>10, <2>12 DEF Exchange
  <2>14. Place(t)'
    BY <2>7, <2>12, <2>13 DEF Place, Exchange
  <2> QED BY <2>2, <2>14
<1>6. ASSUME taint' = {} PROVE \A s \in Threads : Place(s)'
  <2>1. PICK t \in Threads : Inside(t) /\ Place(t)'
    BY <1>5, <1>6
  <2>2. ASSUME NEW s \in Threads \ {t} PROVE Place(s)'
    <3>1. ~Inside(s)
      BY <2>1, OthersOutside
    <3>2. pc'[s] \in Locations /\ ~Inside(s)' /\ got'[s] = <<>>
      BY <1>1, <1>4, <3>1 DEF StreamInv, TypeOK
    <3> QED BY <3>2 DEF Place, Inside, Locked, Locations
  <2> QED BY <2>1, <2>2
<1>7. ASSUME taint' = {} PROVE PairedReply'
  <2>1. taint = {}
    BY <1>3, <1>7
  <2> QED BY <1>1, <2>1 DEF StreamInv, PairedReply
<1>8. taint' = {} => ~(\A s \in Threads : ~Inside(s)')
  BY <1>4, <1>5
<1> QED BY <1>1, <1>4, <1>6, <1>7, <1>8 DEF StreamInv

\* The connection ends: what is left on it is the beginning of what was.
LEMMA StreamDrop ==
  ASSUME Inv, StreamInv, TypeOK', Drop
  PROVE  StreamInv'
<1>1. /\ conn' # "up" /\ wire' = <<>> /\ UNCHANGED <<pc, cur, got, reply, taint>>
  BY DEF Drop
<1>2. PICK k \in 0..Len(stream) : stream' = SubSeq(stream, 1, k)
  BY DEF Drop
<1>3. stream \in Seq(Piece) /\ Len(stream) \in Nat
  BY LenProperties DEF Inv, TypeOK
<1>4. stream = <<>> => stream' = <<>>
  BY <1>2, <1>3, SubSeqEmpty
<1>5. /\ stream' \in Seq(Piece) /\ Len(stream') = k
      /\ \A i \in 1..k : stream'[i] = stream[i]
  BY <1>2, <1>3, Beginning
<1>6. \A s \in Threads : Inside(s)' <=> Inside(s)
  BY <1>1 DEF Inside
<1>7. ASSUME taint = {}, NEW t \in Threads PROVE Place(t)'
  <2>1. Place(t)
    BY <1>7 DEF StreamInv
  <2>2. pc[t] = "readHead" => Exchange(stream', cur[t].id, FALSE)
    <3>1. ASSUME stream = <<>> PROVE Exchange(stream', cur[t].id, FALSE)
      BY <1>4, <3>1 DEF Exchange
    <3>2. ASSUME Exchange(stream, cur[t].id, conn = "up") PROVE Exchange(stream', cur[t].id, FALSE)
      BY <1>3, <1>5, <3>2, ExchangePrefix
    <3> QED BY <2>1, <3>1, <3>2 DEF Place, Waiting
  <2>3. pc[t] = "readBody" => Exchange(got[t] \o stream', cur[t].id, FALSE)
    <3>1. got[t] \in Seq(Piece)
      BY DEF Inv, TypeOK
    <3>2. ASSUME Exchange(got[t] \o stream, cur[t].id, conn = "up")
          PROVE  Exchange(got[t] \o SubSeq(stream, 1, k), cur[t].id, FALSE)
      BY <1>3, <3>1, <3>2, CutShort
    <3> QED BY <1>2, <2>1, <3>2 DEF Place
  <2>4. \A x, id : Exchange(x, id, FALSE) => Exchange(x, id, conn' = "up")
    BY <1>1 DEF Exchange
  <2> QED BY <1>1, <1>4, <2>1, <2>2, <2>3, <2>4 DEF Place, Quiet
<1>8. ASSUME taint = {} PROVE PairedReply'
  BY <1>1, <1>8 DEF StreamInv, PairedReply
<1>9. Quiet => Quiet'
  BY <1>1, <1>4 DEF Quiet
<1> QED BY <1>1, <1>6, <1>7, <1>8, <1>9 DEF StreamInv

LEMMA StreamInit == Init => StreamInv
<1> SUFFICES ASSUME Init PROVE StreamInv
  OBVIOUS
<1>1. \A t \in Threads : pc[t] = "idle" /\ got[t] = <<>> /\ reply[t] = NoReply
  BY DEF Init
<1>2. \A t \in Threads : Place(t)
  BY <1>1 DEF Place
<1> QED BY <1>1, <1>2 DEF Init, StreamInv, Quiet, PairedReply

LEMMA StreamStep == Inv /\ StreamInv /\ [Next]_vars => StreamInv'
<1> SUFFICES ASSUME Inv, StreamInv, [Next]_vars PROVE StreamInv'
  OBVIOUS
<1>1. TypeOK'
  BY TypeStep
<1>2. ASSUME NEW t \in Threads, Call(t) PROVE StreamInv'
  BY <1>1, <1>2, StreamOutside, StreamEnter, StreamWrite, StreamEarlyReturn, StreamRead,
     StreamSpin, StreamFinish DEF Call, Step
<1>3. CASE Answer
  BY <1>1, <1>3, StreamAnswer
<1>4. CASE Drop
  BY <1>1, <1>4, StreamDrop
<1>5. CASE UNCHANGED vars
  <2>1. UNCHANGED <<conn, pc, cur, got, reply, wire, stream, taint>>
    BY <1>5 DEF vars
  <2>2. \A t \in Threads : (Place(t)' <=> Place(t)) /\ (Inside(t)' <=> Inside(t))
    BY <2>1 DEF Place, Quiet, Waiting, Inside
  <2>3. PairedReply' <=> PairedReply
    BY <2>1 DEF PairedReply
  <2> QED BY <2>1, <2>2, <2>3 DEF StreamInv, Quiet
<1> QED BY <1>2, <1>3, <1>4, <1>5 DEF Next

LEMMA SpecStream == Spec => []StreamInv
BY SpecInv, StreamInit, StreamStep, PTL DEF Spec

-----------------------------------------------------------------------------
(* Theorems.                                                                *)

\* Every variable keeps its type; in particular the lock count never goes
\* below zero, so no LeaveCriticalSection is without its Enter.
THEOREM TypeCorrect == Spec => []TypeOK
<1>1. Inv => TypeOK
  BY DEF Inv
<1> QED BY <1>1, SpecInv, PTL

\* However many threads share the connection, and however many failed requests
\* are suspended in message boxes, only one is ever between Enter and Leave.
THEOREM Exclusive == Spec => []OneThreadOnWire
<1>1. Inv => OneThreadOnWire
  BY DEF Inv, LockInv, OneThreadOnWire
<1> QED BY <1>1, SpecInv, PTL

\* Only a broken connection or a failed realloc leaves the lock held.
THEOREM LeakHasCause == Spec => []LeakOnlyAfterFault
<1>1. Inv => LeakOnlyAfterFault
  BY DEF Inv, LockInv
<1> QED BY <1>1, SpecInv, PTL

\* A connection nobody owns carries nothing of an earlier request, as long as
\* no mark and no failed realloc disturbed the stream.
THEOREM FreeIsQuiet == Spec => []FreeMeansQuiet
<1>1. Inv /\ StreamInv => FreeMeansQuiet
  BY ThreadsAssumption DEF Inv, LockInv, StreamInv, FreeMeansQuiet, Quiet
<1> QED BY <1>1, SpecInv, SpecStream, PTL

\* SendHTTPRequest returns the pieces of the answer to its own request, and all
\* of them unless the connection ended under the body loop.
THEOREM RepliesPaired == Spec => []PairedReply
<1>1. StreamInv => PairedReply
  BY DEF StreamInv, PairedReply
<1> QED BY <1>1, SpecStream, PTL

\* What one step does to a leaked lock: it stays with the same thread.
LEMMA LeakStep ==
  ASSUME Inv, [Next]_vars, NEW u \in Threads, LeakedBy(u)
  PROVE  LeakedBy(u)'
<1>0. TypeOK /\ LockInv /\ owner = u /\ owner # NoThread
  BY ThreadsAssumption DEF Inv, LeakedBy
<1>1. ASSUME NEW t \in Threads, UNCHANGED <<owner, depth>>, pc' = [pc EXCEPT ![t] = pc'[t]],
             Inside(t)' => Inside(t)
      PROVE  LeakedBy(u)'
  <2>1. Inside(u)' => Inside(u)
    <3>1. CASE u = t
      BY <1>1, <3>1
    <3>2. CASE u # t
      BY <1>0, <1>1, <3>2 DEF Inside, TypeOK
    <3> QED BY <3>1, <3>2
  <2> QED BY <1>0, <1>1, <2>1 DEF LeakedBy, TypeOK
<1>2. ASSUME NEW t \in Threads, Enter(t) PROVE LeakedBy(u)'
  <2>1. t = u /\ owner' = u /\ depth' = depth + 1
    BY <1>0, <1>2 DEF Enter
  <2>2. depth > 0
    BY <1>0 DEF LeakedBy, TypeOK
  <2> QED BY <1>0, <2>1, <2>2 DEF LeakedBy, TypeOK
<1>3. ASSUME NEW t \in Threads, Finish(t) PROVE LeakedBy(u)'
  <2>1. Inside(t)
    BY <1>3 DEF Finish, Inside, Locked, Locations
  <2>2. t = u /\ depth > 1
    BY <1>0, <2>1, InsideHolds DEF LeakedBy
  <2>3. owner' = u /\ depth' = depth - 1 /\ ~Inside(u)'
    BY <1>0, <1>3, <2>2 DEF Finish, Returned, Inside, Locked, TypeOK
  <2> QED BY <1>0, <2>2, <2>3 DEF LeakedBy, TypeOK
<1>4. ASSUME NEW t \in Threads, NEW p \in BOOLEAN, Start(t, p) PROVE LeakedBy(u)'
  BY <1>0, <1>1, <1>4 DEF Start, TypeOK, Inside, Locked
<1>5. ASSUME NEW t \in Threads, WriteHeaders(t) PROVE LeakedBy(u)'
  BY <1>0, <1>1, <1>5 DEF WriteHeaders, Write, TypeOK, Inside, Locked, Locations
<1>6. ASSUME NEW t \in Threads, WritePayload(t) PROVE LeakedBy(u)'
  BY <1>0, <1>1, <1>6 DEF WritePayload, Write, TypeOK, Inside, Locked, Locations
<1>7. ASSUME NEW t \in Threads, pc' = [pc EXCEPT ![t] = "idle"], UNCHANGED <<owner, depth>>
      PROVE  LeakedBy(u)'
  BY <1>0, <1>1, <1>7 DEF TypeOK, Inside, Locked
<1>8. ASSUME NEW t \in Threads,
             WriteFails(t) \/ HeadReset(t) \/ HeadOutOfMemory(t) \/ BodyOutOfMemory(t)
      PROVE  LeakedBy(u)'
  BY <1>7, <1>8 DEF WriteFails, HeadReset, HeadOutOfMemory, BodyOutOfMemory, ReturnHolding
<1>9. ASSUME NEW t \in Threads, ReadHead(t) PROVE LeakedBy(u)'
  BY <1>0, <1>1, <1>9 DEF ReadHead, TypeOK, Inside, Locked, Locations
<1>10. ASSUME NEW t \in Threads, HeadEof(t) PROVE LeakedBy(u)'
  BY <1>0, <1>1, <1>10 DEF HeadEof, TypeOK, Inside, Locked, Locations
<1>11. CASE UNCHANGED <<owner, depth, pc>>
  BY <1>0, <1>11 DEF LeakedBy, Inside
<1>12. ASSUME NEW t \in Threads, ReadBody(t) \/ Dismiss(t) PROVE LeakedBy(u)'
  BY <1>11, <1>12 DEF ReadBody, Dismiss
<1>13. CASE Answer \/ Drop \/ UNCHANGED vars
  BY <1>11, <1>13 DEF Answer, Drop, vars
<1> QED BY <1>2, <1>3, <1>4, <1>5, <1>6, <1>8, <1>9, <1>10, <1>12, <1>13
        DEF Next, Call, Step

\* A lock kept by an early return is never released again.
THEOREM LeakPersists == Spec => LeakIsForever
<1>1. Inv /\ [Next]_vars => [\A t \in Threads : LeakedBy(t) => LeakedBy(t)']_vars
  BY LeakStep
<1> QED BY <1>1, SpecInv, PTL DEF Spec, LeakIsForever

-----------------------------------------------------------------------------
(* The refinement.                                                          *)

Leaked == \E t \in Threads : LeakedBy(t)

\* Steps of the service that a step of the code can be, from what it does to
\* the owner and to the leak.
LEMMA ServiceStep == Inv /\ [Next]_vars => [Service!Next]_(Service!vars)
<1> SUFFICES ASSUME Inv, [Next]_vars PROVE [Service!Next]_(Service!vars)
  OBVIOUS
<1>0. TypeOK /\ LockInv
  BY DEF Inv
<1>1. CASE Leaked
  <2>1. PICK u \in Threads : LeakedBy(u)
    BY <1>1 DEF Leaked
  <2>2. LeakedBy(u)'
    BY <2>1, LeakStep
  <2>3. owner = u /\ owner' = u /\ Leaked'
    BY <2>1, <2>2 DEF LeakedBy, Leaked
  <2> QED BY <1>1, <2>3 DEF Service!vars, Leaked
<1>2. CASE ~Leaked /\ UNCHANGED owner /\ ~Leaked'
  BY <1>2 DEF Service!vars, Leaked
<1>3. CASE ~Leaked /\ UNCHANGED owner /\ Leaked'
  <2>1. PICK u \in Threads : LeakedBy(u)'
    BY <1>3 DEF Leaked
  <2>2. owner = u
    BY <1>3, <2>1 DEF LeakedBy
  <2> QED BY <1>3, <2>2 DEF Service!Next, Service!Abandon, Leaked
<1>4. ASSUME ~Leaked, NEW t \in Threads, Enter(t) PROVE [Service!Next]_(Service!vars)
  <2>1. owner = NoThread
    <3>1. owner = t => LeakedBy(t)
      BY <1>0, <1>4, ThreadsAssumption DEF Enter, LeakedBy, Inside, Locked, LockInv, TypeOK
    <3> QED BY <1>4, <3>1 DEF Enter, Leaked
  <2>2. owner' = t /\ depth' = 1
    BY <1>0, <1>4, <2>1 DEF Enter, LockInv
  <2>3. Inside(t)'
    BY <1>0, <1>4 DEF Enter, TypeOK, Inside, Locked, Locations
  <2>4. ~Leaked'
    BY <2>2, <2>3 DEF Leaked, LeakedBy
  <2> QED BY <1>4, <2>1, <2>2, <2>4 DEF Service!Next, Service!Take, Leaked
<1>5. ASSUME ~Leaked, NEW t \in Threads, Finish(t) PROVE [Service!Next]_(Service!vars)
  <2>1. Inside(t)
    BY <1>5 DEF Finish, Inside, Locked, Locations
  <2>2. owner = t /\ depth = 1
    BY <1>0, <1>5, <2>1, InsideHolds DEF Leaked, LeakedBy, TypeOK
  <2>3. owner' = NoThread
    BY <1>5, <2>2 DEF Finish
  <2>4. ~Leaked'
    BY <2>3, ThreadsAssumption DEF Leaked, LeakedBy
  <2> QED BY <1>5, <2>2, <2>3, <2>4 DEF Service!Next, Service!GiveBack, Leaked
<1>6. \/ UNCHANGED owner
      \/ \E t \in Threads : Enter(t) \/ Finish(t)
  <2>1. ASSUME NEW t \in Threads, Call(t), ~Enter(t), ~Finish(t) PROVE UNCHANGED owner
    BY <2>1 DEF Call, Step, Start, WriteHeaders, WritePayload, Write, WriteFails, ReadHead,
       HeadEof, HeadReset, HeadOutOfMemory, BodyOutOfMemory, ReturnHolding, ReadBody, Dismiss
  <2>2. ASSUME Answer \/ Drop \/ UNCHANGED vars PROVE UNCHANGED owner
    BY <2>2 DEF Answer, Drop, vars
  <2> QED BY <2>1, <2>2 DEF Next
<1> QED BY <1>1, <1>2, <1>3, <1>4, <1>5, <1>6

\* The connection behaves as ConnService says.
THEOREM ImplementsConnService == Spec => ImplementsService
<1>1. Init => Service!Init
  BY ThreadsAssumption DEF Init, Service!Init, LeakedBy
<1> QED BY <1>1, ServiceStep, SpecInv, PTL DEF Spec, ImplementsService, Service!Spec
=============================================================================
