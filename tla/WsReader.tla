------------------------------ MODULE WsReader ------------------------------
(***************************************************************************)
(* ReadWebSocket and the loop of WSThreadProc around it (src/ws.c): how    *)
(* the frames of the server become the buffers that                        *)
(* WebSocketOnDataArrival gets.                                            *)
(*                                                                         *)
(* The stream is a sequence of units.  A frame is a core unit (FIN and     *)
(* opcode), a length unit and its payload units; what a payload unit says  *)
(* is its place in the order of sending.  A length above 125 has two more  *)
(* bytes (eight above 65535), here one unit of kind "ext"; it is split     *)
(* when a TLS record ends inside it, and SSL_read then returns part of it. *)
(***************************************************************************)
EXTENDS Naturals, Sequences, FiniteSets, SequencesExt

CONSTANTS Hardships,  \* what the stream may do: "control", "split", "cut"
          MaxFrames,  \* bound: frames the server sends
          MaxLen      \* bound: payload units of a frame

ASSUME HardshipsAssumption == Hardships \subseteq {"control", "split", "cut"}
ASSUME BoundsAssumption == MaxFrames \in Nat /\ MaxLen \in Nat

VARIABLES
  link,       \* "up" or "down"
  stream,     \* units not read yet
  partial,    \* payload of a fragmented message the server has not finished
  fragmented, \* the server is in the middle of a message
  sent,       \* messages the server has finished
  nframes,    \* frames sent
  nunits,     \* payload units sent, which numbers them
  rpc,        \* reader: "core", "length", "ext", "payload", "ended" or "lost"
  opcode,     \* that of the first frame, with the FIN bit left in; or "unset"
  fin,        \* FIN of the current frame
  rest,       \* payload units of it still to be read
  buffer,     \* *out_buffer so far
  taken,      \* buffers handed to WebSocketOnDataArrival
  hurt,       \* history: hardships that have struck
  nclean      \* history: buffers handed over before any of them

server == <<partial, fragmented, sent, nframes, nunits>>
reader == <<rpc, opcode, fin, rest, buffer, taken>>
vars   == <<link, stream, server, reader, hurt, nclean>>

Unit == [kind : {"core"}, fin : BOOLEAN, op : {"text", "continuation", "control"}]
          \cup [kind : {"length"}, n : Nat, ext : BOOLEAN]
          \cup [kind : {"ext"}, n : Nat, split : BOOLEAN]
          \cup [kind : {"payload"}, id : Nat]
Opcodes == {"unset", "text", "other"}

TypeOK ==
  /\ link \in {"up", "down"}
  /\ stream \in Seq(Unit)
  /\ partial \in Seq(Nat) /\ fragmented \in BOOLEAN
  /\ sent \in Seq(Seq(Nat))
  /\ nframes \in 0..MaxFrames /\ nunits \in Nat
  /\ rpc \in {"core", "length", "ext", "payload", "ended", "lost"}
  /\ opcode \in Opcodes /\ fin \in BOOLEAN
  /\ rest \in Nat
  /\ buffer \in Seq(Nat)
  /\ taken \in Seq(Seq(Nat))
  /\ hurt \subseteq Hardships
  /\ nclean \in 0..Len(taken)

Init ==
  /\ link = "up" /\ stream = <<>>
  /\ partial = <<>> /\ fragmented = FALSE /\ sent = <<>>
  /\ nframes = 0 /\ nunits = 0
  /\ rpc = "core" /\ opcode = "unset" /\ fin = FALSE /\ rest = 0
  /\ buffer = <<>> /\ taken = <<>>
  /\ hurt = {} /\ nclean = 0

-----------------------------------------------------------------------------
(* The server and the network.                                              *)

Frame(f, op, n, ext, split) ==
  <<[kind |-> "core", fin |-> f, op |-> op], [kind |-> "length", n |-> n, ext |-> ext]>>
    \o (IF ext THEN <<[kind |-> "ext", n |-> n, split |-> split]>> ELSE <<>>)
    \o [i \in 1..n |-> [kind |-> "payload", id |-> nunits + i]]

\* One frame: of a text message, whole or fragmented, or a control frame
\* (ping, close).  A control frame between two messages is a message to this
\* reader; it may also come between two fragments, where it is a hardship.
SendFrame(f, op, n, ext, split) ==
  /\ link = "up" /\ nframes < MaxFrames
  /\ split => ext /\ "split" \in Hardships
  /\ op = "control" => f /\ (fragmented => "control" \in Hardships)
  /\ op # "control" => (op = "continuation" <=> fragmented)
  /\ stream' = stream \o Frame(f, op, n, ext, split)
  /\ nframes' = nframes + 1
  /\ nunits' = nunits + n
  /\ LET ids == [i \in 1..n |-> nunits + i]
     IN  IF op = "control" /\ fragmented
         THEN hurt' = hurt \cup {"control"} /\ UNCHANGED <<partial, fragmented, sent>>
         ELSE /\ partial' = IF f THEN <<>> ELSE partial \o ids
              /\ sent' = IF f THEN Append(sent, partial \o ids) ELSE sent
              /\ fragmented' = ~f
              /\ UNCHANGED hurt
  /\ UNCHANGED <<link, reader, nclean>>

\* The connection ends; without the hardship "cut" only between two frames.
Boundaries == {k \in 0..Len(stream) : k < Len(stream) => stream[k + 1].kind = "core"}

Drop ==
  /\ link = "up"
  /\ link' = "down"
  /\ \E k \in (IF "cut" \in Hardships THEN 0..Len(stream) ELSE Boundaries) :
       /\ stream' = SubSeq(stream, 1, k)
       /\ hurt' = IF k \in Boundaries THEN hurt ELSE hurt \cup {"cut"}
  /\ UNCHANGED <<server, reader, nclean>>

-----------------------------------------------------------------------------
(* The reader.                                                              *)

Next1 == Head(stream)
Arrived(pc, kind) == rpc = pc /\ stream # <<>> /\ Next1.kind = kind

\* SSL_read has nothing to read and never will.
ReadFails == stream = <<>> /\ link = "down"

\* opcode = (coreHeaders << 4) >> 4: computed as int, so the FIN bit stays,
\* and only the first fragment of a longer text message compares equal to 0x01.
Opcode(unit) == IF unit.op = "text" /\ ~unit.fin THEN "text" ELSE "other"

\* Variant: FIN is looked at in a byte that has lost it.
ReadCore_NoFin ==
  /\ Arrived("core", "core")
  /\ fin' = FALSE
  /\ opcode' = IF opcode = "unset" THEN Opcode(Next1) ELSE opcode
  /\ stream' = Tail(stream)
  /\ rpc' = "length"
  /\ UNCHANGED <<link, server, rest, buffer, taken, hurt, nclean>>

ReadCore ==
  /\ Arrived("core", "core")
  /\ fin' = Next1.fin
  /\ opcode' = IF opcode = "unset" THEN Opcode(Next1) ELSE opcode
  /\ stream' = Tail(stream)
  /\ rpc' = "length"
  /\ UNCHANGED <<link, server, rest, buffer, taken, hurt, nclean>>

\* return 0: WSThreadProc breaks its loop.
CoreFails ==
  /\ rpc = "core" /\ ReadFails
  /\ rpc' = "ended"
  /\ UNCHANGED <<link, stream, server, opcode, fin, rest, buffer, taken, hurt, nclean>>

ReadLength ==
  /\ Arrived("length", "length")
  /\ rest' = IF Next1.ext THEN 0 ELSE Next1.n
  /\ rpc' = IF Next1.ext THEN "ext" ELSE "payload"
  /\ stream' = Tail(stream)
  /\ UNCHANGED <<link, server, opcode, fin, buffer, taken, hurt, nclean>>

\* SSL_read(ssl, &templen, 2) and SSL_read(ssl, lenbytes, 8) may return less
\* than they were asked for, and nothing looks at what they return.  What a
\* reader makes of a stream that it is out of step with is not followed.
ReadExt ==
  /\ Arrived("ext", "ext")
  /\ rest' = Next1.n
  /\ rpc' = IF Next1.split THEN "lost" ELSE "payload"
  /\ hurt' = IF Next1.split THEN hurt \cup {"split"} ELSE hurt
  /\ stream' = Tail(stream)
  /\ UNCHANGED <<link, server, opcode, fin, buffer, taken, nclean>>

\* Nor does it look whether they failed: the length is what the variable
\* held, zero or not.
LengthFails ==
  /\ rpc \in {"length", "ext"} /\ ReadFails
  /\ rest' \in {0, 1}
  /\ rpc' = "payload"
  /\ UNCHANGED <<link, stream, server, opcode, fin, buffer, taken, hurt, nclean>>

\* One turn of the payload loop.
ReadPayload ==
  /\ Arrived("payload", "payload")
  /\ \E k \in 1..rest :
       /\ k <= Len(stream)
       /\ buffer' = buffer \o [i \in 1..k |-> stream[i].id]
       /\ stream' = SubSeq(stream, k + 1, Len(stream))
       /\ rest' = rest - k
  /\ UNCHANGED <<link, server, rpc, opcode, fin, taken, hurt, nclean>>

\* free(*out_buffer), return 0.
PayloadFails ==
  /\ rpc = "payload" /\ rest > 0 /\ ReadFails
  /\ rpc' = "ended"
  /\ UNCHANGED <<link, stream, server, opcode, fin, rest, buffer, taken, hurt, nclean>>

\* Not the last fragment: the next frame is appended to the same buffer.
NextFragment ==
  /\ rpc = "payload" /\ rest = 0 /\ ~fin
  /\ rpc' = "core"
  /\ UNCHANGED <<link, stream, server, opcode, fin, rest, buffer, taken, hurt, nclean>>

\* WebSocketOnDataArrival gets the buffer, and ReadWebSocket starts afresh.
HandOver ==
  /\ taken' = Append(taken, buffer)
  /\ rpc' = "core" /\ opcode' = "unset" /\ buffer' = <<>>
  /\ nclean' = IF hurt = {} THEN nclean + 1 ELSE nclean
  /\ UNCHANGED <<link, stream, server, fin, rest, hurt>>

\* Variant: hasSetFirstOpcode and payloadLen are static, the buffer is kept.
Deliver_KeepsBuffer ==
  /\ rpc = "payload" /\ rest = 0 /\ fin
  /\ opcode = "text" \/ buffer # <<>>
  /\ taken' = Append(taken, buffer)
  /\ rpc' = "core"
  /\ nclean' = IF hurt = {} THEN nclean + 1 ELSE nclean
  /\ UNCHANGED <<link, stream, server, opcode, buffer, fin, rest, hurt>>

\* Variant: FIN is not looked at.
Deliver_EveryFrame ==
  /\ rpc = "payload" /\ rest = 0
  /\ opcode = "text" \/ buffer # <<>>
  /\ HandOver

\* The last fragment; length counts the '\0' of a text message.
Deliver ==
  /\ rpc = "payload" /\ rest = 0 /\ fin
  /\ opcode = "text" \/ buffer # <<>>
  /\ HandOver

\* length = 0: the loop of WSThreadProc breaks.
DeliverNothing ==
  /\ rpc = "payload" /\ rest = 0 /\ fin
  /\ opcode = "other" /\ buffer = <<>>
  /\ rpc' = "ended"
  /\ UNCHANGED <<link, stream, server, opcode, fin, rest, buffer, taken, hurt, nclean>>

-----------------------------------------------------------------------------
Reader == ReadCore \/ CoreFails \/ ReadLength \/ ReadExt \/ LengthFails \/ ReadPayload
            \/ PayloadFails \/ NextFragment \/ Deliver \/ DeliverNothing

Server == \E f, ext, split \in BOOLEAN, op \in {"text", "continuation", "control"},
             n \in 0..MaxLen : SendFrame(f, op, n, ext, split)

Next == Server \/ Drop \/ Reader

Spec == Init /\ [][Next]_vars

\* The gateway thread gets the processor; neither the server nor the network
\* has to do anything.
FairSpec == Spec /\ WF_vars(Reader)

-----------------------------------------------------------------------------
(* Properties.                                                              *)

\* Whatever the stream does, the reader neither drops, repeats nor reorders
\* payload: the buffers it handed over and the one it is filling, read one
\* after the other, are the first units the server sent.
NothingSkipped ==
  LET all == FlattenSeq(taken) \o buffer
  IN  /\ Len(all) <= nunits
      /\ \A i \in 1..Len(all) : all[i] = i

\* Unless a control frame came between fragments, every buffer handed over
\* is one message, whole.  Only the last may be the beginning of one: when
\* the connection ended inside a header whose length was then taken for zero.
WholeButLast ==
  "control" \notin hurt =>
    LET n == Len(taken)
    IN  \A i \in 1..n :
          \/ i <= Len(sent) /\ taken[i] = sent[i]
          \/ /\ i = n /\ "cut" \in hurt
             /\ IsPrefix(taken[i], Append(sent, partial)[i])

\* Until a hardship strikes the messages come out whole and in order.
Pipe == INSTANCE MessagePipe WITH
          Message <- Seq(Nat),
          taken <- SubSeq(taken, 1, nclean),
          closed <- rpc = "ended"
ImplementsPipe == Pipe!Spec

\* Without a hardship every message is handed over, or the thread ends for one
\* of two reasons: the connection is down, or the next message has no bytes (an
\* empty ping is one).
AllTaken ==
  Len(taken) < Len(sent) ~>
    \/ Len(taken) = Len(sent) \/ hurt # {}
    \/ rpc = "ended" /\ (ReadFails \/ sent[Len(taken) + 1] = <<>>)
=============================================================================
