------------------------------ MODULE Gateway ------------------------------
(***************************************************************************)
(* The gateway: OpenWebSocket on the window thread, the thread it creates  *)
(* (WSThreadProc), SendWebSocket's two writes per frame, the handlers of   *)
(* WebSocketOnDataArrival and the heartbeat timer.  A frame from the       *)
(* server is one item of inbox: how ReadWebSocket assembles it is left     *)
(* out, except that an empty frame ends the thread.                        *)
(*                                                                         *)
(* A handler is the list of what is left of it to do (todo).  Four kinds   *)
(* of things take time: half a frame to send, a message box on this        *)
(* thread, a picture requested over cdncon, whose critical section the     *)
(* window thread uses too, and a call into a window of the window thread,  *)
(* which waits until that thread is in its message loop.  SetTimer(NULL,   *)
(* ...) makes a timer of the gateway thread, whose only message loops are  *)
(* its boxes.  What a request does inside the section is KeepAliveConn.    *)
(***************************************************************************)
EXTENDS Naturals, Sequences, FiniteSets

CONSTANTS MaxFrames,  \* bound: frames the server sends
          MaxTicks    \* bound: times the heartbeat interval elapses

ASSUME BoundsAssumption == MaxFrames \in Nat /\ MaxTicks \in Nat

VARIABLES
  upc,        \* window thread: "handshake", "created", "loop", "busy", "waits"
              \*   for the section of cdncon, "inside" it, or "stuck"
  upgraded,   \* the server did switch protocols
  published,  \* GatewaySSL # NULL
  link,       \* "up" or "down"
  inbox,      \* frames not read yet
  cdncon,     \* the section of cdncon: "free", or the thread that is in it
  kept,       \* a request of that thread failed and left it entered for good
  wpc,        \* gateway thread: "none", "read", "run", "inside" the section of
              \*   cdncon, "stuck", "ended" or "crashed"
  todo,       \* what its handler still has to do
  out,        \* half frames written to the socket, and payloads "lost" because
              \*   there was no memory for them
  timer,      \* the heartbeat timer exists
  due,        \* 1 while a WM_TIMER waits in the thread's queue
  shown,      \* onDiscordReady has put the user into the window
  nframes,    \* frames sent by the server
  nticks      \* intervals elapsed

ui    == <<upc, upgraded, published>>
ws    == <<wpc, todo, out, timer, due, shown>>
net   == <<link, inbox, nframes>>
cdn   == <<cdncon, kept>>
vars  == <<ui, ws, net, cdn, nticks>>

Ops    == {"heartbeat", "identify"}
Halves == {"header", "payload"}
\* An item of todo; op and via say which frame a half belongs to, and through
\* which SSL* it is sent.
Items  == [do : Halves \cup {"timer", "box", "request", "window", "show"},
           op : Ops \cup {"none"}, via : {"param", "GatewaySSL", "none"}]
Item(what) == [do |-> what, op |-> "none", via |-> "none"]
Frames == {"hello", "ready", "message", "heartbeatRequest", "reconnect",
           "close", "other", "empty"}

TypeOK ==
  /\ upc \in {"handshake", "created", "loop", "busy", "waits", "inside", "stuck"}
  /\ upgraded \in BOOLEAN /\ published \in BOOLEAN
  /\ link \in {"up", "down"}
  /\ inbox \in Seq(Frames)
  /\ cdncon \in {"free", "window", "gateway"}
  /\ kept \in BOOLEAN
  /\ wpc \in {"none", "read", "run", "inside", "stuck", "ended", "crashed"}
  /\ todo \in Seq(Items)
  /\ out \in Seq([op : Ops, half : Halves \cup {"lost"}])
  /\ timer \in BOOLEAN
  /\ due \in 0..1
  /\ shown \in BOOLEAN
  /\ nframes \in 0..MaxFrames /\ nticks \in 0..MaxTicks

Init ==
  /\ upc = "handshake" /\ upgraded = FALSE /\ published = FALSE
  /\ link = "up" /\ inbox = <<>> /\ nframes = 0
  /\ cdncon = "free" /\ kept = FALSE
  /\ wpc = "none" /\ todo = <<>> /\ out = <<>>
  /\ timer = FALSE /\ due = 0 /\ shown = FALSE
  /\ nticks = 0

Alive == wpc # "crashed"

-----------------------------------------------------------------------------
(* The window thread.                                                       *)

\* The answer to the upgrade request decides what OpenWebSocket does.
\* An answer without "101" ends in a box and return 1, which is ignored.
Refused ==
  /\ upc = "handshake"
  /\ upc' = "loop"
  /\ link' = "down"
  /\ UNCHANGED <<upgraded, published, ws, inbox, nframes, nticks, cdn>>

\* CreateThread: after a 101, after a refusal that contains "101" somewhere,
\* and when SSL_read returned nothing at all (bytes <= 0).
Upgrade ==
  /\ upc = "handshake"
  /\ \/ upgraded' = TRUE  /\ UNCHANGED link
     \/ upgraded' = FALSE /\ UNCHANGED link
     \/ upgraded' = FALSE /\ link' = "down"
  /\ upc' = "created"
  /\ wpc' = "read"
  /\ UNCHANGED <<published, todo, out, timer, due, shown, inbox, nframes, nticks, cdn>>

\* *out_ssl = ssl, and WM_CREATE ends: the window thread enters its loop.
Publish ==
  /\ upc = "created" /\ Alive
  /\ published' = TRUE
  /\ upc' = "loop"
  /\ UNCHANGED <<upgraded, ws, net, nticks, cdn>>

\* The window thread handles a message and does not dispatch others.
Handle ==
  /\ upc = "loop" /\ Alive
  /\ upc' = "busy"
  /\ UNCHANGED <<upgraded, published, ws, net, nticks, cdn>>

\* Variant: a message handler waits for the gateway thread to be idle.
Return_WaitsForGateway ==
  /\ upc = "busy" /\ Alive
  /\ todo = <<>>
  /\ upc' = "loop"
  /\ UNCHANGED <<upgraded, published, ws, net, nticks, cdn>>

Return ==
  /\ upc = "busy" /\ Alive
  /\ upc' = "loop"
  /\ UNCHANGED <<upgraded, published, ws, net, nticks, cdn>>

\* SendHTTPRequest over cdncon: EnterCriticalSection, which waits for the other
\* thread and does not mind being inside already.
WindowRequest ==
  /\ upc = "busy" /\ Alive
  /\ upc' = "waits"
  /\ UNCHANGED <<upgraded, published, ws, net, nticks, cdn>>

WindowEnters ==
  /\ upc = "waits" /\ Alive
  /\ cdncon # "gateway"
  /\ upc' = "inside" /\ cdncon' = "window"
  /\ UNCHANGED <<upgraded, published, ws, net, nticks, kept>>

\* The thread that leaves the section is out of it, unless one of its failed
\* requests never left.
Left(thread) == IF kept THEN thread ELSE "free"

WindowLeaves ==
  /\ upc = "inside" /\ Alive
  /\ upc' = "busy" /\ cdncon' = Left("window")
  /\ UNCHANGED <<upgraded, published, ws, net, nticks, kept>>

\* The early returns of SendHTTPRequest keep the section, with a message box
\* and its loop or without, and so does the read that never ends.  A request
\* over maincon, which is the window thread's alone, may not end either.
WindowFails ==
  /\ Alive
  /\ \/ upc = "inside" /\ kept' = TRUE /\ upc' \in {"loop", "busy", "stuck"}
     \/ upc = "busy" /\ upc' = "stuck" /\ UNCHANGED kept
  /\ UNCHANGED <<upgraded, published, ws, net, nticks, cdncon>>

-----------------------------------------------------------------------------
(* The gateway thread.                                                      *)

\* SendWebSocket: the frame header and the masked payload are two SSL_writes.
Send(op, via) == <<[do |-> "header", op |-> op, via |-> via],
                   [do |-> "payload", op |-> op, via |-> via]>>

\* A picture is fetched when its file is not there yet, and one that cannot be
\* read is told in a box.
Picture == {<<>>, <<Item("request")>>, <<Item("box")>>, <<Item("request"), Item("box")>>}

\* Variant: identify first, and the heartbeat when it is out.
Handler_IdentifiesFirst(frame) ==
  CASE frame = "hello"   -> {Send("identify", "param") \o Send("heartbeat", "param")
                               \o <<Item("timer")>>}
    [] frame = "ready"   -> {<<Item("show")>>}
    [] OTHER             -> {<<>>}

\* WebSocketOnDataArrival by op.  HandleREADY gets the icons of the guilds,
\* may show its box for a guild with mentions, and ends in onDiscordReady with
\* the user's avatar; a MESSAGE_CREATE may be for another channel, or is drawn
\* when its avatar is there.
Handler(frame) ==
  CASE frame = "hello"   -> {Send("heartbeat", "param") \o Send("identify", "param")
                               \o <<Item("timer")>>}
    [] frame = "ready"   -> {icons \o avatar \o <<Item("show")>> : icons, avatar \in Picture}
    [] frame = "message" -> {<<>>} \cup {avatar \o <<Item("window")>> : avatar \in Picture}
    [] frame = "heartbeatRequest" -> {Send("heartbeat", "GatewaySSL")}
    [] frame = "reconnect"        -> {<<Item("box")>>}
    [] frame = "close"            -> {<<>>, <<Item("box")>>}
    [] frame = "other"            -> {<<>>}

ThreadEnds ==
  /\ wpc' = "ended"
  /\ timer' = FALSE
  /\ due' = 0

\* ReadWebSocket returned a frame; one without bytes breaks the loop.
ReadFrame ==
  /\ wpc = "read"
  /\ inbox # <<>>
  /\ inbox' = Tail(inbox)
  /\ IF Head(inbox) = "empty"
     THEN ThreadEnds /\ UNCHANGED todo
     ELSE /\ wpc' = "run"
          /\ todo' \in Handler(Head(inbox))
          /\ UNCHANGED <<timer, due>>
  /\ UNCHANGED <<ui, out, shown, link, nframes, nticks, cdn>>

\* ReadWebSocket returned 0.
ReadFails ==
  /\ wpc = "read"
  /\ inbox = <<>> /\ link = "down"
  /\ ThreadEnds
  /\ UNCHANGED <<ui, todo, out, shown, net, nticks, cdn>>

\* The handler returns to the loop of WSThreadProc.
HandlerReturns ==
  /\ wpc = "run" /\ todo = <<>>
  /\ wpc' = "read"
  /\ UNCHANGED <<ui, todo, out, timer, due, shown, net, nticks, cdn>>

Doing(what) == wpc = "run" /\ todo # <<>> /\ Head(todo).do \in what

\* The half frame at the head of todo goes through a GatewaySSL not yet set.
ThroughNull == Head(todo).do = "header" /\ Head(todo).via = "GatewaySSL" /\ ~published

\* One SSL_write that works.
SendHalf ==
  /\ Doing(Halves)
  /\ ~ThroughNull /\ link = "up"
  /\ out' = Append(out, [op |-> Head(todo).op, half |-> Head(todo).do])
  /\ todo' = Tail(todo)
  /\ UNCHANGED <<ui, wpc, timer, due, shown, net, nticks, cdn>>

\* One that does not: without its header a payload is not sent either.
SendFails ==
  /\ Doing(Halves)
  /\ ~ThroughNull /\ link = "down"
  /\ todo' = IF Head(todo).do = "header" THEN Tail(Tail(todo)) ELSE Tail(todo)
  /\ UNCHANGED <<ui, wpc, out, timer, due, shown, net, nticks, cdn>>

\* The header is out and malloc has no memory for the masked payload: the
\* function returns, and the next frame follows a header that has none.
NoMemory ==
  /\ Doing({"payload"})
  /\ link = "up"
  /\ out' = Append(out, [op |-> Head(todo).op, half |-> "lost"])
  /\ todo' = Tail(todo)
  /\ UNCHANGED <<ui, wpc, timer, due, shown, net, nticks, cdn>>

\* SSL_write(NULL, ...): what it does depends on the OpenSSL release, either
\* the process dies or the call fails.
SendNull ==
  /\ Doing(Halves)
  /\ ThroughNull
  /\ \/ wpc' = "crashed" /\ UNCHANGED todo
     \/ todo' = Tail(Tail(todo)) /\ UNCHANGED wpc
  /\ UNCHANGED <<ui, out, timer, due, shown, net, nticks, cdn>>

\* SetTimer at the end of the hello handler.
StartTimer ==
  /\ Doing({"timer"})
  /\ timer' = TRUE
  /\ todo' = Tail(todo)
  /\ UNCHANGED <<ui, wpc, out, due, shown, net, nticks, cdn>>

\* SendHTTPRequest over cdncon on this thread: it enters and leaves the section,
\* or fails in it as the window thread's requests do.
Request ==
  /\ Doing({"request"})
  /\ cdncon # "window"
  /\ wpc' = "inside" /\ cdncon' = "gateway"
  /\ UNCHANGED <<ui, todo, out, timer, due, shown, net, nticks, kept>>

RequestLeaves ==
  /\ wpc = "inside"
  /\ wpc' = "run" /\ cdncon' = Left("gateway")
  /\ todo' = Tail(todo)
  /\ UNCHANGED <<ui, out, timer, due, shown, net, nticks, kept>>

RequestFails ==
  /\ wpc = "inside"
  /\ kept' = TRUE
  /\ \/ wpc' = "run" /\ todo' \in {Tail(todo), <<Item("box")>> \o Tail(todo)}
     \/ wpc' = "stuck" /\ UNCHANGED todo
  /\ UNCHANGED <<ui, out, timer, due, shown, net, nticks, cdncon>>

\* Variant: the window calls are posted and do not wait.
WindowCall_Posts ==
  /\ Doing({"window", "show"})
  /\ shown' = (shown \/ Head(todo).do = "show")
  /\ todo' = Tail(todo)
  /\ UNCHANGED <<ui, wpc, out, timer, due, net, nticks, cdn>>

\* SendMessage, SetWindowText, UpdateWindow: done by the window thread, in its loop.
WindowCall ==
  /\ Doing({"window", "show"})
  /\ upc = "loop"
  /\ shown' = (shown \/ Head(todo).do = "show")
  /\ todo' = Tail(todo)
  /\ UNCHANGED <<ui, wpc, out, timer, due, net, nticks, cdn>>

\* The user closes the box.
CloseBox ==
  /\ Doing({"box"})
  /\ todo' = Tail(todo)
  /\ UNCHANGED <<ui, wpc, out, timer, due, shown, net, nticks, cdn>>

\* Variant: every call of the thread dispatches its timer.
Heartbeat_Anywhere ==
  /\ wpc = "run"
  /\ due = 1
  /\ due' = 0
  /\ todo' = Send("heartbeat", "GatewaySSL") \o todo
  /\ UNCHANGED <<ui, wpc, out, timer, shown, net, nticks, cdn>>

\* The loop of an open box dispatches the WM_TIMER: HeartbeatProc.
Heartbeat ==
  /\ Doing({"box"})
  /\ due = 1
  /\ due' = 0
  /\ todo' = Send("heartbeat", "GatewaySSL") \o todo
  /\ UNCHANGED <<ui, wpc, out, timer, shown, net, nticks, cdn>>

-----------------------------------------------------------------------------
(* Time, the server and the network.                                        *)

\* The interval elapses; WM_TIMER messages do not accumulate.
Elapse ==
  /\ timer /\ Alive
  /\ nticks < MaxTicks
  /\ nticks' = nticks + 1
  /\ due' = 1
  /\ UNCHANGED <<ui, wpc, todo, out, timer, shown, net, cdn>>

\* The server can tell one frame from the next up to a payload that is missing.
Heard(op) ==
  \E i \in 1..Len(out) :
    /\ out[i] = [op |-> op, half |-> "payload"]
    /\ \A j \in 1..i : out[j].half # "lost"

\* A gateway says hello first, is ready after the identify, and then has messages.
Serve(frame) ==
  /\ link = "up" /\ upgraded
  /\ nframes < MaxFrames
  /\ nframes = 0 <=> frame = "hello"
  /\ frame = "ready" => Heard("identify") /\ ~shown
  /\ frame = "message" => shown
  /\ inbox' = Append(inbox, frame)
  /\ link' = IF frame = "close" THEN "down" ELSE link
  /\ nframes' = nframes + 1
  /\ UNCHANGED <<ui, ws, nticks, cdn>>

\* The connection breaks; frames under way may be lost.
Drop ==
  /\ link = "up" /\ upc # "handshake"
  /\ link' = "down"
  /\ \E k \in 0..Len(inbox) : inbox' = SubSeq(inbox, 1, k)
  /\ UNCHANGED <<ui, ws, nframes, nticks, cdn>>

-----------------------------------------------------------------------------
WindowThread  == \/ Refused \/ Upgrade \/ Publish \/ Handle \/ Return
                 \/ WindowRequest \/ WindowEnters \/ WindowLeaves \/ WindowFails
GatewayThread == \/ ReadFrame \/ ReadFails \/ HandlerReturns \/ SendHalf \/ SendFails
                 \/ SendNull \/ StartTimer \/ RequestLeaves
World         == Elapse \/ (\E f \in Frames : Serve(f)) \/ Drop

Next == \/ WindowThread \/ GatewayThread \/ NoMemory \/ Request \/ RequestFails
        \/ WindowCall \/ CloseBox \/ Heartbeat \/ World

Spec == Init /\ [][Next]_vars

\* Both threads get the processor, and a server answers a request or the
\* request fails.  A handler of the window thread makes finitely many requests
\* and then returns to the loop.  That thread answers the calls of the other
\* each time it gets there, so a waiting call needs it there again and again,
\* not all the time; in the same way a section that is left again and again is
\* handed to the thread that waits for it.  An open box dispatches a waiting
\* timer message.  Nobody must close a box.
Fairness == /\ WF_vars(Upgrade \/ Refused) /\ WF_vars(Publish) /\ SF_vars(Return)
            /\ SF_vars(WindowEnters) /\ WF_vars(WindowLeaves \/ WindowFails)
            /\ WF_vars(GatewayThread) /\ SF_vars(Request)
            /\ SF_vars(WindowCall) /\ WF_vars(Heartbeat)

FairSpec == Spec /\ Fairness

-----------------------------------------------------------------------------
(* Properties.                                                              *)

\* On the socket a frame's payload always follows its own header, though a
\* heartbeat may be sent from the message loop of a box in the middle of
\* another handler.  Only a failed malloc leaves a header without its payload.
FramesWhole ==
  \A i \in 1..Len(out) :
    IF i % 2 = 1 THEN out[i].half = "header"
    ELSE out[i].half \in {"payload", "lost"} /\ out[i].op = out[i - 1].op

\* Once READY is in the window GatewaySSL is set: onDiscordReady waits for the
\* message loop, which the window thread enters behind *out_ssl = ssl.  So a
\* heartbeat through a NULL GatewaySSL can only be lost before that.
PublishedByReady == (shown => published) /\ (wpc = "crashed" => ~published)

\* The session goes through its stages in order: the server hears the heartbeat
\* before the identify, and the identify before READY is shown, and nothing
\* follows the end of the thread.  A session that lost a payload to malloc may
\* stop at its stage, and never skips one.
Session == INSTANCE GatewaySession WITH
  stage <- IF wpc \in {"ended", "crashed"} THEN "gone"
           ELSE IF shown THEN "ready"
           ELSE IF Heard("identify") THEN "identified"
           ELSE IF Heard("heartbeat") THEN "greeted"
           ELSE IF wpc = "none" THEN "off" ELSE "connected"
RunsSession == Session!Spec

BoxOpen == Doing({"box"})

\* A request that never ends, or a thread that waits for a section the other
\* one never leaves.
Hung ==
  \/ upc = "stuck" \/ wpc = "stuck"
  \/ kept /\ cdncon = "gateway" /\ upc = "waits"
  \/ kept /\ cdncon = "window" /\ Doing({"request"})

\* The gateway thread gets through what has arrived, though its handlers wait
\* for the window thread and share a connection with it; only a box nobody
\* closes or a failed request of one of the two keeps it.
FramesHandled ==
  inbox # <<>> ~> inbox = <<>> \/ BoxOpen \/ Hung \/ wpc \in {"ended", "crashed"}

\* A heartbeat that has become due is sent.
HeartbeatSent == due = 1 ~> due = 0
=============================================================================
