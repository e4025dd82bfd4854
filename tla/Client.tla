------------------------------- MODULE Client -------------------------------
(***************************************************************************)
(* The program as a whole: start-up with the token in the registry, the    *)
(* handlers of both threads with the connections and boxes they wait for,  *)
(* and the end.  A connection is as ConnService has it, which              *)
(* KeepAliveConn is proved to implement; a handler is the list of what is  *)
(* left of it to do.                                                       *)
(*                                                                         *)
(* The window thread dispatches messages in its loop and in its boxes.     *)
(* WM_CLOSE is one of them, so it can come while handlers are suspended.   *)
(* A run of the program may end at any time; only the registry outlives it.*)
(***************************************************************************)
EXTENDS Naturals, Sequences

CONSTANTS Window, Gateway, NoThread,
          MaxRuns,      \* bound: runs of the program
          MaxHandlers,  \* bound: handlers in a run
          MaxFaults     \* bound: requests that go wrong in a run

ASSUME ThreadsAssumption == /\ Window # Gateway /\ NoThread \notin {Window, Gateway}
                            /\ "twice" \notin {Window, Gateway}
ASSUME BoundsAssumption  == MaxRuns \in Nat \ {0} /\ MaxHandlers \in Nat /\ MaxFaults \in Nat

Threads == {Window, Gateway}
Conns   == {"maincon", "cdncon"}

VARIABLES
  registry,  \* the value "Token" of the key: "none", "good" or "bad"
  phase,     \* where WinMain is; "lost" in the loop of a closed login window
  run,       \* runs so far
  stack,     \* per thread: its handlers, the running one last
  holder,    \* per connection: who owns its critical section
  depth,     \* how often
  abandoned, \* history: a request returned without leaving it
  closed,    \* CloseHTTPConnection has freed the connections
  quitting,  \* WM_QUIT is posted
  ready,     \* READY has arrived in this run
  chosen,    \* curChannel # NULL
  handlers, faults,
  misuse,    \* what was done with freed connections
  suspended  \* history: handlers were suspended at WM_CLOSE

locks   == <<holder, depth, abandoned>>
counts  == <<handlers, faults>>
ending  == <<closed, quitting, misuse, suspended>>
session == <<ready, chosen>>
vars    == <<registry, phase, run, stack, locks, ending, session, counts>>

\* "failed" is the box inside a request, with the critical section held.
Step == [do : {"request", "inside", "failed", "spin"}, conn : Conns]
          \cup [do : {"switch", "box", "call", "shut", "quit"}]

Of(conn)   == [do |-> "request", conn |-> conn]
Do(what)   == [do |-> what]

TypeOK ==
  /\ registry \in {"none", "good", "bad"}
  /\ phase \in {"start", "login", "lost", "create", "running", "over"}
  /\ run \in 1..MaxRuns
  /\ stack \in [Threads -> Seq(Seq(Step))]
  /\ holder \in [Conns -> Threads \cup {NoThread}]
  /\ depth \in [Conns -> Nat]
  /\ abandoned \in [Conns -> BOOLEAN]
  /\ {closed, quitting, ready, chosen, suspended} \subseteq BOOLEAN
  /\ handlers \in 0..MaxHandlers /\ faults \in 0..MaxFaults
  /\ misuse \subseteq {"twice"} \cup Threads

\* What every run starts with.
Fresh ==
  [stack |-> [t \in Threads |-> <<>>], holder |-> [c \in Conns |-> NoThread],
   depth |-> [c \in Conns |-> 0], abandoned |-> [c \in Conns |-> FALSE]]

Init ==
  /\ registry = "none" /\ phase = "start" /\ run = 1
  /\ stack = Fresh.stack
  /\ holder = Fresh.holder /\ depth = Fresh.depth /\ abandoned = Fresh.abandoned
  /\ closed = FALSE /\ quitting = FALSE /\ ready = FALSE /\ chosen = FALSE
  /\ handlers = 0 /\ faults = 0 /\ misuse = {} /\ suspended = FALSE

-----------------------------------------------------------------------------
(* Start-up: WinMain, PromptToken, WM_CREATE.                               *)

Goes(to) == /\ phase' = to
            /\ UNCHANGED <<run, stack, locks, ending, session, counts>>

\* Variant: asks again for a token that the gateway has refused.
Start_AsksAgain ==
  /\ phase = "start"
  /\ Goes(IF registry = "good" THEN "create" ELSE "login")
  /\ UNCHANGED registry

\* Whatever the registry has is taken for the token.
Start ==
  /\ phase = "start"
  /\ Goes(IF registry = "none" THEN "login" ELSE "create")
  /\ UNCHANGED registry

\* The button ends the loop; what is in the field, if only "", is saved before
\* anybody has tried it.
Login ==
  /\ phase = "login"
  /\ registry' \in {"good", "bad"}
  /\ Goes("create")

\* The window is gone, WM_DESTROY returns 0, and while (ret) goes on.
CloseLogin ==
  /\ phase = "login"
  /\ Goes("lost")
  /\ UNCHANGED registry

\* DiscordHTTPConnect: a connection that fails is NULL, and read all the same.
Connect ==
  /\ phase = "create"
  /\ Goes("running") \/ Goes("over")
  /\ UNCHANGED registry

\* The user or the system ends the process.
Kill ==
  /\ phase # "over"
  /\ Goes("over")
  /\ UNCHANGED registry

Restart ==
  /\ phase = "over" /\ run < MaxRuns
  /\ phase' = "start" /\ run' = run + 1
  /\ stack' = Fresh.stack
  /\ holder' = Fresh.holder /\ depth' = Fresh.depth /\ abandoned' = Fresh.abandoned
  /\ closed' = FALSE /\ quitting' = FALSE /\ ready' = FALSE /\ chosen' = FALSE
  /\ handlers' = 0 /\ faults' = 0 /\ misuse' = {} /\ suspended' = FALSE
  /\ UNCHANGED registry

-----------------------------------------------------------------------------
(* Handlers.                                                                *)

Busy(t)      == stack[t] # <<>>
Top(t)       == stack[t][Len(stack[t])]
At(t, what)  == /\ phase = "running" /\ Busy(t)
                /\ Top(t) # <<>> /\ Head(Top(t)).do \in what
Conn(t)      == Head(Top(t)).conn

\* The handler goes on with something else, or behind its current step.
Becomes(t, todo) == stack' = [stack EXCEPT ![t][Len(stack[t])] = todo]
Proceed(t)       == Becomes(t, Tail(Top(t)))
Turn(t, what)    == Becomes(t, <<[Head(Top(t)) EXCEPT !.do = what]>> \o Tail(Top(t)))

\* The window thread dispatches messages.
InLoop == phase = "running" /\ (Busy(Window) => At(Window, {"box", "failed"}))

\* The picture of a message or a conversation: its file may be there, or
\* fetched first; it may be bad.
Picture == {<<>>, <<Of("cdncon")>>, <<Do("box")>>, <<Of("cdncon"), Do("box")>>}

\* Selecting a channel, opening the DM list, sending.
WindowHandlers == {<<Of("maincon"), Do("switch")>> \o p : p \in Picture}
                    \cup (Picture \ {<<>>}) \cup {<<Of("maincon")>>}

\* READY and MESSAGE_CREATE, which end in a window of the other thread.
GatewayHandlers == {p \o <<Do("call")>> : p \in Picture}

Begin(t, todo) ==
  /\ handlers < MaxHandlers
  /\ handlers' = handlers + 1
  /\ stack' = [stack EXCEPT ![t] = Append(@, todo)]

\* Variant: the window is still there while the connections are closed.
Input_AnyTime ==
  /\ InLoop
  /\ \E todo \in WindowHandlers :
       /\ ready /\ (todo = <<Of("maincon")>> => chosen)
       /\ Begin(Window, todo)
  /\ UNCHANGED <<registry, phase, run, locks, ending, session, faults>>

\* The user selects something READY has listed, or sends to the channel that
\* is open.  With WM_CLOSE the windows are gone.
Input ==
  /\ InLoop /\ ~closed
  /\ \E todo \in WindowHandlers :
       /\ ready /\ (todo = <<Of("maincon")>> => chosen)
       /\ Begin(Window, todo)
  /\ UNCHANGED <<registry, phase, run, locks, ending, session, faults>>

\* Enter before any channel is open: strlen(NULL).
SendNowhere ==
  /\ InLoop /\ ~closed
  /\ ~chosen
  /\ Goes("over")
  /\ UNCHANGED registry

\* A frame.  With a bad token there is one only, which ends in a box.
Receive ==
  /\ phase = "running" /\ ~Busy(Gateway)
  /\ IF registry = "good"
     THEN ready' = TRUE /\ \E todo \in GatewayHandlers : Begin(Gateway, todo)
     ELSE Begin(Gateway, <<Do("box")>>) /\ UNCHANGED ready
  /\ UNCHANGED <<registry, phase, run, locks, ending, chosen, faults>>

HandlerEnds(t) ==
  /\ phase = "running" /\ Busy(t) /\ Top(t) = <<>>
  /\ stack' = [stack EXCEPT ![t] = SubSeq(@, 1, Len(@) - 1)]
  /\ UNCHANGED <<registry, phase, run, locks, ending, session, counts>>

Switch(t) ==
  /\ At(t, {"switch"})
  /\ chosen' = TRUE
  /\ Proceed(t)
  /\ UNCHANGED <<registry, phase, run, locks, ending, ready, counts>>

\* SendMessage, UpdateWindow: served by the window thread in its loop, or not
\* at all once the windows are gone.
Call(t) ==
  /\ At(t, {"call"})
  /\ InLoop \/ closed
  /\ Proceed(t)
  /\ UNCHANGED <<registry, phase, run, locks, ending, session, counts>>

\* The user closes a box, or WM_QUIT those of the window thread.
CloseBox(t) ==
  /\ At(t, {"box"})
  /\ Proceed(t)
  /\ UNCHANGED <<registry, phase, run, locks, ending, session, counts>>

-----------------------------------------------------------------------------
(* Requests.                                                                *)

\* Variant: does not wait for the other thread.
Enter_Unchecked(t) ==
  /\ At(t, {"request"}) /\ ~closed
  /\ holder' = [holder EXCEPT ![Conn(t)] = t]
  /\ depth' = [depth EXCEPT ![Conn(t)] = @ + 1]
  /\ Turn(t, "inside")
  /\ UNCHANGED <<registry, phase, run, abandoned, ending, session, counts>>

\* EnterCriticalSection.
Enter(t) ==
  /\ At(t, {"request"}) /\ ~closed
  /\ holder[Conn(t)] \in {NoThread, t}
  /\ holder' = [holder EXCEPT ![Conn(t)] = t]
  /\ depth' = [depth EXCEPT ![Conn(t)] = @ + 1]
  /\ Turn(t, "inside")
  /\ UNCHANGED <<registry, phase, run, abandoned, ending, session, counts>>

\* Variant: the success path does not leave the critical section.
Return_KeepsLock(t) ==
  /\ At(t, {"inside"}) /\ ~closed
  /\ Proceed(t)
  /\ UNCHANGED <<registry, phase, run, locks, ending, session, counts>>

\* Variant: the critical section is left twice.
Return_LeavesTwice(t) ==
  /\ At(t, {"inside"}) /\ ~closed
  /\ depth' = [depth EXCEPT ![Conn(t)] = @ - 2]
  /\ holder' = [holder EXCEPT ![Conn(t)] = IF depth[Conn(t)] <= 2 THEN NoThread ELSE t]
  /\ Proceed(t)
  /\ UNCHANGED <<registry, phase, run, abandoned, ending, session, counts>>

\* LeaveCriticalSection, return 0.
Return(t) ==
  /\ At(t, {"inside"}) /\ ~closed
  /\ depth' = [depth EXCEPT ![Conn(t)] = @ - 1]
  /\ holder' = [holder EXCEPT ![Conn(t)] = IF depth[Conn(t)] = 1 THEN NoThread ELSE t]
  /\ Proceed(t)
  /\ UNCHANGED <<registry, phase, run, abandoned, ending, session, counts>>

\* A write that fails shows a box; a server that closes the connection keeps
\* the request in its loop for ever.
Fail(t) ==
  /\ At(t, {"inside"}) /\ ~closed
  /\ faults < MaxFaults /\ faults' = faults + 1
  /\ Turn(t, "failed") \/ Turn(t, "spin")
  /\ UNCHANGED <<registry, phase, run, locks, ending, session, handlers>>

\* Behind the box it returns as it is.
Abandon(t) ==
  /\ At(t, {"failed"}) /\ ~closed
  /\ abandoned' = [abandoned EXCEPT ![Conn(t)] = TRUE]
  /\ Proceed(t)
  /\ UNCHANGED <<registry, phase, run, holder, depth, ending, session, counts>>

\* With a freed connection a request may do anything: end the program, wait
\* for ever, or return.
UseClosed(t) ==
  /\ At(t, {"request", "inside", "failed"}) /\ closed
  /\ misuse' = misuse \cup {t}
  /\ \/ Proceed(t) /\ UNCHANGED phase
     \/ Turn(t, "spin") /\ UNCHANGED phase
     \/ phase' = "over" /\ UNCHANGED stack
  /\ UNCHANGED <<registry, run, locks, closed, quitting, suspended, session, counts>>

-----------------------------------------------------------------------------
(* The end.                                                                 *)

\* WM_CLOSE: DestroyWindow, which sends WM_DESTROY; PostQuitMessage; and the
\* statements of WM_DESTROY once more.
Close ==
  /\ InLoop /\ ~closed
  /\ suspended' = Busy(Window)
  /\ stack' = [stack EXCEPT ![Window] = Append(@, <<Do("shut"), Do("quit"), Do("shut")>>)]
  /\ UNCHANGED <<registry, phase, run, locks, closed, quitting, misuse, session, counts>>

\* DiscordHTTPClose, twice CloseHTTPConnection; locks or not.
DiscordHTTPClose ==
  /\ At(Window, {"shut"})
  /\ closed' = TRUE
  /\ misuse' = IF closed THEN misuse \cup {"twice"} ELSE misuse
  /\ \/ Proceed(Window) /\ UNCHANGED phase
     \/ closed /\ phase' = "over" /\ UNCHANGED stack
  /\ UNCHANGED <<registry, run, locks, quitting, suspended, session, counts>>

\* Variant: the loop is to end with the window.
PostQuit_Forgotten ==
  /\ At(Window, {"quit"})
  /\ Proceed(Window)
  /\ UNCHANGED <<registry, phase, run, locks, ending, session, counts>>

PostQuit ==
  /\ At(Window, {"quit"})
  /\ quitting' = TRUE
  /\ Proceed(Window)
  /\ UNCHANGED <<registry, phase, run, locks, closed, misuse, suspended, session, counts>>

\* GetMessage returns 0 and WinMain returns, wherever the other thread is.
WinMainReturns ==
  /\ phase = "running" /\ quitting /\ ~Busy(Window)
  /\ Goes("over")
  /\ UNCHANGED registry

-----------------------------------------------------------------------------
StartUp == Start \/ Login \/ CloseLogin \/ Connect \/ Restart
End     == Close \/ DiscordHTTPClose \/ PostQuit \/ WinMainReturns

Next == \/ StartUp \/ Kill \/ Input \/ SendNowhere \/ Receive \/ End
        \/ \E t \in Threads :
             \/ HandlerEnds(t) \/ Switch(t) \/ Call(t) \/ CloseBox(t)
             \/ Enter(t) \/ Return(t) \/ Fail(t) \/ Abandon(t) \/ UseClosed(t)

Spec == Init /\ [][Next]_vars

\* Both threads get the processor; a critical section that is free again and
\* again is entered; a call is served if the loop comes again and again.  A
\* box is closed by WM_QUIT, but no user has to.
Fairness ==
  /\ \A t \in Threads :
       /\ WF_vars(HandlerEnds(t) \/ Switch(t) \/ Return(t) \/ UseClosed(t))
       /\ SF_vars(Enter(t)) /\ SF_vars(Call(t))
  /\ WF_vars(DiscordHTTPClose \/ PostQuit \/ WinMainReturns)
  /\ WF_vars(quitting /\ CloseBox(Window))

FairSpec == Spec /\ Fairness

-----------------------------------------------------------------------------
(* Properties.                                                              *)

Waits(t, c) == At(t, {"request"}) /\ Conn(t) = c /\ holder[c] \notin {NoThread, t}

\* The window thread never waits for a request of the gateway thread that
\* waits for the window thread: calls are made outside of requests.  Only an
\* abandoned critical section makes them wait for each other.
WaitsHaveCause ==
  \A c \in Conns :
    Waits(Window, c) /\ At(Gateway, {"call"}) /\ holder[c] = Gateway /\ ~closed
      => abandoned[c]

\* While no run ends, each connection is used as ConnService allows.
Service(c) == INSTANCE ConnService
                WITH holder <- holder[c], abandoned <- abandoned[c]
ConnsAreServices ==
  [][phase' = "start" \/ \A c \in Conns :
       Service(c)!Next \/ UNCHANGED <<holder[c], abandoned[c]>>]_vars

\* A handler of the window thread uses the freed connections only if it was
\* suspended in a box when WM_CLOSE came.
MisuseHasCause == Window \in misuse => suspended

Spins == \E t \in Threads : At(t, {"spin"})

\* The gateway thread keeps a critical section: for good, or in a box.
Kept == (\E c \in Conns : abandoned[c] /\ holder[c] = Gateway) \/ At(Gateway, {"failed"})

\* The window thread gets back to its message loop, whatever its handlers
\* have to wait for, unless a request has gone wrong.
WindowResponds == []<>(InLoop \/ phase # "running" \/ Spins \/ Kept)

\* Closing the window ends the program, though it frees the connections twice
\* and without their locks, unless a suspended handler uses them afterwards.
CloseEnds == closed ~> phase # "running" \/ Window \in misuse

\* A token that the gateway refuses is kept: from then on no run gets to READY.
BadTokenForGood == [](registry = "bad" => []~ready)
=============================================================================
