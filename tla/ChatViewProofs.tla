--------------------------- MODULE ChatViewProofs ---------------------------
(***************************************************************************)
(* Proofs about ChatView, for any channels, any number of messages and any *)
(* depth of loads inside each other's message boxes.                       *)
(***************************************************************************)
EXTENDS ChatView, FiniteSetTheorems, SequenceTheorems, TLAPS

Places == {"emptying", "history", "refused", "clear", "clearing", "switch", "pfp", "box",
           "append", "count", "paint", "painting", "scroll"}
Boxes  == {"refused", "box"}
Early  == {"emptying", "history", "refused", "clear", "clearing", "switch"}

\* Places of a load that has a message to show.
Holding == {"box", "append", "count"}

\* The gateway thread has a message that is not in the list yet.
Carrying == gpc \in {"append", "count"}

-----------------------------------------------------------------------------
(* The inductive invariant.                                                 *)

\* A load has a switch of its own as soon as it has made it, a load that is
\* not the running one shows a box, and the one that made the last switch is
\* of the open channel.
LoadInv ==
  \A k \in 1..Depth :
    /\ loads[k].since \in 0..switches
    /\ loads[k].since = 0 <=> loads[k].pc \in Early
    /\ loads[k].pc \in Holding => loads[k].rest # <<>>
    /\ k < Depth => loads[k].pc \in Boxes
    /\ loads[k].since # 0 /\ loads[k].since = switches => loads[k].ch = curChannel
    /\ \A j \in 1..Depth : j # k /\ loads[k].since # 0 => loads[j].since # loads[k].since
    /\ \A n \in 1..Len(loads[k].rest) : loads[k].rest[n] \in 1..Len(posted)

\* The message the gateway thread is adding is the last one it has checked.
Decided ==
  Carrying =>
    /\ gmsg \in Entry /\ gmsg.from = "live" /\ gmsg.id = checked
    /\ gmsg.since \in 1..switches
    /\ gmsg.since = switches => gmsg.ch = curChannel

Before == switches = 0 => curChannel = NoChannel /\ view = <<>> /\ gpc = "idle"

Chosen ==
  \A i \in 1..Len(view) :
    /\ view[i].since \in 1..switches
    /\ view[i].since = switches => view[i].ch = curChannel

\* What a load has still to show is newer than what it has shown.
HistoryInOrder ==
  /\ \A i, j \in 1..Len(view) :
       /\ i < j /\ view[i].from = "history" /\ view[j].from = "history"
       /\ view[i].since = view[j].since
       => view[i].id < view[j].id
  /\ \A k \in 1..Depth : Ascending(loads[k].rest)
  /\ \A k \in 1..Depth : \A i \in 1..Len(view) :
       view[i].from = "history" /\ view[i].since = loads[k].since =>
         \A n \in 1..Len(loads[k].rest) : view[i].id < loads[k].rest[n]

\* What the gateway thread is adding is newer than what it has added.
LiveInOrder ==
  /\ \A i, j \in 1..Len(view) :
       i < j /\ view[i].from = "live" /\ view[j].from = "live" => view[i].id < view[j].id
  /\ \A i \in 1..Len(view) :
       view[i].from = "live" =>
         view[i].id <= checked /\ (Carrying => view[i].id < checked)

\* Unless a load is on its way to a switch, every message of the open channel
\* is shown, or in the gap, or about to be shown by one of the threads.
Accounted(i) ==
  \/ Shown(i)
  \/ i \notin snap /\ i <= atSwitch
  \/ Carrying /\ i = checked
  \/ \E k \in 1..Depth :
       loads[k].since = switches /\ \E n \in 1..Len(loads[k].rest) : loads[k].rest[n] = i

Complete ==
  (\A k \in 1..Depth : loads[k].since # 0) =>
    \A i \in 1..checked : posted[i] = curChannel => Accounted(i)

\* A selection that no other load overlaps is alone on the stack.
Alone ==
  ~overlapped =>
    /\ Depth <= 1
    /\ Depth = 0 => curChannel = picked
    /\ Depth = 1 => loads[1].ch = picked /\ (loads[1].since # 0 => curChannel = picked)

\* Until the second selection the list only grows.
Heights ==
  Selected <= 1 =>
    /\ contentHeight <= Len(view)
    /\ ~enlarged => scrollOffset <= End(Len(view))

\* So a contentHeight that is stale by the time InsertChatMessage of the gateway
\* thread sets the position is at most the height of the list.
Measured ==
  /\ gpc # "store" => goffset = 0
  /\ Selected <= 1 =>
       /\ gpc = "assign" => gheight < Len(view)
       /\ gpc = "store" => goffset <= 0 \/ goffset + gheight <= Len(view)

Inv == /\ TypeOK /\ LoadInv /\ Decided /\ Before /\ Chosen
       /\ HistoryInOrder /\ LiveInOrder /\ Complete /\ Alone /\ Heights /\ Measured

-----------------------------------------------------------------------------
(* Steps on the stack of loads.                                             *)

LEMMA LoadAt ==
  ASSUME TypeOK, NEW k \in 1..Depth
  PROVE  /\ loads[k] \in Load
         /\ loads[k].ch \in Channels /\ loads[k].rest \in Seq(Nat)
         /\ loads[k].since \in Nat /\ loads[k].pc \in Places
<1>1. loads[k] \in Load
  BY DEF TypeOK, Depth
<1> QED
  BY <1>1 DEF Load, Places

LEMMA EntryAt ==
  ASSUME TypeOK, NEW i \in 1..Len(view)
  PROVE  /\ view[i] \in Entry
         /\ view[i].id \in Nat /\ view[i].ch \in Channels /\ view[i].since \in Nat
         /\ view[i].from \in {"history", "live"}
<1>1. view[i] \in Entry
  BY DEF TypeOK
<1> QED
  BY <1>1 DEF Entry

LEMMA TopSet ==
  ASSUME TypeOK, Depth > 0, NEW e \in Load, loads' = [loads EXCEPT ![Depth] = e]
  PROVE  /\ loads' \in Seq(Load)
         /\ Depth' = Depth /\ loads'[Depth] = e
         /\ \A k \in 1..Depth : k # Depth => loads'[k] = loads[k]
BY DEF TypeOK, Depth

\* What Goto changes: the place of the running load.
LEMMA Going ==
  ASSUME TypeOK, Depth > 0, NEW q \in Places, Goto(q)
  PROVE  /\ loads' \in Seq(Load)
         /\ Depth' = Depth
         /\ \A k \in 1..Depth : /\ loads'[k].ch = loads[k].ch
                                /\ loads'[k].rest = loads[k].rest
                                /\ loads'[k].since = loads[k].since
                                /\ loads'[k].pc = IF k = Depth THEN q ELSE loads[k].pc
<1> DEFINE e == [Top EXCEPT !.pc = q]
<1>1. Depth \in 1..Depth
  BY DEF TypeOK, Depth
<1>2. Top \in Load
  BY <1>1, LoadAt DEF Top
<1>3. e \in Load /\ e.ch = Top.ch /\ e.rest = Top.rest /\ e.since = Top.since /\ e.pc = q
  BY <1>2 DEF Load, Places
<1>4. loads' = [loads EXCEPT ![Depth] = e]
  BY DEF Goto, Top
<1> HIDE DEF e
<1>5. /\ loads' \in Seq(Load)
      /\ Depth' = Depth /\ loads'[Depth] = e
      /\ \A k \in 1..Depth : k # Depth => loads'[k] = loads[k]
  BY <1>3, <1>4, TopSet
<1> QED
  BY <1>3, <1>5 DEF Top

LEMMA Pushing ==
  ASSUME TypeOK, NEW e \in Load, loads' = Append(loads, e)
  PROVE  /\ loads' \in Seq(Load)
         /\ Depth' = Depth + 1 /\ loads'[Depth + 1] = e
         /\ \A k \in 1..Depth : loads'[k] = loads[k]
<1>1. loads \in Seq(Load)
  BY DEF TypeOK
<1> QED
  BY <1>1 DEF Depth

LEMMA Popping ==
  ASSUME TypeOK, Depth > 0, loads' = SubSeq(loads, 1, Depth - 1)
  PROVE  /\ loads' \in Seq(Load)
         /\ Depth' = Depth - 1
         /\ \A k \in 1..(Depth - 1) : loads'[k] = loads[k]
<1>1. loads \in Seq(Load)
  BY DEF TypeOK
<1>2. PICK d \in Nat : d = Depth - 1
  BY <1>1 DEF Depth
<1> DEFINE r == SubSeq(loads, 1, d)
<1>3. \A k \in 1..d : k \in 1..Depth
  BY <1>1, <1>2 DEF Depth
<1>4. /\ r \in Seq(Load)
      /\ Len(r) = IF 1 <= d THEN d - 1 + 1 ELSE 0
      /\ \A k \in 1..d - 1 + 1 : r[k] = loads[1 + k - 1]
  BY <1>3, LoadAt, SubSeqProperties
<1>5. loads' = r
  BY <1>2
<1> HIDE DEF r
<1>6. Len(r) = d
  BY <1>4
<1>7. \A k \in 1..d : r[k] = loads[k]
  BY <1>4
<1> QED
  BY <1>2, <1>4, <1>5, <1>6, <1>7 DEF Depth

\* The loads on their way to a switch.
Pending == {k \in 1..Depth : loads[k].since = 0}

-----------------------------------------------------------------------------
(* Steps that move the threads and change nothing they show or will show.   *)

Calm ==
  /\ posted' = posted /\ curChannel' = curChannel /\ switches' = switches
  /\ view' = view /\ snap' = snap /\ atSwitch' = atSwitch
  /\ checked' = checked /\ gmsg' = gmsg
  /\ picked' = picked /\ overlapped' = overlapped
  /\ Carrying' <=> Carrying
  /\ gpc = "idle" => gpc' = "idle"
  /\ loads' \in Seq(Load) /\ Depth' = Depth
  /\ \A k \in 1..Depth : /\ loads'[k].ch = loads[k].ch
                         /\ loads'[k].rest = loads[k].rest
                         /\ loads'[k].since = loads[k].since

LEMMA CalmKeepsOrder ==
  ASSUME Inv, Calm
  PROVE  /\ Decided' /\ Before' /\ Chosen'
         /\ HistoryInOrder' /\ LiveInOrder'
<1>1. Decided' /\ Before'
  BY DEF Inv, Calm, Decided, Before
<1>2. Chosen'
  BY DEF Inv, Calm, Chosen
<1>3. LiveInOrder'
  BY DEF Inv, Calm, LiveInOrder
<1>4. HistoryInOrder'
  <2>1. /\ HistoryInOrder /\ view' = view /\ Depth' = Depth
        /\ \A k \in 1..Depth : loads'[k].rest = loads[k].rest /\ loads'[k].since = loads[k].since
    BY DEF Inv, Calm
  <2>2. \A i, j \in 1..Len(view') :
          /\ i < j /\ view'[i].from = "history" /\ view'[j].from = "history"
          /\ view'[i].since = view'[j].since
          => view'[i].id < view'[j].id
    BY <2>1 DEF HistoryInOrder
  <2>3. \A k \in 1..Depth' : Ascending(loads'[k].rest)
    BY <2>1 DEF HistoryInOrder
  <2>4. \A k \in 1..Depth' : \A i \in 1..Len(view') :
          view'[i].from = "history" /\ view'[i].since = loads'[k].since =>
            \A n \in 1..Len(loads'[k].rest) : view'[i].id < loads'[k].rest[n]
    BY <2>1 DEF HistoryInOrder
  <2> QED
    BY <2>2, <2>3, <2>4 DEF HistoryInOrder, Ascending
<1> QED
  BY <1>1, <1>2, <1>3, <1>4

LEMMA CalmKeepsShown ==
  ASSUME Inv, Calm
  PROVE  Complete' /\ Alone'
<1>1. Alone'
  <2>1. Depth \in Nat
    BY DEF Inv, TypeOK, Depth
  <2> QED
    BY <2>1 DEF Inv, Calm, Alone
<1>2. ASSUME \A k \in 1..Depth' : loads'[k].since # 0,
             NEW i \in 1..checked', posted'[i] = curChannel'
      PROVE  Accounted(i)'
  <2>1. Accounted(i)
    BY <1>2 DEF Inv, Calm, Complete
  <2> QED
    BY <2>1 DEF Calm, Accounted, Shown
<1> QED
  BY <1>1, <1>2 DEF Complete

LEMMA GoingKeepsLoads ==
  ASSUME Inv, Depth > 0, NEW q \in Places, Goto(q),
         Top.since = 0 <=> q \in Early,
         q \in Holding => Top.rest # <<>>,
         UNCHANGED <<posted, curChannel, switches>>
  PROVE  LoadInv' /\ loads' \in Seq(Load)
<1>1. /\ loads' \in Seq(Load)
      /\ Depth' = Depth
      /\ \A k \in 1..Depth : /\ loads'[k].ch = loads[k].ch
                             /\ loads'[k].rest = loads[k].rest
                             /\ loads'[k].since = loads[k].since
                             /\ loads'[k].pc = IF k = Depth THEN q ELSE loads[k].pc
  BY Going DEF Inv
<1>2. ASSUME NEW k \in 1..Depth
      PROVE  /\ loads'[k].since = 0 <=> loads'[k].pc \in Early
             /\ loads'[k].pc \in Holding => loads'[k].rest # <<>>
             /\ k < Depth => loads'[k].pc \in Boxes
  <2>1. CASE k = Depth
    BY <1>1, <2>1 DEF Top
  <2>2. CASE k # Depth
    BY <1>1, <2>2 DEF Inv, LoadInv
  <2> QED
    BY <2>1, <2>2
<1>3. ASSUME NEW k \in 1..Depth
      PROVE  /\ loads'[k].since \in 0..switches
             /\ loads'[k].since # 0 /\ loads'[k].since = switches => loads'[k].ch = curChannel
             /\ \A j \in 1..Depth : j # k /\ loads'[k].since # 0 => loads'[j].since # loads'[k].since
             /\ \A n \in 1..Len(loads'[k].rest) : loads'[k].rest[n] \in 1..Len(posted)
  BY <1>1 DEF Inv, LoadInv
<1> QED
  BY <1>1, <1>2, <1>3 DEF LoadInv

-----------------------------------------------------------------------------
(* The steps of a load that only go on to the next place.                   *)

\* The steps of the window thread that do no more to its handlers.
Walk(p, q) == At(p) /\ Goto(q) /\ UNCHANGED <<posted, view, repainting, gateway, switch, choice>>

LEMMA Walks ==
  ASSUME Inv, NEW p \in Places, NEW q \in Places, Walk(p, q),
         p \in Early <=> q \in Early,
         q \in Holding => Top.rest # <<>>
  PROVE  LoadInv' /\ Calm
<1>1. Depth > 0 /\ Top.pc = p /\ Goto(q)
  BY DEF Walk, At
<1>2. Depth \in 1..Depth
  BY <1>1 DEF Inv, TypeOK, Depth
<1>3. Top.since = 0 <=> q \in Early
  BY <1>1, <1>2 DEF Inv, LoadInv, Top
<1>4. UNCHANGED <<posted, curChannel, switches>>
  BY DEF Walk, switch
<1>5. LoadInv'
  BY <1>1, <1>3, <1>4, GoingKeepsLoads
<1>6. /\ loads' \in Seq(Load)
      /\ Depth' = Depth
      /\ \A k \in 1..Depth : /\ loads'[k].ch = loads[k].ch
                             /\ loads'[k].rest = loads[k].rest
                             /\ loads'[k].since = loads[k].since
  BY <1>1, Going DEF Inv
<1> QED
  BY <1>5, <1>6 DEF Calm, Walk, switch, gateway, thread, choice, Carrying

LEMMA WalkingSteps ==
  ASSUME Inv,
         \/ (GetHistory /\ Goto("refused")) \/ CloseRefusal \/ ClearEnds \/ SetPfp
         \/ CloseBox \/ WriteHistory \/ UpdateBegins \/ UpdateEnds \/ ScrollHistory
  PROVE  LoadInv' /\ Calm
<1>1. CASE GetHistory /\ Goto("refused")
  <2>1. Walk("history", "refused")
    BY <1>1 DEF GetHistory, Walk, chat
  <2> QED
    BY <2>1, Walks DEF Places, Early, Holding
<1>2. CASE CloseRefusal
  <2>1. Walk("refused", "clear")
    BY <1>2 DEF CloseRefusal, Walk, chat
  <2> QED
    BY <2>1, Walks DEF Places, Early, Holding
<1>3. CASE SetPfp
  <2>1. Top.rest # <<>> /\ (Walk("pfp", "append") \/ Walk("pfp", "box"))
    BY <1>3 DEF SetPfp, Walk, chat
  <2> QED
    BY <2>1, Walks DEF Places, Early, Holding
<1>4. CASE CloseBox
  <2>1. Walk("box", "append")
    BY <1>4 DEF CloseBox, Walk, chat
  <2>2. Top.rest # <<>>
    <3>1. Depth \in 1..Depth /\ Top.pc = "box"
      BY <1>4 DEF CloseBox, At, Inv, TypeOK, Depth
    <3> QED
      BY <3>1 DEF Inv, LoadInv, Top, Holding
  <2> QED
    BY <2>1, <2>2, Walks DEF Places, Early, Holding
<1>5. CASE UpdateBegins
  <2>1. Walk("paint", "painting")
    BY <1>5 DEF UpdateBegins, Walk, PaintBegins
  <2> QED
    BY <2>1, Walks DEF Places, Early, Holding
<1>6. CASE UpdateEnds
  <2>1. Walk("painting", "scroll")
    BY <1>6 DEF UpdateEnds, Walk, PaintEnds
  <2> QED
    BY <2>1, Walks DEF Places, Early, Holding
<1>7. CASE ScrollHistory
  <2>1. Walk("scroll", "pfp")
    BY <1>7 DEF ScrollHistory, Walk, ScrollToEnd
  <2> QED
    BY <2>1, Walks DEF Places, Early, Holding
<1>8. CASE ClearEnds
  <2>1. Walk("clearing", "switch") \/ Walk("emptying", "history")
    BY <1>8 DEF ClearEnds, Walk, chat
  <2> QED
    BY <2>1, Walks DEF Places, Early, Holding
<1>9. CASE WriteHistory
  <2>1. Walk("append", "count")
    BY <1>9 DEF WriteHistory, Walk, chat
  <2>2. Top.rest # <<>>
    <3>1. Depth \in 1..Depth /\ Top.pc = "append"
      BY <1>9 DEF WriteHistory, At, Inv, TypeOK, Depth
    <3> QED
      BY <3>1 DEF Inv, LoadInv, Top, Holding
  <2> QED
    BY <2>1, <2>2, Walks DEF Places, Early, Holding
<1> QED
  BY <1>1, <1>2, <1>3, <1>4, <1>5, <1>6, <1>7, <1>8, <1>9

\* The steps of InsertChatMessage on the gateway thread that leave the list as
\* it is.
Aside == WriteLive \/ InvalidateLive \/ UpdateLive \/ MeasureLive \/ CompareLive \/ AssignLive
           \/ ScrollLive

LEMMA RestingSteps ==
  ASSUME Inv,
         \/ RepaintBegins \/ RepaintEnds \/ UserScrolls \/ Resize
         \/ Aside \/ UNCHANGED vars
  PROVE  LoadInv' /\ Calm
<1>1. /\ UNCHANGED <<posted, loads, view, checked, gmsg, switch, choice>>
      /\ Carrying' <=> Carrying
      /\ gpc = "idle" => gpc' = "idle"
  <2>1. CASE RepaintBegins
    BY <2>1 DEF RepaintBegins, PaintBegins, gateway, thread, Carrying
  <2>2. CASE RepaintEnds
    BY <2>2 DEF RepaintEnds, PaintEnds, gateway, thread, Carrying
  <2>3. CASE UserScrolls
    BY <2>3 DEF UserScrolls, gateway, thread, window, Carrying
  <2>4. CASE Resize
    BY <2>4 DEF Resize, gateway, thread, window, Carrying
  <2>5. CASE WriteLive \/ InvalidateLive \/ UpdateLive
    BY <2>5 DEF WriteLive, InvalidateLive, UpdateLive, chat, thread, window, Carrying
  <2>6. CASE MeasureLive \/ CompareLive \/ AssignLive \/ ScrollLive
    BY <2>6 DEF MeasureLive, CompareLive, AssignLive, ScrollLive, chat, thread, window, Carrying
  <2>7. CASE UNCHANGED vars
    BY <2>7 DEF vars, chat, gateway, thread, window, Carrying
  <2> QED
    BY <2>1, <2>2, <2>3, <2>4, <2>5, <2>6, <2>7 DEF Aside
<1>2. loads \in Seq(Load)
  BY DEF Inv, TypeOK
<1>3. Calm
  BY <1>1, <1>2 DEF Calm, switch, choice, Depth
<1>4. LoadInv'
  BY <1>1 DEF Inv, LoadInv, switch, Depth
<1> QED
  BY <1>3, <1>4

-----------------------------------------------------------------------------
(* The steps of the channel and of the gateway thread.                      *)

Body == /\ LoadInv /\ Decided /\ Before /\ Chosen
        /\ HistoryInOrder /\ LiveInOrder /\ Complete /\ Alone

LEMMA PostKeeps ==
  ASSUME Inv, NEW c \in Channels, Post(c)
  PROVE  Body'
<1>1. /\ UNCHANGED <<loads, view, checked, gmsg, gpc, curChannel, switches, snap, atSwitch,
                     picked, overlapped>>
      /\ posted' = Append(posted, c)
  BY DEF Post, chat, gateway, thread, window, switch, choice
<1>2. posted \in Seq(Channels) /\ checked \in 0..Len(posted)
  BY DEF Inv, TypeOK
<1>3. /\ Len(posted') = Len(posted) + 1
      /\ \A i \in 1..Len(posted) : posted'[i] = posted[i]
  BY <1>1, <1>2
<1>4. LoadInv'
  <2>1. \A i \in 1..Len(posted) : i \in 1..Len(posted')
    BY <1>2, <1>3
  <2> QED
    BY <1>1, <2>1 DEF Inv, LoadInv, Depth
<1>5. Decided' /\ Before' /\ Chosen' /\ HistoryInOrder' /\ LiveInOrder' /\ Alone'
  <2>1. Decided' /\ Before' /\ Chosen'
    BY <1>1 DEF Inv, Decided, Before, Chosen, Carrying
  <2>2. HistoryInOrder' /\ LiveInOrder' /\ Alone'
    BY <1>1 DEF Inv, HistoryInOrder, Ascending, LiveInOrder, Alone, Depth, Carrying
  <2> QED
    BY <2>1, <2>2
<1>6. Complete'
  <2>1. \A i \in 1..checked : posted'[i] = posted[i]
    BY <1>2, <1>3
  <2> QED
    BY <1>1, <2>1 DEF Inv, Complete, Accounted, Shown, Depth, Carrying
<1> QED
  BY <1>4, <1>5, <1>6 DEF Body

LEMMA ReceiveKeeps ==
  ASSUME Inv, Receive
  PROVE  Body'
<1>1. /\ UNCHANGED <<loads, view, posted, curChannel, switches, snap, atSwitch, picked, overlapped>>
      /\ gpc = "idle" /\ checked < Len(posted) /\ checked' = checked + 1
      /\ IF posted[checked + 1] = curChannel
         THEN gmsg' = Live(checked + 1) /\ gpc' = "append"
         ELSE UNCHANGED <<gmsg, gpc>>
  BY DEF Receive, chat, window, switch, choice
<1>2. /\ posted \in Seq(Channels) /\ checked \in 0..Len(posted) /\ switches \in Nat
      /\ Len(posted) \in Nat
  BY DEF Inv, TypeOK
<1>3. posted[checked + 1] \in Channels
  BY <1>1, <1>2
<1>4. LoadInv' /\ Chosen' /\ HistoryInOrder' /\ Alone'
  <2>1. LoadInv' /\ Chosen' /\ Alone'
    BY <1>1 DEF Inv, LoadInv, Chosen, Alone, Depth
  <2>2. HistoryInOrder'
    BY <1>1 DEF Inv, HistoryInOrder, Ascending, Depth
  <2> QED
    BY <2>1, <2>2
<1>5. switches = 0 => posted[checked + 1] # curChannel
  BY <1>3, ChannelsAssumption DEF Inv, Before
<1>6. Before'
  BY <1>1, <1>5 DEF Inv, Before
<1>7. Decided'
  <2>1. CASE posted[checked + 1] = curChannel
    <3>1. Live(checked + 1) \in Entry
      BY <1>2, <1>3 DEF Live, Entry
    <3>2. switches \in 1..switches
      BY <1>2, <1>5, <2>1
    <3>3. /\ gmsg' \in Entry /\ gmsg'.from = "live" /\ gmsg'.id = checked'
          /\ gmsg'.since = switches /\ gmsg'.ch = curChannel
      BY <1>1, <2>1, <3>1 DEF Live
    <3> QED
      BY <1>1, <3>2, <3>3 DEF Decided
  <2>2. CASE posted[checked + 1] # curChannel
    BY <1>1, <2>2 DEF Decided, Carrying
  <2> QED
    BY <2>1, <2>2
<1>8. LiveInOrder'
  <2>1. ASSUME NEW i \in 1..Len(view), view[i].from = "live"
        PROVE  view[i].id < checked'
    <3>1. view[i].id <= checked /\ view[i].id \in Nat
      BY <2>1, EntryAt DEF Inv, LiveInOrder
    <3> QED
      BY <1>1, <1>2, <3>1
  <2>2. \A i \in 1..Len(view) : view[i].id \in Nat
    BY EntryAt DEF Inv
  <2>3. \A i \in 1..Len(view) : view[i].from = "live" => view[i].id <= checked'
    BY <1>1, <1>2, <2>1, <2>2
  <2> QED
    BY <1>1, <2>1, <2>3 DEF Inv, LiveInOrder
<1>9. Complete'
  <2>1. ASSUME \A k \in 1..Depth' : loads'[k].since # 0,
               NEW i \in 1..checked', posted'[i] = curChannel'
        PROVE  Accounted(i)'
    <3>1. CASE i = checked + 1
      BY <1>1, <2>1, <3>1 DEF Accounted, Carrying
    <3>2. CASE i # checked + 1
      <4>1. i \in 1..checked /\ posted[i] = curChannel /\ \A k \in 1..Depth : loads[k].since # 0
        BY <1>1, <1>2, <2>1, <3>2 DEF Depth
      <4>2. Accounted(i)
        BY <4>1 DEF Inv, Complete
      <4>3. ~Carrying
        BY <1>1 DEF Carrying
      <4> QED
        BY <1>1, <4>2, <4>3 DEF Accounted, Shown, Depth
    <3> QED
      BY <3>1, <3>2
  <2> QED
    BY <2>1 DEF Complete
<1> QED
  BY <1>4, <1>6, <1>7, <1>8, <1>9 DEF Body

\* What an entry at the end of the list leaves alone.
LEMMA Adding ==
  ASSUME TypeOK, NEW e \in Entry, view' = Append(view, e)
  PROVE  /\ view' \in Seq(Entry) /\ Len(view) \in Nat
         /\ Len(view') = Len(view) + 1
         /\ view'[Len(view) + 1] = e
         /\ \A i \in 1..Len(view) : view'[i] = view[i]
<1>1. view \in Seq(Entry)
  BY DEF TypeOK
<1> QED
  BY <1>1

LEMMA CountLiveKeeps ==
  ASSUME Inv, CountLive
  PROVE  Body'
<1>1. /\ UNCHANGED <<loads, posted, checked, curChannel, switches, snap, atSwitch, picked, overlapped>>
      /\ gpc = "count" /\ gpc' = "invalidate" /\ Carrying /\ ~Carrying'
      /\ view' = Append(view, gmsg)
  BY DEF CountLive, window, switch, choice, Carrying
<1>2. /\ gmsg \in Entry /\ gmsg.from = "live" /\ gmsg.id = checked
      /\ gmsg.since \in 1..switches
      /\ gmsg.since = switches => gmsg.ch = curChannel
  BY <1>1 DEF Inv, Decided
<1> DEFINE n == Len(view) + 1
<1>3. /\ Len(view) \in Nat /\ Len(view') = n /\ view'[n] = gmsg
      /\ \A i \in 1..Len(view) : view'[i] = view[i]
  BY <1>1, <1>2, Adding DEF Inv
<1>4. \A i \in 1..n : i # n => i \in 1..Len(view)
  BY <1>3
<1>5. LoadInv' /\ Decided' /\ Alone'
  BY <1>1 DEF Inv, LoadInv, Decided, Alone, Depth
<1>6. Before'
  <2>1. switches # 0
    BY <1>1 DEF Inv, Before
  <2> QED
    BY <1>1, <2>1 DEF Before
<1>7. Chosen'
  BY <1>1, <1>2, <1>3, <1>4 DEF Inv, Chosen
<1>8. HistoryInOrder'
  <2> HIDE DEF n
  <2>1. \A i \in 1..n : view'[i].from = "history" => i \in 1..Len(view) /\ view'[i] = view[i]
    BY <1>2, <1>3, <1>4
  <2>2. ASSUME NEW i \in 1..n, NEW j \in 1..n, i < j,
               view'[i].from = "history", view'[j].from = "history",
               view'[i].since = view'[j].since
        PROVE  view'[i].id < view'[j].id
    BY <2>1, <2>2 DEF Inv, HistoryInOrder
  <2>3. \A k \in 1..Depth : Ascending(loads[k].rest)
    BY DEF Inv, HistoryInOrder
  <2>4. ASSUME NEW k \in 1..Depth, NEW i \in 1..n, view'[i].from = "history",
               view'[i].since = loads[k].since, NEW m \in 1..Len(loads[k].rest)
        PROVE  view'[i].id < loads[k].rest[m]
    BY <2>1, <2>4 DEF Inv, HistoryInOrder
  <2> QED
    BY <1>1, <1>3, <2>2, <2>3, <2>4 DEF HistoryInOrder, Ascending, Depth
<1>9. LiveInOrder'
  <2> HIDE DEF n
  <2>1. ASSUME NEW i \in 1..n, view'[i].from = "live"
        PROVE  view'[i].id <= checked /\ (i # n => view'[i].id < checked)
    <3>1. CASE i = n
      BY <1>2, <1>3, <3>1 DEF Inv, TypeOK
    <3>2. CASE i # n
      <4>1. view[i].id < checked /\ view[i].id \in Nat
        BY <1>1, <1>3, <1>4, <2>1, <3>2, EntryAt DEF Inv, LiveInOrder
      <4> QED
        BY <1>3, <1>4, <3>2, <4>1 DEF Inv, TypeOK
    <3> QED
      BY <3>1, <3>2
  <2>2. ASSUME NEW i \in 1..n, NEW j \in 1..n, i < j,
               view'[i].from = "live", view'[j].from = "live"
        PROVE  view'[i].id < view'[j].id
    <3>1. CASE j = n
      <4>1. i # n
        BY <2>2, <3>1
      <4> QED
        BY <1>2, <1>3, <2>1, <2>2, <3>1, <4>1
    <3>2. CASE j # n
      <4>1. i \in 1..Len(view) /\ j \in 1..Len(view)
        BY <1>3, <1>4, <2>2, <3>2 DEF n
      <4> QED
        BY <1>3, <2>2, <4>1 DEF Inv, LiveInOrder
    <3> QED
      BY <3>1, <3>2
  <2> QED
    BY <1>1, <1>3, <2>1, <2>2 DEF LiveInOrder
<1>10. Complete'
  <2>1. ASSUME \A k \in 1..Depth' : loads'[k].since # 0,
               NEW i \in 1..checked', posted'[i] = curChannel'
        PROVE  Accounted(i)'
    <3>1. Accounted(i)
      BY <1>1, <2>1 DEF Inv, Complete, Depth
    <3>2. n \in 1..Len(view')
      BY <1>3
    <3>3. i = checked => Shown(i)'
      BY <1>2, <1>3, <3>2 DEF Shown
    <3>4. Shown(i) => Shown(i)'
      <4>1. \A k \in 1..Len(view) : k \in 1..Len(view')
        BY <1>3
      <4> QED
        BY <1>3, <4>1 DEF Shown
    <3> QED
      BY <1>1, <3>1, <3>3, <3>4 DEF Accounted, Depth
  <2> QED
    BY <2>1 DEF Complete
<1> QED
  BY <1>5, <1>6, <1>7, <1>8, <1>9, <1>10 DEF Body

-----------------------------------------------------------------------------
(* The steps of a load that change the list, or what is to come into it.    *)

LEMMA DepthIsNat == ASSUME TypeOK PROVE Depth \in Nat
BY DEF TypeOK, Depth

LEMMA SelectKeeps ==
  ASSUME Inv, NEW c \in Channels, NEW dm \in BOOLEAN, Select(c, dm)
  PROVE  Body' /\ loads' \in Seq(Load)
         /\ Depth + 1 \notin Pending /\ Pending' = Pending \cup {Depth + 1}
<1> DEFINE e == [ch |-> c, rest |-> <<>>, since |-> 0,
                 pc |-> IF dm THEN "emptying" ELSE "history"]
<1>1. /\ UNCHANGED <<posted, checked, gmsg, gpc, curChannel, switches, snap, atSwitch>>
      /\ Carrying' <=> Carrying
      /\ loads' = Append(loads, e) /\ InLoop
      /\ view' = view \/ view' = <<>>
      /\ picked' = c /\ overlapped' = (Depth > 0)
  BY DEF Select, gateway, thread, switch, Carrying
<1>2. e \in Load
  BY DEF Load
<1>3. e.since = 0 /\ e.rest = <<>> /\ e.ch = c /\ e.pc \in {"emptying", "history"}
  OBVIOUS
<1> HIDE DEF e
<1>4. /\ loads' \in Seq(Load)
      /\ Depth' = Depth + 1 /\ loads'[Depth + 1] = e
      /\ \A k \in 1..Depth : loads'[k] = loads[k]
  BY <1>1, <1>2, Pushing DEF Inv
<1>5. Depth \in Nat /\ switches \in Nat
  BY DepthIsNat DEF Inv, TypeOK
<1>6. \A k \in 1..Depth' : k # Depth + 1 => k \in 1..Depth
  BY <1>4, <1>5
<1>7. LoadInv'
  <2>1. \A k \in 1..Depth : k < Depth' => loads[k].pc \in Boxes
    <3>1. Depth > 0 => Top.pc \in Boxes
      BY <1>1 DEF InLoop, Boxes
    <3> QED
      BY <1>4, <1>5, <3>1 DEF Inv, LoadInv, Top
  <2>2. ASSUME NEW k \in 1..Depth
        PROVE  /\ loads'[k].since \in 0..switches
               /\ loads'[k].since = 0 <=> loads'[k].pc \in Early
               /\ loads'[k].pc \in Holding => loads'[k].rest # <<>>
               /\ loads'[k].pc \in Boxes
               /\ loads'[k].since # 0 /\ loads'[k].since = switches => loads'[k].ch = curChannel
               /\ \A n \in 1..Len(loads'[k].rest) : loads'[k].rest[n] \in 1..Len(posted)
    BY <1>4, <1>5, <2>1 DEF Inv, LoadInv
  <2>3. /\ e.since \in 0..switches
        /\ e.since = 0 /\ e.pc \in Early
        /\ e.pc \notin Holding
        /\ \A n \in 1..Len(e.rest) : e.rest[n] \in 1..Len(posted)
    BY <1>3, <1>5 DEF Early, Holding
  <2>4. ASSUME NEW k \in 1..Depth', NEW j \in 1..Depth', j # k, loads'[k].since # 0
        PROVE  loads'[j].since # loads'[k].since
    <3>1. k \in 1..Depth
      BY <1>4, <1>6, <2>3, <2>4
    <3>2. CASE j = Depth + 1
      BY <1>4, <2>3, <2>4, <3>2
    <3>3. CASE j # Depth + 1
      BY <1>4, <1>6, <2>4, <3>1, <3>3 DEF Inv, LoadInv
    <3> QED
      BY <3>2, <3>3
  <2>5. ASSUME NEW k \in 1..Depth'
        PROVE  /\ loads'[k].since \in 0..switches
               /\ loads'[k].since = 0 <=> loads'[k].pc \in Early
               /\ loads'[k].pc \in Holding => loads'[k].rest # <<>>
               /\ k < Depth' => loads'[k].pc \in Boxes
               /\ loads'[k].since # 0 /\ loads'[k].since = switches => loads'[k].ch = curChannel
               /\ \A n \in 1..Len(loads'[k].rest) : loads'[k].rest[n] \in 1..Len(posted)
    <3>1. CASE k = Depth + 1
      BY <1>4, <1>5, <2>3, <3>1
    <3>2. CASE k # Depth + 1
      BY <1>6, <2>2, <3>2
    <3> QED
      BY <3>1, <3>2
  <2> QED
    BY <1>1, <2>4, <2>5 DEF LoadInv
<1>8. Decided' /\ Before' /\ Chosen'
  BY <1>1 DEF Inv, Decided, Before, Chosen
<1>9. LiveInOrder'
  BY <1>1 DEF Inv, LiveInOrder
<1>10. HistoryInOrder'
  <2>1. Len(e.rest) = 0
    BY <1>3
  <2>2. \A k \in 1..Depth' : k = Depth + 1 \/ k \in 1..Depth
    BY <1>6
  <2>3. \A k \in 1..Depth' : Len(loads'[k].rest) = 0 \/ (k \in 1..Depth /\ loads'[k] = loads[k])
    BY <1>4, <2>1, <2>2
  <2>4. \A k \in 1..Depth' : Ascending(loads'[k].rest)
    BY <2>3 DEF Inv, HistoryInOrder, Ascending
  <2>5. CASE view' = view
    BY <2>3, <2>4, <2>5 DEF Inv, HistoryInOrder, Ascending
  <2>6. CASE view' = <<>>
    BY <2>4, <2>6 DEF HistoryInOrder, Ascending
  <2> QED
    BY <1>1, <2>5, <2>6
<1>11. Complete'
  <2>1. Depth + 1 \in 1..Depth' /\ loads'[Depth + 1].since = 0
    BY <1>3, <1>4, <1>5
  <2> QED
    BY <2>1 DEF Complete
<1>12. Alone'
  <2>1. CASE Depth = 0
    BY <1>1, <1>3, <1>4, <2>1 DEF Alone
  <2>2. CASE Depth # 0
    <3>1. Depth > 0
      BY <1>5, <2>2
    <3>2. overlapped'
      BY <1>1, <3>1
    <3> QED
      BY <3>2 DEF Alone
  <2> QED
    BY <2>1, <2>2
<1>13. Depth + 1 \notin Pending /\ Pending' = Pending \cup {Depth + 1}
  <2>1. \A k \in 1..Depth : k \in 1..Depth' /\ k # Depth + 1
    BY <1>4, <1>5
  <2>2. Depth + 1 \in 1..Depth'
    BY <1>4, <1>5
  <2> QED
    BY <1>3, <1>4, <1>6, <2>1, <2>2 DEF Pending
<1> QED
  BY <1>13, <1>4, <1>7, <1>8, <1>9, <1>10, <1>11, <1>12 DEF Body

\* A history is a list of posted messages, oldest first.
LEMMA HistoryIs ==
  ASSUME Inv, NEW c \in Channels, NEW h \in History(c) \cup {<<>>}
  PROVE  /\ h \in Seq(Nat) /\ Ascending(h)
         /\ \A n \in 1..Len(h) : h[n] \in 1..Len(posted)
<1>1. CASE h = <<>>
  BY <1>1 DEF Ascending
<1>2. CASE h \in History(c)
  <2>1. Len(posted) \in Nat
    BY DEF Inv, TypeOK
  <2>2. Latest(c) \subseteq 1..Len(posted)
    BY DEF Latest, Of
  <2>3. IsFiniteSet(1..Len(posted))
    BY <2>1, FS_Interval
  <2>4. PICK n \in Nat : n = Cardinality(Latest(c))
    BY <2>2, <2>3, FS_Subset, FS_CardinalityType
  <2>5. h \in [1..n -> 1..Len(posted)] /\ Ascending(h)
    BY <1>2, <2>2, <2>4 DEF History
  <2>6. h \in Seq(Nat) /\ Len(h) = n
    BY <2>1, <2>4, <2>5
  <2> QED
    BY <2>5, <2>6
<1> QED
  BY <1>1, <1>2

LEMMA RecordOf ==
  ASSUME NEW t \in Load, NEW h \in Seq(Nat), NEW q \in Places
  PROVE  [[t EXCEPT !.rest = h] EXCEPT !.pc = q]
           = [ch |-> t.ch, rest |-> h, since |-> t.since, pc |-> q]
<1> DEFINE u == [t EXCEPT !.rest = h]
<1>1. u \in Load /\ u.ch = t.ch /\ u.rest = h /\ u.since = t.since
  BY DEF Load
<1> HIDE DEF u
<1>2. [u EXCEPT !.pc = q] = [ch |-> u.ch, rest |-> u.rest, since |-> u.since, pc |-> q]
  BY <1>1 DEF Load
<1> QED
  BY <1>1, <1>2, Zenon DEF u

\* The running load has become e, at a place from which it can go on.
LEMMA ReplacingKeepsLoads ==
  ASSUME Inv, Depth > 0, NEW e \in Load, loads' = [loads EXCEPT ![Depth] = e],
         e.ch = Top.ch, e.since = Top.since,
         e.since = 0 <=> e.pc \in Early,
         e.pc \notin Holding,
         \A n \in 1..Len(e.rest) : e.rest[n] \in 1..Len(posted),
         UNCHANGED <<posted, curChannel, switches>>
  PROVE  LoadInv'
<1>1. /\ Depth' = Depth /\ loads'[Depth] = e
      /\ \A k \in 1..Depth : k # Depth => loads'[k] = loads[k]
  BY TopSet DEF Inv
<1>2. \A k \in 1..Depth : loads'[k].since = loads[k].since /\ loads'[k].ch = loads[k].ch
  BY <1>1 DEF Top
<1>3. ASSUME NEW k \in 1..Depth
      PROVE  /\ loads'[k].since = 0 <=> loads'[k].pc \in Early
             /\ loads'[k].pc \in Holding => loads'[k].rest # <<>>
             /\ k < Depth => loads'[k].pc \in Boxes
             /\ \A n \in 1..Len(loads'[k].rest) : loads'[k].rest[n] \in 1..Len(posted)
  <2>1. CASE k = Depth
    BY <1>1, <2>1 DEF Top
  <2>2. CASE k # Depth
    BY <1>1, <2>2 DEF Inv, LoadInv
  <2> QED
    BY <2>1, <2>2
<1>4. ASSUME NEW k \in 1..Depth
      PROVE  /\ loads'[k].since \in 0..switches
             /\ loads'[k].since # 0 /\ loads'[k].since = switches => loads'[k].ch = curChannel
             /\ \A j \in 1..Depth : j # k /\ loads'[k].since # 0 => loads'[j].since # loads'[k].since
  BY <1>2 DEF Inv, LoadInv
<1> QED
  BY <1>1, <1>3, <1>4 DEF LoadInv

LEMMA GetHistoryKeeps ==
  ASSUME Inv, GetHistory, ~Goto("refused")
  PROVE  Body' /\ loads' \in Seq(Load) /\ Pending' = Pending
<1>1. /\ UNCHANGED <<posted, view, checked, gmsg, gpc, curChannel, switches, snap, atSwitch,
                     picked, overlapped>>
      /\ Carrying' <=> Carrying
      /\ At("history")
  BY DEF GetHistory, chat, gateway, thread, switch, choice, Carrying
<1>2. PICK h \in History(Top.ch) \cup {<<>>} :
        loads' = [loads EXCEPT ![Depth].rest = h, ![Depth].pc = "clear"]
  BY DEF GetHistory
<1>3. Depth \in 1..Depth /\ Depth \in Nat /\ Depth > 0 /\ Top.pc = "history"
  BY <1>1, DepthIsNat DEF Inv, At
<1>4. Top \in Load /\ Top.ch \in Channels
  BY <1>3, LoadAt DEF Inv, Top
<1>5. /\ h \in Seq(Nat) /\ Ascending(h)
      /\ \A n \in 1..Len(h) : h[n] \in 1..Len(posted)
  BY <1>4, HistoryIs
<1> DEFINE e == [ch |-> Top.ch, rest |-> h, since |-> Top.since, pc |-> "clear"]
<1>6. e \in Load
  BY <1>4, <1>5 DEF Load
<1>7. loads' = [loads EXCEPT ![Depth] = e]
  <2>1. loads' = [loads EXCEPT ![Depth] = [[Top EXCEPT !.rest = h] EXCEPT !.pc = "clear"]]
    BY <1>2, Zenon DEF Top
  <2>2. [[Top EXCEPT !.rest = h] EXCEPT !.pc = "clear"] = e
    <3>1. "clear" \in Places
      BY DEF Places
    <3> QED
      BY <1>4, <1>5, <3>1, RecordOf, Zenon
  <2> QED
    BY <2>1, <2>2
<1>8. e.ch = Top.ch /\ e.rest = h /\ e.since = Top.since /\ e.pc = "clear"
  OBVIOUS
<1> HIDE DEF e
<1>9. Top.since = 0
  BY <1>3 DEF Inv, LoadInv, Top, Early
<1>10. /\ loads' \in Seq(Load)
       /\ Depth' = Depth /\ loads'[Depth] = e
       /\ \A k \in 1..Depth : k # Depth => loads'[k] = loads[k]
  BY <1>3, <1>6, <1>7, TopSet DEF Inv
<1>11. LoadInv'
  BY <1>1, <1>3, <1>5, <1>6, <1>7, <1>8, <1>9, ReplacingKeepsLoads DEF Early, Holding
<1>12. Decided' /\ Before' /\ Chosen' /\ LiveInOrder'
  BY <1>1 DEF Inv, Decided, Before, Chosen, LiveInOrder
<1>13. HistoryInOrder'
  <2>1. \A k \in 1..Depth : Ascending(loads'[k].rest)
    BY <1>5, <1>8, <1>10 DEF Inv, HistoryInOrder
  <2>2. ASSUME NEW k \in 1..Depth, NEW i \in 1..Len(view),
               view[i].from = "history", view[i].since = loads'[k].since
        PROVE  \A n \in 1..Len(loads'[k].rest) : view[i].id < loads'[k].rest[n]
    <3>1. view[i].since # 0
      BY DEF Inv, Chosen, TypeOK
    <3>2. k # Depth
      BY <1>8, <1>9, <1>10, <2>2, <3>1
    <3> QED
      BY <1>10, <2>2, <3>2 DEF Inv, HistoryInOrder
  <2> QED
    BY <1>1, <1>10, <2>1, <2>2 DEF Inv, HistoryInOrder, Ascending
<1>14. Complete'
  BY <1>3, <1>8, <1>9, <1>10 DEF Complete
<1>15. Alone'
  BY <1>1, <1>3, <1>8, <1>9, <1>10 DEF Inv, Alone, Top
<1>16. Pending' = Pending
  BY <1>8, <1>10 DEF Pending, Top
<1> QED
  BY <1>16, <1>10, <1>11, <1>12, <1>13, <1>14, <1>15 DEF Body

LEMMA ClearKeeps ==
  ASSUME Inv, ClearBegins
  PROVE  Body' /\ loads' \in Seq(Load) /\ Pending' = Pending /\ Depth \in Pending
<1>1. /\ UNCHANGED <<posted, checked, gmsg, gpc, curChannel, switches, snap, atSwitch,
                     picked, overlapped>>
      /\ Carrying' <=> Carrying
      /\ At("clear") /\ Goto("clearing") /\ view' = <<>>
  BY DEF ClearBegins, gateway, thread, switch, choice, Carrying
<1>2. Depth \in 1..Depth /\ Depth \in Nat /\ Depth > 0 /\ Top.pc = "clear"
  BY <1>1, DepthIsNat DEF Inv, At
<1>3. Top.since = 0
  BY <1>2 DEF Inv, LoadInv, Top, Early
<1>4. /\ loads' \in Seq(Load)
      /\ Depth' = Depth
      /\ \A k \in 1..Depth : /\ loads'[k].ch = loads[k].ch
                             /\ loads'[k].rest = loads[k].rest
                             /\ loads'[k].since = loads[k].since
  BY <1>1, <1>2, Going DEF Inv, Places
<1>5. LoadInv'
  BY <1>1, <1>2, <1>3, GoingKeepsLoads DEF Places, Early, Holding
<1>6. Decided' /\ Before' /\ Chosen' /\ LiveInOrder'
  BY <1>1 DEF Inv, Decided, Before, Chosen, LiveInOrder
<1>7. HistoryInOrder'
  BY <1>1, <1>4 DEF Inv, HistoryInOrder, Ascending
<1>8. Complete'
  BY <1>2, <1>3, <1>4 DEF Complete, Top
<1>9. Alone'
  BY <1>1, <1>2, <1>4 DEF Inv, Alone
<1>10. Pending' = Pending /\ Depth \in Pending
  BY <1>2, <1>3, <1>4 DEF Pending, Top
<1> QED
  BY <1>10, <1>4, <1>5, <1>6, <1>7, <1>8, <1>9 DEF Body

LEMMA LoadEndsKeeps ==
  ASSUME Inv, LoadEnds
  PROVE  Body' /\ loads' \in Seq(Load) /\ Pending' = Pending
<1>1. /\ UNCHANGED <<posted, view, checked, gmsg, gpc, curChannel, switches, snap, atSwitch,
                     picked, overlapped>>
      /\ Carrying' <=> Carrying
      /\ At("pfp") /\ Top.rest = <<>> /\ loads' = SubSeq(loads, 1, Depth - 1)
  BY DEF LoadEnds, chat, gateway, thread, switch, choice, Carrying
<1>2. Depth \in 1..Depth /\ Depth \in Nat /\ Depth > 0 /\ Top.pc = "pfp"
  BY <1>1, DepthIsNat DEF Inv, At
<1>3. Top.since # 0
  BY <1>2 DEF Inv, LoadInv, Top, Early
<1>4. /\ loads' \in Seq(Load)
      /\ Depth' = Depth - 1
      /\ \A k \in 1..(Depth - 1) : loads'[k] = loads[k]
  BY <1>1, <1>2, Popping DEF Inv
<1>5. \A k \in 1..Depth' : k \in 1..Depth /\ k < Depth /\ loads'[k] = loads[k]
  BY <1>2, <1>4
<1>6. LoadInv'
  BY <1>1, <1>5 DEF Inv, LoadInv
<1>7. Decided' /\ Before' /\ Chosen' /\ LiveInOrder'
  BY <1>1 DEF Inv, Decided, Before, Chosen, LiveInOrder
<1>8. HistoryInOrder'
  <2>1. \A k \in 1..Depth' : Ascending(loads'[k].rest)
    BY <1>5 DEF Inv, HistoryInOrder
  <2>2. ASSUME NEW k \in 1..Depth', NEW i \in 1..Len(view),
               view[i].from = "history", view[i].since = loads'[k].since
        PROVE  \A n \in 1..Len(loads'[k].rest) : view[i].id < loads'[k].rest[n]
    BY <1>5, <2>2 DEF Inv, HistoryInOrder
  <2> QED
    BY <1>1, <2>1, <2>2 DEF Inv, HistoryInOrder, Ascending
<1>9. Complete'
  <2>1. ASSUME \A k \in 1..Depth' : loads'[k].since # 0,
               NEW i \in 1..checked', posted'[i] = curChannel'
        PROVE  Accounted(i)'
    <3>1. \A k \in 1..Depth : k = Depth \/ (k \in 1..Depth' /\ loads'[k] = loads[k])
      BY <1>2, <1>4
    <3>2. \A k \in 1..Depth : loads[k].since # 0
      BY <1>3, <2>1, <3>1 DEF Top
    <3>3. Accounted(i)
      BY <1>1, <2>1, <3>2 DEF Inv, Complete
    <3>4. 1..Len(loads[Depth].rest) = {}
      BY <1>1 DEF Top
    <3>5. CASE \E k \in 1..Depth : /\ loads[k].since = switches
                                   /\ \E n \in 1..Len(loads[k].rest) : loads[k].rest[n] = i
      <4>1. PICK k \in 1..Depth : /\ loads[k].since = switches
                                  /\ \E n \in 1..Len(loads[k].rest) : loads[k].rest[n] = i
        BY <3>5
      <4>2. k \in 1..Depth' /\ loads'[k] = loads[k]
        BY <3>1, <3>4, <4>1
      <4> QED
        BY <1>1, <4>1, <4>2 DEF Accounted
    <3>6. CASE Shown(i) \/ (i \notin snap /\ i <= atSwitch) \/ (Carrying /\ i = checked)
      BY <1>1, <3>6 DEF Accounted, Shown
    <3> QED
      BY <3>3, <3>5, <3>6 DEF Accounted
  <2> QED
    BY <2>1 DEF Complete
<1>10. Alone'
  <2>1. Depth <= 1 => Depth = 1 /\ Depth' = 0
    BY <1>2, <1>4
  <2> QED
    BY <1>1, <1>3, <2>1 DEF Inv, Alone, Top
<1>11. Pending' = Pending
  <2>1. \A k \in Pending : k # Depth
    BY <1>3 DEF Pending, Top
  <2>2. \A k \in 1..Depth : k # Depth => k \in 1..Depth'
    BY <1>2, <1>4
  <2> QED
    BY <1>5, <2>1, <2>2 DEF Pending
<1> QED
  BY <1>11, <1>4, <1>6, <1>7, <1>8, <1>9, <1>10 DEF Body

\* The switch gives the load a number that nothing else has.
LEMMA SwitchKeeps ==
  ASSUME Inv, Switch
  PROVE  Body' /\ loads' \in Seq(Load)
         /\ Depth \in Pending /\ Pending' = Pending \ {Depth}
<1>1. /\ UNCHANGED <<posted, view, checked, gmsg, gpc, picked, overlapped>>
      /\ Carrying' <=> Carrying
      /\ At("switch") /\ curChannel' = Top.ch /\ switches' = switches + 1
      /\ snap' = {Top.rest[i] : i \in 1..Len(Top.rest)} /\ atSwitch' = checked
      /\ loads' = [loads EXCEPT ![Depth].since = switches + 1, ![Depth].pc = "pfp"]
  BY DEF Switch, chat, gateway, thread, choice, Carrying
<1>2. Depth \in 1..Depth /\ Depth \in Nat /\ Depth > 0 /\ Top.pc = "switch"
  BY <1>1, DepthIsNat DEF Inv, At
<1>3. Top \in Load /\ switches \in Nat /\ checked \in Nat
  BY <1>2, LoadAt DEF Inv, Top, TypeOK
<1> DEFINE e == [ch |-> Top.ch, rest |-> Top.rest, since |-> switches + 1, pc |-> "pfp"]
<1>4. e \in Load
  BY <1>3 DEF Load
<1>5. loads' = [loads EXCEPT ![Depth] = e]
  <2>1. loads' = [loads EXCEPT ![Depth] = [[Top EXCEPT !.since = switches + 1] EXCEPT !.pc = "pfp"]]
    BY <1>1, Zenon DEF Top
  <2> DEFINE u == [Top EXCEPT !.since = switches + 1]
  <2>2. u \in Load /\ u.ch = Top.ch /\ u.rest = Top.rest /\ u.since = switches + 1
    BY <1>3 DEF Load
  <2> HIDE DEF u
  <2>3. [u EXCEPT !.pc = "pfp"] = [ch |-> u.ch, rest |-> u.rest, since |-> u.since, pc |-> "pfp"]
    BY <2>2 DEF Load
  <2> QED
    BY <2>1, <2>2, <2>3, Zenon DEF u
<1>6. e.ch = Top.ch /\ e.rest = Top.rest /\ e.since = switches + 1 /\ e.pc = "pfp"
  OBVIOUS
<1> HIDE DEF e
<1>7. /\ loads' \in Seq(Load)
      /\ Depth' = Depth /\ loads'[Depth] = e
      /\ \A k \in 1..Depth : k # Depth => loads'[k] = loads[k]
  BY <1>2, <1>4, <1>5, TopSet DEF Inv
<1>8. \A k \in 1..Depth : k # Depth => loads[k].since \in 0..switches
  BY DEF Inv, LoadInv
<1>9. LoadInv'
  <2>1. ASSUME NEW k \in 1..Depth
        PROVE  /\ loads'[k].since \in 0..(switches + 1)
               /\ loads'[k].since = 0 <=> loads'[k].pc \in Early
               /\ loads'[k].pc \in Holding => loads'[k].rest # <<>>
               /\ k < Depth => loads'[k].pc \in Boxes
               /\ loads'[k].since = switches + 1 => loads'[k].ch = Top.ch
               /\ \A n \in 1..Len(loads'[k].rest) : loads'[k].rest[n] \in 1..Len(posted)
    <3>1. CASE k = Depth
      <4>1. /\ e.since \in 0..(switches + 1) /\ e.since # 0
            /\ e.pc \notin Early /\ e.pc \notin Holding
        BY <1>3, <1>6 DEF Early, Holding
      <4>2. \A n \in 1..Len(e.rest) : e.rest[n] \in 1..Len(posted)
        BY <1>2, <1>6 DEF Inv, LoadInv, Top
      <4> QED
        BY <1>6, <1>7, <3>1, <4>1, <4>2
    <3>2. CASE k # Depth
      <4>1. loads[k].since \in 0..(switches + 1) /\ loads[k].since # switches + 1
        BY <1>3, <1>8, <3>2
      <4> QED
        BY <1>7, <3>2, <4>1 DEF Inv, LoadInv
    <3> QED
      BY <3>1, <3>2
  <2>2. ASSUME NEW k \in 1..Depth, NEW j \in 1..Depth, j # k, loads'[k].since # 0
        PROVE  loads'[j].since # loads'[k].since
    <3>1. CASE k # Depth /\ j # Depth
      BY <1>7, <2>2, <3>1 DEF Inv, LoadInv
    <3>2. CASE k = Depth \/ j = Depth
      BY <1>3, <1>6, <1>7, <1>8, <2>2, <3>2
    <3> QED
      BY <3>1, <3>2
  <2> QED
    BY <1>1, <1>7, <2>1, <2>2 DEF LoadInv
<1>10. Decided'
  <2>1. ASSUME Carrying PROVE gmsg.since \in 1..(switches + 1) /\ gmsg.since # switches + 1
    BY <1>3, <2>1 DEF Inv, Decided
  <2> QED
    BY <1>1, <2>1 DEF Inv, Decided
<1>11. Before'
  BY <1>1, <1>3 DEF Before
<1>12. Chosen'
  <2>1. ASSUME NEW i \in 1..Len(view)
        PROVE  view[i].since \in 1..(switches + 1) /\ view[i].since # switches + 1
    BY <1>3, <2>1 DEF Inv, Chosen
  <2> QED
    BY <1>1, <2>1 DEF Chosen
<1>13. LiveInOrder'
  BY <1>1 DEF Inv, LiveInOrder
<1>14. HistoryInOrder'
  <2>1. \A k \in 1..Depth : loads'[k].rest = loads[k].rest
    BY <1>6, <1>7 DEF Top
  <2>2. \A k \in 1..Depth : Ascending(loads'[k].rest)
    BY <2>1 DEF Inv, HistoryInOrder
  <2>3. ASSUME NEW k \in 1..Depth, NEW i \in 1..Len(view),
               view[i].from = "history", view[i].since = loads'[k].since
        PROVE  \A n \in 1..Len(loads'[k].rest) : view[i].id < loads'[k].rest[n]
    <3>1. view[i].since # switches + 1
      BY <1>3 DEF Inv, Chosen
    <3>2. k # Depth
      BY <1>6, <1>7, <2>3, <3>1
    <3> QED
      BY <1>7, <2>3, <3>2 DEF Inv, HistoryInOrder
  <2> QED
    BY <1>1, <1>7, <2>2, <2>3 DEF Inv, HistoryInOrder, Ascending
<1>15. Complete'
  <2>1. ASSUME NEW i \in 1..checked PROVE Accounted(i)'
    <3>1. CASE i \in snap'
      <4>1. PICK n \in 1..Len(Top.rest) : Top.rest[n] = i
        BY <1>1, <3>1
      <4>2. loads'[Depth].since = switches' /\ loads'[Depth].rest = Top.rest
        BY <1>1, <1>6, <1>7
      <4> QED
        BY <1>2, <1>7, <4>1, <4>2 DEF Accounted
    <3>2. CASE i \notin snap'
      <4>1. i <= atSwitch'
        BY <1>1, <1>3
      <4> QED
        BY <3>2, <4>1 DEF Accounted
    <3> QED
      BY <3>1, <3>2
  <2> QED
    BY <1>1, <2>1 DEF Complete
<1>16. Alone'
  BY <1>1, <1>2, <1>6, <1>7 DEF Inv, Alone, Top
<1>17. Depth \in Pending /\ Pending' = Pending \ {Depth}
  <2>1. Top.since = 0
    BY <1>2 DEF Inv, LoadInv, Top, Early
  <2>2. loads'[Depth].since # 0
    BY <1>3, <1>6, <1>7
  <2> QED
    BY <1>2, <1>7, <2>1, <2>2 DEF Pending, Top
<1> QED
  BY <1>17, <1>7, <1>9, <1>10, <1>11, <1>12, <1>13, <1>14, <1>15, <1>16 DEF Body

LEMMA TailIs ==
  ASSUME NEW s \in Seq(Nat), s # <<>>
  PROVE  /\ Tail(s) \in Seq(Nat) /\ Len(s) \in Nat /\ Len(s) > 0 /\ Len(Tail(s)) = Len(s) - 1
         /\ Head(s) = s[1]
         /\ \A n \in 1..Len(Tail(s)) : n + 1 \in 1..Len(s) /\ Tail(s)[n] = s[n + 1]
OBVIOUS

LEMMA CountHistoryKeeps ==
  ASSUME Inv, CountHistory
  PROVE  Body' /\ loads' \in Seq(Load) /\ Pending' = Pending
<1> DEFINE r == Top.rest
           m == [id |-> Head(r), ch |-> Top.ch, from |-> "history", since |-> Top.since]
           e == [ch |-> Top.ch, rest |-> Tail(r), since |-> Top.since, pc |-> "paint"]
           n == Len(view) + 1
<1>1. /\ UNCHANGED <<posted, checked, gmsg, gpc, curChannel, switches, snap, atSwitch,
                     picked, overlapped>>
      /\ Carrying' <=> Carrying
      /\ At("count") /\ view' = Append(view, m)
      /\ loads' = [loads EXCEPT ![Depth].rest = Tail(@), ![Depth].pc = "paint"]
  BY DEF CountHistory, gateway, thread, switch, choice, Carrying
<1>2. Depth \in 1..Depth /\ Depth \in Nat /\ Depth > 0 /\ Top.pc = "count"
  BY <1>1, DepthIsNat DEF Inv, At
<1>3. Top \in Load /\ r \in Seq(Nat) /\ Top.ch \in Channels /\ Top.since \in Nat
  BY <1>2, LoadAt DEF Inv, Top
<1>4. /\ r # <<>> /\ Top.since \in 0..switches /\ Top.since # 0
      /\ Top.since = switches => Top.ch = curChannel
      /\ \A i \in 1..Len(r) : r[i] \in 1..Len(posted)
  BY <1>2 DEF Inv, LoadInv, Top, Early, Holding
<1>5. /\ Tail(r) \in Seq(Nat) /\ Len(r) \in Nat /\ Len(r) > 0 /\ Len(Tail(r)) = Len(r) - 1
      /\ Head(r) = r[1]
      /\ \A i \in 1..Len(Tail(r)) : i + 1 \in 1..Len(r) /\ Tail(r)[i] = r[i + 1]
  BY <1>3, <1>4, TailIs
<1>6. Head(r) \in Nat
  BY <1>3, <1>5
<1>7. m \in Entry
  BY <1>3, <1>6 DEF Entry
<1>8. e \in Load
  BY <1>3, <1>5 DEF Load
<1>9. loads' = [loads EXCEPT ![Depth] = e]
  <2>1. loads' = [loads EXCEPT ![Depth] = [[Top EXCEPT !.rest = Tail(r)] EXCEPT !.pc = "paint"]]
    BY <1>1, Zenon DEF Top
  <2>2. "paint" \in Places
    BY DEF Places
  <2> QED
    BY <1>3, <1>5, <2>1, <2>2, RecordOf, Zenon
<1>10. /\ e.ch = Top.ch /\ e.rest = Tail(r) /\ e.since = Top.since /\ e.pc = "paint"
       /\ m.id = Head(r) /\ m.ch = Top.ch /\ m.from = "history" /\ m.since = Top.since
  OBVIOUS
<1>11. \A i \in 1..Len(r) : Head(r) <= r[i] /\ (i > 1 => Head(r) < r[i])
  <2>1. Ascending(r)
    BY <1>2 DEF Inv, HistoryInOrder, Top
  <2>2. 1 \in 1..Len(r) /\ \A i \in 1..Len(r) : r[i] \in Nat
    BY <1>3, <1>5
  <2>3. \A i \in 1..Len(r) : i > 1 => Head(r) < r[i]
    BY <1>5, <2>1, <2>2 DEF Ascending
  <2>4. \A i \in 1..Len(r) : i = 1 \/ i > 1
    BY <1>5
  <2> QED
    BY <1>5, <1>6, <2>2, <2>3, <2>4
<1>12. Ascending(Tail(r))
  <2>1. Ascending(r)
    BY <1>2 DEF Inv, HistoryInOrder, Top
  <2>2. ASSUME NEW i \in 1..Len(Tail(r)), NEW j \in 1..Len(Tail(r)), i < j
        PROVE  Tail(r)[i] < Tail(r)[j]
    <3>1. i + 1 \in 1..Len(r) /\ j + 1 \in 1..Len(r) /\ i + 1 < j + 1
      BY <1>5, <2>2
    <3>2. r[i + 1] < r[j + 1]
      BY <2>1, <3>1 DEF Ascending
    <3> QED
      BY <1>5, <3>2
  <2> QED
    BY <2>2 DEF Ascending
<1>13. \A i \in 1..Len(view) :
          view[i].from = "history" /\ view[i].since = Top.since =>
            \A k \in 1..Len(r) : view[i].id < r[k]
  BY <1>2 DEF Inv, HistoryInOrder, Top
<1>14. \A i \in 1..Len(Tail(r)) : Head(r) < Tail(r)[i]
  <2>1. ASSUME NEW i \in 1..Len(Tail(r)) PROVE Head(r) < r[i + 1]
    <3>1. i + 1 \in 1..Len(r) /\ i + 1 > 1
      BY <1>5
    <3> QED
      BY <1>11, <3>1
  <2> QED
    BY <1>5, <2>1
<1> HIDE DEF e, m, r
<1>15. /\ loads' \in Seq(Load)
       /\ Depth' = Depth /\ loads'[Depth] = e
       /\ \A k \in 1..Depth : k # Depth => loads'[k] = loads[k]
  BY <1>2, <1>8, <1>9, TopSet DEF Inv
<1>16. /\ Len(view) \in Nat /\ Len(view') = n /\ view'[n] = m
       /\ \A i \in 1..Len(view) : view'[i] = view[i]
  BY <1>1, <1>7, Adding DEF Inv
<1>17. \A i \in 1..n : i # n => i \in 1..Len(view)
  BY <1>16
<1>18. LoadInv'
  <2>1. \A i \in 1..Len(e.rest) : e.rest[i] \in 1..Len(posted)
    BY <1>4, <1>5, <1>10
  <2>2. e.since = 0 <=> e.pc \in Early
    BY <1>4, <1>10 DEF Early
  <2> QED
    BY <1>1, <1>2, <1>8, <1>9, <1>10, <2>1, <2>2, ReplacingKeepsLoads DEF Holding
<1>19. Decided'
  BY <1>1 DEF Inv, Decided
<1>20. Before'
  <2>1. switches # 0
    BY <1>3, <1>4
  <2> QED
    BY <1>1, <2>1 DEF Before
<1>21. Chosen'
  <2>1. m.since \in 1..switches /\ (m.since = switches => m.ch = curChannel)
    BY <1>3, <1>4, <1>10
  <2> QED
    BY <1>1, <1>16, <1>17, <2>1 DEF Inv, Chosen
<1>22. LiveInOrder'
  <2> HIDE DEF n
  <2>1. \A i \in 1..n : view'[i].from = "live" => i \in 1..Len(view) /\ view'[i] = view[i]
    BY <1>10, <1>16, <1>17
  <2>2. ASSUME NEW i \in 1..n, NEW j \in 1..n, i < j,
               view'[i].from = "live", view'[j].from = "live"
        PROVE  view'[i].id < view'[j].id
    BY <2>1, <2>2 DEF Inv, LiveInOrder
  <2>3. ASSUME NEW i \in 1..n, view'[i].from = "live"
        PROVE  view'[i].id <= checked /\ (Carrying => view'[i].id < checked)
    BY <2>1, <2>3 DEF Inv, LiveInOrder
  <2> QED
    BY <1>1, <1>16, <2>2, <2>3 DEF LiveInOrder
<1>23. HistoryInOrder'
  <2>1. ASSUME NEW k \in 1..Depth PROVE Ascending(loads'[k].rest)
    BY <1>10, <1>12, <1>15 DEF Inv, HistoryInOrder
  <2>2. ASSUME NEW i \in 1..n, NEW j \in 1..n, i < j,
               view'[i].from = "history", view'[j].from = "history",
               view'[i].since = view'[j].since
        PROVE  view'[i].id < view'[j].id
    <3>1. i \in 1..Len(view) /\ view'[i] = view[i]
      BY <1>16, <2>2
    <3>2. CASE j = n
      <4>1. view[i].from = "history" /\ view[i].since = Top.since
        BY <1>10, <1>16, <2>2, <3>1, <3>2
      <4>2. 1 \in 1..Len(r)
        BY <1>5
      <4> QED
        BY <1>5, <1>10, <1>13, <1>16, <3>1, <3>2, <4>1, <4>2
    <3>3. CASE j # n
      <4>1. j \in 1..Len(view) /\ view'[j] = view[j]
        BY <1>16, <1>17, <3>3
      <4> QED
        BY <2>2, <3>1, <4>1 DEF Inv, HistoryInOrder
    <3> QED
      BY <3>2, <3>3
  <2>3. ASSUME NEW k \in 1..Depth, NEW i \in 1..n,
               view'[i].from = "history", view'[i].since = loads'[k].since,
               NEW j \in 1..Len(loads'[k].rest)
        PROVE  view'[i].id < loads'[k].rest[j]
    <3>1. CASE k = Depth /\ i = n
      BY <1>10, <1>14, <1>15, <1>16, <2>3, <3>1
    <3>2. CASE k = Depth /\ i # n
      <4>1. i \in 1..Len(view) /\ view'[i] = view[i]
        BY <1>16, <1>17, <3>2
      <4>2. j \in 1..Len(Tail(r)) /\ loads'[k].rest[j] = r[j + 1] /\ j + 1 \in 1..Len(r)
        BY <1>5, <1>10, <1>15, <2>3, <3>2
      <4>3. view[i].from = "history" /\ view[i].since = Top.since
        BY <1>10, <1>15, <2>3, <3>2, <4>1
      <4> QED
        BY <1>13, <4>1, <4>2, <4>3
    <3>3. CASE k # Depth /\ i = n
      <4>1. loads[k].since # loads[Depth].since
        BY <1>2, <1>4, <3>3 DEF Inv, LoadInv, Top
      <4> QED
        BY <1>10, <1>15, <1>16, <2>3, <3>3, <4>1 DEF Top
    <3>4. CASE k # Depth /\ i # n
      <4>1. i \in 1..Len(view) /\ view'[i] = view[i] /\ loads'[k] = loads[k]
        BY <1>15, <1>16, <1>17, <3>4
      <4> QED
        BY <2>3, <4>1 DEF Inv, HistoryInOrder
    <3> QED
      BY <3>1, <3>2, <3>3, <3>4
  <2> QED
    BY <1>15, <1>16, <2>1, <2>2, <2>3 DEF HistoryInOrder
<1>24. Complete'
  <2>1. ASSUME \A k \in 1..Depth' : loads'[k].since # 0,
               NEW i \in 1..checked', posted'[i] = curChannel'
        PROVE  Accounted(i)'
    <3>1. \A k \in 1..Depth : loads'[k].since = loads[k].since
      BY <1>10, <1>15 DEF Top
    <3>2. Accounted(i)
      BY <1>1, <1>15, <2>1, <3>1 DEF Inv, Complete
    <3>3. Shown(i) => Shown(i)'
      <4>1. \A k \in 1..Len(view) : k \in 1..Len(view')
        BY <1>16
      <4> QED
        BY <1>16, <4>1 DEF Shown
    <3>4. CASE \E k \in 1..Depth : /\ loads[k].since = switches
                                   /\ \E j \in 1..Len(loads[k].rest) : loads[k].rest[j] = i
      <4>1. PICK k \in 1..Depth : /\ loads[k].since = switches
                                  /\ \E j \in 1..Len(loads[k].rest) : loads[k].rest[j] = i
        BY <3>4
      <4>2. PICK j \in 1..Len(loads[k].rest) : loads[k].rest[j] = i
        BY <4>1
      <4>3. CASE k # Depth
        BY <1>1, <1>15, <4>1, <4>2, <4>3 DEF Accounted
      <4>4. CASE k = Depth /\ j = 1
        <5>1. n \in 1..Len(view') /\ view'[n].id = i
          BY <1>5, <1>10, <1>16, <4>1, <4>2, <4>4 DEF r, Top
        <5> QED
          BY <5>1 DEF Accounted, Shown
      <4>5. CASE k = Depth /\ j # 1
        <5>1. j \in 1..Len(r) /\ r[j] = i
          BY <4>1, <4>2, <4>5 DEF r, Top
        <5>2. PICK p \in 1..Len(Tail(r)) : p + 1 = j
          <6>1. j - 1 \in 1..Len(Tail(r))
            BY <1>5, <4>5, <5>1
          <6> QED
            BY <5>1, <6>1
        <5>3. Tail(r)[p] = i
          BY <1>5, <5>1, <5>2
        <5>4. loads'[Depth].since = switches' /\ loads'[Depth].rest = Tail(r)
          BY <1>1, <1>10, <1>15, <4>1, <4>2, <4>5 DEF Top
        <5> QED
          BY <1>2, <1>15, <5>2, <5>3, <5>4 DEF Accounted
      <4> QED
        BY <4>3, <4>4, <4>5
    <3>5. CASE Shown(i) \/ (i \notin snap /\ i <= atSwitch) \/ (Carrying /\ i = checked)
      BY <1>1, <3>3, <3>5 DEF Accounted
    <3> QED
      BY <3>2, <3>4, <3>5 DEF Accounted
  <2> QED
    BY <2>1 DEF Complete
<1>25. Alone'
  BY <1>1, <1>2, <1>10, <1>15 DEF Inv, Alone, Top
<1>26. Pending' = Pending
  BY <1>10, <1>15 DEF Pending, Top
<1> QED
  BY <1>26, <1>15, <1>18, <1>19, <1>20, <1>21, <1>22, <1>23, <1>24, <1>25 DEF Body

-----------------------------------------------------------------------------
(* Types.                                                                   *)

LEMMA EndIsNat ==
  ASSUME TypeOK, NEW h \in Nat
  PROVE  End(h) \in Nat
<1>1. viewHeight \in Nat
  BY BoundsAssumption DEF TypeOK
<1> QED
  BY <1>1 DEF End

\* The window thread's walks.
LEMMA LoadTypes ==
  ASSUME Inv, loads' \in Seq(Load), shared' \in BOOLEAN, Load_Steps \/ CloseRefusal \/ CloseBox
  PROVE  TypeOK'
<1> USE DEF Inv
<1>1. CASE GetHistory
  BY <1>1 DEF GetHistory, TypeOK, chat, area, gateway, thread, switch, choice
<1>2. CASE ClearBegins
  BY <1>2 DEF ClearBegins, TypeOK, area, gateway, thread, switch, choice
<1>3. CASE Switch
  <2>1. Depth \in 1..Depth /\ Top \in Load
    <3>1. Depth \in 1..Depth
      BY <1>3, DepthIsNat DEF Switch, At
    <3> QED
      BY <3>1, LoadAt DEF Top
  <2>2. curChannel' \in Channels /\ switches' \in Nat /\ atSwitch' \in Nat
    <3>1. curChannel' = Top.ch /\ switches' = switches + 1 /\ atSwitch' = checked
      BY <1>3 DEF Switch
    <3>2. Top.ch \in Channels
      BY <2>1 DEF Load
    <3> QED
      BY <3>1, <3>2 DEF TypeOK
  <2>3. snap' \subseteq 1..Len(posted)
    <3>1. snap' = {Top.rest[i] : i \in 1..Len(Top.rest)}
      BY <1>3 DEF Switch
    <3> QED
      BY <2>1, <3>1 DEF LoadInv, Top
  <2> QED
    BY <1>3, <2>2, <2>3 DEF Switch, TypeOK, chat, area, gateway, thread, choice
<1>4. CASE SetPfp
  BY <1>4 DEF SetPfp, TypeOK, chat, area, gateway, thread, switch, choice
<1>5. CASE CountHistory
  <2>1. Depth \in 1..Depth /\ Top \in Load /\ Top.rest # <<>>
    <3>1. Depth \in 1..Depth /\ Top.pc = "count"
      BY <1>5, DepthIsNat DEF CountHistory, At
    <3> QED
      BY <3>1, LoadAt DEF LoadInv, Top, Holding
  <2>2. Top.rest \in Seq(Nat) /\ Top.ch \in Channels /\ Top.since \in Nat
    BY <2>1 DEF Load
  <2>3. Head(Top.rest) \in Nat
    BY <2>1, <2>2
  <2>4. [id |-> Head(Top.rest), ch |-> Top.ch, from |-> "history", since |-> Top.since] \in Entry
    BY <2>2, <2>3 DEF Entry
  <2>5. view' \in Seq(Entry)
    BY <1>5, <2>4, Adding DEF CountHistory
  <2> QED
    BY <1>5, <2>5 DEF CountHistory, TypeOK, area, gateway, thread, switch, choice
<1>6. CASE UpdateBegins
  BY <1>6 DEF UpdateBegins, PaintBegins, TypeOK, area, gateway, thread, switch, choice
<1>7. CASE UpdateEnds
  BY <1>7 DEF UpdateEnds, PaintEnds, TypeOK, area, gateway, thread, switch, choice
<1>8. CASE ScrollHistory
  <2>1. End(contentHeight) \in Nat
    BY EndIsNat DEF TypeOK
  <2>2. End(contentHeight) \in Int
    BY <2>1
  <2> QED
    BY <1>8, <2>2 DEF ScrollHistory, ScrollToEnd, TypeOK, gateway, thread, switch, choice
<1>9. CASE LoadEnds
  BY <1>9 DEF LoadEnds, TypeOK, chat, area, gateway, thread, switch, choice
<1>10. CASE CloseRefusal
  BY <1>10 DEF CloseRefusal, TypeOK, chat, area, gateway, thread, switch, choice
<1>11. CASE CloseBox
  BY <1>11 DEF CloseBox, TypeOK, chat, area, gateway, thread, switch, choice
<1>12. CASE ClearEnds
  BY <1>12 DEF ClearEnds, TypeOK, chat, area, gateway, thread, switch, choice
<1>13. CASE WriteHistory
  BY <1>13 DEF WriteHistory, TypeOK, chat, area, gateway, thread, switch, choice
<1> QED
  BY <1>1, <1>2, <1>3, <1>4, <1>5, <1>6, <1>7, <1>8, <1>9, <1>10, <1>11, <1>12, <1>13
     DEF Load_Steps

LEMMA OtherTypes ==
  ASSUME Inv, shared' \in BOOLEAN,
         \/ \E c \in Channels : Post(c) \/ \E dm \in BOOLEAN : Select(c, dm)
         \/ RepaintBegins \/ RepaintEnds \/ UserScrolls \/ Resize \/ Send
         \/ Receive \/ Gateway_Steps \/ UNCHANGED vars
  PROVE  TypeOK'
<1> USE DEF Inv
<1>0. ASSUME NEW c \in Channels, Post(c) PROVE TypeOK'
  <2>1. /\ posted' \in Seq(Channels) /\ Len(posted) \in Nat /\ Len(posted') = Len(posted) + 1
    BY <1>0 DEF Post, TypeOK
  <2>2. checked \in 0..Len(posted') /\ snap \subseteq 1..Len(posted')
    BY <2>1 DEF TypeOK
  <2> QED
    BY <1>0, <2>1, <2>2 DEF Post, TypeOK, chat, area, gateway, thread, window, switch, choice
<1>1. ASSUME NEW c \in Channels, NEW dm \in BOOLEAN, Select(c, dm) PROVE TypeOK'
  <2>1. loads' \in Seq(Load)
    BY <1>1, SelectKeeps
  <2>2. view' \in Seq(Entry)
    BY <1>1 DEF Select, TypeOK
  <2>3. overlapped' \in BOOLEAN /\ picked' \in Channels
    BY <1>1 DEF Select
  <2> QED
    BY <1>1, <2>1, <2>2, <2>3 DEF Select, TypeOK, area, gateway, thread, switch
<1>2. CASE RepaintBegins
  <2>1. repainting' \in BOOLEAN
    BY <1>2 DEF RepaintBegins
  <2>2. contentHeight' \in Nat
    BY <1>2 DEF RepaintBegins, PaintBegins, TypeOK
  <2> QED
    BY <1>2, <2>1, <2>2 DEF RepaintBegins, PaintBegins, TypeOK, area, gateway, thread, switch, choice
<1>3. CASE RepaintEnds
  <2>1. repainting' \in BOOLEAN
    BY <1>3 DEF RepaintEnds
  <2>2. contentHeight' \in Nat
    BY <1>3 DEF RepaintEnds, PaintEnds, TypeOK
  <2> QED
    BY <1>3, <2>1, <2>2 DEF RepaintEnds, PaintEnds, TypeOK, area, gateway, thread, switch, choice
<1>4. CASE UserScrolls
  <2>1. End(contentHeight) \in Nat
    BY EndIsNat DEF TypeOK
  <2>2. scrollOffset' \in Nat
    BY <1>4, <2>1 DEF UserScrolls
  <2>3. enlarged' \in BOOLEAN
    BY <1>4 DEF UserScrolls
  <2> QED
    BY <1>4, <2>2, <2>3 DEF UserScrolls, TypeOK, gateway, thread, window, switch, choice
<1>5. CASE Resize
  BY <1>5 DEF Resize, TypeOK, gateway, thread, window, switch, choice
<1>6. CASE Send
  <2>1. curChannel \in Channels /\ Post(curChannel)
    BY <1>6 DEF Send, TypeOK
  <2> QED
    BY <1>0, <2>1
<1>7. CASE Receive
  <2>1. /\ checked \in 0..Len(posted) /\ Len(posted) \in Nat /\ switches \in Nat
        /\ checked < Len(posted) /\ checked' = checked + 1
    BY <1>7 DEF Receive, TypeOK
  <2>2. checked' \in 0..Len(posted) /\ posted[checked + 1] \in Channels /\ checked + 1 \in Nat
    BY <2>1 DEF TypeOK
  <2>3. Live(checked + 1) \in Entry
    BY <2>1, <2>2 DEF Live, Entry
  <2>4. gmsg' \in Entry \cup {NoEntry} /\ gpc' \in {"idle", "append"}
    BY <1>7, <2>3 DEF Receive, TypeOK
  <2> QED
    BY <1>7, <2>2, <2>4 DEF Receive, TypeOK, chat, area, window, switch, choice
<1>8. CASE CountLive
  <2>1. gmsg \in Entry
    BY <1>8 DEF CountLive, Decided, Carrying
  <2>2. view' \in Seq(Entry)
    BY <1>8, <2>1, Adding DEF CountLive
  <2> QED
    BY <1>8, <2>2 DEF CountLive, TypeOK, area, window, switch, choice
<1>9. CASE WriteLive \/ InvalidateLive \/ CompareLive
  BY <1>9 DEF WriteLive, InvalidateLive, CompareLive, TypeOK, chat, area, thread, window, switch,
              choice
<1>10. CASE UpdateLive
  <2>1. contentHeight' \in Nat /\ invalid' \in BOOLEAN
    <3>1. Len(view) \in Nat /\ contentHeight \in Nat /\ invalid \in BOOLEAN
      BY DEF TypeOK
    <3> QED
      BY <1>10, <3>1 DEF UpdateLive
  <2> QED
    BY <1>10, <2>1 DEF UpdateLive, TypeOK, area, thread, window, switch, choice
<1>12. CASE MeasureLive
  <2>1. viewHeight \in Nat
    BY BoundsAssumption DEF TypeOK
  <2> QED
    BY <1>12, <2>1 DEF MeasureLive, TypeOK, chat, area, window, switch, choice
<1>13. CASE AssignLive
  BY <1>13 DEF AssignLive, TypeOK, chat, area, window, switch, choice
<1>14. CASE ScrollLive
  <2>1. enlarged' \in BOOLEAN
    BY <1>14 DEF ScrollLive
  <2> QED
    BY <1>14, <2>1 DEF ScrollLive, TypeOK, window, switch, choice
<1>11. CASE UNCHANGED vars
  BY <1>11 DEF TypeOK, vars, chat, area, gateway, thread, window, switch, choice
<1> QED
  BY <1>0, <1>1, <1>2, <1>3, <1>4, <1>5, <1>6, <1>7, <1>8, <1>9, <1>10, <1>11, <1>12, <1>13,
     <1>14
     DEF Gateway_Steps

-----------------------------------------------------------------------------
(* The height and the scroll position up to the second selection.           *)

LEMMA SelectedIs ==
  ASSUME TypeOK
  PROVE  /\ IsFiniteSet(Pending) /\ Cardinality(Pending) \in Nat
         /\ Selected = switches + Cardinality(Pending) /\ Selected \in Nat
<1>1. IsFiniteSet(1..Depth)
  BY DepthIsNat, FS_Interval
<1>2. Pending \subseteq 1..Depth
  BY DEF Pending
<1>3. IsFiniteSet(Pending) /\ Cardinality(Pending) \in Nat
  BY <1>1, <1>2, FS_Subset, FS_CardinalityType
<1>4. Selected = switches + Cardinality(Pending)
  BY DEF Selected, Pending
<1> QED
  BY <1>3, <1>4 DEF TypeOK

LEMMA SelectedSame ==
  ASSUME Pending' = Pending, switches' = switches
  PROVE  Selected' = Selected
BY DEF Selected, Pending

\* Nothing has been shown before the first switch.
LEMMA FirstPending ==
  ASSUME Inv, Pending # {}, Selected <= 1
  PROVE  view = <<>>
<1>1. Cardinality(Pending) # 0 /\ Cardinality(Pending) \in Nat
  BY SelectedIs, FS_EmptySet DEF Inv
<1>2. switches \in Nat /\ Selected = switches + Cardinality(Pending)
  BY SelectedIs DEF Inv, TypeOK
<1>3. switches = 0
  BY <1>1, <1>2
<1> QED
  BY <1>3 DEF Inv, Before

LEMMA EndGrows ==
  ASSUME TypeOK, NEW h \in Nat, NEW g \in Nat, h <= g
  PROVE  End(h) <= End(g)
<1>1. viewHeight \in Nat
  BY BoundsAssumption DEF TypeOK
<1> QED
  BY <1>1 DEF End

\* What a step may do to the height and the position of a list that does not
\* get shorter.
Scrolled ==
  \/ UNCHANGED <<contentHeight, scrollOffset, area>>
  \/ PaintBegins \/ ScrollToEnd \/ ScrollLive
  \/ contentHeight' = Len(view) /\ UNCHANGED <<view, scrollOffset, area>>
  \/ /\ scrollOffset' \in 0..End(contentHeight)
     /\ UNCHANGED <<contentHeight, viewHeight, view>>
  \/ /\ viewHeight' \in ViewHeights
     /\ enlarged' = (enlarged \/ viewHeight' > viewHeight)
     /\ UNCHANGED <<contentHeight, scrollOffset, view>>

LEMMA HeightsKept ==
  ASSUME Inv, Scrolled, Selected' <= 1 => Selected <= 1,
         Len(view') \in Nat, Len(view) <= Len(view')
  PROVE  Heights'
<1>1. SUFFICES ASSUME Selected' <= 1
               PROVE  /\ contentHeight' <= Len(view')
                      /\ ~enlarged' => scrollOffset' <= End(Len(view))'
  BY DEF Heights
<1>2. /\ contentHeight <= Len(view)
      /\ ~enlarged => scrollOffset <= End(Len(view))
  BY <1>1 DEF Inv, Heights
<1>3. /\ Len(view) \in Nat /\ contentHeight \in Nat /\ scrollOffset \in Int
      /\ viewHeight \in Nat
  BY BoundsAssumption DEF Inv, TypeOK
<1>4. End(Len(view)) \in Nat /\ End(contentHeight) \in Nat /\ End(Len(view')) \in Nat
  BY <1>3, EndIsNat DEF Inv
<1>5. End(Len(view)) <= End(Len(view')) /\ End(contentHeight) <= End(Len(view))
  BY <1>2, <1>3, EndGrows DEF Inv
<1>6. viewHeight' = viewHeight => End(Len(view))' = End(Len(view'))
  BY DEF End
<1>7. CASE UNCHANGED <<contentHeight, scrollOffset, area>>
  BY <1>2, <1>3, <1>4, <1>5, <1>6, <1>7 DEF area
<1>8. CASE \/ PaintBegins
           \/ contentHeight' = Len(view) /\ UNCHANGED <<view, scrollOffset, area>>
  <2>1. UNCHANGED <<scrollOffset, viewHeight, enlarged>>
    BY <1>8 DEF PaintBegins, area
  <2>2. contentHeight' <= Len(view')
    BY <1>3, <1>8 DEF PaintBegins
  <2> QED
    BY <1>2, <1>3, <1>4, <1>5, <1>6, <2>1, <2>2
<1>9. CASE ScrollToEnd
  BY <1>2, <1>3, <1>4, <1>5, <1>6, <1>9 DEF ScrollToEnd
<1>10. CASE /\ scrollOffset' \in 0..End(contentHeight)
            /\ UNCHANGED <<contentHeight, viewHeight, view>>
  BY <1>2, <1>3, <1>4, <1>5, <1>6, <1>10
<1>11. CASE /\ viewHeight' \in ViewHeights
            /\ enlarged' = (enlarged \/ viewHeight' > viewHeight)
            /\ UNCHANGED <<contentHeight, scrollOffset, view>>
  <2>1. viewHeight' \in Nat
    BY <1>11, BoundsAssumption
  <2>2. ASSUME ~enlarged' PROVE ~enlarged /\ viewHeight' <= viewHeight
    <3>1. ~(enlarged \/ viewHeight' > viewHeight)
      BY <1>11, <2>2, Zenon
    <3> QED
      BY <1>3, <2>1, <3>1
  <2>3. viewHeight' <= viewHeight => End(Len(view)) <= End(Len(view))'
    BY <1>3, <1>11, <2>1 DEF End
  <2>4. End(Len(view))' \in Nat
    BY <1>3, <1>11, <2>1 DEF End
  <2> QED
    BY <1>2, <1>3, <1>4, <1>11, <2>2, <2>3, <2>4
<1>12. CASE ScrollLive
  <2>1. /\ gpc = "store" /\ scrollOffset' = goffset /\ enlarged' = (viewHeight > gheight)
        /\ UNCHANGED <<view, contentHeight, viewHeight>>
    BY <1>12 DEF ScrollLive
  <2>2. goffset \in Int /\ gheight \in Nat
    BY DEF Inv, TypeOK
  <2>3. goffset <= 0 \/ goffset + gheight <= Len(view)
    BY <1>1, <2>1 DEF Inv, Measured
  <2>4. ASSUME ~enlarged' PROVE goffset <= End(Len(view))
    <3>1. viewHeight <= gheight
      <4>1. ~(viewHeight > gheight)
        BY <2>1, <2>4, Zenon
      <4> QED
        BY <1>3, <2>2, <4>1
    <3> QED
      BY <1>3, <2>2, <2>3, <3>1 DEF End
  <2> QED
    BY <1>2, <1>6, <2>1, <2>4
<1> QED
  BY <1>7, <1>8, <1>9, <1>10, <1>11, <1>12 DEF Scrolled

\* What a step may do to what the gateway thread has measured.
Gauged ==
  \/ UNCHANGED <<gpc, gheight, goffset>>
  \/ gpc # "store" /\ gpc' \notin {"assign", "store"} /\ goffset' = goffset
  \/ CompareLive \/ AssignLive \/ ScrollLive

LEMMA MeasuredKept ==
  ASSUME Inv, Gauged, Selected' <= 1 => Selected <= 1,
         Len(view') \in Nat, Len(view) <= Len(view')
  PROVE  Measured'
<1>1. /\ Len(view) \in Nat /\ contentHeight \in Nat /\ gheight \in Nat /\ goffset \in Int
      /\ gheight' = gheight => gheight' \in Nat
  BY DEF Inv, TypeOK
<1>2. Measured /\ (Selected <= 1 => contentHeight <= Len(view))
  BY DEF Inv, Heights
<1>3. CASE UNCHANGED <<gpc, gheight, goffset>>
  BY <1>1, <1>2, <1>3 DEF Measured
<1>4. CASE gpc # "store" /\ gpc' \notin {"assign", "store"} /\ goffset' = goffset
  BY <1>2, <1>4 DEF Measured
<1>5. CASE CompareLive
  <2>1. /\ gpc = "compare" /\ gpc' = IF contentHeight > gheight THEN "assign" ELSE "store"
        /\ UNCHANGED <<gheight, goffset, view>>
    BY <1>5 DEF CompareLive, thread, chat
  <2>2. goffset = 0
    BY <1>2, <2>1 DEF Measured
  <2>3. Selected' <= 1 /\ gpc' = "assign" => gheight < Len(view)
    BY <1>1, <1>2, <2>1
  <2> QED
    BY <2>1, <2>2, <2>3 DEF Measured
<1>6. CASE AssignLive
  <2>1. /\ gpc = "assign" /\ gpc' = "store" /\ goffset' = contentHeight - gheight
        /\ UNCHANGED <<gheight, view>>
    BY <1>6 DEF AssignLive, chat
  <2>2. Selected' <= 1 => goffset' + gheight <= Len(view)
    BY <1>1, <1>2, <2>1
  <2> QED
    BY <2>1, <2>2 DEF Measured
<1>7. CASE ScrollLive
  BY <1>7 DEF ScrollLive, Measured
<1> QED
  BY <1>3, <1>4, <1>5, <1>6, <1>7 DEF Gauged


\* A list that is empty and stays so.
LEMMA EmptyHeights ==
  ASSUME Inv, Selected' <= 1 => Selected <= 1 /\ view = <<>>,
         view' = view \/ view' = <<>>, UNCHANGED <<contentHeight, scrollOffset, area, gateway>>
  PROVE  Heights' /\ Measured'
<1>1. CASE Selected' <= 1
  <2>1. /\ view' = view /\ viewHeight' = viewHeight /\ enlarged' = enlarged
        /\ UNCHANGED <<gpc, gheight, goffset>>
    BY <1>1 DEF area, gateway, thread
  <2>2. Heights'
    BY <1>1, <2>1 DEF Inv, Heights, End
  <2>3. Measured'
    BY <1>1, <2>1 DEF Inv, Measured
  <2> QED
    BY <2>2, <2>3
<1>2. CASE ~(Selected' <= 1)
  BY <1>2 DEF Inv, Heights, Measured, gateway, thread
<1> QED
  BY <1>1, <1>2

LEMMA CalmSelected ==
  ASSUME Calm
  PROVE  Selected' = Selected
<1>1. Pending' = Pending
  BY DEF Calm, Pending
<1> QED
  BY <1>1, SelectedSame DEF Calm

-----------------------------------------------------------------------------
(* The invariant holds initially and is kept.                               *)

LEMMA InitInv == Init => Inv
<1> SUFFICES ASSUME Init PROVE Inv
  OBVIOUS
<1>1. TypeOK
  <2>1. /\ enlarged \in BOOLEAN /\ repainting \in BOOLEAN /\ overlapped \in BOOLEAN
        /\ invalid \in BOOLEAN /\ shared \in BOOLEAN
    BY DEF Init
  <2>2. posted \in Seq(Channels) /\ view \in Seq(Entry) /\ loads \in Seq(Load)
    BY DEF Init
  <2>3. checked \in 0..Len(posted) /\ snap \subseteq 1..Len(posted)
    BY DEF Init
  <2> QED
    BY <2>1, <2>2, <2>3 DEF Init, TypeOK
<1>2. LoadInv /\ Decided /\ Before /\ Chosen
  BY DEF Init, LoadInv, Decided, Before, Chosen, Depth, Carrying
<1>3. HistoryInOrder /\ LiveInOrder /\ Complete /\ Alone
  BY DEF Init, HistoryInOrder, LiveInOrder, Complete, Alone, Depth
<1>4. Heights
  <2>1. viewHeight \in Nat
    BY <1>1, BoundsAssumption DEF TypeOK
  <2> QED
    BY <2>1 DEF Init, Heights, End
<1>5. Measured
  BY DEF Init, Measured
<1> QED
  BY <1>1, <1>2, <1>3, <1>4, <1>5 DEF Inv

LEMMA CalmKeepsInv ==
  ASSUME Inv, Calm, LoadInv', TypeOK', Scrolled, Gauged
  PROVE  Inv'
<1>1. view' = view /\ Len(view) \in Nat
  BY DEF Calm, Inv, TypeOK
<1>2. Heights' /\ Measured'
  BY <1>1, CalmSelected, HeightsKept, MeasuredKept
<1> QED
  BY <1>2, CalmKeepsOrder, CalmKeepsShown DEF Inv

LEMMA LoadKeepsInv ==
  ASSUME Inv, shared' \in BOOLEAN, Load_Steps \/ CloseRefusal \/ CloseBox
  PROVE  Inv'
<1>1. view \in Seq(Entry) /\ Len(view) \in Nat
  BY DEF Inv, TypeOK
<1>0. UNCHANGED gateway /\ Gauged
  <2>1. UNCHANGED gateway
    BY DEF Load_Steps, GetHistory, ClearBegins, ClearEnds, Switch, SetPfp, WriteHistory,
           CountHistory, UpdateBegins, UpdateEnds, ScrollHistory, LoadEnds, CloseRefusal, CloseBox
  <2> QED
    BY <2>1 DEF Gauged, gateway, thread
<1>2. CASE \/ (GetHistory /\ Goto("refused")) \/ CloseRefusal \/ ClearEnds \/ SetPfp
           \/ CloseBox \/ WriteHistory \/ UpdateBegins \/ UpdateEnds \/ ScrollHistory
  <2>1. LoadInv' /\ Calm
    BY <1>2, WalkingSteps
  <2>2. TypeOK'
    BY <1>2, <2>1, LoadTypes DEF Calm, Load_Steps
  <2>3. Scrolled
    BY <1>2 DEF Scrolled, GetHistory, CloseRefusal, ClearEnds, SetPfp, CloseBox, WriteHistory,
                UpdateBegins, UpdateEnds, PaintEnds, ScrollHistory, chat
  <2> QED
    BY <1>0, <2>1, <2>2, <2>3, CalmKeepsInv
<1>3. CASE GetHistory /\ ~Goto("refused")
  <2>1. Body' /\ loads' \in Seq(Load) /\ Pending' = Pending
    BY <1>3, GetHistoryKeeps
  <2>2. Scrolled /\ switches' = switches /\ view' = view
    BY <1>3 DEF GetHistory, Scrolled, chat, switch
  <2>3. Heights' /\ Measured'
    BY <1>0, <1>1, <2>1, <2>2, SelectedSame, HeightsKept, MeasuredKept
  <2> QED
    BY <2>1, <2>3, LoadTypes DEF Inv, Body
<1>4. CASE ClearBegins
  <2>1. Body' /\ loads' \in Seq(Load) /\ Pending' = Pending /\ Depth \in Pending
    BY <1>4, ClearKeeps
  <2>2. switches' = switches /\ view' = <<>> /\ UNCHANGED <<contentHeight, scrollOffset, area>>
    BY <1>4 DEF ClearBegins, switch
  <2>3. Selected' = Selected
    BY <2>1, <2>2, SelectedSame
  <2>4. Heights' /\ Measured'
    BY <1>0, <2>1, <2>2, <2>3, FirstPending, EmptyHeights
  <2> QED
    BY <2>1, <2>4, LoadTypes DEF Inv, Body, Load_Steps
<1>5. CASE Switch
  <2>1. /\ Body' /\ loads' \in Seq(Load)
        /\ Depth \in Pending /\ Pending' = Pending \ {Depth}
    BY <1>5, SwitchKeeps
  <2>2. Scrolled /\ switches' = switches + 1 /\ view' = view
    BY <1>5 DEF Switch, Scrolled, chat
  <2>3. TypeOK'
    BY <1>5, <2>1, LoadTypes DEF Load_Steps
  <2>4. Selected' = Selected
    <3>1. /\ IsFiniteSet(Pending) /\ Cardinality(Pending) \in Nat
          /\ Selected = switches + Cardinality(Pending) /\ switches \in Nat
      BY SelectedIs DEF Inv, TypeOK
    <3>2. Cardinality(Pending') = Cardinality(Pending) - 1
      BY <2>1, <3>1, FS_RemoveElement
    <3>3. Selected' = switches' + Cardinality(Pending')
      BY DEF Selected, Pending
    <3> QED
      BY <2>2, <3>1, <3>2, <3>3
  <2>5. Heights' /\ Measured'
    BY <1>0, <1>1, <2>2, <2>4, HeightsKept, MeasuredKept
  <2> QED
    BY <2>1, <2>3, <2>5 DEF Inv, Body
<1>6. CASE CountHistory
  <2>1. Body' /\ loads' \in Seq(Load) /\ Pending' = Pending
    BY <1>6, CountHistoryKeeps
  <2>2. TypeOK'
    BY <1>6, <2>1, LoadTypes DEF Load_Steps
  <2>3. Scrolled /\ switches' = switches
    BY <1>6 DEF CountHistory, Scrolled, switch
  <2>4. Len(view') \in Nat /\ Len(view) <= Len(view')
    BY <1>1, <1>6 DEF CountHistory
  <2>5. Heights' /\ Measured'
    BY <1>0, <2>1, <2>3, <2>4, SelectedSame, HeightsKept, MeasuredKept
  <2> QED
    BY <2>1, <2>2, <2>5 DEF Inv, Body
<1>7. CASE LoadEnds
  <2>1. Body' /\ loads' \in Seq(Load) /\ Pending' = Pending
    BY <1>7, LoadEndsKeeps
  <2>2. Scrolled /\ switches' = switches /\ view' = view
    BY <1>7 DEF LoadEnds, Scrolled, chat, switch
  <2>3. Heights' /\ Measured'
    BY <1>0, <1>1, <2>1, <2>2, SelectedSame, HeightsKept, MeasuredKept
  <2> QED
    BY <1>7, <2>1, <2>3, LoadTypes DEF Inv, Body, Load_Steps
<1> QED
  BY <1>2, <1>3, <1>4, <1>5, <1>6, <1>7 DEF Load_Steps

LEMMA RestKeepsInv ==
  ASSUME Inv, shared' \in BOOLEAN,
         \/ RepaintBegins \/ RepaintEnds \/ UserScrolls \/ Resize
         \/ Aside \/ UNCHANGED vars
  PROVE  Inv'
<1>1. LoadInv' /\ Calm
  BY RestingSteps
<1>2. TypeOK'
  BY OtherTypes DEF Gateway_Steps, Aside
<1>3. Scrolled
  <2>1. CASE Aside
    BY <2>1 DEF Scrolled, Aside, WriteLive, InvalidateLive, UpdateLive, MeasureLive, CompareLive,
                AssignLive, chat
  <2>2. CASE RepaintBegins \/ RepaintEnds \/ UserScrolls \/ Resize \/ UNCHANGED vars
    BY <2>2 DEF Scrolled, RepaintBegins, RepaintEnds, PaintEnds, UserScrolls, Resize, vars, chat
  <2> QED
    BY <2>1, <2>2
<1>4. Gauged
  <2>1. CASE Aside
    BY <2>1 DEF Gauged, Aside, WriteLive, InvalidateLive, UpdateLive, MeasureLive, thread
  <2>2. CASE RepaintBegins \/ RepaintEnds \/ UserScrolls \/ Resize \/ UNCHANGED vars
    BY <2>2 DEF Gauged, RepaintBegins, RepaintEnds, UserScrolls, Resize, vars, gateway, thread
  <2> QED
    BY <2>1, <2>2
<1> QED
  BY <1>1, <1>2, <1>3, <1>4, CalmKeepsInv

LEMMA ArrivalKeepsInv ==
  ASSUME Inv, shared' \in BOOLEAN, (\E c \in Channels : Post(c)) \/ Send \/ Receive \/ CountLive
  PROVE  Inv'
<1>1. Body' /\ UNCHANGED loads /\ UNCHANGED switches
  <2>1. ASSUME NEW c \in Channels, Post(c) PROVE Body' /\ UNCHANGED loads /\ UNCHANGED switches
    BY <2>1, PostKeeps DEF Post, window, switch
  <2>2. CASE Send
    <3>1. curChannel \in Channels /\ Post(curChannel)
      BY <2>2 DEF Send, Inv, TypeOK
    <3> QED
      BY <2>1, <3>1
  <2>3. CASE Receive
    BY <2>3, ReceiveKeeps DEF Receive, window, switch
  <2>4. CASE CountLive
    BY <2>4, CountLiveKeeps DEF CountLive, window, switch
  <2> QED
    BY <2>1, <2>2, <2>3, <2>4
<1>2. TypeOK'
  BY OtherTypes DEF Gateway_Steps
<1>3. Scrolled
  BY DEF Scrolled, Send, Post, Receive, CountLive, chat
<1>4. Len(view') \in Nat /\ Len(view) <= Len(view')
  <2>1. view \in Seq(Entry) /\ Len(view) \in Nat
    BY DEF Inv, TypeOK
  <2>2. CASE view' = view
    BY <2>1, <2>2
  <2>3. CASE CountLive
    BY <2>1, <2>3 DEF CountLive
  <2> QED
    BY <2>2, <2>3 DEF Send, Post, Receive, chat
<1>5. Selected' = Selected
  <2>1. Pending' = Pending
    BY <1>1 DEF Pending, Depth
  <2> QED
    BY <1>1, <2>1, SelectedSame
<1>6. Gauged
  BY DEF Gauged, Send, Post, Receive, CountLive, gateway, thread
<1>7. Heights' /\ Measured'
  BY <1>3, <1>4, <1>5, <1>6, HeightsKept, MeasuredKept
<1> QED
  BY <1>1, <1>2, <1>7 DEF Inv, Body

LEMMA SelectKeepsInv ==
  ASSUME Inv, shared' \in BOOLEAN, NEW c \in Channels, NEW dm \in BOOLEAN, Select(c, dm)
  PROVE  Inv'
<1>1. /\ Body' /\ loads' \in Seq(Load)
      /\ Depth + 1 \notin Pending /\ Pending' = Pending \cup {Depth + 1}
  BY SelectKeeps
<1>2. /\ UNCHANGED <<switches, contentHeight, scrollOffset, area, gateway>>
      /\ view' = view \/ view' = <<>>
  BY DEF Select, switch
<1>3. TypeOK'
  BY OtherTypes
<1>4. Selected \in Nat /\ Selected' = Selected + 1
  <2>1. /\ IsFiniteSet(Pending) /\ Cardinality(Pending) \in Nat
        /\ Selected = switches + Cardinality(Pending) /\ switches \in Nat
    BY SelectedIs DEF Inv, TypeOK
  <2>2. Cardinality(Pending') = Cardinality(Pending) + 1
    BY <1>1, <2>1, FS_AddElement
  <2>3. Selected' = switches' + Cardinality(Pending')
    BY DEF Selected, Pending
  <2> QED
    BY <1>2, <2>1, <2>2, <2>3
<1>5. Selected' <= 1 => Selected <= 1 /\ view = <<>>
  <2>1. Selected' <= 1 => Selected = 0
    BY <1>4
  <2>2. Selected = 0 => switches = 0
    BY SelectedIs DEF Inv, TypeOK
  <2> QED
    BY <2>1, <2>2 DEF Inv, Before
<1>6. Heights' /\ Measured'
  BY <1>2, <1>5, EmptyHeights
<1> QED
  BY <1>1, <1>3, <1>6 DEF Inv, Body

LEMMA StepInv == Inv /\ [Next]_vars => Inv'
<1> SUFFICES ASSUME Inv, [Next]_vars PROVE Inv'
  OBVIOUS
<1>0. shared' \in BOOLEAN
  BY DEF Inv, TypeOK, Next, BothInList, vars
<1>1. CASE Load_Steps \/ CloseRefusal \/ CloseBox
  BY <1>0, <1>1, LoadKeepsInv
<1>2. CASE \/ RepaintBegins \/ RepaintEnds \/ UserScrolls \/ Resize
           \/ Aside \/ UNCHANGED vars
  BY <1>0, <1>2, RestKeepsInv
<1>3. CASE (\E c \in Channels : Post(c)) \/ Send \/ Receive \/ CountLive
  BY <1>0, <1>3, ArrivalKeepsInv
<1>4. CASE \E c \in Channels : \E dm \in BOOLEAN : Select(c, dm)
  BY <1>0, <1>4, SelectKeepsInv
<1> QED
  BY <1>1, <1>2, <1>3, <1>4 DEF Next, Steps, Gateway_Steps, Aside

LEMMA InvHolds == Spec => []Inv
BY InitInv, StepInv, PTL DEF Spec

-----------------------------------------------------------------------------
(* What follows.                                                            *)

\* Every variable of the chat view keeps its type; the snapshot of a switch
\* holds posted messages only, and the gateway thread is never ahead of what
\* was posted.
THEOREM TypeCorrect == Spec => []TypeOK
<1>1. Inv => TypeOK
  BY DEF Inv
<1> QED
  BY <1>1, InvHolds, PTL

\* Messages chosen under the current curChannel are of that channel, however
\* selections nest and whatever arrives in between: onDiscordReceiveMessage and
\* the loading in WindowProc both go by a channel that was curChannel then.  A
\* message of another channel, from a load or from the gateway thread, was
\* chosen under an earlier one.
THEOREM StraysExplained == Spec => []StraysAreStale
<1>1. Inv => StraysAreStale
  BY DEF Inv, Chosen, StraysAreStale
<1> QED
  BY <1>1, InvHolds, PTL

\* Each thread adds the messages it chooses under one curChannel in order and
\* none of them twice, also when a load is suspended in a box while other loads
\* run.  Nothing is said of a message of one thread and one of the other.
THEOREM OrderKept == Spec => []InOrder
<1>1. Inv => InOrder
  <2> SUFFICES ASSUME Inv, NEW i \in 1..Len(view), NEW j \in 1..Len(view),
                      i < j, view[i].from = view[j].from, view[i].since = view[j].since
               PROVE  view[i].id < view[j].id
    BY DEF InOrder
  <2>1. view[i].from \in {"history", "live"}
    BY EntryAt DEF Inv
  <2>2. CASE view[i].from = "history"
    BY <2>2 DEF Inv, HistoryInOrder
  <2>3. CASE view[i].from = "live"
    BY <2>3 DEF Inv, LiveInOrder
  <2> QED
    BY <2>1, <2>2, <2>3
<1> QED
  BY <1>1, InvHolds, PTL

\* With nothing loading, a message of the open channel that the gateway thread
\* is done with is only missing if it was delivered between the fetching of the
\* history and the assignment of curChannel, as long as the two threads have
\* not been in uimsgs at the same time.
THEOREM OnlyGapIsMissing == Spec => []MissingOnlyFromGap
<1>1. Inv => MissingOnlyFromGap
  <2> SUFFICES ASSUME Inv, loads = <<>>, gpc = "idle",
                      NEW i \in 1..checked, posted[i] = curChannel
               PROVE  Shown(i) \/ (i \notin snap /\ i <= atSwitch)
    BY DEF MissingOnlyFromGap
  <2>1. 1..Depth = {} /\ ~Carrying
    BY DEF Depth, Carrying
  <2>2. Accounted(i)
    BY <2>1 DEF Inv, Complete
  <2> QED
    BY <2>1, <2>2 DEF Accounted
<1> QED
  BY <1>1, InvHolds, PTL

\* Until a second selection, and unless the view has grown since its height was
\* measured, InsertChatMessage never scrolls past the end of the list, whichever
\* WM_PAINT it raced with.
THEOREM NotPastEnd == Spec => []ScrollNotPastEnd
<1>1. Inv => ScrollNotPastEnd
  BY DEF Inv, Heights, ScrollNotPastEnd
<1> QED
  BY <1>1, InvHolds, PTL

\* With nothing loading, the channel that DiscordSendMessage is given is the
\* one selected last, unless that selection overlapped another one's loading.
THEOREM SendsToPicked == Spec => []SentToPicked
<1>1. Inv => SentToPicked
  <2> SUFFICES ASSUME Inv, loads = <<>>, ~overlapped PROVE curChannel = picked
    BY DEF SentToPicked
  <2>1. Depth = 0
    BY DEF Depth
  <2> QED
    BY <2>1 DEF Inv, Alone
<1> QED
  BY <1>1, InvHolds, PTL
=============================================================================
