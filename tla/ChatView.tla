------------------------------ MODULE ChatView ------------------------------
(***************************************************************************)
(* The message list and the two threads that fill it: the window thread    *)
(* loads a channel's history when one is selected (WindowProc), and the    *)
(* gateway thread adds the messages that arrive for the open channel       *)
(* (onDiscordReceiveMessage).  Nothing in chatwnd.c locks.                 *)
(*                                                                         *)
(* A message is its number in the order of posting, which is also the      *)
(* order in which the gateway delivers.  Every message is one unit high.   *)
(* What happens once both threads are in uimsgs at the same time (shared)  *)
(* is not modelled here: that is MessageStore.                             *)
(***************************************************************************)
EXTENDS Integers, Sequences, FiniteSets

CONSTANTS Channels,
          NoChannel,     \* curChannel == NULL
          HistoryLimit,  \* messages asked of DiscordGetChannelHistory (50)
          ViewHeights,   \* units that fit into the window, small and large
          MaxPosts,      \* bound: messages posted
          MaxSelects,    \* bound: channels selected
          MaxNest        \* bound: loads under way at once

ASSUME ChannelsAssumption == NoChannel \notin Channels
ASSUME BoundsAssumption ==
  /\ {HistoryLimit, MaxPosts, MaxSelects, MaxNest} \subseteq Nat
  /\ ViewHeights \subseteq Nat

VARIABLES
  posted,         \* channel of every message, in order of posting
  curChannel,
  switches,       \* how often curChannel was set
  view,           \* cwnd->uimsgs
  contentHeight,
  scrollOffset,
  viewHeight,     \* of the client area
  loads,          \* handlers of the window thread, the running one last
  invalid,        \* the window has something to paint
  repainting,     \* the window thread is in a WM_PAINT of its own
  gpc,            \* gateway thread: "idle", "append", "count", "invalidate",
                  \*   "update", "measure", "compare", "assign" or "store"
  gmsg,           \* the entry it is adding
  gheight,        \* its viewHeight, as measured
  goffset,        \* the scroll position it has computed
  checked,        \* messages onDiscordReceiveMessage has been called for
  snap,           \* history: what the last switch was loaded with
  atSwitch,       \* history: checked at that switch
  picked,         \* the channel the user selected last
  overlapped,     \* history: it was selected while another one was loading
  enlarged,       \* history: the view has grown since the height was measured
                  \*   that scrollOffset was set for
  shared          \* history: both threads were in uimsgs at the same time

area    == <<viewHeight, enlarged>>
chat    == <<view, contentHeight, scrollOffset, area, invalid>>
thread  == <<gmsg, checked, gheight, goffset>>
gateway == <<gpc, thread>>
window  == <<loads, repainting>>
switch  == <<curChannel, switches, snap, atSwitch>>
choice  == <<picked, overlapped>>
vars    == <<posted, chat, gateway, window, switch, choice, shared>>

\* since is the switch under which the entry was chosen for the view.
Entry == [id : Nat, ch : Channels, from : {"history", "live"}, since : Nat]
Load  == [ch : Channels, rest : Seq(Nat), since : Nat,
          pc : {"emptying", "history", "refused", "clear", "clearing", "switch", "pfp", "box",
                "append", "count", "paint", "painting", "scroll"}]
NoEntry == [id |-> 0, ch |-> NoChannel, from |-> "live", since |-> 0]

TypeOK ==
  /\ posted \in Seq(Channels)
  /\ curChannel \in Channels \cup {NoChannel}
  /\ switches \in Nat /\ atSwitch \in Nat /\ checked \in 0..Len(posted)
  /\ view \in Seq(Entry)
  /\ contentHeight \in Nat /\ scrollOffset \in Int
  /\ loads \in Seq(Load)
  /\ repainting \in BOOLEAN /\ invalid \in BOOLEAN /\ shared \in BOOLEAN
  /\ gpc \in {"idle", "append", "count", "invalidate", "update", "measure", "compare",
              "assign", "store"}
  /\ gmsg \in Entry \cup {NoEntry}
  /\ gheight \in Nat /\ goffset \in Int
  /\ snap \subseteq 1..Len(posted)
  /\ viewHeight \in ViewHeights /\ enlarged \in BOOLEAN
  /\ picked \in Channels \cup {NoChannel} /\ overlapped \in BOOLEAN

Init ==
  /\ posted = <<>>
  /\ curChannel = NoChannel /\ switches = 0 /\ snap = {} /\ atSwitch = 0
  /\ view = <<>> /\ contentHeight = 0 /\ scrollOffset = 0
  /\ viewHeight \in ViewHeights /\ enlarged = FALSE
  /\ loads = <<>> /\ repainting = FALSE /\ invalid = FALSE /\ shared = FALSE
  /\ picked = NoChannel /\ overlapped = FALSE
  /\ gpc = "idle" /\ gmsg = NoEntry /\ checked = 0 /\ gheight = 0 /\ goffset = 0

-----------------------------------------------------------------------------
(* The channel's messages.                                                  *)

\* Somebody posts a message.
Post(c) ==
  /\ Len(posted) < MaxPosts
  /\ posted' = Append(posted, c)
  /\ UNCHANGED <<chat, gateway, window, switch, choice>>

Of(c) == {i \in 1..Len(posted) : posted[i] = c}

\* The last HistoryLimit messages of c.
Latest(c) == {i \in Of(c) : Cardinality({j \in Of(c) : j > i}) < HistoryLimit}

Ascending(s) == \A i, j \in 1..Len(s) : i < j => s[i] < s[j]

\* They come oldest first: the reply is newest first, and WindowProc inserts it
\* from its end.
History(c) == {h \in [1..Cardinality(Latest(c)) -> Latest(c)] : Ascending(h)}

-----------------------------------------------------------------------------
(* The window thread.  A handler runs to its end, except in a message box,  *)
(* whose loop dispatches window messages: the next selection, a repaint.    *)

Depth    == Len(loads)
Top      == loads[Depth]
At(pc)   == ~repainting /\ Depth > 0 /\ Top.pc = pc
InLoop   == ~repainting /\ (Depth > 0 => Top.pc \in {"refused", "box"})
Goto(pc) == loads' = [loads EXCEPT ![Depth].pc = pc]

\* Channels selected so far: those switched to and those being loaded.
Selected == switches + Cardinality({k \in 1..Depth : loads[k].since = 0})

\* TVN_SELCHANGED; the handler of the DM list begins with ClearChatControl.
Select(c, dm) ==
  /\ InLoop
  /\ Selected < MaxSelects /\ Depth < MaxNest
  /\ loads' = Append(loads, [ch |-> c, rest |-> <<>>, since |-> 0, pc |-> IF dm THEN "emptying" ELSE "history"])
  /\ view' = IF dm THEN <<>> ELSE view
  /\ picked' = c /\ overlapped' = (Depth > 0)
  /\ UNCHANGED <<posted, contentHeight, scrollOffset, area, invalid, repainting, gateway, switch>>

\* DiscordGetChannelHistory returns, with nothing when the reply is no array;
\* or its request fails, which opens a box first.
GetHistory ==
  /\ At("history")
  /\ \/ \E h \in History(Top.ch) \cup {<<>>} :
          loads' = [loads EXCEPT ![Depth].rest = h, ![Depth].pc = "clear"]
     \/ Goto("refused")
  /\ UNCHANGED <<posted, chat, repainting, gateway, switch, choice>>

CloseRefusal ==
  /\ At("refused")
  /\ Goto("clear")
  /\ UNCHANGED <<posted, chat, repainting, gateway, switch, choice>>

\* ClearChatControl: the count is 0 at once, then the entries are freed.
ClearBegins ==
  /\ At("clear")
  /\ view' = <<>>
  /\ Goto("clearing")
  /\ UNCHANGED <<posted, contentHeight, scrollOffset, area, invalid, repainting, gateway, switch,
                 choice>>

ClearEnds ==
  /\ \/ At("clearing") /\ Goto("switch")
     \/ At("emptying") /\ Goto("history")
  /\ UNCHANGED <<posted, chat, repainting, gateway, switch, choice>>

\* Variant: nothing to show, nothing to switch to.
Switch_IfMessages ==
  /\ At("switch")
  /\ curChannel' = IF Top.rest = <<>> THEN curChannel ELSE Top.ch
  /\ switches' = switches + 1
  /\ snap' = {Top.rest[i] : i \in 1..Len(Top.rest)}
  /\ atSwitch' = checked
  /\ loads' = [loads EXCEPT ![Depth].since = switches + 1, ![Depth].pc = "pfp"]
  /\ UNCHANGED <<posted, chat, repainting, gateway, choice>>

\* free(curChannel); curChannel = strdup(chnl->id).
Switch ==
  /\ At("switch")
  /\ curChannel' = Top.ch
  /\ switches' = switches + 1
  /\ snap' = {Top.rest[i] : i \in 1..Len(Top.rest)}
  /\ atSwitch' = checked
  /\ loads' = [loads EXCEPT ![Depth].since = switches + 1, ![Depth].pc = "pfp"]
  /\ UNCHANGED <<posted, chat, repainting, gateway, choice>>

\* The avatar of the next message, perhaps with a box that says why not.
SetPfp ==
  /\ At("pfp") /\ Top.rest # <<>>
  /\ Goto("append") \/ Goto("box")
  /\ UNCHANGED <<posted, chat, repainting, gateway, switch, choice>>

CloseBox ==
  /\ At("box")
  /\ Goto("append")
  /\ UNCHANGED <<posted, chat, repainting, gateway, switch, choice>>

\* InsertChatMessage on this thread: room for the entry, the entry, the count,
\* the paint, the scroll position.
WriteHistory ==
  /\ At("append")
  /\ Goto("count")
  /\ UNCHANGED <<posted, chat, repainting, gateway, switch, choice>>

\* Variant: inserts the reply in the order it came, newest first.
CountHistory_NewestFirst ==
  /\ At("count")
  /\ LET r == Top.rest
     IN  /\ view' = Append(view, [id |-> r[Len(r)], ch |-> Top.ch, from |-> "history",
                                  since |-> Top.since])
         /\ loads' = [loads EXCEPT ![Depth].rest = SubSeq(r, 1, Len(r) - 1),
                                   ![Depth].pc = "paint"]
  /\ invalid' = TRUE
  /\ UNCHANGED <<posted, contentHeight, scrollOffset, area, repainting, gateway, switch, choice>>

CountHistory ==
  /\ At("count")
  /\ view' = Append(view, [id |-> Head(Top.rest), ch |-> Top.ch, from |-> "history",
                           since |-> Top.since])
  /\ loads' = [loads EXCEPT ![Depth].rest = Tail(@), ![Depth].pc = "paint"]
  /\ invalid' = TRUE
  /\ UNCHANGED <<posted, contentHeight, scrollOffset, area, repainting, gateway, switch, choice>>

\* WM_PAINT sets contentHeight to 0 and adds the messages up again; the sums
\* in between are left out.
PaintBegins == contentHeight' = 0 /\ invalid' = FALSE /\ UNCHANGED <<view, scrollOffset, area>>

PaintEnds == contentHeight' = Len(view) /\ UNCHANGED <<view, scrollOffset, area, invalid>>

UpdateBegins ==
  /\ At("paint")
  /\ PaintBegins
  /\ Goto("painting")
  /\ UNCHANGED <<posted, repainting, gateway, switch, choice>>

UpdateEnds ==
  /\ At("painting")
  /\ PaintEnds
  /\ Goto("scroll")
  /\ UNCHANGED <<posted, repainting, gateway, switch, choice>>

End(height) == IF height > viewHeight THEN height - viewHeight ELSE 0

\* Variant: forgets that the window shows the last viewHeight units.
ScrollToEnd_Height ==
  /\ scrollOffset' = contentHeight /\ enlarged' = FALSE /\ invalid' = TRUE
  /\ UNCHANGED <<view, contentHeight, viewHeight>>

\* scrollOffset = max(0, contentHeight - viewHeight), whatever was painted last.
\* One step on the thread that paints and gets WM_SIZE.
ScrollToEnd ==
  /\ scrollOffset' = End(contentHeight) /\ enlarged' = FALSE /\ invalid' = TRUE
  /\ UNCHANGED <<view, contentHeight, viewHeight>>

ScrollHistory ==
  /\ At("scroll")
  /\ ScrollToEnd
  /\ Goto("pfp")
  /\ UNCHANGED <<posted, repainting, gateway, switch, choice>>

\* The handler returns, into the box it was dispatched from if there is one.  It
\* frees msgs also when DiscordGetChannelHistory has not set it; what free()
\* makes of that is left out.
LoadEnds ==
  /\ At("pfp") /\ Top.rest = <<>>
  /\ loads' = SubSeq(loads, 1, Depth - 1)
  /\ UNCHANGED <<posted, chat, repainting, gateway, switch, choice>>

\* A WM_PAINT from a message loop, for instance after InvalidateRect.
RepaintBegins ==
  /\ InLoop
  /\ repainting' = TRUE
  /\ PaintBegins
  /\ UNCHANGED <<posted, loads, gateway, switch, choice>>

RepaintEnds ==
  /\ repainting
  /\ repainting' = FALSE
  /\ PaintEnds
  /\ UNCHANGED <<posted, loads, gateway, switch, choice>>

\* WM_VSCROLL: any position, clamped to the content.
UserScrolls ==
  /\ InLoop
  /\ scrollOffset' \in 0..End(contentHeight)
  /\ scrollOffset' # scrollOffset
  /\ enlarged' = FALSE /\ invalid' = TRUE
  /\ UNCHANGED <<posted, view, contentHeight, viewHeight, gateway, window, switch, choice>>

\* WM_SIZE: a repaint, but the scroll position stays where it is.
Resize ==
  /\ InLoop
  /\ viewHeight' \in ViewHeights \ {viewHeight}
  /\ enlarged' = (enlarged \/ viewHeight' > viewHeight)
  /\ invalid' = TRUE
  /\ UNCHANGED <<posted, view, contentHeight, scrollOffset, gateway, window, switch, choice>>

\* DiscordSendMessage(curChannel, ...) from the edit field or the button.
Send ==
  /\ InLoop /\ curChannel # NoChannel
  /\ Post(curChannel)

-----------------------------------------------------------------------------
(* The gateway thread.                                                      *)

Live(i) == [id |-> i, ch |-> posted[i], from |-> "live", since |-> switches]

\* Variant: the comparison with curChannel is left out.
Receive_Unchecked ==
  /\ gpc = "idle"
  /\ checked < Len(posted)
  /\ checked' = checked + 1
  /\ gmsg' = Live(checked + 1) /\ gpc' = "append"
  /\ UNCHANGED <<posted, chat, gheight, goffset, window, switch, choice>>

\* Variant: one message is skipped when several are waiting.
Receive_Skips ==
  /\ gpc = "idle"
  /\ checked < Len(posted)
  /\ checked' = Len(posted)
  /\ IF posted[checked'] = curChannel
     THEN gmsg' = Live(checked') /\ gpc' = "append"
     ELSE UNCHANGED <<gmsg, gpc>>
  /\ UNCHANGED <<posted, chat, gheight, goffset, window, switch, choice>>

\* onDiscordReceiveMessage compares with curChannel, then fetches the avatar.
Receive ==
  /\ gpc = "idle"
  /\ checked < Len(posted)
  /\ checked' = checked + 1
  /\ IF posted[checked + 1] = curChannel
     THEN gmsg' = Live(checked + 1) /\ gpc' = "append"
     ELSE UNCHANGED <<gmsg, gpc>>
  /\ UNCHANGED <<posted, chat, gheight, goffset, window, switch, choice>>

\* InsertChatMessage on this thread, with the window thread between any two of
\* its steps: the entry is written behind the last one, ...
WriteLive ==
  /\ gpc = "append"
  /\ gpc' = "count"
  /\ UNCHANGED <<posted, chat, thread, window, switch, choice>>

\* ... uimsgcnt++, ...
CountLive ==
  /\ gpc = "count"
  /\ view' = Append(view, gmsg)
  /\ gmsg' = NoEntry /\ gpc' = "invalidate"
  /\ UNCHANGED <<posted, contentHeight, scrollOffset, area, invalid, checked, gheight, goffset,
                 window, switch, choice>>

\* ... InvalidateRect, ...
InvalidateLive ==
  /\ gpc = "invalidate"
  /\ invalid' = TRUE
  /\ gpc' = "update"
  /\ UNCHANGED <<posted, view, contentHeight, scrollOffset, area, thread, window, switch, choice>>

\* ... UpdateWindow, which waits until the window thread has painted from its
\* loop, unless that has been done since, ...
UpdateLive ==
  /\ gpc = "update"
  /\ gpc' = "measure"
  /\ \/ ~invalid /\ UNCHANGED <<contentHeight, invalid>>
     \/ invalid /\ InLoop /\ contentHeight' = Len(view) /\ invalid' = FALSE
  /\ UNCHANGED <<posted, view, scrollOffset, area, thread, window, switch, choice>>

\* ... GetClientRect, ...
MeasureLive ==
  /\ gpc = "measure"
  /\ gheight' = viewHeight
  /\ gpc' = "compare"
  /\ UNCHANGED <<posted, chat, gmsg, checked, goffset, window, switch, choice>>

\* ... max(0, contentHeight - viewHeight): the macro reads contentHeight to
\* compare, and again for the value, ...
CompareLive ==
  /\ gpc = "compare"
  /\ gpc' = IF contentHeight > gheight THEN "assign" ELSE "store"
  /\ UNCHANGED <<posted, chat, thread, window, switch, choice>>

AssignLive ==
  /\ gpc = "assign"
  /\ goffset' = contentHeight - gheight
  /\ gpc' = "store"
  /\ UNCHANGED <<posted, chat, gmsg, checked, gheight, window, switch, choice>>

\* ... and the scroll position is set.
ScrollLive ==
  /\ gpc = "store"
  /\ scrollOffset' = goffset
  /\ enlarged' = (viewHeight > gheight) /\ invalid' = TRUE
  /\ gpc' = "idle" /\ gheight' = 0 /\ goffset' = 0
  /\ UNCHANGED <<posted, view, contentHeight, viewHeight, gmsg, checked, window, switch, choice>>

-----------------------------------------------------------------------------
Load_Steps == GetHistory \/ ClearBegins \/ ClearEnds \/ Switch \/ SetPfp \/ WriteHistory
                \/ CountHistory \/ UpdateBegins \/ UpdateEnds \/ ScrollHistory \/ LoadEnds
Gateway_Steps == WriteLive \/ CountLive \/ InvalidateLive \/ UpdateLive \/ MeasureLive
                   \/ CompareLive \/ AssignLive \/ ScrollLive

Steps == \/ \E c \in Channels : Post(c) \/ \E dm \in BOOLEAN : Select(c, dm)
         \/ Load_Steps \/ CloseRefusal \/ CloseBox \/ RepaintBegins \/ RepaintEnds
         \/ UserScrolls \/ Resize \/ Send
         \/ Receive \/ Gateway_Steps

\* Both threads are between the first and the last access of what they do with
\* uimsgs and uimsgcnt: inserting, clearing, painting.
WindowInList ==
  repainting \/ (Depth > 0 /\ Top.pc \in {"emptying", "clearing", "count", "painting"})
BothInList == gpc = "count" /\ WindowInList

Next == ~shared /\ Steps /\ shared' = BothInList'

Spec == Init /\ [][Next]_vars

-----------------------------------------------------------------------------
(* Properties.                                                              *)

\* The properties of the list are about the time before both threads are in it
\* at once.

\* Messages chosen under the current curChannel are of that channel.  A
\* message of another one is in the view only if a switch came between the
\* decision to show it and the append: the gateway thread was fetching the
\* avatar, or the load that chose it was suspended in a message box.
StraysAreStale ==
  ~shared => \A i \in 1..Len(view) : view[i].since = switches => view[i].ch = curChannel

\* Under one curChannel the view shows history oldest first and once, and
\* live messages in the order of arrival and once; only the two may mix.
InOrder ==
  ~shared => \A i, j \in 1..Len(view) :
    i < j /\ view[i].from = view[j].from /\ view[i].since = view[j].since
      => view[i].id < view[j].id

Shown(i) == \E k \in 1..Len(view) : view[k].id = i

\* When the window thread is idle, a message of the open channel that the
\* gateway thread is done with is in the view, unless it falls into one gap:
\* not in the history that was fetched, usually because it was posted later,
\* and yet delivered before curChannel was set; or the two threads have been
\* in the list at once, which may lose any message.
MissingOnlyFromGap ==
  ~shared /\ loads = <<>> /\ gpc = "idle" => \A i \in 1..checked :
    posted[i] = curChannel => Shown(i) \/ (i \notin snap /\ i <= atSwitch)

\* As long as the list only grows and the view does not, the races around
\* contentHeight and the height of the view leave the scroll position short of
\* the end at worst, never beyond it.
ScrollNotPastEnd ==
  ~shared /\ Selected <= 1 /\ ~enlarged => scrollOffset <= End(Len(view))

\* What is sent while nothing is loading goes to the channel the user selected
\* last, unless it was selected in a box of the loading of another one.
SentToPicked == loads = <<>> /\ ~overlapped => curChannel = picked

\* "forces WM_PAINT now, contentHeight is fresh": when InsertChatMessage sets
\* the scroll position, contentHeight is that of the list.
FreshHeight ==
  At("scroll") \/ gpc \in {"compare", "assign"} => contentHeight = Len(view)
=============================================================================
