---------------------------- MODULE MessageStore ----------------------------
(***************************************************************************)
(* The memory behind the message list: the array uimsgs with its count,    *)
(* the strings of the messages in it, and the keys of pfp_map, which are   *)
(* strings of messages too.  InsertChatMessage runs on both threads,       *)
(* ClearChatControl and WM_PAINT on the window thread; none of them locks. *)
(*                                                                         *)
(* A realloc is two steps: until the pointer is assigned, the array        *)
(* belongs to whoever called it.  hashmap_set and hashmap_get share the    *)
(* buckets and the scratch space of the map.  What follows the use of an   *)
(* entry that is not there, or of a map that is being changed, is not      *)
(* modelled (wild).                                                        *)
(***************************************************************************)
EXTENDS Naturals, Sequences, FiniteSets

CONSTANTS Window, Gateway,
          Users,
          MaxMessages,  \* bound: messages ever parsed
          MaxSelects,   \* bound: channels selected
          MaxNest       \* bound: handlers of the window thread at once

ASSUME ThreadsAssumption == Window # Gateway
ASSUME BoundsAssumption  == {MaxMessages, MaxSelects, MaxNest} \subseteq Nat

Threads == {Window, Gateway}

VARIABLES
  uimsgs,    \* the allocated entries; 0 for one that was never written
  uimsgcnt,
  stack,     \* per thread: its handlers, the running one last
  messages,  \* all messages parsed: author and whether it came live
  freed,     \* those whose strings ClearChatControl has freed
  keys,      \* pfp_map: per user the messages whose author.id is a key
  selects,   \* channels selected so far
  wild,      \* an entry was used that is not there
  shared,    \* history: a thread used the list, or pfp_map, while the other one did
  past,      \* history: messages that were counted in
  fresh      \* history: messages whose picture was set since the last clear

array == <<uimsgs, uimsgcnt, past>>
rest  == <<selects, wild>>
vars  == <<array, stack, messages, freed, keys, selects, wild, shared, fresh>>

\* fetched is FALSE in the handler of the DM list before its request; i and n
\* are the variables of the loop in ClearChatControl.
Frame == [todo : Seq(Nat), fetched : BOOLEAN, i : Nat, n : Nat,
          pc : {"fetch", "clear", "free", "shrunk", "next", "pfp", "box", "setkey",
                "grow", "grown", "write", "count", "paint", "painting"}]
Handler(pc, todo) == [pc |-> pc, todo |-> todo, fetched |-> FALSE, i |-> 0, n |-> 0]

TypeOK ==
  /\ uimsgs \in Seq(0..MaxMessages) /\ uimsgcnt \in 0..MaxMessages
  /\ stack \in [Threads -> Seq(Frame)]
  /\ messages \in Seq([user : Users, live : BOOLEAN]) /\ Len(messages) <= MaxMessages
  /\ freed \subseteq 1..MaxMessages /\ past \subseteq 1..MaxMessages
  /\ fresh \subseteq 1..MaxMessages
  /\ keys \in [Users -> SUBSET (1..MaxMessages)]
  /\ selects \in 0..MaxSelects
  /\ wild \in BOOLEAN /\ shared \in BOOLEAN

\* WM_CREATE: room for one entry.
Init ==
  /\ uimsgs = <<0>> /\ uimsgcnt = 0
  /\ stack = [t \in Threads |-> <<>>]
  /\ messages = <<>> /\ freed = {}
  /\ keys = [u \in Users |-> {}]
  /\ selects = 0
  /\ wild = FALSE /\ shared = FALSE /\ past = {} /\ fresh = {}

-----------------------------------------------------------------------------
Depth(t)  == Len(stack[t])
Top(t)    == stack[t][Depth(t)]
At(t, pc) == Depth(t) > 0 /\ Top(t).pc = pc
InLoop    == Depth(Window) > 0 => Top(Window).pc = "box"

Push(t, frame) == stack' = [stack EXCEPT ![t] = Append(@, frame)]
Goto(t, pc)    == stack' = [stack EXCEPT ![t][Depth(t)].pc = pc]

Other(t) == CHOOSE s \in Threads : s # t

\* About to use the list, or between its first and its last access.
Using(t) == /\ Depth(t) > 0
            /\ Top(t).pc \in {"free", "shrunk", "grow", "grown", "write", "count", "painting"}

\* About to use pfp_map, or inside it.
Keying(t) == Depth(t) > 0 /\ Top(t).pc \in {"setkey", "painting"}

\* The other thread is inside realloc.
Moving(t) == At(Other(t), "grown") \/ At(Other(t), "shrunk")

Wild == wild' = TRUE /\ UNCHANGED <<array, stack, messages, freed, keys, selects, fresh>>

There(t, i) == ~Moving(t) /\ i <= Len(uimsgs) /\ uimsgs[i] # 0

-----------------------------------------------------------------------------
(* Handlers.                                                                *)

\* TVN_SELCHANGED, or LVN_ITEMCHANGED of the DM list, which clears first.
Select ==
  /\ InLoop
  /\ selects < MaxSelects /\ Depth(Window) < MaxNest
  /\ selects' = selects + 1
  /\ \E pc \in {"fetch", "clear"} : Push(Window, Handler(pc, <<>>))
  /\ UNCHANGED <<array, messages, freed, keys, wild, fresh>>

\* Variant: the tree of the reply is deleted, and its strings with it.
GetHistory_DeletesJson ==
  /\ At(Window, "fetch")
  /\ \E len \in 0..(MaxMessages - Len(messages)) : \E by \in [1..len -> Users] :
       /\ messages' = messages \o [i \in 1..len |-> [user |-> by[i], live |-> FALSE]]
       /\ freed' = freed \cup (Len(messages) + 1)..(Len(messages) + len)
       /\ stack' = [stack EXCEPT ![Window][Depth(Window)] =
                      [@ EXCEPT !.pc = "clear", !.fetched = TRUE,
                                !.todo = [i \in 1..len |-> Len(messages) + i]]]
  /\ UNCHANGED <<array, keys, rest, fresh>>

\* DiscordGetChannelHistory: the strings are parts of a tree that nobody
\* deletes, so each of them may be freed once.
GetHistory ==
  /\ At(Window, "fetch")
  /\ \E len \in 0..(MaxMessages - Len(messages)) : \E by \in [1..len -> Users] :
       /\ messages' = messages \o [i \in 1..len |-> [user |-> by[i], live |-> FALSE]]
       /\ stack' = [stack EXCEPT ![Window][Depth(Window)] =
                      [@ EXCEPT !.pc = "clear", !.fetched = TRUE,
                                !.todo = [i \in 1..len |-> Len(messages) + i]]]
  /\ UNCHANGED <<array, freed, keys, rest, fresh>>

\* HandleMessageCreate for the open channel.
Receive ==
  /\ Depth(Gateway) = 0
  /\ Len(messages) < MaxMessages
  /\ \E u \in Users : messages' = Append(messages, [user |-> u, live |-> TRUE])
  /\ Push(Gateway, Handler("pfp", <<Len(messages) + 1>>))
  /\ UNCHANGED <<array, freed, keys, rest, fresh>>

\* The next message of the handler, or its end.
NextMessage(t) ==
  /\ At(t, "next")
  /\ IF Top(t).todo = <<>> THEN stack' = [stack EXCEPT ![t] = SubSeq(@, 1, Depth(t) - 1)]
                           ELSE Goto(t, "pfp")
  /\ UNCHANGED <<array, messages, freed, keys, rest, fresh>>

\* ChatView_SetUserPfp: with a picture it ends in hashmap_set; an author
\* without an avatar has none, and a failure may show a box.
SetPfp(t) ==
  /\ At(t, "pfp")
  /\ \E pc \in {"setkey", "box", "grow"} : Goto(t, pc)
  /\ UNCHANGED <<array, messages, freed, keys, rest, fresh>>

\* A box, whose loop may run other handlers; then the picture is set if it
\* was there but could not be decoded.
CloseBox(t) ==
  /\ At(t, "box")
  /\ \E pc \in {"setkey", "grow"} : Goto(t, pc)
  /\ UNCHANGED <<array, messages, freed, keys, rest, fresh>>

\* Variant: the entry that is there keeps its key and gets the new picture.
Replaced_KeepsKey(m, u) == IF keys[u] = {} THEN {{m}} ELSE {keys[u]}

\* The entries of user u after hashmap_set with the key of message m: one of
\* the same user is replaced.  If the key of that entry is freed, they may
\* compare different, and there are two.
Replaced(m, u) == {(keys[u] \ {old}) \cup {m} : old \in keys[u]}
                    \cup (IF keys[u] \subseteq freed THEN {keys[u] \cup {m}} ELSE {})

\* hashmap_set with author.id for the key.  If the other thread is inside the
\* map, the new entry may be lost in the scratch space they share, or written
\* to buckets that are freed.
SetKey(t) ==
  /\ At(t, "setkey")
  /\ \/ /\ LET m == Head(Top(t).todo)  u == messages[m].user
           IN  /\ \/ \E set \in Replaced(m, u) : keys' = [keys EXCEPT ![u] = set]
                  \/ Keying(Other(t)) /\ keys' = keys
               /\ fresh' = fresh \cup {m}
        /\ Goto(t, "grow")
        /\ UNCHANGED <<array, messages, freed, rest>>
     \/ Keying(Other(t)) /\ Wild

-----------------------------------------------------------------------------
(* InsertChatMessage.                                                       *)

\* Variant: room for the entries there are, not for one more.
Resized_Short(n) == [i \in 1..(IF n > 1 THEN n - 1 ELSE 1) |->
                      IF i <= Len(uimsgs) THEN uimsgs[i] ELSE 0]

Resized(n) == [i \in 1..n |-> IF i <= Len(uimsgs) THEN uimsgs[i] ELSE 0]

\* realloc is called with what the count is now...
GrowBegins(t) ==
  /\ At(t, "grow")
  /\ IF Moving(t) THEN Wild
     ELSE /\ stack' = [stack EXCEPT ![t][Depth(t)].n = uimsgcnt + 1,
                                    ![t][Depth(t)].pc = "grown"]
          /\ UNCHANGED <<array, messages, freed, keys, rest, fresh>>

\* ... and its result assigned.
GrowEnds(t) ==
  /\ At(t, "grown")
  /\ uimsgs' = Resized(Top(t).n)
  /\ Goto(t, "write")
  /\ UNCHANGED <<uimsgcnt, past, messages, freed, keys, rest, fresh>>

WriteEntry(t) ==
  /\ At(t, "write")
  /\ IF Moving(t) \/ uimsgcnt + 1 > Len(uimsgs) THEN Wild
     ELSE /\ uimsgs' = [uimsgs EXCEPT ![uimsgcnt + 1] = Head(Top(t).todo)]
          /\ Goto(t, "count")
          /\ UNCHANGED <<uimsgcnt, past, messages, freed, keys, rest, fresh>>

CountEntry(t) ==
  /\ At(t, "count")
  /\ uimsgcnt' = uimsgcnt + 1
  /\ past' = past \cup {Head(Top(t).todo)}
  /\ stack' = [stack EXCEPT ![t][Depth(t)].todo = Tail(@), ![t][Depth(t)].pc = "paint"]
  /\ UNCHANGED <<uimsgs, messages, freed, keys, rest, fresh>>

-----------------------------------------------------------------------------
(* ClearChatControl.                                                        *)

\* Variant: the count is reset only by the next insertion.
ClearBegins_KeepsCount ==
  /\ At(Window, "clear")
  /\ stack' = [stack EXCEPT ![Window][Depth(Window)] =
                 [@ EXCEPT !.i = 1, !.n = uimsgcnt, !.pc = "free"]]
  /\ fresh' = {}
  /\ UNCHANGED <<array, messages, freed, keys, rest>>

ClearBegins ==
  /\ At(Window, "clear")
  /\ uimsgcnt' = 0
  /\ stack' = [stack EXCEPT ![Window][Depth(Window)] =
                 [@ EXCEPT !.i = 1, !.n = uimsgcnt, !.pc = "free"]]
  /\ fresh' = {}
  /\ UNCHANGED <<uimsgs, past, messages, freed, keys, rest>>

\* What the seven pointers of a message are that ClearChatControl frees.
Pointer == {"content", "channelID", "id", "Username", "DisplayName", "author", "avatar"}

\* HandleMessageCreate never sets two of them, and the avatar is part of the
\* JSON that is deleted when the handler returns.  What free() does with such a
\* pointer is open: the heap may survive it or not.
OwnStrings(m) == IF messages[m].live THEN Pointer \ {"id", "Username", "avatar"} ELSE Pointer

FreeEntry ==
  /\ At(Window, "free") /\ Top(Window).i <= Top(Window).n
  /\ LET i == Top(Window).i
     IN  IF ~There(Window, i) \/ uimsgs[i] \in freed THEN Wild
         ELSE \/ /\ freed' = freed \cup {uimsgs[i]}
                 /\ stack' = [stack EXCEPT ![Window][Depth(Window)].i = i + 1]
                 /\ UNCHANGED <<array, messages, keys, rest, fresh>>
              \/ OwnStrings(uimsgs[i]) # Pointer /\ Wild

ShrinkBegins ==
  /\ At(Window, "free") /\ Top(Window).i > Top(Window).n
  /\ IF Moving(Window) THEN Wild
     ELSE Goto(Window, "shrunk") /\ UNCHANGED <<array, messages, freed, keys, rest, fresh>>

\* realloc to one entry.  The handler goes on with its request, or its messages.
ShrinkEnds ==
  /\ At(Window, "shrunk")
  /\ uimsgs' = Resized(1)
  /\ Goto(Window, IF Top(Window).fetched THEN "next" ELSE "fetch")
  /\ UNCHANGED <<uimsgcnt, past, messages, freed, keys, rest, fresh>>

-----------------------------------------------------------------------------
(* WM_PAINT, always on the window thread.                                   *)

\* From its loop, or from UpdateWindow in its own InsertChatMessage: the array
\* msgdet has as many elements as there are messages now.
PaintBegins ==
  \/ /\ At(Window, "paint")
     /\ stack' = [stack EXCEPT ![Window][Depth(Window)].n = uimsgcnt,
                               ![Window][Depth(Window)].pc = "painting"]
     /\ UNCHANGED <<array, messages, freed, keys, rest, fresh>>
  \/ /\ InLoop /\ Depth(Window) < MaxNest
     /\ Push(Window, [Handler("painting", <<>>) EXCEPT !.n = uimsgcnt])
     /\ UNCHANGED <<array, messages, freed, keys, rest, fresh>>

Readable(n) == uimsgcnt <= n /\ \A i \in 1..uimsgcnt : There(Window, i)

\* The loops read the count and the entries again, and look for the pictures.
PaintEnds ==
  /\ At(Window, "painting")
  /\ \/ /\ Readable(Top(Window).n)
        /\ Goto(Window, "next") /\ UNCHANGED <<array, messages, freed, keys, rest, fresh>>
     \/ ~Readable(Top(Window).n) /\ Wild
     \/ Keying(Gateway) /\ Wild

\* UpdateWindow of the gateway thread waits for the window thread's loop.
PaintLive ==
  /\ At(Gateway, "paint") /\ InLoop
  /\ IF ~Readable(uimsgcnt) THEN Wild
     ELSE Goto(Gateway, "next") /\ UNCHANGED <<array, messages, freed, keys, rest, fresh>>

-----------------------------------------------------------------------------
Insert(t) == GrowBegins(t) \/ GrowEnds(t) \/ WriteEntry(t) \/ CountEntry(t)
Clear     == ClearBegins \/ FreeEntry \/ ShrinkBegins \/ ShrinkEnds

Steps == \/ Select \/ GetHistory \/ Receive \/ Clear
         \/ PaintBegins \/ PaintEnds \/ PaintLive
         \/ \E t \in Threads : NextMessage(t) \/ SetPfp(t) \/ CloseBox(t) \/ SetKey(t) \/ Insert(t)

Next == /\ ~wild
        /\ Steps
        /\ shared' = (shared \/ (\A t \in Threads : Using(t))' \/ (\A t \in Threads : Keying(t))')

Spec == Init /\ [][Next]_vars

-----------------------------------------------------------------------------
(* Properties.                                                              *)

FreesLive ==
  /\ At(Window, "free") /\ Top(Window).i <= Top(Window).n
  /\ There(Window, Top(Window).i)
  /\ uimsgs[Top(Window).i] \notin freed /\ messages[uimsgs[Top(Window).i]].live

\* Nothing uses an entry that is not there, and nothing is freed twice or
\* without being a string of the message, as long as the two threads keep
\* apart, in the list and in pfp_map: nested handlers do no harm.  The exception is a message that came
\* live, where "the backend provides strdup" is not true of all pointers.
WildHasCause == wild => shared \/ FreesLive

Shown == [i \in 1..uimsgcnt |-> IF i <= Len(uimsgs) THEN uimsgs[i] ELSE 0]

\* Up to then the array with its count is the list that callers rely on.
List == INSTANCE MessageList
          WITH Messages <- 1..MaxMessages,
               list <- IF shared THEN <<>> ELSE Shown,
               past <- IF shared THEN {} ELSE past,
               lost <- shared
ImplementsList == List!Spec

\* A message that is shown, or that a suspended handler will still show, has
\* its strings.
ShownAreAlive ==
  ~shared => /\ \A i \in 1..uimsgcnt : uimsgs[i] \notin freed
             /\ \A m \in freed : \A t \in Threads : \A k \in 1..Depth(t) :
                  \A i \in 1..Len(stack[t][k].todo) : stack[t][k].todo[i] # m

\* Clearing leaves dead keys in pfp_map; still each message whose picture was
\* set finds an entry of its author with a key that is alive, as long as the
\* two threads have not met in the map.
PictureFound ==
  ~shared => \A i \in 1..uimsgcnt :
    uimsgs[i] \in fresh => \E m \in keys[messages[uimsgs[i]].user] : m \notin freed

Layout == INSTANCE ChatLayout

\* What the list is when it is painted, whichever lines of text it has.
Painted(h) ==
  [i \in 1..uimsgcnt |-> [author |-> messages[uimsgs[i]].user, text |-> h[i]]]

\* WM_PAINT groups what both threads have put there, and no picture is drawn
\* over the next one, except above a message without text in a row of several.
PicturesApart ==
  ~shared /\ (At(Window, "painting") \/ At(Gateway, "paint")) =>
    \A h \in [1..uimsgcnt -> Layout!Lines] : Layout!PicturesApart(Painted(h))
=============================================================================
