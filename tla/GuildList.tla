------------------------------ MODULE GuildList ------------------------------
(***************************************************************************)
(* The guild bar: HandleREADY on the gateway thread fills it guild by      *)
(* guild (onDiscordGuildLoad, GuildView_InsertGuild, GuildView_SetIcon)    *)
(* and then adds up mentions, while the window thread paints, scrolls and  *)
(* clicks (GuildWndProc).  Nothing in guildwnd.c locks.                    *)
(*                                                                         *)
(* Pixels are those of the code.  A guild is a model value; its row holds  *)
(* its id, whether its icon is set, and its mentions.                      *)
(***************************************************************************)
EXTENDS Integers, Sequences, FiniteSets

CONSTANTS Guilds,
          WithIcon,    \* those with an icon hash
          Nobody,      \* no guild: an unknown channel, nothing selected
          DMs,         \* the direct-messages button
          Junk,        \* what an unfilled, missing or freed row reads as
          ViewHeight,  \* height of the client area
          ClickYs,     \* bound: where the user clicks
          TrackYs,     \* bound: where the user drags the thumb of the scroll bar
          MaxReads     \* bound: entries of read_state

ASSUME GuildsAssumption == /\ WithIcon \subseteq Guilds
                           /\ {Nobody, DMs, Junk} \cap Guilds = {}
ASSUME BoundsAssumption ==
  ViewHeight \in Nat /\ ClickYs \subseteq 0..ViewHeight /\ TrackYs \subseteq Nat /\ MaxReads \in Nat

VARIABLES
  order,        \* guilds of the READY message
  reads,        \* its read states: the channel's guild and its mentions
  gpc,          \* gateway thread, in HandleREADY
  left,         \* guilds of order still to load, from its end
  nread,        \* read states done
  table,        \* GuildsTable: guild -> MentionCount
  uigldcnt,     \* number of rows, as the loops see it
  uiglds,       \* the rows that are allocated
  painting,     \* next row of the WM_PAINT under way, 0 when none is
  screen,       \* last finished paint: its scrollOffset and rows
  scrollMax,    \* content height told to the scroll bar by it
  scrollOffset,
  selIndex,     \* -2 at first, -1 for the DMs, or a row counted from 0
  selected,     \* what the main window was last notified of
  hit,          \* history: the guild seen under the last click, and selected then
  wild          \* history: a row was used that is not there (yet, or while it moves)

ready  == <<order, reads>>
loader == <<gpc, left, nread, table>>
rows   == <<uigldcnt, uiglds>>
paint  == <<painting, screen, scrollMax>>
choice == <<selIndex, selected, hit>>
vars   == <<ready, loader, rows, paint, scrollOffset, choice, wild>>

GuildSize == 48
RowHeight == GuildSize + 8
Dmregy    == 8 + GuildSize + 8 + 10

Row(g) == [id |-> g, icon |-> FALSE, MentionCount |-> 0]
Empty  == [id |-> Junk, icon |-> FALSE, MentionCount |-> 0]

TypeOK ==
  /\ order \in Seq(Guilds) /\ reads \in Seq([guild : Guilds \cup {Nobody}, n : 0..1])
  /\ gpc \in {"guild", "grow", "realloc", "moving", "fill", "icon", "reads", "box", "mention", "done"}
  /\ left \in 0..Len(order) /\ nread \in 0..Len(reads)
  /\ DOMAIN table \subseteq Guilds /\ \A g \in DOMAIN table : table[g] \in Nat
  /\ uigldcnt \in 0..Len(order)
  /\ uiglds \in Seq([id : Guilds \cup {Junk}, icon : BOOLEAN, MentionCount : Nat])
  /\ painting \in Nat
  /\ screen \in [offset : Nat, ids : Seq(Guilds \cup {Junk})]
  /\ scrollMax \in Nat /\ scrollOffset \in Nat
  /\ selIndex \in Int /\ selIndex >= -2
  /\ selected \in Guilds \cup {Nobody, DMs, Junk}
  /\ hit \in [seen : Guilds \cup {Nobody, Junk}, got : Guilds \cup {Nobody, DMs, Junk}]
  /\ wild \in BOOLEAN

Distinct(s) == \A i, j \in 1..Len(s) : i # j => s[i] # s[j]

Init ==
  /\ \E n \in 0..Cardinality(Guilds) : order \in {s \in [1..n -> Guilds] : Distinct(s)}
  /\ \E n \in 0..MaxReads :
       reads \in [1..n -> [guild : Guilds \cup {Nobody}, n : 0..1]]
  /\ gpc = "guild" /\ left = Len(order) /\ nread = 0 /\ table = <<>>
  /\ uigldcnt = 0 /\ uiglds = <<>>
  /\ painting = 0 /\ screen = [offset |-> 0, ids |-> <<>>] /\ scrollMax = 0
  /\ scrollOffset = 0
  /\ selIndex = -2 /\ selected = Nobody
  /\ hit = [seen |-> Nobody, got |-> Nobody] /\ wild = FALSE

-----------------------------------------------------------------------------
(* The gateway thread: HandleREADY.                                         *)

\* hashmap_set(GuildsTable, g); the guilds are taken from the last to the first.
LoadGuild ==
  /\ gpc = "guild" /\ left > 0
  /\ table' = [g \in DOMAIN table \cup {order[left]} |->
                 IF g = order[left] THEN 0 ELSE table[g]]
  /\ gpc' = "grow"
  /\ UNCHANGED <<ready, left, nread, rows, paint, scrollOffset, choice, wild>>

\* GuildView_InsertGuild: the count grows first,
Grow ==
  /\ gpc = "grow"
  /\ uigldcnt' = uigldcnt + 1
  /\ gpc' = "realloc"
  /\ UNCHANGED <<ready, left, nread, table, uiglds, paint, scrollOffset, choice, wild>>

\* then the array: the rows move, and guildwnd->uiglds is the freed one, ...
ReallocFrees ==
  /\ gpc = "realloc"
  /\ gpc' = "moving"
  /\ UNCHANGED <<ready, left, nread, table, rows, paint, scrollOffset, choice, wild>>

\* ... until the new one is assigned,
ReallocAssigns ==
  /\ gpc = "moving"
  /\ uiglds' = Append(uiglds, Empty)
  /\ gpc' = "fill"
  /\ UNCHANGED <<ready, left, nread, table, uigldcnt, paint, scrollOffset, choice, wild>>

AfterInsert ==
  /\ gpc' = IF order[left] \in WithIcon THEN "icon" ELSE "guild"
  /\ left' = IF order[left] \in WithIcon THEN left ELSE left - 1
  /\ UNCHANGED <<ready, nread, table, uigldcnt, paint, scrollOffset, choice, wild>>

\* Variant: a new guild goes to the top of the bar.
Fill_AtTop ==
  /\ gpc = "fill"
  /\ uiglds' = <<Row(order[left])>> \o SubSeq(uiglds, 1, uigldcnt - 1)
  /\ AfterInsert

\* and the row is written last.
Fill ==
  /\ gpc = "fill"
  /\ uiglds' = [uiglds EXCEPT ![uigldcnt] = Row(order[left])]
  /\ AfterInsert

\* The rows of a loop over uiglds that stops at the first match.
FirstRow(id) == {i \in 1..uigldcnt : uiglds[i].id = id /\ \A j \in 1..(i - 1) : uiglds[j].id # id}

\* GuildView_SetIcon, when the file is there or has been fetched.
SetIcon ==
  /\ gpc = "icon"
  /\ uiglds' = [i \in 1..Len(uiglds) |->
                  IF i \in FirstRow(order[left]) THEN [uiglds[i] EXCEPT !.icon = TRUE]
                  ELSE uiglds[i]]
  /\ gpc' = "guild" /\ left' = left - 1
  /\ UNCHANGED <<ready, nread, table, uigldcnt, paint, scrollOffset, choice, wild>>

GuildsDone ==
  /\ gpc = "guild" /\ left = 0
  /\ gpc' = "reads"
  /\ UNCHANGED <<ready, left, nread, table, rows, paint, scrollOffset, choice, wild>>

Counts(i) == reads[i].n > 0 /\ reads[i].guild \in DOMAIN table

\* The next read state: a channel with mentions of a known guild opens a box.
ReadState ==
  /\ gpc = "reads" /\ nread < Len(reads)
  /\ nread' = nread + 1
  /\ gpc' = IF Counts(nread + 1) THEN "box" ELSE "reads"
  /\ UNCHANGED <<ready, left, table, rows, paint, scrollOffset, choice, wild>>

\* Variant: the last channel's mentions count, not the sum.
AddMentions_Overwrites ==
  /\ gpc = "box"
  /\ table' = [table EXCEPT ![reads[nread].guild] = reads[nread].n]
  /\ gpc' = "mention"
  /\ UNCHANGED <<ready, left, nread, rows, paint, scrollOffset, choice, wild>>

\* The user closes it, and the guild's count grows.
AddMentions ==
  /\ gpc = "box"
  /\ table' = [table EXCEPT ![reads[nread].guild] = @ + reads[nread].n]
  /\ gpc' = "mention"
  /\ UNCHANGED <<ready, left, nread, rows, paint, scrollOffset, choice, wild>>

\* onDiscordUpdatedGuildReadState, GuildView_SetMentionCount.
SetMentionCount ==
  /\ gpc = "mention"
  /\ LET g == reads[nread].guild
     IN  uiglds' = [i \in 1..Len(uiglds) |->
                      IF i \in FirstRow(g) THEN [uiglds[i] EXCEPT !.MentionCount = table[g]]
                      ELSE uiglds[i]]
  /\ gpc' = "reads"
  /\ UNCHANGED <<ready, left, nread, table, uigldcnt, paint, scrollOffset, choice, wild>>

ReadsDone ==
  /\ gpc = "reads" /\ nread = Len(reads)
  /\ gpc' = "done"
  /\ UNCHANGED <<ready, left, nread, table, rows, paint, scrollOffset, choice, wild>>

-----------------------------------------------------------------------------
(* The window thread: GuildWndProc.                                         *)

\* Whether row i, counted from 1, has been written, and whether it can be used.
Filled(i) == i <= Len(uiglds) /\ uiglds[i].id # Junk
There(i)  == gpc # "moving" /\ Filled(i)
IdAt(i)   == IF There(i) THEN uiglds[i].id ELSE Junk

\* WM_PAINT; the rows drawn so far are collected in screen.
PaintBegins ==
  /\ painting = 0
  /\ painting' = 1
  /\ screen' = [offset |-> scrollOffset, ids |-> <<>>]
  /\ UNCHANGED <<ready, loader, rows, scrollMax, scrollOffset, choice, wild>>

PaintRow ==
  /\ painting \in 1..uigldcnt
  /\ screen' = [screen EXCEPT !.ids = Append(@, IdAt(painting))]
  /\ wild' = (wild \/ ~There(painting))
  /\ painting' = painting + 1
  /\ UNCHANGED <<ready, loader, rows, scrollMax, scrollOffset, choice>>

PaintEnds ==
  /\ painting > uigldcnt
  /\ scrollMax' = uigldcnt * RowHeight + Dmregy
  /\ painting' = 0
  /\ UNCHANGED <<ready, loader, rows, screen, scrollOffset, choice, wild>>

\* SetScrollInfo clamps the position to the range it was given.
Clamp(p) == LET top == IF scrollMax > ViewHeight THEN scrollMax - ViewHeight ELSE 0
            IN  IF p < 0 THEN 0 ELSE IF p > top THEN top ELSE p

\* WM_VSCROLL: by a line or a page, up or down, or to where the thumb is.
ScrollTargets == {scrollOffset + by : by \in {-20, 20, -ViewHeight, ViewHeight}} \cup TrackYs

Scroll ==
  /\ painting = 0
  /\ \E p \in ScrollTargets : scrollOffset' = Clamp(p)
  /\ scrollOffset' # scrollOffset
  /\ UNCHANGED <<ready, loader, rows, paint, choice, wild>>

\* The row a click at content height y means, as WM_LBUTTONUP computes it.
HitIndex(y) == (y - 16 - 10 - GuildSize) \div RowHeight

\* What the user sees at height y of the window: pictures are GuildSize high.
SeenAt(y) ==
  {screen.ids[i] : i \in {j \in 1..Len(screen.ids) :
     LET top == RowHeight * (j - 1) + Dmregy - screen.offset
     IN  top <= y /\ y < top + GuildSize}}

Notify(g) == /\ selected' = g
             /\ wild' = (wild \/ g = Junk)

Clicked(y, index) ==
  /\ selIndex' = index
  /\ IF index = selIndex THEN UNCHANGED <<selected, wild>> ELSE Notify(IdAt(index + 1))

\* Variant: the scroll position is left out.
Click_Unscrolled(y) ==
  /\ painting = 0
  /\ IF y < 8 + GuildSize /\ selIndex # -1
     THEN selIndex' = -1 /\ Notify(DMs)
     ELSE IF y > Dmregy THEN Clicked(y, HitIndex(y))
     ELSE UNCHANGED <<selIndex, selected, wild>>
  /\ hit' = [seen |-> IF screen.offset = scrollOffset /\ y + scrollOffset # Dmregy
                         /\ SeenAt(y) # {} THEN CHOOSE g \in SeenAt(y) : TRUE ELSE Nobody,
             got |-> selected']
  /\ UNCHANGED <<ready, loader, rows, paint, scrollOffset>>

\* WM_LBUTTONUP, with its WM_NOTIFY to the main window.  Nothing compares the
\* index with uigldcnt.
Click(y) ==
  /\ painting = 0
  /\ LET cy == y + scrollOffset
     IN  IF cy < 8 + GuildSize /\ selIndex # -1
         THEN selIndex' = -1 /\ Notify(DMs)
         ELSE IF cy > Dmregy THEN Clicked(cy, HitIndex(cy))
         ELSE UNCHANGED <<selIndex, selected, wild>>
  /\ hit' = [seen |-> IF screen.offset = scrollOffset /\ y + scrollOffset # Dmregy
                         /\ SeenAt(y) # {} THEN CHOOSE g \in SeenAt(y) : TRUE ELSE Nobody,
             got |-> selected']
  /\ UNCHANGED <<ready, loader, rows, paint, scrollOffset>>

-----------------------------------------------------------------------------
HandleREADY == LoadGuild \/ Grow \/ ReallocFrees \/ ReallocAssigns \/ Fill \/ SetIcon \/ GuildsDone
                 \/ ReadState \/ AddMentions \/ SetMentionCount \/ ReadsDone

GuildWndProc == PaintBegins \/ PaintRow \/ PaintEnds \/ Scroll \/ \E y \in ClickYs : Click(y)

Next == HandleREADY \/ GuildWndProc

Spec == Init /\ [][Next]_vars

-----------------------------------------------------------------------------
(* Properties.                                                              *)

\* As long as no row was used that is not there, the guild the main window
\* shows is the one whose row is highlighted, however the list grows behind it
\* and the array moves.
SelectionAgrees ==
  ~wild /\ selIndex >= 0 => Filled(selIndex + 1) /\ selected = uiglds[selIndex + 1].id

\* A click on a guild's picture selects that guild, when nothing scrolled
\* since the paint.  (The first pixel line of the first picture is the one
\* place left out: there y > dmregy is false.)
ClickHitsPicture == ~wild /\ hit.seen \notin {Nobody, Junk} => hit.got = hit.seen

\* Mentions of guild g among the read states done.
Mentions(g) ==
  Cardinality({i \in 1..nread : reads[i].guild = g /\ reads[i].n > 0})

\* The two copies of a guild's mentions, in GuildsTable and in its row, agree
\* with each other and with the read states done, between two read states.
MentionsAgree ==
  gpc \in {"reads", "done"} => \A i \in 1..uigldcnt :
    /\ uiglds[i].MentionCount = table[uiglds[i].id]
    /\ table[uiglds[i].id] = Mentions(uiglds[i].id)
=============================================================================
