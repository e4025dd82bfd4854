----------------------------- MODULE ChannelTree -----------------------------
(***************************************************************************)
(* The channels of a guild, from the READY message to the tree view:       *)
(* HandleREADY stores them slot by slot and skips what it cannot read, and *)
(* a click on a guild rebuilds the tree from the slots (WindowProc), with  *)
(* a table of the categories inserted so far to hang channels under.       *)
(*                                                                         *)
(* A channel is its id; tree items are numbered by the tree view, which    *)
(* never uses a number again.  What the user sees of it all, and the       *)
(* property of that, is TreeShown.                                         *)
(***************************************************************************)
EXTENDS TreeShown, FiniteSets

CONSTANTS Guilds,
          NoGuild,
          MaxChannels,  \* bound: channels of a guild
          MaxBuilds     \* bound: guilds selected

ASSUME GuildsAssumption == NoGuild \notin Guilds
ASSUME BoundsAssumption == MaxChannels \in Nat /\ MaxBuilds \in Nat

VARIABLES
  loaded,   \* guilds in GuildsTable
  pc,       \* window thread: "loop", "build" or "wild" (an unset slot was read)
  uitable,  \* ChannelUITable: [id, item] of the categories inserted
  nitems,   \* items ever inserted
  nbuilds   \* guilds selected so far

vars == <<json, loaded, pc, guild, next, uitable, tree, nitems, nbuilds>>

Ids     == 1..MaxChannels
Channel == [readable : BOOLEAN, category : BOOLEAN, id : Ids, parentID : 0..MaxChannels]
Items   == 1..(MaxBuilds * MaxChannels)

TypeOK ==
  /\ \A g \in Guilds : json[g] \in Seq(Channel)
  /\ loaded \subseteq Guilds
  /\ pc \in {"loop", "build", "wild"}
  /\ guild \in Guilds \cup {NoGuild}
  /\ next \in 1..(MaxChannels + 1)
  /\ uitable \subseteq [id : Ids, item : Items]
  /\ tree \in Seq([item : Items, id : Ids, under : Items \cup {0}])
  /\ nitems \in Items \cup {0} /\ nbuilds \in 0..MaxBuilds

Lists == {s \in UNION {[1..n -> Channel] : n \in 0..MaxChannels} :
            \A i, j \in DOMAIN s : i # j => s[i].id # s[j].id}

Init ==
  /\ json \in [Guilds -> Lists]
  /\ loaded = {}
  /\ pc = "loop" /\ guild = NoGuild /\ next = 1
  /\ uitable = {} /\ tree = <<>> /\ nitems = 0 /\ nbuilds = 0

-----------------------------------------------------------------------------
\* HandleREADY has gone through the guild's channels and sets it in GuildsTable.
Load(g) ==
  /\ g \notin loaded
  /\ loaded' = loaded \cup {g}
  /\ UNCHANGED <<json, pc, guild, next, uitable, tree, nitems, nbuilds>>

\* Variant: ChannelUITable is static, like the other tables.
Select_KeepsTable(g) ==
  /\ pc = "loop" /\ g \in loaded /\ nbuilds < MaxBuilds
  /\ guild' = g /\ nbuilds' = nbuilds + 1
  /\ tree' = <<>>
  /\ next' = 1 /\ pc' = "build"
  /\ UNCHANGED <<json, loaded, nitems, uitable>>

\* WM_NOTIFY of the guild bar: the tree and the table of categories start empty.
Select(g) ==
  /\ pc = "loop" /\ g \in loaded /\ nbuilds < MaxBuilds
  /\ guild' = g /\ nbuilds' = nbuilds + 1
  /\ tree' = <<>> /\ uitable' = {}
  /\ next' = 1 /\ pc' = "build"
  /\ UNCHANGED <<json, loaded, nitems>>

Current == json[guild][next]

\* hashmap_get(ChannelUITable, parentID), TVI_ROOT if it is not there.
ParentItem(ch) ==
  LET found == {e \in uitable : e.id = ch.parentID}
  IN  IF found = {} THEN 0 ELSE (CHOOSE e \in found : TRUE).item

\* Variant: a hash entry is made for every channel.
Insert_AllInTable ==
  /\ pc = "build" /\ next <= Len(json[guild]) /\ Current.readable
  /\ tree' = Append(tree, [item |-> nitems + 1, id |-> Current.id, under |-> ParentItem(Current)])
  /\ nitems' = nitems + 1
  /\ uitable' = {e \in uitable : e.id # Current.id}
                   \cup {[id |-> Current.id, item |-> nitems + 1]}
  /\ next' = next + 1
  /\ UNCHANGED <<json, loaded, pc, guild, nbuilds>>

\* TVM_INSERTITEM; a category is entered into the table.
Insert ==
  /\ pc = "build" /\ next <= Len(json[guild]) /\ Current.readable
  /\ tree' = Append(tree, [item |-> nitems + 1, id |-> Current.id, under |-> ParentItem(Current)])
  /\ nitems' = nitems + 1
  /\ uitable' = IF Current.category
                THEN {e \in uitable : e.id # Current.id}
                       \cup {[id |-> Current.id, item |-> nitems + 1]}
                ELSE uitable
  /\ next' = next + 1
  /\ UNCHANGED <<json, loaded, pc, guild, nbuilds>>

\* HandleREADY skipped the channel: its slot was never written.
ReadUnset ==
  /\ pc = "build" /\ next <= Len(json[guild]) /\ ~Current.readable
  /\ pc' = "wild"
  /\ UNCHANGED <<json, loaded, guild, next, uitable, tree, nitems, nbuilds>>

Built ==
  /\ pc = "build" /\ next > Len(json[guild])
  /\ pc' = "loop"
  /\ UNCHANGED <<json, loaded, guild, next, uitable, tree, nitems, nbuilds>>

Next == \/ \E g \in Guilds : Load(g) \/ Select(g)
        \/ Insert \/ ReadUnset \/ Built

Spec == Init /\ [][Next]_vars
=============================================================================
