------------------------------ MODULE TreeShown ------------------------------
(***************************************************************************)
(* The channel tree as the window shows it, next to the READY message that *)
(* it is made from.  ChannelTree is how it is built; here is what it has   *)
(* to look like at any moment of that.                                     *)
(***************************************************************************)
EXTENDS Naturals, Sequences

VARIABLES
  json,   \* channels of every guild in the READY message
  guild,  \* the guild whose channels are shown
  next,   \* next channel to insert
  tree    \* items of hChTree in order: [item, id, under]; 0 is TVI_ROOT

\* Every channel hangs under the item of its category if the category comes
\* before it in the READY message, and under the root if not: never under an
\* item of an earlier tree, which the tree view has deleted.
NestedIfCategoryCameFirst ==
  \A k \in 1..Len(tree) :
    LET parent == {j \in 1..(k - 1) : \E i \in 1..(next - 1) :
                     /\ json[guild][i].category
                     /\ json[guild][i].id = tree[j].id
                     /\ \E c \in 1..(next - 1) : json[guild][c].id = tree[k].id
                                                /\ json[guild][c].parentID = tree[j].id}
    IN  IF parent = {} THEN tree[k].under = 0
        ELSE \E j \in parent : tree[k].under = tree[j].item
=============================================================================
