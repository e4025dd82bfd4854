------------------------------- MODULE DmList -------------------------------
(***************************************************************************)
(* The list of direct messages: what HandleREADY stored of private_channels*)
(* and how a click on the DM button fills the list view and its images     *)
(* (WindowProc).                                                           *)
(*                                                                         *)
(* hSidePfps only grows, while every filling counts its images from 0      *)
(* again.  A picture that cannot be loaded is announced in a message box   *)
(* and a blank one is added in its place; from the box the user may reach  *)
(* the DM button again, so fillings nest.  An image is known by the        *)
(* channel it was added for, a channel by its place in PrivateChannels.    *)
(* What the user sees, and the property of that, is DmsShown.              *)
(***************************************************************************)
EXTENDS DmsShown, FiniteSets

CONSTANTS MaxChannels,  \* bound: private channels
          MaxOpens,     \* bound: clicks on the DM button
          MaxNest       \* bound: fillings under way at once

ASSUME BoundsAssumption == {MaxChannels, MaxOpens, MaxNest} \subseteq Nat

VARIABLES
  fills,     \* fillings under way, the running one last: [i, pfpidx, box]
  nopens,    \* clicks so far
  done,      \* history: a filling was finished
  wild       \* an unset slot of PrivateChannels was used

vars == <<channels, images, items, fills, nopens, early, done, wild>>

Kinds   == {"dm", "group", "other", "unset"}
Channel == [kind : Kinds, picture : BOOLEAN]
Depth   == Len(fills)
Top     == fills[Depth]

TypeOK ==
  /\ channels \in Seq(Channel)
  /\ images \in Seq(1..Len(channels))
  /\ items \in Seq([ch : 1..Len(channels), iImage : Nat])
  /\ fills \in Seq([i : 1..(Len(channels) + 1), pfpidx : Nat, box : BOOLEAN])
  /\ nopens \in 0..MaxOpens
  /\ {early, done, wild} \subseteq BOOLEAN

Init ==
  /\ \E n \in 0..MaxChannels : channels \in [1..n -> Channel]
  /\ images = <<>> /\ items = <<>> /\ fills = <<>>
  /\ nopens = 0 /\ early = FALSE /\ done = FALSE /\ wild = FALSE

-----------------------------------------------------------------------------
InLoop == Depth > 0 => Top.box

\* The click: ListView_DeleteAllItems, and the loop over PrivateChannels.
Open ==
  /\ InLoop /\ ~wild
  /\ nopens < MaxOpens /\ Depth < MaxNest
  /\ nopens' = nopens + 1
  /\ items' = <<>>
  /\ fills' = Append(fills, [i |-> 1, pfpidx |-> 0, box |-> FALSE])
  /\ early' = (early \/ (Depth > 0 /\ ~done))
  /\ UNCHANGED <<channels, images, done, wild>>

Running == Depth > 0 /\ ~Top.box /\ ~wild
Here    == channels[Top.i]
Shown(c) == channels[c].kind \in {"dm", "group"}
At(picture) == Running /\ Top.i <= Len(channels) /\ Shown(Top.i) /\ Here.picture = picture

\* LoadPNGBitmap fails and shows its box; MessageBoxA(NULL, ...) leaves the
\* window enabled.
PictureFails ==
  /\ At(TRUE)
  /\ fills' = [fills EXCEPT ![Depth].box = TRUE]
  /\ UNCHANGED <<channels, images, items, nopens, early, done, wild>>

\* The item of the channel that the loop is at; iItem stays 0, so it goes to
\* the top.  The loop goes on with the next one.
Insert(iImage, counted) ==
  /\ items' = <<[ch |-> Top.i, iImage |-> iImage]>> \o items
  /\ fills' = [fills EXCEPT ![Depth] =
                 [i |-> @.i + 1, pfpidx |-> @.pfpidx + counted, box |-> FALSE]]

\* Variant: the items take the place in the loop for the image index.
WithPicture_ByPlace ==
  /\ Depth > 0 /\ ~wild /\ Top.i <= Len(channels)
  /\ Top.box \/ At(TRUE)
  /\ images' = Append(images, Top.i)
  /\ Insert(Top.i - 1, 1)
  /\ UNCHANGED <<channels, nopens, early, done, wild>>

\* ImageList_Add of the picture, or after the box of the blank one that
\* ResizeBitmap(NULL) makes.
WithPicture ==
  /\ Depth > 0 /\ ~wild /\ Top.i <= Len(channels)
  /\ Top.box \/ At(TRUE)
  /\ images' = Append(images, Top.i)
  /\ Insert(Top.pfpidx, 1)
  /\ UNCHANGED <<channels, nopens, early, done, wild>>

\* No avatar, no icon: iImage = 0.
WithoutPicture ==
  /\ At(FALSE)
  /\ Insert(0, 0)
  /\ UNCHANGED <<channels, images, nopens, early, done, wild>>

\* A type the list does not show, or an unset slot whose type is none of them.
Skip ==
  /\ Running /\ Top.i <= Len(channels) /\ ~Shown(Top.i)
  /\ fills' = [fills EXCEPT ![Depth].i = @ + 1]
  /\ UNCHANGED <<channels, images, items, nopens, early, done, wild>>

\* HandleREADY left the slot unset, and its type happens to be a shown one.
UseUnset ==
  /\ Running /\ Top.i <= Len(channels) /\ Here.kind = "unset"
  /\ wild' = TRUE
  /\ UNCHANGED <<channels, images, items, fills, nopens, early, done>>

FillEnds ==
  /\ Running /\ Top.i > Len(channels)
  /\ fills' = SubSeq(fills, 1, Depth - 1)
  /\ done' = TRUE
  /\ UNCHANGED <<channels, images, items, nopens, early, wild>>

Next == Open \/ PictureFails \/ WithPicture \/ WithoutPicture \/ Skip \/ UseUnset \/ FillEnds

Spec == Init /\ [][Next]_vars
=============================================================================
