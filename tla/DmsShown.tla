------------------------------- MODULE DmsShown -------------------------------
(***************************************************************************)
(* The list of direct messages as the window shows it: the items and the   *)
(* images that their numbers stand for.  DmList is how both come about;    *)
(* here is how they have to agree.                                         *)
(***************************************************************************)
EXTENDS Naturals, Sequences

VARIABLES
  channels,  \* PrivateChannels
  images,    \* hSidePfps: owner of each image; image k is images[k + 1]
  items,     \* hDMsList from the top: [ch, iImage]
  early      \* history: a filling was begun inside another one before any was finished

\* Every channel with a picture shows its own, at every opening, although
\* hSidePfps grows and pfpidx starts again at 0 - unless a filling was begun
\* from a box of the very first one.
OwnPicture ==
  ~early => \A k \in 1..Len(items) :
    channels[items[k].ch].picture =>
      /\ items[k].iImage < Len(images)
      /\ images[items[k].iImage + 1] = items[k].ch
=============================================================================
