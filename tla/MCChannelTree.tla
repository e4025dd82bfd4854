--------------------------- MODULE MCChannelTree ---------------------------
(* Instances of ChannelTree for TLC: two guilds.                            *)
EXTENDS ChannelTree, TLC

CONSTANTS g1, g2, none

Two == {g1, g2}
Swap == Permutations(Two)
=============================================================================
