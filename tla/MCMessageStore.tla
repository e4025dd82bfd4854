--------------------------- MODULE MCMessageStore ---------------------------
(* Instance of MessageStore for TLC: two authors.                           *)
EXTENDS MessageStore, TLC

CONSTANTS ui, gw, ann, ben

Two == {ann, ben}
Swap == Permutations(Two)
=============================================================================
