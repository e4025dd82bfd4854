----------------------------- MODULE MCChatView -----------------------------
(* Instances of ChatView for TLC: two channels and no channel.              *)
EXTENDS ChatView, TLC

CONSTANTS general, random, null

Two == {general, random}
Swap == Permutations(Two)
=============================================================================
