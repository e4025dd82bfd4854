---------------------------- MODULE MCGuildList ----------------------------
(* Instances of GuildList for TLC: two guilds, one of them with an icon.    *)
EXTENDS GuildList, TLC

CONSTANTS a, b, nobody, dms, junk

Two  == {a, b}
One  == {a}
\* The DM button, the gap under it, the edges of the first rows, below them.
Edges == {0, 56, 74, 75, 121, 122, 130, 150}
\* The thumb near the top, in between, and past the end of the range.
Drags == {1, 17, 40}
=============================================================================
