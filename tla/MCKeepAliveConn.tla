-------------------------- MODULE MCKeepAliveConn --------------------------
(* Instances of KeepAliveConn for TLC: the two threads that share cdncon.   *)
EXTENDS KeepAliveConn, TLC

CONSTANTS ui, gw, none

Both     == {ui, gw}
UIOnly   == {ui}
AllKinds == {"data", "mark", "nul"}
AllFaults == {"eof", "reset", "oom"}
=============================================================================
