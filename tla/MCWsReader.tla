----------------------------- MODULE MCWsReader -----------------------------
(* Instances of WsReader for TLC.                                           *)
EXTENDS WsReader, TLC

All == {"control", "split", "cut"}
=============================================================================
