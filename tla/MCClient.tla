------------------------------ MODULE MCClient ------------------------------
(* Instance of Client for TLC.                                              *)
EXTENDS Client

CONSTANTS ui, gw, none
=============================================================================
