------------------------------ MODULE MCDmList ------------------------------
(* Instances of DmList for TLC.                                             *)
EXTENDS DmList, TLC
=============================================================================
