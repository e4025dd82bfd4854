---------------------------- MODULE MCIconFiles ----------------------------
(* Instance of IconFiles for TLC.                                           *)
EXTENDS IconFiles

CONSTANTS gw, ui, inner, none, guild, user, group
=============================================================================
