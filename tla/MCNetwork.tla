----------------------------- MODULE MCNetwork -----------------------------
(* Two saved networks of three, for TLC.                                   *)
EXTENDS Network
=============================================================================
