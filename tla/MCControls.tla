----------------------------- MODULE MCControls -----------------------------
(* The keys and the power of one device, for TLC.                          *)
EXTENDS Controls
=============================================================================
