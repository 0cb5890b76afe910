---------------------------- MODULE MCDeviceTurn ---------------------------
(* DeviceTurn on small sets, for TLC.                                      *)
EXTENDS DeviceTurn
=============================================================================
