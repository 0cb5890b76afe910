---------------------------- MODULE MCVoiceJobs ----------------------------
(* VoiceJobs on small sets, for TLC.                                       *)
EXTENDS VoiceJobs
=============================================================================
