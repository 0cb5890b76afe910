------------------------------ MODULE MCGitSync ------------------------------
(* GitSync and KnowledgeStore on small sets, for TLC.                      *)
EXTENDS GitSync
=============================================================================
