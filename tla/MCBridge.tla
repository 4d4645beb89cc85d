------------------------------ MODULE MCBridge -------------------------------
(* Bridge with two keys to tell an old report from a new one.              *)
EXTENDS Bridge

=============================================================================
