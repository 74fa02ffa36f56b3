---------------------------- MODULE MCSimThread ----------------------------
(* A small instance of SimThread for TLC. *)
EXTENDS SimThread
=============================================================================
