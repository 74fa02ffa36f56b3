--------------------------- MODULE MCMessageModel ---------------------------
(* Small instances of MessageModel for TLC. *)
EXTENDS MessageModel

\* Both kinds of node may create messages.
BothTypes == NodeType
=============================================================================
