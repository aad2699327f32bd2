----------------------------- MODULE MCToolCall -----------------------------
(* A small instance of ToolCall. *)
EXTENDS ToolCall
=============================================================================
