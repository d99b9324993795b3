---------------------------- MODULE MCToolBatch ----------------------------
(* Small instances of ToolBatch: a camera call and a quiet call.            *)
EXTENDS ToolBatch, TLC
=============================================================================
