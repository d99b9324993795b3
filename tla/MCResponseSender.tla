-------------------------- MODULE MCResponseSender --------------------------
(* Small instances of ResponseSender.                                        *)
EXTENDS ResponseSender, TLC
=============================================================================
