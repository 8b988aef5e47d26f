------------------------------ MODULE MCAssistant ------------------------------
(* Instances of Assistant, and with it of Analysis and Trash, for TLC. *)
EXTENDS Assistant, TLC
=============================================================================
