----------------------------- MODULE MCIoSched -----------------------------
(* Instances of IoSched for TLC. *)
EXTENDS IoSched, TLC
=============================================================================
