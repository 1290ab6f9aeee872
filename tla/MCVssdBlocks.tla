---------------------------- MODULE MCVssdBlocks ----------------------------
(* Instances of VssdBlocks for TLC. *)
EXTENDS VssdBlocks, TLC

\* An index of do_gc is the lba of some other block.
Shifted == [b \in Blocks |-> b % NBlk]
=============================================================================
