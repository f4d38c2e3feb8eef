---------------------------- MODULE MCSprinkler ----------------------------
(* Small instances of the sprinkler thread for TLC. *)
EXTENDS Sprinkler

AllPoints == PCs \ {"down"}
=============================================================================
