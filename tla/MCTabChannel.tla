---------------------------- MODULE MCTabChannel ----------------------------
(* Instances of TabChannel for TLC; the bounds are in the .cfg files. *)
EXTENDS TabChannel

AllOps == {"load", "mutate", "geom", "quiet"}
=============================================================================
