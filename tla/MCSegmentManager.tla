-------------------------- MODULE MCSegmentManager --------------------------
(***************************************************************************)
(* Instances of SegmentManager for TLC.                                    *)
(***************************************************************************)
EXTENDS SegmentManager, TLC

CONSTANTS t1, t2, t3

ThreadSymmetry == Permutations(Threads)
=============================================================================
