---------------------------- MODULE MCPageBuffer ----------------------------
(***************************************************************************)
(* Instances of PageBuffer for TLC.                                        *)
(***************************************************************************)
EXTENDS PageBufferInv

CONSTANTS t1, t2, t3, f1, f2, f3

ThreadSymmetry == Permutations(Threads)
FrameSymmetry == Permutations(Frames)
ThreadFrameSymmetry == Permutations(Threads) \cup Permutations(Frames)
=============================================================================
