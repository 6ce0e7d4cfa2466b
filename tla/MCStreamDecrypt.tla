-------------------------- MODULE MCStreamDecrypt --------------------------
(* Instances of StreamDecrypt for TLC: a disc with CPS units 0, 1 and 2, where first  *)
(* play and the top menu are in CPS unit 1.                                            *)
EXTENDS StreamDecrypt, TLC

MapOfTitles == 0 :> 1 @@ 1 :> 1 @@ 2 :> 0 @@ 3 :> 2
ThreadSymmetry == Permutations(Threads)
=============================================================================
