-------------------------- MODULE MCSecCompClient --------------------------
(* Instances of SecCompClient for TLC.                                     *)
EXTENDS SecCompClient, TLC

CONSTANTS h1, h2

TwoThreads == {h1, h2}
ThreadSymmetry == Permutations(TwoThreads)
=============================================================================
