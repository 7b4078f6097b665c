----------------------------- MODULE MCCallPath -----------------------------
(* An instance of CallPath for TLC.                                        *)
EXTENDS CallPath, TLC

CONSTANTS a, b

TwoThreads == {a, b}
=============================================================================
