--------------------------- MODULE MCServiceStart ---------------------------
(* Instances of ServiceStart for TLC.                                      *)
EXTENDS ServiceStart, TLC

CONSTANTS t1, t2

\* Two processes of one application.
TwoPids == {1, 2}
OneApplication == <<10, 10>>

TwoTokens == {t1, t2}
TokenSymmetry == Permutations(TwoTokens)
=============================================================================
