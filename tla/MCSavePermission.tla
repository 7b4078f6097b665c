-------------------------- MODULE MCSavePermission --------------------------
(* Instances of SavePermission for TLC.                                    *)
EXTENDS SavePermission

CONSTANTS t1, t2

TwoTokens == {t1, t2}
ClickOnly == {"click"}
ClickAndDialog == {"click", "dialog"}
=============================================================================
