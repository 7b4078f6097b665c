-------------------------- MODULE MCSecCompManager --------------------------
(* Instances of SecCompManager for TLC.                                    *)
EXTENDS SecCompManager, TLC

CONSTANTS p1, p2, t1, t2, c1, c2

OnePid == {p1}
TwoPids == {p1, p2}
OneToken == {t1}
TwoTokens == {t1, t2}
OneCaller == {c1}
TwoCallers == {c1, c2}
CallerSymmetry == Permutations(TwoCallers)

OwnToken == (p1 :> {t1}) @@ (p2 :> {t2})
SharedToken == (p1 :> {t1}) @@ (p2 :> {t1})
ReusedPid == (p1 :> {t1, t2})
MixedTokens == (p1 :> {t1, t2}) @@ (p2 :> {t1})
SingleToken == (p1 :> {t1})

Ids(n) == 1..n
OneId == Ids(1)
TwoIds == Ids(2)
ThreeIds == Ids(3)

GrantPaths == {"click", "dialog"}
=============================================================================
