----------------------------- MODULE MCFimDaemon -----------------------------
(* Instances of FimDaemon for TLC. *)
EXTENDS FimDaemonRefinement, TLC

CONSTANTS f1, f2, d1, d2, h1, h2, v1, v2

NoPaths == {}
BothFiles == {f1, f2}
OneFile == {f1}
OneDir == {d1}
OneHash == {h1}
TwoHashes == {h1, h2}
OneVal == {v1}
TwoVals == {v1, v2}
NeverLocked == {FALSE}
MaybeLocked == {TRUE, FALSE}
WritesSucceed == {TRUE}
WritesMayFail == {TRUE, FALSE}
TwoDirs == {d1, d2}
SecondFile == {f2}
NoMoves == AllOps \ {"move"}
AttrOps == AllOps \ {"write"}
ContentOps == {"create", "write", "move", "remove"}

(* No definition tells one hash from another. *)
HashSymmetry == Permutations(TwoHashes)
=============================================================================
