----------------------------- MODULE MCAdminCli -----------------------------
(* Instances of AdminCli for TLC. *)
EXTENDS AdminCli, TLC

CONSTANTS p1, p2, p3, f1, f2, c1, c2, w1
ThreeProcs == {p1, p2, p3}
TwoProcs == {p1, p2}
OnePath == {f1}
TwoPaths == {f1, f2}
TwoContents == {c1, c2}
OnePassword == {w1}
Always == {TRUE}
MaybeNot == {TRUE, FALSE}
AnyNames == Permutations(ThreeProcs) \cup Permutations(TwoPaths)
                                     \cup Permutations(TwoContents)
AnyTwoProcs == Permutations(TwoProcs)
=============================================================================
