------------------------------- MODULE MCFleet ------------------------------
(* Instances of Fleet for TLC.                                             *)
EXTENDS Fleet, TLC

CONSTANTS p1, p2

TwoProcs == {p1, p2}
OneProc == {p1}
JustWrite == {<<"w">>}
OneWrite == {<<"w">>, << >>}
NoTools == {<< >>}
ProcsSymmetry == Permutations(TwoProcs)
=============================================================================
