------------------------------ MODULE MCRunner ------------------------------
(* Instances of Runner for TLC: two processes and a few tool calls.        *)
EXTENDS Runner

CONSTANTS p1, p2

TwoProcs == {p1, p2}
OneProc == {p1}

(* "r" is a read (idempotent), "w" a write, "x" a tool the policy denies.  *)
OneWrite == {<<"w">>, << >>}
ReadWrite == {<<"w", "r">>, << >>}
DeniedWrite == {<<"x", "w">>, << >>}
=============================================================================
