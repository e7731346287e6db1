---------------------------- MODULE MCTaskLifecycle ----------------------------
(***************************************************************************)
(* A parent with two children, for TLC.                                      *)
(***************************************************************************)
EXTENDS TaskLifecycle, TLC

CONSTANTS c1, c2

TwoChildren == <<c1, c2>>
CallerSymmetry == Permutations(Callers)
OneRequest == [solo |-> 1, coding |-> 0, spec_review |-> 0]
Requests == [solo |-> 2, coding |-> 2, spec_review |-> 1]

================================================================================
