----------------------------- MODULE MCOwnerLoop ----------------------------
(* Instances of OwnerLoop for TLC.  A reply wait that polls once can consume   *)
(* one wake-up, which is what makes it different from one that does not.       *)
EXTENDS OwnerLoop

CONSTANTS c1, c2, c3, s1, s2
=============================================================================
