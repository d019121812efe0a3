-------------------------- MODULE MCRuntimeSession --------------------------
(* Instances of RuntimeSession for TLC.                                    *)
EXTENDS RuntimeSession

CONSTANT k1

OneService == {k1}
ShortLong == {1, 2}
Short == {1}
=============================================================================
