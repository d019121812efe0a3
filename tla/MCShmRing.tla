------------------------------ MODULE MCShmRing -----------------------------
(* Instances of ShmRing for TLC.  A prefix of 2 cells and a ring of 7 let a   *)
(* prefix and a payload each wrap, a frame of 4 fill the ring and one of 5    *)
(* never fit.                                                                 *)
EXTENDS ShmRing
=============================================================================
