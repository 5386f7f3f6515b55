---------------------------- MODULE MCLockedRing ----------------------------
(* Instances of LockedRing.                                                *)
EXTENDS LockedRing

CONSTANTS t1, t2
=============================================================================
