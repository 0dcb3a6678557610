---------------------------- MODULE MCCoreGuard ----------------------------
(***************************************************************************)
(* Instances of CoreGuard for TLC.                                          *)
(***************************************************************************)
EXTENDS CoreGuard, TLC

Permutable == Permutations(Guards) \cup Permutations(Backends)
=============================================================================
