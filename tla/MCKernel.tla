------------------------------ MODULE MCKernel ------------------------------
(***************************************************************************)
(* Instances of Kernel for TLC.  The threads, profiles and failures of each *)
(* run are the CONSTANTs of its .cfg; every thread acts once, so the state  *)
(* space is finite without a constraint.                                    *)
(***************************************************************************)
EXTENDS Kernel

(* Every launch that the threads of a run can make finds a free pid, so that *)
(* no start fails for want of one: each call and each change causes one      *)
(* launch at most, and kernels that may fail need not be launched at all.    *)
EnoughPIDs ==
  MayFail \/ MaxPID >= Cardinality(Calls \cup Notifiers) + IF Boot = NoProfile THEN 0 ELSE 1

ASSUME EnoughPIDsAssumption == EnoughPIDs
=============================================================================
