---------------------------- MODULE MCKernelFiles ----------------------------
(***************************************************************************)
(* The kernel and the files of the core that it starts, in one run.  A       *)
(* rollback meets the kernel in runWithCoreRestartIfCurrent: the kernel's    *)
(* side of it is Kernel's BranchOperation, the files' side is that of        *)
(* CoreFiles, where the core may run or not.  Beyond that they share no      *)
(* state, and each is explored while the other stays as it began.            *)
(***************************************************************************)
EXTENDS MCKernel, CoreFiles

VARIABLE part   \* the one that is explored

KernelFilesInit ==
  /\ Init /\ CoreFilesInit
  /\ part \in {"kernel", "files"}
  /\ part # "files" => corePath = NoCoreFile

(* After calls have crossed nothing is claimed of the files; and nobody has to   *)
(* make a call.                                                               *)
KernelFilesNext ==
  /\ UNCHANGED part
  /\ \/ part = "kernel" /\ Next /\ UNCHANGED coreFilesVars
     \/ part = "files" /\ ~crossed /\ CoreFilesNext /\ UNCHANGED vars
     \/ part = "files" /\ UNCHANGED <<vars, coreFilesVars>>

KernelFilesSpec ==
  KernelFilesInit /\ [][KernelFilesNext]_<<vars, coreFilesVars, part>>
=============================================================================
