----------------------------- MODULE CoreState -----------------------------
(***************************************************************************)
(* The fields of kernel.Service that its mutexes stateEventMu and mu guard, *)
(* as one record, and the critical sections that change them, as operators  *)
(* from a record to a record.  Each Go function named here takes both       *)
(* mutexes for its whole body, so each operator is one atomic update.       *)
(*                                                                          *)
(*   pid   corePID, NoPID for the code's -1                                 *)
(*   api   the pid nativeAPI was installed for, NoPID when it is nil        *)
(*   cur   currentProfile: the profile the core was started from and the    *)
(*         revision of its stored form, NoSnap for nil                      *)
(***************************************************************************)
EXTENDS Naturals

CONSTANTS Profiles,   \* profile ids a request can name
          NoProfile,  \* the empty profile id
          MaxPID      \* number of core processes one behaviour can start

ASSUME CoreStateAssumption ==
  /\ NoProfile \notin Profiles
  /\ MaxPID \in Nat

PIDs  == 1..MaxPID
NoPID == 0

Snapshot == [id : Profiles \cup {NoProfile}, rev : Nat]
NoSnap   == [id |-> NoProfile, rev |-> 0]

Status == {"STOPPED", "STARTING", "RUNNING", "STOPPING", "CRASHED"}

CoreRecord ==
  [ status     : Status,
    pid        : PIDs \cup {NoPID},
    api        : PIDs \cup {NoPID},
    active     : Profiles \cup {NoProfile},
    cur        : Snapshot,
    required   : BOOLEAN,
    restarting : BOOLEAN,
    closing    : BOOLEAN ]

NewService ==
  [ status |-> "STOPPED", pid |-> NoPID, api |-> NoPID, active |-> NoProfile,
    cur |-> NoSnap, required |-> FALSE, restarting |-> FALSE, closing |-> FALSE ]

(* What a completed start of core p from snapshot s leaves behind. *)
RunningService(p, s) ==
  [NewService EXCEPT !.status = "RUNNING", !.pid = p, !.api = p,
                     !.active = s.id, !.cur = s]

-----------------------------------------------------------------------------
(* setStarting refuses unless the previous core is known to be gone. *)
CanStart(c) ==
  /\ ~c.closing
  /\ c.pid = NoPID
  /\ c.status \in {"STOPPED", "CRASHED"}

Starting(c, id) ==
  [c EXCEPT !.status = "STARTING", !.active = id, !.pid = NoPID, !.cur = NoSnap]

(* Mutants: the check of closing, or of status and pid, is dropped. *)
CanCompleteClosing(c, p) == c.status = "STARTING" /\ c.pid = p
CanCompleteLate(c, p)    == ~c.closing

(* completeStart: the only place a native API credential is installed. *)
CanComplete(c, p) ==
  /\ ~c.closing
  /\ c.status = "STARTING"
  /\ c.pid = p

Completed(c, p, s) ==
  [c EXCEPT !.status = "RUNNING", !.api = p, !.active = s.id, !.cur = s,
            !.required = FALSE]

(* setStopped is unconditional: it looks at neither status nor pid. *)
Stopped(c) ==
  [c EXCEPT !.status = "STOPPED", !.api = NoPID, !.pid = NoPID, !.cur = NoSnap,
            !.required = @ /\ c.restarting]

(* beginStopping: a no-op on a stopped core, an error unless it is running. *)
NothingToStop(c) == c.status = "STOPPED" /\ c.pid = NoPID
CanStop(c)       == c.status = "RUNNING"
Stopping(c)      == [c EXCEPT !.status = "STOPPING", !.api = NoPID]

(* StopCore when KillProcess could not confirm the exit: pid is kept. *)
StopFailed(c) == [c EXCEPT !.status = "CRASHED", !.required = FALSE]

(* launchPreparedCore after a failed readiness check; whatever the status was. *)
Abandoning(c) == [c EXCEPT !.status = "STOPPING"]

(* handleCoreProcessExit(p, err): ignored unless p is the current core of a   *)
(* starting, running or stopping service.                                     *)
ExitApplies(c, p) ==
  /\ c.pid = p
  /\ c.status \in {"STOPPING", "STARTING", "RUNNING"}

AfterExit(c, unconfirmed) ==
  LET crashed == unconfirmed \/ (~c.closing /\ c.status # "STOPPING")
  IN [c EXCEPT !.status   = IF crashed THEN "CRASHED" ELSE "STOPPED",
               !.api      = NoPID,
               !.pid      = IF unconfirmed THEN @ ELSE NoPID,
               !.cur      = NoSnap,
               !.required = @ /\ ~crashed /\ c.restarting]

(* Mutant: the pid of another process, the guard, is reported. *)
GuardReported(c, p) == [c EXCEPT !.pid = p + 1]

(* ExecOptions.OnStarted, and launchPreparedCore once ExecBackground returns. *)
StartReported(c, p) == [c EXCEPT !.pid = p]
Adopted(c, p) == IF c.status = "STARTING" THEN StartReported(c, p) ELSE c

(* BeginShutdown; it takes mu alone and publishes nothing. *)
Closing(c) ==
  [c EXCEPT !.closing = TRUE, !.api = NoPID,
            !.status  = IF c.pid # NoPID THEN "STOPPING" ELSE @]

(* The end of a restart, by the worker or by hand: a pending restart request  *)
(* means nothing to a core that is not running.                               *)
RequiredOnlyIfRunning(c) == [c EXCEPT !.required = @ /\ c.status = "RUNNING"]

RestartOver(c) == [RequiredOnlyIfRunning(c) EXCEPT !.restarting = FALSE]

(* requestConfigRestart: a change counts only for a running core or one that  *)
(* is being restarted.                                                        *)
ChangeCounts(c) == ~c.closing /\ (c.status = "RUNNING" \/ c.restarting)
ChangeNoted(c, automatic) ==
  [c EXCEPT !.required = TRUE, !.restarting = @ \/ automatic]
=============================================================================
