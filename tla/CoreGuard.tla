----------------------------- MODULE CoreGuard -----------------------------
(***************************************************************************)
(* The guard protocol of platform: how at most one core runs in a data      *)
(* directory although backend, guard and core are processes of their own    *)
(* and each can be killed at any moment.                                    *)
(*                                                                          *)
(*  - a backend takes data/backend.lock, ends what an earlier backend left  *)
(*    behind (PrepareCore), serves, and launches guards one after another;  *)
(*  - a guard (RunCoreGuard) takes core.lock, refuses if process.json names *)
(*    an earlier core, runs `sing-box check` and then the core, and writes  *)
(*    each into process.json once it runs;                                  *)
(*  - the backend's reader goroutine (readCoreGuard) waits for the guard's  *)
(*    end, kills the core if the guard could not, and removes the record.   *)
(*                                                                          *)
(* A process is an incarnation: an identity of pid and creation time that   *)
(* never returns.  core.lock and backend.lock are OS locks, so each is held *)
(* by whoever is in a stage that holds it and let go of when it dies.  The  *)
(* control pipe is open as long as the backend lives and has not closed it. *)
(***************************************************************************)
CONSTANTS Backends,    \* backend processes
          Guards,      \* guard processes
          Nobody,      \* no guard, no backend
          KillableAt,  \* stages in which a guard may be killed from outside
          Slow         \* may a bounded wait end before what it waits for?

BackendStages == {"off", "waiting", "reading", "ending", "serving", "closing",
                  "refused", "released", "dead"}
GuardStages   == {"free", "started", "validated", "locked", "ready", "spawned",
                  "watching", "stopping", "aborting", "leaving", "unlocked",
                  "dead", "killed"}
ReaderStages  == {"none", "reading", "killing", "locking", "removing", "done", "gone"}
ChildStages   == {"check", "core"}

ASSUME CoreGuardAssumption ==
  /\ Nobody \notin Backends \cup Guards
  /\ KillableAt \subseteq GuardStages \ {"free", "dead", "killed"}
  /\ Slow \in BOOLEAN

VARIABLES
  backend,  \* where each backend is
  guard,    \* where each guard is
  by,       \* the backend that launched it
  control,  \* what the backend has said on its control pipe
  stage,    \* the child it runs: the check or the core
  child,    \* that process; "asked" when it has been signalled to end
  told,     \* the children whose spawn event the guard has sent
  heard,    \* the child the reader knows of
  reader,   \* where the reader goroutine of each guard is
  record    \* process.json: the guard and the child it names

vars == <<backend, guard, by, control, stage, child, told, heard, reader, record>>

NoRecord == [guard |-> Nobody, stage |-> "check"]

(* Mutant: the record names the backend in the guard's place. *)
RecordOfBackend(g) == [guard |-> by[g], stage |-> stage[g]]

Record(g) == [guard |-> g, stage |-> stage[g]]

(* The variables keep their type.                                            *)
TypeOK ==
  /\ backend \in [Backends -> BackendStages]
  /\ guard \in [Guards -> GuardStages]
  /\ by \in [Guards -> Backends \cup {Nobody}]
  /\ control \in [Guards -> {"open", "stop", "closed"}]
  /\ stage \in [Guards -> ChildStages]
  /\ child \in [Guards -> {"none", "live", "asked", "dead"}]
  /\ told \in [Guards -> SUBSET ChildStages]
  /\ heard \in [Guards -> ChildStages \cup {"nothing"}]
  /\ reader \in [Guards -> ReaderStages]
  /\ record \in [guard : Guards \cup {Nobody}, stage : ChildStages]

-----------------------------------------------------------------------------
BackendAlive(b) == backend[b] \notin {"off", "dead"}
GuardAlive(g)   == guard[g] \notin {"free", "dead", "killed"}
ChildAlive(g)   == child[g] \in {"live", "asked"}

(* The process that process.json names as the core is alive. *)
RecordedAlive ==
  /\ record.guard \in Guards
  /\ ChildAlive(record.guard) /\ stage[record.guard] = record.stage

(* Who holds core.lock. *)
Holds(g)     == guard[g] \in {"locked", "ready", "spawned", "watching", "stopping",
                              "aborting", "leaving"}
Removing(g)  == reader[g] = "removing"
Preparing(b) == backend[b] \in {"reading", "ending"}

LockFree ==
  /\ \A g \in Guards : ~Holds(g) /\ ~Removing(g)
  /\ \A b \in Backends : ~Preparing(b)

(* Who holds backend.lock. *)
Owns(b) ==
  backend[b] \in {"waiting", "reading", "ending", "serving", "closing", "refused"}

(* The guard finds its control pipe at its end. *)
Lost(g) == control[g] = "closed" \/ backend[by[g]] = "dead"

Init ==
  /\ backend = [b \in Backends |-> "off"]
  /\ guard = [g \in Guards |-> "free"]
  /\ by = [g \in Guards |-> Nobody]
  /\ control = [g \in Guards |-> "open"]
  /\ stage = [g \in Guards |-> "check"]
  /\ child = [g \in Guards |-> "none"]
  /\ told = [g \in Guards |-> {}]
  /\ heard = [g \in Guards |-> "nothing"]
  /\ reader = [g \in Guards |-> "none"]
  /\ record = NoRecord

Goes(b, to)    == backend' = [backend EXCEPT ![b] = to]
Advances(g, to) == guard' = [guard EXCEPT ![g] = to]
Reads(g, to)   == reader' = [reader EXCEPT ![g] = to]
Asked(g) == [child EXCEPT ![g] = IF @ = "live" THEN "asked" ELSE @]

process == <<stage, child, told>>
pipes   == <<by, control, heard>>

-----------------------------------------------------------------------------
(* The backend. *)

(* application.New. *)
Open(b) ==
  /\ backend[b] = "off" /\ \A c \in Backends : ~Owns(c)
  /\ Goes(b, "waiting")
  /\ UNCHANGED <<guard, process, pipes, reader, record>>

(* PrepareCore waits for core.lock, but only so long. *)
PrepareLock(b) ==
  /\ backend[b] = "waiting"
  /\ \/ LockFree /\ Goes(b, "reading")
     \/ Slow /\ Goes(b, "refused")
  /\ UNCHANGED <<guard, process, pipes, reader, record>>

(* A record whose backend or guard is alive is refused; a core it names is    *)
(* asked to end.                                                              *)
PrepareRead(b) ==
  /\ backend[b] = "reading"
  /\ LET g == record.guard
         owned == g \in Guards /\ (BackendAlive(by[g]) \/ GuardAlive(g))
     IN \/ /\ owned
           /\ Goes(b, "refused")
           /\ UNCHANGED <<child, record>>
        \/ /\ ~owned /\ RecordedAlive
           /\ Goes(b, "ending")
           /\ child' = Asked(g)
           /\ UNCHANGED record
        \/ /\ ~owned /\ ~RecordedAlive
           /\ Goes(b, "serving")
           /\ record' = NoRecord
           /\ UNCHANGED child
  /\ UNCHANGED <<guard, stage, told, pipes, reader>>

PrepareEnd(b) ==
  /\ backend[b] = "ending"
  /\ \/ ~RecordedAlive /\ Goes(b, "serving") /\ record' = NoRecord
     \/ Slow /\ Goes(b, "refused") /\ UNCHANGED record
  /\ UNCHANGED <<guard, process, pipes, reader>>

(* execCoreGuard.  The kernel starts one core at a time: the last guard is    *)
(* finished, or the bounded wait for an aborted one is over.                  *)
Launch(b, g) ==
  /\ backend[b] = "serving" /\ guard[g] = "free"
  /\ \A h \in Guards :
       by[h] = b => reader[h] = "done" \/ (Slow /\ control[h] = "closed")
  /\ Advances(g, "started")
  /\ by' = [by EXCEPT ![g] = b]
  /\ Reads(g, "reading")
  /\ UNCHANGED <<backend, process, control, heard, record>>

(* guardProcess.requestStop, for KillProcess or CloseCoreProcesses. *)
RequestStop(g) ==
  /\ control[g] = "open" /\ reader[g] \in {"reading", "killing", "locking", "removing"}
  /\ heard[g] = "core" \/ backend[by[g]] = "closing"
  /\ control' = [control EXCEPT ![g] = "stop"]
  /\ UNCHANGED <<backend, guard, process, by, heard, reader, record>>

(* The context of a start ends before its core is known. *)
Abort(g) ==
  /\ reader[g] = "reading" /\ heard[g] # "core" /\ control[g] # "closed"
  /\ control' = [control EXCEPT ![g] = "closed"]
  /\ UNCHANGED <<backend, guard, process, by, heard, reader, record>>

CloseBegins(b) ==
  /\ backend[b] = "serving"
  /\ Goes(b, "closing")
  /\ UNCHANGED <<guard, process, pipes, reader, record>>

(* Mutant: the guards that launch a core are not waited for. *)
CloseHasty(b) ==
  /\ backend[b] = "closing"
  /\ \A g \in Guards : by[g] = b => control[g] # "open"
  /\ Goes(b, "released")
  /\ UNCHANGED <<guard, process, pipes, reader, record>>

(* CloseCoreProcesses has waited for every guard or closed its pipe; then the *)
(* application lets go of backend.lock.                                       *)
CloseEnds(b) ==
  /\ backend[b] = "closing"
  /\ Slow \/ \A g \in Guards : by[g] = b => reader[g] = "done"
  /\ Goes(b, "released")
  /\ control' = [g \in Guards |->
                   IF by[g] = b /\ reader[g] # "done" THEN "closed" ELSE control[g]]
  /\ UNCHANGED <<guard, process, by, heard, reader, record>>

GivesUp(b) ==
  /\ backend[b] = "refused"
  /\ Goes(b, "released")
  /\ UNCHANGED <<guard, process, pipes, reader, record>>

(* The process ends, by itself or killed, and its reader goroutines with it. *)
Dies(b) ==
  /\ Goes(b, "dead")
  /\ reader' = [g \in Guards |-> IF by[g] = b /\ reader[g] # "done" THEN "gone"
                                 ELSE reader[g]]
  /\ UNCHANGED <<guard, process, pipes, record>>

BackendExits(b)   == backend[b] = "released" /\ Dies(b)
BackendCrashes(b) == BackendAlive(b) /\ Dies(b)

-----------------------------------------------------------------------------
(* The guard: RunCoreGuard. *)

(* The spawn events under way; that of a core is the last one. *)
Unheard(g) == told[g] \ (IF heard[g] = "core" THEN ChildStages ELSE {heard[g]})

(* It reads its request and looks whether the backend lives. *)
GuardInit(g) ==
  /\ guard[g] = "started"
  /\ Advances(g, IF BackendAlive(by[g]) THEN "validated" ELSE "unlocked")
  /\ UNCHANGED <<backend, process, pipes, reader, record>>

GuardLock(g) ==
  /\ guard[g] = "validated"
  /\ Advances(g, IF LockFree THEN "locked" ELSE "unlocked")
  /\ UNCHANGED <<backend, process, pipes, reader, record>>

(* Mutant: a record that remains is overwritten. *)
GuardStatNothing(g) ==
  /\ guard[g] = "locked"
  /\ Advances(g, "ready")
  /\ UNCHANGED <<backend, process, pipes, reader, record>>

GuardStat(g) ==
  /\ guard[g] = "locked"
  /\ Advances(g, IF record = NoRecord THEN "ready" ELSE "leaving")
  /\ UNCHANGED <<backend, process, pipes, reader, record>>

(* The next child is started, unless that fails or the guard has been told to *)
(* end; it may not have noticed that yet.                                     *)
GuardSpawn(g) ==
  /\ guard[g] = "ready"
  /\ \/ Advances(g, "spawned") /\ child' = [child EXCEPT ![g] = "live"]
     \/ Advances(g, "leaving") /\ UNCHANGED child
  /\ UNCHANGED <<backend, stage, told, pipes, reader, record>>

(* writeCoreOwner and the spawn event. *)
GuardRecord(g) ==
  /\ guard[g] = "spawned"
  /\ record' = Record(g)
  /\ told' = [told EXCEPT ![g] = @ \cup {stage[g]}]
  /\ Advances(g, "watching")
  /\ UNCHANGED <<backend, stage, child, pipes, reader>>

(* The child cannot be identified or recorded; of the two files of the record *)
(* the first may be written already.                                          *)
GuardRecordFails(g) ==
  /\ guard[g] = "spawned"
  /\ record' \in {record, Record(g)}
  /\ child' = Asked(g)
  /\ Advances(g, "aborting")
  /\ UNCHANGED <<backend, stage, told, pipes, reader>>

NextChild(g) ==
  /\ stage[g] = "check"
  /\ stage' = [stage EXCEPT ![g] = "core"]
  /\ Advances(g, "ready")

(* The check ended well before it could be identified. *)
GuardCheckMissed(g) ==
  /\ guard[g] = "spawned" /\ child[g] = "dead"
  /\ NextChild(g)
  /\ UNCHANGED <<backend, child, told, pipes, reader, record>>

(* Mutant: the guard does not watch its control pipe. *)
GuardStopsOnRequest(g) ==
  /\ guard[g] = "watching" /\ control[g] = "stop"
  /\ child' = Asked(g)
  /\ Advances(g, "stopping")
  /\ UNCHANGED <<backend, stage, told, pipes, reader, record>>

GuardStops(g) ==
  /\ guard[g] = "watching" /\ (Lost(g) \/ control[g] = "stop")
  /\ child' = Asked(g)
  /\ Advances(g, "stopping")
  /\ UNCHANGED <<backend, stage, told, pipes, reader, record>>

(* cmd.Wait has returned. *)
GuardReaps(g) ==
  /\ guard[g] \in {"watching", "stopping", "aborting"} /\ child[g] = "dead"
  /\ \/ guard[g] = "watching" /\ NextChild(g)
     \/ Advances(g, "leaving") /\ UNCHANGED stage
  /\ UNCHANGED <<backend, child, told, pipes, reader, record>>

(* The deferred Close of core.lock, and the end of the process. *)
GuardLeaves(g) ==
  /\ \/ guard[g] = "leaving" /\ Advances(g, "unlocked")
     \/ guard[g] = "unlocked" /\ Advances(g, "dead")
  /\ UNCHANGED <<backend, process, pipes, reader, record>>

GuardIsKilled(g) ==
  /\ guard[g] \in KillableAt
  /\ Advances(g, "killed")
  /\ UNCHANGED <<backend, process, pipes, reader, record>>

ChildExits(g) ==
  /\ ChildAlive(g)
  /\ child' = [child EXCEPT ![g] = "dead"]
  /\ UNCHANGED <<backend, guard, stage, told, pipes, reader, record>>

-----------------------------------------------------------------------------
(* The backend's reader of one guard: readCoreGuard. *)

(* A spawn event arrives. *)
Hear(g) ==
  /\ reader[g] = "reading" /\ Unheard(g) # {}
  /\ heard' = [heard EXCEPT ![g] = IF "check" \in Unheard(g) THEN "check" ELSE "core"]
  /\ UNCHANGED <<backend, guard, process, by, control, reader, record>>

(* The guard's output ends.  All its events have arrived by then if it left   *)
(* by itself on an open pipe.  Without any, the record tells of the child.    *)
HearEnd(g) ==
  /\ reader[g] = "reading" /\ ~GuardAlive(g)
  /\ guard[g] = "killed" \/ control[g] = "closed" \/ Unheard(g) = {}
  /\ heard' = [heard EXCEPT ![g] = IF @ = "nothing" /\ record.guard = g
                                   THEN record.stage ELSE @]
  /\ Reads(g, "killing")
  /\ UNCHANGED <<backend, guard, process, by, control, record>>

(* terminateIdentity. *)
HeardAlive(g) == ChildAlive(g) /\ stage[g] = heard[g]

Terminate(g) ==
  /\ reader[g] = "killing"
  /\ \/ child[g] = "live" /\ HeardAlive(g) /\ child' = Asked(g) /\ UNCHANGED reader
     \/ (Slow \/ ~HeardAlive(g)) /\ Reads(g, "locking") /\ UNCHANGED child
  /\ UNCHANGED <<backend, guard, stage, told, pipes, record>>

(* The record is left alone if core.lock is taken. *)
ReaderLock(g) ==
  /\ reader[g] = "locking"
  /\ Reads(g, IF LockFree THEN "removing" ELSE "done")
  /\ UNCHANGED <<backend, guard, process, pipes, record>>

(* Mutants: the record is removed without looking at the core it names; only  *)
(* the record of a core is removed, not that of a check.                      *)
RemovableUnseen(g) == record.guard = g
RemovableCore(g)   == record.guard = g /\ record.stage = "core" /\ ~RecordedAlive

Removable(g) == record.guard = g /\ ~RecordedAlive

RemoveRecord(g) ==
  /\ Removing(g)
  /\ record' = IF Removable(g) THEN NoRecord ELSE record
  /\ Reads(g, "done")
  /\ UNCHANGED <<backend, guard, process, pipes>>

-----------------------------------------------------------------------------
PrepareStep(b) == PrepareLock(b) \/ PrepareRead(b) \/ PrepareEnd(b)

CloseStep(b) == CloseEnds(b) \/ GivesUp(b) \/ BackendExits(b)

GuardStep(g) ==
  \/ GuardInit(g) \/ GuardLock(g) \/ GuardStat(g) \/ GuardSpawn(g) \/ GuardRecord(g)
  \/ GuardRecordFails(g) \/ GuardCheckMissed(g) \/ GuardStops(g) \/ GuardReaps(g)
  \/ GuardLeaves(g)

ReaderStep(g) ==
  Hear(g) \/ HearEnd(g) \/ Terminate(g) \/ ReaderLock(g) \/ RemoveRecord(g)

(* Every backend has come and gone, and nothing else runs. *)
Rest ==
  /\ \A b \in Backends : backend[b] = "dead"
  /\ \A g \in Guards : ~GuardAlive(g) /\ ~ChildAlive(g)
  /\ UNCHANGED vars

Next ==
  \/ \E b \in Backends :
       \/ Open(b) \/ PrepareStep(b) \/ CloseBegins(b) \/ CloseStep(b) \/ BackendCrashes(b)
       \/ \E g \in Guards : Launch(b, g)
  \/ \E g \in Guards :
       \/ RequestStop(g) \/ Abort(g) \/ GuardStep(g) \/ GuardIsKilled(g)
       \/ ChildExits(g) \/ ReaderStep(g)
  \/ Rest

Spec == Init /\ [][Next]_vars

(* Processes and goroutines that can go on do; a process that was asked to    *)
(* end does; a closing backend asks its guards to stop.  Nothing forces a     *)
(* backend to come, close or die, a guard to be launched or killed, a start   *)
(* to be aborted or a core to exit by itself.                                 *)
Fairness ==
  /\ \A b \in Backends : WF_vars(PrepareStep(b)) /\ WF_vars(CloseStep(b))
  /\ \A g \in Guards :
       /\ WF_vars(GuardStep(g)) /\ WF_vars(ReaderStep(g))
       /\ WF_vars(child[g] = "asked" /\ ChildExits(g))
       /\ WF_vars(RequestStop(g) /\ backend[by[g]] = "closing")

FairSpec == Spec /\ Fairness

-----------------------------------------------------------------------------
(* What the protocol promises: CoreSlot, for the backends that serve and the  *)
(* cores (and checks) that live.                                              *)
Serving == {b \in Backends : backend[b] \in {"serving", "closing"}}
Living  == {g \in Guards : ChildAlive(g)}

Slot == INSTANCE CoreSlot WITH Cores <- Guards, serving <- Serving, cores <- Living

ImplementsCoreSlot == Slot!Spec

(* process.json names every core that lives, except one whose guard has just  *)
(* started it and holds core.lock: whatever dies, the next backend finds it.  *)
LiveIsRecorded ==
  \A g \in Guards : ChildAlive(g) => record = Record(g) \/ guard[g] \in {"spawned", "aborting"}

(* A guard that finds its control pipe at its end ends its core.              *)
GuardEndsCore ==
  \A g \in Guards :
    (GuardAlive(g) /\ Lost(g) /\ ChildAlive(g)) ~> (~ChildAlive(g) \/ guard[g] = "killed")

(* A backend that finds a core or guard of an earlier one is not held up.     *)
PrepareEnds ==
  \A b \in Backends : backend[b] = "waiting" ~> backend[b] \notin {"waiting", "reading", "ending"}

(* It is refused in one moment only: the guard of the earlier one has let go  *)
(* of core.lock and is not gone yet.  Whoever comes later serves.             *)
RefusedInPassing ==
  [][\A b \in Backends : backend[b] = "reading" /\ backend'[b] = "refused" =>
       record.guard \in Guards /\ guard[record.guard] = "unlocked"]_vars

(* A lost backend takes its core with it, and the next backend gets to serve,  *)
(* unless it comes in that moment.                                            *)
LossIsDealtWith == GuardEndsCore /\ PrepareEnds /\ RefusedInPassing

(* Closing leaves neither a guard nor a core, unless a wait was too short.    *)
ClosedIsClean ==
  [][\A b \in Backends, g \in Guards :
       backend[b] = "closing" /\ backend'[b] = "released" /\ by[g] = b /\ ~Slow
         => ~GuardAlive(g) /\ ~ChildAlive(g)]_vars

(* The record of a guard whose end the backend has dealt with is gone, so it  *)
(* does not keep the next guard from starting a core.                         *)
CanLaunch ==
  \A g \in Guards : reader[g] = "done" /\ ~ChildAlive(g) => record.guard # g

(* A core whose guard has died is ended by the backend: when its reader is    *)
(* done, it does not live.                                                    *)
CleanedUp == \A g \in Guards : reader[g] = "done" => ~ChildAlive(g)
=============================================================================
