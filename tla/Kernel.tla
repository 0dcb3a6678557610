------------------------------- MODULE Kernel -------------------------------
(***************************************************************************)
(* kernel.Service: the threads that operate the sing-box core.             *)
(*                                                                          *)
(*  - one thread per RPC (StartCore, StopCore, RestartCore, and the branch  *)
(*    operations RollbackCore and ClearCoreCache), which arrives at most    *)
(*    once; and the automatic-restart worker goroutine;                     *)
(*  - one thread per persisted change that notifies the service             *)
(*    (ProfilesChanged, ReferencedResourcesChanged, AppConfigChanged);      *)
(*  - per started core, the guard process and the goroutine that reads its  *)
(*    events (platform.readCoreGuard), seen through what they tell the      *)
(*    service;                                                              *)
(*  - the shutdown thread (BeginShutdown, Close).                           *)
(*                                                                          *)
(* A step is one critical section, one blocking call, or one event.  What   *)
(* is left out: configuration contents, log output, the events published to *)
(* the browser, and time: a debounce or a timeout may end at any moment.    *)
(***************************************************************************)
EXTENDS CoreState, FiniteSets

CONSTANTS
  Starts, Stops, Restarts, Branches,  \* RPC threads, by the RPC they run
  Worker,                             \* the goroutine runAutomaticRestartQueue
  Changes, Switches,                  \* notifiers: a content change, a new profile selection
  NoOp,                               \* no holder of restartOperationMu
  AutoRestart,  \* app config AutoRestartKernel
  MayFail,      \* may a start fail for a reason of its own?
  MayCancel,    \* may a client drop its request while the core is being started?
  SlowGuard,    \* may a guard outlast the bounded waits for its exit?
  Outcomes,     \* how a core's exit can be reported
  MayShutDown,  \* may the application shut down?
  Boot          \* profile a core is already running with, or NoProfile

Calls     == Starts \cup Stops \cup Restarts \cup Branches
Ops       == Calls \cup {Worker}
Notifiers == Changes \cup Switches

ASSUME KernelAssumption ==
  /\ Worker \notin Calls
  /\ NoOp \notin Ops
  /\ Starts \cap (Stops \cup Restarts \cup Branches) = {}
  /\ Stops \cap (Restarts \cup Branches) = {}
  /\ Restarts \cap Branches = {}
  /\ Changes \cap Switches = {}
  /\ {AutoRestart, MayFail, MayCancel, SlowGuard, MayShutDown} \subseteq BOOLEAN
  /\ Outcomes \subseteq {"none", "error", "unconfirmed"}
  /\ Boot \in Profiles \cup {NoProfile}
  /\ Boot \in Profiles => MaxPID > 0

VARIABLES
  svc,            \* the service record of CoreState
  queue,          \* restartWorker, restartPending, restartTarget*, restartExecutingID
  opLock,         \* holder of restartOperationMu
  pc,             \* where each operating thread is
  job,            \* its local state: the core it handles, the profile it loaded
  guard,          \* each core process, as platform.Service reports it
  fault,          \* the error its exit was reported with (g.err)
  guardsClosing,  \* platform.Service refuses new guards
  note,           \* where each notifier is, and the profile it read
  rev,            \* revision of each profile's stored configuration
  selected,       \* app config Profile
  shut,           \* progress of the shutdown
  awaited         \* the cores CloseCoreProcesses waits for

vars == <<svc, queue, opLock, pc, job, guard, fault, guardsClosing, note, rev,
          selected, shut, awaited>>

Stages == {"idle", "claim", "queue", "prepare", "halt", "kill", "swap", "write",
           "exec", "abort", "adopt", "probe", "complete", "abandon", "finish",
           "check", "look", "take", "clear", "clearFailed", "blame", "done"}
GuardStates == {"free", "launching", "refused", "live", "done", "called", "gone"}
ShutStages  == {"open", "closing", "cancelled", "begun", "again", "waiting",
                "waited", "unclean", "closed", "closedUnclean"}

Queue == [ worker : BOOLEAN, pending : BOOLEAN, target : Profiles \cup {NoProfile},
           force : BOOLEAN, executing : Profiles \cup {NoProfile} ]
Job   == [ pid : PIDs \cup {NoPID}, snap : Snapshot ]
Note  == [ at : {"idle", "read", "request", "enqueue", "done"},
           id : Profiles \cup {NoProfile} ]

(* The variables keep their type: what the service reports is always a status *)
(* of its own and a pid of a core that was started.                           *)
TypeOK ==
  /\ svc \in CoreRecord
  /\ queue \in Queue
  /\ opLock \in Ops \cup {NoOp}
  /\ pc \in [Ops -> Stages]
  /\ job \in [Ops -> Job]
  /\ guard \in [PIDs -> GuardStates]
  /\ fault \in [PIDs -> {"none", "error", "unconfirmed"}]
  /\ guardsClosing \in BOOLEAN
  /\ note \in [Notifiers -> Note]
  /\ rev \in [Profiles -> Nat]
  /\ selected \in Profiles \cup {NoProfile}
  /\ shut \in ShutStages
  /\ awaited \subseteq PIDs

(* lifecycleCtx.Err() # nil *)
LifecycleCancelled == shut \notin {"open", "closing"}

-----------------------------------------------------------------------------
Init ==
  /\ svc = IF Boot = NoProfile THEN NewService
           ELSE RunningService(1, [id |-> Boot, rev |-> 0])
  /\ queue = [worker |-> FALSE, pending |-> FALSE, target |-> NoProfile,
              force |-> FALSE, executing |-> NoProfile]
  /\ opLock = NoOp
  /\ pc = [t \in Ops |-> "idle"]
  /\ job = [t \in Ops |-> [pid |-> NoPID, snap |-> NoSnap]]
  /\ guard = [p \in PIDs |-> IF p = 1 /\ Boot # NoProfile THEN "live" ELSE "free"]
  /\ fault = [p \in PIDs |-> "none"]
  /\ guardsClosing = FALSE
  /\ note = [n \in Notifiers |-> [at |-> "idle", id |-> NoProfile]]
  /\ rev = [id \in Profiles |-> 0]
  /\ selected = Boot
  /\ shut = "open"
  /\ awaited = {}

-----------------------------------------------------------------------------
(* Moving a thread on, and returning from its operation.  A return releases   *)
(* restartOperationMu if the thread holds it (a deferred Unlock) and leaves   *)
(* the operations WaitGroup.                                                  *)
Goto(t, stage) == pc' = [pc EXCEPT ![t] = stage]

(* Mutant: the lock is not released. *)
ReturnLocked(t, ok) ==
  /\ Goto(t, IF t \in Restarts THEN "finish"
             ELSE IF t = Worker THEN IF ok THEN "clear" ELSE "clearFailed"
             ELSE "done")
  /\ UNCHANGED opLock

Return(t, ok) ==
  /\ Goto(t, IF t \in Restarts THEN "finish"
             ELSE IF t = Worker THEN IF ok THEN "clear" ELSE "clearFailed"
             ELSE "done")
  /\ opLock' = IF opLock = t THEN NoOp ELSE opLock

(* The operations WaitGroup: StopCore does not join it, and a restart joins   *)
(* it only once it holds restartOperationMu.                                  *)
InOperation(t) ==
  /\ t \notin Stops
  /\ \/ pc[t] \in {"claim", "prepare", "halt", "kill", "swap", "write", "exec",
                   "abort", "adopt", "probe", "complete", "abandon"}
     \/ pc[t] = "queue" /\ t \in Branches

(* The context of the operation has ended, with its client or the application. *)
Cancelled(t) == LifecycleCancelled \/ (MayCancel /\ t \in Calls)

Load(t, id) == job' = [job EXCEPT ![t].snap = [id |-> id, rev |-> rev[id]]]
MyPID(t)  == job[t].pid
MySnap(t) == job[t].snap

stopping == <<guardsClosing, shut, awaited>>
stored   == <<note, rev, selected>>
others   == <<queue, stopping, stored>>

-----------------------------------------------------------------------------
(* Mutants: faulty variants of the definitions below, for which the           *)
(* properties of this module are expected to fail.                            *)

(* KillProcess does not find a core that is no longer tracked. *)
KillUntracked(p) == guard[p] \in {"done", "called"} /\ fault[p] = "none"

(* CloseCoreProcesses overlooks guards whose core has not been started yet. *)
ShutStartedGuards ==
  /\ shut = "again" /\ shut' = "waiting"
  /\ guardsClosing' = TRUE
  /\ awaited' = {p \in PIDs : guard[p] \in {"live", "done", "called"}}
  /\ UNCHANGED <<svc, queue, opLock, pc, job, guard, fault, stored>>

(* The worker goroutine ends without clearing restartWorker. *)
WorkerLookKeepsFlag ==
  /\ pc[Worker] = "look"
  /\ Goto(Worker, IF queue.pending THEN "take" ELSE "idle")
  /\ svc' = IF queue.pending THEN svc ELSE RestartOver(svc)
  /\ UNCHANGED <<queue, opLock, job, guard, fault, stopping, stored>>

(* A change that arrives while the worker runs is taken to be covered by it. *)
EnqueuedOnce(q, id, force) ==
  [q EXCEPT !.pending = @ \/ ~q.worker, !.worker = TRUE, !.target = id, !.force = force]

-----------------------------------------------------------------------------
(* Arrival of the RPCs. *)

(* StartCore, StartCoreWithProfile, AutoStart: load the profile, check        *)
(* closing and join operations.                                               *)
StartCore(t) ==
  /\ t \in Starts /\ pc[t] = "idle"
  /\ \E id \in Profiles : Load(t, id)
  /\ Goto(t, IF svc.closing THEN "done" ELSE "claim")
  /\ UNCHANGED <<svc, opLock, guard, fault, others>>

StopCore(t) ==
  /\ t \in Stops /\ pc[t] = "idle"
  /\ Goto(t, "halt")
  /\ UNCHANGED <<svc, opLock, job, guard, fault, others>>

(* RestartCore marks the service as restarting before it queues for           *)
(* restartOperationMu.                                                        *)
RestartCore(t) ==
  /\ t \in Restarts /\ pc[t] = "idle"
  /\ IF LifecycleCancelled
     THEN Goto(t, "done") /\ UNCHANGED <<svc, job>>
     ELSE /\ svc' = [svc EXCEPT !.restarting = TRUE]
          /\ \E id \in Profiles : job' = [job EXCEPT ![t].snap.id = id]
          /\ Goto(t, "queue")
  /\ UNCHANGED <<opLock, guard, fault, others>>

(* runWithCoreRestartIfCurrent reads the status before it queues; unless the  *)
(* core of this branch was running then, the files are changed without lock   *)
(* or restart.                                                                *)
BranchOperation(t) ==
  /\ t \in Branches /\ pc[t] = "idle"
  /\ job' = [job EXCEPT ![t].snap.id = svc.active]
  /\ \E isCurrentBranch \in BOOLEAN :
       Goto(t, IF svc.closing THEN "done"
               ELSE IF svc.status = "RUNNING" /\ isCurrentBranch THEN "queue"
               ELSE "swap")
  /\ UNCHANGED <<svc, opLock, guard, fault, others>>

-----------------------------------------------------------------------------
(* Under restartOperationMu. *)

AcquireAndLoad(t) ==
  /\ pc[t] = "queue" /\ opLock = NoOp
  /\ svc.closing => t \in Branches
  /\ MySnap(t).id \in Profiles
  /\ opLock' = t
  /\ Load(t, MySnap(t).id)
  /\ Goto(t, "prepare")
  /\ UNCHANGED <<svc, guard, fault, others>>

(* The profile cannot be loaded, or the application is shutting down. *)
AcquireAndGiveUp(t) ==
  /\ pc[t] = "queue" /\ opLock = NoOp
  /\ MayFail \/ MySnap(t).id \notin Profiles \/ (svc.closing /\ t \notin Branches)
  /\ Return(t, FALSE)
  /\ UNCHANGED <<svc, job, guard, fault, others>>

(* prepareCoreStart: version check, generation and a check of the generated   *)
(* file.  A start has already claimed the service, a restart has not.         *)
Prepare(t) ==
  /\ pc[t] = "prepare"
  /\ Goto(t, IF t \in Starts THEN "write" ELSE "halt")
  /\ UNCHANGED <<svc, opLock, job, guard, fault, others>>

PrepareFails(t) ==
  /\ pc[t] = "prepare" /\ (MayFail \/ Cancelled(t))
  /\ Return(t, FALSE)
  /\ svc' = IF t \in Starts THEN Stopped(svc) ELSE svc
  /\ UNCHANGED <<job, guard, fault, others>>

AfterHalt(t) ==
  IF t \in Stops THEN "done" ELSE IF t \in Branches THEN "swap" ELSE "claim"

(* StopCore up to KillProcess. *)
Halt(t) ==
  /\ pc[t] = "halt"
  /\ \/ /\ NothingToStop(svc)
        /\ Goto(t, AfterHalt(t))
        /\ UNCHANGED <<svc, opLock, job>>
     \/ /\ CanStop(svc)
        /\ svc' = Stopping(svc)
        /\ job' = [job EXCEPT ![t].pid = svc.pid]
        /\ Goto(t, "kill")
        /\ UNCHANGED opLock
     \/ /\ ~NothingToStop(svc) /\ ~CanStop(svc)
        /\ Return(t, FALSE)
        /\ UNCHANGED <<svc, job>>
  /\ UNCHANGED <<guard, fault, others>>

(* KillProcess asks the guard to stop and waits for g.done, which is closed   *)
(* before OnExit runs; its result is the error the exit was reported with.    *)
(* A core no longer tracked is looked up by pid and found dead.               *)
KillConfirmed(p) ==
  \/ guard[p] = "gone"
  \/ guard[p] \in {"done", "called"} /\ fault[p] = "none"
KillDenied(p) ==
  \/ guard[p] \in {"done", "called"} /\ fault[p] # "none"
  \/ guard[p] = "gone" /\ fault[p] = "unconfirmed"
  \/ guard[p] = "live" /\ SlowGuard

Kill(t) ==
  /\ pc[t] = "kill" /\ KillConfirmed(MyPID(t))
  /\ svc' = Stopped(svc)
  /\ Goto(t, AfterHalt(t))
  /\ UNCHANGED <<opLock, job, guard, fault, others>>

KillFails(t) ==
  /\ pc[t] = "kill" /\ KillDenied(MyPID(t))
  /\ svc' = StopFailed(svc)
  /\ Return(t, FALSE)
  /\ UNCHANGED <<job, guard, fault, others>>

(* The file operation of RollbackCore or ClearCoreCache. *)
Swap(t) ==
  /\ pc[t] = "swap"
  /\ \/ opLock = t /\ Goto(t, "claim") /\ UNCHANGED opLock
     \/ (MayFail \/ opLock # t) /\ Return(t, FALSE)
  /\ UNCHANGED <<svc, job, guard, fault, others>>

(* setStarting. *)
Claim(t) ==
  /\ pc[t] = "claim"
  /\ IF CanStart(svc)
     THEN /\ svc' = Starting(svc, MySnap(t).id)
          /\ Goto(t, IF t \in Starts THEN "prepare" ELSE "write")
          /\ UNCHANGED opLock
     ELSE Return(t, FALSE) /\ UNCHANGED svc
  /\ UNCHANGED <<job, guard, fault, others>>

-----------------------------------------------------------------------------
(* launchPreparedCore. *)

(* WriteGeneratedConfig and execCoreGuard up to cmd.Start of the guard. *)
Launch(t) ==
  /\ pc[t] = "write" /\ ~guardsClosing
  /\ \E p \in PIDs :
       /\ guard[p] = "free" /\ \A q \in PIDs : q < p => guard[q] # "free"
       /\ guard' = [guard EXCEPT ![p] = "launching"]
       /\ job' = [job EXCEPT ![t].pid = p]
  /\ Goto(t, "exec")
  /\ UNCHANGED <<svc, opLock, fault, others>>

LaunchFails(t) ==
  /\ pc[t] = "write" /\ (MayFail \/ Cancelled(t) \/ guardsClosing)
  /\ svc' = Stopped(svc)
  /\ Return(t, FALSE)
  /\ UNCHANGED <<job, guard, fault, others>>

ExecStarted(t) ==
  /\ pc[t] = "exec" /\ guard[MyPID(t)] \notin {"launching", "refused"}
  /\ Goto(t, "adopt")
  /\ UNCHANGED <<svc, opLock, job, guard, fault, others>>

ExecRefused(t) ==
  /\ pc[t] = "exec" /\ guard[MyPID(t)] = "refused"
  /\ svc' = Stopped(svc)
  /\ Return(t, FALSE)
  /\ UNCHANGED <<job, guard, fault, others>>

(* The guard's control pipe is closed, and the thread waits for its end, but  *)
(* only so long.                                                              *)
ExecCancelled(t) ==
  /\ pc[t] = "exec" /\ Cancelled(t)
  /\ Goto(t, "abort")
  /\ UNCHANGED <<svc, opLock, job, guard, fault, others>>

AbortEnds(t) ==
  /\ pc[t] = "abort"
  /\ SlowGuard \/ guard[MyPID(t)] \in {"refused", "done", "called", "gone"}
  /\ svc' = Stopped(svc)
  /\ Return(t, FALSE)
  /\ UNCHANGED <<job, guard, fault, others>>

Adopt(t) ==
  /\ pc[t] = "adopt"
  /\ svc' = Adopted(svc, MyPID(t))
  /\ Goto(t, "probe")
  /\ UNCHANGED <<opLock, job, guard, fault, others>>

(* waitKernelAPIReady: only a live core answers its own secret. *)
Probe(t) ==
  /\ pc[t] = "probe" /\ guard[MyPID(t)] = "live"
  /\ Goto(t, "complete")
  /\ UNCHANGED <<svc, opLock, job, guard, fault, others>>

ProbeFails(t) ==
  /\ pc[t] = "probe" /\ (MayFail \/ Cancelled(t) \/ guard[MyPID(t)] # "live")
  /\ svc' = Abandoning(svc)
  /\ Goto(t, "abandon")
  /\ UNCHANGED <<opLock, job, guard, fault, others>>

Abandon(t) ==
  /\ pc[t] = "abandon"
  /\ \/ KillConfirmed(MyPID(t)) /\ svc' = Stopped(svc)
     \/ KillDenied(MyPID(t)) /\ svc' = svc
  /\ Return(t, FALSE)
  /\ UNCHANGED <<job, guard, fault, others>>

CompleteStart(t) ==
  /\ pc[t] = "complete"
  /\ IF CanComplete(svc, MyPID(t))
     THEN svc' = Completed(svc, MyPID(t), MySnap(t)) /\ Return(t, TRUE)
     ELSE Return(t, FALSE) /\ UNCHANGED svc
  /\ UNCHANGED <<job, guard, fault, others>>

(* finishManualRestart, deferred by RestartCore. *)
FinishManualRestart(t) ==
  /\ pc[t] = "finish"
  /\ svc' = IF queue.worker THEN svc ELSE RestartOver(svc)
  /\ Goto(t, "done")
  /\ UNCHANGED <<opLock, job, guard, fault, others>>

-----------------------------------------------------------------------------
(* runAutomaticRestartQueue. *)

WorkerCheck ==
  /\ pc[Worker] = "check"
  /\ IF LifecycleCancelled
     THEN /\ queue' = [queue EXCEPT !.worker = FALSE, !.pending = FALSE]
          /\ Goto(Worker, "idle")
     ELSE Goto(Worker, "look") /\ UNCHANGED queue
  /\ UNCHANGED <<svc, opLock, job, guard, fault, stopping, stored>>

WorkerLook ==
  /\ pc[Worker] = "look"
  /\ IF queue.pending
     THEN Goto(Worker, "take") /\ UNCHANGED <<queue, svc>>
     ELSE /\ queue' = [queue EXCEPT !.worker = FALSE]
          /\ svc' = RestartOver(svc)
          /\ Goto(Worker, "idle")
  /\ UNCHANGED <<opLock, job, guard, fault, stopping, stored>>

(* The debounce ends early. *)
WorkerWaits ==
  /\ pc[Worker] = "take" /\ LifecycleCancelled
  /\ Goto(Worker, "check")
  /\ UNCHANGED <<svc, opLock, job, guard, fault, others>>

(* After the debounce. *)
WorkerTake ==
  /\ pc[Worker] = "take"
  /\ queue' = [queue EXCEPT !.pending = FALSE, !.target = NoProfile, !.force = FALSE,
                            !.executing = queue.target]
  /\ job' = [job EXCEPT ![Worker].snap.id = queue.target]
  /\ Goto(Worker, "queue")
  /\ UNCHANGED <<svc, opLock, guard, fault, stopping, stored>>

WorkerClear ==
  /\ pc[Worker] \in {"clear", "clearFailed"}
  /\ queue' = [queue EXCEPT !.executing = NoProfile]
  /\ Goto(Worker, IF pc[Worker] = "clearFailed" /\ ~LifecycleCancelled
                  THEN "blame" ELSE "check")
  /\ UNCHANGED <<svc, opLock, job, guard, fault, stopping, stored>>

(* kernelAutoRestartFailed. *)
WorkerBlame ==
  /\ pc[Worker] = "blame"
  /\ svc' = RequiredOnlyIfRunning(svc)
  /\ Goto(Worker, "check")
  /\ UNCHANGED <<opLock, job, guard, fault, others>>

-----------------------------------------------------------------------------
(* Notifiers. *)

Notify(n, stage, id) == note' = [note EXCEPT ![n] = [at |-> stage, id |-> id]]

(* A changed profile has been saved. *)
Persist(n) ==
  /\ n \in Changes /\ note[n].at = "idle"
  /\ \E id \in Profiles :
       /\ rev' = [rev EXCEPT ![id] = @ + 1]
       /\ Notify(n, "read", id)
  /\ UNCHANGED <<svc, queue, opLock, pc, job, guard, fault, stopping, selected>>

(* AppConfig is saved, then AppConfigChanged runs, both under saveMu. *)
Select(n) ==
  /\ n \in Switches /\ note[n].at = "idle"
  /\ \A m \in Switches : note[m].at \in {"idle", "done"}
  /\ \E id \in Profiles \ {selected} :
       /\ selected' = id
       /\ Notify(n, "request", id)
  /\ UNCHANGED <<svc, queue, opLock, pc, job, guard, fault, stopping, rev>>

(* ProfilesChanged: is it the active profile? *)
ReadActive(n) ==
  /\ note[n].at = "read"
  /\ Notify(n, IF (svc.status = "RUNNING" \/ svc.restarting) /\ svc.active = note[n].id
               THEN "request" ELSE "done", note[n].id)
  /\ UNCHANGED <<svc, queue, opLock, pc, job, guard, fault, stopping, rev, selected>>

(* requestConfigRestart. *)
RequestRestart(n) ==
  LET automatic == n \in Switches \/ AutoRestart
      counts    == ChangeCounts(svc) /\ ~LifecycleCancelled
  IN /\ note[n].at = "request"
     /\ svc' = IF counts THEN ChangeNoted(svc, automatic) ELSE svc
     /\ Notify(n, IF counts /\ automatic THEN "enqueue" ELSE "done", note[n].id)
     /\ UNCHANGED <<queue, opLock, pc, job, guard, fault, stopping, rev, selected>>

(* enqueueAutomaticRestart(id, force): a change that arrives during an        *)
(* automatic restart restarts the profile being started; a selection that     *)
(* waits is displaced only by another selection.                              *)
Enqueued(q, id, force) ==
  LET target == IF ~force /\ q.executing # NoProfile THEN q.executing ELSE id
      taken  == force \/ ~q.force
  IN [q EXCEPT !.pending = TRUE, !.worker = TRUE,
               !.target = IF taken THEN target ELSE @,
               !.force  = IF taken THEN force ELSE @]

Enqueue(n) ==
  /\ note[n].at = "enqueue"
  /\ queue' = Enqueued(queue, note[n].id, n \in Switches)
  /\ svc' = [svc EXCEPT !.restarting = TRUE]
  /\ IF queue.worker THEN UNCHANGED pc ELSE Goto(Worker, "check")
  /\ Notify(n, "done", note[n].id)
  /\ UNCHANGED <<opLock, job, guard, fault, stopping, rev, selected>>

-----------------------------------------------------------------------------
(* The guard of core p, as its reader goroutine reports it.                  *)

(* process.json names a core that is not known to be gone. *)
RecordRemains(p) == guard[p] = "live" \/ fault[p] = "unconfirmed"

GuardStarted(p) ==
  /\ guard[p] = "launching"
  /\ \A q \in PIDs : ~RecordRemains(q)
  /\ guard' = [guard EXCEPT ![p] = "live"]
  /\ svc' = StartReported(svc, p)
  /\ UNCHANGED <<opLock, pc, job, fault, others>>

(* The lock is held, a record remains, the check fails, the pipe is closed. *)
GuardRefused(p) ==
  /\ guard[p] = "launching"
  /\ \/ MayFail \/ guardsClosing
     \/ \E t \in Ops : pc[t] = "abort" /\ MyPID(t) = p
     \/ \E q \in PIDs : RecordRemains(q)
  /\ guard' = [guard EXCEPT ![p] = "refused"]
  /\ UNCHANGED <<svc, opLock, pc, job, fault, others>>

(* The core exits, by itself or because it was asked to; the record is        *)
(* removed and g.done closed.                                                 *)
CoreExits(p) ==
  /\ guard[p] = "live"
  /\ guard' = [guard EXCEPT ![p] = "done"]
  /\ \E f \in Outcomes : fault' = [fault EXCEPT ![p] = f]
  /\ UNCHANGED <<svc, opLock, pc, job, others>>

(* OnExit = handleCoreProcessExit. *)
HandleExit(p) ==
  /\ guard[p] = "done"
  /\ guard' = [guard EXCEPT ![p] = "called"]
  /\ svc' = IF ExitApplies(svc, p) THEN AfterExit(svc, fault[p] = "unconfirmed") ELSE svc
  /\ UNCHANGED <<opLock, pc, job, fault, others>>

Untrack(p) ==
  /\ guard[p] = "called"
  /\ guard' = [guard EXCEPT ![p] = "gone"]
  /\ UNCHANGED <<svc, opLock, pc, job, fault, others>>

-----------------------------------------------------------------------------
(* BeginShutdown and Close. *)

Advance(from, to) == shut = from /\ shut' = to

operating == <<opLock, pc, job, guard, fault, stored>>

ShutBegin ==
  /\ MayShutDown
  /\ Advance("open", "closing")
  /\ svc' = Closing(svc)
  /\ UNCHANGED <<queue, operating, guardsClosing, awaited>>

ShutCancel ==
  /\ Advance("closing", "cancelled")
  /\ UNCHANGED <<svc, queue, operating, guardsClosing, awaited>>

ShutDrain ==
  /\ Advance("cancelled", "begun")
  /\ queue' = [queue EXCEPT !.pending = FALSE]
  /\ UNCHANGED <<svc, operating, guardsClosing, awaited>>

(* Close runs BeginShutdown once more. *)
ShutAgain ==
  /\ Advance("begun", "again")
  /\ svc' = Closing(svc)
  /\ queue' = [queue EXCEPT !.pending = FALSE]
  /\ UNCHANGED <<operating, guardsClosing, awaited>>

(* CloseCoreProcesses refuses new guards, asks those there are to stop, waits *)
(* until each is finished and returns what their exits reported.              *)
ShutGuards ==
  /\ Advance("again", "waiting")
  /\ guardsClosing' = TRUE
  /\ awaited' = {p \in PIDs : guard[p] \in {"launching", "live", "done", "called"}}
  /\ UNCHANGED <<svc, queue, operating>>

Finished(p) == guard[p] \in {"free", "refused", "gone"}

ShutWait ==
  /\ \/ /\ \A p \in awaited : guard[p] = "refused" \/ (guard[p] = "gone" /\ fault[p] = "none")
        /\ Advance("waiting", "waited")
     \/ /\ \A p \in awaited : Finished(p)
        /\ \E p \in awaited : guard[p] = "refused" \/ fault[p] # "none"
        /\ Advance("waiting", "unclean")
     \/ SlowGuard /\ Advance("waiting", "unclean")
  /\ UNCHANGED <<svc, queue, operating, guardsClosing, awaited>>

(* Close waits for the operations; it reports STOPPED only if all went well.  *)
OperationsOver == \A t \in Ops : ~InOperation(t)

ShutFinish ==
  /\ \/ OperationsOver /\ Advance("waited", "closed") /\ svc' = Stopped(svc)
     \/ OperationsOver /\ Advance("unclean", "closedUnclean") /\ UNCHANGED svc
     \/ /\ SlowGuard /\ shut \in {"waited", "unclean"} /\ shut' = "closedUnclean"
        /\ UNCHANGED svc
  /\ UNCHANGED <<queue, operating, guardsClosing, awaited>>

-----------------------------------------------------------------------------
(* A call that has returned, and everything else that is finished, stays so.  *)
AtRest ==
  /\ \A t \in Calls : pc[t] = "done"
  /\ pc[Worker] = "idle"
  /\ \A n \in Notifiers : note[n].at = "done"
  /\ \A p \in PIDs : guard[p] \notin {"launching", "done", "called"}
  /\ shut \in {"open", "closed", "closedUnclean"}

Rest == AtRest /\ UNCHANGED vars

(* What thread t does once its request has arrived. *)
Step(t) ==
  \/ AcquireAndLoad(t) \/ AcquireAndGiveUp(t)
  \/ Prepare(t) \/ PrepareFails(t)
  \/ Halt(t) \/ Kill(t) \/ KillFails(t) \/ Swap(t) \/ Claim(t)
  \/ Launch(t) \/ LaunchFails(t)
  \/ ExecStarted(t) \/ ExecRefused(t) \/ AbortEnds(t)
  \/ Adopt(t) \/ Probe(t) \/ ProbeFails(t) \/ Abandon(t) \/ CompleteStart(t)
  \/ FinishManualRestart(t)

WorkerStep ==
  WorkerCheck \/ WorkerLook \/ WorkerWaits \/ WorkerTake \/ WorkerClear \/ WorkerBlame

NotifierStep(n) == ReadActive(n) \/ RequestRestart(n) \/ Enqueue(n)

GuardStep(p) == GuardStarted(p) \/ GuardRefused(p) \/ HandleExit(p) \/ Untrack(p)

ShutStep ==
  ShutCancel \/ ShutDrain \/ ShutAgain \/ ShutGuards \/ ShutWait \/ ShutFinish

Next ==
  \/ \E t \in Calls : StartCore(t) \/ StopCore(t) \/ RestartCore(t) \/ BranchOperation(t)
  \/ \E t \in Ops : Step(t) \/ ExecCancelled(t)
  \/ WorkerStep
  \/ \E n \in Notifiers : Persist(n) \/ Select(n) \/ NotifierStep(n)
  \/ \E p \in PIDs : GuardStep(p) \/ CoreExits(p)
  \/ ShutBegin \/ ShutStep
  \/ Rest

Spec == Init /\ [][Next]_vars

(* A goroutine that can run does run; a guard asked to stop its core, or cut  *)
(* off from its control pipe, ends it.  Nothing forces a request to arrive, a *)
(* client to drop it, a core to exit by itself or the application to end.     *)
AskedToStop(p) ==
  \/ guardsClosing
  \/ \E t \in Ops : pc[t] \in {"kill", "abandon", "abort"} /\ MyPID(t) = p

Fairness ==
  /\ \A t \in Ops : WF_vars(Step(t) \/ (LifecycleCancelled /\ ExecCancelled(t)))
  /\ WF_vars(WorkerStep)
  /\ \A n \in Notifiers : WF_vars(NotifierStep(n))
  /\ \A p \in PIDs : WF_vars(GuardStep(p)) /\ WF_vars(AskedToStop(p) /\ CoreExits(p))
  /\ WF_vars(ShutStep)

FairSpec == Spec /\ Fairness

-----------------------------------------------------------------------------
(* Nothing is under way; requests and changes may still arrive.               *)
Settled ==
  /\ \A t \in Ops : pc[t] \in {"idle", "done"}
  /\ \A n \in Notifiers : note[n].at \in {"idle", "done"}
  /\ \A p \in PIDs : guard[p] \notin {"launching", "done", "called"}
  /\ shut = "open"

Live(p) == guard[p] = "live"

(* BeginShutdown revokes the native API for good: whatever starts, stops and  *)
(* exits come in afterwards, no credential is handed out and no core is shown *)
(* as running.                                                                *)
ClosingRevokes == svc.closing => svc.api = NoPID /\ svc.status # "RUNNING"

(* A restart that waits has a worker goroutine to run it and a profile to run *)
(* it with; the flag restartWorker and the goroutine agree, so there is never *)
(* a second one; and as long as it works the service shows that it restarts,  *)
(* also when a restart by hand ends in the meantime.                          *)
PendingIsServed ==
  /\ queue.worker <=> pc[Worker] # "idle"
  /\ queue.pending => queue.worker /\ queue.target # NoProfile
  /\ queue.worker => svc.restarting

(* While a core is shown as running, the native API credential is its own,    *)
(* and its guard has not yet told the service that it is gone.                *)
RunningIsCurrent ==
  svc.status = "RUNNING" =>
    svc.pid # NoPID /\ svc.api = svc.pid /\ guard[svc.pid] \in {"live", "done"}

(* Once nothing is under way, a core that lives is the one the service shows, *)
(* and can stop: it is never left running behind a status of STOPPED.         *)
NoCoreBehind ==
  Settled => \A p \in PIDs : Live(p) => svc.status = "RUNNING" /\ svc.pid = p

(* Once nothing is under way and no core lives, a core can be started.        *)
CanStartAgain == Settled /\ (\A p \in PIDs : ~Live(p)) => CanStart(svc)

(* What the service shows is true and leaves the user able to act: a core that *)
(* is shown as running is the one whose credential is served, no core lives    *)
(* unseen once all calls have ended, and without a core one can be started.    *)
StatusIsTrue == RunningIsCurrent /\ NoCoreBehind /\ CanStartAgain

(* Once nothing is under way, a running core either has its profile as it is  *)
(* stored, or is shown as needing a restart.                                  *)
FreshAtRest ==
  Settled /\ svc.status = "RUNNING" => svc.required \/ svc.cur.rev = rev[svc.cur.id]

(* Selecting a profile restarts a running core with it: once nothing is under *)
(* way, the core runs the selected profile unless it needs a restart.         *)
SwitchSticks ==
  Settled /\ svc.status = "RUNNING" => svc.required \/ svc.cur.id = selected

Untouched(N) == \A n \in N : note[n].at = "idle"

(* Without a selection of another profile, whatever changes arrive during     *)
(* whatever restart, a running core is fresh or shown as needing a restart.   *)
ChangesAloneAreFresh == Untouched(Switches) => FreshAtRest

(* Without changes, the last of several selections wins: requestConfigRestart *)
(* lets a selection displace the target of the restart that waits.            *)
SwitchesAloneStick == Untouched(Changes) => SwitchSticks

(* Restarts that are caused by changes, or by selections, leave the core with  *)
(* the newest content and the last selection; only a mixture of the two fails. *)
ReloadsAreCurrent == ChangesAloneAreFresh /\ SwitchesAloneStick

(* When the application has closed, no guard, core or operation is left, and  *)
(* nothing shows a core as running.                                           *)
ClosedIsFinal ==
  shut = "closed" =>
    /\ \A p \in PIDs : Finished(p)
    /\ OperationsOver
    /\ svc.status \in {"STOPPED", "CRASHED"} /\ svc.api = NoPID

(* Every request gets its answer, with a shutdown or without.                 *)
RequestsReturn == \A t \in Calls : pc[t] # "idle" ~> pc[t] = "done"

(* A restart that is announced is carried out or given up.                    *)
RestartEnds == svc.restarting ~> (~svc.restarting \/ svc.closing)

(* Close returns.                                                             *)
ShutdownEnds == shut # "open" ~> shut \in {"closed", "closedUnclean"}

(* Nobody waits for ever: neither a client for its answer nor the application  *)
(* for its end, although each holds mutexes and counts that the other needs.   *)
CallsReturn == RequestsReturn /\ ShutdownEnds
=============================================================================
