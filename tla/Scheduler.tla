----------------------------- MODULE Scheduler -----------------------------
(***************************************************************************)
(* The scheduled tasks of bridge/runtime: the file of tasks, the loops that *)
(* start due tasks once a second, the runs they and the users start, and    *)
(* the handlers that edit the tasks and restart the scheduler afterwards.    *)
(*                                                                         *)
(* Two mutexes: scheduledTasksMu for the file and mu for the flags, the logs *)
(* and the current loop; a step is one critical section.  Left out: what a  *)
(* run updates, events, the order of the tasks, edits of the log limit, and  *)
(* reads of the file that fail.  An edit that is refused changes nothing.    *)
(***************************************************************************)
EXTENDS Naturals, Sequences, FiniteSets, Functions

CONSTANTS
  Tasks,             \* the ids of tasks
  MaxActs,           \* how many edits are accepted and runs started, in all
  MaxSeconds,        \* how long the scheduler is watched
  SecondsPerMinute,
  LogLimit           \* how many logs of a task are kept

ASSUME SchedulerAssumption ==
  /\ IsFiniteSet(Tasks)
  /\ MaxActs \in Nat /\ MaxSeconds \in Nat
  /\ SecondsPerMinute \in Nat \ {0} /\ LogLimit \in Nat \ {0}

VARIABLES
  tasks,      \* the file: a task's settings, and when it last ran
  edits,      \* the edits that were accepted, with what their handlers have yet to do
  loops,      \* the scheduler loops, in the order they were started
  taskCancel, \* the loop that the next start or stop cancels; 0 for none
  stopped,    \* the application has stopped the scheduler, as it closes
  runs,       \* the runs, in the order they were started
  runningTask,
  taskLogs,   \* how many logs each task has
  clock,      \* the seconds that passed
  outrun      \* tasks deleted while a run was under way, or skipped once they were gone

schedulerVars ==
  <<tasks, edits, loops, taskCancel, stopped, runs, runningTask, taskLogs, clock, outrun>>

-----------------------------------------------------------------------------
Never == MaxSeconds + 1   \* no key, no tick, no last time
Gone == [enabled |-> FALSE, lastTime |-> Never]
Stored(t) == tasks[t] # Gone

ActsLeft == Len(edits) + Len(runs) < MaxActs

(* cronRunKey for a cron whose seconds are "*": it matches every second, and   *)
(* its key is the minute.                                                     *)
RunKey(second) == second \div SecondsPerMinute

-----------------------------------------------------------------------------
(* The loops *)

Cancelled == [n \in DOMAIN loops |->
                IF n = taskCancel THEN [loops[n] EXCEPT !.cancelled = TRUE] ELSE loops[n]]

NewLoop == [cancelled |-> FALSE, ended |-> FALSE, tick |-> Never,
            lastRun |-> [t \in Tasks |-> Never]]

StartScheduler ==
  /\ loops' = Append(Cancelled, NewLoop)
  /\ taskCancel' = Len(loops')

(* Application.close: the handlers that are under way go on. *)
StopScheduler ==
  /\ ~stopped /\ stopped' = TRUE
  /\ loops' = Cancelled
  /\ taskCancel' = 0
  /\ UNCHANGED <<tasks, edits, runs, runningTask, taskLogs, clock, outrun>>

(* A second passes.  A ticker keeps one tick for a loop that is late.          *)
Second ==
  /\ clock < MaxSeconds
  /\ clock' = clock + 1
  /\ loops' = [n \in DOMAIN loops |->
                 IF loops[n].ended \/ loops[n].tick # Never THEN loops[n]
                 ELSE [loops[n] EXCEPT !.tick = clock']]
  /\ UNCHANGED <<tasks, edits, taskCancel, stopped, runs, runningTask, taskLogs, outrun>>

Due(loop) ==
  {t \in Tasks : /\ Stored(t) /\ tasks[t].enabled
                 /\ loop.lastRun[t] # RunKey(loop.tick)}

NewRun(t, n, key) ==
  [task |-> t, loop |-> n, key |-> key, enabled |-> FALSE, phase |-> "started"]

(* One run for each task that is due, in any order: each is a goroutine. *)
NewRuns(due, n, key) ==
  {[k \in DOMAIN order |-> NewRun(order[k], n, key)] :
     order \in Bijection(1 .. Cardinality(due), due)}

(* Mutant: the loop does not note what it started. *)
OnTickForgets(n, due) ==
  /\ Len(edits) + Len(runs) + Cardinality(due) <= MaxActs
  /\ \E new \in NewRuns(due, n, RunKey(loops[n].tick)) : runs' = runs \o new
  /\ loops' = [loops EXCEPT ![n].tick = Never]
  /\ UNCHANGED <<tasks, edits, taskCancel, stopped, runningTask, taskLogs, clock, outrun>>

OnTick(n, due) ==
  LET key == RunKey(loops[n].tick) IN
  /\ Len(edits) + Len(runs) + Cardinality(due) <= MaxActs
  /\ \E new \in NewRuns(due, n, key) : runs' = runs \o new
  /\ loops' = [loops EXCEPT ![n].tick = Never,
                            ![n].lastRun = [t \in Tasks |-> IF t \in due THEN key ELSE @[t]]]
  /\ UNCHANGED <<tasks, edits, taskCancel, stopped, runningTask, taskLogs, clock, outrun>>

(* A select with a tick and a closed channel may choose either: a cancelled    *)
(* loop can take the tick that waits for it.                                  *)
Tick(n) == n \in DOMAIN loops /\ loops[n].tick # Never /\ OnTick(n, Due(loops[n]))

Ended == [NewLoop EXCEPT !.cancelled = TRUE, !.ended = TRUE]

LoopEnds(n) ==
  /\ n \in DOMAIN loops /\ loops[n].cancelled /\ ~loops[n].ended
  /\ loops' = [loops EXCEPT ![n] = Ended]
  /\ UNCHANGED <<tasks, edits, taskCancel, stopped, runs, runningTask, taskLogs, clock, outrun>>

-----------------------------------------------------------------------------
(* The runs *)

Run(r, from) == r \in DOMAIN runs /\ runs[r].phase = from
Goes(r, to) == runs' = [runs EXCEPT ![r].phase = to]

RunScheduledTask(t) ==
  /\ ActsLeft
  /\ runs' = Append(runs, NewRun(t, 0, Never))
  /\ UNCHANGED <<tasks, edits, loops, taskCancel, stopped, runningTask, taskLogs, clock, outrun>>

ClaimTask(r) ==
  LET t == runs[r].task IN
  /\ Run(r, "started")
  /\ IF runningTask[t]
     THEN /\ Goes(r, "skipped") /\ UNCHANGED runningTask
          /\ outrun' = IF Stored(t) THEN outrun ELSE outrun \cup {t}
     ELSE /\ Goes(r, "claimed") /\ UNCHANGED outrun
          /\ runningTask' = [runningTask EXCEPT ![t] = TRUE]
  /\ UNCHANGED <<tasks, edits, loops, taskCancel, stopped, taskLogs, clock>>

Release(r) ==
  /\ runs' = [runs EXCEPT ![r].phase = "over", ![r].enabled = FALSE]
  /\ runningTask' = [runningTask EXCEPT ![runs[r].task] = FALSE]

LoadTask(r) ==
  LET t == runs[r].task IN
  /\ Run(r, "claimed") /\ Stored(t)
  /\ runs' = [runs EXCEPT ![r].phase = "working", ![r].enabled = tasks[t].enabled]
  /\ UNCHANGED <<tasks, edits, loops, taskCancel, stopped, runningTask, taskLogs, clock, outrun>>

(* Mutant: the flag stays when the task is not found. *)
NotFoundKeepsFlag(r) ==
  /\ Run(r, "claimed") /\ ~Stored(runs[r].task)
  /\ Goes(r, "over")
  /\ UNCHANGED <<tasks, edits, loops, taskCancel, stopped, runningTask, taskLogs, clock, outrun>>

(* Mutant: a task that is not found gets a log. *)
NotFoundIsLogged(r) ==
  /\ Run(r, "claimed") /\ ~Stored(runs[r].task)
  /\ Release(r)
  /\ taskLogs' = [taskLogs EXCEPT ![runs[r].task] = 1]
  /\ UNCHANGED <<tasks, edits, loops, taskCancel, stopped, clock, outrun>>

TaskNotFound(r) ==
  /\ Run(r, "claimed") /\ ~Stored(runs[r].task)
  /\ Release(r)
  /\ UNCHANGED <<tasks, edits, loops, taskCancel, stopped, taskLogs, clock, outrun>>

(* Mutant: the task is written as it was loaded when the run began. *)
AsLoaded(r) == [tasks EXCEPT ![runs[r].task] = [enabled |-> runs[r].enabled, lastTime |-> clock]]

(* The updates are made, failed ones included; then the file is read again and *)
(* only the one field of the one task written.                                *)
WithLastTime(r) ==
  LET t == runs[r].task IN
  IF Stored(t) THEN [tasks EXCEPT ![t].lastTime = clock] ELSE tasks

SaveLastTime(r) ==
  /\ Run(r, "working")
  /\ \/ tasks' = WithLastTime(r)
     \/ UNCHANGED tasks            \* the save fails, which is only logged
  /\ Goes(r, "saved")
  /\ UNCHANGED <<edits, loops, taskCancel, stopped, runningTask, taskLogs, clock, outrun>>

Logged(t) ==
  taskLogs' = [taskLogs EXCEPT ![t] = IF @ = LogLimit THEN @ ELSE @ + 1]

(* recordTaskLog, at the end of a run, which then lets go of its task, and in   *)
(* place of one that was skipped.                                             *)
RecordTaskLog(r) ==
  /\ \/ Run(r, "saved") /\ Release(r)
     \/ Run(r, "skipped") /\ Goes(r, "over") /\ UNCHANGED runningTask
  /\ Logged(runs[r].task)
  /\ UNCHANGED <<tasks, edits, loops, taskCancel, stopped, clock, outrun>>

-----------------------------------------------------------------------------
(* The handlers that edit tasks *)

Accept(t, todo) == edits' = Append(edits, [task |-> t, todo |-> todo])

CreateScheduledTask(t) ==
  /\ ActsLeft /\ ~Stored(t)
  /\ tasks' = [tasks EXCEPT ![t] = [enabled |-> TRUE, lastTime |-> 0]]
  /\ Accept(t, "restart")
  /\ UNCHANGED <<loops, taskCancel, stopped, runs, runningTask, taskLogs, clock, outrun>>

(* The client's LastTime is ignored.  An update without a change is not one, so  *)
(* that of the settings only enabled need be told apart.                       *)
UpdateScheduledTask(t) ==
  /\ ActsLeft /\ Stored(t)
  /\ tasks' = [tasks EXCEPT ![t].enabled = ~@]
  /\ Accept(t, "restart")
  /\ UNCHANGED <<loops, taskCancel, stopped, runs, runningTask, taskLogs, clock, outrun>>

DeleteScheduledTask(t) ==
  /\ ActsLeft /\ Stored(t)
  /\ tasks' = [tasks EXCEPT ![t] = Gone]
  /\ Accept(t, "logs")
  /\ outrun' = IF \E r \in DOMAIN runs : runs[r].task = t /\ runs[r].phase # "over"
               THEN outrun \cup {t} ELSE outrun
  /\ UNCHANGED <<loops, taskCancel, stopped, runs, runningTask, taskLogs, clock>>

(* Mutant: the flag of a deleted task is cleared with its logs. *)
TidyFlagToo(k) ==
  /\ k \in DOMAIN edits /\ edits[k].todo = "logs"
  /\ edits' = [edits EXCEPT ![k].todo = "restart"]
  /\ taskLogs' = [taskLogs EXCEPT ![edits[k].task] = 0]
  /\ runningTask' = [runningTask EXCEPT ![edits[k].task] = FALSE]
  /\ UNCHANGED <<tasks, loops, taskCancel, stopped, runs, clock, outrun>>

(* After the unlock a delete removes the task's logs. *)
TidyLogs(k) ==
  /\ k \in DOMAIN edits /\ edits[k].todo = "logs"
  /\ edits' = [edits EXCEPT ![k].todo = "restart"]
  /\ taskLogs' = [taskLogs EXCEPT ![edits[k].task] = 0]
  /\ UNCHANGED <<tasks, loops, taskCancel, stopped, runs, runningTask, clock, outrun>>

RestartScheduler(k) ==
  /\ k \in DOMAIN edits /\ edits[k].todo = "restart"
  /\ edits' = [edits EXCEPT ![k].todo = "nothing"]
  /\ StartScheduler
  /\ UNCHANGED <<tasks, stopped, runs, runningTask, taskLogs, clock, outrun>>

ClearScheduledTaskLogs ==
  /\ \E t \in Tasks : taskLogs[t] # 0
  /\ taskLogs' = [t \in Tasks |-> 0]
  /\ UNCHANGED <<tasks, edits, loops, taskCancel, stopped, runs, runningTask, clock, outrun>>

-----------------------------------------------------------------------------
(* Every task is in the file and the application has started the scheduler. *)
SchedulerInit ==
  /\ tasks = [t \in Tasks |-> [enabled |-> TRUE, lastTime |-> 0]]
  /\ edits = <<>>
  /\ loops = <<NewLoop>> /\ taskCancel = 1 /\ stopped = FALSE
  /\ runs = <<>>
  /\ runningTask = [t \in Tasks |-> FALSE]
  /\ taskLogs = [t \in Tasks |-> 0]
  /\ clock = 0
  /\ outrun = {}

RunStep(r) ==
  \/ ClaimTask(r) \/ LoadTask(r) \/ TaskNotFound(r)
  \/ SaveLastTime(r) \/ RecordTaskLog(r)

SchedulerNext ==
  \/ \E n \in DOMAIN loops : Tick(n) \/ LoopEnds(n)
  \/ \E r \in DOMAIN runs : RunStep(r)
  \/ \E t \in Tasks :
       \/ RunScheduledTask(t)
       \/ CreateScheduledTask(t) \/ UpdateScheduledTask(t) \/ DeleteScheduledTask(t)
  \/ \E k \in DOMAIN edits : TidyLogs(k) \/ RestartScheduler(k)
  \/ ClearScheduledTaskLogs
  \/ StopScheduler
  \/ Second

SchedulerSpec == SchedulerInit /\ [][SchedulerNext]_schedulerVars

-----------------------------------------------------------------------------
(* Properties *)

(* The values every variable keeps to; no task has more logs than its limit.   *)
SchedulerTypeOK ==
  /\ tasks \in [Tasks -> [enabled: BOOLEAN, lastTime: 0 .. MaxSeconds] \cup {Gone}]
  /\ edits \in Seq([task: Tasks, todo: {"logs", "restart", "nothing"}])
  /\ loops \in Seq([cancelled: BOOLEAN, ended: BOOLEAN, tick: 0 .. Never, lastRun: [Tasks -> 0 .. Never]])
  /\ taskCancel \in 0 .. Len(loops) /\ stopped \in BOOLEAN
  /\ runs \in Seq([task: Tasks, loop: 0 .. Len(loops), key: 0 .. Never, enabled: BOOLEAN,
                   phase: {"started", "skipped", "claimed", "working", "saved", "over"}])
  /\ runningTask \in [Tasks -> BOOLEAN]
  /\ taskLogs \in [Tasks -> 0 .. LogLimit]
  /\ clock \in 0 .. MaxSeconds
  /\ outrun \subseteq Tasks

(* A task has one run at a time, whether a loop, the loop before it or a user   *)
(* starts it, and whether it is deleted and created again meanwhile.           *)
RunsDoNotOverlap ==
  \A r, s \in DOMAIN runs :
    /\ r # s /\ runs[r].task = runs[s].task
    /\ {runs[r].phase, runs[s].phase} \subseteq {"claimed", "working", "saved"}
    => FALSE

(* However loops overlap when the scheduler is restarted, at most one is not    *)
(* cancelled, and it is the one that a stop would cancel.                      *)
OneLoopRuns == \A n \in DOMAIN loops : ~loops[n].cancelled => n = taskCancel

(* One loop starts a task once a minute, late and dropped ticks included.       *)
OncePerMinute ==
  \A r, s \in DOMAIN runs :
    r # s /\ runs[r].task = runs[s].task /\ runs[r].loop = runs[s].loop /\ runs[r].loop # 0
    => runs[r].key # runs[s].key

(* What is edited while a run is under way is not undone by its end, and the    *)
(* time of a run is not undone by an edit: between two accepted edits a task's  *)
(* settings stay, and while a task exists the time of its last run only grows.  *)
EditsAndRunsMerge ==
  [][\A t \in Tasks :
       /\ edits' = edits => tasks'[t].enabled = tasks[t].enabled /\ (Stored(t) <=> Stored(t)')
       /\ Stored(t) /\ Stored(t)' => tasks'[t].lastTime >= tasks[t].lastTime]_schedulerVars

(* A task that is gone, and whose deletion is through, has no logs, unless a run *)
(* of it was under way when it was deleted, or found another one under way     *)
(* afterwards and was skipped: these still record their logs.                  *)
DeletedLeavesNoLogs ==
  \A t \in Tasks \ outrun :
    /\ ~Stored(t)
    /\ \A k \in DOMAIN edits : edits[k].task = t => edits[k].todo # "logs"
    => taskLogs[t] = 0

(* Every run ends and lets its task be run again. *)
RunsEnd == \A t \in Tasks : []<>~runningTask[t]
=============================================================================
