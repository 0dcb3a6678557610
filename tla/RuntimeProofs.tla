---------------------------- MODULE RuntimeProofs ----------------------------
(***************************************************************************)
(* Proofs about what bridge/runtime does at its own times: the scheduled      *)
(* tasks (Scheduler), and the lists of subscriptions and of rule sets         *)
(* (Sources).  They share no state.                                         *)
(*                                                                         *)
(* Scheduler, for any number of tasks, edits, runs and seconds: the types,    *)
(* that runs of a task do not overlap, that one loop runs and starts a task   *)
(* once a minute, that a deleted task leaves no logs, and that edits and the  *)
(* ends of runs do not undo each other.  Each of them has an inductive        *)
(* invariant of its own; all rest on the types and on RunsGrow, which says    *)
(* what a step may do to the sequence of runs.                              *)
(*                                                                         *)
(* Sources, for any sources and any number of calls: the types, that one call *)
(* at a time holds the mutex of a list, that an entry describes its file,     *)
(* that nothing in a list is undone, and that edits replace what their users  *)
(* saw.  They rest on what a call knows while it holds a mutex: how the list  *)
(* it has in memory differs from the one in the file (Knows).  StepDoes says  *)
(* once what a step can do to the calls, and each invariant is then proved    *)
(* for its five kinds of steps.                                             *)
(***************************************************************************)
EXTENDS Scheduler, Sources, FiniteSetTheorems, SequenceTheorems, TLAPS

-----------------------------------------------------------------------------
(* The scheduled tasks *)

RunPhases == {"started", "skipped", "claimed", "working", "saved", "over"}

EditType == [task: Tasks, todo: {"logs", "restart", "nothing"}]
LoopType == [cancelled: BOOLEAN, ended: BOOLEAN, tick: 0 .. Never, lastRun: [Tasks -> 0 .. Never]]
RunType(n) == [task: Tasks, loop: 0 .. n, key: 0 .. Never, enabled: BOOLEAN, phase: RunPhases]
TaskType == [enabled: BOOLEAN, lastTime: 0 .. MaxSeconds] \cup {Gone}

-----------------------------------------------------------------------------
(* Operators *)

(* No second that is watched is Never.                                        *)
LEMMA Seconds == MaxSeconds \in Nat /\ Never \in Nat /\ MaxSeconds < Never
  BY SchedulerAssumption DEF Never

(* The key of a minute is no larger than its seconds, and minutes follow time. *)
LEMMA KeyOfSecond == \A s \in 0 .. MaxSeconds : RunKey(s) \in 0 .. MaxSeconds
<1> TAKE s \in 0 .. MaxSeconds
<1>1. s \div SecondsPerMinute \in Nat /\ s \div SecondsPerMinute <= s
  BY SchedulerAssumption
<1>. QED BY <1>1, SchedulerAssumption DEF RunKey

(* A later second has no smaller key.                                         *)
LEMMA KeysFollowTime == \A s, u \in Nat : s <= u => RunKey(s) <= RunKey(u)
  BY SchedulerAssumption DEF RunKey

(* A tick starts one run for each task that is due. *)
LEMMA NewRunsAreRuns ==
  ASSUME NEW due \in SUBSET Tasks, NEW n \in Nat, NEW key \in 0 .. Never,
         NEW new \in NewRuns(due, n, key)
  PROVE  /\ new \in Seq(RunType(n))
         /\ \A i \in 1 .. Len(new) : new[i].task \in due /\ new[i] = NewRun(new[i].task, n, key)
         /\ \A i, j \in 1 .. Len(new) : i # j => new[i].task # new[j].task
<1> DEFINE size == Cardinality(due)
<1>1. size \in Nat
  BY SchedulerAssumption, FS_Subset, FS_CardinalityType
<1>2. PICK order \in Bijection(1 .. size, due) :
        new = [k \in DOMAIN order |-> NewRun(order[k], n, key)]
  BY DEF NewRuns
<1>3. order \in [1 .. size -> due] /\ \A i, j \in 1 .. size : order[i] = order[j] => i = j
  BY <1>2 DEF Bijection, Injection, IsInjective
<1>4. \A t \in due : NewRun(t, n, key) \in RunType(n) /\ NewRun(t, n, key).task = t
  BY DEF NewRun, RunType, RunPhases
<1>5. new \in [1 .. size -> RunType(n)]
  BY <1>2, <1>3, <1>4
<1>6. new \in Seq(RunType(n)) /\ Len(new) = size
  BY <1>1, <1>5
<1>7. \A i \in 1 .. size : new[i] = NewRun(order[i], n, key) /\ order[i] \in due
  BY <1>2, <1>3
<1>. QED BY <1>3, <1>4, <1>6, <1>7

-----------------------------------------------------------------------------
(* Types *)

(* A loop that is started and one that has ended are loops.                   *)
LEMMA LoopTypes == NewLoop \in LoopType /\ Ended \in LoopType
<1>1. Never \in 0 .. Never
  BY Seconds
<1>2. NewLoop \in LoopType
  BY <1>1 DEF NewLoop, LoopType
<1>. QED BY <1>2 DEF Ended, LoopType

(* A restart of the scheduler cancels the loop before and adds one. *)
LEMMA CancelledLoops ==
  ASSUME loops \in Seq(LoopType)
  PROVE  /\ Cancelled \in Seq(LoopType) /\ Len(Cancelled) = Len(loops)
         /\ \A n \in 1 .. Len(loops) :
              Cancelled[n] = IF n = taskCancel THEN [loops[n] EXCEPT !.cancelled = TRUE] ELSE loops[n]
<1>1. \A n \in 1 .. Len(loops) : loops[n] \in LoopType
  OBVIOUS
<1>2. \A l \in LoopType : [l EXCEPT !.cancelled = TRUE] \in LoopType
  BY DEF LoopType
<1>3. Cancelled \in [1 .. Len(loops) -> LoopType]
  BY <1>1, <1>2 DEF Cancelled
<1>. QED BY <1>3 DEF Cancelled

(* The loops after a restart of the scheduler have the type of loops.         *)
LEMMA RestartedLoops ==
  ASSUME loops \in Seq(LoopType), StartScheduler
  PROVE  /\ loops' \in Seq(LoopType) /\ Len(loops') = Len(loops) + 1
         /\ taskCancel' = Len(loops')
         /\ loops'[Len(loops')] = NewLoop
         /\ \A n \in 1 .. Len(loops) : loops'[n] = Cancelled[n]
  BY CancelledLoops, LoopTypes, AppendProperties DEF StartScheduler

(* Runs keep their type when loops are added.                                 *)
LEMMA MoreLoops ==
  ASSUME loops \in Seq(LoopType), loops' \in Seq(LoopType), Len(loops') >= Len(loops),
         runs \in Seq(RunType(Len(loops)))
  PROVE  runs \in Seq(RunType(Len(loops')))
<1>1. RunType(Len(loops)) \subseteq RunType(Len(loops'))
  BY DEF RunType
<1>. QED BY <1>1, SeqMonotonic

SchedulerTyped ==
  /\ tasks \in [Tasks -> TaskType]
  /\ edits \in Seq(EditType)
  /\ loops \in Seq(LoopType)
  /\ taskCancel \in 0 .. Len(loops) /\ stopped \in BOOLEAN
  /\ runs \in Seq(RunType(Len(loops)))
  /\ runningTask \in [Tasks -> BOOLEAN]
  /\ taskLogs \in [Tasks -> 0 .. LogLimit]
  /\ clock \in 0 .. MaxSeconds
  /\ outrun \subseteq Tasks

(* The types as the proofs use them are those of SchedulerTypeOK.             *)
LEMMA SchedulerTypesAre == SchedulerTypeOK = SchedulerTyped
  BY DEF SchedulerTyped, SchedulerTypeOK, TaskType, EditType, LoopType, RunType, RunPhases

-----------------------------------------------------------------------------
(* What a step does to the runs: nothing, start some, or move one. *)

RunsStarted(first, n, key) ==
  /\ runs' \in Seq(RunType(Len(loops))) /\ Len(runs') >= Len(runs)
  /\ \A i \in 1 .. Len(runs) : runs'[i] = runs[i]
  /\ \A i \in 1 .. Len(runs') : i > Len(runs) => runs'[i].task \in first /\ runs'[i] = NewRun(runs'[i].task, n, key)
  /\ \A i, j \in 1 .. Len(runs') : i > Len(runs) /\ j > Len(runs) /\ i # j => runs'[i].task # runs'[j].task

OneRunMoved(r, to) ==
  /\ runs' \in Seq(RunType(Len(loops))) /\ Len(runs') = Len(runs)
  /\ \A i \in 1 .. Len(runs) : i # r => runs'[i] = runs[i]
  /\ runs'[r].task = runs[r].task /\ runs'[r].loop = runs[r].loop
  /\ runs'[r].key = runs[r].key
  /\ runs'[r].phase = to

(* A tick starts runs of the tasks that are due.                              *)
LEMMA TickStarts ==
  ASSUME SchedulerTypeOK, NEW n \in DOMAIN loops, Tick(n)
  PROVE  RunsStarted(Due(loops[n]), n, RunKey(loops[n].tick))
<1> DEFINE due == Due(loops[n])
           key == RunKey(loops[n].tick)
<1>1. loops \in Seq(LoopType) /\ runs \in Seq(RunType(Len(loops)))
  BY SchedulerTypesAre DEF SchedulerTyped
<1>2. loops[n].tick \in 0 .. MaxSeconds
  <2>1. loops[n] \in LoopType
    BY <1>1
  <2>2. loops[n].tick \in 0 .. Never /\ loops[n].tick # Never
    BY <2>1 DEF LoopType, Tick
  <2>. QED BY <2>2, SchedulerAssumption DEF Never
<1>3. due \in SUBSET Tasks /\ n \in Nat /\ key \in 0 .. Never
  <2>1. due \in SUBSET Tasks
    BY DEF Due
  <2>2. key \in 0 .. MaxSeconds
    BY <1>2, KeyOfSecond
  <2>. QED BY <1>1, <2>1, <2>2, Seconds
<1>4. PICK new \in NewRuns(due, n, key) : runs' = runs \o new
  BY DEF Tick, OnTick
<1>5. RunType(n) \subseteq RunType(Len(loops))
  BY <1>1 DEF RunType
<1>6. new \in Seq(RunType(Len(loops)))
  <2>1. new \in Seq(RunType(n))
    BY <1>3, NewRunsAreRuns
  <2>. QED BY <1>5, <2>1, SeqMonotonic
<1>7. /\ runs' \in Seq(RunType(Len(loops))) /\ Len(runs') = Len(runs) + Len(new)
      /\ Len(runs) \in Nat /\ Len(new) \in Nat
      /\ \A i \in 1 .. Len(runs') : runs'[i] = IF i <= Len(runs) THEN runs[i] ELSE new[i - Len(runs)]
  <2>1. runs \in Seq(RunType(Len(loops))) /\ new \in Seq(RunType(Len(loops)))
    BY <1>1, <1>6
  <2>2. Len(runs) \in Nat /\ Len(new) \in Nat
    BY <2>1
  <2>. QED BY <1>4, <2>1, <2>2, ConcatProperties
<1>8. /\ \A i \in 1 .. Len(new) : new[i].task \in due /\ new[i] = NewRun(new[i].task, n, key)
      /\ \A i, j \in 1 .. Len(new) : i # j => new[i].task # new[j].task
  BY <1>3, NewRunsAreRuns
<1> HIDE DEF due, key
<1>9. \A i \in 1 .. Len(runs') : i > Len(runs) =>
        i - Len(runs) \in 1 .. Len(new) /\ runs'[i] = new[i - Len(runs)]
  BY <1>7
<1>10. \A i \in 1 .. Len(runs') : i > Len(runs) => runs'[i].task \in due /\ runs'[i] = NewRun(runs'[i].task, n, key)
  BY <1>8, <1>9
<1>11. \A i, j \in 1 .. Len(runs') :
         i > Len(runs) /\ j > Len(runs) /\ i # j => runs'[i].task # runs'[j].task
  <2> TAKE i, j \in 1 .. Len(runs')
  <2> HAVE i > Len(runs) /\ j > Len(runs) /\ i # j
  <2> DEFINE k == i - Len(runs)
             m == j - Len(runs)
  <2>1. k # m
    BY <1>7
  <2>2. k \in 1 .. Len(new) /\ m \in 1 .. Len(new) /\ runs'[i] = new[k] /\ runs'[j] = new[m]
    BY <1>9
  <2> HIDE DEF k, m
  <2>. QED BY <1>8, <2>1, <2>2
<1>12. \A i \in 1 .. Len(runs) : runs'[i] = runs[i]
  BY <1>7
<1>. QED BY <1>7, <1>10, <1>11, <1>12 DEF RunsStarted, due, key

(* A user starts one run of one task, in no loop.                             *)
LEMMA UserStartsRun ==
  ASSUME SchedulerTypeOK, NEW t \in Tasks, RunScheduledTask(t)
  PROVE  RunsStarted({t}, 0, Never)
<1>1. loops \in Seq(LoopType) /\ runs \in Seq(RunType(Len(loops)))
  BY SchedulerTypesAre DEF SchedulerTyped
<1>2. NewRun(t, 0, Never) \in RunType(Len(loops)) /\ NewRun(t, 0, Never).task = t
  BY <1>1, Seconds DEF NewRun, RunType, RunPhases
<1>3. /\ runs' \in Seq(RunType(Len(loops))) /\ Len(runs') = Len(runs) + 1
      /\ Len(runs) \in Nat
      /\ \A i \in 1 .. Len(runs) : runs'[i] = runs[i]
      /\ runs'[Len(runs) + 1] = NewRun(t, 0, Never)
  BY <1>1, <1>2, AppendProperties DEF RunScheduledTask
<1>4. \A i \in 1 .. Len(runs') : i > Len(runs) => i = Len(runs) + 1
  BY <1>3
<1>. QED BY <1>2, <1>3, <1>4 DEF RunsStarted

(* A run that goes to another phase is moved, and nothing else of the runs is. *)
LEMMA GoingMoves ==
  ASSUME SchedulerTypeOK, NEW r \in DOMAIN runs, NEW to \in RunPhases,
         NEW enabled \in BOOLEAN,
         \/ Goes(r, to)
         \/ runs' = [runs EXCEPT ![r].phase = to, ![r].enabled = enabled]
  PROVE  OneRunMoved(r, to)
<1>1. runs \in Seq(RunType(Len(loops)))
  BY SchedulerTypesAre DEF SchedulerTyped
<1>2. PICK run \in RunType(Len(loops)) :
        /\ runs' = [runs EXCEPT ![r] = run]
        /\ run.task = runs[r].task /\ run.loop = runs[r].loop /\ run.key = runs[r].key
        /\ run.phase = to
  <2>1. runs[r] \in RunType(Len(loops))
    BY <1>1
  <2>2. CASE Goes(r, to)
    <3> DEFINE run == [runs[r] EXCEPT !.phase = to]
    <3>1. run \in RunType(Len(loops))
      BY <2>1 DEF RunType
    <3>. QED BY <2>1, <2>2, <3>1 DEF Goes, RunType
  <2>3. CASE runs' = [runs EXCEPT ![r].phase = to, ![r].enabled = enabled]
    <3> DEFINE run == [runs[r] EXCEPT !.phase = to, !.enabled = enabled]
    <3>1. run \in RunType(Len(loops))
      BY <2>1 DEF RunType
    <3>. QED BY <1>1, <2>1, <2>3, <3>1 DEF RunType
  <2>. QED BY <2>2, <2>3
<1>3. runs' \in Seq(RunType(Len(loops))) /\ Len(runs') = Len(runs)
  BY <1>1, <1>2
<1>. QED BY <1>1, <1>2, <1>3 DEF OneRunMoved

(* A run that lets go of its task is over.                                    *)
LEMMA ReleaseMoves ==
  ASSUME SchedulerTypeOK, NEW r \in DOMAIN runs, Release(r)
  PROVE  OneRunMoved(r, "over")
  BY GoingMoves DEF Release, RunPhases

(* A run that has found its task works on it.                                 *)
LEMMA LoadMoves ==
  ASSUME SchedulerTypeOK, NEW r \in DOMAIN runs, LoadTask(r)
  PROVE  OneRunMoved(r, "working")
<1>1. tasks[runs[r].task].enabled \in BOOLEAN
  <2>1. tasks \in [Tasks -> TaskType] /\ runs \in Seq(RunType(Len(loops)))
    BY SchedulerTypesAre DEF SchedulerTyped
  <2>2. runs[r] \in RunType(Len(loops))
    BY <2>1
  <2>3. tasks[runs[r].task] \in TaskType
    BY <2>1, <2>2 DEF RunType
  <2>4. tasks[runs[r].task] \in [enabled: BOOLEAN, lastTime: 0 .. MaxSeconds]
    BY <2>3 DEF TaskType, LoadTask, Stored
  <2>. QED BY <2>4
<1>. QED BY <1>1, GoingMoves DEF LoadTask, RunPhases

-----------------------------------------------------------------------------
(* Every variable keeps its type; there are never more logs than the limit.     *)
LEMMA TypesInit == SchedulerInit => SchedulerTypeOK
<1> SUFFICES ASSUME SchedulerInit PROVE SchedulerTypeOK
  OBVIOUS
<1>1. loops \in Seq(LoopType) /\ Len(loops) = 1
  BY LoopTypes DEF SchedulerInit
<1>2. tasks \in [Tasks -> TaskType]
  BY Seconds DEF SchedulerInit, TaskType
<1>3. runs \in Seq(RunType(Len(loops))) /\ edits \in Seq(EditType)
  BY DEF SchedulerInit
<1>4. /\ taskCancel \in 0 .. Len(loops) /\ clock \in 0 .. MaxSeconds
      /\ outrun \subseteq Tasks
  BY <1>1, SchedulerAssumption DEF SchedulerInit
<1>5. stopped \in BOOLEAN
  BY DEF SchedulerInit
<1>6. runningTask \in [Tasks -> BOOLEAN] /\ taskLogs \in [Tasks -> 0 .. LogLimit]
  BY SchedulerAssumption DEF SchedulerInit
<1>. QED BY <1>1, <1>2, <1>3, <1>4, <1>5, <1>6, SchedulerTypesAre DEF SchedulerTyped

(* A tick and the end of a loop keep the type of the loops.                   *)
LEMMA LoopStepTypes ==
  ASSUME SchedulerTypeOK, NEW n \in DOMAIN loops, Tick(n) \/ LoopEnds(n)
  PROVE  loops' \in Seq(LoopType) /\ Len(loops') = Len(loops)
<1>1. loops \in Seq(LoopType) /\ loops[n] \in LoopType
  <2>1. loops \in Seq(LoopType)
    BY SchedulerTypesAre DEF SchedulerTyped
  <2>. QED BY <2>1
<1>2. CASE LoopEnds(n)
  BY <1>1, <1>2, LoopTypes DEF LoopEnds
<1>3. CASE Tick(n)
  <2> DEFINE key == RunKey(loops[n].tick)
             last == [t \in Tasks |-> IF t \in Due(loops[n]) THEN key ELSE loops[n].lastRun[t]]
             loop == [loops[n] EXCEPT !.tick = Never, !.lastRun = last]
  <2>1. /\ loops[n].tick \in 0 .. Never /\ loops[n].tick # Never
        /\ loops[n].lastRun \in [Tasks -> 0 .. Never]
    BY <1>1, <1>3 DEF LoopType, Tick
  <2>2. loops[n].tick \in 0 .. MaxSeconds
    BY <2>1, SchedulerAssumption DEF Never
  <2>3. key \in 0 .. Never
    BY <2>2, KeyOfSecond, Seconds
  <2>4. last \in [Tasks -> 0 .. Never]
    BY <2>1, <2>3
  <2>5. loop \in LoopType
    <3>1. \A f \in [Tasks -> 0 .. Never], s \in 0 .. Never :
            [loops[n] EXCEPT !.tick = s, !.lastRun = f] \in LoopType
      BY <1>1 DEF LoopType
    <3>2. Never \in 0 .. Never
      BY Seconds
    <3> HIDE DEF last
    <3>. QED BY <2>4, <3>1, <3>2
  <2>6. loops' = [loops EXCEPT ![n] = loop]
    <3>1. loops' = [loops EXCEPT ![n].tick = Never,
                                 ![n].lastRun = [t \in Tasks |-> IF t \in Due(loops[n]) THEN key ELSE @[t]]]
      BY <1>3 DEF Tick, OnTick
    <3>. QED BY <1>1, <3>1 DEF LoopType
  <2>. QED BY <1>1, <2>5, <2>6
<1>. QED BY <1>2, <1>3

(* The tick of a second is one that loops may hold.                           *)
LEMMA SecondTypes ==
  ASSUME SchedulerTypeOK, Second
  PROVE  /\ loops' \in Seq(LoopType) /\ Len(loops') = Len(loops)
         /\ clock' \in 0 .. MaxSeconds
<1>1. loops \in Seq(LoopType) /\ clock \in 0 .. MaxSeconds
  BY SchedulerTypesAre DEF SchedulerTyped
<1>2. clock' \in 0 .. MaxSeconds /\ clock' \in 0 .. Never
  BY <1>1, Seconds DEF Second
<1>3. \A l \in LoopType : [l EXCEPT !.tick = clock'] \in LoopType
  BY <1>2 DEF LoopType
<1>4. loops' \in [1 .. Len(loops) -> LoopType]
  BY <1>1, <1>3 DEF Second
<1>. QED BY <1>1, <1>2, <1>4

(* What a handler does after its unlock keeps the type of the edits.          *)
LEMMA EditTypes ==
  ASSUME SchedulerTypeOK, NEW k \in DOMAIN edits, NEW todo \in {"restart", "nothing"},
         edits' = [edits EXCEPT ![k].todo = todo]
  PROVE  edits' \in Seq(EditType) /\ edits[k].task \in Tasks
<1>1. edits \in Seq(EditType) /\ edits[k] \in EditType
  <2>1. edits \in Seq(EditType)
    BY SchedulerTypesAre DEF SchedulerTyped
  <2>. QED BY <2>1
<1>2. [edits[k] EXCEPT !.todo = todo] \in EditType
  BY <1>1 DEF EditType
<1>3. edits' = [edits EXCEPT ![k] = [edits[k] EXCEPT !.todo = todo]]
  OBVIOUS
<1>. QED BY <1>1, <1>2, <1>3 DEF EditType

(* An accepted edit is appended to the edits.                                 *)
LEMMA AcceptTypes ==
  ASSUME SchedulerTypeOK, NEW t \in Tasks, NEW todo \in {"logs", "restart"},
         Accept(t, todo)
  PROVE  /\ edits' \in Seq(EditType) /\ Len(edits') = Len(edits) + 1
         /\ \A k \in 1 .. Len(edits) : edits'[k] = edits[k]
         /\ edits'[Len(edits) + 1] = [task |-> t, todo |-> todo]
<1>1. edits \in Seq(EditType) /\ [task |-> t, todo |-> todo] \in EditType
  BY SchedulerTypesAre DEF SchedulerTyped, EditType
<1>. QED BY <1>1, AppendProperties DEF Accept
(* Every step keeps SchedulerTypeOK.                                          *)
LEMMA SchedulerTypesStep == SchedulerTypeOK /\ [SchedulerNext]_schedulerVars => SchedulerTypeOK'
<1> SUFFICES ASSUME SchedulerTypeOK, [SchedulerNext]_schedulerVars PROVE SchedulerTypeOK'
  OBVIOUS
<1>1. SchedulerTyped
  BY SchedulerTypesAre
<1> SUFFICES SchedulerTyped'
  BY DEF SchedulerTyped, SchedulerTypeOK, TaskType, EditType, LoopType, RunType, RunPhases
<1> USE DEF SchedulerTyped
<1>2. \A r \in 1 .. Len(runs) : runs[r] \in RunType(Len(loops)) /\ runs[r].task \in Tasks
  <2> TAKE r \in 1 .. Len(runs)
  <2>1. runs[r] \in RunType(Len(loops))
    BY <1>1
  <2>. QED BY <2>1 DEF RunType
<1>3. ASSUME NEW n \in DOMAIN loops, Tick(n) PROVE SchedulerTyped'
  <2>1. loops' \in Seq(LoopType) /\ Len(loops') = Len(loops)
    BY <1>3, LoopStepTypes
  <2>2. runs' \in Seq(RunType(Len(loops')))
    BY <1>3, <2>1, TickStarts DEF RunsStarted
  <2>. QED BY <1>1, <1>3, <2>1, <2>2 DEF Tick, OnTick
<1>4. ASSUME NEW n \in DOMAIN loops, LoopEnds(n) PROVE SchedulerTyped'
  BY <1>1, <1>4, LoopStepTypes DEF LoopEnds
<1>5. ASSUME NEW r \in DOMAIN runs, ClaimTask(r) PROVE SchedulerTyped'
  <2>1. runs' \in Seq(RunType(Len(loops)))
    BY <1>5, GoingMoves DEF ClaimTask, OneRunMoved, RunPhases
  <2>2. runningTask' \in [Tasks -> BOOLEAN] /\ outrun' \subseteq Tasks
    <3>1. CASE runningTask[runs[r].task]
      BY <1>1, <1>2, <1>5, <3>1 DEF ClaimTask
    <3>2. CASE ~runningTask[runs[r].task]
      BY <1>1, <1>2, <1>5, <3>2 DEF ClaimTask
    <3>. QED BY <3>1, <3>2
  <2>. QED BY <1>1, <1>5, <2>1, <2>2 DEF ClaimTask
<1>6. ASSUME NEW r \in DOMAIN runs, LoadTask(r) PROVE SchedulerTyped'
  <2>1. runs' \in Seq(RunType(Len(loops)))
    BY <1>6, LoadMoves DEF OneRunMoved
  <2>. QED BY <1>1, <1>6, <2>1 DEF LoadTask
<1>7. ASSUME NEW r \in DOMAIN runs, Release(r)
      PROVE  runs' \in Seq(RunType(Len(loops))) /\ runningTask' \in [Tasks -> BOOLEAN]
  <2>1. runs' \in Seq(RunType(Len(loops)))
    BY <1>7, ReleaseMoves DEF OneRunMoved
  <2>2. runningTask' \in [Tasks -> BOOLEAN]
    BY <1>1, <1>7 DEF Release
  <2>. QED BY <2>1, <2>2
<1>8. ASSUME NEW r \in DOMAIN runs, TaskNotFound(r) PROVE SchedulerTyped'
  <2>1. runs' \in Seq(RunType(Len(loops))) /\ runningTask' \in [Tasks -> BOOLEAN]
    BY <1>7, <1>8 DEF TaskNotFound
  <2>. QED BY <1>1, <1>8, <2>1 DEF TaskNotFound
<1>9. ASSUME NEW r \in DOMAIN runs, SaveLastTime(r) PROVE SchedulerTyped'
  <2>1. runs' \in Seq(RunType(Len(loops)))
    BY <1>9, GoingMoves DEF SaveLastTime, OneRunMoved, RunPhases
  <2>2. tasks' \in [Tasks -> TaskType]
    <3>1. \A t \in Tasks : Stored(t) => [tasks[t] EXCEPT !.lastTime = clock] \in TaskType
      BY <1>1 DEF TaskType, Stored
    <3>2. WithLastTime(r) \in [Tasks -> TaskType]
      BY <1>1, <1>2, <3>1 DEF WithLastTime
    <3>. QED BY <1>1, <1>9, <3>2 DEF SaveLastTime
  <2>. QED BY <1>1, <1>9, <2>1, <2>2 DEF SaveLastTime
<1>10. ASSUME NEW r \in DOMAIN runs, RecordTaskLog(r) PROVE SchedulerTyped'
  <2>1. runs' \in Seq(RunType(Len(loops))) /\ runningTask' \in [Tasks -> BOOLEAN]
    <3>1. CASE Run(r, "saved") /\ Release(r)
      BY <1>7, <3>1
    <3>2. CASE Run(r, "skipped") /\ Goes(r, "over") /\ UNCHANGED runningTask
      BY <1>1, <3>2, GoingMoves DEF OneRunMoved, RunPhases
    <3>. QED BY <1>10, <3>1, <3>2 DEF RecordTaskLog
  <2>2. taskLogs' \in [Tasks -> 0 .. LogLimit]
    BY <1>1, <1>2, <1>10, SchedulerAssumption DEF RecordTaskLog, Logged
  <2>. QED BY <1>1, <1>10, <2>1, <2>2 DEF RecordTaskLog
<1>11. ASSUME NEW t \in Tasks, RunScheduledTask(t) PROVE SchedulerTyped'
  <2>1. runs' \in Seq(RunType(Len(loops)))
    BY <1>11, UserStartsRun DEF RunsStarted
  <2>. QED BY <1>1, <1>11, <2>1 DEF RunScheduledTask
<1>12. ASSUME NEW t \in Tasks, CreateScheduledTask(t) PROVE SchedulerTyped'
  <2>1. edits' \in Seq(EditType)
    BY <1>12, AcceptTypes DEF CreateScheduledTask
  <2>2. tasks' \in [Tasks -> TaskType]
    BY <1>1, <1>12, SchedulerAssumption DEF CreateScheduledTask, TaskType
  <2>. QED BY <1>1, <1>12, <2>1, <2>2 DEF CreateScheduledTask
<1>13. ASSUME NEW t \in Tasks, UpdateScheduledTask(t) PROVE SchedulerTyped'
  <2>1. edits' \in Seq(EditType)
    BY <1>13, AcceptTypes DEF UpdateScheduledTask
  <2>2. tasks' \in [Tasks -> TaskType]
    <3>1. tasks[t] \in [enabled: BOOLEAN, lastTime: 0 .. MaxSeconds]
      BY <1>1, <1>13 DEF UpdateScheduledTask, Stored, TaskType
    <3>2. [tasks[t] EXCEPT !.enabled = ~@] \in TaskType
      BY <3>1 DEF TaskType
    <3>3. tasks' = [tasks EXCEPT ![t] = [tasks[t] EXCEPT !.enabled = ~@]]
      BY <1>13 DEF UpdateScheduledTask
    <3>. QED BY <1>1, <3>2, <3>3
  <2>. QED BY <1>1, <1>13, <2>1, <2>2 DEF UpdateScheduledTask
<1>14. ASSUME NEW t \in Tasks, DeleteScheduledTask(t) PROVE SchedulerTyped'
  <2>1. edits' \in Seq(EditType)
    BY <1>14, AcceptTypes DEF DeleteScheduledTask
  <2>2. tasks' \in [Tasks -> TaskType] /\ outrun' \subseteq Tasks
    BY <1>1, <1>14 DEF DeleteScheduledTask, TaskType
  <2>. QED BY <1>1, <1>14, <2>1, <2>2 DEF DeleteScheduledTask
<1>15. ASSUME NEW k \in DOMAIN edits, TidyLogs(k) PROVE SchedulerTyped'
  <2>1. edits' \in Seq(EditType) /\ edits[k].task \in Tasks
    BY <1>15, EditTypes DEF TidyLogs
  <2>2. taskLogs' \in [Tasks -> 0 .. LogLimit]
    BY <1>1, <1>15, <2>1, SchedulerAssumption DEF TidyLogs
  <2>. QED BY <1>1, <1>15, <2>1, <2>2 DEF TidyLogs
<1>16. ASSUME NEW k \in DOMAIN edits, RestartScheduler(k) PROVE SchedulerTyped'
  <2>1. edits' \in Seq(EditType)
    BY <1>16, EditTypes DEF RestartScheduler
  <2>2. /\ loops' \in Seq(LoopType) /\ Len(loops') = Len(loops) + 1
        /\ taskCancel' = Len(loops')
    BY <1>1, <1>16, RestartedLoops DEF RestartScheduler
  <2>3. runs' \in Seq(RunType(Len(loops')))
    BY <1>1, <1>16, <2>2, MoreLoops DEF RestartScheduler
  <2>. QED BY <1>1, <1>16, <2>1, <2>2, <2>3 DEF RestartScheduler
<1>17. CASE ClearScheduledTaskLogs
  BY <1>1, <1>17, SchedulerAssumption DEF ClearScheduledTaskLogs
<1>18. CASE StopScheduler
  <2>1. loops' \in Seq(LoopType) /\ Len(loops') = Len(loops)
    BY <1>1, <1>18, CancelledLoops DEF StopScheduler
  <2>. QED BY <1>1, <1>18, <2>1 DEF StopScheduler
<1>19. CASE Second
  <2>1. loops' \in Seq(LoopType) /\ Len(loops') = Len(loops) /\ clock' \in 0 .. MaxSeconds
    BY <1>19, SecondTypes
  <2>. QED BY <1>1, <1>19, <2>1 DEF Second
<1>20. CASE UNCHANGED schedulerVars
  BY <1>1, <1>20 DEF schedulerVars
<1>. QED
  BY <1>3, <1>4, <1>5, <1>6, <1>8, <1>9, <1>10, <1>11, <1>12, <1>13, <1>14, <1>15, <1>16,
     <1>17,
     <1>18, <1>19, <1>20 DEF SchedulerNext, RunStep

(* Every variable of Scheduler keeps its type; there are never more logs than the limit. *)
THEOREM SchedulerTypes == SchedulerSpec => []SchedulerTypeOK
  BY TypesInit, SchedulerTypesStep, PTL DEF SchedulerSpec

-----------------------------------------------------------------------------
(* A run that has claimed its task and not let go of it is the only one, and    *)
(* its flag is set: a loop, the loop before it and the users all ask the flag.   *)
Active == {"claimed", "working", "saved"}

FlagsHold ==
  /\ \A r \in DOMAIN runs : runs[r].phase \in Active => runningTask[runs[r].task]
  /\ RunsDoNotOverlap

(* Every run is a run of a task.                                              *)
LEMMA RunsAreTyped ==
  ASSUME SchedulerTypeOK
  PROVE  /\ DOMAIN runs = 1 .. Len(runs) /\ Len(runs) \in Nat
         /\ \A r \in DOMAIN runs : runs[r] \in RunType(Len(loops)) /\ runs[r].task \in Tasks
<1>1. runs \in Seq(RunType(Len(loops)))
  BY SchedulerTypesAre DEF SchedulerTyped
<1>2. \A r \in DOMAIN runs : runs[r] \in RunType(Len(loops))
  BY <1>1
<1>3. \A r \in RunType(Len(loops)) : r.task \in Tasks
  BY DEF RunType
<1>. QED BY <1>1, <1>2, <1>3

(* A run that has just been started claims nothing.                           *)
LEMMA FlagsAfterStarts ==
  ASSUME SchedulerTypeOK, FlagsHold, NEW first, NEW n, NEW key,
         RunsStarted(first, n, key), UNCHANGED runningTask
  PROVE  FlagsHold'
<1>1. DOMAIN runs = 1 .. Len(runs) /\ DOMAIN runs' = 1 .. Len(runs')
  BY SchedulerTypesAre DEF SchedulerTyped, RunsStarted
<1>2. \A i \in DOMAIN runs' : runs'[i].phase \in Active => i \in DOMAIN runs /\ runs'[i] = runs[i]
  <2> TAKE i \in DOMAIN runs'
  <2>1. i \in DOMAIN runs => runs'[i] = runs[i]
    BY <1>1 DEF RunsStarted
  <2>2. i \notin DOMAIN runs => runs'[i].phase = "started"
    <3> HAVE i \notin DOMAIN runs
    <3>1. i > Len(runs)
      BY <1>1, SchedulerTypesAre DEF SchedulerTyped
    <3>2. runs'[i] = NewRun(runs'[i].task, n, key)
      BY <1>1, <3>1 DEF RunsStarted
    <3>. QED BY <3>2 DEF NewRun
  <2>. QED BY <2>1, <2>2 DEF Active
<1>. QED BY <1>2 DEF FlagsHold, RunsDoNotOverlap, Active

(* What is left of the other runs when one moves.                             *)
LEMMA MovedRuns ==
  ASSUME SchedulerTypeOK, NEW r \in DOMAIN runs, NEW to, OneRunMoved(r, to)
  PROVE  /\ DOMAIN runs' = DOMAIN runs
         /\ \A i \in DOMAIN runs : i # r => runs'[i] = runs[i]
         /\ \A i \in DOMAIN runs : runs'[i].task = runs[i].task
         /\ \A i \in DOMAIN runs : runs'[i].loop = runs[i].loop /\ runs'[i].key = runs[i].key
         /\ runs'[r].phase = to
<1>1. DOMAIN runs = 1 .. Len(runs) /\ DOMAIN runs' = 1 .. Len(runs')
  BY SchedulerTypesAre DEF SchedulerTyped, OneRunMoved
<1>. QED BY <1>1 DEF OneRunMoved

(* A run that moves on without a claim disturbs no flag.                      *)
LEMMA FlagsAfterMove ==
  ASSUME SchedulerTypeOK, FlagsHold, NEW r \in DOMAIN runs, NEW to, OneRunMoved(r, to),
         UNCHANGED runningTask, to \in Active => runs[r].phase \in Active
  PROVE  FlagsHold'
  BY MovedRuns DEF FlagsHold, RunsDoNotOverlap, Active

(* A run claims its task only when its flag is clear, and then no other has.  *)
LEMMA FlagsAfterClaim ==
  ASSUME SchedulerTypeOK, FlagsHold, NEW r \in DOMAIN runs, ClaimTask(r)
  PROVE  FlagsHold'
<1>1. CASE runningTask[runs[r].task]
  <2>1. OneRunMoved(r, "skipped") /\ UNCHANGED runningTask
    BY <1>1, GoingMoves DEF ClaimTask, RunPhases
  <2>. QED BY <2>1, FlagsAfterMove DEF Active
<1>2. CASE ~runningTask[runs[r].task]
  <2>1. OneRunMoved(r, "claimed")
    BY <1>2, GoingMoves DEF ClaimTask, RunPhases
  <2>2. runs[r].task \in Tasks /\ runningTask \in [Tasks -> BOOLEAN]
    BY RunsAreTyped, SchedulerTypesAre DEF SchedulerTyped
  <2>3. \A t \in Tasks : runningTask'[t] = (t = runs[r].task \/ runningTask[t])
    BY <1>2, <2>2 DEF ClaimTask
  <2>4. \A i \in DOMAIN runs : runs[i].phase \in Active => runs[i].task # runs[r].task
    BY <1>2 DEF FlagsHold
  <2>5. \A i \in DOMAIN runs : runs[i].task \in Tasks
    BY RunsAreTyped
  <2>6. \A i \in DOMAIN runs' : runs'[i].phase \in Active => i = r \/ runs[i].phase \in Active
    BY <2>1, MovedRuns
  <2>7. \A i \in DOMAIN runs' : runs'[i].phase \in Active => runningTask'[runs'[i].task]
    BY <2>1, <2>3, <2>5, <2>6, MovedRuns DEF FlagsHold
  <2>8. RunsDoNotOverlap'
    BY <2>1, <2>4, <2>6, MovedRuns DEF FlagsHold, RunsDoNotOverlap, Active
  <2>. QED BY <2>7, <2>8 DEF FlagsHold
<1>. QED BY <1>1, <1>2

(* A run that lets go was the only one to hold its task.                      *)
LEMMA FlagsAfterRelease ==
  ASSUME SchedulerTypeOK, FlagsHold, NEW r \in DOMAIN runs, Release(r),
         runs[r].phase \in Active
  PROVE  FlagsHold'
<1>1. OneRunMoved(r, "over")
  BY ReleaseMoves
<1>2. \A i \in DOMAIN runs : i # r /\ runs[i].phase \in Active => runs[i].task # runs[r].task
  BY DEF FlagsHold, RunsDoNotOverlap, Active
<1>3. \A i \in DOMAIN runs' : runs'[i].phase \in Active => i # r /\ runs[i].phase \in Active
  BY <1>1, MovedRuns DEF Active
<1>4. \A t : t # runs[r].task /\ t \in DOMAIN runningTask => runningTask'[t] = runningTask[t]
  BY DEF Release
<1>5. \A i \in DOMAIN runs : runs[i].task \in DOMAIN runningTask
  BY RunsAreTyped, SchedulerTypesAre DEF SchedulerTyped
<1>6. \A i \in DOMAIN runs' : runs'[i].phase \in Active => runningTask'[runs'[i].task]
  BY <1>1, <1>2, <1>3, <1>4, <1>5, MovedRuns DEF FlagsHold
<1>7. RunsDoNotOverlap'
  BY <1>1, <1>3, MovedRuns DEF FlagsHold, RunsDoNotOverlap, Active
<1>. QED BY <1>6, <1>7 DEF FlagsHold

(* Every step keeps FlagsHold.                                                *)
LEMMA FlagsStep == SchedulerTypeOK /\ FlagsHold /\ [SchedulerNext]_schedulerVars => FlagsHold'
<1> SUFFICES ASSUME SchedulerTypeOK, FlagsHold, [SchedulerNext]_schedulerVars PROVE FlagsHold'
  OBVIOUS
<1>1. ASSUME NEW n \in DOMAIN loops, Tick(n) PROVE FlagsHold'
  <2>1. UNCHANGED runningTask
    BY <1>1 DEF Tick, OnTick
  <2>. QED BY <1>1, <2>1, TickStarts, FlagsAfterStarts
<1>2. ASSUME NEW t \in Tasks, RunScheduledTask(t) PROVE FlagsHold'
  <2>1. UNCHANGED runningTask
    BY <1>2 DEF RunScheduledTask
  <2>. QED BY <1>2, <2>1, UserStartsRun, FlagsAfterStarts
<1>3. ASSUME NEW r \in DOMAIN runs, ClaimTask(r) PROVE FlagsHold'
  BY <1>3, FlagsAfterClaim
<1>4. ASSUME NEW r \in DOMAIN runs, LoadTask(r) PROVE FlagsHold'
  <2>1. UNCHANGED runningTask /\ runs[r].phase \in Active
    BY <1>4 DEF LoadTask, Run, Active
  <2>. QED BY <1>4, <2>1, LoadMoves, FlagsAfterMove
<1>5. ASSUME NEW r \in DOMAIN runs, TaskNotFound(r) PROVE FlagsHold'
  <2>1. Release(r) /\ runs[r].phase \in Active
    BY <1>5 DEF TaskNotFound, Run, Active
  <2>. QED BY <2>1, FlagsAfterRelease
<1>6. ASSUME NEW r \in DOMAIN runs, SaveLastTime(r) PROVE FlagsHold'
  <2>1. Goes(r, "saved") /\ UNCHANGED runningTask /\ runs[r].phase \in Active
    BY <1>6 DEF SaveLastTime, Run, Active
  <2>2. OneRunMoved(r, "saved")
    BY <2>1, GoingMoves DEF RunPhases
  <2>. QED BY <2>1, <2>2, FlagsAfterMove
<1>7. ASSUME NEW r \in DOMAIN runs, RecordTaskLog(r) PROVE FlagsHold'
  <2>1. CASE Run(r, "saved") /\ Release(r)
    <3>1. runs[r].phase \in Active
      BY <2>1 DEF Run, Active
    <3>. QED BY <2>1, <3>1, FlagsAfterRelease
  <2>2. CASE Run(r, "skipped") /\ Goes(r, "over") /\ UNCHANGED runningTask
    <3>1. OneRunMoved(r, "over")
      BY <2>2, GoingMoves DEF RunPhases
    <3>. QED BY <2>2, <3>1, FlagsAfterMove DEF Active
  <2>. QED BY <1>7, <2>1, <2>2 DEF RecordTaskLog
<1>8. ASSUME UNCHANGED <<runs, runningTask>> PROVE FlagsHold'
  BY <1>8 DEF FlagsHold, RunsDoNotOverlap
<1>. QED
  BY <1>1, <1>2, <1>3, <1>4, <1>5, <1>6, <1>7, <1>8
  DEF SchedulerNext, RunStep, LoopEnds, CreateScheduledTask, UpdateScheduledTask,
      DeleteScheduledTask, TidyLogs, RestartScheduler, ClearScheduledTaskLogs, StopScheduler,
      Second, schedulerVars

(* A task has one run at a time. *)
THEOREM RunsExclude == SchedulerSpec => []RunsDoNotOverlap
<1>1. SchedulerInit => FlagsHold
  BY DEF SchedulerInit, FlagsHold, RunsDoNotOverlap
<1>2. FlagsHold => RunsDoNotOverlap
  BY DEF FlagsHold
<1>. QED BY <1>1, <1>2, FlagsStep, SchedulerTypes, PTL DEF SchedulerSpec

-----------------------------------------------------------------------------
(* The loops *)

(* Every loop is a loop.                                                      *)
LEMMA LoopsAreTyped ==
  ASSUME SchedulerTypeOK
  PROVE  /\ DOMAIN loops = 1 .. Len(loops) /\ Len(loops) \in Nat
         /\ \A n \in DOMAIN loops :
              /\ loops[n] \in LoopType
              /\ loops[n].tick \in 0 .. Never
              /\ loops[n].lastRun \in [Tasks -> 0 .. Never]
<1>1. loops \in Seq(LoopType)
  BY SchedulerTypesAre DEF SchedulerTyped
<1>2. \A n \in DOMAIN loops : loops[n] \in LoopType
  BY <1>1
<1>3. \A l \in LoopType : l.tick \in 0 .. Never /\ l.lastRun \in [Tasks -> 0 .. Never]
  BY DEF LoopType
<1>. QED BY <1>1, <1>2, <1>3

(* What a cancellation keeps of a loop. *)
Kept(l, m) == l.tick = m.tick /\ l.ended = m.ended /\ l.lastRun = m.lastRun

(* A cancellation keeps what a loop has noted, and its tick.                  *)
LEMMA CancelledKeeps ==
  ASSUME SchedulerTypeOK
  PROVE  /\ Len(Cancelled) = Len(loops) /\ DOMAIN Cancelled = DOMAIN loops
         /\ \A n \in DOMAIN loops :
              /\ Kept(loops[n], Cancelled[n])
              /\ Cancelled[n].cancelled = (loops[n].cancelled \/ n = taskCancel)
<1>1. \A l \in LoopType : Kept(l, [l EXCEPT !.cancelled = TRUE]) /\ [l EXCEPT !.cancelled = TRUE].cancelled
  BY DEF LoopType, Kept
<1>2. \A n \in DOMAIN loops :
        Cancelled[n] = IF n = taskCancel THEN [loops[n] EXCEPT !.cancelled = TRUE] ELSE loops[n]
  BY DEF Cancelled
<1>3. loops \in Seq(LoopType)
  BY SchedulerTypesAre DEF SchedulerTyped
<1>4. Len(Cancelled) = Len(loops) /\ DOMAIN Cancelled = DOMAIN loops
  BY <1>3, CancelledLoops DEF Cancelled
<1>5. \A l \in LoopType : l.cancelled \in BOOLEAN
  BY DEF LoopType
<1>6. \A n \in DOMAIN loops : loops[n] \in LoopType
  BY LoopsAreTyped
<1>7. ASSUME NEW n \in DOMAIN loops
      PROVE  /\ Kept(loops[n], Cancelled[n])
             /\ Cancelled[n].cancelled = (loops[n].cancelled \/ n = taskCancel)
  <2>1. CASE n = taskCancel
    BY <1>1, <1>2, <1>6, <1>7, <2>1
  <2>2. CASE n # taskCancel
    BY <1>2, <1>5, <1>6, <1>7, <2>2 DEF Kept
  <2>. QED BY <2>1, <2>2
<1>. QED BY <1>4, <1>7

(* A restart cancels the loop before and adds one.                            *)
LEMMA RestartKeeps ==
  ASSUME SchedulerTypeOK, StartScheduler
  PROVE  /\ DOMAIN loops' = 1 .. Len(loops) + 1 /\ taskCancel' = Len(loops) + 1
         /\ loops'[Len(loops) + 1] = NewLoop
         /\ \A n \in DOMAIN loops : loops'[n] = Cancelled[n]
<1>1. loops \in Seq(LoopType) /\ Len(loops) \in Nat /\ DOMAIN loops = 1 .. Len(loops)
  BY LoopsAreTyped, SchedulerTypesAre DEF SchedulerTyped
<1>2. loops' \in Seq(LoopType)
  BY <1>1, RestartedLoops
<1>3. DOMAIN loops' = 1 .. Len(loops')
  BY <1>2
<1>. QED BY <1>1, <1>3, RestartedLoops

(* A loop that ends forgets its tick and what it has noted.                   *)
LEMMA EndedLoop ==
  ASSUME SchedulerTypeOK, NEW n \in DOMAIN loops, LoopEnds(n)
  PROVE  /\ DOMAIN loops' = DOMAIN loops
         /\ \A i \in DOMAIN loops : i # n => loops'[i] = loops[i]
         /\ loops'[n] = Ended /\ Ended.cancelled /\ Ended.ended /\ Ended.tick = Never
         /\ \A t \in Tasks : Ended.lastRun[t] = Never
<1>1. Ended.cancelled /\ Ended.ended /\ Ended.tick = Never /\ \A t \in Tasks : Ended.lastRun[t] = Never
  BY DEF Ended, NewLoop
<1>. QED BY <1>1 DEF LoopEnds

(* A loop notes what it starts, and waits for the next tick.                  *)
LEMMA TickedLoop ==
  ASSUME SchedulerTypeOK, NEW n \in DOMAIN loops, Tick(n)
  PROVE  /\ DOMAIN loops' = DOMAIN loops
         /\ \A i \in DOMAIN loops : i # n => loops'[i] = loops[i]
         /\ loops'[n].cancelled = loops[n].cancelled /\ loops'[n].ended = loops[n].ended
         /\ loops'[n].tick = Never
         /\ \A t \in Tasks : loops'[n].lastRun[t] =
              IF t \in Due(loops[n]) THEN RunKey(loops[n].tick) ELSE loops[n].lastRun[t]
<1> DEFINE last == [t \in Tasks |-> IF t \in Due(loops[n]) THEN RunKey(loops[n].tick) ELSE loops[n].lastRun[t]]
           loop == [loops[n] EXCEPT !.tick = Never, !.lastRun = last]
<1>1. loops' = [loops EXCEPT ![n].tick = Never, ![n].lastRun =
                  [t \in Tasks |-> IF t \in Due(loops[n]) THEN RunKey(loops[n].tick) ELSE @[t]]]
  BY DEF Tick, OnTick
<1>2. loops[n] \in LoopType
  BY LoopsAreTyped
<1>3. \A f : /\ [loops[n] EXCEPT !.tick = Never, !.lastRun = f].tick = Never
             /\ [loops[n] EXCEPT !.tick = Never, !.lastRun = f].lastRun = f
             /\ [loops[n] EXCEPT !.tick = Never, !.lastRun = f].cancelled = loops[n].cancelled
             /\ [loops[n] EXCEPT !.tick = Never, !.lastRun = f].ended = loops[n].ended
  BY <1>2 DEF LoopType
<1>4. loops' = [loops EXCEPT ![n] = loop]
  BY <1>1, <1>2 DEF LoopType
<1>5. loops'[n] = loop
  BY <1>4
<1>6. \A t \in Tasks : last[t] = IF t \in Due(loops[n]) THEN RunKey(loops[n].tick) ELSE loops[n].lastRun[t]
  OBVIOUS
<1> HIDE DEF last
<1>7. /\ loop.tick = Never /\ loop.lastRun = last /\ loop.cancelled = loops[n].cancelled
      /\ loop.ended = loops[n].ended
  BY <1>3
<1> HIDE DEF loop
<1>. QED BY <1>4, <1>5, <1>6, <1>7

(* A second gives a tick to the loops that wait for one.                      *)
LEMMA SecondOfLoops ==
  ASSUME SchedulerTypeOK, Second
  PROVE  /\ DOMAIN loops' = DOMAIN loops /\ clock' = clock + 1
         /\ clock' \in 0 .. MaxSeconds
         /\ \A n \in DOMAIN loops :
              /\ loops'[n].cancelled = loops[n].cancelled
              /\ loops'[n].ended = loops[n].ended /\ loops'[n].lastRun = loops[n].lastRun
              /\ loops'[n].tick = IF loops[n].ended \/ loops[n].tick # Never THEN loops[n].tick ELSE clock'
<1>1. \A n \in DOMAIN loops : loops[n] \in LoopType
  BY LoopsAreTyped
<1>2. \A l \in LoopType : \A s : /\ [l EXCEPT !.tick = s].cancelled = l.cancelled
                             /\ [l EXCEPT !.tick = s].ended = l.ended
                             /\ [l EXCEPT !.tick = s].lastRun = l.lastRun
                             /\ [l EXCEPT !.tick = s].tick = s
  BY DEF LoopType
<1>3. \A n \in DOMAIN loops : loops'[n] =
        IF loops[n].ended \/ loops[n].tick # Never THEN loops[n] ELSE [loops[n] EXCEPT !.tick = clock']
  BY DEF Second
<1>4. DOMAIN loops' = DOMAIN loops
  BY DEF Second
<1>. QED BY <1>1, <1>2, <1>3, <1>4, SecondTypes DEF Second

(* However loops overlap, at most one is not cancelled, and a stop cancels it.  *)
LEMMA OneLoopStep == SchedulerTypeOK /\ OneLoopRuns /\ [SchedulerNext]_schedulerVars => OneLoopRuns'
<1> SUFFICES ASSUME SchedulerTypeOK, OneLoopRuns, [SchedulerNext]_schedulerVars PROVE OneLoopRuns'
  OBVIOUS
<1>1. ASSUME NEW n \in DOMAIN loops, Tick(n) PROVE OneLoopRuns'
  <2>1. taskCancel' = taskCancel
    BY <1>1 DEF Tick, OnTick
  <2>. QED BY <1>1, <2>1, TickedLoop DEF OneLoopRuns
<1>2. ASSUME NEW n \in DOMAIN loops, LoopEnds(n) PROVE OneLoopRuns'
  <2>1. taskCancel' = taskCancel
    BY <1>2 DEF LoopEnds
  <2>. QED BY <1>2, <2>1, EndedLoop DEF OneLoopRuns
<1>3. ASSUME NEW k \in DOMAIN edits, RestartScheduler(k) PROVE OneLoopRuns'
  <2>1. StartScheduler
    BY <1>3 DEF RestartScheduler
  <2>2. \A n \in DOMAIN loops : loops'[n].cancelled
    BY <2>1, RestartKeeps, CancelledKeeps DEF OneLoopRuns
  <2>3. \A n \in DOMAIN loops' : n \in DOMAIN loops \/ n = taskCancel'
    BY <2>1, RestartKeeps, LoopsAreTyped
  <2>. QED BY <2>2, <2>3 DEF OneLoopRuns
<1>4. CASE StopScheduler
  BY <1>4, CancelledKeeps DEF StopScheduler, OneLoopRuns
<1>5. CASE Second
  BY <1>5, SecondOfLoops DEF Second, OneLoopRuns
<1>6. ASSUME UNCHANGED <<loops, taskCancel>> PROVE OneLoopRuns'
  BY <1>6 DEF OneLoopRuns
<1>. QED
  BY <1>1, <1>2, <1>3, <1>4, <1>5, <1>6
  DEF SchedulerNext, RunStep, RunScheduledTask, ClaimTask, LoadTask, TaskNotFound, SaveLastTime,
      RecordTaskLog, CreateScheduledTask, UpdateScheduledTask, DeleteScheduledTask, TidyLogs,
      ClearScheduledTaskLogs, schedulerVars

(* At most one loop is not cancelled, and it is the one a stop would cancel.  *)
THEOREM OneLoop == SchedulerSpec => []OneLoopRuns
<1>1. SchedulerInit => OneLoopRuns
  BY DEF SchedulerInit, OneLoopRuns
<1>. QED BY <1>1, OneLoopStep, SchedulerTypes, PTL DEF SchedulerSpec

-----------------------------------------------------------------------------
(* One loop starts a task once a minute: what a loop has noted of a task is the *)
(* latest key it was started for, and lies in no minute after that of the tick  *)
(* that waits, or of any that may come.                                       *)
NotesLie ==
  \A n \in DOMAIN loops :
    /\ loops[n].tick # Never => loops[n].tick <= clock
    /\ loops[n].ended => loops[n].tick = Never
    /\ \A t \in Tasks : loops[n].lastRun[t] # Never =>
         /\ loops[n].lastRun[t] <= RunKey(clock)
         /\ loops[n].tick # Never => loops[n].lastRun[t] <= RunKey(loops[n].tick)

StartsAreNoted ==
  \A r \in DOMAIN runs :
    runs[r].loop # 0 /\ ~loops[runs[r].loop].ended =>
      LET noted == loops[runs[r].loop].lastRun[runs[r].task] IN
      noted # Never /\ runs[r].key <= noted

KeysInv == NotesLie /\ StartsAreNoted /\ OncePerMinute

(* The loop of a run is one of the loops.                                     *)
LEMMA RunLoops ==
  ASSUME SchedulerTypeOK, NEW r \in DOMAIN runs
  PROVE  runs[r].key \in Nat /\ (runs[r].loop # 0 => runs[r].loop \in DOMAIN loops)
<1>1. \A x \in RunType(Len(loops)) : x.loop \in 0 .. Len(loops) /\ x.key \in Nat
  BY Seconds DEF RunType
<1>. QED BY <1>1, RunsAreTyped, LoopsAreTyped

(* A tick starts no task that its loop has noted for this minute.             *)
LEMMA KeysAfterTick ==
  ASSUME SchedulerTypeOK, KeysInv, NEW n \in DOMAIN loops, Tick(n)
  PROVE  KeysInv'
<1> DEFINE key == RunKey(loops[n].tick)
<1>1. UNCHANGED clock /\ clock \in Nat
  <2>1. clock \in Nat
    <3>1. clock \in 0 .. MaxSeconds
      BY SchedulerTypesAre DEF SchedulerTyped
    <3>. QED BY <3>1, SchedulerAssumption
  <2>2. UNCHANGED clock
    BY DEF Tick, OnTick
  <2>. QED BY <2>1, <2>2
<1>2. loops[n].tick \in 0 .. MaxSeconds /\ loops[n].tick <= clock /\ ~loops[n].ended
  <2>1. loops[n].tick \in 0 .. Never /\ loops[n].tick # Never
    BY LoopsAreTyped DEF Tick
  <2>. QED BY <2>1, SchedulerAssumption DEF KeysInv, NotesLie, Never
<1>3. key \in Nat /\ key # Never /\ key <= RunKey(clock)
  <2>1. key \in 0 .. MaxSeconds
    BY <1>2, KeyOfSecond
  <2>2. key <= RunKey(clock)
    BY <1>1, <1>2, KeysFollowTime
  <2>. QED BY <2>1, <2>2, Seconds
<1>4. \A t \in Tasks : /\ loops[n].lastRun[t] \in Nat
                       /\ loops[n].lastRun[t] # Never => loops[n].lastRun[t] <= key
  <2> TAKE t \in Tasks
  <2>1. loops[n].lastRun \in [Tasks -> 0 .. Never] /\ loops[n].tick # Never
    BY LoopsAreTyped DEF Tick
  <2>2. loops[n].lastRun[t] \in Nat
    BY <2>1, Seconds
  <2>. QED BY <2>1, <2>2 DEF KeysInv, NotesLie
<1>5. \A t \in Due(loops[n]) : t \in Tasks /\ loops[n].lastRun[t] # key
  BY DEF Due
<1>6. NotesLie'
  BY <1>1, <1>3, TickedLoop, LoopsAreTyped DEF KeysInv, NotesLie
<1>7. /\ DOMAIN runs' = 1 .. Len(runs') /\ DOMAIN runs = 1 .. Len(runs)
      /\ Len(runs) \in Nat
      /\ RunsStarted(Due(loops[n]), n, key)
  BY TickStarts, RunsAreTyped DEF RunsStarted
<1>8. \A i \in DOMAIN runs : i \in DOMAIN runs' /\ runs'[i] = runs[i]
  BY <1>7 DEF RunsStarted
<1>9. \A i \in DOMAIN runs' : i \notin DOMAIN runs =>
        /\ runs'[i].task \in Due(loops[n]) /\ runs'[i].loop = n /\ runs'[i].key = key
  <2> TAKE i \in DOMAIN runs'
  <2> HAVE i \notin DOMAIN runs
  <2>1. i > Len(runs)
    BY <1>7
  <2>2. runs'[i].task \in Due(loops[n]) /\ runs'[i] = NewRun(runs'[i].task, n, key)
    BY <1>7, <2>1 DEF RunsStarted
  <2>. QED BY <2>2 DEF NewRun
<1>10. \A i \in DOMAIN runs : runs[i].loop = n => runs[i].key < key \/ runs[i].task \notin Due(loops[n])
  <2> TAKE i \in DOMAIN runs
  <2> HAVE runs[i].loop = n
  <2>1. n # 0
    BY LoopsAreTyped
  <2>2. /\ loops[n].lastRun[runs[i].task] # Never
        /\ runs[i].key <= loops[n].lastRun[runs[i].task]
    BY <1>2, <2>1 DEF KeysInv, StartsAreNoted
  <2>3. runs[i].task \in Tasks /\ runs[i].key \in Nat
    BY RunsAreTyped, RunLoops
  <2>. QED BY <1>3, <1>4, <1>5, <2>2, <2>3
<1> HIDE DEF key
<1>11. StartsAreNoted'
  <2> SUFFICES ASSUME NEW i \in DOMAIN runs', runs'[i].loop # 0, ~loops'[runs'[i].loop].ended
               PROVE  /\ loops'[runs'[i].loop].lastRun[runs'[i].task] # Never
                      /\ runs'[i].key <= loops'[runs'[i].loop].lastRun[runs'[i].task]
    BY DEF StartsAreNoted
  <2>1. CASE i \notin DOMAIN runs
    <3>1. loops'[n].lastRun[runs'[i].task] = key
      BY <1>5, <1>9, <2>1, TickedLoop DEF key
    <3>. QED BY <1>3, <1>9, <2>1, <3>1
  <2>2. CASE i \in DOMAIN runs
    <3>1. runs[i].task \in Tasks /\ runs[i].key \in Nat /\ runs[i].loop \in DOMAIN loops
      BY <1>8, <2>2, RunsAreTyped, RunLoops
    <3>2. ~loops[runs[i].loop].ended
      BY <1>2, <1>8, <2>2, <3>1, TickedLoop
    <3>3. /\ loops[runs[i].loop].lastRun[runs[i].task] # Never
          /\ runs[i].key <= loops[runs[i].loop].lastRun[runs[i].task]
      BY <1>8, <2>2, <3>2 DEF KeysInv, StartsAreNoted
    <3>4. CASE runs[i].loop # n
      BY <1>8, <2>2, <3>1, <3>3, <3>4, TickedLoop
    <3>5. CASE runs[i].loop = n
      <4>1. \/ loops'[n].lastRun[runs[i].task] = key
            \/ loops'[n].lastRun[runs[i].task] = loops[n].lastRun[runs[i].task]
        BY <3>1, TickedLoop DEF key
      <4>2. runs[i].key <= key
        BY <1>3, <1>4, <3>1, <3>3, <3>5
      <4>. QED BY <1>3, <1>8, <2>2, <3>3, <3>5, <4>1, <4>2
    <3>. QED BY <3>4, <3>5
  <2>. QED BY <2>1, <2>2
<1>12. OncePerMinute'
  <2> SUFFICES ASSUME NEW i \in DOMAIN runs', NEW j \in DOMAIN runs', i # j,
                      runs'[i].task = runs'[j].task, runs'[i].loop = runs'[j].loop,
                      runs'[i].loop # 0
               PROVE  runs'[i].key # runs'[j].key
    BY DEF OncePerMinute
  <2>1. CASE i \in DOMAIN runs /\ j \in DOMAIN runs
    BY <1>8, <2>1 DEF KeysInv, OncePerMinute
  <2>2. CASE i \notin DOMAIN runs /\ j \notin DOMAIN runs
    BY <1>7, <2>2 DEF RunsStarted
  <2>3. CASE i \in DOMAIN runs /\ j \notin DOMAIN runs
    BY <1>3, <1>8, <1>9, <1>10, <2>3, RunLoops
  <2>4. CASE i \notin DOMAIN runs /\ j \in DOMAIN runs
    BY <1>3, <1>8, <1>9, <1>10, <2>4, RunLoops
  <2>. QED BY <2>1, <2>2, <2>3, <2>4
<1>. QED BY <1>6, <1>11, <1>12 DEF KeysInv
(* A step that starts no run and keeps what the loops have noted. *)
LEMMA KeysAfterLoops ==
  ASSUME SchedulerTypeOK, KeysInv, UNCHANGED <<runs, clock>>,
         DOMAIN loops \subseteq DOMAIN loops',
         \A n \in DOMAIN loops : Kept(loops[n], loops'[n]),
         \A n \in DOMAIN loops' : n \in DOMAIN loops \/ loops'[n] = NewLoop
  PROVE  KeysInv'
<1>1. ~NewLoop.ended /\ NewLoop.tick = Never /\ \A t \in Tasks : NewLoop.lastRun[t] = Never
  BY DEF NewLoop
<1>2. NotesLie'
  BY <1>1 DEF KeysInv, NotesLie, Kept
<1>3. StartsAreNoted'
  BY RunLoops DEF KeysInv, StartsAreNoted, Kept
<1>. QED BY <1>2, <1>3 DEF KeysInv, OncePerMinute

(* An ended loop starts nothing any more.                                     *)
LEMMA KeysAfterEnd ==
  ASSUME SchedulerTypeOK, KeysInv, NEW n \in DOMAIN loops, LoopEnds(n)
  PROVE  KeysInv'
<1>1. UNCHANGED <<runs, clock>>
  BY DEF LoopEnds
<1>2. NotesLie'
  BY <1>1, EndedLoop DEF KeysInv, NotesLie
<1>3. StartsAreNoted'
  BY <1>1, EndedLoop, RunLoops DEF KeysInv, StartsAreNoted
<1>. QED BY <1>1, <1>2, <1>3 DEF KeysInv, OncePerMinute

(* Time passes, and the notes of the loops stay behind it.                    *)
LEMMA KeysAfterSecond ==
  ASSUME SchedulerTypeOK, KeysInv, Second
  PROVE  KeysInv'
<1>1. /\ UNCHANGED runs /\ clock \in 0 .. MaxSeconds /\ clock' \in 0 .. MaxSeconds
      /\ clock <= clock'
  <2>1. clock \in 0 .. MaxSeconds
    BY SchedulerTypesAre DEF SchedulerTyped
  <2>2. clock' = clock + 1 /\ clock' \in 0 .. MaxSeconds
    BY SecondOfLoops
  <2>. QED BY <2>1, <2>2, SchedulerAssumption DEF Second
<1>2. RunKey(clock) \in Nat /\ RunKey(clock') \in Nat /\ RunKey(clock) <= RunKey(clock')
  <2>1. RunKey(clock) \in 0 .. MaxSeconds /\ RunKey(clock') \in 0 .. MaxSeconds
    BY <1>1, KeyOfSecond
  <2>. QED BY <1>1, <2>1, KeysFollowTime, SchedulerAssumption
<1>3. \A n \in DOMAIN loops, t \in Tasks : loops[n].lastRun[t] \in Nat
  <2> TAKE n \in DOMAIN loops, t \in Tasks
  <2>1. loops[n].lastRun \in [Tasks -> 0 .. Never]
    BY LoopsAreTyped
  <2>. QED BY <2>1, Seconds
<1>4. NotesLie'
  <2> SUFFICES ASSUME NEW n \in DOMAIN loops'
               PROVE  /\ loops'[n].tick # Never => loops'[n].tick <= clock'
                      /\ loops'[n].ended => loops'[n].tick = Never
                      /\ \A t \in Tasks : loops'[n].lastRun[t] # Never =>
                           /\ loops'[n].lastRun[t] <= RunKey(clock')
                           /\ loops'[n].tick # Never => loops'[n].lastRun[t] <= RunKey(loops'[n].tick)
    BY DEF NotesLie, RunKey, Never
  <2>1. n \in DOMAIN loops /\ loops[n].tick \in Nat
    BY SecondOfLoops, LoopsAreTyped, Seconds
  <2>2. CASE loops[n].ended \/ loops[n].tick # Never
    BY <1>1, <1>2, <1>3, <2>1, <2>2, SecondOfLoops DEF KeysInv, NotesLie
  <2>3. CASE ~(loops[n].ended \/ loops[n].tick # Never)
    BY <1>1, <1>2, <1>3, <2>1, <2>3, SecondOfLoops DEF KeysInv, NotesLie
  <2>. QED BY <2>2, <2>3
<1>5. StartsAreNoted'
  BY <1>1, SecondOfLoops, RunLoops DEF KeysInv, StartsAreNoted
<1>. QED BY <1>1, <1>4, <1>5 DEF KeysInv, OncePerMinute

(* The phase of a run is nothing to its loop.                                 *)
LEMMA KeysAfterMove ==
  ASSUME SchedulerTypeOK, KeysInv, NEW r \in DOMAIN runs, NEW to, OneRunMoved(r, to),
         UNCHANGED <<loops, clock>>
  PROVE  KeysInv'
<1>1. NotesLie'
  BY DEF KeysInv, NotesLie
<1>2. StartsAreNoted'
  BY MovedRuns DEF KeysInv, StartsAreNoted
<1>3. OncePerMinute'
  BY MovedRuns DEF KeysInv, OncePerMinute
<1>. QED BY <1>1, <1>2, <1>3 DEF KeysInv

(* Runs by users belong to no loop.                                           *)
LEMMA KeysAfterUser ==
  ASSUME SchedulerTypeOK, KeysInv, NEW t \in Tasks, RunScheduledTask(t)
  PROVE  KeysInv'
<1>1. UNCHANGED <<loops, clock>>
  BY DEF RunScheduledTask
<1>2. /\ DOMAIN runs' = 1 .. Len(runs') /\ DOMAIN runs = 1 .. Len(runs)
      /\ Len(runs) \in Nat /\ RunsStarted({t}, 0, Never)
  BY UserStartsRun, RunsAreTyped DEF RunsStarted
<1>3. \A i \in DOMAIN runs : i \in DOMAIN runs' /\ runs'[i] = runs[i]
  BY <1>2 DEF RunsStarted
<1>4. \A i \in DOMAIN runs' : i \notin DOMAIN runs => runs'[i].loop = 0
  <2> TAKE i \in DOMAIN runs'
  <2> HAVE i \notin DOMAIN runs
  <2>1. i > Len(runs)
    BY <1>2
  <2>2. runs'[i] = NewRun(runs'[i].task, 0, Never)
    BY <1>2, <2>1 DEF RunsStarted
  <2>. QED BY <2>2 DEF NewRun
<1>5. NotesLie' /\ StartsAreNoted'
  BY <1>1, <1>3, <1>4 DEF KeysInv, NotesLie, StartsAreNoted
<1>6. OncePerMinute'
  BY <1>3, <1>4 DEF KeysInv, OncePerMinute
<1>. QED BY <1>5, <1>6 DEF KeysInv

(* What each step of a run does to its phase. *)
LEMMA RunStepMoves ==
  ASSUME SchedulerTypeOK, NEW r \in DOMAIN runs, RunStep(r)
  PROVE  /\ \E to \in RunPhases : OneRunMoved(r, to)
         /\ UNCHANGED <<edits, loops, taskCancel, stopped, clock>>
<1>1. CASE ClaimTask(r)
  <2>1. Goes(r, "skipped") \/ Goes(r, "claimed")
    BY <1>1 DEF ClaimTask
  <2>. QED BY <1>1, <2>1, GoingMoves DEF ClaimTask, RunPhases
<1>2. CASE LoadTask(r)
  BY <1>2, LoadMoves DEF LoadTask, RunPhases
<1>3. CASE TaskNotFound(r)
  BY <1>3, ReleaseMoves DEF TaskNotFound, RunPhases
<1>4. CASE SaveLastTime(r)
  <2>1. OneRunMoved(r, "saved")
    BY <1>4, GoingMoves DEF SaveLastTime, RunPhases
  <2>. QED BY <1>4, <2>1 DEF SaveLastTime, RunPhases
<1>5. CASE RecordTaskLog(r)
  <2>1. Release(r) \/ Goes(r, "over")
    BY <1>5 DEF RecordTaskLog
  <2>2. OneRunMoved(r, "over")
    BY <2>1, ReleaseMoves, GoingMoves DEF RunPhases
  <2>. QED BY <1>5, <2>2 DEF RecordTaskLog, RunPhases
<1>. QED BY <1>1, <1>2, <1>3, <1>4, <1>5 DEF RunStep

(* Every step keeps KeysInv.                                                  *)
LEMMA KeysStep == SchedulerTypeOK /\ KeysInv /\ [SchedulerNext]_schedulerVars => KeysInv'
<1> SUFFICES ASSUME SchedulerTypeOK, KeysInv, [SchedulerNext]_schedulerVars PROVE KeysInv'
  OBVIOUS
<1>1. ASSUME NEW n \in DOMAIN loops, Tick(n) PROVE KeysInv'
  BY <1>1, KeysAfterTick
<1>2. ASSUME NEW n \in DOMAIN loops, LoopEnds(n) PROVE KeysInv'
  BY <1>2, KeysAfterEnd
<1>3. ASSUME NEW r \in DOMAIN runs, RunStep(r) PROVE KeysInv'
  BY <1>3, RunStepMoves, KeysAfterMove
<1>4. ASSUME NEW t \in Tasks, RunScheduledTask(t) PROVE KeysInv'
  BY <1>4, KeysAfterUser
<1>5. ASSUME NEW k \in DOMAIN edits, RestartScheduler(k) PROVE KeysInv'
  <2>1. StartScheduler /\ UNCHANGED <<runs, clock>>
    BY <1>5 DEF RestartScheduler
  <2>2. \A n \in DOMAIN loops : n \in DOMAIN loops' /\ Kept(loops[n], loops'[n])
    BY <2>1, RestartKeeps, CancelledKeeps, LoopsAreTyped
  <2>3. \A n \in DOMAIN loops' : n \in DOMAIN loops \/ loops'[n] = NewLoop
    BY <2>1, RestartKeeps, LoopsAreTyped
  <2>. QED BY <2>1, <2>2, <2>3, KeysAfterLoops
<1>6. CASE StopScheduler
  <2>1. loops' = Cancelled /\ UNCHANGED <<runs, clock>>
    BY <1>6 DEF StopScheduler
  <2>. QED BY <2>1, CancelledKeeps, KeysAfterLoops
<1>7. CASE Second
  BY <1>7, KeysAfterSecond
<1>8. ASSUME UNCHANGED <<runs, loops, clock>> PROVE KeysInv'
  BY <1>8 DEF KeysInv, NotesLie, StartsAreNoted, OncePerMinute
<1>. QED
  BY <1>1, <1>2, <1>3, <1>4, <1>5, <1>6, <1>7, <1>8
  DEF SchedulerNext, CreateScheduledTask, UpdateScheduledTask, DeleteScheduledTask, TidyLogs,
      ClearScheduledTaskLogs, schedulerVars

(* A loop starts a task once a minute, however late its ticks are. *)
THEOREM OneStartAMinute == SchedulerSpec => []OncePerMinute
<1>1. SchedulerInit => KeysInv
  BY DEF SchedulerInit, KeysInv, NotesLie, StartsAreNoted, OncePerMinute, NewLoop
<1>2. KeysInv => OncePerMinute
  BY DEF KeysInv
<1>. QED BY <1>1, <1>2, KeysStep, SchedulerTypes, PTL DEF SchedulerSpec

-----------------------------------------------------------------------------
(* A deleted task leaves no logs: when nothing of it is under way as it is       *)
(* deleted, a run that comes later finds neither its flag set nor the task, and  *)
(* ends without a log.                                                        *)
Harmless == {"started", "claimed", "over"}

GoneIsQuiet ==
  \A t \in Tasks \ outrun : ~Stored(t) =>
    \A r \in DOMAIN runs : runs[r].task = t => runs[r].phase \in Harmless

LogsInv == GoneIsQuiet /\ DeletedLeavesNoLogs

(* A run that has just been started has logged nothing.                       *)
LEMMA LogsAfterStarts ==
  ASSUME SchedulerTypeOK, LogsInv, NEW first, NEW n, NEW key, RunsStarted(first, n, key),
         UNCHANGED <<tasks, edits, taskLogs, outrun>>
  PROVE  LogsInv'
<1>1. DOMAIN runs = 1 .. Len(runs) /\ DOMAIN runs' = 1 .. Len(runs') /\ Len(runs) \in Nat
  BY RunsAreTyped DEF RunsStarted
<1>2. \A i \in DOMAIN runs' : (i \in DOMAIN runs /\ runs'[i] = runs[i]) \/ runs'[i].phase = "started"
  <2> TAKE i \in DOMAIN runs'
  <2>1. CASE i \in DOMAIN runs
    BY <1>1, <2>1 DEF RunsStarted
  <2>2. CASE i \notin DOMAIN runs
    <3>1. i > Len(runs)
      BY <1>1, <2>2
    <3>2. runs'[i] = NewRun(runs'[i].task, n, key)
      BY <1>1, <3>1 DEF RunsStarted
    <3>. QED BY <3>2 DEF NewRun
  <2>. QED BY <2>1, <2>2
<1>3. GoneIsQuiet'
  BY <1>2 DEF LogsInv, GoneIsQuiet, Stored, Harmless
<1>4. DeletedLeavesNoLogs'
  BY DEF LogsInv, DeletedLeavesNoLogs, Stored
<1>. QED BY <1>3, <1>4 DEF LogsInv

(* A run moves and neither a task nor a log is changed. *)
LEMMA LogsAfterMove ==
  ASSUME SchedulerTypeOK, LogsInv, NEW r \in DOMAIN runs, NEW to, OneRunMoved(r, to),
         UNCHANGED <<edits, taskLogs>>, outrun \subseteq outrun',
         \A t \in Tasks : Stored(t)' <=> Stored(t),
         \/ to \in Harmless
         \/ Stored(runs[r].task)
         \/ runs[r].task \in outrun'
         \/ runs[r].phase \notin Harmless
  PROVE  LogsInv'
<1>1. runs[r].task \in Tasks
  BY RunsAreTyped
<1>2. GoneIsQuiet'
  BY <1>1, MovedRuns DEF LogsInv, GoneIsQuiet
<1>3. DeletedLeavesNoLogs'
  BY DEF LogsInv, DeletedLeavesNoLogs
<1>. QED BY <1>2, <1>3 DEF LogsInv

(* Only a run of a task that exists, or was outrun, records a log.            *)
LEMMA LogsAfterRecord ==
  ASSUME SchedulerTypeOK, LogsInv, NEW r \in DOMAIN runs, RecordTaskLog(r)
  PROVE  LogsInv'
<1>1. OneRunMoved(r, "over") /\ runs[r].phase \notin Harmless
  <2>1. Release(r) \/ Goes(r, "over")
    BY DEF RecordTaskLog
  <2>2. OneRunMoved(r, "over")
    BY <2>1, ReleaseMoves, GoingMoves DEF RunPhases
  <2>. QED BY <2>2 DEF RecordTaskLog, Run, Harmless
<1>2. UNCHANGED <<tasks, edits, outrun>>
  BY DEF RecordTaskLog
<1>3. runs[r].task \in Tasks /\ (Stored(runs[r].task) \/ runs[r].task \in outrun)
  BY <1>1, RunsAreTyped DEF LogsInv, GoneIsQuiet
<1>4. \A t \in Tasks : t # runs[r].task => taskLogs'[t] = taskLogs[t]
  BY SchedulerTypesAre DEF RecordTaskLog, Logged, SchedulerTyped
<1>5. GoneIsQuiet'
  BY <1>1, <1>2, MovedRuns DEF LogsInv, GoneIsQuiet, Stored, Harmless
<1>6. DeletedLeavesNoLogs'
  BY <1>2, <1>3, <1>4 DEF LogsInv, DeletedLeavesNoLogs, Stored
<1>. QED BY <1>5, <1>6 DEF LogsInv

(* Every edit is one of a task.                                               *)
LEMMA EditsAreTyped ==
  ASSUME SchedulerTypeOK
  PROVE  /\ DOMAIN edits = 1 .. Len(edits) /\ Len(edits) \in Nat
         /\ \A k \in DOMAIN edits : edits[k] \in EditType /\ edits[k].task \in Tasks
<1>1. edits \in Seq(EditType)
  BY SchedulerTypesAre DEF SchedulerTyped
<1>2. \A e \in EditType : e.task \in Tasks
  BY DEF EditType
<1>. QED BY <1>1, <1>2

(* An accepted edit adds to the edits what its handler has yet to do.         *)
LEMMA AcceptedEdit ==
  ASSUME SchedulerTypeOK, NEW t \in Tasks, NEW todo \in {"logs", "restart"},
         Accept(t, todo)
  PROVE  /\ edits' # edits
         /\ \A k \in DOMAIN edits : k \in DOMAIN edits' /\ edits'[k] = edits[k]
         /\ \E k \in DOMAIN edits' : edits'[k].task = t /\ edits'[k].todo = todo
<1>1. DOMAIN edits = 1 .. Len(edits) /\ Len(edits) \in Nat
  BY EditsAreTyped
<1>2. /\ edits' \in Seq(EditType) /\ Len(edits') = Len(edits) + 1
      /\ \A k \in 1 .. Len(edits) : edits'[k] = edits[k]
      /\ edits'[Len(edits) + 1] = [task |-> t, todo |-> todo]
  BY AcceptTypes
<1>3. DOMAIN edits' = 1 .. Len(edits) + 1
  BY <1>2
<1>4. edits' # edits
  BY <1>1, <1>2
<1>5. \A k \in DOMAIN edits : k \in DOMAIN edits' /\ edits'[k] = edits[k]
  BY <1>1, <1>2, <1>3
<1>6. Len(edits) + 1 \in DOMAIN edits'
  BY <1>1, <1>3
<1>. QED BY <1>2, <1>4, <1>5, <1>6

(* A deleted task has its logs still to be removed.                           *)
LEMMA LogsAfterEdit ==
  ASSUME SchedulerTypeOK, LogsInv, NEW t \in Tasks,
         CreateScheduledTask(t) \/ UpdateScheduledTask(t) \/ DeleteScheduledTask(t)
  PROVE  LogsInv'
<1>1. UNCHANGED <<runs, taskLogs>> /\ \A s \in Tasks : s # t => tasks'[s] = tasks[s]
  BY SchedulerTypesAre DEF CreateScheduledTask, UpdateScheduledTask, DeleteScheduledTask,
     SchedulerTyped
<1>2. \A k \in DOMAIN edits : k \in DOMAIN edits' /\ edits'[k] = edits[k]
  BY AcceptedEdit DEF CreateScheduledTask, UpdateScheduledTask, DeleteScheduledTask
<1>3. CASE DeleteScheduledTask(t)
  <2>1. outrun \subseteq outrun'
    BY <1>3 DEF DeleteScheduledTask
  <2>2. t \in outrun' \/ \A r \in DOMAIN runs : runs[r].task = t => runs[r].phase = "over"
    BY <1>3 DEF DeleteScheduledTask
  <2>3. GoneIsQuiet'
    BY <1>1, <2>1, <2>2 DEF LogsInv, GoneIsQuiet, Stored, Harmless
  <2>4. \E k \in DOMAIN edits' : edits'[k].task = t /\ edits'[k].todo = "logs"
    BY <1>3, AcceptedEdit DEF DeleteScheduledTask
  <2>5. DeletedLeavesNoLogs'
    BY <1>1, <1>2, <2>1, <2>4 DEF LogsInv, DeletedLeavesNoLogs, Stored
  <2>. QED BY <2>3, <2>5 DEF LogsInv
<1>4. CASE CreateScheduledTask(t) \/ UpdateScheduledTask(t)
  <2>1. UNCHANGED outrun
    BY <1>4 DEF CreateScheduledTask, UpdateScheduledTask
  <2>2. tasks'[t] # Gone
    <3>1. tasks \in [Tasks -> TaskType]
      BY SchedulerTypesAre DEF SchedulerTyped
    <3>2. CASE CreateScheduledTask(t)
      <4>1. tasks'[t] = [enabled |-> TRUE, lastTime |-> 0]
        BY <3>1, <3>2 DEF CreateScheduledTask
      <4>. QED BY <4>1 DEF Gone
    <3>3. CASE UpdateScheduledTask(t)
      <4>1. tasks'[t] = [tasks[t] EXCEPT !.enabled = ~@]
        BY <3>1, <3>3 DEF UpdateScheduledTask
      <4>2. tasks[t] \in [enabled: BOOLEAN, lastTime: 0 .. MaxSeconds]
        BY <3>1, <3>3 DEF UpdateScheduledTask, Stored, TaskType
      <4>3. tasks'[t].lastTime \in 0 .. MaxSeconds
        BY <4>1, <4>2
      <4>. QED BY <4>3, SchedulerAssumption DEF Gone, Never
    <3>. QED BY <1>4, <3>2, <3>3
  <2>3. GoneIsQuiet'
    BY <1>1, <2>1, <2>2 DEF LogsInv, GoneIsQuiet, Stored
  <2>4. DeletedLeavesNoLogs'
    BY <1>1, <1>2, <2>1, <2>2 DEF LogsInv, DeletedLeavesNoLogs, Stored
  <2>. QED BY <2>3, <2>4 DEF LogsInv
<1>. QED BY <1>3, <1>4

(* The removal of the logs leaves none.                                       *)
LEMMA LogsAfterTidy ==
  ASSUME SchedulerTypeOK, LogsInv, NEW k \in DOMAIN edits,
         TidyLogs(k) \/ RestartScheduler(k)
  PROVE  LogsInv'
<1>1. UNCHANGED <<tasks, runs, outrun>>
  BY DEF TidyLogs, RestartScheduler
<1>2. edits[k].task \in Tasks /\ taskLogs \in [Tasks -> 0 .. LogLimit]
  BY EditsAreTyped, SchedulerTypesAre DEF SchedulerTyped
<1>3. \A i \in DOMAIN edits : i \in DOMAIN edits' /\ edits'[i].task = edits[i].task
                              /\ (i # k => edits'[i] = edits[i])
  BY EditsAreTyped DEF EditType, TidyLogs, RestartScheduler
<1>4. GoneIsQuiet'
  BY <1>1 DEF LogsInv, GoneIsQuiet, Stored
<1>5. CASE TidyLogs(k)
  <2>1. \A t \in Tasks : taskLogs'[t] = IF t = edits[k].task THEN 0 ELSE taskLogs[t]
    BY <1>2, <1>5 DEF TidyLogs
  <2>2. DeletedLeavesNoLogs'
    BY <1>1, <1>3, <2>1 DEF LogsInv, DeletedLeavesNoLogs, Stored
  <2>. QED BY <1>4, <2>2 DEF LogsInv
<1>6. CASE RestartScheduler(k)
  <2>1. UNCHANGED taskLogs /\ edits[k].todo # "logs"
    BY <1>6 DEF RestartScheduler
  <2>2. DeletedLeavesNoLogs'
    BY <1>1, <1>3, <2>1 DEF LogsInv, DeletedLeavesNoLogs, Stored
  <2>. QED BY <1>4, <2>2 DEF LogsInv
<1>. QED BY <1>5, <1>6
(* The end of a run writes the last time of its task, if that still exists.      *)
LEMMA SavedTasks ==
  ASSUME SchedulerTypeOK, NEW r \in DOMAIN runs, SaveLastTime(r)
  PROVE  \A t \in Tasks :
           \/ tasks'[t] = tasks[t]
           \/ /\ tasks[t] # Gone /\ tasks'[t] # Gone
              /\ tasks'[t].enabled = tasks[t].enabled /\ tasks'[t].lastTime = clock
<1>1. tasks \in [Tasks -> TaskType] /\ clock \in 0 .. MaxSeconds
  BY SchedulerTypesAre DEF SchedulerTyped
<1>2. CASE UNCHANGED tasks
  BY <1>2
<1>3. CASE tasks' = WithLastTime(r) /\ Stored(runs[r].task)
  <2> DEFINE s == runs[r].task
             saved == [tasks[s] EXCEPT !.lastTime = clock]
  <2>1. s \in Tasks
    BY RunsAreTyped
  <2>2. tasks[s] \in [enabled: BOOLEAN, lastTime: 0 .. MaxSeconds]
    BY <1>1, <1>3, <2>1 DEF Stored, TaskType
  <2>3. saved.enabled = tasks[s].enabled /\ saved.lastTime = clock
    BY <2>2
  <2>4. saved # Gone
    BY <1>1, <2>3, SchedulerAssumption DEF Gone, Never
  <2>5. tasks' = [tasks EXCEPT ![s] = saved]
    BY <1>3 DEF WithLastTime
  <2> HIDE DEF saved
  <2>. QED BY <1>1, <1>3, <2>1, <2>3, <2>4, <2>5 DEF Stored
<1>4. CASE tasks' = WithLastTime(r) /\ ~Stored(runs[r].task)
  BY <1>4 DEF WithLastTime
<1>. QED BY <1>2, <1>3, <1>4 DEF SaveLastTime

(* Every step keeps LogsInv.                                                  *)
LEMMA LogsStep == SchedulerTypeOK /\ LogsInv /\ [SchedulerNext]_schedulerVars => LogsInv'
<1> SUFFICES ASSUME SchedulerTypeOK, LogsInv, [SchedulerNext]_schedulerVars PROVE LogsInv'
  OBVIOUS
<1>1. ASSUME NEW n \in DOMAIN loops, Tick(n) PROVE LogsInv'
  <2>1. UNCHANGED <<tasks, edits, taskLogs, outrun>>
    BY <1>1 DEF Tick, OnTick
  <2>. QED BY <1>1, <2>1, TickStarts, LogsAfterStarts
<1>2. ASSUME NEW t \in Tasks, RunScheduledTask(t) PROVE LogsInv'
  <2>1. UNCHANGED <<tasks, edits, taskLogs, outrun>>
    BY <1>2 DEF RunScheduledTask
  <2>. QED BY <1>2, <2>1, UserStartsRun, LogsAfterStarts
<1>3. ASSUME NEW r \in DOMAIN runs, ClaimTask(r) PROVE LogsInv'
  <2>1. UNCHANGED <<tasks, edits, taskLogs>> /\ outrun \subseteq outrun'
    BY <1>3 DEF ClaimTask
  <2>2. CASE runningTask[runs[r].task]
    <3>1. OneRunMoved(r, "skipped") /\ (Stored(runs[r].task) \/ runs[r].task \in outrun')
      BY <1>3, <2>2, GoingMoves DEF ClaimTask, RunPhases
    <3>. QED BY <2>1, <3>1, LogsAfterMove DEF Stored
  <2>3. CASE ~runningTask[runs[r].task]
    <3>1. OneRunMoved(r, "claimed")
      BY <1>3, <2>3, GoingMoves DEF ClaimTask, RunPhases
    <3>. QED BY <2>1, <3>1, LogsAfterMove DEF Stored, Harmless
  <2>. QED BY <2>2, <2>3
<1>4. ASSUME NEW r \in DOMAIN runs, LoadTask(r) PROVE LogsInv'
  <2>1. UNCHANGED <<tasks, edits, taskLogs, outrun>> /\ Stored(runs[r].task)
    BY <1>4 DEF LoadTask
  <2>. QED BY <1>4, <2>1, LoadMoves, LogsAfterMove DEF Stored
<1>5. ASSUME NEW r \in DOMAIN runs, TaskNotFound(r) PROVE LogsInv'
  <2>1. UNCHANGED <<tasks, edits, taskLogs, outrun>> /\ Release(r)
    BY <1>5 DEF TaskNotFound
  <2>. QED BY <2>1, ReleaseMoves, LogsAfterMove DEF Stored, Harmless
<1>6. ASSUME NEW r \in DOMAIN runs, SaveLastTime(r) PROVE LogsInv'
  <2>1. UNCHANGED <<edits, taskLogs, outrun>> /\ runs[r].phase \notin Harmless
    BY <1>6 DEF SaveLastTime, Run, Harmless
  <2>2. OneRunMoved(r, "saved")
    BY <1>6, GoingMoves DEF SaveLastTime, RunPhases
  <2>3. \A t \in Tasks : Stored(t)' <=> Stored(t)
    BY <1>6, SavedTasks DEF Stored
  <2>. QED BY <2>1, <2>2, <2>3, LogsAfterMove
<1>7. ASSUME NEW r \in DOMAIN runs, RecordTaskLog(r) PROVE LogsInv'
  BY <1>7, LogsAfterRecord
<1>8. ASSUME NEW t \in Tasks,
             CreateScheduledTask(t) \/ UpdateScheduledTask(t) \/ DeleteScheduledTask(t)
      PROVE  LogsInv'
  BY <1>8, LogsAfterEdit
<1>9. ASSUME NEW k \in DOMAIN edits, TidyLogs(k) \/ RestartScheduler(k) PROVE LogsInv'
  BY <1>9, LogsAfterTidy
<1>10. CASE ClearScheduledTaskLogs
  BY <1>10 DEF ClearScheduledTaskLogs, LogsInv, GoneIsQuiet, DeletedLeavesNoLogs, Stored
<1>11. ASSUME UNCHANGED <<tasks, edits, runs, taskLogs, outrun>> PROVE LogsInv'
  BY <1>11 DEF LogsInv, GoneIsQuiet, DeletedLeavesNoLogs, Stored
<1>. QED
  BY <1>1, <1>2, <1>3, <1>4, <1>5, <1>6, <1>7, <1>8, <1>9, <1>10, <1>11
  DEF SchedulerNext, RunStep, LoopEnds, StopScheduler, Second, schedulerVars

(* A deleted task leaves no logs, unless something of it was under way.         *)
THEOREM NoLogsOfDeleted == SchedulerSpec => []DeletedLeavesNoLogs
<1>1. SchedulerInit => LogsInv
  <2> SUFFICES ASSUME SchedulerInit PROVE LogsInv
    OBVIOUS
  <2>1. runs = <<>> /\ \A t \in Tasks : taskLogs[t] = 0
    BY DEF SchedulerInit
  <2>. QED BY <2>1 DEF LogsInv, GoneIsQuiet, DeletedLeavesNoLogs
<1>2. LogsInv => DeletedLeavesNoLogs
  BY DEF LogsInv
<1>. QED BY <1>1, <1>2, LogsStep, SchedulerTypes, PTL DEF SchedulerSpec

-----------------------------------------------------------------------------
(* An edit and the end of a run keep what the other wrote: no task has run later *)
(* than now, and a run writes one field of a task that it has read again.        *)
NoneLater == \A t \in Tasks : Stored(t) => tasks[t].lastTime <= clock

(* Every step merges what it writes with what others wrote.                   *)
LEMMA MergeStep ==
  SchedulerTypeOK /\ NoneLater /\ [SchedulerNext]_schedulerVars =>
    /\ NoneLater'
    /\ \A t \in Tasks :
         /\ edits' = edits => tasks'[t].enabled = tasks[t].enabled /\ (Stored(t) <=> Stored(t)')
         /\ Stored(t) /\ Stored(t)' => tasks'[t].lastTime >= tasks[t].lastTime
<1> DEFINE Merges ==
      \A t \in Tasks :
         /\ edits' = edits => tasks'[t].enabled = tasks[t].enabled /\ (Stored(t) <=> Stored(t)')
         /\ Stored(t) /\ Stored(t)' => tasks'[t].lastTime >= tasks[t].lastTime
<1> SUFFICES ASSUME SchedulerTypeOK, NoneLater, [SchedulerNext]_schedulerVars
             PROVE  NoneLater' /\ Merges
  OBVIOUS
<1>1. tasks \in [Tasks -> TaskType] /\ clock \in Nat
  <2>1. tasks \in [Tasks -> TaskType] /\ clock \in 0 .. MaxSeconds
    BY SchedulerTypesAre DEF SchedulerTyped
  <2>. QED BY <2>1, SchedulerAssumption
<1>2. \A t \in Tasks : Stored(t) => tasks[t] \in [enabled: BOOLEAN, lastTime: 0 .. MaxSeconds] /\ tasks[t].lastTime \in Nat
  <2> TAKE t \in Tasks
  <2> HAVE Stored(t)
  <2>1. tasks[t] \in [enabled: BOOLEAN, lastTime: 0 .. MaxSeconds]
    BY <1>1 DEF Stored, TaskType
  <2>. QED BY <2>1, SchedulerAssumption
<1>3. ASSUME NEW r \in DOMAIN runs, SaveLastTime(r) PROVE NoneLater' /\ Merges
  BY <1>1, <1>2, <1>3, SavedTasks DEF SaveLastTime, NoneLater, Stored
<1>4. ASSUME NEW t \in Tasks, CreateScheduledTask(t) PROVE NoneLater' /\ Merges
  <2>1. edits' # edits /\ UNCHANGED clock
    BY <1>4, AcceptedEdit DEF CreateScheduledTask
  <2>2. ~Stored(t) /\ tasks'[t].lastTime = 0 /\ \A s \in Tasks : s # t => tasks'[s] = tasks[s]
    BY <1>1, <1>4 DEF CreateScheduledTask
  <2>. QED BY <1>1, <1>2, <2>1, <2>2 DEF NoneLater, Stored
<1>5. ASSUME NEW t \in Tasks, UpdateScheduledTask(t) PROVE NoneLater' /\ Merges
  <2>1. edits' # edits /\ UNCHANGED clock
    BY <1>5, AcceptedEdit DEF UpdateScheduledTask
  <2>2. Stored(t) /\ tasks'[t] = [tasks[t] EXCEPT !.enabled = ~@] /\ \A s \in Tasks : s # t => tasks'[s] = tasks[s]
    BY <1>1, <1>5 DEF UpdateScheduledTask
  <2>3. tasks'[t].lastTime = tasks[t].lastTime
    BY <1>2, <2>2
  <2>. QED BY <1>1, <1>2, <2>1, <2>2, <2>3 DEF NoneLater, Stored
<1>6. ASSUME NEW t \in Tasks, DeleteScheduledTask(t) PROVE NoneLater' /\ Merges
  <2>1. edits' # edits /\ UNCHANGED clock
    BY <1>6, AcceptedEdit DEF DeleteScheduledTask
  <2>2. tasks'[t] = Gone /\ \A s \in Tasks : s # t => tasks'[s] = tasks[s]
    BY <1>1, <1>6 DEF DeleteScheduledTask
  <2>. QED BY <1>1, <1>2, <2>1, <2>2 DEF NoneLater, Stored
<1>7. CASE Second
  <2>1. UNCHANGED tasks /\ clock' = clock + 1
    BY <1>7 DEF Second
  <2>. QED BY <1>1, <1>2, <2>1 DEF NoneLater, Stored
<1>8. ASSUME UNCHANGED <<tasks, clock>> PROVE NoneLater' /\ Merges
  BY <1>2, <1>8 DEF NoneLater, Stored
<1>. QED
  BY <1>3, <1>4, <1>5, <1>6, <1>7, <1>8
  DEF SchedulerNext, RunStep, Tick, OnTick, LoopEnds, RunScheduledTask, ClaimTask, LoadTask,
      TaskNotFound, RecordTaskLog, TidyLogs, RestartScheduler, ClearScheduledTaskLogs,
      StopScheduler, schedulerVars

(* Edits and the ends of runs do not undo each other. *)
THEOREM EditsMerge == SchedulerSpec => EditsAndRunsMerge
<1>1. SchedulerInit => NoneLater
  BY SchedulerAssumption DEF SchedulerInit, NoneLater
<1>2. SchedulerTypeOK /\ NoneLater /\ [SchedulerNext]_schedulerVars =>
        [\A t \in Tasks :
           /\ edits' = edits => tasks'[t].enabled = tasks[t].enabled /\ (Stored(t) <=> Stored(t)')
           /\ Stored(t) /\ Stored(t)' => tasks'[t].lastTime >= tasks[t].lastTime]_schedulerVars
  BY MergeStep
<1>3. SchedulerTypeOK /\ NoneLater /\ [SchedulerNext]_schedulerVars => NoneLater'
  BY MergeStep
<1>. QED BY <1>1, <1>2, <1>3, SchedulerTypes, PTL DEF SchedulerSpec, EditsAndRunsMerge

-----------------------------------------------------------------------------
(* The subscriptions and rule sets *)

Ops == {"create", "settings", "delete", "content", "refresh", "any"}
WritePhases == {"fetching", "writing", "saving", "removing", "over"}
EntryType == [settings: AllVersions, nodes: AllVersions]
ListType == [Sources -> EntryType]
CallType ==
  [op: Ops, id: Sources, kin: {Subscriptions, RuleSets}, phase: WritePhases,
   todo: SUBSET Sources, changed: SUBSET Sources, converted: SUBSET Sources,
   loaded: ListType, base: AllVersions, passed: BOOLEAN]
EditorType ==
  [id: Sources, revision: AllVersions, settings: AllVersions,
   content: AllVersions, passed: BOOLEAN]

SourcesTyped ==
  /\ listed \in ListType
  /\ content \in [Sources -> AllVersions] /\ revision \in [Sources -> AllVersions]
  /\ writes \in Seq(CallType) /\ Len(writes) <= MaxWrites
  /\ editor \in EditorType
  /\ torn \subseteq Sources

(* The types as the proofs use them are those of SourcesTypeOK.               *)
LEMMA TypesAre == SourcesTypeOK /\ Len(writes) <= MaxWrites <=> SourcesTyped
  BY DEF SourcesTypeOK, SourcesTyped, CallType, ListType, EntryType, EditorType, Ops,
     WritePhases

-----------------------------------------------------------------------------
(* Operators *)

(* The lists are two, and every source is in one of them. *)
LEMMA Kins ==
  /\ AnySource \in Sources
  /\ Subscriptions # RuleSets
  /\ \A i \in Sources : /\ Kin(i) \in {Subscriptions, RuleSets} /\ i \in Kin(i)
  /\ \A kin \in {Subscriptions, RuleSets} : /\ kin \subseteq Sources
                                            /\ \A i \in kin : Kin(i) = kin
<1>1. Sources # {}
  BY SourcesAssumption DEF Sources
<1>2. AnySource \in Sources
  BY <1>1 DEF AnySource
<1>. QED BY <1>2, SourcesAssumption DEF Sources, Kin

(* Versions are numbers. *)
LEMMA Numbers ==
  /\ MaxWrites \in Nat
  /\ None \in AllVersions /\ First \in AllVersions
  /\ \A v \in AllVersions : v \in Nat
  /\ \A n \in 1 .. MaxWrites : Version(n) \in AllVersions
  BY SourcesAssumption DEF None, First, AllVersions, Version

(* Entries are pairs. *)
LEMMA Entries ==
  /\ \A s, v \in AllVersions : Entry(s, v) \in EntryType /\ Entry(s, v).settings = s /\ Entry(s, v).nodes = v
  /\ \A e \in EntryType : /\ e.settings \in AllVersions /\ e.nodes \in AllVersions
                          /\ e = Entry(e.settings, e.nodes)
  /\ Unlisted \in EntryType
  BY Numbers DEF Entry, EntryType, Unlisted

(* A call that is over holds nothing. *)
LEMMA FinishedIs == Finished \in CallType /\ Finished.phase = "over" /\ Finished.phase \notin Held
<1>1. [i \in Sources |-> Unlisted] \in ListType
  BY Entries DEF ListType
<1>. QED BY <1>1, Kins, Numbers DEF Finished, CallType, Held, WritePhases, Ops

(* No editor is one that has not been passed. *)
LEMMA ClosedIs == Closed \in EditorType /\ ~Closed.passed
  BY Kins, Numbers DEF Closed, EditorType

(* Whoever edits has just looked, or looked when the editor was opened. *)
LEMMA EditorsAre ==
  ASSUME SourcesTyped, NEW e \in Editors
  PROVE  /\ e \in EditorType
         /\ \/ e = JustOpened(e.id) /\ Listed(e.id) /\ ~e.passed
            \/ e = editor /\ editor # Closed
<1>1. ASSUME NEW i \in Sources
      PROVE  JustOpened(i) \in EditorType /\ JustOpened(i).id = i /\ ~JustOpened(i).passed
  BY <1>1, Entries DEF JustOpened, SourcesTyped, ListType, EditorType
<1>. QED BY <1>1 DEF Editors, SourcesTyped

(* What a call is to begin with. *)
LEMMA CallIs ==
  ASSUME SourcesTyped, NEW op \in Ops, NEW i \in Sources, NEW phase \in WritePhases
  PROVE  Call(op, i, phase) \in CallType
  BY Kins, Numbers DEF Call, CallType, SourcesTyped

-----------------------------------------------------------------------------
(* What a step does to the calls *)

Begun(w) ==
  /\ Free(w.kin)
  /\ w \in CallType /\ Len(writes) + 1 \in 1 .. MaxWrites
  /\ writes' \in Seq(CallType) /\ Len(writes') = Len(writes) + 1
  /\ \A n \in 1 .. Len(writes) : writes'[n] = writes[n]
  /\ writes'[Len(writes) + 1] = w

(* Begin adds a call. *)
LEMMA BeginBegins ==
  ASSUME SourcesTyped, NEW w \in CallType, Begin(w)
  PROVE  Begun(w)
<1>1. /\ writes \in Seq(CallType) /\ Len(writes) \in Nat /\ Len(writes) < MaxWrites
      /\ writes' = Append(writes, w)
  BY DEF SourcesTyped, Begin
<1>. QED BY <1>1, Numbers, AppendProperties DEF Begun, Begin

Turned(n, w) ==
  /\ w \in CallType
  /\ writes' \in Seq(CallType) /\ Len(writes') = Len(writes)
  /\ \A m \in 1 .. Len(writes) : m # n => writes'[m] = writes[m]
  /\ writes'[n] = w

(* Turns changes one. *)
LEMMA TurnTurns ==
  ASSUME SourcesTyped, NEW n \in DOMAIN writes, NEW w \in CallType, Turns(n, w)
  PROVE  Turned(n, w)
<1>1. writes \in Seq(CallType) /\ n \in 1 .. Len(writes)
  BY DEF SourcesTyped
<1>. QED BY <1>1, ExceptSeq DEF Turned, Turns

(* Calls have their type and are at most MaxWrites. *)
LEMMA CallsAre ==
  ASSUME SourcesTyped
  PROVE  /\ DOMAIN writes = 1 .. Len(writes) /\ Len(writes) \in 0 .. MaxWrites
         /\ \A n \in DOMAIN writes : writes[n] \in CallType /\ n \in 1 .. MaxWrites
  BY Numbers DEF SourcesTyped

(* The fields of a call. *)
Has(w, op, i, kin, phase, todo, changed, converted, loaded, base, passed) ==
  /\ w.op = op /\ w.id = i /\ w.kin = kin /\ w.phase = phase
  /\ w.todo = todo /\ w.changed = changed /\ w.converted = converted
  /\ w.loaded = loaded /\ w.base = base /\ w.passed = passed

(* What the next call writes. *)
LEMMA NextVersionIs ==
  ASSUME SourcesTyped, Len(writes) < MaxWrites
  PROVE  NextVersion = Version(Len(writes) + 1) /\ NextVersion \in AllVersions
  BY CallsAre, Numbers DEF NextVersion

(* What an edit is to begin with. *)
LEMMA EditIs ==
  ASSUME SourcesTyped, NEW op \in Ops, NEW e \in EditorType, NEW phase \in WritePhases,
         NEW base \in AllVersions
  PROVE  /\ Edit(op, e, phase, base) \in CallType
         /\ Has(Edit(op, e, phase, base), op, e.id, Kin(e.id), phase, {}, {e.id}, {}, listed, base, e.passed)
<1>1. e.id \in Sources /\ e.passed \in BOOLEAN
  BY DEF EditorType
<1>2. Call(op, e.id, phase) \in CallType
  BY <1>1, CallIs
<1>3. Edit(op, e, phase, base) \in CallType
  BY <1>1, <1>2 DEF Edit, CallType
<1>. QED BY <1>3 DEF Edit, Call, Has

(* The list that a call has loaded and changed. *)
LEMMA Loading ==
  ASSUME NEW w \in CallType, NEW i \in Sources, NEW e \in EntryType
  PROVE  /\ [w.loaded EXCEPT ![i] = e] \in ListType
         /\ [w EXCEPT !.loaded[i] = e] \in CallType
         /\ \A op, j, kin, phase, todo, changed, converted, loaded, base, passed :
              Has(w, op, j, kin, phase, todo, changed, converted, loaded, base, passed) =>
                Has([w EXCEPT !.loaded[i] = e], op, j, kin, phase, todo, changed, converted,
                    [loaded EXCEPT ![i] = e], base, passed)
<1>1. [w.loaded EXCEPT ![i] = e] \in ListType
  BY DEF CallType, ListType
<1>2. [w EXCEPT !.loaded[i] = e] \in CallType
  BY <1>1 DEF CallType
<1>. QED BY <1>1, <1>2 DEF Has, CallType

(* What the calls begin with. *)
LEMMA CreateBegins ==
  ASSUME SourcesTyped, NEW i \in Sources, Create(i)
  PROVE  \E w : /\ Begun(w)
                /\ Has(w, "create", i, Kin(i), "saving", {}, {i}, {},
                       [listed EXCEPT ![i] = Entry(NextVersion, None)], None, FALSE)
<1> DEFINE w == [Call("create", i, "saving") EXCEPT
                   !.changed = {i}, !.loaded[i] = Entry(NextVersion, None)]
<1>1. Len(writes) < MaxWrites /\ Begin(w)
  BY DEF Create, Begin
<1>2. Entry(NextVersion, None) \in EntryType
  BY <1>1, NextVersionIs, Numbers, Entries
<1>3. Call("create", i, "saving") \in CallType
  BY CallIs DEF Ops, WritePhases
<1>4. w \in CallType
  BY <1>2, <1>3 DEF CallType, ListType
<1>5. Has(w, "create", i, Kin(i), "saving", {}, {i}, {},
          [listed EXCEPT ![i] = Entry(NextVersion, None)], None, FALSE)
  BY DEF Has, Call
<1>. QED BY <1>1, <1>4, <1>5, BeginBegins

LEMMA SettingsBegin ==
  ASSUME SourcesTyped, NEW e \in EditorType, EditSettings(e)
  PROVE  \E w : /\ Begun(w)
                /\ Has(w, "settings", e.id, Kin(e.id), "saving", {}, {e.id}, {},
                       [listed EXCEPT ![e.id] = Entry(NextVersion, listed[e.id].nodes)],
                       e.settings, e.passed)
<1> DEFINE r == Edit("settings", e, "saving", e.settings)
           w == [r EXCEPT !.loaded[e.id].settings = NextVersion]
<1>1. e.id \in Sources /\ e.settings \in AllVersions /\ e.passed \in BOOLEAN
  BY DEF EditorType
<1>2. Len(writes) < MaxWrites /\ Begin(w)
  BY DEF EditSettings, Begin
<1>3. /\ r \in CallType
      /\ Has(r, "settings", e.id, Kin(e.id), "saving", {}, {e.id}, {}, listed, e.settings, e.passed)
  BY <1>1, EditIs DEF Ops, WritePhases
<1>4. /\ Entry(NextVersion, listed[e.id].nodes) \in EntryType
      /\ [listed[e.id] EXCEPT !.settings = NextVersion] = Entry(NextVersion, listed[e.id].nodes)
  BY <1>1, <1>2, NextVersionIs, Entries DEF SourcesTyped, ListType, EntryType, Entry
<1>5. w = [r EXCEPT !.loaded[e.id] = Entry(NextVersion, listed[e.id].nodes)]
  BY <1>3, <1>4 DEF Has
<1>6. /\ w \in CallType
      /\ Has(w, "settings", e.id, Kin(e.id), "saving", {}, {e.id}, {},
             [listed EXCEPT ![e.id] = Entry(NextVersion, listed[e.id].nodes)],
             e.settings, e.passed)
  BY <1>1, <1>3, <1>4, <1>5, Loading
<1>. QED BY <1>2, <1>6, BeginBegins

LEMMA DeleteBegins ==
  ASSUME SourcesTyped, NEW e \in EditorType, Delete(e)
  PROVE  \E w : /\ Begun(w)
                /\ Has(w, "delete", e.id, Kin(e.id), "saving", {}, {e.id}, {},
                       [listed EXCEPT ![e.id] = Unlisted], e.settings, e.passed)
<1> DEFINE r == Edit("delete", e, "saving", e.settings)
           w == [r EXCEPT !.loaded[e.id] = Unlisted]
<1>1. e.id \in Sources /\ e.settings \in AllVersions
  BY DEF EditorType
<1>2. Begin(w)
  BY DEF Delete
<1>3. /\ r \in CallType
      /\ Has(r, "delete", e.id, Kin(e.id), "saving", {}, {e.id}, {}, listed, e.settings, e.passed)
  BY <1>1, EditIs DEF Ops, WritePhases
<1>4. /\ w \in CallType
      /\ Has(w, "delete", e.id, Kin(e.id), "saving", {}, {e.id}, {},
             [listed EXCEPT ![e.id] = Unlisted], e.settings, e.passed)
  BY <1>1, <1>3, Entries, Loading
<1>. QED BY <1>2, <1>4, BeginBegins

LEMMA ContentBegins ==
  ASSUME SourcesTyped, NEW e \in EditorType, EditContent(e)
  PROVE  \E w : /\ Begun(w)
                /\ Has(w, "content", e.id, Kin(e.id), "writing", {}, {e.id}, {}, listed,
                       e.content, e.passed)
<1> DEFINE w == Edit("content", e, "writing", e.content)
<1>1. e.content \in AllVersions
  BY DEF EditorType
<1>2. Begin(w)
  BY DEF EditContent
<1>3. /\ w \in CallType
      /\ Has(w, "content", e.id, Kin(e.id), "writing", {}, {e.id}, {}, listed, e.content, e.passed)
  BY <1>1, EditIs DEF Ops, WritePhases
<1>. QED BY <1>2, <1>3, BeginBegins

LEMMA FetchBegins ==
  ASSUME SourcesTyped, NEW kin \in {Subscriptions, RuleSets}, NEW ids \in SUBSET kin,
         Fetch(ids, kin)
  PROVE  \E i \in ids : \E w :
           /\ Begun(w)
           /\ Has(w, "refresh", i, kin, "fetching", ids, {}, {}, listed, None, FALSE)
<1>1. PICK i \in ids : i = CHOOSE j \in ids : TRUE
  BY DEF Fetch
<1> DEFINE w == [Call("refresh", i, "fetching") EXCEPT !.todo = ids, !.kin = kin]
<1>2. Begin(w)
  BY <1>1 DEF Fetch
<1>3. ids \subseteq Sources /\ Call("refresh", i, "fetching") \in CallType
  BY Kins, CallIs DEF Ops, WritePhases
<1>4. w \in CallType
  BY <1>3 DEF CallType
<1>5. Has(w, "refresh", i, kin, "fetching", ids, {}, {}, listed, None, FALSE)
  BY DEF Has, Call
<1>. QED BY <1>2, <1>4, <1>5, BeginBegins

-----------------------------------------------------------------------------
(* What the call n that holds a mutex knows, w, when the list is l, the contents *)
(* are c and the revisions are r. *)

Touches(w) ==
  /\ w.kin = Kin(w.id)
  /\ w.todo \subseteq w.kin /\ w.changed \subseteq w.kin

(* Nothing of its kin is as new as what it writes, but what it has written. *)
Older(n, w, l, c, r) ==
  \A i \in w.kin :
    /\ c[i] <= n \/ c[i] = Version(n)
    /\ w.phase # "removing" => l[i].settings <= n /\ l[i].nodes <= n /\ r[i] <= n

EditSaves(n, w, l, c) ==
  \/ /\ w.op = "create" /\ w.phase = "saving"
     /\ l[w.id] = Unlisted /\ w.loaded[w.id] = Entry(Version(n), None)
  \/ /\ w.op = "settings" /\ w.phase = "saving"
     /\ l[w.id] # Unlisted /\ w.loaded[w.id] = Entry(Version(n), l[w.id].nodes)
  \/ /\ w.op = "delete" /\ w.phase = "saving"
     /\ l[w.id] # Unlisted /\ w.loaded[w.id] = Unlisted
  \/ /\ w.op = "delete" /\ w.phase = "removing"
     /\ l[w.id] = Unlisted /\ w.id \in Subscriptions
  \/ /\ w.op = "content" /\ w.phase = "writing"
     /\ l[w.id] # Unlisted /\ w.loaded[w.id] = l[w.id]
  \/ /\ w.op = "content" /\ w.phase = "saving" /\ c[w.id] = Version(n)
     /\ l[w.id] # Unlisted /\ w.loaded[w.id] = Entry(l[w.id].settings, Version(n))

OneEdit(n, w, l, c) ==
  /\ w.changed = {w.id}
  /\ \A i \in w.kin \ {w.id} : w.loaded[i] = l[i] /\ c[i] <= n
  /\ c[w.id] = Version(n) => w.op = "content" /\ w.phase = "saving"
  /\ EditSaves(n, w, l, c)

(* The sources whose entries in memory a refresh has brought in line with files. *)
Aligned(w) == w.changed \ w.converted

Refreshing(n, w, l, c) ==
  /\ w.op = "refresh" /\ w.phase \in {"fetching", "writing"}
  /\ w.phase = "writing" => w.id \in w.todo
  /\ w.todo \cap w.changed = {} /\ w.converted \subseteq w.changed
  /\ \A i \in w.todo \cup w.changed : l[i] # Unlisted
  /\ \A i \in w.kin :
       /\ w.loaded[i].settings \in {l[i].settings, Version(n)}
       /\ i \in Aligned(w) => w.loaded[i].nodes = c[i]
       /\ i \notin Aligned(w) => /\ w.loaded[i].nodes \in {l[i].nodes, Version(n), c[i]}
                               /\ c[i] <= n
       /\ l[i] = Unlisted => w.loaded[i] = l[i]

Knows(n, w, l, c, r) ==
  Touches(w) /\ Older(n, w, l, c, r) /\ (OneEdit(n, w, l, c) \/ Refreshing(n, w, l, c))

(* A call knows only about its kin. *)
LEMMA KnowsItsKin ==
  ASSUME NEW n \in Nat, NEW w \in CallType, NEW l, NEW c, NEW r, NEW k, NEW d, NEW q,
         \A i \in w.kin : k[i] = l[i] /\ d[i] = c[i] /\ q[i] = r[i],
         Knows(n, w, l, c, r)
  PROVE  Knows(n, w, k, d, q)
<1>1. w.kin = Kin(w.id) /\ w.id \in w.kin
  BY Kins DEF Knows, Touches, CallType
<1>2. Touches(w) /\ Older(n, w, k, d, q)
  BY DEF Knows, Touches, Older
<1>3. CASE OneEdit(n, w, l, c)
  BY <1>1, <1>2, <1>3 DEF Knows, OneEdit, EditSaves
<1>4. CASE Refreshing(n, w, l, c)
  BY <1>1, <1>2, <1>4 DEF Knows, Touches, Refreshing
<1>. QED BY <1>3, <1>4 DEF Knows

(* Nothing of a kin is newer than the calls before n. *)
Before(n, kin, l, c, r) ==
  \A i \in kin : l[i].settings <= n /\ l[i].nodes <= n /\ c[i] <= n /\ r[i] <= n

(* What calls know when they begin. *)
LEMMA EditsKnow ==
  ASSUME NEW n \in Nat, NEW w \in CallType, NEW i \in Sources,
         NEW l \in ListType, NEW c \in [Sources -> AllVersions], NEW d \in [Sources -> AllVersions],
         NEW r \in [Sources -> AllVersions], NEW base, NEW passed,
         Before(n, Kin(i), l, c, r),
         \/ /\ l[i] = Unlisted /\ d = c
            /\ Has(w, "create", i, Kin(i), "saving", {}, {i}, {},
                   [l EXCEPT ![i] = Entry(Version(n), None)], base, passed)
         \/ /\ l[i] # Unlisted /\ d = c
            /\ Has(w, "settings", i, Kin(i), "saving", {}, {i}, {},
                   [l EXCEPT ![i] = Entry(Version(n), l[i].nodes)], base, passed)
         \/ /\ l[i] # Unlisted /\ d \in {c, [c EXCEPT ![i] = None]}
            /\ Has(w, "delete", i, Kin(i), "saving", {}, {i}, {}, [l EXCEPT ![i] = Unlisted], base, passed)
         \/ /\ l[i] # Unlisted /\ d = c
            /\ Has(w, "content", i, Kin(i), "writing", {}, {i}, {}, l, base, passed)
  PROVE  Knows(n, w, l, d, r)
<1>1. /\ w.id = i /\ w.kin = Kin(i) /\ w.todo = {} /\ w.changed = {i}
      /\ w.phase # "removing"
      /\ i \in Kin(i) /\ Kin(i) \subseteq Sources
  BY Kins DEF Has
<1>2. \A j \in Kin(i) : d[j] <= n
  BY <1>1, Numbers DEF Before, None
<1>3. Touches(w)
  BY <1>1 DEF Touches
<1>4. Older(n, w, l, d, r)
  BY <1>1, <1>2 DEF Older, Before
<1>5. \A j \in Kin(i) \ {i} : w.loaded[j] = l[j]
  BY <1>1 DEF Has, ListType
<1>6. EditSaves(n, w, l, d)
  BY <1>1 DEF EditSaves, Has, ListType
<1>7. d[i] # Version(n)
  BY <1>1, <1>2, Numbers DEF Version
<1>. QED BY <1>1, <1>2, <1>3, <1>4, <1>5, <1>6, <1>7 DEF Knows, OneEdit

LEMMA RefreshKnows ==
  ASSUME NEW n \in Nat, NEW w \in CallType, NEW kin \in {Subscriptions, RuleSets},
         NEW i \in kin,
         NEW l \in ListType, NEW c \in [Sources -> AllVersions], NEW r \in [Sources -> AllVersions],
         NEW ids \in SUBSET kin, \A j \in ids : l[j] # Unlisted, NEW base, NEW passed,
         Before(n, kin, l, c, r),
         Has(w, "refresh", i, kin, "fetching", ids, {}, {}, l, base, passed)
  PROVE  Knows(n, w, l, c, r)
<1>1. /\ w.id = i /\ w.kin = kin /\ kin = Kin(i) /\ kin \subseteq Sources
      /\ w.op = "refresh" /\ w.phase = "fetching" /\ w.todo = ids /\ w.changed = {}
      /\ w.loaded = l /\ w.converted = {}
  BY Kins DEF Has
<1>2. Touches(w) /\ Older(n, w, l, c, r)
  BY <1>1 DEF Touches, Older, Before
<1>3. Refreshing(n, w, l, c)
  BY <1>1 DEF Refreshing, Aligned, Before
<1>. QED BY <1>2, <1>3 DEF Knows

(* What it knows when the entry of a source it refreshes, in memory, is changed. *)
LEMMA DoneKnows ==
  ASSUME NEW n \in Nat, NEW w \in CallType, NEW v \in CallType,
         NEW l \in ListType, NEW c \in [Sources -> AllVersions], NEW r,
         NEW i \in w.todo, NEW e \in EntryType, NEW ids \in {{}, {i}},
         NEW scripted \in {{}, {i}}, scripted \subseteq ids,
         Knows(n, w, l, c, r), w.phase = "fetching",
         e.settings \in {l[i].settings, Version(n)},
         e.nodes \in {l[i].nodes, Version(n), c[i]},
         ids # scripted => e.nodes = c[i],
         Has(v, w.op, w.id, w.kin, "fetching", w.todo \ {i}, w.changed \cup ids,
             w.converted \cup scripted, [w.loaded EXCEPT ![i] = e], w.base, w.passed)
  PROVE  Knows(n, v, l, c, r)
<1>1. Refreshing(n, w, l, c) /\ Touches(w) /\ Older(n, w, l, c, r)
  BY DEF Knows, OneEdit, EditSaves
<1>2. /\ v.op = w.op /\ v.id = w.id /\ v.kin = w.kin /\ v.phase = "fetching"
      /\ v.todo = w.todo \ {i} /\ v.changed = w.changed \cup ids
      /\ v.converted = w.converted \cup scripted
      /\ v.loaded = [w.loaded EXCEPT ![i] = e] /\ w.loaded \in ListType
  BY DEF Has, CallType
<1>3. i \in w.kin /\ w.kin \subseteq Sources /\ l[i] # Unlisted /\ i \notin w.changed
  BY <1>1, Kins DEF Refreshing, Touches, CallType
<1>4. Touches(v)
  BY <1>1, <1>2, <1>3 DEF Touches
<1>5. Older(n, v, l, c, r)
  BY <1>1, <1>2 DEF Older
<1>6. \A j \in w.kin : v.loaded[j] = IF j = i THEN e ELSE w.loaded[j]
  BY <1>2, <1>3 DEF ListType
<1>7. /\ \A j \in w.kin \ {i} : j \in Aligned(v) <=> j \in Aligned(w)
      /\ i \notin Aligned(w) /\ (i \in Aligned(v) => ids # scripted)
      /\ v.converted \subseteq v.changed
  BY <1>1, <1>2, <1>3 DEF Refreshing, Aligned
<1>8. v.todo \cap v.changed = {} /\ v.todo \cup v.changed \subseteq w.todo \cup w.changed
  BY <1>1, <1>2 DEF Refreshing
<1>9. Refreshing(n, v, l, c)
  BY <1>1, <1>2, <1>3, <1>6, <1>7, <1>8 DEF Refreshing
<1>. QED BY <1>4, <1>5, <1>9 DEF Knows

LEMMA DownloadedKnows ==
  ASSUME NEW n \in Nat, NEW w \in CallType, NEW v \in CallType,
         NEW l \in ListType, NEW c \in [Sources -> AllVersions], NEW r,
         NEW i \in w.todo, NEW e \in EntryType,
         Knows(n, w, l, c, r), w.phase = "fetching",
         e.settings \in {l[i].settings, Version(n)}, e.nodes = Version(n),
         Has(v, w.op, i, w.kin, "writing", w.todo, w.changed, w.converted,
             [w.loaded EXCEPT ![i] = e], w.base, w.passed)
  PROVE  Knows(n, v, l, c, r)
<1>1. Refreshing(n, w, l, c) /\ Touches(w) /\ Older(n, w, l, c, r)
  BY DEF Knows, OneEdit, EditSaves
<1>2. /\ v.op = w.op /\ v.id = i /\ v.kin = w.kin /\ v.phase = "writing"
      /\ v.todo = w.todo /\ v.changed = w.changed /\ v.converted = w.converted
      /\ v.loaded = [w.loaded EXCEPT ![i] = e] /\ w.loaded \in ListType
  BY DEF Has, CallType
<1>3. /\ i \in w.kin /\ w.kin \subseteq Sources /\ Kin(i) = w.kin /\ l[i] # Unlisted
      /\ i \notin w.changed
  BY <1>1, Kins DEF Refreshing, Touches, CallType
<1>4. Touches(v)
  BY <1>1, <1>2, <1>3 DEF Touches
<1>5. Older(n, v, l, c, r)
  BY <1>1, <1>2 DEF Older
<1>6. \A j \in w.kin : v.loaded[j] = IF j = i THEN e ELSE w.loaded[j]
  BY <1>2, <1>3 DEF ListType
<1>7. Refreshing(n, v, l, c)
  BY <1>1, <1>2, <1>3, <1>6 DEF Refreshing, Aligned
<1>. QED BY <1>4, <1>5, <1>7 DEF Knows

(* ... when the file of a source is written ... *)
LEMMA WrittenKnows ==
  ASSUME NEW n \in Nat, NEW w \in CallType, NEW v \in CallType,
         Version(n) \in AllVersions,
         NEW l \in ListType, NEW c \in [Sources -> AllVersions], NEW r,
         Knows(n, w, l, c, r), w.phase = "writing",
         Has(v, w.op, w.id, w.kin, IF w.op = "refresh" THEN "fetching" ELSE "saving",
             w.todo \ {w.id}, w.changed \cup {w.id}, w.converted,
             [w.loaded EXCEPT ![w.id] = Entry(w.loaded[w.id].settings, Version(n))],
             w.base, w.passed)
  PROVE  Knows(n, v, l, [c EXCEPT ![w.id] = Version(n)], r)
<1> DEFINE d == [c EXCEPT ![w.id] = Version(n)]
           e == Entry(w.loaded[w.id].settings, Version(n))
<1>1. /\ v.op = w.op /\ v.id = w.id /\ v.kin = w.kin
      /\ v.phase = IF w.op = "refresh" THEN "fetching" ELSE "saving"
      /\ v.todo = w.todo \ {w.id} /\ v.changed = w.changed \cup {w.id}
      /\ v.converted = w.converted
      /\ v.loaded = [w.loaded EXCEPT ![w.id] = e] /\ w.loaded \in ListType
  BY DEF Has, CallType
<1>2. /\ Touches(w) /\ Older(n, w, l, c, r)
      /\ w.id \in w.kin /\ w.kin \subseteq Sources /\ w.kin = Kin(w.id)
  BY Kins DEF Knows, Touches, CallType
<1>3. \A j \in w.kin : /\ v.loaded[j] = IF j = w.id THEN e ELSE w.loaded[j]
                       /\ d[j] = IF j = w.id THEN Version(n) ELSE c[j]
  BY <1>1, <1>2 DEF ListType
<1>4. e.settings = w.loaded[w.id].settings /\ e.nodes = Version(n)
  BY DEF Entry
<1>5. Touches(v)
  BY <1>1, <1>2 DEF Touches
<1>6. Older(n, v, l, d, r)
  BY <1>1, <1>2, <1>3 DEF Older
<1>7. CASE OneEdit(n, w, l, c)
  <2>1. /\ w.op = "content" /\ w.changed = {w.id}
        /\ l[w.id] # Unlisted /\ w.loaded[w.id] = l[w.id]
    BY <1>7 DEF OneEdit, EditSaves
  <2>2. EditSaves(n, v, l, d)
    BY <1>1, <1>2, <1>3, <2>1 DEF EditSaves
  <2>3. v.changed = {v.id} /\ v.op = "content" /\ v.phase = "saving"
    BY <1>1, <2>1
  <2>4. \A j \in v.kin \ {v.id} : v.loaded[j] = l[j] /\ d[j] <= n
    BY <1>1, <1>3, <1>7 DEF OneEdit
  <2>. QED BY <1>5, <1>6, <2>2, <2>3, <2>4 DEF Knows, OneEdit
<1>8. CASE Refreshing(n, w, l, c)
  <2>1. /\ w.op = "refresh" /\ w.id \in w.todo /\ l[w.id] # Unlisted
    BY <1>8 DEF Refreshing
  <2>2. v.op = "refresh" /\ v.phase = "fetching"
    BY <1>1, <2>1
  <2>3. v.todo \cap v.changed = {} /\ \A i \in v.todo \cup v.changed : l[i] # Unlisted
    BY <1>1, <1>8, <2>1 DEF Refreshing
  <2>4. /\ Aligned(v) = Aligned(w) \cup {w.id} /\ v.converted \subseteq v.changed
    BY <1>1, <1>8, <2>1 DEF Refreshing, Aligned
  <2>5. v.kin = w.kin /\ w.kin \subseteq Sources
    BY <1>1, <1>2
  <2>6. ASSUME NEW i \in w.kin
        PROVE  /\ v.loaded[i].settings \in {l[i].settings, Version(n)}
               /\ i \in Aligned(v) => v.loaded[i].nodes = d[i]
               /\ i \notin Aligned(v) => /\ v.loaded[i].nodes \in {l[i].nodes, Version(n), d[i]}
                                       /\ d[i] <= n
               /\ l[i] = Unlisted => v.loaded[i] = l[i]
    <3>1. CASE i = w.id
      <4>1. v.loaded[i] = e /\ d[i] = Version(n) /\ i \in Aligned(v)
        BY <1>3, <2>4, <2>6, <3>1
      <4>2. w.loaded[i].settings \in {l[i].settings, Version(n)}
        BY <1>8, <2>6 DEF Refreshing
      <4> QED BY <1>4, <2>1, <3>1, <4>1, <4>2
    <3>2. CASE i # w.id
      <4>1. v.loaded[i] = w.loaded[i] /\ d[i] = c[i] /\ (i \in Aligned(v) <=> i \in Aligned(w))
        BY <1>3, <2>4, <2>6, <3>2
      <4> QED BY <1>8, <2>6, <4>1 DEF Refreshing
    <3> QED BY <3>1, <3>2
  <2>7. Refreshing(n, v, l, d)
    BY <2>2, <2>3, <2>4, <2>5, <2>6 DEF Refreshing
  <2>. QED BY <1>5, <1>6, <2>7 DEF Knows
<1>. QED BY <1>7, <1>8 DEF Knows

(* ... or cannot be, in a refresh ... *)
LEMMA NotWrittenKnows ==
  ASSUME NEW n \in Nat, NEW w \in CallType, NEW v \in CallType,
         NEW l \in ListType, NEW c \in [Sources -> AllVersions], NEW r,
         Knows(n, w, l, c, r), w.phase = "writing", w.op = "refresh",
         Has(v, w.op, w.id, w.kin, "fetching", w.todo \ {w.id}, w.changed, w.converted, w.loaded, w.base, w.passed)
  PROVE  Knows(n, v, l, c, r)
<1>1. Refreshing(n, w, l, c) /\ Touches(w) /\ Older(n, w, l, c, r)
  BY DEF Knows, OneEdit, EditSaves
<1>2. /\ v.op = w.op /\ v.id = w.id /\ v.kin = w.kin /\ v.phase = "fetching"
      /\ v.todo = w.todo \ {w.id} /\ v.changed = w.changed /\ v.loaded = w.loaded
      /\ v.converted = w.converted
  BY DEF Has
<1>3. Touches(v) /\ Older(n, v, l, c, r)
  BY <1>1, <1>2 DEF Touches, Older
<1>4. Refreshing(n, v, l, c)
  BY <1>1, <1>2 DEF Refreshing, Aligned
<1>. QED BY <1>3, <1>4 DEF Knows

(* ... and when a list without a subscription is saved, whose file is next. *)
LEMMA DeletedKnows ==
  ASSUME NEW n \in Nat, NEW w \in CallType, NEW v \in CallType,
         NEW l \in ListType, NEW k \in ListType, NEW c \in [Sources -> AllVersions], NEW r, NEW q,
         Knows(n, w, l, c, r), w.op = "delete", w.id \in Subscriptions, w.phase = "saving",
         \A i \in w.kin : k[i] = w.loaded[i],
         Has(v, "delete", w.id, w.kin, "removing", w.todo, w.changed, w.converted, w.loaded, w.base, w.passed)
  PROVE  Knows(n, v, k, c, q)
<1>1. /\ OneEdit(n, w, l, c) /\ Touches(w) /\ Older(n, w, l, c, r)
      /\ w.loaded[w.id] = Unlisted
  BY DEF Knows, Refreshing, OneEdit, EditSaves
<1>2. /\ v.op = "delete" /\ v.id = w.id /\ v.kin = w.kin /\ v.phase = "removing"
      /\ v.todo = w.todo /\ v.changed = w.changed /\ v.loaded = w.loaded
      /\ w.id \in w.kin
  BY <1>1, Kins DEF Has, Touches, CallType
<1>3. Touches(v) /\ Older(n, v, k, c, q)
  BY <1>1, <1>2 DEF Touches, Older
<1>4. EditSaves(n, v, k, c)
  BY <1>1, <1>2 DEF EditSaves
<1>5. OneEdit(n, v, k, c)
  BY <1>1, <1>2, <1>4 DEF OneEdit
<1>. QED BY <1>3, <1>5 DEF Knows

-----------------------------------------------------------------------------
(* The inductive invariant *)

InUse(n) == writes[n].phase \in Held

(* One call at a time holds the mutex of a list.                              *)
MutexHeld ==
  \A m, n \in DOMAIN writes : InUse(m) /\ InUse(n) /\ writes[m].kin = writes[n].kin => m = n

(* Nothing is newer than the last call, and what is listed has settings.      *)
VersionsKnown ==
  \A i \in Sources :
    /\ listed[i].settings <= Version(Len(writes))
    /\ listed[i].nodes <= Version(Len(writes))
    /\ content[i] <= Version(Len(writes)) /\ revision[i] <= Version(Len(writes))
    /\ Listed(i) => listed[i].settings # None

WritesKnow ==
  \A n \in DOMAIN writes : InUse(n) => Knows(n, writes[n], listed, content, revision)

HeldInv == SourcesTyped /\ MutexHeld /\ VersionsKnown /\ WritesKnow

-----------------------------------------------------------------------------
(* What a step does *)

Opens ==
  \E i \in Sources :
    /\ Listed(i) /\ Free(Kin(i)) /\ editor' = JustOpened(i)
    /\ UNCHANGED <<diskVars, revision, writes, torn>>

Starts(w) ==
  /\ Begun(w) /\ w.phase \in Held
  /\ Knows(Len(writes) + 1, w, listed, content', revision)
  /\ UNCHANGED <<listed, revision, torn>>
  /\ \/ content' = content
     \/ w.op = "delete" /\ w.id \in RuleSets /\ content' = [content EXCEPT ![w.id] = None]
  /\ editor' \in {editor, Closed}
  /\ w.op \in {"settings", "delete", "content"} =>
       \E e \in Editors : /\ Accepted(e) /\ w.id = e.id /\ w.passed = e.passed
                          /\ w.base = IF w.op = "content" THEN e.content ELSE e.settings

Works(n, w) ==
  /\ InUse(n) /\ Turned(n, w) /\ w.phase \in Held
  /\ w.kin = writes[n].kin /\ w.op = writes[n].op /\ writes[n].changed \subseteq w.changed
  /\ Knows(n, w, listed, content', revision)
  /\ UNCHANGED <<listed, revision, editor, torn>>
  /\ content' \in {content, [content EXCEPT ![writes[n].id] = Version(n)]}

IsOver(n) ==
  /\ InUse(n) /\ Turned(n, Finished)
  /\ UNCHANGED <<listed, revision>>
  /\ torn' = torn \cup Written(n) /\ Passes(Written(n))
  /\ \/ content' = content
     \/ ~Listed(writes[n].id) /\ content' = [content EXCEPT ![writes[n].id] = None]

Does ==
  \/ Opens
  \/ \E w : Starts(w)
  \/ \E n \in DOMAIN writes : (\E w : Works(n, w)) \/ IsOver(n) \/ SaveList(n)
  \/ ServerDies

(* A call that begins finds nothing that is newer. *)
LEMMA NothingIsNewer ==
  ASSUME HeldInv, Len(writes) + 1 \in 1 .. MaxWrites,
         NEW kin \in {Subscriptions, RuleSets}
  PROVE  Before(Len(writes) + 1, kin, listed, content, revision)
<1>1. Version(Len(writes)) = Len(writes) + 1 /\ kin \subseteq Sources
  BY Kins DEF Version
<1>. QED BY <1>1 DEF HeldInv, VersionsKnown, Before

LEMMA NextVersionOf ==
  ASSUME SourcesTyped, Len(writes) + 1 \in 1 .. MaxWrites
  PROVE  NextVersion = Version(Len(writes) + 1)
  BY DEF NextVersion

LEMMA CreateStarts ==
  ASSUME HeldInv, NEW i \in Sources, Create(i)
  PROVE  \E w : Starts(w)
<1> DEFINE n == Len(writes) + 1
<1>1. SourcesTyped
  BY DEF HeldInv
<1>2. PICK w : /\ Begun(w)
               /\ Has(w, "create", i, Kin(i), "saving", {}, {i}, {},
                      [listed EXCEPT ![i] = Entry(NextVersion, None)], None, FALSE)
  BY <1>1, CreateBegins
<1>3. /\ w \in CallType /\ n \in 1 .. MaxWrites /\ n \in Nat /\ NextVersion = Version(n)
      /\ Before(n, Kin(i), listed, content, revision)
  BY <1>1, <1>2, NothingIsNewer, NextVersionOf, Kins DEF Begun
<1>4. /\ listed \in ListType /\ content \in [Sources -> AllVersions]
      /\ revision \in [Sources -> AllVersions]
  BY <1>1 DEF SourcesTyped
<1>5. listed[i] = Unlisted /\ UNCHANGED <<diskVars, revision, editor, torn>>
  BY DEF Create, Listed
<1>6. Knows(n, w, listed, content, revision)
  BY <1>2, <1>3, <1>4, <1>5, EditsKnow
<1>7. w.op = "create" /\ w.phase \in Held
  BY <1>2 DEF Has, Held
<1>. QED BY <1>2, <1>5, <1>6, <1>7 DEF Starts, diskVars

LEMMA SettingsStart ==
  ASSUME HeldInv, NEW e \in Editors, EditSettings(e)
  PROVE  \E w : Starts(w)
<1> DEFINE n == Len(writes) + 1
<1>1. SourcesTyped /\ e \in EditorType /\ e.id \in Sources
  BY EditorsAre DEF HeldInv, EditorType
<1>2. PICK w : /\ Begun(w)
               /\ Has(w, "settings", e.id, Kin(e.id), "saving", {}, {e.id}, {},
                      [listed EXCEPT ![e.id] = Entry(NextVersion, listed[e.id].nodes)],
                      e.settings, e.passed)
  BY <1>1, SettingsBegin
<1>3. /\ w \in CallType /\ n \in 1 .. MaxWrites /\ n \in Nat /\ NextVersion = Version(n)
      /\ Before(n, Kin(e.id), listed, content, revision)
  BY <1>1, <1>2, NothingIsNewer, NextVersionOf, Kins DEF Begun
<1>4. /\ listed \in ListType /\ content \in [Sources -> AllVersions]
      /\ revision \in [Sources -> AllVersions]
  BY <1>1 DEF SourcesTyped
<1>5. /\ listed[e.id] # Unlisted /\ UNCHANGED <<diskVars, revision, torn>>
      /\ editor' \in {editor, Closed} /\ Accepted(e)
  BY DEF EditSettings, Accepted, Listed, Uses
<1>6. Knows(n, w, listed, content, revision)
  BY <1>1, <1>2, <1>3, <1>4, <1>5, EditsKnow
<1>7. /\ w.op = "settings" /\ w.phase \in Held
      /\ w.id = e.id /\ w.passed = e.passed /\ w.base = e.settings
  BY <1>2 DEF Has, Held
<1>. QED BY <1>2, <1>5, <1>6, <1>7 DEF Starts, diskVars

LEMMA DeleteStarts ==
  ASSUME HeldInv, NEW e \in Editors, DeleteSubscription(e) \/ DeleteRuleSet(e)
  PROVE  \E w : Starts(w)
<1> DEFINE n == Len(writes) + 1
<1>1. SourcesTyped /\ e \in EditorType /\ e.id \in Sources /\ Delete(e)
  BY EditorsAre DEF HeldInv, EditorType, DeleteSubscription, DeleteRuleSet
<1>2. PICK w : /\ Begun(w)
               /\ Has(w, "delete", e.id, Kin(e.id), "saving", {}, {e.id}, {},
                      [listed EXCEPT ![e.id] = Unlisted], e.settings, e.passed)
  BY <1>1, DeleteBegins
<1>3. /\ w \in CallType /\ n \in 1 .. MaxWrites /\ n \in Nat
      /\ Before(n, Kin(e.id), listed, content, revision)
  BY <1>1, <1>2, NothingIsNewer, Kins DEF Begun
<1>4. /\ listed \in ListType /\ content \in [Sources -> AllVersions]
      /\ revision \in [Sources -> AllVersions]
  BY <1>1 DEF SourcesTyped
<1>5. /\ listed[e.id] # Unlisted /\ UNCHANGED <<listed, revision, torn>>
      /\ editor' \in {editor, Closed} /\ Accepted(e)
  BY <1>1 DEF Delete, Accepted, Listed, Uses
<1>6. \/ content' = content
      \/ e.id \in RuleSets /\ content' = [content EXCEPT ![e.id] = None]
  BY DEF DeleteSubscription, DeleteRuleSet
<1>7. content' \in [Sources -> AllVersions]
  BY <1>4, <1>6, Numbers
<1>8. Knows(n, w, listed, content', revision)
  BY <1>1, <1>2, <1>3, <1>4, <1>5, <1>6, <1>7, EditsKnow
<1>9. /\ w.op = "delete" /\ w.phase \in Held
      /\ w.id = e.id /\ w.passed = e.passed /\ w.base = e.settings
  BY <1>2 DEF Has, Held
<1>. QED BY <1>2, <1>5, <1>6, <1>8, <1>9 DEF Starts

LEMMA ContentStarts ==
  ASSUME HeldInv, NEW e \in Editors, EditContent(e)
  PROVE  \E w : Starts(w)
<1> DEFINE n == Len(writes) + 1
<1>1. SourcesTyped /\ e \in EditorType /\ e.id \in Sources
  BY EditorsAre DEF HeldInv, EditorType
<1>2. PICK w : /\ Begun(w)
               /\ Has(w, "content", e.id, Kin(e.id), "writing", {}, {e.id}, {}, listed,
                      e.content, e.passed)
  BY <1>1, ContentBegins
<1>3. /\ w \in CallType /\ n \in 1 .. MaxWrites /\ n \in Nat
      /\ Before(n, Kin(e.id), listed, content, revision)
  BY <1>1, <1>2, NothingIsNewer, Kins DEF Begun
<1>4. /\ listed \in ListType /\ content \in [Sources -> AllVersions]
      /\ revision \in [Sources -> AllVersions]
  BY <1>1 DEF SourcesTyped
<1>5. /\ listed[e.id] # Unlisted /\ UNCHANGED <<diskVars, revision, torn>>
      /\ editor' \in {editor, Closed} /\ Accepted(e)
  BY DEF EditContent, Accepted, Listed, Uses
<1>6. Knows(n, w, listed, content, revision)
  BY <1>1, <1>2, <1>3, <1>4, <1>5, EditsKnow
<1>7. /\ w.op = "content" /\ w.phase \in Held
      /\ w.id = e.id /\ w.passed = e.passed /\ w.base = e.content
  BY <1>2 DEF Has, Held
<1>. QED BY <1>2, <1>5, <1>6, <1>7 DEF Starts, diskVars

LEMMA FetchStarts ==
  ASSUME HeldInv, NEW kin \in {Subscriptions, RuleSets}, NEW ids \in SUBSET kin,
         \A i \in ids : Listed(i), Fetch(ids, kin)
  PROVE  \E w : Starts(w)
<1> DEFINE n == Len(writes) + 1
<1>1. SourcesTyped
  BY DEF HeldInv
<1>i. PICK i \in ids :
        \E w : /\ Begun(w)
               /\ Has(w, "refresh", i, kin, "fetching", ids, {}, {}, listed, None, FALSE)
  BY <1>1, FetchBegins
<1>2. PICK w :
        Begun(w) /\ Has(w, "refresh", i, kin, "fetching", ids, {}, {}, listed, None, FALSE)
  BY <1>i
<1>3. /\ w \in CallType /\ n \in 1 .. MaxWrites /\ n \in Nat
      /\ Before(n, kin, listed, content, revision)
  BY <1>1, <1>2, NothingIsNewer DEF Begun
<1>4. /\ listed \in ListType /\ content \in [Sources -> AllVersions]
      /\ revision \in [Sources -> AllVersions]
  BY <1>1 DEF SourcesTyped
<1>5. \A j \in ids : listed[j] # Unlisted
  BY DEF Listed
<1>6. Knows(n, w, listed, content, revision)
  BY <1>2, <1>3, <1>4, <1>5, RefreshKnows
<1>7. w.op = "refresh" /\ w.phase \in Held
  BY <1>2 DEF Has, Held
<1>8. UNCHANGED <<diskVars, revision, editor, torn>>
  BY DEF Fetch
<1>. QED BY <1>2, <1>6, <1>7, <1>8 DEF Starts, diskVars

(* A call that holds a mutex, and the entry it works on.                       *)
LEMMA WhoWorks ==
  ASSUME HeldInv, NEW n \in DOMAIN writes
  PROVE  /\ SourcesTyped /\ writes[n] \in CallType /\ n \in Nat /\ n \in 1 .. MaxWrites
         /\ Version(n) \in AllVersions
         /\ listed \in ListType /\ content \in [Sources -> AllVersions]
         /\ writes[n].loaded \in ListType /\ writes[n].id \in Sources
         /\ \A i \in writes[n].todo : i \in Sources /\ writes[n].loaded[i] \in EntryType
         /\ InUse(n) => Knows(n, writes[n], listed, content, revision)
<1>1. SourcesTyped /\ writes[n] \in CallType /\ n \in 1 .. MaxWrites
  BY CallsAre DEF HeldInv
<1>2. n \in Nat /\ Version(n) \in AllVersions
  BY <1>1, Numbers
<1>3. InUse(n) => Knows(n, writes[n], listed, content, revision)
  BY DEF HeldInv, WritesKnow
<1>. QED BY <1>1, <1>2, <1>3 DEF SourcesTyped, CallType, ListType

(* The settings a refresh has in memory are those listed, or its own.         *)
LEMMA FetchingKnows ==
  ASSUME HeldInv, NEW n \in DOMAIN writes, Is(n, "fetching"), NEW i \in writes[n].todo
  PROVE  /\ InUse(n)
         /\ writes[n].loaded[i].settings \in {listed[i].settings, Version(n)}
         /\ writes[n].loaded[i].nodes \in {listed[i].nodes, Version(n), content[i]}
         /\ writes[n].loaded[i].settings \in AllVersions
<1>1. InUse(n)
  BY DEF InUse, Is, Held
<1>2. Refreshing(n, writes[n], listed, content) /\ Touches(writes[n])
  BY <1>1, WhoWorks DEF Knows, OneEdit, EditSaves, Is
<1>3. i \in writes[n].kin /\ i \notin Aligned(writes[n])
  BY <1>2 DEF Refreshing, Touches, Aligned
<1>. QED BY <1>1, <1>2, <1>3, WhoWorks DEF Refreshing, EntryType

(* What becomes of source i: it was not refreshed, or it was, without a script or  *)
(* with one.                                                                  *)
Ending(n, i, e, ids, scripted) ==
  \/ Done(n, i, e, ids) /\ scripted = {}
  \/ Converted(n, i, e) /\ ids = {i} /\ scripted = {i}

LEMMA DoneWorks ==
  ASSUME HeldInv, NEW n \in DOMAIN writes, NEW i, Fetching(n, i),
         NEW e \in EntryType, NEW ids \in {{}, {i}}, NEW scripted \in {{}, {i}},
         Ending(n, i, e, ids, scripted),
         e.settings \in {listed[i].settings, Version(n)},
         e.nodes \in {listed[i].nodes, Version(n), content[i]},
         ids # scripted => e.nodes = content[i]
  PROVE  \E w : Works(n, w)
<1> DEFINE w == writes[n]
           v == [w EXCEPT !.todo = @ \ {i}, !.loaded[i] = e, !.changed = @ \cup ids,
                          !.converted = @ \cup scripted]
<1>1. /\ Is(n, "fetching") /\ i \in w.todo
      /\ UNCHANGED <<diskVars, revision, editor, torn>>
  BY DEF Fetching
<1>2. /\ SourcesTyped /\ w \in CallType /\ n \in Nat /\ i \in Sources
      /\ listed \in ListType /\ content \in [Sources -> AllVersions]
      /\ w.phase = "fetching" /\ InUse(n) /\ Knows(n, w, listed, content, revision)
  BY <1>1, WhoWorks DEF Is, InUse, Held
<1>3. v \in CallType
  BY <1>2 DEF CallType, ListType
<1>4. Has(v, w.op, w.id, w.kin, "fetching", w.todo \ {i}, w.changed \cup ids,
          w.converted \cup scripted, [w.loaded EXCEPT ![i] = e], w.base, w.passed)
  BY <1>2 DEF CallType, Has
<1>5. Knows(n, v, listed, content, revision)
  BY <1>1, <1>2, <1>3, <1>4, DoneKnows DEF Ending
<1>6. Turns(n, v)
  <2>1. CASE Done(n, i, e, ids) /\ scripted = {}
    <3>1. v = [w EXCEPT !.todo = @ \ {i}, !.loaded[i] = e, !.changed = @ \cup ids]
      BY <1>2, <2>1 DEF CallType
    <3>. QED BY <2>1, <3>1 DEF Done
  <2>2. CASE Converted(n, i, e) /\ ids = {i} /\ scripted = {i}
    BY <2>2 DEF Converted
  <2>. QED BY <2>1, <2>2 DEF Ending
<1>7. Turned(n, v)
  BY <1>2, <1>3, <1>6, TurnTurns
<1>8. v.phase \in Held /\ v.kin = w.kin /\ v.op = w.op /\ w.changed \subseteq v.changed
  BY <1>4 DEF Has, Held
<1>9. Works(n, v)
  BY <1>1, <1>2, <1>5, <1>7, <1>8 DEF Works, diskVars
<1>. QED BY <1>9

LEMMA DownloadedWorks ==
  ASSUME HeldInv, NEW n \in DOMAIN writes, NEW i, Fetching(n, i),
         NEW e \in EntryType, Downloaded(n, i, e),
         e.settings \in {listed[i].settings, Version(n)}, e.nodes = Version(n)
  PROVE  \E w : Works(n, w)
<1> DEFINE w == writes[n]
           v == [w EXCEPT !.phase = "writing", !.id = i, !.loaded[i] = e]
<1>1. /\ Is(n, "fetching") /\ i \in w.todo
      /\ UNCHANGED <<diskVars, revision, editor, torn>>
  BY DEF Fetching
<1>2. /\ SourcesTyped /\ w \in CallType /\ n \in Nat /\ i \in Sources
      /\ listed \in ListType /\ content \in [Sources -> AllVersions]
      /\ w.phase = "fetching" /\ InUse(n) /\ Knows(n, w, listed, content, revision)
  BY <1>1, WhoWorks DEF Is, InUse, Held
<1>3. v \in CallType
  BY <1>2 DEF CallType, ListType, WritePhases
<1>4. Has(v, w.op, i, w.kin, "writing", w.todo, w.changed, w.converted,
          [w.loaded EXCEPT ![i] = e], w.base, w.passed)
  BY <1>2 DEF CallType, Has
<1>5. Knows(n, v, listed, content, revision)
  BY <1>1, <1>2, <1>3, <1>4, DownloadedKnows
<1>6. Turned(n, v)
  BY <1>2, <1>3, TurnTurns DEF Downloaded
<1>7. v.phase \in Held /\ v.kin = w.kin /\ v.op = w.op /\ w.changed \subseteq v.changed
  BY <1>4 DEF Has, Held
<1>8. Works(n, v)
  BY <1>1, <1>2, <1>5, <1>6, <1>7 DEF Works, diskVars
<1>. QED BY <1>8

LEMMA FetchWorks ==
  ASSUME HeldInv, NEW n \in DOMAIN writes, NEW i \in Sources,
         FetchFails(n, i) \/ FetchSubscription(n, i) \/ FetchRuleset(n, i)
  PROVE  \E w : Works(n, w)
<1> DEFINE w == writes[n]
           entry == w.loaded[i]
<1>1. Fetching(n, i)
  BY DEF FetchFails, FetchSubscription, FetchRuleset
<1>2. Is(n, "fetching") /\ i \in w.todo
  BY <1>1 DEF Fetching
<1>3. /\ entry \in EntryType /\ Version(n) \in AllVersions /\ content[i] \in AllVersions
      /\ entry.settings \in {listed[i].settings, Version(n)}
      /\ entry.settings \in AllVersions
      /\ entry.nodes \in {listed[i].nodes, Version(n), content[i]}
  BY <1>2, WhoWorks, FetchingKnows
<1>4. \A s \in {entry.settings, Version(n)}, v \in AllVersions :
        /\ Entry(s, v) \in EntryType
        /\ Entry(s, v).settings \in {listed[i].settings, Version(n)}
        /\ Entry(s, v).nodes = v
  BY <1>3, Entries
<1>5. ASSUME Done(n, i, entry, {}) PROVE \E v : Works(n, v)
  BY <1>1, <1>3, <1>5, DoneWorks DEF Ending
<1>6. ASSUME NEW s \in {entry.settings, Version(n)}, Downloaded(n, i, Entry(s, Version(n)))
      PROVE  \E v : Works(n, v)
  BY <1>1, <1>3, <1>4, <1>6, DownloadedWorks
<1>7. ASSUME NEW s \in {entry.settings, Version(n)}, Done(n, i, Entry(s, content[i]), {i})
      PROVE  \E v : Works(n, v)
  BY <1>1, <1>3, <1>4, <1>7, DoneWorks DEF Ending
<1>8. ASSUME NEW nodes \in {Version(n), content[i]}, Done(n, i, Entry(entry.settings, nodes), {})
      PROVE  \E v : Works(n, v)
  <2>1. Ending(n, i, Entry(entry.settings, nodes), {}, {})
    BY <1>8 DEF Ending
  <2>2. /\ Entry(entry.settings, nodes) \in EntryType
        /\ Entry(entry.settings, nodes).settings \in {listed[i].settings, Version(n)}
        /\ Entry(entry.settings, nodes).nodes \in {listed[i].nodes, Version(n), content[i]}
    BY <1>3, <1>4
  <2>. QED BY <1>1, <2>1, <2>2, DoneWorks
<1>9. ASSUME NEW s \in {entry.settings, Version(n)}, Converted(n, i, Entry(s, Version(n)))
      PROVE  \E v : Works(n, v)
  <2>1. Ending(n, i, Entry(s, Version(n)), {i}, {i})
    BY <1>9 DEF Ending
  <2>. QED BY <1>1, <1>3, <1>4, <2>1, DoneWorks
<1>10. CASE FetchFails(n, i)
  BY <1>5, <1>10 DEF FetchFails
<1>11. CASE FetchSubscription(n, i)
  BY <1>6, <1>7, <1>8, <1>9, <1>11 DEF FetchSubscription
<1>12. CASE FetchRuleset(n, i)
  BY <1>6, <1>7, <1>12 DEF FetchRuleset
<1>. QED BY <1>10, <1>11, <1>12

LEMMA WriteWorks ==
  ASSUME HeldInv, NEW n \in DOMAIN writes, WriteContent(n)
  PROVE  \E w : Works(n, w)
<1> DEFINE w == writes[n]
           i == w.id
           next == IF w.op = "refresh" THEN "fetching" ELSE "saving"
           e == Entry(w.loaded[i].settings, Version(n))
           v == [w EXCEPT !.phase = next, !.todo = @ \ {i}, !.changed = @ \cup {i},
                          !.loaded[i].nodes = Version(n)]
           u == [w EXCEPT !.phase = next, !.todo = @ \ {i}, !.changed = @ \cup {i}]
<1>1. /\ Is(n, "writing") /\ Turns(n, v)
      /\ content' = [content EXCEPT ![i] = Version(n)]
      /\ UNCHANGED <<listed, revision, editor, torn>>
  BY DEF WriteContent
<1>2. /\ SourcesTyped /\ w \in CallType /\ n \in Nat /\ i \in Sources
      /\ listed \in ListType /\ content \in [Sources -> AllVersions]
      /\ Version(n) \in AllVersions
      /\ w.loaded \in ListType
      /\ w.phase = "writing" /\ InUse(n) /\ Knows(n, w, listed, content, revision)
  BY <1>1, WhoWorks DEF Is, InUse, Held
<1>3. u \in CallType
  BY <1>2 DEF CallType, WritePhases
<1>4. Has(u, w.op, i, w.kin, next, w.todo \ {i}, w.changed \cup {i}, w.converted, w.loaded, w.base, w.passed)
  BY <1>2 DEF CallType, Has
<1>5. e \in EntryType /\ [w.loaded[i] EXCEPT !.nodes = Version(n)] = e
  BY <1>2, Entries DEF ListType, EntryType, Entry
<1>6. v = [u EXCEPT !.loaded[i] = e]
  BY <1>4, <1>5 DEF Has
<1>62. next = IF w.op = "refresh" THEN "fetching" ELSE "saving"
  OBVIOUS
<1>63. e = Entry(w.loaded[i].settings, Version(n))
  OBVIOUS
<1> HIDE DEF u, v, next, e
<1>7. /\ v \in CallType
      /\ Has(v, w.op, i, w.kin, next, w.todo \ {i}, w.changed \cup {i}, w.converted,
             [w.loaded EXCEPT ![i] = e], w.base, w.passed)
  BY <1>2, <1>3, <1>4, <1>5, <1>6, Loading
<1>8. Knows(n, v, listed, content', revision)
  <2>1. Has(v, w.op, w.id, w.kin, IF w.op = "refresh" THEN "fetching" ELSE "saving",
             w.todo \ {w.id}, w.changed \cup {w.id}, w.converted,
             [w.loaded EXCEPT ![w.id] = Entry(w.loaded[w.id].settings, Version(n))],
             w.base, w.passed)
    BY <1>7, <1>62, <1>63
  <2>2. Knows(n, v, listed, [content EXCEPT ![w.id] = Version(n)], revision)
    BY <1>2, <1>7, <2>1, WrittenKnows
  <2>. QED BY <1>1, <2>2
<1>9. Turned(n, v)
  BY <1>1, <1>2, <1>7, TurnTurns DEF v, next
<1>10. v.phase \in Held /\ v.kin = w.kin /\ v.op = w.op /\ w.changed \subseteq v.changed
  BY <1>7, <1>62 DEF Has, Held
<1>11. Works(n, v)
  BY <1>1, <1>2, <1>8, <1>9, <1>10 DEF Works
<1>. QED BY <1>11

(* Nothing is passed when nothing was written. *)
LEMMA NonePassed ==
  ASSUME SourcesTyped, NEW ids, ids = {}, UNCHANGED <<torn, editor>>
  PROVE  torn' = torn \cup ids /\ Passes(ids)
  BY DEF Passes, SourcesTyped, EditorType

LEMMA FinishTurns ==
  ASSUME HeldInv, NEW n \in DOMAIN writes, Ends(n)
  PROVE  Turned(n, Finished)
  BY TurnTurns, FinishedIs DEF Ends, HeldInv

LEMMA WriteFailsDoes ==
  ASSUME HeldInv, NEW n \in DOMAIN writes, WriteContentFails(n)
  PROVE  (\E w : Works(n, w)) \/ IsOver(n)
<1> DEFINE w == writes[n]
<1>1. Is(n, "writing") /\ UNCHANGED <<diskVars, revision, editor, torn>>
  BY DEF WriteContentFails
<1>2. /\ SourcesTyped /\ w \in CallType /\ n \in Nat
      /\ listed \in ListType /\ content \in [Sources -> AllVersions]
      /\ w.phase = "writing" /\ InUse(n) /\ Knows(n, w, listed, content, revision)
  BY <1>1, WhoWorks DEF Is, InUse, Held
<1>3. CASE w.op = "refresh"
  <2> DEFINE v == [w EXCEPT !.phase = "fetching", !.todo = @ \ {w.id}]
  <2>1. v \in CallType
    BY <1>2 DEF CallType, WritePhases
  <2>2. Has(v, w.op, w.id, w.kin, "fetching", w.todo \ {w.id}, w.changed, w.converted, w.loaded, w.base, w.passed)
    BY <1>2 DEF CallType, Has
  <2>3. Knows(n, v, listed, content, revision)
    BY <1>2, <1>3, <2>1, <2>2, NotWrittenKnows
  <2>4. Turned(n, v)
    BY <1>2, <1>3, <2>1, TurnTurns DEF WriteContentFails
  <2>5. v.phase \in Held /\ v.kin = w.kin /\ v.op = w.op /\ w.changed \subseteq v.changed
    BY <2>2 DEF Has, Held
  <2>6. Works(n, v)
    BY <1>1, <1>2, <2>3, <2>4, <2>5 DEF Works, diskVars
  <2>. QED BY <2>6
<1>4. CASE w.op # "refresh"
  <2>1. OneEdit(n, w, listed, content) /\ Touches(w)
    BY <1>2, <1>4 DEF Knows, Refreshing
  <2>2. w.op = "content"
    BY <1>2, <2>1 DEF OneEdit, EditSaves
  <2>3. Written(n) = {}
    BY <1>2, <2>1, <2>2, Kins, Numbers DEF Written, OneEdit, Touches, Version
  <2>4. torn' = torn \cup Written(n) /\ Passes(Written(n))
    BY <1>1, <1>2, <2>3, NonePassed
  <2>5. Turned(n, Finished)
    BY <1>4, FinishTurns DEF WriteContentFails, Ends
  <2>. QED BY <1>1, <1>2, <2>4, <2>5 DEF IsOver, diskVars
<1>. QED BY <1>3, <1>4

LEMMA RemoveEnds ==
  ASSUME HeldInv, NEW n \in DOMAIN writes, RemoveContent(n)
  PROVE  IsOver(n)
<1> DEFINE w == writes[n]
<1>1. /\ Is(n, "removing") /\ UNCHANGED <<listed, revision, editor, torn>> /\ Ends(n)
      /\ content' \in {content, [content EXCEPT ![w.id] = None]}
  BY DEF RemoveContent
<1>2. /\ SourcesTyped /\ w \in CallType /\ n \in Nat
      /\ content \in [Sources -> AllVersions]
      /\ w.phase = "removing" /\ InUse(n) /\ Knows(n, w, listed, content, revision)
  BY <1>1, WhoWorks DEF Is, InUse, Held
<1>3. OneEdit(n, w, listed, content) /\ Touches(w)
  BY <1>2 DEF Knows, Refreshing
<1>4. /\ w.op = "delete" /\ listed[w.id] = Unlisted /\ w.id \in Subscriptions
      /\ w.changed = {w.id}
  BY <1>2, <1>3 DEF OneEdit, EditSaves
<1>5. w.id \notin RuleSets
  BY <1>4, SourcesAssumption
<1>6. Written(n) = {}
  <2>1. \A i \in w.kin : content[i] # Version(n)
    <3>1. w.kin \subseteq Sources
      BY <1>2, Kins DEF CallType
    <3>2. content[w.id] # Version(n)
      BY <1>3, <1>4 DEF OneEdit
    <3>3. \A i \in w.kin \ {w.id} : content[i] <= n /\ content[i] \in Nat
      BY <1>2, <1>3, <3>1, Numbers DEF OneEdit
    <3>. QED BY <1>2, <3>2, <3>3 DEF Version
  <2>. QED BY <1>4, <1>5, <2>1 DEF Written
<1>7. torn' = torn \cup Written(n) /\ Passes(Written(n))
  BY <1>1, <1>2, <1>6, NonePassed
<1>. QED BY <1>1, <1>2, <1>4, <1>7, FinishTurns DEF IsOver, Listed

LEMMA NothingChangedEnds ==
  ASSUME HeldInv, NEW n \in DOMAIN writes, NothingChanged(n)
  PROVE  IsOver(n)
<1> DEFINE w == writes[n]
<1>1. /\ Is(n, "fetching") /\ w.changed = {}
      /\ UNCHANGED <<diskVars, revision, editor, torn>>
      /\ Ends(n)
  BY DEF NothingChanged, Fetched
<1>2. /\ SourcesTyped /\ w \in CallType /\ n \in Nat
      /\ content \in [Sources -> AllVersions]
      /\ w.phase = "fetching" /\ InUse(n) /\ Knows(n, w, listed, content, revision)
  BY <1>1, WhoWorks DEF Is, InUse, Held
<1>3. Refreshing(n, w, listed, content) /\ Touches(w)
  BY <1>2 DEF Knows, OneEdit, EditSaves
<1>4. \A i \in w.kin : content[i] # Version(n)
  BY <1>1, <1>2, <1>3, Kins, Numbers DEF Refreshing, Aligned, Touches, Version
<1>5. Written(n) = {}
  BY <1>1, <1>4 DEF Written
<1>6. torn' = torn \cup Written(n) /\ Passes(Written(n))
  BY <1>1, <1>2, <1>5, NonePassed
<1>. QED BY <1>1, <1>2, <1>6, FinishTurns DEF IsOver, diskVars

LEMMA SaveFailsEnds ==
  ASSUME HeldInv, NEW n \in DOMAIN writes, SaveListFails(n)
  PROVE  IsOver(n)
  BY FinishTurns DEF SaveListFails, Saves, Fetched, Is, IsOver, InUse, Held, diskVars

(* What a step does. *)
LEMMA StepDoes ==
  ASSUME HeldInv, SourcesNext
  PROVE  Does
<1>1. ASSUME NEW i \in Sources, SourceCalls(i) PROVE Does
  <2>1. CASE OpenEditor(i)
    BY <2>1 DEF OpenEditor, Opens, Does
  <2>2. CASE CreateSubscription(i) \/ CreateRuleSet(i)
    BY <2>2, CreateStarts DEF CreateSubscription, CreateRuleSet, Does
  <2>3. CASE UpdateSubscription(i) \/ UpdateRuleSet(i)
    <3>1. CASE UpdateSubscription(i)
      BY <3>1, FetchStarts DEF UpdateSubscription, Does
    <3>2. CASE UpdateRuleSet(i)
      BY <3>2, FetchStarts DEF UpdateRuleSet, Does
    <3>. QED BY <2>3, <3>1, <3>2
  <2>. QED BY <1>1, <2>1, <2>2, <2>3 DEF SourceCalls
<1>2. ASSUME NEW e \in Editors, EditorCalls(e) PROVE Does
  <2>1. \/ EditSettings(e)
        \/ DeleteSubscription(e) \/ DeleteRuleSet(e)
        \/ EditContent(e)
    BY <1>2 DEF EditorCalls, UpdateSubscriptionConfig, UpdateRuleSetConfig,
       SaveSubscriptionContent, SaveRuleSetContent
  <2>. QED BY <1>2, <2>1, SettingsStart, DeleteStarts, ContentStarts DEF Does
<1>3. ASSUME NEW n \in DOMAIN writes, WriteStep(n) PROVE Does
  <2>1. \/ \E i \in Sources : FetchFails(n, i) \/ FetchSubscription(n, i) \/ FetchRuleset(n, i)
        \/ WriteContent(n) \/ WriteContentFails(n) \/ RemoveContent(n)
        \/ NothingChanged(n) \/ SaveList(n) \/ SaveListFails(n)
    BY <1>3 DEF WriteStep
  <2>2. (\E w : Works(n, w)) \/ IsOver(n) \/ SaveList(n)
    BY <1>3, <2>1, FetchWorks, WriteWorks, WriteFailsDoes, RemoveEnds,
       NothingChangedEnds, SaveFailsEnds
  <2>. QED BY <1>3, <2>2 DEF Does
<1>4. CASE UpdateAllSubscriptions
  BY <1>4, FetchStarts DEF UpdateAllSubscriptions, Does
<1>5. CASE UpdateAllRuleSets
  BY <1>5, FetchStarts DEF UpdateAllRuleSets, Does
<1>6. CASE ServerDies
  BY <1>6 DEF Does
<1>. QED BY <1>1, <1>2, <1>3, <1>4, <1>5, <1>6 DEF SourcesNext

-----------------------------------------------------------------------------
(* A list that is saved *)

(* Nothing in the list of a call is newer than what it writes.                *)
LEMMA LoadedIsKnown ==
  ASSUME NEW n \in Nat, NEW w \in CallType, NEW l \in ListType,
         NEW c \in [Sources -> AllVersions],
         NEW r, Knows(n, w, l, c, r), w.phase # "removing",
         \A i \in w.kin : l[i] # Unlisted => l[i].settings # None
  PROVE  \A i \in w.kin :
           /\ w.loaded[i].settings <= Version(n) /\ w.loaded[i].nodes <= Version(n)
           /\ w.loaded[i] # Unlisted => w.loaded[i].settings # None
<1>1. /\ Touches(w) /\ Older(n, w, l, c, r) /\ w.kin \subseteq Sources /\ w.id \in w.kin
      /\ Version(n) = n + 1 /\ None = 0 /\ Unlisted = Entry(0, 0)
      /\ \A i \in w.kin : /\ l[i] \in EntryType /\ c[i] \in Nat
                          /\ l[i].settings \in Nat /\ l[i].nodes \in Nat
  BY Kins, Numbers DEF Knows, Touches, CallType, ListType, EntryType, Version, None,
     Unlisted
<1>2. \A s, v : Entry(s, v).settings = s /\ Entry(s, v).nodes = v
  BY DEF Entry
<1>3. \A i \in w.kin : l[i].settings <= n /\ l[i].nodes <= n /\ c[i] <= n + 1
  BY <1>1 DEF Older
<1>4. CASE OneEdit(n, w, l, c)
  <2>1. ASSUME NEW i \in w.kin, i # w.id PROVE w.loaded[i] = l[i]
    BY <1>4, <2>1 DEF OneEdit
  <2>2. \/ w.loaded[w.id] = Entry(n + 1, 0)
        \/ w.loaded[w.id] = Entry(n + 1, l[w.id].nodes)
        \/ w.loaded[w.id] = Entry(0, 0)
        \/ w.loaded[w.id] = l[w.id]
        \/ w.loaded[w.id] = Entry(l[w.id].settings, n + 1) /\ l[w.id] # Unlisted
    BY <1>1, <1>4 DEF OneEdit, EditSaves
  <2>3. ASSUME NEW i \in w.kin
        PROVE  /\ w.loaded[i].settings <= n + 1 /\ w.loaded[i].nodes <= n + 1
               /\ w.loaded[i] # Unlisted => w.loaded[i].settings # 0
    BY <1>1, <1>2, <1>3, <2>1, <2>2
  <2>. QED BY <1>1, <2>3
<1>5. CASE Refreshing(n, w, l, c)
  <2>1. ASSUME NEW i \in w.kin
        PROVE  /\ w.loaded[i].settings \in {l[i].settings, n + 1}
               /\ w.loaded[i].nodes \in {l[i].nodes, n + 1, c[i]}
               /\ l[i] = Unlisted => w.loaded[i] = Unlisted
    BY <1>1, <1>5 DEF Refreshing
  <2>. QED BY <1>1, <1>3, <2>1
<1>. QED BY <1>4, <1>5 DEF Knows

(* Who saves, what it is after that, and that it knows. *)
LEMMA SaveDoes ==
  ASSUME HeldInv, NEW n \in DOMAIN writes, SaveList(n)
  PROVE  /\ InUse(n) /\ writes[n].phase \in {"fetching", "saving"}
         /\ writes[n].kin \subseteq Sources
         /\ Moved(n) \subseteq writes[n].changed
         /\ writes[n].changed \subseteq writes[n].kin
         /\ content' = content
         /\ listed' \in ListType
         /\ \A i \in Sources :
              listed'[i] = IF i \in writes[n].kin THEN writes[n].loaded[i] ELSE listed[i]
         /\ revision' \in [Sources -> AllVersions]
         /\ \A i \in Sources : revision'[i] = IF i \in Moved(n) THEN Version(n) ELSE revision[i]
         /\ \/ Turned(n, Finished)
            \/ \E w : /\ Turned(n, w) /\ w.kin = writes[n].kin
                      /\ Knows(n, w, listed', content', revision')
<1> DEFINE w == writes[n]
<1>1. /\ SourcesTyped /\ w \in CallType /\ n \in Nat /\ Version(n) \in AllVersions
      /\ listed \in ListType /\ content \in [Sources -> AllVersions]
      /\ w.loaded \in ListType /\ w.kin \subseteq Sources
  BY WhoWorks, Kins DEF CallType
<1>2. /\ InUse(n) /\ w.phase \in {"fetching", "saving"}
      /\ Knows(n, w, listed, content, revision)
  BY WhoWorks DEF SaveList, Saves, Fetched, Is, InUse, Held
<1>3. Moved(n) \subseteq w.changed /\ w.changed \subseteq w.kin
  BY <1>2 DEF Moved, Reset, Knows, Touches
<1>4. /\ content' = content
      /\ listed' = [i \in Sources |-> IF i \in w.kin THEN w.loaded[i] ELSE listed[i]]
      /\ revision' = [i \in Sources |-> IF i \in Moved(n) THEN Version(n) ELSE revision[i]]
  BY DEF SaveList
<1>5. listed' \in ListType /\ revision' \in [Sources -> AllVersions]
  BY <1>1, <1>4 DEF ListType, SourcesTyped
<1>6. CASE w.op = "delete" /\ w.id \in Subscriptions
  <2> DEFINE v == [w EXCEPT !.phase = "removing"]
  <2>1. v \in CallType
    BY <1>1 DEF CallType, WritePhases
  <2>2. Turned(n, v)
    BY <1>1, <1>6, <2>1, TurnTurns DEF SaveList
  <2>3. Has(v, "delete", w.id, w.kin, "removing", w.todo, w.changed, w.converted, w.loaded, w.base, w.passed)
    BY <1>1, <1>6 DEF CallType, Has
  <2>4. w.phase = "saving"
    BY <1>2, <1>6 DEF Knows, OneEdit, EditSaves, Refreshing
  <2>5. \A i \in w.kin : listed'[i] = w.loaded[i]
    BY <1>1, <1>4
  <2>6. Knows(n, v, listed', content', revision')
    BY <1>1, <1>2, <1>4, <1>5, <1>6, <2>1, <2>3, <2>4, <2>5, DeletedKnows
  <2>7. v.kin = w.kin
    BY <2>3 DEF Has
  <2>. QED BY <1>1, <1>2, <1>3, <1>4, <1>5, <2>2, <2>6, <2>7
<1>7. CASE ~(w.op = "delete" /\ w.id \in Subscriptions)
  <2>1. Turned(n, Finished)
    BY <1>7, FinishTurns DEF SaveList, Ends
  <2>. QED BY <1>1, <1>2, <1>3, <1>4, <1>5, <2>1
<1>. QED BY <1>6, <1>7

-----------------------------------------------------------------------------
(* Types *)

LEMMA PassingTypes ==
  ASSUME SourcesTyped, NEW ids, Passes(ids)
  PROVE  /\ editor' \in EditorType
         /\ editor'.id = editor.id /\ editor'.revision = editor.revision
         /\ editor'.settings = editor.settings /\ editor'.content = editor.content
         /\ editor'.passed = (editor.passed \/ (editor # Closed /\ editor.id \in ids))
  BY DEF Passes, SourcesTyped, EditorType

LEMMA DeathIs ==
  ASSUME SourcesTyped, ServerDies
  PROVE  /\ writes' \in Seq(CallType) /\ Len(writes') = Len(writes) + 1
         /\ Len(writes') <= MaxWrites
         /\ \A n \in 1 .. Len(writes') : writes'[n] = Finished
<1>1. Len(writes) \in Nat /\ Len(writes) < MaxWrites
  BY CallsAre DEF ServerDies
<1>2. /\ writes' \in [1 .. Len(writes) + 1 -> CallType]
      /\ \A n \in 1 .. Len(writes) + 1 : writes'[n] = Finished
  BY FinishedIs DEF ServerDies
<1>3. writes' \in Seq(CallType) /\ Len(writes') = Len(writes) + 1
  BY <1>1, <1>2
<1>. QED BY <1>1, <1>2, <1>3, Numbers

LEMMA WrittenIs ==
  ASSUME SourcesTyped, NEW n \in DOMAIN writes
  PROVE  Written(n) \subseteq Sources /\ Written(n) \subseteq writes[n].kin
  BY CallsAre, Kins DEF Written, CallType

LEMMA SourcesTypesStep == HeldInv /\ Does => SourcesTyped'
<1> SUFFICES ASSUME HeldInv, Does PROVE SourcesTyped'
  OBVIOUS
<1>1. SourcesTyped /\ Len(writes) \in Nat
  BY CallsAre, Numbers DEF HeldInv
<1>2. CASE Opens
  <2>1. PICK i \in Sources : /\ editor' = JustOpened(i)
                             /\ UNCHANGED <<diskVars, revision, writes, torn>>
    BY <1>2 DEF Opens
  <2>2. editor' \in EditorType
    BY <1>1, <2>1 DEF JustOpened, EditorType, SourcesTyped, ListType, EntryType
  <2>. QED BY <1>1, <2>1, <2>2 DEF SourcesTyped, diskVars
<1>3. ASSUME NEW w, Starts(w) PROVE SourcesTyped'
  <2>1. content' \in [Sources -> AllVersions]
    BY <1>1, <1>3, Numbers DEF SourcesTyped, Starts
  <2>2. editor' \in EditorType
    BY <1>1, <1>3, ClosedIs DEF SourcesTyped, Starts
  <2>3. writes' \in Seq(CallType) /\ Len(writes') <= MaxWrites
    BY <1>1, <1>3, Numbers DEF Starts, Begun
  <2>. QED BY <1>1, <1>3, <2>1, <2>2, <2>3 DEF SourcesTyped, Starts
<1>4. ASSUME NEW n \in DOMAIN writes, NEW w, Works(n, w) PROVE SourcesTyped'
  <2>1. content' \in [Sources -> AllVersions]
    BY <1>1, <1>4, WhoWorks DEF SourcesTyped, Works
  <2>. QED BY <1>1, <1>4, <2>1 DEF SourcesTyped, Works, Turned
<1>5. ASSUME NEW n \in DOMAIN writes, IsOver(n) PROVE SourcesTyped'
  <2>1. content' \in [Sources -> AllVersions]
    BY <1>1, <1>5, Numbers DEF SourcesTyped, IsOver
  <2>2. editor' \in EditorType /\ torn' \subseteq Sources
    BY <1>1, <1>5, PassingTypes, WrittenIs DEF IsOver, SourcesTyped
  <2>. QED BY <1>1, <1>5, <2>1, <2>2 DEF SourcesTyped, IsOver, Turned
<1>6. ASSUME NEW n \in DOMAIN writes, SaveList(n) PROVE SourcesTyped'
  <2>1. /\ writes[n].kin \subseteq Sources /\ writes[n].changed \subseteq Sources
        /\ writes[n].converted \subseteq Sources /\ listed' \in ListType /\ revision' \in [Sources -> AllVersions]
        /\ content' = content
        /\ writes' \in Seq(CallType) /\ Len(writes') = Len(writes)
    BY <1>6, SaveDoes, WhoWorks DEF Turned, CallType
  <2>2. editor' \in EditorType
    BY <1>1, <1>6, PassingTypes DEF SaveList
  <2>3. HalfRefreshed(n) \subseteq Sources
    BY <2>1 DEF HalfRefreshed
  <2>4. torn' \subseteq Sources
    BY <1>1, <1>6, <2>1, <2>3 DEF SaveList, SourcesTyped
  <2>. QED BY <1>1, <2>1, <2>2, <2>4 DEF SourcesTyped
<1>7. CASE ServerDies
  <2>1. UNION {Written(n) : n \in {m \in DOMAIN writes : writes[m].phase \in Held}} \subseteq Sources
    BY <1>1, WrittenIs
  <2>2. torn' \subseteq Sources
    BY <1>1, <1>7, <2>1 DEF ServerDies, SourcesTyped
  <2>. QED BY <1>1, <1>7, <2>2, DeathIs, ClosedIs DEF SourcesTyped, ServerDies, diskVars
<1>. QED BY <1>2, <1>3, <1>4, <1>5, <1>6, <1>7 DEF Does

-----------------------------------------------------------------------------
(* The mutexes, the versions, and what calls know *)

(* What becomes of the calls that were there, and which are new.              *)
LEMMA CallsOf ==
  ASSUME SourcesTyped
  PROVE  /\ DOMAIN writes = 1 .. Len(writes) /\ Len(writes) \in Nat
         /\ \A w : Begun(w) => DOMAIN writes' = 1 .. Len(writes) + 1
         /\ \A n, w : Turned(n, w) => DOMAIN writes' = DOMAIN writes
         /\ ServerDies => \A m \in DOMAIN writes' : ~InUse(m)'
<1>1. DOMAIN writes = 1 .. Len(writes) /\ Len(writes) \in Nat
  BY CallsAre, Numbers
<1>2. ASSUME NEW w, Begun(w) PROVE DOMAIN writes' = 1 .. Len(writes) + 1
  BY <1>2 DEF Begun
<1>3. ASSUME NEW n, NEW w, Turned(n, w) PROVE DOMAIN writes' = DOMAIN writes
  BY <1>1, <1>3 DEF Turned
<1>4. ASSUME ServerDies, NEW m \in DOMAIN writes' PROVE ~InUse(m)'
  <2>1. m \in 1 .. Len(writes')
    BY <1>4, DeathIs
  <2>. QED BY <1>4, <2>1, DeathIs, FinishedIs DEF InUse
<1>. QED BY <1>1, <1>2, <1>3, <1>4

LEMMA MutexStep == HeldInv /\ Does => MutexHeld'
<1> SUFFICES ASSUME HeldInv, Does, NEW m \in DOMAIN writes', NEW n \in DOMAIN writes',
                    InUse(m)', InUse(n)', writes'[m].kin = writes'[n].kin
             PROVE  m = n
  BY DEF MutexHeld
<1>1. SourcesTyped /\ MutexHeld
  BY DEF HeldInv
<1>2. CASE Opens
  BY <1>1, <1>2 DEF Opens, MutexHeld, InUse
<1>3. ASSUME NEW w, Starts(w) PROVE m = n
  <2>1. Begun(w)
    BY <1>3 DEF Starts
  <2>2. \A k \in 1 .. Len(writes) : InUse(k) => writes[k].kin # w.kin
    BY <1>1, <2>1, CallsOf DEF Begun, Free, InUse
  <2>3. /\ DOMAIN writes' = 1 .. Len(writes) + 1 /\ DOMAIN writes = 1 .. Len(writes)
        /\ Len(writes) \in Nat /\ writes'[Len(writes) + 1] = w
        /\ \A k \in 1 .. Len(writes) : writes'[k] = writes[k]
    BY <1>1, <2>1, CallsOf DEF Begun
  <2>4. ASSUME NEW k \in 1 .. Len(writes) + 1, k # Len(writes) + 1 PROVE k \in 1 .. Len(writes)
    BY <2>3, <2>4
  <2>5. CASE m = Len(writes) + 1 \/ n = Len(writes) + 1
    BY <2>2, <2>3, <2>4, <2>5 DEF InUse
  <2>6. CASE m # Len(writes) + 1 /\ n # Len(writes) + 1
    BY <1>1, <2>3, <2>4, <2>6 DEF MutexHeld, InUse
  <2>. QED BY <2>5, <2>6
<1>4. ASSUME NEW k \in DOMAIN writes, NEW w, InUse(k), Turned(k, w),
             w.phase \in Held => w.kin = writes[k].kin
      PROVE  m = n
  BY <1>1, <1>4, CallsOf DEF Turned, MutexHeld, InUse
<1>5. ASSUME NEW k \in DOMAIN writes, NEW w, Works(k, w) PROVE m = n
  BY <1>4, <1>5 DEF Works
<1>6. ASSUME NEW k \in DOMAIN writes, IsOver(k) PROVE m = n
  BY <1>4, <1>6, FinishedIs DEF IsOver
<1>7. ASSUME NEW k \in DOMAIN writes, SaveList(k) PROVE m = n
  BY <1>4, <1>7, SaveDoes, FinishedIs
<1>8. CASE ServerDies
  BY <1>1, <1>8, CallsOf
<1>. QED BY <1>2, <1>3, <1>5, <1>6, <1>7, <1>8 DEF Does

LEMMA KnownStep == HeldInv /\ Does => VersionsKnown'
<1> DEFINE Goal(i) == /\ listed'[i].settings <= Len(writes') + 1
                      /\ listed'[i].nodes <= Len(writes') + 1
                      /\ content'[i] <= Len(writes') + 1
                      /\ revision'[i] <= Len(writes') + 1
                      /\ listed'[i] # Unlisted => listed'[i].settings # None
<1> SUFFICES ASSUME HeldInv, Does, NEW i \in Sources
             PROVE  Goal(i)
  BY DEF VersionsKnown, Listed, Version
<1>1. /\ SourcesTyped /\ Len(writes) \in Nat
      /\ listed[i].settings \in Nat /\ listed[i].nodes \in Nat
      /\ content[i] \in Nat /\ revision[i] \in Nat /\ None = 0
      /\ content \in [Sources -> AllVersions]
      /\ \A n \in DOMAIN writes : n \in 1 .. Len(writes)
  BY CallsAre, Numbers DEF HeldInv, SourcesTyped, ListType, EntryType, None
<1>2. /\ listed[i].settings <= Len(writes) + 1 /\ listed[i].nodes <= Len(writes) + 1
      /\ content[i] <= Len(writes) + 1 /\ revision[i] <= Len(writes) + 1
      /\ listed[i] # Unlisted => listed[i].settings # None
  BY <1>1 DEF HeldInv, VersionsKnown, Listed, Version
<1>3. CASE Opens
  BY <1>1, <1>2, <1>3 DEF Opens, diskVars
<1>4. ASSUME NEW w, Starts(w) PROVE Goal(i)
  <2>1. Len(writes') = Len(writes) + 1 /\ content'[i] \in {content[i], 0}
    BY <1>1, <1>4 DEF Starts, Begun
  <2>2. listed' = listed /\ revision' = revision
    BY <1>4 DEF Starts
  <2>. QED BY <1>1, <1>2, <2>1, <2>2
<1>5. ASSUME NEW n \in DOMAIN writes, NEW w, Works(n, w) PROVE Goal(i)
  <2>1. /\ Len(writes') = Len(writes) /\ content'[i] \in {content[i], n + 1}
        /\ n <= Len(writes)
    BY <1>1, <1>5 DEF Works, Turned, Version
  <2>2. listed' = listed /\ revision' = revision
    BY <1>5 DEF Works
  <2>. QED BY <1>1, <1>2, <2>1, <2>2
<1>6. ASSUME NEW n \in DOMAIN writes, IsOver(n) PROVE Goal(i)
  <2>1. Len(writes') = Len(writes) /\ content'[i] \in {content[i], 0}
    BY <1>1, <1>6 DEF IsOver, Turned
  <2>2. listed' = listed /\ revision' = revision
    BY <1>6 DEF IsOver
  <2>. QED BY <1>1, <1>2, <2>1, <2>2
<1>7. ASSUME NEW n \in DOMAIN writes, SaveList(n) PROVE Goal(i)
  <2> DEFINE w == writes[n]
  <2>1. /\ w.phase \in {"fetching", "saving"} /\ InUse(n) /\ content' = content
        /\ listed'[i] = IF i \in w.kin THEN w.loaded[i] ELSE listed[i]
        /\ revision'[i] \in {Version(n), revision[i]}
        /\ Len(writes') = Len(writes) /\ n <= Len(writes) /\ n \in Nat
    BY <1>1, <1>7, SaveDoes DEF Turned
  <2>2. w.kin \subseteq Sources
    BY <1>7, SaveDoes
  <2>3. \A j \in Sources : listed[j] # Unlisted => listed[j].settings # None
    BY DEF HeldInv, VersionsKnown, Listed
  <2>4. i \in w.kin => /\ w.loaded[i].settings <= Version(n) /\ w.loaded[i].nodes <= Version(n)
                       /\ w.loaded[i] # Unlisted => w.loaded[i].settings # None
    BY <1>7, <2>1, <2>2, <2>3, WhoWorks, LoadedIsKnown
  <2>5. i \in w.kin => w.loaded[i].settings \in Nat /\ w.loaded[i].nodes \in Nat
    BY <1>7, WhoWorks, Numbers DEF ListType, EntryType
  <2>6. Version(n) = n + 1
    BY DEF Version
  <2>. QED BY <1>1, <1>2, <2>1, <2>4, <2>5, <2>6
<1>8. CASE ServerDies
  <2>1. Len(writes') = Len(writes) + 1 /\ UNCHANGED <<diskVars, revision>>
    BY <1>1, <1>8, DeathIs DEF ServerDies
  <2>. QED BY <1>1, <1>2, <2>1 DEF diskVars
<1>. QED BY <1>3, <1>4, <1>5, <1>6, <1>7, <1>8 DEF Does

(* A call that holds the mutex of another list knows of none of this.         *)
LEMMA OthersKnow ==
  ASSUME HeldInv, NEW m \in DOMAIN writes, InUse(m), writes'[m] = writes[m],
         NEW kin \in {Subscriptions, RuleSets}, writes[m].kin # kin,
         \A i \in Sources \ kin : /\ listed'[i] = listed[i] /\ content'[i] = content[i]
                                  /\ revision'[i] = revision[i]
  PROVE  Knows(m, writes'[m], listed', content', revision')
<1>1. /\ writes[m] \in CallType /\ m \in Nat
      /\ Knows(m, writes[m], listed, content, revision)
  BY WhoWorks
<1>2. writes[m].kin \subseteq Sources \ kin
  BY <1>1, Kins DEF CallType
<1>3. Knows(m, writes[m], listed', content', revision')
  BY <1>1, <1>2, KnowsItsKin
<1>. QED BY <1>3

LEMMA KnowsStep == HeldInv /\ Does => WritesKnow'
<1> SUFFICES ASSUME HeldInv, Does, NEW m \in DOMAIN writes', InUse(m)'
             PROVE  Knows(m, writes'[m], listed', content', revision')
  BY DEF WritesKnow
<1>1. SourcesTyped /\ MutexHeld
  BY DEF HeldInv
<1>2. CASE Opens
  BY <1>1, <1>2, WhoWorks DEF Opens, InUse, diskVars
<1>3. ASSUME NEW w, Starts(w) PROVE Knows(m, writes'[m], listed', content', revision')
  <2>1. Begun(w) /\ listed' = listed /\ revision' = revision
    BY <1>3 DEF Starts
  <2>2. /\ DOMAIN writes' = 1 .. Len(writes) + 1 /\ DOMAIN writes = 1 .. Len(writes)
        /\ Len(writes) \in Nat
    BY <1>1, <2>1, CallsOf
  <2>3. CASE m = Len(writes) + 1
    BY <1>3, <2>1, <2>3 DEF Starts, Begun
  <2>4. CASE m # Len(writes) + 1
    <3>1. m \in DOMAIN writes /\ writes'[m] = writes[m] /\ InUse(m)
      BY <2>1, <2>2, <2>4 DEF Begun, InUse
    <3>2. w.kin \in {Subscriptions, RuleSets} /\ writes[m].kin # w.kin
      BY <2>1, <3>1 DEF Begun, CallType, Free, InUse
    <3>3. w.id \in w.kin
      BY <1>3, <2>1, Kins DEF Starts, Knows, Touches, Begun, CallType
    <3>4. \A i \in Sources \ w.kin : content'[i] = content[i]
      BY <1>1, <1>3, <3>3 DEF Starts, SourcesTyped
    <3>. QED BY <2>1, <3>1, <3>2, <3>4, OthersKnow
  <2>. QED BY <2>3, <2>4
<1>4. ASSUME NEW n \in DOMAIN writes, InUse(n), NEW w, Turned(n, w),
             w.phase \in Held => Knows(n, w, listed', content', revision'),
             \A i \in Sources \ writes[n].kin :
               /\ listed'[i] = listed[i] /\ content'[i] = content[i]
               /\ revision'[i] = revision[i]
      PROVE  Knows(m, writes'[m], listed', content', revision')
  <2>1. m \in DOMAIN writes /\ DOMAIN writes = 1 .. Len(writes)
    BY <1>1, <1>4, CallsOf
  <2>2. CASE m = n
    BY <1>4, <2>2 DEF Turned, InUse
  <2>3. CASE m # n
    <3>1. writes'[m] = writes[m] /\ InUse(m)
      BY <1>4, <2>1, <2>3 DEF Turned, InUse
    <3>2. writes[n].kin \in {Subscriptions, RuleSets} /\ writes[m].kin # writes[n].kin
      BY <1>1, <1>4, <2>1, <2>3, <3>1, WhoWorks DEF MutexHeld, CallType
    <3>. QED BY <1>4, <2>1, <3>1, <3>2, OthersKnow
  <2>. QED BY <2>2, <2>3
<1>5. ASSUME NEW n \in DOMAIN writes, InUse(n)
      PROVE  /\ writes[n].id \in writes[n].kin
             /\ content \in [Sources -> AllVersions]
  BY <1>5, WhoWorks, Kins DEF Knows, Touches
<1>6. ASSUME NEW n \in DOMAIN writes, NEW w, Works(n, w)
      PROVE  Knows(m, writes'[m], listed', content', revision')
  <2>1. InUse(n) /\ Turned(n, w) /\ Knows(n, w, listed', content', revision')
    BY <1>6 DEF Works
  <2>2. \A i \in Sources \ writes[n].kin :
          /\ listed'[i] = listed[i] /\ content'[i] = content[i]
          /\ revision'[i] = revision[i]
    BY <1>5, <1>6, <2>1 DEF Works
  <2>. QED BY <1>4, <2>1, <2>2
<1>7. ASSUME NEW n \in DOMAIN writes, IsOver(n)
      PROVE  Knows(m, writes'[m], listed', content', revision')
  <2>1. InUse(n) /\ Turned(n, Finished) /\ Finished.phase \notin Held
    BY <1>7, FinishedIs DEF IsOver
  <2>2. \A i \in Sources \ writes[n].kin :
          /\ listed'[i] = listed[i] /\ content'[i] = content[i]
          /\ revision'[i] = revision[i]
    BY <1>5, <1>7, <2>1 DEF IsOver
  <2>. QED BY <1>4, <2>1, <2>2
<1>8. ASSUME NEW n \in DOMAIN writes, SaveList(n)
      PROVE  Knows(m, writes'[m], listed', content', revision')
  <2>1. /\ InUse(n) /\ content' = content
        /\ Moved(n) \subseteq writes[n].kin
        /\ \A i \in Sources \ writes[n].kin : listed'[i] = listed[i] /\ revision'[i] = revision[i]
        /\ \/ Turned(n, Finished)
           \/ \E w : Turned(n, w) /\ Knows(n, w, listed', content', revision')
    BY <1>8, SaveDoes
  <2>. QED BY <1>4, <1>8, <2>1, FinishedIs
<1>9. CASE ServerDies
  BY <1>1, <1>9, CallsOf
<1>. QED BY <1>2, <1>3, <1>6, <1>7, <1>8, <1>9 DEF Does

LEMMA HeldInit == SourcesInit => HeldInv
<1> SUFFICES ASSUME SourcesInit PROVE HeldInv
  OBVIOUS
<1>1. writes = <<>> /\ Len(writes) = 0 /\ DOMAIN writes = {}
  BY DEF SourcesInit
<1>2. Entry(First, First) \in EntryType
  BY Numbers, Entries
<1>3. listed \in ListType /\ \A i \in Sources : listed[i] = Entry(First, First)
  BY <1>2 DEF SourcesInit, ListType
<1>4. SourcesTyped
  BY <1>1, <1>3, ClosedIs, Numbers, EmptySeq DEF SourcesInit, SourcesTyped
<1>5. MutexHeld /\ WritesKnow
  BY <1>1 DEF MutexHeld, WritesKnow
<1>6. VersionsKnown
  BY <1>1, <1>3 DEF VersionsKnown, SourcesInit, Entry, First, None, Version
<1>. QED BY <1>4, <1>5, <1>6 DEF HeldInv

LEMMA HeldStep == HeldInv /\ [SourcesNext]_sourcesVars => HeldInv'
<1>1. CASE SourcesNext
  BY <1>1, StepDoes, SourcesTypesStep, MutexStep, KnownStep, KnowsStep DEF HeldInv
<1>2. CASE UNCHANGED sourcesVars
  BY <1>2 DEF HeldInv, SourcesTyped, MutexHeld, VersionsKnown, WritesKnow, InUse, Listed,
     sourcesVars, diskVars
<1>. QED BY <1>1, <1>2

LEMMA HeldHolds == SourcesSpec => []HeldInv
  BY HeldInit, HeldStep, PTL DEF SourcesSpec

(* One call at a time holds subscriptionsMu, and one rulesetsMu: from the load of *)
(* a list, over the waits for the network, to its save.                       *)
THEOREM OneCallHolds == SourcesSpec => []MutexHeld
<1>1. HeldInv => MutexHeld
  BY DEF HeldInv
<1>. QED BY <1>1, HeldHolds, PTL

(* Lists, files, calls and editors keep their types, and versions their bound.  *)
THEOREM SourcesTypes == SourcesSpec => []SourcesTypeOK
<1>1. HeldInv => SourcesTypeOK
  BY TypesAre DEF HeldInv
<1>. QED BY <1>1, HeldHolds, PTL

-----------------------------------------------------------------------------
(* What calls have written before they save their list *)

BeingWritten(i) == \E n \in DOMAIN writes : InUse(n) /\ i \in Written(n)

(* What call n with record w has written, when c are the contents.            *)
WrittenOf(n, w, c) ==
  {i \in w.kin : c[i] = Version(n) \/ (w.op = "delete" /\ i \in w.changed \cap RuleSets)}

LEMMA WrittenOfCall ==
  \A n : /\ Written(n) = WrittenOf(n, writes[n], content)
         /\ Written(n)' = WrittenOf(n, writes'[n], content')
  BY DEF Written, WrittenOf

(* A call that begins or goes on writes what it writes, and all it had written. *)
LEMMA WrittenWhenStarted ==
  ASSUME HeldInv, NEW w, Starts(w), NEW i \in Sources
  PROVE  /\ content'[i] = content[i] \/ BeingWritten(i)'
         /\ BeingWritten(i) => BeingWritten(i)'
<1> DEFINE n == Len(writes) + 1
<1>1. /\ SourcesTyped /\ content \in [Sources -> AllVersions]
      /\ w \in CallType /\ writes'[n] = w /\ n \in DOMAIN writes' /\ w.phase \in Held
      /\ Knows(n, w, listed, content', revision)
      /\ DOMAIN writes \subseteq DOMAIN writes'
      /\ \A m \in DOMAIN writes : writes'[m] = writes[m]
  <2>1. SourcesTyped /\ Begun(w)
    BY DEF HeldInv, Starts
  <2>2. /\ DOMAIN writes = 1 .. Len(writes) /\ Len(writes) \in Nat
        /\ DOMAIN writes' = 1 .. Len(writes) + 1
    BY <2>1, CallsOf
  <2>3. DOMAIN writes \subseteq DOMAIN writes' /\ n \in DOMAIN writes'
    BY <2>2
  <2>. QED BY <2>1, <2>2, <2>3 DEF SourcesTyped, Starts, Begun
<1>2. ASSUME content'[i] # content[i] PROVE BeingWritten(i)'
  <2>1. w.op = "delete" /\ w.id \in RuleSets /\ i = w.id
    BY <1>1, <1>2 DEF Starts
  <2>2. w.changed = {i} /\ i \in w.kin
    BY <1>1, <2>1, Kins DEF Knows, Touches, OneEdit, Refreshing, CallType
  <2>3. i \in WrittenOf(n, w, content')
    BY <2>1, <2>2 DEF WrittenOf
  <2>. QED BY <1>1, <2>3, WrittenOfCall DEF BeingWritten, InUse
<1>3. ASSUME content'[i] = content[i], NEW m \in DOMAIN writes, InUse(m), i \in Written(m)
      PROVE  BeingWritten(i)'
  <2>1. i \in WrittenOf(m, writes'[m], content')
    BY <1>1, <1>3, WrittenOfCall DEF WrittenOf
  <2>. QED BY <1>1, <1>3, <2>1, WrittenOfCall DEF BeingWritten, InUse
<1>. QED BY <1>2, <1>3 DEF BeingWritten

LEMMA WrittenWhenWorking ==
  ASSUME HeldInv, NEW n \in DOMAIN writes, NEW w, Works(n, w), NEW i \in Sources
  PROVE  /\ content'[i] = content[i] \/ BeingWritten(i)'
         /\ BeingWritten(i) => BeingWritten(i)'
<1>1. /\ SourcesTyped /\ content \in [Sources -> AllVersions]
      /\ writes'[n] = w /\ w.phase \in Held /\ InUse(n)
      /\ w.kin = writes[n].kin /\ w.op = writes[n].op
      /\ writes[n].changed \subseteq w.changed
      /\ Knows(n, writes[n], listed, content, revision) /\ writes[n] \in CallType
      /\ DOMAIN writes = DOMAIN writes'
      /\ \A m \in DOMAIN writes : m # n => writes'[m] = writes[m]
  BY CallsOf, WhoWorks DEF Works, Turned
<1>2. ASSUME content'[i] # content[i] PROVE BeingWritten(i)'
  <2>1. i = writes[n].id /\ content'[i] = Version(n)
    BY <1>1, <1>2 DEF Works
  <2>2. i \in w.kin
    BY <1>1, <2>1, Kins DEF Knows, Touches
  <2>3. i \in WrittenOf(n, w, content')
    BY <2>1, <2>2 DEF WrittenOf
  <2>. QED BY <1>1, <2>3, WrittenOfCall DEF BeingWritten, InUse
<1>3. ASSUME content'[i] = content[i], NEW m \in DOMAIN writes, InUse(m), i \in Written(m)
      PROVE  BeingWritten(i)'
  <2>1. i \in WrittenOf(m, writes'[m], content')
    BY <1>1, <1>3, WrittenOfCall DEF WrittenOf
  <2>2. InUse(m)'
    BY <1>1, <1>3 DEF InUse
  <2>. QED BY <1>1, <2>1, <2>2, WrittenOfCall DEF BeingWritten
<1>. QED BY <1>2, <1>3 DEF BeingWritten

(* The end of a call leaves what others have written.                         *)
LEMMA WrittenByOthers ==
  ASSUME HeldInv, NEW n \in DOMAIN writes, NEW w, Turned(n, w), NEW i \in Sources,
         content'[i] = content[i], i \notin Written(n), BeingWritten(i)
  PROVE  BeingWritten(i)'
<1>1. PICK m \in DOMAIN writes : InUse(m) /\ i \in Written(m)
  BY DEF BeingWritten
<1>2. m # n /\ m \in DOMAIN writes' /\ writes'[m] = writes[m]
  BY <1>1, CallsOf DEF HeldInv, Turned
<1>3. i \in WrittenOf(m, writes'[m], content')
  BY <1>1, <1>2, WrittenOfCall DEF WrittenOf
<1>. QED BY <1>1, <1>2, <1>3, WrittenOfCall DEF BeingWritten, InUse

(* A call that saves its list has changed what it has written.                *)
LEMMA SaversHaveChanged ==
  ASSUME HeldInv, NEW n \in DOMAIN writes, SaveList(n), NEW i \in Written(n)
  PROVE  i \in writes[n].changed
<1> DEFINE w == writes[n]
<1>1. /\ InUse(n) /\ w \in CallType /\ n \in Nat /\ Knows(n, w, listed, content, revision)
      /\ content \in [Sources -> AllVersions] /\ w.kin \subseteq Sources
  BY SaveDoes, WhoWorks
<1>2. CASE content[i] = Version(n)
  <2>1. i \in w.kin /\ ~(content[i] <= n)
    BY <1>1, <1>2 DEF Written, Version
  <2>2. CASE OneEdit(n, w, listed, content)
    BY <2>1, <2>2 DEF OneEdit
  <2>3. CASE Refreshing(n, w, listed, content)
    BY <2>1, <2>3 DEF Refreshing, Aligned
  <2>. QED BY <1>1, <2>2, <2>3 DEF Knows
<1>3. CASE content[i] # Version(n)
  BY <1>3 DEF Written
<1>. QED BY <1>2, <1>3

(* What a refresh has written, its entry in memory agrees with.                 *)
LEMMA RefreshersAreAligned ==
  ASSUME HeldInv, NEW n \in DOMAIN writes, SaveList(n), NEW i \in Written(n),
         Refreshing(n, writes[n], listed, content)
  PROVE  i \in Aligned(writes[n])
<1>1. n \in Nat /\ writes[n].kin \subseteq Sources /\ content \in [Sources -> AllVersions]
  BY SaveDoes, WhoWorks
<1>2. i \in writes[n].kin /\ content[i] = n + 1
  BY DEF Written, Refreshing, Version
<1>3. ~(content[i] <= n)
  BY <1>1, <1>2
<1>. QED BY <1>2, <1>3 DEF Refreshing

(* A source of the kin of a call is not being written by another.             *)
LEMMA WritersHold ==
  ASSUME HeldInv, NEW n \in DOMAIN writes, InUse(n), NEW i \in writes[n].kin,
         BeingWritten(i)
  PROVE  i \in Written(n)
<1>1. PICK m \in DOMAIN writes : InUse(m) /\ i \in Written(m)
  BY DEF BeingWritten
<1>2. /\ i \in writes[m].kin
      /\ writes[m].kin \in {Subscriptions, RuleSets}
      /\ writes[n].kin \in {Subscriptions, RuleSets}
  BY <1>1, WhoWorks, WrittenIs DEF CallType
<1>3. writes[m].kin = writes[n].kin
  BY <1>2, Kins
<1>. QED BY <1>1, <1>3 DEF HeldInv, MutexHeld

-----------------------------------------------------------------------------
(* Entries and their contents *)

(* The entry of a source that nothing has torn from its file describes it,       *)
(* unless a call has written the file and not yet the entry.                   *)
EntriesAgree == \A i \in Sources \ torn : Listed(i) => listed[i].nodes = content[i] \/ BeingWritten(i)

AgreeInv == HeldInv /\ EntriesAgree

(* What the list that is saved says of a source that nothing has torn.          *)
LEMMA SavedAgrees ==
  ASSUME AgreeInv, NEW n \in DOMAIN writes, SaveList(n), NEW i \in writes[n].kin,
         i \notin torn',
         writes[n].loaded[i] # Unlisted
  PROVE  writes[n].loaded[i].nodes = content[i]
<1> DEFINE w == writes[n]
<1>1. /\ HeldInv /\ InUse(n) /\ w \in CallType /\ n \in Nat
      /\ Knows(n, w, listed, content, revision)
      /\ content \in [Sources -> AllVersions] /\ i \in Sources
      /\ w.phase \in {"fetching", "saving"}
  BY SaveDoes, WhoWorks DEF AgreeInv
<1>2. ASSUME i \notin torn, Listed(i), i \notin Written(n) PROVE listed[i].nodes = content[i]
  BY <1>1, <1>2, WritersHold DEF AgreeInv, EntriesAgree
<1>3. /\ w.op = "settings" => i \notin torn
      /\ w.op = "create" => i \notin torn /\ (i \in w.changed => content[i] = None)
      /\ w.op \notin {"settings", "create"} =>
           /\ i \notin HalfRefreshed(n) /\ i \notin w.converted
           /\ i \notin w.changed => i \notin torn
  BY DEF SaveList
<1>4. i \notin w.changed => i \notin Written(n)
  BY <1>1, SaversHaveChanged
<1>5. CASE OneEdit(n, w, listed, content)
  <2>1. CASE i # w.id
    <3>1. i \notin w.changed /\ w.loaded[i] = listed[i]
      BY <1>5, <2>1 DEF OneEdit
    <3>2. i \notin torn
      BY <1>3, <3>1
    <3>. QED BY <1>2, <1>4, <3>1, <3>2 DEF Listed
  <2>2. CASE i = w.id
    <3>1. i \in w.changed /\ (content[i] = Version(n) => w.op = "content")
      BY <1>5, <2>2 DEF OneEdit
    <3>2. CASE w.op = "create"
      BY <1>1, <1>3, <1>5, <2>2, <3>1, <3>2 DEF OneEdit, EditSaves, Entry
    <3>3. CASE w.op = "settings"
      <4>1. i \notin Written(n)
        BY <3>1, <3>3 DEF Written
      <4>2. Listed(i) /\ w.loaded[i].nodes = listed[i].nodes
        BY <1>5, <2>2, <3>3 DEF OneEdit, EditSaves, Entry, Listed
      <4>. QED BY <1>2, <1>3, <3>3, <4>1, <4>2
    <3>4. CASE w.op = "content"
      BY <1>1, <1>5, <2>2, <3>4 DEF OneEdit, EditSaves, Entry
    <3>5. w.op # "delete"
      BY <1>1, <1>5, <2>2 DEF OneEdit, EditSaves
    <3>. QED BY <1>5, <3>2, <3>3, <3>4, <3>5 DEF OneEdit, EditSaves
  <2>. QED BY <2>1, <2>2
<1>6. CASE Refreshing(n, w, listed, content)
  <2>1. CASE i \in w.changed
    BY <1>3, <1>6, <2>1 DEF Refreshing, Aligned
  <2>2. CASE i \notin w.changed
    <3>1. i \notin torn /\ w.loaded[i] = listed[i]
      BY <1>3, <1>6, <2>2 DEF Refreshing, HalfRefreshed
    <3>. QED BY <1>2, <1>4, <2>2, <3>1 DEF Listed
  <2>. QED BY <2>1, <2>2
<1>. QED BY <1>1, <1>5, <1>6 DEF Knows

LEMMA AgreeStep == AgreeInv /\ Does => EntriesAgree'
<1> SUFFICES ASSUME AgreeInv, Does, NEW i \in Sources, i \notin torn', Listed(i)'
             PROVE  listed'[i].nodes = content'[i] \/ BeingWritten(i)'
  BY DEF EntriesAgree
<1>1. /\ HeldInv /\ SourcesTyped /\ content \in [Sources -> AllVersions]
      /\ i \notin torn /\ Listed(i) => listed[i].nodes = content[i] \/ BeingWritten(i)
  BY DEF AgreeInv, EntriesAgree, HeldInv, SourcesTyped
<1>2. CASE Opens
  BY <1>1, <1>2 DEF Opens, diskVars, BeingWritten, InUse, Written, Listed
<1>3. ASSUME NEW w, Starts(w) PROVE listed'[i].nodes = content'[i] \/ BeingWritten(i)'
  <2>1. listed' = listed /\ torn' = torn
    BY <1>3 DEF Starts
  <2>. QED BY <1>1, <1>3, <2>1, WrittenWhenStarted DEF Listed
<1>4. ASSUME NEW n \in DOMAIN writes, NEW w, Works(n, w)
      PROVE  listed'[i].nodes = content'[i] \/ BeingWritten(i)'
  <2>1. listed' = listed /\ torn' = torn
    BY <1>4 DEF Works
  <2>. QED BY <1>1, <1>4, <2>1, WrittenWhenWorking DEF Listed
<1>5. ASSUME NEW n \in DOMAIN writes, IsOver(n)
      PROVE  listed'[i].nodes = content'[i] \/ BeingWritten(i)'
  <2>1. /\ Turned(n, Finished) /\ listed' = listed
        /\ i \notin torn /\ i \notin Written(n) /\ Listed(i) /\ content'[i] = content[i]
    BY <1>1, <1>5 DEF IsOver, Listed
  <2>. QED BY <1>1, <1>5, <2>1, WrittenByOthers
<1>6. ASSUME NEW n \in DOMAIN writes, SaveList(n)
      PROVE  listed'[i].nodes = content'[i] \/ BeingWritten(i)'
  <2>1. /\ content' = content
        /\ listed'[i] = IF i \in writes[n].kin THEN writes[n].loaded[i] ELSE listed[i]
        /\ writes[n].changed \subseteq writes[n].kin
        /\ \E w : Turned(n, w)
    BY <1>1, <1>6, SaveDoes
  <2>2. CASE i \in writes[n].kin
    BY <1>6, <2>1, <2>2, SavedAgrees DEF Listed
  <2>3. CASE i \notin writes[n].kin
    <3>1. i \notin torn
      BY <1>6, <2>1, <2>3 DEF SaveList
    <3>2. i \notin Written(n)
      BY <2>3 DEF Written
    <3>. QED BY <1>1, <1>6, <2>1, <2>3, <3>1, <3>2, WrittenByOthers DEF Listed
  <2>. QED BY <2>2, <2>3
<1>7. CASE ServerDies
  <2>1. i \notin torn /\ ~BeingWritten(i) /\ listed' = listed /\ content' = content
    BY <1>7 DEF ServerDies, BeingWritten, InUse, diskVars
  <2>. QED BY <1>1, <2>1 DEF Listed
<1>. QED BY <1>2, <1>3, <1>4, <1>5, <1>6, <1>7 DEF Does

LEMMA AgreeStutters == UNCHANGED sourcesVars /\ EntriesAgree => EntriesAgree'
  BY DEF EntriesAgree, BeingWritten, InUse, Written, Listed, sourcesVars, diskVars

LEMMA AgreeHolds == SourcesSpec => []AgreeInv
<1>1. SourcesInit => EntriesAgree
  BY DEF SourcesInit, EntriesAgree, Entry
<1>2. AgreeInv /\ [SourcesNext]_sourcesVars => AgreeInv'
  BY StepDoes, AgreeStep, AgreeStutters, HeldStep DEF AgreeInv
<1>. QED BY <1>1, <1>2, HeldInit, PTL DEF SourcesSpec, AgreeInv

(* When no call is under way, the entry of a source describes its file, unless  *)
(* a step between writing the one and the other has failed, or a script has made *)
(* the entry of a subscription edited by hand, and nothing has mended it since.  *)
THEOREM EntriesDescribeFiles == SourcesSpec => []SourcesAgree
<1>1. AgreeInv => SourcesAgree
  <2> SUFFICES ASSUME AgreeInv, Free(Subscriptions), Free(RuleSets),
                      NEW i \in Sources \ torn, Listed(i), BeingWritten(i)
               PROVE  FALSE
    BY DEF SourcesAgree, AgreeInv, EntriesAgree
  <2>1. PICK n \in DOMAIN writes : InUse(n)
    BY DEF BeingWritten
  <2>2. writes[n].kin \in {Subscriptions, RuleSets}
    BY WhoWorks DEF AgreeInv, CallType
  <2>. QED BY <2>1, <2>2 DEF Free, InUse
<1>. QED BY <1>1, AgreeHolds, PTL

-----------------------------------------------------------------------------
(* What is in a list is not undone *)

Keeps(i) ==
  /\ Listed(i) /\ Listed(i)' =>
       /\ listed'[i].settings >= listed[i].settings
       /\ i \notin torn => listed'[i].nodes >= listed[i].nodes
  /\ Listed(i) # Listed(i)' =>
       \E n \in DOMAIN writes :
         /\ Is(n, "saving") /\ writes[n].id = i
         /\ writes[n].op = (IF Listed(i) THEN "delete" ELSE "create")

LEMMA KeptIfSame ==
  ASSUME SourcesTyped, NEW i \in Sources, listed'[i] = listed[i]
  PROVE  Keeps(i)
<1>1. listed[i].settings \in Nat /\ listed[i].nodes \in Nat
  BY Numbers DEF SourcesTyped, ListType, EntryType
<1>2. Listed(i)' = Listed(i)
  BY DEF Listed
<1>. QED BY <1>1, <1>2 DEF Keeps

LEMMA SavedKeeps ==
  ASSUME AgreeInv, NEW n \in DOMAIN writes, SaveList(n), NEW i \in writes[n].kin
  PROVE  Keeps(i)
<1> DEFINE w == writes[n]
           old == listed[i]
           new == w.loaded[i]
<1>1. /\ HeldInv /\ InUse(n) /\ w \in CallType /\ n \in Nat
      /\ Knows(n, w, listed, content, revision)
      /\ i \in Sources /\ w.phase \in {"fetching", "saving"} /\ listed'[i] = new
      /\ Version(n) = n + 1
  BY SaveDoes, WhoWorks DEF AgreeInv, Version
<1>2. /\ old.settings \in Nat /\ old.nodes \in Nat /\ content[i] \in Nat
      /\ new.settings \in Nat /\ new.nodes \in Nat
      /\ old.settings <= n /\ old.nodes <= n /\ n \in Nat
  BY <1>1, WhoWorks, Numbers DEF ListType, EntryType, Knows, Older
<1>3. old # Unlisted => old.settings # None
  BY <1>1 DEF HeldInv, VersionsKnown, Listed
<1>4. (Listed(i) <=> old # Unlisted) /\ (Listed(i)' <=> new # Unlisted)
  BY <1>1 DEF Listed
<1>5. i \notin torn /\ Listed(i) /\ i \notin Written(n) => old.nodes = content[i]
  BY <1>1, WritersHold DEF AgreeInv, EntriesAgree
<1>0. ASSUME old # Unlisted, new # Unlisted, new.settings >= old.settings,
             i \notin torn => new.nodes >= old.nodes
      PROVE  Keeps(i)
  BY <1>1, <1>4, <1>0 DEF Keeps
<1>6. CASE new = old
  BY <1>1, <1>6, KeptIfSame DEF HeldInv
<1>7. CASE OneEdit(n, w, listed, content) /\ new # old
  <2>1. i = w.id
    BY <1>7 DEF OneEdit
  <2>2. CASE w.op = "create" \/ w.op = "delete"
    <3>1. Is(n, "saving") /\ w.op = (IF Listed(i) THEN "delete" ELSE "create")
      BY <1>1, <1>4, <1>7, <2>1, <2>2 DEF OneEdit, EditSaves, Is
    <3>2. ~(Listed(i) /\ Listed(i)')
      BY <1>1, <1>4, <1>7, <2>1, <2>2 DEF OneEdit, EditSaves
    <3>. QED BY <2>1, <3>1, <3>2 DEF Keeps
  <2>3. CASE w.op = "settings"
    <3>1. old # Unlisted /\ new.settings = n + 1 /\ new.nodes = old.nodes
      BY <1>1, <1>7, <2>1, <2>3 DEF OneEdit, EditSaves, Entry
    <3>2. new # Unlisted
      BY <1>1, <3>1 DEF Unlisted, Entry, None
    <3>. QED BY <1>0, <1>2, <3>1, <3>2
  <2>4. CASE w.op = "content"
    <3>1. old # Unlisted /\ new.settings = old.settings /\ new.nodes = n + 1
      BY <1>1, <1>7, <2>1, <2>4 DEF OneEdit, EditSaves, Entry
    <3>2. new # Unlisted
      BY <1>1, <3>1 DEF Unlisted, Entry, None
    <3>. QED BY <1>0, <1>2, <3>1, <3>2
  <2>. QED BY <1>7, <2>2, <2>3, <2>4 DEF OneEdit, EditSaves
<1>8. CASE Refreshing(n, w, listed, content) /\ new # old
  <2>1. /\ new.settings \in {old.settings, n + 1} /\ old # Unlisted
        /\ new.nodes \in {old.nodes, n + 1, content[i]}
    <3>1. new.settings \in {old.settings, Version(n)} /\ old # Unlisted
      BY <1>8 DEF Refreshing
    <3>2. CASE i \in Aligned(w)
      BY <1>1, <1>8, <3>1, <3>2 DEF Refreshing
    <3>3. CASE i \notin Aligned(w)
      BY <1>1, <1>8, <3>1, <3>3 DEF Refreshing
    <3>. QED BY <3>2, <3>3
  <2>2. new # Unlisted
    BY <1>1, <1>2, <1>3, <2>1 DEF Unlisted, Entry, None
  <2>3. i \notin torn => new.nodes >= old.nodes
    <3>1. i \in Written(n) => content[i] = n + 1
      BY <1>1, <1>8 DEF Refreshing, Written
    <3>2. CASE i \in Written(n)
      <4>1. i \in Aligned(w)
        BY <1>1, <1>8, <3>2, RefreshersAreAligned
      <4>2. new.nodes = content[i]
        BY <1>8, <4>1 DEF Refreshing
      <4>. QED BY <1>2, <3>1, <3>2, <4>2
    <3>3. CASE i \notin Written(n)
      BY <1>2, <1>4, <1>5, <2>1, <3>3
    <3>. QED BY <3>2, <3>3
  <2>4. new.settings >= old.settings
    BY <1>2, <2>1
  <2>. QED BY <1>0, <2>1, <2>2, <2>3, <2>4
<1>. QED BY <1>1, <1>6, <1>7, <1>8 DEF Knows

LEMMA StepKeeps ==
  ASSUME AgreeInv, Does, NEW i \in Sources
  PROVE  Keeps(i)
<1>1. SourcesTyped /\ HeldInv
  BY DEF AgreeInv, HeldInv
<1>2. ASSUME listed' = listed PROVE Keeps(i)
  BY <1>1, <1>2, KeptIfSame
<1>3. ASSUME NEW n \in DOMAIN writes, SaveList(n) PROVE Keeps(i)
  <2>1. i \notin writes[n].kin => listed'[i] = listed[i]
    BY <1>1, <1>3, SaveDoes
  <2>. QED BY <1>1, <1>3, <2>1, SavedKeeps, KeptIfSame
<1>. QED BY <1>2, <1>3 DEF Does, Opens, Starts, Works, IsOver, ServerDies, diskVars

(* Whatever refreshes, edits and failures meet, no save of a list replaces an     *)
(* entry by something older, brings back what was deleted, or loses what was     *)
(* added.                                                                    *)
THEOREM ListsAreNotUndone == SourcesSpec => NothingIsUndone
<1>1. AgreeInv /\ SourcesNext => \A i \in Sources : Keeps(i)
  BY StepDoes, StepKeeps DEF AgreeInv
<1>2. AgreeInv /\ [SourcesNext]_sourcesVars =>
        [\A i \in Sources : Keeps(i)]_sourcesVars
  BY <1>1
<1>3. (\A i \in Sources : Keeps(i)) =>
        \A i \in Sources :
          /\ Listed(i) /\ Listed(i)' =>
               /\ listed'[i].settings >= listed[i].settings
               /\ i \notin torn => listed'[i].nodes >= listed[i].nodes
          /\ Listed(i) # Listed(i)' =>
               \E n \in DOMAIN writes :
                 /\ Is(n, "saving") /\ writes[n].id = i
                 /\ writes[n].op = (IF Listed(i) THEN "delete" ELSE "create")
  BY DEF Keeps
<1>. QED BY <1>2, <1>3, AgreeHolds, PTL DEF SourcesSpec, NothingIsUndone

-----------------------------------------------------------------------------
(* Editors *)

(* What an open editor shows, as long as its revision is the source's: what is   *)
(* there, or what a call has replaced that will move the revision.             *)
Sees(i) ==
  /\ editor.revision <= revision[i]
  /\ ~editor.passed /\ Listed(i) /\ editor.revision = revision[i] =>
       /\ editor.settings = listed[i].settings
       /\ editor.content = content[i] \/ BeingWritten(i)

EditorSees == editor # Closed => \A i \in Sources : i = editor.id => Sees(i)

LEMMA SaverMovesRevision ==
  ASSUME HeldInv, NEW n \in DOMAIN writes, SaveList(n), NEW i \in Moved(n)
  PROVE  revision'[i] = Version(n) /\ revision[i] < Version(n)
<1>1. /\ i \in writes[n].kin /\ i \in Sources /\ revision'[i] = Version(n)
      /\ writes[n].phase # "removing" /\ n \in Nat
      /\ Knows(n, writes[n], listed, content, revision)
  BY SaveDoes, WhoWorks
<1>2. revision[i] <= n /\ revision[i] \in Nat
  BY <1>1, Numbers DEF Knows, Older, HeldInv, SourcesTyped
<1>. QED BY <1>1, <1>2 DEF Version

(* A source whose revision stays, and that is not passed, stays as it is listed. *)
LEMMA UnmovedStays ==
  ASSUME HeldInv, NEW n \in DOMAIN writes, SaveList(n), NEW i \in Sources,
         i \notin Moved(n), i \notin RefreshedQuietly(n)
  PROVE  listed'[i] = listed[i] /\ i \notin writes[n].changed
<1> DEFINE w == writes[n]
<1>1. /\ InUse(n) /\ Knows(n, w, listed, content, revision)
      /\ listed'[i] = IF i \in w.kin THEN w.loaded[i] ELSE listed[i]
      /\ w.changed \subseteq w.kin
  BY SaveDoes, WhoWorks
<1>2. CASE w.op = "refresh"
  BY <1>1, <1>2 DEF Moved, RefreshedQuietly, HalfRefreshed
<1>3. CASE w.op # "refresh"
  BY <1>1, <1>3 DEF Moved, Knows, OneEdit, Refreshing
<1>. QED BY <1>2, <1>3

LEMMA EditorStep == HeldInv /\ EditorSees /\ Does => EditorSees'
<1> SUFFICES ASSUME HeldInv, EditorSees, Does, editor' # Closed,
                    NEW i \in Sources, i = editor'.id
             PROVE  Sees(i)'
  BY DEF EditorSees
<1>1. /\ SourcesTyped /\ content \in [Sources -> AllVersions]
      /\ editor.revision \in Nat /\ revision[i] \in Nat
      /\ editor # Closed /\ editor.id = i => Sees(i)
  BY Numbers DEF HeldInv, SourcesTyped, EditorType, EditorSees
<1>2. CASE Opens
  BY <1>1, <1>2 DEF Opens, JustOpened, diskVars, Sees
<1>3. ASSUME NEW w, Starts(w) PROVE Sees(i)'
  <2>1. listed' = listed /\ revision' = revision /\ editor' = editor
    BY <1>3 DEF Starts
  <2>2. /\ content'[i] = content[i] \/ BeingWritten(i)'
        /\ BeingWritten(i) => BeingWritten(i)'
    BY <1>3, WrittenWhenStarted
  <2>. QED BY <1>1, <2>1, <2>2 DEF Sees, Listed
<1>4. ASSUME NEW n \in DOMAIN writes, NEW w, Works(n, w) PROVE Sees(i)'
  <2>1. listed' = listed /\ revision' = revision /\ editor' = editor
    BY <1>4 DEF Works
  <2>2. /\ content'[i] = content[i] \/ BeingWritten(i)'
        /\ BeingWritten(i) => BeingWritten(i)'
    BY <1>4, WrittenWhenWorking
  <2>. QED BY <1>1, <2>1, <2>2 DEF Sees, Listed
<1>5. ASSUME NEW ids, Passes(ids)
      PROVE  /\ editor # Closed /\ editor.id = i
             /\ editor'.revision = editor.revision
             /\ editor'.settings = editor.settings /\ editor'.content = editor.content
             /\ ~editor'.passed => ~editor.passed /\ i \notin ids
  <2>1. /\ editor'.id = editor.id /\ editor'.revision = editor.revision
        /\ editor'.settings = editor.settings /\ editor'.content = editor.content
        /\ editor'.passed = (editor.passed \/ (editor # Closed /\ editor.id \in ids))
        /\ editor' \in EditorType /\ editor \in EditorType
    BY <1>1, <1>5, PassingTypes DEF SourcesTyped
  <2>2. editor # Closed
    <3>1. ASSUME editor = Closed PROVE editor' = Closed
      <4>1. editor'.passed = FALSE
        BY <2>1, <3>1, ClosedIs DEF EditorType
      <4>. QED BY <2>1, <3>1, <4>1, ClosedIs DEF EditorType
    <3>. QED BY <3>1
  <2>. QED BY <2>1, <2>2 DEF EditorType
<1>6. ASSUME NEW n \in DOMAIN writes, IsOver(n) PROVE Sees(i)'
  <2>1. /\ Turned(n, Finished) /\ listed' = listed /\ revision' = revision
        /\ Passes(Written(n))
        /\ Listed(i) => content'[i] = content[i]
    BY <1>1, <1>6 DEF IsOver
  <2>2. /\ editor # Closed /\ editor.id = i
        /\ editor'.revision = editor.revision
        /\ editor'.settings = editor.settings /\ editor'.content = editor.content
        /\ ~editor'.passed => ~editor.passed /\ i \notin Written(n)
    BY <1>5, <2>1
  <2>3. Listed(i) /\ i \notin Written(n) /\ BeingWritten(i) => BeingWritten(i)'
    BY <1>6, <2>1, WrittenByOthers
  <2>. QED BY <1>1, <2>1, <2>2, <2>3 DEF Sees, Listed
<1>7. ASSUME NEW n \in DOMAIN writes, SaveList(n) PROVE Sees(i)'
  <2>0. Passes(RefreshedQuietly(n)) /\ \E w : Turned(n, w)
    BY <1>7, SaveDoes DEF SaveList
  <2>1. /\ editor # Closed /\ editor.id = i
        /\ editor'.revision = editor.revision
        /\ editor'.settings = editor.settings /\ editor'.content = editor.content
        /\ ~editor'.passed => ~editor.passed /\ i \notin RefreshedQuietly(n)
    BY <1>5, <2>0
  <2>2. content' = content /\ revision'[i] = IF i \in Moved(n) THEN Version(n) ELSE revision[i]
    BY <1>7, SaveDoes
  <2>3. CASE i \in Moved(n)
    <3>1. revision'[i] = Version(n) /\ revision[i] < Version(n)
      BY <1>7, <2>3, SaverMovesRevision
    <3>2. Version(n) \in Nat
      BY <1>7, WhoWorks, Numbers
    <3>3. /\ editor'.revision < revision'[i] /\ editor'.revision \in Nat
          /\ revision'[i] \in Nat
      BY <1>1, <2>1, <3>1, <3>2 DEF Sees
    <3>. QED BY <3>3 DEF Sees
  <2>4. CASE i \notin Moved(n)
    <3>1. i \notin RefreshedQuietly(n) => listed'[i] = listed[i] /\ i \notin writes[n].changed
      BY <1>7, <2>4, UnmovedStays
    <3>2. i \notin writes[n].changed => i \notin Written(n)
      BY <1>7, SaversHaveChanged
    <3>3. i \notin Written(n) /\ BeingWritten(i) => BeingWritten(i)'
      BY <1>7, <2>0, <2>2, WrittenByOthers
    <3>. QED BY <1>1, <2>1, <2>2, <2>4, <3>1, <3>2, <3>3 DEF Sees, Listed
  <2>. QED BY <2>3, <2>4
<1>8. CASE ServerDies
  BY <1>8 DEF ServerDies
<1>. QED BY <1>2, <1>3, <1>4, <1>6, <1>7, <1>8 DEF Does

EditorInv == HeldInv /\ EditorSees

LEMMA EditorHolds == SourcesSpec => []EditorInv
<1>1. SourcesInit => EditorSees
  BY DEF SourcesInit, EditorSees
<1>2. EditorSees /\ UNCHANGED sourcesVars => EditorSees'
  BY DEF EditorSees, Sees, BeingWritten, InUse, Written, Listed, sourcesVars, diskVars
<1>3. EditorInv /\ [SourcesNext]_sourcesVars => EditorInv'
  BY <1>2, StepDoes, EditorStep, HeldStep DEF EditorInv
<1>. QED BY <1>1, <1>3, HeldInit, PTL DEF SourcesSpec, EditorInv

(* The calls that a step begins are informed. *)
Informed ==
  \A n \in DOMAIN writes' \ DOMAIN writes :
    LET w == writes'[n] IN
    ~w.passed =>
      /\ w.op \in {"settings", "delete"} => w.base = listed[w.id].settings
      /\ w.op = "content" => w.base = content[w.id]

LEMMA EditsAreInformed == EditorInv /\ Does => Informed
<1> SUFFICES ASSUME EditorInv, Does, NEW n \in DOMAIN writes', n \notin DOMAIN writes,
                    ~writes'[n].passed
             PROVE  /\ writes'[n].op \in {"settings", "delete"} =>
                         writes'[n].base = listed[writes'[n].id].settings
                    /\ writes'[n].op = "content" => writes'[n].base = content[writes'[n].id]
  BY DEF Informed
<1>1. HeldInv /\ SourcesTyped
  BY DEF EditorInv, HeldInv
<1>2. CASE Opens
  BY <1>2 DEF Opens
<1>3. ASSUME NEW m, NEW w, Turned(m, w) PROVE FALSE
  BY <1>1, <1>3, CallsOf
<1>4. ASSUME NEW w, Starts(w), w.op \in {"settings", "delete", "content"}, ~w.passed
      PROVE  w.base = IF w.op = "content" THEN content[w.id] ELSE listed[w.id].settings
  <2>1. PICK e \in Editors :
          /\ Accepted(e) /\ w.id = e.id /\ w.passed = e.passed
          /\ w.base = IF w.op = "content" THEN e.content ELSE e.settings
    BY <1>4 DEF Starts
  <2>2. CASE e = JustOpened(e.id)
    BY <2>1, <2>2 DEF JustOpened
  <2>3. CASE e = editor /\ editor # Closed
    <3>1. w.id \in Sources /\ w.id = editor.id /\ ~editor.passed
          /\ Listed(w.id) /\ editor.revision = revision[w.id]
      BY <1>1, <1>4, <2>1, <2>3 DEF SourcesTyped, EditorType, Accepted
    <3>2. /\ editor.settings = listed[w.id].settings
          /\ editor.content = content[w.id] \/ BeingWritten(w.id)
      BY <2>3, <3>1 DEF EditorInv, EditorSees, Sees
    <3>3. ~BeingWritten(w.id)
      <4>1. Free(w.kin) /\ w.kin = Kin(w.id)
        BY <1>4 DEF Starts, Begun, Knows, Touches
      <4>2. ASSUME NEW m \in DOMAIN writes, InUse(m), w.id \in Written(m) PROVE FALSE
        <5>1. writes[m].kin = w.kin
          BY <1>1, <3>1, <4>1, <4>2, WrittenIs, WhoWorks, Kins DEF CallType
        <5>. QED BY <4>1, <4>2, <5>1 DEF Free, InUse
      <4>. QED BY <4>2 DEF BeingWritten
    <3>. QED BY <2>1, <2>3, <3>2, <3>3
  <2>. QED BY <1>1, <2>2, <2>3, EditorsAre
<1>5. ASSUME NEW w, Starts(w) PROVE writes'[n] = w
  <2>1. Begun(w)
    BY <1>5 DEF Starts
  <2>2. n = Len(writes) + 1
    BY <1>1, <2>1, CallsOf
  <2>. QED BY <2>1, <2>2 DEF Begun
<1>6. CASE ServerDies
  <2>1. n \in 1 .. Len(writes')
    BY <1>1, <1>6, DeathIs
  <2>2. writes'[n].op = "any"
    BY <1>1, <1>6, <2>1, DeathIs DEF Finished
  <2>. QED BY <2>2
<1>7. ASSUME NEW m \in DOMAIN writes, SaveList(m) PROVE FALSE
  BY <1>1, <1>3, <1>7, SaveDoes
<1>8. ASSUME NEW w, Starts(w)
      PROVE  /\ writes'[n].op \in {"settings", "delete"} =>
                  writes'[n].base = listed[writes'[n].id].settings
             /\ writes'[n].op = "content" => writes'[n].base = content[writes'[n].id]
  BY <1>4, <1>5, <1>8
<1>. QED BY <1>2, <1>3, <1>6, <1>7, <1>8 DEF Does, Works, IsOver

(* An edit that is accepted, by the revision its editor holds, replaces what the *)
(* user saw, but for what a refresh or a failed save has passed it by.           *)
THEOREM EditsReplaceWhatWasSeen == SourcesSpec => SavesAreInformed
<1>1. EditorInv /\ SourcesNext => Informed
  BY StepDoes, EditsAreInformed DEF EditorInv
<1>2. EditorInv /\ [SourcesNext]_sourcesVars =>
        [\A n \in DOMAIN writes' \ DOMAIN writes :
           LET w == writes'[n] IN
           ~w.passed =>
             /\ w.op \in {"settings", "delete"} => w.base = listed[w.id].settings
             /\ w.op = "content" => w.base = content[w.id]]_sourcesVars
  BY <1>1 DEF Informed
<1>. QED BY <1>2, EditorHolds, PTL DEF SourcesSpec, SavesAreInformed
=============================================================================
