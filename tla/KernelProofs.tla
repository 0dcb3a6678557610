---------------------------- MODULE KernelProofs ----------------------------
(***************************************************************************)
(* Proofs about the requests to the kernel (Kernel), and about the files of   *)
(* the core that it starts (CoreFiles), which share no state: a run of both   *)
(* (MCKernelFiles) is one of each by itself.                                *)
(*                                                                         *)
(* Kernel, for every set of threads, profiles and failures.                  *)
(*                                                                         *)
(* CoreFiles, for any number of downloads and rollbacks, of any releases: the *)
(* types, and that the files of the core implement Installation until calls   *)
(* cross on them.  Tidy holds always: the types, that no two names are of one *)
(* file, and that whoever holds the mutex is at work.  Alone and Sound hold   *)
(* until calls cross: one call at a time replaces the core, the core and its  *)
(* backup are whole, and what a call has checked is still what it is going to *)
(* rename.                                                                  *)
(***************************************************************************)
EXTENDS MCKernelFiles, TLAPS

-----------------------------------------------------------------------------
(* The requests to the kernel *)

(* The critical sections of CoreState keep the type of the service record.    *)
LEMMA CoreStateTypes ==
  ASSUME NEW c \in CoreRecord
  PROVE  /\ {Stopped(c), Stopping(c), StopFailed(c), Abandoning(c), Closing(c),
             RequiredOnlyIfRunning(c), RestartOver(c)} \subseteq CoreRecord
         /\ [c EXCEPT !.restarting = TRUE] \in CoreRecord
         /\ \A id \in Profiles \cup {NoProfile} : Starting(c, id) \in CoreRecord
         /\ \A b \in BOOLEAN : AfterExit(c, b) \in CoreRecord
         /\ \A b \in BOOLEAN : ChangeNoted(c, b) \in CoreRecord
         /\ \A p \in PIDs \cup {NoPID} :
              StartReported(c, p) \in CoreRecord /\ Adopted(c, p) \in CoreRecord
         /\ \A p \in PIDs \cup {NoPID}, s \in Snapshot : Completed(c, p, s) \in CoreRecord
<1> USE DEF CoreRecord, Status
<1>0. NoSnap \in Snapshot /\ \A s \in Snapshot : s.id \in Profiles \cup {NoProfile}
  BY DEF NoSnap, Snapshot
<1>1. Stopped(c) \in CoreRecord /\ Stopping(c) \in CoreRecord
  BY <1>0 DEF Stopped, Stopping
<1>2. /\ StopFailed(c) \in CoreRecord /\ Abandoning(c) \in CoreRecord
      /\ Closing(c) \in CoreRecord
  BY DEF StopFailed, Abandoning, Closing
<1>3. RequiredOnlyIfRunning(c) \in CoreRecord /\ RestartOver(c) \in CoreRecord
  BY DEF RestartOver, RequiredOnlyIfRunning
<1>4. [c EXCEPT !.restarting = TRUE] \in CoreRecord
  OBVIOUS
<1>5. \A id \in Profiles \cup {NoProfile} : Starting(c, id) \in CoreRecord
  BY <1>0 DEF Starting
<1>6. \A b \in BOOLEAN : AfterExit(c, b) \in CoreRecord
  BY <1>0, ZenonT(40) DEF AfterExit
<1>7. \A b \in BOOLEAN : ChangeNoted(c, b) \in CoreRecord
  BY DEF ChangeNoted
<1>8. \A p \in PIDs \cup {NoPID} : StartReported(c, p) \in CoreRecord /\ Adopted(c, p) \in CoreRecord
  BY DEF StartReported, Adopted
<1>9. \A p \in PIDs \cup {NoPID}, s \in Snapshot : Completed(c, p, s) \in CoreRecord
  BY <1>0 DEF Completed
<1> QED
  BY <1>1, <1>2, <1>3, <1>4, <1>5, <1>6, <1>7, <1>8, <1>9

(* enqueueAutomaticRestart keeps the type of the queue.                       *)
LEMMA EnqueuedType ==
  ASSUME NEW q \in Queue, NEW id \in Profiles \cup {NoProfile}, NEW force \in BOOLEAN
  PROVE  Enqueued(q, id, force) \in Queue
<1> DEFINE target == IF ~force /\ q.executing # NoProfile THEN q.executing ELSE id
           taken  == force \/ ~q.force
<1>1. target \in Profiles \cup {NoProfile} /\ taken \in BOOLEAN
  BY DEF Queue
<1>2. Enqueued(q, id, force) =
        [q EXCEPT !.pending = TRUE, !.worker = TRUE,
                  !.target = IF taken THEN target ELSE @,
                  !.force  = IF taken THEN force ELSE @]
  BY DEF Enqueued
<1> HIDE DEF target, taken
<1> QED
  BY <1>1, <1>2 DEF Queue

(* The initial state has the type.                                            *)
LEMMA TypeInit == Init => TypeOK
<1> SUFFICES ASSUME Init PROVE TypeOK
  OBVIOUS
<1>1. svc \in CoreRecord
  <2>1. NewService \in CoreRecord
    BY DEF NewService, CoreRecord, Status, Snapshot, NoSnap
  <2>2. ASSUME Boot # NoProfile
        PROVE  RunningService(1, [id |-> Boot, rev |-> 0]) \in CoreRecord
    <3>1. Boot \in Profiles /\ 1 \in PIDs
      BY <2>2, KernelAssumption, CoreStateAssumption DEF PIDs
    <3>2. [id |-> Boot, rev |-> 0] \in Snapshot
      BY <3>1 DEF Snapshot
    <3> QED
      BY <2>1, <3>1, <3>2 DEF RunningService, CoreRecord, Status
  <2> QED
    BY <2>1, <2>2 DEF Init
<1>2. job \in [Ops -> Job]
  BY DEF Init, Job, Snapshot, NoSnap
<1>3. pc \in [Ops -> Stages] /\ note \in [Notifiers -> Note]
  BY DEF Init, Stages, Note
<1>4. /\ guard \in [PIDs -> GuardStates]
      /\ fault \in [PIDs -> {"none", "error", "unconfirmed"}]
  BY DEF Init, GuardStates
<1> QED
  BY <1>1, <1>2, <1>3, <1>4, KernelAssumption DEF Init, TypeOK, Queue, ShutStages

(* Every step keeps the type of the variables.                                *)
LEMMA TypeStep == TypeOK /\ [Next]_vars => TypeOK'
<1> SUFFICES ASSUME TypeOK, [Next]_vars PROVE TypeOK'
  OBVIOUS
<1> USE DEF TypeOK
<1>w. Worker \in Ops /\ Calls \subseteq Ops
  BY DEF Ops
<1>g. \A t \in Ops, stage \in Stages : Goto(t, stage) => pc' \in [Ops -> Stages]
  BY DEF Goto
<1>r. \A t \in Ops, ok \in BOOLEAN :
        Return(t, ok) => pc' \in [Ops -> Stages] /\ opLock' \in Ops \cup {NoOp}
  BY DEF Return, Goto, Stages
<1>l. \A t \in Ops, id \in Profiles : Load(t, id) => job' \in [Ops -> Job]
  BY DEF Load, Job, Snapshot
<1>j. \A t \in Ops : job[t].pid \in PIDs \cup {NoPID} /\ job[t].snap \in Snapshot
                    /\ job[t].snap.id \in Profiles \cup {NoProfile}
  BY DEF Job, Snapshot
<1>p. \A t \in Ops, p \in PIDs \cup {NoPID} : [job EXCEPT ![t].pid = p] \in [Ops -> Job]
  BY DEF Job
<1>i. \A t \in Ops, id \in Profiles \cup {NoProfile} :
        [job EXCEPT ![t].snap.id = id] \in [Ops -> Job]
  BY DEF Job, Snapshot
<1>s. svc.pid \in PIDs \cup {NoPID} /\ svc.active \in Profiles \cup {NoProfile}
  BY DEF CoreRecord

<1>a. \A t \in Ops : AfterHalt(t) \in Stages
  BY DEF AfterHalt, Stages
<1>c. /\ {Stopped(svc), Stopping(svc), StopFailed(svc), Abandoning(svc), Closing(svc),
          RequiredOnlyIfRunning(svc), RestartOver(svc)} \subseteq CoreRecord
      /\ [svc EXCEPT !.restarting = TRUE] \in CoreRecord
      /\ \A id \in Profiles \cup {NoProfile} : Starting(svc, id) \in CoreRecord
      /\ \A b \in BOOLEAN : AfterExit(svc, b) \in CoreRecord
      /\ \A b \in BOOLEAN : ChangeNoted(svc, b) \in CoreRecord
      /\ \A p \in PIDs \cup {NoPID} :
            StartReported(svc, p) \in CoreRecord /\ Adopted(svc, p) \in CoreRecord
      /\ \A p \in PIDs \cup {NoPID}, s \in Snapshot : Completed(svc, p, s) \in CoreRecord
  BY CoreStateTypes
<1>o. Outcomes \subseteq {"none", "error", "unconfirmed"} /\ AutoRestart \in BOOLEAN
  BY KernelAssumption
<1>n. \A n \in Notifiers : /\ note[n].id \in Profiles \cup {NoProfile}
                         /\ \A stage \in {"idle", "read", "request", "enqueue", "done"},
                               id \in Profiles \cup {NoProfile} :
                              Notify(n, stage, id) => note' \in [Notifiers -> Note]
  BY DEF Note, Notify
<1>f. Calls \subseteq Ops /\ Switches \subseteq Notifiers /\ Changes \subseteq Notifiers
  BY DEF Ops, Notifiers
<1>1. ASSUME NEW t \in Calls, StartCore(t) PROVE TypeOK'
  BY <1>1, <1>g, <1>l, <1>f DEF StartCore, Stages, others, stopping, stored
<1>2. ASSUME NEW t \in Calls, StopCore(t) PROVE TypeOK'
  BY <1>2, <1>g, <1>f DEF StopCore, Stages, others, stopping, stored
<1>3. ASSUME NEW t \in Calls, RestartCore(t) PROVE TypeOK'
  <2>1. CASE LifecycleCancelled
    BY <1>3, <2>1, <1>g, <1>f DEF RestartCore, Stages, others, stopping, stored
  <2>2. CASE ~LifecycleCancelled
    <3>1. job' \in [Ops -> Job]
      BY <1>3, <2>2, <1>i, <1>f DEF RestartCore
    <3>2. svc' \in CoreRecord
      BY <1>3, <2>2, <1>c DEF RestartCore
    <3>3. pc' \in [Ops -> Stages]
      BY <1>3, <2>2, <1>g, <1>f DEF RestartCore, Stages
    <3> QED
      BY <1>3, <3>1, <3>2, <3>3 DEF RestartCore, others, stopping, stored
  <2> QED
    BY <2>1, <2>2
<1>4. ASSUME NEW t \in Calls, BranchOperation(t) PROVE TypeOK'
  BY <1>4, <1>g, <1>i, <1>s, <1>f DEF BranchOperation, Stages, others, stopping, stored
<1>5. ASSUME NEW t \in Ops, AcquireAndLoad(t) PROVE TypeOK'
  BY <1>5, <1>g, <1>l DEF AcquireAndLoad, Stages, others, stopping, stored
<1>6. ASSUME NEW t \in Ops, AcquireAndGiveUp(t) PROVE TypeOK'
  BY <1>6, <1>r DEF AcquireAndGiveUp, others, stopping, stored
<1>7. ASSUME NEW t \in Ops, Prepare(t) PROVE TypeOK'
  BY <1>7, <1>g DEF Prepare, Stages, others, stopping, stored
<1>8. ASSUME NEW t \in Ops, PrepareFails(t) PROVE TypeOK'
  BY <1>8, <1>r, <1>c DEF PrepareFails, others, stopping, stored
<1>9. ASSUME NEW t \in Ops, Halt(t) PROVE TypeOK'
  <2>1. CASE Goto(t, AfterHalt(t)) /\ UNCHANGED <<svc, opLock, job>>
    BY <1>9, <2>1, <1>g, <1>a DEF Halt, others, stopping, stored
  <2>2. CASE /\ svc' = Stopping(svc)
             /\ job' = [job EXCEPT ![t].pid = svc.pid]
             /\ Goto(t, "kill")
             /\ UNCHANGED opLock
    <3>1. svc' \in CoreRecord /\ job' \in [Ops -> Job]
      BY <2>2, <1>c, <1>p, <1>s
    <3>2. pc' \in [Ops -> Stages]
      BY <2>2, <1>g DEF Stages
    <3> QED
      BY <1>9, <2>2, <3>1, <3>2 DEF Halt, others, stopping, stored
  <2>3. CASE Return(t, FALSE) /\ UNCHANGED <<svc, job>>
    BY <1>9, <2>3, <1>r DEF Halt, others, stopping, stored
  <2> QED
    BY <1>9, <2>1, <2>2, <2>3 DEF Halt
<1>10. ASSUME NEW t \in Ops, Kill(t) PROVE TypeOK'
  BY <1>10, <1>g, <1>c, <1>a DEF Kill, others, stopping, stored
<1>11. ASSUME NEW t \in Ops, KillFails(t) PROVE TypeOK'
  BY <1>11, <1>r, <1>c DEF KillFails, others, stopping, stored
<1>12. ASSUME NEW t \in Ops, Swap(t) PROVE TypeOK'
  BY <1>12, <1>g, <1>r DEF Swap, Stages, others, stopping, stored
<1>13. ASSUME NEW t \in Ops, Claim(t) PROVE TypeOK'
  BY <1>13, <1>g, <1>r, <1>j, <1>c DEF Claim, MySnap, Stages, others, stopping, stored
<1>14. ASSUME NEW t \in Ops, Launch(t) PROVE TypeOK'
  BY <1>14, <1>g, <1>p DEF Launch, Stages, GuardStates, others, stopping, stored
<1>15. ASSUME NEW t \in Ops, LaunchFails(t) PROVE TypeOK'
  BY <1>15, <1>r, <1>c DEF LaunchFails, others, stopping, stored
<1>16. ASSUME NEW t \in Ops, ExecStarted(t) PROVE TypeOK'
  BY <1>16, <1>g DEF ExecStarted, Stages, others, stopping, stored
<1>17. ASSUME NEW t \in Ops, ExecRefused(t) PROVE TypeOK'
  BY <1>17, <1>r, <1>c DEF ExecRefused, others, stopping, stored
<1>18. ASSUME NEW t \in Ops, ExecCancelled(t) PROVE TypeOK'
  BY <1>18, <1>g DEF ExecCancelled, Stages, others, stopping, stored
<1>19. ASSUME NEW t \in Ops, AbortEnds(t) PROVE TypeOK'
  BY <1>19, <1>r, <1>c DEF AbortEnds, others, stopping, stored
<1>20. ASSUME NEW t \in Ops, Adopt(t) PROVE TypeOK'
  BY <1>20, <1>g, <1>j, <1>c DEF Adopt, Stages, MyPID, others, stopping, stored
<1>21. ASSUME NEW t \in Ops, Probe(t) PROVE TypeOK'
  BY <1>21, <1>g DEF Probe, Stages, others, stopping, stored
<1>22. ASSUME NEW t \in Ops, ProbeFails(t) PROVE TypeOK'
  BY <1>22, <1>g, <1>c DEF ProbeFails, Stages, others, stopping, stored
<1>23. ASSUME NEW t \in Ops, Abandon(t) PROVE TypeOK'
  BY <1>23, <1>r, <1>c DEF Abandon, others, stopping, stored
<1>24. ASSUME NEW t \in Ops, CompleteStart(t) PROVE TypeOK'
  BY <1>24, <1>r, <1>j, <1>c DEF CompleteStart, MyPID, MySnap, others, stopping, stored
<1>25. ASSUME NEW t \in Ops, FinishManualRestart(t) PROVE TypeOK'
  BY <1>25, <1>g, <1>c DEF FinishManualRestart, Stages, others, stopping, stored
<1>26. CASE WorkerCheck
  BY <1>26, <1>w, <1>g DEF WorkerCheck, Stages, Queue, others, stopping, stored
<1>27. CASE WorkerLook
  <2>1. CASE queue.pending
    BY <1>27, <2>1, <1>w, <1>g DEF WorkerLook, Stages, others, stopping, stored
  <2>2. CASE ~queue.pending
    <3>1. [queue EXCEPT !.worker = FALSE] \in Queue
      BY DEF Queue
    <3> QED
      BY <1>27, <2>2, <3>1, <1>w, <1>g, <1>c DEF WorkerLook, Stages, others, stopping,
         stored
  <2> QED
    BY <2>1, <2>2
<1>28. CASE WorkerWaits
  BY <1>28, <1>w, <1>g DEF WorkerWaits, Stages, others, stopping, stored
<1>29. CASE WorkerTake
  BY <1>29, <1>w, <1>g, <1>i DEF WorkerTake, Stages, Queue, others, stopping, stored
<1>30. CASE WorkerClear
  BY <1>30, <1>w, <1>g DEF WorkerClear, Stages, Queue, others, stopping, stored
<1>31. CASE WorkerBlame
  BY <1>31, <1>w, <1>g, <1>c DEF WorkerBlame, Stages, others, stopping, stored
<1>32. ASSUME NEW n \in Notifiers, Persist(n) PROVE TypeOK'
  BY <1>32, <1>n, <1>f DEF Persist, others, stopping, stored
<1>33. ASSUME NEW n \in Notifiers, Select(n) PROVE TypeOK'
  BY <1>33, <1>n, <1>f DEF Select, others, stopping, stored
<1>34. ASSUME NEW n \in Notifiers, ReadActive(n) PROVE TypeOK'
  BY <1>34, <1>n, <1>f DEF ReadActive, others, stopping, stored
<1>35. ASSUME NEW n \in Notifiers, RequestRestart(n) PROVE TypeOK'
  BY <1>35, <1>n, <1>c, <1>f DEF RequestRestart, others, stopping, stored
<1>36. ASSUME NEW n \in Notifiers, Enqueue(n) PROVE TypeOK'
  <2>1. queue' \in Queue
    <3>1. \A force \in BOOLEAN : Enqueued(queue, note[n].id, force) \in Queue
      BY <1>n, EnqueuedType
    <3>2. (n \in Switches) \in BOOLEAN
      OBVIOUS
    <3>3. Enqueued(queue, note[n].id, n \in Switches) \in Queue
      BY <3>1, <3>2, Zenon
    <3> QED
      BY <1>36, <3>3 DEF Enqueue
  <2>2. pc' \in [Ops -> Stages]
    BY <1>36, <1>g, <1>w DEF Enqueue, Stages
  <2> QED
    BY <1>36, <2>1, <2>2, <1>c, <1>n DEF Enqueue, stopping
<1>37. ASSUME NEW p \in PIDs, GuardStarted(p) PROVE TypeOK'
  BY <1>37, <1>c DEF GuardStarted, GuardStates, others, stopping, stored
<1>38. ASSUME NEW p \in PIDs, GuardRefused(p) PROVE TypeOK'
  BY <1>38 DEF GuardRefused, GuardStates, others, stopping, stored
<1>39. ASSUME NEW p \in PIDs, CoreExits(p) PROVE TypeOK'
  BY <1>39, <1>o DEF CoreExits, GuardStates, others, stopping, stored
<1>40. ASSUME NEW p \in PIDs, HandleExit(p) PROVE TypeOK'
  BY <1>40, <1>c DEF HandleExit, GuardStates, others, stopping, stored
<1>41. ASSUME NEW p \in PIDs, Untrack(p) PROVE TypeOK'
  BY <1>41 DEF Untrack, GuardStates, others, stopping, stored
<1>42. CASE ShutBegin
  BY <1>42, <1>c DEF ShutBegin, Queue, ShutStages, Advance, operating, others, stopping,
     stored
<1>43. CASE ShutCancel
  BY <1>43, <1>c DEF ShutCancel, Queue, ShutStages, Advance, operating, others, stopping,
     stored
<1>44. CASE ShutDrain
  BY <1>44, <1>c DEF ShutDrain, Queue, ShutStages, Advance, operating, others, stopping,
     stored
<1>45. CASE ShutAgain
  BY <1>45, <1>c DEF ShutAgain, Queue, ShutStages, Advance, operating, others, stopping,
     stored
<1>46. CASE ShutGuards
  BY <1>46, <1>c DEF ShutGuards, Queue, ShutStages, Advance, operating, others, stopping,
     stored
<1>47. CASE ShutWait
  BY <1>47, <1>c DEF ShutWait, Queue, ShutStages, Advance, operating, others, stopping,
     stored
<1>48. CASE ShutFinish
  BY <1>48, <1>c DEF ShutFinish, Queue, ShutStages, Advance, operating, others, stopping,
     stored
<1>99. CASE UNCHANGED vars
  BY <1>99 DEF vars
<1> QED
  BY <1>1, <1>2, <1>3, <1>4, <1>5, <1>6, <1>7, <1>8, <1>9, <1>10, <1>11, <1>12, <1>13,
     <1>14, <1>15, <1>16, <1>17, <1>18, <1>19, <1>20, <1>21, <1>22, <1>23, <1>24, <1>25,
     <1>26, <1>27, <1>28, <1>29, <1>30, <1>31, <1>32, <1>33, <1>34, <1>35, <1>36, <1>37,
     <1>38, <1>39, <1>40, <1>41, <1>42, <1>43, <1>44, <1>45, <1>46, <1>47, <1>48, <1>99
     DEF Next, Step, WorkerStep, NotifierStep, GuardStep, ShutStep, Rest

(* The variables keep their type.                                             *)
THEOREM TypeCorrect == Spec => []TypeOK
<1> QED
  BY TypeInit, TypeStep, PTL DEF Spec


-----------------------------------------------------------------------------
(* The queue of automatic restarts.  PendingIsServed is not inductive: a      *)
(* selection that waits must name a profile, and a notifier on its way to     *)
(* enqueueAutomaticRestart must carry one.                                    *)
QueueInv ==
  /\ PendingIsServed
  /\ queue.force => queue.target # NoProfile
  /\ \A n \in Notifiers :
       note[n].at \in {"read", "request", "enqueue"} => note[n].id \in Profiles

(* Initially no restart waits and no notifier is on its way.                  *)
LEMMA QueueInit == Init => QueueInv
  BY KernelAssumption DEF Init, QueueInv, PendingIsServed, Ops

(* What the operations leave alone: whether the worker is idle, and, while    *)
(* it is not, that the service shows a restart.                               *)
OperationFrame ==
  /\ queue' = queue /\ note' = note
  /\ pc'[Worker] = "idle" <=> pc[Worker] = "idle"
  /\ queue.worker /\ svc.restarting => svc'.restarting

(* No critical section of the service but RestartOver takes back restarting.  *)
LEMMA ServiceKeepsRestarting ==
  ASSUME NEW c \in CoreRecord
  PROVE  /\ Stopped(c).restarting = c.restarting
         /\ Stopping(c).restarting = c.restarting
         /\ StopFailed(c).restarting = c.restarting
         /\ Abandoning(c).restarting = c.restarting
         /\ Closing(c).restarting = c.restarting
         /\ RequiredOnlyIfRunning(c).restarting = c.restarting
         /\ \A id : Starting(c, id).restarting = c.restarting
         /\ \A b : AfterExit(c, b).restarting = c.restarting
         /\ \A b \in BOOLEAN : ChangeNoted(c, b).restarting = (c.restarting \/ b)
         /\ \A q : StartReported(c, q).restarting = c.restarting
         /\ \A q : Adopted(c, q).restarting = c.restarting
         /\ \A q, s : Completed(c, q, s).restarting = c.restarting
  BY DEF CoreRecord, Stopped, Stopping, StopFailed, Abandoning, Closing,
     RequiredOnlyIfRunning,
         Starting, AfterExit, ChangeNoted, StartReported, Adopted, Completed

(* A thread leaves the queue to the worker and the notifiers, and only the    *)
(* worker's own steps wake it or put it to rest.                              *)
LEMMA OperationsLeaveTheQueue ==
  ASSUME TypeOK, NEW t \in Ops, Step(t) \/ ExecCancelled(t)
  PROVE  OperationFrame
<1>g. \A stage \in Stages \ {"idle"} :
        Goto(t, stage) /\ pc[t] # "idle" => (pc'[Worker] = "idle" <=> pc[Worker] = "idle")
  BY DEF Goto, TypeOK, Ops
<1>r. \A ok : Return(t, ok) /\ pc[t] # "idle" => (pc'[Worker] = "idle" <=> pc[Worker] = "idle")
  BY <1>g DEF Return, Stages
<1>a. AfterHalt(t) \in Stages \ {"idle"}
  BY DEF AfterHalt, Stages
<1>k. svc \in CoreRecord
  BY DEF TypeOK
<1>1. CASE AcquireAndLoad(t)
  BY <1>1, <1>g, <1>r, <1>a, <1>k, ServiceKeepsRestarting
     DEF AcquireAndLoad, OperationFrame, Stages, others, stored
<1>2. CASE AcquireAndGiveUp(t)
  BY <1>2, <1>g, <1>r, <1>a, <1>k, ServiceKeepsRestarting
     DEF AcquireAndGiveUp, OperationFrame, Stages, others, stored
<1>3. CASE Prepare(t)
  BY <1>3, <1>g, <1>r, <1>a, <1>k, ServiceKeepsRestarting
     DEF Prepare, OperationFrame, Stages, others, stored
<1>4. CASE PrepareFails(t)
  BY <1>4, <1>g, <1>r, <1>a, <1>k, ServiceKeepsRestarting
     DEF PrepareFails, OperationFrame, Stages, others, stored
<1>5. CASE Halt(t)
  <2>1. queue' = queue /\ note' = note
    BY <1>5 DEF Halt, others, stored
  <2>2. pc'[Worker] = "idle" <=> pc[Worker] = "idle"
    BY <1>5, <1>g, <1>r, <1>a DEF Halt, Stages
  <2>3. svc'.restarting = svc.restarting
    BY <1>5, <1>k, ServiceKeepsRestarting DEF Halt
  <2> QED
    BY <2>1, <2>2, <2>3 DEF OperationFrame
<1>6. CASE Kill(t)
  BY <1>6, <1>g, <1>r, <1>a, <1>k, ServiceKeepsRestarting
     DEF Kill, OperationFrame, Stages, others, stored
<1>7. CASE KillFails(t)
  BY <1>7, <1>g, <1>r, <1>a, <1>k, ServiceKeepsRestarting
     DEF KillFails, OperationFrame, Stages, others, stored
<1>8. CASE Swap(t)
  BY <1>8, <1>g, <1>r, <1>a, <1>k, ServiceKeepsRestarting
     DEF Swap, OperationFrame, Stages, others, stored
<1>9. CASE Claim(t)
  <2>1. queue' = queue /\ note' = note
    BY <1>9 DEF Claim, others, stored
  <2>2. pc'[Worker] = "idle" <=> pc[Worker] = "idle"
    BY <1>9, <1>g, <1>r, <1>a DEF Claim, Stages
  <2>3. svc'.restarting = svc.restarting
    BY <1>9, <1>k DEF Claim, Starting, CoreRecord
  <2> QED
    BY <2>1, <2>2, <2>3 DEF OperationFrame
<1>10. CASE Launch(t)
  BY <1>10, <1>g, <1>r, <1>a, <1>k, ServiceKeepsRestarting
     DEF Launch, OperationFrame, Stages, others, stored
<1>11. CASE LaunchFails(t)
  BY <1>11, <1>g, <1>r, <1>a, <1>k, ServiceKeepsRestarting
     DEF LaunchFails, OperationFrame, Stages, others, stored
<1>12. CASE ExecStarted(t)
  BY <1>12, <1>g, <1>r, <1>a, <1>k, ServiceKeepsRestarting
     DEF ExecStarted, OperationFrame, Stages, others, stored
<1>13. CASE ExecRefused(t)
  BY <1>13, <1>g, <1>r, <1>a, <1>k, ServiceKeepsRestarting
     DEF ExecRefused, OperationFrame, Stages, others, stored
<1>14. CASE ExecCancelled(t)
  BY <1>14, <1>g, <1>r, <1>a, <1>k, ServiceKeepsRestarting
     DEF ExecCancelled, OperationFrame, Stages, others, stored
<1>15. CASE AbortEnds(t)
  BY <1>15, <1>g, <1>r, <1>a, <1>k, ServiceKeepsRestarting
     DEF AbortEnds, OperationFrame, Stages, others, stored
<1>16. CASE Adopt(t)
  BY <1>16, <1>g, <1>r, <1>a, <1>k, ServiceKeepsRestarting
     DEF Adopt, OperationFrame, Stages, others, stored
<1>17. CASE Probe(t)
  BY <1>17, <1>g, <1>r, <1>a, <1>k, ServiceKeepsRestarting
     DEF Probe, OperationFrame, Stages, others, stored
<1>18. CASE ProbeFails(t)
  BY <1>18, <1>g, <1>r, <1>a, <1>k, ServiceKeepsRestarting
     DEF ProbeFails, OperationFrame, Stages, others, stored
<1>19. CASE Abandon(t)
  <2>1. queue' = queue /\ note' = note
    BY <1>19 DEF Abandon, others, stored
  <2>2. pc'[Worker] = "idle" <=> pc[Worker] = "idle"
    BY <1>19, <1>g, <1>r, <1>a DEF Abandon, Stages
  <2>3. svc'.restarting = svc.restarting
    BY <1>19, <1>k, ServiceKeepsRestarting DEF Abandon
  <2> QED
    BY <2>1, <2>2, <2>3 DEF OperationFrame
<1>20. CASE CompleteStart(t)
  <2>1. queue' = queue /\ note' = note
    BY <1>20 DEF CompleteStart, others, stored
  <2>2. pc'[Worker] = "idle" <=> pc[Worker] = "idle"
    BY <1>20, <1>g, <1>r, <1>a DEF CompleteStart, Stages
  <2>3. svc'.restarting = svc.restarting
    BY <1>20, <1>k DEF CompleteStart, Completed, CoreRecord
  <2> QED
    BY <2>1, <2>2, <2>3 DEF OperationFrame
<1>21. CASE FinishManualRestart(t)
  BY <1>21, <1>g, <1>r, <1>a, <1>k, ServiceKeepsRestarting
     DEF FinishManualRestart, OperationFrame, Stages, others, stored
<1> QED
  BY <1>1, <1>2, <1>3, <1>4, <1>5, <1>6, <1>7, <1>8, <1>9, <1>10, <1>11, <1>12, <1>13,
     <1>14, <1>15, <1>16, <1>17, <1>18, <1>19, <1>20, <1>21 DEF Step

(* Every step keeps QueueInv.                                                 *)
LEMMA QueueStep == TypeOK /\ QueueInv /\ [Next]_vars => QueueInv'
<1> SUFFICES ASSUME TypeOK, QueueInv, [Next]_vars PROVE QueueInv'
  OBVIOUS
<1>f. OperationFrame => QueueInv'
  BY DEF OperationFrame, QueueInv, PendingIsServed
<1>k. svc \in CoreRecord /\ queue \in Queue
  BY DEF TypeOK
<1>w. Worker \in Ops /\ \A t \in Calls : t \in Ops /\ t # Worker
  BY KernelAssumption DEF Ops
<1>1. ASSUME NEW t \in Ops, Step(t) \/ ExecCancelled(t) PROVE QueueInv'
  BY <1>1, <1>f, OperationsLeaveTheQueue
<1>2. ASSUME NEW t \in Calls, StartCore(t) PROVE QueueInv'
  BY <1>2, <1>f, <1>w, <1>k DEF StartCore, OperationFrame, Goto, TypeOK, CoreRecord,
     others, stored
<1>3. ASSUME NEW t \in Calls, StopCore(t) PROVE QueueInv'
  BY <1>3, <1>f, <1>w, <1>k DEF StopCore, OperationFrame, Goto, TypeOK, CoreRecord, others,
     stored
<1>4. ASSUME NEW t \in Calls, RestartCore(t) PROVE QueueInv'
  BY <1>4, <1>f, <1>w, <1>k DEF RestartCore, OperationFrame, Goto, TypeOK, CoreRecord,
     others, stored
<1>5. ASSUME NEW t \in Calls, BranchOperation(t) PROVE QueueInv'
  BY <1>5, <1>f, <1>w, <1>k DEF BranchOperation, OperationFrame, Goto, TypeOK, CoreRecord,
     others, stored
<1>6. CASE WorkerCheck
  <2>1. CASE LifecycleCancelled
    BY <1>6, <2>1, <1>k, <1>w
       DEF WorkerCheck, QueueInv, PendingIsServed, Goto, TypeOK, Queue, stored
  <2>2. CASE ~LifecycleCancelled
    BY <1>6, <2>2, <1>k, <1>w
       DEF WorkerCheck, QueueInv, PendingIsServed, Goto, TypeOK, stored
  <2> QED
    BY <2>1, <2>2
<1>7. CASE WorkerLook
  BY <1>7, <1>k, <1>w, ServiceKeepsRestarting DEF WorkerLook, QueueInv, PendingIsServed,
     Goto, TypeOK, Queue, others, stored
<1>8. CASE WorkerWaits
  BY <1>8, <1>k, <1>w, ServiceKeepsRestarting DEF WorkerWaits, QueueInv, PendingIsServed,
     Goto, TypeOK, Queue, others, stored
<1>9. CASE WorkerTake
  BY <1>9, <1>k, <1>w, ServiceKeepsRestarting DEF WorkerTake, QueueInv, PendingIsServed,
     Goto, TypeOK, Queue, others, stored
<1>10. CASE WorkerClear
  BY <1>10, <1>k, <1>w, ServiceKeepsRestarting DEF WorkerClear, QueueInv, PendingIsServed,
     Goto, TypeOK, Queue, others, stored
<1>11. CASE WorkerBlame
  BY <1>11, <1>k, <1>w, ServiceKeepsRestarting DEF WorkerBlame, QueueInv, PendingIsServed,
     Goto, TypeOK, Queue, others, stored
<1>12. ASSUME NEW n \in Notifiers, Persist(n) PROVE QueueInv'
  BY <1>12, <1>k, <1>w DEF Persist, QueueInv, PendingIsServed, Notify, Note, TypeOK, Queue,
     stored
<1>13. ASSUME NEW n \in Notifiers, Select(n) PROVE QueueInv'
  BY <1>13, <1>k, <1>w DEF Select, QueueInv, PendingIsServed, Notify, Note, TypeOK, Queue,
     stored
<1>14. ASSUME NEW n \in Notifiers, ReadActive(n) PROVE QueueInv'
  BY <1>14, <1>k, <1>w DEF ReadActive, QueueInv, PendingIsServed, Notify, Note, TypeOK,
     Queue, stored
<1>15. ASSUME NEW n \in Notifiers, RequestRestart(n) PROVE QueueInv'
  <2>1. queue' = queue /\ pc' = pc
    BY <1>15 DEF RequestRestart
  <2>2. svc.restarting => svc'.restarting
    BY <1>15, <1>k DEF RequestRestart, ChangeNoted, CoreRecord
  <2>3. \A m \in Notifiers : note'[m] = note[m] \/ note'[m].id = note[m].id
    BY <1>15 DEF RequestRestart, Notify, TypeOK
  <2>4. \A m \in Notifiers : note'[m] = note[m] \/ note[m].at = "request"
    BY <1>15 DEF RequestRestart, Notify, TypeOK
  <2> QED
    BY <2>1, <2>2, <2>3, <2>4 DEF QueueInv, PendingIsServed
<1>16. ASSUME NEW n \in Notifiers, Enqueue(n) PROVE QueueInv'
  <2>1. note[n].id \in Profiles /\ note[n].id # NoProfile
    BY <1>16, CoreStateAssumption DEF Enqueue, QueueInv
  <2>2. /\ queue'.worker /\ queue'.pending
        /\ queue'.target # NoProfile
    BY <1>16, <2>1, <1>k DEF Enqueue, Enqueued, Queue, QueueInv
  <2>3. svc'.restarting
    BY <1>16, <1>k DEF Enqueue, CoreRecord
  <2>4. pc'[Worker] # "idle"
    BY <1>16, <1>w DEF Enqueue, Goto, TypeOK, QueueInv, PendingIsServed
  <2>5. \A m \in Notifiers : note'[m] = note[m] \/ note'[m].at = "done"
    BY <1>16 DEF Enqueue, Notify, TypeOK
  <2> QED
    BY <2>2, <2>3, <2>4, <2>5 DEF QueueInv, PendingIsServed
<1>17. ASSUME NEW p \in PIDs, GuardStarted(p) PROVE QueueInv'
  BY <1>17, <1>f, <1>k, ServiceKeepsRestarting DEF GuardStarted, OperationFrame, others,
     stored
<1>18. ASSUME NEW p \in PIDs, GuardRefused(p) PROVE QueueInv'
  BY <1>18, <1>f, <1>k, ServiceKeepsRestarting DEF GuardRefused, OperationFrame, others,
     stored
<1>19. ASSUME NEW p \in PIDs, CoreExits(p) PROVE QueueInv'
  BY <1>19, <1>f, <1>k, ServiceKeepsRestarting DEF CoreExits, OperationFrame, others,
     stored
<1>20. ASSUME NEW p \in PIDs, HandleExit(p) PROVE QueueInv'
  BY <1>20, <1>f, <1>k, ServiceKeepsRestarting DEF HandleExit, OperationFrame, others,
     stored
<1>21. ASSUME NEW p \in PIDs, Untrack(p) PROVE QueueInv'
  BY <1>21, <1>f, <1>k, ServiceKeepsRestarting DEF Untrack, OperationFrame, others, stored
<1>22. CASE ShutBegin
  BY <1>22, <1>k, ServiceKeepsRestarting DEF ShutBegin, QueueInv, PendingIsServed, Queue,
     operating, stored
<1>23. CASE ShutCancel
  BY <1>23, <1>k, ServiceKeepsRestarting DEF ShutCancel, QueueInv, PendingIsServed, Queue,
     operating, stored
<1>24. CASE ShutDrain
  BY <1>24, <1>k, ServiceKeepsRestarting DEF ShutDrain, QueueInv, PendingIsServed, Queue,
     operating, stored
<1>25. CASE ShutAgain
  BY <1>25, <1>k, ServiceKeepsRestarting DEF ShutAgain, QueueInv, PendingIsServed, Queue,
     operating, stored
<1>26. CASE ShutGuards
  BY <1>26, <1>k, ServiceKeepsRestarting DEF ShutGuards, QueueInv, PendingIsServed, Queue,
     operating, stored
<1>27. CASE ShutWait
  BY <1>27, <1>k, ServiceKeepsRestarting DEF ShutWait, QueueInv, PendingIsServed, Queue,
     operating, stored
<1>28. CASE ShutFinish
  BY <1>28, <1>k, ServiceKeepsRestarting DEF ShutFinish, QueueInv, PendingIsServed, Queue,
     operating, stored
<1>29. CASE UNCHANGED vars
  BY <1>29, <1>f DEF OperationFrame, vars
<1> QED
  BY <1>1, <1>2, <1>3, <1>4, <1>5, <1>6, <1>7, <1>8, <1>9, <1>10, <1>11, <1>12, <1>13,
     <1>14, <1>15, <1>16, <1>17, <1>18, <1>19, <1>20, <1>21, <1>22, <1>23, <1>24, <1>25,
     <1>26, <1>27, <1>28, <1>29
     DEF Next, WorkerStep, NotifierStep, GuardStep, ShutStep, Rest

(* No restart is lost or served twice, and as long as one is under way or     *)
(* waits, the service shows that it restarts.                                 *)
THEOREM RestartsAreServed == Spec => []PendingIsServed
<1>1. Init => TypeOK /\ QueueInv
  BY TypeInit, QueueInit
<1>2. TypeOK /\ QueueInv /\ [Next]_vars => TypeOK' /\ QueueInv'
  BY TypeStep, QueueStep
<1>3. QueueInv => PendingIsServed
  BY DEF QueueInv
<1> QED
  BY <1>1, <1>2, <1>3, PTL DEF Spec

-----------------------------------------------------------------------------
(* Shutdown.  ClosingRevokes needs that a running core has a pid, so that     *)
(* BeginShutdown sees it, and for that a thread that completes a start must   *)
(* hold the pid of the core it started.                                       *)
HasCore == {"kill", "exec", "abort", "adopt", "probe", "complete", "abandon"}

Revoked(c) ==
  /\ c.closing => c.api = NoPID /\ c.status # "RUNNING"
  /\ c.status = "RUNNING" => c.pid # NoPID

ClosingInv ==
  /\ Revoked(svc)
  /\ \A t \in Ops : pc[t] \in HasCore => job[t].pid \in PIDs

(* ClosedIsFinal needs what each stage of the shutdown has reached: guards    *)
(* are refused, those that were there are waited for, and no thread comes     *)
(* back to an operation once all have left it.                                *)
ClosedInv ==
  /\ shut # "open" => svc.closing
  /\ guardsClosing <=> shut \in {"waiting", "waited", "unclean", "closed", "closedUnclean"}
  /\ guardsClosing => \A p \in PIDs \ awaited : Finished(p)
  /\ shut \in {"waited", "closed"} => \A p \in PIDs : Finished(p)
  /\ shut = "closed" => OperationsOver /\ svc.status \in {"STOPPED", "CRASHED"}
  /\ \A t \in Stops : pc[t] \in {"idle", "halt", "kill", "done"}

(* The critical sections of CoreState keep a revoked service revoked.         *)
LEMMA ServiceStaysRevoked ==
  ASSUME NEW c \in CoreRecord, Revoked(c)
  PROVE  /\ Revoked(Stopped(c)) /\ Revoked(Stopping(c)) /\ Revoked(StopFailed(c))
         /\ Revoked(Abandoning(c)) /\ Revoked(Closing(c))
         /\ Revoked(RequiredOnlyIfRunning(c)) /\ Revoked(RestartOver(c))
         /\ Revoked([c EXCEPT !.restarting = TRUE])
         /\ \A id \in Profiles \cup {NoProfile} : Revoked(Starting(c, id))
         /\ \A b \in BOOLEAN : Revoked(AfterExit(c, b)) /\ Revoked(ChangeNoted(c, b))
         /\ \A q \in PIDs : Revoked(StartReported(c, q)) /\ Revoked(Adopted(c, q))
         /\ \A q \in PIDs, s \in Snapshot : CanComplete(c, q) => Revoked(Completed(c, q, s))
<1> USE DEF CoreRecord, Revoked
<1>1. Revoked(Stopped(c)) /\ Revoked(Stopping(c)) /\ Revoked(StopFailed(c))
  BY DEF Stopped, Stopping, StopFailed
<1>2. Revoked(Abandoning(c)) /\ Revoked(Closing(c))
  BY DEF Abandoning, Closing
<1>3. Revoked(RequiredOnlyIfRunning(c)) /\ Revoked(RestartOver(c))
  BY DEF RequiredOnlyIfRunning, RestartOver
<1>4. Revoked([c EXCEPT !.restarting = TRUE])
  OBVIOUS
<1>5. \A id \in Profiles \cup {NoProfile} : Revoked(Starting(c, id))
  BY DEF Starting
<1>6. \A b \in BOOLEAN : Revoked(AfterExit(c, b)) /\ Revoked(ChangeNoted(c, b))
  BY DEF AfterExit, ChangeNoted
<1>7. \A q \in PIDs : Revoked(StartReported(c, q)) /\ Revoked(Adopted(c, q))
  BY CoreStateAssumption DEF StartReported, Adopted, PIDs, NoPID
<1>8. \A q \in PIDs, s \in Snapshot : CanComplete(c, q) => Revoked(Completed(c, q, s))
  BY CoreStateAssumption DEF CanComplete, Completed, PIDs, NoPID
<1> QED
  BY <1>1, <1>2, <1>3, <1>4, <1>5, <1>6, <1>7, <1>8

(* Initially a running core has a pid and no thread handles a core.           *)
LEMMA ClosingInit == Init => ClosingInv
  BY KernelAssumption DEF Init, ClosingInv, Revoked, HasCore, NewService, RunningService,
     NoPID

(* Every step keeps ClosingInv.                                               *)
LEMMA ClosingStep == TypeOK /\ ClosingInv /\ [Next]_vars => ClosingInv'
<1> SUFFICES ASSUME TypeOK, ClosingInv, [Next]_vars PROVE ClosingInv'
  OBVIOUS
<1> DEFINE JobKept == \A t \in Ops : pc'[t] \in HasCore => job'[t].pid \in PIDs
<1>q. Revoked(svc') /\ JobKept => ClosingInv'
  BY DEF ClosingInv
<1>k. svc \in CoreRecord /\ Revoked(svc) /\ \A t \in Ops : MyPID(t) \in PIDs \cup {NoPID}
  BY DEF TypeOK, ClosingInv, Job, MyPID
<1>s. /\ Revoked(Stopped(svc)) /\ Revoked(Stopping(svc)) /\ Revoked(StopFailed(svc))
      /\ Revoked(Abandoning(svc)) /\ Revoked(Closing(svc))
      /\ Revoked(RequiredOnlyIfRunning(svc)) /\ Revoked(RestartOver(svc))
      /\ Revoked([svc EXCEPT !.restarting = TRUE])
      /\ \A id \in Profiles \cup {NoProfile} : Revoked(Starting(svc, id))
      /\ \A b \in BOOLEAN : Revoked(AfterExit(svc, b)) /\ Revoked(ChangeNoted(svc, b))
      /\ \A p \in PIDs : Revoked(StartReported(svc, p)) /\ Revoked(Adopted(svc, p))
      /\ \A p \in PIDs, s \in Snapshot : CanComplete(svc, p) => Revoked(Completed(svc, p, s))
  BY <1>k, ServiceStaysRevoked
<1>j. /\ \A t \in Ops : pc[t] \in HasCore => job[t].pid \in PIDs
      /\ pc' = pc /\ job' = job => JobKept
  BY DEF ClosingInv
<1>g. \A t \in Ops, stage \in Stages :
        /\ Goto(t, stage)
        /\ \A u \in Ops : job'[u].pid = job[u].pid
        /\ stage \in HasCore => pc[t] \in HasCore
        => JobKept
  BY <1>j DEF Goto, TypeOK
<1>r. \A t \in Ops, ok \in BOOLEAN : Return(t, ok) /\ job' = job => JobKept
  BY <1>j DEF Return, Goto, TypeOK, HasCore
<1>a. \A t \in Ops : AfterHalt(t) \in Stages \ HasCore
  BY DEF AfterHalt, Stages, HasCore
<1>l. \A t \in Ops, id \in Profiles : Load(t, id) => \A u \in Ops : job'[u].pid = job[u].pid
  BY DEF Load, TypeOK, Job
<1>i. \A t \in Ops : \A id : job' = [job EXCEPT ![t].snap.id = id]
                        => \A u \in Ops : job'[u].pid = job[u].pid
  BY DEF TypeOK, Job
<1>w. Worker \in Ops /\ Calls \subseteq Ops
  BY DEF Ops
<1> HIDE DEF JobKept
<1>1. ASSUME NEW t \in Calls, StartCore(t) PROVE ClosingInv'
  BY <1>1, <1>q, <1>k, <1>g, <1>l, <1>w DEF StartCore, Stages, HasCore
<1>2. ASSUME NEW t \in Calls, StopCore(t) PROVE ClosingInv'
  BY <1>2, <1>q, <1>k, <1>g, <1>w DEF StopCore, Stages, HasCore
<1>3. ASSUME NEW t \in Calls, RestartCore(t) PROVE ClosingInv'
  BY <1>3, <1>q, <1>k, <1>g, <1>i, <1>s, <1>w DEF RestartCore, Stages, HasCore
<1>4. ASSUME NEW t \in Calls, BranchOperation(t) PROVE ClosingInv'
  BY <1>4, <1>q, <1>k, <1>g, <1>i, <1>w DEF BranchOperation, Stages, HasCore
<1>5. ASSUME NEW t \in Ops, AcquireAndLoad(t) PROVE ClosingInv'
  BY <1>5, <1>q, <1>k, <1>g, <1>l DEF AcquireAndLoad, Stages, HasCore
<1>6. ASSUME NEW t \in Ops, AcquireAndGiveUp(t) PROVE ClosingInv'
  BY <1>6, <1>q, <1>k, <1>r DEF AcquireAndGiveUp, Stages, HasCore
<1>7. ASSUME NEW t \in Ops, Prepare(t) PROVE ClosingInv'
  BY <1>7, <1>q, <1>k, <1>g DEF Prepare, Stages, HasCore
<1>8. ASSUME NEW t \in Ops, PrepareFails(t) PROVE ClosingInv'
  BY <1>8, <1>q, <1>k, <1>r, <1>s DEF PrepareFails, Stages, HasCore
<1>9. ASSUME NEW t \in Ops, Halt(t) PROVE ClosingInv'
  <2>1. CASE Goto(t, AfterHalt(t)) /\ UNCHANGED <<svc, opLock, job>>
    BY <2>1, <1>q, <1>k, <1>g, <1>a
  <2>2. CASE /\ CanStop(svc)
             /\ svc' = Stopping(svc)
             /\ job' = [job EXCEPT ![t].pid = svc.pid]
             /\ Goto(t, "kill")
    <3>1. svc.pid \in PIDs
      BY <2>2, <1>k DEF CanStop, Revoked, CoreRecord
    <3>2. \A u \in Ops : (pc'[u] = pc[u] /\ job'[u] = job[u]) \/ job'[u].pid \in PIDs
      BY <2>2, <3>1 DEF Goto, TypeOK, Job
    <3> QED
      BY <2>2, <3>2, <1>q, <1>s, <1>j DEF JobKept
  <2>3. CASE Return(t, FALSE) /\ UNCHANGED <<svc, job>>
    BY <2>3, <1>q, <1>k, <1>r
  <2> QED
    BY <1>9, <2>1, <2>2, <2>3 DEF Halt
<1>10. ASSUME NEW t \in Ops, Kill(t) PROVE ClosingInv'
  BY <1>10, <1>q, <1>k, <1>g, <1>s, <1>a DEF Kill, Stages, HasCore
<1>11. ASSUME NEW t \in Ops, KillFails(t) PROVE ClosingInv'
  BY <1>11, <1>q, <1>k, <1>r, <1>s DEF KillFails, Stages, HasCore
<1>12. ASSUME NEW t \in Ops, Swap(t) PROVE ClosingInv'
  BY <1>12, <1>q, <1>k, <1>g, <1>r DEF Swap, Stages, HasCore
<1>13. ASSUME NEW t \in Ops, Claim(t) PROVE ClosingInv'
  BY <1>13, <1>q, <1>k, <1>g, <1>r, <1>s DEF Claim, TypeOK, Job, Snapshot, MySnap, Stages,
     HasCore
<1>14. ASSUME NEW t \in Ops, Launch(t) PROVE ClosingInv'
  <2>1. \A u \in Ops : (pc'[u] = pc[u] /\ job'[u] = job[u]) \/ job'[u].pid \in PIDs
    BY <1>14 DEF Launch, Goto, TypeOK, Job
  <2> QED
    BY <1>14, <2>1, <1>q, <1>k, <1>j DEF Launch, JobKept
<1>15. ASSUME NEW t \in Ops, LaunchFails(t) PROVE ClosingInv'
  BY <1>15, <1>q, <1>k, <1>r, <1>s DEF LaunchFails, Stages, HasCore
<1>16. ASSUME NEW t \in Ops, ExecStarted(t) PROVE ClosingInv'
  BY <1>16, <1>q, <1>k, <1>g DEF ExecStarted, Stages, HasCore
<1>17. ASSUME NEW t \in Ops, ExecRefused(t) PROVE ClosingInv'
  BY <1>17, <1>q, <1>k, <1>r, <1>s DEF ExecRefused, Stages, HasCore
<1>18. ASSUME NEW t \in Ops, ExecCancelled(t) PROVE ClosingInv'
  BY <1>18, <1>q, <1>k, <1>g DEF ExecCancelled, Stages, HasCore
<1>19. ASSUME NEW t \in Ops, AbortEnds(t) PROVE ClosingInv'
  BY <1>19, <1>q, <1>k, <1>r, <1>s DEF AbortEnds, Stages, HasCore
<1>20. ASSUME NEW t \in Ops, Adopt(t) PROVE ClosingInv'
  BY <1>20, <1>q, <1>k, <1>g, <1>s, <1>j DEF Adopt, MyPID, Stages, HasCore
<1>21. ASSUME NEW t \in Ops, Probe(t) PROVE ClosingInv'
  BY <1>21, <1>q, <1>k, <1>g DEF Probe, Stages, HasCore
<1>22. ASSUME NEW t \in Ops, ProbeFails(t) PROVE ClosingInv'
  BY <1>22, <1>q, <1>k, <1>g, <1>s DEF ProbeFails, Stages, HasCore
<1>23. ASSUME NEW t \in Ops, Abandon(t) PROVE ClosingInv'
  BY <1>23, <1>q, <1>k, <1>r, <1>s DEF Abandon, Stages, HasCore
<1>24. ASSUME NEW t \in Ops, CompleteStart(t) PROVE ClosingInv'
  <2>1. MyPID(t) \in PIDs /\ MySnap(t) \in Snapshot
    BY <1>24, <1>j DEF CompleteStart, MyPID, MySnap, TypeOK, Job, HasCore
  <2>2. JobKept
    BY <1>24, <1>r DEF CompleteStart
  <2>3. Revoked(svc')
    BY <1>24, <2>1, <1>k, <1>s DEF CompleteStart
  <2> QED
    BY <2>2, <2>3, <1>q
<1>25. ASSUME NEW t \in Ops, FinishManualRestart(t) PROVE ClosingInv'
  BY <1>25, <1>q, <1>k, <1>g, <1>s DEF FinishManualRestart, Stages, HasCore
<1>26. CASE WorkerCheck
  BY <1>26, <1>q, <1>k, <1>g, <1>s, <1>i, <1>w DEF WorkerCheck, Stages, HasCore
<1>27. CASE WorkerLook
  BY <1>27, <1>q, <1>k, <1>g, <1>s, <1>i, <1>w DEF WorkerLook, Stages, HasCore
<1>28. CASE WorkerWaits
  BY <1>28, <1>q, <1>k, <1>g, <1>s, <1>i, <1>w DEF WorkerWaits, Stages, HasCore
<1>29. CASE WorkerTake
  BY <1>29, <1>q, <1>k, <1>g, <1>s, <1>i, <1>w DEF WorkerTake, Stages, HasCore
<1>30. CASE WorkerClear
  BY <1>30, <1>q, <1>k, <1>g, <1>s, <1>i, <1>w DEF WorkerClear, Stages, HasCore
<1>31. CASE WorkerBlame
  BY <1>31, <1>q, <1>k, <1>g, <1>s, <1>i, <1>w DEF WorkerBlame, Stages, HasCore
<1>32. ASSUME NEW n \in Notifiers, Persist(n) PROVE ClosingInv'
  BY <1>32, <1>q, <1>k, <1>j DEF Persist, Stages, HasCore
<1>33. ASSUME NEW n \in Notifiers, Select(n) PROVE ClosingInv'
  BY <1>33, <1>q, <1>k, <1>j DEF Select, Stages, HasCore
<1>34. ASSUME NEW n \in Notifiers, ReadActive(n) PROVE ClosingInv'
  BY <1>34, <1>q, <1>k, <1>j DEF ReadActive, Stages, HasCore
<1>35. ASSUME NEW n \in Notifiers, RequestRestart(n) PROVE ClosingInv'
  BY <1>35, <1>q, <1>k, <1>j, <1>s, KernelAssumption DEF RequestRestart, Stages, HasCore
<1>36. ASSUME NEW n \in Notifiers, Enqueue(n) PROVE ClosingInv'
  BY <1>36, <1>q, <1>k, <1>j, <1>g, <1>s, <1>w DEF Enqueue, Stages, HasCore
<1>37. ASSUME NEW p \in PIDs, GuardStarted(p) PROVE ClosingInv'
  BY <1>37, <1>q, <1>k, <1>j, <1>s DEF GuardStarted, Stages, HasCore
<1>38. ASSUME NEW p \in PIDs, GuardRefused(p) PROVE ClosingInv'
  BY <1>38, <1>q, <1>k, <1>j, <1>s DEF GuardRefused, Stages, HasCore
<1>39. ASSUME NEW p \in PIDs, CoreExits(p) PROVE ClosingInv'
  BY <1>39, <1>q, <1>k, <1>j, <1>s DEF CoreExits, Stages, HasCore
<1>40. ASSUME NEW p \in PIDs, HandleExit(p) PROVE ClosingInv'
  BY <1>40, <1>q, <1>k, <1>j, <1>s DEF HandleExit, Stages, HasCore
<1>41. ASSUME NEW p \in PIDs, Untrack(p) PROVE ClosingInv'
  BY <1>41, <1>q, <1>k, <1>j, <1>s DEF Untrack, Stages, HasCore
<1>42. CASE ShutBegin
  BY <1>42, <1>q, <1>k, <1>j, <1>s DEF ShutBegin, operating, Stages, HasCore
<1>43. CASE ShutCancel
  BY <1>43, <1>q, <1>k, <1>j, <1>s DEF ShutCancel, operating, Stages, HasCore
<1>44. CASE ShutDrain
  BY <1>44, <1>q, <1>k, <1>j, <1>s DEF ShutDrain, operating, Stages, HasCore
<1>45. CASE ShutAgain
  BY <1>45, <1>q, <1>k, <1>j, <1>s DEF ShutAgain, operating, Stages, HasCore
<1>46. CASE ShutGuards
  BY <1>46, <1>q, <1>k, <1>j, <1>s DEF ShutGuards, operating, Stages, HasCore
<1>47. CASE ShutWait
  BY <1>47, <1>q, <1>k, <1>j, <1>s DEF ShutWait, operating, Stages, HasCore
<1>48. CASE ShutFinish
  BY <1>48, <1>q, <1>k, <1>j, <1>s DEF ShutFinish, operating, Stages, HasCore
<1>49. CASE UNCHANGED vars
  BY <1>49, <1>q, <1>k, <1>j DEF vars
<1> QED
  BY <1>1, <1>2, <1>3, <1>4, <1>5, <1>6, <1>7, <1>8, <1>9, <1>10, <1>11, <1>12, <1>13,
     <1>14, <1>15, <1>16, <1>17, <1>18, <1>19, <1>20, <1>21, <1>22, <1>23, <1>24, <1>25,
     <1>26, <1>27, <1>28, <1>29, <1>30, <1>31, <1>32, <1>33, <1>34, <1>35, <1>36, <1>37,
     <1>38, <1>39, <1>40, <1>41, <1>42, <1>43, <1>44, <1>45, <1>46, <1>47, <1>48, <1>49
     DEF Next, Step, WorkerStep, NotifierStep, GuardStep, ShutStep, Rest

(* Once BeginShutdown has begun, no native API credential is handed out and   *)
(* no core is shown as running, whatever was being started.                   *)
THEOREM ShutdownRevokes == Spec => []ClosingRevokes
<1>1. Init => TypeOK /\ ClosingInv
  BY TypeInit, ClosingInit
<1>2. TypeOK /\ ClosingInv /\ [Next]_vars => TypeOK' /\ ClosingInv'
  BY TypeStep, ClosingStep
<1>3. ClosingInv => ClosingRevokes
  BY DEF ClosingInv, Revoked, ClosingRevokes
<1> QED
  BY <1>1, <1>2, <1>3, PTL DEF Spec

(* No critical section takes back closing.                                    *)
LEMMA ServiceStaysClosing ==
  ASSUME NEW c \in CoreRecord
  PROVE  /\ Stopped(c).closing = c.closing
         /\ Stopping(c).closing = c.closing
         /\ StopFailed(c).closing = c.closing
         /\ Abandoning(c).closing = c.closing
         /\ Closing(c).closing
         /\ RequiredOnlyIfRunning(c).closing = c.closing
         /\ RestartOver(c).closing = c.closing
         /\ \A id : Starting(c, id).closing = c.closing
         /\ \A b : AfterExit(c, b).closing = c.closing
         /\ \A b : ChangeNoted(c, b).closing = c.closing
         /\ \A q : StartReported(c, q).closing = c.closing
         /\ \A q : Adopted(c, q).closing = c.closing
         /\ \A q, s : Completed(c, q, s).closing = c.closing
  BY DEF CoreRecord, Stopped, Stopping, StopFailed, Abandoning, Closing,
     RequiredOnlyIfRunning,
         RestartOver, Starting, AfterExit, ChangeNoted, StartReported, Adopted, Completed

(* What a step of a thread leaves alone once guards are refused.              *)
GuardFrame ==
  /\ shut' = shut /\ guardsClosing' = guardsClosing /\ awaited' = awaited
  /\ guardsClosing => guard' = guard
  /\ svc.closing => svc'.closing

(* A thread leaves the shutdown alone, and once guards are refused it         *)
(* launches none.                                                             *)
LEMMA OperationsLeaveTheGuards ==
  ASSUME TypeOK, NEW t \in Ops,
         Step(t) \/ ExecCancelled(t) \/ StartCore(t) \/ StopCore(t) \/ RestartCore(t)
           \/ BranchOperation(t)
  PROVE  GuardFrame
<1>k. svc \in CoreRecord
  BY DEF TypeOK
<1>1. CASE AcquireAndLoad(t)
  BY <1>1, <1>k, ServiceStaysClosing
     DEF AcquireAndLoad, GuardFrame, others, stopping
<1>2. CASE AcquireAndGiveUp(t)
  BY <1>2, <1>k, ServiceStaysClosing
     DEF AcquireAndGiveUp, GuardFrame, others, stopping
<1>3. CASE Prepare(t)
  BY <1>3, <1>k, ServiceStaysClosing
     DEF Prepare, GuardFrame, others, stopping
<1>4. CASE PrepareFails(t)
  BY <1>4, <1>k, ServiceStaysClosing
     DEF PrepareFails, GuardFrame, others, stopping
<1>5. CASE Halt(t)
  BY <1>5, <1>k, ServiceStaysClosing
     DEF Halt, GuardFrame, others, stopping
<1>6. CASE Kill(t)
  BY <1>6, <1>k, ServiceStaysClosing
     DEF Kill, GuardFrame, others, stopping
<1>7. CASE KillFails(t)
  BY <1>7, <1>k, ServiceStaysClosing
     DEF KillFails, GuardFrame, others, stopping
<1>8. CASE Swap(t)
  BY <1>8, <1>k, ServiceStaysClosing
     DEF Swap, GuardFrame, others, stopping
<1>9. CASE Claim(t)
  BY <1>9, <1>k DEF Claim, Starting, CoreRecord, GuardFrame, others, stopping
<1>10. CASE Launch(t)
  BY <1>10, <1>k, ServiceStaysClosing
     DEF Launch, GuardFrame, others, stopping
<1>11. CASE LaunchFails(t)
  BY <1>11, <1>k, ServiceStaysClosing
     DEF LaunchFails, GuardFrame, others, stopping
<1>12. CASE ExecStarted(t)
  BY <1>12, <1>k, ServiceStaysClosing
     DEF ExecStarted, GuardFrame, others, stopping
<1>13. CASE ExecRefused(t)
  BY <1>13, <1>k, ServiceStaysClosing
     DEF ExecRefused, GuardFrame, others, stopping
<1>14. CASE ExecCancelled(t)
  BY <1>14, <1>k, ServiceStaysClosing
     DEF ExecCancelled, GuardFrame, others, stopping
<1>15. CASE AbortEnds(t)
  BY <1>15, <1>k, ServiceStaysClosing
     DEF AbortEnds, GuardFrame, others, stopping
<1>16. CASE Adopt(t)
  BY <1>16, <1>k, ServiceStaysClosing
     DEF Adopt, GuardFrame, others, stopping
<1>17. CASE Probe(t)
  BY <1>17, <1>k, ServiceStaysClosing
     DEF Probe, GuardFrame, others, stopping
<1>18. CASE ProbeFails(t)
  BY <1>18, <1>k, ServiceStaysClosing
     DEF ProbeFails, GuardFrame, others, stopping
<1>19. CASE Abandon(t)
  BY <1>19, <1>k, ServiceStaysClosing
     DEF Abandon, GuardFrame, others, stopping
<1>20. CASE CompleteStart(t)
  BY <1>20, <1>k DEF CompleteStart, Completed, CoreRecord, GuardFrame, others, stopping
<1>21. CASE FinishManualRestart(t)
  BY <1>21, <1>k, ServiceStaysClosing
     DEF FinishManualRestart, GuardFrame, others, stopping
<1>22. CASE StartCore(t)
  BY <1>22, <1>k, ServiceStaysClosing
     DEF StartCore, GuardFrame, others, stopping
<1>23. CASE StopCore(t)
  BY <1>23, <1>k, ServiceStaysClosing
     DEF StopCore, GuardFrame, others, stopping
<1>24. CASE RestartCore(t)
  BY <1>24, <1>k DEF RestartCore, CoreRecord, GuardFrame, others, stopping
<1>25. CASE BranchOperation(t)
  BY <1>25, <1>k, ServiceStaysClosing
     DEF BranchOperation, GuardFrame, others, stopping
<1> QED
  BY <1>1, <1>2, <1>3, <1>4, <1>5, <1>6, <1>7, <1>8, <1>9, <1>10, <1>11, <1>12, <1>13,
     <1>14, <1>15, <1>16, <1>17, <1>18, <1>19, <1>20, <1>21, <1>22, <1>23, <1>24,
     <1>25 DEF Step
(* The stages in which a thread that is not a StopCore is in an operation.    *)
Within == {"claim", "prepare", "halt", "kill", "swap", "write", "exec", "abort",
           "adopt", "probe", "complete", "abandon"}

StopStages == {"idle", "halt", "kill", "done"}

(* What a step of a thread keeps of ClosedInv: a StopCore stays among its own  *)
(* stages, and after Close no thread comes back to an operation or leaves a    *)
(* status other than STOPPED or CRASHED.                                       *)
ClosedFrame ==
  /\ \A s \in Stops : pc'[s] \in StopStages
  /\ shut = "closed" => OperationsOver' /\ svc'.status \in {"STOPPED", "CRASHED"}

(* No thread disturbs what Close has reached.                                 *)
LEMMA OperationsStayOver ==
  ASSUME TypeOK, ClosedInv, NEW t \in Ops,
         Step(t) \/ ExecCancelled(t) \/ StartCore(t) \/ StopCore(t) \/ RestartCore(t)
           \/ BranchOperation(t)
  PROVE  ClosedFrame
<1>s. /\ \A s \in Stops : s \in Ops /\ s # Worker /\ s \notin Starts \cup Restarts \cup Branches
      /\ \A s \in Stops : pc[s] \in StopStages
  BY KernelAssumption DEF Ops, Calls, ClosedInv, StopStages
<1>o. shut = "closed" =>
        /\ t \in Stops \/ (pc[t] \notin Within /\ ~(pc[t] = "queue" /\ t \in Branches))
        /\ svc.closing /\ LifecycleCancelled
        /\ svc.status \in {"STOPPED", "CRASHED"}
  BY DEF ClosedInv, OperationsOver, InOperation, Within, LifecycleCancelled
<1>g. ASSUME NEW stage \in Stages, Goto(t, stage),
             t \in Stops => stage \in StopStages,
             shut = "closed" => t \in Stops \/ (stage \notin Within /\ ~(stage = "queue" /\ t \in Branches)),
             shut = "closed" => svc'.status \in {"STOPPED", "CRASHED"}
      PROVE  ClosedFrame
  <2>1. \A u \in Ops : pc'[u] = IF u = t THEN stage ELSE pc[u]
    BY <1>g DEF Goto, TypeOK
  <2>2. \A s \in Stops : pc'[s] \in StopStages
    BY <2>1, <1>g, <1>s
  <2>3. ASSUME shut = "closed" PROVE OperationsOver'
    <3>1. \A u \in Ops : ~InOperation(u)
      BY <2>3 DEF ClosedInv, OperationsOver
    <3>2. \A u \in Ops : u # t => ~InOperation(u)'
      BY <2>1, <3>1 DEF InOperation
    <3>3. ~InOperation(t)'
      BY <2>1, <2>3, <1>g DEF InOperation, Within
    <3> QED
      BY <3>2, <3>3 DEF OperationsOver
  <2> QED
    BY <2>2, <2>3, <1>g DEF ClosedFrame
<1>r. ASSUME NEW ok \in BOOLEAN, Return(t, ok),
             shut = "closed" => svc'.status \in {"STOPPED", "CRASHED"}
      PROVE  ClosedFrame
  <2>1. PICK stage \in {"finish", "clear", "clearFailed", "done"} :
          Goto(t, stage) /\ (t \in Stops => stage = "done")
    BY <1>r, <1>s DEF Return
  <2> QED
    BY <2>1, <1>g, <1>r DEF Stages, StopStages, Within
<1>t. t \in Stops => pc[t] \in StopStages
  BY <1>s
<1>c. svc \in CoreRecord
  BY DEF TypeOK

<1>1. CASE AcquireAndLoad(t)
  BY <1>1, <1>g, <1>r, <1>t, <1>o, <1>s DEF AcquireAndLoad, Stages, StopStages, Within
<1>2. CASE AcquireAndGiveUp(t)
  BY <1>2, <1>r, <1>o DEF AcquireAndGiveUp
<1>3. CASE Prepare(t)
  BY <1>3, <1>g, <1>r, <1>t, <1>o, <1>s DEF Prepare, Stages, StopStages, Within
<1>4. CASE PrepareFails(t)
  BY <1>4, <1>r, <1>c, <1>o DEF PrepareFails, Stopped, CoreRecord
<1>5. CASE Halt(t)
  <2>1. t \in Stops => AfterHalt(t) = "done"
    BY DEF AfterHalt
  <2>2. shut = "closed" => t \in Stops
    BY <1>5, <1>o DEF Halt, Within
  <2>3. CASE Goto(t, AfterHalt(t)) /\ svc' = svc
    <3>1. AfterHalt(t) \in Stages
      BY DEF AfterHalt, Stages
    <3> QED
      BY <2>1, <2>2, <2>3, <3>1, <1>g, <1>o DEF StopStages
  <2>4. CASE CanStop(svc) /\ Goto(t, "kill")
    BY <2>2, <2>4, <1>g, <1>o DEF CanStop, Stages, StopStages
  <2>5. CASE Return(t, FALSE) /\ svc' = svc
    BY <2>5, <1>r, <1>o
  <2> QED
    BY <1>5, <2>3, <2>4, <2>5 DEF Halt
<1>6. CASE Kill(t)
  <2>1. t \in Stops => AfterHalt(t) = "done"
    BY DEF AfterHalt
  <2>2. AfterHalt(t) \in Stages /\ svc'.status = "STOPPED" /\ Goto(t, AfterHalt(t))
    BY <1>6, <1>c DEF Kill, AfterHalt, Stages, Stopped, CoreRecord
  <2>3. shut = "closed" => t \in Stops
    BY <1>6, <1>o DEF Kill, Within
  <2> QED
    BY <2>1, <2>2, <2>3, <1>g DEF StopStages
<1>7. CASE KillFails(t)
  BY <1>7, <1>r, <1>c DEF KillFails, StopFailed, CoreRecord
<1>8. CASE Swap(t)
  BY <1>8, <1>g, <1>r, <1>t, <1>o, <1>s DEF Swap, Stages, StopStages, Within
<1>9. CASE Claim(t)
  BY <1>9, <1>g, <1>r, <1>t, <1>o, <1>s DEF Claim, Stages, StopStages, Within
<1>10. CASE Launch(t)
  BY <1>10, <1>g, <1>r, <1>t, <1>o, <1>s DEF Launch, Stages, StopStages, Within
<1>11. CASE LaunchFails(t)
  BY <1>11, <1>r, <1>c DEF LaunchFails, Stopped, CoreRecord
<1>12. CASE ExecStarted(t)
  BY <1>12, <1>g, <1>r, <1>t, <1>o, <1>s DEF ExecStarted, Stages, StopStages, Within
<1>13. CASE ExecRefused(t)
  BY <1>13, <1>r, <1>c DEF ExecRefused, Stopped, CoreRecord
<1>14. CASE ExecCancelled(t)
  BY <1>14, <1>g, <1>r, <1>t, <1>o, <1>s DEF ExecCancelled, Stages, StopStages, Within
<1>15. CASE AbortEnds(t)
  BY <1>15, <1>r, <1>c DEF AbortEnds, Stopped, CoreRecord
<1>16. CASE Adopt(t)
  BY <1>16, <1>g, <1>r, <1>t, <1>o, <1>s DEF Adopt, Stages, StopStages, Within
<1>17. CASE Probe(t)
  BY <1>17, <1>g, <1>r, <1>t, <1>o, <1>s DEF Probe, Stages, StopStages, Within
<1>18. CASE ProbeFails(t)
  BY <1>18, <1>g, <1>r, <1>t, <1>o, <1>s DEF ProbeFails, Stages, StopStages, Within
<1>19. CASE Abandon(t)
  BY <1>19, <1>g, <1>r, <1>t, <1>o, <1>s DEF Abandon, Stages, StopStages, Within
<1>20. CASE CompleteStart(t)
  BY <1>20, <1>g, <1>r, <1>t, <1>o, <1>s DEF CompleteStart, Stages, StopStages, Within
<1>21. CASE FinishManualRestart(t)
  BY <1>21, <1>g, <1>r, <1>t, <1>o, <1>s, <1>c
     DEF FinishManualRestart, RestartOver, RequiredOnlyIfRunning, CoreRecord, Stages, StopStages, Within
<1>22. CASE StartCore(t)
  BY <1>22, <1>g, <1>r, <1>t, <1>o, <1>s DEF StartCore, Stages, StopStages, Within
<1>23. CASE StopCore(t)
  BY <1>23, <1>g, <1>r, <1>t, <1>o, <1>s DEF StopCore, Stages, StopStages, Within
<1>24. CASE RestartCore(t)
  <2>1. t \notin Stops
    BY <1>24, <1>s DEF RestartCore
  <2>2. CASE LifecycleCancelled
    BY <1>24, <2>1, <2>2, <1>g, <1>o DEF RestartCore, Stages, Within
  <2>3. CASE ~LifecycleCancelled
    BY <1>24, <2>1, <2>3, <1>g, <1>o DEF RestartCore, Stages
  <2> QED
    BY <2>2, <2>3
<1>25. CASE BranchOperation(t)
  BY <1>25, <1>g, <1>r, <1>t, <1>o, <1>s DEF BranchOperation, Stages, StopStages, Within
<1> QED
  BY <1>1, <1>2, <1>3, <1>4, <1>5, <1>6, <1>7, <1>8, <1>9, <1>10, <1>11, <1>12, <1>13,
     <1>14, <1>15, <1>16, <1>17, <1>18, <1>19, <1>20, <1>21, <1>22, <1>23, <1>24,
     <1>25 DEF Step

(* Initially nothing of the shutdown has happened.                            *)
LEMMA ClosedInit == Init => ClosedInv
  BY DEF Init, ClosedInv, Ops, Calls

(* Every step keeps ClosedInv.                                                *)
LEMMA ClosedStep == TypeOK /\ ClosedInv /\ [Next]_vars => ClosedInv'
<1> SUFFICES ASSUME TypeOK, ClosedInv, [Next]_vars PROVE ClosedInv'
  OBVIOUS
<1>c. svc \in CoreRecord /\ Calls \subseteq Ops
  BY DEF TypeOK, Ops
<1>w. Worker \in Ops /\ Worker \notin Stops /\ Worker \notin Branches
  BY KernelAssumption DEF Ops, Calls
<1>t. ASSUME NEW t \in Ops,
             Step(t) \/ ExecCancelled(t) \/ StartCore(t) \/ StopCore(t) \/ RestartCore(t)
               \/ BranchOperation(t)
      PROVE  ClosedInv'
  <2>1. GuardFrame /\ ClosedFrame
    BY <1>t, OperationsLeaveTheGuards, OperationsStayOver
  <2> QED
    BY <2>1 DEF GuardFrame, ClosedFrame, ClosedInv, Finished, StopStages
<1>p. /\ UNCHANGED <<shut, guardsClosing, awaited>>
      /\ UNCHANGED pc \/ \E stage \in Stages \ Within : Goto(Worker, stage)
      /\ svc'.closing = svc.closing /\ (svc'.status = svc.status \/ shut # "closed")
      /\ guardsClosing => \A p \in PIDs : guard'[p] = guard[p] \/ p \in awaited
      /\ shut \in {"waited", "closed"} => UNCHANGED guard
      => ClosedInv'
  <2> SUFFICES ASSUME UNCHANGED <<shut, guardsClosing, awaited>>,
                      UNCHANGED pc \/ \E stage \in Stages \ Within : Goto(Worker, stage),
                      svc'.closing = svc.closing,
                      svc'.status = svc.status \/ shut # "closed",
                      guardsClosing => \A p \in PIDs : guard'[p] = guard[p] \/ p \in awaited,
                      shut \in {"waited", "closed"} => UNCHANGED guard
               PROVE  ClosedInv'
    OBVIOUS
  <2>1. \A u \in Ops : pc'[u] = pc[u] \/ (u = Worker /\ pc'[u] \notin Within)
    BY DEF Goto, TypeOK
  <2>2. \A s \in Stops : s \in Ops /\ s # Worker
    BY <1>w DEF Ops, Calls
  <2>3. \A s \in Stops : pc'[s] \in StopStages
    BY <2>1, <2>2 DEF ClosedInv, StopStages
  <2>4. ASSUME shut = "closed" PROVE OperationsOver'
    <3>1. \A u \in Ops : ~InOperation(u)
      BY <2>4 DEF ClosedInv, OperationsOver
    <3>2. \A u \in Ops : ~InOperation(u)'
      BY <2>1, <3>1, <1>w DEF InOperation, Within
    <3> QED
      BY <3>2 DEF OperationsOver
  <2> QED
    BY <2>3, <2>4 DEF ClosedInv, Finished, StopStages
<1>f. guardsClosing => \A p \in PIDs : Finished(p) \/ p \in awaited
  BY DEF ClosedInv
<1>a. shut \in {"waited", "closed"} => \A p \in PIDs : Finished(p)
  BY DEF ClosedInv
<1>b. guard \in [PIDs -> GuardStates]
  BY DEF TypeOK
<1>1. CASE WorkerCheck
  BY <1>1, <1>p, <1>c DEF WorkerCheck, Stages, Within, others, stopping
<1>2. CASE WorkerLook
  BY <1>2, <1>p, <1>c DEF WorkerLook, RestartOver, RequiredOnlyIfRunning, CoreRecord,
     Stages, Within, others, stopping
<1>3. CASE WorkerWaits
  BY <1>3, <1>p, <1>c DEF WorkerWaits, Stages, Within, others, stopping
<1>4. CASE WorkerTake
  BY <1>4, <1>p, <1>c DEF WorkerTake, Stages, Within, others, stopping
<1>5. CASE WorkerClear
  BY <1>5, <1>p, <1>c DEF WorkerClear, Stages, Within, others, stopping
<1>6. CASE WorkerBlame
  BY <1>6, <1>p, <1>c DEF WorkerBlame, RequiredOnlyIfRunning, CoreRecord, Stages, Within,
     others, stopping
<1>7. ASSUME NEW n \in Notifiers, Persist(n) PROVE ClosedInv'
  BY <1>7, <1>p DEF Persist, stopping
<1>8. ASSUME NEW n \in Notifiers, Select(n) PROVE ClosedInv'
  BY <1>8, <1>p DEF Select, stopping
<1>9. ASSUME NEW n \in Notifiers, ReadActive(n) PROVE ClosedInv'
  BY <1>9, <1>p DEF ReadActive, stopping
<1>10. ASSUME NEW n \in Notifiers, RequestRestart(n) PROVE ClosedInv'
  BY <1>10, <1>p, <1>c DEF RequestRestart, ChangeNoted, CoreRecord, stopping
<1>11. ASSUME NEW n \in Notifiers, Enqueue(n) PROVE ClosedInv'
  BY <1>11, <1>p, <1>c DEF Enqueue, CoreRecord, Stages, Within, stopping
<1>12. ASSUME NEW p \in PIDs, GuardStarted(p) PROVE ClosedInv'
  <2>1. ~Finished(p)
    BY <1>12 DEF GuardStarted, Finished
  <2>2. shut \notin {"waited", "closed"} /\ (guardsClosing => p \in awaited)
    BY <2>1, <1>f, <1>a
  <2>3. \A q \in PIDs : q # p => guard'[q] = guard[q]
    BY <1>12, <1>b DEF GuardStarted
  <2>4. svc'.closing = svc.closing /\ UNCHANGED <<pc, shut, guardsClosing, awaited>>
    BY <1>12, <1>c DEF GuardStarted, StartReported, CoreRecord, others, stopping
  <2> QED
    BY <2>2, <2>3, <2>4, <1>p
<1>13. ASSUME NEW p \in PIDs, GuardRefused(p) PROVE ClosedInv'
  <2>1. ~Finished(p)
    BY <1>13 DEF GuardRefused, Finished
  <2>2. shut \notin {"waited", "closed"} /\ (guardsClosing => p \in awaited)
    BY <2>1, <1>f, <1>a
  <2>3. \A q \in PIDs : q # p => guard'[q] = guard[q]
    BY <1>13, <1>b DEF GuardRefused
  <2>4. svc'.closing = svc.closing /\ UNCHANGED <<pc, shut, guardsClosing, awaited>>
    BY <1>13, <1>c DEF GuardRefused, others, stopping
  <2> QED
    BY <2>2, <2>3, <2>4, <1>p
<1>14. ASSUME NEW p \in PIDs, CoreExits(p) PROVE ClosedInv'
  <2>1. ~Finished(p)
    BY <1>14 DEF CoreExits, Finished
  <2>2. shut \notin {"waited", "closed"} /\ (guardsClosing => p \in awaited)
    BY <2>1, <1>f, <1>a
  <2>3. \A q \in PIDs : q # p => guard'[q] = guard[q]
    BY <1>14, <1>b DEF CoreExits
  <2>4. svc'.closing = svc.closing /\ UNCHANGED <<pc, shut, guardsClosing, awaited>>
    BY <1>14, <1>c DEF CoreExits, others, stopping
  <2> QED
    BY <2>2, <2>3, <2>4, <1>p
<1>15. ASSUME NEW p \in PIDs, HandleExit(p) PROVE ClosedInv'
  <2>1. ~Finished(p)
    BY <1>15 DEF HandleExit, Finished
  <2>2. shut \notin {"waited", "closed"} /\ (guardsClosing => p \in awaited)
    BY <2>1, <1>f, <1>a
  <2>3. \A q \in PIDs : q # p => guard'[q] = guard[q]
    BY <1>15, <1>b DEF HandleExit
  <2>4. svc'.closing = svc.closing /\ UNCHANGED <<pc, shut, guardsClosing, awaited>>
    BY <1>15, <1>c DEF HandleExit, ExitApplies, AfterExit, CoreRecord, others, stopping
  <2> QED
    BY <2>2, <2>3, <2>4, <1>p
<1>16. ASSUME NEW p \in PIDs, Untrack(p) PROVE ClosedInv'
  <2>1. ~Finished(p)
    BY <1>16 DEF Untrack, Finished
  <2>2. shut \notin {"waited", "closed"} /\ (guardsClosing => p \in awaited)
    BY <2>1, <1>f, <1>a
  <2>3. \A q \in PIDs : q # p => guard'[q] = guard[q]
    BY <1>16, <1>b DEF Untrack
  <2>4. svc'.closing = svc.closing /\ UNCHANGED <<pc, shut, guardsClosing, awaited>>
    BY <1>16, <1>c DEF Untrack, others, stopping
  <2> QED
    BY <2>2, <2>3, <2>4, <1>p
<1>17. CASE ShutBegin
  BY <1>17, <1>c DEF ShutBegin, Closing, CoreRecord, Advance, operating, ClosedInv,
     Finished
<1>18. CASE ShutCancel
  BY <1>18, <1>c DEF ShutCancel, Closing, CoreRecord, Advance, operating, ClosedInv,
     Finished
<1>19. CASE ShutDrain
  BY <1>19, <1>c DEF ShutDrain, Closing, CoreRecord, Advance, operating, ClosedInv,
     Finished
<1>20. CASE ShutAgain
  BY <1>20, <1>c DEF ShutAgain, Closing, CoreRecord, Advance, operating, ClosedInv,
     Finished
<1>21. CASE ShutGuards
  <2>1. \A p \in PIDs \ awaited' : Finished(p)'
    BY <1>21, <1>b DEF ShutGuards, operating, Finished, GuardStates
  <2> QED
    BY <1>21, <2>1 DEF ShutGuards, Advance, operating, ClosedInv
<1>22. CASE ShutWait
  <2>1. UNCHANGED <<svc, pc, guard, guardsClosing, awaited>> /\ shut = "waiting"
    BY <1>22 DEF ShutWait, Advance, operating
  <2>2. \/ shut' = "waited" /\ \A p \in awaited : Finished(p)
        \/ shut' = "unclean"
    BY <1>22 DEF ShutWait, Advance, Finished
  <2> QED
    BY <2>1, <2>2, <1>f DEF ClosedInv, Finished
<1>23. CASE ShutFinish
  <2>1. UNCHANGED <<pc, guard, guardsClosing, awaited>>
    BY <1>23 DEF ShutFinish, operating
  <2>2. \/ shut = "waited" /\ shut' = "closed" /\ OperationsOver /\ svc' = Stopped(svc)
        \/ shut \in {"waited", "unclean"} /\ shut' = "closedUnclean" /\ svc' = svc
    BY <1>23 DEF ShutFinish, Advance
  <2>3. CASE shut' = "closed"
    <3>1. shut = "waited" /\ OperationsOver /\ svc' = Stopped(svc)
      BY <2>2, <2>3
    <3>2. OperationsOver'
      BY <2>1, <3>1 DEF OperationsOver, InOperation
    <3>3. svc'.status = "STOPPED" /\ svc'.closing = svc.closing
      BY <3>1, <1>c DEF Stopped, CoreRecord
    <3> QED
      BY <2>1, <2>3, <3>1, <3>2, <3>3 DEF ClosedInv, Finished
  <2>4. CASE shut' # "closed"
    BY <2>1, <2>2, <2>4 DEF ClosedInv, Finished
  <2> QED
    BY <2>3, <2>4
<1>24. CASE UNCHANGED vars
  BY <1>24, <1>p DEF vars
<1> QED
  BY <1>t, <1>c, <1>1, <1>2, <1>3, <1>4, <1>5, <1>6, <1>7, <1>8, <1>9, <1>10, <1>11, <1>12,
     <1>13, <1>14, <1>15, <1>16, <1>17, <1>18, <1>19, <1>20, <1>21, <1>22, <1>23, <1>24
     DEF Next, WorkerStep, NotifierStep, GuardStep, ShutStep, Rest

(* When the application has closed cleanly, no guard, core or operation is    *)
(* left, nothing shows a core as running, and no step changes that.           *)
THEOREM ShutdownIsFinal == Spec => []ClosedIsFinal
<1>1. Init => TypeOK /\ ClosingInv /\ ClosedInv
  BY TypeInit, ClosingInit, ClosedInit
<1>2. TypeOK /\ ClosingInv /\ ClosedInv /\ [Next]_vars => TypeOK' /\ ClosingInv' /\ ClosedInv'
  BY TypeStep, ClosingStep, ClosedStep
<1>3. ClosingInv /\ ClosedInv => ClosedIsFinal
  BY DEF ClosingInv, Revoked, ClosedInv, ClosedIsFinal
<1> QED
  BY <1>1, <1>2, <1>3, PTL DEF Spec

-----------------------------------------------------------------------------
(* What the service shows.  A thread works on the core from the moment it has *)
(* claimed the service, or has asked the core to stop, until it returns.       *)
Launches(t) ==
  \/ pc[t] \in {"write", "exec", "abort", "adopt", "probe", "complete"}
  \/ t \in Starts /\ pc[t] = "prepare"
Ends(t)  == pc[t] \in {"abandon", "kill"}
Works(t) == Launches(t) \/ Ends(t)

(* What StatusIsTrue needs: no stop is left waiting for its guard while        *)
(* another thread starts a core.  setStopped looks at neither status nor pid.  *)
OneAtATime == \A t, u \in Ops : Works(t) /\ Works(u) => t = u

(* The reader of core p has not yet told the service that it is gone.         *)
Here(p) == guard[p] \in {"live", "done"}

(* The service's pid is that of a core that is here; any core that lives is it. *)
PidIsHere ==
  /\ svc.pid # NoPID => Here(svc.pid) /\ svc.status \in {"STARTING", "RUNNING", "STOPPING"}
  /\ \A p \in PIDs : guard[p] = "live" => svc.pid = p
  /\ svc.status = "RUNNING" => svc.pid # NoPID /\ svc.api = svc.pid
  /\ ~svc.closing

(* What is begun has a thread that ends it. *)
HasWorker ==
  /\ svc.status = "STARTING" => \E t \in Ops : Launches(t)
  /\ svc.status = "STOPPING" => \E t \in Ops : Ends(t)
  /\ \A p \in PIDs : guard[p] = "launching" =>
       svc.pid = NoPID /\ \E t \in Ops : pc[t] \in {"exec", "abort"} /\ MyPID(t) = p

(* What a thread that works on core p knows of it: the service follows that    *)
(* core, from its start to the call of OnExit.                                *)
Follows(t, p) ==
  /\ p \in PIDs /\ guard[p] # "free"
  /\ svc.pid = IF Here(p) THEN p ELSE NoPID
  /\ IF Ends(t)
     THEN svc.status \in IF Here(p) THEN {"STOPPING"} ELSE {"STOPPING", "STOPPED"}
     ELSE svc.status = IF guard[p] \in {"called", "gone"} THEN "CRASHED" ELSE "STARTING"
  /\ pc[t] \notin {"exec", "abort"} => guard[p] \notin {"launching", "refused"}

WorkFits(t) ==
  /\ pc[t] \in HasCore => Follows(t, MyPID(t))
  /\ Launches(t) /\ pc[t] \notin HasCore => svc.status = "STARTING" /\ svc.pid = NoPID

NoFaults == \A p \in PIDs : fault[p] = "none"

StatusInv == PidIsHere /\ HasWorker /\ NoFaults /\ \A t \in Ops : WorkFits(t)

(* Of StatusInv, what is left to show when no thread but t works.             *)
WorksAlone(t) == \A u \in Ops : Works(u) => u = t
StatusOf(t) ==
  /\ PidIsHere /\ WorkFits(t)
  /\ svc.status = "STARTING" => Launches(t)
  /\ svc.status = "STOPPING" => Ends(t)
  /\ \A p \in PIDs : guard[p] = "launching" =>
       svc.pid = NoPID /\ pc[t] \in {"exec", "abort"} /\ MyPID(t) = p

(* A thread that works alone is all that StatusInv has to say about a thread. *)
LEMMA AloneFits ==
  ASSUME NEW t \in Ops, WorksAlone(t)', StatusOf(t)', NoFaults'
  PROVE  StatusInv'
<1>1. HasWorker'
  BY DEF StatusOf, HasWorker
<1>2. ASSUME NEW u \in Ops PROVE WorkFits(u)'
  <2>1. CASE u = t
    BY <2>1 DEF StatusOf
  <2>2. CASE u # t
    BY <2>2 DEF WorksAlone, Works, Launches, Ends, WorkFits, HasCore
  <2> QED BY <2>1, <2>2
<1> QED BY <1>1, <1>2 DEF StatusInv, StatusOf

(* StartCore does not queue for restartOperationMu. *)
StartsGoOn == \A t \in Starts : pc[t] # "queue"

(* And the other way round.                                                   *)
LEMMA AloneIs ==
  ASSUME NEW t \in Ops, WorksAlone(t), StatusInv
  PROVE  StatusOf(t)
<1>1. \A u \in Ops : pc[u] \in {"exec", "abort"} => Launches(u)
  BY DEF Launches
<1> QED BY <1>1 DEF StatusInv, HasWorker, StatusOf, WorksAlone, Works

(* A step of thread t moves no other thread. *)
Moves(t) == \A u \in Ops : u # t => pc'[u] = pc[u] /\ job'[u] = job[u]

Shown == <<svc.status, svc.pid, svc.api, svc.closing>>

(* A thread that does not work, before or after its step, disturbs nothing as *)
(* long as it leaves what the service shows and the guards alone.             *)
LEMMA IdleStep ==
  ASSUME StatusInv, NEW t \in Ops, Moves(t), ~Works(t), ~Works(t)',
         UNCHANGED <<Shown, guard, fault>>
  PROVE  StatusInv'
<1> USE DEF Works, Launches, Ends, HasCore
<1>1. PidIsHere' /\ NoFaults'
  BY DEF StatusInv, PidIsHere, NoFaults, Here, Shown
<1>2. ASSUME NEW u \in Ops, Works(u) PROVE u # t /\ pc'[u] = pc[u] /\ job'[u] = job[u]
  BY <1>2 DEF Moves
<1>3. HasWorker'
  <2>1. svc.status = "STARTING" => \E u \in Ops : Launches(u) /\ Launches(u)'
    BY <1>2 DEF StatusInv, HasWorker
  <2>2. svc.status = "STOPPING" => \E u \in Ops : Ends(u) /\ Ends(u)'
    BY <1>2 DEF StatusInv, HasWorker
  <2>3. ASSUME NEW p \in PIDs, guard[p] = "launching"
        PROVE svc.pid = NoPID /\ \E u \in Ops : pc'[u] \in {"exec", "abort"} /\ MyPID(u)' = p
    <3>1. PICK u \in Ops : pc[u] \in {"exec", "abort"} /\ MyPID(u) = p /\ svc.pid = NoPID
      BY <2>3 DEF StatusInv, HasWorker
    <3> QED BY <1>2, <3>1 DEF MyPID
  <2> QED BY <2>1, <2>2, <2>3 DEF HasWorker, Shown
<1>4. ASSUME NEW u \in Ops PROVE WorkFits(u)'
  <2>1. CASE u = t
    BY <2>1 DEF WorkFits
  <2>2. CASE u # t
    BY <2>2 DEF Moves, StatusInv, WorkFits, Follows, Here, MyPID, Shown
  <2> QED BY <2>1, <2>2
<1> QED BY <1>1, <1>3, <1>4 DEF StatusInv

(* Under OneAtATime a thread that works is alone, and so are a thread that    *)
(* goes on working and one that takes up work.                                *)
LEMMA StaysAlone ==
  ASSUME NEW t \in Ops, OneAtATime, Works(t)
  PROVE  WorksAlone(t)
  BY DEF OneAtATime, WorksAlone

LEMMA WorkStep ==
  ASSUME NEW t \in Ops, Moves(t), OneAtATime, Works(t), StatusOf(t)', NoFaults'
  PROVE  StatusInv'
<1>1. WorksAlone(t)'
  BY DEF Moves, OneAtATime, WorksAlone, Works, Launches, Ends
<1> QED BY <1>1, AloneFits

LEMMA TakeUpStep ==
  ASSUME NEW t \in Ops, OneAtATime', Works(t)', StatusOf(t)', NoFaults'
  PROVE  StatusInv'
<1>1. WorksAlone(t)'
  BY DEF OneAtATime, WorksAlone
<1> QED BY <1>1, AloneFits

(* A thread that returns is done, or has the end of its operation before it.  *)
LEMMA Returned ==
  ASSUME TypeOK, NEW t \in Ops, NEW ok, Return(t, ok)
  PROVE  /\ pc'[t] \in {"finish", "clear", "clearFailed", "done"}
         /\ \A u \in Ops : u # t => pc'[u] = pc[u]
  BY DEF TypeOK, Return, Goto

(* The threads of the operations, one step at a time. *)
LEMMA OperationStatus ==
  ASSUME ~SlowGuard, TypeOK, StartsGoOn, StatusInv, OneAtATime, OneAtATime',
         ~guardsClosing,
         NEW t \in Ops,
         Step(t) \/ ExecCancelled(t) \/ StartCore(t) \/ StopCore(t) \/ RestartCore(t)
           \/ BranchOperation(t)
  PROVE  StatusInv'
<1> USE DEF TypeOK, CoreRecord, Works, Launches, Ends, HasCore, MyPID
<1>0. t \in Stops \cup Restarts \cup Branches \cup {Worker} => t \notin Starts
  BY KernelAssumption DEF Calls
<1>p. NoPID \notin PIDs
  BY CoreStateAssumption DEF PIDs, NoPID
<1>w. Works(t) => StatusOf(t)
  BY StaysAlone, AloneIs
<1>f. NoFaults
  BY DEF StatusInv
<1>i. ASSUME Moves(t), ~Works(t), ~Works(t)', UNCHANGED <<Shown, guard, fault>>
      PROVE StatusInv'
  BY <1>i, IdleStep
<1>j. ASSUME Moves(t), Works(t), StatusOf(t)', UNCHANGED fault
      PROVE StatusInv'
  <2>1. NoFaults'
    BY <1>f, <1>j DEF NoFaults
  <2> QED BY <1>j, <2>1, WorkStep
<1>u. ASSUME Works(t)', StatusOf(t)', UNCHANGED fault
      PROVE StatusInv'
  <2>1. NoFaults'
    BY <1>f, <1>u DEF NoFaults
  <2> QED BY <1>u, <2>1, TakeUpStep
<1>1. CASE StartCore(t) \/ StopCore(t) \/ RestartCore(t) \/ BranchOperation(t)
  <2>1. Moves(t)
    BY <1>1 DEF StartCore, StopCore, RestartCore, BranchOperation, Goto, Load, Moves
  <2>2. ~Works(t) /\ ~Works(t)'
    BY <1>0, <1>1 DEF StartCore, StopCore, RestartCore, BranchOperation, Goto
  <2>3. UNCHANGED <<Shown, guard, fault>>
    BY <1>1 DEF StartCore, StopCore, RestartCore, BranchOperation, Shown
  <2> QED BY <1>i, <2>1, <2>2, <2>3
<1>q. t \in Starts => pc[t] # "queue"
  BY DEF StartsGoOn
<1>2. CASE AcquireAndLoad(t) \/ AcquireAndGiveUp(t)
  <2>1. Moves(t)
    BY <1>2, Returned DEF AcquireAndLoad, AcquireAndGiveUp, Goto, Load, Moves
  <2>2. ~Works(t) /\ ~Works(t)'
    BY <1>0, <1>q, <1>2, Returned DEF AcquireAndLoad, AcquireAndGiveUp, Goto
  <2>3. UNCHANGED <<Shown, guard, fault>>
    BY <1>2 DEF AcquireAndLoad, AcquireAndGiveUp, Shown
  <2> QED BY <1>i, <2>1, <2>2, <2>3
<1>3. CASE Swap(t) \/ FinishManualRestart(t)
  <2>1. Moves(t)
    BY <1>3, Returned DEF Swap, FinishManualRestart, Goto, Load, Moves
  <2>2. ~Works(t) /\ ~Works(t)'
    BY <1>0, <1>q, <1>3, Returned DEF Swap, FinishManualRestart, Goto
  <2>3. UNCHANGED <<Shown, guard, fault>>
    BY <1>3 DEF Swap, FinishManualRestart, Shown, RestartOver, RequiredOnlyIfRunning
  <2> QED BY <1>i, <2>1, <2>2, <2>3
<1>4. CASE Launch(t)
  <2>1. Moves(t) /\ Works(t) /\ UNCHANGED fault
    BY <1>4, Returned DEF Launch, Goto, Moves
  <2>2. StatusOf(t)'
    BY <1>4, <1>w, <1>p, <1>f, <1>0, <2>1, Returned
    DEF Launch, StatusOf, PidIsHere, WorkFits, Follows, Here, Goto
  <2> QED BY <1>j, <2>1, <2>2
<1>5. CASE LaunchFails(t)
  <2>1. Moves(t) /\ Works(t) /\ UNCHANGED fault
    BY <1>5, Returned DEF LaunchFails, Goto, Moves
  <2>2. StatusOf(t)'
    BY <1>5, <1>w, <1>p, <1>f, <1>0, <2>1, Returned
    DEF LaunchFails, Stopped, StatusOf, PidIsHere, WorkFits, Follows, Here, Goto
  <2> QED BY <1>j, <2>1, <2>2
<1>6. CASE ExecStarted(t)
  <2>1. Moves(t) /\ Works(t) /\ UNCHANGED fault
    BY <1>6, Returned DEF ExecStarted, Goto, Moves
  <2>2. StatusOf(t)'
    BY <1>6, <1>w, <1>p, <1>f, <1>0, <2>1, Returned
    DEF ExecStarted, StatusOf, PidIsHere, WorkFits, Follows, Here, Goto
  <2> QED BY <1>j, <2>1, <2>2
<1>7. CASE ExecRefused(t)
  <2>1. Moves(t) /\ Works(t) /\ UNCHANGED fault
    BY <1>7, Returned, ZenonT(40) DEF ExecRefused, Goto, Moves
  <2>2. StatusOf(t)'
    BY <1>7, <1>w, <1>p, <1>f, <1>0, <2>1, Returned, ZenonT(40)
    DEF ExecRefused, Stopped, StatusOf, PidIsHere, WorkFits, Follows, Here, Goto
  <2> QED BY <1>j, <2>1, <2>2
<1>8. CASE ExecCancelled(t)
  <2>1. Moves(t) /\ Works(t) /\ UNCHANGED fault
    BY <1>8, Returned DEF ExecCancelled, Goto, Moves
  <2>2. StatusOf(t)'
    BY <1>8, <1>w, <1>p, <1>f, <1>0, <2>1, Returned
    DEF ExecCancelled, StatusOf, PidIsHere, WorkFits, Follows, Here, Goto
  <2> QED BY <1>j, <2>1, <2>2
<1>9. CASE AbortEnds(t)
  <2>1. Moves(t) /\ Works(t) /\ UNCHANGED fault
    BY <1>9, Returned, ZenonT(40) DEF AbortEnds, Goto, Moves
  <2>2. StatusOf(t)'
    BY <1>9, <1>w, <1>p, <1>f, <1>0, <2>1, Returned
    DEF AbortEnds, Stopped, StatusOf, PidIsHere, WorkFits, Follows, Here, Goto
  <2> QED BY <1>j, <2>1, <2>2
<1>10. CASE Adopt(t)
  <2>1. Moves(t) /\ Works(t) /\ UNCHANGED fault
    BY <1>10, Returned DEF Adopt, Goto, Moves
  <2>2. StatusOf(t)'
    <3>1. StatusOf(t) /\ Follows(t, MyPID(t)) /\ svc' = Adopted(svc, MyPID(t))
      BY <1>10, <1>w, <2>1 DEF Adopt, StatusOf, WorkFits
    <3>2. svc.status = "STARTING" => svc.pid = MyPID(t)
      BY <1>10, <3>1 DEF Adopt, Follows, Here, GuardStates
    <3>3. UNCHANGED Shown
      BY <3>1, <3>2 DEF Adopted, StartReported, Shown
    <3>4. pc'[t] = "probe" /\ UNCHANGED <<guard, job>>
      BY <1>10 DEF Adopt, Goto
    <3> QED
      BY <1>10, <3>1, <3>3, <3>4
      DEF Adopt, StatusOf, PidIsHere, WorkFits, Follows, Here, Shown
  <2> QED BY <1>j, <2>1, <2>2
<1>11. CASE Probe(t)
  <2>1. Moves(t) /\ Works(t) /\ UNCHANGED fault
    BY <1>11, Returned DEF Probe, Goto, Moves
  <2>2. StatusOf(t)'
    BY <1>11, <1>w, <1>p, <1>f, <1>0, <2>1, Returned
    DEF Probe, StatusOf, PidIsHere, WorkFits, Follows, Here, Goto
  <2> QED BY <1>j, <2>1, <2>2
<1>12. CASE ProbeFails(t)
  <2>1. Moves(t) /\ Works(t) /\ UNCHANGED fault
    BY <1>12, Returned DEF ProbeFails, Goto, Moves
  <2>2. StatusOf(t)'
    BY <1>12, <1>w, <1>p, <1>f, <1>0, <2>1, Returned
    DEF ProbeFails, Abandoning, StatusOf, PidIsHere, WorkFits, Follows, Here, Goto
  <2> QED BY <1>j, <2>1, <2>2
<1>13. CASE Abandon(t)
  <2>1. Moves(t) /\ Works(t) /\ UNCHANGED fault
    BY <1>13, Returned DEF Abandon, Goto, Moves
  <2>2. StatusOf(t)'
    <3>1. StatusOf(t) /\ Follows(t, MyPID(t)) /\ pc[t] = "abandon"
      BY <1>13, <1>w, <2>1 DEF Abandon, StatusOf, WorkFits
    <3>2. svc' = Stopped(svc) /\ guard[MyPID(t)] # "live" /\ UNCHANGED <<guard, job>>
      BY <1>13, <1>f, <3>1 DEF Abandon, KillConfirmed, KillDenied, NoFaults, Follows
    <3>3. ~Works(t)'
      BY <1>13, Returned DEF Abandon
    <3>4. pc'[t] \notin HasCore
      BY <3>3
    <3>5. \A p \in PIDs : guard[p] \notin {"live", "launching"}
      BY <1>p, <3>1, <3>2 DEF StatusOf, PidIsHere, Follows
    <3> QED
      BY <3>1, <3>2, <3>3, <3>4, <3>5 DEF Stopped, StatusOf, PidIsHere, WorkFits
  <2> QED BY <1>j, <2>1, <2>2
<1>14. CASE CompleteStart(t)
  <2>1. Moves(t) /\ Works(t) /\ UNCHANGED fault
    BY <1>14, Returned DEF CompleteStart, Goto, Moves
  <2>2. StatusOf(t)'
    <3>1. /\ StatusOf(t) /\ Follows(t, MyPID(t)) /\ pc[t] = "complete"
          /\ UNCHANGED <<guard, job>>
      BY <1>14, <1>w, <2>1 DEF CompleteStart, StatusOf, WorkFits
    <3>2. ~Works(t)' /\ pc'[t] \notin HasCore
      BY <1>14, Returned DEF CompleteStart
    <3>3. \A p \in PIDs : guard[p] # "launching"
      BY <3>1 DEF StatusOf
    <3>4. CASE CanComplete(svc, MyPID(t))
      <4>1. svc' = Completed(svc, MyPID(t), MySnap(t))
        BY <1>14, <3>4 DEF CompleteStart
      <4>2. Here(MyPID(t))
        BY <3>1, <3>4 DEF CanComplete, Follows, Here, GuardStates
      <4>3. /\ svc'.status = "RUNNING" /\ svc'.api = MyPID(t)
            /\ UNCHANGED <<svc.pid, svc.closing>> /\ svc.pid = MyPID(t)
        BY <3>4, <4>1 DEF CanComplete, Completed
      <4>4. PidIsHere'
        BY <1>p, <3>1, <4>2, <4>3 DEF StatusOf, PidIsHere, Follows, Here
      <4> QED
        BY <3>1, <3>2, <3>3, <4>3, <4>4 DEF StatusOf, WorkFits
    <3>5. CASE ~CanComplete(svc, MyPID(t))
      <4>1. UNCHANGED svc
        BY <1>14, <3>5 DEF CompleteStart
      <4>2. svc.status = "CRASHED"
        BY <3>1, <3>5 DEF CanComplete, StatusOf, PidIsHere, Follows, Here, GuardStates
      <4> QED
        BY <3>1, <3>2, <3>3, <4>1, <4>2 DEF StatusOf, PidIsHere, WorkFits, Here
    <3> QED BY <3>4, <3>5
  <2> QED BY <1>j, <2>1, <2>2
<1>15. CASE Kill(t)
  <2>1. Moves(t) /\ Works(t) /\ UNCHANGED fault
    BY <1>15, Returned DEF Kill, Goto, Moves
  <2>2. StatusOf(t)'
    BY <1>15, <1>w, <1>p, <1>f, <1>0, <2>1, Returned
    DEF Kill, KillConfirmed, NoFaults, Stopped, AfterHalt, StatusOf, PidIsHere,
        WorkFits, Follows, Here, Goto
  <2> QED BY <1>j, <2>1, <2>2
<1>16. CASE KillFails(t)
  <2>1. Moves(t) /\ Works(t) /\ UNCHANGED fault
    BY <1>16, Returned DEF KillFails, Goto, Moves
  <2>2. StatusOf(t)'
    BY <1>16, <1>w, <1>p, <1>f, <1>0, <2>1, Returned
    DEF KillFails, KillDenied, NoFaults, StopFailed, StatusOf, PidIsHere,
        WorkFits, Follows, Here, Goto
  <2> QED BY <1>j, <2>1, <2>2
<1>17. CASE Prepare(t) \/ PrepareFails(t)
  <2>1. Moves(t) /\ UNCHANGED fault
    BY <1>17, Returned DEF Prepare, PrepareFails, Goto, Moves
  <2>2. CASE t \in Starts
    <3>1. Works(t)
      BY <1>17, <2>2 DEF Prepare, PrepareFails
    <3>2. StatusOf(t)'
      <4>1. /\ StatusOf(t) /\ svc.status = "STARTING" /\ svc.pid = NoPID
            /\ UNCHANGED <<guard, job>>
        BY <1>17, <1>w, <2>2, <3>1 DEF Prepare, PrepareFails, StatusOf, WorkFits
      <4>2. \A p \in PIDs : guard[p] \notin {"live", "launching"}
        BY <1>17, <1>p, <4>1 DEF Prepare, PrepareFails, StatusOf, PidIsHere
      <4>3. CASE Prepare(t)
        BY <2>2, <4>1, <4>2, <4>3 DEF Prepare, Goto, StatusOf, PidIsHere, WorkFits, Here
      <4>4. CASE PrepareFails(t)
        <5>1. svc' = Stopped(svc) /\ ~Works(t)' /\ pc'[t] \notin HasCore
          BY <2>2, <4>4, Returned DEF PrepareFails
        <5> QED
          BY <4>1, <4>2, <5>1 DEF Stopped, StatusOf, PidIsHere, WorkFits, Here
      <4> QED BY <1>17, <4>3, <4>4
    <3> QED BY <1>j, <2>1, <3>1, <3>2
  <2>3. CASE t \notin Starts
    <3>1. ~Works(t) /\ ~Works(t)'
      BY <1>17, <2>3, Returned DEF Prepare, PrepareFails, Goto
    <3>2. UNCHANGED <<Shown, guard, fault>>
      BY <1>17, <2>3 DEF Prepare, PrepareFails, Shown
    <3> QED BY <1>i, <2>1, <3>1, <3>2
  <2> QED BY <2>2, <2>3
<1>18. CASE Halt(t)
  <2>1. Moves(t) /\ UNCHANGED <<guard, fault>>
    BY <1>18, Returned DEF Halt, Goto, Moves
  <2>2. CASE UNCHANGED svc
    <3>1. ~Works(t) /\ ~Works(t)'
      BY <1>18, <2>2, Returned DEF Halt, Goto, AfterHalt, Stopping, CanStop
    <3> QED BY <1>i, <2>1, <2>2, <3>1 DEF Shown
  <2>3. CASE CanStop(svc) /\ svc' = Stopping(svc) /\ Goto(t, "kill")
    <3>1. Works(t)'
      BY <2>3 DEF Goto
    <3>2. StatusOf(t)'
      <4>1. /\ svc.status = "RUNNING" /\ svc.pid \in PIDs /\ Here(svc.pid)
            /\ PidIsHere /\ HasWorker
        BY <2>3 DEF StatusInv, PidIsHere, CanStop
      <4>2. MyPID(t)' = svc.pid /\ pc'[t] = "kill"
        <5>1. job' = [job EXCEPT ![t].pid = svc.pid] /\ pc' = [pc EXCEPT ![t] = "kill"]
          BY <1>18, <2>3 DEF Halt, NothingToStop, CanStop, Goto
        <5> QED BY <5>1 DEF Job
      <4>3. \A p \in PIDs : guard[p] # "launching"
        BY <1>p, <4>1 DEF HasWorker
      <4> QED
        BY <2>1, <2>3, <1>p, <4>1, <4>2, <4>3
        DEF Stopping, StatusOf, PidIsHere, WorkFits, Follows, Here
    <3> QED BY <1>u, <2>1, <3>1, <3>2
  <2> QED BY <1>18, <2>2, <2>3 DEF Halt
<1>19. CASE Claim(t)
  <2>1. Moves(t) /\ UNCHANGED <<guard, fault, job>>
    BY <1>19, Returned DEF Claim, Goto, Moves
  <2>2. CASE ~CanStart(svc)
    <3>1. ~Works(t) /\ ~Works(t)' /\ UNCHANGED svc
      BY <1>19, <2>2, Returned DEF Claim
    <3> QED BY <1>i, <2>1, <3>1 DEF Shown
  <2>3. CASE CanStart(svc)
    <3>1. Works(t)' /\ svc' = Starting(svc, MySnap(t).id)
      BY <1>19, <2>3 DEF Claim, Goto
    <3>2. \A p \in PIDs : guard[p] # "launching"
      <4>1. ASSUME NEW p \in PIDs, guard[p] = "launching" PROVE FALSE
        <5>1. PICK u \in Ops : pc[u] \in {"exec", "abort"}
          BY <4>1 DEF StatusInv, HasWorker
        <5>2. u # t /\ pc'[u] = pc[u]
          BY <1>19, <2>1, <5>1 DEF Claim, Moves
        <5> QED BY <3>1, <5>1, <5>2 DEF OneAtATime
      <4> QED BY <4>1
    <3>3. StatusOf(t)'
      BY <1>19, <2>1, <2>3, <3>1, <3>2, <1>p, <1>0
      DEF StatusInv, Claim, CanStart, Starting, StatusOf, PidIsHere, WorkFits, Here, Goto
    <3> QED BY <1>u, <2>1, <3>1, <3>3
  <2> QED BY <2>2, <2>3
<1> QED
  BY <1>1, <1>2, <1>3, <1>4, <1>5, <1>6, <1>7, <1>8, <1>9, <1>10, <1>11, <1>12, <1>13,
     <1>14, <1>15, <1>16, <1>17, <1>18, <1>19
  DEF Step

(* No step brings a StartCore into that queue.                                *)
LEMMA StartsStep == TypeOK /\ StartsGoOn /\ [Next]_vars => StartsGoOn'
<1> SUFFICES ASSUME TypeOK, StartsGoOn, [Next]_vars PROVE StartsGoOn'
  OBVIOUS
<1> USE DEF StartsGoOn, TypeOK
<1>0. \A t \in Starts : t \in Ops /\ t \notin Stops \cup Restarts \cup Branches \cup {Worker}
  BY KernelAssumption DEF Ops, Calls
<1>1. ASSUME NEW t \in Ops, Step(t) \/ ExecCancelled(t) PROVE StartsGoOn'
  <2>1. /\ \A u \in Ops : u # t => pc'[u] = pc[u]
        /\ pc'[t] # "queue"
    BY <1>1, Returned
    DEF Step, ExecCancelled, AcquireAndLoad, AcquireAndGiveUp, Prepare, PrepareFails, Halt,
        Kill, KillFails, Swap, Claim, Launch, LaunchFails, ExecStarted, ExecRefused, AbortEnds,
        Adopt, Probe, ProbeFails, Abandon, CompleteStart, FinishManualRestart, AfterHalt, Goto
  <2> QED BY <1>0, <2>1
<1>2. ASSUME NEW t \in Ops, StartCore(t) \/ StopCore(t) \/ RestartCore(t) \/ BranchOperation(t)
      PROVE StartsGoOn'
  BY <1>0, <1>2 DEF StartCore, StopCore, RestartCore, BranchOperation, Goto
<1>3. ASSUME WorkerStep PROVE StartsGoOn'
  BY <1>0, <1>3
  DEF WorkerStep, WorkerCheck, WorkerLook, WorkerWaits, WorkerTake, WorkerClear, WorkerBlame, Goto
<1>4. ASSUME NEW n \in Notifiers, Persist(n) \/ Select(n) \/ NotifierStep(n) PROVE StartsGoOn'
  BY <1>0, <1>4 DEF Persist, Select, NotifierStep, ReadActive, RequestRestart, Enqueue,
     Goto
<1>5. ASSUME NEW p \in PIDs, GuardStep(p) \/ CoreExits(p) PROVE StartsGoOn'
  BY <1>5 DEF GuardStep, GuardStarted, GuardRefused, HandleExit, Untrack, CoreExits
<1>6. ASSUME ShutBegin \/ ShutStep PROVE StartsGoOn'
  BY <1>6
  DEF ShutBegin, ShutStep, ShutCancel, ShutDrain, ShutAgain, ShutGuards, ShutWait, ShutFinish,
      operating
<1>7. CASE UNCHANGED vars
  BY <1>7 DEF vars
<1>8. Calls \subseteq Ops
  BY DEF Ops
<1> QED BY <1>1, <1>2, <1>3, <1>4, <1>5, <1>6, <1>7, <1>8 DEF Next, Rest

(* The worker of the restart queue, when it runs no operation, and the notifiers. *)
LEMMA QueueStatus ==
  ASSUME TypeOK, PendingIsServed, StatusInv,
         WorkerStep \/ \E n \in Notifiers : Persist(n) \/ Select(n) \/ NotifierStep(n)
  PROVE  StatusInv'
<1> USE DEF TypeOK, CoreRecord
<1>1. Worker \in Ops /\ Worker \notin Starts
  BY KernelAssumption DEF Ops, Calls
<1>2. UNCHANGED <<guard, fault>>
  BY DEF WorkerStep, WorkerCheck, WorkerLook, WorkerWaits, WorkerTake, WorkerClear,
     WorkerBlame,
         Persist, Select, NotifierStep, ReadActive, RequestRestart, Enqueue
<1>3. UNCHANGED Shown
  BY DEF WorkerStep, WorkerCheck, WorkerLook, WorkerWaits, WorkerTake, WorkerClear,
     WorkerBlame,
         Persist, Select, NotifierStep, ReadActive, RequestRestart, Enqueue, Shown,
         RestartOver, RequiredOnlyIfRunning, ChangeNoted
<1>4. CASE UNCHANGED <<pc, job>>
  BY <1>2, <1>3, <1>4
  DEF StatusInv, PidIsHere, HasWorker, NoFaults, WorkFits, Follows, Launches, Ends, Here, MyPID,
      Shown
<1>5. CASE ~UNCHANGED <<pc, job>>
  <2>1. Moves(Worker)
    BY <1>1, <1>5
    DEF WorkerStep, WorkerCheck, WorkerLook, WorkerWaits, WorkerTake, WorkerClear, WorkerBlame,
        Persist, Select, NotifierStep, ReadActive, RequestRestart, Enqueue, Goto, Moves
  <2>2. ~Works(Worker) /\ ~Works(Worker)'
    BY <1>1, <1>5
    DEF WorkerStep, WorkerCheck, WorkerLook, WorkerWaits, WorkerTake, WorkerClear, WorkerBlame,
        Persist, Select, NotifierStep, ReadActive, RequestRestart, Enqueue, PendingIsServed,
        Goto, Works, Launches, Ends
  <2> QED BY <1>1, <1>2, <1>3, <2>1, <2>2, IdleStep
<1> QED BY <1>4, <1>5

(* The guards: a start and an exit are about the core of the one who works, if  *)
(* somebody does.                                                             *)
LEMMA GuardStatus ==
  ASSUME Outcomes \subseteq {"none"}, TypeOK, StatusInv, OneAtATime,
         NEW p \in PIDs, GuardStep(p) \/ CoreExits(p)
  PROVE  StatusInv'
<1> USE DEF TypeOK, CoreRecord
<1>0. UNCHANGED <<pc, job>> /\ NoPID \notin PIDs
  BY CoreStateAssumption
  DEF GuardStep, GuardStarted, GuardRefused, HandleExit, Untrack, CoreExits, PIDs, NoPID, others
<1>1. NoFaults'
  BY DEF GuardStep, GuardStarted, GuardRefused, HandleExit, Untrack, CoreExits, StatusInv,
     NoFaults
<1>2. ASSUME NEW t \in Ops, Works(t), StatusOf(t)' PROVE StatusInv'
  <2>1. WorksAlone(t)'
    BY <1>0, <1>2 DEF OneAtATime, WorksAlone, Works, Launches, Ends
  <2> QED BY <1>1, <1>2, <2>1, AloneFits
<1>3. ASSUME NEW t \in Ops, Works(t) PROVE StatusOf(t)
  BY <1>3, StaysAlone, AloneIs
<1>4. CASE \E t \in Ops : Works(t)
  <2>0. PICK t \in Ops : Works(t)
    BY <1>4
  <2>1. StatusOf(t) /\ (pc[t] \in HasCore => Follows(t, MyPID(t)))
    BY <1>3, <2>0 DEF StatusOf, WorkFits
  <2>2. CASE GuardStarted(p)
    <3>1. /\ guard[p] = "launching" /\ guard' = [guard EXCEPT ![p] = "live"]
          /\ svc' = [svc EXCEPT !.pid = p] /\ \A q \in PIDs : guard[q] # "live"
      BY <2>2 DEF GuardStarted, RecordRemains, StartReported
    <3>2. /\ pc[t] \in {"exec", "abort"} /\ MyPID(t) = p /\ svc.status = "STARTING"
          /\ Follows(t, p)
      BY <2>1, <3>1 DEF StatusOf, HasCore, Follows, Ends
    <3> QED
      BY <1>0, <1>2, <2>0, <2>1, <3>1, <3>2
      DEF StatusOf, PidIsHere, WorkFits, Follows, Here, Launches, Ends, HasCore, MyPID
  <2>3. CASE GuardRefused(p)
    <3>1. /\ guard[p] = "launching" /\ guard' = [guard EXCEPT ![p] = "refused"]
          /\ UNCHANGED svc
      BY <2>3 DEF GuardRefused
    <3>2. pc[t] \in {"exec", "abort"} /\ MyPID(t) = p /\ svc.pid = NoPID
      BY <2>1, <3>1 DEF StatusOf
    <3> QED
      BY <1>0, <1>2, <2>0, <2>1, <3>1, <3>2
      DEF StatusOf, PidIsHere, WorkFits, Follows, Here, Launches, Ends, HasCore, MyPID
  <2>4. CASE CoreExits(p)
    <3>1. guard[p] = "live" /\ guard' = [guard EXCEPT ![p] = "done"] /\ UNCHANGED svc
      BY <2>4 DEF CoreExits
    <3> QED
      BY <1>0, <1>2, <2>0, <2>1, <3>1
      DEF StatusOf, PidIsHere, WorkFits, Follows, Here, Launches, Ends, HasCore, MyPID
  <2>5. CASE HandleExit(p)
    <3>1. /\ guard[p] = "done" /\ guard' = [guard EXCEPT ![p] = "called"]
          /\ svc' = IF ExitApplies(svc, p) THEN AfterExit(svc, FALSE) ELSE svc
      BY <2>5 DEF HandleExit, StatusInv, NoFaults
    <3> QED
      BY <1>0, <1>2, <2>0, <2>1, <3>1
      DEF StatusOf, PidIsHere, WorkFits, Follows, Here, Launches, Ends, HasCore, MyPID,
          ExitApplies, AfterExit
  <2>6. CASE Untrack(p)
    <3>1. guard[p] = "called" /\ guard' = [guard EXCEPT ![p] = "gone"] /\ UNCHANGED svc
      BY <2>6 DEF Untrack
    <3> QED
      BY <1>0, <1>2, <2>0, <2>1, <3>1
      DEF StatusOf, PidIsHere, WorkFits, Follows, Here, Launches, Ends, HasCore, MyPID
  <2> QED BY <2>2, <2>3, <2>4, <2>5, <2>6 DEF GuardStep
<1>5. CASE ~ \E t \in Ops : Works(t)
  <2>1. /\ PidIsHere /\ svc.status \notin {"STARTING", "STOPPING"}
        /\ \A q \in PIDs : guard[q] # "launching"
    BY <1>5 DEF StatusInv, HasWorker, Works, Launches
  <2>2. /\ PidIsHere' /\ svc'.status \notin {"STARTING", "STOPPING"}
        /\ \A q \in PIDs : guard'[q] # "launching"
    <3>1. CASE CoreExits(p)
      BY <2>1, <3>1 DEF CoreExits, PidIsHere, Here
    <3>2. CASE HandleExit(p)
      <4>1. /\ guard[p] = "done" /\ guard' = [guard EXCEPT ![p] = "called"]
            /\ svc' = IF ExitApplies(svc, p) THEN AfterExit(svc, FALSE) ELSE svc
        BY <3>2 DEF HandleExit, StatusInv, NoFaults
      <4> QED BY <1>0, <2>1, <4>1 DEF PidIsHere, Here, ExitApplies, AfterExit
    <3>3. CASE Untrack(p)
      BY <2>1, <3>3 DEF Untrack, PidIsHere, Here
    <3> QED BY <2>1, <3>1, <3>2, <3>3 DEF GuardStep, GuardStarted, GuardRefused
  <2>3. \A t \in Ops : WorkFits(t)'
    BY <1>0, <1>5 DEF WorkFits, Works, Launches, Ends, HasCore
  <2> QED BY <1>1, <2>2, <2>3 DEF StatusInv, HasWorker
<1> QED BY <1>4, <1>5

(* Every step keeps StatusInv until the shutdown begins.                      *)
LEMMA StatusStep ==
  ASSUME ~SlowGuard, Outcomes \subseteq {"none"},
         TypeOK, StartsGoOn, PendingIsServed, ClosedInv, OneAtATime, OneAtATime',
         shut = "open" => StatusInv, [Next]_vars
  PROVE  shut' = "open" => StatusInv'
<1>1. CASE UNCHANGED vars
  BY <1>1
  DEF vars, StatusInv, PidIsHere, HasWorker, NoFaults, WorkFits, Follows, Launches, Ends, Here,
      MyPID
<1>2. CASE ShutBegin \/ ShutStep
  <2>1. shut' # "open"
    BY <1>2
    DEF ShutBegin, ShutStep, ShutCancel, ShutDrain, ShutAgain, ShutGuards, ShutWait, ShutFinish,
        Advance
  <2> QED BY <2>1
<1>3. ASSUME NEW t \in Ops,
             \/ Step(t) \/ ExecCancelled(t)
             \/ StartCore(t) \/ StopCore(t) \/ RestartCore(t) \/ BranchOperation(t)
      PROVE  shut' = "open" => StatusInv'
  <2>1. shut' = shut
    BY <1>3, OperationsLeaveTheGuards DEF GuardFrame
  <2>2. shut = "open" => ~guardsClosing
    BY DEF ClosedInv
  <2> QED BY <1>3, <2>1, <2>2, OperationStatus
<1>4. CASE WorkerStep \/ \E n \in Notifiers : Persist(n) \/ Select(n) \/ NotifierStep(n)
  <2>1. shut' = shut
    BY <1>4
    DEF WorkerStep, WorkerCheck, WorkerLook, WorkerWaits, WorkerTake, WorkerClear, WorkerBlame,
        Persist, Select, NotifierStep, ReadActive, RequestRestart, Enqueue, others, stopping
  <2> QED BY <1>4, <2>1, QueueStatus
<1>5. ASSUME NEW p \in PIDs, GuardStep(p) \/ CoreExits(p)
      PROVE  shut' = "open" => StatusInv'
  <2>1. shut' = shut
    BY <1>5 DEF GuardStep, GuardStarted, GuardRefused, HandleExit, Untrack, CoreExits,
                others, stopping
  <2> QED BY <1>5, <2>1, GuardStatus
<1>6. Calls \subseteq Ops
  BY DEF Ops
<1> QED BY <1>1, <1>2, <1>3, <1>4, <1>5, <1>6 DEF Next, Rest

(* Without a core nothing is shown; the core of Boot runs as its first one.   *)
LEMMA StatusInit == Init => StatusInv /\ StartsGoOn
<1> SUFFICES ASSUME Init PROVE StatusInv /\ StartsGoOn
  OBVIOUS
<1>1. \A t \in Ops : pc[t] = "idle"
  BY DEF Init
<1>2. StartsGoOn
  BY <1>1 DEF StartsGoOn, Ops, Calls
<1>3. \A t \in Ops : WorkFits(t)
  BY <1>1 DEF WorkFits, Launches, HasCore
<1>4. NoFaults /\ \A p \in PIDs : guard[p] # "launching"
  BY DEF Init, NoFaults
<1>5. PidIsHere /\ svc.status \in {"STOPPED", "RUNNING"}
  <2>1. CASE Boot = NoProfile
    BY <2>1 DEF Init, PidIsHere, NewService, Here
  <2>2. CASE Boot # NoProfile
    <3>1. 1 \in PIDs /\ NoPID # 1
      BY <2>2, KernelAssumption, CoreStateAssumption DEF PIDs, NoPID
    <3>2. /\ svc.status = "RUNNING" /\ svc.pid = 1 /\ svc.api = 1 /\ ~svc.closing
          /\ \A p \in PIDs : guard[p] = IF p = 1 THEN "live" ELSE "free"
      BY <2>2 DEF Init, RunningService, NewService
    <3> QED BY <3>1, <3>2 DEF PidIsHere, Here
  <2> QED BY <2>1, <2>2
<1> QED BY <1>2, <1>3, <1>4, <1>5 DEF StatusInv, HasWorker

(* StatusInv is what StatusIsTrue asks for, and a closing service shows no    *)
(* core as running.                                                           *)
LEMMA StatusShows ==
  ASSUME TypeOK, ClosingInv, ClosedInv, shut = "open" => StatusInv
  PROVE  StatusIsTrue
<1>1. CASE shut # "open"
  BY <1>1 DEF ClosedInv, ClosingInv, Revoked, StatusIsTrue, RunningIsCurrent,
     NoCoreBehind,
              CanStartAgain, Settled
<1>2. CASE shut = "open"
  <2>1. RunningIsCurrent
    BY <1>2 DEF StatusInv, PidIsHere, Here, RunningIsCurrent
  <2>2. Settled => svc.status \notin {"STARTING", "STOPPING"}
    BY <1>2 DEF Settled, StatusInv, HasWorker, Launches, Ends
  <2>3. NoCoreBehind
    BY <1>2, <2>2, CoreStateAssumption
    DEF NoCoreBehind, Live, StatusInv, PidIsHere, PIDs, NoPID
  <2>4. CanStartAgain
    <3> SUFFICES ASSUME Settled, \A p \in PIDs : ~Live(p) PROVE CanStart(svc)
      BY DEF CanStartAgain
    <3>1. svc.pid = NoPID
      BY <1>2 DEF Settled, Live, StatusInv, PidIsHere, Here, TypeOK, CoreRecord
    <3>2. svc.status # "RUNNING" /\ ~svc.closing
      BY <1>2, <3>1 DEF StatusInv, PidIsHere
    <3>3. svc.status \in {"STOPPED", "CRASHED"}
      BY <2>2, <3>2 DEF TypeOK, CoreRecord, Status
    <3> QED BY <3>1, <3>2, <3>3 DEF CanStart
  <2> QED BY <2>1, <2>3, <2>4 DEF StatusIsTrue
<1> QED BY <1>1, <1>2

(* A core shown as running is the one whose credential is served, none lives  *)
(* unseen once all calls have ended, and without a core one can be started    *)
(* (launchCore, completeStart, setStopped, handleCoreProcessExit): with any   *)
(* number of requests, restarts, crashes of cores and failing launches, and   *)
(* while the application shuts down.  It needs OneAtATime; the guards stop    *)
(* the cores they are told to, and report exits in time.                      *)
THEOREM StatusStaysTrue ==
  ASSUME ~SlowGuard, Outcomes \subseteq {"none"}
  PROVE  Spec /\ []OneAtATime => []StatusIsTrue
<1> DEFINE I == /\ TypeOK /\ QueueInv /\ ClosingInv /\ ClosedInv /\ StartsGoOn
                /\ shut = "open" => StatusInv
<1>1. Init => I
  BY TypeInit, QueueInit, ClosingInit, ClosedInit, StatusInit
<1>2. I /\ OneAtATime /\ OneAtATime' /\ [Next]_vars => I'
  BY TypeStep, QueueStep, ClosingStep, ClosedStep, StartsStep, StatusStep DEF QueueInv
<1>3. I => StatusIsTrue
  BY StatusShows
<1> HIDE DEF I
<1> QED
  BY <1>1, <1>2, <1>3, PTL DEF Spec

-----------------------------------------------------------------------------
(* What becomes of changes and selections.  AutomaticOnly is what a theorem   *)
(* about them takes: a core is started by the worker alone, though it may be  *)
(* stopped by anyone and exit at any time, and no restart fails.              *)
AutomaticOnly == Starts \cup Restarts \cup Branches = {} /\ ~MayFail

(* The worker has read a profile that it has not yet started.                 *)
Loading == {"prepare", "halt", "kill", "claim", "write", "exec", "abort", "adopt", "probe",
            "complete"}

(* The worker has taken on a restart and has not yet stopped the core for it. *)
BeforeHalt == {"queue", "prepare", "halt"}

OnItsWay(n) == note[n].at \in {"read", "request", "enqueue"}

(* Before the shutdown: no worker waits for nothing, or is where only calls are. *)
Working ==
  /\ ~svc.closing
  /\ pc[Worker] \notin {"swap", "finish", "done"}
  /\ pc[Worker] = "take" => queue.pending
  /\ pc[Worker] = "queue" => MySnap(Worker).id \in Profiles

(* saveMu: one selection at a time, and it is the one that is stored.         *)
OneSelection ==
  /\ \A n \in Switches : OnItsWay(n) => note[n].id = selected /\ note[n].at # "read"
  /\ \A m, n \in Switches : OnItsWay(m) /\ OnItsWay(n) => m = n

(* Without selections everything is about the first profile, and nothing is   *)
(* restarted without AutoRestart.                                             *)
OneProfile ==
  /\ svc.active = Boot
  /\ svc.status = "RUNNING" => svc.cur.id = Boot
  /\ queue.target \in {Boot, NoProfile} /\ queue.executing \in {Boot, NoProfile}
  /\ \A n \in Notifiers : note[n].at \in {"request", "enqueue"} => note[n].id = Boot
  /\ pc[Worker] \in Loading \cup {"queue"} => MySnap(Worker).id = Boot
  /\ ~AutoRestart => ~queue.worker /\ \A n \in Notifiers : note[n].at # "enqueue"

(* What is stale has a change on its way, or a restart that reads it.         *)
ChangeComes == queue.pending \/ \E n \in Notifiers : OnItsWay(n) /\ note[n].id = Boot
ChangesArrive ==
  /\ svc.status = "RUNNING" =>
       \/ svc.required \/ svc.cur.rev = rev[Boot] \/ ChangeComes \/ pc[Worker] \in BeforeHalt
  /\ pc[Worker] \in Loading => MySnap(Worker).rev = rev[Boot] \/ ChangeComes

(* What is not of the selected profile has the selection on its way, or a     *)
(* restart with it.                                                           *)
SelectionComes == \E n \in Switches : OnItsWay(n)
SelectionsArrive ==
  /\ svc.status = "RUNNING" =>
       \/ svc.required \/ svc.cur.id = selected \/ SelectionComes \/ queue.pending
       \/ pc[Worker] \in BeforeHalt
  /\ queue.pending => queue.target = selected \/ SelectionComes
  /\ pc[Worker] \in Loading \cup {"queue"} =>
       MySnap(Worker).id = selected \/ SelectionComes \/ queue.pending

Reloads ==
  /\ Working /\ OneSelection
  /\ Untouched(Switches) => OneProfile /\ ChangesArrive
  /\ Untouched(Changes) => SelectionsArrive

ReloadInv == shut = "open" => Reloads

(* Initially a core that runs has the profile that is selected, as it is stored. *)
LEMMA ReloadInit == Init => ReloadInv
<1> SUFFICES ASSUME Init PROVE Reloads
  BY DEF ReloadInv
<1>1. pc[Worker] = "idle" /\ ~queue.pending /\ ~queue.worker
  BY DEF Init, Ops
<1>2. \A n \in Notifiers : note[n].at = "idle"
  BY DEF Init
<1>3. /\ ~svc.closing /\ svc.active = Boot /\ selected = Boot
      /\ svc.status = "RUNNING" =>
           Boot \in Profiles /\ svc.cur.id = Boot /\ svc.cur.rev = 0 /\ rev[Boot] = 0
  BY KernelAssumption DEF Init, NewService, RunningService
<1>4. queue.target = NoProfile /\ queue.executing = NoProfile
  BY DEF Init
<1>5. Changes \subseteq Notifiers /\ Switches \subseteq Notifiers
  BY DEF Notifiers
<1> QED
  BY <1>1, <1>2, <1>3, <1>4, <1>5
  DEF Reloads, Working, OneSelection, OneProfile, ChangesArrive, SelectionsArrive, OnItsWay,
      Loading, BeforeHalt

(* Steps that bring no core into being, and no change: a core that runs keeps *)
(* running, as it is and with what it requires, or does not; the worker goes on. *)
Mild ==
  /\ UNCHANGED <<note, rev, selected, shut, queue.pending, queue.target>>
  /\ queue'.executing \in {queue.executing, NoProfile} /\ (queue'.worker => queue.worker)
  /\ svc'.closing = svc.closing
  /\ svc'.active = svc.active \/ (pc[Worker] \in Loading /\ svc'.active = MySnap(Worker).id)
  /\ svc'.status = "RUNNING" =>
       svc.status = "RUNNING" /\ svc'.cur = svc.cur /\ (svc.required => svc'.required)
  /\ MySnap(Worker)' = MySnap(Worker)

WorkerGoesOn ==
  /\ pc'[Worker] \notin {"swap", "finish", "done"}
  /\ pc'[Worker] = "take" => queue.pending
  /\ pc'[Worker] = "queue" => pc[Worker] = "queue"
  /\ pc'[Worker] \in Loading => pc[Worker] \in Loading
  /\ svc'.status = "RUNNING" /\ pc[Worker] \in BeforeHalt => pc'[Worker] \in BeforeHalt

LEMMA MildStep ==
  ASSUME Reloads, Mild, WorkerGoesOn
  PROVE  Reloads'
<1> USE DEF Mild, WorkerGoesOn
<1>1. Working' /\ OneSelection'
  BY DEF Reloads, Working, OneSelection, OnItsWay
<1>2. Untouched(Switches)' => OneProfile' /\ ChangesArrive'
  BY DEF Reloads, Untouched, OneProfile, ChangesArrive, ChangeComes, OnItsWay
<1>3. Untouched(Changes)' => SelectionsArrive'
  BY DEF Reloads, Untouched, SelectionsArrive, SelectionComes, OnItsWay
<1> QED BY <1>1, <1>2, <1>3 DEF Reloads

LEMMA MildAlone ==
  ASSUME Reloads, Mild, pc'[Worker] = pc[Worker]
  PROVE  Reloads'
<1>1. WorkerGoesOn
  BY DEF WorkerGoesOn, Reloads, Working
<1> QED BY <1>1, MildStep

(* A thread that turns to another core keeps the profile it has read.         *)
LEMMA ProfileKept ==
  ASSUME TypeOK, NEW t \in Ops, NEW p, job' = [job EXCEPT ![t].pid = p], NEW u \in Ops
  PROVE  MySnap(u)' = MySnap(u)
<1>1. CASE u = t
  BY <1>1 DEF TypeOK, Job, MySnap
<1>2. CASE u # t
  BY <1>2 DEF TypeOK, MySnap
<1> QED BY <1>1, <1>2

(* Calls, which are only stops here.                                          *)
LEMMA CallReloads ==
  ASSUME AutomaticOnly, TypeOK, ClosedInv, Reloads, NEW t \in Stops,
         Step(t) \/ ExecCancelled(t) \/ StopCore(t)
  PROVE  Reloads'
<1>1. t \in Ops /\ Worker \in Ops /\ t # Worker
  BY KernelAssumption DEF Ops, Calls
<1>2. pc[t] \in {"idle", "halt", "kill", "done"}
  BY DEF ClosedInv
<1>3. StopCore(t) \/ Halt(t) \/ Kill(t) \/ KillFails(t)
  BY <1>2
  DEF Step, ExecCancelled, AcquireAndLoad, AcquireAndGiveUp, Prepare, PrepareFails, Swap, Claim,
      Launch, LaunchFails, ExecStarted, ExecRefused, AbortEnds, Adopt, Probe, ProbeFails, Abandon,
      CompleteStart, FinishManualRestart
<1>4. pc'[Worker] = pc[Worker] /\ MySnap(Worker)' = MySnap(Worker)
  <2>1. pc'[Worker] = pc[Worker]
    BY <1>1, <1>3 DEF StopCore, Halt, Kill, KillFails, Goto, Return, TypeOK
  <2>2. job' = job \/ job' = [job EXCEPT ![t].pid = svc.pid]
    BY <1>3 DEF StopCore, Halt, Kill, KillFails
  <2> QED BY <1>1, <2>1, <2>2, ProfileKept DEF MySnap
<1>5. Mild
  BY <1>3, <1>4
  DEF StopCore, Halt, Kill, KillFails, Stopping, Stopped, StopFailed, Mild, TypeOK, CoreRecord,
      others, stopping, stored
<1> QED BY <1>4, <1>5, MildAlone

(* Guards and cores.                                                          *)
LEMMA GuardReloads ==
  ASSUME TypeOK, Reloads, NEW p \in PIDs, GuardStep(p) \/ CoreExits(p)
  PROVE  Reloads'
<1>1. pc' = pc /\ job' = job /\ UNCHANGED <<queue, note, rev, selected, shut>>
  BY DEF GuardStep, GuardStarted, GuardRefused, HandleExit, Untrack, CoreExits, others,
     stopping,
         stored
<1>2. Mild
  BY <1>1
  DEF GuardStep, GuardStarted, GuardRefused, HandleExit, Untrack, CoreExits, StartReported,
      ExitApplies, AfterExit, Mild, MySnap, TypeOK, CoreRecord
<1> QED BY <1>1, <1>2, MildAlone

(* The worker, but for where it takes a restart up, reads the profile and has *)
(* started the core.                                                          *)
LEMMA WorkerReloads ==
  ASSUME AutomaticOnly, TypeOK, QueueInv, shut = "open", Reloads,
         \/ WorkerCheck \/ WorkerLook \/ WorkerWaits \/ WorkerClear \/ WorkerBlame
         \/ ExecCancelled(Worker)
         \/ Step(Worker) /\ ~AcquireAndLoad(Worker) /\ ~CompleteStart(Worker)
  PROVE  Reloads'
<1> USE DEF TypeOK, CoreRecord, Queue, MySnap
<1>0. /\ Worker \in Ops /\ Worker \notin Starts \cup Stops \cup Restarts \cup Branches
      /\ Worker \notin Calls
  BY KernelAssumption DEF Ops, Calls
<1>1. ~LifecycleCancelled /\ ~Cancelled(Worker) /\ ~svc.closing
      /\ pc[Worker] \notin {"swap", "finish", "done"}
  BY <1>0 DEF LifecycleCancelled, Cancelled, Reloads, Working
<1>2. CASE WorkerCheck \/ WorkerLook \/ WorkerWaits
  <2>1. Mild
    BY <1>2, <1>1
    DEF WorkerCheck, WorkerLook, WorkerWaits, RestartOver, RequiredOnlyIfRunning, Goto, Mild,
        others, stopping, stored
  <2>2. WorkerGoesOn
    BY <1>0, <1>1, <1>2
    DEF WorkerCheck, WorkerLook, WorkerWaits, Goto, WorkerGoesOn, Loading, BeforeHalt
  <2> QED BY <2>1, <2>2, MildStep
<1>3. CASE WorkerClear \/ WorkerBlame
  <2>1. Mild
    BY <1>3
    DEF WorkerClear, WorkerBlame, RequiredOnlyIfRunning, Goto, Mild, others, stopping, stored
  <2>2. WorkerGoesOn
    BY <1>0, <1>1, <1>3 DEF WorkerClear, WorkerBlame, Goto, WorkerGoesOn, Loading,
       BeforeHalt
  <2> QED BY <2>1, <2>2, MildStep
<1>4. CASE Prepare(Worker) \/ PrepareFails(Worker) \/ AcquireAndGiveUp(Worker)
  <2>1. Prepare(Worker)
    BY <1>1, <1>4 DEF PrepareFails, AcquireAndGiveUp, AutomaticOnly, Reloads, Working
  <2>2. Mild /\ WorkerGoesOn
    BY <1>0, <2>1
    DEF Prepare, Goto, Mild, WorkerGoesOn, Loading, BeforeHalt, others, stopping, stored
  <2> QED BY <2>2, MildStep
<1>5. CASE Halt(Worker)
  <2>1. Mild
    <3>1. job' = job \/ job' = [job EXCEPT ![Worker].pid = svc.pid]
      BY <1>5 DEF Halt
    <3>2. MySnap(Worker)' = MySnap(Worker)
      BY <1>0, <3>1, ProfileKept
    <3>3. svc' = svc \/ svc' = Stopping(svc)
      BY <1>5 DEF Halt
    <3>4. UNCHANGED <<queue, note, rev, selected, shut>>
      BY <1>5 DEF Halt, others, stopping, stored
    <3>5. /\ svc'.closing = svc.closing /\ svc'.active = svc.active
          /\ svc'.status = "RUNNING" => svc' = svc
      BY <3>3 DEF Stopping
    <3> QED BY <3>2, <3>4, <3>5 DEF Mild
  <2>2. pc[Worker] = "halt"
    BY <1>5 DEF Halt
  <2>3. \/ pc'[Worker] = "claim" /\ svc.status # "RUNNING" /\ svc' = svc
        \/ pc'[Worker] = "kill" /\ svc' = Stopping(svc)
        \/ pc'[Worker] = "clearFailed" /\ svc.status # "RUNNING" /\ svc' = svc
    BY <1>0, <1>5 DEF Halt, NothingToStop, CanStop, AfterHalt, Return, Goto
  <2>4. svc' = Stopping(svc) => svc'.status # "RUNNING"
    BY DEF Stopping
  <2>5. WorkerGoesOn
    BY <2>2, <2>3, <2>4 DEF WorkerGoesOn, Loading, BeforeHalt
  <2> QED BY <2>1, <2>5, MildStep
<1>6. CASE Kill(Worker) \/ KillFails(Worker)
  <2>1. Mild
    BY <1>6 DEF Kill, KillFails, Stopped, StopFailed, Mild, others, stopping, stored
  <2>2. WorkerGoesOn
    BY <1>0, <1>6 DEF Kill, KillFails, AfterHalt, Return, Goto, WorkerGoesOn, Loading,
       BeforeHalt
  <2> QED BY <2>1, <2>2, MildStep
<1>7. CASE Swap(Worker) \/ FinishManualRestart(Worker)
  BY <1>1, <1>7 DEF Swap, FinishManualRestart
<1>8. CASE Claim(Worker)
  <2>1. Mild
    BY <1>8 DEF Claim, Starting, Loading, Mild, others, stopping, stored
  <2>2. WorkerGoesOn
    BY <1>0, <1>8 DEF Claim, Return, Goto, WorkerGoesOn, Loading, BeforeHalt
  <2> QED BY <2>1, <2>2, MildStep
<1>9. CASE Launch(Worker) \/ LaunchFails(Worker)
  <2>1. Mild
    <3>1. job' = job \/ \E p \in PIDs : job' = [job EXCEPT ![Worker].pid = p]
      BY <1>9 DEF Launch, LaunchFails
    <3>2. MySnap(Worker)' = MySnap(Worker)
      BY <1>0, <3>1, ProfileKept
    <3> QED BY <1>9, <3>2 DEF Launch, LaunchFails, Stopped, Mild, others, stopping, stored
  <2>2. WorkerGoesOn
    BY <1>0, <1>9 DEF Launch, LaunchFails, Return, Goto, WorkerGoesOn, Loading, BeforeHalt
  <2> QED BY <2>1, <2>2, MildStep
<1>10. CASE ExecStarted(Worker) \/ ExecRefused(Worker) \/ ExecCancelled(Worker)
            \/ AbortEnds(Worker)
  <2>1. Mild
    BY <1>10
    DEF ExecStarted, ExecRefused, ExecCancelled, AbortEnds, Stopped, Mild, others, stopping, stored
  <2>2. WorkerGoesOn
    BY <1>0, <1>10
    DEF ExecStarted, ExecRefused, ExecCancelled, AbortEnds, Return, Goto, WorkerGoesOn, Loading,
        BeforeHalt
  <2> QED BY <2>1, <2>2, MildStep
<1>11. CASE Adopt(Worker) \/ Probe(Worker) \/ ProbeFails(Worker) \/ Abandon(Worker)
  <2>1. Mild
    BY <1>11
    DEF Adopt, Probe, ProbeFails, Abandon, Adopted, StartReported, Abandoning, Stopped, Mild,
        others, stopping, stored
  <2>2. WorkerGoesOn
    BY <1>0, <1>11
    DEF Adopt, Probe, ProbeFails, Abandon, Return, Goto, WorkerGoesOn, Loading, BeforeHalt
  <2> QED BY <2>1, <2>2, MildStep
<1> QED
  BY <1>2, <1>3, <1>4, <1>5, <1>6, <1>7, <1>8, <1>9, <1>10, <1>11 DEF Step

(* The worker takes a restart up: its target is what arrives.                 *)
LEMMA TakeReloads ==
  ASSUME TypeOK, QueueInv, Reloads, WorkerTake
  PROVE  Reloads'
<1> USE DEF TypeOK, Queue, MySnap, others, stopping, stored
<1>1. Worker \in Ops
  BY DEF Ops
<1>2. /\ pc[Worker] = "take" /\ pc'[Worker] = "queue" /\ queue.pending
      /\ queue.target \in Profiles /\ ~queue'.pending
      /\ queue'.target = NoProfile /\ queue'.executing = queue.target
      /\ queue'.worker = queue.worker
      /\ UNCHANGED <<svc, note, rev, selected>>
  BY <1>1 DEF WorkerTake, Goto, Reloads, Working, QueueInv, PendingIsServed
<1>3. MySnap(Worker)'.id = queue.target
  BY <1>1 DEF WorkerTake, Job, Snapshot
<1>4. Working' /\ OneSelection'
  BY <1>2, <1>3 DEF Reloads, Working, OneSelection, OnItsWay
<1>5. Untouched(Switches)' => OneProfile' /\ ChangesArrive'
  BY <1>2, <1>3, CoreStateAssumption
  DEF Reloads, Untouched, OneProfile, ChangesArrive, OnItsWay, Loading, BeforeHalt
<1>6. Untouched(Changes)' => SelectionsArrive'
  BY <1>2, <1>3
  DEF Reloads, Untouched, SelectionsArrive, SelectionComes, OnItsWay, Loading, BeforeHalt
<1> QED BY <1>4, <1>5, <1>6 DEF Reloads

(* The worker reads the profile as it is stored.                              *)
LEMMA LoadReloads ==
  ASSUME TypeOK, Reloads, AcquireAndLoad(Worker)
  PROVE  Reloads'
<1> USE DEF TypeOK, MySnap, others, stopping, stored
<1>1. Worker \in Ops
  BY DEF Ops
<1>2. /\ pc[Worker] = "queue" /\ pc'[Worker] = "prepare"
      /\ UNCHANGED <<svc, queue, note, rev, selected>>
  BY <1>1 DEF AcquireAndLoad, Goto
<1>3. MySnap(Worker)' = [id |-> MySnap(Worker).id, rev |-> rev[MySnap(Worker).id]]
  BY <1>1 DEF AcquireAndLoad, Load, Job
<1>4. Working' /\ OneSelection'
  BY <1>2 DEF Reloads, Working, OneSelection, OnItsWay
<1>5. Untouched(Switches)' => OneProfile' /\ ChangesArrive'
  BY <1>2, <1>3
  DEF Reloads, Untouched, OneProfile, ChangesArrive, OnItsWay, Loading, BeforeHalt
<1>6. Untouched(Changes)' => SelectionsArrive'
  BY <1>2, <1>3
  DEF Reloads, Untouched, SelectionsArrive, SelectionComes, OnItsWay, Loading, BeforeHalt
<1> QED BY <1>4, <1>5, <1>6 DEF Reloads

(* What the worker has started is what it has read.                           *)
LEMMA CompleteReloads ==
  ASSUME TypeOK, Reloads, CompleteStart(Worker)
  PROVE  Reloads'
<1> USE DEF TypeOK, MySnap, others, stopping, stored
<1>1. Worker \in Ops /\ Worker \notin Restarts
  BY KernelAssumption DEF Ops, Calls
<1>2. /\ pc[Worker] = "complete" /\ pc'[Worker] \in {"clear", "clearFailed"}
      /\ UNCHANGED <<job, queue, note, rev, selected, shut>>
  BY <1>1 DEF CompleteStart, Return, Goto
<1>3. CASE svc' = svc
  <2>1. Mild /\ WorkerGoesOn
    BY <1>2, <1>3 DEF Mild, WorkerGoesOn, Loading, BeforeHalt
  <2> QED BY <2>1, MildStep
<1>4. CASE svc' = Completed(svc, MyPID(Worker), MySnap(Worker))
  <2>1. /\ svc'.cur = MySnap(Worker) /\ svc'.active = MySnap(Worker).id
        /\ svc'.closing = svc.closing
    BY <1>4 DEF Completed, CoreRecord
  <2>2. Working' /\ OneSelection'
    BY <1>2, <2>1 DEF Reloads, Working, OneSelection, OnItsWay
  <2>3. Untouched(Switches)' => OneProfile' /\ ChangesArrive'
    BY <1>2, <2>1
    DEF Reloads, Untouched, OneProfile, ChangesArrive, ChangeComes, OnItsWay, Loading
  <2>4. Untouched(Changes)' => SelectionsArrive'
    BY <1>2, <2>1
    DEF Reloads, Untouched, SelectionsArrive, SelectionComes, OnItsWay, Loading
  <2> QED BY <2>2, <2>3, <2>4 DEF Reloads
<1> QED BY <1>3, <1>4 DEF CompleteStart

(* A notifier on its way.                                                     *)
LEMMA NotifierReloads ==
  ASSUME TypeOK, QueueInv, shut = "open", Reloads, NEW n \in Notifiers,
         Persist(n) \/ Select(n) \/ NotifierStep(n)
  PROVE  Reloads'
<1> USE DEF TypeOK, CoreRecord, Queue, MySnap, Notifiers, others, stopping, stored
<1>0. ~LifecycleCancelled /\ ~svc.closing
  BY DEF LifecycleCancelled, Reloads, Working
<1>1. Changes \cap Switches = {} /\ Worker \in Ops /\ \A m : ~(m \in Changes /\ m \in Switches)
  BY KernelAssumption DEF Ops
<1>2. \A at, id : Notify(n, at, id) =>
        /\ note'[n].at = at /\ note'[n].id = id
        /\ \A m \in Notifiers : m # n => note'[m] = note[m]
  BY DEF Notify
<1>3. CASE Persist(n)
  <2>1. PICK id \in Profiles : rev' = [rev EXCEPT ![id] = @ + 1] /\ Notify(n, "read", id)
    BY <1>3 DEF Persist
  <2>2. /\ n \in Changes /\ note[n].at = "idle"
        /\ UNCHANGED <<svc, queue, pc, job, selected>>
        /\ note'[n].at = "read" /\ note'[n].id = id
        /\ \A m \in Notifiers : m # n => note'[m] = note[m]
    BY <1>2, <1>3, <2>1 DEF Persist
  <2>3. Working' /\ OneSelection'
    BY <1>1, <2>2 DEF Reloads, Working, OneSelection, OnItsWay
  <2>4. id = Boot => ChangeComes'
    BY <2>2 DEF ChangeComes, OnItsWay
  <2>5. ChangeComes => ChangeComes'
    BY <2>2 DEF ChangeComes, OnItsWay
  <2>6. id # Boot => rev'[Boot] = rev[Boot]
    BY <2>1
  <2>7. Untouched(Switches)' => OneProfile' /\ ChangesArrive'
    BY <1>1, <2>2, <2>4, <2>5, <2>6 DEF Reloads, Untouched, OneProfile, ChangesArrive
  <2>8. ~Untouched(Changes)'
    BY <2>2 DEF Untouched
  <2> QED BY <2>3, <2>7, <2>8 DEF Reloads
<1>4. CASE Select(n)
  <2>1. /\ n \in Switches /\ note[n].at = "idle" /\ UNCHANGED <<svc, queue, pc, job, rev>>
        /\ note'[n].at = "request" /\ note'[n].id = selected'
        /\ \A m \in Notifiers : m # n => note'[m] = note[m]
        /\ \A m \in Switches : note[m].at \in {"idle", "done"}
    BY <1>2, <1>4 DEF Select
  <2>2. Working' /\ OneSelection'
    BY <2>1 DEF Reloads, Working, OneSelection, OnItsWay
  <2>3. ~Untouched(Switches)'
    BY <2>1 DEF Untouched
  <2>4. SelectionComes'
    BY <2>1 DEF SelectionComes, OnItsWay
  <2> QED BY <2>2, <2>3, <2>4 DEF Reloads, SelectionsArrive
<1>5. svc.status = "RUNNING" \/ svc.restarting \/ (~queue.worker /\ pc[Worker] = "idle")
  BY DEF QueueInv, PendingIsServed
<1>6. CASE ReadActive(n)
  <2>1. /\ note[n].at = "read" /\ UNCHANGED <<svc, queue, pc, job, rev, selected>>
        /\ note'[n].id = note[n].id
        /\ \A m \in Notifiers : m # n => note'[m] = note[m]
        /\ note'[n].at = IF (svc.status = "RUNNING" \/ svc.restarting) /\ svc.active = note[n].id
                         THEN "request" ELSE "done"
    BY <1>2, <1>6 DEF ReadActive
  <2>2. n \in Changes /\ ~Untouched(Changes)'
    BY <2>1 DEF Reloads, OneSelection, OnItsWay, Untouched
  <2>3. Working' /\ OneSelection'
    BY <1>1, <2>1, <2>2 DEF Reloads, Working, OneSelection, OnItsWay
  <2>4. Untouched(Switches)' => OneProfile'
    BY <1>1, <2>1, <2>2 DEF Reloads, Untouched, OneProfile
  <2>5. ASSUME Untouched(Switches)' PROVE ChangesArrive'
    <3>1. Untouched(Switches) /\ OneProfile /\ ChangesArrive
      BY <1>1, <2>1, <2>2, <2>5 DEF Reloads, Untouched
    <3>2. CASE svc.status = "RUNNING" \/ svc.restarting
      <4>1. ChangeComes => ChangeComes'
        BY <2>1, <3>1, <3>2 DEF ChangeComes, OnItsWay, OneProfile
      <4> QED BY <2>1, <3>1, <4>1 DEF ChangesArrive
    <3>3. CASE ~(svc.status = "RUNNING" \/ svc.restarting)
      BY <1>5, <2>1, <3>3 DEF ChangesArrive, Loading
    <3> QED BY <3>2, <3>3
  <2> QED BY <2>2, <2>3, <2>4, <2>5 DEF Reloads
<1>7. CASE RequestRestart(n)
  <2> DEFINE automatic == n \in Switches \/ AutoRestart
             counts    == svc.status = "RUNNING" \/ svc.restarting
  <2>1. /\ note[n].at = "request" /\ UNCHANGED <<queue, pc, job, rev, selected>>
        /\ note'[n].id = note[n].id
        /\ \A m \in Notifiers : m # n => note'[m] = note[m]
        /\ note'[n].at = IF counts /\ automatic THEN "enqueue" ELSE "done"
        /\ svc' = IF counts THEN ChangeNoted(svc, automatic) ELSE svc
    BY <1>0, <1>2, <1>7 DEF RequestRestart, ChangeCounts
  <2>2. /\ UNCHANGED <<svc.closing, svc.status, svc.active, svc.cur>>
        /\ svc.required => svc'.required
        /\ counts => svc'.required
    BY <2>1 DEF ChangeNoted
  <2>3. Working' /\ OneSelection'
    BY <2>1, <2>2 DEF Reloads, Working, OneSelection, OnItsWay
  <2>4. Untouched(Switches)' => n \in Changes /\ Untouched(Switches)
    BY <2>1 DEF Untouched
  <2>5. Untouched(Switches)' => OneProfile'
    BY <1>1, <2>1, <2>2, <2>4 DEF Reloads, OneProfile
  <2>6. ASSUME Untouched(Switches)' PROVE ChangesArrive'
    <3>1. OneProfile /\ ChangesArrive /\ n \notin Switches
      BY <1>1, <2>4, <2>6 DEF Reloads
    <3>2. CASE ~counts
      BY <1>5, <2>1, <2>2, <3>2 DEF ChangesArrive, Loading
    <3>3. CASE counts /\ AutoRestart
      <4>1. ChangeComes => ChangeComes'
        BY <2>1, <3>3 DEF ChangeComes, OnItsWay
      <4> QED BY <2>1, <2>2, <3>1, <3>3, <4>1 DEF ChangesArrive
    <3>4. CASE counts /\ ~AutoRestart
      <4>1. pc[Worker] = "idle"
        BY <3>1, <3>4 DEF OneProfile, QueueInv, PendingIsServed
      <4> QED BY <2>1, <2>2, <3>4, <4>1 DEF ChangesArrive, Loading
    <3> QED BY <3>2, <3>3, <3>4
  <2>7. ASSUME Untouched(Changes)' PROVE SelectionsArrive'
    <3>1. n \in Switches /\ SelectionsArrive
      BY <2>1, <2>7 DEF Reloads, Untouched
    <3>2. CASE counts
      <4>1. SelectionComes'
        BY <2>1, <3>1, <3>2 DEF SelectionComes, OnItsWay
      <4> QED BY <4>1 DEF SelectionsArrive
    <3>3. CASE ~counts
      <4>1. ~queue.pending /\ pc[Worker] = "idle"
        BY <1>5, <3>3 DEF QueueInv, PendingIsServed
      <4> QED BY <2>1, <2>2, <3>3, <4>1 DEF SelectionsArrive, Loading
    <3> QED BY <3>2, <3>3
  <2> QED BY <2>3, <2>5, <2>6, <2>7 DEF Reloads
<1>8. CASE Enqueue(n)
  <2>1. /\ note[n].at = "enqueue" /\ UNCHANGED <<job, rev, selected>>
        /\ note'[n].at = "done"
        /\ \A m \in Notifiers : m # n => note'[m] = note[m]
        /\ UNCHANGED <<svc.closing, svc.status, svc.active, svc.cur, svc.required>>
        /\ pc'[Worker] \in {pc[Worker], "check"}
        /\ pc[Worker] # "idle" => pc'[Worker] = pc[Worker]
    BY <1>1, <1>2, <1>8 DEF Enqueue, Goto, QueueInv, PendingIsServed
  <2>2. /\ queue'.pending /\ queue'.executing = queue.executing
        /\ n \in Switches => queue'.target = note[n].id
        /\ queue'.target \in {queue.target, queue.executing, note[n].id}
    BY <1>8 DEF Enqueue, Enqueued
  <2>3. Working' /\ OneSelection'
    BY <2>1, <2>2 DEF Reloads, Working, OneSelection, OnItsWay
  <2>4. Untouched(Switches)' => n \in Changes /\ Untouched(Switches)
    BY <2>1 DEF Untouched
  <2>5. Untouched(Switches)' => OneProfile'
    BY <1>1, <2>1, <2>2, <2>4 DEF Reloads, OneProfile, Loading
  <2>6. Untouched(Switches)' => ChangesArrive'
    BY <2>2 DEF ChangesArrive, ChangeComes
  <2>7. ASSUME Untouched(Changes)' PROVE SelectionsArrive'
    <3>1. n \in Switches /\ note[n].id = selected
      BY <2>1, <2>7 DEF Reloads, Untouched, OneSelection, OnItsWay
    <3> QED BY <2>1, <2>2, <3>1 DEF SelectionsArrive
  <2> QED BY <2>3, <2>5, <2>6, <2>7 DEF Reloads
<1> QED BY <1>3, <1>4, <1>6, <1>7, <1>8 DEF NotifierStep

LEMMA ReloadStep ==
  ASSUME AutomaticOnly, TypeOK, QueueInv, ClosedInv, ReloadInv, [Next]_vars
  PROVE  ReloadInv'
<1>1. CASE shut' # "open"
  BY <1>1 DEF ReloadInv
<1>2. CASE UNCHANGED vars
  BY <1>2
  DEF vars, ReloadInv, Reloads, Working, OneSelection, OneProfile, ChangesArrive, SelectionsArrive,
      ChangeComes, SelectionComes, OnItsWay, Untouched, MySnap
<1>3. CASE ShutBegin \/ ShutStep
  BY <1>1, <1>3
  DEF ShutBegin, ShutStep, ShutCancel, ShutDrain, ShutAgain, ShutGuards, ShutWait, ShutFinish,
      Advance
<1>4. Calls = Stops /\ Ops = Stops \cup {Worker}
  BY DEF AutomaticOnly, Calls, Ops
<1>5. ASSUME shut' = "open", NEW t \in Ops,
             \/ Step(t) \/ ExecCancelled(t)
             \/ t \in Calls /\ (StartCore(t) \/ StopCore(t) \/ RestartCore(t) \/ BranchOperation(t))
      PROVE  Reloads'
  <2>1. shut = "open" /\ Reloads
    BY <1>5, OperationsLeaveTheGuards DEF GuardFrame, ReloadInv
  <2>2. CASE t = Worker
    <3>1. t \notin Calls
      BY <2>2, KernelAssumption
    <3> QED
      BY <1>5, <2>1, <2>2, <3>1, LoadReloads, CompleteReloads, WorkerReloads
  <2>3. CASE t \in Stops
    <3>1. Step(t) \/ ExecCancelled(t) \/ StopCore(t)
      BY <1>5, <2>3 DEF AutomaticOnly, StartCore, RestartCore, BranchOperation
    <3> QED BY <2>1, <2>3, <3>1, CallReloads
  <2> QED BY <1>4, <2>2, <2>3
<1>6. CASE WorkerStep
  <2>1. shut' = shut
    BY <1>6
    DEF WorkerStep, WorkerCheck, WorkerLook, WorkerWaits, WorkerTake, WorkerClear, WorkerBlame,
        others, stopping
  <2>2. ASSUME shut = "open" PROVE Reloads'
    BY <1>6, <2>2, TakeReloads, WorkerReloads DEF WorkerStep, ReloadInv
  <2> QED BY <2>1, <2>2 DEF ReloadInv
<1>7. ASSUME NEW n \in Notifiers, Persist(n) \/ Select(n) \/ NotifierStep(n)
      PROVE  ReloadInv'
  <2>1. shut' = shut
    BY <1>7 DEF Persist, Select, NotifierStep, ReadActive, RequestRestart, Enqueue,
       stopping
  <2> QED BY <1>7, <2>1, NotifierReloads DEF ReloadInv
<1>8. ASSUME NEW p \in PIDs, GuardStep(p) \/ CoreExits(p)
      PROVE  ReloadInv'
  <2>1. shut' = shut
    BY <1>8 DEF GuardStep, GuardStarted, GuardRefused, HandleExit, Untrack, CoreExits,
       others,
                stopping
  <2> QED BY <1>8, <2>1, GuardReloads DEF ReloadInv
<1>9. ASSUME NEW t \in Ops,
             \/ Step(t) \/ ExecCancelled(t)
             \/ t \in Calls /\ (StartCore(t) \/ StopCore(t) \/ RestartCore(t) \/ BranchOperation(t))
      PROVE  ReloadInv'
  BY <1>5, <1>9 DEF ReloadInv
<1>10. Calls \subseteq Ops
  BY DEF Ops
<1> QED BY <1>2, <1>3, <1>6, <1>7, <1>8, <1>9, <1>10 DEF Next, Rest

(* However many changes are saved or profiles selected, whenever they arrive  *)
(* in a restart, and whatever stops and exits there are: once nothing is under *)
(* way, a running core has the newest content, or the selected profile, or    *)
(* needs a restart (requestConfigRestart, enqueueAutomaticRestart,            *)
(* runAutomaticRestartQueue).                                                 *)
THEOREM ReloadsStayCurrent ==
  ASSUME AutomaticOnly
  PROVE  Spec => []ReloadsAreCurrent
<1> DEFINE I == TypeOK /\ QueueInv /\ ClosingInv /\ ClosedInv /\ ReloadInv
<1>1. Init => I
  BY TypeInit, QueueInit, ClosingInit, ClosedInit, ReloadInit
<1>2. I /\ [Next]_vars => I'
  BY TypeStep, QueueStep, ClosingStep, ClosedStep, ReloadStep
<1>3. I => ReloadsAreCurrent
  <2> SUFFICES ASSUME I, Settled PROVE ReloadsAreCurrent
    BY DEF ReloadsAreCurrent, ChangesAloneAreFresh, SwitchesAloneStick, FreshAtRest,
       SwitchSticks
  <2>1. Reloads /\ \A n \in Notifiers : ~OnItsWay(n)
    BY DEF Settled, ReloadInv, OnItsWay
  <2>2. pc[Worker] = "idle" /\ ~queue.pending
    BY <2>1 DEF Settled, Ops, Reloads, Working, QueueInv, PendingIsServed
  <2>3. Switches \subseteq Notifiers
    BY DEF Notifiers
  <2> QED
    BY <2>1, <2>2, <2>3
    DEF Reloads, OneProfile, ChangesArrive, ChangeComes, SelectionsArrive, SelectionComes,
        BeforeHalt, ReloadsAreCurrent, ChangesAloneAreFresh, SwitchesAloneStick, FreshAtRest,
        SwitchSticks
<1> HIDE DEF I
<1> QED
  BY <1>1, <1>2, <1>3, PTL DEF Spec

-----------------------------------------------------------------------------
(* The core's files *)

InstallPhases ==
  {"none", "requested", "receiving", "received", "extracting", "extracted", "checked",
   "unbacked", "aside", "placed", "installed", "over"}
RollbackPhases ==
  {"none", "checked", "waiting", "locked", "begun", "removing", "renaming", "renamed",
   "over"}
InstallType ==
  [at: InstallPhases, version: Releases \cup {0}, file: CoreDownloads \cup {NoCoreFile},
   sound: BOOLEAN, dropped: BOOLEAN]
CoreType == [version: Releases, writer: CoreDownloads \cup {NoCall}]

Types ==
  /\ archives \in [Releases -> [by: CoreDownloads \cup {NoCall}, whole: BOOLEAN]]
  /\ extracted \in [Releases -> CoreDownloads \cup {NoCoreFile}]
  /\ corePath \in CoreFileIds \cup {NoCoreFile}
  /\ bakPath \in CoreFileIds \cup {NoCoreFile}
  /\ cores \in [CoreFileIds -> CoreType]
  /\ install \in [CoreDownloads -> InstallType]
  /\ rollback \in [Rollbacks -> RollbackPhases]
  /\ holder \in Rollbacks \cup {NoCall}

(* A call that is at work has a release, and writes on a file that it may. *)
InWork(d) ==
  /\ install[d].at \notin {"none", "over"} => install[d].version \in Releases
  /\ install[d].at = "extracting" => install[d].file \in CoreDownloads

(* The core, its backup and what was extracted are different files, and a download
   that has extracted nothing has no file yet. *)
Names ==
  /\ corePath = bakPath => corePath = NoCoreFile
  /\ \A v \in Releases : extracted[v] # NoCoreFile =>
        /\ extracted[v] # corePath /\ extracted[v] # bakPath
        /\ \A u \in Releases : extracted[u] = extracted[v] => u = v
  /\ \A d \in CoreDownloads :
       install[d].at \in {"none", "requested", "receiving", "received"} =>
         d # corePath /\ d # bakPath /\ \A v \in Releases : extracted[v] # d
  /\ \A d \in CoreDownloads : InWork(d)

HolderWorks ==
  holder # NoCall =>
    rollback[holder] \in {"locked", "begun", "removing", "renaming", "renamed"}

Tidy == Types /\ Names /\ HolderWorks

(* The files of downloads are not those that were there, nor the absence of one. *)
LEMMA Files ==
  /\ NoCoreFile \notin CoreFileIds /\ Current # Older
  /\ CoreDownloads \subseteq CoreFileIds
  /\ Current \in CoreFileIds /\ Older \in CoreFileIds
  /\ NoCall \notin CoreDownloads /\ NoCall \notin Rollbacks
  /\ \A v \in Releases : v \in Nat /\ v # 0
  /\ \A d \in CoreDownloads : d # Current /\ d # Older /\ d # NoCoreFile
  BY CoreFilesAssumption, 0 \in 0 .. 2, 1 \in 0 .. 2, 2 \in 0 .. 2 DEF CoreFileIds,
     NoCoreFile, NoCall, Current, Older

(* What the steps make of a download is one. *)
LEMMA Installs ==
  /\ \A x \in InstallType, at \in InstallPhases : [x EXCEPT !.at = at] \in InstallType
  /\ \A at \in InstallPhases : NoInstall(at) \in InstallType
  /\ \A x \in InstallType : [x EXCEPT !.dropped = TRUE] \in InstallType
  /\ \A v \in Releases : [NoInstall("requested") EXCEPT !.version = v] \in InstallType
  /\ \A x \in InstallType, file \in CoreDownloads, sound \in BOOLEAN :
       [x EXCEPT !.at = "extracting", !.file = file, !.sound = sound] \in InstallType
  BY DEF InstallType, InstallPhases, NoInstall, NoCoreFile

(* The files that were there when the process began are two. *)
LEMMA TidyBegins == CoreFilesInit => Tidy
  BY Files, CoreFilesAssumption DEF CoreFilesInit, Tidy, Types, Names, InWork,
     HolderWorks, InstallType, CoreType, NoInstall, NoArchive, InstallPhases,
     RollbackPhases

(* Every step keeps the types. *)
LEMMA TypesStep ==
  ASSUME Tidy, CoreFilesNext
  PROVE  Types'
<1>1. ASSUME NEW d \in CoreDownloads, CreateArchive(d) PROVE Types'
  BY <1>1, Files, Installs DEF CreateArchive, OutsideDownload, InstallMoves,
     InstallAt, ReleaseOf, Tidy, Types, CoreType, InstallPhases, RollbackPhases,
     InWork, Names
<1>2. ASSUME NEW d \in CoreDownloads, ReceiveEnds(d) PROVE Types'
  <2>1. PICK whole \in BOOLEAN :
          archives' = [archives EXCEPT ![ReleaseOf(d)].whole = whole]
    BY <1>2 DEF ReceiveEnds
  <2>2. /\ ReleaseOf(d) \in Releases
        /\ archives[ReleaseOf(d)] \in [by: CoreDownloads \cup {NoCall}, whole: BOOLEAN]
    BY <1>2 DEF ReceiveEnds, InstallAt, ReleaseOf, Tidy, Types, Names, InWork
  <2>3. [archives[ReleaseOf(d)] EXCEPT !.whole = whole]
          \in [by: CoreDownloads \cup {NoCall}, whole: BOOLEAN]
    BY <2>2
  <2>4. archives' \in [Releases -> [by: CoreDownloads \cup {NoCall}, whole: BOOLEAN]]
    BY <2>1, <2>2, <2>3 DEF Tidy, Types
  <2>. QED BY <1>2, <2>4, Files, Installs DEF ReceiveEnds, OutsideDownload,
     InstallMoves, InstallAt, ReleaseOf, diskOfCores, Tidy, Types, CoreType,
     InstallPhases, RollbackPhases, InWork, Names
<1>3. ASSUME NEW d \in CoreDownloads, CoreDownloadFails(d) PROVE Types'
  BY <1>3, Files, Installs DEF CoreDownloadFails, OutsideDownload, InstallIsOver,
     InstallAt, ReleaseOf, NoArchive, Tidy, Types, CoreType, InstallPhases,
     RollbackPhases, InWork, Names
<1>4. ASSUME NEW d \in CoreDownloads, OpenExtracted(d) PROVE Types'
  BY <1>4, Files, Installs DEF OpenExtracted, OutsideDownload, InstallAt, ReleaseOf,
     NoArchive, Tidy, Types, CoreType, InstallPhases, RollbackPhases, InWork, Names
<1>5. ASSUME NEW d \in CoreDownloads, ExtractEnds(d) PROVE Types'
  <2>. DEFINE file == install[d].file
  <2>1. PICK w \in CoreDownloads \cup {NoCall} :
          cores' = [cores EXCEPT ![file].writer = w]
    BY <1>5, Files DEF ExtractEnds, InstallAt, Tidy, Types, CoreType, Names, InWork
  <2>2. file \in CoreFileIds /\ cores[file] \in CoreType
    BY <1>5, Files DEF ExtractEnds, InstallAt, ReleaseOf, Tidy, Types, Names, InWork
  <2>3. [cores[file] EXCEPT !.writer = w] \in CoreType
    BY <2>2 DEF CoreType
  <2>4. cores' \in [CoreFileIds -> CoreType]
    BY <2>1, <2>2, <2>3 DEF Tidy, Types
  <2>. QED BY <1>5, <2>4, Files, Installs DEF ExtractEnds, OutsideDownload,
     InstallMoves, InstallAt, ReleaseOf, diskOfCores, Tidy, Types, InstallPhases,
     RollbackPhases, InWork, Names
<1>6. ASSUME NEW d \in CoreDownloads, ExtractFails(d) PROVE Types'
  BY <1>6, Files, Installs DEF ExtractFails, OutsideDownload, InstallIsOver,
     InstallAt, diskOfCores, Tidy, Types, CoreType, InstallPhases, RollbackPhases,
     InWork, Names
<1>7. ASSUME NEW d \in CoreDownloads, CheckExtracted(d) PROVE Types'
  BY <1>7, Files, Installs DEF CheckExtracted, OutsideDownload, InstallMoves,
     InstallAt, ReleaseOf, diskOfCores, Tidy, Types, CoreType, InstallPhases,
     RollbackPhases, InWork, Names
<1>8. ASSUME NEW d \in CoreDownloads, InstallFails(d) PROVE Types'
  BY <1>8, Files, Installs DEF InstallFails, OutsideDownload, InstallIsOver,
     ReleaseOf, GivesUp, Tidy, Types, CoreType, InstallPhases, RollbackPhases, InWork,
     Names
<1>9. ASSUME NEW d \in CoreDownloads, RemoveOldBackup(d) PROVE Types'
  BY <1>9, Files, Installs DEF RemoveOldBackup, OutsideDownload, InstallMoves,
     InstallAt, Tidy, Types, CoreType, InstallPhases, RollbackPhases, InWork, Names
<1>10. ASSUME NEW d \in CoreDownloads, MoveAside(d) PROVE Types'
  BY <1>10, Files, Installs DEF MoveAside, OutsideDownload, InstallMoves, InstallAt,
     Tidy, Types, CoreType, InstallPhases, RollbackPhases, InWork, Names
<1>11. ASSUME NEW d \in CoreDownloads, PlaceCore(d) PROVE Types'
  BY <1>11, Files, Installs DEF PlaceCore, OutsideDownload, InstallMoves, InstallAt,
     ReleaseOf, Tidy, Types, CoreType, InstallPhases, RollbackPhases, InWork, Names
<1>12. ASSUME NEW d \in CoreDownloads, PlacingCoreFails(d) PROVE Types'
  BY <1>12, Files, Installs DEF PlacingCoreFails, OutsideDownload, InstallIsOver,
     InstallAt, ReleaseOf, GivesUp, Tidy, Types, CoreType, InstallPhases,
     RollbackPhases, InWork, Names
<1>13. ASSUME NEW d \in CoreDownloads, InstallEnds(d) PROVE Types'
  BY <1>13, Files, Installs DEF InstallEnds, OutsideDownload, InstallMoves, InstallAt,
     ReleaseOf, Tidy, Types, CoreType, InstallPhases, RollbackPhases, InWork, Names
<1>14. ASSUME NEW d \in CoreDownloads, RemoveCoreArchive(d) PROVE Types'
  BY <1>14, Files, Installs DEF RemoveCoreArchive, OutsideDownload, InstallIsOver,
     InstallAt, ReleaseOf, NoArchive, diskOfCores, Tidy, Types, CoreType,
     InstallPhases, RollbackPhases, InWork, Names
<1>15. ASSUME NEW d \in CoreDownloads, DownloadCore(d) PROVE Types'
  <2>1. PICK v \in Releases :
          install' = [install EXCEPT ![d] = [NoInstall("requested") EXCEPT !.version = v]]
    BY <1>15 DEF DownloadCore
  <2>2. install' \in [CoreDownloads -> InstallType]
    BY <2>1, Installs DEF Tidy, Types
  <2>. QED BY <1>15, <2>2 DEF DownloadCore, OutsideDownload, diskOfCores, Tidy, Types
<1>16. ASSUME NEW d \in CoreDownloads, CancelCoreDownload(d) PROVE Types'
  BY <1>16, Files, Installs DEF CancelCoreDownload, OutsideDownload, diskOfCores,
     Tidy, Types, CoreType, InstallPhases, RollbackPhases, InWork, Names
<1>17. ASSUME NEW r \in Rollbacks, EnterRollback(r) PROVE Types'
  BY <1>17, Files, Installs DEF EnterRollback, OutsideRollback, RollbackMoves,
     RollbackAt, Tidy, Types, CoreType, InstallPhases, RollbackPhases
<1>18. ASSUME NEW r \in Rollbacks, LockForRollback(r) PROVE Types'
  BY <1>18, Files, Installs DEF LockForRollback, OutsideRollback, RollbackMoves,
     RollbackAt, Tidy, Types, CoreType, InstallPhases, RollbackPhases
<1>19. ASSUME NEW r \in Rollbacks, PrepareRollback(r) PROVE Types'
  BY <1>19, Files, Installs DEF PrepareRollback, OutsideRollback, RollbackMoves,
     RollbackAt, Tidy, Types, CoreType, InstallPhases, RollbackPhases
<1>20. ASSUME NEW r \in Rollbacks, StatBackup(r) PROVE Types'
  BY <1>20, Files, Installs DEF StatBackup, OutsideRollback, RollbackMoves,
     RollbackAt, Tidy, Types, CoreType, InstallPhases, RollbackPhases
<1>21. ASSUME NEW r \in Rollbacks, RemoveCore(r) PROVE Types'
  BY <1>21, Files, Installs DEF RemoveCore, OutsideRollback, RollbackMoves,
     RollbackAt, Tidy, Types, CoreType, InstallPhases, RollbackPhases
<1>22. ASSUME NEW r \in Rollbacks, RenameBackup(r) PROVE Types'
  BY <1>22, Files, Installs DEF RenameBackup, OutsideRollback, RollbackMoves,
     RollbackAt, Tidy, Types, CoreType, InstallPhases, RollbackPhases
<1>23. ASSUME NEW r \in Rollbacks, StartRolledBack(r) PROVE Types'
  BY <1>23, Files, Installs DEF StartRolledBack, OutsideRollback, RollbackMoves,
     RollbackAt, Tidy, Types, CoreType, InstallPhases, RollbackPhases
<1>24. ASSUME NEW r \in Rollbacks, RollbackFails(r) PROVE Types'
  BY <1>24, Files, Installs DEF RollbackFails, OutsideRollback, RollbackMoves, Tidy,
     Types, CoreType, InstallPhases, RollbackPhases
<1>25. ASSUME NEW r \in Rollbacks, RollbackCore(r) PROVE Types'
  BY <1>25, Files, Installs DEF RollbackCore, OutsideRollback, RollbackMoves,
     RollbackAt, Tidy, Types, CoreType, InstallPhases, RollbackPhases
<1>26. ASSUME ProcessEnds PROVE Types'
  BY <1>26, Files, Installs DEF ProcessEnds, InstallAt, RollbackAt, diskOfCores, Tidy,
     Types, CoreType, InstallPhases, RollbackPhases
<1>. QED BY <1>1, <1>2, <1>3, <1>4, <1>5, <1>6, <1>7, <1>8, <1>9, <1>10, <1>11, <1>12,
   <1>13, <1>14, <1>15, <1>16, <1>17, <1>18, <1>19, <1>20, <1>21, <1>22, <1>23, <1>24,
   <1>25, <1>26 DEF CoreFilesNext, InstallStep, RollbackStep

(* No step gives a file a second name, or writes on one that is in place without
   having had it since it was extracted. *)
LEMMA NamesStep ==
  ASSUME Tidy, CoreFilesNext
  PROVE  Names'
<1>1. ASSUME NEW d \in CoreDownloads, CreateArchive(d) PROVE Names'
  BY <1>1, Files DEF CreateArchive, OutsideDownload, InstallMoves, InstallAt,
     ReleaseOf, Tidy, Types, Names, InWork, InstallType, CoreType
<1>2. ASSUME NEW d \in CoreDownloads, ReceiveEnds(d) PROVE Names'
  BY <1>2, Files DEF ReceiveEnds, OutsideDownload, InstallMoves, InstallAt, ReleaseOf,
     Tidy, Types, Names, InWork, InstallType, CoreType
<1>3. ASSUME NEW d \in CoreDownloads, CoreDownloadFails(d) PROVE Names'
  BY <1>3, Files DEF CoreDownloadFails, OutsideDownload, InstallIsOver, InstallAt,
     ReleaseOf, NoInstall, NoArchive, Tidy, Types, Names, InWork, InstallType,
     CoreType
<1>4. ASSUME NEW d \in CoreDownloads, OpenExtracted(d) PROVE Names'
  <2>. DEFINE v == ReleaseOf(d)
              file == IF extracted[v] = NoCoreFile THEN d ELSE extracted[v]
  <2>1. /\ v \in Releases /\ file \in CoreDownloads
        /\ file # corePath /\ file # bakPath
        /\ \A u \in Releases : extracted[u] = file => u = v
    BY <1>4, Files DEF OpenExtracted, InstallAt, ReleaseOf, Tidy, Types, Names, InWork
  <2>2. /\ extracted' = [extracted EXCEPT ![v] = file]
        /\ install'[d].at = "extracting" /\ install'[d].file = file
        /\ install'[d].version = v
        /\ \A e \in CoreDownloads : e # d => install'[e] = install[e]
        /\ UNCHANGED <<corePath, bakPath>>
    BY <1>4 DEF OpenExtracted, OutsideDownload, InstallAt, ReleaseOf, Tidy, Types,
       InstallType
  <2>3. file = d \/ \E u \in Releases : file = extracted[u]
    BY <1>4 DEF OpenExtracted, InstallAt, ReleaseOf, Tidy, Types, Names, InWork
  <2>. HIDE DEF v, file
  <2>4. \A u \in Releases : extracted'[u] = IF u = v THEN file ELSE extracted[u]
    BY <2>1, <2>2 DEF Tidy, Types
  <2>5. \A u \in Releases : extracted'[u] # NoCoreFile =>
          /\ extracted'[u] # corePath' /\ extracted'[u] # bakPath'
          /\ \A w \in Releases : extracted'[w] = extracted'[u] => w = u
    BY <2>1, <2>2, <2>4 DEF Tidy, Names
  <2>6. ASSUME NEW e \in CoreDownloads,
               install'[e].at \in {"none", "requested", "receiving", "received"}
        PROVE  e # corePath' /\ e # bakPath' /\ \A u \in Releases : extracted'[u] # e
    BY <2>2, <2>3, <2>4, <2>6 DEF Tidy, Names
  <2>7. \A e \in CoreDownloads : InWork(e)'
    BY <2>1, <2>2 DEF Tidy, Names, InWork
  <2>8. (corePath = bakPath => corePath = NoCoreFile)'
    BY <2>2 DEF Tidy, Names
  <2>. QED BY <2>5, <2>6, <2>7, <2>8 DEF Names
<1>5. ASSUME NEW d \in CoreDownloads, ExtractEnds(d) PROVE Names'
  BY <1>5, Files DEF ExtractEnds, OutsideDownload, InstallMoves, InstallAt, ReleaseOf,
     Tidy, Types, Names, InWork, InstallType, CoreType
<1>6. ASSUME NEW d \in CoreDownloads, ExtractFails(d) PROVE Names'
  BY <1>6, Files DEF ExtractFails, OutsideDownload, InstallIsOver, InstallAt,
     NoInstall, diskOfCores, Tidy, Types, Names, InWork, InstallType, CoreType
<1>7. ASSUME NEW d \in CoreDownloads, CheckExtracted(d) PROVE Names'
  BY <1>7, Files DEF CheckExtracted, OutsideDownload, InstallMoves, InstallAt,
     ReleaseOf, diskOfCores, Tidy, Types, Names, InWork, InstallType, CoreType
<1>8. ASSUME NEW d \in CoreDownloads, InstallFails(d) PROVE Names'
  BY <1>8, Files DEF InstallFails, OutsideDownload, InstallIsOver, ReleaseOf, GivesUp,
     NoInstall, Tidy, Types, Names, InWork, InstallType, CoreType
<1>9. ASSUME NEW d \in CoreDownloads, RemoveOldBackup(d) PROVE Names'
  BY <1>9, Files DEF RemoveOldBackup, OutsideDownload, InstallMoves, InstallAt, Tidy,
     Types, Names, InWork, InstallType, CoreType
<1>10. ASSUME NEW d \in CoreDownloads, MoveAside(d) PROVE Names'
  BY <1>10, Files DEF MoveAside, OutsideDownload, InstallMoves, InstallAt, Tidy,
     Types, Names, InWork, InstallType, CoreType
<1>11. ASSUME NEW d \in CoreDownloads, PlaceCore(d) PROVE Names'
  BY <1>11, Files DEF PlaceCore, OutsideDownload, InstallMoves, InstallAt, ReleaseOf,
     Tidy, Types, Names, InWork, InstallType, CoreType
<1>12. ASSUME NEW d \in CoreDownloads, PlacingCoreFails(d) PROVE Names'
  BY <1>12, Files DEF PlacingCoreFails, OutsideDownload, InstallIsOver, InstallAt,
     ReleaseOf, GivesUp, NoInstall, Tidy, Types, Names, InWork, InstallType, CoreType
<1>13. ASSUME NEW d \in CoreDownloads, InstallEnds(d) PROVE Names'
  BY <1>13, Files DEF InstallEnds, OutsideDownload, InstallMoves, InstallAt,
     ReleaseOf, Tidy, Types, Names, InWork, InstallType, CoreType
<1>14. ASSUME NEW d \in CoreDownloads, RemoveCoreArchive(d) PROVE Names'
  BY <1>14, Files DEF RemoveCoreArchive, OutsideDownload, InstallIsOver, InstallAt,
     ReleaseOf, NoInstall, NoArchive, diskOfCores, Tidy, Types, Names, InWork,
     InstallType, CoreType
<1>15. ASSUME NEW d \in CoreDownloads, DownloadCore(d) PROVE Names'
  BY <1>15, Files DEF DownloadCore, OutsideDownload, InstallAt, NoInstall,
     diskOfCores, Tidy, Types, Names, InWork, InstallType, CoreType
<1>16. ASSUME NEW d \in CoreDownloads, CancelCoreDownload(d) PROVE Names'
  BY <1>16, Files DEF CancelCoreDownload, OutsideDownload, diskOfCores, Tidy, Types,
     Names, InWork, InstallType, CoreType
<1>17. ASSUME NEW r \in Rollbacks, EnterRollback(r) PROVE Names'
  BY <1>17, Files DEF EnterRollback, OutsideRollback, RollbackMoves, RollbackAt, Tidy,
     Types, Names, InWork, InstallType, CoreType
<1>18. ASSUME NEW r \in Rollbacks, LockForRollback(r) PROVE Names'
  BY <1>18, Files DEF LockForRollback, OutsideRollback, RollbackMoves, RollbackAt,
     Tidy, Types, Names, InWork, InstallType, CoreType
<1>19. ASSUME NEW r \in Rollbacks, PrepareRollback(r) PROVE Names'
  BY <1>19, Files DEF PrepareRollback, OutsideRollback, RollbackMoves, RollbackAt,
     Tidy, Types, Names, InWork, InstallType, CoreType
<1>20. ASSUME NEW r \in Rollbacks, StatBackup(r) PROVE Names'
  BY <1>20, Files DEF StatBackup, OutsideRollback, RollbackMoves, RollbackAt, Tidy,
     Types, Names, InWork, InstallType, CoreType
<1>21. ASSUME NEW r \in Rollbacks, RemoveCore(r) PROVE Names'
  BY <1>21, Files DEF RemoveCore, OutsideRollback, RollbackMoves, RollbackAt, Tidy,
     Types, Names, InWork, InstallType, CoreType
<1>22. ASSUME NEW r \in Rollbacks, RenameBackup(r) PROVE Names'
  BY <1>22, Files DEF RenameBackup, OutsideRollback, RollbackMoves, RollbackAt, Tidy,
     Types, Names, InWork, InstallType, CoreType
<1>23. ASSUME NEW r \in Rollbacks, StartRolledBack(r) PROVE Names'
  BY <1>23, Files DEF StartRolledBack, OutsideRollback, RollbackMoves, RollbackAt,
     Tidy, Types, Names, InWork, InstallType, CoreType
<1>24. ASSUME NEW r \in Rollbacks, RollbackFails(r) PROVE Names'
  BY <1>24, Files DEF RollbackFails, OutsideRollback, RollbackMoves, Tidy, Types,
     Names, InWork, InstallType, CoreType
<1>25. ASSUME NEW r \in Rollbacks, RollbackCore(r) PROVE Names'
  BY <1>25, Files DEF RollbackCore, OutsideRollback, RollbackMoves, RollbackAt, Tidy,
     Types, Names, InWork, InstallType, CoreType
<1>26. ASSUME ProcessEnds PROVE Names'
  BY <1>26, Files DEF ProcessEnds, InstallAt, RollbackAt, NoInstall, diskOfCores,
     Tidy, Types, Names, InWork, InstallType, CoreType
<1>. QED BY <1>1, <1>2, <1>3, <1>4, <1>5, <1>6, <1>7, <1>8, <1>9, <1>10, <1>11, <1>12,
   <1>13, <1>14, <1>15, <1>16, <1>17, <1>18, <1>19, <1>20, <1>21, <1>22, <1>23, <1>24,
   <1>25, <1>26 DEF CoreFilesNext, InstallStep, RollbackStep

(* Whoever has the mutex is between taking it and giving it back. *)
LEMMA HolderStep ==
  ASSUME Tidy, CoreFilesNext
  PROVE  HolderWorks'
<1>1. ASSUME NEW d \in CoreDownloads, CreateArchive(d) PROVE HolderWorks'
  BY <1>1, Files DEF CreateArchive, OutsideDownload, InstallMoves, InstallAt,
     ReleaseOf, Tidy, Types, HolderWorks
<1>2. ASSUME NEW d \in CoreDownloads, ReceiveEnds(d) PROVE HolderWorks'
  BY <1>2, Files DEF ReceiveEnds, OutsideDownload, InstallMoves, InstallAt, ReleaseOf,
     Tidy, Types, HolderWorks
<1>3. ASSUME NEW d \in CoreDownloads, CoreDownloadFails(d) PROVE HolderWorks'
  BY <1>3, Files DEF CoreDownloadFails, OutsideDownload, InstallIsOver, InstallAt,
     ReleaseOf, NoInstall, NoArchive, Tidy, Types, HolderWorks
<1>4. ASSUME NEW d \in CoreDownloads, OpenExtracted(d) PROVE HolderWorks'
  BY <1>4, Files DEF OpenExtracted, OutsideDownload, InstallAt, ReleaseOf, NoArchive,
     Tidy, Types, HolderWorks
<1>5. ASSUME NEW d \in CoreDownloads, ExtractEnds(d) PROVE HolderWorks'
  BY <1>5, Files DEF ExtractEnds, OutsideDownload, InstallMoves, InstallAt, ReleaseOf,
     Tidy, Types, HolderWorks
<1>6. ASSUME NEW d \in CoreDownloads, ExtractFails(d) PROVE HolderWorks'
  BY <1>6, Files DEF ExtractFails, OutsideDownload, InstallIsOver, InstallAt,
     NoInstall, diskOfCores, Tidy, Types, HolderWorks
<1>7. ASSUME NEW d \in CoreDownloads, CheckExtracted(d) PROVE HolderWorks'
  BY <1>7, Files DEF CheckExtracted, OutsideDownload, InstallMoves, InstallAt,
     ReleaseOf, diskOfCores, Tidy, Types, HolderWorks
<1>8. ASSUME NEW d \in CoreDownloads, InstallFails(d) PROVE HolderWorks'
  BY <1>8, Files DEF InstallFails, OutsideDownload, InstallIsOver, ReleaseOf, GivesUp,
     NoInstall, Tidy, Types, HolderWorks
<1>9. ASSUME NEW d \in CoreDownloads, RemoveOldBackup(d) PROVE HolderWorks'
  BY <1>9, Files DEF RemoveOldBackup, OutsideDownload, InstallMoves, InstallAt, Tidy,
     Types, HolderWorks
<1>10. ASSUME NEW d \in CoreDownloads, MoveAside(d) PROVE HolderWorks'
  BY <1>10, Files DEF MoveAside, OutsideDownload, InstallMoves, InstallAt, Tidy,
     Types, HolderWorks
<1>11. ASSUME NEW d \in CoreDownloads, PlaceCore(d) PROVE HolderWorks'
  BY <1>11, Files DEF PlaceCore, OutsideDownload, InstallMoves, InstallAt, ReleaseOf,
     Tidy, Types, HolderWorks
<1>12. ASSUME NEW d \in CoreDownloads, PlacingCoreFails(d) PROVE HolderWorks'
  BY <1>12, Files DEF PlacingCoreFails, OutsideDownload, InstallIsOver, InstallAt,
     ReleaseOf, GivesUp, NoInstall, Tidy, Types, HolderWorks
<1>13. ASSUME NEW d \in CoreDownloads, InstallEnds(d) PROVE HolderWorks'
  BY <1>13, Files DEF InstallEnds, OutsideDownload, InstallMoves, InstallAt,
     ReleaseOf, Tidy, Types, HolderWorks
<1>14. ASSUME NEW d \in CoreDownloads, RemoveCoreArchive(d) PROVE HolderWorks'
  BY <1>14, Files DEF RemoveCoreArchive, OutsideDownload, InstallIsOver, InstallAt,
     ReleaseOf, NoInstall, NoArchive, diskOfCores, Tidy, Types, HolderWorks
<1>15. ASSUME NEW d \in CoreDownloads, DownloadCore(d) PROVE HolderWorks'
  BY <1>15, Files DEF DownloadCore, OutsideDownload, InstallAt, NoInstall,
     diskOfCores, Tidy, Types, HolderWorks
<1>16. ASSUME NEW d \in CoreDownloads, CancelCoreDownload(d) PROVE HolderWorks'
  BY <1>16, Files DEF CancelCoreDownload, OutsideDownload, diskOfCores, Tidy, Types,
     HolderWorks
<1>17. ASSUME NEW r \in Rollbacks, EnterRollback(r) PROVE HolderWorks'
  BY <1>17, Files DEF EnterRollback, OutsideRollback, RollbackMoves, RollbackAt, Tidy,
     Types, HolderWorks
<1>18. ASSUME NEW r \in Rollbacks, LockForRollback(r) PROVE HolderWorks'
  BY <1>18, Files DEF LockForRollback, OutsideRollback, RollbackMoves, RollbackAt,
     Tidy, Types, HolderWorks
<1>19. ASSUME NEW r \in Rollbacks, PrepareRollback(r) PROVE HolderWorks'
  BY <1>19, Files DEF PrepareRollback, OutsideRollback, RollbackMoves, RollbackAt,
     Tidy, Types, HolderWorks
<1>20. ASSUME NEW r \in Rollbacks, StatBackup(r) PROVE HolderWorks'
  BY <1>20, Files DEF StatBackup, OutsideRollback, RollbackMoves, RollbackAt, Tidy,
     Types, HolderWorks
<1>21. ASSUME NEW r \in Rollbacks, RemoveCore(r) PROVE HolderWorks'
  BY <1>21, Files DEF RemoveCore, OutsideRollback, RollbackMoves, RollbackAt, Tidy,
     Types, HolderWorks
<1>22. ASSUME NEW r \in Rollbacks, RenameBackup(r) PROVE HolderWorks'
  BY <1>22, Files DEF RenameBackup, OutsideRollback, RollbackMoves, RollbackAt, Tidy,
     Types, HolderWorks
<1>23. ASSUME NEW r \in Rollbacks, StartRolledBack(r) PROVE HolderWorks'
  BY <1>23, Files DEF StartRolledBack, OutsideRollback, RollbackMoves, RollbackAt,
     Tidy, Types, HolderWorks
<1>24. ASSUME NEW r \in Rollbacks, RollbackFails(r) PROVE HolderWorks'
  BY <1>24, Files DEF RollbackFails, OutsideRollback, RollbackMoves, Tidy, Types,
     HolderWorks
<1>25. ASSUME NEW r \in Rollbacks, RollbackCore(r) PROVE HolderWorks'
  BY <1>25, Files DEF RollbackCore, OutsideRollback, RollbackMoves, RollbackAt, Tidy,
     Types, HolderWorks
<1>26. ASSUME ProcessEnds PROVE HolderWorks'
  BY <1>26, Files DEF ProcessEnds, InstallAt, RollbackAt, NoInstall, diskOfCores,
     Tidy, Types, HolderWorks
<1>. QED BY <1>1, <1>2, <1>3, <1>4, <1>5, <1>6, <1>7, <1>8, <1>9, <1>10, <1>11, <1>12,
   <1>13, <1>14, <1>15, <1>16, <1>17, <1>18, <1>19, <1>20, <1>21, <1>22, <1>23, <1>24,
   <1>25, <1>26 DEF CoreFilesNext, InstallStep, RollbackStep

-----------------------------------------------------------------------------
(* What holds of the files until calls cross: one call at most is between the   *)
(* check and the renaming.                                                    *)
Replaces(d) == install[d].at \in {"checked", "unbacked", "aside"}
RollsBack(r) == rollback[r] \in {"checked", "begun", "removing", "renaming"}
Alone ==
  /\ \A d, e \in CoreDownloads : Replaces(d) /\ Replaces(e) => d = e
  /\ \A r, q \in Rollbacks : RollsBack(r) /\ RollsBack(q) => r = q
  /\ \A d \in CoreDownloads, r \in Rollbacks : ~(Replaces(d) /\ RollsBack(r))

(* What a download has done so far is still so. *)
Fits(d) ==
  /\ Replaces(d) =>
       extracted[ReleaseOf(d)] = NoCoreFile \/ Runnable(extracted[ReleaseOf(d)])
  /\ InstallAt(d, "unbacked") => bakPath = NoCoreFile
  /\ InstallAt(d, "aside") => corePath = NoCoreFile

Sound ==
  /\ corePath # NoCoreFile => Whole(corePath)
  /\ bakPath # NoCoreFile => Whole(bakPath)
  /\ \A d \in CoreDownloads : Fits(d)
  /\ \A r \in Rollbacks : RollsBack(r) => Runnable(bakPath)

(* What it means for a step that it crosses no other call. *)
LEMMA NotCrossing ==
  ASSUME CoreFilesNext, ~crossed'
  PROVE  /\ ~crossed /\ Alone'
         /\ \A d, e \in CoreDownloads :
              /\ d # e /\ ReleaseOf(d) = ReleaseOf(e)
              /\ InstallAt(d, "received") /\ InstallAt(d, "extracting")'
              => install[e].at \notin {"extracting", "extracted", "checked", "unbacked",
                                       "aside"}
         /\ corePath = NoCoreFile /\ bakPath # NoCoreFile
            => corePath' # NoCoreFile \/ bakPath' # NoCoreFile
<1>1. ~crossed /\ ~Crosses
  BY DEF CoreFilesNext
<1>2. \A b, c \in Replacing' : b = c
  BY <1>1 DEF Crosses
<1>3. Alone'
  BY <1>2, CoreFilesAssumption DEF Replacing, Alone, Replaces, RollsBack
<1>. QED BY <1>1, <1>3 DEF Crosses

(* As long as calls do not cross, the files stay whole. *)
LEMMA SoundStep ==
  ASSUME Tidy, Alone, Sound, CoreFilesNext, ~crossed'
  PROVE  Sound'
<1>1. ASSUME NEW d \in CoreDownloads, CreateArchive(d) PROVE Sound'
  BY <1>1, NotCrossing, Files DEF CreateArchive, OutsideDownload, InstallMoves,
     InstallAt, ReleaseOf, Tidy, Types, Names, InWork, InstallType, CoreType, Alone,
     Sound, Fits, Replaces, RollsBack, Whole, Runnable
<1>2. ASSUME NEW d \in CoreDownloads, ReceiveEnds(d) PROVE Sound'
  BY <1>2, NotCrossing, Files DEF ReceiveEnds, OutsideDownload, InstallMoves,
     InstallAt, ReleaseOf, Tidy, Types, Names, InWork, InstallType, CoreType, Alone,
     Sound, Fits, Replaces, RollsBack, Whole, Runnable
<1>3. ASSUME NEW d \in CoreDownloads, CoreDownloadFails(d) PROVE Sound'
  BY <1>3, NotCrossing, Files DEF CoreDownloadFails, OutsideDownload, InstallIsOver,
     InstallAt, ReleaseOf, NoInstall, NoArchive, Tidy, Types, Names, InWork,
     InstallType, CoreType, Alone, Sound, Fits, Replaces, RollsBack, Whole, Runnable
<1>4. ASSUME NEW d \in CoreDownloads, OpenExtracted(d) PROVE Sound'
  <2>. DEFINE v == ReleaseOf(d)
              file == IF extracted[v] = NoCoreFile THEN d ELSE extracted[v]
  <2>1. /\ v \in Releases /\ file \in CoreDownloads
        /\ file # corePath /\ file # bakPath
        /\ \A u \in Releases : extracted[u] = file => u = v
    BY <1>4, Files DEF OpenExtracted, InstallAt, ReleaseOf, Tidy, Types, Names, InWork
  <2>2. /\ extracted' = [extracted EXCEPT ![v] = file]
        /\ install'[d].at = "extracting" /\ install'[d].version = v
        /\ \A e \in CoreDownloads : e # d => install'[e] = install[e]
        /\ UNCHANGED <<corePath, bakPath, rollback>>
        /\ InstallAt(d, "received") /\ InstallAt(d, "extracting")'
    BY <1>4 DEF OpenExtracted, OutsideDownload, InstallAt, ReleaseOf, Tidy, Types,
       InstallType
  <2>3. \A f \in CoreFileIds : f # file => cores'[f] = cores[f]
    BY <1>4 DEF OpenExtracted, Tidy, Types
  <2>. HIDE DEF v, file
  <2>5. /\ corePath # NoCoreFile => Whole(corePath)'
        /\ bakPath # NoCoreFile => Whole(bakPath)'
        /\ bakPath # NoCoreFile /\ Runnable(bakPath) => Runnable(bakPath)'
    BY <2>1, <2>2, <2>3 DEF Sound, Tidy, Types, Whole, Runnable
  <2>6. \A r \in Rollbacks : RollsBack(r)' => Runnable(bakPath)'
    BY <2>2, <2>5, Files DEF Sound, RollsBack, Runnable, Whole
  <2>7. ASSUME NEW e \in CoreDownloads PROVE Fits(e)'
    <3>1. CASE e = d
      BY <2>2, <3>1 DEF Fits, Replaces, InstallAt
    <3>2. CASE e # d /\ ~Replaces(e)
      BY <2>2, <3>2 DEF Fits, Replaces, InstallAt
    <3>3. CASE e # d /\ Replaces(e)
      <4>1. ReleaseOf(e) \in Releases /\ ReleaseOf(e) # v
        BY <2>2, <3>3, NotCrossing DEF Replaces, Tidy, Names, InWork, ReleaseOf, v
      <4>2. /\ extracted'[ReleaseOf(e)] = extracted[ReleaseOf(e)]
            /\ extracted[ReleaseOf(e)] # file
        BY <2>1, <2>2, <4>1 DEF Tidy, Types
      <4>3. Fits(e) /\ ReleaseOf(e)' = ReleaseOf(e) /\ install'[e] = install[e]
        BY <2>2, <3>3 DEF Sound, ReleaseOf
      <4>4. extracted'[ReleaseOf(e)] = NoCoreFile \/ Runnable(extracted[ReleaseOf(e)])'
        <5>1. extracted[ReleaseOf(e)] # NoCoreFile =>
                extracted[ReleaseOf(e)] \in CoreFileIds /\ Runnable(extracted[ReleaseOf(e)])
          BY <3>3, <4>1, <4>3, Files DEF Fits, Tidy, Types, Replaces
        <5>2. \/ extracted[ReleaseOf(e)] = NoCoreFile
              \/ cores'[extracted[ReleaseOf(e)]] = cores[extracted[ReleaseOf(e)]]
          BY <4>1, <4>2, <2>3, Files DEF Tidy, Types
        <5>. QED BY <5>1, <5>2, <4>2, <4>3 DEF Runnable, Whole
      <4>. QED BY <2>2, <4>3, <4>4, <4>2 DEF Fits, InstallAt, Runnable, Whole
    <3>. QED BY <3>1, <3>2, <3>3
  <2>. QED BY <2>2, <2>5, <2>6, <2>7 DEF Sound, Whole
<1>5. ASSUME NEW d \in CoreDownloads, ExtractEnds(d) PROVE Sound'
  BY <1>5, NotCrossing, Files DEF ExtractEnds, OutsideDownload, InstallMoves,
     InstallAt, ReleaseOf, Tidy, Types, Names, InWork, InstallType, CoreType, Alone,
     Sound, Fits, Replaces, RollsBack, Whole, Runnable
<1>6. ASSUME NEW d \in CoreDownloads, ExtractFails(d) PROVE Sound'
  BY <1>6, NotCrossing, Files DEF ExtractFails, OutsideDownload, InstallIsOver,
     InstallAt, ReleaseOf, NoInstall, diskOfCores, Tidy, Types, Names, InWork,
     InstallType, CoreType, Alone, Sound, Fits, Replaces, RollsBack, Whole, Runnable
<1>7. ASSUME NEW d \in CoreDownloads, CheckExtracted(d) PROVE Sound'
  BY <1>7, NotCrossing, Files DEF CheckExtracted, OutsideDownload, InstallMoves,
     InstallAt, ReleaseOf, diskOfCores, Tidy, Types, Names, InWork, InstallType,
     CoreType, Alone, Sound, Fits, Replaces, RollsBack, Whole, Runnable
<1>8. ASSUME NEW d \in CoreDownloads, InstallFails(d) PROVE Sound'
  BY <1>8, NotCrossing, Files DEF InstallFails, OutsideDownload, InstallIsOver,
     InstallAt, ReleaseOf, GivesUp, NoInstall, Tidy, Types, Names, InWork,
     InstallType, CoreType, Alone, Sound, Fits, Replaces, RollsBack, Whole, Runnable
<1>9. ASSUME NEW d \in CoreDownloads, RemoveOldBackup(d) PROVE Sound'
  BY <1>9, NotCrossing, Files DEF RemoveOldBackup, OutsideDownload, InstallMoves,
     InstallAt, ReleaseOf, Tidy, Types, Names, InWork, InstallType, CoreType, Alone,
     Sound, Fits, Replaces, RollsBack, Whole, Runnable
<1>10. ASSUME NEW d \in CoreDownloads, MoveAside(d) PROVE Sound'
  BY <1>10, NotCrossing, Files DEF MoveAside, OutsideDownload, InstallMoves,
     InstallAt, ReleaseOf, Tidy, Types, Names, InWork, InstallType, CoreType, Alone,
     Sound, Fits, Replaces, RollsBack, Whole, Runnable
<1>11. ASSUME NEW d \in CoreDownloads, PlaceCore(d) PROVE Sound'
  BY <1>11, NotCrossing, Files DEF PlaceCore, OutsideDownload, InstallMoves,
     InstallAt, ReleaseOf, Tidy, Types, Names, InWork, InstallType, CoreType, Alone,
     Sound, Fits, Replaces, RollsBack, Whole, Runnable
<1>12. ASSUME NEW d \in CoreDownloads, PlacingCoreFails(d) PROVE Sound'
  BY <1>12, NotCrossing, Files DEF PlacingCoreFails, OutsideDownload, InstallIsOver,
     InstallAt, ReleaseOf, GivesUp, NoInstall, Tidy, Types, Names, InWork,
     InstallType, CoreType, Alone, Sound, Fits, Replaces, RollsBack, Whole, Runnable
<1>13. ASSUME NEW d \in CoreDownloads, InstallEnds(d) PROVE Sound'
  BY <1>13, NotCrossing, Files DEF InstallEnds, OutsideDownload, InstallMoves,
     InstallAt, ReleaseOf, Tidy, Types, Names, InWork, InstallType, CoreType, Alone,
     Sound, Fits, Replaces, RollsBack, Whole, Runnable
<1>14. ASSUME NEW d \in CoreDownloads, RemoveCoreArchive(d) PROVE Sound'
  BY <1>14, NotCrossing, Files DEF RemoveCoreArchive, OutsideDownload, InstallIsOver,
     InstallAt, ReleaseOf, NoInstall, NoArchive, diskOfCores, Tidy, Types, Names,
     InWork, InstallType, CoreType, Alone, Sound, Fits, Replaces, RollsBack, Whole,
     Runnable
<1>15. ASSUME NEW d \in CoreDownloads, DownloadCore(d) PROVE Sound'
  BY <1>15, NotCrossing, Files DEF DownloadCore, OutsideDownload, InstallAt,
     ReleaseOf, NoInstall, diskOfCores, Tidy, Types, Names, InWork, InstallType,
     CoreType, Alone, Sound, Fits, Replaces, RollsBack, Whole, Runnable
<1>16. ASSUME NEW d \in CoreDownloads, CancelCoreDownload(d) PROVE Sound'
  BY <1>16, NotCrossing, Files DEF CancelCoreDownload, OutsideDownload, InstallAt,
     ReleaseOf, diskOfCores, Tidy, Types, Names, InWork, InstallType, CoreType, Alone,
     Sound, Fits, Replaces, RollsBack, Whole, Runnable
<1>17. ASSUME NEW r \in Rollbacks, EnterRollback(r) PROVE Sound'
  BY <1>17, NotCrossing, Files DEF EnterRollback, OutsideRollback, RollbackMoves,
     RollbackAt, Tidy, Types, Names, InWork, InstallType, CoreType, Alone, Sound,
     Fits, Replaces, RollsBack, Whole, Runnable, ReleaseOf, InstallAt
<1>18. ASSUME NEW r \in Rollbacks, LockForRollback(r) PROVE Sound'
  BY <1>18, NotCrossing, Files DEF LockForRollback, OutsideRollback, RollbackMoves,
     RollbackAt, Tidy, Types, Names, InWork, InstallType, CoreType, Alone, Sound,
     Fits, Replaces, RollsBack, Whole, Runnable, ReleaseOf, InstallAt
<1>19. ASSUME NEW r \in Rollbacks, PrepareRollback(r) PROVE Sound'
  BY <1>19, NotCrossing, Files DEF PrepareRollback, OutsideRollback, RollbackMoves,
     RollbackAt, Tidy, Types, Names, InWork, InstallType, CoreType, Alone, Sound,
     Fits, Replaces, RollsBack, Whole, Runnable, ReleaseOf, InstallAt
<1>20. ASSUME NEW r \in Rollbacks, StatBackup(r) PROVE Sound'
  BY <1>20, NotCrossing, Files DEF StatBackup, OutsideRollback, RollbackMoves,
     RollbackAt, Tidy, Types, Names, InWork, InstallType, CoreType, Alone, Sound,
     Fits, Replaces, RollsBack, Whole, Runnable, ReleaseOf, InstallAt
<1>21. ASSUME NEW r \in Rollbacks, RemoveCore(r) PROVE Sound'
  BY <1>21, NotCrossing, Files DEF RemoveCore, OutsideRollback, RollbackMoves,
     RollbackAt, Tidy, Types, Names, InWork, InstallType, CoreType, Alone, Sound,
     Fits, Replaces, RollsBack, Whole, Runnable, ReleaseOf, InstallAt
<1>22. ASSUME NEW r \in Rollbacks, RenameBackup(r) PROVE Sound'
  BY <1>22, NotCrossing, Files DEF RenameBackup, OutsideRollback, RollbackMoves,
     RollbackAt, Tidy, Types, Names, InWork, InstallType, CoreType, Alone, Sound,
     Fits, Replaces, RollsBack, Whole, Runnable, ReleaseOf, InstallAt
<1>23. ASSUME NEW r \in Rollbacks, StartRolledBack(r) PROVE Sound'
  BY <1>23, NotCrossing, Files DEF StartRolledBack, OutsideRollback, RollbackMoves,
     RollbackAt, Tidy, Types, Names, InWork, InstallType, CoreType, Alone, Sound,
     Fits, Replaces, RollsBack, Whole, Runnable, ReleaseOf, InstallAt
<1>24. ASSUME NEW r \in Rollbacks, RollbackFails(r) PROVE Sound'
  BY <1>24, NotCrossing, Files DEF RollbackFails, OutsideRollback, RollbackMoves,
     Tidy, Types, Names, InWork, InstallType, CoreType, Alone, Sound, Fits, Replaces,
     RollsBack, Whole, Runnable, ReleaseOf, InstallAt
<1>25. ASSUME NEW r \in Rollbacks, RollbackCore(r) PROVE Sound'
  BY <1>25, NotCrossing, Files DEF RollbackCore, OutsideRollback, RollbackMoves,
     RollbackAt, Tidy, Types, Names, InWork, InstallType, CoreType, Alone, Sound,
     Fits, Replaces, RollsBack, Whole, Runnable, ReleaseOf, InstallAt
<1>26. ASSUME ProcessEnds PROVE Sound'
  BY <1>26, NotCrossing, Files DEF ProcessEnds, InstallAt, RollbackAt, NoInstall,
     diskOfCores, Tidy, Types, Names, InWork, InstallType, CoreType, Alone, Sound,
     Fits, Replaces, RollsBack, Whole, Runnable, ReleaseOf
<1>. QED BY <1>1, <1>2, <1>3, <1>4, <1>5, <1>6, <1>7, <1>8, <1>9, <1>10, <1>11, <1>12,
   <1>13, <1>14, <1>15, <1>16, <1>17, <1>18, <1>19, <1>20, <1>21, <1>22, <1>23, <1>24,
   <1>25, <1>26 DEF CoreFilesNext, InstallStep, RollbackStep

(* They are whole at first, and nobody replaces them. *)
LEMMA Begins == CoreFilesInit => Alone /\ Sound
  BY Files DEF CoreFilesInit, Alone, Sound, Fits, Replaces, RollsBack, InstallAt,
     Whole, NoInstall

(* The two parts of the inductive invariant, for every step. *)
LEMMA TidyStep == Tidy /\ [CoreFilesNext]_coreFilesVars => Tidy'
<1>1. CASE Tidy /\ CoreFilesNext
  BY <1>1, TypesStep, NamesStep, HolderStep DEF Tidy
<1>2. CASE Tidy /\ UNCHANGED coreFilesVars
  BY <1>2 DEF Tidy, Types, Names, InWork, HolderWorks, coreFilesVars, diskOfCores
<1>. QED BY <1>1, <1>2

Quiet == crossed \/ (Alone /\ Sound)

LEMMA QuietStep == Tidy /\ Quiet /\ [CoreFilesNext]_coreFilesVars => Quiet'
<1>1. CASE Tidy /\ Quiet /\ CoreFilesNext
  BY <1>1, NotCrossing, SoundStep DEF Quiet
<1>2. CASE Quiet /\ UNCHANGED coreFilesVars
  BY <1>2 DEF Quiet, Alone, Sound, Fits, Replaces, RollsBack, Runnable, Whole,
     ReleaseOf, InstallAt, coreFilesVars, diskOfCores
<1>. QED BY <1>1, <1>2

(* The inductive invariant holds. *)
LEMMA InvHolds == CoreFilesSpec => [](Tidy /\ Quiet)
  BY TidyBegins, Begins, TidyStep, QuietStep, PTL DEF CoreFilesSpec, Quiet

(* Whatever calls are made, fail or are killed, the variables keep to their values,
   no two names are of one file, and whoever holds restartOperationMu is at work. *)
THEOREM CoreFilesTypes == CoreFilesSpec => []CoreFilesTypeOK
<1>1. Tidy => CoreFilesTypeOK
  BY DEF Tidy, Types, Names, HolderWorks, CoreFilesTypeOK, CoreType
<1>. QED BY <1>1, InvHolds, PTL

-----------------------------------------------------------------------------
Version(file) == IF file = NoCoreFile THEN NoCoreFile ELSE cores[file].version

(* What Installation sees of sound files is their versions. *)
LEMMA Held ==
  ASSUME Sound
  PROVE  /\ InstalledCore =
              IF corePath # NoCoreFile THEN Version(corePath) ELSE Version(bakPath)
         /\ PreviousCore = IF corePath # NoCoreFile THEN Version(bakPath) ELSE NoCoreFile
  BY DEF Sound, InstalledCore, PreviousCore, HeldBy, Version

(* No step writes on the core that is in place, or on its backup. *)
LEMMA FilesStay ==
  ASSUME Tidy, Sound, CoreFilesNext
  PROVE  \A f \in {corePath, bakPath} :
           f # NoCoreFile => cores'[f].version = cores[f].version
<1>. DEFINE Stays(f) == f # NoCoreFile => cores'[f].version = cores[f].version
<1>1. ASSUME NEW d \in CoreDownloads, OpenExtracted(d)
      PROVE  Stays(corePath) /\ Stays(bakPath)
  <2>. DEFINE v == ReleaseOf(d)
              file == IF extracted[v] = NoCoreFile THEN d ELSE extracted[v]
  <2>1. file \in CoreDownloads /\ file # corePath /\ file # bakPath
    BY <1>1, Files DEF OpenExtracted, InstallAt, ReleaseOf, Tidy, Types, Names, InWork
  <2>2. \A f \in CoreFileIds : f # file => cores'[f] = cores[f]
    BY <1>1 DEF OpenExtracted, Tidy, Types
  <2>. HIDE DEF v, file
  <2>. QED BY <2>1, <2>2 DEF Tidy, Types
<1>2. ASSUME NEW d \in CoreDownloads, ExtractEnds(d)
      PROVE  Stays(corePath) /\ Stays(bakPath)
  BY <1>2, Files DEF ExtractEnds, InstallAt, Tidy, Types, Names, InWork, CoreType
<1>3. \/ UNCHANGED cores
      \/ \E d \in CoreDownloads : OpenExtracted(d) \/ ExtractEnds(d)
  BY DEF CoreFilesNext, InstallStep, RollbackStep, DownloadCore, CreateArchive,
     ReceiveEnds, CoreDownloadFails, ExtractFails, CheckExtracted, InstallFails,
     RemoveOldBackup, MoveAside, PlaceCore, PlacingCoreFails, GivesUp, InstallEnds,
     RemoveCoreArchive, CancelCoreDownload, RollbackCore, EnterRollback,
     LockForRollback, PrepareRollback, StatBackup, RemoveCore, RenameBackup,
     StartRolledBack, RollbackFails, OutsideRollback, ProcessEnds, diskOfCores
<1>. QED BY <1>1, <1>2, <1>3

Abstract == [Branch!InstallationNext]_<<InstalledCore, PreviousCore>>

(* A step that crosses no call is one of Installation, or leaves it as it was. *)
LEMMA AbstractStep ==
  ASSUME Tidy, Alone, Sound, CoreFilesNext, ~crossed'
  PROVE  Abstract
<1>. USE DEF Abstract
<1>a. Sound' /\ ~crossed
  BY SoundStep, NotCrossing
<1>b. /\ InstalledCore' =
           IF corePath' # NoCoreFile THEN Version(corePath)' ELSE Version(bakPath)'
      /\ PreviousCore' = IF corePath' # NoCoreFile THEN Version(bakPath)' ELSE NoCoreFile
  BY <1>a DEF Sound, InstalledCore, PreviousCore, HeldBy, Version
<1>c. /\ corePath # NoCoreFile => cores'[corePath].version = cores[corePath].version
      /\ bakPath # NoCoreFile => cores'[bakPath].version = cores[bakPath].version
  BY FilesStay
<1>0. CASE UNCHANGED <<corePath, bakPath>>
  BY <1>0, <1>b, <1>c, Held DEF Version
<1>1. ASSUME NEW d \in CoreDownloads, RemoveOldBackup(d) PROVE Abstract
  <2>1. /\ corePath' = corePath /\ bakPath' = NoCoreFile
        /\ (corePath # NoCoreFile \/ bakPath = NoCoreFile)
    BY <1>1, NotCrossing DEF RemoveOldBackup
  <2>2. InstalledCore' = InstalledCore /\ PreviousCore' = NoCoreFile
    BY <2>1, <1>b, <1>c, Held DEF Version
  <2>. QED BY <2>2 DEF Branch!InstallationNext, Branch!Forget
<1>2. ASSUME NEW d \in CoreDownloads, MoveAside(d) PROVE Abstract
  <2>1. bakPath = NoCoreFile
    BY <1>2 DEF MoveAside, Sound, Fits
  <2>2. \/ UNCHANGED <<corePath, bakPath>>
        \/ corePath # NoCoreFile /\ corePath' = NoCoreFile /\ bakPath' = corePath
    BY <1>2 DEF MoveAside
  <2>. QED BY <2>1, <2>2, <1>0, <1>b, <1>c, Held DEF Version
<1>3. ASSUME NEW d \in CoreDownloads, PlaceCore(d) PROVE Abstract
  <2>. DEFINE file == extracted[ReleaseOf(d)]
  <2>1. /\ file # NoCoreFile /\ Runnable(file) /\ corePath = NoCoreFile
        /\ corePath' = file /\ UNCHANGED <<bakPath, cores>>
    BY <1>3 DEF PlaceCore, Sound, Fits, Replaces, InstallAt
  <2>2. /\ file \in CoreFileIds /\ cores[file].version \in Releases
        /\ Supported(cores[file].version)
    BY <1>3, <2>1, Files DEF PlaceCore, InstallAt, ReleaseOf, Tidy, Types, Names,
       InWork, CoreType, Runnable
  <2>. HIDE DEF file
  <2>3. InstalledCore' = cores[file].version /\ PreviousCore' = InstalledCore
    BY <2>1, <1>b, Held DEF Version
  <2>. QED BY <2>2, <2>3 DEF Branch!InstallationNext, Branch!Install
<1>4. ASSUME NEW d \in CoreDownloads, PlacingCoreFails(d) PROVE Abstract
  <2>1. corePath = NoCoreFile
    BY <1>4 DEF PlacingCoreFails, Sound, Fits
  <2>2. \/ UNCHANGED <<corePath, bakPath>>
        \/ corePath' = bakPath /\ bakPath' = NoCoreFile /\ bakPath # NoCoreFile
    BY <1>4 DEF PlacingCoreFails
  <2>. QED BY <2>1, <2>2, <1>0, <1>b, <1>c, Held DEF Version
<1>5. ASSUME NEW r \in Rollbacks, RemoveCore(r) PROVE Abstract
  <2>1. /\ UNCHANGED <<bakPath, cores>> /\ corePath' \in {corePath, NoCoreFile}
        /\ Runnable(bakPath)
    BY <1>5 DEF RemoveCore, RollbackAt, RollsBack, OutsideRollback, Sound
  <2>2. CASE corePath' = NoCoreFile /\ corePath # NoCoreFile
    <3>1. /\ bakPath # NoCoreFile
          /\ PreviousCore = cores[bakPath].version /\ PreviousCore # NoCoreFile
      BY <2>1, <2>2, Held, Files DEF Version, Runnable, Whole, Tidy, Types, CoreType,
         NoCoreFile
    <3>2. /\ Supported(PreviousCore)
          /\ InstalledCore' = PreviousCore /\ PreviousCore' = NoCoreFile
      BY <2>1, <2>2, <3>1, <1>b DEF Version, Runnable
    <3>. QED BY <3>1, <3>2 DEF Branch!InstallationNext, Branch!Rollback
  <2>. QED BY <2>1, <2>2, <1>0
<1>6. ASSUME NEW r \in Rollbacks, RenameBackup(r) PROVE Abstract
  <2>1. /\ UNCHANGED cores /\ corePath' = bakPath /\ bakPath' = NoCoreFile
        /\ bakPath # NoCoreFile
        /\ Runnable(bakPath)
    BY <1>6 DEF RenameBackup, RollbackAt, RollsBack, OutsideRollback, Sound
  <2>2. CASE corePath # NoCoreFile
    <3>1. PreviousCore = cores[bakPath].version /\ PreviousCore # NoCoreFile
      BY <2>1, <2>2, Held, Files DEF Version, Tidy, Types, CoreType, NoCoreFile
    <3>2. /\ Supported(PreviousCore)
          /\ InstalledCore' = PreviousCore /\ PreviousCore' = NoCoreFile
      BY <2>1, <2>2, <3>1, <1>b DEF Version, Runnable
    <3>. QED BY <3>1, <3>2 DEF Branch!InstallationNext, Branch!Rollback
  <2>3. CASE corePath = NoCoreFile
    BY <2>1, <2>3, <1>b, Held DEF Version
  <2>. QED BY <2>2, <2>3
<1>7. \/ UNCHANGED <<corePath, bakPath>>
      \/ \E d \in CoreDownloads :
           RemoveOldBackup(d) \/ MoveAside(d) \/ PlaceCore(d) \/ PlacingCoreFails(d)
      \/ \E r \in Rollbacks : RemoveCore(r) \/ RenameBackup(r)
  BY DEF CoreFilesNext, InstallStep, RollbackStep, DownloadCore, CreateArchive,
     ReceiveEnds, CoreDownloadFails, OpenExtracted, ExtractEnds, ExtractFails,
     CheckExtracted, InstallFails, InstallEnds, RemoveCoreArchive, CancelCoreDownload,
     RollbackCore, EnterRollback, LockForRollback, PrepareRollback, StatBackup,
     StartRolledBack, RollbackFails, ProcessEnds, diskOfCores
<1>. QED BY <1>0, <1>1, <1>2, <1>3, <1>4, <1>5, <1>6, <1>7

(* What is found at the start is a state that Installation starts in. *)
LEMMA AbstractInit == CoreFilesInit => Branch!InstallationInit
<1>. SUFFICES ASSUME CoreFilesInit PROVE Branch!InstallationInit
  OBVIOUS
<1>1. Sound /\ Tidy
  BY Begins, TidyBegins
<1>2. /\ Version(corePath) \in Releases \cup {NoCoreFile}
      /\ Version(bakPath) \in Releases \cup {NoCoreFile}
  BY <1>1 DEF Tidy, Types, CoreType, Version
<1>3. corePath = NoCoreFile => bakPath = NoCoreFile
  BY DEF CoreFilesInit
<1>4. corePath # NoCoreFile => Version(corePath) # NoCoreFile
  BY <1>1, Files DEF Tidy, Types, CoreType, Version, NoCoreFile
<1>. QED BY <1>1, <1>2, <1>3, <1>4, Held DEF Version, Branch!InstallationInit

(* DownloadCore and RollbackCore, cancelled, failing and killed at any step, replace
   the installed core by one that works or leave it, until calls cross: the files
   implement Installation. *)
THEOREM InstallationIsImplemented == CoreFilesSpec => ImplementsInstallation
<1>1. Tidy /\ Quiet /\ [CoreFilesNext]_coreFilesVars
      => [\/ crossed'
          \/ [Branch!InstallationNext]_<<InstalledCore, PreviousCore>>]_coreFilesVars
  <2>1. CASE Tidy /\ Quiet /\ CoreFilesNext /\ ~crossed'
    BY <2>1, NotCrossing, AbstractStep DEF Quiet, Abstract
  <2>. QED BY <2>1
<1>. QED BY <1>1, AbstractInit, InvHolds, PTL DEF CoreFilesSpec, ImplementsInstallation

-----------------------------------------------------------------------------
(* The two in one run *)

(* Each step is one of the kernel and one of its files, or leaves them as they are. *)
LEMMA KernelFilesStep ==
  ASSUME [KernelFilesNext]_<<vars, coreFilesVars, part>>
  PROVE  [Next]_vars /\ [CoreFilesNext]_coreFilesVars
<1>1. CASE UNCHANGED <<vars, coreFilesVars>>
  BY <1>1
<1>2. CASE Next /\ UNCHANGED coreFilesVars
  BY <1>2, Zenon
<1>3. CASE CoreFilesNext /\ UNCHANGED vars
  BY <1>3, Zenon
<1> QED BY <1>1, <1>2, <1>3 DEF KernelFilesNext

(* The kernel's side of a rollback is in Kernel, the files' side in CoreFiles: the
   run of both is a run of each. *)
THEOREM EachRunsAsItself == KernelFilesSpec => Spec /\ CoreFilesSpec
<1>1. KernelFilesInit => Init /\ CoreFilesInit
  BY Zenon DEF KernelFilesInit
<1> QED BY <1>1, KernelFilesStep, PTL DEF KernelFilesSpec, Spec, CoreFilesSpec

(* What the run checks of them: that closing is final, the type of the files, and
   that they implement Installation. *)
THEOREM KernelFilesAreSafe ==
  KernelFilesSpec =>
    /\ [](ClosingRevokes /\ ClosedIsFinal /\ CoreFilesTypeOK)
    /\ ImplementsInstallation
<1>1. Spec => [](ClosingRevokes /\ ClosedIsFinal)
  BY ShutdownRevokes, ShutdownIsFinal, PTL
<1>2. CoreFilesSpec => []CoreFilesTypeOK
  BY CoreFilesTypes
<1>3. CoreFilesSpec => ImplementsInstallation
  BY InstallationIsImplemented
<1> QED BY <1>1, <1>2, <1>3, EachRunsAsItself, PTL
=============================================================================
