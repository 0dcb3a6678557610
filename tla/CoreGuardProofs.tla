-------------------------- MODULE CoreGuardProofs --------------------------
(***************************************************************************)
(* What CoreGuard promises, for every number of backends and guards.        *)
(*                                                                          *)
(* That no core lives unrecorded or beside another takes one thing of the   *)
(* environment, RecordedFirst: a guard is not killed from outside between   *)
(* the start of a child and the moment process.json names it.  That guards  *)
(* leave nothing behind when they end takes more, Orderly: they are not     *)
(* killed as long as they have a child.  Without them neither holds.        *)
(***************************************************************************)
EXTENDS CoreGuard, TLAPS

Unrecorded == {"spawned", "aborting"}
Parenting  == {"watching", "stopping", "killed"}

RecordedFirst == KillableAt \cap Unrecorded = {}

(* core.lock and backend.lock exclude each other's contenders. *)
Exclusive ==
  /\ \A g, h \in Guards : Holds(g) /\ Holds(h) => g = h
  /\ \A g, h \in Guards : Removing(g) /\ Removing(h) => g = h
  /\ \A g, h \in Guards : ~(Holds(g) /\ Removing(h))
  /\ \A b \in Backends, g \in Guards : Preparing(b) => ~Holds(g) /\ ~Removing(g)
  /\ \A b, c \in Backends : Owns(b) /\ Owns(c) => b = c

(* The record names no core but that of the guard that runs one, and only a   *)
(* guard in the stages of a parent has a living child.                        *)
RecordFits ==
  \A g \in Guards :
    /\ guard[g] \in Unrecorded \cup {"ready", "watching", "stopping"}
         => record.guard \in {g, Nobody}
    /\ ChildAlive(g) => guard[g] \in Unrecorded \cup Parenting

IInv == TypeOK /\ Exclusive /\ LiveIsRecorded /\ RecordFits

-----------------------------------------------------------------------------
(* Initially every variable has its type.                                     *)
LEMMA TypeInit == Init => TypeOK
  BY DEF Init, TypeOK, NoRecord, BackendStages, GuardStages, ReaderStages, ChildStages

(* Every step keeps the types.                                                *)
LEMMA TypeStep == TypeOK /\ [Next]_vars => TypeOK'
<1> SUFFICES ASSUME TypeOK, [Next]_vars PROVE TypeOK'
  OBVIOUS
<1> USE DEF TypeOK, BackendStages, GuardStages, ReaderStages, ChildStages
<1>r. \A g \in Guards : Record(g) \in [guard : Guards \cup {Nobody}, stage : ChildStages]
  BY DEF Record
<1>n. NoRecord \in [guard : Guards \cup {Nobody}, stage : ChildStages]
  BY DEF NoRecord
<1>c. \A g \in Guards : Asked(g) \in [Guards -> {"none", "live", "asked", "dead"}]
  BY DEF Asked
<1>1. ASSUME NEW b \in Backends, Open(b) \/ PrepareLock(b) \/ CloseBegins(b) \/ GivesUp(b)
      PROVE TypeOK'
  BY <1>1 DEF Open, PrepareLock, CloseBegins, GivesUp, Goes, process, pipes
<1>2. ASSUME NEW b \in Backends, PrepareRead(b) PROVE TypeOK'
  <2>1. /\ backend' \in [Backends -> BackendStages]
        /\ UNCHANGED <<guard, stage, told, by, control, heard, reader>>
    BY <1>2 DEF PrepareRead, Goes, pipes
  <2>2. child' \in [Guards -> {"none", "live", "asked", "dead"}]
    <3>1. UNCHANGED child \/ (RecordedAlive /\ child' = Asked(record.guard))
      BY <1>2 DEF PrepareRead
    <3> QED
      BY <3>1, <1>c DEF RecordedAlive
  <2>3. record' = record \/ record' = NoRecord
    BY <1>2 DEF PrepareRead
  <2> QED
    BY <2>1, <2>2, <2>3, <1>n
<1>3. ASSUME NEW b \in Backends, PrepareEnd(b) PROVE TypeOK'
  BY <1>3, <1>n DEF PrepareEnd, Goes, process, pipes
<1>4. ASSUME NEW b \in Backends, NEW g \in Guards, Launch(b, g) PROVE TypeOK'
  BY <1>4 DEF Launch, Advances, Reads, process
<1>5. ASSUME NEW b \in Backends, CloseEnds(b) PROVE TypeOK'
  BY <1>5 DEF CloseEnds, Goes, process
<1>6. ASSUME NEW b \in Backends, Dies(b) PROVE TypeOK'
  BY <1>6 DEF Dies, Goes, process, pipes
<1>7. ASSUME NEW g \in Guards, RequestStop(g) \/ Abort(g) PROVE TypeOK'
  BY <1>7 DEF RequestStop, Abort, process
<1>8. ASSUME NEW g \in Guards,
             GuardInit(g) \/ GuardLock(g) \/ GuardStat(g) \/ GuardLeaves(g) \/ GuardIsKilled(g)
      PROVE TypeOK'
  BY <1>8 DEF GuardInit, GuardLock, GuardStat, GuardLeaves, GuardIsKilled, Advances,
     process, pipes
<1>9. ASSUME NEW g \in Guards, GuardSpawn(g) \/ ChildExits(g) PROVE TypeOK'
  BY <1>9 DEF GuardSpawn, ChildExits, Advances, pipes
<1>10. ASSUME NEW g \in Guards, GuardRecord(g) PROVE TypeOK'
  BY <1>10, <1>r DEF GuardRecord, Advances, pipes
<1>11. ASSUME NEW g \in Guards, GuardRecordFails(g) PROVE TypeOK'
  BY <1>11, <1>r, <1>c DEF GuardRecordFails, Advances, pipes
<1>12. ASSUME NEW g \in Guards, GuardCheckMissed(g) \/ GuardReaps(g) PROVE TypeOK'
  BY <1>12 DEF GuardCheckMissed, GuardReaps, NextChild, Advances, pipes
<1>13. ASSUME NEW g \in Guards, GuardStops(g) PROVE TypeOK'
  BY <1>13, <1>c DEF GuardStops, Advances, pipes
<1>14. ASSUME NEW g \in Guards, Hear(g) \/ ReaderLock(g) PROVE TypeOK'
  BY <1>14 DEF Hear, ReaderLock, Reads, process, pipes
<1>15. ASSUME NEW g \in Guards, HearEnd(g) PROVE TypeOK'
  BY <1>15 DEF HearEnd, Reads, process
<1>16. ASSUME NEW g \in Guards, Terminate(g) PROVE TypeOK'
  <2>1. child' = child \/ child' = Asked(g)
    BY <1>16 DEF Terminate
  <2>2. reader' \in [Guards -> ReaderStages]
    BY <1>16 DEF Terminate, Reads
  <2>3. UNCHANGED <<backend, guard, stage, told, by, control, heard, record>>
    BY <1>16 DEF Terminate, pipes
  <2> QED
    BY <2>1, <2>2, <2>3, <1>c
<1>17. ASSUME NEW g \in Guards, RemoveRecord(g) PROVE TypeOK'
  BY <1>17, <1>n DEF RemoveRecord, Reads, process, pipes
<1>18. CASE UNCHANGED vars
  BY <1>18 DEF vars
<1> QED
  BY <1>1, <1>2, <1>3, <1>4, <1>5, <1>6, <1>7, <1>8, <1>9, <1>10, <1>11, <1>12, <1>13,
     <1>14, <1>15, <1>16, <1>17, <1>18
  DEF Next, PrepareStep, CloseStep, BackendExits, BackendCrashes, GuardStep, ReaderStep, Rest

(* Every variable keeps its type.                                             *)
THEOREM GuardTypes == Spec => []TypeOK
<1>1. TypeOK /\ [Next]_vars => TypeOK'
  BY TypeStep
<1> QED
  BY TypeInit, <1>1, PTL DEF Spec

-----------------------------------------------------------------------------
(* A lock has one holder: it is taken only when nobody holds it.              *)
LEMMA ExclusiveStep == TypeOK /\ Exclusive /\ [Next]_vars => Exclusive'
<1> SUFFICES ASSUME TypeOK, Exclusive, [Next]_vars PROVE Exclusive'
  OBVIOUS
<1> USE DEF TypeOK, BackendStages, GuardStages, ReaderStages, Exclusive, Holds, Removing,
            Preparing, Owns
<1>1. ASSUME NEW b \in Backends, Open(b) PROVE Exclusive'
  BY <1>1 DEF Open, Goes
<1>2. ASSUME NEW b \in Backends, PrepareLock(b) PROVE Exclusive'
  BY <1>2 DEF PrepareLock, Goes, LockFree
<1>3. ASSUME NEW b \in Backends, PrepareRead(b) \/ PrepareEnd(b) PROVE Exclusive'
  <2>1. /\ UNCHANGED <<guard, reader>>
        /\ \E to \in {"refused", "ending", "serving"} : backend' = [backend EXCEPT ![b] = to]
        /\ Preparing(b)
    BY <1>3 DEF PrepareRead, PrepareEnd, Goes
  <2> QED
    BY <2>1
<1>4. ASSUME NEW b \in Backends, CloseBegins(b) \/ CloseEnds(b) \/ GivesUp(b) PROVE Exclusive'
  BY <1>4 DEF CloseBegins, CloseEnds, GivesUp, Goes
<1>5. ASSUME NEW b \in Backends, Dies(b) PROVE Exclusive'
  BY <1>5 DEF Dies, Goes
<1>6. ASSUME NEW b \in Backends, NEW g \in Guards, Launch(b, g) PROVE Exclusive'
  BY <1>6 DEF Launch, Advances, Reads
<1>7. ASSUME NEW g \in Guards, GuardLock(g) PROVE Exclusive'
  BY <1>7 DEF GuardLock, Advances, LockFree
<1>8. ASSUME NEW g \in Guards, GuardInit(g) \/ GuardStat(g) \/ GuardLeaves(g) PROVE Exclusive'
  BY <1>8 DEF GuardInit, GuardStat, GuardLeaves, Advances
<1>9. ASSUME NEW g \in Guards,
             GuardSpawn(g) \/ GuardRecord(g) \/ GuardRecordFails(g) \/ GuardStops(g)
      PROVE Exclusive'
  BY <1>9 DEF GuardSpawn, GuardRecord, GuardRecordFails, GuardStops, Advances
<1>10. ASSUME NEW g \in Guards, GuardCheckMissed(g) \/ GuardReaps(g) PROVE Exclusive'
  BY <1>10 DEF GuardCheckMissed, GuardReaps, NextChild, Advances
<1>11. ASSUME NEW g \in Guards, GuardIsKilled(g) PROVE Exclusive'
  BY <1>11 DEF GuardIsKilled, Advances
<1>12. ASSUME NEW g \in Guards, ReaderLock(g) PROVE Exclusive'
  BY <1>12 DEF ReaderLock, Reads, LockFree
<1>13. ASSUME NEW g \in Guards, HearEnd(g) \/ RemoveRecord(g) PROVE Exclusive'
  BY <1>13 DEF HearEnd, RemoveRecord, Reads
<1>14. ASSUME NEW g \in Guards, Terminate(g) PROVE Exclusive'
  BY <1>14 DEF Terminate, Reads
<1>15. ASSUME NEW g \in Guards, RequestStop(g) \/ Abort(g) \/ ChildExits(g) \/ Hear(g)
       PROVE Exclusive'
  BY <1>15 DEF RequestStop, Abort, ChildExits, Hear
<1>16. CASE UNCHANGED vars
  BY <1>16 DEF vars
<1> QED
  BY <1>1, <1>2, <1>3, <1>4, <1>5, <1>6, <1>7, <1>8, <1>9, <1>10, <1>11, <1>12, <1>13,
     <1>14, <1>15, <1>16
  DEF Next, PrepareStep, CloseStep, BackendExits, BackendCrashes, GuardStep, ReaderStep, Rest

(* The record and the living children stay together.  A step that only moves *)
(* guards, ends children or remove a record that names no living core is    *)
(* dealt with once, in Quiet.                                                 *)
LEMMA RecordStep ==
  ASSUME RecordedFirst, IInv, [Next]_vars
  PROVE  LiveIsRecorded' /\ RecordFits'
<1> USE DEF IInv, TypeOK, GuardStages, ChildStages, LiveIsRecorded, RecordFits, Record,
            ChildAlive, Unrecorded, Parenting
<1> DEFINE Fits == LiveIsRecorded' /\ RecordFits'
           Quiet == /\ UNCHANGED <<guard, stage>>
                    /\ \A h \in Guards : ChildAlive(h)' => ChildAlive(h)
                    /\ record' = record \/ (record' = NoRecord /\ ~RecordedAlive)
<1>q. ASSUME Quiet PROVE Fits
  BY <1>q DEF NoRecord, RecordedAlive
<1>1. ASSUME NEW b \in Backends, PrepareStep(b) PROVE Quiet
  <2>1. ASSUME PrepareLock(b) PROVE Quiet
    BY <2>1 DEF PrepareLock, process
  <2>2. ASSUME PrepareRead(b) PROVE Quiet
    <3>1. /\ UNCHANGED <<guard, stage>>
          /\ record' = record \/ (record' = NoRecord /\ ~RecordedAlive)
          /\ UNCHANGED child \/ (RecordedAlive /\ child' = Asked(record.guard))
      BY <2>2 DEF PrepareRead
    <3> QED
      BY <3>1 DEF Asked, RecordedAlive
  <2>3. ASSUME PrepareEnd(b) PROVE Quiet
    BY <2>3 DEF PrepareEnd, process
  <2> QED
    BY <1>1, <2>1, <2>2, <2>3 DEF PrepareStep
<1>2. ASSUME NEW b \in Backends,
             Open(b) \/ CloseBegins(b) \/ CloseEnds(b) \/ GivesUp(b) \/ Dies(b)
      PROVE Quiet
  BY <1>2 DEF Open, CloseBegins, CloseEnds, GivesUp, Dies, process
<1>3. ASSUME NEW b \in Backends, NEW g \in Guards, Launch(b, g) PROVE Fits
  BY <1>3 DEF Launch, Advances, process
<1>4. ASSUME NEW g \in Guards, RequestStop(g) \/ Abort(g) PROVE Quiet
  BY <1>4 DEF RequestStop, Abort, process
<1>5. ASSUME NEW g \in Guards, GuardInit(g) \/ GuardLock(g) \/ GuardLeaves(g) PROVE Fits
  BY <1>5 DEF GuardInit, GuardLock, GuardLeaves, Advances, process
<1>6. ASSUME NEW g \in Guards, GuardStat(g) PROVE Fits
  BY <1>6 DEF GuardStat, Advances, process, NoRecord
<1>7. ASSUME NEW g \in Guards, GuardSpawn(g) PROVE Fits
  BY <1>7 DEF GuardSpawn, Advances
<1>8. ASSUME NEW g \in Guards, GuardRecord(g) PROVE Fits
  BY <1>8, CoreGuardAssumption DEF GuardRecord, Advances, Exclusive, Holds
<1>9. ASSUME NEW g \in Guards, GuardRecordFails(g) PROVE Fits
  <2>1. /\ guard[g] = "spawned" /\ guard' = [guard EXCEPT ![g] = "aborting"]
        /\ record' = record \/ record' = Record(g)
        /\ child' = Asked(g) /\ UNCHANGED stage
    BY <1>9 DEF GuardRecordFails, Advances
  <2> QED
    BY <2>1, CoreGuardAssumption DEF Asked, Exclusive, Holds
<1>10. ASSUME NEW g \in Guards, GuardCheckMissed(g) PROVE Fits
  BY <1>10 DEF GuardCheckMissed, NextChild, Advances
<1>11. ASSUME NEW g \in Guards, GuardStops(g) PROVE Fits
  BY <1>11 DEF GuardStops, Advances, Asked
<1>12. ASSUME NEW g \in Guards, GuardReaps(g) PROVE Fits
  BY <1>12 DEF GuardReaps, NextChild, Advances
<1>13. ASSUME NEW g \in Guards, GuardIsKilled(g) PROVE Fits
  BY <1>13, CoreGuardAssumption DEF GuardIsKilled, Advances, RecordedFirst, process
<1>14. ASSUME NEW g \in Guards, ChildExits(g) PROVE Quiet
  BY <1>14 DEF ChildExits
<1>15. ASSUME NEW g \in Guards, Hear(g) \/ HearEnd(g) \/ ReaderLock(g) PROVE Quiet
  BY <1>15 DEF Hear, HearEnd, ReaderLock, process
<1>16. ASSUME NEW g \in Guards, Terminate(g) PROVE Quiet
  BY <1>16 DEF Terminate, Asked
<1>17. ASSUME NEW g \in Guards, RemoveRecord(g) PROVE Quiet
  BY <1>17 DEF RemoveRecord, Removable, process
<1>18. CASE UNCHANGED vars
  BY <1>18 DEF vars
<1> QED
  BY <1>q, <1>1, <1>2, <1>3, <1>4, <1>5, <1>6, <1>7, <1>8, <1>9, <1>10, <1>11, <1>12,
     <1>13, <1>14, <1>15, <1>16, <1>17, <1>18
  DEF Next, CloseStep, BackendExits, BackendCrashes, GuardStep, ReaderStep, Rest

-----------------------------------------------------------------------------
(* IInv holds initially and every step keeps it.                              *)
LEMMA InvInit == Init => IInv
<1>1. Init => TypeOK
  BY TypeInit
<1> QED
  BY <1>1 DEF Init, IInv, Exclusive, LiveIsRecorded, RecordFits, Holds, Removing,
     Preparing, Owns, ChildAlive, Unrecorded, NoRecord

LEMMA InvStep ==
  ASSUME RecordedFirst
  PROVE  IInv /\ [Next]_vars => IInv'
<1> SUFFICES ASSUME IInv, [Next]_vars PROVE IInv'
  OBVIOUS
<1>1. TypeOK'
  BY TypeStep DEF IInv
<1>2. Exclusive'
  BY ExclusiveStep DEF IInv
<1>3. LiveIsRecorded' /\ RecordFits'
  BY RecordStep
<1> QED
  BY <1>1, <1>2, <1>3 DEF IInv

(* The locks are exclusive, the record fits, and no core lives unrecorded.    *)
LEMMA Invariant ==
  ASSUME RecordedFirst
  PROVE  Spec => []IInv
<1>1. Init => IInv
  BY InvInit
<1>2. IInv /\ [Next]_vars => IInv'
  BY InvStep
<1> QED
  BY <1>1, <1>2, PTL DEF Spec

(* Whatever dies and whenever, process.json names every core that lives but   *)
(* one just started by a guard that holds core.lock (RunCoreGuard records a   *)
(* child before it watches it, and nobody removes the record of a living one).*)
THEOREM LiveCoresAreRecorded ==
  ASSUME RecordedFirst
  PROVE  Spec => []LiveIsRecorded
<1>1. Spec => []IInv
  BY Invariant
<1>2. IInv => LiveIsRecorded
  BY DEF IInv
<1> QED
  BY <1>1, <1>2, PTL

-----------------------------------------------------------------------------
(* At most one child lives in the directory.                                  *)
LEMMA OneLiving ==
  ASSUME IInv, NEW g \in Guards, NEW h \in Guards, ChildAlive(g), ChildAlive(h)
  PROVE  g = h
<1>1. CASE record = Record(g) /\ record = Record(h)
  BY <1>1 DEF Record
<1>2. CASE guard[g] \in Unrecorded
  BY <1>2, CoreGuardAssumption
  DEF IInv, LiveIsRecorded, RecordFits, Record, Unrecorded, Exclusive, Holds
<1>3. CASE guard[h] \in Unrecorded
  BY <1>3, CoreGuardAssumption
  DEF IInv, LiveIsRecorded, RecordFits, Record, Unrecorded, Exclusive, Holds
<1> QED
  BY <1>1, <1>2, <1>3 DEF IInv, LiveIsRecorded, Unrecorded

(* Nothing lives when the holder of core.lock finds that the core of the      *)
(* record, if any, is dead.                                                   *)
LEMMA NothingLives ==
  ASSUME IInv, NEW b \in Backends, Preparing(b), ~RecordedAlive
  PROVE  Living = {}
<1> SUFFICES ASSUME NEW g \in Guards, ChildAlive(g) PROVE FALSE
  BY DEF Living
<1>1. ~Holds(g)
  BY DEF IInv, Exclusive
<1>2. record = Record(g)
  BY <1>1 DEF IInv, LiveIsRecorded, Holds
<1> QED
  BY <1>2 DEF Record, RecordedAlive

(* Nothing lives when a guard is about to start a child.                      *)
LEMMA NothingLivesYet ==
  ASSUME IInv, NEW g \in Guards, guard[g] = "ready"
  PROVE  Living = {}
<1> SUFFICES ASSUME NEW h \in Guards, ChildAlive(h) PROVE FALSE
  BY DEF Living
<1>1. h # g
  BY DEF IInv, RecordFits, Unrecorded, Parenting
<1>2. ~Holds(h)
  BY <1>1 DEF IInv, Exclusive, Holds
<1>3. record = Record(h)
  BY <1>2 DEF IInv, LiveIsRecorded, Holds
<1>4. record.guard \in {g, Nobody}
  BY DEF IInv, RecordFits
<1> QED
  BY <1>1, <1>3, <1>4, CoreGuardAssumption DEF Record

(* A backend with the lock of the directory is the only one that serves.      *)
LEMMA OneServing ==
  ASSUME IInv, NEW b \in Backends, Owns(b)
  PROVE  Serving \subseteq {b}
  BY DEF Serving, IInv, Exclusive, Owns

-----------------------------------------------------------------------------
(* The steps of CoreSlot, in terms of who serves and what lives.              *)
LEMMA SlotInit == Init => Slot!Init
  BY DEF Init, Slot!Init, Serving, Living, ChildAlive

LEMMA PrepareServes ==
  ASSUME IInv, NEW b \in Backends, PrepareRead(b) \/ PrepareEnd(b)
  PROVE  [Slot!Next]_Slot!vars
<1> USE DEF IInv, TypeOK, BackendStages
<1>1. Preparing(b) /\ Owns(b) /\ b \notin Serving
  BY DEF PrepareRead, PrepareEnd, Preparing, Owns, Serving
<1>2. Serving = {}
  BY <1>1, OneServing
<1>3. \/ /\ ~RecordedAlive /\ UNCHANGED child
         /\ backend' = [backend EXCEPT ![b] = "serving"]
      \/ \E to \in {"refused", "ending"} :
           /\ backend' = [backend EXCEPT ![b] = to]
           /\ UNCHANGED child \/ (RecordedAlive /\ child' = Asked(record.guard))
  BY DEF PrepareRead, PrepareEnd, Goes, process
<1>4. Living' = Living
  BY <1>3 DEF Living, ChildAlive, Asked, RecordedAlive
<1>5. CASE ~RecordedAlive /\ backend' = [backend EXCEPT ![b] = "serving"]
  <2>1. Living = {}
    BY <1>1, <1>5, NothingLives
  <2>2. Serving' = {b}
    BY <1>2, <1>5 DEF Serving
  <2>3. Slot!Open(b)
    BY <1>2, <1>4, <2>1, <2>2 DEF Slot!Open
  <2> QED
    BY <2>3 DEF Slot!Next
<1>6. CASE \E to \in {"refused", "ending"} : backend' = [backend EXCEPT ![b] = to]
  <2>1. Serving' = Serving
    BY <1>1, <1>6 DEF Serving
  <2> QED
    BY <1>4, <2>1 DEF Slot!vars
<1> QED
  BY <1>3, <1>5, <1>6

LEMMA BackendEnds ==
  ASSUME IInv, NEW b \in Backends, CloseEnds(b) \/ Dies(b)
  PROVE  [Slot!Next]_Slot!vars
<1> USE DEF IInv, TypeOK, BackendStages
<1>1. \E to \in {"released", "dead"} : backend' = [backend EXCEPT ![b] = to]
  BY DEF CloseEnds, Dies, Goes
<1>2. Living' = Living
  BY DEF CloseEnds, Dies, process, Living, ChildAlive
<1>3. Serving' = Serving \ {b}
  BY <1>1 DEF Serving
<1>4. CASE b \in Serving
  <2>1. Serving = {b}
    BY <1>4, OneServing DEF Serving, Owns
  <2>2. Slot!Close
    BY <1>2, <1>3, <2>1 DEF Slot!Close
  <2> QED
    BY <2>2 DEF Slot!Next
<1>5. CASE b \notin Serving
  BY <1>2, <1>3, <1>5 DEF Slot!vars
<1> QED
  BY <1>4, <1>5

LEMMA SpawnStarts ==
  ASSUME IInv, NEW g \in Guards, GuardSpawn(g)
  PROVE  [Slot!Next]_Slot!vars
<1> USE DEF IInv, TypeOK
<1>1. Serving' = Serving
  BY DEF GuardSpawn, Serving
<1>2. Living = {}
  BY NothingLivesYet DEF GuardSpawn
<1>3. CASE UNCHANGED child
  BY <1>1, <1>3 DEF Slot!vars, Living, ChildAlive
<1>4. CASE child' = [child EXCEPT ![g] = "live"]
  <2>1. Living' = {g}
    BY <1>2, <1>4 DEF Living, ChildAlive
  <2>2. Slot!Start(g)
    BY <1>1, <1>2, <2>1 DEF Slot!Start
  <2> QED
    BY <2>2 DEF Slot!Next
<1> QED
  BY <1>3, <1>4 DEF GuardSpawn

LEMMA ExitEnds ==
  ASSUME IInv, NEW g \in Guards, ChildExits(g)
  PROVE  [Slot!Next]_Slot!vars
<1> USE DEF IInv, TypeOK
<1>1. Serving' = Serving
  BY DEF ChildExits, Serving
<1>2. Living = {g}
  BY OneLiving DEF ChildExits, Living
<1>3. Living' = {}
  BY <1>2 DEF ChildExits, Living, ChildAlive
<1>4. Slot!Exit
  BY <1>1, <1>2, <1>3 DEF Slot!Exit
<1> QED
  BY <1>4 DEF Slot!Next

(* Every step is a step of CoreSlot, or changes neither who serves nor what   *)
(* lives.                                                                     *)
LEMMA SlotStep ==
  ASSUME IInv, [Next]_vars
  PROVE  [Slot!Next]_Slot!vars
<1> USE DEF IInv, TypeOK, BackendStages
<1> DEFINE Same == Serving' = Serving /\ Living' = Living
<1>s. ASSUME Same PROVE [Slot!Next]_Slot!vars
  BY <1>s DEF Slot!vars
<1>1. ASSUME NEW b \in Backends, Open(b) \/ PrepareLock(b) \/ CloseBegins(b) \/ GivesUp(b)
      PROVE Same
  BY <1>1 DEF Open, PrepareLock, CloseBegins, GivesUp, Goes, process, Serving, Living,
     ChildAlive
<1>2. ASSUME NEW b \in Backends, NEW g \in Guards, Launch(b, g) PROVE Same
  BY <1>2 DEF Launch, process, Serving, Living, ChildAlive
<1>3. ASSUME NEW g \in Guards, RequestStop(g) \/ Abort(g) PROVE Same
  BY <1>3 DEF RequestStop, Abort, process, Serving, Living, ChildAlive
<1>4. ASSUME NEW g \in Guards,
             \/ GuardInit(g) \/ GuardLock(g) \/ GuardStat(g) \/ GuardRecord(g)
             \/ GuardCheckMissed(g) \/ GuardReaps(g) \/ GuardLeaves(g) \/ GuardIsKilled(g)
      PROVE Same
  BY <1>4 DEF GuardInit, GuardLock, GuardStat, GuardRecord, GuardCheckMissed,
     GuardReaps, GuardLeaves, GuardIsKilled, process, Serving, Living, ChildAlive
<1>5. ASSUME NEW g \in Guards, GuardRecordFails(g) \/ GuardStops(g) PROVE Same
  BY <1>5 DEF GuardRecordFails, GuardStops, Asked, Serving, Living, ChildAlive
<1>6. ASSUME NEW g \in Guards, Hear(g) \/ HearEnd(g) \/ ReaderLock(g) \/ RemoveRecord(g)
      PROVE Same
  BY <1>6 DEF Hear, HearEnd, ReaderLock, RemoveRecord, process, Serving, Living,
     ChildAlive
<1>7. ASSUME NEW g \in Guards, Terminate(g) PROVE Same
  BY <1>7 DEF Terminate, Asked, Serving, Living, ChildAlive
<1>8. ASSUME UNCHANGED vars PROVE Same
  BY <1>8 DEF vars, Serving, Living, ChildAlive
<1> HIDE DEF Same
<1> QED
  BY <1>s, <1>1, <1>2, <1>3, <1>4, <1>5, <1>6, <1>7, <1>8, PrepareServes, BackendEnds,
     SpawnStarts, ExitEnds
  DEF Next, PrepareStep, CloseStep, BackendExits, BackendCrashes, GuardStep, ReaderStep, Rest

(* The protocol implements CoreSlot: at most one backend serves the data      *)
(* directory, at most one core lives in it, and no backend begins to serve    *)
(* while one does, whichever processes are killed and whenever, as long as no *)
(* guard is killed between the start of a child and its record.               *)
THEOREM OneCorePerDirectory ==
  ASSUME RecordedFirst
  PROVE  Spec => ImplementsCoreSlot
<1>1. Spec => []IInv
  BY Invariant
<1>2. Init => Slot!Init
  BY SlotInit
<1>3. IInv /\ [Next]_vars => [Slot!Next]_Slot!vars
  BY SlotStep
<1> QED
  BY <1>1, <1>2, <1>3, PTL DEF Spec, ImplementsCoreSlot, Slot!Spec

-----------------------------------------------------------------------------
(* The ends of guards.  Orderly is what they take of the environment: no      *)
(* guard is killed while it has a child.                                      *)
Orderly == KillableAt \cap {"spawned", "aborting", "watching", "stopping"} = {}

(* No guard of an earlier backend is left when a backend serves.              *)
NoStrays == \A b \in Serving, g \in Guards : GuardAlive(g) => by[g] = b

Busy(g) == reader[g] \in {"reading", "killing", "locking", "removing"}

(* A child has its guard, and a reader that no longer reads has seen it end.  *)
Followed ==
  \A g \in Guards :
    /\ ChildAlive(g) => guard[g] \in {"spawned", "aborting", "watching", "stopping"}
    /\ reader[g] \in {"killing", "locking", "removing", "done"} => ~GuardAlive(g)
    /\ guard[g] = "free" <=> reader[g] = "none"
    /\ guard[g] = "free" <=> by[g] = Nobody

(* A backend has one reader that is not done, and none that outlives it.      *)
OneReader ==
  /\ \A g \in Guards : Busy(g) => by[g] \in Serving
  /\ \A g \in Guards : reader[g] = "gone" => backend[by[g]] = "dead"
  /\ \A g, h \in Guards : Busy(g) /\ Busy(h) => g = h

EndInv == Exclusive /\ Followed /\ OneReader

LEMMA EndsInit == Init => EndInv
  BY CoreGuardAssumption
  DEF Init, EndInv, Exclusive, Followed, OneReader, Holds, Removing, Preparing, Owns,
      ChildAlive, GuardAlive, Busy

LEMMA FollowedStep ==
  ASSUME Orderly, TypeOK, EndInv, [Next]_vars
  PROVE  Followed'
<1> USE DEF TypeOK, BackendStages, GuardStages, ReaderStages, Followed, ChildAlive, GuardAlive
<1>0. Followed
  BY DEF EndInv
<1>1. ASSUME NEW b \in Backends,
             Open(b) \/ PrepareLock(b) \/ CloseBegins(b) \/ GivesUp(b) \/ CloseEnds(b)
      PROVE Followed'
  BY <1>0, <1>1 DEF Open, PrepareLock, CloseBegins, CloseEnds, GivesUp, process, pipes
<1>2. ASSUME NEW b \in Backends, PrepareRead(b) \/ PrepareEnd(b) PROVE Followed'
  <2>1. /\ UNCHANGED <<guard, reader, by>>
        /\ child' = child \/ child' = Asked(record.guard)
    BY <1>2 DEF PrepareRead, PrepareEnd, process, pipes
  <2> QED BY <1>0, <2>1 DEF Asked
<1>3. ASSUME NEW b \in Backends, Dies(b) PROVE Followed'
  BY <1>0, <1>3, CoreGuardAssumption DEF Dies, process, pipes
<1>4. ASSUME NEW b \in Backends, NEW g \in Guards, Launch(b, g) PROVE Followed'
  BY <1>0, <1>4, CoreGuardAssumption DEF Launch, Advances, Reads, process
<1>5. ASSUME NEW g \in Guards, RequestStop(g) \/ Abort(g) PROVE Followed'
  BY <1>0, <1>5 DEF RequestStop, Abort, process
<1>6. ASSUME NEW g \in Guards,
             GuardInit(g) \/ GuardLock(g) \/ GuardStat(g) \/ GuardLeaves(g)
      PROVE Followed'
  BY <1>0, <1>6 DEF GuardInit, GuardLock, GuardStat, GuardLeaves, Advances, process,
     pipes
<1>7. ASSUME NEW g \in Guards, GuardIsKilled(g) PROVE Followed'
  BY <1>0, <1>7, CoreGuardAssumption DEF GuardIsKilled, Advances, Orderly, process,
     pipes
<1>8. ASSUME NEW g \in Guards, GuardSpawn(g) \/ ChildExits(g) PROVE Followed'
  BY <1>0, <1>8 DEF GuardSpawn, ChildExits, Advances, pipes
<1>9. ASSUME NEW g \in Guards, GuardRecord(g) \/ GuardRecordFails(g) \/ GuardStops(g)
      PROVE Followed'
  BY <1>0, <1>9 DEF GuardRecord, GuardRecordFails, GuardStops, Asked, Advances, pipes
<1>10. ASSUME NEW g \in Guards, GuardCheckMissed(g) \/ GuardReaps(g) PROVE Followed'
  BY <1>0, <1>10 DEF GuardCheckMissed, GuardReaps, NextChild, Advances, pipes
<1>11. ASSUME NEW g \in Guards, Hear(g) PROVE Followed'
  BY <1>0, <1>11 DEF Hear, process
<1>12. ASSUME NEW g \in Guards,
              HearEnd(g) \/ Terminate(g) \/ ReaderLock(g) \/ RemoveRecord(g)
       PROVE Followed'
  BY <1>0, <1>12
  DEF HearEnd, Terminate, ReaderLock, RemoveRecord, Removing, Reads, Asked, process, pipes
<1>13. CASE UNCHANGED vars
  BY <1>0, <1>13 DEF vars
<1> QED
  BY <1>1, <1>2, <1>3, <1>4, <1>5, <1>6, <1>7, <1>8, <1>9, <1>10, <1>11, <1>12, <1>13
  DEF Next, PrepareStep, CloseStep, BackendExits, BackendCrashes, GuardStep, ReaderStep, Rest

LEMMA OneReaderStep ==
  ASSUME ~Slow, TypeOK, EndInv, [Next]_vars
  PROVE  OneReader'
<1> USE DEF TypeOK, BackendStages, GuardStages, ReaderStages, OneReader, Busy, Serving
<1>0. OneReader /\ Followed /\ Exclusive
  BY DEF EndInv
<1>1. ASSUME NEW b \in Backends, Open(b) \/ PrepareLock(b) \/ CloseBegins(b) \/ GivesUp(b)
      PROVE OneReader'
  <2>1. /\ UNCHANGED <<reader, by>> /\ backend[b] # "dead"
        /\ \E to \in BackendStages : backend' = [backend EXCEPT ![b] = to]
        /\ backend[b] \in {"serving", "closing"} => backend'[b] \in {"serving", "closing"}
    BY <1>1 DEF Open, PrepareLock, CloseBegins, GivesUp, Goes, process, pipes
  <2>2. \A g \in Guards : reader[g] \in {"gone"} => by[g] \in Backends
    BY <1>0 DEF Followed
  <2> QED BY <1>0, <2>1, <2>2
<1>2. ASSUME NEW b \in Backends, PrepareRead(b) \/ PrepareEnd(b) PROVE OneReader'
  <2>1. /\ UNCHANGED <<reader, by>> /\ backend[b] \in {"reading", "ending"}
        /\ \E to \in {"refused", "ending", "serving"} : backend' = [backend EXCEPT ![b] = to]
    BY <1>2 DEF PrepareRead, PrepareEnd, Goes, process, pipes
  <2> QED BY <1>0, <2>1
<1>3. ASSUME NEW b \in Backends, Dies(b) PROVE OneReader'
  BY <1>0, <1>3 DEF Dies, Goes, process, pipes
<1>4. ASSUME NEW b \in Backends, CloseEnds(b) PROVE OneReader'
  BY <1>0, <1>4 DEF CloseEnds, Goes, process
<1>5. ASSUME NEW b \in Backends, NEW g \in Guards, Launch(b, g) PROVE OneReader'
  <2>1. \A h \in Guards : ~Busy(h)
    BY <1>0, <1>5 DEF Launch, Exclusive, Owns
  <2> QED BY <1>0, <1>5, <2>1 DEF Launch, Reads, Followed
<1>6. ASSUME NEW g \in Guards, RequestStop(g) \/ Abort(g) \/ Hear(g) PROVE OneReader'
  BY <1>0, <1>6 DEF RequestStop, Abort, Hear
<1>7. ASSUME NEW g \in Guards, GuardStep(g) \/ GuardIsKilled(g) \/ ChildExits(g)
      PROVE OneReader'
  <2>1. UNCHANGED <<backend, reader, by>>
    BY <1>7
    DEF GuardStep, GuardIsKilled, ChildExits, GuardInit, GuardLock, GuardStat, GuardSpawn,
        GuardRecord, GuardRecordFails, GuardCheckMissed, GuardStops, GuardReaps,
        GuardLeaves, pipes
  <2> QED BY <1>0, <2>1
<1>8. ASSUME NEW g \in Guards, HearEnd(g) \/ Terminate(g) \/ ReaderLock(g) \/ RemoveRecord(g)
      PROVE OneReader'
  <2>1. /\ UNCHANGED <<backend, by>> /\ Busy(g)
        /\ \E to \in ReaderStages \ {"none", "gone"} : reader' = [reader EXCEPT ![g] = to]
    <3>1. UNCHANGED reader => reader' = [reader EXCEPT ![g] = reader[g]]
      OBVIOUS
    <3> QED
      BY <1>8, <3>1
      DEF HearEnd, Terminate, ReaderLock, RemoveRecord, Removing, Reads, process, pipes
  <2> QED BY <1>0, <2>1
<1>9. CASE UNCHANGED vars
  BY <1>0, <1>9 DEF vars
<1> QED
  BY <1>1, <1>2, <1>3, <1>4, <1>5, <1>6, <1>7, <1>8, <1>9
  DEF Next, PrepareStep, CloseStep, BackendExits, BackendCrashes, ReaderStep, Rest

LEMMA EndsStep ==
  ASSUME Orderly, ~Slow
  PROVE  TypeOK /\ EndInv /\ [Next]_vars => EndInv'
<1> SUFFICES ASSUME TypeOK, EndInv, [Next]_vars PROVE EndInv'
  OBVIOUS
<1>1. Exclusive'
  BY ExclusiveStep DEF EndInv
<1> QED BY <1>1, FollowedStep, OneReaderStep DEF EndInv

LEMMA EndsHold ==
  ASSUME Orderly, ~Slow
  PROVE  Spec => [](TypeOK /\ EndInv)
<1>1. TypeOK /\ EndInv /\ [Next]_vars => (TypeOK /\ EndInv)'
  BY TypeStep, EndsStep
<1> QED BY <1>1, TypeInit, EndsInit, PTL DEF Spec

(* A record that names a guard whose reader is done is not written again, and *)
(* the reader finds core.lock free: the one who could hold it is a guard of    *)
(* its own backend, which has no other.                                       *)
LEMMA LaunchStep ==
  ASSUME Orderly, TypeOK, EndInv, NoStrays, CanLaunch, [Next]_vars
  PROVE  CanLaunch'
<1> USE DEF TypeOK, BackendStages, GuardStages, ReaderStages
<1>0. Followed /\ OneReader /\ Exclusive
  BY DEF EndInv
<1>1. ASSUME NEW g \in Guards, reader[g] = "done" PROVE record.guard # g
  BY <1>0, <1>1 DEF Followed, CanLaunch, ChildAlive, GuardAlive
<1> DEFINE Done == \A g \in Guards : reader'[g] = "done" => reader[g] = "done"
<1>2. ASSUME Done, record' = record \/ record' = NoRecord PROVE CanLaunch'
  BY <1>1, <1>2, CoreGuardAssumption DEF CanLaunch, NoRecord
<1>3. ASSUME NEW b \in Backends,
             \/ Open(b) \/ PrepareStep(b) \/ CloseBegins(b) \/ CloseStep(b) \/ BackendCrashes(b)
             \/ \E g \in Guards : Launch(b, g)
      PROVE CanLaunch'
  <2>1. record' = record \/ record' = NoRecord
    BY <1>3
    DEF Open, PrepareStep, PrepareLock, PrepareRead, PrepareEnd, CloseBegins, CloseStep,
        CloseEnds, GivesUp, BackendExits, BackendCrashes, Dies, Launch
  <2>2. Done
    BY <1>3
    DEF Open, PrepareStep, PrepareLock, PrepareRead, PrepareEnd, CloseBegins, CloseStep,
        CloseEnds, GivesUp, BackendExits, BackendCrashes, Dies, Launch, Reads
  <2> QED BY <1>2, <2>1, <2>2
<1>4. ASSUME NEW g \in Guards, GuardRecord(g) \/ GuardRecordFails(g) PROVE CanLaunch'
  <2>1. /\ UNCHANGED reader /\ guard[g] = "spawned"
        /\ record' = record \/ record'.guard = g
    BY <1>4 DEF GuardRecord, GuardRecordFails, Record
  <2>2. reader[g] # "done"
    BY <1>0, <2>1 DEF Followed, GuardAlive
  <2> QED BY <1>1, <2>1, <2>2 DEF CanLaunch
<1>5. ASSUME NEW g \in Guards,
             \/ RequestStop(g) \/ Abort(g) \/ GuardIsKilled(g) \/ ChildExits(g)
             \/ GuardStep(g) /\ ~GuardRecord(g) /\ ~GuardRecordFails(g)
             \/ Hear(g) \/ HearEnd(g) \/ Terminate(g)
      PROVE CanLaunch'
  <2>1. UNCHANGED record
    BY <1>5
    DEF RequestStop, Abort, GuardIsKilled, ChildExits, GuardStep, GuardInit, GuardLock,
        GuardStat, GuardSpawn, GuardCheckMissed, GuardStops, GuardReaps, GuardLeaves,
        Hear, HearEnd, Terminate
  <2>2. Done
    BY <1>5
    DEF RequestStop, Abort, GuardIsKilled, ChildExits, GuardStep, GuardInit, GuardLock,
        GuardStat, GuardSpawn, GuardCheckMissed, GuardStops, GuardReaps, GuardLeaves,
        Hear, HearEnd, Terminate, Reads
  <2> QED BY <1>2, <2>1, <2>2
<1>6. ASSUME NEW g \in Guards, ReaderLock(g) PROVE CanLaunch'
  <2>1. reader[g] = "locking" /\ UNCHANGED record
    BY <1>6 DEF ReaderLock
  <2>2. by[g] \in Serving /\ by[g] \in Backends /\ Owns(by[g]) /\ ~GuardAlive(g)
    BY <1>0, <2>1 DEF OneReader, Followed, Busy, Serving, Owns
  <2>3. ASSUME NEW h \in Guards PROVE ~Holds(h) /\ ~Removing(h)
    <3>1. ASSUME Removing(h) PROVE FALSE
      BY <1>0, <2>1, <3>1 DEF OneReader, Busy, Removing
    <3>2. ASSUME Holds(h) PROVE FALSE
      <4>1. GuardAlive(h) /\ by[h] = by[g]
        BY <2>2, <3>2 DEF Holds, GuardAlive, NoStrays
      <4>2. reader[h] \in {"reading", "gone"}
        BY <1>0, <4>1 DEF Followed, GuardAlive
      <4>3. reader[h] # "gone"
        BY <1>0, <2>2, <4>1 DEF OneReader, Serving
      <4> QED BY <1>0, <2>1, <2>2, <4>1, <4>2, <4>3 DEF OneReader, Busy
    <3> QED BY <3>1, <3>2
  <2>4. \A b \in Backends : ~Preparing(b)
    BY <1>0, <2>2 DEF Exclusive, Owns, Preparing, Serving
  <2>5. reader' = [reader EXCEPT ![g] = "removing"]
    BY <1>6, <2>3, <2>4 DEF ReaderLock, LockFree, Reads
  <2> QED BY <1>2, <2>1, <2>5
<1>7. ASSUME NEW g \in Guards, RemoveRecord(g) PROVE CanLaunch'
  <2>1. /\ reader[g] = "removing" /\ reader' = [reader EXCEPT ![g] = "done"]
        /\ record' = IF Removable(g) THEN NoRecord ELSE record
    BY <1>7 DEF RemoveRecord, Removing, Reads
  <2>2. ~ChildAlive(g)
    BY <1>0, <2>1 DEF Followed, GuardAlive, ChildAlive
  <2>3. record'.guard # g
    BY <2>1, <2>2, CoreGuardAssumption DEF Removable, RecordedAlive, NoRecord
  <2> QED BY <1>1, <2>1, <2>3, CoreGuardAssumption DEF CanLaunch, NoRecord
<1>8. CASE UNCHANGED vars
  BY <1>2, <1>8 DEF vars
<1> QED
  BY <1>3, <1>4, <1>5, <1>6, <1>7, <1>8 DEF Next, GuardStep, ReaderStep, Rest

(* The record of a guard whose end the backend has dealt with is gone, so it   *)
(* does not keep the next guard from starting a core: as long as no guard of   *)
(* an earlier backend is left to hold core.lock, no wait ends early, and no    *)
(* guard is killed while it has a child.                                      *)
THEOREM EndedGuardsLeaveNoRecord ==
  ASSUME Orderly, ~Slow
  PROVE  Spec /\ []NoStrays => []CanLaunch
<1>1. Init => CanLaunch
  BY DEF Init, CanLaunch
<1>2. TypeOK /\ EndInv /\ NoStrays /\ CanLaunch /\ [Next]_vars => CanLaunch'
  BY LaunchStep
<1> QED BY <1>1, <1>2, EndsHold, PTL DEF Spec

(* Closing (CloseCoreProcesses) leaves neither a guard nor a core, unless a     *)
(* wait was too short or a guard was killed while it had a child.             *)
THEOREM ClosingIsClean ==
  ASSUME Orderly
  PROVE  Spec => ClosedIsClean
<1> DEFINE Clean ==
      \A b \in Backends, g \in Guards :
        backend[b] = "closing" /\ backend'[b] = "released" /\ by[g] = b /\ ~Slow
          => ~GuardAlive(g) /\ ~ChildAlive(g)
<1>1. CASE Slow
  <2>1. [Next]_vars => [Clean]_vars
    BY <1>1
  <2> QED BY <2>1, PTL DEF Spec, ClosedIsClean
<1>2. CASE ~Slow
  <2>1. ASSUME TypeOK, EndInv, [Next]_vars, NEW b \in Backends, NEW g \in Guards,
               backend[b] = "closing", backend'[b] = "released", by[g] = b
        PROVE  ~GuardAlive(g) /\ ~ChildAlive(g)
    <3>1. CloseEnds(b)
      <4>1. ASSUME NEW c \in Backends, backend' = [backend EXCEPT ![c] = "released"] PROVE c = b
        BY <2>1, <4>1 DEF TypeOK
      <4>2. ASSUME NEW c \in Backends, NEW to, to # "released",
                   backend' = [backend EXCEPT ![c] = to]
            PROVE FALSE
        BY <2>1, <4>2 DEF TypeOK
      <4>3. backend' # backend
        BY <2>1
      <4>4. ASSUME NEW c \in Backends, Open(c) \/ PrepareStep(c) \/ CloseBegins(c) \/ Dies(c)
            PROVE FALSE
        BY <2>1, <4>2, <4>4
        DEF Open, PrepareStep, PrepareLock, PrepareRead, PrepareEnd, CloseBegins, Dies, Goes
      <4>5. ASSUME NEW c \in Backends, CloseEnds(c) \/ GivesUp(c) PROVE CloseEnds(b)
        BY <2>1, <4>1, <4>5 DEF CloseEnds, GivesUp, Goes
      <4>6. ASSUME NEW h \in Guards,
                   \/ RequestStop(h) \/ Abort(h) \/ GuardStep(h) \/ GuardIsKilled(h)
                   \/ ChildExits(h) \/ ReaderStep(h) \/ \E c \in Backends : Launch(c, h)
            PROVE FALSE
        BY <4>3, <4>6
        DEF RequestStop, Abort, GuardStep, GuardIsKilled, ChildExits, GuardInit, GuardLock,
            GuardStat, GuardSpawn, GuardRecord, GuardRecordFails, GuardCheckMissed,
            GuardStops, GuardReaps, GuardLeaves, ReaderStep, Hear, HearEnd, Terminate,
            ReaderLock, RemoveRecord, Launch
      <4> QED
        BY <2>1, <4>3, <4>4, <4>5, <4>6
        DEF Next, CloseStep, BackendExits, BackendCrashes, Rest, vars
    <3>2. reader[g] = "done"
      BY <1>2, <2>1, <3>1 DEF CloseEnds
    <3> QED
      BY <2>1, <3>2 DEF EndInv, Followed, GuardAlive, ChildAlive
  <2>2. TypeOK /\ EndInv /\ [Next]_vars => [Clean]_vars
    BY <2>1
  <2> QED BY <1>2, <2>2, EndsHold, PTL DEF Spec, ClosedIsClean
<1> QED BY <1>1, <1>2
=============================================================================
