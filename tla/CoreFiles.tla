------------------------------ MODULE CoreFiles ------------------------------
(***************************************************************************)
(* The files of the core, for one branch: downloads of a release, its         *)
(* installation in place of the core that is there, and the rollback to that  *)
(* one, by any number of browsers at once.                                   *)
(*                                                                         *)
(* Files are those of a POSIX system: who has one open writes on whatever it  *)
(* is renamed to, and after it is removed.  Downloads of one release share    *)
(* the archive and the directory it is extracted into.  The process may end   *)
(* at any step: it is killed, or its shutdown waits no longer.  Left out: the   *)
(* query of the release, progress, other files of the archive, and the clocks *)
(* of the checks, which may fail whenever they are made.                     *)
(***************************************************************************)
EXTENDS Naturals, FiniteSets

CONSTANTS
  CoreDownloads,        \* calls of DownloadCore; each is also the file it creates
  Rollbacks,            \* calls of RollbackCore
  Releases,             \* what the release can be when it is asked for
  MinimumCoreVersion,
  MaxCoreCalls,         \* bound on the calls of either kind
  MaxKills              \* bound on the ends of the process

ASSUME CoreFilesAssumption ==
  /\ CoreDownloads \cap 0 .. 2 = {} /\ Rollbacks \cap (CoreDownloads \cup {0}) = {}
  /\ MinimumCoreVersion \in Releases /\ Releases \subseteq Nat \ {0}

VARIABLES
  archives,    \* data/.cache: the archive of each release, who created it last
  extracted,   \* the core that was extracted from each
  corePath,    \* the core of the branch
  bakPath,     \* ... and its backup, each a file or NoCoreFile
  cores,       \* what each file holds: a version, and who has yet to write it
  install,     \* how far each download is, and whether it was cancelled
  rollback,    \* how far each rollback is
  holder,      \* the rollback that holds restartOperationMu, or nobody
  kills,
  crossed      \* calls have crossed on the files (Crosses)

diskOfCores == <<archives, extracted, corePath, bakPath, cores>>
coreFilesVars ==
  <<diskOfCores, install, rollback, holder, kills, crossed>>

NoCoreFile == 0
NoCall == 0
Current == 1
Older == 2
CoreFileIds == {Current, Older} \cup CoreDownloads

NoInstall(phase) ==
  [at |-> phase, version |-> 0, file |-> NoCoreFile, sound |-> FALSE, dropped |-> FALSE]
NoArchive == [by |-> NoCall, whole |-> FALSE]

-----------------------------------------------------------------------------
(* checkCoreVersion: it runs the file.                                        *)
Whole(file) == file # NoCoreFile /\ cores[file].writer = NoCall
Supported(version) == version >= MinimumCoreVersion
Runnable(file) == Whole(file) /\ Supported(cores[file].version)

InstallAt(d, phase) == install[d].at = phase
InstallMoves(d, phase) == install' = [install EXCEPT ![d].at = phase]
InstallIsOver(d) == install' = [install EXCEPT ![d] = NoInstall("over")]
ReleaseOf(d) == install[d].version

RollbackAt(r, phase) == rollback[r] = phase
RollbackMoves(r, phase) == rollback' = [rollback EXCEPT ![r] = phase]

(* Between the check of what they put in place and its renaming.               *)
Replacing ==
  {d \in CoreDownloads : install[d].at \in {"checked", "unbacked", "aside"}}
    \cup {r \in Rollbacks : rollback[r] \in {"checked", "begun", "removing", "renaming"}}

-----------------------------------------------------------------------------
(* DownloadCore *)

MayCall ==
  Cardinality({d \in CoreDownloads : ~InstallAt(d, "none")}
                \cup {r \in Rollbacks : ~RollbackAt(r, "none")}) < MaxCoreCalls

OutsideDownload == UNCHANGED <<rollback, holder, kills>>

DownloadCore(d) ==
  /\ InstallAt(d, "none") /\ MayCall
  /\ \E v \in Releases :
       install' = [install EXCEPT ![d] = [NoInstall("requested") EXCEPT !.version = v]]
  /\ OutsideDownload /\ UNCHANGED diskOfCores

(* os.Create truncates the archive that another download has, or is, writing.   *)
CreateArchive(d) ==
  /\ InstallAt(d, "requested") /\ ~install[d].dropped
  /\ archives' = [archives EXCEPT ![ReleaseOf(d)] = [by |-> d, whole |-> FALSE]]
  /\ InstallMoves(d, "receiving")
  /\ OutsideDownload /\ UNCHANGED <<extracted, corePath, bakPath, cores>>

(* Whoever created it last has written all of it. *)
ReceiveEnds(d) ==
  /\ InstallAt(d, "receiving")
  /\ archives' = [archives EXCEPT ![ReleaseOf(d)].whole = @ \/ archives[ReleaseOf(d)].by = d]
  /\ InstallMoves(d, "received")
  /\ OutsideDownload /\ UNCHANGED <<extracted, corePath, bakPath, cores>>

(* Of a cancelled download the archive is removed, also if it is another's.     *)
CoreDownloadFails(d) ==
  /\ InstallAt(d, "requested") \/ InstallAt(d, "receiving")
  /\ archives' = IF install[d].dropped THEN [archives EXCEPT ![ReleaseOf(d)] = NoArchive] ELSE archives
  /\ InstallIsOver(d)
  /\ OutsideDownload /\ UNCHANGED <<extracted, corePath, bakPath, cores>>

(* Without O_EXCL: a core that another extraction left, or is writing, is        *)
(* truncated.                                                                 *)
OpenExtracted(d) ==
  /\ InstallAt(d, "received") /\ archives[ReleaseOf(d)] # NoArchive
  /\ LET v == ReleaseOf(d)
         file == IF extracted[v] = NoCoreFile THEN d ELSE extracted[v] IN
     /\ extracted' = [extracted EXCEPT ![v] = file]
     /\ cores' = [cores EXCEPT ![file] = [version |-> v, writer |-> d]]
     /\ install' = [install EXCEPT ![d].at = "extracting", ![d].file = file,
                                   ![d].sound = archives[v].whole]
  /\ OutsideDownload /\ UNCHANGED <<archives, corePath, bakPath>>

(* The checksums hold: all of the archive was there, at the latest in the end.  *)
ExtractEnds(d) ==
  /\ InstallAt(d, "extracting") /\ (install[d].sound \/ archives[ReleaseOf(d)].whole)
  /\ cores' = [cores EXCEPT ![install[d].file].writer = IF @ = d THEN NoCall ELSE @]
  /\ InstallMoves(d, "extracted")
  /\ OutsideDownload /\ UNCHANGED <<archives, extracted, corePath, bakPath>>

ExtractFails(d) ==
  /\ InstallAt(d, "received") \/ InstallAt(d, "extracting")
  /\ InstallIsOver(d)
  /\ OutsideDownload /\ UNCHANGED diskOfCores

CheckExtracted(d) ==
  /\ InstallAt(d, "extracted") /\ ~install[d].dropped /\ Runnable(extracted[ReleaseOf(d)])
  /\ InstallMoves(d, "checked")
  /\ OutsideDownload /\ UNCHANGED diskOfCores

(* From here on the directory of the extraction is removed at the end.          *)
GivesUp(d) ==
  /\ InstallIsOver(d)
  /\ extracted' = [extracted EXCEPT ![ReleaseOf(d)] = NoCoreFile]
  /\ OutsideDownload /\ UNCHANGED <<archives, cores>>

InstallFails(d) ==
  /\ install[d].at \in {"extracted", "checked", "unbacked"}
  /\ GivesUp(d) /\ UNCHANGED <<corePath, bakPath>>

RemoveOldBackup(d) ==
  /\ InstallAt(d, "checked")
  /\ bakPath' = NoCoreFile
  /\ InstallMoves(d, "unbacked")
  /\ OutsideDownload /\ UNCHANGED <<archives, extracted, corePath, cores>>

MoveAside(d) ==
  /\ InstallAt(d, "unbacked")
  /\ IF corePath = NoCoreFile THEN UNCHANGED <<corePath, bakPath>>
     ELSE bakPath' = corePath /\ corePath' = NoCoreFile
  /\ InstallMoves(d, "aside")
  /\ OutsideDownload /\ UNCHANGED <<archives, extracted, cores>>

PlaceCore(d) ==
  /\ InstallAt(d, "aside") /\ extracted[ReleaseOf(d)] # NoCoreFile
  /\ corePath' = extracted[ReleaseOf(d)]
  /\ extracted' = [extracted EXCEPT ![ReleaseOf(d)] = NoCoreFile]
  /\ InstallMoves(d, "placed")
  /\ OutsideDownload /\ UNCHANGED <<archives, bakPath, cores>>

(* The core is put back, if it can be. *)
PlacingCoreFails(d) ==
  /\ InstallAt(d, "aside")
  /\ \/ bakPath # NoCoreFile /\ corePath' = bakPath /\ bakPath' = NoCoreFile
     \/ UNCHANGED <<corePath, bakPath>>
  /\ GivesUp(d)

InstallEnds(d) ==
  /\ InstallAt(d, "placed")
  /\ extracted' = [extracted EXCEPT ![ReleaseOf(d)] = NoCoreFile]
  /\ InstallMoves(d, "installed")
  /\ OutsideDownload /\ UNCHANGED <<archives, corePath, bakPath, cores>>

RemoveCoreArchive(d) ==
  /\ InstallAt(d, "installed")
  /\ archives' = [archives EXCEPT ![ReleaseOf(d)] = NoArchive]
  /\ InstallIsOver(d)
  /\ OutsideDownload /\ UNCHANGED <<extracted, corePath, bakPath, cores>>

(* CancelCoreDownload, or the client closes the connection. *)
CancelCoreDownload(d) ==
  /\ install[d].at \in {"requested", "receiving", "received", "extracting", "extracted"}
  /\ ~install[d].dropped /\ install' = [install EXCEPT ![d].dropped = TRUE]
  /\ OutsideDownload /\ UNCHANGED diskOfCores

-----------------------------------------------------------------------------
(* RollbackCore *)

OutsideRollback == UNCHANGED <<archives, extracted, cores, install, kills>>

RollbackCore(r) ==
  /\ RollbackAt(r, "none") /\ MayCall /\ Runnable(bakPath)
  /\ RollbackMoves(r, "checked")
  /\ OutsideRollback /\ UNCHANGED <<corePath, bakPath, holder>>

(* runWithCoreRestartIfCurrent: the core runs, or it does not (Kernel).          *)
EnterRollback(r) ==
  /\ RollbackAt(r, "checked")
  /\ RollbackMoves(r, "waiting") \/ RollbackMoves(r, "begun")
  /\ OutsideRollback /\ UNCHANGED <<corePath, bakPath, holder>>

LockForRollback(r) ==
  /\ RollbackAt(r, "waiting") /\ holder = NoCall
  /\ holder' = r /\ RollbackMoves(r, "locked")
  /\ OutsideRollback /\ UNCHANGED <<corePath, bakPath>>

(* Mutant: the check before the wait will do. *)
PrepareUnchecked(r) ==
  /\ RollbackAt(r, "locked")
  /\ RollbackMoves(r, "begun")
  /\ OutsideRollback /\ UNCHANGED <<corePath, bakPath, holder>>

(* prepareCoreStart checks the backup once more; then the core is stopped.       *)
PrepareRollback(r) ==
  /\ RollbackAt(r, "locked") /\ Runnable(bakPath)
  /\ RollbackMoves(r, "begun")
  /\ OutsideRollback /\ UNCHANGED <<corePath, bakPath, holder>>

StatBackup(r) ==
  /\ RollbackAt(r, "begun") /\ bakPath # NoCoreFile
  /\ RollbackMoves(r, "removing")
  /\ OutsideRollback /\ UNCHANGED <<corePath, bakPath, holder>>

(* A failure is ignored. *)
RemoveCore(r) ==
  /\ RollbackAt(r, "removing")
  /\ corePath' \in {corePath, NoCoreFile}
  /\ RollbackMoves(r, "renaming")
  /\ OutsideRollback /\ UNCHANGED <<bakPath, holder>>

RenameBackup(r) ==
  /\ RollbackAt(r, "renaming") /\ bakPath # NoCoreFile
  /\ corePath' = bakPath /\ bakPath' = NoCoreFile
  /\ RollbackMoves(r, IF holder = r THEN "renamed" ELSE "over")
  /\ OutsideRollback /\ UNCHANGED holder

(* The core is started again, if it can be. *)
StartRolledBack(r) ==
  /\ RollbackAt(r, "renamed")
  /\ holder' = NoCall /\ RollbackMoves(r, "over")
  /\ OutsideRollback /\ UNCHANGED <<corePath, bakPath>>

(* Mutant: a failed rollback keeps the mutex. *)
RollbackFailsLocked(r) ==
  /\ rollback[r] \notin {"none", "renamed", "over"}
  /\ RollbackMoves(r, "over")
  /\ OutsideRollback /\ UNCHANGED <<corePath, bakPath, holder>>

(* A check or a stop fails, or the backup is missing or cannot be renamed.      *)
RollbackFails(r) ==
  /\ rollback[r] \notin {"none", "renamed", "over"}
  /\ RollbackMoves(r, "over")
  /\ holder' = IF holder = r THEN NoCall ELSE holder
  /\ OutsideRollback /\ UNCHANGED <<corePath, bakPath>>

(* A kill, or a shutdown that has waited for the calls as long as it may.       *)
ProcessEnds ==
  /\ kills < MaxKills /\ kills' = kills + 1
  /\ install' = [d \in CoreDownloads |->
                   IF InstallAt(d, "none") THEN install[d] ELSE NoInstall("over")]
  /\ rollback' = [r \in Rollbacks |-> IF RollbackAt(r, "none") THEN "none" ELSE "over"]
  /\ holder' = NoCall
  /\ UNCHANGED diskOfCores

CoreFilesInit ==
  /\ archives = [v \in Releases |-> NoArchive]
  /\ extracted = [v \in Releases |-> NoCoreFile]
  /\ corePath \in {NoCoreFile, Current} /\ bakPath \in {NoCoreFile, Older}
  /\ corePath = NoCoreFile => bakPath = NoCoreFile
  /\ \E now, before \in Releases :
       /\ corePath = NoCoreFile => now = MinimumCoreVersion
       /\ bakPath = NoCoreFile => before = now
       /\ cores = [file \in CoreFileIds |->
                     [version |-> IF file = Older THEN before ELSE now, writer |-> NoCall]]
  /\ install = [d \in CoreDownloads |-> NoInstall("none")]
  /\ rollback = [r \in Rollbacks |-> "none"]
  /\ holder = NoCall
  /\ kills = 0 /\ crossed = FALSE

InstallStep(d) ==
  \/ CreateArchive(d) \/ ReceiveEnds(d) \/ CoreDownloadFails(d)
  \/ OpenExtracted(d) \/ ExtractEnds(d) \/ ExtractFails(d)
  \/ CheckExtracted(d) \/ InstallFails(d) \/ RemoveOldBackup(d) \/ MoveAside(d)
  \/ PlaceCore(d) \/ PlacingCoreFails(d) \/ InstallEnds(d) \/ RemoveCoreArchive(d)

RollbackStep(r) ==
  \/ EnterRollback(r) \/ LockForRollback(r) \/ PrepareRollback(r)
  \/ StatBackup(r) \/ RemoveCore(r) \/ RenameBackup(r) \/ StartRolledBack(r) \/ RollbackFails(r)

(* Two calls replace the core at once; one truncates what another has extracted  *)
(* and not yet moved; or one removes the backup that is all that another, broken *)
(* off, has left.                                                             *)
Crosses ==
  \/ \E b, c \in Replacing' : b # c
  \/ \E d, e \in CoreDownloads :
       /\ d # e /\ ReleaseOf(d) = ReleaseOf(e)
       /\ InstallAt(d, "received") /\ InstallAt(d, "extracting")'
       /\ install[e].at \in {"extracting", "extracted", "checked", "unbacked", "aside"}
  \/ corePath = NoCoreFile /\ bakPath # NoCoreFile /\ {corePath', bakPath'} = {NoCoreFile}

CoreFilesNext ==
  /\ \/ \E d \in CoreDownloads : DownloadCore(d) \/ InstallStep(d) \/ CancelCoreDownload(d)
     \/ \E r \in Rollbacks : RollbackCore(r) \/ RollbackStep(r)
     \/ ProcessEnds
  /\ crossed' = (crossed \/ Crosses)

CoreFilesSpec == CoreFilesInit /\ [][CoreFilesNext]_coreFilesVars

-----------------------------------------------------------------------------
(* Properties *)

(* The values every variable keeps to.  No two names are of one file, and        *)
(* whoever holds restartOperationMu is at work.                                *)
CoreFilesTypeOK ==
  /\ archives \in [Releases -> [by: CoreDownloads \cup {NoCall}, whole: BOOLEAN]]
  /\ cores \in [CoreFileIds -> [version: Releases, writer: CoreDownloads \cup {NoCall}]]
  /\ {corePath, bakPath} \subseteq CoreFileIds \cup {NoCoreFile}
  /\ corePath = bakPath => corePath = NoCoreFile
  /\ \A v \in Releases : extracted[v] \in (CoreDownloads \cup {NoCoreFile}) \ ({corePath, bakPath} \ {NoCoreFile})
  /\ holder = NoCall \/ rollback[holder] \in {"locked", "begun", "removing", "renaming", "renamed"}

Broken == 0 - 1
HeldBy(file) ==
  IF file = NoCoreFile THEN NoCoreFile
  ELSE IF Whole(file) THEN cores[file].version ELSE Broken

(* What is left of a core that is being replaced is its backup.                 *)
InstalledCore == IF corePath # NoCoreFile THEN HeldBy(corePath) ELSE HeldBy(bakPath)
PreviousCore == IF corePath # NoCoreFile THEN HeldBy(bakPath) ELSE NoCoreFile

Branch == INSTANCE Installation WITH
  Versions <- Releases, None <- NoCoreFile, Works <- Supported,
  installed <- InstalledCore, previous <- PreviousCore

(* Whatever is cancelled, fails or is killed, and whoever downloads meanwhile:    *)
(* as long as calls have not crossed, the files of the core are those of         *)
(* Installation.  The installed core is replaced by one that works, or stays,    *)
(* at its place or as the backup.                                             *)
ImplementsInstallation ==
  /\ Branch!InstallationInit
  /\ [][crossed' \/ [Branch!InstallationNext]_<<InstalledCore, PreviousCore>>]_coreFilesVars
=============================================================================
