----------------------------- MODULE AppUpdate -----------------------------
(***************************************************************************)
(* The update of the application itself: downloads of the archive by the    *)
(* backend, and the helper process that waits for the backend and its core   *)
(* to be gone, replaces the executable and starts it again.                  *)
(*                                                                         *)
(* Open files are those of a POSIX system: what is removed or renamed stays  *)
(* readable to whoever has it open.  There is one release to update to.  Each *)
(* download has a progress event of its own, as the page gives it.  Left     *)
(* out: the release query, progress, and a shutdown that runs out of time.   *)
(***************************************************************************)
EXTENDS Naturals, FiniteSets

CONSTANTS
  Downloads    \* the downloads the users ask for

ASSUME AppUpdateAssumption == Downloads \subseteq Nat \ {0}

VARIABLES
  archive,     \* the cache file: which download opened it last, and whether it is whole
  download,    \* download[d]: how far it is
  cancelled,   \* the downloads whose context was cancelled
  updated,     \* updatedVersion, in the memory of the backend
  backend,     \* the backend process that was started last
  running,     \* the version that process is of
  core,        \* whether a core process of the application is alive
  lock,        \* who holds data/backend.lock
  target,      \* the executable
  backup,      \* the executable, renamed
  helper,      \* how far the helper is
  serviceMode,
  parentGone,  \* whether the backend that launched the helper has exited
  mishap       \* the update under way met a failure, a kill or another request

backendVars == <<updated, backend, running, core>>
downloadVars == <<archive, download, cancelled>>
appUpdateVars ==
  <<downloadVars, backendVars, lock, target, backup, helper, serviceMode, parentGone, mishap>>

-----------------------------------------------------------------------------
NoFile == [by |-> 0, whole |-> FALSE]
FileExists == archive # NoFile
Opened(d) == [by |-> d, whole |-> FALSE]

Serving == backend \in {"running", "closing"}
UnderWay == {d \in Downloads : download[d] \in {"registered", "cleared", "answered", "writing"}}

(* Before the helper, while it waits, and while it works on the files. *)
Waiting == {"stopping", "parent", "locking"}
Working == {"core", "extract", "replace", "renamed", "placed", "tidy"}
Over == {"none", "done", "failed", "killed"}

-----------------------------------------------------------------------------
(* Downloads.  fetchLatestAsset has answered when one is registered.          *)

At(d, phase) == Serving /\ download[d] = phase
Moves(d, phase) == download' = [download EXCEPT ![d] = phase]

(* What a request does while an update is under way disturbs it. *)
Disturbs == mishap' = TRUE

RegisterDownload(d) ==
  /\ At(d, "none") /\ Moves(d, "registered") /\ Disturbs
  /\ UNCHANGED <<archive, cancelled, backendVars, lock, target, backup, helper, serviceMode, parentGone>>

ClearArchive(d) ==
  /\ At(d, "registered") /\ Moves(d, "cleared")
  /\ archive' = NoFile
  /\ UNCHANGED <<cancelled, backendVars, lock, target, backup, helper, serviceMode, parentGone, mishap>>

GetAsset(d) ==
  /\ At(d, "cleared") /\ d \notin cancelled /\ Moves(d, "answered")
  /\ UNCHANGED <<archive, cancelled, backendVars, lock, target, backup, helper, serviceMode, parentGone, mishap>>

(* os.Create truncates the file that is there, even one that another download  *)
(* writes: what that one has written is lost, and only the last to open the    *)
(* file writes all of it.                                                     *)
OpenArchive(d) ==
  /\ At(d, "answered") /\ Moves(d, "writing")
  /\ archive' = Opened(d)
  /\ UNCHANGED <<cancelled, backendVars, lock, target, backup, helper, serviceMode, parentGone, mishap>>

DownloadSucceeds(d) ==
  /\ At(d, "writing") /\ Moves(d, "over")
  /\ archive' = IF archive.by = d THEN [archive EXCEPT !.whole = TRUE] ELSE archive
  /\ updated' = "new"
  /\ UNCHANGED <<cancelled, backend, running, core, lock, target, backup, helper, serviceMode, parentGone, mishap>>

(* Mutant: the unfinished file stays. *)
FailsAndLeaves(d) ==
  /\ At(d, "cleared") \/ At(d, "answered") \/ At(d, "writing")
  /\ Moves(d, "over")
  /\ UNCHANGED <<archive, cancelled, backendVars, lock, target, backup, helper, serviceMode, parentGone, mishap>>

(* Cancelled, cut off or out of space: the file of that name is removed, whose  *)
(* ever it is.                                                                *)
DownloadFails(d) ==
  /\ At(d, "cleared") \/ At(d, "answered") \/ At(d, "writing")
  /\ Moves(d, "over")
  /\ archive' = NoFile
  /\ UNCHANGED <<cancelled, backendVars, lock, target, backup, helper, serviceMode, parentGone, mishap>>

(* Only a registered download has a context to cancel; the file goes anyway.   *)
CancelDownload(d) ==
  /\ Serving /\ d \in UnderWay
  /\ cancelled' = cancelled \cup {d}
  /\ UNCHANGED <<archive, download, backendVars, lock, target, backup, helper, serviceMode, parentGone, mishap>>

RemoveArchive ==
  /\ Serving /\ FileExists
  /\ archive' = NoFile /\ Disturbs
  /\ UNCHANGED <<download, cancelled, backendVars, lock, target, backup, helper, serviceMode, parentGone>>

(* The versions differ and the file exists: what CheckAppUpdate reports. *)
DownloadedUpdateAvailable == running # updated /\ FileExists

(* A helper that still runs cannot be overwritten by the next one's copy.      *)
ApplyAppUpdate ==
  /\ Serving /\ DownloadedUpdateAvailable /\ helper \in Over
  /\ helper' = IF serviceMode THEN "stopping" ELSE "parent"
  /\ backend' = IF serviceMode THEN backend ELSE "closing"
  /\ parentGone' = FALSE
  /\ mishap' = (UnderWay # {})
  /\ UNCHANGED <<downloadVars, updated, running, core, lock, target, backup, serviceMode>>

-----------------------------------------------------------------------------
(* The backend process *)

(* Service managers and users stop the backend, too. *)
StopBackend ==
  /\ backend = "running" /\ backend' = "closing"
  /\ UNCHANGED <<downloadVars, updated, running, core, lock, target, backup, helper, serviceMode, parentGone, mishap>>

CoreStarts ==
  /\ backend = "running" /\ ~core /\ core' = TRUE
  /\ UNCHANGED <<downloadVars, updated, backend, running, lock, target, backup, helper, serviceMode, parentGone, mishap>>

(* Ended by the shutdown, or by its guard once the backend is gone. *)
CoreEnds ==
  /\ core /\ backend # "running" /\ core' = FALSE
  /\ UNCHANGED <<downloadVars, updated, backend, running, lock, target, backup, helper, serviceMode, parentGone, mishap>>

(* Application.close: the requests have been cancelled and waited for. *)
ReleaseInstanceLock ==
  /\ backend = "closing" /\ UnderWay = {}
  /\ backend' = "exiting" /\ lock' = "none"
  /\ UNCHANGED <<downloadVars, updated, running, core, target, backup, helper, serviceMode, parentGone, mishap>>

EndOfBackend(how) ==
  /\ backend' = "gone"
  /\ parentGone' = TRUE
  /\ lock' = IF lock = "backend" THEN "none" ELSE lock
  /\ download' = [d \in Downloads |-> IF d \in UnderWay THEN "over" ELSE download[d]]
  /\ mishap' = (mishap \/ how = "crash")
  /\ UNCHANGED <<archive, cancelled, updated, running, core, target, backup, helper, serviceMode>>

BackendExits == backend = "exiting" /\ EndOfBackend("exit")
BackendCrashes == Serving /\ EndOfBackend("crash")

(* NewApplication needs backend.lock; what was downloaded is forgotten. *)
Started ==
  /\ backend' = "running" /\ lock' = "backend"
  /\ running' = target /\ updated' = target
  /\ UNCHANGED <<downloadVars, core, target, backup, serviceMode, parentGone>>

UserStarts ==
  /\ backend = "gone" /\ target # "none" /\ lock = "none"
  /\ Started /\ Disturbs
  /\ UNCHANGED helper

-----------------------------------------------------------------------------
(* RunHelper *)

HelperAt(phase, next) == helper = phase /\ helper' = next

(* Any step may fail, the waits by running out of time; nobody starts the      *)
(* application then.  A held lock is a failure at once.                       *)
HelperFails ==
  /\ helper \notin Over
  /\ helper' \in {"failed", "killed"} /\ Disturbs
  /\ lock' = IF lock = "helper" THEN "none" ELSE lock
  /\ UNCHANGED <<downloadVars, backendVars, target, backup, serviceMode, parentGone>>

StopService ==
  /\ HelperAt("stopping", "parent")
  /\ backend' = IF backend = "running" THEN "closing" ELSE backend
  /\ UNCHANGED <<downloadVars, updated, running, core, lock, target, backup, serviceMode, parentGone, mishap>>

WaitForUpdateParent ==
  /\ parentGone /\ HelperAt("parent", "locking")
  /\ UNCHANGED <<downloadVars, backendVars, lock, target, backup, serviceMode, parentGone, mishap>>

(* Mutant: a held lock is no obstacle. *)
LockAnyway ==
  /\ HelperAt("locking", "core")
  /\ lock' = "helper"
  /\ UNCHANGED <<downloadVars, backendVars, target, backup, serviceMode, parentGone, mishap>>

AcquireUpdateLock ==
  /\ lock = "none" /\ HelperAt("locking", "core")
  /\ lock' = "helper"
  /\ UNCHANGED <<downloadVars, backendVars, target, backup, serviceMode, parentGone, mishap>>

(* Mutant: the core is not waited for. *)
CoreIsNotAwaited ==
  /\ HelperAt("core", "extract")
  /\ UNCHANGED <<downloadVars, backendVars, lock, target, backup, serviceMode, parentGone, mishap>>

WaitForUpdateCore ==
  /\ ~core /\ HelperAt("core", "extract")
  /\ UNCHANGED <<downloadVars, backendVars, lock, target, backup, serviceMode, parentGone, mishap>>

(* A file that is not whole is no archive. *)
ExtractUpdateArchive ==
  /\ archive.whole /\ HelperAt("extract", "replace")
  /\ UNCHANGED <<downloadVars, backendVars, lock, target, backup, serviceMode, parentGone, mishap>>

(* Mutant: the target is removed to make room. *)
RemoveTarget ==
  /\ HelperAt("replace", "renamed")
  /\ target' = "none"
  /\ UNCHANGED <<downloadVars, backendVars, lock, backup, serviceMode, parentGone, mishap>>

(* replacePath: the old backup goes, the target becomes the backup ... *)
RenameTarget ==
  /\ HelperAt("replace", "renamed")
  /\ backup' = target /\ target' = "none"
  /\ UNCHANGED <<downloadVars, backendVars, lock, serviceMode, parentGone, mishap>>

(* ... the new executable the target ... *)
PlaceNew ==
  /\ HelperAt("renamed", "placed")
  /\ target' = "new"
  /\ UNCHANGED <<downloadVars, backendVars, lock, backup, serviceMode, parentGone, mishap>>

(* ... or, when that fails, the backup the target again, if that succeeds. *)
PlacingFails ==
  /\ HelperAt("renamed", "failed") /\ Disturbs
  /\ lock' = "none"
  /\ \/ target' = backup /\ backup' = "none"
     \/ UNCHANGED <<target, backup>>
  /\ UNCHANGED <<downloadVars, backendVars, serviceMode, parentGone>>

RemoveBackup ==
  /\ HelperAt("placed", "tidy")
  /\ backup' = "none"
  /\ UNCHANGED <<downloadVars, backendVars, lock, target, serviceMode, parentGone, mishap>>

(* Mutant: the lock is only released when the helper ends. *)
KeepUpdateLock ==
  /\ HelperAt("tidy", "unlocked")
  /\ archive' = NoFile
  /\ UNCHANGED <<download, cancelled, backendVars, lock, target, backup, serviceMode, parentGone, mishap>>

ReleaseUpdateLock ==
  /\ HelperAt("tidy", "unlocked")
  /\ archive' = NoFile
  /\ lock' = "none"
  /\ UNCHANGED <<download, cancelled, backendVars, target, backup, serviceMode, parentGone, mishap>>

(* The application that is started ends at once if a user's holds the lock.    *)
StartUpdatedApplication ==
  /\ HelperAt("unlocked", "done")
  /\ IF lock = "none" /\ backend = "gone" THEN Started ELSE UNCHANGED <<downloadVars, backendVars, lock, target, backup, serviceMode, parentGone>>
  /\ UNCHANGED mishap

-----------------------------------------------------------------------------
AppUpdateInit ==
  /\ archive = NoFile
  /\ download = [d \in Downloads |-> "none"]
  /\ cancelled = {}
  /\ updated = "old" /\ backend = "running" /\ running = "old" /\ core = FALSE
  /\ lock = "backend"
  /\ target = "old" /\ backup = "none"
  /\ helper = "none"
  /\ serviceMode \in BOOLEAN
  /\ parentGone = FALSE
  /\ mishap = FALSE

HelperSteps ==
  \/ StopService \/ WaitForUpdateParent \/ AcquireUpdateLock \/ WaitForUpdateCore
  \/ ExtractUpdateArchive \/ RenameTarget \/ PlaceNew \/ RemoveBackup
  \/ ReleaseUpdateLock \/ StartUpdatedApplication

BackendSteps == ReleaseInstanceLock \/ BackendExits

DownloadEnds(d) == DownloadSucceeds(d) \/ DownloadFails(d)

AppUpdateNext ==
  \/ \E d \in Downloads :
       \/ RegisterDownload(d) \/ ClearArchive(d) \/ GetAsset(d) \/ OpenArchive(d)
       \/ DownloadEnds(d) \/ CancelDownload(d)
  \/ RemoveArchive \/ ApplyAppUpdate
  \/ StopBackend \/ CoreStarts \/ CoreEnds \/ BackendSteps \/ BackendCrashes \/ UserStarts
  \/ HelperSteps \/ PlacingFails \/ HelperFails

AppUpdateSpec == AppUpdateInit /\ [][AppUpdateNext]_appUpdateVars

-----------------------------------------------------------------------------
(* Properties *)

(* The values every variable keeps to.                                        *)
AppUpdateTypeOK ==
  /\ archive \in [by: Downloads, whole: BOOLEAN] \cup {NoFile}
  /\ download \in [Downloads -> {"none", "registered", "cleared", "answered", "writing", "over"}]
  /\ cancelled \subseteq Downloads
  /\ updated \in {"old", "new"} /\ running \in {"old", "new"}
  /\ backend \in {"running", "closing", "exiting", "gone"}
  /\ core \in BOOLEAN
  /\ lock \in {"none", "backend", "helper"}
  /\ target \in {"none", "old", "new"} /\ backup \in {"none", "old", "new"}
  /\ helper \in Over \cup Waiting \cup Working \cup {"unlocked"}
  /\ serviceMode \in BOOLEAN /\ parentGone \in BOOLEAN /\ mishap \in BOOLEAN

(* However the helper fails or is killed, an executable is on the disk, and the *)
(* one that can be started is missing only if it ended between the renames.    *)
ExecutableSurvives ==
  /\ target # "none" \/ backup # "none"
  /\ target = "none" => helper \in {"renamed", "failed", "killed"}

(* The files are replaced while no backend serves and no core runs: the one     *)
(* that asked for the update is gone, and none started since has got the lock.  *)
ReplacedAlone ==
  helper \in Working \ {"core"} => backend \in {"exiting", "gone"} /\ ~core /\ lock = "helper"

(* From the time the helper has the lock nobody else touches the archive.      *)
ArchiveIsTheHelpers ==
  [][(helper \in Working /\ archive' # archive => helper' = "unlocked")]_appUpdateVars

(* An update that is reported as available, while no download is under way, is  *)
(* whole, however downloads, failures and cancellations overlapped before.     *)
AvailableIsWhole ==
  DownloadedUpdateAvailable /\ Serving /\ UnderWay = {} => archive.whole

(* An update that was applied ends with the new version started, if nothing     *)
(* fails and nobody interferes.                                               *)
UpdateEnds ==
  []<>(helper = "none" \/ running = "new" \/ mishap)
=============================================================================
