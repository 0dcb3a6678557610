-------------------------- MODULE AppUpdateProofs --------------------------
(***************************************************************************)
(* Proofs about AppUpdate, for any number of downloads: the types, whom the *)
(* lock protects, that an executable survives, and that what is reported as  *)
(* available is whole.                                                     *)
(*                                                                         *)
(* Everything about the helper rests on LockHolds: the lock is the          *)
(* backend's exactly while it serves and the helper's exactly while it      *)
(* works, so that each excludes the other.                                  *)
(***************************************************************************)
EXTENDS AppUpdate, TLAPS

-----------------------------------------------------------------------------
(* data/backend.lock is held by the backend while it serves and by the helper   *)
(* while it works on the files, and by nobody else.                            *)
LockHolds ==
  /\ lock = "backend" <=> Serving
  /\ lock = "helper" <=> helper \in Working

(* Initially the backend serves and holds the lock.                           *)
LEMMA LockInit == AppUpdateInit => LockHolds
  BY DEF AppUpdateInit, LockHolds, Serving, Working

(* Every step of a backend, a user or the helper keeps LockHolds.             *)
LEMMA LockStep == LockHolds /\ [AppUpdateNext]_appUpdateVars => LockHolds'
<1> SUFFICES ASSUME LockHolds, [AppUpdateNext]_appUpdateVars PROVE LockHolds'
  OBVIOUS
<1> USE DEF LockHolds
<1>1. QED
  <2>1. ASSUME NEW d \in Downloads, RegisterDownload(d) PROVE LockHolds'
    BY <2>1 DEF RegisterDownload, At, Serving, Moves, Disturbs, backendVars, Working, Over
  <2>2. ASSUME NEW d \in Downloads, ClearArchive(d) PROVE LockHolds'
    BY <2>2 DEF ClearArchive, At, Serving, Moves, NoFile, backendVars, Working, Over
  <2>3. ASSUME NEW d \in Downloads, GetAsset(d) PROVE LockHolds'
    BY <2>3 DEF GetAsset, At, Serving, Moves, backendVars, Working, Over
  <2>4. ASSUME NEW d \in Downloads, OpenArchive(d) PROVE LockHolds'
    BY <2>4 DEF OpenArchive, At, Serving, Moves, Opened, backendVars, Working, Over
  <2>5. ASSUME NEW d \in Downloads, DownloadSucceeds(d) PROVE LockHolds'
    BY <2>5 DEF DownloadSucceeds, At, Serving, Moves, Working, Over
  <2>6. ASSUME NEW d \in Downloads, DownloadFails(d) PROVE LockHolds'
    BY <2>6 DEF DownloadFails, At, Serving, Moves, NoFile, backendVars, Working, Over
  <2>7. ASSUME NEW d \in Downloads, CancelDownload(d) PROVE LockHolds'
    BY <2>7 DEF CancelDownload, Serving, UnderWay, backendVars, Working, Over
  <2>8. CASE RemoveArchive
    BY <2>8 DEF RemoveArchive, Serving, FileExists, NoFile, Disturbs, backendVars,
       Working, Over
  <2>9. CASE ApplyAppUpdate
    BY <2>9 DEF ApplyAppUpdate, Serving, DownloadedUpdateAvailable, FileExists, NoFile,
       Over, UnderWay, downloadVars, Working
  <2>10. CASE StopBackend
    BY <2>10 DEF StopBackend, downloadVars, Serving, Working, Over
  <2>11. CASE CoreStarts
    BY <2>11 DEF CoreStarts, downloadVars, Serving, Working, Over
  <2>12. CASE CoreEnds
    BY <2>12 DEF CoreEnds, downloadVars, Serving, Working, Over
  <2>13. CASE ReleaseInstanceLock
    BY <2>13 DEF ReleaseInstanceLock, UnderWay, downloadVars, Serving, Working, Over
  <2>14. CASE BackendExits
    BY <2>14 DEF BackendExits, EndOfBackend, UnderWay, Serving, Working, Over
  <2>15. CASE BackendCrashes
    BY <2>15 DEF BackendCrashes, Serving, EndOfBackend, UnderWay, Working, Over
  <2>16. CASE UserStarts
    BY <2>16 DEF UserStarts, Started, downloadVars, Disturbs, Serving, Working, Over
  <2>17. CASE StopService
    BY <2>17 DEF StopService, HelperAt, downloadVars, Serving, Working, Over
  <2>18. CASE WaitForUpdateParent
    BY <2>18 DEF WaitForUpdateParent, HelperAt, downloadVars, backendVars, Serving,
       Working, Over
  <2>19. CASE AcquireUpdateLock
    BY <2>19 DEF AcquireUpdateLock, HelperAt, downloadVars, backendVars, Serving,
       Working, Over
  <2>20. CASE WaitForUpdateCore
    BY <2>20 DEF WaitForUpdateCore, HelperAt, downloadVars, backendVars, Serving,
       Working, Over
  <2>21. CASE ExtractUpdateArchive
    BY <2>21 DEF ExtractUpdateArchive, HelperAt, downloadVars, backendVars, Serving,
       Working, Over
  <2>22. CASE RenameTarget
    BY <2>22 DEF RenameTarget, HelperAt, downloadVars, backendVars, Serving, Working, Over
  <2>23. CASE PlaceNew
    BY <2>23 DEF PlaceNew, HelperAt, downloadVars, backendVars, Serving, Working, Over
  <2>24. CASE RemoveBackup
    BY <2>24 DEF RemoveBackup, HelperAt, downloadVars, backendVars, Serving, Working, Over
  <2>25. CASE ReleaseUpdateLock
    BY <2>25 DEF ReleaseUpdateLock, HelperAt, NoFile, backendVars, Serving, Working, Over
  <2>26. CASE StartUpdatedApplication
    BY <2>26 DEF StartUpdatedApplication, HelperAt, Started, downloadVars, backendVars,
       Serving, Working, Over
  <2>27. CASE PlacingFails
    BY <2>27 DEF PlacingFails, HelperAt, Disturbs, downloadVars, backendVars, Serving,
       Working, Over
  <2>28. CASE HelperFails
    BY <2>28 DEF HelperFails, Over, Disturbs, downloadVars, backendVars, Serving, Working
  <2>29. CASE UNCHANGED appUpdateVars
    BY <2>29 DEF appUpdateVars, downloadVars, backendVars, Serving, Working, Over
  <2>. QED
    BY <2>1, <2>2, <2>3, <2>4, <2>5, <2>6, <2>7, <2>8, <2>9, <2>10, <2>11, <2>12, <2>13,
       <2>14,
       <2>15, <2>16, <2>17, <2>18, <2>19, <2>20, <2>21, <2>22, <2>23, <2>24, <2>25, <2>26, <2>27,
       <2>28, <2>29 DEF AppUpdateNext, DownloadEnds, BackendSteps, HelperSteps

(* data/backend.lock is whose the model says it is, in every state.           *)
THEOREM LockIsHeld == AppUpdateSpec => []LockHolds
  BY LockInit, LockStep, PTL DEF AppUpdateSpec

-----------------------------------------------------------------------------
(* When the executable is missing its backup is there, the helper is between    *)
(* the renames or ended there, and nobody serves: an application cannot be       *)
(* started without its executable, so no update is applied either.              *)
FilesSurvive ==
  /\ target = "none" => /\ backup # "none"
                        /\ helper \in {"renamed", "failed", "killed"}
                        /\ ~Serving
  /\ helper = "renamed" => backup # "none"

(* No step of the helper, and no end of it, loses the last executable.        *)
LEMMA FilesStep ==
  LockHolds /\ FilesSurvive /\ [AppUpdateNext]_appUpdateVars => FilesSurvive'
<1> SUFFICES ASSUME LockHolds, FilesSurvive, [AppUpdateNext]_appUpdateVars
             PROVE  FilesSurvive'
  OBVIOUS
<1> USE DEF LockHolds, FilesSurvive
<1>1. QED
  <2>1. ASSUME NEW d \in Downloads, RegisterDownload(d) PROVE FilesSurvive'
    BY <2>1 DEF RegisterDownload, At, Serving, Moves, Disturbs, backendVars, Working,
       Over, Waiting
  <2>2. ASSUME NEW d \in Downloads, ClearArchive(d) PROVE FilesSurvive'
    BY <2>2 DEF ClearArchive, At, Serving, Moves, NoFile, backendVars, Working, Over,
       Waiting
  <2>3. ASSUME NEW d \in Downloads, GetAsset(d) PROVE FilesSurvive'
    BY <2>3 DEF GetAsset, At, Serving, Moves, backendVars, Working, Over, Waiting
  <2>4. ASSUME NEW d \in Downloads, OpenArchive(d) PROVE FilesSurvive'
    BY <2>4 DEF OpenArchive, At, Serving, Moves, Opened, backendVars, Working, Over,
       Waiting
  <2>5. ASSUME NEW d \in Downloads, DownloadSucceeds(d) PROVE FilesSurvive'
    BY <2>5 DEF DownloadSucceeds, At, Serving, Moves, Working, Over, Waiting
  <2>6. ASSUME NEW d \in Downloads, DownloadFails(d) PROVE FilesSurvive'
    BY <2>6 DEF DownloadFails, At, Serving, Moves, NoFile, backendVars, Working, Over,
       Waiting
  <2>7. ASSUME NEW d \in Downloads, CancelDownload(d) PROVE FilesSurvive'
    BY <2>7 DEF CancelDownload, Serving, UnderWay, backendVars, Working, Over, Waiting
  <2>8. CASE RemoveArchive
    BY <2>8 DEF RemoveArchive, Serving, FileExists, NoFile, Disturbs, backendVars,
       Working, Over, Waiting
  <2>9. CASE ApplyAppUpdate
    BY <2>9 DEF ApplyAppUpdate, Serving, DownloadedUpdateAvailable, FileExists, NoFile,
       Over, UnderWay, downloadVars, Working, Waiting
  <2>10. CASE StopBackend
    BY <2>10 DEF StopBackend, downloadVars, Serving, Working, Over, Waiting
  <2>11. CASE CoreStarts
    BY <2>11 DEF CoreStarts, downloadVars, Serving, Working, Over, Waiting
  <2>12. CASE CoreEnds
    BY <2>12 DEF CoreEnds, downloadVars, Serving, Working, Over, Waiting
  <2>13. CASE ReleaseInstanceLock
    BY <2>13 DEF ReleaseInstanceLock, UnderWay, downloadVars, Serving, Working, Over,
       Waiting
  <2>14. CASE BackendExits
    BY <2>14 DEF BackendExits, EndOfBackend, UnderWay, Serving, Working, Over, Waiting
  <2>15. CASE BackendCrashes
    BY <2>15 DEF BackendCrashes, Serving, EndOfBackend, UnderWay, Working, Over, Waiting
  <2>16. CASE UserStarts
    BY <2>16 DEF UserStarts, Started, downloadVars, Disturbs, Serving, Working, Over,
       Waiting
  <2>17. CASE StopService
    BY <2>17 DEF StopService, HelperAt, downloadVars, Serving, Working, Over, Waiting
  <2>18. CASE WaitForUpdateParent
    BY <2>18 DEF WaitForUpdateParent, HelperAt, downloadVars, backendVars, Serving,
       Working, Over, Waiting
  <2>19. CASE AcquireUpdateLock
    BY <2>19 DEF AcquireUpdateLock, HelperAt, downloadVars, backendVars, Serving,
       Working, Over, Waiting
  <2>20. CASE WaitForUpdateCore
    BY <2>20 DEF WaitForUpdateCore, HelperAt, downloadVars, backendVars, Serving,
       Working, Over, Waiting
  <2>21. CASE ExtractUpdateArchive
    BY <2>21 DEF ExtractUpdateArchive, HelperAt, downloadVars, backendVars, Serving,
       Working, Over, Waiting
  <2>22. CASE RenameTarget
    BY <2>22 DEF RenameTarget, HelperAt, downloadVars, backendVars, Serving, Working,
       Over, Waiting
  <2>23. CASE PlaceNew
    BY <2>23 DEF PlaceNew, HelperAt, downloadVars, backendVars, Serving, Working, Over,
       Waiting
  <2>24. CASE RemoveBackup
    BY <2>24 DEF RemoveBackup, HelperAt, downloadVars, backendVars, Serving, Working,
       Over, Waiting
  <2>25. CASE ReleaseUpdateLock
    BY <2>25 DEF ReleaseUpdateLock, HelperAt, NoFile, backendVars, Serving, Working,
       Over, Waiting
  <2>26. CASE StartUpdatedApplication
    BY <2>26 DEF StartUpdatedApplication, HelperAt, Started, downloadVars, backendVars,
       Serving, Working, Over, Waiting
  <2>27. CASE PlacingFails
    BY <2>27 DEF PlacingFails, HelperAt, Disturbs, downloadVars, backendVars, Serving,
       Working, Over, Waiting
  <2>28. CASE HelperFails
    BY <2>28 DEF HelperFails, Over, Disturbs, downloadVars, backendVars, Serving,
       Working, Waiting
  <2>29. CASE UNCHANGED appUpdateVars
    BY <2>29 DEF appUpdateVars, downloadVars, backendVars, Serving, Working, Over, Waiting
  <2>. QED
    BY <2>1, <2>2, <2>3, <2>4, <2>5, <2>6, <2>7, <2>8, <2>9, <2>10, <2>11, <2>12, <2>13,
       <2>14,
       <2>15, <2>16, <2>17, <2>18, <2>19, <2>20, <2>21, <2>22, <2>23, <2>24, <2>25, <2>26, <2>27,
       <2>28, <2>29 DEF AppUpdateNext, DownloadEnds, BackendSteps, HelperSteps

(* Whenever the executable is missing, its backup is there.                   *)
THEOREM FilesAreThere == AppUpdateSpec => []FilesSurvive
<1>1. AppUpdateInit => FilesSurvive
  BY DEF AppUpdateInit, FilesSurvive
<1>. QED BY <1>1, FilesStep, LockIsHeld, PTL DEF AppUpdateSpec

(* However the helper ends, an executable is left on the disk.                  *)
THEOREM AnExecutableSurvives == AppUpdateSpec => []ExecutableSurvives
<1>1. FilesSurvive => ExecutableSurvives
  BY DEF FilesSurvive, ExecutableSurvives
<1>. QED BY <1>1, FilesAreThere, PTL

-----------------------------------------------------------------------------
(* Every variable keeps its type, however downloads, helper and users interleave: *)
(* a process that is started is of a version because its executable exists.       *)
LEMMA TypeStep ==
  AppUpdateTypeOK /\ FilesSurvive /\ [AppUpdateNext]_appUpdateVars => AppUpdateTypeOK'
<1> SUFFICES ASSUME AppUpdateTypeOK, FilesSurvive, [AppUpdateNext]_appUpdateVars
             PROVE  AppUpdateTypeOK'
  OBVIOUS
<1> USE DEF AppUpdateTypeOK
<1>1. QED
  <2>1. ASSUME NEW d \in Downloads, RegisterDownload(d) PROVE AppUpdateTypeOK'
    BY <2>1 DEF RegisterDownload, At, Serving, Moves, Disturbs, backendVars, NoFile,
       Over, Waiting, Working
  <2>2. ASSUME NEW d \in Downloads, ClearArchive(d) PROVE AppUpdateTypeOK'
    BY <2>2 DEF ClearArchive, At, Serving, Moves, NoFile, backendVars, Over, Waiting,
       Working
  <2>3. ASSUME NEW d \in Downloads, GetAsset(d) PROVE AppUpdateTypeOK'
    BY <2>3 DEF GetAsset, At, Serving, Moves, backendVars, NoFile, Over, Waiting, Working
  <2>4. ASSUME NEW d \in Downloads, OpenArchive(d) PROVE AppUpdateTypeOK'
    BY <2>4 DEF OpenArchive, At, Serving, Moves, Opened, backendVars, NoFile, Over,
       Waiting, Working
  <2>5. ASSUME NEW d \in Downloads, DownloadSucceeds(d) PROVE AppUpdateTypeOK'
    <3>1. archive' \in [by: Downloads, whole: BOOLEAN] \cup {NoFile}
      BY <2>5, AppUpdateAssumption DEF DownloadSucceeds, At, NoFile
    <3>. QED BY <2>5, <3>1 DEF DownloadSucceeds, At, Moves
  <2>6. ASSUME NEW d \in Downloads, DownloadFails(d) PROVE AppUpdateTypeOK'
    BY <2>6 DEF DownloadFails, At, Serving, Moves, NoFile, backendVars, Over, Waiting,
       Working
  <2>7. ASSUME NEW d \in Downloads, CancelDownload(d) PROVE AppUpdateTypeOK'
    BY <2>7 DEF CancelDownload, Serving, UnderWay, backendVars, NoFile, Over, Waiting,
       Working
  <2>8. CASE RemoveArchive
    BY <2>8 DEF RemoveArchive, Serving, FileExists, NoFile, Disturbs, backendVars, Over,
       Waiting, Working
  <2>9. CASE ApplyAppUpdate
    BY <2>9 DEF ApplyAppUpdate, Serving, DownloadedUpdateAvailable, FileExists, NoFile,
       Over, UnderWay, downloadVars, Waiting, Working
  <2>10. CASE StopBackend
    BY <2>10 DEF StopBackend, downloadVars, NoFile, Over, Waiting, Working, Serving
  <2>11. CASE CoreStarts
    BY <2>11 DEF CoreStarts, downloadVars, NoFile, Over, Waiting, Working, Serving
  <2>12. CASE CoreEnds
    <3>1. core' \in BOOLEAN
      BY <2>12 DEF CoreEnds
    <3>2. UNCHANGED <<archive, download, cancelled, updated, backend, running, lock, target,
                     backup, helper, serviceMode, parentGone, mishap>>
      BY <2>12 DEF CoreEnds, downloadVars
    <3>. QED BY <3>1, <3>2
  <2>13. CASE ReleaseInstanceLock
    BY <2>13 DEF ReleaseInstanceLock, UnderWay, downloadVars, NoFile, Over, Waiting,
       Working, Serving
  <2>14. CASE BackendExits
    BY <2>14 DEF BackendExits, EndOfBackend, UnderWay, NoFile, Over, Waiting, Working,
       Serving
  <2>15. CASE BackendCrashes
    BY <2>15 DEF BackendCrashes, Serving, EndOfBackend, UnderWay, NoFile, Over, Waiting,
       Working
  <2>16. CASE UserStarts
    BY <2>16 DEF UserStarts, Started, downloadVars, Disturbs, NoFile, Over, Waiting,
       Working, Serving
  <2>17. CASE StopService
    BY <2>17 DEF StopService, HelperAt, downloadVars, NoFile, Over, Waiting, Working,
       Serving
  <2>18. CASE WaitForUpdateParent
    BY <2>18 DEF WaitForUpdateParent, HelperAt, downloadVars, backendVars, NoFile, Over,
       Waiting, Working, Serving
  <2>19. CASE AcquireUpdateLock
    BY <2>19 DEF AcquireUpdateLock, HelperAt, downloadVars, backendVars, NoFile, Over,
       Waiting, Working, Serving
  <2>20. CASE WaitForUpdateCore
    BY <2>20 DEF WaitForUpdateCore, HelperAt, downloadVars, backendVars, NoFile, Over,
       Waiting, Working, Serving
  <2>21. CASE ExtractUpdateArchive
    BY <2>21 DEF ExtractUpdateArchive, HelperAt, downloadVars, backendVars, NoFile,
       Over, Waiting, Working, Serving
  <2>22. CASE RenameTarget
    BY <2>22 DEF RenameTarget, HelperAt, downloadVars, backendVars, NoFile, Over,
       Waiting, Working, Serving
  <2>23. CASE PlaceNew
    BY <2>23 DEF PlaceNew, HelperAt, downloadVars, backendVars, NoFile, Over, Waiting,
       Working, Serving
  <2>24. CASE RemoveBackup
    BY <2>24 DEF RemoveBackup, HelperAt, downloadVars, backendVars, NoFile, Over,
       Waiting, Working, Serving
  <2>25. CASE ReleaseUpdateLock
    BY <2>25 DEF ReleaseUpdateLock, HelperAt, NoFile, backendVars, Over, Waiting,
       Working, Serving
  <2>26. CASE StartUpdatedApplication
    <3>1. target # "none"
      BY <2>26 DEF FilesSurvive, StartUpdatedApplication, HelperAt
    <3>2. CASE lock = "none" /\ backend = "gone"
      BY <2>26, <3>1, <3>2 DEF StartUpdatedApplication, HelperAt, Started, downloadVars,
         Over
    <3>3. CASE ~(lock = "none" /\ backend = "gone")
      BY <2>26, <3>3 DEF StartUpdatedApplication, HelperAt, downloadVars, backendVars,
         Over
    <3>. QED BY <3>2, <3>3
  <2>27. CASE PlacingFails
    BY <2>27 DEF PlacingFails, HelperAt, Disturbs, downloadVars, backendVars, NoFile,
       Over, Waiting, Working, Serving
  <2>28. CASE HelperFails
    BY <2>28 DEF HelperFails, Over, Disturbs, downloadVars, backendVars, NoFile,
       Waiting, Working, Serving
  <2>29. CASE UNCHANGED appUpdateVars
    BY <2>29 DEF appUpdateVars, downloadVars, backendVars, NoFile, Over, Waiting,
       Working, Serving
  <2>. QED
    BY <2>1, <2>2, <2>3, <2>4, <2>5, <2>6, <2>7, <2>8, <2>9, <2>10, <2>11, <2>12, <2>13,
       <2>14,
       <2>15, <2>16, <2>17, <2>18, <2>19, <2>20, <2>21, <2>22, <2>23, <2>24, <2>25, <2>26, <2>27,
       <2>28, <2>29 DEF AppUpdateNext, DownloadEnds, BackendSteps, HelperSteps

(* Every variable of AppUpdate keeps its type.                                *)
THEOREM UpdateTypes == AppUpdateSpec => []AppUpdateTypeOK
<1>1. AppUpdateInit => AppUpdateTypeOK
  BY DEF AppUpdateInit, AppUpdateTypeOK, NoFile, Over
<1>. QED BY <1>1, TypeStep, FilesAreThere, PTL DEF AppUpdateSpec

-----------------------------------------------------------------------------
(* Once the core has been waited for, none runs: only a backend starts one.     *)
CoreIsGone == helper \in Working \ {"core"} => ~core

(* A core is started only by a backend that serves, so none while the helper works. *)
LEMMA CoreStep == LockHolds /\ CoreIsGone /\ [AppUpdateNext]_appUpdateVars => CoreIsGone'
<1> SUFFICES ASSUME LockHolds, CoreIsGone, [AppUpdateNext]_appUpdateVars PROVE CoreIsGone'
  OBVIOUS
<1> USE DEF LockHolds, CoreIsGone
<1>1. QED
  <2>1. ASSUME NEW d \in Downloads, RegisterDownload(d) PROVE CoreIsGone'
    BY <2>1 DEF RegisterDownload, At, Serving, Moves, Disturbs, backendVars, Working,
       Over, Waiting
  <2>2. ASSUME NEW d \in Downloads, ClearArchive(d) PROVE CoreIsGone'
    BY <2>2 DEF ClearArchive, At, Serving, Moves, NoFile, backendVars, Working, Over,
       Waiting
  <2>3. ASSUME NEW d \in Downloads, GetAsset(d) PROVE CoreIsGone'
    BY <2>3 DEF GetAsset, At, Serving, Moves, backendVars, Working, Over, Waiting
  <2>4. ASSUME NEW d \in Downloads, OpenArchive(d) PROVE CoreIsGone'
    BY <2>4 DEF OpenArchive, At, Serving, Moves, Opened, backendVars, Working, Over,
       Waiting
  <2>5. ASSUME NEW d \in Downloads, DownloadSucceeds(d) PROVE CoreIsGone'
    BY <2>5 DEF DownloadSucceeds, At, Serving, Moves, Working, Over, Waiting
  <2>6. ASSUME NEW d \in Downloads, DownloadFails(d) PROVE CoreIsGone'
    BY <2>6 DEF DownloadFails, At, Serving, Moves, NoFile, backendVars, Working, Over,
       Waiting
  <2>7. ASSUME NEW d \in Downloads, CancelDownload(d) PROVE CoreIsGone'
    BY <2>7 DEF CancelDownload, Serving, UnderWay, backendVars, Working, Over, Waiting
  <2>8. CASE RemoveArchive
    BY <2>8 DEF RemoveArchive, Serving, FileExists, NoFile, Disturbs, backendVars,
       Working, Over, Waiting
  <2>9. CASE ApplyAppUpdate
    BY <2>9 DEF ApplyAppUpdate, Serving, DownloadedUpdateAvailable, FileExists, NoFile,
       Over, UnderWay, downloadVars, Working, Waiting
  <2>10. CASE StopBackend
    BY <2>10 DEF StopBackend, downloadVars, Serving, Working, Over, Waiting
  <2>11. CASE CoreStarts
    BY <2>11 DEF CoreStarts, downloadVars, Serving, Working, Over, Waiting
  <2>12. CASE CoreEnds
    BY <2>12 DEF CoreEnds, downloadVars, Serving, Working, Over, Waiting
  <2>13. CASE ReleaseInstanceLock
    BY <2>13 DEF ReleaseInstanceLock, UnderWay, downloadVars, Serving, Working, Over,
       Waiting
  <2>14. CASE BackendExits
    BY <2>14 DEF BackendExits, EndOfBackend, UnderWay, Serving, Working, Over, Waiting
  <2>15. CASE BackendCrashes
    BY <2>15 DEF BackendCrashes, Serving, EndOfBackend, UnderWay, Working, Over, Waiting
  <2>16. CASE UserStarts
    BY <2>16 DEF UserStarts, Started, downloadVars, Disturbs, Serving, Working, Over,
       Waiting
  <2>17. CASE StopService
    BY <2>17 DEF StopService, HelperAt, downloadVars, Serving, Working, Over, Waiting
  <2>18. CASE WaitForUpdateParent
    BY <2>18 DEF WaitForUpdateParent, HelperAt, downloadVars, backendVars, Serving,
       Working, Over, Waiting
  <2>19. CASE AcquireUpdateLock
    BY <2>19 DEF AcquireUpdateLock, HelperAt, downloadVars, backendVars, Serving,
       Working, Over, Waiting
  <2>20. CASE WaitForUpdateCore
    BY <2>20 DEF WaitForUpdateCore, HelperAt, downloadVars, backendVars, Serving,
       Working, Over, Waiting
  <2>21. CASE ExtractUpdateArchive
    BY <2>21 DEF ExtractUpdateArchive, HelperAt, downloadVars, backendVars, Serving,
       Working, Over, Waiting
  <2>22. CASE RenameTarget
    BY <2>22 DEF RenameTarget, HelperAt, downloadVars, backendVars, Serving, Working,
       Over, Waiting
  <2>23. CASE PlaceNew
    BY <2>23 DEF PlaceNew, HelperAt, downloadVars, backendVars, Serving, Working, Over,
       Waiting
  <2>24. CASE RemoveBackup
    BY <2>24 DEF RemoveBackup, HelperAt, downloadVars, backendVars, Serving, Working,
       Over, Waiting
  <2>25. CASE ReleaseUpdateLock
    BY <2>25 DEF ReleaseUpdateLock, HelperAt, NoFile, backendVars, Serving, Working,
       Over, Waiting
  <2>26. CASE StartUpdatedApplication
    BY <2>26 DEF StartUpdatedApplication, HelperAt, Started, downloadVars, backendVars,
       Serving, Working, Over, Waiting
  <2>27. CASE PlacingFails
    BY <2>27 DEF PlacingFails, HelperAt, Disturbs, downloadVars, backendVars, Serving,
       Working, Over, Waiting
  <2>28. CASE HelperFails
    BY <2>28 DEF HelperFails, Over, Disturbs, downloadVars, backendVars, Serving,
       Working, Waiting
  <2>29. CASE UNCHANGED appUpdateVars
    BY <2>29 DEF appUpdateVars, downloadVars, backendVars, Serving, Working, Over, Waiting
  <2>. QED
    BY <2>1, <2>2, <2>3, <2>4, <2>5, <2>6, <2>7, <2>8, <2>9, <2>10, <2>11, <2>12, <2>13,
       <2>14,
       <2>15, <2>16, <2>17, <2>18, <2>19, <2>20, <2>21, <2>22, <2>23, <2>24, <2>25, <2>26, <2>27,
       <2>28, <2>29 DEF AppUpdateNext, DownloadEnds, BackendSteps, HelperSteps

(* Nobody serves and no core runs while the helper replaces the files.         *)
THEOREM HelperIsAlone == AppUpdateSpec => []ReplacedAlone
<1>1. AppUpdateInit => CoreIsGone
  BY DEF AppUpdateInit, CoreIsGone, Working
<1>2. AppUpdateTypeOK /\ LockHolds /\ CoreIsGone => ReplacedAlone
  BY DEF AppUpdateTypeOK, LockHolds, CoreIsGone, ReplacedAlone, Serving
<1>. QED BY <1>1, <1>2, CoreStep, LockIsHeld, UpdateTypes, PTL DEF AppUpdateSpec

(* While the helper works on it, only the helper removes the archive.          *)
THEOREM ArchiveIsSafe == AppUpdateSpec => ArchiveIsTheHelpers
<1>1. LockHolds /\ [AppUpdateNext]_appUpdateVars
        => [(helper \in Working /\ archive' # archive => helper' = "unlocked")]_appUpdateVars
  <2> SUFFICES ASSUME LockHolds, AppUpdateNext, helper \in Working, archive' # archive
               PROVE  helper' = "unlocked"
    OBVIOUS
  <2> USE DEF LockHolds
  <2>1. ~Serving
    BY DEF Working, Serving
  <2>2. ASSUME NEW d \in Downloads,
               RegisterDownload(d) \/ ClearArchive(d) \/ GetAsset(d) \/ OpenArchive(d)
               \/ DownloadEnds(d) \/ CancelDownload(d)
        PROVE  FALSE
    BY <2>1, <2>2 DEF RegisterDownload, ClearArchive, GetAsset, OpenArchive, DownloadEnds,
                      DownloadSucceeds, DownloadFails, CancelDownload, At
  <2>3. CASE RemoveArchive
    BY <2>1, <2>3 DEF RemoveArchive
  <2>4. CASE ReleaseUpdateLock
    BY <2>4 DEF ReleaseUpdateLock, HelperAt
  <2>5. CASE \/ ApplyAppUpdate \/ StopBackend \/ CoreStarts \/ CoreEnds \/ BackendSteps
             \/ BackendCrashes \/ UserStarts
    BY <2>5 DEF ApplyAppUpdate, StopBackend, CoreStarts, CoreEnds, BackendSteps,
                ReleaseInstanceLock, BackendExits, BackendCrashes, EndOfBackend, UserStarts,
                Started, downloadVars
  <2>6. CASE \/ StopService \/ WaitForUpdateParent \/ AcquireUpdateLock \/ WaitForUpdateCore
             \/ ExtractUpdateArchive \/ RenameTarget \/ PlaceNew \/ RemoveBackup
             \/ StartUpdatedApplication \/ PlacingFails \/ HelperFails
    BY <2>6 DEF StopService, WaitForUpdateParent, AcquireUpdateLock, WaitForUpdateCore,
                ExtractUpdateArchive, RenameTarget, PlaceNew, RemoveBackup,
                StartUpdatedApplication, Started, PlacingFails, HelperFails, downloadVars
  <2>. QED BY <2>2, <2>3, <2>4, <2>5, <2>6 DEF AppUpdateNext, HelperSteps
<1>. QED BY <1>1, LockIsHeld, PTL DEF AppUpdateSpec, ArchiveIsTheHelpers

-----------------------------------------------------------------------------
(* The downloads of a backend end with it; and once one of them has come to the *)
(* file, or one has ended well, a file that is not whole is being written.       *)
InHand == {"cleared", "answered", "writing"}

PartialIsWritten ==
  /\ ~Serving => UnderWay = {}
  /\ /\ Serving /\ FileExists /\ ~archive.whole
     /\ updated # running \/ \E d \in Downloads : download[d] \in InHand
     => archive.by \in UnderWay /\ download[archive.by] = "writing"

(* Every step of a download, a cancellation or a crash keeps PartialIsWritten. *)
LEMMA PartialStep ==
  AppUpdateTypeOK /\ PartialIsWritten /\ [AppUpdateNext]_appUpdateVars => PartialIsWritten'
<1> SUFFICES ASSUME AppUpdateTypeOK, PartialIsWritten, [AppUpdateNext]_appUpdateVars
             PROVE  PartialIsWritten'
  OBVIOUS
<1> USE DEF AppUpdateTypeOK, PartialIsWritten, InHand, UnderWay, FileExists, NoFile
<1>1. QED
  <2>1. ASSUME NEW d \in Downloads, RegisterDownload(d) PROVE PartialIsWritten'
    BY <2>1 DEF RegisterDownload, At, Serving, Moves, Disturbs, backendVars
  <2>2. ASSUME NEW d \in Downloads, ClearArchive(d) PROVE PartialIsWritten'
    BY <2>2 DEF ClearArchive, At, Serving, Moves, NoFile, backendVars
  <2>3. ASSUME NEW d \in Downloads, GetAsset(d) PROVE PartialIsWritten'
    BY <2>3 DEF GetAsset, At, Serving, Moves, backendVars
  <2>4. ASSUME NEW d \in Downloads, OpenArchive(d) PROVE PartialIsWritten'
    BY <2>4 DEF OpenArchive, At, Serving, Moves, Opened, backendVars
  <2>5. ASSUME NEW d \in Downloads, DownloadSucceeds(d) PROVE PartialIsWritten'
    BY <2>5 DEF DownloadSucceeds, At, Serving, Moves
  <2>6. ASSUME NEW d \in Downloads, DownloadFails(d) PROVE PartialIsWritten'
    BY <2>6 DEF DownloadFails, At, Serving, Moves, NoFile, backendVars
  <2>7. ASSUME NEW d \in Downloads, CancelDownload(d) PROVE PartialIsWritten'
    BY <2>7 DEF CancelDownload, Serving, UnderWay, backendVars
  <2>8. CASE RemoveArchive
    BY <2>8 DEF RemoveArchive, Serving, FileExists, NoFile, Disturbs, backendVars
  <2>9. CASE ApplyAppUpdate
    BY <2>9 DEF ApplyAppUpdate, Serving, DownloadedUpdateAvailable, FileExists, NoFile,
       Over, UnderWay, downloadVars
  <2>10. CASE StopBackend
    BY <2>10 DEF StopBackend, downloadVars, Serving
  <2>11. CASE CoreStarts
    BY <2>11 DEF CoreStarts, downloadVars, Serving
  <2>12. CASE CoreEnds
    BY <2>12 DEF CoreEnds, downloadVars, Serving
  <2>13. CASE ReleaseInstanceLock
    BY <2>13 DEF ReleaseInstanceLock, UnderWay, downloadVars, Serving
  <2>14. CASE BackendExits
    BY <2>14 DEF BackendExits, EndOfBackend, UnderWay, Serving
  <2>15. CASE BackendCrashes
    BY <2>15 DEF BackendCrashes, Serving, EndOfBackend, UnderWay
  <2>16. CASE UserStarts
    BY <2>16 DEF UserStarts, Started, downloadVars, Disturbs, Serving
  <2>17. CASE StopService
    BY <2>17 DEF StopService, HelperAt, downloadVars, Serving
  <2>18. CASE WaitForUpdateParent
    BY <2>18 DEF WaitForUpdateParent, HelperAt, downloadVars, backendVars, Serving
  <2>19. CASE AcquireUpdateLock
    BY <2>19 DEF AcquireUpdateLock, HelperAt, downloadVars, backendVars, Serving
  <2>20. CASE WaitForUpdateCore
    BY <2>20 DEF WaitForUpdateCore, HelperAt, downloadVars, backendVars, Serving
  <2>21. CASE ExtractUpdateArchive
    BY <2>21 DEF ExtractUpdateArchive, HelperAt, downloadVars, backendVars, Serving
  <2>22. CASE RenameTarget
    BY <2>22 DEF RenameTarget, HelperAt, downloadVars, backendVars, Serving
  <2>23. CASE PlaceNew
    BY <2>23 DEF PlaceNew, HelperAt, downloadVars, backendVars, Serving
  <2>24. CASE RemoveBackup
    BY <2>24 DEF RemoveBackup, HelperAt, downloadVars, backendVars, Serving
  <2>25. CASE ReleaseUpdateLock
    BY <2>25 DEF ReleaseUpdateLock, HelperAt, NoFile, backendVars, Serving
  <2>26. CASE StartUpdatedApplication
    BY <2>26 DEF StartUpdatedApplication, HelperAt, Started, downloadVars, backendVars,
       Serving
  <2>27. CASE PlacingFails
    BY <2>27 DEF PlacingFails, HelperAt, Disturbs, downloadVars, backendVars, Serving
  <2>28. CASE HelperFails
    BY <2>28 DEF HelperFails, Over, Disturbs, downloadVars, backendVars, Serving
  <2>29. CASE UNCHANGED appUpdateVars
    BY <2>29 DEF appUpdateVars, downloadVars, backendVars, Serving
  <2>. QED
    BY <2>1, <2>2, <2>3, <2>4, <2>5, <2>6, <2>7, <2>8, <2>9, <2>10, <2>11, <2>12, <2>13,
       <2>14,
       <2>15, <2>16, <2>17, <2>18, <2>19, <2>20, <2>21, <2>22, <2>23, <2>24, <2>25, <2>26, <2>27,
       <2>28, <2>29 DEF AppUpdateNext, DownloadEnds, BackendSteps, HelperSteps

(* What is reported as available while no download is under way is whole.       *)
THEOREM AvailableArchivesAreWhole == AppUpdateSpec => []AvailableIsWhole
<1>1. AppUpdateInit => PartialIsWritten
  BY DEF AppUpdateInit, PartialIsWritten, Serving, FileExists
<1>2. PartialIsWritten => AvailableIsWhole
  BY DEF PartialIsWritten, AvailableIsWhole, DownloadedUpdateAvailable
<1>. QED BY <1>1, <1>2, PartialStep, UpdateTypes, PTL DEF AppUpdateSpec
=============================================================================
