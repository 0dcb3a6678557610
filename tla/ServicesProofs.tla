--------------------------- MODULE ServicesProofs ---------------------------
(***************************************************************************)
(* What is proved of each component, for the run of them all (MCServices): a *)
(* behaviour of theirs is a behaviour of each component by itself.          *)
(***************************************************************************)
EXTENDS MCServices, ResourcesProofs, RuntimeProofs, AppUpdateProofs, CorePageProofs,
        GeneratorProofs

(* Each component starts as it does by itself. *)
LEMMA EachStarts ==
  ServicesInit => /\ ResourcesInit /\ SchedulerInit /\ AppUpdateInit /\ CorePageInit
                  /\ SourcesInit /\ GeneratorInit
  BY Zenon DEF ServicesInit

(* Each step is one of each component, or leaves it as it is. *)
LEMMA EachSteps ==
  ASSUME [ServicesNext]_servicesVars
  PROVE  /\ [ResourcesNext]_resourcesVars /\ [SchedulerNext]_schedulerVars
         /\ [AppUpdateNext]_appUpdateVars /\ [CorePageNext]_corePageVars
         /\ [SourcesNext]_sourcesVars /\ [GeneratorNext]_generatorVars
<1>1. CASE UNCHANGED servicesVars
  <2>1. /\ UNCHANGED resourcesVars /\ UNCHANGED schedulerVars /\ UNCHANGED appUpdateVars
        /\ UNCHANGED corePageVars /\ UNCHANGED sourcesVars /\ UNCHANGED generatorVars
    BY <1>1 DEF servicesVars
  <2> QED BY <2>1, Zenon
<1>2. CASE ServicesNext
  <2>1. CASE ResourcesNext /\ UNCHANGED <<schedulerVars, appUpdateVars, corePageVars, sourcesVars, generatorVars>>
    BY <2>1
  <2>2. CASE SchedulerNext /\ UNCHANGED <<resourcesVars, appUpdateVars, corePageVars, sourcesVars, generatorVars>>
    BY <2>2
  <2>3. CASE AppUpdateNext /\ UNCHANGED <<resourcesVars, schedulerVars, corePageVars, sourcesVars, generatorVars>>
    BY <2>3
  <2>4. CASE CorePageNext /\ UNCHANGED <<resourcesVars, schedulerVars, appUpdateVars, sourcesVars, generatorVars>>
    BY <2>4
  <2>5. CASE SourcesNext /\ UNCHANGED <<resourcesVars, schedulerVars, appUpdateVars, corePageVars, generatorVars>>
    BY <2>5
  <2>6. CASE GeneratorNext /\ UNCHANGED <<resourcesVars, schedulerVars, appUpdateVars, corePageVars, sourcesVars>>
    BY <2>6
  <2> QED BY <1>2, <2>1, <2>2, <2>3, <2>4, <2>5, <2>6, Zenon DEF ServicesNext
<1> QED BY <1>1, <1>2

(* Whatever the components do between them, each does what it does by itself: its
   theorems hold of the run of them all. *)
THEOREM EachRunsByItself ==
  ServicesSpec => /\ ResourcesSpec /\ SchedulerSpec /\ AppUpdateSpec /\ CorePageSpec
                  /\ SourcesSpec /\ GeneratorSpec
  BY EachStarts, EachSteps, PTL
    DEF ServicesSpec, ResourcesSpec, SchedulerSpec, AppUpdateSpec, CorePageSpec, SourcesSpec,
        GeneratorSpec

(* Every variable of every component keeps its type.                          *)
THEOREM ServicesTypes == ServicesSpec => []ServicesTypeOK
  BY EachRunsByItself, ResourcesTypes, SchedulerTypes, UpdateTypes, CorePageTypes, SourcesTypes,
     GeneratorTypes, PTL DEF ServicesTypeOK

(* What the run checks of each component but its liveness: for any items, tasks,
   downloads, changes, sources and profiles, whatever was lost or died. *)
THEOREM ServicesAreSafe ==
  ServicesSpec =>
    /\ [](RevisionNamesContent /\ QuietIsCurrent)
    /\ ImplementsDocuments /\ ReordersAreInformed
    /\ [](RunsDoNotOverlap /\ OncePerMinute /\ DeletedLeavesNoLogs) /\ EditsAndRunsMerge
    /\ [](ExecutableSurvives /\ ReplacedAlone /\ AvailableIsWhole) /\ ArchiveIsTheHelpers
    /\ []ShownIsTrue
    /\ []SourcesAgree /\ SavesAreInformed /\ NothingIsUndone
    /\ [](NoDangling /\ NodesAreMeant /\ ClientsFit)
<1>1. ResourcesSpec => /\ [](RevisionNamesContent /\ QuietIsCurrent)
                       /\ ImplementsDocuments /\ ReordersAreInformed
  BY RevisionsNameContents, QuietPagesAreCurrent, DocumentsAreImplemented,
     ReordersReplaceWhatWasSeen, PTL
<1>2. SchedulerSpec => /\ [](RunsDoNotOverlap /\ OncePerMinute /\ DeletedLeavesNoLogs)
                       /\ EditsAndRunsMerge
  BY RunsExclude, OneStartAMinute, NoLogsOfDeleted, EditsMerge, PTL
<1>3. AppUpdateSpec => /\ [](ExecutableSurvives /\ ReplacedAlone /\ AvailableIsWhole)
                       /\ ArchiveIsTheHelpers
  BY AnExecutableSurvives, HelperIsAlone, AvailableArchivesAreWhole, ArchiveIsSafe, PTL
<1>4. SourcesSpec => []SourcesAgree /\ SavesAreInformed /\ NothingIsUndone
  BY EntriesDescribeFiles, EditsReplaceWhatWasSeen, ListsAreNotUndone, PTL
<1>5. GeneratorSpec => [](NoDangling /\ NodesAreMeant /\ ClientsFit)
  BY NothingDangles, NodesInGroupsAreMeant, HTTPClientsFit, PTL
<1> QED BY EachRunsByItself, <1>1, <1>2, <1>3, <1>4, <1>5, PageShowsTheCore
=============================================================================
