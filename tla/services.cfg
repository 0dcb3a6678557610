SPECIFICATION ServicesSpec
CONSTANTS
  Ids = {p, q}
  FirstIds = {p, q}
  Browsers = {x, y}
  Followed = {x}
  MaxCalls = 2
  QueueSize = 1
  Nothing = nothing
  Tasks = {t}
  MaxActs = 3
  MaxSeconds = 2
  SecondsPerMinute = 3
  LogLimit = 1
  Downloads = {1, 2}
  MaxChanges = 3
  MaxRequests = 2
  MaxDrops = 1
  Subscriptions = {s, z}
  RuleSets = {r}
  MaxWrites = 2
  Profiles <- MCProfiles
  Nodes <- MCNodes
  NoVersion = 0
  Itoa <- MCItoa
  DefaultTags <- MCDefaultTags
INVARIANTS
  ServicesTypeOK
  RevisionNamesContent QuietIsCurrent
  RunsDoNotOverlap OncePerMinute DeletedLeavesNoLogs
  ExecutableSurvives ReplacedAlone AvailableIsWhole
  ShownIsTrue SourcesAgree
  NoDangling NodesAreMeant ClientsFit
PROPERTIES
  ImplementsDocuments ReordersAreInformed Settles
  EditsAndRunsMerge RunsEnd
  ArchiveIsTheHelpers UpdateEnds
  SavesAreInformed NothingIsUndone
CHECK_DEADLOCK FALSE
