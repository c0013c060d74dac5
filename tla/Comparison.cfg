\* The view from a first page to any sequence of changes, reopenings and retries.
SPECIFICATION FairSpec
CONSTANTS
  T1 = T1
  T2 = T2
  Malformed = Malformed
  Token = Token
  Text = Text
  Other = Other
  NoType = NoType
  NoQueries = NoQueries
  NotFound = NotFound
  Unavailable = Unavailable
  NoDashboard = NoDashboard
  NoSlot = NoSlot
  EndpointVariable = Token
  RelativeValues <- MCRelative
  DefaultRelative = "now-1h"
  PanelLists <- MCPanelLists
  Described <- MCDescribed
  Urls <- MCAllUrls
  TargetIds = {T1, T2}
  Day = 8
  MaxSafeInteger = 17
  MaxDate = 15
  MinTargets = 1
  MaxTargets = 2
  MinLanes = 2
  MaxLanes = 3
  MaxGroups = 2
  MaxDays = 1
  SchemaVersion = 2
  Attempts = 3
  RetryDelay = 2
  MaxRetryDelay = 3
  Minute = 2
  Hour = 4
  LastShown = 13
  Windows = {"w1", "w2"}
  DefaultWindow = "w1"
  NoWindow = "none"
  Nows = {9}
  DraftTimes = {0, 5}
  Slots = {1, 2}
INVARIANTS
  TypeOK
  BookmarkRestores
  CardsMatchGroups
  EveryLaneSeesEveryPanel
PROPERTIES
  LoadsKeepTheirTerms
  PageSettles
CHECK_DEADLOCK FALSE
