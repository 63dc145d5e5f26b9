SPECIFICATION FairSpec
CONSTANTS
  d1 = d1
  d2 = d2
  p1 = p1
  p2 = p2
  NoRow = NoRow
  Unsynced = Unsynced
  Devices = {d1, d2}
  Procs = {p1, p2}
  Home <- OneProcessPerDevice
  Ids = {u1}
  DateTextReadable = FALSE
  Second = 1
  MaxEdits = 3
  MaxLate = 1
INVARIANTS
  TypeOK
  CleanRowsTaken
  VersionNamesContent
PROPERTIES
  UnsyncedChangeKept
  LocalVersionsNeverFall
  ReplicaSpec
  PullMakesEqual
  SyncedStays
  Converges
