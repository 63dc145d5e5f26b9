SPECIFICATION Spec
CONSTANTS
  d1 = d1
  d2 = d2
  p1 = p1
  p2 = p2
  NoRow = NoRow
  Unsynced = Unsynced
  Devices = {d1}
  Procs = {p1, p2}
  Home <- TwoProcessesOneDevice
  Ids = {u1}
  DateTextReadable = FALSE
  Second = 1
  MaxEdits = 2
  MaxLate = 0
PROPERTIES
  UnsyncedChangeKept
