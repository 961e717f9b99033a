SPECIFICATION WatchSpec
CONSTANTS
  Configs = {lax, tight}
  Broken = Broken
  Absent = Absent
  MaxEdits = 2
  MaxFaults = 0
INVARIANT EveryEditIsRead
CHECK_DEADLOCK FALSE
