SPECIFICATION MCSpec
CONSTANTS
  hk01 = hk01
  Valve = {hk01}
  WdTime = 2
  Stale = 3
  Rearm = 2
  BackoffMax = 2
  Circuit = {hk01}
  None = None
  Settle = 3
  FlushInterval = 4
  Trip = 2
  Lossy = TRUE
  Day = {1, 2, 3}
  Retain = 1
  Lines = 4
  Absent = Absent
  BatchMax = 2
  Interval = 2
  Timeout = 2
  Retry = 1
  Rate = 2
  Room = 6
INVARIANTS TypeOK GateTypeOK RecordersTypeOK RecordsKept LogsAreArchived PointsAccounted BacklogBounded
PROPERTIES MeasuresMovingWater FrostOpens GateNotLockedOut OutputsFollow OverridesTold BlindFailsOpen PointsForwarded
\* The journal stops at the bound on its records.
CHECK_DEADLOCK FALSE
