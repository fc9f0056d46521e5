SPECIFICATION MCSpec
CONSTANTS
  None = None
  Dwell = 2
  MinOn = 2
  MinOff = 1
  Low <- MCLow
  High <- MCHigh
  Hysteresis = 2
  Confirm = 1
  MinWrite = 2
  ShortWalk = 1
  LongWalk = 2
  TargetMax = 1
  Install <- MCInstall
  Deviation <- MCDeviation
  Limit = {None, 2}
  Setpoint = {1, 2, 3}
  Off = 4
  Every = 1
  v1 = v1  v2 = v2  v3 = v3  v4 = v4
  Valve = {v1, v2, v3, v4}
  Unfitted = {v4}
  Full <- MCFull
  Threshold <- MCThreshold
  Eps = 2520
  PeakStep = 5040
  Grain = 2520
  MinOpen <- MCMinOpen
  TieK = 1
  Unknown = None
  Level <- MCLevel
  Need <- MCNeed
  SpMin = 15
  SpMax = 28
  DefaultSp = 20
  Differential = {2, 3, 4}
  Coldest = 170
  Warmest = 320
INVARIANTS TypeOK PartsTypeOK FlowFloorKept SatisfiedComeLast
PROPERTIES SwitchIsSettled SeasonFollows UnitFollows ConfirmedWish SetpointRepaired ResumeStarts FloorProgresses
