SPECIFICATION Spec
CONSTANTS
  Setpoint = {1, 2}
  Heating = {3}
  Off = 4
  Default = 1
  Unread = Unread
  None = None
  Mode = {"cooling", "heating"}
  Enabled = {TRUE}
  Readings <- AnyReading
  Blind = {TRUE, FALSE}
  Deadband = 1
  Target = 1
  Top = 1
  MinOff = 2
  Settle = 2
  PollGap = 1
  Faulty = TRUE
  Commands = TRUE
  Crashes = TRUE
  Hands = TRUE
INVARIANTS TypeOK
PROPERTIES NeverWritesUnread AntiShortCycle
