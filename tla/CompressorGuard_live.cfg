SPECIFICATION FairSpec
CONSTANTS
  Setpoint = {1}
  Heating = {}
  Off = 4
  Default = 1
  Unread = Unread
  None = None
  Mode = {"cooling", "heating"}
  Enabled = {TRUE, FALSE}
  Readings <- LowOrGood
  Blind = {TRUE, FALSE}
  Deadband = 1
  Target = 2
  Top = 1
  MinOff = 2
  Settle = 2
  PollGap = 1
  Faulty = TRUE
  Commands = TRUE
  Crashes = TRUE
  Hands = FALSE
PROPERTIES ColdWaterIsStopped StopIsNotForEver
