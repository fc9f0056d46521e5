SPECIFICATION Spec
CONSTANTS
  Setpoint = {1, 2}
  Heating = {}
  Off = 4
  Default = 2
  Unread = Unread
  None = None
  Mode = {"cooling", "heating"}
  Enabled = {TRUE}
  Readings <- AnyReading
  Blind = {TRUE, FALSE}
  Deadband = 1
  Target = 1
  Top = 1
  MinOff = 2
  Settle = 2
  PollGap = 2
  Faulty = FALSE
  Commands = FALSE
  Crashes = FALSE
  Hands = FALSE
PROPERTIES EveryStopLasts
