SPECIFICATION GateSpec
CONSTANTS
  hk01 = hk01
  Circuit = {hk01}
  None = None
  Settle = 3
  FlushInterval = 5
  Trip = 2
  Lossy = FALSE
PROPERTIES NeverStandingWater
