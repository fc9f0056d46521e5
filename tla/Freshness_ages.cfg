SPECIFICATION Spec
CONSTANTS
  r1 = r1
  Room = {r1}
  None = None
  Default = 1
  TtlMax = 2
  Ceiling = 2
  DewMaxAge = 1
  Period = {1, 2}
  Forever = Forever
  Oldest = 7
INVARIANTS TypeOK ReadingAgeBounded DewAgeBounded NotBlindWhileHeld
