SPECIFICATION RecordersSpec
CONSTANTS
  Day = {1, 2, 3}
  Retain = 1
  Lines = 4
  Absent = Absent
  BatchMax = 2
  Interval = 2
  Timeout = 2
  Retry = 1
  Rate = 2
  Room = 6
PROPERTIES StartupArchives
