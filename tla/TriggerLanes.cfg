\* Three starts over two lanes.
CONSTANTS
  Starts = {s1, s2, s3}
  Keys = {k1, k2}
SPECIFICATION FairSpec
INVARIANTS
  TypeOK
  HoldersExact
  LaneSerial
  NoLostWakeup
PROPERTIES
  ImplementsLanesFairly
