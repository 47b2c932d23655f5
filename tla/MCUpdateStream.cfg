SPECIFICATION Spec
CONSTANTS
  MaxWindows = 6
  Capacity = 4
  Sentinel = Sentinel
PROPERTIES
  RefinesOrderedStream
  CallerIsServed
  FittingRestEnds
CHECK_DEADLOCK FALSE
