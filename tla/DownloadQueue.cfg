SPECIFICATION QueueFairSpec
CONSTANTS
  Depth = 3
  Numbers = 4
  MaxRequests = 6
INVARIANTS QueueTypeOK OneRunning NumbersDistinct
PROPERTIES QueueDrains
