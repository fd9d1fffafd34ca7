SPECIFICATION Spec
CONSTANTS
  k1 = k1
  k2 = k2
  k3 = k3
  k4 = k4
  Keys <- MCKeys
  Values <- MCValues
  Null = Null
  Zeroed = 0
  Hash <- MCHash
  Capacities <- MCCapacities
  MaxCapacity = 8
  Lengths <- MCLengths
INVARIANTS
  CountsExact
  Reachable
  RehashKeepsAll
PROPERTY ImplementsKeyMap
\* The overflow of the capacity ends the process.
CHECK_DEADLOCK FALSE
