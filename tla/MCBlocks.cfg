SPECIFICATION BlocksSpec
CONSTANTS
  Threads = {x1, x2}
  Pointers = {p1, p2, p3, p4}
  Null = Null
  Sizes <- MCSizes
  InitialCapacity = 1
  MaxLen = 3
  MaxText = 3
  Capacities = {0, 1, 2, 3, 5}
  FirstCap = 1
  MaxCount = 5
  MaxItems = 2
  MaxSorted = 4
  Keys = {1, 2, 3}
  RandMax = 7
CONSTRAINT TextIsBounded
SYMMETRY AreAlike
INVARIANTS TableIsExact NoFalseAlarm CheckFindsDamage BlocksAndItemsAreExact SortIsExact
PROPERTIES ImplementsStrings ListsAreSeparate
\* The debug allocator does nothing after fatal, nor the sort at its end.
CHECK_DEADLOCK FALSE
