\* Two places, three gaps; llm and controlled, fallback anywhere.
CONSTANTS
  s = s
  a = a
  b = b
  c = c
  g1 = g1
  g2 = g2
  g3 = g3
  Lots <- FabLots
  Source = s
  Lanes = {1, 2, 3}
  Place <- LanePlace
  Through <- LaneThrough
  Excursion <- LaneExcursion
  Home = 1
  NoLane = NoLane
  Jobs <- GivenJobs
  Gaps = {g1, g2, g3}
  GapKind <- GapKinds
  GapLane <- GapLanes
  NoGap = NoGap
  Guesses = {2}
  MaxTools = 7
  MaxActions = 5
SPECIFICATION Spec
CHECK_DEADLOCK FALSE
INVARIANTS
  BudgetSuffices
  LaneTruth
