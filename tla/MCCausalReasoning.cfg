\* Three lanes of which two are active; up to two rounds of reasoning.
CONSTANTS
  Lanes <- AllLanes
  Direction <- DirectionOf
  Recipe <- RecipeOf
  Queries = {"wide", "narrow"}
  Score <- WideAndNarrow
  ActiveLimit = 2
  CallLimit = 5
  MaxChallenges = 2
SPECIFICATION Spec
INVARIANTS
  InventoryAgrees
PROPERTIES
  EliminatedByChallenge
  ReopenedByEvidence
  PlannerCallKept
CHECK_DEADLOCK FALSE
