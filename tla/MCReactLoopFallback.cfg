\* A fallback over assessments that are out of date.
CONSTANTS
  mechanism = mechanism
  product = product
  traced = traced
  g1 = g1
  g2 = g2
  op = op
  Questions <- ContestQuestions
  QuestionKind <- ContestKind
  QuestionScope <- Anywheres
  Gaps = {g1, g2}
  Gap <- ContestGap
  Operations = {}
  Goals <- ContestGoals
  Modes = {"llm"}
  Asked <- ContestAsked
  Unsupported = {}
  Outcomes = {"supports", "missing"}
  RcaFindings <- ContestFindings
  SpecialistTools = {1}
  SpecialistCalls = {0}
  ReasoningCalls = {0}
  CallLimits <- NoLimit
SPECIFICATION Spec
INVARIANT
  FallbackPublishes
