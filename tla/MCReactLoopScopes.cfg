\* Other intents, questions about an operation, new and unsupported questions.
CONSTANTS
  mechanism = mechanism
  product = product
  traced = traced
  g1 = g1
  g2 = g2
  op = op
  Questions <- ScopesQuestions
  QuestionKind <- ScopesKind
  QuestionScope <- ScopesScope
  Gaps = {g1, g2}
  Gap <- ScopesGap
  Operations = {op}
  Goals <- ScopesGoals
  Modes = {"llm"}
  Asked <- ScopesAsked
  Unsupported = {traced}
  Outcomes = {"supports"}
  RcaFindings <- ScopesFindings
  SpecialistTools = {1}
  SpecialistCalls = {0}
  ReasoningCalls = {0}
  CallLimits <- NoLimit
SPECIFICATION Spec
INVARIANTS
  RoundsEarned
