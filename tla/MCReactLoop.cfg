\* A root-cause investigation with two discriminators; fallback anywhere.
CONSTANTS
  mechanism = mechanism
  product = product
  traced = traced
  g1 = g1
  g2 = g2
  op = op
  Questions <- ContestQuestions
  QuestionKind <- ContestKind
  QuestionScope <- Anywheres
  Gaps = {g1, g2}
  Gap <- ContestGap
  Operations = {}
  Goals <- ContestGoals
  Modes = {"llm", "controlled"}
  Asked <- ContestAsked
  Unsupported = {}
  Outcomes = {"supports", "missing"}
  RcaFindings <- ContestFindings
  SpecialistTools = {1}
  SpecialistCalls = {0}
  ReasoningCalls = {2}
  CallLimits <- LowLimit
SPECIFICATION Spec
INVARIANTS
  NoReplay
  SupportedIsAuthoritative
  VerdictFollowsContest
  TerminalIsProven
PROPERTIES
  SettledOnce
  InvestigationEnds
