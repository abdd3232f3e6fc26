\* Three lots, thirteen items of evidence in six reports, any citation.
CONSTANTS
  s = s
  a = a
  b = b
  exposed = exposed
  excursion = excursion
  impacted = impacted
  passed = passed
  narrow = narrow
  low = low
  hot = hot
  noTrace = noTrace
  voids = voids
  reported = reported
  precedent = precedent
  note = note
  normal = normal
  Evidence <- AllEvidence
  Fact <- Given
  Lanes = {1, 2}
  LaneFact <- Lane
  Lots <- AllLots
  Ids = {"O", "E", "A", "B", "R"}
  Labels = {"flow", "temperature", "void", "starvation"}
  NoLane = NoLane
  Stamps = {1, 2, 3, 4}
  Source = s
  Proposals <- GivenProposals
  Requests <- GivenRequests
  Reports <- GivenReports
  Late <- LateReports
  NoFinding = NoFinding
  NoResult = NoResult
SPECIFICATION Spec
CHECK_DEADLOCK FALSE
INVARIANTS
  RefusalHasWayForward
  PublishedLotsAreProven
PROPERTIES
  SupportedIsGrounded
