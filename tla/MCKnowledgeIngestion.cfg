\* Three uploads, two of which may have one content; two decisions at a time.
CONSTANTS
  ann = ann
  Ann = Ann
  bob = bob
  Candidates = {k1, k2, k3}
  Contents = {c1, c2}
  Seeded = {c2}
  Names = {ann, Ann, bob}
  Engineer <- Spelling
  Handlers = {h1, h2}
\* Every upload may have been refused, and none is left to decide on.
CHECK_DEADLOCK FALSE
SPECIFICATION Spec
PROPERTIES
  ImplementsReview
