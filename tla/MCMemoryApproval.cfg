\* Two decisions in progress and one reader, on one candidate.
CONSTANTS
    Jobs = {j1}
    Names <- MCNames
    Engineer <- MCEngineer
    Handlers = {h1, h2}
    Readers = {r1}
SPECIFICATION Spec
INVARIANTS LibraryIsApproved TrailAgrees ViewIsSound
PROPERTIES ImplementsReview
