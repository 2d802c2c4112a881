\* Two tabs and the card, two submissions, one failure.
CONSTANTS
  Place = {a, b}
  Photo = {f1, f2}
  Tab = {t1, t2}
  None = None
  Limit = 1
  MaxInputs = 2
  MaxSubmits = 2
  MaxFaults = 1
SPECIFICATION Spec
INVARIANTS
  PhotosAreStored
  RemovedStaysRemoved
  CoordinatesFit
  OneListingPerForm
  UnscoredOnlyFromStaleCard
SYMMETRY Symmetry
CHECK_DEADLOCK FALSE
