SPECIFICATION Spec
CHECK_DEADLOCK FALSE
CONSTANTS
  Jobs <- XorgOnly
  Steps <- MCSteps
  Origin <- MCOrigin
  Archive <- MCArchive
  Stamps <- MCStamps
  Goals <- MCGoals
  Ends <- MCEnds
  Reach <- MCReach
  MaxRuns = 2
INVARIANT
  RerunsSucceed
