SPECIFICATION Spec
CHECK_DEADLOCK FALSE
CONSTANTS
  Jobs <- SwitchJobs
  Steps <- MCSteps
  Origin <- MCOrigin
  Archive <- MCArchive
  Stamps <- MCStamps
  Goals <- SwitchGoals
  Ends <- MCEnds
  Reach <- MCReach
  MaxRuns = 2
INVARIANT
  NothingForeign
