SPECIFICATION Spec
CHECK_DEADLOCK FALSE
CONSTANTS
  Jobs <- MCJobs
  Steps <- MCSteps
  Origin <- MCOrigin
  Archive <- MCArchive
  Stamps <- MCStamps
  Goals <- MCGoals
  Ends <- MCEnds
  Reach <- MCReach
  MaxRuns = 2
INVARIANTS StartsClosed Settled NoFalseAlarm GoalsMet
