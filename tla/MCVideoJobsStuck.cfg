CONSTANTS
  Targets = {a}
  MaxCopies = 2
  MaxJobs = 2
  MaxUploads = 1
  MaxTrouble = 0
  SamePid = FALSE
SPECIFICATION JobsFairSpec
CHECK_DEADLOCK FALSE
PROPERTY CancelEndsJob
