CONSTANTS
  Tokens = {t1}
  NoToken = none
  FileCap = 2
  RingCap = 2
  MaxListens = 4
  MaxFaults = 1
  Refusable <- MCRefusable
  Targets = {a}
  MaxCopies = 2
  MaxJobs = 2
  MaxUploads = 3
  MaxTrouble = 1
  SamePid = FALSE
SPECIFICATION QueuesSpec
CHECK_DEADLOCK FALSE
INVARIANTS TypeOK NothingLost PostsHaveToken SentInOrder
  UploadsRight VideosAsAsked
PROPERTIES ImplementsOutbox OutboxServed ReplacedOnlyIfAsked EveryJobServed
