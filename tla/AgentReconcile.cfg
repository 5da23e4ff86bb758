SPECIFICATION FairSpec
CONSTANTS
  None = None
  Order <- Two
  Settings <- AgentSettings
INVARIANTS
  TypeOK
  AppliedIsEnforced
  OneStatusEach
PROPERTIES
  ReplacedBeforeDeleted
  EveryEntryRecorded
  ReportFollowsLedger
