SPECIFICATION FairSpec
CONSTANTS
  None = None
  Order <- Two
  Settings <- LedgerReleasedSettings
PROPERTY
  EveryEntryRecorded
