SPECIFICATION FairSpec
CONSTANTS
  None = None
  Order <- Two
  Settings <- TwoEntriesSettings
PROPERTY
  EveryEntryRecorded
