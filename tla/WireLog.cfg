CONSTANTS
  Turns = {t1}
  MaxRecords = 4
  MaxCrashes = 2
SPECIFICATION FairSpec
INVARIANTS ResumeSound FlushMeansDisk
PROPERTIES CompactionSilent LandsOnDisk
CHECK_DEADLOCK FALSE
