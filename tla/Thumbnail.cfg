SPECIFICATION FairSpec
CONSTANTS
  Clips = {1, 2, 3, 4}
  Unreadable = {4}
  Batch = 2
  MaxFaults = 2
INVARIANTS TypeOK ReadyHasFile NotMadeTwice
PROPERTIES EveryClipGetsThumbnail
CHECK_DEADLOCK FALSE
