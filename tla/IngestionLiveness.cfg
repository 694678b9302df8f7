\* Two runs of processes that keep running until they are killed.
SPECIFICATION FairSpec
CONSTANTS
  Runs = {r1, r2}
  NoRun = NoRun
  FileCount = 2
PROPERTIES
  RunsEnd
CHECK_DEADLOCK FALSE
