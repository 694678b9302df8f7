\* Three runs over a corpus of two objects.
SPECIFICATION Spec
CONSTANTS
  Runs = {r1, r2, r3}
  NoRun = NoRun
  FileCount = 2
SYMMETRY RunSymmetry
INVARIANTS
  LockOutlivesWork
  JobReadsOneSnapshot
  StartIsDurable
  LockIsReported
  CompleteIsIngested
PROPERTIES
  NoUploadDuringSync
CHECK_DEADLOCK FALSE
