\* One run, exported twice, submitted from two state files by an operator who repeats what failed.
SPECIFICATION FairSpec
CONSTANTS
  Runs = {r1}
  NoRun = NoRun
  Data = {d1, d2}
  NoData = NoData
  TheKey = k1
  Keys = {k1}
  KeyOf <- SharedKey
  Procs = {p1}
  Receipts = {u1}
  Files = {f1, f2}
  NoPath = NoPath
  Jobs = {j1}
  NoJob = NoJob
PROPERTIES
  RequestIsResolved
CHECK_DEADLOCK FALSE
