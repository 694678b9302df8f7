\* Two runs under one key, two exports, submitted from two state files and
\* collected by two commands at a time into one directory.
SPECIFICATION CollectSpec
CONSTANTS
  Runs = {r1, r2}
  NoRun = NoRun
  Data = {d1, d2}
  NoData = NoData
  TheKey = k1
  Keys = {k1}
  KeyOf <- SharedKey
  Procs = {p1}
  Receipts = {u1}
  Files = {f1, f2}
  NoPath = NoPath
  Jobs = {j1, j2}
  NoJob = NoJob
  Collectors = {c1, c2}
  Outs = {o1}
  NoOut = NoOut
  Parts = {a1}
SYMMETRY Symmetry
CONSTRAINT AllCurrent
INVARIANTS
  ReportIsOfOneJob
  CompleteReportIsOfItsDataset
CHECK_DEADLOCK FALSE
