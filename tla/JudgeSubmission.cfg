\* Two runs that share an input key, two exports, two commands at a time.
SPECIFICATION Spec
CONSTANTS
  Runs = {r1, r2}
  NoRun = NoRun
  Data = {d1, d2}
  NoData = NoData
  TheKey = k1
  Keys = {k1}
  KeyOf <- SharedKey
  Procs = {p1, p2}
  Receipts = {u1}
  Files = {f1, f2}
  NoPath = NoPath
  Jobs = {j1, j2}
  NoJob = NoJob
SYMMETRY Symmetry
INVARIANTS
  OneJobPerRun
  SavedJobReadsSavedData
  ReceiptIsTrue
PROPERTIES
  SavedRequestIsKept
  ImplementsPayment
CHECK_DEADLOCK FALSE
