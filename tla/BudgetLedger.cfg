\* Three runs, two commands at a time, budgets up to four units.
SPECIFICATION Spec
CONSTANTS
  Runs = {r1, r2, r3}
  NoRun = NoRun
  Procs = {p1, p2}
  NoProc = NoProc
  MaxBudget = 4
SYMMETRY Symmetry
INVARIANTS
  WithinBudget
CHECK_DEADLOCK FALSE
