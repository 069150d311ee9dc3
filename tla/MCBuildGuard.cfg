\* Three scheduled runs, a table of two, two fetches of a run at most.
SPECIFICATION MCSpec
CONSTANTS
  r1 = r1
  r2 = r2
  r3 = r3
  Runs <- MCRuns
  FetchBudget = 1
  FetchCountsMax = 2
  MaxFetches = 2
  MaxUnjudged = 1
SYMMETRY MCSymmetry
INVARIANTS
  Confined
  BudgetKept
CHECK_DEADLOCK FALSE
