SPECIFICATION FairSpec
CONSTANTS
  MAX_CREDITS = 4
  Lengths = {0, 1}
  Gaps = {1}
  Margins = {1}
  Budgets = {2}
  Returns = {2, 3}
INVARIANTS Solvent HeaderMatchesReservation
PROPERTIES PacketsAtomic Resumes
