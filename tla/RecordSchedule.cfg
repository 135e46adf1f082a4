SPECIFICATION Spec
CONSTANTS
  LastDay = 1
  LastSec = 3
  Plans <- MCPlans
INVARIANT StatusIsDue
