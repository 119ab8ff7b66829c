\* Two clicks that overlap, of all the operations, with bonds
\* the application may underestimate.
SPECIFICATION Spec
CONSTANTS
  t1 = t1
  t2 = t2
  Tries <- MCTries
  Offered <- Operations
  Funds = 4
  Target = 4
  Price = 2
  Estimate = 1
SYMMETRY Symmetry
INVARIANTS
  OneExecutionPerClick
  PromisesHold
CHECK_DEADLOCK FALSE
