SPECIFICATION AuthoritySpec
CONSTANTS
  Periods = {1, 2}
  Long = {2}
  Enough = 3
  MaxTime = 8
  MaxWeak = 1
  MaxGaps = 1
CHECK_DEADLOCK FALSE
INVARIANT CountdownIsHonest
PROPERTY BeliefsMoveForward
