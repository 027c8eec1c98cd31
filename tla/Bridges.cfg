SPECIFICATION FairSpec
CONSTANTS
  Messages = {m1, m2}
  Programs <- MCPrograms
  MaxFaults = 2
INVARIANTS LostByFailureOnly
PROPERTIES NoneForgotten
CHECK_DEADLOCK FALSE
