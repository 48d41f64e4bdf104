\* Counterexample: a voter verified after the list came in is not mailed.
CONSTANTS
  s1 = s1
  s2 = s2
  Rolls = {s1, s2}
  MaxMnemonics = 2
  MaxStarts = 1
  MaxFetches = 2
  MaxPool = 1
  MaxMails = 1
  MaxMishaps = 1
SPECIFICATION Spec
SYMMETRY Interchangeable
PROPERTIES EveryoneMailed
CHECK_DEADLOCK FALSE
