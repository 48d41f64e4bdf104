\* Two voters with an account each, or one whose account is made anew; one election.
CONSTANTS
  s1 = s1
  s2 = s2
  Rolls = {s1, s2}
  MaxMnemonics = 2
  MaxStarts = 1
  MaxFetches = 2
  MaxPool = 1
  MaxMails = 1
  MaxMishaps = 1
SPECIFICATION Spec
SYMMETRY Interchangeable
INVARIANTS TypeOK FundedIsPaid PaidOnce MailIsCurrent
CHECK_DEADLOCK FALSE
