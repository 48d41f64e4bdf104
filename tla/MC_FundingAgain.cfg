\* One voter and a second election, with what the first has left on its way.
CONSTANTS
  s1 = s1
  Rolls = {s1}
  MaxMnemonics = 2
  MaxStarts = 2
  MaxFetches = 2
  MaxPool = 1
  MaxMails = 2
  MaxMishaps = 1
SPECIFICATION Spec
INVARIANTS TypeOK FundedIsPaid PaidOnce MailIsCurrent
CHECK_DEADLOCK FALSE
