\* Counterexample: an OTP accepted a day after it was made.
CONSTANTS
  s1 = s1
  s2 = s2
  e1 = e1
  t1 = t1
  t2 = t2
  NoOne = NoOne
  Rolls = {s1, s2}
  Emails = {e1}
  Tabs = {t1, t2}
  Day = 3
  MaxTime = 3
  MaxOTPs = 3
SPECIFICATION Spec
SYMMETRY Interchangeable
PROPERTIES ExpiresInFiveMinutes
