\* Two students with one email; three OTPs from two tabs; a day and more go by.
CONSTANTS
  s1 = s1
  s2 = s2
  e1 = e1
  t1 = t1
  t2 = t2
  NoOne = NoOne
  Rolls = {s1, s2}
  Emails = {e1}
  Tabs = {t1, t2}
  Day = 3
  MaxTime = 4
  MaxOTPs = 3
SPECIFICATION Spec
SYMMETRY Interchangeable
INVARIANTS TypeOK OneAccountEach FewUnused
PROPERTIES NoReuse ExpiresForTheDay
