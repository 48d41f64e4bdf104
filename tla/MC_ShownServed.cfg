\* Counterexample: another tab changes the session while the profile is on its way.
CONSTANTS
  Emails = {"e1", "e2"}
  Admin = "admin"
  Tabs = {"t1", "t2"}
  Browsers = {"b1"}
  NoOne = "nobody"
SPECIFICATION Spec
PROPERTY ShownIsServed
CHECK_DEADLOCK FALSE
