\* Counterexample: a page goes on to show a voter whose session is gone.
CONSTANTS
  Emails = {"e1"}
  Admin = "admin"
  Tabs = {"t1", "t2"}
  Browsers = {"b1"}
  NoOne = "nobody"
SPECIFICATION Spec
INVARIANT ShownStaysServed
CHECK_DEADLOCK FALSE
