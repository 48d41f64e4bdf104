\* Counterexample: the admin logs out, and the session stays.
CONSTANTS
  Emails = {"e1"}
  Admin = "admin"
  Tabs = {"t1", "t2"}
  Browsers = {"b1"}
  NoOne = "nobody"
SPECIFICATION Spec
PROPERTY LogoutEndsSession
CHECK_DEADLOCK FALSE
