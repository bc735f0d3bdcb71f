\* A session starts and outlives the 24 h window while another waits for its grants.
CONSTANTS
  s1 = s1  s2 = s2  w1 = w1  p1 = p1
  Sessions = {s1, s2}
  Watchers = {}
  Setters = {}
  MayAge = TRUE
  FirstRun = FALSE
SPECIFICATION Spec
INVARIANTS
  LiveShieldIsPublished
CHECK_DEADLOCK FALSE
