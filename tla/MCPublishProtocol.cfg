\* A session, a watcher and two --set-password runs over an existing config.
CONSTANTS
  s1 = s1  s2 = s2  w1 = w1  p1 = p1  p2 = p2
  Sessions = {s1}
  Watchers = {w1}
  Setters = {p1, p2}
  MayAge = FALSE
  FirstRun = FALSE
SPECIFICATION Spec
INVARIANTS
  KeyboardHasOneOwner
  LiveShieldIsPublished
  ShieldAnswersToConfig
PROPERTIES
  ImplementsKeyboardOwner
  OnlySetPasswordChangesSecret
CHECK_DEADLOCK FALSE
