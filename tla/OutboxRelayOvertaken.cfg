SPECIFICATION Spec
CONSTANTS
  e1 = e1
  e2 = e2
  e3 = e3
  k1 = k1
  k2 = k2
  Events = {e1, e2, e3}
  Keys = {k1, k2}
  Key <- MCKey
  Relays = {r1}
  BatchSize = 2
  MaxAttempts = 2
  Flaky = {e1}
  MaxCrashes = 0
PROPERTY
  NeverOvertaken
CHECK_DEADLOCK FALSE
