SPECIFICATION Spec
CONSTANTS
  Request = {r1, r2}
  Session = {s1, s2}
  NoSession = none
  MaxFrames = 2
INVARIANT FallbackCarriesText
CHECK_DEADLOCK FALSE
