SPECIFICATION FairSpec
CONSTANTS
  Server = {a}
  Request = {q1, q2}
  Res = {r1}
  Kinds = {"owned"}
  None = None
PROPERTIES
  LeaseIsReleased
  RequestsAreAnswered
CHECK_DEADLOCK FALSE
