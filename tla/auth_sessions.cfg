\* Two tabs sign in, two requests, one sign-out, three sessions; everything is
\* done once, so a state without a successor is no error.
SPECIFICATION Spec
CONSTANTS
  Requests = {r1, r2}
  SignIns = {i1, i2}
  SignOuts = {o1}
  MaxSessions = 3
  None = None
SYMMETRY Symmetric
CHECK_DEADLOCK FALSE
INVARIANTS
  SessionKept
  OvertakenSignInFails
  SignedInHere
  SignedOutStays
