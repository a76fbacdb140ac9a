\* Four requests of two users and two organisations; a page holds one event.
SPECIFICATION Spec
CONSTANTS
  r1 = r1
  r2 = r2
  r3 = r3
  r4 = r4
  None = None
  Requests = {r1, r2, r3, r4}
  Identities <- Callers
  By <- ByThree
  Limit = 1
  MaxClock = 1
INVARIANTS
  OthersDoNotMatter
  AnsweredIsListed
