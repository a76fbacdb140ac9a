\* Three runs of two sources that share an id: one after another, as the workflow
\* starts them, or overlapping. The system stops when every run has ended.
SPECIFICATION FairSpec
CONSTANTS
  a = a
  b = b
  a1 = a1
  a2 = a2
  a3 = a3
  b1 = b1
  q1 = q1
  q2 = q2
  s1 = s1
  s2 = s2
  None = None
  QueryIds = {q1, q2}
  SqlTexts = {s1, s2}
  Commits = {a1, a2, a3, b1}
  Sources = {a, b}
  SourceOf <- SourceOfCommit
  Listing <- ListingOf
  History <- HistoryOf
  Runs = {w1, w2, w3}
CHECK_DEADLOCK FALSE
INVARIANT IndInv
PROPERTIES
  PublishesSnapshots
  SoloRunHeals
  EveryRunEnds
