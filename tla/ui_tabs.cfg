\* Two tabs that share one localStorage, with reloads and room for two chats with
\* an answered question, but not for all that can be asked; no symmetry, for the liveness property.
SPECIFICATION FairSpec
CONSTANTS
  Tabs = {t1, t2}
  MaxChats = 2
  MaxQuestions = 3
  Quota = 4
  Thinking = Thinking
  Failed = Failed
  None = None
INVARIANTS
  NothingLost
  AnswerWhereAsked
  StoredIsOneTabsView
PROPERTY AskEnds
