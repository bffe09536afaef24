SPECIFICATION FairSpec
CONSTANTS
  Name <- Questions
  Tabs <- TwoTabs
  Connections = 3
  Backlog = 2
  Oddities <- All
INVARIANTS
  NobodyForgotten
  OneClickOneAnswer
PROPERTIES
  EveryoneIsServed
CHECK_DEADLOCK FALSE
