SPECIFICATION FairSpec
CHECK_DEADLOCK FALSE
CONSTANTS
  Configs <- Packages
  Patience = 5
INVARIANTS
  Licensed
  KeysReady
  StagesInOrder
  ChoiceIsLegal
PROPERTIES
  KeepsChoices
  Ends
