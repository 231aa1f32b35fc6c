SPECIFICATION FairSpec
CONSTANTS
  Notes = {"n"}
  Mirrored = {}
  Pages = {"p"}
  Search = "search"
  ToolBudget = 1
  MaxTurns = 2
  MaxAsks = 2
  MaxEvents = 1
CHECK_DEADLOCK FALSE
INVARIANTS
  WithheldStaysHome
  PurgedIsNotShown
  EverySendIsLogged
  SavedAsConfirmed
PROPERTIES
  QuestionsEnd
