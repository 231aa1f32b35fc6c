SPECIFICATION ScreensSpec
CONSTANTS
  Notes = {n1, n2}
  Texts = {"x"}
  MaxDepth = 4
  MaxTyped = 2
  MaxElsewhere = 2
SYMMETRY Symmetry
CHECK_DEADLOCK FALSE
INVARIANTS
  EditedTextKept
  ListsAreCurrent
  PanelFollowsText
