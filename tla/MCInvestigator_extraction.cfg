\* Answers that are one object amid prose: a flat one, a nested one, and one
\* with a bracket in a string.
SPECIFICATION Spec
CONSTANTS
  MAX_REACT_ITERATIONS = 2
  MaxToolCalls = 2
  Texts <- MCDeepTexts
  Folders <- MCFolders
  max_chars = 4
  scroll_limit = 5
  Dates = {0, 1, 2}
  NoPolicy = NoPolicy
  None = None
CHECK_DEADLOCK FALSE
INVARIANTS
  OnlyObjectTaken
