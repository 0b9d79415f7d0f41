\* Two rounds of the loop with up to two tool calls each, every text of up to
\* three or four pieces and some longer in either reply, several policies, every date.
\* The limit of rounds is six in the code; nothing depends on the number.
SPECIFICATION FairSpec
CONSTANTS
  MAX_REACT_ITERATIONS = 2
  MaxToolCalls = 2
  Texts <- MCTexts
  Folders <- MCFolders
  max_chars = 4
  scroll_limit = 5
  Dates = {0, 1, 2}
  NoPolicy = NoPolicy
  None = None
CHECK_DEADLOCK FALSE
INVARIANTS
  TypeOK
  ToolCallsAnswered
  PolicyCheckedIsInEffect
  PolicyTextWhole
  AnswerKept
  CostAccounted
PROPERTIES
  InvestigationEnds
