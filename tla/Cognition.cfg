\* Every text of up to three tokens, values with up to two tokens before and up to
\* two after them, three together, and every policy of three attempts.
SPECIFICATION MCSpec
CONSTANTS
  Policies <- MCPolicies
  Answer <- MCAnswer
  Blank <- MCBlank
  Decoded <- MCDecoded
  ShortText = 3
  MaxAround = 2
  MaxTogether = 3
INVARIANTS
  AnswerIsFound
CHECK_DEADLOCK FALSE
