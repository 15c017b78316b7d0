SPECIFICATION TextsSpec
CONSTANTS
  Terms <- MCTerms
  Edits <- MCEdits
  MaxEntries = 3
  MaxWords = 4
  MaxTokens = 4
  MaxClauses = 5
  WordBits = 16
  Second = 2
  SizeBits = 8
INVARIANT DecimalsLeftAlone
CHECK_DEADLOCK FALSE
