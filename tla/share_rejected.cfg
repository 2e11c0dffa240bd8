SPECIFICATION FocusedSpec
CONSTANTS
  Campaigns = {c}
  Targets = {t}
  Workers = {a}
  Nothing = Nothing
  Exclusive = TRUE
  MaxRounds = 1
  MaxTokens = 1
  MaxVersion = 2
INVARIANT RejectedDidNotPost
CHECK_DEADLOCK FALSE
