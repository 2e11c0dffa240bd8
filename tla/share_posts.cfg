\* Two rounds of one share, or one round of two shares of one post, on two workers.
SPECIFICATION FocusedSpec
CONSTANTS
  Campaigns = {c, d}
  Targets = {t}
  Workers = {a, b}
  Nothing = Nothing
  Exclusive = FALSE
  MaxRounds = 2
  MaxTokens = 2
  MaxVersion = 4
SYMMETRY Sym
INVARIANTS TypeOK OnePostPerRound DoneIsSettled PublishedIsRecorded
PROPERTIES SettledRoundStays RevokesTheTokenUsed
CHECK_DEADLOCK FALSE
