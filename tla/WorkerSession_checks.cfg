SPECIFICATION FairSpec
CONSTANTS
  MaxTokens = 4
  MaxPrompts = 2
  MaxRaw = 2
INVARIANTS TypeOK RestIsQuiet AnswersAreHonest SecretsGoToTheirPrompt
PROPERTIES TransitionsAllowed RequestsEnd
CHECK_DEADLOCK FALSE
