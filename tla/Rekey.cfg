CONSTANTS
  MaxApp = 3
  MaxRounds = 4
SPECIFICATION FairSpec
INVARIANTS NoError OrderKept
PROPERTIES KeysFresh ExchangesEnd
CHECK_DEADLOCK FALSE
