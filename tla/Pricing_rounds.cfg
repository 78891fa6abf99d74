CONSTANTS
  Name <- Names
  CURRENCIES <- Fetched
  CURRENCIES_REMAP <- Remapped
  USD = "USD"
  Key <- Keys
  ToLower <- LowerCase
  MAX_PRICE_DEPTH_DAYS = 3
  Window = 1
  DayLength = 2
  LastTick = 4
  MaxFaults = 1
SPECIFICATION FairSpec
INVARIANTS TypeOK Settled BestKnown GivesUpRightly
PROPERTIES AllPriced
