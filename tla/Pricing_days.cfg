CONSTANTS
  Name <- Names
  CURRENCIES <- Fetched
  CURRENCIES_REMAP <- Remapped
  USD = "USD"
  Key <- Keys
  ToLower <- LowerCase
  MAX_PRICE_DEPTH_DAYS = 3
  Window = 2
  DayLength = 2
  LastTick = 3
  MaxFaults = 0
SPECIFICATION Spec
INVARIANTS TenDays
