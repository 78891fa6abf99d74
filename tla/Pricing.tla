------------------------------- MODULE Pricing -------------------------------
(***************************************************************************)
(* The prices in Redis.  The price indexer (cmd/price_indexer) goes round  *)
(* the currencies, hour after hour, and stores for each the prices of the  *)
(* last days, the day that is not over included; GetTokenPrice             *)
(* (internal/blockchain/eth/currency.go) looks up the price for a block.   *)
(* The two run in different processes.                                     *)
(*                                                                         *)
(* A day is a number and stands for the Unix time of its first second,     *)
(* which is in the key of a price.  What a price is does not matter, but   *)
(* whether its day was over when it was fetched.                           *)
(***************************************************************************)
EXTENDS Integers, Sequences

CONSTANTS
  Name,                \* tickers of tokens and names of currencies
  CURRENCIES,          \* the currencies whose prices are fetched, in order
  CURRENCIES_REMAP,    \* tickers that have the price of another currency
  USD,
  Key,
  ToLower,             \* strings.ToLower, which priceDataKey applies
  MAX_PRICE_DEPTH_DAYS,
  Window,              \* the days before today that are fetched: 400
  DayLength,           \* the length of a day, in ticks of the clock
  LastTick,            \* when the clock stops (a bound)
  MaxFaults            \* how many faults may strike (a bound)

ASSUME CurrenciesAssumption == CURRENCIES \in Seq(Name) /\ USD \in Name
ASSUME RemapAssumption ==
  DOMAIN CURRENCIES_REMAP \subseteq Name /\ \A n \in DOMAIN CURRENCIES_REMAP : CURRENCIES_REMAP[n] \in Name
ASSUME LowerAssumption == ToLower \in [Name -> Key]
ASSUME DaysAssumption ==
  /\ MAX_PRICE_DEPTH_DAYS \in Nat /\ Window \in Nat /\ LastTick \in Nat /\ MaxFaults \in Nat
  /\ DayLength \in Nat \ {0}

VARIABLES
  now,         \* the clock
  quote,       \* the keys of prices: "none", "partial" (the day was not over) or "final"
  pc,          \* where the price indexer is: "asleep", "fetch" or "store"
  turn,        \* the index of the currency it is at
  fetchedAt,   \* when the prices it is storing were fetched
  next,        \* the day of the next price it stores
  lapsed,      \* the keys that went without prices for too long (history)
  step,        \* of GetTokenPrice: "idle", "reading", "one", "found" or "missing"
  ask,         \* its arguments
  back,        \* how many days it goes back
  answer,      \* what it has found
  known,       \* the days that had a price when it was called (history)
  blurred,     \* has a read of it failed? (history)
  faults       \* faults so far

indexer == <<quote, pc, turn, fetchedAt, next, lapsed>>
reader == <<step, ask, back, answer, known, blurred>>
vars == <<now, indexer, reader, faults>>

DayOf(t) == t \div DayLength
Day == (0 - Window)..DayOf(LastTick)

Fault == faults < MaxFaults /\ faults' = faults + 1
NoFault == UNCHANGED faults

Init ==
  /\ now = 0
  /\ quote = [kd \in Key \X Day |-> "none"]
  /\ pc = "asleep"
  /\ turn = 1
  /\ fetchedAt = 0
  /\ next = 0
  /\ lapsed = {}
  /\ step = "idle"
  /\ ask = [currency |-> USD, time |-> 0]
  /\ back = 1
  /\ answer = [day |-> 0, kind |-> "none"]
  /\ known = {}
  /\ blurred = FALSE
  /\ faults = 0

Tick ==
  /\ now < LastTick
  /\ now' = now + 1
  /\ UNCHANGED <<indexer, reader, faults>>

-----------------------------------------------------------------------------
(* The price indexer: main and updatePriceData.                            *)

\* An hour is over, or the process has been started again.
Wake ==
  /\ pc = "asleep"
  /\ pc' = "fetch"
  /\ turn' = 1
  /\ NoFault
  /\ UNCHANGED <<quote, fetchedAt, next, lapsed>>

\* Prices have been stored under this key, but the youngest is older than the days
\* that an answer has now: the outage has left a hole behind it, which no answer
\* will ever fill.
Overdue(k) ==
  LET days == {d \in Day : quote[<<k, d>>] # "none"} IN
  days # {} /\ \A d \in days : d < DayOf(now) - Window

\* The history of an answer that has come.
Lapse ==
  LET k == ToLower[CURRENCIES[turn]] IN
  lapsed' = IF Overdue(k) THEN lapsed \cup {k} ELSE lapsed

\* Variant: an error ends the process.
FetchPriceData_Ends ==
  /\ pc = "fetch"
  /\ turn <= Len(CURRENCIES)
  /\ \/ fetchedAt' = now /\ next' = DayOf(now) - Window /\ Lapse /\ pc' = "store" /\ NoFault
     \/ UNCHANGED <<fetchedAt, next, lapsed>> /\ pc' = "ended" /\ Fault
  /\ UNCHANGED <<quote, turn>>

\* fetchPriceData: the answer has the prices of the last days, oldest first; or
\* there is none and the round is over; or it is an error message in JSON, which
\* is read as an answer without prices.
FetchPriceData ==
  /\ pc = "fetch"
  /\ turn <= Len(CURRENCIES)
  /\ \/ fetchedAt' = now /\ next' = DayOf(now) - Window /\ Lapse /\ pc' = "store" /\ NoFault /\ UNCHANGED turn
     \/ UNCHANGED <<fetchedAt, next, lapsed, turn>> /\ pc' = "asleep" /\ Fault
     \/ UNCHANGED <<fetchedAt, next, lapsed, pc>> /\ turn' = turn + 1 /\ Fault
  /\ UNCHANGED quote

\* Variant: a price that is there is kept.
SetPriceData_Once ==
  LET key == <<ToLower[CURRENCIES[turn]], next>>
      set == [quote EXCEPT ![key] =
                IF @ # "none" THEN @ ELSE IF next < DayOf(fetchedAt) THEN "final" ELSE "partial"]
  IN
  /\ pc = "store"
  /\ next <= DayOf(fetchedAt)
  /\ \/ quote' = set /\ next' = next + 1 /\ UNCHANGED pc /\ NoFault
     \/ quote' \in {quote, set} /\ pc' = "asleep" /\ UNCHANGED next /\ Fault
  /\ UNCHANGED <<turn, fetchedAt, lapsed>>

\* SetPriceData.  An error ends the round, whether Redis had executed the
\* command or not.
SetPriceData ==
  LET set == [quote EXCEPT ![<<ToLower[CURRENCIES[turn]], next>>] =
                             IF next < DayOf(fetchedAt) THEN "final" ELSE "partial"]
  IN
  /\ pc = "store"
  /\ next <= DayOf(fetchedAt)
  /\ \/ quote' = set /\ next' = next + 1 /\ UNCHANGED pc /\ NoFault
     \/ quote' \in {quote, set} /\ pc' = "asleep" /\ UNCHANGED next /\ Fault
  /\ UNCHANGED <<turn, fetchedAt, lapsed>>

\* Variant: a currency is left out.
NextCurrency_Skips ==
  /\ pc = "store"
  /\ next > DayOf(fetchedAt)
  /\ pc' = "fetch"
  /\ turn' = turn + 2
  /\ NoFault
  /\ UNCHANGED <<quote, fetchedAt, next, lapsed>>

NextCurrency ==
  /\ pc = "store"
  /\ next > DayOf(fetchedAt)
  /\ pc' = "fetch"
  /\ turn' = turn + 1
  /\ NoFault
  /\ UNCHANGED <<quote, fetchedAt, next, lapsed>>

EndRound ==
  /\ pc = "fetch"
  /\ turn > Len(CURRENCIES)
  /\ pc' = "asleep"
  /\ NoFault
  /\ UNCHANGED <<quote, turn, fetchedAt, next, lapsed>>

\* The process dies; what it had fetched is lost.
Crash ==
  /\ pc \in {"fetch", "store"}
  /\ pc' = "asleep"
  /\ Fault
  /\ UNCHANGED <<quote, turn, fetchedAt, next, lapsed>>

UpdatePriceData ==
  /\ Wake \/ FetchPriceData \/ SetPriceData \/ NextCurrency \/ EndRound
  /\ UNCHANGED <<now, reader>>

-----------------------------------------------------------------------------
(* GetTokenPrice.                                                          *)

RemapCurrency(n) == IF n \in DOMAIN CURRENCIES_REMAP THEN CURRENCIES_REMAP[n] ELSE n

\* Variant: the days are counted from 0.
NormalizedBlockTime_SameDay(t, days) == DayOf(t) - (days - 1)

\* normalizedBlockTime: the day that is so many days before the one of the block.
NormalizedBlockTime(t, days) == DayOf(t) - (IF days < 1 THEN 1 ELSE days)

\* The price that is stored for a day, if any.
Stored(n, d) == IF d \in Day THEN quote[<<ToLower[n], d>>] ELSE "none"

\* The indexer calls for a block that is on the chain, and waits for the result.
GetTokenPrice ==
  /\ step # "reading"
  /\ \E n \in Name, t \in 0..now :
       /\ ask' = [currency |-> RemapCurrency(n), time |-> t]
       /\ step' = IF RemapCurrency(n) = USD THEN "one" ELSE "reading"
       /\ known' = {d \in Day : Stored(RemapCurrency(n), d) # "none"}
  /\ back' = 1
  /\ answer' = [day |-> 0, kind |-> "none"]
  /\ blurred' = FALSE
  /\ NoFault

\* A turn of its loop.  A failed read is taken for a missing price.
GetPrice ==
  LET d == NormalizedBlockTime(ask.time, back) IN
  /\ step = "reading"
  /\ back < MAX_PRICE_DEPTH_DAYS
  /\ \/ /\ Stored(ask.currency, d) # "none"
        /\ answer' = [day |-> d, kind |-> Stored(ask.currency, d)]
        /\ step' = "found"
        /\ NoFault
        /\ UNCHANGED <<back, blurred>>
     \/ /\ Stored(ask.currency, d) = "none"
        /\ back' = back + 1
        /\ NoFault
        /\ UNCHANGED <<step, answer, blurred>>
     \/ /\ back' = back + 1
        /\ blurred' = TRUE
        /\ Fault
        /\ UNCHANGED <<step, answer>>
  /\ UNCHANGED <<ask, known>>

\* Variant: the loop ends a day early.
PriceNotFound_Early ==
  /\ step = "reading"
  /\ back >= MAX_PRICE_DEPTH_DAYS - 1
  /\ step' = "missing"
  /\ NoFault
  /\ UNCHANGED <<ask, back, answer, known, blurred>>

\* The loop is over.
PriceNotFound ==
  /\ step = "reading"
  /\ back >= MAX_PRICE_DEPTH_DAYS
  /\ step' = "missing"
  /\ NoFault
  /\ UNCHANGED <<ask, back, answer, known, blurred>>

LookUp ==
  /\ GetTokenPrice \/ GetPrice \/ PriceNotFound
  /\ UNCHANGED <<now, indexer>>

-----------------------------------------------------------------------------
Next ==
  \/ Tick
  \/ UpdatePriceData
  \/ Crash /\ UNCHANGED <<now, reader>>
  \/ LookUp

Spec == Init /\ [][Next]_vars

\* The price indexer goes on, and it is started again when it dies.
FairSpec == Spec /\ WF_vars(UpdatePriceData)

-----------------------------------------------------------------------------
(* Properties.                                                             *)

TypeOK ==
  /\ now \in 0..LastTick
  /\ quote \in [Key \X Day -> {"none", "partial", "final"}]
  /\ pc \in {"asleep", "fetch", "store"}
  /\ turn \in 1..(Len(CURRENCIES) + 1)
  /\ fetchedAt \in 0..now
  /\ next \in Int
  /\ lapsed \subseteq Key
  /\ step \in {"idle", "reading", "one", "found", "missing"}
  /\ ask \in [currency : Name, time : 0..now]
  /\ back \in Nat
  /\ answer \in [day : Int, kind : {"none", "partial", "final"}]
  /\ known \subseteq Day
  /\ blurred \in BOOLEAN
  /\ faults \in 0..MaxFaults

\* Wherever a round of the price indexer is interrupted, and however late the next
\* one is, the price of a day that was not over when it was fetched is the last
\* one of its currency: updatePriceData overwrites it before it stores that of a
\* later day.  Only a currency that was without new prices for longer than an
\* answer reaches back is left with such a price for ever, whatever the others had.
Settled ==
  \A k \in Key \ lapsed : \A d, e \in Day :
    d < e /\ quote[<<k, e>>] # "none" => quote[<<k, d>>] # "partial"

\* The price for a block is that of a day that was over when the block was made.
\* It is the latest one that GetTokenPrice could have found when it was called,
\* unless a read failed; and, unless the currency has lapsed, it is not final only
\* if none of a later day was there, however the price indexer went on in between.
BestKnown ==
  step = "found" =>
    /\ answer.day < DayOf(ask.time)
    /\ ~blurred => known \cap ((answer.day + 1)..(DayOf(ask.time) - 1)) = {}
    /\ answer.kind = "partial" /\ ToLower[ask.currency] \notin lapsed => \A d \in known : d <= answer.day

\* GetTokenPrice gives up only if it had no price of the days it looks at.
GivesUpRightly ==
  step = "missing" /\ ~blurred =>
    \A i \in 1..(MAX_PRICE_DEPTH_DAYS - 1) : DayOf(ask.time) - i \notin known

\* "if db does not have price for the block, try to get it for the previous 10
\* days": it gives up only if it had no price of these.
TenDays ==
  step = "missing" /\ ~blurred =>
    \A i \in 1..10 : DayOf(ask.time) - i \notin known

\* Whatever goes wrong for a while, every currency gets the final prices of the
\* days that are over.
AllPriced ==
  <>[](\A i \in DOMAIN CURRENCIES : \A d \in (DayOf(now) - Window)..(DayOf(now) - 1) :
         Stored(CURRENCIES[i], d) = "final")

=============================================================================
