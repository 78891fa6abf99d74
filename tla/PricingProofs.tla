---------------------------- MODULE PricingProofs ----------------------------
(***************************************************************************)
(* The price that GetTokenPrice finds, for all currencies, windows and     *)
(* clocks: that of a day that was over is final, or nothing later is       *)
(* known, wherever the price indexer stands.                               *)
(***************************************************************************)
EXTENDS Pricing, TLAPS

Kinds == {"none", "partial", "final"}
K == ToLower[CURRENCIES[turn]]

\* No price is later than the last answer.
Recent ==
  \A k \in Key : \A d \in Day : quote[<<k, d>>] # "none" => d <= DayOf(fetchedAt)

\* No day before the one that is stored next has a price that is not final, be it
\* of this answer, which has stored it, or older than it, unless the currency has
\* lapsed.
Storing ==
  pc = "store" =>
    /\ turn <= Len(CURRENCIES)
    /\ next \in (DayOf(fetchedAt) - Window)..(DayOf(fetchedAt) + 1)
    /\ K \notin lapsed =>
         \A d \in Day : d < next /\ d < DayOf(fetchedAt) => quote[<<K, d>>] # "partial"

\* The days that have been looked at had no price, and none is taken away.
Looking ==
  /\ back >= 1
  /\ ~blurred /\ step \in {"reading", "found", "missing"} =>
       \A d \in known : DayOf(ask.time) - back < d => d >= DayOf(ask.time)
  /\ step = "reading" => \A d \in known : Stored(ask.currency, d) # "none"
  /\ step = "missing" => back >= MAX_PRICE_DEPTH_DAYS

\* The inductive invariant.
Indexing == TypeOK /\ Recent /\ Storing /\ Settled
IInv == Indexing /\ Looking /\ BestKnown

-----------------------------------------------------------------------------
(* Days.                                                                   *)

LEMMA DivMonotone ==
  ASSUME NEW D \in Nat \ {0}, NEW s \in Nat, NEW t \in Nat, s <= t
  PROVE  s \div D <= t \div D
  OBVIOUS

LEMMA DivNat ==
  ASSUME NEW D \in Nat \ {0}, NEW t \in Nat
  PROVE  t \div D \in Nat
  OBVIOUS

\* Days go forward.
LEMMA DayProps ==
  ASSUME NEW s \in 0..LastTick, NEW t \in 0..LastTick, s <= t
  PROVE  /\ DayOf(s) \in Nat /\ DayOf(t) \in Nat /\ DayOf(s) <= DayOf(t)
         /\ DayOf(LastTick) \in Nat /\ DayOf(t) <= DayOf(LastTick)
         /\ Window \in Nat
         /\ Day \subseteq Int
<1>1. s \in Nat /\ t \in Nat /\ LastTick \in Nat /\ t <= LastTick /\ DayLength \in Nat \ {0}
  BY DaysAssumption
<1>2. /\ DayOf(s) \in Nat /\ DayOf(t) \in Nat /\ DayOf(LastTick) \in Nat
      /\ DayOf(s) <= DayOf(t) /\ DayOf(t) <= DayOf(LastTick)
  BY <1>1, DivNat, DivMonotone DEF DayOf
<1>3. Window \in Nat
  BY DaysAssumption
<1> QED
  BY <1>2, <1>3 DEF Day

\* The key of the currency at hand.
LEMMA KeyOfTurn ==
  ASSUME TypeOK, turn <= Len(CURRENCIES)
  PROVE  CURRENCIES[turn] \in Name /\ K \in Key
<1>1. turn \in 1..Len(CURRENCIES)
  BY CurrenciesAssumption DEF TypeOK
<1> QED
  BY <1>1, CurrenciesAssumption, LowerAssumption DEF K

-----------------------------------------------------------------------------
(* The initial state.                                                      *)

LEMMA Initially == Init => IInv
<1> SUFFICES ASSUME Init PROVE IInv
  OBVIOUS
<1> USE DEF Init
<1>1. LastTick \in Nat /\ MaxFaults \in Nat /\ Len(CURRENCIES) \in Nat /\ 0 \in 0..LastTick
  BY DaysAssumption, CurrenciesAssumption
<1>2. DayOf(0) \in Nat
  BY <1>1, DayProps
<1>3. quote \in [Key \X Day -> Kinds] /\ \A k \in Key, d \in Day : quote[<<k, d>>] = "none"
  BY DEF Kinds
<1>4. turn \in 1..(Len(CURRENCIES) + 1)
  BY <1>1
<1>5. ask \in [currency : Name, time : 0..now]
  BY CurrenciesAssumption
<1>6. answer \in [day : Int, kind : Kinds]
  BY DEF Kinds
<1>7. TypeOK
  <2>1. /\ now \in 0..LastTick /\ fetchedAt \in 0..now /\ next \in Int /\ back \in Nat
        /\ faults \in 0..MaxFaults /\ known \subseteq Day /\ lapsed \subseteq Key
    BY <1>1
  <2>2. blurred \in BOOLEAN
    OBVIOUS
  <2> HIDE DEF Init
  <2>3. /\ pc \in {"asleep", "fetch", "store"}
        /\ step \in {"idle", "reading", "one", "found", "missing"}
    BY DEF Init
  <2> QED
    BY <2>1, <2>2, <2>3, <1>3, <1>4, <1>5, <1>6 DEF TypeOK, Kinds
<1>8. Recent /\ Settled /\ Storing
  BY <1>3 DEF Recent, Settled, Storing
<1>9. Looking /\ BestKnown
  BY DEF Looking, BestKnown
<1> QED
  BY <1>7, <1>8, <1>9 DEF IInv, Indexing

-----------------------------------------------------------------------------
(* The price indexer stores a price.                                       *)

\* What the store holds after a SET that was executed.
LEMMA AfterSet ==
  ASSUME Indexing, pc = "store", next <= DayOf(fetchedAt),
         NEW kind \in Kinds,
         kind = (IF next < DayOf(fetchedAt) THEN "final" ELSE "partial"),
         quote' = [quote EXCEPT ![<<K, next>>] = kind],
         UNCHANGED <<fetchedAt, turn, lapsed>>
  PROVE  /\ next \in Day /\ K \in Key
         /\ quote' \in [Key \X Day -> Kinds]
         /\ quote'[<<K, next>>] = kind
         /\ \A k \in Key, d \in Day : k # K \/ d # next => quote'[<<k, d>>] = quote[<<k, d>>]
         /\ Recent' /\ Settled'
<1> DEFINE f == DayOf(fetchedAt)
<1>1. fetchedAt \in 0..LastTick
  BY DaysAssumption DEF Indexing, TypeOK
<1>2. /\ f \in Nat /\ DayOf(LastTick) \in Nat /\ f <= DayOf(LastTick)
      /\ Window \in Nat /\ Day \subseteq Int
  BY <1>1, DayProps
<1>3. next \in (f - Window)..(f + 1) /\ turn <= Len(CURRENCIES) /\ K \in Key
  BY KeyOfTurn DEF Indexing, Storing
<1>4. f' = f /\ K' = K
  BY DEF DayOf, K
<1> HIDE DEF f
<1>5. next \in Day
  BY <1>2, <1>3 DEF Day, f
<1>6. quote \in [Key \X Day -> Kinds]
  BY DEF Indexing, TypeOK, Kinds
<1>7. <<K, next>> \in Key \X Day
  BY <1>3, <1>5
<1>8. /\ quote' \in [Key \X Day -> Kinds]
      /\ quote'[<<K, next>>] = kind
      /\ \A k \in Key, d \in Day : k # K \/ d # next => quote'[<<k, d>>] = quote[<<k, d>>]
  BY <1>6, <1>7
<1>9. next <= f /\ (kind = "partial" => next = f)
  BY <1>2, <1>3 DEF f
<1>10. Recent'
  <2> SUFFICES ASSUME NEW k \in Key, NEW d \in Day
               PROVE  quote'[<<k, d>>] # "none" => d <= f
    BY <1>4 DEF Recent, f, Day, DayOf
  <2>1. CASE k = K /\ d = next
    BY <2>1, <1>2, <1>5, <1>8, <1>9
  <2>2. CASE k # K \/ d # next
    BY <2>2, <1>8 DEF Indexing, Recent, f
  <2> QED
    BY <2>1, <2>2
<1>11. Settled'
  <2> SUFFICES ASSUME NEW k \in Key \ lapsed, NEW d \in Day, NEW e \in Day,
                      d < e, quote'[<<k, e>>] # "none"
               PROVE  quote'[<<k, d>>] # "partial"
    BY DEF Settled, Day, DayOf
  <2>1. d \in Int /\ e \in Int
    BY <1>2
  <2>2. CASE k # K \/ (d # next /\ e # next)
    BY <2>2, <1>8 DEF Indexing, Settled
  <2>3. CASE k = K /\ e = next
    <3>1. quote'[<<k, d>>] = quote[<<K, d>>] /\ d < next
      BY <2>1, <2>3, <1>8
    <3>2. d < f /\ K \notin lapsed
      BY <2>1, <2>3, <3>1, <1>2, <1>3, <1>9
    <3> QED
      BY <3>1, <3>2 DEF Indexing, Storing, f
  <2>4. CASE k = K /\ d = next
    <3>1. quote[<<k, e>>] # "none"
      BY <2>1, <2>4, <1>8
    <3>2. e <= f
      BY <3>1 DEF Indexing, Recent, f
    <3> QED
      BY <2>1, <2>4, <3>2, <1>2, <1>8, <1>9
  <2> QED
    BY <2>2, <2>3, <2>4
<1> QED
  BY <1>3, <1>5, <1>8, <1>10, <1>11

-----------------------------------------------------------------------------
(* The steps of the price indexer.                                         *)

LEMMA SetPriceDataStep ==
  ASSUME Indexing, SetPriceData, UNCHANGED <<now, reader>>
  PROVE  Indexing'
<1> USE DEF reader
<1> DEFINE kind == IF next < DayOf(fetchedAt) THEN "final" ELSE "partial"
           set == [quote EXCEPT ![<<K, next>>] = kind]
<1>1. /\ pc = "store" /\ next <= DayOf(fetchedAt) /\ UNCHANGED <<turn, fetchedAt, lapsed>>
      /\ \/ quote' = set /\ next' = next + 1 /\ UNCHANGED pc /\ NoFault
         \/ quote' \in {quote, set} /\ pc' = "asleep" /\ UNCHANGED next /\ Fault
  BY DEF SetPriceData, K
<1>2. kind \in Kinds
  BY DEF Kinds
<1>3. /\ next' \in Int /\ faults' \in 0..MaxFaults /\ pc' \in {"asleep", "store"}
  BY <1>1, DaysAssumption DEF Indexing, TypeOK, NoFault, Fault
<1>4. quote' \in [Key \X Day -> Kinds] => TypeOK'
  BY <1>1, <1>3 DEF Indexing, TypeOK, Kinds, Day, DayOf
<1>5. CASE quote' = set
  <2>1. /\ quote' \in [Key \X Day -> Kinds] /\ Recent' /\ Settled'
        /\ next \in Day /\ K \in Key /\ quote'[<<K, next>>] = kind
        /\ \A k \in Key, d \in Day : k # K \/ d # next => quote'[<<k, d>>] = quote[<<k, d>>]
    BY <1>1, <1>2, <1>5, AfterSet
  <2>2. Storing'
    <3>1. SUFFICES ASSUME pc' = "store" PROVE Storing'
      BY DEF Storing
    <3>2. next' = next + 1 /\ UNCHANGED <<turn, fetchedAt, lapsed>> /\ K' = K
      BY <1>1, <3>1 DEF K
    <3>3. /\ next \in Int /\ DayOf(fetchedAt) \in Nat /\ Window \in Nat /\ Day \subseteq Int
      BY DayProps, DaysAssumption DEF Indexing, TypeOK
    <3>4. next' \in (DayOf(fetchedAt) - Window)..(DayOf(fetchedAt) + 1) /\ turn <= Len(CURRENCIES)
      BY <1>1, <3>2, <3>3 DEF Indexing, Storing
    <3>5. ASSUME K \notin lapsed, NEW d \in Day, d < next + 1, d < DayOf(fetchedAt)
          PROVE  quote'[<<K, d>>] # "partial"
      <4>1. CASE d = next
        BY <2>1, <3>5, <4>1
      <4>2. CASE d # next
        <5>1. d < next
          BY <3>3, <3>5, <4>2
        <5> QED
          BY <1>1, <2>1, <3>5, <4>2, <5>1 DEF Indexing, Storing
      <4> QED
        BY <4>1, <4>2
    <3> QED
      BY <3>1, <3>2, <3>4, <3>5 DEF Storing, DayOf, Day
  <2> QED
    BY <1>4, <2>1, <2>2 DEF Indexing
<1>6. CASE quote' = quote /\ pc' = "asleep"
  <2>1. TypeOK'
    BY <1>4, <1>6 DEF Indexing, TypeOK, Kinds
  <2>2. Recent' /\ Settled' /\ Storing'
    BY <1>1, <1>6 DEF Indexing, Recent, Settled, Storing, DayOf, Day
  <2> QED
    BY <2>1, <2>2 DEF Indexing
<1> QED
  BY <1>1, <1>5, <1>6

\* The other steps of the price indexer leave the prices alone.
LEMMA PricesKept ==
  ASSUME Indexing, UNCHANGED <<now, reader, quote>>,
         Wake \/ FetchPriceData \/ NextCurrency \/ EndRound \/ Crash
  PROVE  Indexing'
<1> USE DEF reader
<1>1. /\ now \in 0..LastTick /\ fetchedAt \in 0..now /\ fetchedAt \in 0..LastTick
      /\ Len(CURRENCIES) \in Nat /\ faults \in 0..MaxFaults /\ MaxFaults \in Nat
      /\ fetchedAt <= now /\ turn \in 1..(Len(CURRENCIES) + 1)
  BY DaysAssumption, CurrenciesAssumption DEF Indexing, TypeOK
<1>2. /\ DayOf(fetchedAt) \in Nat /\ DayOf(now) \in Nat /\ DayOf(fetchedAt) <= DayOf(now)
      /\ Window \in Nat /\ Day \subseteq Int
  BY <1>1, DayProps
<1>3. /\ fetchedAt' \in 0..now /\ DayOf(fetchedAt) <= DayOf(fetchedAt')
      /\ pc' = "store" => /\ fetchedAt' = now /\ next' = DayOf(now) - Window
                          /\ turn' <= Len(CURRENCIES) /\ turn' = turn /\ Lapse
  <2>1. CASE FetchPriceData
    <3>1. /\ \/ fetchedAt' = now /\ next' = DayOf(now) - Window /\ turn' = turn /\ Lapse
             \/ fetchedAt' = fetchedAt /\ pc' \in {"asleep", "fetch"}
          /\ turn <= Len(CURRENCIES)
      BY <2>1 DEF FetchPriceData
    <3> QED
      BY <1>1, <1>2, <3>1
  <2>2. CASE Wake \/ NextCurrency \/ EndRound \/ Crash
    <3>1. fetchedAt' = fetchedAt /\ pc' \in {"asleep", "fetch"}
      BY <2>2 DEF Wake, NextCurrency, EndRound, Crash
    <3> QED
      BY <1>1, <1>2, <3>1
  <2> QED
    BY <2>1, <2>2
<1>4. turn' \in 1..(Len(CURRENCIES) + 1)
  <2>1. CASE NextCurrency
    <3>1. Storing /\ turn' = turn + 1 /\ pc = "store"
      BY <2>1 DEF NextCurrency, Indexing
    <3> QED
      BY <1>1, <3>1 DEF Storing
  <2>2. CASE Wake \/ FetchPriceData \/ EndRound \/ Crash
    <3>1. turn' \in {1, turn} \/ (turn <= Len(CURRENCIES) /\ turn' = turn + 1)
      BY <2>2 DEF Wake, FetchPriceData, EndRound, Crash
    <3> QED
      BY <1>1, <3>1
  <2> QED
    BY <2>1, <2>2
<1>5. pc' \in {"asleep", "fetch", "store"}
  BY DEF Wake, FetchPriceData, NextCurrency, EndRound, Crash
<1>6. faults' \in 0..MaxFaults
  <2>1. NoFault \/ Fault
    BY DEF Wake, FetchPriceData, NextCurrency, EndRound, Crash
  <2> QED
    BY <1>1, <2>1 DEF NoFault, Fault
<1>7. next' \in Int
  BY <1>2 DEF Wake, FetchPriceData, NextCurrency, EndRound, Crash, Indexing, TypeOK
<1>8. lapsed \subseteq lapsed' /\ lapsed' \subseteq Key
  <2>1. lapsed' = lapsed \/ (turn <= Len(CURRENCIES) /\ lapsed' \in {lapsed, lapsed \cup {K}})
    BY DEF Wake, FetchPriceData, NextCurrency, EndRound, Crash, Lapse, K
  <2> QED
    BY <2>1, KeyOfTurn DEF Indexing, TypeOK
<1>9. TypeOK'
  BY <1>3, <1>4, <1>5, <1>6, <1>7, <1>8 DEF Indexing, TypeOK, Day, DayOf
<1>10. Settled'
  BY <1>8 DEF Indexing, Settled, Day, DayOf
<1>11. Recent'
  <2> SUFFICES ASSUME NEW k \in Key, NEW d \in Day
               PROVE  quote[<<k, d>>] # "none" => d <= DayOf(fetchedAt')
    BY DEF Recent, Day, DayOf
  <2>1. fetchedAt' \in 0..LastTick
    BY <1>1, <1>3, DaysAssumption
  <2>2. DayOf(fetchedAt') \in Nat /\ d \in Int
    BY <1>2, <2>1, DayProps
  <2>3. QED
    <3>1. DayOf(fetchedAt) <= DayOf(fetchedAt')
      BY <1>3
    <3>2. quote[<<k, d>>] # "none" => d <= DayOf(fetchedAt)
      BY DEF Indexing, Recent
    <3> QED
      BY <1>2, <2>2, <3>1, <3>2
<1>12. Storing'
  <2> SUFFICES ASSUME pc' = "store" PROVE Storing'
    BY DEF Storing
  <2>1. fetchedAt' = now /\ next' = DayOf(now) - Window /\ turn' <= Len(CURRENCIES) /\ turn' = turn
    BY <1>3
  <2>2. DayOf(fetchedAt)' = DayOf(now) /\ Day' = Day /\ K' = K
    BY <2>1 DEF DayOf, Day, K
  <2>3. next' \in (DayOf(now) - Window)..(DayOf(now) + 1)
    BY <1>2, <2>1
  <2>4. ASSUME K \notin lapsed', NEW d \in Day, d < DayOf(now) - Window
        PROVE  quote[<<K, d>>] # "partial"
    <3>1. K \in Key \ lapsed /\ ~Overdue(K)
      BY <1>3, <1>8, <2>1, <2>4, KeyOfTurn DEF Lapse, Indexing, K
    <3>2. SUFFICES ASSUME quote[<<K, d>>] # "none" PROVE quote[<<K, d>>] # "partial"
      OBVIOUS
    <3>3. PICK e \in Day : quote[<<K, e>>] # "none" /\ ~(e < DayOf(now) - Window)
      BY <3>1, <3>2 DEF Overdue
    <3>4. d < e
      BY <1>2, <2>4, <3>3
    <3> QED
      BY <3>1, <3>3, <3>4 DEF Indexing, Settled
  <2> QED
    BY <2>1, <2>2, <2>3, <2>4 DEF Storing
<1> QED
  BY <1>9, <1>10, <1>11, <1>12 DEF Indexing

LEMMA TickStep ==
  ASSUME Indexing, Tick
  PROVE  Indexing'
<1>1. now \in 0..LastTick /\ now < LastTick /\ now' = now + 1 /\ UNCHANGED <<indexer, reader, faults>>
  BY DEF Tick, Indexing, TypeOK
<1>2. now' \in 0..LastTick /\ 0..now \subseteq 0..now'
  BY <1>1, DaysAssumption
<1>3. TypeOK'
  BY <1>1, <1>2 DEF Indexing, TypeOK, indexer, reader, Day, DayOf
<1> QED
  BY <1>1, <1>3 DEF Indexing, Recent, Storing, Settled, K, Day, DayOf, indexer

-----------------------------------------------------------------------------
(* The steps of GetTokenPrice.                                             *)

LEMMA RemapType ==
  ASSUME NEW n \in Name
  PROVE  RemapCurrency(n) \in Name
  BY RemapAssumption DEF RemapCurrency

\* What is stored for a currency, and what it is when it is read.
LEMMA StoredProps ==
  ASSUME TypeOK, NEW n \in Name, NEW d
  PROVE  /\ Stored(n, d) \in Kinds
         /\ Stored(n, d) # "none" => d \in Day
         /\ Settled /\ ToLower[n] \notin lapsed =>
              \A e \in Day : Stored(n, d) = "partial" /\ Stored(n, e) # "none" /\ d \in Int => e <= d
<1>1. ToLower[n] \in Key /\ Day \subseteq Int
  BY LowerAssumption DEF Day
<1>2. d \in Day => quote[<<ToLower[n], d>>] \in Kinds
  BY <1>1 DEF TypeOK, Kinds
<1>3. Stored(n, d) \in Kinds
  BY <1>2 DEF Stored, Kinds
<1>4. Stored(n, d) # "none" => d \in Day
  BY DEF Stored
<1>5. ASSUME Settled, ToLower[n] \notin lapsed, NEW e \in Day, Stored(n, d) = "partial", Stored(n, e) # "none", d \in Int
      PROVE  e <= d
  <2>1. d \in Day /\ quote[<<ToLower[n], d>>] = "partial" /\ quote[<<ToLower[n], e>>] # "none"
    BY <1>5 DEF Stored
  <2>2. ~(d < e)
    BY <1>1, <1>5, <2>1 DEF Settled
  <2> QED
    BY <1>1, <1>5, <2>2
<1> QED
  BY <1>3, <1>4, <1>5

\* The lookup leaves the price indexer as it is.
LEMMA IndexingKept ==
  ASSUME Indexing, UNCHANGED <<now, indexer>>, TypeOK'
  PROVE  Indexing'
  BY DEF Indexing, Recent, Storing, Settled, K, Day, DayOf, indexer

LEMMA GetTokenPriceStep ==
  ASSUME IInv, GetTokenPrice, UNCHANGED <<now, indexer>>
  PROVE  IInv'
<1>1. PICK n \in Name, t \in 0..now :
        /\ ask' = [currency |-> RemapCurrency(n), time |-> t]
        /\ step' = IF RemapCurrency(n) = USD THEN "one" ELSE "reading"
        /\ known' = {d \in Day : Stored(RemapCurrency(n), d) # "none"}
  BY DEF GetTokenPrice
<1>2. /\ back' = 1 /\ answer' = [day |-> 0, kind |-> "none"] /\ blurred' = FALSE /\ faults' = faults
  BY DEF GetTokenPrice, NoFault
<1>3. UNCHANGED <<now, quote, pc, turn, fetchedAt, next, lapsed>>
  BY DEF indexer
<1>4. ask' \in [currency : Name, time : 0..now] /\ ask'.time = t /\ ask'.currency = RemapCurrency(n)
  BY <1>1, RemapType
<1>5. step' \in {"one", "reading"} /\ known' \subseteq Day
  BY <1>1
<1>6. answer' \in [day : Int, kind : {"none", "partial", "final"}] /\ back' \in Nat
  BY <1>2
<1>7. blurred' \in BOOLEAN
  BY <1>2
<1>8. TypeOK'
  BY <1>2, <1>3, <1>4, <1>5, <1>6, <1>7 DEF IInv, Indexing, TypeOK, Day, DayOf
<1>9. Indexing'
  BY <1>8, IndexingKept DEF IInv
<1>10. Looking'
  <2>1. \A d \in known' : Stored(ask.currency, d)' # "none"
    BY <1>1, <1>3, <1>4 DEF Stored, Day, DayOf
  <2>2. DayOf(ask.time)' \in Nat /\ Day \subseteq Int
    <3>1. t \in 0..LastTick
      BY DaysAssumption DEF IInv, Indexing, TypeOK
    <3>2. DayOf(ask.time)' = DayOf(t)
      BY <1>4 DEF DayOf
    <3> QED
      BY <3>1, <3>2, DayProps
  <2>3. \A d \in known' : DayOf(ask.time)' - 1 < d => d >= DayOf(ask.time)'
    BY <2>2, <1>5
  <2> QED
    BY <1>2, <1>5, <2>1, <2>3 DEF Looking
<1>11. BestKnown'
  BY <1>5 DEF BestKnown
<1> QED
  BY <1>9, <1>10, <1>11 DEF IInv

\* Of the lookup, its day and its currency.
LEMMA AskProps ==
  ASSUME TypeOK
  PROVE  /\ ask.currency \in Name /\ DayOf(ask.time) \in Nat
         /\ known \subseteq Int /\ back \in Nat
<1>1. ask.currency \in Name /\ ask.time \in 0..LastTick
  BY DaysAssumption DEF TypeOK
<1>2. DayOf(ask.time) \in Nat /\ Day \subseteq Int
  BY <1>1, DayProps
<1> QED
  BY <1>1, <1>2 DEF TypeOK

LEMMA GetPriceStep ==
  ASSUME IInv, GetPrice, UNCHANGED <<now, indexer>>
  PROVE  IInv'
<1> DEFINE d == NormalizedBlockTime(ask.time, back)
           b == DayOf(ask.time)
           found == Stored(ask.currency, d)
<1>1. TypeOK /\ Settled /\ Looking
  BY DEF IInv, Indexing
<1>2. /\ ask.currency \in Name /\ b \in Nat /\ known \subseteq Int /\ back \in Nat /\ back >= 1
      /\ d = b - back /\ d \in Int /\ d < b
  <2>1. back >= 1
    BY <1>1 DEF Looking
  <2> QED
    BY <1>1, <2>1, AskProps DEF NormalizedBlockTime
<1>3. found \in Kinds /\ (found # "none" => d \in Day)
  BY <1>1, <1>2, StoredProps
<1>4. /\ step = "reading" /\ UNCHANGED <<ask, known>>
      /\ \/ /\ found # "none" /\ answer' = [day |-> d, kind |-> found]
            /\ step' = "found" /\ NoFault /\ UNCHANGED <<back, blurred>>
         \/ /\ found = "none" /\ back' = back + 1 /\ NoFault /\ UNCHANGED <<step, answer, blurred>>
         \/ /\ back' = back + 1 /\ blurred' = TRUE /\ Fault /\ UNCHANGED <<step, answer>>
  BY DEF GetPrice
<1>5. UNCHANGED <<now, quote, pc, turn, fetchedAt, next, lapsed>>
  BY DEF indexer
<1>6. \A e \in known : Stored(ask.currency, e) # "none" /\ e \in Day
  BY <1>1, <1>4 DEF Looking, TypeOK
<1>7. b' = b /\ \A e : Stored(ask.currency, e)' = Stored(ask.currency, e)
  BY <1>4, <1>5 DEF DayOf, Stored, Day
<1> HIDE DEF d, b, found
<1>8. faults' \in 0..MaxFaults
  BY <1>1, <1>4, DaysAssumption DEF TypeOK, NoFault, Fault
<1>9. CASE found # "none" /\ answer' = [day |-> d, kind |-> found]
           /\ step' = "found" /\ UNCHANGED <<back, blurred>>
  <2>1. answer' \in [day : Int, kind : Kinds] /\ answer'.day = d /\ answer'.kind = found
    BY <1>2, <1>3, <1>9
  <2>2. TypeOK'
    BY <1>1, <1>4, <1>5, <1>8, <1>9, <2>1 DEF TypeOK, Kinds, Day, DayOf
  <2>3. Looking'
    BY <1>1, <1>4, <1>7, <1>9 DEF Looking, b
  <2>4. found = "partial" /\ ToLower[ask.currency] \notin lapsed => \A e \in known : e <= d
    BY <1>1, <1>2, <1>6, StoredProps DEF found
  <2>5. ~blurred => known \cap ((d + 1)..(b - 1)) = {}
    <3>1. SUFFICES ASSUME ~blurred, NEW e \in known, e \in (d + 1)..(b - 1) PROVE FALSE
      OBVIOUS
    <3>2. b - back < e /\ e < b
      BY <1>2, <3>1
    <3>3. b - back < e => e >= b
      BY <1>1, <1>4, <3>1 DEF Looking, b
    <3> QED
      BY <1>2, <3>1, <3>2, <3>3
  <2>6. BestKnown'
    <3>1. UNCHANGED <<lapsed, ask, known, blurred>>
      BY <1>4, <1>5, <1>9
    <3> QED
      BY <1>2, <1>7, <2>1, <2>4, <2>5, <3>1 DEF BestKnown, b
  <2> QED
    BY <2>2, <2>3, <2>6, IndexingKept DEF IInv
<1>10. CASE back' = back + 1 /\ UNCHANGED <<step, answer>>
            /\ ((found = "none" /\ UNCHANGED blurred) \/ blurred' = TRUE)
  <2>1. blurred' \in BOOLEAN
    BY <1>1, <1>10 DEF TypeOK
  <2>2. TypeOK'
    BY <1>1, <1>2, <1>4, <1>5, <1>8, <1>10, <2>1 DEF TypeOK, Day, DayOf
  <2>3. ASSUME ~blurred', NEW e \in known, b - (back + 1) < e
        PROVE  e >= b
    <3>1. found = "none" /\ ~blurred
      BY <1>10, <2>3
    <3>2. e # d
      BY <1>6, <3>1 DEF found
    <3>3. b - back < e
      BY <1>2, <2>3, <3>2
    <3>4. b - back < e => e >= b
      BY <1>1, <1>4, <3>1, <2>3 DEF Looking, b
    <3> QED
      BY <3>3, <3>4
  <2>4. back + 1 >= 1
    BY <1>2
  <2>5. Looking'
    BY <1>4, <1>6, <1>7, <1>10, <2>3, <2>4 DEF Looking, b
  <2>6. BestKnown'
    BY <1>4, <1>10 DEF BestKnown
  <2> QED
    BY <2>2, <2>5, <2>6, IndexingKept DEF IInv
<1> QED
  BY <1>4, <1>9, <1>10

LEMMA PriceNotFoundStep ==
  ASSUME IInv, PriceNotFound, UNCHANGED <<now, indexer>>
  PROVE  IInv'
<1>1. /\ step = "reading" /\ step' = "missing" /\ back >= MAX_PRICE_DEPTH_DAYS
      /\ UNCHANGED <<now, quote, pc, turn, fetchedAt, next, lapsed, ask, back, answer, known, blurred, faults>>
  BY DEF PriceNotFound, NoFault, indexer
<1>2. TypeOK'
  BY <1>1 DEF IInv, Indexing, TypeOK, Day, DayOf
<1>3. Looking'
  BY <1>1 DEF IInv, Looking, DayOf, Stored, Day
<1>4. BestKnown'
  BY <1>1 DEF BestKnown
<1> QED
  BY <1>2, <1>3, <1>4, IndexingKept DEF IInv

-----------------------------------------------------------------------------
(* The theorems.                                                           *)

\* The lookup is where it was, and no price has been taken away.
LEMMA LookUpKept ==
  ASSUME Looking, BestKnown, TypeOK, UNCHANGED reader, lapsed \subseteq lapsed',
         \A n \in Name : \A d \in Day : Stored(n, d) # "none" => Stored(n, d)' # "none"
  PROVE  Looking' /\ BestKnown'
<1>1. UNCHANGED <<step, ask, back, answer, known, blurred>>
  BY DEF reader
<1>2. \A d \in known : Stored(ask.currency, d) # "none" => Stored(ask.currency, d)' # "none"
  <2>1. ask.currency \in Name /\ known \subseteq Day
    BY DEF TypeOK
  <2> QED
    BY <1>1, <2>1 DEF Stored
<1>3. Looking'
  BY <1>1, <1>2 DEF Looking, DayOf
<1>4. BestKnown'
  BY <1>1 DEF BestKnown, DayOf
<1> QED
  BY <1>3, <1>4

\* No SET takes a price away.
LEMMA SetAdds ==
  ASSUME Indexing, SetPriceData, UNCHANGED <<now, reader>>,
         NEW n \in Name, NEW d \in Day, Stored(n, d) # "none"
  PROVE  Stored(n, d)' # "none"
<1>1. PICK kind \in {"final", "partial"} :
        quote' = quote \/ quote' = [quote EXCEPT ![<<ToLower[CURRENCIES[turn]], next>>] = kind]
  BY DEF SetPriceData
<1>2. <<ToLower[n], d>> \in DOMAIN quote /\ quote[<<ToLower[n], d>>] # "none"
  BY LowerAssumption DEF Indexing, TypeOK, Stored
<1>3. quote'[<<ToLower[n], d>>] # "none"
  BY <1>1, <1>2
<1> QED
  BY <1>3 DEF Stored, Day, DayOf

LEMMA Inductive == IInv /\ [Next]_vars => IInv'
<1> SUFFICES ASSUME IInv, [Next]_vars PROVE IInv'
  OBVIOUS
<1>1. Indexing /\ Looking /\ BestKnown /\ TypeOK
  BY DEF IInv, Indexing
<1>2. CASE Tick
  <2>1. UNCHANGED <<reader, lapsed>> /\ \A n \in Name : \A d \in Day : Stored(n, d)' = Stored(n, d)
    BY <1>2 DEF Tick, indexer, Stored, Day, DayOf
  <2> QED
    BY <1>1, <1>2, <2>1, TickStep, LookUpKept DEF IInv
<1>3. CASE SetPriceData /\ UNCHANGED <<now, reader>>
  <2>1. UNCHANGED <<reader, lapsed>>
    BY <1>3 DEF SetPriceData
  <2>2. Indexing'
    BY <1>1, <1>3, SetPriceDataStep
  <2>3. \A n \in Name : \A d \in Day : Stored(n, d) # "none" => Stored(n, d)' # "none"
    BY <1>1, <1>3, SetAdds
  <2> QED
    BY <1>1, <2>1, <2>2, <2>3, LookUpKept DEF IInv
<1>4. CASE (Wake \/ FetchPriceData \/ NextCurrency \/ EndRound \/ Crash) /\ UNCHANGED <<now, reader>>
  <2>1. UNCHANGED quote
    BY <1>4 DEF Wake, FetchPriceData, NextCurrency, EndRound, Crash
  <2>2. \A n \in Name : \A d \in Day : Stored(n, d)' = Stored(n, d)
    BY <2>1 DEF Stored, Day, DayOf
  <2>3. lapsed \subseteq lapsed'
    BY <1>4 DEF Wake, FetchPriceData, NextCurrency, EndRound, Crash, Lapse
  <2>4. Indexing'
    BY <1>1, <1>4, <2>1, PricesKept
  <2> QED
    BY <1>1, <1>4, <2>2, <2>3, <2>4, LookUpKept DEF IInv
<1>5. CASE LookUp
  BY <1>5, GetTokenPriceStep, GetPriceStep, PriceNotFoundStep DEF LookUp
<1>6. CASE UNCHANGED vars
  <2>1. UNCHANGED <<now, quote, pc, turn, fetchedAt, next, lapsed, step, ask, back, answer, known, blurred, faults>>
    BY <1>6 DEF vars, indexer, reader
  <2>2. TypeOK'
    BY <1>1, <2>1 DEF TypeOK, Day, DayOf
  <2>3. Indexing'
    BY <1>1, <2>1, <2>2, IndexingKept DEF indexer
  <2>4. UNCHANGED <<reader, lapsed>> /\ \A n \in Name : \A d \in Day : Stored(n, d)' = Stored(n, d)
    BY <2>1 DEF reader, Stored, Day, DayOf
  <2> QED
    BY <1>1, <2>3, <2>4, LookUpKept DEF IInv
<1> QED
  BY <1>2, <1>3, <1>4, <1>5, <1>6 DEF Next, UpdatePriceData

LEMMA Invariance == Spec => []IInv
  BY Initially, Inductive, PTL DEF Spec

\* The variables keep to their types.
THEOREM PricingTypes == Spec => []TypeOK
  BY Invariance, PTL DEF IInv, Indexing

\* A price of a day that was not over is the last one of its currency: it is
\* overwritten before that of a later day is stored, wherever rounds of the price
\* indexer are interrupted and however long it has been running.  Excepted is a
\* currency from when an answer comes that no longer reaches back to its youngest
\* price.
THEOREM PricingSettled == Spec => []Settled
  BY Invariance, PTL DEF IInv, Indexing

\* A price that is found is of a day that was over, the latest that had one when
\* GetTokenPrice was called, if no read failed; and it is not final only if none
\* of a later day was there, or if an answer for its currency has come that no
\* longer reached back to its youngest price.
THEOREM PricingBestKnown == Spec => []BestKnown
  BY Invariance, PTL DEF IInv

\* If GetTokenPrice gives up, it had no price of the days it looks at.
THEOREM PricingGivesUp == Spec => []GivesUpRightly
<1>1. IInv => GivesUpRightly
  <2> SUFFICES ASSUME IInv, step = "missing", ~blurred,
                      NEW i \in 1..(MAX_PRICE_DEPTH_DAYS - 1), DayOf(ask.time) - i \in known
               PROVE  FALSE
    BY DEF GivesUpRightly
  <2>1. DayOf(ask.time) \in Nat /\ back \in Nat /\ MAX_PRICE_DEPTH_DAYS \in Nat
    BY AskProps, DaysAssumption DEF IInv, Indexing
  <2>2. /\ back >= MAX_PRICE_DEPTH_DAYS
        /\ \A d \in known : DayOf(ask.time) - back < d => d >= DayOf(ask.time)
    BY DEF IInv, Looking
  <2>3. DayOf(ask.time) - back < DayOf(ask.time) - i /\ DayOf(ask.time) - i < DayOf(ask.time)
    BY <2>1, <2>2
  <2> QED
    BY <2>1, <2>2, <2>3
<1> QED
  BY <1>1, Invariance, PTL

=============================================================================
