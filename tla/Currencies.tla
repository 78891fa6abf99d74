------------------------------ MODULE Currencies ------------------------------
(***************************************************************************)
(* The tables of internal/blockchain/eth/currency.go: the currencies whose *)
(* prices are fetched, and the tickers that have the price of another.     *)
(* Pricing has them as constants; its small instance restricts these.      *)
(***************************************************************************)
EXTENDS Sequences, FiniteSets

\* CURRENCIES, in the order in which updatePriceData takes them.
Fetchable == <<
  "BTC", "ETH", "BNB", "TONCOIN", "SHIB", "WBTC", "TRX", "LINK", "NEAR", "LEO", "UNI",
  "MNT", "OKB", "CRO", "RNDR", "ARB", "VEN", "IMX", "GRT", "INJ", "PEPE", "FET",
  "THETA", "FTM", "LDO", "BGB", "QNT", "BEAM", "ENA", "FLOKI", "WBT", "stkAAVE", "BTT",
  "ONDO", "RBN", "AGIX", "AXS", "SAND", "SNX", "CHZ", "WLD", "GNO", "KCS", "MANA",
  "PRIME", "APE", "AIOZ", "NEXO", "DEXE", "AXL", "Cake", "DYDX", "FRAX", "OM", "ILV",
  "BLUR", "XAUt", "PENDLE", "MX", "WOO", "OCEAN", "CRV", "IOTX", "ALT", "SKL", "ENJ",
  "NFT", "1INCH", "GMT", "PAXG", "ZIL", "ENS", "RPL", "WQTUM", "ZRX", "MEME", "CELO",
  "ELF", "HOT", "AMP" >>

\* CURRENCIES_REMAP, by the currency whose price is taken.
PricedAs ==
  [BTC  |-> {"wBTC"},
   ETH  |-> {"stETH", "eETH", "weETH", "rETH", "mETH", "rsETH", "cbETH", "frxETH"},
   USD  |-> {"USDT", "USDC", "DAI", "sUSDe", "USDe", "TUSD", "FDUSD", "FRAX"},
   MANA |-> {"wMANA"},
   CELO |-> {"wCELO"}]

Sources == DOMAIN PricedAs
Tickers == UNION {PricedAs[c] : c \in Sources}

Remap == [t \in Tickers |-> CHOOSE c \in Sources : t \in PricedAs[c]]

\* The names that are not in capitals, as they would be if they were: keys make
\* no difference between the two.
InCapitals == [stkAAVE |-> "STKAAVE", Cake |-> "CAKE", XAUt |-> "XAUT"]

KeyOf(c) == IF c \in DOMAIN InCapitals THEN InCapitals[c] ELSE c

FetchedNames == {Fetchable[i] : i \in DOMAIN Fetchable}

\* What the look-up relies on: a ticker that has the price of another currency
\* finds it among those that are fetched, or it is a dollar (remapCurrency).
ASSUME RemapFetched == Sources \ {"USD"} \subseteq FetchedNames
\* It finds it at once, because the table is looked at only once.
ASSUME RemapOnce == Sources \cap Tickers = {} /\ \A t \in Tickers : Remap[t] \in Sources
\* No currency is fetched twice, and none overwrites the prices of another.
ASSUME KeysDiffer == Cardinality({KeyOf(c) : c \in FetchedNames}) = Len(Fetchable)

=============================================================================
