------------------------------ MODULE MCPricing ------------------------------
(***************************************************************************)
(* The tables of the program, restricted to two currencies, BTC and WBTC.  *)
(* The ticker wBTC has the price of BTC, though its key would be the one   *)
(* of WBTC: remapping tells capitals apart, keys do not.  USDT has the     *)
(* price of the dollar.                                                    *)
(***************************************************************************)
EXTENDS Pricing, Currencies, TLC

Names == {"USD", "USDT", "BTC", "wBTC", "WBTC"}

Fetched == <<"BTC", "WBTC">>

Remapped == ("wBTC" :> "BTC") @@ ("USDT" :> "USD")

\* The instance says of its names what the tables of the program say of them.
ASSUME FromTheTables ==
  /\ Fetched = SelectSeq(Fetchable, LAMBDA c : c \in Names)
  /\ Remapped = [t \in Tickers \cap Names |-> Remap[t]]

Keys == {"usd", "usdt", "btc", "wbtc"}

LowerCase ==
  ("USD" :> "usd") @@ ("USDT" :> "usdt") @@ ("BTC" :> "btc") @@ ("wBTC" :> "wbtc") @@ ("WBTC" :> "wbtc")

=============================================================================
