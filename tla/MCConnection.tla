---------------------------- MODULE MCConnection ----------------------------
(***************************************************************************)
(* Instances of the connection manager for TLC.                            *)
(***************************************************************************)
EXTENDS ConnectionProperties, TLC

Cmd(op, arg, id) == [op |-> op, arg |-> arg, id |-> id]

\* One or two trades in a message, with prices that fall and rise.
TwoTrades(m) ==
  LET t == [price |-> IF m.seq % 2 = 0 THEN 9 - m.seq ELSE 9 + m.seq, qty |-> m.seq]
  IN  IF m.seq % 2 = 0 THEN <<t>> ELSE <<t, [price |-> 9, qty |-> 1]>>

Symmetry == Permutations(Symbols)

NoCommands == {}
NoSubscriptions == <<>>

\* The feeds of the data runs, subscribed before the run begins.
MarketFeed == {"ticker", "trade", "ownTrades"}
MarketSubscriptions ==
  <<Cmd("subscribe", "ticker", 1), Cmd("subscribe", "trade", 2), Cmd("subscribe", "ownTrades", 3)>>

\* As above, but a trade message without a trade among them, and a private feed
\* whose messages survival mode takes for status messages; two symbols, so that
\* two aggregates wait for one place.
HollowTrades(m) == IF m.seq = 5 THEN <<>> ELSE TwoTrades(m)
LossFeed == {"ticker", "trade", "openOrders"}
LossSubscriptions ==
  <<Cmd("subscribe", "ticker", 1), Cmd("subscribe", "trade", 2), Cmd("subscribe", "openOrders", 3)>>

\* Two keys that wait in the buffer, one of them subscribed in the run, and more
\* commands than there are slots, two of them orders.
EngineFeed == {"ticker", "ohlc1"}
EngineSubscriptions == <<Cmd("subscribe", "ticker", 1)>>
EngineCommands == {Cmd("subscribe", "ohlc", 2), Cmd("order", "", 3), Cmd("order", "", 4)}

\* The commands and feeds of the runs that expect a violation.
TickerFeed == {"ticker"}
TickerCommands == {Cmd("subscribe", "ticker", 1), Cmd("unsubscribe", "ticker", 2)}
TradeFeed == {"trade"}
TradeSubscriptions == <<Cmd("subscribe", "trade", 2)>>

=============================================================================
