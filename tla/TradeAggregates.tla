-------------------------- MODULE TradeAggregates ---------------------------
(***************************************************************************)
(* What becomes of trades under pressure: TradeAggregate                   *)
(* (conflation/buffer.rs) merges them one by one, conflation/rules.rs      *)
(* makes a batch or a summary of an aggregate, and ConflatedMessage        *)
(* (model/conflated.rs) is what the application reads of either.           *)
(*                                                                         *)
(* A trade is a price and a quantity, both numbers; the side and the time  *)
(* of the first and the last trade are left out.  An item of the event     *)
(* channel also says which messages it was made of (msgs), which the text  *)
(* does not: the properties need it.                                       *)
(***************************************************************************)
EXTENDS Messages, Sequences

CONSTANTS
  TradesOf(_),  \* the trades in a trade message, in their order
  BatchLimit    \* the ten trades up to which a batch is sent

ASSUME BatchAssumption == BatchLimit \in Nat

Trade == [price : Nat, qty : Nat]

Aggregate ==
  [volume : Nat, min : Nat, max : Nat, last : Nat, count : Nat \ {0}, trades : Seq(Trade)]

Lower(x, y) == IF x < y THEN x ELSE y
Higher(x, y) == IF x > y THEN x ELSE y

\* TradeAggregate::new.
FirstTrade(t) ==
  [volume |-> t.qty, min |-> t.price, max |-> t.price, last |-> t.price,
   count |-> 1, trades |-> <<t>>]

\* TradeAggregate::merge.
MergeTrade(a, t) ==
  [volume |-> a.volume + t.qty,
   min    |-> Lower(a.min, t.price),
   max    |-> Higher(a.max, t.price),
   last   |-> t.price,
   count  |-> a.count + 1,
   trades |-> Append(a.trades, t)]

\* merge_trade_aggregates: one trade after the other.
MergeTrades(a, ts) ==
  LET merged[n \in 0 .. Len(ts)] == IF n = 0 THEN a ELSE MergeTrade(merged[n - 1], ts[n])
  IN  merged[Len(ts)]

\* Slip: the message's first trade stands for all of them.
SlipFirstOnly(ts) == FirstTrade(Head(ts))

\* create_trade_aggregate, of at least one trade.
CreateAggregate(ts) == MergeTrades(FirstTrade(Head(ts)), Tail(ts))

-----------------------------------------------------------------------------
\* Items of the event channel.

Single(m) == [form |-> "single", msgs |-> {m}]

\* build_trade_batch_json and build_trade_aggregate_json, of the aggregate a
\* and the messages it was made of.
Batch(a, msgs) ==
  [form |-> "batch", msgs |-> msgs, data |-> a.trades,
   stats |-> [volume |-> a.volume, min |-> a.min, max |-> a.max, count |-> a.count]]

Summary(a, msgs) ==
  [form |-> "aggregate", msgs |-> msgs,
   data |-> <<[volume |-> a.volume, min |-> a.min, max |-> a.max, last |-> a.last,
               count |-> a.count]>>]

\* flush_trade_aggregates: many trades become a summary.
ItemOf(a, msgs) == IF a.count > BatchLimit THEN Summary(a, msgs) ELSE Batch(a, msgs)

-----------------------------------------------------------------------------
\* What the application reads.  The variants are tried in the order they are
\* declared, and an ordinary trade message has the fields of a batch: it is
\* read as one, not marked as conflated.

TradesIn(item) ==
  IF item.form = "batch" THEN item.data ELSE TradesOf(CHOOSE m \in item.msgs : TRUE)

SumQty(ts) ==
  LET sum[n \in 0 .. Len(ts)] == IF n = 0 THEN 0 ELSE sum[n - 1] + ts[n].qty
  IN  sum[Len(ts)]

\* TradeBatchMessage::total_volume, or the field of the summary.
VolumeRead(item) ==
  IF item.form = "aggregate" THEN item.data[1].volume ELSE SumQty(TradesIn(item))

\* TradeBatchMessage::trade_count, or the field of the summary.
CountRead(item) ==
  IF item.form = "aggregate" THEN item.data[1].count ELSE Len(TradesIn(item))

\* BatchStats, or the fields of the summary; a single message has none.
RangeRead(item) ==
  LET d == IF item.form = "aggregate" THEN item.data[1] ELSE item.stats
  IN  <<d.min, d.max>>

\* ConflatedMessage::is_conflated.
IsConflated(item) == item.form # "single"

IsItem(item) ==
  /\ item.form \in {"single", "batch", "aggregate"}
  /\ item.msgs \subseteq Message

=============================================================================
