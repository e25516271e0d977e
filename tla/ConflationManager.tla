------------------------- MODULE ConflationManager --------------------------
(***************************************************************************)
(* The adaptive conflation engine (conflation/manager.rs, state.rs): the   *)
(* keyed buffer, the pressure state and the one before it, and the trades  *)
(* being aggregated per symbol.  The operators below are the methods; the  *)
(* connection manager calls them from its own steps.                       *)
(*                                                                         *)
(* ConflationConfig.enabled is always TRUE in the program.                 *)
(***************************************************************************)
EXTENDS BufferOps, TradeAggregates

CONSTANT ChannelCapacity  \* CHANNEL_CAPACITY, also the event channel's size

ASSUME CapacityAssumption == ChannelCapacity \in Nat \ {0}

VARIABLES
  buffer,      \* the KeyedBuffer
  state,       \* the pressure state
  prevState,   \* the one before the last update
  aggregates   \* trade_aggregates: symbol -> aggregate, with the messages in it

conflation == <<buffer, state, prevState, aggregates>>

PressureStates == {"Green", "Yellow", "Red"}

\* ConflationState::from_capacity: below half, below nine tenths, or above.
FromCapacity(len, max) ==
  CASE max = 0                         -> "Red"
    [] max # 0 /\ 2 * len < max        -> "Green"
    [] max # 0 /\ 2 * len >= max /\ 10 * len < 9 * max -> "Yellow"
    [] OTHER                           -> "Red"

NoAggregates == [s \in {} |-> {}]

ConflationInit ==
  /\ buffer = EmptyBuffer
  /\ state = "Green"
  /\ prevState = "Green"
  /\ aggregates = NoAggregates

\* update_state.
UpdateState(len) ==
  /\ prevState' = state
  /\ state' = FromCapacity(len, ChannelCapacity)

\* Slip: the priority check is missing.
SlipOnlyGreenPasses(m) == state = "Green"

\* process answers Some: the caller sends the message at once.
PassesThrough(m) == IsPriority(m) \/ state = "Green"

\* aggregate_trade: merge into the symbol's aggregate, or start one; a message
\* in which no trade is found leaves no trace.
AggregateTrade(m) ==
  LET ts  == TradesOf(m)
      old == aggregates[m.sym]
      new == CASE m.sym \in DOMAIN aggregates ->
                    [data |-> MergeTrades(old.data, ts), msgs |-> old.msgs \cup {m}]
               [] OTHER -> [data |-> CreateAggregate(ts), msgs |-> {m}]
  IN  aggregates' = IF ts = <<>> THEN aggregates ELSE With(aggregates, m.sym, new)

\* buffer_message: a trade in Red is aggregated, everything else is inserted.
BufferMessage(m) ==
  \/ /\ IsTrade(m) /\ state = "Red"
     /\ AggregateTrade(m)
     /\ UNCHANGED buffer
  \/ /\ ~(IsTrade(m) /\ state = "Red")
     /\ buffer' = Insert(buffer, m, state = "Red")
     /\ UNCHANGED aggregates

\* try_flush takes the aggregates only in the window in which the last update
\* left Red.
LeavingRed == prevState = "Red" /\ state # "Red"

\* drain() in flush_trade_aggregates: all aggregates leave the map before the
\* first of them is sent.
AllAggregates == {ItemOf(aggregates[s].data, aggregates[s].msgs) : s \in DOMAIN aggregates}

\* Slip: clear resets the states but not the buffer.
SlipClearKeepsBuffer ==
  /\ aggregates' = NoAggregates
  /\ state' = "Green"
  /\ prevState' = "Green"
  /\ UNCHANGED buffer

\* clear.
ClearConflation ==
  /\ buffer' = EmptyBuffer
  /\ aggregates' = NoAggregates
  /\ state' = "Green"
  /\ prevState' = "Green"

ConflationTypeOK ==
  /\ IsBuffer(buffer)
  /\ state \in PressureStates
  /\ prevState \in PressureStates
  /\ DOMAIN aggregates \subseteq Symbols
  /\ \A s \in DOMAIN aggregates :
       aggregates[s].data \in Aggregate /\ aggregates[s].msgs \subseteq Message

=============================================================================
