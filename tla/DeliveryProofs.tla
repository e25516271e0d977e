--------------------------- MODULE DeliveryProofs ---------------------------
(***************************************************************************)
(* What the application receives from the engine, for every feed, every    *)
(* limit, any number of lost connections and every size of the channels:   *)
(* nothing twice, nothing stale, private messages in order, the newest     *)
(* message of a key always, and orders executed once and in order.         *)
(***************************************************************************)
EXTENDS ConnectionProofs, BufferLemmas, DataInduction

-----------------------------------------------------------------------------
\* Aggregates of trades.

LEMMA FirstTradeType ==
  ASSUME NEW t \in Trade
  PROVE  FirstTrade(t) \in Aggregate
BY DEF FirstTrade, Trade, Aggregate

LEMMA MergeTradeType ==
  ASSUME NEW a \in Aggregate, NEW t \in Trade
  PROVE  MergeTrade(a, t) \in Aggregate
<1>1. Append(a.trades, t) \in Seq(Trade)
  BY DEF Aggregate
<1>2. Lower(a.min, t.price) \in Nat /\ Higher(a.max, t.price) \in Nat /\ t.price \in Nat
  BY DEF Aggregate, Trade, Lower, Higher
<1>3. a.volume + t.qty \in Nat /\ a.count + 1 \in Nat \ {0}
  BY DEF Aggregate, Trade
<1> QED  BY <1>1, <1>2, <1>3 DEF MergeTrade, Aggregate

\* merge_trade_aggregates goes through the trades one by one.
LEMMA MergeTradesSteps ==
  ASSUME NEW a \in Aggregate, NEW ts \in Seq(Trade)
  PROVE  \E f \in [0 .. Len(ts) -> Aggregate] :
           /\ f[0] = a
           /\ \A i \in 1 .. Len(ts) : f[i] = MergeTrade(f[i - 1], ts[i])
           /\ MergeTrades(a, ts) = f[Len(ts)]
<1> DEFINE Step(f, i) == IF i = 0 THEN a ELSE MergeTrade(f[i - 1], ts[i])
           Runs(k) == {g \in [0 .. k -> Aggregate] : g = [i \in 0 .. k |-> Step(g, i)]}
           S == {k \in Nat : k <= Len(ts) => Runs(k) # {}}
<1> HIDE DEF Runs
<1>0. Len(ts) \in Nat /\ \A i \in 1 .. Len(ts) : ts[i] \in Trade
  BY LenProperties, ElementOfSeq
<1>1. 0 \in S
  <2> DEFINE g == [i \in 0 .. 0 |-> a]
  <2>1. g \in [0 .. 0 -> Aggregate] /\ g = [i \in 0 .. 0 |-> Step(g, i)]
    OBVIOUS
  <2> HIDE DEF g
  <2>2. g \in Runs(0)
    BY <2>1 DEF Runs
  <2> QED  BY <2>2
<1>2. ASSUME NEW k \in Nat, k \in S PROVE k + 1 \in S
  <2> SUFFICES ASSUME k + 1 <= Len(ts) PROVE Runs(k + 1) # {}
    OBVIOUS
  <2>1. PICK g \in [0 .. k -> Aggregate] : g = [i \in 0 .. k |-> Step(g, i)]
    BY <1>0, <1>2 DEF Runs
  <2> DEFINE h == [i \in 0 .. k + 1 |-> IF i = k + 1 THEN MergeTrade(g[k], ts[k + 1]) ELSE g[i]]
  <2>2. ts[k + 1] \in Trade /\ g[k] \in Aggregate
    BY <1>0
  <2>3. MergeTrade(g[k], ts[k + 1]) \in Aggregate
    BY <2>2, MergeTradeType
  <2>4. h \in [0 .. k + 1 -> Aggregate]
    BY <2>3
  <2>5. ASSUME NEW i \in 0 .. k + 1 PROVE h[i] = Step(h, i)
    <3>1. CASE i = k + 1
      <4>1. h[i] = MergeTrade(g[k], ts[k + 1]) /\ h[k] = g[k] /\ i # 0 /\ i - 1 = k
        BY <3>1
      <4> HIDE DEF h
      <4> QED  BY <4>1, <3>1
    <3>2. CASE i # k + 1
      <4>1. i \in 0 .. k /\ h[i] = g[i] /\ (i # 0 => i - 1 \in 0 .. k /\ h[i - 1] = g[i - 1])
        BY <3>2
      <4>2. g[i] = Step(g, i)
        BY <4>1, <2>1
      <4> HIDE DEF h
      <4> QED  BY <4>1, <4>2
    <3> QED  BY <3>1, <3>2
  <2>6. h = [i \in 0 .. k + 1 |-> Step(h, i)]
    <3> DEFINE e == [i \in 0 .. k + 1 |-> Step(h, i)]
    <3>1. \A i \in 0 .. k + 1 : h[i] = e[i]
      BY <2>5
    <3>2. DOMAIN h = 0 .. k + 1 /\ DOMAIN e = 0 .. k + 1
      OBVIOUS
    <3>3. h = [i \in 0 .. k + 1 |-> h[i]]
      OBVIOUS
    <3> QED  BY <3>1, <3>3
  <2> HIDE DEF h
  <2>7. h \in Runs(k + 1)
    BY <2>4, <2>6 DEF Runs
  <2> QED  BY <2>7
<1>3. PICK g \in [0 .. Len(ts) -> Aggregate] : g = [i \in 0 .. Len(ts) |-> Step(g, i)]
  <2> HIDE DEF S
  <2>1. Nat \subseteq S
    BY <1>1, <1>2, Induct
  <2>2. Runs(Len(ts)) # {}
    BY <1>0, <2>1 DEF S
  <2> QED  BY <2>2 DEF Runs
<1> DEFINE F == CHOOSE f : f = [i \in 0 .. Len(ts) |-> Step(f, i)]
<1>4. F = [i \in 0 .. Len(ts) |-> Step(F, i)]
  BY <1>3
<1>5. MergeTrades(a, ts) = F[Len(ts)]
  BY DEF MergeTrades
<1> HIDE DEF F
<1>6. F[0] = a /\ \A i \in 1 .. Len(ts) : F[i] = MergeTrade(F[i - 1], ts[i])
  <2>1. \A i \in 0 .. Len(ts) : F[i] = Step(F, i)
    BY <1>4
  <2> QED  BY <2>1, <1>0
<1> DEFINE T == {k \in Nat : k <= Len(ts) => F[k] \in Aggregate}
<1>7. 0 \in T
  BY <1>6
<1>8. ASSUME NEW k \in Nat, k \in T PROVE k + 1 \in T
  <2> SUFFICES ASSUME k + 1 <= Len(ts) PROVE F[k + 1] \in Aggregate
    OBVIOUS
  <2>1. k + 1 \in 1 .. Len(ts) /\ (k + 1) - 1 = k /\ F[k] \in Aggregate
    BY <1>0, <1>8
  <2>2. F[k + 1] = MergeTrade(F[k], ts[k + 1])
    BY <2>1, <1>6
  <2> QED  BY <2>1, <2>2, <1>0, MergeTradeType
<1>9. Nat \subseteq T
  <2> HIDE DEF T
  <2> QED  BY <1>7, <1>8, Induct
<1>10. F \in [0 .. Len(ts) -> Aggregate]
  <2>1. \A i \in 0 .. Len(ts) : F[i] \in Aggregate
    BY <1>0, <1>9
  <2>2. F = [i \in 0 .. Len(ts) |-> F[i]]
    BY <1>4
  <2> QED  BY <2>1, <2>2
<1> QED  BY <1>5, <1>6, <1>10

LEMMA MergeTradesType ==
  ASSUME NEW a \in Aggregate, NEW ts \in Seq(Trade)
  PROVE  MergeTrades(a, ts) \in Aggregate
BY MergeTradesSteps, LenProperties

LEMMA CreateAggregateType ==
  ASSUME NEW ts \in Seq(Trade), ts # <<>>
  PROVE  CreateAggregate(ts) \in Aggregate
BY HeadTailProperties, FirstTradeType, MergeTradesType DEF CreateAggregate

-----------------------------------------------------------------------------
\* Messages and items.

LEMMA SendableType ==
  ASSUME NEW m \in Sendable
  PROVE  /\ m \in Message /\ m.seq \in 1 .. MaxMessages /\ m # NoMessage
         /\ IsTrade(m) => m.sym \in Symbols /\ TradesOf(m) \in Seq(Trade)
<1>1. PICK kind \in FeedKinds, n \in 1 .. MaxMessages : m \in MessagesOf(kind, n)
  BY DEF Sendable
<1>2. /\ m.kind = kind /\ m.seq = n /\ m.sym \in Symbols \cup {NoSymbol}
      /\ kind = "trade" => m.sym \in Symbols
      /\ m = [kind |-> m.kind, sym |-> m.sym, seq |-> m.seq]
  BY <1>1 DEF MessagesOf, MarketKinds
<1>3. kind \in Kinds /\ MaxMessages \in Nat
  BY ConnectionAssumption
<1>4. m \in Message
  BY <1>2, <1>3 DEF Message
<1>5. m.seq # 0 /\ NoMessage.seq = 0
  BY <1>2 DEF NoMessage
<1> QED  BY <1>2, <1>3, <1>4, <1>5, ConnectionAssumption DEF IsTrade

LEMMA NoMessageType == NoMessage \in Message /\ NoMessage.seq = 0
BY DEF NoMessage, Message, Kinds

\* What the event channel may carry.
Item ==
  {Single(m) : m \in Message}
    \cup {Batch(a, ms) : a \in Aggregate, ms \in SUBSET Message}
    \cup {Summary(a, ms) : a \in Aggregate, ms \in SUBSET Message}

LEMMA ItemType ==
  /\ \A item \in Item : IsItem(item)
  /\ \A m \in Message : Single(m) \in Item /\ Single(m).msgs = {m}
  /\ \A a \in Aggregate, ms \in SUBSET Message : ItemOf(a, ms) \in Item /\ ItemOf(a, ms).msgs = ms
<1>1. \A m : Single(m).msgs = {m} /\ Single(m).form = "single"
  BY DEF Single
<1>2. \A a, ms : Batch(a, ms).msgs = ms /\ Batch(a, ms).form = "batch"
  BY DEF Batch
<1>3. \A a, ms : Summary(a, ms).msgs = ms /\ Summary(a, ms).form = "aggregate"
  BY DEF Summary
<1>4. ASSUME NEW item \in Item PROVE IsItem(item)
  <2>1. CASE \E m \in Message : item = Single(m)
    BY <2>1, <1>1 DEF IsItem
  <2>2. CASE \E a \in Aggregate, ms \in SUBSET Message : item = Batch(a, ms)
    BY <2>2, <1>2 DEF IsItem
  <2>3. CASE \E a \in Aggregate, ms \in SUBSET Message : item = Summary(a, ms)
    BY <2>3, <1>3 DEF IsItem
  <2> QED  BY <2>1, <2>2, <2>3 DEF Item
<1>5. \A m \in Message : Single(m) \in Item
  BY DEF Item
<1>6. \A a \in Aggregate, ms \in SUBSET Message :
        ItemOf(a, ms) = Batch(a, ms) \/ ItemOf(a, ms) = Summary(a, ms)
  BY DEF ItemOf
<1>7. \A a \in Aggregate, ms \in SUBSET Message : Batch(a, ms) \in Item /\ Summary(a, ms) \in Item
  BY DEF Item
<1> QED  BY <1>1, <1>2, <1>3, <1>4, <1>5, <1>6, <1>7

-----------------------------------------------------------------------------
\* Where the engine is.

\* The place the engine has reached, the link, and what goes with either.
Control ==
  /\ pc \in {"connecting", "resubscribe", "select", "process", "gate", "aggregates", "drain",
             "forceAggregates", "forceDrain", "sleep", "stopped"}
  /\ state \in PressureStates /\ prevState \in PressureStates
  /\ link \in {"none", "up", "silent", "closed"}
  /\ rxOpen \in BOOLEAN /\ cmdOpen \in BOOLEAN /\ survival \in BOOLEAN
  /\ (link = "none") <=> pc \in {"connecting", "sleep", "stopped"}
  /\ cur \in Sendable \cup {NoMessage}
  /\ pc = "process" <=> cur # NoMessage
  /\ pc \notin {"aggregates", "forceAggregates"} => draining = {}
  /\ nextSeq \in Nat \ {0} /\ epoch \in Nat
  /\ ws \in Seq(Sendable) /\ Len(ws) <= SocketCapacity
  /\ Len(cmdq) <= CommandCapacity

LEMMA ControlInit == ASSUME Init PROVE Control
<1>1. /\ ws \in Seq(Sendable) /\ Len(ws) <= SocketCapacity
      /\ Len(cmdq) <= CommandCapacity
  <2>1. ws = <<>> /\ cmdq = <<>> /\ Len(<<>>) = 0 /\ <<>> \in Seq(Sendable)
    BY DEF Init
  <2>2. 0 <= SocketCapacity /\ 0 <= CommandCapacity
    BY ConnectionAssumption
  <2> QED  BY <2>1, <2>2
<1>2. /\ pc = "connecting" /\ link = "none" /\ cur = NoMessage /\ draining = {}
      /\ nextSeq = 1 /\ epoch = 1 /\ rxOpen = TRUE /\ cmdOpen = TRUE /\ survival = FALSE
      /\ state = "Green" /\ prevState = "Green"
  BY DEF Init, ConflationInit
<1>3. rxOpen \in BOOLEAN /\ cmdOpen \in BOOLEAN /\ survival \in BOOLEAN
  BY <1>2
<1>4. nextSeq \in Nat \ {0} /\ epoch \in Nat
  BY <1>2
<1>5. state \in PressureStates /\ prevState \in PressureStates
  BY <1>2 DEF PressureStates
<1>6. (pc = "process" <=> cur # NoMessage) /\ (link = "none" <=> pc \in {"connecting", "sleep", "stopped"})
  BY <1>2
<1> QED  BY <1>1, <1>2, <1>3, <1>4, <1>5, <1>6 DEF Control

LEMMA PressureType == \A len, max : FromCapacity(len, max) \in PressureStates
BY DEF FromCapacity, PressureStates

\* What the head of the socket is, and what reading it leaves.
LEMMA SocketRead ==
  ASSUME Control, ws # <<>>
  PROVE  /\ Head(ws) \in Sendable /\ Head(ws) = ws[1] /\ 1 \in 1 .. Len(ws)
         /\ Tail(ws) \in Seq(Sendable) /\ Len(Tail(ws)) = Len(ws) - 1 /\ Len(ws) \in Nat
         /\ \A i \in 1 .. Len(Tail(ws)) : i + 1 \in 1 .. Len(ws) /\ Tail(ws)[i] = ws[i + 1]
<1>1. Len(ws) \in Nat \ {0}
  BY EmptySeq, LenProperties DEF Control
<1>2. /\ Head(ws) \in Sendable /\ Tail(ws) \in Seq(Sendable) /\ Len(Tail(ws)) = Len(ws) - 1
      /\ \A i \in 1 .. Len(Tail(ws)) : Tail(ws)[i] = ws[i + 1]
  BY HeadTailProperties DEF Control
<1> QED  BY <1>1, <1>2

LEMMA ControlKept == ASSUME Control, Recorded, Ending, [Next]_vars PROVE Control'
<1> USE DEF Control, channels, application, history, engine, network, conflation
<1>e. /\ <<>> \in Seq(Sendable) /\ Len(<<>>) <= SocketCapacity
      /\ ws' = <<>> => ws' \in Seq(Sendable) /\ Len(ws') <= SocketCapacity
  <2>1. Len(<<>>) = 0 /\ SocketCapacity \in Nat
    BY ConnectionAssumption
  <2>2. <<>> \in Seq(Sendable) /\ Len(<<>>) <= SocketCapacity
    BY <2>1
  <2> QED  BY <2>2
<1>1. CASE ConnectOk
  BY <1>1, <1>e DEF ConnectOk, ClearConflation, PressureStates
<1>2. CASE ConnectFails \/ Resubscribe \/ Resubscribed \/ Wake
  BY <1>2 DEF ConnectFails, Resubscribe, Resubscribed, Wake
<1>3. CASE ReadMessage
  <2>1. /\ Head(ws) \in Sendable /\ Tail(ws) \in Seq(Sendable) /\ Len(Tail(ws)) = Len(ws) - 1
        /\ Len(ws) \in Nat
    BY <1>3, SocketRead DEF ReadMessage
  <2>2. Head(ws) # NoMessage
    BY <2>1, SendableType
  <2>3. ws' \in Seq(Sendable) /\ Len(ws') <= SocketCapacity
    BY <1>3, <2>1, ConnectionAssumption DEF ReadMessage
  <2> QED  BY <1>3, <2>1, <2>2, <2>3, PressureType DEF ReadMessage, UpdateState
<1>4. CASE ConnectionEnds
  BY <1>4, <1>e DEF ConnectionEnds, LeaveLoop
<1>5. CASE TakeCommand
  <2>1. cmdq' \in Seq(ClientCommands) /\ Len(cmdq') = Len(cmdq) - 1 /\ Len(cmdq) \in Nat
    BY <1>5, HeadTailProperties, LenProperties DEF TakeCommand, Recorded
  <2>2. Len(cmdq') <= CommandCapacity
    BY <2>1, ConnectionAssumption
  <2>3. ws' \in Seq(Sendable) /\ Len(ws') <= SocketCapacity
    BY <1>5, <1>e DEF TakeCommand, LeaveLoop
  <2> QED  BY <1>5, <2>2, <2>3 DEF TakeCommand, LeaveLoop
<1>6. CASE CommandsClosed
  BY <1>6 DEF CommandsClosed
<1>7. CASE Tick \/ Gate
  BY <1>7 DEF Tick, Gate, StartFlush
<1>8. CASE SendAtOnce
  BY <1>8, <1>e DEF SendAtOnce, LeaveLoop
<1>9. CASE Conflate
  BY <1>9 DEF Conflate
<1>10. CASE SendAggregate \/ AggregatesSent
  BY <1>10 DEF SendAggregate, AggregatesSent
<1>11. CASE FlushOne \/ FlushEnds
  BY <1>11 DEF FlushOne, FlushEnds
<1>12. CASE ForceFlushOne \/ Stop
  BY <1>12, <1>e DEF ForceFlushOne, Stop
<1>13. CASE Receive \/ CallSend \/ DropClient \/ DropReceiver
  BY <1>13 DEF Receive, CallSend, DropClient, DropReceiver
<1>14. CASE Enqueue
  <2>1. blocked \in ClientCommands /\ cmdq \in Seq(ClientCommands) /\ Len(cmdq) < CommandCapacity
        /\ cmdq' = Append(cmdq, blocked)
    BY <1>14 DEF Enqueue, Ending, Recorded
  <2>2. Len(cmdq') = Len(cmdq) + 1 /\ Len(cmdq) \in Nat
    BY <2>1, AppendProperties, LenProperties
  <2>3. Len(cmdq') <= CommandCapacity
    BY <2>1, <2>2, ConnectionAssumption
  <2> QED  BY <1>14, <2>3 DEF Enqueue
<1>15. CASE ServerSends
  <2>0. PICK kind \in FeedKinds : \E m \in MessagesOf(kind, nextSeq) : ws' = Append(ws, m)
    BY <1>15 DEF ServerSends
  <2>1. PICK m \in MessagesOf(kind, nextSeq) : ws' = Append(ws, m)
    BY <2>0
  <2>2. nextSeq \in 1 .. MaxMessages /\ Len(ws) < SocketCapacity /\ nextSeq' = nextSeq + 1
    BY <1>15, ConnectionAssumption DEF ServerSends
  <2>3. m \in Sendable
    BY <2>1, <2>2 DEF Sendable
  <2>4. ws' \in Seq(Sendable) /\ Len(ws') = Len(ws) + 1 /\ Len(ws) \in Nat
    BY <2>1, <2>3, AppendProperties, LenProperties
  <2>5. Len(ws') <= SocketCapacity
    BY <2>2, <2>4, ConnectionAssumption
  <2> QED  BY <1>15, <2>2, <2>4, <2>5 DEF ServerSends
<1>16. CASE LinkLost \/ LossNoticed \/ GovernorSwitches
  <2>1. ws' \in Seq(Sendable) /\ Len(ws') <= SocketCapacity
    BY <1>16, <1>e DEF LinkLost, LossNoticed, GovernorSwitches
  <2> QED  BY <1>16, <2>1 DEF LinkLost, LossNoticed, GovernorSwitches
<1>17. CASE UNCHANGED vars
  BY <1>17 DEF vars
<1> QED
  BY <1>1, <1>2, <1>3, <1>4, <1>5, <1>6, <1>7, <1>8, <1>9, <1>10, <1>11, <1>12, <1>13,
     <1>14, <1>15, <1>16, <1>17 DEF Next, Engine, Environment, Terminated

-----------------------------------------------------------------------------
\* What the engine stores.

\* The buffer is good and its priority queue unused; what is aggregated are
\* trades of the aggregate's symbol, and what is drained are trades.
Stores ==
  /\ Good(buffer) /\ buffer.prio = <<>>
  /\ DOMAIN aggregates \subseteq Symbols
  /\ \A s \in DOMAIN aggregates :
       /\ aggregates[s].data \in Aggregate /\ aggregates[s].msgs \subseteq Message
       /\ \A m \in aggregates[s].msgs : IsTrade(m) /\ m.sym = s
  /\ draining \subseteq Item
  /\ \A a \in draining : \A m \in a.msgs : IsTrade(m)
  /\ chan \in Seq(Item) /\ Len(chan) <= ChannelCapacity /\ received \in Seq(Item)

LEMMA StoresInit == ASSUME Init PROVE Stores
<1>1. buffer = EmptyBuffer /\ Good(EmptyBuffer) /\ EmptyBuffer.prio = <<>>
  BY EmptyGood DEF Init, ConflationInit, EmptyBuffer
<1>2. DOMAIN aggregates = {} /\ draining = {}
  BY DEF Init, ConflationInit, NoAggregates
<1>3. chan \in Seq(Item) /\ Len(chan) <= ChannelCapacity /\ received \in Seq(Item)
  <2>1. chan = <<>> /\ received = <<>> /\ <<>> \in Seq(Item) /\ Len(<<>>) = 0 /\ 0 <= ChannelCapacity
    BY CapacityAssumption DEF Init
  <2> QED  BY <2>1
<1> QED  BY <1>1, <1>2, <1>3 DEF Stores

\* A message is conflated when it is no priority message.
LEMMA ConflateStores ==
  ASSUME Control, Stores, pc = "process", ~PassesThrough(cur), BufferMessage(cur)
  PROVE  /\ Good(buffer') /\ buffer'.prio = <<>>
         /\ DOMAIN aggregates' \subseteq Symbols
         /\ \A s \in DOMAIN aggregates' :
              /\ aggregates'[s].data \in Aggregate /\ aggregates'[s].msgs \subseteq Message
              /\ \A m \in aggregates'[s].msgs : IsTrade(m) /\ m.sym = s
<1> USE DEF Stores
<1>1. cur \in Message /\ ~IsPriority(cur) /\ (IsTrade(cur) => cur.sym \in Symbols /\ TradesOf(cur) \in Seq(Trade))
  BY SendableType DEF Control, PassesThrough
<1>2. CASE IsTrade(cur) /\ state = "Red"
  <2> DEFINE ts == TradesOf(cur)
             old == aggregates[cur.sym]
             new == CASE cur.sym \in DOMAIN aggregates ->
                           [data |-> MergeTrades(old.data, ts), msgs |-> old.msgs \cup {cur}]
                      [] OTHER -> [data |-> CreateAggregate(ts), msgs |-> {cur}]
  <2>1. buffer' = buffer /\ aggregates' = IF ts = <<>> THEN aggregates ELSE With(aggregates, cur.sym, new)
    BY <1>2 DEF BufferMessage, AggregateTrade
  <2>2. CASE ts = <<>>
    <3>1. aggregates' = aggregates
      BY <2>1, <2>2
    <3> QED  BY <3>1, <2>1
  <2>3. CASE ts # <<>>
    <3>1. /\ new.data \in Aggregate /\ new.msgs \subseteq Message
          /\ \A m \in new.msgs : IsTrade(m) /\ m.sym = cur.sym
      <4>1. CASE cur.sym \in DOMAIN aggregates
        <5>1. new.data = MergeTrades(old.data, ts) /\ new.msgs = old.msgs \cup {cur}
          BY <4>1
        <5>2. MergeTrades(old.data, ts) \in Aggregate
          BY <4>1, <1>1, <1>2, MergeTradesType
        <5> HIDE DEF new, ts
        <5> QED  BY <4>1, <5>1, <5>2, <1>1, <1>2
      <4>2. CASE cur.sym \notin DOMAIN aggregates
        <5>1. new.data = CreateAggregate(ts) /\ new.msgs = {cur}
          BY <4>2
        <5>2. CreateAggregate(ts) \in Aggregate
          BY <2>3, <1>1, <1>2, CreateAggregateType
        <5> HIDE DEF new, ts
        <5> QED  BY <5>1, <5>2, <1>1, <1>2
      <4> QED  BY <4>1, <4>2
    <3> HIDE DEF new, ts
    <3>2. /\ DOMAIN aggregates' = DOMAIN aggregates \cup {cur.sym}
          /\ aggregates'[cur.sym] = new
          /\ \A s \in DOMAIN aggregates \ {cur.sym} : aggregates'[s] = aggregates[s]
      BY <2>1, <2>3 DEF With
    <3>3. \A s \in DOMAIN aggregates' : s = cur.sym \/ (s \in DOMAIN aggregates /\ aggregates'[s] = aggregates[s])
      BY <3>2
    <3> QED  BY <3>1, <3>2, <3>3, <2>1, <1>1, <1>2
  <2> QED  BY <2>2, <2>3
<1>3. CASE ~(IsTrade(cur) /\ state = "Red")
  <2>1. buffer' = Insert(buffer, cur, state = "Red") /\ aggregates' = aggregates
    BY <1>3 DEF BufferMessage
  <2>2. (state = "Red") \in BOOLEAN
    OBVIOUS
  <2>3. Good(buffer')
    BY <2>1, <2>2, <1>1, InsertGood
  <2>4. buffer'.prio = buffer.prio
    BY <2>1, <2>2, <1>1, InsertKeeps
  <2> QED  BY <2>1, <2>3, <2>4
<1> QED  BY <1>2, <1>3

\* What a flush takes out of the map.
LEMMA DrainStores ==
  ASSUME Stores
  PROVE  /\ AllAggregates \subseteq Item
         /\ \A a \in AllAggregates : \A m \in a.msgs : IsTrade(m)
         /\ \A s \in DOMAIN aggregates :
              ItemOf(aggregates[s].data, aggregates[s].msgs).msgs = aggregates[s].msgs
<1>1. \A s \in DOMAIN aggregates :
        /\ ItemOf(aggregates[s].data, aggregates[s].msgs) \in Item
        /\ ItemOf(aggregates[s].data, aggregates[s].msgs).msgs = aggregates[s].msgs
  BY ItemType DEF Stores
<1> QED  BY <1>1 DEF Stores, AllAggregates

\* A pop serves the oldest key, for the priority queue is unused.
LEMMA PopStores ==
  ASSUME Stores, CanPop(buffer)
  PROVE  /\ Good(AfterPop(buffer)) /\ AfterPop(buffer).prio = <<>>
         /\ Popped(buffer) \in Message /\ ~IsPriority(Popped(buffer))
         /\ \E k \in DOMAIN buffer.pending :
              /\ Popped(buffer) = buffer.pending[k]
              /\ DOMAIN AfterPop(buffer).pending = DOMAIN buffer.pending \ {k}
              /\ \A x \in DOMAIN buffer.pending \ {k} :
                   AfterPop(buffer).pending[x] = buffer.pending[x]
<1>1. /\ buffer.order[1] \in DOMAIN buffer.pending
      /\ Popped(buffer) = buffer.pending[buffer.order[1]]
      /\ DOMAIN AfterPop(buffer).pending = DOMAIN buffer.pending \ {buffer.order[1]}
      /\ \A x \in DOMAIN AfterPop(buffer).pending : AfterPop(buffer).pending[x] = buffer.pending[x]
      /\ AfterPop(buffer).prio = <<>>
  BY PopTakes DEF Stores
<1>2. Good(AfterPop(buffer)) /\ Popped(buffer) \in Message
  BY PopGood DEF Stores
<1>3. ~IsPriority(Popped(buffer))
  BY <1>1 DEF Stores, Good, Consistent
<1> QED  BY <1>1, <1>2, <1>3

\* An item sent while the channel has room.
LEMMA SendStores ==
  ASSUME Stores, NEW item \in Item, HasRoom
  PROVE  /\ Append(chan, item) \in Seq(Item)
         /\ Len(Append(chan, item)) = Len(chan) + 1 /\ Len(chan) \in Nat
         /\ Append(chan, item)[Len(chan) + 1] = item
         /\ Len(Append(chan, item)) <= ChannelCapacity
<1>1. /\ Append(chan, item) \in Seq(Item)
      /\ Len(Append(chan, item)) = Len(chan) + 1 /\ Len(chan) \in Nat
      /\ Append(chan, item)[Len(chan) + 1] = item
  BY AppendProperties, LenProperties DEF Stores
<1> QED  BY <1>1, CapacityAssumption DEF HasRoom

-----------------------------------------------------------------------------
\* The steps, as far as messages are concerned.

\* What waits in the socket is read from the front, or lost with the link.
Later == \E d \in 0 .. Len(ws) :
           Len(ws') = Len(ws) - d /\ \A i \in 1 .. Len(ws') : ws'[i] = ws[i + d]

\* No message moves but out of the socket.
Quiet ==
  /\ UNCHANGED <<conflation, draining, cur, chan, received, rxOpen, nextSeq, epoch, latest>>
  /\ Later
  /\ pc' = "process" <=> pc = "process"
  /\ pc' = "stopped" => pc = "stopped"

\* A message is taken for processing.
Takes ==
  /\ pc = "select" /\ pc' = "process" /\ ws # <<>>
  /\ cur' = Head(ws) /\ ws' = Tail(ws) /\ state' = FromCapacity(Len(chan), ChannelCapacity)
  /\ UNCHANGED <<buffer, aggregates, draining, chan, received, rxOpen, nextSeq, epoch, latest>>

\* A flush takes the aggregates.
Drains ==
  /\ pc # "process" /\ pc' \notin {"process", "stopped"}
  /\ draining = {} /\ draining' = AllAggregates /\ aggregates' = NoAggregates
  /\ UNCHANGED <<buffer, cur, ws, chan, received, rxOpen, nextSeq, epoch, latest>>

\* A flush takes a message from the buffer.
Pops ==
  /\ pc # "process" /\ pc' # "process" /\ pc # "stopped"
  /\ CanPop(buffer) /\ buffer' = AfterPop(buffer)
  /\ \/ rxOpen /\ HasRoom /\ Send(Single(Popped(buffer))) /\ pc' # "stopped"
     \/ ~rxOpen /\ UNCHANGED chan
  /\ Later
  /\ UNCHANGED <<aggregates, draining, cur, received, rxOpen, nextSeq, epoch, latest>>

LEMMA LaterSame ==
  ASSUME Control
  PROVE  /\ ws' = ws => Later
         /\ ws' = <<>> => Later
         /\ ws # <<>> /\ ws' = Tail(ws) => Later
<1>0. Len(ws) \in Nat
  BY LenProperties DEF Control
<1>1. ASSUME ws' = ws PROVE Later
  <2>1. 0 \in 0 .. Len(ws) /\ Len(ws') = Len(ws) - 0 /\ \A i \in 1 .. Len(ws') : ws'[i] = ws[i + 0]
    BY <1>0, <1>1
  <2> QED  BY <2>1 DEF Later
<1>2. ASSUME ws' = <<>> PROVE Later
  <2> DEFINE d == Len(ws)
  <2>1. Len(ws') = 0
    BY <1>2
  <2>2. d \in 0 .. Len(ws) /\ Len(ws') = Len(ws) - d /\ \A i \in 1 .. Len(ws') : ws'[i] = ws[i + d]
    BY <1>0, <2>1
  <2> QED  BY <2>2 DEF Later
<1>3. ASSUME ws # <<>>, ws' = Tail(ws) PROVE Later
  <2>1. 1 \in 0 .. Len(ws) /\ Len(ws') = Len(ws) - 1 /\ \A i \in 1 .. Len(ws') : ws'[i] = ws[i + 1]
    BY <1>3, SocketRead
  <2> QED  BY <2>1 DEF Later
<1> QED  BY <1>1, <1>2, <1>3

LEMMA StepKinds ==
  ASSUME Control, [Next]_vars
  PROVE  \/ Quiet \/ Takes \/ Drains \/ Pops
         \/ ConnectOk \/ SendAtOnce \/ Conflate \/ SendAggregate \/ Stop
         \/ Receive \/ DropReceiver \/ ServerSends
<1> USE DEF conflation, engine, channels, network, application, history
<1>1. CASE ConnectFails \/ Resubscribe \/ Resubscribed \/ Wake
  <2>1. Quiet
    BY <1>1, LaterSame DEF ConnectFails, Resubscribe, Resubscribed, Wake, Quiet
  <2> QED  BY <2>1
<1>2. CASE ReadMessage
  <2>1. ws # <<>> /\ ws' = Tail(ws) /\ Later
    BY <1>2, LaterSame DEF ReadMessage
  <2>2. CASE UNCHANGED <<conflation, pc, cur>>
    <3>1. Quiet
      BY <1>2, <2>1, <2>2 DEF ReadMessage, Quiet
    <3> QED  BY <3>1
  <2>3. CASE UpdateState(Len(chan)) /\ cur' = Head(ws) /\ pc' = "process" /\ UNCHANGED <<buffer, aggregates>>
    <3>1. Takes
      BY <1>2, <2>1, <2>3 DEF ReadMessage, Takes, UpdateState
    <3> QED  BY <3>1
  <2> QED  BY <1>2, <2>2, <2>3 DEF ReadMessage
<1>3. CASE ConnectionEnds \/ TakeCommand
  <2>1. Quiet
    BY <1>3, LaterSame DEF ConnectionEnds, TakeCommand, LeaveLoop, Quiet
  <2> QED  BY <2>1
<1>4. CASE CommandsClosed
  <2>1. Drains
    BY <1>4 DEF CommandsClosed, Drains, Control
  <2> QED  BY <2>1
<1>5. CASE Tick \/ Gate
  <2>1. /\ pc \in {"select", "gate"} /\ draining = {}
        /\ UNCHANGED <<buffer, state, prevState, cur, active, replay, channels, network, application, history>>
        /\ StartFlush \/ (pc' = "select" /\ UNCHANGED <<draining, aggregates>>)
    BY <1>5 DEF Tick, Gate, Control
  <2>2. CASE LeavingRed /\ StartFlush
    <3>1. Drains
      BY <2>1, <2>2 DEF StartFlush, Drains
    <3> QED  BY <3>1
  <2>3. CASE ~LeavingRed /\ StartFlush
    <3>1. Quiet
      BY <2>1, <2>3, LaterSame DEF StartFlush, Quiet
    <3> QED  BY <3>1
  <2>4. CASE pc' = "select" /\ UNCHANGED <<draining, aggregates>>
    <3>1. Quiet
      BY <2>1, <2>4, LaterSame DEF Quiet
    <3> QED  BY <3>1
  <2> QED  BY <2>1, <2>2, <2>3, <2>4
<1>6. CASE AggregatesSent \/ FlushEnds
  <2>1. Quiet
    BY <1>6, LaterSame DEF AggregatesSent, FlushEnds, Quiet
  <2> QED  BY <2>1
<1>7. CASE FlushOne
  <2>1. Pops
    BY <1>7, LaterSame DEF FlushOne, Pops
  <2> QED  BY <2>1
<1>8. CASE ForceFlushOne
  <2>1. Pops
    BY <1>8, LaterSame DEF ForceFlushOne, Pops
  <2> QED  BY <2>1
<1>9. CASE CallSend \/ Enqueue \/ DropClient
  <2>1. Quiet
    BY <1>9, LaterSame DEF CallSend, Enqueue, DropClient, Quiet
  <2> QED  BY <2>1
<1>10. CASE LinkLost \/ LossNoticed \/ GovernorSwitches
  <2>1. Quiet
    BY <1>10, LaterSame DEF LinkLost, LossNoticed, GovernorSwitches, Quiet
  <2> QED  BY <2>1
<1>11. CASE UNCHANGED vars
  <2>1. Quiet
    BY <1>11, LaterSame DEF vars, Quiet
  <2> QED  BY <2>1
<1> QED
  BY <1>1, <1>2, <1>3, <1>4, <1>5, <1>6, <1>7, <1>8, <1>9, <1>10, <1>11
     DEF Next, Engine, Environment, Terminated

LEMMA StoresKept == ASSUME Control, Stores, [Next]_vars PROVE Stores'
<1> USE DEF Stores, conflation, engine, channels, network, application, history
<1>1. CASE Quiet  BY <1>1 DEF Quiet
<1>2. CASE Takes  BY <1>2 DEF Takes
<1>3. CASE Drains
  <2>1. DOMAIN aggregates' = {}
    BY <1>3 DEF Drains, NoAggregates
  <2> QED  BY <1>3, <2>1, DrainStores DEF Drains
<1>4. CASE Pops
  <2>1. Good(buffer') /\ buffer'.prio = <<>> /\ Single(Popped(buffer)) \in Item
    BY <1>4, PopStores, ItemType DEF Pops
  <2>2. chan' \in Seq(Item) /\ Len(chan') <= ChannelCapacity
    BY <1>4, <2>1, SendStores DEF Pops, Send
  <2> QED  BY <1>4, <2>1, <2>2 DEF Pops
<1>5. CASE ConnectOk
  <2>1. buffer' = EmptyBuffer /\ Good(EmptyBuffer) /\ EmptyBuffer.prio = <<>> /\ DOMAIN aggregates' = {}
    BY <1>5, EmptyGood DEF ConnectOk, ClearConflation, EmptyBuffer, NoAggregates
  <2> QED  BY <1>5, <2>1 DEF ConnectOk
<1>6. CASE SendAtOnce
  <2>1. Single(cur) \in Item
    BY SendableType, NoMessageType, ItemType DEF Control
  <2>2. chan' \in Seq(Item) /\ Len(chan') <= ChannelCapacity
    BY <1>6, <2>1, SendStores DEF SendAtOnce, Send
  <2> QED  BY <1>6, <2>2 DEF SendAtOnce
<1>7. CASE Conflate
  BY <1>7, ConflateStores DEF Conflate
<1>8. CASE SendAggregate
  <2>1. /\ draining' \subseteq draining
        /\ UNCHANGED <<buffer, aggregates, received>>
        /\ \/ UNCHANGED chan
           \/ HasRoom /\ \E a \in draining : chan' = Append(chan, a)
    BY <1>8 DEF SendAggregate, Send
  <2>2. chan' \in Seq(Item) /\ Len(chan') <= ChannelCapacity
    BY <2>1, SendStores
  <2> QED  BY <2>1, <2>2
<1>9. CASE Stop  BY <1>9 DEF Stop
<1>10. CASE Receive
  <2>1. /\ Head(chan) \in Item /\ Tail(chan) \in Seq(Item)
        /\ Len(Tail(chan)) = Len(chan) - 1 /\ Len(chan) \in Nat
    BY <1>10, HeadTailProperties, LenProperties DEF Receive
  <2>2. received' \in Seq(Item)
    BY <1>10, <2>1, AppendProperties DEF Receive
  <2>3. Len(chan') <= ChannelCapacity
    BY <1>10, <2>1, CapacityAssumption DEF Receive
  <2> QED  BY <1>10, <2>1, <2>2, <2>3 DEF Receive
<1>11. CASE DropReceiver
  <2>1. chan' = <<>> /\ <<>> \in Seq(Item) /\ Len(<<>>) = 0 /\ 0 <= ChannelCapacity
    BY <1>11, CapacityAssumption DEF DropReceiver
  <2> QED  BY <1>11, <2>1 DEF DropReceiver
<1>12. CASE ServerSends  BY <1>12 DEF ServerSends
<1> QED
  BY <1>1, <1>2, <1>3, <1>4, <1>5, <1>6, <1>7, <1>8, <1>9, <1>10, <1>11, <1>12, StepKinds

-----------------------------------------------------------------------------
\* The invariant so far, and the two theorems it gives.

Sound == Ending /\ Recorded /\ Control /\ Stores

LEMMA SoundInit == Init => Sound
BY EndingInit, RecordedInit, ControlInit, StoresInit DEF Sound

LEMMA SoundKept == Sound /\ [Next]_vars => Sound'
BY EndingKept, RecordedKept, ControlKept, StoresKept DEF Sound

LEMMA AlwaysSound == Spec => []Sound
BY SoundInit, SoundKept, PTL DEF Spec

LEMMA SoundType == Sound => TypeOK /\ BufferConsistent
<1> SUFFICES ASSUME Sound PROVE TypeOK /\ BufferConsistent
  OBVIOUS
<1>1. IsBuffer(buffer) /\ Consistent(buffer) /\ buffer.prio = <<>>
  BY DEF Sound, Stores, Good
<1>2. ConflationTypeOK
  BY <1>1 DEF ConflationTypeOK, Sound, Control, Stores
<1>3. cur \in Message
  BY SendableType, NoMessageType DEF Sound, Control
<1>4. \A item \in draining : IsItem(item)
  BY ItemType DEF Sound, Stores
<1>5. TypeOK
  BY <1>2, <1>3, <1>4 DEF TypeOK, Sound, Control, Stores
<1> QED  BY <1>1, <1>5 DEF BufferConsistent

\* Every variable of the engine task keeps its type, and no channel, socket or
\* queue exceeds its size.
THEOREM TypeCorrect == Spec => []TypeOK
BY AlwaysSound, SoundType, PTL

\* In every use the engine makes of it, the buffer's three views agree, and no
\* priority message ever waits in it.
THEOREM BufferAlwaysConsistent == Spec => []BufferConsistent
BY AlwaysSound, SoundType, PTL

-----------------------------------------------------------------------------
\* The messages still to come.

\* Those the engine has not done with: the one it processes, and what waits in
\* the socket.
Coming == {ws[i] : i \in 1 .. Len(ws)} \cup {m \in {cur} : pc = "process"}

\* They come in the order they were sent, all on this connection.
Timely ==
  /\ epoch <= nextSeq
  /\ \A i \in 1 .. Len(ws) :
       /\ ws[i].seq < nextSeq /\ epoch <= ws[i].seq
       /\ \A j \in 1 .. i - 1 : ws[j].seq < ws[i].seq
  /\ pc = "process" =>
       /\ cur.seq < nextSeq /\ epoch <= cur.seq
       /\ \A i \in 1 .. Len(ws) : cur.seq < ws[i].seq

\* A sequence number whose message is done with.
Passed(x) == x < nextSeq /\ \A n \in Coming : x < n.seq

LEMMA TimelyInit == ASSUME Init PROVE Timely
<1>1. Len(ws) = 0 /\ pc # "process" /\ epoch = 1 /\ nextSeq = 1
  BY DEF Init
<1> QED  BY <1>1 DEF Timely

\* Sequence numbers are numbers.
LEMMA SeqType ==
  ASSUME Control
  PROVE  /\ Len(ws) \in Nat /\ nextSeq \in Nat /\ epoch \in Nat /\ cur.seq \in Nat
         /\ \A i \in 1 .. Len(ws) : ws[i].seq \in Nat
<1>1. Len(ws) \in Nat /\ \A i \in 1 .. Len(ws) : ws[i] \in Sendable
  BY LenProperties, ElementOfSeq DEF Control
<1>2. \A m \in Sendable : m.seq \in Nat
  BY SendableType DEF Message
<1>3. cur.seq \in Nat
  BY <1>2, NoMessageType DEF Control
<1> QED  BY <1>1, <1>2, <1>3 DEF Control

\* Reading the socket from the front keeps its order.
LEMMA LaterTimely ==
  ASSUME Control, Timely, Later
  PROVE  /\ {ws'[i] : i \in 1 .. Len(ws')} \subseteq {ws[i] : i \in 1 .. Len(ws)}
         /\ \A i \in 1 .. Len(ws') :
              /\ ws'[i].seq < nextSeq /\ epoch <= ws'[i].seq
              /\ \A j \in 1 .. i - 1 : ws'[j].seq < ws'[i].seq
<1>1. PICK d \in 0 .. Len(ws) : Len(ws') = Len(ws) - d /\ \A i \in 1 .. Len(ws') : ws'[i] = ws[i + d]
  BY DEF Later
<1>2. \A i \in 1 .. Len(ws') :
        /\ i + d \in 1 .. Len(ws)
        /\ \A j \in 1 .. i - 1 : j \in 1 .. Len(ws') /\ j + d \in 1 .. (i + d) - 1
  BY <1>1, SeqType
<1>3. ASSUME NEW i \in 1 .. Len(ws')
      PROVE  /\ ws'[i].seq < nextSeq /\ epoch <= ws'[i].seq
             /\ \A j \in 1 .. i - 1 : ws'[j].seq < ws'[i].seq
  <2>1. /\ i + d \in 1 .. Len(ws) /\ ws'[i] = ws[i + d]
        /\ \A j \in 1 .. i - 1 : ws'[j] = ws[j + d] /\ j + d \in 1 .. (i + d) - 1
    BY <1>1, <1>2
  <2> QED  BY <2>1 DEF Timely
<1> QED  BY <1>1, <1>2, <1>3

\* What is read next is older than what stays in the socket.
LEMMA TakesTimely ==
  ASSUME Control, Timely, Takes
  PROVE  /\ Later /\ cur' \in {ws[i] : i \in 1 .. Len(ws)}
         /\ cur'.seq < nextSeq /\ epoch <= cur'.seq
         /\ \A i \in 1 .. Len(ws') : cur'.seq < ws'[i].seq
<1>1. /\ cur' = ws[1] /\ 1 \in 1 .. Len(ws)
      /\ \A i \in 1 .. Len(ws') : i + 1 \in 1 .. Len(ws) /\ ws'[i] = ws[i + 1] /\ 1 \in 1 .. (i + 1) - 1
  <2>1. cur' = Head(ws) /\ ws # <<>> /\ ws' = Tail(ws)
    BY DEF Takes
  <2>2. \A i \in 1 .. Len(Tail(ws)) : 1 \in 1 .. (i + 1) - 1
    BY SeqType
  <2> QED  BY <2>1, <2>2, SocketRead
<1>2. Later
  BY LaterSame DEF Takes
<1> QED  BY <1>1, <1>2 DEF Timely

LEMMA ServerSendsTimely ==
  ASSUME Control, ServerSends
  PROVE  /\ Len(ws') = Len(ws) + 1
         /\ \A i \in 1 .. Len(ws) : ws'[i] = ws[i]
         /\ ws'[Len(ws) + 1].seq = nextSeq /\ nextSeq' = nextSeq + 1
         /\ UNCHANGED <<conflation, engine, channels, received, epoch, latest>>
<1>1. PICK kind \in FeedKinds : \E m \in MessagesOf(kind, nextSeq) : ws' = Append(ws, m)
  BY DEF ServerSends
<1>2. PICK m \in MessagesOf(kind, nextSeq) : ws' = Append(ws, m)
  BY <1>1
<1>3. nextSeq \in 1 .. MaxMessages
  BY ConnectionAssumption DEF ServerSends, Control
<1>4. m \in Sendable
  BY <1>2, <1>3 DEF Sendable
<1>5. m.seq = nextSeq
  BY <1>2 DEF MessagesOf
<1>6. /\ Len(ws') = Len(ws) + 1 /\ ws'[Len(ws) + 1] = m
      /\ \A i \in 1 .. Len(ws) : ws'[i] = ws[i]
  BY <1>2, <1>4, AppendProperties DEF Control
<1> QED  BY <1>5, <1>6 DEF ServerSends, application

\* Every step keeps the order, and what is done with stays done with.
LEMMA TimelyKept ==
  ASSUME Control, Timely, [Next]_vars
  PROVE  /\ Timely'
         /\ \A x \in Nat : Passed(x) => Passed(x)'
         /\ \A x \in Nat : pc = "process" /\ pc' # "process" /\ x = cur.seq => Passed(x)'
<1> USE SeqType DEF conflation, engine, channels, network, application, history
<1> DEFINE OK == /\ Timely'
                 /\ \A x \in Nat : Passed(x) => Passed(x)'
                 /\ \A x \in Nat : pc = "process" /\ pc' # "process" /\ x = cur.seq => Passed(x)'
<1>1. ASSUME Later, UNCHANGED <<cur, nextSeq, epoch>>, pc' = "process" => pc = "process"
      PROVE  OK
  <2>1. Coming' \subseteq Coming
    BY <1>1, LaterTimely DEF Coming
  <2>2. /\ {ws'[i] : i \in 1 .. Len(ws')} \subseteq {ws[i] : i \in 1 .. Len(ws)}
        /\ \A i \in 1 .. Len(ws') :
              /\ ws'[i].seq < nextSeq /\ epoch <= ws'[i].seq
              /\ \A j \in 1 .. i - 1 : ws'[j].seq < ws'[i].seq
    BY <1>1, LaterTimely
  <2>3. Timely'
    BY <1>1, <2>2 DEF Timely
  <2>4. \A x \in Nat : Passed(x) => Passed(x)'
    BY <1>1, <2>1 DEF Passed
  <2>5. pc = "process" /\ pc' # "process" => cur.seq < nextSeq' /\ \A n \in Coming' : cur.seq < n.seq
    BY <1>1, <2>2 DEF Timely, Coming
  <2> QED  BY <2>3, <2>4, <2>5 DEF Passed
<1>2. ASSUME Later, UNCHANGED <<nextSeq, epoch>>, pc' # "process"
      PROVE  OK
  <2>1. Coming' \subseteq Coming
    BY <1>2, LaterTimely DEF Coming
  <2>2. /\ {ws'[i] : i \in 1 .. Len(ws')} \subseteq {ws[i] : i \in 1 .. Len(ws)}
        /\ \A i \in 1 .. Len(ws') :
              /\ ws'[i].seq < nextSeq /\ epoch <= ws'[i].seq
              /\ \A j \in 1 .. i - 1 : ws'[j].seq < ws'[i].seq
    BY <1>2, LaterTimely
  <2>3. Timely'
    BY <1>2, <2>2 DEF Timely
  <2>4. \A x \in Nat : Passed(x) => Passed(x)'
    BY <1>2, <2>1 DEF Passed
  <2>5. pc = "process" => cur.seq < nextSeq' /\ \A n \in Coming' : cur.seq < n.seq
    BY <1>2, <2>2 DEF Timely, Coming
  <2> QED  BY <2>3, <2>4, <2>5 DEF Passed
<1>3. CASE Quiet  BY <1>1, <1>3 DEF Quiet
<1>4. CASE Takes
  <2>1. /\ pc # "process" /\ pc' = "process" /\ UNCHANGED <<nextSeq, epoch>>
    BY <1>4 DEF Takes
  <2>2. /\ Later /\ cur' \in {ws[i] : i \in 1 .. Len(ws)}
        /\ cur'.seq < nextSeq /\ epoch <= cur'.seq
        /\ \A i \in 1 .. Len(ws') : cur'.seq < ws'[i].seq
    BY <1>4, TakesTimely
  <2>3. /\ {ws'[i] : i \in 1 .. Len(ws')} \subseteq {ws[i] : i \in 1 .. Len(ws)}
        /\ \A i \in 1 .. Len(ws') :
              /\ ws'[i].seq < nextSeq /\ epoch <= ws'[i].seq
              /\ \A j \in 1 .. i - 1 : ws'[j].seq < ws'[i].seq
    BY <2>2, LaterTimely
  <2>4. Timely'
    BY <2>1, <2>2, <2>3 DEF Timely
  <2>5. Coming' \subseteq Coming
    BY <2>2, <2>3 DEF Coming
  <2> QED  BY <2>1, <2>4, <2>5 DEF Passed
<1>5. CASE Drains  BY <1>1, <1>5, LaterSame DEF Drains
<1>6. CASE Pops  BY <1>1, <1>6 DEF Pops
<1>7. CASE ConnectOk
  <2>1. Coming' = {} /\ Len(ws') = 0 /\ pc' # "process" /\ pc # "process" /\ epoch' = nextSeq /\ nextSeq' = nextSeq
    BY <1>7 DEF ConnectOk, Coming
  <2> QED  BY <2>1 DEF Timely, Passed
<1>8. CASE SendAtOnce  BY <1>2, <1>8, LaterSame DEF SendAtOnce, LeaveLoop
<1>9. CASE Conflate  BY <1>2, <1>9, LaterSame DEF Conflate
<1>10. CASE SendAggregate  BY <1>1, <1>10, LaterSame DEF SendAggregate
<1>11. CASE Stop  BY <1>1, <1>11, LaterSame DEF Stop
<1>12. CASE Receive \/ DropReceiver  BY <1>1, <1>12, LaterSame DEF Receive, DropReceiver
<1>13. CASE ServerSends
  <2>1. /\ Len(ws') = Len(ws) + 1
        /\ \A i \in 1 .. Len(ws) : ws'[i] = ws[i]
        /\ ws'[Len(ws) + 1].seq = nextSeq /\ nextSeq' = nextSeq + 1
        /\ UNCHANGED <<pc, cur, epoch>>
    BY <1>13, ServerSendsTimely
  <2>2. \A i \in 1 .. Len(ws') : i \in 1 .. Len(ws) \/ i = Len(ws) + 1
    BY <2>1
  <2>3. ASSUME NEW i \in 1 .. Len(ws')
        PROVE  /\ ws'[i].seq < nextSeq' /\ epoch <= ws'[i].seq
               /\ \A j \in 1 .. i - 1 : ws'[j].seq < ws'[i].seq
               /\ pc = "process" => cur.seq < ws'[i].seq
    <3>1. \A j \in 1 .. i - 1 : j \in 1 .. Len(ws) /\ ws'[j] = ws[j]
      BY <2>1
    <3>2. CASE i \in 1 .. Len(ws)
      <4>1. /\ ws[i].seq < nextSeq /\ epoch <= ws[i].seq /\ ws[i].seq \in Nat
            /\ \A j \in 1 .. i - 1 : ws[j].seq < ws[i].seq
            /\ pc = "process" => cur.seq < ws[i].seq
        BY <3>2 DEF Timely
      <4>2. ws'[i] = ws[i] /\ nextSeq' = nextSeq + 1 /\ nextSeq \in Nat
        BY <3>2, <2>1
      <4> QED  BY <4>1, <4>2, <3>1
    <3>3. CASE i = Len(ws) + 1
      BY <3>1, <3>3, <2>1 DEF Timely
    <3> QED  BY <2>2, <3>2, <3>3
  <2>4. epoch <= nextSeq' /\ (pc = "process" => cur.seq < nextSeq' /\ epoch <= cur.seq)
    BY <2>1 DEF Timely
  <2>5. Timely'
    BY <2>1, <2>3, <2>4 DEF Timely
  <2>6. \A n \in Coming' : n \in Coming \/ n.seq = nextSeq
    BY <2>1, <2>2 DEF Coming
  <2>7. \A x \in Nat : Passed(x) => Passed(x)'
    BY <2>1, <2>6 DEF Passed
  <2> QED  BY <2>1, <2>5, <2>7
<1> HIDE SeqType DEF conflation, engine, channels, network, application, history
<1> QED
  BY <1>3, <1>4, <1>5, <1>6, <1>7, <1>8, <1>9, <1>10, <1>11, <1>12, <1>13, StepKinds

-----------------------------------------------------------------------------
\* Where messages go.

\* The application is offered one more item, made of the messages ms.
More(ms) ==
  \E n \in Nat :
    /\ \A i \in DOMAIN Offered : i < n /\ Offered'[i] = Offered[i]
    /\ DOMAIN Offered' = DOMAIN Offered \cup {n}
    /\ Offered'[n] = ms

Stored == Buffered \cup Aggregated \cup Draining

\* Nothing moves; a reconnection forgets what is stored; a flush collects the
\* aggregates.
Still == UNCHANGED <<Buffered, Aggregated, draining, Offered, epoch>>

Forgets ==
  /\ Buffered' = {} /\ Aggregated' = {} /\ draining' = {} /\ Offered' = Offered
  /\ epoch' \in Nat

Collects ==
  /\ Aggregated' = {} /\ Draining' = Aggregated
  /\ \A a, b \in draining' : a # b => a.msgs \cap b.msgs = {}
  /\ UNCHANGED <<Buffered, Offered, epoch>>

\* The message being processed is offered, or goes to the buffer or an aggregate.
OffersCur ==
  /\ pc = "process" /\ pc' # "process"
  /\ More({cur})
  /\ UNCHANGED <<Buffered, Aggregated, draining, epoch>>

StoresCur ==
  /\ pc = "process" /\ pc' # "process" /\ ~IsPriority(cur)
  /\ \/ Buffered' \subseteq Buffered \cup {cur} /\ Aggregated' = Aggregated
     \/ IsTrade(cur) /\ Buffered' = Buffered /\ Aggregated' \subseteq Aggregated \cup {cur}
  /\ UNCHANGED <<draining, Offered, epoch>>

\* A flush offers an aggregate, or gives up those it has left.
OffersAggregate ==
  /\ \/ draining' = {} /\ Offered' = Offered
     \/ \E a \in draining : draining' = draining \ {a} /\ More(a.msgs)
  /\ UNCHANGED <<Buffered, Aggregated, epoch>>

\* A flush serves a message of the buffer.
Serves ==
  /\ \E m \in Buffered :
       /\ Buffered' = Buffered \ {m} /\ ~IsPriority(m)
       /\ More({m}) \/ Offered' = Offered
  /\ UNCHANGED <<Aggregated, draining, epoch>>

\* The application stops listening.
Discards ==
  /\ DOMAIN Offered' \subseteq DOMAIN Offered
  /\ \A i \in DOMAIN Offered' : Offered'[i] = Offered[i]
  /\ UNCHANGED <<Buffered, Aggregated, draining, epoch>>

LEMMA OfferedType ==
  ASSUME Stores
  PROVE  /\ Items \in Seq(Item) /\ Len(Items) \in Nat /\ DOMAIN Offered = 1 .. Len(Items)
         /\ \A i \in DOMAIN Offered : Offered[i] = Items[i].msgs /\ Offered[i] \subseteq Message
<1>1. Items \in Seq(Item)
  BY ConcatProperties DEF Items, Stores
<1>2. Len(Items) \in Nat /\ DOMAIN Items = 1 .. Len(Items) /\ \A i \in 1 .. Len(Items) : Items[i] \in Item
  BY <1>1, LenProperties, ElementOfSeq
<1>3. \A item \in Item : item.msgs \subseteq Message
  BY ItemType DEF IsItem
<1> QED  BY <1>1, <1>2, <1>3 DEF Offered

LEMMA ItemsSame == ASSUME UNCHANGED <<received, chan>> PROVE Items' = Items /\ Offered' = Offered
BY DEF Items, Offered

\* Sending offers one more.
LEMMA ItemsSent ==
  ASSUME Stores, NEW item \in Item, Send(item), received' = received
  PROVE  Items' = Append(Items, item) /\ More(item.msgs)
<1>1. received \in Seq(Item) /\ chan \in Seq(Item) /\ <<item>> \in Seq(Item)
  BY DEF Stores
<1>2. Append(chan, item) = chan \o <<item>> /\ Append(Items, item) = Items \o <<item>>
  BY <1>1, AppendIsConcat, OfferedType
<1>3. Items' = Append(Items, item)
  BY <1>1, <1>2, ConcatAssociative DEF Items, Send
<1>4. /\ Len(Items') = Len(Items) + 1 /\ Items'[Len(Items) + 1] = item
      /\ \A i \in 1 .. Len(Items) : Items'[i] = Items[i]
      /\ DOMAIN Items' = 1 .. Len(Items) + 1
  <2>1. Append(Items, item) \in Seq(Item)
    BY AppendProperties, OfferedType
  <2>2. DOMAIN Append(Items, item) = 1 .. Len(Append(Items, item))
    BY <2>1, LenProperties
  <2> QED  BY <1>3, <2>2, AppendProperties, OfferedType
<1>5. Len(Items) \in Nat /\ DOMAIN Offered = 1 .. Len(Items) /\ DOMAIN Items = 1 .. Len(Items)
  BY OfferedType DEF Offered
<1> DEFINE n == Len(Items) + 1
<1>6. \A i \in DOMAIN Offered : i < n /\ Offered'[i] = Offered[i]
  BY <1>4, <1>5 DEF Offered
<1>7. DOMAIN Offered' = DOMAIN Offered \cup {n}
  BY <1>4, <1>5 DEF Offered
<1>8. Offered'[n] = item.msgs
  BY <1>4, <1>5 DEF Offered
<1>9. More(item.msgs)
  BY <1>5, <1>6, <1>7, <1>8 DEF More
<1> QED  BY <1>3, <1>9

\* Receiving moves an item, and does not change what has been offered.
LEMMA ItemsReceived ==
  ASSUME Stores, Receive
  PROVE  Items' = Items /\ Offered' = Offered
<1> DEFINE h == Head(chan)
           t == Tail(chan)
           r == Append(received, h)
<1>1. /\ received \in Seq(Item) /\ chan \in Seq(Item) /\ chan # <<>>
      /\ received' = r /\ chan' = t
  BY DEF Stores, Receive
<1>2. /\ h \in Item /\ h = chan[1] /\ t \in Seq(Item) /\ Len(t) = Len(chan) - 1
      /\ \A i \in 1 .. Len(t) : t[i] = chan[i + 1]
  BY <1>1, HeadTailProperties
<1>3. Len(received) \in Nat /\ Len(chan) \in Nat \ {0}
  BY <1>1, LenProperties, EmptySeq
<1> HIDE DEF h, t
<1>4. /\ r \in Seq(Item) /\ Len(r) = Len(received) + 1 /\ r[Len(received) + 1] = h
      /\ \A i \in 1 .. Len(received) : r[i] = received[i]
  BY <1>1, <1>2, AppendProperties
<1> HIDE DEF r
<1>5. /\ r \o t \in Seq(Item) /\ Len(r \o t) = Len(r) + Len(t)
      /\ \A i \in 1 .. Len(r) + Len(t) : (r \o t)[i] = IF i <= Len(r) THEN r[i] ELSE t[i - Len(r)]
  BY <1>2, <1>4, ConcatProperties
<1>6. /\ Items \in Seq(Item) /\ Len(Items) = Len(received) + Len(chan)
      /\ \A i \in 1 .. Len(received) + Len(chan) :
           Items[i] = IF i <= Len(received) THEN received[i] ELSE chan[i - Len(received)]
  BY <1>1, ConcatProperties DEF Items
<1>7. Len(r \o t) = Len(Items)
  BY <1>2, <1>3, <1>4, <1>5, <1>6
<1>8. ASSUME NEW i \in 1 .. Len(r \o t) PROVE (r \o t)[i] = Items[i]
  <2>1. CASE i <= Len(received)
    BY <2>1, <1>2, <1>3, <1>4, <1>5, <1>6
  <2>2. CASE i = Len(received) + 1
    BY <2>2, <1>2, <1>3, <1>4, <1>5, <1>6
  <2>3. CASE i > Len(received) + 1
    <3>1. i - Len(r) \in 1 .. Len(t) /\ (i - Len(r)) + 1 = i - Len(received) /\ ~(i <= Len(r))
      BY <2>3, <1>2, <1>3, <1>4, <1>5
    <3>2. (r \o t)[i] = t[i - Len(r)]
      BY <3>1, <1>5
    <3>3. t[i - Len(r)] = chan[i - Len(received)]
      BY <3>1, <1>2
    <3>4. i \in 1 .. Len(received) + Len(chan) /\ ~(i <= Len(received))
      BY <2>3, <1>3, <1>6, <1>7
    <3>5. Items[i] = chan[i - Len(received)]
      BY <3>4, <1>6
    <3> QED  BY <3>2, <3>3, <3>5
  <2>4. i \in Nat
    BY <1>3, <1>6, <1>7
  <2> QED  BY <2>1, <2>2, <2>3, <2>4, <1>3
<1>9. r \o t = Items
  BY <1>5, <1>6, <1>7, <1>8, SeqEqual
<1> QED  BY <1>1, <1>9 DEF Items, Offered

\* Dropping the receiver discards what it has not received.
LEMMA ItemsDropped ==
  ASSUME Stores, DropReceiver
  PROVE  /\ DOMAIN Offered' \subseteq DOMAIN Offered
         /\ \A i \in DOMAIN Offered' : Offered'[i] = Offered[i]
<1>1. received \in Seq(Item) /\ chan \in Seq(Item) /\ received' = received /\ chan' = <<>>
  BY DEF Stores, DropReceiver, application
<1>2. Items' = received
  BY <1>1, ConcatEmptySeq DEF Items
<1>3. /\ Len(Items) = Len(received) + Len(chan) /\ Len(received) \in Nat /\ Len(chan) \in Nat
      /\ \A i \in 1 .. Len(received) + Len(chan) :
           Items[i] = IF i <= Len(received) THEN received[i] ELSE chan[i - Len(received)]
      /\ DOMAIN received = 1 .. Len(received)
  BY <1>1, ConcatProperties, LenProperties DEF Items
<1>4. DOMAIN Items = 1 .. Len(received) + Len(chan)
  BY <1>3, OfferedType DEF Offered
<1>5. \A i \in DOMAIN received : i \in DOMAIN Items /\ Items[i] = received[i]
  BY <1>3, <1>4
<1> QED  BY <1>2, <1>5 DEF Offered

\* Popping takes one message out of the buffer, and no other is equal to it.
LEMMA PopBuffered ==
  ASSUME Stores, CanPop(buffer), buffer' = AfterPop(buffer)
  PROVE  Popped(buffer) \in Buffered /\ Buffered' = Buffered \ {Popped(buffer)}
<1>1. PICK k \in DOMAIN buffer.pending :
        /\ Popped(buffer) = buffer.pending[k]
        /\ DOMAIN AfterPop(buffer).pending = DOMAIN buffer.pending \ {k}
        /\ \A x \in DOMAIN buffer.pending \ {k} :
             AfterPop(buffer).pending[x] = buffer.pending[x]
  BY PopStores
<1>2. \A x \in DOMAIN buffer.pending : Key(buffer.pending[x]) = x
  BY DEF Stores, Good, Consistent
<1>3. \A x \in DOMAIN buffer.pending \ {k} : buffer.pending[x] # buffer.pending[k]
  BY <1>2
<1>4. Buffered = {buffer.pending[x] : x \in DOMAIN buffer.pending}
  BY DEF Buffered, Range
<1>5. Buffered' = {buffer.pending[x] : x \in DOMAIN buffer.pending \ {k}}
  BY <1>1 DEF Buffered, Range
<1> QED  BY <1>1, <1>3, <1>4, <1>5

\* A conflated message waits under its key, and costs what the overflow takes.
LEMMA InsertCur ==
  ASSUME Control, Stores, Conflate, ~(IsTrade(cur) /\ state = "Red")
  PROVE  /\ DOMAIN buffer'.pending = (DOMAIN buffer.pending \ Victims(cur)) \cup {Key(cur)}
         /\ buffer'.pending[Key(cur)] = cur
         /\ \A k \in DOMAIN buffer'.pending \ {Key(cur)} : buffer'.pending[k] = buffer.pending[k]
<1>1. PICK red \in BOOLEAN : red = (state = "Red")
  OBVIOUS
<1>2. buffer' = Insert(buffer, cur, red) /\ Victims(cur) = OverflowVictims(buffer, cur, red)
  BY <1>1 DEF Conflate, BufferMessage, Victims
<1>3. Good(buffer) /\ cur \in Message /\ ~IsPriority(cur)
  BY SendableType DEF Stores, Control, Conflate, PassesThrough
<1> QED  BY <1>2, <1>3, InsertKeeps

\* Conflating keeps the message in one place, or in none.
LEMMA ConflateStored ==
  ASSUME Control, Stores, Conflate
  PROVE  StoresCur
<1>1. /\ pc = "process" /\ pc' # "process" /\ ~PassesThrough(cur) /\ BufferMessage(cur)
      /\ UNCHANGED <<draining, received, chan, epoch, state>>
  BY DEF Conflate, channels, application
<1>2. cur \in Message /\ ~IsPriority(cur)
  BY <1>1, SendableType DEF Control, PassesThrough
<1>3. Offered' = Offered
  BY <1>1, ItemsSame
<1>4. CASE IsTrade(cur) /\ state = "Red"
  <2>1. buffer' = buffer /\ AggregateTrade(cur)
    BY <1>1, <1>4 DEF BufferMessage
  <2>2. Aggregated' \subseteq Aggregated \cup {cur}
    <3> DEFINE s == cur.sym
    <3>1. CASE aggregates' = aggregates
      BY <3>1 DEF Aggregated
    <3>2. CASE aggregates' # aggregates
      <4>1. \E new : /\ aggregates' = With(aggregates, s, new)
                     /\ new.msgs \subseteq Aggregated \cup {cur}
        <5>1. CASE s \in DOMAIN aggregates
          <6> DEFINE new == [data |-> MergeTrades(aggregates[s].data, TradesOf(cur)),
                             msgs |-> aggregates[s].msgs \cup {cur}]
          <6>1. aggregates' = With(aggregates, s, new)
            BY <5>1, <3>2, <2>1 DEF AggregateTrade
          <6>2. new.msgs \subseteq Aggregated \cup {cur}
            BY <5>1 DEF Aggregated
          <6> QED  BY <6>1, <6>2
        <5>2. CASE s \notin DOMAIN aggregates
          <6> DEFINE new == [data |-> CreateAggregate(TradesOf(cur)), msgs |-> {cur}]
          <6>1. aggregates' = With(aggregates, s, new)
            BY <5>2, <3>2, <2>1 DEF AggregateTrade
          <6> QED  BY <6>1
        <5> QED  BY <5>1, <5>2
      <4>2. PICK new : aggregates' = With(aggregates, s, new) /\ new.msgs \subseteq Aggregated \cup {cur}
        BY <4>1
      <4>3. /\ DOMAIN aggregates' = DOMAIN aggregates \cup {s} /\ aggregates'[s] = new
            /\ \A x \in DOMAIN aggregates \ {s} : aggregates'[x] = aggregates[x]
        BY <4>2 DEF With
      <4>4. \A x \in DOMAIN aggregates' : aggregates'[x].msgs \subseteq Aggregated \cup {cur}
        BY <4>2, <4>3 DEF Aggregated
      <4> QED  BY <4>4 DEF Aggregated
    <3> QED  BY <3>1, <3>2
  <2>3. Buffered' = Buffered
    BY <2>1 DEF Buffered
  <2> QED  BY <2>2, <2>3, <1>1, <1>2, <1>3, <1>4 DEF StoresCur
<1>5. CASE ~(IsTrade(cur) /\ state = "Red")
  <2>1. aggregates' = aggregates
    BY <1>1, <1>5 DEF BufferMessage
  <2>3. /\ DOMAIN buffer'.pending = (DOMAIN buffer.pending \ Victims(cur)) \cup {Key(cur)}
        /\ buffer'.pending[Key(cur)] = cur
        /\ \A k \in DOMAIN buffer'.pending \ {Key(cur)} : buffer'.pending[k] = buffer.pending[k]
    BY <1>5, InsertCur
  <2>4. \A k \in DOMAIN buffer'.pending : buffer'.pending[k] \in Buffered \cup {cur}
    BY <2>3 DEF Buffered, Range
  <2>5. Buffered' \subseteq Buffered \cup {cur}
    BY <2>4 DEF Buffered, Range
  <2>6. Aggregated' = Aggregated
    BY <2>1 DEF Aggregated
  <2> QED  BY <2>5, <2>6, <1>1, <1>2, <1>3 DEF StoresCur
<1> QED  BY <1>4, <1>5

\* Every step is one of the above.
LEMMA Effects ==
  ASSUME Control, Stores, [Next]_vars
  PROVE  \/ Still \/ Forgets \/ Collects \/ OffersCur \/ StoresCur
         \/ OffersAggregate \/ Serves \/ Discards
<1> USE DEF conflation, engine, channels, network, application, history
<1>0. ASSUME UNCHANGED <<buffer, aggregates, draining, epoch>>, Offered' = Offered
      PROVE  Still
  BY <1>0 DEF Still, Buffered, Aggregated
<1>1. CASE Quiet \/ Takes \/ Stop \/ ServerSends
  <2>1. UNCHANGED <<buffer, aggregates, draining, epoch, chan, received>>
    BY <1>1 DEF Quiet, Takes, Stop, ServerSends
  <2> QED  BY <2>1, <1>0, ItemsSame
<1>2. CASE Receive
  <2>1. UNCHANGED <<buffer, aggregates, draining, epoch>>
    BY <1>2 DEF Receive
  <2> QED  BY <2>1, <1>0, <1>2, ItemsReceived
<1>3. CASE Drains
  <2>1. draining' = AllAggregates /\ aggregates' = NoAggregates /\ UNCHANGED <<buffer, epoch, chan, received>>
    BY <1>3 DEF Drains
  <2>2. Aggregated' = {}
    BY <2>1 DEF Aggregated, NoAggregates
  <2>3. Draining' = Aggregated
    <3>1. \A s \in DOMAIN aggregates :
            ItemOf(aggregates[s].data, aggregates[s].msgs).msgs = aggregates[s].msgs
      BY DrainStores
    <3>2. Draining' = UNION {item.msgs : item \in AllAggregates}
      BY <2>1 DEF Draining
    <3> QED  BY <3>1, <3>2 DEF Aggregated, AllAggregates
  <2>4. ASSUME NEW a \in AllAggregates, NEW b \in AllAggregates, a # b PROVE a.msgs \cap b.msgs = {}
    <3>1. PICK s \in DOMAIN aggregates : a = ItemOf(aggregates[s].data, aggregates[s].msgs)
      BY DEF AllAggregates
    <3>2. PICK t \in DOMAIN aggregates : b = ItemOf(aggregates[t].data, aggregates[t].msgs)
      BY DEF AllAggregates
    <3>3. a.msgs = aggregates[s].msgs /\ b.msgs = aggregates[t].msgs
      BY <3>1, <3>2, DrainStores
    <3>4. s # t
      BY <2>4, <3>1, <3>2
    <3> QED  BY <3>3, <3>4 DEF Stores
  <2>5. Buffered' = Buffered /\ Offered' = Offered
    BY <2>1, ItemsSame DEF Buffered
  <2>6. Collects
    BY <2>1, <2>2, <2>3, <2>4, <2>5 DEF Collects
  <2> QED  BY <2>6
<1>4. CASE Pops
  <2>1. /\ Popped(buffer) \in Buffered /\ Buffered' = Buffered \ {Popped(buffer)}
        /\ ~IsPriority(Popped(buffer)) /\ Single(Popped(buffer)) \in Item
        /\ Single(Popped(buffer)).msgs = {Popped(buffer)}
    BY <1>4, PopBuffered, PopStores, ItemType DEF Pops
  <2>2. UNCHANGED <<Aggregated, draining, epoch>>
    BY <1>4 DEF Pops, Aggregated
  <2>3. CASE Send(Single(Popped(buffer)))
    <3>1. More({Popped(buffer)})
      BY <1>4, <2>1, <2>3, ItemsSent DEF Pops
    <3>2. Serves
      BY <2>1, <2>2, <3>1 DEF Serves
    <3> QED  BY <3>2
  <2>4. CASE UNCHANGED chan
    <3>1. Offered' = Offered
      BY <1>4, <2>4, ItemsSame DEF Pops
    <3>2. Serves
      BY <2>1, <2>2, <3>1 DEF Serves
    <3> QED  BY <3>2
  <2> QED  BY <1>4, <2>3, <2>4 DEF Pops
<1>5. CASE ConnectOk
  <2>1. /\ buffer' = EmptyBuffer /\ aggregates' = NoAggregates /\ draining' = {}
        /\ UNCHANGED <<chan, received>> /\ epoch' \in Nat
    BY <1>5 DEF ConnectOk, ClearConflation, Control
  <2>2. Buffered' = {} /\ Aggregated' = {}
    BY <2>1 DEF Buffered, Range, EmptyBuffer, Aggregated, NoAggregates
  <2>3. Forgets
    BY <2>1, <2>2, ItemsSame DEF Forgets
  <2> QED  BY <2>3
<1>6. CASE SendAtOnce
  <2>1. /\ pc = "process" /\ pc' # "process"
        /\ UNCHANGED <<buffer, aggregates, draining, epoch, received>>
        /\ Send(Single(cur)) \/ UNCHANGED chan
    BY <1>6 DEF SendAtOnce, LeaveLoop
  <2>2. CASE UNCHANGED chan
    BY <2>1, <2>2, <1>0, ItemsSame
  <2>3. CASE Send(Single(cur))
    <3>1. Single(cur) \in Item /\ Single(cur).msgs = {cur}
      BY SendableType, NoMessageType, ItemType DEF Control
    <3>2. More({cur})
      BY <2>1, <2>3, <3>1, ItemsSent
    <3>3. OffersCur
      BY <2>1, <3>2 DEF OffersCur, Buffered, Aggregated
    <3> QED  BY <3>3
  <2> QED  BY <2>1, <2>2, <2>3
<1>7. CASE Conflate  BY <1>7, ConflateStored
<1>8. CASE SendAggregate
  <2>1. UNCHANGED <<buffer, aggregates, epoch, received>>
    BY <1>8 DEF SendAggregate
  <2>2. Buffered' = Buffered /\ Aggregated' = Aggregated
    BY <2>1 DEF Buffered, Aggregated
  <2>3. CASE draining' = {} /\ UNCHANGED chan
    <3>1. OffersAggregate
      BY <2>1, <2>2, <2>3, ItemsSame DEF OffersAggregate
    <3> QED  BY <3>1
  <2>4. CASE \E a \in draining : Send(a) /\ draining' = draining \ {a}
    <3>1. PICK a \in draining : Send(a) /\ draining' = draining \ {a}
      BY <2>4
    <3>2. More(a.msgs)
      BY <3>1, <2>1, ItemsSent DEF Stores
    <3>3. OffersAggregate
      BY <3>1, <3>2, <2>1, <2>2 DEF OffersAggregate
    <3> QED  BY <3>3
  <2> QED  BY <1>8, <2>3, <2>4 DEF SendAggregate
<1>9. CASE DropReceiver
  <2>1. UNCHANGED <<buffer, aggregates, draining, epoch>>
    BY <1>9 DEF DropReceiver
  <2>2. Discards
    BY <2>1, <1>9, ItemsDropped DEF Discards, Buffered, Aggregated
  <2> QED  BY <2>2
<1> HIDE DEF conflation, engine, channels, network, application, history
<1> QED  BY <1>1, <1>2, <1>3, <1>4, <1>5, <1>6, <1>7, <1>8, <1>9, StepKinds

-----------------------------------------------------------------------------
\* Once, in order, and fresh.

Done == UNION {Offered[i] : i \in DOMAIN Offered}

\* What the engine has stored or offered came before all that is to come.
Known == \A m \in Stored \cup Done : m \in Message /\ Passed(m.seq)

\* What it has stored was read on this connection.
Fresh == \A m \in Stored : epoch <= m.seq

\* A message is in one place.
Once ==
  /\ \A i, j \in DOMAIN Offered : i # j => Offered[i] \cap Offered[j] = {}
  /\ \A i \in DOMAIN Offered : Offered[i] \cap Stored = {}
  /\ Buffered \cap (Aggregated \cup Draining) = {} /\ Aggregated \cap Draining = {}
  /\ \A a, b \in draining : a # b => a.msgs \cap b.msgs = {}

LEMMA PlacesInit == ASSUME Init PROVE Known /\ Fresh /\ Once /\ PriorityInOrder
<1>1. DOMAIN buffer.pending = {} /\ DOMAIN aggregates = {} /\ draining = {} /\ chan = <<>> /\ received = <<>>
  BY DEF Init, ConflationInit, EmptyBuffer, NoAggregates
<1>2. Buffered = {} /\ Aggregated = {} /\ Draining = {}
  BY <1>1 DEF Buffered, Range, Aggregated, Draining
<1>3. Items = <<>>
  <2>1. <<>> \in Seq(Item)
    OBVIOUS
  <2> QED  BY <1>1, <2>1, ConcatEmptySeq DEF Items
<1>4. DOMAIN Offered = {}
  BY <1>3 DEF Offered
<1> QED  BY <1>1, <1>2, <1>4 DEF Known, Fresh, Once, PriorityInOrder, Stored, Done

\* One more item: what is offered then.
LEMMA MoreDone ==
  ASSUME NEW ms, More(ms)
  PROVE  Done' = Done \cup ms
<1>1. PICK n \in Nat :
        /\ \A i \in DOMAIN Offered : i < n /\ Offered'[i] = Offered[i]
        /\ DOMAIN Offered' = DOMAIN Offered \cup {n}
        /\ Offered'[n] = ms
  BY DEF More
<1> QED  BY <1>1 DEF Done

\* Only the message being processed is added to what is stored or offered.
LEMMA Grows ==
  ASSUME Control, Stores, [Next]_vars
  PROVE  \/ Stored' \cup Done' \subseteq Stored \cup Done
         \/ /\ pc = "process" /\ pc' # "process"
            /\ Stored' \cup Done' \subseteq Stored \cup Done \cup {cur}
<1>1. draining' = draining => Draining' = Draining
  BY DEF Draining
<1>2. draining' = {} => Draining' = {}
  BY DEF Draining
<1>3. Offered' = Offered => Done' = Done
  BY DEF Done
<1>4. CASE Still  BY <1>1, <1>3, <1>4 DEF Still, Stored
<1>5. CASE Forgets  BY <1>2, <1>3, <1>5 DEF Forgets, Stored
<1>6. CASE Collects  BY <1>3, <1>6 DEF Collects, Stored
<1>7. CASE OffersCur  BY <1>1, <1>7, MoreDone DEF OffersCur, Stored
<1>8. CASE StoresCur  BY <1>1, <1>3, <1>8 DEF StoresCur, Stored
<1>9. CASE OffersAggregate
  <2>1. CASE draining' = {} /\ Offered' = Offered
    BY <1>2, <1>3, <1>9, <2>1 DEF OffersAggregate, Stored
  <2>2. CASE \E a \in draining : draining' = draining \ {a} /\ More(a.msgs)
    <3>1. PICK a \in draining : draining' = draining \ {a} /\ More(a.msgs)
      BY <2>2
    <3>2. Done' = Done \cup a.msgs /\ a.msgs \subseteq Draining /\ Draining' \subseteq Draining
      BY <3>1, MoreDone DEF Draining
    <3> QED  BY <3>2, <1>9 DEF OffersAggregate, Stored
  <2> QED  BY <1>9, <2>1, <2>2 DEF OffersAggregate
<1>10. CASE Serves
  <2>1. PICK m \in Buffered : Buffered' = Buffered \ {m} /\ (More({m}) \/ Offered' = Offered)
    BY <1>10 DEF Serves
  <2>2. Done' \subseteq Done \cup {m}
    BY <2>1, <1>3, MoreDone
  <2> QED  BY <2>1, <2>2, <1>1, <1>10 DEF Serves, Stored
<1>11. CASE Discards
  <2>1. Done' \subseteq Done
    BY <1>11 DEF Discards, Done
  <2> QED  BY <2>1, <1>1, <1>11 DEF Discards, Stored
<1> QED  BY <1>4, <1>5, <1>6, <1>7, <1>8, <1>9, <1>10, <1>11, Effects

LEMMA KnownKept ==
  ASSUME Control, Stores, Timely, Known, [Next]_vars
  PROVE  Known'
<1>1. /\ \A x \in Nat : Passed(x) => Passed(x)'
      /\ \A x \in Nat : pc = "process" /\ pc' # "process" /\ x = cur.seq => Passed(x)'
  BY TimelyKept
<1>2. cur \in Message /\ \A m \in Message : m.seq \in Nat
  BY SendableType, NoMessageType DEF Control, Message
<1>3. ASSUME NEW m \in Stored' \cup Done' PROVE m \in Message /\ Passed(m.seq)'
  <2>1. CASE m \in Stored \cup Done
    <3>1. m \in Message /\ Passed(m.seq)
      BY <2>1 DEF Known
    <3> QED  BY <3>1, <1>1, <1>2
  <2>2. CASE m = cur /\ pc = "process" /\ pc' # "process"
    <3>1. m \in Message /\ m.seq \in Nat /\ m.seq = cur.seq
      BY <2>2, <1>2
    <3> QED  BY <3>1, <2>2, <1>1
  <2> QED  BY <2>1, <2>2, <1>3, Grows
<1> QED  BY <1>3 DEF Known

\* The message being processed is new.
LEMMA CurNew ==
  ASSUME Control, Known, pc = "process"
  PROVE  /\ cur \notin Stored /\ cur \notin Done
         /\ \A m \in Stored \cup Done : m.seq < cur.seq
<1>1. cur \in Coming /\ cur.seq \in Nat
  BY SeqType DEF Coming
<1>2. \A m \in Stored \cup Done : m.seq < cur.seq
  BY <1>1 DEF Known, Passed
<1>3. ~(cur.seq < cur.seq)
  BY <1>1
<1> QED  BY <1>2, <1>3

LEMMA FreshKept ==
  ASSUME Control, Stores, Timely, Fresh, [Next]_vars
  PROVE  Fresh'
<1>1. draining' = draining => Draining' = Draining
  BY DEF Draining
<1>2. draining' \subseteq draining => Draining' \subseteq Draining
  BY DEF Draining
<1>3. pc = "process" => epoch <= cur.seq
  BY DEF Timely
<1>4. CASE Forgets
  <2>1. Draining' = {}
    BY <1>4 DEF Forgets, Draining
  <2> QED  BY <1>4, <2>1 DEF Forgets, Stored, Fresh
<1>5. ASSUME epoch' = epoch, Stored' \subseteq Stored PROVE Fresh'
  BY <1>5 DEF Fresh
<1>6. CASE Still  BY <1>1, <1>5, <1>6 DEF Still, Stored
<1>7. CASE Collects  BY <1>5, <1>7 DEF Collects, Stored
<1>8. CASE OffersCur  BY <1>1, <1>5, <1>8 DEF OffersCur, Stored
<1>9. CASE StoresCur
  <2>1. Stored' \subseteq Stored \cup {cur} /\ epoch' = epoch /\ pc = "process"
    BY <1>1, <1>9 DEF StoresCur, Stored
  <2> QED  BY <2>1, <1>3 DEF Fresh
<1>10. CASE OffersAggregate  BY <1>2, <1>5, <1>10 DEF OffersAggregate, Stored
<1>11. CASE Serves  BY <1>1, <1>5, <1>11 DEF Serves, Stored
<1>12. CASE Discards  BY <1>1, <1>5, <1>12 DEF Discards, Stored
<1> QED  BY <1>4, <1>6, <1>7, <1>8, <1>9, <1>10, <1>11, <1>12, Effects

\* The item added shares nothing with what was offered or stays stored.
LEMMA MoreOnce ==
  ASSUME Stores, Once, NEW ms, More(ms), ms \cap Done = {}, ms \cap Stored' = {}, Stored' \subseteq Stored
  PROVE  /\ \A i, j \in DOMAIN Offered' : i # j => Offered'[i] \cap Offered'[j] = {}
         /\ \A i \in DOMAIN Offered' : Offered'[i] \cap Stored' = {}
<1>1. PICK n \in Nat :
        /\ \A i \in DOMAIN Offered : i < n /\ Offered'[i] = Offered[i]
        /\ DOMAIN Offered' = DOMAIN Offered \cup {n}
        /\ Offered'[n] = ms
  BY DEF More
<1>2. \A i \in DOMAIN Offered : Offered[i] \cap ms = {}
  BY DEF Done
<1>3. ASSUME NEW i \in DOMAIN Offered', NEW j \in DOMAIN Offered', i # j
      PROVE  Offered'[i] \cap Offered'[j] = {}
  <2>1. CASE i = n
    BY <2>1, <1>1, <1>2, <1>3
  <2>2. CASE j = n
    BY <2>2, <1>1, <1>2, <1>3
  <2>3. CASE i # n /\ j # n
    BY <2>3, <1>1, <1>3 DEF Once
  <2> QED  BY <2>1, <2>2, <2>3
<1>4. \A i \in DOMAIN Offered' : Offered'[i] \cap Stored' = {}
  BY <1>1 DEF Once
<1> QED  BY <1>3, <1>4

LEMMA OnceKept ==
  ASSUME Control, Stores, Known, Once, [Next]_vars
  PROVE  Once'
<1>1. draining' = draining => Draining' = Draining
  BY DEF Draining
<1>2. draining' = {} => Draining' = {}
  BY DEF Draining
<1>3. pc = "process" => cur \notin Stored /\ cur \notin Done
  BY CurNew
<1>4. CASE Still  BY <1>1, <1>4 DEF Still, Once, Stored
<1>5. CASE Forgets  BY <1>2, <1>5 DEF Forgets, Once, Stored
<1>6. CASE Collects  BY <1>6 DEF Collects, Once, Stored
<1>7. CASE OffersCur
  <2>1. Stored' = Stored /\ Buffered' = Buffered /\ Aggregated' = Aggregated /\ draining' = draining
        /\ Draining' = Draining /\ pc = "process" /\ More({cur})
    BY <1>1, <1>7 DEF OffersCur, Stored
  <2>2. /\ \A i, j \in DOMAIN Offered' : i # j => Offered'[i] \cap Offered'[j] = {}
        /\ \A i \in DOMAIN Offered' : Offered'[i] \cap Stored' = {}
    BY <2>1, <1>3, MoreOnce
  <2> QED  BY <2>1, <2>2 DEF Once
<1>8. CASE StoresCur
  <2>1. /\ draining' = draining /\ Draining' = Draining /\ Offered' = Offered /\ pc = "process"
        /\ \/ Buffered' \subseteq Buffered \cup {cur} /\ Aggregated' = Aggregated
           \/ Buffered' = Buffered /\ Aggregated' \subseteq Aggregated \cup {cur}
    BY <1>1, <1>8 DEF StoresCur
  <2>2. \A i \in DOMAIN Offered : cur \notin Offered[i]
    BY <2>1, <1>3 DEF Done
  <2> QED  BY <2>1, <2>2, <1>3 DEF Once, Stored
<1>9. CASE OffersAggregate
  <2>1. CASE draining' = {} /\ Offered' = Offered
    BY <2>1, <1>2, <1>9 DEF OffersAggregate, Once, Stored
  <2>2. CASE \E a \in draining : draining' = draining \ {a} /\ More(a.msgs)
    <3>1. PICK a \in draining : draining' = draining \ {a} /\ More(a.msgs)
      BY <2>2
    <3>2. a.msgs \subseteq Draining /\ Draining' \subseteq Draining /\ Draining' \cap a.msgs = {}
      BY <3>1 DEF Draining, Once
    <3>3. /\ Buffered' = Buffered /\ Aggregated' = Aggregated /\ Stored' \subseteq Stored
          /\ a.msgs \cap Stored' = {} /\ a.msgs \cap Done = {}
      BY <3>2, <1>9 DEF OffersAggregate, Stored, Once, Done
    <3>4. /\ \A i, j \in DOMAIN Offered' : i # j => Offered'[i] \cap Offered'[j] = {}
          /\ \A i \in DOMAIN Offered' : Offered'[i] \cap Stored' = {}
      BY <3>1, <3>3, MoreOnce
    <3> QED  BY <3>1, <3>2, <3>3, <3>4 DEF Once
  <2> QED  BY <1>9, <2>1, <2>2 DEF OffersAggregate
<1>10. CASE Serves
  <2>1. PICK m \in Buffered : Buffered' = Buffered \ {m} /\ (More({m}) \/ Offered' = Offered)
    BY <1>10 DEF Serves
  <2>2. /\ Aggregated' = Aggregated /\ draining' = draining /\ Draining' = Draining
        /\ Stored' \subseteq Stored /\ {m} \cap Stored' = {} /\ {m} \cap Done = {}
    BY <2>1, <1>1, <1>10 DEF Serves, Stored, Once, Done
  <2>3. CASE More({m})
    <3>1. /\ \A i, j \in DOMAIN Offered' : i # j => Offered'[i] \cap Offered'[j] = {}
          /\ \A i \in DOMAIN Offered' : Offered'[i] \cap Stored' = {}
      BY <2>2, <2>3, MoreOnce
    <3> QED  BY <2>1, <2>2, <3>1 DEF Once
  <2>4. CASE Offered' = Offered
    BY <2>1, <2>2, <2>4 DEF Once
  <2> QED  BY <2>1, <2>3, <2>4
<1>11. CASE Discards
  BY <1>1, <1>11 DEF Discards, Once, Stored
<1> QED  BY <1>4, <1>5, <1>6, <1>7, <1>8, <1>9, <1>10, <1>11, Effects

\* A priority message that is added is newer than those before it.
LEMMA InOrderKept ==
  ASSUME Control, Stores, Known, PriorityInOrder, [Next]_vars
  PROVE  PriorityInOrder'
<1>1. ASSUME Offered' = Offered PROVE PriorityInOrder'
  BY <1>1 DEF PriorityInOrder
<1>2. ASSUME NEW ms, More(ms),
             \A n \in ms : IsPriority(n) => \A m \in Done : m.seq < n.seq
      PROVE  PriorityInOrder'
  <2>1. PICK x \in Nat :
          /\ \A i \in DOMAIN Offered : i < x /\ Offered'[i] = Offered[i]
          /\ DOMAIN Offered' = DOMAIN Offered \cup {x}
          /\ Offered'[x] = ms
    BY <1>2 DEF More
  <2>2. DOMAIN Offered \subseteq Nat
    BY OfferedType
  <2>3. ASSUME NEW i \in DOMAIN Offered', NEW j \in DOMAIN Offered', i < j,
               NEW m \in Offered'[i], NEW n \in Offered'[j], IsPriority(m), IsPriority(n)
        PROVE  m.seq < n.seq
    <3>1. i \in DOMAIN Offered
      BY <2>1, <2>2, <2>3
    <3>2. CASE j = x
      BY <3>1, <3>2, <2>1, <2>3, <1>2 DEF Done
    <3>3. CASE j \in DOMAIN Offered
      BY <3>1, <3>3, <2>1, <2>3 DEF PriorityInOrder
    <3> QED  BY <3>2, <3>3, <2>1
  <2> QED  BY <2>3 DEF PriorityInOrder
<1>3. \A m : IsTrade(m) => ~IsPriority(m)
  BY DEF IsTrade, IsPriority, PrivateKinds, ControlKinds
<1>4. CASE Still \/ Forgets \/ Collects \/ StoresCur
  BY <1>1, <1>4 DEF Still, Forgets, Collects, StoresCur
<1>5. CASE OffersCur
  BY <1>2, <1>5, CurNew DEF OffersCur
<1>6. CASE OffersAggregate
  BY <1>1, <1>2, <1>3, <1>6 DEF OffersAggregate, Stores
<1>7. CASE Serves
  BY <1>1, <1>2, <1>7 DEF Serves
<1>8. CASE Discards
  BY <1>8 DEF Discards, PriorityInOrder
<1> QED  BY <1>4, <1>5, <1>6, <1>7, <1>8, Effects

\* The invariant behind the properties of delivery.
Delivery == Sound /\ Timely /\ Known /\ Fresh /\ Once /\ PriorityInOrder

LEMMA DeliveryInit == Init => Delivery
BY SoundInit, TimelyInit, PlacesInit DEF Delivery

LEMMA DeliveryKept == Delivery /\ [Next]_vars => Delivery'
<1> SUFFICES ASSUME Delivery, [Next]_vars PROVE Delivery'
  OBVIOUS
<1>1. Control /\ Stores /\ Sound'
  BY SoundKept DEF Delivery, Sound
<1>2. Timely' /\ Known' /\ Fresh'
  BY <1>1, TimelyKept, KnownKept, FreshKept DEF Delivery
<1>3. Once' /\ PriorityInOrder'
  BY <1>1, OnceKept, InOrderKept DEF Delivery
<1> QED  BY <1>1, <1>2, <1>3 DEF Delivery

LEMMA AlwaysDelivery == Spec => []Delivery
BY DeliveryInit, DeliveryKept, PTL DEF Spec

LEMMA OnceDelivered == Delivery => DeliveredOnce
<1> SUFFICES ASSUME Delivery PROVE DeliveredOnce
  OBVIOUS
<1>1. Control /\ Known /\ Once
  BY DEF Delivery, Sound
<1>2. Held = Stored \cup ({cur} \ {NoMessage})
  BY DEF Held, Stored
<1>3. ASSUME NEW i \in DOMAIN Offered PROVE Offered[i] \cap Held = {}
  <2>1. cur # NoMessage => cur \notin Done
    BY <1>1, CurNew DEF Control
  <2>2. Offered[i] \cap Stored = {} /\ Offered[i] \subseteq Done
    BY <1>1 DEF Once, Done
  <2> QED  BY <1>2, <2>1, <2>2
<1> QED  BY <1>1, <1>3 DEF DeliveredOnce, Once

\* No message reaches the application twice, whatever way it went through the
\* buffer, the aggregates, a flush or a reconnection, and nothing that is still
\* held has been offered.
THEOREM NothingTwice == Spec => []DeliveredOnce
BY AlwaysDelivery, OnceDelivered, PTL

\* Private and control messages arrive in the order the server sent them.
THEOREM PriorityStaysInOrder == Spec => []PriorityInOrder
<1>1. Delivery => PriorityInOrder
  BY DEF Delivery
<1> QED  BY AlwaysDelivery, <1>1, PTL

\* An item that is sent is the last of the channel, and made of messages of this
\* connection.
LEMMA FreshSent ==
  ASSUME Control, Stores, Timely, Fresh, [Next]_vars, Len(chan') > Len(chan)
  PROVE  \A m \in chan'[Len(chan')].msgs : m.seq >= epoch
<1> USE DEF conflation, engine, channels, network, application, history
<1>0. /\ Len(chan) \in Nat /\ epoch \in Nat /\ cur \in Message
      /\ Stored \cup {cur} \subseteq Message
  <2>1. Buffered \subseteq Message
    BY DEF Buffered, Range, Stores, Good, IsBuffer
  <2>2. Aggregated \subseteq Message
    BY DEF Aggregated, Stores
  <2>3. Draining \subseteq Message
    BY ItemType DEF Draining, Stores, IsItem
  <2>4. cur \in Message
    BY SendableType, NoMessageType DEF Control
  <2> QED  BY <2>1, <2>2, <2>3, <2>4, LenProperties DEF Stored, Stores, Control
<1>1. ASSUME NEW item \in Item, chan' = Append(chan, item), item.msgs \subseteq Stored \cup {m \in {cur} : pc = "process"}
      PROVE  \A m \in chan'[Len(chan')].msgs : m.seq >= epoch
  <2>1. chan'[Len(chan')] = item
    BY <1>1, AppendProperties DEF Stores
  <2>2. ASSUME NEW m \in item.msgs PROVE m.seq >= epoch
    <3>1. epoch <= m.seq
      BY <1>1, <2>2 DEF Fresh, Timely
    <3>2. m.seq \in Nat
      BY <1>0, <1>1, <2>2 DEF Message
    <3> QED  BY <3>1, <3>2, <1>0
  <2> QED  BY <2>1, <2>2
<1>2. chan' # chan
  BY <1>0
<1>3. CASE Pops
  <2>1. chan' = Append(chan, Single(Popped(buffer)))
    BY <1>2, <1>3 DEF Pops, Send
  <2>2. Popped(buffer) \in Stored
    BY <1>3, PopBuffered DEF Pops, Stored
  <2>3. Single(Popped(buffer)) \in Item /\ Single(Popped(buffer)).msgs = {Popped(buffer)}
    BY <2>2, <1>0, ItemType
  <2> QED  BY <1>1, <2>1, <2>2, <2>3
<1>4. CASE SendAtOnce
  <2>1. chan' = Append(chan, Single(cur)) /\ pc = "process"
    BY <1>2, <1>4 DEF SendAtOnce, Send
  <2>2. Single(cur) \in Item /\ Single(cur).msgs = {cur}
    BY <1>0, ItemType
  <2> QED  BY <1>1, <2>1, <2>2
<1>5. CASE SendAggregate
  <2>1. PICK a \in draining : chan' = Append(chan, a)
    BY <1>2, <1>5 DEF SendAggregate, Send
  <2>2. a \in Item /\ a.msgs \subseteq Stored
    BY <2>1 DEF Stores, Stored, Draining
  <2> QED  BY <1>1, <2>1, <2>2
<1>6. CASE Quiet \/ Takes \/ Drains \/ ConnectOk \/ Conflate \/ Stop \/ ServerSends
  BY <1>2, <1>6 DEF Quiet, Takes, Drains, ConnectOk, Conflate, Stop, ServerSends
<1>7. CASE Receive \/ DropReceiver
  <2>1. chan' = <<>> \/ (chan # <<>> /\ chan' = Tail(chan))
    BY <1>7 DEF Receive, DropReceiver
  <2>2. ~(Len(chan') > Len(chan))
    BY <2>1, <1>0, HeadTailProperties DEF Stores
  <2> QED  BY <2>2
<1> HIDE DEF conflation, engine, channels, network, application, history
<1> QED  BY <1>3, <1>4, <1>5, <1>6, <1>7, StepKinds

\* Nothing read on an earlier connection is offered after a reconnection.
THEOREM NothingStale == Spec => NoStaleDelivery
<1>1. Delivery /\ [Next]_vars =>
        [Len(chan') > Len(chan) => \A m \in chan'[Len(chan')].msgs : m.seq >= epoch]_vars
  BY FreshSent DEF Delivery, Sound
<1> QED  BY <1>1, AlwaysDelivery, PTL DEF Spec, NoStaleDelivery

-----------------------------------------------------------------------------
\* The newest message of each key.

\* It is filed under its key and no trade; it has been offered, or waits in the
\* buffer; and a message that conflation lets pass finds room, for the state was
\* computed from the fill of the channel, which only the engine fills.
Newest ==
  /\ \A k \in DOMAIN latest :
       latest[k] \in Message /\ Key(latest[k]) = k /\ ~IsTrade(latest[k])
  /\ rxOpen => \A k \in DOMAIN latest :
       latest[k] \in Done \/ (pc # "stopped" /\ latest[k] \in Buffered)
  /\ pc = "process" /\ state = "Green" => HasRoom

LEMMA NewestInit == ASSUME Init PROVE Newest
<1>1. DOMAIN latest = {} /\ pc = "connecting"
  BY DEF Init
<1> QED  BY <1>1 DEF Newest

LEMMA NewestType == Newest => NewestKept
BY DEF Newest, NewestKept, Done

\* A trade and another message never have the same key.
LEMMA TradeKey ==
  ASSUME NEW m \in Message, NEW n \in Message, IsTrade(m), ~IsTrade(n)
  PROVE  Key(m) # Key(n)
<1>1. m.kind \in Kinds /\ n.kind \in Kinds /\ m.kind = "trade" /\ n.kind # "trade"
  BY DEF Message, IsTrade
<1>2. ASSUME NEW k \in Kinds PROVE Channel[k] = "trade" <=> k = "trade"
  BY <1>2 DEF Channel
<1> QED  BY <1>1, <1>2 DEF Key

\* Below half the channel has room.
LEMMA GreenRoom ==
  ASSUME Stores, FromCapacity(Len(chan), ChannelCapacity) = "Green"
  PROVE  HasRoom
<1>1. Len(chan) \in Nat /\ ChannelCapacity \in Nat \ {0}
  BY CapacityAssumption, LenProperties DEF Stores
<1>2. 2 * Len(chan) < ChannelCapacity
  BY <1>1 DEF FromCapacity
<1> QED  BY <1>1, <1>2 DEF HasRoom

\* What conflating does to latest, and where what it leaves is.
LEMMA LatestConflated ==
  ASSUME latest' = IF IsTrade(cur) THEN Without(latest, Victims(cur))
                   ELSE With(Without(latest, Victims(cur)), Key(cur), cur)
  PROVE  \A k \in DOMAIN latest' :
           \/ k \in DOMAIN latest \ Victims(cur) /\ latest'[k] = latest[k] /\ (IsTrade(cur) \/ k # Key(cur))
           \/ ~IsTrade(cur) /\ k = Key(cur) /\ latest'[k] = cur
<1> DEFINE rest == Without(latest, Victims(cur))
<1>1. DOMAIN rest = DOMAIN latest \ Victims(cur) /\ \A k \in DOMAIN rest : rest[k] = latest[k]
  BY WithoutIs
<1>4. latest' = IF IsTrade(cur) THEN rest ELSE With(rest, Key(cur), cur)
  OBVIOUS
<1> HIDE DEF rest
<1>2. CASE IsTrade(cur)
  <2>1. latest' = rest
    BY <1>2, <1>4
  <2> QED  BY <1>1, <1>2, <2>1
<1>3. CASE ~IsTrade(cur)
  <2>1. latest' = With(rest, Key(cur), cur)
    BY <1>3, <1>4
  <2> DEFINE new == With(rest, Key(cur), cur)
  <2>3. /\ DOMAIN new = DOMAIN rest \cup {Key(cur)} /\ new[Key(cur)] = cur
        /\ \A k \in DOMAIN rest \ {Key(cur)} : new[k] = rest[k]
    BY DEF With
  <2> HIDE DEF new
  <2>2. /\ DOMAIN latest' = DOMAIN rest \cup {Key(cur)} /\ latest'[Key(cur)] = cur
        /\ \A k \in DOMAIN rest \ {Key(cur)} : latest'[k] = rest[k]
    BY <2>1, <2>3 DEF new
  <2> QED  BY <2>2, <1>1, <1>3
<1> QED  BY <1>2, <1>3

LEMMA ConflateNewest ==
  ASSUME Control, Stores, Newest, rxOpen, Conflate
  PROVE  \A k \in DOMAIN latest' : latest'[k] \in Done' \/ latest'[k] \in Buffered'
<1>1. /\ pc = "process" /\ BufferMessage(cur)
      /\ UNCHANGED <<chan, received>>
      /\ latest' = IF IsTrade(cur) THEN Without(latest, Victims(cur))
                   ELSE With(Without(latest, Victims(cur)), Key(cur), cur)
  BY DEF Conflate, channels, application
<1>2. Done' = Done
  BY <1>1, ItemsSame DEF Done
<1>3. cur \in Message
  BY SendableType, NoMessageType DEF Control
<1>4. \A k \in DOMAIN latest' :
        \/ k \in DOMAIN latest \ Victims(cur) /\ latest'[k] = latest[k] /\ (IsTrade(cur) \/ k # Key(cur))
        \/ ~IsTrade(cur) /\ k = Key(cur) /\ latest'[k] = cur
  BY <1>1, LatestConflated
<1>5. ASSUME NEW k \in DOMAIN latest, latest[k] \in Buffered
      PROVE  k \in DOMAIN buffer.pending /\ buffer.pending[k] = latest[k]
  <2>1. PICK x \in DOMAIN buffer.pending : latest[k] = buffer.pending[x]
    BY <1>5 DEF Buffered, Range
  <2>2. x = k
    BY <2>1 DEF Newest, Stores, Good, Consistent
  <2> QED  BY <2>1, <2>2
<1>6. CASE IsTrade(cur) /\ state = "Red"
  <2>1. Buffered' = Buffered
    BY <1>1, <1>6 DEF BufferMessage, Buffered
  <2>2. \A k \in DOMAIN latest' : k \in DOMAIN latest /\ latest'[k] = latest[k]
    BY <1>4, <1>6
  <2> QED  BY <2>1, <2>2, <1>2 DEF Newest
<1>7. CASE ~(IsTrade(cur) /\ state = "Red")
  <2>1. /\ DOMAIN buffer'.pending = (DOMAIN buffer.pending \ Victims(cur)) \cup {Key(cur)}
        /\ buffer'.pending[Key(cur)] = cur
        /\ \A k \in DOMAIN buffer'.pending \ {Key(cur)} : buffer'.pending[k] = buffer.pending[k]
    BY <1>7, InsertCur
  <2>2. \A k \in DOMAIN buffer'.pending : buffer'.pending[k] \in Buffered'
    BY DEF Buffered, Range
  <2>3. ASSUME NEW k \in DOMAIN latest \ Victims(cur), latest'[k] = latest[k], IsTrade(cur) \/ k # Key(cur)
        PROVE  latest'[k] \in Done' \/ latest'[k] \in Buffered'
    <3>1. k # Key(cur)
      BY <2>3, <1>3, TradeKey DEF Newest
    <3>2. CASE latest[k] \in Done
      BY <3>2, <2>3, <1>2
    <3>3. CASE latest[k] \in Buffered
      <4>1. k \in DOMAIN buffer.pending /\ buffer.pending[k] = latest[k]
        BY <3>3, <1>5
      <4> QED  BY <4>1, <3>1, <2>1, <2>2, <2>3
    <3> QED  BY <3>2, <3>3 DEF Newest
  <2>4. cur \in Buffered'
    BY <2>1, <2>2
  <2> QED  BY <2>3, <2>4, <1>4
<1> QED  BY <1>6, <1>7

\* What the steps do to latest itself.
LEMMA LatestKept ==
  ASSUME Control, Newest, [Next]_vars
  PROVE  \A k \in DOMAIN latest' :
           latest'[k] \in Message /\ Key(latest'[k]) = k /\ ~IsTrade(latest'[k])
<1> USE DEF Newest, conflation, engine, channels, network, application, history
<1>1. cur \in Message
  BY SendableType, NoMessageType DEF Control
<1>2. ASSUME latest' = latest PROVE \A k \in DOMAIN latest' :
           latest'[k] \in Message /\ Key(latest'[k]) = k /\ ~IsTrade(latest'[k])
  BY <1>2
<1>3. CASE Quiet \/ Takes \/ Drains \/ Pops
  BY <1>2, <1>3 DEF Quiet, Takes, Drains, Pops
<1>4. CASE ConnectOk
  <2>1. DOMAIN latest' = {}
    BY <1>4 DEF ConnectOk
  <2> QED  BY <2>1
<1>5. CASE SendAtOnce
  <2>1. latest' = IF IsPriority(cur) \/ IsTrade(cur) THEN latest ELSE With(latest, Key(cur), cur)
    BY <1>5 DEF SendAtOnce
  <2> QED  BY <2>1, <1>1 DEF With
<1>6. CASE Conflate
  <2>1. \A k \in DOMAIN latest' :
          \/ k \in DOMAIN latest \ Victims(cur) /\ latest'[k] = latest[k] /\ (IsTrade(cur) \/ k # Key(cur))
          \/ ~IsTrade(cur) /\ k = Key(cur) /\ latest'[k] = cur
    BY <1>6, LatestConflated DEF Conflate
  <2> QED  BY <2>1, <1>1
<1>7. CASE SendAggregate \/ Stop \/ Receive \/ DropReceiver \/ ServerSends
  BY <1>2, <1>7 DEF SendAggregate, Stop, Receive, DropReceiver, ServerSends
<1> HIDE DEF Newest, conflation, engine, channels, network, application, history
<1> QED  BY <1>3, <1>4, <1>5, <1>6, <1>7, StepKinds

\* The room a Green state promises stays until the message is sent.
LEMMA RoomKept ==
  ASSUME Control, Stores, Newest, [Next]_vars, pc' = "process", state' = "Green"
  PROVE  HasRoom'
<1> USE DEF conflation, engine, channels, network, application, history
<1>1. Len(chan) \in Nat /\ ChannelCapacity \in Nat \ {0}
  BY CapacityAssumption, LenProperties DEF Stores
<1>2. CASE Quiet \/ ServerSends
  BY <1>2 DEF Quiet, ServerSends, Newest, HasRoom
<1>3. CASE Takes
  <2>1. FromCapacity(Len(chan), ChannelCapacity) = "Green" /\ chan' = chan
    BY <1>3 DEF Takes
  <2> QED  BY <2>1, GreenRoom DEF HasRoom
<1>4. CASE Drains \/ Pops \/ ConnectOk \/ SendAtOnce \/ Conflate \/ SendAggregate \/ Stop
  <2>1. pc' # "process"
    BY <1>4 DEF Drains, Pops, ConnectOk, SendAtOnce, Conflate, SendAggregate, Stop, LeaveLoop
  <2> QED  BY <2>1
<1>5. CASE Receive
  <2>1. HasRoom /\ Len(chan') = Len(chan) - 1
    BY <1>5, HeadTailProperties DEF Receive, Newest, Stores
  <2> QED  BY <2>1, <1>1 DEF HasRoom
<1>6. CASE DropReceiver
  <2>1. Len(chan') = 0
    BY <1>6 DEF DropReceiver
  <2> QED  BY <2>1, <1>1 DEF HasRoom
<1> HIDE DEF conflation, engine, channels, network, application, history
<1> QED  BY <1>2, <1>3, <1>4, <1>5, <1>6, StepKinds

Reaches ==
  rxOpen => \A k \in DOMAIN latest :
    latest[k] \in Done \/ (pc # "stopped" /\ latest[k] \in Buffered)

LEMMA ReachesKept ==
  ASSUME Control, Stores, Newest, [Next]_vars
  PROVE  Reaches'
<1> USE DEF Reaches, conflation, engine, channels, network, application, history
<1>0. ASSUME rxOpen' => rxOpen, latest' = latest, pc' = "stopped" => pc = "stopped",
             Buffered' = Buffered, Done \subseteq Done'
      PROVE  Reaches'
  BY <1>0 DEF Newest
<1>1. Offered' = Offered => Done' = Done
  BY DEF Done
<1>2. CASE Quiet \/ Takes \/ Drains \/ ServerSends
  <2>1. /\ UNCHANGED <<buffer, latest, chan, received, rxOpen>>
        /\ pc' = "stopped" => pc = "stopped"
    BY <1>2 DEF Quiet, Takes, Drains, ServerSends
  <2>2. Buffered' = Buffered /\ Done' = Done
    BY <2>1, <1>1, ItemsSame DEF Buffered
  <2> QED  BY <2>1, <2>2, <1>0
<1>3. CASE Pops
  <2> SUFFICES ASSUME rxOpen' PROVE Reaches'
    OBVIOUS
  <2>1. /\ CanPop(buffer) /\ buffer' = AfterPop(buffer) /\ Send(Single(Popped(buffer)))
        /\ pc' # "stopped" /\ rxOpen /\ latest' = latest /\ received' = received
    BY <1>3 DEF Pops
  <2>2. /\ Popped(buffer) \in Buffered /\ Buffered' = Buffered \ {Popped(buffer)}
        /\ Single(Popped(buffer)) \in Item
        /\ Single(Popped(buffer)).msgs = {Popped(buffer)}
    BY <2>1, PopBuffered, PopStores, ItemType
  <2>3. Done' = Done \cup {Popped(buffer)}
    BY <2>1, <2>2, ItemsSent, MoreDone
  <2> QED  BY <2>1, <2>2, <2>3 DEF Newest
<1>4. CASE ConnectOk
  <2>1. DOMAIN latest' = {}
    BY <1>4 DEF ConnectOk
  <2> QED  BY <2>1
<1>5. CASE SendAtOnce
  <2> SUFFICES ASSUME rxOpen' PROVE Reaches'
    OBVIOUS
  <2>1. /\ pc = "process" /\ pc' # "stopped" /\ rxOpen /\ PassesThrough(cur)
        /\ buffer' = buffer /\ received' = received
        /\ latest' = IF IsPriority(cur) \/ IsTrade(cur) THEN latest ELSE With(latest, Key(cur), cur)
        /\ \/ Send(Single(cur))
           \/ ~HasRoom /\ UNCHANGED chan
    BY <1>5 DEF SendAtOnce, LeaveLoop
  <2>2. Buffered' = Buffered
    BY <2>1 DEF Buffered
  <2>3. CASE Send(Single(cur))
    <3>1. Single(cur) \in Item /\ Single(cur).msgs = {cur}
      BY SendableType, NoMessageType, ItemType DEF Control
    <3>2. Done' = Done \cup {cur}
      BY <2>1, <2>3, <3>1, ItemsSent, MoreDone
    <3>3. \A k \in DOMAIN latest' : latest'[k] = cur \/ (k \in DOMAIN latest /\ latest'[k] = latest[k])
      BY <2>1 DEF With
    <3> QED  BY <2>1, <2>2, <3>2, <3>3 DEF Newest
  <2>4. CASE ~HasRoom /\ UNCHANGED chan
    <3>1. IsPriority(cur)
      BY <2>1, <2>4 DEF Newest, PassesThrough
    <3>2. Done' = Done
      BY <2>1, <2>4, <1>1, ItemsSame
    <3> QED  BY <2>1, <2>2, <3>1, <3>2 DEF Newest
  <2> QED  BY <2>1, <2>3, <2>4
<1>6. CASE Conflate
  <2>1. rxOpen' = rxOpen /\ pc' # "stopped"
    BY <1>6 DEF Conflate
  <2> QED  BY <1>6, <2>1, ConflateNewest
<1>7. CASE SendAggregate
  <2>1. UNCHANGED <<buffer, latest, received, rxOpen, pc>>
    BY <1>7 DEF SendAggregate
  <2>2. Buffered' = Buffered
    BY <2>1 DEF Buffered
  <2>3. Done \subseteq Done'
    <3>1. CASE UNCHANGED chan
      BY <2>1, <3>1, <1>1, ItemsSame
    <3>2. CASE \E a \in draining : Send(a)
      <4>1. PICK a \in draining : Send(a)
        BY <3>2
      <4>2. Done' = Done \cup a.msgs
        BY <4>1, <2>1, ItemsSent, MoreDone DEF Stores
      <4> QED  BY <4>2
    <3> QED  BY <1>7, <3>1, <3>2 DEF SendAggregate
  <2> QED  BY <2>1, <2>2, <2>3, <1>0
<1>8. CASE Stop
  <2>1. /\ ~CanPop(buffer) /\ pc = "forceDrain"
        /\ UNCHANGED <<buffer, latest, chan, received, rxOpen>>
    BY <1>8 DEF Stop
  <2>2. Buffered = {}
    <3>1. LivePositions(buffer) = {} /\ DOMAIN buffer.pending = {buffer.order[i] : i \in 1 .. Len(buffer.order)}
      BY <2>1 DEF CanPop, Stores, Good, Consistent
    <3>2. DOMAIN buffer.pending = {}
      BY <3>1 DEF LivePositions
    <3> QED  BY <3>2 DEF Buffered, Range
  <2>3. Done' = Done
    BY <2>1, <1>1, ItemsSame
  <2> QED  BY <2>1, <2>2, <2>3 DEF Newest
<1>9. CASE Receive
  <2>1. UNCHANGED <<buffer, latest, rxOpen, pc>>
    BY <1>9 DEF Receive
  <2>2. Buffered' = Buffered /\ Done' = Done
    BY <2>1, <1>1, <1>9, ItemsReceived DEF Buffered
  <2> QED  BY <2>1, <2>2, <1>0
<1>10. CASE DropReceiver
  BY <1>10 DEF DropReceiver
<1> HIDE DEF Reaches, conflation, engine, channels, network, application, history
<1> QED
  BY <1>2, <1>3, <1>4, <1>5, <1>6, <1>7, <1>8, <1>9, <1>10, StepKinds

LEMMA NewestStays ==
  ASSUME Control, Stores, Newest, [Next]_vars
  PROVE  Newest'
BY ReachesKept, RoomKept, LatestKept DEF Newest, Reaches

LEMMA AlwaysNewest == Spec => []Newest
<1>1. Init => Newest
  BY NewestInit
<1>2. Sound /\ Newest /\ [Next]_vars => Newest'
  BY NewestStays DEF Sound
<1> QED  BY <1>1, <1>2, AlwaysSound, PTL DEF Spec

\* Conflation keeps the newest: while the application listens, the last message
\* of each key that the engine read on this connection waits in the buffer or has
\* been offered, unless an overflow took it; once the engine has stopped it has
\* been offered.
THEOREM NewestReaches == Spec => []NewestKept
BY AlwaysNewest, NewestType, PTL

-----------------------------------------------------------------------------
\* The ways to lose a message.

LEMMA KeptIs ==
  /\ Kept = Stored \cup ({cur} \ {NoMessage}) \cup Done
  /\ Kept' = Stored' \cup ({cur'} \ {NoMessage}) \cup Done'
<1>1. UNION Range(Offered) = Done /\ UNION Range(Offered') = Done'
  BY DEF Range, Done
<1> QED  BY <1>1 DEF Kept, Held, Stored

\* Conflating costs what it replaces, what overflows, and a trade message in
\* which no trade is found.
LEMMA ConflateLoses ==
  ASSUME Control, Stores, Conflate, NEW m \in Kept \ Kept'
  PROVE  \/ m \in Buffered /\ Key(m) \in Victims(cur)
         \/ m \in Buffered /\ Key(m) = Key(cur) /\ (IsTrade(m) => state = "Yellow")
         \/ m = cur /\ IsTrade(m) /\ TradesOf(m) = <<>>
<1>1. /\ BufferMessage(cur) /\ UNCHANGED <<draining, received, chan>> /\ cur' = NoMessage
  BY DEF Conflate, channels, application
<1>2. Draining' = Draining /\ Done' = Done
  BY <1>1, ItemsSame DEF Draining, Done
<1>3. m \in Buffered \cup Aggregated \cup {cur} /\ m \notin Buffered' \cup Aggregated'
  BY <1>2, KeptIs DEF Stored
<1>4. CASE IsTrade(cur) /\ state = "Red"
  <2>1. buffer' = buffer /\ AggregateTrade(cur)
    BY <1>1, <1>4 DEF BufferMessage
  <2>2. Buffered' = Buffered
    BY <2>1 DEF Buffered
  <2>3. CASE TradesOf(cur) = <<>>
    <3>1. aggregates' = aggregates
      BY <2>1, <2>3 DEF AggregateTrade
    <3>2. Aggregated' = Aggregated
      BY <3>1 DEF Aggregated
    <3> QED  BY <1>3, <1>4, <2>2, <2>3, <3>2
  <2>4. CASE TradesOf(cur) # <<>>
    <3> DEFINE s == cur.sym
    <3>1. PICK new : /\ aggregates' = With(aggregates, s, new) /\ cur \in new.msgs
                     /\ s \in DOMAIN aggregates => aggregates[s].msgs \subseteq new.msgs
      <4>1. CASE s \in DOMAIN aggregates
        <5> DEFINE n == [data |-> MergeTrades(aggregates[s].data, TradesOf(cur)),
                         msgs |-> aggregates[s].msgs \cup {cur}]
        <5>1. aggregates' = With(aggregates, s, n) /\ cur \in n.msgs /\ aggregates[s].msgs \subseteq n.msgs
          BY <4>1, <2>1, <2>4 DEF AggregateTrade
        <5> QED  BY <5>1
      <4>2. CASE s \notin DOMAIN aggregates
        <5> DEFINE n == [data |-> CreateAggregate(TradesOf(cur)), msgs |-> {cur}]
        <5>1. aggregates' = With(aggregates, s, n) /\ cur \in n.msgs
          BY <4>2, <2>1, <2>4 DEF AggregateTrade
        <5> QED  BY <4>2, <5>1
      <4> QED  BY <4>1, <4>2
    <3>2. /\ DOMAIN aggregates' = DOMAIN aggregates \cup {s} /\ aggregates'[s] = new
          /\ \A x \in DOMAIN aggregates \ {s} : aggregates'[x] = aggregates[x]
      BY <3>1 DEF With
    <3>3. \A x \in DOMAIN aggregates : aggregates[x].msgs \subseteq aggregates'[x].msgs
      BY <3>1, <3>2
    <3>4. Aggregated \subseteq Aggregated' /\ cur \in Aggregated'
      BY <3>1, <3>2, <3>3 DEF Aggregated
    <3> QED  BY <1>3, <2>2, <3>4
  <2> QED  BY <2>3, <2>4
<1>5. CASE ~(IsTrade(cur) /\ state = "Red")
  <2>1. Aggregated' = Aggregated
    BY <1>1, <1>5 DEF BufferMessage, Aggregated
  <2>2. /\ DOMAIN buffer'.pending = (DOMAIN buffer.pending \ Victims(cur)) \cup {Key(cur)}
        /\ buffer'.pending[Key(cur)] = cur
        /\ \A k \in DOMAIN buffer'.pending \ {Key(cur)} : buffer'.pending[k] = buffer.pending[k]
    BY <1>5, InsertCur
  <2>3. \A k \in DOMAIN buffer'.pending : buffer'.pending[k] \in Buffered'
    BY DEF Buffered, Range
  <2>4. m \in Buffered
    BY <1>3, <2>1, <2>2, <2>3
  <2>5. PICK k \in DOMAIN buffer.pending : m = buffer.pending[k]
    BY <2>4 DEF Buffered, Range
  <2>6. k = Key(m)
    BY <2>5 DEF Stores, Good, Consistent
  <2>7. k = Key(cur) \/ k \in Victims(cur)
    BY <1>3, <2>2, <2>3, <2>5
  <2>8. ASSUME Key(m) = Key(cur), IsTrade(m) PROVE state = "Yellow"
    <3>1. m \in Message /\ cur \in Message
      <4>1. m \in Message
        BY <2>5 DEF Stores, Good, IsBuffer
      <4>2. cur \in Sendable \cup {NoMessage}
        BY DEF Control
      <4> QED  BY <4>1, <4>2, SendableType, NoMessageType
    <3>2. IsTrade(cur)
      BY <3>1, <2>8, TradeKey
    <3>3. state # "Green" /\ state \in {"Green", "Yellow", "Red"}
      BY DEF Conflate, PassesThrough, Control, PressureStates
    <3> QED  BY <1>5, <3>2, <3>3
  <2> QED  BY <2>4, <2>6, <2>7, <2>8
<1> QED  BY <1>4, <1>5

\* Only reading takes a message from the head of the socket and keeps the link.
LEMMA TakenRead ==
  ASSUME Control, [Next]_vars, NEW m \in Taken
  PROVE  ReadMessage /\ m = Head(ws)
<1>1. pc = "select" /\ ws # <<>> /\ ws' = Tail(ws) /\ link' = link /\ m = Head(ws)
  BY DEF Taken
<1>2. ws' # ws /\ link' # "none"
  <2>1. Len(ws') = Len(ws) - 1 /\ Len(ws) \in Nat
    BY <1>1, SocketRead
  <2>2. Len(ws') # Len(ws)
    BY <2>1
  <2>3. link # "none"
    BY <1>1 DEF Control
  <2> QED  BY <1>1, <2>2, <2>3
<1>3. ASSUME NEW n PROVE ws' # Append(ws, n)
  <2>1. Len(Append(ws, n)) = Len(ws) + 1
    BY DEF Control
  <2>2. Len(ws') = Len(ws) - 1 /\ Len(ws) \in Nat
    BY <1>1, SocketRead
  <2> QED  BY <2>1, <2>2
<1> USE DEF conflation, engine, channels, network, application, history
<1>4. CASE Engine
  <2>1. ~(ConnectOk \/ ConnectFails \/ Resubscribe \/ Resubscribed \/ Wake)
    BY <1>1 DEF ConnectOk, ConnectFails, Resubscribe, Resubscribed, Wake
  <2>2. ~(ConnectionEnds \/ TakeCommand \/ CommandsClosed \/ Tick)
    BY <1>1, <1>2 DEF ConnectionEnds, TakeCommand, CommandsClosed, Tick, LeaveLoop, ReadReady
  <2>3. ~(SendAtOnce \/ Conflate \/ Gate \/ SendAggregate \/ AggregatesSent)
    BY <1>1 DEF SendAtOnce, Conflate, Gate, SendAggregate, AggregatesSent
  <2>4. ~(FlushOne \/ FlushEnds \/ ForceFlushOne \/ Stop)
    BY <1>1 DEF FlushOne, FlushEnds, ForceFlushOne, Stop
  <2> QED  BY <1>1, <1>4, <2>1, <2>2, <2>3, <2>4 DEF Engine
<1>5. CASE Environment
  <2>1. ~(Receive \/ CallSend \/ Enqueue \/ DropClient \/ DropReceiver)
    BY <1>2 DEF Receive, CallSend, Enqueue, DropClient, DropReceiver
  <2>2. ~(ServerSends \/ LinkLost \/ LossNoticed \/ GovernorSwitches \/ Terminated)
    BY <1>1, <1>2, <1>3 DEF ServerSends, LinkLost, LossNoticed, GovernorSwitches, Terminated, vars
  <2> QED  BY <1>5, <2>1, <2>2 DEF Environment
<1>6. ~UNCHANGED vars
  BY <1>2 DEF vars
<1> QED  BY <1>4, <1>5, <1>6 DEF Next

\* What is read is dropped by survival mode or held.
LEMMA TakenLost ==
  ASSUME Control, [Next]_vars, NEW m \in Taken, m \notin Kept'
  PROVE  survival /\ IsDroppable(m)
<1>1. ReadMessage /\ m = Head(ws)
  BY TakenRead
<1>2. ws # <<>> /\ Head(ws) # NoMessage
  <2>1. ws # <<>>
    BY <1>1 DEF ReadMessage
  <2> QED  BY <2>1, SocketRead, SendableType
<1>3. cur' # Head(ws)
  BY <1>1, <1>2, KeptIs
<1> QED  BY <1>1, <1>3 DEF ReadMessage

LEMMA Losses ==
  ASSUME Control, Stores, Newest, [Next]_vars, NEW m \in Kept \ Kept'
  PROVE  \/ ~rxOpen'
         \/ pc = "connecting"
         \/ pc = "process" /\ m \in Buffered /\ Key(m) \in Victims(cur)
         \/ /\ pc = "process" /\ m \in Buffered /\ Key(m) = Key(cur)
            /\ IsTrade(m) => state = "Yellow"
         \/ pc = "process" /\ m = cur /\ IsPriority(m) /\ Len(chan) = ChannelCapacity
         \/ pc = "process" /\ m = cur /\ IsTrade(m) /\ TradesOf(m) = <<>>
         \/ m \in Draining /\ Len(chan) = ChannelCapacity
<1> USE DEF conflation, engine, channels, network, application, history
<1>0. /\ m \in Buffered \cup Aggregated \cup Draining \cup ({cur} \ {NoMessage}) \cup Done
      /\ m \notin Buffered' \cup Aggregated' \cup Draining' \cup ({cur'} \ {NoMessage}) \cup Done'
  BY KeptIs DEF Stored
<1>1. ASSUME ~HasRoom PROVE Len(chan) = ChannelCapacity
  <2>1. Len(chan) \in Nat /\ ChannelCapacity \in Nat /\ Len(chan) <= ChannelCapacity
    BY CapacityAssumption, LenProperties DEF Stores
  <2> QED  BY <1>1, <2>1 DEF HasRoom
<1>2. /\ buffer' = buffer => Buffered' = Buffered
      /\ aggregates' = aggregates => Aggregated' = Aggregated
      /\ draining' = draining => Draining' = Draining
      /\ Offered' = Offered => Done' = Done
  BY DEF Buffered, Aggregated, Draining, Done
<1>3. CASE Quiet \/ Stop \/ ServerSends
  <2>1. UNCHANGED <<buffer, aggregates, draining, cur, chan, received>>
    BY <1>3 DEF Quiet, Stop, ServerSends
  <2> QED  BY <2>1, <1>0, <1>2, ItemsSame
<1>4. CASE Takes
  <2>1. UNCHANGED <<buffer, aggregates, draining, chan, received>> /\ cur = NoMessage
    BY <1>4 DEF Takes, Control
  <2> QED  BY <2>1, <1>0, <1>2, ItemsSame
<1>5. CASE Drains
  <2>1. /\ UNCHANGED <<buffer, cur, chan, received>>
        /\ draining = {} /\ draining' = AllAggregates
    BY <1>5 DEF Drains
  <2>2. Draining = {}
    BY <2>1 DEF Draining
  <2>3. Draining' = Aggregated
    <3>1. Draining' = UNION {item.msgs : item \in AllAggregates}
      BY <2>1 DEF Draining
    <3> QED  BY <3>1, DrainStores DEF Aggregated, AllAggregates
  <2> QED  BY <2>1, <2>2, <2>3, <1>0, <1>2, ItemsSame
<1>6. CASE Pops
  <2> SUFFICES ASSUME rxOpen' PROVE FALSE
    OBVIOUS
  <2>1. /\ CanPop(buffer) /\ buffer' = AfterPop(buffer) /\ Send(Single(Popped(buffer)))
        /\ UNCHANGED <<aggregates, draining, cur, received>>
    BY <1>6 DEF Pops
  <2>2. /\ Popped(buffer) \in Buffered /\ Buffered' = Buffered \ {Popped(buffer)}
        /\ Single(Popped(buffer)) \in Item
        /\ Single(Popped(buffer)).msgs = {Popped(buffer)}
    BY <2>1, PopBuffered, PopStores, ItemType
  <2>3. Done' = Done \cup {Popped(buffer)}
    BY <2>1, <2>2, ItemsSent, MoreDone
  <2> QED  BY <2>1, <2>2, <2>3, <1>0, <1>2
<1>7. CASE ConnectOk
  BY <1>7 DEF ConnectOk
<1>8. CASE SendAtOnce
  <2> SUFFICES ASSUME rxOpen' PROVE pc = "process" /\ m = cur /\ IsPriority(m) /\ Len(chan) = ChannelCapacity
    OBVIOUS
  <2>1. /\ pc = "process" /\ PassesThrough(cur)
        /\ UNCHANGED <<buffer, aggregates, draining, received>>
        /\ \/ Send(Single(cur))
           \/ ~HasRoom /\ UNCHANGED chan
    BY <1>8 DEF SendAtOnce
  <2>2. CASE Send(Single(cur))
    <3>1. Single(cur) \in Item /\ Single(cur).msgs = {cur}
      BY SendableType, NoMessageType, ItemType DEF Control
    <3>2. Done' = Done \cup {cur}
      BY <2>1, <2>2, <3>1, ItemsSent, MoreDone
    <3> QED  BY <2>1, <3>2, <1>0, <1>2
  <2>3. CASE ~HasRoom /\ UNCHANGED chan
    <3>1. IsPriority(cur)
      BY <2>1, <2>3 DEF Newest, PassesThrough
    <3>2. m = cur
      BY <2>1, <2>3, <1>0, <1>2, ItemsSame
    <3> QED  BY <2>1, <2>3, <3>1, <3>2, <1>1
  <2> QED  BY <2>1, <2>2, <2>3
<1>9. CASE Conflate
  <2>1. pc = "process"
    BY <1>9 DEF Conflate
  <2> QED  BY <1>9, <2>1, ConflateLoses
<1>10. CASE SendAggregate
  <2> SUFFICES ASSUME rxOpen' PROVE m \in Draining /\ Len(chan) = ChannelCapacity
    OBVIOUS
  <2>1. UNCHANGED <<buffer, aggregates, cur, received>> /\ rxOpen
    BY <1>10 DEF SendAggregate
  <2>2. CASE ~HasRoom /\ UNCHANGED chan
    <3>1. m \in Draining
      BY <2>1, <2>2, <1>0, <1>2, ItemsSame
    <3> QED  BY <2>2, <3>1, <1>1
  <2>3. CASE \E a \in draining : Send(a) /\ draining' = draining \ {a}
    <3>1. PICK a \in draining : Send(a) /\ draining' = draining \ {a}
      BY <2>3
    <3>2. Done' = Done \cup a.msgs
      BY <3>1, <2>1, ItemsSent, MoreDone DEF Stores
    <3>3. Draining \subseteq Draining' \cup a.msgs
      BY <3>1 DEF Draining
    <3> QED  BY <2>1, <3>2, <3>3, <1>0, <1>2
  <2> QED  BY <2>1, <2>2, <2>3, <1>10 DEF SendAggregate
<1>11. CASE Receive
  <2>1. UNCHANGED <<buffer, aggregates, draining, cur>>
    BY <1>11 DEF Receive
  <2> QED  BY <2>1, <1>0, <1>2, <1>11, ItemsReceived
<1>12. CASE DropReceiver
  BY <1>12 DEF DropReceiver
<1> HIDE DEF conflation, engine, channels, network, application, history
<1> QED
  BY <1>3, <1>4, <1>5, <1>6, <1>7, <1>8, <1>9, <1>10, <1>11, <1>12, StepKinds

\* The list of the ways in which a message that was read can be lost is complete.
THEOREM OnlyTheseLosses == Spec => LossContract
<1>1. Sound /\ Newest /\ [Next]_vars =>
        [\A m \in (Kept \cup Taken) \ Kept' :
           \/ ~rxOpen'
           \/ m \in Taken /\ survival /\ IsDroppable(m)
           \/ pc = "connecting"
           \/ pc = "process" /\ m \in Buffered /\ Key(m) \in Victims(cur)
           \/ /\ pc = "process" /\ m \in Buffered /\ Key(m) = Key(cur)
              /\ IsTrade(m) => state = "Yellow"
           \/ pc = "process" /\ m = cur /\ IsPriority(m) /\ Len(chan) = ChannelCapacity
           \/ pc = "process" /\ m = cur /\ IsTrade(m) /\ TradesOf(m) = <<>>
           \/ m \in Draining /\ Len(chan) = ChannelCapacity]_vars
  BY Losses, TakenLost DEF Sound
<1> QED  BY <1>1, AlwaysSound, AlwaysNewest, PTL DEF Spec, LossContract

-----------------------------------------------------------------------------
\* Volume.

Quantities(ts) == [i \in 1 .. Len(ts) |-> ts[i].qty]

\* The sum of the quantities of the first n trades.
UpTo(ts, n) == Total(Quantities(ts), 1 .. n)

LEMMA TotalUpTo ==
  ASSUME NEW g, NEW n \in Nat, \A i \in 1 .. n : g[i] \in Nat
  PROVE  /\ Total(g, 1 .. n) \in Nat
         /\ n # 0 => Total(g, 1 .. n) = Total(g, 1 .. n - 1) + g[n]
<1>0. PICK S : S = 1 .. n
  OBVIOUS
<1>1. IsFiniteSet(S) /\ \A i \in S : g[i] \in Nat
  BY <1>0, FS_Interval
<1>2. Total(g, S) \in Nat /\ \A i \in S : Total(g, S) = g[i] + Total(g, S \ {i})
  BY <1>1, TotalAdds
<1>3. ASSUME n # 0 PROVE Total(g, 1 .. n) = Total(g, 1 .. n - 1) + g[n]
  <2>1. n \in S /\ S \ {n} = 1 .. n - 1
    BY <1>0, <1>3
  <2>2. IsFiniteSet(S \ {n}) /\ \A i \in S \ {n} : g[i] \in Nat
    BY <1>1, FS_Subset
  <2>3. Total(g, S \ {n}) \in Nat
    BY <2>2, TotalAdds
  <2>4. Total(g, S) = g[n] + Total(g, S \ {n}) /\ g[n] \in Nat
    BY <1>1, <1>2, <2>1
  <2>5. Total(g, S) = Total(g, S \ {n}) + g[n]
    BY <2>3, <2>4
  <2> QED  BY <1>0, <2>1, <2>5
<1> QED  BY <1>0, <1>2, <1>3

LEMMA UpToAdds ==
  ASSUME NEW ts \in Seq(Trade)
  PROVE  /\ UpTo(ts, 0) = 0
         /\ \A n \in 0 .. Len(ts) : UpTo(ts, n) \in Nat
         /\ \A n \in 1 .. Len(ts) : UpTo(ts, n) = UpTo(ts, n - 1) + ts[n].qty
<1>1. Len(ts) \in Nat /\ \A i \in 1 .. Len(ts) : ts[i] \in Trade
  BY LenProperties, ElementOfSeq
<1>2. PICK g : g = Quantities(ts)
  OBVIOUS
<1>3. \A i \in 1 .. Len(ts) : g[i] = ts[i].qty /\ ts[i].qty \in Nat
  BY <1>1, <1>2 DEF Quantities, Trade
<1>4. \A n : UpTo(ts, n) = Total(g, 1 .. n)
  BY <1>2 DEF UpTo
<1>5. ASSUME NEW n \in 0 .. Len(ts)
      PROVE  /\ UpTo(ts, n) \in Nat
             /\ n # 0 => UpTo(ts, n) = UpTo(ts, n - 1) + ts[n].qty
  <2>1. n \in Nat /\ \A i \in 1 .. n : g[i] \in Nat
    BY <1>1, <1>3
  <2>2. /\ Total(g, 1 .. n) \in Nat
        /\ n # 0 => Total(g, 1 .. n) = Total(g, 1 .. n - 1) + g[n]
    BY <2>1, TotalUpTo
  <2>3. n # 0 => g[n] = ts[n].qty
    BY <1>1, <1>3
  <2> QED  BY <1>4, <2>2, <2>3
<1>6. UpTo(ts, 0) = 0
  <2>1. 1 .. 0 = {}
    OBVIOUS
  <2>2. Total(g, {}) = 0
    BY FS_EmptySet, TotalAdds
  <2> QED  BY <1>4, <2>1, <2>2
<1> QED  BY <1>1, <1>5, <1>6

LEMMA SumQtyIs ==
  ASSUME NEW ts \in Seq(Trade)
  PROVE  SumQty(ts) = UpTo(ts, Len(ts)) /\ SumQty(ts) \in Nat
<1> DEFINE PartSums(f, n) == IF n = 0 THEN 0 ELSE f[n - 1] + ts[n].qty
           f == [n \in 0 .. Len(ts) |-> UpTo(ts, n)]
           F == CHOOSE h : h = [n \in 0 .. Len(ts) |-> PartSums(h, n)]
<1>1. Len(ts) \in Nat
  BY LenProperties
<1>2. f = [n \in 0 .. Len(ts) |-> PartSums(f, n)]
  <2>1. \A n \in 0 .. Len(ts) : f[n] = UpTo(ts, n)
    OBVIOUS
  <2> HIDE DEF f
  <2>2. \A n \in 0 .. Len(ts) : UpTo(ts, n) = PartSums(f, n)
    BY <1>1, <2>1, UpToAdds
  <2> HIDE DEF PartSums
  <2> QED  BY <2>2 DEF f
<1>3. F = [n \in 0 .. Len(ts) |-> PartSums(F, n)]
  <2> HIDE DEF f
  <2> QED  BY <1>2
<1>4. SumQty(ts) = F[Len(ts)]
  BY DEF SumQty
<1> HIDE DEF F
<1>5. \A n \in 0 .. Len(ts) : F[n] = PartSums(F, n)
  BY <1>3
<1> DEFINE K == {n \in Nat : n <= Len(ts) => F[n] = UpTo(ts, n)}
<1>6. 0 \in K
  BY <1>1, <1>5, UpToAdds
<1>7. ASSUME NEW n \in Nat, n \in K PROVE n + 1 \in K
  <2> SUFFICES ASSUME n + 1 <= Len(ts) PROVE F[n + 1] = UpTo(ts, n + 1)
    OBVIOUS
  <2>1. n + 1 \in 1 .. Len(ts) /\ n + 1 # 0 /\ (n + 1) - 1 = n
    BY <1>1
  <2>2. F[n + 1] = F[n] + ts[n + 1].qty
    BY <1>5, <2>1
  <2>3. UpTo(ts, n + 1) = UpTo(ts, n) + ts[n + 1].qty
    BY <2>1, UpToAdds
  <2>4. F[n] = UpTo(ts, n)
    BY <1>1, <1>7
  <2> QED  BY <2>2, <2>3, <2>4
<1>8. Len(ts) \in K
  <2> HIDE DEF K
  <2> QED  BY <1>1, <1>6, <1>7, Induct
<1>9. F[Len(ts)] = UpTo(ts, Len(ts))
  BY <1>1, <1>8
<1> HIDE DEF K
<1> QED  BY <1>1, <1>4, <1>9, UpToAdds

\* One more trade adds its quantity.
LEMMA SumQtyAppend ==
  ASSUME NEW ts \in Seq(Trade), NEW t \in Trade
  PROVE  SumQty(Append(ts, t)) = SumQty(ts) + t.qty
<1> DEFINE us == Append(ts, t)
<1>1. /\ us \in Seq(Trade) /\ Len(us) = Len(ts) + 1 /\ Len(ts) \in Nat
      /\ us[Len(ts) + 1] = t /\ \A i \in 1 .. Len(ts) : us[i] = ts[i]
  BY AppendProperties, LenProperties
<1> HIDE DEF us
<1> DEFINE K == {n \in Nat : n <= Len(ts) => UpTo(us, n) = UpTo(ts, n)}
<1>2. 0 \in K
  BY <1>1, UpToAdds
<1>3. ASSUME NEW n \in Nat, n \in K PROVE n + 1 \in K
  <2> SUFFICES ASSUME n + 1 <= Len(ts) PROVE UpTo(us, n + 1) = UpTo(ts, n + 1)
    OBVIOUS
  <2>1. n + 1 \in 1 .. Len(ts) /\ n + 1 \in 1 .. Len(us) /\ (n + 1) - 1 = n
    BY <1>1
  <2>2. UpTo(us, n + 1) = UpTo(us, n) + us[n + 1].qty
    BY <1>1, <2>1, UpToAdds
  <2>3. UpTo(ts, n + 1) = UpTo(ts, n) + ts[n + 1].qty
    BY <2>1, UpToAdds
  <2>4. UpTo(us, n) = UpTo(ts, n)
    BY <1>1, <1>3
  <2> QED  BY <2>1, <2>2, <2>3, <2>4, <1>1
<1>4. Len(ts) \in K
  <2> HIDE DEF K
  <2> QED  BY <1>1, <1>2, <1>3, Induct
<1>5. UpTo(us, Len(ts)) = UpTo(ts, Len(ts))
  BY <1>1, <1>4
<1>6. UpTo(us, Len(us)) = UpTo(us, Len(ts)) + t.qty
  <2>1. Len(us) \in 1 .. Len(us) /\ Len(us) - 1 = Len(ts)
    BY <1>1
  <2> QED  BY <1>1, <2>1, UpToAdds
<1>7. SumQty(us) = UpTo(us, Len(us)) /\ SumQty(ts) = UpTo(ts, Len(ts))
  BY <1>1, SumQtyIs
<1> QED  BY <1>5, <1>6, <1>7 DEF us

\* The messages in which trades are found, and what the property counts of them.
Traded == {m \in Sendable : IsTrade(m)}

Qtys == [m \in Traded |-> QtyOf(m)]
Counts == [m \in Traded |-> CountOf(m)]

\* A message's volume is that of its trades one after the other.
LEMMA QtyIs ==
  ASSUME NEW m \in Traded
  PROVE  /\ TradesOf(m) \in Seq(Trade)
         /\ QtyOf(m) = SumQty(TradesOf(m))
         /\ QtyOf(m) \in Nat /\ Len(TradesOf(m)) \in Nat
<1>1. PICK ts \in Seq(Trade) : ts = TradesOf(m)
  BY SendableType DEF Traded
<1>2. Len(ts) \in Nat /\ DOMAIN ts = 1 .. Len(ts) /\ \A i \in 1 .. Len(ts) : ts[i] \in Trade
  BY LenProperties, ElementOfSeq
<1>3. PICK S : S = 1 .. Len(ts)
  OBVIOUS
<1>4. PICK g : g = Quantities(ts)
  OBVIOUS
<1>5. IsFiniteSet(S) /\ \A i \in S : g[i] \in Nat /\ g[i] = ts[i].qty
  <2>1. IsFiniteSet(1 .. Len(ts))
    BY <1>2, FS_Interval
  <2>2. \A i \in S : ts[i].qty \in Nat
    BY <1>2, <1>3 DEF Trade
  <2>3. \A i \in S : g[i] = ts[i].qty
    BY <1>3, <1>4 DEF Quantities
  <2> QED  BY <1>3, <2>1, <2>2, <2>3
<1> DEFINE B(f, s) == IF s = {} THEN 0 ELSE ts[Some(s)].qty + f[s \ {Some(s)}]
           F == CHOOSE f : f = [s \in SUBSET S |-> B(f, s)]
<1>6. QtyOf(m) = F[S]
  BY <1>1, <1>2, <1>3 DEF QtyOf, MapThenSumSet, MapThenFoldSet, Some
<1>7. \A f : \A s \in SUBSET S : B(f, s) = PartSum(f, g, s)
  <2>1. \A s \in SUBSET S : s # {} => Some(s) \in S
    BY DEF Some
  <2> QED  BY <2>1, <1>5 DEF PartSum
<1>8. \E f : f = [s \in SUBSET S |-> B(f, s)]
  <2>1. PICK f : Sums(f, g, S)
    BY <1>5, SumsExist
  <2>2. f = [s \in SUBSET S |-> B(f, s)]
    <3> HIDE DEF B
    <3> QED  BY <1>7, <2>1 DEF Sums
  <2> QED  BY <2>2
<1>9. F = [s \in SUBSET S |-> B(F, s)]
  BY <1>8
<1> HIDE DEF F, B
<1>10. Sums(F, g, S)
  BY <1>7, <1>9 DEF Sums
<1>11. F[S] = Total(g, S)
  BY <1>5, <1>10, TotalIs
<1>12. QtyOf(m) = UpTo(ts, Len(ts))
  BY <1>3, <1>4, <1>6, <1>11 DEF UpTo
<1> QED  BY <1>1, <1>2, <1>12, SumQtyIs

\* The sums of the property, over any finite set of such messages.
LEMMA SumsAre ==
  ASSUME NEW ms, ms \subseteq Traded, IsFiniteSet(ms)
  PROVE  /\ VolumeIn(ms) = Total(Qtys, ms)
         /\ CountIn(ms) = Total(Counts, ms)
<1>1. /\ \A m \in ms : Qtys[m] = QtyOf(m) /\ Qtys[m] \in Nat
      /\ \A m \in ms : Counts[m] = CountOf(m) /\ Counts[m] \in Nat
  BY QtyIs DEF Qtys, Counts, CountOf
<1>2. \A s \in SUBSET ms : s # {} => Some(s) \in ms
  BY DEF Some
<1>3. VolumeIn(ms) = Total(Qtys, ms)
  <2> DEFINE B(f, s) == IF s = {} THEN 0 ELSE QtyOf(Some(s)) + f[s \ {Some(s)}]
             F == CHOOSE f : f = [s \in SUBSET ms |-> B(f, s)]
  <2>1. VolumeIn(ms) = F[ms]
    BY DEF VolumeIn, MapThenSumSet, MapThenFoldSet, Some
  <2>2. \A f : \A s \in SUBSET ms : B(f, s) = PartSum(f, Qtys, s)
    BY <1>1, <1>2 DEF PartSum
  <2>3. \E f : f = [s \in SUBSET ms |-> B(f, s)]
    <3>1. PICK f : Sums(f, Qtys, ms)
      BY <1>1, SumsExist
    <3>2. f = [s \in SUBSET ms |-> B(f, s)]
      <4> HIDE DEF B
      <4> QED  BY <2>2, <3>1 DEF Sums
    <3> QED  BY <3>2
  <2>4. F = [s \in SUBSET ms |-> B(F, s)]
    BY <2>3
  <2> HIDE DEF F, B
  <2>5. Sums(F, Qtys, ms)
    BY <2>2, <2>4 DEF Sums
  <2> QED  BY <1>1, <2>1, <2>5, TotalIs
<1>4. CountIn(ms) = Total(Counts, ms)
  <2> DEFINE B(f, s) == IF s = {} THEN 0 ELSE CountOf(Some(s)) + f[s \ {Some(s)}]
             F == CHOOSE f : f = [s \in SUBSET ms |-> B(f, s)]
  <2>1. CountIn(ms) = F[ms]
    BY DEF CountIn, MapThenSumSet, MapThenFoldSet, Some
  <2>2. \A f : \A s \in SUBSET ms : B(f, s) = PartSum(f, Counts, s)
    BY <1>1, <1>2 DEF PartSum
  <2>3. \E f : f = [s \in SUBSET ms |-> B(f, s)]
    <3>1. PICK f : Sums(f, Counts, ms)
      BY <1>1, SumsExist
    <3>2. f = [s \in SUBSET ms |-> B(f, s)]
      <4> HIDE DEF B
      <4> QED  BY <2>2, <3>1 DEF Sums
    <3> QED  BY <3>2
  <2>4. F = [s \in SUBSET ms |-> B(F, s)]
    BY <2>3
  <2> HIDE DEF F, B
  <2>5. Sums(F, Counts, ms)
    BY <2>2, <2>4 DEF Sums
  <2> QED  BY <1>1, <2>1, <2>5, TotalIs
<1> QED  BY <1>3, <1>4

\* The trades an aggregate lists are those it counts; and it knows the lowest and
\* the highest of their prices.
Whole(a) == SumQty(a.trades) = a.volume /\ Len(a.trades) = a.count

Spans(a, prices) ==
  /\ a.min \in prices /\ a.max \in prices
  /\ \A p \in prices : p \in Nat /\ a.min <= p /\ p <= a.max

LEMMA FirstTradeWhole ==
  ASSUME NEW t \in Trade
  PROVE  Whole(FirstTrade(t)) /\ Spans(FirstTrade(t), {t.price})
<1>1. <<>> \in Seq(Trade) /\ Len(<<>>) = 0 /\ Append(<<>>, t) = <<t>> /\ Len(<<t>>) = 1
  OBVIOUS
<1>2. SumQty(<<>>) = 0
  BY <1>1, SumQtyIs, UpToAdds
<1>3. t.qty \in Nat /\ t.price \in Nat
  BY DEF Trade
<1>4. SumQty(<<t>>) = t.qty
  <2>1. SumQty(Append(<<>>, t)) = SumQty(<<>>) + t.qty
    BY <1>1, SumQtyAppend
  <2>2. SumQty(<<t>>) = 0 + t.qty
    BY <1>1, <1>2, <2>1
  <2> QED  BY <1>3, <2>2
<1>5. /\ FirstTrade(t).trades = <<t>> /\ FirstTrade(t).volume = t.qty /\ FirstTrade(t).count = 1
      /\ FirstTrade(t).min = t.price /\ FirstTrade(t).max = t.price
  BY DEF FirstTrade
<1> QED  BY <1>1, <1>3, <1>4, <1>5 DEF Whole, Spans

LEMMA MergeTradeWhole ==
  ASSUME NEW a \in Aggregate, Whole(a), NEW prices, Spans(a, prices), NEW t \in Trade
  PROVE  /\ Whole(MergeTrade(a, t)) /\ Spans(MergeTrade(a, t), prices \cup {t.price})
         /\ MergeTrade(a, t).volume = a.volume + t.qty /\ MergeTrade(a, t).count = a.count + 1
<1> DEFINE b == MergeTrade(a, t)
<1>1. /\ b.trades = Append(a.trades, t) /\ b.volume = a.volume + t.qty /\ b.count = a.count + 1
      /\ b.min = Lower(a.min, t.price) /\ b.max = Higher(a.max, t.price)
  BY DEF MergeTrade
<1>2. /\ a.trades \in Seq(Trade) /\ a.min \in Nat /\ a.max \in Nat
      /\ t.price \in Nat /\ t.qty \in Nat
  BY DEF Aggregate, Trade
<1> HIDE DEF b
<1>3. Whole(b)
  <2>1. Len(Append(a.trades, t)) = Len(a.trades) + 1
    BY <1>2, AppendProperties
  <2>2. SumQty(Append(a.trades, t)) = SumQty(a.trades) + t.qty
    BY <1>2, SumQtyAppend
  <2> QED  BY <1>1, <2>1, <2>2 DEF Whole
<1>4. Spans(b, prices \cup {t.price})
  BY <1>1, <1>2 DEF Spans, Lower, Higher
<1> QED  BY <1>1, <1>3, <1>4 DEF b

\* Merging the trades of ts behind its first d ones.
LEMMA MergeTradesWhole ==
  ASSUME NEW a \in Aggregate, Whole(a), NEW prices, Spans(a, prices),
         NEW ts \in Seq(Trade), NEW us \in Seq(Trade), NEW d \in 0 .. Len(ts),
         Len(us) = Len(ts) - d, \A i \in 1 .. Len(us) : us[i] = ts[i + d]
  PROVE  LET b == MergeTrades(a, us) IN
         /\ Whole(b) /\ Spans(b, prices \cup {us[i].price : i \in 1 .. Len(us)})
         /\ b.volume + UpTo(ts, d) = a.volume + UpTo(ts, Len(ts))
         /\ b.count = a.count + Len(us)
<1>1. PICK f \in [0 .. Len(us) -> Aggregate] :
        /\ f[0] = a
        /\ \A i \in 1 .. Len(us) : f[i] = MergeTrade(f[i - 1], us[i])
        /\ MergeTrades(a, us) = f[Len(us)]
  BY MergeTradesSteps
<1>2. /\ Len(us) \in Nat /\ Len(ts) \in Nat /\ d \in Nat
      /\ \A i \in 1 .. Len(us) : us[i] \in Trade /\ us[i].qty \in Nat
      /\ a.volume \in Nat /\ a.count \in Nat
  <2>1. Len(us) \in Nat /\ Len(ts) \in Nat /\ d \in Nat
    BY LenProperties
  <2>2. \A i \in 1 .. Len(us) : us[i] \in Trade
    BY ElementOfSeq
  <2>3. a.volume \in Nat /\ a.count \in Nat
    BY DEF Aggregate
  <2> QED  BY <2>1, <2>2, <2>3 DEF Trade
<1> DEFINE Sofar(n) ==
             /\ Whole(f[n]) /\ Spans(f[n], prices \cup {us[i].price : i \in 1 .. n})
             /\ f[n].volume + UpTo(ts, d) = a.volume + UpTo(ts, n + d)
             /\ f[n].count = a.count + n
           K == {n \in Nat : n <= Len(us) => Sofar(n)}
<1>3. 0 \in K
  <2>1. prices \cup {us[i].price : i \in 1 .. 0} = prices
    OBVIOUS
  <2>2. Whole(f[0]) /\ Spans(f[0], prices \cup {us[i].price : i \in 1 .. 0})
    BY <1>1, <2>1
  <2>3. f[0].volume + UpTo(ts, d) = a.volume + UpTo(ts, 0 + d) /\ f[0].count = a.count + 0
    BY <1>1, <1>2
  <2> QED  BY <2>2, <2>3
<1>4. ASSUME NEW n \in Nat, n \in K PROVE n + 1 \in K
  <2> SUFFICES ASSUME n + 1 <= Len(us) PROVE Sofar(n + 1)
    OBVIOUS
  <2>1. Sofar(n)
    BY <1>2, <1>4
  <2>2. n + 1 \in 1 .. Len(us) /\ (n + 1) - 1 = n /\ n \in 0 .. Len(us)
    BY <1>2
  <2>3. PICK g : g = f[n]
    OBVIOUS
  <2>4. PICK h : h = f[n + 1]
    OBVIOUS
  <2>5. PICK t : t = us[n + 1]
    OBVIOUS
  <2>6. PICK p : p = prices \cup {us[i].price : i \in 1 .. n}
    OBVIOUS
  <2>7. /\ Whole(g) /\ Spans(g, p)
        /\ g.volume + UpTo(ts, d) = a.volume + UpTo(ts, n + d) /\ g.count = a.count + n
    BY <2>1, <2>3, <2>6
  <2>8. g \in Aggregate /\ t \in Trade /\ t.qty \in Nat /\ h = MergeTrade(g, t)
    <3>1. f[n + 1] = MergeTrade(f[(n + 1) - 1], us[n + 1])
      BY <1>1, <2>2
    <3> QED  BY <1>1, <1>2, <2>2, <2>3, <2>4, <2>5, <3>1
  <2>9. p \cup {t.price} = prices \cup {us[i].price : i \in 1 .. n + 1}
    <3>1. 1 .. n + 1 = (1 .. n) \cup {n + 1}
      OBVIOUS
    <3> QED  BY <2>5, <2>6, <3>1
  <2>10. UpTo(ts, (n + 1) + d) = UpTo(ts, n + d) + t.qty
    <3>1. (n + 1) + d \in 1 .. Len(ts) /\ ((n + 1) + d) - 1 = n + d /\ us[n + 1] = ts[(n + 1) + d]
      BY <1>2, <2>2
    <3> QED  BY <2>5, <3>1, UpToAdds
  <2>11. UpTo(ts, d) \in Nat /\ UpTo(ts, n + d) \in Nat /\ g.volume \in Nat
    <3>1. n + d \in 0 .. Len(ts)
      BY <1>2, <2>2
    <3>2. UpTo(ts, d) \in Nat /\ UpTo(ts, n + d) \in Nat
      BY <3>1, UpToAdds
    <3> QED  BY <2>8, <3>2 DEF Aggregate
  <2> HIDE DEF K, Sofar
  <2>12. /\ Whole(h) /\ Spans(h, p \cup {t.price})
         /\ h.volume = g.volume + t.qty /\ h.count = g.count + 1
    BY <2>7, <2>8, MergeTradeWhole
  <2>13. h.volume + UpTo(ts, d) = a.volume + UpTo(ts, (n + 1) + d)
    <3>1. PICK v \in Nat : v = g.volume
      BY <2>11
    <3>2. PICK w \in Nat : w = a.volume
      BY <1>2
    <3>3. PICK x \in Nat : x = UpTo(ts, d)
      BY <2>11
    <3>4. PICK y \in Nat : y = UpTo(ts, n + d)
      BY <2>11
    <3>5. PICK q \in Nat : q = t.qty
      BY <2>8
    <3>6. v + x = w + y
      BY <2>7, <3>1, <3>2, <3>3, <3>4
    <3>7. (v + q) + x = w + (y + q)
      BY <3>6
    <3>8. h.volume = v + q
      BY <2>12, <3>1, <3>5
    <3>9. UpTo(ts, (n + 1) + d) = y + q
      BY <2>10, <3>4, <3>5
    <3> QED  BY <3>2, <3>3, <3>7, <3>8, <3>9
  <2>14. h.count = a.count + (n + 1)
    <3>1. PICK w \in Nat : w = a.count
      BY <1>2
    <3>2. h.count = (w + n) + 1
      BY <2>7, <2>12, <3>1
    <3>3. (w + n) + 1 = w + (n + 1)
      BY <1>4
    <3> QED  BY <3>1, <3>2, <3>3
  <2> QED  BY <2>4, <2>9, <2>12, <2>13, <2>14 DEF Sofar
<1>5. Sofar(Len(us))
  <2>1. Len(us) \in K
    <3> HIDE DEF K
    <3> QED  BY <1>2, <1>3, <1>4, Induct
  <2> QED  BY <1>2, <2>1
<1>6. Len(us) + d = Len(ts)
  BY <1>2
<1> QED  BY <1>1, <1>5, <1>6

-----------------------------------------------------------------------------
\* Aggregates of messages.

\* An aggregate of the messages ms has what was traded in them.
Exact(a, ms) ==
  /\ ms \subseteq Traded /\ IsFiniteSet(ms) /\ Whole(a)
  /\ a.volume = VolumeIn(ms)
  /\ a.count = CountIn(ms)
  /\ Spans(a, PricesIn(ms))

LEMMA PricesAre ==
  ASSUME NEW m \in Traded
  PROVE  PricesOf(m) = {TradesOf(m)[i].price : i \in 1 .. Len(TradesOf(m))}
<1>1. DOMAIN TradesOf(m) = 1 .. Len(TradesOf(m))
  BY QtyIs, LenProperties
<1> QED  BY <1>1 DEF PricesOf

\* The sums over one message, and over one more.
LEMMA SumsOfOne ==
  ASSUME NEW m \in Traded
  PROVE  /\ IsFiniteSet({m})
         /\ VolumeIn({m}) = QtyOf(m)
         /\ CountIn({m}) = CountOf(m)
<1>1. PICK S : S = {m}
  OBVIOUS
<1>2. S \subseteq Traded /\ IsFiniteSet(S) /\ m \in S /\ S \ {m} = {}
  BY <1>1, FS_Singleton
<1>3. ASSUME NEW g, \A x \in S : g[x] \in Nat
      PROVE  Total(g, S) = g[m]
  <2>1. Total(g, S) = g[m] + Total(g, S \ {m}) /\ Total(g, {}) = 0 /\ g[m] \in Nat
    BY <1>2, <1>3, TotalAdds
  <2>2. Total(g, S) = g[m] + 0
    BY <1>2, <2>1
  <2> QED  BY <2>1, <2>2
<1>4. /\ \A x \in S : Qtys[x] = QtyOf(x) /\ Qtys[x] \in Nat
      /\ \A x \in S : Counts[x] = CountOf(x) /\ Counts[x] \in Nat
  BY <1>2, QtyIs DEF Qtys, Counts, CountOf
<1>5. VolumeIn(S) = QtyOf(m)
  <2>1. Total(Qtys, S) = Qtys[m]
    BY <1>3, <1>4
  <2> QED  BY <1>2, <1>4, <2>1, SumsAre
<1>6. CountIn(S) = CountOf(m)
  <2>1. Total(Counts, S) = Counts[m]
    BY <1>3, <1>4
  <2> QED  BY <1>2, <1>4, <2>1, SumsAre
<1> QED  BY <1>1, <1>2, <1>5, <1>6

LEMMA SumsOfMore ==
  ASSUME NEW ms, ms \subseteq Traded, IsFiniteSet(ms), NEW m \in Traded, m \notin ms
  PROVE  /\ IsFiniteSet(ms \cup {m})
         /\ VolumeIn(ms \cup {m}) = VolumeIn(ms) + QtyOf(m)
         /\ CountIn(ms \cup {m}) = CountIn(ms) + CountOf(m)
<1>1. PICK S : S = ms \cup {m}
  OBVIOUS
<1>2. S \subseteq Traded /\ IsFiniteSet(S) /\ m \in S /\ S \ {m} = ms
  BY <1>1, FS_AddElement
<1>3. ASSUME NEW g, \A x \in S : g[x] \in Nat
      PROVE  Total(g, S) = Total(g, ms) + g[m]
  <2>1. Total(g, S) = g[m] + Total(g, S \ {m}) /\ g[m] \in Nat
    BY <1>2, <1>3, TotalAdds
  <2>2. Total(g, S) = g[m] + Total(g, ms)
    BY <1>2, <2>1
  <2>3. \A x \in ms : g[x] \in Nat
    BY <1>2, <1>3
  <2>4. Total(g, ms) \in Nat
    BY <2>3, TotalAdds
  <2> QED  BY <2>1, <2>2, <2>4
<1>4. /\ \A x \in S : Qtys[x] = QtyOf(x) /\ Qtys[x] \in Nat
      /\ \A x \in S : Counts[x] = CountOf(x) /\ Counts[x] \in Nat
  BY <1>2, QtyIs DEF Qtys, Counts, CountOf
<1>5. VolumeIn(S) = VolumeIn(ms) + QtyOf(m)
  <2>1. Total(Qtys, S) = Total(Qtys, ms) + Qtys[m]
    BY <1>3, <1>4
  <2>2. VolumeIn(S) = Total(Qtys, S) /\ VolumeIn(ms) = Total(Qtys, ms) /\ Qtys[m] = QtyOf(m)
    BY <1>2, <1>4, SumsAre
  <2> QED  BY <2>1, <2>2
<1>6. CountIn(S) = CountIn(ms) + CountOf(m)
  <2>1. Total(Counts, S) = Total(Counts, ms) + Counts[m]
    BY <1>3, <1>4
  <2>2. CountIn(S) = Total(Counts, S) /\ CountIn(ms) = Total(Counts, ms) /\ Counts[m] = CountOf(m)
    BY <1>2, <1>4, SumsAre
  <2> QED  BY <2>1, <2>2
<1> QED  BY <1>1, <1>2, <1>5, <1>6

LEMMA ExactNew ==
  ASSUME NEW m \in Traded, TradesOf(m) # <<>>
  PROVE  Exact(CreateAggregate(TradesOf(m)), {m})
<1>1. PICK ts \in Seq(Trade) : ts = TradesOf(m)
  BY QtyIs
<1>2. PICK us : us = Tail(ts)
  OBVIOUS
<1>3. PICK t : t = Head(ts)
  OBVIOUS
<1>4. /\ t \in Trade /\ t = ts[1] /\ us \in Seq(Trade) /\ Len(us) = Len(ts) - 1
      /\ \A i \in 1 .. Len(us) : us[i] = ts[i + 1]
      /\ Len(ts) \in Nat \ {0} /\ 1 \in 0 .. Len(ts) /\ 1 \in 1 .. Len(ts)
  <2>1. ts # <<>>
    BY <1>1
  <2>2. Len(ts) \in Nat \ {0}
    BY <2>1, LenProperties, EmptySeq
  <2> QED  BY <1>2, <1>3, <2>1, <2>2, HeadTailProperties
<1>5. PICK a : a = FirstTrade(t)
  OBVIOUS
<1>6. a \in Aggregate /\ Whole(a) /\ Spans(a, {t.price}) /\ a.volume = t.qty /\ a.count = 1
  BY <1>4, <1>5, FirstTradeType, FirstTradeWhole DEF FirstTrade
<1>7. PICK b : b = MergeTrades(a, us)
  OBVIOUS
<1>8. /\ Whole(b) /\ Spans(b, {t.price} \cup {us[i].price : i \in 1 .. Len(us)})
      /\ b.volume + UpTo(ts, 1) = a.volume + UpTo(ts, Len(ts))
      /\ b.count = a.count + Len(us)
  <2>1. PICK ps : ps = {t.price}
    OBVIOUS
  <2>2. PICK d \in 0 .. Len(ts) : d = 1
    BY <1>4
  <2>3. Len(us) = Len(ts) - d /\ \A i \in 1 .. Len(us) : us[i] = ts[i + d]
    BY <1>4, <2>2
  <2>4. Spans(a, ps) /\ Whole(a)
    BY <1>6, <2>1
  <2>5. a \in Aggregate /\ us \in Seq(Trade)
    BY <1>4, <1>6
  <2>6. LET c == MergeTrades(a, us) IN
        /\ Whole(c) /\ Spans(c, ps \cup {us[i].price : i \in 1 .. Len(us)})
        /\ c.volume + UpTo(ts, d) = a.volume + UpTo(ts, Len(ts))
        /\ c.count = a.count + Len(us)
    BY <2>3, <2>4, <2>5, MergeTradesWhole
  <2> QED  BY <1>7, <2>1, <2>2, <2>6
<1>9. b \in Aggregate
  BY <1>4, <1>6, <1>7, MergeTradesType
<1>10. b.volume = QtyOf(m)
  <2>1. UpTo(ts, 1) = UpTo(ts, 1 - 1) + ts[1].qty /\ UpTo(ts, 0) = 0
    BY <1>4, UpToAdds
  <2>2. PICK q \in Nat : q = t.qty
    BY <1>4 DEF Trade
  <2>3. UpTo(ts, 1) = q
    BY <1>4, <2>1, <2>2
  <2>4. PICK v \in Nat : v = b.volume
    BY <1>9 DEF Aggregate
  <2>5. PICK w \in Nat : w = UpTo(ts, Len(ts))
    BY SumQtyIs
  <2>6. v + q = q + w
    BY <1>6, <1>8, <2>2, <2>3, <2>4, <2>5
  <2>7. v = w
    BY <2>6
  <2>8. QtyOf(m) = SumQty(ts) /\ SumQty(ts) = UpTo(ts, Len(ts))
    BY <1>1, QtyIs, SumQtyIs
  <2> QED  BY <2>4, <2>5, <2>7, <2>8
<1>11. b.count = CountOf(m)
  BY <1>1, <1>4, <1>6, <1>8 DEF CountOf
<1>12. {t.price} \cup {us[i].price : i \in 1 .. Len(us)} = PricesIn({m})
  <2>1. PricesIn({m}) = {ts[i].price : i \in 1 .. Len(ts)}
    BY <1>1, PricesAre DEF PricesIn
  <2>2. \A i \in 1 .. Len(us) : i + 1 \in 1 .. Len(ts)
    BY <1>4
  <2>3. \A i \in 1 .. Len(ts) : i = 1 \/ (i - 1 \in 1 .. Len(us) /\ ts[i] = us[i - 1])
    BY <1>4
  <2>4. \A p : p \in {us[i].price : i \in 1 .. Len(us)} => p \in {ts[i].price : i \in 1 .. Len(ts)}
    BY <1>4, <2>2
  <2>5. \A p : p \in {ts[i].price : i \in 1 .. Len(ts)} =>
                 p = t.price \/ p \in {us[i].price : i \in 1 .. Len(us)}
    BY <1>4, <2>3
  <2>6. t.price \in {ts[i].price : i \in 1 .. Len(ts)}
    BY <1>4
  <2> QED  BY <2>1, <2>4, <2>5, <2>6
<1>13. CreateAggregate(TradesOf(m)) = b
  BY <1>1, <1>2, <1>3, <1>5, <1>7 DEF CreateAggregate
<1>14. {m} \subseteq Traded
  OBVIOUS
<1> QED  BY <1>8, <1>10, <1>11, <1>12, <1>13, <1>14, SumsOfOne DEF Exact

LEMMA ExactMore ==
  ASSUME NEW a \in Aggregate, NEW ms, Exact(a, ms), NEW m \in Traded, m \notin ms
  PROVE  Exact(MergeTrades(a, TradesOf(m)), ms \cup {m})
<1>1. PICK ts \in Seq(Trade) : ts = TradesOf(m)
  BY QtyIs
<1>2. PICK b : b = MergeTrades(a, ts)
  OBVIOUS
<1>3. Len(ts) \in Nat /\ 0 \in 0 .. Len(ts) /\ Len(ts) = Len(ts) - 0 /\ \A i \in 1 .. Len(ts) : ts[i] = ts[i + 0]
  BY LenProperties
<1>4. /\ ms \subseteq Traded /\ IsFiniteSet(ms) /\ Whole(a) /\ Spans(a, PricesIn(ms))
      /\ a.volume = VolumeIn(ms)
      /\ a.count = CountIn(ms)
  BY DEF Exact
<1>5. /\ Whole(b) /\ Spans(b, PricesIn(ms) \cup {ts[i].price : i \in 1 .. Len(ts)})
      /\ b.volume + UpTo(ts, 0) = a.volume + UpTo(ts, Len(ts))
      /\ b.count = a.count + Len(ts)
  BY <1>2, <1>3, <1>4, MergeTradesWhole
<1>6. b.volume = a.volume + QtyOf(m)
  <2>1. UpTo(ts, 0) = 0 /\ UpTo(ts, Len(ts)) = QtyOf(m)
    BY <1>1, QtyIs, SumQtyIs, UpToAdds
  <2>2. PICK v \in Nat : v = b.volume
    <3>1. b \in Aggregate
      BY <1>2, MergeTradesType
    <3> QED  BY <3>1 DEF Aggregate
  <2>3. v + 0 = a.volume + QtyOf(m)
    BY <1>5, <2>1, <2>2
  <2>4. v + 0 = v
    OBVIOUS
  <2> QED  BY <2>2, <2>3, <2>4
<1>7. PricesIn(ms) \cup {ts[i].price : i \in 1 .. Len(ts)} = PricesIn(ms \cup {m})
  BY <1>1, PricesAre DEF PricesIn
<1>8. /\ IsFiniteSet(ms \cup {m}) /\ ms \cup {m} \subseteq Traded
      /\ b.volume = VolumeIn(ms \cup {m})
      /\ b.count = CountIn(ms \cup {m})
  BY <1>1, <1>4, <1>5, <1>6, SumsOfMore DEF CountOf
<1> QED  BY <1>1, <1>2, <1>5, <1>7, <1>8 DEF Exact

-----------------------------------------------------------------------------
\* What the application reads of the volume.

\* VolumePreserved, of one item.
Tells(item) ==
  (\A m \in item.msgs : IsTrade(m)) =>
    /\ VolumeRead(item) = VolumeIn(item.msgs)
    /\ CountRead(item) = CountIn(item.msgs)
    /\ IsConflated(item) => RangeRead(item) = <<Min(PricesIn(item.msgs)), Max(PricesIn(item.msgs))>>

LEMMA SpansRange ==
  ASSUME NEW a, NEW prices, Spans(a, prices)
  PROVE  a.min = Min(prices) /\ a.max = Max(prices)
<1>1. /\ a.min \in prices /\ a.max \in prices
      /\ \A p \in prices : p \in Nat /\ a.min <= p /\ p <= a.max
  BY DEF Spans
<1>2. \A x \in prices : (\A y \in prices : x <= y) => x = a.min
  BY <1>1
<1>3. \A x \in prices : (\A y \in prices : x >= y) => x = a.max
  BY <1>1
<1>4. \E x \in prices : \A y \in prices : x <= y
  BY <1>1
<1>5. \E x \in prices : \A y \in prices : x >= y
  BY <1>1
<1>6. Min(prices) = a.min
  BY <1>2, <1>4 DEF Min
<1>7. Max(prices) = a.max
  BY <1>3, <1>5 DEF Max
<1> QED  BY <1>6, <1>7

\* What a flush makes of an aggregate tells what was traded in its messages.
LEMMA ExactTells ==
  ASSUME NEW a \in Aggregate, NEW ms, Exact(a, ms)
  PROVE  Tells(ItemOf(a, ms))
<1>1. /\ Whole(a) /\ a.volume = VolumeIn(ms) /\ a.count = CountIn(ms)
      /\ a.min = Min(PricesIn(ms)) /\ a.max = Max(PricesIn(ms))
  BY SpansRange DEF Exact
<1>2. PICK item : item = ItemOf(a, ms)
  OBVIOUS
<1>3. CASE a.count > BatchLimit
  <2>1. item = Summary(a, ms)
    BY <1>2, <1>3 DEF ItemOf
  <2>2. /\ item.form = "aggregate" /\ item.msgs = ms
        /\ item.data[1] = [volume |-> a.volume, min |-> a.min, max |-> a.max, last |-> a.last,
                           count |-> a.count]
    BY <2>1 DEF Summary
  <2>3. VolumeRead(item) = a.volume /\ CountRead(item) = a.count /\ RangeRead(item) = <<a.min, a.max>>
    BY <2>2 DEF VolumeRead, CountRead, RangeRead
  <2> QED  BY <1>1, <1>2, <2>2, <2>3 DEF Tells
<1>4. CASE ~(a.count > BatchLimit)
  <2>1. item = Batch(a, ms)
    BY <1>2, <1>4 DEF ItemOf
  <2>2. /\ item.form = "batch" /\ item.msgs = ms /\ item.data = a.trades
        /\ item.stats = [volume |-> a.volume, min |-> a.min, max |-> a.max, count |-> a.count]
    BY <2>1 DEF Batch
  <2>3. TradesIn(item) = a.trades
    BY <2>2 DEF TradesIn
  <2>4. /\ VolumeRead(item) = SumQty(a.trades) /\ CountRead(item) = Len(a.trades)
        /\ RangeRead(item) = <<a.min, a.max>>
    BY <2>2, <2>3 DEF VolumeRead, CountRead, RangeRead
  <2> QED  BY <1>1, <1>2, <2>2, <2>4 DEF Tells, Whole
<1> QED  BY <1>3, <1>4

\* And so does a message that is offered as it came.
LEMMA SingleTells ==
  ASSUME NEW m \in Sendable
  PROVE  Tells(Single(m))
<1>1. PICK item : item = Single(m)
  OBVIOUS
<1>2. item.form = "single" /\ item.msgs = {m}
  BY <1>1 DEF Single
<1>3. ~IsConflated(item)
  BY <1>2 DEF IsConflated
<1>4. (CHOOSE x \in {m} : TRUE) = m
  OBVIOUS
<1>5. TradesIn(item) = TradesOf(m)
  BY <1>2, <1>4 DEF TradesIn
<1>6. VolumeRead(item) = SumQty(TradesOf(m)) /\ CountRead(item) = CountOf(m)
  BY <1>2, <1>5 DEF VolumeRead, CountRead, CountOf
<1>7. ASSUME IsTrade(m) PROVE VolumeIn({m}) = SumQty(TradesOf(m)) /\ CountIn({m}) = CountOf(m)
  <2>1. m \in Traded
    BY <1>7 DEF Traded
  <2> QED  BY <2>1, QtyIs, SumsOfOne
<1> QED  BY <1>1, <1>2, <1>3, <1>6, <1>7 DEF Tells

Tallied ==
  /\ Stored \cup Done \subseteq Sendable
  /\ \A s \in DOMAIN aggregates : Exact(aggregates[s].data, aggregates[s].msgs)
  /\ \A a \in draining : Tells(a)
  /\ \A i \in DOMAIN Items : Tells(Items[i])

LEMMA TalliedInit == ASSUME Init PROVE Tallied
<1>1. DOMAIN buffer.pending = {} /\ DOMAIN aggregates = {} /\ draining = {} /\ chan = <<>> /\ received = <<>>
  BY DEF Init, ConflationInit, EmptyBuffer, NoAggregates
<1>2. Buffered = {} /\ Aggregated = {} /\ Draining = {}
  BY <1>1 DEF Buffered, Range, Aggregated, Draining
<1>3. Items = <<>>
  <2>1. <<>> \in Seq(Item)
    OBVIOUS
  <2> QED  BY <1>1, <2>1, ConcatEmptySeq DEF Items
<1>4. DOMAIN Items = {} /\ DOMAIN Offered = {}
  BY <1>3 DEF Offered
<1> QED  BY <1>1, <1>2, <1>4 DEF Tallied, Stored, Done

LEMMA VolumeTold ==
  ASSUME Stores, Tallied
  PROVE  VolumePreserved
<1>1. \A i \in DOMAIN Items : Tells(Items[i]) /\ Offered[i] = Items[i].msgs
  BY OfferedType DEF Tallied, Offered
<1> QED  BY <1>1 DEF VolumePreserved, Tells

\* An aggregated trade message was never in the aggregate before.
LEMMA ConflateExact ==
  ASSUME Control, Stores, Known, Tallied, Conflate
  PROVE  \A s \in DOMAIN aggregates' : Exact(aggregates'[s].data, aggregates'[s].msgs)
<1>1. pc = "process" /\ cur \in Sendable /\ BufferMessage(cur)
  BY DEF Conflate, Control
<1>2. CASE aggregates' = aggregates
  BY <1>2 DEF Tallied
<1>3. CASE aggregates' # aggregates
  <2>1. IsTrade(cur) /\ AggregateTrade(cur)
    BY <1>1, <1>3 DEF BufferMessage
  <2>2. cur \in Traded /\ TradesOf(cur) # <<>>
    BY <1>1, <1>3, <2>1 DEF AggregateTrade, Traded
  <2>3. PICK s : s = cur.sym
    OBVIOUS
  <2>4. \E new : aggregates' = With(aggregates, s, new) /\ Exact(new.data, new.msgs)
    <3>1. CASE s \in DOMAIN aggregates
      <4>1. PICK a : a = aggregates[s].data
        OBVIOUS
      <4>2. PICK ms : ms = aggregates[s].msgs
        OBVIOUS
      <4>3. PICK new : new = [data |-> MergeTrades(a, TradesOf(cur)), msgs |-> ms \cup {cur}]
        OBVIOUS
      <4>4. aggregates' = With(aggregates, s, new)
        BY <2>1, <2>2, <2>3, <3>1, <4>1, <4>2, <4>3 DEF AggregateTrade
      <4>5. a \in Aggregate /\ Exact(a, ms)
        BY <3>1, <4>1, <4>2 DEF Stores, Tallied
      <4>6. cur \notin ms
        <5>1. cur \notin Aggregated
          BY <1>1, CurNew DEF Stored
        <5> QED  BY <3>1, <4>2, <5>1 DEF Aggregated
      <4>7. Exact(MergeTrades(a, TradesOf(cur)), ms \cup {cur})
        BY <2>2, <4>5, <4>6, ExactMore
      <4> QED  BY <4>3, <4>4, <4>7
    <3>2. CASE s \notin DOMAIN aggregates
      <4>1. PICK new : new = [data |-> CreateAggregate(TradesOf(cur)), msgs |-> {cur}]
        OBVIOUS
      <4>2. aggregates' = With(aggregates, s, new)
        BY <2>1, <2>2, <2>3, <3>2, <4>1 DEF AggregateTrade
      <4>3. Exact(CreateAggregate(TradesOf(cur)), {cur})
        BY <2>2, ExactNew
      <4> QED  BY <4>1, <4>2, <4>3
    <3> QED  BY <3>1, <3>2
  <2>5. PICK new : aggregates' = With(aggregates, s, new) /\ Exact(new.data, new.msgs)
    BY <2>4
  <2>6. /\ DOMAIN aggregates' = DOMAIN aggregates \cup {s} /\ aggregates'[s] = new
        /\ \A x \in DOMAIN aggregates \ {s} : aggregates'[x] = aggregates[x]
    BY <2>5 DEF With
  <2>7. \A x \in DOMAIN aggregates' :
          aggregates'[x] = new \/ (x \in DOMAIN aggregates /\ aggregates'[x] = aggregates[x])
    BY <2>6
  <2> QED  BY <2>5, <2>7 DEF Tallied
<1> QED  BY <1>2, <1>3

LEMMA TalliedKept ==
  ASSUME Control, Stores, Known, Tallied, [Next]_vars
  PROVE  Tallied'
<1> USE DEF conflation, engine, channels, network, application, history
<1>1. Stored' \cup Done' \subseteq Sendable
  <2>1. pc = "process" => cur \in Sendable
    BY DEF Control
  <2> QED  BY <2>1, Grows DEF Tallied
<1>2. ASSUME UNCHANGED <<aggregates, draining>>, Items' = Items PROVE Tallied'
  BY <1>1, <1>2 DEF Tallied
<1>3. ASSUME NEW item \in Item, Tells(item), Send(item), received' = received
      PROVE  \A i \in DOMAIN Items' : Tells(Items'[i])
  <2>1. Items' = Append(Items, item) /\ Items \in Seq(Item) /\ Len(Items) \in Nat
    BY <1>3, ItemsSent, OfferedType
  <2>2. /\ Items' \in Seq(Item) /\ Len(Items') = Len(Items) + 1
        /\ \A i \in 1 .. Len(Items) : Items'[i] = Items[i]
        /\ Items'[Len(Items) + 1] = item
    BY <2>1, AppendProperties
  <2>3. DOMAIN Items' = 1 .. Len(Items) + 1 /\ DOMAIN Items = 1 .. Len(Items)
    BY <2>1, <2>2, LenProperties
  <2>4. \A i \in DOMAIN Items' : i \in DOMAIN Items \/ i = Len(Items) + 1
    BY <2>1, <2>3
  <2> QED  BY <1>3, <2>2, <2>3, <2>4 DEF Tallied
<1>4. CASE Quiet \/ Takes \/ Stop \/ ServerSends
  <2>1. UNCHANGED <<aggregates, draining, chan, received>>
    BY <1>4 DEF Quiet, Takes, Stop, ServerSends
  <2> QED  BY <2>1, <1>2, ItemsSame
<1>5. CASE Receive
  <2>1. UNCHANGED <<aggregates, draining>>
    BY <1>5 DEF Receive
  <2> QED  BY <2>1, <1>2, <1>5, ItemsReceived
<1>6. CASE Drains
  <2>1. draining' = AllAggregates /\ aggregates' = NoAggregates /\ Items' = Items
    BY <1>6, ItemsSame DEF Drains
  <2>2. \A s \in DOMAIN aggregates : Tells(ItemOf(aggregates[s].data, aggregates[s].msgs))
    BY ExactTells DEF Tallied, Stores
  <2>3. \A a \in draining' : Tells(a)
    BY <2>1, <2>2 DEF AllAggregates
  <2>4. DOMAIN aggregates' = {}
    BY <2>1 DEF NoAggregates
  <2> QED  BY <1>1, <2>1, <2>3, <2>4 DEF Tallied
<1>7. CASE Pops
  <2>1. UNCHANGED <<aggregates, draining, received>>
    BY <1>7 DEF Pops
  <2>2. Popped(buffer) \in Sendable /\ Single(Popped(buffer)) \in Item
    BY <1>7, PopBuffered, PopStores, ItemType DEF Pops, Tallied, Stored
  <2>3. CASE Send(Single(Popped(buffer)))
    <3>1. \A i \in DOMAIN Items' : Tells(Items'[i])
      BY <1>3, <2>1, <2>2, <2>3, SingleTells
    <3> QED  BY <1>1, <2>1, <3>1 DEF Tallied
  <2>4. CASE UNCHANGED chan
    BY <2>1, <2>4, <1>2, ItemsSame
  <2> QED  BY <1>7, <2>3, <2>4 DEF Pops
<1>8. CASE ConnectOk
  <2>1. aggregates' = NoAggregates /\ UNCHANGED <<chan, received>>
    BY <1>8 DEF ConnectOk, ClearConflation
  <2>2. draining' = draining
    BY <1>8 DEF ConnectOk
  <2>3. DOMAIN aggregates' = {}
    BY <2>1 DEF NoAggregates
  <2>4. Items' = Items
    BY <2>1, ItemsSame
  <2> QED  BY <1>1, <2>2, <2>3, <2>4 DEF Tallied
<1>9. CASE SendAtOnce
  <2>1. /\ cur \in Sendable /\ UNCHANGED <<aggregates, draining, received>>
        /\ Send(Single(cur)) \/ UNCHANGED chan
    BY <1>9 DEF SendAtOnce, LeaveLoop, Control
  <2>2. CASE Send(Single(cur))
    <3>1. Single(cur) \in Item
      BY <2>1, SendableType, ItemType
    <3>2. \A i \in DOMAIN Items' : Tells(Items'[i])
      BY <1>3, <2>1, <2>2, <3>1, SingleTells
    <3> QED  BY <1>1, <2>1, <3>2 DEF Tallied
  <2>3. CASE UNCHANGED chan
    BY <2>1, <2>3, <1>2, ItemsSame
  <2> QED  BY <2>1, <2>2, <2>3
<1>10. CASE Conflate
  <2>1. UNCHANGED <<draining, chan, received>>
    BY <1>10 DEF Conflate
  <2>2. Items' = Items
    BY <2>1, ItemsSame
  <2>3. \A s \in DOMAIN aggregates' : Exact(aggregates'[s].data, aggregates'[s].msgs)
    BY <1>10, ConflateExact
  <2> QED  BY <1>1, <2>1, <2>2, <2>3 DEF Tallied
<1>11. CASE SendAggregate
  <2>1. UNCHANGED <<aggregates, received>>
    BY <1>11 DEF SendAggregate
  <2>2. CASE draining' = {} /\ UNCHANGED chan
    <3>1. Items' = Items
      BY <2>1, <2>2, ItemsSame
    <3> QED  BY <1>1, <2>1, <2>2, <3>1 DEF Tallied
  <2>3. CASE \E a \in draining : Send(a) /\ draining' = draining \ {a}
    <3>1. PICK a \in draining : Send(a) /\ draining' = draining \ {a}
      BY <2>3
    <3>2. a \in Item /\ Tells(a)
      BY DEF Stores, Tallied
    <3>3. \A i \in DOMAIN Items' : Tells(Items'[i])
      BY <1>3, <2>1, <3>1, <3>2
    <3> QED  BY <1>1, <2>1, <3>1, <3>3 DEF Tallied
  <2> QED  BY <1>11, <2>2, <2>3 DEF SendAggregate
<1>12. CASE DropReceiver
  <2>1. UNCHANGED <<aggregates, draining>>
    BY <1>12 DEF DropReceiver
  <2>2. received \in Seq(Item) /\ chan \in Seq(Item) /\ received' = received /\ chan' = <<>>
    BY <1>12 DEF Stores, DropReceiver
  <2>3. Items' = received
    BY <2>2, ConcatEmptySeq DEF Items
  <2>4. /\ Len(Items) = Len(received) + Len(chan) /\ Len(received) \in Nat /\ Len(chan) \in Nat
        /\ \A i \in 1 .. Len(received) + Len(chan) :
             Items[i] = IF i <= Len(received) THEN received[i] ELSE chan[i - Len(received)]
        /\ DOMAIN received = 1 .. Len(received)
    BY <2>2, ConcatProperties, LenProperties DEF Items
  <2>5. DOMAIN Items = 1 .. Len(Items)
    BY OfferedType DEF Offered
  <2>6. \A i \in DOMAIN received : i \in DOMAIN Items /\ Items[i] = received[i]
    BY <2>4, <2>5
  <2> QED  BY <1>1, <2>1, <2>3, <2>6 DEF Tallied
<1> QED
  BY <1>4, <1>5, <1>6, <1>7, <1>8, <1>9, <1>10, <1>11, <1>12, StepKinds

\* Conflation does not change what was traded: in whatever form trades reach the
\* application, single, batch or summary, the volume and the number it reads are
\* those of the messages they came from, and so is the range of their prices.
THEOREM VolumeSurvives == Spec => []VolumePreserved
<1>1. Init => Tallied
  BY TalliedInit
<1>2. Delivery /\ Tallied /\ [Next]_vars => Tallied'
  BY TalliedKept DEF Delivery, Sound
<1>3. Delivery /\ Tallied => VolumePreserved
  BY VolumeTold DEF Delivery, Sound
<1> QED  BY <1>1, <1>2, <1>3, AlwaysDelivery, PTL DEF Spec

=============================================================================
