------------------------- MODULE ConnectionManager --------------------------
(***************************************************************************)
(* The engine task of network/connection.rs between its three neighbours:  *)
(* the server behind a WebSocket that can fail, the application behind the *)
(* bounded event channel and the bounded command channel, and the governor *)
(* behind one flag.                                                        *)
(*                                                                         *)
(* The engine is one task, so its variables change only in its own steps;  *)
(* but the application runs on another thread and receives, drops an end   *)
(* of a channel or sends a command between any two accesses of the engine  *)
(* to a channel.  A step of the engine is therefore the code between two   *)
(* such accesses, and pc names the place it has reached:                   *)
(*   connecting, resubscribe, select                    run                *)
(*   process, gate                                      send_with_conflation *)
(*   aggregates, drain                                  try_flush          *)
(*   forceAggregates, forceDrain                        force_flush        *)
(*   sleep, stopped                                     run                *)
(***************************************************************************)
EXTENDS ConflationManager

CONSTANTS
  FeedKinds,             \* the kinds of message the server sends
  ClientCommands,        \* the commands the application sends, each once
  InitialSubscriptions,  \* subscribe commands already recorded at the start
  CommandCapacity,       \* size of the command channel
  SocketCapacity,        \* bound: messages that wait in the socket
  HasGovernor,           \* connect_with_governor or connect
  TokensExpire,          \* the run is long enough for a token to run out (auth.rs:16)
  MaxMessages,           \* bound: messages the server sends
  MaxLosses              \* bound: connections the network loses

\* Every message the server may ever send.
Sendable == UNION {MessagesOf(kind, n) : kind \in FeedKinds, n \in 1 .. MaxMessages}

\* Two orders differ in their id; a trade message is parsed into trades.
ASSUME ConnectionAssumption ==
  /\ FeedKinds \subseteq Kinds
  /\ InitialSubscriptions \in Seq(Range(InitialSubscriptions))
  /\ \A c \in Range(InitialSubscriptions) : c.op = "subscribe"
  /\ CommandCapacity \in Nat \ {0} /\ SocketCapacity \in Nat \ {0}
  /\ HasGovernor \in BOOLEAN /\ TokensExpire \in BOOLEAN
  /\ MaxMessages \in Nat /\ MaxLosses \in Nat
  /\ \A c, d \in ClientCommands : c.op = "order" /\ d.op = "order" /\ c.id = d.id => c = d
  /\ \A m \in Sendable : IsTrade(m) => TradesOf(m) \in Seq(Trade)

VARIABLES
  \* the engine
  pc, cur, draining, active, replay,
  \* the channels between engine and application, the governor's flag
  chan, rxOpen, cmdq, cmdOpen, survival,
  \* the network and the server
  link, ws, serverSubs, executed,
  \* the application
  blocked, sent, received,
  \* history: next message, first message of this connection, newest message
  \* per key, channels the application wants, connections lost so far
  nextSeq, epoch, latest, wanted, losses

engine == <<pc, cur, draining, active, replay>>
channels == <<chan, rxOpen, cmdq, cmdOpen, survival>>
network == <<link, ws, serverSubs, executed>>
application == <<blocked, sent, received>>
history == <<nextSeq, epoch, latest, wanted, losses>>

vars == <<conflation, engine, channels, network, application, history>>

NoMessage == [kind |-> "other", sym |-> NoSymbol, seq |-> 0]
NoCommand == [op |-> "none", arg |-> "", id |-> 0]

\* Slip: every command is recorded for the replay.
SlipRecordAll(c) == TRUE

\* payload.contains("\"subscribe\""): an unsubscribe does not match.
IsSubscribe(c) == c.op = "subscribe"

Init ==
  /\ ConflationInit
  /\ pc = "connecting" /\ cur = NoMessage /\ draining = {}
  /\ active = InitialSubscriptions /\ replay = <<>>
  /\ chan = <<>> /\ rxOpen = TRUE /\ cmdq = <<>> /\ cmdOpen = TRUE /\ survival = FALSE
  /\ link = "none" /\ ws = <<>> /\ serverSubs = {} /\ executed = <<>>
  /\ blocked = NoCommand /\ sent = <<>> /\ received = <<>>
  /\ nextSeq = 1 /\ epoch = 1 /\ latest = [k \in {} |-> k]
  /\ wanted = {InitialSubscriptions[i].arg : i \in DOMAIN InitialSubscriptions}
  /\ losses = 0

-----------------------------------------------------------------------------
\* The event channel (tokio::sync::mpsc).  Dropping the receiver discards what
\* is queued and gives the capacity back.

HasRoom == Len(chan) < ChannelCapacity

Send(item) == chan' = Append(chan, item)

\* The commands that carry a token: orders and the private subscriptions.
CarriesToken(c) == c.op = "order" \/ (c.op = "subscribe" /\ c.arg \in PrivateKinds)

\* The server acts on a command that reaches it, unless its token has run out.
\* The refusal is an error text like any other.
ServerTakes(c) ==
  \/ /\ serverSubs' = CASE c.op = "subscribe"   -> serverSubs \cup {c.arg}
                        [] c.op = "unsubscribe" -> serverSubs \ {c.arg}
                        [] OTHER                -> serverSubs
     /\ executed' = IF c.op = "order" THEN Append(executed, c.id) ELSE executed
  \/ TokensExpire /\ CarriesToken(c) /\ UNCHANGED <<serverSubs, executed>>

-----------------------------------------------------------------------------
\* run: connecting and resubscribing.

ConnectOk ==
  /\ pc = "connecting"
  /\ ClearConflation
  /\ link' = "up" /\ ws' = <<>> /\ serverSubs' = {}
  /\ replay' = active
  /\ pc' = "resubscribe"
  /\ epoch' = nextSeq /\ latest' = [k \in {} |-> k]
  /\ UNCHANGED <<cur, draining, active, channels, executed, application, nextSeq, wanted, losses>>

ConnectFails ==
  /\ pc = "connecting"
  /\ pc' = "sleep"
  /\ UNCHANGED <<conflation, cur, draining, active, replay, channels, network, application, history>>

\* A failed write is logged and the loop goes on with the next subscription.
Resubscribe ==
  /\ pc = "resubscribe" /\ replay # <<>>
  /\ IF link = "up" THEN ServerTakes(Head(replay)) ELSE UNCHANGED <<serverSubs, executed>>
  /\ replay' = Tail(replay)
  /\ UNCHANGED <<conflation, pc, cur, draining, active, channels, link, ws, application, history>>

Resubscribed ==
  /\ pc = "resubscribe" /\ replay = <<>>
  /\ pc' = "select"
  /\ UNCHANGED <<conflation, cur, draining, active, replay, channels, network, application, history>>

\* Wait before reconnecting; commands and closed channels go unnoticed here.
Wake ==
  /\ pc = "sleep"
  /\ pc' = "connecting"
  /\ UNCHANGED <<conflation, cur, draining, active, replay, channels, network, application, history>>

\* Slip: the dead socket is kept.
SlipKeepSocket == pc' = "sleep" /\ UNCHANGED link /\ ws' = <<>> /\ serverSubs' = {}

\* Leaving the inner loop drops both halves of the socket.
LeaveLoop == pc' = "sleep" /\ link' = "none" /\ ws' = <<>> /\ serverSubs' = {}

-----------------------------------------------------------------------------
\* run: the biased select.  Reading comes first, then commands, then the tick.

ReadReady == ws # <<>> \/ link = "closed"
CommandReady == cmdq # <<>> \/ ~cmdOpen

\* send_with_conflation up to update_conflation_state: survival mode drops the
\* message unparsed, otherwise the fill of the channel decides the state.
ReadMessage ==
  /\ pc = "select" /\ ws # <<>>
  /\ ws' = Tail(ws)
  /\ \/ /\ survival /\ IsDroppable(Head(ws))
        /\ UNCHANGED <<conflation, pc, cur>>
     \/ /\ ~(survival /\ IsDroppable(Head(ws)))
        /\ UpdateState(Len(chan))
        /\ cur' = Head(ws) /\ pc' = "process"
        /\ UNCHANGED <<buffer, aggregates>>
  /\ UNCHANGED <<draining, active, replay, channels, link, serverSubs, executed, application, history>>

\* A close frame, an error or the end of the stream.
ConnectionEnds ==
  /\ pc = "select" /\ ws = <<>> /\ link = "closed"
  /\ LeaveLoop
  /\ UNCHANGED <<conflation, cur, draining, active, replay, channels, executed, application, history>>

\* History: a subscription is wanted once the engine has taken it, until the
\* server has taken it back.
Wants(c) ==
  wanted' = CASE c.op = "subscribe"                     -> wanted \cup {c.arg}
              [] c.op = "unsubscribe" /\ link = "up"    -> wanted \ {c.arg}
              [] c.op = "unsubscribe" /\ link # "up"    -> wanted
              [] c.op \notin {"subscribe", "unsubscribe"} -> wanted

\* Slip: the subscription is recorded after the write succeeded.
SlipRecordAfterWrite ==
  /\ pc = "select" /\ ~ReadReady /\ cmdq # <<>>
  /\ LET c == Head(cmdq) IN
     /\ Wants(c)
     /\ \/ /\ link = "up" /\ ServerTakes(c) /\ UNCHANGED <<pc, link, ws>>
           /\ active' = IF IsSubscribe(c) THEN Append(active, c) ELSE active
        \/ link = "silent" /\ LeaveLoop /\ UNCHANGED <<executed, active>>
  /\ cmdq' = Tail(cmdq)
  /\ UNCHANGED <<conflation, cur, draining, replay, chan, rxOpen, cmdOpen, survival,
                 application, nextSeq, epoch, latest, losses>>

\* Slip: what waits in the buffer goes before the commands.
SlipFlushFirst ==
  /\ pc = "select" /\ ~ReadReady /\ cmdq # <<>> /\ buffer.size = 0
  /\ LET c == Head(cmdq) IN
     /\ active' = IF IsSubscribe(c) THEN Append(active, c) ELSE active
     /\ Wants(c)
     /\ \/ link = "up" /\ ServerTakes(c) /\ UNCHANGED <<pc, link, ws>>
        \/ link = "silent" /\ UNCHANGED <<pc, network>>
  /\ cmdq' = Tail(cmdq)
  /\ UNCHANGED <<conflation, cur, draining, replay, chan, rxOpen, cmdOpen, survival,
                 application, nextSeq, epoch, latest, losses>>

\* The subscription is recorded before it is written.  A write into a link
\* that is lost but not yet known to be may fail or vanish.
TakeCommand ==
  /\ pc = "select" /\ ~ReadReady /\ cmdq # <<>>
  /\ LET c == Head(cmdq) IN
     /\ active' = IF IsSubscribe(c) THEN Append(active, c) ELSE active
     /\ Wants(c)
     /\ \/ link = "up" /\ ServerTakes(c) /\ UNCHANGED <<pc, link, ws>>
        \/ link = "silent" /\ UNCHANGED <<pc, network>>
        \/ link = "silent" /\ LeaveLoop /\ UNCHANGED executed
  /\ cmdq' = Tail(cmdq)
  /\ UNCHANGED <<conflation, cur, draining, replay, chan, rxOpen, cmdOpen, survival,
                 application, nextSeq, epoch, latest, losses>>

\* Slip: only the senders are looked at.
SlipStopAtOnce ==
  /\ pc = "select" /\ ~ReadReady /\ ~cmdOpen
  /\ draining' = AllAggregates /\ aggregates' = NoAggregates
  /\ pc' = "forceAggregates"
  /\ UNCHANGED <<buffer, state, prevState, cur, active, replay, channels, network, application, history>>

\* All senders are gone and the queue is empty: force_flush begins.
CommandsClosed ==
  /\ pc = "select" /\ ~ReadReady /\ cmdq = <<>> /\ ~cmdOpen
  /\ draining' = AllAggregates /\ aggregates' = NoAggregates
  /\ pc' = "forceAggregates"
  /\ UNCHANGED <<buffer, state, prevState, cur, active, replay, channels, network, application, history>>

\* Slip: the aggregates are sent but stay in the map (iter for drain).
SlipAggregatesStay ==
  \/ /\ LeavingRed
     /\ draining' = AllAggregates /\ UNCHANGED aggregates
     /\ pc' = "aggregates"
  \/ /\ ~LeavingRed
     /\ pc' = "drain"
     /\ UNCHANGED <<draining, aggregates>>

\* try_flush begins: with the aggregates in the window after Red, else with the
\* buffer.
StartFlush ==
  \/ /\ LeavingRed
     /\ draining' = AllAggregates /\ aggregates' = NoAggregates
     /\ pc' = "aggregates"
  \/ /\ ~LeavingRed
     /\ pc' = "drain"
     /\ UNCHANGED <<draining, aggregates>>

\* Slip: a single buffered message is not flushed.
SlipTickNeedsTwo ==
  /\ pc = "select" /\ ~ReadReady /\ ~CommandReady
  /\ buffer.size > 1 /\ HasRoom
  /\ StartFlush
  /\ UNCHANGED <<buffer, state, prevState, cur, active, replay, channels, network, application, history>>

\* The tick's flush; a tick that finds the buffer empty or the channel full
\* changes nothing.
Tick ==
  /\ pc = "select" /\ ~ReadReady /\ ~CommandReady
  /\ buffer.size > 0 /\ HasRoom
  /\ StartFlush
  /\ UNCHANGED <<buffer, state, prevState, cur, active, replay, channels, network, application, history>>

-----------------------------------------------------------------------------
\* send_with_conflation after the state update.

\* process answered Some: try_send.  On a full channel process is called once
\* more, answers Some again, and the answer is discarded.
SendAtOnce ==
  /\ pc = "process" /\ PassesThrough(cur)
  /\ \/ rxOpen /\ HasRoom /\ Send(Single(cur)) /\ pc' = "select" /\ UNCHANGED <<link, ws, serverSubs>>
     \/ rxOpen /\ ~HasRoom /\ pc' = "gate" /\ UNCHANGED <<chan, link, ws, serverSubs>>
     \/ ~rxOpen /\ LeaveLoop /\ UNCHANGED chan
  /\ cur' = NoMessage
  /\ latest' = IF IsPriority(cur) \/ IsTrade(cur) THEN latest ELSE With(latest, Key(cur), cur)
  /\ UNCHANGED <<conflation, draining, active, replay, rxOpen, cmdq, cmdOpen, survival,
                 executed, application, nextSeq, epoch, wanted, losses>>

\* The keys whose messages the overflow of this insert discards.
Victims(m) == OverflowVictims(buffer, m, state = "Red")

Conflate ==
  /\ pc = "process" /\ ~PassesThrough(cur)
  /\ BufferMessage(cur)
  /\ latest' = IF IsTrade(cur) THEN Without(latest, Victims(cur))
               ELSE With(Without(latest, Victims(cur)), Key(cur), cur)
  /\ cur' = NoMessage /\ pc' = "gate"
  /\ UNCHANGED <<state, prevState, draining, active, replay, channels, network, application,
                 nextSeq, epoch, wanted, losses>>

Gate ==
  /\ pc = "gate"
  /\ \/ HasRoom /\ StartFlush
     \/ ~HasRoom /\ pc' = "select" /\ UNCHANGED <<draining, aggregates>>
  /\ UNCHANGED <<buffer, state, prevState, cur, active, replay, channels, network, application, history>>

-----------------------------------------------------------------------------
\* try_flush and force_flush.

\* The map is drained in no particular order; the first try_send that fails
\* loses that aggregate and the rest.
SendAggregate ==
  /\ pc \in {"aggregates", "forceAggregates"} /\ draining # {}
  /\ \/ /\ rxOpen /\ HasRoom
        /\ \E a \in draining : Send(a) /\ draining' = draining \ {a}
     \/ /\ ~(rxOpen /\ HasRoom)
        /\ draining' = {} /\ UNCHANGED chan
  /\ UNCHANGED <<conflation, pc, cur, active, replay, rxOpen, cmdq, cmdOpen, survival,
                 network, application, history>>

AggregatesSent ==
  /\ pc \in {"aggregates", "forceAggregates"} /\ draining = {}
  /\ pc' = IF pc = "aggregates" THEN "drain" ELSE "forceDrain"
  /\ UNCHANGED <<conflation, cur, draining, active, replay, channels, network, application, history>>

\* Slip: the loop pops before it looks at the room.
SlipPopFirst ==
  /\ pc = "drain" /\ CanPop(buffer)
  /\ buffer' = AfterPop(buffer)
  /\ \/ rxOpen /\ HasRoom /\ Send(Single(Popped(buffer))) /\ UNCHANGED pc
     \/ ~(rxOpen /\ HasRoom) /\ pc' = "select" /\ UNCHANGED chan
  /\ UNCHANGED <<state, prevState, aggregates, cur, draining, active, replay, rxOpen, cmdq,
                 cmdOpen, survival, network, application, history>>

\* One round of try_flush's loop: the engine is the only sender, so the room it
\* saw is still there; a closed channel costs the message that was popped.
FlushOne ==
  /\ pc = "drain" /\ HasRoom /\ CanPop(buffer)
  /\ buffer' = AfterPop(buffer)
  /\ \/ rxOpen /\ Send(Single(Popped(buffer))) /\ UNCHANGED pc
     \/ ~rxOpen /\ pc' = "select" /\ UNCHANGED chan
  /\ UNCHANGED <<state, prevState, aggregates, cur, draining, active, replay, rxOpen, cmdq,
                 cmdOpen, survival, network, application, history>>

FlushEnds ==
  /\ pc = "drain" /\ ~(HasRoom /\ CanPop(buffer))
  /\ pc' = "select"
  /\ UNCHANGED <<conflation, cur, draining, active, replay, channels, network, application, history>>

\* Slip: a closed channel is taken for a full one.
SlipIgnoreClosed ==
  /\ pc = "forceDrain" /\ CanPop(buffer)
  /\ rxOpen /\ HasRoom /\ Send(Single(Popped(buffer)))
  /\ buffer' = AfterPop(buffer)
  /\ UNCHANGED <<state, prevState, aggregates, pc, cur, draining, active, replay, rxOpen, cmdq,
                 cmdOpen, survival, network, application, history>>

\* force_flush awaits room for every message.
ForceFlushOne ==
  /\ pc = "forceDrain" /\ CanPop(buffer)
  /\ \/ rxOpen /\ HasRoom /\ Send(Single(Popped(buffer))) /\ UNCHANGED <<pc, link, ws, serverSubs>>
     \/ ~rxOpen /\ pc' = "stopped" /\ link' = "none" /\ ws' = <<>> /\ serverSubs' = {} /\ UNCHANGED chan
  /\ buffer' = AfterPop(buffer)
  /\ UNCHANGED <<state, prevState, aggregates, cur, draining, active, replay, rxOpen, cmdq,
                 cmdOpen, survival, executed, application, history>>

Stop ==
  /\ pc = "forceDrain" /\ ~CanPop(buffer)
  /\ pc' = "stopped" /\ link' = "none" /\ ws' = <<>> /\ serverSubs' = {}
  /\ UNCHANGED <<conflation, cur, draining, active, replay, channels, executed, application, history>>

Engine ==
  \/ ConnectOk \/ ConnectFails \/ Resubscribe \/ Resubscribed \/ Wake
  \/ ReadMessage \/ ConnectionEnds \/ TakeCommand \/ CommandsClosed \/ Tick
  \/ SendAtOnce \/ Conflate \/ Gate
  \/ SendAggregate \/ AggregatesSent \/ FlushOne \/ FlushEnds \/ ForceFlushOne \/ Stop

-----------------------------------------------------------------------------
\* The application: one task that receives and sends commands, so it does not
\* receive while a full command channel makes it wait.

Receive ==
  /\ rxOpen /\ chan # <<>> /\ blocked = NoCommand
  /\ received' = Append(received, Head(chan))
  /\ chan' = Tail(chan)
  /\ UNCHANGED <<conflation, engine, rxOpen, cmdq, cmdOpen, survival, network, blocked, sent, history>>

\* KrakenClient::send_command is called, then gets a slot of the channel.
CallSend ==
  /\ cmdOpen /\ blocked = NoCommand
  /\ \E c \in ClientCommands :
       c \notin Range(sent) /\ sent' = Append(sent, c) /\ blocked' = c
  /\ UNCHANGED <<conflation, engine, channels, network, received, history>>

Enqueue ==
  /\ blocked # NoCommand /\ Len(cmdq) < CommandCapacity
  /\ cmdq' = Append(cmdq, blocked)
  /\ blocked' = NoCommand
  /\ UNCHANGED <<conflation, engine, chan, rxOpen, cmdOpen, survival, network, sent, received, history>>

\* The KrakenClient is dropped, and with it the only command sender.
DropClient ==
  /\ cmdOpen /\ blocked = NoCommand
  /\ cmdOpen' = FALSE
  /\ UNCHANGED <<conflation, engine, chan, rxOpen, cmdq, survival, network, application, history>>

\* The receiver that stream() handed out is dropped.
DropReceiver ==
  /\ rxOpen /\ blocked = NoCommand
  /\ rxOpen' = FALSE /\ chan' = <<>>
  /\ UNCHANGED <<conflation, engine, cmdq, cmdOpen, survival, network, application, history>>

-----------------------------------------------------------------------------
\* The server, the network and the governor.

\* Control messages and acknowledgements need no subscription.
ServerSends ==
  /\ link = "up" /\ Len(ws) < SocketCapacity /\ nextSeq <= MaxMessages
  /\ \E kind \in FeedKinds :
       /\ kind \in MarketKinds \cup PrivateKinds => Channel[kind] \in serverSubs
       /\ \E m \in MessagesOf(kind, nextSeq) : ws' = Append(ws, m)
  /\ nextSeq' = nextSeq + 1
  /\ UNCHANGED <<conflation, engine, channels, link, serverSubs, executed, application,
                 epoch, latest, wanted, losses>>

\* The connection is lost, with or without what waits in the socket; the engine
\* may see it at once or only later.
LinkLost ==
  /\ link = "up" /\ losses < MaxLosses
  /\ link' \in {"silent", "closed"}
  /\ ws' \in {ws, <<>>}
  /\ losses' = losses + 1
  /\ UNCHANGED <<conflation, engine, channels, serverSubs, executed, application,
                 nextSeq, epoch, latest, wanted>>

LossNoticed ==
  /\ link = "silent"
  /\ link' = "closed"
  /\ UNCHANGED <<conflation, engine, channels, ws, serverSubs, executed, application, history>>

\* Governor::is_survival, as the monitor task sets it (any time, any value).
GovernorSwitches ==
  /\ HasGovernor
  /\ survival' = ~survival
  /\ UNCHANGED <<conflation, engine, chan, rxOpen, cmdq, cmdOpen, network, application, history>>

\* The engine has returned and the application has read everything.
Terminated == pc = "stopped" /\ chan = <<>> /\ UNCHANGED vars

Environment ==
  \/ Receive \/ CallSend \/ Enqueue \/ DropClient \/ DropReceiver
  \/ ServerSends \/ LinkLost \/ LossNoticed \/ GovernorSwitches \/ Terminated

Next == Engine \/ Environment

Spec == Init /\ [][Next]_vars

-----------------------------------------------------------------------------
\* Fairness.  The runtime keeps polling the engine task, so a step it can take
\* is taken; the application keeps receiving and a send that has room ends; a
\* lost connection is noticed in the end; and a server that can be reached
\* again and again lets a connection attempt succeed.

FairSpec ==
  /\ Spec
  /\ WF_vars(Engine) /\ SF_vars(ConnectOk)
  /\ WF_vars(Receive) /\ WF_vars(Enqueue) /\ WF_vars(LossNoticed)

=============================================================================
