------------------------ MODULE ConnectionProperties ------------------------
(***************************************************************************)
(* What the engine task owes to the application, stated over the state of  *)
(* ConnectionManager.                                                      *)
(***************************************************************************)
EXTENDS ConnectionManager, FiniteSetsExt

\* Every variable has its type, and the bounded things stay within bounds.
TypeOK ==
  /\ ConflationTypeOK
  /\ pc \in {"connecting", "resubscribe", "select", "process", "gate", "aggregates", "drain",
             "forceAggregates", "forceDrain", "sleep", "stopped"}
  /\ cur \in Message
  /\ \A item \in draining : IsItem(item)
  /\ Len(chan) <= ChannelCapacity /\ Len(cmdq) <= CommandCapacity /\ Len(ws) <= SocketCapacity
  /\ link \in {"none", "up", "silent", "closed"}
  /\ rxOpen \in BOOLEAN /\ cmdOpen \in BOOLEAN /\ survival \in BOOLEAN
  /\ (link = "none") <=> pc \in {"connecting", "sleep", "stopped"}

\* The buffer's three views of its messages agree in every use the engine makes
\* of it, and its priority queue is never used: priority messages either go
\* straight to the channel or nowhere.
BufferConsistent == Consistent(buffer) /\ buffer.prio = <<>>

-----------------------------------------------------------------------------
\* Where a message can be.

\* Everything the application has received or will receive, in order, and the
\* messages in each item.
Items == received \o chan
Offered == [i \in DOMAIN Items |-> Items[i].msgs]

Buffered == Range(buffer.pending)

Aggregated == UNION {aggregates[s].msgs : s \in DOMAIN aggregates}

Draining == UNION {item.msgs : item \in draining}

\* What the engine holds, and what it has taken over and not lost.
Held == Buffered \cup Aggregated \cup Draining \cup ({cur} \ {NoMessage})

Kept == Held \cup UNION Range(Offered)

-----------------------------------------------------------------------------
\* Safety.

\* No message reaches the application twice, by whatever way it went through
\* the buffer, the aggregates, a flush that ran out of room or a reconnection;
\* and what is still held has not been offered yet.
DeliveredOnce ==
  /\ \A i, j \in DOMAIN Offered : i # j => Offered[i] \cap Offered[j] = {}
  /\ \A i \in DOMAIN Offered : Offered[i] \cap Held = {}
  /\ Buffered \cap (Aggregated \cup Draining) = {}

\* Private and control messages arrive in the order the server sent them, also
\* when the channel was full or the connection was replaced in between.
PriorityInOrder ==
  \A i, j \in DOMAIN Offered :
    i < j => \A m \in Offered[i], n \in Offered[j] :
               IsPriority(m) /\ IsPriority(n) => m.seq < n.seq

\* Conflation keeps the newest: as long as the application listens, the last
\* message of each key the engine read on this connection is waiting in the
\* buffer or has been offered, unless an overflow dropped it (then the key
\* leaves latest).  Once the engine has stopped it has been offered.  Trades are
\* left out: Yellow replaces them and Red aggregates them.
NewestKept ==
  rxOpen => \A k \in DOMAIN latest :
    \/ \E i \in DOMAIN Offered : latest[k] \in Offered[i]
    \/ pc # "stopped" /\ latest[k] \in Buffered

\* The message this step takes from the socket, whatever becomes of it.
Taken == IF pc = "select" /\ ws # <<>> /\ ws' = Tail(ws) /\ link' = link THEN {Head(ws)} ELSE {}

\* The complete list of the ways a message the engine reads can be lost while
\* the application listens: survival mode drops it unparsed; the connection is
\* replaced; the next message of its key takes its place, which costs a trade
\* only in Yellow; an overflow drops it; it is a priority message and the channel
\* is full; it is a trade message without a trade; or it is an aggregated trade,
\* the flush has begun and the channel is full.
LossContract ==
  [][\A m \in (Kept \cup Taken) \ Kept' :
       \/ ~rxOpen'
       \/ m \in Taken /\ survival /\ IsDroppable(m)
       \/ pc = "connecting"
       \/ pc = "process" /\ m \in Buffered /\ Key(m) \in Victims(cur)
       \/ /\ pc = "process" /\ m \in Buffered /\ Key(m) = Key(cur)
          /\ IsTrade(m) => state = "Yellow"
       \/ pc = "process" /\ m = cur /\ IsPriority(m) /\ Len(chan) = ChannelCapacity
       \/ pc = "process" /\ m = cur /\ IsTrade(m) /\ TradesOf(m) = <<>>
       \/ m \in Draining /\ Len(chan) = ChannelCapacity]_vars

QtyOf(m) == MapThenSumSet(LAMBDA i : TradesOf(m)[i].qty, DOMAIN TradesOf(m))
CountOf(m) == Len(TradesOf(m))
PricesOf(m) == {TradesOf(m)[i].price : i \in DOMAIN TradesOf(m)}

\* What was traded in the messages ms.
VolumeIn(ms) == MapThenSumSet(QtyOf, ms)
CountIn(ms) == MapThenSumSet(CountOf, ms)
PricesIn(ms) == UNION {PricesOf(m) : m \in ms}

\* Conflation does not change what was traded: in whatever form trades arrive,
\* single, batch or summary, merged in one Red period or across several, the
\* volume and the number of trades the application reads are those of the
\* messages they came from; a batch or summary also has their lowest and highest
\* price.  What is lost whole is LossContract's matter.
VolumePreserved ==
  \A i \in DOMAIN Items :
    (\A m \in Offered[i] : IsTrade(m)) =>
      /\ VolumeRead(Items[i]) = VolumeIn(Offered[i])
      /\ CountRead(Items[i]) = CountIn(Offered[i])
      /\ IsConflated(Items[i]) =>
           RangeRead(Items[i]) = <<Min(PricesIn(Offered[i])), Max(PricesIn(Offered[i]))>>

\* Nothing read on an earlier connection is offered after a reconnection: no
\* stale book delta follows a new snapshot.
NoStaleDelivery ==
  [][Len(chan') > Len(chan) => \A m \in chan'[Len(chan')].msgs : m.seq >= epoch]_vars

\* What the server owes the application: all it has subscribed and not taken
\* back, but for a private subscription whose token may have run out.
Owed == {a \in wanted : TokensExpire => a \notin PrivateKinds}

\* When the engine waits on a live connection, the server has every subscription
\* the application has made and not taken back, also after a reconnection that
\* failed half-way through the replay, a subscription whose write failed and a
\* private one that the server refused.
WantedSubscribed ==
  pc = "select" /\ link = "up" => Owed \subseteq serverSubs

\* The position of an order among the commands the application sent.
SentAs(id) == CHOOSE i \in DOMAIN sent : sent[i].op = "order" /\ sent[i].id = id

\* The server executes orders in the order they were placed and none of them
\* twice: a reconnection replays subscriptions, never orders.
OrdersInSequence ==
  \A i, j \in DOMAIN executed : i < j => SentAs(executed[i]) < SentAs(executed[j])

\* The engine keeps the promise that the client relies on: commands are taken in
\* order, it runs as long as the client exists, and when it ends after a dropped
\* client no command that was accepted is left behind (run, recv answering None).
Path == INSTANCE CommandPath WITH
  Command <- ClientCommands, Capacity <- CommandCapacity,
  queue <- cmdq, open <- cmdOpen, running <- pc # "stopped"

ImplementsPath == Path!PathSpec

-----------------------------------------------------------------------------
\* Liveness, under FairSpec.

\* A dropped client ends the engine, wherever it was: connecting, waiting to
\* reconnect, or in a forced flush that waits for the application to read.
ShutdownCompletes == ~cmdOpen ~> pc = "stopped"

\* A command waiting for a slot of the command channel gets one, although the
\* application does not receive meanwhile and the event channel may be full:
\* neither side waits for the other.
CommandAccepted == blocked # NoCommand ~> blocked = NoCommand

\* What is buffered does not stay buffered, however many keys wait: every flush
\* goes on where the one before it ran out of room.  Only an engine that ends
\* because both ends of its channels are gone leaves something behind.
BufferDrains == buffer.size > 0 ~> buffer.size = 0 \/ (pc = "stopped" /\ ~rxOpen)

-----------------------------------------------------------------------------
\* What the documentation says and the code does not do.

\* "must aggregate, never lose volume" (conflation/buffer.rs:19): aggregated
\* trades leave the aggregate in the end, as long as the application listens.
AggregatesFlushed ==
  DOMAIN aggregates # {} /\ rxOpen ~> DOMAIN aggregates = {} \/ ~rxOpen

\* "Channel full, extract the message and buffer it" (network/connection.rs:131):
\* a priority message the application could still receive is not lost.
PriorityNotLost ==
  [][pc = "process" /\ IsPriority(cur) /\ rxOpen' /\ pc' # pc => cur \in Kept']_vars

\* "the algorithm always preserves the most recent state" (README.md:106): of two
\* messages of one key, the newer one arrives last.
NewestLast ==
  \A i, j \in DOMAIN Offered :
    i < j => \A m \in Offered[i], n \in Offered[j] :
               Key(m) = Key(n) /\ ~IsTrade(m) /\ ~IsPriority(m) => m.seq < n.seq

\* "resubscribes to all previously active subscriptions" (README.md:332): only to
\* those still active.
OnlyWantedSubscribed == pc = "select" /\ link = "up" => serverSubs \subseteq wanted

=============================================================================
