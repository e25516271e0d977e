# Verification of the Kraken Forge SDK

TLA+ models, TLC runs and TLAPS proofs for the Rust SDK under `src/`. The subject
is the path of a message from Kraken's WebSocket to the application and of a
command back: the connection manager, the adaptive conflation engine with its
keyed buffer and trade aggregates, the client facade, the resource governor that
watches the machine, and the local order book with the loop that repairs it. Paths
below are relative to `src/`.

## 1. The system

| Component | Code | State | Operations |
|---|---|---|---|
| Keyed buffer | `src/conflation/buffer.rs` | `pending` map, `order` FIFO of keys, `priority_queue`, `current_size` | `insert`, `push_priority`, `pop`, `handle_overflow`, `clear` |
| Trade aggregation | `src/conflation/buffer.rs`, `rules.rs`, `src/model/conflated.rs` | one aggregate per symbol | `new`, `merge`, batch and summary, the accessors of `ConflatedMessage` |
| Conflation manager | `src/conflation/manager.rs`, `state.rs`, `rules.rs` | the buffer, `state`, `prev_state`, `trade_aggregates` | `update_state`, `process`, `try_flush`, `force_flush`, `clear` |
| Connection manager | `src/network/connection.rs` | `active_subscriptions`, the two channel ends, the socket | `run` (connect, replay, biased select, sleep), `send_with_conflation` |
| Client facade | `src/client.rs` | credentials and token, command sender, event receiver, governor | `connect*`, `login`, `add_order`, `cancel_order`, `subscribe_*`, `send_command`, `stream` |
| Resource governor | `src/governor/` | `mode` (atomic), metrics, hysteresis counters | monitor loop, `is_survival` |
| Local order book | `src/book/` | bids, asks, `max_depth` | `apply_snapshot`, `apply_updates`, `prune_to_depth`, checksum |
| Self-healing monitor | `examples/tui_monitor.rs` | per pair a book, the time of its snapshot, failures, `recovering`; one status | `handle_book_message`, `resubscribe_pair`, staleness check |
| Message model, authentication | `src/model/`, `src/auth.rs` | none that lasts | parsing; one signed REST call |
| Errors, crate root, other examples | `src/error.rs`, `src/lib.rs`, `examples/` | none that lasts | re-exports; demonstrations |

How they interact. `KrakenClient::connect` creates a command channel (32) and an
event channel (100) and spawns the engine task `ConnectionManager::run`. The
engine reads the socket; each text goes through `send_with_conflation`, which asks
the governor's flag, updates the pressure state from the fill of the event
channel, and either sends at once (`try_send`) or puts the message into the
conflation manager. Buffered messages leave by `try_flush` after a message that
was buffered, or on a 10 ms tick. Commands are written to the socket, and those
that contain `"subscribe"` are remembered and replayed after every reconnection.
The governor's monitor task and the application run concurrently with the engine;
they meet it only at the two channels and at one atomic flag. The monitor of
`tui_monitor.rs` is such an application: it applies book messages to a local book,
compares checksums, and unsubscribes and subscribes anew when they keep failing.

What is hard, and what makes each part correct:

* Keyed buffer (sequential). Three fields describe the same waiting messages and
  are updated in different places. Correct: they always agree; the limit holds;
  messages of one key leave in order; only an overflow at the limit loses the
  newest message of a key, and never the one being inserted.
* Trade aggregates. A trade may be merged in one Red period, flushed in another, as
  a batch or a summary. Correct: volume, count and price range survive every way.
* Conflation and connection managers (concurrent). Capacity is read, then used,
  while the application receives or goes away; a flush may run out of room; the
  link may fail noticed or unnoticed, also in the middle of a replay. Correct: no
  message twice; private messages in order; a message is lost only in listed ways;
  nothing of an old connection after a new one; subscriptions survive, orders are
  never repeated; the two bounded channels never deadlock; shutdown ends, with no
  accepted command left behind.
* Client. A login may fail, or be given up, between two private calls. Correct:
  credentials of one login stay together; tokens reach the engine in order, also
  when several sends wait at once; a dropped client ends its engine.
* Governor. Hysteresis over noisy samples. Correct: no switch before enough
  consecutive samples; de-escalation slower than escalation; the task ends.
* Order book and monitor. The feed between server and book is conflated, reordered
  and cut by reconnections. Correct: a book that missed nothing shows the server's
  best levels and raises no alarm; a recovery ends; no pair stays unsubscribed.

The full list of hazards, each at its line, is in `PROJECT.json`.

## 2. Modules

| Module | What it is |
|---|---|
| `Messages` | kinds of messages, what the parser reads of them, their key and classification |
| `BufferOps` | the buffer's methods as operators from one buffer record to the next |
| `KeyedBuffer` | the buffer driven by any caller: Insert, PushPriority, Pop, Clear; its properties |
| `BoundedMailbox` | abstract: a priority lane and a bounded queue with at most one message per key |
| `TradeAggregates` | aggregates, their merge, the batch and the summary made of them, what the application reads |
| `ConflationManager` | the manager's state and methods, over `BufferOps` and `TradeAggregates` |
| `ConnectionManager` | the engine task with application, server, network and governor around it |
| `ConnectionProperties` | its safety and liveness properties |
| `CommandPath` | abstract: the bounded command queue between a client and an engine that ends after it |
| `Client` | the facade, its credentials and its governor, over `CommandPath` |
| `Governor` | the monitor task: samples, hysteresis counters, mode, panic; its properties |
| `LocalBook` | the order book and its checksum as operators |
| `BookSync` | the monitor's network loop and recovery, with a server and the engine's effects on the feed |
| `DataInduction` | TLAPS: induction over the natural numbers, stated for sets; sums over finite sets |
| `BufferLemmas` | TLAPS: what each method of the buffer does to any good buffer |
| `KeyedBufferProofs` | TLAPS: the buffer's invariants and step properties; `KeyedBuffer` implements `BoundedMailbox` |
| `GovernorProofs` | TLAPS: type correctness, no late switch, no early switch |
| `ClientProofs` | TLAPS: the client's invariants |
| `ConnectionProofs` | TLAPS: commands: `ConnectionManager` implements `CommandPath`; subscriptions survive; orders stay in sequence |
| `DeliveryProofs` | TLAPS: messages: types, consistency, nothing twice, order, newest, nothing stale, the list of losses, the volume |
| `BookProofs` | TLAPS: the book and the monitor: types, books in sync, no false alarm, no pair left unsubscribed, a truthful status |
| `MCKeyedBuffer`, `MCConnection`, `MCClient`, `MCGovernor`, `MCBookSync` | instances for TLC |

How they compose. `BufferOps` is used by `KeyedBuffer` alone and by
`ConflationManager`, which `ConnectionManager` extends. `CommandPath` is a contract
with two sides: `ConnectionManager` is shown to implement it (the run
`connection_engine` and the theorem `EngineIsPath`), and `Client` is built on it, so
what is shown of the client does not depend on the engine's detail. `BookSync` uses
`LocalBook` and reduces the engine to what it can do to a feed.

Definitions named `Slip...` are deliberate mistakes, each next to the definition
it would replace. They are used nowhere; substituting one shows that the property
named in `PROJECT.json` notices it.

### Correspondence with the code

*Messages.* A message is a record of kind, symbol and a sequence number standing
for the payload. `Key` is `make_key`: channel and symbol. Two candle intervals and
the two kinds of book messages are different kinds on one channel, because the
code's key does not tell them apart.

*Buffer.* `pending`, `order`, `prio`, `size` are the struct's fields. The tail of
`insert` is `Put`, the overwrite arm `Overwrites` (which has the effect of `Put`
but comes before the limit check), the limit check `Overflows`. `handle_overflow`
is `HandleOverflow`; its arm for priority messages is there (`Rescued`) although no
waiting message is ever a priority message: that is a conjunct of `Consistent`, and
proved. `pop` skips keys without a message, as the code does; the proofs show there
are none.

*Trade aggregates.* `TradesOf` gives the trades of a message, possibly none (such a
message leaves nothing behind, and `LossContract` lists it). `MergeTrade` is `merge`;
`ItemOf` chooses batch or summary by the count, as `flush_trade_aggregates` does.
Prices and volumes are integers where the code has `f64`; sides and timestamps are
left out. `VolumeRead`, `CountRead`, `RangeRead` are the accessors of
`ConflatedMessage`. Its variants are untagged and tried in order, and an ordinary
trade message has the fields of a batch: it is read as a batch that is not marked
as conflated.

*Engine.* `pc` names the place the task has reached between two accesses to a
channel: `connecting`, `resubscribe`, `select`, `process` and `gate` (in
`send_with_conflation`, after the state update and before the flush), `aggregates`
and `drain` (in `try_flush`), `forceAggregates` and `forceDrain` (in
`force_flush`), `sleep`, `stopped`. The application's `Receive`, `DropReceiver`,
`CallSend`, `Enqueue`, `DropClient` interleave between any two of these steps. A
capacity read and the `try_send` that follows it in the flush loop are one step:
the engine is the only sender, so room that was seen stays, and the case of a
receiver dropped in between is the step's second disjunct. The biased select is
`ReadReady` and `CommandReady` in the guards.

*Channels.* The event channel is a sequence of items: a single message, a batch or a
summary. An item's `msgs` are the messages it was made of, which the text does not
say and the properties need. Dropping the receiver discards the queue and gives back
the capacity, as tokio does.

*Network.* `link` is `none`, `up`, `silent` (lost, not yet noticed: a write may
vanish or fail) or `closed` (reading ends). What waits in the socket when the link
is lost may still be read or be gone. The server sends market and private data only
for what is subscribed on this connection. A command that carries a token, which an
order and a private subscription do, may be refused if the run is long enough for the
token to run out (`TokensExpire`; the text is replayed as it was, `connection.rs:202`, and
a token is valid for 15 minutes, `auth.rs:16`).

*Client.* A method that awaits is two steps, the call and what ends it, and in between
the future may be dropped (`CancelLogin`, `CancelSend`). The methods that send
take `&self`: any number of sends may wait for the channel at once, and they end in any
order (`sending` counts them by command). `login` and `stream` take `&mut self`, and
dropping the client needs the whole of it: these meet no call that is under way
(`Exclusive`). The application around `ConnectionManager` is one task that sends one
command after the other and does not receive while one waits; several at once are in
`Client` alone. A token is the number of the login that gave it; the token of a private
command is read when the method is called. `holders` are the owners of the governor's `Arc`; a clone kept by
the application itself is left out. `orphans` counts the monitor tasks of attempts
whose URL was invalid: the governor is started before the URL is parsed.

*Governor.* A mode is the number the atomic stores. One round of `monitor_loop` is one
step `Sample`: nothing else writes the metrics, the counters or the mode, so the awaits
inside the round show nothing to anybody. The arms of the match in
`calculate_mode_with_hysteresis` are `Escalate`, `Deescalate` and `Confirm`. The sum
`hysteresis_threshold + 1` is a `u8`: at 255 it panics in a debug build (`Panic`, after
which the task is gone and the mode stays) and is zero in a release build
(`DeescalateAt`); `OverflowChecks` chooses. `recent` is history: the raw mode of the
last samples since the last switch, which the properties compare with the counters.

*Book.* A side of a book is a function from prices to quantities, as the `BTreeMap` is,
and a message's levels are such a function in which 0 takes a price away.
`ApplyUpdates` is the loop (`Merge`) and the truncation that ends it. The checksum is
taken to tell any two books apart over its best levels; in the code it is a CRC of
prices and quantities run together without their dots. A checksum the parser does not
find is 0, which is that of an empty book (`NoChecksum`).

*Monitor.* The loop and the UI share the state under one mutex, so handling one message
is one step; the two sends of `resubscribe_pair` happen after the lock is released and
are steps of their own, with the loop reading nothing in between. `GraceEnds` stands for
the three seconds after a snapshot. The order of the feed is kept per pair, since
messages of two pairs do not affect each other. The sends wait for a slot of the command
channel (`CommandSlots`, 32 in the code). `silenced` is history: whether the UI has
reported the network lost since the last book message. The answer to a subscribe names the
channel, so the monitor takes it for an update without levels and with checksum 0: it
counts as a failed update (`Ack`). The engine appears in `BookSync` as what
`ConnectionManager` shows it can do: it takes commands in order, replays all
subscriptions, replaces a waiting message of the same key, lets a message overtake a
waiting one, and loses an answer that meets a full channel.

*Left out.* Statistics and logging; ping and pong, which change no state;
`ConflationConfig.enabled` (always true); `enable_message_filtering` of the governor's
configuration, and the book depths it recommends (nothing reads either); `prune_to_depth`
of the book, which has no caller; the five seconds of the sleep and the ten milliseconds
of the tick (both are just "later").
`InitialSubscriptions` stands for subscriptions recorded before the run begins: the
run then starts at a reconnection.

## 3. Runs

| Run | Instance | What it shows |
|---|---|---|
| `keyed_buffer` | 2 symbols, tickers, trades and a private feed, limit 3, batch 2, 5 messages | `TypeOK`, `BufferConsistent`, `LanesInOrder`, `LatestKept`, `NoQueueJump`, `BoundedLoss`, `ImplementsMailbox` |
| `governor` | three bands of CPU and of memory, thresholds 0 to 3 and 255, debug build | `TypeOK`, `NoLateSwitch`, `NoEarlySwitch`, `Settles` |
| `connection_data` | ticker, trade, ownTrades; channel 2, buffer 2; tokens may run out; 5 messages, 1 lost connection | `TypeOK`, `BufferConsistent`, `DeliveredOnce`, `PriorityInOrder`, `NewestKept`, `VolumePreserved`, `NoStaleDelivery` |
| `connection_losses` | ticker, trade, openOrders of 2 symbols (interchangeable), governor switching; channel 2, buffer 2; 5 messages, the last trade message empty; one connection | `LossContract` |
| `connection_engine` | ticker and candles; a subscribe and two orders for two slots; event channel 1, buffer 2; 3 messages, 1 lost connection | `WantedSubscribed`, `OrdersInSequence`, `ImplementsPath`, `ShutdownCompletes`, `CommandAccepted`, `BufferDrains` |
| `client` | 2 keys, 2 logins, 2 failed attempts, 3 sends for 2 slots, in any number at once | `TypeOK`, `CredentialsTogether`, `TokensInOrder`, `DroppedClientEnds` |
| `book_sync` | 1 pair, two bids for one place, one ask; 3 failures; 4 changes, 2 upsets, 1 lost connection, 2 command slots | `TypeOK`, `InSync`, `Listening`, `NoFalseAlarm`, `StatusTruthful`, `RecoveryEnds` |
| `stranded_trades` | trades only | violated: `AggregatesFlushed` |
| `lost_priority` | data instance | violated: `PriorityNotLost` |
| `stale_last` | data instance | violated: `NewestLast` |
| `revived_channel` | ticker, subscribed and unsubscribed; 1 lost connection | violated: `OnlyWantedSubscribed` |
| `snapshot_conflated` | book instance without a lost connection | violated: `SnapshotArrives` |

Why the bounds are enough. A channel of two items has all three pressure states
(empty is Green, one item Yellow, two Red) and can be full; five messages reach Red
with a buffered and an aggregated message, leave it, and pass through the fast path
afterwards. Trade messages carry one or two trades and a batch holds at most two, so a
batch and a summary both occur. A buffer of two with two market keys overflows in Yellow,
where the limit is checked although the key is present. With limit 3 and batch 2 the
keyed buffer drops more than one message and keeps one. The engine run begins with a
recorded subscription, so its one lost connection can be lost during that one's replay,
and a second replay follows. Its event channel is kept at one item, so that everybody who can
wait for everybody does; with one item in the channel two keys wait in the buffer, and they
leave in two rounds. Two slots for a subscription and two orders: the orders can wait together,
so their order matters, and the third command waits for a slot while the event channel is
full. A subscription that is taken back is left to `revived_channel` and to the theorem.
The socket holds one message: the engine only looks at whether there is one.

`LossContract` has a clause for each kind of loss, and the run reaches all but one:
TLC refutes the property with any one of the others left out. Two symbols give a flush
whose first aggregate takes the last place of the channel and whose second is lost. The two
are model values under symmetry, which is sound there because the property is one of
safety and nothing orders symbols. The run has one connection, so it does not reach the
clause of the reconnection: that clause says only that what an old connection left is
cleared, which `NoStaleDelivery` is about in the data run, and the theorem covers it.

The governor's
history is one sample longer than the longest run a switch needs; a threshold of 255 is
in the instance for its overflow, and says nothing of runs of 255 samples, which the
proofs cover when escalating. In the client's instance the third send waits for a
slot, two private sends can wait together, and a second login can come between a send that has
ended and the next. Two bids for a top of one
level are the smallest book in which a level is pushed out and comes back, which is where
the server's deltas and the local truncation have to agree; three failures are the code's
own number, and four changes reach them without the help of an answer (one that is lost, three
that then fail), with an upset left for the recovery's snapshot. Two command slots let the
connection be lost while a recovery's unsubscribe and subscribe both wait; that a send waits
for a slot is left to the theorems, which hold for any number of slots.

What the violated runs show, each a disagreement of the code with its own documents:

* trades aggregated in Red are never flushed if the feed goes quiet (`manager.rs:176`,
  against `buffer.rs:19`);
* a private message that meets a full channel is discarded (`connection.rs:134`, against the
  comments at 131 and 133);
* a buffered ticker is delivered after a newer one (`connection.rs:128`, against `README.md:106`);
* an unsubscribed channel is revived by a reconnection (`connection.rs:253`, against
  `README.md:332`);
* a book update takes the place of a waiting snapshot, and a recovery that waits for it never
  ends (`buffer.rs:310`, against `README.md:457`).

Seen while modelling, in the model as the code has it, and without a run of their own:

* in Yellow a trade that waits is replaced by the next one of its symbol (`buffer.rs:285`,
  against `README.md:106` and `README.md:456`). `LossContract` names this loss, and that it
  needs Yellow;
* in Survival the orders feed is dropped with the heartbeats, because an order has a field
  named status (`connection.rs:164`, against `README.md:334`). `LossContract` names it too;
* a private subscription is replayed with the token it was made with, and refused once that has
  run out (`connection.rs:202` and `auth.rs:16`, against `README.md:332`).
  `WantedSubscribed` therefore leaves private subscriptions out when tokens run out;
* any message makes the monitor's status `Healthy` after `NetworkLost`, also while a pair
  recovers (`tui_monitor.rs:372`, against `tui_monitor.rs:229`). `StatusTruthful` says that a
  recovery is hidden in no other way;
* the answers to subscriptions count as failed updates, and three of them give up an intact
  book (`tui_monitor.rs:354`, against `README.md:23`). `NoFalseAlarm` says that an intact book
  fails nothing else;
* the governor's task holds an `Arc` of the governor it watches and never ends
  (`governor/mod.rs:89`, against the comment at 82). `DroppedClientEnds` says that all else
  is let go;
* a dropped receiver does not stop the engine, since the `break` at `connection.rs:222` leaves
  only the inner loop, where a comment says it does.

So `LossContract` is the list of every way in which a message that the engine takes from the
socket can be lost while the application listens, those that the documents exclude included;
that the list is complete is what the run and the theorem show. `RecoveryEnds` says that a
recovery ends unless its snapshot was lost.

What some properties do not say. `VolumePreserved` is about what is delivered: an aggregate
that is lost whole, because the channel is full after the flush has begun, is
`LossContract`'s matter. `ImplementsMailbox` takes the replacement of a waiting trade for
granted, which the comment of `insert` does not promise (`buffer.rs:244`). Nothing is claimed
of de-escalation at threshold 255, nor that each level of pressure needs a run of samples of
its own: one sample of Survival after one of Balanced may complete the count.

### Fairness

`ConnectionManager!FairSpec` assumes weak fairness of the engine as a whole (the runtime
polls its task), of `Receive` and `Enqueue` (the application keeps receiving, a send that
has room ends), of `LossNoticed` (TCP reports a dead link in the end), and strong fairness
of `ConnectOk` (attempts recur every five seconds; a reachable server lets one
succeed). Nothing is assumed of the server, of `LinkLost`, or of the application's
will to drop or send. The number of messages is bounded, so the feed pauses in the
end: under an endless feed that is always ready the biased select would never reach
commands, tick or shutdown, and the liveness properties are not claimed for that. Nor are
they for a server that can never be reached, or for an application that keeps its
receiver and has stopped receiving: the forced flush of a shutdown waits for it for ever.

`Client!FairSpec` assumes weak fairness of `EngineTakes` and `EngineEnds`, which is what
the run `connection_engine` shows of the engine (`CommandAccepted`, `ShutdownCompletes`). Nothing is assumed of logins, of sends that wait or of the application.

`BookSync!FairSpec` assumes weak fairness of the loop (`ReadsBook`, `SendUnsubscribe`,
`SendSubscribe`), of `EngineTakesCommand`, and of `Reconnect` (a server that can be
reached). Time is not made to pass: nothing is assumed of `GraceEnds`. The upsets are
bounded, so an engine that replaced every snapshot for ever is outside the run; the one
snapshot that matters may still be replaced.

The governor's `FairSpec` assumes weak fairness of `Sample`: the interval timer fires for
as long as the task lives. `tick`, the parity of its ticks, is part of the state, so that
a sample that changes nothing else is a step and fairness does not make samples vary.
Nothing is assumed of the samples; `Settles` speaks of the behaviours in which they settle.

## 4. Proofs

The theorems hold for every value of the constants that the named assumptions allow:
any feed, any sizes, any number of messages, losses and commands. An argument below names
the inductive invariant and says why it is needed. Two modules serve all the others:
`DataInduction` states induction over the natural numbers for sets, because a theorem about
an arbitrary predicate cannot be used, and derives from it that a sum over a finite set does
not depend on the order; `BufferLemmas` is described first.

**Keyed buffer** (`BufferLemmas`, `KeyedBufferProofs`), for every set of symbols, limit,
overflow batch and sequence of calls. Assumptions: `BufferAssumption` (the batch is between
one and the limit, as 1000 of 10000 is) and `FeedAssumption`.

* The lemmas `EmptyGood`, `PushPriorityGood`, `OverflowGood`, `PutGood`, `InsertGood`,
  `PopGood` say that each method takes a good buffer to a good buffer, and what it
  returns. They are about operators, so the proofs of the engine use them too.
* `TypeCorrect`, `AlwaysConsistent`: `Spec => []TypeOK` and `Spec => []BufferConsistent`.
  The inductive invariant is their conjunction: consistency needs the types (sequence
  reasoning), and the type of the next buffer needs consistency (pop applies the map
  to the head of the FIFO, the counter never wraps).
* `NewestNeverLost`: `Spec => []LatestKept`, inductive together with the above. The
  lemma `InsertKeeps` is the heart: every key that was waiting and is not waiting after
  an insert has been dropped by the overflow, and the inserted message waits.
* `LanesKeepOrder`: `Spec => []LanesInOrder`. `Rising` strengthens it: what waits is newer
  than all of its lane that has left, and the priority queue is in order.
* `KeysKeepTheirTurn`: `Spec => NoQueueJump`: the set of keys ahead of a waiting key only
  shrinks, unless its own insert has dropped it.
* `CallsLoseAtMostABatch`: `Spec => BoundedLoss`. It speaks of the messages of both
  queues together: each one that a call takes away is the one it returns, the one its
  insert replaces, or one of the oldest batch at the limit (`NextCosts`); only clear
  gives up a priority message.
* `BufferIsMailbox`: `Spec => ImplementsMailbox`. The mailbox's lane of priority messages is
  `prio`, its queue is the sequence `order` with each key replaced by the message that waits
  under it. `QueueType`, `QueueOverflow`, `QueuePut` and `QueuePop` say what each method does
  to that sequence; `NextMailbox` maps each call to a step of the mailbox or to none.

**Connection manager, commands** (`ConnectionProofs`). Assumption: `ConnectionAssumption`
(what is recorded at the start are subscriptions, capacities are positive, two different
orders have different ids, and what is parsed from a trade message are trades).

* `EngineIsPath`: `Spec => ImplementsPath`, the refinement of `CommandPath` by the engine.
  Most steps leave command queue, sender and end alone; `TakeCommand`, `Enqueue`,
  `DropClient` and `Stop` map to `Take`, `Accept`, `Close` and `End`. The last needs the
  invariant `Ending`: a forced flush and the end are reached only when the client is gone
  and its commands are taken.
* `SubscriptionsSurvive`: `Spec => []WantedSubscribed`. The property speaks of the engine
  waiting on a live connection, so the invariant `Recorded` has to carry it through the
  rest: what is wanted is recorded, and during a replay each such channel is subscribed
  already or still to be replayed; private ones are left out if tokens may run out
  (`Owed`). It holds because a subscription is recorded before it is written, and a
  reconnection replays from the beginning whatever became of the last replay.
* `OrdersStayInSequence`: `Spec => []OrdersInSequence`. `Sequenced` says that what waits in
  the queue was sent in the queue's order, before the command that waits for a slot and
  after every executed order (`Before`). No replay adds an order, because only
  subscriptions are recorded: that is a conjunct of `Recorded`.

**Connection manager, messages** (`DeliveryProofs`). Assumptions: those of the buffer
and of the connection manager, `BatchAssumption` and `CapacityAssumption`.

* `TypeCorrect`, `BufferAlwaysConsistent`: `Spec => []TypeOK` and `Spec => []BufferConsistent`,
  from the invariant `Sound`: where the engine is and what goes with it (`Control`), what
  the buffer, the aggregates, the flush and the channel hold (`Stores`), and the two
  invariants about commands. The lemma `StepKinds` sorts the steps by what they do to the
  stores, `Effects` by where they move messages, so that the later invariants have a few
  cases instead of one for each action.
* `NothingTwice`, `PriorityStaysInOrder`, `NothingStale`: `Spec => []DeliveredOnce`,
  `Spec => []PriorityInOrder`, `Spec => NoStaleDelivery`. The invariant `Delivery` adds to
  `Sound` that messages come in order and on this connection (`Timely`), that whatever is
  stored or offered was read before all that is still to be read (`Known`), that what is
  stored belongs to this connection (`Fresh`), and that no two places share a message
  (`Once`). `Known` is why a message read now cannot be one that is already somewhere, and
  `Fresh` holds because a new connection starts with a cleared conflation manager
  (`ConnectOk`).
* `NewestReaches`: `Spec => []NewestKept`. Not inductive alone: a message that passes in Green
  is never buffered, so it must find room. `Newest` says it does: the state was computed
  from the fill of the channel, and only the engine fills it.
* `OnlyTheseLosses`: `Spec => LossContract`. `ConflateLoses` and `Losses` go through the steps
  and name, for each message that was kept, or is taken from the socket, and is not kept
  after the step, the clause that allows it.
* `VolumeSurvives`: `Spec => []VolumePreserved`, for any trades in the messages. `Tallied` says
  that each aggregate is `Exact`, that is, it lists as many trades as it counts, with the
  volume it has added up, and volume, count and price range are those of its messages
  together; and that each item of a flush or of the channel tells as much (`Tells`). An
  aggregate stays exact because the message merged into it was not in it before, which is
  again `Known`. `MergeTradesWhole` is the induction over the trades of a message, `SumQtyIs`
  and `QtyIs` tie the fold over a sequence to the sum over its indices, and `SumsOfMore` adds
  one message to a set.

**Book and monitor** (`BookProofs`). Assumptions: `BookSyncAssumption` (finitely many pairs
and prices) and `DepthAssumption`.

* `BookTypes`: `Spec => []TypeOK`, in particular that a book is never deeper than its limit,
  whatever updates arrive in whatever order (`TruncateKeeps`, `ApplyUpdatesKeeps`).
* `KeepsListening`: `Spec => []Listening`. The invariant `Repeated` is about commands under way:
  after every unsubscribe that waits comes a subscribe of the same pair, and so for
  each recorded pair that the server does not have.
* `StatusIsTruthful`: `Spec => []StatusTruthful`. `Shown` adds that a lost network which is
  still reported has been reported since the last book message (`silenced`).
* `BooksStayInSync` and `FailuresAreAnswers`: `Spec => []InSync` and `Spec => NoFalseAlarm` under
  the hypothesis `DepthsAgree`: the depth of the book, of the subscription and of the checksum
  are equal. In the code they are the constant of `orderbook.rs:6`, that of
  `tui_monitor.rs:31` and the literal of `checksum.rs:8`, all of them ten. The hypothesis is
  needed: TLC refutes `InSync` for the depths (book, feed, checksum) = (2,1,1), (1,2,1)
  and (1,2,2).
* The heart is `DeltaFits`: a delta of the server names the levels that enter its best ones
  and the levels taken away, and not those that are pushed out; the local truncation must
  drop exactly these. It follows from `BestOfPart`: the best levels of a part of the prices
  that holds all the best are those of the whole. `DeltaFits` gives `Chain`: each waiting
  update leads from the book its predecessor's checksum is of to the one its own is of, and an
  intact book stands at the start of the rest.
* `Chain` alone is not inductive. An answer to a subscribe counts as a failed update, and
  enough of them clear the book. `Current` says that this does not happen to an intact one:
  since the snapshot of the standing subscription there are only updates, no answers, and a
  book that has that snapshot does not recover.

**Client** (`ClientProofs`), for any keys, logins, commands and capacity. Assumption:
`ClientAssumption`.

* `TypeCorrect`, `OneLogin`, `TokensSentInOrder`: `TypeOK`, `CredentialsTogether` and
  `TokensInOrder`.
* `TokensInOrder` is not inductive: a command carries the token of the moment it was
  called, and is accepted later. `TokensRise` says that what waits to be sent carries the
  client's own token and that nothing was sent with a newer one; it holds because `login`
  borrows the client exclusively, so no login ends between the call and the send
  (`CallsBelong`).

**Governor** (`GovernorProofs`), for every threshold, samples, limits and both kinds of
build. Assumption: `GovernorAssumption`; the history holds at least one sample more
than the threshold, unless that is 255.

* `TypeCorrect`, `NeverLate`, `NeverEarly`: `Spec => []TypeOK`, `Spec => []NoLateSwitch`,
  `Spec => NoEarlySwitch`.
* The inductive invariant adds to the type what ties counters to history:
  `CountersTell`, that the last `high` samples were above the mode and the one before
  was not (likewise `low`), and `NothingCounted`, that at a threshold of 255 nothing is
  ever counted on the low side. `NoEarlySwitch` alone is not inductive: the step
  that switches sees a number, and only the invariant says what it counted.
* At 255 de-escalation is outside `NoEarlySwitch` and `NoLateSwitch`, because there the
  release build relaxes at the first sample and the debug build panics.

Only model-checked: all liveness (`Settles`, `ShutdownCompletes`,
`CommandAccepted`, `BufferDrains`, `DroppedClientEnds`, `RecoveryEnds`), since the prover does
not reason about fairness. The violated runs are
counterexamples, and not theorems.

## 5. Not modelled

* `src/error.rs`, `src/lib.rs`: types and re-exports.
* `auth.rs`: nonce, hash and signature; the REST call is its three outcomes.
* The field layout of the messages, and deserialisation beyond what decides where a
  message goes.
* `governor/config.rs`: the choice of limits for the machine; they are constants of
  `Governor`.
* In `tui_monitor.rs` drawing, keys, metrics and the frozen view: nothing else depends on
  them. The frozen copy stays when the view moves to another pair.
* The other examples make the same calls in a straight line: `book_test.rs` and
  `full_app.rs` apply the book as `BookSync` does and do not recover; the chart server and
  viewer show what they receive.

## 6. Plan

1. Done: keyed buffer and mailbox; trade aggregates, conflation and connection manager;
   command path and client; governor; book and monitor.
2. Done: every safety invariant and step property the runs check, and both refinements, as
   theorems.
3. Open, worth a theorem: that the engine as `BookSync` sees it is an abstraction of
   `ConnectionManager` (so far only argued in section 2); that the link of `Client` to the
   engine is `CommandPath`, composed from `ConnectionProofs`.
4. Open, worth a run: `RecoveryEnds` with two pairs, which one recovery may keep waiting
   for the other; the theorems about `BookSync` already hold for any number of pairs.
