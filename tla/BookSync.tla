------------------------------ MODULE BookSync ------------------------------
(***************************************************************************)
(* The self-healing order book of examples/tui_monitor.rs: one network     *)
(* loop follows the book feed of every pair, compares checksums, and after *)
(* three failures in a row clears the book and subscribes anew.  Around it *)
(* are the server, which publishes a snapshot on subscription and then     *)
(* the changes of its best levels, and the engine, reduced to what it does *)
(* to the feed (ConnectionManager has the detail): it takes commands in    *)
(* order, replays subscriptions after a lost connection, replaces waiting  *)
(* messages and lets some overtake others.                                 *)
(*                                                                         *)
(* The loop and the UI share the state under one mutex, so what the loop   *)
(* does to one message is one step.  Messages of two pairs do not affect   *)
(* each other: the feed is a queue per pair.                               *)
(***************************************************************************)
EXTENDS LocalBook, SequencesExt

CONSTANTS
  Pairs,        \* TRADING_PAIRS
  BidPrices,    \* prices at which the server may have bids
  AskPrices,    \* and asks
  MaxQuantity,  \* bound: quantities at one price
  FeedDepth,    \* DEFAULT_ORDERBOOK_DEPTH, the depth subscribed to
  MaxFailures,  \* MAX_CHECKSUM_FAILURES
  CommandSlots, \* size of the command channel
  FeedCapacity, \* bound: messages of a pair on their way
  MaxChanges,   \* bound: changes of the server's books
  MaxUpsets,    \* bound: messages the engine replaces, loses or reorders
  MaxLosses     \* bound: connections lost

ASSUME BookSyncAssumption ==
  /\ IsFiniteSet(Pairs) /\ IsFiniteSet(BidPrices) /\ IsFiniteSet(AskPrices)
  /\ BidPrices \subseteq Nat /\ AskPrices \subseteq Nat
  /\ MaxQuantity \in Nat \ {0} /\ FeedDepth \in Nat \ {0} /\ MaxFailures \in Nat \ {0}
  /\ CommandSlots \in Nat \ {0} /\ Cardinality(Pairs) <= CommandSlots
  /\ FeedCapacity \in Nat /\ MaxChanges \in Nat /\ MaxUpsets \in Nat /\ MaxLosses \in Nat

VARIABLES
  market,    \* the server's book of each pair
  subs,      \* the pairs subscribed on this connection
  sent,      \* per pair, how many book messages the server has sent
  connected, \* the connection is up
  feed,      \* per pair, the messages on their way to the loop
  cmds,      \* the command channel
  active,    \* the pairs among the engine's recorded subscriptions
  books,     \* AppState.books: a BookState per pair
  loop,      \* where the network loop is, and for which pair
  status,    \* AppState.status
  intact,    \* history: the last book message applied if none was missed
             \* since a snapshot, else Broken
  orphaned,  \* history: a snapshot was lost and none has come since
  silenced,  \* history: the network was reported lost since the last book message
  changes, upsets, losses

server == <<market, subs, sent>>
engine == <<connected, feed, cmds, active>>
monitor == <<books, loop, status>>
history == <<intact, orphaned, silenced>>
vars == <<server, engine, monitor, history, changes, upsets, losses>>

Broken == -1

\* BookState::new.  lastSnapshot is the age of last_snapshot: none yet, under
\* three seconds, or older.
NewBookState ==
  [book |-> NewBook, lastSnapshot |-> "none", failures |-> 0, recovering |-> FALSE]

\* in_grace_period.
InGrace(bs) == bs.lastSnapshot # "old"

Reading == [at |-> "reading"]
At(place, p) == [at |-> place, pair |-> p]

Command(op, p) == [op |-> op, pair |-> p]

-----------------------------------------------------------------------------
\* The server.

Top(m, side) == Truncate(m[side], FeedDepth, side)

\* What the server publishes of a side that went from old to new: the levels
\* of the new top that differ, and the levels of the old top that are gone.  A
\* level pushed out of the top by a better one is not mentioned.
Delta(old, new, side) ==
  LET a == Top(old, side)
      b == Top(new, side)
      entered == {p \in DOMAIN b : p \notin DOMAIN a \/ a[p] # b[p]}
      removed == DOMAIN a \ DOMAIN new[side]
  IN  [p \in entered \cup removed |-> IF p \in entered THEN b[p] ELSE 0]

\* The checksum the server sends: that of its own best levels.
TopChecksum(m) == Checksum([bids |-> Top(m, "bids"), asks |-> Top(m, "asks")])

Snapshot(m, no) ==
  [type |-> "snapshot", no |-> no, bids |-> Top(m, "bids"), asks |-> Top(m, "asks"),
   checksum |-> TopChecksum(m)]

Update(old, new, no) ==
  [type |-> "update", no |-> no, bids |-> Delta(old, new, "bids"),
   asks |-> Delta(old, new, "asks"), checksum |-> TopChecksum(new)]

\* The answer to a subscribe or unsubscribe.  It names the channel "book" and
\* the symbol, so manually_parse_book_message makes a book message of it: no
\* type, no levels, and 0 for the checksum it does not find.
Ack == [type |-> "none", no |-> 0, bids |-> NoLevels, asks |-> NoLevels, checksum |-> NoChecksum]

IsBook(m) == m.type \in {"snapshot", "update"}

-----------------------------------------------------------------------------

\* build_subscription_command and subscribe_to_channels: the commands the loop
\* sends before it reads.
Subscribed(p) == Command("subscribe", p)

Init ==
  /\ market \in [Pairs -> {[bids |-> [p \in BidPrices |-> 1], asks |-> [p \in AskPrices |-> 1]]}]
  /\ subs = {} /\ sent = [p \in Pairs |-> 0]
  /\ connected = TRUE
  /\ feed = [p \in Pairs |-> <<>>]
  /\ cmds \in {[i \in DOMAIN s |-> Subscribed(s[i])] : s \in {SetToSeq(Pairs)}}
  /\ active = {}
  /\ books = [p \in Pairs |-> NewBookState]
  /\ loop = Reading /\ status = "Healthy"
  /\ intact = [p \in Pairs |-> Broken] /\ orphaned = [p \in Pairs |-> FALSE]
  /\ silenced = FALSE
  /\ changes = 0 /\ upsets = 0 /\ losses = 0

\* Somebody trades or quotes at one price.
MarketMoves(p) ==
  /\ changes < MaxChanges
  /\ \E side \in Sides, qty \in 0 .. MaxQuantity :
     \E price \in IF side = "bids" THEN BidPrices ELSE AskPrices :
       LET new == [market[p] EXCEPT ![side] = Merge(@, [x \in {price} |-> qty])]
           m   == Update(market[p], new, sent[p] + 1)
       IN  /\ new # market[p]
           /\ market' = [market EXCEPT ![p] = new]
           /\ \/ /\ p \in subs /\ DOMAIN m.bids \cup DOMAIN m.asks # {}
                 /\ Len(feed[p]) < FeedCapacity
                 /\ feed' = [feed EXCEPT ![p] = Append(@, m)]
                 /\ sent' = [sent EXCEPT ![p] = @ + 1]
              \/ /\ p \notin subs \/ DOMAIN m.bids \cup DOMAIN m.asks = {}
                 /\ UNCHANGED <<feed, sent>>
  /\ changes' = changes + 1
  /\ UNCHANGED <<subs, connected, cmds, active, monitor, history, upsets, losses>>

-----------------------------------------------------------------------------
\* The engine and the connection.

\* The next command is written; the server answers a subscribe it did not
\* expect with an error, which names no channel.
EngineTakesCommand ==
  /\ connected /\ cmds # <<>>
  /\ LET c == Head(cmds) p == c.pair IN
     \/ /\ c.op = "subscribe" /\ p \notin subs
        /\ feed' = [feed EXCEPT ![p] = @ \o <<Ack, Snapshot(market[p], sent[p] + 1)>>]
        /\ sent' = [sent EXCEPT ![p] = @ + 1]
        /\ subs' = subs \cup {p} /\ active' = active \cup {p}
     \/ /\ c.op = "subscribe" /\ p \in subs
        /\ active' = active \cup {p}
        /\ UNCHANGED <<feed, sent, subs>>
     \/ /\ c.op = "unsubscribe"
        /\ feed' = IF p \in subs THEN [feed EXCEPT ![p] = Append(@, Ack)] ELSE feed
        /\ subs' = subs \ {p}
        /\ UNCHANGED <<sent, active>>
  /\ cmds' = Tail(cmds)
  /\ UNCHANGED <<market, connected, monitor, history, changes, upsets, losses>>

\* The connection is lost with all that has not reached the event channel.
ConnectionLost ==
  /\ connected /\ losses < MaxLosses
  /\ connected' = FALSE /\ subs' = {}
  /\ \E n \in [Pairs -> 0 .. FeedCapacity + 4] :
       /\ \A p \in Pairs : n[p] <= Len(feed[p])
       /\ feed' = [p \in Pairs |-> SubSeq(feed[p], 1, n[p])]
  /\ losses' = losses + 1
  /\ UNCHANGED <<market, sent, cmds, active, monitor, history, changes, upsets>>

\* The engine reconnects and replays its subscriptions.
Reconnect ==
  /\ ~connected
  /\ connected' = TRUE /\ subs' = active
  /\ feed' = [p \in Pairs |->
                IF p \in active THEN feed[p] \o <<Ack, Snapshot(market[p], sent[p] + 1)>>
                ELSE feed[p]]
  /\ sent' = [p \in Pairs |-> IF p \in active THEN sent[p] + 1 ELSE sent[p]]
  /\ UNCHANGED <<market, cmds, active, monitor, history, changes, upsets, losses>>

\* A waiting book message is replaced by a later one, of whatever type: both
\* have the key of channel and symbol.
EngineReplaces(p) ==
  /\ upsets < MaxUpsets
  /\ \E i, j \in DOMAIN feed[p] :
       /\ i < j /\ IsBook(feed[p][i]) /\ IsBook(feed[p][j])
       /\ feed' = [feed EXCEPT ![p] = RemoveAt(@, i)]
       /\ orphaned' = [orphaned EXCEPT ![p] = @ \/ feed[p][i].type = "snapshot"]
  /\ upsets' = upsets + 1
  /\ UNCHANGED <<server, connected, cmds, active, monitor, intact, silenced, changes, losses>>

\* A message that meets an empty channel, or an answer, overtakes a book
\* message that waits in the buffer.
EngineReorders(p) ==
  /\ upsets < MaxUpsets
  /\ \E i \in 1 .. Len(feed[p]) - 1 :
       /\ IsBook(feed[p][i])
       /\ IsBook(feed[p][i+1]) => feed[p][i].no < feed[p][i+1].no
       /\ feed' = [feed EXCEPT ![p] = [@ EXCEPT ![i] = feed[p][i+1], ![i+1] = feed[p][i]]]
  /\ upsets' = upsets + 1
  /\ UNCHANGED <<server, connected, cmds, active, monitor, history, changes, losses>>

\* An answer meets a full channel.
EngineLosesAck(p) ==
  /\ upsets < MaxUpsets
  /\ \E i \in DOMAIN feed[p] :
       ~IsBook(feed[p][i]) /\ feed' = [feed EXCEPT ![p] = RemoveAt(@, i)]
  /\ upsets' = upsets + 1
  /\ UNCHANGED <<server, connected, cmds, active, monitor, history, changes, losses>>

-----------------------------------------------------------------------------
\* The network loop: one message.

\* Slip: a snapshot does not end the recovery.
SlipKeepRecovering(bs, m) ==
  [bs EXCEPT !.book = ApplySnapshot(@, m.bids, m.asks), !.lastSnapshot = "recent", !.failures = 0]

AfterSnapshot(bs, m) ==
  [book |-> ApplySnapshot(bs.book, m.bids, m.asks), lastSnapshot |-> "recent",
   failures |-> 0, recovering |-> FALSE]

\* Updates are always applied; the checksum is looked at outside the grace
\* period and outside a recovery; the last failure clears the book.
AfterUpdate(bs, m) ==
  LET book == ApplyDelta(bs.book, m.bids, m.asks) IN
  CASE InGrace(bs) \/ bs.recovering        -> [bs EXCEPT !.book = book]
    [] ~InGrace(bs) /\ ~bs.recovering /\ ValidateChecksum(book, m.checksum)
                                           -> [bs EXCEPT !.book = book, !.failures = 0]
    [] OTHER                               ->
         IF bs.failures + 1 < MaxFailures
           THEN [bs EXCEPT !.book = book, !.failures = @ + 1]
           ELSE [bs EXCEPT !.book = NewBook, !.failures = @ + 1, !.recovering = TRUE]

\* handle_book_message on one pair's state.
Handled(bs, m) == IF m.type = "snapshot" THEN AfterSnapshot(bs, m) ELSE AfterUpdate(bs, m)

AnyRecovering(bss) == \E p \in Pairs : bss[p].recovering

\* Slip: the status is computed before the message is applied.
SlipStatusBefore(bss) == IF AnyRecovering(books) THEN "Recovering" ELSE "Healthy"

\* calculate_status.
CalculateStatus(bss) == IF AnyRecovering(bss) THEN "Recovering" ELSE "Healthy"

\* History: what this message does to the chain of messages since a snapshot.
Chained(p, m) ==
  intact' = [intact EXCEPT ![p] =
    CASE m.type = "snapshot"  -> m.no
      [] m.type = "update"    -> IF @ # Broken /\ m.no = @ + 1 THEN m.no ELSE Broken
      [] OTHER                -> @]

ReadBook(p) ==
  /\ loop = Reading /\ feed[p] # <<>>
  /\ LET m == Head(feed[p]) IN
     /\ books' = [books EXCEPT ![p] = Handled(@, m)]
     /\ status' = CalculateStatus(books')
     /\ loop' = IF books'[p].recovering /\ ~books[p].recovering
                  THEN At("unsubscribe", p) ELSE Reading
     /\ Chained(p, m)
     /\ orphaned' = IF m.type = "snapshot" THEN [orphaned EXCEPT ![p] = FALSE] ELSE orphaned
     /\ silenced' = FALSE
  /\ feed' = [feed EXCEPT ![p] = Tail(@)]
  /\ UNCHANGED <<server, connected, cmds, active, changes, upsets, losses>>

\* Any other message the parser understands: a trade, a candle, a heartbeat.  It
\* ends a reported loss without looking at the books.
ReadOther ==
  /\ loop = Reading /\ connected
  /\ status' = IF status = "NetworkLost" THEN "Healthy" ELSE status
  /\ UNCHANGED <<server, engine, books, loop, history, changes, upsets, losses>>

\* resubscribe_pair, after the lock is released: unsubscribe, wait a moment,
\* subscribe.  Each waits for a slot of the command channel, and the loop reads
\* nothing meanwhile.
SendUnsubscribe ==
  /\ loop.at = "unsubscribe" /\ Len(cmds) < CommandSlots
  /\ cmds' = Append(cmds, Command("unsubscribe", loop.pair))
  /\ loop' = At("subscribe", loop.pair)
  /\ UNCHANGED <<server, connected, feed, active, books, status, history, changes, upsets, losses>>

\* Slip: on a lost connection the subscription is left to the replay.
SlipLeaveToReplay ==
  /\ loop.at = "subscribe" /\ Len(cmds) < CommandSlots
  /\ cmds' = IF connected THEN Append(cmds, Subscribed(loop.pair)) ELSE cmds
  /\ loop' = Reading
  /\ UNCHANGED <<server, connected, feed, active, books, status, history, changes, upsets, losses>>

SendSubscribe ==
  /\ loop.at = "subscribe" /\ Len(cmds) < CommandSlots
  /\ cmds' = Append(cmds, Subscribed(loop.pair))
  /\ loop' = Reading
  /\ UNCHANGED <<server, connected, feed, active, books, status, history, changes, upsets, losses>>

-----------------------------------------------------------------------------
\* Time and the UI loop.

GraceEnds(p) ==
  /\ books[p].lastSnapshot = "recent"
  /\ books' = [books EXCEPT ![p].lastSnapshot = "old"]
  /\ UNCHANGED <<server, engine, loop, status, history, changes, upsets, losses>>

\* run_ui_loop's check for stale data: five seconds have passed since the last
\* message, whether or not one is on its way.
UiNoticesSilence ==
  /\ status # "NetworkLost"
  /\ status' = "NetworkLost"
  /\ silenced' = TRUE
  /\ UNCHANGED <<server, engine, books, loop, intact, orphaned, changes, upsets, losses>>

-----------------------------------------------------------------------------

ReadsBook == \E p \in Pairs : ReadBook(p)

Next ==
  \/ ReadsBook \/ ReadOther \/ SendUnsubscribe \/ SendSubscribe
  \/ EngineTakesCommand \/ ConnectionLost \/ Reconnect
  \/ UiNoticesSilence
  \/ \E p \in Pairs :
       \/ MarketMoves(p) \/ GraceEnds(p)
       \/ EngineReplaces(p) \/ EngineReorders(p) \/ EngineLosesAck(p)

Spec == Init /\ [][Next]_vars

\* The runtime polls the loop and the engine, and the server can be reached.
FairSpec ==
  /\ Spec
  /\ WF_vars(ReadsBook) /\ WF_vars(SendUnsubscribe) /\ WF_vars(SendSubscribe)
  /\ WF_vars(EngineTakesCommand) /\ WF_vars(Reconnect)

-----------------------------------------------------------------------------
\* Properties.

IsLevels(levels) == DOMAIN levels \subseteq Nat /\ \A p \in DOMAIN levels : levels[p] \in Nat \ {0}

\* Every variable has its type; a book is never deeper than its limit.
TypeOK ==
  /\ \A p \in Pairs :
       /\ \A side \in Sides :
            /\ IsLevels(market[p][side]) /\ IsLevels(books[p].book[side])
            /\ Cardinality(DOMAIN books[p].book[side]) <= books[p].book.maxDepth
       /\ books[p].lastSnapshot \in {"none", "recent", "old"}
       /\ books[p].failures \in 0 .. MaxFailures
       /\ books[p].recovering \in BOOLEAN
       /\ intact[p] \in {Broken} \cup 1 .. sent[p]
  /\ subs \subseteq Pairs /\ active \subseteq Pairs
  /\ loop \in {Reading} \cup {At(place, p) : place \in {"unsubscribe", "subscribe"}, p \in Pairs}
  /\ status \in {"Healthy", "Recovering", "NetworkLost"}

\* A book that has missed nothing since its snapshot and has caught up shows
\* the server's best levels: deltas that leave out the levels pushed out of the
\* top, and a truncation that forgets what is beyond it, fit together
\* (orderbook.rs, apply_updates).
InSync ==
  \A p \in Pairs :
    p \in subs /\ intact[p] = sent[p] => Checksum(books[p].book) = TopChecksum(market[p])

\* A book that has missed nothing never fails an update: the only failures it
\* counts are the answers to the engine's own subscriptions, which are taken for
\* updates (handle_book_message and the test for "channel":"book").
NoFalseAlarm ==
  [][\A p \in Pairs :
       intact'[p] # Broken /\ books'[p].failures > books[p].failures => Head(feed[p]) = Ack]_vars

\* The status never claims a recovery that is over, and a recovery is not shown
\* as healthy unless the UI has reported the network lost since the last book
\* message: from then on the next trade, candle or heartbeat shows it as healthy
\* (calculate_status, run_network_loop, run_ui_loop).
StatusTruthful ==
  /\ status = "Recovering" => AnyRecovering(books)
  /\ status = "Healthy" /\ AnyRecovering(books) => silenced

\* No recovery leaves a pair unsubscribed: when the connection is up, the loop
\* reads and no command is under way, the server has every pair the engine ever
\* subscribed, also if the connection was lost between unsubscribe and subscribe.
Listening == connected /\ loop = Reading /\ cmds = <<>> => active \subseteq subs

\* A recovery ends, unless the snapshot it waits for is lost on the way.
RecoveryEnds ==
  \A p \in Pairs : books[p].recovering ~> ~books[p].recovering \/ orphaned[p]

-----------------------------------------------------------------------------
\* What the documentation says and the code does not do.

\* Book snapshots are "Never conflated" (README.md:457), so a recovery always ends.
SnapshotArrives ==
  \A p \in Pairs : books[p].recovering ~> ~books[p].recovering

=============================================================================
