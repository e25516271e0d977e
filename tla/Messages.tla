------------------------------ MODULE Messages ------------------------------
(***************************************************************************)
(* The messages the server pushes to the SDK, reduced to what the          *)
(* conflation engine looks at: the kind of message, the symbol it is       *)
(* about, and a sequence number that makes every message distinct (the     *)
(* payload).  ParsedMessage::parse (conflation/rules.rs) extracts the      *)
(* channel and the symbol, MessageType::from_channel (conflation/          *)
(* buffer.rs) classifies the channel; "bookSnapshot" and "bookUpdate" are  *)
(* two kinds of payload on one channel, and so are the two candle          *)
(* intervals "ohlc1" and "ohlc5".                                          *)
(***************************************************************************)
EXTENDS Integers

CONSTANT Symbols

\* What the parser sets the symbol to when there is none (unwrap_or_default).
NoSymbol == "none"

MarketKinds == {"ticker", "ohlc1", "ohlc5", "bookSnapshot", "bookUpdate", "trade"}
PrivateKinds == {"ownTrades", "openOrders"}
ControlKinds == {"heartbeat", "status"}

\* "ack" is any message with a "method" or a "success" field; "other" is text
\* the parser does not recognise.
Kinds == MarketKinds \cup PrivateKinds \cup ControlKinds \cup {"ack", "other"}

\* The "channel" field of each kind of message, "none" when there is no such field.
Channel ==
  [k \in Kinds |->
     CASE k \in {"bookSnapshot", "bookUpdate"} -> "book"
       [] k \in {"ohlc1", "ohlc5"}             -> "ohlc"
       [] k \in {"ack", "other"}               -> "none"
       [] OTHER                                -> k]

Message == [kind : Kinds, sym : Symbols \cup {NoSymbol}, seq : Nat]

\* Only the market feeds carry a symbol in the first element of "data".
MessagesOf(kind, seq) ==
  [kind : {kind}, sym : IF kind \in MarketKinds THEN Symbols ELSE {NoSymbol}, seq : {seq}]

-----------------------------------------------------------------------------

\* MessageType::is_priority, with ParsedMessage::is_priority's subscriptions.
IsPriority(m) == m.kind \in PrivateKinds \cup ControlKinds \cup {"ack"}

\* MessageType::supports_overwrite.
SupportsOverwrite(m) == m.kind \in {"ticker", "ohlc1", "ohlc5"}

\* MessageType::Trade, the type the manager aggregates in Red.
IsTrade(m) == m.kind = "trade"

\* KeyedBuffer::make_key: the channel and the symbol, not the interval and not
\* whether a book message is a snapshot.
Key(m) == <<Channel[m.kind], m.sym>>

Keys == {<<Channel[k], s>> : k \in Kinds, s \in Symbols \cup {NoSymbol}}

\* ConnectionManager::is_droppable_message: the text contains "heartbeat", or
\* it contains "status" without "error".  Each entry of an openOrders message
\* has a "status" field, so those match too.
IsDroppable(m) == m.kind \in {"heartbeat", "status", "openOrders"}

=============================================================================
