----------------------------- MODULE LocalBook ------------------------------
(***************************************************************************)
(* The local order book (book/orderbook.rs) and its checksum               *)
(* (book/checksum.rs) as operators from one book to the next.              *)
(*                                                                         *)
(* A side of a book maps the prices at which something is offered to the   *)
(* quantity offered there, as the BTreeMap does; prices and quantities are *)
(* numbers, of which only order and equality matter.  The levels of a      *)
(* message map prices to quantities too, where 0 takes a price away; a     *)
(* message names a price once.                                             *)
(***************************************************************************)
EXTENDS Integers, FiniteSets, Functions

CONSTANTS DefaultMaxDepth,  \* DEFAULT_MAX_DEPTH
          ChecksumDepth     \* the ten levels of each side the checksum covers

ASSUME DepthAssumption == DefaultMaxDepth \in Nat \ {0} /\ ChecksumDepth \in Nat \ {0}

Sides == {"bids", "asks"}

NoLevels == [p \in {} |-> p]

\* LocalBook::new and with_depth.
WithDepth(depth) == [bids |-> NoLevels, asks |-> NoLevels, maxDepth |-> depth]

NewBook == WithDepth(DefaultMaxDepth)

-----------------------------------------------------------------------------

\* The best bid is the highest, the best ask the lowest.
Better(side, p, q) == IF side = "bids" THEN p > q ELSE p < q

\* Slip: one level too many is kept.
SlipOneMore(P, n, side) == {p \in P : Cardinality({q \in P : Better(side, q, p)}) > n}

\* The prices in P that at least n others beat.
Worse(P, n, side) == {p \in P : Cardinality({q \in P : Better(side, q, p)}) >= n}

Best(P, n, side) == P \ Worse(P, n, side)

\* The truncation at the end of apply_updates, and in prune_to_depth: the worst
\* prices beyond the depth are removed.
Truncate(levels, n, side) == Restrict(levels, Best(DOMAIN levels, n, side))

\* The loop of apply_updates: a quantity of zero removes its price, any other
\* replaces what was there.
Merge(levels, updates) ==
  LET gone == {p \in DOMAIN updates : updates[p] = 0} IN
  [p \in (DOMAIN levels \cup DOMAIN updates) \ gone |->
     IF p \in DOMAIN updates THEN updates[p] ELSE levels[p]]

\* Slip: the side is not truncated after the updates.
SlipNoTruncation(book, updates, side) == [book EXCEPT ![side] = Merge(@, updates)]

\* apply_updates for one side.
ApplyUpdates(book, updates, side) ==
  [book EXCEPT ![side] = Truncate(Merge(@, updates), book.maxDepth, side)]

\* The two calls every caller makes for a delta.
ApplyDelta(book, bids, asks) == ApplyUpdates(ApplyUpdates(book, bids, "bids"), asks, "asks")

\* Slip: the old levels are not cleared.
SlipNoClear(book, bids, asks) == ApplyDelta(book, bids, asks)

\* apply_snapshot.
ApplySnapshot(book, bids, asks) ==
  ApplyDelta([book EXCEPT !.bids = NoLevels, !.asks = NoLevels], bids, asks)

-----------------------------------------------------------------------------

\* What validate_checksum hashes: the best levels of both sides, best first.  The
\* text runs prices and quantities together without their dots, and a CRC can
\* collide; the checksum is taken to tell any two books apart all the same.
Checksum(book) ==
  [bids |-> Truncate(book.bids, ChecksumDepth, "bids"),
   asks |-> Truncate(book.asks, ChecksumDepth, "asks")]

ValidateChecksum(book, remote) == Checksum(book) = remote

\* A checksum of 0, which the parser takes for a missing one, is that of no
\* levels at all.
NoChecksum == [bids |-> NoLevels, asks |-> NoLevels]

=============================================================================
