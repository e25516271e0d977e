----------------------------- MODULE BufferOps ------------------------------
(***************************************************************************)
(* The operations of KeyedBuffer (conflation/buffer.rs) as functions from  *)
(* one buffer to the next.  A buffer is a record of the struct's fields:   *)
(* pending maps a key to the message waiting under it, order is the FIFO   *)
(* of the keys, prio the priority queue, size the current_size counter     *)
(* the struct keeps beside them.  The statistics are left out.             *)
(***************************************************************************)
EXTENDS Messages, Sequences, Functions

CONSTANTS MaxBufferSize,   \* MAX_BUFFER_SIZE
          DropBatch        \* MAX_BUFFER_SIZE / 10, what one overflow drops

ASSUME BufferAssumption ==
  /\ MaxBufferSize \in Nat
  /\ DropBatch \in 1 .. MaxBufferSize

\* usize::saturating_sub.
SaturatingSub(x, y) == IF x < y THEN 0 ELSE x - y

Without(f, K) == Restrict(f, DOMAIN f \ K)

With(f, k, v) == [x \in DOMAIN f \cup {k} |-> IF x = k THEN v ELSE f[x]]

-----------------------------------------------------------------------------

EmptyBuffer == [pending |-> [k \in {} |-> k], order |-> <<>>, prio |-> <<>>, size |-> 0]

\* Slip: push_front for push_back.
SlipPushFront(b, m) == [b EXCEPT !.prio = <<m>> \o @]

PushPriority(b, m) == [b EXCEPT !.prio = Append(@, m)]

\* Slip: the loop of handle_overflow runs once too often.
SlipDropOneMore(b) == IF DropBatch + 1 < Len(b.order) THEN DropBatch + 1 ELSE Len(b.order)

\* How many keys handle_overflow takes off the front of order, and the first
\* n keys of the queue.
DropCount(b) == IF DropBatch < Len(b.order) THEN DropBatch ELSE Len(b.order)
FrontKeys(b, n) == {b.order[i] : i \in 1 .. n}

\* The priority messages among the first n, in queue order.
Rescued(b, n) ==
  LET held == SelectSeq(SubSeq(b.order, 1, n), LAMBDA k : k \in DOMAIN b.pending)
  IN  SelectSeq([i \in DOMAIN held |-> b.pending[held[i]]], IsPriority)

\* handle_overflow: the oldest DropBatch entries go, but a priority message
\* among them moves to the priority queue.
HandleOverflow(b) ==
  LET n == DropCount(b) IN
  [pending |-> Without(b.pending, FrontKeys(b, n)),
   order   |-> SubSeq(b.order, n + 1, Len(b.order)),
   prio    |-> IF \E k \in FrontKeys(b, n) \cap DOMAIN b.pending : IsPriority(b.pending[k])
                 THEN b.prio \o Rescued(b, n)
                 ELSE b.prio,
   size    |-> SaturatingSub(b.size, n)]

\* Slip: the key is queued whether or not it waits already.
SlipQueueTwice(b, m) ==
  [b EXCEPT !.pending = With(@, Key(m), m), !.order = Append(@, Key(m)), !.size = @ + 1]

\* Slip: the message that waits is kept and the newer one dropped.
SlipKeepFirst(b, m) ==
  IF Key(m) \in DOMAIN b.pending THEN b
  ELSE [b EXCEPT !.pending = With(@, Key(m), m), !.order = Append(@, Key(m)), !.size = @ + 1]

\* Slip: a replaced key goes to the end of the queue.
SlipMoveToBack(b, m) ==
  LET others == SelectSeq(b.order, LAMBDA k : k # Key(m)) IN
  [b EXCEPT !.pending = With(@, Key(m), m),
            !.order   = Append(others, Key(m)),
            !.size    = Len(others) + 1]

\* The tail of insert: queue the key if it is new, and put the message under
\* it, whatever was there before.
Put(b, m) ==
  LET new == Key(m) \notin DOMAIN b.pending IN
  [b EXCEPT !.pending = With(@, Key(m), m),
            !.order   = IF new THEN Append(@, Key(m)) ELSE @,
            !.size    = IF new THEN @ + 1 ELSE @]

\* The overwrite arm of insert: the newer text replaces the older one where it
\* stands, before the overflow check.
Overwrites(b, m, conflate) ==
  conflate /\ Key(m) \in DOMAIN b.pending /\ SupportsOverwrite(m)

\* Slip: the limit is checked with > instead of >=.
SlipOverflowsLate(b, m, conflate) ==
  ~IsPriority(m) /\ ~Overwrites(b, m, conflate) /\ b.size > MaxBufferSize

Overflows(b, m, conflate) ==
  ~IsPriority(m) /\ ~Overwrites(b, m, conflate) /\ b.size >= MaxBufferSize

\* The keys whose messages handle_overflow discards in this insert.
OverflowVictims(b, m, conflate) ==
  IF Overflows(b, m, conflate) THEN FrontKeys(b, DropCount(b)) ELSE {}

Insert(b, m, conflate) ==
  CASE IsPriority(m)                 -> PushPriority(b, m)
    [] Overflows(b, m, conflate)     -> Put(HandleOverflow(b), m)
    [] OTHER                         -> Put(b, m)

-----------------------------------------------------------------------------

\* The positions of order whose key still has a message: pop skips the others.
LivePositions(b) == {i \in 1 .. Len(b.order) : b.order[i] \in DOMAIN b.pending}

Oldest(b) == CHOOSE i \in LivePositions(b) : \A j \in LivePositions(b) : i <= j

\* pop returns something.
CanPop(b) == b.prio # <<>> \/ LivePositions(b) # {}

\* The message pop returns, and the buffer it leaves.
Popped(b) ==
  IF b.prio # <<>> THEN Head(b.prio) ELSE b.pending[b.order[Oldest(b)]]

\* Slip: the counter is decremented for a priority message too.
SlipCountPriority(b) ==
  IF b.prio # <<>> THEN [b EXCEPT !.prio = Tail(@), !.size = @ - 1]
  ELSE IF LivePositions(b) = {} THEN [b EXCEPT !.order = <<>>]
  ELSE [b EXCEPT !.pending = Without(@, {b.order[Oldest(b)]}),
                 !.order   = SubSeq(@, Oldest(b) + 1, Len(@)),
                 !.size    = @ - 1]

AfterPop(b) ==
  IF b.prio # <<>> THEN [b EXCEPT !.prio = Tail(@)]
  ELSE IF LivePositions(b) = {} THEN [b EXCEPT !.order = <<>>]
  ELSE [b EXCEPT !.pending = Without(@, {b.order[Oldest(b)]}),
                 !.order   = SubSeq(@, Oldest(b) + 1, Len(@)),
                 !.size    = SaturatingSub(@, 1)]

-----------------------------------------------------------------------------

IsBuffer(b) ==
  /\ DOMAIN b = {"pending", "order", "prio", "size"}
  /\ DOMAIN b.pending \subseteq Keys
  /\ b.pending \in [DOMAIN b.pending -> Message]
  /\ b.order \in Seq(Keys)
  /\ b.prio \in Seq(Message)
  /\ b.size \in Nat

\* The three redundant views of the waiting messages agree, every message is
\* filed under its own key, and none of them belongs in the priority queue.
Consistent(b) ==
  /\ DOMAIN b.pending = {b.order[i] : i \in 1 .. Len(b.order)}
  /\ \A i, j \in 1 .. Len(b.order) : b.order[i] = b.order[j] => i = j
  /\ b.size = Len(b.order)
  /\ b.size <= MaxBufferSize
  /\ \A k \in DOMAIN b.pending : Key(b.pending[k]) = k /\ ~IsPriority(b.pending[k])
  /\ \A i \in 1 .. Len(b.prio) : IsPriority(b.prio[i])

=============================================================================
