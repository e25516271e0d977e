---------------------------- MODULE KeyedBuffer -----------------------------
(***************************************************************************)
(* The keyed buffer on its own, driven by any caller of its public         *)
(* methods: insert (with either value of conflate), push_priority, pop and *)
(* clear, in any order.  It is sequential code; what is hard about it is   *)
(* that three fields describe the same set of waiting messages and that    *)
(* insert may overwrite, replace, drop the oldest batch, or queue.         *)
(***************************************************************************)
EXTENDS BufferOps

CONSTANTS FeedKinds,   \* the kinds of message the callers insert
          MaxMessages  \* bound on the number of messages ever inserted

ASSUME FeedAssumption == FeedKinds \subseteq Kinds /\ MaxMessages \in Nat

VARIABLES
  buf,      \* the buffer
  nextSeq,  \* the sequence number of the next message
  out,      \* the messages popped so far
  since     \* per key, the last message inserted since it was last dropped

vars == <<buf, nextSeq, out, since>>

Init ==
  /\ buf = EmptyBuffer
  /\ nextSeq = 1
  /\ out = <<>>
  /\ since = [k \in {} |-> k]

Feed == UNION {MessagesOf(kind, nextSeq) : kind \in FeedKinds}

DoInsert ==
  /\ nextSeq <= MaxMessages
  /\ \E m \in Feed, conflate \in BOOLEAN :
       /\ buf' = Insert(buf, m, conflate)
       /\ since' = IF IsPriority(m) THEN since
                   ELSE With(Without(since, OverflowVictims(buf, m, conflate)), Key(m), m)
  /\ nextSeq' = nextSeq + 1
  /\ UNCHANGED out

DoPushPriority ==
  /\ nextSeq <= MaxMessages
  /\ \E m \in Feed : IsPriority(m) /\ buf' = PushPriority(buf, m)
  /\ nextSeq' = nextSeq + 1
  /\ UNCHANGED <<out, since>>

DoPop ==
  /\ CanPop(buf)
  /\ out' = Append(out, Popped(buf))
  /\ buf' = AfterPop(buf)
  /\ UNCHANGED <<nextSeq, since>>

DoClear ==
  /\ buf' = EmptyBuffer
  /\ since' = [k \in {} |-> k]
  /\ UNCHANGED <<nextSeq, out>>

Next == DoInsert \/ DoPushPriority \/ DoPop \/ DoClear

Spec == Init /\ [][Next]_vars

-----------------------------------------------------------------------------

\* Every variable has its type.
TypeOK ==
  /\ IsBuffer(buf)
  /\ nextSeq \in Nat \ {0}
  /\ out \in Seq(Message)
  /\ DOMAIN since \subseteq Keys
  /\ since \in [DOMAIN since -> Message]

\* The map, the FIFO of keys and the counter describe the same messages after
\* any sequence of calls, the buffer never exceeds its limit, and no message is
\* filed under another message's key (insert, pop, handle_overflow, clear).
BufferConsistent == Consistent(buf)

\* The lane a message waits in: the priority queue, or the slot of its key.
Lane(m) == IF IsPriority(m) THEN <<"priority">> ELSE Key(m)

\* Messages of one lane leave the buffer in the order they came in, overwrites,
\* replacements and overflow drops notwithstanding.
LanesInOrder ==
  \A i, j \in 1 .. Len(out) :
    i < j /\ Lane(out[i]) = Lane(out[j]) => out[i].seq < out[j].seq

\* The last message inserted under a key is never given up for anything but
\* overflow: it is waiting, or it has been popped.  In particular the overflow
\* an insert causes never costs the message being inserted.
LatestKept ==
  \A k \in DOMAIN since :
    \/ k \in DOMAIN buf.pending /\ buf.pending[k] = since[k]
    \/ \E i \in 1 .. Len(out) : out[i] = since[k]

\* Where key k stands in the FIFO, and the keys that stand before it.
Position(b, k) == CHOOSE i \in 1 .. Len(b.order) : b.order[i] = k
Ahead(b, k) == {b.order[i] : i \in 1 .. Position(b, k) - 1}

\* A key that waits never sees another key get ahead of it: conflation keeps its
\* place among the keys that stay.  The one exception is the insert at the limit
\* that first drops the key as one of the oldest and then queues it anew with
\* the message it inserts.
NoQueueJump ==
  [][\A k \in DOMAIN buf.pending \cap DOMAIN buf'.pending :
       \/ Ahead(buf', k) \subseteq Ahead(buf, k)
       \/ /\ buf.size = MaxBufferSize
          /\ Position(buf, k) <= DropBatch
          /\ buf'.pending[k].seq = nextSeq]_vars

\* The messages that wait in buffer b, in either queue.
Held(b) == Range(b.pending) \cup Range(b.prio)

\* One call never costs more messages than it may, the two queues together: a
\* pop removes the message it returns, and an insert costs the message of its
\* own key or, at the limit, one overflow batch, the oldest one.  Only clear
\* gives up a priority message.
BoundedLoss ==
  [][\A m \in Held(buf) \ Held(buf') :
       \/ UNCHANGED <<nextSeq, out>>
       \/ out' = Append(out, m)
       \/ \E n \in Held(buf') :
            /\ n.seq = nextSeq /\ ~IsPriority(n) /\ ~IsPriority(m)
            /\ \/ Key(m) = Key(n)
               \/ buf.size = MaxBufferSize /\ Position(buf, Key(m)) <= DropBatch]_vars

-----------------------------------------------------------------------------

\* Every message the callers may ever insert.
Inserted == UNION {MessagesOf(kind, n) : kind \in FeedKinds, n \in 1 .. MaxMessages}

\* The waiting messages in FIFO order: what the three fields stand for.
Waiting == [i \in 1 .. Len(buf.order) |-> buf.pending[buf.order[i]]]

Mailbox == INSTANCE BoundedMailbox
             WITH Limit <- MaxBufferSize, Arrivals <- Inserted, lane <- buf.prio, queue <- Waiting

\* Every call of the buffer is a call of the bounded mailbox: the map, the FIFO
\* and the counter implement one queue with at most one message per key.
ImplementsMailbox == Mailbox!Spec

=============================================================================
