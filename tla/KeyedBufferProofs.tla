------------------------- MODULE KeyedBufferProofs --------------------------
(***************************************************************************)
(* Theorems about the keyed buffer, for every symbol set, every limit and  *)
(* every overflow batch, from the lemmas about its methods.                *)
(***************************************************************************)
EXTENDS KeyedBuffer, BufferLemmas

-----------------------------------------------------------------------------
\* The state machine.

\* Every message a caller inserts has the type of a message.
LEMMA FeedType ==
  ASSUME nextSeq \in Nat, NEW m \in Feed
  PROVE  m \in Message
<1>1. PICK kind \in FeedKinds : m \in MessagesOf(kind, nextSeq)
  BY DEF Feed
<1>2. kind \in Kinds
  BY <1>1, FeedAssumption
<1> QED  BY <1>1, <1>2 DEF MessagesOf, Message

IInv == TypeOK /\ BufferConsistent

LEMMA InitIInv == Init => IInv
<1> SUFFICES ASSUME Init PROVE IInv
  OBVIOUS
<1>1. buf = EmptyBuffer /\ nextSeq = 1 /\ out = <<>> /\ since = [k \in {} |-> k]
  BY DEF Init
<1>2. IsBuffer(buf) /\ Consistent(buf)
  BY <1>1, EmptyGood DEF Good
<1>3. since \in [DOMAIN since -> Message] /\ DOMAIN since \subseteq Keys
  BY <1>1
<1> QED  BY <1>1, <1>2, <1>3 DEF IInv, TypeOK, BufferConsistent

LEMMA NextIInv == IInv /\ [Next]_vars => IInv'
<1> SUFFICES ASSUME IInv, [Next]_vars PROVE IInv'
  OBVIOUS
<1>0. /\ Good(buf) /\ nextSeq \in Nat \ {0} /\ out \in Seq(Message)
      /\ DOMAIN since \subseteq Keys /\ since \in [DOMAIN since -> Message]
  BY DEF IInv, TypeOK, BufferConsistent, Good
<1> USE DEF Good
<1>1. CASE DoInsert
  <2>1. PICK m \in Feed, conflate \in BOOLEAN :
          /\ buf' = Insert(buf, m, conflate)
          /\ since' = IF IsPriority(m) THEN since
                      ELSE With(Without(since, OverflowVictims(buf, m, conflate)), Key(m), m)
    BY <1>1 DEF DoInsert
  <2>2. m \in Message
    BY <1>0, FeedType
  <2>3. Good(buf')
    BY <2>1, <2>2, <1>0, InsertGood
  <2>4. DOMAIN since' \subseteq Keys /\ since' \in [DOMAIN since' -> Message]
    <3>1. CASE IsPriority(m)
      BY <3>1, <2>1, <1>0
    <3>2. CASE ~IsPriority(m)
      <4> DEFINE K == OverflowVictims(buf, m, conflate)
                 f == Without(since, K)
      <4>1. since' = With(f, Key(m), m)
        BY <3>2, <2>1
      <4>2. /\ DOMAIN f = DOMAIN since \ K
            /\ f \in [DOMAIN since \ K -> Message]
        BY <1>0, WithoutType
      <4> HIDE DEF f, K
      <4>3. f \in [DOMAIN f -> Message] /\ DOMAIN f \subseteq Keys
        BY <4>2, <1>0
      <4>4. /\ DOMAIN With(f, Key(m), m) = DOMAIN f \cup {Key(m)}
            /\ With(f, Key(m), m) \in [DOMAIN f \cup {Key(m)} -> Message]
        BY <4>3, <2>2, WithType
      <4> QED  BY <4>1, <4>3, <4>4, <2>2, KeyType
    <3> QED  BY <3>1, <3>2
  <2>5. nextSeq' \in Nat \ {0} /\ out' = out
    BY <1>0, <1>1 DEF DoInsert
  <2> QED  BY <2>3, <2>4, <2>5, <1>0 DEF IInv, TypeOK, BufferConsistent
<1>2. CASE DoPushPriority
  <2>1. PICK m \in Feed : IsPriority(m) /\ buf' = PushPriority(buf, m)
    BY <1>2 DEF DoPushPriority
  <2>2. Good(buf')
    BY <2>1, <1>0, FeedType, PushPriorityGood
  <2>3. nextSeq' \in Nat \ {0} /\ out' = out /\ since' = since
    BY <1>0, <1>2 DEF DoPushPriority
  <2> QED  BY <2>2, <2>3, <1>0 DEF IInv, TypeOK, BufferConsistent
<1>3. CASE DoPop
  <2>1. CanPop(buf) /\ out' = Append(out, Popped(buf)) /\ buf' = AfterPop(buf)
        /\ nextSeq' = nextSeq /\ since' = since
    BY <1>3 DEF DoPop
  <2>2. Good(buf') /\ Popped(buf) \in Message
    BY <2>1, <1>0, PopGood
  <2>3. out' \in Seq(Message)
    BY <2>1, <2>2, <1>0, AppendProperties
  <2> QED  BY <2>1, <2>2, <2>3, <1>0 DEF IInv, TypeOK, BufferConsistent
<1>4. CASE DoClear
  <2>1. buf' = EmptyBuffer /\ since' = [k \in {} |-> k] /\ nextSeq' = nextSeq /\ out' = out
    BY <1>4 DEF DoClear
  <2>2. Good(buf')
    BY <2>1, EmptyGood
  <2>3. since' \in [DOMAIN since' -> Message] /\ DOMAIN since' \subseteq Keys
    BY <2>1
  <2> QED  BY <2>1, <2>2, <2>3, <1>0 DEF IInv, TypeOK, BufferConsistent
<1>5. CASE UNCHANGED vars
  BY <1>5, <1>0 DEF vars, IInv, TypeOK, BufferConsistent
<1> QED  BY <1>1, <1>2, <1>3, <1>4, <1>5 DEF Next

\* Every variable keeps its type.
THEOREM TypeCorrect == Spec => []TypeOK
<1>1. IInv => TypeOK
  BY DEF IInv
<1> QED  BY <1>1, InitIInv, NextIInv, PTL DEF Spec

\* The map, the FIFO of keys and the counter never disagree, and the buffer
\* never exceeds its limit, whatever its size and whatever one overflow drops.
THEOREM AlwaysConsistent == Spec => []BufferConsistent
<1>1. IInv => BufferConsistent
  BY DEF IInv
<1> QED  BY <1>1, InitIInv, NextIInv, PTL DEF Spec

-----------------------------------------------------------------------------
\* The newest message of a key.

\* The newest message of key k, if there is one, waits or has been popped.
KeptOf(k) ==
  \/ k \in DOMAIN buf.pending /\ buf.pending[k] = since[k]
  \/ \E i \in 1 .. Len(out) : out[i] = since[k]

LEMMA InitLatest == Init => LatestKept
BY DEF Init, LatestKept

\* LatestKept is inductive relative to the consistency of the buffer.
LEMMA NextLatest == IInv /\ LatestKept /\ [Next]_vars => LatestKept'
<1> SUFFICES ASSUME IInv, LatestKept, [Next]_vars,
                    NEW k \in DOMAIN since'
             PROVE  KeptOf(k)'
  BY DEF LatestKept, KeptOf
<1>0. /\ Good(buf) /\ nextSeq \in Nat /\ out \in Seq(Message)
      /\ DOMAIN since \subseteq Keys /\ since \in [DOMAIN since -> Message]
  BY DEF IInv, TypeOK, BufferConsistent, Good
<1>k. k \in DOMAIN since => KeptOf(k)
  BY DEF LatestKept, KeptOf
<1>1. CASE DoInsert
  <2>1. PICK m \in Feed, conflate \in BOOLEAN :
          /\ buf' = Insert(buf, m, conflate)
          /\ since' = IF IsPriority(m) THEN since
                      ELSE With(Without(since, OverflowVictims(buf, m, conflate)), Key(m), m)
    BY <1>1 DEF DoInsert
  <2>2. m \in Message /\ out' = out
    BY <1>0, <1>1, FeedType DEF DoInsert
  <2>3. CASE IsPriority(m)
    <3>1. since' = since /\ buf' = PushPriority(buf, m)
      BY <2>1, <2>3 DEF Insert, Overflows
    <3>2. buf'.pending = buf.pending
      BY <3>1, <1>0 DEF PushPriority, Good, IsBuffer
    <3> QED  BY <3>1, <3>2, <2>2, <1>k DEF KeptOf
  <2>4. CASE ~IsPriority(m)
    <3> DEFINE V == OverflowVictims(buf, m, conflate)
               f == Without(since, V)
               p == buf.pending
               q == buf'.pending
    <3>1. /\ Key(m) \in DOMAIN q /\ q[Key(m)] = m
          /\ \A x \in DOMAIN p \ (V \cup {Key(m)}) : x \in DOMAIN q /\ q[x] = p[x]
      BY <2>1, <2>2, <2>4, <1>0, InsertKeeps
    <3>2. since' = With(f, Key(m), m)
      BY <2>1, <2>4
    <3>3. /\ DOMAIN f = DOMAIN since \ V
          /\ f \in [DOMAIN f -> Message]
          /\ \A x \in DOMAIN f : f[x] = since[x]
      <4> HIDE DEF V
      <4>1. /\ DOMAIN Without(since, V) = DOMAIN since \ V
            /\ Without(since, V) \in [DOMAIN since \ V -> Message]
            /\ \A x \in DOMAIN since \ V : Without(since, V)[x] = since[x]
        BY <1>0, WithoutType
      <4> QED  BY <4>1
    <3> HIDE DEF V, f
    <3>4. /\ DOMAIN since' = DOMAIN f \cup {Key(m)} /\ since'[Key(m)] = m
          /\ \A x \in DOMAIN f \ {Key(m)} : since'[x] = f[x]
      <4>1. /\ DOMAIN With(f, Key(m), m) = DOMAIN f \cup {Key(m)}
            /\ With(f, Key(m), m) \in [DOMAIN f \cup {Key(m)} -> Message]
            /\ With(f, Key(m), m)[Key(m)] = m
            /\ \A x \in DOMAIN f \ {Key(m)} : With(f, Key(m), m)[x] = f[x]
        BY <3>3, <2>2, WithType
      <4> QED  BY <3>2, <4>1
    <3>5. CASE k = Key(m)
      BY <3>1, <3>4, <3>5 DEF KeptOf
    <3>6. CASE k # Key(m)
      <4>1. k \in DOMAIN since \ V /\ since'[k] = since[k]
        BY <3>3, <3>4, <3>6
      <4>2. CASE k \in DOMAIN p /\ p[k] = since[k]
        BY <4>1, <4>2, <3>1, <3>6 DEF KeptOf
      <4>3. CASE \E i \in 1 .. Len(out) : out[i] = since[k]
        BY <4>1, <4>3, <2>2 DEF KeptOf
      <4> QED  BY <4>1, <4>2, <4>3, <1>k DEF KeptOf
    <3> QED  BY <3>5, <3>6
  <2> QED  BY <2>3, <2>4
<1>2. CASE DoPushPriority
  <2>1. since' = since /\ out' = out /\ buf'.pending = buf.pending
    BY <1>2, <1>0 DEF DoPushPriority, PushPriority, Good, IsBuffer
  <2> QED  BY <2>1, <1>k DEF KeptOf
<1>3. CASE DoPop
  <2>1. /\ CanPop(buf) /\ buf' = AfterPop(buf) /\ since' = since
        /\ out' = Append(out, Popped(buf))
    BY <1>3 DEF DoPop
  <2>2. /\ Popped(buf) \in Message
        /\ Len(out') = Len(out) + 1 /\ Len(out) \in Nat
        /\ out'[Len(out) + 1] = Popped(buf)
        /\ \A i \in 1 .. Len(out) : out'[i] = out[i]
    <3>1. Popped(buf) \in Message
      BY <2>1, <1>0, PopGood
    <3> QED  BY <3>1, <2>1, <1>0, AppendProperties, LenProperties
  <2>3. CASE \E i \in 1 .. Len(out) : out[i] = since[k]
    <3>1. PICK i \in 1 .. Len(out) : out[i] = since[k]
      BY <2>3
    <3>2. i \in 1 .. Len(out') /\ out'[i] = since'[k]
      BY <3>1, <2>1, <2>2
    <3> QED  BY <3>2 DEF KeptOf
  <2>4. CASE k \in DOMAIN buf.pending /\ buf.pending[k] = since[k]
    <3>1. CASE buf.prio # <<>>
      BY <3>1, <2>1, <2>4, <1>0, PopGood DEF KeptOf
    <3>2. CASE buf.prio = <<>>
      <4> DEFINE f == buf.pending
                 key == buf.order[1]
      <4>1. /\ Popped(buf) = f[key] /\ buf'.pending = Without(f, {key})
            /\ f \in [DOMAIN f -> Message]
        BY <3>2, <2>1, <1>0, PopGood DEF Good, IsBuffer
      <4>2. CASE k = key
        <5>1. out'[Len(out) + 1] = since'[k] /\ Len(out) + 1 \in 1 .. Len(out')
          BY <4>1, <4>2, <2>1, <2>2, <2>4
        <5> QED  BY <5>1 DEF KeptOf
      <4>3. CASE k # key
        <5>1. k \in DOMAIN f \ {key} /\ f[k] = since'[k]
          BY <4>3, <2>1, <2>4
        <5> HIDE DEF f, key
        <5>2. k \in DOMAIN buf'.pending /\ buf'.pending[k] = f[k]
          <6> DEFINE K == {key}
          <6>1. f \in [DOMAIN f -> Message] /\ buf'.pending = Without(f, K)
            BY <4>1
          <6>2. k \in DOMAIN f \ K
            BY <5>1
          <6> HIDE DEF K
          <6>3. /\ DOMAIN Without(f, K) = DOMAIN f \ K
                /\ \A x \in DOMAIN f \ K : Without(f, K)[x] = f[x]
            BY <6>1, WithoutType
          <6> QED  BY <6>1, <6>2, <6>3
        <5> QED  BY <5>1, <5>2 DEF KeptOf
      <4> QED  BY <4>2, <4>3
    <3> QED  BY <3>1, <3>2
  <2> QED  BY <2>1, <2>3, <2>4, <1>k DEF KeptOf
<1>4. CASE DoClear
  BY <1>4 DEF DoClear
<1>5. CASE UNCHANGED vars
  BY <1>5, <1>k DEF vars, KeptOf
<1> QED  BY <1>1, <1>2, <1>3, <1>4, <1>5 DEF Next

\* The last message inserted under a key is given up for nothing but overflow:
\* it waits in the buffer or has been popped.
THEOREM NewestNeverLost == Spec => []LatestKept
<1>1. Init => IInv /\ LatestKept
  BY InitIInv, InitLatest
<1>2. (IInv /\ LatestKept) /\ [Next]_vars => (IInv /\ LatestKept)'
  BY NextIInv, NextLatest
<1> QED  BY <1>1, <1>2, PTL DEF Spec

-----------------------------------------------------------------------------
\* The order in which messages leave.

\* Two messages share a lane if both are priority messages or both have one key.
LEMMA LaneSplit ==
  ASSUME NEW m \in Message, NEW n \in Message
  PROVE  Lane(m) = Lane(n) <=> \/ IsPriority(m) /\ IsPriority(n)
                               \/ ~IsPriority(m) /\ ~IsPriority(n) /\ Key(m) = Key(n)
<1>1. \A x, y : <<"priority">> # <<x, y>>
  <2> SUFFICES ASSUME NEW x, NEW y, <<"priority">> = <<x, y>> PROVE FALSE
    OBVIOUS
  <2>1. Len(<<"priority">>) = 1 /\ Len(<<x, y>>) = 2
    OBVIOUS
  <2> QED  BY <2>1
<1>2. Key(m) # <<"priority">> /\ Key(n) # <<"priority">>
  BY <1>1 DEF Key
<1> QED  BY <1>2 DEF Lane

\* What waits is older than the next message and newer than everything of its
\* lane that has left; the priority queue is in order.
Rising ==
  /\ \A i \in 1 .. Len(out) : out[i].seq < nextSeq
  /\ \A k \in DOMAIN buf.pending :
       /\ buf.pending[k].seq < nextSeq
       /\ \A i \in 1 .. Len(out) :
            ~IsPriority(out[i]) /\ Key(out[i]) = k => out[i].seq < buf.pending[k].seq
  /\ \A j \in 1 .. Len(buf.prio) :
       /\ buf.prio[j].seq < nextSeq
       /\ \A i \in 1 .. Len(out) : IsPriority(out[i]) => out[i].seq < buf.prio[j].seq
       /\ \A i \in 1 .. j - 1 : buf.prio[i].seq < buf.prio[j].seq

LEMMA InitRising == Init => Rising /\ LanesInOrder
BY DEF Init, Rising, LanesInOrder, EmptyBuffer

\* A message that leaves is newer than those of its lane that left before.
LEMMA OutRises ==
  ASSUME IInv, LanesInOrder, NEW m \in Message, out' = Append(out, m),
         \A i \in 1 .. Len(out) : Lane(out[i]) = Lane(m) => out[i].seq < m.seq
  PROVE  /\ Len(out') = Len(out) + 1 /\ Len(out) \in Nat
         /\ \A i \in 1 .. Len(out) : out'[i] = out[i]
         /\ out'[Len(out) + 1] = m
         /\ LanesInOrder'
<1>1. /\ Len(out') = Len(out) + 1 /\ Len(out) \in Nat
      /\ \A i \in 1 .. Len(out) : out'[i] = out[i]
      /\ out'[Len(out) + 1] = m
  BY AppendProperties, LenProperties DEF IInv, TypeOK
<1>2. ASSUME NEW i \in 1 .. Len(out'), NEW j \in 1 .. Len(out'), i < j,
             Lane(out'[i]) = Lane(out'[j])
      PROVE  out'[i].seq < out'[j].seq
  <2>1. i \in 1 .. Len(out) /\ (j \in 1 .. Len(out) \/ j = Len(out) + 1)
    BY <1>1, <1>2
  <2>2. CASE j \in 1 .. Len(out)
    BY <2>1, <2>2, <1>1, <1>2 DEF LanesInOrder
  <2>3. CASE j = Len(out) + 1
    BY <2>1, <2>3, <1>1, <1>2
  <2> QED  BY <2>1, <2>2, <2>3
<1>3. LanesInOrder'
  BY <1>2 DEF LanesInOrder, Lane
<1> QED  BY <1>1, <1>3

LEMMA NextRising == IInv /\ Rising /\ LanesInOrder /\ [Next]_vars => Rising' /\ LanesInOrder'
<1> SUFFICES ASSUME IInv, Rising, LanesInOrder, [Next]_vars PROVE Rising' /\ LanesInOrder'
  OBVIOUS
<1>0. /\ Good(buf) /\ nextSeq \in Nat /\ out \in Seq(Message) /\ Len(out) \in Nat
      /\ buf.prio \in Seq(Message) /\ Len(buf.prio) \in Nat
      /\ buf.pending \in [DOMAIN buf.pending -> Message]
      /\ \A i \in 1 .. Len(out) : out[i].seq \in Nat
      /\ \A k \in DOMAIN buf.pending : buf.pending[k].seq \in Nat
      /\ \A j \in 1 .. Len(buf.prio) : buf.prio[j].seq \in Nat
  <2>1. /\ Good(buf) /\ nextSeq \in Nat /\ out \in Seq(Message)
        /\ buf.prio \in Seq(Message) /\ buf.pending \in [DOMAIN buf.pending -> Message]
    BY DEF IInv, TypeOK, BufferConsistent, Good, IsBuffer
  <2>2. \A m \in Message : m.seq \in Nat
    BY DEF Message
  <2>3. Len(out) \in Nat /\ \A i \in 1 .. Len(out) : out[i] \in Message
    BY <2>1, LenProperties, ElementOfSeq
  <2>4. Len(buf.prio) \in Nat /\ \A j \in 1 .. Len(buf.prio) : buf.prio[j] \in Message
    BY <2>1, LenProperties, ElementOfSeq
  <2>5. \A k \in DOMAIN buf.pending : buf.pending[k] \in Message
    BY <2>1
  <2> QED  BY <2>1, <2>2, <2>3, <2>4, <2>5
<1>n. \A m \in Feed : m \in Message /\ m.seq = nextSeq
  BY <1>0, FeedType DEF Feed, MessagesOf
<1>1. ASSUME NEW m \in Message, m.seq = nextSeq, IsPriority(m), buf' = PushPriority(buf, m),
             nextSeq' = nextSeq + 1, out' = out
      PROVE  Rising' /\ LanesInOrder'
  <2>1. /\ buf'.pending = buf.pending /\ buf'.prio = Append(buf.prio, m)
    BY <1>1, <1>0 DEF PushPriority, Good, IsBuffer
  <2>2. /\ Len(buf'.prio) = Len(buf.prio) + 1 /\ buf'.prio[Len(buf.prio) + 1] = m
        /\ \A j \in 1 .. Len(buf.prio) : buf'.prio[j] = buf.prio[j]
    BY <2>1, <1>0, <1>1, AppendProperties
  <2>3. \A j \in 1 .. Len(buf'.prio) : j \in 1 .. Len(buf.prio) \/ j = Len(buf.prio) + 1
    BY <2>2, <1>0
  <2>4. \A i \in 1 .. Len(out) : out'[i].seq < nextSeq'
    BY <1>0, <1>1 DEF Rising
  <2>5. \A k \in DOMAIN buf'.pending :
          /\ buf'.pending[k].seq < nextSeq'
          /\ \A i \in 1 .. Len(out) :
               ~IsPriority(out[i]) /\ Key(out[i]) = k => out[i].seq < buf'.pending[k].seq
    BY <2>1, <1>0, <1>1 DEF Rising
  <2>6. ASSUME NEW j \in 1 .. Len(buf'.prio)
        PROVE  /\ buf'.prio[j].seq < nextSeq'
               /\ \A i \in 1 .. Len(out) : IsPriority(out[i]) => out[i].seq < buf'.prio[j].seq
               /\ \A i \in 1 .. j - 1 : buf'.prio[i].seq < buf'.prio[j].seq
    <3>1. CASE j \in 1 .. Len(buf.prio)
      <4>1. \A i \in 1 .. j - 1 : i \in 1 .. Len(buf.prio)
        BY <3>1, <1>0
      <4>2. \A i \in 1 .. j - 1 : buf'.prio[i] = buf.prio[i]
        BY <4>1, <2>2
      <4>3. buf'.prio[j] = buf.prio[j] /\ buf.prio[j].seq \in Nat
        BY <3>1, <2>2, <1>0
      <4>4. /\ buf.prio[j].seq < nextSeq
            /\ \A i \in 1 .. Len(out) : IsPriority(out[i]) => out[i].seq < buf.prio[j].seq
            /\ \A i \in 1 .. j - 1 : buf.prio[i].seq < buf.prio[j].seq
        BY <3>1 DEF Rising
      <4> QED  BY <4>2, <4>3, <4>4, <1>0, <1>1
    <3>2. CASE j = Len(buf.prio) + 1
      <4>1. \A i \in 1 .. j - 1 : i \in 1 .. Len(buf.prio)
        BY <3>2, <1>0
      <4>2. buf'.prio[j].seq = nextSeq
        BY <3>2, <2>2, <1>1
      <4>3. \A i \in 1 .. j - 1 : buf'.prio[i].seq < nextSeq
        BY <4>1, <2>2 DEF Rising
      <4>4. \A i \in 1 .. Len(out) : out[i].seq < nextSeq
        BY DEF Rising
      <4> QED  BY <4>2, <4>3, <4>4, <1>0, <1>1
    <3> QED  BY <3>1, <3>2, <2>3
  <2>7. Rising'
    BY <2>4, <2>5, <2>6, <1>1 DEF Rising
  <2>8. LanesInOrder'
    BY <1>1 DEF LanesInOrder, Lane
  <2> QED  BY <2>7, <2>8
<1>2. CASE DoInsert
  <2>1. PICK m \in Feed, conflate \in BOOLEAN : buf' = Insert(buf, m, conflate)
    BY <1>2 DEF DoInsert
  <2>2. m \in Message /\ m.seq = nextSeq /\ nextSeq' = nextSeq + 1 /\ out' = out
    BY <1>2, <1>n DEF DoInsert
  <2>3. CASE IsPriority(m)
    <3>1. buf' = PushPriority(buf, m)
      BY <2>1, <2>2, <2>3, <1>0, InsertPriority
    <3> QED  BY <3>1, <2>2, <2>3, <1>1
  <2>4. CASE ~IsPriority(m)
    <3>1. /\ DOMAIN buf'.pending \subseteq DOMAIN buf.pending \cup {Key(m)}
          /\ Key(m) \in DOMAIN buf'.pending => buf'.pending[Key(m)] = m
          /\ \A k \in DOMAIN buf'.pending \ {Key(m)} : buf'.pending[k] = buf.pending[k]
          /\ buf'.prio = buf.prio
      BY <2>1, <2>2, <2>4, <1>0, InsertKeeps
    <3>2. \A i \in 1 .. Len(out) : out[i].seq < nextSeq'
      BY <2>2, <1>0 DEF Rising
    <3>3. ASSUME NEW k \in DOMAIN buf'.pending
          PROVE  /\ buf'.pending[k].seq < nextSeq'
                 /\ \A i \in 1 .. Len(out) :
                      ~IsPriority(out[i]) /\ Key(out[i]) = k => out[i].seq < buf'.pending[k].seq
      <4>1. CASE k = Key(m)
        BY <4>1, <3>1, <2>2, <1>0 DEF Rising
      <4>2. CASE k # Key(m)
        BY <4>2, <3>1, <2>2, <1>0 DEF Rising
      <4> QED  BY <4>1, <4>2
    <3>4. \A j \in 1 .. Len(buf'.prio) :
            /\ buf'.prio[j].seq < nextSeq'
            /\ \A i \in 1 .. Len(out) : IsPriority(out[i]) => out[i].seq < buf'.prio[j].seq
            /\ \A i \in 1 .. j - 1 : buf'.prio[i].seq < buf'.prio[j].seq
      BY <3>1, <2>2, <1>0 DEF Rising
    <3>5. Rising'
      BY <3>2, <3>3, <3>4, <2>2 DEF Rising
    <3> QED  BY <3>5, <2>2 DEF LanesInOrder, Lane
  <2> QED  BY <2>3, <2>4
<1>3. CASE DoPushPriority
  <2>1. PICK m \in Feed : IsPriority(m) /\ buf' = PushPriority(buf, m)
    BY <1>3 DEF DoPushPriority
  <2> QED  BY <2>1, <1>1, <1>3, <1>n DEF DoPushPriority
<1>4. CASE DoPop
  <2> DEFINE m == Popped(buf)
  <2>1. CanPop(buf) /\ buf' = AfterPop(buf) /\ out' = Append(out, m) /\ nextSeq' = nextSeq
    BY <1>4 DEF DoPop
  <2>2. m \in Message
    BY <2>1, <1>0, PopGood
  <2>3. CASE buf.prio # <<>>
    <3>1. /\ m = buf.prio[1] /\ buf'.prio = Tail(buf.prio) /\ buf'.pending = buf.pending
          /\ 1 \in 1 .. Len(buf.prio)
      BY <2>1, <2>3, <1>0, EmptySeq DEF Popped, AfterPop, Good, IsBuffer
    <3>2. /\ Len(buf'.prio) = Len(buf.prio) - 1
          /\ \A j \in 1 .. Len(buf'.prio) : buf'.prio[j] = buf.prio[j + 1]
      BY <3>1, <2>3, <1>0, HeadTailProperties
    <3>3. IsPriority(m)
      BY <3>1, <1>0 DEF Good, Consistent
    <3>4. \A i \in 1 .. Len(out) : Lane(out[i]) = Lane(m) => out[i].seq < m.seq
      <4>1. \A i \in 1 .. Len(out) : Lane(out[i]) = Lane(m) => IsPriority(out[i])
        BY <3>3, <2>2, <1>0, LaneSplit, ElementOfSeq
      <4> QED  BY <4>1, <3>1 DEF Rising
    <3> HIDE DEF m
    <3>5. /\ Len(out') = Len(out) + 1
          /\ \A i \in 1 .. Len(out) : out'[i] = out[i]
          /\ out'[Len(out) + 1] = m
          /\ LanesInOrder'
      BY <3>4, <2>1, <2>2, OutRises
    <3>6. \A i \in 1 .. Len(out') : i \in 1 .. Len(out) \/ i = Len(out) + 1
      BY <3>5, <1>0
    <3>7. m.seq < nextSeq
      BY <3>1 DEF Rising
    <3>8. \A i \in 1 .. Len(out') : out'[i].seq < nextSeq'
      BY <3>5, <3>6, <3>7, <2>1 DEF Rising
    <3>9. \A k \in DOMAIN buf'.pending :
            /\ buf'.pending[k].seq < nextSeq'
            /\ \A i \in 1 .. Len(out') :
                 ~IsPriority(out'[i]) /\ Key(out'[i]) = k => out'[i].seq < buf'.pending[k].seq
      BY <3>1, <3>3, <3>5, <3>6, <2>1 DEF Rising
    <3>10. ASSUME NEW j \in 1 .. Len(buf'.prio)
           PROVE  /\ buf'.prio[j].seq < nextSeq'
                  /\ \A i \in 1 .. Len(out') : IsPriority(out'[i]) => out'[i].seq < buf'.prio[j].seq
                  /\ \A i \in 1 .. j - 1 : buf'.prio[i].seq < buf'.prio[j].seq
      <4>1. /\ j + 1 \in 1 .. Len(buf.prio) /\ 1 \in 1 .. (j + 1) - 1 /\ buf'.prio[j] = buf.prio[j + 1]
            /\ \A i \in 1 .. j - 1 : i \in 1 .. Len(buf'.prio) /\ i + 1 \in 1 .. (j + 1) - 1
        BY <3>2, <1>0
      <4>2. buf'.prio[j].seq < nextSeq' /\ m.seq < buf'.prio[j].seq
        BY <4>1, <3>1, <2>1 DEF Rising
      <4>3. \A i \in 1 .. Len(out) : IsPriority(out[i]) => out[i].seq < buf'.prio[j].seq
        BY <4>1 DEF Rising
      <4>4. \A i \in 1 .. j - 1 : buf'.prio[i].seq < buf'.prio[j].seq
        BY <4>1, <3>2 DEF Rising
      <4>5. \A i \in 1 .. Len(out') : IsPriority(out'[i]) => out'[i].seq < buf'.prio[j].seq
        BY <4>2, <4>3, <3>5, <3>6
      <4> QED  BY <4>2, <4>4, <4>5
    <3>11. Rising'
      BY <3>8, <3>9, <3>10 DEF Rising
    <3> QED  BY <3>5, <3>11
  <2>4. CASE buf.prio = <<>>
    <3> DEFINE key == buf.order[1]
    <3>1. /\ key \in DOMAIN buf.pending /\ m = buf.pending[key]
          /\ DOMAIN buf'.pending = DOMAIN buf.pending \ {key}
          /\ \A x \in DOMAIN buf'.pending : buf'.pending[x] = buf.pending[x]
          /\ buf'.prio = <<>>
      BY <2>1, <2>4, <1>0, PopTakes
    <3>2. Key(m) = key /\ ~IsPriority(m)
      BY <3>1, <1>0 DEF Good, Consistent
    <3>3. \A i \in 1 .. Len(out) : Lane(out[i]) = Lane(m) => out[i].seq < m.seq
      <4>1. \A i \in 1 .. Len(out) : Lane(out[i]) = Lane(m) => ~IsPriority(out[i]) /\ Key(out[i]) = key
        BY <3>2, <2>2, <1>0, LaneSplit, ElementOfSeq
      <4> QED  BY <4>1, <3>1 DEF Rising
    <3> HIDE DEF m, key
    <3>4. /\ Len(out') = Len(out) + 1
          /\ \A i \in 1 .. Len(out) : out'[i] = out[i]
          /\ out'[Len(out) + 1] = m
          /\ LanesInOrder'
      BY <3>3, <2>1, <2>2, OutRises
    <3>5. \A i \in 1 .. Len(out') : i \in 1 .. Len(out) \/ i = Len(out) + 1
      BY <3>4, <1>0
    <3>6. \A i \in 1 .. Len(out') : out'[i].seq < nextSeq'
      BY <3>1, <3>4, <3>5, <2>1 DEF Rising
    <3>7. \A k \in DOMAIN buf'.pending :
            /\ buf'.pending[k].seq < nextSeq'
            /\ \A i \in 1 .. Len(out') :
                 ~IsPriority(out'[i]) /\ Key(out'[i]) = k => out'[i].seq < buf'.pending[k].seq
      BY <3>1, <3>2, <3>4, <3>5, <2>1 DEF Rising
    <3>8. Len(buf'.prio) = 0
      BY <3>1
    <3>9. Rising'
      BY <3>6, <3>7, <3>8 DEF Rising
    <3> QED  BY <3>4, <3>9
  <2> QED  BY <2>3, <2>4
<1>5. CASE DoClear
  <2>1. DOMAIN buf'.pending = {} /\ Len(buf'.prio) = 0 /\ nextSeq' = nextSeq /\ out' = out
    BY <1>5 DEF DoClear, EmptyBuffer
  <2>2. Rising'
    BY <2>1 DEF Rising
  <2> QED  BY <2>1, <2>2 DEF LanesInOrder, Lane
<1>6. CASE UNCHANGED vars
  BY <1>6 DEF vars, Rising, LanesInOrder, Lane
<1> QED  BY <1>2, <1>3, <1>4, <1>5, <1>6 DEF Next

\* Messages of one key, and priority messages among themselves, leave the buffer
\* in the order they came in, whatever was overwritten, replaced or dropped.
THEOREM LanesKeepOrder == Spec => []LanesInOrder
<1>1. Init => IInv /\ Rising /\ LanesInOrder
  BY InitIInv, InitRising
<1>2. (IInv /\ Rising /\ LanesInOrder) /\ [Next]_vars => (IInv /\ Rising /\ LanesInOrder)'
  BY NextIInv, NextRising
<1> QED  BY <1>1, <1>2, PTL DEF Spec

-----------------------------------------------------------------------------
\* The places of the keys.

\* A key stands in one place.
LEMMA PositionIs ==
  ASSUME NEW b, Good(b), NEW i \in 1 .. Len(b.order)
  PROVE  Position(b, b.order[i]) = i
<1> DEFINE P(j) == j \in 1 .. Len(b.order) /\ b.order[j] = b.order[i]
<1>1. \A j \in 1 .. Len(b.order) : b.order[j] = b.order[i] => j = i
  BY DEF Good, Consistent
<1> QED  BY <1>1 DEF Position

LEMMA PositionOf ==
  ASSUME NEW b, Good(b), NEW k \in DOMAIN b.pending
  PROVE  Position(b, k) \in 1 .. Len(b.order) /\ b.order[Position(b, k)] = k
<1>1. PICK i \in 1 .. Len(b.order) : b.order[i] = k
  BY DEF Good, Consistent
<1> QED  BY <1>1, PositionIs

\* What each call does to the places of the keys.
LEMMA CallMoves ==
  ASSUME IInv, [Next]_vars
  PROVE  \/ buf' = EmptyBuffer
         \/ \E n \in 0 .. Len(buf.order) :
              /\ n > 0 => buf.size = MaxBufferSize /\ n <= DropBatch
              /\ \A k \in FrontKeys(buf, n) \cap DOMAIN buf'.pending :
                   buf'.pending[k].seq = nextSeq
              /\ Len(buf'.order) >= Len(buf.order) - n
              /\ \A i \in 1 .. Len(buf.order) - n : buf'.order[i] = buf.order[i + n]
         \/ /\ Len(buf'.order) = Len(buf.order) - 1
            /\ Len(buf.order) > 0
            /\ \A i \in 1 .. Len(buf.order) - 1 : buf'.order[i] = buf.order[i + 1]
            /\ buf.order[1] \notin DOMAIN buf'.pending
<1>0. Good(buf) /\ buf.order \in Seq(Keys) /\ Len(buf.order) \in Nat /\ out \in Seq(Message)
  BY LenProperties DEF IInv, TypeOK, BufferConsistent, Good, IsBuffer
<1>1. ASSUME buf'.order = buf.order
      PROVE  \E n \in 0 .. Len(buf.order) :
               /\ n > 0 => buf.size = MaxBufferSize /\ n <= DropBatch
               /\ \A k \in FrontKeys(buf, n) \cap DOMAIN buf'.pending :
                    buf'.pending[k].seq = nextSeq
               /\ Len(buf'.order) >= Len(buf.order) - n
               /\ \A i \in 1 .. Len(buf.order) - n : buf'.order[i] = buf.order[i + n]
  <2>1. /\ 0 \in 0 .. Len(buf.order)
        /\ FrontKeys(buf, 0) = {}
        /\ Len(buf'.order) >= Len(buf.order) - 0
        /\ \A i \in 1 .. Len(buf.order) - 0 : buf'.order[i] = buf.order[i + 0]
    BY <1>0, <1>1 DEF FrontKeys
  <2> QED  BY <2>1
<1>2. CASE DoInsert
  <2>1. PICK m \in Feed, conflate \in BOOLEAN : buf' = Insert(buf, m, conflate)
    BY <1>2 DEF DoInsert
  <2>2. m \in Message /\ m.seq = nextSeq
    BY FeedType DEF IInv, TypeOK, Feed, MessagesOf
  <2>3. CASE IsPriority(m)
    <3>1. buf'.order = buf.order
      BY <2>1, <2>2, <2>3, <1>0, InsertPriority
    <3> QED  BY <3>1, <1>1
  <2>4. CASE ~IsPriority(m)
    <3>1. PICK n \in 0 .. Len(buf.order) :
            /\ n > 0 => buf.size = MaxBufferSize /\ n <= DropBatch
            /\ OverflowVictims(buf, m, conflate) = FrontKeys(buf, n)
            /\ Len(buf'.order) >= Len(buf.order) - n
            /\ \A i \in 1 .. Len(buf.order) - n : buf'.order[i] = buf.order[i + n]
      BY <2>1, <2>2, <2>4, <1>0, InsertMoves
    <3>2. /\ DOMAIN buf'.pending =
               (DOMAIN buf.pending \ OverflowVictims(buf, m, conflate)) \cup {Key(m)}
          /\ buf'.pending[Key(m)] = m
      BY <2>1, <2>2, <2>4, <1>0, InsertKeeps
    <3>3. \A k \in FrontKeys(buf, n) \cap DOMAIN buf'.pending : buf'.pending[k].seq = nextSeq
      BY <3>1, <3>2, <2>2
    <3> QED  BY <3>1, <3>3
  <2> QED  BY <2>3, <2>4
<1>3. CASE DoPushPriority
  <2>1. buf'.order = buf.order
    BY <1>3, <1>0 DEF DoPushPriority, PushPriority, Good, IsBuffer
  <2> QED  BY <2>1, <1>1
<1>4. CASE DoPop
  <2>1. CanPop(buf) /\ buf' = AfterPop(buf) /\ out' = Append(out, Popped(buf))
    BY <1>4 DEF DoPop
  <2>2. CASE buf.prio # <<>>
    <3>1. buf'.order = buf.order
      BY <2>1, <2>2, <1>0 DEF AfterPop, Good, IsBuffer
    <3> QED  BY <3>1, <1>1
  <2>3. CASE buf.prio = <<>>
    <3>1. buf.order # <<>> /\ buf'.order = Tail(buf.order)
      BY <2>1, <2>3, <1>0, PopGood
    <3>2. /\ Len(buf'.order) = Len(buf.order) - 1 /\ Len(buf.order) > 0
          /\ \A i \in 1 .. Len(buf.order) - 1 : buf'.order[i] = buf.order[i + 1]
      BY <3>1, <1>0, HeadTailProperties, EmptySeq
    <3>3. buf.order[1] \notin DOMAIN buf'.pending
      BY <2>1, <2>3, <1>0, PopTakes
    <3> QED  BY <3>2, <3>3
  <2> QED  BY <2>2, <2>3
<1>5. CASE DoClear
  BY <1>5 DEF DoClear
<1>6. CASE UNCHANGED vars
  BY <1>6, <1>1 DEF vars
<1> QED  BY <1>2, <1>3, <1>4, <1>5, <1>6 DEF Next

\* No key gets ahead of a key that keeps waiting, unless that one was dropped
\* and queued anew.
LEMMA NextQueue ==
  ASSUME IInv, IInv', [Next]_vars, NEW k \in DOMAIN buf.pending \cap DOMAIN buf'.pending
  PROVE  \/ Ahead(buf', k) \subseteq Ahead(buf, k)
         \/ /\ buf.size = MaxBufferSize
            /\ Position(buf, k) <= DropBatch
            /\ buf'.pending[k].seq = nextSeq
<1> DEFINE i == Position(buf, k)
<1>0. /\ Good(buf) /\ Good(buf') /\ Len(buf.order) \in Nat /\ Len(buf'.order) \in Nat
      /\ DOMAIN buf'.pending = {buf'.order[x] : x \in 1 .. Len(buf'.order)}
  BY LenProperties DEF IInv, TypeOK, BufferConsistent, Good, IsBuffer, Consistent
<1>1. i \in 1 .. Len(buf.order) /\ buf.order[i] = k
  BY <1>0, PositionOf
<1>2. \A j \in 1 .. Len(buf'.order) : Position(buf', buf'.order[j]) = j
  BY <1>0, PositionIs
<1> HIDE DEF i
<1>3. CASE buf' = EmptyBuffer
  BY <1>3 DEF EmptyBuffer
<1>4. ASSUME NEW n \in 0 .. Len(buf.order), n < i,
             Len(buf'.order) >= Len(buf.order) - n,
             \A x \in 1 .. Len(buf.order) - n : buf'.order[x] = buf.order[x + n]
      PROVE  Ahead(buf', k) \subseteq Ahead(buf, k)
  <2>1. /\ i - n \in 1 .. Len(buf.order) - n /\ i - n \in 1 .. Len(buf'.order)
        /\ (i - n) + n = i
    BY <1>0, <1>1, <1>4
  <2>2. Position(buf', k) = i - n
    <3>1. buf'.order[i - n] = k
      BY <2>1, <1>1, <1>4
    <3> QED  BY <3>1, <2>1, <1>2
  <2>3. ASSUME NEW x \in 1 .. (i - n) - 1
        PROVE  \E y \in 1 .. i - 1 : buf'.order[x] = buf.order[y]
    <3>1. x \in 1 .. Len(buf.order) - n /\ x + n \in 1 .. i - 1
      BY <2>3, <1>0, <1>1, <1>4
    <3> QED  BY <3>1, <1>4
  <2>4. Ahead(buf', k) = {buf'.order[x] : x \in 1 .. (i - n) - 1}
    BY <2>2 DEF Ahead
  <2>5. Ahead(buf, k) = {buf.order[y] : y \in 1 .. i - 1}
    BY DEF Ahead, i
  <2> QED  BY <2>3, <2>4, <2>5
<1>5. ASSUME NEW n \in 0 .. Len(buf.order),
             n > 0 => buf.size = MaxBufferSize /\ n <= DropBatch,
             \A x \in FrontKeys(buf, n) \cap DOMAIN buf'.pending : buf'.pending[x].seq = nextSeq,
             n >= i
      PROVE  buf.size = MaxBufferSize /\ i <= DropBatch /\ buf'.pending[k].seq = nextSeq
  <2>1. buf.size = MaxBufferSize /\ i <= DropBatch
    BY <1>1, <1>5, BufferAssumption
  <2>2. k \in FrontKeys(buf, n)
    BY <1>1, <1>5 DEF FrontKeys
  <2> QED  BY <2>1, <2>2, <1>5
<1>6. CASE \E n \in 0 .. Len(buf.order) :
             /\ n > 0 => buf.size = MaxBufferSize /\ n <= DropBatch
             /\ \A x \in FrontKeys(buf, n) \cap DOMAIN buf'.pending :
                  buf'.pending[x].seq = nextSeq
             /\ Len(buf'.order) >= Len(buf.order) - n
             /\ \A x \in 1 .. Len(buf.order) - n : buf'.order[x] = buf.order[x + n]
  <2>1. PICK n \in 0 .. Len(buf.order) :
             /\ n > 0 => buf.size = MaxBufferSize /\ n <= DropBatch
             /\ \A x \in FrontKeys(buf, n) \cap DOMAIN buf'.pending :
                  buf'.pending[x].seq = nextSeq
             /\ Len(buf'.order) >= Len(buf.order) - n
             /\ \A x \in 1 .. Len(buf.order) - n : buf'.order[x] = buf.order[x + n]
    BY <1>6
  <2>2. CASE n < i
    BY <2>1, <2>2, <1>4
  <2>3. CASE n >= i
    BY <2>1, <2>3, <1>5 DEF i
  <2> QED  BY <2>1, <2>2, <2>3, <1>1
<1>7. CASE /\ Len(buf'.order) = Len(buf.order) - 1
           /\ Len(buf.order) > 0
           /\ \A x \in 1 .. Len(buf.order) - 1 : buf'.order[x] = buf.order[x + 1]
           /\ buf.order[1] \notin DOMAIN buf'.pending
  <2>1. i # 1
    BY <1>1, <1>7
  <2>2. 1 \in 0 .. Len(buf.order) /\ 1 < i
    BY <2>1, <1>0, <1>1
  <2> QED  BY <2>2, <1>0, <1>7, <1>4
<1> QED  BY <1>3, <1>6, <1>7, CallMoves

\* No key ever gets ahead of a waiting one, unless the overflow of this very
\* insert dropped the latter and queued it anew.
THEOREM KeysKeepTheirTurn == Spec => NoQueueJump
<1>1. IInv /\ IInv' /\ [Next]_vars =>
        [\A k \in DOMAIN buf.pending \cap DOMAIN buf'.pending :
           \/ Ahead(buf', k) \subseteq Ahead(buf, k)
           \/ /\ buf.size = MaxBufferSize
              /\ Position(buf, k) <= DropBatch
              /\ buf'.pending[k].seq = nextSeq]_vars
  BY NextQueue
<1>2. Spec => []IInv
  BY InitIInv, NextIInv, PTL DEF Spec
<1> QED  BY <1>1, <1>2, PTL DEF Spec, NoQueueJump

-----------------------------------------------------------------------------
\* What one call costs.

\* Message m may leave the buffer in this call.
MayLeave(m) ==
  \/ UNCHANGED <<nextSeq, out>>
  \/ out' = Append(out, m)
  \/ \E n \in Held(buf') :
       /\ n.seq = nextSeq /\ ~IsPriority(n) /\ ~IsPriority(m)
       /\ \/ Key(m) = Key(n)
          \/ buf.size = MaxBufferSize /\ Position(buf, Key(m)) <= DropBatch

\* A message queued on the priority lane costs nothing.
LEMMA PriorityCosts ==
  ASSUME Good(buf), NEW n \in Message, buf' = PushPriority(buf, n)
  PROVE  Held(buf) \subseteq Held(buf')
<1>1. buf'.pending = buf.pending /\ buf'.prio = Append(buf.prio, n) /\ buf.prio \in Seq(Message)
  BY DEF PushPriority, Good, IsBuffer
<1>2. /\ Len(buf.prio) \in Nat /\ Len(buf'.prio) = Len(buf.prio) + 1
      /\ DOMAIN buf.prio = 1 .. Len(buf.prio) /\ DOMAIN buf'.prio = 1 .. Len(buf'.prio)
      /\ \A i \in 1 .. Len(buf.prio) : buf'.prio[i] = buf.prio[i]
  BY <1>1, AppendProperties, LenProperties
<1>3. Range(buf.prio) \subseteq Range(buf'.prio)
  BY <1>2 DEF Range
<1> QED  BY <1>1, <1>3 DEF Held

LEMMA NextCosts ==
  ASSUME IInv, [Next]_vars, NEW m \in Held(buf), m \notin Held(buf')
  PROVE  MayLeave(m)
<1>0. /\ Good(buf) /\ buf.prio \in Seq(Message)
      /\ \A k \in DOMAIN buf.pending : Key(buf.pending[k]) = k /\ ~IsPriority(buf.pending[k])
      /\ DOMAIN buf.pending = {buf.order[i] : i \in 1 .. Len(buf.order)}
  BY DEF IInv, TypeOK, BufferConsistent, Good, IsBuffer, Consistent
<1>1. \/ m \in Range(buf.prio)
      \/ \E k \in DOMAIN buf.pending : m = buf.pending[k]
  BY DEF Held, Range
<1>2. CASE DoInsert
  <2>1. PICK n \in Feed, conflate \in BOOLEAN : buf' = Insert(buf, n, conflate)
    BY <1>2 DEF DoInsert
  <2>2. n \in Message /\ n.seq = nextSeq
    BY FeedType DEF IInv, TypeOK, Feed, MessagesOf
  <2>3. CASE IsPriority(n)
    BY <2>1, <2>2, <2>3, <1>0, InsertPriority, PriorityCosts
  <2>4. CASE ~IsPriority(n)
    <3> DEFINE V == OverflowVictims(buf, n, conflate)
    <3>1. /\ DOMAIN buf'.pending = (DOMAIN buf.pending \ V) \cup {Key(n)}
          /\ buf'.pending[Key(n)] = n
          /\ \A k \in DOMAIN buf'.pending \ {Key(n)} : buf'.pending[k] = buf.pending[k]
          /\ buf'.prio = buf.prio
      BY <2>1, <2>2, <2>4, <1>0, InsertKeeps
    <3>2. \A k \in V \cap DOMAIN buf.pending :
            buf.size = MaxBufferSize /\ Position(buf, k) <= DropBatch
      <4>1. PICK x \in 0 .. Len(buf.order) :
              /\ x > 0 => buf.size = MaxBufferSize /\ x <= DropBatch
              /\ V = FrontKeys(buf, x)
        BY <2>2, <2>4, <1>0, InsertMoves
      <4> SUFFICES ASSUME NEW k \in V
                   PROVE  buf.size = MaxBufferSize /\ Position(buf, k) <= DropBatch
        OBVIOUS
      <4>2. PICK i \in 1 .. x : k = buf.order[i]
        BY <4>1 DEF FrontKeys
      <4>3. Len(buf.order) \in Nat /\ i \in 1 .. Len(buf.order)
        BY <4>2, LenProperties, <1>0 DEF Good, IsBuffer
      <4>4. Position(buf, k) = i
        BY <4>2, <4>3, <1>0, PositionIs
      <4> QED  BY <4>1, <4>2, <4>4, BufferAssumption
    <3> HIDE DEF V
    <3>3. n \in Held(buf')
      BY <3>1 DEF Held, Range
    <3>4. m \notin Range(buf.prio)
      BY <3>1 DEF Held
    <3>5. PICK k \in DOMAIN buf.pending : m = buf.pending[k]
      BY <3>4, <1>1
    <3>6. ~IsPriority(m) /\ Key(m) = k
      BY <3>5, <1>0
    <3>7. k = Key(n) \/ k \in V
      BY <3>1, <3>5 DEF Held, Range
    <3> QED  BY <3>2, <3>3, <3>5, <3>6, <3>7, <2>2, <2>4 DEF MayLeave
  <2> QED  BY <2>3, <2>4
<1>3. CASE DoPushPriority
  <2>1. PICK n \in Feed : buf' = PushPriority(buf, n)
    BY <1>3 DEF DoPushPriority
  <2>2. n \in Message
    BY FeedType DEF IInv, TypeOK
  <2> QED  BY <2>1, <2>2, <1>0, PriorityCosts
<1>4. CASE DoPop
  <2>1. CanPop(buf) /\ buf' = AfterPop(buf) /\ out' = Append(out, Popped(buf))
    BY <1>4 DEF DoPop
  <2>2. m = Popped(buf)
    <3>1. CASE buf.prio # <<>>
      <4>1. buf'.prio = Tail(buf.prio) /\ buf'.pending = buf.pending /\ Popped(buf) = buf.prio[1]
        BY <2>1, <3>1, <1>0 DEF AfterPop, Popped, Good, IsBuffer
      <4>2. m \in Range(buf.prio)
        BY <4>1, <1>1 DEF Held, Range
      <4>3. /\ Len(buf.prio) \in Nat /\ Len(buf'.prio) = Len(buf.prio) - 1
            /\ DOMAIN buf.prio = 1 .. Len(buf.prio) /\ DOMAIN buf'.prio = 1 .. Len(buf'.prio)
            /\ \A i \in 1 .. Len(buf'.prio) : buf'.prio[i] = buf.prio[i + 1]
        BY <4>1, <3>1, <1>0, HeadTailProperties, LenProperties
      <4>4. PICK i \in 1 .. Len(buf.prio) : m = buf.prio[i]
        BY <4>2, <4>3 DEF Range
      <4>5. i = 1
        <5>1. SUFFICES ASSUME i # 1 PROVE FALSE
          OBVIOUS
        <5>2. i - 1 \in 1 .. Len(buf'.prio) /\ (i - 1) + 1 = i
          BY <5>1, <4>3
        <5>3. buf'.prio[i - 1] = m
          BY <5>2, <4>3, <4>4
        <5> QED  BY <5>2, <5>3, <4>3 DEF Held, Range
      <4> QED  BY <4>1, <4>4, <4>5
    <3>2. CASE buf.prio = <<>>
      <4>1. /\ Popped(buf) = buf.pending[buf.order[1]]
            /\ DOMAIN buf'.pending = DOMAIN buf.pending \ {buf.order[1]}
            /\ \A x \in DOMAIN buf'.pending : buf'.pending[x] = buf.pending[x]
        BY <2>1, <3>2, <1>0, PopTakes
      <4>2. m \notin Range(buf.prio)
        BY <3>2 DEF Range
      <4> QED  BY <4>1, <4>2, <1>1 DEF Held, Range
    <3> QED  BY <3>1, <3>2
  <2> QED  BY <2>1, <2>2 DEF MayLeave
<1>5. CASE DoClear
  BY <1>5 DEF DoClear, MayLeave
<1>6. CASE UNCHANGED vars
  BY <1>6 DEF vars, MayLeave
<1> QED  BY <1>2, <1>3, <1>4, <1>5, <1>6 DEF Next

\* One call costs what it may and no more: what a pop returns, what clear
\* empties, the message of the inserted key, or one oldest batch, at the limit
\* only; and never a priority message, but for clear.
THEOREM CallsLoseAtMostABatch == Spec => BoundedLoss
<1>1. IInv /\ [Next]_vars => [\A m \in Held(buf) \ Held(buf') : MayLeave(m)]_vars
  BY NextCosts
<1>2. Spec => []IInv
  BY InitIInv, NextIInv, PTL DEF Spec
<1>3. [\A m \in Held(buf) \ Held(buf') : MayLeave(m)]_vars =>
        [\A m \in Held(buf) \ Held(buf') :
           \/ UNCHANGED <<nextSeq, out>>
           \/ out' = Append(out, m)
           \/ \E n \in Held(buf') :
                /\ n.seq = nextSeq /\ ~IsPriority(n) /\ ~IsPriority(m)
                /\ \/ Key(m) = Key(n)
                   \/ buf.size = MaxBufferSize /\ Position(buf, Key(m)) <= DropBatch]_vars
  BY DEF MayLeave
<1> QED  BY <1>1, <1>2, <1>3, PTL DEF Spec, BoundedLoss

-----------------------------------------------------------------------------
\* The keyed buffer implements the bounded mailbox: what each method does to
\* the map, the FIFO of keys and the counter is one operation on the queue of
\* messages those three fields stand for.

\* The messages of a buffer in FIFO order; Waiting is Queue(buf).
Queue(b) == [i \in 1 .. Len(b.order) |-> b.pending[b.order[i]]]

-----------------------------------------------------------------------------
\* The queue of a good buffer.

\* It is a sequence of messages, one per key of the FIFO and under that key.
LEMMA QueueType ==
  ASSUME NEW b, Good(b)
  PROVE  /\ Queue(b) \in Seq(Message)
         /\ Len(Queue(b)) = Len(b.order) /\ Len(b.order) \in Nat
         /\ \A i \in 1 .. Len(b.order) :
              /\ b.order[i] \in DOMAIN b.pending
              /\ Queue(b)[i] = b.pending[b.order[i]]
              /\ Key(Queue(b)[i]) = b.order[i]
<1>1. /\ Len(b.order) \in Nat
      /\ b.pending \in [DOMAIN b.pending -> Message]
      /\ DOMAIN b.pending = {b.order[i] : i \in 1 .. Len(b.order)}
      /\ \A k \in DOMAIN b.pending : Key(b.pending[k]) = k
  BY LenProperties DEF Good, IsBuffer, Consistent
<1>2. Queue(b) \in [1 .. Len(b.order) -> Message]
  BY <1>1 DEF Queue
<1>3. Queue(b) \in Seq(Message) /\ Len(Queue(b)) = Len(b.order)
  BY <1>1, <1>2
<1> QED  BY <1>1, <1>3 DEF Queue

\* An overflow drops the front of the queue.
LEMMA QueueOverflow ==
  ASSUME NEW b, Good(b)
  PROVE  Queue(HandleOverflow(b)) = SubSeq(Queue(b), DropCount(b) + 1, Len(Queue(b)))
<1> DEFINE n == DropCount(b)
           c == HandleOverflow(b)
           q == Queue(b)
           r == Queue(c)
<1>1. /\ Good(c)
      /\ n \in 0 .. Len(b.order)
      /\ Len(c.order) = Len(b.order) - n
      /\ \A i \in 1 .. Len(c.order) : c.order[i] = b.order[i + n]
      /\ c.pending = Without(b.pending, FrontKeys(b, n))
  BY OverflowGood
<1> HIDE DEF n, c
<1>2. /\ q \in Seq(Message) /\ Len(q) = Len(b.order) /\ Len(b.order) \in Nat
      /\ \A i \in 1 .. Len(b.order) : q[i] = b.pending[b.order[i]]
  BY QueueType
<1>3. /\ r \in Seq(Message) /\ Len(r) = Len(c.order)
      /\ \A i \in 1 .. Len(c.order) : c.order[i] \in DOMAIN c.pending /\ r[i] = c.pending[c.order[i]]
  BY <1>1, QueueType
<1>4. \A k \in DOMAIN c.pending : c.pending[k] = b.pending[k]
  <2> DEFINE f == b.pending
             K == FrontKeys(b, n)
  <2>1. f \in [DOMAIN f -> Message] /\ c.pending = Without(f, K)
    BY <1>1 DEF Good, IsBuffer
  <2> HIDE DEF f, K
  <2>2. /\ DOMAIN Without(f, K) = DOMAIN f \ K
        /\ Without(f, K) \in [DOMAIN f \ K -> Message]
        /\ \A k \in DOMAIN f \ K : Without(f, K)[k] = f[k]
    BY <2>1, WithoutType
  <2>3. \A k \in DOMAIN c.pending : c.pending[k] = f[k]
    BY <2>1, <2>2
  <2> QED  BY <2>3 DEF f
<1> HIDE DEF q, r
<1>5. \A i \in 1 .. Len(r) : r[i] = q[i + n]
  <2> SUFFICES ASSUME NEW i \in 1 .. Len(r) PROVE r[i] = q[i + n]
    OBVIOUS
  <2>1. i \in 1 .. Len(c.order) /\ i + n \in 1 .. Len(b.order)
    BY <1>1, <1>2, <1>3
  <2>2. r[i] = b.pending[b.order[i + n]]
    BY <2>1, <1>1, <1>3, <1>4
  <2> QED  BY <2>1, <2>2, <1>2
<1> DEFINE s == SubSeq(q, n + 1, Len(q))
<1>6. /\ s \in Seq(Message)
      /\ Len(s) = Len(q) - n
      /\ \A i \in 1 .. Len(q) - n : s[i] = q[i + n]
  <2>1. \A i \in n + 1 .. Len(q) : q[i] \in Message
    BY <1>1, <1>2, ElementOfSeq
  <2>2. /\ s \in Seq(Message)
        /\ Len(s) = IF n + 1 <= Len(q) THEN Len(q) - (n + 1) + 1 ELSE 0
        /\ \A i \in 1 .. Len(q) - (n + 1) + 1 : s[i] = q[(n + 1) + i - 1]
    BY <2>1, <1>1, <1>2, SubSeqProperties
  <2> HIDE DEF s
  <2> QED  BY <2>2, <1>1, <1>2
<1> HIDE DEF s
<1>7. Len(r) = Len(s) /\ \A i \in 1 .. Len(r) : r[i] = s[i]
  BY <1>1, <1>2, <1>3, <1>5, <1>6
<1>8. r = s
  BY <1>3, <1>6, <1>7, SeqEqual
<1> QED  BY <1>8 DEF r, s, q, c, n

\* Filing a message replaces the message of its key where it stands, or adds it
\* at the end.
LEMMA QueuePut ==
  ASSUME NEW b, Good(b), NEW m \in Message, ~IsPriority(m),
         Key(m) \notin DOMAIN b.pending => b.size < MaxBufferSize
  PROVE  LET q == Queue(b) IN
         \/ \E i \in 1 .. Len(q) : Key(q[i]) = Key(m) /\ Queue(Put(b, m)) = [q EXCEPT ![i] = m]
         \/ /\ \A i \in 1 .. Len(q) : Key(q[i]) # Key(m)
            /\ Len(q) < MaxBufferSize
            /\ Queue(Put(b, m)) = Append(q, m)
<1> DEFINE q == Queue(b)
           c == Put(b, m)
           r == Queue(c)
           key == Key(m)
           f == b.pending
<1>1. /\ Good(c)
      /\ c.pending = With(f, key, m)
      /\ c.order = IF key \notin DOMAIN f THEN Append(b.order, key) ELSE b.order
  BY PutGood
<1>2. /\ q \in Seq(Message) /\ Len(q) = Len(b.order) /\ Len(b.order) \in Nat
      /\ \A i \in 1 .. Len(b.order) :
           b.order[i] \in DOMAIN f /\ q[i] = f[b.order[i]] /\ Key(q[i]) = b.order[i]
  BY QueueType
<1> HIDE DEF c
<1>3. /\ r \in Seq(Message) /\ Len(r) = Len(c.order)
      /\ \A i \in 1 .. Len(c.order) : r[i] = c.pending[c.order[i]]
  BY <1>1, QueueType
<1>4. /\ b.order \in Seq(Keys) /\ b.size = Len(b.order)
      /\ f \in [DOMAIN f -> Message] /\ DOMAIN f = {b.order[i] : i \in 1 .. Len(b.order)}
      /\ \A i, j \in 1 .. Len(b.order) : b.order[i] = b.order[j] => i = j
  BY DEF Good, IsBuffer, Consistent
<1> HIDE DEF q, r, f
<1>5. c.pending[key] = m /\ \A x \in DOMAIN f \ {key} : c.pending[x] = f[x]
  <2> HIDE DEF key
  <2>1. /\ DOMAIN With(f, key, m) = DOMAIN f \cup {key}
        /\ With(f, key, m) \in [DOMAIN f \cup {key} -> Message]
        /\ With(f, key, m)[key] = m
        /\ \A x \in DOMAIN f \ {key} : With(f, key, m)[x] = f[x]
    BY <1>4, WithType
  <2> QED  BY <2>1, <1>1
<1>6. CASE key \in DOMAIN f
  <2>1. PICK i \in 1 .. Len(b.order) : b.order[i] = key
    BY <1>4, <1>6
  <2>2. c.order = b.order
    BY <1>1, <1>6
  <2> DEFINE t == [q EXCEPT ![i] = m]
  <2>3. /\ t \in Seq(Message) /\ Len(t) = Len(q)
        /\ \A j \in 1 .. Len(q) : t[j] = IF j = i THEN m ELSE q[j]
    BY <2>1, <1>2, ExceptSeq
  <2> HIDE DEF t
  <2>4. \A j \in 1 .. Len(r) : r[j] = t[j]
    <3> SUFFICES ASSUME NEW j \in 1 .. Len(r) PROVE r[j] = t[j]
      OBVIOUS
    <3>1. j \in 1 .. Len(b.order) /\ r[j] = c.pending[b.order[j]]
      BY <1>3, <2>2
    <3>2. CASE j = i
      BY <3>1, <3>2, <2>1, <2>3, <1>2, <1>5
    <3>3. CASE j # i
      <4>1. b.order[j] # key
        BY <3>1, <3>3, <2>1, <1>4
      <4> QED  BY <4>1, <3>1, <3>3, <2>3, <1>2, <1>5
    <3> QED  BY <3>2, <3>3
  <2>5. Len(r) = Len(t)
    BY <1>2, <1>3, <2>2, <2>3
  <2>6. r = t
    BY <1>3, <2>3, <2>4, <2>5, SeqEqual
  <2>7. i \in 1 .. Len(q) /\ Key(q[i]) = key
    BY <1>2, <2>1
  <2> QED  BY <2>6, <2>7 DEF t, q, r, c
<1>7. CASE key \notin DOMAIN f
  <2>1. c.order = Append(b.order, key)
    BY <1>1, <1>7
  <2>2. /\ Len(c.order) = Len(b.order) + 1
        /\ \A i \in 1 .. Len(b.order) : c.order[i] = b.order[i]
        /\ c.order[Len(b.order) + 1] = key
    BY <2>1, <1>4, KeyType, AppendProperties
  <2> DEFINE t == Append(q, m)
  <2>3. /\ t \in Seq(Message) /\ Len(t) = Len(q) + 1
        /\ \A i \in 1 .. Len(q) : t[i] = q[i]
        /\ t[Len(q) + 1] = m
    BY <1>2, AppendProperties
  <2> HIDE DEF t
  <2>4. \A j \in 1 .. Len(r) : r[j] = t[j]
    <3> SUFFICES ASSUME NEW j \in 1 .. Len(r) PROVE r[j] = t[j]
      OBVIOUS
    <3>1. j \in 1 .. Len(b.order) \/ j = Len(b.order) + 1
      BY <1>2, <1>3, <2>2
    <3>2. j \in 1 .. Len(c.order) /\ r[j] = c.pending[c.order[j]]
      BY <1>3
    <3>3. CASE j = Len(b.order) + 1
      BY <3>2, <3>3, <2>2, <2>3, <1>2, <1>5
    <3>4. CASE j \in 1 .. Len(b.order)
      <4>1. c.order[j] = b.order[j] /\ b.order[j] \in DOMAIN f \ {key}
        BY <3>4, <2>2, <1>2, <1>7
      <4>2. r[j] = f[b.order[j]]
        BY <4>1, <3>2, <1>5
      <4> QED  BY <4>2, <3>4, <2>3, <1>2
    <3> QED  BY <3>1, <3>3, <3>4
  <2>5. Len(r) = Len(t)
    BY <1>2, <1>3, <2>2, <2>3
  <2>6. r = t
    BY <1>3, <2>3, <2>4, <2>5, SeqEqual
  <2>7. Len(q) < MaxBufferSize
    BY <1>2, <1>4, <1>7 DEF f
  <2>8. \A i \in 1 .. Len(q) : Key(q[i]) # key
    BY <1>2, <1>7
  <2> QED  BY <2>6, <2>7, <2>8 DEF t, q, r, c
<1> QED  BY <1>6, <1>7

\* pop serves the head of the queue when no priority message waits.
LEMMA QueuePop ==
  ASSUME NEW b, Good(b), CanPop(b), b.prio = <<>>
  PROVE  /\ Queue(b) # <<>>
         /\ Popped(b) = Head(Queue(b))
         /\ Queue(AfterPop(b)) = Tail(Queue(b))
<1> DEFINE q == Queue(b)
           c == AfterPop(b)
           r == Queue(c)
           f == b.pending
           key == b.order[1]
<1>1. /\ Good(c) /\ b.order # <<>> /\ Popped(b) = f[key]
      /\ c.order = Tail(b.order) /\ c.pending = Without(f, {key})
  BY PopGood
<1>2. /\ q \in Seq(Message) /\ Len(q) = Len(b.order) /\ Len(b.order) \in Nat
      /\ \A i \in 1 .. Len(b.order) : b.order[i] \in DOMAIN f /\ q[i] = f[b.order[i]]
  BY QueueType
<1> HIDE DEF c
<1>3. /\ r \in Seq(Message) /\ Len(r) = Len(c.order)
      /\ \A i \in 1 .. Len(c.order) : c.order[i] \in DOMAIN c.pending /\ r[i] = c.pending[c.order[i]]
  BY <1>1, QueueType
<1>4. b.order \in Seq(Keys) /\ f \in [DOMAIN f -> Message]
  BY DEF Good, IsBuffer
<1>5. /\ Len(c.order) = Len(b.order) - 1
      /\ \A i \in 1 .. Len(c.order) : c.order[i] = b.order[i + 1]
  BY <1>1, <1>4, HeadTailProperties
<1>6. Len(b.order) >= 1
  BY <1>1, <1>2, <1>4, EmptySeq
<1>7. q # <<>> /\ Head(q) = f[key]
  <2>1. q # <<>> /\ q[1] = f[key]
    BY <1>2, <1>6
  <2>2. Head(q) = q[1]
    BY <1>2, <2>1
  <2> QED  BY <2>1, <2>2
<1>8. \A k \in DOMAIN c.pending : c.pending[k] = f[k]
  <2> DEFINE K == {key}
  <2>1. c.pending = Without(f, K)
    BY <1>1
  <2> HIDE DEF f, K
  <2>2. /\ DOMAIN Without(f, K) = DOMAIN f \ K
        /\ Without(f, K) \in [DOMAIN f \ K -> Message]
        /\ \A k \in DOMAIN f \ K : Without(f, K)[k] = f[k]
    BY <1>4, WithoutType
  <2> QED  BY <2>1, <2>2
<1> HIDE DEF q, r, f
<1> DEFINE t == Tail(q)
<1>9. /\ t \in Seq(Message) /\ Len(t) = Len(q) - 1
      /\ \A i \in 1 .. Len(t) : t[i] = q[i + 1]
  BY <1>2, <1>7, HeadTailProperties
<1> HIDE DEF t
<1>10. \A i \in 1 .. Len(r) : r[i] = t[i]
  <2> SUFFICES ASSUME NEW i \in 1 .. Len(r) PROVE r[i] = t[i]
    OBVIOUS
  <2>1. i \in 1 .. Len(c.order) /\ i \in 1 .. Len(t) /\ i + 1 \in 1 .. Len(b.order)
    BY <1>2, <1>3, <1>5, <1>9
  <2>2. r[i] = f[b.order[i + 1]]
    BY <2>1, <1>3, <1>5, <1>8
  <2> QED  BY <2>1, <2>2, <1>2, <1>9
<1>11. Len(r) = Len(t)
  BY <1>2, <1>3, <1>5, <1>9
<1>12. r = t
  BY <1>3, <1>9, <1>10, <1>11, SeqEqual
<1> QED  BY <1>1, <1>7, <1>12 DEF q, r, t, c

-----------------------------------------------------------------------------
\* The refinement.

\* A message of the feed is one that may arrive.
LEMMA FeedArrives ==
  ASSUME nextSeq \in Nat \ {0}, nextSeq <= MaxMessages, NEW m \in Feed
  PROVE  m \in Inserted
<1>1. PICK kind \in FeedKinds : m \in MessagesOf(kind, nextSeq)
  BY DEF Feed
<1>2. nextSeq \in 1 .. MaxMessages
  BY FeedAssumption
<1> QED  BY <1>1, <1>2 DEF Inserted

\* The mailbox classifies messages as the buffer does.
LEMMA SameMessages ==
  ASSUME NEW m
  PROVE  /\ Mailbox!IsPriority(m) <=> IsPriority(m)
         /\ Mailbox!Key(m) = Key(m)
<1>1. Mailbox!IsPriority(m) <=> IsPriority(m)
  BY DEF Mailbox!IsPriority, IsPriority, Mailbox!PrivateKinds, PrivateKinds,
         Mailbox!ControlKinds, ControlKinds
<1>2. Mailbox!Key(m) = Key(m)
  BY DEF Mailbox!Key, Key, Mailbox!Channel, Channel, Mailbox!Kinds, Kinds,
         Mailbox!MarketKinds, MarketKinds, Mailbox!PrivateKinds, PrivateKinds,
         Mailbox!ControlKinds, ControlKinds
<1> QED  BY <1>1, <1>2

LEMMA InitMailbox == Init => Mailbox!Init
<1> SUFFICES ASSUME Init PROVE Mailbox!Init
  OBVIOUS
<1>1. buf = EmptyBuffer /\ out = <<>>
  BY DEF Init
<1>2. buf.prio = <<>> /\ buf.order = <<>>
  BY <1>1 DEF EmptyBuffer
<1>3. Waiting = <<>>
  BY <1>2 DEF Waiting
<1> QED  BY <1>1, <1>2, <1>3 DEF Mailbox!Init

\* One call of the buffer is one operation of the mailbox.
LEMMA NextMailbox == IInv /\ [Next]_vars => [Mailbox!Next]_(Mailbox!mailbox)
<1> SUFFICES ASSUME IInv, [Next]_vars PROVE [Mailbox!Next]_(Mailbox!mailbox)
  OBVIOUS
<1>0. Good(buf) /\ nextSeq \in Nat \ {0}
  BY DEF IInv, TypeOK, BufferConsistent, Good
<1>q. Waiting = Queue(buf) /\ Waiting' = Queue(buf')
  BY DEF Waiting, Queue
<1>1. ASSUME NEW m \in Feed, nextSeq <= MaxMessages, IsPriority(m),
             buf' = PushPriority(buf, m), out' = out
      PROVE  Mailbox!Next
  <2>1. buf'.prio = Append(buf.prio, m) /\ buf'.pending = buf.pending /\ buf'.order = buf.order
    BY <1>0, <1>1 DEF PushPriority, Good, IsBuffer
  <2>2. Waiting' = Waiting
    BY <2>1, <1>q DEF Queue
  <2>3. Mailbox!AcceptPriority(m)
    BY <2>1, <2>2, <1>1, SameMessages DEF Mailbox!AcceptPriority
  <2> QED  BY <2>3, <1>0, <1>1, FeedArrives DEF Mailbox!Next
<1>2. CASE DoInsert
  <2>1. PICK m \in Feed, conflate \in BOOLEAN : buf' = Insert(buf, m, conflate)
    BY <1>2 DEF DoInsert
  <2>2. out' = out /\ nextSeq <= MaxMessages /\ m \in Message
    BY <1>0, <1>2, FeedType DEF DoInsert
  <2>3. CASE IsPriority(m)
    <3>1. buf' = PushPriority(buf, m)
      BY <2>1, <2>3 DEF Insert, Overflows
    <3> QED  BY <3>1, <2>2, <2>3, <1>1
  <2>4. CASE ~IsPriority(m)
    <3> DEFINE r == Roomy(buf, m, conflate)
               n == IF Overflows(buf, m, conflate) THEN DropCount(buf) ELSE 0
    <3>1. /\ Good(r) /\ buf' = Put(r, m)
          /\ Key(m) \notin DOMAIN r.pending => r.size < MaxBufferSize
      BY <2>1, <2>2, <2>4, <1>0, InsertIsPut
    <3>2. /\ Waiting \in Seq(Message) /\ Len(Waiting) = Len(buf.order)
          /\ Len(buf.order) \in Nat /\ buf.size = Len(buf.order) /\ buf.size <= MaxBufferSize
      BY <1>0, <1>q, QueueType DEF Good, Consistent
    <3>3. n \in 0 .. Len(Waiting) /\ (n > 0 => Len(Waiting) = MaxBufferSize)
      <4>1. DropCount(buf) \in 0 .. Len(buf.order)
        BY <1>0, OverflowGood
      <4>2. Overflows(buf, m, conflate) => buf.size = MaxBufferSize
        BY <3>2, BufferAssumption DEF Overflows
      <4> HIDE DEF Overflows, DropCount
      <4> QED  BY <4>1, <4>2, <3>2
    <3>4. Queue(r) = SubSeq(Waiting, n + 1, Len(Waiting))
      <4>1. CASE Overflows(buf, m, conflate)
        BY <4>1, <1>0, <1>q, QueueOverflow DEF Roomy
      <4>2. CASE ~Overflows(buf, m, conflate)
        <5>1. Queue(r) = Waiting /\ n = 0
          BY <4>2, <1>q DEF Roomy
        <5>2. SubSeq(Waiting, 1, Len(Waiting)) = Waiting
          BY <3>2, SubSeqFull
        <5> QED  BY <5>1, <5>2
      <4> QED  BY <4>1, <4>2
    <3>5. Mailbox!Join(m, n)
      <4> DEFINE q == Queue(r)
      <4>1. \/ \E i \in 1 .. Len(q) : Key(q[i]) = Key(m) /\ Waiting' = [q EXCEPT ![i] = m]
            \/ /\ \A i \in 1 .. Len(q) : Key(q[i]) # Key(m)
               /\ Len(q) < MaxBufferSize
               /\ Waiting' = Append(q, m)
        BY <3>1, <2>2, <2>4, <1>q, QueuePut
      <4>2. q = SubSeq(Waiting, n + 1, Len(Waiting))
        BY <3>4
      <4> HIDE DEF q, n, r
      <4>3. \/ \E i \in 1 .. Len(q) :
                 Mailbox!Key(q[i]) = Mailbox!Key(m) /\ Waiting' = [q EXCEPT ![i] = m]
            \/ /\ \A i \in 1 .. Len(q) : Mailbox!Key(q[i]) # Mailbox!Key(m)
               /\ Len(q) < MaxBufferSize
               /\ Waiting' = Append(q, m)
        BY <4>1, SameMessages, Zenon
      <4> QED  BY <4>2, <4>3, Zenon DEF Mailbox!Join
    <3>6. buf'.prio = buf.prio
      <4>1. r.prio = buf.prio
        BY <1>0, OverflowGood DEF Roomy
      <4>2. buf'.prio = r.prio
        BY <3>1, <2>2, <2>4, PutGood
      <4> QED  BY <4>1, <4>2
    <3> HIDE DEF n, r
    <3>7. Mailbox!Accept(m)
      BY <3>3, <3>5, <3>6, <2>2, <2>4, SameMessages DEF Mailbox!Accept
    <3> QED  BY <3>7, <2>2, <1>0, FeedArrives DEF Mailbox!Next
  <2> QED  BY <2>3, <2>4
<1>3. CASE DoPushPriority
  <2>1. PICK m \in Feed : IsPriority(m) /\ buf' = PushPriority(buf, m)
    BY <1>3 DEF DoPushPriority
  <2> QED  BY <2>1, <1>1, <1>3 DEF DoPushPriority
<1>4. CASE DoPop
  <2>1. /\ CanPop(buf) /\ buf' = AfterPop(buf) /\ out' = Append(out, Popped(buf))
    BY <1>4 DEF DoPop
  <2>2. CASE buf.prio # <<>>
    <3>1. /\ buf'.prio = Tail(buf.prio) /\ buf'.pending = buf.pending /\ buf'.order = buf.order
          /\ Popped(buf) = Head(buf.prio)
      BY <2>1, <2>2, <1>0 DEF AfterPop, Popped, Good, IsBuffer
    <3>2. Waiting' = Waiting
      BY <3>1, <1>q DEF Queue
    <3>3. Mailbox!ServePriority
      BY <3>1, <3>2, <2>1, <2>2 DEF Mailbox!ServePriority
    <3> QED  BY <3>3 DEF Mailbox!Next
  <2>3. CASE buf.prio = <<>>
    <3>1. /\ Waiting # <<>> /\ Waiting' = Tail(Waiting) /\ Popped(buf) = Head(Waiting)
      BY <2>1, <2>3, <1>0, <1>q, QueuePop
    <3>2. buf'.prio = buf.prio
      BY <2>1, <2>3, <1>0 DEF AfterPop, Good, IsBuffer
    <3>3. Mailbox!Serve
      BY <3>1, <3>2, <2>1, <2>3 DEF Mailbox!Serve
    <3> QED  BY <3>3 DEF Mailbox!Next
  <2> QED  BY <2>2, <2>3
<1>5. CASE DoClear
  <2>1. buf'.prio = <<>> /\ buf'.order = <<>> /\ out' = out
    BY <1>5 DEF DoClear, EmptyBuffer
  <2>2. Waiting' = <<>>
    BY <2>1, <1>q DEF Queue
  <2> QED  BY <2>1, <2>2 DEF Mailbox!Discard, Mailbox!Next
<1>6. CASE UNCHANGED vars
  BY <1>6, <1>q DEF vars, Mailbox!mailbox
<1> QED  BY <1>2, <1>3, <1>4, <1>5, <1>6 DEF Next

\* The keyed buffer implements the bounded mailbox, for every limit, overflow
\* batch and sequence of calls.
THEOREM BufferIsMailbox == Spec => ImplementsMailbox
<1>1. Init => Mailbox!Init
  BY InitMailbox
<1>2. IInv /\ [Next]_vars => [Mailbox!Next]_(Mailbox!mailbox)
  BY NextMailbox
<1> QED  BY <1>1, <1>2, InitIInv, NextIInv, PTL DEF Spec, ImplementsMailbox, Mailbox!Spec

=============================================================================
