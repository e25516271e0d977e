---------------------------- MODULE BufferLemmas ----------------------------
(***************************************************************************)
(* What the methods of the keyed buffer do, for every symbol set, every    *)
(* limit and every overflow batch: each takes a good buffer to a good      *)
(* buffer.  The lemmas are about operators, so both the buffer on its own  *)
(* and the connection manager build on them.                               *)
(***************************************************************************)
EXTENDS BufferOps, SequenceTheorems, TLAPS

Good(b) == IsBuffer(b) /\ Consistent(b)

-----------------------------------------------------------------------------
\* Helpers.

\* The key of a message is a key.
LEMMA KeyType ==
  ASSUME NEW m \in Message
  PROVE  Key(m) \in Keys
BY DEF Message, Key, Keys

\* Without and With, and what they make of functions into Message.
LEMMA WithoutIs ==
  ASSUME NEW f, NEW K
  PROVE  /\ DOMAIN Without(f, K) = DOMAIN f \ K
         /\ \A k \in DOMAIN f \ K : Without(f, K)[k] = f[k]
BY DEF Without, Restrict

LEMMA WithIs ==
  ASSUME NEW f, NEW k, NEW v
  PROVE  /\ DOMAIN With(f, k, v) = DOMAIN f \cup {k}
         /\ With(f, k, v)[k] = v
         /\ \A x \in DOMAIN f \ {k} : With(f, k, v)[x] = f[x]
BY DEF With

LEMMA WithoutType ==
  ASSUME NEW f, NEW K, f \in [DOMAIN f -> Message]
  PROVE  /\ DOMAIN Without(f, K) = DOMAIN f \ K
         /\ Without(f, K) \in [DOMAIN f \ K -> Message]
         /\ \A k \in DOMAIN f \ K : Without(f, K)[k] = f[k]
BY DEF Without, Restrict

LEMMA WithType ==
  ASSUME NEW f, NEW k, NEW m \in Message, f \in [DOMAIN f -> Message]
  PROVE  /\ DOMAIN With(f, k, m) = DOMAIN f \cup {k}
         /\ With(f, k, m) \in [DOMAIN f \cup {k} -> Message]
         /\ With(f, k, m)[k] = m
         /\ \A x \in DOMAIN f \ {k} : With(f, k, m)[x] = f[x]
BY DEF With

-----------------------------------------------------------------------------
\* The methods preserve a good buffer.

\* new: the empty buffer is good.
LEMMA EmptyGood == Good(EmptyBuffer)
<1>1. DOMAIN EmptyBuffer.pending = {} /\ EmptyBuffer.order = <<>> /\ EmptyBuffer.prio = <<>>
      /\ EmptyBuffer.size = 0 /\ DOMAIN EmptyBuffer = {"pending", "order", "prio", "size"}
  BY DEF EmptyBuffer
<1>2. EmptyBuffer.pending \in [DOMAIN EmptyBuffer.pending -> Message]
  BY DEF EmptyBuffer
<1>3. <<>> \in Seq(Keys) /\ <<>> \in Seq(Message) /\ Len(<<>>) = 0
  OBVIOUS
<1>4. IsBuffer(EmptyBuffer)
  BY <1>1, <1>2, <1>3 DEF IsBuffer
<1>5. Consistent(EmptyBuffer)
  BY <1>1, <1>3, BufferAssumption DEF Consistent
<1> QED  BY <1>4, <1>5 DEF Good

\* push_priority adds to the priority queue only.
LEMMA PushPriorityGood ==
  ASSUME NEW b, Good(b), NEW m \in Message, IsPriority(m)
  PROVE  Good(PushPriority(b, m))
<1> DEFINE c == PushPriority(b, m)
<1>1. /\ DOMAIN c = {"pending", "order", "prio", "size"}
      /\ c.pending = b.pending /\ c.order = b.order /\ c.size = b.size
      /\ c.prio = Append(b.prio, m)
  BY DEF PushPriority, Good, IsBuffer
<1>2. b.prio \in Seq(Message)
  BY DEF Good, IsBuffer
<1>3. /\ Append(b.prio, m) \in Seq(Message)
      /\ Len(Append(b.prio, m)) = Len(b.prio) + 1
      /\ \A i \in 1 .. Len(b.prio) : Append(b.prio, m)[i] = b.prio[i]
      /\ Append(b.prio, m)[Len(b.prio) + 1] = m
  BY <1>2, AppendProperties
<1>4. IsBuffer(c)
  BY <1>1, <1>3 DEF IsBuffer, Good
<1>5. \A i \in 1 .. Len(c.prio) : IsPriority(c.prio[i])
  <2> SUFFICES ASSUME NEW i \in 1 .. Len(c.prio) PROVE IsPriority(c.prio[i])
    OBVIOUS
  <2>1. Len(b.prio) \in Nat
    BY <1>2, LenProperties
  <2>2. i \in 1 .. Len(b.prio) \/ i = Len(b.prio) + 1
    BY <2>1, <1>1, <1>3
  <2> QED  BY <2>2, <1>1, <1>3 DEF Good, Consistent
<1>6. Consistent(c)
  BY <1>1, <1>5 DEF Good, Consistent
<1> QED  BY <1>4, <1>6 DEF Good

\* handle_overflow drops exactly the first DropCount keys, and never makes the
\* priority queue take one of them: no waiting message is a priority message.
LEMMA OverflowGood ==
  ASSUME NEW b, Good(b)
  PROVE  LET n == DropCount(b)
             c == HandleOverflow(b)
         IN  /\ Good(c)
             /\ n \in 0 .. Len(b.order)
             /\ c.order = SubSeq(b.order, n + 1, Len(b.order))
             /\ Len(c.order) = Len(b.order) - n
             /\ \A i \in 1 .. Len(c.order) : c.order[i] = b.order[i + n]
             /\ c.pending = Without(b.pending, FrontKeys(b, n))
             /\ c.prio = b.prio
<1> DEFINE n == DropCount(b)
           c == HandleOverflow(b)
<1>0. /\ b.order \in Seq(Keys) /\ Len(b.order) \in Nat /\ b.size = Len(b.order)
      /\ b.pending \in [DOMAIN b.pending -> Message]
      /\ DOMAIN b.pending = {b.order[i] : i \in 1 .. Len(b.order)}
  BY LenProperties DEF Good, IsBuffer, Consistent
<1>1. n \in 0 .. Len(b.order)
  BY <1>0, BufferAssumption DEF DropCount
<1>2. ~ \E k \in FrontKeys(b, n) \cap DOMAIN b.pending : IsPriority(b.pending[k])
  BY DEF Good, Consistent
<1>3. /\ DOMAIN c = {"pending", "order", "prio", "size"}
      /\ c.order = SubSeq(b.order, n + 1, Len(b.order))
      /\ c.pending = Without(b.pending, FrontKeys(b, n))
      /\ c.prio = b.prio
      /\ c.size = SaturatingSub(b.size, n)
  BY <1>2 DEF HandleOverflow
<1>4. /\ c.order \in Seq(Keys)
      /\ Len(c.order) = Len(b.order) - n
      /\ \A i \in 1 .. Len(c.order) : c.order[i] = b.order[i + n]
  <2> HIDE DEF c, n
  <2>1. n + 1 \in 1 .. Len(b.order) + 1 /\ Len(b.order) \in n .. Len(b.order)
    BY <1>0, <1>1
  <2>2. /\ SubSeq(b.order, n + 1, Len(b.order)) \in Seq(Keys)
        /\ Len(SubSeq(b.order, n + 1, Len(b.order))) =
             IF n + 1 <= Len(b.order) THEN Len(b.order) - (n + 1) + 1 ELSE 0
        /\ \A i \in 1 .. Len(b.order) - (n + 1) + 1 :
             SubSeq(b.order, n + 1, Len(b.order))[i] = b.order[(n + 1) + i - 1]
    BY <2>1, <1>0, <1>1, SubSeqProperties
  <2> QED  BY <2>2, <1>0, <1>1, <1>3
<1>5. c.size = Len(b.order) - n
  BY <1>0, <1>1, <1>3 DEF SaturatingSub
<1>6. /\ DOMAIN c.pending = DOMAIN b.pending \ FrontKeys(b, n)
      /\ c.pending \in [DOMAIN c.pending -> Message]
      /\ \A k \in DOMAIN c.pending : c.pending[k] = b.pending[k]
  <2> DEFINE f == b.pending
             K == FrontKeys(b, n)
  <2>1. f \in [DOMAIN f -> Message]
    BY <1>0
  <2>2. c.pending = Without(f, K)
    BY <1>3
  <2> HIDE DEF f, K, c, n
  <2>3. /\ DOMAIN Without(f, K) = DOMAIN f \ K
        /\ Without(f, K) \in [DOMAIN f \ K -> Message]
        /\ \A k \in DOMAIN f \ K : Without(f, K)[k] = f[k]
    BY <2>1, WithoutType
  <2>4. /\ DOMAIN c.pending = DOMAIN f \ K
        /\ c.pending \in [DOMAIN c.pending -> Message]
        /\ \A k \in DOMAIN c.pending : c.pending[k] = f[k]
    BY <2>2, <2>3
  <2> QED  BY <2>4 DEF f, K
<1>7. IsBuffer(c)
  BY <1>0, <1>1, <1>3, <1>4, <1>5, <1>6 DEF IsBuffer, Good
<1>8. DOMAIN c.pending = {c.order[i] : i \in 1 .. Len(c.order)}
  <2>1. \A i, j \in 1 .. Len(b.order) : b.order[i] = b.order[j] => i = j
    BY DEF Good, Consistent
  <2>2. ASSUME NEW k \in DOMAIN c.pending PROVE \E i \in 1 .. Len(c.order) : c.order[i] = k
    <3>1. PICK j \in 1 .. Len(b.order) : b.order[j] = k
      BY <2>2, <1>0, <1>6
    <3>2. j > n
      BY <3>1, <1>1, <1>6 DEF FrontKeys
    <3>3. j - n \in 1 .. Len(c.order) /\ (j - n) + n = j
      BY <3>2, <1>0, <1>1, <1>4
    <3> QED  BY <3>1, <3>3, <1>4
  <2>3. ASSUME NEW i \in 1 .. Len(c.order) PROVE c.order[i] \in DOMAIN c.pending
    <3>1. i + n \in 1 .. Len(b.order) /\ c.order[i] = b.order[i + n]
      BY <1>0, <1>1, <1>4
    <3>2. b.order[i + n] \notin FrontKeys(b, n)
      BY <3>1, <2>1, <1>0, <1>1 DEF FrontKeys
    <3> QED  BY <3>1, <3>2, <1>0, <1>6
  <2> QED  BY <2>2, <2>3
<1>9. \A i, j \in 1 .. Len(c.order) : c.order[i] = c.order[j] => i = j
  <2> SUFFICES ASSUME NEW i \in 1 .. Len(c.order), NEW j \in 1 .. Len(c.order),
                      c.order[i] = c.order[j]
               PROVE  i = j
    OBVIOUS
  <2>1. i + n \in 1 .. Len(b.order) /\ j + n \in 1 .. Len(b.order)
    BY <1>0, <1>1, <1>4
  <2>2. b.order[i + n] = b.order[j + n]
    BY <1>4
  <2>3. i + n = j + n
    BY <2>1, <2>2 DEF Good, Consistent
  <2> QED  BY <2>3, <1>1
<1>10. c.size = Len(c.order) /\ c.size <= MaxBufferSize
  BY <1>0, <1>1, <1>4, <1>5, BufferAssumption DEF Good, Consistent
<1>11. Consistent(c)
  BY <1>3, <1>6, <1>8, <1>9, <1>10 DEF Consistent, Good
<1> HIDE DEF c, n
<1> QED  BY <1>1, <1>3, <1>4, <1>7, <1>11 DEF Good, c, n

\* Filing a message under its key, with room for one more key.
LEMMA PutGood ==
  ASSUME NEW b, Good(b), NEW m \in Message, ~IsPriority(m),
         Key(m) \notin DOMAIN b.pending => b.size < MaxBufferSize
  PROVE  LET c == Put(b, m) IN
         /\ Good(c)
         /\ c.pending = With(b.pending, Key(m), m)
         /\ c.order = IF Key(m) \notin DOMAIN b.pending THEN Append(b.order, Key(m))
                      ELSE b.order
         /\ c.prio = b.prio
<1> DEFINE c == Put(b, m)
           key == Key(m)
<1>0. /\ b.order \in Seq(Keys) /\ Len(b.order) \in Nat /\ b.size = Len(b.order)
      /\ b.pending \in [DOMAIN b.pending -> Message] /\ DOMAIN b.pending \subseteq Keys
      /\ DOMAIN b.pending = {b.order[i] : i \in 1 .. Len(b.order)}
  BY LenProperties DEF Good, IsBuffer, Consistent
<1>1. key \in Keys
  BY KeyType
<1>2. /\ DOMAIN c = {"pending", "order", "prio", "size"}
      /\ c.pending = With(b.pending, key, m)
      /\ c.order = IF key \notin DOMAIN b.pending THEN Append(b.order, key) ELSE b.order
      /\ c.prio = b.prio
      /\ c.size = IF key \notin DOMAIN b.pending THEN b.size + 1 ELSE b.size
  BY DEF Put, Good, IsBuffer
<1> HIDE DEF c, key
<1>3. /\ DOMAIN c.pending = DOMAIN b.pending \cup {key}
      /\ c.pending \in [DOMAIN c.pending -> Message]
      /\ c.pending[key] = m
      /\ \A x \in DOMAIN b.pending \ {key} : c.pending[x] = b.pending[x]
  <2> DEFINE f == b.pending
  <2>1. f \in [DOMAIN f -> Message] /\ c.pending = With(f, key, m)
    BY <1>0, <1>2
  <2> HIDE DEF f
  <2>2. /\ DOMAIN With(f, key, m) = DOMAIN f \cup {key}
        /\ With(f, key, m) \in [DOMAIN f \cup {key} -> Message]
        /\ With(f, key, m)[key] = m
        /\ \A x \in DOMAIN f \ {key} : With(f, key, m)[x] = f[x]
    BY <2>1, WithType
  <2>3. /\ DOMAIN c.pending = DOMAIN f \cup {key}
        /\ c.pending \in [DOMAIN c.pending -> Message]
        /\ c.pending[key] = m
        /\ \A x \in DOMAIN f \ {key} : c.pending[x] = f[x]
    BY <2>1, <2>2
  <2> QED  BY <2>3 DEF f
<1>4. \A k \in DOMAIN c.pending : Key(c.pending[k]) = k /\ ~IsPriority(c.pending[k])
  BY <1>3 DEF Good, Consistent, key
<1>5. CASE key \in DOMAIN b.pending
  <2>1. c.order = b.order /\ c.size = b.size /\ DOMAIN c.pending = DOMAIN b.pending
    BY <1>2, <1>3, <1>5
  <2>2. IsBuffer(c)
    BY <2>1, <1>0, <1>2, <1>3 DEF IsBuffer, Good
  <2>3. Consistent(c)
    <3>1. DOMAIN c.pending = {c.order[i] : i \in 1 .. Len(c.order)}
      BY <2>1, <1>0
    <3>2. /\ \A i, j \in 1 .. Len(c.order) : c.order[i] = c.order[j] => i = j
          /\ c.size = Len(c.order) /\ c.size <= MaxBufferSize
      BY <2>1 DEF Good, Consistent
    <3>3. \A i \in 1 .. Len(c.prio) : IsPriority(c.prio[i])
      BY <1>2 DEF Good, Consistent
    <3> QED  BY <3>1, <3>2, <3>3, <1>4 DEF Consistent
  <2> QED  BY <2>2, <2>3, <1>2 DEF Good, c, key
<1>6. CASE key \notin DOMAIN b.pending
  <2>1. /\ c.order = Append(b.order, key) /\ c.size = b.size + 1
        /\ DOMAIN c.pending = DOMAIN b.pending \cup {key}
    BY <1>2, <1>3, <1>6
  <2>2. /\ c.order \in Seq(Keys)
        /\ Len(c.order) = Len(b.order) + 1
        /\ \A i \in 1 .. Len(b.order) : c.order[i] = b.order[i]
        /\ c.order[Len(b.order) + 1] = key
    BY <2>1, <1>0, <1>1, AppendProperties
  <2>3. IsBuffer(c)
    BY <2>1, <2>2, <1>0, <1>1, <1>2, <1>3 DEF IsBuffer, Good
  <2>4. \A i \in 1 .. Len(c.order) : i \in 1 .. Len(b.order) \/ i = Len(b.order) + 1
    BY <2>2, <1>0
  <2>5. DOMAIN c.pending = {c.order[i] : i \in 1 .. Len(c.order)}
    <3>1. \A i \in 1 .. Len(c.order) : c.order[i] \in DOMAIN c.pending
      BY <2>1, <2>2, <2>4, <1>0
    <3>2. ASSUME NEW k \in DOMAIN c.pending PROVE \E i \in 1 .. Len(c.order) : c.order[i] = k
      <4>1. CASE k = key
        BY <4>1, <2>2, <1>0
      <4>2. CASE k \in DOMAIN b.pending
        <5>1. PICK i \in 1 .. Len(b.order) : b.order[i] = k
          BY <4>2, <1>0
        <5>2. i \in 1 .. Len(c.order) /\ c.order[i] = k
          BY <5>1, <2>2, <1>0
        <5> QED  BY <5>2
      <4> QED  BY <4>1, <4>2, <3>2, <2>1
    <3> QED  BY <3>1, <3>2
  <2>6. \A i, j \in 1 .. Len(c.order) : c.order[i] = c.order[j] => i = j
    <3>1. \A i \in 1 .. Len(b.order) : c.order[i] # key
      BY <2>2, <1>0, <1>6
    <3>2. \A i, j \in 1 .. Len(b.order) : b.order[i] = b.order[j] => i = j
      BY DEF Good, Consistent
    <3> SUFFICES ASSUME NEW i \in 1 .. Len(c.order), NEW j \in 1 .. Len(c.order),
                        c.order[i] = c.order[j]
                 PROVE  i = j
      OBVIOUS
    <3>3. CASE i \in 1 .. Len(b.order) /\ j \in 1 .. Len(b.order)
      BY <3>2, <3>3, <2>2
    <3>4. CASE i = Len(b.order) + 1 \/ j = Len(b.order) + 1
      BY <3>1, <3>4, <2>2, <2>4
    <3> QED  BY <3>3, <3>4, <2>4
  <2>7. c.size = Len(c.order) /\ c.size <= MaxBufferSize
    BY <2>1, <2>2, <1>0, <1>6, BufferAssumption DEF key
  <2>8. Consistent(c)
    BY <2>5, <2>6, <2>7, <1>2, <1>4 DEF Good, Consistent
  <2> QED  BY <2>3, <2>8, <1>2 DEF Good, c, key
<1> QED  BY <1>5, <1>6

\* The buffer into which insert files a message that is not a priority message.
Roomy(b, m, conflate) == IF Overflows(b, m, conflate) THEN HandleOverflow(b) ELSE b

\* The overflow check runs before the insertion and always makes room.
LEMMA InsertIsPut ==
  ASSUME NEW b, Good(b), NEW m \in Message, ~IsPriority(m), NEW conflate \in BOOLEAN
  PROVE  LET r == Roomy(b, m, conflate) IN
         /\ Good(r)
         /\ Key(m) \notin DOMAIN r.pending => r.size < MaxBufferSize
         /\ Insert(b, m, conflate) = Put(r, m)
<1>1. CASE Overflows(b, m, conflate)
  <2> DEFINE h == HandleOverflow(b)
  <2>1. /\ Good(h)
        /\ Len(h.order) = Len(b.order) - DropCount(b)
        /\ DropCount(b) \in 0 .. Len(b.order)
    BY OverflowGood
  <2> HIDE DEF h
  <2>2. /\ b.size = Len(b.order) /\ b.size \in Nat /\ b.size >= MaxBufferSize
        /\ h.size = Len(h.order)
    <3>1. b.size >= MaxBufferSize
      BY <1>1 DEF Overflows
    <3>2. b.size = Len(b.order) /\ b.size \in Nat
      BY DEF Good, Consistent, IsBuffer
    <3>3. h.size = Len(h.order)
      BY <2>1 DEF Good, Consistent
    <3> QED  BY <3>1, <3>2, <3>3
  <2>3. h.size < MaxBufferSize
    <3>1. b.size <= MaxBufferSize
      BY DEF Good, Consistent
    <3>2. Len(b.order) = MaxBufferSize /\ MaxBufferSize >= 1
      BY <2>2, <3>1, BufferAssumption
    <3>3. DropCount(b) >= 1 /\ DropCount(b) \in Nat
      BY <3>2, BufferAssumption DEF DropCount
    <3> HIDE DEF DropCount
    <3>4. Len(h.order) = MaxBufferSize - DropCount(b)
      BY <2>1, <3>2
    <3> QED  BY <2>2, <3>2, <3>3, <3>4, BufferAssumption
  <2>4. Insert(b, m, conflate) = Put(h, m) /\ Roomy(b, m, conflate) = h
    BY <1>1 DEF Insert, Roomy, h
  <2> QED  BY <2>1, <2>3, <2>4
<1>2. CASE ~Overflows(b, m, conflate)
  <2>1. Insert(b, m, conflate) = Put(b, m) /\ Roomy(b, m, conflate) = b
    BY <1>2 DEF Insert, Roomy
  <2>2. Key(m) \notin DOMAIN b.pending => b.size < MaxBufferSize
    BY <1>2, BufferAssumption DEF Overflows, Overwrites, Good, IsBuffer
  <2> QED  BY <2>1, <2>2
<1> QED  BY <1>1, <1>2

\* insert sends a priority message to the priority queue.
LEMMA InsertPriority ==
  ASSUME NEW b, Good(b), NEW m \in Message, IsPriority(m), NEW conflate \in BOOLEAN
  PROVE  /\ Insert(b, m, conflate) = PushPriority(b, m)
         /\ PushPriority(b, m).pending = b.pending
         /\ PushPriority(b, m).order = b.order
         /\ PushPriority(b, m).prio = Append(b.prio, m)
<1>1. ~Overflows(b, m, conflate)
  BY DEF Overflows
<1>2. Insert(b, m, conflate) = PushPriority(b, m)
  BY <1>1 DEF Insert
<1> QED  BY <1>2 DEF PushPriority, Good, IsBuffer

\* insert takes a good buffer to a good buffer.
LEMMA InsertGood ==
  ASSUME NEW b, Good(b), NEW m \in Message, NEW conflate \in BOOLEAN
  PROVE  Good(Insert(b, m, conflate))
<1>1. CASE IsPriority(m)
  BY <1>1, PushPriorityGood DEF Insert, Overflows
<1>2. CASE ~IsPriority(m)
  BY <1>2, InsertIsPut, PutGood
<1> QED  BY <1>1, <1>2

\* In a good buffer no key of the FIFO is dead, so pop serves its head.
LEMMA PopGood ==
  ASSUME NEW b, Good(b), CanPop(b)
  PROVE  /\ Good(AfterPop(b))
         /\ Popped(b) \in Message
         /\ b.prio # <<>> => AfterPop(b).pending = b.pending
         /\ b.prio = <<>> =>
              /\ b.order # <<>>
              /\ Popped(b) = b.pending[b.order[1]]
              /\ AfterPop(b).order = Tail(b.order)
              /\ AfterPop(b).pending = Without(b.pending, {b.order[1]})
<1> DEFINE c == AfterPop(b)
<1>0. /\ DOMAIN b = {"pending", "order", "prio", "size"}
      /\ b.order \in Seq(Keys) /\ Len(b.order) \in Nat /\ b.size = Len(b.order)
      /\ b.prio \in Seq(Message) /\ Len(b.prio) \in Nat
      /\ b.pending \in [DOMAIN b.pending -> Message] /\ DOMAIN b.pending \subseteq Keys
      /\ DOMAIN b.pending = {b.order[i] : i \in 1 .. Len(b.order)}
  BY LenProperties DEF Good, IsBuffer, Consistent
<1>1. CASE b.prio # <<>>
  <2>1. /\ Head(b.prio) \in Message /\ Tail(b.prio) \in Seq(Message)
        /\ Len(Tail(b.prio)) = Len(b.prio) - 1
        /\ \A i \in 1 .. Len(Tail(b.prio)) : Tail(b.prio)[i] = b.prio[i + 1]
    BY <1>0, <1>1, HeadTailProperties
  <2>2. /\ DOMAIN c = {"pending", "order", "prio", "size"}
        /\ c.pending = b.pending /\ c.order = b.order /\ c.size = b.size
        /\ c.prio = Tail(b.prio) /\ Popped(b) = Head(b.prio)
    BY <1>0, <1>1 DEF AfterPop, Popped
  <2> HIDE DEF c
  <2>3. IsBuffer(c)
    BY <2>1, <2>2, <1>0 DEF IsBuffer
  <2>4. \A i \in 1 .. Len(c.prio) : IsPriority(c.prio[i])
    <3>1. \A i \in 1 .. Len(c.prio) : i + 1 \in 1 .. Len(b.prio) /\ c.prio[i] = b.prio[i + 1]
      BY <2>1, <2>2, <1>0
    <3> QED  BY <3>1 DEF Good, Consistent
  <2>5. Consistent(c)
    BY <2>2, <2>4 DEF Good, Consistent
  <2> QED  BY <2>1, <2>2, <2>3, <2>5, <1>1 DEF Good, c
<1>2. CASE b.prio = <<>>
  <2>1. LivePositions(b) = 1 .. Len(b.order)
    BY <1>0 DEF LivePositions
  <2>2. LivePositions(b) # {}
    BY <1>2 DEF CanPop
  <2>3. Len(b.order) >= 1 /\ 1 \in LivePositions(b)
    BY <2>1, <2>2, <1>0
  <2>4. \A j \in LivePositions(b) : 1 <= j
    BY <2>1
  <2>5. \A i \in LivePositions(b) : (\A j \in LivePositions(b) : i <= j) => i = 1
    BY <2>1, <2>3, <1>0
  <2>6. Oldest(b) = 1
    BY <2>3, <2>4, <2>5 DEF Oldest
  <2> DEFINE key == b.order[1]
  <2>7. /\ DOMAIN c = {"pending", "order", "prio", "size"}
        /\ c.pending = Without(b.pending, {key})
        /\ c.order = SubSeq(b.order, 2, Len(b.order))
        /\ c.prio = b.prio
        /\ c.size = SaturatingSub(b.size, 1)
        /\ Popped(b) = b.pending[key]
    BY <1>0, <1>2, <2>2, <2>6 DEF AfterPop, Popped
  <2> HIDE DEF c
  <2>8. /\ c.order = Tail(b.order)
        /\ Tail(b.order) \in Seq(Keys)
        /\ Len(c.order) = Len(b.order) - 1
        /\ \A i \in 1 .. Len(c.order) : c.order[i] = b.order[i + 1]
    <3>1. b.order # <<>>
      BY <2>3
    <3>2. /\ Tail(b.order) \in Seq(Keys)
          /\ Len(Tail(b.order)) = Len(b.order) - 1
          /\ \A i \in 1 .. Len(Tail(b.order)) : Tail(b.order)[i] = b.order[i + 1]
      BY <3>1, <1>0, HeadTailProperties
    <3>3. Tail(b.order) = SubSeq(b.order, 2, Len(b.order))
      BY <3>1, <1>0, TailIsSubSeq
    <3> QED  BY <3>2, <3>3, <2>7
  <2>9. key \in DOMAIN b.pending /\ Popped(b) \in Message
    BY <2>3, <2>7, <1>0
  <2>10. /\ DOMAIN c.pending = DOMAIN b.pending \ {key}
         /\ c.pending \in [DOMAIN c.pending -> Message]
         /\ \A k \in DOMAIN c.pending : c.pending[k] = b.pending[k]
    <3> DEFINE f == b.pending
               K == {key}
    <3>1. f \in [DOMAIN f -> Message] /\ c.pending = Without(f, K)
      BY <1>0, <2>7
    <3> HIDE DEF f, K
    <3>2. /\ DOMAIN Without(f, K) = DOMAIN f \ K
          /\ Without(f, K) \in [DOMAIN f \ K -> Message]
          /\ \A k \in DOMAIN f \ K : Without(f, K)[k] = f[k]
      BY <3>1, WithoutType
    <3>3. /\ DOMAIN c.pending = DOMAIN f \ K
          /\ c.pending \in [DOMAIN c.pending -> Message]
          /\ \A k \in DOMAIN c.pending : c.pending[k] = f[k]
      BY <3>1, <3>2
    <3> QED  BY <3>3 DEF f, K
  <2>11. c.size = Len(c.order) /\ c.size \in Nat /\ c.size <= MaxBufferSize
    <3>1. b.size <= MaxBufferSize
      BY DEF Good, Consistent
    <3> QED  BY <3>1, <2>3, <2>7, <2>8, <1>0, BufferAssumption DEF SaturatingSub
  <2>12. IsBuffer(c)
    BY <2>7, <2>8, <2>10, <2>11, <1>0 DEF IsBuffer
  <2>13. \A i, j \in 1 .. Len(b.order) : b.order[i] = b.order[j] => i = j
    BY DEF Good, Consistent
  <2>14. \A i \in 1 .. Len(c.order) : i + 1 \in 1 .. Len(b.order) /\ i + 1 # 1
    BY <2>8, <1>0
  <2>15. DOMAIN c.pending = {c.order[i] : i \in 1 .. Len(c.order)}
    <3>1. ASSUME NEW k \in DOMAIN c.pending PROVE \E i \in 1 .. Len(c.order) : c.order[i] = k
      <4>1. PICK j \in 1 .. Len(b.order) : b.order[j] = k
        BY <3>1, <2>10, <1>0
      <4>2. j # 1
        BY <4>1, <3>1, <2>10
      <4>3. j - 1 \in 1 .. Len(c.order) /\ (j - 1) + 1 = j
        BY <4>2, <2>8, <1>0
      <4> QED  BY <4>1, <4>3, <2>8
    <3>2. ASSUME NEW i \in 1 .. Len(c.order) PROVE c.order[i] \in DOMAIN c.pending
      <4>1. c.order[i] = b.order[i + 1] /\ i + 1 \in 1 .. Len(b.order) /\ i + 1 # 1
        BY <3>2, <2>8, <2>14
      <4>2. 1 \in 1 .. Len(b.order)
        BY <2>1, <2>3
      <4>3. b.order[i + 1] # key
        BY <4>1, <4>2, <2>13
      <4> QED  BY <4>1, <4>3, <2>10, <1>0
    <3> QED  BY <3>1, <3>2
  <2>16. \A i, j \in 1 .. Len(c.order) : c.order[i] = c.order[j] => i = j
    <3> SUFFICES ASSUME NEW i \in 1 .. Len(c.order), NEW j \in 1 .. Len(c.order),
                        c.order[i] = c.order[j]
                 PROVE  i = j
      OBVIOUS
    <3>1. b.order[i + 1] = b.order[j + 1]
      BY <2>8
    <3>2. i + 1 = j + 1
      BY <3>1, <2>13, <2>14
    <3> QED  BY <3>2
  <2>17. Consistent(c)
    <3>1. \A k \in DOMAIN c.pending : Key(c.pending[k]) = k /\ ~IsPriority(c.pending[k])
      BY <2>10 DEF Good, Consistent
    <3>2. \A i \in 1 .. Len(c.prio) : IsPriority(c.prio[i])
      BY <2>7 DEF Good, Consistent
    <3> QED  BY <3>1, <3>2, <2>11, <2>15, <2>16 DEF Consistent
  <2>18. b.order # <<>>
    BY <2>3
  <2> QED  BY <2>7, <2>8, <2>9, <2>12, <2>17, <2>18, <1>2 DEF Good, c
<1> QED  BY <1>1, <1>2

\* An insert files its message, drops the victims of the overflow, and touches
\* no other message.
LEMMA InsertKeeps ==
  ASSUME NEW b, Good(b), NEW m \in Message, ~IsPriority(m), NEW conflate \in BOOLEAN
  PROVE  LET c == Insert(b, m, conflate) IN
         /\ DOMAIN c.pending = (DOMAIN b.pending \ OverflowVictims(b, m, conflate)) \cup {Key(m)}
         /\ c.pending[Key(m)] = m
         /\ \A k \in DOMAIN c.pending \ {Key(m)} : c.pending[k] = b.pending[k]
         /\ c.prio = b.prio
<1> DEFINE r == Roomy(b, m, conflate)
           V == OverflowVictims(b, m, conflate)
           f == b.pending
           g == r.pending
           p == Insert(b, m, conflate).pending
<1>1. p = With(g, Key(m), m) /\ g \in [DOMAIN g -> Message]
  BY InsertIsPut, PutGood DEF Good, IsBuffer
<1>2. DOMAIN g = DOMAIN f \ V /\ \A k \in DOMAIN f \ V : g[k] = f[k]
  <2>1. CASE Overflows(b, m, conflate)
    <3>1. g = Without(f, V) /\ f \in [DOMAIN f -> Message]
      BY <2>1, OverflowGood DEF Roomy, OverflowVictims, Good, IsBuffer
    <3> HIDE DEF f, g, V
    <3> QED  BY <3>1, WithoutType
  <2>2. CASE ~Overflows(b, m, conflate)
    BY <2>2 DEF Roomy, OverflowVictims
  <2> QED  BY <2>1, <2>2
<1>3. Insert(b, m, conflate).prio = b.prio
  <2>1. r.prio = b.prio
    BY OverflowGood DEF Roomy
  <2> QED  BY <2>1, InsertIsPut, PutGood
<1> HIDE DEF f, g, p, V
<1>4. /\ DOMAIN p = DOMAIN g \cup {Key(m)} /\ p[Key(m)] = m
      /\ \A k \in DOMAIN g \ {Key(m)} : p[k] = g[k]
  <2>1. /\ DOMAIN With(g, Key(m), m) = DOMAIN g \cup {Key(m)}
        /\ With(g, Key(m), m) \in [DOMAIN g \cup {Key(m)} -> Message]
        /\ With(g, Key(m), m)[Key(m)] = m
        /\ \A k \in DOMAIN g \ {Key(m)} : With(g, Key(m), m)[k] = g[k]
    BY <1>1, WithType
  <2> QED  BY <1>1, <2>1
<1>5. /\ DOMAIN p = (DOMAIN f \ V) \cup {Key(m)} /\ p[Key(m)] = m
      /\ \A k \in DOMAIN p \ {Key(m)} : p[k] = f[k]
  BY <1>2, <1>4
<1> QED  BY <1>3, <1>5 DEF f, p, V

\* An insert moves the keys that stay in the queue to the front, by as many places
\* as the overflow drops: none, unless the buffer is at its limit.
LEMMA InsertMoves ==
  ASSUME NEW b, Good(b), NEW m \in Message, ~IsPriority(m), NEW conflate \in BOOLEAN
  PROVE  LET c == Insert(b, m, conflate) IN
         \E n \in 0 .. Len(b.order) :
           /\ n > 0 => b.size = MaxBufferSize /\ n <= DropBatch
           /\ OverflowVictims(b, m, conflate) = FrontKeys(b, n)
           /\ Len(c.order) >= Len(b.order) - n
           /\ \A i \in 1 .. Len(b.order) - n : c.order[i] = b.order[i + n]
<1> DEFINE r == Roomy(b, m, conflate)
           c == Insert(b, m, conflate)
<1>1. /\ Good(r) /\ Good(b)
      /\ c.order = IF Key(m) \notin DOMAIN r.pending THEN Append(r.order, Key(m)) ELSE r.order
  BY InsertIsPut, PutGood
<1>2. /\ b.order \in Seq(Keys) /\ Len(b.order) \in Nat /\ b.size = Len(b.order)
      /\ b.size <= MaxBufferSize
      /\ r.order \in Seq(Keys) /\ Len(r.order) \in Nat
  BY <1>1, LenProperties DEF Good, IsBuffer, Consistent
<1>3. Len(c.order) >= Len(r.order) /\ \A i \in 1 .. Len(r.order) : c.order[i] = r.order[i]
  <2>1. CASE Key(m) \notin DOMAIN r.pending
    BY <2>1, <1>1, <1>2, KeyType, AppendProperties
  <2>2. CASE Key(m) \in DOMAIN r.pending
    BY <2>2, <1>1, <1>2
  <2> QED  BY <2>1, <2>2
<1>4. CASE Overflows(b, m, conflate)
  <2> DEFINE n == DropCount(b)
  <2>1. /\ n \in 0 .. Len(b.order) /\ n <= DropBatch
        /\ b.size = MaxBufferSize
    BY <1>2, <1>4, OverflowGood, BufferAssumption DEF DropCount, Overflows
  <2>2. /\ Len(r.order) = Len(b.order) - n
        /\ \A i \in 1 .. Len(r.order) : r.order[i] = b.order[i + n]
        /\ OverflowVictims(b, m, conflate) = FrontKeys(b, n)
    BY <1>4, OverflowGood DEF Roomy, OverflowVictims
  <2> HIDE DEF n, r, c
  <2>3. /\ Len(c.order) >= Len(b.order) - n
        /\ \A i \in 1 .. Len(b.order) - n : c.order[i] = b.order[i + n]
    BY <1>3, <2>2
  <2> QED  BY <2>1, <2>2, <2>3 DEF c
<1>5. CASE ~Overflows(b, m, conflate)
  <2>1. r.order = b.order /\ OverflowVictims(b, m, conflate) = {} /\ FrontKeys(b, 0) = {}
    BY <1>5 DEF Roomy, OverflowVictims, FrontKeys
  <2> HIDE DEF r, c
  <2>2. /\ Len(c.order) >= Len(b.order) - 0
        /\ \A i \in 1 .. Len(b.order) - 0 : c.order[i] = b.order[i + 0]
    BY <1>2, <1>3, <2>1
  <2>3. 0 \in 0 .. Len(b.order)
    BY <1>2
  <2> QED  BY <2>1, <2>2, <2>3 DEF c
<1> QED  BY <1>4, <1>5

\* What a pop takes when no priority message waits.
LEMMA PopTakes ==
  ASSUME NEW b, Good(b), CanPop(b), b.prio = <<>>
  PROVE  LET k == b.order[1]
             c == AfterPop(b)
         IN  /\ k \in DOMAIN b.pending /\ Popped(b) = b.pending[k]
             /\ DOMAIN c.pending = DOMAIN b.pending \ {k}
             /\ \A x \in DOMAIN c.pending : c.pending[x] = b.pending[x]
             /\ c.prio = <<>>
<1> DEFINE k == b.order[1]
           f == b.pending
           g == AfterPop(b).pending
           K == {k}
<1>1. /\ b.order # <<>> /\ Popped(b) = f[k] /\ g = Without(f, K)
      /\ b.order \in Seq(Keys) /\ f \in [DOMAIN f -> Message]
      /\ DOMAIN f = {b.order[i] : i \in 1 .. Len(b.order)}
  BY PopGood DEF Good, IsBuffer, Consistent
<1>2. k \in DOMAIN f
  BY <1>1, EmptySeq
<1>3. AfterPop(b).prio = <<>>
  BY DEF AfterPop, Good, IsBuffer
<1> HIDE DEF f, g, K
<1>4. DOMAIN g = DOMAIN f \ K /\ \A x \in DOMAIN f \ K : g[x] = f[x]
  <2>1. f \in [DOMAIN f -> Message] /\ g = Without(f, K)
    BY <1>1
  <2>2. /\ DOMAIN Without(f, K) = DOMAIN f \ K
        /\ Without(f, K) \in [DOMAIN f \ K -> Message]
        /\ \A x \in DOMAIN f \ K : Without(f, K)[x] = f[x]
    BY <2>1, WithoutType
  <2> QED  BY <2>1, <2>2
<1>5. DOMAIN g = DOMAIN f \ {k} /\ \A x \in DOMAIN g : g[x] = f[x]
  BY <1>4 DEF K
<1> QED  BY <1>1, <1>2, <1>3, <1>5 DEF f, g

=============================================================================
