----------------------------- MODULE BookProofs ------------------------------
(***************************************************************************)
(* Theorems about the self-healing order book, for every set of pairs and  *)
(* prices, every depth and any number of changes, upsets and losses.       *)
(***************************************************************************)
EXTENDS BookSync, DataInduction, FiniteSetTheorems, SequenceTheorems

\* The prices of P that come before p.
Ahead(P, p, side) == {q \in P : Better(side, q, p)}

-----------------------------------------------------------------------------
\* The best prices.

\* A side orders its prices strictly and totally.
LEMMA Ranked ==
  ASSUME NEW side
  PROVE  \A x, y, z \in Nat :
           /\ ~Better(side, x, x)
           /\ x # y => Better(side, x, y) \/ Better(side, y, x)
           /\ Better(side, x, y) /\ Better(side, y, z) => Better(side, x, z)
<1>1. CASE side = "bids"  BY <1>1 DEF Better
<1>2. CASE side # "bids"  BY <1>2 DEF Better
<1> QED  BY <1>1, <1>2

\* A finite set of prices has one that no other beats.
LEMMA Foremost ==
  ASSUME NEW side, NEW T, T \subseteq Nat, IsFiniteSet(T), T # {}
  PROVE  \E x \in T : \A y \in T : ~Better(side, y, x)
<1> DEFINE C == {Cardinality(Ahead(T, x, side)) : x \in T}
<1>1. \A x \in T : IsFiniteSet(Ahead(T, x, side)) /\ Cardinality(Ahead(T, x, side)) \in Nat
  BY FS_Subset, FS_CardinalityType DEF Ahead
<1>2. C \subseteq Nat /\ C # {}
  BY <1>1
<1>3. PICK c \in C : \A d \in C : c <= d
  BY <1>2, Least
<1>4. PICK x \in T : c = Cardinality(Ahead(T, x, side))
  BY <1>3
<1>5. ASSUME NEW y \in T, Better(side, y, x) PROVE FALSE
  <2>1. Ahead(T, y, side) \subseteq Ahead(T, x, side)
    BY <1>5, Ranked DEF Ahead
  <2>2. y \in Ahead(T, x, side) /\ y \notin Ahead(T, y, side)
    BY <1>5, Ranked DEF Ahead
  <2>3. Cardinality(Ahead(T, y, side)) < Cardinality(Ahead(T, x, side))
    BY <1>1, <2>1, <2>2, FS_Subset
  <2>4. Cardinality(Ahead(T, x, side)) <= Cardinality(Ahead(T, y, side))
    BY <1>3, <1>4
  <2> QED  BY <1>1, <2>3, <2>4
<1> QED  BY <1>5

\* And one that beats no other: the foremost of the opposite side.
LEMMA Hindmost ==
  ASSUME NEW side, NEW T, T \subseteq Nat, IsFiniteSet(T), T # {}
  PROVE  \E x \in T : \A y \in T : ~Better(side, x, y)
<1> DEFINE other == IF side = "bids" THEN "asks" ELSE "bids"
<1>1. \A x, y \in Nat : Better(other, y, x) <=> Better(side, x, y)
  BY DEF Better
<1> HIDE DEF other
<1>2. PICK x \in T : \A y \in T : ~Better(other, y, x)
  BY Foremost
<1> QED  BY <1>1, <1>2

\* Every price among the best comes before every price that is not.
LEMMA BestFirst ==
  ASSUME NEW side, NEW P, P \subseteq Nat, IsFiniteSet(P), NEW n \in Nat,
         NEW q \in Best(P, n, side), NEW p \in P, p \notin Best(P, n, side)
  PROVE  Better(side, q, p)
<1>1. q \in P /\ p \in P /\ q # p
  BY DEF Best
<1>2. /\ IsFiniteSet(Ahead(P, p, side)) /\ Cardinality(Ahead(P, p, side)) \in Nat
      /\ IsFiniteSet(Ahead(P, q, side)) /\ Cardinality(Ahead(P, q, side)) \in Nat
  BY FS_Subset, FS_CardinalityType DEF Ahead
<1>3. Cardinality(Ahead(P, p, side)) >= n /\ ~(Cardinality(Ahead(P, q, side)) >= n)
  BY DEF Best, Worse, Ahead
<1>4. SUFFICES ASSUME Better(side, p, q) PROVE FALSE
  BY <1>1, Ranked
<1>5. Ahead(P, p, side) \subseteq Ahead(P, q, side)
  BY <1>1, <1>4, Ranked DEF Ahead
<1>6. Cardinality(Ahead(P, p, side)) <= Cardinality(Ahead(P, q, side))
  BY <1>2, <1>5, FS_Subset
<1> QED  BY <1>2, <1>3, <1>6

\* They are no more than asked for.
LEMMA BestFew ==
  ASSUME NEW side, NEW P, P \subseteq Nat, IsFiniteSet(P), NEW n \in Nat \ {0}
  PROVE  /\ Best(P, n, side) \subseteq P /\ IsFiniteSet(Best(P, n, side))
         /\ Cardinality(Best(P, n, side)) \in Nat /\ Cardinality(Best(P, n, side)) <= n
<1> DEFINE B == Best(P, n, side)
<1>1. B \subseteq P
  BY DEF Best
<1>2. IsFiniteSet(B) /\ Cardinality(B) \in Nat
  BY <1>1, FS_Subset, FS_CardinalityType
<1>3. CASE B = {}
  BY <1>1, <1>2, <1>3, FS_EmptySet
<1>4. CASE B # {}
  <2>1. PICK x \in B : \A y \in B : ~Better(side, x, y)
    BY <1>1, <1>2, <1>4, Hindmost
  <2>2. B \ {x} \subseteq Ahead(P, x, side)
    BY <1>1, <2>1, Ranked DEF Ahead
  <2>3. IsFiniteSet(Ahead(P, x, side)) /\ Cardinality(Ahead(P, x, side)) \in Nat
    BY FS_Subset, FS_CardinalityType DEF Ahead
  <2>4. ~(Cardinality(Ahead(P, x, side)) >= n)
    BY <2>1 DEF Best, Worse, Ahead
  <2>5. Cardinality(B \ {x}) <= Cardinality(Ahead(P, x, side))
    BY <2>2, <2>3, FS_Subset
  <2>6. Cardinality(B \ {x}) = Cardinality(B) - 1
    BY <1>2, <2>1, FS_RemoveElement
  <2> HIDE DEF B
  <2>7. Cardinality(B) <= n
    BY <1>2, <2>3, <2>4, <2>5, <2>6
  <2> QED  BY <1>1, <1>2, <2>7 DEF B
<1> QED  BY <1>3, <1>4

\* When some price is left out, the others fill the depth.
LEMMA BestFull ==
  ASSUME NEW side, NEW P, P \subseteq Nat, IsFiniteSet(P), NEW n \in Nat \ {0},
         Best(P, n, side) # P
  PROVE  Cardinality(Best(P, n, side)) >= n
<1> DEFINE B == Best(P, n, side)  W == P \ B
<1>1. B \subseteq P /\ W # {} /\ W \subseteq Nat
  BY DEF Best
<1>2. IsFiniteSet(W) /\ IsFiniteSet(B) /\ Cardinality(B) \in Nat
  BY <1>1, FS_Subset, FS_CardinalityType
<1>3. PICK p \in W : \A y \in W : ~Better(side, y, p)
  BY <1>1, <1>2, Foremost
<1>4. Ahead(P, p, side) \subseteq B
  BY <1>3 DEF Ahead
<1>5. Cardinality(Ahead(P, p, side)) >= n
  BY <1>3 DEF Best, Worse, Ahead
<1>6. IsFiniteSet(Ahead(P, p, side)) /\ Cardinality(Ahead(P, p, side)) \in Nat
  BY FS_Subset, FS_CardinalityType DEF Ahead
<1>7. Cardinality(Ahead(P, p, side)) <= Cardinality(B)
  BY <1>2, <1>4, FS_Subset
<1> HIDE DEF B
<1>8. Cardinality(B) >= n
  BY <1>2, <1>5, <1>6, <1>7
<1> QED  BY <1>8 DEF B

\* A part that holds the best of the whole has the same best: what the deltas of
\* the server leave out does not matter to a truncation.
LEMMA BestOfPart ==
  ASSUME NEW side, NEW P, P \subseteq Nat, IsFiniteSet(P), NEW n \in Nat \ {0},
         NEW M, Best(P, n, side) \subseteq M, M \subseteq P
  PROVE  Best(M, n, side) = Best(P, n, side)
<1>1. IsFiniteSet(M)
  BY FS_Subset
<1>2. \A p \in P : /\ IsFiniteSet(Ahead(P, p, side)) /\ Cardinality(Ahead(P, p, side)) \in Nat
                   /\ IsFiniteSet(Ahead(M, p, side)) /\ Cardinality(Ahead(M, p, side)) \in Nat
  BY <1>1, FS_Subset, FS_CardinalityType DEF Ahead
<1>3. ASSUME NEW p \in Best(P, n, side) PROVE p \in Best(M, n, side)
  <2>1. p \in P /\ p \in M /\ ~(Cardinality(Ahead(P, p, side)) >= n)
    BY DEF Best, Worse, Ahead
  <2>2. Ahead(M, p, side) \subseteq Ahead(P, p, side)
    BY DEF Ahead
  <2>3. Cardinality(Ahead(M, p, side)) <= Cardinality(Ahead(P, p, side))
    BY <1>2, <2>1, <2>2, FS_Subset
  <2>4. ~(Cardinality(Ahead(M, p, side)) >= n)
    BY <1>2, <2>1, <2>3
  <2> QED  BY <2>1, <2>4 DEF Best, Worse, Ahead
<1>4. ASSUME NEW p \in M, p \notin Best(P, n, side) PROVE p \notin Best(M, n, side)
  <2>1. Best(P, n, side) \subseteq Ahead(M, p, side)
    BY <1>4, BestFirst DEF Ahead
  <2>2. Cardinality(Best(P, n, side)) >= n /\ Cardinality(Best(P, n, side)) \in Nat
    BY <1>4, BestFull, BestFew
  <2>3. Cardinality(Best(P, n, side)) <= Cardinality(Ahead(M, p, side))
    BY <1>2, <2>1, FS_Subset
  <2>4. Cardinality(Ahead(M, p, side)) >= n
    BY <1>2, <2>2, <2>3
  <2> QED  BY <2>4 DEF Best, Worse, Ahead
<1>5. Best(M, n, side) \subseteq M
  BY DEF Best
<1> QED  BY <1>3, <1>4, <1>5

\* Where there is room for all, all are the best.
LEMMA BestAll ==
  ASSUME NEW side, NEW P, P \subseteq Nat, IsFiniteSet(P), NEW n \in Nat \ {0},
         Cardinality(P) <= n
  PROVE  Best(P, n, side) = P
<1>1. ASSUME NEW p \in P PROVE p \notin Worse(P, n, side)
  <2>1. Ahead(P, p, side) \subseteq P /\ p \notin Ahead(P, p, side)
    BY Ranked DEF Ahead
  <2>2. Cardinality(Ahead(P, p, side)) < Cardinality(P)
    BY <2>1, FS_Subset, FS_CardinalityType
  <2>3. Cardinality(P) \in Nat /\ Cardinality(Ahead(P, p, side)) \in Nat
    BY <2>1, FS_Subset, FS_CardinalityType
  <2>4. ~(Cardinality(Ahead(P, p, side)) >= n)
    BY <2>2, <2>3
  <2> QED  BY <2>4 DEF Worse, Ahead
<1> QED  BY <1>1 DEF Best

-----------------------------------------------------------------------------
\* Levels.

\* The levels of a message: finitely many prices, and 0 among the quantities.
IsChange(l) ==
  /\ l = [p \in DOMAIN l |-> l[p]]
  /\ DOMAIN l \subseteq Nat /\ IsFiniteSet(DOMAIN l)
  /\ \A p \in DOMAIN l : l[p] \in Nat

\* One side of a book.
IsSide(l) == IsChange(l) /\ IsLevels(l)

LEMMA NoLevelsSide == IsSide(NoLevels) /\ IsChange(NoLevels) /\ DOMAIN NoLevels = {}
BY FS_EmptySet DEF IsSide, IsChange, IsLevels, NoLevels

\* Two sides with the same prices and the same quantities are the same.
LEMMA SameLevels ==
  ASSUME NEW l, NEW k, IsChange(l), IsChange(k), DOMAIN l = DOMAIN k,
         \A p \in DOMAIN l : l[p] = k[p]
  PROVE  l = k
BY DEF IsChange

\* What a truncation keeps.
LEMMA TruncateKeeps ==
  ASSUME NEW l, IsSide(l), NEW n \in Nat \ {0}, NEW side
  PROVE  LET t == Truncate(l, n, side) IN
         /\ IsSide(t) /\ DOMAIN t = Best(DOMAIN l, n, side) /\ DOMAIN t \subseteq DOMAIN l
         /\ \A p \in DOMAIN t : t[p] = l[p]
         /\ Cardinality(DOMAIN t) \in Nat /\ Cardinality(DOMAIN t) <= n
<1> DEFINE t == Truncate(l, n, side)  B == Best(DOMAIN l, n, side)
<1>1. DOMAIN l \subseteq Nat /\ IsFiniteSet(DOMAIN l)
  BY DEF IsSide, IsChange
<1>2. /\ B \subseteq DOMAIN l /\ IsFiniteSet(B)
      /\ Cardinality(B) \in Nat /\ Cardinality(B) <= n
  BY <1>1, BestFew
<1>3. t = [p \in B |-> l[p]]
  BY DEF Truncate, Restrict
<1> HIDE DEF B, t
<1>4. DOMAIN t = B /\ \A p \in B : t[p] = l[p]
  BY <1>3
<1>5. t = [p \in DOMAIN t |-> t[p]]
  BY <1>3, <1>4
<1>6. \A p \in DOMAIN t : t[p] \in Nat \ {0}
  BY <1>2, <1>4 DEF IsSide, IsLevels
<1>7. IsSide(t)
  BY <1>1, <1>2, <1>4, <1>5, <1>6 DEF IsSide, IsChange, IsLevels
<1> QED  BY <1>2, <1>4, <1>7 DEF t, B

\* What is not deeper than the limit stays as it is.
LEMMA TruncateShort ==
  ASSUME NEW l, IsSide(l), NEW n \in Nat \ {0}, NEW side, Cardinality(DOMAIN l) <= n
  PROVE  Truncate(l, n, side) = l
<1> DEFINE t == Truncate(l, n, side)
<1>1. IsSide(t) /\ DOMAIN t = Best(DOMAIN l, n, side) /\ \A p \in DOMAIN t : t[p] = l[p]
  BY TruncateKeeps
<1>2. DOMAIN t = DOMAIN l
  BY <1>1, BestAll DEF IsSide, IsChange
<1> HIDE DEF t
<1>3. t = l
  BY <1>1, <1>2, SameLevels DEF IsSide
<1> QED  BY <1>3 DEF t

\* What a merge keeps.
LEMMA MergeKeeps ==
  ASSUME NEW l, IsSide(l), NEW u, IsChange(u)
  PROVE  LET m == Merge(l, u) IN
         /\ IsSide(m)
         /\ DOMAIN m = {p \in DOMAIN l \cup DOMAIN u : p \in DOMAIN u => u[p] # 0}
         /\ \A p \in DOMAIN m : m[p] = IF p \in DOMAIN u THEN u[p] ELSE l[p]
<1> DEFINE m == Merge(l, u)
           D == {p \in DOMAIN l \cup DOMAIN u : p \in DOMAIN u => u[p] # 0}
<1>1. m = [p \in D |-> IF p \in DOMAIN u THEN u[p] ELSE l[p]]
  BY DEF Merge
<1>2. IsFiniteSet(DOMAIN l \cup DOMAIN u)
  BY FS_Union DEF IsSide, IsChange
<1>3. IsFiniteSet(D) /\ D \subseteq Nat
  BY <1>2, FS_Subset DEF IsSide, IsChange
<1>4. DOMAIN m = D /\ \A p \in D : m[p] = IF p \in DOMAIN u THEN u[p] ELSE l[p]
  BY <1>1
<1>5. \A p \in D : m[p] \in Nat \ {0}
  BY <1>4 DEF IsSide, IsChange, IsLevels
<1>6. m = [p \in DOMAIN m |-> m[p]]
  BY <1>1, <1>4
<1> HIDE DEF m
<1>7. IsSide(m)
  BY <1>3, <1>4, <1>5, <1>6 DEF IsSide, IsChange, IsLevels
<1> QED  BY <1>4, <1>7 DEF m

\* Merging nothing changes nothing, and merging into nothing gives what is merged.
LEMMA MergeNothing ==
  ASSUME NEW l, IsSide(l)
  PROVE  Merge(l, NoLevels) = l /\ Merge(NoLevels, l) = l
<1>1. /\ IsSide(Merge(l, NoLevels)) /\ DOMAIN Merge(l, NoLevels) = DOMAIN l
      /\ \A p \in DOMAIN l : Merge(l, NoLevels)[p] = l[p]
  <2> DEFINE m == Merge(l, NoLevels)
  <2>1. /\ IsSide(m)
        /\ DOMAIN m = {p \in DOMAIN l \cup DOMAIN NoLevels : p \in DOMAIN NoLevels => NoLevels[p] # 0}
        /\ \A p \in DOMAIN m : m[p] = IF p \in DOMAIN NoLevels THEN NoLevels[p] ELSE l[p]
    BY NoLevelsSide, MergeKeeps
  <2> HIDE DEF m
  <2>2. IsSide(m) /\ DOMAIN m = DOMAIN l /\ \A p \in DOMAIN l : m[p] = l[p]
    BY <2>1, NoLevelsSide
  <2> QED  BY <2>2 DEF m
<1>2. \A p \in DOMAIN l : l[p] # 0
  BY DEF IsSide, IsLevels
<1>3. /\ IsSide(Merge(NoLevels, l)) /\ DOMAIN Merge(NoLevels, l) = DOMAIN l
      /\ \A p \in DOMAIN l : Merge(NoLevels, l)[p] = l[p]
  BY <1>2, NoLevelsSide, MergeKeeps DEF IsSide
<1> QED  BY <1>1, <1>3, SameLevels DEF IsSide

\* The server's delta takes its old best levels to its new ones.
LEMMA DeltaFits ==
  ASSUME NEW old, NEW new, NEW side, IsSide(old[side]), IsSide(new[side]),
         FeedDepth \in Nat \ {0}
  PROVE  /\ IsChange(Delta(old, new, side))
         /\ Truncate(Merge(Top(old, side), Delta(old, new, side)), FeedDepth, side)
              = Top(new, side)
<1> DEFINE a == Top(old, side)  b == Top(new, side)  N == DOMAIN new[side]
           entered == {p \in DOMAIN b : p \notin DOMAIN a \/ a[p] # b[p]}
           removed == DOMAIN a \ N
           d == Delta(old, new, side)
           m == Merge(a, d)
           t == Truncate(m, FeedDepth, side)
<1>1. IsSide(a) /\ IsSide(b) /\ DOMAIN b = Best(N, FeedDepth, side) /\ DOMAIN b \subseteq N
  BY TruncateKeeps DEF Top
<1>2. d = [p \in entered \cup removed |-> IF p \in entered THEN b[p] ELSE 0]
  BY DEF Delta
<1> HIDE DEF a, b, d
<1>3. DOMAIN d = entered \cup removed /\ \A p \in DOMAIN d : d[p] = IF p \in entered THEN b[p] ELSE 0
  BY <1>2
<1>4. IsChange(d)
  <2>1. IsFiniteSet(DOMAIN a \cup DOMAIN b)
    BY <1>1, FS_Union DEF IsSide, IsChange
  <2>2. IsFiniteSet(entered \cup removed)
    BY <2>1, FS_Subset
  <2>3. \A p \in DOMAIN d : p \in Nat /\ d[p] \in Nat
    BY <1>1, <1>3 DEF IsSide, IsChange
  <2>4. d = [p \in DOMAIN d |-> d[p]]
    BY <1>2, <1>3
  <2> QED  BY <1>3, <2>2, <2>3, <2>4 DEF IsChange
<1>5. /\ IsSide(m)
      /\ DOMAIN m = {p \in DOMAIN a \cup DOMAIN d : p \in DOMAIN d => d[p] # 0}
      /\ \A p \in DOMAIN m : m[p] = IF p \in DOMAIN d THEN d[p] ELSE a[p]
  BY <1>1, <1>4, MergeKeeps
<1> HIDE DEF m
<1>6. DOMAIN b \subseteq DOMAIN m /\ \A p \in DOMAIN b : m[p] = b[p]
  <2>1. \A p \in DOMAIN b : b[p] # 0
    BY <1>1 DEF IsSide, IsLevels
  <2>2. ASSUME NEW p \in DOMAIN b, p \in entered PROVE p \in DOMAIN m /\ m[p] = b[p]
    BY <1>3, <1>5, <2>1, <2>2
  <2>3. ASSUME NEW p \in DOMAIN b, p \notin entered PROVE p \in DOMAIN m /\ m[p] = b[p]
    BY <1>1, <1>3, <1>5, <2>3
  <2> QED  BY <2>2, <2>3
<1>7. DOMAIN m \subseteq N
  BY <1>1, <1>3, <1>5
<1>8. N \subseteq Nat /\ IsFiniteSet(N)
  BY DEF IsSide, IsChange
<1>9. Best(DOMAIN m, FeedDepth, side) = DOMAIN b
  BY <1>1, <1>6, <1>7, <1>8, BestOfPart
<1>10. IsSide(t) /\ DOMAIN t = DOMAIN b /\ \A p \in DOMAIN t : t[p] = m[p]
  BY <1>5, <1>9, TruncateKeeps
<1> HIDE DEF t
<1>11. t = b
  BY <1>1, <1>6, <1>10, SameLevels DEF IsSide
<1> QED  BY <1>4, <1>11 DEF t, m, d, a, b

-----------------------------------------------------------------------------
\* What the variables hold.

Changes == UNION {[P -> Nat] : P \in {Q \in SUBSET Nat : IsFiniteSet(Q)}}

Levels == {l \in Changes : IsLevels(l)}

Tops == [bids : Levels, asks : Levels]

\* A book no deeper than its limit.
Books == {b \in [bids : Levels, asks : Levels, maxDepth : {DefaultMaxDepth}] :
            /\ Cardinality(DOMAIN b.bids) <= DefaultMaxDepth
            /\ Cardinality(DOMAIN b.asks) <= DefaultMaxDepth}

\* The last failure starts a recovery.
BookStates ==
  {bs \in [book : Books, lastSnapshot : {"none", "recent", "old"},
           failures : 0 .. MaxFailures, recovering : BOOLEAN] :
     ~bs.recovering => bs.failures < MaxFailures}

\* A snapshot has no zero among its quantities.
BookMessages ==
  {m \in [type : {"snapshot", "update"}, no : Nat, bids : Changes, asks : Changes,
          checksum : Tops] :
     m.type = "snapshot" => m.bids \in Levels /\ m.asks \in Levels}

Messages == BookMessages \cup {Ack}

Commands == [op : {"subscribe", "unsubscribe"}, pair : Pairs]

Places == {Reading} \cup {At(place, p) : place \in {"unsubscribe", "subscribe"}, p \in Pairs}

LEMMA ChangesAre == \A l : (l \in Changes <=> IsChange(l)) /\ (l \in Levels <=> IsSide(l))
<1>1. ASSUME NEW l, l \in Changes PROVE IsChange(l)
  <2>1. PICK P \in {Q \in SUBSET Nat : IsFiniteSet(Q)} : l \in [P -> Nat]
    BY <1>1 DEF Changes
  <2> QED  BY <2>1 DEF IsChange
<1>2. ASSUME NEW l, IsChange(l) PROVE l \in Changes
  <2>1. l \in [DOMAIN l -> Nat] /\ DOMAIN l \in {Q \in SUBSET Nat : IsFiniteSet(Q)}
    BY <1>2 DEF IsChange
  <2> QED  BY <2>1 DEF Changes
<1> QED  BY <1>1, <1>2 DEF Levels, IsSide

LEMMA Depths == DefaultMaxDepth \in Nat \ {0} /\ FeedDepth \in Nat \ {0} /\ ChecksumDepth \in Nat \ {0}
BY DepthAssumption, BookSyncAssumption

-----------------------------------------------------------------------------
\* The operations on a book.

\* apply_updates on one side.
LEMMA ApplyUpdatesKeeps ==
  ASSUME NEW b \in Books, NEW u \in Changes, NEW side \in Sides
  PROVE  LET c == ApplyUpdates(b, u, side) IN
         /\ c \in Books /\ c[side] = Truncate(Merge(b[side], u), DefaultMaxDepth, side)
         /\ \A other \in Sides \ {side} : c[other] = b[other]
<1> DEFINE t == Truncate(Merge(b[side], u), DefaultMaxDepth, side)
           c == [b EXCEPT ![side] = t]
<1>1. b.maxDepth = DefaultMaxDepth /\ b.bids \in Levels /\ b.asks \in Levels
  BY DEF Books
<1>2. b[side] \in Levels
  BY <1>1 DEF Sides, Books
<1>3. IsSide(Merge(b[side], u))
  BY <1>2, ChangesAre, MergeKeeps
<1>4. t \in Levels /\ Cardinality(DOMAIN t) <= DefaultMaxDepth
  BY <1>3, Depths, ChangesAre, TruncateKeeps
<1>5. ApplyUpdates(b, u, side) = c
  BY <1>1 DEF ApplyUpdates
<1> HIDE DEF t
<1>6. CASE side = "bids"
  BY <1>1, <1>4, <1>5, <1>6 DEF Sides, Books, t
<1>7. CASE side = "asks"
  BY <1>1, <1>4, <1>5, <1>7 DEF Sides, Books, t
<1> QED  BY <1>6, <1>7 DEF Sides

\* A delta on both.
LEMMA ApplyDeltaKeeps ==
  ASSUME NEW b \in Books, NEW x \in Changes, NEW y \in Changes
  PROVE  LET c == ApplyDelta(b, x, y) IN
         /\ c \in Books
         /\ c.bids = Truncate(Merge(b.bids, x), DefaultMaxDepth, "bids")
         /\ c.asks = Truncate(Merge(b.asks, y), DefaultMaxDepth, "asks")
<1> DEFINE d == ApplyUpdates(b, x, "bids")
           c == ApplyUpdates(d, y, "asks")
<1>1. d \in Books /\ d["bids"] = Truncate(Merge(b["bids"], x), DefaultMaxDepth, "bids") /\ d["asks"] = b["asks"]
  BY ApplyUpdatesKeeps DEF Sides
<1> HIDE DEF d
<1>2. c \in Books /\ c["asks"] = Truncate(Merge(d["asks"], y), DefaultMaxDepth, "asks") /\ c["bids"] = d["bids"]
  BY <1>1, ApplyUpdatesKeeps DEF Sides
<1> HIDE DEF c
<1>3. \A e \in Books : e["bids"] = e.bids /\ e["asks"] = e.asks
  BY DEF Books
<1>4. /\ c \in Books
      /\ c.bids = Truncate(Merge(b.bids, x), DefaultMaxDepth, "bids")
      /\ c.asks = Truncate(Merge(b.asks, y), DefaultMaxDepth, "asks")
  BY <1>1, <1>2, <1>3
<1> QED  BY <1>4 DEF c, d, ApplyDelta

\* A snapshot, of which nothing is left out if it is no deeper than the book.
LEMMA ApplySnapshotKeeps ==
  ASSUME NEW b \in Books, NEW x \in Levels, NEW y \in Levels
  PROVE  LET c == ApplySnapshot(b, x, y) IN
         /\ c \in Books
         /\ Cardinality(DOMAIN x) <= DefaultMaxDepth => c.bids = x
         /\ Cardinality(DOMAIN y) <= DefaultMaxDepth => c.asks = y
<1> DEFINE e == [b EXCEPT !.bids = NoLevels, !.asks = NoLevels]
           c == ApplyDelta(e, x, y)
<1>1. NoLevels \in Levels /\ Cardinality(DOMAIN NoLevels) <= DefaultMaxDepth
  BY NoLevelsSide, ChangesAre, FS_EmptySet, Depths
<1>2. e \in Books /\ e.bids = NoLevels /\ e.asks = NoLevels
  BY <1>1 DEF Books
<1> HIDE DEF e
<1>3. x \in Changes /\ y \in Changes /\ IsSide(x) /\ IsSide(y)
  BY ChangesAre DEF Levels
<1>4. /\ c \in Books
      /\ c.bids = Truncate(Merge(e.bids, x), DefaultMaxDepth, "bids")
      /\ c.asks = Truncate(Merge(e.asks, y), DefaultMaxDepth, "asks")
  BY <1>2, <1>3, ApplyDeltaKeeps
<1> HIDE DEF c
<1>5. Merge(NoLevels, x) = x /\ Merge(NoLevels, y) = y
  BY <1>3, MergeNothing
<1>6. /\ Cardinality(DOMAIN x) <= DefaultMaxDepth => Truncate(x, DefaultMaxDepth, "bids") = x
      /\ Cardinality(DOMAIN y) <= DefaultMaxDepth => Truncate(y, DefaultMaxDepth, "asks") = y
  BY <1>3, TruncateShort, Depths
<1>7. /\ c \in Books
      /\ Cardinality(DOMAIN x) <= DefaultMaxDepth => c.bids = x
      /\ Cardinality(DOMAIN y) <= DefaultMaxDepth => c.asks = y
  BY <1>2, <1>4, <1>5, <1>6
<1> QED  BY <1>7 DEF c, e, ApplySnapshot

-----------------------------------------------------------------------------
\* What the server publishes.

\* The checksum of a book is made of levels.
LEMMA ChecksumTyped ==
  ASSUME NEW b, b.bids \in Levels, b.asks \in Levels
  PROVE  Checksum(b) \in Tops
<1>1. Truncate(b.bids, ChecksumDepth, "bids") \in Levels /\ Truncate(b.asks, ChecksumDepth, "asks") \in Levels
  BY Depths, ChangesAre, TruncateKeeps
<1> QED  BY <1>1 DEF Checksum, Tops

LEMMA TopTyped ==
  ASSUME NEW m \in Tops, NEW side \in Sides
  PROVE  /\ m[side] \in Levels /\ IsSide(m[side])
         /\ Top(m, side) \in Levels /\ Cardinality(DOMAIN Top(m, side)) <= FeedDepth
<1>1. m[side] \in Levels
  BY DEF Tops, Sides
<1> QED  BY <1>1, Depths, ChangesAre, TruncateKeeps DEF Top

LEMMA TopChecksumTyped ==
  ASSUME NEW m \in Tops
  PROVE  TopChecksum(m) \in Tops
<1> DEFINE b == [bids |-> Top(m, "bids"), asks |-> Top(m, "asks")]
<1>1. b.bids \in Levels /\ b.asks \in Levels
  BY TopTyped DEF Sides
<1> QED  BY <1>1, ChecksumTyped DEF TopChecksum

LEMMA SnapshotTyped ==
  ASSUME NEW m \in Tops, NEW no \in Nat
  PROVE  /\ Snapshot(m, no) \in BookMessages /\ Snapshot(m, no).type = "snapshot"
         /\ Snapshot(m, no).no = no /\ Snapshot(m, no).checksum = TopChecksum(m)
         /\ Snapshot(m, no).bids = Top(m, "bids") /\ Snapshot(m, no).asks = Top(m, "asks")
<1>1. /\ Top(m, "bids") \in Levels /\ Top(m, "asks") \in Levels
      /\ Top(m, "bids") \in Changes /\ Top(m, "asks") \in Changes
  BY TopTyped DEF Sides, Levels
<1> QED  BY <1>1, TopChecksumTyped DEF Snapshot, BookMessages

LEMMA UpdateTyped ==
  ASSUME NEW old \in Tops, NEW new \in Tops, NEW no \in Nat
  PROVE  /\ Update(old, new, no) \in BookMessages /\ Update(old, new, no).type = "update"
         /\ Update(old, new, no).no = no /\ Update(old, new, no).checksum = TopChecksum(new)
         /\ Update(old, new, no).bids = Delta(old, new, "bids")
         /\ Update(old, new, no).asks = Delta(old, new, "asks")
<1>1. Delta(old, new, "bids") \in Changes /\ Delta(old, new, "asks") \in Changes
  BY TopTyped, DeltaFits, Depths, ChangesAre DEF Sides
<1> QED  BY <1>1, TopChecksumTyped DEF Update, BookMessages

\* A change at one price leaves a book.
LEMMA MarketTyped ==
  ASSUME NEW m \in Tops, NEW side \in Sides, NEW price \in Nat, NEW qty \in Nat
  PROVE  [m EXCEPT ![side] = Merge(@, [x \in {price} |-> qty])] \in Tops
<1> DEFINE u == [x \in {price} |-> qty]
<1>1. IsChange(u)
  BY FS_Singleton DEF IsChange
<1> HIDE DEF u
<1>2. Merge(m[side], u) \in Levels
  BY <1>1, TopTyped, MergeKeeps, ChangesAre
<1>3. [m EXCEPT ![side] = Merge(@, u)] = [m EXCEPT ![side] = Merge(m[side], u)]
  BY DEF Tops, Sides
<1>4. [m EXCEPT ![side] = Merge(m[side], u)] \in Tops
  <2> DEFINE l == Merge(m[side], u)
  <2> HIDE DEF l
  <2>1. l \in Levels => [m EXCEPT ![side] = l] \in Tops
    BY DEF Tops, Sides
  <2> QED  BY <1>2, <2>1 DEF l
<1> QED  BY <1>3, <1>4 DEF u

LEMMA AckTyped == Ack.bids \in Changes /\ Ack.asks \in Changes /\ Ack \notin BookMessages /\ ~IsBook(Ack) /\ Ack.type # "snapshot"
BY NoLevelsSide, ChangesAre DEF Ack, BookMessages, IsBook

LEMMA MessageKinds ==
  \A m \in Messages : /\ IsBook(m) <=> m \in BookMessages
                      /\ ~IsBook(m) <=> m = Ack
                      /\ m.bids \in Changes /\ m.asks \in Changes
BY AckTyped DEF Messages, BookMessages, IsBook

-----------------------------------------------------------------------------
\* The monitor's handling of a message.

LEMMA NewBookTyped == NewBook \in Books /\ NewBookState \in BookStates
<1>1. NewBook \in Books
  BY NoLevelsSide, ChangesAre, FS_EmptySet, Depths DEF NewBook, WithDepth, Books
<1> QED  BY <1>1, BookSyncAssumption DEF NewBookState, BookStates

LEMMA HandledTyped ==
  ASSUME NEW bs \in BookStates, NEW m \in Messages
  PROVE  Handled(bs, m) \in BookStates
<1>1. /\ bs.book \in Books /\ bs.failures \in 0 .. MaxFailures /\ bs.recovering \in BOOLEAN
      /\ bs.lastSnapshot \in {"none", "recent", "old"}
      /\ ~bs.recovering => bs.failures < MaxFailures
  BY DEF BookStates
<1>2. CASE m.type = "snapshot"
  <2>1. ApplySnapshot(bs.book, m.bids, m.asks) \in Books
    BY <1>1, <1>2, AckTyped, ApplySnapshotKeeps DEF Messages, BookMessages
  <2> QED  BY <1>2, <2>1, BookSyncAssumption DEF Handled, AfterSnapshot, BookStates
<1>3. CASE m.type # "snapshot"
  <2> DEFINE b == ApplyDelta(bs.book, m.bids, m.asks)
  <2>1. b \in Books
    BY <1>1, MessageKinds, ApplyDeltaKeeps
  <2>2. Handled(bs, m) = AfterUpdate(bs, m)
    BY <1>3 DEF Handled
  <2> HIDE DEF b
  <2>3. MaxFailures \in Nat \ {0} /\ NewBook \in Books
    BY BookSyncAssumption, NewBookTyped
  <2>4. CASE InGrace(bs) \/ bs.recovering
    <3>1. Handled(bs, m) = [bs EXCEPT !.book = b]
      BY <2>2, <2>4 DEF AfterUpdate, b
    <3> QED  BY <2>1, <3>1 DEF BookStates
  <2>5. CASE ~InGrace(bs) /\ ~bs.recovering /\ ValidateChecksum(b, m.checksum)
    <3>1. Handled(bs, m) = [bs EXCEPT !.book = b, !.failures = 0]
      BY <2>2, <2>5 DEF AfterUpdate, b
    <3>2. 0 \in 0 .. MaxFailures /\ 0 < MaxFailures
      BY <2>3
    <3> QED  BY <2>1, <3>1, <3>2 DEF BookStates
  <2>6. CASE ~InGrace(bs) /\ ~bs.recovering /\ ~ValidateChecksum(b, m.checksum)
    <3>1. bs.failures + 1 \in 0 .. MaxFailures
      BY <1>1, <2>3, <2>6
    <3>2. CASE bs.failures + 1 < MaxFailures
      <4>1. Handled(bs, m) = [bs EXCEPT !.book = b, !.failures = bs.failures + 1]
        BY <2>2, <2>6, <3>2 DEF AfterUpdate, b, BookStates
      <4> QED  BY <2>1, <3>1, <3>2, <4>1 DEF BookStates
    <3>3. CASE ~(bs.failures + 1 < MaxFailures)
      <4>1. Handled(bs, m) = [bs EXCEPT !.book = NewBook, !.failures = bs.failures + 1, !.recovering = TRUE]
        BY <2>2, <2>6, <3>3 DEF AfterUpdate, b, BookStates
      <4> QED  BY <2>3, <3>1, <4>1 DEF BookStates
    <3> QED  BY <3>2, <3>3
  <2> QED  BY <2>4, <2>5, <2>6
<1> QED  BY <1>2, <1>3

-----------------------------------------------------------------------------
\* What the engine does to a feed.

Waiting(p) == {feed[p][i] : i \in DOMAIN feed[p]}

\* Nothing is new, and no answer falls behind a book message it was ahead of.
Thins(new, old) ==
  /\ \A i \in DOMAIN new : \E k \in DOMAIN old : new[i] = old[k]
  /\ \A i, j \in DOMAIN new :
       i < j /\ new[i] # Ack /\ new[j] = Ack
         => \E k, l \in DOMAIN old : k < l /\ old[k] = new[i] /\ old[l] = Ack

LEMMA SameThins == \A s : Thins(s, s)
BY DEF Thins

LEMMA PrefixThins ==
  ASSUME NEW S, NEW s \in Seq(S), NEW n \in Nat, n <= Len(s)
  PROVE  SubSeq(s, 1, n) \in Seq(S) /\ Thins(SubSeq(s, 1, n), s)
<1> DEFINE t == SubSeq(s, 1, n)
<1>1. t \in Seq(S) /\ Len(t) = n /\ \A i \in 1 .. n : t[i] = s[i]
  OBVIOUS
<1>2. DOMAIN t = 1 .. n /\ DOMAIN s = 1 .. Len(s) /\ Len(s) \in Nat
  BY <1>1
<1> HIDE DEF t
<1>3. Thins(t, s)
  BY <1>1, <1>2 DEF Thins
<1> QED  BY <1>1, <1>3 DEF t

LEMMA TailThins ==
  ASSUME NEW S, NEW s \in Seq(S), s # <<>>
  PROVE  Tail(s) \in Seq(S) /\ Thins(Tail(s), s)
<1> DEFINE t == Tail(s)
<1>1. t \in Seq(S) /\ Len(t) = Len(s) - 1 /\ Len(s) \in Nat /\ \A i \in 1 .. Len(t) : t[i] = s[i + 1]
  OBVIOUS
<1>2. DOMAIN t = 1 .. Len(t) /\ DOMAIN s = 1 .. Len(s)
  BY <1>1
<1> HIDE DEF t
<1>3. \A i \in DOMAIN t : i + 1 \in DOMAIN s /\ t[i] = s[i + 1]
  BY <1>1, <1>2
<1>4. \A i, j \in DOMAIN t : i < j => i + 1 < j + 1
  BY <1>2
<1>5. Thins(t, s)
  BY <1>3, <1>4 DEF Thins
<1> QED  BY <1>1, <1>5 DEF t

LEMMA RemoveThins ==
  ASSUME NEW S, NEW s \in Seq(S), NEW n \in DOMAIN s
  PROVE  RemoveAt(s, n) \in Seq(S) /\ Thins(RemoveAt(s, n), s)
<1> DEFINE a == SubSeq(s, 1, n - 1)  b == SubSeq(s, n + 1, Len(s))  t == a \o b
           at(i) == IF i < n THEN i ELSE i + 1
<1>1. n \in 1 .. Len(s) /\ Len(s) \in Nat /\ DOMAIN s = 1 .. Len(s)
  OBVIOUS
<1>2. a \in Seq(S) /\ Len(a) = n - 1 /\ \A i \in 1 .. n - 1 : a[i] = s[i]
  BY <1>1
<1>3. b \in Seq(S) /\ Len(b) = Len(s) - n /\ \A i \in 1 .. Len(s) - n : b[i] = s[n + i]
  BY <1>1
<1> HIDE DEF a, b
<1>4. /\ t \in Seq(S) /\ Len(t) = Len(a) + Len(b)
      /\ \A i \in 1 .. Len(a) + Len(b) : t[i] = IF i <= Len(a) THEN a[i] ELSE b[i - Len(a)]
  BY <1>2, <1>3, ConcatProperties
<1> HIDE DEF t
<1>5. DOMAIN t = 1 .. Len(s) - 1
  BY <1>1, <1>2, <1>3, <1>4
<1>6. \A i \in DOMAIN t : at(i) \in DOMAIN s /\ t[i] = s[at(i)]
  <2> TAKE i \in DOMAIN t
  <2> DEFINE k == i - Len(a)
  <2>1. CASE i < n
    BY <1>1, <1>2, <1>3, <1>4, <1>5, <2>1
  <2>2. CASE ~(i < n)
    <3>1. k \in 1 .. Len(s) - n /\ n + k = i + 1 /\ i \in 1 .. Len(a) + Len(b) /\ ~(i <= Len(a))
      BY <1>1, <1>2, <1>3, <1>5, <2>2
    <3>2. t[i] = b[k] /\ b[k] = s[n + k]
      BY <1>3, <1>4, <3>1
    <3>3. i + 1 \in DOMAIN s /\ at(i) = i + 1
      BY <1>1, <1>5, <2>2
    <3> QED  BY <3>1, <3>2, <3>3
  <2> QED  BY <2>1, <2>2
<1>7. \A i, j \in DOMAIN t : i < j => at(i) < at(j)
  BY <1>1, <1>5
<1> HIDE DEF at
<1>8. Thins(t, s)
  BY <1>6, <1>7 DEF Thins
<1> QED  BY <1>4, <1>8 DEF t, a, b, RemoveAt

\* A message that is overtaken is no answer.
LEMMA SwapThins ==
  ASSUME NEW S, NEW s \in Seq(S), NEW n \in 1 .. Len(s) - 1, s[n] # Ack
  PROVE  LET t == [s EXCEPT ![n] = s[n + 1], ![n + 1] = s[n]] IN
         t \in Seq(S) /\ Thins(t, s)
<1> DEFINE t == [s EXCEPT ![n] = s[n + 1], ![n + 1] = s[n]]
           at(i) == IF i = n THEN n + 1 ELSE IF i = n + 1 THEN n ELSE i
<1>1. Len(s) \in Nat /\ DOMAIN s = 1 .. Len(s) /\ n \in DOMAIN s /\ n + 1 \in DOMAIN s
  OBVIOUS
<1>2. t \in Seq(S)
  BY <1>1
<1>3. DOMAIN t = DOMAIN s
  OBVIOUS
<1>4. \A i \in DOMAIN s : at(i) \in DOMAIN s /\ t[i] = s[at(i)]
  BY <1>1
<1>5. \A i, j \in DOMAIN s : i < j => at(i) < at(j) \/ at(j) = n
  BY <1>1
<1> HIDE DEF t, at
<1>6. Thins(t, s)
  BY <1>3, <1>4, <1>5 DEF Thins
<1> QED  BY <1>2, <1>6 DEF t

-----------------------------------------------------------------------------
\* Types.

Typed ==
  /\ market \in [Pairs -> Tops] /\ subs \in SUBSET Pairs /\ sent \in [Pairs -> Nat]
  /\ connected \in BOOLEAN /\ feed \in [Pairs -> Seq(Messages)]
  /\ cmds \in Seq(Commands) /\ active \in SUBSET Pairs
  /\ books \in [Pairs -> BookStates] /\ loop \in Places
  /\ status \in {"Healthy", "Recovering", "NetworkLost"}
  /\ intact \in [Pairs -> Int]

\* The commands before the loop are a subscription of every pair.
LEMMA FirstCommands ==
  ASSUME NEW s, s = SetToSeq(Pairs)
  PROVE  s \in Seq(Pairs) /\ [i \in DOMAIN s |-> Subscribed(s[i])] \in Seq(Commands)
<1> DEFINE n == Cardinality(Pairs)
<1>1. n \in Nat /\ ExistsBijection(1 .. n, Pairs)
  BY BookSyncAssumption, FS_CardinalityType
<1>2. \E f \in [1 .. n -> Pairs] : IsInjective(f)
  BY <1>1 DEF ExistsBijection, Bijection, Injection
<1>3. s \in [1 .. n -> Pairs]
  BY <1>2 DEF SetToSeq
<1> HIDE DEF n
<1>4. DOMAIN s = 1 .. n /\ s \in Seq(Pairs)
  BY <1>1, <1>3
<1>5. \A i \in 1 .. n : Subscribed(s[i]) \in Commands
  BY <1>3 DEF Subscribed, Command, Commands
<1>6. [i \in DOMAIN s |-> Subscribed(s[i])] \in [1 .. n -> Commands]
  BY <1>4, <1>5
<1>7. [1 .. n -> Commands] \subseteq Seq(Commands)
  BY <1>1
<1> QED  BY <1>4, <1>6, <1>7

LEMMA InitTyped == ASSUME Init PROVE Typed
<1>1. market \in [Pairs -> Tops]
  <2> DEFINE b == [p \in BidPrices |-> 1]  a == [p \in AskPrices |-> 1]
  <2>1. IsSide(b) /\ IsSide(a)
    BY BookSyncAssumption DEF IsSide, IsChange, IsLevels
  <2>2. b \in Levels /\ a \in Levels
    BY <2>1, ChangesAre
  <2> HIDE DEF a, b
  <2>3. [bids |-> b, asks |-> a] \in Tops
    BY <2>2 DEF Tops
  <2>4. market \in [Pairs -> {[bids |-> b, asks |-> a]}]
    BY DEF Init, a, b
  <2> QED  BY <2>3, <2>4
<1>2. cmds \in Seq(Commands)
  BY FirstCommands DEF Init
<1>3. books \in [Pairs -> BookStates]
  BY NewBookTyped DEF Init
<1>4. sent \in [Pairs -> Nat] /\ feed \in [Pairs -> Seq(Messages)] /\ intact \in [Pairs -> Int]
  BY DEF Init, Broken
<1>5. /\ subs \in SUBSET Pairs /\ active \in SUBSET Pairs /\ connected \in BOOLEAN
      /\ loop \in Places /\ status \in {"Healthy", "Recovering", "NetworkLost"}
  BY DEF Init, Places
<1> QED  BY <1>1, <1>2, <1>3, <1>4, <1>5 DEF Typed

\* The steps at which feeds only lose messages or see them overtake.
Thinning ==
  \/ ConnectionLost
  \/ \E p \in Pairs : EngineReplaces(p) \/ EngineReorders(p) \/ EngineLosesAck(p) \/ ReadBook(p)

LEMMA FeedThins ==
  ASSUME Typed, Thinning
  PROVE  feed' \in [Pairs -> Seq(Messages)] /\ \A q \in Pairs : Thins(feed'[q], feed[q])
<1>1. feed \in [Pairs -> Seq(Messages)]
  BY DEF Typed
<1>2. ASSUME NEW p \in Pairs, NEW t \in Seq(Messages), Thins(t, feed[p]),
             feed' = [feed EXCEPT ![p] = t]
      PROVE  feed' \in [Pairs -> Seq(Messages)] /\ \A q \in Pairs : Thins(feed'[q], feed[q])
  <2>1. \A q \in Pairs : feed'[q] = IF q = p THEN t ELSE feed[q]
    BY <1>1, <1>2
  <2> QED  BY <1>1, <1>2, <2>1, SameThins
<1>3. CASE ConnectionLost
  <2>1. PICK n \in [Pairs -> 0 .. FeedCapacity + 4] :
          /\ \A p \in Pairs : n[p] <= Len(feed[p])
          /\ feed' = [p \in Pairs |-> SubSeq(feed[p], 1, n[p])]
    BY <1>3 DEF ConnectionLost
  <2>2. \A p \in Pairs : n[p] \in Nat /\ feed[p] \in Seq(Messages)
    BY <1>1, BookSyncAssumption
  <2>3. \A p \in Pairs : feed'[p] \in Seq(Messages) /\ Thins(feed'[p], feed[p])
    BY <2>1, <2>2, PrefixThins
  <2> QED  BY <2>1, <2>3
<1>4. ASSUME NEW p \in Pairs, EngineReplaces(p)
      PROVE  feed' \in [Pairs -> Seq(Messages)] /\ \A q \in Pairs : Thins(feed'[q], feed[q])
  <2>1. PICK i \in DOMAIN feed[p] : feed' = [feed EXCEPT ![p] = RemoveAt(feed[p], i)]
    BY <1>1, <1>4 DEF EngineReplaces
  <2>2. RemoveAt(feed[p], i) \in Seq(Messages) /\ Thins(RemoveAt(feed[p], i), feed[p])
    BY <1>1, RemoveThins
  <2> QED  BY <1>2, <2>1, <2>2
<1>5. ASSUME NEW p \in Pairs, EngineLosesAck(p)
      PROVE  feed' \in [Pairs -> Seq(Messages)] /\ \A q \in Pairs : Thins(feed'[q], feed[q])
  <2>1. PICK i \in DOMAIN feed[p] : feed' = [feed EXCEPT ![p] = RemoveAt(feed[p], i)]
    BY <1>1, <1>5 DEF EngineLosesAck
  <2>2. RemoveAt(feed[p], i) \in Seq(Messages) /\ Thins(RemoveAt(feed[p], i), feed[p])
    BY <1>1, RemoveThins
  <2> QED  BY <1>2, <2>1, <2>2
<1>6. ASSUME NEW p \in Pairs, EngineReorders(p)
      PROVE  feed' \in [Pairs -> Seq(Messages)] /\ \A q \in Pairs : Thins(feed'[q], feed[q])
  <2>1. PICK i \in 1 .. Len(feed[p]) - 1 :
          /\ IsBook(feed[p][i])
          /\ feed' = [feed EXCEPT ![p] = [feed[p] EXCEPT ![i] = feed[p][i+1], ![i+1] = feed[p][i]]]
    BY <1>1, <1>6 DEF EngineReorders
  <2>2. feed[p][i] # Ack
    BY <2>1, AckTyped
  <2> DEFINE t == [feed[p] EXCEPT ![i] = feed[p][i+1], ![i+1] = feed[p][i]]
  <2>3. t \in Seq(Messages) /\ Thins(t, feed[p])
    BY <1>1, <2>2, SwapThins
  <2> HIDE DEF t
  <2> QED  BY <1>2, <2>1, <2>3 DEF t
<1>7. ASSUME NEW p \in Pairs, ReadBook(p)
      PROVE  feed' \in [Pairs -> Seq(Messages)] /\ \A q \in Pairs : Thins(feed'[q], feed[q])
  <2>1. feed[p] # <<>> /\ feed' = [feed EXCEPT ![p] = Tail(feed[p])]
    BY <1>1, <1>7 DEF ReadBook
  <2>2. Tail(feed[p]) \in Seq(Messages) /\ Thins(Tail(feed[p]), feed[p])
    BY <1>1, <2>1, TailThins
  <2> QED  BY <1>2, <2>1, <2>2
<1> QED  BY <1>3, <1>4, <1>5, <1>6, <1>7 DEF Thinning

\* What a change of the market is.
LEMMA MarketMove ==
  ASSUME Typed, NEW p \in Pairs, MarketMoves(p)
  PROVE  \E new \in Tops :
           /\ market' = [market EXCEPT ![p] = new]
           /\ \/ /\ p \in subs
                 /\ feed' = [feed EXCEPT ![p] = Append(feed[p], Update(market[p], new, sent[p] + 1))]
                 /\ sent' = [sent EXCEPT ![p] = sent[p] + 1]
              \/ /\ \/ p \notin subs
                    \/ /\ DOMAIN Delta(market[p], new, "bids") = {}
                       /\ DOMAIN Delta(market[p], new, "asks") = {}
                 /\ feed' = feed /\ sent' = sent
<1>1. PICK side \in Sides, qty \in 0 .. MaxQuantity :
        \E price \in IF side = "bids" THEN BidPrices ELSE AskPrices :
          LET new == [market[p] EXCEPT ![side] = Merge(@, [x \in {price} |-> qty])]
              m   == Update(market[p], new, sent[p] + 1)
          IN  /\ new # market[p]
              /\ market' = [market EXCEPT ![p] = new]
              /\ \/ /\ p \in subs /\ DOMAIN m.bids \cup DOMAIN m.asks # {}
                    /\ Len(feed[p]) < FeedCapacity
                    /\ feed' = [feed EXCEPT ![p] = Append(@, m)]
                    /\ sent' = [sent EXCEPT ![p] = @ + 1]
                 \/ /\ p \notin subs \/ DOMAIN m.bids \cup DOMAIN m.asks = {}
                    /\ UNCHANGED <<feed, sent>>
  BY DEF MarketMoves
<1>2. PICK price \in IF side = "bids" THEN BidPrices ELSE AskPrices :
          LET new == [market[p] EXCEPT ![side] = Merge(@, [x \in {price} |-> qty])]
              m   == Update(market[p], new, sent[p] + 1)
          IN  /\ new # market[p]
              /\ market' = [market EXCEPT ![p] = new]
              /\ \/ /\ p \in subs /\ DOMAIN m.bids \cup DOMAIN m.asks # {}
                    /\ Len(feed[p]) < FeedCapacity
                    /\ feed' = [feed EXCEPT ![p] = Append(@, m)]
                    /\ sent' = [sent EXCEPT ![p] = @ + 1]
                 \/ /\ p \notin subs \/ DOMAIN m.bids \cup DOMAIN m.asks = {}
                    /\ UNCHANGED <<feed, sent>>
  BY <1>1
<1> DEFINE new == [market[p] EXCEPT ![side] = Merge(@, [x \in {price} |-> qty])]
           m   == Update(market[p], new, sent[p] + 1)
<1>3. price \in Nat /\ qty \in Nat /\ market[p] \in Tops /\ sent[p] \in Nat
  BY BookSyncAssumption DEF Typed
<1>4. new \in Tops
  BY <1>3, MarketTyped
<1>5. m.bids = Delta(market[p], new, "bids") /\ m.asks = Delta(market[p], new, "asks")
  BY DEF Update
<1>6. /\ market' = [market EXCEPT ![p] = new]
      /\ \/ /\ p \in subs
            /\ feed' = [feed EXCEPT ![p] = Append(@, m)]
            /\ sent' = [sent EXCEPT ![p] = @ + 1]
         \/ /\ p \notin subs \/ DOMAIN m.bids \cup DOMAIN m.asks = {}
            /\ UNCHANGED <<feed, sent>>
  BY <1>2
<1> HIDE DEF new
<1>7. DOMAIN m.bids \cup DOMAIN m.asks = {} =>
        /\ DOMAIN Delta(market[p], new, "bids") = {}
        /\ DOMAIN Delta(market[p], new, "asks") = {}
  BY <1>5
<1> HIDE DEF m
<1>8. feed \in [Pairs -> Seq(Messages)] /\ sent \in [Pairs -> Nat]
  BY DEF Typed
<1>9. WITNESS new \in Tops
<1>10. CASE /\ p \in subs
            /\ feed' = [feed EXCEPT ![p] = Append(@, m)]
            /\ sent' = [sent EXCEPT ![p] = @ + 1]
  <2>1. feed' = [feed EXCEPT ![p] = Append(feed[p], m)] /\ sent' = [sent EXCEPT ![p] = sent[p] + 1]
    BY <1>8, <1>10
  <2> QED  BY <1>6, <1>10, <2>1 DEF m
<1>11. CASE /\ p \notin subs \/ DOMAIN m.bids \cup DOMAIN m.asks = {}
            /\ UNCHANGED <<feed, sent>>
  BY <1>6, <1>7, <1>11
<1> QED  BY <1>6, <1>10, <1>11

LEMMA TypedKept == ASSUME Typed, [Next]_vars PROVE Typed'
<1> USE DEF server, engine, monitor, history
<1>1. CASE UNCHANGED vars
  BY <1>1 DEF vars, Typed
<1>2. ASSUME NEW p \in Pairs, ReadBook(p) PROVE Typed'
  <2>1. feed' \in [Pairs -> Seq(Messages)]
    BY <1>2, FeedThins DEF Thinning
  <2> DEFINE m == Head(feed[p])
  <2>2. m \in Messages
    BY <1>2 DEF ReadBook, Typed
  <2> HIDE DEF m
  <2>3. books[p] \in BookStates /\ books' = [books EXCEPT ![p] = Handled(books[p], m)]
    BY <1>2 DEF ReadBook, Typed, m
  <2>4. books' \in [Pairs -> BookStates]
    BY <2>2, <2>3, HandledTyped DEF Typed
  <2>5. loop' \in Places
    BY <1>2 DEF ReadBook, Places
  <2>6. status' \in {"Healthy", "Recovering", "NetworkLost"}
    BY <1>2 DEF ReadBook, CalculateStatus
  <2>7. intact' \in [Pairs -> Int]
    <3>1. m.type = "snapshot" \/ m.type = "update" => m.no \in Int
      BY <2>2, AckTyped DEF Messages, BookMessages, Ack
    <3> DEFINE x == CASE m.type = "snapshot"  -> m.no
                      [] m.type = "update"    -> IF intact[p] # Broken /\ m.no = intact[p] + 1
                                                   THEN m.no ELSE Broken
                      [] OTHER                -> intact[p]
    <3>2. intact' = [intact EXCEPT ![p] = x]
      BY <1>2 DEF ReadBook, Chained, m, Typed
    <3>3. intact[p] \in Int /\ Broken \in Int
      BY DEF Typed, Broken
    <3>4. x \in Int
      BY <3>1, <3>3
    <3> HIDE DEF x
    <3> QED  BY <3>2, <3>4 DEF Typed
  <2> QED  BY <1>2, <2>1, <2>4, <2>5, <2>6, <2>7 DEF ReadBook, Typed
<1>3. CASE ReadOther  BY <1>3 DEF ReadOther, Typed
<1>4. CASE SendUnsubscribe
  <2>1. loop.pair \in Pairs /\ Command("unsubscribe", loop.pair) \in Commands
    BY <1>4 DEF SendUnsubscribe, Typed, Places, Reading, At, Command, Commands
  <2> QED  BY <1>4, <2>1 DEF SendUnsubscribe, Typed, Places
<1>5. CASE SendSubscribe
  <2>1. Subscribed(loop.pair) \in Commands
    BY <1>5 DEF SendSubscribe, Typed, Places, Reading, At, Subscribed, Command, Commands
  <2> QED  BY <1>5, <2>1 DEF SendSubscribe, Typed, Places
<1>6. CASE EngineTakesCommand
  <2> DEFINE c == Head(cmds)  p == c.pair
  <2>1. c \in Commands /\ p \in Pairs /\ cmds' \in Seq(Commands)
    <3>1. cmds # <<>> /\ cmds' = Tail(cmds) /\ cmds \in Seq(Commands)
      BY <1>6 DEF EngineTakesCommand, Typed
    <3>2. c \in Commands
      BY <3>1
    <3> QED  BY <3>1, <3>2 DEF Commands
  <2> DEFINE pair == <<Ack, Snapshot(market[p], sent[p] + 1)>>
  <2>2. pair \in Seq(Messages)
    BY <2>1, SnapshotTyped DEF Typed, Messages
  <2> HIDE DEF pair
  <2>3. /\ feed[p] \o pair \in Seq(Messages) /\ Append(feed[p], Ack) \in Seq(Messages)
        /\ sent[p] + 1 \in Nat
    BY <2>1, <2>2 DEF Typed, Messages
  <2>4. \/ /\ feed' = [feed EXCEPT ![p] = feed[p] \o pair] /\ sent' = [sent EXCEPT ![p] = sent[p] + 1]
           /\ subs' = subs \cup {p} /\ active' = active \cup {p}
        \/ feed' = feed /\ sent' = sent /\ subs' = subs /\ active' = active \cup {p}
        \/ /\ feed' = IF p \in subs THEN [feed EXCEPT ![p] = Append(feed[p], Ack)] ELSE feed
           /\ sent' = sent /\ subs' = subs \ {p} /\ active' = active
    BY <1>6, <2>1 DEF EngineTakesCommand, pair, Typed
  <2> HIDE DEF p, c
  <2>5. /\ feed' \in [Pairs -> Seq(Messages)] /\ sent' \in [Pairs -> Nat]
        /\ subs' \in SUBSET Pairs /\ active' \in SUBSET Pairs
    BY <2>1, <2>3, <2>4 DEF Typed
  <2> QED  BY <1>6, <2>1, <2>5 DEF EngineTakesCommand, Typed
<1>7. CASE ConnectionLost
  <2>1. feed' \in [Pairs -> Seq(Messages)]
    BY <1>7, FeedThins DEF Thinning
  <2> QED  BY <1>7, <2>1 DEF ConnectionLost, Typed
<1>8. CASE Reconnect
  <2>1. \A p \in Pairs : /\ feed[p] \o <<Ack, Snapshot(market[p], sent[p] + 1)>> \in Seq(Messages)
                         /\ sent[p] + 1 \in Nat
    <3> TAKE p \in Pairs
    <3>1. market[p] \in Tops /\ sent[p] + 1 \in Nat /\ feed[p] \in Seq(Messages)
      BY DEF Typed
    <3>2. Ack \in Messages /\ Snapshot(market[p], sent[p] + 1) \in Messages
      BY <3>1, SnapshotTyped DEF Messages
    <3> QED  BY <3>1, <3>2
  <2>2. feed' \in [Pairs -> Seq(Messages)] /\ sent' \in [Pairs -> Nat]
    BY <1>8, <2>1 DEF Reconnect, Typed
  <2> QED  BY <1>8, <2>2 DEF Reconnect, Typed
<1>9. CASE UiNoticesSilence  BY <1>9 DEF UiNoticesSilence, Typed
<1>10. ASSUME NEW p \in Pairs, MarketMoves(p) PROVE Typed'
  <2>1. PICK new \in Tops :
           /\ market' = [market EXCEPT ![p] = new]
           /\ \/ /\ p \in subs
                 /\ feed' = [feed EXCEPT ![p] = Append(feed[p], Update(market[p], new, sent[p] + 1))]
                 /\ sent' = [sent EXCEPT ![p] = sent[p] + 1]
              \/ feed' = feed /\ sent' = sent
    BY <1>10, MarketMove
  <2>2. Update(market[p], new, sent[p] + 1) \in Messages /\ sent[p] + 1 \in Nat
    BY UpdateTyped DEF Typed, Messages
  <2>3. Append(feed[p], Update(market[p], new, sent[p] + 1)) \in Seq(Messages)
    BY <2>2 DEF Typed
  <2>4. market' \in [Pairs -> Tops] /\ feed' \in [Pairs -> Seq(Messages)] /\ sent' \in [Pairs -> Nat]
    BY <2>1, <2>2, <2>3 DEF Typed
  <2> QED  BY <1>10, <2>4 DEF MarketMoves, Typed
<1>11. ASSUME NEW p \in Pairs, GraceEnds(p) PROVE Typed'
  <2>1. [books[p] EXCEPT !.lastSnapshot = "old"] \in BookStates
    BY DEF Typed, BookStates
  <2>2. books' = [books EXCEPT ![p] = [books[p] EXCEPT !.lastSnapshot = "old"]]
    BY <1>11 DEF GraceEnds, Typed
  <2> QED  BY <1>11, <2>1, <2>2 DEF GraceEnds, Typed
<1>12. ASSUME NEW p \in Pairs, EngineReplaces(p) \/ EngineReorders(p) \/ EngineLosesAck(p)
       PROVE  Typed'
  <2>1. feed' \in [Pairs -> Seq(Messages)]
    BY <1>12, FeedThins DEF Thinning
  <2> QED  BY <1>12, <2>1 DEF EngineReplaces, EngineReorders, EngineLosesAck, Typed
<1> QED
  BY <1>1, <1>2, <1>3, <1>4, <1>5, <1>6, <1>7, <1>8, <1>9, <1>10, <1>11, <1>12 DEF Next, ReadsBook

-----------------------------------------------------------------------------
\* What a step is to one pair.

SameBook(q) ==
  /\ books'[q].book = books[q].book /\ books'[q].recovering = books[q].recovering
  /\ books'[q].failures = books[q].failures /\ intact'[q] = intact[q]

\* Nothing, or its messages thin out, or its connection is lost.
Quiet(q) ==
  /\ market'[q] = market[q] /\ sent'[q] = sent[q] /\ (q \in subs' => q \in subs)
  /\ Thins(feed'[q], feed[q]) /\ SameBook(q)

\* A change of the market of which the server tells nobody.
Moved(q) ==
  /\ \/ q \notin subs
     \/ /\ DOMAIN Delta(market[q], market'[q], "bids") = {}
        /\ DOMAIN Delta(market[q], market'[q], "asks") = {}
  /\ subs' = subs /\ sent'[q] = sent[q] /\ feed'[q] = feed[q] /\ SameBook(q)

\* A change that it publishes.
Published(q) ==
  /\ q \in subs /\ subs' = subs /\ sent'[q] = sent[q] + 1
  /\ feed'[q] = Append(feed[q], Update(market[q], market'[q], sent[q] + 1))
  /\ SameBook(q)

\* A new subscription.
Joined(q) ==
  /\ market'[q] = market[q] /\ sent'[q] = sent[q] + 1
  /\ feed'[q] = feed[q] \o <<Ack, Snapshot(market[q], sent[q] + 1)>>
  /\ SameBook(q)

\* The end of one.
Left(q) ==
  /\ market'[q] = market[q] /\ sent'[q] = sent[q] /\ q \notin subs'
  /\ feed'[q] = Append(feed[q], Ack) /\ SameBook(q)

\* A message is read.
Heard(q) ==
  /\ market'[q] = market[q] /\ sent'[q] = sent[q] /\ subs' = subs
  /\ feed[q] # <<>> /\ feed'[q] = Tail(feed[q])
  /\ books'[q] = Handled(books[q], Head(feed[q]))
  /\ intact'[q] = LET m == Head(feed[q]) IN
                  CASE m.type = "snapshot"  -> m.no
                    [] m.type = "update"    -> IF intact[q] # Broken /\ m.no = intact[q] + 1
                                                 THEN m.no ELSE Broken
                    [] OTHER                -> intact[q]

LEMMA PairStep ==
  ASSUME Typed, [Next]_vars, NEW q \in Pairs
  PROVE  Quiet(q) \/ Moved(q) \/ Published(q) \/ Joined(q) \/ Left(q) \/ Heard(q)
<1> USE DEF server, engine, monitor, history
<1>0. /\ market \in [Pairs -> Tops] /\ sent \in [Pairs -> Nat] /\ feed \in [Pairs -> Seq(Messages)]
      /\ books \in [Pairs -> BookStates] /\ intact \in [Pairs -> Int]
  BY DEF Typed
<1>1. CASE UNCHANGED vars
  BY <1>1, SameThins DEF vars, Quiet, SameBook
<1>2. ASSUME NEW p \in Pairs, ReadBook(p) PROVE Quiet(q) \/ Heard(q)
  <2>1. /\ market' = market /\ sent' = sent /\ subs' = subs /\ feed[p] # <<>>
        /\ feed' = [feed EXCEPT ![p] = Tail(feed[p])]
        /\ books' = [books EXCEPT ![p] = Handled(books[p], Head(feed[p]))]
    BY <1>0, <1>2 DEF ReadBook
  <2> DEFINE m == Head(feed[p])
             x == CASE m.type = "snapshot"  -> m.no
                    [] m.type = "update"    -> IF intact[p] # Broken /\ m.no = intact[p] + 1
                                                 THEN m.no ELSE Broken
                    [] OTHER                -> intact[p]
  <2>2. intact' = [intact EXCEPT ![p] = x]
    BY <1>0, <1>2 DEF ReadBook, Chained
  <2> HIDE DEF x
  <2>3. CASE q = p
    BY <1>0, <2>1, <2>2, <2>3 DEF Heard, x
  <2>4. CASE q # p
    BY <1>0, <2>1, <2>2, <2>4, SameThins DEF Quiet, SameBook
  <2> QED  BY <2>3, <2>4
<1>3. CASE ReadOther  BY <1>3, SameThins DEF ReadOther, Quiet, SameBook
<1>4. CASE SendUnsubscribe  BY <1>4, SameThins DEF SendUnsubscribe, Quiet, SameBook
<1>5. CASE SendSubscribe  BY <1>5, SameThins DEF SendSubscribe, Quiet, SameBook
<1>6. CASE EngineTakesCommand
  <2> DEFINE c == Head(cmds)  p == c.pair
  <2>1. p \in Pairs
    <3>1. cmds # <<>> /\ cmds \in Seq(Commands)
      BY <1>6 DEF EngineTakesCommand, Typed
    <3>2. c \in Commands
      BY <3>1
    <3> QED  BY <3>2 DEF Commands
  <2>2. market' = market /\ books' = books /\ intact' = intact
    BY <1>6 DEF EngineTakesCommand
  <2>3. \/ /\ feed' = [feed EXCEPT ![p] = @ \o <<Ack, Snapshot(market[p], sent[p] + 1)>>]
           /\ sent' = [sent EXCEPT ![p] = @ + 1] /\ subs' = subs \cup {p}
        \/ feed' = feed /\ sent' = sent /\ subs' = subs
        \/ /\ feed' = IF p \in subs THEN [feed EXCEPT ![p] = Append(@, Ack)] ELSE feed
           /\ sent' = sent /\ subs' = subs \ {p}
    BY <1>6 DEF EngineTakesCommand
  <2> HIDE DEF p
  <2>4. CASE q = p
    BY <1>0, <2>1, <2>2, <2>3, <2>4, SameThins DEF Quiet, Joined, Left, SameBook
  <2>5. CASE q # p
    BY <1>0, <2>1, <2>2, <2>3, <2>5, SameThins DEF Quiet, SameBook
  <2> QED  BY <2>4, <2>5
<1>7. CASE ConnectionLost
  <2>1. Thins(feed'[q], feed[q])
    BY <1>7, FeedThins DEF Thinning
  <2> QED  BY <1>7, <2>1 DEF ConnectionLost, Quiet, SameBook
<1>8. CASE Reconnect
  <2>1. CASE q \in active
    BY <1>8, <2>1 DEF Reconnect, Joined, SameBook
  <2>2. CASE q \notin active
    BY <1>8, <2>2, SameThins DEF Reconnect, Quiet, SameBook
  <2> QED  BY <2>1, <2>2
<1>9. CASE UiNoticesSilence  BY <1>9, SameThins DEF UiNoticesSilence, Quiet, SameBook
<1>10. ASSUME NEW p \in Pairs, MarketMoves(p) PROVE Quiet(q) \/ Moved(q) \/ Published(q)
  <2>1. PICK new \in Tops :
           /\ market' = [market EXCEPT ![p] = new]
           /\ \/ /\ p \in subs
                 /\ feed' = [feed EXCEPT ![p] = Append(feed[p], Update(market[p], new, sent[p] + 1))]
                 /\ sent' = [sent EXCEPT ![p] = sent[p] + 1]
              \/ /\ \/ p \notin subs
                    \/ /\ DOMAIN Delta(market[p], new, "bids") = {}
                       /\ DOMAIN Delta(market[p], new, "asks") = {}
                 /\ feed' = feed /\ sent' = sent
    BY <1>10, MarketMove
  <2>2. subs' = subs /\ books' = books /\ intact' = intact
    BY <1>10 DEF MarketMoves
  <2>3. CASE q = p
    <3>1. market'[q] = new
      BY <1>0, <2>1, <2>3
    <3> QED  BY <1>0, <2>1, <2>2, <2>3, <3>1 DEF Moved, Published, SameBook
  <2>4. CASE q # p
    BY <1>0, <2>1, <2>2, <2>4, SameThins DEF Quiet, SameBook
  <2> QED  BY <2>3, <2>4
<1>11. ASSUME NEW p \in Pairs, GraceEnds(p) PROVE Quiet(q)
  <2>1. books' = [books EXCEPT ![p].lastSnapshot = "old"]
    BY <1>11 DEF GraceEnds
  <2>2. /\ books'[q].book = books[q].book /\ books'[q].recovering = books[q].recovering
        /\ books'[q].failures = books[q].failures
    BY <1>0, <2>1 DEF BookStates
  <2> QED  BY <1>11, <2>2, SameThins DEF GraceEnds, Quiet, SameBook
<1>12. ASSUME NEW p \in Pairs, EngineReplaces(p) \/ EngineReorders(p) \/ EngineLosesAck(p)
       PROVE  Quiet(q)
  <2>1. Thins(feed'[q], feed[q])
    BY <1>12, FeedThins DEF Thinning
  <2> QED  BY <1>12, <2>1 DEF EngineReplaces, EngineReorders, EngineLosesAck, Quiet, SameBook
<1> QED
  BY <1>1, <1>2, <1>3, <1>4, <1>5, <1>6, <1>7, <1>8, <1>9, <1>10, <1>11, <1>12 DEF Next, ReadsBook

-----------------------------------------------------------------------------
\* What waits after a step.

LEMMA ThinsWaiting ==
  ASSUME NEW q, Thins(feed'[q], feed[q])
  PROVE  Waiting(q)' \subseteq Waiting(q)
BY DEF Thins, Waiting

LEMMA HeardWaiting ==
  ASSUME Typed, NEW q \in Pairs, Heard(q)
  PROVE  /\ Head(feed[q]) \in Waiting(q) /\ Head(feed[q]) \in Messages
         /\ Thins(feed'[q], feed[q]) /\ Waiting(q)' \subseteq Waiting(q)
<1>1. feed[q] \in Seq(Messages) /\ feed[q] # <<>> /\ feed'[q] = Tail(feed[q])
  BY DEF Typed, Heard
<1>2. Thins(feed'[q], feed[q])
  BY <1>1, TailThins
<1>3. Head(feed[q]) = feed[q][1] /\ 1 \in DOMAIN feed[q] /\ Head(feed[q]) \in Messages
  BY <1>1
<1> QED  BY <1>2, <1>3, ThinsWaiting DEF Waiting

LEMMA LaterWaiting ==
  ASSUME Typed, NEW q \in Pairs
  PROVE  /\ Published(q) => Waiting(q)' = Waiting(q) \cup {Update(market[q], market'[q], sent[q] + 1)}
         /\ Joined(q) => Waiting(q)' = Waiting(q) \cup {Ack, Snapshot(market[q], sent[q] + 1)}
         /\ Left(q) => Waiting(q)' = Waiting(q) \cup {Ack}
<1>1. feed[q] \in Seq(Messages) /\ Len(feed[q]) \in Nat /\ DOMAIN feed[q] = 1 .. Len(feed[q])
  BY DEF Typed
<1> DEFINE s == feed[q]  Values(t) == {t[i] : i \in DOMAIN t}
<1>2. \A m : Values(Append(s, m)) = Values(s) \cup {m}
  <2> TAKE m
  <2>1. DOMAIN Append(s, m) = 1 .. Len(s) + 1 /\ Append(s, m)[Len(s) + 1] = m
    BY <1>1
  <2>2. \A i \in 1 .. Len(s) : Append(s, m)[i] = s[i]
    BY <1>1
  <2> QED  BY <1>1, <2>1, <2>2
<1>3. \A m : Values(s \o <<Ack, m>>) = Values(s) \cup {Ack, m}
  <2> TAKE m
  <2> DEFINE t == s \o <<Ack, m>>
  <2>1. /\ DOMAIN t = 1 .. Len(s) + 2
        /\ t[Len(s) + 1] = Ack /\ t[Len(s) + 2] = m
        /\ \A i \in 1 .. Len(s) : t[i] = s[i]
    BY <1>1
  <2> HIDE DEF t
  <2>2. Values(t) = Values(s) \cup {Ack, m}
    BY <1>1, <2>1
  <2> QED  BY <2>2 DEF t
<1>4. Waiting(q) = Values(s) /\ Waiting(q)' = Values(feed'[q])
  BY DEF Waiting
<1> HIDE DEF Values
<1>5. Published(q) => Waiting(q)' = Waiting(q) \cup {Update(market[q], market'[q], sent[q] + 1)}
  BY <1>2, <1>4 DEF Published
<1>6. Joined(q) => Waiting(q)' = Waiting(q) \cup {Ack, Snapshot(market[q], sent[q] + 1)}
  BY <1>3, <1>4 DEF Joined
<1>7. Left(q) => Waiting(q)' = Waiting(q) \cup {Ack}
  BY <1>2, <1>4 DEF Left
<1> QED  BY <1>5, <1>6, <1>7

-----------------------------------------------------------------------------
\* The server numbers its book messages.

Numbered(q) ==
  /\ intact[q] \in {Broken} \cup 1 .. sent[q]
  /\ \A m \in Waiting(q) : IsBook(m) => m.no \in 1 .. sent[q]

LEMMA NumberedInit == ASSUME Init, NEW q \in Pairs PROVE Numbered(q)
BY DEF Init, Numbered, Waiting

LEMMA NumberedKept ==
  ASSUME Typed, [Next]_vars, NEW q \in Pairs, Numbered(q)
  PROVE  Numbered(q)'
<1>0. /\ intact[q] \in {Broken} \cup 1 .. sent[q] /\ sent[q] \in Nat /\ market[q] \in Tops
      /\ \A m \in Waiting(q) : IsBook(m) => m.no \in 1 .. sent[q]
  BY DEF Numbered, Typed
<1>1. CASE Quiet(q)
  BY <1>0, <1>1, ThinsWaiting DEF Quiet, SameBook, Numbered
<1>2. CASE Moved(q)
  BY <1>0, <1>2 DEF Moved, SameBook, Numbered, Waiting
<1>3. CASE Published(q)
  <2> DEFINE m == Update(market[q], market'[q], sent[q] + 1)
  <2>1. m.no = sent[q] + 1
    BY DEF Update
  <2> HIDE DEF m
  <2>2. Waiting(q)' = Waiting(q) \cup {m} /\ sent'[q] = sent[q] + 1 /\ intact'[q] = intact[q]
    BY <1>3, LaterWaiting DEF m, Published, SameBook
  <2> QED  BY <1>0, <2>1, <2>2 DEF Numbered
<1>4. CASE Joined(q)
  <2> DEFINE m == Snapshot(market[q], sent[q] + 1)
  <2>1. m.no = sent[q] + 1
    BY DEF Snapshot
  <2> HIDE DEF m
  <2>2. Waiting(q)' = Waiting(q) \cup {Ack, m} /\ sent'[q] = sent[q] + 1 /\ intact'[q] = intact[q]
    BY <1>4, LaterWaiting DEF m, Joined, SameBook
  <2> QED  BY <1>0, <2>1, <2>2, AckTyped DEF Numbered
<1>5. CASE Left(q)
  BY <1>0, <1>5, LaterWaiting, AckTyped DEF Left, SameBook, Numbered
<1>6. CASE Heard(q)
  <2> DEFINE m == Head(feed[q])
  <2>1. m \in Waiting(q) /\ Waiting(q)' \subseteq Waiting(q) /\ sent'[q] = sent[q]
    BY <1>6, HeardWaiting DEF Heard
  <2>2. intact'[q] \in {m.no, Broken, intact[q]} /\ (intact'[q] # m.no => intact'[q] \in {Broken, intact[q]})
    BY <1>6 DEF Heard
  <2>3. (intact'[q] = m.no /\ IsBook(m)) \/ intact'[q] \in {Broken, intact[q]}
    BY <1>6 DEF Heard, IsBook
  <2> HIDE DEF m
  <2> QED  BY <1>0, <2>1, <2>3 DEF Numbered
<1> QED  BY <1>1, <1>2, <1>3, <1>4, <1>5, <1>6, PairStep

-----------------------------------------------------------------------------
\* Type correctness.

Sound == Typed /\ \A q \in Pairs : Numbered(q)

LEMMA SoundTypes == ASSUME Sound PROVE TypeOK
<1>1. ASSUME NEW p \in Pairs, NEW side \in Sides
      PROVE  /\ IsLevels(market[p][side]) /\ IsLevels(books[p].book[side])
             /\ Cardinality(DOMAIN books[p].book[side]) <= books[p].book.maxDepth
  <2>1. market[p] \in Tops /\ books[p].book \in Books
    BY DEF Sound, Typed, BookStates
  <2>2. market[p][side] \in Levels /\ books[p].book[side] \in Levels
    BY <2>1 DEF Tops, Books, Sides
  <2>3. Cardinality(DOMAIN books[p].book[side]) <= books[p].book.maxDepth
    BY <2>1 DEF Books, Sides
  <2> QED  BY <2>2, <2>3 DEF Levels
<1>2. ASSUME NEW p \in Pairs
      PROVE  /\ books[p].lastSnapshot \in {"none", "recent", "old"}
             /\ books[p].failures \in 0 .. MaxFailures
             /\ books[p].recovering \in BOOLEAN
             /\ intact[p] \in {Broken} \cup 1 .. sent[p]
  BY DEF Sound, Typed, BookStates, Numbered
<1> QED  BY <1>1, <1>2 DEF TypeOK, Sound, Typed, Places

\* Every variable has its type, no book is deeper than its limit, and no message
\* is counted that the server did not send (tui_monitor.rs, AppState and BookState).
THEOREM BookTypes == Spec => []TypeOK
<1>1. Init => Sound
  BY InitTyped, NumberedInit DEF Sound
<1>2. Sound /\ [Next]_vars => Sound'
  BY TypedKept, NumberedKept DEF Sound
<1>3. Sound => TypeOK
  BY SoundTypes
<1> QED  BY <1>1, <1>2, <1>3, PTL DEF Spec

-----------------------------------------------------------------------------
\* A recovery subscribes again.

\* A subscription of p is still to come after the first n commands.
Returning(p, n) ==
  \/ loop = At("subscribe", p)
  \/ \E i \in DOMAIN cmds : n < i /\ cmds[i] = Subscribed(p)

\* After every unsubscribe, and for every recorded pair the server does not have.
Repeated ==
  /\ \A p \in Pairs, n \in DOMAIN cmds : cmds[n] = Command("unsubscribe", p) => Returning(p, n)
  /\ connected => \A p \in active \ subs : Returning(p, 0)

LEMMA RepeatedInit == ASSUME Init PROVE Repeated
<1>1. PICK s : s = SetToSeq(Pairs) /\ cmds = [i \in DOMAIN s |-> Subscribed(s[i])]
  BY DEF Init
<1>2. \A i \in DOMAIN cmds : \A p : cmds[i] # Command("unsubscribe", p)
  BY <1>1 DEF Subscribed, Command
<1> QED  BY <1>2 DEF Init, Repeated

LEMMA RepeatedKept == ASSUME Typed, Repeated, [Next]_vars PROVE Repeated'
<1> USE DEF server, engine, monitor, history
<1>0. /\ cmds \in Seq(Commands) /\ Len(cmds) \in Nat /\ DOMAIN cmds = 1 .. Len(cmds)
      /\ subs \in SUBSET Pairs /\ active \in SUBSET Pairs
  BY DEF Typed
<1>1. ASSUME cmds' = cmds, loop' = loop \/ (\A p : loop # At("subscribe", p)),
             connected' => connected /\ active' \ subs' \subseteq active \ subs
      PROVE  Repeated'
  <2>1. \A p, n : Returning(p, n) => Returning(p, n)'
    BY <1>1 DEF Returning
  <2> QED  BY <1>1, <2>1 DEF Repeated
<1>2. CASE UNCHANGED vars  BY <1>1, <1>2 DEF vars
<1>3. ASSUME NEW p \in Pairs, ReadBook(p) PROVE Repeated'
  <2>1. \A q : loop # At("subscribe", q)
    BY <1>3 DEF ReadBook, Reading, At
  <2> QED  BY <1>1, <1>3, <2>1 DEF ReadBook
<1>4. CASE ReadOther  BY <1>1, <1>4 DEF ReadOther
<1>5. CASE SendUnsubscribe
  <2>1. \A p : loop # At("subscribe", p)
    BY <1>5 DEF SendUnsubscribe, At
  <2>2. PICK r, c : /\ c = Command("unsubscribe", r)
                    /\ cmds' = Append(cmds, c) /\ loop' = At("subscribe", r)
    BY <1>5 DEF SendUnsubscribe
  <2>3. /\ DOMAIN cmds' = 1 .. Len(cmds) + 1 /\ cmds'[Len(cmds) + 1] = c
        /\ \A i \in 1 .. Len(cmds) : cmds'[i] = cmds[i]
    BY <1>0, <2>2
  <2>4. \A p, n : Returning(p, n) => Returning(p, n)'
    BY <1>0, <2>1, <2>3 DEF Returning
  <2>5. \A p : c = Command("unsubscribe", p) => p = r
    BY <2>2 DEF Command
  <2>6. \A n : Returning(r, n)'
    BY <2>2 DEF Returning
  <2>7. ASSUME NEW p \in Pairs, NEW n \in DOMAIN cmds', cmds'[n] = Command("unsubscribe", p)
        PROVE  Returning(p, n)'
    <3>1. CASE n = Len(cmds) + 1
      BY <2>3, <2>5, <2>6, <2>7, <3>1
    <3>2. CASE n # Len(cmds) + 1
      <4>1. n \in DOMAIN cmds /\ cmds[n] = Command("unsubscribe", p)
        BY <1>0, <2>3, <2>7, <3>2
      <4> QED  BY <2>4, <4>1 DEF Repeated
    <3> QED  BY <3>1, <3>2
  <2>8. connected' => \A p \in active' \ subs' : Returning(p, 0)'
    BY <1>5, <2>4 DEF SendUnsubscribe, Repeated
  <2> QED  BY <2>7, <2>8 DEF Repeated
<1>6. CASE SendSubscribe
  <2> DEFINE r == loop.pair  c == Subscribed(r)
  <2>2. cmds' = Append(cmds, c)
    BY <1>6 DEF SendSubscribe
  <2>3. /\ DOMAIN cmds' = 1 .. Len(cmds) + 1 /\ cmds'[Len(cmds) + 1] = c
        /\ \A i \in 1 .. Len(cmds) : cmds'[i] = cmds[i]
    BY <1>0, <2>2
  <2>4. \A p : loop = At("subscribe", p) => p = r
    BY DEF At
  <2>5. \A p : c # Command("unsubscribe", p)
    BY DEF Subscribed, Command
  <2>6. c = Subscribed(r)
    OBVIOUS
  <2> HIDE DEF c, r
  <2>7. \A p, n : Returning(p, n) /\ n \in 0 .. Len(cmds) => Returning(p, n)'
    <3> TAKE p, n
    <3> SUFFICES ASSUME Returning(p, n), n \in 0 .. Len(cmds) PROVE Returning(p, n)'
      OBVIOUS
    <3>1. CASE loop = At("subscribe", p)
      <4>1. cmds'[Len(cmds) + 1] = Subscribed(p) /\ Len(cmds) + 1 \in DOMAIN cmds' /\ n < Len(cmds) + 1
        BY <1>0, <2>3, <2>4, <2>6, <3>1
      <4> QED  BY <4>1 DEF Returning
    <3>2. CASE \E i \in DOMAIN cmds : n < i /\ cmds[i] = Subscribed(p)
      BY <1>0, <2>3, <3>2 DEF Returning
    <3> QED  BY <3>1, <3>2 DEF Returning
  <2>8. ASSUME NEW p \in Pairs, NEW n \in DOMAIN cmds', cmds'[n] = Command("unsubscribe", p)
        PROVE  Returning(p, n)'
    <3>1. n \in DOMAIN cmds /\ cmds[n] = Command("unsubscribe", p) /\ n \in 0 .. Len(cmds)
      BY <1>0, <2>3, <2>5, <2>8
    <3> QED  BY <2>7, <3>1 DEF Repeated
  <2>9. connected' => \A p \in active' \ subs' : Returning(p, 0)'
    BY <1>0, <1>6, <2>7 DEF SendSubscribe, Repeated
  <2> QED  BY <2>8, <2>9 DEF Repeated
<1>7. CASE EngineTakesCommand
  <2> DEFINE c == Head(cmds)  r == c.pair
  <2>1. cmds # <<>> /\ cmds' = Tail(cmds) /\ loop' = loop /\ connected /\ connected' = connected
    BY <1>7 DEF EngineTakesCommand
  <2>2. /\ c = cmds[1] /\ 1 \in DOMAIN cmds /\ c \in Commands
        /\ DOMAIN cmds' = 1 .. Len(cmds) - 1
        /\ \A i \in 1 .. Len(cmds) - 1 : cmds'[i] = cmds[i + 1]
    BY <1>0, <2>1
  <2>3. \A p, n : n \in Nat \ {0} /\ Returning(p, n) => Returning(p, n - 1)'
    <3> TAKE p, n
    <3> SUFFICES ASSUME n \in Nat \ {0}, Returning(p, n) PROVE Returning(p, n - 1)'
      OBVIOUS
    <3>1. CASE loop = At("subscribe", p)
      BY <2>1, <3>1 DEF Returning
    <3>2. ASSUME NEW i \in DOMAIN cmds, n < i, cmds[i] = Subscribed(p) PROVE Returning(p, n - 1)'
      <4>1. i - 1 \in DOMAIN cmds' /\ cmds'[i - 1] = Subscribed(p) /\ n - 1 < i - 1
        <5>1. i - 1 \in 1 .. Len(cmds) - 1 /\ (i - 1) + 1 = i
          BY <1>0, <3>2
        <5> QED  BY <1>0, <2>2, <3>2, <5>1
      <4> QED  BY <4>1 DEF Returning
    <3> QED  BY <3>1, <3>2 DEF Returning
  <2>4. ASSUME NEW p \in Pairs, NEW n \in DOMAIN cmds', cmds'[n] = Command("unsubscribe", p)
        PROVE  Returning(p, n)'
    <3>1. n + 1 \in DOMAIN cmds /\ cmds[n + 1] = Command("unsubscribe", p) /\ n + 1 \in Nat \ {0} /\ (n + 1) - 1 = n
      BY <1>0, <2>2, <2>4
    <3>2. Returning(p, n + 1)
      BY <3>1 DEF Repeated
    <3>3. Returning(p, (n + 1) - 1)'
      BY <2>3, <3>1, <3>2
    <3> QED  BY <3>1, <3>3
  <2>5. c = [op |-> c.op, pair |-> r] /\ c.op \in {"subscribe", "unsubscribe"}
    BY <2>2 DEF Commands
  <2>6. \/ /\ c.op = "subscribe" /\ active' = active \cup {r} /\ r \in subs' /\ subs \subseteq subs'
        \/ /\ c.op = "unsubscribe" /\ active' = active /\ subs' = subs \ {r}
    BY <1>7 DEF EngineTakesCommand
  <2> HIDE DEF c, r
  <2>7. ASSUME NEW p \in active' \ subs' PROVE Returning(p, 0)'
    <3>1. CASE c.op = "unsubscribe" /\ p = r
      <4>1. cmds[1] = Command("unsubscribe", p) /\ p \in Pairs
        BY <1>0, <2>2, <2>5, <2>6, <3>1 DEF Command
      <4>2. Returning(p, 1)
        BY <2>2, <4>1 DEF Repeated
      <4>3. Returning(p, 1 - 1)'
        BY <2>3, <4>2
      <4> QED  BY <4>3
    <3>2. CASE ~(c.op = "unsubscribe" /\ p = r)
      <4>1. p \in active \ subs
        BY <2>5, <2>6, <2>7, <3>2
      <4>2. (Returning(p, 0) /\ p # r) \/ c.op # "subscribe"
        BY <2>1, <2>6, <2>7, <4>1 DEF Repeated
      <4>3. Returning(p, 0) /\ cmds[1] # Subscribed(p)
        BY <2>1, <2>2, <2>5, <2>6, <2>7, <4>1 DEF Repeated, Subscribed, Command
      <4>4. Returning(p, 1)
        BY <1>0, <4>3 DEF Returning
      <4>5. Returning(p, 1 - 1)'
        BY <2>3, <4>4
      <4> QED  BY <4>5
    <3> QED  BY <3>1, <3>2
  <2> QED  BY <2>4, <2>7 DEF Repeated
<1>8. CASE ConnectionLost  BY <1>1, <1>8 DEF ConnectionLost
<1>9. CASE Reconnect
  <2>1. \A p, n : Returning(p, n) => Returning(p, n)'
    BY <1>9 DEF Reconnect, Returning
  <2> QED  BY <1>9, <2>1 DEF Reconnect, Repeated
<1>10. CASE UiNoticesSilence  BY <1>1, <1>10 DEF UiNoticesSilence
<1>11. ASSUME NEW p \in Pairs, MarketMoves(p) PROVE Repeated'
  BY <1>1, <1>11 DEF MarketMoves
<1>12. ASSUME NEW p \in Pairs, GraceEnds(p) PROVE Repeated'
  BY <1>1, <1>12 DEF GraceEnds
<1>13. ASSUME NEW p \in Pairs, EngineReplaces(p) \/ EngineReorders(p) \/ EngineLosesAck(p)
       PROVE  Repeated'
  BY <1>1, <1>13 DEF EngineReplaces, EngineReorders, EngineLosesAck
<1> QED
  BY <1>2, <1>3, <1>4, <1>5, <1>6, <1>7, <1>8, <1>9, <1>10, <1>11, <1>12, <1>13
     DEF Next, ReadsBook

\* No recovery leaves a pair unsubscribed, whatever is lost in between: every
\* unsubscribe is followed by a subscribe, and a reconnection replays what the
\* engine has recorded (tui_monitor.rs, resubscribe_pair; connection.rs).
THEOREM KeepsListening == Spec => []Listening
<1>1. Init => Typed /\ Repeated
  BY InitTyped, RepeatedInit
<1>2. Typed /\ Repeated /\ [Next]_vars => Typed' /\ Repeated'
  BY TypedKept, RepeatedKept
<1>3. Typed /\ Repeated => Listening
  <2> SUFFICES ASSUME Typed, Repeated, connected, loop = Reading, cmds = <<>>
               PROVE  active \subseteq subs
    BY DEF Listening
  <2>1. \A p : loop # At("subscribe", p)
    BY DEF Reading, At
  <2>2. \A p : ~Returning(p, 0)
    BY <2>1 DEF Returning
  <2> QED  BY <2>2 DEF Repeated
<1> QED  BY <1>1, <1>2, <1>3, PTL DEF Spec

-----------------------------------------------------------------------------
\* The status line.

\* A reported loss is remembered until the next book message, which computes the
\* status anew.
Shown == StatusTruthful /\ (status = "NetworkLost" => silenced)

LEMMA ShownKept ==
  ASSUME Typed, Shown, [Next]_vars
  PROVE  Shown'
<1> USE DEF server, engine, monitor, history, Shown, StatusTruthful
<1>1. ASSUME UNCHANGED <<status, books, silenced>> PROVE Shown'
  BY <1>1 DEF AnyRecovering
<1>2. CASE UNCHANGED vars  BY <1>1, <1>2 DEF vars
<1>3. ASSUME NEW p \in Pairs, ReadBook(p) PROVE Shown'
  <2>1. status' = CalculateStatus(books')
    BY <1>3 DEF ReadBook
  <2> QED  BY <2>1 DEF CalculateStatus, AnyRecovering
<1>4. CASE ReadOther
  <2>1. /\ status' = IF status = "NetworkLost" THEN "Healthy" ELSE status
        /\ books' = books /\ silenced' = silenced
    BY <1>4 DEF ReadOther
  <2> QED  BY <2>1 DEF AnyRecovering
<1>5. CASE SendUnsubscribe  BY <1>1, <1>5 DEF SendUnsubscribe
<1>6. CASE SendSubscribe  BY <1>1, <1>6 DEF SendSubscribe
<1>7. CASE EngineTakesCommand  BY <1>1, <1>7 DEF EngineTakesCommand
<1>8. CASE ConnectionLost  BY <1>1, <1>8 DEF ConnectionLost
<1>9. CASE Reconnect  BY <1>1, <1>9 DEF Reconnect
<1>10. CASE UiNoticesSilence  BY <1>10 DEF UiNoticesSilence
<1>11. ASSUME NEW p \in Pairs, MarketMoves(p) PROVE Shown'
  BY <1>1, <1>11 DEF MarketMoves
<1>12. ASSUME NEW p \in Pairs, GraceEnds(p) PROVE Shown'
  <2>1. books' = [books EXCEPT ![p].lastSnapshot = "old"] /\ status' = status /\ silenced' = silenced
    BY <1>12 DEF GraceEnds
  <2>2. \A q \in Pairs : books'[q].recovering = books[q].recovering
    BY <2>1 DEF Typed, BookStates
  <2> QED  BY <2>1, <2>2 DEF AnyRecovering
<1>13. ASSUME NEW p \in Pairs, EngineReplaces(p) \/ EngineReorders(p) \/ EngineLosesAck(p)
       PROVE  Shown'
  BY <1>1, <1>13 DEF EngineReplaces, EngineReorders, EngineLosesAck
<1> QED
  BY <1>2, <1>3, <1>4, <1>5, <1>6, <1>7, <1>8, <1>9, <1>10, <1>11, <1>12, <1>13
     DEF Next, ReadsBook

\* The status never claims a recovery that is over, and shows one as healthy only
\* if the network was reported lost since the last book message (tui_monitor.rs,
\* calculate_status, run_network_loop and run_ui_loop).
THEOREM StatusIsTruthful == Spec => []StatusTruthful
<1>1. Init => Typed /\ Shown
  <2> SUFFICES ASSUME Init PROVE Shown
    BY InitTyped
  <2>1. books = [p \in Pairs |-> NewBookState] /\ status = "Healthy"
    BY DEF Init
  <2>2. ~AnyRecovering(books)
    BY <2>1 DEF AnyRecovering, NewBookState
  <2> QED  BY <2>1, <2>2 DEF Shown, StatusTruthful
<1>2. Typed /\ Shown /\ [Next]_vars => Typed' /\ Shown'
  BY TypedKept, ShownKept
<1>3. Shown => StatusTruthful
  BY DEF Shown
<1> QED  BY <1>1, <1>2, <1>3, PTL DEF Spec

-----------------------------------------------------------------------------
\* A chain of messages.

\* What the three constants of the code have in common: ten levels.
DepthsAgree == DefaultMaxDepth = FeedDepth /\ ChecksumDepth = FeedDepth

\* The update n takes a book with the levels of t to the one its checksum is of.
Advances(t, n) ==
  /\ Truncate(Merge(t.bids, n.bids), FeedDepth, "bids") = n.checksum.bids
  /\ Truncate(Merge(t.asks, n.asks), FeedDepth, "asks") = n.checksum.asks

\* A book message stands for the book its checksum is of: a snapshot shows it, the
\* latest one of a subscription is of the server's present book, and the update
\* that follows, if it waits too, starts from it.
Stands(q, m) ==
  /\ Cardinality(DOMAIN m.checksum.bids) <= FeedDepth
  /\ Cardinality(DOMAIN m.checksum.asks) <= FeedDepth
  /\ m.type = "snapshot" => m.bids = m.checksum.bids /\ m.asks = m.checksum.asks
  /\ q \in subs /\ m.no = sent[q] => m.checksum = TopChecksum(market[q])
  /\ \A n \in Waiting(q) : n.type = "update" /\ n.no = m.no + 1 => Advances(m.checksum, n)

\* So does a book that has missed nothing and does not recover.
Follows(q) ==
  intact[q] # Broken /\ ~books[q].recovering =>
    /\ \A n \in Waiting(q) :
         n.type = "update" /\ n.no = intact[q] + 1 => Advances(books[q].book, n)
    /\ q \in subs /\ intact[q] = sent[q] => Checksum(books[q].book) = TopChecksum(market[q])

Chain(q) == Follows(q) /\ \A m \in Waiting(q) : IsBook(m) => Stands(q, m)

\* The subscription that stands began with the message numbered s: a snapshot,
\* behind which are updates and no answers.  A book that has it does not recover.
Since(q, s) ==
  /\ \A m \in Waiting(q) : IsBook(m) /\ m.no >= s => (m.type = "snapshot" <=> m.no = s)
  /\ \A i, j \in DOMAIN feed[q] :
       i < j /\ IsBook(feed[q][i]) /\ feed[q][i].no >= s => feed[q][j] # Ack
  /\ intact[q] >= s => ~books[q].recovering /\ Ack \notin Waiting(q)

Current(q) == q \in subs => \E s \in 1 .. sent[q] : Since(q, s)

-----------------------------------------------------------------------------
\* Checksums, when the depths agree.

LEMMA ChecksumIs ==
  ASSUME DepthsAgree, NEW b \in Books
  PROVE  Checksum(b) = [bids |-> b.bids, asks |-> b.asks]
<1>1. /\ IsSide(b.bids) /\ Cardinality(DOMAIN b.bids) <= ChecksumDepth
      /\ IsSide(b.asks) /\ Cardinality(DOMAIN b.asks) <= ChecksumDepth
  BY ChangesAre DEF Books, DepthsAgree
<1>2. Truncate(b.bids, ChecksumDepth, "bids") = b.bids /\ Truncate(b.asks, ChecksumDepth, "asks") = b.asks
  BY <1>1, Depths, TruncateShort
<1> QED  BY <1>2 DEF Checksum

\* The checksum the server sends is of its whole top.
LEMMA TopChecksumIs ==
  ASSUME DepthsAgree, NEW m \in Tops
  PROVE  /\ TopChecksum(m) = [bids |-> Top(m, "bids"), asks |-> Top(m, "asks")]
         /\ Cardinality(DOMAIN Top(m, "bids")) <= FeedDepth
         /\ Cardinality(DOMAIN Top(m, "asks")) <= FeedDepth
<1> DEFINE x == Top(m, "bids")  y == Top(m, "asks")
<1>1. /\ IsSide(x) /\ Cardinality(DOMAIN x) <= FeedDepth
      /\ IsSide(y) /\ Cardinality(DOMAIN y) <= FeedDepth
  BY TopTyped, ChangesAre DEF Sides
<1>2. TopChecksum(m) = [bids |-> Truncate(x, ChecksumDepth, "bids"), asks |-> Truncate(y, ChecksumDepth, "asks")]
  BY DEF TopChecksum, Checksum
<1> HIDE DEF x, y
<1>3. Truncate(x, ChecksumDepth, "bids") = x /\ Truncate(y, ChecksumDepth, "asks") = y
  BY <1>1, Depths, TruncateShort DEF DepthsAgree
<1> QED  BY <1>1, <1>2, <1>3 DEF x, y

\* A change the server does not mention is none of its top.
LEMMA SilentTop ==
  ASSUME NEW old \in Tops, NEW new \in Tops,
         DOMAIN Delta(old, new, "bids") = {}, DOMAIN Delta(old, new, "asks") = {}
  PROVE  TopChecksum(new) = TopChecksum(old)
<1>1. ASSUME NEW side \in Sides, DOMAIN Delta(old, new, side) = {}
      PROVE  Top(new, side) = Top(old, side)
  <2> DEFINE d == Delta(old, new, side)  a == Top(old, side)
  <2>1. IsChange(d) /\ Truncate(Merge(a, d), FeedDepth, side) = Top(new, side)
    BY TopTyped, Depths, DeltaFits
  <2>2. IsSide(a) /\ Cardinality(DOMAIN a) <= FeedDepth
    BY TopTyped, ChangesAre
  <2>3. DOMAIN d = {}
    BY <1>1
  <2> HIDE DEF d, a
  <2>4. d = NoLevels
    BY <2>1, <2>3, NoLevelsSide, SameLevels
  <2>5. Truncate(Merge(a, NoLevels), FeedDepth, side) = a
    BY <2>2, MergeNothing, TruncateShort, Depths
  <2> QED  BY <2>1, <2>4, <2>5 DEF a
<1>2. Top(new, "bids") = Top(old, "bids") /\ Top(new, "asks") = Top(old, "asks")
  BY <1>1 DEF Sides
<1> QED  BY <1>2 DEF TopChecksum

\* An update that the server publishes takes its old top to its new one.
LEMMA UpdateAdvances ==
  ASSUME DepthsAgree, NEW old \in Tops, NEW new \in Tops, NEW no, NEW t,
         t.bids = Top(old, "bids"), t.asks = Top(old, "asks")
  PROVE  Advances(t, Update(old, new, no))
<1>1. /\ Truncate(Merge(Top(old, "bids"), Delta(old, new, "bids")), FeedDepth, "bids") = Top(new, "bids")
      /\ Truncate(Merge(Top(old, "asks"), Delta(old, new, "asks")), FeedDepth, "asks") = Top(new, "asks")
  BY TopTyped, Depths, DeltaFits DEF Sides
<1>2. TopChecksum(new).bids = Top(new, "bids") /\ TopChecksum(new).asks = Top(new, "asks")
  BY TopChecksumIs
<1> DEFINE n == Update(old, new, no)
<1>3. /\ n.bids = Delta(old, new, "bids") /\ n.asks = Delta(old, new, "asks")
      /\ n.checksum = TopChecksum(new)
  BY DEF Update
<1> HIDE DEF n
<1>4. Advances(t, n)
  BY <1>1, <1>2, <1>3 DEF Advances
<1> QED  BY <1>4 DEF n

-----------------------------------------------------------------------------
\* What a message does to a book that has missed nothing.

\* A snapshot leaves the book it shows.
LEMMA HandledSnapshot ==
  ASSUME DepthsAgree, NEW bs \in BookStates, NEW m \in BookMessages, m.type = "snapshot",
         Cardinality(DOMAIN m.bids) <= FeedDepth, Cardinality(DOMAIN m.asks) <= FeedDepth
  PROVE  LET hs == Handled(bs, m) IN
         /\ ~hs.recovering /\ hs.failures = 0
         /\ hs.book.bids = m.bids /\ hs.book.asks = m.asks
<1>1. m.bids \in Levels /\ m.asks \in Levels /\ bs.book \in Books
  BY DEF BookMessages, BookStates
<1>2. ApplySnapshot(bs.book, m.bids, m.asks).bids = m.bids /\ ApplySnapshot(bs.book, m.bids, m.asks).asks = m.asks
  BY <1>1, ApplySnapshotKeeps DEF DepthsAgree
<1> QED  BY <1>2 DEF Handled, AfterSnapshot

\* An answer changes no levels, unless it is the last failure.
LEMMA HandledAck ==
  ASSUME NEW bs \in BookStates
  PROVE  LET hs == Handled(bs, Ack) IN
         \/ hs.recovering
         \/ ~bs.recovering /\ hs.book.bids = bs.book.bids /\ hs.book.asks = bs.book.asks
<1> DEFINE b == ApplyDelta(bs.book, Ack.bids, Ack.asks)
<1>1. /\ bs.book \in Books /\ IsSide(bs.book.bids) /\ IsSide(bs.book.asks)
      /\ Cardinality(DOMAIN bs.book.bids) <= DefaultMaxDepth
      /\ Cardinality(DOMAIN bs.book.asks) <= DefaultMaxDepth
  BY ChangesAre DEF BookStates, Books
<1>2. Ack.bids = NoLevels /\ Ack.asks = NoLevels /\ NoLevels \in Changes
  BY NoLevelsSide, ChangesAre DEF Ack
<1>3. /\ b.bids = Truncate(Merge(bs.book.bids, NoLevels), DefaultMaxDepth, "bids")
      /\ b.asks = Truncate(Merge(bs.book.asks, NoLevels), DefaultMaxDepth, "asks")
  BY <1>1, <1>2, ApplyDeltaKeeps
<1>4. b.bids = bs.book.bids /\ b.asks = bs.book.asks
  BY <1>1, <1>3, MergeNothing, TruncateShort, Depths
<1> HIDE DEF b
<1>5. Handled(bs, Ack) = AfterUpdate(bs, Ack)
  BY AckTyped DEF Handled
<1>6. \/ Handled(bs, Ack).recovering
      \/ Handled(bs, Ack).recovering = bs.recovering /\ Handled(bs, Ack).book = b
  BY <1>5 DEF AfterUpdate, b, BookStates
<1> QED  BY <1>4, <1>6 DEF BookStates

\* An update that fits leaves the book its checksum is of, and is no failure.
LEMMA HandledUpdate ==
  ASSUME DepthsAgree, NEW bs \in BookStates, NEW m \in BookMessages, m.type = "update",
         ~bs.recovering => Advances(bs.book, m)
  PROVE  LET hs == Handled(bs, m) IN
         /\ hs.recovering = bs.recovering /\ hs.failures \in {0, bs.failures}
         /\ ~hs.recovering => hs.book.bids = m.checksum.bids /\ hs.book.asks = m.checksum.asks
<1> DEFINE b == ApplyDelta(bs.book, m.bids, m.asks)
<1>1. bs.book \in Books /\ m.bids \in Changes /\ m.asks \in Changes /\ m.checksum \in Tops
  BY DEF BookStates, BookMessages
<1>2. /\ b \in Books
      /\ b.bids = Truncate(Merge(bs.book.bids, m.bids), DefaultMaxDepth, "bids")
      /\ b.asks = Truncate(Merge(bs.book.asks, m.asks), DefaultMaxDepth, "asks")
  BY <1>1, ApplyDeltaKeeps
<1>3. Handled(bs, m) = AfterUpdate(bs, m)
  BY DEF Handled
<1>4. CASE bs.recovering
  <2>1. Handled(bs, m) = [bs EXCEPT !.book = b]
    BY <1>3, <1>4 DEF AfterUpdate
  <2> HIDE DEF b
  <2> QED  BY <1>4, <2>1 DEF BookStates
<1>5. CASE ~bs.recovering
  <2>1. b.bids = m.checksum.bids /\ b.asks = m.checksum.asks
    BY <1>2, <1>5 DEF Advances, DepthsAgree
  <2>2. ValidateChecksum(b, m.checksum)
    <3>1. Checksum(b) = [bids |-> b.bids, asks |-> b.asks]
      BY <1>2, ChecksumIs
    <3>2. m.checksum = [bids |-> m.checksum.bids, asks |-> m.checksum.asks]
      BY <1>1 DEF Tops
    <3> QED  BY <2>1, <3>1, <3>2 DEF ValidateChecksum
  <2>3. \/ Handled(bs, m) = [bs EXCEPT !.book = b]
        \/ Handled(bs, m) = [bs EXCEPT !.book = b, !.failures = 0]
    BY <1>3, <1>5, <2>2 DEF AfterUpdate
  <2> HIDE DEF b
  <2>4. CASE Handled(bs, m) = [bs EXCEPT !.book = b]
    BY <1>5, <2>1, <2>4 DEF BookStates
  <2>5. CASE Handled(bs, m) = [bs EXCEPT !.book = b, !.failures = 0]
    BY <1>5, <2>1, <2>5 DEF BookStates
  <2> QED  BY <2>3, <2>4, <2>5
<1> QED  BY <1>4, <1>5

-----------------------------------------------------------------------------
\* The chain is kept, one kind of step at a time.

\* What the types say of one pair.
LEMMA PairTypes ==
  ASSUME Sound, NEW q \in Pairs
  PROVE  /\ market[q] \in Tops /\ sent[q] \in Nat /\ feed[q] \in Seq(Messages)
         /\ books[q] \in BookStates /\ intact[q] \in {Broken} \cup 1 .. sent[q]
         /\ \A m \in Waiting(q) : m \in Messages
         /\ \A m \in Waiting(q) : IsBook(m) => m \in BookMessages /\ m.no \in 1 .. sent[q]
<1>1. /\ market[q] \in Tops /\ sent[q] \in Nat /\ feed[q] \in Seq(Messages)
      /\ books[q] \in BookStates /\ intact[q] \in {Broken} \cup 1 .. sent[q]
  BY DEF Sound, Typed, Numbered
<1>2. \A m \in Waiting(q) : m \in Messages
  BY <1>1 DEF Waiting
<1>3. \A m \in Waiting(q) : IsBook(m) => m \in BookMessages /\ m.no \in 1 .. sent[q]
  BY <1>2, MessageKinds DEF Sound, Numbered
<1> QED  BY <1>1, <1>2, <1>3

LEMMA QuietChain ==
  ASSUME Sound, NEW q \in Pairs, Chain(q), Quiet(q)
  PROVE  Chain(q)'
<1>1. /\ market'[q] = market[q] /\ sent'[q] = sent[q] /\ (q \in subs' => q \in subs)
      /\ Waiting(q)' \subseteq Waiting(q) /\ SameBook(q)
  BY ThinsWaiting DEF Quiet
<1>2. ASSUME NEW m \in Waiting(q)', IsBook(m) PROVE Stands(q, m)'
  <2>1. Stands(q, m)
    BY <1>1, <1>2 DEF Chain
  <2> QED  BY <1>1, <2>1 DEF Stands
<1>3. Follows(q)'
  BY <1>1 DEF Chain, Follows, SameBook
<1> QED  BY <1>2, <1>3 DEF Chain

LEMMA MovedChain ==
  ASSUME Sound, NEW q \in Pairs, market'[q] \in Tops, Chain(q), Moved(q)
  PROVE  Chain(q)'
<1>1. /\ q \in subs => TopChecksum(market'[q]) = TopChecksum(market[q])
      /\ subs' = subs /\ sent'[q] = sent[q] /\ Waiting(q)' = Waiting(q) /\ SameBook(q)
  BY PairTypes, SilentTop DEF Moved, Waiting
<1>2. ASSUME NEW m \in Waiting(q), IsBook(m) PROVE Stands(q, m)'
  <2>1. Stands(q, m)
    BY <1>2 DEF Chain
  <2> QED  BY <1>1, <2>1 DEF Stands
<1>3. Follows(q)'
  BY <1>1 DEF Chain, Follows, SameBook
<1> QED  BY <1>1, <1>2, <1>3 DEF Chain

LEMMA PublishedChain ==
  ASSUME DepthsAgree, Sound, NEW q \in Pairs, market'[q] \in Tops, Chain(q), Published(q)
  PROVE  Chain(q)'
<1> DEFINE top == [bids |-> Top(market[q], "bids"), asks |-> Top(market[q], "asks")]
<1>1. PICK n : n = Update(market[q], market'[q], sent[q] + 1)
  OBVIOUS
<1>2. /\ n.type = "update" /\ n.no = sent[q] + 1 /\ n.checksum = TopChecksum(market'[q])
      /\ Cardinality(DOMAIN n.checksum.bids) <= FeedDepth
      /\ Cardinality(DOMAIN n.checksum.asks) <= FeedDepth
  <2>1. n.type = "update" /\ n.no = sent[q] + 1 /\ n.checksum = TopChecksum(market'[q])
    BY <1>1, PairTypes, UpdateTyped
  <2> QED  BY <2>1, TopChecksumIs
<1>3. /\ Waiting(q)' = Waiting(q) \cup {n} /\ q \in subs /\ subs' = subs
      /\ sent'[q] = sent[q] + 1 /\ SameBook(q)
  BY <1>1, LaterWaiting DEF Published, Sound
<1>4. \A t : t.bids = Top(market[q], "bids") /\ t.asks = Top(market[q], "asks") => Advances(t, n)
  BY <1>1, PairTypes, UpdateAdvances
<1>5. TopChecksum(market[q]) = top
  BY PairTypes, TopChecksumIs
<1>6. sent[q] \in Nat /\ intact[q] \in {Broken} \cup 1 .. sent[q]
  BY PairTypes
<1>7. \A m \in Waiting(q) : IsBook(m) => m.no \in 1 .. sent[q] /\ Stands(q, m)
  BY PairTypes DEF Chain
<1>8. ASSUME NEW m \in Waiting(q), IsBook(m) PROVE Stands(q, m)'
  <2>1. m.no \in 1 .. sent[q] /\ Stands(q, m)
    BY <1>7, <1>8
  <2>2. m.no = sent[q] => Advances(m.checksum, n)
    BY <1>3, <1>4, <1>5, <2>1 DEF Stands
  <2>3. \A k \in Waiting(q)' : k.type = "update" /\ k.no = m.no + 1 => Advances(m.checksum, k)
    BY <1>2, <1>3, <1>6, <2>1, <2>2 DEF Stands
  <2>4. m.no # sent'[q]
    BY <1>3, <1>6, <2>1
  <2> QED  BY <2>1, <2>3, <2>4 DEF Stands
<1>9. Stands(q, n)'
  <2>1. \A k \in Waiting(q)' : ~(k.type = "update" /\ k.no = n.no + 1)
    BY <1>2, <1>3, <1>6, <1>7 DEF IsBook
  <2> QED  BY <1>2, <2>1 DEF Stands
<1>10. Follows(q)'
  <2> SUFFICES ASSUME intact[q] # Broken, ~books[q].recovering
               PROVE  /\ \A k \in Waiting(q)' :
                           k.type = "update" /\ k.no = intact[q] + 1 => Advances(books'[q].book, k)
                      /\ intact[q] # sent'[q]
    BY <1>3 DEF Follows, SameBook
  <2>1. intact[q] \in 1 .. sent[q] /\ books'[q].book = books[q].book
    BY <1>3, <1>6 DEF SameBook
  <2>2. intact[q] = sent[q] => Advances(books[q].book, n)
    <3> SUFFICES ASSUME intact[q] = sent[q] PROVE Advances(books[q].book, n)
      OBVIOUS
    <3>1. Checksum(books[q].book) = top
      BY <1>3, <1>5 DEF Chain, Follows
    <3>2. Checksum(books[q].book) = [bids |-> books[q].book.bids, asks |-> books[q].book.asks]
      BY PairTypes, ChecksumIs DEF BookStates
    <3> QED  BY <1>4, <3>1, <3>2
  <2>3. \A k \in Waiting(q) : k.type = "update" /\ k.no = intact[q] + 1 => Advances(books[q].book, k)
    BY DEF Chain, Follows
  <2> QED  BY <1>2, <1>3, <1>6, <2>1, <2>2, <2>3
<1> QED  BY <1>3, <1>8, <1>9, <1>10 DEF Chain

LEMMA JoinedChain ==
  ASSUME DepthsAgree, Sound, NEW q \in Pairs, Chain(q), Joined(q)
  PROVE  Chain(q)'
<1>1. PICK n : n = Snapshot(market[q], sent[q] + 1)
  OBVIOUS
<1>2. /\ n.type = "snapshot" /\ n.no = sent[q] + 1 /\ n.checksum = TopChecksum(market[q])
      /\ Cardinality(DOMAIN n.checksum.bids) <= FeedDepth
      /\ Cardinality(DOMAIN n.checksum.asks) <= FeedDepth
      /\ n.bids = n.checksum.bids /\ n.asks = n.checksum.asks
  <2>1. /\ n.type = "snapshot" /\ n.no = sent[q] + 1 /\ n.checksum = TopChecksum(market[q])
        /\ n.bids = Top(market[q], "bids") /\ n.asks = Top(market[q], "asks")
    BY <1>1, PairTypes, SnapshotTyped
  <2>2. /\ n.checksum.bids = Top(market[q], "bids") /\ n.checksum.asks = Top(market[q], "asks")
        /\ Cardinality(DOMAIN Top(market[q], "bids")) <= FeedDepth
        /\ Cardinality(DOMAIN Top(market[q], "asks")) <= FeedDepth
    BY <2>1, PairTypes, TopChecksumIs
  <2> QED  BY <2>1, <2>2
<1>3. /\ Waiting(q)' = Waiting(q) \cup {Ack, n} /\ market'[q] = market[q]
      /\ sent'[q] = sent[q] + 1 /\ SameBook(q)
  BY <1>1, LaterWaiting DEF Joined, Sound
<1>4. Ack.type # "update" /\ ~IsBook(Ack)
  BY AckTyped DEF IsBook
<1>5. sent[q] \in Nat /\ intact[q] \in {Broken} \cup 1 .. sent[q]
  BY PairTypes
<1>6. \A m \in Waiting(q) : IsBook(m) => m.no \in 1 .. sent[q] /\ Stands(q, m)
  BY PairTypes DEF Chain
<1>7. ASSUME NEW m \in Waiting(q), IsBook(m) PROVE Stands(q, m)'
  <2>1. m.no \in 1 .. sent[q] /\ Stands(q, m)
    BY <1>6, <1>7
  <2>2. \A k \in Waiting(q)' : k.type = "update" /\ k.no = m.no + 1 => Advances(m.checksum, k)
    BY <1>2, <1>3, <1>4, <2>1 DEF Stands
  <2>3. m.no # sent'[q]
    BY <1>3, <1>5, <2>1
  <2> QED  BY <2>1, <2>2, <2>3 DEF Stands
<1>8. Stands(q, n)'
  <2>1. \A k \in Waiting(q)' : ~(k.type = "update" /\ k.no = n.no + 1)
    BY <1>2, <1>3, <1>4, <1>5, <1>6 DEF IsBook
  <2> QED  BY <1>2, <1>3, <2>1 DEF Stands
<1>9. Follows(q)'
  <2>1. intact[q] # Broken => intact[q] # sent'[q]
    BY <1>3, <1>5
  <2> QED  BY <1>2, <1>3, <1>4, <2>1 DEF Chain, Follows, SameBook
<1> QED  BY <1>3, <1>4, <1>7, <1>8, <1>9 DEF Chain

LEMMA LeftChain ==
  ASSUME Sound, NEW q \in Pairs, Chain(q), Left(q)
  PROVE  Chain(q)'
<1>1. /\ Waiting(q)' = Waiting(q) \cup {Ack} /\ sent'[q] = sent[q]
      /\ q \notin subs' /\ SameBook(q) /\ Ack.type # "update" /\ ~IsBook(Ack)
  BY LaterWaiting, AckTyped DEF Left, Sound, IsBook
<1>2. ASSUME NEW m \in Waiting(q), IsBook(m) PROVE Stands(q, m)'
  <2>1. Stands(q, m)
    BY <1>2 DEF Chain
  <2> QED  BY <1>1, <2>1 DEF Stands
<1>3. Follows(q)'
  BY <1>1 DEF Chain, Follows, SameBook
<1> QED  BY <1>1, <1>2, <1>3 DEF Chain

LEMMA HeardChain ==
  ASSUME DepthsAgree, Sound, NEW q \in Pairs, books'[q] \in BookStates, Chain(q), Heard(q)
  PROVE  Chain(q)'
<1>1. PICK m : m = Head(feed[q])
  OBVIOUS
<1>2. /\ m \in Waiting(q) /\ m \in Messages /\ Waiting(q)' \subseteq Waiting(q)
      /\ market'[q] = market[q] /\ sent'[q] = sent[q] /\ subs' = subs
      /\ books'[q] = Handled(books[q], m) /\ books[q] \in BookStates
      /\ intact'[q] = CASE m.type = "snapshot"  -> m.no
                        [] m.type = "update"    -> IF intact[q] # Broken /\ m.no = intact[q] + 1
                                                     THEN m.no ELSE Broken
                        [] OTHER                -> intact[q]
  BY <1>1, HeardWaiting, PairTypes DEF Heard, Sound
<1>3. ASSUME NEW k \in Waiting(q)', IsBook(k) PROVE Stands(q, k)'
  <2>1. Stands(q, k)
    BY <1>2, <1>3 DEF Chain
  <2> QED  BY <1>2, <2>1 DEF Stands
<1>4. ASSUME IsBook(m), intact'[q] = m.no,
             books'[q].book.bids = m.checksum.bids, books'[q].book.asks = m.checksum.asks
      PROVE  Follows(q)'
  <2>1. Stands(q, m) /\ m.checksum \in Tops
    BY <1>2, <1>4, PairTypes DEF Chain, BookMessages
  <2>2. \A k \in Waiting(q)' : k.type = "update" /\ k.no = intact'[q] + 1 => Advances(books'[q].book, k)
    BY <1>2, <1>4, <2>1 DEF Stands, Advances
  <2>3. Checksum(books'[q].book) = m.checksum
    <3>1. books'[q].book \in Books
      BY DEF BookStates
    <3>2. Checksum(books'[q].book) = [bids |-> books'[q].book.bids, asks |-> books'[q].book.asks]
      BY <3>1, ChecksumIs
    <3>3. m.checksum = [bids |-> m.checksum.bids, asks |-> m.checksum.asks]
      BY <2>1 DEF Tops
    <3> QED  BY <1>4, <3>2, <3>3
  <2>4. q \in subs' /\ intact'[q] = sent'[q] => Checksum(books'[q].book) = TopChecksum(market'[q])
    BY <1>2, <1>4, <2>1, <2>3 DEF Stands
  <2> QED  BY <2>2, <2>4 DEF Follows
<1>5. Follows(q)'
  <2>1. CASE m.type = "snapshot"
    <3>1. IsBook(m) /\ m \in BookMessages /\ Stands(q, m) /\ intact'[q] = m.no
      BY <1>2, <2>1, PairTypes DEF IsBook, Chain
    <3>2. m.bids = m.checksum.bids /\ m.asks = m.checksum.asks
          /\ Cardinality(DOMAIN m.bids) <= FeedDepth /\ Cardinality(DOMAIN m.asks) <= FeedDepth
      BY <2>1, <3>1 DEF Stands
    <3>3. books'[q].book.bids = m.bids /\ books'[q].book.asks = m.asks
      BY <1>2, <2>1, <3>1, <3>2, HandledSnapshot
    <3> QED  BY <1>4, <3>1, <3>2, <3>3
  <2>2. CASE m.type = "update"
    <3>1. IsBook(m) /\ m \in BookMessages
      BY <1>2, <2>2, PairTypes DEF IsBook
    <3>2. SUFFICES ASSUME intact'[q] # Broken, ~books'[q].recovering PROVE Follows(q)'
      BY DEF Follows
    <3>3. intact[q] # Broken /\ m.no = intact[q] + 1 /\ intact'[q] = m.no
      BY <1>2, <2>2, <3>2
    <3>4. ~books[q].recovering => Advances(books[q].book, m)
      BY <1>2, <2>2, <3>3 DEF Chain, Follows
    <3>5. books'[q].book.bids = m.checksum.bids /\ books'[q].book.asks = m.checksum.asks
      BY <1>2, <2>2, <3>1, <3>2, <3>4, HandledUpdate
    <3> QED  BY <1>4, <3>1, <3>3, <3>5
  <2>3. CASE ~IsBook(m)
    <3>1. m = Ack /\ intact'[q] = intact[q]
      BY <1>2, <2>3, MessageKinds DEF IsBook
    <3>2. SUFFICES ASSUME intact[q] # Broken, ~books'[q].recovering PROVE Follows(q)'
      BY <3>1 DEF Follows
    <3>3. /\ ~books[q].recovering
          /\ books'[q].book.bids = books[q].book.bids /\ books'[q].book.asks = books[q].book.asks
      BY <1>2, <3>1, <3>2, HandledAck
    <3>4. Checksum(books'[q].book) = Checksum(books[q].book)
      BY <3>3 DEF Checksum
    <3>5. \A k : Advances(books'[q].book, k) <=> Advances(books[q].book, k)
      BY <3>3 DEF Advances
    <3> QED  BY <1>2, <3>1, <3>2, <3>3, <3>4, <3>5 DEF Chain, Follows
  <2> QED  BY <2>1, <2>2, <2>3 DEF IsBook
<1> QED  BY <1>3, <1>5 DEF Chain

-----------------------------------------------------------------------------
\* The latest subscription is kept.

LEMMA QuietCurrent ==
  ASSUME Sound, NEW q \in Pairs, Current(q), Quiet(q)
  PROVE  Current(q)'
<1>1. /\ sent'[q] = sent[q] /\ (q \in subs' => q \in subs)
      /\ Waiting(q)' \subseteq Waiting(q) /\ Thins(feed'[q], feed[q]) /\ SameBook(q)
  BY ThinsWaiting DEF Quiet
<1>2. ASSUME NEW s \in 1 .. sent[q], Since(q, s) PROVE Since(q, s)'
  <2>1. ASSUME NEW i \in DOMAIN feed'[q], NEW j \in DOMAIN feed'[q],
               i < j, IsBook(feed'[q][i]), feed'[q][i].no >= s, feed'[q][j] = Ack
        PROVE  FALSE
    <3>1. feed'[q][i] # Ack
      BY <2>1, AckTyped
    <3>2. \E k, l \in DOMAIN feed[q] : k < l /\ feed[q][k] = feed'[q][i] /\ feed[q][l] = Ack
      BY <1>1, <2>1, <3>1 DEF Thins
    <3> QED  BY <1>2, <2>1, <3>2 DEF Since
  <2>2. \A m \in Waiting(q)' : IsBook(m) /\ m.no >= s => (m.type = "snapshot" <=> m.no = s)
    BY <1>1, <1>2 DEF Since
  <2>3. intact'[q] >= s => ~books'[q].recovering /\ Ack \notin Waiting(q)'
    BY <1>1, <1>2 DEF Since, SameBook
  <2> QED  BY <2>1, <2>2, <2>3 DEF Since
<1> QED  BY <1>1, <1>2 DEF Current

LEMMA MovedCurrent ==
  ASSUME NEW q \in Pairs, Current(q), Moved(q)
  PROVE  Current(q)'
<1>1. sent'[q] = sent[q] /\ subs' = subs /\ feed'[q] = feed[q] /\ Waiting(q)' = Waiting(q) /\ SameBook(q)
  BY DEF Moved, Waiting
<1> QED  BY <1>1 DEF Current, Since, SameBook

LEMMA PublishedCurrent ==
  ASSUME Sound, NEW q \in Pairs, market'[q] \in Tops, Current(q), Published(q)
  PROVE  Current(q)'
<1>1. PICK n : n = Update(market[q], market'[q], sent[q] + 1)
  OBVIOUS
<1>2. n.type = "update" /\ n.no = sent[q] + 1 /\ n # Ack
  BY <1>1, PairTypes, UpdateTyped, AckTyped
<1>3. /\ Waiting(q)' = Waiting(q) \cup {n} /\ q \in subs /\ sent'[q] = sent[q] + 1
      /\ feed'[q] = Append(feed[q], n) /\ SameBook(q)
  BY <1>1, LaterWaiting DEF Published, Sound
<1>4. sent[q] \in Nat /\ feed[q] \in Seq(Messages)
  BY PairTypes
<1>5. PICK s \in 1 .. sent[q] : Since(q, s)
  BY <1>3 DEF Current
<1>6. /\ DOMAIN feed'[q] = 1 .. Len(feed[q]) + 1 /\ feed'[q][Len(feed[q]) + 1] = n
      /\ \A i \in 1 .. Len(feed[q]) : feed'[q][i] = feed[q][i]
      /\ DOMAIN feed[q] = 1 .. Len(feed[q]) /\ Len(feed[q]) \in Nat
  BY <1>3, <1>4
<1>7. ASSUME NEW i \in DOMAIN feed'[q], NEW j \in DOMAIN feed'[q],
             i < j, IsBook(feed'[q][i]), feed'[q][i].no >= s, feed'[q][j] = Ack
      PROVE  FALSE
  <2>1. j \in DOMAIN feed[q] /\ i \in DOMAIN feed[q]
    BY <1>2, <1>6, <1>7
  <2> QED  BY <1>5, <1>6, <1>7, <2>1 DEF Since
<1>8. \A m \in Waiting(q)' : IsBook(m) /\ m.no >= s => (m.type = "snapshot" <=> m.no = s)
  BY <1>2, <1>3, <1>4, <1>5 DEF Since
<1>9. intact'[q] >= s => ~books'[q].recovering /\ Ack \notin Waiting(q)'
  BY <1>2, <1>3, <1>5 DEF Since, SameBook
<1>10. Since(q, s)' /\ s \in 1 .. sent'[q]
  BY <1>3, <1>4, <1>7, <1>8, <1>9 DEF Since
<1> QED  BY <1>10 DEF Current

LEMMA JoinedCurrent ==
  ASSUME Sound, NEW q \in Pairs, Joined(q)
  PROVE  Current(q)'
<1>1. PICK n : n = Snapshot(market[q], sent[q] + 1)
  OBVIOUS
<1>2. n.type = "snapshot" /\ n.no = sent[q] + 1 /\ n # Ack /\ ~IsBook(Ack)
  BY <1>1, PairTypes, SnapshotTyped, AckTyped
<1>3. /\ Waiting(q)' = Waiting(q) \cup {Ack, n} /\ sent'[q] = sent[q] + 1
      /\ feed'[q] = feed[q] \o <<Ack, n>> /\ SameBook(q)
  BY <1>1, LaterWaiting DEF Joined, Sound
<1>4. sent[q] \in Nat /\ feed[q] \in Seq(Messages) /\ intact[q] \in {Broken} \cup 1 .. sent[q]
  BY PairTypes
<1>5. PICK s \in Nat : s = sent[q] + 1
  BY <1>4
<1>6. /\ DOMAIN feed'[q] = 1 .. Len(feed[q]) + 2 /\ feed'[q][Len(feed[q]) + 1] = Ack
      /\ \A i \in 1 .. Len(feed[q]) : feed'[q][i] = feed[q][i]
      /\ DOMAIN feed[q] = 1 .. Len(feed[q]) /\ Len(feed[q]) \in Nat
  BY <1>3, <1>4
<1>7. \A m \in Waiting(q) : IsBook(m) => ~(m.no >= s)
  BY <1>4, <1>5, PairTypes
<1>8. ASSUME NEW i \in DOMAIN feed'[q], NEW j \in DOMAIN feed'[q],
             i < j, IsBook(feed'[q][i]), feed'[q][i].no >= s, feed'[q][j] = Ack
      PROVE  FALSE
  <2>1. CASE i \in DOMAIN feed[q]
    BY <1>6, <1>7, <1>8, <2>1 DEF Waiting
  <2>2. CASE i = Len(feed[q]) + 1
    BY <1>2, <1>6, <1>8, <2>2
  <2>3. CASE i = Len(feed[q]) + 2
    BY <1>6, <1>8, <2>3
  <2> QED  BY <1>6, <2>1, <2>2, <2>3
<1>9. \A m \in Waiting(q)' : IsBook(m) /\ m.no >= s => (m.type = "snapshot" <=> m.no = s)
  BY <1>2, <1>3, <1>5, <1>7
<1>10. ~(intact'[q] >= s)
  BY <1>3, <1>4, <1>5 DEF SameBook, Broken
<1>11. Since(q, s)'
  BY <1>8, <1>9, <1>10 DEF Since
<1>12. s \in 1 .. sent'[q]
  BY <1>3, <1>4, <1>5
<1> QED  BY <1>11, <1>12 DEF Current

LEMMA HeardCurrent ==
  ASSUME DepthsAgree, Sound, NEW q \in Pairs, Chain(q), Current(q), Heard(q)
  PROVE  Current(q)'
<1>1. PICK m : m = Head(feed[q])
  OBVIOUS
<1>2. /\ m \in Waiting(q) /\ m \in Messages /\ Waiting(q)' \subseteq Waiting(q)
      /\ Thins(feed'[q], feed[q]) /\ sent'[q] = sent[q] /\ subs' = subs
      /\ books'[q] = Handled(books[q], m) /\ books[q] \in BookStates
      /\ intact'[q] = CASE m.type = "snapshot"  -> m.no
                        [] m.type = "update"    -> IF intact[q] # Broken /\ m.no = intact[q] + 1
                                                     THEN m.no ELSE Broken
                        [] OTHER                -> intact[q]
  BY <1>1, HeardWaiting, PairTypes DEF Heard, Sound
<1>3. sent[q] \in Nat /\ intact[q] \in {Broken} \cup 1 .. sent[q]
  BY PairTypes
<1>4. ASSUME NEW s \in 1 .. sent[q], Since(q, s) PROVE Since(q, s)'
  <2>1. ASSUME NEW i \in DOMAIN feed'[q], NEW j \in DOMAIN feed'[q],
               i < j, IsBook(feed'[q][i]), feed'[q][i].no >= s, feed'[q][j] = Ack
        PROVE  FALSE
    <3>1. feed'[q][i] # Ack
      BY <2>1, AckTyped
    <3>2. \E k, l \in DOMAIN feed[q] : k < l /\ feed[q][k] = feed'[q][i] /\ feed[q][l] = Ack
      BY <1>2, <2>1, <3>1 DEF Thins
    <3> QED  BY <1>4, <2>1, <3>2 DEF Since
  <2>2. \A k \in Waiting(q)' : IsBook(k) /\ k.no >= s => (k.type = "snapshot" <=> k.no = s)
    BY <1>2, <1>4 DEF Since
  <2>3. ASSUME intact'[q] >= s PROVE ~books'[q].recovering /\ Ack \notin Waiting(q)'
    <3>1. CASE m.type = "snapshot"
      <4>1. IsBook(m) /\ m \in BookMessages /\ Stands(q, m) /\ m.no >= s
        BY <1>2, <2>3, <3>1, PairTypes DEF IsBook, Chain
      <4>2. /\ m.bids = m.checksum.bids /\ m.asks = m.checksum.asks
            /\ Cardinality(DOMAIN m.bids) <= FeedDepth /\ Cardinality(DOMAIN m.asks) <= FeedDepth
        BY <3>1, <4>1 DEF Stands
      <4>3. ~books'[q].recovering
        BY <1>2, <3>1, <4>1, <4>2, HandledSnapshot
      <4>4. ASSUME NEW i \in DOMAIN feed'[q], feed'[q][i] = Ack PROVE FALSE
        <5>1. /\ feed[q] \in Seq(Messages) /\ feed[q] # <<>> /\ feed'[q] = Tail(feed[q])
          BY PairTypes DEF Heard
        <5>2. /\ i + 1 \in DOMAIN feed[q] /\ 1 \in DOMAIN feed[q] /\ 1 < i + 1
              /\ feed[q][i + 1] = Ack /\ feed[q][1] = m
          BY <1>1, <4>4, <5>1
        <5> QED  BY <1>4, <4>1, <5>2 DEF Since
      <4> QED  BY <4>3, <4>4 DEF Waiting
    <3>2. CASE m.type = "update"
      <4>1. IsBook(m) /\ m \in BookMessages
        BY <1>2, <3>2, PairTypes DEF IsBook
      <4>2. intact[q] # Broken /\ m.no = intact[q] + 1 /\ intact'[q] = m.no
        BY <1>2, <1>3, <2>3, <3>2 DEF Broken
      <4>3. m.no # s
        BY <1>2, <1>4, <2>3, <3>2, <4>1, <4>2 DEF Since
      <4>4. intact[q] >= s
        BY <1>3, <2>3, <4>2, <4>3
      <4>5. ~books[q].recovering /\ Ack \notin Waiting(q)
        BY <1>4, <4>4 DEF Since
      <4>6. Advances(books[q].book, m)
        BY <1>2, <3>2, <4>2, <4>5 DEF Chain, Follows
      <4>7. ~books'[q].recovering
        BY <1>2, <3>2, <4>1, <4>5, <4>6, HandledUpdate
      <4> QED  BY <1>2, <4>5, <4>7
    <3>3. CASE ~IsBook(m)
      <4>1. m = Ack /\ intact'[q] = intact[q]
        BY <1>2, <3>3, MessageKinds DEF IsBook
      <4> QED  BY <1>2, <1>4, <2>3, <4>1 DEF Since
    <3> QED  BY <3>1, <3>2, <3>3 DEF IsBook
  <2> QED  BY <2>1, <2>2, <2>3 DEF Since
<1> QED  BY <1>2, <1>4 DEF Current

-----------------------------------------------------------------------------
\* Books that have missed nothing.

Faithful == Sound /\ \A q \in Pairs : Chain(q) /\ Current(q)

LEMMA FaithfulInit == ASSUME Init PROVE Faithful
<1>1. Sound
  BY InitTyped, NumberedInit DEF Sound
<1>2. \A q \in Pairs : Waiting(q) = {} /\ intact[q] = Broken /\ q \notin subs
  BY DEF Init, Waiting
<1> QED  BY <1>1, <1>2 DEF Faithful, Chain, Follows, Current

LEMMA FaithfulKept == ASSUME DepthsAgree, Faithful, [Next]_vars PROVE Faithful'
<1>1. Sound /\ Sound'
  BY TypedKept, NumberedKept DEF Faithful, Sound
<1>2. ASSUME NEW q \in Pairs PROVE Chain(q)' /\ Current(q)'
  <2>1. Chain(q) /\ Current(q) /\ market'[q] \in Tops /\ books'[q] \in BookStates
    BY <1>1 DEF Faithful, Sound, Typed
  <2>2. CASE Quiet(q)  BY <1>1, <2>1, <2>2, QuietChain, QuietCurrent
  <2>3. CASE Moved(q)  BY <1>1, <2>1, <2>3, MovedChain, MovedCurrent
  <2>4. CASE Published(q)  BY <1>1, <2>1, <2>4, PublishedChain, PublishedCurrent
  <2>5. CASE Joined(q)  BY <1>1, <2>1, <2>5, JoinedChain, JoinedCurrent
  <2>6. CASE Left(q)
    <3>1. Current(q)'
      BY <2>6 DEF Left, Current
    <3> QED  BY <1>1, <2>1, <2>6, <3>1, LeftChain
  <2>7. CASE Heard(q)  BY <1>1, <2>1, <2>7, HeardChain, HeardCurrent
  <2> QED  BY <1>1, <2>2, <2>3, <2>4, <2>5, <2>6, <2>7, PairStep DEF Sound
<1> QED  BY <1>1, <1>2 DEF Faithful

\* A book that has missed nothing since its snapshot and has caught up shows the
\* server's best levels, whatever the engine loses or reorders besides: the deltas
\* leave out what is pushed out of the top, and the truncation forgets it
\* (orderbook.rs, apply_updates; checksum.rs), if the depths are the same.
THEOREM BooksStayInSync == ASSUME DepthsAgree PROVE Spec => []InSync
<1>1. Init => Faithful
  BY FaithfulInit
<1>2. Faithful /\ [Next]_vars => Faithful'
  BY FaithfulKept
<1>3. Faithful => InSync
  <2> SUFFICES ASSUME Faithful, NEW p \in Pairs, p \in subs, intact[p] = sent[p]
               PROVE  Checksum(books[p].book) = TopChecksum(market[p])
    BY DEF InSync
  <2>1. PICK s \in 1 .. sent[p] : Since(p, s)
    BY DEF Faithful, Current
  <2>2. sent[p] \in Nat /\ intact[p] # Broken /\ intact[p] >= s
    BY PairTypes DEF Faithful, Broken
  <2>3. ~books[p].recovering
    BY <2>1, <2>2 DEF Since
  <2> QED  BY <2>2, <2>3 DEF Faithful, Chain, Follows
<1> QED  BY <1>1, <1>2, <1>3, PTL DEF Spec

NoFalseStep ==
  \A p \in Pairs :
    intact'[p] # Broken /\ books'[p].failures > books[p].failures => Head(feed[p]) = Ack

\* A book that has missed nothing fails no update: what it counts are the answers
\* to the engine's own subscriptions (tui_monitor.rs, handle_book_message).
THEOREM FailuresAreAnswers == ASSUME DepthsAgree PROVE Spec => NoFalseAlarm
<1>1. Init => Faithful
  BY FaithfulInit
<1>2. Faithful /\ [Next]_vars => Faithful'
  BY FaithfulKept
<1>3. Faithful /\ [Next]_vars => [NoFalseStep]_vars
  <2> SUFFICES ASSUME Faithful, [Next]_vars, NEW p \in Pairs,
                      intact'[p] # Broken, books'[p].failures > books[p].failures
               PROVE  Head(feed[p]) = Ack
    BY DEF NoFalseStep
  <2>1. books[p] \in BookStates /\ books[p].failures \in 0 .. MaxFailures /\ MaxFailures \in Nat
    BY PairTypes, BookSyncAssumption DEF Faithful, BookStates
  <2>2. ~SameBook(p)
    BY <2>1 DEF SameBook
  <2>3. Heard(p)
    BY <2>2, PairStep DEF Faithful, Sound, Quiet, Moved, Published, Joined, Left
  <2>4. PICK m : m = Head(feed[p])
    OBVIOUS
  <2>5. /\ m \in Waiting(p) /\ m \in Messages /\ books'[p] = Handled(books[p], m)
        /\ m.type = "update" => intact[p] # Broken /\ m.no = intact[p] + 1
    BY <2>3, <2>4, HeardWaiting DEF Heard, Faithful, Sound
  <2>6. CASE m.type = "snapshot"
    <3>1. books'[p].failures = 0
      BY <2>5, <2>6 DEF Handled, AfterSnapshot
    <3> QED  BY <2>1, <3>1
  <2>7. CASE m.type = "update"
    <3>1. m \in BookMessages
      BY <2>5, <2>7, MessageKinds DEF IsBook
    <3>2. ~books[p].recovering => Advances(books[p].book, m)
      BY <2>5, <2>7 DEF Faithful, Chain, Follows
    <3>3. books'[p].failures \in {0, books[p].failures}
      BY <2>1, <2>5, <2>7, <3>1, <3>2, HandledUpdate
    <3> QED  BY <2>1, <3>3
  <2>8. CASE ~IsBook(m)
    BY <2>4, <2>5, <2>8, MessageKinds
  <2> QED  BY <2>6, <2>7, <2>8 DEF IsBook
<1>4. [][NoFalseStep]_vars <=> NoFalseAlarm
  BY DEF NoFalseStep, NoFalseAlarm
<1> QED  BY <1>1, <1>2, <1>3, <1>4, PTL DEF Spec

=============================================================================
