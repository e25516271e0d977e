--------------------------- MODULE GovernorProofs ---------------------------
(***************************************************************************)
(* Theorems about the governor's hysteresis, for every threshold, every    *)
(* set of samples and both kinds of build.  The two counters stand for the *)
(* history: each is the length of the run of samples on its side of the    *)
(* mode that ends now.                                                     *)
(***************************************************************************)
EXTENDS Governor, TLAPS

\* What the counters say of the history.
CountersTell ==
  /\ \A i \in 1 .. Memory : i <= high => Above(recent[i])
  /\ \A i \in 1 .. Memory : i = high + 1 => ~Above(recent[i])
  /\ \A i \in 1 .. Memory : i <= low => Below(recent[i])
  /\ \A i \in 1 .. Memory : i = low + 1 => ~Below(recent[i])

\* At 255 no sample is ever counted on the low side: the task panics or the
\* wrapped comparison succeeds at once.
NothingCounted == threshold = 255 /\ alive => low = 0

IInv == TypeOK /\ CountersTell /\ NothingCounted

-----------------------------------------------------------------------------
\* Helpers.

\* The thresholds are bytes, and the history is long enough for all but 255.
LEMMA ThresholdBounds ==
  ASSUME threshold \in Thresholds
  PROVE  /\ threshold \in Nat /\ threshold <= 255
         /\ threshold < 255 => threshold < Memory
         /\ NeedAbove \in Nat /\ NeedBelow \in Nat
         /\ NeedAbove >= 1 /\ NeedAbove <= 255
         /\ threshold < 255 => NeedAbove <= Memory /\ NeedBelow <= Memory /\ NeedBelow <= 255
         /\ DeescalateAt = IF threshold = 255 THEN 0 ELSE threshold + 1
<1>1. /\ threshold \in 0 .. 255 /\ Memory \in Nat \ {0}
      /\ threshold < Memory \/ threshold = 255
  BY GovernorAssumption DEF Byte
<1>2. (threshold + 1) % 256 = IF threshold = 255 THEN 0 ELSE threshold + 1
  BY <1>1
<1> QED  BY <1>1, <1>2 DEF NeedAbove, NeedBelow, DeescalateAt

\* A sample calls for one of the three modes.
LEMMA RawModeType ==
  ASSUME NEW m
  PROVE  RawMode(m) \in Modes
BY DEF RawMode, Modes

\* The history after a sample that leaves the mode as it is.
LEMMA RememberIs ==
  ASSUME NEW r \in Modes, recent \in [1 .. Memory -> Modes \cup {NoSample}]
  PROVE  /\ Remember(r) \in [1 .. Memory -> Modes \cup {NoSample}]
         /\ Remember(r)[1] = r
         /\ \A i \in 1 .. Memory : i > 1 => i - 1 \in 1 .. Memory /\ Remember(r)[i] = recent[i - 1]
BY GovernorAssumption DEF Remember

\* Once forgotten, the history is on neither side.
LEMMA ForgottenIs ==
  /\ Forgotten \in [1 .. Memory -> Modes \cup {NoSample}]
  /\ \A i \in 1 .. Memory : Forgotten[i] = NoSample
BY DEF Forgotten

-----------------------------------------------------------------------------
\* The inductive invariant.

LEMMA InitIInv == Init => IInv
<1> SUFFICES ASSUME Init PROVE IInv
  OBVIOUS
<1>1. /\ mode = 0 /\ high = 0 /\ low = 0 /\ raw = 0 /\ alive = TRUE /\ tick = 0
      /\ threshold \in Thresholds /\ recent = Forgotten
  BY DEF Init, Performance
<1>2. TypeOK
  BY <1>1, ThresholdBounds, ForgottenIs DEF TypeOK, Modes, Performance, Byte, NeedBelow
<1>3. CountersTell
  BY <1>1, ForgottenIs DEF CountersTell, Above, Below
<1> QED  BY <1>1, <1>2, <1>3 DEF IInv, NothingCounted

\* A switch starts the history and the counters anew.
LEMMA SwitchIInv ==
  ASSUME IInv, NEW r \in Modes, Switch(r), raw' = r, high' = 0, low' = 0,
         alive' = alive, threshold' = threshold, tick' \in {0, 1}
  PROVE  IInv'
<1>1. mode' = r /\ recent' = Forgotten
  BY DEF Switch
<1>2. threshold \in Thresholds /\ alive \in BOOLEAN
  BY DEF IInv, TypeOK
<1>3. TypeOK'
  <2>1. NeedAbove' = NeedAbove /\ NeedBelow' = NeedBelow
    BY DEF NeedAbove, NeedBelow
  <2>2. NeedAbove \in Nat /\ NeedAbove >= 1 /\ NeedBelow = threshold + 1 /\ threshold \in Nat
    BY <1>2, ThresholdBounds DEF NeedBelow
  <2> QED  BY <1>1, <1>2, <2>1, <2>2, ForgottenIs DEF TypeOK, Byte
<1>4. CountersTell'
  BY <1>1, ForgottenIs DEF CountersTell, Above, Below
<1> QED  BY <1>3, <1>4 DEF IInv, NothingCounted

\* A sample that leaves the mode moves one counter on, or none.
LEMMA StayIInv ==
  ASSUME IInv, NEW r \in Modes, Stay(r), raw' = r, threshold' = threshold, tick' \in {0, 1},
         alive' \in BOOLEAN,
         high' = IF r > mode THEN high + 1 ELSE 0,
         low' = IF r < mode THEN low + 1 ELSE 0,
         high' < NeedAbove, low' < NeedBelow,
         threshold = 255 /\ alive' => low' = 0
  PROVE  IInv'
<1>1. mode' = mode /\ recent' = Remember(r)
  BY DEF Stay
<1>2. /\ mode \in 0 .. 2 /\ r \in 0 .. 2 /\ threshold \in Thresholds
      /\ high \in Nat /\ low \in Nat
      /\ recent \in [1 .. Memory -> Modes \cup {NoSample}]
  BY DEF IInv, TypeOK, Modes, Performance, Balanced, Survival, Byte
<1>3. /\ Remember(r) \in [1 .. Memory -> Modes \cup {NoSample}]
      /\ Remember(r)[1] = r
      /\ \A i \in 1 .. Memory : i > 1 => i - 1 \in 1 .. Memory /\ Remember(r)[i] = recent[i - 1]
  BY <1>2, RememberIs
<1>4. TypeOK'
  <2>1. NeedAbove' = NeedAbove /\ NeedBelow' = NeedBelow
    BY DEF NeedAbove, NeedBelow
  <2>2. high' \in Nat /\ low' \in Nat /\ (high' = 0 \/ low' = 0)
    BY <1>2
  <2>3. /\ NeedAbove \in Nat /\ NeedAbove <= 255
        /\ NeedBelow = threshold + 1 /\ threshold \in Nat /\ threshold <= 255
    BY <1>2, ThresholdBounds DEF NeedBelow
  <2>4. high' \in Byte /\ low' \in Byte
    BY <2>2, <2>3 DEF Byte
  <2>5. mode' \in Modes
    BY <1>1 DEF IInv, TypeOK
  <2> QED  BY <1>1, <1>2, <1>3, <2>1, <2>2, <2>4, <2>5 DEF TypeOK
<1>5. CountersTell'
  <2> SUFFICES ASSUME NEW i \in 1 .. Memory
               PROVE  /\ i <= high' => Above(recent[i])'
                      /\ i = high' + 1 => ~Above(recent[i])'
                      /\ i <= low' => Below(recent[i])'
                      /\ i = low' + 1 => ~Below(recent[i])'
    BY DEF CountersTell
  <2>0. Memory \in Nat
    BY GovernorAssumption
  <2>1. \A j \in 1 .. Memory : /\ j <= high => Above(recent[j])
                               /\ j = high + 1 => ~Above(recent[j])
                               /\ j <= low => Below(recent[j])
                               /\ j = low + 1 => ~Below(recent[j])
    BY DEF IInv, CountersTell
  <2>2. CASE i = 1
    <3>1. recent'[i] = r /\ r # NoSample
      BY <1>1, <1>2, <1>3, <2>2 DEF NoSample
    <3>2. /\ Above(recent[i])' <=> r > mode
          /\ Below(recent[i])' <=> r < mode
      BY <1>1, <3>1 DEF Above, Below
    <3> QED  BY <3>2, <1>2, <2>2
  <2>3. CASE i > 1
    <3>1. i - 1 \in 1 .. Memory /\ recent'[i] = recent[i - 1]
      BY <1>1, <1>3, <2>3
    <3>2. /\ Above(recent[i])' <=> Above(recent[i - 1])
          /\ Below(recent[i])' <=> Below(recent[i - 1])
      BY <1>1, <3>1 DEF Above, Below
    <3>3. /\ i - 1 <= high => Above(recent[i - 1])
          /\ i - 1 = high + 1 => ~Above(recent[i - 1])
          /\ i - 1 <= low => Below(recent[i - 1])
          /\ i - 1 = low + 1 => ~Below(recent[i - 1])
      BY <2>1, <3>1
    <3> QED  BY <3>2, <3>3, <1>2, <2>0, <2>3
  <2> QED  BY <2>0, <2>2, <2>3
<1> QED  BY <1>4, <1>5 DEF IInv, NothingCounted

\* The facts of the invariant a step needs.
LEMMA Facts ==
  ASSUME IInv
  PROVE  /\ mode \in 0 .. 2 /\ threshold \in Thresholds /\ alive \in BOOLEAN
         /\ high \in Nat /\ low \in Nat /\ high < NeedAbove /\ low < NeedBelow
         /\ threshold = 255 /\ alive => low = 0
BY DEF IInv, TypeOK, Modes, Performance, Balanced, Survival, Byte, NothingCounted

LEMMA NextIInv == IInv /\ [Sample]_vars => IInv'
<1> SUFFICES ASSUME IInv, [Sample]_vars PROVE IInv'
  OBVIOUS
<1>0. /\ mode \in 0 .. 2 /\ threshold \in Thresholds /\ alive \in BOOLEAN
      /\ high \in Nat /\ low \in Nat /\ high < NeedAbove /\ low < NeedBelow
      /\ threshold = 255 /\ alive => low = 0
  BY Facts
<1>1. /\ threshold \in Nat /\ threshold <= 255
      /\ NeedAbove \in Nat /\ NeedAbove >= 1 /\ NeedBelow \in Nat
      /\ DeescalateAt = IF threshold = 255 THEN 0 ELSE threshold + 1
  BY <1>0, ThresholdBounds
<1>2. CASE Sample
  <2>1. PICK m \in Metrics :
          /\ raw' = RawMode(m)
          /\ Escalate(RawMode(m)) \/ Deescalate(RawMode(m)) \/ Panic(RawMode(m)) \/ Confirm(RawMode(m))
    BY <1>2 DEF Sample
  <2>2. alive /\ threshold' = threshold /\ tick' \in {0, 1}
    BY <1>2 DEF Sample, IInv, TypeOK
  <2> DEFINE r == RawMode(m)
  <2>3. r \in Modes /\ r \in 0 .. 2
    BY RawModeType DEF Modes, Performance, Balanced, Survival
  <2>4. raw' = r /\ (Escalate(r) \/ Deescalate(r) \/ Panic(r) \/ Confirm(r))
    BY <2>1
  <2> HIDE DEF r
  <2>5. CASE Escalate(r)
    <3>1. r > mode /\ low' = 0 /\ alive' = alive
      BY <2>5 DEF Escalate
    <3>2. CASE high + 1 >= threshold /\ high' = 0 /\ Switch(r)
      BY <3>1, <3>2, <2>2, <2>3, <2>4, SwitchIInv
    <3>3. CASE high + 1 < threshold /\ high' = high + 1 /\ Stay(r)
      <4>1. high' = IF r > mode THEN high + 1 ELSE 0
        BY <3>1, <3>3
      <4>2. low' = IF r < mode THEN low + 1 ELSE 0
        BY <3>1, <1>0, <2>3
      <4>3. high' < NeedAbove /\ low' < NeedBelow
        BY <3>1, <3>3, <1>0, <1>1 DEF NeedAbove, NeedBelow
      <4> QED  BY <4>1, <4>2, <4>3, <3>1, <3>3, <1>0, <2>2, <2>3, <2>4, StayIInv
    <3> QED  BY <3>2, <3>3, <2>5 DEF Escalate
  <2>6. CASE Deescalate(r)
    <3>1. r < mode /\ high' = 0 /\ alive' = alive
      BY <2>6 DEF Deescalate
    <3>2. CASE low + 1 >= DeescalateAt /\ low' = 0 /\ Switch(r)
      BY <3>1, <3>2, <2>2, <2>3, <2>4, SwitchIInv
    <3>3. CASE low + 1 < DeescalateAt /\ low' = low + 1 /\ Stay(r)
      <4>1. low' = IF r < mode THEN low + 1 ELSE 0
        BY <3>1, <3>3
      <4>2. high' = IF r > mode THEN high + 1 ELSE 0
        BY <3>1, <1>0, <2>3
      <4>3. threshold # 255 /\ high' < NeedAbove /\ low' < NeedBelow
        BY <3>1, <3>3, <1>0, <1>1 DEF NeedBelow
      <4> QED  BY <4>1, <4>2, <4>3, <3>1, <3>3, <1>0, <2>2, <2>3, <2>4, StayIInv
    <3> QED  BY <3>2, <3>3, <2>6 DEF Deescalate
  <2>7. CASE Panic(r)
    <3>1. /\ r < mode /\ threshold = 255 /\ high' = 0 /\ low' = low + 1
          /\ alive' = FALSE /\ Stay(r)
      BY <2>7 DEF Panic
    <3>2. high' = IF r > mode THEN high + 1 ELSE 0
      BY <3>1, <1>0, <2>3
    <3>3. low' = IF r < mode THEN low + 1 ELSE 0
      BY <3>1
    <3>4. high' < NeedAbove /\ low' < NeedBelow
      BY <3>1, <1>0, <1>1, <2>2 DEF NeedBelow
    <3> QED  BY <3>1, <3>2, <3>3, <3>4, <2>2, <2>3, <2>4, StayIInv
  <2>8. CASE Confirm(r)
    <3>1. r = mode /\ high' = 0 /\ low' = 0 /\ alive' = alive /\ Stay(r)
      BY <2>8 DEF Confirm
    <3>2. high' = IF r > mode THEN high + 1 ELSE 0
      BY <3>1, <1>0
    <3>3. low' = IF r < mode THEN low + 1 ELSE 0
      BY <3>1, <1>0
    <3>4. high' < NeedAbove /\ low' < NeedBelow
      BY <3>1, <1>0, <1>1 DEF NeedBelow
    <3> QED  BY <3>1, <3>2, <3>3, <3>4, <1>0, <2>2, <2>3, <2>4, StayIInv
  <2> QED  BY <2>4, <2>5, <2>6, <2>7, <2>8
<1>3. CASE UNCHANGED vars
  BY <1>3 DEF vars, IInv, TypeOK, CountersTell, NothingCounted, Above, Below, NeedAbove, NeedBelow
<1> QED  BY <1>2, <1>3

-----------------------------------------------------------------------------

\* Every variable keeps its type, and neither counter leaves its u8, at any
\* threshold.
THEOREM TypeCorrect == Spec => []TypeOK
<1>1. IInv => TypeOK
  BY DEF IInv
<1> QED  BY <1>1, InitIInv, NextIInv, PTL DEF Spec

\* No run of samples on one side is ever long enough to have caused a switch
\* that did not happen.
THEOREM NeverLate == Spec => []NoLateSwitch
<1>1. IInv => NoLateSwitch
  <2> SUFFICES ASSUME IInv, threshold < 255
               PROVE  /\ \E i \in 1 .. Memory : i <= NeedAbove /\ ~Above(recent[i])
                      /\ \E i \in 1 .. Memory : i <= NeedBelow /\ ~Below(recent[i])
    BY DEF NoLateSwitch
  <2>1. /\ threshold \in Thresholds /\ high \in Nat /\ low \in Nat
        /\ high < NeedAbove /\ low < NeedBelow
    BY Facts
  <2>2. /\ NeedAbove \in Nat /\ NeedBelow \in Nat /\ NeedAbove <= Memory /\ NeedBelow <= Memory
    BY <2>1, ThresholdBounds
  <2>3. Memory \in Nat
    BY GovernorAssumption
  <2>4. high + 1 \in 1 .. Memory /\ high + 1 <= NeedAbove /\ ~Above(recent[high + 1])
    BY <2>1, <2>2, <2>3 DEF IInv, CountersTell
  <2>5. low + 1 \in 1 .. Memory /\ low + 1 <= NeedBelow /\ ~Below(recent[low + 1])
    BY <2>1, <2>2, <2>3 DEF IInv, CountersTell
  <2> QED  BY <2>4, <2>5
<1> QED  BY <1>1, InitIInv, NextIInv, PTL DEF Spec

\* A switch happens only after enough samples in a row on one side of the mode.
THEOREM NeverEarly == Spec => NoEarlySwitch
<1> DEFINE Earned ==
             /\ mode' # mode => mode' = raw'
             /\ mode' > mode => \A i \in 1 .. Memory : i < NeedAbove => Above(recent[i])
             /\ mode' < mode /\ threshold < 255 =>
                  \A i \in 1 .. Memory : i < NeedBelow => Below(recent[i])
<1>1. IInv /\ [Sample]_vars => [Earned]_vars
  <2> SUFFICES ASSUME IInv, Sample PROVE Earned
    OBVIOUS
  <2>1. PICK m \in Metrics :
          /\ raw' = RawMode(m)
          /\ Escalate(RawMode(m)) \/ Deescalate(RawMode(m)) \/ Panic(RawMode(m)) \/ Confirm(RawMode(m))
    BY DEF Sample
  <2>2. /\ mode \in 0 .. 2 /\ threshold \in Thresholds
        /\ high \in Nat /\ low \in Nat
    BY Facts
  <2>3. /\ threshold \in Nat /\ Memory \in Nat
        /\ DeescalateAt = IF threshold = 255 THEN 0 ELSE threshold + 1
    BY <2>2, ThresholdBounds, GovernorAssumption
  <2>4. /\ \A i \in 1 .. Memory : i <= high => Above(recent[i])
        /\ \A i \in 1 .. Memory : i <= low => Below(recent[i])
    BY DEF IInv, CountersTell
  <2> DEFINE r == RawMode(m)
  <2>5. r \in 0 .. 2
    BY RawModeType DEF Modes, Performance, Balanced, Survival
  <2>6. raw' = r /\ (Escalate(r) \/ Deescalate(r) \/ Panic(r) \/ Confirm(r))
    BY <2>1
  <2> HIDE DEF r
  <2>7. CASE mode' = mode
    BY <2>2, <2>7
  <2>8. CASE mode' # mode
    <3>1. mode' = r /\ (Escalate(r) \/ Deescalate(r))
      BY <2>6, <2>8 DEF Escalate, Deescalate, Panic, Confirm, Switch, Stay
    <3>2. CASE Escalate(r)
      <4>1. r > mode /\ high + 1 >= threshold
        BY <2>8, <3>2 DEF Escalate, Stay
      <4>2. \A i \in 1 .. Memory : i < NeedAbove => i <= high
        BY <4>1, <2>2, <2>3 DEF NeedAbove
      <4> QED  BY <4>1, <4>2, <3>1, <2>2, <2>4, <2>5, <2>6
    <3>3. CASE Deescalate(r)
      <4>1. r < mode /\ (threshold < 255 => low + 1 >= threshold + 1)
        BY <2>8, <3>3, <2>3 DEF Deescalate, Stay
      <4>2. threshold < 255 => \A i \in 1 .. Memory : i < NeedBelow => i <= low
        BY <4>1, <2>2, <2>3 DEF NeedBelow
      <4> QED  BY <4>1, <4>2, <3>1, <2>2, <2>4, <2>5, <2>6
    <3> QED  BY <3>1, <3>2, <3>3
  <2> QED  BY <2>7, <2>8
<1> QED  BY <1>1, InitIInv, NextIInv, PTL DEF Spec, NoEarlySwitch

=============================================================================
