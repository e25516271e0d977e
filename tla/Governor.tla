------------------------------ MODULE Governor ------------------------------
(***************************************************************************)
(* The resource governor (governor/mod.rs, policy.rs): a monitor task that *)
(* samples CPU and memory and switches the operational mode with           *)
(* hysteresis.  A mode is the number the atomic stores (0 Performance, 1   *)
(* Balanced, 2 Survival), so a higher number is a stricter mode.  The task *)
(* is the only writer of every variable: one sample is one step.           *)
(***************************************************************************)
EXTENDS Integers

CONSTANTS
  Metrics,      \* the samples: records of cpu (percent in use) and ram (MB free)
  SurvivalCpu, BalancedCpu, SurvivalRam, BalancedRam,   \* the thresholds
  Thresholds,   \* values of hysteresis_threshold
  OverflowChecks,  \* integer overflow panics (debug builds) or wraps (release)
  Memory        \* how many samples the history remembers

Byte == 0 .. 255

ASSUME GovernorAssumption ==
  /\ Metrics \subseteq [cpu : Int, ram : Int]
  /\ SurvivalCpu \in Int /\ BalancedCpu \in Int /\ SurvivalRam \in Int /\ BalancedRam \in Int
  /\ Thresholds \subseteq Byte
  /\ OverflowChecks \in BOOLEAN
  /\ Memory \in Nat \ {0}
  /\ \A t \in Thresholds : t < Memory \/ t = 255

VARIABLES
  mode,       \* the atomic
  high, low,  \* consecutive_high_cpu, consecutive_low_cpu
  threshold,  \* config.hysteresis_threshold
  raw,        \* the mode of the last sample on its own
  alive,      \* the monitor task has not panicked
  tick,       \* the interval's ticks, counted modulo two: every sample is seen to happen
  recent      \* history: recent[i] is the raw mode i samples ago, since the last switch

vars == <<mode, high, low, threshold, raw, alive, tick, recent>>

Performance == 0
Balanced == 1
Survival == 2
Modes == {Performance, Balanced, Survival}

NoSample == -1
Forgotten == [i \in 1 .. Memory |-> NoSample]

\* The mode a sample calls for.
RawMode(m) ==
  CASE m.cpu > SurvivalCpu \/ m.ram < SurvivalRam -> Survival
    [] ~(m.cpu > SurvivalCpu \/ m.ram < SurvivalRam)
       /\ (m.cpu > BalancedCpu \/ m.ram < BalancedRam) -> Balanced
    [] OTHER -> Performance

\* The history after one more sample that leaves the mode as it is.
Remember(r) == [i \in 1 .. Memory |-> IF i = 1 THEN r ELSE recent[i - 1]]

Init ==
  /\ mode = Performance
  /\ high = 0 /\ low = 0
  /\ threshold \in Thresholds
  /\ raw = Performance
  /\ alive = TRUE
  /\ tick = 0
  /\ recent = Forgotten

-----------------------------------------------------------------------------

Switch(r) ==
  /\ mode' = r
  /\ recent' = Forgotten

Stay(r) ==
  /\ mode' = mode
  /\ recent' = Remember(r)

\* Slip: > for >=.
SlipEscalateLate(r) ==
  /\ r > mode
  /\ low' = 0
  /\ \/ high + 1 > threshold /\ high' = 0 /\ Switch(r)
     \/ high + 1 <= threshold /\ high' = high + 1 /\ Stay(r)
  /\ UNCHANGED alive

\* The sample calls for a stricter mode.  Below 255 the counter cannot
\* overflow, because it starts again when it reaches the threshold.
Escalate(r) ==
  /\ r > mode
  /\ low' = 0
  /\ \/ high + 1 >= threshold /\ high' = 0 /\ Switch(r)
     \/ high + 1 < threshold /\ high' = high + 1 /\ Stay(r)
  /\ UNCHANGED alive

\* hysteresis_threshold + 1 in u8: at 255 it panics or wraps to zero.
DeescalateAt == (threshold + 1) % 256

\* Slip: the counter is not reset by the switch it causes.
SlipKeepLow(r) ==
  /\ r < mode
  /\ high' = 0
  /\ low' = low + 1
  /\ \/ low + 1 >= DeescalateAt /\ Switch(r)
     \/ low + 1 < DeescalateAt /\ Stay(r)
  /\ UNCHANGED alive

\* Slip: a sample on the low side that does not switch restarts the count.
SlipLowRestarts(r) ==
  /\ r < mode
  /\ high' = 0
  /\ low' = 0
  /\ \/ low + 1 >= DeescalateAt /\ Switch(r)
     \/ low + 1 < DeescalateAt /\ Stay(r)
  /\ UNCHANGED alive

\* The sample calls for a more relaxed mode.
Deescalate(r) ==
  /\ r < mode
  /\ ~(OverflowChecks /\ threshold = 255)
  /\ high' = 0
  /\ \/ low + 1 >= DeescalateAt /\ low' = 0 /\ Switch(r)
     \/ low + 1 < DeescalateAt /\ low' = low + 1 /\ Stay(r)
  /\ UNCHANGED alive

\* The panic ends the monitor task; the mode stays what it is.
Panic(r) ==
  /\ r < mode
  /\ OverflowChecks /\ threshold = 255
  /\ high' = 0 /\ low' = low + 1
  /\ alive' = FALSE
  /\ Stay(r)

\* Slip: only the high counter starts again.
SlipConfirmKeepsLow(r) ==
  /\ r = mode
  /\ high' = 0
  /\ Stay(r)
  /\ UNCHANGED <<low, alive>>

\* The sample confirms the mode.
Confirm(r) ==
  /\ r = mode
  /\ high' = 0 /\ low' = 0
  /\ Stay(r)
  /\ UNCHANGED alive

\* One round of monitor_loop.
Sample ==
  /\ alive
  /\ tick' = 1 - tick
  /\ \E m \in Metrics :
       /\ raw' = RawMode(m)
       /\ Escalate(RawMode(m)) \/ Deescalate(RawMode(m)) \/ Panic(RawMode(m)) \/ Confirm(RawMode(m))
  /\ UNCHANGED threshold

Spec == Init /\ [][Sample]_vars

\* The interval timer keeps firing and the runtime keeps polling the task.  The
\* tick makes a sample that changes nothing else a step, so fairness does not
\* ask the samples to vary.
FairSpec == Spec /\ WF_vars(Sample)

-----------------------------------------------------------------------------

\* What a switch needs: this many samples in a row above, or below, the mode.
\* A threshold of zero switches at the first sample, like a threshold of one.
NeedAbove == IF threshold = 0 THEN 1 ELSE threshold
NeedBelow == threshold + 1

\* Every variable has its type; the two counters never count at once and never
\* leave their u8.
TypeOK ==
  /\ mode \in Modes /\ raw \in Modes
  /\ high \in Byte /\ low \in Byte /\ threshold \in Thresholds
  /\ high < NeedAbove /\ low < NeedBelow /\ (high = 0 \/ low = 0)
  /\ alive \in BOOLEAN /\ tick \in {0, 1}
  /\ recent \in [1 .. Memory -> Modes \cup {NoSample}]

Above(x) == x # NoSample /\ x > mode
Below(x) == x # NoSample /\ x < mode

\* The mode changes only to what the last sample calls for, and only after
\* enough samples in a row on that side of the mode: one more to relax than to
\* tighten.  Samples of the other side, or that confirm the mode, start the
\* count again (calculate_mode_with_hysteresis).
NoEarlySwitch ==
  [][/\ mode' # mode => mode' = raw'
     /\ mode' > mode => \A i \in 1 .. Memory : i < NeedAbove => Above(recent[i])
     /\ mode' < mode /\ threshold < 255 =>
          \A i \in 1 .. Memory : i < NeedBelow => Below(recent[i])]_vars

\* A switch is not late either: the samples since the last one never hold a run
\* long enough to have caused another.
NoLateSwitch ==
  threshold < 255 =>
    /\ \E i \in 1 .. Memory : i <= NeedAbove /\ ~Above(recent[i])
    /\ \E i \in 1 .. Memory : i <= NeedBelow /\ ~Below(recent[i])

\* If the samples settle, the mode settles where they call for, from any mode
\* and any state of the counters, unless the task has panicked.
Settles ==
  \A m \in Modes : <>[](raw = m) => <>[](mode = m \/ ~alive)

=============================================================================
