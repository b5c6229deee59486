-------------------------- MODULE FrameClockProofs --------------------------
(***************************************************************************)
(* When the loop pauses, for any clock, any frame rate and any run.        *)
(***************************************************************************)
EXTENDS FrameClock, TLAPS

USE DEF Passes

(* How often the second has turned since gettime was first called.         *)
Turns == (now \div Micro) - (start \div Micro)

(* The loop pauses only at the beginning, for as long as one frame has     *)
(* milliseconds, but in microseconds, or after the second has turned.      *)
PausesAtTheStart ==
  at = "sleep" => now - start < Milli \div rate \/ Turns > 0

(* A time of day, taken apart and put together.                            *)
LEMMA Split ==
  ASSUME ClockConstants, NEW t \in Nat
  PROVE  /\ t \div Micro \in Nat /\ t % Micro \in 0 .. Micro - 1
         /\ t = (t \div Micro) * Micro + (t % Micro)
BY DEF ClockConstants

(* The milliseconds of getabstime fall behind the microseconds that have   *)
(* passed with every full second.                                          *)
LEMMA AbsTimeIs ==
  ASSUME ClockConstants, NEW t \in Nat
  PROVE  /\ AbsTime(t) \in Nat
         /\ AbsTime(t) = t - (t \div Micro) * (Micro - Milli)
<1> DEFINE q == t \div Micro
           r == t % Micro
<1>1. q \in Nat /\ r \in 0 .. Micro - 1 /\ t = q * Micro + r
  BY Split
<1>2. AbsTime(t) = q * Milli + r
  BY DEF AbsTime
<1> HIDE DEF q, r
<1>3. q * Milli \in Nat /\ q * (Micro - Milli) = q * Micro - q * Milli
  BY <1>1 DEF ClockConstants
<1>4. q * Micro \in Nat
  BY <1>1 DEF ClockConstants
<1>5. AbsTime(t) \in Nat /\ AbsTime(t) = t - q * (Micro - Milli)
  BY <1>1, <1>2, <1>3, <1>4
<1>6. QED
  BY <1>5 DEF q

ClockInv ==
  /\ now \in Nat /\ start \in Nat /\ start <= now
  /\ base_time = AbsTime(start)
  /\ reading \in Nat
  /\ rate \in Nat \ {0}
  /\ at \in {"work", "clock", "sleep", "next"}
  /\ at = "sleep" => TooEarly(reading)
  /\ at = "sleep" \/ (at = "next" /\ ~ TooEarly(reading)) => reading = GetTime

LEMMA ClockStart ==
  ASSUME ClockConstants, Init
  PROVE  ClockInv
BY DEF ClockConstants, Init, ClockInv

LEMMA ClockStep ==
  ASSUME ClockConstants, ClockInv, [Next]_vars
  PROVE  ClockInv'
<1> USE DEF ClockConstants, ClockInv
<1>1. CASE Work
  BY <1>1 DEF Work
<1>2. CASE ReadClock
  <2>1. GetTime \in Nat
    <3>1. AbsTime(now) \in Nat /\ base_time \in Nat
      BY AbsTimeIs
    <3>2. QED
      BY <3>1 DEF GetTime
  <2>2. GetTime' = GetTime
    BY <1>2 DEF ReadClock, GetTime, AbsTime
  <2>3. TooEarly(reading') <=> TooEarly(reading)'
    BY <1>2 DEF ReadClock, TooEarly
  <2>4. QED
    BY <1>2, <2>1, <2>2, <2>3 DEF ReadClock
<1>3. CASE Sleep
  BY <1>3 DEF Sleep, TooEarly
<1>4. CASE NextRound
  BY <1>4 DEF NextRound
<1>5. CASE UNCHANGED vars
  BY <1>5 DEF vars, GetTime, AbsTime, TooEarly
<1>6. QED
  BY <1>1, <1>2, <1>3, <1>4, <1>5 DEF Next

LEMMA GetTimeIs ==
  ASSUME ClockConstants, ClockInv
  PROVE  GetTime = (now - start - Turns * (Micro - Milli)) % Word
<1> DEFINE q1 == now \div Micro
           q0 == start \div Micro
           d == Micro - Milli
<1>1. q1 \in Nat /\ q0 \in Nat /\ d \in Nat
  BY Split DEF ClockConstants, ClockInv
<1>2. AbsTime(now) = now - q1 * d /\ AbsTime(start) = start - q0 * d
  BY AbsTimeIs DEF ClockInv
<1>3. Turns * d = (q1 - q0) * d
  BY DEF Turns
<1> HIDE DEF q1, q0, d
<1>4. (q1 - q0) * d = q1 * d - q0 * d /\ q1 * d \in Int /\ q0 * d \in Int
  BY <1>1
<1>5. AbsTime(now) - AbsTime(start) = now - start - Turns * d
  BY <1>2, <1>3, <1>4 DEF ClockInv
<1>6. QED
  BY <1>5 DEF ClockInv, GetTime, d

(* Until the second turns, the clock is right, but in microseconds.        *)
LEMMA SameSecond ==
  ASSUME ClockConstants, ClockInv, ~ (Turns > 0)
  PROVE  GetTime = now - start
<1> DEFINE q1 == now \div Micro
           q0 == start \div Micro
           r1 == now % Micro
           r0 == start % Micro
<1>1. /\ q1 \in Nat /\ q0 \in Nat
      /\ r1 \in 0 .. Micro - 1 /\ r0 \in 0 .. Micro - 1
      /\ now = q1 * Micro + r1 /\ start = q0 * Micro + r0
  BY Split DEF ClockInv
<1>2. q1 <= q0
  BY <1>1 DEF Turns
<1>3. Turns = q1 - q0
  BY DEF Turns
<1> HIDE DEF q1, q0, r1, r0
<1>4. q1 = q0
  <2>1. SUFFICES ASSUME q1 + 1 <= q0
                 PROVE  FALSE
    BY <1>1, <1>2
  <2>2. (q1 + 1) * Micro <= q0 * Micro /\ (q1 + 1) * Micro = q1 * Micro + Micro
    BY <1>1, <2>1 DEF ClockConstants
  <2>3. q1 * Micro \in Nat /\ q0 * Micro \in Nat
    BY <1>1 DEF ClockConstants
  <2>4. QED
    BY <1>1, <2>2, <2>3 DEF ClockConstants, ClockInv
<1>5. now - start = r1 - r0
  <2>1. q1 * Micro = q0 * Micro /\ q0 * Micro \in Nat
    BY <1>1, <1>4 DEF ClockConstants
  <2>2. QED
    BY <1>1, <2>1 DEF ClockConstants
<1>6. now - start \in 0 .. Word - 1
  BY <1>1, <1>5 DEF ClockConstants, ClockInv
<1>7. Turns * (Micro - Milli) = 0
  BY <1>1, <1>3, <1>4 DEF ClockConstants
<1>8. GetTime = (now - start) % Word
  <2>1. GetTime = (now - start - 0) % Word
    BY <1>7, GetTimeIs
  <2>2. QED
    BY <2>1, <1>6
<1>9. QED
  BY <1>6, <1>8 DEF ClockConstants

(* The pause of main is taken only at the start or after the second has    *)
(* turned, whatever the rate.                                              *)
THEOREM PausesCorrect ==
  ASSUME ClockConstants
  PROVE  Spec => []PausesAtTheStart
<1>1. Init => ClockInv
  BY ClockStart
<1>2. ClockInv /\ [Next]_vars => ClockInv'
  BY ClockStep
<1>3. ClockInv => PausesAtTheStart
  BY SameSecond DEF ClockInv, PausesAtTheStart, TooEarly
<1>4. QED
  BY <1>1, <1>2, <1>3, PTL DEF Spec

=============================================================================
