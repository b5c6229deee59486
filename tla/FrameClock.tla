----------------------------- MODULE FrameClock -----------------------------
(***************************************************************************)
(* The clock of the program, src/clock.c, and the pause at the end of a    *)
(* round of the capture loop (src/take_screen.c), which is to keep the     *)
(* frame rate.                                                             *)
(*                                                                         *)
(* gettimeofday gives seconds and microseconds.  gettime multiplies the    *)
(* seconds by 1000 and adds the microseconds as they are; main takes the   *)
(* sum for milliseconds.                                                   *)
(***************************************************************************)
EXTENDS Integers

CONSTANTS
  Micro,      \* microseconds in a second (1000000)
  Milli,      \* the 1000 of clock.c, and that of 1000/opt_frame_rate
  Word,       \* an unsigned long counts modulo this (2^64)
  Rates,      \* the values of opt_frame_rate
  Takes,      \* how long grabbing, writing and sending may take
  StartTimes, \* when the program may be started
  MaxTime     \* bound: the end of time, in microseconds

(* What the constants must be for the theorems of FrameClockProofs.        *)
ClockConstants ==
  /\ Micro \in Nat \ {0} /\ Milli \in Nat \ {0} /\ Milli < Micro
  /\ Word \in Nat /\ Micro <= Word
  /\ Rates \subseteq Nat \ {0}
  /\ Takes \subseteq Nat \ {0}
  /\ StartTimes \subseteq Nat \ {0}
  /\ MaxTime \in Nat

VARIABLES
  now,         \* the time of day, in microseconds
  base_time,   \* what gettime subtracts
  reading,     \* what gettime has returned last
  rate,        \* opt_frame_rate
  at,          \* the next step of the round
  start,       \* when gettime was first called
  began        \* when this round has begun

vars == <<now, base_time, reading, rate, at, start, began>>

(* getabstime, from tv_sec and tv_usec.                                    *)
AbsTime(t) == (t \div Micro) * Milli + (t % Micro)

(* gettime, an unsigned number.                                            *)
GetTime == (AbsTime(now) - base_time) % Word

(* The first call of gettime, before the loop.                             *)
Init ==
  /\ now \in StartTimes
  /\ start = now /\ began = now
  /\ base_time = AbsTime(now)
  /\ reading = 0
  /\ rate \in Rates
  /\ at = "work"

Passes(d) == now + d <= MaxTime /\ now' = now + d

(* The picture is grabbed, written and sent.                               *)
Work ==
  /\ at = "work" /\ at' = "clock"
  /\ \E d \in Takes : Passes(d)
  /\ UNCHANGED <<base_time, reading, rate, start, began>>

(* The condition that is stored in dt.                                     *)
TooEarly(t) == t < Milli \div rate

ReadClock ==
  /\ at = "clock"
  /\ reading' = GetTime
  /\ at' = IF TooEarly(GetTime) THEN "sleep" ELSE "next"
  /\ UNCHANGED <<now, base_time, rate, start, began>>

(* usleep(dt), and dt is 1.                                                *)
Sleep ==
  /\ at = "sleep" /\ at' = "next"
  /\ Passes(1)
  /\ UNCHANGED <<base_time, reading, rate, start, began>>

NextRound ==
  /\ at = "next" /\ at' = "work"
  /\ began' = now
  /\ UNCHANGED <<now, base_time, reading, rate, start>>

Next == Work \/ ReadClock \/ Sleep \/ NextRound

Spec == Init /\ [][Next]_vars

-----------------------------------------------------------------------------
(* Properties *)

(* The frame rate of option -r: a round does not begin before the time of  *)
(* a frame has passed since the one before began.  The code does not keep  *)
(* it: see the theorem PausesCorrect.                                      *)
FrameRateKept == [][NextRound => now - began >= Micro \div rate]_vars

=============================================================================
