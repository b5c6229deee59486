---------------------------- MODULE FrameDisplay -----------------------------
(***************************************************************************)
(* What a projection promises whatever the network does: frames are taken  *)
(* one after the other, and the display shows some of them, in the order   *)
(* they were taken, each at most once and none before it was taken.        *)
(*                                                                         *)
(* The promise ends when the program breaks, that is when it has written   *)
(* outside its memory.                                                     *)
(***************************************************************************)
EXTENDS Naturals

VARIABLES
  taken,    \* the number of frames taken so far
  horizon,  \* no frame up to this number will be shown any more
  shown,    \* the frames shown by the last step
  broken    \* the program has written outside its memory

dvars == <<taken, horizon, shown, broken>>

DisplayInit ==
  /\ taken = 0 /\ horizon = 0
  /\ shown = {}
  /\ broken = FALSE

Take ==
  /\ taken' = taken + 1
  /\ UNCHANGED <<horizon, shown, broken>>

(* The frames of S are shown, and the display is past them.                *)
Show ==
  /\ horizon' \in Nat /\ horizon <= horizon'
  /\ shown' \subseteq {n \in 1 .. taken : horizon < n /\ n <= horizon'}
  /\ UNCHANGED <<taken, broken>>

Break == broken' = TRUE

DisplayNext == Take \/ Show \/ Break

DisplaySpec == DisplayInit /\ [][DisplayNext]_dvars

=============================================================================
