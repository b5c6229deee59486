----------------------------- MODULE FrameStream -----------------------------
(***************************************************************************)
(* What the capture loop promises whatever fails: it takes pictures of the *)
(* screen one after the other, and a picture of its own that it gives to   *)
(* udp_send is one it has taken, never older than the one before.  A       *)
(* picture may be left out, and one may be given again.                    *)
(*                                                                         *)
(* Two things are given that are no picture of its own: the file of an     *)
(* earlier run, but never after a picture of this one, and junk, when the  *)
(* file cannot be read.                                                    *)
(*                                                                         *)
(* The promise ends with the program, whether it stops or breaks.          *)
(***************************************************************************)
EXTENDS Naturals

VARIABLES
  taken,   \* the number of pictures taken so far
  given,   \* the newest picture given to udp_send, 0 before the first
  last,    \* what was given last: "nothing", a "picture" of its own,
           \* a "leftover" of an earlier run, "junk"
  ended    \* the program is over

streamvars == <<taken, given, last, ended>>

StreamInit ==
  /\ taken = 0 /\ given = 0
  /\ last = "nothing"
  /\ ended = FALSE

TakePicture ==
  /\ ~ ended
  /\ taken' = taken + 1
  /\ UNCHANGED <<given, last, ended>>

GivePicture ==
  /\ ~ ended
  /\ given' \in given .. taken
  /\ given' > 0
  /\ last' = "picture"
  /\ UNCHANGED <<taken, ended>>

GiveLeftover ==
  /\ ~ ended
  /\ given = 0
  /\ last' = "leftover"
  /\ UNCHANGED <<taken, given, ended>>

GiveJunk ==
  /\ ~ ended
  /\ taken > 0
  /\ last' = "junk"
  /\ UNCHANGED <<taken, given, ended>>

End ==
  /\ ended' = TRUE
  /\ UNCHANGED <<taken, given, last>>

StreamNext == TakePicture \/ GivePicture \/ GiveLeftover \/ GiveJunk \/ End

StreamSpec == StreamInit /\ [][StreamNext]_streamvars

=============================================================================
