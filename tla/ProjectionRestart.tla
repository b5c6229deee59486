------------------------- MODULE ProjectionRestart --------------------------
(***************************************************************************)
(* The projection when one of the two programs dies and is started again.  *)
(* Neither knows of the other: a new sender counts from one again          *)
(* (src/net/udp.c), and a new receiver begins with an empty table and      *)
(* lastpacketseqnum 0 (src/net/udp_server.c), in the middle of a frame if  *)
(* it so happens.                                                          *)
(***************************************************************************)
EXTENDS Projection

CONSTANT MaxFaults   \* bound: how often one of the two is started again

ASSUME MaxFaultsType == MaxFaults \in Nat

VARIABLES
  restarts,   \* how often the sender has been started again
  deaths,     \* how often it had died with a frame sent in part
  joins,      \* how often the receiver has been started again
  joined      \* the sender's count when the receiver was last started

restartVars == <<vars, restarts, deaths, joins, joined>>

RestartInit ==
  Init /\ restarts = 0 /\ deaths = 0 /\ joins = 0 /\ joined = 0

(* The sender may die in the middle of udp_send.  What it has sent is      *)
(* still on its way.                                                       *)
SenderRestarts ==
  /\ restarts + joins < MaxFaults
  /\ restarts' = restarts + 1
  /\ deaths' = IF call.i = 0 THEN deaths ELSE deaths + 1
  /\ count' = 0 /\ call' = NoCall
  /\ UNCHANGED <<net, dups, rvars, joins, joined>>

(* What was in the socket of the old receiver is lost.                     *)
ReceiverRestarts ==
  /\ restarts + joins < MaxFaults
  /\ joins' = joins + 1
  /\ joined' = count
  /\ net' = <<>>
  /\ packet' = [i \in Slots |-> EmptySlot]
  /\ lastpacketseqnum' = 0
  /\ out' = {} /\ wild' = {}
  /\ UNCHANGED <<svars, dups, restarts, deaths>>

RestartNext ==
  \/ Next /\ UNCHANGED <<restarts, deaths, joins, joined>>
  \/ SenderRestarts
  \/ ReceiverRestarts

RestartSpec == RestartInit /\ [][RestartNext]_restartVars

RestartFairSpec == RestartSpec /\ Fairness

-----------------------------------------------------------------------------
(* Properties *)

(* On a network that loses and reorders nothing, a new sender costs the    *)
(* receiver at most one slot for ever: that of the frame with the number   *)
(* lastpacketseqnum, which is neither rejected nor ever handed on.         *)
RestartCost ==
  wild = {} /\ joins + deaths = 0 => Cardinality(StaleSlots) <= restarts

(* The table lasts as long as it has a slot for each of these.             *)
TableLasts ==
  joins + deaths = 0 /\ (\E w \in wild : w.at = "slot") => restarts >= NumSlots

(* A sender that dies in the middle of a frame costs the receiver at most  *)
(* one slot more: that of what the new sender still sends of the frame of  *)
(* the same number, after the two halves have been handed on as one.  And  *)
(* no call of Revc hands on more than one frame that is mixed like that.   *)
DeathCost ==
  wild = {} /\ joins = 0 /\ restarts = 1 /\ deaths = 1 =>
    /\ Cardinality(StaleSlots) <= 2
    /\ Cardinality({f \in out : ~ Whole(f)}) <= 1

(* Nothing is held back once the network is empty: the receiver has        *)
(* either handed on the last frame or was past its number before, unless a *)
(* frame was cut in two.                                                   *)
NothingWaits ==
  Idle /\ wild = {} /\ joins + deaths = 0 => count <= lastpacketseqnum

(* A frame with a hole, or of two lengths, is handed on only when a sender *)
(* was started again and a frame was cut: by a sender that died in it, or  *)
(* by a receiver that came in the middle.                                  *)
WholeUnlessCut ==
  wild = {} /\ (restarts = 0 \/ joins + deaths = 0) => WholeFrames

(* A receiver that is started late has caught up as soon as Lag frames     *)
(* more have been sent, and one for every SkipRounds + 2 it was late.      *)
(* Until then every frame keeps a slot: there are enough of them if it was *)
(* not later than Window - 1 times that.                                   *)
Rejoins ==
  /\ joins > 0 /\ restarts = 0
  /\ joined - 1 <= (Window - 1) * (SkipRounds + 2)
  => /\ wild = {}
     /\ Idle /\ joined - 1 <= (count - joined - Lag) * (SkipRounds + 2)
          => lastpacketseqnum >= count

=============================================================================
