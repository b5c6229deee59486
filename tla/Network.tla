------------------------------- MODULE Network -------------------------------
(***************************************************************************)
(* What sendto and recvfrom may do with the datagrams of the projection.   *)
(* The program sends with sendto and ignores its result, and receives with *)
(* a blocking recvfrom: between the two is the bounded buffer of the       *)
(* receiving socket, and UDP.                                              *)
(***************************************************************************)
EXTENDS Naturals, Sequences, SequencesExt

CONSTANTS
  Capacity,   \* datagrams the receiving socket holds; more are dropped
  Lossy,      \* a datagram may be lost on the way
  Reorders,   \* a later datagram may overtake an earlier one
  MaxDups     \* bound: datagrams that may be delivered twice

ASSUME NetworkConstants ==
  /\ Capacity \in Nat \ {0}
  /\ Lossy \in BOOLEAN /\ Reorders \in BOOLEAN
  /\ MaxDups \in Nat

VARIABLES
  net,   \* the datagrams on the way, oldest first
  dups   \* how many were delivered twice so far

NetworkInit == net = <<>> /\ dups = 0

Transmit(d) ==
  /\ \/ Len(net) < Capacity /\ net' = Append(net, d)
     \/ (Lossy \/ Len(net) >= Capacity) /\ net' = net
  /\ dups' = dups

(* The datagram at position k is delivered, for good or with a copy kept.  *)
Delivers(k) ==
  /\ k = 1 \/ Reorders
  /\ \/ net' = RemoveAt(net, k) /\ dups' = dups
     \/ dups < MaxDups /\ net' = net /\ dups' = dups + 1

=============================================================================
