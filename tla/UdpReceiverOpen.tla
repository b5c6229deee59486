--------------------------- MODULE UdpReceiverOpen ---------------------------
(***************************************************************************)
(* The receiver on its own, in a network that knows no rules: any datagram *)
(* may arrive at any time, any number of times, in any order.              *)
(***************************************************************************)
EXTENDS UdpReceiver

CONSTANT Arriving   \* the datagrams that may arrive

ASSUME ArrivingType == Arriving \subseteq Datagram

ReceiverNext == \E m \in Arriving : Revc(m)

ReceiverSpec == ReceiverInit /\ [][ReceiverNext]_rvars

=============================================================================
