----------------------------- MODULE Projection ------------------------------
(***************************************************************************)
(* The projection as a whole: the loop of take_screen.c calls udp_send     *)
(* (UdpSender) frame after frame, the datagrams travel (Network), and the  *)
(* loop of udp_server.c calls Revc (UdpReceiver) for each that arrives.    *)
(***************************************************************************)
EXTENDS UdpSender, UdpReceiver

(* A catch-up does at least as many rounds as a frame must be ahead to     *)
(* start one: 10 and 5.                                                    *)
ASSUME ProjectionConstants == Lag <= SkipRounds

vars == <<count, call, net, dups, packet, lastpacketseqnum, out, wild>>

Init == SenderInit /\ NetworkInit /\ ReceiverInit

Send == SenderStep /\ UNCHANGED rvars

(* recvfrom returns the datagram at position k, and Revc handles it.       *)
Receive(k) == Revc(net[k]) /\ Delivers(k) /\ UNCHANGED svars

Next == Send \/ \E k \in DOMAIN net : Receive(k)

Spec == Init /\ [][Next]_vars

(* Both programs are loops that never wait for each other: udp_send goes   *)
(* on, the sender takes the next frame, and Revc is called again.          *)
Fairness ==
  /\ WF_vars(Send)
  /\ WF_vars(\E k \in DOMAIN net : Receive(k))

FairSpec == Spec /\ Fairness

-----------------------------------------------------------------------------

(* A frame is whole when every position of it holds its data.              *)
Whole(f) == f.data = 0 .. f.size - 1

(* The receiver hands on whole frames only.                                *)
WholeFrames == \A f \in out : Whole(f)

(* No write ever misses the slot table or the data of a slot.              *)
NoStrayWrite == wild = {}

(* Once the network is empty and the sender waits, every frame sent has    *)
(* been handed on.                                                         *)
Idle == call = NoCall /\ net = <<>>
DrainedMeansShown == Idle => lastpacketseqnum = count

(* The receiver never runs more than SkipRounds - Lag frames ahead of the  *)
(* sender, although a catch-up moves over numbers not sent yet.            *)
NoRunaway == wild = {} => lastpacketseqnum <= count + SkipRounds - Lag

(* Every frame sent is handed on in the end.                               *)
EveryFrameShown ==
  \A n \in 1 .. MaxFrames :
    count = n ~> (\E f \in out : f.seqnum = n /\ Whole(f))

(* The projection keeps the promise of FrameDisplay.                       *)
Display == INSTANCE FrameDisplay WITH
  taken <- count, horizon <- lastpacketseqnum,
  shown <- {f.seqnum : f \in out}, broken <- (wild # {})

DisplaySpec == Display!DisplaySpec

=============================================================================
