---------------------------- MODULE MCUdpReceiver ----------------------------
(* A receiver with a small table, fed with every datagram of a few frames  *)
(* in every order, any number of times.                                    *)
EXTENDS UdpReceiverOpen

CONSTANTS MaxSeq    \* frames 1 .. MaxSeq

(* Frames with an odd number take two datagrams of one position each, the  *)
(* others take one.                                                        *)
Pieces(s) == 1 + (s % 2)

MCArriving ==
  UNION {[seq : {s}, total : {Pieces(s)}, size : {Pieces(s)},
          offset : 0 .. Pieces(s) - 1, payload : {1}, body : {1}]
         : s \in 1 .. MaxSeq}

=============================================================================
