------------------------------ MODULE UdpSender ------------------------------
(***************************************************************************)
(* The sending end of the projection: udp_send of src/net/udp.c, which     *)
(* cuts one frame into datagrams of at most SplitSize positions and sends  *)
(* them one after the other.  A call is the state of udp_send between two  *)
(* calls of sendto: the length of the frame and the fragment that is next. *)
(***************************************************************************)
EXTENDS Integers, Network

CONSTANTS
  SplitSize,    \* RTP_SPLIT_PACKSIZE (1300)
  FrameSizes,   \* the lengths a JPEG file may have
  HeaderJunk,   \* what the stack may hold where m_usPayloadSize is
  MaxFrames     \* bound: frames sent

ASSUME SenderConstants ==
  /\ SplitSize \in Nat \ {0}
  /\ FrameSizes \subseteq Nat \ {0}
  /\ HeaderJunk \subseteq Nat
  /\ MaxFrames \in Nat

VARIABLES
  count,   \* the number of the last frame
  call     \* the call of udp_send in progress, or NoCall

svars == <<count, call>>

NoCall == [nLen |-> 0, i |-> 0]

SenderInit == count = 0 /\ call = NoCall

(* Mutant: rounds up when nothing is left over.                            *)
TotalFragment_OneMore(nLen) == (nLen + SplitSize) \div SplitSize

TotalFragment(nLen) == (nLen + SplitSize - 1) \div SplitSize

(* Mutant: every fragment is taken for a full one.                         *)
Body_Full(nLen, i) == SplitSize

(* Fragment i carries SplitSize positions, the last one what is left.      *)
Body(nLen, i) ==
  IF i < TotalFragment(nLen) - 1 THEN SplitSize ELSE nLen - i * SplitSize

(* Mutant: m_usFragOffset is never set.                                    *)
Fragment_NoOffset(s, nLen, i, payload) ==
  [seq |-> s, total |-> TotalFragment(nLen), size |-> nLen,
   offset |-> 0, payload |-> payload, body |-> Body(nLen, i)]

Fragment(s, nLen, i, payload) ==
  [seq |-> s, total |-> TotalFragment(nLen), size |-> nLen,
   offset |-> i * SplitSize, payload |-> payload, body |-> Body(nLen, i)]

(* udp_send is called with the next frame.                                 *)
UdpSend(nLen) ==
  /\ call = NoCall
  /\ count < MaxFrames
  /\ count' = count + 1
  /\ call' = [nLen |-> nLen, i |-> 0]
  /\ UNCHANGED <<net, dups>>

(* A frame that fits in one datagram: the header is copied out before      *)
(* m_usPayloadSize is set, so it holds what was on the stack.              *)
SendOnly ==
  /\ call # NoCall
  /\ TotalFragment(call.nLen) = 1
  /\ \E junk \in HeaderJunk : Transmit(Fragment(count, call.nLen, 0, junk))
  /\ call' = NoCall
  /\ count' = count

(* Mutant: the loop ends one fragment early.                               *)
SendMiddle_OneShort ==
  /\ call # NoCall
  /\ call.i < TotalFragment(call.nLen) - 2
  /\ Transmit(Fragment(count, call.nLen, call.i, SplitSize))
  /\ call' = [call EXCEPT !.i = @ + 1]
  /\ count' = count

(* One round of the loop over all fragments but the last.                  *)
SendMiddle ==
  /\ call # NoCall
  /\ call.i < TotalFragment(call.nLen) - 1
  /\ Transmit(Fragment(count, call.nLen, call.i, SplitSize))
  /\ call' = [call EXCEPT !.i = @ + 1]
  /\ count' = count

SendLast ==
  /\ call # NoCall
  /\ TotalFragment(call.nLen) > 1
  /\ call.i = TotalFragment(call.nLen) - 1
  /\ Transmit(Fragment(count, call.nLen, call.i, Body(call.nLen, call.i)))
  /\ call' = NoCall
  /\ count' = count

SendNext == SendOnly \/ SendMiddle \/ SendLast

SenderStep == SendNext \/ \E nLen \in FrameSizes : UdpSend(nLen)

=============================================================================
