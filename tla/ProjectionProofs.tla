-------------------------- MODULE ProjectionProofs ---------------------------
(***************************************************************************)
(* Theorems about the projection as a whole, for frames of any length and  *)
(* every size of the table.                                                *)
(*                                                                         *)
(* On any network that only loses, doubles and reorders what was sent, the *)
(* receiver never runs away from the sender, and the projection keeps the  *)
(* promise of FrameDisplay.  The receiver's own invariant, IInv, comes     *)
(* from UdpReceiverProofs, where any datagram may arrive.  Here a datagram *)
(* has been sent, so no number in the network or in the table is past the  *)
(* sender's.                                                               *)
(*                                                                         *)
(* On a network that loses, doubles and reorders nothing, every frame is   *)
(* handed on and is whole.  That argument follows a position in the stream *)
(* of frames: that of the sender, and from datagram to datagram back to    *)
(* that of the receiver.  Its lemmas allow for several senders, one after  *)
(* the other, and for receivers that come late: ProjectionRestartProofs    *)
(* builds on them.                                                         *)
(***************************************************************************)
EXTENDS Projection, UdpReceiverProofs, SequenceTheorems

Within(p, K) == \A i \in Slots : p[i].isUse => p[i].seqnum <= K

(* How far a catch-up may get when no frame past K was sent.               *)
Bound(K) == K + SkipRounds - Lag

(* What a call of Revc that strays nowhere leaves.                         *)
SettledWithin(K) ==
  /\ Within(packet', K)
  /\ \A f \in out' : f.seqnum <= K
  /\ lastpacketseqnum' <= Bound(K)

-----------------------------------------------------------------------------
(* The receiver *)

LEMMA ReleaseWithin ==
  ASSUME NEW p \in Table, NEW S, NEW K \in Nat, Within(p, K)
  PROVE  Within(Release(p, S), K)
BY ReleaseType DEF Within

LEMMA CatchUpWithinBound ==
  ASSUME NEW p \in Table, NEW l \in Nat, NEW K \in Nat, Within(p, K),
         CatchUp(p, l), l + Lag <= K
  PROVE  SettledWithin(K)
<1>1. PICK n \in l .. l + SkipRounds :
        Settle(Release(p, {i \in Slots : p[i].isUse
                                         /\ p[i].seqnum \in l + 1 .. n}),
               n,
               {Frame(p[i]) : i \in {j \in Slots : p[j].isUse
                                         /\ p[j].seqnum \in l + 1 .. n}})
  BY DEF CatchUp, CatchUpWithin
<1> DEFINE ready == {i \in Slots : p[i].isUse /\ p[i].seqnum \in l + 1 .. n}
<1>2. /\ packet' = Release(p, ready) /\ lastpacketseqnum' = n
      /\ out' = {Frame(p[i]) : i \in ready}
  BY <1>1 DEF Settle
<1>3. \A i \in ready : Frame(p[i]).seqnum <= K
  BY DEF Frame, Within
<1> HIDE DEF ready
<1>4. n <= Bound(K)
  BY ReceiverConstants DEF Bound
<1>5. QED
  BY <1>2, <1>3, <1>4, ReleaseWithin DEF SettledWithin

LEMMA HandOnWithin ==
  ASSUME NEW p \in Table, NEW l \in Nat, NEW K \in Nat, NEW i \in Slots,
         Within(p, K), p[i].seqnum <= K, l <= Bound(K), Lag <= SkipRounds,
         HandOn(p, l, i)
  PROVE  SettledWithin(K)
<1>1. p[i].seqnum \in Nat
  BY DEF Table, Slot
<1>2. CASE Settle(Release(p, {i}), p[i].seqnum, {Frame(p[i])})
  <2>1. p[i].seqnum <= Bound(K)
    BY <1>1, ReceiverConstants DEF Bound
  <2>2. QED
    BY <1>2, <2>1, ReleaseWithin DEF Settle, SettledWithin, Frame
<1>3. CASE l + Lag < p[i].seqnum /\ CatchUp(Release(p, Holding(p, l + 1)), l + 1)
  <2>1. l + 1 + Lag <= K
    BY <1>1, <1>3, ReceiverConstants
  <2>2. QED
    BY <1>3, <2>1, ReleaseType, ReleaseWithin, CatchUpWithinBound
<1>4. CASE Settle(p, l, {})
  BY <1>4 DEF Settle, SettledWithin
<1>5. QED
  BY <1>2, <1>3, <1>4 DEF HandOn

LEMMA FileWithin ==
  ASSUME NEW p \in Table, NEW l \in Nat, NEW K \in Nat, NEW i \in Slots,
         NEW slot \in Slot, NEW m \in Datagram,
         Within(p, K), slot.seqnum <= K, l <= Bound(K), Lag <= SkipRounds,
         File(p, l, i, slot, m)
  PROVE  SettledWithin(K)
<1> DEFINE q == [p EXCEPT ![i] = slot]
<1>1. q \in Table /\ Within(q, K) /\ q[i].seqnum <= K
  BY DEF Table, Within
<1>2. HandOn(q, l, i) \/ Settle(q, l, {})
  BY DEF File
<1> HIDE DEF q
<1>3. QED
  BY <1>1, <1>2, HandOnWithin DEF Settle, SettledWithin

LEMMA AheadWithin ==
  ASSUME IInv, NEW m \in Datagram, ~ Rejected(m), NEW K \in Nat, m.seq <= K,
         Within(packet, K)
  PROVE  /\ TableAfterAhead(m) \in Table
         /\ Within(TableAfterAhead(m), K)
         /\ LastAfterAhead(m) \in Nat
         /\ Lag <= SkipRounds => LastAfterAhead(m) <= Bound(K)
<1>1. /\ packet \in Table /\ lastpacketseqnum \in Nat /\ m.seq \in Nat
      /\ TableAfterAhead(m) \in Table
      /\ LastAfterAhead(m) \in Nat /\ LastAfterAhead(m) <= m.seq
  BY AheadKeeps DEF IInv, ReceiverTypeOK, Table, Datagram
<1>2. Within(TableAfterAhead(m), K)
  BY <1>1, ReleaseWithin DEF TableAfterAhead
<1>3. Lag <= SkipRounds => LastAfterAhead(m) <= Bound(K)
  BY <1>1, ReceiverConstants DEF Bound
<1>4. QED
  BY <1>1, <1>2, <1>3

(* A call of Revc on a datagram of a frame up to K.                        *)
LEMMA RevcWithin ==
  ASSUME IInv, NEW m \in Datagram, Revc(m), NEW K \in Nat, m.seq <= K,
         Within(packet, K), wild = {} => lastpacketseqnum <= Bound(K),
         Lag <= SkipRounds
  PROVE  /\ Within(packet', K)
         /\ \A f \in out' : f.seqnum <= K
         /\ wild' = {} => lastpacketseqnum' <= Bound(K)
<1> DEFINE p == TableAfterAhead(m)
           l == LastAfterAhead(m)
<1>1. CASE Ignore(m)
  BY <1>1 DEF Ignore
<1>2. CASE ~ Rejected(m)
  <2>1. p \in Table /\ Within(p, K) /\ l \in Nat
    BY <1>2, AheadWithin
  <2>2. l <= Bound(K)
    BY <1>2, AheadWithin
  <2> HIDE DEF p, l
  <2>3. ASSUME NEW size, HeapOverrun(p, l, size, m)
        PROVE  /\ Within(packet', K) /\ out' = {} /\ wild' # {}
    BY <2>1, <2>3 DEF HeapOverrun, Settle
  <2>4. CASE AddToFrame(m)
    <3>1. PICK i \in Holding(p, m.seq) :
            \/ File(p, l, i, Added(p[i], m), m)
            \/ HeapOverrun(p, l, p[i].size, m)
      BY <2>4 DEF AddToFrame, p, l
    <3>2. /\ i \in Slots /\ p[i] \in Slot /\ p[i].seqnum <= K
          /\ Added(p[i], m) \in Slot /\ Added(p[i], m).seqnum = p[i].seqnum
      BY <2>1, AddedType DEF Holding, Table
    <3>3. File(p, l, i, Added(p[i], m), m) => SettledWithin(K)
      BY <2>1, <2>2, <3>2, FileWithin
    <3>4. QED
      BY <2>3, <3>1, <3>3 DEF SettledWithin
  <2>5. CASE StartFrame(m)
    <3>1. PICK i \in Unused(p) :
            \/ File(p, l, i, Taken(p[i], m), m)
            \/ HeapOverrun(p, l, m.size, m)
      BY <2>5 DEF StartFrame, p, l
    <3>2. /\ i \in Slots /\ p[i] \in Slot
          /\ Taken(p[i], m) \in Slot /\ Taken(p[i], m).seqnum = m.seq
      BY <2>1, TakenType DEF Unused, Table
    <3>3. File(p, l, i, Taken(p[i], m), m) => SettledWithin(K)
      BY <2>1, <2>2, <3>2, FileWithin
    <3>4. QED
      BY <2>3, <3>1, <3>3 DEF SettledWithin
  <2>6. CASE NoSlotLeft(m)
    <3>1. packet' = p /\ out' = {} /\ wild' # {}
      BY <2>6, NoSlotLeftSettles DEF p, IInv
    <3>2. QED
      BY <2>1, <3>1
  <2>7. QED
    BY <1>2, <2>4, <2>5, <2>6 DEF Revc, Ignore
<1>3. QED
  BY <1>1, <1>2 DEF Revc, AddToFrame, StartFrame, NoSlotLeft

-----------------------------------------------------------------------------
(* The sender *)

(* Every fragment of a frame begins before the frame ends.                 *)
LEMMA FragmentsFit ==
  ASSUME NEW nLen \in Nat \ {0}
  PROVE  /\ TotalFragment(nLen) \in Nat \ {0}
         /\ \A i \in Nat : i < TotalFragment(nLen) => i * SplitSize < nLen
<1> DEFINE t == TotalFragment(nLen)
<1>1. SplitSize \in Nat \ {0}
  BY SenderConstants
<1>2. /\ t \in Nat /\ t * SplitSize <= nLen + SplitSize - 1
      /\ nLen + SplitSize - 1 < t * SplitSize + SplitSize
  BY <1>1 DEF TotalFragment
<1> HIDE DEF t
<1>3. t # 0
  BY <1>1, <1>2
<1>4. ASSUME NEW i \in Nat, i < t
      PROVE  i * SplitSize < nLen
  <2> DEFINE d == t - i - 1
  <2>1. d \in Nat /\ t = i + 1 + d
    BY <1>2, <1>4
  <2> HIDE DEF d
  <2>2. t * SplitSize = i * SplitSize + SplitSize + d * SplitSize
    BY <1>1, <2>1
  <2>3. d * SplitSize \in Nat /\ i * SplitSize \in Nat
    BY <1>1, <2>1
  <2>4. QED
    BY <1>1, <1>2, <2>2, <2>3
<1>5. QED
  BY <1>2, <1>3, <1>4 DEF t

CallType ==
  call = NoCall \/
  (call \in [nLen : Nat \ {0}, i : Nat] /\ call.i < TotalFragment(call.nLen))

SenderInv == count \in Nat /\ CallType

(* A datagram on its way belongs to a frame that was taken.                *)
Sent(K) == {d \in Datagram : d.seq <= K}

NetInv == net \in Seq(Sent(count))

LEMMA FragmentType ==
  ASSUME SenderInv, call # NoCall, NEW payload \in Nat
  PROVE  /\ Fragment(count, call.nLen, call.i, payload) \in Datagram
         /\ Fragment(count, call.nLen, call.i, payload).seq = count
<1>1. /\ call.nLen \in Nat \ {0} /\ call.i \in Nat
      /\ call.i < TotalFragment(call.nLen) /\ count \in Nat
  BY DEF SenderInv, CallType
<1>2. /\ TotalFragment(call.nLen) \in Nat /\ SplitSize \in Nat
      /\ call.i * SplitSize < call.nLen /\ call.i * SplitSize \in Nat
  BY <1>1, FragmentsFit, SenderConstants
<1>3. Body(call.nLen, call.i) \in Nat
  BY <1>1, <1>2 DEF Body
<1>4. QED
  BY <1>1, <1>2, <1>3 DEF Fragment, Datagram

LEMMA TransmitType ==
  ASSUME NetInv, NEW d \in Sent(count), Transmit(d), count' = count
  PROVE  NetInv'
<1>1. net' \in Seq(Sent(count))
  BY AppendProperties DEF NetInv, Transmit
<1>2. QED
  BY <1>1 DEF NetInv

LEMMA DeliversType ==
  ASSUME NetInv, NEW k \in DOMAIN net, Delivers(k), count' = count
  PROVE  NetInv' /\ net[k] \in Sent(count)
<1> DEFINE S == Sent(count)
<1>1. net \in Seq(S) /\ Sent(count)' = S
  BY DEF NetInv, Sent
<1> HIDE DEF S
<1>2. k \in 1 .. Len(net) /\ Len(net) \in Nat /\ \A j \in 1 .. Len(net) : net[j] \in S
  BY <1>1, LenProperties, ElementOfSeq
<1>3. SubSeq(net, 1, k - 1) \in Seq(S) /\ SubSeq(net, k + 1, Len(net)) \in Seq(S)
  BY <1>2, SubSeqProperties
<1>4. RemoveAt(net, k) \in Seq(S)
  BY <1>3, ConcatProperties DEF RemoveAt
<1>5. net' \in Seq(S)
  BY <1>1, <1>4 DEF Delivers
<1>6. QED
  BY <1>1, <1>2, <1>5 DEF NetInv, S

LEMMA SendKeeps ==
  ASSUME SenderInv, NetInv, SenderStep
  PROVE  SenderInv' /\ NetInv' /\ count <= count'
<1>1. ASSUME NEW nLen \in FrameSizes, UdpSend(nLen)
      PROVE  SenderInv' /\ NetInv' /\ count <= count'
  <2>1. nLen \in Nat \ {0} /\ 0 < TotalFragment(nLen)
    BY SenderConstants, FragmentsFit
  <2>2. SenderInv' /\ count \in Nat /\ count' = count + 1 /\ net' = net
    BY <1>1, <2>1 DEF UdpSend, SenderInv, CallType
  <2>3. Sent(count) \subseteq Sent(count)'
    BY <2>2 DEF Sent, Datagram
  <2>4. QED
    BY <2>2, <2>3, SeqMonotonic DEF NetInv
<1>2. ASSUME NEW payload \in Nat, count' = count, call # NoCall,
             Transmit(Fragment(count, call.nLen, call.i, payload))
      PROVE  NetInv' /\ count <= count'
  <2>1. Fragment(count, call.nLen, call.i, payload) \in Sent(count)
    BY <1>2, FragmentType DEF Sent, SenderInv
  <2>2. QED
    BY <1>2, <2>1, TransmitType DEF SenderInv
<1>3. CASE SendOnly
  <2>1. PICK junk \in HeaderJunk : Transmit(Fragment(count, call.nLen, 0, junk))
    BY <1>3 DEF SendOnly
  <2>2. call.i = 0 /\ junk \in Nat /\ count' = count /\ call' = NoCall
    BY <1>3, SenderConstants DEF SendOnly, SenderInv, CallType
  <2>3. QED
    BY <1>2, <1>3, <2>1, <2>2 DEF SendOnly, SenderInv, CallType
<1>4. CASE SendMiddle
  <2>1. SplitSize \in Nat /\ SenderInv'
    BY <1>4, SenderConstants, FragmentsFit DEF SendMiddle, SenderInv, CallType
  <2>2. QED
    BY <1>2, <1>4, <2>1 DEF SendMiddle
<1>5. CASE SendLast
  <2>1. Body(call.nLen, call.i) \in Nat
    BY <1>5, FragmentType DEF SendLast, Fragment, Datagram
  <2>2. QED
    BY <1>2, <1>5, <2>1 DEF SendLast, SenderInv, CallType
<1>6. QED
  BY <1>1, <1>3, <1>4, <1>5 DEF SenderStep, SendNext

-----------------------------------------------------------------------------
(* The invariant of the projection *)

PInv ==
  /\ SenderInv /\ NetInv /\ IInv
  /\ Within(packet, count)
  /\ NoRunaway

LEMMA ProjectionStart ==
  ASSUME Init
  PROVE  PInv
<1>1. SenderInv /\ count = 0
  BY DEF Init, SenderInit, SenderInv, CallType
<1>2. NetInv
  BY EmptySeq DEF Init, NetworkInit, NetInv
<1>3. IInv
  BY InvariantStart DEF Init
<1>4. Within(packet, count)
  BY DEF Init, ReceiverInit, Within, EmptySlot
<1>5. NoRunaway
  BY <1>1, ReceiverConstants, ProjectionConstants DEF Init, ReceiverInit, NoRunaway
<1>6. QED
  BY <1>1, <1>2, <1>3, <1>4, <1>5 DEF PInv

LEMMA BoundGrows ==
  ASSUME NEW K \in Nat, NEW L \in Nat, K <= L, NEW l \in Nat, l <= Bound(K)
  PROVE  l <= Bound(L)
BY ReceiverConstants DEF Bound

LEMMA SendStep ==
  ASSUME PInv, Send
  PROVE  PInv'
<1>1. /\ SenderInv' /\ NetInv' /\ count <= count' /\ count \in Nat /\ count' \in Nat
      /\ UNCHANGED rvars
  BY SendKeeps DEF Send, PInv, SenderInv
<1>2. IInv'
  BY <1>1 DEF PInv, IInv, ReceiverTypeOK, UniqueSeq, rvars
<1>3. \A i \in Slots : packet[i].seqnum \in Nat
  BY DEF PInv, IInv, ReceiverTypeOK, Slot
<1>4. Within(packet, count)'
  BY <1>1, <1>3 DEF PInv, Within, rvars
<1>5. NoRunaway'
  <2>1. wild' = wild /\ lastpacketseqnum' = lastpacketseqnum
    BY <1>1 DEF rvars
  <2>2. SUFFICES ASSUME wild = {}
                 PROVE  lastpacketseqnum <= Bound(count')
    BY <2>1 DEF NoRunaway, Bound
  <2>3. lastpacketseqnum \in Nat /\ lastpacketseqnum <= Bound(count)
    BY <2>2 DEF PInv, IInv, ReceiverTypeOK, NoRunaway, Bound
  <2>4. QED
    BY <1>1, <2>3, BoundGrows
<1>6. QED
  BY <1>1, <1>2, <1>4, <1>5 DEF PInv

(* What Receive does, for the invariant and for the refinement.            *)
LEMMA ReceiveStep ==
  ASSUME PInv, NEW k \in DOMAIN net, Receive(k)
  PROVE  /\ PInv'
         /\ count' = count /\ wild \subseteq wild'
         /\ \A f \in out' : /\ f.seqnum \in 1 .. count
                            /\ lastpacketseqnum < f.seqnum
                            /\ f.seqnum <= lastpacketseqnum'
         /\ wild' = {} => lastpacketseqnum <= lastpacketseqnum'
<1> DEFINE m == net[k]
<1>1. Revc(m) /\ Delivers(k) /\ UNCHANGED svars /\ count' = count
  BY DEF Receive, svars
<1>2. NetInv' /\ m \in Datagram /\ m.seq <= count
  BY <1>1, DeliversType DEF PInv, Sent
<1> HIDE DEF m
<1>3. SenderInv' /\ count \in Nat
  BY <1>1 DEF PInv, SenderInv, CallType, svars
<1>4. IInv'
  BY <1>1, <1>2, RevcKeepsInvariant DEF PInv
<1>5. wild \subseteq wild'
  <2>1. Ignore(m) => wild \subseteq wild'
    BY DEF Ignore
  <2>2. AddToFrame(m) => wild \subseteq wild'
    BY DEF AddToFrame, File, HeapOverrun
  <2>3. StartFrame(m) => wild \subseteq wild'
    BY DEF StartFrame, File, HeapOverrun
  <2>4. NoSlotLeft(m) => wild \subseteq wild'
    BY DEF NoSlotLeft, SlotOverrun
  <2>5. QED
    BY <1>1, <2>1, <2>2, <2>3, <2>4 DEF Revc
<1>6. /\ Within(packet', count)
      /\ \A f \in out' : f.seqnum <= count
      /\ wild' = {} => lastpacketseqnum' <= Bound(count)
  BY <1>1, <1>2, <1>3, RevcWithin, ProjectionConstants DEF PInv, NoRunaway, Bound
<1>7. /\ \A f \in out' : lastpacketseqnum < f.seqnum
                         /\ f.seqnum <= lastpacketseqnum'
      /\ wild' = {} => lastpacketseqnum <= lastpacketseqnum'
  BY <1>1, <1>2, RevcInOrder DEF PInv
<1>8. \A f \in out' : f.seqnum \in 1 .. count
  <2>1. lastpacketseqnum \in Nat /\ \A f \in out' : f.seqnum \in Nat
    BY <1>4 DEF PInv, IInv, ReceiverTypeOK
  <2>2. QED
    BY <1>3, <1>6, <1>7, <2>1
<1>9. PInv'
  BY <1>1, <1>2, <1>3, <1>4, <1>6 DEF PInv, Within, NoRunaway, Bound
<1>10. QED
  BY <1>1, <1>5, <1>7, <1>8, <1>9

LEMMA ProjectionInvariant == Spec => []PInv
<1>1. PInv /\ [Next]_vars => PInv'
  <2>1. SUFFICES ASSUME PInv, [Next]_vars
                 PROVE  PInv'
    OBVIOUS
  <2>2. CASE UNCHANGED vars
    BY <2>1, <2>2
       DEF vars, PInv, SenderInv, CallType, NetInv, IInv, ReceiverTypeOK,
           UniqueSeq, Within, NoRunaway
  <2>3. QED
    BY <2>1, <2>2, SendStep, ReceiveStep DEF Next
<1>2. QED
  BY <1>1, ProjectionStart, PTL DEF Spec

-----------------------------------------------------------------------------
(* The theorems *)

(* However much is lost, doubled or overtaken, the number up to which the  *)
(* receiver rejects stays within SkipRounds - Lag of the sender's, so that *)
(* a sender that goes on is heard again.                                   *)
THEOREM NoRunawayCorrect == Spec => []NoRunaway
<1>1. PInv => NoRunaway
  BY DEF PInv
<1>2. QED
  BY <1>1, ProjectionInvariant, PTL

(* udp_send, the network and Revc together implement FrameDisplay: what is *)
(* shown was taken, and is shown once and in the order it was taken.       *)
THEOREM DisplayCorrect == Spec => DisplaySpec
<1>1. Init => Display!DisplayInit
  BY DEF Init, SenderInit, ReceiverInit, Display!DisplayInit
<1>2. ASSUME PInv, PInv', [Next]_vars
      PROVE  [Display!DisplayNext]_(Display!dvars)
  <2>1. CASE UNCHANGED vars
    BY <2>1 DEF vars, Display!dvars
  <2>2. CASE Send
    <3>1. UNCHANGED rvars /\ (count' = count \/ count' = count + 1)
      BY <2>2
         DEF Send, SenderStep, SendNext, SendOnly, SendMiddle, SendLast, UdpSend
    <3>2. QED
      BY <3>1 DEF rvars, Display!dvars, Display!DisplayNext, Display!Take
  <2>3. ASSUME NEW k \in DOMAIN net, Receive(k)
        PROVE  Display!DisplayNext
    <3>1. CASE wild' # {}
      BY <3>1 DEF Display!DisplayNext, Display!Break
    <3>2. CASE wild' = {}
      <4>1. wild = {} /\ count' = count /\ lastpacketseqnum <= lastpacketseqnum'
            /\ \A f \in out' : /\ f.seqnum \in 1 .. count
                               /\ lastpacketseqnum < f.seqnum
                               /\ f.seqnum <= lastpacketseqnum'
        BY <1>2, <2>3, <3>2, ReceiveStep
      <4>2. lastpacketseqnum' \in Nat
        BY <1>2 DEF PInv, IInv, ReceiverTypeOK
      <4>3. Display!Show
        BY <3>2, <4>1, <4>2 DEF Display!Show
      <4>4. QED
        BY <4>3 DEF Display!DisplayNext
    <3>3. QED
      BY <3>1, <3>2
  <2>4. QED
    BY <1>2, <2>1, <2>2, <2>3 DEF Next
<1>3. QED
  BY <1>1, <1>2, ProjectionInvariant, PTL DEF Spec, DisplaySpec, Display!DisplaySpec

-----------------------------------------------------------------------------
(* A network that does nothing but carry *)

(* The network does nothing but carry, the counter of datagrams is wide    *)
(* enough, and a frame of one datagram announces what it carries.          *)
Perfect ==
  /\ ~ Lossy /\ ~ Reorders /\ MaxDups = 0
  /\ Window > 0
  /\ \A n \in FrameSizes : /\ TotalFragment(n) < PackMod
                           /\ TotalFragment(n) = 1 => HeaderJunk \subseteq {n}

(* The socket of the receiver has room for what is sent next.              *)
Room == call # NoCall => Len(net) < Capacity

(* A position: so much of frame s, whose length is n, is behind it.        *)
At(s, n, o) == [seq |-> s, size |-> IF o = 0 THEN 0 ELSE n, offset |-> o]

Start == At(1, 0, 0)

Before(d) == At(d.seq, d.size, d.offset)

After(d) == IF d.offset + d.payload = d.size
            THEN At(d.seq + 1, 0, 0)
            ELSE At(d.seq, d.size, d.offset + d.payload)

(* A datagram as udp_send makes it, with the right payload.                *)
Piece(d) ==
  \E n \in FrameSizes : \E i \in 0 .. TotalFragment(n) - 1 :
    /\ d.seq \in Nat \ {0}
    /\ d = Fragment(d.seq, n, i, Body(n, i))

SenderAt == IF call = NoCall THEN At(count + 1, 0, 0)
            ELSE At(count, call.nLen, call.i * SplitSize)

(* The position before datagram k of q, when the sender is at at.          *)
Pos(q, at, k) == IF k <= Len(q) THEN Before(q[k]) ELSE at

(* The datagrams of q lead from one to the next and to at.  life says      *)
(* which sender is meant.  A new one begins again where a frame ends, or,  *)
(* when the one before is among dead, anywhere.                            *)
Leads(q, at, life, dead, k) ==
  \/ Pos(q, at, k + 1) = After(q[k])
  \/ /\ Pos(q, at, k + 1) = Start
     /\ After(q[k]).offset = 0 \/ life[k] \in dead
     /\ life[k] < life[k + 1]

Path(q, at, life, R, dead) ==
  /\ life \in [1 .. Len(q) + 1 -> 0 .. R]
  /\ \A k \in 1 .. Len(q) :
       life[k] <= life[k + 1] /\ Leads(q, at, life, dead, k)

(* The slot has what is behind position c, and nothing else.               *)
Collects(slot, c) ==
  /\ slot.seqnum = c.seq /\ slot.size = c.size
  /\ c.offset > 0 /\ slot.data = 0 .. c.offset - 1
  /\ slot.recvedpacks * SplitSize = c.offset

(* The receiver is at c, which sender b sent, and no frame was ever cut:   *)
(* every slot in use is stale or collects the frame at c, and of the stale *)
(* ones each is the work of a sender that has passed lastpacketseqnum.     *)
Passed(c) == lastpacketseqnum < c.seq
             \/ (lastpacketseqnum = c.seq /\ c.offset > 0)

CleanTable(c) ==
  /\ c.seq <= lastpacketseqnum + 1
  /\ \A i \in Slots : packet[i].isUse =>
       \/ Stale(i)
       \/ c.seq = lastpacketseqnum + 1 /\ Collects(packet[i], c)
  /\ c.offset > 0 /\ lastpacketseqnum <= c.seq => Holding(packet, c.seq) # {}

CleanState(c, b) ==
  /\ wild = {} => /\ CleanTable(c)
                  /\ Cardinality(StaleSlots) <= b
                  /\ ~ Passed(c) => Cardinality(StaleSlots) < b
  /\ wild # {} => b > 0
  /\ (\E w \in wild : w.at = "slot") => b >= NumSlots

CleanReceiver(c, b) == CleanState(c, b) /\ (wild = {} => WholeFrames)

(* The receiver is at c of the only sender, and came at any time.          *)
Fresh == packet = [i \in Slots |-> EmptySlot] /\ lastpacketseqnum = 0

(* A slot of a frame whose beginning the receiver has missed.              *)
Cut(slot, c) ==
  /\ ~ slot.isFull /\ slot.size = c.size
  /\ slot.recvedpacks * SplitSize < c.offset

JoinTable(c) ==
  /\ \A i \in Slots : packet[i].isUse =>
       \/ /\ packet[i].seqnum < c.seq
          /\ packet[i].isFull => Whole(Frame(packet[i]))
       \/ /\ packet[i].seqnum = c.seq /\ lastpacketseqnum <= c.seq
          /\ c.offset > 0
          /\ Collects(packet[i], c) \/ Cut(packet[i], c)
  /\ c.offset > 0 /\ lastpacketseqnum <= c.seq => Holding(packet, c.seq) # {}

JoinReceiver(c) ==
  wild = {} => WholeFrames /\ (Fresh \/ JoinTable(c))

(* The invariants                                                          *)
SenderOK ==
  /\ count \in Nat
  /\ \/ call = NoCall
     \/ /\ call \in [nLen : FrameSizes, i : Nat]
        /\ call.i < TotalFragment(call.nLen) /\ count > 0

Base ==
  /\ SenderOK /\ IInv /\ dups = 0
  /\ net \in Seq(Datagram)
  /\ \A k \in 1 .. Len(net) : Piece(net[k])

ReceiverAt == Pos(net, SenderAt, 1)

Clean(R) ==
  \E life \in [1 .. Len(net) + 1 -> 0 .. R] :
    Path(net, SenderAt, life, R, {}) /\ CleanReceiver(ReceiverAt, life[1])

Joined ==
  \E life \in [1 .. Len(net) + 1 -> 0 .. 0] :
    Path(net, SenderAt, life, 0, {}) /\ JoinReceiver(ReceiverAt)

-----------------------------------------------------------------------------
(* The datagrams of a frame *)

(* A product that is smaller has the smaller factor, and the other way.    *)
LEMMA TimesSmaller ==
  ASSUME NEW u \in Nat, NEW v \in Nat
  PROVE  u < v <=> u * SplitSize < v * SplitSize
<1>1. SplitSize \in Nat \ {0}
  BY SenderConstants
<1>2. ASSUME u < v
      PROVE  u * SplitSize < v * SplitSize
  <2> DEFINE w == v - u
  <2>1. w \in Nat \ {0} /\ v = u + w
    BY <1>2
  <2> HIDE DEF w
  <2>2. v * SplitSize = u * SplitSize + w * SplitSize
    BY <1>1, <2>1
  <2>3. w * SplitSize > 0 /\ u * SplitSize \in Nat /\ w * SplitSize \in Nat
    BY <1>1, <2>1
  <2>4. QED
    BY <2>2, <2>3
<1>3. ASSUME v <= u
      PROVE  v * SplitSize <= u * SplitSize
  <2> DEFINE w == u - v
  <2>1. w \in Nat /\ u = v + w
    BY <1>3
  <2> HIDE DEF w
  <2>2. u * SplitSize = v * SplitSize + w * SplitSize
    BY <1>1, <2>1
  <2>3. v * SplitSize \in Nat /\ w * SplitSize \in Nat
    BY <1>1, <2>1
  <2>4. QED
    BY <2>2, <2>3
<1>4. u * SplitSize \in Nat /\ v * SplitSize \in Nat
  BY <1>1
<1>5. QED
  BY <1>2, <1>3, <1>4

(* The pieces of a frame lie side by side and cover it.                    *)
LEMMA PiecesTile ==
  ASSUME NEW n \in FrameSizes, NEW i \in Nat, i < TotalFragment(n)
  PROVE  /\ n \in Nat \ {0} /\ TotalFragment(n) \in Nat \ {0}
         /\ SplitSize \in Nat \ {0} /\ i * SplitSize \in Nat
         /\ Body(n, i) \in Nat \ {0}
         /\ i * SplitSize + Body(n, i) <= n
         /\ i * SplitSize + Body(n, i) = n <=> i = TotalFragment(n) - 1
         /\ i # TotalFragment(n) - 1 =>
              i * SplitSize + Body(n, i) = (i + 1) * SplitSize
<1>1. /\ n \in Nat \ {0} /\ SplitSize \in Nat \ {0}
  BY SenderConstants
<1>2. TotalFragment(n) \in Nat \ {0} /\ i * SplitSize < n
  BY <1>1, FragmentsFit
<1>3. i * SplitSize \in Nat /\ (i + 1) * SplitSize = i * SplitSize + SplitSize
  BY <1>1
<1>4. CASE i = TotalFragment(n) - 1
  BY <1>1, <1>2, <1>3, <1>4 DEF Body
<1>5. CASE i # TotalFragment(n) - 1
  <2>1. i + 1 < TotalFragment(n) /\ i + 1 \in Nat
    BY <1>2, <1>5
  <2>2. (i + 1) * SplitSize < n
    BY <1>1, <2>1, FragmentsFit
  <2>3. Body(n, i) = SplitSize
    BY <1>2, <2>1 DEF Body
  <2>4. QED
    BY <1>1, <1>2, <1>3, <1>5, <2>2, <2>3
<1>6. QED
  BY <1>4, <1>5

(* What the receiver sees of a piece.                                      *)
LEMMA PieceSeen ==
  ASSUME NEW n \in FrameSizes, NEW i \in Nat, i < TotalFragment(n),
         NEW s \in Nat \ {0}, NEW d, d = Fragment(s, n, i, Body(n, i))
  PROVE  /\ d \in Datagram /\ d.seq = s /\ d.size = n
         /\ d.offset = i * SplitSize /\ d.payload = Body(n, i)
         /\ d.total = TotalFragment(n)
         /\ Before(d) = At(s, n, i * SplitSize)
         /\ After(d) = IF i = TotalFragment(n) - 1 THEN At(s + 1, 0, 0)
                       ELSE At(s, n, (i + 1) * SplitSize)
         /\ Copied(d) = i * SplitSize .. i * SplitSize + Body(n, i) - 1
<1> DEFINE o == i * SplitSize
           z == Body(n, i)
<1>1. /\ n \in Nat /\ TotalFragment(n) \in Nat /\ o \in Nat /\ z \in Nat
      /\ o + z = n <=> i = TotalFragment(n) - 1
      /\ i # TotalFragment(n) - 1 => o + z = (i + 1) * SplitSize
  BY PiecesTile
<1> HIDE DEF o, z
<1>2. d = [seq |-> s, total |-> TotalFragment(n), size |-> n,
           offset |-> o, payload |-> z, body |-> z]
  BY DEF Fragment, o, z
<1>3. d \in Datagram
  BY <1>1, <1>2 DEF Datagram
<1>4. Copied(d) = o .. o + z - 1
  BY <1>1, <1>2 DEF Copied
<1>5. After(d) = IF i = TotalFragment(n) - 1 THEN At(s + 1, 0, 0)
                 ELSE At(s, n, (i + 1) * SplitSize)
  BY <1>1, <1>2 DEF After
<1>6. QED
  BY <1>2, <1>3, <1>4, <1>5 DEF Before, o, z

-----------------------------------------------------------------------------
(* The sender *)

LEMMA AtBegin ==
  ASSUME NEW s, NEW n, NEW m
  PROVE  At(s, n, 0) = At(s, m, 0)
BY DEF At

(* A fragment of the call in progress is the piece the sender is at.       *)
LEMMA SenderPiece ==
  ASSUME SenderOK, call # NoCall
  PROVE  LET d == Fragment(count, call.nLen, call.i, Body(call.nLen, call.i))
         IN  /\ d \in Datagram /\ Piece(d) /\ Before(d) = SenderAt
             /\ After(d) = IF call.i = TotalFragment(call.nLen) - 1
                           THEN At(count + 1, 0, 0)
                           ELSE At(count, call.nLen, (call.i + 1) * SplitSize)
<1> DEFINE n == call.nLen
           i == call.i
           d == Fragment(count, n, i, Body(n, i))
<1>1. n \in FrameSizes /\ i \in Nat /\ i < TotalFragment(n) /\ count \in Nat \ {0}
  BY DEF SenderOK
<1>2. SenderAt = At(count, n, i * SplitSize)
  BY DEF SenderAt
<1>3. TotalFragment(n) \in Nat
  BY <1>1, PiecesTile
<1> HIDE DEF n, i
<1>4. /\ d \in Datagram /\ d.seq = count /\ Before(d) = At(count, n, i * SplitSize)
      /\ After(d) = IF i = TotalFragment(n) - 1 THEN At(count + 1, 0, 0)
                    ELSE At(count, n, (i + 1) * SplitSize)
  BY <1>1, PieceSeen
<1>5. i \in 0 .. TotalFragment(n) - 1
  BY <1>1, <1>3
<1>6. Piece(d)
  <2> HIDE DEF d
  <2>1. d = Fragment(d.seq, n, i, Body(n, i))
    BY <1>4 DEF d
  <2>2. QED
    BY <1>1, <1>4, <1>5, <2>1 DEF Piece
<1>7. QED
  BY <1>2, <1>4, <1>6 DEF n, i

(* One step of udp_send puts the piece the sender is at on its way.        *)
LEMMA SenderSends ==
  ASSUME Perfect, Room, SenderOK, net \in Seq(Datagram), SenderStep
  PROVE  /\ SenderOK' /\ dups' = dups
         /\ \/ net' = net /\ SenderAt' = SenderAt
            \/ \E d \in Datagram :
                 /\ Piece(d) /\ Before(d) = SenderAt /\ After(d) = SenderAt'
                 /\ net' = Append(net, d)
<1>1. ASSUME NEW nLen \in FrameSizes, UdpSend(nLen)
      PROVE  SenderOK' /\ dups' = dups /\ net' = net /\ SenderAt' = SenderAt
  <2>1. nLen \in Nat \ {0} /\ 0 < TotalFragment(nLen) /\ SplitSize \in Nat
    BY <1>1, SenderConstants, FragmentsFit
  <2>2. /\ call = NoCall /\ count' = count + 1 /\ call' = [nLen |-> nLen, i |-> 0]
        /\ net' = net /\ dups' = dups /\ count \in Nat
    BY <1>1 DEF UdpSend, SenderOK
  <2>3. call' # NoCall
    BY <2>1, <2>2 DEF NoCall
  <2>4. SenderOK'
    BY <2>1, <2>2 DEF SenderOK
  <2>5. SenderAt' = At(count + 1, nLen, 0)
    BY <2>1, <2>2, <2>3 DEF SenderAt
  <2>6. QED
    BY <2>2, <2>4, <2>5, AtBegin DEF SenderAt
<1> DEFINE n == call.nLen
           i == call.i
           d == Fragment(count, n, i, Body(n, i))
<1>2. ASSUME call # NoCall
      PROVE  /\ n \in FrameSizes /\ i \in Nat /\ i < TotalFragment(n)
             /\ count \in Nat \ {0} /\ n \in Nat \ {0}
             /\ TotalFragment(n) \in Nat /\ SplitSize \in Nat
             /\ call \in [nLen : FrameSizes, i : Nat]
  BY <1>2, PiecesTile DEF SenderOK
<1>3. ASSUME call # NoCall, Transmit(d)
      PROVE  net' = Append(net, d) /\ dups' = dups
  <2>1. ~ (Lossy \/ Len(net) >= Capacity)
    <3>1. Len(net) < Capacity /\ ~ Lossy
      BY <1>3 DEF Room, Perfect
    <3>2. Len(net) \in Nat /\ Capacity \in Nat
      BY LenProperties, NetworkConstants
    <3>3. QED
      BY <3>1, <3>2
  <2>2. QED
    BY <1>3, <2>1 DEF Transmit
<1>4. CASE SendOnly
  <2>1. PICK junk \in HeaderJunk : Transmit(Fragment(count, n, 0, junk))
    BY <1>4 DEF SendOnly
  <2>2. /\ call # NoCall /\ TotalFragment(n) = 1 /\ call' = NoCall
        /\ count' = count
    BY <1>4 DEF SendOnly
  <2>3. i = 0 /\ junk = n
    BY <1>2, <2>2 DEF Perfect
  <2>4. Body(n, i) = n
    BY <1>2, <2>2, <2>3 DEF Body
  <2>5. Transmit(d)
    BY <2>1, <2>3, <2>4
  <2>6. SenderOK' /\ SenderAt' = At(count + 1, 0, 0)
    BY <1>2, <2>2 DEF SenderOK, SenderAt
  <2>7. d \in Datagram /\ Piece(d) /\ Before(d) = SenderAt
        /\ After(d) = SenderAt'
    BY <2>2, <2>3, <2>6, SenderPiece
  <2> HIDE DEF d
  <2>8. QED
    BY <1>3, <2>2, <2>5, <2>6, <2>7
<1>5. CASE SendMiddle
  <2>1. /\ call # NoCall /\ i < TotalFragment(n) - 1 /\ count' = count
        /\ call' = [call EXCEPT !.i = i + 1]
        /\ Transmit(Fragment(count, n, i, SplitSize))
    BY <1>5 DEF SendMiddle
  <2>2. Body(n, i) = SplitSize
    BY <2>1 DEF Body
  <2>3. /\ call' \in [nLen : FrameSizes, i : Nat]
        /\ call'.nLen = n /\ call'.i = i + 1
    BY <1>2, <2>1
  <2>4. call' # NoCall
    BY <1>2, <2>1, <2>3 DEF NoCall
  <2>5. SenderOK'
    BY <1>2, <2>1, <2>3 DEF SenderOK
  <2>6. SenderAt' = At(count, n, (i + 1) * SplitSize)
    BY <2>1, <2>3, <2>4 DEF SenderAt
  <2>7. i # TotalFragment(n) - 1
    BY <1>2, <2>1
  <2>8. d \in Datagram /\ Piece(d) /\ Before(d) = SenderAt
        /\ After(d) = SenderAt'
    BY <2>1, <2>6, <2>7, SenderPiece
  <2>9. Transmit(d)
    BY <2>1, <2>2
  <2> HIDE DEF d
  <2>10. QED
    BY <1>3, <2>1, <2>5, <2>8, <2>9
<1>6. CASE SendLast
  <2>1. /\ call # NoCall /\ i = TotalFragment(n) - 1 /\ call' = NoCall
        /\ count' = count /\ Transmit(d)
    BY <1>6 DEF SendLast
  <2>2. SenderOK' /\ SenderAt' = At(count + 1, 0, 0)
    BY <1>2, <2>1 DEF SenderOK, SenderAt
  <2>3. d \in Datagram /\ Piece(d) /\ Before(d) = SenderAt
        /\ After(d) = SenderAt'
    BY <2>1, <2>2, SenderPiece
  <2> HIDE DEF d
  <2>4. QED
    BY <1>3, <2>1, <2>2, <2>3
<1>7. QED
  BY <1>1, <1>4, <1>5, <1>6 DEF SenderStep, SendNext

-----------------------------------------------------------------------------
(* The path through the network *)

(* A sender that sends goes on with the path.                              *)
LEMMA PathAppend ==
  ASSUME NEW q \in Seq(Datagram), NEW d \in Datagram, NEW at, NEW R \in Nat,
         NEW dead, NEW life, Path(q, at, life, R, dead), Before(d) = at
  PROVE  \E long \in [1 .. Len(Append(q, d)) + 1 -> 0 .. R] :
           /\ Path(Append(q, d), After(d), long, R, dead) /\ long[1] = life[1]
           /\ Pos(Append(q, d), After(d), 1) = Pos(q, at, 1)
<1> DEFINE m == Len(q)
           r == Append(q, d)
           long == [k \in 1 .. m + 2 |-> IF k <= m + 1 THEN life[k] ELSE life[m + 1]]
<1>1. /\ m \in Nat /\ Len(r) = m + 1 /\ r[m + 1] = d
      /\ \A k \in 1 .. m : r[k] = q[k]
  BY AppendProperties, LenProperties
<1>2. /\ life \in [1 .. m + 1 -> 0 .. R]
      /\ \A k \in 1 .. m : life[k] <= life[k + 1] /\ Leads(q, at, life, dead, k)
  BY DEF Path
<1> HIDE DEF m, r
<1>3. long \in [1 .. Len(r) + 1 -> 0 .. R]
  BY <1>1, <1>2
<1>4. \A k \in 1 .. m + 1 : Pos(r, After(d), k) = Pos(q, at, k)
  BY <1>1 DEF Pos, m, r
<1>5. ASSUME NEW k \in 1 .. Len(r)
      PROVE  long[k] <= long[k + 1] /\ Leads(r, After(d), long, dead, k)
  <2>1. CASE k \in 1 .. m
    <3>1. /\ long[k] = life[k] /\ long[k + 1] = life[k + 1]
          /\ k + 1 \in 1 .. m + 1 /\ r[k] = q[k]
      BY <1>1, <2>1
    <3>2. QED
      BY <1>2, <1>4, <2>1, <3>1 DEF Leads
  <2>2. CASE k = m + 1
    <3>1. long[k] = life[m + 1] /\ long[k + 1] = life[m + 1]
      BY <1>1, <2>2
    <3>2. life[m + 1] \in 0 .. R
      BY <1>1, <1>2
    <3>3. Pos(r, After(d), k + 1) = After(d)
      BY <1>1, <2>2 DEF Pos
    <3>4. QED
      BY <1>1, <2>2, <3>1, <3>2, <3>3 DEF Leads
  <2>3. QED
    BY <1>1, <2>1, <2>2
<1>6. long[1] = life[1] /\ Pos(r, After(d), 1) = Pos(q, at, 1)
  BY <1>1, <1>4
<1> HIDE DEF long
<1>7. QED
  BY <1>3, <1>5, <1>6 DEF Path, r

(* A receiver that receives leaves the rest of the path.                   *)
LEMMA PathTail ==
  ASSUME NEW q \in Seq(Datagram), q # <<>>, NEW at, NEW R \in Nat,
         NEW dead, NEW life, Path(q, at, life, R, dead)
  PROVE  \E rest \in [1 .. Len(Tail(q)) + 1 -> 0 .. R] :
           /\ Path(Tail(q), at, rest, R, dead) /\ rest[1] = life[2]
           /\ Pos(Tail(q), at, 1) = Pos(q, at, 2)
<1> DEFINE m == Len(q)
           r == Tail(q)
           rest == [k \in 1 .. m |-> life[k + 1]]
<1>1. /\ m \in Nat \ {0} /\ Len(r) = m - 1
      /\ \A k \in 1 .. m - 1 : r[k] = q[k + 1]
  BY HeadTailProperties, LenProperties, EmptySeq
<1>2. /\ life \in [1 .. m + 1 -> 0 .. R]
      /\ \A k \in 1 .. m : life[k] <= life[k + 1] /\ Leads(q, at, life, dead, k)
  BY DEF Path
<1> HIDE DEF r
<1>4. \A k \in 1 .. m : Pos(r, at, k) = Pos(q, at, k + 1)
  BY <1>1 DEF Pos
<1> HIDE DEF m
<1>3. rest \in [1 .. Len(r) + 1 -> 0 .. R]
  BY <1>1, <1>2
<1>5. ASSUME NEW k \in 1 .. Len(r)
      PROVE  rest[k] <= rest[k + 1] /\ Leads(r, at, rest, dead, k)
  <2>1. /\ rest[k] = life[k + 1] /\ rest[k + 1] = life[k + 2]
        /\ k + 1 \in 1 .. m /\ r[k] = q[k + 1] /\ (k + 1) + 1 = k + 2
    BY <1>1
  <2>2. life[k + 1] <= life[k + 2] /\ Leads(q, at, life, dead, k + 1)
    BY <1>2, <2>1
  <2>3. QED
    BY <1>4, <2>1, <2>2 DEF Leads
<1>6. rest[1] = life[2] /\ Pos(r, at, 1) = Pos(q, at, 2)
  BY <1>1, <1>4
<1> HIDE DEF rest
<1>7. QED
  BY <1>3, <1>5, <1>6 DEF Path, r

(* A sender that is started again begins another life, between two frames  *)
(* or after one that died in the middle of a frame.                        *)
LEMMA PathRestart ==
  ASSUME NEW q \in Seq(Datagram), NEW at, NEW R \in Nat,
         NEW dead, NEW all, dead \subseteq all,
         at.offset = 0 \/ 0 .. R \subseteq all,
         NEW life, Path(q, at, life, R, dead)
  PROVE  \E more \in [1 .. Len(q) + 1 -> 0 .. R + 1] :
           /\ Path(q, Start, more, R + 1, all)
           /\ \/ q # <<>> /\ more[1] = life[1] /\ Pos(q, Start, 1) = Pos(q, at, 1)
              \/ q = <<>> /\ more[1] = R + 1 /\ Pos(q, Start, 1) = Start
                 /\ Pos(q, at, 1) = at
<1> DEFINE m == Len(q)
           more == [life EXCEPT ![m + 1] = R + 1]
<1>1. m \in Nat /\ (q = <<>> <=> m = 0)
  BY LenProperties, EmptySeq
<1>2. /\ life \in [1 .. m + 1 -> 0 .. R]
      /\ \A k \in 1 .. m : life[k] <= life[k + 1] /\ Leads(q, at, life, dead, k)
  BY DEF Path
<1>4. /\ \A k \in 1 .. m : Pos(q, Start, k) = Pos(q, at, k)
      /\ Pos(q, Start, m + 1) = Start /\ Pos(q, at, m + 1) = at
  BY <1>1 DEF Pos
<1> HIDE DEF m
<1>3. more \in [1 .. m + 1 -> 0 .. R + 1] /\ more[m + 1] = R + 1
      /\ \A k \in 1 .. m : more[k] = life[k]
  BY <1>1, <1>2
<1> HIDE DEF more
<1>5. ASSUME NEW k \in 1 .. m
      PROVE  more[k] <= more[k + 1] /\ Leads(q, Start, more, all, k)
  <2>1. life[k] \in 0 .. R /\ life[k + 1] \in 0 .. R
    BY <1>1, <1>2
  <2>2. CASE k # m
    <3>1. k + 1 \in 1 .. m
      BY <1>1, <2>2
    <3>2. QED
      BY <1>2, <1>3, <1>4, <3>1 DEF Leads
  <2>3. CASE k = m
    <3>1. After(q[k]).offset = 0 \/ more[k] \in all
      BY <1>2, <1>3, <1>4, <2>1, <2>3 DEF Leads
    <3>2. more[k] < more[k + 1]
      BY <1>3, <2>1, <2>3
    <3>3. QED
      BY <1>3, <1>4, <2>1, <2>3, <3>1, <3>2 DEF Leads
  <2>4. QED
    BY <2>2, <2>3
<1>6. Path(q, Start, more, R + 1, all)
  BY <1>3, <1>5 DEF Path, m
<1>7. CASE m = 0
  BY <1>1, <1>3, <1>4, <1>6, <1>7 DEF m
<1>8. CASE m # 0
  <2>1. 1 \in 1 .. m
    BY <1>1, <1>8
  <2>2. QED
    BY <1>1, <1>3, <1>4, <1>6, <1>8, <2>1 DEF m
<1>9. QED
  BY <1>7, <1>8

-----------------------------------------------------------------------------
(* The receiver, when no frame was ever cut *)

(* Datagram d is piece i of frame s, whose length is n.                    *)
IsPiece(d, s, n, i) ==
  /\ n \in FrameSizes /\ i \in Nat /\ i < TotalFragment(n)
  /\ s \in Nat \ {0} /\ d = Fragment(s, n, i, Body(n, i))

(* The state after a datagram that strays nowhere, when the table is q.    *)
LEMMA NeverAhead ==
  ASSUME Perfect, IInv, NEW d \in Datagram, d.seq <= lastpacketseqnum + 1
  PROVE  TableAfterAhead(d) = packet /\ LastAfterAhead(d) = lastpacketseqnum
<1>1. lastpacketseqnum \in Nat /\ d.seq \in Nat /\ Window \in Nat /\ Window > 0
  BY ReceiverConstants DEF IInv, ReceiverTypeOK, Datagram, Perfect
<1>2. ~ Ahead(d)
  BY <1>1 DEF Ahead
<1>3. QED
  BY <1>2 DEF TableAfterAhead, LastAfterAhead

LEMMA AtFields ==
  ASSUME NEW s, NEW n, NEW o
  PROVE  At(s, n, o).seq = s /\ At(s, n, o).offset = o
         /\ (o # 0 => At(s, n, o).size = n)
BY DEF At

(* The position after a piece: inside its frame, or at the next one.       *)
LEMMA AfterPiece ==
  ASSUME NEW d, NEW s, NEW n, NEW i, IsPiece(d, s, n, i)
  PROVE  LET o == i * SplitSize
             z == Body(n, i)
         IN  /\ o \in Nat /\ z \in Nat \ {0} /\ o + z <= n /\ n \in Nat
             /\ SplitSize \in Nat \ {0} /\ TotalFragment(n) \in Nat \ {0}
             /\ d \in Datagram /\ d.seq = s /\ d.size = n /\ d.offset = o
             /\ d.payload = z /\ d.total = TotalFragment(n)
             /\ Copied(d) = o .. o + z - 1
             /\ Before(d) = At(s, n, o) /\ (o = 0 <=> i = 0)
             /\ \/ /\ i + 1 = TotalFragment(n) /\ o + z = n
                   /\ After(d) = At(s + 1, 0, 0)
                \/ /\ i + 1 < TotalFragment(n) /\ o + z = (i + 1) * SplitSize
                   /\ After(d) = At(s, n, o + z)
<1>1. /\ n \in FrameSizes /\ i \in Nat /\ i < TotalFragment(n)
      /\ s \in Nat \ {0} /\ d = Fragment(s, n, i, Body(n, i))
  BY DEF IsPiece
<1>2. i * SplitSize = 0 <=> i = 0
  BY <1>1, SenderConstants
<1>3. /\ n \in Nat \ {0} /\ TotalFragment(n) \in Nat \ {0}
      /\ SplitSize \in Nat \ {0} /\ i * SplitSize \in Nat
      /\ Body(n, i) \in Nat \ {0}
      /\ i * SplitSize + Body(n, i) <= n
      /\ i * SplitSize + Body(n, i) = n <=> i = TotalFragment(n) - 1
      /\ i # TotalFragment(n) - 1 =>
           i * SplitSize + Body(n, i) = (i + 1) * SplitSize
  BY <1>1, PiecesTile
<1>4. /\ d \in Datagram /\ d.seq = s /\ d.size = n
      /\ d.offset = i * SplitSize /\ d.payload = Body(n, i)
      /\ d.total = TotalFragment(n)
      /\ Before(d) = At(s, n, i * SplitSize)
      /\ After(d) = IF i = TotalFragment(n) - 1 THEN At(s + 1, 0, 0)
                    ELSE At(s, n, (i + 1) * SplitSize)
      /\ Copied(d) = i * SplitSize .. i * SplitSize + Body(n, i) - 1
  BY <1>1, PieceSeen
<1>5. CASE i = TotalFragment(n) - 1
  BY <1>2, <1>3, <1>4, <1>5
<1>6. CASE i # TotalFragment(n) - 1
  <2>1. i + 1 < TotalFragment(n)
    BY <1>1, <1>3, <1>6
  <2>2. QED
    BY <1>2, <1>3, <1>4, <1>6, <2>1
<1>7. QED
  BY <1>5, <1>6

(* The same without the bytes.                                             *)
LEMMA PieceCounts ==
  ASSUME NEW d, NEW s, NEW n, NEW i, IsPiece(d, s, n, i)
  PROVE  /\ s \in Nat \ {0} /\ n \in Nat \ {0} /\ i \in Nat
         /\ SplitSize \in Nat \ {0} /\ TotalFragment(n) \in Nat \ {0}
         /\ i + 1 <= TotalFragment(n)
         /\ d \in Datagram /\ d.seq = s /\ d.total = TotalFragment(n)
         /\ \/ i + 1 = TotalFragment(n) /\ After(d) = At(s + 1, 0, 0)
            \/ /\ i + 1 < TotalFragment(n)
               /\ After(d) = At(s, n, (i + 1) * SplitSize)
<1>1. /\ s \in Nat \ {0} /\ n \in FrameSizes /\ i \in Nat
      /\ i < TotalFragment(n)
  BY DEF IsPiece
<1>2. n \in Nat \ {0} /\ SplitSize \in Nat \ {0}
  BY <1>1, SenderConstants
<1>3. /\ TotalFragment(n) \in Nat \ {0}
      /\ d \in Datagram /\ d.seq = s /\ d.total = TotalFragment(n)
      /\ \/ i + 1 = TotalFragment(n) /\ After(d) = At(s + 1, 0, 0)
         \/ /\ i + 1 < TotalFragment(n)
            /\ After(d) = At(s, n, (i + 1) * SplitSize)
  BY AfterPiece
<1>4. QED
  BY <1>1, <1>2, <1>3

LEMMA StaleFinite ==
  /\ IsFiniteSet(StaleSlots) /\ Cardinality(StaleSlots) \in Nat
  /\ (\E i \in Slots : Stale(i)) => Cardinality(StaleSlots) > 0
<1>1. IsFiniteSet(Slots)
  BY FS_Interval, ReceiverConstants DEF Slots
<1>2. IsFiniteSet(StaleSlots)
  BY <1>1, FS_Subset DEF StaleSlots
<1>3. Cardinality(StaleSlots) \in Nat
  BY <1>2, FS_CardinalityType
<1>4. (\E i \in Slots : Stale(i)) => Cardinality(StaleSlots) # 0
  BY <1>2, FS_EmptySet DEF StaleSlots
<1>5. QED
  BY <1>2, <1>3, <1>4

(* Frame s is behind lastpacketseqnum: its datagrams are rejected.         *)
LEMMA CleanIgnored ==
  ASSUME IInv, NEW d, NEW s, NEW n, NEW i, IsPiece(d, s, n, i), NEW b \in Nat,
         wild = {}, CleanState(Before(d), b), Ignore(d)
  PROVE  CleanReceiver(After(d), b)'
<1> DEFINE l == lastpacketseqnum
           c == Before(d)
           e == After(d)
<1>1. l \in Nat /\ s \in Nat /\ d.seq = s /\ d.payload \in Nat \ {0}
      /\ c.seq = s /\ e.seq \in {s, s + 1} /\ (e.seq = s + 1 => e.offset = 0)
  <2>1. l \in Nat /\ s \in Nat
    BY DEF IInv, ReceiverTypeOK, IsPiece
  <2>2. d.seq = s /\ d.payload \in Nat \ {0} /\ c.seq = s
    BY AfterPiece, AtFields
  <2>3. e = At(s + 1, 0, 0) \/ \E o \in Nat : e = At(s, n, o)
    BY AfterPiece
  <2>4. e.seq = s \/ (e.seq = s + 1 /\ e.offset = 0)
    BY <2>3, AtFields
  <2>5. QED
    BY <2>1, <2>2, <2>4
<1>2. s < l
  BY <1>1 DEF Ignore, Rejected
<1> HIDE DEF c, e
<1>3. /\ packet' = packet /\ lastpacketseqnum' = l /\ wild' = {} /\ out' = {}
  BY DEF Ignore
<1>4. /\ CleanTable(c) /\ Cardinality(StaleSlots) < b
  BY <1>1, <1>2 DEF CleanState, Passed, c
<1>5. StaleSlots' = StaleSlots
  BY <1>3 DEF StaleSlots, Stale
<1>6. CleanTable(e)'
  BY <1>1, <1>2, <1>3, <1>4 DEF CleanTable, Stale
<1>7. Cardinality(StaleSlots)' <= b /\ Cardinality(StaleSlots)' < b
  BY <1>4, <1>5, StaleFinite
<1>8. WholeFrames'
  BY <1>3 DEF WholeFrames
<1>9. QED
  BY <1>3, <1>6, <1>7, <1>8 DEF CleanReceiver, CleanState, e

(* Frame s is the one just done with: its slot is or becomes a stale one.  *)
LEMMA CleanLate ==
  ASSUME IInv, NEW d, NEW s, NEW n, NEW i, IsPiece(d, s, n, i), NEW b \in Nat,
         wild = {}, s = lastpacketseqnum,
         \A k \in Slots : packet[k].isUse => Stale(k),
         Cardinality(StaleSlots) <= b,
         NEW j \in Slots, NEW slot \in Slot, slot.isUse, slot.seqnum = s,
         \/ Stale(j)
         \/ ~ packet[j].isUse /\ Cardinality(StaleSlots) < b,
         File(packet, lastpacketseqnum, j, slot, d)
  PROVE  CleanReceiver(After(d), b)'
<1> DEFINE l == lastpacketseqnum
           e == After(d)
           q == [packet EXCEPT ![j] = slot]
<1>1. /\ l \in Nat /\ packet \in Table /\ Lag \in Nat
      /\ \A k \in Slots : packet[k].seqnum \in Nat
  BY ReceiverConstants DEF IInv, ReceiverTypeOK, Table, Slot
<1>2. \/ e.seq = s + 1 /\ e.offset = 0
      \/ e.seq = s /\ e.offset \in Nat \ {0}
  BY AfterPiece, AtFields
<1> HIDE DEF e
<1>3. /\ q \in Table /\ q[j] = slot /\ \A k \in Slots : k # j => q[k] = packet[k]
  BY <1>1 DEF Table
<1>4. /\ HandOn(q, l, j) \/ Settle(q, l, {})
      /\ wild' = {}
  BY DEF File
<1> HIDE DEF q
<1>5. packet' = q /\ lastpacketseqnum' = l /\ out' = {}
  <2>1. q[j].seqnum = l /\ ~ (l = l + 1) /\ ~ (l + Lag < l)
    BY <1>1, <1>3
  <2>2. Settle(q, l, {})
    BY <1>4, <2>1 DEF HandOn
  <2>3. QED
    BY <2>2 DEF Settle
<1>6. \A k \in Slots : q[k].isUse => q[k].seqnum <= l
  BY <1>1, <1>3 DEF Stale
<1>7. CleanTable(e)'
  <2>1. e.seq <= l + 1
    BY <1>1, <1>2
  <2>2. e.offset > 0 => j \in Holding(q, e.seq)
    BY <1>2, <1>3 DEF Holding
  <2>3. QED
    BY <1>5, <1>6, <2>1, <2>2 DEF CleanTable, Stale
<1>8. Cardinality(StaleSlots)' <= b
  <2>1. StaleSlots' = {k \in Slots : q[k].isUse}
    BY <1>5, <1>6 DEF StaleSlots, Stale
  <2>2. StaleSlots = {k \in Slots : packet[k].isUse}
    BY DEF StaleSlots, Stale
  <2>3. StaleSlots' = StaleSlots \cup {j}
    BY <1>3, <2>1, <2>2
  <2>4. CASE Stale(j)
    <3>1. StaleSlots' = StaleSlots
      BY <2>3, <2>4 DEF StaleSlots
    <3>2. QED
      BY <3>1
  <2>5. CASE ~ packet[j].isUse /\ Cardinality(StaleSlots) < b
    <3>1. j \notin StaleSlots
      BY <2>2, <2>5
    <3>2. Cardinality(StaleSlots \cup {j}) = Cardinality(StaleSlots) + 1
      BY <3>1, StaleFinite, FS_AddElement
    <3>3. QED
      BY <2>3, <2>5, <3>2, StaleFinite
  <2>6. QED
    BY <2>4, <2>5
<1>9. Passed(e)'
  BY <1>1, <1>2, <1>5 DEF Passed
<1>10. WholeFrames'
  BY <1>5 DEF WholeFrames
<1>11. QED
  BY <1>4, <1>7, <1>8, <1>9, <1>10 DEF CleanReceiver, CleanState, e

(* Frame s is next in line: it is collected and, when complete, handed on. *)
LEMMA CleanNext ==
  ASSUME IInv, NEW d, NEW s, NEW n, NEW i, IsPiece(d, s, n, i), NEW b \in Nat,
         wild = {}, CleanState(Before(d), b), s = lastpacketseqnum + 1,
         NEW j \in Slots, NEW slot \in Slot, slot.isUse, slot.seqnum = s,
         slot.size = n, slot.data = 0 .. i * SplitSize + Body(n, i) - 1,
         slot.recvedpacks = i + 1,
         ~ Stale(j), \A k \in Slots \ {j} : packet[k].isUse => Stale(k),
         File(packet, lastpacketseqnum, j, slot, d)
  PROVE  CleanReceiver(After(d), b)'
<1> DEFINE l == lastpacketseqnum
           e == After(d)
           q == [packet EXCEPT ![j] = slot]
           o == i * SplitSize
           z == Body(n, i)
<1>1. /\ l \in Nat /\ packet \in Table
      /\ \A k \in Slots : packet[k].seqnum \in Nat
  BY DEF IInv, ReceiverTypeOK, Table, Slot
<1>2. /\ o \in Nat /\ z \in Nat \ {0} /\ n \in Nat /\ i \in Nat
      /\ d.total = TotalFragment(n)
      /\ \/ /\ i + 1 = TotalFragment(n) /\ o + z = n /\ e = At(s + 1, 0, 0)
         \/ /\ i + 1 < TotalFragment(n) /\ o + z = (i + 1) * SplitSize
            /\ e = At(s, n, o + z)
  BY AfterPiece DEF IsPiece
<1>3. slot.data = 0 .. o + z - 1
  OBVIOUS
<1>4. /\ Cardinality(StaleSlots) <= b
  BY DEF CleanState
<1> HIDE DEF e, o, z
<1>5. /\ q \in Table /\ q[j] = slot /\ \A k \in Slots : k # j => q[k] = packet[k]
  BY <1>1 DEF Table
<1>6. /\ IF i + 1 = TotalFragment(n) THEN HandOn(q, l, j) ELSE Settle(q, l, {})
      /\ wild' = {}
  BY <1>2 DEF File
<1> HIDE DEF q
<1>7. \A k \in Slots : k # j /\ packet[k].isUse => packet[k].seqnum <= l
  BY DEF Stale
<1>8. CASE i + 1 = TotalFragment(n)
  <2>1. o + z = n /\ e = At(s + 1, 0, 0)
    BY <1>2, <1>8
  <2>2. Settle(Release(q, {j}), s, {Frame(slot)})
    BY <1>5, <1>6, <1>8 DEF HandOn
  <2>3. /\ packet' = Release(q, {j}) /\ lastpacketseqnum' = s
        /\ out' = {Frame(slot)}
    BY <2>2 DEF Settle
  <2>4. ~ packet'[j].isUse
        /\ \A k \in Slots : k # j => packet'[k] = packet[k]
    BY <1>5, <2>3, ReleaseType
  <2>5. \A k \in Slots : packet'[k].isUse => packet[k].isUse /\ packet[k].seqnum <= l
                         /\ packet'[k] = packet[k]
    BY <1>7, <2>4
  <2>6. lastpacketseqnum' = l + 1
    BY <2>3
  <2>7. e.seq = l + 2 /\ e.offset = 0
    BY <1>1, <2>1, AtFields
  <2>8. CleanTable(e)'
    <3>1. \A k \in Slots : packet'[k].isUse => packet'[k].seqnum <= l + 1
      BY <1>1, <2>5
    <3>2. QED
      BY <1>1, <2>6, <2>7, <3>1 DEF CleanTable, Stale
  <2>9. Passed(e)'
    BY <1>1, <2>6, <2>7 DEF Passed
  <2>10. WholeFrames'
    <3>1. Whole(Frame(slot))
      <4>1. slot.size = n
        OBVIOUS
      <4>2. slot.data = 0 .. n - 1
        BY <1>2, <1>3, <2>1
      <4>3. QED
        BY <4>1, <4>2, Zenon DEF Whole, Frame
    <3>2. QED
      BY <2>3, <3>1 DEF WholeFrames, Whole
  <2>11. StaleSlots' = StaleSlots
    <3>1. \A k \in Slots : Stale(k)' => Stale(k)
      BY <2>5 DEF Stale
    <3>2. ASSUME NEW k \in Slots, Stale(k)
          PROVE  Stale(k)'
      <4>1. packet'[k] = packet[k] /\ packet[k].seqnum <= l
        BY <2>4, <3>2 DEF Stale
      <4>2. packet[k].seqnum <= l + 1
        BY <1>1, <4>1
      <4>3. QED
        BY <2>6, <3>2, <4>1, <4>2 DEF Stale
    <3>3. QED
      BY <3>1, <3>2 DEF StaleSlots
  <2>12. QED
    BY <1>4, <1>6, <2>8, <2>9, <2>10, <2>11 DEF CleanReceiver, CleanState, e
<1>9. CASE i + 1 # TotalFragment(n)
  <2>1. o + z = (i + 1) * SplitSize /\ e = At(s, n, o + z) /\ o + z # 0
    BY <1>2, <1>9
  <2>2. packet' = q /\ lastpacketseqnum' = l /\ out' = {}
    BY <1>6, <1>9 DEF Settle
  <2>3. e.seq = s /\ e.offset = o + z /\ e.size = n
    BY <2>1, AtFields
  <2>4. Collects(q[j], e)
    BY <1>2, <1>3, <1>5, <2>1, <2>3 DEF Collects
  <2>5. j \in Holding(q, s)
    BY <1>5 DEF Holding
  <2>6. StaleSlots' = StaleSlots
    BY <1>1, <1>5, <2>2 DEF StaleSlots, Stale
  <2>7. CleanTable(e)'
    BY <1>1, <1>5, <1>7, <2>2, <2>3, <2>4, <2>5 DEF CleanTable, Stale
  <2>8. Passed(e)'
    BY <1>1, <2>2, <2>3 DEF Passed
  <2>9. WholeFrames'
    BY <2>2 DEF WholeFrames
  <2>10. QED
    BY <1>4, <1>6, <2>6, <2>7, <2>8, <2>9 DEF CleanReceiver, CleanState, e
<1>10. QED
  BY <1>8, <1>9

(* A stray write is never forgotten.                                       *)
LEMMA WildGrows ==
  ASSUME NEW d, Revc(d)
  PROVE  wild \subseteq wild'
<1>1. Ignore(d) => wild \subseteq wild'
  BY DEF Ignore
<1>2. AddToFrame(d) => wild \subseteq wild'
  BY DEF AddToFrame, File, HeapOverrun
<1>3. StartFrame(d) => wild \subseteq wild'
  BY DEF StartFrame, File, HeapOverrun
<1>4. NoSlotLeft(d) => wild \subseteq wild'
  BY DEF NoSlotLeft, SlotOverrun
<1>5. QED
  BY <1>1, <1>2, <1>3, <1>4 DEF Revc

(* The slot after one more piece of a frame it collects.                   *)
LEMMA CollectsMore ==
  ASSUME Perfect, NEW d, NEW s, NEW n, NEW i, IsPiece(d, s, n, i),
         NEW slot \in Slot, Collects(slot, Before(d))
  PROVE  /\ Added(slot, d).data = 0 .. i * SplitSize + Body(n, i) - 1
         /\ Added(slot, d).recvedpacks = i + 1
         /\ Added(slot, d).size = n /\ Added(slot, d).seqnum = s
         /\ Added(slot, d).isUse = slot.isUse
         /\ i + 1 = TotalFragment(n) => Added(slot, d).isFull
         /\ d.offset + d.payload <= slot.size
<1> DEFINE o == i * SplitSize
           z == Body(n, i)
           c == Before(d)
<1>1. /\ o \in Nat /\ z \in Nat \ {0} /\ o + z <= n /\ n \in Nat
      /\ d.seq = s /\ d.offset = o /\ d.payload = z
      /\ d.total = TotalFragment(n) /\ Copied(d) = o .. o + z - 1
      /\ c = At(s, n, o) /\ SplitSize \in Nat \ {0}
      /\ TotalFragment(n) \in Nat /\ i \in Nat /\ i + 1 <= TotalFragment(n)
  BY AfterPiece DEF IsPiece
<1> HIDE DEF o, z, c
<1>2. o > 0 /\ slot.data = 0 .. o - 1 /\ slot.recvedpacks * SplitSize = o
      /\ slot.seqnum = s /\ slot.size = n
  BY <1>1, AtFields DEF Collects, c
<1>3. slot.recvedpacks = i
  <2>1. slot.recvedpacks \in Nat
    BY ReceiverConstants DEF Slot
  <2>2. slot.recvedpacks * SplitSize = i * SplitSize
    BY <1>2 DEF o
  <2>3. \A u, v \in Nat : u * SplitSize = v * SplitSize => u = v
    BY <1>1
  <2>4. QED
    BY <1>1, <2>1, <2>2, <2>3
<1>4. (i + 1) % PackMod = i + 1
  <2>1. TotalFragment(n) < PackMod /\ PackMod \in Nat
    BY ReceiverConstants DEF Perfect, IsPiece
  <2>2. QED
    BY <1>1, <2>1
<1>5. Added(slot, d) = [slot EXCEPT !.recvedpacks = i + 1,
                                    !.data = slot.data \cup Copied(d),
                                    !.isFull = slot.isFull \/ i + 1 = d.total]
  BY <1>3, <1>4 DEF Added
<1>6. slot.data \cup Copied(d) = 0 .. o + z - 1
  BY <1>1, <1>2
<1>7. QED
  BY <1>1, <1>2, <1>5, <1>6 DEF o, z, Slot

(* The slot taken for the first piece of a frame.                          *)
LEMMA TakenCollects ==
  ASSUME NEW d, NEW s, NEW n, NEW i, IsPiece(d, s, n, i), i = 0,
         NEW slot \in Slot
  PROVE  /\ Taken(slot, d).data = 0 .. i * SplitSize + Body(n, i) - 1
         /\ Taken(slot, d).recvedpacks = i + 1 /\ Taken(slot, d).isUse
         /\ Taken(slot, d).size = n /\ Taken(slot, d).seqnum = s
         /\ d.offset + d.payload <= d.size
<1> DEFINE o == i * SplitSize
           z == Body(n, i)
<1>1. o = 0
  BY SenderConstants
<1>2. /\ o \in Nat /\ z \in Nat \ {0} /\ o + z <= n /\ n \in Nat
      /\ d.seq = s /\ d.size = n /\ d.offset = o /\ d.payload = z
      /\ d.total = TotalFragment(n) /\ Copied(d) = o .. o + z - 1
  BY AfterPiece
<1> HIDE DEF o, z
<1>3. Taken(slot, d).data = o .. o + z - 1
  BY <1>2 DEF Taken
<1>4. o .. o + z - 1 = 0 .. o + z - 1
  BY <1>1
<1>5. /\ Taken(slot, d).recvedpacks = i + 1 /\ Taken(slot, d).isUse
      /\ Taken(slot, d).size = n /\ Taken(slot, d).seqnum = s
      /\ d.offset + d.payload <= d.size
  BY <1>2 DEF Taken
<1>6. QED
  BY <1>3, <1>4, <1>5 DEF o, z

(* A write that strays from a receiver at which no frame was ever cut.     *)
LEMMA CleanStray ==
  ASSUME NEW c, NEW b \in Nat, b > 0, wild' # {},
         (\E w \in wild' : w.at = "slot") => b >= NumSlots
  PROVE  CleanReceiver(c, b)'
BY DEF CleanReceiver, CleanState

(* A piece goes to the slot that its frame has.                            *)
LEMMA CleanAdd ==
  ASSUME Perfect, IInv, NEW d, NEW s, NEW n, NEW i, IsPiece(d, s, n, i),
         NEW b \in Nat, wild = {}, CleanState(Before(d), b),
         s = lastpacketseqnum \/ s = lastpacketseqnum + 1,
         NEW j \in Holding(packet, s),
         \/ File(packet, lastpacketseqnum, j, Added(packet[j], d), d)
         \/ HeapOverrun(packet, lastpacketseqnum, packet[j].size, d)
  PROVE  CleanReceiver(After(d), b)'
<1> DEFINE l == lastpacketseqnum
           c == Before(d)
           slot == Added(packet[j], d)
<1>1. /\ l \in Nat /\ packet \in Table /\ UniqueSeq /\ s \in Nat
      /\ j \in Slots /\ packet[j].isUse /\ packet[j].seqnum = s
      /\ d \in Datagram /\ c.seq = s /\ i \in Nat
  BY AfterPiece, AtFields DEF IInv, ReceiverTypeOK, Table, Holding, IsPiece
<1>2. /\ CleanTable(c) /\ Cardinality(StaleSlots) <= b
      /\ (~ Passed(c) => Cardinality(StaleSlots) < b)
  BY DEF CleanState
<1>3. slot \in Slot /\ slot.isUse /\ slot.seqnum = s
  BY <1>1, AddedType DEF Table
<1>4. CASE s = l
  <2>1. Stale(j)
    BY <1>1, <1>4 DEF Stale
  <2>2. b > 0
    <3>1. Cardinality(StaleSlots) > 0 /\ Cardinality(StaleSlots) \in Nat
      BY <1>1, <2>1, StaleFinite
    <3>2. QED
      BY <1>2, <3>1
  <2>3. CASE HeapOverrun(packet, l, packet[j].size, d)
    <3>1. wild' = {[at |-> "heap", seq |-> d.seq]}
      BY <2>3 DEF HeapOverrun
    <3>2. QED
      BY <2>2, <3>1, CleanStray
  <2>4. CASE File(packet, l, j, slot, d)
    <3> HIDE DEF slot
    <3>1. \A k \in Slots : packet[k].isUse => Stale(k)
      BY <1>1, <1>2, <1>4 DEF CleanTable
    <3>2. QED
      BY <1>1, <1>2, <1>3, <1>4, <2>1, <2>4, <3>1, CleanLate
  <2>5. QED
    BY <2>3, <2>4
<1>5. CASE s = l + 1
  <2>1. ~ Stale(j)
    BY <1>1, <1>5 DEF Stale
  <2>2. Collects(packet[j], c)
    BY <1>1, <1>2, <2>1 DEF CleanTable
  <2>3. /\ slot.data = 0 .. i * SplitSize + Body(n, i) - 1
        /\ slot.recvedpacks = i + 1 /\ slot.size = n
        /\ d.offset + d.payload <= packet[j].size
    BY <1>1, <2>2, CollectsMore DEF Table
  <2>4. \A k \in Slots \ {j} : packet[k].isUse => Stale(k)
    <3>1. ASSUME NEW k \in Slots, packet[k].isUse, ~ Stale(k)
          PROVE  k = j
      <4>1. packet[k].seqnum = s
        BY <1>1, <1>2, <3>1 DEF CleanTable, Collects
      <4>2. QED
        BY <1>1, <3>1, <4>1 DEF UniqueSeq
    <3>2. QED
      BY <3>1
  <2>5. d.offset + d.payload \in Nat /\ packet[j].size \in Nat
    BY <1>1 DEF Datagram, Table, Slot
  <2>6. ~ HeapOverrun(packet, l, packet[j].size, d)
    BY <2>3, <2>5 DEF HeapOverrun
  <2>7. File(packet, l, j, slot, d)
    BY <2>6
  <2> HIDE DEF slot
  <2>8. QED
    BY <1>1, <1>3, <1>5, <2>1, <2>3, <2>4, <2>7, CleanNext
<1>6. QED
  BY <1>4, <1>5

(* The first piece of a frame takes a slot.                                *)
LEMMA CleanStart ==
  ASSUME Perfect, IInv, NEW d, NEW s, NEW n, NEW i, IsPiece(d, s, n, i),
         i = 0, NEW b \in Nat, wild = {}, CleanState(Before(d), b),
         s = lastpacketseqnum \/ s = lastpacketseqnum + 1,
         NEW j \in Unused(packet),
         \/ File(packet, lastpacketseqnum, j, Taken(packet[j], d), d)
         \/ HeapOverrun(packet, lastpacketseqnum, d.size, d)
  PROVE  CleanReceiver(After(d), b)'
<1> DEFINE l == lastpacketseqnum
           c == Before(d)
           slot == Taken(packet[j], d)
<1>1. /\ l \in Nat /\ packet \in Table /\ s \in Nat
      /\ j \in Slots /\ ~ packet[j].isUse
      /\ d \in Datagram /\ c.seq = s /\ c.offset = 0
  <2>1. c = At(s, n, i * SplitSize) /\ i * SplitSize = 0 /\ d \in Datagram
    BY AfterPiece, SenderConstants
  <2>2. QED
    BY <2>1, AtFields DEF IInv, ReceiverTypeOK, Table, Unused, IsPiece
<1>2. CleanTable(c)
  BY DEF CleanState
<1>3. slot \in Slot
  BY <1>1, TakenType DEF Table
<1>4. /\ slot.data = 0 .. i * SplitSize + Body(n, i) - 1
      /\ slot.recvedpacks = i + 1 /\ slot.isUse
      /\ slot.size = n /\ slot.seqnum = s
      /\ d.offset + d.payload <= d.size
  BY <1>1, TakenCollects DEF Table
<1>5. File(packet, l, j, slot, d)
  <2>1. d.offset + d.payload \in Nat /\ d.size \in Nat
    BY <1>1 DEF Datagram
  <2>2. QED
    BY <1>4, <2>1 DEF HeapOverrun
<1> HIDE DEF slot, c
<1>6. CASE s = l
  <2>1. Cardinality(StaleSlots) < b /\ Cardinality(StaleSlots) \in Nat
    BY <1>1, <1>6, StaleFinite DEF Passed, CleanState, c
  <2>2. \A k \in Slots : packet[k].isUse => Stale(k)
    BY <1>1, <1>2, <1>6 DEF CleanTable
  <2>3. Cardinality(StaleSlots) <= b
    BY <2>1
  <2>4. QED
    BY <1>1, <1>3, <1>4, <1>5, <1>6, <2>1, <2>2, <2>3, CleanLate
<1>7. CASE s = l + 1
  <2>1. ~ Stale(j) /\ \A k \in Slots \ {j} : packet[k].isUse => Stale(k)
    BY <1>1, <1>2 DEF CleanTable, Collects, Stale
  <2>2. QED
    BY <1>1, <1>3, <1>4, <1>5, <1>7, <2>1, CleanNext DEF c
<1>8. QED
  BY <1>6, <1>7

(* One call of Revc brings the receiver from one side of a piece to the    *)
(* other.                                                                  *)
LEMMA CleanReceive ==
  ASSUME Perfect, IInv, NEW d, NEW s, NEW n, NEW i, IsPiece(d, s, n, i),
         NEW b \in Nat, CleanState(Before(d), b), Revc(d)
  PROVE  CleanReceiver(After(d), b)'
<1> DEFINE l == lastpacketseqnum
           c == Before(d)
<1>1. CASE wild # {}
  <2>1. wild \subseteq wild' /\ wild \subseteq Stray
    BY WildGrows DEF IInv, ReceiverTypeOK
  <2>2. \E w \in wild : w.at = "slot"
    BY <1>1, <2>1 DEF Revc, HeapIntact, Stray
  <2>3. b > 0 /\ b >= NumSlots
    BY <1>1, <2>2 DEF CleanState
  <2>4. QED
    BY <1>1, <2>1, <2>3, CleanStray
<1>2. CASE wild = {}
  <2>1. /\ l \in Nat /\ packet \in Table /\ s \in Nat /\ d \in Datagram
        /\ d.seq = s /\ d.payload \in Nat \ {0} /\ c.seq = s
        /\ (c.offset = 0 <=> i = 0) /\ c.offset \in Nat
    BY AfterPiece, AtFields DEF IInv, ReceiverTypeOK, Table, IsPiece
  <2>2. CleanTable(c) /\ Cardinality(StaleSlots) <= b
    BY <1>2 DEF CleanState
  <2>3. TableAfterAhead(d) = packet /\ LastAfterAhead(d) = l
    BY <2>1, <2>2, NeverAhead DEF CleanTable
  <2>4. CASE Ignore(d)
    BY <1>2, <2>4, CleanIgnored
  <2>5. ASSUME ~ Rejected(d)
        PROVE  s = l \/ s = l + 1
    BY <2>1, <2>2, <2>5 DEF Rejected, CleanTable
  <2>6. ASSUME ~ Rejected(d), Holding(packet, s) = {}
        PROVE  i = 0 /\ c.offset = 0
    BY <2>1, <2>2, <2>5, <2>6 DEF CleanTable
  <2>7. CASE AddToFrame(d)
    <3>1. ~ Rejected(d)
      BY <2>7 DEF AddToFrame
    <3>2. PICK j \in Holding(packet, s) :
            \/ File(packet, l, j, Added(packet[j], d), d)
            \/ HeapOverrun(packet, l, packet[j].size, d)
      BY <2>1, <2>3, <2>7 DEF AddToFrame
    <3>3. QED
      BY <1>2, <2>5, <3>1, <3>2, CleanAdd
  <2>8. CASE StartFrame(d)
    <3>1. ~ Rejected(d) /\ Holding(packet, s) = {}
      BY <2>1, <2>3, <2>8 DEF StartFrame
    <3>2. PICK j \in Unused(packet) :
            \/ File(packet, l, j, Taken(packet[j], d), d)
            \/ HeapOverrun(packet, l, d.size, d)
      BY <2>3, <2>8 DEF StartFrame
    <3>3. i = 0
      BY <2>6, <3>1
    <3>4. QED
      BY <1>2, <2>5, <3>1, <3>2, <3>3, CleanStart
  <2>9. CASE NoSlotLeft(d)
    <3>1. ~ Rejected(d) /\ Holding(packet, s) = {} /\ Unused(packet) = {}
      BY <2>1, <2>3, <2>9 DEF NoSlotLeft
    <3>2. c.offset = 0
      BY <2>6, <3>1
    <3>3. StaleSlots = Slots
      BY <2>2, <3>1, <3>2 DEF CleanTable, Collects, StaleSlots, Unused
    <3>4. Cardinality(Slots) = NumSlots
      BY FS_Interval, ReceiverConstants DEF Slots
    <3>5. b >= NumSlots /\ b > 0
      BY <2>2, <3>3, <3>4, ReceiverConstants
    <3>6. wild' # {}
      BY <2>9 DEF NoSlotLeft, SlotOverrun
    <3>7. QED
      BY <3>5, <3>6, CleanStray
  <2>10. QED
    BY <2>4, <2>7, <2>8, <2>9 DEF Revc
<1>3. QED
  BY <1>1, <1>2

-----------------------------------------------------------------------------
(* The receiver that came at any time *)

(* The slots in use other than j hold earlier frames, the full ones whole. *)
Earlier(p, j, s) ==
  \A k \in Slots \ {j} : p[k].isUse =>
    p[k].seqnum < s /\ (p[k].isFull => Whole(Frame(p[k])))

(* The slot of frame s after piece i: it collects, or it was cut.          *)
Piled(slot, s, n, i) ==
  /\ slot.isUse /\ slot.seqnum = s
  /\ i + 1 = TotalFragment(n)
       /\ (slot.isFull \/ slot.recvedpacks = TotalFragment(n))
         => Whole(Frame(slot))
  /\ i + 1 < TotalFragment(n) =>
       /\ slot.recvedpacks # TotalFragment(n)
       /\ LET e == At(s, n, (i + 1) * SplitSize)
          IN  Collects(slot, e) \/ Cut(slot, e)

(* A catch-up hands on full frames only.                                   *)
LEMMA CatchUpWhole ==
  ASSUME NEW p \in Table, NEW l \in Nat, CatchUp(p, l),
         \A k \in Slots : p[k].isUse /\ p[k].isFull => Whole(Frame(p[k]))
  PROVE  WholeFrames'
<1>1. PICK n \in l .. l + SkipRounds :
        /\ \A s \in l + 1 .. n : \A k \in Holding(p, s) : p[k].isFull
        /\ out' = {Frame(p[k]) : k \in {j \in Slots : p[j].isUse
                                          /\ p[j].seqnum \in l + 1 .. n}}
  BY DEF CatchUp, CatchUpWithin, Reaches, Settle
<1>2. \A k \in Slots : p[k].isUse /\ p[k].seqnum \in l + 1 .. n
                         => Whole(Frame(p[k]))
  BY <1>1 DEF Holding
<1>3. \A f \in out' : Whole(f)
  BY <1>1, <1>2
<1>4. QED
  BY <1>3 DEF WholeFrames, Whole

(* Frames are handed on whole when the full slots are.                     *)
LEMMA HandOnWhole ==
  ASSUME NEW p \in Table, NEW l \in Nat, NEW j \in Slots, HandOn(p, l, j),
         Whole(Frame(p[j])),
         \A k \in Slots : p[k].isUse /\ p[k].isFull => Whole(Frame(p[k]))
  PROVE  WholeFrames'
<1>1. CASE Settle(Release(p, {j}), p[j].seqnum, {Frame(p[j])})
  BY <1>1 DEF Settle, WholeFrames, Whole
<1>2. CASE CatchUp(Release(p, Holding(p, l + 1)), l + 1)
  <2> DEFINE q == Release(p, Holding(p, l + 1))
  <2>1. q \in Table /\ \A k \in Slots : q[k].isUse => q[k] = p[k]
    BY ReleaseType
  <2>2. CatchUp(q, l + 1)
    BY <1>2
  <2> HIDE DEF q
  <2>3. \A k \in Slots : q[k].isUse /\ q[k].isFull => Whole(Frame(q[k]))
    BY <2>1
  <2>4. QED
    BY <2>1, <2>2, <2>3, CatchUpWhole
<1>3. CASE Settle(p, l, {})
  BY <1>3 DEF Settle, WholeFrames
<1>4. QED
  BY <1>1, <1>2, <1>3 DEF HandOn

(* A piece was filed in slot j.                                            *)
LEMMA JoinFiled ==
  ASSUME NEW d, NEW s, NEW n, NEW i, IsPiece(d, s, n, i),
         NEW p \in Table, NEW l \in Nat, l <= s, NEW j \in Slots,
         NEW slot \in Slot, Earlier(p, j, s), Piled(slot, s, n, i),
         File(p, l, j, slot, d)
  PROVE  JoinReceiver(After(d))'
<1> DEFINE e == After(d)
           q == [p EXCEPT ![j] = slot]
<1>1. q \in Table /\ q[j] = slot /\ \A k \in Slots : k # j => q[k] = p[k]
  BY DEF Table
<1>2. /\ d.total = TotalFragment(n) /\ s \in Nat /\ i \in Nat
      /\ TotalFragment(n) \in Nat
      /\ \/ i + 1 = TotalFragment(n) /\ e = At(s + 1, 0, 0)
         \/ /\ i + 1 < TotalFragment(n)
            /\ e = At(s, n, (i + 1) * SplitSize)
  BY PieceCounts
<1>3. IF slot.recvedpacks = TotalFragment(n) THEN HandOn(q, l, j)
                                             ELSE Settle(q, l, {})
  BY <1>2 DEF File
<1>4. Settled(q, l)
  <2> HIDE DEF q
  <2>1. QED
    BY <1>1, <1>3, HandOnSettles, SettleNothing
<1>5. \A k \in Slots : k # j /\ q[k].isUse =>
        q[k].seqnum < s /\ (q[k].isFull => Whole(Frame(q[k])))
  BY <1>1 DEF Earlier
<1> HIDE DEF q, e
<1>6. CASE i + 1 = TotalFragment(n)
  <2>1. e = At(s + 1, 0, 0)
    BY <1>2, <1>6
  <2>2. (slot.isFull \/ slot.recvedpacks = TotalFragment(n))
          => Whole(Frame(slot))
    BY <1>6 DEF Piled
  <2>3. \A k \in Slots : q[k].isUse =>
          q[k].seqnum < s + 1 /\ (q[k].isFull => Whole(Frame(q[k])))
    <3>1. q[j].seqnum < s + 1 /\ (q[j].isFull => Whole(Frame(q[j])))
      BY <1>1, <1>2, <2>2 DEF Piled
    <3>2. \A k \in Slots : q[k].seqnum \in Nat
      BY <1>1 DEF Table, Slot
    <3>3. QED
      BY <1>2, <1>5, <3>1, <3>2
  <2>4. WholeFrames'
    <3>1. CASE slot.recvedpacks = TotalFragment(n)
      BY <1>1, <1>3, <2>2, <2>3, <3>1, HandOnWhole
    <3>2. CASE slot.recvedpacks # TotalFragment(n)
      BY <1>3, <3>2 DEF Settle, WholeFrames
    <3>3. QED
      BY <3>1, <3>2
  <2>5. \A k \in Slots : packet'[k].isUse =>
          /\ packet'[k].seqnum < s + 1
          /\ packet'[k].isFull => Whole(Frame(packet'[k]))
    BY <1>4, <2>3 DEF Settled
  <2>6. e.seq = s + 1 /\ e.offset = 0
    BY <2>1, AtFields
  <2>7. JoinTable(e)'
    BY <2>5, <2>6 DEF JoinTable, Whole, Frame
  <2>8. QED
    BY <2>4, <2>7 DEF JoinReceiver, e
<1>7. CASE i + 1 # TotalFragment(n)
  <2>1. i + 1 < TotalFragment(n) /\ e = At(s, n, (i + 1) * SplitSize)
    BY <1>2, <1>7
  <2>2. slot.recvedpacks # TotalFragment(n)
        /\ (Collects(slot, e) \/ Cut(slot, e))
    BY <2>1 DEF Piled
  <2>3. packet' = q /\ lastpacketseqnum' = l /\ out' = {}
    BY <1>3, <2>2 DEF Settle
  <2>4. e.seq = s /\ e.offset = (i + 1) * SplitSize
    BY <2>1, AtFields
  <2>5. e.offset > 0
    <3>1. i + 1 \in Nat \ {0} /\ SplitSize \in Nat \ {0}
      BY SenderConstants DEF IsPiece
    <3>2. QED
      BY <2>4, <3>1
  <2>6. slot.isUse /\ slot.seqnum = s
    BY DEF Piled
  <2>7. JoinTable(e)'
    <3>1. \A k \in Slots : q[k].isUse =>
            \/ q[k].seqnum < s /\ (q[k].isFull => Whole(Frame(q[k])))
            \/ q[k].seqnum = s /\ (Collects(q[k], e) \/ Cut(q[k], e))
      BY <1>1, <1>5, <2>2, <2>6
    <3>2. j \in Holding(q, s)
      BY <1>1, <2>6 DEF Holding
    <3>3. QED
      BY <2>3, <2>4, <2>5, <3>1, <3>2
         DEF JoinTable, Collects, Cut, Whole, Frame, Holding
  <2>8. QED
    BY <2>3, <2>7 DEF JoinReceiver, WholeFrames, e
<1>8. QED
  BY <1>6, <1>7

(* A table in which every slot belongs to a frame of the past or to the    *)
(* frame at c.                                                             *)
Kept(p, c) ==
  \A k \in Slots : p[k].isUse =>
    \/ p[k].seqnum < c.seq /\ (p[k].isFull => Whole(Frame(p[k])))
    \/ /\ p[k].seqnum = c.seq /\ c.offset > 0
       /\ Collects(p[k], c) \/ Cut(p[k], c)

(* A slot with the first o + z positions of its frame.                     *)
LEMMA CollectsAt ==
  ASSUME NEW s, NEW n, NEW i \in Nat, NEW o \in Nat, NEW z \in Nat \ {0},
         o + z = (i + 1) * SplitSize, NEW slot,
         slot.seqnum = s, slot.size = n, slot.data = 0 .. o + z - 1,
         slot.recvedpacks = i + 1
  PROVE  Collects(slot, At(s, n, (i + 1) * SplitSize))
<1> DEFINE w == (i + 1) * SplitSize
<1>1. w \in Nat \ {0} /\ w = o + z
  OBVIOUS
<1>2. slot.recvedpacks * SplitSize = w
  OBVIOUS
<1> HIDE DEF w
<1>3. slot.data = 0 .. w - 1
  BY <1>1
<1>4. At(s, n, w) = [seq |-> s, size |-> n, offset |-> w]
  BY <1>1 DEF At
<1>5. QED
  BY <1>1, <1>2, <1>3, <1>4 DEF Collects, w

(* A slot a piece was added to.                                            *)
LEMMA AddedPiled ==
  ASSUME Perfect, NEW d, NEW s, NEW n, NEW i, IsPiece(d, s, n, i),
         NEW slot \in Slot, slot.isUse, slot.seqnum = s,
         Collects(slot, Before(d)) \/ Cut(slot, Before(d))
  PROVE  Piled(Added(slot, d), s, n, i)
<1> DEFINE o == i * SplitSize
           z == Body(n, i)
           c == Before(d)
           new == Added(slot, d)
           t == TotalFragment(n)
<1>1. /\ o \in Nat /\ z \in Nat \ {0} /\ n \in Nat /\ d \in Datagram
      /\ d.total = t /\ c = At(s, n, o) /\ SplitSize \in Nat \ {0}
      /\ t \in Nat /\ i \in Nat /\ i + 1 <= t
      /\ \/ i + 1 = t /\ o + z = n
         \/ i + 1 < t /\ o + z = (i + 1) * SplitSize
  BY AfterPiece DEF IsPiece
<1>2. t < PackMod /\ PackMod \in Nat
  BY ReceiverConstants DEF Perfect, IsPiece
<1>3. /\ new \in Slot /\ new.isUse /\ new.seqnum = s
      /\ new.recvedpacks = (slot.recvedpacks + 1) % PackMod
      /\ new.size = slot.size
      /\ new.isFull <=> slot.isFull \/ (slot.recvedpacks + 1) % PackMod = t
  <2> DEFINE packs == (slot.recvedpacks + 1) % PackMod
  <2>1. new \in Slot /\ new.isUse /\ new.seqnum = s
    BY <1>1, AddedType
  <2>2. new = [slot EXCEPT !.recvedpacks = packs,
                           !.data = slot.data \cup Copied(d),
                           !.isFull = slot.isFull \/ packs = t]
    BY <1>1 DEF Added
  <2> HIDE DEF packs, new, t
  <2>3. /\ new.recvedpacks = packs /\ new.size = slot.size
        /\ new.isFull = (slot.isFull \/ packs = t)
    BY <2>2 DEF Slot
  <2>4. QED
    BY <2>1, <2>3 DEF packs
<1>4. slot.recvedpacks \in Nat
  BY <1>2 DEF Slot
<1>5. CASE Collects(slot, c)
  <2>1. /\ new.data = 0 .. o + z - 1 /\ new.recvedpacks = i + 1
        /\ new.size = n
    BY <1>5, CollectsMore
  <2> HIDE DEF new
  <2>2. i + 1 = t => Whole(Frame(new))
    <3>1. ASSUME i + 1 = t
          PROVE  new.data = 0 .. n - 1
      BY <1>1, <2>1, <3>1
    <3>2. QED
      BY <2>1, <3>1, Zenon DEF Whole, Frame
  <2>3. ASSUME i + 1 < t
        PROVE  Collects(new, At(s, n, (i + 1) * SplitSize))
    <3> HIDE DEF o, z, t
    <3>1. QED
      BY <1>1, <1>3, <2>1, <2>3, CollectsAt
  <2> HIDE DEF t
  <2>4. QED
    BY <1>1, <1>3, <2>1, <2>2, <2>3 DEF Piled, new, t
<1>6. CASE Cut(slot, c)
  <2>1. ~ slot.isFull /\ slot.recvedpacks * SplitSize < i * SplitSize
    BY <1>1, <1>6, AtFields DEF Cut
  <2>2. slot.recvedpacks < i
    BY <1>1, <1>4, <2>1, TimesSmaller
  <2>3. (slot.recvedpacks + 1) % PackMod = slot.recvedpacks + 1
    BY <1>1, <1>2, <1>4, <2>2
  <2>4. new.recvedpacks = slot.recvedpacks + 1 /\ ~ new.isFull
        /\ new.recvedpacks # t
    BY <1>1, <1>3, <1>4, <2>1, <2>2, <2>3
  <2>5. (slot.recvedpacks + 1) * SplitSize < (i + 1) * SplitSize
        /\ (i + 1) * SplitSize # 0 /\ o # 0
    <3>1. slot.recvedpacks * SplitSize \in Nat
          /\ (slot.recvedpacks + 1) * SplitSize \in Nat
      BY <1>1, <1>4
    <3>2. (slot.recvedpacks + 1) * SplitSize < (i + 1) * SplitSize
      BY <1>1, <1>4, <2>2, TimesSmaller
    <3>3. QED
      BY <1>1, <2>1, <3>1, <3>2
  <2>6. new.size = At(s, n, (i + 1) * SplitSize).size
    BY <1>1, <1>3, <1>6, <2>5, AtFields DEF Cut
  <2> HIDE DEF new
  <2>8. Cut(new, At(s, n, (i + 1) * SplitSize))
    BY <2>4, <2>5, <2>6, AtFields DEF Cut
  <2> HIDE DEF t
  <2>7. QED
    BY <1>1, <1>3, <2>4, <2>8 DEF Piled, new, t
<1>7. QED
  BY <1>5, <1>6

(* A slot a piece has taken.                                               *)
LEMMA TakenPiled ==
  ASSUME NEW d, NEW s, NEW n, NEW i, IsPiece(d, s, n, i),
         NEW slot \in Slot, i = 0 \/ ~ slot.isFull
  PROVE  Piled(Taken(slot, d), s, n, i)
<1> DEFINE new == Taken(slot, d)
           t == TotalFragment(n)
           o == i * SplitSize
           z == Body(n, i)
<1>1. /\ d.total = t /\ t \in Nat /\ i \in Nat /\ i + 1 <= t /\ d.seq = s
      /\ SplitSize \in Nat \ {0} /\ n \in Nat \ {0} /\ d.size = n
  BY PieceCounts, AfterPiece
<1>2. /\ new.isUse /\ new.seqnum = s /\ new.recvedpacks = 1
      /\ new.size = n
      /\ new.isFull <=> slot.isFull \/ t = 1
  BY <1>1 DEF Taken
<1>3. CASE i = 0
  <2>1. new.data = 0 .. o + z - 1 /\ new.size = n /\ new.recvedpacks = i + 1
    BY <1>3, TakenCollects
  <2>2. /\ o \in Nat /\ z \in Nat \ {0}
        /\ \/ i + 1 = t /\ o + z = n
           \/ i + 1 < t /\ o + z = (i + 1) * SplitSize
    BY AfterPiece
  <2> HIDE DEF new, t, o, z
  <2>3. i + 1 = t => Whole(Frame(new))
    <3>1. ASSUME i + 1 = t
          PROVE  new.data = 0 .. n - 1
      BY <1>1, <2>1, <2>2, <3>1
    <3>2. QED
      BY <2>1, <3>1, Zenon DEF Whole, Frame
  <2>4. ASSUME i + 1 < t
        PROVE  Collects(new, At(s, n, (i + 1) * SplitSize))
    BY <1>1, <1>2, <2>1, <2>2, <2>4, CollectsAt
  <2>5. QED
    BY <1>1, <1>2, <2>1, <2>3, <2>4 DEF Piled, new, t
<1>4. CASE i # 0 /\ ~ slot.isFull
  <2> HIDE DEF new, t
  <2>1. t # 1 /\ ~ new.isFull /\ 1 < i + 1
    BY <1>1, <1>2, <1>4
  <2>2. 1 * SplitSize < (i + 1) * SplitSize /\ (i + 1) * SplitSize # 0
    BY <1>1, <2>1, TimesSmaller
  <2>3. Cut(new, At(s, n, (i + 1) * SplitSize))
    BY <1>2, <2>1, <2>2, AtFields DEF Cut
  <2>4. QED
    BY <1>1, <1>2, <2>1, <2>3 DEF Piled, new, t
<1>5. QED
  BY <1>3, <1>4

(* One call of Revc brings the late receiver from one side of a piece to   *)
(* the other.                                                              *)
LEMMA JoinReceive ==
  ASSUME Perfect, IInv, NEW d, NEW s, NEW n, NEW i, IsPiece(d, s, n, i),
         JoinReceiver(Before(d)), Revc(d)
  PROVE  JoinReceiver(After(d))'
<1> DEFINE l == lastpacketseqnum
           c == Before(d)
           e == After(d)
           p == TableAfterAhead(d)
           m == LastAfterAhead(d)
<1>1. SUFFICES ASSUME wild' = {}
               PROVE  JoinReceiver(e)'
  BY DEF JoinReceiver
<1>2. wild = {}
  BY <1>1, WildGrows
<1>3. /\ l \in Nat /\ packet \in Table /\ s \in Nat \ {0} /\ d \in Datagram
      /\ d.seq = s /\ d.payload \in Nat \ {0} /\ c.seq = s
      /\ (c.offset = 0 <=> i = 0) /\ c.offset \in Nat
  BY AfterPiece, AtFields DEF IInv, ReceiverTypeOK, Table, IsPiece
<1>4. WholeFrames /\ (Fresh \/ JoinTable(c))
  BY <1>2 DEF JoinReceiver
<1>5. Kept(packet, c)
  BY <1>4 DEF Kept, Fresh, JoinTable, EmptySlot
<1>6. ReceiverTypeOK /\ UniqueSeq
  BY DEF IInv
<1>7. CASE Ignore(d)
  <2>1. /\ packet' = packet /\ l' = l /\ out' = {} /\ s < l
    BY <1>3, <1>7 DEF Ignore, Rejected
  <2>2. ~ Fresh
    BY <1>3, <2>1 DEF Fresh
  <2>3. e.seq = s \/ (e.seq = s + 1 /\ e.offset = 0)
    BY AfterPiece, AtFields
  <2>4. JoinTable(c)
    BY <1>4, <2>2
  <2> HIDE DEF e, c
  <2>5. JoinTable(e)'
    BY <1>3, <2>1, <2>3, <2>4 DEF JoinTable, Table, Slot, Whole, Frame
  <2>6. QED
    BY <2>1, <2>5 DEF JoinReceiver, WholeFrames
<1>8. ASSUME ~ Rejected(d)
      PROVE  /\ p \in Table /\ Unique(p) /\ m \in Nat /\ m <= s
             /\ Kept(p, c)
             /\ Holding(p, s) = {} => Fresh \/ i = 0
             /\ \A k \in Slots : p[k] # packet[k] => p[k].isFull = packet[k].isFull
  <2>1. /\ p \in Table /\ Unique(p) /\ m \in Nat /\ m <= s /\ l <= s
    BY <1>3, <1>6, <1>8, AheadKeeps DEF Rejected
  <2>2. \A k \in Slots : p[k].isUse => p[k] = packet[k]
    BY <1>3, ReleaseType DEF TableAfterAhead
  <2>3. Kept(p, c)
    BY <1>5, <2>2 DEF Kept
  <2>4. Holding(p, s) = Holding(packet, s)
    <3>1. CASE Ahead(d)
      <4>1. l + 1 # s
        BY <1>3, <3>1, ReceiverConstants DEF Ahead, Perfect
      <4>2. \A k \in Slots : packet[k].seqnum = s =>
              k \notin Holding(packet, l + 1)
        BY <4>1 DEF Holding
      <4>3. p = Release(packet, Holding(packet, l + 1))
        BY <3>1 DEF TableAfterAhead
      <4>4. \A k \in Slots : packet[k].seqnum = s => p[k] = packet[k]
        BY <1>3, <4>2, <4>3, ReleaseType
      <4>5. QED
        BY <2>2, <4>4 DEF Holding
    <3>2. CASE ~ Ahead(d)
      BY <3>2 DEF TableAfterAhead
    <3>3. QED
      BY <3>1, <3>2
  <2>5. Holding(p, s) = {} => Fresh \/ i = 0
    BY <1>3, <1>4, <2>1, <2>4 DEF JoinTable
  <2>6. \A k \in Slots : p[k].isFull = packet[k].isFull
    BY <1>3, EmptySlotType DEF TableAfterAhead, Release, EmptySlot
  <2>7. QED
    BY <2>1, <2>3, <2>5, <2>6
<1> HIDE DEF p, m, e
<1>9. CASE AddToFrame(d)
  <2>1. ~ Rejected(d)
    BY <1>9 DEF AddToFrame
  <2>2. PICK j \in Holding(p, s) : File(p, m, j, Added(p[j], d), d)
    BY <1>1, <1>3, <1>9 DEF AddToFrame, HeapOverrun, p, m
  <2>3. /\ j \in Slots /\ p[j] \in Slot /\ p[j].isUse /\ p[j].seqnum = s
        /\ p \in Table /\ Unique(p) /\ m \in Nat /\ m <= s /\ Kept(p, c)
    BY <1>8, <2>1 DEF Holding, Table
  <2>4. Collects(p[j], c) \/ Cut(p[j], c)
    BY <1>3, <2>3 DEF Kept
  <2>5. Piled(Added(p[j], d), s, n, i)
    BY <2>3, <2>4, AddedPiled
  <2>6. Earlier(p, j, s)
    BY <1>3, <2>3 DEF Earlier, Kept, Unique
  <2>7. Added(p[j], d) \in Slot
    BY <1>3, <2>3, AddedType
  <2>8. QED
    BY <1>3, <2>2, <2>3, <2>5, <2>6, <2>7, JoinFiled DEF e
<1>10. CASE StartFrame(d)
  <2>1. ~ Rejected(d) /\ Holding(p, s) = {}
    BY <1>3, <1>10 DEF StartFrame, p
  <2>2. PICK j \in Unused(p) : File(p, m, j, Taken(p[j], d), d)
    BY <1>1, <1>10 DEF StartFrame, HeapOverrun, p, m
  <2>3. /\ j \in Slots /\ p[j] \in Slot
        /\ p \in Table /\ m \in Nat /\ m <= s /\ Kept(p, c)
        /\ Fresh \/ i = 0
    BY <1>8, <2>1 DEF Unused, Table
  <2>4. i = 0 \/ ~ p[j].isFull
    BY <1>8, <2>1, <2>3 DEF Fresh, EmptySlot
  <2>5. Piled(Taken(p[j], d), s, n, i)
    BY <2>3, <2>4, TakenPiled
  <2>6. Earlier(p, j, s)
    BY <1>3, <2>1, <2>3 DEF Earlier, Kept, Holding
  <2>7. Taken(p[j], d) \in Slot
    BY <1>3, <2>3, TakenType
  <2>8. QED
    BY <1>3, <2>2, <2>3, <2>5, <2>6, <2>7, JoinFiled DEF e
<1>11. ~ NoSlotLeft(d)
  BY <1>1 DEF NoSlotLeft, SlotOverrun
<1>12. QED
  BY <1>7, <1>9, <1>10, <1>11 DEF Revc, e

-----------------------------------------------------------------------------
(* The steps of the sender and of the receiver *)

LEMMA PieceIs ==
  ASSUME NEW d, Piece(d)
  PROVE  \E n \in FrameSizes, i \in Nat : IsPiece(d, d.seq, n, i)
<1>1. PICK n \in FrameSizes : \E i \in 0 .. TotalFragment(n) - 1 :
        d.seq \in Nat \ {0} /\ d = Fragment(d.seq, n, i, Body(n, i))
  BY DEF Piece
<1>2. PICK i \in 0 .. TotalFragment(n) - 1 :
        d.seq \in Nat \ {0} /\ d = Fragment(d.seq, n, i, Body(n, i))
  BY <1>1
<1>3. n \in Nat \ {0} /\ TotalFragment(n) \in Nat
  BY SenderConstants, FragmentsFit
<1>4. i \in Nat /\ i < TotalFragment(n)
  BY <1>3
<1>5. QED
  BY <1>2, <1>4 DEF IsPiece

(* The network gives the datagrams in order, each once.                    *)
LEMMA ReceiveTakesFirst ==
  ASSUME Perfect, Base, NEW k \in DOMAIN net, Receive(k)
  PROVE  /\ net # <<>> /\ net' = Tail(net) /\ dups' = dups
         /\ net[1] \in Datagram /\ Piece(net[1]) /\ Revc(net[1])
         /\ UNCHANGED svars
<1>1. /\ net \in Seq(Datagram) /\ dups = 0 /\ MaxDups = 0 /\ ~ Reorders
      /\ \A j \in 1 .. Len(net) : Piece(net[j])
  BY DEF Base, Perfect
<1>2. Revc(net[k]) /\ Delivers(k) /\ UNCHANGED svars
  BY DEF Receive
<1>3. k = 1 /\ net' = RemoveAt(net, 1) /\ dups' = dups
  BY <1>1, <1>2 DEF Delivers
<1>4. DOMAIN net = 1 .. Len(net) /\ Len(net) \in Nat
  BY <1>1, LenProperties
<1>5. 1 \in 1 .. Len(net) /\ net # <<>>
  BY <1>3, <1>4, EmptySeq
<1>6. net' = Tail(net)
  <2>1. SubSeq(net, 1, 1 - 1) = <<>>
    BY SubSeqEmpty
  <2>2. SubSeq(net, 1 + 1, Len(net)) = Tail(net) /\ Tail(net) \in Seq(Datagram)
    BY <1>1, <1>5, TailIsSubSeq, HeadTailProperties
  <2>3. RemoveAt(net, 1) = <<>> \o Tail(net)
    BY <2>1, <2>2 DEF RemoveAt
  <2>4. QED
    BY <1>3, <2>2, <2>3, ConcatEmptySeq
<1>7. net[1] \in Datagram
  BY <1>1, <1>5, ElementOfSeq
<1>8. QED
  BY <1>1, <1>2, <1>3, <1>5, <1>6, <1>7

LEMMA SendBase ==
  ASSUME Perfect, Room, Base, Send
  PROVE  Base'
<1>1. /\ SenderOK /\ net \in Seq(Datagram) /\ dups = 0 /\ IInv
      /\ \A k \in 1 .. Len(net) : Piece(net[k])
  BY DEF Base
<1>2. UNCHANGED rvars /\ SenderStep
  BY DEF Send
<1>3. /\ SenderOK' /\ dups' = dups
      /\ \/ net' = net
         \/ \E d \in Datagram : Piece(d) /\ net' = Append(net, d)
  BY <1>1, <1>2, SenderSends
<1>4. IInv'
  BY <1>1, <1>2 DEF IInv, ReceiverTypeOK, UniqueSeq, rvars
<1>5. /\ net' \in Seq(Datagram)
      /\ \A k \in 1 .. Len(net') : Piece(net'[k])
  <2>1. ASSUME NEW d \in Datagram, Piece(d), net' = Append(net, d)
        PROVE  /\ net' \in Seq(Datagram)
               /\ \A k \in 1 .. Len(net') : Piece(net'[k])
    BY <1>1, <2>1, AppendProperties, LenProperties
  <2>2. QED
    BY <1>1, <1>3, <2>1
<1>6. QED
  BY <1>1, <1>3, <1>4, <1>5 DEF Base

LEMMA ReceiveBase ==
  ASSUME Perfect, Base, NEW k \in DOMAIN net, Receive(k)
  PROVE  Base'
<1>1. /\ SenderOK /\ net \in Seq(Datagram) /\ dups = 0 /\ IInv
      /\ \A j \in 1 .. Len(net) : Piece(net[j])
  BY DEF Base
<1>2. /\ net # <<>> /\ net' = Tail(net) /\ dups' = dups
      /\ net[1] \in Datagram /\ Revc(net[1]) /\ UNCHANGED svars
  BY ReceiveTakesFirst
<1>3. IInv'
  <2> DEFINE d == net[1]
  <2>1. d \in Datagram /\ Revc(d)
    BY <1>2
  <2> HIDE DEF d
  <2>2. QED
    BY <1>1, <2>1, RevcKeepsInvariant
<1>4. SenderOK'
  BY <1>1, <1>2 DEF SenderOK, svars
<1>5. /\ net' \in Seq(Datagram)
      /\ \A j \in 1 .. Len(net') : Piece(net'[j])
  BY <1>1, <1>2, HeadTailProperties, LenProperties
<1>6. QED
  BY <1>1, <1>2, <1>3, <1>4, <1>5 DEF Base

(* A receiver that does nothing stays where it is.                         *)
LEMMA CleanStays ==
  ASSUME NEW c, NEW b, UNCHANGED rvars, CleanReceiver(c, b)
  PROVE  CleanReceiver(c, b)'
BY DEF rvars, CleanReceiver, CleanState, CleanTable, StaleSlots, Stale, Passed, Collects,
       Holding, WholeFrames, Whole

LEMMA JoinStays ==
  ASSUME NEW c, UNCHANGED rvars, JoinReceiver(c)
  PROVE  JoinReceiver(c)'
BY DEF rvars, JoinReceiver, JoinTable, Fresh, Collects, Cut, Frame,
       Holding, WholeFrames, Whole

(* What the sender sends lengthens the path at its far end.                *)
LEMMA SendPath ==
  ASSUME Perfect, Room, SenderOK, net \in Seq(Datagram), SenderStep,
         NEW R \in Nat, NEW dead, NEW life \in [1 .. Len(net) + 1 -> 0 .. R],
         Path(net, SenderAt, life, R, dead)
  PROVE  \E long \in [1 .. Len(net') + 1 -> 0 .. R] :
           /\ Path(net', SenderAt', long, R, dead) /\ long[1] = life[1]
           /\ ReceiverAt' = ReceiverAt
<1>1. CASE net' = net /\ SenderAt' = SenderAt
  BY <1>1 DEF ReceiverAt
<1>2. CASE \E d \in Datagram :
             /\ Before(d) = SenderAt /\ After(d) = SenderAt'
             /\ net' = Append(net, d)
  <2>1. PICK d \in Datagram :
          /\ Before(d) = SenderAt /\ After(d) = SenderAt'
          /\ net' = Append(net, d)
    BY <1>2
  <2>2. PICK long \in [1 .. Len(Append(net, d)) + 1 -> 0 .. R] :
          /\ Path(Append(net, d), After(d), long, R, dead)
          /\ long[1] = life[1]
          /\ Pos(Append(net, d), After(d), 1) = Pos(net, SenderAt, 1)
    BY <2>1, PathAppend
  <2>3. ReceiverAt' = Pos(net', SenderAt', 1)
    BY DEF ReceiverAt
  <2>4. QED
    BY <2>1, <2>2, <2>3 DEF ReceiverAt
<1>3. QED
  BY <1>1, <1>2, SenderSends

LEMMA SendClean ==
  ASSUME Perfect, Room, Base, Send, NEW R \in Nat
  PROVE  (Clean(R) => Clean(R)') /\ (R = 0 => (Joined => Joined'))
<1>1. /\ SenderOK /\ net \in Seq(Datagram) /\ UNCHANGED rvars /\ SenderStep
  BY DEF Base, Send
<1>2. ASSUME Clean(R)
      PROVE  Clean(R)'
  <2>1. PICK life \in [1 .. Len(net) + 1 -> 0 .. R] :
          Path(net, SenderAt, life, R, {}) /\ CleanReceiver(ReceiverAt, life[1])
    BY <1>2 DEF Clean
  <2>2. PICK long \in [1 .. Len(net') + 1 -> 0 .. R] :
          /\ Path(net', SenderAt', long, R, {}) /\ long[1] = life[1]
          /\ ReceiverAt' = ReceiverAt
    BY <1>1, <2>1, SendPath
  <2>3. CleanReceiver(ReceiverAt, long[1])'
    BY <1>1, <2>1, <2>2, CleanStays
  <2>4. QED
    BY <2>2, <2>3 DEF Clean
<1>3. ASSUME R = 0, Joined
      PROVE  Joined'
  <2>1. PICK life \in [1 .. Len(net) + 1 -> 0 .. R] :
          Path(net, SenderAt, life, R, {}) /\ JoinReceiver(ReceiverAt)
    BY <1>3 DEF Joined
  <2>2. PICK long \in [1 .. Len(net') + 1 -> 0 .. R] :
          /\ Path(net', SenderAt', long, R, {})
          /\ ReceiverAt' = ReceiverAt
    BY <1>1, <2>1, SendPath
  <2>3. JoinReceiver(ReceiverAt)'
    BY <1>1, <2>1, <2>2, JoinStays
  <2>4. QED
    BY <1>3, <2>2, <2>3 DEF Joined
<1>4. QED
  BY <1>2, <1>3

LEMMA StaleNext == Cardinality(StaleSlots)' \in Nat
<1>1. IsFiniteSet(Slots)
  BY FS_Interval, ReceiverConstants DEF Slots
<1>2. StaleSlots' \subseteq Slots
  BY DEF StaleSlots
<1>3. QED
  BY <1>1, <1>2, FS_Subset, FS_CardinalityType

(* What holds of a sender holds of those that come after it.               *)
LEMMA CleanMore ==
  ASSUME NEW c, NEW b \in Nat, NEW more \in Nat, b <= more,
         CleanReceiver(c, b)'
  PROVE  CleanReceiver(c, more)'
<1>1. Cardinality(StaleSlots)' \in Nat /\ NumSlots \in Nat
  BY StaleNext, ReceiverConstants
<1>2. QED
  BY <1>1 DEF CleanReceiver, CleanState

(* Where a frame ends, the next sender may begin.                          *)
LEMMA CleanBegin ==
  ASSUME NEW c, c.offset = 0, NEW b \in Nat, NEW more \in Nat, b < more,
         lastpacketseqnum' \in Nat, CleanReceiver(c, b)',
         NEW e, e.seq = 1, e.offset = 0
  PROVE  CleanReceiver(e, more)'
<1>1. CleanReceiver(c, more)'
  BY CleanMore
<1>2. Cardinality(StaleSlots)' \in Nat
  BY StaleNext
<1>3. ASSUME wild' = {}
      PROVE  CleanTable(e)' /\ Cardinality(StaleSlots)' < more
  <2>1. CleanTable(c)' /\ Cardinality(StaleSlots)' <= b
    BY <1>3 DEF CleanReceiver, CleanState
  <2>2. \A k \in Slots : packet'[k].isUse =>
          packet'[k].seqnum <= lastpacketseqnum'
    BY <2>1 DEF CleanTable, Collects, Stale
  <2>3. CleanTable(e)'
    <3>1. PICK l \in Nat : l = lastpacketseqnum'
      OBVIOUS
    <3>2. e.seq <= l + 1 /\ ~ (e.offset > 0)
      OBVIOUS
    <3>3. \A k \in Slots : packet[k]'.isUse => Stale(k)'
      BY <2>2 DEF Stale
    <3>4. QED
      BY <3>1, <3>2, <3>3 DEF CleanTable
  <2>4. QED
    BY <1>2, <2>1, <2>3
<1>4. QED
  BY <1>1, <1>3 DEF CleanReceiver, CleanState

(* A new sender begins before frame one.                                   *)
LEMMA StartFields == Start.seq = 1 /\ Start.offset = 0
BY AtFields DEF Start

(* What the receiver takes off shortens the path at its near end.          *)
LEMMA ReceivePath ==
  ASSUME Perfect, Base, NEW k \in DOMAIN net, Receive(k),
         NEW R \in Nat, NEW dead, NEW life \in [1 .. Len(net) + 1 -> 0 .. R],
         Path(net, SenderAt, life, R, dead)
  PROVE  /\ ReceiverAt = Before(net[1])
         /\ life[1] \in 0 .. R /\ life[2] \in 0 .. R /\ life[1] <= life[2]
         /\ \E rest \in [1 .. Len(net') + 1 -> 0 .. R] :
              Path(net', SenderAt', rest, R, dead) /\ rest[1] = life[2]
         /\ \/ ReceiverAt' = After(net[1])
            \/ /\ ReceiverAt' = Start /\ life[1] < life[2]
               /\ After(net[1]).offset = 0 \/ life[1] \in dead
<1>1. /\ net \in Seq(Datagram) /\ net # <<>> /\ net' = Tail(net)
      /\ SenderAt' = SenderAt
  BY ReceiveTakesFirst DEF Base, SenderAt, svars
<1>2. Len(net) \in Nat \ {0}
  BY <1>1, EmptySeq
<1>3. PICK rest \in [1 .. Len(Tail(net)) + 1 -> 0 .. R] :
        /\ Path(Tail(net), SenderAt, rest, R, dead) /\ rest[1] = life[2]
        /\ Pos(Tail(net), SenderAt, 1) = Pos(net, SenderAt, 2)
  BY <1>1, PathTail
<1>4. ReceiverAt' = Pos(net, SenderAt, 2) /\ ReceiverAt = Before(net[1])
  BY <1>1, <1>2, <1>3 DEF ReceiverAt, Pos
<1>5. 1 \in 1 .. Len(net) /\ 1 \in 1 .. Len(net) + 1 /\ 2 \in 1 .. Len(net) + 1
  BY <1>2
<1>6. life[1] <= life[2] /\ Leads(net, SenderAt, life, dead, 1)
  BY <1>5 DEF Path
<1>7. life[1] \in 0 .. R /\ life[2] \in 0 .. R
  BY <1>5
<1>8. \/ ReceiverAt' = After(net[1])
      \/ /\ ReceiverAt' = Start /\ life[1] < life[2]
         /\ After(net[1]).offset = 0 \/ life[1] \in dead
  BY <1>4, <1>6 DEF Leads
<1>9. rest \in [1 .. Len(net') + 1 -> 0 .. R]
      /\ Path(net', SenderAt', rest, R, dead)
  BY <1>1, <1>3
<1>10. QED
  BY <1>3, <1>4, <1>6, <1>7, <1>8, <1>9

LEMMA ReceiveClean ==
  ASSUME Perfect, Base, NEW k \in DOMAIN net, Receive(k), NEW R \in Nat
  PROVE  (Clean(R) => Clean(R)') /\ (R = 0 => (Joined => Joined'))
<1>1. Piece(net[1]) /\ Revc(net[1]) /\ IInv
  BY ReceiveTakesFirst DEF Base
<1>2. PICK d : d = net[1]
  OBVIOUS
<1>3. PICK n \in FrameSizes, i \in Nat : IsPiece(d, d.seq, n, i)
  BY <1>1, <1>2, PieceIs
<1>4. lastpacketseqnum' \in Nat
  BY ReceiveBase DEF Base, IInv, ReceiverTypeOK
<1>5. ASSUME Clean(R)
      PROVE  Clean(R)'
  <2>1. PICK life \in [1 .. Len(net) + 1 -> 0 .. R] :
          Path(net, SenderAt, life, R, {}) /\ CleanReceiver(ReceiverAt, life[1])
    BY <1>5 DEF Clean
  <2>2. PICK b, more : b = life[1] /\ more = life[2]
    OBVIOUS
  <2>3. /\ ReceiverAt = Before(d)
        /\ b \in 0 .. R /\ more \in 0 .. R /\ b <= more
        /\ \E rest \in [1 .. Len(net') + 1 -> 0 .. R] :
             Path(net', SenderAt', rest, R, {}) /\ rest[1] = more
        /\ \/ ReceiverAt' = After(d)
           \/ ReceiverAt' = Start /\ After(d).offset = 0 /\ b < more
    BY <1>2, <2>1, <2>2, ReceivePath
  <2>4. PICK rest \in [1 .. Len(net') + 1 -> 0 .. R] :
          Path(net', SenderAt', rest, R, {}) /\ rest[1] = more
    BY <2>3
  <2>5. b \in Nat /\ more \in Nat
    BY <2>3
  <2>6. CleanState(Before(d), b)
    BY <2>1, <2>2, <2>3 DEF CleanReceiver
  <2>7. CleanReceiver(After(d), b)'
    BY <1>1, <1>2, <1>3, <2>5, <2>6, CleanReceive
  <2>8. CASE ReceiverAt' = After(d)
    <3>1. CleanReceiver(After(d), more)'
      BY <2>3, <2>5, <2>7, CleanMore
    <3>2. CleanReceiver(ReceiverAt, rest[1])'
      BY <2>4, <2>8, <3>1
    <3>3. QED
      BY <2>4, <3>2 DEF Clean
  <2>9. CASE ReceiverAt' = Start /\ After(d).offset = 0 /\ b < more
    <3>1. CleanReceiver(Start, more)'
      BY <1>4, <2>5, <2>7, <2>9, CleanBegin, StartFields
    <3>2. CleanReceiver(ReceiverAt, rest[1])'
      BY <2>4, <2>9, <3>1
    <3>3. QED
      BY <2>4, <3>2 DEF Clean
  <2>10. QED
    BY <2>3, <2>8, <2>9
<1>6. ASSUME R = 0, Joined
      PROVE  Joined'
  <2>1. PICK life \in [1 .. Len(net) + 1 -> 0 .. R] :
          Path(net, SenderAt, life, R, {}) /\ JoinReceiver(ReceiverAt)
    BY <1>6 DEF Joined
  <2>2. /\ ReceiverAt = Before(d) /\ ReceiverAt' = After(d)
        /\ \E rest \in [1 .. Len(net') + 1 -> 0 .. R] :
             Path(net', SenderAt', rest, R, {})
    BY <1>2, <1>6, <2>1, ReceivePath
  <2>3. JoinReceiver(After(d))'
    BY <1>1, <1>2, <1>3, <2>1, <2>2, JoinReceive
  <2>4. JoinReceiver(ReceiverAt)'
    BY <2>2, <2>3
  <2>5. QED
    BY <1>6, <2>2, <2>4 DEF Joined
<1>7. QED
  BY <1>5, <1>6

-----------------------------------------------------------------------------
(* The projection without restarts *)

SteadyInv == Base /\ Clean(0)

LEMMA BeginsClean ==
  ASSUME Init
  PROVE  Base /\ Clean(0) /\ Joined
<1>1. /\ count = 0 /\ call = NoCall /\ net = <<>> /\ dups = 0
      /\ packet = [i \in Slots |-> EmptySlot] /\ lastpacketseqnum = 0
      /\ out = {} /\ wild = {}
  BY DEF Init, SenderInit, NetworkInit, ReceiverInit
<1>2. net \in Seq(Datagram) /\ Len(net) = 0
  BY <1>1, EmptySeq
<1>3. Base
  <2>1. IInv
    BY InvariantStart DEF Init
  <2>2. SenderOK
    BY <1>1 DEF SenderOK
  <2>3. \A k \in 1 .. Len(net) : Piece(net[k])
    BY <1>2
  <2>4. QED
    BY <1>1, <1>2, <2>1, <2>2, <2>3 DEF Base
<1> DEFINE c == At(1, 0, 0)
           life == [k \in 1 .. 1 |-> 0]
<1>4. SenderAt = c /\ ReceiverAt = c
  BY <1>1, <1>2 DEF SenderAt, ReceiverAt, Pos
<1>5. /\ life \in [1 .. Len(net) + 1 -> 0 .. 0] /\ life[1] = 0
      /\ Path(net, SenderAt, life, 0, {})
  BY <1>2 DEF Path
<1>6. c.seq = 1 /\ c.offset = 0
  BY AtFields
<1> HIDE DEF c, life
<1>7. \A k \in Slots : ~ packet[k].isUse
  BY <1>1 DEF EmptySlot
<1>8. WholeFrames
  BY <1>1 DEF WholeFrames
<1>9. CleanReceiver(c, 0)
  <2>1. StaleSlots = {}
    BY <1>7 DEF StaleSlots, Stale
  <2>2. Cardinality(StaleSlots) = 0
    BY <2>1, FS_EmptySet
  <2>3. CleanTable(c) /\ Passed(c)
    BY <1>1, <1>6, <1>7 DEF CleanTable, Passed
  <2>4. QED
    BY <1>1, <1>8, <2>2, <2>3 DEF CleanReceiver, CleanState
<1>10. JoinReceiver(c)
  BY <1>1, <1>8 DEF JoinReceiver, Fresh
<1>11. Clean(0)
  BY <1>4, <1>5, <1>9 DEF Clean
<1>12. Joined
  BY <1>4, <1>5, <1>10 DEF Joined
<1>13. QED
  BY <1>3, <1>11, <1>12

(* A step that changes nothing changes nothing.                            *)
LEMMA StaysClean ==
  ASSUME Base, UNCHANGED vars, NEW R \in Nat
  PROVE  Base' /\ (Clean(R) => Clean(R)') /\ (Joined => Joined')
<1>1. UNCHANGED <<count, call, net, dups>> /\ UNCHANGED rvars
  BY DEF vars, rvars
<1>2. SenderAt' = SenderAt /\ ReceiverAt' = ReceiverAt /\ net' = net
  BY <1>1 DEF SenderAt, ReceiverAt
<1>3. Base'
  BY <1>1 DEF Base, SenderOK, IInv, ReceiverTypeOK, UniqueSeq, rvars
<1>4. ASSUME Clean(R)
      PROVE  Clean(R)'
  <2>1. PICK life \in [1 .. Len(net) + 1 -> 0 .. R] :
          Path(net, SenderAt, life, R, {}) /\ CleanReceiver(ReceiverAt, life[1])
    BY <1>4 DEF Clean
  <2>2. CleanReceiver(ReceiverAt, life[1])'
    BY <1>1, <1>2, <2>1, CleanStays
  <2>3. QED
    BY <1>2, <2>1, <2>2 DEF Clean
<1>5. ASSUME Joined
      PROVE  Joined'
  <2>1. PICK life \in [1 .. Len(net) + 1 -> 0 .. 0] :
          Path(net, SenderAt, life, 0, {}) /\ JoinReceiver(ReceiverAt)
    BY <1>5 DEF Joined
  <2>2. JoinReceiver(ReceiverAt)'
    BY <1>1, <1>2, <2>1, JoinStays
  <2>3. QED
    BY <1>2, <2>1, <2>2 DEF Joined
<1>6. QED
  BY <1>3, <1>4, <1>5

(* A step of the programs.                                                 *)
LEMMA NextClean ==
  ASSUME Perfect, Room, Base, [Next]_vars, NEW R \in Nat
  PROVE  Base' /\ (Clean(R) => Clean(R)') /\ (R = 0 => (Joined => Joined'))
<1>1. CASE Send
  BY <1>1, SendBase, SendClean
<1>2. ASSUME NEW k \in DOMAIN net, Receive(k)
      PROVE  Base' /\ (Clean(R) => Clean(R)') /\ (R = 0 => (Joined => Joined'))
  BY <1>2, ReceiveBase, ReceiveClean
<1>3. CASE UNCHANGED vars
  BY <1>3, StaysClean
<1>4. QED
  BY <1>1, <1>2, <1>3 DEF Next

(* What holds in every reachable state, without restarts.                  *)
LEMMA SteadyInvariant ==
  ASSUME Perfect
  PROVE  Spec /\ []Room => []SteadyInv
<1>1. Init => SteadyInv
  BY BeginsClean DEF SteadyInv
<1>2. SteadyInv /\ Room /\ [Next]_vars => SteadyInv'
  BY NextClean DEF SteadyInv
<1>3. QED
  BY <1>1, <1>2, PTL DEF Spec

(* What Clean says of a receiver that no sender before the first misled.   *)
LEMMA CleanZero ==
  ASSUME Base, Clean(0)
  PROVE  wild = {} /\ WholeFrames /\ CleanTable(ReceiverAt) /\ Passed(ReceiverAt)
<1>1. PICK life \in [1 .. Len(net) + 1 -> 0 .. 0] :
        Path(net, SenderAt, life, 0, {}) /\ CleanReceiver(ReceiverAt, life[1])
  BY DEF Clean
<1>2. Len(net) \in Nat
  BY LenProperties DEF Base
<1>3. life[1] = 0
  BY <1>2
<1>4. wild = {}
  BY <1>1, <1>3 DEF CleanReceiver, CleanState
<1>5. Passed(ReceiverAt)
  BY <1>1, <1>3, <1>4, StaleFinite DEF CleanReceiver, CleanState
<1>6. QED
  BY <1>1, <1>4, <1>5 DEF CleanReceiver, CleanState

(* On a network that loses, doubles and reorders nothing, Revc hands on    *)
(* whole frames only, however long they are.                               *)
THEOREM WholeFramesCorrect ==
  ASSUME Perfect
  PROVE  Spec /\ []Room => []WholeFrames
<1>1. SteadyInv => WholeFrames
  BY CleanZero DEF SteadyInv
<1>2. QED
  BY <1>1, SteadyInvariant, PTL

(* Nor does it ever write outside the slot table or the data of a slot.    *)
THEOREM NoStrayWriteCorrect ==
  ASSUME Perfect
  PROVE  Spec /\ []Room => []NoStrayWrite
<1>1. SteadyInv => NoStrayWrite
  BY CleanZero DEF SteadyInv, NoStrayWrite
<1>2. QED
  BY <1>1, SteadyInvariant, PTL

(* And when the network is empty, every frame sent was handed on.          *)
THEOREM DrainedMeansShownCorrect ==
  ASSUME Perfect
  PROVE  Spec /\ []Room => []DrainedMeansShown
<1>1. ASSUME SteadyInv, Idle
      PROVE  lastpacketseqnum = count
  <2>1. CleanTable(ReceiverAt) /\ Passed(ReceiverAt) /\ count \in Nat
        /\ lastpacketseqnum \in Nat
    BY <1>1, CleanZero DEF SteadyInv, Base, SenderOK, IInv, ReceiverTypeOK
  <2>2. ReceiverAt = At(count + 1, 0, 0)
    BY <1>1, EmptySeq DEF Idle, ReceiverAt, Pos, SenderAt
  <2>3. ReceiverAt.seq = count + 1 /\ ReceiverAt.offset = 0
    BY <2>2, AtFields
  <2>4. QED
    BY <2>1, <2>3 DEF CleanTable, Passed
<1>2. SteadyInv => DrainedMeansShown
  BY <1>1 DEF DrainedMeansShown
<1>3. QED
  BY <1>2, SteadyInvariant, PTL

-----------------------------------------------------------------------------
(* When the socket has room *)

(* What is on the way and what is left of the frame in progress: no more   *)
(* than the frames taken may have, of M datagrams each, and the K of       *)
(* earlier senders.                                                        *)
RoomInv(M, K) ==
  /\ Base /\ count <= MaxFrames
  /\ Len(net) + (IF call = NoCall THEN 0
                 ELSE TotalFragment(call.nLen) - call.i) <= count * M + K

(* Each datagram sent is one less that is left.                            *)
LEMMA RoomStep ==
  ASSUME Perfect, NEW M \in Nat, NEW K \in Nat,
         \A n \in FrameSizes : TotalFragment(n) <= M,
         RoomInv(M, K), Room, [Next]_vars
  PROVE  RoomInv(M, K)'
<1> DEFINE left == IF call = NoCall THEN 0
                   ELSE TotalFragment(call.nLen) - call.i
<1>1. /\ Base /\ SenderOK /\ count \in Nat /\ count <= MaxFrames
      /\ MaxFrames \in Nat /\ net \in Seq(Datagram) /\ Len(net) \in Nat
      /\ Len(net) + left <= count * M + K
  BY SenderConstants, LenProperties DEF RoomInv, Base, SenderOK
<1>2. left \in Nat
  BY <1>1, PiecesTile DEF SenderOK
<1>3. Base'
  BY <1>1, NextClean
<1>4. CASE UNCHANGED vars
  BY <1>1, <1>3, <1>4 DEF RoomInv, vars
<1>5. ASSUME NEW k \in DOMAIN net, Receive(k)
      PROVE  RoomInv(M, K)'
  <2>1. net # <<>> /\ net' = Tail(net) /\ UNCHANGED <<count, call>>
    BY <1>1, <1>5, ReceiveTakesFirst DEF svars
  <2>2. Len(net') <= Len(net) /\ Len(net') \in Nat
    BY <1>1, <2>1, HeadTailProperties, EmptySeq
  <2>3. left' = left
    BY <2>1
  <2>4. count * M \in Nat
    BY <1>1
  <2>5. Len(net') + left <= count * M + K
    BY <1>1, <1>2, <2>2, <2>4
  <2>6. QED
    BY <1>1, <1>3, <2>1, <2>3, <2>5 DEF RoomInv
<1>6. CASE Send
  <2>1. ASSUME NEW n \in FrameSizes, UdpSend(n)
        PROVE  count' <= MaxFrames /\ Len(net') + left' <= count' * M + K
    <3>1. /\ call = NoCall /\ count < MaxFrames /\ count' = count + 1
          /\ call' = [nLen |-> n, i |-> 0] /\ net' = net
      BY <2>1 DEF UdpSend
    <3>2. n # 0 /\ TotalFragment(n) \in Nat /\ TotalFragment(n) <= M
      BY SenderConstants, FragmentsFit
    <3>3. left' = TotalFragment(n) /\ left = 0
      BY <3>1, <3>2 DEF NoCall
    <3>4. (count + 1) * M = count * M + M /\ count * M \in Nat
      BY <1>1
    <3>5. Len(net) + TotalFragment(n) <= (count + 1) * M + K
      BY <1>1, <3>2, <3>3, <3>4
    <3>6. QED
      BY <1>1, <3>1, <3>3, <3>5
  <2>2. ASSUME SendNext
        PROVE  count' <= MaxFrames /\ Len(net') + left' <= count' * M + K
    <3>1. /\ call # NoCall /\ count' = count
          /\ \/ call' = NoCall
             \/ /\ call' = [call EXCEPT !.i = @ + 1]
                /\ call.i < TotalFragment(call.nLen) - 1
      BY <2>2 DEF SendNext, SendOnly, SendMiddle, SendLast
    <3>2. net' = net \/ \E d : net' = Append(net, d)
      BY <2>2 DEF SendNext, SendOnly, SendMiddle, SendLast, Transmit
    <3>3. Len(net') \in Nat /\ Len(net') <= Len(net) + 1
      BY <1>1, <3>2
    <3>4. call \in [nLen : FrameSizes, i : Nat] /\ call.i < TotalFragment(call.nLen)
          /\ TotalFragment(call.nLen) \in Nat
      BY <1>1, <3>1, PiecesTile DEF SenderOK
    <3>5. left' \in Nat /\ left' + 1 <= left
      <4>1. CASE call' = NoCall
        BY <3>1, <3>4, <4>1
      <4>2. CASE call' = [call EXCEPT !.i = @ + 1]
                 /\ call.i < TotalFragment(call.nLen) - 1
        <5>1. call'.nLen = call.nLen /\ call'.i = call.i + 1
          BY <3>4, <4>2
        <5>2. call' # NoCall
          BY <3>4, <5>1 DEF NoCall
        <5>3. QED
          BY <3>1, <3>4, <4>2, <5>1, <5>2
      <4>3. QED
        BY <3>1, <4>1, <4>2
    <3>6. count * M \in Nat
      BY <1>1
    <3> HIDE DEF left
    <3>7. QED
      BY <1>1, <1>2, <3>1, <3>3, <3>5, <3>6
  <2>3. count' <= MaxFrames /\ Len(net') + left' <= count' * M + K
    BY <1>6, <2>1, <2>2 DEF Send, SenderStep
  <2>4. QED
    BY <1>3, <2>3 DEF RoomInv
<1>7. QED
  BY <1>4, <1>5, <1>6 DEF Next

LEMMA RoomBegins ==
  ASSUME Init, NEW M \in Nat
  PROVE  RoomInv(M, 0)
<1>1. Base /\ count = 0 /\ call = NoCall /\ net = <<>>
  BY BeginsClean DEF Init, SenderInit, NetworkInit
<1>2. Len(net) = 0 /\ MaxFrames \in Nat /\ 0 * M = 0
  BY <1>1, SenderConstants, EmptySeq
<1>3. QED
  BY <1>1, <1>2 DEF RoomInv

(* While a frame is in progress, there is at least one datagram to come.   *)
LEMMA RoomLeft ==
  ASSUME NEW M \in Nat, NEW K \in Nat, RoomInv(M, K), call # NoCall
  PROVE  Len(net) \in Nat /\ Len(net) < MaxFrames * M + K
<1>1. /\ count \in Nat /\ MaxFrames \in Nat /\ count <= MaxFrames
      /\ Len(net) \in Nat
      /\ Len(net) + (TotalFragment(call.nLen) - call.i) <= count * M + K
      /\ call.i \in Nat /\ TotalFragment(call.nLen) \in Nat
      /\ call.i < TotalFragment(call.nLen)
  BY SenderConstants, LenProperties, PiecesTile DEF RoomInv, Base, SenderOK
<1>2. count * M <= MaxFrames * M
  <2>1. PICK w \in Nat : MaxFrames = count + w
    <3>1. MaxFrames - count \in Nat /\ MaxFrames = count + (MaxFrames - count)
      BY <1>1
    <3>2. QED
      BY <3>1
  <2>2. MaxFrames * M = count * M + w * M
    BY <1>1, <2>1
  <2>3. count * M \in Nat /\ w * M \in Nat
    BY <1>1
  <2>4. QED
    BY <2>2, <2>3
<1>3. count * M \in Nat /\ MaxFrames * M \in Nat
  BY <1>1
<1>4. QED
  BY <1>1, <1>2, <1>3

(* A socket that holds the datagrams of all the frames there are to be has *)
(* room for each that udp_send sends.                                      *)
THEOREM RoomSuffices ==
  ASSUME Perfect, NEW M \in Nat, \A n \in FrameSizes : TotalFragment(n) <= M,
         MaxFrames * M <= Capacity
  PROVE  Spec => []Room
<1>1. Init => RoomInv(M, 0)
  BY RoomBegins
<1>2. RoomInv(M, 0) => Room
  <2>1. SUFFICES ASSUME RoomInv(M, 0), call # NoCall
                 PROVE  Len(net) < Capacity
    BY DEF Room
  <2>2. Len(net) < MaxFrames * M + 0 /\ Len(net) \in Nat
    BY <2>1, RoomLeft
  <2>3. MaxFrames * M \in Nat /\ Capacity \in Nat
    BY SenderConstants, NetworkConstants
  <2>4. QED
    BY <2>2, <2>3
<1>3. RoomInv(M, 0) /\ [Next]_vars => RoomInv(M, 0)'
  BY <1>2, RoomStep
<1>4. QED
  BY <1>1, <1>2, <1>3, PTL DEF Spec

(* Together: with such a socket every frame arrives whole and in its slot. *)
THEOREM DeliveredWithRoom ==
  ASSUME Perfect, NEW M \in Nat, \A n \in FrameSizes : TotalFragment(n) <= M,
         MaxFrames * M <= Capacity
  PROVE  Spec => [](WholeFrames /\ NoStrayWrite /\ DrainedMeansShown)
<1>1. Spec => []Room
  BY RoomSuffices
<1>2. QED
  BY <1>1, WholeFramesCorrect, NoStrayWriteCorrect, DrainedMeansShownCorrect, PTL

=============================================================================
