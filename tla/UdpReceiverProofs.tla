-------------------------- MODULE UdpReceiverProofs --------------------------
(***************************************************************************)
(* Theorems about the receiver in a network that may deliver any datagram  *)
(* at any time, for every size of the table and every distance constant.   *)
(***************************************************************************)
EXTENDS UdpReceiverOpen, FiniteSetTheorems, TLAPS

FrameType == [seqnum : Nat, size : Nat, data : SUBSET Nat]

Table == [Slots -> Slot]

(* UniqueSeq of a table.                                                   *)
Unique(p) ==
  \A i, j \in Slots :
    p[i].isUse /\ p[j].isUse /\ p[i].seqnum = p[j].seqnum => i = j

(* What every way through Revc does to the table p and the number l it has *)
(* reached when it comes to handing on frames: slots in use are left alone *)
(* or given back, only numbers past l are given back, and the frames       *)
(* handed on lie between l and the new number.                             *)
Settled(p, l) ==
  /\ packet' \in Table
  /\ lastpacketseqnum' \in Nat /\ l <= lastpacketseqnum'
  /\ \A i \in Slots : packet'[i].isUse => packet'[i] = p[i]
  /\ \A i \in Slots : p[i].isUse /\ p[i].seqnum <= l => packet'[i] = p[i]
  /\ out' \subseteq FrameType
  /\ \A f \in out' : l < f.seqnum /\ f.seqnum <= lastpacketseqnum'

LEMMA EmptySlotType == EmptySlot \in Slot
BY ReceiverConstants DEF EmptySlot, Slot

LEMMA ReleaseType ==
  ASSUME NEW p \in Table, NEW S
  PROVE  /\ Release(p, S) \in Table
         /\ \A i \in Slots : Release(p, S)[i].isUse =>
              /\ i \notin S
              /\ Release(p, S)[i] = p[i]
         /\ \A i \in Slots : i \notin S => Release(p, S)[i] = p[i]
<1>1. ASSUME NEW i \in Slots
      PROVE  /\ [EmptySlot EXCEPT !.isFull = p[i].isFull] \in Slot
             /\ ~ [EmptySlot EXCEPT !.isFull = p[i].isFull].isUse
  BY EmptySlotType DEF Table, Slot, EmptySlot
<1>2. \A i \in Slots : Release(p, S)[i] \in Slot
  BY <1>1 DEF Release, Table
<1>3. QED
  BY <1>1, <1>2 DEF Release, Table

LEMMA ReleaseUnique ==
  ASSUME NEW p \in Table, NEW S, Unique(p)
  PROVE  Unique(Release(p, S))
BY ReleaseType DEF Unique

-----------------------------------------------------------------------------
(* Handing on frames *)

LEMMA FrameIsFrame ==
  ASSUME NEW slot \in Slot
  PROVE  Frame(slot) \in FrameType /\ Frame(slot).seqnum = slot.seqnum
BY DEF Frame, FrameType, Slot

(* Releasing the slots of some numbers in l+1..n and handing on their      *)
(* frames settles the call.                                                *)
LEMMA SettleReady ==
  ASSUME NEW p \in Table, NEW l \in Nat, NEW n \in Nat, l <= n,
         NEW ready \in SUBSET Slots,
         \A i \in ready : l < p[i].seqnum /\ p[i].seqnum <= n,
         Settle(Release(p, ready), n, {Frame(p[i]) : i \in ready})
  PROVE  Settled(p, l)
<1>1. /\ packet' = Release(p, ready)
      /\ lastpacketseqnum' = n
      /\ out' = {Frame(p[i]) : i \in ready}
  BY DEF Settle
<1>2. packet' \in Table
  BY <1>1, ReleaseType
<1>3. \A i \in Slots : packet'[i].isUse => packet'[i] = p[i]
  BY <1>1, ReleaseType
<1>4. \A i \in Slots : p[i].isUse /\ p[i].seqnum <= l => packet'[i] = p[i]
  <2>1. SUFFICES ASSUME NEW i \in Slots, p[i].seqnum <= l
                 PROVE  packet'[i] = p[i]
    OBVIOUS
  <2>2. p[i].seqnum \in Nat
    BY DEF Table, Slot
  <2>3. i \notin ready
    BY <2>1, <2>2
  <2>4. QED
    BY <1>1, <2>3, ReleaseType
<1>5. \A f \in out' : f \in FrameType /\ l < f.seqnum /\ f.seqnum <= n
  BY <1>1, FrameIsFrame DEF Table
<1>6. QED
  BY <1>1, <1>2, <1>3, <1>4, <1>5 DEF Settled

LEMMA SettleNothing ==
  ASSUME NEW p \in Table, NEW l \in Nat, Settle(p, l, {})
  PROVE  Settled(p, l)
BY DEF Settle, Settled

(* A table that only gave back slots of the number l+1 may stand in for p. *)
LEMMA SettledAfterRelease ==
  ASSUME NEW p \in Table, NEW l \in Nat,
         Settled(Release(p, Holding(p, l + 1)), l + 1)
  PROVE  Settled(p, l)
<1> DEFINE q == Release(p, Holding(p, l + 1))
<1>1. \A i \in Slots : p[i].seqnum \in Nat
  BY DEF Table, Slot
<1>2. \A i \in Slots : p[i].isUse /\ p[i].seqnum <= l =>
        q[i] = p[i]
  BY <1>1, ReleaseType DEF Holding
<1>3. \A i \in Slots : packet'[i].isUse => packet'[i] = q[i]
  BY DEF Settled
<1>4. \A i \in Slots : q[i].isUse => q[i] = p[i]
  BY ReleaseType
<1>5. \A i \in Slots : packet'[i].isUse => packet'[i] = p[i]
  BY <1>3, <1>4
<1>6. \A i \in Slots : q[i].isUse /\ q[i].seqnum <= l + 1 => packet'[i] = q[i]
  BY DEF Settled
<1>7. \A i \in Slots : p[i].isUse /\ p[i].seqnum <= l => packet'[i] = p[i]
  BY <1>1, <1>2, <1>6
<1>8. \A f \in out' : f \in FrameType /\ l + 1 < f.seqnum
                                      /\ f.seqnum <= lastpacketseqnum'
  BY DEF Settled
<1>9. \A f \in out' : l < f.seqnum
  BY <1>8 DEF FrameType
<1>10. packet' \in Table /\ lastpacketseqnum' \in Nat /\ l <= lastpacketseqnum'
  BY DEF Settled
<1>11. QED
  BY <1>5, <1>7, <1>8, <1>9, <1>10 DEF Settled

LEMMA CatchUpSettles ==
  ASSUME NEW p \in Table, NEW l \in Nat, CatchUp(p, l)
  PROVE  Settled(p, l)
<1>1. PICK n \in l .. l + SkipRounds :
        Settle(Release(p, {i \in Slots : p[i].isUse
                                         /\ p[i].seqnum \in l + 1 .. n}),
               n,
               {Frame(p[i]) : i \in {j \in Slots : p[j].isUse
                                         /\ p[j].seqnum \in l + 1 .. n}})
  BY DEF CatchUp, CatchUpWithin
<1> DEFINE ready == {i \in Slots : p[i].isUse /\ p[i].seqnum \in l + 1 .. n}
<1>2. n \in Nat /\ l <= n
  BY ReceiverConstants
<1>3. \A i \in ready : l < p[i].seqnum /\ p[i].seqnum <= n
  BY DEF Table, Slot
<1>4. Settle(Release(p, ready), n, {Frame(p[i]) : i \in ready})
  BY <1>1
<1>5. QED
  BY <1>2, <1>3, <1>4, SettleReady

LEMMA HandOnSettles ==
  ASSUME NEW p \in Table, NEW l \in Nat, NEW i \in Slots, HandOn(p, l, i)
  PROVE  Settled(p, l)
<1>1. CASE p[i].seqnum = l + 1
           /\ Settle(Release(p, {i}), p[i].seqnum, {Frame(p[i])})
  <2> DEFINE n == l + 1
             ready == {i}
  <2>1. n \in Nat /\ l <= n
    OBVIOUS
  <2>2. ready \in SUBSET Slots
    OBVIOUS
  <2>3. \A j \in ready : l < p[j].seqnum /\ p[j].seqnum <= n
    BY <1>1
  <2>4. {Frame(p[j]) : j \in ready} = {Frame(p[i])}
    OBVIOUS
  <2>5. Settle(Release(p, ready), n, {Frame(p[j]) : j \in ready})
    BY <1>1, <2>4
  <2> HIDE DEF n, ready
  <2>6. QED
    BY <2>1, <2>2, <2>3, <2>5, SettleReady
<1>2. CASE CatchUp(Release(p, Holding(p, l + 1)), l + 1)
  BY <1>2, ReleaseType, CatchUpSettles, SettledAfterRelease
<1>3. CASE Settle(p, l, {})
  BY <1>3, SettleNothing
<1>4. QED
  BY <1>1, <1>2, <1>3 DEF HandOn

LEMMA FileSettles ==
  ASSUME NEW p \in Table, NEW l \in Nat, NEW i \in Slots, NEW slot \in Slot,
         NEW m \in Datagram, File(p, l, i, slot, m)
  PROVE  Settled([p EXCEPT ![i] = slot], l) /\ wild' = wild
<1> DEFINE q == [p EXCEPT ![i] = slot]
<1>1. q \in Table
  BY DEF Table
<1>2. HandOn(q, l, i) \/ Settle(q, l, {})
  BY DEF File
<1> HIDE DEF q
<1>3. Settled(q, l)
  BY <1>1, <1>2, HandOnSettles, SettleNothing
<1>4. QED
  BY <1>3 DEF File, q

-----------------------------------------------------------------------------
(* Filing a datagram *)

LEMMA AddedType ==
  ASSUME NEW slot \in Slot, NEW m \in Datagram
  PROVE  /\ Added(slot, m) \in Slot
         /\ Added(slot, m).isUse = slot.isUse
         /\ Added(slot, m).seqnum = slot.seqnum
<1> DEFINE packs == (slot.recvedpacks + 1) % PackMod
<1>1. packs \in 0 .. PackMod - 1
  BY ReceiverConstants DEF Slot
<1>2. slot.data \cup Copied(m) \in SUBSET Nat
  BY DEF Copied, Datagram, Slot
<1> HIDE DEF packs
<1>3. (slot.isFull \/ packs = m.total) \in BOOLEAN
  BY DEF Slot
<1>4. Added(slot, m) = [slot EXCEPT !.recvedpacks = packs,
                                    !.data = slot.data \cup Copied(m),
                                    !.isFull = slot.isFull \/ packs = m.total]
  BY DEF Added, packs
<1>5. QED
  BY <1>1, <1>2, <1>3, <1>4 DEF Slot

LEMMA TakenType ==
  ASSUME NEW slot \in Slot, NEW m \in Datagram
  PROVE  Taken(slot, m) \in Slot /\ Taken(slot, m).seqnum = m.seq
<1>1. Copied(m) \in SUBSET Nat
  BY DEF Copied, Datagram
<1>2. (slot.isFull \/ m.total = 1) \in BOOLEAN
  BY DEF Slot
<1>3. 1 \in 0 .. PackMod - 1
  BY ReceiverConstants
<1>4. QED
  BY <1>1, <1>2, <1>3 DEF Taken, Slot, Datagram

(* The table and the number Revc works with once it has given up a frame.  *)
LEMMA AheadKeeps ==
  ASSUME ReceiverTypeOK, UniqueSeq, NEW m \in Datagram, ~ Rejected(m)
  PROVE  /\ TableAfterAhead(m) \in Table
         /\ Unique(TableAfterAhead(m))
         /\ LastAfterAhead(m) \in Nat
         /\ lastpacketseqnum <= LastAfterAhead(m)
         /\ LastAfterAhead(m) <= m.seq
         /\ \A i \in Slots : Stale(i) => TableAfterAhead(m)[i] = packet[i]
<1>1. packet \in Table /\ lastpacketseqnum \in Nat /\ m.seq \in Nat
  BY DEF ReceiverTypeOK, Table, Datagram
<1>2. Unique(packet)
  BY DEF UniqueSeq, Unique
<1>3. lastpacketseqnum <= m.seq
  BY <1>1 DEF Rejected
<1>4. CASE ~ Ahead(m)
  BY <1>1, <1>2, <1>3, <1>4 DEF TableAfterAhead, LastAfterAhead
<1>5. CASE Ahead(m)
  <2>1. lastpacketseqnum + 1 <= m.seq
    BY <1>1, <1>5, ReceiverConstants DEF Ahead
  <2>2. \A i \in Slots : Stale(i) => i \notin Holding(packet, lastpacketseqnum + 1)
    BY <1>1 DEF Stale, Holding, Table, Slot
  <2>3. QED
    BY <1>1, <1>2, <1>5, <2>1, <2>2, ReleaseType, ReleaseUnique
       DEF TableAfterAhead, LastAfterAhead
<1>6. QED
  BY <1>4, <1>5

(* A datagram was filed: q is the table with it, before frames are handed  *)
(* on.                                                                     *)
Filed(q, m) ==
  /\ Unique(q)
  /\ Settled(q, LastAfterAhead(m))
  /\ \A i \in Slots : Stale(i) => q[i].isUse /\ q[i].seqnum = packet[i].seqnum
  /\ wild' = wild

(* A datagram went past the end of its slot's data.                        *)
Spilled(m) ==
  /\ Settle(TableAfterAhead(m), LastAfterAhead(m), {})
  /\ wild' = wild \cup {[at |-> "heap", seq |-> m.seq]}

LEMMA AddToFrameCases ==
  ASSUME ReceiverTypeOK, UniqueSeq, NEW m \in Datagram, AddToFrame(m)
  PROVE  Spilled(m) \/ \E q \in Table : Filed(q, m)
<1> DEFINE p == TableAfterAhead(m)
           l == LastAfterAhead(m)
<1>1. p \in Table /\ Unique(p) /\ l \in Nat
      /\ \A i \in Slots : Stale(i) => p[i] = packet[i]
  BY AheadKeeps DEF AddToFrame
<1>2. PICK i \in Holding(p, m.seq) :
        File(p, l, i, Added(p[i], m), m) \/ HeapOverrun(p, l, p[i].size, m)
  BY DEF AddToFrame
<1> HIDE DEF p, l
<1>3. CASE HeapOverrun(p, l, p[i].size, m)
  BY <1>3 DEF HeapOverrun, Spilled, p, l
<1>4. CASE File(p, l, i, Added(p[i], m), m)
  <2> DEFINE slot == Added(p[i], m)
             q == [p EXCEPT ![i] = slot]
  <2>1. i \in Slots /\ p[i] \in Slot
    BY <1>1 DEF Holding, Table
  <2>2. slot \in Slot /\ slot.isUse = p[i].isUse /\ slot.seqnum = p[i].seqnum
    BY <2>1, AddedType
  <2>3. File(p, l, i, slot, m)
    BY <1>4
  <2> HIDE DEF slot
  <2>4. q \in Table /\ q[i] = slot /\ \A j \in Slots : j # i => q[j] = p[j]
    BY <1>1, <2>1, <2>2 DEF Table
  <2>5. Settled(q, l) /\ wild' = wild
    BY <1>1, <2>1, <2>2, <2>3, FileSettles
  <2> HIDE DEF q
  <2>6. \A j \in Slots : q[j].isUse = p[j].isUse /\ q[j].seqnum = p[j].seqnum
    BY <2>1, <2>2, <2>4
  <2>7. Unique(q)
    BY <1>1, <2>6 DEF Unique
  <2>8. \A j \in Slots : Stale(j) => q[j].isUse /\ q[j].seqnum = packet[j].seqnum
    BY <1>1, <2>6 DEF Stale
  <2>9. QED
    BY <2>4, <2>5, <2>7, <2>8 DEF Filed, l
<1>5. QED
  BY <1>2, <1>3, <1>4

LEMMA StartFrameCases ==
  ASSUME ReceiverTypeOK, UniqueSeq, NEW m \in Datagram, StartFrame(m)
  PROVE  Spilled(m) \/ \E q \in Table : Filed(q, m)
<1> DEFINE p == TableAfterAhead(m)
           l == LastAfterAhead(m)
<1>1. p \in Table /\ Unique(p) /\ l \in Nat
      /\ \A i \in Slots : Stale(i) => p[i] = packet[i]
  BY AheadKeeps DEF StartFrame
<1>2. Holding(p, m.seq) = {}
  BY DEF StartFrame
<1>3. PICK i \in Unused(p) :
        File(p, l, i, Taken(p[i], m), m) \/ HeapOverrun(p, l, m.size, m)
  BY DEF StartFrame
<1> HIDE DEF p, l
<1>4. CASE HeapOverrun(p, l, m.size, m)
  BY <1>4 DEF HeapOverrun, Spilled, p, l
<1>5. CASE File(p, l, i, Taken(p[i], m), m)
  <2> DEFINE slot == Taken(p[i], m)
             q == [p EXCEPT ![i] = slot]
  <2>1. i \in Slots /\ p[i] \in Slot /\ ~ p[i].isUse
    BY <1>1 DEF Unused, Table
  <2>2. slot \in Slot /\ slot.seqnum = m.seq
    BY <2>1, TakenType
  <2>3. File(p, l, i, slot, m)
    BY <1>5
  <2> HIDE DEF slot
  <2>4. q \in Table /\ q[i] = slot /\ \A j \in Slots : j # i => q[j] = p[j]
    BY <1>1, <2>1, <2>2 DEF Table
  <2>5. Settled(q, l) /\ wild' = wild
    BY <1>1, <2>1, <2>2, <2>3, FileSettles
  <2> HIDE DEF q
  <2>6. \A j \in Slots : p[j].isUse => p[j].seqnum # m.seq
    BY <1>2 DEF Holding
  <2>7. Unique(q)
    BY <1>1, <2>2, <2>4, <2>6 DEF Unique
  <2>8. \A j \in Slots : Stale(j) => q[j].isUse /\ q[j].seqnum = packet[j].seqnum
    BY <1>1, <2>1, <2>4 DEF Stale
  <2>9. QED
    BY <2>4, <2>5, <2>7, <2>8 DEF Filed, l
<1>6. QED
  BY <1>3, <1>4, <1>5

(* What a call of Revc does, for all that follows.                         *)
LEMMA RevcCases ==
  ASSUME ReceiverTypeOK, UniqueSeq, NEW m \in Datagram, Revc(m)
  PROVE  \/ Ignore(m)
         \/ \E q \in Table : Filed(q, m)
         \/ Spilled(m) /\ ~ Rejected(m)
         \/ NoSlotLeft(m)
<1>1. Ignore(m) \/ AddToFrame(m) \/ StartFrame(m) \/ NoSlotLeft(m)
  BY DEF Revc
<1>2. AddToFrame(m) \/ StartFrame(m) => ~ Rejected(m)
  BY DEF AddToFrame, StartFrame
<1>3. QED
  BY <1>1, <1>2, AddToFrameCases, StartFrameCases

-----------------------------------------------------------------------------
(* Steps of the receiver *)

IInv == ReceiverTypeOK /\ UniqueSeq

LEMMA SpilledSettles ==
  ASSUME ReceiverTypeOK, UniqueSeq, NEW m \in Datagram, ~ Rejected(m),
         Settle(TableAfterAhead(m), LastAfterAhead(m), {})
  PROVE  packet' \in Table /\ Unique(packet') /\ lastpacketseqnum' \in Nat
         /\ out' = {}
BY AheadKeeps DEF Settle

LEMMA FiledKeeps ==
  ASSUME NEW m \in Datagram, NEW q \in Table, Filed(q, m)
  PROVE  packet' \in Table /\ Unique(packet')
BY DEF Filed, Settled, Unique

(* What a stray write leaves.                                              *)
LEMMA NoSlotLeftSettles ==
  ASSUME ReceiverTypeOK, UniqueSeq, NEW m \in Datagram, NoSlotLeft(m)
  PROVE  /\ packet' = TableAfterAhead(m) /\ packet' \in Table
         /\ Unique(packet')
         /\ lastpacketseqnum' \in Nat
         /\ out' = {}
         /\ wild' = wild \cup {[at |-> "slot", seq |-> m.seq]}
<1>1. /\ TableAfterAhead(m) \in Table /\ Unique(TableAfterAhead(m))
      /\ LastAfterAhead(m) \in Nat
  BY AheadKeeps DEF NoSlotLeft
<1>2. PICK garbage \in {LastAfterAhead(m)} \cup Clobber :
        Settle(TableAfterAhead(m), garbage, {})
  BY DEF NoSlotLeft, SlotOverrun
<1>3. garbage \in Nat
  BY <1>1, ReceiverConstants
<1>4. wild' = wild \cup {[at |-> "slot", seq |-> m.seq]}
  BY DEF NoSlotLeft, SlotOverrun
<1>5. QED
  BY <1>1, <1>2, <1>3, <1>4 DEF Settle

LEMMA StrayType ==
  ASSUME NEW m \in Datagram
  PROVE  /\ [at |-> "heap", seq |-> m.seq] \in Stray
         /\ [at |-> "slot", seq |-> m.seq] \in Stray
BY DEF Stray, Datagram

LEMMA RevcKeepsInvariant ==
  ASSUME IInv, NEW m \in Datagram, Revc(m)
  PROVE  IInv'
<1>1. ReceiverTypeOK /\ UniqueSeq
  BY DEF IInv
<1>2. SUFFICES /\ packet' \in Table /\ Unique(packet')
               /\ lastpacketseqnum' \in Nat
               /\ out' \subseteq FrameType
               /\ wild' \subseteq Stray
  BY DEF IInv, ReceiverTypeOK, UniqueSeq, Unique, Table, FrameType
<1>3. CASE Ignore(m)
  BY <1>1, <1>3
     DEF Ignore, ReceiverTypeOK, UniqueSeq, Unique, Table, FrameType
<1>4. ASSUME NEW q \in Table, Filed(q, m)
      PROVE  /\ packet' \in Table /\ Unique(packet')
             /\ lastpacketseqnum' \in Nat
             /\ out' \subseteq FrameType
             /\ wild' \subseteq Stray
  BY <1>1, <1>4, FiledKeeps DEF Filed, Settled, ReceiverTypeOK
<1>5. CASE Spilled(m) /\ ~ Rejected(m)
  BY <1>1, <1>5, SpilledSettles, StrayType DEF Spilled, ReceiverTypeOK
<1>6. CASE NoSlotLeft(m)
  BY <1>1, <1>6, NoSlotLeftSettles, StrayType DEF ReceiverTypeOK
<1>7. QED
  BY <1>1, <1>3, <1>4, <1>5, <1>6, RevcCases

LEMMA InvariantStart ==
  ASSUME ReceiverInit
  PROVE  IInv
<1>1. packet \in Table
  BY EmptySlotType DEF ReceiverInit, Table
<1>2. UniqueSeq
  BY DEF ReceiverInit, UniqueSeq, EmptySlot
<1>3. QED
  BY <1>1, <1>2 DEF ReceiverInit, IInv, ReceiverTypeOK, Table

THEOREM ReceiverInvariant == ReceiverSpec => []IInv
<1>1. ReceiverInit => IInv
  BY InvariantStart
<1>2. IInv /\ [ReceiverNext]_rvars => IInv'
  <2>1. SUFFICES ASSUME IInv, [ReceiverNext]_rvars
                 PROVE  IInv'
    OBVIOUS
  <2>2. CASE ReceiverNext
    BY <2>1, <2>2, RevcKeepsInvariant, ArrivingType DEF ReceiverNext
  <2>3. CASE UNCHANGED rvars
    BY <2>1, <2>3
       DEF rvars, IInv, ReceiverTypeOK, UniqueSeq
  <2>4. QED
    BY <2>1, <2>2, <2>3
<1>3. QED
  BY <1>1, <1>2, PTL DEF ReceiverSpec

-----------------------------------------------------------------------------
(* The properties of the receiver *)

(* The slots, the counters and the ghost variables of udp_server.c keep    *)
(* their types, whatever datagrams arrive.                                 *)
THEOREM TypeCorrect == ReceiverSpec => []ReceiverTypeOK
<1>1. IInv => ReceiverTypeOK
  BY DEF IInv
<1>2. QED
  BY <1>1, ReceiverInvariant, PTL

(* No frame is ever split over two slots of packet, whatever arrives.      *)
THEOREM UniqueCorrect == ReceiverSpec => []UniqueSeq
<1>1. IInv => UniqueSeq
  BY DEF IInv
<1>2. QED
  BY <1>1, ReceiverInvariant, PTL

(* InOrder, for one call of Revc.                                          *)
LEMMA RevcInOrder ==
  ASSUME IInv, NEW m \in Datagram, Revc(m)
  PROVE  /\ \A f \in out' : lastpacketseqnum < f.seqnum
                            /\ f.seqnum <= lastpacketseqnum'
         /\ wild' = {} => lastpacketseqnum <= lastpacketseqnum'
<1>1. ReceiverTypeOK /\ UniqueSeq /\ lastpacketseqnum \in Nat
  BY DEF IInv, ReceiverTypeOK
<1>2. CASE Ignore(m)
  BY <1>1, <1>2 DEF Ignore
<1>3. ASSUME NEW q \in Table, Filed(q, m), ~ Rejected(m)
      PROVE  /\ \A f \in out' : lastpacketseqnum < f.seqnum
                                /\ f.seqnum <= lastpacketseqnum'
             /\ lastpacketseqnum <= lastpacketseqnum'
  <2>1. LastAfterAhead(m) \in Nat /\ lastpacketseqnum <= LastAfterAhead(m)
    BY <1>1, <1>3, AheadKeeps
  <2>2. /\ lastpacketseqnum' \in Nat /\ LastAfterAhead(m) <= lastpacketseqnum'
        /\ \A f \in out' : f \in FrameType /\ LastAfterAhead(m) < f.seqnum
                           /\ f.seqnum <= lastpacketseqnum'
    BY <1>3 DEF Filed, Settled
  <2>3. QED
    BY <1>1, <2>1, <2>2 DEF FrameType
<1>4. CASE Spilled(m) /\ ~ Rejected(m)
  BY <1>1, <1>4, SpilledSettles DEF Spilled
<1>5. CASE NoSlotLeft(m)
  BY <1>1, <1>5, NoSlotLeftSettles
<1>6. ~ Ignore(m) => ~ Rejected(m)
  BY DEF Revc, AddToFrame, StartFrame, NoSlotLeft
<1>7. QED
  BY <1>1, <1>2, <1>3, <1>4, <1>5, <1>6, RevcCases

(* Revc hands frames on in order and never twice, for every size of the    *)
(* table and whatever datagrams arrive.                                    *)
THEOREM InOrderCorrect == ReceiverSpec => InOrder
<1>1. ASSUME IInv, ReceiverNext
      PROVE  /\ \A f \in out' : lastpacketseqnum < f.seqnum
                                /\ f.seqnum <= lastpacketseqnum'
             /\ wild' = {} => lastpacketseqnum <= lastpacketseqnum'
  BY <1>1, RevcInOrder, ArrivingType DEF ReceiverNext
<1>2. IInv /\ [ReceiverNext]_rvars =>
        [/\ \A f \in out' : lastpacketseqnum < f.seqnum
                            /\ f.seqnum <= lastpacketseqnum'
         /\ wild' = {} => lastpacketseqnum <= lastpacketseqnum']_rvars
  BY <1>1
<1>3. QED
  BY <1>2, ReceiverInvariant, PTL DEF ReceiverSpec, InOrder

(* StaleForever, for one call of Revc.                                     *)
LEMMA RevcKeepsStale ==
  ASSUME IInv, NEW m \in Datagram, Revc(m), wild' = {},
         NEW i \in Slots, Stale(i)
  PROVE  Stale(i)' /\ packet[i].seqnum' = packet[i].seqnum
<1>1. ReceiverTypeOK /\ UniqueSeq /\ lastpacketseqnum \in Nat
      /\ packet[i].seqnum \in Nat
  BY DEF IInv, ReceiverTypeOK, Slot
<1>2. CASE Ignore(m)
  BY <1>2 DEF Ignore, Stale
<1>3. ASSUME NEW q \in Table, Filed(q, m), ~ Rejected(m)
      PROVE  Stale(i)' /\ packet[i].seqnum' = packet[i].seqnum
  <2>1. LastAfterAhead(m) \in Nat /\ lastpacketseqnum <= LastAfterAhead(m)
    BY <1>1, <1>3, AheadKeeps
  <2>2. q[i].isUse /\ q[i].seqnum = packet[i].seqnum
    BY <1>3 DEF Filed
  <2>3. q[i].seqnum <= LastAfterAhead(m)
    BY <1>1, <2>1, <2>2 DEF Stale
  <2>4. packet'[i] = q[i]
    BY <1>3, <2>2, <2>3 DEF Filed, Settled
  <2>5. lastpacketseqnum' \in Nat /\ LastAfterAhead(m) <= lastpacketseqnum'
    BY <1>3 DEF Filed, Settled
  <2>6. q[i].seqnum <= lastpacketseqnum'
    BY <1>1, <2>1, <2>2, <2>3, <2>5
  <2>7. QED
    BY <2>2, <2>4, <2>6 DEF Stale
<1>4. ~ Spilled(m) /\ ~ NoSlotLeft(m)
  BY DEF Spilled, NoSlotLeft, SlotOverrun
<1>5. ~ Ignore(m) => ~ Rejected(m)
  BY DEF Revc, AddToFrame, StartFrame, NoSlotLeft
<1>6. QED
  BY <1>1, <1>2, <1>3, <1>4, <1>5, RevcCases

(* A slot that collects a frame udp_server.c is done with is lost for      *)
(* good: no sequence of datagrams makes the receiver give it back.         *)
THEOREM StaleForeverCorrect == ReceiverSpec => StaleForever
<1>1. ASSUME IInv, ReceiverNext, wild' = {}, NEW i \in Slots, Stale(i)
      PROVE  Stale(i)' /\ packet[i].seqnum' = packet[i].seqnum
  BY <1>1, RevcKeepsStale, ArrivingType DEF ReceiverNext
<1>2. IInv /\ [ReceiverNext]_rvars =>
        [wild' = {} =>
           \A i \in Slots : Stale(i) =>
             Stale(i)' /\ packet[i].seqnum' = packet[i].seqnum]_rvars
  BY <1>1
<1>3. QED
  BY <1>2, ReceiverInvariant, PTL DEF ReceiverSpec, StaleForever

-----------------------------------------------------------------------------
(* Why the table runs out of slots *)

(* NumSlots slots cannot all hold different frames of the window, one of   *)
(* whose numbers is not held.                                              *)
LEMMA TableTooSmall ==
  ASSUME NEW p \in Table, Unique(p), NEW l \in Nat, NEW e \in Nat,
         e = l + 1 \/ e \in l + 1 .. l + Window,
         \A i \in Slots : p[i].isUse /\ p[i].seqnum \in l + 1 .. l + Window
                          /\ p[i].seqnum # e
  PROVE  FALSE
<1> DEFINE numbers == (l + 1 .. l + Window) \ {e}
           f == [i \in Slots |-> p[i].seqnum]
<1>1. f \in [Slots -> numbers]
  OBVIOUS
<1>2. IsFiniteSet(Slots) /\ Cardinality(Slots) = NumSlots
  BY FS_Interval, ReceiverConstants DEF Slots
<1>3. Window > 0
  <2>1. 0 \in Slots
    BY ReceiverConstants DEF Slots
  <2>2. p[0].seqnum \in l + 1 .. l + Window
    BY <2>1
  <2>3. QED
    BY <2>2, ReceiverConstants
<1>4. IsFiniteSet(l + 1 .. l + Window) /\ Cardinality(l + 1 .. l + Window) = Window
  BY <1>3, FS_Interval, ReceiverConstants
<1>5. e \in l + 1 .. l + Window
  BY <1>3, ReceiverConstants
<1>6. IsFiniteSet(numbers) /\ Cardinality(numbers) = Window - 1
  BY <1>4, <1>5, FS_RemoveElement
<1>7. Cardinality(numbers) < Cardinality(Slots)
  BY <1>2, <1>6, ReceiverConstants
<1> HIDE DEF numbers
<1>8. \E i, j \in Slots : i # j /\ f[i] = f[j]
  <2> HIDE DEF f
  <2>1. QED
    BY <1>1, <1>2, <1>6, <1>7, FS_PigeonHole
<1>9. QED
  BY <1>8 DEF Unique

(* OverrunCause, for one call of Revc.                                     *)
LEMMA NoSlotLeftCause ==
  ASSUME IInv, NEW m \in Datagram, NoSlotLeft(m),
         \A i \in Slots : ~ Stale(i) /\ ~ Beyond(i)
  PROVE  m.seq = lastpacketseqnum
<1> DEFINE p == TableAfterAhead(m)
           l == lastpacketseqnum
<1>1. ReceiverTypeOK /\ UniqueSeq /\ l \in Nat /\ m.seq \in Nat
      /\ packet \in Table /\ ~ Rejected(m)
  BY DEF IInv, ReceiverTypeOK, Table, Datagram, NoSlotLeft
<1>2. p \in Table /\ Unique(p)
  BY <1>1, AheadKeeps
<1>3. \A i \in Slots : p[i].isUse /\ p[i].seqnum # m.seq
  BY DEF NoSlotLeft, Unused, Holding
<1>4. \A i \in Slots : p[i] = packet[i]
  BY <1>1, <1>3, ReleaseType DEF TableAfterAhead
<1>5. \A i \in Slots : p[i].seqnum \in l + 1 .. l + Window
  BY <1>1, <1>2, <1>3, <1>4, ReceiverConstants DEF Stale, Beyond, Table, Slot
<1>6. CASE Ahead(m)
  <2>1. \A i \in Slots : p[i].seqnum # l + 1
    BY <1>1, <1>3, <1>4, <1>6, ReleaseType DEF TableAfterAhead, Holding
  <2>2. QED
    BY <1>1, <1>2, <1>3, <1>5, <2>1, TableTooSmall
<1>7. CASE ~ Ahead(m)
  <2>1. SUFFICES ASSUME m.seq # l
                 PROVE  FALSE
    OBVIOUS
  <2>2. m.seq \in l + 1 .. l + Window
    BY <1>1, <1>7, <2>1, ReceiverConstants DEF Rejected, Ahead
  <2> HIDE DEF p
  <2>3. QED
    BY <1>1, <1>2, <1>3, <1>5, <2>2, TableTooSmall
<1>8. QED
  BY <1>6, <1>7

(* The ten slots of packet are enough for the window: a write to           *)
(* packet[-1] is always the work of a leaked slot, of a frame beyond the   *)
(* window, or of a late datagram for the frame just done with.             *)
THEOREM OverrunCauseCorrect == ReceiverSpec => OverrunCause
<1>1. ASSUME IInv, ReceiverNext, NEW w \in wild' \ wild, w.at = "slot"
      PROVE  \/ \E i \in Slots : Stale(i) \/ Beyond(i)
             \/ w.seq = lastpacketseqnum
  <2>1. PICK m \in Datagram : Revc(m)
    BY <1>1, ArrivingType DEF ReceiverNext
  <2>2. ReceiverTypeOK /\ UniqueSeq
    BY <1>1 DEF IInv
  <2>3. CASE NoSlotLeft(m)
    BY <1>1, <2>2, <2>3, NoSlotLeftSettles, NoSlotLeftCause
  <2>4. CASE Spilled(m)
    BY <1>1, <2>4 DEF Spilled
  <2>5. CASE wild' = wild
    BY <1>1, <2>5
  <2>6. QED
    BY <2>1, <2>2, <2>3, <2>4, <2>5, RevcCases DEF Ignore, Filed
<1>2. IInv /\ [ReceiverNext]_rvars =>
        [\A w \in wild' \ wild : w.at = "slot" =>
           \/ \E i \in Slots : Stale(i) \/ Beyond(i)
           \/ w.seq = lastpacketseqnum]_rvars
  BY <1>1
<1>3. QED
  BY <1>2, ReceiverInvariant, PTL DEF ReceiverSpec, OverrunCause

=============================================================================
