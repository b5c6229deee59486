----------------------- MODULE ProjectionRestartProofs -----------------------
(***************************************************************************)
(* Theorems about what restarts cost on a network that loses, doubles and  *)
(* reorders nothing, for frames of any length and every size of the table: *)
(* those of a sender between two frames, then those of a sender that dies  *)
(* in the middle of udp_send, and when a receiver that was started late    *)
(* has caught up.                                                          *)
(***************************************************************************)
EXTENDS ProjectionRestart, ProjectionProofs

-----------------------------------------------------------------------------
(* The projection with restarts *)

(* With any number of restarts: as long as no frame was cut, and as long   *)
(* as there is one sender.                                                 *)
RestartInv ==
  /\ Base
  /\ restarts \in Nat /\ deaths \in Nat /\ joins \in Nat
  /\ deaths <= restarts
  /\ joins + deaths = 0 => Clean(restarts)
  /\ restarts = 0 => Joined

(* A sender that is started again.  Between two frames that is one life    *)
(* more.                                                                   *)
LEMMA SenderRestartsClean ==
  ASSUME Base, SenderRestarts, NEW R \in Nat
  PROVE  Base' /\ (call.i = 0 => (Clean(R) => Clean(R + 1)'))
<1>1. /\ count' = 0 /\ call' = NoCall /\ net' = net /\ dups' = dups
      /\ UNCHANGED rvars /\ net \in Seq(Datagram)
  BY DEF SenderRestarts, Base
<1>2. Base'
  BY <1>1 DEF Base, SenderOK, IInv, ReceiverTypeOK, UniqueSeq, rvars
<1>3. SenderAt' = Start
  BY <1>1 DEF SenderAt, Start
<1>4. ASSUME call.i = 0
      PROVE  SenderAt.offset = 0
  BY <1>4, SenderConstants, AtFields DEF SenderAt
<1>5. ASSUME call.i = 0, Clean(R)
      PROVE  Clean(R + 1)'
  <2>1. PICK life \in [1 .. Len(net) + 1 -> 0 .. R] :
          Path(net, SenderAt, life, R, {}) /\ CleanReceiver(ReceiverAt, life[1])
    BY <1>5 DEF Clean
  <2>2. PICK at, dead : at = SenderAt /\ dead = {}
    OBVIOUS
  <2>3. PICK more \in [1 .. Len(net) + 1 -> 0 .. R + 1] :
          /\ Path(net, Start, more, R + 1, dead)
          /\ \/ net # <<>> /\ more[1] = life[1] /\ Pos(net, Start, 1) = Pos(net, at, 1)
             \/ net = <<>> /\ more[1] = R + 1 /\ Pos(net, Start, 1) = Start
                /\ Pos(net, at, 1) = at
    <3>1. at.offset = 0 /\ Path(net, at, life, R, dead)
      BY <1>4, <1>5, <2>1, <2>2
    <3>2. QED
      BY <1>1, <3>1, PathRestart
  <2>4. ReceiverAt' = Pos(net, Start, 1) /\ ReceiverAt = Pos(net, at, 1)
    BY <1>1, <1>3, <2>2 DEF ReceiverAt
  <2>5. PICK c, b : c = ReceiverAt /\ b = life[1]
    OBVIOUS
  <2>6. CleanReceiver(c, b)'
    BY <1>1, <2>1, <2>5, CleanStays
  <2>7. CleanReceiver(ReceiverAt, more[1])'
    <3>1. CASE net # <<>>
      <4>1. more[1] = b /\ ReceiverAt' = c
        BY <2>3, <2>4, <2>5, <3>1
      <4>2. QED
        BY <2>6, <4>1
    <3>2. CASE net = <<>>
      <4>1. more[1] = R + 1 /\ ReceiverAt' = Start /\ c = at
        BY <2>3, <2>4, <2>5, <3>2
      <4>2. c.offset = 0
        BY <1>4, <1>5, <2>2, <4>1
      <4>3. Len(net) \in Nat
        BY <1>1, LenProperties
      <4>4. b \in Nat /\ R + 1 \in Nat /\ b < R + 1
        BY <2>5, <4>3
      <4>5. lastpacketseqnum' \in Nat
        BY <1>2 DEF Base, IInv, ReceiverTypeOK
      <4>6. CleanReceiver(Start, R + 1)'
        BY <2>6, <4>2, <4>4, <4>5, CleanBegin, StartFields
      <4>7. QED
        BY <4>1, <4>6
    <3>3. QED
      BY <3>1, <3>2
  <2>8. QED
    BY <1>1, <1>3, <2>2, <2>3, <2>7 DEF Clean
<1>6. QED
  BY <1>2, <1>5

(* A receiver that is started again is at wherever the sender is.          *)
LEMMA ReceiverRestartsJoins ==
  ASSUME Base, ReceiverRestarts
  PROVE  Base' /\ Joined'
<1>1. /\ net' = <<>> /\ UNCHANGED <<count, call, dups>>
      /\ packet' = [i \in Slots |-> EmptySlot] /\ lastpacketseqnum' = 0
      /\ out' = {} /\ wild' = {}
  BY DEF ReceiverRestarts, svars
<1>2. net' \in Seq(Datagram) /\ Len(net') = 0
  BY <1>1, EmptySeq
<1>3. IInv'
  <2>1. packet' \in Table
    BY <1>1, EmptySlotType DEF Table
  <2>2. UniqueSeq'
    BY <1>1 DEF UniqueSeq, EmptySlot
  <2>3. QED
    BY <1>1, <2>1, <2>2 DEF IInv, ReceiverTypeOK, Table
<1>4. Base'
  BY <1>1, <1>2, <1>3 DEF Base, SenderOK
<1>5. JoinReceiver(ReceiverAt)'
  BY <1>1 DEF JoinReceiver, WholeFrames, Fresh
<1> DEFINE life == [k \in 1 .. 1 |-> 0]
<1>6. life \in [1 .. Len(net') + 1 -> 0 .. 0]
      /\ Path(net', SenderAt', life, 0, {})
  BY <1>2 DEF Path
<1> HIDE DEF life
<1>7. Joined'
  BY <1>5, <1>6 DEF Joined
<1>8. QED
  BY <1>4, <1>7

(* A step of the programs, or a restart.                                   *)
LEMMA RestartStep ==
  ASSUME Perfect, Room, RestartInv, [RestartNext]_restartVars
  PROVE  RestartInv'
<1>1. /\ Base /\ restarts \in Nat /\ deaths \in Nat /\ joins \in Nat
      /\ deaths <= restarts
      /\ joins + deaths = 0 => Clean(restarts)
      /\ restarts = 0 => Joined
  BY DEF RestartInv
<1>2. PICK R \in Nat : R = restarts
  BY <1>1
<1>3. CASE [Next]_vars /\ UNCHANGED <<restarts, deaths, joins, joined>>
  <2>1. Base' /\ (Clean(R) => Clean(R)') /\ (R = 0 => (Joined => Joined'))
    BY <1>1, <1>2, <1>3, NextClean
  <2>2. Clean(R) => Clean(restarts)'
    BY <1>2, <1>3, <2>1
  <2>3. joins + deaths = 0 => Clean(R)
    BY <1>1, <1>2
  <2>4. QED
    BY <1>1, <1>2, <1>3, <2>1, <2>2, <2>3 DEF RestartInv
<1>4. CASE SenderRestarts
  <2>1. /\ restarts' = R + 1 /\ joins' = joins
        /\ deaths' = IF call.i = 0 THEN deaths ELSE deaths + 1
    BY <1>2, <1>4 DEF SenderRestarts
  <2>2. Base' /\ (call.i = 0 => (Clean(R) => Clean(R + 1)'))
    BY <1>1, <1>4, SenderRestartsClean
  <2>3. ASSUME joins' + deaths' = 0
        PROVE  Clean(restarts)'
    <3>1. joins + deaths = 0 /\ call.i = 0
      BY <1>1, <2>1, <2>3
    <3>2. Clean(R)
      BY <1>1, <1>2, <3>1
    <3>3. QED
      BY <2>1, <2>2, <3>1, <3>2
  <2>4. /\ restarts' \in Nat /\ deaths' \in Nat /\ joins' \in Nat
        /\ deaths' <= restarts' /\ restarts' # 0
    BY <1>1, <1>2, <2>1
  <2>5. QED
    BY <2>2, <2>3, <2>4 DEF RestartInv
<1>5. CASE ReceiverRestarts
  <2>1. /\ joins' = joins + 1 /\ restarts' = restarts /\ deaths' = deaths
    BY <1>5 DEF ReceiverRestarts
  <2>2. Base' /\ Joined'
    BY <1>1, <1>5, ReceiverRestartsJoins
  <2>3. /\ restarts' \in Nat /\ deaths' \in Nat /\ joins' \in Nat
        /\ deaths' <= restarts' /\ joins' + deaths' # 0
    BY <1>1, <2>1
  <2>4. QED
    BY <2>2, <2>3 DEF RestartInv
<1>6. QED
  BY <1>3, <1>4, <1>5 DEF RestartNext, restartVars

(* What holds in every reachable state.                                    *)
LEMMA RestartInvariant ==
  ASSUME Perfect
  PROVE  RestartSpec /\ []Room => []RestartInv
<1>1. RestartInit => RestartInv
  BY BeginsClean DEF RestartInit, RestartInv
<1>2. RestartInv /\ Room /\ [RestartNext]_restartVars => RestartInv'
  BY RestartStep
<1>3. QED
  BY <1>1, <1>2, PTL DEF RestartSpec

(* What Clean says of the receiver, whatever the number of senders.        *)
LEMMA CleanMeans ==
  ASSUME Base, NEW R \in Nat, Clean(R)
  PROVE  /\ wild = {} => /\ CleanTable(ReceiverAt) /\ WholeFrames
                         /\ Cardinality(StaleSlots) <= R
         /\ (\E w \in wild : w.at = "slot") => R >= NumSlots
<1>1. PICK life \in [1 .. Len(net) + 1 -> 0 .. R] :
        Path(net, SenderAt, life, R, {}) /\ CleanReceiver(ReceiverAt, life[1])
  BY DEF Clean
<1>2. Len(net) \in Nat
  BY LenProperties DEF Base
<1>3. life[1] \in 0 .. R
  BY <1>2
<1>4. Cardinality(StaleSlots) \in Nat /\ NumSlots \in Nat
  BY StaleFinite, ReceiverConstants
<1>5. QED
  BY <1>1, <1>3, <1>4 DEF CleanReceiver, CleanState

(* Each start of a sender costs the receiver one slot at most, however     *)
(* many there are, when none died in the middle of a frame.                *)
THEOREM RestartCostCorrect ==
  ASSUME Perfect
  PROVE  RestartSpec /\ []Room => []RestartCost
<1>1. RestartInv => RestartCost
  BY CleanMeans DEF RestartInv, RestartCost
<1>2. QED
  BY <1>1, RestartInvariant, PTL

(* And Revc does not write past the slot table before there were as many   *)
(* of them as the table has slots.                                         *)
THEOREM TableLastsCorrect ==
  ASSUME Perfect
  PROVE  RestartSpec /\ []Room => []TableLasts
<1>1. RestartInv => TableLasts
  BY CleanMeans DEF RestartInv, TableLasts
<1>2. QED
  BY <1>1, RestartInvariant, PTL

(* When the network is empty and no frame was cut, the receiver is not     *)
(* behind the sender.                                                      *)
THEOREM NothingWaitsCorrect ==
  ASSUME Perfect
  PROVE  RestartSpec /\ []Room => []NothingWaits
<1>1. ASSUME RestartInv, Idle, wild = {}, joins + deaths = 0
      PROVE  count <= lastpacketseqnum
  <2>1. CleanTable(ReceiverAt) /\ count \in Nat /\ lastpacketseqnum \in Nat
    BY <1>1, CleanMeans DEF RestartInv, Base, SenderOK, IInv, ReceiverTypeOK
  <2>2. ReceiverAt = At(count + 1, 0, 0)
    BY <1>1, EmptySeq DEF Idle, ReceiverAt, Pos, SenderAt
  <2>3. ReceiverAt.seq = count + 1
    BY <2>2, AtFields
  <2>4. QED
    BY <2>1, <2>3 DEF CleanTable
<1>2. RestartInv => NothingWaits
  BY <1>1 DEF NothingWaits
<1>3. QED
  BY <1>2, RestartInvariant, PTL

(* A receiver that is started in the middle of a frame never shows it, and *)
(* what it shows is whole, as long as the sender is the same; and so it is *)
(* for any number of senders that all ended between two frames.            *)
THEOREM WholeUnlessCutCorrect ==
  ASSUME Perfect
  PROVE  RestartSpec /\ []Room => []WholeUnlessCut
<1>1. ASSUME RestartInv, wild = {}, restarts = 0 \/ joins + deaths = 0
      PROVE  WholeFrames
  BY <1>1, CleanMeans DEF RestartInv, Joined, JoinReceiver
<1>2. RestartInv => WholeUnlessCut
  BY <1>1 DEF WholeUnlessCut
<1>3. QED
  BY <1>2, RestartInvariant, PTL

-----------------------------------------------------------------------------
(* When the socket has room *)

(* The same with restarts: what each sender but the last may have left on  *)
(* the way comes on top.                                                   *)
RestartRoomInv(M) ==
  /\ RoomInv(M, restarts * (MaxFrames * M))
  /\ restarts \in Nat /\ joins \in Nat /\ restarts + joins <= MaxFaults

(* The senders together have no more on the way than the socket takes.     *)
LEMMA RestartRoomLeft ==
  ASSUME NEW M \in Nat, (MaxFaults + 1) * (MaxFrames * M) <= Capacity,
         RestartRoomInv(M)
  PROVE  Room
<1> DEFINE F == MaxFrames * M
<1>1. /\ F \in Nat /\ MaxFaults \in Nat /\ Capacity \in Nat
      /\ restarts \in Nat /\ joins \in Nat /\ restarts + joins <= MaxFaults
      /\ RoomInv(M, restarts * F)
  BY SenderConstants, NetworkConstants, MaxFaultsType DEF RestartRoomInv
<1>2. (MaxFaults + 1) * F <= Capacity
  OBVIOUS
<1>3. SUFFICES ASSUME call # NoCall
               PROVE  Len(net) < Capacity
  BY DEF Room
<1>4. restarts * F \in Nat
  BY <1>1
<1>5. Len(net) \in Nat /\ Len(net) < F + restarts * F
  BY <1>1, <1>3, <1>4, RoomLeft
<1> HIDE DEF F
<1>6. PICK w \in Nat : MaxFaults = restarts + w
  <2>1. MaxFaults - restarts \in Nat
        /\ MaxFaults = restarts + (MaxFaults - restarts)
    BY <1>1
  <2>2. QED
    BY <2>1
<1>7. (MaxFaults + 1) * F = F + restarts * F + w * F
  BY <1>1, <1>6
<1>8. w * F \in Nat
  BY <1>1
<1>9. QED
  BY <1>1, <1>2, <1>4, <1>5, <1>7, <1>8

(* A new sender adds at most its own frames; a new receiver clears the     *)
(* way.                                                                    *)
LEMMA RestartRoomStep ==
  ASSUME Perfect, NEW M \in Nat, \A n \in FrameSizes : TotalFragment(n) <= M,
         RestartRoomInv(M), Room, [RestartNext]_restartVars
  PROVE  RestartRoomInv(M)'
<1> DEFINE F == MaxFrames * M
<1>1. /\ F \in Nat /\ MaxFrames \in Nat /\ MaxFaults \in Nat
      /\ restarts \in Nat /\ joins \in Nat /\ restarts + joins <= MaxFaults
      /\ RoomInv(M, restarts * F) /\ Base /\ restarts * F \in Nat
  <2>1. /\ F \in Nat /\ MaxFrames \in Nat /\ MaxFaults \in Nat
    BY SenderConstants, MaxFaultsType
  <2>2. /\ restarts \in Nat /\ joins \in Nat /\ restarts + joins <= MaxFaults
        /\ RoomInv(M, restarts * F) /\ Base
    BY DEF RestartRoomInv, RoomInv
  <2>3. QED
    BY <2>1, <2>2
<1>2. PICK K \in Nat : K = restarts * F
  BY <1>1
<1>3. CASE [Next]_vars /\ UNCHANGED <<restarts, deaths, joins, joined>>
  <2>1. RoomInv(M, K)'
    BY <1>1, <1>2, <1>3, RoomStep
  <2>2. restarts' * F = K
    BY <1>2, <1>3
  <2>3. QED
    BY <1>1, <1>3, <2>1, <2>2 DEF RestartRoomInv
<1>4. CASE SenderRestarts
  <2>1. /\ restarts' = restarts + 1 /\ joins' = joins /\ count' = 0
        /\ call' = NoCall /\ net' = net /\ restarts + joins < MaxFaults
    BY <1>4 DEF SenderRestarts
  <2>2. Base'
    BY <1>1, <1>4, SenderRestartsClean
  <2>3. /\ Len(net) \in Nat /\ count \in Nat /\ count <= MaxFrames
        /\ Len(net) <= count * M + K
    <3>1. /\ SenderOK /\ net \in Seq(Datagram) /\ count <= MaxFrames
          /\ Len(net) + (IF call = NoCall THEN 0
                         ELSE TotalFragment(call.nLen) - call.i)
               <= count * M + K
      BY <1>1, <1>2 DEF RoomInv, Base
    <3>2. Len(net) \in Nat /\ count \in Nat
      BY <3>1, LenProperties DEF SenderOK
    <3>3. count * M \in Nat
      BY <3>2
    <3>4. (IF call = NoCall THEN 0
           ELSE TotalFragment(call.nLen) - call.i) \in Nat
      BY <3>1, PiecesTile DEF SenderOK
    <3>5. QED
      BY <3>1, <3>2, <3>3, <3>4
  <2>4. PICK w \in Nat : MaxFrames = count + w
    <3>1. MaxFrames - count \in Nat /\ MaxFrames = count + (MaxFrames - count)
      BY <1>1, <2>3
    <3>2. QED
      BY <3>1
  <2>5. F = count * M + w * M /\ w * M \in Nat /\ count * M \in Nat
    BY <2>3, <2>4
  <2> HIDE DEF F
  <2>6. restarts' * F = K + F /\ 0 * M = 0
    BY <1>1, <1>2, <2>1
  <2>7. Len(net) + 0 <= 0 + (K + F)
    BY <1>1, <2>3, <2>5
  <2>8. RoomInv(M, restarts * F)'
    <3>1. Len(net') + 0 <= count' * M + restarts' * F
      BY <2>1, <2>6, <2>7
    <3>2. count' <= MaxFrames
      BY <1>1, <2>1
    <3>3. QED
      BY <2>1, <2>2, <3>1, <3>2 DEF RoomInv
  <2>9. restarts' \in Nat /\ joins' \in Nat /\ restarts' + joins' <= MaxFaults
    BY <1>1, <2>1
  <2>10. QED
    BY <2>8, <2>9 DEF RestartRoomInv, F
<1>5. CASE ReceiverRestarts
  <2>1. /\ restarts' = restarts /\ joins' = joins + 1 /\ net' = <<>>
        /\ UNCHANGED <<count, call>> /\ restarts + joins < MaxFaults
    BY <1>5 DEF ReceiverRestarts, svars
  <2>2. Base' /\ Len(net') = 0
    BY <1>1, <1>5, <2>1, ReceiverRestartsJoins, EmptySeq
  <2>3. RoomInv(M, K)'
    <3>1. /\ net \in Seq(Datagram) /\ count <= MaxFrames
          /\ Len(net) + (IF call = NoCall THEN 0
                         ELSE TotalFragment(call.nLen) - call.i)
               <= count * M + K
          /\ SenderOK
      BY <1>1, <1>2 DEF RoomInv, Base
    <3>2. Len(net) \in Nat /\ count \in Nat
      BY <3>1, LenProperties DEF SenderOK
    <3>3. count * M \in Nat
      BY <3>2
    <3>4. (IF call = NoCall THEN 0
           ELSE TotalFragment(call.nLen) - call.i) \in Nat
      BY <3>1, PiecesTile DEF SenderOK
    <3>5. 0 + (IF call = NoCall THEN 0
               ELSE TotalFragment(call.nLen) - call.i) <= count * M + K
      BY <3>1, <3>2, <3>3, <3>4
    <3>6. QED
      BY <2>1, <2>2, <3>1, <3>5 DEF RoomInv
  <2>4. QED
    BY <1>1, <1>2, <2>1, <2>3 DEF RestartRoomInv
<1>6. QED
  BY <1>3, <1>4, <1>5 DEF RestartNext, restartVars

(* A socket that holds the datagrams of all the frames of all the senders  *)
(* has room for each that is sent.                                         *)
THEOREM RestartRoomSuffices ==
  ASSUME Perfect, NEW M \in Nat, \A n \in FrameSizes : TotalFragment(n) <= M,
         (MaxFaults + 1) * (MaxFrames * M) <= Capacity
  PROVE  RestartSpec => []Room
<1>1. RestartInit => RestartRoomInv(M)
  <2>1. SUFFICES ASSUME RestartInit
                 PROVE  RestartRoomInv(M)
    OBVIOUS
  <2>2. RoomInv(M, 0) /\ restarts = 0 /\ joins = 0
    BY <2>1, RoomBegins DEF RestartInit
  <2>3. MaxFrames * M \in Nat /\ MaxFaults \in Nat
    BY SenderConstants, MaxFaultsType
  <2>4. 0 * (MaxFrames * M) = 0
    BY <2>3
  <2>5. QED
    BY <2>2, <2>3, <2>4 DEF RestartRoomInv
<1>2. RestartRoomInv(M) => Room
  BY RestartRoomLeft
<1>3. RestartRoomInv(M) /\ [RestartNext]_restartVars => RestartRoomInv(M)'
  BY <1>2, RestartRoomStep
<1>4. QED
  BY <1>1, <1>2, <1>3, PTL DEF RestartSpec

-----------------------------------------------------------------------------
(* A sender that died in the middle of a frame *)

(* The slots of the table p for frames up to the number l.                 *)
Old(p, l) == {k \in Slots : p[k].isUse /\ p[k].seqnum <= l}

(* The frames handed on that are not whole.                                *)
Mixed == {f \in out : ~ Whole(f)}

(* The table p after a sender died, when the new one is at c.  Of the      *)
(* frames past l it holds the one next in line in any state, for that is   *)
(* the frame the dead sender was at, and others only whole, up to the one  *)
(* that is being sent.                                                     *)
Waiting(slot, s) ==
  slot.seqnum < s /\ slot.isFull /\ Whole(Frame(slot))

DeadSlots(p, l, c) ==
  \A k \in Slots : p[k].isUse =>
    p[k].seqnum <= l + 1 \/ Waiting(p[k], c.seq) \/ Collects(p[k], c)

DeadTable(c) ==
  /\ DeadSlots(packet, lastpacketseqnum, c)
  /\ c.offset > 0 /\ lastpacketseqnum <= c.seq => Holding(packet, c.seq) # {}
  /\ Cardinality(StaleSlots) <= 1
  /\ ~ Passed(c) => Cardinality(StaleSlots) < 1

(* The frame at c was handed on before the new sender was done with it.    *)
LeftTable(c) ==
  /\ c.seq = lastpacketseqnum /\ c.offset > 0
  /\ \A k \in Slots : packet[k].isUse => Stale(k)
  /\ Cardinality(StaleSlots) <= 1

AfterDeath(c) ==
  /\ Cardinality(Mixed) <= 1
  /\ DeadTable(c) \/ LeftTable(c) \/ CleanState(c, 2)

-----------------------------------------------------------------------------
(* What is handed on *)

LEMMA MixedNone ==
  ASSUME WholeFrames'
  PROVE  Cardinality(Mixed)' <= 1
<1>1. Mixed' = {}
  BY DEF Mixed, WholeFrames
<1>2. Cardinality(Mixed') = 0
  BY <1>1, FS_EmptySet
<1>3. QED
  BY <1>2

(* At most one frame was handed on.                                        *)
LEMMA MixedOne ==
  ASSUME NEW f, out' = {f}
  PROVE  Cardinality(Mixed)' <= 1
<1>1. CASE Whole(f)'
  <2>1. Mixed' = {}
    BY <1>1 DEF Mixed
  <2>2. Cardinality(Mixed') = 0
    BY <2>1, FS_EmptySet
  <2>3. QED
    BY <2>2
<1>2. CASE ~ Whole(f)'
  <2>1. Mixed' = {f}
    BY <1>2 DEF Mixed
  <2>2. Cardinality(Mixed') = 1
    BY <2>1, FS_Singleton
  <2>3. QED
    BY <2>2
<1>3. QED
  BY <1>1, <1>2

(* Slots can be counted.                                                   *)
LEMMA OldFinite ==
  ASSUME NEW p, NEW l
  PROVE  IsFiniteSet(Old(p, l)) /\ Cardinality(Old(p, l)) \in Nat
<1>1. IsFiniteSet(Slots)
  BY FS_Interval, ReceiverConstants DEF Slots
<1>2. Old(p, l) \subseteq Slots
  BY DEF Old
<1>3. QED
  BY <1>1, <1>2, FS_Subset, FS_CardinalityType

(* Fewer slots in use for frames of the past are no more of them.          *)
LEMMA OldShrinks ==
  ASSUME NEW p, NEW l, NEW q, NEW n, Old(q, n) \subseteq Old(p, l)
  PROVE  Cardinality(Old(q, n)) <= Cardinality(Old(p, l))
BY OldFinite, FS_Subset

(* The stale slots are those for frames that have been handed on.          *)
LEMMA StaleIsOld ==
  StaleSlots = Old(packet, lastpacketseqnum)
  /\ StaleSlots' = Old(packet', lastpacketseqnum')
BY DEF StaleSlots, Stale, Old

(* A catch-up from l ends at some n: the frames between are gone, and were *)
(* full, and the rest of the table is as it was.                           *)
LEMMA CatchUpEnds ==
  ASSUME NEW p \in Table, NEW l \in Nat, CatchUp(p, l)
  PROVE  \E n \in Nat :
           /\ l <= n /\ n <= l + SkipRounds /\ lastpacketseqnum' = n
           /\ \A k \in Slots : packet'[k].isUse =>
                /\ packet'[k] = p[k]
                /\ ~ (l < p[k].seqnum /\ p[k].seqnum <= n)
           /\ \A k \in Slots : p[k].isUse /\ l < p[k].seqnum /\ p[k].seqnum <= n
                               => p[k].isFull /\ ~ packet'[k].isUse
           /\ \A f \in out' : \E k \in Slots :
                /\ f = Frame(p[k]) /\ p[k].isUse /\ p[k].isFull
                /\ l < p[k].seqnum
           /\ \/ n = l + SkipRounds
              \/ \E k \in Slots : /\ p[k].isUse /\ p[k].seqnum = n + 1
                                  /\ ~ p[k].isFull
<1>1. PICK n \in l .. l + SkipRounds :
        LET ready == {k \in Slots : p[k].isUse /\ p[k].seqnum \in l + 1 .. n}
        IN /\ Reaches(p, l, n, SkipRounds)
           /\ Settle(Release(p, ready), n, {Frame(p[k]) : k \in ready})
  BY DEF CatchUp, CatchUpWithin
<1> DEFINE ready == {k \in Slots : p[k].isUse /\ p[k].seqnum \in l + 1 .. n}
<1>2. /\ packet' = Release(p, ready) /\ lastpacketseqnum' = n
      /\ out' = {Frame(p[k]) : k \in ready}
  BY <1>1 DEF Settle
<1>3. n \in Nat /\ l <= n /\ n <= l + SkipRounds
  BY ReceiverConstants
<1>4. \A k \in Slots : p[k].seqnum \in Nat
  BY DEF Table, Slot
<1>5. \A k \in Slots : k \in ready <=>
        p[k].isUse /\ l < p[k].seqnum /\ p[k].seqnum <= n
  BY <1>3, <1>4
<1> HIDE DEF ready
<1>6. \A k \in Slots : packet'[k].isUse => packet'[k] = p[k] /\ k \notin ready
  BY <1>2, ReleaseType
<1>7. \A k \in ready : p[k].isFull
  <2>1. SUFFICES ASSUME NEW k \in ready
                 PROVE  p[k].isFull
    OBVIOUS
  <2>2. k \in Holding(p, p[k].seqnum) /\ p[k].seqnum \in l + 1 .. n
    BY <2>1 DEF ready, Holding
  <2>3. QED
    BY <1>1, <2>2 DEF Reaches
<1>8. \A f \in out' : \E k \in Slots :
        f = Frame(p[k]) /\ p[k].isUse /\ p[k].isFull /\ l < p[k].seqnum
  <2>1. SUFFICES ASSUME NEW f \in out'
                 PROVE  \E k \in Slots : /\ f = Frame(p[k]) /\ p[k].isUse
                                         /\ p[k].isFull /\ l < p[k].seqnum
    OBVIOUS
  <2>2. PICK k \in ready : f = Frame(p[k])
    BY <1>2
  <2>3. k \in Slots
    BY DEF ready
  <2>4. QED
    BY <1>5, <1>7, <2>2, <2>3
<1>9. \/ n = l + SkipRounds
      \/ \E k \in Slots : p[k].isUse /\ p[k].seqnum = n + 1 /\ ~ p[k].isFull
  BY <1>1 DEF Reaches, Holding
<1>10. QED
  BY <1>2, <1>3, <1>5, <1>6, <1>7, <1>8, <1>9

-----------------------------------------------------------------------------
(* The receiver after a sender died *)

(* The table that a step leaves, when it does not go past c.               *)
LEMMA DeadSettled ==
  ASSUME NEW c, c.seq \in Nat, NEW r, packet' = r,
         NEW l \in Nat, lastpacketseqnum' = l, l < c.seq,
         DeadSlots(r, l, c), c.offset > 0 => Holding(r, c.seq) # {},
         Cardinality(Old(r, l)) <= 1, Cardinality(Mixed)' <= 1
  PROVE  AfterDeath(c)'
<1>1. Cardinality(StaleSlots)' <= 1
  BY StaleIsOld
<1>2. Passed(c)'
  BY DEF Passed
<1>3. DeadSlots(packet, lastpacketseqnum, c)'
  BY DEF DeadSlots, Waiting, Whole, Frame, Collects
<1>4. QED
  BY <1>1, <1>2, <1>3 DEF AfterDeath, DeadTable, Holding

(* A catch-up hands on or gives up what waited.                            *)
LEMMA DeadCatchUp ==
  ASSUME NEW q \in Table, NEW m \in Nat, NEW s \in Nat, m + 1 < s,
         \A k \in Slots : q[k].isUse =>
           q[k].seqnum <= m + 1 \/ Waiting(q[k], s + 1),
         Cardinality(Old(q, m)) <= 1, wild' = {},
         CatchUp(Release(q, Holding(q, m + 1)), m + 1),
         NEW e, e.seq = s + 1, e.offset = 0
  PROVE  AfterDeath(e)'
<1> DEFINE p == Release(q, Holding(q, m + 1))
<1>1. /\ p \in Table
      /\ \A k \in Slots : p[k].isUse => p[k] = q[k] /\ k \notin Holding(q, m + 1)
  BY ReleaseType
<1>2. \A k \in Slots : p[k].isUse =>
        p[k] = q[k] /\ (p[k].seqnum <= m \/ (m + 1 < p[k].seqnum /\ Waiting(p[k], s + 1)))
  <2>1. SUFFICES ASSUME NEW k \in Slots, p[k].isUse
                 PROVE  p[k] = q[k] /\ (p[k].seqnum <= m \/ (m + 1 < p[k].seqnum /\ Waiting(p[k], s + 1)))
    OBVIOUS
  <2>2. p[k] = q[k] /\ q[k].seqnum \in Nat /\ q[k].seqnum # m + 1
    BY <1>1, <2>1 DEF Holding, Table, Slot
  <2> HIDE DEF p
  <2>3. CASE q[k].seqnum <= m + 1
    BY <2>2, <2>3
  <2>4. CASE ~ (q[k].seqnum <= m + 1)
    BY <2>1, <2>2, <2>4
  <2>5. QED
    BY <2>3, <2>4
<1>3. CatchUp(p, m + 1)
  OBVIOUS
<1> HIDE DEF p
<1>4. PICK n \in Nat :
        /\ m + 1 <= n /\ lastpacketseqnum' = n
        /\ \A k \in Slots : packet'[k].isUse =>
             /\ packet'[k] = p[k]
             /\ ~ (m + 1 < p[k].seqnum /\ p[k].seqnum <= n)
        /\ \A f \in out' : \E k \in Slots :
             /\ f = Frame(p[k]) /\ p[k].isUse /\ p[k].isFull
             /\ m + 1 < p[k].seqnum
  BY <1>1, <1>3, CatchUpEnds
<1>5. WholeFrames'
  <2>1. ASSUME NEW f \in out'
        PROVE  Whole(f)
    <3>1. PICK k \in Slots : f = Frame(p[k]) /\ p[k].isUse /\ m + 1 < p[k].seqnum
      BY <1>4
    <3>2. p[k].seqnum \in Nat
      BY <1>1 DEF Table, Slot
    <3>3. Waiting(p[k], s + 1)
      BY <1>2, <3>1, <3>2
    <3>4. QED
      BY <3>1, <3>3 DEF Waiting
  <2>2. QED
    BY <2>1 DEF WholeFrames, Whole
<1>6. Cardinality(Mixed)' <= 1
  BY <1>5, MixedNone
<1> DEFINE r == packet'
<1>7. \A k \in Slots : r[k].isUse => r[k] = q[k] /\ r[k].seqnum \in Nat
         /\ (r[k].seqnum <= m \/ (n < r[k].seqnum /\ Waiting(r[k], s + 1)))
  <2>1. SUFFICES ASSUME NEW k \in Slots, r[k].isUse
                 PROVE  r[k] = q[k] /\ r[k].seqnum \in Nat
         /\ (r[k].seqnum <= m \/ (n < r[k].seqnum /\ Waiting(r[k], s + 1)))
    OBVIOUS
  <2>2. r[k] = p[k] /\ p[k].isUse /\ p[k].seqnum \in Nat
        /\ ~ (m + 1 < p[k].seqnum /\ p[k].seqnum <= n)
    BY <1>1, <1>4, <2>1 DEF Table, Slot
  <2> HIDE DEF r
  <2>3. QED
    BY <1>2, <2>2
<1> HIDE DEF r
<1>8. Old(r, n) \subseteq Old(q, m)
  BY <1>4, <1>7 DEF Old
<1>9. Cardinality(Old(r, n)) <= 1 /\ Cardinality(Old(r, n)) \in Nat
  BY <1>8, OldShrinks, OldFinite
<1>10. CASE n <= s
  <2>1. DeadSlots(r, n, e)
    BY <1>4, <1>7 DEF DeadSlots
  <2>2. QED
    BY <1>4, <1>6, <1>9, <1>10, <2>1, DeadSettled DEF r
<1>11. CASE s < n
  <2>1. \A k \in Slots : r[k].isUse => r[k].seqnum <= n
    BY <1>4, <1>7, <1>11 DEF Waiting
  <2>2. CleanTable(e)'
    BY <1>4, <1>11, <2>1 DEF CleanTable, Stale, r
  <2>3. Cardinality(StaleSlots)' <= 1 /\ Cardinality(StaleSlots)' \in Nat
    BY <1>4, <1>9, StaleIsOld DEF r
  <2>4. CleanState(e, 2)'
    BY <2>2, <2>3 DEF CleanState
  <2>5. QED
    BY <1>6, <2>4 DEF AfterDeath
<1>12. QED
  BY <1>4, <1>10, <1>11

(* A piece of the new sender's frame s was filed in slot j.                *)
LEMMA DeadFiled ==
  ASSUME NEW d, NEW s, NEW n, NEW i, IsPiece(d, s, n, i),
         NEW p \in Table, NEW m \in Nat, m < s, Cardinality(Old(p, m)) <= 1,
         NEW j \in Slots, NEW slot \in Slot, slot.isUse, slot.seqnum = s,
         \A k \in Slots \ {j} : p[k].isUse =>
           p[k].seqnum # s /\ (p[k].seqnum <= m + 1 \/ Waiting(p[k], s)),
         s # m + 1 => /\ slot.data = 0 .. i * SplitSize + Body(n, i) - 1
                      /\ slot.recvedpacks = i + 1 /\ slot.size = n
                      /\ i + 1 = TotalFragment(n) => slot.isFull,
         File(p, m, j, slot, d), wild = {}
  PROVE  AfterDeath(After(d))'
<1> DEFINE e == After(d)
           q == [p EXCEPT ![j] = slot]
           t == TotalFragment(n)
           o == i * SplitSize
           z == Body(n, i)
<1>1. /\ q \in Table /\ q[j] = slot /\ \A k \in Slots : k # j => q[k] = p[k]
  BY DEF Table
<1>2. /\ o \in Nat /\ z \in Nat \ {0} /\ n \in Nat /\ s \in Nat /\ i \in Nat
      /\ d.total = t
      /\ \/ i + 1 = t /\ o + z = n /\ e = At(s + 1, 0, 0)
         \/ i + 1 < t /\ o + z = (i + 1) * SplitSize /\ e = At(s, n, o + z)
  BY AfterPiece DEF IsPiece
<1>3. /\ IF slot.recvedpacks = t THEN HandOn(q, m, j) ELSE Settle(q, m, {})
      /\ wild' = {}
  BY <1>2 DEF File
<1> HIDE DEF q, e, t, o, z
<1>4. \/ i + 1 = t /\ e.seq = s + 1 /\ e.offset = 0
      \/ i + 1 < t /\ e.seq = s /\ e.offset > 0
  BY <1>2, AtFields
<1>5. \A k \in Slots : q[k].seqnum \in Nat
  BY <1>1 DEF Table, Slot
<1>6. Old(q, m) \subseteq Old(p, m)
  BY <1>1, <1>2 DEF Old
<1>7. Cardinality(Old(q, m)) <= 1
  BY <1>6, OldShrinks, OldFinite
<1>8. \A k \in Slots : k # j /\ q[k].isUse =>
        q[k].seqnum # s /\ (q[k].seqnum <= m + 1 \/ Waiting(q[k], s))
  BY <1>1
<1>9. \A k \in Slots : Waiting(q[k], s) => Waiting(q[k], s + 1)
  BY <1>2, <1>5 DEF Waiting
<1>10. CASE slot.recvedpacks # t
  <2>1. packet' = q /\ lastpacketseqnum' = m /\ out' = {}
    BY <1>3, <1>10 DEF Settle
  <2>2. WholeFrames'
    BY <2>1 DEF WholeFrames
  <2>3. s # m + 1 => e.seq = s /\ Collects(q[j], e)
    <3>1. SUFFICES ASSUME s # m + 1
                   PROVE  e.seq = s /\ Collects(q[j], e)
      OBVIOUS
    <3>2. i + 1 < t /\ e.seq = s
      BY <1>2, <1>4, <1>10, <3>1
    <3>3. e = At(s, n, (i + 1) * SplitSize) /\ o + z = (i + 1) * SplitSize
      BY <1>2, <3>2
    <3>4. slot.data = 0 .. o + z - 1
      BY <3>1 DEF o, z
    <3>5. Collects(slot, e)
      BY <1>2, <3>1, <3>3, <3>4, CollectsAt
    <3>6. QED
      BY <1>1, <3>2, <3>5
  <2>4. DeadSlots(q, m, e)
    <3>1. SUFFICES ASSUME NEW k \in Slots, q[k].isUse
                   PROVE  q[k].seqnum <= m + 1 \/ Waiting(q[k], e.seq)
                          \/ Collects(q[k], e)
      BY DEF DeadSlots
    <3>2. CASE k = j
      BY <1>1, <1>2, <2>3, <3>2
    <3>3. CASE k # j
      BY <1>4, <1>8, <1>9, <3>1, <3>3
    <3>4. QED
      BY <3>2, <3>3
  <2>5. e.offset > 0 => Holding(q, e.seq) # {}
    BY <1>1, <1>4 DEF Holding
  <2>6. e.seq \in Nat /\ m < e.seq
    BY <1>2, <1>4
  <2>7. QED
    BY <1>7, <2>1, <2>2, <2>4, <2>5, <2>6, MixedNone, DeadSettled DEF e
<1>11. CASE slot.recvedpacks = t /\ s = m + 1
  <2> DEFINE r == Release(q, {j})
  <2>1. Settle(r, s, {Frame(slot)})
    BY <1>1, <1>3, <1>11 DEF HandOn
  <2>2. packet' = r /\ lastpacketseqnum' = s /\ out' = {Frame(slot)}
    BY <2>1 DEF Settle
  <2>3. Cardinality(Mixed)' <= 1
    BY <2>2, MixedOne
  <2>4. \A k \in Slots : r[k].isUse => k # j /\ r[k] = q[k]
    BY <1>1, ReleaseType
  <2> HIDE DEF r
  <2>5. \A k \in Slots : r[k].isUse => k # j /\ r[k] = q[k] /\ r[k].seqnum <= m
    <3>1. SUFFICES ASSUME NEW k \in Slots, r[k].isUse
                   PROVE  r[k].seqnum <= m
      BY <2>4
    <3>2. /\ r[k] = q[k] /\ q[k].seqnum \in Nat /\ q[k].seqnum # s
          /\ q[k].seqnum <= m + 1 \/ q[k].seqnum < s
      BY <1>5, <1>8, <2>4, <3>1 DEF Waiting
    <3>3. QED
      BY <1>11, <3>2
  <2>6. Old(r, s) \subseteq Old(q, m)
    BY <2>5 DEF Old
  <2>7. Cardinality(Old(r, s)) <= 1
    BY <1>7, <2>6, OldShrinks, OldFinite
  <2>8. \A k \in Slots : r[k].isUse => r[k].seqnum <= s /\ r[k].seqnum <= s + 1
    BY <1>5, <1>11, <2>5
  <2>9. CASE e.offset > 0
    <3>1. e.seq = s
      BY <1>4, <2>9
    <3>2. LeftTable(e)'
      BY <2>2, <2>7, <2>8, <2>9, <3>1, StaleIsOld DEF LeftTable, Stale
    <3>3. QED
      BY <2>3, <3>2 DEF AfterDeath, e
  <2>10. CASE e.offset = 0
    <3>1. e.seq = s + 1
      BY <1>4, <2>10
    <3>2. DeadSlots(r, s, e)
      BY <2>8 DEF DeadSlots
    <3>3. QED
      BY <1>2, <2>2, <2>3, <2>7, <2>10, <3>1, <3>2, DeadSettled DEF e
  <2>11. QED
    BY <1>4, <2>9, <2>10
<1>12. CASE slot.recvedpacks = t /\ s # m + 1
  <2>1. i + 1 = t /\ o + z = n /\ e.seq = s + 1 /\ e.offset = 0
    BY <1>2, <1>4, <1>12
  <2>2. Waiting(slot, s + 1)
    <3>1. slot.data = 0 .. n - 1 /\ slot.size = n
      <4>1. slot.data = 0 .. o + z - 1 /\ slot.size = n
        BY <1>12 DEF o, z
      <4>2. QED
        BY <1>2, <2>1, <4>1
    <3>2. Whole(Frame(slot))
      BY <3>1, Zenon DEF Whole, Frame
    <3>3. slot.isFull
      BY <1>12, <2>1 DEF t
    <3>4. QED
      BY <1>2, <3>2, <3>3 DEF Waiting
  <2>3. \A k \in Slots : q[k].isUse =>
          q[k].seqnum <= m + 1 \/ Waiting(q[k], s + 1)
    BY <1>1, <1>8, <1>9, <2>2
  <2>4. q[j].seqnum = s /\ s # m + 1
    BY <1>1, <1>12
  <2>5. CASE Settle(q, m, {})
    <3>1. packet' = q /\ lastpacketseqnum' = m /\ out' = {}
      BY <2>5 DEF Settle
    <3>2. WholeFrames'
      BY <3>1 DEF WholeFrames
    <3>3. DeadSlots(q, m, e)
      BY <2>1, <2>3 DEF DeadSlots
    <3>4. QED
      BY <1>2, <1>7, <2>1, <3>1, <3>2, <3>3, MixedNone, DeadSettled DEF e
  <2>6. CASE CatchUp(Release(q, Holding(q, m + 1)), m + 1)
    <3>1. m + 1 < s
      BY <1>2, <2>4
    <3>2. QED
      BY <1>1, <1>2, <1>3, <1>7, <2>1, <2>3, <2>6, <3>1, DeadCatchUp DEF e
  <2>7. HandOn(q, m, j)
    BY <1>3, <1>12
  <2>8. QED
    BY <2>4, <2>5, <2>6, <2>7 DEF HandOn
<1>13. QED
  BY <1>10, <1>11, <1>12

(* Giving up the frame next in line leaves the others, and that of d.      *)
LEMMA AheadLeaves ==
  ASSUME Perfect, IInv, NEW d \in Datagram, ~ Rejected(d),
         lastpacketseqnum < d.seq
  PROVE  LET p == TableAfterAhead(d)
             m == LastAfterAhead(d)
         IN  /\ p \in Table /\ Unique(p) /\ m \in Nat /\ m < d.seq
             /\ m = lastpacketseqnum \/ /\ m = lastpacketseqnum + 1
                                        /\ lastpacketseqnum + Window < d.seq
             /\ m = lastpacketseqnum => lastpacketseqnum + Window >= d.seq
             /\ \A k \in Slots : p[k].isUse =>
                  /\ p[k] = packet[k]
                  /\ p[k].seqnum <= lastpacketseqnum \/ m < p[k].seqnum
             /\ Holding(p, d.seq) = Holding(packet, d.seq)
             /\ Old(p, m) \subseteq Old(packet, lastpacketseqnum)
             /\ \A k \in Slots : p[k].isFull = packet[k].isFull
<1> DEFINE l == lastpacketseqnum
           p == TableAfterAhead(d)
           m == LastAfterAhead(d)
<1>1. /\ l \in Nat /\ packet \in Table /\ d.seq \in Nat
      /\ Window \in Nat \ {0} /\ ReceiverTypeOK /\ UniqueSeq
      /\ \A k \in Slots : packet[k].seqnum \in Nat
  BY ReceiverConstants DEF IInv, ReceiverTypeOK, Table, Datagram, Perfect, Slot
<1>2. p \in Table /\ Unique(p)
  BY <1>1, AheadKeeps
<1>3. \/ m = l /\ p = packet /\ l + Window >= d.seq
      \/ /\ m = l + 1 /\ l + Window < d.seq
         /\ p = Release(packet, Holding(packet, l + 1))
  BY <1>1 DEF Ahead, TableAfterAhead, LastAfterAhead
<1>4. m \in Nat /\ m < d.seq
  BY <1>1, <1>3
<1>5. \A k \in Slots : p[k].isFull = packet[k].isFull
  BY <1>1, EmptySlotType DEF TableAfterAhead, Release, EmptySlot
<1> HIDE DEF p, m
<1>6. \A k \in Slots : p[k].isUse =>
        p[k] = packet[k] /\ (p[k].seqnum <= l \/ m < p[k].seqnum)
  <2>1. SUFFICES ASSUME NEW k \in Slots, p[k].isUse
                 PROVE  p[k] = packet[k] /\ (p[k].seqnum <= l \/ m < p[k].seqnum)
    OBVIOUS
  <2>2. CASE p = packet /\ m = l
    BY <1>1, <2>2
  <2>3. CASE m = l + 1 /\ p = Release(packet, Holding(packet, l + 1))
    <3>1. p[k] = packet[k] /\ k \notin Holding(packet, l + 1)
      BY <1>1, <2>1, <2>3, ReleaseType
    <3>2. packet[k].seqnum # l + 1
      BY <2>1, <3>1 DEF Holding
    <3>3. QED
      BY <1>1, <2>3, <3>1, <3>2
  <2>4. QED
    BY <1>3, <2>2, <2>3
<1>7. Holding(p, d.seq) = Holding(packet, d.seq)
  <2>1. CASE p = packet
    BY <2>1
  <2>2. CASE m = l + 1 /\ p = Release(packet, Holding(packet, l + 1))
    <3>1. \A k \in Holding(packet, d.seq) : k \notin Holding(packet, l + 1)
      BY <1>1, <1>4, <2>2 DEF Holding
    <3>2. \A k \in Holding(packet, d.seq) : p[k] = packet[k]
      <4>1. Holding(packet, d.seq) \subseteq Slots
        BY DEF Holding
      <4>2. QED
        BY <1>1, <2>2, <3>1, <4>1, ReleaseType
    <3>3. QED
      BY <1>6, <3>2 DEF Holding
  <2>3. QED
    BY <1>3, <2>1, <2>2
<1>8. Old(p, m) \subseteq Old(packet, l)
  BY <1>1, <1>4, <1>6 DEF Old
<1>9. QED
  BY <1>2, <1>3, <1>4, <1>5, <1>6, <1>7, <1>8 DEF p, m

(* The new sender is at the number of the frame just done with.            *)
LEMMA DeadLate ==
  ASSUME IInv, NEW d, NEW s, NEW n, NEW i, IsPiece(d, s, n, i), wild = {},
         s = lastpacketseqnum, DeadSlots(packet, lastpacketseqnum, Before(d)),
         Cardinality(StaleSlots) <= 1,
         NEW j \in Slots, NEW slot \in Slot, slot.isUse, slot.seqnum = s,
         \/ Stale(j)
         \/ ~ packet[j].isUse /\ Cardinality(StaleSlots) < 1,
         File(packet, lastpacketseqnum, j, slot, d)
  PROVE  AfterDeath(After(d))'
<1> DEFINE l == lastpacketseqnum
           c == Before(d)
           e == After(d)
           q == [packet EXCEPT ![j] = slot]
<1>1. /\ l \in Nat /\ packet \in Table /\ Lag \in Nat /\ c.seq = s
      /\ \A k \in Slots : packet[k].seqnum \in Nat
  BY ReceiverConstants, AfterPiece, AtFields
     DEF IInv, ReceiverTypeOK, Table, Slot
<1>2. \/ e.seq = s + 1 /\ e.offset = 0
      \/ e.seq = s /\ e.offset \in Nat \ {0}
  BY AfterPiece, AtFields
<1> HIDE DEF c, e
<1>3. /\ q \in Table /\ q[j] = slot /\ \A k \in Slots : k # j => q[k] = packet[k]
  BY <1>1 DEF Table
<1>4. HandOn(q, l, j) \/ Settle(q, l, {})
  BY DEF File
<1> HIDE DEF q
<1>5. packet' = q /\ lastpacketseqnum' = l /\ out' = {}
  <2>1. q[j].seqnum = l /\ ~ (l = l + 1) /\ ~ (l + Lag < l)
    BY <1>1, <1>3
  <2>2. Settle(q, l, {})
    BY <1>4, <2>1 DEF HandOn
  <2>3. QED
    BY <2>2 DEF Settle
<1>6. \A k \in Slots : packet[k].isUse => packet[k].seqnum <= l + 1
  BY <1>1 DEF DeadSlots, Waiting, Collects, c
<1>7. \A k \in Slots : q[k].isUse => q[k].seqnum <= l + 1
  BY <1>1, <1>3, <1>6
<1>8. DeadSlots(q, l, e)
  BY <1>7 DEF DeadSlots
<1>9. Old(q, l) = StaleSlots \cup {j}
  <2>1. \A k \in Slots : k \in Old(q, l) <=> (k \in StaleSlots \/ k = j)
    BY <1>1, <1>3 DEF Old, StaleSlots, Stale
  <2>2. QED
    BY <2>1 DEF Old, StaleSlots
<1>10. Cardinality(Old(q, l)) <= 1
  <2>1. CASE Stale(j)
    <3>1. Old(q, l) = StaleSlots
      BY <1>9, <2>1 DEF StaleSlots
    <3>2. QED
      BY <3>1
  <2>2. CASE ~ packet[j].isUse /\ Cardinality(StaleSlots) < 1
    <3>1. j \notin StaleSlots
      BY <2>2 DEF StaleSlots, Stale
    <3>2. Cardinality(Old(q, l)) = Cardinality(StaleSlots) + 1
      BY <1>9, <3>1, StaleFinite, FS_AddElement
    <3>3. QED
      BY <2>2, <3>2, StaleFinite
  <2>3. QED
    BY <2>1, <2>2
<1>11. Cardinality(Mixed)' <= 1
  <2>1. WholeFrames'
    BY <1>5 DEF WholeFrames
  <2>2. QED
    BY <2>1, MixedNone
<1>12. DeadTable(e)'
  <2>1. DeadSlots(packet, lastpacketseqnum, e)'
    BY <1>5, <1>8 DEF DeadSlots, Waiting, Whole, Frame, Collects
  <2>2. Passed(e)'
    BY <1>1, <1>2, <1>5 DEF Passed
  <2>3. e.offset > 0 => j \in Holding(q, e.seq)
    BY <1>1, <1>2, <1>3 DEF Holding
  <2>4. Cardinality(StaleSlots)' <= 1
    BY <1>5, <1>10, StaleIsOld
  <2>5. QED
    BY <1>5, <2>1, <2>2, <2>3, <2>4 DEF DeadTable, Holding
<1>13. QED
  BY <1>11, <1>12 DEF AfterDeath, e

(* A call of Revc after which no write ever strayed.                       *)
LEMMA RevcFiles ==
  ASSUME NEW d, Revc(d), wild' = {}
  PROVE  LET p == TableAfterAhead(d)
             m == LastAfterAhead(d)
         IN  \/ Ignore(d)
             \/ /\ ~ Rejected(d)
                /\ \/ \E j \in Holding(p, d.seq) : File(p, m, j, Added(p[j], d), d)
                   \/ /\ Holding(p, d.seq) = {}
                      /\ \E j \in Unused(p) : File(p, m, j, Taken(p[j], d), d)
<1>1. ~ NoSlotLeft(d)
  BY DEF NoSlotLeft, SlotOverrun
<1>2. \A p, l, size : ~ HeapOverrun(p, l, size, d)
  BY DEF HeapOverrun
<1>3. QED
  BY <1>1, <1>2 DEF Revc, AddToFrame, StartFrame

(* One call of Revc brings the receiver from one side of a piece to the    *)
(* other, after the death.                                                 *)
LEMMA DeadReceive ==
  ASSUME Perfect, IInv, NEW d, NEW s, NEW n, NEW i, IsPiece(d, s, n, i),
         AfterDeath(Before(d)), Revc(d), wild' = {}
  PROVE  AfterDeath(After(d))'
<1> DEFINE l == lastpacketseqnum
           c == Before(d)
           e == After(d)
           p == TableAfterAhead(d)
           m == LastAfterAhead(d)
<1>1. /\ l \in Nat /\ packet \in Table /\ UniqueSeq /\ s \in Nat
      /\ d \in Datagram /\ d.seq = s /\ d.payload \in Nat \ {0} /\ c.seq = s
      /\ (c.offset = 0 <=> i = 0) /\ c.offset \in Nat /\ i \in Nat
      /\ e.seq \in {s, s + 1} /\ (e.seq = s + 1 => e.offset = 0)
  <2>1. e.seq = s \/ (e.seq = s + 1 /\ e.offset = 0)
    BY AfterPiece, AtFields
  <2>2. l \in Nat /\ packet \in Table /\ UniqueSeq /\ s \in Nat /\ i \in Nat
    BY DEF IInv, ReceiverTypeOK, Table, IsPiece
  <2>3. /\ d \in Datagram /\ d.seq = s /\ d.payload \in Nat \ {0} /\ c.seq = s
        /\ (c.offset = 0 <=> i = 0) /\ c.offset \in Nat
    BY AfterPiece, AtFields
  <2>4. QED
    BY <2>1, <2>2, <2>3
<1>2. wild = {}
  BY WildGrows
<1>3. \A k \in Slots : packet[k] \in Slot /\ packet[k].seqnum \in Nat
  BY <1>1 DEF Table, Slot
<1> HIDE DEF c, e, p, m
<1>4. CASE CleanState(c, 2)
  <2>1. CleanReceiver(e, 2)'
    BY <1>4, CleanReceive DEF c, e
  <2>2. CleanState(e, 2)' /\ WholeFrames'
    BY <2>1 DEF CleanReceiver
  <2>3. QED
    BY <2>2, MixedNone DEF AfterDeath, e
<1>5. \/ Ignore(d)
      \/ /\ ~ Rejected(d)
         /\ \/ \E j \in Holding(p, s) : File(p, m, j, Added(p[j], d), d)
            \/ /\ Holding(p, s) = {}
               /\ \E j \in Unused(p) : File(p, m, j, Taken(p[j], d), d)
  BY <1>1, RevcFiles DEF p, m
<1>6. \A j \in Holding(packet, s) :
        /\ Added(packet[j], d) \in Slot /\ Added(packet[j], d).isUse
        /\ Added(packet[j], d).seqnum = s
  BY <1>1, <1>3, AddedType DEF Holding
<1>7. \A j \in Unused(packet) :
        /\ Taken(packet[j], d) \in Slot /\ Taken(packet[j], d).isUse
        /\ Taken(packet[j], d).seqnum = s
  BY <1>1, <1>3, TakenType DEF Unused, Taken
<1>8. CASE LeftTable(c)
  <2>1. s = l /\ (\A k \in Slots : packet[k].isUse => Stale(k))
        /\ Cardinality(StaleSlots) <= 1 /\ Cardinality(StaleSlots) \in Nat
    BY <1>1, <1>8, StaleFinite DEF LeftTable
  <2>2. p = packet /\ m = l
    BY <1>1, <2>1, NeverAhead DEF p, m
  <2>3. ~ Ignore(d)
    BY <1>1, <2>1 DEF Ignore, Rejected
  <2>4. PICK j \in Slots, slot \in Slot :
          /\ slot.isUse /\ slot.seqnum = s /\ File(packet, l, j, slot, d)
          /\ Stale(j) \/ ~ packet[j].isUse
    <3>1. ASSUME NEW j \in Holding(packet, s)
          PROVE  j \in Slots /\ Stale(j)
      BY <1>1, <2>1 DEF Holding, Stale
    <3>2. ASSUME NEW j \in Unused(packet)
          PROVE  j \in Slots /\ ~ packet[j].isUse
      BY DEF Unused
    <3>3. QED
      BY <1>5, <1>6, <1>7, <2>2, <2>3, <3>1, <3>2
  <2>5. Cardinality(StaleSlots) <= 2 /\ Cardinality(StaleSlots) < 2
    BY <2>1
  <2>6. CleanReceiver(e, 2)'
    BY <1>1, <1>2, <2>1, <2>4, <2>5, CleanLate DEF e
  <2>7. wild' = {} /\ WholeFrames' /\ CleanState(e, 2)'
    BY <2>6 DEF CleanReceiver
  <2>8. QED
    BY <2>7, MixedNone DEF AfterDeath, e
<1>9. CASE DeadTable(c)
  <2>1. /\ DeadSlots(packet, l, c)
        /\ c.offset > 0 /\ l <= s => Holding(packet, s) # {}
        /\ Cardinality(StaleSlots) <= 1 /\ Cardinality(StaleSlots) \in Nat
        /\ ~ Passed(c) => Cardinality(StaleSlots) < 1
    BY <1>1, <1>9, StaleFinite DEF DeadTable
  <2>2. CASE Ignore(d)
    <3>1. s < l /\ packet' = packet /\ lastpacketseqnum' = l /\ out' = {}
      BY <1>1, <2>2 DEF Ignore, Rejected
    <3>2. \A k \in Slots : packet[k].isUse => packet[k].seqnum <= l + 1
      BY <1>1, <1>3, <2>1, <3>1 DEF DeadSlots, Waiting, Collects
    <3>3. DeadSlots(packet, lastpacketseqnum, e)'
      BY <3>1, <3>2 DEF DeadSlots
    <3>4. ~ Passed(c)
      BY <1>1, <3>1 DEF Passed
    <3>5. Cardinality(StaleSlots)' < 1 /\ Cardinality(StaleSlots)' \in Nat
      BY <2>1, <3>1, <3>4, StaleIsOld
    <3>6. ~ (e.offset > 0 /\ l <= e.seq)
      BY <1>1, <3>1
    <3>7. DeadTable(e)'
      BY <3>1, <3>3, <3>5, <3>6 DEF DeadTable
    <3>8. WholeFrames'
      BY <3>1 DEF WholeFrames
    <3>9. QED
      BY <3>7, <3>8, MixedNone DEF AfterDeath, e
  <2>3. CASE ~ Ignore(d) /\ s = l
    <3>1. p = packet /\ m = l
      BY <1>1, <2>3, NeverAhead DEF p, m
    <3>2. PICK j \in Slots, slot \in Slot :
            /\ slot.isUse /\ slot.seqnum = s /\ File(packet, l, j, slot, d)
            /\ Stale(j) \/ (~ packet[j].isUse /\ Holding(packet, s) = {})
      <4>1. ASSUME NEW j \in Holding(packet, s)
            PROVE  j \in Slots /\ Stale(j)
        BY <1>1, <2>3 DEF Holding, Stale
      <4>2. ASSUME NEW j \in Unused(packet)
            PROVE  j \in Slots /\ ~ packet[j].isUse
        BY DEF Unused
      <4>3. QED
        BY <1>5, <1>6, <1>7, <2>3, <3>1, <4>1, <4>2
    <3>3. Holding(packet, s) = {} => Cardinality(StaleSlots) < 1
      BY <1>1, <2>1, <2>3 DEF Passed
    <3>4. QED
      BY <1>2, <2>1, <2>3, <3>2, <3>3, DeadLate DEF c, e
  <2>4. CASE ~ Ignore(d) /\ l < s
    <3>1. ~ Rejected(d)
      BY <1>5, <2>4
    <3>2. /\ p \in Table /\ Unique(p) /\ m \in Nat /\ m < s
          /\ m = l \/ m = l + 1
          /\ \A k \in Slots : p[k].isUse => p[k] = packet[k]
          /\ Holding(p, s) = Holding(packet, s)
          /\ Old(p, m) \subseteq Old(packet, l)
      BY <1>1, <2>4, <3>1, AheadLeaves DEF p, m
    <3>3. Cardinality(Old(p, m)) <= 1
      BY <2>1, <3>2, OldShrinks, OldFinite, StaleIsOld
    <3>4. \A k \in Slots : p[k].isUse =>
            p[k].seqnum <= m + 1 \/ Waiting(p[k], s) \/ Collects(p[k], c)
      BY <1>1, <1>3, <2>1, <3>2 DEF DeadSlots
    <3>5. \A k \in Slots : Collects(p[k], c) => p[k].seqnum = s
      BY <1>1 DEF Collects
    <3>6. CASE \E j \in Holding(p, s) : File(p, m, j, Added(p[j], d), d)
      <4>1. PICK j \in Holding(p, s) : File(p, m, j, Added(p[j], d), d)
        BY <3>6
      <4>2. j \in Slots /\ p[j] \in Slot /\ p[j].isUse /\ p[j].seqnum = s
        BY <3>2 DEF Holding, Table
      <4>3. \A k \in Slots \ {j} : p[k].isUse =>
              p[k].seqnum # s /\ (p[k].seqnum <= m + 1 \/ Waiting(p[k], s))
        BY <3>2, <3>4, <3>5, <4>2 DEF Unique
      <4>4. Added(p[j], d) \in Slot /\ Added(p[j], d).isUse
            /\ Added(p[j], d).seqnum = s
        BY <1>1, <4>2, AddedType
      <4>5. s # m + 1 =>
              /\ Added(p[j], d).data = 0 .. i * SplitSize + Body(n, i) - 1
              /\ Added(p[j], d).recvedpacks = i + 1 /\ Added(p[j], d).size = n
              /\ i + 1 = TotalFragment(n) => Added(p[j], d).isFull
        <5>1. SUFFICES ASSUME s # m + 1
                       PROVE  Collects(p[j], c)
          BY <4>2, CollectsMore DEF c
        <5>2. ~ (s <= m + 1) /\ ~ Waiting(p[j], s)
          BY <1>1, <3>2, <4>2, <5>1 DEF Waiting
        <5>3. QED
          BY <3>4, <4>2, <5>2
      <4>6. QED
        BY <1>2, <3>2, <3>3, <4>1, <4>2, <4>3, <4>4, <4>5, DeadFiled DEF e
    <3>7. CASE /\ Holding(p, s) = {}
               /\ \E j \in Unused(p) : File(p, m, j, Taken(p[j], d), d)
      <4>1. PICK j \in Unused(p) : File(p, m, j, Taken(p[j], d), d)
        BY <3>7
      <4>2. j \in Slots /\ p[j] \in Slot /\ ~ p[j].isUse
        BY <3>2 DEF Unused, Table
      <4>3. \A k \in Slots \ {j} : p[k].isUse =>
              p[k].seqnum # s /\ (p[k].seqnum <= m + 1 \/ Waiting(p[k], s))
        BY <3>4, <3>5, <3>7 DEF Holding
      <4>4. i = 0
        BY <1>1, <2>1, <2>4, <3>2, <3>7
      <4>5. Taken(p[j], d) \in Slot /\ Taken(p[j], d).isUse
            /\ Taken(p[j], d).seqnum = s
            /\ Taken(p[j], d).data = 0 .. i * SplitSize + Body(n, i) - 1
            /\ Taken(p[j], d).recvedpacks = i + 1 /\ Taken(p[j], d).size = n
        BY <1>1, <4>2, <4>4, TakenType, TakenCollects
      <4>6. i + 1 = TotalFragment(n) => Taken(p[j], d).isFull
        <5>1. d.total = TotalFragment(n)
          BY PieceCounts
        <5>2. Taken(p[j], d).isFull = (p[j].isFull \/ d.total = 1)
          BY DEF Taken
        <5>3. i + 1 = TotalFragment(n) => d.total = 1
          BY <4>4, <5>1
        <5>4. QED
          BY <5>2, <5>3, Zenon
      <4>7. QED
        BY <1>2, <3>2, <3>3, <4>1, <4>2, <4>3, <4>5, <4>6, DeadFiled DEF e
    <3>8. QED
      BY <1>5, <2>4, <3>6, <3>7
  <2>5. QED
    BY <1>1, <1>5, <2>2, <2>3, <2>4 DEF Rejected
<1>10. QED
  BY <1>4, <1>8, <1>9 DEF AfterDeath, c, e

-----------------------------------------------------------------------------
(* The projection when a sender died *)

(* The receiver is at c, which the dead sender (0) or the new one (1) sent.*)
DeathReceiver(c, b) ==
  wild = {} => IF b = 0 THEN CleanReceiver(c, 0) ELSE AfterDeath(c)

Died ==
  \E life \in [1 .. Len(net) + 1 -> 0 .. 1] :
    /\ Path(net, SenderAt, life, 1, {0})
    /\ DeathReceiver(ReceiverAt, life[1])

DeathInv ==
  RestartInv /\ (joins = 0 /\ restarts = 1 /\ deaths = 1 => Died)

(* Wherever the dead sender was, the new one begins with a table such as   *)
(* DeadTable.                                                              *)
LEMMA DeathBegins ==
  ASSUME IInv', NEW c, CleanReceiver(c, 0)'
  PROVE  wild' = {} /\ AfterDeath(Start)'
<1>1. lastpacketseqnum' \in Nat /\ Cardinality(StaleSlots)' \in Nat
  BY StaleNext DEF IInv, ReceiverTypeOK
<1>2. /\ wild' = {} /\ CleanTable(c)' /\ WholeFrames'
      /\ Cardinality(StaleSlots)' <= 0
  BY DEF CleanReceiver, CleanState
<1>3. \A k \in Slots : packet'[k].isUse =>
        packet'[k].seqnum <= lastpacketseqnum' + 1
  <2>1. \A k \in Slots : packet'[k].isUse =>
          \/ packet'[k].seqnum <= lastpacketseqnum'
          \/ packet'[k].seqnum = lastpacketseqnum' + 1
    BY <1>2 DEF CleanTable, Stale, Collects
  <2>2. \A k \in Slots : packet'[k].seqnum \in Nat
    BY DEF IInv, ReceiverTypeOK, Slot
  <2>3. QED
    BY <1>1, <2>1, <2>2
<1>4. DeadTable(Start)'
  <2>1. DeadSlots(packet, lastpacketseqnum, Start)'
    BY <1>3 DEF DeadSlots
  <2>2. Cardinality(StaleSlots)' <= 1 /\ Cardinality(StaleSlots)' < 1
    BY <1>1, <1>2
  <2>3. QED
    BY <2>1, <2>2, StartFields DEF DeadTable
<1>5. QED
  BY <1>2, <1>4, MixedNone DEF AfterDeath

(* A step that leaves the receiver alone.                                  *)
LEMMA DeathStays ==
  ASSUME NEW c, NEW b, UNCHANGED rvars, DeathReceiver(c, b)
  PROVE  DeathReceiver(c, b)'
<1>1. wild' = wild /\ out' = out /\ packet' = packet
      /\ lastpacketseqnum' = lastpacketseqnum
  BY DEF rvars
<1>2. CleanReceiver(c, 0) => CleanReceiver(c, 0)'
  BY CleanStays
<1>3. CleanState(c, 2) => CleanState(c, 2)'
  BY <1>1 DEF CleanState, CleanTable, StaleSlots, Stale, Passed, Collects,
              Holding
<1>4. StaleSlots' = StaleSlots /\ Mixed' = Mixed /\ Passed(c)' = Passed(c)
  BY <1>1 DEF StaleSlots, Stale, Mixed, Whole, Passed
<1>5. DeadTable(c) => DeadTable(c)'
  BY <1>1, <1>4 DEF DeadTable, DeadSlots, Waiting, Whole, Frame, Collects,
                    Holding
<1>6. LeftTable(c) => LeftTable(c)'
  BY <1>1, <1>4 DEF LeftTable, Stale
<1>7. AfterDeath(c) => AfterDeath(c)'
  BY <1>3, <1>4, <1>5, <1>6 DEF AfterDeath
<1>8. QED
  BY <1>1, <1>2, <1>7 DEF DeathReceiver

(* The sender dies.                                                        *)
LEMMA DeathHappens ==
  ASSUME Base, SenderRestarts, Clean(0)
  PROVE  Died'
<1>1. /\ net' = net /\ net \in Seq(Datagram) /\ UNCHANGED rvars
      /\ count' = 0 /\ call' = NoCall
  BY DEF SenderRestarts, Base
<1>2. SenderAt' = Start
  BY <1>1 DEF SenderAt, Start
<1>3. IInv'
  BY SenderRestartsClean DEF Base
<1>4. PICK life \in [1 .. Len(net) + 1 -> 0 .. 0] :
        Path(net, SenderAt, life, 0, {}) /\ CleanReceiver(ReceiverAt, life[1])
  BY DEF Clean
<1>5. life[1] = 0
  <2>1. Len(net) \in Nat
    BY <1>1, LenProperties
  <2>2. 1 \in 1 .. Len(net) + 1
    BY <2>1
  <2>3. life[1] \in 0 .. 0
    BY <2>2
  <2>4. QED
    BY <2>3
<1>6. PICK at, none, dead : at = SenderAt /\ none = {} /\ dead = {0}
  OBVIOUS
<1>7. PICK more \in [1 .. Len(net) + 1 -> 0 .. 0 + 1] :
        /\ Path(net, Start, more, 0 + 1, dead)
        /\ \/ net # <<>> /\ more[1] = life[1] /\ Pos(net, Start, 1) = Pos(net, at, 1)
           \/ net = <<>> /\ more[1] = 0 + 1 /\ Pos(net, Start, 1) = Start
              /\ Pos(net, at, 1) = at
  <2>1. Path(net, at, life, 0, none) /\ none \subseteq dead /\ 0 .. 0 \subseteq dead
    BY <1>4, <1>6
  <2>2. QED
    BY <1>1, <2>1, PathRestart
<1>8. ReceiverAt' = Pos(net, Start, 1) /\ ReceiverAt = Pos(net, at, 1)
  BY <1>1, <1>2, <1>6 DEF ReceiverAt
<1>9. PICK c : c = ReceiverAt
  OBVIOUS
<1>10. CleanReceiver(c, 0)'
  BY <1>1, <1>4, <1>5, <1>9, CleanStays
<1>11. DeathReceiver(ReceiverAt, more[1])'
  <2>1. CASE net # <<>>
    BY <1>5, <1>7, <1>8, <1>9, <1>10, <2>1 DEF DeathReceiver
  <2>2. CASE net = <<>>
    <3>1. AfterDeath(Start)'
      BY <1>3, <1>10, DeathBegins
    <3>2. ReceiverAt' = Start /\ more[1] = 1
      BY <1>7, <1>8, <2>2
    <3>3. QED
      BY <3>1, <3>2 DEF DeathReceiver
  <2>3. QED
    BY <2>1, <2>2
<1>12. QED
  BY <1>1, <1>2, <1>6, <1>7, <1>11 DEF Died

(* The steps of the sender and of the network.                             *)
LEMMA DeathSends ==
  ASSUME Perfect, Room, Base, Send, Died
  PROVE  Died'
<1>1. /\ SenderOK /\ net \in Seq(Datagram) /\ UNCHANGED rvars /\ SenderStep
  BY DEF Base, Send
<1>2. PICK life \in [1 .. Len(net) + 1 -> 0 .. 1] :
        /\ Path(net, SenderAt, life, 1, {0})
        /\ DeathReceiver(ReceiverAt, life[1])
  BY DEF Died
<1>3. PICK long \in [1 .. Len(net') + 1 -> 0 .. 1] :
        /\ Path(net', SenderAt', long, 1, {0}) /\ long[1] = life[1]
        /\ ReceiverAt' = ReceiverAt
  BY <1>1, <1>2, SendPath
<1>4. PICK c, b : c = ReceiverAt /\ b = life[1]
  OBVIOUS
<1>5. DeathReceiver(c, b)'
  BY <1>1, <1>2, <1>4, DeathStays
<1>6. DeathReceiver(ReceiverAt, long[1])'
  BY <1>3, <1>4, <1>5
<1>7. QED
  BY <1>3, <1>6 DEF Died

(* One call of Revc, on a piece of the sender that died or of the new one. *)
LEMMA DeathReceives ==
  ASSUME Perfect, Base, NEW k \in DOMAIN net, Receive(k), Died
  PROVE  Died'
<1>1. Piece(net[1]) /\ Revc(net[1]) /\ IInv
  BY ReceiveTakesFirst DEF Base
<1>2. PICK d : d = net[1]
  OBVIOUS
<1>3. PICK n \in FrameSizes, i \in Nat : IsPiece(d, d.seq, n, i)
  BY <1>1, <1>2, PieceIs
<1>4. IInv'
  BY ReceiveBase DEF Base
<1>5. PICK life \in [1 .. Len(net) + 1 -> 0 .. 1] :
        /\ Path(net, SenderAt, life, 1, {0})
        /\ DeathReceiver(ReceiverAt, life[1])
  BY DEF Died
<1>6. PICK b, more, dead : b = life[1] /\ more = life[2] /\ dead = {0}
  OBVIOUS
<1>7. /\ ReceiverAt = Before(d)
      /\ b \in 0 .. 1 /\ more \in 0 .. 1 /\ b <= more
      /\ \E rest \in [1 .. Len(net') + 1 -> 0 .. 1] :
           Path(net', SenderAt', rest, 1, dead) /\ rest[1] = more
      /\ \/ ReceiverAt' = After(d)
         \/ ReceiverAt' = Start /\ b < more
  BY <1>2, <1>5, <1>6, ReceivePath
<1>8. PICK rest \in [1 .. Len(net') + 1 -> 0 .. 1] :
        Path(net', SenderAt', rest, 1, dead) /\ rest[1] = more
  BY <1>7
<1>9. DeathReceiver(Before(d), b)
  BY <1>5, <1>6, <1>7
<1>10. ASSUME wild' = {}
       PROVE  IF more = 0 THEN CleanReceiver(ReceiverAt, 0)'
                          ELSE AfterDeath(ReceiverAt)'
  <2>1. wild = {}
    BY <1>1, <1>2, <1>10, WildGrows
  <2>2. CASE b = 0
    <3>1. CleanState(Before(d), 0)
      BY <1>9, <2>1, <2>2 DEF DeathReceiver, CleanReceiver
    <3>2. CleanReceiver(After(d), 0)'
      BY <1>1, <1>2, <1>3, <3>1, CleanReceive
    <3>3. CASE ReceiverAt' = After(d)
      <4>1. CASE more = 0
        BY <3>2, <3>3, <4>1
      <4>2. CASE more # 0
        <5>1. PICK e : e = After(d)
          OBVIOUS
        <5>2. CleanReceiver(e, 0)' /\ Cardinality(StaleSlots)' \in Nat
          BY <3>2, <5>1, StaleNext
        <5>3. CleanState(e, 2)' /\ WholeFrames'
          BY <1>10, <5>2 DEF CleanReceiver, CleanState
        <5>4. AfterDeath(e)'
          BY <5>3, MixedNone DEF AfterDeath
        <5>5. QED
          BY <3>3, <4>2, <5>1, <5>4
      <4>3. QED
        BY <4>1, <4>2
    <3>4. CASE ReceiverAt' = Start /\ b < more
      <4>1. AfterDeath(Start)' /\ more # 0
        BY <1>4, <2>2, <3>2, <3>4, DeathBegins
      <4>2. QED
        BY <3>4, <4>1
    <3>5. QED
      BY <1>7, <3>3, <3>4
  <2>3. CASE b = 1
    <3>1. AfterDeath(Before(d))
      BY <1>9, <2>1, <2>3 DEF DeathReceiver
    <3>2. AfterDeath(After(d))'
      BY <1>1, <1>2, <1>3, <1>10, <3>1, DeadReceive
    <3>3. more = 1 /\ ReceiverAt' = After(d)
      BY <1>7, <2>3
    <3>4. QED
      BY <3>2, <3>3
  <2>4. QED
    BY <1>7, <2>2, <2>3
<1>11. DeathReceiver(ReceiverAt, rest[1])'
  BY <1>8, <1>10 DEF DeathReceiver
<1>12. QED
  BY <1>6, <1>8, <1>11 DEF Died

(* A step that leaves everything alone.                                    *)
LEMMA DeathIdles ==
  ASSUME UNCHANGED vars, Died
  PROVE  Died'
<1>1. UNCHANGED <<count, call, net, dups>> /\ UNCHANGED rvars
  BY DEF vars, rvars
<1>2. SenderAt' = SenderAt /\ ReceiverAt' = ReceiverAt /\ net' = net
  BY <1>1 DEF SenderAt, ReceiverAt
<1>3. PICK life \in [1 .. Len(net) + 1 -> 0 .. 1] :
        /\ Path(net, SenderAt, life, 1, {0})
        /\ DeathReceiver(ReceiverAt, life[1])
  BY DEF Died
<1>4. DeathReceiver(ReceiverAt, life[1])'
  BY <1>1, <1>2, <1>3, DeathStays
<1>5. QED
  BY <1>2, <1>3, <1>4 DEF Died

(* A step of the programs, or a restart.                                   *)
LEMMA DeathStep ==
  ASSUME Perfect, Room, DeathInv, [RestartNext]_restartVars
  PROVE  DeathInv'
<1>1. RestartInv /\ RestartInv' /\ Base
  BY RestartStep DEF DeathInv, RestartInv
<1>2. CASE [Next]_vars /\ UNCHANGED <<restarts, deaths, joins, joined>>
  <2>1. Died => Died'
    BY <1>1, <1>2, DeathSends, DeathReceives, DeathIdles DEF Next
  <2>2. QED
    BY <1>1, <1>2, <2>1 DEF DeathInv
<1>3. CASE SenderRestarts
  <2>1. SUFFICES ASSUME joins' = 0, restarts' = 1, deaths' = 1
                 PROVE  Died'
    BY <1>1 DEF DeathInv
  <2>2. joins = 0 /\ restarts = 0 /\ deaths = 0
    <3>1. /\ joins' = joins /\ restarts' = restarts + 1
          /\ restarts \in Nat /\ deaths \in Nat /\ deaths <= restarts
      BY <1>1, <1>3 DEF SenderRestarts, RestartInv
    <3>2. QED
      BY <2>1, <3>1
  <2>3. Clean(restarts) /\ joins + deaths = 0
    BY <1>1, <2>2 DEF RestartInv
  <2>4. Clean(0)
    BY <2>2, <2>3
  <2>5. QED
    BY <1>1, <1>3, <2>4, DeathHappens
<1>4. CASE ReceiverRestarts
  <2>1. joins' # 0
    BY <1>1, <1>4 DEF ReceiverRestarts, RestartInv
  <2>2. QED
    BY <1>1, <2>1 DEF DeathInv
<1>5. QED
  BY <1>2, <1>3, <1>4 DEF RestartNext, restartVars

(* What holds in every reachable state.                                    *)
LEMMA DeathInvariant ==
  ASSUME Perfect
  PROVE  RestartSpec /\ []Room => []DeathInv
<1>1. RestartInit => DeathInv
  <2>1. SUFFICES ASSUME RestartInit
                 PROVE  DeathInv
    OBVIOUS
  <2>2. Base /\ Clean(0) /\ Joined
    BY <2>1, BeginsClean DEF RestartInit
  <2>3. QED
    BY <2>1, <2>2 DEF RestartInit, RestartInv, DeathInv
<1>2. DeathInv /\ Room /\ [RestartNext]_restartVars => DeathInv'
  BY DeathStep
<1>3. QED
  BY <1>1, <1>2, PTL DEF RestartSpec

(* The sender that died in the middle of a frame costs the receiver at     *)
(* most two slots, and in no call of Revc does it hand on more than one    *)
(* frame that is not whole, whatever the two senders sent.                 *)
THEOREM DeathCostCorrect ==
  ASSUME Perfect
  PROVE  RestartSpec /\ []Room => []DeathCost
<1>1. ASSUME DeathInv, wild = {}, joins = 0, restarts = 1, deaths = 1
      PROVE  /\ Cardinality(StaleSlots) <= 2
             /\ Cardinality({f \in out : ~ Whole(f)}) <= 1
  <2>1. RestartInv /\ Base /\ Died
    BY <1>1 DEF DeathInv, RestartInv
  <2>2. PICK life \in [1 .. Len(net) + 1 -> 0 .. 1] :
          DeathReceiver(ReceiverAt, life[1])
    BY <2>1 DEF Died
  <2>3. CASE life[1] = 0
    <3>1. CleanReceiver(ReceiverAt, 0)
      BY <1>1, <2>2, <2>3 DEF DeathReceiver
    <3>2. WholeFrames /\ Cardinality(StaleSlots) <= 0
      BY <1>1, <3>1 DEF CleanReceiver, CleanState
    <3>3. {f \in out : ~ Whole(f)} = {}
      BY <3>2 DEF WholeFrames
    <3>4. Cardinality({f \in out : ~ Whole(f)}) = 0
      BY <3>3, FS_EmptySet
    <3>5. QED
      BY <3>2, <3>4, StaleFinite
  <2>4. CASE life[1] # 0
    <3>1. AfterDeath(ReceiverAt)
      BY <1>1, <2>2, <2>4 DEF DeathReceiver
    <3>2. Cardinality(StaleSlots) <= 2
      BY <1>1, <3>1, StaleFinite
         DEF AfterDeath, DeadTable, LeftTable, CleanState
    <3>3. QED
      BY <3>1, <3>2 DEF AfterDeath, Mixed
  <2>5. QED
    BY <2>3, <2>4
<1>2. DeathInv => DeathCost
  BY <1>1 DEF DeathCost
<1>3. QED
  BY <1>2, DeathInvariant, PTL

-----------------------------------------------------------------------------
(* The pace of a late receiver *)

(* The constants are such that a catch-up goes further than the window,    *)
(* and the window further than the lag, as those of the code: 5, 10, 10.   *)
Paces == 1 <= Lag /\ Lag < Window /\ Window <= SkipRounds

(* What x frames of the sender let the receiver gain in catch-ups.         *)
Gain(x) == x * (SkipRounds + 2)

(* The receiver was started at frame J, has come to l, and the sender to   *)
(* position o of frame s.  A frame that is complete waits for those before *)
(* it (Waits), or the receiver has gained on the sender with every frame   *)
(* since (Paced): until it has reached the frame before J, where the slot  *)
(* of the frame that was cut may end a catch-up (Close).                   *)
Waits(l, s) == s <= l + Lag + 1

Paced(l, s, o, J) ==
  /\ Gain(s - J - 1) <= l
  /\ o > 0 => s <= l + Window \/ Gain(s - J - 1) < l

Close(l, s, J) ==
  /\ J - 1 <= l /\ Gain(l - J) < J - 1
  /\ Waits(l, s) \/ Gain(s - 2 - J) < J - 1

Pace(l, s, o, J) ==
  \/ l < J - 1 /\ (Waits(l, s) \/ Paced(l, s, o, J))
  \/ Close(l, s, J)

(* It was not so late that it would run out of slots before.               *)
NotTooLate(J) == J - 1 <= Gain(Window - 1)

(* More frames are a larger gain, by SkipRounds + 2 each.                  *)
LEMMA GainGrows ==
  ASSUME NEW x \in Int, NEW y \in Int
  PROVE  /\ Gain(x) \in Int /\ (x <= y <=> Gain(x) <= Gain(y))
         /\ Gain(x + 1) = Gain(x) + SkipRounds + 2 /\ Gain(0) = 0
<1> DEFINE K == SkipRounds + 2
<1>1. K \in Nat \ {0} /\ SkipRounds \in Nat
  BY ReceiverConstants
<1>2. Gain(x + 1) = Gain(x) + SkipRounds + 2 /\ Gain(0) = 0
  BY <1>1 DEF Gain
<1> HIDE DEF K
<1>3. ASSUME NEW u \in Int, NEW v \in Int, u < v
      PROVE  u * K < v * K
  <2> DEFINE w == v - u
  <2>1. w \in Nat \ {0} /\ v = u + w
    BY <1>3
  <2> HIDE DEF w
  <2>2. v * K = u * K + w * K
    BY <1>1, <2>1
  <2>3. w * K > 0 /\ u * K \in Int /\ w * K \in Nat
    BY <1>1, <2>1
  <2>4. QED
    BY <2>2, <2>3
<1>4. x * K \in Int /\ y * K \in Int
  BY <1>1
<1>5. x < y => x * K < y * K
  BY <1>3
<1>6. y < x => y * K < x * K
  BY <1>3
<1>7. x <= y <=> x * K <= y * K
  BY <1>4, <1>5, <1>6
<1>8. QED
  BY <1>2, <1>4, <1>7 DEF Gain, K

(* The position moves inside a frame, after a frame too far ahead may have *)
(* cost the one next in line.                                              *)
LEMMA PaceAhead ==
  ASSUME Paces, NEW l \in Nat, NEW s \in Nat, NEW o \in Nat, NEW J \in Nat,
         NEW m \in Nat, Pace(l, s, o, J), l < s,
         \/ m = l /\ l + Window >= s
         \/ m = l + 1 /\ l + Window < s,
         NEW z \in Nat
  PROVE  Pace(m, s, z, J)
<1>1. /\ Lag \in Nat /\ Window \in Nat /\ 1 <= Lag /\ Lag < Window
  BY ReceiverConstants DEF Paces
<1>2. CASE m = l /\ l + Window >= s
  BY <1>1, <1>2 DEF Pace, Paced
<1>3. CASE m = l + 1 /\ l + Window < s
  <2>1. ~ Waits(l, s)
    BY <1>1, <1>3 DEF Waits
  <2>2. CASE l < J - 1 /\ Paced(l, s, o, J)
    <3>1. Gain(s - J - 1) <= l /\ Gain(s - J - 1) \in Int
      BY <2>2, GainGrows DEF Paced
    <3>2. Gain(s - J - 1) < m
      BY <1>3, <3>1
    <3>3. CASE m < J - 1
      BY <3>1, <3>2, <3>3 DEF Pace, Paced
    <3>4. CASE m = J - 1
      <4>1. m - J \in Int /\ m - J <= 0 /\ (m - J) + 1 = 0 /\ SkipRounds \in Nat
        BY <3>4, ReceiverConstants
      <4>2. Gain(m - J) < 0
        <5>1. Gain((m - J) + 1) = Gain(m - J) + SkipRounds + 2 /\ Gain(0) = 0
              /\ Gain(m - J) \in Int
          BY <4>1, GainGrows
        <5>2. QED
          BY <4>1, <5>1
      <4>3. Gain(s - 2 - J) <= Gain(s - J - 1) /\ Gain(s - 2 - J) \in Int
        <5>1. s - 2 - J \in Int /\ s - J - 1 \in Int /\ s - 2 - J <= s - J - 1
          OBVIOUS
        <5>2. QED
          BY <5>1, GainGrows
      <4>4. Gain(m - J) \in Int
        BY <4>1, GainGrows
      <4>5. Close(m, s, J)
        BY <3>1, <3>2, <3>4, <4>2, <4>3, <4>4 DEF Close
      <4>6. QED
        BY <4>5 DEF Pace
    <3>5. QED
      BY <1>3, <2>2, <3>3, <3>4
  <2>3. CASE Close(l, s, J)
    <3>1. J - 1 <= l /\ Gain(s - 2 - J) < J - 1
      BY <2>1, <2>3 DEF Close
    <3>2. m - J \in Int /\ s - 2 - J \in Int /\ m - J <= s - 2 - J
      BY <1>1, <1>3
    <3>3. Gain(m - J) <= Gain(s - 2 - J) /\ Gain(m - J) \in Int
          /\ Gain(s - 2 - J) \in Int
      BY <3>2, GainGrows
    <3>4. Close(m, s, J)
      BY <1>3, <3>1, <3>3 DEF Close
    <3>5. QED
      BY <3>4 DEF Pace
  <2>4. QED
    BY <2>1, <2>2, <2>3 DEF Pace
<1>4. QED
  BY <1>2, <1>3

(* The frames from J on that are past m and before s are fewer than the    *)
(* window, which begins after a.                                           *)
Spans(a, m, s, J) ==
  /\ a < s /\ s <= a + Window
  /\ \A x \in Nat : m < x /\ J <= x => a < x

(* All frames in the table, from J on, are in one window.                  *)
LEMMA PaceRoom ==
  ASSUME Paces, NEW l \in Nat, NEW s \in Nat, NEW o \in Nat, NEW J \in Nat,
         NEW m \in Nat, Pace(l, s, o, J), l < s, NotTooLate(J), J <= s,
         \/ m = l /\ l + Window >= s
         \/ m = l + 1 /\ l + Window < s
  PROVE  \E a \in Nat : Spans(a, m, s, J)
<1>1. /\ Lag \in Nat /\ Window \in Nat /\ 1 <= Lag /\ Lag < Window
  BY ReceiverConstants DEF Paces
<1>2. CASE m = l /\ l + Window >= s
  BY <1>1, <1>2 DEF Spans
<1>3. CASE m = l + 1 /\ l + Window < s
  <2>1. ~ Waits(l, s)
    BY <1>1, <1>3 DEF Waits
  <2>2. /\ Gain(Window - 1) \in Int /\ J - 1 <= Gain(Window - 1)
        /\ s - J - 1 \in Int /\ Window - 1 \in Int /\ s - 2 - J \in Int
        /\ Gain(s - J - 1) \in Int /\ Gain(s - 2 - J) \in Int
    <3>1. s - J - 1 \in Int /\ Window - 1 \in Int /\ s - 2 - J \in Int
      BY <1>1
    <3>2. /\ Gain(s - J - 1) \in Int /\ Gain(s - 2 - J) \in Int
          /\ Gain(Window - 1) \in Int
      BY <3>1, GainGrows
    <3>3. QED
      BY <3>1, <3>2 DEF NotTooLate
  <2>3. CASE l < J - 1 /\ Paced(l, s, o, J)
    <3>1. Gain(s - J - 1) < Gain(Window - 1)
      BY <2>2, <2>3 DEF Paced
    <3>2. ~ (Window - 1 <= s - J - 1)
      BY <2>2, <3>1, GainGrows
    <3>3. J - 1 \in Nat /\ J - 1 < s /\ s <= (J - 1) + Window
      BY <1>1, <2>2, <2>3, <3>2
    <3>4. Spans(J - 1, m, s, J)
      BY <1>3, <2>3, <3>3 DEF Spans
    <3>5. QED
      BY <3>3, <3>4
  <2>4. CASE Close(l, s, J)
    <3>1. J - 1 <= l /\ Gain(s - 2 - J) < J - 1
      BY <2>1, <2>4 DEF Close
    <3>2. Gain(s - 2 - J) < Gain(Window - 1)
      BY <2>2, <3>1
    <3>3. ~ (Window - 1 <= s - 2 - J)
      BY <2>2, <3>2, GainGrows
    <3>4. m < s /\ s <= m + Window
      BY <1>1, <1>3, <3>1, <3>3
    <3>5. QED
      BY <3>4 DEF Spans
  <2>5. QED
    BY <2>1, <2>3, <2>4 DEF Pace
<1>4. QED
  BY <1>2, <1>3

(* The frame that was cut is over, and is not complete.                    *)
LEMMA PaceCut ==
  ASSUME Paces, NEW m \in Nat, NEW J \in Nat, NEW o \in Nat,
         Pace(m, J, o, J), m < J
  PROVE  Pace(m, J + 1, 0, J)
<1>1. Lag \in Nat /\ 1 <= Lag /\ SkipRounds \in Nat
  BY ReceiverConstants DEF Paces
<1>2. CASE m < J - 1
  <2>1. (J + 1) - J - 1 = 0
    OBVIOUS
  <2>2. Gain((J + 1) - J - 1) <= m
    BY <2>1, GainGrows
  <2>3. QED
    BY <1>2, <2>2 DEF Pace, Paced
<1>3. CASE m = J - 1
  <2>1. Close(m, J, J)
    BY <1>3 DEF Pace
  <2>2. Waits(m, J + 1)
    BY <1>1, <1>3 DEF Waits
  <2>3. QED
    BY <2>1, <2>2 DEF Pace, Close
<1>4. QED
  BY <1>2, <1>3

(* A complete frame waits.                                                 *)
LEMMA PaceWaits ==
  ASSUME NEW m \in Nat, NEW s \in Nat, NEW J \in Nat, NEW o \in Nat,
         Pace(m, s, o, J), s <= m + Lag
  PROVE  Pace(m, s + 1, 0, J)
<1>1. Waits(m, s + 1)
  BY ReceiverConstants DEF Waits
<1>2. QED
  BY <1>1 DEF Pace, Close

(* A catch-up, from m + 1 to n.                                            *)
LEMMA PaceSkip ==
  ASSUME Paces, NEW m \in Nat, NEW s \in Nat, NEW J \in Nat, NEW o \in Nat,
         o > 0, Pace(m, s, o, J), NotTooLate(J), m + Lag < s,
         NEW n \in Nat, m + 1 <= n, n < s,
         n = m + 1 + SkipRounds \/ n + 1 = J
  PROVE  Pace(n, s + 1, 0, J)
<1>1. /\ Lag \in Nat /\ Window \in Nat /\ 1 <= Lag /\ Lag < Window
      /\ SkipRounds \in Nat /\ Window <= SkipRounds
  BY ReceiverConstants DEF Paces
<1>2. /\ s - J - 1 \in Int /\ s - 2 - J \in Int /\ n - J \in Int
      /\ Window - 1 \in Int
  BY <1>1
<1>3. /\ Gain(s - J - 1) \in Int /\ Gain(s - 2 - J) \in Int
      /\ Gain(n - J) \in Int /\ Gain(Window - 1) \in Int
  BY <1>2, GainGrows
<1>4. (s + 1) - 2 - J = s - J - 1
  OBVIOUS
<1>5. CASE n + 1 = J
  <2>1. m < J - 1 /\ (Waits(m, s) \/ Paced(m, s, o, J))
    BY <1>5 DEF Pace, Close
  <2>2. Gain(n - J) < 0
    <3>1. (n - J) + 1 = 0
      BY <1>5
    <3>2. Gain((n - J) + 1) = Gain(n - J) + SkipRounds + 2 /\ Gain(0) = 0
      BY <1>2, GainGrows
    <3>3. QED
      BY <1>1, <1>3, <3>1, <3>2
  <2>3. Waits(n, s + 1) \/ Gain((s + 1) - 2 - J) < J - 1
    <3>1. CASE Waits(m, s)
      BY <1>1, <3>1 DEF Waits
    <3>2. CASE Paced(m, s, o, J)
      BY <1>3, <1>4, <2>1, <3>2 DEF Paced
    <3>3. QED
      BY <2>1, <3>1, <3>2
  <2>4. Close(n, s + 1, J)
    BY <1>3, <1>5, <2>2, <2>3 DEF Close
  <2>5. QED
    BY <2>4 DEF Pace
<1>6. CASE n = m + 1 + SkipRounds
  <2>1. ~ Waits(m, s) /\ ~ (s <= m + Window)
    BY <1>1, <1>6 DEF Waits
  <2>2. CASE m < J - 1 /\ Paced(m, s, o, J)
    <3>1. Gain(s - J - 1) < m
      BY <2>1, <2>2 DEF Paced
    <3>2. CASE n < J - 1
      <4>1. (s - J - 1) + 1 = (s + 1) - J - 1
        OBVIOUS
      <4>2. Gain((s - J - 1) + 1) = Gain(s - J - 1) + SkipRounds + 2
        BY <1>2, GainGrows
      <4>3. Gain((s + 1) - J - 1) = Gain(s - J - 1) + SkipRounds + 2
        BY <4>1, <4>2
      <4>4. Gain((s + 1) - J - 1) <= n
        BY <1>1, <1>3, <1>6, <3>1, <4>3
      <4>5. QED
        BY <3>2, <4>4 DEF Pace, Paced
    <3>3. CASE J - 1 <= n
      <4>1. n - J <= s - J - 1
        OBVIOUS
      <4>2. Gain(n - J) <= Gain(s - J - 1)
        BY <1>2, <4>1, GainGrows
      <4>3. Gain(n - J) < J - 1 /\ Gain(s - J - 1) < J - 1
        BY <1>3, <2>2, <3>1, <4>2
      <4>4. Gain((s + 1) - 2 - J) < J - 1
        BY <1>4, <4>3
      <4>5. Close(n, s + 1, J)
        BY <3>3, <4>3, <4>4 DEF Close
      <4>6. QED
        BY <4>5 DEF Pace
    <3>4. QED
      BY <3>2, <3>3
  <2>3. CASE Close(m, s, J)
    <3>1. J - 1 <= m /\ Gain(s - 2 - J) < J - 1
      BY <2>1, <2>3 DEF Close
    <3>2. Gain(s - 2 - J) < Gain(Window - 1)
      BY <1>3, <3>1 DEF NotTooLate
    <3>3. ~ (Window - 1 <= s - 2 - J)
      BY <1>2, <1>3, <3>2, GainGrows
    <3>4. QED
      BY <1>1, <1>6, <3>1, <3>3
  <2>4. QED
    BY <2>1, <2>2, <2>3 DEF Pace
<1>7. QED
  BY <1>5, <1>6

(* The receiver that has just been started.                                *)
LEMMA PaceBegin ==
  ASSUME Paces, NEW s \in Nat, NEW o \in Nat, NEW J \in Nat \ {0},
         s = J \/ (s = J + 1 /\ o = 0)
  PROVE  Pace(0, s, o, J)
<1>1. Lag \in Nat /\ 1 <= Lag /\ SkipRounds \in Nat
  BY ReceiverConstants DEF Paces
<1>2. Gain(0) = 0 /\ Gain(0 - 1) < 0
  <2>1. 0 - 1 \in Int /\ (0 - 1) + 1 = 0
    OBVIOUS
  <2>2. Gain((0 - 1) + 1) = Gain(0 - 1) + SkipRounds + 2 /\ Gain(0) = 0
        /\ Gain(0 - 1) \in Int
    BY <2>1, GainGrows
  <2>3. QED
    BY <1>1, <2>1, <2>2
<1>3. CASE J = 1
  <2>1. Waits(0, s) /\ 0 - J = 0 - 1
    BY <1>1, <1>3 DEF Waits
  <2>2. Close(0, s, J)
    BY <1>2, <1>3, <2>1 DEF Close
  <2>3. QED
    BY <2>2 DEF Pace
<1>4. CASE J # 1
  <2>1. CASE s = J
    <3>1. s - J - 1 = 0 - 1 /\ 0 - 1 \in Int
      BY <2>1
    <3>2. Gain(s - J - 1) < 0 /\ Gain(s - J - 1) \in Int
      BY <1>2, <3>1, GainGrows
    <3>3. Paced(0, s, o, J)
      BY <3>2 DEF Paced
    <3>4. QED
      BY <1>4, <3>3 DEF Pace
  <2>2. CASE s = J + 1 /\ o = 0
    <3>1. s - J - 1 = 0
      BY <2>2
    <3>2. Paced(0, s, o, J)
      BY <1>2, <2>2, <3>1 DEF Paced
    <3>3. QED
      BY <1>4, <3>2 DEF Pace
  <2>3. QED
    BY <2>1, <2>2
<1>5. QED
  BY <1>3, <1>4

(* The sender has sent so many frames that the receiver would be beside it.*)
LEMMA PaceEnds ==
  ASSUME Paces, NEW l \in Nat, NEW J \in Nat, NEW C \in Nat,
         Pace(l, C + 1, 0, J), J - 1 <= Gain(C - J - Lag)
  PROVE  FALSE
<1>1. Lag \in Nat /\ 1 <= Lag
  BY ReceiverConstants DEF Paces
<1>2. /\ C - J - Lag \in Int /\ C - J \in Int /\ l - J \in Int
      /\ C - J - 1 \in Int
      /\ (C + 1) - J - 1 = C - J /\ (C + 1) - 2 - J = C - J - 1
  BY <1>1
<1>3. /\ Gain(C - J - Lag) \in Int /\ Gain(C - J) \in Int
      /\ Gain(l - J) \in Int /\ Gain(C - J - 1) \in Int /\ Gain(0) = 0
  BY <1>2, GainGrows
<1>4. CASE l < J - 1 /\ Waits(l, C + 1)
  <2>1. C - J - Lag <= 0 - 1 /\ ~ (0 <= C - J - Lag)
    BY <1>1, <1>4 DEF Waits
  <2>2. ~ (Gain(0) <= Gain(C - J - Lag))
    BY <1>2, <2>1, GainGrows
  <2>3. QED
    BY <1>3, <1>4, <2>2
<1>5. CASE l < J - 1 /\ Paced(l, C + 1, 0, J)
  <2>1. Gain(C - J) <= l
    BY <1>2, <1>5 DEF Paced
  <2>2. Gain(C - J - Lag) <= Gain(C - J)
    BY <1>1, <1>2, GainGrows
  <2>3. QED
    BY <1>3, <1>5, <2>1, <2>2
<1>6. CASE Close(l, C + 1, J)
  <2>1. CASE Waits(l, C + 1)
    <3>1. C - J - Lag <= l - J
      BY <1>1, <2>1 DEF Waits
    <3>2. Gain(C - J - Lag) <= Gain(l - J)
      BY <1>2, <3>1, GainGrows
    <3>3. QED
      BY <1>3, <1>6, <3>2 DEF Close
  <2>2. CASE Gain((C + 1) - 2 - J) < J - 1
    <3>1. Gain(C - J - 1) < J - 1
      BY <1>2, <2>2
    <3>2. C - J - Lag <= C - J - 1
      BY <1>1
    <3>3. Gain(C - J - Lag) <= Gain(C - J - 1)
      BY <1>2, <3>2, GainGrows
    <3>4. QED
      BY <1>3, <3>1, <3>3
  <2>3. QED
    BY <1>6, <2>1, <2>2 DEF Close
<1>7. QED
  BY <1>4, <1>5, <1>6 DEF Pace

-----------------------------------------------------------------------------
(* The receiver that came late *)

(* Of the frames from J, where it was started, to the one at c the table   *)
(* holds those past lastpacketseqnum, and all but J's have arrived.        *)
LateSlot(slot, l, c, J) ==
  /\ l < slot.seqnum /\ J <= slot.seqnum
  /\ J < slot.seqnum /\ slot.seqnum < c.seq => slot.isFull
  /\ J < slot.seqnum /\ slot.seqnum = c.seq => Collects(slot, c)

LateTable(c, J) ==
  /\ lastpacketseqnum < c.seq /\ J <= c.seq
  /\ \A k \in Slots : packet[k].isUse =>
       LateSlot(packet[k], lastpacketseqnum, c, J)
  /\ c.offset > 0 /\ J < c.seq => Holding(packet, c.seq) # {}

LateReceiver(c, J) ==
  /\ wild = {}
  /\ \/ LateTable(c, J) /\ Pace(lastpacketseqnum, c.seq, c.offset, J)
     \/ CleanState(c, 1)

(* A table without a slot in use.                                          *)
LEMMA LateEmpty ==
  ASSUME \A k \in Slots : ~ packet'[k].isUse, wild' = {}, NEW c,
         c.offset = 0, c.seq <= lastpacketseqnum' + 1, NEW J
  PROVE  LateReceiver(c, J)'
<1>1. StaleSlots' = {}
  BY DEF StaleSlots, Stale
<1>2. Cardinality(StaleSlots') = 0
  BY <1>1, FS_EmptySet
<1>3. CleanTable(c)'
  BY DEF CleanTable
<1>4. CleanState(c, 1)'
  BY <1>2, <1>3 DEF CleanState
<1>5. QED
  BY <1>4 DEF LateReceiver

(* A catch-up of the late receiver: it stops beside frame s, before the    *)
(* frame that was cut, or after SkipRounds rounds.                         *)
LEMMA LateCatchUp ==
  ASSUME Paces, NEW q \in Table, NEW m \in Nat, NEW s \in Nat, NEW J \in Nat,
         NEW o \in Nat, o > 0, Pace(m, s, o, J), NotTooLate(J), m + Lag < s,
         J <= s, wild' = {},
         \A k \in Slots : q[k].isUse =>
           /\ m < q[k].seqnum /\ q[k].seqnum <= s /\ J <= q[k].seqnum
           /\ q[k].isFull \/ q[k].seqnum = J,
         CatchUp(Release(q, Holding(q, m + 1)), m + 1),
         NEW e, e.seq = s + 1, e.offset = 0
  PROVE  LateReceiver(e, J)'
<1> DEFINE p == Release(q, Holding(q, m + 1))
<1>1. /\ p \in Table
      /\ \A k \in Slots : p[k].isUse => p[k] = q[k] /\ k \notin Holding(q, m + 1)
  BY ReleaseType
<1>2. \A k \in Slots : q[k].seqnum \in Nat /\ p[k].seqnum \in Nat
  BY <1>1 DEF Table, Slot
<1>3. CatchUp(p, m + 1)
  OBVIOUS
<1> HIDE DEF p
<1>4. PICK n \in Nat :
        /\ m + 1 <= n /\ lastpacketseqnum' = n
        /\ \A k \in Slots : packet'[k].isUse =>
             /\ packet'[k] = p[k]
             /\ ~ (m + 1 < p[k].seqnum /\ p[k].seqnum <= n)
        /\ \/ n = m + 1 + SkipRounds
           \/ \E k \in Slots : /\ p[k].isUse /\ p[k].seqnum = n + 1
                               /\ ~ p[k].isFull
  BY <1>1, <1>3, CatchUpEnds
<1>5. n = m + 1 + SkipRounds \/ n + 1 = J
  BY <1>1, <1>4
<1>6. \A k \in Slots : packet'[k].isUse =>
        /\ packet'[k] = q[k] /\ q[k].isUse /\ n < q[k].seqnum
        /\ q[k].seqnum <= s
  <2>1. SUFFICES ASSUME NEW k \in Slots, packet'[k].isUse
                 PROVE  /\ packet'[k] = q[k] /\ q[k].isUse /\ n < q[k].seqnum
                        /\ q[k].seqnum <= s
    OBVIOUS
  <2>2. packet'[k] = p[k] /\ p[k].isUse /\ p[k] = q[k] /\ q[k].isUse
        /\ ~ (m + 1 < q[k].seqnum /\ q[k].seqnum <= n)
    BY <1>1, <1>4, <2>1
  <2>3. q[k].seqnum # m + 1
    BY <1>1, <2>2 DEF Holding
  <2>4. m < q[k].seqnum /\ q[k].seqnum <= s
    BY <2>2
  <2>5. QED
    BY <1>2, <2>2, <2>3, <2>4
<1>7. CASE s <= n
  <2>1. \A k \in Slots : ~ packet'[k].isUse
    BY <1>2, <1>6, <1>7
  <2>2. e.seq <= lastpacketseqnum' + 1
    BY <1>4, <1>7
  <2>3. QED
    BY <2>1, <2>2, LateEmpty
<1>8. CASE n < s
  <2>1. Pace(n, s + 1, 0, J)
    BY <1>4, <1>5, <1>8, PaceSkip
  <2>2. \A k \in Slots : packet'[k].isUse => LateSlot(packet'[k], n, e, J)
    <3>1. SUFFICES ASSUME NEW k \in Slots, packet'[k].isUse
                   PROVE  LateSlot(packet'[k], n, e, J)
      OBVIOUS
    <3>2. /\ packet'[k] = q[k] /\ n < q[k].seqnum /\ q[k].seqnum <= s
          /\ J <= q[k].seqnum /\ (q[k].isFull \/ q[k].seqnum = J)
      BY <1>6, <3>1
    <3>3. q[k].seqnum # e.seq /\ (J < q[k].seqnum => q[k].isFull)
      BY <1>2, <3>2
    <3>4. QED
      BY <3>2, <3>3 DEF LateSlot
  <2>3. n < e.seq /\ J <= e.seq /\ ~ (e.offset > 0)
    BY <1>8
  <2>4. LateTable(e, J)'
    BY <1>4, <2>2, <2>3 DEF LateTable, LateSlot, Collects
  <2>5. QED
    BY <1>4, <2>1, <2>4 DEF LateReceiver, Pace, Waits, Paced, Close, Gain
<1>9. QED
  BY <1>4, <1>7, <1>8

(* A piece of frame s was filed in slot j.                                 *)
LEMMA LateFiled ==
  ASSUME Paces, NEW J \in Nat, NotTooLate(J),
         NEW d, NEW s, NEW n, NEW i, IsPiece(d, s, n, i),
         NEW p \in Table, NEW m \in Nat, m < s, J <= s,
         \A z \in Nat : Pace(m, s, z, J),
         NEW j \in Slots, NEW slot \in Slot, Piled(slot, s, n, i),
         \A k \in Slots \ {j} : p[k].isUse =>
           /\ m < p[k].seqnum /\ p[k].seqnum < s /\ J <= p[k].seqnum
           /\ J < p[k].seqnum => p[k].isFull,
         slot.recvedpacks = TotalFragment(n) => slot.isFull,
         J < s => /\ slot.data = 0 .. i * SplitSize + Body(n, i) - 1
                  /\ slot.recvedpacks = i + 1 /\ slot.size = n,
         File(p, m, j, slot, d), wild = {}
  PROVE  LateReceiver(After(d), J)'
<1> DEFINE e == After(d)
           q == [p EXCEPT ![j] = slot]
           t == TotalFragment(n)
           o == i * SplitSize
           z == Body(n, i)
<1>1. /\ q \in Table /\ q[j] = slot /\ \A k \in Slots : k # j => q[k] = p[k]
  BY DEF Table
<1>2. /\ o \in Nat /\ z \in Nat \ {0} /\ n \in Nat /\ s \in Nat /\ i \in Nat
      /\ d.total = t /\ t \in Nat
      /\ \/ i + 1 = t /\ o + z = n /\ e = At(s + 1, 0, 0)
         \/ i + 1 < t /\ o + z = (i + 1) * SplitSize /\ e = At(s, n, o + z)
  <2>1. s \in Nat /\ i \in Nat /\ d.total = t /\ t \in Nat
    BY PieceCounts
  <2>2. /\ o \in Nat /\ z \in Nat \ {0} /\ n \in Nat
        /\ \/ i + 1 = t /\ o + z = n /\ e = At(s + 1, 0, 0)
           \/ i + 1 < t /\ o + z = (i + 1) * SplitSize /\ e = At(s, n, o + z)
    BY AfterPiece
  <2>3. QED
    BY <2>1, <2>2
<1>3. /\ IF slot.recvedpacks = t THEN HandOn(q, m, j) ELSE Settle(q, m, {})
      /\ wild' = {}
  BY <1>2 DEF File
<1>4. /\ slot.isUse /\ slot.seqnum = s
      /\ i + 1 < t => slot.recvedpacks # t
      /\ slot.recvedpacks = t => slot.isFull
  BY DEF Piled
<1> HIDE DEF q, e, t, o, z
<1>5. \/ i + 1 = t /\ e.seq = s + 1 /\ e.offset = 0
      \/ i + 1 < t /\ e.seq = s /\ e.offset > 0 /\ e.offset \in Nat
  BY <1>2, AtFields
<1>6. \A k \in Slots : q[k].seqnum \in Nat
  BY <1>1 DEF Table, Slot
<1>7. \A k \in Slots : k # j /\ q[k].isUse =>
        /\ m < q[k].seqnum /\ q[k].seqnum < s /\ J <= q[k].seqnum
        /\ J < q[k].seqnum => q[k].isFull
  BY <1>1
<1>8. CASE i + 1 < t
  <2>1. packet' = q /\ lastpacketseqnum' = m
    BY <1>3, <1>4, <1>8 DEF Settle
  <2>2. e.seq = s /\ e.offset \in Nat
    BY <1>2, <1>5, <1>8
  <2>3. J < s => Collects(slot, e)
    <3>1. SUFFICES ASSUME J < s
                   PROVE  Collects(slot, e)
      OBVIOUS
    <3>2. e = At(s, n, (i + 1) * SplitSize) /\ o + z = (i + 1) * SplitSize
      BY <1>2, <1>8
    <3>3. slot.data = 0 .. o + z - 1 /\ slot.recvedpacks = i + 1
          /\ slot.size = n
      BY <3>1 DEF o, z
    <3>4. QED
      BY <1>2, <1>4, <3>2, <3>3, CollectsAt
  <2>4. \A k \in Slots : q[k].isUse => LateSlot(q[k], m, e, J)
    <3>1. SUFFICES ASSUME NEW k \in Slots, q[k].isUse
                   PROVE  LateSlot(q[k], m, e, J)
      OBVIOUS
    <3>2. CASE k = j
      <4>1. q[k] = slot /\ slot.seqnum = s
        BY <1>1, <1>4, <3>2
      <4>2. ~ (s < s)
        BY <1>2
      <4>3. QED
        BY <2>2, <2>3, <4>1, <4>2 DEF LateSlot
    <3>3. CASE k # j
      <4>1. /\ m < q[k].seqnum /\ q[k].seqnum < s /\ J <= q[k].seqnum
            /\ J < q[k].seqnum => q[k].isFull
        BY <1>7, <3>1, <3>3
      <4>2. q[k].seqnum # s
        BY <1>2, <1>6, <4>1
      <4>3. QED
        BY <2>2, <4>1, <4>2 DEF LateSlot
    <3>4. QED
      BY <3>2, <3>3
  <2>5. Holding(q, s) # {}
    BY <1>1, <1>4 DEF Holding
  <2>6. LateTable(e, J)'
    BY <2>1, <2>2, <2>4, <2>5 DEF LateTable, LateSlot, Collects, Holding
  <2>7. Pace(m, e.seq, e.offset, J)
    BY <2>2
  <2>8. QED
    BY <1>3, <2>1, <2>6, <2>7
       DEF LateReceiver, Pace, Waits, Paced, Close, Gain, e
<1>9. CASE i + 1 = t /\ slot.recvedpacks # t
  <2>1. packet' = q /\ lastpacketseqnum' = m
    BY <1>3, <1>9 DEF Settle
  <2>2. J = s
    BY <1>2, <1>9
  <2>3. e.seq = s + 1 /\ e.offset = 0
    BY <1>2, <1>5, <1>9
  <2>4. \A k \in Slots : q[k].isUse => LateSlot(q[k], m, e, J)
    <3>1. SUFFICES ASSUME NEW k \in Slots, q[k].isUse
                   PROVE  q[k].seqnum = s
      BY <1>2, <2>2, <2>3 DEF LateSlot
    <3>2. QED
      BY <1>1, <1>2, <1>4, <1>6, <1>7, <2>2, <3>1
  <2>5. LateTable(e, J)'
    BY <1>2, <2>1, <2>2, <2>3, <2>4 DEF LateTable, LateSlot, Collects
  <2>6. Pace(m, s + 1, 0, J)
    <3>1. Pace(m, J, 0, J)
      BY <2>2
    <3>2. QED
      BY <2>2, <3>1, PaceCut
  <2>7. QED
    BY <1>3, <2>1, <2>3, <2>5, <2>6
       DEF LateReceiver, Pace, Waits, Paced, Close, Gain, e
<1>10. CASE i + 1 = t /\ slot.recvedpacks = t
  <2>1. e.seq = s + 1 /\ e.offset = 0
    BY <1>2, <1>5, <1>10
  <2>2. \A k \in Slots : q[k].isUse =>
          /\ m < q[k].seqnum /\ q[k].seqnum <= s /\ J <= q[k].seqnum
          /\ q[k].isFull \/ q[k].seqnum = J
    <3>1. SUFFICES ASSUME NEW k \in Slots, q[k].isUse
                   PROVE  /\ m < q[k].seqnum /\ q[k].seqnum <= s
                          /\ J <= q[k].seqnum
                          /\ q[k].isFull \/ q[k].seqnum = J
      OBVIOUS
    <3>2. CASE k = j
      BY <1>1, <1>2, <1>4, <1>10, <3>2
    <3>3. CASE k # j
      <4>1. /\ m < q[k].seqnum /\ q[k].seqnum < s /\ J <= q[k].seqnum
            /\ J < q[k].seqnum => q[k].isFull
        BY <1>7, <3>1, <3>3
      <4>2. J < q[k].seqnum \/ q[k].seqnum = J
        BY <1>6, <4>1
      <4>3. q[k].seqnum <= s
        BY <1>2, <1>6, <4>1
      <4>4. QED
        BY <4>1, <4>2, <4>3
    <3>4. QED
      BY <3>2, <3>3
  <2>3. q[j].seqnum = s /\ HandOn(q, m, j)
    BY <1>1, <1>3, <1>4, <1>10
  <2>4. CASE s = m + 1
    <3>1. Settle(Release(q, {j}), s, {Frame(q[j])})
      BY <2>3, <2>4 DEF HandOn
    <3>2. packet' = Release(q, {j}) /\ lastpacketseqnum' = s
      BY <3>1 DEF Settle
    <3>3. \A k \in Slots : ~ packet'[k].isUse
      <4>1. SUFFICES ASSUME NEW k \in Slots, packet'[k].isUse
                     PROVE  FALSE
        OBVIOUS
      <4>2. k # j /\ packet'[k] = q[k]
        BY <1>1, <3>2, <4>1, ReleaseType
      <4>3. m < q[k].seqnum /\ q[k].seqnum < s
        BY <1>7, <4>1, <4>2
      <4>4. QED
        BY <1>2, <1>6, <2>4, <4>3
    <3>4. e.seq <= lastpacketseqnum' + 1
      BY <1>2, <2>1, <3>2
    <3>5. QED
      BY <1>3, <2>1, <3>3, <3>4, LateEmpty DEF e
  <2>5. CASE m + Lag < s /\ s # m + 1
    <3>1. CatchUp(Release(q, Holding(q, m + 1)), m + 1)
      <4>1. ~ (s = m + 1) /\ m + Lag < s
        BY <2>5
      <4>2. QED
        BY <2>3, <4>1 DEF HandOn
    <3>2. Pace(m, s, 1, J) /\ 1 \in Nat /\ 1 > 0
      OBVIOUS
    <3>3. q \in Table /\ s \in Nat /\ m + Lag < s /\ wild' = {}
      BY <1>1, <1>2, <1>3, <2>5
    <3>4. LateReceiver(e, J)'
      BY <2>1, <2>2, <3>1, <3>2, <3>3, LateCatchUp
    <3>5. QED
      BY <3>4 DEF e
  <2>6. CASE ~ (m + Lag < s) /\ s # m + 1
    <3>1. packet' = q /\ lastpacketseqnum' = m
      BY <2>3, <2>6 DEF HandOn, Settle
    <3>2. s <= m + Lag
      BY <1>2, <2>6, ReceiverConstants
    <3>3. Pace(m, s + 1, 0, J)
      <4>1. Pace(m, s, 0, J)
        OBVIOUS
      <4>2. QED
        BY <1>2, <3>2, <4>1, PaceWaits
    <3>4. \A k \in Slots : q[k].isUse => LateSlot(q[k], m, e, J)
      <4>1. SUFFICES ASSUME NEW k \in Slots, q[k].isUse
                     PROVE  LateSlot(q[k], m, e, J)
        OBVIOUS
      <4>2. /\ m < q[k].seqnum /\ q[k].seqnum <= s /\ J <= q[k].seqnum
            /\ q[k].isFull \/ q[k].seqnum = J
        BY <2>2, <4>1
      <4>3. q[k].seqnum # s + 1 /\ (J < q[k].seqnum => q[k].isFull)
        BY <1>2, <1>6, <4>2
      <4>4. QED
        BY <2>1, <4>2, <4>3 DEF LateSlot
    <3>5. LateTable(e, J)'
      BY <1>2, <2>1, <3>1, <3>4 DEF LateTable, LateSlot, Collects
    <3>6. QED
      BY <1>3, <2>1, <3>1, <3>3, <3>5
         DEF LateReceiver, Pace, Waits, Paced, Close, Gain, e
  <2>7. QED
    BY <2>4, <2>5, <2>6
<1>11. QED
  BY <1>5, <1>8, <1>9, <1>10

(* No write of a late receiver strays: a slot is as long as its frame, and *)
(* the frames in the table are fewer than its slots.                       *)
LEMMA LateIntact ==
  ASSUME Perfect, Paces, IInv, NEW J \in Nat, NotTooLate(J),
         NEW d, NEW s, NEW n, NEW i, IsPiece(d, s, n, i),
         JoinReceiver(Before(d)), LateReceiver(Before(d), J), Revc(d)
  PROVE  wild' = {}
<1> DEFINE l == lastpacketseqnum
           c == Before(d)
           p == TableAfterAhead(d)
           m == LastAfterAhead(d)
<1>1. /\ l \in Nat /\ packet \in Table /\ s \in Nat \ {0} /\ d \in Datagram
      /\ d.seq = s /\ d.size = n /\ d.payload \in Nat \ {0} /\ c.seq = s
      /\ d.offset + d.payload <= n /\ c.offset \in Nat
      /\ (c.offset > 0 => c.size = n)
      /\ n \in Nat /\ d.offset + d.payload \in Nat
  <2>1. l \in Nat /\ packet \in Table
    BY DEF IInv, ReceiverTypeOK, Table
  <2>2. /\ s \in Nat \ {0} /\ d \in Datagram
        /\ d.seq = s /\ d.size = n /\ d.payload \in Nat \ {0} /\ c.seq = s
        /\ d.offset + d.payload <= n /\ c.offset \in Nat
        /\ (c.offset > 0 => c.size = n)
        /\ n \in Nat /\ d.offset + d.payload \in Nat
    BY AfterPiece, AtFields DEF IsPiece
  <2>3. QED
    BY <2>1, <2>2
<1>2. wild = {} /\ (Fresh \/ JoinTable(c))
  BY DEF LateReceiver, JoinReceiver
<1>3. Kept(packet, c)
  BY <1>2 DEF Kept, Fresh, JoinTable, EmptySlot
<1> HIDE DEF c
<1>4. \A k \in Slots : packet[k].isUse => packet[k].seqnum <= s
  <2>1. \A k \in Slots : packet[k].seqnum \in Nat
    BY <1>1 DEF Table, Slot
  <2>2. QED
    BY <1>1, <1>3, <2>1 DEF Kept
<1>5. \A k \in Slots : packet[k].isUse /\ packet[k].seqnum = s
                       => packet[k].size = n
  <2>1. SUFFICES ASSUME NEW k \in Slots, packet[k].isUse, packet[k].seqnum = s
                 PROVE  packet[k].size = n
    OBVIOUS
  <2>2. ~ (packet[k].seqnum < c.seq)
    BY <1>1, <2>1
  <2>3. c.offset > 0 /\ (Collects(packet[k], c) \/ Cut(packet[k], c))
    BY <1>3, <2>1, <2>2 DEF Kept
  <2>4. QED
    BY <1>1, <2>3 DEF Collects, Cut
<1>6. \A k \in Slots : p[k].isUse => p[k] = packet[k]
  BY <1>1, ReleaseType DEF TableAfterAhead
<1> HIDE DEF p, m
<1>7. CASE Ignore(d)
  BY <1>2, <1>7 DEF Ignore
<1>8. CASE AddToFrame(d)
  <2>1. PICK j \in Holding(p, s) :
          \/ File(p, m, j, Added(p[j], d), d)
          \/ HeapOverrun(p, m, p[j].size, d)
    BY <1>1, <1>8 DEF AddToFrame, p, m
  <2>2. p[j].size = n
    BY <1>5, <1>6 DEF Holding
  <2>3. ~ HeapOverrun(p, m, p[j].size, d)
    BY <1>1, <2>2 DEF HeapOverrun
  <2>4. QED
    BY <1>2, <2>1, <2>3 DEF File
<1>9. CASE StartFrame(d)
  <2>1. PICK j \in Unused(p) :
          \/ File(p, m, j, Taken(p[j], d), d)
          \/ HeapOverrun(p, m, d.size, d)
    BY <1>9 DEF StartFrame, p, m
  <2>2. ~ HeapOverrun(p, m, d.size, d)
    BY <1>1 DEF HeapOverrun
  <2>3. QED
    BY <1>2, <2>1, <2>2 DEF File
<1>10. ~ NoSlotLeft(d)
  <2>1. SUFFICES ASSUME NoSlotLeft(d)
                 PROVE  FALSE
    OBVIOUS
  <2>2. ~ Rejected(d) /\ Holding(p, s) = {} /\ Unused(p) = {}
    BY <1>1, <2>1 DEF NoSlotLeft, p
  <2>3. \A k \in Slots : p[k].isUse /\ p[k].seqnum # s
    BY <2>2 DEF Holding, Unused
  <2>4. CASE CleanState(c, 1)
    <3>1. CleanReceiver(After(d), 1)'
      BY <2>4, CleanReceive DEF c
    <3>2. [at |-> "slot", seq |-> d.seq] \in wild'
      BY <2>1 DEF NoSlotLeft, SlotOverrun
    <3>3. 1 >= NumSlots
      BY <3>1, <3>2 DEF CleanReceiver, CleanState
    <3>4. QED
      BY <3>3, ReceiverConstants DEF Paces
  <2>5. CASE LateTable(c, J) /\ Pace(l, s, c.offset, J)
    <3>1. l < s /\ J <= s
      BY <1>1, <2>5 DEF LateTable
    <3>2. /\ p \in Table /\ Unique(p) /\ m \in Nat /\ m < s
          /\ \/ m = l /\ l + Window >= s
             \/ m = l + 1 /\ l + Window < s
          /\ \A k \in Slots : p[k].isUse =>
               p[k].seqnum <= l \/ m < p[k].seqnum
      BY <1>1, <2>2, <3>1, AheadLeaves DEF p, m
    <3>3. PICK a \in Nat : Spans(a, m, s, J)
      <4>1. s \in Nat /\ c.offset \in Nat /\ Pace(l, s, c.offset, J)
        BY <1>1, <2>5
      <4> HIDE DEF l
      <4>2. l \in Nat
        BY <1>1
      <4>3. QED
        BY <3>1, <3>2, <4>1, <4>2, PaceRoom
    <3>4. \A k \in Slots : /\ p[k].isUse /\ p[k].seqnum \in a + 1 .. a + Window
                           /\ p[k].seqnum # s
      <4>1. SUFFICES ASSUME NEW k \in Slots
                     PROVE  p[k].seqnum \in a + 1 .. a + Window
        BY <2>3
      <4>2. /\ p[k].seqnum \in Nat /\ p[k] = packet[k] /\ p[k].isUse
            /\ p[k].seqnum # s
        BY <1>6, <2>3, <3>2 DEF Table, Slot
      <4>3. l < p[k].seqnum /\ J <= p[k].seqnum /\ p[k].seqnum <= s
        BY <1>4, <2>5, <4>2 DEF LateTable, LateSlot
      <4>4. m < p[k].seqnum
        BY <1>1, <3>2, <4>2, <4>3
      <4>5. a < p[k].seqnum /\ s <= a + Window
        BY <3>3, <4>2, <4>3, <4>4 DEF Spans
      <4>6. QED
        BY <1>1, <4>2, <4>3, <4>5, ReceiverConstants
    <3>5. s \in a + 1 .. a + Window
      BY <1>1, <3>3, ReceiverConstants DEF Spans
    <3>6. QED
      BY <1>1, <3>2, <3>4, <3>5, TableTooSmall
  <2>6. QED
    BY <1>1, <2>4, <2>5 DEF LateReceiver, c
<1>11. QED
  BY <1>7, <1>8, <1>9, <1>10 DEF Revc

(* One call of Revc brings the late receiver from one side of a piece to   *)
(* the other.                                                              *)
LEMMA LateReceive ==
  ASSUME Perfect, Paces, IInv, NEW J \in Nat, NotTooLate(J),
         NEW d, NEW s, NEW n, NEW i, IsPiece(d, s, n, i),
         JoinReceiver(Before(d)), LateReceiver(Before(d), J), Revc(d)
  PROVE  LateReceiver(After(d), J)'
<1> DEFINE l == lastpacketseqnum
           c == Before(d)
           p == TableAfterAhead(d)
           m == LastAfterAhead(d)
<1>1. /\ l \in Nat /\ packet \in Table /\ s \in Nat /\ d \in Datagram
      /\ d.seq = s /\ d.payload \in Nat \ {0} /\ c.seq = s
      /\ (c.offset = 0 <=> i = 0) /\ c.offset \in Nat
  BY AfterPiece, AtFields DEF IInv, ReceiverTypeOK, Table, IsPiece
<1>2. wild' = {} /\ wild = {}
  BY LateIntact DEF LateReceiver
<1>3. CASE CleanState(c, 1)
  <2>1. CleanReceiver(After(d), 1)'
    BY <1>3, CleanReceive
  <2>2. QED
    BY <1>2, <2>1 DEF LateReceiver, CleanReceiver
<1>4. CASE LateTable(c, J) /\ Pace(l, s, c.offset, J)
  <2>1. /\ l < s /\ J <= s
        /\ \A k \in Slots : packet[k].isUse => LateSlot(packet[k], l, c, J)
        /\ c.offset > 0 /\ J < s => Holding(packet, s) # {}
    BY <1>1, <1>4 DEF LateTable
  <2>2. Fresh \/ JoinTable(c)
    BY <1>2 DEF JoinReceiver
  <2>3. Kept(packet, c)
    BY <2>2 DEF Kept, Fresh, JoinTable, EmptySlot
  <2>4. ~ Rejected(d)
    BY <1>1, <2>1 DEF Rejected
  <2>5. /\ p \in Table /\ Unique(p) /\ m \in Nat /\ m < s
        /\ \/ m = l /\ l + Window >= s
           \/ m = l + 1 /\ l + Window < s
        /\ \A k \in Slots : p[k].isUse =>
             p[k] = packet[k] /\ (p[k].seqnum <= l \/ m < p[k].seqnum)
        /\ Holding(p, s) = Holding(packet, s)
        /\ \A k \in Slots : p[k].isFull = packet[k].isFull
    BY <1>1, <2>1, <2>4, AheadLeaves
  <2>6. \/ \E j \in Holding(p, s) : File(p, m, j, Added(p[j], d), d)
        \/ /\ Holding(p, s) = {}
           /\ \E j \in Unused(p) : File(p, m, j, Taken(p[j], d), d)
    BY <1>1, <1>2, <2>4, RevcFiles DEF Ignore
  <2> HIDE DEF p, m, c
  <2>7. \A z \in Nat : Pace(m, s, z, J)
    BY <1>1, <1>4, <2>1, <2>5, PaceAhead
  <2>8. \A k \in Slots : p[k].seqnum \in Nat /\ p[k] \in Slot
    BY <2>5 DEF Table, Slot
  <2>9. \A k \in Slots : p[k].isUse =>
          /\ m < p[k].seqnum /\ p[k].seqnum <= s /\ J <= p[k].seqnum
          /\ J < p[k].seqnum /\ p[k].seqnum < s => p[k].isFull
          /\ J < p[k].seqnum /\ p[k].seqnum = s => Collects(p[k], c)
          /\ p[k].seqnum = s =>
               c.offset > 0 /\ (Collects(p[k], c) \/ Cut(p[k], c))
    <3>1. SUFFICES ASSUME NEW k \in Slots, p[k].isUse
                   PROVE  /\ m < p[k].seqnum /\ p[k].seqnum <= s
                          /\ J <= p[k].seqnum
                          /\ J < p[k].seqnum /\ p[k].seqnum < s => p[k].isFull
                          /\ J < p[k].seqnum /\ p[k].seqnum = s
                               => Collects(p[k], c)
                          /\ p[k].seqnum = s =>
                               c.offset > 0
                               /\ (Collects(p[k], c) \/ Cut(p[k], c))
      OBVIOUS
    <3>2. /\ p[k] = packet[k] /\ (p[k].seqnum <= l \/ m < p[k].seqnum)
          /\ LateSlot(p[k], l, c, J)
      BY <2>1, <2>5, <3>1
    <3>3. \/ p[k].seqnum < s
          \/ p[k].seqnum = s /\ c.offset > 0
             /\ (Collects(p[k], c) \/ Cut(p[k], c))
      BY <1>1, <2>3, <3>1, <3>2 DEF Kept
    <3>4. l < p[k].seqnum /\ p[k].seqnum \in Nat
      BY <2>8, <3>2 DEF LateSlot
    <3>5. m < p[k].seqnum /\ p[k].seqnum <= s
      BY <1>1, <3>2, <3>3, <3>4
    <3>6. p[k].seqnum = s => ~ (p[k].seqnum < s)
      BY <1>1
    <3>7. QED
      BY <1>1, <3>2, <3>3, <3>5, <3>6 DEF LateSlot
  <2>10. CASE \E j \in Holding(p, s) : File(p, m, j, Added(p[j], d), d)
    <3>1. PICK j \in Holding(p, s) : File(p, m, j, Added(p[j], d), d)
      BY <2>10
    <3>2. /\ j \in Slots /\ p[j] \in Slot /\ p[j].isUse /\ p[j].seqnum = s
          /\ Collects(p[j], c) \/ Cut(p[j], c)
          /\ J < s => Collects(p[j], c)
      BY <2>8, <2>9 DEF Holding
    <3> DEFINE slot == Added(p[j], d)
    <3>3. slot \in Slot
      BY <1>1, <3>2, AddedType
    <3>4. Piled(slot, s, n, i)
      BY <3>2, AddedPiled DEF c
    <3>5. J < s => /\ slot.data = 0 .. i * SplitSize + Body(n, i) - 1
                   /\ slot.recvedpacks = i + 1 /\ slot.size = n
      BY <3>2, CollectsMore DEF c
    <3>6. slot.recvedpacks = TotalFragment(n) => slot.isFull
      <4>1. d.total = TotalFragment(n)
        BY PieceCounts
      <4> DEFINE packs == (p[j].recvedpacks + 1) % PackMod
      <4>2. slot = [p[j] EXCEPT !.recvedpacks = packs,
                                !.data = p[j].data \cup Copied(d),
                                !.isFull = p[j].isFull \/ packs = d.total]
        BY DEF Added
      <4> HIDE DEF packs, slot
      <4>3. slot.recvedpacks = packs
            /\ slot.isFull = (p[j].isFull \/ packs = d.total)
        BY <3>2, <4>2 DEF Slot
      <4>4. QED
        BY <4>1, <4>3, Zenon
    <3>7. \A k \in Slots \ {j} : p[k].isUse =>
            /\ m < p[k].seqnum /\ p[k].seqnum < s /\ J <= p[k].seqnum
            /\ J < p[k].seqnum => p[k].isFull
      <4>1. SUFFICES ASSUME NEW k \in Slots \ {j}, p[k].isUse
                     PROVE  /\ m < p[k].seqnum /\ p[k].seqnum < s
                            /\ J <= p[k].seqnum
                            /\ J < p[k].seqnum => p[k].isFull
        OBVIOUS
      <4>2. p[k].seqnum # s
        BY <2>5, <3>2, <4>1 DEF Unique
      <4>3. p[k].seqnum < s
        BY <1>1, <2>8, <2>9, <4>1, <4>2
      <4>4. QED
        BY <2>9, <4>1, <4>3
    <3> HIDE DEF slot
    <3>8. File(p, m, j, slot, d)
      BY <3>1 DEF slot
    <3>9. QED
      BY <1>2, <2>1, <2>5, <2>7, <3>2, <3>3, <3>4, <3>5, <3>6, <3>7, <3>8,
         LateFiled
  <2>11. CASE /\ Holding(p, s) = {}
              /\ \E j \in Unused(p) : File(p, m, j, Taken(p[j], d), d)
    <3>1. PICK j \in Unused(p) : File(p, m, j, Taken(p[j], d), d)
      BY <2>11
    <3>2. j \in Slots /\ p[j] \in Slot
      BY <2>8 DEF Unused
    <3> DEFINE slot == Taken(p[j], d)
    <3>3. slot \in Slot
      BY <1>1, <3>2, TakenType
    <3>4. J < s => i = 0
      BY <1>1, <2>1, <2>5, <2>11
    <3>5. Piled(slot, s, n, i)
      <4>1. i = 0 \/ Fresh
        BY <1>1, <2>1, <2>2, <2>5, <2>11 DEF JoinTable
      <4>2. i = 0 \/ ~ p[j].isFull
        BY <2>5, <3>2, <4>1 DEF Fresh, EmptySlot
      <4>3. QED
        BY <3>2, <4>2, TakenPiled
    <3>6. J < s => /\ slot.data = 0 .. i * SplitSize + Body(n, i) - 1
                   /\ slot.recvedpacks = i + 1 /\ slot.size = n
      BY <3>2, <3>4, TakenCollects
    <3>7. slot.recvedpacks = TotalFragment(n) => slot.isFull
      <4>1. d.total = TotalFragment(n)
        BY PieceCounts
      <4>2. slot.recvedpacks = 1 /\ slot.isFull = (p[j].isFull \/ d.total = 1)
        BY DEF Taken
      <4> HIDE DEF slot
      <4>3. QED
        BY <4>1, <4>2, Zenon
    <3>8. \A k \in Slots \ {j} : p[k].isUse =>
            /\ m < p[k].seqnum /\ p[k].seqnum < s /\ J <= p[k].seqnum
            /\ J < p[k].seqnum => p[k].isFull
      <4>1. SUFFICES ASSUME NEW k \in Slots \ {j}, p[k].isUse
                     PROVE  /\ m < p[k].seqnum /\ p[k].seqnum < s
                            /\ J <= p[k].seqnum
                            /\ J < p[k].seqnum => p[k].isFull
        OBVIOUS
      <4>2. p[k].seqnum # s
        BY <2>11, <4>1 DEF Holding
      <4>3. p[k].seqnum < s
        BY <1>1, <2>8, <2>9, <4>1, <4>2
      <4>4. QED
        BY <2>9, <4>1, <4>3
    <3> HIDE DEF slot
    <3>9. File(p, m, j, slot, d)
      BY <3>1 DEF slot
    <3>10. QED
      BY <1>2, <2>1, <2>5, <2>7, <3>2, <3>3, <3>5, <3>6, <3>7, <3>8, <3>9,
         LateFiled
  <2>12. QED
    BY <2>6, <2>10, <2>11
<1>5. QED
  BY <1>1, <1>3, <1>4 DEF LateReceiver

-----------------------------------------------------------------------------
(* The projection when a receiver came late *)

LateInv ==
  /\ RestartInv /\ joined \in Nat
  /\ joins > 0 /\ restarts = 0 /\ NotTooLate(joined)
       => LateReceiver(ReceiverAt, joined)

(* A step that leaves the receiver alone.                                  *)
LEMMA LateStays ==
  ASSUME NEW c, NEW J, UNCHANGED rvars, LateReceiver(c, J)
  PROVE  LateReceiver(c, J)'
<1>1. wild' = wild /\ packet' = packet /\ lastpacketseqnum' = lastpacketseqnum
  BY DEF rvars
<1>2. CleanState(c, 1) => CleanState(c, 1)'
  BY <1>1 DEF CleanState, CleanTable, StaleSlots, Stale, Passed, Collects,
              Holding
<1>3. LateTable(c, J) => LateTable(c, J)'
  BY <1>1 DEF LateTable, LateSlot, Collects, Holding
<1>4. Pace(lastpacketseqnum, c.seq, c.offset, J)
        => Pace(lastpacketseqnum, c.seq, c.offset, J)'
  BY <1>1 DEF Pace, Waits, Paced, Close, Gain
<1>5. QED
  BY <1>1, <1>2, <1>3, <1>4 DEF LateReceiver

(* A receiver is started.                                                  *)
LEMMA LateBegins ==
  ASSUME Paces, Base, ReceiverRestarts
  PROVE  joined' \in Nat /\ LateReceiver(ReceiverAt, joined)'
<1>1. /\ joined' = count /\ net' = <<>> /\ UNCHANGED svars
      /\ packet' = [k \in Slots |-> EmptySlot] /\ lastpacketseqnum' = 0
      /\ wild' = {} /\ SenderOK
  BY DEF ReceiverRestarts, Base
<1>2. SenderAt' = SenderAt
  BY <1>1 DEF SenderAt, svars
<1>3. ReceiverAt' = SenderAt
  <2>1. net' = <<>> /\ Len(net') = 0
    BY <1>1, EmptySeq
  <2>2. QED
    BY <1>2, <2>1 DEF ReceiverAt, Pos
<1>4. \A k \in Slots : ~ packet'[k].isUse
  BY <1>1 DEF EmptySlot
<1>5. PICK c, J : c = SenderAt /\ J = count
  OBVIOUS
<1>6. J \in Nat /\ J = joined'
  BY <1>1, <1>5 DEF SenderOK
<1>7. \/ c.seq = J + 1 /\ c.offset = 0
      \/ c.seq = J /\ J # 0 /\ c.offset \in Nat
  <2>1. CASE call = NoCall
    BY <1>5, <2>1, AtFields DEF SenderAt
  <2>2. CASE call # NoCall
    <3>1. call.i \in Nat /\ count \in Nat /\ count > 0
      BY <1>1, <2>2 DEF SenderOK
    <3>2. call.i * SplitSize \in Nat
      BY <3>1, SenderConstants
    <3>3. QED
      BY <1>5, <2>2, <3>1, <3>2, AtFields DEF SenderAt
  <2>3. QED
    BY <2>1, <2>2
<1>8. LateReceiver(c, J)'
  <2>1. CASE J = 0
    <3>1. c.offset = 0 /\ c.seq <= lastpacketseqnum' + 1
      BY <1>1, <1>7, <2>1
    <3>2. QED
      BY <1>1, <1>4, <3>1, LateEmpty
  <2>2. CASE J # 0
    <3>1. /\ 0 < c.seq /\ J <= c.seq /\ c.seq \in Nat /\ c.offset \in Nat
          /\ ~ (c.offset > 0 /\ J < c.seq)
          /\ c.seq = J \/ (c.seq = J + 1 /\ c.offset = 0)
      BY <1>6, <1>7, <2>2
    <3>2. Pace(0, c.seq, c.offset, J)
      BY <1>6, <2>2, <3>1, PaceBegin
    <3>3. LateTable(c, J)'
      BY <1>1, <1>4, <3>1 DEF LateTable
    <3>4. QED
      BY <1>1, <3>2, <3>3
         DEF LateReceiver, Pace, Waits, Paced, Close, Gain
  <2>3. QED
    BY <2>1, <2>2
<1>9. QED
  BY <1>3, <1>5, <1>6, <1>8

(* A step of the programs, or a restart.                                   *)
LEMMA LateStep ==
  ASSUME Perfect, Paces, Room, LateInv, [RestartNext]_restartVars
  PROVE  LateInv'
<1>1. /\ RestartInv /\ RestartInv' /\ Base /\ joined \in Nat
      /\ restarts \in Nat /\ joins \in Nat
      /\ restarts = 0 => Joined
  BY RestartStep DEF LateInv, RestartInv
<1>2. CASE [Next]_vars /\ UNCHANGED <<restarts, deaths, joins, joined>>
  <2>1. SUFFICES ASSUME joins > 0, restarts = 0, NotTooLate(joined)
                 PROVE  LateReceiver(ReceiverAt, joined)'
    BY <1>1, <1>2 DEF LateInv, NotTooLate, Gain
  <2>2. PICK J \in Nat : J = joined
    BY <1>1
  <2>3. NotTooLate(J) /\ joined' = J /\ LateReceiver(ReceiverAt, J)
    BY <1>2, <2>1, <2>2 DEF LateInv
  <2>4. PICK life \in [1 .. Len(net) + 1 -> 0 .. 0] :
          Path(net, SenderAt, life, 0, {}) /\ JoinReceiver(ReceiverAt)
    BY <1>1, <2>1 DEF Joined
  <2>5. PICK c : c = ReceiverAt
    OBVIOUS
  <2>6. CASE Send
    <3>1. /\ SenderOK /\ net \in Seq(Datagram) /\ UNCHANGED rvars /\ SenderStep
      BY <1>1, <2>6 DEF Base, Send
    <3>2. ReceiverAt' = c
      BY <2>4, <2>5, <3>1, SendPath
    <3>3. LateReceiver(c, J)'
      BY <2>3, <2>5, <3>1, LateStays
    <3>4. QED
      BY <2>3, <3>2, <3>3
  <2>7. ASSUME NEW k \in DOMAIN net, Receive(k)
        PROVE  LateReceiver(ReceiverAt, joined)'
    <3>1. Piece(net[1]) /\ Revc(net[1]) /\ IInv
      BY <1>1, <2>7, ReceiveTakesFirst DEF Base
    <3>2. PICK d : d = net[1]
      OBVIOUS
    <3>3. PICK n \in FrameSizes, i \in Nat : IsPiece(d, d.seq, n, i)
      BY <3>1, <3>2, PieceIs
    <3>4. ReceiverAt = Before(d) /\ ReceiverAt' = After(d)
      BY <1>1, <2>4, <2>7, <3>2, ReceivePath
    <3>5. LateReceiver(After(d), J)'
      BY <2>3, <2>4, <3>1, <3>2, <3>3, <3>4, LateReceive
    <3>6. QED
      BY <2>3, <3>4, <3>5
  <2>8. CASE UNCHANGED vars
    <3>1. UNCHANGED <<count, call, net>> /\ UNCHANGED rvars
      BY <2>8 DEF vars, rvars
    <3>2. ReceiverAt' = c
      BY <2>5, <3>1 DEF ReceiverAt, SenderAt
    <3>3. LateReceiver(c, J)'
      BY <2>3, <2>5, <3>1, LateStays
    <3>4. QED
      BY <2>3, <3>2, <3>3
  <2>9. QED
    BY <1>2, <2>6, <2>7, <2>8 DEF Next
<1>3. CASE SenderRestarts
  <2>1. restarts' # 0 /\ joined' = joined
    BY <1>1, <1>3 DEF SenderRestarts
  <2>2. QED
    BY <1>1, <2>1 DEF LateInv
<1>4. CASE ReceiverRestarts
  BY <1>1, <1>4, LateBegins DEF LateInv
<1>5. QED
  BY <1>2, <1>3, <1>4 DEF RestartNext, restartVars

(* What holds in every reachable state.                                    *)
LEMMA LateInvariant ==
  ASSUME Perfect, Paces
  PROVE  RestartSpec /\ []Room => []LateInv
<1>1. RestartInit => LateInv
  <2>1. SUFFICES ASSUME RestartInit
                 PROVE  LateInv
    OBVIOUS
  <2>2. Base /\ Clean(0) /\ Joined
    BY <2>1, BeginsClean DEF RestartInit
  <2>3. QED
    BY <2>1, <2>2 DEF RestartInit, RestartInv, LateInv
<1>2. LateInv /\ Room /\ [RestartNext]_restartVars => LateInv'
  BY LateStep
<1>3. QED
  BY <1>1, <1>2, PTL DEF RestartSpec

(* A receiver that is started late, but not later than the table allows,   *)
(* never writes where it should not, and has caught up with the sender     *)
(* after Lag frames and one for every SkipRounds + 2 it was late.          *)
THEOREM RejoinsCorrect ==
  ASSUME Perfect, Paces
  PROVE  RestartSpec /\ []Room => []Rejoins
<1>1. ASSUME LateInv, joins > 0, restarts = 0,
             joined - 1 <= (Window - 1) * (SkipRounds + 2)
      PROVE  /\ wild = {}
             /\ Idle /\ joined - 1 <= (count - joined - Lag) * (SkipRounds + 2)
                  => lastpacketseqnum >= count
  <2>1. /\ LateReceiver(ReceiverAt, joined) /\ joined \in Nat
        /\ count \in Nat /\ lastpacketseqnum \in Nat
    BY <1>1 DEF LateInv, NotTooLate, Gain, RestartInv, Base, SenderOK, IInv,
                ReceiverTypeOK
  <2>2. wild = {}
    BY <2>1 DEF LateReceiver
  <2>3. ASSUME Idle, joined - 1 <= (count - joined - Lag) * (SkipRounds + 2)
        PROVE  lastpacketseqnum >= count
    <3>1. PICK c : c = ReceiverAt
      OBVIOUS
    <3>2. c = At(count + 1, 0, 0)
      BY <2>3, <3>1, EmptySeq DEF Idle, ReceiverAt, Pos, SenderAt
    <3>3. c.seq = count + 1 /\ c.offset = 0
      BY <3>2, AtFields
    <3>4. CASE CleanState(c, 1)
      <4>1. c.seq <= lastpacketseqnum + 1
        BY <2>2, <3>4 DEF CleanState, CleanTable
      <4>2. QED
        BY <2>1, <3>3, <4>1
    <3>5. ~ Pace(lastpacketseqnum, c.seq, c.offset, joined)
      <4>1. joined - 1 <= Gain(count - joined - Lag)
        BY <2>3 DEF Gain
      <4>2. QED
        BY <2>1, <3>3, <4>1, PaceEnds
    <3>6. QED
      BY <2>1, <3>1, <3>4, <3>5 DEF LateReceiver
  <2>4. QED
    BY <2>2, <2>3
<1>2. LateInv => Rejoins
  BY <1>1 DEF Rejoins
<1>3. QED
  BY <1>2, LateInvariant, PTL

=============================================================================
