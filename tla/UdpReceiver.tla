----------------------------- MODULE UdpReceiver -----------------------------
(***************************************************************************)
(* The receiving end of the projection: src/net/udp_server.c.             *)
(*                                                                         *)
(* The program keeps a table of slots, one frame under reassembly per      *)
(* slot, and lastpacketseqnum, the number of the last frame it is done     *)
(* with.  Its only handler is Revc, which takes one datagram, files it in  *)
(* the slot of its frame and hands on the frames that have become ready.   *)
(*                                                                         *)
(* A datagram is a record                                                  *)
(*   seq     m_nSeqNumber      the number of the frame                     *)
(*   total   m_nTotalFragment  how many datagrams carry the frame          *)
(*   size    m_nTotalSize      the length of the frame                     *)
(*   offset  m_usFragOffset    where in the frame the data belongs         *)
(*   payload m_usPayloadSize   how much data the header announces          *)
(*   body    (no field)        how much data the datagram carries          *)
(*                                                                         *)
(* The data of a slot is the set of positions that hold the frame's own    *)
(* data.  recvedbytes is written and never read: it is left out.           *)
(***************************************************************************)
EXTENDS Integers, FiniteSets

CONSTANTS
  NumSlots,    \* length of the array packet (10)
  Window,      \* a datagram more than this far ahead costs a frame (10)
  Lag,         \* a full frame more than this far ahead starts a skip (5)
  SkipRounds,  \* rounds of the loop that catches up in a skip (10)
  PackMod,     \* recvedpacks is an uint8_t: it counts modulo 2^8
  Clobber      \* values a stray write may leave in lastpacketseqnum

ASSUME ReceiverConstants ==
  /\ NumSlots \in Nat \ {0}
  /\ Window \in Nat /\ Window <= NumSlots
  /\ Lag \in Nat /\ SkipRounds \in Nat
  /\ PackMod \in Nat \ {0, 1}
  /\ Clobber \subseteq Nat

VARIABLES
  packet,            \* the slot table
  lastpacketseqnum,  \* every frame up to this number is done with
  out,               \* the frames the last call of Revc handed on
  wild               \* the writes outside the table or a slot's data so far

rvars == <<packet, lastpacketseqnum, out, wild>>

Slots == 0 .. NumSlots - 1

Datagram == [seq : Nat, total : Nat, size : Nat,
             offset : Nat, payload : Nat, body : Nat]

Slot == [isUse : BOOLEAN, isFull : BOOLEAN, recvedpacks : 0 .. PackMod - 1,
         seqnum : Nat, size : Nat, data : SUBSET Nat]

(* A stray write is known by where it went and the frame it was made for.  *)
Stray == [at : {"slot", "heap"}, seq : Nat]

EmptySlot == [isUse |-> FALSE, isFull |-> FALSE, recvedpacks |-> 0,
              seqnum |-> 0, size |-> 0, data |-> {}]

ReceiverInit ==
  /\ packet = [i \in Slots |-> EmptySlot]
  /\ lastpacketseqnum = 0
  /\ out = {}
  /\ wild = {}

-----------------------------------------------------------------------------
(* The slot table *)

Holding(p, s) == {i \in Slots : p[i].isUse /\ p[i].seqnum = s}

(* Mutant: the search for an unused slot ends one slot early.              *)
Unused_OneShort(p) == {i \in Slots \ {NumSlots - 1} : ~ p[i].isUse}

Unused(p) == {i \in Slots : ~ p[i].isUse}

(* Giving slots back clears everything but isFull, and frees the data.     *)
Release(p, S) ==
  [i \in Slots |-> IF i \in S
                   THEN [EmptySlot EXCEPT !.isFull = p[i].isFull]
                   ELSE p[i]]

(* memcpy: the positions of the frame that now hold its own data.  What    *)
(* the header announces beyond the body is whatever the buffer held.       *)
Copied(m) ==
  {b \in m.offset .. m.offset + m.payload - 1 : b < m.offset + m.body}

(* Mutant: the counter of datagrams is not cut to its width.               *)
Added_Wide(slot, m) ==
  [slot EXCEPT !.recvedpacks = @ + 1, !.data = @ \cup Copied(m),
               !.isFull = @ \/ slot.recvedpacks + 1 = m.total]

(* The slot after one more datagram of its frame.                          *)
Added(slot, m) ==
  LET packs == (slot.recvedpacks + 1) % PackMod
  IN [slot EXCEPT !.recvedpacks = packs,
                  !.data = @ \cup Copied(m),
                  !.isFull = @ \/ packs = m.total]

(* An unused slot taken for a new frame.  isFull is not reset.             *)
Taken(slot, m) ==
  [isUse |-> TRUE, isFull |-> slot.isFull \/ m.total = 1, recvedpacks |-> 1,
   seqnum |-> m.seq, size |-> m.size, data |-> Copied(m)]

Frame(slot) == [seqnum |-> slot.seqnum, size |-> slot.size, data |-> slot.data]

-----------------------------------------------------------------------------
(* The steps of Revc, each on the table p and the number l it has reached  *)

(* A frame too far ahead: give up the next one in line, whatever its state *)
Ahead(m) == lastpacketseqnum + Window < m.seq

(* Mutant: the slot of the last frame is given up, not that of the next.   *)
TableAfterAhead_Last(m) ==
  IF Ahead(m) THEN Release(packet, Holding(packet, lastpacketseqnum))
              ELSE packet

TableAfterAhead(m) ==
  IF Ahead(m) THEN Release(packet, Holding(packet, lastpacketseqnum + 1))
              ELSE packet

LastAfterAhead(m) ==
  IF Ahead(m) THEN lastpacketseqnum + 1 ELSE lastpacketseqnum

Settle(p, l, frames) ==
  /\ packet' = p
  /\ lastpacketseqnum' = l
  /\ out' = frames

(* Mutant: the loop stops at a number whose frame has no slot.             *)
Reaches_NoGap(p, l, n, rounds) ==
  /\ \A s \in l + 1 .. n : \E i \in Holding(p, s) : p[i].isFull
  /\ n = l + rounds \/ \A i \in Holding(p, n + 1) : ~ p[i].isFull

(* The catch-up loop: from l it moves over every number whose frame is     *)
(* full or has no slot, stops at the first frame that has a slot and is    *)
(* not full, and does at most the given number of rounds.                  *)
Reaches(p, l, n, rounds) ==
  /\ \A s \in l + 1 .. n : \A i \in Holding(p, s) : p[i].isFull
  /\ \/ n = l + rounds
     \/ \E i \in Holding(p, n + 1) : ~ p[i].isFull

CatchUpWithin(p, l, rounds) ==
  \E n \in l .. l + rounds :
     LET ready == {i \in Slots : p[i].isUse /\ p[i].seqnum \in l + 1 .. n}
     IN /\ Reaches(p, l, n, rounds)
        /\ Settle(Release(p, ready), n, {Frame(p[i]) : i \in ready})

(* Mutant: the loop does one round too many.                               *)
CatchUp_OneMore(p, l) == CatchUpWithin(p, l, SkipRounds + 1)

CatchUp(p, l) == CatchUpWithin(p, l, SkipRounds)

(* Mutant: lastpacketseqnum is not increased for the frame next in line.   *)
HandOn_NotCounted(p, l, i) ==
  IF p[i].seqnum = l + 1 THEN Settle(Release(p, {i}), l, {Frame(p[i])})
                         ELSE Settle(p, l, {})

(* Mutant: a frame the receiver is done with counts as next in line.       *)
HandOn_Late(p, l, i) ==
  IF p[i].seqnum <= l + 1
  THEN Settle(Release(p, {i}), l + 1, {Frame(p[i])})
  ELSE Settle(p, l, {})

(* The frame in slot i has just got its last datagram.                     *)
HandOn(p, l, i) ==
  LET s == p[i].seqnum
  IN \/ /\ s = l + 1
        /\ Settle(Release(p, {i}), s, {Frame(p[i])})
     \/ /\ l + Lag < s /\ s # l + 1
        /\ CatchUp(Release(p, Holding(p, l + 1)), l + 1)
     \/ /\ ~ (l + Lag < s) /\ s # l + 1
        /\ Settle(p, l, {})

(* A datagram is filed in slot i, whose record becomes slot.               *)
File(p, l, i, slot, m) ==
  LET q == [p EXCEPT ![i] = slot]
  IN /\ m.offset + m.payload <= slot.size
     /\ wild' = wild
     /\ IF slot.recvedpacks = m.total THEN HandOn(q, l, i)
                                      ELSE Settle(q, l, {})

(* memcpy past the end of the data: nothing is known of the heap after it. *)
HeapOverrun(p, l, size, m) ==
  /\ m.offset + m.payload > size
  /\ wild' = wild \cup {[at |-> "heap", seq |-> m.seq]}
  /\ Settle(p, l, {})

(* No slot is left: the new frame is written to packet[-1], and the flag   *)
(* of a frame of one datagram to packet[10].  Built with the repository's  *)
(* flags this overwrites sin, which is only an output of recvfrom; an      *)
(* optimising build has lastpacketseqnum there.  That the data of the      *)
(* datagram may be copied past its area as well is not told apart: nothing *)
(* is claimed of such a state either way.                                  *)
SlotOverrun(p, l, m) ==
  /\ wild' = wild \cup {[at |-> "slot", seq |-> m.seq]}
  /\ \E garbage \in {l} \cup Clobber : Settle(p, garbage, {})

(* Mutant: frames behind are let in.                                       *)
Rejected_Never(m) == m.payload <= 0

(* Mutant: one more frame behind is let in.                                *)
Rejected_Later(m) == m.payload <= 0 \/ lastpacketseqnum > m.seq + 1

Rejected(m) == m.payload <= 0 \/ lastpacketseqnum > m.seq

Ignore(m) ==
  /\ Rejected(m)
  /\ out' = {}
  /\ UNCHANGED <<packet, lastpacketseqnum, wild>>

AddToFrame(m) ==
  LET p == TableAfterAhead(m)
  IN /\ ~ Rejected(m)
     /\ \E i \in Holding(p, m.seq) :
          \/ File(p, LastAfterAhead(m), i, Added(p[i], m), m)
          \/ HeapOverrun(p, LastAfterAhead(m), p[i].size, m)

(* Mutant: a new slot is taken even when the frame has one.                *)
StartFrame_Again(m) ==
  LET p == TableAfterAhead(m)
  IN /\ ~ Rejected(m)
     /\ \E i \in Unused(p) :
          /\ \A j \in Unused(p) : i <= j
          /\ File(p, LastAfterAhead(m), i, Taken(p[i], m), m)

StartFrame(m) ==
  LET p == TableAfterAhead(m)
  IN /\ ~ Rejected(m)
     /\ Holding(p, m.seq) = {}
     /\ \E i \in Unused(p) :
          /\ \A j \in Unused(p) : i <= j
          /\ \/ File(p, LastAfterAhead(m), i, Taken(p[i], m), m)
             \/ HeapOverrun(p, LastAfterAhead(m), m.size, m)

NoSlotLeft(m) ==
  LET p == TableAfterAhead(m)
  IN /\ ~ Rejected(m)
     /\ Holding(p, m.seq) = {}
     /\ Unused(p) = {}
     /\ SlotOverrun(p, LastAfterAhead(m), m)

(* One call of Revc on the datagram recvfrom has returned.                 *)
HeapIntact == \A w \in wild : w.at # "heap"

Revc(m) ==
  /\ HeapIntact
  /\ Ignore(m) \/ AddToFrame(m) \/ StartFrame(m) \/ NoSlotLeft(m)

-----------------------------------------------------------------------------
(* Properties *)

(* The slots, the counters and the ghost variables keep their types.       *)
ReceiverTypeOK ==
  /\ packet \in [Slots -> Slot]
  /\ lastpacketseqnum \in Nat
  /\ out \subseteq [seqnum : Nat, size : Nat, data : SUBSET Nat]
  /\ wild \subseteq Stray

(* Two slots never collect the same frame: the search for a frame's slot   *)
(* and the search for an unused one, with slots given back in between by   *)
(* two other loops, never split a frame over two slots.                    *)
UniqueSeq ==
  \A i, j \in Slots :
    packet[i].isUse /\ packet[j].isUse /\ packet[i].seqnum = packet[j].seqnum
      => i = j

(* Frames are handed on in order and never twice: a call only hands on     *)
(* frames that are past the last number done with, and it is done with     *)
(* all of them when it returns.  Until a stray write, no number comes back.*)
InOrder ==
  [][/\ \A f \in out' : lastpacketseqnum < f.seqnum
                        /\ f.seqnum <= lastpacketseqnum'
     /\ wild' = {} => lastpacketseqnum <= lastpacketseqnum']_rvars

(* A slot that collects a frame the receiver is already done with.         *)
Stale(i) == packet[i].isUse /\ packet[i].seqnum <= lastpacketseqnum

StaleSlots == {i \in Slots : Stale(i)}

(* A slot that collects a frame outside the window.                        *)
Beyond(i) == packet[i].isUse /\ packet[i].seqnum > lastpacketseqnum + Window

(* A slot taken for a frame the receiver is done with never comes back:    *)
(* slots are only given back for numbers past lastpacketseqnum.            *)
StaleForever ==
  [][wild' = {} =>
       \A i \in Slots : Stale(i) =>
         Stale(i)' /\ packet[i].seqnum' = packet[i].seqnum]_rvars

(* The ten slots are enough for the window: the table only runs out of     *)
(* slots when a slot is stale, when one holds a frame beyond the window,   *)
(* or when the datagram is late, for the frame just done with.             *)
OverrunCause ==
  [][\A w \in wild' \ wild : w.at = "slot" =>
       \/ \E i \in Slots : Stale(i) \/ Beyond(i)
       \/ w.seq = lastpacketseqnum]_rvars

=============================================================================
