------------------------ MODULE PartitionIndexProofs ------------------------
(***************************************************************************)
(* The index of a partition, whatever the number of channels, containers,  *)
(* recordings and crashes: every container that was ever used has one      *)
(* place, in memory and on each copy that a restart may take (OneOwner);   *)
(* one copy is valid at every moment (AlwaysAValidCopy); what an update    *)
(* has returned for is found (KeptIsFound), under its own channel only     *)
(* (ShownUnderItsChannel); and a full disk gives up the recordings of a    *)
(* channel oldest first (OldestGoesFirst).                                 *)
(*                                                                         *)
(* None is inductive, since what is written next matters.  Each of the     *)
(* four invariants rests on those before it.                               *)
(*                                                                         *)
(* IInv.  The writes that a copy still waits for lead it, through owned    *)
(* states only, to the ring in memory (Leads).  That a container can be    *)
(* added to the ring, or taken from it, is a matter of counting (Counted): *)
(* the full containers and those of the channels are all.                  *)
(*                                                                         *)
(* KInv.  A kept recording has a position where both copies hold it, that  *)
(* memory and every valid copy show, and that no write to come takes it    *)
(* from (Keeping).  It is kept when the last write of its update is made;  *)
(* until then these writes bring it there (Promising).                     *)
(*                                                                         *)
(* SInv.  What a header shows of a container belongs to its channel        *)
(* (FairDisk), or is about to be blanked (FairMemory), or was so when a    *)
(* crash came (exposed).  A copy never shows more than memory (Below).     *)
(*                                                                         *)
(* OInv.  A recording has one number and one position (Numbered, Placed).  *)
(* Of two kept recordings of a channel the one whose container comes first *)
(* in the ring has the lower number (InOrder), and one that is being       *)
(* recorded or written has a higher number than all of them (Newer).       *)
(***************************************************************************)
EXTENDS PartitionIndex, FiniteSets, FiniteSetTheorems, TLAPS

Holders(h) == {c \in Chan : Holds(h, c)}

Counted(h) == h.full + Cardinality(Holders(h)) = h.recorded

SameSlots(g, h) == g.offset = h.offset /\ g.full = h.full

\* Writing ws to the copy d, in that order, makes its ring r and the slots of
\* its header in use those of h, and it is owned all the way.
Leads(d, ws, h, r) ==
  /\ Counted(d.hdr) /\ Owned(d.hdr, d.ring)
  /\ (\A i \in 1..Len(ws) : ws[i].kind # "ring") => d.ring = r
  /\ \A i \in 1..Len(ws) : ws[i].kind = "ring" =>
       /\ ~Live(d.hdr, ws[i].at) /\ r = [d.ring EXCEPT ![ws[i].at] = ws[i].val]
       /\ \A j \in 1..Len(ws) : ws[j].kind = "ring" => j = i
       /\ \A j \in 1..Len(ws) : ws[j].kind = "hdr" => j > i
  /\ \A i \in 1..Len(ws) : ws[i].kind = "hdr" => Counted(ws[i].val) /\ Owned(ws[i].val, r)
  /\ (\A i \in 1..Len(ws) : ws[i].kind # "hdr") => SameSlots(d.hdr, h)
  /\ \A i \in 1..Len(ws) :
       /\ ws[i].kind = "hdr"
       /\ \A j \in 1..Len(ws) : ws[j].kind = "hdr" => j <= i
       => SameSlots(ws[i].val, h)

\* What copy k still waits for.
Pending(k) == IF k = 1 /\ half THEN Tail(todo) ELSE todo

IInv ==
  /\ TypeOK
  /\ half => todo # <<>>
  /\ phase # "up" => todo = <<>> /\ half = FALSE /\ \A c \in Chan : open[c] = Blank
  /\ phase = "up" =>
       /\ Counted(hdr) /\ Owned(hdr, ring)
       /\ \A c \in Chan : open[c] # Blank => Holds(hdr, c)
       /\ \A k \in 1..2 : copy[k].ok /\ Leads(copy[k], Pending(k), hdr, ring)
  /\ \A k \in 1..2 : copy[k].ok => Counted(copy[k].hdr) /\ Owned(copy[k].hdr, copy[k].ring)
  /\ AlwaysAValidCopy
---------------------------------------------------------------------------
(* The slots of the ring.                                                   *)

LEMMA WrapInside ==
  ASSUME NEW n \in 0..2 * Total - 1
  PROVE  Wrap(n) \in Container
BY IndexAssumption DEF Wrap, Container

LEMMA NextSlotFree ==
  ASSUME NEW h \in Header, NEW c \in Chan, h.full < Total
  PROVE  /\ NextSlot(h) \in Container
         /\ ~Live(h, NextSlot(h))
         /\ \A s \in Container : Live(Switched(h, c), s) <=> Live(h, s) \/ s = NextSlot(h)
<1> DEFINE o == h.offset
           n == h.full
<1>1. o \in Nat /\ n \in Nat /\ o < Total /\ n < Total /\ Total \in Nat
  BY IndexAssumption DEF Header, Container
<1>2. Switched(h, c).offset = o /\ Switched(h, c).full = n + 1
  BY DEF Switched, Header
<1>3. ASSUME NEW s \in Container
      PROVE  Live(Switched(h, c), s) <=> Live(h, s) \/ s = NextSlot(h)
  BY <1>1, <1>2 DEF Live, NextSlot, Wrap, Container
<1> QED BY <1>1, <1>3 DEF Live, NextSlot, Wrap, Container

LEMMA OldestLive ==
  ASSUME NEW h \in Header, NEW c \in Chan, NEW f, h.full > 0
  PROVE  /\ h.offset \in Container
         /\ Live(h, h.offset)
         /\ \A s \in Container : Live(Covering(h, c, f), s) <=> Live(h, s) /\ s # h.offset
<1> DEFINE o == h.offset
           n == h.full
<1>1. o \in Nat /\ n \in Nat /\ o < Total /\ n > 0 /\ n <= Total /\ Total \in Nat
  BY IndexAssumption DEF Header, Container
<1>2. Covering(h, c, f).offset = Wrap(o + 1) /\ Covering(h, c, f).full = n - 1
  BY DEF Covering, Header
<1>3. ASSUME NEW s \in Container
      PROVE  Live(Covering(h, c, f), s) <=> Live(h, s) /\ s # h.offset
  BY <1>1, <1>2 DEF Live, Wrap, Container
<1> QED BY <1>1, <1>3 DEF Live, Wrap, Container
---------------------------------------------------------------------------
(* The header after each of its changes.                                    *)

LEMMA HeaderTypes ==
  ASSUME NEW h \in Header, NEW c \in Chan
  PROVE  /\ h.full < Total => Switched(h, c) \in Header
         /\ h.recorded < Total => Allocated(h, c) \in Header
         /\ \A f \in Container : h.full > 0 => Covering(h, c, f) \in Header
         /\ h.sect[c] < MaxSect - 1 => [h EXCEPT !.sect[c] = @ + 1] \in Header
<1>1. 0 \in Sect /\ Total \in Nat /\ NoFile \in 0..Total /\ MaxSect \in Nat
  BY IndexAssumption DEF Sect, NoFile
<1>2. h.full < Total => h.full + 1 \in 0..Total
  BY <1>1 DEF Header
<1>3. h.recorded < Total => h.recorded + 1 \in 0..Total /\ h.recorded \in 0..Total
  BY <1>1 DEF Header
<1>4. h.full > 0 => h.full - 1 \in 0..Total
  BY <1>1 DEF Header
<1>5. Wrap(h.offset + 1) \in Container
  BY <1>1, WrapInside DEF Header, Container
<1>6. h.sect[c] < MaxSect - 1 => h.sect[c] + 1 \in Sect
  BY <1>1 DEF Header, Sect
<1>7. h.full < Total => Switched(h, c) \in Header
  BY <1>1, <1>2 DEF Switched, Header
<1>8. h.recorded < Total => Allocated(h, c) \in Header
  BY <1>1, <1>3 DEF Allocated, Header
<1>9. \A f \in Container : h.full > 0 => Covering(h, c, f) \in Header
  <2>1. \A f \in Container : f \in 0..Total
    BY <1>1 DEF Container
  <2> QED BY <1>1, <1>4, <1>5, <2>1 DEF Covering, Header
<1>10. h.sect[c] < MaxSect - 1 => [h EXCEPT !.sect[c] = @ + 1] \in Header
  BY <1>1, <1>6 DEF Header
<1> QED BY <1>7, <1>8, <1>9, <1>10

LEMMA HoldersFinite ==
  ASSUME NEW h \in Header
  PROVE  /\ IsFiniteSet(Holders(h))
         /\ Cardinality(Holders(h)) \in 0..NumChan
         /\ \A c \in Chan : Holds(h, c) => Cardinality(Holders(h)) > 0
         /\ \A c \in Chan : ~Holds(h, c) => Cardinality(Holders(h)) < NumChan
<1>1. IsFiniteSet(Chan) /\ Cardinality(Chan) = NumChan
  BY IndexAssumption, FS_Interval DEF Chan
<1>2. Holders(h) \subseteq Chan
  BY DEF Holders
<1>3. IsFiniteSet(Holders(h)) /\ Cardinality(Holders(h)) <= NumChan
  BY <1>1, <1>2, FS_Subset
<1>4. Cardinality(Holders(h)) \in Nat /\ NumChan \in Nat
  BY <1>3, FS_CardinalityType, IndexAssumption
<1>5. ASSUME NEW c \in Chan, Holds(h, c) PROVE Cardinality(Holders(h)) > 0
  <2>1. Holders(h) # {}
    BY <1>5 DEF Holders
  <2> QED BY <1>3, <1>4, <2>1, FS_EmptySet
<1>6. ASSUME NEW c \in Chan, ~Holds(h, c) PROVE Cardinality(Holders(h)) < NumChan
  <2>1. c \notin Holders(h)
    BY <1>6 DEF Holders
  <2>2. Holders(h) # Chan
    BY <2>1
  <2>3. Cardinality(Holders(h)) # NumChan
    BY <1>1, <1>2, <2>2, FS_Subset
  <2> QED BY <1>3, <1>4, <2>3
<1>7. Cardinality(Holders(h)) \in 0..NumChan
  BY <1>3, <1>4
<1> QED BY <1>3, <1>5, <1>6, <1>7

\* A header that counts leaves room in the ring for the container of a channel,
\* and has a full container when the disk is full and a channel has none.
LEMMA RoomInRing ==
  ASSUME NEW h \in Header, NEW c \in Chan, Counted(h)
  PROVE  /\ Holds(h, c) => h.full < Total
         /\ ~Holds(h, c) /\ h.recorded = Total => h.full > 0
<1>1. h.full \in 0..Total /\ h.recorded \in 0..Total
  BY DEF Header
<1> QED BY <1>1, HoldersFinite, IndexAssumption DEF Counted

LEMMA CountedAfter ==
  ASSUME NEW h \in Header, NEW c \in Chan, Counted(h)
  PROVE  /\ Holds(h, c) => Counted(Switched(h, c)) /\ ~Holds(Switched(h, c), c)
         /\ ~Holds(h, c) /\ h.recorded < Total
              => Counted(Allocated(h, c)) /\ Holds(Allocated(h, c), c)
         /\ \A f \in Container : ~Holds(h, c) /\ h.full > 0
              => Counted(Covering(h, c, f)) /\ Holds(Covering(h, c, f), c)
<1>1. IsFiniteSet(Holders(h)) /\ Cardinality(Holders(h)) \in Nat
  BY HoldersFinite, FS_CardinalityType
<1>2. h.full \in Nat /\ h.recorded \in Nat /\ h.file \in [Chan -> 0..Total] /\ Total \in Nat
  BY IndexAssumption DEF Header
<1>3. ASSUME Holds(h, c) PROVE Counted(Switched(h, c)) /\ ~Holds(Switched(h, c), c)
  <2> DEFINE g == Switched(h, c)
  <2>1. g.full = h.full + 1 /\ g.recorded = h.recorded /\ g.file = [h.file EXCEPT ![c] = Total]
    BY DEF Switched, NoFile, Header
  <2>2. Holders(g) = Holders(h) \ {c}
    BY <1>2, <2>1 DEF Holders, Holds
  <2>3. c \in Holders(h)
    BY <1>3 DEF Holders
  <2>4. Cardinality(Holders(g)) = Cardinality(Holders(h)) - 1
    BY <1>1, <2>2, <2>3, FS_RemoveElement
  <2>5. ~Holds(g, c)
    BY <1>2, <2>1 DEF Holds
  <2> QED BY <1>1, <1>2, <2>1, <2>4, <2>5 DEF Counted
<1>4. ASSUME ~Holds(h, c), h.recorded < Total
      PROVE  Counted(Allocated(h, c)) /\ Holds(Allocated(h, c), c)
  <2> DEFINE g == Allocated(h, c)
  <2>1. g.full = h.full /\ g.recorded = h.recorded + 1 /\ g.file = [h.file EXCEPT ![c] = h.recorded]
    BY DEF Allocated, Header
  <2>2. Holders(g) = Holders(h) \cup {c}
    BY <1>2, <1>4, <2>1 DEF Holders, Holds
  <2>3. c \notin Holders(h)
    BY <1>4 DEF Holders
  <2>4. Cardinality(Holders(g)) = Cardinality(Holders(h)) + 1
    BY <1>1, <2>2, <2>3, FS_AddElement
  <2>5. Holds(g, c)
    BY <1>2, <1>4, <2>1 DEF Holds
  <2> QED BY <1>1, <1>2, <2>1, <2>4, <2>5 DEF Counted
<1>5. ASSUME NEW f \in Container, ~Holds(h, c), h.full > 0
      PROVE  Counted(Covering(h, c, f)) /\ Holds(Covering(h, c, f), c)
  <2> DEFINE g == Covering(h, c, f)
  <2>1. g.full = h.full - 1 /\ g.recorded = h.recorded /\ g.file = [h.file EXCEPT ![c] = f]
    BY DEF Covering, Header
  <2>2. f < Total
    BY <1>2 DEF Container
  <2>3. Holders(g) = Holders(h) \cup {c}
    BY <1>2, <2>1, <2>2 DEF Holders, Holds
  <2>4. c \notin Holders(h)
    BY <1>5 DEF Holders
  <2>5. Cardinality(Holders(g)) = Cardinality(Holders(h)) + 1
    BY <1>1, <2>3, <2>4, FS_AddElement
  <2>6. Holds(g, c)
    BY <1>2, <2>1, <2>2 DEF Holds
  <2> QED BY <1>1, <1>2, <1>5, <2>1, <2>5, <2>6 DEF Counted
<1> QED BY <1>3, <1>4, <1>5
---------------------------------------------------------------------------
(* Every change of the header keeps the partition owned.                    *)

LEMMA OwnedSwitched ==
  ASSUME NEW h \in Header, NEW r \in Ring, NEW c \in Chan,
         Holds(h, c), h.full < Total, Owned(h, r)
  PROVE  Owned(Switched(h, c), [r EXCEPT ![NextSlot(h)] = Entry(h, c)])
<1> DEFINE g == Switched(h, c)
           n == NextSlot(h)
           q == [r EXCEPT ![n] = Entry(h, c)]
<1>1. n \in Container /\ ~Live(h, n) /\ \A s \in Container : Live(g, s) <=> Live(h, s) \/ s = n
  BY NextSlotFree
<1>2. q[n].file = h.file[c] /\ \A s \in Container : s # n => q[s] = r[s]
  BY <1>1 DEF Ring, Entry
<1>3. /\ g.recorded = h.recorded
      /\ g.file[c] = Total
      /\ \A d \in Chan : d # c => g.file[d] = h.file[d]
  BY DEF Switched, Header, NoFile
<1>4. \A d \in Chan : Holds(g, d) <=> Holds(h, d) /\ d # c
  BY <1>3, IndexAssumption DEF Holds
<1>5. h.file[c] < Total /\ h.file[c] < h.recorded /\ Total \in Nat /\ h.recorded \in 0..Total
  BY IndexAssumption DEF Holds, Owned, Header
<1> HIDE DEF g, n, q
<1>6. \A s \in Container : Live(g, s) => q[s].file < g.recorded
  BY <1>1, <1>2, <1>3, <1>5 DEF Owned
<1>7. \A d \in Chan : Holds(g, d) => g.file[d] < g.recorded
  BY <1>3, <1>4 DEF Owned
<1>8. \A s \in Container : Live(h, s) => r[s].file # h.file[c]
  BY DEF Owned
<1>9. \A s, t \in Container : Live(g, s) /\ Live(g, t) /\ q[s].file = q[t].file => s = t
  BY <1>1, <1>2, <1>8 DEF Owned
<1>10. \A d, e \in Chan : Holds(g, d) /\ g.file[d] = g.file[e] => d = e
  BY <1>3, <1>4 DEF Owned, Holds
<1>11. \A d \in Chan, s \in Container : Live(g, s) => g.file[d] # q[s].file
  <2> SUFFICES ASSUME NEW d \in Chan, NEW s \in Container, Live(g, s)
               PROVE  g.file[d] # q[s].file
    OBVIOUS
  <2>1. CASE s = n /\ d = c
    BY <2>1, <1>2, <1>3, <1>5
  <2>2. CASE s = n /\ d # c
    <3>1. h.file[d] # h.file[c]
      BY <2>2 DEF Owned
    <3> QED BY <2>2, <3>1, <1>2, <1>3
  <2>3. CASE s # n /\ d = c
    <3>1. r[s].file < h.recorded
      BY <2>3, <1>1 DEF Owned
    <3>2. r[s].file \in 0..Total
      BY DEF Ring
    <3> QED BY <2>3, <3>1, <3>2, <1>2, <1>3, <1>5
  <2>4. CASE s # n /\ d # c
    BY <2>4, <1>1, <1>2, <1>3 DEF Owned
  <2> QED BY <2>1, <2>2, <2>3, <2>4
<1>12. \A f \in 0..g.recorded - 1 : \/ \E s \in Container : Live(g, s) /\ q[s].file = f
                                    \/ \E d \in Chan : g.file[d] = f
  <2> SUFFICES ASSUME NEW f \in 0..h.recorded - 1
               PROVE  \/ \E s \in Container : Live(g, s) /\ q[s].file = f
                      \/ \E d \in Chan : g.file[d] = f
    BY <1>3
  <2>1. CASE \E s \in Container : Live(h, s) /\ r[s].file = f
    BY <2>1, <1>1, <1>2
  <2>2. CASE \E d \in Chan : h.file[d] = f
    <3>1. PICK d \in Chan : h.file[d] = f
      BY <2>2
    <3>2. CASE d = c
      BY <3>1, <3>2, <1>1, <1>2
    <3>3. CASE d # c
      BY <3>1, <3>3, <1>3
    <3> QED BY <3>2, <3>3
  <2> QED BY <2>1, <2>2 DEF Owned
<1> QED BY <1>6, <1>7, <1>9, <1>10, <1>11, <1>12 DEF Owned, g, n, q

LEMMA OwnedAllocated ==
  ASSUME NEW h \in Header, NEW r \in Ring, NEW c \in Chan,
         ~Holds(h, c), h.recorded < Total, Owned(h, r)
  PROVE  Owned(Allocated(h, c), r)
<1> DEFINE g == Allocated(h, c)
<1>1. /\ g.recorded = h.recorded + 1
      /\ g.file[c] = h.recorded
      /\ \A d \in Chan : d # c => g.file[d] = h.file[d]
      /\ g.offset = h.offset /\ g.full = h.full
  BY DEF Allocated, Header
<1>2. \A s \in Container : Live(g, s) <=> Live(h, s)
  BY <1>1 DEF Live
<1>3. \A d \in Chan : Holds(g, d) <=> Holds(h, d) \/ d = c
  BY <1>1 DEF Holds
<1>4. /\ h.recorded \in Nat /\ Total \in Nat
      /\ \A d \in Chan : h.file[d] \in 0..Total
      /\ \A s \in Container : r[s].file \in 0..Total
  BY IndexAssumption DEF Header, Ring
<1>5. \A d \in Chan : h.file[d] # h.recorded
  <2> SUFFICES ASSUME NEW d \in Chan PROVE h.file[d] # h.recorded
    OBVIOUS
  <2>1. CASE Holds(h, d)
    BY <2>1, <1>4 DEF Owned
  <2>2. CASE ~Holds(h, d)
    BY <2>2, <1>4 DEF Holds
  <2> QED BY <2>1, <2>2
<1> HIDE DEF g
<1>6. \A s \in Container : Live(g, s) => r[s].file < g.recorded
  BY <1>1, <1>2, <1>4 DEF Owned
<1>7. \A d \in Chan : Holds(g, d) => g.file[d] < g.recorded
  BY <1>1, <1>3, <1>4 DEF Owned
<1>8. \A s, t \in Container : Live(g, s) /\ Live(g, t) /\ r[s].file = r[t].file => s = t
  BY <1>2 DEF Owned
<1>9. \A d, e \in Chan : Holds(g, d) /\ g.file[d] = g.file[e] => d = e
  BY <1>1, <1>3, <1>5 DEF Owned
<1>10. \A d \in Chan, s \in Container : Live(g, s) => g.file[d] # r[s].file
  <2> SUFFICES ASSUME NEW d \in Chan, NEW s \in Container, Live(h, s)
               PROVE  g.file[d] # r[s].file
    BY <1>2
  <2>1. CASE d = c
    BY <2>1, <1>1, <1>4 DEF Owned
  <2>2. CASE d # c
    BY <2>2, <1>1 DEF Owned
  <2> QED BY <2>1, <2>2
<1>11. \A f \in 0..g.recorded - 1 : \/ \E s \in Container : Live(g, s) /\ r[s].file = f
                                    \/ \E d \in Chan : g.file[d] = f
  <2> SUFFICES ASSUME NEW f \in 0..g.recorded - 1
               PROVE  \/ \E s \in Container : Live(g, s) /\ r[s].file = f
                      \/ \E d \in Chan : g.file[d] = f
    OBVIOUS
  <2>1. CASE f = h.recorded
    BY <2>1, <1>1
  <2>2. CASE f # h.recorded
    <3>1. f \in 0..h.recorded - 1
      BY <2>2, <1>1, <1>4
    <3>2. CASE \E s \in Container : Live(h, s) /\ r[s].file = f
      BY <3>2, <1>2
    <3>3. CASE \E d \in Chan : h.file[d] = f
      <4>1. PICK d \in Chan : h.file[d] = f
        BY <3>3
      <4>2. d # c
        BY <4>1, <3>1, <1>4 DEF Holds
      <4> QED BY <4>1, <4>2, <1>1
    <3> QED BY <3>1, <3>2, <3>3 DEF Owned
  <2> QED BY <2>1, <2>2
<1> QED BY <1>6, <1>7, <1>8, <1>9, <1>10, <1>11 DEF Owned, g

LEMMA OwnedCovering ==
  ASSUME NEW h \in Header, NEW r \in Ring, NEW c \in Chan,
         ~Holds(h, c), h.full > 0, Owned(h, r)
  PROVE  /\ r[h.offset].file \in Container
         /\ Owned(Covering(h, c, r[h.offset].file), r)
<1> DEFINE o == h.offset
           f == r[o].file
           g == Covering(h, c, f)
<1>1. o \in Container /\ Live(h, o) /\ \A s \in Container : Live(g, s) <=> Live(h, s) /\ s # o
  BY OldestLive
<1>2. f < h.recorded /\ h.recorded \in 0..Total /\ f \in 0..Total /\ Total \in Nat
  BY <1>1, IndexAssumption DEF Owned, Header, Ring
<1>3. f \in Container
  BY <1>2 DEF Container
<1>4. /\ g.recorded = h.recorded
      /\ g.file[c] = f
      /\ \A d \in Chan : d # c => g.file[d] = h.file[d]
  BY DEF Covering, Header
<1>5. \A d \in Chan : Holds(g, d) <=> Holds(h, d) \/ d = c
  BY <1>2, <1>3, <1>4 DEF Holds, Container
<1>6. \A d \in Chan : h.file[d] # f
  BY <1>1 DEF Owned
<1> HIDE DEF g, f, o
<1>7. \A s \in Container : Live(g, s) => r[s].file < g.recorded
  BY <1>1, <1>4 DEF Owned
<1>8. \A d \in Chan : Holds(g, d) => g.file[d] < g.recorded
  BY <1>2, <1>4, <1>5 DEF Owned
<1>9. \A s, t \in Container : Live(g, s) /\ Live(g, t) /\ r[s].file = r[t].file => s = t
  BY <1>1 DEF Owned
<1>10. \A d, e \in Chan : Holds(g, d) /\ g.file[d] = g.file[e] => d = e
  BY <1>4, <1>5, <1>6 DEF Owned
<1>11. \A d \in Chan, s \in Container : Live(g, s) => g.file[d] # r[s].file
  <2> SUFFICES ASSUME NEW d \in Chan, NEW s \in Container, Live(h, s), s # o
               PROVE  g.file[d] # r[s].file
    BY <1>1
  <2>1. CASE d = c
    BY <2>1, <1>1, <1>4 DEF Owned, f
  <2>2. CASE d # c
    BY <2>2, <1>4 DEF Owned
  <2> QED BY <2>1, <2>2
<1>12. \A x \in 0..g.recorded - 1 : \/ \E s \in Container : Live(g, s) /\ r[s].file = x
                                    \/ \E d \in Chan : g.file[d] = x
  <2> SUFFICES ASSUME NEW x \in 0..h.recorded - 1
               PROVE  \/ \E s \in Container : Live(g, s) /\ r[s].file = x
                      \/ \E d \in Chan : g.file[d] = x
    BY <1>4
  <2>1. CASE \E s \in Container : Live(h, s) /\ r[s].file = x
    <3>1. PICK s \in Container : Live(h, s) /\ r[s].file = x
      BY <2>1
    <3>2. CASE s = o
      BY <3>1, <3>2, <1>4 DEF f
    <3>3. CASE s # o
      BY <3>1, <3>3, <1>1
    <3> QED BY <3>2, <3>3
  <2>2. CASE \E d \in Chan : h.file[d] = x
    <3>1. PICK d \in Chan : h.file[d] = x
      BY <2>2
    <3>2. d # c
      <4>1. x < Total
        BY <1>2
      <4> QED BY <3>1, <4>1 DEF Holds
    <3> QED BY <3>1, <3>2, <1>4
  <2> QED BY <2>1, <2>2 DEF Owned
<1>13. Owned(g, r)
  BY <1>7, <1>8, <1>9, <1>10, <1>11, <1>12 DEF Owned
<1> QED BY <1>3, <1>13 DEF g, f, o

\* What lies in the slots that are not in use does not matter, nor does the
\* number of segments.
LEMMA OwnedSameFiles ==
  ASSUME NEW h, NEW r, NEW q, Owned(h, r),
         \A s \in Container : Live(h, s) => q[s] = r[s]
  PROVE  Owned(h, q)
BY DEF Owned

LEMMA OwnedSect ==
  ASSUME NEW h \in Header, NEW r, NEW c \in Chan, NEW n, Owned(h, r)
  PROVE  Owned([h EXCEPT !.sect[c] = n], r)
<1> DEFINE g == [h EXCEPT !.sect[c] = n]
<1>1. /\ g.recorded = h.recorded /\ g.file = h.file
      /\ g.offset = h.offset /\ g.full = h.full
  BY DEF Header
<1>2. \A s \in Container : Live(g, s) <=> Live(h, s)
  BY <1>1 DEF Live
<1>3. \A d \in Chan : Holds(g, d) <=> Holds(h, d)
  BY <1>1 DEF Holds
<1> HIDE DEF g
<1>4. Owned(g, r)
  BY <1>1, <1>2, <1>3 DEF Owned
<1> QED BY <1>4 DEF g
---------------------------------------------------------------------------
(* One write of those a copy waits for.                                     *)

LEMMA ApplyType ==
  ASSUME NEW d \in IndexFile, NEW w \in Writes
  PROVE  /\ Apply(d, w) \in IndexFile
         /\ Apply(d, w).ok = d.ok
         /\ w.kind # "hdr" => Apply(d, w).hdr = d.hdr
         /\ w.kind # "ring" => Apply(d, w).ring = d.ring
         /\ w.kind = "hdr" => Apply(d, w).hdr = w.val
         /\ w.kind = "ring" => Apply(d, w).ring = [d.ring EXCEPT ![w.at] = w.val]
<1>1. CASE w.kind = "seg"
  <2>1. w.at \in Container \X Sect /\ w.val \in Recording \cup {Blank}
    BY <1>1 DEF Writes
  <2>2. Apply(d, w) = [d EXCEPT !.seg[w.at] = w.val]
    BY <1>1 DEF Apply
  <2> QED BY <1>1, <2>1, <2>2 DEF IndexFile, Segs
<1>2. CASE w.kind = "ring"
  <2>1. w.at \in Container /\ w.val \in [file : Container, chn : Chan, sects : Sect]
    BY <1>2 DEF Writes
  <2>2. w.val \in [file : 0..Total, chn : 0..NumChan, sects : Sect]
    BY <2>1, IndexAssumption DEF Container, Chan
  <2>3. Apply(d, w) = [d EXCEPT !.ring[w.at] = w.val]
    BY <1>2 DEF Apply
  <2>4. [d.ring EXCEPT ![w.at] = w.val] \in Ring
    BY <2>1, <2>2 DEF IndexFile, Ring
  <2> QED BY <1>2, <2>3, <2>4 DEF IndexFile
<1>3. CASE w.kind = "hdr"
  <2>1. w.val \in Header
    BY <1>3 DEF Writes
  <2>2. Apply(d, w) = [d EXCEPT !.hdr = w.val]
    BY <1>3 DEF Apply
  <2> QED BY <1>3, <2>1, <2>2 DEF IndexFile
<1> QED BY <1>1, <1>2, <1>3 DEF Writes

LEMMA LeadsOn ==
  ASSUME NEW d \in IndexFile, NEW ws \in Seq(Writes), NEW h \in Header, NEW r \in Ring,
         ws # <<>>, Leads(d, ws, h, r)
  PROVE  Leads(Apply(d, Head(ws)), Tail(ws), h, r)
<1> DEFINE w == Head(ws)
           e == Apply(d, w)
           tl == Tail(ws)
<1>1. /\ w = ws[1] /\ 1 \in 1..Len(ws) /\ w \in Writes
      /\ tl \in Seq(Writes) /\ Len(ws) \in Nat /\ Len(tl) = Len(ws) - 1
      /\ \A i \in 1..Len(tl) : i + 1 \in 1..Len(ws) /\ tl[i] = ws[i + 1]
      /\ \A i \in 1..Len(ws) : i # 1 => i - 1 \in 1..Len(tl) /\ tl[i - 1] = ws[i]
  OBVIOUS
<1>2. /\ w.kind # "hdr" => e.hdr = d.hdr
      /\ w.kind # "ring" => e.ring = d.ring
      /\ w.kind = "hdr" => e.hdr = w.val
      /\ w.kind = "ring" => e.ring = [d.ring EXCEPT ![w.at] = w.val]
  BY <1>1, ApplyType
<1>3. w.kind \in {"seg", "ring", "hdr"}
  BY <1>1 DEF Writes
<1>4. d.ring \in Ring
  BY DEF IndexFile
<1> HIDE DEF w, e, tl
<1>4a. ASSUME NEW i \in 1..Len(tl), \A j \in 1..Len(tl) : tl[j].kind = "hdr" => j <= i
       PROVE  \A j \in 1..Len(ws) : ws[j].kind = "hdr" => j <= i + 1
  <2> SUFFICES ASSUME NEW j \in 1..Len(ws), ws[j].kind = "hdr" PROVE j <= i + 1
    OBVIOUS
  <2>1. CASE j = 1
    BY <1>1, <2>1
  <2>2. CASE j # 1
    <3>1. j - 1 \in 1..Len(tl) /\ tl[j - 1] = ws[j]
      BY <1>1, <2>2
    <3>2. j - 1 <= i
      BY <1>4a, <3>1
    <3> QED BY <1>1, <3>2
  <2> QED BY <2>1, <2>2
<1>5. CASE w.kind = "ring"
  <2>1. ~Live(d.hdr, w.at) /\ e.ring = r /\ e.hdr = d.hdr
    BY <1>1, <1>2, <1>5 DEF Leads
  <2>2. Counted(e.hdr) /\ Owned(e.hdr, e.ring)
    <3>1. \A s \in Container : Live(d.hdr, s) => e.ring[s] = d.ring[s]
      BY <1>2, <1>4, <1>5, <2>1 DEF Ring
    <3>2. Counted(d.hdr) /\ Owned(d.hdr, d.ring)
      BY DEF Leads
    <3> QED BY <2>1, <3>1, <3>2, OwnedSameFiles
  <2>3. \A i \in 1..Len(tl) : tl[i].kind # "ring"
    BY <1>1, <1>5 DEF Leads
  <2>4. \A i \in 1..Len(tl) : tl[i].kind = "hdr" => Counted(tl[i].val) /\ Owned(tl[i].val, r)
    BY <1>1 DEF Leads
  <2>5. (\A i \in 1..Len(tl) : tl[i].kind # "hdr") => SameSlots(e.hdr, h)
    BY <1>1, <1>5, <2>1 DEF Leads
  <2>6. ASSUME NEW i \in 1..Len(tl), tl[i].kind = "hdr",
               \A j \in 1..Len(tl) : tl[j].kind = "hdr" => j <= i
        PROVE  SameSlots(tl[i].val, h)
    <3>1. \A j \in 1..Len(ws) : ws[j].kind = "hdr" => j <= i + 1
      BY <1>4a, <2>6
    <3> QED BY <1>1, <2>6, <3>1 DEF Leads
  <2> QED BY <2>1, <2>2, <2>3, <2>4, <2>5, <2>6 DEF Leads, e, tl, w
<1>6. CASE w.kind = "hdr"
  <2>1. \A i \in 1..Len(ws) : ws[i].kind # "ring"
    BY <1>1, <1>6 DEF Leads
  <2>2. e.hdr = w.val /\ e.ring = r
    BY <1>2, <1>6, <2>1 DEF Leads
  <2>3. Counted(e.hdr) /\ Owned(e.hdr, e.ring)
    BY <1>1, <1>6, <2>2 DEF Leads
  <2>4. \A i \in 1..Len(tl) : tl[i].kind # "ring"
    BY <1>1, <2>1
  <2>5. \A i \in 1..Len(tl) : tl[i].kind = "hdr" => Counted(tl[i].val) /\ Owned(tl[i].val, r)
    BY <1>1 DEF Leads
  <2>6. ASSUME \A i \in 1..Len(tl) : tl[i].kind # "hdr"
        PROVE  SameSlots(e.hdr, h)
    <3>1. \A j \in 1..Len(ws) : ws[j].kind = "hdr" => j <= 1
      BY <1>1, <2>6
    <3> QED BY <1>1, <1>6, <2>2, <3>1 DEF Leads
  <2>7. ASSUME NEW i \in 1..Len(tl), tl[i].kind = "hdr",
               \A j \in 1..Len(tl) : tl[j].kind = "hdr" => j <= i
        PROVE  SameSlots(tl[i].val, h)
    <3>1. \A j \in 1..Len(ws) : ws[j].kind = "hdr" => j <= i + 1
      BY <1>4a, <2>7
    <3> QED BY <1>1, <2>7, <3>1 DEF Leads
  <2> QED BY <2>2, <2>3, <2>4, <2>5, <2>6, <2>7 DEF Leads, e, tl, w
<1>7. CASE w.kind = "seg"
  <2>1. e.hdr = d.hdr /\ e.ring = d.ring
    BY <1>2, <1>7
  <2>2. Counted(e.hdr) /\ Owned(e.hdr, e.ring)
    BY <2>1 DEF Leads
  <2>3. (\A i \in 1..Len(tl) : tl[i].kind # "ring") => e.ring = r
    <3>1. (\A i \in 1..Len(tl) : tl[i].kind # "ring")
            => \A j \in 1..Len(ws) : j # 1 => ws[j].kind # "ring"
      BY <1>1
    <3>2. ws[1].kind # "ring"
      BY <1>1, <1>7
    <3> QED BY <2>1, <3>1, <3>2 DEF Leads
  <2>4. ASSUME NEW i \in 1..Len(tl), tl[i].kind = "ring"
        PROVE  /\ ~Live(e.hdr, tl[i].at) /\ r = [e.ring EXCEPT ![tl[i].at] = tl[i].val]
               /\ \A j \in 1..Len(tl) : tl[j].kind = "ring" => j = i
               /\ \A j \in 1..Len(tl) : tl[j].kind = "hdr" => j > i
    <3>1. /\ ~Live(d.hdr, ws[i + 1].at)
          /\ r = [d.ring EXCEPT ![ws[i + 1].at] = ws[i + 1].val]
          /\ \A j \in 1..Len(ws) : ws[j].kind = "ring" => j = i + 1
          /\ \A j \in 1..Len(ws) : ws[j].kind = "hdr" => j > i + 1
      BY <1>1, <2>4 DEF Leads
    <3>2. \A j \in 1..Len(tl) : tl[j].kind = "ring" => j = i
      BY <1>1, <3>1
    <3>3. \A j \in 1..Len(tl) : tl[j].kind = "hdr" => j > i
      BY <1>1, <3>1
    <3> QED BY <1>1, <2>1, <3>1, <3>2, <3>3
  <2>5. \A i \in 1..Len(tl) : tl[i].kind = "hdr" => Counted(tl[i].val) /\ Owned(tl[i].val, r)
    BY <1>1 DEF Leads
  <2>6. (\A i \in 1..Len(tl) : tl[i].kind # "hdr") => SameSlots(e.hdr, h)
    BY <1>1, <1>7, <2>1 DEF Leads
  <2>7. ASSUME NEW i \in 1..Len(tl), tl[i].kind = "hdr",
               \A j \in 1..Len(tl) : tl[j].kind = "hdr" => j <= i
        PROVE  SameSlots(tl[i].val, h)
    <3>1. \A j \in 1..Len(ws) : ws[j].kind = "hdr" => j <= i + 1
      BY <1>4a, <2>7
    <3> QED BY <1>1, <2>7, <3>1 DEF Leads
  <2> QED BY <2>2, <2>3, <2>4, <2>5, <2>6, <2>7 DEF Leads, e, tl, w
<1> QED BY <1>3, <1>5, <1>6, <1>7
---------------------------------------------------------------------------
(* The writes an operation leaves.                                          *)

LEMMA SegFirst ==
  ASSUME NEW d, NEW ws \in Seq(Writes), NEW h, NEW r, NEW w \in Writes,
         w.kind = "seg", Leads(d, ws, h, r)
  PROVE  Leads(d, <<w>> \o ws, h, r)
<1> DEFINE vs == <<w>> \o ws
<1>1. /\ Len(vs) = Len(ws) + 1 /\ Len(ws) \in Nat
      /\ vs[1] = w
      /\ \A i \in 1..Len(vs) : i # 1 => i - 1 \in 1..Len(ws) /\ vs[i] = ws[i - 1]
      /\ \A i \in 1..Len(ws) : i + 1 \in 1..Len(vs) /\ vs[i + 1] = ws[i]
  OBVIOUS
<1>2. w.kind # "ring" /\ w.kind # "hdr"
  OBVIOUS
<1> HIDE DEF vs
<1>3. Counted(d.hdr) /\ Owned(d.hdr, d.ring)
  BY DEF Leads
<1>4. (\A i \in 1..Len(vs) : vs[i].kind # "ring") => d.ring = r
  <2>1. (\A i \in 1..Len(vs) : vs[i].kind # "ring") => \A i \in 1..Len(ws) : ws[i].kind # "ring"
    BY <1>1
  <2> QED BY <2>1 DEF Leads
<1>5. ASSUME NEW i \in 1..Len(vs), vs[i].kind = "ring"
      PROVE  /\ ~Live(d.hdr, vs[i].at) /\ r = [d.ring EXCEPT ![vs[i].at] = vs[i].val]
             /\ \A j \in 1..Len(vs) : vs[j].kind = "ring" => j = i
             /\ \A j \in 1..Len(vs) : vs[j].kind = "hdr" => j > i
  <2>1. i - 1 \in 1..Len(ws) /\ vs[i] = ws[i - 1]
    BY <1>1, <1>2, <1>5
  <2>2. /\ ~Live(d.hdr, vs[i].at) /\ r = [d.ring EXCEPT ![vs[i].at] = vs[i].val]
        /\ \A j \in 1..Len(ws) : ws[j].kind = "ring" => j = i - 1
        /\ \A j \in 1..Len(ws) : ws[j].kind = "hdr" => j > i - 1
    BY <1>5, <2>1 DEF Leads
  <2>3. ASSUME NEW j \in 1..Len(vs), j # 1
        PROVE  /\ vs[j].kind = "ring" => j = i
               /\ vs[j].kind = "hdr" => j > i
    BY <1>1, <2>2, <2>3
  <2> QED BY <1>1, <1>2, <2>2, <2>3
<1>6. \A i \in 1..Len(vs) : vs[i].kind = "hdr" => Counted(vs[i].val) /\ Owned(vs[i].val, r)
  BY <1>1, <1>2 DEF Leads
<1>7. (\A i \in 1..Len(vs) : vs[i].kind # "hdr") => SameSlots(d.hdr, h)
  <2>1. (\A i \in 1..Len(vs) : vs[i].kind # "hdr") => \A i \in 1..Len(ws) : ws[i].kind # "hdr"
    BY <1>1
  <2> QED BY <2>1 DEF Leads
<1>8. ASSUME NEW i \in 1..Len(vs), vs[i].kind = "hdr",
             \A j \in 1..Len(vs) : vs[j].kind = "hdr" => j <= i
      PROVE  SameSlots(vs[i].val, h)
  <2>1. i - 1 \in 1..Len(ws) /\ vs[i] = ws[i - 1]
    BY <1>1, <1>2, <1>8
  <2>2. \A j \in 1..Len(ws) : ws[j].kind = "hdr" => j <= i - 1
    BY <1>1, <1>8
  <2> QED BY <1>8, <2>1, <2>2 DEF Leads
<1> QED BY <1>3, <1>4, <1>5, <1>6, <1>7, <1>8 DEF Leads, vs

LEMMA ThenMore ==
  ASSUME NEW d, NEW ws \in Seq(Writes), NEW us \in Seq(Writes), NEW h, NEW g, NEW r,
         Leads(d, ws, h, r),
         \A i \in 1..Len(us) : us[i].kind # "ring",
         \A i \in 1..Len(us) : us[i].kind = "hdr"
           => Counted(us[i].val) /\ Owned(us[i].val, r) /\ SameSlots(us[i].val, g),
         (\A i \in 1..Len(us) : us[i].kind # "hdr") => SameSlots(h, g)
  PROVE  Leads(d, ws \o us, g, r)
<1> DEFINE vs == ws \o us
           n == Len(ws)
<1>1. /\ Len(vs) = n + Len(us) /\ n \in Nat /\ Len(us) \in Nat
      /\ \A i \in 1..Len(vs) : IF i <= n THEN i \in 1..n /\ vs[i] = ws[i]
                               ELSE i - n \in 1..Len(us) /\ vs[i] = us[i - n]
      /\ \A i \in 1..n : i \in 1..Len(vs) /\ vs[i] = ws[i]
      /\ \A i \in 1..Len(us) : i + n \in 1..Len(vs) /\ vs[i + n] = us[i]
  OBVIOUS
<1> HIDE DEF vs
<1>2. Counted(d.hdr) /\ Owned(d.hdr, d.ring)
  BY DEF Leads
<1>3. (\A i \in 1..Len(vs) : vs[i].kind # "ring") => d.ring = r
  <2>1. (\A i \in 1..Len(vs) : vs[i].kind # "ring") => \A i \in 1..n : ws[i].kind # "ring"
    BY <1>1
  <2> QED BY <2>1 DEF Leads
<1>4. ASSUME NEW i \in 1..Len(vs), vs[i].kind = "ring"
      PROVE  /\ ~Live(d.hdr, vs[i].at) /\ r = [d.ring EXCEPT ![vs[i].at] = vs[i].val]
             /\ \A j \in 1..Len(vs) : vs[j].kind = "ring" => j = i
             /\ \A j \in 1..Len(vs) : vs[j].kind = "hdr" => j > i
  <2>1. i <= n /\ i \in 1..n /\ vs[i] = ws[i]
    BY <1>1, <1>4
  <2>2. /\ ~Live(d.hdr, vs[i].at) /\ r = [d.ring EXCEPT ![vs[i].at] = vs[i].val]
        /\ \A j \in 1..n : ws[j].kind = "ring" => j = i
        /\ \A j \in 1..n : ws[j].kind = "hdr" => j > i
    BY <1>4, <2>1 DEF Leads
  <2>3. ASSUME NEW j \in 1..Len(vs), j <= n
        PROVE  /\ vs[j].kind = "ring" => j = i
               /\ vs[j].kind = "hdr" => j > i
    BY <1>1, <2>2, <2>3
  <2>4. ASSUME NEW j \in 1..Len(vs), ~(j <= n)
        PROVE  vs[j].kind # "ring" /\ j > i
    BY <1>1, <2>1, <2>4
  <2> QED BY <2>2, <2>3, <2>4
<1>5. ASSUME NEW i \in 1..Len(vs), vs[i].kind = "hdr"
      PROVE  Counted(vs[i].val) /\ Owned(vs[i].val, r)
  <2>1. CASE i <= n
    <3>1. i \in 1..n /\ vs[i] = ws[i]
      BY <1>1, <2>1
    <3> QED BY <1>5, <3>1 DEF Leads
  <2>2. CASE ~(i <= n)
    BY <1>1, <1>5, <2>2
  <2> QED BY <2>1, <2>2
<1>6. ASSUME \A i \in 1..Len(vs) : vs[i].kind # "hdr" PROVE SameSlots(d.hdr, g)
  <2>1. \A i \in 1..n : ws[i].kind # "hdr"
    BY <1>1, <1>6
  <2>2. \A i \in 1..Len(us) : us[i].kind # "hdr"
    BY <1>1, <1>6
  <2>3. SameSlots(d.hdr, h) /\ SameSlots(h, g)
    BY <2>1, <2>2 DEF Leads
  <2> QED BY <2>3 DEF SameSlots
<1>7. ASSUME NEW i \in 1..Len(vs), vs[i].kind = "hdr",
             \A j \in 1..Len(vs) : vs[j].kind = "hdr" => j <= i
      PROVE  SameSlots(vs[i].val, g)
  <2>1. CASE i <= n
    <3>1. i \in 1..n /\ vs[i] = ws[i]
      BY <1>1, <2>1
    <3>2. \A j \in 1..Len(us) : us[j].kind # "hdr"
      BY <1>1, <1>7, <2>1
    <3>3. \A j \in 1..n : ws[j].kind = "hdr" => j <= i
      BY <1>1, <1>7
    <3>4. SameSlots(ws[i].val, h)
      BY <1>7, <3>1, <3>3 DEF Leads
    <3> QED BY <3>1, <3>2, <3>4 DEF SameSlots
  <2>2. CASE ~(i <= n)
    BY <1>1, <1>7, <2>2
  <2> QED BY <2>1, <2>2
<1> QED BY <1>2, <1>3, <1>4, <1>5, <1>6, <1>7 DEF Leads, vs

LEMMA WriteTypes ==
  ASSUME NEW h \in Header, NEW c \in Chan
  PROVE  /\ HdrWrite(h) \in Writes
         /\ Holds(h, c) /\ h.full < Total => RingWrite(h, c) \in Writes
         /\ \A f \in Container, s \in Sect, v \in Recording \cup {Blank} :
              SegWrite(f, s, v) \in Writes /\ SegWrite(f, s, v).kind = "seg"
<1>1. HdrWrite(h) \in Writes
  BY DEF HdrWrite, Write, Writes
<1>2. ASSUME Holds(h, c), h.full < Total PROVE RingWrite(h, c) \in Writes
  <2>1. NextSlot(h) \in Container
    BY <1>2, NextSlotFree
  <2>2. h.file[c] \in Container /\ h.sect[c] \in Sect
    BY <1>2, IndexAssumption DEF Holds, Header, Container
  <2> QED BY <2>1, <2>2 DEF RingWrite, Entry, Write, Writes
<1>3. \A f \in Container, s \in Sect, v \in Recording \cup {Blank} :
        SegWrite(f, s, v) \in Writes /\ SegWrite(f, s, v).kind = "seg"
  BY DEF SegWrite, Write, Writes
<1> QED BY <1>1, <1>2, <1>3

LEMMA RingType ==
  ASSUME NEW h \in Header, NEW c \in Chan, ring \in Ring, Holds(h, c), h.full < Total
  PROVE  RingWith(h, c) \in Ring
<1>1. NextSlot(h) \in Container
  BY NextSlotFree
<1>2. Entry(h, c) \in [file : 0..Total, chn : 0..NumChan, sects : Sect]
  BY IndexAssumption DEF Entry, Header, Chan
<1> QED BY <1>1, <1>2 DEF RingWith, Ring

\* The entry of the ring, which is not in use, and the header that makes it so.
LEMMA SwitchLeads ==
  ASSUME NEW d, NEW c \in Chan, hdr \in Header, ring \in Ring,
         Holds(hdr, c), Counted(hdr), Owned(hdr, ring), Leads(d, <<>>, hdr, ring)
  PROVE  /\ Switched(hdr, c) \in Header /\ RingWith(hdr, c) \in Ring
         /\ Counted(Switched(hdr, c)) /\ Owned(Switched(hdr, c), RingWith(hdr, c))
         /\ SwitchWrites(hdr, c) \in Seq(Writes)
         /\ Leads(d, SwitchWrites(hdr, c), Switched(hdr, c), RingWith(hdr, c))
<1> DEFINE g == Switched(hdr, c)
           q == RingWith(hdr, c)
           ws == SwitchWrites(hdr, c)
<1>1. hdr.full < Total
  BY RoomInRing
<1>2. g \in Header /\ q \in Ring
  BY <1>1, HeaderTypes, RingType
<1>3. Counted(g) /\ Owned(g, q)
  BY <1>1, CountedAfter, OwnedSwitched DEF RingWith
<1>4. ws = <<RingWrite(hdr, c), HdrWrite(g)>>
  BY DEF SwitchWrites
<1>5. ws \in Seq(Writes) /\ Len(ws) = 2 /\ ws[1] = RingWrite(hdr, c) /\ ws[2] = HdrWrite(g)
  BY <1>1, <1>2, <1>4, WriteTypes
<1>6. /\ ws[1].kind = "ring" /\ ws[1].at = NextSlot(hdr) /\ ws[1].val = Entry(hdr, c)
      /\ ws[2].kind = "hdr" /\ ws[2].val = g
  BY <1>5 DEF RingWrite, HdrWrite, Write
<1>7. Counted(d.hdr) /\ Owned(d.hdr, d.ring) /\ d.ring = ring /\ SameSlots(d.hdr, hdr)
  BY DEF Leads
<1>8. ~Live(d.hdr, NextSlot(hdr)) /\ q = [d.ring EXCEPT ![NextSlot(hdr)] = Entry(hdr, c)]
  BY <1>1, <1>7, NextSlotFree DEF SameSlots, Live, RingWith
<1>9. SameSlots(g, g)
  BY DEF SameSlots
<1>10. \A i \in 1..Len(ws) : i = 1 \/ i = 2
  BY <1>5
<1> HIDE DEF g, q, ws
<1>11. Leads(d, ws, g, q)
  <2>1. /\ 1 \in 1..Len(ws) /\ ws[1].kind = "ring" /\ ws[1].kind # "hdr"
        /\ 2 \in 1..Len(ws) /\ ws[2].kind = "hdr" /\ ws[2].kind # "ring"
    BY <1>5, <1>6
  <2>2. \A i \in 1..Len(ws) : ws[i].kind = "ring" =>
          /\ ~Live(d.hdr, ws[i].at) /\ q = [d.ring EXCEPT ![ws[i].at] = ws[i].val]
          /\ \A j \in 1..Len(ws) : ws[j].kind = "ring" => j = i
          /\ \A j \in 1..Len(ws) : ws[j].kind = "hdr" => j > i
    BY <1>6, <1>8, <1>10, <2>1
  <2>3. \A i \in 1..Len(ws) : ws[i].kind = "hdr"
          => Counted(ws[i].val) /\ Owned(ws[i].val, q) /\ SameSlots(ws[i].val, g)
    BY <1>3, <1>6, <1>9, <1>10, <2>1
  <2> QED BY <1>7, <2>1, <2>2, <2>3 DEF Leads
<1> QED BY <1>2, <1>3, <1>5, <1>11 DEF g, q, ws

\* What After gives an operation that needs another container.
LEMMA AfterLeads ==
  ASSUME NEW c \in Chan, hdr \in Header, ring \in Ring,
         Counted(hdr), Owned(hdr, ring),
         NEW d, Leads(d, <<>>, hdr, ring)
  PROVE  /\ After(c).hdr \in Header /\ After(c).ring \in Ring
         /\ Counted(After(c).hdr) /\ Owned(After(c).hdr, After(c).ring)
         /\ ~Holds(After(c).hdr, c) /\ After(c).hdr.recorded = hdr.recorded
         /\ \A e \in Chan : e # c => After(c).hdr.file[e] = hdr.file[e]
         /\ After(c).writes \in Seq(Writes)
         /\ Leads(d, After(c).writes, After(c).hdr, After(c).ring)
<1>1. CASE Holds(hdr, c)
  <2>1. After(c) = [hdr |-> Switched(hdr, c), ring |-> RingWith(hdr, c),
                    writes |-> SwitchWrites(hdr, c)]
    BY <1>1 DEF After
  <2>2. /\ Switched(hdr, c).recorded = hdr.recorded
        /\ \A e \in Chan : e # c => Switched(hdr, c).file[e] = hdr.file[e]
    BY DEF Switched, Header
  <2>3. ~Holds(Switched(hdr, c), c)
    BY <1>1, CountedAfter
  <2> QED BY <1>1, <2>1, <2>2, <2>3, SwitchLeads
<1>2. CASE ~Holds(hdr, c)
  <2>1. After(c) = [hdr |-> hdr, ring |-> ring, writes |-> <<>>]
    BY <1>2 DEF After
  <2> QED BY <1>2, <2>1
<1> QED BY <1>1, <1>2
---------------------------------------------------------------------------
(* The invariant, action by action.                                         *)

LEMMA InitInv == Init => IInv
<1> SUFFICES ASSUME Init PROVE IInv
  OBVIOUS
<1> USE DEF Init
<1>1. Empty \in Header
  BY IndexAssumption DEF Empty, Header, Container, Sect, NoFile
<1>2. EmptyRing \in Ring
  BY IndexAssumption DEF EmptyRing, NoEntry, NoFile, Ring, Sect
<1>3. [p \in Container \X Sect |-> Blank] \in Segs
  BY DEF Segs
<1>4. copy \in [1..2 -> IndexFile]
  BY <1>1, <1>2, <1>3 DEF IndexFile
<1>5. TypeOK
  <2>1. todo \in Seq(Writes) /\ made \in 0..MaxRecs /\ crashes \in 0..MaxCrashes
    BY IndexAssumption
  <2>2. open \in [Chan -> Recording \cup {Blank}]
    OBVIOUS
  <2> QED BY <1>1, <1>2, <1>4, <2>1, <2>2 DEF TypeOK
<1>6. Counted(Empty)
  <2>1. Holders(Empty) = {}
    BY IndexAssumption DEF Holders, Holds, Empty, NoFile
  <2>2. Cardinality(Holders(Empty)) = 0
    BY <2>1, FS_EmptySet
  <2> QED BY <2>2 DEF Counted, Empty
<1>7. Owned(Empty, EmptyRing)
  <2>1. \A s \in Container : ~Live(Empty, s)
    BY IndexAssumption DEF Live, Empty, Wrap, Container
  <2>2. \A c \in Chan : ~Holds(Empty, c)
    BY IndexAssumption DEF Holds, Empty, NoFile
  <2>3. Empty.recorded = 0 /\ 0..0 - 1 = {}
    BY DEF Empty
  <2> QED BY <2>1, <2>2, <2>3 DEF Owned
<1>8. \A k \in 1..2 : copy[k].ok /\ copy[k].hdr = Empty /\ copy[k].ring = EmptyRing
  OBVIOUS
<1>9. \A k \in 1..2 : Leads(copy[k], Pending(k), hdr, ring)
  BY <1>6, <1>7, <1>8 DEF Pending, Leads, SameSlots
<1>10. AlwaysAValidCopy
  BY <1>8 DEF AlwaysAValidCopy
<1> QED BY <1>5, <1>6, <1>7, <1>8, <1>9, <1>10 DEF IInv

LEMMA IdleFacts ==
  ASSUME IInv, Idle
  PROVE  /\ phase = "up" /\ todo = <<>> /\ half = FALSE
         /\ hdr \in Header /\ ring \in Ring
         /\ Counted(hdr) /\ Owned(hdr, ring)
         /\ \A c \in Chan : open[c] # Blank => Holds(hdr, c)
         /\ \A k \in 1..2 : /\ copy[k] \in IndexFile /\ copy[k].ok
                            /\ Counted(copy[k].hdr) /\ Owned(copy[k].hdr, copy[k].ring)
                            /\ Leads(copy[k], <<>>, hdr, ring)
<1>1. phase = "up" /\ todo = <<>> /\ half = FALSE
  BY DEF IInv, Idle, TypeOK
<1>2. \A k \in 1..2 : Pending(k) = <<>>
  BY <1>1 DEF Pending
<1> QED BY <1>1, <1>2 DEF IInv, TypeOK

\* An operation of the writer leaves the copies as they are.
LEMMA OperationKeeps ==
  ASSUME IInv, Idle, phase' = phase, copy' = copy, half' = half,
         TypeOK', Counted(hdr'), Owned(hdr', ring'),
         \A c \in Chan : open'[c] # Blank => Holds(hdr', c),
         \A k \in 1..2 : Leads(copy[k], todo', hdr', ring')
  PROVE  IInv'
<1>1. /\ phase = "up" /\ half = FALSE
      /\ \A k \in 1..2 : copy[k].ok /\ Counted(copy[k].hdr) /\ Owned(copy[k].hdr, copy[k].ring)
  BY IdleFacts
<1>2. \A k \in 1..2 : Pending(k)' = todo'
  BY <1>1 DEF Pending
<1>3. AlwaysAValidCopy'
  BY <1>1 DEF AlwaysAValidCopy
<1> QED BY <1>1, <1>2, <1>3 DEF IInv

LEMMA OpensType ==
  ASSUME TypeOK, NEW c \in Chan, Opens(c)
  PROVE  /\ phase' = phase /\ copy' = copy /\ half' = half /\ Idle
         /\ open[c] = Blank
         /\ open' \in [Chan -> Recording \cup {Blank}]
         /\ \A e \in Chan : e # c => open'[e] = open[e]
         /\ made' \in 0..MaxRecs
         /\ half' \in BOOLEAN /\ same' \in BOOLEAN /\ crashes' \in 0..MaxCrashes
         /\ promise' \in Recording \cup {Blank} /\ phase' \in {"up", "down", "copying"}
         /\ copy' \in [1..2 -> IndexFile]
<1>1. made + 1 \in 1..MaxRecs /\ made + 1 \in 0..MaxRecs
  BY IndexAssumption DEF TypeOK, Opens
<1>2. <<c, made + 1>> \in Recording
  BY <1>1 DEF Recording
<1> QED BY <1>1, <1>2 DEF TypeOK, Opens

LEMMA ContinueKeeps ==
  ASSUME IInv, NEW c \in Chan, Continue(c)
  PROVE  IInv'
<1> USE DEF Continue
<1>1. TypeOK /\ Idle
  BY OpensType DEF IInv
<1>2. hdr' \in Header
  BY <1>1, HeaderTypes DEF TypeOK
<1>3. hdr.file[c] \in Container /\ hdr.sect[c] + 1 \in Sect
  <2>1. /\ hdr.file[c] \in 0..Total /\ hdr.file[c] < Total
        /\ hdr.sect[c] \in 0..MaxSect - 1 /\ hdr.sect[c] < MaxSect - 1
    BY <1>1 DEF TypeOK, Header, Holds, Sect
  <2> QED BY <2>1, IndexAssumption DEF Container, Sect
<1>4. /\ todo' \in Seq(Writes) /\ Len(todo') = 1
      /\ todo'[1].kind = "seg"
  <2>1. SegWrite(hdr.file[c], hdr.sect[c] + 1, Blank) \in Writes
        /\ SegWrite(hdr.file[c], hdr.sect[c] + 1, Blank).kind = "seg"
    BY <1>1, <1>3, WriteTypes DEF TypeOK
  <2> QED BY <2>1
<1>5. TypeOK'
  BY <1>1, <1>2, <1>4, OpensType DEF TypeOK
<1>6. hdr'.file = hdr.file /\ hdr'.full = hdr.full /\ hdr'.recorded = hdr.recorded /\ hdr'.offset = hdr.offset
  BY <1>1 DEF TypeOK, Header
<1>7. \A e \in Chan : Holds(hdr', e) <=> Holds(hdr, e)
  BY <1>6 DEF Holds
<1>8. Counted(hdr')
  <2>1. Holders(hdr') = Holders(hdr)
    BY <1>7 DEF Holders
  <2> QED BY <1>1, <1>6, <2>1, IdleFacts DEF Counted
<1>9. Owned(hdr', ring')
  BY <1>1, OwnedSect, IdleFacts
<1>10. \A e \in Chan : open'[e] # Blank => Holds(hdr', e)
  BY <1>1, <1>7, OpensType, IdleFacts
<1>11. ASSUME NEW k \in 1..2 PROVE Leads(copy[k], todo', hdr', ring')
  <2>1. Leads(copy[k], <<>>, hdr, ring) /\ <<>> \in Seq(Writes) /\ SameSlots(hdr, hdr')
    BY <1>1, <1>6, IdleFacts DEF SameSlots
  <2>2. \A i \in 1..Len(todo') : todo'[i].kind = "seg"
    BY <1>4
  <2>3. Leads(copy[k], <<>> \o todo', hdr', ring)
    BY <1>4, <2>1, <2>2, ThenMore
  <2> QED BY <1>4, <2>3
<1> QED BY <1>1, <1>5, <1>8, <1>9, <1>10, <1>11, OpensType, OperationKeeps

\* AfterLeads, for both copies of an idle index.
LEMMA AfterFacts ==
  ASSUME IInv, Idle, NEW c \in Chan
  PROVE  /\ After(c).hdr \in Header /\ After(c).ring \in Ring
         /\ Counted(After(c).hdr) /\ Owned(After(c).hdr, After(c).ring)
         /\ ~Holds(After(c).hdr, c) /\ After(c).hdr.recorded = hdr.recorded
         /\ \A e \in Chan : e # c => After(c).hdr.file[e] = hdr.file[e]
         /\ After(c).writes \in Seq(Writes)
         /\ \A k \in 1..2 : Leads(copy[k], After(c).writes, After(c).hdr, After(c).ring)
<1>1. Leads(copy[1], <<>>, hdr, ring) /\ Leads(copy[2], <<>>, hdr, ring)
  BY IdleFacts
<1>2. \A k \in 1..2 : k = 1 \/ k = 2
  OBVIOUS
<1> QED BY <1>1, <1>2, IdleFacts, AfterLeads

LEMMA AllocateKeeps ==
  ASSUME IInv, NEW c \in Chan, Allocate(c)
  PROVE  IInv'
<1> DEFINE a == After(c)
           f == a.hdr.recorded
           us == <<SegWrite(f, 0, Blank)>>
<1>1. TypeOK /\ Idle /\ Opens(c)
  BY OpensType DEF IInv, Allocate
<1>2. /\ a.hdr \in Header /\ a.ring \in Ring /\ Counted(a.hdr) /\ Owned(a.hdr, a.ring)
      /\ ~Holds(a.hdr, c) /\ a.writes \in Seq(Writes)
      /\ \A e \in Chan : e # c => a.hdr.file[e] = hdr.file[e]
      /\ \A k \in 1..2 : Leads(copy[k], a.writes, a.hdr, a.ring)
  BY <1>1, AfterFacts
<1>3. f < Total /\ hdr' = Allocated(a.hdr, c) /\ ring' = a.ring
  BY DEF Allocate
<1>4. f \in Container /\ 0 \in Sect
  BY <1>2, <1>3, IndexAssumption DEF Header, Container, Sect
<1> HIDE DEF a
<1>5. us \in Seq(Writes) /\ Len(us) = 1 /\ us[1].kind = "seg"
  <2>1. SegWrite(f, 0, Blank) \in Writes /\ SegWrite(f, 0, Blank).kind = "seg"
    BY <1>2, <1>4, WriteTypes
  <2> QED BY <2>1
<1>6. todo' = a.writes \o us /\ todo' \in Seq(Writes)
  <2>1. todo' = Append(a.writes, SegWrite(f, 0, Blank))
    BY DEF Allocate, a
  <2> HIDE DEF f
  <2> QED BY <1>2, <1>5, <2>1
<1>7. hdr' \in Header /\ Counted(hdr') /\ Owned(hdr', ring') /\ Holds(hdr', c)
  BY <1>2, <1>3, HeaderTypes, CountedAfter, OwnedAllocated
<1>8. TypeOK'
  <2>1. kept' = kept /\ covered' = covered /\ exposed' \subseteq exposed
    BY DEF Allocate
  <2> QED BY <1>1, <1>2, <1>3, <1>6, <1>7, <2>1, OpensType DEF TypeOK
<1>9. \A e \in Chan : open'[e] # Blank => Holds(hdr', e)
  <2> SUFFICES ASSUME NEW e \in Chan, open'[e] # Blank, e # c PROVE Holds(hdr', e)
    BY <1>7
  <2>1. Holds(hdr, e)
    BY <1>1, OpensType, IdleFacts
  <2>2. hdr'.file[e] = a.hdr.file[e]
    BY <1>2, <1>3 DEF Allocated, Header
  <2> QED BY <1>2, <2>1, <2>2 DEF Holds
<1>10. SameSlots(a.hdr, hdr')
  BY <1>2, <1>3 DEF SameSlots, Allocated, Header
<1>11. \A i \in 1..Len(us) : us[i].kind = "seg"
  BY <1>5
<1> HIDE DEF us
<1>12. \A k \in 1..2 : Leads(copy[k], todo', hdr', ring')
  BY <1>2, <1>3, <1>5, <1>6, <1>10, <1>11, ThenMore
<1> QED BY <1>1, <1>7, <1>8, <1>9, <1>12, OpensType, OperationKeeps

LEMMA CoverKeeps ==
  ASSUME IInv, NEW c \in Chan, Cover(c)
  PROVE  IInv'
<1> DEFINE a == After(c)
           f == a.ring[a.hdr.offset].file
           us == CoverWrites(hdr', f)
<1>1. TypeOK /\ Idle /\ Opens(c)
  BY OpensType DEF IInv, Cover
<1>2. /\ a.hdr \in Header /\ a.ring \in Ring /\ Counted(a.hdr) /\ Owned(a.hdr, a.ring)
      /\ ~Holds(a.hdr, c) /\ a.writes \in Seq(Writes)
      /\ \A e \in Chan : e # c => a.hdr.file[e] = hdr.file[e]
      /\ \A k \in 1..2 : Leads(copy[k], a.writes, a.hdr, a.ring)
  BY <1>1, AfterFacts
<1>3. /\ a.hdr.recorded = Total /\ hdr' = Covering(a.hdr, c, f) /\ ring' = a.ring
      /\ todo' = a.writes \o us
  BY DEF Cover
<1> HIDE DEF a
<1>4. a.hdr.full > 0
  BY <1>2, <1>3, RoomInRing
<1>5. f \in Container /\ Owned(hdr', ring') /\ 0 \in Sect
  <2>1. f \in Container /\ Owned(Covering(a.hdr, c, f), a.ring)
    BY <1>2, <1>4, OwnedCovering
  <2>2. 0 \in Sect
    BY IndexAssumption DEF Sect
  <2> QED BY <1>3, <2>1, <2>2
<1>6. hdr' \in Header /\ Counted(hdr') /\ Holds(hdr', c)
  BY <1>2, <1>3, <1>4, <1>5, HeaderTypes, CountedAfter
<1> HIDE DEF f
<1>7. us \in Seq(Writes) /\ Len(us) = 2 /\ us[1] = HdrWrite(hdr') /\ us[2].kind = "seg"
  <2>1. SegWrite(f, 0, Blank) \in Writes /\ SegWrite(f, 0, Blank).kind = "seg"
    BY <1>5, <1>6, WriteTypes
  <2>2. HdrWrite(hdr') \in Writes
    BY <1>6, WriteTypes
  <2> QED BY <2>1, <2>2 DEF CoverWrites
<1>8. todo' \in Seq(Writes)
  BY <1>2, <1>3, <1>7
<1>9. TypeOK'
  <2>1. kept' \subseteq kept /\ covered' \subseteq covered \cup kept /\ exposed' \subseteq exposed
    BY DEF Cover
  <2> QED BY <1>1, <1>2, <1>3, <1>6, <1>8, <2>1, OpensType DEF TypeOK
<1>10. \A e \in Chan : open'[e] # Blank => Holds(hdr', e)
  <2> SUFFICES ASSUME NEW e \in Chan, open'[e] # Blank, e # c PROVE Holds(hdr', e)
    BY <1>6
  <2>1. Holds(hdr, e)
    BY <1>1, OpensType, IdleFacts
  <2>2. hdr'.file[e] = a.hdr.file[e]
    BY <1>2, <1>3 DEF Covering, Header
  <2> QED BY <1>2, <2>1, <2>2 DEF Holds
<1>11. us[1].kind = "hdr" /\ us[1].val = hdr' /\ SameSlots(hdr', hdr')
  BY <1>7 DEF HdrWrite, Write, SameSlots
<1>12. /\ \A i \in 1..Len(us) : us[i].kind # "ring"
       /\ \A i \in 1..Len(us) : us[i].kind = "hdr"
            => Counted(us[i].val) /\ Owned(us[i].val, ring') /\ SameSlots(us[i].val, hdr')
       /\ 1 \in 1..Len(us)
  <2>1. \A i \in 1..Len(us) : i = 1 \/ i = 2
    BY <1>7
  <2> HIDE DEF us
  <2> QED BY <1>5, <1>6, <1>7, <1>11, <2>1
<1> HIDE DEF us
<1>13. \A k \in 1..2 : Leads(copy[k], todo', hdr', ring')
  BY <1>2, <1>3, <1>7, <1>11, <1>12, ThenMore
<1> QED BY <1>1, <1>5, <1>6, <1>9, <1>10, <1>13, OpensType, OperationKeeps

LEMMA NoSpaceKeeps ==
  ASSUME IInv, NEW c \in Chan, NoSpace(c)
  PROVE  IInv'
<1> DEFINE a == After(c)
<1>1. TypeOK /\ Idle /\ open[c] = Blank
  BY DEF IInv, NoSpace
<1>2. /\ a.hdr \in Header /\ a.ring \in Ring /\ Counted(a.hdr) /\ Owned(a.hdr, a.ring)
      /\ a.writes \in Seq(Writes)
      /\ \A e \in Chan : e # c => a.hdr.file[e] = hdr.file[e]
      /\ \A k \in 1..2 : Leads(copy[k], a.writes, a.hdr, a.ring)
  BY <1>1, AfterFacts
<1>3. /\ hdr' = a.hdr /\ ring' = a.ring /\ todo' = a.writes
      /\ UNCHANGED <<phase, copy, half, same, open, made, crashes, ghosts>>
  BY DEF NoSpace
<1> HIDE DEF a
<1>4. TypeOK'
  BY <1>1, <1>2, <1>3 DEF TypeOK, ghosts
<1>5. \A e \in Chan : open'[e] # Blank => Holds(hdr', e)
  BY <1>1, <1>2, <1>3, IdleFacts DEF Holds
<1> QED BY <1>1, <1>2, <1>3, <1>4, <1>5, OperationKeeps

\* What an update writes before it changes anything else.
LEMMA UpdateSegment ==
  ASSUME IInv, Idle, NEW c \in Chan, open[c] # Blank
  PROVE  /\ SegWrite(hdr.file[c], hdr.sect[c], open[c]) \in Writes
         /\ SegWrite(hdr.file[c], hdr.sect[c], open[c]).kind = "seg"
<1>1. Holds(hdr, c) /\ hdr \in Header
  BY IdleFacts
<1>2. hdr.file[c] \in Container /\ hdr.sect[c] \in Sect
  BY <1>1, IndexAssumption DEF Holds, Header, Container
<1>3. open[c] \in Recording \cup {Blank}
  BY DEF IInv, TypeOK
<1> QED BY <1>1, <1>2, <1>3, WriteTypes

\* KeepWrites, the container staying that of the channel.
LEMMA KeepWritesLead ==
  ASSUME IInv, Idle, NEW c \in Chan, open[c] # Blank
  PROVE  /\ KeepWrites(c) \in Seq(Writes)
         /\ \A k \in 1..2 : Leads(copy[k], KeepWrites(c), hdr, ring)
<1> DEFINE us == KeepWrites(c)
<1>1. us \in Seq(Writes) /\ Len(us) = 2 /\ us[1].kind = "seg" /\ us[2] = HdrWrite(hdr)
  BY UpdateSegment, WriteTypes, IdleFacts DEF KeepWrites
<1>2. us[2].kind = "hdr" /\ us[2].val = hdr /\ SameSlots(hdr, hdr)
  BY <1>1 DEF HdrWrite, Write, SameSlots
<1>3. \A i \in 1..Len(us) : i = 1 \/ i = 2
  BY <1>1
<1> HIDE DEF us
<1>4. /\ \A i \in 1..Len(us) : us[i].kind # "ring"
      /\ \A i \in 1..Len(us) : us[i].kind = "hdr"
           => Counted(us[i].val) /\ Owned(us[i].val, ring) /\ SameSlots(us[i].val, hdr)
      /\ 2 \in 1..Len(us)
  BY <1>1, <1>2, <1>3, IdleFacts
<1>5. ASSUME NEW k \in 1..2 PROVE Leads(copy[k], us, hdr, ring)
  <2>1. Leads(copy[k], <<>>, hdr, ring)
    BY IdleFacts
  <2>2. Leads(copy[k], <<>> \o us, hdr, ring)
    <3>1. <<>> \in Seq(Writes) /\ us[2].kind = "hdr"
      BY <1>2
    <3>2. ~ \A i \in 1..Len(us) : us[i].kind # "hdr"
      BY <1>4, <3>1
    <3> QED BY <1>1, <1>4, <2>1, <3>1, <3>2, ThenMore
  <2>3. <<>> \o us = us
    BY <1>1
  <2> QED BY <2>2, <2>3
<1> QED BY <1>1, <1>5 DEF us

LEMMA UpdateKeeps ==
  ASSUME IInv, NEW c \in Chan, Update(c)
  PROVE  IInv'
<1>1. /\ TypeOK /\ Idle /\ open[c] # Blank /\ promise' = open[c]
      /\ UNCHANGED <<phase, copy, half, same, made, crashes, kept, covered, exposed>>
  BY DEF IInv, Update
<1>2. Holds(hdr, c)
  BY <1>1, IdleFacts
<1>3. promise' \in Recording \cup {Blank}
  BY <1>1 DEF TypeOK
<1>4. CASE /\ todo' = KeepWrites(c) /\ UNCHANGED memory
           /\ \/ open' = open
              \/ open' = [open EXCEPT ![c] = Blank]
  <2>1. todo' \in Seq(Writes) /\ \A k \in 1..2 : Leads(copy[k], todo', hdr', ring')
    BY <1>1, <1>4, KeepWritesLead DEF memory
  <2>2. open' \in [Chan -> Recording \cup {Blank}]
        /\ \A e \in Chan : open'[e] # Blank => open[e] # Blank
    BY <1>1, <1>4 DEF TypeOK
  <2>3. TypeOK'
    BY <1>1, <1>3, <1>4, <2>1, <2>2 DEF TypeOK, memory
  <2>4. Counted(hdr') /\ Owned(hdr', ring') /\ \A e \in Chan : open'[e] # Blank => Holds(hdr', e)
    BY <1>1, <1>4, <2>2, IdleFacts DEF memory
  <2> QED BY <1>1, <2>1, <2>3, <2>4, OperationKeeps
<1>5. CASE /\ hdr' = Switched(hdr, c) /\ ring' = RingWith(hdr, c)
           /\ todo' = FullWrites(c)
           /\ open' = [open EXCEPT ![c] = Blank]
  <2>1. \A k \in 1..2 : Leads(copy[k], <<>>, hdr, ring)
    BY <1>1, IdleFacts
  <2>2. /\ hdr' \in Header /\ ring' \in Ring /\ Counted(hdr') /\ Owned(hdr', ring')
        /\ SwitchWrites(hdr, c) \in Seq(Writes)
    <3>1. Leads(copy[1], <<>>, hdr, ring)
      BY <2>1
    <3> QED BY <1>1, <1>2, <1>5, <3>1, IdleFacts, SwitchLeads
  <2>3. \A k \in 1..2 : Leads(copy[k], SwitchWrites(hdr, c), hdr', ring')
    <3> SUFFICES ASSUME NEW k \in 1..2
                 PROVE  Leads(copy[k], SwitchWrites(hdr, c), hdr', ring')
      OBVIOUS
    <3>1. Leads(copy[k], <<>>, hdr, ring)
      BY <2>1
    <3> QED BY <1>1, <1>2, <1>5, <3>1, IdleFacts, SwitchLeads
  <2>4. \A k \in 1..2 : Leads(copy[k], todo', hdr', ring')
    BY <1>1, <1>5, <2>2, <2>3, UpdateSegment, SegFirst DEF FullWrites
  <2>5. todo' \in Seq(Writes)
    <3>1. <<SegWrite(hdr.file[c], hdr.sect[c], open[c])>> \in Seq(Writes)
      BY <1>1, UpdateSegment
    <3> QED BY <1>5, <2>2, <3>1 DEF FullWrites
  <2>6. open' \in [Chan -> Recording \cup {Blank}]
        /\ \A e \in Chan : open'[e] # Blank => open[e] # Blank /\ e # c
    BY <1>1, <1>5 DEF TypeOK
  <2>7. TypeOK'
    BY <1>1, <1>3, <2>2, <2>5, <2>6 DEF TypeOK
  <2>8. \A e \in Chan : e # c => hdr'.file[e] = hdr.file[e]
    BY <1>1, <1>5 DEF Switched, Header, TypeOK
  <2>9. \A e \in Chan : open'[e] # Blank => Holds(hdr', e)
    BY <1>1, <2>6, <2>8, IdleFacts DEF Holds
  <2> QED BY <1>1, <2>2, <2>4, <2>7, <2>9, OperationKeeps
<1> QED BY <1>4, <1>5 DEF Update, memory

LEMMA AbandonKeeps ==
  ASSUME IInv, NEW c \in Chan, Abandon(c)
  PROVE  IInv'
<1>1. /\ TypeOK /\ Idle /\ open' = [open EXCEPT ![c] = Blank]
      /\ UNCHANGED <<phase, memory, disk, made, crashes, ghosts>>
  BY DEF IInv, Abandon
<1>2. open' \in [Chan -> Recording \cup {Blank}]
      /\ \A e \in Chan : open'[e] # Blank => open[e] # Blank
  BY <1>1 DEF TypeOK
<1>3. TypeOK'
  BY <1>1, <1>2 DEF TypeOK, memory, disk, ghosts
<1>4. \A e \in Chan : open'[e] # Blank => Holds(hdr', e)
  BY <1>1, <1>2, IdleFacts DEF memory
<1>5. /\ todo' = <<>> /\ Counted(hdr') /\ Owned(hdr', ring')
      /\ \A k \in 1..2 : Leads(copy[k], todo', hdr', ring')
  BY <1>1, IdleFacts DEF memory, disk
<1> QED BY <1>1, <1>3, <1>4, <1>5, OperationKeeps DEF disk
---------------------------------------------------------------------------
(* The writes, a crash and the start after it.                              *)

LEMMA WriteFirstKeeps ==
  ASSUME IInv, WriteFirst
  PROVE  IInv'
<1> DEFINE w == Head(todo)
<1>1. /\ TypeOK /\ phase = "up" /\ todo # <<>> /\ half = FALSE /\ half' = TRUE
      /\ copy' = [copy EXCEPT ![1] = Apply(@, w)]
      /\ same' = (same /\ w.kind # "hdr")
      /\ UNCHANGED <<phase, hdr, ring, todo, open, made, crashes, promise, kept, covered, exposed>>
  BY DEF IInv, TypeOK, WriteFirst, memory, ghosts
<1>2. w \in Writes /\ copy[1] \in IndexFile /\ copy[2] \in IndexFile
  BY <1>1 DEF TypeOK
<1> HIDE DEF w
<1>3. copy'[1] = Apply(copy[1], w) /\ copy'[2] = copy[2]
  BY <1>1 DEF TypeOK
<1>4. Apply(copy[1], w) \in IndexFile /\ Apply(copy[1], w).ok = copy[1].ok
  BY <1>2, ApplyType
<1>5. TypeOK'
  <2>1. same' \in BOOLEAN
    BY <1>1
  <2>2. copy' \in [1..2 -> IndexFile]
    BY <1>1, <1>4 DEF TypeOK
  <2> QED BY <1>1, <2>1, <2>2 DEF TypeOK
<1>6. /\ Leads(copy[1], todo, hdr, ring) /\ Leads(copy[2], todo, hdr, ring)
      /\ copy[1].ok /\ copy[2].ok
  <2>1. Pending(1) = todo /\ Pending(2) = todo
    BY <1>1 DEF Pending
  <2> QED BY <1>1, <2>1 DEF IInv
<1>7. Leads(copy'[1], Tail(todo), hdr, ring)
  BY <1>1, <1>2, <1>3, <1>6, LeadsOn DEF TypeOK, w
<1>8. \A k \in 1..2 : (copy[k].ok)' /\ Leads(copy[k], Pending(k), hdr, ring)'
  <2>1. Pending(1)' = Tail(todo) /\ Pending(2)' = todo
    BY <1>1 DEF Pending
  <2>2. copy'[1].ok /\ copy'[2].ok
    BY <1>3, <1>4, <1>6
  <2>3. Leads(copy'[1], Pending(1)', hdr', ring') /\ Leads(copy'[2], Pending(2)', hdr', ring')
    BY <1>1, <1>3, <1>6, <1>7, <2>1
  <2>4. \A k \in 1..2 : k = 1 \/ k = 2
    OBVIOUS
  <2> QED BY <2>2, <2>3, <2>4
<1>9. \A k \in 1..2 : Counted(copy'[k].hdr) /\ Owned(copy'[k].hdr, copy'[k].ring)
  BY <1>8 DEF Leads
<1>10. /\ Counted(hdr') /\ Owned(hdr', ring')
       /\ \A c \in Chan : open'[c] # Blank => Holds(hdr', c)
  BY <1>1 DEF IInv
<1> QED BY <1>1, <1>5, <1>8, <1>9, <1>10 DEF IInv, AlwaysAValidCopy

LEMMA WriteSecondKeeps ==
  ASSUME IInv, WriteSecond
  PROVE  IInv'
<1> DEFINE w == Head(todo)
<1>1. /\ TypeOK /\ phase = "up" /\ todo # <<>> /\ half = TRUE /\ half' = FALSE
      /\ copy' = [copy EXCEPT ![2] = Apply(@, w)]
      /\ todo' = Tail(todo)
      /\ same' = (same \/ w.kind = "hdr")
      /\ UNCHANGED <<phase, hdr, ring, open, made, crashes, covered, exposed>>
  BY DEF IInv, TypeOK, WriteSecond, memory
<1>2. w \in Writes /\ copy[1] \in IndexFile /\ copy[2] \in IndexFile /\ todo' \in Seq(Writes)
  BY <1>1 DEF TypeOK
<1>3. kept' \subseteq Recording /\ promise' \in Recording \cup {Blank}
  BY <1>1 DEF WriteSecond, TypeOK
<1> HIDE DEF w
<1>4. copy'[2] = Apply(copy[2], w) /\ copy'[1] = copy[1]
  BY <1>1 DEF TypeOK
<1>5. Apply(copy[2], w) \in IndexFile /\ Apply(copy[2], w).ok = copy[2].ok
  BY <1>2, ApplyType
<1>6. TypeOK'
  <2>1. same' \in BOOLEAN
    BY <1>1 DEF TypeOK
  <2>2. copy' \in [1..2 -> IndexFile]
    BY <1>1, <1>5 DEF TypeOK
  <2> QED BY <1>1, <1>2, <1>3, <2>1, <2>2 DEF TypeOK
<1>7. /\ Leads(copy[1], Tail(todo), hdr, ring) /\ Leads(copy[2], todo, hdr, ring)
      /\ copy[1].ok /\ copy[2].ok
  <2>1. Pending(1) = Tail(todo) /\ Pending(2) = todo
    BY <1>1 DEF Pending
  <2>2. \A k \in 1..2 : copy[k].ok /\ Leads(copy[k], Pending(k), hdr, ring)
    BY <1>1 DEF IInv
  <2>3. 1 \in 1..2 /\ 2 \in 1..2
    OBVIOUS
  <2> QED BY <2>1, <2>2, <2>3, Zenon
<1>8. Leads(copy'[2], Tail(todo), hdr, ring)
  BY <1>1, <1>2, <1>4, <1>7, LeadsOn DEF TypeOK, w
<1>9. \A k \in 1..2 : (copy[k].ok)' /\ Leads(copy[k], Pending(k), hdr, ring)'
  <2>1. Pending(1)' = Tail(todo) /\ Pending(2)' = Tail(todo)
    BY <1>1 DEF Pending
  <2>2. copy'[1].ok /\ copy'[2].ok
    BY <1>4, <1>5, <1>7
  <2>3. Leads(copy'[1], Pending(1)', hdr', ring') /\ Leads(copy'[2], Pending(2)', hdr', ring')
    BY <1>1, <1>4, <1>7, <1>8, <2>1
  <2>4. \A k \in 1..2 : k = 1 \/ k = 2
    OBVIOUS
  <2> QED BY <2>2, <2>3, <2>4
<1>10. \A k \in 1..2 : Counted(copy'[k].hdr) /\ Owned(copy'[k].hdr, copy'[k].ring)
  BY <1>9 DEF Leads
<1>11. /\ Counted(hdr') /\ Owned(hdr', ring')
       /\ \A c \in Chan : open'[c] # Blank => Holds(hdr', c)
  BY <1>1 DEF IInv
<1> QED BY <1>1, <1>6, <1>9, <1>10, <1>11 DEF IInv, AlwaysAValidCopy

LEMMA EmptyTypes ==
  /\ Empty \in Header /\ EmptyRing \in Ring
  /\ [c \in Chan |-> Blank] \in [Chan -> Recording \cup {Blank}]
  /\ <<>> \in Seq(Writes)
BY IndexAssumption
   DEF Empty, Header, Container, Sect, NoFile, EmptyRing, NoEntry, Ring

\* CutShort are containers.
LEMMA CutShortType ==
  ASSUME TypeOK
  PROVE  CutShort \subseteq Container
<1> SUFFICES ASSUME NEW i \in 1..Len(todo), todo[i].kind = "seg"
             PROVE  todo[i].at[1] \in Container
  BY DEF CutShort
<1>1. todo[i] \in Writes
  BY DEF TypeOK
<1>2. todo[i].at \in Container \X Sect
  BY <1>1 DEF Writes
<1> QED BY <1>2

LEMMA CrashKeeps ==
  ASSUME IInv, Crash
  PROVE  IInv'
<1>1. /\ TypeOK /\ phase = "up" /\ phase' = "down"
      /\ hdr' = Empty /\ ring' = EmptyRing /\ todo' = <<>> /\ half' = FALSE
      /\ open' = [c \in Chan |-> Blank] /\ promise' = Blank
      /\ exposed' \subseteq exposed \cup CutShort
      /\ made' = made /\ kept' = kept /\ covered' = covered
      /\ crashes' = crashes + 1 /\ crashes < MaxCrashes
  BY DEF IInv, Crash, Down
<1>2. crashes' \in 0..MaxCrashes
  BY <1>1, IndexAssumption DEF TypeOK
<1>3. /\ copy' \in [1..2 -> IndexFile] /\ same' \in BOOLEAN
      /\ \A k \in 1..2 : copy'[k].hdr = copy[k].hdr /\ copy'[k].ring = copy[k].ring
                         /\ (copy'[k].ok => copy[k].ok)
      /\ \E k \in 1..2 : copy'[k].ok
  <2>0. \A k \in 1..2 : copy[k].ok /\ copy[k] \in IndexFile
    BY <1>1 DEF IInv, TypeOK
  <2>1. CASE UNCHANGED <<copy, same>>
    BY <1>1, <2>0, <2>1 DEF TypeOK
  <2>2. CASE /\ copy' = [k \in 1..2 |-> IF k \in Unsynced THEN [copy[k] EXCEPT !.ok = FALSE]
                                                        ELSE copy[k]]
             /\ same' = FALSE
    <3>1. \E k \in 1..2 : k \notin Unsynced
      BY DEF Unsynced
    <3>2. \A k \in 1..2 : [copy[k] EXCEPT !.ok = FALSE] \in IndexFile
      BY <2>0 DEF IndexFile
    <3>3. copy' \in [1..2 -> IndexFile]
      BY <2>0, <2>2, <3>2
    <3>4. \A k \in 1..2 : copy'[k].hdr = copy[k].hdr /\ copy'[k].ring = copy[k].ring
      BY <2>0, <2>2 DEF IndexFile
    <3>5. \E k \in 1..2 : copy'[k].ok
      BY <2>0, <2>2, <3>1
    <3> QED BY <2>0, <2>2, <3>3, <3>4, <3>5
  <2> QED BY <2>1, <2>2 DEF Crash
<1>4. TypeOK'
  BY <1>1, <1>2, <1>3, EmptyTypes, CutShortType DEF TypeOK
<1> QED BY <1>1, <1>3, <1>4 DEF IInv, AlwaysAValidCopy

LEMMA CrashInInitKeeps ==
  ASSUME IInv, CrashInInit
  PROVE  IInv'
<1>1. /\ TypeOK /\ phase' = "down"
      /\ hdr' = Empty /\ ring' = EmptyRing /\ todo' = <<>> /\ half' = FALSE
      /\ open' = [c \in Chan |-> Blank] /\ promise' = Blank
      /\ exposed' \subseteq exposed \cup CutShort
      /\ made' = made /\ kept' = kept /\ covered' = covered /\ crashes' = crashes
      /\ copy' = copy /\ same' = FALSE
  BY DEF IInv, CrashInInit, Down
<1>2. TypeOK'
  BY <1>1, EmptyTypes, CutShortType DEF TypeOK
<1> QED BY <1>1, <1>2 DEF IInv, AlwaysAValidCopy

LEMMA StartCopyKeeps ==
  ASSUME IInv, StartCopy
  PROVE  IInv'
<1>1. /\ TypeOK /\ phase = "down" /\ phase' = "copying" /\ copy[Source].ok
      /\ copy' = HeadCopied
      /\ UNCHANGED <<hdr, ring, todo, half, same, open, made, crashes,
                     promise, kept, covered, exposed>>
  BY DEF IInv, StartCopy, memory, ghosts
<1>2. Source \in 1..2 /\ Target \in 1..2 /\ Source # Target
  BY DEF Source, Target
<1>3. /\ copy' \in [1..2 -> IndexFile]
      /\ copy'[Source] = copy[Source] /\ ~copy'[Target].ok
  <2>1. copy[Source] \in IndexFile /\ copy[Target] \in IndexFile
    BY <1>1, <1>2 DEF TypeOK
  <2>2. copy' = [copy EXCEPT ![Target] = [copy[Target] EXCEPT !.hdr = copy[Source].hdr, !.ok = FALSE]]
    BY <1>1, <1>2 DEF HeadCopied, TypeOK
  <2>3. [copy[Target] EXCEPT !.hdr = copy[Source].hdr, !.ok = FALSE] \in IndexFile
    BY <2>1 DEF IndexFile
  <2> QED BY <1>1, <1>2, <2>1, <2>2, <2>3 DEF TypeOK, IndexFile
<1>4. TypeOK'
  BY <1>1, <1>3 DEF TypeOK
<1>5. \A k \in 1..2 : k = Source \/ k = Target
  BY DEF Source, Target
<1>6. \A k \in 1..2 : copy'[k].ok => Counted(copy'[k].hdr) /\ Owned(copy'[k].hdr, copy'[k].ring)
  BY <1>1, <1>2, <1>3, <1>5 DEF IInv
<1>7. AlwaysAValidCopy'
  BY <1>1, <1>2, <1>3 DEF AlwaysAValidCopy
<1> QED BY <1>1, <1>4, <1>6, <1>7 DEF IInv

LEMMA FinishCopyKeeps ==
  ASSUME IInv, FinishCopy
  PROVE  IInv'
<1> DEFINE d == Copied(Target, Source)
<1>1. /\ TypeOK /\ phase = "copying" /\ phase' = "up" /\ todo = <<>> /\ half = FALSE
      /\ copy' = [copy EXCEPT ![Target] = d]
      /\ hdr' = copy[Source].hdr /\ ring' = copy[Source].ring /\ same' = TRUE
      /\ UNCHANGED <<todo, half, open, made, crashes, promise, kept, covered, exposed>>
      /\ \A c \in Chan : open[c] = Blank
  BY DEF IInv, FinishCopy, ghosts
<1>2. Source \in 1..2 /\ Target \in 1..2 /\ Source # Target /\ \A k \in 1..2 : k = Source \/ k = Target
  BY DEF Source, Target
<1>3. copy[Source].ok /\ Counted(hdr') /\ Owned(hdr', ring')
  <2>1. copy[Source].ok
    BY DEF IInv, AlwaysAValidCopy, Source
  <2> QED BY <1>1, <1>2, <2>1 DEF IInv
<1>4. /\ d \in IndexFile /\ d.ok = copy[Source].ok
      /\ d.hdr = copy[Source].hdr /\ d.ring = copy[Source].ring
  <2>1. copy[Source] \in IndexFile /\ copy[Target] \in IndexFile
    BY <1>1, <1>2 DEF TypeOK
  <2> QED BY <2>1 DEF Copied, IndexFile
<1> HIDE DEF d
<1>5. /\ copy' \in [1..2 -> IndexFile]
      /\ \A k \in 1..2 : copy'[k].ok /\ copy'[k].hdr = hdr' /\ copy'[k].ring = ring'
  BY <1>1, <1>2, <1>3, <1>4 DEF TypeOK
<1>6. TypeOK'
  <2>1. hdr' \in Header /\ ring' \in Ring
    BY <1>1, <1>2 DEF TypeOK, IndexFile
  <2> QED BY <1>1, <1>5, <2>1 DEF TypeOK
<1>7. \A k \in 1..2 : Leads(copy[k], Pending(k), hdr, ring)'
  <2>1. \A k \in 1..2 : Pending(k)' = <<>>
    BY <1>1 DEF Pending
  <2>2. SameSlots(hdr', hdr')
    BY DEF SameSlots
  <2>3. \A k \in 1..2 : Leads(copy'[k], <<>>, hdr', ring')
    BY <1>3, <1>5, <2>2 DEF Leads
  <2> QED BY <2>1, <2>3
<1> QED BY <1>1, <1>3, <1>5, <1>6, <1>7 DEF IInv, AlwaysAValidCopy

LEMMA NextInv == IInv /\ [Next]_vars => IInv'
<1> SUFFICES ASSUME IInv, [Next]_vars PROVE IInv'
  OBVIOUS
<1>1. ASSUME NEW c \in Chan, Continue(c) PROVE IInv'
  BY <1>1, ContinueKeeps
<1>2. ASSUME NEW c \in Chan, Allocate(c) PROVE IInv'
  BY <1>2, AllocateKeeps
<1>3. ASSUME NEW c \in Chan, Cover(c) PROVE IInv'
  BY <1>3, CoverKeeps
<1>4. ASSUME NEW c \in Chan, NoSpace(c) PROVE IInv'
  BY <1>4, NoSpaceKeeps
<1>5. ASSUME NEW c \in Chan, Update(c) PROVE IInv'
  BY <1>5, UpdateKeeps
<1>6. ASSUME NEW c \in Chan, Abandon(c) PROVE IInv'
  BY <1>6, AbandonKeeps
<1>7. CASE WriteFirst
  BY <1>7, WriteFirstKeeps
<1>8. CASE WriteSecond
  BY <1>8, WriteSecondKeeps
<1>9. CASE Crash
  BY <1>9, CrashKeeps
<1>10. CASE CrashInInit
  BY <1>10, CrashInInitKeeps
<1>11. CASE StartCopy
  BY <1>11, StartCopyKeeps
<1>12. CASE FinishCopy
  BY <1>12, FinishCopyKeeps
<1>13. CASE UNCHANGED vars
  BY <1>13 DEF vars, memory, disk, ghosts, IInv, TypeOK, Pending, AlwaysAValidCopy, CutShort
<1> QED BY <1>1, <1>2, <1>3, <1>4, <1>5, <1>6, <1>7, <1>8, <1>9, <1>10, <1>11, <1>12, <1>13
        DEF Next
---------------------------------------------------------------------------
(* The types, the owners and the copies.                                    *)

LEMMA IInvAlways == Spec => []IInv
<1> QED BY InitInv, NextInv, PTL DEF Spec

\* The index in memory, the two files and the writes between them have the
\* types that partitionindex.h gives them: no slot outside the ring, no
\* container above total_file_nums, no count below 0.
THEOREM TypeCorrect == Spec => []TypeOK
<1>1. IInv => TypeOK
  BY DEF IInv
<1> QED BY IInvAlways, <1>1, PTL

\* No two channels record into one container, none that is current is recorded
\* over and none is forgotten, in memory and on each copy of the index that
\* init_partition_index may take after a crash.
THEOREM OneOwnerAlways == Spec => []OneOwner
<1>1. IInv => OneOwner
  BY DEF IInv, OneOwner
<1> QED BY IInvAlways, <1>1, PTL

\* At every moment, of a start that copies one file to the other too, a crash
\* leaves a copy of the index with a valid header.
THEOREM ValidCopyAlways == Spec => []AlwaysAValidCopy
<1>1. IInv => AlwaysAValidCopy
  BY DEF IInv
<1> QED BY IInvAlways, <1>1, PTL
---------------------------------------------------------------------------
(* A kept recording stays.                                                  *)

Position == Container \X Sect
Pos(c) == <<hdr.file[c], hdr.sect[c]>>

\* By header h and ring g, position p is in use by channel c.
Shows(h, g, c, p) ==
  \/ \E s \in Container :
       Live(h, s) /\ g[s].chn = c /\ g[s].file = p[1] /\ p[2] <= g[s].sects
  \/ c \in Chan /\ h.file[c] = p[1] /\ p[2] <= h.sect[c]

\* How far a slot is from the oldest; and the full container f of channel c
\* comes before its container g, by header h and ring q.
Age(h, s) == Wrap(s + Total - h.offset)
Before(h, q, c, f, g) ==
  \E s \in Container :
    /\ Live(h, s) /\ q[s].chn = c /\ q[s].file = f
    /\ \/ c \in Chan /\ h.file[c] = g
       \/ \E t \in Container : /\ Live(h, t) /\ q[t].chn = c /\ q[t].file = g
                               /\ Age(h, s) < Age(h, t)

HasAt(d, r, p) == d.seg[p] = r /\ (d.ok => Shows(d.hdr, d.ring, r[1], p))

\* Write w does not take r from p, and w puts it there; g is the ring that the
\* writes of w's operation lead to.
Spares(w, g, r, p) == /\ w.kind = "seg" /\ w.at = p => w.val = r
                      /\ w.kind = "hdr" => Shows(w.val, g, r[1], p)
Carries(w, g, r, p) == /\ w.kind = "seg" => w.at = p /\ w.val = r
                       /\ w.kind = "hdr" => Shows(w.val, g, r[1], p)

KeptAt(r, p) ==
  /\ \A k \in 1..2 : HasAt(copy[k], r, p)
  /\ \A i \in 1..Len(todo) : Spares(todo[i], ring, r, p)
  /\ phase = "up" => Shows(hdr, ring, r[1], p)
  /\ \A c \in Chan : open[c] # Blank /\ Pos(c) = p => r = open[c]

Keeping == \A r \in kept : \E p \in Position : KeptAt(r, p)

\* With the writes ws, if not yet, copy d has r at p and shows it.
Comes(d, ws, r, p) ==
  /\ d.seg[p] = r \/ \E i \in 1..Len(ws) : ws[i].kind = "seg"
  /\ Shows(d.hdr, d.ring, r[1], p) \/ \E i \in 1..Len(ws) : ws[i].kind = "hdr"

PromisedAt(p) ==
  /\ \A k \in 1..2 : Comes(copy[k], Pending(k), promise, p)
  /\ \A i \in 1..Len(todo) : Carries(todo[i], ring, promise, p)
  /\ Shows(hdr, ring, promise[1], p)
  /\ \A c \in Chan : open[c] # Blank /\ Pos(c) = p => promise = open[c]
  /\ \A f \in Container : ~Before(hdr, ring, promise[1], p[1], f)

Promising ==
  promise # Blank => phase = "up" /\ todo # <<>> /\ \E p \in Position : PromisedAt(p)

LEMMA ShowsSame ==
  ASSUME NEW h, NEW g, NEW q, NEW c, NEW p, Shows(h, g, c, p),
         \A s \in Container : Live(h, s) => q[s] = g[s]
  PROVE  Shows(h, q, c, p)
BY DEF Shows

\* The first of the writes that a copy waits for.
LEMMA FirstWrite ==
  ASSUME NEW d, NEW ws \in Seq(Writes), NEW h, NEW g, ws # <<>>, Leads(d, ws, h, g)
  PROVE  /\ Head(ws) \in Writes
         /\ Head(ws).kind = "ring" => ~Live(d.hdr, Head(ws).at)
         /\ Head(ws).kind = "hdr" => d.ring = g
<1>1. Len(ws) \in Nat /\ Len(ws) > 0 /\ Head(ws) = ws[1] /\ ws[1] \in Writes /\ 1 \in 1..Len(ws)
  OBVIOUS
<1>2. ws[1].kind = "ring" => ~Live(d.hdr, ws[1].at)
  BY <1>1 DEF Leads
<1>3. ASSUME ws[1].kind = "hdr" PROVE d.ring = g
  <2>1. \A i \in 1..Len(ws) : ws[i].kind = "ring" => 1 > i
    BY <1>1, <1>3 DEF Leads
  <2>2. \A i \in 1..Len(ws) : ws[i].kind # "ring"
    BY <1>1, <2>1
  <2> QED BY <2>2 DEF Leads
<1> QED BY <1>1, <1>2, <1>3

\* A write keeps what a copy shows, or is a header that shows it.
LEMMA ShowsOn ==
  ASSUME NEW d \in IndexFile, NEW ws \in Seq(Writes), NEW h, NEW g, ws # <<>>,
         Leads(d, ws, h, g), NEW c, NEW p
  PROVE  /\ Head(ws).kind # "hdr" /\ Shows(d.hdr, d.ring, c, p)
              => Shows(Apply(d, Head(ws)).hdr, Apply(d, Head(ws)).ring, c, p)
         /\ Head(ws).kind = "hdr" /\ Shows(Head(ws).val, g, c, p)
              => Shows(Apply(d, Head(ws)).hdr, Apply(d, Head(ws)).ring, c, p)
<1> DEFINE w == Head(ws)
           e == Apply(d, w)
<1>1. /\ w \in Writes
      /\ w.kind = "ring" => ~Live(d.hdr, w.at)
      /\ w.kind = "hdr" => d.ring = g
  BY FirstWrite
<1> HIDE DEF w
<1>2. /\ w.kind # "hdr" => e.hdr = d.hdr
      /\ w.kind # "ring" => e.ring = d.ring
      /\ w.kind = "hdr" => e.hdr = w.val
      /\ w.kind = "ring" => e.ring = [d.ring EXCEPT ![w.at] = w.val]
  BY <1>1, ApplyType
<1> HIDE DEF e
<1>3. w.kind # "hdr" => \A s \in Container : Live(d.hdr, s) => e.ring[s] = d.ring[s]
  <2>1. d.ring \in Ring
    BY DEF IndexFile
  <2> QED BY <1>1, <1>2, <2>1 DEF Ring
<1>4. w.kind # "hdr" /\ Shows(d.hdr, d.ring, c, p) => Shows(e.hdr, e.ring, c, p)
  BY <1>2, <1>3, ShowsSame
<1>5. w.kind = "hdr" /\ Shows(w.val, g, c, p) => Shows(e.hdr, e.ring, c, p)
  BY <1>1, <1>2
<1> QED BY <1>4, <1>5 DEF e, w

LEMMA ApplySeg ==
  ASSUME NEW d \in IndexFile, NEW w \in Writes
  PROVE  /\ w.kind # "seg" => Apply(d, w).seg = d.seg
         /\ w.kind = "seg" => Apply(d, w).seg[w.at] = w.val
         /\ \A p \in Position : (w.kind = "seg" => p # w.at) => Apply(d, w).seg[p] = d.seg[p]
<1>1. d.seg \in [Position -> Recording \cup {Blank}]
  BY DEF IndexFile, Segs, Position
<1>2. CASE w.kind = "seg"
  <2>1. w.at \in Position
    BY <1>2 DEF Writes, Position
  <2>2. Apply(d, w) = [d EXCEPT !.seg[w.at] = w.val]
    BY <1>2 DEF Apply
  <2>3. Apply(d, w).seg = [d.seg EXCEPT ![w.at] = w.val]
    BY <2>2 DEF IndexFile
  <2> QED BY <1>1, <1>2, <2>1, <2>3
<1>3. CASE w.kind = "ring"
  <2>1. Apply(d, w) = [d EXCEPT !.ring[w.at] = w.val]
    BY <1>3 DEF Apply
  <2> QED BY <1>3, <2>1 DEF IndexFile
<1>4. CASE w.kind = "hdr"
  <2>1. Apply(d, w) = [d EXCEPT !.hdr = w.val]
    BY <1>4 DEF Apply
  <2> QED BY <1>4, <2>1 DEF IndexFile
<1> QED BY <1>2, <1>3, <1>4 DEF Writes

LEMMA HasOn ==
  ASSUME NEW d \in IndexFile, NEW ws \in Seq(Writes), NEW h, NEW g, ws # <<>>,
         Leads(d, ws, h, g), NEW r, NEW p \in Position,
         HasAt(d, r, p), Spares(Head(ws), g, r, p)
  PROVE  HasAt(Apply(d, Head(ws)), r, p)
<1> DEFINE w == Head(ws)
           e == Apply(d, w)
<1>1. w \in Writes
  BY FirstWrite
<1>2. e.seg[p] = r
  BY <1>1, ApplySeg DEF HasAt, Spares
<1>3. e.ok = d.ok
  BY <1>1, ApplyType
<1>4. d.ok => Shows(e.hdr, e.ring, r[1], p)
  BY ShowsOn DEF HasAt, Spares
<1> QED BY <1>2, <1>3, <1>4 DEF HasAt

LEMMA ComesOn ==
  ASSUME NEW d \in IndexFile, NEW ws \in Seq(Writes), NEW h, NEW g, ws # <<>>,
         Leads(d, ws, h, g), NEW r, NEW p \in Position,
         Comes(d, ws, r, p), Carries(Head(ws), g, r, p)
  PROVE  Comes(Apply(d, Head(ws)), Tail(ws), r, p)
<1> DEFINE w == Head(ws)
           e == Apply(d, w)
           vs == Tail(ws)
<1>1. w \in Writes
  BY FirstWrite
<1>2. /\ w = ws[1] /\ Len(ws) \in Nat
      /\ \A i \in 1..Len(ws) : i # 1 => i - 1 \in 1..Len(vs) /\ ws[i] = vs[i - 1]
  OBVIOUS
<1>3. \A t : (\E i \in 1..Len(ws) : ws[i].kind = t) => w.kind = t \/ \E i \in 1..Len(vs) : vs[i].kind = t
  BY <1>2
<1>4. e.seg[p] = r \/ \E i \in 1..Len(vs) : vs[i].kind = "seg"
  <2>1. w.kind = "seg" => e.seg[p] = r
    BY <1>1, ApplySeg DEF Carries
  <2>2. w.kind # "seg" => e.seg[p] = d.seg[p]
    BY <1>1, ApplySeg
  <2> QED BY <1>3, <2>1, <2>2 DEF Comes
<1>5. Shows(e.hdr, e.ring, r[1], p) \/ \E i \in 1..Len(vs) : vs[i].kind = "hdr"
  <2>1. w.kind = "hdr" => Shows(e.hdr, e.ring, r[1], p)
    BY ShowsOn DEF Carries
  <2>2. w.kind # "hdr" /\ Shows(d.hdr, d.ring, r[1], p) => Shows(e.hdr, e.ring, r[1], p)
    BY ShowsOn
  <2> QED BY <1>3, <2>1, <2>2 DEF Comes
<1> QED BY <1>4, <1>5 DEF Comes
---------------------------------------------------------------------------
(* Every step keeps them; first the writes, a crash and the start.          *)

\* What the invariant says of a copy that is being written.
LEMMA CopyFacts ==
  ASSUME IInv, phase = "up", NEW k \in 1..2
  PROVE  /\ copy[k] \in IndexFile /\ copy[k].ok
         /\ Leads(copy[k], Pending(k), hdr, ring)
         /\ todo \in Seq(Writes) /\ copy \in [1..2 -> IndexFile] /\ half \in BOOLEAN
<1>1. TypeOK
  BY DEF IInv
<1> QED BY <1>1 DEF IInv, TypeOK

LEMMA WriteFirstKept ==
  ASSUME IInv, WriteFirst, NEW r, NEW p \in Position, KeptAt(r, p)
  PROVE  KeptAt(r, p)'
<1>1. /\ phase = "up" /\ todo # <<>> /\ half = FALSE
      /\ copy' = [copy EXCEPT ![1] = Apply(@, Head(todo))]
      /\ UNCHANGED <<phase, hdr, ring, todo, open>>
  BY CopyFacts DEF WriteFirst, memory
<1>2. /\ todo \in Seq(Writes) /\ copy \in [1..2 -> IndexFile]
      /\ Leads(copy[1], todo, hdr, ring)
  BY <1>1, CopyFacts DEF Pending
<1>3. copy'[1] = Apply(copy[1], Head(todo)) /\ copy'[2] = copy[2]
  BY <1>1, <1>2
<1>4. HasAt(copy[1], r, p) /\ HasAt(copy[2], r, p)
  BY DEF KeptAt
<1>5. Spares(Head(todo), ring, r, p)
  <2>1. Head(todo) = todo[1] /\ 1 \in 1..Len(todo)
    BY <1>1, <1>2
  <2> QED BY <2>1 DEF KeptAt
<1>6. HasAt(copy'[1], r, p) /\ HasAt(copy'[2], r, p)
  BY <1>1, <1>2, <1>3, <1>4, <1>5, HasOn
<1>7. \A k \in 1..2 : HasAt(copy'[k], r, p)
  <2>1. \A k \in 1..2 : k = 1 \/ k = 2
    OBVIOUS
  <2> QED BY <1>6, <2>1
<1> QED BY <1>1, <1>7 DEF KeptAt, Pos

LEMMA WriteSecondKept ==
  ASSUME IInv, WriteSecond, NEW r, NEW p \in Position, KeptAt(r, p)
  PROVE  KeptAt(r, p)'
<1>1. /\ phase = "up" /\ todo # <<>> /\ todo' = Tail(todo)
      /\ copy' = [copy EXCEPT ![2] = Apply(@, Head(todo))]
      /\ UNCHANGED <<phase, hdr, ring, open>>
  BY CopyFacts DEF WriteSecond, memory
<1>2. /\ todo \in Seq(Writes) /\ copy \in [1..2 -> IndexFile]
      /\ Leads(copy[2], todo, hdr, ring)
  BY <1>1, CopyFacts DEF Pending
<1>3. copy'[2] = Apply(copy[2], Head(todo)) /\ copy'[1] = copy[1]
  BY <1>1, <1>2
<1>4. HasAt(copy[1], r, p) /\ HasAt(copy[2], r, p)
  BY DEF KeptAt
<1>5. /\ Head(todo) = todo[1] /\ 1 \in 1..Len(todo)
      /\ \A i \in 1..Len(todo') : todo'[i] = todo[i + 1] /\ i + 1 \in 1..Len(todo)
  BY <1>1, <1>2
<1>6. Spares(Head(todo), ring, r, p) /\ \A i \in 1..Len(todo') : Spares(todo'[i], ring, r, p)
  BY <1>5 DEF KeptAt
<1>7. HasAt(copy'[1], r, p) /\ HasAt(copy'[2], r, p)
  BY <1>1, <1>2, <1>3, <1>4, <1>6, HasOn
<1>8. \A k \in 1..2 : HasAt(copy'[k], r, p)
  <2>1. \A k \in 1..2 : k = 1 \/ k = 2
    OBVIOUS
  <2> QED BY <1>7, <2>1
<1> QED BY <1>1, <1>6, <1>8 DEF KeptAt, Pos

LEMMA WriteFirstPromised ==
  ASSUME IInv, WriteFirst, NEW p \in Position, PromisedAt(p)
  PROVE  PromisedAt(p)'
<1>1. /\ phase = "up" /\ todo # <<>> /\ half = FALSE /\ half' = TRUE
      /\ copy' = [copy EXCEPT ![1] = Apply(@, Head(todo))]
      /\ UNCHANGED <<phase, hdr, ring, todo, open, promise>>
  BY CopyFacts DEF WriteFirst, memory, ghosts
<1>2. /\ todo \in Seq(Writes) /\ copy \in [1..2 -> IndexFile]
      /\ Leads(copy[1], todo, hdr, ring)
  BY <1>1, CopyFacts DEF Pending
<1>3. copy'[1] = Apply(copy[1], Head(todo)) /\ copy'[2] = copy[2]
  BY <1>1, <1>2
<1>4. Comes(copy[1], todo, promise, p) /\ Comes(copy[2], todo, promise, p)
  <2>1. Pending(1) = todo /\ Pending(2) = todo
    BY <1>1 DEF Pending
  <2> QED BY <2>1 DEF PromisedAt
<1>5. Carries(Head(todo), ring, promise, p)
  <2>1. Head(todo) = todo[1] /\ 1 \in 1..Len(todo)
    BY <1>1, <1>2
  <2> QED BY <2>1 DEF PromisedAt
<1>6. Comes(copy'[1], Tail(todo), promise, p) /\ Comes(copy'[2], todo, promise, p)
  BY <1>1, <1>2, <1>3, <1>4, <1>5, ComesOn
<1>7. \A k \in 1..2 : Comes(copy'[k], Pending(k)', promise', p)
  <2>1. Pending(1)' = Tail(todo) /\ Pending(2)' = todo
    BY <1>1 DEF Pending
  <2>2. \A k \in 1..2 : k = 1 \/ k = 2
    OBVIOUS
  <2> QED BY <1>1, <1>6, <2>1, <2>2
<1> QED BY <1>1, <1>7 DEF PromisedAt, Pos

\* When the last write reaches the second copy the promise is kept.
LEMMA WriteSecondPromised ==
  ASSUME IInv, WriteSecond, NEW p \in Position, PromisedAt(p)
  PROVE  /\ Len(todo) # 1 => PromisedAt(p)' /\ todo' # <<>>
         /\ Len(todo) = 1 => (\A r : r = promise => KeptAt(r, p)')
<1>1. /\ phase = "up" /\ todo # <<>> /\ half = TRUE /\ half' = FALSE /\ todo' = Tail(todo)
      /\ copy' = [copy EXCEPT ![2] = Apply(@, Head(todo))]
      /\ Len(todo) # 1 => promise' = promise
      /\ UNCHANGED <<phase, hdr, ring, open>>
  BY CopyFacts DEF WriteSecond, memory
<1>2. /\ todo \in Seq(Writes) /\ copy \in [1..2 -> IndexFile]
      /\ Leads(copy[2], todo, hdr, ring)
  BY <1>1, CopyFacts DEF Pending
<1>3. copy'[2] = Apply(copy[2], Head(todo)) /\ copy'[1] = copy[1]
  BY <1>1, <1>2
<1>4. Comes(copy[1], Tail(todo), promise, p) /\ Comes(copy[2], todo, promise, p)
  <2>1. Pending(1) = Tail(todo) /\ Pending(2) = todo
    BY <1>1 DEF Pending
  <2>2. \A k \in 1..2 : Comes(copy[k], Pending(k), promise, p)
    BY DEF PromisedAt
  <2>3. 1 \in 1..2 /\ 2 \in 1..2
    OBVIOUS
  <2> QED BY <2>1, <2>2, <2>3, Zenon
<1>5. /\ Head(todo) = todo[1] /\ 1 \in 1..Len(todo) /\ Len(todo') = Len(todo) - 1
      /\ \A i \in 1..Len(todo') : todo'[i] = todo[i + 1] /\ i + 1 \in 1..Len(todo)
  BY <1>1, <1>2
<1>6. Carries(Head(todo), ring, promise, p) /\ \A i \in 1..Len(todo') : Carries(todo'[i], ring, promise, p)
  BY <1>5 DEF PromisedAt
<1>7. Comes(copy'[1], todo', promise, p) /\ Comes(copy'[2], todo', promise, p)
  BY <1>1, <1>2, <1>3, <1>4, <1>6, ComesOn
<1>8. \A k \in 1..2 : k = 1 \/ k = 2
  OBVIOUS
<1>9. ASSUME Len(todo) # 1 PROVE PromisedAt(p)' /\ todo' # <<>>
  <2>1. Pending(1)' = todo' /\ Pending(2)' = todo'
    BY <1>1 DEF Pending
  <2>2. \A k \in 1..2 : Comes(copy'[k], Pending(k)', promise', p)
    BY <1>1, <1>7, <1>8, <1>9, <2>1
  <2>3. todo' # <<>>
    <3>1. Len(todo') # 0
      BY <1>2, <1>5, <1>9
    <3> QED BY <3>1
  <2> QED BY <1>1, <1>6, <1>9, <2>2, <2>3 DEF PromisedAt, Pos
<1>10. ASSUME Len(todo) = 1, NEW r, r = promise PROVE KeptAt(r, p)'
  <2>1. Len(todo') = 0
    BY <1>5, <1>10
  <2>2. \A k \in 1..2 : HasAt(copy'[k], r, p)
    BY <1>7, <1>8, <1>10, <2>1 DEF Comes, HasAt
  <2>3. \A i \in 1..Len(todo') : FALSE
    BY <2>1
  <2>4. Shows(hdr', ring', r[1], p)
    <3>1. Shows(hdr, ring, promise[1], p)
      BY DEF PromisedAt
    <3> QED BY <1>1, <1>10, <3>1
  <2>5. \A c \in Chan : open'[c] # Blank /\ Pos(c)' = p => r = open'[c]
    BY <1>1, <1>10 DEF PromisedAt, Pos
  <2> QED BY <2>2, <2>3, <2>4, <2>5 DEF KeptAt

<1> QED BY <1>9, <1>10

LEMMA CrashKept ==
  ASSUME IInv, Crash \/ CrashInInit, NEW r, NEW p \in Position, KeptAt(r, p)
  PROVE  KeptAt(r, p)'
<1>1. /\ phase' = "down" /\ todo' = <<>> /\ open' = [c \in Chan |-> Blank]
      /\ copy \in [1..2 -> IndexFile]
  BY DEF Crash, CrashInInit, Down, IInv, TypeOK
<1>2. \A k \in 1..2 : /\ copy'[k].hdr = copy[k].hdr /\ copy'[k].ring = copy[k].ring
                      /\ copy'[k].seg = copy[k].seg /\ (copy'[k].ok => copy[k].ok)
  <2>1. CASE copy' = copy
    BY <2>1
  <2>2. CASE copy' = [k \in 1..2 |-> IF k \in Unsynced THEN [copy[k] EXCEPT !.ok = FALSE]
                                                       ELSE copy[k]]
    <3>1. \A k \in 1..2 : LET d == [copy[k] EXCEPT !.ok = FALSE]
                          IN  /\ d.hdr = copy[k].hdr /\ d.ring = copy[k].ring
                              /\ d.seg = copy[k].seg /\ ~d.ok
      BY <1>1 DEF IndexFile
    <3>2. \A k \in 1..2 : copy'[k] = copy[k] \/ copy'[k] = [copy[k] EXCEPT !.ok = FALSE]
      BY <2>2
    <3> QED BY <3>1, <3>2
  <2> QED BY <2>1, <2>2 DEF Crash, CrashInInit
<1>3. \A k \in 1..2 : HasAt(copy[k], r, p)
  BY DEF KeptAt
<1>4. \A k \in 1..2 : HasAt(copy'[k], r, p)
  BY <1>2, <1>3 DEF HasAt
<1>5. \A c \in Chan : open'[c] = Blank
  BY <1>1
<1> QED BY <1>1, <1>4, <1>5 DEF KeptAt, Pos

LEMMA StartCopyKept ==
  ASSUME IInv, StartCopy, NEW r, NEW p \in Position, KeptAt(r, p)
  PROVE  KeptAt(r, p)'
<1>1. /\ phase' = "copying" /\ copy' = HeadCopied /\ copy \in [1..2 -> IndexFile]
      /\ UNCHANGED <<hdr, ring, todo, open>>
  BY DEF StartCopy, IInv, TypeOK, memory
<1>2. todo = <<>> /\ \A c \in Chan : open[c] = Blank
  BY DEF StartCopy, IInv
<1>3. Source \in 1..2 /\ Target \in 1..2 /\ \A k \in 1..2 : k = Source \/ k = Target
  BY DEF Source, Target
<1>4. /\ copy' = [copy EXCEPT ![Target] = [copy[Target] EXCEPT !.hdr = copy[Source].hdr, !.ok = FALSE]]
      /\ copy[Target] \in IndexFile
  BY <1>1, <1>3 DEF HeadCopied
<1>5. \A k \in 1..2 : \/ copy'[k] = copy[k]
                      \/ copy'[k].seg = copy[k].seg /\ copy'[k].ok = FALSE
  BY <1>1, <1>3, <1>4 DEF IndexFile
<1>6. \A k \in 1..2 : HasAt(copy[k], r, p)
  BY DEF KeptAt
<1>7. \A k \in 1..2 : HasAt(copy'[k], r, p)
  BY <1>5, <1>6 DEF HasAt
<1> QED BY <1>1, <1>2, <1>7 DEF KeptAt, Pos

LEMMA FinishCopyKept ==
  ASSUME IInv, FinishCopy, NEW r, NEW p \in Position, KeptAt(r, p)
  PROVE  KeptAt(r, p)'
<1> DEFINE d == Copied(Target, Source)
<1>1. /\ copy' = [copy EXCEPT ![Target] = d] /\ copy \in [1..2 -> IndexFile]
      /\ hdr' = copy[Source].hdr /\ ring' = copy[Source].ring
      /\ UNCHANGED <<todo, open>>
  BY DEF FinishCopy, IInv, TypeOK
<1>2. todo = <<>> /\ \A c \in Chan : open[c] = Blank
  BY DEF FinishCopy, IInv
<1>3. Source \in 1..2 /\ Target \in 1..2 /\ \A k \in 1..2 : k = Source \/ k = Target
  BY DEF Source, Target
<1>4. copy[Source].ok
  BY DEF IInv, AlwaysAValidCopy, Source
<1>5. HasAt(copy[Source], r, p) /\ HasAt(copy[Target], r, p)
  BY <1>3 DEF KeptAt
<1>6. /\ d.ok = copy[Source].ok /\ d.hdr = copy[Source].hdr /\ d.ring = copy[Source].ring
      /\ d.seg = copy[Source].seg \/ d.seg = copy[Target].seg
  <2>1. copy[Source] \in IndexFile /\ copy[Target] \in IndexFile
    BY <1>1, <1>3
  <2> QED BY <2>1 DEF Copied, IndexFile
<1> HIDE DEF d
<1>7. HasAt(d, r, p)
  BY <1>5, <1>6 DEF HasAt
<1>8. \A k \in 1..2 : HasAt(copy'[k], r, p)
  BY <1>1, <1>3, <1>5, <1>7
<1>9. Shows(hdr', ring', r[1], p)
  BY <1>1, <1>4, <1>5 DEF HasAt
<1>10. \A i \in 1..Len(todo') : FALSE
  BY <1>1, <1>2
<1>11. \A c \in Chan : open'[c] = Blank
  BY <1>1, <1>2
<1> QED BY <1>8, <1>9, <1>10, <1>11 DEF KeptAt
---------------------------------------------------------------------------
(* And the operations.                                                      *)

LEMMA OperationKept ==
  ASSUME IInv, Idle, phase' = phase, copy' = copy, NEW r, NEW p \in Position, KeptAt(r, p),
         \A i \in 1..Len(todo') : Spares(todo'[i], ring', r, p),
         Shows(hdr', ring', r[1], p),
         \A c \in Chan : open'[c] # Blank /\ Pos(c)' = p => r = open'[c]
  PROVE  KeptAt(r, p)'
BY DEF KeptAt

\* The container of a channel that goes to the ring is shown there.
LEMMA ShowsSwitched ==
  ASSUME NEW h \in Header, NEW g \in Ring, NEW c \in Chan, Holds(h, c), h.full < Total,
         NEW e, NEW p \in Position, Shows(h, g, e, p)
  PROVE  Shows(Switched(h, c), [g EXCEPT ![NextSlot(h)] = Entry(h, c)], e, p)
<1> DEFINE k == Switched(h, c)
           n == NextSlot(h)
           q == [g EXCEPT ![n] = Entry(h, c)]
<1>1. n \in Container /\ ~Live(h, n) /\ \A s \in Container : Live(k, s) <=> Live(h, s) \/ s = n
  BY NextSlotFree
<1>2. /\ q[n].file = h.file[c] /\ q[n].chn = c /\ q[n].sects = h.sect[c]
      /\ \A s \in Container : s # n => q[s] = g[s]
  BY <1>1 DEF Ring, Entry
<1>3. e \in Chan /\ e # c => k.file[e] = h.file[e] /\ k.sect[e] = h.sect[e]
  BY DEF Switched, Header
<1> HIDE DEF k, n, q
<1>4. CASE \E s \in Container : Live(h, s) /\ g[s].chn = e /\ g[s].file = p[1] /\ p[2] <= g[s].sects
  <2>1. PICK s \in Container : Live(h, s) /\ g[s].chn = e /\ g[s].file = p[1] /\ p[2] <= g[s].sects
    BY <1>4
  <2>2. s # n
    BY <1>1, <2>1
  <2> QED BY <1>1, <1>2, <2>1, <2>2 DEF Shows, k, n, q
<1>5. CASE e \in Chan /\ h.file[e] = p[1] /\ p[2] <= h.sect[e] /\ e = c
  BY <1>1, <1>2, <1>5 DEF Shows, k, n, q
<1>6. CASE e \in Chan /\ h.file[e] = p[1] /\ p[2] <= h.sect[e] /\ e # c
  BY <1>3, <1>6 DEF Shows, k, n, q
<1> QED BY <1>4, <1>5, <1>6 DEF Shows

LEMMA ShowsAllocated ==
  ASSUME NEW h \in Header, NEW g, NEW c \in Chan, ~Holds(h, c), h.recorded < Total,
         NEW e, NEW p \in Position, Shows(h, g, e, p)
  PROVE  Shows(Allocated(h, c), g, e, p)
<1> DEFINE k == Allocated(h, c)
<1>1. k.offset = h.offset /\ k.full = h.full
      /\ (e \in Chan /\ e # c => k.file[e] = h.file[e] /\ k.sect[e] = h.sect[e])
  BY DEF Allocated, Header
<1>2. \A s \in Container : Live(k, s) <=> Live(h, s)
  BY <1>1 DEF Live
<1>3. e \in Chan /\ h.file[e] = p[1] => e # c
  <2>1. p[1] < Total
    BY IndexAssumption DEF Position, Container
  <2> QED BY <2>1 DEF Holds
<1> HIDE DEF k
<1> QED BY <1>1, <1>2, <1>3 DEF Shows, k

LEMMA ShowsCovering ==
  ASSUME NEW h \in Header, NEW g, NEW c \in Chan, ~Holds(h, c), h.full > 0,
         NEW e, NEW p \in Position, Shows(h, g, e, p), p[1] # g[h.offset].file
  PROVE  Shows(Covering(h, c, g[h.offset].file), g, e, p)
<1> DEFINE k == Covering(h, c, g[h.offset].file)
<1>1. e \in Chan /\ e # c => k.file[e] = h.file[e] /\ k.sect[e] = h.sect[e]
  BY DEF Covering, Header
<1>2. \A s \in Container : Live(k, s) <=> Live(h, s) /\ s # h.offset
  BY OldestLive
<1>3. e \in Chan /\ h.file[e] = p[1] => e # c
  <2>1. p[1] < Total
    BY IndexAssumption DEF Position, Container
  <2> QED BY <2>1 DEF Holds
<1> HIDE DEF k
<1> QED BY <1>1, <1>2, <1>3 DEF Shows, k

\* How old the slots are; the next one will be the newest.
LEMMA Ages ==
  ASSUME NEW h \in Header
  PROVE  /\ \A s \in Container : Age(h, s) \in Nat /\ (Live(h, s) <=> Age(h, s) < h.full)
         /\ h.full < Total => Age(h, NextSlot(h)) = h.full
         /\ Age(h, h.offset) = 0 /\ \A s \in Container : Age(h, s) = 0 => s = h.offset
<1>1. h.offset \in Nat /\ h.full \in Nat /\ h.offset < Total /\ Total \in Nat
  BY IndexAssumption DEF Header, Container
<1>2. \A s \in Container : Age(h, s) \in Nat /\ (Live(h, s) <=> Age(h, s) < h.full)
  BY <1>1 DEF Age, Live, Wrap, Container
<1>3. h.full < Total => Age(h, NextSlot(h)) = h.full
  BY <1>1 DEF Age, NextSlot, Wrap
<1>4. Age(h, h.offset) = 0 /\ \A s \in Container : Age(h, s) = 0 => s = h.offset
  BY <1>1 DEF Age, Wrap, Container
<1> QED BY <1>2, <1>3, <1>4

\* A container of the ring comes before nothing that was not behind it before
\* the switch, and the one that is switched comes last.
LEMMA SwitchedBefore ==
  ASSUME NEW h \in Header, NEW g \in Ring, NEW c \in Chan, Holds(h, c), h.full < Total,
         NEW e, NEW x \in Container, NEW y \in Container,
         Before(Switched(h, c), [g EXCEPT ![NextSlot(h)] = Entry(h, c)], e, x, y)
  PROVE  Before(h, g, e, x, y)
<1> DEFINE k == Switched(h, c)
           n == NextSlot(h)
           q == [g EXCEPT ![n] = Entry(h, c)]
<1>1. n \in Container /\ ~Live(h, n) /\ \A s \in Container : Live(k, s) <=> Live(h, s) \/ s = n
  BY NextSlotFree
<1>2. /\ q[n].file = h.file[c] /\ q[n].chn = c
      /\ \A s \in Container : s # n => q[s] = g[s]
  BY <1>1 DEF Ring, Entry
<1>3. /\ \A d \in Chan : d # c => k.file[d] = h.file[d]
      /\ k.file[c] = Total /\ y # Total
  BY IndexAssumption DEF Switched, Header, NoFile, Container
<1>4. /\ \A s \in Container : Age(k, s) = Age(h, s) /\ Age(h, s) \in Nat
      /\ \A s \in Container : Live(h, s) => Age(h, s) < Age(h, n)
  <2>1. k.offset = h.offset
    BY DEF Switched, Header
  <2> HIDE DEF k, n
  <2>2. \A s \in Container : Age(k, s) = Age(h, s)
    BY <2>1 DEF Age
  <2> QED BY <2>2, Ages DEF n
<1>5. Before(k, q, e, x, y)
  OBVIOUS
<1> HIDE DEF k, n, q
<1>6. PICK s \in Container :
        /\ Live(k, s) /\ q[s].chn = e /\ q[s].file = x
        /\ \/ e \in Chan /\ k.file[e] = y
           \/ \E t \in Container : /\ Live(k, t) /\ q[t].chn = e /\ q[t].file = y
                                   /\ Age(k, s) < Age(k, t)
  BY <1>5 DEF Before
<1>7. CASE e \in Chan /\ k.file[e] = y
  <2>1. e # c
    BY <1>3, <1>7
  <2>2. s # n
    BY <1>2, <1>6, <2>1
  <2>3. Live(h, s) /\ g[s].chn = e /\ g[s].file = x /\ h.file[e] = y
    BY <1>1, <1>2, <1>3, <1>6, <1>7, <2>1, <2>2
  <2> QED BY <1>7, <2>3 DEF Before
<1>8. CASE \E t \in Container : /\ Live(k, t) /\ q[t].chn = e /\ q[t].file = y
                                /\ Age(k, s) < Age(k, t)
  <2>1. PICK t \in Container : /\ Live(k, t) /\ q[t].chn = e /\ q[t].file = y
                               /\ Age(k, s) < Age(k, t)
    BY <1>8
  <2>2. s # n
    <3>1. Age(h, s) < Age(h, t) /\ (t = n \/ Age(h, t) < Age(h, n))
      BY <1>1, <1>4, <2>1
    <3>2. Age(h, s) < Age(h, n)
      BY <1>1, <1>4, <3>1
    <3> QED BY <1>4, <3>2
  <2>3. Live(h, s) /\ g[s].chn = e /\ g[s].file = x
    BY <1>1, <1>2, <1>6, <2>2
  <2>4. CASE t = n
    BY <1>2, <2>1, <2>3, <2>4 DEF Before
  <2>5. CASE t # n
    <3>1. Live(h, t) /\ g[t].chn = e /\ g[t].file = y /\ Age(h, s) < Age(h, t)
      BY <1>1, <1>2, <1>4, <2>1, <2>5
    <3> QED BY <2>3, <3>1 DEF Before
  <2> QED BY <2>4, <2>5
<1> QED BY <1>6, <1>7, <1>8

\* A container belongs to one channel, and only its first segments are shown.
LEMMA ShownOwned ==
  ASSUME NEW h \in Header, NEW g, NEW e, NEW p \in Position, Owned(h, g),
         Shows(h, g, e, p)
  PROVE  /\ p[1] < h.recorded
         /\ \A c \in Chan : Holds(h, c) /\ p[1] = h.file[c] => e = c /\ p[2] <= h.sect[c]
<1>1. p[1] < Total
  BY IndexAssumption DEF Position, Container
<1>2. CASE \E s \in Container : Live(h, s) /\ g[s].chn = e /\ g[s].file = p[1] /\ p[2] <= g[s].sects
  BY <1>2 DEF Owned
<1>3. CASE e \in Chan /\ h.file[e] = p[1] /\ p[2] <= h.sect[e]
  BY <1>1, <1>3 DEF Owned, Holds
<1> QED BY <1>2, <1>3 DEF Shows

LEMMA AfterShows ==
  ASSUME IInv, Idle, NEW c \in Chan, NEW e, NEW p \in Position, Shows(hdr, ring, e, p)
  PROVE  /\ Shows(After(c).hdr, After(c).ring, e, p)
         /\ \A i \in 1..Len(After(c).writes) :
              /\ After(c).writes[i].kind # "seg"
              /\ After(c).writes[i].kind = "hdr" => After(c).writes[i].val = After(c).hdr
<1>1. hdr \in Header /\ ring \in Ring /\ Counted(hdr)
  BY IdleFacts
<1>2. CASE Holds(hdr, c)
  <2>1. /\ After(c).hdr = Switched(hdr, c) /\ After(c).ring = RingWith(hdr, c)
        /\ After(c).writes = SwitchWrites(hdr, c)
    BY <1>2 DEF After
  <2>2. Shows(Switched(hdr, c), RingWith(hdr, c), e, p)
    BY <1>1, <1>2, RoomInRing, ShowsSwitched DEF RingWith
  <2>3. \A i \in 1..Len(SwitchWrites(hdr, c)) :
          /\ SwitchWrites(hdr, c)[i].kind # "seg"
          /\ SwitchWrites(hdr, c)[i].kind = "hdr" => SwitchWrites(hdr, c)[i].val = Switched(hdr, c)
    BY DEF SwitchWrites, RingWrite, HdrWrite, Write
  <2> QED BY <2>1, <2>2, <2>3
<1>3. CASE ~Holds(hdr, c)
  <2>1. After(c).hdr = hdr /\ After(c).ring = ring /\ After(c).writes = <<>>
    BY <1>3 DEF After
  <2> QED BY <2>1
<1> QED BY <1>2, <1>3

LEMMA Appended ==
  ASSUME NEW ws \in Seq(Writes), NEW w \in Writes, NEW i \in 1..Len(Append(ws, w))
  PROVE  Append(ws, w)[i] = w \/ (i \in 1..Len(ws) /\ Append(ws, w)[i] = ws[i])
OBVIOUS

LEMMA AfterSect ==
  ASSUME IInv, Idle, NEW c \in Chan, NEW e \in Chan, e # c
  PROVE  After(c).hdr.sect[e] = hdr.sect[e]
<1>1. hdr \in Header
  BY IdleFacts
<1> QED BY <1>1 DEF After, Switched, Header

LEMMA ContinueKept ==
  ASSUME IInv, NEW c \in Chan, Continue(c), NEW r \in Recording, NEW p \in Position, KeptAt(r, p)
  PROVE  KeptAt(r, p)'
<1>1. /\ TypeOK /\ Idle /\ Opens(c) /\ Holds(hdr, c) /\ hdr.sect[c] < MaxSect - 1
      /\ hdr' = [hdr EXCEPT !.sect[c] = @ + 1] /\ ring' = ring
      /\ todo' = <<SegWrite(hdr.file[c], hdr.sect[c] + 1, Blank)>>
  BY OpensType DEF IInv, Continue
<1>2. hdr \in Header /\ Owned(hdr, ring) /\ phase = "up" /\ r[1] \in Chan
  BY <1>1, IdleFacts DEF Recording
<1>3. /\ hdr'.file = hdr.file /\ hdr'.offset = hdr.offset /\ hdr'.full = hdr.full
      /\ hdr'.sect[c] = hdr.sect[c] + 1 /\ hdr.sect[c] \in Nat
      /\ \A e \in Chan : e # c => hdr'.sect[e] = hdr.sect[e]
  BY <1>1, <1>2 DEF Header, Sect
<1>4. Shows(hdr, ring, r[1], p)
  BY <1>2 DEF KeptAt
<1>5. p # <<hdr.file[c], hdr.sect[c] + 1>>
  BY <1>1, <1>2, <1>3, <1>4, ShownOwned
<1>6. \A i \in 1..Len(todo') : Spares(todo'[i], ring', r, p)
  BY <1>1, <1>5 DEF Spares, SegWrite, Write
<1>7. Shows(hdr', ring', r[1], p)
  <2>1. \A s \in Container : Live(hdr', s) <=> Live(hdr, s)
    BY <1>3 DEF Live
  <2>2. \A e \in Chan : p[2] <= hdr.sect[e] => p[2] <= hdr'.sect[e]
    BY <1>3 DEF Position, Sect
  <2> QED BY <1>1, <1>2, <1>3, <1>4, <2>1, <2>2 DEF Shows
<1>8. ASSUME NEW e \in Chan, open'[e] # Blank, Pos(e)' = p PROVE r = open'[e]
  <2>1. e # c
    BY <1>3, <1>5, <1>8 DEF Pos
  <2>2. open'[e] = open[e] /\ Pos(e)' = Pos(e)
    BY <1>1, <1>3, <2>1, OpensType DEF Pos
  <2> QED BY <1>8, <2>2 DEF KeptAt
<1>9. phase' = phase /\ copy' = copy
  BY <1>1, OpensType
<1> QED BY <1>1, <1>6, <1>7, <1>8, <1>9, OperationKept

LEMMA AllocateKept ==
  ASSUME IInv, NEW c \in Chan, Allocate(c), NEW r \in Recording, NEW p \in Position, KeptAt(r, p)
  PROVE  KeptAt(r, p)'
<1> DEFINE a == After(c)
           f == a.hdr.recorded
<1>1. /\ TypeOK /\ Idle /\ Opens(c) /\ f < Total
      /\ hdr' = Allocated(a.hdr, c) /\ ring' = a.ring
      /\ todo' = Append(a.writes, SegWrite(f, 0, Blank))
  BY OpensType DEF IInv, Allocate
<1>2. /\ a.hdr \in Header /\ a.ring \in Ring /\ Owned(a.hdr, a.ring) /\ ~Holds(a.hdr, c)
      /\ a.writes \in Seq(Writes)
      /\ \A e \in Chan : e # c => a.hdr.file[e] = hdr.file[e]
  BY <1>1, AfterFacts
<1>3. phase = "up" /\ r[1] \in Chan
  BY <1>1, IdleFacts DEF Recording
<1>4. Shows(hdr, ring, r[1], p)
  BY <1>3 DEF KeptAt
<1>5. /\ Shows(a.hdr, a.ring, r[1], p)
      /\ \A i \in 1..Len(a.writes) : /\ a.writes[i].kind # "seg"
                                     /\ a.writes[i].kind = "hdr" => a.writes[i].val = a.hdr
  BY <1>1, <1>3, <1>4, AfterShows
<1> HIDE DEF a
<1>6. p[1] # f
  <2>1. p[1] < f
    BY <1>2, <1>5, ShownOwned
  <2>2. f \in Nat
    BY <1>2, IndexAssumption DEF Header
  <2> QED BY <2>1, <2>2
<1>7. \A i \in 1..Len(todo') : Spares(todo'[i], ring', r, p)
  <2>1. Spares(SegWrite(f, 0, Blank), ring', r, p)
    BY <1>6 DEF Spares, SegWrite, Write
  <2>2. \A i \in 1..Len(a.writes) : Spares(a.writes[i], ring', r, p)
    BY <1>1, <1>5 DEF Spares
  <2>3. \A i \in 1..Len(todo') : \/ todo'[i] = SegWrite(f, 0, Blank)
                                 \/ i \in 1..Len(a.writes) /\ todo'[i] = a.writes[i]
    <3>1. f \in Container /\ 0 \in Sect
      BY <1>1, <1>2, IndexAssumption DEF Header, Container, Sect
    <3>2. SegWrite(f, 0, Blank) \in Writes
      BY <1>2, <3>1, WriteTypes
    <3> QED BY <1>1, <1>2, <3>2, Appended
  <2> QED BY <2>1, <2>2, <2>3
<1>8. Shows(hdr', ring', r[1], p)
  BY <1>1, <1>2, <1>3, <1>5, ShowsAllocated
<1>9. ASSUME NEW e \in Chan, open'[e] # Blank, Pos(e)' = p PROVE r = open'[e]
  <2>1. e # c
    <3>1. hdr'.file[c] = f
      BY <1>1, <1>2 DEF Allocated, Header
    <3> QED BY <1>6, <1>9, <3>1 DEF Pos
  <2>2. hdr'.file[e] = hdr.file[e] /\ hdr'.sect[e] = hdr.sect[e]
    <3>1. hdr'.file[e] = a.hdr.file[e] /\ hdr'.sect[e] = a.hdr.sect[e]
      BY <1>1, <1>2, <2>1 DEF Allocated, Header
    <3>2. a.hdr.sect[e] = hdr.sect[e]
      BY <1>1, <2>1, AfterSect DEF a
    <3> QED BY <1>2, <2>1, <3>1, <3>2
  <2>3. open'[e] = open[e]
    BY <1>1, <2>1, OpensType
  <2> QED BY <1>9, <2>2, <2>3 DEF KeptAt, Pos
<1>10. phase' = phase /\ copy' = copy
  BY <1>1, OpensType
<1> QED BY <1>1, <1>7, <1>8, <1>9, <1>10, OperationKept

LEMMA CoverKept ==
  ASSUME IInv, NEW c \in Chan, Cover(c), NEW r \in Recording, r \in kept', r \in kept,
         NEW p \in Position, KeptAt(r, p)
  PROVE  KeptAt(r, p)'
<1> DEFINE a == After(c)
           f == a.ring[a.hdr.offset].file
<1>1. /\ TypeOK /\ Idle /\ Opens(c) /\ a.hdr.recorded = Total
      /\ hdr' = Covering(a.hdr, c, f) /\ ring' = a.ring
      /\ todo' = a.writes \o <<HdrWrite(hdr'), SegWrite(f, 0, Blank)>>
  BY OpensType DEF IInv, Cover, CoverWrites
<1>2. /\ a.hdr \in Header /\ a.ring \in Ring /\ Counted(a.hdr) /\ Owned(a.hdr, a.ring)
      /\ ~Holds(a.hdr, c) /\ a.writes \in Seq(Writes)
      /\ \A e \in Chan : e # c => a.hdr.file[e] = hdr.file[e]
  BY <1>1, AfterFacts
<1>3. phase = "up" /\ r[1] \in Chan
  BY <1>1, IdleFacts DEF Recording
<1>4. Shows(hdr, ring, r[1], p)
  BY <1>3 DEF KeptAt
<1>5. /\ Shows(a.hdr, a.ring, r[1], p)
      /\ \A i \in 1..Len(a.writes) : /\ a.writes[i].kind # "seg"
                                     /\ a.writes[i].kind = "hdr" => a.writes[i].val = a.hdr
  BY <1>1, <1>3, <1>4, AfterShows
<1>6. p[1] # f
  <2>1. kept' = kept \ {q \in kept : \E s \in Sect : copy[1].seg[f, s] = q}
    BY Zenon DEF Cover
  <2>2. \A s \in Sect : copy[1].seg[<<f, s>>] # r
    BY <2>1
  <2>3. copy[1].seg[p] = r
    BY DEF KeptAt, HasAt
  <2>4. p = <<p[1], p[2]>> /\ p[2] \in Sect
    BY DEF Position
  <2> QED BY <2>2, <2>3, <2>4
<1>7. a.hdr.full > 0
  BY <1>1, <1>2, RoomInRing
<1> HIDE DEF a
<1>8. Shows(hdr', ring', r[1], p)
  BY <1>1, <1>2, <1>3, <1>5, <1>6, <1>7, ShowsCovering
<1>9. \A i \in 1..Len(todo') : Spares(todo'[i], ring', r, p)
  <2>1. Spares(SegWrite(f, 0, Blank), ring', r, p) /\ Spares(HdrWrite(hdr'), ring', r, p)
    BY <1>6, <1>8 DEF Spares, SegWrite, HdrWrite, Write
  <2>2. \A i \in 1..Len(a.writes) : Spares(a.writes[i], ring', r, p)
    BY <1>1, <1>5 DEF Spares
  <2>3. \A v, w : \A i \in 1..Len(a.writes \o <<v, w>>) :
          \/ (a.writes \o <<v, w>>)[i] \in {v, w}
          \/ i \in 1..Len(a.writes) /\ (a.writes \o <<v, w>>)[i] = a.writes[i]
    BY <1>2
  <2> QED BY <1>1, <2>1, <2>2, <2>3
<1>10. ASSUME NEW e \in Chan, open'[e] # Blank, Pos(e)' = p PROVE r = open'[e]
  <2>1. e # c
    <3>1. hdr'.file[c] = f
      BY <1>1, <1>2 DEF Covering, Header
    <3> QED BY <1>6, <1>10, <3>1 DEF Pos
  <2>2. hdr'.file[e] = hdr.file[e] /\ hdr'.sect[e] = hdr.sect[e]
    <3>1. hdr'.file[e] = a.hdr.file[e] /\ hdr'.sect[e] = a.hdr.sect[e]
      BY <1>1, <1>2, <2>1 DEF Covering, Header
    <3>2. a.hdr.sect[e] = hdr.sect[e]
      BY <1>1, <2>1, AfterSect DEF a
    <3> QED BY <1>2, <2>1, <3>1, <3>2
  <2>3. open'[e] = open[e]
    BY <1>1, <2>1, OpensType
  <2> QED BY <1>10, <2>2, <2>3 DEF KeptAt, Pos
<1>11. phase' = phase /\ copy' = copy
  BY <1>1, OpensType
<1> QED BY <1>1, <1>8, <1>9, <1>10, <1>11, OperationKept

LEMMA NoSpaceKept ==
  ASSUME IInv, NEW c \in Chan, NoSpace(c), NEW r \in Recording, NEW p \in Position, KeptAt(r, p)
  PROVE  KeptAt(r, p)'
<1> DEFINE a == After(c)
<1>1. /\ Idle /\ Holds(hdr, c) /\ hdr' = a.hdr /\ ring' = a.ring /\ todo' = a.writes
      /\ phase' = phase /\ copy' = copy /\ open' = open /\ open[c] = Blank
  BY DEF NoSpace
<1>2. /\ \A e \in Chan : e # c => a.hdr.file[e] = hdr.file[e] /\ a.hdr.sect[e] = hdr.sect[e]
  BY <1>1, AfterFacts, AfterSect
<1>3. phase = "up" /\ r[1] \in Chan
  BY <1>1, IdleFacts DEF Recording
<1>4. Shows(hdr, ring, r[1], p)
  BY <1>3 DEF KeptAt
<1>5. /\ Shows(a.hdr, a.ring, r[1], p)
      /\ \A i \in 1..Len(a.writes) : /\ a.writes[i].kind # "seg"
                                     /\ a.writes[i].kind = "hdr" => a.writes[i].val = a.hdr
  BY <1>1, <1>3, <1>4, AfterShows
<1> HIDE DEF a
<1>6. \A i \in 1..Len(todo') : Spares(todo'[i], ring', r, p)
  BY <1>1, <1>5 DEF Spares
<1>7. ASSUME NEW e \in Chan, open'[e] # Blank, Pos(e)' = p PROVE r = open'[e]
  <2>1. e # c
    BY <1>1, <1>7
  <2>2. Pos(e)' = Pos(e)
    BY <1>1, <1>2, <2>1 DEF Pos
  <2> QED BY <1>1, <1>7, <2>2 DEF KeptAt
<1> QED BY <1>1, <1>5, <1>6, <1>7, OperationKept

\* The three ways an update ends.
LEMMA UpdateWays ==
  ASSUME IInv, NEW c \in Chan, Update(c)
  PROVE  /\ Idle /\ phase' = phase /\ copy' = copy /\ half' = half
         /\ open[c] # Blank /\ promise' = open[c] /\ kept' = kept /\ covered' = covered
         /\ Holds(hdr, c)
         /\ open' = open \/ open' = [open EXCEPT ![c] = Blank]
         /\ \/ hdr' = hdr /\ ring' = ring
            \/ hdr' = Switched(hdr, c) /\ ring' = RingWith(hdr, c) /\ open' = [open EXCEPT ![c] = Blank]
         /\ todo' \in Seq(Writes)
         /\ \A i \in 1..Len(todo') :
              /\ todo'[i].kind = "seg" => todo'[i].at = Pos(c) /\ todo'[i].val = open[c]
              /\ todo'[i].kind = "hdr" => todo'[i].val = hdr'
         /\ \E i \in 1..Len(todo') : todo'[i].kind = "seg"
         /\ \E i \in 1..Len(todo') : todo'[i].kind = "hdr"
<1> DEFINE w == SegWrite(hdr.file[c], hdr.sect[c], open[c])
<1>1. /\ Idle /\ phase' = phase /\ copy' = copy /\ half' = half
      /\ open[c] # Blank /\ promise' = open[c] /\ kept' = kept /\ covered' = covered
  BY DEF Update
<1>2. Holds(hdr, c)
  BY <1>1, IdleFacts
<1>3. /\ w.kind = "seg" /\ w.at = Pos(c) /\ w.val = open[c]
      /\ \A h : HdrWrite(h).kind = "hdr" /\ HdrWrite(h).val = h
      /\ \A h : RingWrite(h, c).kind = "ring"
  BY DEF SegWrite, HdrWrite, RingWrite, Write, Pos
<1>4. todo' \in Seq(Writes)
  <2>1. IInv'
    BY UpdateKeeps
  <2> QED BY <2>1 DEF IInv, TypeOK
<1>5. CASE todo' = KeepWrites(c) /\ UNCHANGED memory
  <2>1. todo' = <<w, HdrWrite(hdr)>> /\ hdr' = hdr /\ ring' = ring
    BY <1>5 DEF KeepWrites, memory
  <2>2. open' = open \/ open' = [open EXCEPT ![c] = Blank]
    BY DEF Update
  <2> HIDE DEF w
  <2>3. Len(todo') = 2 /\ todo'[1] = w /\ todo'[2] = HdrWrite(hdr)
    BY <2>1
  <2> QED BY <1>1, <1>2, <1>3, <1>4, <2>1, <2>2, <2>3
<1>6. CASE /\ hdr' = Switched(hdr, c) /\ ring' = RingWith(hdr, c)
           /\ todo' = FullWrites(c) /\ open' = [open EXCEPT ![c] = Blank]
  <2>1. todo' = <<w>> \o <<RingWrite(hdr, c), HdrWrite(hdr')>>
    BY <1>6, Zenon DEF FullWrites, SwitchWrites
  <2> HIDE DEF w
  <2>2. Len(todo') = 3 /\ todo'[1] = w /\ todo'[2] = RingWrite(hdr, c) /\ todo'[3] = HdrWrite(hdr')
    <3>1. \A x, y, z : /\ Len(<<x>> \o <<y, z>>) = 3 /\ (<<x>> \o <<y, z>>)[1] = x
                       /\ (<<x>> \o <<y, z>>)[2] = y /\ (<<x>> \o <<y, z>>)[3] = z
      OBVIOUS
    <3> QED BY <2>1, <3>1
  <2> QED BY <1>1, <1>2, <1>3, <1>4, <1>6, <2>2
<1> QED BY <1>5, <1>6 DEF Update

LEMMA UpdateKept ==
  ASSUME IInv, NEW c \in Chan, Update(c), NEW r \in Recording, NEW p \in Position, KeptAt(r, p)
  PROVE  KeptAt(r, p)'
<1>1. /\ Idle /\ phase' = phase /\ copy' = copy /\ Holds(hdr, c) /\ open[c] # Blank
      /\ open' = open \/ open' = [open EXCEPT ![c] = Blank]
      /\ \/ hdr' = hdr /\ ring' = ring
         \/ hdr' = Switched(hdr, c) /\ ring' = RingWith(hdr, c) /\ open' = [open EXCEPT ![c] = Blank]
      /\ \A i \in 1..Len(todo') :
           /\ todo'[i].kind = "seg" => todo'[i].at = Pos(c) /\ todo'[i].val = open[c]
           /\ todo'[i].kind = "hdr" => todo'[i].val = hdr'
  BY UpdateWays
<1>2. /\ hdr \in Header /\ ring \in Ring /\ Counted(hdr) /\ phase = "up" /\ r[1] \in Chan
      /\ open \in [Chan -> Recording \cup {Blank}]
  BY <1>1, IdleFacts DEF Recording, IInv, TypeOK
<1>3. Shows(hdr', ring', r[1], p)
  <2>1. Shows(hdr, ring, r[1], p)
    BY <1>2 DEF KeptAt
  <2>2. Shows(Switched(hdr, c), RingWith(hdr, c), r[1], p)
    BY <1>1, <1>2, <2>1, RoomInRing, ShowsSwitched DEF RingWith
  <2> QED BY <1>1, <2>1, <2>2
<1>4. p = Pos(c) => r = open[c]
  BY <1>1 DEF KeptAt
<1>5. \A i \in 1..Len(todo') : Spares(todo'[i], ring', r, p)
  BY <1>1, <1>3, <1>4 DEF Spares
<1>6. ASSUME NEW e \in Chan, open'[e] # Blank, Pos(e)' = p PROVE r = open'[e]
  <2>1. open'[e] = open[e]
    BY <1>1, <1>2, <1>6
  <2>2. Pos(e)' = Pos(e)
    <3>1. e # c => Switched(hdr, c).file[e] = hdr.file[e] /\ Switched(hdr, c).sect[e] = hdr.sect[e]
      BY <1>2 DEF Switched, Header
    <3> QED BY <1>1, <1>2, <1>6, <3>1 DEF Pos
  <2> QED BY <1>6, <2>1, <2>2 DEF KeptAt
<1> QED BY <1>1, <1>3, <1>5, <1>6, OperationKept

LEMMA AbandonKept ==
  ASSUME IInv, NEW c \in Chan, Abandon(c), NEW r, NEW p \in Position, KeptAt(r, p)
  PROVE  KeptAt(r, p)'
<1>1. /\ UNCHANGED <<phase, hdr, ring, copy, todo>> /\ open' = [open EXCEPT ![c] = Blank]
      /\ open \in [Chan -> Recording \cup {Blank}]
  BY DEF Abandon, memory, disk, IInv, TypeOK
<1>2. \A e \in Chan : open'[e] # Blank => open'[e] = open[e]
  BY <1>1
<1> QED BY <1>1, <1>2 DEF KeptAt, Pos

\* An update leaves its promise with the writes that keep it.
LEMMA UpdatePromises ==
  ASSUME IInv, NEW c \in Chan, Update(c), open[c][1] = c, NEW p, p = Pos(c)
  PROVE  p \in Position /\ PromisedAt(p)' /\ todo' # <<>>
<1>1. /\ Idle /\ phase' = phase /\ copy' = copy /\ Holds(hdr, c) /\ half' = half
      /\ open[c] # Blank /\ promise' = open[c] /\ todo' \in Seq(Writes)
      /\ open' = open \/ open' = [open EXCEPT ![c] = Blank]
      /\ \/ hdr' = hdr /\ ring' = ring
         \/ hdr' = Switched(hdr, c) /\ ring' = RingWith(hdr, c) /\ open' = [open EXCEPT ![c] = Blank]
      /\ \A i \in 1..Len(todo') :
           /\ todo'[i].kind = "seg" => todo'[i].at = p /\ todo'[i].val = open[c]
           /\ todo'[i].kind = "hdr" => todo'[i].val = hdr'
      /\ \E i \in 1..Len(todo') : todo'[i].kind = "seg"
      /\ \E i \in 1..Len(todo') : todo'[i].kind = "hdr"
  BY UpdateWays
<1>2. /\ hdr \in Header /\ ring \in Ring /\ Counted(hdr) /\ Owned(hdr, ring)
      /\ phase = "up" /\ half = FALSE
      /\ open \in [Chan -> Recording \cup {Blank}]
      /\ \A e \in Chan : open[e] # Blank => Holds(hdr, e)
  BY <1>1, IdleFacts DEF IInv, TypeOK
<1>3. p \in Position /\ Shows(hdr, ring, c, p)
  <2>1. hdr.file[c] \in Container /\ hdr.sect[c] \in Sect
    BY <1>1, <1>2, IndexAssumption DEF Header, Holds, Container
  <2>2. p = <<hdr.file[c], hdr.sect[c]>> /\ hdr.sect[c] <= hdr.sect[c]
    BY <2>1 DEF Pos, Sect
  <2> QED BY <2>1, <2>2 DEF Position, Shows
<1>4. Shows(hdr', ring', c, p)
  <2>1. Shows(Switched(hdr, c), RingWith(hdr, c), c, p)
    BY <1>1, <1>2, <1>3, RoomInRing, ShowsSwitched DEF RingWith
  <2> QED BY <1>1, <1>3, <2>1
<1>5. \A i \in 1..Len(todo') : Carries(todo'[i], ring', promise', p)
  BY <1>1, <1>4 DEF Carries
<1>6. \A k \in 1..2 : Comes(copy'[k], Pending(k)', promise', p)
  <2>1. \A k \in 1..2 : Pending(k)' = todo'
    BY <1>1, <1>2 DEF Pending
  <2> QED BY <1>1, <2>1 DEF Comes
<1>7. ASSUME NEW e \in Chan, open'[e] # Blank, Pos(e)' = p PROVE promise' = open'[e]
  <2>1. open'[e] = open[e]
    BY <1>1, <1>2, <1>7
  <2>2. hdr'.file[e] = hdr.file[e]
    <3>1. e # c => Switched(hdr, c).file[e] = hdr.file[e]
      BY <1>2 DEF Switched, Header
    <3> QED BY <1>1, <1>2, <1>7, <3>1
  <2>3. hdr.file[e] = hdr.file[c]
    BY <1>7, <2>2 DEF Pos
  <2>4. e = c
    BY <1>1, <1>2, <2>3 DEF Owned
  <2> QED BY <1>1, <2>1, <2>4
<1>8. todo' # <<>>
  BY <1>1
<1>9. Shows(hdr', ring', promise'[1], p)
  BY <1>1, <1>4
<1>10. ASSUME NEW f \in Container PROVE ~Before(hdr', ring', promise'[1], p[1], f)
  <2>1. p[1] = hdr.file[c] /\ p[1] \in Container
    BY <1>3 DEF Pos, Position
  <2>2. ~Before(hdr, ring, c, p[1], f)
    BY <2>1, <1>2 DEF Before, Owned
  <2>3. ~Before(Switched(hdr, c), RingWith(hdr, c), c, p[1], f)
    BY <1>1, <1>2, <2>1, <2>2, RoomInRing, SwitchedBefore DEF RingWith
  <2> QED BY <1>1, <2>2, <2>3
<1> QED BY <1>3, <1>5, <1>6, <1>7, <1>8, <1>9, <1>10 DEF PromisedAt
---------------------------------------------------------------------------
OwnOpen == \A c \in Chan : open[c] # Blank => open[c][1] = c

KInv == Keeping /\ Promising /\ OwnOpen

LEMMA OwnOpenNext ==
  ASSUME IInv, OwnOpen, [Next]_vars
  PROVE  OwnOpen'
<1>1. open \in [Chan -> Recording \cup {Blank}]
  BY DEF IInv, TypeOK
<1>2. \A c \in Chan : <<c, made + 1>>[1] = c
  OBVIOUS
<1>3. ASSUME NEW c \in Chan, Continue(c) \/ Allocate(c) \/ Cover(c) PROVE OwnOpen'
  <2>1. open' = [open EXCEPT ![c] = <<c, made + 1>>]
    BY <1>3 DEF Continue, Allocate, Cover, Opens
  <2>2. open'[c] = <<c, made + 1>> /\ \A e \in Chan : e # c => open'[e] = open[e]
    BY <1>1, <2>1
  <2> QED BY <1>2, <2>2 DEF OwnOpen
<1>4. ASSUME NEW c \in Chan, NoSpace(c) \/ Update(c) \/ Abandon(c) PROVE OwnOpen'
  <2>1. open' = open \/ open' = [open EXCEPT ![c] = Blank]
    BY <1>4 DEF NoSpace, Update, Abandon
  <2>2. \A e \in Chan : open'[e] # Blank => open'[e] = open[e]
    BY <1>1, <2>1
  <2> QED BY <2>2 DEF OwnOpen
<1>5. ASSUME WriteFirst \/ WriteSecond \/ StartCopy \/ FinishCopy \/ UNCHANGED vars
      PROVE  OwnOpen'
  <2>1. open' = open
    BY <1>5 DEF WriteFirst, WriteSecond, StartCopy, FinishCopy, vars
  <2> QED BY <2>1 DEF OwnOpen
<1>6. ASSUME Crash \/ CrashInInit PROVE OwnOpen'
  <2>1. open' = [c \in Chan |-> Blank]
    BY <1>6 DEF Crash, CrashInInit, Down
  <2> QED BY <2>1 DEF OwnOpen
<1> QED BY <1>3, <1>4, <1>5, <1>6 DEF Next

\* A recording that is still kept stays where it was.
LEMMA KeptNext ==
  ASSUME IInv, KInv, [Next]_vars, NEW r \in Recording, r \in kept, r \in kept',
         NEW p \in Position, KeptAt(r, p)
  PROVE  KeptAt(r, p)'
<1>1. ASSUME NEW c \in Chan, Continue(c) PROVE KeptAt(r, p)'
  BY <1>1, ContinueKept
<1>2. ASSUME NEW c \in Chan, Allocate(c) PROVE KeptAt(r, p)'
  BY <1>2, AllocateKept
<1>3. ASSUME NEW c \in Chan, Cover(c) PROVE KeptAt(r, p)'
  BY <1>3, CoverKept
<1>4. ASSUME NEW c \in Chan, NoSpace(c) PROVE KeptAt(r, p)'
  BY <1>4, NoSpaceKept
<1>5. ASSUME NEW c \in Chan, Update(c) PROVE KeptAt(r, p)'
  BY <1>5, UpdateKept
<1>6. ASSUME NEW c \in Chan, Abandon(c) PROVE KeptAt(r, p)'
  BY <1>6, AbandonKept
<1>7. CASE WriteFirst
  BY <1>7, WriteFirstKept
<1>8. CASE WriteSecond
  BY <1>8, WriteSecondKept
<1>9. CASE Crash \/ CrashInInit
  BY <1>9, CrashKept
<1>10. CASE StartCopy
  BY <1>10, StartCopyKept
<1>11. CASE FinishCopy
  BY <1>11, FinishCopyKept
<1>12. CASE UNCHANGED vars
  BY <1>12 DEF vars, memory, disk, KeptAt, Pos
<1> QED BY <1>1, <1>2, <1>3, <1>4, <1>5, <1>6, <1>7, <1>8, <1>9, <1>10, <1>11, <1>12 DEF Next

\* What is kept anew has been promised, and its last write was the last.
LEMMA NewlyKept ==
  ASSUME IInv, KInv, [Next]_vars, NEW r \in kept', r \notin kept
  PROVE  \E p \in Position : KeptAt(r, p)'
<1>1. WriteSecond /\ Len(todo) = 1 /\ r = promise /\ promise # Blank
  <2>1. ASSUME NEW c \in Chan,
               Continue(c) \/ Allocate(c) \/ Cover(c) \/ NoSpace(c) \/ Update(c) \/ Abandon(c)
        PROVE  kept' \subseteq kept
    BY <2>1 DEF Continue, Allocate, Cover, NoSpace, Update, Abandon, ghosts
  <2>2. ASSUME WriteFirst \/ Crash \/ CrashInInit \/ StartCopy \/ FinishCopy \/ UNCHANGED vars
        PROVE  kept' = kept
    BY <2>2 DEF WriteFirst, Crash, CrashInInit, Down, StartCopy, FinishCopy, vars, ghosts
  <2>3. WriteSecond
    BY <2>1, <2>2 DEF Next
  <2> QED BY <2>3 DEF WriteSecond
<1>2. PICK p \in Position : PromisedAt(p)
  BY <1>1 DEF KInv, Promising
<1> QED BY <1>1, <1>2, WriteSecondPromised

LEMMA PromisingNext ==
  ASSUME IInv, KInv, [Next]_vars
  PROVE  Promising'
<1> USE DEF KInv
<1>1. ASSUME NEW c \in Chan,
             Continue(c) \/ Allocate(c) \/ Cover(c) \/ NoSpace(c) \/ Abandon(c)
      PROVE  promise' = Blank
  <2>1. Idle /\ promise' = promise
    BY <1>1 DEF Continue, Allocate, Cover, NoSpace, Abandon, Opens, Idle, ghosts
  <2> QED BY <2>1 DEF Promising, Idle
<1>2. ASSUME NEW c \in Chan, Update(c) PROVE Promising'
  <2>1. open[c][1] = c
    BY <1>2 DEF Update, OwnOpen
  <2>2. phase' = phase /\ phase = "up"
    BY <1>2 DEF Update, Idle
  <2>3. \A p : p = Pos(c) => p \in Position /\ PromisedAt(p)' /\ todo' # <<>>
    BY <1>2, <2>1, UpdatePromises
  <2>4. \E p \in Position : PromisedAt(p)'
    BY <2>3
  <2> QED BY <2>2, <2>3, <2>4 DEF Promising
<1>3. CASE WriteFirst
  <2>1. promise' = promise /\ phase' = phase /\ todo' = todo
    BY <1>3 DEF WriteFirst, ghosts
  <2>2. (\E p \in Position : PromisedAt(p)) => \E p \in Position : PromisedAt(p)'
    BY <1>3, WriteFirstPromised
  <2> QED BY <2>1, <2>2 DEF Promising
<1>4. CASE WriteSecond
  <2>1. CASE Len(todo) = 1
    BY <1>4, <2>1 DEF WriteSecond, Promising
  <2>2. CASE Len(todo) # 1
    <3>1. promise' = promise /\ phase' = phase
      BY <1>4, <2>2 DEF WriteSecond
    <3>2. (\E p \in Position : PromisedAt(p)) => todo' # <<>> /\ \E p \in Position : PromisedAt(p)'
      BY <1>4, <2>2, WriteSecondPromised
    <3> QED BY <3>1, <3>2 DEF Promising
  <2> QED BY <2>1, <2>2
<1>5. ASSUME Crash \/ CrashInInit PROVE promise' = Blank
  BY <1>5 DEF Crash, CrashInInit, Down
<1>6. ASSUME StartCopy \/ FinishCopy PROVE promise' = Blank
  BY <1>6 DEF StartCopy, FinishCopy, Promising, ghosts
<1>7. ASSUME UNCHANGED vars PROVE Promising'
  BY <1>7 DEF vars, memory, disk, ghosts, Promising, PromisedAt, Pending, Pos
<1>8. promise' = Blank => Promising'
  BY DEF Promising
<1> QED BY <1>1, <1>2, <1>3, <1>4, <1>5, <1>6, <1>7, <1>8 DEF Next

LEMMA ListedHas ==
  ASSUME NEW f, NEW n \in Nat, NEW c, NEW s \in 0..n
  PROVE  <<c, copy[1].seg[<<f, s>>], f>> \in Listed(f, n, c)
BY Zenon DEF Listed

LEMMA KeptFound == IInv /\ KInv => KeptIsFound
<1> SUFFICES ASSUME IInv, KInv, Idle, NEW r \in kept
             PROVE  \E x \in Found : x[1] = r[1] /\ x[2] = r
  BY DEF KeptIsFound
<1>1. PICK p \in Position : KeptAt(r, p)
  BY DEF KInv, Keeping
<1>2. /\ r \in Recording /\ hdr \in Header /\ ring \in Ring /\ phase = "up"
  BY IdleFacts DEF IInv, TypeOK
<1>3. Shows(hdr, ring, r[1], p) /\ copy[1].seg[<<p[1], p[2]>>] = r
  <2>1. p = <<p[1], p[2]>>
    BY DEF Position
  <2>2. HasAt(copy[1], r, p)
    BY <1>1 DEF KeptAt
  <2> QED BY <1>1, <1>2, <2>1, <2>2 DEF KeptAt, HasAt
<1>4. r # Blank /\ r[1] \in Chan
  BY <1>2 DEF Recording, Blank, Chan
<1>5. p[1] < Total /\ p[2] \in Nat
  BY IndexAssumption DEF Position, Container, Sect
<1> DEFINE x == <<r[1], copy[1].seg[<<p[1], p[2]>>], p[1]>>
<1>6. x[1] = r[1] /\ x[2] = r /\ x[2] # Blank
  BY <1>3, <1>4
<1>7. CASE \E s \in Container :
             Live(hdr, s) /\ ring[s].chn = r[1] /\ ring[s].file = p[1] /\ p[2] <= ring[s].sects
  <2>1. PICK s \in Container :
             Live(hdr, s) /\ ring[s].chn = r[1] /\ ring[s].file = p[1] /\ p[2] <= ring[s].sects
    BY <1>7
  <2>2. ring[s].sects \in Nat
    BY <1>2 DEF Ring, Sect
  <2>3. x \in Listed(ring[s].file, ring[s].sects, ring[s].chn)
    BY <1>5, <2>1, <2>2, ListedHas
  <2>4. x \in UNION {Listed(ring[t].file, ring[t].sects, ring[t].chn) :
                       t \in {u \in Container : Live(hdr, u)}}
    BY <2>1, <2>3
  <2> HIDE DEF x
  <2>5. x \in Found
    BY <1>6, <2>4 DEF Found
  <2> QED BY <1>6, <2>5
<1>8. CASE hdr.file[r[1]] = p[1] /\ p[2] <= hdr.sect[r[1]]
  <2>1. hdr.sect[r[1]] \in Nat /\ Holds(hdr, r[1])
    BY <1>2, <1>4, <1>5, <1>8 DEF Header, Sect, Holds
  <2>2. x \in Listed(hdr.file[r[1]], hdr.sect[r[1]], r[1])
    BY <1>5, <1>8, <2>1, ListedHas
  <2>3. x \in UNION {Listed(hdr.file[c], hdr.sect[c], c) : c \in {d \in Chan : Holds(hdr, d)}}
    BY <1>4, <2>1, <2>2
  <2> HIDE DEF x
  <2>4. x \in Found
    BY <1>6, <2>3 DEF Found
  <2> QED BY <1>6, <2>4
<1> QED BY <1>3, <1>7, <1>8 DEF Shows

LEMMA KInvInit == Init => KInv
<1> SUFFICES ASSUME Init PROVE KInv
  OBVIOUS
<1>1. kept = {} /\ promise = Blank /\ \A c \in Chan : open[c] = Blank
  BY DEF Init
<1> QED BY <1>1 DEF KInv, Keeping, Promising, OwnOpen

LEMMA KInvNext == IInv /\ KInv /\ [Next]_vars => KInv'
<1> SUFFICES ASSUME IInv, KInv, [Next]_vars PROVE KInv'
  OBVIOUS
<1>1. ASSUME NEW r \in kept' PROVE \E p \in Position : KeptAt(r, p)'
  <2>1. CASE r \in kept
    <3>1. r \in Recording
      BY <2>1 DEF IInv, TypeOK
    <3>2. PICK p \in Position : KeptAt(r, p)
      BY <2>1 DEF KInv, Keeping
    <3> QED BY <1>1, <2>1, <3>1, <3>2, KeptNext
  <2>2. CASE r \notin kept
    BY <1>1, <2>2, NewlyKept
  <2> QED BY <2>1, <2>2
<1>2. Keeping'
  BY <1>1 DEF Keeping
<1>3. Promising' /\ OwnOpen'
  BY PromisingNext, OwnOpenNext DEF KInv
<1> QED BY <1>2, <1>3 DEF KInv

\* A recording that update_chn_cur_segment has returned for is found by
\* search_rec_file, under its channel, until a full disk is recorded over it,
\* whatever crashes come between.
THEOREM KeptIsFoundAlways == Spec => []KeptIsFound
<1>1. Spec => [](IInv /\ KInv)
  <2>1. Init => IInv /\ KInv
    BY InitInv, KInvInit
  <2>2. (IInv /\ KInv) /\ [Next]_vars => (IInv /\ KInv)'
    BY NextInv, KInvNext
  <2> QED BY <2>1, <2>2, PTL DEF Spec
<1> QED BY <1>1, KeptFound, PTL
---------------------------------------------------------------------------
(* No channel is shown a recording of another.                              *)

\* In the copies cp, position p holds nothing that channel c should not see.
Fair(cp, c, p) == \A k \in 1..2 : cp[k].seg[p] = Blank \/ cp[k].seg[p][1] = c

Blanking(w) == w.kind = "seg" /\ w.val = Blank

\* A restart may take header h and ring g: what they show is fair, or exposed.
FairDisk(h, g, cp, ex) ==
  \A c \in 0..NumChan, p \in Position : Shows(h, g, c, p) => Fair(cp, c, p) \/ p[1] \in ex

\* What memory shows may also be about to be blanked.
FairMemory(h, g, cp, ws, ex) ==
  \A c \in 0..NumChan, p \in Position :
    Shows(h, g, c, p) =>
      \/ Fair(cp, c, p) \/ p[1] \in ex
      \/ \E i \in 1..Len(ws) : Blanking(ws[i]) /\ ws[i].at = p

\* Where the writes ws put a recording, h and g show it to its channel only.
OnlyOwn(h, g, ws) ==
  \A i \in 1..Len(ws), c \in 0..NumChan :
    ws[i].kind = "seg" /\ ws[i].val # Blank /\ Shows(h, g, c, ws[i].at) => c = ws[i].val[1]

\* What h and g show, i and j show, in that order.
Within(h, g, i, j) ==
  /\ \A c \in 0..NumChan, p \in Position : Shows(h, g, c, p) => Shows(i, j, c, p)
  /\ \A c \in 0..NumChan, e, f \in Container : Before(h, g, c, e, f) => Before(i, j, c, e, f)

\* With the writes ws, copy d shows no more than memory.
Below(d, ws, h, g) ==
  /\ (\A i \in 1..Len(ws) : ws[i].kind # "hdr") => Within(d.hdr, d.ring, h, g)
  /\ \A i \in 1..Len(ws) :
       ws[i].kind = "hdr" /\ (\A j \in 1..Len(ws) : ws[j].kind = "hdr" => j <= i) =>
         Within(ws[i].val, g, h, g)

SInv ==
  /\ \A k \in 1..2 : copy[k].ok =>
       /\ FairDisk(copy[k].hdr, copy[k].ring, copy, exposed \cup CutShort)
       /\ OnlyOwn(copy[k].hdr, copy[k].ring, todo)
  /\ \A i \in 1..Len(todo) : todo[i].kind = "hdr" =>
       /\ FairDisk(todo[i].val, ring, copy, exposed \cup CutShort)
       /\ OnlyOwn(todo[i].val, ring, todo)
  /\ phase = "up" => /\ FairMemory(hdr, ring, copy, todo, exposed)
                     /\ OnlyOwn(hdr, ring, todo)
                     /\ \A k \in 1..2 : Below(copy[k], Pending(k), hdr, ring)
  /\ \A i \in 1..Len(todo) : Blanking(todo[i]) => i = Len(todo)
  /\ half /\ Head(todo).kind = "seg" => copy[1].seg[Head(todo).at] = Head(todo).val

LEMMA ShownBefore ==
  ASSUME NEW d \in IndexFile, NEW ws \in Seq(Writes), NEW h, NEW g, ws # <<>>,
         Leads(d, ws, h, g), NEW c, NEW p,
         Shows(Apply(d, Head(ws)).hdr, Apply(d, Head(ws)).ring, c, p)
  PROVE  \/ Head(ws).kind # "hdr" /\ Shows(d.hdr, d.ring, c, p)
         \/ Head(ws).kind = "hdr" /\ Shows(Head(ws).val, g, c, p)
<1> DEFINE w == Head(ws)
           e == Apply(d, w)
<1>1. /\ w \in Writes
      /\ w.kind = "ring" => ~Live(d.hdr, w.at)
      /\ w.kind = "hdr" => d.ring = g
  BY FirstWrite
<1> HIDE DEF w
<1>2. /\ w.kind # "hdr" => e.hdr = d.hdr
      /\ w.kind # "ring" => e.ring = d.ring
      /\ w.kind = "hdr" => e.hdr = w.val
      /\ w.kind = "ring" => e.ring = [d.ring EXCEPT ![w.at] = w.val]
  BY <1>1, ApplyType
<1>0. Shows(e.hdr, e.ring, c, p)
  BY DEF w
<1> HIDE DEF e
<1>3. w.kind # "hdr" => \A s \in Container : Live(e.hdr, s) => d.ring[s] = e.ring[s]
  <2>1. d.ring \in Ring
    BY DEF IndexFile
  <2> QED BY <1>1, <1>2, <2>1 DEF Ring
<1>4. w.kind # "hdr" => Shows(d.hdr, d.ring, c, p)
  BY <1>0, <1>2, <1>3, ShowsSame
<1>5. w.kind = "hdr" => Shows(w.val, g, c, p)
  BY <1>0, <1>1, <1>2
<1> QED BY <1>4, <1>5 DEF w

LEMMA BeforeBefore ==
  ASSUME NEW d \in IndexFile, NEW ws \in Seq(Writes), NEW h, NEW g, ws # <<>>,
         Leads(d, ws, h, g), NEW c, NEW x, NEW y,
         Before(Apply(d, Head(ws)).hdr, Apply(d, Head(ws)).ring, c, x, y)
  PROVE  \/ Head(ws).kind # "hdr" /\ Before(d.hdr, d.ring, c, x, y)
         \/ Head(ws).kind = "hdr" /\ Before(Head(ws).val, g, c, x, y)
<1> DEFINE w == Head(ws)
           e == Apply(d, w)
<1>1. /\ w \in Writes
      /\ w.kind = "ring" => ~Live(d.hdr, w.at)
      /\ w.kind = "hdr" => d.ring = g
  BY FirstWrite
<1> HIDE DEF w
<1>2. /\ w.kind # "hdr" => e.hdr = d.hdr
      /\ w.kind # "ring" => e.ring = d.ring
      /\ w.kind = "hdr" => e.hdr = w.val
      /\ w.kind = "ring" => e.ring = [d.ring EXCEPT ![w.at] = w.val]
  BY <1>1, ApplyType
<1>3. Before(e.hdr, e.ring, c, x, y)
  BY DEF w
<1> HIDE DEF e
<1>4. w.kind # "hdr" => \A s \in Container : Live(e.hdr, s) => d.ring[s] = e.ring[s]
  <2>1. d.ring \in Ring
    BY DEF IndexFile
  <2> QED BY <1>1, <1>2, <2>1 DEF Ring
<1>5. w.kind # "hdr" => Before(d.hdr, d.ring, c, x, y)
  BY <1>2, <1>3, <1>4 DEF Before
<1>6. w.kind = "hdr" => Before(w.val, g, c, x, y)
  BY <1>1, <1>2, <1>3
<1> QED BY <1>5, <1>6 DEF w

\* The writes after the first.
LEMMA TailFacts ==
  ASSUME NEW ws \in Seq(Writes), ws # <<>>
  PROVE  /\ Tail(ws) \in Seq(Writes) /\ Head(ws) = ws[1] /\ 1 \in 1..Len(ws)
         /\ Len(ws) \in Nat /\ Len(Tail(ws)) = Len(ws) - 1
         /\ \A i \in 1..Len(Tail(ws)) : i + 1 \in 1..Len(ws) /\ Tail(ws)[i] = ws[i + 1]
         /\ \A i \in 1..Len(ws) : i # 1 => i - 1 \in 1..Len(Tail(ws)) /\ ws[i] = Tail(ws)[i - 1]
OBVIOUS

LEMMA BelowOn ==
  ASSUME NEW d \in IndexFile, NEW ws \in Seq(Writes), NEW h, NEW g, ws # <<>>,
         Leads(d, ws, h, g), Below(d, ws, h, g)
  PROVE  Below(Apply(d, Head(ws)), Tail(ws), h, g)
<1> DEFINE w == Head(ws)
           e == Apply(d, w)
           vs == Tail(ws)
<1>1. /\ w = ws[1] /\ 1 \in 1..Len(ws) /\ Len(ws) \in Nat
      /\ \A i \in 1..Len(vs) : i + 1 \in 1..Len(ws) /\ vs[i] = ws[i + 1]
      /\ \A i \in 1..Len(ws) : i # 1 => i - 1 \in 1..Len(vs) /\ ws[i] = vs[i - 1]
  BY TailFacts
<1>2. \A c \in 0..NumChan, p \in Position : Shows(e.hdr, e.ring, c, p) =>
        \/ w.kind # "hdr" /\ Shows(d.hdr, d.ring, c, p)
        \/ w.kind = "hdr" /\ Shows(w.val, g, c, p)
  BY ShownBefore
<1>2a. \A c \in 0..NumChan, x, y \in Container : Before(e.hdr, e.ring, c, x, y) =>
         \/ w.kind # "hdr" /\ Before(d.hdr, d.ring, c, x, y)
         \/ w.kind = "hdr" /\ Before(w.val, g, c, x, y)
  BY BeforeBefore
<1> HIDE DEF w, e, vs
<1>3. ASSUME \A i \in 1..Len(vs) : vs[i].kind # "hdr" PROVE Within(e.hdr, e.ring, h, g)
  <2>1. \A i \in 1..Len(ws) : i # 1 => ws[i].kind # "hdr"
    BY <1>1, <1>3
  <2>2. CASE w.kind = "hdr"
    <3>1. \A j \in 1..Len(ws) : ws[j].kind = "hdr" => j <= 1
      BY <2>1, <1>1
    <3>2. Within(w.val, g, h, g)
      BY <1>1, <2>2, <3>1 DEF Below
    <3> QED BY <1>2, <1>2a, <2>2, <3>2 DEF Within
  <2>3. CASE w.kind # "hdr"
    <3>1. \A i \in 1..Len(ws) : ws[i].kind # "hdr"
      BY <1>1, <2>1, <2>3
    <3>2. Within(d.hdr, d.ring, h, g)
      BY <3>1 DEF Below
    <3> QED BY <1>2, <1>2a, <2>3, <3>2 DEF Within
  <2> QED BY <2>2, <2>3
<1>4. ASSUME NEW i \in 1..Len(vs), vs[i].kind = "hdr",
             \A j \in 1..Len(vs) : vs[j].kind = "hdr" => j <= i
      PROVE  Within(vs[i].val, g, h, g)
  <2>1. i + 1 \in 1..Len(ws) /\ vs[i] = ws[i + 1]
    BY <1>1
  <2>2. ASSUME NEW j \in 1..Len(ws), ws[j].kind = "hdr" PROVE j <= i + 1
    <3>1. CASE j = 1
      BY <2>1, <3>1
    <3>2. CASE j # 1
      <4>1. j - 1 \in 1..Len(vs) /\ ws[j] = vs[j - 1]
        BY <1>1, <3>2
      <4>2. j - 1 <= i
        BY <1>4, <2>2, <4>1
      <4> QED BY <4>2
    <3> QED BY <3>1, <3>2
  <2> QED BY <1>4, <2>1, <2>2 DEF Below
<1> QED BY <1>3, <1>4 DEF Below, w, e, vs

LEMMA FairOn ==
  ASSUME NEW cp \in [1..2 -> IndexFile], NEW k \in 1..2, NEW w \in Writes,
         NEW c, NEW p \in Position, Fair(cp, c, p),
         w.kind = "seg" /\ w.val # Blank /\ w.at = p => c = w.val[1]
  PROVE  Fair([cp EXCEPT ![k] = Apply(@, w)], c, p)
<1> DEFINE dp == [cp EXCEPT ![k] = Apply(@, w)]
<1>1. dp[k] = Apply(cp[k], w) /\ \A l \in 1..2 : l # k => dp[l] = cp[l]
  OBVIOUS
<1>2. cp[k].seg[p] = Blank \/ cp[k].seg[p][1] = c
  BY DEF Fair
<1>3. Apply(cp[k], w).seg[p] = Blank \/ Apply(cp[k], w).seg[p][1] = c
  <2>1. CASE w.kind = "seg" /\ w.at = p
    BY <2>1, ApplySeg
  <2>2. CASE ~(w.kind = "seg" /\ w.at = p)
    <3>1. Apply(cp[k], w).seg[p] = cp[k].seg[p]
      BY <2>2, ApplySeg
    <3> QED BY <1>2, <3>1
  <2> QED BY <2>1, <2>2
<1> HIDE DEF dp
<1>4. \A l \in 1..2 : dp[l].seg[p] = Blank \/ dp[l].seg[p][1] = c
  BY <1>1, <1>3 DEF Fair
<1> QED BY <1>4 DEF Fair, dp

LEMMA FairDiskOn ==
  ASSUME NEW cp \in [1..2 -> IndexFile], NEW k \in 1..2, NEW ws \in Seq(Writes), ws # <<>>,
         NEW h, NEW g, NEW ex, FairDisk(h, g, cp, ex), OnlyOwn(h, g, ws)
  PROVE  FairDisk(h, g, [cp EXCEPT ![k] = Apply(@, Head(ws))], ex)
<1>1. Head(ws) \in Writes /\ Head(ws) = ws[1] /\ 1 \in 1..Len(ws)
  OBVIOUS
<1> SUFFICES ASSUME NEW c \in 0..NumChan, NEW p \in Position, Shows(h, g, c, p), p[1] \notin ex
             PROVE  Fair([cp EXCEPT ![k] = Apply(@, Head(ws))], c, p)
  BY DEF FairDisk
<1>2. Fair(cp, c, p)
  BY DEF FairDisk
<1>3. Head(ws).kind = "seg" /\ Head(ws).val # Blank /\ Head(ws).at = p => c = Head(ws).val[1]
  BY <1>1 DEF OnlyOwn
<1> QED BY <1>1, <1>2, <1>3, FairOn

LEMMA FairMemoryOn ==
  ASSUME NEW cp \in [1..2 -> IndexFile], NEW k \in 1..2, NEW ws \in Seq(Writes), ws # <<>>,
         NEW h, NEW g, NEW ex, FairMemory(h, g, cp, ws, ex), OnlyOwn(h, g, ws)
  PROVE  FairMemory(h, g, [cp EXCEPT ![k] = Apply(@, Head(ws))], ws, ex)
<1> DEFINE dp == [cp EXCEPT ![k] = Apply(@, Head(ws))]
<1>1. Head(ws) \in Writes /\ Head(ws) = ws[1] /\ 1 \in 1..Len(ws)
  OBVIOUS
<1>2. ASSUME NEW c \in 0..NumChan, NEW p \in Position, Shows(h, g, c, p), Fair(cp, c, p)
      PROVE  Fair(dp, c, p)
  <2>1. Head(ws).kind = "seg" /\ Head(ws).val # Blank /\ Head(ws).at = p => c = Head(ws).val[1]
    BY <1>1, <1>2 DEF OnlyOwn
  <2> QED BY <1>1, <1>2, <2>1, FairOn
<1> HIDE DEF dp
<1>3. FairMemory(h, g, dp, ws, ex)
  BY <1>2 DEF FairMemory
<1> QED BY <1>3 DEF dp

\* What a write leaves a copy to show is fair if the copy and the write are.
LEMMA CopyOn ==
  ASSUME NEW d \in IndexFile, NEW ws \in Seq(Writes), NEW h, NEW g, ws # <<>>,
         Leads(d, ws, h, g), NEW cp, NEW ex, NEW vs,
         Head(ws).kind # "hdr" => FairDisk(d.hdr, d.ring, cp, ex) /\ OnlyOwn(d.hdr, d.ring, vs),
         Head(ws).kind = "hdr" => FairDisk(Head(ws).val, g, cp, ex) /\ OnlyOwn(Head(ws).val, g, vs)
  PROVE  /\ FairDisk(Apply(d, Head(ws)).hdr, Apply(d, Head(ws)).ring, cp, ex)
         /\ OnlyOwn(Apply(d, Head(ws)).hdr, Apply(d, Head(ws)).ring, vs)
<1> DEFINE w == Head(ws)
           e == Apply(d, w)
<1>1. \A c, p : Shows(e.hdr, e.ring, c, p) =>
        \/ w.kind # "hdr" /\ Shows(d.hdr, d.ring, c, p)
        \/ w.kind = "hdr" /\ Shows(w.val, g, c, p)
  BY ShownBefore
<1>2. /\ w.kind # "hdr" => FairDisk(d.hdr, d.ring, cp, ex) /\ OnlyOwn(d.hdr, d.ring, vs)
      /\ w.kind = "hdr" => FairDisk(w.val, g, cp, ex) /\ OnlyOwn(w.val, g, vs)
  OBVIOUS
<1> HIDE DEF w, e
<1>3. FairDisk(e.hdr, e.ring, cp, ex)
  BY <1>1, <1>2 DEF FairDisk
<1>4. OnlyOwn(e.hdr, e.ring, vs)
  BY <1>1, <1>2 DEF OnlyOwn
<1> QED BY <1>3, <1>4 DEF w, e

LEMMA WriteFirstFair ==
  ASSUME IInv, SInv, WriteFirst
  PROVE  SInv'
<1> DEFINE w == Head(todo)
           ex == exposed \cup CutShort
<1>1. /\ phase = "up" /\ todo # <<>> /\ half = FALSE /\ half' = TRUE
      /\ copy' = [copy EXCEPT ![1] = Apply(@, w)]
      /\ UNCHANGED <<phase, hdr, ring, todo, exposed>>
  BY CopyFacts DEF WriteFirst, memory, ghosts
<1>2. /\ todo \in Seq(Writes) /\ copy \in [1..2 -> IndexFile]
      /\ Leads(copy[1], todo, hdr, ring)
      /\ copy[1].ok /\ copy[2].ok
  BY <1>1, CopyFacts DEF Pending
<1>3. copy'[1] = Apply(copy[1], w) /\ copy'[2] = copy[2]
  BY <1>1, <1>2
<1>4. w \in Writes /\ w = todo[1] /\ 1 \in 1..Len(todo)
  BY <1>1, <1>2
<1>5. ex' = ex
  BY <1>1 DEF CutShort
<1>6. \A h, g : FairDisk(h, g, copy, ex) /\ OnlyOwn(h, g, todo) => FairDisk(h, g, copy', ex)
  BY <1>1, <1>2, FairDiskOn
<1>7. \A k \in 1..2 : /\ FairDisk(copy[k].hdr, copy[k].ring, copy', ex)
                      /\ OnlyOwn(copy[k].hdr, copy[k].ring, todo)
  BY <1>1, <1>2, <1>6, CopyFacts DEF SInv
<1>8. \A i \in 1..Len(todo) : todo[i].kind = "hdr" =>
        FairDisk(todo[i].val, ring, copy', ex) /\ OnlyOwn(todo[i].val, ring, todo)
  BY <1>6 DEF SInv
<1>9. /\ FairDisk(copy'[1].hdr, copy'[1].ring, copy', ex)
      /\ OnlyOwn(copy'[1].hdr, copy'[1].ring, todo)
  <2>1. /\ w.kind # "hdr" => /\ FairDisk(copy[1].hdr, copy[1].ring, copy', ex)
                             /\ OnlyOwn(copy[1].hdr, copy[1].ring, todo)
        /\ w.kind = "hdr" => FairDisk(w.val, ring, copy', ex) /\ OnlyOwn(w.val, ring, todo)
    <3>1. 1 \in 1..2
      OBVIOUS
    <3> HIDE DEF w, ex
    <3> QED BY <1>4, <1>7, <1>8, <3>1
  <2>2. copy[1] \in IndexFile
    BY <1>2
  <2> HIDE DEF ex
  <2>3. /\ FairDisk(Apply(copy[1], Head(todo)).hdr, Apply(copy[1], Head(todo)).ring, copy', ex)
        /\ OnlyOwn(Apply(copy[1], Head(todo)).hdr, Apply(copy[1], Head(todo)).ring, todo)
    BY <1>1, <1>2, <2>1, <2>2, CopyOn
  <2> QED BY <1>3, <2>3
<1>10. FairMemory(hdr, ring, copy', todo, exposed) /\ OnlyOwn(hdr, ring, todo)
  BY <1>1, <1>2, FairMemoryOn DEF SInv
<1>11. \A k \in 1..2 : Below(copy'[k], Pending(k)', hdr', ring')
  <2>1. Pending(1) = todo /\ Pending(2) = todo /\ Pending(1)' = Tail(todo) /\ Pending(2)' = todo
    BY <1>1 DEF Pending
  <2>2. Below(copy[1], todo, hdr, ring) /\ Below(copy[2], todo, hdr, ring)
    BY <1>1, <2>1 DEF SInv
  <2>3. Below(copy'[1], Tail(todo), hdr, ring)
    BY <1>1, <1>2, <1>3, <2>2, BelowOn
  <2>4. \A k \in 1..2 : k = 1 \/ k = 2
    OBVIOUS
  <2> QED BY <1>1, <1>3, <2>1, <2>2, <2>3, <2>4
<1>12. w.kind = "seg" => copy'[1].seg[w.at] = w.val
  BY <1>2, <1>3, <1>4, ApplySeg
<1>13. \A k \in 1..2 : /\ FairDisk(copy'[k].hdr, copy'[k].ring, copy', ex')
                       /\ OnlyOwn(copy'[k].hdr, copy'[k].ring, todo')
  <2>1. \A k \in 1..2 : k = 1 \/ k = 2
    OBVIOUS
  <2> QED BY <1>1, <1>3, <1>5, <1>7, <1>9, <2>1
<1>14. \A i \in 1..Len(todo') : todo'[i].kind = "hdr" =>
         FairDisk(todo'[i].val, ring', copy', ex') /\ OnlyOwn(todo'[i].val, ring', todo')
  BY <1>1, <1>5, <1>8
<1>15. \A i \in 1..Len(todo') : Blanking(todo'[i]) => i = Len(todo')
  BY <1>1 DEF SInv
<1>16. FairMemory(hdr', ring', copy', todo', exposed') /\ OnlyOwn(hdr', ring', todo')
  BY <1>1, <1>10
<1>17. half' /\ Head(todo').kind = "seg" => copy'[1].seg[Head(todo').at] = Head(todo').val
  BY <1>1, <1>12
<1> QED BY <1>11, <1>13, <1>14, <1>15, <1>16, <1>17 DEF SInv

LEMMA OnlyOwnTail ==
  ASSUME NEW ws \in Seq(Writes), ws # <<>>, NEW h, NEW g, OnlyOwn(h, g, ws)
  PROVE  OnlyOwn(h, g, Tail(ws))
BY TailFacts DEF OnlyOwn

\* After the last write a copy shows no more than memory.
LEMMA LastWrite ==
  ASSUME NEW d, NEW h, NEW g, NEW cp, NEW ex, Below(d, <<>>, h, g), FairMemory(h, g, cp, <<>>, ex)
  PROVE  FairDisk(d.hdr, d.ring, cp, ex)
<1>1. Within(d.hdr, d.ring, h, g)
  BY DEF Below
<1>2. FairDisk(h, g, cp, ex)
  BY DEF FairMemory, FairDisk
<1> QED BY <1>1, <1>2 DEF Within, FairDisk

LEMMA FairMemoryTail ==
  ASSUME NEW cp \in [1..2 -> IndexFile], NEW ws \in Seq(Writes), ws # <<>>,
         NEW h, NEW g, NEW ex, FairMemory(h, g, cp, ws, ex), OnlyOwn(h, g, ws),
         Head(ws).kind = "seg" => cp[1].seg[Head(ws).at] = Head(ws).val
  PROVE  FairMemory(h, g, [cp EXCEPT ![2] = Apply(@, Head(ws))], Tail(ws), ex)
<1> DEFINE w == Head(ws)
           dp == [cp EXCEPT ![2] = Apply(@, w)]
           vs == Tail(ws)
<1>1. /\ w \in Writes /\ w = ws[1]
      /\ \A i \in 1..Len(ws) : i # 1 => i - 1 \in 1..Len(vs) /\ ws[i] = vs[i - 1]
  BY TailFacts
<1>2. FairMemory(h, g, dp, ws, ex)
  BY FairMemoryOn
<1>3. dp[1] = cp[1] /\ dp[2] = Apply(cp[2], w)
  OBVIOUS
<1>4. ASSUME NEW c \in 0..NumChan, NEW p \in Position, Blanking(w), w.at = p
      PROVE  Fair(dp, c, p)
  <2>1. cp[1].seg[p] = Blank
    BY <1>4 DEF Blanking
  <2>2. Apply(cp[2], w).seg[p] = Blank
    BY <1>1, <1>4, ApplySeg DEF Blanking
  <2>3. \A k \in 1..2 : k = 1 \/ k = 2
    OBVIOUS
  <2> HIDE DEF dp, w
  <2> QED BY <1>3, <2>1, <2>2, <2>3 DEF Fair
<1> HIDE DEF w, dp, vs
<1> SUFFICES ASSUME NEW c \in 0..NumChan, NEW p \in Position, Shows(h, g, c, p),
                    ~Fair(dp, c, p), p[1] \notin ex
             PROVE  \E i \in 1..Len(vs) : Blanking(vs[i]) /\ vs[i].at = p
  BY DEF FairMemory, w, dp, vs
<1>5. PICK i \in 1..Len(ws) : Blanking(ws[i]) /\ ws[i].at = p
  BY <1>2 DEF FairMemory
<1>6. i # 1
  BY <1>1, <1>4, <1>5
<1> QED BY <1>1, <1>5, <1>6

LEMMA WriteSecondFair ==
  ASSUME IInv, SInv, WriteSecond
  PROVE  SInv'
<1> DEFINE w == Head(todo)
           vs == Tail(todo)
           ex == exposed \cup CutShort
<1>1. /\ phase = "up" /\ todo # <<>> /\ half = TRUE /\ half' = FALSE
      /\ copy' = [copy EXCEPT ![2] = Apply(@, w)] /\ todo' = vs
      /\ UNCHANGED <<phase, hdr, ring, exposed>>
  BY CopyFacts DEF WriteSecond, memory
<1>2. /\ todo \in Seq(Writes) /\ copy \in [1..2 -> IndexFile]
      /\ copy[2] \in IndexFile
      /\ Leads(copy[2], todo, hdr, ring)
      /\ copy[1].ok /\ copy[2].ok
  BY <1>1, CopyFacts DEF Pending
<1>3. copy'[2] = Apply(copy[2], w) /\ copy'[1] = copy[1]
  BY <1>1, <1>2
<1>4. /\ w \in Writes /\ w = todo[1] /\ 1 \in 1..Len(todo) /\ vs \in Seq(Writes)
      /\ Len(todo) \in Nat /\ Len(vs) = Len(todo) - 1
      /\ \A i \in 1..Len(vs) : i + 1 \in 1..Len(todo) /\ vs[i] = todo[i + 1]
      /\ \A i \in 1..Len(todo) : i # 1 => i - 1 \in 1..Len(vs) /\ todo[i] = vs[i - 1]
  BY <1>1, <1>2, TailFacts
<1>5. \A h, g : FairDisk(h, g, copy, ex) /\ OnlyOwn(h, g, todo) => FairDisk(h, g, copy', ex)
  BY <1>1, <1>2, FairDiskOn
<1>6. \A k \in 1..2 : /\ FairDisk(copy[k].hdr, copy[k].ring, copy', ex)
                      /\ OnlyOwn(copy[k].hdr, copy[k].ring, todo)
  BY <1>1, <1>2, <1>5, CopyFacts DEF SInv
<1>7. \A i \in 1..Len(todo) : todo[i].kind = "hdr" =>
        FairDisk(todo[i].val, ring, copy', ex) /\ OnlyOwn(todo[i].val, ring, todo)
  BY <1>5 DEF SInv
<1>8. \A h, g : OnlyOwn(h, g, todo) => OnlyOwn(h, g, vs)
  BY <1>1, <1>2, OnlyOwnTail
<1>9. /\ FairDisk(copy'[2].hdr, copy'[2].ring, copy', ex)
      /\ OnlyOwn(copy'[2].hdr, copy'[2].ring, todo)
  <2>1. /\ w.kind # "hdr" => /\ FairDisk(copy[2].hdr, copy[2].ring, copy', ex)
                             /\ OnlyOwn(copy[2].hdr, copy[2].ring, todo)
        /\ w.kind = "hdr" => FairDisk(w.val, ring, copy', ex) /\ OnlyOwn(w.val, ring, todo)
    <3>1. 2 \in 1..2
      OBVIOUS
    <3> HIDE DEF w, ex, vs
    <3> QED BY <1>4, <1>6, <1>7, <3>1
  <2> HIDE DEF ex
  <2>2. /\ FairDisk(Apply(copy[2], Head(todo)).hdr, Apply(copy[2], Head(todo)).ring, copy', ex)
        /\ OnlyOwn(Apply(copy[2], Head(todo)).hdr, Apply(copy[2], Head(todo)).ring, todo)
    BY <1>1, <1>2, <2>1, CopyOn
  <2> QED BY <1>3, <2>2
<1>10. \A k \in 1..2 : /\ FairDisk(copy'[k].hdr, copy'[k].ring, copy', ex)
                       /\ OnlyOwn(copy'[k].hdr, copy'[k].ring, todo')
  <2>1. \A k \in 1..2 : k = 1 \/ k = 2
    OBVIOUS
  <2> HIDE DEF w, vs, ex
  <2> QED BY <1>1, <1>3, <1>6, <1>8, <1>9, <2>1
<1>11. FairMemory(hdr', ring', copy', todo', exposed') /\ OnlyOwn(hdr', ring', todo')
  <2>1. w.kind = "seg" => copy[1].seg[w.at] = w.val
    BY <1>1 DEF SInv
  <2>2. FairMemory(hdr, ring, copy, todo, exposed) /\ OnlyOwn(hdr, ring, todo)
    BY <1>1 DEF SInv
  <2>3. FairMemory(hdr, ring, copy', vs, exposed)
    BY <1>1, <1>2, <2>1, <2>2, FairMemoryTail
  <2> HIDE DEF vs
  <2> QED BY <1>1, <1>8, <2>2, <2>3
<1>12. \A k \in 1..2 : Below(copy'[k], todo', hdr', ring')
  <2>1. Pending(1) = vs /\ Pending(2) = todo
    BY <1>1 DEF Pending
  <2>2. Below(copy[1], vs, hdr, ring) /\ Below(copy[2], todo, hdr, ring)
    <3>1. \A k \in 1..2 : Below(copy[k], Pending(k), hdr, ring)
      BY <1>1 DEF SInv
    <3>2. 1 \in 1..2 /\ 2 \in 1..2
      OBVIOUS
    <3> QED BY <2>1, <3>1, <3>2, Zenon
  <2>3. Below(copy'[2], vs, hdr, ring)
    BY <1>1, <1>2, <1>3, <2>2, BelowOn
  <2>4. \A k \in 1..2 : k = 1 \/ k = 2
    OBVIOUS
  <2> HIDE DEF vs
  <2> QED BY <1>1, <1>3, <2>2, <2>3, <2>4
<1>13. CASE Len(todo) = 1
  <2>1. todo' = <<>> /\ CutShort' = {}
    <3>1. todo' = <<>>
      BY <1>1, <1>4, <1>13
    <3> QED BY <3>1 DEF CutShort
  <2>2. \A k \in 1..2 : FairDisk(copy'[k].hdr, copy'[k].ring, copy', exposed')
    BY <1>11, <1>12, <2>1, LastWrite
  <2>3. exposed' \cup CutShort' = exposed'
    BY <2>1
  <2>4. \A i \in 1..Len(todo') : FALSE
    BY <2>1
  <2>5. \A k \in 1..2 : Pending(k)' = todo'
    BY <1>1 DEF Pending
  <2> HIDE DEF w, vs, ex
  <2> QED BY <1>1, <1>10, <1>11, <1>12, <2>2, <2>3, <2>4, <2>5 DEF SInv
<1>14. CASE Len(todo) # 1
  <2>1. ex \subseteq exposed' \cup CutShort'
    <3>1. ASSUME NEW i \in 1..Len(todo), Blanking(todo[i])
          PROVE  \E j \in 1..Len(vs) : Blanking(vs[j]) /\ vs[j].at = todo[i].at
      <4>1. i = Len(todo)
        BY <3>1 DEF SInv
      <4>2. i - 1 \in 1..Len(vs) /\ todo[i] = vs[i - 1]
        BY <1>4, <1>14, <4>1
      <4> QED BY <3>1, <4>2
    <3>2. \A ws : {ws[i].at[1] : i \in {j \in 1..Len(ws) : ws[j].kind = "seg" /\ ws[j].val = Blank}}
                    = {ws[i].at[1] : i \in {j \in 1..Len(ws) : Blanking(ws[j])}}
      BY DEF Blanking
    <3>3. /\ CutShort = {todo[i].at[1] : i \in {j \in 1..Len(todo) : Blanking(todo[j])}}
          /\ CutShort' = {todo'[i].at[1] : i \in {j \in 1..Len(todo') : Blanking(todo'[j])}}
      BY <3>2 DEF CutShort
    <3> HIDE DEF vs
    <3>4. CutShort \subseteq CutShort'
      BY <1>1, <3>1, <3>3
    <3> QED BY <1>1, <3>4
  <2>2. \A h, g, cp : FairDisk(h, g, cp, ex) => FairDisk(h, g, cp, exposed' \cup CutShort')
    <3> HIDE DEF ex
    <3> QED BY <2>1 DEF FairDisk
  <2>3. \A i \in 1..Len(todo') : todo'[i].kind = "hdr" =>
          FairDisk(todo'[i].val, ring', copy', exposed' \cup CutShort') /\ OnlyOwn(todo'[i].val, ring', todo')
    <3> SUFFICES ASSUME NEW i \in 1..Len(todo'), todo'[i].kind = "hdr"
                 PROVE  /\ FairDisk(todo'[i].val, ring', copy', exposed' \cup CutShort')
                        /\ OnlyOwn(todo'[i].val, ring', todo')
      OBVIOUS
    <3>1. i + 1 \in 1..Len(todo) /\ todo'[i] = todo[i + 1] /\ ring' = ring /\ todo' = vs
      BY <1>1, <1>4
    <3> HIDE DEF vs, ex
    <3>2. FairDisk(todo[i + 1].val, ring, copy', ex) /\ OnlyOwn(todo[i + 1].val, ring, todo)
      BY <1>7, <3>1
    <3>3. FairDisk(todo'[i].val, ring', copy', exposed' \cup CutShort')
      BY <2>2, <3>1, <3>2
    <3>4. OnlyOwn(todo'[i].val, ring', todo')
      BY <1>8, <3>1, <3>2
    <3> QED BY <3>3, <3>4
  <2>4. \A i \in 1..Len(todo') : Blanking(todo'[i]) => i = Len(todo')
    <3>1. \A i \in 1..Len(todo) : Blanking(todo[i]) => i = Len(todo)
      BY DEF SInv
    <3> HIDE DEF vs
    <3> QED BY <1>1, <1>4, <3>1
  <2>5. \A k \in 1..2 : Pending(k)' = todo'
    BY <1>1 DEF Pending
  <2> HIDE DEF w, vs, ex
  <2> QED BY <1>1, <1>10, <1>11, <1>12, <2>2, <2>3, <2>4, <2>5 DEF SInv
<1> QED BY <1>13, <1>14

LEMMA FairCopied ==
  ASSUME NEW cp, NEW dp, \A k \in 1..2 : \E l \in 1..2 : dp[k].seg = cp[l].seg
  PROVE  /\ \A c, p : Fair(cp, c, p) => Fair(dp, c, p)
         /\ \A h, g, ex : FairDisk(h, g, cp, ex) => FairDisk(h, g, dp, ex)
<1>1. \A c, p : Fair(cp, c, p) => Fair(dp, c, p)
  BY DEF Fair
<1> QED BY <1>1 DEF FairDisk

\* No writes are to be made, and the index is not in memory.
LEMMA DownFair ==
  ASSUME todo' = <<>>, half' = FALSE, phase' # "up",
         \A k \in 1..2 : copy'[k].ok => FairDisk(copy'[k].hdr, copy'[k].ring, copy', exposed')
  PROVE  SInv'
<1>1. \A i \in 1..Len(todo') : FALSE
  OBVIOUS
<1>2. exposed' \cup CutShort' = exposed'
  BY <1>1 DEF CutShort
<1>3. \A h, g : OnlyOwn(h, g, todo')
  BY <1>1 DEF OnlyOwn
<1> QED BY <1>1, <1>2, <1>3 DEF SInv

LEMMA CrashFair ==
  ASSUME IInv, SInv, Crash \/ CrashInInit
  PROVE  SInv'
<1> DEFINE ex == exposed \cup CutShort
<1>1. /\ phase' = "down" /\ todo' = <<>> /\ half' = FALSE /\ exposed' = ex
      /\ copy \in [1..2 -> IndexFile]
  BY DEF Crash, CrashInInit, Down, IInv, TypeOK
<1>2. \A k \in 1..2 : /\ copy'[k].hdr = copy[k].hdr /\ copy'[k].ring = copy[k].ring
                      /\ copy'[k].seg = copy[k].seg /\ (copy'[k].ok => copy[k].ok)
  <2>1. CASE copy' = copy
    BY <2>1
  <2>2. CASE copy' = [k \in 1..2 |-> IF k \in Unsynced THEN [copy[k] EXCEPT !.ok = FALSE]
                                                       ELSE copy[k]]
    <3>1. \A k \in 1..2 : LET d == [copy[k] EXCEPT !.ok = FALSE]
                          IN  /\ d.hdr = copy[k].hdr /\ d.ring = copy[k].ring
                              /\ d.seg = copy[k].seg /\ ~d.ok
      BY <1>1 DEF IndexFile
    <3>2. \A k \in 1..2 : copy'[k] = copy[k] \/ copy'[k] = [copy[k] EXCEPT !.ok = FALSE]
      BY <2>2
    <3> QED BY <3>1, <3>2
  <2> QED BY <2>1, <2>2 DEF Crash, CrashInInit
<1>3. \A k \in 1..2 : copy[k].ok => FairDisk(copy[k].hdr, copy[k].ring, copy, ex)
  BY DEF SInv
<1>4. \A h, g : FairDisk(h, g, copy, ex) => FairDisk(h, g, copy', ex)
  BY <1>2, FairCopied
<1> HIDE DEF ex
<1>5. \A k \in 1..2 : copy'[k].ok => FairDisk(copy'[k].hdr, copy'[k].ring, copy', exposed')
  BY <1>1, <1>2, <1>3, <1>4
<1> QED BY <1>1, <1>5, DownFair

LEMMA StartCopyFair ==
  ASSUME IInv, SInv, StartCopy
  PROVE  SInv'
<1>1. /\ phase' = "copying" /\ copy' = HeadCopied /\ copy \in [1..2 -> IndexFile]
      /\ UNCHANGED <<todo, half, exposed>>
  BY DEF StartCopy, IInv, TypeOK, ghosts
<1>2. todo = <<>> /\ half = FALSE
  BY DEF StartCopy, IInv
<1>3. Source \in 1..2 /\ Target \in 1..2 /\ \A k \in 1..2 : k = Source \/ k = Target
  BY DEF Source, Target
<1>4. /\ copy' = [copy EXCEPT ![Target] = [copy[Target] EXCEPT !.hdr = copy[Source].hdr, !.ok = FALSE]]
      /\ copy[Target] \in IndexFile
  BY <1>1, <1>3 DEF HeadCopied
<1>5. \A k \in 1..2 : \/ copy'[k] = copy[k]
                      \/ copy'[k].seg = copy[k].seg /\ copy'[k].ok = FALSE
  BY <1>1, <1>3, <1>4 DEF IndexFile
<1>6. exposed \cup CutShort = exposed
  BY <1>2 DEF CutShort
<1>7. \A k \in 1..2 : copy[k].ok => FairDisk(copy[k].hdr, copy[k].ring, copy, exposed)
  BY <1>6 DEF SInv
<1>8. \A h, g, ex : FairDisk(h, g, copy, ex) => FairDisk(h, g, copy', ex)
  BY <1>5, FairCopied
<1>9. \A k \in 1..2 : copy'[k].ok => FairDisk(copy'[k].hdr, copy'[k].ring, copy', exposed')
  BY <1>1, <1>5, <1>7, <1>8
<1> QED BY <1>1, <1>2, <1>9, DownFair

LEMMA FinishCopyFair ==
  ASSUME IInv, SInv, FinishCopy
  PROVE  SInv'
<1> DEFINE d == Copied(Target, Source)
<1>1. /\ copy' = [copy EXCEPT ![Target] = d] /\ copy \in [1..2 -> IndexFile]
      /\ hdr' = copy[Source].hdr /\ ring' = copy[Source].ring
      /\ UNCHANGED <<todo, half, exposed>>
  BY DEF FinishCopy, IInv, TypeOK, ghosts
<1>2. todo = <<>> /\ half = FALSE
  BY DEF FinishCopy, IInv
<1>3. Source \in 1..2 /\ Target \in 1..2 /\ \A k \in 1..2 : k = Source \/ k = Target
  BY DEF Source, Target
<1>4. copy[Source].ok
  BY DEF IInv, AlwaysAValidCopy, Source
<1>5. /\ d.hdr = copy[Source].hdr /\ d.ring = copy[Source].ring
      /\ d.seg = copy[Source].seg \/ d.seg = copy[Target].seg
  <2>1. copy[Source] \in IndexFile /\ copy[Target] \in IndexFile
    BY <1>1, <1>3
  <2> QED BY <2>1 DEF Copied, IndexFile
<1> HIDE DEF d
<1>6. /\ \A k \in 1..2 : copy'[k].hdr = hdr' /\ copy'[k].ring = ring'
      /\ \A k \in 1..2 : \E l \in 1..2 : copy'[k].seg = copy[l].seg
  BY <1>1, <1>3, <1>5
<1>7. exposed \cup CutShort = exposed /\ exposed' \cup CutShort' = exposed
  BY <1>1, <1>2 DEF CutShort
<1>8. FairDisk(hdr', ring', copy', exposed)
  <2>1. FairDisk(hdr', ring', copy, exposed)
    BY <1>1, <1>3, <1>4, <1>7 DEF SInv
  <2> QED BY <1>6, <2>1, FairCopied
<1>9. todo' = <<>> /\ half' = FALSE /\ \A i \in 1..Len(todo') : FALSE
  BY <1>1, <1>2
<1>10. \A h, g : OnlyOwn(h, g, todo')
  BY <1>9 DEF OnlyOwn
<1>11. FairMemory(hdr', ring', copy', todo', exposed')
  BY <1>1, <1>8 DEF FairDisk, FairMemory
<1>12. \A k \in 1..2 : Below(copy'[k], Pending(k)', hdr', ring')
  <2>1. \A k \in 1..2 : Pending(k)' = <<>>
    BY <1>9 DEF Pending
  <2> QED BY <1>6, <2>1 DEF Below, Within
<1>13. \A k \in 1..2 : FairDisk(copy'[k].hdr, copy'[k].ring, copy', exposed' \cup CutShort')
  BY <1>6, <1>7, <1>8
<1> QED BY <1>9, <1>10, <1>11, <1>12, <1>13 DEF SInv

LEMMA SInvInit == Init => SInv
<1> SUFFICES ASSUME Init PROVE SInv
  OBVIOUS
<1>1. /\ phase = "up" /\ hdr = Empty /\ ring = EmptyRing /\ todo = <<>> /\ half = FALSE
      /\ \A k \in 1..2 : copy[k].hdr = hdr /\ copy[k].ring = ring
      /\ \A k \in 1..2, p \in Position : copy[k].seg[p] = Blank
  BY DEF Init, Position
<1>2. \A i \in 1..Len(todo) : FALSE
  BY <1>1
<1>3. \A h, g : OnlyOwn(h, g, todo)
  BY <1>2 DEF OnlyOwn
<1>4. \A h, g, ex : FairDisk(h, g, copy, ex) /\ FairMemory(h, g, copy, todo, ex)
  BY <1>1 DEF FairDisk, FairMemory, Fair
<1>5. \A k \in 1..2 : Below(copy[k], Pending(k), hdr, ring)
  <2>1. \A k \in 1..2 : Pending(k) = <<>>
    BY <1>1 DEF Pending
  <2> QED BY <1>1, <2>1 DEF Below, Within
<1> QED BY <1>1, <1>2, <1>3, <1>4, <1>5 DEF SInv
---------------------------------------------------------------------------
(* What a header shows after a change it showed before, but for the position *)
(* that is blanked.                                                         *)

LEMMA SwitchedShows ==
  ASSUME NEW h \in Header, NEW g \in Ring, NEW c \in Chan, Holds(h, c), h.full < Total,
         NEW e, NEW p \in Position,
         Shows(Switched(h, c), [g EXCEPT ![NextSlot(h)] = Entry(h, c)], e, p)
  PROVE  Shows(h, g, e, p)
<1> DEFINE k == Switched(h, c)
           n == NextSlot(h)
           q == [g EXCEPT ![n] = Entry(h, c)]
<1>1. n \in Container /\ ~Live(h, n) /\ \A s \in Container : Live(k, s) <=> Live(h, s) \/ s = n
  BY NextSlotFree
<1>2. /\ q[n].file = h.file[c] /\ q[n].chn = c /\ q[n].sects = h.sect[c]
      /\ \A s \in Container : s # n => q[s] = g[s]
  BY <1>1 DEF Ring, Entry
<1>3. /\ e \in Chan /\ e # c => k.file[e] = h.file[e] /\ k.sect[e] = h.sect[e]
      /\ k.file[c] = Total /\ p[1] # Total
  BY IndexAssumption DEF Switched, Header, NoFile, Position, Container
<1>4. Shows(k, q, e, p)
  OBVIOUS
<1> HIDE DEF k, n, q
<1>5. CASE \E s \in Container : Live(k, s) /\ q[s].chn = e /\ q[s].file = p[1] /\ p[2] <= q[s].sects
  <2>1. PICK s \in Container : Live(k, s) /\ q[s].chn = e /\ q[s].file = p[1] /\ p[2] <= q[s].sects
    BY <1>5
  <2>2. CASE s = n
    BY <1>2, <2>1, <2>2 DEF Shows
  <2>3. CASE s # n
    BY <1>1, <1>2, <2>1, <2>3 DEF Shows
  <2> QED BY <2>2, <2>3
<1>6. CASE e \in Chan /\ k.file[e] = p[1] /\ p[2] <= k.sect[e]
  BY <1>3, <1>6 DEF Shows
<1> QED BY <1>4, <1>5, <1>6 DEF Shows

LEMMA BeforeSwitched ==
  ASSUME NEW h \in Header, NEW g \in Ring, NEW c \in Chan, Holds(h, c), h.full < Total,
         NEW e, NEW x \in Container, NEW y \in Container, Before(h, g, e, x, y)
  PROVE  Before(Switched(h, c), [g EXCEPT ![NextSlot(h)] = Entry(h, c)], e, x, y)
<1> DEFINE k == Switched(h, c)
           n == NextSlot(h)
           q == [g EXCEPT ![n] = Entry(h, c)]
<1>1. n \in Container /\ ~Live(h, n) /\ \A s \in Container : Live(k, s) <=> Live(h, s) \/ s = n
  BY NextSlotFree
<1>2. /\ q[n].file = h.file[c] /\ q[n].chn = c
      /\ \A s \in Container : s # n => q[s] = g[s]
  BY <1>1 DEF Ring, Entry
<1>3. \A d \in Chan : d # c => k.file[d] = h.file[d]
  BY DEF Switched, Header
<1>4. /\ \A s \in Container : Age(k, s) = Age(h, s)
      /\ \A s \in Container : Live(h, s) => Age(h, s) < Age(h, n)
  <2>1. k.offset = h.offset
    BY DEF Switched, Header
  <2> HIDE DEF k, n
  <2>2. \A s \in Container : Age(k, s) = Age(h, s)
    BY <2>1 DEF Age
  <2> QED BY <2>2, Ages DEF n
<1> HIDE DEF k, n, q
<1>5. PICK s \in Container :
        /\ Live(h, s) /\ g[s].chn = e /\ g[s].file = x
        /\ \/ e \in Chan /\ h.file[e] = y
           \/ \E t \in Container : /\ Live(h, t) /\ g[t].chn = e /\ g[t].file = y
                                   /\ Age(h, s) < Age(h, t)
  BY DEF Before
<1>6. Live(k, s) /\ q[s].chn = e /\ q[s].file = x
  BY <1>1, <1>2, <1>5
<1>7. CASE e \in Chan /\ h.file[e] = y /\ e # c
  BY <1>3, <1>6, <1>7 DEF Before, k, n, q
<1>8. CASE h.file[e] = y /\ e = c
  BY <1>1, <1>2, <1>4, <1>5, <1>6, <1>8 DEF Before, k, n, q
<1>9. CASE \E t \in Container : /\ Live(h, t) /\ g[t].chn = e /\ g[t].file = y
                                /\ Age(h, s) < Age(h, t)
  <2>1. PICK t \in Container : /\ Live(h, t) /\ g[t].chn = e /\ g[t].file = y
                               /\ Age(h, s) < Age(h, t)
    BY <1>9
  <2>2. Live(k, t) /\ q[t].chn = e /\ q[t].file = y /\ Age(k, s) < Age(k, t)
    BY <1>1, <1>2, <1>4, <2>1
  <2> QED BY <1>6, <2>2 DEF Before, k, n, q
<1> QED BY <1>5, <1>7, <1>8, <1>9

LEMMA BeforeAllocated ==
  ASSUME NEW h \in Header, NEW g, NEW c \in Chan, ~Holds(h, c),
         NEW e, NEW x \in Container, NEW y \in Container, Before(h, g, e, x, y)
  PROVE  Before(Allocated(h, c), g, e, x, y)
<1> DEFINE k == Allocated(h, c)
<1>1. /\ k.offset = h.offset /\ k.full = h.full
      /\ \A d \in Chan : d # c => k.file[d] = h.file[d]
  BY DEF Allocated, Header
<1>2. \A s \in Container : (Live(k, s) <=> Live(h, s)) /\ Age(k, s) = Age(h, s)
  BY <1>1 DEF Live, Age
<1>3. h.file[c] # y
  BY IndexAssumption DEF Holds, Container
<1> HIDE DEF k
<1>4. PICK s \in Container :
        /\ Live(h, s) /\ g[s].chn = e /\ g[s].file = x
        /\ \/ e \in Chan /\ h.file[e] = y
           \/ \E t \in Container : /\ Live(h, t) /\ g[t].chn = e /\ g[t].file = y
                                   /\ Age(h, s) < Age(h, t)
  BY DEF Before
<1>5. CASE e \in Chan /\ h.file[e] = y
  BY <1>1, <1>2, <1>3, <1>4, <1>5 DEF Before, k
<1>6. CASE \E t \in Container : /\ Live(h, t) /\ g[t].chn = e /\ g[t].file = y
                                /\ Age(h, s) < Age(h, t)
  BY <1>2, <1>4, <1>6 DEF Before, k
<1> QED BY <1>4, <1>5, <1>6

LEMMA AllocatedShows ==
  ASSUME NEW h \in Header, NEW g, NEW c \in Chan, h.recorded < Total,
         NEW e, NEW p \in Position, Shows(Allocated(h, c), g, e, p)
  PROVE  Shows(h, g, e, p) \/ p = <<h.recorded, 0>>
<1> DEFINE k == Allocated(h, c)
<1>1. /\ k.offset = h.offset /\ k.full = h.full
      /\ (e \in Chan /\ e # c => k.file[e] = h.file[e] /\ k.sect[e] = h.sect[e])
      /\ k.file[c] = h.recorded /\ k.sect[c] = 0
  BY DEF Allocated, Header
<1>2. \A s \in Container : Live(k, s) <=> Live(h, s)
  BY <1>1 DEF Live
<1>3. p = <<p[1], p[2]>> /\ p[2] \in Nat
  BY IndexAssumption DEF Position, Sect
<1>4. Shows(k, g, e, p)
  OBVIOUS
<1> HIDE DEF k
<1>5. CASE e = c /\ k.file[e] = p[1] /\ p[2] <= k.sect[e]
  <2>1. p[1] = h.recorded /\ p[2] = 0
    BY <1>1, <1>3, <1>5
  <2> QED BY <1>3, <2>1
<1>6. CASE ~(e = c /\ k.file[e] = p[1] /\ p[2] <= k.sect[e])
  BY <1>1, <1>2, <1>4, <1>6 DEF Shows
<1> QED BY <1>5, <1>6

LEMMA CoveringShows ==
  ASSUME NEW h \in Header, NEW g, NEW c \in Chan, h.full > 0, Owned(h, g),
         NEW f, f = g[h.offset].file,
         NEW e, NEW p \in Position, Shows(Covering(h, c, f), g, e, p)
  PROVE  (Shows(h, g, e, p) /\ p[1] # f) \/ p = <<f, 0>>
<1> DEFINE k == Covering(h, c, f)
<1>1. /\ (e \in Chan /\ e # c => k.file[e] = h.file[e] /\ k.sect[e] = h.sect[e])
      /\ k.file[c] = f /\ k.sect[c] = 0
  BY DEF Covering, Header
<1>2. /\ \A s \in Container : Live(k, s) <=> Live(h, s) /\ s # h.offset
      /\ h.offset \in Container /\ Live(h, h.offset)
  BY OldestLive
<1>3. p = <<p[1], p[2]>> /\ p[2] \in Nat
  BY IndexAssumption DEF Position, Sect
<1>4. Shows(k, g, e, p)
  OBVIOUS
<1> HIDE DEF k
<1>5. CASE e = c /\ k.file[e] = p[1] /\ p[2] <= k.sect[e]
  <2>1. p[1] = f /\ p[2] = 0
    BY <1>1, <1>3, <1>5
  <2> QED BY <1>3, <2>1
<1>6. CASE e \in Chan /\ e # c /\ k.file[e] = p[1] /\ p[2] <= k.sect[e]
  <2>1. h.file[e] # f
    BY <1>2, <1>6 DEF Owned
  <2> QED BY <1>1, <1>6, <2>1 DEF Shows
<1>7. CASE \E s \in Container : Live(k, s) /\ g[s].chn = e /\ g[s].file = p[1] /\ p[2] <= g[s].sects
  <2>1. PICK s \in Container : Live(k, s) /\ g[s].chn = e /\ g[s].file = p[1] /\ p[2] <= g[s].sects
    BY <1>7
  <2>2. g[s].file # f
    BY <1>2, <2>1 DEF Owned
  <2> QED BY <1>2, <2>1, <2>2 DEF Shows
<1> QED BY <1>4, <1>5, <1>6, <1>7 DEF Shows

LEMMA AfterWithin ==
  ASSUME IInv, Idle, NEW c \in Chan
  PROVE  /\ Within(hdr, ring, After(c).hdr, After(c).ring)
         /\ Within(After(c).hdr, After(c).ring, hdr, ring)
<1>1. hdr \in Header /\ ring \in Ring /\ Counted(hdr)
  BY IdleFacts
<1>2. CASE Holds(hdr, c)
  <2>1. After(c).hdr = Switched(hdr, c) /\ After(c).ring = RingWith(hdr, c)
    BY <1>2 DEF After
  <2>2. hdr.full < Total
    BY <1>1, <1>2, RoomInRing
  <2>3. Within(hdr, ring, Switched(hdr, c), RingWith(hdr, c))
    BY <1>1, <1>2, <2>2, ShowsSwitched, BeforeSwitched DEF Within, RingWith
  <2>4. Within(Switched(hdr, c), RingWith(hdr, c), hdr, ring)
    BY <1>1, <1>2, <2>2, SwitchedShows, SwitchedBefore DEF Within, RingWith
  <2> QED BY <2>1, <2>3, <2>4
<1>3. CASE ~Holds(hdr, c)
  <2>1. After(c).hdr = hdr /\ After(c).ring = ring
    BY <1>3 DEF After
  <2> QED BY <2>1 DEF Within
<1> QED BY <1>2, <1>3

LEMMA AfterShown ==
  ASSUME IInv, Idle, NEW c \in Chan
  PROVE  /\ \A e, p : p \in Position /\ Shows(After(c).hdr, After(c).ring, e, p) => Shows(hdr, ring, e, p)
         /\ \A e, p : p \in Position /\ Shows(hdr, ring, e, p) => Shows(After(c).hdr, After(c).ring, e, p)
         /\ \A i \in 1..Len(After(c).writes) :
              /\ After(c).writes[i].kind # "seg"
              /\ After(c).writes[i].kind = "hdr" => After(c).writes[i].val = After(c).hdr
         /\ (\A i \in 1..Len(After(c).writes) : After(c).writes[i].kind # "hdr") => After(c).writes = <<>>
<1>1. hdr \in Header /\ ring \in Ring /\ Counted(hdr)
  BY IdleFacts
<1>2. \A e, p : p \in Position /\ Shows(hdr, ring, e, p) => Shows(After(c).hdr, After(c).ring, e, p)
  BY AfterShows
<1>3. CASE Holds(hdr, c)
  <2>1. /\ After(c).hdr = Switched(hdr, c) /\ After(c).ring = RingWith(hdr, c)
        /\ After(c).writes = SwitchWrites(hdr, c)
    BY <1>3 DEF After
  <2>2. \A e, p : p \in Position /\ Shows(Switched(hdr, c), RingWith(hdr, c), e, p) => Shows(hdr, ring, e, p)
    BY <1>1, <1>3, RoomInRing, SwitchedShows DEF RingWith
  <2>3. /\ \A i \in 1..Len(SwitchWrites(hdr, c)) :
             /\ SwitchWrites(hdr, c)[i].kind # "seg"
             /\ SwitchWrites(hdr, c)[i].kind = "hdr" => SwitchWrites(hdr, c)[i].val = Switched(hdr, c)
        /\ 2 \in 1..Len(SwitchWrites(hdr, c)) /\ SwitchWrites(hdr, c)[2].kind = "hdr"
    BY DEF SwitchWrites, RingWrite, HdrWrite, Write
  <2> QED BY <1>2, <2>1, <2>2, <2>3
<1>4. CASE ~Holds(hdr, c)
  <2>1. After(c).hdr = hdr /\ After(c).ring = ring /\ After(c).writes = <<>>
    BY <1>4 DEF After
  <2> QED BY <2>1
<1> QED BY <1>3, <1>4
---------------------------------------------------------------------------
LEMMA IdleFair ==
  ASSUME IInv, SInv, Idle
  PROVE  /\ FairDisk(hdr, ring, copy, exposed)
         /\ \A k \in 1..2 : /\ Within(copy[k].hdr, copy[k].ring, hdr, ring)
                            /\ FairDisk(copy[k].hdr, copy[k].ring, copy, exposed)
<1>1. phase = "up" /\ todo = <<>> /\ half = FALSE /\ \A i \in 1..Len(todo) : FALSE
  BY IdleFacts
<1>2. FairDisk(hdr, ring, copy, exposed)
  BY <1>1 DEF SInv, FairMemory, FairDisk
<1>3. \A k \in 1..2 : Pending(k) = <<>>
  BY <1>1 DEF Pending
<1>4. \A k \in 1..2 : Within(copy[k].hdr, copy[k].ring, hdr, ring)
  BY <1>1, <1>3 DEF SInv, Below
<1> QED BY <1>2, <1>4 DEF Within, FairDisk

LEMMA OperationFair ==
  ASSUME IInv, SInv, Idle, phase' = phase, copy' = copy, half' = half,
         FairMemory(hdr', ring', copy, todo', exposed'), OnlyOwn(hdr', ring', todo'),
         \A k \in 1..2 : /\ FairDisk(copy[k].hdr, copy[k].ring, copy, exposed' \cup CutShort')
                         /\ OnlyOwn(copy[k].hdr, copy[k].ring, todo')
                         /\ Below(copy[k], todo', hdr', ring'),
         \A i \in 1..Len(todo') : todo'[i].kind = "hdr" =>
           /\ FairDisk(todo'[i].val, ring', copy, exposed' \cup CutShort')
           /\ OnlyOwn(todo'[i].val, ring', todo'),
         \A i \in 1..Len(todo') : Blanking(todo'[i]) => i = Len(todo')
  PROVE  SInv'
<1>1. half' = FALSE
  BY IdleFacts
<1>2. \A k \in 1..2 : Pending(k)' = todo'
  BY <1>1 DEF Pending
<1> QED BY <1>1, <1>2 DEF SInv

\* A container that is to be blanked is cut short by a crash.
LEMMA CutShortHas ==
  ASSUME NEW i \in 1..Len(todo'), Blanking(todo'[i])
  PROVE  todo'[i].at[1] \in CutShort'
BY DEF CutShort, Blanking

LEMMA WithinWithin ==
  ASSUME NEW h, NEW g, NEW i, NEW j, NEW k, NEW l, Within(h, g, i, j), Within(i, j, k, l)
  PROVE  Within(h, g, k, l)
BY DEF Within

LEMMA WithinThen ==
  ASSUME NEW h, NEW g, NEW i, NEW j, NEW cp, NEW ex, Within(h, g, i, j), FairDisk(i, j, cp, ex)
  PROVE  FairDisk(h, g, cp, ex)
BY DEF Within, FairDisk

LEMMA MoreExposed ==
  ASSUME NEW h, NEW g, NEW cp, NEW ex, NEW fx, FairDisk(h, g, cp, ex), ex \subseteq fx
  PROVE  FairDisk(h, g, cp, fx)
BY DEF FairDisk

LEMMA ContinueFair ==
  ASSUME IInv, SInv, NEW c \in Chan, Continue(c)
  PROVE  SInv'
<1> DEFINE w == SegWrite(hdr.file[c], hdr.sect[c] + 1, Blank)
<1>1. /\ TypeOK /\ Idle /\ Opens(c) /\ hdr' = [hdr EXCEPT !.sect[c] = @ + 1] /\ ring' = ring
      /\ todo' = <<w>> /\ exposed' = exposed
  BY OpensType DEF IInv, Continue
<1>2. hdr \in Header
  BY <1>1, IdleFacts
<1>3. /\ hdr'.file = hdr.file /\ hdr'.offset = hdr.offset /\ hdr'.full = hdr.full
      /\ hdr'.sect[c] = hdr.sect[c] + 1 /\ hdr.sect[c] \in Nat
      /\ \A e \in Chan : e # c => hdr'.sect[e] = hdr.sect[e]
  BY <1>1, <1>2 DEF Header, Sect
<1>4. \A s \in Container : Live(hdr', s) <=> Live(hdr, s)
  BY <1>3 DEF Live
<1>5. w.kind = "seg" /\ w.val = Blank /\ w.at = <<hdr.file[c], hdr.sect[c] + 1>>
  BY DEF SegWrite, Write
<1> HIDE DEF w
<1>6. \A i \in 1..Len(todo') : i = 1 /\ i = Len(todo') /\ todo'[i] = w
  BY <1>1
<1>7. 1 \in 1..Len(todo') /\ todo'[1] = w
  BY <1>1
<1>8. ASSUME NEW e, NEW p \in Position, Shows(hdr, ring, e, p) PROVE Shows(hdr', ring', e, p)
  <2>1. \A d \in Chan : p[2] <= hdr.sect[d] => p[2] <= hdr'.sect[d]
    BY <1>2, <1>3 DEF Position, Sect, Header
  <2> QED BY <1>1, <1>3, <1>4, <1>8, <2>1 DEF Shows
<1>9. ASSUME NEW e, NEW p \in Position, Shows(hdr', ring', e, p)
      PROVE  Shows(hdr, ring, e, p) \/ p = w.at
  <2>1. p = <<p[1], p[2]>> /\ p[2] \in Nat
    BY IndexAssumption DEF Position, Sect
  <2>2. CASE e = c /\ hdr'.file[e] = p[1] /\ p[2] <= hdr'.sect[e]
    <3>1. p[2] <= hdr.sect[e] \/ p[2] = hdr.sect[c] + 1
      BY <1>3, <2>1, <2>2
    <3>2. CASE p[2] = hdr.sect[c] + 1
      BY <1>3, <1>5, <2>1, <2>2, <3>2
    <3>3. CASE p[2] <= hdr.sect[e]
      BY <1>3, <2>2, <3>3 DEF Shows
    <3> QED BY <3>1, <3>2, <3>3
  <2>3. CASE ~(e = c /\ hdr'.file[e] = p[1] /\ p[2] <= hdr'.sect[e])
    BY <1>1, <1>3, <1>4, <1>9, <2>3 DEF Shows
  <2> QED BY <2>2, <2>3
<1>10. FairMemory(hdr', ring', copy, todo', exposed')
  BY <1>1, <1>5, <1>7, <1>9, IdleFair DEF FairMemory, FairDisk, Blanking
<1>11. \A h, g : OnlyOwn(h, g, todo')
  BY <1>5, <1>6 DEF OnlyOwn
<1>12. \A k \in 1..2 : FairDisk(copy[k].hdr, copy[k].ring, copy, exposed' \cup CutShort')
  BY <1>1, IdleFair, MoreExposed
<1>13. \A k \in 1..2 : Below(copy[k], todo', hdr', ring')
  <2>1. \A e, x, y : Before(hdr, ring, e, x, y) => Before(hdr', ring', e, x, y)
    <3>1. \A s \in Container : Age(hdr', s) = Age(hdr, s)
      BY <1>3 DEF Age
    <3> QED BY <1>1, <1>3, <1>4, <3>1 DEF Before
  <2>2. Within(hdr, ring, hdr', ring')
    BY <1>8, <2>1 DEF Within
  <2>3. \A k \in 1..2 : Within(copy[k].hdr, copy[k].ring, hdr', ring')
    BY <1>1, <2>2, IdleFair, WithinWithin
  <2> QED BY <1>5, <1>6, <2>3 DEF Below
<1>14. phase' = phase /\ copy' = copy /\ half' = half
  BY <1>1, OpensType
<1>15. \A i \in 1..Len(todo') : todo'[i].kind # "hdr"
  BY <1>5, <1>6
<1> QED BY <1>1, <1>6, <1>10, <1>11, <1>12, <1>13, <1>14, <1>15, OperationFair

LEMMA AllocateFair ==
  ASSUME IInv, SInv, NEW c \in Chan, Allocate(c)
  PROVE  SInv'
<1> DEFINE a == After(c)
           f == a.hdr.recorded
           w == SegWrite(f, 0, Blank)
<1>1. /\ TypeOK /\ Idle /\ Opens(c) /\ f < Total
      /\ hdr' = Allocated(a.hdr, c) /\ ring' = a.ring /\ todo' = Append(a.writes, w)
      /\ exposed' = exposed \ {f}
  BY OpensType DEF IInv, Allocate
<1>2. /\ a.hdr \in Header /\ a.ring \in Ring /\ Owned(a.hdr, a.ring) /\ ~Holds(a.hdr, c)
      /\ a.writes \in Seq(Writes)
  BY <1>1, AfterFacts
<1>3. /\ \A e, p : p \in Position /\ Shows(a.hdr, a.ring, e, p) => Shows(hdr, ring, e, p)
      /\ \A e, p : p \in Position /\ Shows(hdr, ring, e, p) => Shows(a.hdr, a.ring, e, p)
      /\ \A i \in 1..Len(a.writes) : /\ a.writes[i].kind # "seg"
                                     /\ a.writes[i].kind = "hdr" => a.writes[i].val = a.hdr
  BY <1>1, AfterShown
<1>3a. Within(hdr, ring, a.hdr, a.ring)
  BY <1>1, AfterWithin
<1> HIDE DEF a
<1>4. w.kind = "seg" /\ w.val = Blank /\ w.at = <<f, 0>> /\ w \in Writes
  <2>1. f \in Container /\ 0 \in Sect
    BY <1>1, <1>2, IndexAssumption DEF Header, Container, Sect
  <2>2. w \in Writes
    BY <1>2, <2>1, WriteTypes
  <2> QED BY <2>2 DEF SegWrite, Write
<1>5. /\ \A i \in 1..Len(todo') : \/ i = Len(todo') /\ todo'[i] = w
                                  \/ i \in 1..Len(a.writes) /\ todo'[i] = a.writes[i]
      /\ Len(todo') \in 1..Len(todo') /\ todo'[Len(todo')] = w
  <2> HIDE DEF w
  <2> QED BY <1>1, <1>2, <1>4
<1> HIDE DEF w, f
<1>6. ASSUME NEW e, NEW p \in Position, Shows(a.hdr, a.ring, e, p) PROVE p[1] # f
  <2>1. p[1] < f
    BY <1>2, <1>6, ShownOwned DEF f
  <2>2. f \in Nat
    BY <1>2, IndexAssumption DEF Header, f
  <2> QED BY <2>1, <2>2
<1>7. FairDisk(hdr, ring, copy, exposed) /\ \A k \in 1..2 : Within(copy[k].hdr, copy[k].ring, hdr, ring)
  BY <1>1, IdleFair
<1>8. FairDisk(hdr, ring, copy, exposed')
  BY <1>1, <1>3, <1>6, <1>7 DEF FairDisk
<1>9. FairDisk(a.hdr, a.ring, copy, exposed')
  BY <1>3, <1>8 DEF FairDisk
<1>10. FairMemory(hdr', ring', copy, todo', exposed')
  <2>1. \A e, p : p \in Position /\ Shows(hdr', ring', e, p) => Shows(a.hdr, a.ring, e, p) \/ p = w.at
    BY <1>1, <1>2, <1>4, AllocatedShows DEF f
  <2> QED BY <1>4, <1>5, <1>9, <2>1 DEF FairMemory, FairDisk, Blanking
<1>11. \A i \in 1..Len(todo') : /\ todo'[i].kind = "seg" => i = Len(todo') /\ todo'[i].val = Blank
                                /\ todo'[i].kind = "hdr" => todo'[i].val = a.hdr
  BY <1>3, <1>4, <1>5
<1>12. \A h, g : OnlyOwn(h, g, todo')
  BY <1>11 DEF OnlyOwn
<1>13. \A k \in 1..2 : FairDisk(copy[k].hdr, copy[k].ring, copy, exposed' \cup CutShort')
  BY <1>7, <1>8, WithinThen, MoreExposed
<1>14. \A i \in 1..Len(todo') : todo'[i].kind = "hdr" =>
         FairDisk(todo'[i].val, ring', copy, exposed' \cup CutShort')
  BY <1>1, <1>9, <1>11, MoreExposed
<1>15. \A k \in 1..2 : Below(copy[k], todo', hdr', ring')
  <2>1. Within(a.hdr, a.ring, hdr', ring')
    BY <1>1, <1>2, ShowsAllocated, BeforeAllocated DEF Within, f
  <2>3. \A k \in 1..2 : Within(copy[k].hdr, copy[k].ring, hdr', ring')
    BY <1>3a, <1>7, <2>1, WithinWithin
  <2> QED BY <1>1, <1>11, <2>1, <2>3 DEF Below
<1>16. phase' = phase /\ copy' = copy /\ half' = half
  BY <1>1, OpensType
<1>17. \A i \in 1..Len(todo') : Blanking(todo'[i]) => i = Len(todo')
  BY <1>11 DEF Blanking
<1> QED BY <1>1, <1>10, <1>12, <1>13, <1>14, <1>15, <1>16, <1>17, OperationFair

LEMMA CoverFair ==
  ASSUME IInv, SInv, NEW c \in Chan, Cover(c)
  PROVE  SInv'
<1> DEFINE a == After(c)
           f == a.ring[a.hdr.offset].file
           w == SegWrite(f, 0, Blank)
           v == HdrWrite(hdr')
<1>1. /\ TypeOK /\ Idle /\ Opens(c) /\ a.hdr.recorded = Total
      /\ hdr' = Covering(a.hdr, c, f) /\ ring' = a.ring
      /\ todo' = a.writes \o <<v, w>> /\ exposed' = exposed \ {f}
  BY OpensType DEF IInv, Cover, CoverWrites
<1>2. /\ a.hdr \in Header /\ a.ring \in Ring /\ Counted(a.hdr) /\ Owned(a.hdr, a.ring)
      /\ ~Holds(a.hdr, c) /\ a.writes \in Seq(Writes)
  BY <1>1, AfterFacts
<1>3. /\ \A e, p : p \in Position /\ Shows(a.hdr, a.ring, e, p) => Shows(hdr, ring, e, p)
      /\ \A i \in 1..Len(a.writes) : /\ a.writes[i].kind # "seg"
                                     /\ a.writes[i].kind = "hdr" => a.writes[i].val = a.hdr
  BY <1>1, AfterShown
<1>4. a.hdr.full > 0
  BY <1>1, <1>2, RoomInRing
<1> HIDE DEF a
<1>5. w.kind = "seg" /\ w.val = Blank /\ w.at = <<f, 0>> /\ v.kind = "hdr" /\ v.val = hdr'
  BY DEF SegWrite, HdrWrite, Write
<1>6. \A e, p : p \in Position /\ Shows(hdr', ring', e, p) =>
        (Shows(a.hdr, a.ring, e, p) /\ p[1] # f) \/ p = w.at
  <2> HIDE DEF w, v
  <2> SUFFICES ASSUME NEW e, NEW p \in Position, Shows(hdr', ring', e, p)
               PROVE  (Shows(a.hdr, a.ring, e, p) /\ p[1] # f) \/ p = <<f, 0>>
    BY <1>5
  <2>1. f = a.ring[a.hdr.offset].file
    OBVIOUS
  <2> HIDE DEF f
  <2>2. Shows(Covering(a.hdr, c, f), a.ring, e, p)
    BY <1>1
  <2> QED BY <1>2, <1>4, <2>1, <2>2, CoveringShows
<1> HIDE DEF f, v, w
<1>7. /\ \A i \in 1..Len(todo') : \/ i = Len(todo') /\ todo'[i] = w
                                  \/ i = Len(todo') - 1 /\ todo'[i] = v
                                  \/ i \in 1..Len(a.writes) /\ todo'[i] = a.writes[i]
      /\ Len(todo') \in 1..Len(todo') /\ todo'[Len(todo')] = w
      /\ Len(todo') - 1 \in 1..Len(todo') /\ todo'[Len(todo') - 1] = v
      /\ Len(todo') = Len(a.writes) + 2 /\ Len(a.writes) \in Nat
  BY <1>1, <1>2
<1>8. FairDisk(hdr, ring, copy, exposed) /\ \A k \in 1..2 : Within(copy[k].hdr, copy[k].ring, hdr, ring)
  BY <1>1, IdleFair
<1>9. FairDisk(a.hdr, a.ring, copy, exposed)
  BY <1>3, <1>8 DEF FairDisk
<1>10. FairMemory(hdr', ring', copy, todo', exposed')
  BY <1>1, <1>5, <1>6, <1>7, <1>9 DEF FairMemory, FairDisk, Blanking
<1>11. \A i \in 1..Len(todo') :
         /\ todo'[i].kind = "seg" => i = Len(todo') /\ todo'[i].val = Blank
         /\ todo'[i].kind = "hdr" => todo'[i].val = a.hdr \/ todo'[i].val = hdr'
  BY <1>3, <1>5, <1>7
<1>12. \A h, g : OnlyOwn(h, g, todo')
  BY <1>11 DEF OnlyOwn
<1>13. f \in CutShort' /\ exposed \subseteq exposed' \cup CutShort'
  <2>1. f \in CutShort'
    <3>1. Blanking(todo'[Len(todo')]) /\ todo'[Len(todo')].at[1] = f
      BY <1>5, <1>7 DEF Blanking
    <3> QED BY <1>7, <3>1, CutShortHas
  <2> QED BY <1>1, <2>1
<1>14. \A k \in 1..2 : FairDisk(copy[k].hdr, copy[k].ring, copy, exposed' \cup CutShort')
  BY <1>8, <1>13, WithinThen, MoreExposed
<1>15. FairDisk(hdr', ring', copy, exposed' \cup CutShort')
  <2>1. \A p : p = w.at => p[1] = f
    BY <1>5
  <2> QED BY <1>6, <1>9, <1>13, <2>1 DEF FairDisk
<1>16. \A i \in 1..Len(todo') : todo'[i].kind = "hdr" =>
         FairDisk(todo'[i].val, ring', copy, exposed' \cup CutShort')
  <2>1. FairDisk(a.hdr, ring', copy, exposed' \cup CutShort')
    BY <1>1, <1>9, <1>13, MoreExposed
  <2> QED BY <1>11, <1>15, <2>1
<1>17. \A k \in 1..2 : Below(copy[k], todo', hdr', ring')
  <2>1. \E i \in 1..Len(todo') : todo'[i].kind = "hdr"
    BY <1>5, <1>7
  <2>2. ASSUME NEW i \in 1..Len(todo'), todo'[i].kind = "hdr",
               \A j \in 1..Len(todo') : todo'[j].kind = "hdr" => j <= i
        PROVE  todo'[i].val = hdr'
    <3>1. Len(todo') - 1 <= i
      BY <1>5, <1>7, <2>2
    <3>2. i # Len(todo')
      BY <1>5, <1>7, <2>2
    <3>3. i = Len(todo') - 1
      BY <1>7, <3>1, <3>2
    <3> QED BY <1>5, <1>7, <3>3
  <2>3. \A h, g : Within(h, g, h, g)
    BY DEF Within
  <2> QED BY <2>1, <2>2, <2>3 DEF Below
<1>18. phase' = phase /\ copy' = copy /\ half' = half
  BY <1>1, OpensType
<1>19. \A i \in 1..Len(todo') : Blanking(todo'[i]) => i = Len(todo')
  BY <1>11 DEF Blanking
<1> QED BY <1>1, <1>10, <1>12, <1>14, <1>16, <1>17, <1>18, <1>19, OperationFair

LEMMA NoSpaceFair ==
  ASSUME IInv, SInv, NEW c \in Chan, NoSpace(c)
  PROVE  SInv'
<1> DEFINE a == After(c)
<1>1. /\ Idle /\ hdr' = a.hdr /\ ring' = a.ring /\ todo' = a.writes
      /\ phase' = phase /\ copy' = copy /\ half' = half /\ exposed' = exposed
  BY DEF NoSpace, ghosts
<1>2. /\ \A e, p : p \in Position /\ Shows(a.hdr, a.ring, e, p) => Shows(hdr, ring, e, p)
      /\ \A e, p : p \in Position /\ Shows(hdr, ring, e, p) => Shows(a.hdr, a.ring, e, p)
      /\ \A i \in 1..Len(a.writes) : /\ a.writes[i].kind # "seg"
                                     /\ a.writes[i].kind = "hdr" => a.writes[i].val = a.hdr
  BY <1>1, AfterShown
<1>2a. Within(hdr, ring, a.hdr, a.ring)
  BY <1>1, AfterWithin
<1> HIDE DEF a
<1>3. FairDisk(hdr, ring, copy, exposed) /\ \A k \in 1..2 : Within(copy[k].hdr, copy[k].ring, hdr, ring)
  BY <1>1, IdleFair
<1>4. FairDisk(hdr', ring', copy, exposed)
  BY <1>1, <1>2, <1>3 DEF FairDisk
<1>5. \A i \in 1..Len(todo') : /\ todo'[i].kind # "seg"
                               /\ todo'[i].kind = "hdr" => todo'[i].val = hdr'
  BY <1>1, <1>2
<1>6. FairMemory(hdr', ring', copy, todo', exposed')
  BY <1>1, <1>4 DEF FairMemory, FairDisk
<1>7. \A h, g : OnlyOwn(h, g, todo')
  BY <1>5 DEF OnlyOwn
<1>8. \A k \in 1..2 : FairDisk(copy[k].hdr, copy[k].ring, copy, exposed' \cup CutShort')
  BY <1>1, <1>3, WithinThen, MoreExposed
<1>9. FairDisk(hdr', ring', copy, exposed' \cup CutShort')
  BY <1>1, <1>4, MoreExposed
<1>10. \A k \in 1..2 : Below(copy[k], todo', hdr', ring')
  <2>1. Within(hdr, ring, hdr', ring')
    BY <1>1, <1>2a
  <2>2. \A k \in 1..2 : Within(copy[k].hdr, copy[k].ring, hdr', ring')
    BY <1>3, <2>1, WithinWithin
  <2>3. Within(hdr', ring', hdr', ring')
    BY DEF Within
  <2> QED BY <1>5, <2>2, <2>3 DEF Below
<1> QED BY <1>1, <1>5, <1>6, <1>7, <1>8, <1>9, <1>10, OperationFair DEF Blanking

LEMMA UpdateFair ==
  ASSUME IInv, SInv, NEW c \in Chan, Update(c), open[c][1] = c
  PROVE  SInv'
<1>1. /\ Idle /\ phase' = phase /\ copy' = copy /\ Holds(hdr, c) /\ half' = half
      /\ open[c] # Blank
      /\ \/ hdr' = hdr /\ ring' = ring
         \/ hdr' = Switched(hdr, c) /\ ring' = RingWith(hdr, c)
      /\ \A i \in 1..Len(todo') :
           /\ todo'[i].kind = "seg" => todo'[i].at = Pos(c) /\ todo'[i].val = open[c]
           /\ todo'[i].kind = "hdr" => todo'[i].val = hdr'
      /\ \E i \in 1..Len(todo') : todo'[i].kind = "hdr"
  BY UpdateWays
<1>2. exposed' = exposed
  BY DEF Update
<1>3. hdr \in Header /\ ring \in Ring /\ Counted(hdr) /\ Owned(hdr, ring)
  BY <1>1, IdleFacts
<1>4. \A e, p : p \in Position /\ Shows(hdr', ring', e, p) => Shows(hdr, ring, e, p)
  <2>1. \A e, p : p \in Position /\ Shows(Switched(hdr, c), RingWith(hdr, c), e, p) => Shows(hdr, ring, e, p)
    BY <1>1, <1>3, RoomInRing, SwitchedShows DEF RingWith
  <2> QED BY <1>1, <2>1
<1>5. FairDisk(hdr, ring, copy, exposed) /\ \A k \in 1..2 : Within(copy[k].hdr, copy[k].ring, hdr, ring)
  BY <1>1, IdleFair
<1>6. FairDisk(hdr', ring', copy, exposed)
  BY <1>4, <1>5 DEF FairDisk
<1>7. FairMemory(hdr', ring', copy, todo', exposed')
  BY <1>2, <1>6 DEF FairMemory, FairDisk
<1>8. \A p : p = Pos(c) => p \in Position /\ \A e : Shows(hdr, ring, e, p) => e = c
  <2> SUFFICES ASSUME NEW p, p = Pos(c)
               PROVE  p \in Position /\ \A e : Shows(hdr, ring, e, p) => e = c
    OBVIOUS
  <2>1. hdr.file[c] \in Container /\ hdr.sect[c] \in Sect
    BY <1>1, <1>3, IndexAssumption DEF Header, Holds, Container
  <2>2. p = <<hdr.file[c], hdr.sect[c]>>
    BY DEF Pos
  <2>3. p \in Position /\ p[1] = hdr.file[c]
    BY <2>1, <2>2 DEF Position
  <2>4. \A e : Shows(hdr, ring, e, p) => e = c
    BY <1>1, <1>3, <2>3, ShownOwned
  <2> QED BY <2>3, <2>4
<1>9. \A h, g : Within(h, g, hdr, ring) => OnlyOwn(h, g, todo')
  <2> SUFFICES ASSUME NEW h, NEW g, Within(h, g, hdr, ring), NEW i \in 1..Len(todo'), NEW e \in 0..NumChan,
                      todo'[i].kind = "seg", Shows(h, g, e, todo'[i].at)
               PROVE  e = todo'[i].val[1]
    BY DEF OnlyOwn
  <2>1. todo'[i].at = Pos(c) /\ todo'[i].val = open[c]
    BY <1>1
  <2>2. Pos(c) \in Position /\ (Shows(hdr, ring, e, Pos(c)) => e = c)
    BY <1>8
  <2>3. Shows(hdr, ring, e, Pos(c))
    BY <2>1, <2>2 DEF Within
  <2> QED BY <2>1, <2>2, <2>3
<1>10. Within(hdr', ring', hdr, ring)
  <2>1. \A e, x, y : x \in Container /\ y \in Container /\ Before(Switched(hdr, c), RingWith(hdr, c), e, x, y)
                       => Before(hdr, ring, e, x, y)
    BY <1>1, <1>3, RoomInRing, SwitchedBefore DEF RingWith
  <2>2. \A e, x, y : x \in Container /\ y \in Container /\ Before(hdr', ring', e, x, y)
                       => Before(hdr, ring, e, x, y)
    BY <1>1, <2>1
  <2> QED BY <1>4, <2>2 DEF Within
<1>11. \A k \in 1..2 : FairDisk(copy[k].hdr, copy[k].ring, copy, exposed' \cup CutShort')
  BY <1>2, <1>5, WithinThen, MoreExposed
<1>12. FairDisk(hdr', ring', copy, exposed' \cup CutShort')
  BY <1>2, <1>6, MoreExposed
<1>13. \A k \in 1..2 : Below(copy[k], todo', hdr', ring')
  <2>1. Within(hdr', ring', hdr', ring')
    BY DEF Within
  <2> QED BY <1>1, <2>1 DEF Below
<1>14. \A i \in 1..Len(todo') : ~Blanking(todo'[i])
  BY <1>1 DEF Blanking
<1> QED BY <1>1, <1>5, <1>7, <1>9, <1>10, <1>11, <1>12, <1>13, <1>14, OperationFair

LEMMA AbandonFair ==
  ASSUME SInv, NEW c \in Chan, Abandon(c)
  PROVE  SInv'
BY DEF Abandon, memory, disk, ghosts, SInv, CutShort, Pending

LEMMA SInvNext == IInv /\ KInv /\ SInv /\ [Next]_vars => SInv'
<1> SUFFICES ASSUME IInv, KInv, SInv, [Next]_vars PROVE SInv'
  OBVIOUS
<1>1. ASSUME NEW c \in Chan, Continue(c) PROVE SInv'
  BY <1>1, ContinueFair
<1>2. ASSUME NEW c \in Chan, Allocate(c) PROVE SInv'
  BY <1>2, AllocateFair
<1>3. ASSUME NEW c \in Chan, Cover(c) PROVE SInv'
  BY <1>3, CoverFair
<1>4. ASSUME NEW c \in Chan, NoSpace(c) PROVE SInv'
  BY <1>4, NoSpaceFair
<1>5. ASSUME NEW c \in Chan, Update(c) PROVE SInv'
  <2>1. open[c][1] = c
    BY <1>5 DEF Update, KInv, OwnOpen
  <2> QED BY <1>5, <2>1, UpdateFair
<1>6. ASSUME NEW c \in Chan, Abandon(c) PROVE SInv'
  BY <1>6, AbandonFair
<1>7. CASE WriteFirst
  BY <1>7, WriteFirstFair
<1>8. CASE WriteSecond
  BY <1>8, WriteSecondFair
<1>9. CASE Crash \/ CrashInInit
  BY <1>9, CrashFair
<1>10. CASE StartCopy
  BY <1>10, StartCopyFair
<1>11. CASE FinishCopy
  BY <1>11, FinishCopyFair
<1>12. CASE UNCHANGED vars
  BY <1>12 DEF vars, memory, disk, ghosts, SInv, CutShort, Pending
<1> QED BY <1>1, <1>2, <1>3, <1>4, <1>5, <1>6, <1>7, <1>8, <1>9, <1>10, <1>11, <1>12 DEF Next

LEMMA ShownFair == IInv /\ SInv => ShownUnderItsChannel
<1> SUFFICES ASSUME IInv, SInv, Idle, NEW x \in Found, x[3] \notin exposed
             PROVE  x[2][1] = x[1]
  BY DEF ShownUnderItsChannel
<1>1. hdr \in Header /\ ring \in Ring /\ Owned(hdr, ring)
  BY IdleFacts
<1>2. FairDisk(hdr, ring, copy, exposed)
  BY IdleFair
<1>3. ASSUME NEW f \in Container, NEW n \in Sect, NEW c \in 0..NumChan, x \in Listed(f, n, c),
             \A p \in Position : p[1] = f /\ p[2] <= n => Shows(hdr, ring, c, p)
      PROVE  x[2][1] = x[1]
  <2>1. PICK s \in 0..n : x = <<c, copy[1].seg[<<f, s>>], f>>
    BY <1>3, Zenon DEF Listed
  <2>2. s \in Sect /\ s <= n
    <3>1. n \in 0..MaxSect - 1
      BY <1>3 DEF Sect
    <3> QED BY <3>1, IndexAssumption DEF Sect
  <2>3. <<f, s>> \in Position /\ Shows(hdr, ring, c, <<f, s>>)
    BY <1>3, <2>2 DEF Position
  <2>4. Fair(copy, c, <<f, s>>)
    BY <1>2, <2>1, <2>3 DEF FairDisk
  <2>5. x[2] # Blank
    BY DEF Found
  <2> QED BY <2>1, <2>4, <2>5 DEF Fair
<1>4. CASE \E s \in Container : Live(hdr, s) /\ x \in Listed(ring[s].file, ring[s].sects, ring[s].chn)
  <2>1. PICK s \in Container : Live(hdr, s) /\ x \in Listed(ring[s].file, ring[s].sects, ring[s].chn)
    BY <1>4
  <2>2. ring[s].file \in Container /\ ring[s].sects \in Sect /\ ring[s].chn \in 0..NumChan
    <3>1. ring[s].file \in 0..Total /\ ring[s].file < hdr.recorded /\ hdr.recorded \in 0..Total
      BY <1>1, <2>1 DEF Owned, Ring, Header
    <3> QED BY <1>1, <3>1, IndexAssumption DEF Ring, Container
  <2>3. \A p \in Position : p[1] = ring[s].file /\ p[2] <= ring[s].sects => Shows(hdr, ring, ring[s].chn, p)
    BY <2>1 DEF Shows
  <2> QED BY <1>3, <2>1, <2>2, <2>3
<1>5. CASE \E c \in Chan : Holds(hdr, c) /\ x \in Listed(hdr.file[c], hdr.sect[c], c)
  <2>1. PICK c \in Chan : Holds(hdr, c) /\ x \in Listed(hdr.file[c], hdr.sect[c], c)
    BY <1>5
  <2>2. hdr.file[c] \in Container /\ hdr.sect[c] \in Sect /\ c \in 0..NumChan
    BY <1>1, <2>1, IndexAssumption DEF Header, Holds, Container, Chan
  <2>3. \A p \in Position : p[1] = hdr.file[c] /\ p[2] <= hdr.sect[c] => Shows(hdr, ring, c, p)
    BY DEF Shows
  <2> QED BY <1>3, <2>1, <2>2, <2>3
<1> QED BY <1>4, <1>5 DEF Found

\* A recording is never shown as that of another channel, except out of a
\* container that was being covered when a crash came between the header and the
\* blank first segment.
THEOREM ShownUnderItsChannelAlways == Spec => []ShownUnderItsChannel
<1>1. Spec => [](IInv /\ KInv /\ SInv)
  <2>1. Init => IInv /\ KInv /\ SInv
    BY InitInv, KInvInit, SInvInit
  <2>2. (IInv /\ KInv /\ SInv) /\ [Next]_vars => (IInv /\ KInv /\ SInv)'
    BY NextInv, KInvNext, SInvNext
  <2> QED BY <2>1, <2>2, PTL DEF Spec
<1> QED BY <1>1, ShownFair, PTL
---------------------------------------------------------------------------
(* The oldest go first.                                                     *)

Both(cp, r, p) == \A k \in 1..2 : cp[k].seg[p] = r

\* A recording has one number and one position.
Numbered ==
  /\ \A k \in 1..2, p \in Position : copy[k].seg[p] # Blank => copy[k].seg[p][2] <= made
  /\ \A k, l \in 1..2, p, q \in Position :
       copy[k].seg[p] # Blank /\ copy[k].seg[p] = copy[l].seg[q] => p = q
  /\ \A r \in kept \cup covered : r[2] <= made

\* The ones being recorded and written are where they are recorded and written.
Placed ==
  /\ \A c \in Chan : open[c] # Blank =>
       /\ open[c][2] <= made
       /\ \A k \in 1..2, p \in Position : copy[k].seg[p] = open[c] => p = Pos(c)
       /\ promise # Blank /\ promise[1] = c => promise = open[c]
  /\ \A i \in 1..Len(todo) : todo[i].kind = "seg" =>
       /\ \A j \in 1..Len(todo) : todo[j].kind = "seg" => j = i
       /\ todo[i].val # Blank =>
            /\ todo[i].val[2] <= made
            /\ \A k \in 1..2, p \in Position : copy[k].seg[p] = todo[i].val => p = todo[i].at
            /\ \A c \in Chan : open[c] = todo[i].val => todo[i].at = Pos(c)

\* h and g have the recordings of a channel in the order of their numbers.
Ordered(h, g, cp, rs) ==
  \A r, q \in rs : \A p, o \in Position :
    r[1] = q[1] /\ Both(cp, r, p) /\ Both(cp, q, o) /\ Before(h, g, r[1], p[1], o[1]) => r[2] < q[2]

Newest(x, rs, qs) == /\ \A r \in rs : r[1] = x[1] => r[2] <= x[2]
                     /\ \A q \in qs : q[1] = x[1] => q[2] < x[2]

Newer ==
  /\ OldestGoesFirst
  /\ \A c \in Chan : open[c] # Blank => Newest(open[c], kept, covered)
  /\ promise # Blank => Newest(promise, kept, covered)

InOrder ==
  /\ phase = "up" => Ordered(hdr, ring, copy, kept)
  /\ \A k \in 1..2 : copy[k].ok => Ordered(copy[k].hdr, copy[k].ring, copy, kept)
  /\ \A i \in 1..Len(todo) : todo[i].kind = "hdr" => Ordered(todo[i].val, ring, copy, kept)

OInv == Numbered /\ Placed /\ Newer /\ InOrder
---------------------------------------------------------------------------
(* What a step of the writes, or of a start, does to the places.            *)

LEMMA AllocatedBefore ==
  ASSUME NEW h \in Header, NEW g, NEW c \in Chan,
         NEW e, NEW x, NEW y, Before(Allocated(h, c), g, e, x, y)
  PROVE  Before(h, g, e, x, y) \/ y = h.recorded
<1> DEFINE k == Allocated(h, c)
<1>1. /\ k.offset = h.offset /\ k.full = h.full /\ k.file[c] = h.recorded
      /\ \A d \in Chan : d # c => k.file[d] = h.file[d]
  BY DEF Allocated, Header
<1>2. \A s \in Container : (Live(k, s) <=> Live(h, s)) /\ Age(k, s) = Age(h, s)
  BY <1>1 DEF Live, Age
<1>3. Before(k, g, e, x, y)
  OBVIOUS
<1> HIDE DEF k
<1>4. PICK s \in Container :
        /\ Live(k, s) /\ g[s].chn = e /\ g[s].file = x
        /\ \/ e \in Chan /\ k.file[e] = y
           \/ \E t \in Container : /\ Live(k, t) /\ g[t].chn = e /\ g[t].file = y
                                   /\ Age(k, s) < Age(k, t)
  BY <1>3 DEF Before
<1>5. CASE e \in Chan /\ k.file[e] = y
  BY <1>1, <1>2, <1>4, <1>5 DEF Before
<1>6. CASE \E t \in Container : /\ Live(k, t) /\ g[t].chn = e /\ g[t].file = y
                                /\ Age(k, s) < Age(k, t)
  BY <1>2, <1>4, <1>6 DEF Before
<1> QED BY <1>4, <1>5, <1>6

LEMMA CoveringBefore ==
  ASSUME NEW h \in Header, NEW g, NEW c \in Chan, h.full > 0, NEW f,
         NEW e, NEW x, NEW y, Before(Covering(h, c, f), g, e, x, y)
  PROVE  Before(h, g, e, x, y) \/ y = f
<1> DEFINE k == Covering(h, c, f)
<1>1. /\ k.file[c] = f /\ \A d \in Chan : d # c => k.file[d] = h.file[d]
  BY DEF Covering, Header
<1>2. \A s \in Container : Live(k, s) <=> Live(h, s) /\ s # h.offset
  BY OldestLive
<1>3. \A s, t \in Container : s # h.offset /\ t # h.offset /\ Age(k, s) < Age(k, t) => Age(h, s) < Age(h, t)
  <2>1. h.offset \in Nat /\ h.offset < Total /\ Total \in Nat
    BY IndexAssumption DEF Header, Container
  <2>2. k.offset = Wrap(h.offset + 1)
    BY DEF Covering, Header
  <2> HIDE DEF k
  <2>3. \A s \in Container : s # h.offset => Age(k, s) = Age(h, s) - 1 /\ Age(h, s) \in Nat
    BY <2>1, <2>2 DEF Age, Wrap, Container
  <2> QED BY <2>3
<1>4. Before(k, g, e, x, y)
  OBVIOUS
<1> HIDE DEF k
<1>5. PICK s \in Container :
        /\ Live(k, s) /\ g[s].chn = e /\ g[s].file = x
        /\ \/ e \in Chan /\ k.file[e] = y
           \/ \E t \in Container : /\ Live(k, t) /\ g[t].chn = e /\ g[t].file = y
                                   /\ Age(k, s) < Age(k, t)
  BY <1>4 DEF Before
<1>6. CASE e \in Chan /\ k.file[e] = y
  BY <1>1, <1>2, <1>5, <1>6 DEF Before
<1>7. CASE \E t \in Container : /\ Live(k, t) /\ g[t].chn = e /\ g[t].file = y
                                /\ Age(k, s) < Age(k, t)
  <2>1. PICK t \in Container : /\ Live(k, t) /\ g[t].chn = e /\ g[t].file = y
                               /\ Age(k, s) < Age(k, t)
    BY <1>7
  <2>2. Live(h, s) /\ Live(h, t) /\ Age(h, s) < Age(h, t)
    BY <1>2, <1>3, <1>5, <2>1
  <2> QED BY <1>5, <2>1, <2>2 DEF Before
<1> QED BY <1>5, <1>6, <1>7
---------------------------------------------------------------------------
(* Where the recordings are.                                                *)

\* A position holds what it held on one of the copies, or what is written to it.
LEMMA PlacesKept ==
  ASSUME Numbered, Placed,
         \A k \in 1..2, p \in Position :
           \/ \E l \in 1..2 : copy'[k].seg[p] = copy[l].seg[p]
           \/ \E i \in 1..Len(todo) : /\ todo[i].kind = "seg" /\ todo[i].at = p
                                      /\ copy'[k].seg[p] = todo[i].val
  PROVE  /\ \A k \in 1..2, p \in Position : copy'[k].seg[p] # Blank => copy'[k].seg[p][2] <= made
         /\ \A k, l \in 1..2, p, q \in Position :
              copy'[k].seg[p] # Blank /\ copy'[k].seg[p] = copy'[l].seg[q] => p = q
         /\ \A c \in Chan : open[c] # Blank =>
              \A k \in 1..2, p \in Position : copy'[k].seg[p] = open[c] => p = Pos(c)
         /\ \A i \in 1..Len(todo) : todo[i].kind = "seg" /\ todo[i].val # Blank =>
              \A k \in 1..2, p \in Position : copy'[k].seg[p] = todo[i].val => p = todo[i].at
<1> DEFINE Old(v, p) == \E l \in 1..2 : v = copy[l].seg[p]
           New(v, p) == \E i \in 1..Len(todo) : /\ todo[i].kind = "seg" /\ todo[i].at = p
                                                /\ v = todo[i].val
<1>1. \A k \in 1..2, p \in Position : Old(copy'[k].seg[p], p) \/ New(copy'[k].seg[p], p)
  OBVIOUS
<1>2. ASSUME NEW v, v # Blank, NEW p \in Position, Old(v, p) \/ New(v, p),
             NEW q \in Position, Old(v, q) \/ New(v, q)
      PROVE  p = q
  <2>1. ASSUME NEW x \in Position, NEW y \in Position, Old(v, x), Old(v, y) PROVE x = y
    <3>1. PICK k \in 1..2 : v = copy[k].seg[x]
      BY <2>1
    <3>2. PICK l \in 1..2 : v = copy[l].seg[y]
      BY <2>1
    <3>3. copy[k].seg[x] # Blank /\ copy[k].seg[x] = copy[l].seg[y]
      BY <1>2, <3>1, <3>2
    <3>4. \A i, j \in 1..2, a, b \in Position :
            copy[i].seg[a] # Blank /\ copy[i].seg[a] = copy[j].seg[b] => a = b
      BY DEF Numbered
    <3> HIDE DEF Old, New
    <3> QED BY <3>3, <3>4
  <2>2. ASSUME NEW x \in Position, NEW y \in Position, Old(v, x), New(v, y) PROVE x = y
    <3>1. PICK k \in 1..2 : v = copy[k].seg[x]
      BY <2>2
    <3>2. PICK i \in 1..Len(todo) : todo[i].kind = "seg" /\ todo[i].at = y /\ v = todo[i].val
      BY <2>2
    <3>3. \A l \in 1..2, o \in Position : copy[l].seg[o] = todo[i].val => o = todo[i].at
      BY <1>2, <3>2, Zenon DEF Placed
    <3> QED BY <3>1, <3>2, <3>3
  <2>3. ASSUME NEW x \in Position, NEW y \in Position, New(v, x), New(v, y) PROVE x = y
    BY <2>3 DEF Placed
  <2> HIDE DEF Old, New
  <2> QED BY <1>2, <2>1, <2>2, <2>3
<1>3. ASSUME NEW v, v # Blank, NEW p \in Position, Old(v, p) \/ New(v, p)
      PROVE  v[2] <= made
  BY <1>3 DEF Numbered, Placed
<1>4. ASSUME NEW c \in Chan, open[c] # Blank, NEW p \in Position, Old(open[c], p) \/ New(open[c], p)
      PROVE  p = Pos(c)
  BY <1>4 DEF Placed
<1>5. ASSUME NEW i \in 1..Len(todo), todo[i].kind = "seg", todo[i].val # Blank,
             NEW p \in Position, Old(todo[i].val, p) \/ New(todo[i].val, p)
      PROVE  p = todo[i].at
  BY <1>5 DEF Placed
<1> HIDE DEF Old, New
<1>6. ASSUME NEW k \in 1..2, NEW l \in 1..2, NEW p \in Position, NEW q \in Position,
             copy'[k].seg[p] # Blank, copy'[k].seg[p] = copy'[l].seg[q]
      PROVE  p = q
  <2>1. \A v : v = copy'[k].seg[p] => v # Blank /\ (Old(v, p) \/ New(v, p)) /\ (Old(v, q) \/ New(v, q))
    BY <1>1, <1>6
  <2> QED BY <1>2, <2>1
<1>7. \A k \in 1..2, p \in Position : copy'[k].seg[p] # Blank => copy'[k].seg[p][2] <= made
  BY <1>1, <1>3
<1>8. \A c \in Chan : open[c] # Blank =>
        \A k \in 1..2, p \in Position : copy'[k].seg[p] = open[c] => p = Pos(c)
  BY <1>1, <1>4
<1>9. \A i \in 1..Len(todo) : todo[i].kind = "seg" /\ todo[i].val # Blank =>
        \A k \in 1..2, p \in Position : copy'[k].seg[p] = todo[i].val => p = todo[i].at
  BY <1>1, <1>5
<1> QED BY <1>6, <1>7, <1>8, <1>9

LEMMA WritePlaces ==
  ASSUME IInv, WriteFirst \/ WriteSecond
  PROVE  \A k \in 1..2, p \in Position :
           \/ \E l \in 1..2 : copy'[k].seg[p] = copy[l].seg[p]
           \/ \E i \in 1..Len(todo) : /\ todo[i].kind = "seg" /\ todo[i].at = p
                                      /\ copy'[k].seg[p] = todo[i].val
<1>1. PICK n \in 1..2 : copy' = [copy EXCEPT ![n] = Apply(@, Head(todo))]
  BY DEF WriteFirst, WriteSecond
<1>2. phase = "up" /\ todo # <<>>
  BY DEF WriteFirst, WriteSecond
<1>3. todo \in Seq(Writes) /\ copy \in [1..2 -> IndexFile]
  BY DEF IInv, TypeOK
<1>4. Head(todo) = todo[1] /\ Head(todo) \in Writes /\ 1 \in 1..Len(todo)
  BY <1>2, <1>3
<1>5. \A k \in 1..2 : k # n => copy'[k] = copy[k]
  BY <1>1, <1>3
<1>6. copy'[n] = Apply(copy[n], Head(todo)) /\ copy[n] \in IndexFile
  BY <1>1, <1>3
<1> SUFFICES ASSUME NEW p \in Position
             PROVE  \/ copy'[n].seg[p] = copy[n].seg[p]
                    \/ /\ todo[1].kind = "seg" /\ todo[1].at = p
                       /\ copy'[n].seg[p] = todo[1].val
  BY <1>4, <1>5
<1>7. CASE todo[1].kind = "seg" /\ p = todo[1].at
  BY <1>4, <1>6, <1>7, ApplySeg
<1>8. CASE ~(todo[1].kind = "seg" /\ p = todo[1].at)
  BY <1>4, <1>6, <1>8, ApplySeg
<1> QED BY <1>7, <1>8

\* No writes are left and no file is open: a crash, and the start after it.
LEMMA RestartPlaces ==
  ASSUME IInv, Crash \/ CrashInInit \/ StartCopy \/ FinishCopy
  PROVE  /\ \A k \in 1..2 : \E l \in 1..2 : copy'[k].seg = copy[l].seg
         /\ todo' = <<>> /\ \A c \in Chan : open'[c] = Blank
         /\ made' = made /\ kept' = kept /\ covered' = covered
<1>1. copy \in [1..2 -> IndexFile]
  BY DEF IInv, TypeOK
<1>2. Source \in 1..2 /\ Target \in 1..2 /\ \A k \in 1..2 : k = Source \/ k = Target
  BY DEF Source, Target
<1>3. CASE Crash \/ CrashInInit
  <2>1. CASE copy' = copy
    BY <1>3, <2>1 DEF Crash, CrashInInit, Down
  <2>2. CASE copy' = [k \in 1..2 |-> IF k \in Unsynced THEN [copy[k] EXCEPT !.ok = FALSE]
                                                       ELSE copy[k]]
    <3>1. \A k \in 1..2 : LET d == [copy[k] EXCEPT !.ok = FALSE] IN d.seg = copy[k].seg
      BY <1>1 DEF IndexFile
    <3>2. \A k \in 1..2 : copy'[k] = copy[k] \/ copy'[k] = [copy[k] EXCEPT !.ok = FALSE]
      BY <2>2
    <3> QED BY <1>3, <3>1, <3>2 DEF Crash, CrashInInit, Down
  <2> QED BY <1>3, <2>1, <2>2 DEF Crash, CrashInInit
<1>4. CASE StartCopy
  <2>1. copy' = [copy EXCEPT ![Target] = [copy[Target] EXCEPT !.hdr = copy[Source].hdr, !.ok = FALSE]]
    BY <1>1, <1>2, <1>4 DEF StartCopy, HeadCopied
  <2>2. copy[Target] \in IndexFile
    BY <1>1, <1>2
  <2>3. \A k \in 1..2 : copy'[k].seg = copy[k].seg
    BY <1>1, <1>2, <2>1, <2>2 DEF IndexFile
  <2> QED BY <1>4, <2>3 DEF StartCopy, IInv, ghosts
<1>5. CASE FinishCopy
  <2> DEFINE d == Copied(Target, Source)
  <2>1. copy' = [copy EXCEPT ![Target] = d]
    BY <1>5 DEF FinishCopy
  <2>2. d.seg = copy[Source].seg \/ d.seg = copy[Target].seg
    <3>1. copy[Source] \in IndexFile /\ copy[Target] \in IndexFile
      BY <1>1, <1>2
    <3> QED BY <3>1 DEF Copied, IndexFile
  <2> HIDE DEF d
  <2>3. \A k \in 1..2 : \E l \in 1..2 : copy'[k].seg = copy[l].seg
    BY <1>1, <1>2, <2>1, <2>2
  <2> QED BY <1>5, <2>3 DEF FinishCopy, IInv, ghosts
<1> QED BY <1>3, <1>4, <1>5

LEMMA KeptNumbered ==
  ASSUME IInv, KInv, [Next]_vars, Numbered, made <= made',
         \A k \in 1..2, p \in Position : copy'[k].seg[p] # Blank => copy'[k].seg[p][2] <= made',
         covered' \subseteq covered \cup kept
  PROVE  \A r \in kept' \cup covered' : r[2] <= made'
<1>1. /\ made \in Nat /\ made' \in Nat /\ kept \subseteq Recording /\ covered \subseteq Recording
      /\ kept' \subseteq Recording
  <2>1. IInv'
    BY NextInv
  <2> QED BY <2>1, IndexAssumption DEF IInv, TypeOK
<1>2. ASSUME NEW r \in kept \cup covered PROVE r[2] <= made'
  <2>1. r[2] <= made /\ r[2] \in Nat
    BY <1>1, <1>2 DEF Numbered, Recording
  <2> QED BY <1>1, <2>1
<1>3. ASSUME NEW r \in kept', r \notin kept PROVE r[2] <= made'
  <2>1. PICK p \in Position : KeptAt(r, p)'
    BY <1>3, NewlyKept
  <2>2. copy'[1].seg[p] = r
    BY <2>1 DEF KeptAt, HasAt
  <2>3. r # Blank
    BY <1>1, <1>3 DEF Recording, Blank, Chan
  <2> QED BY <2>2, <2>3
<1> QED BY <1>2, <1>3

LEMMA WritePlaced ==
  ASSUME IInv, KInv, Numbered, Placed, WriteFirst \/ WriteSecond
  PROVE  Numbered' /\ Placed'
<1>1. /\ \A k \in 1..2, p \in Position : copy'[k].seg[p] # Blank => copy'[k].seg[p][2] <= made
      /\ \A k, l \in 1..2, p, q \in Position :
           copy'[k].seg[p] # Blank /\ copy'[k].seg[p] = copy'[l].seg[q] => p = q
      /\ \A c \in Chan : open[c] # Blank =>
           \A k \in 1..2, p \in Position : copy'[k].seg[p] = open[c] => p = Pos(c)
      /\ \A i \in 1..Len(todo) : todo[i].kind = "seg" /\ todo[i].val # Blank =>
           \A k \in 1..2, p \in Position : copy'[k].seg[p] = todo[i].val => p = todo[i].at
  BY WritePlaces, PlacesKept
<1>2. /\ made' = made /\ covered' = covered /\ open' = open /\ hdr' = hdr
      /\ \A c \in Chan : Pos(c)' = Pos(c)
      /\ promise' = promise \/ promise' = Blank
      /\ todo' = todo \/ (todo # <<>> /\ todo' = Tail(todo))
  BY DEF WriteFirst, WriteSecond, memory, ghosts, Pos
<1>3. todo \in Seq(Writes) /\ made \in Nat
  BY IndexAssumption DEF IInv, TypeOK
<1>4. \A i \in 1..Len(todo') : \E j \in 1..Len(todo) : todo'[i] = todo[j] /\ j = i + Len(todo) - Len(todo')
  <2>1. CASE todo' = todo
    BY <1>3, <2>1
  <2>2. CASE todo # <<>> /\ todo' = Tail(todo)
    BY <1>3, <2>2, TailFacts
  <2> QED BY <1>2, <2>1, <2>2
<1>5. Numbered'
  <2>1. \A r \in kept' \cup covered' : r[2] <= made'
    BY <1>1, <1>2, <1>3, KeptNumbered DEF Next
  <2> QED BY <1>1, <1>2, <2>1 DEF Numbered
<1>6. \A c \in Chan : open'[c] # Blank =>
        /\ open'[c][2] <= made'
        /\ \A k \in 1..2, p \in Position : copy'[k].seg[p] = open'[c] => p = Pos(c)'
        /\ promise' # Blank /\ promise'[1] = c => promise' = open'[c]
  BY <1>1, <1>2 DEF Placed
<1>7. ASSUME NEW i \in 1..Len(todo'), todo'[i].kind = "seg"
      PROVE  /\ \A j \in 1..Len(todo') : todo'[j].kind = "seg" => j = i
             /\ todo'[i].val # Blank =>
                  /\ todo'[i].val[2] <= made'
                  /\ \A k \in 1..2, p \in Position : copy'[k].seg[p] = todo'[i].val => p = todo'[i].at
                  /\ \A c \in Chan : open'[c] = todo'[i].val => todo'[i].at = Pos(c)'
  <2>1. PICK n \in 1..Len(todo) : todo'[i] = todo[n] /\ n = i + Len(todo) - Len(todo')
    BY <1>4
  <2>2. ASSUME NEW j \in 1..Len(todo'), todo'[j].kind = "seg" PROVE j = i
    <3>1. PICK m \in 1..Len(todo) : todo'[j] = todo[m] /\ m = j + Len(todo) - Len(todo')
      BY <1>4
    <3>2. m = n
      BY <1>7, <2>1, <2>2, <3>1 DEF Placed
    <3>3. Len(todo) \in Nat /\ Len(todo') \in Nat
      BY <1>2, <1>3
    <3> QED BY <2>1, <3>1, <3>2, <3>3
  <2>3. todo[n].kind = "seg"
    BY <1>7, <2>1
  <2>4. ASSUME todo[n].val # Blank
        PROVE  /\ todo[n].val[2] <= made
               /\ \A k \in 1..2, p \in Position : copy'[k].seg[p] = todo[n].val => p = todo[n].at
               /\ \A c \in Chan : open[c] = todo[n].val => todo[n].at = Pos(c)
    BY <1>1, <2>3, <2>4 DEF Placed
  <2> QED BY <1>2, <2>1, <2>2, <2>4
<1>8. Placed'
  BY <1>6, <1>7 DEF Placed
<1> QED BY <1>5, <1>8

LEMMA RestartPlaced ==
  ASSUME IInv, KInv, Numbered, Placed, Crash \/ CrashInInit \/ StartCopy \/ FinishCopy
  PROVE  Numbered' /\ Placed'
<1>1. /\ \A k \in 1..2 : \E l \in 1..2 : copy'[k].seg = copy[l].seg
      /\ todo' = <<>> /\ \A c \in Chan : open'[c] = Blank
      /\ made' = made /\ kept' = kept /\ covered' = covered
  BY RestartPlaces
<1>2. /\ \A k \in 1..2, p \in Position : copy'[k].seg[p] # Blank => copy'[k].seg[p][2] <= made
      /\ \A k, l \in 1..2, p, q \in Position :
           copy'[k].seg[p] # Blank /\ copy'[k].seg[p] = copy'[l].seg[q] => p = q
  <2>1. \A k \in 1..2, p \in Position : \E l \in 1..2 : copy'[k].seg[p] = copy[l].seg[p]
    BY <1>1
  <2> QED BY <2>1, PlacesKept
<1>3. Numbered'
  BY <1>1, <1>2 DEF Numbered
<1>4. \A i \in 1..Len(todo') : FALSE
  BY <1>1
<1> QED BY <1>1, <1>3, <1>4 DEF Placed

\* An operation writes nothing yet.
LEMMA OpensPlaced ==
  ASSUME IInv, KInv, Numbered, Placed, NEW c \in Chan, Continue(c) \/ Allocate(c) \/ Cover(c),
         \A e \in Chan : e # c /\ open[e] # Blank => Pos(e)' = Pos(e),
         \A i \in 1..Len(todo') : todo'[i].kind = "seg" => i = Len(todo') /\ todo'[i].val = Blank
  PROVE  Numbered' /\ Placed'
<1>1. /\ Idle /\ made' = made + 1 /\ open' = [open EXCEPT ![c] = <<c, made + 1>>]
      /\ copy' = copy /\ promise' = promise
      /\ kept' \cup covered' \subseteq kept \cup covered
  BY DEF Continue, Allocate, Cover, Opens, Idle
<1>2. /\ promise = Blank
  BY <1>1 DEF Idle, KInv, Promising
<1>3. /\ made \in Nat /\ open \in [Chan -> Recording \cup {Blank}] /\ copy \in [1..2 -> IndexFile]
      /\ kept \subseteq Recording /\ covered \subseteq Recording
  BY IndexAssumption DEF IInv, TypeOK
<1>4. ASSUME NEW r \in Recording, r[2] <= made PROVE r[2] <= made' /\ r # <<c, made + 1>>
  <2>1. r[2] \in Nat
    BY IndexAssumption DEF Recording
  <2> QED BY <1>1, <1>3, <1>4, <2>1
<1>5. ASSUME NEW k \in 1..2, NEW p \in Position, copy[k].seg[p] # Blank
      PROVE  copy[k].seg[p] \in Recording /\ copy[k].seg[p][2] <= made
  <2>1. copy[k].seg \in [Position -> Recording \cup {Blank}]
    BY <1>3 DEF IndexFile, Segs, Position
  <2> QED BY <1>5, <2>1 DEF Numbered
<1>6. Numbered'
  <2>1. \A r \in kept' \cup covered' : r[2] <= made'
    BY <1>1, <1>3, <1>4 DEF Numbered
  <2>2. \A k \in 1..2, p \in Position : copy'[k].seg[p] # Blank => copy'[k].seg[p][2] <= made'
    BY <1>1, <1>4, <1>5
  <2>3. \A k, l \in 1..2, p, q \in Position :
           copy'[k].seg[p] # Blank /\ copy'[k].seg[p] = copy'[l].seg[q] => p = q
    BY <1>1 DEF Numbered
  <2> QED BY <2>1, <2>2, <2>3 DEF Numbered
<1>7. ASSUME NEW e \in Chan, open'[e] # Blank
      PROVE  /\ open'[e][2] <= made'
             /\ \A k \in 1..2, p \in Position : copy'[k].seg[p] = open'[e] => p = Pos(e)'
             /\ promise' # Blank /\ promise'[1] = e => promise' = open'[e]
  <2>1. CASE e = c
    <3>1. open'[e] = <<c, made + 1>> /\ <<c, made + 1>>[2] <= made' /\ <<c, made + 1>> # Blank
      BY <1>1, <1>3, <2>1 DEF Blank
    <3>2. \A k \in 1..2, p \in Position : copy[k].seg[p] # <<c, made + 1>>
      BY <1>4, <1>5, <3>1
    <3> QED BY <1>1, <1>2, <3>1, <3>2
  <2>2. CASE e # c
    <3>1. open'[e] = open[e] /\ Pos(e)' = Pos(e) /\ open[e] # Blank /\ open[e] \in Recording
      BY <1>1, <1>3, <1>7, <2>2
    <3>2. open[e][2] <= made /\ \A k \in 1..2, p \in Position : copy[k].seg[p] = open[e] => p = Pos(e)
      BY <3>1 DEF Placed
    <3>3. open[e][2] <= made'
      BY <1>4, <3>1, <3>2
    <3> QED BY <1>1, <1>2, <3>1, <3>2, <3>3
  <2> QED BY <2>1, <2>2
<1>8. Placed'
  <2>1. \A i \in 1..Len(todo') : todo'[i].kind = "seg" =>
          todo'[i].val = Blank /\ \A j \in 1..Len(todo') : todo'[j].kind = "seg" => j = i
    OBVIOUS
  <2> QED BY <1>7, <2>1 DEF Placed
<1> QED BY <1>6, <1>8

LEMMA ClosesPlaced ==
  ASSUME IInv, KInv, Numbered, Placed, copy' = copy, made' = made, kept' = kept, covered' = covered,
         \A e \in Chan : open'[e] # Blank => open'[e] = open[e] /\ Pos(e)' = Pos(e),
         \A e \in Chan : open'[e] # Blank /\ promise' # Blank /\ promise'[1] = e => promise' = open'[e],
         \A i \in 1..Len(todo') : todo'[i].kind = "seg" =>
           /\ \A j \in 1..Len(todo') : todo'[j].kind = "seg" => j = i
           /\ \E c \in Chan : open[c] # Blank /\ todo'[i].val = open[c] /\ todo'[i].at = Pos(c)
  PROVE  Numbered' /\ Placed'
<1>1. Numbered'
  BY DEF Numbered
<1>2. \A e \in Chan : open'[e] # Blank =>
        /\ open'[e][2] <= made'
        /\ \A k \in 1..2, p \in Position : copy'[k].seg[p] = open'[e] => p = Pos(e)'
        /\ promise' # Blank /\ promise'[1] = e => promise' = open'[e]
  BY DEF Placed
<1>3. ASSUME NEW i \in 1..Len(todo'), todo'[i].kind = "seg", todo'[i].val # Blank
      PROVE  /\ todo'[i].val[2] <= made'
             /\ \A k \in 1..2, p \in Position : copy'[k].seg[p] = todo'[i].val => p = todo'[i].at
             /\ \A e \in Chan : open'[e] = todo'[i].val => todo'[i].at = Pos(e)'
  <2>1. PICK c \in Chan : open[c] # Blank /\ todo'[i].val = open[c] /\ todo'[i].at = Pos(c)
    BY <1>3
  <2>2. ASSUME NEW e \in Chan, open'[e] = todo'[i].val PROVE todo'[i].at = Pos(e)'
    <3>1. open[e] = open[c] /\ Pos(e)' = Pos(e)
      BY <1>3, <2>1, <2>2
    <3>2. e = c
      BY <2>1, <3>1 DEF KInv, OwnOpen
    <3> QED BY <2>1, <3>1, <3>2
  <2> QED BY <2>1, <2>2 DEF Placed
<1> QED BY <1>1, <1>2, <1>3 DEF Placed

\* An operation that opens a file of a channel leaves the others where they are
\* and blanks one segment, last of all.
LEMMA OpensWays ==
  ASSUME IInv, NEW c \in Chan, Continue(c) \/ Allocate(c) \/ Cover(c)
  PROVE  /\ \A e \in Chan : e # c => Pos(e)' = Pos(e)
         /\ \A i \in 1..Len(todo') : todo'[i].kind = "seg" => i = Len(todo') /\ todo'[i].val = Blank
<1> DEFINE a == After(c)
           f == a.hdr.recorded
           g == a.ring[a.hdr.offset].file
<1>1. Idle
  BY DEF Continue, Allocate, Cover, Opens
<1>2. /\ a.hdr \in Header /\ a.writes \in Seq(Writes)
      /\ \A e \in Chan : e # c => a.hdr.file[e] = hdr.file[e] /\ a.hdr.sect[e] = hdr.sect[e]
      /\ \A i \in 1..Len(a.writes) : a.writes[i].kind # "seg"
      /\ hdr \in Header
  BY <1>1, AfterFacts, AfterSect, AfterShown, IdleFacts
<1>3. /\ \A x, y : SegWrite(x, y, Blank).kind = "seg" /\ SegWrite(x, y, Blank).val = Blank
      /\ \A h : HdrWrite(h).kind = "hdr"
  BY DEF SegWrite, HdrWrite, Write
<1>4. CASE Continue(c)
  <2>1. \A e \in Chan : e # c => hdr'.file[e] = hdr.file[e] /\ hdr'.sect[e] = hdr.sect[e]
    BY <1>2, <1>4 DEF Continue, Header
  <2>2. todo' = <<SegWrite(hdr.file[c], hdr.sect[c] + 1, Blank)>>
    BY <1>4 DEF Continue
  <2>3. \A w : w.val = Blank => \A i \in 1..Len(<<w>>) : <<w>>[i].kind = "seg"
                  => i = Len(<<w>>) /\ <<w>>[i].val = Blank
    OBVIOUS
  <2> QED BY <1>3, <2>1, <2>2, <2>3 DEF Pos
<1>5. CASE Allocate(c)
  <2>1. hdr' = Allocated(a.hdr, c) /\ todo' = Append(a.writes, SegWrite(f, 0, Blank))
    BY <1>5 DEF Allocate
  <2> HIDE DEF a
  <2>2. \A e \in Chan : e # c => hdr'.file[e] = a.hdr.file[e] /\ hdr'.sect[e] = a.hdr.sect[e]
    BY <1>2, <2>1 DEF Allocated, Header
  <2>3. \A w : \A i \in 1..Len(Append(a.writes, w)) :
          \/ i = Len(Append(a.writes, w)) /\ Append(a.writes, w)[i] = w
          \/ i \in 1..Len(a.writes) /\ Append(a.writes, w)[i] = a.writes[i]
    BY <1>2
  <2>4. \A i \in 1..Len(todo') : todo'[i].kind = "seg" => i = Len(todo') /\ todo'[i].val = Blank
    BY <1>2, <1>3, <2>1, <2>3
  <2> QED BY <1>2, <2>2, <2>4 DEF Pos
<1>6. CASE Cover(c)
  <2>1. hdr' = Covering(a.hdr, c, g) /\ todo' = a.writes \o <<HdrWrite(hdr'), SegWrite(g, 0, Blank)>>
    BY <1>6 DEF Cover, CoverWrites
  <2> HIDE DEF a
  <2>2. \A e \in Chan : e # c => hdr'.file[e] = a.hdr.file[e] /\ hdr'.sect[e] = a.hdr.sect[e]
    BY <1>2, <2>1 DEF Covering, Header
  <2>3. \A v, w : \A i \in 1..Len(a.writes \o <<v, w>>) :
          \/ i = Len(a.writes \o <<v, w>>) /\ (a.writes \o <<v, w>>)[i] = w
          \/ (a.writes \o <<v, w>>)[i] = v
          \/ i \in 1..Len(a.writes) /\ (a.writes \o <<v, w>>)[i] = a.writes[i]
    BY <1>2
  <2> DEFINE v == HdrWrite(hdr')
             w == SegWrite(g, 0, Blank)
  <2>5. v.kind = "hdr" /\ w.val = Blank /\ todo' = a.writes \o <<v, w>>
    BY <1>3, <2>1
  <2> HIDE DEF v, w
  <2>6. \A i \in 1..Len(todo') : \/ i = Len(todo') /\ todo'[i] = w
                                 \/ todo'[i] = v
                                 \/ i \in 1..Len(a.writes) /\ todo'[i] = a.writes[i]
    BY <2>3, <2>5
  <2>4. \A i \in 1..Len(todo') : todo'[i].kind = "seg" => i = Len(todo') /\ todo'[i].val = Blank
    BY <1>2, <2>5, <2>6
  <2> QED BY <1>2, <2>2, <2>4 DEF Pos
<1> QED BY <1>4, <1>5, <1>6

LEMMA UpdateOnce ==
  ASSUME NEW c \in Chan, Update(c)
  PROVE  \A i \in 1..Len(todo') : todo'[i].kind = "seg" => i = 1
<1> DEFINE w == SegWrite(hdr.file[c], hdr.sect[c], open[c])
<1>1. /\ \A h : HdrWrite(h).kind = "hdr"
      /\ \A h : RingWrite(h, c).kind = "ring"
  BY DEF HdrWrite, RingWrite, Write
<1>2. CASE todo' = KeepWrites(c)
  <2>1. todo' = <<w, HdrWrite(hdr)>>
    BY <1>2 DEF KeepWrites
  <2> HIDE DEF w
  <2> QED BY <1>1, <2>1
<1>3. CASE todo' = FullWrites(c)
  <2>1. todo' = <<w>> \o <<RingWrite(hdr, c), HdrWrite(Switched(hdr, c))>>
    BY <1>3, Zenon DEF FullWrites, SwitchWrites
  <2> HIDE DEF w
  <2>2. \A x, y, z : /\ Len(<<x>> \o <<y, z>>) = 3
                     /\ (<<x>> \o <<y, z>>)[2] = y /\ (<<x>> \o <<y, z>>)[3] = z
    OBVIOUS
  <2> QED BY <1>1, <2>1, <2>2
<1> QED BY <1>2, <1>3 DEF Update

LEMMA PlacesNext ==
  ASSUME IInv, KInv, Numbered, Placed, [Next]_vars
  PROVE  Numbered' /\ Placed'
<1>1. ASSUME NEW c \in Chan, Continue(c) \/ Allocate(c) \/ Cover(c) PROVE Numbered' /\ Placed'
  BY <1>1, OpensWays, OpensPlaced
<1>2. ASSUME NEW c \in Chan, NoSpace(c) PROVE Numbered' /\ Placed'
  <2> DEFINE a == After(c)
  <2>1. /\ Idle /\ open[c] = Blank /\ hdr' = a.hdr /\ todo' = a.writes /\ open' = open
        /\ copy' = copy /\ made' = made /\ kept' = kept /\ covered' = covered /\ promise' = promise
    BY <1>2 DEF NoSpace, ghosts
  <2>2. /\ \A e \in Chan : e # c => a.hdr.file[e] = hdr.file[e] /\ a.hdr.sect[e] = hdr.sect[e]
        /\ \A i \in 1..Len(a.writes) : a.writes[i].kind # "seg"
    BY <2>1, AfterFacts, AfterSect, AfterShown
  <2> HIDE DEF a
  <2>3. \A e \in Chan : open'[e] # Blank => open'[e] = open[e] /\ Pos(e)' = Pos(e)
    BY <2>1, <2>2 DEF Pos
  <2>4. promise = Blank
    BY <2>1 DEF Idle, KInv, Promising
  <2> QED BY <2>1, <2>2, <2>3, <2>4, ClosesPlaced
<1>3. ASSUME NEW c \in Chan, Update(c) PROVE Numbered' /\ Placed'
  <2>1. /\ open[c] # Blank /\ promise' = open[c] /\ copy' = copy /\ kept' = kept /\ covered' = covered
        /\ Idle /\ (open' = open \/ open' = [open EXCEPT ![c] = Blank])
        /\ \/ hdr' = hdr
           \/ hdr' = Switched(hdr, c) /\ open' = [open EXCEPT ![c] = Blank]
        /\ \A i \in 1..Len(todo') :
             todo'[i].kind = "seg" => todo'[i].at = Pos(c) /\ todo'[i].val = open[c]
    BY <1>3, UpdateWays
  <2>2. made' = made
    BY <1>3 DEF Update
  <2>3. open \in [Chan -> Recording \cup {Blank}] /\ hdr \in Header
    BY DEF IInv, TypeOK
  <2>4. ASSUME NEW e \in Chan, open'[e] # Blank PROVE open'[e] = open[e] /\ Pos(e)' = Pos(e)
    <3>1. open'[e] = open[e]
      BY <2>1, <2>3, <2>4
    <3>2. e # c => Switched(hdr, c).file[e] = hdr.file[e] /\ Switched(hdr, c).sect[e] = hdr.sect[e]
      BY <2>3 DEF Switched, Header
    <3> QED BY <2>1, <2>3, <2>4, <3>1, <3>2 DEF Pos
  <2>5. ASSUME NEW e \in Chan, open'[e] # Blank, promise'[1] = e PROVE promise' = open'[e]
    <3>1. e = c
      BY <2>1, <2>5 DEF KInv, OwnOpen
    <3> QED BY <2>1, <2>4, <2>5, <3>1
  <2>6. \A i \in 1..Len(todo') : todo'[i].kind = "seg" =>
           /\ \A j \in 1..Len(todo') : todo'[j].kind = "seg" => j = i
           /\ \E d \in Chan : open[d] # Blank /\ todo'[i].val = open[d] /\ todo'[i].at = Pos(d)
    BY <1>3, <2>1, UpdateOnce
  <2> QED BY <2>1, <2>2, <2>4, <2>5, <2>6, ClosesPlaced
<1>4. ASSUME NEW c \in Chan, Abandon(c) PROVE Numbered' /\ Placed'
  <2>1. /\ Idle /\ open' = [open EXCEPT ![c] = Blank] /\ hdr' = hdr /\ todo' = todo
        /\ copy' = copy /\ made' = made /\ kept' = kept /\ covered' = covered /\ promise' = promise
    BY <1>4 DEF Abandon, memory, disk, ghosts
  <2>2. open \in [Chan -> Recording \cup {Blank}]
    BY DEF IInv, TypeOK
  <2>3. \A e \in Chan : open'[e] # Blank => open'[e] = open[e] /\ Pos(e)' = Pos(e)
    BY <2>1, <2>2 DEF Pos
  <2>4. promise = Blank /\ \A i \in 1..Len(todo') : FALSE
    BY <2>1 DEF Idle, KInv, Promising
  <2> QED BY <2>1, <2>3, <2>4, ClosesPlaced
<1>5. CASE WriteFirst \/ WriteSecond
  BY <1>5, WritePlaced
<1>6. CASE Crash \/ CrashInInit \/ StartCopy \/ FinishCopy
  BY <1>6, RestartPlaced
<1>7. CASE UNCHANGED vars
  BY <1>7 DEF vars, memory, disk, ghosts, Numbered, Placed, Pos
<1> QED BY <1>1, <1>2, <1>3, <1>4, <1>5, <1>6, <1>7 DEF Next
---------------------------------------------------------------------------
(* The order.                                                               *)

\* A kept recording is where both copies have it.
LEMMA KeptHere ==
  ASSUME IInv, KInv, Numbered, NEW r \in kept, NEW p \in Position,
         \E k \in 1..2 : copy[k].seg[p] = r
  PROVE  KeptAt(r, p) /\ Both(copy, r, p) /\ r \in Recording /\ r # Blank
<1>1. PICK k \in 1..2 : copy[k].seg[p] = r
  OBVIOUS
<1>2. PICK o \in Position : KeptAt(r, o)
  BY DEF KInv, Keeping
<1>3. r \in Recording /\ r # Blank
  BY DEF IInv, TypeOK, Recording, Blank, Chan
<1>4. copy[k].seg[o] = r
  BY <1>2 DEF KeptAt, HasAt
<1>5. o = p
  BY <1>1, <1>3, <1>4 DEF Numbered
<1> QED BY <1>2, <1>3, <1>5 DEF KeptAt, HasAt, Both

LEMMA OrderedOn ==
  ASSUME IInv, KInv, [Next]_vars, Numbered', NEW h, NEW g, NEW rs,
         rs \subseteq kept, rs \subseteq kept', Ordered(h, g, copy, rs)
  PROVE  Ordered(h, g, copy', rs)
<1>1. ASSUME NEW r \in rs, NEW p \in Position, Both(copy', r, p) PROVE Both(copy, r, p)
  <2>1. r \in Recording /\ r # Blank
    BY DEF IInv, TypeOK, Recording, Blank, Chan
  <2>2. PICK o \in Position : KeptAt(r, o)
    BY DEF KInv, Keeping
  <2>3. KeptAt(r, o)'
    BY <2>1, <2>2, KeptNext
  <2>4. copy'[1].seg[o] = r /\ copy'[1].seg[p] = r
    BY <1>1, <2>3 DEF KeptAt, HasAt, Both
  <2>5. o = p
    <3>1. \A q \in Position : copy'[1].seg[p] = copy'[1].seg[q] => p = q
      BY <2>1, <2>4 DEF Numbered
    <3> QED BY <2>4, <3>1
  <2> QED BY <2>2, <2>5 DEF KeptAt, HasAt, Both
<1> QED BY <1>1 DEF Ordered

LEMMA FewerOrdered ==
  ASSUME NEW h, NEW g, NEW cp, NEW rs, NEW qs, qs \subseteq rs, Ordered(h, g, cp, rs)
  PROVE  Ordered(h, g, cp, qs)
BY DEF Ordered

LEMMA OrderedWithin ==
  ASSUME NEW h, NEW g, NEW i, NEW j, Within(h, g, i, j),
         NEW cp, NEW rs \in SUBSET Recording, Ordered(i, j, cp, rs)
  PROVE  Ordered(h, g, cp, rs)
<1>1. \A r \in rs : r[1] \in 0..NumChan
  BY IndexAssumption DEF Recording, Chan
<1>2. \A p \in Position : p[1] \in Container
  BY DEF Position
<1>3. \A r \in rs, p, o \in Position :
        Before(h, g, r[1], p[1], o[1]) => Before(i, j, r[1], p[1], o[1])
  BY <1>1, <1>2 DEF Within
<1> QED BY <1>3 DEF Ordered

LEMMA OrderedApplied ==
  ASSUME NEW d \in IndexFile, NEW ws \in Seq(Writes), NEW h, NEW g, ws # <<>>,
         Leads(d, ws, h, g), NEW cp, NEW rs,
         Head(ws).kind # "hdr" => Ordered(d.hdr, d.ring, cp, rs),
         Head(ws).kind = "hdr" => Ordered(Head(ws).val, g, cp, rs)
  PROVE  Ordered(Apply(d, Head(ws)).hdr, Apply(d, Head(ws)).ring, cp, rs)
<1> DEFINE w == Head(ws)
           e == Apply(d, w)
<1>1. \A c, x, y : Before(e.hdr, e.ring, c, x, y) =>
        \/ w.kind # "hdr" /\ Before(d.hdr, d.ring, c, x, y)
        \/ w.kind = "hdr" /\ Before(w.val, g, c, x, y)
  BY BeforeBefore
<1>2. (w.kind # "hdr" => Ordered(d.hdr, d.ring, cp, rs)) /\ (w.kind = "hdr" => Ordered(w.val, g, cp, rs))
  OBVIOUS
<1> HIDE DEF w, e
<1>3. Ordered(e.hdr, e.ring, cp, rs)
  BY <1>1, <1>2 DEF Ordered
<1> QED BY <1>3 DEF e, w

\* The promise comes last.
LEMMA OrderedMore ==
  ASSUME NEW h, NEW g, NEW cp, NEW rs \in SUBSET Recording, Ordered(h, g, cp, rs),
         NEW x \in Recording, \A r \in rs : r[1] = x[1] => r[2] <= x[2],
         NEW p \in Position, \A o \in Position : Both(cp, x, o) => o = p,
         \A f \in Container : ~Before(h, g, x[1], p[1], f)
  PROVE  Ordered(h, g, cp, rs \cup {x})
<1> SUFFICES ASSUME NEW r \in rs \cup {x}, NEW q \in rs \cup {x},
                    NEW s \in Position, NEW o \in Position,
                    r[1] = q[1], Both(cp, r, s), Both(cp, q, o), Before(h, g, r[1], s[1], o[1])
             PROVE  r[2] < q[2]
  BY DEF Ordered
<1>1. r # x
  <2>1. o[1] \in Container
    BY DEF Position
  <2> QED BY <2>1
<1>2. CASE q = x
  <2>1. r[2] <= x[2] /\ r \in Recording
    BY <1>1, <1>2
  <2>2. r[2] # x[2] /\ r[2] \in Nat /\ x[2] \in Nat
    BY <1>1, <1>2, <2>1, IndexAssumption DEF Recording
  <2> QED BY <1>2, <2>1, <2>2
<1>3. CASE q # x
  BY <1>1, <1>3 DEF Ordered
<1> QED BY <1>2, <1>3
---------------------------------------------------------------------------
LEMMA StillNewer ==
  ASSUME Newer, kept' = kept, covered' = covered,
         \A c \in Chan : open'[c] # Blank => open'[c] = open[c],
         promise' # Blank => promise' = promise
  PROVE  Newer'
BY DEF Newer, OldestGoesFirst, Newest

\* What the invariant keeps of a step that takes nothing up or away.
LEMMA StillOrdered ==
  ASSUME IInv, KInv, OInv, [Next]_vars, Numbered', kept \subseteq kept'
  PROVE  /\ phase = "up" => Ordered(hdr, ring, copy', kept)
         /\ \A k \in 1..2 : copy[k].ok => Ordered(copy[k].hdr, copy[k].ring, copy', kept)
         /\ \A i \in 1..Len(todo) : todo[i].kind = "hdr" => Ordered(todo[i].val, ring, copy', kept)
<1>1. \A h, g : Ordered(h, g, copy, kept) => Ordered(h, g, copy', kept)
  BY OrderedOn
<1> QED BY <1>1 DEF OInv, InOrder

LEMMA WriteFirstOrdered ==
  ASSUME IInv, KInv, OInv, Numbered', WriteFirst
  PROVE  Newer' /\ InOrder'
<1>1. /\ phase = "up" /\ todo # <<>> /\ half = FALSE
      /\ copy' = [copy EXCEPT ![1] = Apply(@, Head(todo))]
      /\ UNCHANGED <<phase, hdr, ring, todo, open, kept, covered, promise>>
  BY CopyFacts DEF WriteFirst, memory, ghosts
<1>2. /\ todo \in Seq(Writes) /\ copy \in [1..2 -> IndexFile]
      /\ copy[1] \in IndexFile /\ Leads(copy[1], todo, hdr, ring) /\ copy[1].ok /\ copy[2].ok
  BY <1>1, CopyFacts DEF Pending
<1>3. /\ Ordered(hdr, ring, copy', kept)
      /\ \A k \in 1..2 : copy[k].ok => Ordered(copy[k].hdr, copy[k].ring, copy', kept)
      /\ \A i \in 1..Len(todo) : todo[i].kind = "hdr" => Ordered(todo[i].val, ring, copy', kept)
  BY <1>1, StillOrdered DEF Next
<1>4. copy'[1] = Apply(copy[1], Head(todo)) /\ copy'[2] = copy[2]
  BY <1>1, <1>2
<1>5. Head(todo) = todo[1] /\ 1 \in 1..Len(todo)
  BY <1>1, <1>2
<1>6. Ordered(copy'[1].hdr, copy'[1].ring, copy', kept)
  <2>1. Ordered(copy[1].hdr, copy[1].ring, copy', kept)
    BY <1>2, <1>3
  <2> QED BY <1>1, <1>2, <1>3, <1>4, <1>5, <2>1, OrderedApplied
<1>7. \A k \in 1..2 : Ordered(copy'[k].hdr, copy'[k].ring, copy', kept)
  <2>1. \A k \in 1..2 : k = 1 \/ k = 2
    OBVIOUS
  <2> QED BY <1>2, <1>3, <1>4, <1>6, <2>1
<1>8. InOrder'
  BY <1>1, <1>3, <1>7 DEF InOrder
<1> QED BY <1>1, <1>8, StillNewer DEF OInv

LEMMA WriteSecondOrdered ==
  ASSUME IInv, KInv, OInv, Numbered', WriteSecond
  PROVE  /\ Ordered(hdr', ring', copy', kept)
         /\ \A k \in 1..2 : Ordered(copy'[k].hdr, copy'[k].ring, copy', kept)
         /\ \A i \in 1..Len(todo') : todo'[i].kind = "hdr" => Ordered(todo'[i].val, ring', copy', kept)
<1>1. /\ phase = "up" /\ todo # <<>> /\ half = TRUE
      /\ copy' = [copy EXCEPT ![2] = Apply(@, Head(todo))] /\ todo' = Tail(todo)
      /\ UNCHANGED <<phase, hdr, ring>> /\ kept \subseteq kept'
  BY CopyFacts DEF WriteSecond, memory
<1>2. /\ todo \in Seq(Writes) /\ copy \in [1..2 -> IndexFile]
      /\ copy[2] \in IndexFile /\ Leads(copy[2], todo, hdr, ring) /\ copy[1].ok /\ copy[2].ok
  BY <1>1, CopyFacts DEF Pending
<1>3. /\ Ordered(hdr, ring, copy', kept)
      /\ \A k \in 1..2 : copy[k].ok => Ordered(copy[k].hdr, copy[k].ring, copy', kept)
      /\ \A i \in 1..Len(todo) : todo[i].kind = "hdr" => Ordered(todo[i].val, ring, copy', kept)
  BY <1>1, StillOrdered DEF Next
<1>4. copy'[2] = Apply(copy[2], Head(todo)) /\ copy'[1] = copy[1]
  BY <1>1, <1>2
<1>5. Head(todo) = todo[1] /\ 1 \in 1..Len(todo)
  BY <1>1, <1>2
<1>6. Ordered(copy'[2].hdr, copy'[2].ring, copy', kept)
  <2>1. Ordered(copy[2].hdr, copy[2].ring, copy', kept)
    BY <1>2, <1>3
  <2> QED BY <1>1, <1>2, <1>3, <1>4, <1>5, <2>1, OrderedApplied
<1>7. \A k \in 1..2 : Ordered(copy'[k].hdr, copy'[k].ring, copy', kept)
  <2>1. \A k \in 1..2 : k = 1 \/ k = 2
    OBVIOUS
  <2> QED BY <1>2, <1>3, <1>4, <1>6, <2>1
<1>8. \A i \in 1..Len(todo') : todo'[i].kind = "hdr" => Ordered(todo'[i].val, ring', copy', kept)
  <2>1. \A i \in 1..Len(todo') : i + 1 \in 1..Len(todo) /\ todo'[i] = todo[i + 1]
    BY <1>1, <1>2, TailFacts
  <2> QED BY <1>1, <1>3, <2>1
<1> QED BY <1>1, <1>3, <1>7, <1>8

LEMMA LastWriteOrdered ==
  ASSUME IInv, KInv, OInv, SInv', Numbered', WriteSecond, Len(todo) = 1, promise # Blank
  PROVE  Newer' /\ InOrder'
<1>1. PICK p \in Position : PromisedAt(p)
  BY DEF KInv, Promising
<1>2. PICK x \in Recording : x = promise
  BY DEF IInv, TypeOK
<1>3. /\ phase = "up" /\ UNCHANGED <<phase, hdr, ring, open, covered>>
      /\ kept' = kept \cup {x} /\ promise' = Blank
  BY <1>2 DEF WriteSecond, memory
<1>4. kept \in SUBSET Recording /\ \A r \in kept : r[1] = x[1] => r[2] <= x[2]
  BY <1>2 DEF IInv, TypeOK, OInv, Newer, Newest
<1>5. \A o \in Position : Both(copy', x, o) => o = p
  <2>1. KeptAt(x, p)'
    BY <1>1, <1>2, WriteSecondPromised
  <2>2. copy'[1].seg[p] = x /\ x # Blank
    BY <1>2, <2>1 DEF KeptAt, HasAt
  <2>3. \A o \in Position : copy'[1].seg[p] # Blank /\ copy'[1].seg[p] = copy'[1].seg[o] => p = o
    <3>1. 1 \in 1..2
      OBVIOUS
    <3> QED BY <3>1, Zenon DEF Numbered
  <2> QED BY <2>2, <2>3 DEF Both
<1>6. Ordered(hdr', ring', copy', kept')
  <2>1. Ordered(hdr', ring', copy', kept)
    BY WriteSecondOrdered
  <2>2. \A f \in Container : ~Before(hdr', ring', x[1], p[1], f)
    BY <1>1, <1>2, <1>3 DEF PromisedAt
  <2>3. Ordered(hdr', ring', copy', kept \cup {x})
    BY <1>4, <1>5, <2>1, <2>2, OrderedMore
  <2> QED BY <1>3, <2>3
<1>7. todo' = <<>> /\ half' = FALSE
  BY DEF WriteSecond, IInv, TypeOK
<1>8. \A k \in 1..2 : Ordered(copy'[k].hdr, copy'[k].ring, copy', kept')
  <2>1. \A k \in 1..2 : Below(copy'[k], <<>>, hdr', ring')
    BY <1>3, <1>7 DEF SInv, Pending
  <2>2. \A k \in 1..2 : Within(copy'[k].hdr, copy'[k].ring, hdr', ring')
    BY <2>1 DEF Below
  <2>3. kept' \in SUBSET Recording
    BY <1>3, <1>4
  <2> QED BY <1>6, <2>2, <2>3, OrderedWithin
<1>9. InOrder'
  <2>1. \A i \in 1..Len(todo') : FALSE
    BY <1>7
  <2> QED BY <1>6, <1>8, <2>1 DEF InOrder
<1>10. OldestGoesFirst'
  BY <1>2, <1>3 DEF OldestGoesFirst, OInv, Newer, Newest
<1>11. ASSUME NEW c \in Chan, open[c] # Blank PROVE Newest(open[c], kept', covered')
  <2>1. Newest(open[c], kept, covered)
    BY <1>11 DEF OInv, Newer
  <2>2. x[1] = open[c][1] => x[2] <= open[c][2]
    <3>1. open[c][1] = c
      BY <1>11 DEF KInv, OwnOpen
    <3>2. x[1] = c => x = open[c]
      BY <1>2, <1>11 DEF OInv, Placed
    <3>3. x[2] <= x[2]
      BY IndexAssumption DEF Recording
    <3> QED BY <3>1, <3>2, <3>3
  <2> QED BY <1>3, <2>1, <2>2 DEF Newest
<1> QED BY <1>3, <1>9, <1>10, <1>11 DEF Newer

LEMMA WriteSecondAged ==
  ASSUME IInv, KInv, OInv, SInv', Numbered', WriteSecond
  PROVE  Newer' /\ InOrder'
<1>1. CASE Len(todo) = 1 /\ promise # Blank
  BY <1>1, LastWriteOrdered
<1>2. CASE ~(Len(todo) = 1 /\ promise # Blank)
  <2>1. /\ kept' = kept /\ covered' = covered /\ open' = open /\ (promise' = promise \/ promise' = Blank)
        /\ phase' = "up"
    BY <1>2 DEF WriteSecond
  <2>2. InOrder'
    BY <2>1, WriteSecondOrdered DEF InOrder
  <2> QED BY <2>1, <2>2, StillNewer DEF OInv
<1> QED BY <1>1, <1>2

LEMMA RestartOrdered ==
  ASSUME IInv, KInv, OInv, Numbered', Crash \/ CrashInInit \/ StartCopy \/ FinishCopy
  PROVE  Newer' /\ InOrder'
<1>1. /\ todo' = <<>> /\ \A c \in Chan : open'[c] = Blank
      /\ kept' = kept /\ covered' = covered
  BY RestartPlaces
<1>2. promise' = Blank
  <2>1. CASE Crash \/ CrashInInit
    BY <2>1 DEF Crash, CrashInInit, Down
  <2>2. CASE StartCopy \/ FinishCopy
    BY <2>2 DEF StartCopy, FinishCopy, ghosts, KInv, Promising
  <2> QED BY <2>1, <2>2
<1>3. Newer'
  BY <1>1, <1>2, StillNewer DEF OInv
<1>4. \A k \in 1..2 : copy[k].ok => Ordered(copy[k].hdr, copy[k].ring, copy', kept)
  BY <1>1, StillOrdered DEF Next
<1>5. copy \in [1..2 -> IndexFile] /\ Source \in 1..2 /\ Target \in 1..2 /\ copy[Source].ok
      /\ \A k \in 1..2 : k = Source \/ k = Target
  <2>1. copy[1].ok \/ copy[2].ok
    BY DEF IInv, AlwaysAValidCopy
  <2>2. copy \in [1..2 -> IndexFile]
    BY DEF IInv, TypeOK
  <2>3. Source \in 1..2 /\ Target \in 1..2 /\ \A k \in 1..2 : k = Source \/ k = Target
    BY DEF Source, Target
  <2> QED BY <2>1, <2>2, <2>3 DEF Source
<1>6. \A k \in 1..2 : copy'[k].ok => \E l \in 1..2 : /\ copy[l].ok
                                                     /\ copy'[k].hdr = copy[l].hdr
                                                     /\ copy'[k].ring = copy[l].ring
  <2>1. CASE Crash \/ CrashInInit
    <3>1. \A k \in 1..2 : LET d == [copy[k] EXCEPT !.ok = FALSE] IN d.ok = FALSE
      BY <1>5 DEF IndexFile
    <3>2. \A k \in 1..2 : copy'[k] = copy[k] \/ copy'[k] = [copy[k] EXCEPT !.ok = FALSE]
      BY <2>1 DEF Crash, CrashInInit
    <3> QED BY <3>1, <3>2
  <2>2. CASE StartCopy
    <3>1. copy' = [copy EXCEPT ![Target] = [copy[Target] EXCEPT !.hdr = copy[Source].hdr, !.ok = FALSE]]
      BY <1>5, <2>2 DEF StartCopy, HeadCopied
    <3>2. copy[Target] \in IndexFile
      BY <1>5
    <3>3. copy'[Target].ok = FALSE /\ \A k \in 1..2 : k # Target => copy'[k] = copy[k]
      BY <1>5, <3>1, <3>2 DEF IndexFile
    <3> QED BY <3>3
  <2>3. CASE FinishCopy
    <3>1. copy' = [copy EXCEPT ![Target] = Copied(Target, Source)]
      BY <2>3 DEF FinishCopy
    <3>2. copy[Source] \in IndexFile
      BY <1>5
    <3>3. Copied(Target, Source).hdr = copy[Source].hdr /\ Copied(Target, Source).ring = copy[Source].ring
      BY <3>2 DEF Copied, IndexFile
    <3>4. \A k \in 1..2 : \/ copy'[k].hdr = copy[Source].hdr /\ copy'[k].ring = copy[Source].ring
                          \/ copy'[k] = copy[k]
      BY <1>5, <3>1, <3>3
    <3> QED BY <1>5, <3>4
  <2> QED BY <2>1, <2>2, <2>3
<1>7. phase' = "up" => Ordered(hdr', ring', copy', kept)
  <2>1. CASE Crash \/ CrashInInit \/ StartCopy
    BY <2>1 DEF Crash, CrashInInit, Down, StartCopy
  <2>2. CASE FinishCopy
    <3>1. hdr' = copy[Source].hdr /\ ring' = copy[Source].ring
      BY <2>2 DEF FinishCopy
    <3> QED BY <1>4, <1>5, <3>1
  <2> QED BY <2>1, <2>2
<1>8. InOrder'
  <2>1. \A i \in 1..Len(todo') : FALSE
    BY <1>1
  <2>2. \A k \in 1..2 : copy'[k].ok => Ordered(copy'[k].hdr, copy'[k].ring, copy', kept')
    BY <1>1, <1>4, <1>6
  <2> QED BY <1>1, <1>7, <2>1, <2>2 DEF InOrder
<1> QED BY <1>3, <1>8
---------------------------------------------------------------------------
(* The operations keep the order.                                           *)

LEMMA OperationOrdered ==
  ASSUME IInv, OInv, copy' = copy, kept' \subseteq kept,
         Ordered(hdr', ring', copy, kept'),
         \A i \in 1..Len(todo') : todo'[i].kind = "hdr" => Ordered(todo'[i].val, ring', copy, kept')
  PROVE  InOrder'
<1>1. \A k \in 1..2 : copy[k].ok => Ordered(copy[k].hdr, copy[k].ring, copy, kept')
  BY FewerOrdered DEF OInv, InOrder
<1> QED BY <1>1 DEF InOrder

\* The container that a channel leaves goes last.
LEMMA AfterOrdered ==
  ASSUME IInv, OInv, Idle, NEW c \in Chan
  PROVE  Ordered(After(c).hdr, After(c).ring, copy, kept)
<1>1. Within(After(c).hdr, After(c).ring, hdr, ring)
  BY AfterWithin
<1>2. Ordered(hdr, ring, copy, kept) /\ kept \in SUBSET Recording
  BY DEF OInv, InOrder, Idle, IInv, TypeOK
<1> QED BY <1>1, <1>2, OrderedWithin

\* A recording that is begun is newer than all that were.
LEMMA OpensNewer ==
  ASSUME IInv, KInv, OInv, NEW c \in Chan, Opens(c), OldestGoesFirst',
         kept' \cup covered' \subseteq kept \cup covered,
         \A e \in Chan : e # c /\ open[e] # Blank => Newest(open[e], kept', covered')
  PROVE  Newer'
<1>1. /\ Idle /\ promise' = promise /\ open' = [open EXCEPT ![c] = <<c, made + 1>>]
  BY DEF Opens
<1>2. promise' = Blank
  BY <1>1 DEF Idle, KInv, Promising
<1>3. /\ made \in Nat /\ open \in [Chan -> Recording \cup {Blank}]
      /\ kept \subseteq Recording /\ covered \subseteq Recording
  BY IndexAssumption DEF IInv, TypeOK
<1>4. \A r \in kept \cup covered : r[2] <= made /\ r[2] \in Nat
  BY <1>3, IndexAssumption DEF OInv, Numbered, Recording
<1>5. \A x : x = <<c, made + 1>> => Newest(x, kept', covered')
  BY <1>3, <1>4 DEF Newest
<1>6. \A e \in Chan : open'[e] # Blank => Newest(open'[e], kept', covered')
  BY <1>1, <1>3, <1>5
<1> QED BY <1>2, <1>6 DEF Newer

LEMMA ContinueOrdered ==
  ASSUME IInv, KInv, OInv, NEW c \in Chan, Continue(c)
  PROVE  Newer' /\ InOrder'
<1>1. /\ Opens(c) /\ Idle /\ copy' = copy /\ ring' = ring /\ kept' = kept /\ covered' = covered
      /\ hdr' = [hdr EXCEPT !.sect[c] = @ + 1]
      /\ todo' = <<SegWrite(hdr.file[c], hdr.sect[c] + 1, Blank)>>
  BY DEF Continue, Opens
<1>2. Ordered(hdr, ring, copy, kept) /\ hdr \in Header
  BY <1>1 DEF OInv, InOrder, Idle, IInv, TypeOK
<1>3. hdr'.offset = hdr.offset /\ hdr'.full = hdr.full /\ hdr'.file = hdr.file
  BY <1>1, <1>2 DEF Header
<1>4. \A e, x, y : Before(hdr', ring', e, x, y) => Before(hdr, ring, e, x, y)
  BY <1>1, <1>3 DEF Before, Live, Age
<1>5. Ordered(hdr', ring', copy, kept')
  BY <1>1, <1>2, <1>4 DEF Ordered
<1>6. \A i \in 1..Len(todo') : todo'[i].kind = "seg"
  BY <1>1 DEF SegWrite, Write
<1>7. InOrder'
  BY <1>1, <1>5, <1>6, OperationOrdered
<1>8. Newer'
  BY <1>1, OpensNewer DEF OInv, Newer, OldestGoesFirst
<1> QED BY <1>7, <1>8

LEMMA AllocateOrdered ==
  ASSUME IInv, KInv, OInv, NEW c \in Chan, Allocate(c)
  PROVE  Newer' /\ InOrder'
<1> DEFINE a == After(c)
           w == SegWrite(a.hdr.recorded, 0, Blank)
<1>1. /\ Opens(c) /\ Idle /\ copy' = copy /\ ring' = a.ring /\ kept' = kept /\ covered' = covered
      /\ hdr' = Allocated(a.hdr, c) /\ todo' = Append(a.writes, w) /\ a.hdr.recorded < Total
  BY DEF Allocate, Opens
<1>2. /\ a.hdr \in Header /\ Owned(a.hdr, a.ring) /\ a.writes \in Seq(Writes)
  BY <1>1, AfterFacts
<1>3. /\ \A e, p : p \in Position /\ Shows(hdr, ring, e, p) => Shows(a.hdr, a.ring, e, p)
      /\ \A i \in 1..Len(a.writes) : a.writes[i].kind = "hdr" => a.writes[i].val = a.hdr
      /\ Ordered(a.hdr, a.ring, copy, kept) /\ phase = "up"
  BY <1>1, AfterShown, AfterOrdered DEF Idle
<1>4. w.kind = "seg"
  BY DEF SegWrite, Write
<1> HIDE DEF a, w
<1>5. ASSUME NEW q \in kept, NEW o \in Position, Both(copy, q, o) PROVE o[1] # a.hdr.recorded
  <2>1. KeptAt(q, o)
    BY <1>5, KeptHere DEF OInv, Both
  <2>2. Shows(a.hdr, a.ring, q[1], o)
    BY <1>3, <2>1 DEF KeptAt
  <2>3. o[1] < a.hdr.recorded
    BY <1>2, <2>2, ShownOwned
  <2>4. a.hdr.recorded \in Nat /\ o[1] \in Nat
    BY <1>2, IndexAssumption DEF Header, Position, Container
  <2> QED BY <2>3, <2>4
<1>6. \A e, x, y : Before(Allocated(a.hdr, c), a.ring, e, x, y) =>
        Before(a.hdr, a.ring, e, x, y) \/ y = a.hdr.recorded
  BY <1>2, AllocatedBefore
<1>7. Ordered(hdr', ring', copy, kept')
  BY <1>1, <1>3, <1>5, <1>6 DEF Ordered
<1>8. ASSUME NEW i \in 1..Len(todo'), todo'[i].kind = "hdr"
      PROVE  Ordered(todo'[i].val, ring', copy, kept')
  <2>1. w \in Writes
    <3>1. a.hdr.recorded \in Container /\ 0 \in Sect
      BY <1>1, <1>2, IndexAssumption DEF Header, Container, Sect
    <3> QED BY <1>2, <3>1, WriteTypes DEF w
  <2> QED BY <1>1, <1>2, <1>3, <1>4, <1>8
<1>9. InOrder'
  BY <1>1, <1>7, <1>8, OperationOrdered
<1>10. Newer'
  BY <1>1, OpensNewer DEF OInv, Newer, OldestGoesFirst
<1> QED BY <1>9, <1>10

\* What is given up to a full disk is older than what is left.
LEMMA LostOldest ==
  ASSUME NEW h \in Header, NEW g, Owned(h, g), h.full > 0,
         NEW cp, NEW rs, Ordered(h, g, cp, rs),
         NEW q \in rs, NEW o \in Position, Both(cp, q, o), Shows(h, g, q[1], o),
         o[1] = g[h.offset].file,
         NEW r \in rs, NEW p \in Position, Both(cp, r, p), Shows(h, g, r[1], p),
         p[1] # o[1], r[1] = q[1]
  PROVE  q[2] < r[2]
<1> DEFINE n == h.offset
<1>1. n \in Container /\ Live(h, n)
  <2>1. 1 \in Chan
    BY IndexAssumption DEF Chan
  <2> QED BY <2>1, OldestLive
<1>2. PICK s \in Container : Live(h, s) /\ g[s].chn = q[1] /\ g[s].file = o[1]
  BY <1>1 DEF Shows, Owned
<1>3. s = n
  BY <1>1, <1>2 DEF Owned
<1>4. Age(h, n) = 0 /\ \A t \in Container : Age(h, t) \in Nat /\ (Age(h, t) = 0 => t = n)
  BY Ages
<1> HIDE DEF n
<1>5. Before(h, g, q[1], o[1], p[1])
  <2>1. CASE \E t \in Container : Live(h, t) /\ g[t].chn = r[1] /\ g[t].file = p[1]
    <3>1. PICK t \in Container : Live(h, t) /\ g[t].chn = r[1] /\ g[t].file = p[1]
      BY <2>1
    <3>2. t # n
      BY <1>2, <1>3, <3>1
    <3>3. Age(h, s) < Age(h, t)
      BY <1>3, <1>4, <3>2
    <3> QED BY <1>2, <3>1, <3>3 DEF Before
  <2>2. CASE r[1] \in Chan /\ h.file[r[1]] = p[1]
    BY <1>2, <2>2 DEF Before
  <2> QED BY <2>1, <2>2 DEF Shows
<1> QED BY <1>5 DEF Ordered

LEMMA CoverOrdered ==
  ASSUME IInv, KInv, OInv, NEW c \in Chan, Cover(c)
  PROVE  Newer' /\ InOrder'
<1> DEFINE a == After(c)
           f == a.ring[a.hdr.offset].file
           w == SegWrite(f, 0, Blank)
           v == HdrWrite(hdr')
           lost == {r \in kept : \E s \in Sect : copy[1].seg[<<f, s>>] = r}
<1>1. /\ Opens(c) /\ Idle /\ copy' = copy /\ ring' = a.ring /\ a.hdr.recorded = Total
      /\ hdr' = Covering(a.hdr, c, f) /\ todo' = a.writes \o <<v, w>>
  BY DEF Cover, Opens, CoverWrites
<1>2. kept' = kept \ lost /\ covered' = covered \cup lost
  <2>1. lost = {r \in kept : \E s \in Sect : copy[1].seg[f, s] = r}
    BY Zenon
  <2> QED BY <2>1, Zenon DEF Cover
<1>3. /\ a.hdr \in Header /\ a.ring \in Ring /\ Owned(a.hdr, a.ring) /\ a.writes \in Seq(Writes)
      /\ a.hdr.full > 0
      /\ \A e \in Chan : e # c => a.hdr.file[e] = hdr.file[e]
  BY <1>1, AfterFacts, RoomInRing
<1>4. /\ \A e, p : p \in Position /\ Shows(hdr, ring, e, p) => Shows(a.hdr, a.ring, e, p)
      /\ \A i \in 1..Len(a.writes) : a.writes[i].kind = "hdr" => a.writes[i].val = a.hdr
      /\ Ordered(a.hdr, a.ring, copy, kept) /\ phase = "up"
  BY <1>1, AfterShown, AfterOrdered DEF Idle
<1>5. w.kind = "seg" /\ v.kind = "hdr" /\ v.val = hdr'
  BY DEF SegWrite, HdrWrite, Write
<1>6. ASSUME NEW r \in kept
      PROVE  \E p \in Position : /\ Both(copy, r, p) /\ Shows(a.hdr, a.ring, r[1], p)
                                 /\ (p[1] = f <=> r \in lost)
  <2>1. PICK p \in Position : KeptAt(r, p)
    BY DEF KInv, Keeping
  <2>2. Both(copy, r, p) /\ Shows(a.hdr, a.ring, r[1], p)
    BY <1>4, <2>1 DEF KeptAt, HasAt, Both
  <2> HIDE DEF a
  <2>3. ASSUME p[1] = f PROVE r \in lost
    <3>1. p[2] \in Sect /\ p = <<f, p[2]>>
      BY <2>3 DEF Position
    <3>2. copy[1].seg[p] = r
      BY <2>2 DEF Both
    <3> QED BY <3>1, <3>2
  <2>4. ASSUME r \in lost PROVE p[1] = f
    <3>1. PICK s \in Sect : copy[1].seg[<<f, s>>] = r
      BY <2>4
    <3>2. PICK o \in Position : o = <<f, s>>
      <4>1. Live(a.hdr, a.hdr.offset) /\ a.hdr.offset \in Container
        BY <1>3, OldestLive
      <4>2. f < a.hdr.recorded
        BY <1>3, <4>1 DEF Owned
      <4>3. f \in 0..Total
        BY <1>3, <4>1 DEF Ring
      <4>4. f \in Container
        BY <1>1, <4>2, <4>3, IndexAssumption DEF Container
      <4> QED BY <4>4 DEF Position
    <3>3. Both(copy, r, o)
      BY <3>1, <3>2, KeptHere DEF OInv
    <3>4. copy[1].seg[o] = r /\ copy[1].seg[p] = r /\ r # Blank
      BY <2>2, <3>1, <3>2, KeptHere DEF Both, OInv
    <3>5. o = p
      <4>1. \A x, y \in Position : copy[1].seg[x] # Blank /\ copy[1].seg[x] = copy[1].seg[y] => x = y
        BY DEF OInv, Numbered
      <4> QED BY <3>4, <4>1
    <3> QED BY <3>2, <3>5
  <2> QED BY <2>2, <2>3, <2>4
<1>7. lost \subseteq kept
  OBVIOUS
<1> HIDE DEF a, w, v, lost
<1>8. ASSUME NEW q \in lost, NEW r \in kept', r[1] = q[1] PROVE q[2] < r[2]
  <2>1. q \in kept /\ r \in kept /\ r \notin lost
    BY <1>2, <1>7
  <2>2. PICK o \in Position : Both(copy, q, o) /\ Shows(a.hdr, a.ring, q[1], o) /\ o[1] = f
    BY <1>6, <2>1
  <2>3. PICK p \in Position : Both(copy, r, p) /\ Shows(a.hdr, a.ring, r[1], p) /\ p[1] # f
    BY <1>6, <2>1
  <2> QED BY <1>3, <1>4, <1>8, <2>1, <2>2, <2>3, LostOldest
<1>9. OldestGoesFirst'
  BY <1>2, <1>8 DEF OldestGoesFirst, OInv, Newer
<1>10. Ordered(hdr', ring', copy, kept')
  <2>1. ASSUME NEW q \in kept', NEW o \in Position, Both(copy, q, o) PROVE o[1] # f
    <3>1. q \in kept /\ q \notin lost
      BY <1>2
    <3>2. PICK p \in Position : Both(copy, q, p) /\ p[1] # f
      BY <1>6, <3>1
    <3>3. q # Blank /\ copy[1].seg[o] = q /\ copy[1].seg[p] = q
      BY <2>1, <3>1, <3>2, KeptHere DEF OInv, Both
    <3>4. o = p
      <4>1. \A x, y \in Position : copy[1].seg[x] # Blank /\ copy[1].seg[x] = copy[1].seg[y] => x = y
        BY DEF OInv, Numbered
      <4> QED BY <3>3, <4>1
    <3> QED BY <3>2, <3>4
  <2>2. \A e, x, y : Before(Covering(a.hdr, c, f), a.ring, e, x, y) =>
          Before(a.hdr, a.ring, e, x, y) \/ y = f
    BY <1>3, CoveringBefore
  <2>3. Ordered(a.hdr, a.ring, copy, kept')
    BY <1>2, <1>4, FewerOrdered
  <2> HIDE DEF f
  <2> QED BY <1>1, <2>1, <2>2, <2>3 DEF Ordered
<1>11. ASSUME NEW i \in 1..Len(todo'), todo'[i].kind = "hdr"
       PROVE  Ordered(todo'[i].val, ring', copy, kept')
  <2>1. todo'[i] = w \/ todo'[i] = v \/ (i \in 1..Len(a.writes) /\ todo'[i] = a.writes[i])
    BY <1>1, <1>3
  <2>2. todo'[i].val = hdr' \/ todo'[i].val = a.hdr
    BY <1>4, <1>5, <1>11, <2>1
  <2>3. Ordered(a.hdr, ring', copy, kept')
    BY <1>1, <1>2, <1>4, FewerOrdered
  <2> QED BY <1>10, <2>2, <2>3
<1>12. InOrder'
  BY <1>1, <1>2, <1>10, <1>11, OperationOrdered
<1>13. ASSUME NEW e \in Chan, e # c, open[e] # Blank PROVE Newest(open[e], kept', covered')
  <2>1. Newest(open[e], kept, covered) /\ open[e] \in Recording
    BY <1>13 DEF OInv, Newer, IInv, TypeOK
  <2>2. ASSUME NEW q \in lost, q[1] = open[e][1] PROVE q[2] < open[e][2]
    <3>1. q \in kept /\ q[2] <= open[e][2] /\ q \in Recording
      BY <1>7, <2>1, <2>2 DEF Newest, IInv, TypeOK
    <3>2. q # open[e]
      <4>1. PICK o \in Position : Both(copy, q, o) /\ o[1] = f
        BY <1>6, <1>7, <2>2
      <4>2. SUFFICES ASSUME q = open[e] PROVE FALSE
        OBVIOUS
      <4>3. o = Pos(e)
        BY <1>13, <4>1, <4>2 DEF OInv, Placed, Both
      <4>4. a.hdr.file[e] = f
        BY <1>3, <1>13, <4>1, <4>3 DEF Pos
      <4>5. a.hdr.offset \in Container /\ Live(a.hdr, a.hdr.offset)
        BY <1>3, OldestLive
      <4> QED BY <1>3, <4>4, <4>5 DEF Owned
    <3>3. q[2] # open[e][2] /\ q[2] \in Nat /\ open[e][2] \in Nat
      BY <2>1, <2>2, <3>1, <3>2, IndexAssumption DEF Recording
    <3> QED BY <3>1, <3>3
  <2> QED BY <1>2, <2>1, <2>2 DEF Newest
<1>14. Newer'
  BY <1>1, <1>2, <1>7, <1>9, <1>13, OpensNewer
<1> QED BY <1>12, <1>14

LEMMA NoSpaceOrdered ==
  ASSUME IInv, KInv, OInv, NEW c \in Chan, NoSpace(c)
  PROVE  Newer' /\ InOrder'
<1> DEFINE a == After(c)
<1>1. /\ Idle /\ hdr' = a.hdr /\ ring' = a.ring /\ todo' = a.writes /\ copy' = copy
      /\ UNCHANGED <<open, kept, covered, promise>>
  BY DEF NoSpace, ghosts
<1>2. /\ Ordered(a.hdr, a.ring, copy, kept)
      /\ \A i \in 1..Len(a.writes) : a.writes[i].kind = "hdr" => a.writes[i].val = a.hdr
  BY <1>1, AfterOrdered, AfterShown
<1> HIDE DEF a
<1>3. InOrder'
  BY <1>1, <1>2, OperationOrdered
<1> QED BY <1>1, <1>3, StillNewer DEF OInv

LEMMA UpdateOrdered ==
  ASSUME IInv, KInv, OInv, NEW c \in Chan, Update(c)
  PROVE  Newer' /\ InOrder'
<1>1. /\ Idle /\ copy' = copy /\ open[c] # Blank /\ promise' = open[c]
      /\ kept' = kept /\ covered' = covered /\ Holds(hdr, c)
      /\ (open' = open \/ open' = [open EXCEPT ![c] = Blank])
      /\ \/ hdr' = hdr /\ ring' = ring
         \/ hdr' = Switched(hdr, c) /\ ring' = RingWith(hdr, c)
      /\ \A i \in 1..Len(todo') : todo'[i].kind = "hdr" => todo'[i].val = hdr'
  BY UpdateWays
<1>2. /\ Ordered(hdr, ring, copy, kept) /\ hdr \in Header /\ ring \in Ring
      /\ open \in [Chan -> Recording \cup {Blank}]
  BY <1>1 DEF OInv, InOrder, Idle, IInv, TypeOK
<1>3. hdr.full < Total
  <2>1. phase = "up" /\ Counted(hdr)
    BY <1>1 DEF IInv, Idle
  <2> QED BY <1>1, <1>2, <2>1, IdleFacts, RoomInRing
<1>4. Ordered(hdr', ring', copy, kept')
  <2>1. CASE hdr' = hdr /\ ring' = ring
    BY <1>1, <1>2, <2>1
  <2>2. CASE hdr' = Switched(hdr, c) /\ ring' = RingWith(hdr, c)
    <3>1. ring' = [ring EXCEPT ![NextSlot(hdr)] = Entry(hdr, c)]
      BY <2>2 DEF RingWith
    <3>2. \A e : \A x, y \in Container : Before(hdr', ring', e, x, y) => Before(hdr, ring, e, x, y)
      BY <1>1, <1>2, <1>3, <2>2, <3>1, SwitchedBefore
    <3>3. \A p \in Position : p[1] \in Container
      BY DEF Position
    <3>4. \A e : \A p, o \in Position : Before(hdr', ring', e, p[1], o[1]) => Before(hdr, ring, e, p[1], o[1])
      BY <3>2, <3>3
    <3> QED BY <1>1, <1>2, <3>4 DEF Ordered
  <2> QED BY <1>1, <2>1, <2>2
<1>5. InOrder'
  BY <1>1, <1>4, OperationOrdered
<1>6. Newer'
  BY <1>1, <1>2 DEF OInv, Newer, OldestGoesFirst
<1> QED BY <1>5, <1>6

LEMMA AbandonOrdered ==
  ASSUME IInv, OInv, NEW c \in Chan, Abandon(c)
  PROVE  Newer' /\ InOrder'
<1>1. /\ open' = [open EXCEPT ![c] = Blank]
      /\ UNCHANGED <<phase, hdr, ring, copy, todo, kept, covered, promise>>
  BY DEF Abandon, memory, disk, ghosts
<1>2. InOrder'
  BY <1>1 DEF OInv, InOrder
<1>3. \A e \in Chan : open'[e] # Blank => open'[e] = open[e]
  BY <1>1 DEF IInv, TypeOK
<1> QED BY <1>1, <1>2, <1>3, StillNewer DEF OInv

LEMMA OInvInit == Init => OInv
<1> SUFFICES ASSUME Init PROVE OInv
  OBVIOUS
<1>1. /\ kept = {} /\ covered = {} /\ promise = Blank /\ \A c \in Chan : open[c] = Blank
      /\ todo = <<>> /\ \A k \in 1..2, p \in Position : copy[k].seg[p] = Blank
  BY DEF Init, Position
<1>2. \A i \in 1..Len(todo) : FALSE
  BY <1>1
<1> QED BY <1>1, <1>2 DEF OInv, Numbered, Placed, Newer, InOrder, OldestGoesFirst, Ordered

LEMMA OInvNext == IInv /\ KInv /\ SInv /\ OInv /\ [Next]_vars => OInv'
<1> SUFFICES ASSUME IInv, KInv, SInv, OInv, [Next]_vars PROVE OInv'
  OBVIOUS
<1>1. Numbered' /\ Placed'
  BY PlacesNext DEF OInv
<1>2. SInv'
  BY SInvNext
<1>3. Newer' /\ InOrder'
  <2>1. ASSUME NEW c \in Chan,
               Continue(c) \/ Allocate(c) \/ Cover(c) \/ NoSpace(c) \/ Update(c) \/ Abandon(c)
        PROVE  Newer' /\ InOrder'
    BY <2>1, ContinueOrdered, AllocateOrdered, CoverOrdered, NoSpaceOrdered, UpdateOrdered, AbandonOrdered
  <2>2. CASE UNCHANGED vars
    BY <2>2 DEF vars, memory, disk, ghosts, OInv, Newer, InOrder, OldestGoesFirst
  <2>3. CASE WriteFirst \/ WriteSecond \/ Crash \/ CrashInInit \/ StartCopy \/ FinishCopy
    BY <1>1, <1>2, <2>3, WriteFirstOrdered, WriteSecondAged, RestartOrdered
  <2> QED BY <2>1, <2>2, <2>3 DEF Next
<1> QED BY <1>1, <1>3 DEF OInv

\* A full disk gives up the recordings of a channel oldest first.
THEOREM OldestGoesFirstAlways == Spec => []OldestGoesFirst
<1>1. Spec => [](IInv /\ KInv /\ SInv /\ OInv)
  <2>1. Init => IInv /\ KInv /\ SInv /\ OInv
    BY InitInv, KInvInit, SInvInit, OInvInit
  <2>2. (IInv /\ KInv /\ SInv /\ OInv) /\ [Next]_vars => (IInv /\ KInv /\ SInv /\ OInv)'
    BY NextInv, KInvNext, SInvNext, OInvNext
  <2> QED BY <2>1, <2>2, PTL DEF Spec
<1>2. OInv => OldestGoesFirst
  BY DEF OInv, Newer
<1> QED BY <1>1, <1>2, PTL
=============================================================================
