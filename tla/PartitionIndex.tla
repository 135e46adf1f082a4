--------------------------- MODULE PartitionIndex ---------------------------
(***************************************************************************)
(* The index of a recording partition (custommp4/partitionindex.c): which   *)
(* of its file containers each channel records into, which are full, and    *)
(* where every recording lies.  The index is kept twice on the disk         *)
(* (index10.bin, index11.bin); a crash or a loss of power may come between  *)
(* any two of the synchronous writes that change it, or tear one, and       *)
(* init_partition_index then rebuilds one copy from the other.              *)
(*                                                                         *)
(* A container is never freed: it is unused, or the current one of a        *)
(* channel, or full and in the ring of full containers, whose oldest is     *)
(* recorded over when the disk is full (get_rec_path).  Every operation     *)
(* runs under index->lock in the writer thread: it changes the header in    *)
(* memory at once and leaves writes `todo`, each made to copy 1, then to    *)
(* copy 2.                                                                  *)
(*                                                                         *)
(* Abstractions.  A segment is blank or holds a recording; positions and    *)
(* times are left out, so that "the container has room" is a choice.  Only  *)
(* the header has a checksum: a torn header is an invalid copy, entries of  *)
(* 16 and 32 bytes inside a sector are not torn.  Picture indexes are left  *)
(* out.  Bounds: MaxRecs recordings, MaxCrashes crashes.                    *)
(***************************************************************************)
EXTENDS Integers, Sequences

CONSTANTS NumChan,     \* channels with an entry in chn_info
          Total,       \* total_file_nums
          MaxSect,     \* NFILE_PER_SECT
          MaxRecs, MaxCrashes

Chan      == 1..NumChan           \* chn + 1
Container == 0..Total - 1
Sect      == 0..MaxSect - 1
NoFile    == Total                \* 0xffff

\* Every channel can have a container and one is left to be full.
ASSUME IndexAssumption ==
  /\ NumChan \in Nat \ {0} /\ Total \in Nat /\ Total >= NumChan
  /\ MaxSect \in Nat \ {0}
  /\ MaxRecs \in Nat /\ MaxCrashes \in Nat

Blank == <<0, 0>>
Recording == Chan \X (1..MaxRecs)

VARIABLES
  phase,       \* "up", "down" or, in init_partition_index, "copying"
  hdr, ring,   \* index->header; the file_use_info entries of index->cachedst
  copy,        \* the two index files
  todo, half,  \* writes to make; has the first of them reached copy 1?
  same,        \* are the two headers on the disk equal (op_nums counts writes)?
  open,        \* the recording each channel has a file open for
  made, crashes,
  promise,     \* of the properties: what the update in progress is to keep,
  kept,        \* recordings some update has kept,
  covered,     \* those given up to a full disk since,
  exposed      \* containers whose covering a crash has cut short

memory == <<hdr, ring>>
disk   == <<copy, todo, half, same>>
ghosts == <<promise, kept, covered, exposed>>
vars   == <<phase, memory, disk, open, made, crashes, ghosts>>

Empty == [recorded |-> 0, full |-> 0, offset |-> 0,
          file |-> [c \in Chan |-> NoFile], sect |-> [c \in Chan |-> 0]]
NoEntry == [file |-> NoFile, chn |-> 0, sects |-> 0]
EmptyRing == [s \in Container |-> NoEntry]

\* A partition that has just been formatted.
Init ==
  /\ phase = "up" /\ hdr = Empty /\ ring = EmptyRing
  /\ copy = [k \in 1..2 |-> [ok |-> TRUE, hdr |-> Empty, ring |-> EmptyRing,
                             seg |-> [p \in Container \X Sect |-> Blank]]]
  /\ todo = <<>> /\ half = FALSE /\ same = TRUE
  /\ open = [c \in Chan |-> Blank] /\ made = 0 /\ crashes = 0
  /\ promise = Blank /\ kept = {} /\ covered = {} /\ exposed = {}

---------------------------------------------------------------------------
(* The header, and the writes that an operation leaves.                     *)

\* % Total of a sum that is below 2 * Total.
Wrap(n) == IF n >= Total THEN n - Total ELSE n

NextSlot(h) == Wrap(h.offset + h.full)

Holds(h, c) == h.file[c] < Total

\* The container of c goes to the end of the ring.
Switched(h, c) == [h EXCEPT !.full = @ + 1, !.file[c] = NoFile, !.sect[c] = 0]

Allocated(h, c) == [h EXCEPT !.recorded = @ + 1, !.file[c] = h.recorded, !.sect[c] = 0]

\* get_chn_next_segment_force: the oldest full container, f, becomes that of c.
\* Mutant: the ring keeps its head and forgets its tail.
CoveringTail(h, c, f) == [h EXCEPT !.full = @ - 1, !.file[c] = f, !.sect[c] = 0]
Covering(h, c, f) == [h EXCEPT !.offset = Wrap(@ + 1), !.full = @ - 1,
                               !.file[c] = f, !.sect[c] = 0]

Entry(h, c) == [file |-> h.file[c], chn |-> c, sects |-> h.sect[c]]

Write(kind, at, val) == [kind |-> kind, at |-> at, val |-> val]
SegWrite(f, s, r)  == Write("seg", <<f, s>>, r)
HdrWrite(h)        == Write("hdr", 0, h)
RingWrite(h, c)    == Write("ring", NextSlot(h), Entry(h, c))

\* Mutant: the header, which makes the entry count, before the entry.
SwitchHeaderFirst(h, c) == <<HdrWrite(Switched(h, c)), RingWrite(h, c)>>
SwitchWrites(h, c) == <<RingWrite(h, c), HdrWrite(Switched(h, c))>>

RingWith(h, c) == [ring EXCEPT ![NextSlot(h)] = Entry(h, c)]

---------------------------------------------------------------------------
(* The writer opens a file (get_rec_path), brings the index up to date with *)
(* it, and closes it.                                                       *)

Idle == phase = "up" /\ todo = <<>>

Opens(c) ==
  /\ Idle /\ open[c] = Blank /\ made < MaxRecs
  /\ made' = made + 1
  /\ open' = [open EXCEPT ![c] = <<c, made + 1>>]
  /\ UNCHANGED <<phase, copy, half, same, crashes, promise>>

\* get_chn_next_segment: the container has room for one more.
Continue(c) ==
  /\ Opens(c) /\ Holds(hdr, c) /\ hdr.sect[c] < MaxSect - 1
  /\ hdr' = [hdr EXCEPT !.sect[c] = @ + 1]
  /\ todo' = <<SegWrite(hdr.file[c], hdr.sect[c] + 1, Blank)>>
  /\ UNCHANGED <<ring, kept, covered, exposed>>

\* It has not, or there is none: header, ring and writes after the switch.
After(c) == IF Holds(hdr, c)
            THEN [hdr |-> Switched(hdr, c), ring |-> RingWith(hdr, c),
                  writes |-> SwitchWrites(hdr, c)]
            ELSE [hdr |-> hdr, ring |-> ring, writes |-> <<>>]

\* A container that was never used.  The header stays in memory until an update.
Allocate(c) ==
  LET a == After(c)  f == a.hdr.recorded
  IN  /\ Opens(c) /\ f < Total
      /\ hdr' = Allocated(a.hdr, c) /\ ring' = a.ring
      /\ todo' = Append(a.writes, SegWrite(f, 0, Blank))
      /\ exposed' = exposed \ {f}
      /\ UNCHANGED <<kept, covered>>

\* Mutant: what the container held before is left in the index.
CoverHeaderOnly(h, f) == <<HdrWrite(h)>>
CoverWrites(h, f) == <<HdrWrite(h), SegWrite(f, 0, Blank)>>

\* The disk is full, and disk_full_policy is to record over the oldest.
Cover(c) ==
  LET a == After(c)  f == a.ring[a.hdr.offset].file
      lost == {r \in kept : \E s \in Sect : copy[1].seg[f, s] = r}
      h == Covering(a.hdr, c, f)
  IN  /\ Opens(c) /\ a.hdr.recorded = Total
      /\ hdr' = h /\ ring' = a.ring
      /\ todo' = a.writes \o CoverWrites(h, f)
      /\ kept' = kept \ lost /\ covered' = covered \cup lost
      /\ exposed' = exposed \ {f}

\* The disk is full, and the policy is to stop: no file is opened.
NoSpace(c) ==
  LET a == After(c)
  IN  /\ Idle /\ open[c] = Blank /\ Holds(hdr, c) /\ hdr.recorded = Total
      /\ hdr' = a.hdr /\ ring' = a.ring /\ todo' = a.writes
      /\ UNCHANGED <<phase, copy, half, same, open, made, crashes, ghosts>>

\* update_chn_cur_segment, from time to time and when the file is closed; a
\* container that is full then goes to the ring.
\* Mutant: the header is not written.
KeepWithoutHeader(c) == <<SegWrite(hdr.file[c], hdr.sect[c], open[c])>>
KeepWrites(c) == <<SegWrite(hdr.file[c], hdr.sect[c], open[c]), HdrWrite(hdr)>>
FullWrites(c) == <<SegWrite(hdr.file[c], hdr.sect[c], open[c])>> \o SwitchWrites(hdr, c)

Update(c) ==
  /\ Idle /\ open[c] # Blank
  /\ \/ /\ todo' = KeepWrites(c)                               \* finished = 0,
        /\ UNCHANGED <<memory, open>>
     \/ /\ hdr.sect[c] < MaxSect - 1 /\ todo' = KeepWrites(c)  \* 1 with room,
        /\ open' = [open EXCEPT ![c] = Blank] /\ UNCHANGED memory
     \/ /\ hdr' = Switched(hdr, c) /\ ring' = RingWith(hdr, c) \* 1 without
        /\ todo' = FullWrites(c)
        /\ open' = [open EXCEPT ![c] = Blank]
  /\ promise' = open[c]
  /\ UNCHANGED <<phase, copy, half, same, made, crashes, kept, covered, exposed>>

\* custommp4_open, a write or custommp4_close has failed: no update.
Abandon(c) ==
  /\ Idle /\ open[c] # Blank
  /\ open' = [open EXCEPT ![c] = Blank]
  /\ UNCHANGED <<phase, memory, disk, made, crashes, ghosts>>

---------------------------------------------------------------------------
(* fwrite, fflush and fsync, to copy 1 and then to copy 2.                  *)

Apply(d, w) == CASE w.kind = "seg"  -> [d EXCEPT !.seg[w.at] = w.val]
                 [] w.kind = "ring" -> [d EXCEPT !.ring[w.at] = w.val]
                 [] w.kind = "hdr"  -> [d EXCEPT !.hdr = w.val]

WriteFirst ==
  /\ phase = "up" /\ todo # <<>> /\ ~half
  /\ copy' = [copy EXCEPT ![1] = Apply(@, Head(todo))]
  /\ half' = TRUE
  /\ same' = (same /\ Head(todo).kind # "hdr")
  /\ UNCHANGED <<phase, memory, todo, open, made, crashes, ghosts>>

WriteSecond ==
  /\ phase = "up" /\ todo # <<>> /\ half
  /\ copy' = [copy EXCEPT ![2] = Apply(@, Head(todo))]
  /\ half' = FALSE /\ todo' = Tail(todo)
  /\ same' = (same \/ Head(todo).kind = "hdr")
  /\ IF Len(todo) = 1
     THEN kept' = kept \cup ({promise} \ {Blank}) /\ promise' = Blank
     ELSE UNCHANGED <<kept, promise>>
  /\ UNCHANGED <<phase, memory, open, made, crashes, covered, exposed>>

---------------------------------------------------------------------------
(* A crash, and init_partition_index after it.                              *)

\* The container whose first segment was to be blanked.
CutShort == {todo[i].at[1] : i \in {j \in 1..Len(todo) :
                                      todo[j].kind = "seg" /\ todo[j].val = Blank}}

\* Mutant: both copies are written before either is synchronised.
UnsyncedBoth == 1..2
Unsynced == {IF half THEN 2 ELSE 1}

Down ==
  /\ phase' = "down"
  /\ hdr' = Empty /\ ring' = EmptyRing
  /\ todo' = <<>> /\ half' = FALSE
  /\ open' = [c \in Chan |-> Blank]
  /\ promise' = Blank /\ exposed' = exposed \cup CutShort
  /\ UNCHANGED <<made, kept, covered>>

Crash ==
  /\ phase = "up" /\ crashes < MaxCrashes
  /\ crashes' = crashes + 1
  /\ Down
  /\ \/ UNCHANGED <<copy, same>>
     \/ /\ todo # <<>> /\ Head(todo).kind = "hdr"            \* torn
        /\ copy' = [k \in 1..2 |-> IF k \in Unsynced THEN [copy[k] EXCEPT !.ok = FALSE]
                                                    ELSE copy[k]]
        /\ same' = FALSE

\* Any number of them may come while one copy is rebuilt.
CrashInInit ==
  /\ phase = "copying"
  /\ Down
  /\ same' = FALSE
  /\ UNCHANGED <<copy, crashes>>

Source == IF copy[1].ok THEN 1 ELSE 2
Target == 3 - Source

\* indexfilecp copies the header first, marked invalid (0xff in reserved1) until
\* the rest has been copied, too.
HeadCopied == [copy EXCEPT ![Target].hdr = copy[Source].hdr, ![Target].ok = FALSE]

StartCopy ==
  /\ phase = "down" /\ copy[Source].ok
  /\ phase' = "copying"
  /\ copy' = HeadCopied
  /\ UNCHANGED <<memory, todo, half, same, open, made, crashes, ghosts>>

\* Equal headers: the segments are taken to be equal as well and not copied.
Copied(k, src) == IF same THEN [copy[src] EXCEPT !.seg = copy[k].seg] ELSE copy[src]

FinishCopy ==
  /\ phase = "copying"
  /\ copy' = [copy EXCEPT ![Target] = Copied(Target, Source)]
  /\ hdr' = copy[Source].hdr /\ ring' = copy[Source].ring
  /\ phase' = "up" /\ same' = TRUE
  /\ UNCHANGED <<todo, half, open, made, crashes, ghosts>>

Next ==
  \/ \E c \in Chan : \/ Continue(c) \/ Allocate(c) \/ Cover(c) \/ NoSpace(c)
                     \/ Update(c) \/ Abandon(c)
  \/ WriteFirst \/ WriteSecond
  \/ Crash \/ CrashInInit \/ StartCopy \/ FinishCopy

Spec == Init /\ [][Next]_vars
---------------------------------------------------------------------------
Header == [recorded : 0..Total, full : 0..Total, offset : Container,
           file : [Chan -> 0..Total], sect : [Chan -> Sect]]
Ring   == [Container -> [file : 0..Total, chn : 0..NumChan, sects : Sect]]
Segs   == [Container \X Sect -> Recording \cup {Blank}]
Writes == [kind : {"seg"}, at : Container \X Sect, val : Recording \cup {Blank}]
          \cup [kind : {"ring"}, at : Container,
                val : [file : Container, chn : Chan, sects : Sect]]
          \cup [kind : {"hdr"}, at : {0}, val : Header]
IndexFile == [ok : BOOLEAN, hdr : Header, ring : Ring, seg : Segs]

TypeOK ==
  /\ phase \in {"up", "down", "copying"}
  /\ hdr \in Header /\ ring \in Ring
  /\ copy \in [1..2 -> IndexFile]
  /\ todo \in Seq(Writes) /\ half \in BOOLEAN /\ same \in BOOLEAN
  /\ open \in [Chan -> Recording \cup {Blank}]
  /\ made \in 0..MaxRecs /\ crashes \in 0..MaxCrashes
  /\ promise \in Recording \cup {Blank}
  /\ kept \subseteq Recording /\ covered \subseteq Recording /\ exposed \subseteq Container

\* The slots of the ring in use, and the containers in them.
Live(h, s) == Wrap(s + Total - h.offset) < h.full

\* A header and a ring give every container that was ever used exactly one
\* place, in the ring or with a channel, and no other container any.
Owned(h, r) ==
  /\ \A s \in Container : Live(h, s) => r[s].file < h.recorded
  /\ \A c \in Chan : Holds(h, c) => h.file[c] < h.recorded
  /\ \A s, t \in Container : Live(h, s) /\ Live(h, t) /\ r[s].file = r[t].file => s = t
  /\ \A c, d \in Chan : Holds(h, c) /\ h.file[c] = h.file[d] => c = d
  /\ \A c \in Chan, s \in Container : Live(h, s) => h.file[c] # r[s].file
  /\ \A f \in 0..h.recorded - 1 : \/ \E s \in Container : Live(h, s) /\ r[s].file = f
                                  \/ \E c \in Chan : h.file[c] = f

\* No two channels record into one container, none is recorded over while it is
\* current, none is forgotten: in memory and on every copy a restart may take,
\* between any two writes.
OneOwner == /\ phase = "up" => Owned(hdr, ring)
            /\ \A k \in 1..2 : copy[k].ok => Owned(copy[k].hdr, copy[k].ring)

\* At no moment could a crash leave the partition without a valid index.
AlwaysAValidCopy == \E k \in 1..2 : copy[k].ok

\* What search_rec_file finds: for a channel, a recording, in a container.
Listed(f, n, c) == {<<c, copy[1].seg[f, s], f>> : s \in 0..n}
Found ==
  {x \in UNION ({Listed(ring[s].file, ring[s].sects, ring[s].chn) :
                   s \in {t \in Container : Live(hdr, t)}}
                \cup {Listed(hdr.file[c], hdr.sect[c], c) : c \in {d \in Chan : Holds(hdr, d)}}) :
     x[2] # Blank}

\* A recording that update_chn_cur_segment has returned for is found, under its
\* channel, until a full disk is recorded over it, whatever crashes come between.
KeptIsFound == Idle => \A r \in kept : \E x \in Found : x[1] = r[1] /\ x[2] = r

\* A recording is never shown as that of another channel, except out of a
\* container that was being covered when a crash came between the header and the
\* blank first segment.
ShownUnderItsChannel == Idle => \A x \in Found : x[2][1] = x[1] \/ x[3] \in exposed

\* A full disk gives up the recordings of a channel oldest first.
OldestGoesFirst == \A r \in kept, q \in covered : r[1] = q[1] => q[2] < r[2]
=============================================================================
