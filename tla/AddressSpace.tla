---------------------------- MODULE AddressSpace ----------------------------
(***************************************************************************)
(* Where ELFBinary::Load puts binaries.  DynLoader hands it next_base_addr *)
(* and takes the next one from it; Load maps each PT_LOAD segment, with    *)
(* the address as a hint only (no MAP_FIXED), and CHECKs that the kernel   *)
(* followed the hint.  sloader's own image is linked at a fixed address in *)
(* the way of the libraries.                                               *)
(***************************************************************************)
EXTENDS Integers, Sequences

CONSTANTS
  PageSize,    \* 0x1000
  BaseAlign,   \* 0x400000
  FirstBase,   \* 0x1400000
  Reserved,    \* the pages taken before the loadee is loaded: [lo, hi] records
  Execs,       \* ET_EXEC images: the main program may be one
  Libs,        \* ET_DYN images
  MaxBins      \* bound: length of the link map

\* The PT_LOAD segments of a file, in ascending order as the ELF format
\* demands.
Segment == [vaddr : Nat, memsz : Nat \ {0}]
Image   == {s \in Seq(Segment) :
              \A i, j \in DOMAIN s : i < j => s[i].vaddr + s[i].memsz <= s[j].vaddr}

ASSUME SpaceAssumption ==
  /\ PageSize \in Nat \ {0}
  /\ BaseAlign \in Nat \ {0} /\ BaseAlign % PageSize = 0
  /\ FirstBase \in Nat /\ FirstBase % PageSize = 0
  /\ Reserved \subseteq [lo : Nat, hi : Nat]
  /\ Execs \subseteq Image
  /\ Libs \subseteq Image
  /\ MaxBins \in Nat

VARIABLES
  pc,         \* "idle" between two loads, "load" within Load, or "dead"
  next_base,  \* next_base_addr_
  segs,       \* the PT_LOAD segments of the binary that is loaded
  seg_i,      \* the loop of Load
  base,       \* base_addr_
  end,        \* end_addr_
  count,      \* the number of binaries
  maps,       \* the mappings made so far: [bin, seg, lo, hi], hi excluded
  images      \* for each binary, its segments and base_addr_

vars == <<pc, next_base, segs, seg_i, base, end, count, maps, images>>

\* Mutant of PageUp and of BaseUp: rounding to the page or base below.
PageUpTruncated(a) == (a \div PageSize) * PageSize
BaseUpTruncated(a) == (a \div BaseAlign) * BaseAlign

PageDown(a) == (a \div PageSize) * PageSize
PageUp(a)   == ((a + PageSize - 1) \div PageSize) * PageSize
BaseUp(a)   == ((a + BaseAlign - 1) \div BaseAlign) * BaseAlign

\* mmap_start and mmap_end of segment s.
MmapStart(s) == PageDown(s.vaddr + base)
MmapEnd(s)   == PageUp(s.vaddr + s.memsz + base)

Overlap(m, n) == m.lo < n.hi /\ n.lo < m.hi

\* The kernel follows the hint where nothing is mapped.
Free(s) == \A m \in maps \cup Reserved : ~Overlap(m, [lo |-> MmapStart(s), hi |-> MmapEnd(s)])

Init ==
  /\ pc = "idle"
  /\ next_base = FirstBase
  /\ segs = <<>>
  /\ seg_i = 1
  /\ base = 0
  /\ end = 0
  /\ count = 0
  /\ maps = {}
  /\ images = <<>>

\* base_addr_ is the argument for ET_DYN and 0 for ET_EXEC.
Begin(s, b) ==
  /\ pc = "idle" /\ count < MaxBins
  /\ pc' = "load"
  /\ segs' = s
  /\ seg_i' = 1
  /\ base' = b
  /\ end' = b
  /\ count' = count + 1
  /\ images' = Append(images, [segs |-> s, base |-> b])
  /\ UNCHANGED <<next_base, maps>>

LoadExec == count = 0 /\ \E s \in Execs : Begin(s, 0)
LoadDyn  == \E s \in Libs : Begin(s, next_base)

\* Mutant of MapSegment: end_addr_ is the end of the first segment.
MapSegmentFirstEnd ==
  /\ pc = "load" /\ seg_i <= Len(segs)
  /\ Free(segs[seg_i])
  /\ maps' = maps \cup {[bin |-> count, seg |-> seg_i,
                         lo |-> MmapStart(segs[seg_i]), hi |-> MmapEnd(segs[seg_i])]}
  /\ end' = IF seg_i = 1 THEN MmapEnd(segs[seg_i]) ELSE end
  /\ seg_i' = seg_i + 1
  /\ UNCHANGED <<pc, next_base, segs, base, count, images>>

MapSegment ==
  /\ pc = "load" /\ seg_i <= Len(segs)
  /\ Free(segs[seg_i])
  /\ maps' = maps \cup {[bin |-> count, seg |-> seg_i,
                         lo |-> MmapStart(segs[seg_i]), hi |-> MmapEnd(segs[seg_i])]}
  /\ end' = MmapEnd(segs[seg_i])
  /\ seg_i' = seg_i + 1
  /\ UNCHANGED <<pc, next_base, segs, base, count, images>>

\* CHECK_EQ(mmap_start, p)
HintRefused ==
  /\ pc = "load" /\ seg_i <= Len(segs)
  /\ ~Free(segs[seg_i])
  /\ pc' = "dead"
  /\ UNCHANGED <<next_base, segs, seg_i, base, end, count, maps, images>>

LoadDone ==
  /\ pc = "load" /\ seg_i > Len(segs)
  /\ pc' = "idle"
  /\ next_base' = BaseUp(end)
  /\ UNCHANGED <<segs, seg_i, base, end, count, maps, images>>

Next == LoadExec \/ LoadDyn \/ MapSegment \/ HintRefused \/ LoadDone

Spec == Init /\ [][Next]_vars

-----------------------------------------------------------------------------
(***************************************************************************)
(*                              Properties                                 *)
(***************************************************************************)

\* The promise behind the value that Load returns: between two loads everything
\* mapped so far is below next_base_addr_, an address of the alignment
\* libraries want, even though a main program of type ET_EXEC moves
\* next_base_addr_ to wherever that program ends.
NextBaseFresh ==
  pc = "idle" => /\ \A m \in maps : m.hi <= next_base
                 /\ count > 0 => next_base % BaseAlign = 0

\* Two segments of one file on one page: the format allows it, Load does not.
SharesPage(s) ==
  \E i, j \in DOMAIN s :
    i < j /\ PageUp(s[i].vaddr + s[i].memsz) > PageDown(s[j].vaddr)

\* The CHECK on the address mmap returns never fails because of a binary that
\* was loaded earlier: it fails for what was mapped before sloader started, its
\* own image above all, or for a file with two segments on one page.
NoCollision ==
  pc = "dead" =>
    \/ SharesPage(segs)
    \/ \E r \in Reserved : Overlap(r, [lo |-> MmapStart(segs[seg_i]),
                                       hi |-> MmapEnd(segs[seg_i])])

\* Every byte of a loaded binary, at base_addr_ + st_value where GetSymbolAddr
\* looks for it, is in a mapping made for that binary.
SegmentsCovered ==
  pc = "idle" =>
    \A i \in DOMAIN images : \A k \in DOMAIN images[i].segs :
      LET s == images[i].segs[k] IN
        \E m \in maps : /\ m.bin = i
                        /\ m.lo <= s.vaddr + images[i].base
                        /\ s.vaddr + s.memsz + images[i].base <= m.hi

=============================================================================
