------------------------- MODULE ImageLoadingProofs -------------------------
(***************************************************************************)
(* Proofs about how segments come into memory: AddressSpace, for every     *)
(* page size, every alignment that is a multiple of it, every number of    *)
(* binaries and all their segments, and ExecLoader, for every set of       *)
(* programs whose segments lie in memory, in whatever order, everything    *)
(* others map, and every environment and auxiliary vector.                 *)
(***************************************************************************)
EXTENDS ImageLoading, TLAPS, SequenceTheorems

-----------------------------------------------------------------------------
(***************************************************************************)
(*                               AddressSpace                              *)
(***************************************************************************)

\* Division by P rounds down.
LEMMA DivBounds ==
  ASSUME NEW a \in Int, NEW P \in Nat \ {0}
  PROVE  a \div P \in Int /\ (a \div P) * P <= a /\ a < (a \div P) * P + P
  OBVIOUS

\* The quotient is the only number with these bounds.
LEMMA DivUnique ==
  ASSUME NEW a \in Int, NEW P \in Nat \ {0}, NEW q \in Int, q * P <= a, a < q * P + P
  PROVE  a \div P = q
  OBVIOUS

\* The multiples of P.
LEMMA MultipleOf ==
  ASSUME NEW q \in Int, NEW P \in Nat \ {0}
  PROVE  (q * P) % P = 0
  OBVIOUS

\* A number without remainder is a multiple.
LEMMA NoRemainder ==
  ASSUME NEW a \in Nat, NEW P \in Nat \ {0}, a % P = 0
  PROVE  a = (a \div P) * P
  OBVIOUS

\* Rounding down keeps the order.
LEMMA DownMonotone ==
  ASSUME NEW a \in Int, NEW b \in Int, a <= b, NEW P \in Nat \ {0}
  PROVE  (a \div P) * P <= (b \div P) * P
  OBVIOUS

\* Rounding commutes with adding a multiple.
LEMMA DownShift ==
  ASSUME NEW a \in Int, NEW c \in Nat, NEW P \in Nat \ {0}, c % P = 0
  PROVE  ((a + c) \div P) * P = (a \div P) * P + c
<1> DEFINE q == a \div P
           n == c \div P
<1>1. q \in Int /\ n \in Int /\ q * P <= a /\ a < q * P + P /\ c = n * P
  BY DivBounds, NoRemainder
<1> HIDE DEF q, n
<1>2. (q + n) * P = q * P + n * P /\ q + n \in Int /\ q * P \in Int /\ n * P \in Int
  BY <1>1
<1>3. (q + n) * P <= a + c /\ a + c < (q + n) * P + P
  BY <1>1, <1>2
<1>4. (a + c) \div P = q + n
  BY <1>1, <1>2, <1>3, DivUnique
<1>5. QED
  BY <1>1, <1>2, <1>4 DEF q

\* Rounding up.
LEMMA UpBounds ==
  ASSUME NEW a \in Nat, NEW P \in Nat \ {0}
  PROVE  /\ ((a + P - 1) \div P) * P \in Nat
         /\ a <= ((a + P - 1) \div P) * P
         /\ (((a + P - 1) \div P) * P) % P = 0
<1> DEFINE q == (a + P - 1) \div P
<1>1. q \in Int /\ a + P - 1 < q * P + P
  BY DivBounds
<1> HIDE DEF q
<1>2. q * P \in Int /\ a <= q * P
  BY <1>1
<1>3. (q * P) % P = 0
  BY <1>1, MultipleOf
<1>4. QED
  BY <1>2, <1>3 DEF q

\* A multiple that is not above a is not above a rounded down.
LEMMA DownLargest ==
  ASSUME NEW a \in Nat, NEW c \in Nat, NEW P \in Nat \ {0}, c % P = 0, c <= a
  PROVE  c <= (a \div P) * P
<1>1. c = (c \div P) * P
  BY NoRemainder
<1>2. (c \div P) * P <= (a \div P) * P
  BY DownMonotone
<1>3. QED
  BY <1>1, <1>2

\* A multiple of a multiple.
LEMMA MultipleTrans ==
  ASSUME NEW a \in Nat, NEW B \in Nat \ {0}, NEW P \in Nat \ {0}, a % B = 0, B % P = 0
  PROVE  a % P = 0
<1> DEFINE q == a \div B
           n == B \div P
<1>1. q \in Int /\ n \in Int /\ a = q * B /\ B = n * P
  BY DivBounds, NoRemainder
<1> HIDE DEF q, n
<1>2. a = (q * n) * P /\ q * n \in Int
  BY <1>1
<1>3. QED
  BY <1>2, MultipleOf

-----------------------------------------------------------------------------
\* What Load relies on of its rounding macros.
LEMMA PageFacts ==
  ASSUME NEW a \in Nat, NEW b \in Nat, b % PageSize = 0
  PROVE  /\ PageDown(a) \in Nat /\ PageDown(a) <= a
         /\ PageUp(a) \in Nat /\ a <= PageUp(a) /\ PageUp(a) % PageSize = 0
         /\ b <= a => b <= PageDown(a)
         /\ PageDown(a + b) = PageDown(a) + b
         /\ PageUp(a + b) = PageUp(a) + b
<1>1. PageSize \in Nat \ {0}
  BY SpaceAssumption
<1>2. 0 \in Nat /\ 0 % PageSize = 0 /\ 0 <= a
  BY <1>1
<1>3. PageDown(a) \in Nat /\ PageDown(a) <= a
  <2>1. (a \div PageSize) * PageSize <= a /\ 0 <= (a \div PageSize) * PageSize
    BY <1>1, <1>2, DivBounds, DownLargest
  <2>2. (a \div PageSize) * PageSize \in Int
    BY <1>1, DivBounds
  <2>3. QED
    BY <2>1, <2>2 DEF PageDown
<1>4. PageUp(a) \in Nat /\ a <= PageUp(a) /\ PageUp(a) % PageSize = 0
  BY <1>1, UpBounds DEF PageUp
<1>5. b <= a => b <= PageDown(a)
  BY <1>1, DownLargest DEF PageDown
<1>6. PageDown(a + b) = PageDown(a) + b
  <2>1. a \in Int
    OBVIOUS
  <2>2. ((a + b) \div PageSize) * PageSize = (a \div PageSize) * PageSize + b
    BY <1>1, <2>1, DownShift, Zenon
  <2>3. QED
    BY <2>2, Zenon DEF PageDown
<1>7. PageUp(a + b) = PageUp(a) + b
  <2>1. a + b + PageSize - 1 = (a + PageSize - 1) + b /\ a + PageSize - 1 \in Int
    BY <1>1
  <2>2. (((a + PageSize - 1) + b) \div PageSize) * PageSize
          = ((a + PageSize - 1) \div PageSize) * PageSize + b
    BY <1>1, <2>1, DownShift, Zenon
  <2>3. QED
    BY <2>1, <2>2, Zenon DEF PageUp
<1>8. QED
  BY <1>3, <1>4, <1>5, <1>6, <1>7

\* Rounding up keeps the order.
LEMMA PageUpMonotone ==
  ASSUME NEW a \in Nat, NEW b \in Nat, a <= b
  PROVE  PageUp(a) <= PageUp(b)
<1>1. PageSize \in Nat \ {0}
  BY SpaceAssumption
<1>2. a + PageSize - 1 \in Int /\ b + PageSize - 1 \in Int /\ a + PageSize - 1 <= b + PageSize - 1
  BY <1>1
<1>3. QED
  BY <1>1, <1>2, DownMonotone DEF PageUp

\* The next base is above the end, and aligned for bases and for pages.
LEMMA BaseFacts ==
  ASSUME NEW a \in Nat
  PROVE  /\ BaseUp(a) \in Nat /\ a <= BaseUp(a)
         /\ BaseUp(a) % BaseAlign = 0 /\ BaseUp(a) % PageSize = 0
<1>1. BaseAlign \in Nat \ {0} /\ PageSize \in Nat \ {0} /\ BaseAlign % PageSize = 0
  BY SpaceAssumption
<1>2. BaseUp(a) \in Nat /\ a <= BaseUp(a) /\ BaseUp(a) % BaseAlign = 0
  BY <1>1, UpBounds DEF BaseUp
<1>3. QED
  BY <1>1, <1>2, MultipleTrans

-----------------------------------------------------------------------------
\* Types of the state of Load, and what it has done when its loop is at seg_i.
SpaceTypes ==
  /\ pc \in {"idle", "load", "dead"}
  /\ next_base \in Nat /\ base \in Nat /\ end \in Nat /\ count \in Nat
  /\ segs \in Image /\ seg_i \in 1..Len(segs) + 1
  /\ maps \subseteq [bin : Nat, seg : Nat, lo : Nat, hi : Nat]
  /\ images \in Seq([segs : Image, base : Nat]) /\ Len(images) = count

\* The binary that is, or was last, loaded is the last of images; its base and
\* the next are at the start of a page.
Latest ==
  /\ count > 0 => images[count].segs = segs /\ images[count].base = base
  /\ pc = "idle" => seg_i = Len(segs) + 1
  /\ pc # "idle" => count > 0
  /\ base % PageSize = 0 /\ next_base % PageSize = 0

\* A mapping is one of the segments that the loop has passed, or of an earlier
\* binary and so below the base.
MapsKnown ==
  \A m \in maps :
    /\ m.bin \in 1..count /\ m.hi % PageSize = 0
    /\ m.bin = count => /\ m.seg \in 1..seg_i - 1
                        /\ m.lo = MmapStart(segs[m.seg]) /\ m.hi = MmapEnd(segs[m.seg])
    /\ m.bin < count /\ pc # "idle" => m.hi <= base

\* end_addr_ is above all segments the loop has passed.
EndAbove ==
  pc = "load" => base <= end /\ \A k \in 1..seg_i - 1 : MmapEnd(segs[k]) <= end

\* The segments the loop has passed are covered, and those of earlier binaries.
CoveredSoFar ==
  \A i \in DOMAIN images : \A k \in DOMAIN images[i].segs :
    i < count \/ k < seg_i =>
      \E m \in maps : /\ m.bin = i
                      /\ m.lo <= images[i].segs[k].vaddr + images[i].base
                      /\ images[i].segs[k].vaddr + images[i].segs[k].memsz + images[i].base <= m.hi

\* An invariant of AddressSpace that each step preserves by itself.
SpaceInv ==
  /\ SpaceTypes /\ Latest /\ MapsKnown /\ EndAbove /\ CoveredSoFar
  /\ NextBaseFresh /\ NoCollision

\* The segments of an image.
LEMMA SegmentFacts ==
  ASSUME NEW s \in Image
  PROVE  /\ Len(s) \in Nat /\ DOMAIN s = 1..Len(s)
         /\ \A k \in 1..Len(s) : s[k].vaddr \in Nat /\ s[k].memsz \in Nat
         /\ \A i, k \in 1..Len(s) : i < k => s[i].vaddr + s[i].memsz <= s[k].vaddr
<1>1. s \in Seq(Segment) /\ \A i, j \in DOMAIN s : i < j => s[i].vaddr + s[i].memsz <= s[j].vaddr
  BY DEF Image
<1>2. \A x \in Segment : x.vaddr \in Nat /\ x.memsz \in Nat
  BY DEF Segment
<1>3. Len(s) \in Nat /\ DOMAIN s = 1..Len(s) /\ \A k \in 1..Len(s) : s[k] \in Segment
  BY <1>1
<1>4. QED
  BY <1>1, <1>2, <1>3

\* Where a segment goes: page-aligned, around its bytes, above its base.
LEMMA MmapFacts ==
  ASSUME base \in Nat, base % PageSize = 0, NEW x, x.vaddr \in Nat, x.memsz \in Nat
  PROVE  /\ MmapStart(x) \in Nat /\ MmapEnd(x) \in Nat /\ MmapEnd(x) % PageSize = 0
         /\ MmapStart(x) <= x.vaddr + base /\ x.vaddr + x.memsz + base <= MmapEnd(x)
         /\ base <= MmapStart(x)
         /\ MmapStart(x) = PageDown(x.vaddr) + base
         /\ MmapEnd(x) = PageUp(x.vaddr + x.memsz) + base
<1>1. /\ x.vaddr + base \in Nat /\ x.vaddr + x.memsz \in Nat
      /\ x.vaddr + x.memsz + base \in Nat /\ base <= x.vaddr + base
  OBVIOUS
<1>2. /\ PageDown(x.vaddr + base) \in Nat /\ PageDown(x.vaddr + base) <= x.vaddr + base
      /\ base <= PageDown(x.vaddr + base)
  BY <1>1, PageFacts
<1>3. /\ PageUp(x.vaddr + x.memsz + base) \in Nat
      /\ x.vaddr + x.memsz + base <= PageUp(x.vaddr + x.memsz + base)
      /\ PageUp(x.vaddr + x.memsz + base) % PageSize = 0
  BY <1>1, PageFacts
<1>4. PageDown(x.vaddr + base) = PageDown(x.vaddr) + base
  BY PageFacts
<1>5. PageUp(x.vaddr + x.memsz + base) = PageUp(x.vaddr + x.memsz) + base
  BY <1>1, PageFacts
<1>6. QED
  BY <1>2, <1>3, <1>4, <1>5 DEF MmapStart, MmapEnd

\* The segments end in the order they are in.
LEMMA MmapEndOrder ==
  ASSUME base \in Nat, segs \in Image, NEW k \in 1..Len(segs), NEW j \in 1..Len(segs), k <= j
  PROVE  MmapEnd(segs[k]) <= MmapEnd(segs[j])
<1>1. /\ segs[k].vaddr \in Nat /\ segs[k].memsz \in Nat
      /\ segs[j].vaddr \in Nat /\ segs[j].memsz \in Nat
      /\ k < j => segs[k].vaddr + segs[k].memsz <= segs[j].vaddr
  BY SegmentFacts
<1>2. k = j \/ k < j
  OBVIOUS
<1>3. /\ segs[k].vaddr + segs[k].memsz + base \in Nat
      /\ segs[j].vaddr + segs[j].memsz + base \in Nat
      /\ segs[k].vaddr + segs[k].memsz + base <= segs[j].vaddr + segs[j].memsz + base
  <2>1. CASE k = j
    BY <1>1, <2>1
  <2>2. CASE k < j
    <3>1. PICK v \in Nat, m \in Nat : v = segs[k].vaddr /\ m = segs[k].memsz
      BY <1>1
    <3>2. PICK w \in Nat, n \in Nat : w = segs[j].vaddr /\ n = segs[j].memsz
      BY <1>1
    <3>3. v + m <= w
      BY <1>1, <2>2, <3>1, <3>2
    <3>4. v + m + base \in Nat /\ w + n + base \in Nat /\ v + m + base <= w + n + base
      BY <3>3
    <3>5. QED
      BY <3>1, <3>2, <3>4
  <2>3. QED
    BY <1>2, <2>1, <2>2
<1>4. QED
  BY <1>3, PageUpMonotone DEF MmapEnd

-----------------------------------------------------------------------------
\* The invariant holds at the start.
LEMMA SpaceInit == Init => SpaceInv
<1> SUFFICES ASSUME Init  PROVE SpaceInv
  OBVIOUS
<1> USE DEF Init
<1>1. <<>> \in Image /\ Len(<<>>) = 0 /\ DOMAIN <<>> = {}
  BY DEF Image
<1>2. SpaceTypes
  BY <1>1, SpaceAssumption DEF SpaceTypes
<1>3. 0 % PageSize = 0
  BY SpaceAssumption
<1>4. Latest
  BY <1>1, <1>3, SpaceAssumption DEF Latest
<1>5. MapsKnown /\ EndAbove /\ CoveredSoFar /\ NextBaseFresh /\ NoCollision
  BY <1>1 DEF MapsKnown, EndAbove, CoveredSoFar, NextBaseFresh, NoCollision
<1>6. QED
  BY <1>2, <1>4, <1>5 DEF SpaceInv

\* Load is called, at 0 for the first binary or at next_base_addr_.
LEMMA BeginInv ==
  ASSUME SpaceInv, NEW s \in Image, NEW b \in Nat, Begin(s, b), b % PageSize = 0,
         count = 0 \/ b = next_base
  PROVE  SpaceInv'
<1>1. /\ pc = "idle" /\ pc' = "load" /\ segs' = s /\ seg_i' = 1 /\ base' = b /\ end' = b
      /\ count' = count + 1 /\ images' = Append(images, [segs |-> s, base |-> b])
      /\ UNCHANGED <<next_base, maps>>
  BY DEF Begin
<1>2. /\ SpaceTypes /\ count \in Nat /\ Len(s) \in Nat /\ Len(images) = count
      /\ images \in Seq([segs : Image, base : Nat])
  BY SegmentFacts DEF SpaceInv, SpaceTypes
<1>3. /\ images' \in Seq([segs : Image, base : Nat]) /\ Len(images') = count + 1
      /\ DOMAIN images = 1..count /\ DOMAIN images' = 1..count + 1
      /\ images'[count + 1] = [segs |-> s, base |-> b]
      /\ \A i \in 1..count : images'[i] = images[i]
  BY <1>1, <1>2
<1>4. SpaceTypes'
  BY <1>1, <1>2, <1>3 DEF SpaceTypes
<1>5. Latest'
  BY <1>1, <1>2, <1>3 DEF Latest, SpaceInv
<1>6. MapsKnown'
  <2>1. SUFFICES ASSUME NEW m \in maps
                 PROVE  m.bin \in 1..count + 1 /\ m.hi % PageSize = 0 /\ m.bin # count + 1
                        /\ m.hi <= b
    BY <1>1, <1>2 DEF MapsKnown
  <2>2. m.bin \in 1..count /\ m.hi % PageSize = 0
    BY <2>1 DEF SpaceInv, MapsKnown
  <2>3. m.hi <= next_base
    BY <1>1, <2>1 DEF SpaceInv, NextBaseFresh
  <2>4. QED
    BY <1>2, <2>2, <2>3
<1>7. EndAbove'
  BY <1>1 DEF EndAbove
<1>8. CoveredSoFar'
  <2>1. SUFFICES ASSUME NEW i \in DOMAIN images', NEW k \in DOMAIN images'[i].segs,
                        i < count + 1 \/ k < 1
                 PROVE  \E m \in maps :
                          /\ m.bin = i
                          /\ m.lo <= images'[i].segs[k].vaddr + images'[i].base
                          /\ images'[i].segs[k].vaddr + images'[i].segs[k].memsz
                             + images'[i].base <= m.hi
    BY <1>1 DEF CoveredSoFar
  <2>2. i \in 1..count
    <3>1. CASE i = count + 1
      <4>1. k \in 1..Len(s)
        BY <1>3, <2>1, <3>1, SegmentFacts
      <4>2. QED
        BY <1>2, <2>1, <3>1, <4>1
    <3>2. QED
      BY <1>2, <1>3, <2>1, <3>1
  <2>3. images'[i] = images[i] /\ i \in DOMAIN images
    BY <1>3, <2>2
  <2>4. i < count \/ k < seg_i
    <3>1. CASE i = count
      <4>1. seg_i = Len(segs) + 1 /\ images[i].segs = segs /\ k \in 1..Len(segs) /\ Len(segs) \in Nat
        BY <1>1, <1>2, <2>1, <2>2, <2>3, <3>1, SegmentFacts DEF SpaceInv, Latest, SpaceTypes
      <4>2. QED
        BY <4>1
    <3>2. QED
      BY <1>2, <2>2, <3>1
  <2>5. QED
    BY <2>1, <2>3, <2>4 DEF SpaceInv, CoveredSoFar
<1>9. NextBaseFresh' /\ NoCollision'
  BY <1>1 DEF NextBaseFresh, NoCollision
<1>10. QED
  BY <1>4, <1>5, <1>6, <1>7, <1>8, <1>9 DEF SpaceInv

\* One more segment is mapped.
LEMMA MapInv ==
  ASSUME SpaceInv, MapSegment
  PROVE  SpaceInv'
<1> DEFINE x == segs[seg_i]
           n == [bin |-> count, seg |-> seg_i, lo |-> MmapStart(x), hi |-> MmapEnd(x)]
<1>1. /\ pc = "load" /\ seg_i <= Len(segs) /\ maps' = maps \cup {n} /\ end' = MmapEnd(x)
      /\ seg_i' = seg_i + 1 /\ UNCHANGED <<pc, next_base, segs, base, count, images>>
  BY DEF MapSegment
<1>2. /\ base \in Nat /\ base % PageSize = 0 /\ count \in Nat /\ segs \in Image
      /\ seg_i \in 1..Len(segs) /\ Len(segs) \in Nat
  BY <1>1, SegmentFacts DEF SpaceInv, SpaceTypes, Latest
<1>3. x.vaddr \in Nat /\ x.memsz \in Nat
  BY <1>2, SegmentFacts
<1>4. /\ MmapStart(x) \in Nat /\ MmapEnd(x) \in Nat /\ MmapEnd(x) % PageSize = 0
      /\ MmapStart(x) <= x.vaddr + base /\ x.vaddr + x.memsz + base <= MmapEnd(x)
      /\ base <= MmapStart(x)
  BY <1>2, <1>3, MmapFacts
<1>5. \A y : MmapStart(y)' = MmapStart(y) /\ MmapEnd(y)' = MmapEnd(y)
  BY <1>1 DEF MmapStart, MmapEnd
<1>6. SpaceTypes'
  BY <1>1, <1>2, <1>4 DEF SpaceInv, SpaceTypes
<1>7. Latest'
  BY <1>1 DEF SpaceInv, Latest
<1>8. count \in 1..count /\ images[count].segs = segs /\ images[count].base = base
  BY <1>1, <1>2 DEF SpaceInv, Latest
<1>9. MapsKnown'
  <2>1. SUFFICES ASSUME NEW m \in maps'
                 PROVE  /\ m.bin \in 1..count /\ m.hi % PageSize = 0
                        /\ m.bin = count => /\ m.seg \in 1..seg_i
                                            /\ m.lo = MmapStart(segs[m.seg])
                                            /\ m.hi = MmapEnd(segs[m.seg])
                        /\ m.bin < count => m.hi <= base
    BY <1>1, <1>2, <1>5 DEF MapsKnown
  <2>2. CASE m = n
    BY <1>2, <1>4, <1>8, <2>2
  <2>3. CASE m \in maps
    BY <1>1, <1>2, <2>3 DEF SpaceInv, MapsKnown
  <2>4. QED
    BY <1>1, <2>1, <2>2, <2>3
<1>10. EndAbove'
  <2>1. ASSUME NEW k \in 1..seg_i  PROVE MmapEnd(segs[k]) <= MmapEnd(x)
    <3>1. k \in 1..Len(segs) /\ k <= seg_i
      BY <1>2, <2>1
    <3>2. QED
      BY <1>2, <3>1, MmapEndOrder
  <2>2. base <= MmapEnd(x)
    BY <1>2, <1>3, <1>4
  <2>3. seg_i' - 1 = seg_i
    BY <1>1, <1>2
  <2>4. QED
    BY <1>1, <1>5, <2>1, <2>2, <2>3 DEF EndAbove
<1>11. CoveredSoFar'
  <2>1. SUFFICES ASSUME NEW i \in DOMAIN images, NEW k \in DOMAIN images[i].segs,
                        i < count \/ k < seg_i + 1
                 PROVE  \E m \in maps' :
                          /\ m.bin = i
                          /\ m.lo <= images[i].segs[k].vaddr + images[i].base
                          /\ images[i].segs[k].vaddr + images[i].segs[k].memsz
                             + images[i].base <= m.hi
    BY <1>1 DEF CoveredSoFar
  <2>2. CASE i < count \/ k < seg_i
    BY <1>1, <2>1, <2>2 DEF SpaceInv, CoveredSoFar
  <2>3. CASE ~(i < count) /\ ~(k < seg_i)
    <3>1. i = count
      BY <1>2, <2>1, <2>3 DEF SpaceInv, SpaceTypes
    <3>2. k = seg_i
      <4>1. k \in 1..Len(segs)
        BY <1>2, <1>8, <2>1, <3>1, SegmentFacts
      <4>2. QED
        BY <1>2, <2>1, <2>3, <3>1, <4>1
    <3>3. n \in maps' /\ n.bin = count /\ n.lo = MmapStart(x) /\ n.hi = MmapEnd(x)
      BY <1>1
    <3>4. images[i].segs[k] = x /\ images[i].base = base
      BY <1>8, <3>1, <3>2
    <3> HIDE DEF n, x
    <3>5. QED
      BY <1>4, <3>1, <3>3, <3>4
  <2>4. QED
    BY <2>2, <2>3
<1>12. NextBaseFresh' /\ NoCollision'
  BY <1>1 DEF NextBaseFresh, NoCollision
<1>13. QED
  BY <1>6, <1>7, <1>9, <1>10, <1>11, <1>12 DEF SpaceInv

\* The kernel puts the segment elsewhere: something is in the way, and what is
\* in the way is not an earlier binary.
LEMMA RefusedInv ==
  ASSUME SpaceInv, HintRefused
  PROVE  SpaceInv'
<1> DEFINE x == segs[seg_i]
<1>1. /\ pc = "load" /\ pc' = "dead" /\ seg_i <= Len(segs) /\ ~Free(x)
      /\ UNCHANGED <<next_base, segs, seg_i, base, end, count, maps, images>>
  BY DEF HintRefused
<1>2. /\ base \in Nat /\ base % PageSize = 0 /\ count \in Nat /\ segs \in Image
      /\ seg_i \in 1..Len(segs) /\ Len(segs) \in Nat
  BY <1>1, SegmentFacts DEF SpaceInv, SpaceTypes, Latest
<1>3. x.vaddr \in Nat /\ x.memsz \in Nat
  BY <1>2, SegmentFacts
<1>4. MmapStart(x) \in Nat /\ base <= MmapStart(x) /\ MmapStart(x) = PageDown(x.vaddr) + base
  BY <1>2, <1>3, MmapFacts
<1>5. \A y : MmapStart(y)' = MmapStart(y) /\ MmapEnd(y)' = MmapEnd(y)
  BY <1>1 DEF MmapStart, MmapEnd
<1>6. SpaceTypes' /\ Latest'
  BY <1>1 DEF SpaceInv, SpaceTypes, Latest
<1>7. MapsKnown' /\ EndAbove' /\ CoveredSoFar' /\ NextBaseFresh'
  BY <1>1, <1>5 DEF SpaceInv, MapsKnown, EndAbove, CoveredSoFar, NextBaseFresh
<1>8. PICK m \in maps \cup Reserved :
        m.lo < MmapEnd(x) /\ MmapStart(x) < m.hi
  BY <1>1 DEF Free, Overlap
<1>9. ASSUME m \in Reserved  PROVE NoCollision'
  BY <1>1, <1>8, <1>9 DEF NoCollision, Overlap, MmapStart, MmapEnd
<1>10. ASSUME m \in maps  PROVE NoCollision'
  <2>1. m.bin \in 1..count /\ m.hi \in Nat
    BY <1>10 DEF SpaceInv, MapsKnown, SpaceTypes
  <2>2. m.bin = count
    <3>1. m.bin < count => m.hi <= base
      BY <1>1, <1>10 DEF SpaceInv, MapsKnown
    <3>2. QED
      BY <1>2, <1>4, <1>8, <2>1, <3>1
  <2>3. m.seg \in 1..seg_i - 1 /\ m.hi = MmapEnd(segs[m.seg])
    BY <1>10, <2>2 DEF SpaceInv, MapsKnown
  <2> DEFINE y == segs[m.seg]
  <2>4. m.seg \in 1..Len(segs) /\ m.seg < seg_i
    BY <1>2, <2>3
  <2>5. y.vaddr \in Nat /\ y.memsz \in Nat
    BY <1>2, <2>4, SegmentFacts
  <2>6. MmapEnd(y) = PageUp(y.vaddr + y.memsz) + base
    BY <1>2, <2>5, MmapFacts
  <2>7. PageUp(y.vaddr + y.memsz) > PageDown(x.vaddr)
    <3>1. PageUp(y.vaddr + y.memsz) \in Nat /\ PageDown(x.vaddr) \in Nat
      <4>1. y.vaddr + y.memsz \in Nat
        BY <2>5
      <4>2. 0 \in Nat /\ 0 % PageSize = 0
        BY SpaceAssumption
      <4>3. QED
        BY <1>3, <4>1, <4>2, PageFacts
    <3> HIDE DEF x, y
    <3>2. QED
      BY <1>2, <1>4, <1>8, <2>3, <2>6, <3>1 DEF y
  <2>8. SharesPage(segs)
    <3>1. m.seg \in DOMAIN segs /\ seg_i \in DOMAIN segs
      BY <1>2, <2>4, SegmentFacts
    <3>2. QED
      BY <2>4, <2>7, <3>1 DEF SharesPage
  <2>9. SharesPage(segs)'
    BY <1>1, <2>8 DEF SharesPage
  <2>10. QED
    BY <2>9 DEF NoCollision
<1>11. NoCollision'
  BY <1>8, <1>9, <1>10
<1>12. QED
  BY <1>6, <1>7, <1>11 DEF SpaceInv

\* Load returns: the next base is above all that is mapped.
LEMMA DoneInv ==
  ASSUME SpaceInv, LoadDone
  PROVE  SpaceInv'
<1>1. /\ pc = "load" /\ pc' = "idle" /\ seg_i > Len(segs) /\ next_base' = BaseUp(end)
      /\ UNCHANGED <<segs, seg_i, base, end, count, maps, images>>
  BY DEF LoadDone
<1>2. /\ base \in Nat /\ end \in Nat /\ count \in Nat /\ segs \in Image
      /\ seg_i = Len(segs) + 1 /\ Len(segs) \in Nat
  <2>1. /\ base \in Nat /\ end \in Nat /\ count \in Nat /\ segs \in Image
        /\ seg_i \in 1..Len(segs) + 1
    BY DEF SpaceInv, SpaceTypes
  <2>2. Len(segs) \in Nat
    BY <2>1, SegmentFacts
  <2>3. QED
    BY <1>1, <2>1, <2>2
<1>3. /\ BaseUp(end) \in Nat /\ end <= BaseUp(end)
      /\ BaseUp(end) % BaseAlign = 0 /\ BaseUp(end) % PageSize = 0
  BY <1>2, BaseFacts
<1>4. \A y : MmapStart(y)' = MmapStart(y) /\ MmapEnd(y)' = MmapEnd(y)
  BY <1>1 DEF MmapStart, MmapEnd
<1>5. SpaceTypes' /\ Latest'
  BY <1>1, <1>2, <1>3 DEF SpaceInv, SpaceTypes, Latest
<1>6. MapsKnown' /\ EndAbove' /\ CoveredSoFar' /\ NoCollision'
  BY <1>1, <1>4 DEF SpaceInv, MapsKnown, EndAbove, CoveredSoFar, NoCollision
<1>7. ASSUME NEW m \in maps  PROVE m.hi <= BaseUp(end)
  <2>1. m.bin \in 1..count /\ m.hi \in Nat
    BY <1>7 DEF SpaceInv, MapsKnown, SpaceTypes
  <2>2. base <= end /\ \A k \in 1..seg_i - 1 : MmapEnd(segs[k]) <= end
    BY <1>1 DEF SpaceInv, EndAbove
  <2>3. m.hi <= end
    <3>1. CASE m.bin = count
      BY <1>7, <2>2, <3>1 DEF SpaceInv, MapsKnown
    <3>2. CASE m.bin < count
      <4>1. m.hi <= base
        BY <1>1, <1>7, <3>2 DEF SpaceInv, MapsKnown
      <4>2. QED
        BY <1>2, <2>1, <2>2, <4>1
    <3>3. QED
      BY <1>2, <2>1, <3>1, <3>2
  <2>4. QED
    BY <1>2, <1>3, <2>1, <2>3
<1>8. NextBaseFresh'
  BY <1>1, <1>3, <1>7 DEF NextBaseFresh
<1>9. QED
  BY <1>5, <1>6, <1>8 DEF SpaceInv

\* SpaceInv is an invariant of every sequence of calls of Load.
THEOREM SpaceInvariant == Spec => []SpaceInv
<1>1. Init => SpaceInv
  BY SpaceInit
<1>2. SpaceInv /\ [Next]_vars => SpaceInv'
  <2> SUFFICES ASSUME SpaceInv, [Next]_vars  PROVE SpaceInv'
    OBVIOUS
  <2>1. CASE LoadExec
    <3>1. PICK s \in Execs : Begin(s, 0)
      BY <2>1 DEF LoadExec
    <3>2. s \in Image /\ 0 % PageSize = 0 /\ count = 0
      BY <2>1, SpaceAssumption DEF LoadExec
    <3>3. QED
      BY <3>1, <3>2, BeginInv
  <2>2. CASE LoadDyn
    <3>1. PICK s \in Libs : Begin(s, next_base)
      BY <2>2 DEF LoadDyn
    <3>2. s \in Image /\ next_base \in Nat /\ next_base % PageSize = 0
      BY SpaceAssumption DEF SpaceInv, SpaceTypes, Latest
    <3>3. QED
      BY <3>1, <3>2, BeginInv
  <2>3. CASE MapSegment
    BY <2>3, MapInv
  <2>4. CASE HintRefused
    BY <2>4, RefusedInv
  <2>5. CASE LoadDone
    BY <2>5, DoneInv
  <2>6. CASE UNCHANGED vars
    BY <2>6 DEF vars, SpaceInv, SpaceTypes, Latest, MapsKnown, EndAbove, CoveredSoFar,
                NextBaseFresh, NoCollision, MmapStart, MmapEnd, SharesPage
  <2>7. QED
    BY <2>1, <2>2, <2>3, <2>4, <2>5, <2>6 DEF Next
<1>3. QED
  BY <1>1, <1>2, PTL DEF Spec

\* Whatever was loaded, of whatever type and size, the address that Load hands
\* on is above all of it and aligned.
THEOREM BasesAreFresh == Spec => []NextBaseFresh
<1>1. SpaceInv => NextBaseFresh
  BY DEF SpaceInv
<1>2. QED
  BY <1>1, SpaceInvariant, PTL

\* Load never fails because of a binary that was loaded before.
THEOREM BinariesDoNotCollide == Spec => []NoCollision
<1>1. SpaceInv => NoCollision
  BY DEF SpaceInv
<1>2. QED
  BY <1>1, SpaceInvariant, PTL

\* Between two loads every byte of every binary is in a mapping of its own.
THEOREM SegmentsAreCovered == Spec => []SegmentsCovered
<1>1. SpaceInv => SegmentsCovered
  <2>1. SUFFICES ASSUME SpaceInv, pc = "idle", NEW i \in DOMAIN images,
                        NEW k \in DOMAIN images[i].segs
                 PROVE  i < count \/ k < seg_i
    BY DEF SegmentsCovered, SpaceInv, CoveredSoFar
  <2>2. count \in Nat /\ i \in 1..count /\ segs \in Image
    BY <2>1 DEF SpaceInv, SpaceTypes
  <2>3. CASE i = count
    <3>1. images[i].segs = segs /\ seg_i = Len(segs) + 1
      BY <2>1, <2>2, <2>3 DEF SpaceInv, Latest
    <3>2. k \in 1..Len(segs) /\ Len(segs) \in Nat
      BY <2>1, <2>2, <3>1, SegmentFacts
    <3>3. QED
      BY <3>1, <3>2
  <2>4. QED
    BY <2>2, <2>3
<1>2. QED
  BY <1>1, SpaceInvariant, PTL

-----------------------------------------------------------------------------
(***************************************************************************)
(*                                ExecLoader                               *)
(***************************************************************************)

\* Division keeps the order.
LEMMA DivMonotone ==
  ASSUME NEW a \in Int, NEW b \in Int, a <= b, NEW P \in Nat \ {0}
  PROVE  a \div P <= b \div P
<1> DEFINE q == a \div P
           n == b \div P
<1>1. q \in Int /\ n \in Int /\ q * P <= a /\ b < n * P + P
  BY DivBounds
<1> HIDE DEF q, n
<1>2. q * P < (n + 1) * P
  BY <1>1
<1>3. q < n + 1
  BY <1>1, <1>2
<1>4. QED
  BY <1>1, <1>3 DEF q, n

\* A byte below the end is on a page below the rounded end.
LEMMA DivBelowEnd ==
  ASSUME NEW a \in Int, NEW e \in Int, a < e, NEW P \in Nat \ {0}
  PROVE  a \div P < (e + P - 1) \div P
<1> DEFINE q == a \div P
           n == (e + P - 1) \div P
<1>1. q \in Int /\ n \in Int /\ q * P <= a /\ e + P - 1 < n * P + P
  BY DivBounds
<1> HIDE DEF q, n
<1>2. q * P < n * P
  BY <1>1
<1>3. q < n
  BY <1>1, <1>2
<1>4. QED
  BY <1>3 DEF q, n

-----------------------------------------------------------------------------
\* A segment lies in the memory there is.
InMemory(s) ==
  /\ s \in X!Segment /\ s.filesz <= s.memsz
  /\ s.vaddr + s.memsz <= Pages * PageSize

\* Every byte of a segment is on a page that Load asks for.
LEMMA ByteOnWanted ==
  ASSUME X!ExecAssumption, NEW s, InMemory(s), NEW a \in s.vaddr..s.vaddr + s.memsz - 1
  PROVE  a \div PageSize \in X!Wanted(s)
<1>1. PageSize \in Nat \ {0} /\ Pages \in Nat /\ s.vaddr \in Nat /\ s.memsz \in Nat
  BY DEF X!ExecAssumption, InMemory, X!Segment
<1>2. a \in Int /\ s.vaddr <= a /\ a < s.vaddr + s.memsz
  BY <1>1
<1>3. s.vaddr \div PageSize <= a \div PageSize
  BY <1>1, <1>2, DivMonotone
<1>4. a \div PageSize < (s.vaddr + s.memsz + PageSize - 1) \div PageSize
  BY <1>1, <1>2, DivBelowEnd
<1>5. a \div PageSize \in Int /\ (a \div PageSize) * PageSize <= a
  BY <1>1, <1>2, DivBounds
<1>6. 0 <= a \div PageSize
  BY <1>1, <1>2
<1>7. a \div PageSize < Pages
  <2> DEFINE q == a \div PageSize
  <2>1. q \in Int /\ q * PageSize < Pages * PageSize
    BY <1>1, <1>2, <1>5 DEF InMemory
  <2> HIDE DEF q
  <2>2. q < Pages
    BY <1>1, <2>1
  <2>3. QED
    BY <2>2 DEF q
<1>8. a \div PageSize \in X!Page
  BY <1>1, <1>5, <1>6, <1>7 DEF X!Page
<1>9. QED
  BY <1>3, <1>4, <1>8 DEF X!Wanted, X!PagesTo, X!FirstPage

\* What Load records of a segment.
Recorded(s) == [first |-> X!FirstPage(s), len |-> s.memsz % Wrap]

\* munmap of what was recorded stays within the pages that were asked for: the
\* length starts at the page, not at p_vaddr, and only gets shorter by truncation.
LEMMA UnmapsWanted ==
  ASSUME X!ExecAssumption, NEW s, InMemory(s)
  PROVE  X!Unmapped(Recorded(s)) \subseteq X!Wanted(s)
<1>1. PageSize \in Nat \ {0} /\ Wrap \in Nat \ {0} /\ s.vaddr \in Nat /\ s.memsz \in Nat
  BY DEF X!ExecAssumption, InMemory, X!Segment
<1> DEFINE f == s.vaddr \div PageSize
           n == s.memsz % Wrap
<1>2. f \in Int /\ f * PageSize <= s.vaddr
  BY <1>1, DivBounds
<1>3. n \in Nat /\ n <= s.memsz
  BY <1>1
<1> HIDE DEF f, n
<1> DEFINE x == f * PageSize + n + PageSize - 1
           y == s.vaddr + s.memsz + PageSize - 1
<1>4. x \in Int /\ y \in Int /\ x <= y
  BY <1>1, <1>2, <1>3
<1> HIDE DEF x, y
<1>5. x \div PageSize <= y \div PageSize
  BY <1>1, <1>4, DivMonotone
<1>6. x \div PageSize \in Int /\ y \div PageSize \in Int
  BY <1>1, <1>4, DivBounds
<1>7. Recorded(s).first = f /\ Recorded(s).len = n /\ X!FirstPage(s) = f
  BY DEF Recorded, X!FirstPage, f, n
<1>8. X!PagesTo(f, f * PageSize + n) \subseteq X!PagesTo(f, s.vaddr + s.memsz)
  BY <1>2, <1>5, <1>6 DEF X!PagesTo, X!Page, x, y
<1>9. QED
  BY <1>7, <1>8 DEF X!Unmapped, X!Wanted

-----------------------------------------------------------------------------
(***************************************************************************)
(*                       The inductive invariant                           *)
(***************************************************************************)

ExecTypes ==
  /\ ex_segs \in ExecImages /\ envs \in Envs /\ aux_tvs \in Auxs
  /\ ex_pc \in {"load", "hint_refused", "check_lt", "loaded", "unload", "entered", "no_random"}
  /\ ex_i \in Nat \ {0}
  /\ owner \in [X!Page -> {"exec", "other", "free"}]
  /\ memories \in Seq([first : Int, len : Nat])

\* memories_ has the segments that are mapped, in their order, and all of them when
\* Load is through.
RecordsKept ==
  /\ Len(memories) <= Len(ex_segs)
  /\ \A k \in DOMAIN memories : memories[k] = Recorded(ex_segs[k])
  /\ ex_pc = "load" => ex_i = Len(memories) + 1
  /\ ex_pc \in {"loaded", "unload", "entered", "no_random"} => Len(memories) = Len(ex_segs)

\* A segment keeps its pages until Unload comes to it.
PagesHeld ==
  \A k \in DOMAIN memories :
    (ex_pc = "unload" => ex_i <= k) => \A g \in X!Wanted(ex_segs[k]) : owner[g] = "exec"

\* No two segments are on one page.
PagesApart ==
  \A j, k \in DOMAIN memories : j # k => X!Wanted(ex_segs[j]) \cap X!Wanted(ex_segs[k]) = {}

\* The bytes that a segment has in the file.
FileBytes(s) == s.vaddr..s.vaddr + s.filesz - 1

\* What is written is what the mapped segments have in the file.
BytesCopied ==
  /\ DOMAIN bytes = UNION {FileBytes(ex_segs[k]) : k \in DOMAIN memories}
  /\ \A k \in DOMAIN memories : \A a \in FileBytes(ex_segs[k]) :
       bytes[a] = [seg |-> k, at |-> a - ex_segs[k].vaddr]

ExecInv ==
  ExecTypes /\ RecordsKept /\ PagesHeld /\ PagesApart /\ BytesCopied
    /\ (ex_pc = "entered" => X!StackInPlace)

-----------------------------------------------------------------------------
\* Every segment of the program lies in memory.
LEMMA SegmentsInMemory ==
  ASSUME X!ExecAssumption, NEW p \in ExecImages, NEW k \in 1..Len(p)
  PROVE  InMemory(p[k])
  BY DEF X!ExecAssumption, InMemory

LEMMA ExecInit ==
  ASSUME X!ExecAssumption
  PROVE  X!Init => ExecInv
<1> SUFFICES ASSUME X!Init PROVE ExecInv
  OBVIOUS
<1>1. ExecTypes
  <2>1. owner \in [X!Page -> {"exec", "other", "free"}]
    BY DEF X!Init
  <2>2. QED
    BY <2>1 DEF X!Init, ExecTypes
<1>2. Len(memories) = 0 /\ DOMAIN memories = {} /\ DOMAIN bytes = {}
  BY DEF X!Init
<1>3. Len(ex_segs) \in Nat
  BY DEF X!Init, X!ExecAssumption
<1>4. RecordsKept
  BY <1>2, <1>3 DEF RecordsKept, X!Init
<1>5. PagesHeld /\ PagesApart /\ BytesCopied
  BY <1>2 DEF PagesHeld, PagesApart, BytesCopied
<1>6. QED
  BY <1>1, <1>4, <1>5 DEF ExecInv, X!Init

\* What the parts of the invariant say of a step that maps no segment.
LEMMA SameMemories ==
  ASSUME ExecInv, UNCHANGED <<ex_segs, memories, bytes>>
  PROVE  PagesApart' /\ BytesCopied'
  BY DEF ExecInv, PagesApart, BytesCopied, X!Wanted, X!PagesTo, X!FirstPage, FileBytes, X!Page

LEMMA LoadSegmentKeeps ==
  ASSUME X!ExecAssumption, ExecInv, X!LoadSegment
  PROVE  ExecInv'
<1> DEFINE s == ex_segs[ex_i]
           m == Len(memories)
<1>1. /\ ex_pc = "load" /\ ex_i = m + 1 /\ ex_i \in 1..Len(ex_segs) /\ m \in Nat
      /\ ex_segs \in ExecImages /\ Len(ex_segs) \in Nat
  BY DEF ExecInv, ExecTypes, RecordsKept, X!LoadSegment, X!ExecAssumption
<1>2. InMemory(s) /\ \A k \in 1..m : InMemory(ex_segs[k])
  BY <1>1, SegmentsInMemory
<1>3. /\ ex_segs' = ex_segs /\ ex_pc' = ex_pc /\ ex_i' = ex_i + 1
      /\ envs' = envs /\ aux_tvs' = aux_tvs
      /\ memories' = Append(memories, Recorded(s))
      /\ owner' = [g \in X!Page |-> IF g \in X!Wanted(s) THEN "exec" ELSE owner[g]]
      /\ bytes' = X!Copy(ex_i)
      /\ \A g \in X!Wanted(s) : owner[g] = "free"
  BY DEF X!LoadSegment, Recorded, X!HintFollowed
<1>4. Recorded(s) \in [first : Int, len : Nat]
  <2>1. s.vaddr \div PageSize \in Int /\ s.memsz % Wrap \in Nat
    <3>1. s.vaddr \in Nat /\ s.memsz \in Nat /\ PageSize \in Nat \ {0} /\ Wrap \in Nat \ {0}
      BY <1>2 DEF InMemory, X!Segment, X!ExecAssumption
    <3>2. QED
      BY <3>1, DivBounds
  <2>2. QED
    BY <2>1 DEF Recorded, X!FirstPage
<1>5. memories \in Seq([first : Int, len : Nat]) /\ DOMAIN memories = 1..m
  BY DEF ExecInv, ExecTypes
<1>6. /\ memories' \in Seq([first : Int, len : Nat]) /\ Len(memories') = m + 1
      /\ DOMAIN memories' = 1..m + 1
      /\ memories'[m + 1] = Recorded(s)
      /\ \A k \in 1..m : memories'[k] = memories[k]
  BY <1>1, <1>3, <1>4, <1>5
<1> HIDE DEF m
<1>7. ExecTypes'
  <2>1. owner' \in [X!Page -> {"exec", "other", "free"}]
    BY <1>3 DEF ExecInv, ExecTypes
  <2>2. QED
    BY <1>1, <1>3, <1>6, <2>1 DEF ExecInv, ExecTypes, X!Page
<1>8. RecordsKept'
  BY <1>1, <1>3, <1>5, <1>6 DEF ExecInv, RecordsKept, Recorded, X!FirstPage
<1>9. \A k \in 1..m : \A g \in X!Wanted(ex_segs[k]) : owner[g] = "exec"
  BY <1>1, <1>5 DEF ExecInv, PagesHeld
<1>10. X!Wanted(s) \subseteq X!Page /\ \A k \in 1..m : X!Wanted(ex_segs[k]) \subseteq X!Page
  BY DEF X!Wanted, X!PagesTo
<1>11. \A k \in 1..m : X!Wanted(ex_segs[k]) \cap X!Wanted(s) = {}
  BY <1>3, <1>9
<1>12. PagesHeld'
  <2>1. \A k \in 1..m + 1 : \A g \in X!Wanted(ex_segs[k]) : owner'[g] = "exec"
    <3> SUFFICES ASSUME NEW k \in 1..m + 1, NEW g \in X!Wanted(ex_segs[k])
                 PROVE  owner'[g] = "exec"
      OBVIOUS
    <3>1. CASE k \in 1..m
      BY <3>1, <1>3, <1>9, <1>10
    <3>2. CASE k = m + 1
      BY <3>2, <1>1, <1>3, <1>10
    <3>3. QED
      BY <3>1, <3>2, <1>1
  <2>2. QED
    BY <2>1, <1>3, <1>6 DEF PagesHeld, X!Wanted, X!PagesTo, X!FirstPage, X!Page
<1>13. PagesApart'
  <2>1. \A j, k \in 1..m : j # k => X!Wanted(ex_segs[j]) \cap X!Wanted(ex_segs[k]) = {}
    BY <1>5 DEF ExecInv, PagesApart
  <2>2. \A j, k \in 1..m + 1 : j # k => X!Wanted(ex_segs[j]) \cap X!Wanted(ex_segs[k]) = {}
    <3> SUFFICES ASSUME NEW j \in 1..m + 1, NEW k \in 1..m + 1, j # k
                 PROVE  X!Wanted(ex_segs[j]) \cap X!Wanted(ex_segs[k]) = {}
      OBVIOUS
    <3>1. CASE j \in 1..m /\ k \in 1..m
      BY <3>1, <2>1
    <3>2. CASE j = m + 1 /\ k \in 1..m
      BY <3>2, <1>1, <1>11
    <3>3. CASE k = m + 1 /\ j \in 1..m
      BY <3>3, <1>1, <1>11
    <3>4. QED
      BY <3>1, <3>2, <3>3, <1>1
  <2>3. QED
    BY <2>2, <1>3, <1>6 DEF PagesApart, X!Wanted, X!PagesTo, X!FirstPage, X!Page
<1>14. BytesCopied'
  <2>1. \A k \in 1..m : FileBytes(ex_segs[k]) \cap FileBytes(s) = {}
    <3> SUFFICES ASSUME NEW k \in 1..m, NEW a \in FileBytes(ex_segs[k]), a \in FileBytes(s)
                 PROVE  FALSE
      OBVIOUS
    <3>1. a \in ex_segs[k].vaddr..ex_segs[k].vaddr + ex_segs[k].memsz - 1
      BY <1>2 DEF FileBytes, InMemory, X!Segment
    <3>2. a \in s.vaddr..s.vaddr + s.memsz - 1
      BY <1>2 DEF FileBytes, InMemory, X!Segment
    <3>3. a \div PageSize \in X!Wanted(ex_segs[k]) /\ a \div PageSize \in X!Wanted(s)
      BY <3>1, <3>2, <1>2, ByteOnWanted
    <3>4. QED
      BY <3>3, <1>11
  <2>2. /\ DOMAIN bytes = UNION {FileBytes(ex_segs[k]) : k \in 1..m}
        /\ \A k \in 1..m : \A a \in FileBytes(ex_segs[k]) :
             bytes[a] = [seg |-> k, at |-> a - ex_segs[k].vaddr]
    BY <1>5 DEF ExecInv, BytesCopied
  <2>3. bytes' = [a \in DOMAIN bytes \cup FileBytes(s) |->
                    IF a \in FileBytes(s) THEN [seg |-> ex_i, at |-> a - s.vaddr] ELSE bytes[a]]
    BY <1>3 DEF X!Copy, FileBytes
  <2>4. DOMAIN bytes' = UNION {FileBytes(ex_segs[k]) : k \in 1..m + 1}
    <3>1. DOMAIN bytes' = DOMAIN bytes \cup FileBytes(s)
      BY <2>3
    <3>2. 1..m + 1 = (1..m) \cup {m + 1} /\ s = ex_segs[m + 1]
      BY <1>1
    <3>3. QED
      BY <3>1, <3>2, <2>2
  <2>5. \A k \in 1..m + 1 : \A a \in FileBytes(ex_segs[k]) :
          bytes'[a] = [seg |-> k, at |-> a - ex_segs[k].vaddr]
    <3> SUFFICES ASSUME NEW k \in 1..m + 1, NEW a \in FileBytes(ex_segs[k])
                 PROVE  bytes'[a] = [seg |-> k, at |-> a - ex_segs[k].vaddr]
      OBVIOUS
    <3>1. CASE k \in 1..m
      <4>1. a \notin FileBytes(s) /\ a \in DOMAIN bytes
        BY <3>1, <2>1, <2>2
      <4>2. bytes'[a] = bytes[a]
        BY <4>1, <2>3
      <4>3. QED
        BY <4>2, <3>1, <2>2
    <3>2. CASE k = m + 1
      <4>1. k = ex_i /\ a \in FileBytes(s)
        BY <3>2, <1>1
      <4>2. QED
        BY <4>1, <2>3
    <3>3. QED
      BY <3>1, <3>2, <1>1
  <2>6. QED
    BY <2>4, <2>5, <1>3, <1>6 DEF BytesCopied, FileBytes
<1>15. QED
  BY <1>1, <1>3, <1>7, <1>8, <1>12, <1>13, <1>14 DEF ExecInv

LEMMA OtherMapsKeeps ==
  ASSUME X!ExecAssumption, ExecInv, X!OtherMaps
  PROVE  ExecInv'
<1>1. UNCHANGED <<ex_segs, envs, aux_tvs, ex_pc, ex_i, bytes, memories, seen>>
  BY DEF X!OtherMaps
<1>2. PICK g \in X!Page : owner[g] = "free" /\ owner' = [owner EXCEPT ![g] = "other"]
  BY DEF X!OtherMaps
<1>3. owner \in [X!Page -> {"exec", "other", "free"}]
  BY DEF ExecInv, ExecTypes
<1>4. ExecTypes'
  <2>1. owner' \in [X!Page -> {"exec", "other", "free"}]
    BY <1>2, <1>3
  <2>2. QED
    BY <1>1, <2>1 DEF ExecInv, ExecTypes, X!Page
<1>5. RecordsKept'
  BY <1>1 DEF ExecInv, RecordsKept, Recorded, X!FirstPage
<1>6. PagesApart' /\ BytesCopied'
  BY <1>1, SameMemories
<1>7. \A h \in X!Page : owner[h] = "exec" => owner'[h] = "exec"
  BY <1>2, <1>3
<1>8. PagesHeld'
  BY <1>1, <1>7 DEF ExecInv, PagesHeld, X!Wanted, X!PagesTo, X!FirstPage, X!Page
<1>9. (ex_pc = "entered" => X!StackInPlace)'
  BY <1>1 DEF ExecInv, X!StackInPlace
<1>10. QED
  BY <1>4, <1>5, <1>6, <1>8, <1>9 DEF ExecInv

LEMMA UnloadKeeps ==
  ASSUME X!ExecAssumption, ExecInv, X!Unload
  PROVE  ExecInv' /\ \A g \in X!Page : owner[g] = "other" => owner'[g] = "other"
<1> DEFINE U == X!Unmapped(memories[ex_i])
<1>1. /\ UNCHANGED <<ex_segs, envs, aux_tvs, bytes, memories, seen>>
      /\ ex_pc \in {"loaded", "unload"} /\ ex_pc' = "unload" /\ ex_i' = ex_i + 1
      /\ ex_i <= Len(memories)
      /\ owner' = [g \in X!Page |-> IF g \in U THEN "free" ELSE owner[g]]
  BY DEF X!Unload
<1>2. /\ ex_i \in DOMAIN memories /\ ex_segs \in ExecImages /\ ex_i \in 1..Len(ex_segs)
      /\ DOMAIN memories \subseteq Nat /\ ex_i \in Nat
  BY <1>1 DEF ExecInv, ExecTypes, RecordsKept, X!ExecAssumption
<1>3. U \subseteq X!Wanted(ex_segs[ex_i])
  <2>1. memories[ex_i] = Recorded(ex_segs[ex_i])
    BY <1>2 DEF ExecInv, RecordsKept
  <2>2. InMemory(ex_segs[ex_i])
    BY <1>2, SegmentsInMemory
  <2>3. QED
    BY <2>1, <2>2, UnmapsWanted
<1>4. owner \in [X!Page -> {"exec", "other", "free"}]
  BY DEF ExecInv, ExecTypes
<1> HIDE DEF U
<1>5. \A g \in X!Wanted(ex_segs[ex_i]) : owner[g] = "exec"
  BY <1>2 DEF ExecInv, PagesHeld
<1>6. \A g \in X!Page : owner[g] = "other" => owner'[g] = "other"
  BY <1>1, <1>3, <1>5
<1>7. ExecTypes'
  <2>1. owner' \in [X!Page -> {"exec", "other", "free"}]
    BY <1>1, <1>4
  <2>2. QED
    BY <1>1, <1>2, <2>1 DEF ExecInv, ExecTypes, X!Page
<1>8. RecordsKept'
  BY <1>1 DEF ExecInv, RecordsKept, Recorded, X!FirstPage
<1>9. PagesApart' /\ BytesCopied'
  BY <1>1, SameMemories
<1>10. PagesHeld'
  <2>1. \A k \in DOMAIN memories : ex_i + 1 <= k =>
          \A g \in X!Wanted(ex_segs[k]) : owner'[g] = "exec"
    <3> SUFFICES ASSUME NEW k \in DOMAIN memories, ex_i + 1 <= k, NEW g \in X!Wanted(ex_segs[k])
                 PROVE  owner'[g] = "exec"
      OBVIOUS
    <3>1. ex_i <= k /\ k # ex_i
      BY <1>2
    <3>2. g \notin U
      BY <3>1, <1>2, <1>3 DEF ExecInv, PagesApart
    <3>3. owner[g] = "exec" /\ g \in X!Page
      BY <3>1 DEF ExecInv, PagesHeld, X!Wanted, X!PagesTo
    <3>4. QED
      BY <3>2, <3>3, <1>1
  <2>2. QED
    BY <2>1, <1>1 DEF PagesHeld, X!Wanted, X!PagesTo, X!FirstPage, X!Page
<1>11. QED
  BY <1>1, <1>6, <1>7, <1>8, <1>9, <1>10 DEF ExecInv

-----------------------------------------------------------------------------
\* The words of two arrays, one behind the other.
LEMMA ConcatWords ==
  ASSUME NEW s \in Seq(Nat), NEW t \in Seq(Nat)
  PROVE  /\ s \o t \in Seq(Nat) /\ Len(s \o t) = Len(s) + Len(t)
         /\ \A w \in 1..Len(s) : (s \o t)[w] = s[w]
         /\ \A w \in 1..Len(t) : (s \o t)[Len(s) + w] = t[w]
<1>1. PICK u : u = s \o t
  OBVIOUS
<1>2. PICK n \in Nat, m \in Nat : n = Len(s) /\ m = Len(t)
  BY LenProperties
<1>3. /\ u \in Seq(Nat) /\ Len(u) = n + m
      /\ \A j \in 1..n + m : u[j] = IF j <= n THEN s[j] ELSE t[j - n]
  BY <1>1, <1>2, ConcatProperties, Zenon
<1>4. \A w \in 1..n : u[w] = s[w]
  BY <1>3
<1>5. ASSUME NEW w \in 1..m PROVE u[n + w] = t[w]
  <2>1. n + w \in 1..n + m /\ ~(n + w <= n) /\ (n + w) - n = w
    OBVIOUS
  <2>2. QED
    BY <1>3, <2>1
<1>6. QED
  BY <1>1, <1>2, <1>3, <1>4, <1>5, Zenon

\* Execute's array, word by word: the auxiliary vector with the value of a pair
\* before its type, the environment, the arguments.
LEMMA StackWords ==
  ASSUME X!ExecAssumption, ExecTypes
  PROVE  LET e == Len(envs) a == Len(aux_tvs) IN
         /\ e \in Nat /\ a \in Nat
         /\ Len(X!Stack) = 10 + 2 * a + e
         /\ X!Stack[5] = 0 /\ X!Stack[6] = 0
         /\ \A k \in 1..a : X!Stack[5 + 2 * k] = aux_tvs[k][2] /\ X!Stack[6 + 2 * k] = aux_tvs[k][1]
         /\ X!Stack[7 + 2 * a] = 0
         /\ \A k \in 1..e : X!Stack[7 + 2 * a + k] = envs[k]
         /\ X!Stack[8 + 2 * a + e] = 0
         /\ X!Stack[9 + 2 * a + e] = Temporary
         /\ X!Stack[10 + 2 * a + e] = 1
<1> DEFINE e == Len(envs)
           a == Len(aux_tvs)
           T1 == <<0, 0, 0, 0>> \o <<0, 0>>
           T2 == T1 \o X!Words
           T3 == T2 \o <<0>>
           T4 == T3 \o envs
<1>1. /\ envs \in Seq(Nat) /\ aux_tvs \in Seq(Nat \X Nat) /\ Temporary \in Nat
      /\ e \in Nat /\ a \in Nat
  BY DEF ExecTypes, X!ExecAssumption
<1>2. X!Words \in Seq(Nat) /\ Len(X!Words) = 2 * a
  <2>1. \A w \in 1..2 * a : aux_tvs[(w + 1) \div 2][1 + (w % 2)] \in Nat
    <3> SUFFICES ASSUME NEW w \in 1..2 * a
                 PROVE  aux_tvs[(w + 1) \div 2][1 + (w % 2)] \in Nat
      OBVIOUS
    <3>1. (w + 1) \div 2 \in 1..a /\ 1 + (w % 2) \in {1, 2}
      BY <1>1
    <3>2. aux_tvs[(w + 1) \div 2] \in Nat \X Nat
      BY <3>1, <1>1
    <3>3. QED
      BY <3>1, <3>2
  <2>2. 2 * a \in Nat
    BY <1>1
  <2>3. X!Words \in [1..2 * a -> Nat]
    BY <2>1 DEF X!Words
  <2>4. QED
    BY <2>2, <2>3
<1>3. \A k \in 1..a : X!Words[2 * k - 1] = aux_tvs[k][2] /\ X!Words[2 * k] = aux_tvs[k][1]
  <2> SUFFICES ASSUME NEW k \in 1..a
               PROVE  X!Words[2 * k - 1] = aux_tvs[k][2] /\ X!Words[2 * k] = aux_tvs[k][1]
    OBVIOUS
  <2>1. /\ 2 * k - 1 \in 1..2 * a /\ (2 * k - 1 + 1) \div 2 = k /\ 1 + ((2 * k - 1) % 2) = 2
        /\ 2 * k \in 1..2 * a /\ (2 * k + 1) \div 2 = k /\ 1 + ((2 * k) % 2) = 1
    BY <1>1
  <2>2. QED
    BY <2>1 DEF X!Words
<1>4. T1 \in Seq(Nat) /\ Len(T1) = 6 /\ T1[5] = 0 /\ T1[6] = 0
  OBVIOUS
<1> HIDE DEF e, a, T1
<1>5. /\ T2 \in Seq(Nat) /\ Len(T2) = 6 + 2 * a
      /\ \A w \in 1..6 : T2[w] = T1[w]
      /\ \A w \in 1..2 * a : T2[6 + w] = X!Words[w]
  <2>1. PICK p \in Nat, r \in Nat : p = 6 /\ r = 2 * a
    BY <1>1
  <2>2. T1 \in Seq(Nat) /\ Len(T1) = p /\ X!Words \in Seq(Nat) /\ Len(X!Words) = r
    BY <2>1, <1>2, <1>4 DEF a
  <2>3. /\ T2 \in Seq(Nat) /\ Len(T2) = Len(T1) + Len(X!Words)
        /\ \A w \in 1..Len(T1) : T2[w] = T1[w]
        /\ \A w \in 1..Len(X!Words) : T2[Len(T1) + w] = X!Words[w]
    BY <2>2, ConcatWords, Zenon
  <2>4. QED
    BY <2>1, <2>2, <2>3, Zenon
<1> HIDE DEF T2
<1>6. /\ T3 \in Seq(Nat) /\ Len(T3) = 6 + 2 * a + 1
      /\ \A w \in 1..6 + 2 * a : T3[w] = T2[w]
      /\ \A w \in 1..1 : T3[6 + 2 * a + w] = <<0>>[w]
  <2>1. 6 + 2 * a \in Nat /\ <<0>> \in Seq(Nat) /\ Len(<<0>>) = 1
    BY <1>1
  <2>2. /\ T3 \in Seq(Nat) /\ Len(T3) = Len(T2) + Len(<<0>>)
        /\ \A w \in 1..Len(T2) : T3[w] = T2[w]
        /\ \A w \in 1..Len(<<0>>) : T3[Len(T2) + w] = <<0>>[w]
    BY <2>1, <1>5, ConcatWords, Zenon
  <2>3. QED
    BY <2>1, <2>2, <1>5, Zenon
<1> HIDE DEF T3
<1>7. /\ T4 \in Seq(Nat) /\ Len(T4) = 7 + 2 * a + e
      /\ \A w \in 1..7 + 2 * a : T4[w] = T3[w]
      /\ \A w \in 1..e : T4[7 + 2 * a + w] = envs[w]
  <2>1. 7 + 2 * a \in Nat /\ 6 + 2 * a + 1 = 7 + 2 * a /\ Len(envs) = e
    BY <1>1 DEF e
  <2>2. T3 \in Seq(Nat) /\ Len(T3) = 7 + 2 * a
    BY <2>1, <1>6
  <2>3. PICK p \in Nat : p = 7 + 2 * a
    BY <2>1
  <2>4. /\ T3 \o envs \in Seq(Nat) /\ Len(T3 \o envs) = p + e
        /\ \A w \in 1..p : (T3 \o envs)[w] = T3[w]
        /\ \A w \in 1..e : (T3 \o envs)[p + w] = envs[w]
    <3>1. T3 \in Seq(Nat) /\ Len(T3) = p /\ envs \in Seq(Nat) /\ Len(envs) = e /\ e \in Nat
      BY <2>1, <2>2, <2>3, <1>1
    <3>2. /\ T3 \o envs \in Seq(Nat) /\ Len(T3 \o envs) = Len(T3) + Len(envs)
          /\ \A w \in 1..Len(T3) : (T3 \o envs)[w] = T3[w]
          /\ \A w \in 1..Len(envs) : (T3 \o envs)[Len(T3) + w] = envs[w]
      BY <3>1, ConcatWords, Zenon
    <3>3. QED
      BY <3>1, <3>2, Zenon
  <2>5. QED
    BY <2>3, <2>4, Zenon
<1> HIDE DEF T4
<1>8. /\ Len(X!Stack) = 10 + 2 * a + e
      /\ \A w \in 1..7 + 2 * a + e : X!Stack[w] = T4[w]
      /\ X!Stack[8 + 2 * a + e] = 0 /\ X!Stack[9 + 2 * a + e] = Temporary
      /\ X!Stack[10 + 2 * a + e] = 1
  <2> DEFINE t == <<0, Temporary, 1>>
  <2>1. X!Stack = T4 \o t
    BY DEF X!Stack, T4, T3, T2, T1
  <2>2. 7 + 2 * a + e \in Nat /\ 3 \in Nat
    BY <1>1
  <2>3. t \in Seq(Nat) /\ Len(t) = 3 /\ t[1] = 0 /\ t[2] = Temporary /\ t[3] = 1
    BY <1>1
  <2> HIDE DEF t
  <2>4. PICK p \in Nat : p = 7 + 2 * a + e
    BY <2>2
  <2>5. T4 \in Seq(Nat) /\ Len(T4) = p
    BY <2>4, <1>7
  <2>6. T4 \in Seq(Nat) /\ t \in Seq(Nat)
    BY <2>3, <2>5
  <2>7. PICK u : u = T4 \o t
    OBVIOUS
  <2>8. PICK h \in Nat : h = 3
    OBVIOUS
  <2>9. /\ Len(u) = p + h
        /\ \A w \in 1..p : u[w] = T4[w]
        /\ \A w \in 1..h : u[p + w] = t[w]
    <3>1. Len(t) = h
      BY <2>3, <2>8, Zenon
    <3>2. /\ Len(T4 \o t) = Len(T4) + Len(t)
          /\ \A w \in 1..Len(T4) : (T4 \o t)[w] = T4[w]
          /\ \A w \in 1..Len(t) : (T4 \o t)[Len(T4) + w] = t[w]
      BY <2>6, ConcatWords, Zenon
    <3>3. QED
      BY <2>5, <2>7, <3>1, <3>2, Zenon
  <2>10. 1 \in 1..h /\ 2 \in 1..h /\ 3 \in 1..h
    BY <2>8
  <2>11. u[p + 1] = 0 /\ u[p + 2] = Temporary /\ u[p + 3] = 1
    BY <2>3, <2>9, <2>10, Zenon
  <2>12. p + 1 = 8 + 2 * a + e /\ p + 2 = 9 + 2 * a + e /\ p + 3 = 10 + 2 * a + e
    BY <1>1, <2>4
  <2>13. QED
    BY <2>1, <2>4, <2>7, <2>8, <2>9, <2>11, <2>12, Zenon
<1>9. X!Stack[5] = 0 /\ X!Stack[6] = 0 /\ X!Stack[7 + 2 * a] = 0
  <2>1. X!Stack[5] = T2[5] /\ X!Stack[6] = T2[6]
    BY <1>1, <1>6, <1>7, <1>8
  <2>2. T2[5] = 0 /\ T2[6] = 0
    BY <1>4, <1>5
  <2>3. X!Stack[7 + 2 * a] = T3[7 + 2 * a]
    BY <1>1, <1>7, <1>8
  <2>4. T3[6 + 2 * a + 1] = 0 /\ 6 + 2 * a + 1 = 7 + 2 * a
    BY <1>1, <1>6
  <2>5. QED
    BY <2>1, <2>2, <2>3, <2>4
<1>10. ASSUME NEW w \in 1..2 * a PROVE X!Stack[6 + w] = X!Words[w]
  <2>1. PICK v : v = 6 + w
    OBVIOUS
  <2>2. /\ v \in 1..6 + 2 * a /\ v \in 1..7 + 2 * a /\ v \in 1..7 + 2 * a + e
    BY <1>1, <2>1
  <2>3. X!Stack[v] = T4[v] /\ T4[v] = T3[v] /\ T3[v] = T2[v]
    BY <2>2, <1>6, <1>7, <1>8, Zenon
  <2>4. T2[v] = X!Words[w]
    BY <2>1, <1>5, Zenon
  <2>5. QED
    BY <2>1, <2>3, <2>4
<1>11. \A k \in 1..a : X!Stack[5 + 2 * k] = aux_tvs[k][2] /\ X!Stack[6 + 2 * k] = aux_tvs[k][1]
  <2> SUFFICES ASSUME NEW k \in 1..a
               PROVE  X!Stack[5 + 2 * k] = aux_tvs[k][2] /\ X!Stack[6 + 2 * k] = aux_tvs[k][1]
    OBVIOUS
  <2>1. 2 * k - 1 \in 1..2 * a /\ 2 * k \in 1..2 * a
    BY <1>1
  <2>2. 6 + (2 * k - 1) = 5 + 2 * k
    BY <1>1
  <2>3. X!Stack[6 + (2 * k - 1)] = X!Words[2 * k - 1] /\ X!Stack[6 + 2 * k] = X!Words[2 * k]
    BY <2>1, <1>10
  <2>4. QED
    BY <2>2, <2>3, <1>3
<1>12. \A k \in 1..e : X!Stack[7 + 2 * a + k] = envs[k]
  BY <1>1, <1>7, <1>8
<1>13. QED
  BY <1>1, <1>8, <1>9, <1>11, <1>12 DEF e, a

\* Pushed one by one, the words are seen from the last to the first.
LEMMA StackSeen ==
  ASSUME X!ExecAssumption, ExecTypes, seen' = X!Reverse(X!Stack), UNCHANGED <<envs, aux_tvs>>
  PROVE  X!StackInPlace'
<1> DEFINE e == Len(envs)
           a == Len(aux_tvs)
           n == 10 + 2 * a + e
<1>1. /\ e \in Nat /\ a \in Nat
      /\ Len(X!Stack) = n
      /\ X!Stack[5] = 0 /\ X!Stack[6] = 0
      /\ \A k \in 1..a : X!Stack[5 + 2 * k] = aux_tvs[k][2] /\ X!Stack[6 + 2 * k] = aux_tvs[k][1]
      /\ X!Stack[7 + 2 * a] = 0
      /\ \A k \in 1..e : X!Stack[7 + 2 * a + k] = envs[k]
      /\ X!Stack[8 + 2 * a + e] = 0
      /\ X!Stack[9 + 2 * a + e] = Temporary
      /\ X!Stack[n] = 1
  BY StackWords
<1>2. aux_tvs \in Seq(Nat \X Nat)
  BY DEF ExecTypes, X!ExecAssumption
<1>3. \A k \in 1..a : aux_tvs[k] = <<aux_tvs[k][1], aux_tvs[k][2]>>
  BY <1>2
<1> HIDE DEF e, a
<1>4. Len(seen') = n /\ \A w \in 1..n : seen'[w] = X!Stack[n - w + 1]
  BY <1>1 DEF X!Reverse
<1>5. seen'[1] = 1 /\ seen'[2] = Temporary /\ seen'[3] = 0
  BY <1>1, <1>4
<1>6. \A k \in 1..e : seen'[3 + k] = envs[e + 1 - k]
  <2> SUFFICES ASSUME NEW k \in 1..e PROVE seen'[3 + k] = envs[e + 1 - k]
    OBVIOUS
  <2>1. e + 1 - k \in 1..e
    BY <1>1
  <2>5. 3 + k \in 1..n
    BY <1>1
  <2>4. n - (3 + k) + 1 = 7 + 2 * a + (e + 1 - k)
    BY <1>1
  <2>2. seen'[3 + k] = X!Stack[7 + 2 * a + (e + 1 - k)]
    BY <2>4, <2>5, <1>4
  <2>3. QED
    BY <2>1, <2>2, <1>1
<1>7. seen'[4 + e] = 0 /\ seen'[5 + e + 2 * a] = 0 /\ seen'[6 + e + 2 * a] = 0
  <2>1. /\ n - (4 + e) + 1 = 7 + 2 * a /\ n - (5 + e + 2 * a) + 1 = 6
        /\ n - (6 + e + 2 * a) + 1 = 5
        /\ 4 + e \in 1..n /\ 5 + e + 2 * a \in 1..n /\ 6 + e + 2 * a \in 1..n
    BY <1>1
  <2>2. QED
    BY <2>1, <1>1, <1>4
<1>8. \A k \in 1..a : <<seen'[3 + e + 2 * k], seen'[4 + e + 2 * k]>> = aux_tvs[a + 1 - k]
  <2> SUFFICES ASSUME NEW k \in 1..a
               PROVE  <<seen'[3 + e + 2 * k], seen'[4 + e + 2 * k]>> = aux_tvs[a + 1 - k]
    OBVIOUS
  <2> DEFINE j == a + 1 - k
  <2>1. /\ j \in 1..a
        /\ n - (3 + e + 2 * k) + 1 = 6 + 2 * j /\ n - (4 + e + 2 * k) + 1 = 5 + 2 * j
        /\ 3 + e + 2 * k \in 1..n /\ 4 + e + 2 * k \in 1..n
    BY <1>1
  <2> HIDE DEF j
  <2>2. seen'[3 + e + 2 * k] = X!Stack[6 + 2 * j] /\ seen'[4 + e + 2 * k] = X!Stack[5 + 2 * j]
    BY <2>1, <1>4
  <2>3. seen'[3 + e + 2 * k] = aux_tvs[j][1] /\ seen'[4 + e + 2 * k] = aux_tvs[j][2]
    BY <2>1, <2>2, <1>1
  <2>4. QED
    BY <2>1, <2>3, <1>3 DEF j
<1>9. Len(seen') >= 4 + e + 2 * a + 2
  BY <1>1, <1>4
<1>10. Len(envs') = e /\ Len(aux_tvs') = a /\ envs' = envs /\ aux_tvs' = aux_tvs
  BY DEF e, a
<1>11. QED
  BY <1>5, <1>6, <1>7, <1>8, <1>9, <1>10 DEF X!StackInPlace

\* The steps that leave memory alone.
LEMMA OtherStepsKeep ==
  ASSUME X!ExecAssumption, ExecInv,
         X!HintRefused \/ X!EndCheckFails \/ X!LoadDone \/ X!Execute \/ X!NoRandom
  PROVE  ExecInv' /\ owner' = owner
<1>1. UNCHANGED <<ex_segs, envs, aux_tvs, owner, bytes, memories>>
  BY DEF X!HintRefused, X!EndCheckFails, X!LoadDone, X!Execute, X!NoRandom, X!Fail
<1>2. PagesApart' /\ BytesCopied'
  BY <1>1, SameMemories
<1>3. Len(ex_segs) \in Nat /\ Len(memories) \in Nat /\ ex_pc \in {"load", "loaded"}
  BY DEF ExecInv, ExecTypes, X!ExecAssumption, X!HintRefused, X!EndCheckFails, X!LoadDone,
         X!Execute, X!NoRandom
<1>4. ExecTypes' /\ RecordsKept' /\ ex_pc' # "unload"
      /\ (ex_pc' = "entered" => seen' = X!Reverse(X!Stack))
  <2>1. CASE X!HintRefused \/ X!EndCheckFails
    BY <2>1, <1>1, <1>3 DEF ExecInv, ExecTypes, RecordsKept, X!HintRefused, X!EndCheckFails, X!Fail,
                            X!Page, Recorded, X!FirstPage
  <2>2. CASE X!LoadDone
    BY <2>2, <1>1, <1>3 DEF ExecInv, ExecTypes, RecordsKept, X!LoadDone, X!Page, Recorded,
                            X!FirstPage
  <2>3. CASE X!Execute
    <3>1. Len(X!Stack) = X!StackNum
      BY StackWords DEF ExecInv, X!StackNum
    <3>2. QED
      BY <2>3, <3>1, <1>1, <1>3 DEF ExecInv, ExecTypes, RecordsKept, X!Execute, X!Page, Recorded,
                                    X!FirstPage
  <2>4. CASE X!NoRandom
    BY <2>4, <1>1, <1>3 DEF ExecInv, ExecTypes, RecordsKept, X!NoRandom, X!Fail, X!Page, Recorded,
                            X!FirstPage
  <2>5. QED
    BY <2>1, <2>2, <2>3, <2>4
<1>5. PagesHeld'
  BY <1>1, <1>3, <1>4 DEF ExecInv, PagesHeld, X!Wanted, X!PagesTo, X!FirstPage, X!Page
<1>6. (ex_pc = "entered" => X!StackInPlace)'
  BY <1>1, <1>4, StackSeen DEF ExecInv
<1>7. QED
  BY <1>1, <1>2, <1>4, <1>5, <1>6 DEF ExecInv

-----------------------------------------------------------------------------
\* ExecLoader's bookkeeping: memories_ names the mapped segments, each segment has
\* its pages to itself until Unload comes to it, and memory holds their bytes.
THEOREM ExecInvariant == X!Spec => []ExecInv
<1> USE ExecLoaderAssumption
<1>1. X!Init => ExecInv
  BY ExecInit
<1>2. ExecInv /\ [X!Next]_(X!vars) => ExecInv'
  <2> SUFFICES ASSUME ExecInv, [X!Next]_(X!vars) PROVE ExecInv'
    OBVIOUS
  <2>1. CASE X!LoadSegment
    BY <2>1, LoadSegmentKeeps
  <2>2. CASE X!OtherMaps
    BY <2>2, OtherMapsKeeps
  <2>3. CASE X!Unload
    BY <2>3, UnloadKeeps
  <2>4. CASE X!HintRefused \/ X!EndCheckFails \/ X!LoadDone \/ X!Execute \/ X!NoRandom
    BY <2>4, OtherStepsKeep
  <2>5. CASE UNCHANGED X!vars
    <3>1. UNCHANGED <<ex_segs, envs, aux_tvs, ex_pc, ex_i, owner, bytes, memories, seen>>
      BY <2>5 DEF X!vars
    <3>2. PagesApart' /\ BytesCopied'
      BY <3>1, SameMemories
    <3>3. QED
      BY <3>1, <3>2 DEF ExecInv, ExecTypes, RecordsKept, PagesHeld, X!StackInPlace, Recorded,
                        X!FirstPage, X!Wanted, X!PagesTo, X!Page
  <2>6. QED
    BY <2>1, <2>2, <2>3, <2>4, <2>5 DEF X!Next
<1>3. QED
  BY <1>1, <1>2, PTL DEF X!Spec

\* SegmentsInPlace of ExecLoader: every byte of the program is where it belongs when
\* Load is through and at the entry, and the stack has argc, the environment and the
\* auxiliary vector in their places; argv[0] is not one of the claims.
THEOREM ProgramIsInPlace == X!Spec => []SegmentsInPlace
<1> USE ExecLoaderAssumption
<1>1. ExecInv => SegmentsInPlace
  <2> SUFFICES ASSUME ExecInv PROVE SegmentsInPlace
    OBVIOUS
  <2>1. ex_pc # "check_num" /\ (ex_pc = "entered" => X!StackInPlace)
    BY DEF ExecInv, ExecTypes
  <2>2. ASSUME ex_pc \in {"loaded", "entered"} PROVE X!BytesInPlace
    <3>1. DOMAIN memories = DOMAIN ex_segs /\ DOMAIN ex_segs = 1..Len(ex_segs)
          /\ ex_segs \in ExecImages
      BY <2>2 DEF ExecInv, ExecTypes, RecordsKept, X!ExecAssumption
    <3> SUFFICES ASSUME NEW k \in DOMAIN ex_segs, NEW at \in 0..ex_segs[k].memsz - 1,
                        NEW a, a = ex_segs[k].vaddr + at
                 PROVE  /\ owner[a \div PageSize] = "exec"
                        /\ a \in DOMAIN bytes <=> at < ex_segs[k].filesz
                        /\ a \in DOMAIN bytes => bytes[a] = [seg |-> k, at |-> at]
      BY DEF X!BytesInPlace
    <3>2. InMemory(ex_segs[k]) /\ \A j \in DOMAIN ex_segs : InMemory(ex_segs[j])
      BY <3>1, SegmentsInMemory
    <3>3. /\ ex_segs[k].vaddr \in Nat /\ ex_segs[k].memsz \in Nat /\ ex_segs[k].filesz \in Nat
          /\ a \in ex_segs[k].vaddr..ex_segs[k].vaddr + ex_segs[k].memsz - 1
          /\ a - ex_segs[k].vaddr = at
      BY <3>2 DEF InMemory, X!Segment
    <3>4. a \div PageSize \in X!Wanted(ex_segs[k])
      BY <3>2, <3>3, ByteOnWanted
    <3>5. owner[a \div PageSize] = "exec"
      BY <2>2, <3>1, <3>4 DEF ExecInv, PagesHeld
    <3>6. a \in FileBytes(ex_segs[k]) <=> at < ex_segs[k].filesz
      BY <3>3 DEF FileBytes
    <3>7. a \in DOMAIN bytes <=> a \in FileBytes(ex_segs[k])
      <4>1. ASSUME NEW j \in DOMAIN ex_segs, a \in FileBytes(ex_segs[j]) PROVE j = k
        <5>1. a \in ex_segs[j].vaddr..ex_segs[j].vaddr + ex_segs[j].memsz - 1
          BY <4>1, <3>2 DEF FileBytes, InMemory, X!Segment
        <5>2. a \div PageSize \in X!Wanted(ex_segs[j])
          BY <5>1, <3>2, ByteOnWanted
        <5>3. QED
          BY <5>2, <3>1, <3>4 DEF ExecInv, PagesApart
      <4>2. QED
        BY <4>1, <3>1 DEF ExecInv, BytesCopied
    <3>8. a \in FileBytes(ex_segs[k]) => bytes[a] = [seg |-> k, at |-> at]
      BY <3>1, <3>3 DEF ExecInv, BytesCopied
    <3>9. QED
      BY <3>5, <3>6, <3>7, <3>8
  <2>3. QED
    BY <2>1, <2>2 DEF SegmentsInPlace, X!SegmentsInPlace
<1>2. QED
  BY <1>1, ExecInvariant, PTL

\* UnloadsOwnOnly of ExecLoader: no step takes a page from someone else, Unload's
\* munmap of a size that is not that of the mapping included.
THEOREM OthersKeepTheirPages == X!Spec => UnloadsOwnOnly
<1> USE ExecLoaderAssumption
<1>1. ExecInv /\ [X!Next]_(X!vars) =>
        [\A g \in X!Page : owner[g] = "other" => owner'[g] = "other"]_(X!vars)
  <2> SUFFICES ASSUME ExecInv, X!Next
               PROVE  \A g \in X!Page : owner[g] = "other" => owner'[g] = "other"
    OBVIOUS
  <2>1. CASE X!LoadSegment
    BY <2>1 DEF X!LoadSegment, X!HintFollowed
  <2>2. CASE X!OtherMaps
    BY <2>2 DEF X!OtherMaps, ExecInv, ExecTypes
  <2>3. CASE X!Unload
    BY <2>3, UnloadKeeps
  <2>4. CASE X!HintRefused \/ X!EndCheckFails \/ X!LoadDone \/ X!Execute \/ X!NoRandom
    BY <2>4, OtherStepsKeep
  <2>5. QED
    BY <2>1, <2>2, <2>3, <2>4 DEF X!Next
<1>2. QED
  BY <1>1, ExecInvariant, PTL DEF X!Spec, UnloadsOwnOnly, X!UnloadsOwnOnly

=============================================================================
