-------------------------- MODULE ImageDataProofs --------------------------
(***************************************************************************)
(* Proofs about ImageData, for any number of processes, every set of files *)
(* and every order of fork, dlopen, stores and relocations.                *)
(***************************************************************************)
EXTENDS ImageData, TLAPS, WellFoundedInduction, SequenceTheorems

-----------------------------------------------------------------------------
\* Types.  A segment has the words of a file.
Mapping == [lib : Lib, seg : Nat]
Cell    == [is : {"file", "addr", "data"}, of : Lib \cup Nat, at : Nat]
Contents(l) == [DOMAIN Image[l] -> Cell]
Segment == UNION {Contents(l) : l \in Lib}

ImageTypes ==
  /\ live \subseteq Proc
  /\ binaries \in [Proc -> Seq(Mapping)]
  /\ relocated \in [Proc -> SUBSET Lib]
  /\ reloc_i \in [Proc -> Nat]
  /\ seg \in Seq(Segment)
  /\ linked \in Nat

\* A process that was never started has nothing; one that runs has a program.
Rooted ==
  \A p \in Proc : /\ binaries[p] = <<>> => relocated[p] = {} /\ reloc_i[p] = 0
                  /\ p \in live => binaries[p] # <<>>

\* What a process has mapped is a segment with the words of the file, and no two
\* of its binaries have one segment.
MapsFile ==
  \A p \in Proc : \A i \in DOMAIN binaries[p] :
    /\ binaries[p][i].seg \in DOMAIN seg
    /\ seg[binaries[p][i].seg] \in Contents(binaries[p][i].lib)
OneEach ==
  \A p \in Proc : \A i, j \in DOMAIN binaries[p] :
    binaries[p][i].seg = binaries[p][j].seg => i = j

\* Relocate leaves nothing behind it: when the loadee runs, and so when it forks,
\* every binary is relocated.
LoopBehind ==
  \A p \in Proc : \A i \in DOMAIN binaries[p] :
    reloc_i[p] = 0 \/ i < reloc_i[p] => binaries[p][i].lib \in relocated[p]

\* What is still to be relocated belongs to one process and is as in the file.
Unshared ==
  \A p, q \in Proc : \A i \in DOMAIN binaries[p] : \A j \in DOMAIN binaries[q] :
    binaries[p][i].lib \notin relocated[p] /\ binaries[q][j].seg = binaries[p][i].seg => p = q
StillFresh ==
  \A p \in Proc : \A i \in DOMAIN binaries[p] :
    binaries[p][i].lib \notin relocated[p] =>
      seg[binaries[p][i].seg] = Fresh(binaries[p][i].lib)

\* The program is relocated before anything else is.
MainFirst ==
  \A p \in Proc : binaries[p] # <<>> /\ binaries[p][1].lib \notin relocated[p] => relocated[p] = {}

\* Every process has the binaries of Run, and no others before it relocates the
\* program.
RunFirst ==
  \A p \in Proc : binaries[p] # <<>> =>
    /\ linked <= Len(binaries[p])
    /\ binaries[p][1].lib \notin relocated[p] => Len(binaries[p]) = linked

\* SlotsMapped, and what Relocate copies into the program, for processes that
\* have ended, too.
AddressesMapped ==
  \A p \in Proc : \A i \in DOMAIN binaries[p] : \A w \in DOMAIN seg[binaries[p][i].seg] :
    seg[binaries[p][i].seg][w].is = "addr" => seg[binaries[p][i].seg][w].of \in MappedBy(p)
CopyOf(p, w, s) ==
  LET main == binaries[p][1]
      from == binaries[p][Min(Sources(p, s))].lib
  IN  \/ seg[main.seg][w] = Stored
      \/ Sources(p, s) # {} /\ seg[main.seg][w] = Content(from, Home(from, s))
      \/ /\ Sources(p, s) = {} /\ \E i \in 2..linked : s \in Weak[binaries[p][i].lib]
         /\ seg[main.seg][w] = Content(main.lib, w)
CopiesInitial ==
  \A p \in Proc : binaries[p] # <<>> /\ binaries[p][1].lib \in relocated[p] =>
    \A w \in DOMAIN Image[binaries[p][1].lib] : \A s \in Image[binaries[p][1].lib][w].sym :
      Image[binaries[p][1].lib][w].rel = "COPY" => CopyOf(p, w, s)

Structure ==
  ImageTypes /\ Rooted /\ MapsFile /\ OneEach /\ LoopBehind /\ MainFirst /\ RunFirst
DataInv == Structure /\ Unshared /\ StillFresh /\ AddressesMapped /\ CopiesInitial

-----------------------------------------------------------------------------
\* A non-empty set of natural numbers has a least element, and Min is it.
LEMMA LeastOf ==
  ASSUME NEW S \in SUBSET Nat, S # {}
  PROVE  Min(S) \in S /\ \A y \in S : Min(S) <= y
<1>1. PICK x \in S : \A y \in S : ~(<<y, x>> \in OpToRel(<, Nat))
  BY NatLessThanWellFounded, WFMin, Zenon
<1>2. ASSUME NEW y \in S  PROVE x <= y
  <2>1. ~(y < x)
    BY <1>1, Zenon DEF OpToRel
  <2>2. QED
    BY <2>1
<1>3. QED
  BY <1>2 DEF Min

\* The words of a file.
LEMMA ImageWords ==
  ASSUME NEW l \in Lib
  PROVE  /\ Image[l] \in Seq(Word) /\ DOMAIN Image[l] \subseteq Nat
         /\ \A w \in DOMAIN Image[l] : /\ Image[l][w].sym \subseteq Sym
                                       /\ \A x, y \in Image[l][w].sym : x = y
         /\ Fresh(l) \in Contents(l)
<1>1. Image[l] \in Seq(Word) /\ DOMAIN Image[l] \subseteq Nat
  BY ImageAssumption
<1>2. \A w \in DOMAIN Image[l] : Image[l][w] \in Word
  BY <1>1
<1>3. Fresh(l) \in Contents(l)
  BY <1>1 DEF Contents, Fresh, Content, Cell
<1>4. QED
  BY <1>1, <1>2, <1>3 DEF Word

\* The home of a symbol is a word of the file.
LEMMA HomeIsWord ==
  ASSUME NEW l \in Lib, NEW s \in Defs(l)
  PROVE  Home(l, s) \in DOMAIN Image[l] /\ Home(l, s) \in Nat
<1>1. \E w \in DOMAIN Image[l] : s \in Image[l][w].def
  BY DEF Defs
<1>2. Home(l, s) \in DOMAIN Image[l]
  BY <1>1 DEF Home
<1>3. QED
  BY <1>2, ImageWords

\* A mapping of a process.
LEMMA MappingFacts ==
  ASSUME Structure, NEW p \in Proc, NEW i \in DOMAIN binaries[p]
  PROVE  /\ i \in Nat /\ i \in 1..Len(binaries[p]) /\ Len(binaries[p]) \in Nat
         /\ binaries[p][i] \in Mapping /\ binaries[p][i].lib \in Lib
         /\ binaries[p][i].seg \in DOMAIN seg /\ binaries[p][i].seg \in 1..Len(seg)
         /\ Len(seg) \in Nat
         /\ seg[binaries[p][i].seg] \in Contents(binaries[p][i].lib)
         /\ binaries[p][i].seg \in MappedBy(p)
<1>1. binaries[p] \in Seq(Mapping) /\ seg \in Seq(Segment)
  BY DEF Structure, ImageTypes
<1>2. i \in Nat /\ i \in 1..Len(binaries[p]) /\ Len(binaries[p]) \in Nat
  BY <1>1
<1>3. binaries[p][i] \in Mapping /\ Len(seg) \in Nat /\ DOMAIN seg = 1..Len(seg)
  BY <1>1
<1>4. QED
  BY <1>2, <1>3 DEF Structure, MapsFile, MappedBy, Mapping

\* SearchSym finds a word that the process has mapped.
LEMMA PlaceMapped ==
  ASSUME Structure, NEW p \in Proc, NEW s, NEW first \in {1, 2}, Defining(p, s, first) # {}
  PROVE  LET d == Min(Defining(p, s, first))
             l == binaries[p][d].lib
             a == Place(p, d, s)
         IN  /\ d \in Defining(p, s, first) /\ d \in DOMAIN binaries[p] /\ d \in Nat
             /\ \A y \in Defining(p, s, first) : d <= y
             /\ l \in Lib /\ Home(l, s) \in DOMAIN Image[l]
             /\ a = Addr(binaries[p][d].seg, Home(l, s))
             /\ a \in Cell /\ a.of = binaries[p][d].seg /\ a.at = Home(l, s)
             /\ a.of \in MappedBy(p) /\ a.at \in DOMAIN seg[a.of]
<1> DEFINE d == Min(Defining(p, s, first))
           l == binaries[p][d].lib
           a == Place(p, d, s)
<1>1. binaries[p] \in Seq(Mapping) /\ Len(binaries[p]) \in Nat /\ DOMAIN binaries[p] = 1..Len(binaries[p])
  BY DEF Structure, ImageTypes
<1>2. Defining(p, s, first) \subseteq Nat /\ Defining(p, s, first) \subseteq DOMAIN binaries[p]
  BY <1>1 DEF Defining
<1>3. d \in Defining(p, s, first) /\ \A y \in Defining(p, s, first) : d <= y
  BY <1>2, LeastOf
<1>4. d \in DOMAIN binaries[p] /\ d \in Nat /\ s \in Defs(l)
  BY <1>2, <1>3 DEF Defining
<1> HIDE DEF d
<1>5. /\ l \in Lib /\ binaries[p][d].seg \in MappedBy(p) /\ binaries[p][d].seg \in 1..Len(seg)
      /\ seg[binaries[p][d].seg] \in Contents(l) /\ Len(seg) \in Nat
  BY <1>4, MappingFacts
<1>6. Home(l, s) \in DOMAIN Image[l] /\ Home(l, s) \in Nat
  BY <1>4, <1>5, HomeIsWord
<1>7. a = Addr(binaries[p][d].seg, Home(l, s))
  BY DEF Place
<1>8. a \in Cell /\ a.of = binaries[p][d].seg /\ a.at = Home(l, s)
  BY <1>5, <1>6, <1>7 DEF Addr, Cell
<1>9. a.at \in DOMAIN seg[a.of]
  BY <1>5, <1>6, <1>8 DEF Contents
<1>10. QED
  BY <1>3, <1>4, <1>5, <1>6, <1>7, <1>8, <1>9 DEF d

\* The fallback of SearchSym is the start of a binary that the process has mapped.
LEMMA StartMapped ==
  ASSUME Structure, NEW p \in Proc, NEW s, Weakly(p, s, 1) # {}
  PROVE  LET a == Start(p, Min(Weakly(p, s, 1))) IN a \in Cell /\ a.of \in MappedBy(p)
<1> DEFINE d == Min(Weakly(p, s, 1))
<1>1. binaries[p] \in Seq(Mapping) /\ Len(binaries[p]) \in Nat /\ DOMAIN binaries[p] = 1..Len(binaries[p])
  BY DEF Structure, ImageTypes
<1>2. Weakly(p, s, 1) \subseteq Nat /\ Weakly(p, s, 1) \subseteq DOMAIN binaries[p]
  BY <1>1 DEF Weakly
<1>3. d \in DOMAIN binaries[p]
  BY <1>2, LeastOf
<1> HIDE DEF d
<1>4. binaries[p][d].seg \in MappedBy(p) /\ binaries[p][d].seg \in Nat
  BY <1>3, MappingFacts DEF Mapping
<1>5. QED
  BY <1>4 DEF Start, Addr, Cell, d

\* If Relocate does not abort, the symbol of a copy is found.
LEMMA CopyHasSource ==
  ASSUME Structure, NEW p \in Proc, NEW i \in DOMAIN binaries[p], ~Aborts(p, i),
         NEW w \in DOMAIN Image[binaries[p][i].lib], NEW s \in Image[binaries[p][i].lib][w].sym,
         Image[binaries[p][i].lib][w].rel = "COPY"
  PROVE  CopySources(p, s) # {} \/ Weakly(p, s, 2) # {}
<1>1. binaries[p][i].lib \in Lib
  BY MappingFacts
<1>2. PICK x \in Image[binaries[p][i].lib][w].sym : CopySources(p, x) # {} \/ Weakly(p, x, 2) # {}
  BY DEF Aborts
<1>3. x = s
  BY <1>1, ImageWords
<1>4. QED
  BY <1>2, <1>3

\* What Relocate puts into a word: an address of something the process has
\* mapped, or what is there or in another word it has mapped.
LEMMA RelocateCell ==
  ASSUME Structure, AddressesMapped, NEW p \in Proc, NEW i \in DOMAIN binaries[p], ~Aborts(p, i),
         NEW w \in DOMAIN Image[binaries[p][i].lib]
  PROVE  /\ Relocate(p, i, w) \in Cell
         /\ Relocate(p, i, w).is = "addr" => Relocate(p, i, w).of \in MappedBy(p)
<1> DEFINE b == binaries[p][i]
           r == Image[b.lib][w]
           s == CHOOSE x \in Sym : x \in r.sym
           a == Place(p, Min(CopySources(p, s)), s)
<1>1. /\ b \in Mapping /\ b.lib \in Lib /\ b.seg \in MappedBy(p) /\ b.seg \in 1..Len(seg)
      /\ Len(seg) \in Nat /\ seg[b.seg] \in Contents(b.lib) /\ b.seg \in Nat
  BY MappingFacts DEF Mapping
<1>2. \A j \in DOMAIN binaries[p] : \A v \in DOMAIN seg[binaries[p][j].seg] :
        /\ seg[binaries[p][j].seg][v] \in Cell
        /\ seg[binaries[p][j].seg][v].is = "addr" => seg[binaries[p][j].seg][v].of \in MappedBy(p)
  BY MappingFacts DEF Contents, AddressesMapped
<1>3. Relocate(p, i, w) = CASE r.rel = "RELATIVE" -> Addr(b.seg, 1)
                            [] r.rel = "GLOB_DAT" /\ Defining(p, s, 1) # {} ->
                                 Place(p, Min(Defining(p, s, 1)), s)
                            [] r.rel = "GLOB_DAT" /\ Defining(p, s, 1) = {} /\ Weakly(p, s, 1) # {} ->
                                 Start(p, Min(Weakly(p, s, 1)))
                            [] r.rel = "COPY" /\ CopySources(p, s) # {} -> seg[a.of][a.at]
                            [] OTHER -> seg[b.seg][w]
  BY DEF Relocate
<1>4. CASE r.rel = "RELATIVE"
  <2>1. Relocate(p, i, w) = Addr(b.seg, 1)
    BY <1>3, <1>4
  <2>2. QED
    BY <2>1, <1>1 DEF Addr, Cell
<1>5. CASE r.rel = "GLOB_DAT" /\ Defining(p, s, 1) # {}
  <2>1. Relocate(p, i, w) = Place(p, Min(Defining(p, s, 1)), s)
    BY <1>3, <1>5
  <2>2. QED
    BY <2>1, <1>5, PlaceMapped
<1>6. CASE r.rel = "COPY" /\ CopySources(p, s) # {}
  <2>1. CopySources(p, s) # {}
    BY <1>6
  <2>2. a = Place(p, Min(Defining(p, s, 2)), s)
    BY <1>6 DEF CopySources
  <2>3. PICK d \in DOMAIN binaries[p] : a.of = binaries[p][d].seg /\ a.at \in DOMAIN seg[a.of]
    <3> HIDE DEF s, a
    <3>1. Defining(p, s, 2) # {}
      BY <2>1 DEF CopySources
    <3>2. QED
      BY <2>2, <3>1, PlaceMapped
  <2>4. Relocate(p, i, w) = seg[a.of][a.at]
    BY <1>3, <1>6
  <2> HIDE DEF s, a
  <2>5. QED
    BY <2>3, <2>4, <1>2
<1>9. CASE r.rel = "GLOB_DAT" /\ Defining(p, s, 1) = {} /\ Weakly(p, s, 1) # {}
  <2>1. Relocate(p, i, w) = Start(p, Min(Weakly(p, s, 1)))
    BY <1>3, <1>9
  <2>2. QED
    BY <2>1, <1>9, StartMapped
<1>7. CASE /\ r.rel # "RELATIVE" /\ ~(r.rel = "GLOB_DAT" /\ Defining(p, s, 1) # {})
           /\ ~(r.rel = "GLOB_DAT" /\ Defining(p, s, 1) = {} /\ Weakly(p, s, 1) # {})
           /\ ~(r.rel = "COPY" /\ CopySources(p, s) # {})
  <2>1. Relocate(p, i, w) = seg[b.seg][w]
    BY <1>3, <1>7
  <2>2. QED
    BY <2>1, <1>1, <1>2 DEF Contents
<1>8. QED
  BY <1>4, <1>5, <1>6, <1>7, <1>9

-----------------------------------------------------------------------------
\* LoadDependingLibs has mapped the files of a link map, each as it is.
LEMMA DataInvInit == Init => DataInv
<1> SUFFICES ASSUME Init  PROVE DataInv
  OBVIOUS
<1>1. PICK m \in Maps :
        /\ binaries = [p \in Proc |-> IF p = First
                                      THEN [i \in DOMAIN m |-> [lib |-> m[i], seg |-> i]] ELSE <<>>]
        /\ seg = [i \in DOMAIN m |-> Fresh(m[i])]
        /\ linked = Len(m)
  BY DEF Init
<1>2. /\ m \in Seq(Lib) /\ m # <<>> /\ Len(m) \in Nat /\ DOMAIN m = 1..Len(m) /\ 1 \in DOMAIN m
      /\ \A i \in DOMAIN m : m[i] \in Lib
  BY ImageAssumption
<1>3. /\ First \in Proc /\ live = {First} /\ relocated = [p \in Proc |-> {}]
      /\ reloc_i = [p \in Proc |-> IF p = First THEN 1 ELSE 0]
  BY ImageAssumption DEF Init
<1>4. /\ binaries[First] = [i \in 1..Len(m) |-> [lib |-> m[i], seg |-> i]]
      /\ DOMAIN binaries[First] = 1..Len(m)
      /\ \A p \in Proc : p # First => binaries[p] = <<>> /\ DOMAIN binaries[p] = {}
      /\ \A i \in 1..Len(m) : binaries[First][i].lib = m[i] /\ binaries[First][i].seg = i
  BY <1>1, <1>2, <1>3
<1>5. ImageTypes
  <2>1. binaries[First] \in Seq(Mapping)
    <3>1. binaries[First] \in [1..Len(m) -> Mapping]
      BY <1>2, <1>4 DEF Mapping
    <3>2. QED
      BY <3>1, <1>2, SeqDef
  <2>2. ASSUME NEW p \in Proc  PROVE binaries[p] \in Seq(Mapping)
    <3>1. <<>> \in Seq(Mapping)
      OBVIOUS
    <3>2. QED
      BY <2>1, <3>1, <1>4
  <2>3. binaries \in [Proc -> Seq(Mapping)]
    BY <2>2, <1>1
  <2>4. seg \in Seq(Segment)
    <3>1. \A i \in 1..Len(m) : Fresh(m[i]) \in Segment
      BY <1>2, ImageWords DEF Segment
    <3>2. seg \in [1..Len(m) -> Segment]
      BY <3>1, <1>1, <1>2
    <3>3. QED
      BY <3>2, <1>2, SeqDef
  <2>5. linked \in Nat
    BY <1>1, <1>2
  <2>6. QED
    BY <2>3, <2>4, <2>5, <1>3 DEF ImageTypes
<1>6. binaries[First] # <<>>
  BY <1>2, <1>4
<1>7. Rooted /\ LoopBehind /\ MainFirst
  BY <1>3, <1>4, <1>6 DEF Rooted, LoopBehind, MainFirst
<1>7a. RunFirst
  <2>1. Len(binaries[First]) = Len(m) /\ linked = Len(m)
    BY <1>1, <1>2, <1>4
  <2>2. QED
    BY <2>1, <1>2, <1>4 DEF RunFirst
<1>8. \A i \in 1..Len(m) : i \in DOMAIN seg /\ seg[i] = Fresh(m[i])
  BY <1>1, <1>2
<1>9. MapsFile
  <2>1. ASSUME NEW p \in Proc, NEW i \in DOMAIN binaries[p]
        PROVE  /\ binaries[p][i].seg \in DOMAIN seg
               /\ seg[binaries[p][i].seg] \in Contents(binaries[p][i].lib)
    <3>1. p = First /\ i \in 1..Len(m) /\ m[i] \in Lib
      BY <1>2, <1>4
    <3>2. binaries[p][i].seg = i /\ binaries[p][i].lib = m[i] /\ seg[i] = Fresh(m[i]) /\ i \in DOMAIN seg
      BY <3>1, <1>4, <1>8
    <3>3. QED
      BY <3>1, <3>2, ImageWords
  <2>2. QED
    BY <2>1 DEF MapsFile
<1>10. OneEach
  BY <1>4 DEF OneEach
<1>11. Unshared /\ StillFresh /\ CopiesInitial
  BY <1>3, <1>4, <1>8 DEF Unshared, StillFresh, CopiesInitial
<1>12. AddressesMapped
  <2>1. \A i \in 1..Len(m) : \A w \in DOMAIN Fresh(m[i]) : Fresh(m[i])[w].is = "file"
    BY DEF Fresh, Content
  <2>2. ASSUME NEW p \in Proc, NEW i \in DOMAIN binaries[p], NEW w \in DOMAIN seg[binaries[p][i].seg]
        PROVE  seg[binaries[p][i].seg][w].is = "file"
    <3>1. p = First /\ i \in 1..Len(m)
      BY <1>4
    <3>2. binaries[p][i].seg = i /\ seg[i] = Fresh(m[i])
      BY <3>1, <1>4, <1>8
    <3>3. QED
      BY <3>1, <3>2, <2>1
  <2>3. QED
    BY <2>2 DEF AddressesMapped
<1>13. QED
  BY <1>5, <1>7, <1>7a, <1>9, <1>10, <1>11, <1>12 DEF DataInv, Structure

-----------------------------------------------------------------------------
\* The loop moves on, or a process ends.
LEMMA MovesOn ==
  ASSUME DataInv, binaries' = binaries, relocated' = relocated, seg' = seg, live' \subseteq live,
         linked' = linked,
         NEW p \in Proc, NEW n \in Nat, p \in live, reloc_i' = [reloc_i EXCEPT ![p] = n],
         \A i \in DOMAIN binaries[p] : n = 0 \/ i < n => binaries[p][i].lib \in relocated[p]
  PROVE  DataInv'
<1>1. ImageTypes /\ Rooted /\ LoopBehind
  BY DEF DataInv, Structure
<1>2. /\ reloc_i' \in [Proc -> Nat] /\ reloc_i'[p] = n
      /\ \A q \in Proc : q # p => reloc_i'[q] = reloc_i[q]
  BY <1>1 DEF ImageTypes
<1>3. ImageTypes'
  BY <1>1, <1>2 DEF ImageTypes
<1>4. Rooted'
  BY <1>1, <1>2 DEF Rooted
<1>5. LoopBehind'
  BY <1>1, <1>2 DEF LoopBehind
<1>6. MapsFile' /\ OneEach' /\ MainFirst' /\ RunFirst' /\ Unshared' /\ StillFresh'
  BY DEF DataInv, Structure, MapsFile, OneEach, MainFirst, RunFirst, Unshared, StillFresh
<1>7. AddressesMapped'
  BY DEF DataInv, AddressesMapped, MappedBy
<1>8. \A q, w, s : CopyOf(q, w, s)' <=> CopyOf(q, w, s)
  BY DEF CopyOf, Sources
<1>9. CopiesInitial'
  BY <1>8 DEF DataInv, CopiesInitial
<1>10. QED
  BY <1>3, <1>4, <1>5, <1>6, <1>7, <1>9 DEF DataInv, Structure

\* One segment of a process is written.
Overwritten(k, f) == [seg EXCEPT ![k] = f]
LEMMA Written ==
  ASSUME Structure, NEW p \in Proc, NEW i \in DOMAIN binaries[p],
         NEW f \in Contents(binaries[p][i].lib),
         binaries' = binaries, seg' = Overwritten(binaries[p][i].seg, f)
  PROVE  /\ seg' \in Seq(Segment) /\ seg'[binaries[p][i].seg] = f
         /\ \A k \in DOMAIN seg : k # binaries[p][i].seg => seg'[k] = seg[k]
         /\ MapsFile'
<1> DEFINE k == binaries[p][i].seg
<1>1. /\ k \in 1..Len(seg) /\ k \in DOMAIN seg /\ binaries[p][i].lib \in Lib
      /\ seg[k] \in Contents(binaries[p][i].lib)
  BY MappingFacts
<1>2. f \in Segment /\ seg \in Seq(Segment)
  BY <1>1 DEF Segment, Structure, ImageTypes
<1> HIDE DEF k
<1>3. seg' = [seg EXCEPT ![k] = f]
  BY DEF k, Overwritten
<1>4. seg' \in Seq(Segment) /\ Len(seg') = Len(seg) /\ DOMAIN seg' = DOMAIN seg /\ seg'[k] = f
      /\ \A n \in DOMAIN seg : n # k => seg'[n] = seg[n]
  <2>1. DOMAIN seg = 1..Len(seg) /\ DOMAIN seg' = DOMAIN seg
    BY <1>2, <1>3
  <2>2. /\ [seg EXCEPT ![k] = f] \in Seq(Segment)
        /\ Len([seg EXCEPT ![k] = f]) = Len(seg)
    BY <1>1, <1>2, ExceptSeq
  <2>3. \A n \in DOMAIN seg : [seg EXCEPT ![k] = f][n] = IF n = k THEN f ELSE seg[n]
    OBVIOUS
  <2>4. QED
    BY <1>1, <1>3, <2>1, <2>2, <2>3
<1>5. ASSUME NEW q \in Proc, NEW j \in DOMAIN binaries[q]
      PROVE  /\ binaries[q][j].seg \in DOMAIN seg'
             /\ seg'[binaries[q][j].seg] \in Contents(binaries[q][j].lib)
  <2>1. /\ binaries[q][j].seg \in DOMAIN seg
        /\ seg[binaries[q][j].seg] \in Contents(binaries[q][j].lib)
    BY MappingFacts
  <2>2. CASE binaries[q][j].seg = k
    <3>1. DOMAIN Image[binaries[q][j].lib] = DOMAIN Image[binaries[p][i].lib]
      BY <2>1, <2>2, <1>1 DEF Contents
    <3>2. QED
      BY <3>1, <2>1, <2>2, <1>4 DEF Contents
  <2>3. CASE binaries[q][j].seg # k
    BY <2>1, <2>3, <1>4
  <2>4. QED
    BY <2>2, <2>3
<1>6. MapsFile'
  BY <1>5 DEF MapsFile
<1>7. QED
  BY <1>4, <1>6 DEF k

\* A store is into a relocated binary, so that nothing that is to be relocated
\* is touched.
LEMMA StoreKeeps ==
  ASSUME DataInv, NEW p \in Proc, NEW i \in DOMAIN binaries[p],
         NEW w \in DOMAIN Image[binaries[p][i].lib], Store(p, i, w)
  PROVE  DataInv'
<1> DEFINE k == binaries[p][i].seg
           f == [seg[k] EXCEPT ![w] = Stored]
<1>1. Structure /\ ImageTypes /\ Rooted /\ OneEach /\ LoopBehind /\ MainFirst
  BY DEF DataInv, Structure
<1>2. /\ binaries' = binaries /\ live' = live /\ relocated' = relocated /\ reloc_i' = reloc_i
      /\ reloc_i[p] = 0 /\ linked' = linked
  BY DEF Store
<1>3. k \in DOMAIN seg /\ seg[k] \in Contents(binaries[p][i].lib)
  BY <1>1, MappingFacts
<1>4. Stored \in Cell /\ Stored.is = "data"
  BY DEF Stored, Cell
<1>5. f \in Contents(binaries[p][i].lib)
  BY <1>3, <1>4 DEF Contents
<1>6. seg' = [seg EXCEPT ![k] = f]
  BY <1>3 DEF Store
<1>7. \A v \in DOMAIN f : f[v] = Stored \/ f[v] = seg[k][v]
  BY <1>3
<1>7a. DOMAIN f = DOMAIN seg[k]
  BY <1>3
<1> HIDE DEF f
<1>8. /\ seg' \in Seq(Segment) /\ seg'[k] = f /\ MapsFile'
      /\ \A n \in DOMAIN seg : n # k => seg'[n] = seg[n]
  <2>1. PICK g \in Contents(binaries[p][i].lib) : g = f
    BY <1>5
  <2>2. Structure /\ binaries' = binaries /\ seg' = Overwritten(binaries[p][i].seg, g)
    BY <1>1, <1>2, <1>6, <2>1 DEF Overwritten
  <2>3. /\ seg' \in Seq(Segment) /\ seg'[binaries[p][i].seg] = g /\ MapsFile'
        /\ \A n \in DOMAIN seg : n # binaries[p][i].seg => seg'[n] = seg[n]
    BY <2>2, Written, SMTT(60)
  <2>4. QED
    BY <2>1, <2>3
<1> HIDE DEF k
<1>9. binaries[p][i].lib \in relocated[p]
  BY <1>1, <1>2 DEF LoopBehind
<1>10. StillFresh'
  <2>1. ASSUME NEW q \in Proc, NEW j \in DOMAIN binaries[q], binaries[q][j].lib \notin relocated[q]
        PROVE  seg'[binaries[q][j].seg] = Fresh(binaries[q][j].lib)
    <3>1. binaries[q][j].seg # k
      BY <2>1, <1>1, <1>9 DEF k, DataInv, Unshared, OneEach
    <3>2. binaries[q][j].seg \in DOMAIN seg
      BY <1>1, MappingFacts
    <3>3. QED
      BY <2>1, <3>1, <3>2, <1>8 DEF DataInv, StillFresh
  <2>2. QED
    BY <2>1, <1>2 DEF StillFresh
<1>11. \A n \in DOMAIN seg : /\ DOMAIN seg'[n] = DOMAIN seg[n]
                             /\ \A v \in DOMAIN seg[n] : seg'[n][v] = Stored \/ seg'[n][v] = seg[n][v]
  BY <1>7, <1>7a, <1>8
<1>12. AddressesMapped'
  <2>1. ASSUME NEW q \in Proc, NEW j \in DOMAIN binaries[q], NEW v \in DOMAIN seg'[binaries[q][j].seg],
               seg'[binaries[q][j].seg][v].is = "addr"
        PROVE  seg'[binaries[q][j].seg][v].of \in MappedBy(q)
    <3>1. binaries[q][j].seg \in DOMAIN seg
      BY <1>1, MappingFacts
    <3>2. v \in DOMAIN seg[binaries[q][j].seg] /\ seg'[binaries[q][j].seg][v] = seg[binaries[q][j].seg][v]
      BY <2>1, <3>1, <1>4, <1>11
    <3>3. QED
      BY <2>1, <3>2 DEF DataInv, AddressesMapped
  <2>2. QED
    BY <2>1, <1>2 DEF AddressesMapped, MappedBy
<1>13. CopiesInitial'
  <2>1. ASSUME NEW q \in Proc, binaries[q] # <<>>, binaries[q][1].lib \in relocated[q],
               NEW v \in DOMAIN Image[binaries[q][1].lib], NEW s \in Image[binaries[q][1].lib][v].sym,
               Image[binaries[q][1].lib][v].rel = "COPY"
        PROVE  CopyOf(q, v, s)'
    <3>1. CopyOf(q, v, s)
      BY <2>1 DEF DataInv, CopiesInitial
    <3>2. 1 \in DOMAIN binaries[q]
      BY <2>1, <1>1 DEF ImageTypes
    <3>3. binaries[q][1].seg \in DOMAIN seg /\ v \in DOMAIN seg[binaries[q][1].seg]
      BY <1>1, <3>2, MappingFacts DEF Contents
    <3>4. Sources(q, s)' = Sources(q, s)
      BY <1>2 DEF Sources
    <3>5. QED
      BY <3>1, <3>3, <3>4, <1>2, <1>11 DEF CopyOf, Stored, Content
  <2>2. QED
    BY <2>1, <1>2 DEF CopiesInitial
<1>14. ImageTypes' /\ Rooted' /\ OneEach' /\ LoopBehind' /\ MainFirst' /\ RunFirst' /\ Unshared'
  BY <1>1, <1>2, <1>8 DEF ImageTypes, Rooted, OneEach, LoopBehind, MainFirst, RunFirst, DataInv,
                          Structure, Unshared
<1>15. QED
  BY <1>8, <1>10, <1>12, <1>13, <1>14 DEF DataInv, Structure

\* Relocate writes into a binary that no other process has and that is as in the
\* file.
LEMMA RelocateKeeps ==
  ASSUME DataInv, NEW p \in Proc, RelocateBinary(p)
  PROVE  /\ DataInv'
         /\ \A k \in DOMAIN seg : seg'[k] = seg[k] \/ \A w \in DOMAIN seg[k] : seg[k][w].is = "file"
<1> DEFINE i == reloc_i[p]
           b == binaries[p][i]
           k == b.seg
           f == [w \in DOMAIN seg[k] |-> Relocate(p, i, w)]
<1>1. Structure /\ ImageTypes /\ Rooted /\ OneEach /\ LoopBehind /\ MainFirst /\ AddressesMapped
      /\ Unshared /\ StillFresh /\ CopiesInitial /\ RunFirst
  BY DEF DataInv, Structure
<1>2. binaries[p] \in Seq(Mapping) /\ i \in Nat /\ i \in DOMAIN binaries[p] /\ i # 0
  BY <1>1 DEF ImageTypes, RelocateBinary, Looping
<1>3. /\ binaries' = binaries /\ live' = live /\ linked' = linked /\ b.lib \notin relocated[p] /\ ~Aborts(p, i)
      /\ relocated' = [relocated EXCEPT ![p] = @ \cup {b.lib}]
      /\ seg' = [seg EXCEPT ![k] = f]
      /\ reloc_i' = [reloc_i EXCEPT ![p] = i + 1]
  BY DEF RelocateBinary, At, IsRelocated
<1>4. b.lib \in Lib /\ k \in DOMAIN seg /\ seg[k] \in Contents(b.lib) /\ k \in MappedBy(p)
  BY <1>1, <1>2, MappingFacts
<1>5. DOMAIN seg[k] = DOMAIN Image[b.lib] /\ DOMAIN f = DOMAIN Image[b.lib]
  BY <1>4 DEF Contents
<1>6. \A w \in DOMAIN Image[b.lib] :
        f[w] \in Cell /\ (f[w].is = "addr" => f[w].of \in MappedBy(p))
  BY <1>1, <1>2, <1>3, <1>5, RelocateCell
<1>7. f \in Contents(b.lib)
  BY <1>5, <1>6 DEF Contents
<1>8. /\ seg' \in Seq(Segment) /\ seg'[k] = f /\ MapsFile'
      /\ \A n \in DOMAIN seg : n # k => seg'[n] = seg[n]
  <2> HIDE DEF f
  <2>1. PICK g \in Contents(b.lib) : g = f
    BY <1>7
  <2>2. seg' = Overwritten(binaries[p][i].seg, g)
    BY <1>3, <2>1 DEF Overwritten
  <2>3. PICK j \in DOMAIN binaries[p] : j = i
    BY <1>2
  <2>4. g \in Contents(binaries[p][j].lib) /\ binaries' = binaries
        /\ seg' = Overwritten(binaries[p][j].seg, g)
    BY <1>3, <2>1, <2>2, <2>3
  <2>5. /\ seg' \in Seq(Segment) /\ seg'[binaries[p][j].seg] = g
        /\ \A n \in DOMAIN seg : n # binaries[p][j].seg => seg'[n] = seg[n]
        /\ MapsFile'
    BY <1>1, <2>4, Written, Zenon
  <2>6. QED
    BY <2>1, <2>3, <2>5
<1>9. /\ relocated' \in [Proc -> SUBSET Lib] /\ relocated'[p] = relocated[p] \cup {b.lib}
      /\ \A q \in Proc : q # p => relocated'[q] = relocated[q]
      /\ \A q \in Proc : relocated[q] \subseteq relocated'[q]
  BY <1>1, <1>3, <1>4 DEF ImageTypes
<1>10. /\ reloc_i' \in [Proc -> Nat] /\ reloc_i'[p] = i + 1
       /\ \A q \in Proc : q # p => reloc_i'[q] = reloc_i[q]
  BY <1>1, <1>2, <1>3 DEF ImageTypes
<1>11. \A w \in DOMAIN seg[k] : seg[k][w].is = "file"
  <2>1. seg[k] = Fresh(b.lib)
    BY <1>1, <1>2, <1>3 DEF StillFresh
  <2>2. QED
    BY <2>1 DEF Fresh, Content
<1>12. \A q \in Proc : \A j \in DOMAIN binaries[q] : binaries[q][j].seg = k => q = p /\ j = i
  BY <1>1, <1>2, <1>3 DEF Unshared, OneEach
<1>13. ASSUME NEW v \in DOMAIN Image[b.lib], NEW s \in Image[b.lib][v].sym,
              Image[b.lib][v].rel = "COPY", i = 1, relocated[p] = {}
       PROVE  CopyOf(p, v, s)'
  <2>1. Sources(p, s) = Defining(p, s, 2) /\ Sources(p, s)' = Sources(p, s)
    <3>1. Len(binaries[p]) = linked
      BY <1>1, <1>2, <1>13 DEF RunFirst
    <3>2. QED
      BY <3>1, <1>3 DEF Sources, Defining
  <2>2. (CHOOSE x \in Sym : x \in Image[b.lib][v].sym) = s
    <3>1. s \in Sym /\ \A x, y \in Image[b.lib][v].sym : x = y
      BY <1>4, ImageWords
    <3>2. QED
      BY <3>1
  <2>3. seg'[binaries[p][1].seg][v] = Relocate(p, i, v)
    BY <1>5, <1>8, <1>13
  <2>4. CASE Defining(p, s, 2) # {}
    <3> DEFINE d == Min(Defining(p, s, 2))
               from == binaries[p][d].lib
    <3>1. /\ d \in DOMAIN binaries[p] /\ Home(from, s) \in DOMAIN Image[from]
          /\ Place(p, d, s).of = binaries[p][d].seg /\ Place(p, d, s).at = Home(from, s)
      BY <2>4, <1>1, PlaceMapped
    <3>2. seg[binaries[p][d].seg] = Fresh(from)
      BY <3>1, <1>1, <1>13 DEF StillFresh
    <3>3. Relocate(p, i, v) = seg[Place(p, d, s).of][Place(p, d, s).at]
      BY <1>13, <2>2, <2>4 DEF Relocate, CopySources
    <3>4. Relocate(p, i, v) = Content(from, Home(from, s))
      BY <3>1, <3>2, <3>3 DEF Fresh
    <3> HIDE DEF i, b, k, f
    <3>5. QED
      BY <1>3, <2>1, <2>3, <2>4, <3>4 DEF CopyOf, Content
  <2>5. CASE Defining(p, s, 2) = {}
    <3>1. Weakly(p, s, 2) # {}
      BY <1>1, <1>2, <1>3, <1>13, <2>5, CopyHasSource DEF CopySources
    <3>2. \E j \in 2..linked : s \in Weak[binaries[p][j].lib]
      BY <3>1, <1>1, <1>2, <1>13 DEF RunFirst, Weakly
    <3>3. Relocate(p, i, v) = seg[k][v]
      BY <1>13, <2>2, <2>5 DEF Relocate, CopySources
    <3>4. seg[k] = Fresh(b.lib)
      BY <1>1, <1>2, <1>3 DEF StillFresh
    <3>5. Relocate(p, i, v) = Content(b.lib, v) /\ b = binaries[p][1]
      BY <1>13, <3>3, <3>4 DEF Fresh
    <3> HIDE DEF i, b, k, f
    <3>6. QED
      BY <1>3, <2>1, <2>3, <2>5, <3>2, <3>5 DEF CopyOf, Content
  <2>6. QED
    BY <2>4, <2>5
<1> HIDE DEF i, b, k, f
<1>14. ImageTypes'
  BY <1>1, <1>3, <1>8, <1>9, <1>10 DEF ImageTypes
<1>15. Rooted'
  <2>1. binaries[p] # <<>>
    BY <1>2
  <2>2. QED
    BY <2>1, <1>1, <1>3, <1>9, <1>10 DEF Rooted
<1>16. OneEach'
  BY <1>1, <1>3 DEF OneEach
<1>17. LoopBehind'
  <2>1. ASSUME NEW q \in Proc, NEW j \in DOMAIN binaries[q], reloc_i'[q] = 0 \/ j < reloc_i'[q]
        PROVE  binaries[q][j].lib \in relocated'[q]
    <3>1. CASE q # p
      BY <2>1, <3>1, <1>1, <1>9, <1>10 DEF LoopBehind
    <3>2. CASE q = p /\ j = i
      BY <3>2, <1>9 DEF b
    <3>3. CASE q = p /\ j # i
      <4>1. j \in Nat
        BY <1>1, MappingFacts
      <4>2. j < i
        BY <2>1, <3>3, <4>1, <1>2, <1>10
      <4>3. QED
        BY <4>2, <3>3, <1>1, <1>9 DEF LoopBehind, i
    <3>4. QED
      BY <3>1, <3>2, <3>3
  <2>2. QED
    BY <2>1, <1>3 DEF LoopBehind
<1>18. ASSUME binaries[p][1].lib \notin relocated[p]
       PROVE  i = 1 /\ relocated[p] = {}
  <2>1. 1 \in DOMAIN binaries[p] /\ binaries[p] # <<>>
    BY <1>2
  <2>2. ~(1 < i)
    BY <2>1, <1>1, <1>18 DEF LoopBehind, i
  <2>3. QED
    BY <2>1, <2>2, <1>1, <1>2, <1>18 DEF MainFirst
<1>19. binaries[p][1].lib \in relocated'[p]
  BY <1>9, <1>18 DEF b
<1>20. MainFirst' /\ RunFirst'
  BY <1>1, <1>3, <1>9, <1>19 DEF MainFirst, RunFirst
<1>21. Unshared'
  BY <1>1, <1>3, <1>9 DEF Unshared
<1>22. StillFresh'
  <2>1. ASSUME NEW q \in Proc, NEW j \in DOMAIN binaries[q], binaries[q][j].lib \notin relocated'[q]
        PROVE  seg'[binaries[q][j].seg] = Fresh(binaries[q][j].lib)
    <3>1. binaries[q][j].lib \notin relocated[q] /\ binaries[q][j].seg \in DOMAIN seg
      BY <2>1, <1>1, <1>9, MappingFacts
    <3>2. binaries[q][j].seg # k
      BY <2>1, <1>9, <1>12 DEF b
    <3>3. QED
      BY <3>1, <3>2, <1>1, <1>8 DEF StillFresh
  <2>2. QED
    BY <2>1, <1>3 DEF StillFresh
<1>23. AddressesMapped'
  <2>1. ASSUME NEW q \in Proc, NEW j \in DOMAIN binaries[q], NEW v \in DOMAIN seg'[binaries[q][j].seg],
               seg'[binaries[q][j].seg][v].is = "addr"
        PROVE  seg'[binaries[q][j].seg][v].of \in MappedBy(q)
    <3>1. binaries[q][j].seg \in DOMAIN seg
      BY <1>1, MappingFacts
    <3>2. CASE binaries[q][j].seg = k
      BY <2>1, <3>2, <1>5, <1>6, <1>8, <1>12
    <3>3. CASE binaries[q][j].seg # k
      BY <2>1, <3>1, <3>3, <1>1, <1>8 DEF AddressesMapped
    <3>4. QED
      BY <3>2, <3>3
  <2>2. binaries' = binaries
    BY <1>3
  <2>3. QED
    BY <2>1, <2>2 DEF AddressesMapped, MappedBy
<1>24. CopiesInitial'
  <2>1. ASSUME NEW q \in Proc, binaries[q] # <<>>, binaries[q][1].lib \in relocated'[q],
               NEW v \in DOMAIN Image[binaries[q][1].lib], NEW s \in Image[binaries[q][1].lib][v].sym,
               Image[binaries[q][1].lib][v].rel = "COPY"
        PROVE  CopyOf(q, v, s)'
    <3>1. CASE binaries[q][1].lib \in relocated[q]
      <4>1. CopyOf(q, v, s)
        BY <2>1, <3>1, <1>1 DEF CopiesInitial
      <4>2. 1 \in DOMAIN binaries[q]
        BY <2>1, <1>1 DEF ImageTypes
      <4>3. binaries[q][1].seg \in DOMAIN seg
        BY <4>2, <1>1, MappingFacts
      <4>4. binaries[q][1].seg # k
        BY <4>2, <3>1, <1>3, <1>12 DEF b
      <4>5. Sources(q, s)' = Sources(q, s)
        BY <1>3 DEF Sources
      <4>6. QED
        BY <4>1, <4>3, <4>4, <4>5, <1>3, <1>8 DEF CopyOf, Stored, Content
    <3>2. CASE binaries[q][1].lib \notin relocated[q]
      <4>1. q = p
        BY <2>1, <3>2, <1>9
      <4>2. i = 1 /\ relocated[p] = {}
        BY <4>1, <3>2, <1>18
      <4>3. QED
        BY <2>1, <4>1, <4>2, <1>13 DEF b
    <3>3. QED
      BY <3>1, <3>2
  <2>2. QED
    BY <2>1, <1>3 DEF CopiesInitial
<1>25. QED
  BY <1>8, <1>11, <1>14, <1>15, <1>16, <1>17, <1>20, <1>21, <1>22, <1>23, <1>24 DEF DataInv, Structure

\* A child has what its parent has, and everything of the parent is relocated.
LEMMA ForkKeeps ==
  ASSUME DataInv, NEW p \in Proc, NEW c \in Proc, Fork(p, c)
  PROVE  DataInv'
<1> DEFINE old(q) == IF q = c THEN p ELSE q
<1>1. Structure /\ ImageTypes /\ Rooted /\ MapsFile /\ OneEach /\ LoopBehind /\ MainFirst
      /\ AddressesMapped /\ Unshared /\ StillFresh /\ CopiesInitial /\ RunFirst
  BY DEF DataInv, Structure
<1>2. /\ p \in live /\ reloc_i[p] = 0 /\ binaries[c] = <<>> /\ live' = live \cup {c}
      /\ binaries' = [binaries EXCEPT ![c] = binaries[p]]
      /\ relocated' = [relocated EXCEPT ![c] = relocated[p]]
      /\ reloc_i' = reloc_i /\ seg' = seg /\ linked' = linked
  BY DEF Fork
<1>3. c # p /\ reloc_i[c] = 0 /\ binaries[p] # <<>>
  BY <1>1, <1>2 DEF Rooted
<1>4. \A q \in Proc : /\ old(q) \in Proc /\ binaries'[q] = binaries[old(q)]
                      /\ relocated'[q] = relocated[old(q)] /\ reloc_i'[q] = reloc_i[old(q)]
  BY <1>1, <1>2, <1>3 DEF ImageTypes
<1>5. ImageTypes'
  <2>1. \A q \in Proc : binaries[q] \in Seq(Mapping) /\ relocated[q] \in SUBSET Lib
    BY <1>1 DEF ImageTypes
  <2>2. binaries' \in [Proc -> Seq(Mapping)] /\ relocated' \in [Proc -> SUBSET Lib]
    BY <2>1, <1>1, <1>2 DEF ImageTypes
  <2>3. QED
    BY <2>2, <1>1, <1>2 DEF ImageTypes
<1> HIDE DEF old
<1>6. MapsFile'
  BY <1>1, <1>2, <1>4 DEF MapsFile
<1>7. OneEach'
  BY <1>1, <1>4 DEF OneEach
<1>8. LoopBehind'
  BY <1>1, <1>4 DEF LoopBehind
<1>9. MainFirst' /\ RunFirst'
  <2>1. MainFirst'
    BY <1>1, <1>4 DEF MainFirst
  <2>2. linked' = linked
    BY <1>2
  <2>3. RunFirst'
    BY <2>2, <1>1, <1>4 DEF RunFirst
  <2>4. QED
    BY <2>1, <2>3
<1>10. StillFresh'
  <2>1. ASSUME NEW q \in Proc, NEW i \in DOMAIN binaries'[q],
               binaries'[q][i].lib \notin relocated'[q]
        PROVE  seg'[binaries'[q][i].seg] = Fresh(binaries'[q][i].lib)
    <3>1. /\ old(q) \in Proc /\ binaries'[q] = binaries[old(q)]
          /\ relocated'[q] = relocated[old(q)] /\ seg' = seg
      BY <1>2, <1>4
    <3>2. seg[binaries[old(q)][i].seg] = Fresh(binaries[old(q)][i].lib)
      BY <2>1, <3>1, <1>1 DEF StillFresh
    <3>3. QED
      BY <3>1, <3>2
  <2>2. QED
    BY <2>1 DEF StillFresh
<1>11. Rooted'
  BY <1>1, <1>2, <1>3, <1>4 DEF Rooted, old
<1>12. Unshared'
  <2>1. \A i \in DOMAIN binaries[p] : binaries[p][i].lib \in relocated[p]
    BY <1>1, <1>2 DEF LoopBehind
  <2>2. ASSUME NEW q \in Proc, NEW r \in Proc, NEW i \in DOMAIN binaries'[q],
               NEW j \in DOMAIN binaries'[r], binaries'[q][i].lib \notin relocated'[q],
               binaries'[r][j].seg = binaries'[q][i].seg
        PROVE  q = r
    <3>1. old(q) = old(r)
      BY <2>2, <1>1, <1>4 DEF Unshared
    <3>2. old(q) # p
      BY <2>1, <2>2, <1>4
    <3>3. QED
      BY <3>1, <3>2 DEF old
  <2>3. QED
    BY <2>2 DEF Unshared
<1>13. AddressesMapped'
  <2>1. \A q \in Proc : MappedBy(q)' = MappedBy(old(q))
    BY <1>4 DEF MappedBy
  <2>2. ASSUME NEW q \in Proc, NEW i \in DOMAIN binaries'[q],
               NEW w \in DOMAIN seg'[binaries'[q][i].seg],
               seg'[binaries'[q][i].seg][w].is = "addr"
        PROVE  seg'[binaries'[q][i].seg][w].of \in MappedBy(q)'
    <3>1. old(q) \in Proc /\ binaries'[q] = binaries[old(q)] /\ seg' = seg
      BY <1>2, <1>4
    <3>2. seg[binaries[old(q)][i].seg][w].of \in MappedBy(old(q))
      BY <2>2, <3>1, <1>1 DEF AddressesMapped
    <3>3. QED
      BY <2>1, <3>1, <3>2
  <2>3. QED
    BY <2>2 DEF AddressesMapped
<1>14. CopiesInitial'
  <2>1. ASSUME NEW q \in Proc, NEW v, NEW s, CopyOf(old(q), v, s)  PROVE CopyOf(q, v, s)'
    <3>1. Sources(q, s)' = Sources(old(q), s)
      BY <1>2, <1>4 DEF Sources
    <3>2. QED
      BY <2>1, <3>1, <1>2, <1>4 DEF CopyOf, Stored, Content
  <2>2. QED
    BY <2>1, <1>1, <1>4 DEF CopiesInitial
<1>15. QED
  BY <1>5, <1>6, <1>7, <1>8, <1>9, <1>10, <1>11, <1>12, <1>13, <1>14 DEF DataInv, Structure

\* A library is mapped, as it is in the file, where nobody has anything.
LEMMA DlopenKeeps ==
  ASSUME DataInv, NEW p \in Proc, NEW l \in Lib, Dlopen(p, l)
  PROVE  DataInv' /\ \A k \in DOMAIN seg : seg'[k] = seg[k]
<1> DEFINE b == [lib |-> l, seg |-> Len(seg) + 1]
           n == Len(binaries[p]) + 1
<1>1. Structure /\ ImageTypes /\ Rooted /\ MapsFile /\ OneEach /\ LoopBehind /\ MainFirst
      /\ AddressesMapped /\ Unshared /\ StillFresh /\ CopiesInitial /\ RunFirst
  BY DEF DataInv, Structure
<1>2. /\ p \in live /\ reloc_i[p] = 0 /\ live' = live /\ relocated' = relocated /\ linked' = linked
      /\ binaries' = [binaries EXCEPT ![p] = Append(@, b)]
      /\ seg' = Append(seg, Fresh(l))
      /\ reloc_i' = [reloc_i EXCEPT ![p] = 1]
  BY DEF Dlopen
<1>3. /\ seg \in Seq(Segment) /\ Len(seg) \in Nat /\ DOMAIN seg = 1..Len(seg)
      /\ binaries[p] \in Seq(Mapping) /\ Len(binaries[p]) \in Nat
      /\ DOMAIN binaries[p] = 1..Len(binaries[p]) /\ binaries[p] # <<>>
  BY <1>1, <1>2 DEF ImageTypes, Rooted
<1>4. b \in Mapping /\ b.lib = l /\ b.seg = Len(seg) + 1 /\ b.seg \notin DOMAIN seg /\ n \notin DOMAIN binaries[p]
  BY <1>3 DEF Mapping
<1>5. Fresh(l) \in Contents(l) /\ Fresh(l) \in Segment
  BY ImageWords DEF Segment
<1>6. /\ seg' \in Seq(Segment) /\ DOMAIN seg' = DOMAIN seg \cup {b.seg}
      /\ seg'[b.seg] = Fresh(l) /\ \A k \in DOMAIN seg : seg'[k] = seg[k]
  BY <1>2, <1>3, <1>5
<1> HIDE DEF b
<1>7. /\ binaries'[p] \in Seq(Mapping) /\ DOMAIN binaries'[p] = DOMAIN binaries[p] \cup {n}
      /\ binaries'[p][n] = b /\ Len(binaries'[p]) = n
      /\ \A j \in DOMAIN binaries[p] : binaries'[p][j] = binaries[p][j]
  <2>1. binaries'[p] = Append(binaries[p], b)
    BY <1>1, <1>2 DEF ImageTypes
  <2>2. QED
    BY <2>1, <1>3, <1>4
<1>8. \A q \in Proc : q # p => binaries'[q] = binaries[q]
  BY <1>1, <1>2 DEF ImageTypes
<1> HIDE DEF n
<1>9. \A q \in Proc : /\ DOMAIN binaries'[q] = DOMAIN binaries[q] \cup (IF q = p THEN {n} ELSE {})
                      /\ \A j \in DOMAIN binaries[q] : /\ binaries'[q][j] = binaries[q][j]
                                                       /\ binaries[q][j].seg \in DOMAIN seg
  BY <1>1, <1>7, <1>8, MappingFacts
<1>10. ASSUME NEW q \in Proc, NEW j \in DOMAIN binaries'[q]
       PROVE  \/ j \in DOMAIN binaries[q] /\ binaries'[q][j] = binaries[q][j]
                 /\ binaries[q][j].seg \in DOMAIN seg /\ binaries'[q][j].seg # b.seg
              \/ q = p /\ j = n /\ binaries'[q][j] = b
  BY <1>4, <1>7, <1>9
<1>11. ImageTypes'
  <2>1. \A q \in Proc : binaries'[q] \in Seq(Mapping)
    BY <1>1, <1>7, <1>8 DEF ImageTypes
  <2>2. binaries' \in [Proc -> Seq(Mapping)]
    BY <2>1, <1>1, <1>2 DEF ImageTypes
  <2>3. reloc_i' \in [Proc -> Nat]
    BY <1>1, <1>2 DEF ImageTypes
  <2>4. QED
    BY <2>2, <2>3, <1>1, <1>2, <1>6 DEF ImageTypes
<1>12. Rooted'
  <2>1. binaries'[p] # <<>>
    BY <1>7
  <2>2. \A q \in Proc : q # p => reloc_i'[q] = reloc_i[q]
    BY <1>1, <1>2 DEF ImageTypes
  <2>3. QED
    BY <2>1, <2>2, <1>1, <1>2, <1>8 DEF Rooted
<1>13. MapsFile'
  <2>1. ASSUME NEW q \in Proc, NEW j \in DOMAIN binaries'[q]
        PROVE  /\ binaries'[q][j].seg \in DOMAIN seg'
               /\ seg'[binaries'[q][j].seg] \in Contents(binaries'[q][j].lib)
    <3>1. CASE j \in DOMAIN binaries[q]
      BY <3>1, <1>1, <1>6, <1>9 DEF MapsFile
    <3>2. CASE q = p /\ j = n
      BY <3>2, <1>4, <1>5, <1>6, <1>7
    <3>3. QED
      BY <3>1, <3>2, <1>10
  <2>2. QED
    BY <2>1 DEF MapsFile
<1>14. OneEach'
  BY <1>1, <1>10 DEF OneEach
<1>15. LoopBehind'
  <2>1. reloc_i'[p] = 1 /\ \A q \in Proc : q # p => reloc_i'[q] = reloc_i[q]
    BY <1>1, <1>2 DEF ImageTypes
  <2>2. \A j \in DOMAIN binaries'[p] : ~(j < 1)
    BY <1>3, <1>7 DEF n
  <2>3. QED
    BY <2>1, <2>2, <1>1, <1>2, <1>8 DEF LoopBehind
<1>16. \A q \in Proc : binaries[q] # <<>> =>
         1 \in DOMAIN binaries[q] /\ binaries'[q][1] = binaries[q][1] /\ binaries[q][1].seg \in DOMAIN seg
  <2>1. \A q \in Proc : binaries[q] # <<>> => 1 \in DOMAIN binaries[q]
    BY <1>1 DEF ImageTypes
  <2>2. QED
    BY <2>1, <1>9
<1>17. \A q \in Proc : binaries'[q] # <<>> => binaries[q] # <<>>
  BY <1>3, <1>8
<1>18. MainFirst' /\ RunFirst'
  <2>1. binaries[p][1].lib \in relocated[p]
    BY <1>1, <1>2, <1>3, <1>16 DEF LoopBehind
  <2>2. linked \in Nat /\ linked <= Len(binaries'[p])
    BY <1>1, <1>3, <1>7 DEF ImageTypes, RunFirst, n
  <2>3. RunFirst'
    BY <2>1, <2>2, <1>1, <1>2, <1>8, <1>16, <1>17 DEF RunFirst
  <2>4. QED
    BY <2>3, <1>1, <1>2, <1>16, <1>17 DEF MainFirst
<1>19. Unshared'
  <2>1. ASSUME NEW q \in Proc, NEW r \in Proc, NEW i \in DOMAIN binaries'[q],
               NEW j \in DOMAIN binaries'[r], binaries'[q][i].lib \notin relocated[q],
               binaries'[r][j].seg = binaries'[q][i].seg
        PROVE  q = r
    <3>1. CASE i \in DOMAIN binaries[q] /\ j \in DOMAIN binaries[r]
      BY <2>1, <3>1, <1>1, <1>9 DEF Unshared
    <3>2. CASE q = p /\ i = n /\ r = p
      BY <3>2
    <3>3. CASE binaries'[q][i] = b /\ r # p
      BY <2>1, <3>3, <1>10
    <3>4. CASE binaries'[r][j] = b /\ q # p
      BY <2>1, <3>4, <1>10
    <3>5. QED
      BY <3>1, <3>2, <3>3, <3>4, <1>10
  <2>2. QED
    BY <2>1, <1>2 DEF Unshared
<1>20. StillFresh'
  <2>1. ASSUME NEW q \in Proc, NEW j \in DOMAIN binaries'[q], binaries'[q][j].lib \notin relocated[q]
        PROVE  seg'[binaries'[q][j].seg] = Fresh(binaries'[q][j].lib)
    <3>1. CASE j \in DOMAIN binaries[q]
      BY <2>1, <3>1, <1>1, <1>6, <1>9 DEF StillFresh
    <3>2. CASE q = p /\ j = n
      BY <3>2, <1>4, <1>6, <1>7
    <3>3. QED
      BY <3>1, <3>2, <1>10
  <2>2. QED
    BY <2>1, <1>2 DEF StillFresh
<1>21. AddressesMapped'
  <2>1. ASSUME NEW q \in Proc, NEW j \in DOMAIN binaries'[q], NEW v \in DOMAIN seg'[binaries'[q][j].seg],
               seg'[binaries'[q][j].seg][v].is = "addr"
        PROVE  seg'[binaries'[q][j].seg][v].of \in MappedBy(q)'
    <3>1. CASE j \in DOMAIN binaries[q]
      <4>1. /\ binaries'[q][j].seg = binaries[q][j].seg
            /\ seg'[binaries'[q][j].seg] = seg[binaries[q][j].seg]
        BY <3>1, <1>6, <1>9
      <4>2. seg[binaries[q][j].seg][v].of \in MappedBy(q)
        BY <2>1, <3>1, <4>1, <1>1 DEF AddressesMapped
      <4>3. MappedBy(q) \subseteq MappedBy(q)'
        BY <1>9 DEF MappedBy
      <4>4. QED
        BY <4>1, <4>2, <4>3
    <3>2. CASE q = p /\ j = n
      BY <2>1, <3>2, <1>4, <1>6, <1>7 DEF Fresh, Content
    <3>3. QED
      BY <3>1, <3>2, <1>10
  <2>2. QED
    BY <2>1 DEF AddressesMapped
<1>22. CopiesInitial'
  <2>1. ASSUME NEW q \in Proc, binaries[q] # <<>>, NEW v, NEW s, CopyOf(q, v, s)
        PROVE  CopyOf(q, v, s)'
    <3>1. linked \in Nat /\ 2..linked \subseteq DOMAIN binaries[q]
      BY <2>1, <1>1 DEF ImageTypes, RunFirst
    <3>2. \A j \in 2..linked : binaries'[q][j] = binaries[q][j]
      BY <3>1, <1>9
    <3>3. Sources(q, s)' = Sources(q, s)
      BY <3>2, <1>2 DEF Sources
    <3>4. Sources(q, s) # {} => Min(Sources(q, s)) \in 2..linked
      <4>1. Sources(q, s) \subseteq Nat /\ Sources(q, s) \subseteq 2..linked
        BY <3>1 DEF Sources
      <4>2. QED
        BY <4>1, LeastOf
    <3>5. binaries'[q][1] = binaries[q][1] /\ seg'[binaries[q][1].seg] = seg[binaries[q][1].seg]
      BY <2>1, <1>6, <1>16
    <3>6. QED
      BY <2>1, <3>2, <3>3, <3>4, <3>5, <1>2 DEF CopyOf, Stored, Content
  <2>2. QED
    BY <2>1, <1>1, <1>2, <1>16, <1>17 DEF CopiesInitial
<1>23. QED
  BY <1>6, <1>11, <1>12, <1>13, <1>14, <1>15, <1>18, <1>19, <1>20, <1>21, <1>22 DEF DataInv, Structure

-----------------------------------------------------------------------------
\* Every step preserves the invariant and undoes no store.
LEMMA DataInvStep ==
  ASSUME DataInv, [Next]_vars
  PROVE  /\ DataInv'
         /\ \A k \in DOMAIN seg : \A w \in DOMAIN seg[k] :
              seg[k][w].is = "data" => seg'[k][w].is = "data"
<1>1. Structure /\ ImageTypes /\ LoopBehind /\ Rooted
  BY DEF DataInv, Structure
<1>2. ASSUME NEW p \in Proc, SkipRelocated(p)  PROVE DataInv' /\ seg' = seg
  <2>1. /\ p \in live /\ reloc_i[p] \in DOMAIN binaries[p] /\ reloc_i[p] \in Nat /\ reloc_i[p] # 0
        /\ binaries[p][reloc_i[p]].lib \in relocated[p]
    BY <1>1, <1>2 DEF ImageTypes, SkipRelocated, Looping, IsRelocated, At
  <2>2. PICK n \in Nat : n = reloc_i[p] + 1
    BY <2>1
  <2>3. \A i \in DOMAIN binaries[p] : n = 0 \/ i < n => binaries[p][i].lib \in relocated[p]
    <3>1. \A i \in DOMAIN binaries[p] : i \in Nat
      BY <1>1, MappingFacts
    <3>2. \A i \in DOMAIN binaries[p] : n = 0 \/ i < n => i < reloc_i[p] \/ i = reloc_i[p]
      BY <2>1, <2>2, <3>1
    <3>3. QED
      BY <2>1, <3>2, <1>1 DEF LoopBehind
  <2>4. /\ binaries' = binaries /\ relocated' = relocated /\ seg' = seg /\ live' \subseteq live
        /\ linked' = linked /\ reloc_i' = [reloc_i EXCEPT ![p] = n]
    BY <1>2, <2>2 DEF SkipRelocated
  <2>5. QED
    BY <2>1, <2>3, <2>4, MovesOn
<1>3. ASSUME NEW p \in Proc, RelocateDone(p)  PROVE DataInv' /\ seg' = seg
  <2>1. /\ p \in live /\ reloc_i[p] = Len(binaries[p]) + 1
        /\ binaries' = binaries /\ relocated' = relocated /\ seg' = seg /\ live' \subseteq live
        /\ linked' = linked /\ reloc_i' = [reloc_i EXCEPT ![p] = 0]
    BY <1>3 DEF RelocateDone
  <2>2. \A i \in DOMAIN binaries[p] : i < reloc_i[p]
    BY <2>1, <1>1, MappingFacts
  <2>3. \A i \in DOMAIN binaries[p] : binaries[p][i].lib \in relocated[p]
    BY <2>2, <1>1 DEF LoopBehind
  <2>4. QED
    BY <2>1, <2>3, MovesOn
<1>4. ASSUME NEW p \in Proc, Ends(p)  PROVE DataInv' /\ seg' = seg
  <2>1. /\ p \in live /\ binaries' = binaries /\ relocated' = relocated /\ seg' = seg
        /\ live' \subseteq live /\ reloc_i' = reloc_i /\ linked' = linked
    BY <1>4 DEF Ends
  <2>2. PICK n \in Nat : n = reloc_i[p]
    BY <1>1 DEF ImageTypes
  <2>3. reloc_i' = [reloc_i EXCEPT ![p] = n]
    BY <2>1, <2>2, <1>1 DEF ImageTypes
  <2>4. QED
    BY <2>1, <2>2, <2>3, <1>1, MovesOn DEF LoopBehind
<1>5. ASSUME NEW p \in Proc, NEW i \in DOMAIN binaries[p], NEW w \in DOMAIN Image[binaries[p][i].lib],
             Store(p, i, w)
      PROVE  /\ DataInv'
             /\ \A k \in DOMAIN seg : \A v \in DOMAIN seg[k] :
                  seg[k][v].is = "data" => seg'[k][v].is = "data"
  <2>1. DataInv'
    BY <1>5, StoreKeeps
  <2>2. binaries[p][i].seg \in DOMAIN seg /\ w \in DOMAIN seg[binaries[p][i].seg]
    BY <1>1, MappingFacts DEF Contents
  <2>3. seg' = [seg EXCEPT ![binaries[p][i].seg][w] = Stored]
    BY <1>5 DEF Store
  <2>4. \A k \in DOMAIN seg : \A v \in DOMAIN seg[k] : seg'[k][v] = seg[k][v] \/ seg'[k][v] = Stored
    BY <2>2, <2>3
  <2>5. QED
    BY <2>1, <2>4 DEF Stored
<1>6. ASSUME NEW p \in Proc, NEW l \in Opened, Dlopen(p, l)
      PROVE  DataInv' /\ \A k \in DOMAIN seg : seg'[k] = seg[k]
  <2>1. l \in Lib
    BY ImageAssumption
  <2>2. QED
    BY <1>6, <2>1, DlopenKeeps
<1>7. ASSUME NEW p \in Proc, NEW c \in Proc, Fork(p, c)  PROVE DataInv' /\ seg' = seg
  BY <1>7, ForkKeeps DEF Fork
<1>8. CASE UNCHANGED vars
  <2>1. /\ binaries' = binaries /\ relocated' = relocated /\ seg' = seg
        /\ live' = live /\ reloc_i' = reloc_i /\ linked' = linked
    BY <1>8 DEF vars
  <2>2. \A q, w, s : CopyOf(q, w, s)' <=> CopyOf(q, w, s)
    BY <2>1 DEF CopyOf, Sources
  <2>3. Structure'
    BY <1>1, <2>1 DEF Structure, ImageTypes, Rooted, MapsFile, OneEach, LoopBehind, MainFirst,
                        RunFirst
  <2>4. Unshared' /\ StillFresh'
    BY <2>1 DEF DataInv, Unshared, StillFresh
  <2>5. AddressesMapped'
    BY <2>1 DEF DataInv, AddressesMapped, MappedBy
  <2>6. CopiesInitial'
    BY <2>1, <2>2 DEF DataInv, CopiesInitial
  <2>7. QED
    BY <2>1, <2>3, <2>4, <2>5, <2>6 DEF DataInv
<1>9. ASSUME NEW p \in Proc, RelocateBinary(p)
      PROVE  /\ DataInv'
             /\ \A k \in DOMAIN seg : seg'[k] = seg[k] \/ \A w \in DOMAIN seg[k] : seg[k][w].is = "file"
  BY <1>9, RelocateKeeps
<1>10. QED
  BY <1>2, <1>3, <1>4, <1>5, <1>6, <1>7, <1>8, <1>9 DEF Next

\* Relocate, fork, dlopen and stores keep DataInv.
THEOREM DataInvariant == Spec => []DataInv
<1>1. DataInv /\ [Next]_vars => DataInv'
  BY DataInvStep
<1>2. QED
  BY <1>1, DataInvInit, PTL DEF Spec

\* No process sees an address that leads into a binary it has not mapped.
THEOREM SlotsAreMapped == Spec => []SlotsMapped
<1>1. DataInv => SlotsMapped
  <2> SUFFICES ASSUME DataInv, NEW p \in live, NEW k \in MappedBy(p), NEW w \in DOMAIN seg[k],
                      seg[k][w].is = "addr"
               PROVE  seg[k][w].of \in MappedBy(p)
    BY DEF SlotsMapped
  <2>1. p \in Proc
    BY DEF DataInv, Structure, ImageTypes
  <2>2. PICK i \in DOMAIN binaries[p] : k = binaries[p][i].seg
    BY DEF MappedBy
  <2>3. QED
    BY <2>1, <2>2 DEF DataInv, AddressesMapped
<1>2. QED
  BY <1>1, DataInvariant, PTL

\* No step of the loader, in whichever process, undoes a store of the loadee.
THEOREM StoresAreKept == Spec => StoresKept
<1> DEFINE Kept == \A k \in DOMAIN seg : \A w \in DOMAIN seg[k] :
                     seg[k][w].is = "data" => seg'[k][w].is = "data"
<1>1. DataInv /\ [Next]_vars => [Kept]_vars
  BY DataInvStep
<1>2. Spec => [][Kept]_vars
  BY <1>1, DataInvariant, PTL DEF Spec
<1>3. QED
  BY <1>2 DEF StoresKept

\* The program's copy of a variable holds, until it is stored into, what is in the
\* file of the first library of Run that defines it, pointers included, or in the
\* program's own file if SearchSym came to a weak symbol.
THEOREM CopiesAreInitial == Spec => []CopyInitial
<1>1. DataInv => CopyInitial
  <2> SUFFICES ASSUME DataInv, NEW p \in live, binaries[p][1].lib \in relocated[p],
                      NEW w \in DOMAIN Image[binaries[p][1].lib],
                      NEW s \in Image[binaries[p][1].lib][w].sym,
                      Image[binaries[p][1].lib][w].rel = "COPY"
               PROVE  CopyOf(p, w, s)
    BY DEF CopyInitial, CopyOf
  <2>1. p \in Proc /\ binaries[p] # <<>>
    BY DEF DataInv, Structure, ImageTypes, Rooted
  <2>2. QED
    BY <2>1 DEF DataInv, CopiesInitial
<1>2. QED
  BY <1>1, DataInvariant, PTL

=============================================================================
