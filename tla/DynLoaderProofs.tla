-------------------------- MODULE DynLoaderProofs --------------------------
(***************************************************************************)
(* Proofs about DynLoader, for every file system, every set of files and   *)
(* every number of calls of dlopen; at the end, that DynLoader implements  *)
(* LinkMap: the initial states map to initial states, and every step of    *)
(* the loader or the loadee to one of LinkMap or to none.                  *)
(***************************************************************************)
EXTENDS LinkMapRefinement, TLAPS, WellFoundedInduction, SequenceTheorems, FiniteSetTheorems

-----------------------------------------------------------------------------
\* A non-empty set of natural numbers has a least element, and Min is it.
LEMMA MinNat ==
  ASSUME NEW S \in SUBSET Nat, S # {}
  PROVE  Min(S) \in S /\ \A y \in S : Min(S) <= y
<1>1. PICK x \in S : \A y \in S : ~(<<y, x>> \in OpToRel(<, Nat))
  BY NatLessThanWellFounded, WFMin, Zenon
<1>2. \A y \in S : x <= y
  <2>1. SUFFICES ASSUME NEW y \in S  PROVE x <= y
    OBVIOUS
  <2>2. ~(y < x)
    BY <1>1, Zenon DEF OpToRel
  <2>3. QED
    BY <2>2
<1>3. QED
  BY <1>2 DEF Min

\* FindLibrary returns files.
LEMMA FindLibraryFiles ==
  ASSUME NEW n \in Name, NEW runpath, NEW rpath
  PROVE  FindLibrary(n, runpath, rpath) \subseteq File
<1>1. \A d : Hits(n, d) \subseteq File
  BY DEF Hits
<1>2. Absolute[n] \subseteq File
  BY SearchAssumption
<1>3. QED
  BY <1>1, <1>2, Zenon DEF FindLibrary

\* A search in a link map returns an address or NotFound.
LEMMA SearchSymType ==
  ASSUME NEW bins, Len(bins) \in Nat, NEW s, NEW first \in Nat
  PROVE  SearchSym(bins, s, first) \in Value
<1>1. Defining(bins, s, first) \in SUBSET Nat
  BY DEF Defining
<1>2. WeakIn(bins, s, first) \in SUBSET Nat
  BY DEF WeakIn
<1>3. CASE Defining(bins, s, first) # {}
  <2>1. Min(Defining(bins, s, first)) \in Nat
    BY <1>1, <1>3, MinNat
  <2>2. QED
    BY <2>1, <1>3 DEF SearchSym, Value
<1>4. CASE Defining(bins, s, first) = {} /\ WeakIn(bins, s, first) # {}
  <2>1. Min(WeakIn(bins, s, first)) \in Nat
    BY <1>2, <1>4, MinNat
  <2>2. QED
    BY <2>1, <1>4 DEF SearchSym, Value
<1>5. CASE Defining(bins, s, first) = {} /\ WeakIn(bins, s, first) = {}
  BY <1>5 DEF SearchSym, Value, NotFound
<1>6. QED
  BY <1>3, <1>4, <1>5

\* What Relocate writes is an address or NotFound.
LEMMA SlotType ==
  ASSUME NEW bins, Len(bins) \in Nat, NEW i \in Nat, NEW r \in Rela
  PROVE  Slot(bins, i, r) \in Value
<1>1. ResolveBind(bins, r.sym) \in Value
  BY SearchSymType DEF ResolveBind, LibcAddr, Value
<1>2. ResolveCopy(bins, r.sym) \in Value
  <2>1. SearchSym(bins, r.sym, 2).bin \in Nat
    BY SearchSymType DEF Value
  <2>2. QED
    BY <2>1 DEF ResolveCopy, LibcAddr, Value, NotFound
<1>3. TLSSymOffset(bins, r.sym) \in Value
  <2>1. TlsIn(bins, r.sym) \in SUBSET Nat
    BY DEF TlsIn
  <2>2. CASE TlsIn(bins, r.sym) # {}
    <3>1. Min(TlsIn(bins, r.sym)) \in Nat
      BY <2>1, <2>2, MinNat
    <3>2. QED
      BY <3>1, <2>2 DEF TLSSymOffset, Value
  <2>3. CASE TlsIn(bins, r.sym) = {}
    BY <2>3 DEF TLSSymOffset, Value, NotFound
  <2>4. QED
    BY <2>2, <2>3
<1>4. QED
  BY <1>1, <1>2, <1>3 DEF Slot, Value, NotFound

\* The queue entries of the k-th binary.
LEMMA NeedsType ==
  ASSUME elf \in [File -> Elf], NEW f \in File, NEW B, NEW k \in B
  PROVE  Needs(f, k) \in Seq([name : Name, by : B])
<1> DEFINE q == elf[f].needed
           R == [name : Name, by : B]
<1>1. q \in Seq(Name)
  BY DEF Elf
<1>2. Len(q) \in Nat /\ DOMAIN q = 1..Len(q) /\ \A j \in DOMAIN q : q[j] \in Name
  BY <1>1
<1>3. Needs(f, k) \in [1..Len(q) -> R]
  BY <1>2 DEF Needs
<1>4. Needs(f, k) \in Seq(R)
  <2> HIDE DEF q, R
  <2>1. QED
    BY <1>2, <1>3, SeqDef
<1>5. QED
  BY <1>4

\* A binary is added to the link map by LoadRoot and by LoadNeeded: what was
\* right for the shorter link map is right for the longer.
LEMMA GrowType ==
  ASSUME TypeOK, NEW f \in File, NEW n \in Name, NEW k \in Nat,
         binaries' = Append(binaries, [file |-> f, as |-> n, by |-> k]),
         UNCHANGED <<elf, slots, reloc_i, init_i, inits>>
  PROVE  /\ binaries' \in Seq([file : File, as : Name, by : Nat])
         /\ Len(binaries') = Len(binaries) + 1
         /\ \A i \in 1..Len(binaries) : binaries'[i] = binaries[i]
         /\ reloc_i' \in 0..Len(binaries') + 1
         /\ DOMAIN slots' \subseteq 1..Len(binaries')
         /\ \A i \in DOMAIN slots' : slots'[i] \in [elf'[binaries'[i].file].rela -> Value]
         /\ init_i' \in 0..Len(binaries')
         /\ inits' \in Seq(1..Len(binaries'))
<1> USE DEF TypeOK
<1>1. binaries' \in Seq([file : File, as : Name, by : Nat])
  OBVIOUS
<1>2. Len(binaries') = Len(binaries) + 1 /\ Len(binaries) \in Nat
  OBVIOUS
<1>3. \A i \in 1..Len(binaries) : binaries'[i] = binaries[i]
  OBVIOUS
<1>4. \A i \in DOMAIN slots' : slots'[i] \in [elf'[binaries'[i].file].rela -> Value]
  BY <1>3
<1>5. inits' \in Seq(1..Len(binaries'))
  <2>1. 1..Len(binaries) \subseteq 1..Len(binaries')
    BY <1>2
  <2>2. QED
    BY <2>1, SeqMonotonic
<1>6. QED
  BY <1>1, <1>2, <1>3, <1>4, <1>5

\* The files on disk have the fields that ELFBinary reads.
LEMMA ElfType ==
  ASSUME TypeOK
  PROVE  elf \in [File -> Elf]
  BY LoaderAssumption DEF TypeOK

\* The types hold at the start.
LEMMA TypeInit == Init => TypeOK
<1> SUFFICES ASSUME Init  PROVE TypeOK
  OBVIOUS
<1>1. Len(binaries) = 0
  BY DEF Init
<1>2. QED
  BY <1>1, LoaderAssumption DEF Init, TypeOK, Loading, Loadee

\* LoadRoot and everything around it keep the types.
LEMMA TypeLoadRoot ==
  ASSUME TypeOK, NEW f \in File, LoadRoot(f), caller' \in {"Run"} \cup Loadee,
         opens' \in 0..MaxDlopen, caller' = "ctor" => init_i > 0,
         UNCHANGED <<elf, relocated, reloc_i, slots, init_i, inits, handed>>
  PROVE  TypeOK'
<1>1. FileName[f] \in Name
  BY SearchAssumption
<1>2. /\ binaries' \in Seq([file : File, as : Name, by : Nat])
      /\ Len(binaries') = Len(binaries) + 1
      /\ reloc_i' \in 0..Len(binaries') + 1
      /\ DOMAIN slots' \subseteq 1..Len(binaries')
      /\ \A i \in DOMAIN slots' : slots'[i] \in [elf'[binaries'[i].file].rela -> Value]
      /\ init_i' \in 0..Len(binaries')
      /\ inits' \in Seq(1..Len(binaries'))
  BY <1>1, GrowType DEF LoadRoot
<1>3. queue' \in Seq([name : Name, by : 1..Len(binaries')])
  <2>1. Len(binaries) \in Nat
    BY DEF TypeOK
  <2>2. Len(binaries) + 1 \in 1..Len(binaries')
    BY <1>2, <2>1
  <2>3. QED
    BY <2>2, ElfType, NeedsType DEF LoadRoot
<1>4. QED
  BY <1>1, <1>2, <1>3 DEF TypeOK, LoadRoot, Loading

\* A library found for the first entry of the queue keeps the types.
LEMMA TypeLoadNeeded ==
  ASSUME TypeOK, LoadNeeded
  PROVE  TypeOK'
<1> DEFINE e == Head(queue)
           Q == [name : Name, by : 1..Len(binaries)]
           R == [name : Name, by : 1..Len(binaries')]
<1>1. queue \in Seq(Q) /\ queue # <<>> /\ Len(binaries) \in Nat
  BY DEF TypeOK, LoadNeeded
<1>2. e \in Q /\ Tail(queue) \in Seq(Q)
  BY <1>1, HeadTailProperties, Zenon
<1>3. PICK f \in Found(e) :
        /\ binaries' = Append(binaries, [file |-> f, as |-> e.name, by |-> e.by])
        /\ queue' = Tail(queue) \o Needs(f, Len(binaries) + 1)
  BY DEF LoadNeeded
<1>4. f \in File
  BY <1>2, <1>3, FindLibraryFiles DEF Found
<1>5. /\ binaries' \in Seq([file : File, as : Name, by : Nat])
      /\ Len(binaries') = Len(binaries) + 1
      /\ reloc_i' \in 0..Len(binaries') + 1
      /\ DOMAIN slots' \subseteq 1..Len(binaries')
      /\ \A i \in DOMAIN slots' : slots'[i] \in [elf'[binaries'[i].file].rela -> Value]
      /\ init_i' \in 0..Len(binaries')
      /\ inits' \in Seq(1..Len(binaries'))
  <2>1. e.name \in Name /\ e.by \in Nat
    BY <1>1, <1>2
  <2>2. UNCHANGED <<elf, slots, reloc_i, init_i, inits>>
    BY DEF LoadNeeded
  <2>3. QED
    BY <1>3, <1>4, <2>1, <2>2, GrowType
<1>6. queue' \in Seq(R)
  <2>1. Q \subseteq R /\ Len(binaries) + 1 \in 1..Len(binaries')
    BY <1>1, <1>5
  <2>2. Tail(queue) \in Seq(R)
    BY <1>2, <2>1, SeqMonotonic
  <2>3. Needs(f, Len(binaries) + 1) \in Seq(R)
    BY <1>4, <2>1, ElfType, NeedsType
  <2>4. QED
    BY <1>3, <2>2, <2>3, ConcatProperties
<1>7. loaded' \subseteq Name
  BY <1>2 DEF TypeOK, LoadNeeded
<1>8. QED
  BY <1>5, <1>6, <1>7 DEF TypeOK, LoadNeeded

\* Every step keeps the types.
LEMMA TypeStep == TypeOK /\ [Next]_vars => TypeOK'
<1> SUFFICES ASSUME TypeOK, [Next]_vars  PROVE TypeOK'
  OBVIOUS
<1> USE DEF Loading, Loadee
<1>1. ASSUME Die  PROVE TypeOK'
  BY <1>1 DEF Die, TypeOK
<1>2. CASE LoadMain
  <2>1. /\ caller' \in {"Run"} \cup Loadee /\ opens' \in 0..MaxDlopen
        /\ caller' = "ctor" => init_i > 0
    BY <1>2 DEF LoadMain, TypeOK
  <2>2. QED
    BY <1>2, <2>1, LoaderAssumption, TypeLoadRoot DEF LoadMain
<1>3. CASE SkipLoaded
  <2>1. queue' \in Seq([name : Name, by : 1..Len(binaries)])
    BY <1>3, HeadTailProperties, Zenon DEF SkipLoaded, TypeOK
  <2>2. QED
    BY <1>3, <2>1 DEF SkipLoaded, TypeOK
<1>4. CASE SkipLibc
  <2>1. queue' \in Seq([name : Name, by : 1..Len(binaries)])
    BY <1>4, HeadTailProperties, Zenon DEF SkipLibc, TypeOK
  <2>2. loaded' \subseteq Name
    BY <1>4, LoaderAssumption DEF SkipLibc, TypeOK
  <2>3. QED
    BY <1>4, <2>1, <2>2 DEF SkipLibc, TypeOK
<1>5. CASE LoadNeeded
  BY <1>5, TypeLoadNeeded
<1>6. CASE LibraryNotFound \/ LoadFails \/ RelocationFails \/ ExecuteFails
  BY <1>1, <1>6 DEF LibraryNotFound, LoadFails, RelocationFails, ExecuteFails
<1>7. CASE SearchDone
  BY <1>7 DEF SearchDone, TypeOK
<1>8. CASE SkipRelocated
  BY <1>8 DEF SkipRelocated, TypeOK
<1>9. CASE RelocateBinary
  <2> DEFINE f == binaries[reloc_i].file
             w == [r \in elf[f].rela |-> Slot(binaries, reloc_i, r)]
  <2>1. reloc_i \in 1..Len(binaries) /\ Len(binaries) \in Nat
    BY <1>9 DEF RelocateBinary, TypeOK
  <2>2. f \in File
    <3>1. binaries[reloc_i] \in [file : File, as : Name, by : Nat]
      BY <2>1, ElementOfSeq DEF TypeOK
    <3>2. QED
      BY <3>1
  <2>3. elf[f].rela \subseteq Rela
    BY <2>2, ElfType DEF Elf
  <2>4. w \in [elf[f].rela -> Value]
    BY <2>1, <2>3, SlotType
  <2>5. \A i \in DOMAIN slots' : slots'[i] \in [elf[binaries[i].file].rela -> Value]
    BY <1>9, <2>4 DEF RelocateBinary, TypeOK
  <2>6. DOMAIN slots' \subseteq 1..Len(binaries)
    BY <1>9, <2>1 DEF RelocateBinary, TypeOK
  <2>7. relocated' \subseteq File
    BY <1>9, <2>2 DEF RelocateBinary, TypeOK
  <2>8. reloc_i' \in 0..Len(binaries) + 1 /\ reloc_i' > 0
    BY <1>9, <2>1 DEF RelocateBinary
  <2>9. QED
    BY <1>9, <2>5, <2>6, <2>7, <2>8 DEF RelocateBinary, TypeOK
<1>10. CASE RelocateDone
  BY <1>10 DEF RelocateDone, TypeOK
<1>11. CASE SkipInit
  BY <1>11 DEF SkipInit, TypeOK
<1>12. CASE CallCtor
  BY <1>12 DEF CallCtor, TypeOK
<1>13. CASE CtorReturns
  BY <1>13 DEF CtorReturns, TypeOK
<1>14. CASE Enter
  BY <1>14 DEF Enter, TypeOK
<1>15. CASE \E n \in Name : Dlopen(n)
  <2>1. PICK n \in Name : Dlopen(n)
    BY <1>15
  <2>2. PICK f \in FindLibrary(n, <<>>, <<>>) : LoadRoot(f)
    BY <2>1 DEF Dlopen
  <2>3. f \in File
    BY <2>2, FindLibraryFiles
  <2>4. /\ caller' \in {"Run"} \cup Loadee /\ opens' \in 0..MaxDlopen
        /\ caller' = "ctor" => init_i > 0
    BY <2>1, LoaderAssumption DEF Dlopen, TypeOK
  <2>5. QED
    BY <2>1, <2>2, <2>3, <2>4, TypeLoadRoot DEF Dlopen
<1>16. CASE (\E n \in Name : DlopenFails(n)) \/ (\E s \in Sym : DlsymFails(s))
  BY <1>1, <1>16 DEF DlopenFails, DlsymFails
<1>17. CASE \E s \in Sym : Dlsym(s)
  <2>1. PICK s \in Sym : Dlsym(s)
    BY <1>17
  <2>2. SearchSym(binaries, s, 1) \in Value
    <3>1. Len(binaries) \in Nat
      BY DEF TypeOK
    <3>2. QED
      BY <3>1, SearchSymType
  <2>3. handed' \subseteq [sym : Sym, val : Value]
    BY <2>1, <2>2 DEF Dlsym, TypeOK
  <2>4. QED
    BY <2>1, <2>3 DEF Dlsym, TypeOK
<1>18. CASE Exit
  BY <1>18 DEF Exit, TypeOK
<1>19. CASE UNCHANGED vars
  BY <1>19 DEF vars, TypeOK
<1>20. QED
  BY <1>2, <1>3, <1>4, <1>5, <1>6, <1>7, <1>8, <1>9, <1>10, <1>11, <1>12, <1>13,
     <1>14, <1>15, <1>16, <1>17, <1>18, <1>19
  DEF Next, LoaderStep, LoadeeStep

\* Type correctness of the loader: the entries of the queue, the slots and the
\* constructor calls refer to binaries of the link map, for every file system.
THEOREM TypeCorrect == Spec => []TypeOK
<1>1. Init => TypeOK
  BY TypeInit
<1>2. TypeOK /\ [Next]_vars => TypeOK'
  BY TypeStep
<1>3. QED
  BY <1>1, <1>2, PTL DEF Spec

-----------------------------------------------------------------------------
\* What LoadDependingLibs keeps true: the parts of LoadInv about names.
NamesInv == NamesLoaded /\ LoadedMapped /\ NeedsPending /\ LoadedOnce

\* What Relocate keeps true whatever pc is.
PathsInv == SlotsByPath /\ SlotsFirst

\* The facts about a longer link map that the next lemmas need.
LEMMA GrowLinkMap ==
  ASSUME TypeOK, NEW b \in [file : File, as : Name, by : Nat],
         binaries' = Append(binaries, b)
  PROVE  /\ Len(binaries) \in Nat
         /\ DOMAIN binaries = 1..Len(binaries)
         /\ DOMAIN binaries' = 1..Len(binaries) + 1
         /\ \A i \in 1..Len(binaries) : binaries'[i] = binaries[i]
         /\ binaries'[Len(binaries) + 1] = b
  BY DEF TypeOK

\* A binary is added under a name that becomes loaded; nothing is dropped from
\* the queue but that name, and what the binary needs is queued.
LEMMA GrowNames ==
  ASSUME TypeOK, NamesInv, NEW f \in File, NEW n \in Name, NEW k \in Nat,
         binaries' = Append(binaries, [file |-> f, as |-> n, by |-> k]),
         elf' = elf,
         loaded' = loaded \cup {n},
         \A q \in DOMAIN queue : \/ queue[q].name = n
                                 \/ \E p \in DOMAIN queue' : queue'[p].name = queue[q].name,
         \A j \in DOMAIN elf[f].needed :
           \E p \in DOMAIN queue' : queue'[p].name = elf[f].needed[j],
         k = 0 \/ n \notin loaded
  PROVE  NamesInv'
<1> DEFINE L == Len(binaries)
           b == [file |-> f, as |-> n, by |-> k]
<1>1. /\ L \in Nat /\ DOMAIN binaries = 1..L /\ DOMAIN binaries' = 1..L + 1
      /\ \A i \in 1..L : binaries'[i] = binaries[i]
      /\ binaries'[L + 1] = b
  BY GrowLinkMap
<1> HIDE DEF L
<1>2. b.file = f /\ b.as = n /\ b.by = k
  OBVIOUS
<1>3. NamesLoaded'
  BY <1>1, <1>2 DEF NamesInv, NamesLoaded
<1>4. LoadedMapped'
  <2>1. SUFFICES ASSUME NEW m \in loaded', m \notin Skip
                 PROVE  \E j \in DOMAIN binaries' : binaries'[j].as = m
    BY DEF LoadedMapped
  <2>2. CASE m = n
    BY <2>2, <1>1, <1>2
  <2>3. CASE m \in loaded
    <3>1. PICK j \in DOMAIN binaries : binaries[j].as = m
      BY <2>1, <2>3 DEF NamesInv, LoadedMapped
    <3>2. QED
      BY <3>1, <1>1
  <2>4. QED
    BY <2>2, <2>3
<1>5. NeedsPending'
  <2>1. SUFFICES ASSUME NEW i \in DOMAIN binaries',
                        NEW j \in DOMAIN elf'[binaries'[i].file].needed
                 PROVE  \/ elf'[binaries'[i].file].needed[j] \in loaded'
                        \/ \E p \in DOMAIN queue' :
                             queue'[p].name = elf'[binaries'[i].file].needed[j]
    BY Zenon DEF NeedsPending
  <2>2. CASE i = L + 1
    BY <2>2, <1>1, <1>2
  <2>3. CASE i \in 1..L
    <3>1. binaries'[i] = binaries[i] /\ i \in DOMAIN binaries
      BY <2>3, <1>1
    <3>2. \/ elf[binaries[i].file].needed[j] \in loaded
          \/ \E q \in DOMAIN queue : queue[q].name = elf[binaries[i].file].needed[j]
      BY <3>1 DEF NamesInv, NeedsPending
    <3>3. QED
      BY <3>1, <3>2
  <2>4. QED
    BY <2>2, <2>3, <1>1
<1>6. LoadedOnce'
  <2>1. SUFFICES ASSUME NEW i \in DOMAIN binaries', NEW j \in DOMAIN binaries',
                        i < j, binaries'[i].as = binaries'[j].as
                 PROVE  binaries'[j].by = 0
    BY DEF LoadedOnce
  <2>2. i \in 1..L /\ binaries'[i] = binaries[i]
    BY <2>1, <1>1
  <2>3. CASE j \in 1..L
    BY <2>1, <2>2, <2>3, <1>1 DEF NamesInv, LoadedOnce
  <2>4. CASE j = L + 1
    <3>1. n \in loaded
      BY <2>1, <2>2, <2>4, <1>1, <1>2 DEF NamesInv, NamesLoaded
    <3>2. QED
      BY <3>1, <2>4, <1>1, <1>2
  <2>5. QED
    BY <2>3, <2>4, <1>1
<1>7. QED
  BY <1>3, <1>4, <1>5, <1>6 DEF NamesInv

\* A longer link map does not disturb what Relocate knows.
LEMMA GrowPaths ==
  ASSUME TypeOK, PathsInv, NEW b \in [file : File, as : Name, by : Nat],
         binaries' = Append(binaries, b), UNCHANGED <<slots, relocated>>
  PROVE  PathsInv'
<1>1. \A i \in 1..Len(binaries) : binaries'[i] = binaries[i]
  BY GrowLinkMap
<1>2. DOMAIN slots \subseteq 1..Len(binaries) /\ Len(binaries) \in Nat
  BY DEF TypeOK
<1>3. SlotsByPath'
  BY <1>1, <1>2 DEF PathsInv, SlotsByPath
<1>4. SlotsFirst'
  <2>1. SUFFICES ASSUME NEW j \in DOMAIN slots, NEW i \in 1..j - 1
                 PROVE  binaries'[i].file # binaries'[j].file
    BY DEF SlotsFirst
  <2>2. i \in 1..Len(binaries) /\ j \in 1..Len(binaries)
    BY <1>2
  <2>3. QED
    BY <1>1, <2>2 DEF PathsInv, SlotsFirst
<1>5. QED
  BY <1>3, <1>4 DEF PathsInv

\* The elements of Tail(q) \o t.
LEMMA PopAppend ==
  ASSUME NEW R, NEW q \in Seq(R), q # <<>>, NEW t \in Seq(R)
  PROVE  /\ Len(q) \in Nat /\ Len(q) > 0 /\ Len(t) \in Nat
         /\ DOMAIN q = 1..Len(q) /\ DOMAIN t = 1..Len(t) /\ Head(q) = q[1]
         /\ DOMAIN (Tail(q) \o t) = 1..Len(q) - 1 + Len(t)
         /\ \A k \in 1..Len(q) - 1 : (Tail(q) \o t)[k] = q[k + 1]
         /\ \A j \in 1..Len(t) : (Tail(q) \o t)[Len(q) - 1 + j] = t[j]
<1> DEFINE u == Tail(q)
<1>1. /\ u \in Seq(R) /\ Len(q) \in Nat /\ Len(q) > 0 /\ Len(u) = Len(q) - 1
      /\ DOMAIN q = 1..Len(q) /\ Len(t) \in Nat /\ DOMAIN t = 1..Len(t)
      /\ Head(q) = q[1] /\ \A k \in 1..Len(u) : u[k] = q[k + 1]
  OBVIOUS
<1> HIDE DEF u
<1>2. /\ u \o t \in Seq(R) /\ Len(u \o t) = Len(u) + Len(t)
      /\ \A k \in 1..Len(u) + Len(t) :
           (u \o t)[k] = IF k <= Len(u) THEN u[k] ELSE t[k - Len(u)]
  BY <1>1, ConcatProperties
<1>3. DOMAIN (u \o t) = 1..Len(u) + Len(t)
  BY <1>2
<1>4. ASSUME NEW j \in 1..Len(t)
      PROVE  (u \o t)[Len(u) + j] = t[j]
  <2>1. /\ Len(u) + j \in 1..Len(u) + Len(t)
        /\ ~(Len(u) + j <= Len(u)) /\ Len(u) + j - Len(u) = j
    BY <1>1
  <2>2. QED
    BY <1>2, <2>1
<1>5. \A k \in 1..Len(u) : (u \o t)[k] = q[k + 1]
  BY <1>1, <1>2
<1>6. QED
  BY <1>1, <1>3, <1>4, <1>5 DEF u

\* Taking the first entry from the queue leaves the others ...
LEMMA PopKeeps ==
  ASSUME NEW R, NEW q \in Seq(R), q # <<>>, NEW t \in Seq(R),
         NEW k \in DOMAIN q, q[k] # Head(q)
  PROVE  \E p \in DOMAIN (Tail(q) \o t) : (Tail(q) \o t)[p] = q[k]
<1>1. /\ Len(q) \in Nat /\ Len(t) \in Nat /\ k \in 1..Len(q) /\ k # 1
      /\ DOMAIN (Tail(q) \o t) = 1..Len(q) - 1 + Len(t)
      /\ \A i \in 1..Len(q) - 1 : (Tail(q) \o t)[i] = q[i + 1]
  BY PopAppend
<1>2. k - 1 \in 1..Len(q) - 1 /\ k - 1 \in DOMAIN (Tail(q) \o t) /\ (k - 1) + 1 = k
  BY <1>1
<1>3. QED
  BY <1>1, <1>2

\* ... and those that are appended are there.
LEMMA PopAdds ==
  ASSUME NEW R, NEW q \in Seq(R), q # <<>>, NEW t \in Seq(R), NEW j \in DOMAIN t
  PROVE  \E p \in DOMAIN (Tail(q) \o t) : (Tail(q) \o t)[p] = t[j]
<1>1. /\ Len(q) \in Nat /\ Len(q) > 0 /\ Len(t) \in Nat /\ j \in 1..Len(t)
      /\ DOMAIN (Tail(q) \o t) = 1..Len(q) - 1 + Len(t)
      /\ (Tail(q) \o t)[Len(q) - 1 + j] = t[j]
  BY PopAppend
<1>2. Len(q) - 1 + j \in DOMAIN (Tail(q) \o t)
  BY <1>1
<1>3. QED
  BY <1>1, <1>2

\* LoadRoot, with nothing left in the queue of an earlier call.
LEMMA RootInv ==
  ASSUME LoadInv, TypeOK', pc \notin {"search", "dead"}, NEW f \in File, LoadRoot(f),
         UNCHANGED <<elf, slots, relocated>>
  PROVE  LoadInv'
<1> DEFINE b == [file |-> f, as |-> FileName[f], by |-> 0]
<1>1. FileName[f] \in Name /\ queue = <<>>
  BY SearchAssumption DEF LoadInv, QueueLocal
<1>2. DOMAIN queue = {}
  BY <1>1
<1>3. \A j \in DOMAIN elf[f].needed :
        \E p \in DOMAIN queue' : queue'[p].name = elf[f].needed[j]
  BY DEF LoadRoot, Needs
<1>4. NamesInv'
  <2>1. NamesInv /\ TypeOK
    BY DEF LoadInv, NamesInv
  <2>2. binaries' = Append(binaries, b) /\ loaded' = loaded \cup {FileName[f]}
    BY DEF LoadRoot
  <2>3. QED
    BY <1>1, <1>2, <1>3, <2>1, <2>2, GrowNames
<1>5. PathsInv'
  <2>1. b \in [file : File, as : Name, by : Nat] /\ binaries' = Append(binaries, b)
    BY <1>1 DEF LoadRoot
  <2>2. PathsInv /\ TypeOK
    BY DEF LoadInv, PathsInv
  <2>3. QED
    BY <2>1, <2>2, GrowPaths
<1>6. pc' = "search"
  BY DEF LoadRoot
<1>7. QueueLocal' /\ RelocBehind' /\ RelocatedBeforeUse'
  BY <1>6 DEF QueueLocal, RelocBehind, RelocatedBeforeUse, Loadee
<1>8. QED
  BY <1>4, <1>5, <1>7 DEF LoadInv, NamesInv, PathsInv

\* One more library that a DT_NEEDED entry asks for.
LEMMA NeededInv ==
  ASSUME LoadInv, TypeOK', LoadNeeded
  PROVE  LoadInv'
<1> DEFINE e == Head(queue)
           Q == [name : Name, by : 1..Len(binaries')]
<1>1. PICK f \in Found(e) :
        /\ binaries' = Append(binaries, [file |-> f, as |-> e.name, by |-> e.by])
        /\ queue' = Tail(queue) \o Needs(f, Len(binaries) + 1)
  BY DEF LoadNeeded
<1>2. /\ queue # <<>> /\ queue \in Seq([name : Name, by : 1..Len(binaries)])
      /\ Len(binaries) \in Nat
  BY DEF LoadInv, TypeOK, LoadNeeded
<1>3. e \in [name : Name, by : 1..Len(binaries)]
  BY <1>2, HeadTailProperties, Zenon
<1>4. f \in File /\ e.name \in Name /\ e.by \in Nat
  <2>1. e.name \in Name /\ e.by \in Nat
    BY <1>2, <1>3
  <2>2. QED
    BY <1>1, <2>1, FindLibraryFiles DEF Found
<1> DEFINE b == [file |-> f, as |-> e.name, by |-> e.by]
           t == Needs(f, Len(binaries) + 1)
<1>5. b \in [file : File, as : Name, by : Nat]
  BY <1>4
<1>6. queue \in Seq(Q) /\ t \in Seq(Q)
  <2>1. Len(binaries') = Len(binaries) + 1
    BY <1>1, <1>2 DEF LoadInv, TypeOK
  <2>2. [name : Name, by : 1..Len(binaries)] \subseteq Q /\ Len(binaries) + 1 \in 1..Len(binaries')
    BY <1>2, <2>1
  <2>3. queue \in Seq(Q)
    BY <1>2, <2>2, SeqMonotonic
  <2>4. t \in Seq(Q)
    BY <1>4, <2>2, ElfType, NeedsType DEF LoadInv
  <2>5. QED
    BY <2>3, <2>4
<1>7. /\ \A k \in DOMAIN queue : queue[k] = e \/ \E p \in DOMAIN queue' : queue'[p] = queue[k]
      /\ \A j \in DOMAIN t : \E p \in DOMAIN queue' : queue'[p] = t[j]
  <2>0. queue # <<>> /\ queue \in Seq(Q) /\ t \in Seq(Q)
    BY <1>2, <1>6
  <2>1. queue' = Tail(queue) \o t /\ e = Head(queue)
    BY <1>1
  <2> HIDE DEF Q, t, e
  <2>2. ASSUME NEW k \in DOMAIN queue, queue[k] # Head(queue)
        PROVE  \E p \in DOMAIN queue' : queue'[p] = queue[k]
    <3>1. \E p \in DOMAIN (Tail(queue) \o t) : (Tail(queue) \o t)[p] = queue[k]
      BY <2>0, <2>2, PopKeeps
    <3>2. QED
      BY <2>1, <3>1, Zenon
  <2>3. ASSUME NEW j \in DOMAIN t
        PROVE  \E p \in DOMAIN queue' : queue'[p] = t[j]
    <3>1. \E p \in DOMAIN (Tail(queue) \o t) : (Tail(queue) \o t)[p] = t[j]
      BY <2>0, <2>3, PopAdds
    <3>2. QED
      BY <2>1, <3>1, Zenon
  <2>4. QED
    BY <2>1, <2>2, <2>3
<1>8. \A j \in DOMAIN elf[f].needed :
        \E p \in DOMAIN queue' : queue'[p].name = elf[f].needed[j]
  <2>1. SUFFICES ASSUME NEW j \in DOMAIN elf[f].needed
                 PROVE  \E p \in DOMAIN queue' : queue'[p].name = elf[f].needed[j]
    OBVIOUS
  <2>2. j \in DOMAIN t /\ t[j].name = elf[f].needed[j]
    BY DEF Needs
  <2>3. QED
    BY <1>7, <2>2
<1>9. NamesInv'
  <2>1. NamesInv /\ TypeOK
    BY DEF LoadInv, NamesInv
  <2>2. binaries' = Append(binaries, b) /\ loaded' = loaded \cup {e.name} /\ elf' = elf
    BY <1>1 DEF LoadNeeded
  <2>3. e.name \notin loaded
    BY DEF LoadNeeded, IsLoaded
  <2>4. \A q \in DOMAIN queue : \/ queue[q].name = e.name
                                \/ \E p \in DOMAIN queue' : queue'[p].name = queue[q].name
    BY <1>7, Zenon
  <2>5. QED
    BY <1>4, <1>8, <2>1, <2>2, <2>3, <2>4, GrowNames
<1>10. PathsInv'
  <2>1. PathsInv /\ TypeOK /\ UNCHANGED <<slots, relocated>>
    BY DEF LoadInv, PathsInv, LoadNeeded
  <2>2. QED
    BY <1>1, <1>5, <2>1, GrowPaths
<1>11. pc' = "search"
  BY DEF LoadNeeded
<1>12. QueueLocal' /\ RelocBehind' /\ RelocatedBeforeUse'
  BY <1>11 DEF QueueLocal, RelocBehind, RelocatedBeforeUse, Loadee
<1>13. QED
  BY <1>9, <1>10, <1>12 DEF LoadInv, NamesInv, PathsInv

\* The first entry of the queue goes and its name is, or becomes, loaded.
LEMMA PopNames ==
  ASSUME TypeOK, NamesInv, queue # <<>>, queue' = Tail(queue),
         UNCHANGED <<elf, binaries>>,
         loaded' = loaded \cup {Head(queue).name},
         Head(queue).name \in loaded \cup Skip
  PROVE  NamesInv'
<1> DEFINE Q == [name : Name, by : 1..Len(binaries)]
<1>1. queue \in Seq(Q)
  BY DEF TypeOK
<1>2. ASSUME NEW k \in DOMAIN queue, queue[k] # Head(queue)
      PROVE  \E p \in DOMAIN queue' : queue'[p] = queue[k]
  <2> HIDE DEF Q
  <2>1. Tail(queue) \in Seq(Q) /\ <<>> \in Seq(Q) /\ Tail(queue) \o <<>> = Tail(queue)
    BY <1>1
  <2>2. \E p \in DOMAIN (Tail(queue) \o <<>>) : (Tail(queue) \o <<>>)[p] = queue[k]
    BY <1>1, <1>2, <2>1, PopKeeps, Zenon
  <2>3. QED
    BY <2>1, <2>2, Zenon
<1>3. NamesLoaded' /\ LoadedMapped' /\ LoadedOnce'
  BY DEF NamesInv, NamesLoaded, LoadedMapped, LoadedOnce
<1>4. NeedsPending'
  <2>1. SUFFICES ASSUME NEW i \in DOMAIN binaries', NEW j \in DOMAIN elf'[binaries'[i].file].needed
                 PROVE  \/ elf'[binaries'[i].file].needed[j] \in loaded'
                        \/ \E p \in DOMAIN queue' :
                             queue'[p].name = elf'[binaries'[i].file].needed[j]
    BY Zenon DEF NeedsPending
  <2>2. \/ elf[binaries[i].file].needed[j] \in loaded
        \/ \E q \in DOMAIN queue : queue[q].name = elf[binaries[i].file].needed[j]
    BY DEF NamesInv, NeedsPending
  <2>3. QED
    BY <1>2, <2>2
<1>5. QED
  BY <1>3, <1>4 DEF NamesInv

\* The invariant holds at the start.
LEMMA InvInit == Init => LoadInv
<1> SUFFICES ASSUME Init  PROVE LoadInv
  OBVIOUS
<1>1. TypeOK
  BY TypeInit
<1>2. binaries = <<>> /\ loaded = {} /\ queue = <<>> /\ relocated = {} /\ slots = <<>>
      /\ pc = "start"
  BY DEF Init
<1>3. DOMAIN binaries = {} /\ DOMAIN slots = {}
  BY <1>2
<1>4. QueueLocal /\ NamesLoaded /\ LoadedMapped /\ NeedsPending /\ LoadedOnce
  BY <1>2, <1>3 DEF QueueLocal, NamesLoaded, LoadedMapped, NeedsPending, LoadedOnce
<1>5. SlotsByPath /\ SlotsFirst /\ RelocBehind /\ RelocatedBeforeUse
  BY <1>2, <1>3 DEF SlotsByPath, SlotsFirst, RelocBehind, RelocatedBeforeUse, Loadee
<1>6. QED
  BY <1>1, <1>4, <1>5 DEF LoadInv

\* One binary is relocated: the first of its path, as all before it are done.
LEMMA RelocateInv ==
  ASSUME LoadInv, TypeOK', RelocateBinary
  PROVE  LoadInv'
<1> DEFINE f == binaries[reloc_i].file
<1>1. /\ pc = "relocate" /\ reloc_i \in 1..Len(binaries) /\ Len(binaries) \in Nat
      /\ f \notin relocated /\ relocated' = relocated \cup {f}
      /\ DOMAIN slots' = DOMAIN slots \cup {reloc_i} /\ reloc_i' = reloc_i + 1
  BY DEF LoadInv, TypeOK, RelocateBinary, IsRelocated
<1>2. UNCHANGED <<elf, pc, binaries, loaded, queue>>
  BY DEF RelocateBinary
<1>3. QueueLocal' /\ NamesLoaded' /\ LoadedMapped' /\ NeedsPending' /\ LoadedOnce'
  BY <1>2 DEF LoadInv, QueueLocal, NamesLoaded, LoadedMapped, NeedsPending, LoadedOnce
<1>4. SlotsByPath'
  BY <1>1, <1>2 DEF LoadInv, SlotsByPath
<1>5. RelocBehind'
  <2>1. \A i \in 1..reloc_i - 1 : binaries[i].file \in relocated
    BY <1>1 DEF LoadInv, RelocBehind
  <2>2. \A i \in 1..reloc_i' - 1 : binaries[i].file \in relocated'
    BY <1>1, <2>1
  <2>3. QED
    BY <1>2, <2>2 DEF RelocBehind
<1>6. SlotsFirst'
  <2>1. \A i \in 1..reloc_i - 1 : binaries[i].file # f
    BY <1>1 DEF LoadInv, RelocBehind
  <2>2. QED
    BY <1>1, <1>2, <2>1 DEF LoadInv, SlotsFirst
<1>7. RelocatedBeforeUse'
  BY <1>1, <1>2 DEF RelocatedBeforeUse, Loadee
<1>8. QED
  BY <1>3, <1>4, <1>5, <1>6, <1>7 DEF LoadInv

\* Relocate returns with every binary of the link map behind it.
LEMMA RelocateDoneInv ==
  ASSUME LoadInv, TypeOK', RelocateDone
  PROVE  LoadInv'
<1>1. /\ pc = "relocate" /\ reloc_i = Len(binaries) + 1 /\ Len(binaries) \in Nat
      /\ DOMAIN binaries = 1..Len(binaries)
      /\ pc' \in {"init"} \cup Loadee
      /\ DOMAIN slots \subseteq 1..Len(binaries)
  BY DEF LoadInv, TypeOK, RelocateDone
<1>2. UNCHANGED <<elf, binaries, loaded, queue, relocated, slots, reloc_i>>
  BY DEF RelocateDone
<1>3. NamesLoaded' /\ LoadedMapped' /\ NeedsPending' /\ LoadedOnce' /\ SlotsByPath' /\ SlotsFirst'
  BY <1>2 DEF LoadInv, NamesLoaded, LoadedMapped, NeedsPending, LoadedOnce, SlotsByPath, SlotsFirst
<1>4. QueueLocal' /\ RelocBehind'
  BY <1>1, <1>2 DEF LoadInv, QueueLocal, RelocBehind, Loadee
<1>5. ASSUME NEW i \in DOMAIN binaries
      PROVE  \E j \in DOMAIN slots : j <= i /\ binaries[j].file = binaries[i].file
  <2>1. binaries[i].file \in relocated
    BY <1>1 DEF LoadInv, RelocBehind
  <2>2. PICK j \in DOMAIN slots : binaries[j].file = binaries[i].file
    BY <2>1 DEF LoadInv, SlotsByPath
  <2>3. ~(i < j)
    <3>1. SUFFICES ASSUME i < j  PROVE FALSE
      OBVIOUS
    <3>2. i \in 1..j - 1
      BY <1>1, <3>1
    <3>3. QED
      BY <2>2, <3>2 DEF LoadInv, SlotsFirst
  <2>4. QED
    BY <1>1, <2>2, <2>3
<1>6. RelocatedBeforeUse'
  BY <1>2, <1>5 DEF RelocatedBeforeUse
<1>7. QED
  BY <1>3, <1>4, <1>6 DEF LoadInv

\* Each step preserves the invariant.
LEMMA InvStep == LoadInv /\ [Next]_vars => LoadInv'
<1> SUFFICES ASSUME LoadInv, [Next]_vars  PROVE LoadInv'
  OBVIOUS
<1>0. TypeOK /\ TypeOK'
  BY TypeStep DEF LoadInv
<1> DEFINE Same == UNCHANGED <<elf, binaries, loaded, queue, relocated, slots>>
\* A step that touches neither names nor slots: only what pc promises counts.
<1>1. ASSUME Same, QueueLocal', RelocBehind', RelocatedBeforeUse'
      PROVE  LoadInv'
  BY <1>0, <1>1 DEF LoadInv, NamesLoaded, LoadedMapped, NeedsPending, LoadedOnce,
                    SlotsByPath, SlotsFirst
<1>2. ASSUME Same, pc' = "dead"  PROVE LoadInv'
  BY <1>1, <1>2 DEF QueueLocal, RelocBehind, RelocatedBeforeUse, Loadee
<1>3. ASSUME Same, pc \in {"init"} \cup Loadee,
             pc' \in {"init", "exited"} \cup Loadee
      PROVE  LoadInv'
  <2>1. QueueLocal' /\ RelocBehind'
    BY <1>3 DEF LoadInv, QueueLocal, RelocBehind, Loadee
  <2>2. RelocatedBeforeUse'
    BY <1>3 DEF LoadInv, RelocatedBeforeUse
  <2>3. QED
    BY <1>1, <1>3, <2>1, <2>2
<1>4. CASE LoadMain
  BY <1>0, <1>4, LoaderAssumption, RootInv DEF LoadMain
<1>5. ASSUME SkipLoaded \/ SkipLibc  PROVE LoadInv'
  <2>1. /\ queue # <<>> /\ queue' = Tail(queue) /\ pc = "search"
        /\ loaded' = loaded \cup {Head(queue).name}
        /\ Head(queue).name \in loaded \cup Skip
        /\ UNCHANGED <<elf, pc, binaries, relocated, slots>>
    BY <1>5 DEF SkipLoaded, SkipLibc, IsLoaded
  <2>2. NamesInv'
    BY <1>0, <2>1, PopNames DEF LoadInv, NamesInv
  <2>3. QueueLocal' /\ RelocBehind' /\ RelocatedBeforeUse' /\ SlotsByPath' /\ SlotsFirst'
    BY <2>1 DEF LoadInv, QueueLocal, RelocBehind, RelocatedBeforeUse, SlotsByPath,
                SlotsFirst, Loadee
  <2>4. QED
    BY <1>0, <2>2, <2>3 DEF LoadInv, NamesInv
<1>6. CASE LoadNeeded
  BY <1>0, <1>6, NeededInv
<1>7. ASSUME \/ LibraryNotFound \/ LoadFails \/ RelocationFails \/ ExecuteFails
             \/ \E n \in Name : DlopenFails(n)
             \/ \E s \in Sym : DlsymFails(s)
      PROVE  LoadInv'
  <2>1. Die
    BY <1>7 DEF LibraryNotFound, LoadFails, RelocationFails, ExecuteFails, DlopenFails,
                DlsymFails
  <2>2. QED
    BY <1>2, <2>1 DEF Die
<1>8. CASE SearchDone
  <2>1. Same /\ queue = <<>> /\ pc' = "relocate" /\ reloc_i' = 1
    BY <1>8 DEF SearchDone
  <2>2. QueueLocal' /\ RelocBehind' /\ RelocatedBeforeUse'
    BY <2>1 DEF QueueLocal, RelocBehind, RelocatedBeforeUse, Loadee
  <2>3. QED
    BY <1>1, <2>1, <2>2
<1>9. CASE SkipRelocated
  <2>1. /\ Same /\ pc = "relocate" /\ pc' = pc /\ reloc_i' = reloc_i + 1 /\ reloc_i \in Nat
        /\ binaries[reloc_i].file \in relocated
    BY <1>0, <1>9 DEF SkipRelocated, IsRelocated, TypeOK
  <2>2. \A i \in 1..reloc_i - 1 : binaries[i].file \in relocated
    BY <2>1 DEF LoadInv, RelocBehind
  <2>3. \A i \in 1..reloc_i' - 1 : binaries[i].file \in relocated
    BY <2>1, <2>2
  <2>4. QueueLocal' /\ RelocatedBeforeUse'
    BY <2>1 DEF LoadInv, QueueLocal, RelocatedBeforeUse, Loadee
  <2>5. QED
    BY <1>1, <2>1, <2>3, <2>4 DEF RelocBehind
<1>10. CASE RelocateBinary
  BY <1>0, <1>10, RelocateInv
<1>11. CASE RelocateDone
  BY <1>0, <1>11, RelocateDoneInv
<1>12. CASE SkipInit \/ CallCtor \/ CtorReturns \/ Enter \/ Exit
  BY <1>3, <1>12 DEF SkipInit, CallCtor, CtorReturns, Enter, Exit, Loadee
<1>13. CASE \E n \in Name : Dlopen(n)
  <2>1. PICK n \in Name : Dlopen(n)
    BY <1>13
  <2>2. PICK f \in FindLibrary(n, <<>>, <<>>) : LoadRoot(f)
    BY <2>1 DEF Dlopen
  <2>3. f \in File
    BY <2>2, FindLibraryFiles
  <2>4. pc \notin {"search", "dead"} /\ UNCHANGED <<elf, slots, relocated>>
    BY <2>1 DEF Dlopen, Loadee
  <2>5. QED
    BY <1>0, <2>2, <2>3, <2>4, RootInv
<1>14. CASE \E s \in Sym : Dlsym(s)
  <2>1. Same /\ pc \in Loadee /\ pc' = pc
    BY <1>14 DEF Dlsym
  <2>2. QED
    BY <1>3, <2>1
<1>15. CASE UNCHANGED vars
  <2>1. Same /\ pc' = pc /\ reloc_i' = reloc_i
    BY <1>15 DEF vars
  <2>2. QueueLocal' /\ RelocBehind' /\ RelocatedBeforeUse'
    BY <2>1 DEF LoadInv, QueueLocal, RelocBehind, RelocatedBeforeUse
  <2>3. QED
    BY <1>1, <2>1, <2>2
<1>16. QED
  BY <1>4, <1>5, <1>6, <1>7, <1>8, <1>9, <1>10, <1>11, <1>12, <1>13, <1>14, <1>15
  DEF Next, LoaderStep, LoadeeStep

\* LoadInv is an invariant, for every file system and number of dlopens.
THEOREM LoadInvariant == Spec => []LoadInv
<1>1. Init => LoadInv
  BY InvInit
<1>2. LoadInv /\ [Next]_vars => LoadInv'
  BY InvStep
<1>3. QED
  BY <1>1, <1>2, PTL DEF Spec

\* When the queue is empty what is needed is loaded, and what is loaded is
\* mapped or skipped.
LEMMA InvMapped == LoadInv => DependenciesMapped
<1>1. SUFFICES ASSUME LoadInv, Searched, NEW i \in DOMAIN binaries,
                      NEW k \in DOMAIN elf[binaries[i].file].needed
               PROVE  \/ elf[binaries[i].file].needed[k] \in Skip
                      \/ \E j \in DOMAIN binaries :
                           binaries[j].as = elf[binaries[i].file].needed[k]
  BY DEF DependenciesMapped
<1>2. queue = <<>> /\ DOMAIN <<>> = {}
  BY <1>1 DEF LoadInv, QueueLocal, Searched, Loadee
<1>3. elf[binaries[i].file].needed[k] \in loaded
  BY <1>1, <1>2 DEF LoadInv, NeedsPending
<1>4. QED
  BY <1>1, <1>3 DEF LoadInv, LoadedMapped

\* LoadDependingLibs maps all that is needed, cycles or not.
THEOREM DependenciesAreMapped == Spec => []DependenciesMapped
  BY InvMapped, LoadInvariant, PTL

\* No DT_NEEDED entry loads a name a second time, in any call of
\* LoadDependingLibs over the life of the process.
THEOREM NamesAreLoadedOnce == Spec => []LoadedOnce
<1>1. LoadInv => LoadedOnce
  BY DEF LoadInv
<1>2. QED
  BY <1>1, LoadInvariant, PTL

\* No code of the loadee runs while a file of the link map is not relocated.
THEOREM RelocationPrecedesUse == Spec => []RelocatedBeforeUse
<1>1. LoadInv => RelocatedBeforeUse
  BY DEF LoadInv
<1>2. QED
  BY <1>1, LoadInvariant, PTL

-----------------------------------------------------------------------------
\* Every step leaves binaries alone or appends one to it, on its own.
LEMMA LinkMapStep ==
  ASSUME TypeOK, [Next]_vars
  PROVE  \/ UNCHANGED binaries
         \/ /\ UNCHANGED <<slots, handed>>
            /\ \E b \in [file : File, as : Name, by : Nat] : binaries' = Append(binaries, b)
<1>1. ASSUME NEW f \in File, LoadRoot(f)
      PROVE  \E b \in [file : File, as : Name, by : Nat] : binaries' = Append(binaries, b)
  <2>1. [file |-> f, as |-> FileName[f], by |-> 0] \in [file : File, as : Name, by : Nat]
    BY SearchAssumption
  <2>2. QED
    BY <1>1, <2>1 DEF LoadRoot
<1>2. CASE LoadMain
  BY <1>1, <1>2, LoaderAssumption DEF LoadMain
<1>3. CASE LoadNeeded
  <2>1. PICK f \in Found(Head(queue)) :
          binaries' = Append(binaries, [file |-> f, as |-> Head(queue).name,
                                        by |-> Head(queue).by])
    BY <1>3 DEF LoadNeeded
  <2>2. Head(queue) \in [name : Name, by : 1..Len(binaries)]
    BY <1>3, HeadTailProperties, Zenon DEF LoadNeeded, TypeOK
  <2>3. Head(queue).name \in Name /\ Head(queue).by \in Nat
    BY <2>2
  <2>4. f \in File
    BY <2>1, <2>3, FindLibraryFiles DEF Found
  <2>5. QED
    BY <1>3, <2>1, <2>3, <2>4 DEF LoadNeeded
<1>4. CASE \E n \in Name : Dlopen(n)
  <2>1. PICK n \in Name : Dlopen(n)
    BY <1>4
  <2>2. PICK f \in FindLibrary(n, <<>>, <<>>) : LoadRoot(f)
    BY <2>1 DEF Dlopen
  <2>3. f \in File
    BY <2>2, FindLibraryFiles
  <2>4. QED
    BY <1>1, <2>1, <2>2, <2>3 DEF Dlopen
<1>5. CASE \/ SkipLoaded \/ SkipLibc \/ SearchDone \/ SkipRelocated \/ RelocateBinary
           \/ RelocateDone \/ SkipInit \/ CallCtor \/ Enter \/ CtorReturns \/ Exit
           \/ \E s \in Sym : Dlsym(s)
  BY <1>5 DEF SkipLoaded, SkipLibc, SearchDone, SkipRelocated, RelocateBinary,
              RelocateDone, SkipInit, CallCtor, Enter, CtorReturns, Exit, Dlsym
<1>6. CASE \/ LibraryNotFound \/ LoadFails \/ RelocationFails \/ ExecuteFails
           \/ \E n \in Name : DlopenFails(n)
           \/ \E s \in Sym : DlsymFails(s)
  <2>1. Die
    BY <1>6 DEF LibraryNotFound, LoadFails, RelocationFails, ExecuteFails, DlopenFails,
                DlsymFails
  <2>2. QED
    BY <2>1 DEF Die
<1>7. CASE UNCHANGED vars
  BY <1>7 DEF vars
<1>8. QED
  BY <1>2, <1>3, <1>4, <1>5, <1>6, <1>7 DEF Next, LoaderStep, LoadeeStep

\* Every step leaves slots and handed alone, or is RelocateBinary or Dlsym, and
\* none changes the files.
LEMMA SlotsStep ==
  ASSUME [Next]_vars
  PROVE  /\ elf' = elf
         /\ slots' = slots \/ (RelocateBinary /\ handed' = handed)
         /\ handed' = handed \/ \E s \in Sym : Dlsym(s)
<1>1. CASE \/ LibraryNotFound \/ LoadFails \/ RelocationFails \/ ExecuteFails
           \/ \E n \in Name : DlopenFails(n)
           \/ \E s \in Sym : DlsymFails(s)
  <2>1. Die
    BY <1>1 DEF LibraryNotFound, LoadFails, RelocationFails, ExecuteFails, DlopenFails,
                DlsymFails
  <2>2. QED
    BY <2>1 DEF Die
<1>2. CASE \/ LoadMain \/ LoadNeeded \/ SkipLoaded \/ SkipLibc \/ SearchDone
           \/ SkipRelocated \/ RelocateDone \/ SkipInit \/ CallCtor \/ Enter
           \/ CtorReturns \/ Exit \/ \E n \in Name : Dlopen(n)
  BY <1>2 DEF LoadMain, LoadNeeded, SkipLoaded, SkipLibc, SearchDone, SkipRelocated,
              RelocateDone, SkipInit, CallCtor, Enter, CtorReturns, Exit, Dlopen
<1>3. CASE RelocateBinary
  BY <1>3 DEF RelocateBinary
<1>4. CASE \E s \in Sym : Dlsym(s)
  BY <1>4 DEF Dlsym
<1>5. CASE UNCHANGED vars
  BY <1>5 DEF vars
<1>6. QED
  BY <1>1, <1>2, <1>3, <1>4, <1>5 DEF Next, LoaderStep, LoadeeStep

\* What the loadee was given stays: the link map is append-only and no slot is
\* written twice, because a binary with slots has its path in relocated.
THEOREM NothingIsRebound == Spec => NeverRebind
<1> DEFINE A == /\ \A i \in DOMAIN binaries :
                     i \in DOMAIN binaries' /\ binaries'[i] = binaries[i]
                /\ \A i \in DOMAIN slots :
                     i \in DOMAIN slots' /\ slots'[i] = slots[i]
<1>1. LoadInv /\ [Next]_vars => A
  <2> SUFFICES ASSUME LoadInv, [Next]_vars  PROVE A
    OBVIOUS
  <2>0. TypeOK
    BY DEF LoadInv
  <2>1. \A i \in DOMAIN binaries : i \in DOMAIN binaries' /\ binaries'[i] = binaries[i]
    <3>1. CASE UNCHANGED binaries
      BY <3>1
    <3>2. CASE \E b \in [file : File, as : Name, by : Nat] : binaries' = Append(binaries, b)
      <4>1. PICK b \in [file : File, as : Name, by : Nat] : binaries' = Append(binaries, b)
        BY <3>2
      <4>2. QED
        BY <2>0, <4>1, GrowLinkMap
    <3>3. QED
      BY <2>0, <3>1, <3>2, LinkMapStep
  <2>2. \A i \in DOMAIN slots : i \in DOMAIN slots' /\ slots'[i] = slots[i]
    <3>1. CASE slots' = slots
      BY <3>1
    <3>2. CASE RelocateBinary
      <4>1. binaries[reloc_i].file \notin relocated
        BY <3>2 DEF RelocateBinary, IsRelocated
      <4>2. reloc_i \notin DOMAIN slots
        BY <4>1 DEF LoadInv, SlotsByPath
      <4>3. QED
        BY <3>2, <4>2 DEF RelocateBinary
    <3>3. QED
      BY <3>1, <3>2, SlotsStep
  <2>3. QED
    BY <2>1, <2>2
<1>2. QED
  BY <1>1, LoadInvariant, PTL DEF Spec, NeverRebind

\* A search that finds a definition finds the same in a longer link map.
LEMMA SearchSymGrow ==
  ASSUME NEW b, NEW bins \in Seq([file : File, as : Name, by : Nat]), NEW s,
         NEW more, more = Append(bins, b), SearchSym(bins, s, 1).kind = "def"
  PROVE  SearchSym(more, s, 1) = SearchSym(bins, s, 1)
<1> DEFINE D == Defining(bins, s, 1)
           E == Defining(more, s, 1)
<1>1. /\ Len(bins) \in Nat /\ Len(more) = Len(bins) + 1
      /\ \A i \in 1..Len(bins) : more[i] = bins[i]
  OBVIOUS
<1>2. D \in SUBSET Nat /\ E \in SUBSET Nat
  BY <1>1 DEF Defining
<1>3. D # {}
  BY DEF SearchSym, NotFound
<1>4. D \subseteq E /\ \A y \in E : y \in D \/ y = Len(bins) + 1
  BY <1>1 DEF Defining
<1>5. \A y \in D : y <= Len(bins)
  BY <1>1 DEF Defining
<1> HIDE DEF D, E
<1>6. E # {}
  BY <1>3, <1>4
<1>7. Min(D) \in D /\ \A y \in D : Min(D) <= y
  BY <1>2, <1>3, MinNat
<1>8. Min(E) \in E /\ \A y \in E : Min(E) <= y
  BY <1>2, <1>6, MinNat
<1>9. Min(E) = Min(D)
  <2>1. Min(E) <= Min(D) /\ Min(D) <= Len(bins) /\ Min(D) \in Nat /\ Min(E) \in Nat
    BY <1>2, <1>4, <1>5, <1>7, <1>8
  <2>2. Min(E) \in D
    BY <1>1, <1>4, <1>8, <2>1
  <2>3. QED
    BY <1>7, <2>1, <2>2
<1>10. QED
  BY <1>3, <1>6, <1>9 DEF SearchSym, D, E

\* What is written for GLOB_DAT is found by SearchSym if it is a definition.
LEMMA SlotSearch ==
  ASSUME NEW bins, NEW i, NEW r, r.type = "GLOB_DAT", Slot(bins, i, r).kind = "def"
  PROVE  Slot(bins, i, r) = SearchSym(bins, r.sym, 1)
<1>1. Slot(bins, i, r) = ResolveBind(bins, r.sym)
  BY Zenon DEF Slot
<1>2. QED
  BY <1>1 DEF ResolveBind, LibcAddr

\* Every step preserves the agreement: a longer link map finds the old
\* definitions, and new references are found in the present one.
LEMMA ScopeStep == TypeOK /\ ScopeAgreement /\ [Next]_vars => ScopeAgreement'
<1> SUFFICES ASSUME TypeOK, ScopeAgreement, [Next]_vars  PROVE ScopeAgreement'
  OBVIOUS
<1>0. elf' = elf
  BY SlotsStep
\* A search in the next state, over the same files.
<1>1. \A s : SearchSym(binaries, s, 1)' = SearchSym(binaries', s, 1)
  BY <1>0 DEF SearchSym, Defining, WeakIn, NotFound
<1>2. ASSUME NEW s, SearchSym(binaries, s, 1).kind = "def"
      PROVE  SearchSym(binaries', s, 1) = SearchSym(binaries, s, 1)
  <2>1. CASE UNCHANGED binaries
    BY <2>1
  <2>2. CASE \E b \in [file : File, as : Name, by : Nat] : binaries' = Append(binaries, b)
    <3>1. PICK b \in [file : File, as : Name, by : Nat] : binaries' = Append(binaries, b)
      BY <2>2
    <3>2. binaries \in Seq([file : File, as : Name, by : Nat])
      BY DEF TypeOK
    <3>3. PICK bins, more : bins = binaries /\ more = binaries'
      OBVIOUS
    <3>4. /\ bins \in Seq([file : File, as : Name, by : Nat]) /\ more = Append(bins, b)
          /\ SearchSym(bins, s, 1).kind = "def"
      BY <1>2, <3>1, <3>2, <3>3, Zenon
    <3>5. SearchSym(more, s, 1) = SearchSym(bins, s, 1)
      BY <3>4, SearchSymGrow, ZenonT(40)
    <3>6. QED
      BY <3>3, <3>5, Zenon
  <2>3. QED
    BY <2>1, <2>2, LinkMapStep
<1>3. ASSUME NEW i \in DOMAIN slots', NEW r \in DOMAIN slots'[i],
             r.type = "GLOB_DAT", slots'[i][r].kind = "def"
      PROVE  slots'[i][r] = SearchSym(binaries', r.sym, 1)
  <2>1. CASE i \in DOMAIN slots /\ slots'[i] = slots[i]
    <3>1. slots[i][r] = SearchSym(binaries, r.sym, 1)
      BY <1>3, <2>1 DEF ScopeAgreement
    <3>2. QED
      BY <1>2, <1>3, <2>1, <3>1
  <2>2. CASE RelocateBinary /\ i = reloc_i
    <3>1. /\ slots'[i][r] = Slot(binaries, i, r)
          /\ binaries' = binaries
      BY <1>3, <2>2 DEF RelocateBinary
    <3>2. QED
      BY <1>3, <3>1, SlotSearch
  <2>3. CASE RelocateBinary /\ i # reloc_i
    BY <1>3, <2>1, <2>3 DEF RelocateBinary
  <2>4. QED
    BY <1>3, <2>1, <2>2, <2>3, SlotsStep
<1>4. ASSUME NEW h \in handed', h.val.kind = "def"
      PROVE  h.val = SearchSym(binaries', h.sym, 1)
  <2>1. CASE h \in handed
    <3>1. h.val = SearchSym(binaries, h.sym, 1)
      BY <1>4, <2>1 DEF ScopeAgreement
    <3>2. QED
      BY <1>2, <1>4, <3>1
  <2>2. CASE h \notin handed
    <3>1. PICK s \in Sym : Dlsym(s)
      BY <1>4, <2>2, SlotsStep
    <3>2. h = [sym |-> s, val |-> SearchSym(binaries, s, 1)] /\ binaries' = binaries
      BY <1>4, <2>2, <3>1 DEF Dlsym
    <3>3. QED
      BY <3>2
  <2>3. QED
    BY <2>1, <2>2
<1>5. QED
  BY <1>1, <1>3, <1>4 DEF ScopeAgreement

\* One name, one address, for every file system, every set of binaries and every
\* sequence of dlopen and dlsym.
THEOREM ScopesAgree == Spec => []ScopeAgreement
<1>1. Init => ScopeAgreement
  <2>1. SUFFICES ASSUME Init  PROVE ScopeAgreement
    OBVIOUS
  <2>2. DOMAIN slots = {} /\ handed = {}
    BY <2>1 DEF Init
  <2>3. QED
    BY <2>2 DEF ScopeAgreement
<1>2. TypeOK /\ ScopeAgreement /\ [Next]_vars => ScopeAgreement'
  BY ScopeStep
<1>3. QED
  BY <1>1, <1>2, TypeCorrect, PTL DEF Spec

-----------------------------------------------------------------------------
\* The binaries of Run: every one while there is no second root ...
LEMMA InitialGrows ==
  ASSUME TypeOK, NEW b \in [file : File, as : Name, by : Nat],
         binaries' = Append(binaries, b), Initial = DOMAIN binaries,
         b.by # 0 \/ binaries = <<>>
  PROVE  Initial' = DOMAIN binaries'
<1> DEFINE L == Len(binaries)
<1>1. /\ L \in Nat /\ DOMAIN binaries = 1..L /\ DOMAIN binaries' = 1..L + 1
      /\ \A i \in 1..L : binaries'[i] = binaries[i]
      /\ binaries'[L + 1] = b
  BY GrowLinkMap
<1>2. binaries = <<>> => L = 0
  OBVIOUS
<1> HIDE DEF L
<1>3. \A i \in 1..L : \A k \in 2..i : binaries[k].by # 0
  BY <1>1 DEF Initial
<1>4. ASSUME NEW i \in 1..L + 1, NEW k \in 2..i
      PROVE  binaries'[k].by # 0
  <2>1. CASE k \in 1..L
    <3>1. k \in 2..k
      BY <2>1
    <3>2. QED
      BY <2>1, <3>1, <1>1, <1>3
  <2>2. CASE k = L + 1
    BY <2>2, <1>1, <1>2
  <2>3. QED
    BY <2>1, <2>2, <1>1
<1>5. QED
  BY <1>1, <1>4 DEF Initial

\* ... and the same ones from the second root on.
LEMMA InitialStays ==
  ASSUME TypeOK, NEW b \in [file : File, as : Name, by : Nat],
         binaries' = Append(binaries, b),
         \/ b.by = 0 /\ Len(binaries) > 0
         \/ \E k \in 2..Len(binaries) : binaries[k].by = 0
  PROVE  Initial' = Initial
<1> DEFINE L == Len(binaries)
<1>1. /\ L \in Nat /\ DOMAIN binaries = 1..L /\ DOMAIN binaries' = 1..L + 1
      /\ \A i \in 1..L : binaries'[i] = binaries[i]
      /\ binaries'[L + 1] = b
  BY GrowLinkMap
<1>2. PICK k \in 2..L + 1 : binaries'[k].by = 0
  <2>1. CASE b.by = 0 /\ L > 0
    <3>1. L + 1 \in 2..L + 1
      BY <1>1, <2>1
    <3>2. QED
      BY <1>1, <2>1, <3>1
  <2>2. CASE \E k \in 2..L : binaries[k].by = 0
    BY <1>1, <2>2
  <2>3. QED
    BY <2>1, <2>2
<1> HIDE DEF L
<1>3. ASSUME NEW i \in 1..L
      PROVE  (\A m \in 2..i : binaries'[m].by # 0) <=> (\A m \in 2..i : binaries[m].by # 0)
  BY <1>1
<1>4. \A i \in Initial' : i # L + 1
  BY <1>1, <1>2 DEF Initial
<1>5. QED
  BY <1>1, <1>3, <1>4 DEF Initial

\* What CtorInv speaks of, pc apart.
CtorState == <<elf, caller, binaries, relocated, slots, init_i, inits>>

\* The invariant holds at the start.
LEMMA CtorInit == Init => CtorInv
<1> SUFFICES ASSUME Init  PROVE CtorInv
  OBVIOUS
<1>1. /\ binaries = <<>> /\ slots = <<>> /\ inits = <<>> /\ init_i = 0 /\ pc = "start"
      /\ caller = "Run" /\ Len(binaries) = 0 /\ DOMAIN binaries = {} /\ DOMAIN inits = {}
  BY DEF Init
<1>2. Initial = {}
  BY <1>1 DEF Initial
<1>3. MainFirst /\ ByEarlier /\ BootState /\ OneMoreRoot /\ InitialRelocated
  BY <1>1, <1>2 DEF MainFirst, ByEarlier, BootState, OneMoreRoot, InitialRelocated, Boot
<1>4. CtorsAhead /\ CtorsFall /\ CtorsRight /\ CtorsDone /\ LoopDone /\ InitChildFirst
  BY <1>1, <1>2 DEF CtorsAhead, CtorsFall, CtorsRight, CtorsDone, LoopDone, InitChildFirst,
                    Boot, During
<1>5. QED
  BY <1>3, <1>4 DEF CtorInv

\* A binary is added by LoadMain or, while Run loads, by LoadNeeded.
LEMMA CtorBootGrow ==
  ASSUME TypeOK, CtorInv, Boot, Boot', pc' = "search",
         NEW b \in [file : File, as : Name, by : Nat],
         binaries' = Append(binaries, b), b.by <= Len(binaries),
         UNCHANGED <<elf, slots, init_i, inits>>,
         \/ binaries # <<>> /\ b.by # 0
         \/ binaries = <<>> /\ b = [file |-> MainFile, as |-> FileName[MainFile], by |-> 0]
  PROVE  CtorInv'
<1> DEFINE L == Len(binaries)
<1>1. /\ L \in Nat /\ DOMAIN binaries = 1..L /\ DOMAIN binaries' = 1..L + 1
      /\ \A i \in 1..L : binaries'[i] = binaries[i]
      /\ binaries'[L + 1] = b /\ Len(binaries') = L + 1
  BY GrowLinkMap DEF TypeOK
<1>2. inits = <<>> /\ DOMAIN inits = {} /\ init_i = 0 /\ Initial = DOMAIN binaries
  BY DEF CtorInv, BootState
<1>3. Initial' = DOMAIN binaries'
  BY <1>2, InitialGrows
<1>4. MainFirst'
  <2>1. CASE binaries = <<>>
    <3>1. L = 0
      BY <2>1
    <3>2. QED
      BY <2>1, <3>1, <1>1 DEF MainFirst
  <2>2. CASE binaries # <<>>
    <3>1. L > 0
      BY <2>2, <1>1 DEF TypeOK
    <3>2. QED
      BY <3>1, <1>1 DEF CtorInv, MainFirst
  <2>3. QED
    BY <2>1, <2>2
<1>5. ByEarlier'
  <2>1. \A i \in 1..L : binaries[i].by < i
    BY <1>1 DEF CtorInv, ByEarlier
  <2>2. b.by < L + 1
    BY <1>1
  <2>3. QED
    BY <1>1, <2>1, <2>2 DEF ByEarlier
<1>6. BootState' /\ OneMoreRoot' /\ InitialRelocated'
  BY <1>2, <1>3 DEF BootState, OneMoreRoot, InitialRelocated
<1>7. CtorsAhead' /\ CtorsFall' /\ CtorsRight' /\ CtorsDone' /\ LoopDone' /\ InitChildFirst'
  BY <1>2 DEF CtorsAhead, CtorsFall, CtorsRight, CtorsDone, LoopDone, InitChildFirst, Boot
<1>8. QED
  BY <1>4, <1>5, <1>6, <1>7 DEF CtorInv

\* A binary is added in a call of dlopen: it is none of those of Run.
LEMMA CtorOpenGrow ==
  ASSUME TypeOK, CtorInv, ~Boot, ~Boot', ~Stopped, pc' = "search",
         NEW b \in [file : File, as : Name, by : Nat],
         binaries' = Append(binaries, b), b.by <= Len(binaries), Len(binaries) > 0,
         UNCHANGED <<elf, relocated, slots, init_i, inits>>,
         b.by = 0 \/ \E k \in 2..Len(binaries) : binaries[k].by = 0,
         \A p \in Loadee : During(p) <=> During(p)'
  PROVE  CtorInv'
<1> DEFINE L == Len(binaries)
<1>1. /\ L \in Nat /\ DOMAIN binaries = 1..L /\ DOMAIN binaries' = 1..L + 1
      /\ \A i \in 1..L : binaries'[i] = binaries[i]
      /\ binaries'[L + 1] = b /\ Len(binaries') = L + 1
  BY GrowLinkMap DEF TypeOK
<1>2. Initial' = Initial
  BY InitialStays
<1>3. Initial \subseteq 1..L /\ \A i \in Initial : binaries'[i] = binaries[i]
  BY <1>1 DEF Initial
<1>4. MainFirst'
  BY <1>1 DEF CtorInv, MainFirst
<1>5. ByEarlier'
  <2>1. \A i \in 1..L : binaries[i].by < i
    BY <1>1 DEF CtorInv, ByEarlier
  <2>2. b.by < L + 1
    BY <1>1
  <2>3. QED
    BY <1>1, <2>1, <2>2 DEF ByEarlier
<1>6. OneMoreRoot'
  <2>1. CASE b.by = 0
    <3>1. L + 1 \in 2..L + 1
      BY <1>1
    <3>2. QED
      BY <2>1, <3>1, <1>1 DEF OneMoreRoot
  <2>2. CASE \E k \in 2..L : binaries[k].by = 0
    BY <2>2, <1>1 DEF OneMoreRoot
  <2>3. QED
    BY <2>1, <2>2
<1>7. BootState' /\ InitialRelocated'
  BY <1>2, <1>3 DEF BootState, InitialRelocated, CtorInv
<1>8. CtorsAhead' /\ CtorsFall'
  BY <1>2 DEF CtorInv, CtorsAhead, CtorsFall
<1>9. CtorsRight'
  BY <1>2, <1>3 DEF CtorInv, CtorsRight
<1>10. CtorsDone' /\ LoopDone'
  BY <1>2, <1>3 DEF CtorInv, CtorsDone, LoopDone, Loadee, Called
<1>11. InitChildFirst'
  BY <1>2, <1>3 DEF CtorInv, InitChildFirst, Called
<1>12. QED
  BY <1>4, <1>5, <1>6, <1>7, <1>8, <1>9, <1>10, <1>11 DEF CtorInv

\* A step that changes nothing CtorInv speaks of, but for pc.
LEMMA CtorQuiet ==
  ASSUME CtorInv, UNCHANGED CtorState,
         \/ pc' = pc
         \/ pc = "search" /\ pc' = "relocate"
         \/ pc' = "dead"
         \/ pc \in Loadee /\ pc' = "exited"
  PROVE  CtorInv'
<1> USE DEF CtorState, Loadee
<1>1. Initial' = Initial /\ \A i, p : Called(i, p)' <=> Called(i, p)
  BY DEF Initial, Called
<1>2. /\ Boot' => Boot
      /\ ~Boot' /\ ~Stopped' => ~Boot /\ ~Stopped
      /\ \A p \in Loadee : During(p)' => During(p)
      /\ pc' = "init" => pc = "init"
  BY DEF Boot, Stopped, During
<1>3. MainFirst'
  BY DEF CtorInv, MainFirst
<1>4. OneMoreRoot'
  BY DEF CtorInv, OneMoreRoot, Boot
<1>5. ByEarlier' /\ BootState' /\ InitialRelocated'
  BY <1>1, <1>2 DEF CtorInv, ByEarlier, BootState, InitialRelocated
<1>6. CtorsAhead' /\ CtorsFall' /\ CtorsRight'
  BY <1>1, <1>2 DEF CtorInv, CtorsAhead, CtorsFall, CtorsRight
<1>7. CtorsDone' /\ LoopDone' /\ InitChildFirst'
  BY <1>1, <1>2 DEF CtorInv, CtorsDone, LoopDone, InitChildFirst
<1>8. QED
  BY <1>3, <1>4, <1>5, <1>6, <1>7 DEF CtorInv

\* LoadNeeded, called by Run or by dlopen.
LEMMA CtorLoadNeeded ==
  ASSUME TypeOK, CtorInv, LoadNeeded
  PROVE  CtorInv'
<1> DEFINE e == Head(queue)
<1>1. PICK f \in Found(e) :
        binaries' = Append(binaries, [file |-> f, as |-> e.name, by |-> e.by])
  BY DEF LoadNeeded
<1>2. e \in [name : Name, by : 1..Len(binaries)]
  BY HeadTailProperties, Zenon DEF LoadNeeded, TypeOK
<1>3. e.name \in Name /\ e.by \in 1..Len(binaries) /\ Len(binaries) \in Nat
  BY <1>2 DEF TypeOK
<1>4. f \in File
  BY <1>1, <1>3, FindLibraryFiles DEF Found
<1> DEFINE b == [file |-> f, as |-> e.name, by |-> e.by]
<1>5. b \in [file : File, as : Name, by : Nat] /\ b.by \in 1..Len(binaries)
  BY <1>3, <1>4
<1>6. Len(binaries) > 0 /\ binaries # <<>> /\ b.by # 0 /\ b.by <= Len(binaries)
  BY <1>3, <1>5
<1>7. /\ pc = "search" /\ pc' = "search" /\ binaries' = Append(binaries, b)
      /\ UNCHANGED <<elf, caller, relocated, slots, init_i, inits>>
  BY <1>1 DEF LoadNeeded
<1> HIDE DEF b
<1>8. CASE Boot
  <2>1. Boot'
    BY <1>7, <1>8 DEF Boot
  <2>2. QED
    BY <1>5, <1>6, <1>7, <1>8, <2>1, CtorBootGrow
<1>9. CASE ~Boot
  <2>1. ~Boot' /\ ~Stopped /\ \A p \in Loadee : During(p) <=> During(p)'
    BY <1>7, <1>9 DEF Boot, Stopped, During
  <2>2. \E k \in 2..Len(binaries) : binaries[k].by = 0
    BY <1>7, <1>9 DEF CtorInv, OneMoreRoot
  <2>3. QED
    BY <1>5, <1>6, <1>7, <1>9, <2>1, <2>2, CtorOpenGrow
<1>10. QED
  BY <1>8, <1>9

\* dlopen of a file, by the loadee.
LEMMA CtorDlopen ==
  ASSUME TypeOK, CtorInv, NEW n \in Name, Dlopen(n)
  PROVE  CtorInv'
<1>1. PICK f \in FindLibrary(n, <<>>, <<>>) : LoadRoot(f)
  BY DEF Dlopen
<1>2. f \in File
  BY <1>1, FindLibraryFiles
<1> DEFINE b == [file |-> f, as |-> FileName[f], by |-> 0]
<1>3. b \in [file : File, as : Name, by : Nat] /\ b.by = 0
  BY <1>2, SearchAssumption
<1>4. /\ pc \in Loadee /\ caller' = pc /\ pc' = "search" /\ binaries' = Append(binaries, b)
      /\ UNCHANGED <<elf, relocated, slots, init_i, inits>>
  BY <1>1 DEF Dlopen, LoadRoot
<1>5. Len(binaries) > 0 /\ Len(binaries) \in Nat
  BY <1>4 DEF CtorInv, MainFirst, TypeOK, Loadee
<1>6. ~Boot /\ ~Boot' /\ ~Stopped
  BY <1>4 DEF Boot, Stopped, Loadee
<1>7. \A p \in Loadee : During(p) <=> During(p)'
  BY <1>4 DEF During, Loadee
<1> HIDE DEF b
<1>8. QED
  BY <1>3, <1>4, <1>5, <1>6, <1>7, CtorOpenGrow

\* One binary is relocated: while Run does it no constructor has been called,
\* and later it is none of those of Run.
LEMMA CtorRelocate ==
  ASSUME CtorInv, RelocateBinary
  PROVE  CtorInv'
<1>1. /\ pc = "relocate" /\ binaries[reloc_i].file \notin relocated
      /\ relocated \subseteq relocated' /\ DOMAIN slots' = DOMAIN slots \cup {reloc_i}
      /\ UNCHANGED <<elf, pc, caller, binaries, init_i, inits>>
  BY DEF RelocateBinary, IsRelocated
<1>2. /\ Initial' = Initial /\ (Boot' <=> Boot) /\ ~Stopped
      /\ \A p : During(p)' <=> During(p)
      /\ \A i, p : Called(i, p)' <=> Called(i, p)
  BY <1>1 DEF Initial, Boot, Stopped, During, Called
<1>3. MainFirst' /\ ByEarlier' /\ BootState' /\ OneMoreRoot' /\ InitialRelocated'
  BY <1>1, <1>2 DEF CtorInv, MainFirst, ByEarlier, BootState, OneMoreRoot, InitialRelocated
<1>4. CtorsAhead' /\ CtorsFall' /\ CtorsRight' /\ LoopDone'
  BY <1>1, <1>2 DEF CtorInv, CtorsAhead, CtorsFall, CtorsRight, LoopDone
<1>5. CtorsDone' /\ InitChildFirst'
  <2>1. CASE Boot
    <3>1. inits = <<>> /\ DOMAIN inits = {}
      BY <2>1 DEF CtorInv, BootState
    <3>2. QED
      BY <1>1, <1>2, <2>1, <3>1 DEF CtorsDone, InitChildFirst
  <2>2. CASE ~Boot
    <3>1. reloc_i \notin Initial
      BY <1>1, <1>2, <2>2 DEF CtorInv, InitialRelocated
    <3>2. Initial' \cap DOMAIN slots' = Initial \cap DOMAIN slots
      BY <1>1, <1>2, <3>1
    <3>3. QED
      BY <1>1, <1>2, <2>2, <3>2 DEF CtorInv, CtorsDone, InitChildFirst
  <2>3. QED
    BY <2>1, <2>2
<1>6. QED
  BY <1>3, <1>4, <1>5 DEF CtorInv

\* Relocate returns, to Run with every constructor ahead, or to the loadee.
LEMMA CtorRelocateDone ==
  ASSUME LoadInv, CtorInv, RelocateDone
  PROVE  CtorInv'
<1>1. /\ pc = "relocate" /\ reloc_i = Len(binaries) + 1 /\ Len(binaries) \in Nat
      /\ DOMAIN binaries = 1..Len(binaries) /\ caller \in {"Run", "ctor", "running"}
      /\ DOMAIN slots \subseteq 1..Len(binaries)
      /\ UNCHANGED <<elf, caller, binaries, slots, relocated, inits>>
      /\ pc' = IF caller = "Run" THEN "init" ELSE caller
      /\ init_i' = IF caller = "Run" THEN Len(binaries) ELSE init_i
  <2>1. TypeOK /\ RelocateDone
    BY DEF LoadInv
  <2>2. /\ reloc_i = Len(binaries) + 1 /\ Len(binaries) \in Nat
        /\ DOMAIN binaries = 1..Len(binaries) /\ DOMAIN slots \subseteq 1..Len(binaries)
    BY <2>1 DEF TypeOK, RelocateDone
  <2>3. caller \in {"Run", "ctor", "running"}
    BY <2>1 DEF TypeOK, Loadee
  <2>4. QED
    BY <2>1, <2>2, <2>3 DEF RelocateDone
<1>2. /\ Initial' = Initial /\ ~Boot' /\ ~Stopped' /\ ~Stopped
      /\ \A i, p : Called(i, p)' <=> Called(i, p)
      /\ \A p \in Loadee : During(p)' <=> During(p)
  BY <1>1 DEF Initial, Boot, Stopped, Called, During, Loadee
<1>3. MainFirst' /\ ByEarlier' /\ BootState' /\ OneMoreRoot'
  BY <1>1, <1>2 DEF CtorInv, MainFirst, ByEarlier, BootState, OneMoreRoot
<1>4. InitialRelocated'
  <2>1. \A i \in DOMAIN binaries : binaries[i].file \in relocated
    BY <1>1 DEF LoadInv, RelocBehind
  <2>2. Initial \subseteq DOMAIN binaries
    BY DEF Initial
  <2>3. QED
    BY <1>1, <1>2, <2>1, <2>2 DEF InitialRelocated
<1>5. CtorsFall' /\ InitChildFirst'
  BY <1>1, <1>2 DEF CtorInv, CtorsFall, InitChildFirst
<1>6. CtorsAhead' /\ CtorsRight' /\ CtorsDone' /\ LoopDone'
  <2>1. CASE caller = "Run"
    <3>1. /\ inits = <<>> /\ DOMAIN inits = {} /\ Initial = 1..Len(binaries)
          /\ init_i' = Len(binaries)
      BY <1>1, <2>1 DEF CtorInv, BootState, Boot
    <3>2. CtorsAhead' /\ CtorsRight'
      BY <1>1, <1>2, <3>1 DEF CtorsAhead, CtorsRight
    <3>3. CtorsDone' /\ LoopDone'
      BY <1>1, <1>2, <2>1, <3>1 DEF CtorsDone, LoopDone, During
    <3>4. QED
      BY <3>2, <3>3
  <2>2. CASE caller # "Run"
    <3>1. init_i' = init_i /\ pc' = caller /\ ~Boot
      BY <1>1, <2>2 DEF Boot
    <3>2. CtorsAhead' /\ CtorsRight'
      BY <1>1, <1>2, <2>2, <3>1 DEF CtorInv, CtorsAhead, CtorsRight
    <3>3. CtorsDone' /\ LoopDone'
      BY <1>1, <1>2, <3>1 DEF CtorInv, CtorsDone, LoopDone, Loadee
    <3>4. QED
      BY <3>2, <3>3
  <2>3. QED
    BY <2>1, <2>2
<1>7. QED
  BY <1>3, <1>4, <1>5, <1>6 DEF CtorInv

\* The constructor at init_i is called: all it waits for are above init_i.
LEMMA CtorCall ==
  ASSUME TypeOK, CtorInv, CallCtor
  PROVE  CtorInv'
<1>0. PICK n \in Nat : n = Len(inits)
  BY DEF TypeOK
<1>1. /\ pc = "init" /\ pc' = "ctor" /\ init_i > 0 /\ init_i \in Nat /\ n \in Nat
      /\ elf[binaries[init_i].file].ctor
      /\ DOMAIN inits = 1..n /\ DOMAIN inits' = 1..n + 1 /\ Len(inits') = n + 1
      /\ inits'[n + 1] = init_i /\ \A p \in 1..n : inits'[p] = inits[p]
      /\ \A p \in 1..n : inits[p] \in Nat
      /\ UNCHANGED <<elf, caller, binaries, relocated, slots, init_i>>
  <2>1. /\ inits \in Seq(1..Len(binaries)) /\ init_i \in Nat /\ Len(binaries) \in Nat
        /\ inits' = Append(inits, init_i)
    BY DEF TypeOK, CallCtor
  <2>2. /\ DOMAIN inits = 1..n /\ \A p \in 1..n : inits[p] \in Nat
        /\ DOMAIN inits' = 1..n + 1 /\ Len(inits') = n + 1
        /\ inits'[n + 1] = init_i /\ \A p \in 1..n : inits'[p] = inits[p]
    BY <1>0, <2>1
  <2>3. QED
    BY <2>1, <2>2 DEF CallCtor
<1>2. Initial' = Initial /\ ~Boot /\ ~Boot' /\ ~Stopped /\ ~Stopped'
  BY <1>1 DEF Initial, Boot, Stopped
<1>3. init_i \in Initial
  BY <1>1 DEF CtorInv, CtorsAhead
<1>4. MainFirst' /\ ByEarlier' /\ BootState' /\ OneMoreRoot' /\ InitialRelocated' /\ CtorsAhead'
  BY <1>1, <1>2 DEF CtorInv, MainFirst, ByEarlier, BootState, OneMoreRoot, InitialRelocated,
                    CtorsAhead
<1>5. \A p \in 1..n : inits[p] > init_i
  BY <1>1 DEF CtorInv, CtorsRight
<1>6. CtorsFall'
  <2>1. SUFFICES ASSUME NEW p \in 1..n + 1, NEW q \in 1..n + 1, p < q
                 PROVE  inits'[q] < inits'[p]
    BY <1>1 DEF CtorsFall
  <2>2. p \in 1..n
    BY <1>1, <2>1
  <2>3. CASE q \in 1..n
    BY <1>1, <2>1, <2>2, <2>3 DEF CtorInv, CtorsFall
  <2>4. CASE q = n + 1
    BY <1>1, <1>5, <2>2, <2>4
  <2>5. QED
    BY <1>1, <2>3, <2>4
<1>7. CtorsRight'
  <2>1. SUFFICES ASSUME NEW p \in 1..n + 1
                 PROVE  /\ inits'[p] \in Initial /\ elf[binaries[inits'[p]].file].ctor
                        /\ inits'[p] >= init_i
    BY <1>1, <1>2 DEF CtorsRight
  <2>2. CASE p \in 1..n
    BY <1>1, <2>2 DEF CtorInv, CtorsRight
  <2>3. CASE p = n + 1
    BY <1>1, <1>3, <2>3
  <2>4. QED
    BY <1>1, <2>2, <2>3
\* Who was called is still called, and init_i is.
<1>8. /\ \A i, p : p \in 0..n /\ Called(i, p) => Called(i, p)'
      /\ \A i : Called(i, n) => Called(i, n + 1)'
      /\ \A i : i = init_i => Called(i, n + 1)'
  <2>1. \A p \in 0..n : 1..p \subseteq 1..n /\ 1..p \subseteq 1..n + 1
    BY <1>1
  <2>2. n + 1 \in 1..n + 1
    BY <1>1
  <2>3. QED
    BY <1>1, <2>1, <2>2 DEF Called
<1>9. \A i \in Initial \cap DOMAIN slots :
        elf[binaries[i].file].ctor /\ i > init_i => Called(i, n)
  BY <1>0, <1>2 DEF CtorInv, CtorsDone
<1>10. CtorsDone'
  <2>1. SUFFICES ASSUME NEW i \in Initial \cap DOMAIN slots, elf[binaries[i].file].ctor,
                        i > init_i \/ i = init_i
                 PROVE  Called(i, n + 1)'
    BY <1>1, <1>2 DEF CtorsDone
  <2>2. CASE i = init_i
    BY <1>8, <2>2
  <2>3. CASE i > init_i
    BY <1>8, <1>9, <2>1, <2>3
  <2>4. QED
    BY <2>1, <2>2, <2>3
<1>11. LoopDone'
  BY <1>1 DEF LoopDone, During
<1>12. InitChildFirst'
  <2>1. SUFFICES ASSUME NEW p \in 1..n + 1, NEW i \in Initial \cap DOMAIN slots,
                        binaries[i].by = inits'[p], elf[binaries[i].file].ctor
                 PROVE  Called(i, p - 1)'
    BY <1>1, <1>2 DEF InitChildFirst
  <2>2. CASE p \in 1..n
    <3>1. Called(i, p - 1)
      BY <1>1, <2>1, <2>2 DEF CtorInv, InitChildFirst
    <3>2. p - 1 \in 0..n
      BY <1>1, <2>2
    <3>3. QED
      BY <1>8, <3>1, <3>2
  <2>3. CASE p = n + 1
    <3>1. binaries[i].by = init_i
      BY <1>1, <2>1, <2>3
    <3>2. i \in DOMAIN binaries
      BY <2>1 DEF Initial
    <3>3. i > init_i
      <4>1. i \in Nat /\ binaries[i].by < i
        BY <3>2 DEF CtorInv, ByEarlier, TypeOK
      <4>2. QED
        BY <1>1, <3>1, <4>1
    <3>4. Called(i, n) /\ p - 1 = n /\ n \in 0..n
      BY <1>1, <1>9, <2>1, <2>3, <3>3
    <3>5. QED
      BY <1>8, <3>4
  <2>4. QED
    BY <1>1, <2>2, <2>3
<1>13. QED
  BY <1>4, <1>6, <1>7, <1>10, <1>11, <1>12 DEF CtorInv

\* The loop goes on to the next binary, from a constructor or past one that has
\* none to call.
LEMMA CtorNext ==
  ASSUME TypeOK, CtorInv, SkipInit \/ CtorReturns
  PROVE  CtorInv'
<1>1. /\ pc \in {"init", "ctor"} /\ pc' = "init" /\ init_i \in Nat /\ init_i > 0
      /\ init_i' = init_i - 1
      /\ UNCHANGED <<elf, caller, binaries, relocated, slots, inits>>
  BY DEF TypeOK, SkipInit, CtorReturns
<1>2. /\ Initial' = Initial /\ ~Boot /\ ~Boot' /\ ~Stopped /\ ~Stopped'
      /\ \A i, p : Called(i, p)' <=> Called(i, p)
  BY <1>1 DEF Initial, Boot, Stopped, Called
<1>3. MainFirst' /\ ByEarlier' /\ BootState' /\ OneMoreRoot' /\ InitialRelocated'
  BY <1>1, <1>2 DEF CtorInv, MainFirst, ByEarlier, BootState, OneMoreRoot, InitialRelocated
<1>4. CtorsAhead'
  <2>1. 1..init_i - 1 \subseteq 1..init_i
    BY <1>1
  <2>2. QED
    BY <1>1, <1>2, <2>1 DEF CtorInv, CtorsAhead
<1>5. CtorsFall' /\ InitChildFirst'
  BY <1>1, <1>2 DEF CtorInv, CtorsFall, InitChildFirst
<1>6. CtorsRight'
  <2>1. \A p \in DOMAIN inits : inits[p] \in Nat
    BY DEF TypeOK
  <2>2. QED
    BY <1>1, <1>2, <2>1 DEF CtorInv, CtorsRight
<1>7. CtorsDone'
  <2>1. SUFFICES ASSUME NEW i \in Initial \cap DOMAIN slots, elf[binaries[i].file].ctor,
                        i > init_i - 1
                 PROVE  Called(i, Len(inits))
    BY <1>1, <1>2 DEF CtorsDone, During
  <2>2. i \in Nat
    BY <2>1 DEF Initial, TypeOK
  <2>3. CASE i > init_i
    BY <1>2, <2>1, <2>3 DEF CtorInv, CtorsDone
  <2>4. CASE i = init_i
    <3>1. CtorReturns
      BY <2>1, <2>4 DEF SkipInit
    <3>2. During("ctor")
      BY <3>1 DEF CtorReturns, During
    <3>3. QED
      BY <1>2, <2>1, <2>4, <3>2 DEF CtorInv, CtorsDone
  <2>5. QED
    BY <1>1, <2>1, <2>2, <2>3, <2>4
<1>8. LoopDone'
  BY <1>1 DEF LoopDone, During
<1>9. QED
  BY <1>3, <1>4, <1>5, <1>6, <1>7, <1>8 DEF CtorInv

\* The program is entered with no binary ahead.
LEMMA CtorEnter ==
  ASSUME CtorInv, Enter
  PROVE  CtorInv'
<1>1. /\ pc = "init" /\ pc' = "running" /\ init_i = 0 /\ init_i' = 0
      /\ UNCHANGED <<elf, caller, binaries, relocated, slots, inits>>
  BY DEF Enter
<1>2. /\ Initial' = Initial /\ ~Boot /\ ~Boot' /\ ~Stopped /\ ~Stopped'
      /\ \A i, p : Called(i, p)' <=> Called(i, p)
      /\ ~During("ctor")'
  BY <1>1 DEF Initial, Boot, Stopped, Called, During
<1>3. MainFirst' /\ ByEarlier' /\ BootState' /\ OneMoreRoot' /\ InitialRelocated'
  BY <1>1, <1>2 DEF CtorInv, MainFirst, ByEarlier, BootState, OneMoreRoot, InitialRelocated
<1>4. CtorsAhead' /\ CtorsFall' /\ CtorsRight'
  BY <1>1, <1>2 DEF CtorInv, CtorsAhead, CtorsFall, CtorsRight
<1>5. CtorsDone' /\ LoopDone' /\ InitChildFirst'
  BY <1>1, <1>2 DEF CtorInv, CtorsDone, LoopDone, InitChildFirst
<1>6. QED
  BY <1>3, <1>4, <1>5 DEF CtorInv

\* Each step preserves the invariant.
LEMMA CtorStep == LoadInv /\ CtorInv /\ [Next]_vars => CtorInv'
<1> SUFFICES ASSUME LoadInv, CtorInv, [Next]_vars  PROVE CtorInv'
  OBVIOUS
<1>0. TypeOK
  BY DEF LoadInv
<1>1. CASE LoadMain
  <2> DEFINE b == [file |-> MainFile, as |-> FileName[MainFile], by |-> 0]
  <2>1. b \in [file : File, as : Name, by : Nat] /\ b.by = 0
    BY LoaderAssumption, SearchAssumption
  <2>2. /\ pc = "start" /\ binaries = <<>> /\ binaries' = Append(binaries, b)
        /\ pc' = "search" /\ UNCHANGED <<elf, caller, slots, init_i, inits>>
    BY <1>1 DEF LoadMain, LoadRoot, CtorInv, MainFirst
  <2>3. Boot /\ Boot' /\ Len(binaries) = 0
    BY <2>2 DEF CtorInv, MainFirst, Boot
  <2>4. QED
    BY <1>0, <2>1, <2>2, <2>3, CtorBootGrow
<1>2. CASE LoadNeeded
  BY <1>0, <1>2, CtorLoadNeeded
<1>3. CASE \E n \in Name : Dlopen(n)
  BY <1>0, <1>3, CtorDlopen
<1>4. CASE RelocateBinary
  BY <1>4, CtorRelocate
<1>5. CASE RelocateDone
  BY <1>5, CtorRelocateDone
<1>6. CASE CallCtor
  BY <1>0, <1>6, CtorCall
<1>7. CASE SkipInit \/ CtorReturns
  BY <1>0, <1>7, CtorNext
<1>8. CASE Enter
  BY <1>8, CtorEnter
<1>9. CASE \/ SkipLoaded \/ SkipLibc \/ SearchDone \/ SkipRelocated \/ Exit
           \/ \E s \in Sym : Dlsym(s)
  BY <1>9, CtorQuiet DEF SkipLoaded, SkipLibc, SearchDone, SkipRelocated, Exit, Dlsym, CtorState
<1>10. CASE \/ LibraryNotFound \/ LoadFails \/ RelocationFails \/ ExecuteFails
            \/ \E n \in Name : DlopenFails(n)
            \/ \E s \in Sym : DlsymFails(s)
  <2>1. Die
    BY <1>10 DEF LibraryNotFound, LoadFails, RelocationFails, ExecuteFails, DlopenFails,
                 DlsymFails
  <2>2. QED
    BY <2>1, CtorQuiet DEF Die, CtorState
<1>11. CASE UNCHANGED vars
  BY <1>11, CtorQuiet DEF vars, CtorState
<1>12. QED
  BY <1>1, <1>2, <1>3, <1>4, <1>5, <1>6, <1>7, <1>8, <1>9, <1>10, <1>11
  DEF Next, LoaderStep, LoadeeStep

\* LoaderInv is an invariant, for every file system and number of dlopens.
THEOREM LoaderInvariant == Spec => []LoaderInv
<1>1. Init => LoaderInv
  BY InvInit, CtorInit DEF LoaderInv
<1>2. LoaderInv /\ [Next]_vars => LoaderInv'
  BY InvStep, CtorStep DEF LoaderInv
<1>3. QED
  BY <1>1, <1>2, PTL DEF Spec

\* The loop of Execute calls the constructors of what a binary of Run needs
\* before its own, for every dependency graph, cycles included, and whatever
\* the constructors do with dlopen.
THEOREM ChildrenAreInitialisedFirst == Spec => []InitChildFirst
<1>1. LoaderInv => InitChildFirst
  BY DEF LoaderInv, CtorInv
<1>2. QED
  BY <1>1, LoaderInvariant, PTL

\* The calls of the constructors of one binary, where inits falls: at most one.
LEMMA CallsOfOne ==
  ASSUME TypeOK, CtorsFall, NEW i
  PROVE  LET calls == {p \in DOMAIN inits : inits[p] = i}
         IN  /\ Cardinality(calls) <= 1
             /\ calls = {} => Cardinality(calls) = 0
             /\ calls # {} => Cardinality(calls) = 1
<1> DEFINE calls == {p \in DOMAIN inits : inits[p] = i}
<1>1. CASE calls = {}
  BY <1>1, FS_EmptySet
<1>2. CASE calls # {}
  <2>1. PICK p \in calls : TRUE
    BY <1>2
  <2>2. ASSUME NEW q \in calls  PROVE q = p
    <3>1. p \in Nat /\ q \in Nat /\ inits[p] = i /\ inits[q] = i /\ inits[p] \in Nat
      <4>1. inits \in Seq(Nat)
        BY SeqMonotonic DEF TypeOK
      <4>2. DOMAIN inits \subseteq Nat /\ \A k \in DOMAIN inits : inits[k] \in Nat
        BY <4>1
      <4>3. QED
        BY <2>1, <2>2, <4>2
    <3>2. ~(p < q) /\ ~(q < p)
      BY <2>1, <2>2, <3>1 DEF CtorsFall
    <3>3. QED
      BY <3>1, <3>2
  <2>3. calls = {p}
    BY <2>1, <2>2
  <2>4. Cardinality(calls) = 1
    BY <2>3, FS_Singleton
  <2>5. QED
    BY <1>2, <2>4
<1>3. QED
  BY <1>1, <1>2

\* When the program is entered every constructor of Run has been called once,
\* and none of a binary that dlopen loaded.
THEOREM ConstructorsRunOnce == Spec => []InitOnce
<1>1. LoaderInv => InitOnce
  <2>1. SUFFICES ASSUME LoaderInv, pc = "running", NEW i \in DOMAIN binaries
                 PROVE  LET calls  == Cardinality({p \in DOMAIN inits : inits[p] = i})
                            called == i \in Initial /\ elf[binaries[i].file].ctor
                        IN  /\ calls <= IF called THEN 1 ELSE 0
                            /\ called /\ i \in DOMAIN slots => calls = 1
    BY DEF InitOnce
  <2> DEFINE calls  == {p \in DOMAIN inits : inits[p] = i}
             called == i \in Initial /\ elf[binaries[i].file].ctor
  <2>2. TypeOK /\ CtorInv
    BY <2>1 DEF LoaderInv, LoadInv
  <2>3. /\ Cardinality(calls) <= 1
        /\ calls = {} => Cardinality(calls) = 0
        /\ calls # {} => Cardinality(calls) = 1
    BY <2>2, CallsOfOne DEF CtorInv
  <2>4. ~called => calls = {}
    BY <2>2 DEF CtorInv, CtorsRight
  <2>5. ASSUME called, i \in DOMAIN slots  PROVE calls # {}
    <3>1. ~Boot /\ ~Stopped /\ init_i = 0 /\ i > 0
      BY <2>1, <2>2 DEF Boot, Stopped, CtorInv, LoopDone, During, TypeOK
    <3>2. Called(i, Len(inits))
      BY <2>2, <2>5, <3>1 DEF CtorInv, CtorsDone
    <3>3. DOMAIN inits = 1..Len(inits)
      BY <2>2 DEF TypeOK
    <3>4. QED
      BY <3>2, <3>3 DEF Called
  <2> HIDE DEF calls
  <2>6. called \in BOOLEAN
    OBVIOUS
  <2>7. Cardinality(calls) <= IF called THEN 1 ELSE 0
    <3>1. CASE called
      BY <2>3, <3>1
    <3>2. CASE ~called
      BY <2>3, <2>4, <3>2
    <3>3. QED
      BY <3>1, <3>2
  <2>8. called /\ i \in DOMAIN slots => Cardinality(calls) = 1
    BY <2>3, <2>5
  <2>9. QED
    BY <2>7, <2>8 DEF calls
<1>2. QED
  BY <1>1, LoaderInvariant, PTL

-----------------------------------------------------------------------------
\* A search that skips the main program does not end there ...
LEMMA SearchSkipsMain ==
  ASSUME NEW bins, Len(bins) \in Nat, NEW s, SearchSym(bins, s, 2) # NotFound
  PROVE  SearchSym(bins, s, 2).bin >= 2
<1> DEFINE D == Defining(bins, s, 2)
           W == WeakIn(bins, s, 2)
<1>1. D \in SUBSET Nat /\ W \in SUBSET Nat /\ \A i \in D \cup W : i >= 2
  BY DEF Defining, WeakIn
<1>2. /\ D # {} => SearchSym(bins, s, 2).bin = Min(D)
      /\ D = {} => W # {} /\ SearchSym(bins, s, 2).bin = Min(W)
  BY DEF SearchSym
<1> HIDE DEF D, W
<1>3. (D # {} => Min(D) \in D) /\ (W # {} => Min(W) \in W)
  BY <1>1, MinNat
<1>4. QED
  BY <1>1, <1>2, <1>3

\* ... and one that does not skip it ends there if it can.
LEMMA SearchFindsMain ==
  ASSUME NEW bins, Len(bins) \in Nat, Len(bins) > 0, NEW s, s \in elf[bins[1].file].defs
  PROVE  SearchSym(bins, s, 1) = [kind |-> "def", bin |-> 1]
<1> DEFINE D == Defining(bins, s, 1)
<1>1. D \in SUBSET Nat /\ 1 \in D /\ \A i \in D : i >= 1
  BY DEF Defining
<1>2. D # {} /\ SearchSym(bins, s, 1) = [kind |-> "def", bin |-> Min(D)]
  BY <1>1 DEF SearchSym
<1> HIDE DEF D
<1>3. Min(D) \in D /\ Min(D) <= 1
  BY <1>1, <1>2, MinNat
<1>4. Min(D) = 1
  <2>1. Min(D) \in Nat /\ Min(D) >= 1
    BY <1>1, <1>3
  <2>2. QED
    BY <1>3, <2>1
<1>5. QED
  BY <1>2, <1>4

\* A strengthening of CopyShared that looks at each slot by itself: a COPY is
\* never from the main program, and what the main program defines is found there.
CopySlots ==
  \A i \in DOMAIN slots : \A r \in DOMAIN slots[i] :
    r.sym \notin LibcMap =>
      /\ r.type = "COPY" => slots[i][r].bin # 1
      /\ r.type = "GLOB_DAT" /\ r.sym \in elf[MainFile].defs =>
           slots[i][r] = [kind |-> "def", bin |-> 1]

\* What Relocate writes into the slots of one binary agrees with CopySlots.
LEMMA CopySlotWritten ==
  ASSUME NEW bins, Len(bins) \in Nat, Len(bins) > 0, bins[1].file = MainFile, NEW i,
         NEW r, r.sym \notin LibcMap, ~Aborts(bins, i, r)
  PROVE  /\ r.type = "COPY" => Slot(bins, i, r).bin # 1
         /\ r.type = "GLOB_DAT" /\ r.sym \in elf[MainFile].defs =>
              Slot(bins, i, r) = [kind |-> "def", bin |-> 1]
<1>1. ASSUME r.type = "COPY"  PROVE Slot(bins, i, r).bin # 1
  <2>1. Slot(bins, i, r) = ResolveCopy(bins, r.sym) /\ Slot(bins, i, r) # NotFound
    BY <1>1, Zenon DEF Slot, Aborts
  <2>2. SearchSym(bins, r.sym, 2) # NotFound
    BY <2>1, Zenon DEF ResolveCopy
  <2>3. Slot(bins, i, r).bin = SearchSym(bins, r.sym, 2).bin
    BY <2>1, <2>2 DEF ResolveCopy
  <2>4. QED
    BY <2>2, <2>3, SearchSkipsMain
<1>2. ASSUME r.type = "GLOB_DAT", r.sym \in elf[MainFile].defs
      PROVE  Slot(bins, i, r) = [kind |-> "def", bin |-> 1]
  <2>1. Slot(bins, i, r) = ResolveBind(bins, r.sym)
    BY <1>2, Zenon DEF Slot
  <2>2. ResolveBind(bins, r.sym) = SearchSym(bins, r.sym, 1)
    BY Zenon DEF ResolveBind
  <2>3. QED
    BY <1>2, <2>1, <2>2, SearchFindsMain
<1>3. QED
  BY <1>1, <1>2

\* Every binary refers to the copy that the main program makes of a variable,
\* and the copy is from a library.
THEOREM CopiesAreShared == Spec => []CopyShared
<1>1. Init => CopySlots
  <2>1. Init => DOMAIN slots = {}
    BY DEF Init
  <2>2. QED
    BY <2>1 DEF CopySlots
<1>2. LoaderInv /\ CopySlots /\ [Next]_vars => CopySlots'
  <2> SUFFICES ASSUME LoaderInv, CopySlots, [Next]_vars,
                      NEW i \in DOMAIN slots', NEW r \in DOMAIN slots'[i], r.sym \notin LibcMap
               PROVE  /\ r.type = "COPY" => slots'[i][r].bin # 1
                      /\ r.type = "GLOB_DAT" /\ r.sym \in elf'[MainFile].defs =>
                           slots'[i][r] = [kind |-> "def", bin |-> 1]
    BY DEF CopySlots
  <2>0. elf' = elf
    BY SlotsStep
  <2>1. CASE i \in DOMAIN slots /\ slots'[i] = slots[i]
    BY <2>0, <2>1 DEF CopySlots
  <2>2. CASE RelocateBinary /\ i = reloc_i
    <3>1. /\ slots'[i][r] = Slot(binaries, i, r) /\ ~Aborts(binaries, i, r)
          /\ pc = "relocate"
      BY <2>2 DEF RelocateBinary
    <3>2. Len(binaries) \in Nat /\ Len(binaries) > 0 /\ binaries[1].file = MainFile
      BY <3>1 DEF LoaderInv, LoadInv, TypeOK, CtorInv, MainFirst
    <3>3. QED
      BY <2>0, <3>1, <3>2, CopySlotWritten
  <2>3. CASE RelocateBinary /\ i # reloc_i
    BY <2>1, <2>3 DEF RelocateBinary
  <2>4. QED
    BY <2>1, <2>2, <2>3, SlotsStep
<1>3. CopySlots => CopyShared
  BY DEF CopySlots, CopyShared, Uses
<1>4. QED
  BY <1>1, <1>2, <1>3, LoaderInvariant, PTL DEF Spec

-----------------------------------------------------------------------------
(***************************************************************************)
(*                             The refinement                              *)
(***************************************************************************)

\* The link map of the refinement mapping.
Libs == [i \in 1..Visible |-> binaries[i].file]

\* Whatever is found for a name may serve it.
LEMMA FoundServes ==
  ASSUME NEW n \in Name, NEW runpath \in Seq(Dir), NEW rpath \in Seq(Dir)
  PROVE  FindLibrary(n, runpath, rpath) \subseteq MayServe(n)
<1> DEFINE dirs  == LibraryDirectories(runpath, rpath)
           found == {i \in DOMAIN dirs : Hits(n, dirs[i]) # {}}
<1>1. dirs \in Seq(Dir)
  <2>1. EnvDirs \in Seq(Dir) /\ ConfDirs \in Seq(Dir) /\ DefaultDirs \in Seq(Dir)
    BY SearchAssumption
  <2>2. EnvDirs \o runpath \in Seq(Dir)
    BY <2>1, ConcatProperties
  <2>3. EnvDirs \o runpath \o rpath \in Seq(Dir)
    BY <2>2, ConcatProperties
  <2>4. EnvDirs \o runpath \o rpath \o ConfDirs \in Seq(Dir)
    BY <2>1, <2>3, ConcatProperties
  <2>5. QED
    BY <2>1, <2>4, ConcatProperties DEF LibraryDirectories
<1>2. found \in SUBSET Nat /\ \A i \in found : dirs[i] \in Dir
  BY <1>1
<1>3. Absolute[n] \subseteq MayServe(n)
  BY DEF MayServe
<1>4. \A d \in Dir : Hits(n, d) \subseteq MayServe(n)
  BY DEF MayServe
<1>5. FindLibrary(n, runpath, rpath) = IF Absolute[n] # {} THEN Absolute[n]
                                       ELSE IF found = {} THEN {} ELSE Hits(n, dirs[Min(found)])
  BY DEF FindLibrary
<1> HIDE DEF dirs, found
<1>6. found # {} => Min(found) \in found
  BY <1>2, MinNat
<1>7. QED
  BY <1>2, <1>3, <1>4, <1>5, <1>6, Zenon

\* A file may serve its own name.
LEMMA SameNameServes ==
  ASSUME NEW n \in Name, NEW f \in File, FileName[f] = n
  PROVE  f \in MayServe(n)
  BY DEF MayServe

-----------------------------------------------------------------------------
\* The last binary that Run or dlopen asked for itself.
IsLastRoot(i) ==
  /\ i \in DOMAIN binaries /\ binaries[i].by = 0
  /\ \A j \in DOMAIN binaries : j > i => binaries[j].by # 0

\* Why each binary is in the link map, and each name in the queue: a file that
\* may serve a name, which the binary before it needs or the loadee asked for.
Justified ==
  /\ \A i \in DOMAIN binaries :
       /\ binaries[i].file \in MayServe(binaries[i].as)
       /\ binaries[i].by # 0 =>
            binaries[i].as \in NeedsOf(binaries[binaries[i].by].file)
  /\ \A q \in DOMAIN queue : queue[q].name \in NeedsOf(binaries[queue[q].by].file)
  /\ pc \in {"search", "relocate"} => \E i \in DOMAIN binaries : IsLastRoot(i)

\* LastRoot is the last root.
LEMMA LastRootIs ==
  ASSUME TypeOK, NEW i, IsLastRoot(i)
  PROVE  LastRoot = i
<1> DEFINE P(k) == k \in DOMAIN binaries /\ binaries[k].by = 0
                   /\ \A j \in DOMAIN binaries : j > k => binaries[j].by # 0
<1>1. DOMAIN binaries \subseteq Nat
  BY DEF TypeOK
<1>2. P(i) /\ i \in DOMAIN binaries
  BY DEF IsLastRoot
<1>3. \A k \in DOMAIN binaries : P(k) => ~(k > i) /\ ~(i > k)
  BY <1>2
<1>4. \A k \in DOMAIN binaries : P(k) => k = i
  BY <1>1, <1>2, <1>3
<1>5. LastRoot = CHOOSE k \in DOMAIN binaries : P(k)
  BY Zenon DEF LastRoot
<1> HIDE DEF P
<1>6. QED
  BY <1>2, <1>4, <1>5

\* What is in the queue after a pop and a push was there or is pushed.
LEMMA PopFrom ==
  ASSUME NEW R, NEW q \in Seq(R), q # <<>>, NEW t \in Seq(R),
         NEW p \in DOMAIN (Tail(q) \o t)
  PROVE  \/ \E k \in DOMAIN q : (Tail(q) \o t)[p] = q[k]
         \/ \E j \in DOMAIN t : (Tail(q) \o t)[p] = t[j]
<1> DEFINE u == Tail(q) \o t
           n == Len(q) - 1
<1>1. /\ Len(q) \in Nat /\ Len(q) > 0 /\ Len(t) \in Nat
      /\ DOMAIN q = 1..n + 1 /\ DOMAIN t = 1..Len(t) /\ DOMAIN u = 1..n + Len(t)
      /\ \A k \in 1..n : u[k] = q[k + 1]
      /\ \A j \in 1..Len(t) : u[n + j] = t[j]
  BY PopAppend
<1>2. n \in Nat /\ p \in 1..n + Len(t)
  BY <1>1
<1> HIDE DEF u, n
<1>3. CASE p \in 1..n
  <2>1. p + 1 \in 1..n + 1
    BY <1>2, <1>3
  <2>2. QED
    BY <1>1, <1>3, <2>1 DEF u
<1>4. CASE p \notin 1..n
  <2>1. p - n \in 1..Len(t) /\ n + (p - n) = p
    BY <1>1, <1>2, <1>4
  <2>2. u[n + (p - n)] = t[p - n]
    BY <1>1, <2>1
  <2>3. QED
    BY <1>1, <2>1, <2>2 DEF u
<1>5. QED
  BY <1>3, <1>4

\* The fields of the binaries and of the entries of the queue.
LEMMA FieldTypes ==
  ASSUME TypeOK
  PROVE  /\ Len(binaries) \in Nat /\ DOMAIN binaries = 1..Len(binaries)
         /\ \A i \in DOMAIN binaries :
              binaries[i].file \in File /\ binaries[i].as \in Name /\ binaries[i].by \in Nat
         /\ \A q \in DOMAIN queue : queue[q].name \in Name /\ queue[q].by \in 1..Len(binaries)
<1> DEFINE B == [file : File, as : Name, by : Nat]
           Q == [name : Name, by : 1..Len(binaries)]
<1>1. binaries \in Seq(B) /\ queue \in Seq(Q)
  BY DEF TypeOK
<1>2. \A x \in B : x.file \in File /\ x.as \in Name /\ x.by \in Nat
  OBVIOUS
<1>3. \A x \in Q : x.name \in Name /\ x.by \in 1..Len(binaries)
  OBVIOUS
<1> HIDE DEF B, Q
<1>4. \A i \in DOMAIN binaries : binaries[i] \in B
  BY <1>1
<1>5. \A q \in DOMAIN queue : queue[q] \in Q
  BY <1>1
<1>6. QED
  BY <1>1, <1>2, <1>3, <1>4, <1>5

\* A binary is added for a reason.
LEMMA JustifiedGrow ==
  ASSUME TypeOK, ByEarlier, Justified, NEW f \in File, NEW n \in Name, NEW k \in 0..Len(binaries),
         binaries' = Append(binaries, [file |-> f, as |-> n, by |-> k]), elf' = elf,
         f \in MayServe(n), k # 0 => n \in NeedsOf(binaries[k].file),
         \A p \in DOMAIN queue' :
           \/ \E q \in DOMAIN queue : queue'[p] = queue[q]
           \/ queue'[p].by = Len(binaries) + 1 /\ queue'[p].name \in NeedsOf(f),
         k = 0 \/ \E i \in DOMAIN binaries : IsLastRoot(i)
  PROVE  Justified'
<1> DEFINE L == Len(binaries)
           b == [file |-> f, as |-> n, by |-> k]
<1>1. b \in [file : File, as : Name, by : Nat] /\ b.file = f /\ b.as = n /\ b.by = k
  BY DEF TypeOK
<1>2. /\ L \in Nat /\ DOMAIN binaries = 1..L /\ DOMAIN binaries' = 1..L + 1
      /\ \A i \in 1..L : binaries'[i] = binaries[i]
      /\ binaries'[L + 1] = b
  BY <1>1, GrowLinkMap
<1>3. \A g : NeedsOf(g)' = NeedsOf(g) /\ \A m : MayServe(m)' = MayServe(m)
  BY DEF NeedsOf, MayServe
<1>4. \A i \in DOMAIN binaries : binaries[i].by \in Nat /\ binaries[i].by < i
  BY FieldTypes DEF ByEarlier
<1>5. \A q \in DOMAIN queue : queue[q].by \in 1..L
  BY FieldTypes
<1> HIDE DEF b, L
<1>6. ASSUME NEW i \in DOMAIN binaries'
      PROVE  /\ binaries'[i].file \in MayServe(binaries'[i].as)
             /\ binaries'[i].by # 0 =>
                  binaries'[i].as \in NeedsOf(binaries'[binaries'[i].by].file)
  <2>1. CASE i \in 1..L
    <3>1. binaries[i].by # 0 => binaries[i].by \in 1..L
      BY <1>2, <1>4, <2>1
    <3>2. QED
      BY <1>2, <1>4, <2>1, <3>1 DEF Justified
  <2>2. CASE i = L + 1
    <3>1. k # 0 => k \in 1..L
      BY <1>2 DEF L
    <3>2. QED
      BY <1>1, <1>2, <2>2, <3>1
  <2>3. i \in 1..L \/ i = L + 1
    BY <1>2
  <2>4. QED
    BY <2>1, <2>2, <2>3
<1>7. ASSUME NEW p \in DOMAIN queue'
      PROVE  queue'[p].name \in NeedsOf(binaries'[queue'[p].by].file)
  <2>1. CASE \E q \in DOMAIN queue : queue'[p] = queue[q]
    BY <1>2, <1>5, <2>1 DEF Justified
  <2>2. CASE queue'[p].by = L + 1 /\ queue'[p].name \in NeedsOf(f)
    BY <1>1, <1>2, <2>2
  <2>3. QED
    BY <2>1, <2>2 DEF L
<1>8. \E i \in DOMAIN binaries' : IsLastRoot(i)'
  <2>1. CASE k = 0
    <3>1. L + 1 \in DOMAIN binaries' /\ \A j \in DOMAIN binaries' : ~(j > L + 1)
      BY <1>2
    <3>2. QED
      BY <1>1, <1>2, <2>1, <3>1 DEF IsLastRoot
  <2>2. CASE k # 0
    <3>1. PICK i \in DOMAIN binaries : IsLastRoot(i)
      BY <2>2
    <3>2. IsLastRoot(i)'
      BY <1>1, <1>2, <2>2, <3>1 DEF IsLastRoot
    <3>3. QED
      BY <1>2, <3>1, <3>2
  <2>3. QED
    BY <2>1, <2>2
<1>9. QED
  BY <1>3, <1>6, <1>7, <1>8 DEF Justified

\* A step that keeps the link map and drops at most entries of the queue.
LEMMA JustifiedQuiet ==
  ASSUME Justified, UNCHANGED <<elf, binaries>>,
         \A p \in DOMAIN queue' : \E q \in DOMAIN queue : queue'[p] = queue[q],
         pc' \in {"search", "relocate"} => pc \in {"search", "relocate"}
  PROVE  Justified'
<1>1. \A g : NeedsOf(g)' = NeedsOf(g) /\ \A m : MayServe(m)' = MayServe(m)
  BY DEF NeedsOf, MayServe
<1>2. \A i : IsLastRoot(i)' <=> IsLastRoot(i)
  BY DEF IsLastRoot
<1>3. QED
  BY <1>1, <1>2 DEF Justified

\* LoadRoot, from Run or dlopen: the root serves its own file name.
LEMMA JustifiedRoot ==
  ASSUME LoaderInv, Justified, pc \notin {"search", "dead"}, NEW f \in File, LoadRoot(f),
         elf' = elf
  PROVE  Justified'
<1>1. TypeOK /\ ByEarlier /\ FileName[f] \in Name /\ Len(binaries) \in Nat
  BY SearchAssumption, FieldTypes DEF LoaderInv, LoadInv, CtorInv
<1>2. f \in MayServe(FileName[f])
  BY <1>1, SameNameServes
<1>3. ASSUME NEW p \in DOMAIN queue'
      PROVE  queue'[p].by = Len(binaries) + 1 /\ queue'[p].name \in NeedsOf(f)
  BY <1>3 DEF LoadRoot, Needs, NeedsOf
<1>4. 0 \in 0..Len(binaries)
  BY <1>1
<1>5. binaries' = Append(binaries, [file |-> f, as |-> FileName[f], by |-> 0])
  BY DEF LoadRoot
<1>6. QED
  BY <1>1, <1>2, <1>3, <1>4, <1>5, JustifiedGrow

\* LoadNeeded: the library serves the name that its binary needs.
LEMMA JustifiedNeeded ==
  ASSUME LoaderInv, Justified, LoadNeeded
  PROVE  Justified'
<1> DEFINE e == Head(queue)
           L == Len(binaries)
           Q == [name : Name, by : 1..L + 1]
<1>1. PICK f \in Found(e) :
        /\ binaries' = Append(binaries, [file |-> f, as |-> e.name, by |-> e.by])
        /\ queue' = Tail(queue) \o Needs(f, L + 1)
  BY DEF LoadNeeded
<1>2. /\ TypeOK /\ ByEarlier /\ queue # <<>> /\ L \in Nat /\ pc = "search" /\ elf' = elf
      /\ queue \in Seq([name : Name, by : 1..L])
  BY FieldTypes DEF LoaderInv, LoadInv, CtorInv, LoadNeeded, TypeOK
<1>3. e = queue[1] /\ 1 \in DOMAIN queue
  BY <1>2
<1>4. e.name \in Name /\ e.by \in 1..L /\ e.name \in NeedsOf(binaries[e.by].file)
  BY <1>2, <1>3, FieldTypes DEF Justified
<1>5. f \in File /\ f \in MayServe(e.name)
  <2>1. binaries[e.by].file \in File
    BY <1>2, <1>4, FieldTypes
  <2>2. elf[binaries[e.by].file].runpath \in Seq(Dir) /\ elf[binaries[e.by].file].rpath \in Seq(Dir)
    BY <1>2, <2>1, ElfType DEF Elf
  <2>3. QED
    BY <1>1, <1>4, <2>2, FindLibraryFiles, FoundServes DEF Found
<1> DEFINE t == Needs(f, L + 1)
<1>6. queue \in Seq(Q) /\ t \in Seq(Q)
  <2>1. [name : Name, by : 1..L] \subseteq Q /\ L + 1 \in 1..L + 1
    BY <1>2
  <2>2. queue \in Seq(Q)
    BY <1>2, <2>1, SeqMonotonic
  <2>3. t \in Seq(Q)
    BY <1>2, <1>5, <2>1, ElfType, NeedsType
  <2>4. QED
    BY <2>2, <2>3
<1>7. \A j \in DOMAIN t : t[j].by = L + 1 /\ t[j].name \in NeedsOf(f)
  BY DEF Needs, NeedsOf
<1>8. ASSUME NEW p \in DOMAIN queue'
      PROVE  \/ \E q \in DOMAIN queue : queue'[p] = queue[q]
             \/ queue'[p].by = L + 1 /\ queue'[p].name \in NeedsOf(f)
  <2>1. queue' = Tail(queue) \o t
    BY <1>1
  <2> HIDE DEF t, Q, L
  <2>2. \/ \E k \in DOMAIN queue : queue'[p] = queue[k]
        \/ \E j \in DOMAIN t : queue'[p] = t[j]
    <3>1. queue # <<>> /\ queue \in Seq(Q) /\ t \in Seq(Q) /\ p \in DOMAIN (Tail(queue) \o t)
      BY <1>2, <1>6, <1>8, <2>1, Zenon
    <3>2. \/ \E k \in DOMAIN queue : (Tail(queue) \o t)[p] = queue[k]
          \/ \E j \in DOMAIN t : (Tail(queue) \o t)[p] = t[j]
      BY <3>1, PopFrom
    <3>3. QED
      BY <2>1, <3>2, Zenon
  <2>3. QED
    BY <1>7, <2>2
<1>9. \E i \in DOMAIN binaries : IsLastRoot(i)
  BY <1>2 DEF Justified
<1>10. e.by \in 0..L /\ e.by # 0
  BY <1>2, <1>4
<1>11. QED
  BY <1>1, <1>2, <1>4, <1>5, <1>8, <1>9, <1>10, JustifiedGrow

\* Each step keeps the reasons.
LEMMA JustifiedStep == LoaderInv /\ Justified /\ [Next]_vars => Justified'
<1> SUFFICES ASSUME LoaderInv, Justified, [Next]_vars  PROVE Justified'
  OBVIOUS
<1>1. CASE LoadMain
  BY <1>1, LoaderAssumption, JustifiedRoot DEF LoadMain
<1>2. CASE LoadNeeded
  BY <1>2, JustifiedNeeded
<1>3. CASE \E n \in Name : Dlopen(n)
  <2>1. PICK n \in Name : Dlopen(n)
    BY <1>3
  <2>2. PICK f \in FindLibrary(n, <<>>, <<>>) : LoadRoot(f)
    BY <2>1 DEF Dlopen
  <2>3. f \in File
    BY <2>2, FindLibraryFiles
  <2>4. pc \notin {"search", "dead"} /\ elf' = elf
    BY <2>1 DEF Dlopen, Loadee
  <2>5. QED
    BY <2>2, <2>3, <2>4, JustifiedRoot
<1>4. CASE SkipLoaded \/ SkipLibc
  <2>1. /\ queue # <<>> /\ queue' = Tail(queue) /\ pc' = pc /\ UNCHANGED <<elf, binaries>>
        /\ queue \in Seq([name : Name, by : 1..Len(binaries)])
    BY <1>4 DEF SkipLoaded, SkipLibc, LoaderInv, LoadInv, TypeOK
  <2>2. ASSUME NEW p \in DOMAIN queue'
        PROVE  \E q \in DOMAIN queue : queue'[p] = queue[q]
    <3>1. p + 1 \in DOMAIN queue /\ queue'[p] = queue[p + 1]
      BY <2>1, <2>2
    <3>2. QED
      BY <3>1
  <2>3. QED
    BY <2>1, <2>2, JustifiedQuiet
<1>5. CASE \/ SearchDone \/ SkipRelocated \/ RelocateBinary \/ SkipInit \/ CallCtor
           \/ Enter \/ CtorReturns \/ Exit \/ \E s \in Sym : Dlsym(s)
  <2>1. /\ UNCHANGED <<elf, binaries, queue>>
        /\ pc' \in {"search", "relocate"} => pc \in {"search", "relocate"}
    BY <1>5 DEF SearchDone, SkipRelocated, RelocateBinary, SkipInit, CallCtor, Enter,
                CtorReturns, Exit, Dlsym, Loadee
  <2>2. QED
    BY <2>1, JustifiedQuiet
<1>6. CASE RelocateDone
  <2>1. UNCHANGED <<elf, binaries, queue>> /\ pc = "relocate"
    BY <1>6 DEF RelocateDone
  <2>2. QED
    BY <2>1, JustifiedQuiet
<1>7. CASE \/ LibraryNotFound \/ LoadFails \/ RelocationFails \/ ExecuteFails
           \/ \E n \in Name : DlopenFails(n)
           \/ \E s \in Sym : DlsymFails(s)
  <2>1. Die
    BY <1>7 DEF LibraryNotFound, LoadFails, RelocationFails, ExecuteFails, DlopenFails,
                DlsymFails
  <2>2. QED
    BY <2>1, JustifiedQuiet DEF Die
<1>8. CASE UNCHANGED vars
  BY <1>8, JustifiedQuiet DEF vars
<1>9. QED
  BY <1>1, <1>2, <1>3, <1>4, <1>5, <1>6, <1>7, <1>8 DEF Next, LoaderStep, LoadeeStep

\* Every binary of the link map is there for a reason: it may serve the name it
\* was loaded for, and that name is in a DT_NEEDED entry of an earlier binary
\* unless it is a root.
THEOREM BinariesAreJustified == Spec => []Justified
<1>1. Init => Justified
  <2>1. Init => DOMAIN binaries = {} /\ DOMAIN queue = {} /\ pc = "start"
    BY DEF Init
  <2>2. QED
    BY <2>1 DEF Justified
<1>2. LoaderInv /\ Justified /\ [Next]_vars => Justified'
  BY JustifiedStep
<1>3. QED
  BY <1>1, <1>2, LoaderInvariant, PTL DEF Spec

-----------------------------------------------------------------------------
\* The link map the loadee sees, and who the abstract state says has control.
VisibleFacts ==
  /\ pc \in {"init", "ctor", "running"} => Visible = Len(binaries) /\ AbstractMode = "user"
  /\ pc \in {"search", "relocate"} =>
       /\ \A i : IsLastRoot(i) => Visible = i - 1
       /\ AbstractMode = IF caller = "Run" THEN "boot" ELSE "user"
  /\ pc = "start" => Visible = 0 /\ AbstractMode = "boot"
  /\ pc \in {"dead", "exited"} => Visible = 0 /\ AbstractMode = "gone"

\* Visible and AbstractMode, case by case.
LEMMA VisibleCases == TypeOK => VisibleFacts
<1> SUFFICES ASSUME TypeOK  PROVE VisibleFacts
  OBVIOUS
<1>1. ASSUME pc \in {"init", "ctor", "running"}
      PROVE  Visible = Len(binaries) /\ AbstractMode = "user"
  BY <1>1, Zenon DEF Visible, AbstractMode, Loadee
<1>2. ASSUME pc \in {"search", "relocate"}
      PROVE  Visible = LastRoot - 1 /\ AbstractMode = IF caller = "Run" THEN "boot" ELSE "user"
  BY <1>2 DEF Visible, AbstractMode, Loadee
<1>3. pc = "start" => Visible = 0 /\ AbstractMode = "boot"
  BY DEF Visible, AbstractMode, Loadee
<1>4. pc \in {"dead", "exited"} => Visible = 0 /\ AbstractMode = "gone"
  BY DEF Visible, AbstractMode, Loadee
<1>5. QED
  BY <1>1, <1>2, <1>3, <1>4, LastRootIs DEF VisibleFacts

\* The abstract link map, when Relocate returns, extends the one before by the
\* last root and what is wanted after it, and is closed.
LEMMA RelocateDoneExtends ==
  ASSUME LoaderInv, LoaderInv', Justified, RelocateDone
  PROVE  Abstract!Extends(Libs') /\ Libs'[1] = MainFile
<1> DEFINE L == Len(binaries)
           l == [i \in 1..L |-> binaries[i].file]
<1>1. /\ pc = "relocate" /\ pc' \in {"init", "ctor", "running"} /\ TypeOK /\ TypeOK'
      /\ UNCHANGED <<elf, binaries>>
  <2>1. TypeOK /\ TypeOK' /\ caller \in {"Run", "ctor", "running"}
    BY DEF LoaderInv, LoadInv, TypeOK, Loadee
  <2>2. QED
    BY <2>1 DEF RelocateDone
<1>2. PICK r \in DOMAIN binaries : IsLastRoot(r)
  BY <1>1 DEF Justified
<1>3. /\ L \in Nat /\ DOMAIN binaries = 1..L /\ r \in 1..L
      /\ \A i \in 1..L : /\ binaries[i].file \in File /\ binaries[i].as \in Name
                         /\ binaries[i].by \in Nat /\ binaries[i].by < i
      /\ \A i \in 1..L : i > r => binaries[i].by # 0
  BY <1>1, <1>2, FieldTypes DEF LoaderInv, CtorInv, ByEarlier, IsLastRoot
<1>4. Visible = r - 1 /\ Visible' = L
  <2>1. Visible = r - 1
    BY <1>1, <1>2, VisibleCases DEF VisibleFacts
  <2>2. Visible' = L
    <3>1. TypeOK' => VisibleFacts'
      BY VisibleCases, PTL
    <3>2. QED
      BY <1>1, <3>1 DEF VisibleFacts
  <2>3. QED
    BY <2>1, <2>2
<1>5. Libs' = l /\ Libs = [i \in 1..r - 1 |-> binaries[i].file]
  BY <1>1, <1>4 DEF Libs
<1>6. l \in Seq(File) /\ Len(l) = L /\ DOMAIN l = 1..L
  BY <1>3, SeqDef
<1>7. Len(Libs) = r - 1 /\ DOMAIN Libs = 1..r - 1
  BY <1>3, <1>5
<1>8. \A i \in 1..r - 1 : l[i] = Libs[i]
  BY <1>3, <1>5
<1>9. \A n \in Name : [m \in Name |-> MayServe(m)][n] = MayServe(n)
  OBVIOUS
<1>10. \A f \in File : [g \in File |-> NeedsOf(g)][f] = NeedsOf(f) /\ NeedsOf(f) \subseteq Name
  <2>1. \A f \in File : elf[f].needed \in Seq(Name)
    BY <1>1, ElfType DEF Elf
  <2>2. QED
    BY <2>1 DEF NeedsOf
<1>11. ASSUME NEW k \in r + 1..L
       PROVE  \E i \in 1..k - 1 : \E n \in NeedsOf(l[i]) : l[k] \in MayServe(n)
  <2>1. k \in 1..L /\ k > r
    BY <1>3
  <2>2. /\ binaries[k].by \in 1..k - 1 /\ binaries[k].by \in 1..L
        /\ binaries[k].as \in NeedsOf(binaries[binaries[k].by].file)
        /\ binaries[k].file \in MayServe(binaries[k].as)
    BY <1>3, <2>1 DEF Justified
  <2>3. QED
    BY <2>1, <2>2
<1>12. ASSUME NEW i \in 1..L, NEW n \in NeedsOf(l[i])
       PROVE  n \in Skip \/ \E j \in 1..L : l[j] \in MayServe(n)
  <2>1. DependenciesMapped /\ Searched
    BY <1>1, InvMapped DEF LoaderInv, Searched
  <2>2. PICK k \in DOMAIN elf[binaries[i].file].needed : n = elf[binaries[i].file].needed[k]
    BY <1>12 DEF NeedsOf
  <2>3. n \in Skip \/ \E j \in DOMAIN binaries : binaries[j].as = n
    BY <1>3, <2>1, <2>2 DEF DependenciesMapped
  <2>4. QED
    BY <1>3, <2>3 DEF Justified
<1> HIDE DEF l, L
<1>13. \A k \in Len(Libs) + 2..Len(l) : Abstract!Wanted(l, k)
  <2>1. SUFFICES ASSUME NEW k \in Len(Libs) + 2..Len(l)  PROVE Abstract!Wanted(l, k)
    OBVIOUS
  <2>2. k \in r + 1..L
    BY <1>3, <1>6, <1>7, <2>1
  <2>3. PICK i \in 1..k - 1 : \E n \in NeedsOf(l[i]) : l[k] \in MayServe(n)
    BY <1>11, <2>2
  <2>4. l[i] \in File
    <3>1. i \in 1..L
      BY <1>3, <2>2
    <3>2. QED
      BY <1>6, <3>1
  <2>5. QED
    BY <1>9, <1>10, <2>3, <2>4 DEF Abstract!Wanted
<1>14. Abstract!Closed(l)
  <2>1. SUFFICES ASSUME NEW i \in DOMAIN l, NEW n \in NeedsOf(l[i])
                 PROVE  Abstract!Provided(l, n)
    BY <1>6, <1>10 DEF Abstract!Closed
  <2>2. n \in Skip \/ \E j \in 1..L : l[j] \in MayServe(n)
    BY <1>6, <1>12, <2>1
  <2>3. n \in Name
    BY <1>6, <1>10, <2>1
  <2>4. QED
    BY <1>6, <1>9, <2>2, <2>3 DEF Abstract!Provided
<1>15. Abstract!Extends(l)
  <2>1. Len(l) > Len(Libs) /\ \A i \in DOMAIN Libs : l[i] = Libs[i]
    BY <1>3, <1>6, <1>7, <1>8
  <2>2. QED
    BY <1>6, <1>13, <1>14, <2>1 DEF Abstract!Extends, Libs
<1>16. l[1] = MainFile
  <2>1. L > 0 /\ binaries[1].file = MainFile
    BY <1>1 DEF LoaderInv, CtorInv, MainFirst, L
  <2>2. QED
    BY <1>3, <2>1 DEF l
<1>17. QED
  BY <1>5, <1>15, <1>16

\* A step that the loadee does not see.
LEMMA Unseen ==
  ASSUME elf' = elf, AbstractMode' = AbstractMode, Visible' = Visible,
         \A i \in 1..Visible : binaries'[i] = binaries[i]
  PROVE  UNCHANGED Abstract!vars
<1>1. Libs' = Libs
  BY DEF Libs
<1>2. [f \in File |-> NeedsOf(f)]' = [f \in File |-> NeedsOf(f)]
  BY DEF NeedsOf
<1>3. QED
  BY <1>1, <1>2 DEF Abstract!vars, Libs

\* The process ends.
LEMMA StopStep ==
  ASSUME elf' = elf, TypeOK', pc' \in {"dead", "exited"}
  PROVE  Abstract!Stop
<1>1. TypeOK' => VisibleFacts'
  BY VisibleCases, PTL
<1>2. AbstractMode' = "gone" /\ Visible' = 0
  BY <1>1 DEF VisibleFacts
<1>3. [f \in File |-> NeedsOf(f)]' = [f \in File |-> NeedsOf(f)]
  BY DEF NeedsOf
<1>4. [i \in 1..Visible |-> binaries[i].file]' = <<>>
  BY <1>2
<1>5. QED
  BY <1>2, <1>3, <1>4 DEF Abstract!Stop

\* Relocate returns: the program starts, or dlopen has extended the link map.
LEMMA RelocateDoneStep ==
  ASSUME LoaderInv, LoaderInv', Justified, RelocateDone
  PROVE  Abstract!Start \/ Abstract!Open
<1>1. /\ pc = "relocate" /\ TypeOK /\ TypeOK' /\ elf' = elf
      /\ caller \in {"Run", "ctor", "running"}
      /\ pc' = IF caller = "Run" THEN "init" ELSE caller
  <2>1. TypeOK /\ TypeOK' /\ caller \in {"Run", "ctor", "running"}
    BY DEF LoaderInv, LoadInv, TypeOK, Loadee
  <2>2. QED
    BY <2>1 DEF RelocateDone
<1>2. AbstractMode' = "user"
  <2>1. TypeOK' => VisibleFacts'
    BY VisibleCases, PTL
  <2>2. QED
    BY <1>1, <2>1 DEF VisibleFacts
<1>3. AbstractMode = IF caller = "Run" THEN "boot" ELSE "user"
  BY <1>1, VisibleCases DEF VisibleFacts
<1>4. [f \in File |-> NeedsOf(f)]' = [f \in File |-> NeedsOf(f)]
  BY <1>1 DEF NeedsOf
<1>5. Abstract!Extends(Libs') /\ Libs'[1] = MainFile
  BY RelocateDoneExtends
<1>6. CASE caller = "Run"
  <2>1. AbstractMode = "boot"
    BY <1>3, <1>6
  <2>2. Abstract!Start
    BY <1>2, <1>4, <1>5, <2>1, Zenon DEF Abstract!Start, Libs
  <2>3. QED
    BY <2>2
<1>7. CASE caller # "Run"
  <2>1. AbstractMode = "user" /\ AbstractMode' = AbstractMode
    BY <1>2, <1>3, <1>7
  <2>2. Abstract!Open
    BY <1>4, <1>5, <2>1, Zenon DEF Abstract!Open, Libs
  <2>3. QED
    BY <2>2
<1>8. QED
  BY <1>6, <1>7

\* A root is loaded: the loadee does not see it yet.
LEMMA RootUnseen ==
  ASSUME LoaderInv, LoaderInv', NEW f \in File, LoadRoot(f), elf' = elf,
         \/ pc = "start" /\ caller' = "Run"
         \/ pc \in Loadee /\ caller' \in Loadee
  PROVE  UNCHANGED Abstract!vars
<1> DEFINE L == Len(binaries)
           b == [file |-> f, as |-> FileName[f], by |-> 0]
<1>1. TypeOK /\ TypeOK' /\ pc' = "search" /\ binaries' = Append(binaries, b)
  BY DEF LoaderInv, LoadInv, LoadRoot
<1>2. b \in [file : File, as : Name, by : Nat] /\ b.by = 0
  BY SearchAssumption
<1>3. /\ L \in Nat /\ DOMAIN binaries' = 1..L + 1 /\ binaries'[L + 1] = b
      /\ \A i \in 1..L : binaries'[i] = binaries[i]
  BY <1>1, <1>2, GrowLinkMap
<1> HIDE DEF b
<1>4. PICK r \in Nat : r = L + 1
  BY <1>3
<1>5. IsLastRoot(r)'
  BY <1>2, <1>3, <1>4 DEF IsLastRoot
<1>6. TypeOK' => VisibleFacts'
  BY VisibleCases, PTL
<1>7. Visible' = L /\ AbstractMode' = IF caller' = "Run" THEN "boot" ELSE "user"
  <2>1. Visible' = r - 1 /\ AbstractMode' = IF caller' = "Run" THEN "boot" ELSE "user"
    BY <1>1, <1>5, <1>6 DEF VisibleFacts
  <2>2. QED
    BY <1>3, <1>4, <2>1
<1>8. Visible = L /\ AbstractMode' = AbstractMode
  <2>1. CASE pc = "start" /\ caller' = "Run"
    <3>1. L = 0
      BY <2>1 DEF LoaderInv, CtorInv, MainFirst
    <3>2. QED
      BY <1>1, <1>7, <2>1, <3>1, VisibleCases DEF VisibleFacts
  <2>2. CASE pc \in Loadee /\ caller' \in Loadee
    BY <1>1, <1>7, <2>2, VisibleCases DEF VisibleFacts, Loadee
  <2>3. QED
    BY <2>1, <2>2
<1>9. QED
  BY <1>3, <1>7, <1>8, Unseen

\* A library that a root needs is loaded: the loadee does not see it yet.
LEMMA NeededUnseen ==
  ASSUME LoaderInv, LoaderInv', Justified, LoadNeeded
  PROVE  UNCHANGED Abstract!vars
<1>1. /\ TypeOK /\ TypeOK' /\ pc = "search" /\ pc' = "search"
      /\ UNCHANGED <<elf, caller>> /\ queue # <<>>
  BY DEF LoaderInv, LoadInv, LoadNeeded
<1> DEFINE e == Head(queue)
           L == Len(binaries)
<1>2. PICK f \in Found(e) :
        binaries' = Append(binaries, [file |-> f, as |-> e.name, by |-> e.by])
  BY DEF LoadNeeded
<1>3. e \in [name : Name, by : 1..L]
  BY <1>1, HeadTailProperties, Zenon DEF TypeOK
<1>4. e.name \in Name /\ e.by \in 1..L /\ L \in Nat
  BY <1>1, <1>3, FieldTypes
<1>5. f \in File
  BY <1>2, <1>4, FindLibraryFiles DEF Found
<1> DEFINE b == [file |-> f, as |-> e.name, by |-> e.by]
<1>6. b \in [file : File, as : Name, by : Nat] /\ b.by # 0
  BY <1>4, <1>5
<1>7. binaries' = Append(binaries, b)
  BY <1>2
<1> HIDE DEF b
<1>8. /\ DOMAIN binaries = 1..L /\ DOMAIN binaries' = 1..L + 1 /\ binaries'[L + 1] = b
      /\ \A i \in 1..L : binaries'[i] = binaries[i]
  BY <1>1, <1>6, <1>7, GrowLinkMap
<1>9. PICK r \in DOMAIN binaries : IsLastRoot(r)
  BY <1>1 DEF Justified
<1>10. IsLastRoot(r)' /\ r \in 1..L
  BY <1>4, <1>6, <1>8, <1>9 DEF IsLastRoot
<1>11. TypeOK' => VisibleFacts'
  BY VisibleCases, PTL
<1>12. Visible' = r - 1 /\ AbstractMode' = IF caller = "Run" THEN "boot" ELSE "user"
  BY <1>1, <1>10, <1>11 DEF VisibleFacts
<1>13. Visible = r - 1 /\ AbstractMode = IF caller = "Run" THEN "boot" ELSE "user"
  BY <1>1, <1>9, VisibleCases DEF VisibleFacts
<1>14. \A i \in 1..Visible : binaries'[i] = binaries[i]
  BY <1>4, <1>8, <1>10, <1>13
<1>15. QED
  BY <1>1, <1>12, <1>13, <1>14, Unseen

\* A step that keeps the link map and who has control.
LEMMA QuietUnseen ==
  ASSUME TypeOK, TypeOK', UNCHANGED <<elf, binaries, caller>>,
         \/ pc' = pc
         \/ pc \in {"search", "relocate"} /\ pc' \in {"search", "relocate"}
         \/ pc \in {"init", "ctor", "running"} /\ pc' \in {"init", "ctor", "running"}
  PROVE  UNCHANGED Abstract!vars
<1>1. LastRoot' = LastRoot
  BY DEF LastRoot
<1>2. Visible' = Visible
  BY <1>1 DEF Visible, Loadee
<1>3. AbstractMode' = AbstractMode
  BY DEF AbstractMode
<1>4. QED
  BY <1>2, <1>3, Unseen

\* Every step maps to a step of LinkMap or to none.
LEMMA LinkMapSimulation ==
  LoaderInv /\ LoaderInv' /\ Justified /\ [Next]_vars => [Abstract!Next]_(Abstract!vars)
<1> SUFFICES ASSUME LoaderInv, LoaderInv', Justified, [Next]_vars
             PROVE  Abstract!Next \/ UNCHANGED Abstract!vars
  OBVIOUS
<1>0. TypeOK /\ TypeOK'
  BY DEF LoaderInv, LoadInv
<1>1. CASE LoadMain
  <2>1. pc = "start" /\ caller' = "Run" /\ elf' = elf /\ LoadRoot(MainFile)
    BY <1>1 DEF LoadMain, LoaderInv, CtorInv, MainFirst
  <2>2. QED
    BY <2>1, LoaderAssumption, RootUnseen
<1>2. CASE LoadNeeded
  BY <1>2, NeededUnseen
<1>3. CASE \E n \in Name : Dlopen(n)
  <2>1. PICK n \in Name : Dlopen(n)
    BY <1>3
  <2>2. PICK f \in FindLibrary(n, <<>>, <<>>) : LoadRoot(f)
    BY <2>1 DEF Dlopen
  <2>3. f \in File
    BY <2>2, FindLibraryFiles
  <2>4. pc \in Loadee /\ caller' \in Loadee /\ elf' = elf
    BY <2>1 DEF Dlopen
  <2>5. QED
    BY <2>2, <2>3, <2>4, RootUnseen
<1>4. CASE RelocateDone
  BY <1>4, RelocateDoneStep DEF Abstract!Next
<1>5. CASE \/ SkipLoaded \/ SkipLibc \/ SearchDone \/ SkipRelocated \/ RelocateBinary
           \/ SkipInit \/ CallCtor \/ CtorReturns \/ Enter \/ \E s \in Sym : Dlsym(s)
  BY <1>0, <1>5, QuietUnseen DEF SkipLoaded, SkipLibc, SearchDone, SkipRelocated,
     RelocateBinary, SkipInit, CallCtor, CtorReturns, Enter, Dlsym
<1>6. CASE Exit
  BY <1>0, <1>6, StopStep DEF Exit, Abstract!Next
<1>7. CASE \/ LibraryNotFound \/ LoadFails \/ RelocationFails \/ ExecuteFails
           \/ \E n \in Name : DlopenFails(n)
           \/ \E s \in Sym : DlsymFails(s)
  <2>1. Die
    BY <1>7 DEF LibraryNotFound, LoadFails, RelocationFails, ExecuteFails, DlopenFails,
                DlsymFails
  <2>2. QED
    BY <1>0, <2>1, StopStep DEF Die, Abstract!Next
<1>8. CASE UNCHANGED vars
  BY <1>0, <1>8, QuietUnseen DEF vars
<1>9. QED
  BY <1>1, <1>2, <1>3, <1>4, <1>5, <1>6, <1>7, <1>8 DEF Next, LoaderStep, LoadeeStep

\* The loader keeps the promise of LinkMap, for every file system and every
\* sequence of dlopens: the loadee only ever sees link maps that are closed
\* under DT_NEEDED and minimal, and that grow by one dlopen at a time.
THEOREM LoaderImplementsLinkMap == Spec => ImplementsLinkMap
<1>1. Init => Abstract!Init
  <2>1. SUFFICES ASSUME Init  PROVE Abstract!Init
    OBVIOUS
  <2>2. TypeOK /\ pc = "start"
    BY <2>1, TypeInit DEF Init
  <2>3. Visible = 0 /\ AbstractMode = "boot"
    BY <2>2, VisibleCases DEF VisibleFacts
  <2>4. [i \in 1..Visible |-> binaries[i].file] = <<>>
    BY <2>3
  <2>5. [f \in File |-> NeedsOf(f)] \in [File -> SUBSET Name]
    <3>1. \A f \in File : elf[f].needed \in Seq(Name)
      BY <2>2, ElfType DEF Elf
    <3>2. \A f \in File : NeedsOf(f) \subseteq Name
      BY <3>1 DEF NeedsOf
    <3>3. QED
      BY <3>2
  <2>6. QED
    BY <2>3, <2>4, <2>5 DEF Abstract!Init
<1>2. LoaderInv /\ LoaderInv' /\ Justified /\ [Next]_vars => [Abstract!Next]_(Abstract!vars)
  BY LinkMapSimulation
<1>3. QED
  BY <1>1, <1>2, LoaderInvariant, BinariesAreJustified, PTL
  DEF Spec, ImplementsLinkMap, Abstract!Spec

=============================================================================
