----------------------------- MODULE ImageData -----------------------------
(***************************************************************************)
(* The contents of the mapped segments.  Load maps them MAP_SHARED, so     *)
(* that after fork parent and child have one copy of every binary that was *)
(* loaded before, but each its own binaries_ and relocated_, which are on  *)
(* the heap.  Relocate writes addresses into them, and R_X86_64_COPY reads *)
(* from them; the loadee stores into them; and every dlopen, in whichever  *)
(* process, goes over the whole link map again.                            *)
(***************************************************************************)
EXTENDS Integers, Sequences, FiniteSets, FiniteSetsExt

CONSTANTS
  Proc,      \* process ids
  First,     \* the first of them
  Lib, Sym,  \* files; symbols, none of them in sloader_libc_map
  Image,     \* for each file, the words of its data segment
  Weak,      \* for each file, the symbols it has undefined and weak
  Maps,      \* the link maps that LoadDependingLibs may have made for the program
  Opened,    \* the files that dlopen is called with
  MaxBins    \* bound: mappings in all

\* A word of a file: the symbols it is the home of, and the relocation for it,
\* with its one symbol, if it has one.  RELATIVE points to another word of the file.
Word == {r \in [def : SUBSET Sym, rel : {"none", "RELATIVE", "GLOB_DAT", "COPY"}, sym : SUBSET Sym] :
           \A x, y \in r.sym : x = y}

ASSUME ImageAssumption ==
  /\ First \in Proc
  /\ \A l \in Lib : Image[l] \in Seq(Word)
  /\ Weak \in [Lib -> SUBSET Sym]
  /\ Maps \subseteq Seq(Lib) \ {<<>>}  \* the program is the first
  /\ Opened \subseteq Lib
  /\ MaxBins \in Nat

VARIABLES
  live,       \* the processes that run
  binaries,   \* binaries_ of each: [lib, seg], seg the segment that is mapped
  relocated,  \* relocated_ of each
  reloc_i,    \* the loop of Relocate of each, 0 while the loadee runs
  seg,        \* the contents of all segments there are
  linked      \* history: how many binaries Run loaded

vars == <<live, binaries, relocated, reloc_i, seg, linked>>

\* Contents: what the file has, the address of a word, or what a process stored.
Content(l, w) == [is |-> "file", of |-> l, at |-> w]
Addr(k, w)    == [is |-> "addr", of |-> k, at |-> w]
Stored        == [is |-> "data", of |-> 0, at |-> 0]
Fresh(l)      == [w \in DOMAIN Image[l] |-> Content(l, w)]

Init ==
  /\ live = {First}
  /\ \E m \in Maps :
       /\ binaries = [p \in Proc |-> IF p = First
                                     THEN [i \in DOMAIN m |-> [lib |-> m[i], seg |-> i]] ELSE <<>>]
       /\ seg = [i \in DOMAIN m |-> Fresh(m[i])]
       /\ linked = Len(m)
  /\ relocated = [p \in Proc |-> {}]
  /\ reloc_i = [p \in Proc |-> IF p = First THEN 1 ELSE 0]

-----------------------------------------------------------------------------
\* The symbols a file defines, and the word that is the home of one.
Defs(l)    == UNION {Image[l][w].def : w \in DOMAIN Image[l]}
Home(l, s) == CHOOSE w \in DOMAIN Image[l] : s \in Image[l][w].def

\* SearchSym, from the first binary or from the second on: a binary that defines
\* the symbol, else one in which it is undefined and weak, with value and size 0.
Defining(p, s, first) == {i \in first..Len(binaries[p]) : s \in Defs(binaries[p][i].lib)}
Weakly(p, s, first)   == {i \in first..Len(binaries[p]) : s \in Weak[binaries[p][i].lib]}
Place(p, i, s) == Addr(binaries[p][i].seg, Home(binaries[p][i].lib, s))
Start(p, i)    == Addr(binaries[p][i].seg, 0)

\* Mutant of CopySources: skip_main is false.
CopySourcesMain(p, s) == Defining(p, s, 1)

\* SearchSym(name, true)
CopySources(p, s) == Defining(p, s, 2)

\* What Relocate makes of word w of binary i.  A copy from a weak symbol is of no
\* bytes.
Relocate(p, i, w) ==
  LET b == binaries[p][i]
      r == Image[b.lib][w]
      s == CHOOSE x \in Sym : x \in r.sym
      a == Place(p, Min(CopySources(p, s)), s)
  IN  CASE r.rel = "RELATIVE" -> Addr(b.seg, 1)
        [] r.rel = "GLOB_DAT" /\ Defining(p, s, 1) # {} -> Place(p, Min(Defining(p, s, 1)), s)
        [] r.rel = "GLOB_DAT" /\ Defining(p, s, 1) = {} /\ Weakly(p, s, 1) # {} ->
             Start(p, Min(Weakly(p, s, 1)))
        [] r.rel = "COPY" /\ CopySources(p, s) # {} -> seg[a.of][a.at]
        [] OTHER -> seg[b.seg][w]

\* A copy of a symbol that is not found: std::abort.
Aborts(p, i) ==
  \E w \in DOMAIN Image[binaries[p][i].lib] :
    LET r == Image[binaries[p][i].lib][w] IN
      r.rel = "COPY" /\ \A s \in r.sym : CopySources(p, s) = {} /\ Weakly(p, s, 2) = {}

\* Mutant of IsRelocated: relocated_ is not looked at.
IsRelocatedNever(p, l) == FALSE
IsRelocated(p, l) == l \in relocated[p]

Looping(p) == p \in live /\ reloc_i[p] \in 1..Len(binaries[p])
At(p) == binaries[p][reloc_i[p]]

SkipRelocated(p) ==
  /\ Looping(p) /\ IsRelocated(p, At(p).lib)
  /\ reloc_i' = [reloc_i EXCEPT ![p] = @ + 1]
  /\ UNCHANGED <<live, binaries, relocated, seg, linked>>

RelocateBinary(p) ==
  /\ Looping(p) /\ ~IsRelocated(p, At(p).lib) /\ ~Aborts(p, reloc_i[p])
  /\ relocated' = [relocated EXCEPT ![p] = @ \cup {At(p).lib}]
  /\ seg' = [seg EXCEPT ![At(p).seg] = [w \in DOMAIN @ |-> Relocate(p, reloc_i[p], w)]]
  /\ reloc_i' = [reloc_i EXCEPT ![p] = @ + 1]
  /\ UNCHANGED <<live, binaries, linked>>

RelocateDone(p) ==
  /\ p \in live /\ reloc_i[p] = Len(binaries[p]) + 1
  /\ reloc_i' = [reloc_i EXCEPT ![p] = 0]
  /\ UNCHANGED <<live, binaries, relocated, seg, linked>>

\* std::abort in Relocate, or the loadee exits.
Ends(p) ==
  /\ p \in live
  /\ reloc_i[p] = 0 \/ (Looping(p) /\ ~IsRelocated(p, At(p).lib) /\ Aborts(p, reloc_i[p]))
  /\ live' = live \ {p}
  /\ UNCHANGED <<binaries, relocated, reloc_i, seg, linked>>

-----------------------------------------------------------------------------
\* The loadee of process p.

Dlopen(p, l) ==
  /\ p \in live /\ reloc_i[p] = 0 /\ Len(seg) < MaxBins
  /\ binaries' = [binaries EXCEPT ![p] = Append(@, [lib |-> l, seg |-> Len(seg) + 1])]
  /\ seg' = Append(seg, Fresh(l))
  /\ reloc_i' = [reloc_i EXCEPT ![p] = 1]
  /\ UNCHANGED <<live, relocated, linked>>

\* The heap is copied; MAP_SHARED segments are not.
Fork(p, c) ==
  /\ p \in live /\ reloc_i[p] = 0
  /\ binaries[c] = <<>>
  /\ live' = live \cup {c}
  /\ binaries' = [binaries EXCEPT ![c] = binaries[p]]
  /\ relocated' = [relocated EXCEPT ![c] = relocated[p]]
  /\ UNCHANGED <<reloc_i, seg, linked>>

\* A variable is written; words that only hold an address are left alone.
Store(p, i, w) ==
  /\ p \in live /\ reloc_i[p] = 0
  /\ Image[binaries[p][i].lib][w].def # {}
  /\ seg' = [seg EXCEPT ![binaries[p][i].seg][w] = Stored]
  /\ UNCHANGED <<live, binaries, relocated, reloc_i, linked>>

Next ==
  \E p \in Proc :
    \/ SkipRelocated(p) \/ RelocateBinary(p) \/ RelocateDone(p) \/ Ends(p)
    \/ \E l \in Opened : Dlopen(p, l)
    \/ \E c \in Proc : Fork(p, c)
    \/ \E i \in DOMAIN binaries[p] : \E w \in DOMAIN Image[binaries[p][i].lib] : Store(p, i, w)

Spec == Init /\ [][Next]_vars

-----------------------------------------------------------------------------
(***************************************************************************)
(*                              Properties                                 *)
(***************************************************************************)

MappedBy(p) == {binaries[p][i].seg : i \in DOMAIN binaries[p]}

\* Whatever parent and child open after fork, each without the other's
\* knowledge, no address that Relocate has put into memory one of them sees
\* leads into a binary that only the other has mapped.
SlotsMapped ==
  \A p \in live : \A k \in MappedBy(p) : \A w \in DOMAIN seg[k] :
    seg[k][w].is = "addr" => seg[k][w].of \in MappedBy(p)

\* No dlopen, in this process or in one that shares the segment, undoes a store
\* of the loadee: a COPY is not executed again, nor any other relocation.
StoresKept ==
  [][\A k \in DOMAIN seg : \A w \in DOMAIN seg[k] :
       seg[k][w].is = "data" => seg'[k][w].is = "data"]_vars

\* The libraries of Run that define s.
Sources(p, s) == {i \in 2..linked : s \in Defs(binaries[p][i].lib)}

\* Until the program stores into it, its copy of a variable holds what the file of
\* the first library has that defines it among those that Run loaded, "0xdeadbeef"
\* in tests/global_variable/main.c: also where that is a pointer, which Relocate
\* fills in later in the library and never in the copy, and whatever is opened
\* later.  If none of them defines it, one of them has it undefined and weak, and
\* the copy is left as the file of the program has it.
CopyInitial ==
  \A p \in live : binaries[p][1].lib \in relocated[p] =>
    LET main == binaries[p][1] IN
      \A w \in DOMAIN Image[main.lib] : \A s \in Image[main.lib][w].sym :
        Image[main.lib][w].rel = "COPY" =>
          LET from == binaries[p][Min(Sources(p, s))].lib IN
            \/ seg[main.seg][w] = Stored
            \/ Sources(p, s) # {} /\ seg[main.seg][w] = Content(from, Home(from, s))
            \/ /\ Sources(p, s) = {} /\ \E i \in 2..linked : s \in Weak[binaries[p][i].lib]
               /\ seg[main.seg][w] = Content(main.lib, w)

=============================================================================
