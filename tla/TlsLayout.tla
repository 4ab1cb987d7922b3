----------------------------- MODULE TlsLayout -----------------------------
(***************************************************************************)
(* Thread-local storage of the loadee.  Relocate asks TLSSymOffset where   *)
(* the block of a binary will be, relative to the thread pointer; Execute, *)
(* much later and by a loop of its own, copies the blocks into a thread-   *)
(* local array of sloader (tls_secure.cc); sloader_tls_get_addr finds      *)
(* variables a third way.  In between, constructors run, and they may      *)
(* dlopen more binaries.                                                   *)
(*                                                                         *)
(* Addresses are relative to sloader_dummy_to_secure_tls_space, an array   *)
(* of TlsSpace bytes that the linker places last in sloader's own block,   *)
(* so that the thread pointer %fs is FS == TlsSpace.  Offsets are signed   *)
(* here, where the code uses unsigned numbers and wraps around.            *)
(***************************************************************************)
EXTENDS Integers, Sequences, FiniteSets

CONSTANTS
  TlsSpace,    \* TLS_SPACE_FOR_LOADEE
  PtrSize,     \* sizeof(void*)
  Images,      \* the PT_TLS segments a binary may have
  MaxBins,     \* bound: length of the link map
  LibcTlsAddr  \* address of a thread-local variable of the C library, errno

\* memsz is 0 where there is no PT_TLS.
Image == {b \in [tls : BOOLEAN, memsz : Nat, filesz : Nat] :
            b.filesz <= b.memsz /\ (~b.tls => b.memsz = 0)}

ASSUME TlsAssumption ==
  /\ TlsSpace \in Nat
  /\ PtrSize \in Nat \ {0}
  /\ Images \subseteq Image
  /\ MaxBins \in Nat
  /\ LibcTlsAddr \in Int

VARIABLES
  bins,        \* binaries_
  pc,          \* what the process is doing
  entered,     \* Execute has laid out the blocks
  walk,        \* the loop over binaries_ in TLSSymOffset and Execute
  offset,      \* the offset of TLSSymOffset ...
  acc,         \*   ... and its value when the loop arrives at each binary
  libc_tpoff,  \* what TLSSymOffset returned for the variable of the C library
  size,        \* tls_block_size
  tls_offset,  \* sloader_tls_offset
  start,       \* where Execute has put the block of a binary
  mem          \* the array, and the pointer that %fs points to

vars == <<bins, pc, entered, walk, offset, acc, libc_tpoff, size, tls_offset, start, mem>>

FS   == TlsSpace
Addr == 0..TlsSpace + PtrSize - 1

\* A byte: what the array holds at first (zeros, and at both ends the marks of
\* write_sloader_dummy_to_secure_tls_space), zero, byte at of the segment of
\* binary of, byte at of the pointer to address of, or what the loadee has stored.
Byte == [what : {"own", "zero", "data", "ptr", "stored"}, of : Int, at : Nat]
Own  == [what |-> "own", of |-> 0, at |-> 0]
Zero == [what |-> "zero", of |-> 0, at |-> 0]
Data(i, k) == [what |-> "data", of |-> i, at |-> k]
Ptr(a, k)  == [what |-> "ptr", of |-> a, at |-> k]

\* What TLSSymOffset adds st_value to, for a symbol of binary i.
Tpoff(i) == acc[i] - bins[i].memsz

\* The workaround of TLSSymOffset for the variables of libc.so.
LibcTpoff == TlsSpace - LibcTlsAddr

\* sloader_tls_get_addr, with ti_module ignored, for a ti_offset of o.
TlsGetAddr(o) == tls_offset + o

Init ==
  /\ bins \in UNION {[1..n -> Images] : n \in 1..MaxBins}
  /\ pc = "relocate"
  /\ entered = FALSE
  /\ walk = 1
  /\ offset = 0
  /\ acc = <<0>>
  /\ libc_tpoff = 0
  /\ size = 0
  /\ tls_offset = TlsSpace
  /\ start = <<>>
  /\ mem = [a \in Addr |-> IF a < FS THEN Own ELSE Ptr(FS, a - FS)]

-----------------------------------------------------------------------------
\* The loop of TLSSymOffset.  Every search for a symbol walks the same way and
\* stops where the symbol is defined; this one goes to the end.
\* Mutants of AfterBlock: .tbss is forgotten; blocks are.
AfterBlockFilesz(o, b) == IF b.tls THEN o - b.filesz ELSE o
AfterBlockSame(o, b) == o

AfterBlock(o, b) == IF b.tls THEN o - b.memsz ELSE o

Walk ==
  /\ pc = "relocate" /\ walk <= Len(bins)
  /\ offset' = AfterBlock(offset, bins[walk])
  /\ acc' = [k \in DOMAIN acc \cup {walk + 1} |->
               IF k = walk + 1 THEN AfterBlock(offset, bins[walk]) ELSE acc[k]]
  /\ walk' = walk + 1
  /\ UNCHANGED <<bins, pc, entered, libc_tpoff, size, tls_offset, start, mem>>

\* Relocate is through.  A name that no binary defines, errno, has led the
\* search to the end of the loop.
RelocateDone ==
  /\ pc = "relocate" /\ walk > Len(bins)
  /\ pc' = IF entered THEN "running" ELSE "ctor"
  /\ libc_tpoff' = LibcTpoff
  /\ UNCHANGED <<bins, entered, walk, offset, acc, size, tls_offset, start, mem>>

\* Mutant of Dlopen: TLSSymOffset goes on from where it was.
DlopenKeepOffset ==
  /\ pc \in {"ctor", "running"}
  /\ Len(bins) < MaxBins
  /\ \E b \in Images : bins' = Append(bins, b)
  /\ pc' = "relocate"
  /\ walk' = 1
  /\ UNCHANGED <<entered, offset, acc, libc_tpoff, size, tls_offset, start,
                 mem>>

\* The loadee opens one more library; Relocate follows.
Dlopen ==
  /\ pc \in {"ctor", "running"}
  /\ Len(bins) < MaxBins
  /\ \E b \in Images : bins' = Append(bins, b)
  /\ pc' = "relocate"
  /\ walk' = 1
  /\ offset' = 0
  /\ UNCHANGED <<entered, acc, libc_tpoff, size, tls_offset, start, mem>>

-----------------------------------------------------------------------------
\* Execute, once the constructors have returned.

CtorsDone ==
  /\ pc = "ctor"
  /\ pc' = "size"
  /\ walk' = 1
  /\ UNCHANGED <<bins, entered, offset, acc, libc_tpoff, size, tls_offset,
                 start, mem>>

AddSize ==
  /\ pc = "size" /\ walk <= Len(bins)
  /\ size' = size + (IF bins[walk].tls THEN bins[walk].memsz ELSE 0)
  /\ walk' = walk + 1
  /\ UNCHANGED <<bins, pc, entered, offset, acc, tls_offset, start,
                 mem, libc_tpoff>>

\* CHECK_LE(tls_block_size, 4096UL)
Fits == size <= TlsSpace

CheckSize ==
  /\ pc = "size" /\ walk > Len(bins)
  /\ pc' = IF Fits THEN "copy" ELSE "dead"
  /\ walk' = 1
  /\ UNCHANGED <<bins, entered, offset, acc, libc_tpoff, size, tls_offset,
                 start, mem>>

SkipBlock ==
  /\ pc = "copy" /\ walk <= Len(bins)
  /\ ~bins[walk].tls
  /\ walk' = walk + 1
  /\ UNCHANGED <<bins, pc, entered, offset, acc, libc_tpoff, size,
                 tls_offset, start, mem>>

\* Mutant of AfterCopy: .tbss is not cleared.
AfterCopyNoTbss(i, b, e) ==
  [a \in Addr |->
     IF a \in e..e + PtrSize - 1 THEN Ptr(e, a - e)
     ELSE IF a \in e - b.memsz..e - 1 THEN Data(i, a - (e - b.memsz))
     ELSE mem[a]]

\* The memory after block i, a segment b, has been put below address e: .tdata
\* from the image, .tbss cleared, then the address e itself stored at e.
AfterCopy(i, b, e) ==
  [a \in Addr |->
     IF a \in e..e + PtrSize - 1 THEN Ptr(e, a - e)
     ELSE IF a \in e - b.memsz + b.filesz..e - 1 THEN Zero
     ELSE IF a \in e - b.memsz..e - 1 THEN Data(i, a - (e - b.memsz))
     ELSE mem[a]]

\* Where the block is put, and what sloader_tls_offset becomes.
BlockStart(b) == tls_offset - b.memsz

\* Mutant of CopyBlock: sloader_tls_offset stays.
CopyBlockKeepOffset ==
  /\ pc = "copy" /\ walk <= Len(bins)
  /\ bins[walk].tls
  /\ mem' = AfterCopy(walk, bins[walk], tls_offset)
  /\ start' = [k \in DOMAIN start \cup {walk} |->
                 IF k = walk THEN BlockStart(bins[walk]) ELSE start[k]]
  /\ walk' = walk + 1
  /\ UNCHANGED <<bins, pc, entered, offset, acc, libc_tpoff, size, tls_offset>>

CopyBlock ==
  /\ pc = "copy" /\ walk <= Len(bins)
  /\ bins[walk].tls
  /\ mem' = AfterCopy(walk, bins[walk], tls_offset)
  /\ start' = [k \in DOMAIN start \cup {walk} |->
                 IF k = walk THEN BlockStart(bins[walk]) ELSE start[k]]
  /\ tls_offset' = BlockStart(bins[walk])
  /\ walk' = walk + 1
  /\ UNCHANGED <<bins, pc, entered, offset, acc, libc_tpoff, size>>

\* ExecuteCore
Enter ==
  /\ pc = "copy" /\ walk > Len(bins)
  /\ pc' = "running"
  /\ entered' = TRUE
  /\ UNCHANGED <<bins, walk, offset, acc, libc_tpoff, size, tls_offset,
                 start, mem>>

Next ==
  \/ Walk \/ RelocateDone \/ Dlopen
  \/ CtorsDone \/ AddSize \/ CheckSize \/ SkipBlock \/ CopyBlock \/ Enter

Spec == Init /\ [][Next]_vars

-----------------------------------------------------------------------------
(***************************************************************************)
(*                              Properties                                 *)
(***************************************************************************)

\* Types.  The offsets of TLSSymOffset are at most 0, sloader_tls_offset stays
\* between 0 and TLS_SPACE_FOR_LOADEE.
TypeOK ==
  /\ bins \in Seq(Images)
  /\ pc \in {"relocate", "ctor", "size", "copy", "running", "dead"}
  /\ entered \in BOOLEAN
  /\ walk \in 1..Len(bins) + 1
  /\ offset \in Int /\ offset <= 0
  /\ DOMAIN acc \subseteq 1..Len(bins) + 1
  /\ \A k \in DOMAIN acc : acc[k] \in Int /\ acc[k] <= 0
  /\ libc_tpoff \in Int
  /\ size \in Nat
  /\ tls_offset \in 0..TlsSpace
  /\ DOMAIN start \subseteq 1..Len(bins)
  /\ \A i \in DOMAIN start : start[i] \in 0..TlsSpace
  /\ mem \in [Addr -> Byte]

\* Two loops, one layout: the block of a binary is where the R_X86_64_TPOFF64
\* relocations, computed before the constructors ran, say it is.
TpoffMatchesLayout ==
  \A i \in DOMAIN start : start[i] = FS + Tpoff(i)

\* A binary whose offsets are known.
Placed == {i \in DOMAIN bins : i \in DOMAIN acc /\ bins[i].tls}
Block(i) == FS + Tpoff(i)..FS + Tpoff(i) + bins[i].memsz - 1

\* No two binaries share a byte of thread-local storage (a library opened after
\* the program was entered included, though nothing initializes its block), and
\* the blocks that Execute fills lie within the array.
BlocksDisjoint ==
  /\ \A i, j \in Placed : i # j => Block(i) \cap Block(j) = {}
  /\ \A i \in DOMAIN start :
       start[i] >= 0 /\ start[i] + bins[i].memsz <= TlsSpace

\* Once relocations have been computed for a binary, by whichever Relocate, a
\* later one computes the same: appending to binaries_ moves no block.
TpoffStable == [][\A k \in DOMAIN acc : k \in DOMAIN acc' /\ acc'[k] = acc[k]]_vars

IsLast(i) == \A j \in DOMAIN start : j <= i
Intact(i) ==
  \A k \in 0..bins[i].memsz - 1 :
    mem[start[i] + k] = IF k < bins[i].filesz THEN Data(i, k) ELSE Zero

\* sloader_tls_get_addr looks at neither the module nor the thread.  If only one
\* binary of the link map has thread-local storage, and it was there when the
\* program was entered, the byte at a ti_offset is nevertheless the one that the
\* offset of TPOFF64 leads to.  (Where ti_offset is left to R_X86_64_DTPOFF64,
\* which Relocate skips, it is 0 for every variable.)
GetAddrSingleModule ==
  pc = "running" =>
    \A i \in DOMAIN start : Placed = {i} =>
      \A o \in 0..bins[i].memsz - 1 : TlsGetAddr(o) = FS + Tpoff(i) + o

\* The parts of the inductive invariant behind TpoffMatchesLayout: the offsets
\* of TLSSymOffset are sums of block sizes, they go down, and the two loops of
\* Execute follow them.
AccInv ==
  /\ 1 \in DOMAIN acc /\ acc[1] = 0
  /\ \A k \in DOMAIN acc : 1..k \subseteq DOMAIN acc
  /\ \A k \in DOMAIN bins :
       k + 1 \in DOMAIN acc => acc[k + 1] = AfterBlock(acc[k], bins[k])
  /\ \A j, k \in DOMAIN acc : j <= k => acc[k] <= acc[j]
WalkInv ==
  /\ pc = "relocate" => walk \in DOMAIN acc /\ offset = acc[walk]
  /\ pc # "relocate" => Len(bins) + 1 \in DOMAIN acc
ExecInv ==
  /\ pc \in {"ctor", "size", "copy"} => ~entered
  /\ pc = "running" => entered
  /\ ~entered /\ pc \in {"relocate", "ctor", "size"} =>
       tls_offset = TlsSpace /\ DOMAIN start = {}
  /\ ~entered /\ pc \in {"relocate", "ctor"} => size = 0
  /\ pc = "size" => size = -acc[walk]
  /\ pc = "copy" => /\ size = -acc[Len(bins) + 1] /\ size <= TlsSpace
                    /\ tls_offset = TlsSpace + acc[walk]
  /\ DOMAIN start \subseteq DOMAIN acc

\* An invariant of TlsLayout that each step preserves by itself.
TlsInv == TypeOK /\ AccInv /\ WalkInv /\ ExecInv /\ TpoffMatchesLayout

\* The layout drawn in Execute: the .tdata of every binary, one below the other.
TdataIntact ==
  pc = "running" =>
    \A i \in DOMAIN start : \A k \in 0..bins[i].filesz - 1 :
      mem[start[i] + k] = Data(i, k)

\* "Workaround for TLS variable in libc.so such as errno": %fs plus the offset
\* that TLSSymOffset returned is the variable whenever the loadee runs.
LibcTlsFound == pc \in {"ctor", "running"} => FS + libc_tpoff = LibcTlsAddr

=============================================================================
