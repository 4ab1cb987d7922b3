----------------------------- MODULE TlsThreads -----------------------------
(***************************************************************************)
(* TlsLayout with code of the loadee that uses thread-local variables:     *)
(* constructors, which run before Execute has filled the array, and        *)
(* threads, each with an array of its own that nothing fills.  A variable  *)
(* is reached by its offset from %fs (TPOFF64), or by __tls_get_addr,      *)
(* which adds the global sloader_tls_offset to the thread's array and      *)
(* changes its mind while Execute copies the blocks.                       *)
(***************************************************************************)
EXTENDS TlsLayout

CONSTANTS
  Thread,    \* threads that the loadee may start
  MaxStores  \* bound: stores by constructors and threads

ASSUME ThreadAssumption == MaxStores \in Nat

VARIABLES
  arrays,    \* for each thread that was started, its array and what %fs points to
  stores     \* how many stores there have been

tvars == <<vars, arrays, stores>>

Mark == [what |-> "stored", of |-> 0, at |-> 0]

TInit == Init /\ arrays = <<>> /\ stores = 0

Layout == Next /\ UNCHANGED <<arrays, stores>>

\* The ti_offset of byte k: in the file, or what R_X86_64_DTPOFF64 leaves there.
TiOffset(k) == {k, 0}

\* Where code finds byte k of the variables of binary i: by TPOFF64, or, where
\* the linker has chosen a dynamic model, by __tls_get_addr.
Reached(i, k) == ({FS + Tpoff(i) + k} \cup {TlsGetAddr(o) : o \in TiOffset(k)}) \cap Addr

\* A constructor of binary i, on the main thread.
CtorStores(i) ==
  /\ pc = "ctor" /\ stores < MaxStores /\ bins[i].tls
  /\ \E k \in 0..bins[i].memsz - 1 : \E a \in Reached(i, k) : mem' = [mem EXCEPT ![a] = Mark]
  /\ stores' = stores + 1
  /\ UNCHANGED <<bins, pc, entered, walk, offset, acc, libc_tpoff, size, tls_offset, start, arrays>>

\* pthread_create: the C library clears sloader's thread-local block, in which
\* the array is, and sets up the thread control block.
NewArray == [a \in Addr |-> IF a < FS THEN Zero ELSE Ptr(FS, a - FS)]

StartThread(t) ==
  /\ entered /\ pc = "running" /\ t \notin DOMAIN arrays
  /\ arrays' = [u \in DOMAIN arrays \cup {t} |-> IF u = t THEN NewArray ELSE arrays[u]]
  /\ UNCHANGED <<vars, stores>>

\* A thread stores, whatever the main thread is doing, into a variable of a
\* binary that was there when the program was entered.
ThreadStores(t, i) ==
  /\ t \in DOMAIN arrays /\ stores < MaxStores /\ i \in DOMAIN start
  /\ \E k \in 0..bins[i].memsz - 1 : \E a \in Reached(i, k) :
       arrays' = [arrays EXCEPT ![t][a] = Mark]
  /\ stores' = stores + 1
  /\ UNCHANGED vars

TNext ==
  \/ Layout
  \/ \E i \in 1..Len(bins) : CtorStores(i)
  \/ \E t \in Thread : StartThread(t)
  \/ \E t \in Thread, i \in 1..Len(bins) : ThreadStores(t, i)

TSpec == TInit /\ [][TNext]_tvars

-----------------------------------------------------------------------------
(***************************************************************************)
(*                              Properties                                 *)
(***************************************************************************)

FirstLarge == \A i \in DOMAIN start : (\A j \in DOMAIN start : i <= j) => bins[i].memsz >= PtrSize

\* Constructors run before the blocks are filled, and one that uses
\* __tls_get_addr is sent to the thread control block: still, when the program
\* is entered, the last block is as the file has it (what constructors stored
\* there is lost) and %fs:0 holds %fs again, if the first block is at least as
\* large as a pointer.
EntryClean ==
  pc = "running" => /\ \A i \in DOMAIN start : IsLast(i) => Intact(i)
                    /\ FirstLarge => \A k \in 0..PtrSize - 1 : mem[FS + k] = Ptr(FS, k)

\* Whatever threads store into variables of binaries that were there when the
\* program was entered, by either way of reaching them and with the module ignored,
\* stays within the blocks that Execute has put down in the main thread's array:
\* the rest of their own arrays and their thread control blocks are as
\* pthread_create has left them.
ThreadStoresInside ==
  \A t \in DOMAIN arrays : \A a \in Addr :
    (a < FS => \A i \in DOMAIN start : a < start[i]) => arrays[t][a] = NewArray[a]

=============================================================================
