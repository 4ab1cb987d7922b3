----------------------------- MODULE DlThreads -----------------------------
(***************************************************************************)
(* Threads of the loadee that call dlopen and dlsym.  The functions behind *)
(* them were written for one thread: LoadDependingLibs and Relocate change *)
(* binaries_, loaded_ and relocated_ in several steps, without a lock, and *)
(* SearchSym reads binaries_.  One action is one operation on one of these *)
(* containers, with the local work around it.                              *)
(*                                                                         *)
(* Two operations on one container at the same time are a data race; what  *)
(* it does to the containers is undefined and is modelled as the end of    *)
(* the process (Crash), which may or may not come.  What is left are the   *)
(* races between the operations.                                           *)
(***************************************************************************)
EXTENDS Integers, Sequences, FiniteSets, FiniteSetsExt, SequencesExt

CONSTANTS
  Thread,
  Lib,        \* libraries that threads may open, each under one name
  Needed,     \* for each library, the sequence of its DT_NEEDED entries
  Refers,     \* for each library, the symbols its relocations refer to
  Defines,    \* for each library, the symbols it defines
  Sym,
  MaxCalls    \* bound: calls of dlopen by one thread

ASSUME ThreadsAssumption ==
  /\ Needed \in [Lib -> Seq(Lib)]
  /\ Refers \in [Lib -> SUBSET Sym]
  /\ Defines \in [Lib -> SUBSET Sym]
  /\ MaxCalls \in Nat

VARIABLES
  alive,      \* the process is
  binaries,   \* binaries_: [lib, ready]; Load makes an element ready
  loaded,     \* loaded_
  relocated,  \* relocated_, the paths that map to true
  bound,      \* for each index, the relocations that are written: symbol |-> index
  pc,         \* for each thread: "idle", or the place in dlopen
  local,      \* for each thread: the argument of dlopen, the library in hand, the
              \*   queue, and the loop of Relocate
  opened,     \* for each thread, the libraries for which dlopen has returned
  calls,      \* for each thread, the number of its calls
  handed,     \* what dlsym has returned
  overlap     \* history: two calls have been in progress at once

vars == <<alive, binaries, loaded, relocated, bound, pc, local, opened, calls, handed,
          overlap>>

\* Of a thread that is not in dlopen.
Nothing == [root |-> CHOOSE l \in Lib : TRUE, lib |-> CHOOSE l \in Lib : TRUE,
            queue |-> <<>>, i |-> 0, end |-> 0]

Init ==
  /\ alive = TRUE
  /\ binaries = <<>>
  /\ loaded = {}
  /\ relocated = {}
  /\ bound = <<>>
  /\ pc = [t \in Thread |-> "idle"]
  /\ local = [t \in Thread |-> Nothing]
  /\ opened = [t \in Thread |-> {}]
  /\ calls = [t \in Thread |-> 0]
  /\ handed = {}
  /\ overlap = FALSE

Goto(t, l) == pc' = [pc EXCEPT ![t] = l]
Busy(t) == \E u \in Thread \ {t} : pc[u] # "idle"

-----------------------------------------------------------------------------
\* dlopen: the argument is found on disk, then LoadDependingLibs begins.
Dlopen(t, l) ==
  /\ alive /\ pc[t] = "idle" /\ calls[t] < MaxCalls
  /\ Goto(t, "emplace")
  /\ local' = [local EXCEPT ![t].root = l, ![t].lib = l]
  /\ calls' = [calls EXCEPT ![t] = @ + 1]
  /\ overlap' = (overlap \/ Busy(t))
  /\ UNCHANGED <<alive, binaries, loaded, relocated, bound, opened, handed>>

\* binaries_.emplace_back: the constructor has read the file's headers, the
\* segments are not mapped and there are no symbols yet.
Emplace(t) ==
  /\ alive /\ pc[t] = "emplace"
  /\ binaries' = Append(binaries, [lib |-> local[t].lib, ready |-> FALSE])
  /\ Goto(t, "load")
  /\ UNCHANGED <<alive, loaded, relocated, bound, local, opened, calls, handed, overlap>>

\* The argument itself is entered in loaded_ after it was loaded, a library that
\* is needed before.
IsRoot(t) == local[t].lib = local[t].root

\* binaries_.back().Load: the last binary may be another thread's by now.
Load(t) ==
  /\ alive /\ pc[t] = "load" /\ ~Last(binaries).ready
  /\ binaries' = [binaries EXCEPT ![Len(binaries)].ready = TRUE]
  /\ Goto(t, IF IsRoot(t) THEN "insert" ELSE "push")
  /\ UNCHANGED <<alive, loaded, relocated, bound, local, opened, calls, handed, overlap>>

\* It is mapped already: mmap returns another address, and the CHECK fails.
LoadTwice(t) ==
  /\ alive /\ pc[t] = "load" /\ Last(binaries).ready
  /\ alive' = FALSE
  /\ UNCHANGED <<binaries, loaded, relocated, bound, pc, local, opened, calls, handed, overlap>>

Insert(t) ==
  /\ alive /\ pc[t] = "insert"
  /\ loaded' = loaded \cup {local[t].lib}
  /\ Goto(t, IF IsRoot(t) THEN "push" ELSE "emplace")
  /\ UNCHANGED <<alive, binaries, relocated, bound, local, opened, calls, handed, overlap>>

\* binaries_.back().neededs(), which Load has filled.
Push(t) ==
  /\ alive /\ pc[t] = "push"
  /\ local' = [local EXCEPT ![t].queue =
                 @ \o IF Last(binaries).ready THEN Needed[Last(binaries).lib] ELSE <<>>]
  /\ Goto(t, "search")
  /\ UNCHANGED <<alive, binaries, loaded, relocated, bound, opened, calls, handed, overlap>>

\* Mutant of SkipLoaded: continue before queue.pop().
SkipLoadedNoPop(t) ==
  /\ alive /\ pc[t] = "search" /\ local[t].queue # <<>>
  /\ Head(local[t].queue) \in loaded
  /\ UNCHANGED vars

SkipLoaded(t) ==
  /\ alive /\ pc[t] = "search" /\ local[t].queue # <<>>
  /\ Head(local[t].queue) \in loaded
  /\ local' = [local EXCEPT ![t].queue = Tail(@)]
  /\ UNCHANGED <<alive, binaries, loaded, relocated, bound, pc, opened, calls, handed, overlap>>

\* loaded_.count(library_name) is 0; loaded_.insert comes next.
NotLoaded(t) ==
  /\ alive /\ pc[t] = "search" /\ local[t].queue # <<>>
  /\ Head(local[t].queue) \notin loaded
  /\ local' = [local EXCEPT ![t].lib = Head(local[t].queue), ![t].queue = Tail(@)]
  /\ Goto(t, "insert")
  /\ UNCHANGED <<alive, binaries, loaded, relocated, bound, opened, calls, handed, overlap>>

-----------------------------------------------------------------------------
\* Relocate: the loop takes the end of binaries_ once, when it begins.
SearchDone(t) ==
  /\ alive /\ pc[t] = "search" /\ local[t].queue = <<>>
  /\ Goto(t, "relocate")
  /\ local' = [local EXCEPT ![t].i = 1, ![t].end = Len(binaries)]
  /\ UNCHANGED <<alive, binaries, loaded, relocated, bound, opened, calls, handed, overlap>>

At(t) == local[t].i <= local[t].end

SkipRelocated(t) ==
  /\ alive /\ pc[t] = "relocate" /\ At(t)
  /\ binaries[local[t].i].lib \in relocated
  /\ local' = [local EXCEPT ![t].i = @ + 1]
  /\ UNCHANGED <<alive, binaries, loaded, relocated, bound, pc, opened, calls, handed, overlap>>

\* relocated_ is set before the work is done.
Mark(t) ==
  /\ alive /\ pc[t] = "relocate" /\ At(t)
  /\ binaries[local[t].i].lib \notin relocated
  /\ relocated' = relocated \cup {binaries[local[t].i].lib}
  /\ Goto(t, "write")
  /\ UNCHANGED <<alive, binaries, loaded, bound, local, opened, calls, handed, overlap>>

\* SearchSym over the symbols that have been read so far.
Defining(s) == {j \in DOMAIN binaries : binaries[j].ready /\ s \in Defines[binaries[j].lib]}

\* Mutant of Write: the last definition.
WriteLast(t) ==
  /\ alive /\ pc[t] = "write"
  /\ LET b == binaries[local[t].i]
         found == {s \in Refers[b.lib] : b.ready /\ Defining(s) # {}}
     IN  bound' = [j \in DOMAIN bound \cup {local[t].i} |->
                     IF j = local[t].i THEN [s \in found |-> Max(Defining(s))] ELSE bound[j]]
  /\ local' = [local EXCEPT ![t].i = @ + 1]
  /\ Goto(t, "relocate")
  /\ UNCHANGED <<alive, binaries, loaded, relocated, opened, calls, handed, overlap>>

\* A binary that is not ready has no relocations yet.  A symbol that is not
\* found is left alone.
Write(t) ==
  /\ alive /\ pc[t] = "write"
  /\ LET b == binaries[local[t].i]
         found == {s \in Refers[b.lib] : b.ready /\ Defining(s) # {}}
     IN  bound' = [j \in DOMAIN bound \cup {local[t].i} |->
                     IF j = local[t].i THEN [s \in found |-> Min(Defining(s))] ELSE bound[j]]
  /\ local' = [local EXCEPT ![t].i = @ + 1]
  /\ Goto(t, "relocate")
  /\ UNCHANGED <<alive, binaries, loaded, relocated, opened, calls, handed, overlap>>

Return(t) ==
  /\ alive /\ pc[t] = "relocate" /\ ~At(t)
  /\ Goto(t, "idle")
  /\ opened' = [opened EXCEPT ![t] = @ \cup {local[t].root}]
  /\ local' = [local EXCEPT ![t] = Nothing]
  /\ UNCHANGED <<alive, binaries, loaded, relocated, bound, calls, handed, overlap>>

-----------------------------------------------------------------------------
Dlsym(t, s) ==
  /\ alive /\ pc[t] = "idle" /\ Defining(s) # {}
  /\ handed' = handed \cup {[sym |-> s, bin |-> Min(Defining(s))]}
  /\ overlap' = (overlap \/ Busy(t))
  /\ UNCHANGED <<alive, binaries, loaded, relocated, bound, pc, local, opened, calls>>

\* CHECK(opt)
DlsymFails(t, s) ==
  /\ alive /\ pc[t] = "idle" /\ Defining(s) = {}
  /\ alive' = FALSE
  /\ UNCHANGED <<binaries, loaded, relocated, bound, pc, local, opened, calls, handed, overlap>>

\* A thread is in dlopen, another one in dlopen or dlsym.
Crash ==
  /\ alive
  /\ \E t, u \in Thread : t # u /\ pc[t] # "idle"
  /\ alive' = FALSE
  /\ overlap' = TRUE
  /\ UNCHANGED <<binaries, loaded, relocated, bound, pc, local, opened, calls, handed>>

-----------------------------------------------------------------------------
\* dlopen, once it is called.
Step(t) ==
  \/ Emplace(t) \/ Load(t) \/ LoadTwice(t) \/ Insert(t) \/ Push(t)
  \/ SkipLoaded(t) \/ NotLoaded(t) \/ SearchDone(t)
  \/ SkipRelocated(t) \/ Mark(t) \/ Write(t) \/ Return(t)

Next ==
  \/ \E t \in Thread : Step(t)
  \/ \E t \in Thread, l \in Lib : Dlopen(t, l)
  \/ \E t \in Thread, s \in Sym : Dlsym(t, s) \/ DlsymFails(t, s)
  \/ Crash

Spec == Init /\ [][Next]_vars

\* The kernel runs every thread; no thread is made to call anything.
FairSpec == Spec /\ \A t \in Thread : WF_vars(Step(t))

-----------------------------------------------------------------------------
(***************************************************************************)
(*                              Properties                                 *)
(***************************************************************************)

\* What library l needs, and so on, and l itself.
Closed(S)  == \A m \in S : Range(Needed[m]) \subseteq S
Closure(l) == {m \in Lib : \A S \in SUBSET Lib : l \in S /\ Closed(S) => m \in S}
Defined(l) == UNION {Defines[m] : m \in Closure(l)}
Home(l)    == {j \in DOMAIN binaries : binaries[j].lib = l}

\* As long as no dlopen has met another call, whichever thread made which:
\* everything that dlopen has returned for can be used by every thread.  It and
\* all it needs is mapped, its first mapping is relocated, each reference that
\* its own dependences can resolve is bound to the first definition, and dlsym
\* gives the same address to all threads.
SerialUsable ==
  alive /\ ~overlap =>
    /\ \A t \in Thread : \A l \in opened[t] : \A m \in Closure(l) :
         /\ Home(m) # {} /\ binaries[Min(Home(m))].ready
         /\ Min(Home(m)) \in DOMAIN bound
         /\ \A s \in Refers[m] \cap Defined(m) :
              /\ s \in DOMAIN bound[Min(Home(m))]
              /\ bound[Min(Home(m))][s] = Min(Defining(s))
    /\ \A h \in handed : h.bin = Min(Defining(h.sym))

\* A dlopen returns, or the process ends, even if two threads load the same
\* libraries, skip each other's and see each other's half made entries.
DlopenReturns == \A t \in Thread : pc[t] # "idle" ~> pc[t] = "idle" \/ ~alive

=============================================================================
