-------------------------- MODULE DlThreadsProofs --------------------------
(***************************************************************************)
(* Proofs about DlThreads, for any threads, libraries and dependences      *)
(* among them, cycles included, and any number of calls.                   *)
(***************************************************************************)
EXTENDS DlThreads, TLAPS, WellFoundedInduction, SequenceTheorems

Serial == alive /\ ~overlap
Mapped == {binaries[j].lib : j \in DOMAIN binaries}

-----------------------------------------------------------------------------
(***************************************************************************)
(*                        The inductive invariant                          *)
(***************************************************************************)

Place  == {"idle", "emplace", "load", "insert", "push", "search", "relocate", "write"}
Binary == [lib : Lib, ready : BOOLEAN]
Locals == [root : Lib, lib : Lib, queue : Seq(Lib), i : Nat, end : Nat]

ThreadTypes ==
  /\ binaries \in Seq(Binary)
  /\ loaded \subseteq Lib
  /\ pc \in [Thread -> Place]
  /\ local = [t \in Thread |-> local[t]]
  /\ \A t \in Thread : IF pc[t] = "idle" THEN local[t] = Nothing ELSE local[t] \in Locals
  /\ opened \in [Thread -> SUBSET Lib]

\* At most one call is in progress.
OneCaller == \A t, u \in Thread : pc[t] # "idle" /\ pc[u] # "idle" => t = u
Quiet     == \A t \in Thread : pc[t] = "idle"

\* What Relocate has written is what SearchSym would find now.
BoundRight ==
  /\ DOMAIN bound \subseteq DOMAIN binaries
  /\ \A j \in DOMAIN bound :
       /\ binaries[j].ready
       /\ Refers[binaries[j].lib] \cap Defined(binaries[j].lib) \subseteq DOMAIN bound[j]
       /\ \A s \in DOMAIN bound[j] : Defining(s) # {} /\ bound[j][s] = Min(Defining(s))

\* So is what dlsym has returned.
HandedRight == \A h \in handed : Defining(h.sym) # {} /\ h.bin = Min(Defining(h.sym))

\* The first mapping of a library is relocated.
FirstBound(m) == Home(m) # {} /\ Min(Home(m)) \in DOMAIN bound

OpenedBound == \A t \in Thread : \A l \in opened[t] : \A m \in Closure(l) : FirstBound(m)

\* Between two calls nothing is pending.
QuietInv ==
  /\ \A j \in DOMAIN binaries :
       binaries[j].ready /\ Range(Needed[binaries[j].lib]) \subseteq loaded
  /\ Mapped = loaded
  /\ \A m \in relocated : FirstBound(m)

\* The last of binaries_ is the library in hand, its needs are not queued yet.
InHand(t) == pc[t] \in {"load", "push"} \/ (pc[t] = "insert" /\ IsRoot(t))

\* In a call of thread t: which binary is ready, which name is loaded and which
\* is still to be, and how far Relocate has come.
CallReady(t) ==
  /\ \A j \in DOMAIN binaries : binaries[j].ready <=> ~(pc[t] = "load" /\ j = Len(binaries))
  /\ InHand(t) => Len(binaries) > 0 /\ binaries[Len(binaries)].lib = local[t].lib

CallLoaded(t) ==
  /\ \A m \in Mapped :
       m \in loaded \/ (pc[t] \in {"load", "insert"} /\ IsRoot(t) /\ m = local[t].lib)
  /\ \A m \in loaded : m \in Mapped \/ (pc[t] = "emplace" /\ m = local[t].lib)
  /\ pc[t] \in {"push", "search", "relocate", "write"} \/ ~IsRoot(t) => local[t].root \in loaded
  /\ pc[t] = "emplace" /\ ~IsRoot(t) => local[t].lib \in loaded

CallNeeds(t) ==
  /\ \A j \in DOMAIN binaries : \A n \in Range(Needed[binaries[j].lib]) :
       \/ n \in loaded \/ n \in Range(local[t].queue)
       \/ pc[t] = "insert" /\ n = local[t].lib
       \/ InHand(t) /\ j = Len(binaries)
  /\ pc[t] \in {"relocate", "write"} => local[t].queue = <<>>

CallRelocated(t) ==
  /\ \A m \in relocated : FirstBound(m) \/ (pc[t] = "write" /\ m = binaries[local[t].i].lib)
  /\ pc[t] \in {"relocate", "write"} =>
       /\ local[t].end = Len(binaries) /\ local[t].i \in 1..Len(binaries) + 1
       /\ \A j \in 1..local[t].i - 1 : binaries[j].lib \in relocated
  /\ pc[t] = "write" =>
       /\ local[t].i <= Len(binaries) /\ local[t].i = Min(Home(binaries[local[t].i].lib))
       /\ binaries[local[t].i].lib \in relocated

CallInv(t) == CallReady(t) /\ CallLoaded(t) /\ CallNeeds(t) /\ CallRelocated(t)

SerialInv ==
  Serial =>
    /\ ThreadTypes /\ OneCaller /\ BoundRight /\ HandedRight /\ OpenedBound
    /\ Quiet => QuietInv
    /\ \A t \in Thread : pc[t] # "idle" => CallInv(t)

-----------------------------------------------------------------------------
(***************************************************************************)
(*                   First mappings, first definitions                     *)
(***************************************************************************)

\* A non-empty set of natural numbers has a least element, and Min is it.
LEMMA LeastOf ==
  ASSUME NEW S \in SUBSET Nat, S # {}
  PROVE  Min(S) \in S /\ \A y \in S : Min(S) <= y
<1>1. PICK x \in S : \A y \in S : ~(<<y, x>> \in OpToRel(<, Nat))
  BY NatLessThanWellFounded, WFMin, Zenon
<1>2. ASSUME NEW y \in S  PROVE x <= y
  <2>1. ~(y < x)
    BY <1>1, Zenon DEF OpToRel
  <2>2. QED
    BY <2>1
<1>3. QED
  BY <1>2 DEF Min

\* Larger elements do not change the least one.
LEMMA LeastStays ==
  ASSUME NEW S \in SUBSET Nat, S # {}, NEW T \in SUBSET Nat, S \subseteq T,
         \A x \in T : x \in S \/ \A y \in S : y <= x
  PROVE  Min(T) = Min(S)
<1>1. PICK a \in Nat : a = Min(S) /\ a \in S /\ \A y \in S : a <= y
  BY LeastOf
<1>2. PICK b \in Nat : b = Min(T) /\ b \in T /\ \A y \in T : b <= y
  BY LeastOf
<1>3. a <= b /\ b <= a
  BY <1>1, <1>2
<1>4. QED
  BY <1>1, <1>2, <1>3

LEMMA BinaryFacts ==
  ASSUME ThreadTypes
  PROVE  /\ Len(binaries) \in Nat /\ DOMAIN binaries = 1..Len(binaries)
         /\ \A j \in DOMAIN binaries : binaries[j].lib \in Lib /\ binaries[j].ready \in BOOLEAN
         /\ \A m : Home(m) \in SUBSET Nat
         /\ \A s : Defining(s) \in SUBSET Nat
<1>1. binaries \in Seq(Binary)
  BY DEF ThreadTypes
<1>2. Len(binaries) \in Nat /\ DOMAIN binaries = 1..Len(binaries)
  BY <1>1
<1>3. \A j \in DOMAIN binaries : binaries[j] \in Binary
  BY <1>1
<1>4. QED
  BY <1>2, <1>3 DEF Home, Defining, Binary

\* The first mapping of a library is one of it.
LEMMA FirstOf ==
  ASSUME ThreadTypes, NEW m, Home(m) # {}
  PROVE  /\ Min(Home(m)) \in DOMAIN binaries /\ binaries[Min(Home(m))].lib = m
         /\ \A j \in Home(m) : Min(Home(m)) <= j
<1>1. Min(Home(m)) \in Home(m) /\ \A j \in Home(m) : Min(Home(m)) <= j
  BY BinaryFacts, LeastOf
<1>2. QED
  BY <1>1 DEF Home

\* binaries_ is only appended to, and Load makes only its last element ready.
Grown ==
  /\ binaries' \in Seq(Binary) /\ Len(binaries) <= Len(binaries')
  /\ \A j \in DOMAIN binaries :
       binaries'[j].lib = binaries[j].lib /\ (binaries[j].ready => binaries'[j].ready)
  /\ \A j \in DOMAIN binaries' :
       binaries'[j].ready => (j \in DOMAIN binaries /\ binaries[j].ready) \/ j >= Len(binaries)

\* That changes no first mapping and no first definition.
LEMMA FirstsStay ==
  ASSUME ThreadTypes, Grown
  PROVE  /\ \A m : Home(m) # {} => Home(m)' # {} /\ Min(Home(m)') = Min(Home(m))
         /\ \A s : Defining(s) # {} => Defining(s)' # {} /\ Min(Defining(s)') = Min(Defining(s))
<1>1. /\ Len(binaries) \in Nat /\ DOMAIN binaries = 1..Len(binaries)
      /\ \A m : Home(m) \in SUBSET Nat
      /\ \A s : Defining(s) \in SUBSET Nat
  BY BinaryFacts
<1>2. Len(binaries') \in Nat /\ DOMAIN binaries' = 1..Len(binaries')
  BY DEF Grown
<1>3. DOMAIN binaries \subseteq DOMAIN binaries'
  BY <1>1, <1>2 DEF Grown
<1>4. ASSUME NEW m, Home(m) # {}
      PROVE  Home(m)' # {} /\ Min(Home(m)') = Min(Home(m))
  <2>1. Home(m) \subseteq Home(m)' /\ Home(m)' \in SUBSET Nat
    BY <1>2, <1>3 DEF Home, Grown
  <2>2. ASSUME NEW x \in Home(m)'
        PROVE  x \in Home(m) \/ \A y \in Home(m) : y <= x
    BY <1>1, <1>2 DEF Home, Grown
  <2>3. Min(Home(m)') = Min(Home(m))
    BY <1>1, <1>4, <2>1, <2>2, LeastStays
  <2>4. QED
    BY <1>4, <2>1, <2>3
<1>5. ASSUME NEW s, Defining(s) # {}
      PROVE  Defining(s)' # {} /\ Min(Defining(s)') = Min(Defining(s))
  <2>1. Defining(s) \subseteq Defining(s)' /\ Defining(s)' \in SUBSET Nat
    BY <1>2, <1>3 DEF Defining, Grown
  <2>2. ASSUME NEW x \in Defining(s)'
        PROVE  x \in Defining(s) \/ \A y \in Defining(s) : y <= x
    <3>1. x \in 1..Len(binaries') /\ binaries'[x].ready /\ s \in Defines[binaries'[x].lib]
      BY <1>2 DEF Defining
    <3>2. CASE x \in DOMAIN binaries /\ binaries[x].ready
      BY <3>1, <3>2 DEF Defining, Grown
    <3>3. CASE x >= Len(binaries)
      BY <3>1, <3>3, <1>1, <1>2 DEF Defining
    <3>4. QED
      BY <3>1, <3>2, <3>3, <1>2 DEF Grown
  <2>3. Min(Defining(s)') = Min(Defining(s))
    BY <1>1, <1>5, <2>1, <2>2, LeastStays
  <2>4. QED
    BY <1>5, <2>1, <2>3
<1>6. QED
  BY <1>4, <1>5

\* What was bound, returned and opened stays right.
LEMMA RightStays ==
  ASSUME ThreadTypes, Grown, bound' = bound
  PROVE  /\ BoundRight => BoundRight'
         /\ HandedRight /\ handed' = handed => HandedRight'
         /\ \A m : FirstBound(m) => FirstBound(m)'
         /\ OpenedBound /\ opened' = opened => OpenedBound'
<1>1. /\ \A m : Home(m) # {} => Home(m)' # {} /\ Min(Home(m)') = Min(Home(m))
      /\ \A s : Defining(s) # {} => Defining(s)' # {} /\ Min(Defining(s)') = Min(Defining(s))
  BY FirstsStay
<1>2. BoundRight => BoundRight'
  <2> SUFFICES ASSUME BoundRight PROVE BoundRight'
    OBVIOUS
  <2>1. DOMAIN bound' \subseteq DOMAIN binaries'
    BY BinaryFacts DEF BoundRight, Grown
  <2>2. ASSUME NEW j \in DOMAIN bound'
        PROVE  /\ binaries'[j].ready
               /\ Refers[binaries'[j].lib] \cap Defined(binaries'[j].lib) \subseteq DOMAIN bound'[j]
               /\ \A s \in DOMAIN bound'[j] :
                    Defining(s)' # {} /\ bound'[j][s] = Min(Defining(s)')
    <3>1. /\ j \in DOMAIN bound /\ j \in DOMAIN binaries /\ bound'[j] = bound[j]
          /\ binaries'[j].lib = binaries[j].lib /\ binaries'[j].ready
      BY DEF BoundRight, Grown
    <3>2. Refers[binaries[j].lib] \cap Defined(binaries[j].lib) \subseteq DOMAIN bound[j]
      BY <3>1 DEF BoundRight
    <3>3. ASSUME NEW s \in DOMAIN bound[j]
          PROVE  Defining(s)' # {} /\ bound[j][s] = Min(Defining(s)')
      <4>1. Defining(s) # {} /\ bound[j][s] = Min(Defining(s))
        BY <3>1 DEF BoundRight
      <4>2. QED
        BY <4>1, <1>1, Zenon
    <3>4. QED
      BY <3>1, <3>2, <3>3
  <2>3. QED
    BY <2>1, <2>2 DEF BoundRight
<1>3. HandedRight /\ handed' = handed => HandedRight'
  <2> SUFFICES ASSUME HandedRight, handed' = handed, NEW h \in handed
               PROVE  Defining(h.sym)' # {} /\ h.bin = Min(Defining(h.sym)')
    BY DEF HandedRight
  <2>1. Defining(h.sym) # {} /\ h.bin = Min(Defining(h.sym))
    BY DEF HandedRight
  <2>2. QED
    BY <2>1, <1>1, Zenon
<1>4. \A m : FirstBound(m) => FirstBound(m)'
  <2> SUFFICES ASSUME NEW m, FirstBound(m) PROVE FirstBound(m)'
    OBVIOUS
  <2>1. Home(m) # {} /\ Min(Home(m)) \in DOMAIN bound
    BY DEF FirstBound
  <2>2. Home(m)' # {} /\ Min(Home(m)') = Min(Home(m))
    BY <2>1, <1>1, Zenon
  <2>3. QED
    BY <2>1, <2>2 DEF FirstBound
<1>5. OpenedBound /\ opened' = opened => OpenedBound'
  BY <1>4 DEF OpenedBound
<1>6. QED
  BY <1>2, <1>3, <1>4, <1>5

-----------------------------------------------------------------------------
(***************************************************************************)
(*                            The steps of a call                          *)
(***************************************************************************)

\* A step within a call of t: only what is said of this call may change.
LEMMA InCall ==
  ASSUME SerialInv, Serial, NEW t \in Thread, pc[t] # "idle",
         NEW p \in Place \ {"idle"}, pc' = [pc EXCEPT ![t] = p],
         NEW r \in Locals, local' = [local EXCEPT ![t] = r],
         Grown, loaded' \subseteq Lib, bound' = bound, handed' = handed, opened' = opened
  PROVE  /\ pc'[t] = p /\ local'[t] = r
         /\ \A m : FirstBound(m) => FirstBound(m)'
         /\ CallInv(t)' => SerialInv'
<1>1. /\ ThreadTypes /\ OneCaller /\ BoundRight /\ HandedRight /\ OpenedBound
  BY DEF SerialInv
<1>2. pc'[t] = p /\ local'[t] = r
  BY <1>1 DEF ThreadTypes
<1>3. \A u \in Thread : u # t => pc'[u] = "idle" /\ pc[u] = "idle" /\ local'[u] = local[u]
  BY <1>1 DEF OneCaller, ThreadTypes
<1>4. ThreadTypes'
  <2>1. pc' \in [Thread -> Place]
    BY <1>1 DEF ThreadTypes
  <2>2. local' = [u \in Thread |-> local'[u]]
    BY <1>1 DEF ThreadTypes
  <2>3. \A u \in Thread : IF pc'[u] = "idle" THEN local'[u] = Nothing ELSE local'[u] \in Locals
    BY <1>1, <1>2, <1>3 DEF ThreadTypes
  <2>4. Nothing' = Nothing
    BY DEF Nothing
  <2>5. QED
    BY <2>1, <2>2, <2>3, <2>4, <1>1 DEF ThreadTypes, Grown
<1>5. OneCaller' /\ ~Quiet'
  BY <1>2, <1>3 DEF OneCaller, Quiet
<1>6. BoundRight' /\ HandedRight' /\ OpenedBound' /\ \A m : FirstBound(m) => FirstBound(m)'
  BY <1>1, RightStays
<1>7. ASSUME CallInv(t)' PROVE \A u \in Thread : pc'[u] # "idle" => CallInv(u)'
  BY <1>3, <1>7, Zenon
<1>8. QED
  BY <1>2, <1>4, <1>5, <1>6, <1>7 DEF SerialInv

\* What is known of t in a call.
LEMMA CallFacts ==
  ASSUME SerialInv, Serial, NEW t \in Thread, pc[t] # "idle"
  PROVE  /\ ThreadTypes /\ OneCaller /\ BoundRight /\ HandedRight /\ OpenedBound
         /\ CallReady(t) /\ CallLoaded(t) /\ CallNeeds(t) /\ CallRelocated(t)
         /\ local[t] \in Locals /\ local[t].lib \in Lib /\ local[t].root \in Lib
         /\ local[t].queue \in Seq(Lib) /\ local[t].i \in Nat /\ local[t].end \in Nat
         /\ loaded \subseteq Lib /\ binaries \in Seq(Binary)
<1>1. ThreadTypes /\ OneCaller /\ BoundRight /\ HandedRight /\ OpenedBound /\ CallInv(t)
  BY DEF SerialInv
<1>2. local[t] \in Locals
  BY <1>1 DEF ThreadTypes
<1>3. QED
  BY <1>1, <1>2 DEF CallInv, ThreadTypes, Locals

\* If binaries_ stays, so do the first mappings.
LEMMA SameIsGrown ==
  ASSUME ThreadTypes, binaries' = binaries
  PROVE  Grown
  BY BinaryFacts DEF Grown, ThreadTypes

LEMMA EmplaceKeeps ==
  ASSUME SerialInv, Serial, NEW t \in Thread, Emplace(t)
  PROVE  SerialInv'
<1> DEFINE n == Len(binaries)
           b == [lib |-> local[t].lib, ready |-> FALSE]
<1>1. /\ pc[t] = "emplace" /\ binaries' = Append(binaries, b) /\ pc' = [pc EXCEPT ![t] = "load"]
      /\ UNCHANGED <<loaded, relocated, bound, local, opened, handed>>
  BY DEF Emplace, Goto
<1>2. /\ ThreadTypes /\ CallReady(t) /\ CallLoaded(t) /\ CallNeeds(t) /\ CallRelocated(t)
      /\ local[t] \in Locals /\ local[t].lib \in Lib /\ binaries \in Seq(Binary)
      /\ loaded \subseteq Lib
  BY <1>1, CallFacts
<1>3. /\ n \in Nat /\ DOMAIN binaries = 1..n /\ b \in Binary
  BY <1>2, BinaryFacts DEF Binary
<1>4. /\ binaries' \in Seq(Binary) /\ Len(binaries') = n + 1 /\ DOMAIN binaries' = 1..n + 1
      /\ binaries'[n + 1] = b /\ \A j \in 1..n : binaries'[j] = binaries[j]
  BY <1>1, <1>2, <1>3
<1>5. Grown
  BY <1>3, <1>4 DEF Grown
<1>6. local' = [local EXCEPT ![t] = local[t]]
  BY <1>1, <1>2 DEF ThreadTypes
<1>7. /\ pc'[t] = "load" /\ local'[t] = local[t] /\ \A m : FirstBound(m) => FirstBound(m)'
      /\ CallInv(t)' => SerialInv'
  <2>1. /\ pc[t] # "idle" /\ "load" \in Place \ {"idle"}
        /\ loaded' \subseteq Lib /\ bound' = bound /\ handed' = handed /\ opened' = opened
    BY <1>1, <1>2 DEF Place
  <2>2. QED
    BY <2>1, <1>1, <1>2, <1>5, <1>6, InCall, Zenon
<1>8. CallReady(t)'
  BY <1>1, <1>2, <1>3, <1>4, <1>7 DEF CallReady, InHand, IsRoot
<1>9. \A m : m \in Mapped' <=> m \in Mapped \/ m = local[t].lib
  BY <1>3, <1>4 DEF Mapped
<1>10. CallLoaded(t)'
  BY <1>1, <1>2, <1>7, <1>9 DEF CallLoaded, IsRoot
<1>11. CallNeeds(t)'
  BY <1>1, <1>2, <1>3, <1>4, <1>7 DEF CallNeeds, InHand, IsRoot
<1>12. CallRelocated(t)'
  BY <1>1, <1>2, <1>7 DEF CallRelocated
<1>13. QED
  BY <1>7, <1>8, <1>10, <1>11, <1>12 DEF CallInv

LEMMA LoadKeeps ==
  ASSUME SerialInv, Serial, NEW t \in Thread, Load(t)
  PROVE  SerialInv'
<1> DEFINE n == Len(binaries)
           p == IF IsRoot(t) THEN "insert" ELSE "push"
<1>1. /\ pc[t] = "load" /\ binaries' = [binaries EXCEPT ![n].ready = TRUE]
      /\ pc' = [pc EXCEPT ![t] = p]
      /\ UNCHANGED <<loaded, relocated, bound, local, opened, handed>>
  BY DEF Load, Goto
<1>2. /\ ThreadTypes /\ CallReady(t) /\ CallLoaded(t) /\ CallNeeds(t) /\ CallRelocated(t)
      /\ local[t] \in Locals /\ local[t].lib \in Lib /\ binaries \in Seq(Binary)
      /\ loaded \subseteq Lib
  BY <1>1, CallFacts
<1>3. n \in Nat /\ DOMAIN binaries = 1..n /\ n \in DOMAIN binaries
  BY <1>1, <1>2, BinaryFacts DEF CallReady, InHand
<1>4. /\ binaries' \in Seq(Binary) /\ Len(binaries') = n /\ DOMAIN binaries' = 1..n
      /\ binaries'[n].ready
      /\ \A j \in 1..n : binaries'[j].lib = binaries[j].lib
      /\ \A j \in 1..n : j # n => binaries'[j] = binaries[j]
  <2>1. binaries[n] \in Binary
    BY <1>2, <1>3
  <2>2. PICK b \in Binary : b = [binaries[n] EXCEPT !.ready = TRUE]
    BY <2>1 DEF Binary
  <2>3. binaries' = [binaries EXCEPT ![n] = b] /\ b.ready /\ b.lib = binaries[n].lib
    BY <1>1, <2>1, <2>2 DEF Binary
  <2>4. QED
    BY <2>3, <1>2, <1>3, ExceptSeq
<1>5. Grown
  <2>1. ASSUME NEW j \in 1..n
        PROVE  /\ binaries'[j].lib = binaries[j].lib /\ (binaries[j].ready => binaries'[j].ready)
               /\ binaries'[j].ready => binaries[j].ready \/ j >= n
    <3>1. CASE j = n
      BY <3>1, <1>3, <1>4
    <3>2. CASE j # n
      BY <3>2, <1>4, Zenon
    <3>3. QED
      BY <3>1, <3>2
  <2>2. n <= Len(binaries')
    <3>1. Len(binaries') = n /\ n \in Nat
      BY <1>3, <1>4, Zenon
    <3>2. QED
      BY <3>1
  <2>3. QED
    BY <2>1, <2>2, <1>3, <1>4, Zenon DEF Grown
<1>6. local' = [local EXCEPT ![t] = local[t]]
  BY <1>1, <1>2 DEF ThreadTypes
<1>7. /\ pc'[t] = p /\ local'[t] = local[t] /\ \A m : FirstBound(m) => FirstBound(m)'
      /\ CallInv(t)' => SerialInv'
  BY <1>1, <1>2, <1>5, <1>6, InCall DEF Place
<1>8. IsRoot(t)' <=> IsRoot(t)
  BY <1>7 DEF IsRoot
<1>9. CallReady(t)'
  BY <1>1, <1>2, <1>3, <1>4, <1>7, <1>8 DEF CallReady, InHand
<1>10. \A m : m \in Mapped' <=> m \in Mapped
  BY <1>3, <1>4 DEF Mapped
<1>11. CallLoaded(t)'
  <2>1. CASE IsRoot(t)
    BY <2>1, <1>1, <1>2, <1>7, <1>8, <1>10 DEF CallLoaded
  <2>2. CASE ~IsRoot(t)
    BY <2>2, <1>1, <1>2, <1>7, <1>8, <1>10 DEF CallLoaded
  <2>3. QED
    BY <2>1, <2>2
<1>12. CallNeeds(t)'
  BY <1>1, <1>2, <1>3, <1>4, <1>7, <1>8 DEF CallNeeds, InHand
<1>13. CallRelocated(t)'
  BY <1>1, <1>2, <1>7 DEF CallRelocated
<1>14. QED
  BY <1>7, <1>9, <1>11, <1>12, <1>13 DEF CallInv

LEMMA InsertKeeps ==
  ASSUME SerialInv, Serial, NEW t \in Thread, Insert(t)
  PROVE  SerialInv'
<1> DEFINE p == IF IsRoot(t) THEN "push" ELSE "emplace"
<1>1. /\ pc[t] = "insert" /\ loaded' = loaded \cup {local[t].lib} /\ pc' = [pc EXCEPT ![t] = p]
      /\ UNCHANGED <<binaries, relocated, bound, local, opened, handed>>
  BY DEF Insert, Goto
<1>2. /\ ThreadTypes /\ CallReady(t) /\ CallLoaded(t) /\ CallNeeds(t) /\ CallRelocated(t)
      /\ local[t] \in Locals /\ local[t].lib \in Lib /\ loaded \subseteq Lib
  BY <1>1, CallFacts
<1>3. Grown
  BY <1>1, <1>2, SameIsGrown
<1>4. local' = [local EXCEPT ![t] = local[t]]
  BY <1>1, <1>2 DEF ThreadTypes
<1>5. /\ pc'[t] = p /\ local'[t] = local[t] /\ \A m : FirstBound(m) => FirstBound(m)'
      /\ CallInv(t)' => SerialInv'
  BY <1>1, <1>2, <1>3, <1>4, InCall DEF Place
<1>6. (IsRoot(t)' <=> IsRoot(t)) /\ Mapped' = Mapped
  BY <1>1, <1>5 DEF IsRoot, Mapped
<1>7. CallReady(t)'
  BY <1>1, <1>2, <1>5, <1>6 DEF CallReady, InHand
<1>8. IsRoot(t) => local[t].lib \in Mapped
  BY <1>1, <1>2, BinaryFacts DEF CallReady, InHand, Mapped
<1>9. CallLoaded(t)'
  <2>1. CASE IsRoot(t)
    BY <2>1, <1>1, <1>2, <1>5, <1>6, <1>8 DEF CallLoaded, IsRoot
  <2>2. CASE ~IsRoot(t)
    BY <2>2, <1>1, <1>2, <1>5, <1>6 DEF CallLoaded
  <2>3. QED
    BY <2>1, <2>2
<1>10. CallNeeds(t)'
  BY <1>1, <1>2, <1>5, <1>6 DEF CallNeeds, InHand
<1>11. CallRelocated(t)'
  BY <1>1, <1>2, <1>5 DEF CallRelocated
<1>12. QED
  BY <1>5, <1>7, <1>9, <1>10, <1>11 DEF CallInv

\* The members of two sequences, one behind the other.
LEMMA RangeConcat ==
  ASSUME NEW u \in Seq(Lib), NEW v \in Seq(Lib)
  PROVE  u \o v \in Seq(Lib) /\ Range(u) \subseteq Range(u \o v) /\ Range(v) \subseteq Range(u \o v)
<1>1. PICK w : w = u \o v
  OBVIOUS
<1>2. PICK n \in Nat, m \in Nat : n = Len(u) /\ m = Len(v)
  BY LenProperties
<1>3. /\ w \in Seq(Lib) /\ Len(w) = n + m
      /\ \A j \in 1..n + m : w[j] = IF j <= n THEN u[j] ELSE v[j - n]
  BY <1>1, <1>2, ConcatProperties, Zenon
<1>4. DOMAIN u = 1..n /\ DOMAIN v = 1..m /\ DOMAIN w = 1..n + m
  BY <1>2, <1>3, LenProperties
<1>5. \A j \in DOMAIN u : j \in DOMAIN w /\ w[j] = u[j]
  BY <1>3, <1>4
<1>6. \A j \in DOMAIN v : n + j \in DOMAIN w /\ w[n + j] = v[j]
  <2> SUFFICES ASSUME NEW j \in 1..m PROVE n + j \in 1..n + m /\ w[n + j] = v[j]
    BY <1>4
  <2>1. n + j \in 1..n + m /\ ~(n + j <= n) /\ (n + j) - n = j
    OBVIOUS
  <2>2. QED
    BY <2>1, <1>3
<1>7. Range(u) \subseteq Range(w)
  BY <1>5 DEF Range
<1>8. Range(v) \subseteq Range(w)
  BY <1>6 DEF Range
<1>9. QED
  BY <1>1, <1>3, <1>7, <1>8, Zenon

LEMMA PushKeeps ==
  ASSUME SerialInv, Serial, NEW t \in Thread, Push(t)
  PROVE  SerialInv'
<1> DEFINE n == Len(binaries)
           q == local[t].queue \o Needed[binaries[n].lib]
           r == [local[t] EXCEPT !.queue = q]
<1>1. /\ pc[t] = "push" /\ pc' = [pc EXCEPT ![t] = "search"]
      /\ UNCHANGED <<binaries, loaded, relocated, bound, opened, handed>>
  BY DEF Push, Goto
<1>2. /\ ThreadTypes /\ CallReady(t) /\ CallLoaded(t) /\ CallNeeds(t) /\ CallRelocated(t)
      /\ local[t] \in Locals /\ local[t].queue \in Seq(Lib) /\ loaded \subseteq Lib
  BY <1>1, CallFacts
<1>3. /\ n \in DOMAIN binaries /\ binaries[n].ready /\ binaries[n].lib \in Lib
      /\ DOMAIN binaries = 1..n
  BY <1>1, <1>2, BinaryFacts DEF CallReady, InHand
<1>4. /\ q \in Seq(Lib) /\ Range(local[t].queue) \subseteq Range(q)
      /\ Range(Needed[binaries[n].lib]) \subseteq Range(q)
  <2>1. Needed[binaries[n].lib] \in Seq(Lib)
    BY <1>3, ThreadsAssumption
  <2>2. QED
    BY <2>1, <1>2, RangeConcat, Zenon
<1>5. local' = [local EXCEPT ![t].queue = q]
  BY <1>3 DEF Push, Last
<1> HIDE DEF q
<1>6. /\ r \in Locals /\ r.queue = q /\ r.lib = local[t].lib /\ r.root = local[t].root
      /\ local' = [local EXCEPT ![t] = r]
  BY <1>2, <1>4, <1>5 DEF Locals, ThreadTypes
<1> HIDE DEF r
<1>7. Grown
  BY <1>1, <1>2, SameIsGrown
<1>8. /\ pc'[t] = "search" /\ local'[t] = r /\ \A m : FirstBound(m) => FirstBound(m)'
      /\ CallInv(t)' => SerialInv'
  <2>1. /\ pc[t] # "idle" /\ "search" \in Place \ {"idle"}
        /\ loaded' \subseteq Lib /\ bound' = bound /\ handed' = handed /\ opened' = opened
    BY <1>1, <1>2 DEF Place
  <2>2. QED
    BY <2>1, <1>1, <1>2, <1>6, <1>7, InCall, Zenon
<1>9. (IsRoot(t)' <=> IsRoot(t)) /\ Mapped' = Mapped
  BY <1>1, <1>6, <1>8 DEF IsRoot, Mapped
<1>10. CallReady(t)'
  BY <1>1, <1>2, <1>8 DEF CallReady, InHand
<1>11. CallLoaded(t)'
  BY <1>1, <1>2, <1>6, <1>8, <1>9 DEF CallLoaded
<1>12. CallNeeds(t)'
  <2>1. ASSUME NEW j \in DOMAIN binaries, NEW x \in Range(Needed[binaries[j].lib])
        PROVE  x \in loaded \/ x \in Range(q)
    <3>1. x \in loaded \/ x \in Range(local[t].queue) \/ j = n
      BY <1>1, <1>2 DEF CallNeeds
    <3>2. QED
      BY <3>1, <2>1, <1>4
  <2>2. QED
    BY <2>1, <1>1, <1>6, <1>8 DEF CallNeeds
<1>13. CallRelocated(t)'
  BY <1>1, <1>2, <1>8 DEF CallRelocated
<1>14. QED
  BY <1>8, <1>10, <1>11, <1>12, <1>13 DEF CallInv

\* The first of a queue and what follows it.
LEMMA QueueParts ==
  ASSUME NEW q \in Seq(Lib), q # <<>>
  PROVE  /\ Head(q) \in Lib /\ Tail(q) \in Seq(Lib)
         /\ \A x \in Range(q) : x = Head(q) \/ x \in Range(Tail(q))
<1>1. Head(q) \in Lib /\ Tail(q) \in Seq(Lib) /\ Head(q) = q[1]
  OBVIOUS
<1>2. PICK w \in Seq(Lib), n \in Nat : w = Tail(q) /\ n = Len(q)
  BY <1>1, LenProperties
<1>3. /\ n > 0 /\ DOMAIN q = 1..n /\ DOMAIN w = 1..n - 1
      /\ \A j \in 1..n - 1 : w[j] = q[j + 1]
  BY <1>2
<1>4. ASSUME NEW j \in DOMAIN q PROVE q[j] = Head(q) \/ q[j] \in Range(w)
  <2>1. CASE j = 1
    BY <2>1, <1>1
  <2>2. CASE j # 1
    <3>1. j - 1 \in 1..n - 1 /\ (j - 1) + 1 = j
      BY <2>2, <1>3
    <3>2. w[j - 1] = q[j] /\ j - 1 \in DOMAIN w
      BY <3>1, <1>3
    <3>3. QED
      BY <3>2 DEF Range
  <2>3. QED
    BY <2>1, <2>2
<1>5. QED
  BY <1>1, <1>2, <1>4 DEF Range

LEMMA SkipLoadedKeeps ==
  ASSUME SerialInv, Serial, NEW t \in Thread, SkipLoaded(t)
  PROVE  SerialInv'
<1> DEFINE q == local[t].queue
           r == [local[t] EXCEPT !.queue = Tail(q)]
<1>1. /\ pc[t] = "search" /\ q # <<>> /\ Head(q) \in loaded
      /\ local' = [local EXCEPT ![t].queue = Tail(@)]
      /\ UNCHANGED <<binaries, loaded, relocated, bound, pc, opened, handed>>
  BY DEF SkipLoaded
<1>2. /\ ThreadTypes /\ CallReady(t) /\ CallLoaded(t) /\ CallNeeds(t) /\ CallRelocated(t)
      /\ local[t] \in Locals /\ q \in Seq(Lib) /\ loaded \subseteq Lib
  BY <1>1, CallFacts
<1>3. Tail(q) \in Seq(Lib) /\ \A x \in Range(q) : x = Head(q) \/ x \in Range(Tail(q))
  BY <1>1, <1>2, QueueParts
<1>4. /\ r \in Locals /\ r.queue = Tail(q) /\ r.lib = local[t].lib /\ r.root = local[t].root
      /\ local' = [local EXCEPT ![t] = r]
  BY <1>1, <1>2, <1>3 DEF Locals, ThreadTypes
<1> HIDE DEF r
<1>5. Grown /\ pc' = [pc EXCEPT ![t] = "search"]
  BY <1>1, <1>2, SameIsGrown DEF ThreadTypes
<1>6. /\ pc'[t] = "search" /\ local'[t] = r /\ \A m : FirstBound(m) => FirstBound(m)'
      /\ CallInv(t)' => SerialInv'
  <2>1. /\ pc[t] # "idle" /\ "search" \in Place \ {"idle"} /\ pc' = [pc EXCEPT ![t] = "search"]
        /\ loaded' \subseteq Lib /\ bound' = bound /\ handed' = handed /\ opened' = opened
    BY <1>1, <1>2, <1>5 DEF Place
  <2>2. QED
    BY <2>1, <1>4, <1>5, InCall, Zenon
<1>7. (IsRoot(t)' <=> IsRoot(t)) /\ Mapped' = Mapped
  BY <1>1, <1>4, <1>6 DEF IsRoot, Mapped
<1>8. CallReady(t)'
  BY <1>1, <1>2, <1>6 DEF CallReady, InHand
<1>9. CallLoaded(t)'
  BY <1>1, <1>2, <1>4, <1>6, <1>7 DEF CallLoaded
<1>10. CallNeeds(t)'
  <2>1. ASSUME NEW j \in DOMAIN binaries, NEW x \in Range(Needed[binaries[j].lib])
        PROVE  x \in loaded \/ x \in Range(Tail(q))
    <3>1. x \in loaded \/ x \in Range(q)
      BY <1>1, <1>2 DEF CallNeeds, InHand
    <3>2. QED
      BY <3>1, <1>1, <1>3
  <2>2. QED
    BY <2>1, <1>1, <1>4, <1>6 DEF CallNeeds
<1>11. CallRelocated(t)'
  BY <1>1, <1>2, <1>6 DEF CallRelocated
<1>12. QED
  BY <1>6, <1>8, <1>9, <1>10, <1>11 DEF CallInv

LEMMA NotLoadedKeeps ==
  ASSUME SerialInv, Serial, NEW t \in Thread, NotLoaded(t)
  PROVE  SerialInv'
<1> DEFINE q == local[t].queue
           r == [local[t] EXCEPT !.lib = Head(q), !.queue = Tail(q)]
<1>1. /\ pc[t] = "search" /\ q # <<>> /\ Head(q) \notin loaded
      /\ local' = [local EXCEPT ![t].lib = Head(q), ![t].queue = Tail(@)]
      /\ pc' = [pc EXCEPT ![t] = "insert"]
      /\ UNCHANGED <<binaries, loaded, relocated, bound, opened, handed>>
  BY DEF NotLoaded, Goto
<1>2. /\ ThreadTypes /\ CallReady(t) /\ CallLoaded(t) /\ CallNeeds(t) /\ CallRelocated(t)
      /\ local[t] \in Locals /\ q \in Seq(Lib) /\ loaded \subseteq Lib
  BY <1>1, CallFacts
<1>3. /\ Head(q) \in Lib /\ Tail(q) \in Seq(Lib)
      /\ \A x \in Range(q) : x = Head(q) \/ x \in Range(Tail(q))
  BY <1>1, <1>2, QueueParts
<1>4. /\ r \in Locals /\ r.queue = Tail(q) /\ r.lib = Head(q) /\ r.root = local[t].root
      /\ local' = [local EXCEPT ![t] = r]
  BY <1>1, <1>2, <1>3 DEF Locals, ThreadTypes
<1> HIDE DEF r
<1>5. Grown
  BY <1>1, <1>2, SameIsGrown
<1>6. /\ pc'[t] = "insert" /\ local'[t] = r /\ \A m : FirstBound(m) => FirstBound(m)'
      /\ CallInv(t)' => SerialInv'
  <2>1. /\ pc[t] # "idle" /\ "insert" \in Place \ {"idle"} /\ pc' = [pc EXCEPT ![t] = "insert"]
        /\ loaded' \subseteq Lib /\ bound' = bound /\ handed' = handed /\ opened' = opened
    BY <1>1, <1>2, <1>5 DEF Place
  <2>2. QED
    BY <2>1, <1>4, <1>5, InCall, Zenon
\* The argument of dlopen is loaded by now, so this is another library.
<1>7. local[t].root \in loaded /\ ~IsRoot(t)' /\ Mapped' = Mapped
  BY <1>1, <1>2, <1>4, <1>6 DEF IsRoot, Mapped, CallLoaded
<1>8. CallReady(t)'
  BY <1>1, <1>2, <1>6, <1>7 DEF CallReady, InHand
<1>9. CallLoaded(t)'
  BY <1>1, <1>2, <1>4, <1>6, <1>7 DEF CallLoaded
<1>10. CallNeeds(t)'
  <2>1. ASSUME NEW j \in DOMAIN binaries, NEW x \in Range(Needed[binaries[j].lib])
        PROVE  x \in loaded \/ x \in Range(Tail(q)) \/ x = Head(q)
    <3>1. x \in loaded \/ x \in Range(q)
      BY <1>1, <1>2 DEF CallNeeds, InHand
    <3>2. QED
      BY <3>1, <1>3
  <2>2. QED
    BY <2>1, <1>1, <1>4, <1>6 DEF CallNeeds
<1>11. CallRelocated(t)'
  BY <1>1, <1>2, <1>6 DEF CallRelocated
<1>12. QED
  BY <1>6, <1>8, <1>9, <1>10, <1>11 DEF CallInv

LEMMA SearchDoneKeeps ==
  ASSUME SerialInv, Serial, NEW t \in Thread, SearchDone(t)
  PROVE  SerialInv'
<1> DEFINE r == [local[t] EXCEPT !.i = 1, !.end = Len(binaries)]
<1>1. /\ pc[t] = "search" /\ local[t].queue = <<>> /\ pc' = [pc EXCEPT ![t] = "relocate"]
      /\ local' = [local EXCEPT ![t].i = 1, ![t].end = Len(binaries)]
      /\ UNCHANGED <<binaries, loaded, relocated, bound, opened, handed>>
  BY DEF SearchDone, Goto
<1>2. /\ ThreadTypes /\ CallReady(t) /\ CallLoaded(t) /\ CallNeeds(t) /\ CallRelocated(t)
      /\ local[t] \in Locals /\ loaded \subseteq Lib /\ Len(binaries) \in Nat
  BY <1>1, CallFacts, BinaryFacts
<1>3. /\ r \in Locals /\ r.queue = <<>> /\ r.lib = local[t].lib /\ r.root = local[t].root
      /\ r.i = 1 /\ r.end = Len(binaries) /\ local' = [local EXCEPT ![t] = r]
  BY <1>1, <1>2 DEF Locals, ThreadTypes
<1> HIDE DEF r
<1>4. Grown
  BY <1>1, <1>2, SameIsGrown
<1>5. /\ pc'[t] = "relocate" /\ local'[t] = r /\ \A m : FirstBound(m) => FirstBound(m)'
      /\ CallInv(t)' => SerialInv'
  <2>1. /\ pc[t] # "idle" /\ "relocate" \in Place \ {"idle"}
        /\ pc' = [pc EXCEPT ![t] = "relocate"]
        /\ loaded' \subseteq Lib /\ bound' = bound /\ handed' = handed /\ opened' = opened
    BY <1>1, <1>2 DEF Place
  <2>2. QED
    BY <2>1, <1>3, <1>4, InCall, Zenon
<1>6. (IsRoot(t)' <=> IsRoot(t)) /\ Mapped' = Mapped
  BY <1>1, <1>3, <1>5 DEF IsRoot, Mapped
<1>7. CallReady(t)'
  BY <1>1, <1>2, <1>5 DEF CallReady, InHand
<1>8. CallLoaded(t)'
  BY <1>1, <1>2, <1>3, <1>5, <1>6 DEF CallLoaded
<1>9. CallNeeds(t)'
  BY <1>1, <1>2, <1>3, <1>5, <1>6 DEF CallNeeds, InHand
<1>10. CallRelocated(t)'
  <2>1. \A m \in relocated' : FirstBound(m)'
    BY <1>1, <1>2, <1>5 DEF CallRelocated
  <2>2. r.i \in 1..Len(binaries) + 1 /\ 1..r.i - 1 = {}
    BY <1>2, <1>3
  <2>3. QED
    BY <2>1, <2>2, <1>1, <1>3, <1>5 DEF CallRelocated
<1>11. QED
  BY <1>5, <1>7, <1>8, <1>9, <1>10 DEF CallInv

LEMMA SkipRelocatedKeeps ==
  ASSUME SerialInv, Serial, NEW t \in Thread, SkipRelocated(t)
  PROVE  SerialInv'
<1> DEFINE n == Len(binaries)
           r == [local[t] EXCEPT !.i = @ + 1]
<1>1. /\ pc[t] = "relocate" /\ local[t].i <= local[t].end
      /\ binaries[local[t].i].lib \in relocated
      /\ local' = [local EXCEPT ![t].i = @ + 1]
      /\ UNCHANGED <<binaries, loaded, relocated, bound, pc, opened, handed>>
  BY DEF SkipRelocated, At
<1>2. /\ ThreadTypes /\ CallReady(t) /\ CallLoaded(t) /\ CallNeeds(t) /\ CallRelocated(t)
      /\ local[t] \in Locals /\ local[t].i \in Nat /\ loaded \subseteq Lib /\ n \in Nat
  BY <1>1, CallFacts, BinaryFacts
<1>3. /\ r \in Locals /\ r.queue = local[t].queue /\ r.lib = local[t].lib
      /\ r.root = local[t].root /\ r.i = local[t].i + 1 /\ r.end = local[t].end
      /\ local' = [local EXCEPT ![t] = r]
  <2>1. local' = [local EXCEPT ![t].i = @ + 1] /\ local = [u \in Thread |-> local[u]]
    BY <1>1, <1>2 DEF ThreadTypes
  <2>2. local' = [local EXCEPT ![t] = r]
    BY <2>1
  <2>3. local[t] \in Locals
    BY <1>2
  <2>4. /\ r \in Locals /\ r.queue = local[t].queue /\ r.lib = local[t].lib
        /\ r.root = local[t].root /\ r.i = local[t].i + 1 /\ r.end = local[t].end
    BY <2>3 DEF Locals
  <2>5. QED
    BY <2>2, <2>4
<1> HIDE DEF r
<1>4. Grown /\ pc' = [pc EXCEPT ![t] = "relocate"]
  BY <1>1, <1>2, SameIsGrown DEF ThreadTypes
<1>5. /\ pc'[t] = "relocate" /\ local'[t] = r /\ \A m : FirstBound(m) => FirstBound(m)'
      /\ CallInv(t)' => SerialInv'
  <2>1. /\ pc[t] # "idle" /\ "relocate" \in Place \ {"idle"}
        /\ loaded' \subseteq Lib /\ bound' = bound /\ handed' = handed /\ opened' = opened
    BY <1>1, <1>2 DEF Place
  <2>2. QED
    BY <2>1, <1>3, <1>4, InCall, Zenon
<1>6. (IsRoot(t)' <=> IsRoot(t)) /\ Mapped' = Mapped
  BY <1>1, <1>3, <1>5 DEF IsRoot, Mapped
<1>7. CallReady(t)'
  BY <1>1, <1>2, <1>5 DEF CallReady, InHand
<1>8. CallLoaded(t)'
  BY <1>1, <1>2, <1>3, <1>5, <1>6 DEF CallLoaded
<1>9. CallNeeds(t)'
  BY <1>1, <1>2, <1>3, <1>5, <1>6 DEF CallNeeds, InHand
<1>10. CallRelocated(t)'
  <2>1. \A m \in relocated' : FirstBound(m)'
    BY <1>1, <1>2, <1>5 DEF CallRelocated
  <2>2. /\ r.end = n /\ local[t].i \in 1..n
        /\ \A j \in 1..local[t].i - 1 : binaries[j].lib \in relocated
    BY <1>1, <1>2, <1>3 DEF CallRelocated
  <2>3. r.i \in 1..n + 1 /\ \A j \in 1..r.i - 1 : binaries[j].lib \in relocated
    BY <2>2, <1>1, <1>2, <1>3
  <2>4. QED
    BY <2>1, <2>2, <2>3, <1>1, <1>5 DEF CallRelocated
<1>11. QED
  BY <1>5, <1>7, <1>8, <1>9, <1>10 DEF CallInv

LEMMA MarkKeeps ==
  ASSUME SerialInv, Serial, NEW t \in Thread, Mark(t)
  PROVE  SerialInv'
<1> DEFINE n == Len(binaries)
           i == local[t].i
           m == binaries[i].lib
<1>1. /\ pc[t] = "relocate" /\ i <= local[t].end /\ m \notin relocated
      /\ relocated' = relocated \cup {m} /\ pc' = [pc EXCEPT ![t] = "write"]
      /\ UNCHANGED <<binaries, loaded, bound, local, opened, handed>>
  BY DEF Mark, At, Goto
<1>2. /\ ThreadTypes /\ CallReady(t) /\ CallLoaded(t) /\ CallNeeds(t) /\ CallRelocated(t)
      /\ local[t] \in Locals /\ i \in Nat /\ loaded \subseteq Lib /\ n \in Nat
      /\ DOMAIN binaries = 1..n
  BY <1>1, CallFacts, BinaryFacts
<1>3. Grown /\ local' = [local EXCEPT ![t] = local[t]]
  BY <1>1, <1>2, SameIsGrown DEF ThreadTypes
<1>4. /\ pc'[t] = "write" /\ local'[t] = local[t] /\ \A k : FirstBound(k) => FirstBound(k)'
      /\ CallInv(t)' => SerialInv'
  <2>1. /\ pc[t] # "idle" /\ "write" \in Place \ {"idle"}
        /\ loaded' \subseteq Lib /\ bound' = bound /\ handed' = handed /\ opened' = opened
    BY <1>1, <1>2 DEF Place
  <2>2. QED
    BY <2>1, <1>1, <1>2, <1>3, InCall, Zenon
<1>5. (IsRoot(t)' <=> IsRoot(t)) /\ Mapped' = Mapped
  BY <1>1, <1>4 DEF IsRoot, Mapped
<1>6. CallReady(t)'
  BY <1>1, <1>2, <1>4 DEF CallReady, InHand
<1>7. CallLoaded(t)'
  BY <1>1, <1>2, <1>4, <1>5 DEF CallLoaded
<1>8. CallNeeds(t)'
  BY <1>1, <1>2, <1>4, <1>5 DEF CallNeeds, InHand
<1>9. /\ local[t].end = n /\ i \in 1..n
      /\ \A j \in 1..i - 1 : binaries[j].lib \in relocated
  BY <1>1, <1>2 DEF CallRelocated
\* All before it are relocated, and this library is not: it is the first.
<1>10. i = Min(Home(m))
  <2>1. i \in Home(m)
    BY <1>2, <1>9 DEF Home
  <2>2. PICK a \in Nat : a = Min(Home(m)) /\ a \in DOMAIN binaries /\ binaries[a].lib = m /\ a <= i
    BY <2>1, <1>2, FirstOf
  <2>3. ~(a \in 1..i - 1)
    BY <2>2, <1>1, <1>9
  <2>4. QED
    BY <2>2, <2>3, <1>2
<1>11. Home(m)' = Home(m) /\ m' = m
  BY <1>1, <1>4 DEF Home
<1>12. CallRelocated(t)'
  <2>1. \A k \in relocated' : FirstBound(k)' \/ k = m
    BY <1>1, <1>2, <1>4 DEF CallRelocated
  <2>2. QED
    BY <2>1, <1>1, <1>2, <1>4, <1>9, <1>10, <1>11 DEF CallRelocated
<1>13. QED
  BY <1>4, <1>6, <1>7, <1>8, <1>12 DEF CallInv

\* When Relocate runs, all that is needed is mapped.
LEMMA MappedClosed ==
  ASSUME ThreadTypes, NEW t \in Thread, pc[t] \in {"relocate", "write"},
         CallLoaded(t), CallNeeds(t)
  PROVE  /\ \A l \in Mapped : \A m \in Closure(l) : m \in Mapped
         /\ local[t].root \in Mapped
<1>1. Mapped \in SUBSET Lib
  BY BinaryFacts DEF Mapped
<1>2. loaded \subseteq Mapped /\ local[t].root \in Mapped
  BY DEF CallLoaded
<1>3. Closed(Mapped)
  <2>1. Range(local[t].queue) = {}
    BY DEF CallNeeds, Range
  <2>2. ASSUME NEW j \in DOMAIN binaries PROVE Range(Needed[binaries[j].lib]) \subseteq Mapped
    BY <2>1, <1>2 DEF CallNeeds, InHand
  <2>3. QED
    BY <2>2 DEF Closed, Mapped
<1>4. QED
  BY <1>1, <1>2, <1>3 DEF Closure

LEMMA WriteKeeps ==
  ASSUME SerialInv, Serial, NEW t \in Thread, Write(t)
  PROVE  SerialInv'
<1>0. PICK m : m = binaries[local[t].i].lib
  OBVIOUS
<1> DEFINE n == Len(binaries)
           i == local[t].i
           found == {s \in Refers[m] : binaries[i].ready /\ Defining(s) # {}}
           new == [s \in found |-> Min(Defining(s))]
           r == [local[t] EXCEPT !.i = @ + 1]
<1>1. /\ pc[t] = "write" /\ pc' = [pc EXCEPT ![t] = "relocate"]
      /\ bound' = [j \in DOMAIN bound \cup {i} |-> IF j = i THEN new ELSE bound[j]]
      /\ local' = [local EXCEPT ![t].i = @ + 1]
      /\ UNCHANGED <<binaries, loaded, relocated, opened, handed>>
  BY <1>0 DEF Write, Goto
<1>2. /\ ThreadTypes /\ OneCaller /\ BoundRight /\ HandedRight /\ OpenedBound
      /\ CallReady(t) /\ CallLoaded(t) /\ CallNeeds(t) /\ CallRelocated(t)
      /\ local[t] \in Locals /\ i \in Nat /\ loaded \subseteq Lib /\ n \in Nat
      /\ DOMAIN binaries = 1..n
  BY <1>1, CallFacts, BinaryFacts
<1>3. /\ r \in Locals /\ r.queue = local[t].queue /\ r.lib = local[t].lib
      /\ r.root = local[t].root /\ r.i = i + 1 /\ r.end = local[t].end
      /\ local' = [local EXCEPT ![t] = r]
  <2>1. local' = [local EXCEPT ![t].i = @ + 1] /\ local = [u \in Thread |-> local[u]]
    BY <1>1, <1>2 DEF ThreadTypes
  <2>2. local' = [local EXCEPT ![t] = r]
    BY <2>1
  <2>3. local[t] \in Locals
    BY <1>2
  <2>4. /\ r \in Locals /\ r.queue = local[t].queue /\ r.lib = local[t].lib
        /\ r.root = local[t].root /\ r.i = local[t].i + 1 /\ r.end = local[t].end
    BY <2>3 DEF Locals
  <2>5. QED
    BY <2>2, <2>4
<1> HIDE DEF r
<1>4. pc'[t] = "relocate" /\ local'[t] = r
  BY <1>1, <1>2, <1>3 DEF ThreadTypes
<1>5. \A u \in Thread : u # t => pc'[u] = "idle" /\ pc[u] = "idle" /\ local'[u] = local[u]
  BY <1>1, <1>2, <1>3 DEF OneCaller, ThreadTypes
<1>6. ThreadTypes'
  <2>1. pc' \in [Thread -> Place]
    BY <1>1, <1>2 DEF ThreadTypes, Place
  <2>2. local' = [u \in Thread |-> local'[u]]
    BY <1>2, <1>3 DEF ThreadTypes
  <2>3. \A u \in Thread : IF pc'[u] = "idle" THEN local'[u] = Nothing ELSE local'[u] \in Locals
    BY <1>2, <1>3, <1>4, <1>5 DEF ThreadTypes
  <2>4. Nothing' = Nothing
    BY DEF Nothing
  <2>5. QED
    BY <2>1, <2>2, <2>3, <2>4, <1>1, <1>2 DEF ThreadTypes
<1>7. OneCaller' /\ ~Quiet'
  BY <1>4, <1>5 DEF OneCaller, Quiet
<1>8. /\ \A k : Home(k)' = Home(k)
      /\ \A s : Defining(s)' = Defining(s)
      /\ Mapped' = Mapped /\ (IsRoot(t)' <=> IsRoot(t))
  BY <1>1, <1>3, <1>4 DEF Home, Defining, Mapped, IsRoot
<1>9. /\ i \in DOMAIN binaries /\ i = Min(Home(m)) /\ local[t].end = n
      /\ \A j \in DOMAIN binaries : binaries[j].ready
  BY <1>0, <1>1, <1>2 DEF CallReady, CallRelocated
\* All that its dependences define is there by now.
<1>10. Refers[m] \cap Defined(m) \subseteq found
  <2>1. SUFFICES ASSUME NEW s \in Refers[m], s \in Defined(m) PROVE Defining(s) # {}
    BY <1>9
  <2>2. m \in Mapped
    BY <1>0, <1>9 DEF Mapped
  <2>3. PICK k \in Closure(m) : s \in Defines[k]
    BY <2>1 DEF Defined
  <2>4. k \in Mapped
    BY <2>2, <1>1, <1>2, MappedClosed
  <2>5. PICK j \in DOMAIN binaries : binaries[j].lib = k
    BY <2>4 DEF Mapped
  <2>6. QED
    BY <2>3, <2>5, <1>9 DEF Defining
<1>11. BoundRight'
  <2>1. DOMAIN bound' = DOMAIN bound \cup {i} /\ DOMAIN bound' \subseteq DOMAIN binaries
    BY <1>1, <1>2, <1>9 DEF BoundRight
  <2>2. ASSUME NEW j \in DOMAIN bound'
        PROVE  /\ Refers[binaries[j].lib] \cap Defined(binaries[j].lib) \subseteq DOMAIN bound'[j]
               /\ \A s \in DOMAIN bound'[j] :
                    Defining(s) # {} /\ bound'[j][s] = Min(Defining(s))
    <3>1. CASE j = i
      <4>1. bound'[j] = new
        BY <3>1, <1>1, <2>1
      <4>2. QED
        BY <4>1, <3>1, <1>0, <1>10
    <3>2. CASE j # i
      <4>1. bound'[j] = bound[j] /\ j \in DOMAIN bound
        BY <3>2, <1>1, <2>1
      <4>2. QED
        BY <4>1, <1>2 DEF BoundRight
    <3>3. QED
      BY <3>1, <3>2
  <2>3. ASSUME NEW j \in DOMAIN bound'
        PROVE  \A s \in DOMAIN bound'[j] : Defining(s)' # {} /\ bound'[j][s] = Min(Defining(s)')
    BY <2>2, <1>8, Zenon
  <2>4. QED
    BY <2>1, <2>2, <2>3, <1>1, <1>9 DEF BoundRight
<1>12. HandedRight'
  BY <1>1, <1>2, <1>8 DEF HandedRight
<1>13. \A k : FirstBound(k) => FirstBound(k)'
  BY <1>1, <1>8 DEF FirstBound
<1>14. OpenedBound'
  BY <1>1, <1>2, <1>13 DEF OpenedBound
<1>15. FirstBound(m)'
  <2>1. i \in Home(m) /\ i \in DOMAIN bound'
    BY <1>0, <1>1, <1>9 DEF Home
  <2>2. QED
    BY <2>1, <1>8, <1>9 DEF FirstBound
<1>16. CallReady(t)'
  BY <1>1, <1>2, <1>4 DEF CallReady, InHand
<1>17. CallLoaded(t)'
  BY <1>1, <1>2, <1>3, <1>4, <1>8 DEF CallLoaded
<1>18. CallNeeds(t)'
  BY <1>1, <1>2, <1>3, <1>4, <1>8 DEF CallNeeds, InHand
<1>19. CallRelocated(t)'
  <2>1. \A k \in relocated : FirstBound(k) \/ k = m
    BY <1>0, <1>1, <1>2 DEF CallRelocated
  <2>2. \A k \in relocated' : FirstBound(k)'
    BY <2>1, <1>1, <1>13, <1>15
  <2>3. r.i \in 1..n + 1 /\ \A j \in 1..r.i - 1 : binaries[j].lib \in relocated
    <3>1. /\ i \in 1..n /\ m \in relocated
          /\ \A j \in 1..i - 1 : binaries[j].lib \in relocated
      BY <1>0, <1>1, <1>2, <1>9 DEF CallRelocated
    <3>2. QED
      BY <3>1, <1>0, <1>2, <1>3
  <2>4. QED
    BY <2>2, <2>3, <1>1, <1>3, <1>4, <1>9 DEF CallRelocated
<1>20. \A u \in Thread : pc'[u] # "idle" => CallInv(u)'
  <2>1. CallInv(t)'
    BY <1>16, <1>17, <1>18, <1>19 DEF CallInv
  <2>2. QED
    BY <2>1, <1>5, Zenon
<1>21. QED
  BY <1>6, <1>7, <1>11, <1>12, <1>14, <1>20 DEF SerialInv

\* A call that has relocated all leaves nothing pending.
LEMMA ReturnKeeps ==
  ASSUME SerialInv, Serial, NEW t \in Thread, Return(t)
  PROVE  SerialInv'
<1> DEFINE n == Len(binaries)
           i == local[t].i
<1>1. /\ pc[t] = "relocate" /\ ~(i <= local[t].end) /\ pc' = [pc EXCEPT ![t] = "idle"]
      /\ opened' = [opened EXCEPT ![t] = @ \cup {local[t].root}]
      /\ local' = [local EXCEPT ![t] = Nothing]
      /\ UNCHANGED <<binaries, loaded, relocated, bound, handed>>
  BY DEF Return, Goto, At
<1>2. /\ ThreadTypes /\ OneCaller /\ BoundRight /\ HandedRight /\ OpenedBound
      /\ CallReady(t) /\ CallLoaded(t) /\ CallNeeds(t) /\ CallRelocated(t)
      /\ local[t] \in Locals /\ i \in Nat /\ loaded \subseteq Lib /\ n \in Nat
      /\ DOMAIN binaries = 1..n /\ local[t].root \in Lib
  BY <1>1, CallFacts, BinaryFacts
<1>3. Nothing' = Nothing
  BY DEF Nothing
<1>4. Quiet' /\ \A u \in Thread : local'[u] = Nothing
  BY <1>1, <1>2 DEF Quiet, OneCaller, ThreadTypes
<1>5. ThreadTypes'
  <2>1. pc' \in [Thread -> Place]
    BY <1>1, <1>2 DEF ThreadTypes, Place
  <2>2. local' = [u \in Thread |-> local'[u]]
    BY <1>1, <1>2 DEF ThreadTypes
  <2>3. opened' \in [Thread -> SUBSET Lib]
    BY <1>1, <1>2 DEF ThreadTypes
  <2>4. \A u \in Thread : pc'[u] = "idle"
    BY <1>4 DEF Quiet
  <2>5. QED
    BY <2>1, <2>2, <2>3, <2>4, <1>1, <1>2, <1>3, <1>4 DEF ThreadTypes
<1>6. OneCaller'
  BY <1>4 DEF OneCaller, Quiet
<1>7. /\ \A k : Home(k)' = Home(k)
      /\ \A s : Defining(s)' = Defining(s)
      /\ Mapped' = Mapped
  BY <1>1 DEF Home, Defining, Mapped
<1>8. \A k : FirstBound(k) <=> FirstBound(k)'
  BY <1>1, <1>7 DEF FirstBound
<1>9. BoundRight' /\ HandedRight'
  BY <1>1, <1>2, <1>7 DEF BoundRight, HandedRight
<1>10. \A k \in relocated : FirstBound(k)
  BY <1>1, <1>2 DEF CallRelocated
<1>11. \A k \in Mapped : FirstBound(k)
  <2>1. local[t].end = n /\ i \in 1..n + 1 /\ \A j \in 1..i - 1 : binaries[j].lib \in relocated
    BY <1>1, <1>2 DEF CallRelocated
  <2>2. \A j \in DOMAIN binaries : binaries[j].lib \in relocated
    BY <2>1, <1>1, <1>2
  <2>3. QED
    BY <2>2, <1>10 DEF Mapped
<1>12. OpenedBound'
  <2>1. \A k \in Closure(local[t].root) : FirstBound(k)
    BY <1>1, <1>2, <1>11, MappedClosed
  <2>2. \A u \in Thread : \A l \in opened'[u] : l = local[t].root \/ l \in opened[u]
    BY <1>1, <1>2 DEF ThreadTypes
  <2>3. ASSUME NEW u \in Thread, NEW l \in opened'[u], NEW k \in Closure(l)
        PROVE  FirstBound(k)
    BY <2>1, <2>2, <1>2 DEF OpenedBound
  <2>4. QED
    BY <2>3, <1>8 DEF OpenedBound
<1>13. QuietInv'
  <2>1. \A j \in DOMAIN binaries : binaries[j].ready
    BY <1>1, <1>2 DEF CallReady
  <2>2. Mapped = loaded
    BY <1>1, <1>2 DEF CallLoaded
  <2>3. Range(local[t].queue) = {}
    BY <1>1, <1>2 DEF CallNeeds, Range
  <2>4. \A j \in DOMAIN binaries : Range(Needed[binaries[j].lib]) \subseteq loaded
    BY <1>1, <1>2, <2>3 DEF CallNeeds, InHand
  <2>5. QED
    BY <2>1, <2>2, <2>4, <1>1, <1>7, <1>8, <1>10 DEF QuietInv
<1>14. QED
  <2>1. \A u \in Thread : pc'[u] = "idle"
    BY <1>4 DEF Quiet
  <2>2. QED
    BY <2>1, <1>5, <1>6, <1>9, <1>12, <1>13 DEF SerialInv

-----------------------------------------------------------------------------
(***************************************************************************)
(*                     The calls, and all steps together                   *)
(***************************************************************************)

\* A call that meets no other one begins when all is quiet.
LEMMA QuietBefore ==
  ASSUME SerialInv, Serial, NEW t \in Thread, pc[t] = "idle", ~Busy(t)
  PROVE  /\ Quiet /\ QuietInv /\ ThreadTypes /\ BoundRight /\ HandedRight /\ OpenedBound
         /\ local[t] = Nothing
<1>1. Quiet
  BY DEF Quiet, Busy
<1>2. QED
  BY <1>1 DEF SerialInv, ThreadTypes

LEMMA DlopenKeeps ==
  ASSUME SerialInv, Serial, NEW t \in Thread, NEW l \in Lib, Dlopen(t, l), Serial'
  PROVE  SerialInv'
<1> DEFINE r == [Nothing EXCEPT !.root = l, !.lib = l]
<1>1. /\ pc[t] = "idle" /\ ~Busy(t) /\ pc' = [pc EXCEPT ![t] = "emplace"]
      /\ local' = [local EXCEPT ![t].root = l, ![t].lib = l]
      /\ UNCHANGED <<binaries, loaded, relocated, bound, opened, handed>>
  BY DEF Dlopen, Goto, Serial
<1>2. /\ Quiet /\ QuietInv /\ ThreadTypes /\ BoundRight /\ HandedRight /\ OpenedBound
      /\ local[t] = Nothing
  BY <1>1, QuietBefore
<1>3. /\ r \in Locals /\ r.root = l /\ r.lib = l /\ local' = [local EXCEPT ![t] = r]
  <2>1. Nothing \in Locals
    BY DEF Nothing, Locals
  <2>2. r \in Locals /\ r.root = l /\ r.lib = l
    BY <2>1 DEF Locals
  <2>3. local' = [local EXCEPT ![t] = r]
    BY <1>1, <1>2 DEF ThreadTypes
  <2>4. QED
    BY <2>2, <2>3
<1> HIDE DEF r
<1>4. /\ pc'[t] = "emplace" /\ local'[t] = r
      /\ \A u \in Thread : u # t => pc'[u] = "idle" /\ local'[u] = local[u]
  BY <1>1, <1>2, <1>3 DEF ThreadTypes, Quiet
<1>5. ThreadTypes'
  <2>1. pc' \in [Thread -> Place] /\ local' = [u \in Thread |-> local'[u]]
    BY <1>1, <1>2, <1>3 DEF ThreadTypes, Place
  <2>2. \A u \in Thread : IF pc'[u] = "idle" THEN local'[u] = Nothing ELSE local'[u] \in Locals
    BY <1>2, <1>3, <1>4 DEF ThreadTypes, Quiet
  <2>3. Nothing' = Nothing
    BY DEF Nothing
  <2>4. QED
    BY <2>1, <2>2, <2>3, <1>1, <1>2 DEF ThreadTypes
<1>6. OneCaller' /\ ~Quiet'
  BY <1>4 DEF OneCaller, Quiet
<1>7. Grown
  BY <1>1, <1>2, SameIsGrown
<1>8. BoundRight' /\ HandedRight' /\ OpenedBound' /\ \A m : FirstBound(m) => FirstBound(m)'
  BY <1>1, <1>2, <1>7, RightStays
<1>9. IsRoot(t)' /\ Mapped' = Mapped
  BY <1>1, <1>3, <1>4 DEF IsRoot, Mapped
<1>10. CallReady(t)'
  BY <1>1, <1>2, <1>4 DEF CallReady, InHand, QuietInv
<1>11. CallLoaded(t)'
  BY <1>1, <1>2, <1>4, <1>9 DEF CallLoaded, QuietInv
<1>12. CallNeeds(t)'
  BY <1>1, <1>2, <1>4 DEF CallNeeds, QuietInv
<1>13. CallRelocated(t)'
  BY <1>1, <1>2, <1>4, <1>8 DEF CallRelocated, QuietInv
<1>14. \A u \in Thread : pc'[u] # "idle" => CallInv(u)'
  <2>1. CallInv(t)'
    BY <1>10, <1>11, <1>12, <1>13 DEF CallInv
  <2>2. QED
    BY <2>1, <1>4, Zenon
<1>15. QED
  BY <1>5, <1>6, <1>8, <1>14 DEF SerialInv

\* Steps after which no call is in progress and the containers are as before.
LEMMA QuietKeeps ==
  ASSUME SerialInv, Serial, Quiet, HandedRight',
         UNCHANGED <<binaries, loaded, relocated, bound, pc, local, opened>>
  PROVE  SerialInv'
<1>1. QuietInv /\ ThreadTypes /\ OneCaller /\ BoundRight /\ OpenedBound
  BY DEF SerialInv
<1>2. Nothing' = Nothing
  BY DEF Nothing
<1>3. ThreadTypes' /\ OneCaller' /\ Quiet'
  BY <1>1, <1>2 DEF ThreadTypes, OneCaller, Quiet
<1>4. Grown
  BY <1>1, SameIsGrown
<1>5. BoundRight' /\ OpenedBound' /\ \A m : FirstBound(m) => FirstBound(m)'
  BY <1>1, <1>4, RightStays
<1>6. Mapped' = Mapped
  BY DEF Mapped
<1>7. QuietInv'
  BY <1>1, <1>5, <1>6 DEF QuietInv
<1>8. \A u \in Thread : pc'[u] = "idle"
  BY <1>3 DEF Quiet
<1>9. QED
  BY <1>3, <1>5, <1>7, <1>8 DEF SerialInv

LEMMA DlsymKeeps ==
  ASSUME SerialInv, Serial, NEW t \in Thread, NEW s \in Sym, Dlsym(t, s), Serial'
  PROVE  SerialInv'
<1>1. /\ pc[t] = "idle" /\ ~Busy(t) /\ Defining(s) # {}
      /\ handed' = handed \cup {[sym |-> s, bin |-> Min(Defining(s))]}
      /\ UNCHANGED <<binaries, loaded, relocated, bound, pc, local, opened>>
  BY DEF Dlsym, Serial
<1>2. Quiet /\ HandedRight
  BY <1>1, QuietBefore
<1>3. \A x : Defining(x)' = Defining(x)
  BY <1>1 DEF Defining
<1>4. HandedRight'
  BY <1>1, <1>2, <1>3 DEF HandedRight
<1>5. QED
  BY <1>1, <1>2, <1>4, QuietKeeps

LEMMA StutterKeeps ==
  ASSUME SerialInv, UNCHANGED vars
  PROVE  SerialInv'
<1>1. /\ Nothing' = Nothing /\ (Serial' <=> Serial) /\ Mapped' = Mapped
      /\ \A m : Home(m)' = Home(m)
      /\ \A s : Defining(s)' = Defining(s)
      /\ \A t \in Thread : IsRoot(t)' = IsRoot(t)
  BY DEF vars, Nothing, Serial, Mapped, Home, Defining, IsRoot
<1>2. \A m : FirstBound(m)' <=> FirstBound(m)
  BY <1>1 DEF vars, FirstBound
<1>3. (ThreadTypes => ThreadTypes') /\ (OneCaller => OneCaller') /\ (Quiet' <=> Quiet)
  BY <1>1 DEF vars, ThreadTypes, OneCaller, Quiet
<1>4. BoundRight => BoundRight'
  BY <1>1 DEF vars, BoundRight
<1>5. HandedRight => HandedRight'
  BY <1>1 DEF vars, HandedRight
<1>6. OpenedBound => OpenedBound'
  BY <1>2 DEF vars, OpenedBound
<1>7. QuietInv => QuietInv'
  BY <1>1, <1>2 DEF vars, QuietInv
<1>8. ASSUME NEW t \in Thread, CallInv(t) PROVE CallInv(t)'
  <2>1. InHand(t)' <=> InHand(t)
    BY <1>1 DEF vars, InHand
  <2>2. CallReady(t)'
    BY <1>8, <2>1 DEF vars, CallInv, CallReady
  <2>3. CallLoaded(t)'
    BY <1>8, <1>1 DEF vars, CallInv, CallLoaded
  <2>4. CallNeeds(t)'
    BY <1>8, <2>1 DEF vars, CallInv, CallNeeds
  <2>5. CallRelocated(t)'
    BY <1>8, <1>1, <1>2 DEF vars, CallInv, CallRelocated
  <2>6. QED
    BY <2>2, <2>3, <2>4, <2>5 DEF CallInv
<1>9. \A t \in Thread : pc'[t] = pc[t]
  BY DEF vars
<1>10. QED
  BY <1>1, <1>3, <1>4, <1>5, <1>6, <1>7, <1>8, <1>9 DEF SerialInv

LEMMA StepKeeps ==
  ASSUME SerialInv, Serial, Serial', NEW t \in Thread, Step(t)
  PROVE  SerialInv'
<1>1. CASE Emplace(t)
  BY <1>1, EmplaceKeeps
<1>2. CASE Load(t)
  BY <1>2, LoadKeeps
<1>3. CASE LoadTwice(t)
  BY <1>3 DEF LoadTwice, Serial
<1>4. CASE Insert(t)
  BY <1>4, InsertKeeps
<1>5. CASE Push(t)
  BY <1>5, PushKeeps
<1>6. CASE SkipLoaded(t)
  BY <1>6, SkipLoadedKeeps
<1>7. CASE NotLoaded(t)
  BY <1>7, NotLoadedKeeps
<1>8. CASE SearchDone(t)
  BY <1>8, SearchDoneKeeps
<1>9. CASE SkipRelocated(t)
  BY <1>9, SkipRelocatedKeeps
<1>10. CASE Mark(t)
  BY <1>10, MarkKeeps
<1>11. CASE Write(t)
  BY <1>11, WriteKeeps
<1>12. CASE Return(t)
  BY <1>12, ReturnKeeps
<1>13. QED
  BY <1>1, <1>2, <1>3, <1>4, <1>5, <1>6, <1>7, <1>8, <1>9, <1>10, <1>11, <1>12 DEF Step

\* Calls that have met stay so, and a process that has ended too.
LEMMA SerialBefore ==
  ASSUME [Next]_vars, Serial'
  PROVE  Serial
<1>1. CASE UNCHANGED vars
  BY <1>1 DEF vars, Serial
<1>2. ASSUME NEW t \in Thread, Step(t) PROVE Serial
  <2>1. Emplace(t) \/ Load(t) \/ LoadTwice(t) \/ Insert(t) => alive /\ overlap' = overlap
    BY DEF Emplace, Load, LoadTwice, Insert
  <2>2. Push(t) \/ SkipLoaded(t) \/ NotLoaded(t) \/ SearchDone(t) => alive /\ overlap' = overlap
    BY DEF Push, SkipLoaded, NotLoaded, SearchDone
  <2>3. SkipRelocated(t) \/ Mark(t) \/ Return(t) => alive /\ overlap' = overlap
    BY DEF SkipRelocated, Mark, Return
  <2>4. Write(t) => alive /\ overlap' = overlap
    BY DEF Write
  <2>5. alive /\ overlap' = overlap
    BY <1>2, <2>1, <2>2, <2>3, <2>4 DEF Step
  <2>6. QED
    BY <2>5 DEF Serial
<1>3. ASSUME NEW t \in Thread, NEW l \in Lib, Dlopen(t, l) PROVE Serial
  BY <1>3 DEF Dlopen, Serial
<1>4. ASSUME NEW t \in Thread, NEW s \in Sym, Dlsym(t, s) \/ DlsymFails(t, s) PROVE Serial
  BY <1>4 DEF Dlsym, DlsymFails, Serial
<1>5. CASE Crash
  BY <1>5 DEF Crash, Serial
<1>6. QED
  BY <1>1, <1>2, <1>3, <1>4, <1>5 DEF Next

LEMMA SerialInit ==
  ASSUME Init
  PROVE  SerialInv
<1>1. binaries = <<>> /\ DOMAIN binaries = {} /\ binaries \in Seq(Binary) /\ DOMAIN bound = {}
  BY DEF Init
<1>2. \A t \in Thread : pc[t] = "idle" /\ local[t] = Nothing /\ opened[t] = {}
  BY DEF Init
<1>3. ThreadTypes
  BY <1>1, <1>2 DEF Init, ThreadTypes, Place
<1>4. OneCaller /\ BoundRight /\ HandedRight /\ OpenedBound
  BY <1>1, <1>2 DEF Init, OneCaller, BoundRight, HandedRight, OpenedBound
<1>5. QuietInv
  BY <1>1 DEF Init, QuietInv, Mapped
<1>6. QED
  BY <1>2, <1>3, <1>4, <1>5 DEF SerialInv

\* As long as no dlopen has met another call: one thread at most is in dlopen; the
\* names of loaded_ are those of binaries_, but for the library in hand; what a
\* binary needs is loaded, queued or in hand; Relocate has done the first mapping
\* of all it has passed; what is written and what dlsym returned is what SearchSym
\* finds now.
THEOREM SerialInvariant == Spec => []SerialInv
<1>1. ASSUME SerialInv, [Next]_vars PROVE SerialInv'
  <2> SUFFICES ASSUME Serial' PROVE SerialInv'
    BY DEF SerialInv
  <2>1. Serial
    BY <1>1, SerialBefore
  <2>2. CASE UNCHANGED vars
    BY <1>1, <2>2, StutterKeeps
  <2>3. ASSUME NEW t \in Thread, Step(t) PROVE SerialInv'
    BY <1>1, <2>1, <2>3, StepKeeps
  <2>4. ASSUME NEW t \in Thread, NEW l \in Lib, Dlopen(t, l) PROVE SerialInv'
    BY <1>1, <2>1, <2>4, DlopenKeeps
  <2>5. ASSUME NEW t \in Thread, NEW s \in Sym, Dlsym(t, s) \/ DlsymFails(t, s) PROVE SerialInv'
    <3>1. CASE Dlsym(t, s)
      BY <1>1, <2>1, <3>1, DlsymKeeps
    <3>2. CASE DlsymFails(t, s)
      BY <3>2 DEF DlsymFails, Serial
    <3>3. QED
      BY <2>5, <3>1, <3>2
  <2>6. CASE Crash
    BY <2>6 DEF Crash, Serial
  <2>7. QED
    BY <1>1, <2>2, <2>3, <2>4, <2>5, <2>6 DEF Next
<1>2. QED
  BY <1>1, SerialInit, PTL DEF Spec

\* Everything that dlopen has returned for can be used by every thread, as long as
\* no dlopen has met another call: it and all it needs is mapped and relocated, its
\* references are bound to the first definition, and dlsym gives the same address
\* to all threads.  This holds for every dependence graph, cycles included.
THEOREM SerialCallsAreUsable == Spec => []SerialUsable
<1>1. ASSUME SerialInv PROVE SerialUsable
  <2> SUFFICES ASSUME alive /\ ~overlap PROVE SerialUsable
    BY DEF SerialUsable
  <2>1. ThreadTypes /\ BoundRight /\ HandedRight /\ OpenedBound
    BY <1>1 DEF SerialInv, Serial
  <2>2. ASSUME NEW t \in Thread, NEW l \in opened[t], NEW m \in Closure(l)
        PROVE  /\ Home(m) # {} /\ binaries[Min(Home(m))].ready
               /\ Min(Home(m)) \in DOMAIN bound
               /\ \A s \in Refers[m] \cap Defined(m) :
                    /\ s \in DOMAIN bound[Min(Home(m))]
                    /\ bound[Min(Home(m))][s] = Min(Defining(s))
    <3>1. Home(m) # {} /\ Min(Home(m)) \in DOMAIN bound
      BY <2>1 DEF OpenedBound, FirstBound
    <3>2. binaries[Min(Home(m))].lib = m
      BY <2>1, <3>1, FirstOf
    <3>3. QED
      BY <2>1, <3>1, <3>2 DEF BoundRight
  <2>3. \A h \in handed : h.bin = Min(Defining(h.sym))
    BY <2>1 DEF HandedRight
  <2>4. QED
    BY <2>2, <2>3 DEF SerialUsable
<1>2. QED
  BY <1>1, SerialInvariant, PTL

=============================================================================
