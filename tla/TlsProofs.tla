----------------------------- MODULE TlsProofs -----------------------------
(***************************************************************************)
(* Proofs about TlsLayout, for every size of the array, of pointers and of *)
(* segments, and every number of binaries; and about TlsThreads: what the  *)
(* stores of constructors and threads can and cannot do to the layout, to  *)
(* the last block and to the thread control block, for any number of       *)
(* threads and any number of stores.                                       *)
(***************************************************************************)
EXTENDS TlsThreads, NatRecursion, SequenceTheorems

\* A segment, and what TLSSymOffset and Execute make of its size.
LEMMA ImageType ==
  ASSUME NEW b \in Images
  PROVE  /\ b.tls \in BOOLEAN /\ b.memsz \in Nat /\ b.filesz \in Nat
         /\ b.filesz <= b.memsz /\ (~b.tls => b.memsz = 0)
  BY TlsAssumption DEF Image

\* Both loops go down by the size of the block, and never up.
LEMMA AfterBlockType ==
  ASSUME NEW b \in Images, NEW o \in Int
  PROVE  /\ AfterBlock(o, b) = o - b.memsz
         /\ AfterBlock(o, b) \in Int
         /\ AfterBlock(o, b) <= o
  BY ImageType DEF AfterBlock

\* The invariant holds at the start.
LEMMA InvInit == Init => TlsInv
<1> SUFFICES ASSUME Init  PROVE TlsInv
  OBVIOUS
<1>1. bins \in Seq(Images) /\ Len(bins) \in Nat /\ Len(bins) > 0
  <2>1. PICK n \in 1..MaxBins : bins \in [1..n -> Images]
    BY DEF Init
  <2>2. bins \in Seq(Images) /\ Len(bins) = n
    BY <2>1, TlsAssumption, SeqDef
  <2>3. QED
    BY <2>1, <2>2, TlsAssumption
<1>2. DOMAIN acc = {1} /\ acc[1] = 0 /\ DOMAIN start = {}
  BY DEF Init
<1>3. mem \in [Addr -> Byte]
  BY TlsAssumption DEF Init, Addr, Byte, Own, Ptr, FS
<1>4. TypeOK
  <2>1. 1 \in 1..Len(bins) + 1 /\ TlsSpace \in 0..TlsSpace
    BY <1>1, TlsAssumption
  <2>2. \A k \in DOMAIN acc : acc[k] \in Int /\ acc[k] <= 0
    BY <1>2
  <2>3. QED
    BY <1>1, <1>2, <1>3, <2>1, <2>2 DEF Init, TypeOK
<1>5. AccInv
  BY <1>1, <1>2 DEF AccInv
<1>6. WalkInv /\ ExecInv /\ TpoffMatchesLayout
  BY <1>2 DEF Init, WalkInv, ExecInv, TpoffMatchesLayout
<1>7. QED
  BY <1>4, <1>5, <1>6 DEF TlsInv

\* Everything below the end of the loop of TLSSymOffset is in acc once the loop
\* has been there.
LEMMA AccCovers ==
  ASSUME TlsInv, pc # "relocate", NEW k \in 1..Len(bins) + 1
  PROVE  /\ k \in DOMAIN acc /\ acc[k] \in Int /\ acc[k] <= 0
         /\ acc[Len(bins) + 1] <= acc[k]
         /\ acc[Len(bins) + 1] \in Int
<1>1. Len(bins) \in Nat
  BY DEF TlsInv, TypeOK
<1>2. Len(bins) + 1 \in DOMAIN acc /\ k \in DOMAIN acc
  BY <1>1 DEF TlsInv, AccInv, WalkInv
<1>3. QED
  BY <1>1, <1>2 DEF TlsInv, TypeOK, AccInv

\* The loop of TLSSymOffset: what it finds where an earlier one has been is
\* what is there.
LEMMA WalkStep ==
  ASSUME TlsInv, Walk
  PROVE  TlsInv' /\ \A k \in DOMAIN acc : k \in DOMAIN acc' /\ acc'[k] = acc[k]
<1> DEFINE w == walk + 1
           a == AfterBlock(offset, bins[walk])
<1>1. /\ bins \in Seq(Images) /\ Len(bins) \in Nat
      /\ walk \in 1..Len(bins) /\ walk \in DOMAIN bins
      /\ bins[walk] \in Images
      /\ walk \in DOMAIN acc /\ offset = acc[walk] /\ offset \in Int /\ offset <= 0
  BY DEF TlsInv, TypeOK, WalkInv, Walk
<1>2. /\ a \in Int /\ a <= offset
      /\ w \in 1..Len(bins) + 1 /\ w \notin 1..walk /\ w \in Int
  <2>1. a \in Int /\ a <= offset
    <3> HIDE DEF a
    <3>1. a = AfterBlock(offset, bins[walk])
      BY DEF a
    <3>2. QED
      BY <1>1, <3>1, AfterBlockType
  <2>2. QED
    BY <1>1, <2>1
<1>3. DOMAIN acc \subseteq 1..Len(bins) + 1
  BY DEF TlsInv, TypeOK
<1>4. w \in DOMAIN acc => acc[w] = a
  BY <1>1 DEF TlsInv, AccInv
<1>5. /\ DOMAIN acc' = DOMAIN acc \cup {w}
      /\ acc'[w] = a
      /\ \A k \in DOMAIN acc : acc'[k] = acc[k]
  BY <1>4 DEF Walk
<1> HIDE DEF w, a
<1>6. /\ bins' = bins /\ pc' = pc /\ entered' = entered /\ libc_tpoff' = libc_tpoff
      /\ size' = size /\ tls_offset' = tls_offset /\ start' = start /\ mem' = mem
      /\ walk' = w /\ offset' = a /\ pc = "relocate"
  BY DEF Walk, w, a
<1>7. TypeOK'
  <2>1. \A k \in DOMAIN acc' : acc'[k] \in Int /\ acc'[k] <= 0
    BY <1>1, <1>2, <1>5 DEF TlsInv, TypeOK
  <2>2. offset' \in Int /\ offset' <= 0
    BY <1>1, <1>2, <1>6
  <2>3. DOMAIN acc' \subseteq 1..Len(bins') + 1 /\ walk' \in 1..Len(bins') + 1
    BY <1>2, <1>3, <1>5, <1>6
  <2>4. QED
    BY <2>1, <2>2, <2>3, <1>6 DEF TlsInv, TypeOK
<1>8. AccInv'
  <2>1. 1 \in DOMAIN acc' /\ acc'[1] = 0
    BY <1>5 DEF TlsInv, AccInv
  <2>2. ASSUME NEW k \in DOMAIN acc'  PROVE 1..k \subseteq DOMAIN acc'
    <3>1. CASE k \in DOMAIN acc
      BY <3>1, <1>5 DEF TlsInv, AccInv
    <3>2. CASE k = w
      <4>1. 1..walk \subseteq DOMAIN acc
        BY <1>1 DEF TlsInv, AccInv
      <4>2. 1..k = 1..walk \cup {w}
        BY <3>2, <1>1 DEF w
      <4>3. QED
        BY <4>1, <4>2, <1>5
    <3>3. QED
      BY <3>1, <3>2, <1>5
  <2>3. ASSUME NEW k \in DOMAIN bins', k + 1 \in DOMAIN acc'
        PROVE  acc'[k + 1] = AfterBlock(acc'[k], bins'[k])
    <3>0. k \in DOMAIN bins /\ k \in 1..Len(bins)
      BY <1>1, <1>6
    <3>1. CASE k + 1 \in DOMAIN acc
      <4>1. 1..k + 1 \subseteq DOMAIN acc
        BY <3>1 DEF TlsInv, AccInv
      <4>2. k \in DOMAIN acc
        BY <4>1, <3>0, <1>1
      <4>3. acc[k + 1] = AfterBlock(acc[k], bins[k])
        BY <3>0, <3>1 DEF TlsInv, AccInv
      <4>4. QED
        BY <3>1, <4>2, <4>3, <1>5, <1>6
    <3>2. CASE k + 1 = w
      <4>1. k = walk
        BY <3>0, <3>2, <1>1 DEF w
      <4>2. QED
        BY <4>1, <3>2, <1>1, <1>5, <1>6 DEF a
    <3>3. QED
      BY <3>1, <3>2, <2>3, <1>5
  <2>4. ASSUME NEW j \in DOMAIN acc', NEW k \in DOMAIN acc', j <= k
        PROVE  acc'[k] <= acc'[j]
    <3>1. CASE j \in DOMAIN acc /\ k \in DOMAIN acc
      BY <3>1, <2>4, <1>5 DEF TlsInv, AccInv
    <3>2. CASE w \in DOMAIN acc
      <4>1. j \in DOMAIN acc /\ k \in DOMAIN acc
        BY <3>2, <1>5
      <4>2. QED
        BY <3>1, <4>1
    <3>3. CASE k = w /\ j = w
      BY <3>3, <1>2, <1>5
    <3>4. CASE k = w /\ j \in DOMAIN acc /\ j # w
      <4>1. j \in 1..Len(bins) + 1 /\ j <= walk
        BY <3>4, <2>4, <1>1, <1>3 DEF w
      <4>2. acc[walk] <= acc[j]
        BY <4>1, <3>4, <1>1 DEF TlsInv, AccInv
      <4>3. acc[walk] \in Int /\ acc[j] \in Int
        BY <3>4, <1>1 DEF TlsInv, TypeOK
      <4>4. QED
        BY <4>2, <4>3, <3>4, <1>1, <1>2, <1>5
    <3>5. CASE j = w /\ k \in DOMAIN acc /\ w \notin DOMAIN acc
      <4>1. 1..k \subseteq DOMAIN acc /\ k \in Int
        BY <3>5, <1>3 DEF TlsInv, AccInv
      <4>2. w \in 1..k
        BY <4>1, <3>5, <2>4, <1>2
      <4>3. QED
        BY <4>1, <4>2, <3>5
    <3>6. QED
      BY <3>1, <3>2, <3>3, <3>4, <3>5, <1>5
  <2>5. QED
    BY <2>1, <2>2, <2>3, <2>4 DEF AccInv
<1>9. WalkInv'
  BY <1>5, <1>6 DEF WalkInv
<1>10. ExecInv'
  BY <1>5, <1>6 DEF TlsInv, ExecInv
<1>11. TpoffMatchesLayout'
  BY <1>5, <1>6 DEF TlsInv, ExecInv, TpoffMatchesLayout, Tpoff, FS
<1>12. QED
  BY <1>5, <1>7, <1>8, <1>9, <1>10, <1>11 DEF TlsInv

\* Appending a binary moves nothing: every offset that is known stays.
LEMMA DlopenStep ==
  ASSUME TlsInv, Dlopen
  PROVE  TlsInv'
<1>1. PICK b \in Images : bins' = Append(bins, b)
  BY DEF Dlopen
<1>2. /\ bins \in Seq(Images) /\ Len(bins) \in Nat
      /\ bins' \in Seq(Images) /\ Len(bins') = Len(bins) + 1
      /\ \A i \in 1..Len(bins) : bins'[i] = bins[i]
      /\ DOMAIN bins = 1..Len(bins) /\ DOMAIN bins' = 1..Len(bins) + 1
  BY <1>1 DEF TlsInv, TypeOK
<1>3. /\ pc' = "relocate" /\ walk' = 1 /\ offset' = 0 /\ entered' = entered
      /\ acc' = acc /\ libc_tpoff' = libc_tpoff /\ size' = size
      /\ tls_offset' = tls_offset /\ start' = start /\ mem' = mem
      /\ pc \in {"ctor", "running"}
  BY DEF Dlopen
<1>4. DOMAIN acc \subseteq 1..Len(bins) + 1 /\ DOMAIN start \subseteq 1..Len(bins)
  BY DEF TlsInv, TypeOK
<1>5. TypeOK'
  <2>1. DOMAIN acc \subseteq 1..Len(bins') + 1 /\ DOMAIN start \subseteq 1..Len(bins')
        /\ 1 \in 1..Len(bins') + 1
    BY <1>2, <1>4
  <2>2. QED
    BY <1>2, <1>3, <2>1 DEF TlsInv, TypeOK
<1>6. AccInv'
  <2>1. ASSUME NEW k \in DOMAIN bins', k + 1 \in DOMAIN acc
        PROVE  acc[k + 1] = AfterBlock(acc[k], bins'[k])
    <3>1. k \in 1..Len(bins)
      BY <2>1, <1>2, <1>4
    <3>2. QED
      BY <2>1, <3>1, <1>2 DEF TlsInv, AccInv
  <2>2. QED
    BY <2>1, <1>3 DEF TlsInv, AccInv
<1>7. WalkInv'
  BY <1>3 DEF TlsInv, AccInv, WalkInv
<1>8. ExecInv'
  BY <1>3 DEF TlsInv, ExecInv
<1>9. TpoffMatchesLayout'
  <2>1. ASSUME NEW i \in DOMAIN start
        PROVE  start[i] = TlsSpace + (acc[i] - bins'[i].memsz)
    <3>1. bins'[i] = bins[i]
      BY <1>2, <1>4
    <3>2. QED
      BY <3>1 DEF TlsInv, TpoffMatchesLayout, Tpoff, FS
  <2>2. QED
    BY <2>1, <1>3 DEF TpoffMatchesLayout, Tpoff, FS
<1>10. QED
  BY <1>5, <1>6, <1>7, <1>8, <1>9 DEF TlsInv

\* Execute adds up the sizes that TLSSymOffset subtracted.
LEMMA AddSizeStep ==
  ASSUME TlsInv, AddSize
  PROVE  TlsInv'
<1>1. /\ Len(bins) \in Nat /\ bins \in Seq(Images) /\ DOMAIN bins = 1..Len(bins)
      /\ walk \in 1..Len(bins) /\ bins[walk] \in Images
      /\ pc = "size" /\ size = -acc[walk] /\ size \in Nat
  BY DEF TlsInv, TypeOK, ExecInv, AddSize
<1>2. /\ pc' = pc /\ bins' = bins /\ entered' = entered /\ walk' = walk + 1
      /\ offset' = offset /\ acc' = acc /\ libc_tpoff' = libc_tpoff
      /\ tls_offset' = tls_offset /\ start' = start /\ mem' = mem
      /\ size' = size + (IF bins[walk].tls THEN bins[walk].memsz ELSE 0)
  BY DEF AddSize
<1>3. size' = size + bins[walk].memsz /\ bins[walk].memsz \in Nat
  BY <1>1, <1>2, ImageType
<1>4. walk + 1 \in 1..Len(bins) + 1 /\ walk \in 1..Len(bins) + 1
  BY <1>1
<1>5. /\ walk + 1 \in DOMAIN acc /\ acc[walk + 1] \in Int /\ acc[walk] \in Int
  BY <1>1, <1>4, AccCovers
<1>6. acc[walk + 1] = acc[walk] - bins[walk].memsz
  <2>1. acc[walk + 1] = AfterBlock(acc[walk], bins[walk])
    BY <1>1, <1>5 DEF TlsInv, AccInv
  <2>2. QED
    BY <2>1, <1>1, <1>5, AfterBlockType
<1>7. size' \in Nat /\ size' = -acc'[walk']
  BY <1>1, <1>2, <1>3, <1>5, <1>6
<1>8. TypeOK'
  BY <1>2, <1>4, <1>7 DEF TlsInv, TypeOK
<1>9. AccInv' /\ WalkInv' /\ TpoffMatchesLayout'
  BY <1>1, <1>2 DEF TlsInv, AccInv, WalkInv, TpoffMatchesLayout, Tpoff, FS
<1>10. ExecInv'
  BY <1>1, <1>2, <1>7 DEF TlsInv, ExecInv
<1>11. QED
  BY <1>8, <1>9, <1>10 DEF TlsInv

\* The check on the sum is what keeps the copies inside the array.
LEMMA CheckSizeStep ==
  ASSUME TlsInv, CheckSize
  PROVE  TlsInv'
<1>1. /\ Len(bins) \in Nat /\ walk = Len(bins) + 1 /\ pc = "size"
      /\ size = -acc[Len(bins) + 1] /\ tls_offset = TlsSpace /\ ~entered
      /\ DOMAIN start = {}
  BY DEF TlsInv, TypeOK, ExecInv, CheckSize
<1>2. /\ pc' \in {"copy", "dead"} /\ (pc' = "copy" => size <= TlsSpace)
      /\ walk' = 1 /\ bins' = bins /\ entered' = entered /\ offset' = offset
      /\ acc' = acc /\ libc_tpoff' = libc_tpoff /\ size' = size
      /\ tls_offset' = tls_offset /\ start' = start /\ mem' = mem
  BY DEF CheckSize, Fits
<1>3. TypeOK'
  <2>1. 1 \in 1..Len(bins) + 1
    BY <1>1
  <2>2. QED
    BY <1>2, <2>1 DEF TlsInv, TypeOK
<1>4. AccInv' /\ WalkInv' /\ TpoffMatchesLayout'
  BY <1>1, <1>2 DEF TlsInv, AccInv, WalkInv, TpoffMatchesLayout, Tpoff, FS
<1>5. acc[1] = 0
  BY DEF TlsInv, AccInv
<1>6. ExecInv'
  BY <1>1, <1>2, <1>5, TlsAssumption DEF TlsInv, ExecInv
<1>7. QED
  BY <1>3, <1>4, <1>6 DEF TlsInv

\* What the two steps of the copying loop share: where the loop is, and where
\* it is after this binary.
LEMMA CopyLoop ==
  ASSUME TlsInv, pc = "copy", walk <= Len(bins)
  PROVE  /\ Len(bins) \in Nat /\ walk \in 1..Len(bins) /\ bins[walk] \in Images
         /\ walk + 1 \in 1..Len(bins) + 1
         /\ acc[walk] \in Int /\ tls_offset = TlsSpace + acc[walk]
         /\ acc[walk + 1] \in Int /\ acc[walk + 1] = acc[walk] - bins[walk].memsz
         /\ acc[walk + 1] <= 0 /\ TlsSpace + acc[walk + 1] >= 0
         /\ walk \in DOMAIN acc
<1>1. /\ Len(bins) \in Nat /\ bins \in Seq(Images) /\ DOMAIN bins = 1..Len(bins)
      /\ walk \in 1..Len(bins) /\ bins[walk] \in Images
      /\ size = -acc[Len(bins) + 1] /\ size <= TlsSpace /\ size \in Nat
      /\ tls_offset = TlsSpace + acc[walk]
  BY DEF TlsInv, TypeOK, ExecInv
<1>2. walk + 1 \in 1..Len(bins) + 1 /\ walk \in 1..Len(bins) + 1
  BY <1>1
<1>3. /\ walk \in DOMAIN acc /\ acc[walk] \in Int
      /\ walk + 1 \in DOMAIN acc /\ acc[walk + 1] \in Int /\ acc[walk + 1] <= 0
      /\ acc[Len(bins) + 1] <= acc[walk + 1] /\ acc[Len(bins) + 1] \in Int
  BY <1>2, AccCovers
<1>4. acc[walk + 1] = AfterBlock(acc[walk], bins[walk])
  BY <1>1, <1>3 DEF TlsInv, AccInv
<1>5. acc[walk + 1] = acc[walk] - bins[walk].memsz
  BY <1>1, <1>3, <1>4, AfterBlockType
<1>6. QED
  BY <1>1, <1>2, <1>3, <1>5, TlsAssumption

\* The block that Execute copies goes where TLSSymOffset said.
LEMMA CopyBlockStep ==
  ASSUME TlsInv, CopyBlock
  PROVE  TlsInv'
<1> DEFINE st == BlockStart(bins[walk])
<1>1. /\ Len(bins) \in Nat /\ walk \in 1..Len(bins) /\ bins[walk] \in Images
      /\ walk + 1 \in 1..Len(bins) + 1
      /\ acc[walk] \in Int /\ tls_offset = TlsSpace + acc[walk]
      /\ acc[walk + 1] \in Int /\ acc[walk + 1] = acc[walk] - bins[walk].memsz
      /\ acc[walk + 1] <= 0 /\ TlsSpace + acc[walk + 1] >= 0
      /\ walk \in DOMAIN acc
  BY CopyLoop DEF CopyBlock
<1>2. /\ pc = "copy" /\ pc' = pc /\ bins' = bins /\ entered' = entered
      /\ walk' = walk + 1 /\ offset' = offset /\ acc' = acc
      /\ libc_tpoff' = libc_tpoff /\ size' = size /\ tls_offset' = st
      /\ mem' = AfterCopy(walk, bins[walk], tls_offset)
      /\ DOMAIN start' = DOMAIN start \cup {walk} /\ start'[walk] = st
      /\ \A i \in DOMAIN start : i # walk => start'[i] = start[i]
  BY DEF CopyBlock
<1>3. /\ st = TlsSpace + acc[walk + 1] /\ st = TlsSpace + (acc[walk] - bins[walk].memsz)
      /\ st \in 0..TlsSpace
  <2>1. bins[walk].memsz \in Nat
    BY <1>1, ImageType
  <2>2. st = tls_offset - bins[walk].memsz
    BY DEF BlockStart
  <2> HIDE DEF st
  <2>3. PICK m \in Nat : m = bins[walk].memsz
    BY <2>1
  <2>4. PICK x \in Int, y \in Int : x = acc[walk] /\ y = acc[walk + 1]
    BY <1>1
  <2>5. /\ st = (TlsSpace + x) - m /\ y = x - m /\ y <= 0 /\ TlsSpace + y >= 0
        /\ TlsSpace \in Nat
    BY <1>1, <2>2, <2>3, <2>4, TlsAssumption
  <2>6. st = TlsSpace + y /\ st = TlsSpace + (x - m) /\ st \in 0..TlsSpace
    BY <2>5
  <2>7. QED
    BY <2>3, <2>4, <2>6
<1> HIDE DEF st
<1>4. mem' \in [Addr -> Byte]
  <2> DEFINE b == bins[walk]
             e == tls_offset
  <2>1. /\ b.memsz \in Nat /\ b.filesz \in Nat /\ b.filesz <= b.memsz
        /\ e \in Int /\ walk \in Int /\ Addr \subseteq Int /\ mem \in [Addr -> Byte]
    <3>1. b \in Images
      BY <1>1
    <3>2. b.memsz \in Nat /\ b.filesz \in Nat /\ b.filesz <= b.memsz
      BY <3>1, ImageType
    <3>3. Addr \subseteq Int
      BY TlsAssumption DEF Addr
    <3>4. QED
      BY <1>1, <3>2, <3>3, TlsAssumption DEF TlsInv, TypeOK
  <2> HIDE DEF b, e
  <2>2. \A a \in Addr : a \in e..e + PtrSize - 1 => Ptr(e, a - e) \in Byte
    BY <2>1, TlsAssumption DEF Ptr, Byte
  <2>3. Zero \in Byte
    BY DEF Zero, Byte
  <2>4. \A a \in Addr : a \in e - b.memsz..e - 1 => Data(walk, a - (e - b.memsz)) \in Byte
    BY <2>1 DEF Data, Byte
  <2>5. AfterCopy(walk, b, e) \in [Addr -> Byte]
    BY <2>1, <2>2, <2>3, <2>4 DEF AfterCopy
  <2>6. QED
    BY <2>5, <1>2 DEF b, e
<1>5. TypeOK'
  <2>1. DOMAIN start' \subseteq 1..Len(bins)
    BY <1>1, <1>2 DEF TlsInv, TypeOK
  <2>2. \A i \in DOMAIN start' : start'[i] \in 0..TlsSpace
    BY <1>2, <1>3 DEF TlsInv, TypeOK
  <2>3. QED
    BY <1>1, <1>2, <1>3, <1>4, <2>1, <2>2 DEF TlsInv, TypeOK
<1>6. AccInv' /\ WalkInv'
  BY <1>2 DEF TlsInv, AccInv, WalkInv
<1>7. ExecInv'
  BY <1>1, <1>2, <1>3 DEF TlsInv, ExecInv
<1>8. TpoffMatchesLayout'
  <2>1. ASSUME NEW i \in DOMAIN start'
        PROVE  start'[i] = TlsSpace + (acc[i] - bins[i].memsz)
    <3>1. CASE i = walk
      BY <3>1, <1>2, <1>3
    <3>2. CASE i # walk
      BY <3>2, <1>2 DEF TlsInv, TpoffMatchesLayout, Tpoff, FS
    <3>3. QED
      BY <3>1, <3>2
  <2>2. QED
    BY <2>1, <1>2 DEF TpoffMatchesLayout, Tpoff, FS
<1>9. QED
  BY <1>5, <1>6, <1>7, <1>8 DEF TlsInv

\* A binary without a block moves nothing in either loop.
LEMMA SkipBlockStep ==
  ASSUME TlsInv, SkipBlock
  PROVE  TlsInv'
<1>1. /\ Len(bins) \in Nat /\ walk \in 1..Len(bins) /\ bins[walk] \in Images
      /\ walk + 1 \in 1..Len(bins) + 1
      /\ acc[walk] \in Int /\ tls_offset = TlsSpace + acc[walk]
      /\ acc[walk + 1] \in Int /\ acc[walk + 1] = acc[walk] - bins[walk].memsz
  BY CopyLoop DEF SkipBlock
<1>2. /\ pc = "copy" /\ pc' = pc /\ bins' = bins /\ entered' = entered
      /\ walk' = walk + 1 /\ offset' = offset /\ acc' = acc
      /\ libc_tpoff' = libc_tpoff /\ size' = size /\ tls_offset' = tls_offset
      /\ mem' = mem /\ start' = start /\ ~bins[walk].tls
  BY DEF SkipBlock
<1>3. tls_offset' = TlsSpace + acc'[walk']
  <2>1. bins[walk].memsz = 0
    BY <1>1, <1>2, ImageType
  <2>2. QED
    BY <1>1, <1>2, <2>1
<1>4. TypeOK'
  BY <1>1, <1>2 DEF TlsInv, TypeOK
<1>5. AccInv' /\ WalkInv' /\ TpoffMatchesLayout'
  BY <1>2 DEF TlsInv, AccInv, WalkInv, TpoffMatchesLayout, Tpoff, FS
<1>6. ExecInv'
  BY <1>1, <1>2, <1>3 DEF TlsInv, ExecInv
<1>7. QED
  BY <1>4, <1>5, <1>6 DEF TlsInv

\* Every step preserves the invariant, and no step moves a known offset.
LEMMA InvStep ==
  ASSUME TlsInv, [Next]_vars
  PROVE  TlsInv' /\ \A k \in DOMAIN acc : k \in DOMAIN acc' /\ acc'[k] = acc[k]
<1>1. CASE Walk
  BY <1>1, WalkStep
<1>2. CASE RelocateDone
  <2>1. /\ pc = "relocate" /\ pc' \in {"ctor", "running"}
        /\ (pc' = "running" <=> entered) /\ libc_tpoff' \in Int
        /\ bins' = bins /\ entered' = entered /\ walk' = walk /\ offset' = offset
        /\ acc' = acc /\ size' = size /\ tls_offset' = tls_offset
        /\ start' = start /\ mem' = mem
    BY <1>2, TlsAssumption DEF RelocateDone, LibcTpoff
  <2>2. TypeOK' /\ AccInv'
    BY <2>1 DEF TlsInv, TypeOK, AccInv
  <2>3. WalkInv'
    <3>1. walk = Len(bins) + 1 /\ walk \in DOMAIN acc
      BY <1>2, <2>1 DEF RelocateDone, TlsInv, TypeOK, WalkInv
    <3>2. QED
      BY <2>1, <3>1 DEF WalkInv
  <2>4. ExecInv' /\ TpoffMatchesLayout'
    BY <2>1 DEF TlsInv, ExecInv, TpoffMatchesLayout, Tpoff, FS
  <2>5. QED
    BY <2>1, <2>2, <2>3, <2>4 DEF TlsInv
<1>3. CASE Dlopen
  BY <1>3, DlopenStep DEF Dlopen
<1>4. CASE CtorsDone
  <2>1. /\ pc = "ctor" /\ pc' = "size" /\ walk' = 1
        /\ bins' = bins /\ entered' = entered /\ offset' = offset
        /\ acc' = acc /\ size' = size /\ tls_offset' = tls_offset
        /\ libc_tpoff' = libc_tpoff /\ start' = start /\ mem' = mem
    BY <1>4 DEF CtorsDone
  <2>2. Len(bins) \in Nat
    BY DEF TlsInv, TypeOK
  <2>3. TypeOK'
    <3>1. 1 \in 1..Len(bins) + 1
      BY <2>2
    <3>2. QED
      BY <2>1, <3>1 DEF TlsInv, TypeOK
  <2>4. AccInv' /\ WalkInv' /\ TpoffMatchesLayout'
    BY <2>1 DEF TlsInv, AccInv, WalkInv, TpoffMatchesLayout, Tpoff, FS
  <2>5. ExecInv'
    BY <2>1 DEF TlsInv, AccInv, ExecInv
  <2>6. QED
    BY <2>1, <2>3, <2>4, <2>5 DEF TlsInv
<1>5. CASE AddSize
  BY <1>5, AddSizeStep DEF AddSize
<1>6. CASE CheckSize
  BY <1>6, CheckSizeStep DEF CheckSize
<1>7. CASE SkipBlock
  BY <1>7, SkipBlockStep DEF SkipBlock
<1>8. CASE CopyBlock
  BY <1>8, CopyBlockStep DEF CopyBlock
<1>9. CASE Enter
  BY <1>9 DEF Enter, TlsInv, TypeOK, AccInv, WalkInv, ExecInv,
              TpoffMatchesLayout, Tpoff, FS
<1>10. CASE UNCHANGED vars
  BY <1>10 DEF vars, TlsInv, TypeOK, AccInv, WalkInv, ExecInv,
               TpoffMatchesLayout, Tpoff, FS, AfterBlock
<1>11. QED
  BY <1>1, <1>2, <1>3, <1>4, <1>5, <1>6, <1>7, <1>8, <1>9, <1>10 DEF Next

\* TLSSymOffset and the loops of Execute keep TlsInv, whatever is opened and
\* whenever, for every size of the array.
THEOREM LayoutInvariant == Spec => []TlsInv
<1>1. Init => TlsInv
  BY InvInit
<1>2. TlsInv /\ [Next]_vars => TlsInv'
  BY InvStep
<1>3. QED
  BY <1>1, <1>2, PTL DEF Spec

\* Execute puts every block where the TPOFF64 relocations expect it.
THEOREM BlocksAreWhereRelocated == Spec => []TpoffMatchesLayout
<1>1. TlsInv => TpoffMatchesLayout
  BY DEF TlsInv
<1>2. QED
  BY <1>1, LayoutInvariant, PTL

\* A later Relocate computes the offsets that an earlier one did.
THEOREM OffsetsAreStable == Spec => TpoffStable
<1> DEFINE Same == \A k \in DOMAIN acc : k \in DOMAIN acc' /\ acc'[k] = acc[k]
<1>1. TlsInv /\ [Next]_vars => [Same]_vars
  BY InvStep
<1>2. Spec => [][Same]_vars
  BY <1>1, LayoutInvariant, PTL DEF Spec
<1>3. QED
  BY <1>2 DEF TpoffStable

\* A lower binary's block ends where, or before, a higher one's starts.
LEMMA BlocksDescend ==
  ASSUME TlsInv, NEW i \in Placed, NEW j \in Placed, i < j
  PROVE  Block(i) \cap Block(j) = {}
<1>1. /\ Len(bins) \in Nat /\ bins \in Seq(Images) /\ DOMAIN bins = 1..Len(bins)
      /\ i \in 1..Len(bins) /\ j \in 1..Len(bins)
      /\ i \in DOMAIN acc /\ j \in DOMAIN acc
      /\ bins[i] \in Images /\ bins[j] \in Images
  BY DEF TlsInv, TypeOK, Placed
<1>2. bins[i].memsz \in Nat /\ bins[j].memsz \in Nat
  BY <1>1, ImageType
<1>3. i + 1 \in DOMAIN acc
  <2>1. 1..j \subseteq DOMAIN acc
    BY <1>1 DEF TlsInv, AccInv
  <2>2. i + 1 \in 1..j
    BY <1>1
  <2>3. QED
    BY <2>1, <2>2
<1>4. acc[i] \in Int /\ acc[j] \in Int /\ acc[i + 1] \in Int
  BY <1>1, <1>3 DEF TlsInv, TypeOK
<1>5. acc[i + 1] = acc[i] - bins[i].memsz
  <2>1. acc[i + 1] = AfterBlock(acc[i], bins[i])
    BY <1>1, <1>3 DEF TlsInv, AccInv
  <2>2. QED
    BY <2>1, <1>1, <1>4, AfterBlockType
<1>6. acc[j] <= acc[i + 1]
  <2>1. i + 1 <= j
    BY <1>1
  <2>2. QED
    BY <2>1, <1>1, <1>3 DEF TlsInv, AccInv
<1>7. QED
  BY <1>2, <1>4, <1>5, <1>6, TlsAssumption DEF Block, Tpoff, FS

\* The invariant leaves no room for two blocks to meet or for one to stick out.
LEMMA InvDisjoint == TlsInv => BlocksDisjoint
<1> SUFFICES ASSUME TlsInv  PROVE BlocksDisjoint
  OBVIOUS
<1>1. ASSUME NEW i \in Placed, NEW j \in Placed, i # j
      PROVE  Block(i) \cap Block(j) = {}
  <2>1. i \in Int /\ j \in Int
    BY DEF Placed, TlsInv, TypeOK
  <2>2. i < j \/ j < i
    BY <1>1, <2>1
  <2>3. CASE i < j
    BY <2>3, BlocksDescend
  <2>4. CASE j < i
    BY <2>4, BlocksDescend
  <2>5. QED
    BY <2>2, <2>3, <2>4
<1>2. ASSUME NEW i \in DOMAIN start
      PROVE  start[i] >= 0 /\ start[i] + bins[i].memsz <= TlsSpace
  <2>1. /\ start[i] = TlsSpace + (acc[i] - bins[i].memsz) /\ i \in DOMAIN acc
    BY DEF TlsInv, TpoffMatchesLayout, ExecInv, Tpoff, FS
  <2>2. acc[i] \in Int /\ acc[i] <= 0 /\ start[i] \in 0..TlsSpace
    BY <2>1 DEF TlsInv, TypeOK
  <2>3. bins[i].memsz \in Nat
    <3>1. bins[i] \in Images
      BY DEF TlsInv, TypeOK
    <3>2. QED
      BY <3>1, ImageType
  <2>4. QED
    BY <2>1, <2>2, <2>3, TlsAssumption
<1>3. QED
  BY <1>1, <1>2 DEF BlocksDisjoint

\* No two binaries share thread-local storage, and Execute writes no block
\* outside the array.
THEOREM BlocksAreDisjoint == Spec => []BlocksDisjoint
  BY InvDisjoint, LayoutInvariant, PTL

-----------------------------------------------------------------------------
(***************************************************************************)
(*                              TlsThreads                                 *)
(***************************************************************************)

TcbHoldsFs == \A k \in 0..PtrSize - 1 : mem[FS + k] = Ptr(FS, k)

\* The blocks that Execute has put down: a first and a last one, each with
\* sloader_tls_offset at or below it.
StartInv ==
  /\ \A i \in DOMAIN start : bins[i].tls /\ tls_offset <= start[i]
  /\ \A i \in DOMAIN start : IsLast(i) => tls_offset = start[i]
  /\ DOMAIN start = {} => tls_offset = TlsSpace
  /\ DOMAIN start # {} => \E m \in DOMAIN start : \A j \in DOMAIN start : m <= j
  /\ pc = "copy" => DOMAIN start = {i \in 1..Len(bins) : i < walk /\ bins[i].tls}

\* What they hold.  Before the first block is put down, only a constructor of a
\* binary that will have a block can have reached the thread control block.
MemInv ==
  /\ \A i \in DOMAIN start : IsLast(i) => Intact(i)
  /\ DOMAIN start = {} /\ (entered \/ \A i \in DOMAIN bins : ~bins[i].tls) => TcbHoldsFs
  /\ DOMAIN start # {} /\ FirstLarge => TcbHoldsFs

\* Threads are there only after Execute, when the blocks stay where they are.
ArrayInv ==
  /\ \A t \in DOMAIN arrays : arrays[t] \in [Addr -> Byte]
  /\ DOMAIN arrays # {} => entered
  /\ ThreadStoresInside

\* Addresses outside the blocks, as ThreadStoresInside has them.
Outside(a) == a < FS => \A i \in DOMAIN start : a < start[i]

ThreadInv == TlsInv /\ StartInv /\ MemInv /\ ArrayInv

\* The invariant holds at the start.
LEMMA ThreadInvInit == TInit => ThreadInv
<1> SUFFICES ASSUME TInit  PROVE ThreadInv
  OBVIOUS
<1>1. TlsInv
  BY InvInit DEF TInit
<1>2. DOMAIN start = {} /\ DOMAIN arrays = {} /\ pc # "copy" /\ tls_offset = TlsSpace
  BY DEF TInit, Init
<1>3. StartInv
  BY <1>2 DEF StartInv
<1>4. TcbHoldsFs
  <2>1. ASSUME NEW k \in 0..PtrSize - 1  PROVE mem[FS + k] = Ptr(FS, k)
    <3>1. PICK a \in Addr : a = FS + k /\ ~(a < FS) /\ a - FS = k
      BY TlsAssumption DEF FS, Addr
    <3>2. mem[a] = IF a < FS THEN Own ELSE Ptr(FS, a - FS)
      BY DEF TInit, Init
    <3>3. mem[a] = Ptr(FS, a - FS)
      BY <3>1, <3>2
    <3>4. QED
      BY <3>1, <3>3, Zenon
  <2>2. QED
    BY <2>1 DEF TcbHoldsFs
<1>5. MemInv
  BY <1>2, <1>4 DEF MemInv
<1>6. ArrayInv
  BY <1>2 DEF ArrayInv, ThreadStoresInside
<1>7. QED
  BY <1>1, <1>3, <1>5, <1>6 DEF ThreadInv

\* Facts about a block that is down, for the steps below.
LEMMA BlockFacts ==
  ASSUME TlsInv, NEW i \in DOMAIN start
  PROVE  /\ i \in 1..Len(bins) /\ i \in Nat /\ Len(bins) \in Nat /\ i \in DOMAIN bins
         /\ bins[i] \in Images
         /\ bins[i].memsz \in Nat /\ bins[i].filesz \in Nat /\ bins[i].filesz <= bins[i].memsz
         /\ start[i] \in Nat /\ start[i] + bins[i].memsz <= TlsSpace
         /\ FS + Tpoff(i) = start[i]
<1>1. /\ i \in 1..Len(bins) /\ i \in Nat /\ Len(bins) \in Nat /\ bins[i] \in Images
      /\ i \in DOMAIN bins /\ start[i] \in 0..TlsSpace
  BY DEF TlsInv, TypeOK
<1>2. start[i] + bins[i].memsz <= TlsSpace
  BY InvDisjoint DEF BlocksDisjoint
<1>3. FS + Tpoff(i) = start[i]
  BY DEF TlsInv, TpoffMatchesLayout
<1>4. bins[i].memsz \in Nat /\ bins[i].filesz \in Nat /\ bins[i].filesz <= bins[i].memsz
  BY <1>1, ImageType
<1>5. QED
  BY <1>1, <1>2, <1>3, <1>4, TlsAssumption

\* A step that puts no block down and stores nothing keeps what the blocks hold.
LEMMA Untouched ==
  ASSUME TlsInv, StartInv, MemInv,
         mem' = mem, start' = start, tls_offset' = tls_offset,
         Len(bins) <= Len(bins'), DOMAIN bins \subseteq DOMAIN bins',
         \A i \in DOMAIN bins : bins'[i] = bins[i],
         entered' => entered \/ \A i \in DOMAIN bins : i \in DOMAIN start \/ ~bins[i].tls,
         pc' = "copy" => DOMAIN start = {i \in 1..Len(bins') : i < walk' /\ bins'[i].tls}
  PROVE  StartInv' /\ MemInv'
<1>1. \A i \in DOMAIN start : i \in DOMAIN bins /\ bins'[i] = bins[i]
  BY BlockFacts
<1>2. StartInv'
  <2>1. \A i \in DOMAIN start' : bins'[i].tls /\ tls_offset' <= start'[i]
    BY <1>1 DEF StartInv
  <2>2. \A i \in DOMAIN start' : IsLast(i)' => tls_offset' = start'[i]
    BY DEF StartInv, IsLast
  <2>3. QED
    BY <2>1, <2>2 DEF StartInv
<1>3. TcbHoldsFs' <=> TcbHoldsFs
  BY DEF TcbHoldsFs, FS
<1>4. FirstLarge' <=> FirstLarge
  BY <1>1 DEF FirstLarge
<1>5. \A i \in DOMAIN start' : IsLast(i)' => Intact(i)'
  BY <1>1 DEF MemInv, IsLast, Intact
<1>6. ASSUME DOMAIN start = {}, entered' \/ \A i \in DOMAIN bins' : ~bins'[i].tls
      PROVE  TcbHoldsFs
  BY <1>6 DEF MemInv
<1>7. QED
  BY <1>2, <1>3, <1>4, <1>5, <1>6 DEF MemInv

\* Execute puts a block down: it is the last one now, and if the first one is
\* large enough the pointer that is stored above it stays below %fs.
LEMMA CopyKeeps ==
  ASSUME TlsInv, StartInv, MemInv, CopyBlock
  PROVE  StartInv' /\ MemInv'
<1> DEFINE b == bins[walk]
           e == tls_offset
           st == tls_offset - bins[walk].memsz
<1>1. /\ Len(bins) \in Nat /\ walk \in 1..Len(bins) /\ b \in Images /\ walk \in Nat
      /\ walk \in DOMAIN bins
  BY CopyLoop DEF CopyBlock, TlsInv, TypeOK
<1>2. /\ b.memsz \in Nat /\ b.filesz \in Nat /\ b.filesz <= b.memsz
      /\ e \in 0..TlsSpace /\ st \in Int
  <2>1. b.memsz \in Nat /\ b.filesz \in Nat /\ b.filesz <= b.memsz
    BY <1>1, ImageType
  <2>2. e \in 0..TlsSpace
    BY DEF TlsInv, TypeOK
  <2>3. QED
    BY <2>1, <2>2, TlsAssumption
<1>3. /\ pc = "copy" /\ pc' = pc /\ bins' = bins /\ entered' = entered
      /\ walk' = walk + 1 /\ tls_offset' = st /\ b.tls
      /\ mem' = AfterCopy(walk, b, e)
      /\ DOMAIN start' = DOMAIN start \cup {walk} /\ start'[walk] = st
      /\ \A i \in DOMAIN start : i # walk => start'[i] = start[i]
  BY DEF CopyBlock, BlockStart
<1>mem. \A a \in Addr :
         mem'[a] = IF a \in e..e + PtrSize - 1 THEN Ptr(e, a - e)
                   ELSE IF a \in e - b.memsz + b.filesz..e - 1 THEN Zero
                   ELSE IF a \in e - b.memsz..e - 1 THEN Data(walk, a - (e - b.memsz))
                   ELSE mem[a]
  BY <1>3 DEF AfterCopy
<1>4. st >= 0
  <2>1. TlsInv'
    BY CopyBlockStep
  <2>2. start'[walk] \in 0..TlsSpace
    BY <2>1, <1>3 DEF TlsInv, TypeOK
  <2>3. QED
    BY <2>2, <1>3, TlsAssumption
<1>5. \A i \in DOMAIN start : i \in Nat /\ i < walk /\ st <= start[i] /\ e <= start[i]
  <2>1. ASSUME NEW i \in DOMAIN start
        PROVE  i \in Nat /\ i < walk /\ st <= start[i] /\ e <= start[i]
    <3>1. i < walk /\ e <= start[i]
      BY <1>3 DEF StartInv
    <3>2. i \in Nat /\ start[i] \in Nat
      BY BlockFacts
    <3>3. QED
      BY <3>1, <3>2, <1>2
  <2>2. QED
    BY <2>1
<1>6. ASSUME NEW i \in DOMAIN start', IsLast(i)'  PROVE i = walk
  BY <1>6, <1>1, <1>3, <1>5 DEF IsLast
<1>7. StartInv'
  <2>1. \A i \in DOMAIN start' : bins'[i].tls /\ tls_offset' <= start'[i]
    BY <1>2, <1>3, <1>5 DEF StartInv
  <2>2. \A i \in DOMAIN start' : IsLast(i)' => tls_offset' = start'[i]
    BY <1>3, <1>6
  <2>3. \E m \in DOMAIN start' : \A j \in DOMAIN start' : m <= j
    <3>1. CASE DOMAIN start = {}
      BY <3>1, <1>1, <1>3
    <3>2. CASE DOMAIN start # {}
      <4>1. PICK m \in DOMAIN start : \A j \in DOMAIN start : m <= j
        BY <3>2 DEF StartInv
      <4>2. \A j \in DOMAIN start' : m <= j
        BY <4>1, <1>1, <1>3, <1>5
      <4>3. QED
        BY <4>1, <4>2, <1>3
    <3>3. QED
      BY <3>1, <3>2
  <2>4. DOMAIN start' = {i \in 1..Len(bins') : i < walk' /\ bins'[i].tls}
    <3>1. DOMAIN start = {i \in 1..Len(bins) : i < walk /\ bins[i].tls}
      BY <1>3 DEF StartInv
    <3>2. \A i \in 1..Len(bins) : i < walk + 1 <=> i < walk \/ i = walk
      BY <1>1
    <3>3. QED
      BY <1>1, <1>3, <3>1, <3>2
  <2>5. QED
    BY <2>1, <2>2, <2>3, <2>4, <1>3 DEF StartInv
<1>8. ASSUME NEW i \in DOMAIN start', IsLast(i)'  PROVE Intact(i)'
  <2>1. i = walk
    BY <1>6, <1>8
  <2>2. ASSUME NEW k \in 0..b.memsz - 1
        PROVE  mem'[st + k] = IF k < b.filesz THEN Data(walk, k) ELSE Zero
    <3>0. /\ st + k \in Addr /\ st + k < e /\ k \in Nat /\ b.memsz \in Nat /\ b.filesz \in Nat
          /\ e \in Nat /\ st = e - b.memsz
      BY <1>2, <1>4, TlsAssumption DEF Addr
    <3> HIDE DEF b, e, st
    <3>1. PICK a \in Addr :
            /\ a = st + k /\ ~(a \in e..e + PtrSize - 1)
            /\ (a \in e - b.memsz + b.filesz..e - 1 <=> ~(k < b.filesz))
            /\ a \in e - b.memsz..e - 1 /\ a - (e - b.memsz) = k
      <4>1. PICK a \in Addr : a = st + k
        BY <3>0
      <4>2. a \in Int /\ a < e /\ a = e - b.memsz + k
        BY <4>1, <3>0
      <4>3. /\ ~(a \in e..e + PtrSize - 1)
            /\ (a \in e - b.memsz + b.filesz..e - 1 <=> ~(k < b.filesz))
            /\ a \in e - b.memsz..e - 1 /\ a - (e - b.memsz) = k
        BY <4>2, <3>0
      <4>4. QED
        BY <4>1, <4>3
    <3>2. mem'[a] = IF k < b.filesz THEN Data(walk, a - (e - b.memsz)) ELSE Zero
      BY <3>1, <1>mem
    <3>3. QED
      BY <3>1, <3>2, Zenon
  <2>3. QED
    BY <2>1, <2>2, <1>3 DEF Intact
<1>9. ASSUME FirstLarge'  PROVE TcbHoldsFs'
  <2>1. CASE DOMAIN start = {}
    <3>1. e = TlsSpace
      BY <2>1 DEF StartInv
    <3>2. ASSUME NEW k \in 0..PtrSize - 1  PROVE mem'[FS + k] = Ptr(FS, k)
      <4>1. PICK a \in Addr : a = FS + k /\ a \in e..e + PtrSize - 1 /\ a - e = k /\ e = FS
        BY <3>1, TlsAssumption DEF Addr, FS
      <4> HIDE DEF b, e, st
      <4>2. mem'[a] = Ptr(e, a - e)
        BY <4>1, <1>mem
      <4>3. QED
        BY <4>1, <4>2, Zenon
    <3>3. QED
      BY <3>2 DEF TcbHoldsFs, FS, Ptr
  <2>2. CASE DOMAIN start # {}
    <3>1. PICK m \in DOMAIN start : \A j \in DOMAIN start : m <= j
      BY <2>2 DEF StartInv
    <3>2. m \in DOMAIN start' /\ \A j \in DOMAIN start' : m <= j
      BY <3>1, <1>1, <1>3, <1>5
    <3>3. bins[m].memsz >= PtrSize
      BY <1>9, <3>2, <1>3 DEF FirstLarge
    <3>4. \A i \in DOMAIN start : (\A j \in DOMAIN start : i <= j) => i = m
      BY <3>1, <1>5
    <3>5. FirstLarge
      BY <3>3, <3>4 DEF FirstLarge
    <3>6. TcbHoldsFs
      BY <2>2, <3>5 DEF MemInv
    <3>7. e + PtrSize <= TlsSpace
      <4>1. /\ start[m] \in Nat /\ start[m] + bins[m].memsz <= TlsSpace
            /\ bins[m].memsz \in Nat
        BY BlockFacts
      <4>2. QED
        BY <3>3, <4>1, <1>2, <1>5, TlsAssumption
    <3>8. ASSUME NEW k \in 0..PtrSize - 1  PROVE mem'[FS + k] = Ptr(FS, k)
      <4>1. /\ FS + k \in Addr /\ ~(FS + k \in e..e + PtrSize - 1)
            /\ ~(FS + k \in e - b.memsz + b.filesz..e - 1)
            /\ ~(FS + k \in e - b.memsz..e - 1)
        BY <3>7, <1>2, TlsAssumption DEF Addr, FS
      <4> HIDE DEF b, e, st
      <4>2. mem'[FS + k] = mem[FS + k]
        BY <4>1, <1>3 DEF AfterCopy
      <4>3. QED
        BY <4>2, <3>6 DEF TcbHoldsFs
    <3>9. QED
      BY <3>8 DEF TcbHoldsFs, FS, Ptr
  <2>3. QED
    BY <2>1, <2>2
<1>10. DOMAIN start' # {}
  BY <1>3
<1>11. QED
  BY <1>7, <1>8, <1>9, <1>10 DEF MemInv

\* A step of TlsLayout keeps the invariants of the blocks.
LEMMA LayoutKeeps ==
  ASSUME ThreadInv, Next
  PROVE  StartInv' /\ MemInv'
<1>1. TlsInv /\ StartInv /\ MemInv
  BY DEF ThreadInv
<1>2. /\ bins \in Seq(Images) /\ Len(bins) \in Nat /\ DOMAIN bins = 1..Len(bins)
      /\ walk \in 1..Len(bins) + 1
  BY <1>1 DEF TlsInv, TypeOK
<1>3. CASE CopyBlock
  BY <1>1, <1>3, CopyKeeps
<1>4. CASE Dlopen
  <2>1. PICK b \in Images : bins' = Append(bins, b)
    BY <1>4 DEF Dlopen
  <2>2. /\ Len(bins') = Len(bins) + 1 /\ DOMAIN bins' = 1..Len(bins) + 1
        /\ \A i \in 1..Len(bins) : bins'[i] = bins[i]
    BY <2>1, <1>2
  <2>3. /\ mem' = mem /\ start' = start /\ tls_offset' = tls_offset
        /\ entered' = entered /\ pc' # "copy"
    BY <1>4 DEF Dlopen
  <2>4. /\ Len(bins) <= Len(bins') /\ DOMAIN bins \subseteq DOMAIN bins'
        /\ \A i \in DOMAIN bins : bins'[i] = bins[i]
    BY <2>2, <1>2
  <2>5. QED
    BY <1>1, <2>3, <2>4, Untouched
<1>5. CASE CheckSize
  <2>1. /\ bins' = bins /\ mem' = mem /\ start' = start /\ tls_offset' = tls_offset
        /\ entered' = entered /\ walk' = 1 /\ pc = "size"
    BY <1>5 DEF CheckSize
  <2>2. DOMAIN start = {}
    BY <1>1, <2>1 DEF TlsInv, ExecInv
  <2>3. DOMAIN start = {i \in 1..Len(bins) : i < 1 /\ bins[i].tls}
    BY <2>2, <1>2
  <2>4. QED
    BY <1>1, <1>2, <2>1, <2>3, Untouched
<1>6. CASE SkipBlock
  <2>1. /\ bins' = bins /\ mem' = mem /\ start' = start /\ tls_offset' = tls_offset
        /\ entered' = entered /\ walk' = walk + 1 /\ pc = "copy" /\ ~bins[walk].tls
        /\ walk <= Len(bins)
    BY <1>6 DEF SkipBlock
  <2>2. DOMAIN start = {i \in 1..Len(bins) : i < walk /\ bins[i].tls}
    BY <1>1, <2>1 DEF StartInv
  <2>3. \A i \in 1..Len(bins) : i < walk + 1 <=> i < walk \/ i = walk
    BY <1>2
  <2>4. DOMAIN start = {i \in 1..Len(bins) : i < walk + 1 /\ bins[i].tls}
    BY <2>1, <2>2, <2>3
  <2>5. QED
    BY <1>1, <1>2, <2>1, <2>4, Untouched
<1>7. CASE Enter
  <2>1. /\ bins' = bins /\ mem' = mem /\ start' = start /\ tls_offset' = tls_offset
        /\ pc = "copy" /\ pc' = "running" /\ walk > Len(bins)
    BY <1>7 DEF Enter
  <2>2. DOMAIN start = {i \in 1..Len(bins) : i < walk /\ bins[i].tls}
    BY <1>1, <2>1 DEF StartInv
  <2>3. \A i \in DOMAIN bins : i \in DOMAIN start \/ ~bins[i].tls
    BY <1>2, <2>1, <2>2
  <2>4. QED
    BY <1>1, <1>2, <2>1, <2>3, Untouched
<1>8. CASE Walk \/ RelocateDone \/ CtorsDone \/ AddSize
  <2>1. /\ bins' = bins /\ mem' = mem /\ start' = start /\ tls_offset' = tls_offset
        /\ entered' = entered /\ pc' # "copy"
    BY <1>8 DEF Walk, RelocateDone, CtorsDone, AddSize
  <2>2. QED
    BY <1>1, <1>2, <2>1, Untouched
<1>9. QED
  BY <1>3, <1>4, <1>5, <1>6, <1>7, <1>8 DEF Next

\* A constructor stores before any block is down, and only a binary that has
\* one gets to store at all.
LEMMA CtorKeeps ==
  ASSUME ThreadInv, NEW i \in 1..Len(bins), CtorStores(i)
  PROVE  TlsInv' /\ StartInv' /\ MemInv'
<1>1. TlsInv /\ StartInv /\ MemInv
  BY DEF ThreadInv
<1>2. /\ pc = "ctor" /\ bins[i].tls /\ bins' = bins /\ pc' = pc /\ entered' = entered
      /\ walk' = walk /\ offset' = offset /\ acc' = acc /\ libc_tpoff' = libc_tpoff
      /\ size' = size /\ tls_offset' = tls_offset /\ start' = start
  BY DEF CtorStores
<1>3. PICK a \in Addr : mem' = [mem EXCEPT ![a] = Mark]
  BY DEF CtorStores, Reached
<1>4. mem' \in [Addr -> Byte]
  BY <1>1, <1>3 DEF TlsInv, TypeOK, Mark, Byte
<1>5. TypeOK'
  BY <1>1, <1>2, <1>4 DEF TlsInv, TypeOK
<1>6. AccInv' /\ WalkInv' /\ ExecInv' /\ TpoffMatchesLayout'
  BY <1>1, <1>2 DEF TlsInv, AccInv, AfterBlock, WalkInv, ExecInv, TpoffMatchesLayout, Tpoff, FS
<1>7. DOMAIN start = {} /\ ~entered
  BY <1>1, <1>2 DEF TlsInv, ExecInv
<1>8. i \in DOMAIN bins
  BY <1>1 DEF TlsInv, TypeOK
<1>9. StartInv'
  BY <1>1, <1>2, <1>7 DEF StartInv
<1>10. MemInv'
  BY <1>2, <1>7, <1>8 DEF MemInv
<1>11. QED
  BY <1>5, <1>6, <1>9, <1>10 DEF TlsInv

\* The array of a thread that is started.
LEMMA StartThreadKeeps ==
  ASSUME ArrayInv, NEW t, StartThread(t)
  PROVE  ArrayInv'
<1>1. /\ DOMAIN arrays' = DOMAIN arrays \cup {t} /\ t \notin DOMAIN arrays
      /\ arrays'[t] = NewArray /\ \A u \in DOMAIN arrays : arrays'[u] = arrays[u]
      /\ start' = start /\ entered /\ entered' = entered
  BY DEF StartThread, vars
<1>2. NewArray \in [Addr -> Byte]
  BY TlsAssumption DEF NewArray, Addr, Byte, Zero, Ptr, FS
<1>3. NewArray' = NewArray
  BY DEF NewArray, Zero, Ptr, FS
<1>4. ASSUME NEW u \in DOMAIN arrays'
      PROVE  /\ arrays'[u] \in [Addr -> Byte]
             /\ \A a \in Addr : Outside(a) => arrays'[u][a] = NewArray[a]
  <2>1. CASE u = t
    BY <2>1, <1>1, <1>2
  <2>2. CASE u \in DOMAIN arrays
    BY <2>2, <1>1 DEF ArrayInv, ThreadStoresInside, Outside
  <2>3. QED
    BY <2>1, <2>2, <1>1
<1>5. QED
  BY <1>1, <1>3, <1>4 DEF ArrayInv, ThreadStoresInside, Outside, FS

\* Among the blocks there is a last one.
LEMMA LastBlock ==
  ASSUME TlsInv, DOMAIN start # {}
  PROVE  \E j \in DOMAIN start : IsLast(j)
<1> DEFINE D == {n \in Nat : Len(bins) - n \in DOMAIN start}
<1>1. /\ Len(bins) \in Nat /\ \A j \in DOMAIN start : j \in 1..Len(bins)
  BY DEF TlsInv, TypeOK
<1>2. \A j \in DOMAIN start : Len(bins) - j \in D
  BY <1>1
<1>3. D \in SUBSET Nat /\ D # {}
  BY <1>2
<1>4. PICK n \in D : \A m \in D : n <= m
  <2> HIDE DEF D
  <2>1. QED
    BY <1>3, LeastExists
<1>5. ASSUME NEW j \in DOMAIN start PROVE j <= Len(bins) - n
  <2>1. n <= Len(bins) - j
    BY <1>2, <1>4
  <2>2. QED
    BY <2>1, <1>1, <1>4
<1>6. QED
  BY <1>4, <1>5 DEF IsLast

\* Both ways to a variable lead into the blocks.
LEMMA ReachedInside ==
  ASSUME TlsInv, StartInv, NEW i \in DOMAIN start, NEW k \in 0..bins[i].memsz - 1,
         NEW a \in Reached(i, k)
  PROVE  a \in Addr /\ ~Outside(a)
<1>1. /\ bins[i].memsz \in Nat /\ start[i] \in Nat /\ start[i] + bins[i].memsz <= TlsSpace
      /\ FS + Tpoff(i) = start[i]
  BY BlockFacts
<1>2. tls_offset <= start[i] /\ tls_offset \in 0..TlsSpace
  BY DEF StartInv, TlsInv, TypeOK
<1>3. a \in Addr /\ (a = start[i] + k \/ a = tls_offset + k \/ a = tls_offset + 0)
  BY <1>1 DEF Reached, TlsGetAddr, TiOffset
<1>4. a < FS /\ a \in Int /\ tls_offset <= a
  BY <1>1, <1>2, <1>3, TlsAssumption DEF FS
<1>5. PICK j \in DOMAIN start : IsLast(j)
  BY LastBlock
<1>6. tls_offset = start[j]
  BY <1>5 DEF StartInv
<1>7. ~(a < start[j])
  BY <1>2, <1>4, <1>6
<1>8. QED
  BY <1>3, <1>4, <1>5, <1>7 DEF Outside

\* The array of a thread that stores.
LEMMA ThreadStoresKeeps ==
  ASSUME TlsInv, StartInv, ArrayInv, NEW t, NEW i, ThreadStores(t, i)
  PROVE  ArrayInv'
<1>1. /\ i \in DOMAIN start /\ t \in DOMAIN arrays
      /\ start' = start /\ entered' = entered
  BY DEF ThreadStores, vars
<1>2. PICK k \in 0..bins[i].memsz - 1 :
        \E a \in Reached(i, k) : arrays' = [arrays EXCEPT ![t][a] = Mark]
  BY DEF ThreadStores
<1>3. PICK a \in Reached(i, k) : arrays' = [arrays EXCEPT ![t][a] = Mark]
  BY <1>2
<1>4. a \in Addr /\ ~Outside(a)
  BY <1>1, <1>2, <1>3, ReachedInside
<1>5. /\ DOMAIN arrays' = DOMAIN arrays
      /\ arrays'[t] = [arrays[t] EXCEPT ![a] = Mark]
      /\ \A u \in DOMAIN arrays : u # t => arrays'[u] = arrays[u]
  BY <1>1, <1>3
<1>6. arrays[t] \in [Addr -> Byte] /\ Mark \in Byte
  BY <1>1 DEF ArrayInv, Mark, Byte
<1>7. ASSUME NEW u \in DOMAIN arrays'
      PROVE  /\ arrays'[u] \in [Addr -> Byte]
             /\ \A c \in Addr : Outside(c) => arrays'[u][c] = NewArray[c]
  <2>1. CASE u = t
    <3>1. arrays'[t] \in [Addr -> Byte]
      BY <1>4, <1>5, <1>6
    <3>2. \A c \in Addr : arrays'[t][c] = IF c = a THEN Mark ELSE arrays[t][c]
      BY <1>5, <1>6
    <3>3. \A c \in Addr : Outside(c) => arrays[t][c] = NewArray[c]
      BY <1>1 DEF ArrayInv, ThreadStoresInside, Outside
    <3>4. QED
      BY <2>1, <3>1, <3>2, <3>3, <1>4
  <2>2. CASE u # t
    BY <2>2, <1>5 DEF ArrayInv, ThreadStoresInside, Outside
  <2>3. QED
    BY <2>1, <2>2
<1>8. NewArray' = NewArray
  BY DEF NewArray, Zero, Ptr, FS
<1>9. QED
  BY <1>1, <1>5, <1>7, <1>8 DEF ArrayInv, ThreadStoresInside, Outside, FS

\* A step that leaves the arrays alone, and the blocks once there are threads.
LEMMA ArraysStay ==
  ASSUME ArrayInv, arrays' = arrays, entered => entered' /\ start' = start
  PROVE  ArrayInv'
<1>1. NewArray' = NewArray
  BY DEF NewArray, Zero, Ptr, FS
<1>2. CASE DOMAIN arrays = {}
  BY <1>2 DEF ArrayInv, ThreadStoresInside
<1>3. CASE DOMAIN arrays # {}
  BY <1>1, <1>3 DEF ArrayInv, ThreadStoresInside, FS
<1>4. QED
  BY <1>2, <1>3

\* Every step preserves the invariant.
LEMMA ThreadInvStep == ThreadInv /\ [TNext]_tvars => ThreadInv'
<1> SUFFICES ASSUME ThreadInv, [TNext]_tvars  PROVE ThreadInv'
  OBVIOUS
<1>1. TlsInv /\ StartInv /\ MemInv /\ ArrayInv
  BY DEF ThreadInv
<1>2. CASE Layout
  <2>1. TlsInv' /\ StartInv' /\ MemInv'
    BY <1>1, <1>2, InvStep, LayoutKeeps DEF Layout
  <2>2. ArrayInv'
    <3>1. entered => entered' /\ start' = start
      BY <1>1, <1>2 DEF Layout, Next, Walk, RelocateDone, Dlopen, CtorsDone, AddSize, CheckSize,
                        SkipBlock, CopyBlock, Enter, TlsInv, ExecInv
    <3>2. QED
      BY <1>1, <1>2, <3>1, ArraysStay DEF Layout
  <2>3. QED
    BY <2>1, <2>2 DEF ThreadInv
<1>3. ASSUME NEW i \in 1..Len(bins), CtorStores(i)  PROVE ThreadInv'
  <2>1. TlsInv' /\ StartInv' /\ MemInv'
    BY <1>3, CtorKeeps
  <2>2. ArrayInv'
    BY <1>1, <1>3, ArraysStay DEF CtorStores
  <2>3. QED
    BY <2>1, <2>2 DEF ThreadInv
<1>4. ASSUME UNCHANGED vars  PROVE TlsInv' /\ StartInv' /\ MemInv'
  <2>1. TlsInv'
    BY <1>1, <1>4, InvStep
  <2>2. /\ bins' = bins /\ mem' = mem /\ start' = start /\ tls_offset' = tls_offset
        /\ entered' = entered /\ pc' = pc /\ walk' = walk
    BY <1>4 DEF vars
  <2>3. pc' = "copy" => DOMAIN start = {i \in 1..Len(bins') : i < walk' /\ bins'[i].tls}
    BY <1>1, <2>2 DEF StartInv
  <2>4. Len(bins) <= Len(bins')
    BY <1>1, <2>2 DEF TlsInv, TypeOK
  <2>5. QED
    BY <1>1, <2>1, <2>2, <2>3, <2>4, Untouched
<1>5. ASSUME NEW t, StartThread(t)  PROVE ThreadInv'
  BY <1>1, <1>4, <1>5, StartThreadKeeps DEF StartThread, ThreadInv
<1>6. ASSUME NEW t, NEW i, ThreadStores(t, i)  PROVE ThreadInv'
  BY <1>1, <1>4, <1>6, ThreadStoresKeeps DEF ThreadStores, ThreadInv
<1>7. CASE UNCHANGED tvars
  <2>1. UNCHANGED vars /\ arrays' = arrays
    BY <1>7 DEF tvars
  <2>2. ArrayInv'
    BY <1>1, <2>1, ArraysStay DEF vars
  <2>3. QED
    BY <1>4, <2>1, <2>2 DEF ThreadInv
<1>8. QED
  BY <1>2, <1>3, <1>5, <1>6, <1>7 DEF TNext

\* Neither constructors nor threads break the invariant of the layout, and the
\* blocks, the thread control block and the arrays of the threads keep theirs.
THEOREM StoresKeepInvariant == TSpec => []ThreadInv
  BY ThreadInvInit, ThreadInvStep, PTL DEF TSpec

\* What constructors and threads store never moves a block away from where the
\* relocations expect it, and no two blocks meet.
THEOREM StoresKeepLayout == TSpec => [](TpoffMatchesLayout /\ BlocksDisjoint)
<1>1. ThreadInv => TpoffMatchesLayout /\ BlocksDisjoint
  BY InvDisjoint DEF ThreadInv, TlsInv
<1>2. QED
  BY <1>1, StoresKeepInvariant, PTL

\* With one block, __tls_get_addr and the relocations agree about every byte of it,
\* given that ti_offset is in the file and not left to R_X86_64_DTPOFF64.
THEOREM GetAddrFindsSingleBlock == TSpec => []GetAddrSingleModule
<1>1. ThreadInv => GetAddrSingleModule
  <2> SUFFICES ASSUME ThreadInv, NEW i \in DOMAIN start, Placed = {i},
                      NEW o \in 0..bins[i].memsz - 1
               PROVE  TlsGetAddr(o) = FS + Tpoff(i) + o
    BY DEF GetAddrSingleModule
  <2>1. \A j \in DOMAIN start : j \in Placed
    <3>1. \A j \in DOMAIN start : j \in DOMAIN bins /\ bins[j].tls
      BY BlockFacts DEF ThreadInv, StartInv
    <3>2. QED
      BY <3>1 DEF Placed, ThreadInv, TlsInv, ExecInv
  <2>2. IsLast(i)
    BY <2>1, BlockFacts DEF IsLast, ThreadInv
  <2>3. tls_offset = start[i] /\ FS + Tpoff(i) = start[i]
    BY <2>2, BlockFacts DEF ThreadInv, StartInv
  <2>4. QED
    BY <2>3 DEF TlsGetAddr
<1>2. QED
  BY <1>1, StoresKeepInvariant, PTL

\* Whatever constructors have stored, the program finds its last block as the
\* file has it and, if the first block is large enough, %fs:0 in order.
THEOREM EntryIsClean == TSpec => []EntryClean
<1>1. ThreadInv => EntryClean
  <2> SUFFICES ASSUME ThreadInv, pc = "running"  PROVE EntryClean
    BY DEF EntryClean
  <2>1. entered
    BY DEF ThreadInv, TlsInv, ExecInv
  <2>2. QED
    BY <2>1 DEF EntryClean, ThreadInv, MemInv, TcbHoldsFs
<1>2. QED
  BY <1>1, StoresKeepInvariant, PTL

\* Threads store nowhere but in the blocks that Execute has put down: not into their
\* thread control blocks and not below the blocks.
THEOREM ThreadsStoreInside == TSpec => []ThreadStoresInside
<1>1. ThreadInv => ThreadStoresInside
  BY DEF ThreadInv, ArrayInv
<1>2. QED
  BY <1>1, StoresKeepInvariant, PTL

=============================================================================
