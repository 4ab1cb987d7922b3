---------------------------- MODULE EntryProofs ----------------------------
(***************************************************************************)
(* Proofs about what the program finds when it is entered: InitialStack,   *)
(* for all arguments, environments and auxiliary vectors, and LibcTable,   *)
(* for all environments and every number of changes of them.               *)
(***************************************************************************)
EXTENDS ProgramEntry, NatRecursion, SequenceTheorems

-----------------------------------------------------------------------------
(***************************************************************************)
(*                              InitialStack                               *)
(***************************************************************************)

StackTypes ==
  /\ args \in Seq(Str) /\ envs \in Seq(Str)
  /\ auxval \in AuxVals
  /\ aux_tvs \in Seq((Nat \ {Zero}) \X (Nat \ {0}))
  /\ pc \in {"aux", "dead", "auxs", "envs", "args", "check", "push", "entered"}
  /\ i \in Nat \ {0}
  /\ stack_index \in Nat

\* The types that the loop over aux_types has looked at.
LookedAt == IF pc \in {"aux", "dead"} THEN 1..i - 1 ELSE DOMAIN AuxTypes

\* aux_tvs has exactly those among them that have a value, each once.
AuxFiltered ==
  /\ pc = "aux" => i <= Len(AuxTypes) + 1
  /\ \A k \in DOMAIN aux_tvs : \E j \in LookedAt \cap DOMAIN AuxTypes :
       aux_tvs[k] = <<AuxTypes[j], auxval[AuxTypes[j]]>>
  /\ \A j \in LookedAt \cap DOMAIN AuxTypes :
       auxval[AuxTypes[j]] # 0 => \E k \in DOMAIN aux_tvs : aux_tvs[k][1] = AuxTypes[j]

\* A word of a pair: the value is at an odd index, the type above it.
AuxWord(w) == aux_tvs[(w - 5) \div 2][1 + (w % 2)]

\* The word that belongs into the array at w: padding, AT_NULL and the zero above
\* it, the pairs with the value below, NULL, the environment from its end, NULL,
\* the arguments from their end, argc.
Target(w) ==
  LET n == Len(args) e == Len(envs) a == Len(aux_tvs) IN
  CASE w <= 6 -> 0
    [] w > 6 /\ w <= 6 + 2 * a -> AuxWord(w)
    [] w = 7 + 2 * a -> 0
    [] w > 7 + 2 * a /\ w <= 7 + 2 * a + e -> envs[8 + 2 * a + e - w]
    [] w = 8 + 2 * a + e -> 0
    [] w > 8 + 2 * a + e /\ w <= 8 + 2 * a + e + n -> args[9 + 2 * a + e + n - w]
    [] w > 8 + 2 * a + e + n -> n

\* The index of the array that belongs to a loop and its index.
IndexRight ==
  LET n == Len(args) e == Len(envs) a == Len(aux_tvs) IN
  /\ pc \in {"aux", "dead"} => stack_index = 0
  /\ pc = "auxs" => i <= a + 1 /\ stack_index = 6 + 2 * (i - 1)
  /\ pc = "envs" => i <= e + 1 /\ stack_index = 7 + 2 * a + (i - 1)
  /\ pc = "args" => i <= n + 1 /\ stack_index = 8 + 2 * a + e + (i - 1)
  /\ pc \in {"check", "push", "entered"} => stack_index = StackNum

\* What is below the index is in place, what is above it is still zero.
Filled ==
  IF pc \in {"aux", "dead"} THEN stack = <<>>
  ELSE stack = [w \in 1..StackNum |-> IF w <= stack_index THEN Target(w) ELSE 0]

\* ExecuteCore has pushed the first words.
Pushed ==
  /\ pc = "push" => i <= StackNum + 1 /\ pushed = [w \in 1..i - 1 |-> stack[w]]
  /\ pc = "entered" => pushed = [w \in 1..StackNum |-> stack[w]]
  /\ pc \notin {"push", "entered"} => pushed = <<>>

StackInv ==
  /\ StackTypes /\ AuxFiltered /\ IndexRight /\ Filled /\ Pushed
  /\ pc = "dead" => auxval[Random] = 0

-----------------------------------------------------------------------------
\* The lengths of the three vectors.
LEMMA Lengths ==
  ASSUME StackTypes
  PROVE  /\ Len(args) \in Nat /\ Len(envs) \in Nat /\ Len(aux_tvs) \in Nat
         /\ StackNum = 9 + 2 * Len(aux_tvs) + Len(envs) + Len(args) /\ StackNum \in Nat
         /\ DOMAIN aux_tvs = 1..Len(aux_tvs)
  BY DEF StackTypes, StackNum

\* Where each word is to be.
LEMMA TargetPads ==
  ASSUME StackTypes
  PROVE  /\ \A w \in 1..6 : Target(w) = 0
         /\ Target(7 + 2 * Len(aux_tvs)) = 0
         /\ Target(8 + 2 * Len(aux_tvs) + Len(envs)) = 0
         /\ Target(9 + 2 * Len(aux_tvs) + Len(envs) + Len(args)) = Len(args)
  BY Lengths DEF Target

LEMMA TargetAux ==
  ASSUME StackTypes, NEW k \in 1..Len(aux_tvs)
  PROVE  Target(5 + 2 * k) = aux_tvs[k][2] /\ Target(6 + 2 * k) = aux_tvs[k][1]
<1>1. /\ (5 + 2 * k - 5) \div 2 = k /\ 1 + ((5 + 2 * k) % 2) = 2
      /\ (6 + 2 * k - 5) \div 2 = k /\ 1 + ((6 + 2 * k) % 2) = 1
  OBVIOUS
<1>2. PICK v \in Int : v = 5 + 2 * k
  OBVIOUS
<1>3. PICK w \in Int : w = 6 + 2 * k
  OBVIOUS
<1>4. v > 6 /\ v <= 6 + 2 * Len(aux_tvs) /\ w > 6 /\ w <= 6 + 2 * Len(aux_tvs)
  BY <1>2, <1>3, Lengths
<1>5. Target(v) = AuxWord(v) /\ Target(w) = AuxWord(w)
  BY <1>4, Lengths DEF Target
<1>6. AuxWord(5 + 2 * k) = aux_tvs[k][2] /\ AuxWord(6 + 2 * k) = aux_tvs[k][1]
  BY <1>1 DEF AuxWord
<1>7. QED
  BY <1>2, <1>3, <1>5, <1>6

LEMMA TargetEnv ==
  ASSUME StackTypes, NEW k \in 1..Len(envs)
  PROVE  Target(7 + 2 * Len(aux_tvs) + k) = envs[Len(envs) + 1 - k]
<1>1. 8 + 2 * Len(aux_tvs) + Len(envs) - (7 + 2 * Len(aux_tvs) + k) = Len(envs) + 1 - k
  BY Lengths
<1>2. QED
  BY <1>1, Lengths, SMTT(30) DEF Target

LEMMA TargetArg ==
  ASSUME StackTypes, NEW k \in 1..Len(args)
  PROVE  Target(8 + 2 * Len(aux_tvs) + Len(envs) + k) = args[Len(args) + 1 - k]
<1>1. 9 + 2 * Len(aux_tvs) + Len(envs) + Len(args) - (8 + 2 * Len(aux_tvs) + Len(envs) + k)
        = Len(args) + 1 - k
  BY Lengths
<1>2. QED
  BY <1>1, Lengths, SMTT(30) DEF Target

-----------------------------------------------------------------------------
\* The vectors stay, so that the array and its words stay too.
LEMMA TargetStays ==
  ASSUME UNCHANGED <<args, envs, aux_tvs>>
  PROVE  StackNum' = StackNum /\ \A w : Target(w)' = Target(w)
  BY DEF StackNum, Target, AuxWord

\* The array is being filled.
Filling == pc \notin {"aux", "dead"}

\* A word written at the index is the one that belongs there.
LEMMA PutFills ==
  ASSUME StackInv, Filling, Filling', UNCHANGED <<args, envs, aux_tvs>>,
         stack_index < StackNum,
         stack' = [stack EXCEPT ![stack_index + 1] = Target(stack_index + 1)],
         stack_index' = stack_index + 1
  PROVE  Filled'
<1>1. stack = [w \in 1..StackNum |-> IF w <= stack_index THEN Target(w) ELSE 0]
  BY DEF StackInv, Filled, Filling
<1>2. StackNum \in Nat /\ stack_index \in Nat
  BY Lengths DEF StackInv, StackTypes
<1>3. stack' = [w \in 1..StackNum |-> IF w <= stack_index + 1 THEN Target(w) ELSE 0]
  <2>1. \A w \in 1..StackNum : w <= stack_index + 1 <=> (w <= stack_index \/ w = stack_index + 1)
    BY <1>2
  <2>2. stack' = [w \in 1..StackNum |-> IF w = stack_index + 1 THEN Target(w) ELSE stack[w]]
    BY <1>1
  <2>3. \A w \in 1..StackNum : stack[w] = IF w <= stack_index THEN Target(w) ELSE 0
    BY <1>1
  <2>4. \A w \in 1..StackNum : (IF w = stack_index + 1 THEN Target(w) ELSE stack[w])
                                 = (IF w <= stack_index + 1 THEN Target(w) ELSE 0)
    BY <2>1, <2>3, Zenon
  <2>5. QED
    BY <2>2, <2>4
<1>4. StackNum' = StackNum /\ \A w : Target(w)' = Target(w)
  BY TargetStays
<1>5. stack' = [w \in 1..StackNum' |-> IF w <= stack_index' THEN Target(w)' ELSE 0]
  BY <1>3, <1>4
<1>6. QED
  BY <1>5 DEF Filled, Filling

\* A word that is skipped is zero already.
LEMMA SkipFills ==
  ASSUME StackInv, Filling, Filling', UNCHANGED <<args, envs, aux_tvs, stack>>,
         stack_index < StackNum, Target(stack_index + 1) = 0,
         stack_index' = stack_index + 1
  PROVE  Filled'
<1>1. stack = [w \in 1..StackNum |-> IF w <= stack_index THEN Target(w) ELSE 0]
  BY DEF StackInv, Filled, Filling
<1>2. StackNum \in Nat /\ stack_index \in Nat
  BY Lengths DEF StackInv, StackTypes
<1>3. stack' = [w \in 1..StackNum |-> IF w <= stack_index + 1 THEN Target(w) ELSE 0]
  <2>1. \A w \in 1..StackNum : w <= stack_index + 1 <=> (w <= stack_index \/ w = stack_index + 1)
    BY <1>2
  <2>2. \A w \in 1..StackNum : (IF w <= stack_index THEN Target(w) ELSE 0)
                                 = (IF w <= stack_index + 1 THEN Target(w) ELSE 0)
    BY <2>1, Zenon
  <2>3. QED
    BY <1>1, <2>2
<1>4. StackNum' = StackNum /\ \A w : Target(w)' = Target(w)
  BY TargetStays
<1>5. stack' = [w \in 1..StackNum' |-> IF w <= stack_index' THEN Target(w)' ELSE 0]
  BY <1>3, <1>4
<1>6. QED
  BY <1>5 DEF Filled, Filling

-----------------------------------------------------------------------------
LEMMA StackInit == Init => StackInv
<1> SUFFICES ASSUME Init PROVE StackInv
  OBVIOUS
<1>1. args \in Seq(Str) /\ envs \in Seq(Str)
  BY StackAssumption, SeqDef DEF Init
<1>2. aux_tvs \in Seq((Nat \ {Zero}) \X (Nat \ {0})) /\ DOMAIN aux_tvs = {}
  BY DEF Init
<1>3. StackTypes
  BY <1>1, <1>2 DEF Init, StackTypes
<1>4. AuxFiltered
  <2>1. LookedAt = {}
    BY DEF Init, LookedAt
  <2>2. 1 <= Len(AuxTypes) + 1
    BY StackAssumption
  <2>3. QED
    BY <1>2, <2>1, <2>2 DEF Init, AuxFiltered
<1>5. QED
  BY <1>3, <1>4 DEF Init, StackInv, IndexRight, Filled, Pushed

\* The steps behind the allocation leave the auxiliary vector as it is.
LEMMA AuxStays ==
  ASSUME StackInv, Filling, Filling', UNCHANGED <<auxval, aux_tvs>>
  PROVE  AuxFiltered'
<1>1. LookedAt = DOMAIN AuxTypes /\ LookedAt' = DOMAIN AuxTypes /\ pc' # "aux"
  BY DEF Filling, LookedAt
<1>2. QED
  BY <1>1 DEF StackInv, AuxFiltered

LEMMA FilterAuxKeeps ==
  ASSUME StackInv, FilterAux
  PROVE  StackInv'
<1> DEFINE t == AuxTypes[i]
<1>1. /\ pc = "aux" /\ pc' = "aux" /\ i' = i + 1 /\ i \in Nat \ {0} /\ i <= Len(AuxTypes)
      /\ UNCHANGED <<args, envs, auxval, stack, stack_index, pushed>>
      /\ aux_tvs' = IF auxval[t] # 0 THEN Append(aux_tvs, <<t, auxval[t]>>) ELSE aux_tvs
  BY DEF FilterAux, TakeAux, StackInv, StackTypes
<1>2. i \in DOMAIN AuxTypes /\ t \in Nat \ {Zero} /\ t \in Range(AuxTypes)
      /\ DOMAIN AuxTypes = 1..Len(AuxTypes) /\ Len(AuxTypes) \in Nat
  BY <1>1, StackAssumption DEF Range
<1>3. auxval[t] \in Nat
  BY <1>2, StackAssumption DEF StackInv, StackTypes
<1>4. aux_tvs \in Seq((Nat \ {Zero}) \X (Nat \ {0}))
  BY DEF StackInv, StackTypes
<1>5. aux_tvs' \in Seq((Nat \ {Zero}) \X (Nat \ {0}))
  <2>1. auxval[t] # 0 => <<t, auxval[t]>> \in (Nat \ {Zero}) \X (Nat \ {0})
    BY <1>2, <1>3
  <2>2. auxval[t] # 0 => Append(aux_tvs, <<t, auxval[t]>>) \in Seq((Nat \ {Zero}) \X (Nat \ {0}))
    BY <2>1, <1>4, AppendProperties
  <2>3. QED
    BY <1>1, <1>4, <2>2
<1>6. StackTypes'
  BY <1>1, <1>5 DEF StackInv, StackTypes
<1>7. LookedAt \cap DOMAIN AuxTypes = 1..i - 1
      /\ LookedAt' \cap DOMAIN AuxTypes = (1..i - 1) \cup {i}
  BY <1>1, <1>2 DEF LookedAt
<1>8. /\ \A k \in DOMAIN aux_tvs : \E j \in 1..i - 1 :
           aux_tvs[k] = <<AuxTypes[j], auxval[AuxTypes[j]]>>
      /\ \A j \in 1..i - 1 :
           auxval[AuxTypes[j]] # 0 => \E k \in DOMAIN aux_tvs : aux_tvs[k][1] = AuxTypes[j]
  BY <1>7 DEF StackInv, AuxFiltered
<1>9. AuxFiltered'
  <2>1. CASE auxval[t] = 0
    BY <2>1, <1>1, <1>2, <1>7, <1>8 DEF AuxFiltered
  <2>2. CASE auxval[t] # 0
    <3>1. PICK n \in Nat : n = Len(aux_tvs)
      BY <1>4
    <3>2. /\ DOMAIN aux_tvs = 1..n /\ DOMAIN aux_tvs' = (1..n) \cup {n + 1}
          /\ aux_tvs'[n + 1] = <<t, auxval[t]>>
          /\ \A k \in 1..n : aux_tvs'[k] = aux_tvs[k]
      BY <2>2, <1>1, <1>4, <3>1
    <3>3. \A k \in (1..n) \cup {n + 1} : \E j \in (1..i - 1) \cup {i} :
            aux_tvs'[k] = <<AuxTypes[j], auxval[AuxTypes[j]]>>
      <4> SUFFICES ASSUME NEW k \in (1..n) \cup {n + 1}
                   PROVE  \E j \in (1..i - 1) \cup {i} :
                            aux_tvs'[k] = <<AuxTypes[j], auxval[AuxTypes[j]]>>
        OBVIOUS
      <4>1. CASE k = n + 1
        BY <4>1, <3>2, Zenon
      <4>2. CASE k \in 1..n
        <5>1. PICK j \in 1..i - 1 : aux_tvs[k] = <<AuxTypes[j], auxval[AuxTypes[j]]>>
          BY <4>2, <1>8, <3>2
        <5>2. j \in (1..i - 1) \cup {i} /\ aux_tvs'[k] = aux_tvs[k]
          BY <4>2, <3>2
        <5>3. QED
          BY <5>1, <5>2, Zenon
      <4>3. QED
        BY <4>1, <4>2
    <3>4. \A j \in (1..i - 1) \cup {i} : auxval[AuxTypes[j]] # 0 =>
            \E k \in (1..n) \cup {n + 1} : aux_tvs'[k][1] = AuxTypes[j]
      <4> SUFFICES ASSUME NEW j \in (1..i - 1) \cup {i}, auxval[AuxTypes[j]] # 0
                   PROVE  \E k \in (1..n) \cup {n + 1} : aux_tvs'[k][1] = AuxTypes[j]
        OBVIOUS
      <4>1. CASE j = i
        BY <4>1, <3>2
      <4>2. CASE j \in 1..i - 1
        <5>1. PICK k \in 1..n : aux_tvs[k][1] = AuxTypes[j]
          BY <4>2, <1>8, <3>2
        <5>2. QED
          BY <5>1, <3>2
      <4>3. QED
        BY <4>1, <4>2
    <3>5. QED
      <4>1. i' <= Len(AuxTypes) + 1
        BY <1>1, <1>2
      <4>2. QED
        BY <4>1, <1>1, <1>7, <3>2, <3>3, <3>4, Zenon DEF AuxFiltered
  <2>3. QED
    BY <2>1, <2>2
<1>10. QED
  BY <1>1, <1>6, <1>9 DEF StackInv, IndexRight, Filled, Pushed

LEMMA NoRandomKeeps ==
  ASSUME StackInv, NoRandom
  PROVE  StackInv'
<1>1. /\ pc = "aux" /\ pc' = "dead" /\ auxval[Random] = 0
      /\ UNCHANGED <<args, envs, auxval, i, aux_tvs, stack, stack_index, pushed>>
  BY DEF NoRandom
<1>2. LookedAt' = LookedAt
  BY <1>1 DEF LookedAt
<1>3. QED
  BY <1>1, <1>2 DEF StackInv, StackTypes, AuxFiltered, IndexRight, Filled, Pushed

LEMMA AllocateKeeps ==
  ASSUME StackInv, Allocate
  PROVE  StackInv'
<1>1. /\ pc = "aux" /\ i > Len(AuxTypes) /\ pc' = "auxs" /\ i' = 1 /\ stack_index' = 6
      /\ UNCHANGED <<args, envs, auxval, aux_tvs, pushed>>
      /\ stack' = [k \in 1..StackNum |-> 0]
  BY DEF Allocate, Zero
<1>2. Len(AuxTypes) \in Nat /\ DOMAIN AuxTypes = 1..Len(AuxTypes)
  BY StackAssumption
<1>3. LookedAt \cap DOMAIN AuxTypes = DOMAIN AuxTypes /\ LookedAt' = DOMAIN AuxTypes
  BY <1>1, <1>2 DEF LookedAt, StackInv, StackTypes, AuxFiltered
<1>4. StackTypes' /\ AuxFiltered' /\ Pushed'
  <2>1. StackTypes' /\ Pushed'
    BY <1>1 DEF StackInv, StackTypes, Pushed
  <2>2. LookedAt' \cap DOMAIN AuxTypes = LookedAt \cap DOMAIN AuxTypes
    BY <1>3
  <2>3. AuxFiltered'
    BY <1>1, <2>2, Zenon DEF StackInv, AuxFiltered
  <2>4. QED
    BY <2>1, <2>3
<1>5. Len(aux_tvs) \in Nat
  BY Lengths DEF StackInv
<1>6. IndexRight'
  BY <1>1, <1>5 DEF IndexRight
<1>7. Filled'
  <2>1. StackNum' = StackNum /\ \A w : Target(w)' = Target(w)
    BY <1>1, TargetStays
  <2>2. \A w \in 1..StackNum : w <= 6 => w \in 1..6
    BY Lengths DEF StackInv
  <2>3. \A w \in 1..StackNum : 0 = IF w <= 6 THEN Target(w) ELSE 0
    BY <2>2, TargetPads, Zenon DEF StackInv
  <2>4. stack' = [w \in 1..StackNum' |-> IF w <= stack_index' THEN Target(w)' ELSE 0]
    BY <1>1, <2>1, <2>3
  <2>5. QED
    BY <2>4, <1>1 DEF Filled
<1>8. QED
  BY <1>1, <1>4, <1>6, <1>7 DEF StackInv

LEMMA PutAuxKeeps ==
  ASSUME StackInv, PutAux
  PROVE  StackInv'
<1> DEFINE a == Len(aux_tvs)
           q == stack_index
<1>1. /\ pc = "auxs" /\ pc' = pc /\ i' = i + 1 /\ i <= a
      /\ UNCHANGED <<args, envs, auxval, aux_tvs, pushed>>
      /\ stack' = [stack EXCEPT ![q + 1] = aux_tvs[i][2], ![q + 2] = aux_tvs[i][1]]
      /\ stack_index' = q + 2
  BY DEF PutAux
<1>2. StackTypes /\ q = 6 + 2 * (i - 1) /\ i \in Nat \ {0} /\ q \in Nat
  BY <1>1 DEF StackInv, IndexRight, StackTypes
<1>3. /\ Len(args) \in Nat /\ Len(envs) \in Nat /\ a \in Nat
      /\ StackNum = 9 + 2 * a + Len(envs) + Len(args) /\ StackNum \in Nat
  BY <1>2, Lengths
<1>4. StackTypes' /\ AuxFiltered' /\ IndexRight' /\ Pushed'
  <2>1. Filling /\ Filling'
    BY <1>1 DEF Filling
  <2>2. StackTypes' /\ Pushed'
    BY <1>1, <1>2 DEF StackInv, StackTypes, Pushed
  <2>3. IndexRight'
    BY <1>1, <1>2, <1>3 DEF IndexRight
  <2>4. QED
    BY <2>1, <2>2, <2>3, <1>1, AuxStays
<1>5. Target(q + 1) = aux_tvs[i][2] /\ Target(q + 2) = aux_tvs[i][1]
  <2>1. i \in 1..Len(aux_tvs) /\ q + 1 = 5 + 2 * i /\ q + 2 = 6 + 2 * i
    BY <1>1, <1>2, <1>3
  <2>2. QED
    BY <2>1, <1>2, TargetAux
<1>6. Filled'
  <2>1. stack = [w \in 1..StackNum |-> IF w <= q THEN Target(w) ELSE 0]
    BY <1>1 DEF StackInv, Filled
  <2>2. StackNum' = StackNum /\ \A w : Target(w)' = Target(w)
    BY <1>1, TargetStays
  <2>3. stack' = [w \in 1..StackNum |-> IF w = q + 2 THEN Target(w)
                                         ELSE IF w = q + 1 THEN Target(w) ELSE stack[w]]
    BY <1>1, <1>2, <1>5, <2>1
  <2>4. \A w \in 1..StackNum : w <= q + 2 <=> (w <= q \/ w = q + 1 \/ w = q + 2)
    BY <1>2, <1>3
  <2>5. \A w \in 1..StackNum : stack[w] = IF w <= q THEN Target(w) ELSE 0
    BY <2>1
  <2>6. \A w \in 1..StackNum :
          (IF w = q + 2 THEN Target(w) ELSE IF w = q + 1 THEN Target(w) ELSE stack[w])
            = (IF w <= q + 2 THEN Target(w) ELSE 0)
    BY <2>4, <2>5, Zenon
  <2>7. stack' = [w \in 1..StackNum' |-> IF w <= stack_index' THEN Target(w)' ELSE 0]
    BY <2>2, <2>3, <2>6, <1>1
  <2>8. QED
    BY <2>7, <1>1 DEF Filled
<1>7. QED
  BY <1>1, <1>4, <1>6 DEF StackInv

\* The three loops that follow: the index stays below the size, and what is put
\* there, or skipped, is what belongs there.
LEMMA AuxsDoneKeeps ==
  ASSUME StackInv, AuxsDone
  PROVE  StackInv'
<1>1. /\ pc = "auxs" /\ pc' = "envs" /\ i' = 1 /\ i > Len(aux_tvs)
      /\ UNCHANGED <<args, envs, auxval, aux_tvs, stack, pushed>>
      /\ stack_index' = stack_index + 1
  BY DEF AuxsDone, Terminator
<1>2. StackTypes /\ Filling /\ Filling'
  BY <1>1 DEF StackInv, Filling
<1>3. /\ Len(args) \in Nat /\ Len(envs) \in Nat /\ Len(aux_tvs) \in Nat
      /\ StackNum = 9 + 2 * Len(aux_tvs) + Len(envs) + Len(args)
  BY <1>2, Lengths
<1>4. stack_index = 6 + 2 * Len(aux_tvs)
  <2>1. i <= Len(aux_tvs) + 1 /\ stack_index = 6 + 2 * (i - 1) /\ i \in Nat
    BY <1>1 DEF StackInv, IndexRight, StackTypes
  <2>2. QED
    BY <2>1, <1>1, <1>3
<1>5. Filled'
  <2>1. stack_index < StackNum /\ stack_index + 1 = 7 + 2 * Len(aux_tvs)
    BY <1>3, <1>4
  <2>2. QED
    BY <2>1, <1>1, <1>2, TargetPads, SkipFills
<1>6. StackTypes' /\ Pushed'
  BY <1>1 DEF StackInv, StackTypes, Pushed
<1>7. IndexRight'
  BY <1>1, <1>3, <1>4 DEF IndexRight
<1>8. QED
  BY <1>1, <1>2, <1>5, <1>6, <1>7, AuxStays DEF StackInv

LEMMA PutEnvKeeps ==
  ASSUME StackInv, PutEnv
  PROVE  StackInv'
<1>1. /\ pc = "envs" /\ pc' = pc /\ i' = i + 1 /\ i <= Len(envs)
      /\ UNCHANGED <<args, envs, auxval, aux_tvs, pushed>>
      /\ stack' = [stack EXCEPT ![stack_index + 1] = envs[Len(envs) + 1 - i]]
      /\ stack_index' = stack_index + 1
  BY DEF PutEnv, Put
<1>2. StackTypes /\ Filling /\ Filling' /\ i \in Nat \ {0}
  BY <1>1 DEF StackInv, StackTypes, Filling
<1>3. /\ Len(args) \in Nat /\ Len(envs) \in Nat /\ Len(aux_tvs) \in Nat
      /\ StackNum = 9 + 2 * Len(aux_tvs) + Len(envs) + Len(args)
  BY <1>2, Lengths
<1>4. stack_index = 7 + 2 * Len(aux_tvs) + (i - 1)
  BY <1>1 DEF StackInv, IndexRight
<1>5. Filled'
  <2>1. /\ stack_index < StackNum /\ stack_index + 1 = 7 + 2 * Len(aux_tvs) + i
        /\ i \in 1..Len(envs)
    BY <1>1, <1>2, <1>3, <1>4
  <2>2. Target(stack_index + 1) = envs[Len(envs) + 1 - i]
    BY <2>1, <1>2, TargetEnv
  <2>3. QED
    BY <2>1, <2>2, <1>1, <1>2, PutFills
<1>6. StackTypes' /\ Pushed'
  BY <1>1 DEF StackInv, StackTypes, Pushed
<1>7. IndexRight'
  BY <1>1, <1>2, <1>3, <1>4 DEF IndexRight
<1>8. QED
  BY <1>1, <1>2, <1>5, <1>6, <1>7, AuxStays DEF StackInv

LEMMA EnvsDoneKeeps ==
  ASSUME StackInv, EnvsDone
  PROVE  StackInv'
<1>1. /\ pc = "envs" /\ pc' = "args" /\ i' = 1 /\ i > Len(envs)
      /\ UNCHANGED <<args, envs, auxval, aux_tvs, stack, pushed>>
      /\ stack_index' = stack_index + 1
  BY DEF EnvsDone, Terminator
<1>2. StackTypes /\ Filling /\ Filling'
  BY <1>1 DEF StackInv, Filling
<1>3. /\ Len(args) \in Nat /\ Len(envs) \in Nat /\ Len(aux_tvs) \in Nat
      /\ StackNum = 9 + 2 * Len(aux_tvs) + Len(envs) + Len(args)
  BY <1>2, Lengths
<1>4. stack_index = 7 + 2 * Len(aux_tvs) + Len(envs)
  <2>1. /\ i <= Len(envs) + 1 /\ stack_index = 7 + 2 * Len(aux_tvs) + (i - 1)
        /\ i \in Nat
    BY <1>1 DEF StackInv, IndexRight, StackTypes
  <2>2. QED
    BY <2>1, <1>1, <1>3
<1>5. Filled'
  <2>1. stack_index < StackNum /\ stack_index + 1 = 8 + 2 * Len(aux_tvs) + Len(envs)
    BY <1>3, <1>4
  <2>2. QED
    BY <2>1, <1>1, <1>2, TargetPads, SkipFills
<1>6. StackTypes' /\ Pushed'
  BY <1>1 DEF StackInv, StackTypes, Pushed
<1>7. IndexRight'
  BY <1>1, <1>3, <1>4 DEF IndexRight
<1>8. QED
  BY <1>1, <1>2, <1>5, <1>6, <1>7, AuxStays DEF StackInv

LEMMA PutArgKeeps ==
  ASSUME StackInv, PutArg
  PROVE  StackInv'
<1>1. /\ pc = "args" /\ pc' = pc /\ i' = i + 1 /\ i <= Len(args)
      /\ UNCHANGED <<args, envs, auxval, aux_tvs, pushed>>
      /\ stack' = [stack EXCEPT ![stack_index + 1] = args[Len(args) + 1 - i]]
      /\ stack_index' = stack_index + 1
  BY DEF PutArg, Put
<1>2. StackTypes /\ Filling /\ Filling' /\ i \in Nat \ {0}
  BY <1>1 DEF StackInv, StackTypes, Filling
<1>3. /\ Len(args) \in Nat /\ Len(envs) \in Nat /\ Len(aux_tvs) \in Nat
      /\ StackNum = 9 + 2 * Len(aux_tvs) + Len(envs) + Len(args)
  BY <1>2, Lengths
<1>4. stack_index = 8 + 2 * Len(aux_tvs) + Len(envs) + (i - 1)
  BY <1>1 DEF StackInv, IndexRight
<1>5. Filled'
  <2>1. /\ stack_index < StackNum /\ stack_index + 1 = 8 + 2 * Len(aux_tvs) + Len(envs) + i
        /\ i \in 1..Len(args)
    BY <1>1, <1>2, <1>3, <1>4
  <2>2. Target(stack_index + 1) = args[Len(args) + 1 - i]
    BY <2>1, <1>2, TargetArg
  <2>3. QED
    BY <2>1, <2>2, <1>1, <1>2, PutFills
<1>6. StackTypes' /\ Pushed'
  BY <1>1 DEF StackInv, StackTypes, Pushed
<1>7. IndexRight'
  BY <1>1, <1>2, <1>3, <1>4 DEF IndexRight
<1>8. QED
  BY <1>1, <1>2, <1>5, <1>6, <1>7, AuxStays DEF StackInv

LEMMA PutArgcKeeps ==
  ASSUME StackInv, PutArgc
  PROVE  StackInv'
<1>1. /\ pc = "args" /\ pc' = "check" /\ i > Len(args)
      /\ UNCHANGED <<args, envs, auxval, i, aux_tvs, pushed>>
      /\ stack' = [stack EXCEPT ![stack_index + 1] = Len(args)]
      /\ stack_index' = stack_index + 1
  BY DEF PutArgc, Put
<1>2. StackTypes /\ Filling /\ Filling'
  BY <1>1 DEF StackInv, Filling
<1>3. /\ Len(args) \in Nat /\ Len(envs) \in Nat /\ Len(aux_tvs) \in Nat
      /\ StackNum = 9 + 2 * Len(aux_tvs) + Len(envs) + Len(args)
  BY <1>2, Lengths
<1>4. stack_index = 8 + 2 * Len(aux_tvs) + Len(envs) + Len(args)
  <2>1. /\ i <= Len(args) + 1 /\ stack_index = 8 + 2 * Len(aux_tvs) + Len(envs) + (i - 1)
        /\ i \in Nat
    BY <1>1 DEF StackInv, IndexRight, StackTypes
  <2>2. QED
    BY <2>1, <1>1, <1>3
<1>5. Filled'
  <2>1. /\ stack_index < StackNum
        /\ stack_index + 1 = 9 + 2 * Len(aux_tvs) + Len(envs) + Len(args)
    BY <1>3, <1>4
  <2>2. QED
    BY <2>1, <1>1, <1>2, TargetPads, PutFills
<1>6. StackTypes' /\ Pushed'
  BY <1>1 DEF StackInv, StackTypes, Pushed
<1>7. IndexRight'
  BY <1>1, <1>3, <1>4 DEF IndexRight, StackNum
<1>8. QED
  BY <1>1, <1>2, <1>5, <1>6, <1>7, AuxStays DEF StackInv

\* The CHECK on the number of words, the pushes and the jump leave the array alone.
LEMMA ArrayStays ==
  ASSUME StackInv, Filling, Filling', UNCHANGED <<args, envs, aux_tvs, stack, stack_index>>
  PROVE  Filled'
<1>1. StackNum' = StackNum /\ \A w : Target(w)' = Target(w)
  BY TargetStays
<1>2. stack = [w \in 1..StackNum |-> IF w <= stack_index THEN Target(w) ELSE 0]
  BY DEF StackInv, Filled, Filling
<1>3. stack' = [w \in 1..StackNum' |-> IF w <= stack_index' THEN Target(w)' ELSE 0]
  BY <1>1, <1>2
<1>4. QED
  BY <1>3 DEF Filled, Filling

LEMMA CheckNumKeeps ==
  ASSUME StackInv, CheckNum
  PROVE  StackInv'
<1>1. /\ pc = "check" /\ pc' = "push" /\ i' = 1 /\ stack_index = StackNum
      /\ UNCHANGED <<args, envs, auxval, aux_tvs, stack, stack_index, pushed>>
  BY DEF CheckNum, StackInv, IndexRight
<1>2. StackTypes /\ Filling /\ Filling'
  BY <1>1 DEF StackInv, Filling
<1>3. StackNum \in Nat /\ StackNum' = StackNum
  BY <1>1, <1>2, Lengths, TargetStays
<1>4. Pushed'
  <2>1. pushed = <<>> /\ 1..i' - 1 = {} /\ i' <= StackNum + 1
    BY <1>1, <1>3 DEF StackInv, Pushed
  <2>2. QED
    BY <2>1, <1>1, <1>3 DEF Pushed
<1>5. StackTypes' /\ IndexRight'
  BY <1>1, <1>3 DEF StackInv, StackTypes, IndexRight
<1>6. QED
  BY <1>1, <1>2, <1>4, <1>5, AuxStays, ArrayStays DEF StackInv

LEMMA PushKeeps ==
  ASSUME StackInv, Push
  PROVE  StackInv'
<1>1. /\ pc = "push" /\ pc' = "push" /\ i' = i + 1 /\ i <= StackNum
      /\ UNCHANGED <<args, envs, auxval, aux_tvs, stack, stack_index>>
      /\ pushed' = Append(pushed, stack[i])
  BY DEF Push
<1>2. StackTypes /\ Filling /\ Filling'
  BY <1>1 DEF StackInv, Filling
<1>3. StackNum \in Nat /\ StackNum' = StackNum /\ i \in Nat \ {0}
  BY <1>1, <1>2, Lengths, TargetStays DEF StackTypes
<1>4. Pushed'
  <2>1. pushed = [w \in 1..i - 1 |-> stack[w]]
    BY <1>1 DEF StackInv, Pushed
  <2>2. Len(pushed) = i - 1
    BY <2>1, <1>3
  <2>3. pushed' = [w \in 1..i |-> stack[w]]
    BY <2>1, <2>2, <1>1, <1>3
  <2>4. i' <= StackNum' + 1 /\ i' - 1 = i
    BY <1>1, <1>3
  <2>5. QED
    BY <2>3, <2>4, <1>1 DEF Pushed
<1>5. StackTypes' /\ IndexRight'
  BY <1>1, <1>3 DEF StackInv, StackTypes, IndexRight
<1>6. QED
  BY <1>1, <1>2, <1>4, <1>5, AuxStays, ArrayStays DEF StackInv

LEMMA JumpKeeps ==
  ASSUME StackInv, Jump
  PROVE  StackInv'
<1>1. /\ pc = "push" /\ pc' = "entered" /\ i > StackNum
      /\ UNCHANGED <<args, envs, auxval, i, aux_tvs, stack, stack_index, pushed>>
  BY DEF Jump
<1>2. StackTypes /\ Filling /\ Filling'
  BY <1>1 DEF StackInv, Filling
<1>3. StackNum \in Nat /\ StackNum' = StackNum /\ i \in Nat \ {0}
  BY <1>1, <1>2, Lengths, TargetStays DEF StackTypes
<1>4. Pushed'
  <2>1. pushed = [w \in 1..i - 1 |-> stack[w]] /\ i - 1 = StackNum
    BY <1>1, <1>3 DEF StackInv, Pushed
  <2>2. QED
    BY <2>1, <1>1, <1>3 DEF Pushed
<1>5. StackTypes' /\ IndexRight'
  BY <1>1, <1>3 DEF StackInv, StackTypes, IndexRight
<1>6. QED
  BY <1>1, <1>2, <1>4, <1>5, AuxStays, ArrayStays DEF StackInv

-----------------------------------------------------------------------------
\* Execute's array and its index: at every point of its loops what lies below the
\* index is what the process entry wants there, and what lies above is zero.
THEOREM StackInvariant == Spec => []StackInv
<1>1. StackInv /\ [Next]_vars => StackInv'
  <2> SUFFICES ASSUME StackInv, [Next]_vars PROVE StackInv'
    OBVIOUS
  <2>1. CASE FilterAux \/ NoRandom \/ Allocate \/ PutAux \/ AuxsDone \/ PutEnv
    BY <2>1, FilterAuxKeeps, NoRandomKeeps, AllocateKeeps, PutAuxKeeps, AuxsDoneKeeps,
       PutEnvKeeps
  <2>2. CASE EnvsDone \/ PutArg \/ PutArgc \/ CheckNum \/ Push \/ Jump
    BY <2>2, EnvsDoneKeeps, PutArgKeeps, PutArgcKeeps, CheckNumKeeps, PushKeeps, JumpKeeps
  <2>3. CASE UNCHANGED vars
    <3>1. UNCHANGED <<args, envs, auxval, pc, i, aux_tvs, stack, stack_index, pushed>>
      BY <2>3 DEF vars
    <3>2. StackNum' = StackNum /\ LookedAt' = LookedAt /\ \A w : Target(w)' = Target(w)
      BY <3>1, TargetStays DEF LookedAt
    <3>3. StackTypes' /\ AuxFiltered' /\ IndexRight' /\ Pushed'
      BY <3>1, <3>2 DEF StackInv, StackTypes, AuxFiltered, IndexRight, Pushed
    <3>4. Filled'
      <4>1. CASE pc \in {"aux", "dead"}
        BY <4>1, <3>1 DEF StackInv, Filled
      <4>2. CASE pc \notin {"aux", "dead"}
        BY <4>2, <3>1, ArrayStays DEF Filling
      <4>3. QED
        BY <4>1, <4>2
    <3>5. QED
      BY <3>1, <3>3, <3>4 DEF StackInv
  <2>4. QED
    BY <2>1, <2>2, <2>3 DEF Next
<1>2. QED
  BY <1>1, StackInit, PTL DEF Spec

\* The word at a place of the stack that the loadee sees.
LEMMA SeenWords ==
  ASSUME StackInv, pc = "entered"
  PROVE  Len(Seen) = StackNum /\ \A w \in 1..StackNum : Seen[w] = Target(StackNum - w + 1)
<1>1. StackNum \in Nat
  BY Lengths DEF StackInv
<1>2. pushed = [w \in 1..StackNum |-> stack[w]]
  BY DEF StackInv, Pushed
<1>3. stack = [w \in 1..StackNum |-> IF w <= stack_index THEN Target(w) ELSE 0]
      /\ stack_index = StackNum
  BY DEF StackInv, Filled, IndexRight
<1>4. \A w \in 1..StackNum : pushed[w] = Target(w)
  BY <1>1, <1>2, <1>3
<1>5. Len(pushed) = StackNum
  BY <1>1, <1>2
<1>6. Seen = [w \in 1..StackNum |-> pushed[(StackNum - w) + 1]]
  BY <1>5 DEF Seen, Reverse
<1>7. QED
  BY <1>1, <1>4, <1>6

\* AbiStack: the loadee starts on the stack of the ABI, its auxiliary vector says
\* what the kernel said to sloader, and Execute never writes outside its array.
THEOREM StackIsAbi == Spec => []AbiStack
<1>1. StackInv => AbiStack
  <2> SUFFICES ASSUME StackInv PROVE AbiStack
    OBVIOUS
  <2> DEFINE n == Len(args)
             e == Len(envs)
             a == Len(aux_tvs)
  <2>1. /\ StackTypes /\ n \in Nat /\ e \in Nat /\ a \in Nat
        /\ StackNum = 9 + 2 * a + e + n /\ StackNum \in Nat /\ DOMAIN aux_tvs = 1..a
    BY Lengths DEF StackInv
  <2>5. \A m \in Nat : \A k \in 1..m : m + 1 - k \in 1..m /\ m + 1 - (m + 1 - k) = k
    OBVIOUS
  <2>2. stack_index <= Len(stack)
    <3>1. CASE pc \in {"aux", "dead"}
      BY <3>1 DEF StackInv, IndexRight, Filled
    <3>2. CASE pc \notin {"aux", "dead"}
      <4>1. Len(stack) = StackNum
        BY <3>2, <2>1 DEF StackInv, Filled
      <4>2. stack_index <= StackNum
        BY <3>2, <2>1 DEF StackInv, IndexRight, StackTypes
      <4>3. QED
        BY <4>1, <4>2
    <3>3. QED
      BY <3>1, <3>2
  <2>3. ASSUME pc = "entered"
        PROVE  /\ Len(Seen) = n + e + 3 + 2 * a + 6
               /\ Seen[1] = n /\ \A k \in 1..n : Seen[1 + k] = args[k]
               /\ Seen[n + 2] = Zero /\ \A k \in 1..e : Seen[n + 2 + k] = envs[k]
               /\ Seen[n + e + 3] = Zero
               /\ SeenAux(a + 1) = Zero
               /\ \A t \in Range(AuxTypes) :
                    {Seen[n + e + 3 + 2 * k] : k \in Looked(t)} =
                      IF auxval[t] = 0 THEN {} ELSE {auxval[t]}
    <3>1. Len(Seen) = StackNum /\ \A w \in 1..StackNum : Seen[w] = Target(StackNum - w + 1)
      BY <2>3, SeenWords
    <3>2. Len(Seen) = n + e + 3 + 2 * a + 6
      BY <2>1, <3>1
    <3>3. Seen[1] = n
      <4>1. 1 \in 1..StackNum /\ StackNum - 1 + 1 = 9 + 2 * a + e + n
        BY <2>1
      <4>2. QED
        BY <4>1, <2>1, <3>1, TargetPads
    <3>4. ASSUME NEW k \in 1..n PROVE Seen[1 + k] = args[k]
      <4>1. PICK j \in 1..n : j = n + 1 - k
        BY <2>1, <2>5, Zenon
      <4>2. 1 + k \in 1..StackNum /\ StackNum - (1 + k) + 1 = 8 + 2 * a + e + j
            /\ n + 1 - j = k
        BY <2>1, <4>1
      <4>3. QED
        BY <4>2, <2>1, <3>1, TargetArg
    <3>5. Seen[n + 2] = Zero
      <4>1. n + 2 \in 1..StackNum /\ StackNum - (n + 2) + 1 = 8 + 2 * a + e
        BY <2>1
      <4>2. QED
        BY <4>1, <2>1, <3>1, TargetPads DEF Zero
    <3>6. ASSUME NEW k \in 1..e PROVE Seen[n + 2 + k] = envs[k]
      <4>1. PICK j \in 1..e : j = e + 1 - k
        BY <2>1, <2>5, Zenon
      <4>2. n + 2 + k \in 1..StackNum /\ StackNum - (n + 2 + k) + 1 = 7 + 2 * a + j
            /\ e + 1 - j = k
        BY <2>1, <4>1
      <4>3. QED
        BY <4>2, <2>1, <3>1, TargetEnv
    <3>7. Seen[n + e + 3] = Zero
      <4>1. n + e + 3 \in 1..StackNum /\ StackNum - (n + e + 3) + 1 = 7 + 2 * a
        BY <2>1
      <4>2. QED
        BY <4>1, <2>1, <3>1, TargetPads DEF Zero
    <3>8. SeenAux(a + 1) = Zero
      <4>1. /\ n + e + 3 + 2 * (a + 1) - 1 \in 1..StackNum /\ 6 \in 1..6
            /\ StackNum - (n + e + 3 + 2 * (a + 1) - 1) + 1 = 6
        BY <2>1
      <4>2. QED
        BY <4>1, <2>1, <3>1, TargetPads DEF Zero, SeenAux
    <3>9. \A k \in 1..a : /\ SeenAux(k) = aux_tvs[a + 1 - k][1]
                          /\ Seen[n + e + 3 + 2 * k] = aux_tvs[a + 1 - k][2]
      <4> SUFFICES ASSUME NEW k \in 1..a
                   PROVE  /\ SeenAux(k) = aux_tvs[a + 1 - k][1]
                          /\ Seen[n + e + 3 + 2 * k] = aux_tvs[a + 1 - k][2]
        OBVIOUS
      <4>1. PICK j \in 1..a : j = a + 1 - k
        BY <2>1, <2>5, Zenon
      <4>2. /\ n + e + 3 + 2 * k - 1 \in 1..StackNum
            /\ StackNum - (n + e + 3 + 2 * k - 1) + 1 = 6 + 2 * j
        BY <2>1, <4>1
      <4>3. /\ n + e + 3 + 2 * k \in 1..StackNum
            /\ StackNum - (n + e + 3 + 2 * k) + 1 = 5 + 2 * j
        BY <2>1, <4>1
      <4>4. Target(5 + 2 * j) = aux_tvs[j][2] /\ Target(6 + 2 * j) = aux_tvs[j][1]
        BY <2>1, TargetAux
      <4>5. QED
        BY <3>1, <4>1, <4>2, <4>3, <4>4 DEF SeenAux
    <3>10. ASSUME NEW t \in Range(AuxTypes)
           PROVE  {Seen[n + e + 3 + 2 * k] : k \in Looked(t)} =
                    IF auxval[t] = 0 THEN {} ELSE {auxval[t]}
      <4>1. t # Zero
        BY StackAssumption DEF Range
      <4>2. \A j \in 1..a : aux_tvs[j][1] # Zero
        BY <2>1 DEF StackTypes
      <4>3. \A k \in 1..a : a + 1 - k \in 1..a /\ a + 1 - (a + 1 - k) = k
        BY <2>1, <2>5, Zenon
      <4>4. Looked(t) = {k \in 1..a : aux_tvs[a + 1 - k][1] = t}
        <5>1. \A k \in 1..a : SeenAux(k) # Zero
          BY <3>9, <4>2, <4>3
        <5>2. 1..a + 1 = (1..a) \cup {a + 1} /\ \A k \in 1..a : 1..k - 1 \subseteq 1..a
          BY <2>1
        <5>3. QED
          BY <5>1, <5>2, <3>8, <3>9, <4>1, Zenon DEF Looked
      <4>5. /\ \A k \in Looked(t) : \E j \in 1..a :
                 aux_tvs[j][1] = t /\ Seen[n + e + 3 + 2 * k] = aux_tvs[j][2]
            /\ \A j \in 1..a : aux_tvs[j][1] = t =>
                 \E k \in Looked(t) : Seen[n + e + 3 + 2 * k] = aux_tvs[j][2]
        <5>1. \A k \in Looked(t) : \E j \in 1..a :
                aux_tvs[j][1] = t /\ Seen[n + e + 3 + 2 * k] = aux_tvs[j][2]
          BY <3>9, <4>3, <4>4, Zenon
        <5>2. \A j \in 1..a : aux_tvs[j][1] = t =>
                \E k \in Looked(t) : Seen[n + e + 3 + 2 * k] = aux_tvs[j][2]
          <6> SUFFICES ASSUME NEW j \in 1..a, aux_tvs[j][1] = t
                       PROVE  \E k \in Looked(t) : Seen[n + e + 3 + 2 * k] = aux_tvs[j][2]
            OBVIOUS
          <6>1. PICK k \in 1..a : k = a + 1 - j /\ a + 1 - k = j
            BY <4>3, Zenon
          <6>2. QED
            BY <6>1, <3>9, <4>4, Zenon
        <5>3. QED
          BY <5>1, <5>2
      <4>6. \A j \in 1..a : aux_tvs[j][1] = t => aux_tvs[j][2] = auxval[t] /\ auxval[t] # 0
        <5> SUFFICES ASSUME NEW j \in 1..a, aux_tvs[j][1] = t
                     PROVE  aux_tvs[j][2] = auxval[t] /\ auxval[t] # 0
          OBVIOUS
        <5>1. PICK h \in DOMAIN AuxTypes : aux_tvs[j] = <<AuxTypes[h], auxval[AuxTypes[h]]>>
          BY <2>1 DEF StackInv, AuxFiltered
        <5>2. aux_tvs[j][2] # 0
          BY <2>1 DEF StackTypes
        <5>3. QED
          BY <5>1, <5>2
      <4>7. auxval[t] # 0 => \E j \in 1..a : aux_tvs[j][1] = t
        <5>1. PICK h \in DOMAIN AuxTypes : AuxTypes[h] = t
          BY DEF Range
        <5>2. LookedAt = DOMAIN AuxTypes
          BY <2>3 DEF LookedAt
        <5>3. QED
          BY <5>1, <5>2, <2>1 DEF StackInv, AuxFiltered
      <4>8. \A k \in Looked(t) : Seen[n + e + 3 + 2 * k] = auxval[t] /\ auxval[t] # 0
        BY <4>5, <4>6
      <4>9. auxval[t] # 0 => \E k \in Looked(t) : Seen[n + e + 3 + 2 * k] = auxval[t]
        BY <4>5, <4>6, <4>7
      <4>10. QED
        BY <4>8, <4>9
    <3>11. QED
      BY <3>2, <3>3, <3>4, <3>5, <3>6, <3>7, <3>8, <3>10
  <2>4. QED
    BY <2>2, <2>3 DEF AbiStack, StackInv
<1>2. QED
  BY <1>1, StackInvariant, PTL

-----------------------------------------------------------------------------
(***************************************************************************)
(*                               LibcTable                                 *)
(***************************************************************************)

\* Every array is an environment; environ is NULL only after clearenv, and it and the
\* program's copy are those of the start until one of them has moved.
ArraysRight ==
  /\ arrays \in Seq(Seq(L!Entry)) /\ arrays # <<>>
  /\ environ \in 0..Len(arrays)
  /\ environ = 0 => "cleared" \in moved
  /\ moved = {} => environ = 1
  /\ binding \in {"GLOB_DAT", "COPY"}
  /\ libc_pc = "relocate" => moved = {}
  /\ libc_pc # "relocate" /\ binding = "COPY" /\ moved = {} => own = 1

\* The first entry of a name.
LEMMA FirstEntry ==
  ASSUME NEW s \in Seq(L!Entry), NEW n, L!Entries(s, n) # {}
  PROVE  /\ L!First(s, n) \in L!Entries(s, n)
         /\ \A j \in L!Entries(s, n) : L!First(s, n) <= j
<1>1. L!Entries(s, n) \in SUBSET Nat
  BY DEF L!Entries
<1>2. \E k \in L!Entries(s, n) : \A j \in L!Entries(s, n) : k <= j
  BY <1>1, LeastExists
<1>3. QED
  BY <1>2 DEF L!First

\* An entry with none of its name before it is the first.
LEMMA FirstIsIt ==
  ASSUME NEW s \in Seq(L!Entry), NEW n, NEW k \in L!Entries(s, n),
         \A j \in L!Entries(s, n) : k <= j
  PROVE  L!First(s, n) = k
<1>1. L!First(s, n) \in L!Entries(s, n) /\ L!First(s, n) <= k
  BY FirstEntry
<1>2. k <= L!First(s, n)
  BY <1>1
<1>3. \A j \in L!Entries(s, n) : j \in Nat
  BY DEF L!Entries
<1>4. QED
  BY <1>1, <1>2, <1>3

\* One entry more at the end counts only if there was none of its name.
LEMMA LookupAppend ==
  ASSUME NEW s \in Seq(L!Entry), NEW n \in EnvNames, NEW v \in EnvValues, NEW m
  PROVE  /\ Append(s, <<n, v>>) \in Seq(L!Entry)
         /\ L!Entries(s, m) # {} =>
              /\ L!Entries(Append(s, <<n, v>>), m) # {}
              /\ L!Lookup(Append(s, <<n, v>>), m) = L!Lookup(s, m)
         /\ L!Entries(s, m) = {} /\ m = n =>
              /\ L!Entries(Append(s, <<n, v>>), m) # {}
              /\ L!Lookup(Append(s, <<n, v>>), m) = v
         /\ L!Entries(s, m) = {} /\ m # n => L!Entries(Append(s, <<n, v>>), m) = {}
<1>0. PICK t : t = Append(s, <<n, v>>)
  OBVIOUS
<1>1. PICK N \in Nat : t = Append(s, <<n, v>>) /\ N = Len(s)
  BY <1>0
<1>2. <<n, v>> \in L!Entry
  BY DEF L!Entry
<1>3. /\ t \in Seq(L!Entry) /\ DOMAIN s = 1..N /\ DOMAIN t = 1..N + 1
      /\ t[N + 1] = <<n, v>> /\ \A j \in 1..N : t[j] = s[j]
  BY <1>1, <1>2
<1>4. ASSUME L!Entries(s, m) # {}
      PROVE  L!Entries(t, m) # {} /\ L!Lookup(t, m) = L!Lookup(s, m)
  <2>1. PICK k : /\ k = L!First(s, m) /\ k \in L!Entries(s, m)
                 /\ \A j \in L!Entries(s, m) : k <= j
    BY <1>4, FirstEntry
  <2>2. k \in 1..N /\ s[k][1] = m
    BY <2>1, <1>3 DEF L!Entries
  <2>3. k \in L!Entries(t, m)
    BY <2>2, <1>3 DEF L!Entries
  <2>4. ASSUME NEW j \in L!Entries(t, m) PROVE k <= j
    <3>1. j \in 1..N + 1 /\ t[j][1] = m
      BY <1>3 DEF L!Entries
    <3>2. CASE j \in 1..N
      BY <3>1, <3>2, <2>1, <1>3 DEF L!Entries
    <3>3. CASE j = N + 1
      BY <3>3, <2>2
    <3>4. QED
      BY <3>1, <3>2, <3>3
  <2>5. L!First(t, m) = k
    BY <2>3, <2>4, <1>3, FirstIsIt
  <2>6. QED
    BY <1>3, <1>4, <2>1, <2>2, <2>3, <2>5 DEF L!Lookup
<1>5. ASSUME L!Entries(s, m) = {}, m = n
      PROVE  L!Entries(t, m) # {} /\ L!Lookup(t, m) = v
  <2>1. N + 1 \in L!Entries(t, m)
    BY <1>3, <1>5 DEF L!Entries
  <2>2. ASSUME NEW j \in L!Entries(t, m) PROVE j = N + 1
    BY <1>3, <1>5 DEF L!Entries
  <2>3. L!First(t, m) = N + 1
    <3>1. \A j \in L!Entries(t, m) : N + 1 <= j
      BY <2>2
    <3>2. QED
      BY <3>1, <2>1, <1>3, FirstIsIt
  <2>4. QED
    BY <2>1, <2>3, <1>3 DEF L!Lookup
<1>6. ASSUME L!Entries(s, m) = {}, m # n
      PROVE  L!Entries(t, m) = {}
  BY <1>3, <1>6 DEF L!Entries
<1>7. QED
  BY <1>1, <1>3, <1>4, <1>5, <1>6

\* What setenv writes over an entry that is there.
Replaced(s, n, v) == [s EXCEPT ![L!First(s, n)] = <<n, v>>]

\* A new value in place of the first entry of a name is what is found under it.
LEMMA LookupReplace ==
  ASSUME NEW s \in Seq(L!Entry), NEW n \in EnvNames, NEW v \in EnvValues,
         L!Entries(s, n) # {}, NEW m, NEW t, t = Replaced(s, n, v)
  PROVE  t \in Seq(L!Entry) /\ L!Lookup(t, m) = IF m = n THEN v ELSE L!Lookup(s, m)
<1>1. PICK k : /\ k = L!First(s, n) /\ k \in L!Entries(s, n)
               /\ \A j \in L!Entries(s, n) : k <= j
  BY FirstEntry
<1>2. t = [s EXCEPT ![k] = <<n, v>>]
  BY <1>1 DEF Replaced
<1>3. <<n, v>> \in L!Entry /\ k \in DOMAIN s /\ s[k][1] = n
  BY <1>1 DEF L!Entry, L!Entries
<1>4. /\ t \in Seq(L!Entry) /\ DOMAIN t = DOMAIN s /\ t[k] = <<n, v>>
      /\ \A j \in DOMAIN s : j # k => t[j] = s[j]
  <2>1. PICK e \in L!Entry : e = <<n, v>>
    BY <1>3
  <2>2. QED
    <3>1. k \in 1..Len(s) /\ DOMAIN s = 1..Len(s)
      BY <1>3
    <3>2. t = [s EXCEPT ![k] = e]
      BY <1>2, <2>1
    <3>3. t \in Seq(L!Entry) /\ DOMAIN t = DOMAIN s
      <4>1. t \in Seq(L!Entry)
        <5>1. s \in [1..Len(s) -> L!Entry] /\ Len(s) \in Nat
          OBVIOUS
        <5>2. t \in [1..Len(s) -> L!Entry]
          BY <5>1, <3>2
        <5>3. QED
          BY <5>1, <5>2, IsASeq
      <4>2. DOMAIN t = DOMAIN s
        BY <3>2, Zenon
      <4>3. QED
        BY <4>1, <4>2
    <3>4. t[k] = e /\ \A j \in DOMAIN s : j # k => t[j] = s[j]
      BY <3>1, <3>2
    <3>5. QED
      BY <3>3, <3>4, <2>1, Zenon
<1>5. \A x : L!Entries(t, x) = L!Entries(s, x)
  BY <1>3, <1>4 DEF L!Entries
<1>6. \A x : L!First(t, x) = L!First(s, x)
  BY <1>5 DEF L!First
<1>7. ASSUME m = n PROVE L!Lookup(t, m) = v
  <2>1. L!Entries(t, m) # {} /\ L!First(t, m) = k
    BY <1>1, <1>5, <1>6, <1>7, Zenon
  <2>2. L!Lookup(t, m) = t[k][2]
    BY <2>1, Zenon DEF L!Lookup
  <2>3. QED
    BY <2>2, <1>4
<1>8. ASSUME m # n PROVE L!Lookup(t, m) = L!Lookup(s, m)
  <2>1. CASE L!Entries(s, m) = {}
    BY <2>1, <1>5, <1>8 DEF L!Lookup
  <2>2. CASE L!Entries(s, m) # {}
    <3>1. L!First(s, m) \in DOMAIN s /\ s[L!First(s, m)][1] = m
      BY <2>2, FirstEntry DEF L!Entries
    <3>2. t[L!First(s, m)] = s[L!First(s, m)]
      BY <3>1, <1>3, <1>4, <1>8
    <3>3. QED
      <4>1. L!Entries(t, m) # {} /\ L!First(t, m) = L!First(s, m)
        BY <2>2, <1>5, <1>6, Zenon
      <4>2. L!Lookup(t, m) = t[L!First(s, m)][2] /\ L!Lookup(s, m) = s[L!First(s, m)][2]
        BY <4>1, <2>2, Zenon DEF L!Lookup
      <4>3. QED
        BY <4>2, <3>2, Zenon
  <2>3. QED
    BY <2>1, <2>2
<1>9. QED
  BY <1>4, <1>7, <1>8

\* The recursion of Without, one step at a time.
LEMMA WithoutSteps ==
  ASSUME NEW s \in Seq(L!Entry), NEW n
  PROVE  \E g \in [0..Len(s) -> Seq(L!Entry)] :
           /\ g[0] = <<>> /\ L!Without(s, n) = g[Len(s)]
           /\ \A k \in 1..Len(s) :
                g[k] = IF s[k][1] = n THEN g[k - 1] ELSE Append(g[k - 1], s[k])
<1> DEFINE V == Seq(L!Entry)
           step == [k \in 1..Len(s) |->
                      [w \in V |-> IF s[k][1] = n THEN w ELSE Append(w, s[k])]]
           Kept(f) == f = [k \in 0..Len(s) |->
                             IF k = 0 THEN <<>>
                             ELSE IF s[k][1] = n THEN f[k - 1] ELSE Append(f[k - 1], s[k])]
<1>1. Len(s) \in Nat /\ <<>> \in V
  OBVIOUS
<1>2. step \in [1..Len(s) -> [V -> V]]
  OBVIOUS
<1>3. PICK g \in [0..Len(s) -> V] :
        g[0] = <<>> /\ \A k \in 1..Len(s) : g[k] = step[k][g[k - 1]]
  <2>1. PICK v \in V, N \in Nat : v = <<>> /\ N = Len(s)
    BY <1>1
  <2>2. step \in [1..N -> [V -> V]]
    BY <1>2, <2>1
  <2> HIDE DEF step, V
  <2>3. \E g \in [0..N -> V] : g[0] = v /\ \A k \in 1..N : g[k] = step[k][g[k - 1]]
    BY <2>2, RecursionExists
  <2>4. QED
    BY <2>1, <2>3, Zenon
<1>4. Kept(g)
  <2>1. ASSUME NEW k \in 1..Len(s)
        PROVE  g[k] = IF s[k][1] = n THEN g[k - 1] ELSE Append(g[k - 1], s[k])
    <3>1. g[k - 1] \in V
      BY <1>3
    <3>2. g[k] = step[k][g[k - 1]]
      BY <1>3
    <3>3. QED
      BY <3>1, <3>2
  <2>2. \A k \in 0..Len(s) : k = 0 \/ k \in 1..Len(s)
    BY <1>1
  <2>3. QED
    BY <2>1, <2>2, <1>3, Zenon
<1>5. L!Without(s, n) = (CHOOSE f : Kept(f))[Len(s)]
  BY DEF L!Without
<1>6. PICK h : Kept(h) /\ L!Without(s, n) = h[Len(s)]
  <2> HIDE DEF Kept
  <2>1. QED
    BY <1>4, <1>5
<1>7. /\ h = [k \in 0..Len(s) |-> h[k]] /\ h[0] = <<>>
      /\ \A k \in 1..Len(s) : h[k] = IF s[k][1] = n THEN h[k - 1] ELSE Append(h[k - 1], s[k])
  <2>1. \A k \in 1..Len(s) : k # 0 /\ k \in 0..Len(s)
    BY <1>1
  <2>2. 0 \in 0..Len(s)
    BY <1>1
  <2>3. QED
    BY <2>1, <2>2, <1>6, Zenon
<1>8. ASSUME NEW k \in 1..Len(s), h[k - 1] \in V PROVE h[k] \in V
  <2>1. s[k] \in L!Entry
    OBVIOUS
  <2>2. Append(h[k - 1], s[k]) \in V
    BY <2>1, <1>8, AppendProperties
  <2>3. QED
    BY <2>2, <1>7, <1>8, Zenon
<1>9. \A k \in 0..Len(s) : h[k] \in V
  <2> HIDE DEF V
  <2>1. QED
    BY <1>1, <1>7, <1>8, RecursionType
<1>10. h \in [0..Len(s) -> V]
  BY <1>7, <1>9, Zenon
<1>11. QED
  BY <1>6, <1>7, <1>10, Zenon

\* unsetenv takes away all entries of a name and changes what is found under no
\* other.
LEMMA LookupWithout ==
  ASSUME NEW s \in Seq(L!Entry), NEW n
  PROVE  /\ L!Without(s, n) \in Seq(L!Entry)
         /\ L!Lookup(L!Without(s, n), n) = "null"
         /\ \A m : m # n => L!Lookup(L!Without(s, n), m) = L!Lookup(s, m)
<1>1. PICK g \in [0..Len(s) -> Seq(L!Entry)] :
        /\ g[0] = <<>> /\ L!Without(s, n) = g[Len(s)]
        /\ \A k \in 1..Len(s) : g[k] = IF s[k][1] = n THEN g[k - 1] ELSE Append(g[k - 1], s[k])
  BY WithoutSteps
<1> DEFINE P(k) == SubSeq(s, 1, k)
           Same(k) ==
             /\ L!Entries(g[k], n) = {}
             /\ \A m : m # n => /\ L!Entries(g[k], m) = {} <=> L!Entries(P(k), m) = {}
                                /\ L!Lookup(g[k], m) = L!Lookup(P(k), m)
           S == {k \in Nat : k <= Len(s) => Same(k)}
<1>2. Len(s) \in Nat
  OBVIOUS
<1>3. 0 \in S
  <2>1. P(0) = <<>>
    BY <1>2
  <2>2. \A m : L!Entries(<<>>, m) = {}
    BY DEF L!Entries
  <2>3. Same(0)
    BY <2>1, <2>2, <1>1 DEF L!Lookup
  <2>4. QED
    BY <2>3
<1>4. ASSUME NEW k \in Nat, k \in S PROVE k + 1 \in S
  <2> SUFFICES ASSUME k + 1 <= Len(s) PROVE Same(k + 1)
    OBVIOUS
  <2>1. PICK a, b : a = P(k) /\ b = g[k]
    OBVIOUS
  <2>2. PICK x \in EnvNames, v \in EnvValues : s[k + 1] = <<x, v>>
    <3>1. s[k + 1] \in L!Entry
      BY <1>2
    <3>2. QED
      BY <3>1 DEF L!Entry
  <2>3. a \in Seq(L!Entry) /\ b \in Seq(L!Entry) /\ P(k + 1) = Append(a, <<x, v>>)
    <3>1. b \in Seq(L!Entry)
      BY <2>1, <1>1, <1>2
    <3>2. a \in Seq(L!Entry) /\ P(k + 1) = Append(a, s[k + 1])
      BY <2>1, <1>2
    <3>3. QED
      BY <3>1, <3>2, <2>2
  <2>4. g[k + 1] = IF x = n THEN b ELSE Append(b, <<x, v>>)
    <3>1. k + 1 \in 1..Len(s) /\ (k + 1) - 1 = k
      BY <1>2
    <3>2. g[k + 1] = IF s[k + 1][1] = n THEN g[k] ELSE Append(g[k], s[k + 1])
      BY <3>1, <1>1
    <3>3. s[k + 1][1] = x
      BY <2>2
    <3>4. QED
      BY <3>2, <3>3, <2>1, <2>2, Zenon
  <2>5. /\ L!Entries(b, n) = {}
        /\ \A m : m # n => /\ L!Entries(b, m) = {} <=> L!Entries(a, m) = {}
                           /\ L!Lookup(b, m) = L!Lookup(a, m)
    <3>1. Same(k)
      <4> HIDE DEF Same
      <4>1. QED
        BY <1>4, <1>2
    <3>2. QED
      BY <3>1, <2>1, Zenon
  <2> HIDE DEF P
  <2>6. \A w \in {a, b} : \A m :
          /\ L!Entries(w, m) # {} =>
               /\ L!Entries(Append(w, <<x, v>>), m) # {}
               /\ L!Lookup(Append(w, <<x, v>>), m) = L!Lookup(w, m)
          /\ L!Entries(w, m) = {} /\ m = x =>
               /\ L!Entries(Append(w, <<x, v>>), m) # {}
               /\ L!Lookup(Append(w, <<x, v>>), m) = v
          /\ L!Entries(w, m) = {} /\ m # x => L!Entries(Append(w, <<x, v>>), m) = {}
    <3> SUFFICES ASSUME NEW w \in {a, b}, NEW m
                 PROVE  /\ L!Entries(w, m) # {} =>
                             /\ L!Entries(Append(w, <<x, v>>), m) # {}
                             /\ L!Lookup(Append(w, <<x, v>>), m) = L!Lookup(w, m)
                        /\ L!Entries(w, m) = {} /\ m = x =>
                             /\ L!Entries(Append(w, <<x, v>>), m) # {}
                             /\ L!Lookup(Append(w, <<x, v>>), m) = v
                        /\ L!Entries(w, m) = {} /\ m # x =>
                             L!Entries(Append(w, <<x, v>>), m) = {}
      BY Zenon
    <3>1. w \in Seq(L!Entry)
      BY <2>3
    <3>2. QED
      BY <3>1, LookupAppend
  <2>7. \A t, m : L!Entries(t, m) = {} => L!Lookup(t, m) = "null"
    BY Zenon DEF L!Lookup
  <2>8. CASE x = n
    <3>1. g[k + 1] = b
      BY <2>4, <2>8
    <3>2. ASSUME NEW m, m # n
          PROVE  /\ L!Entries(Append(a, <<x, v>>), m) = {} <=> L!Entries(a, m) = {}
                 /\ L!Lookup(Append(a, <<x, v>>), m) = L!Lookup(a, m)
      BY <2>6, <2>7, <2>8, <3>2, Zenon
    <3>3. QED
      BY <3>1, <3>2, <2>3, <2>5, Zenon
  <2>9. CASE x # n
    <3>1. g[k + 1] = Append(b, <<x, v>>)
      BY <2>4, <2>9
    <3>2. L!Entries(Append(b, <<x, v>>), n) = {}
      BY <2>5, <2>6, <2>9, Zenon
    <3>3. ASSUME NEW m, m # n
          PROVE  /\ L!Entries(Append(b, <<x, v>>), m) = {}
                      <=> L!Entries(Append(a, <<x, v>>), m) = {}
                 /\ L!Lookup(Append(b, <<x, v>>), m) = L!Lookup(Append(a, <<x, v>>), m)
      <4>1. /\ L!Entries(b, m) = {} <=> L!Entries(a, m) = {}
            /\ L!Lookup(b, m) = L!Lookup(a, m)
        BY <2>5, <3>3, Zenon
      <4>2. QED
        BY <4>1, <2>6, <2>7, Zenon
    <3>4. QED
      BY <3>1, <3>2, <3>3, <2>3, Zenon
  <2>10. QED
    BY <2>8, <2>9
<1>5. Same(Len(s))
  <2>1. Nat \subseteq S
    <3> HIDE DEF S
    <3>1. QED
      BY <1>3, <1>4, SetInduction
  <2> HIDE DEF Same
  <2>2. QED
    BY <2>1, <1>2
<1>6. P(Len(s)) = s
  OBVIOUS
<1>7. L!Without(s, n) \in Seq(L!Entry)
  BY <1>1, <1>2
<1>8. QED
  BY <1>1, <1>5, <1>6, <1>7, Zenon DEF L!Lookup

\* What getenv finds in the present array is what each name was last set to.
EnvRecorded == last = [n \in EnvNames |-> L!Lookup(L!At(environ), n)]

LibcInv == ArraysRight /\ EnvRecorded

LEMMA LibcInit ==
  ASSUME L!LibcAssumption, L!Init
  PROVE  LibcInv
<1>1. PICK s \in Seq(L!Entry) :
        arrays = <<s>> /\ last = [n \in EnvNames |-> L!Lookup(s, n)]
  BY DEF L!LibcAssumption, L!Init
<1>2. environ = 1 /\ moved = {} /\ libc_pc = "relocate"
  BY DEF L!Init
<1>3. ArraysRight
  BY <1>1, <1>2 DEF L!Init, L!LibcAssumption, ArraysRight
<1>4. L!At(environ) = s
  BY <1>1, <1>2 DEF L!At
<1>5. QED
  BY <1>1, <1>3, <1>4 DEF LibcInv, EnvRecorded

\* What a step has left of the arrays, and where it has made environ point, is all
\* that the record depends on.
LEMMA RecordPrimed ==
  ASSUME NEW t, IF environ' = 0 THEN t = <<>> ELSE t = arrays'[environ'],
         last' = [n \in EnvNames |-> L!Lookup(t, n)]
  PROVE  EnvRecorded'
<1>1. L!At(environ)' = t
  BY DEF L!At
<1>2. QED
  BY <1>1 DEF EnvRecorded, L!Lookup, L!First, L!Entries

\* The array that environ points to.
LEMMA PresentArray ==
  ASSUME ArraysRight
  PROVE  /\ L!At(environ) \in Seq(L!Entry)
         /\ environ # 0 => environ \in 1..Len(arrays) /\ L!At(environ) = arrays[environ]
<1>1. CASE environ = 0
  BY <1>1 DEF L!At
<1>2. CASE environ # 0
  <2>1. environ \in 1..Len(arrays) /\ arrays \in Seq(Seq(L!Entry))
    BY <1>2 DEF ArraysRight
  <2>2. arrays[environ] \in Seq(L!Entry)
    BY <2>1, ElementOfSeq
  <2>3. QED
    BY <2>1, <2>2, <1>2 DEF L!At
<1>3. QED
  BY <1>1, <1>2

\* A new array behind the others.
LEMMA AppendArray ==
  ASSUME ArraysRight, NEW t \in Seq(L!Entry)
  PROVE  /\ Append(arrays, t) \in Seq(Seq(L!Entry)) /\ Append(arrays, t) # <<>>
         /\ Len(Append(arrays, t)) = Len(arrays) + 1 /\ Len(arrays) + 1 \in Nat \ {0}
         /\ Append(arrays, t)[Len(arrays) + 1] = t
<1>1. PICK S : S = Seq(L!Entry)
  OBVIOUS
<1>2. arrays \in Seq(S) /\ t \in S
  BY <1>1 DEF ArraysRight
<1>3. QED
  BY <1>1, <1>2, AppendProperties

\* An array changed in its place.
LEMMA ReplaceArray ==
  ASSUME ArraysRight, NEW t \in Seq(L!Entry), environ # 0,
         arrays' = [arrays EXCEPT ![environ] = t]
  PROVE  /\ arrays' \in Seq(Seq(L!Entry)) /\ arrays' # <<>> /\ Len(arrays') = Len(arrays)
         /\ arrays'[environ] = t
<1>1. PICK S : S = Seq(L!Entry)
  OBVIOUS
<1>2. arrays \in Seq(S) /\ t \in S /\ environ \in 1..Len(arrays)
  BY <1>1 DEF ArraysRight
<1>3. PICK u : u = [arrays EXCEPT ![environ] = t]
  OBVIOUS
<1>4. u \in Seq(S) /\ Len(u) = Len(arrays) /\ u[environ] = t
  BY <1>2, <1>3
<1>5. u # <<>>
  BY <1>2, <1>4
<1>6. QED
  BY <1>1, <1>3, <1>4, <1>5

LEMMA PutKeeps ==
  ASSUME LibcInv, NEW n \in EnvNames, NEW v \in EnvValues, L!Changing, L!Put(n, v)
  PROVE  LibcInv'
<1>1. PICK s : s = L!At(environ)
  OBVIOUS
<1>2. s \in Seq(L!Entry) /\ last = [m \in EnvNames |-> L!Lookup(s, m)]
  BY <1>1, PresentArray DEF LibcInv, EnvRecorded
<1>3. /\ libc_pc # "relocate" /\ UNCHANGED <<libc_pc, binding, own>>
      /\ last' = [last EXCEPT ![n] = v]
  BY DEF L!Changing, L!Running, L!Put
<1>4. CASE L!Entries(s, n) # {}
  <2>1. environ # 0
    BY <1>1, <1>4 DEF L!At, L!Entries
  <2>2. s = arrays[environ] /\ environ \in 1..Len(arrays)
    BY <1>1, <2>1, PresentArray DEF LibcInv
  <2>3. PICK t : t = Replaced(s, n, v)
    OBVIOUS
  <2>4. /\ arrays' = [arrays EXCEPT ![environ] = t] /\ environ' = environ /\ moved' = moved
    BY <1>1, <1>4, <2>2, <2>3 DEF L!Put, Replaced
  <2>5. t \in Seq(L!Entry) /\ \A m : L!Lookup(t, m) = IF m = n THEN v ELSE L!Lookup(s, m)
    <3>1. ASSUME NEW m
          PROVE  t \in Seq(L!Entry) /\ L!Lookup(t, m) = IF m = n THEN v ELSE L!Lookup(s, m)
      BY <1>2, <1>4, <2>3, LookupReplace
    <3>2. QED
      BY <3>1, Zenon
  <2>6. /\ arrays' \in Seq(Seq(L!Entry)) /\ arrays' # <<>> /\ Len(arrays') = Len(arrays)
        /\ arrays'[environ] = t
    BY <2>1, <2>4, <2>5, ReplaceArray DEF LibcInv
  <2>7. ArraysRight'
    BY <2>2, <2>4, <2>6, <1>3 DEF LibcInv, ArraysRight
  <2>8. last' = [m \in EnvNames |-> L!Lookup(t, m)]
    BY <1>2, <1>3, <2>5
  <2>9. EnvRecorded'
    BY <2>1, <2>4, <2>6, <2>8, RecordPrimed
  <2>10. QED
    BY <2>7, <2>9 DEF LibcInv
<1>5. CASE L!Entries(s, n) = {}
  <2>1. PICK t : t = Append(s, <<n, v>>)
    OBVIOUS
  <2>2. /\ arrays' = Append(arrays, t) /\ environ' = Len(arrays) + 1
        /\ moved' = moved \cup {"added"}
    BY <1>1, <1>5, <2>1 DEF L!Put
  <2>3. /\ t \in Seq(L!Entry)
        /\ \A m : L!Lookup(t, m) = IF m = n THEN v ELSE L!Lookup(s, m)
    <3>1. t \in Seq(L!Entry)
      BY <2>1, <1>2, LookupAppend
    <3>2. L!Lookup(t, n) = v
      BY <2>1, <1>5, <1>2, LookupAppend
    <3>3. ASSUME NEW m, m # n PROVE L!Lookup(t, m) = L!Lookup(s, m)
      <4>1. /\ L!Entries(s, m) # {} =>
                 /\ L!Entries(Append(s, <<n, v>>), m) # {}
                 /\ L!Lookup(Append(s, <<n, v>>), m) = L!Lookup(s, m)
            /\ L!Entries(s, m) = {} /\ m # n => L!Entries(Append(s, <<n, v>>), m) = {}
        BY <1>2, LookupAppend
      <4>2. /\ L!Entries(s, m) # {} => L!Lookup(t, m) = L!Lookup(s, m)
            /\ L!Entries(s, m) = {} => L!Entries(t, m) = {}
        BY <4>1, <2>1, <3>3, Zenon
      <4>3. QED
        BY <4>2, Zenon DEF L!Lookup
    <3>4. QED
      BY <3>1, <3>2, <3>3, Zenon
  <2>4. /\ arrays' \in Seq(Seq(L!Entry)) /\ arrays' # <<>> /\ Len(arrays') = environ'
        /\ environ' \in Nat \ {0} /\ arrays'[environ'] = t
    BY <2>2, <2>3, AppendArray DEF LibcInv
  <2>5. ArraysRight'
    BY <2>2, <2>4, <1>3 DEF LibcInv, ArraysRight
  <2>6. last' = [m \in EnvNames |-> L!Lookup(t, m)]
    BY <1>2, <1>3, <2>3
  <2>7. EnvRecorded'
    BY <2>4, <2>6, RecordPrimed
  <2>8. QED
    BY <2>5, <2>7 DEF LibcInv
<1>6. QED
  BY <1>4, <1>5

LEMMA RemoveKeeps ==
  ASSUME LibcInv, NEW n \in EnvNames, L!Changing, L!Remove(n)
  PROVE  LibcInv'
<1>1. PICK s : s = L!At(environ)
  OBVIOUS
<1>2. s \in Seq(L!Entry) /\ last = [m \in EnvNames |-> L!Lookup(s, m)]
  BY <1>1, PresentArray DEF LibcInv, EnvRecorded
<1>3. /\ libc_pc # "relocate" /\ UNCHANGED <<libc_pc, binding, own, environ, moved>>
      /\ last' = [last EXCEPT ![n] = "null"] /\ L!Entries(s, n) # {}
  BY <1>1 DEF L!Changing, L!Running, L!Remove
<1>4. environ # 0
  BY <1>1, <1>3 DEF L!At, L!Entries
<1>5. s = arrays[environ] /\ environ \in 1..Len(arrays)
  BY <1>1, <1>4, PresentArray DEF LibcInv
<1>6. PICK t : t = L!Without(s, n)
  OBVIOUS
<1>7. arrays' = [arrays EXCEPT ![environ] = t]
  BY <1>5, <1>6 DEF L!Remove
<1>8. /\ t \in Seq(L!Entry)
      /\ \A m : L!Lookup(t, m) = IF m = n THEN "null" ELSE L!Lookup(s, m)
  BY <1>2, <1>6, LookupWithout
<1>9. /\ arrays' \in Seq(Seq(L!Entry)) /\ arrays' # <<>> /\ Len(arrays') = Len(arrays)
      /\ arrays'[environ] = t
  BY <1>4, <1>7, <1>8, ReplaceArray DEF LibcInv
<1>10. ArraysRight'
  BY <1>3, <1>5, <1>9 DEF LibcInv, ArraysRight
<1>11. last' = [m \in EnvNames |-> L!Lookup(t, m)]
  BY <1>2, <1>3, <1>8
<1>12. EnvRecorded'
  BY <1>3, <1>4, <1>9, <1>11, RecordPrimed
<1>13. QED
  BY <1>10, <1>12 DEF LibcInv

LEMMA ClearenvKeeps ==
  ASSUME LibcInv, L!Clearenv
  PROVE  LibcInv'
<1>1. /\ libc_pc # "relocate" /\ UNCHANGED <<libc_pc, binding, own, arrays>>
      /\ environ' = 0 /\ moved' = moved \cup {"cleared"}
      /\ last' = [n \in EnvNames |-> "null"]
  BY DEF L!Clearenv, L!Changing, L!Running
<1>2. ArraysRight'
  BY <1>1 DEF LibcInv, ArraysRight
<1>3. \A n : L!Lookup(<<>>, n) = "null"
  BY DEF L!Lookup, L!Entries
<1>4. last' = [n \in EnvNames |-> L!Lookup(<<>>, n)]
  BY <1>1, <1>3
<1>5. PICK t : t = <<>>
  OBVIOUS
<1>6. EnvRecorded'
  BY <1>1, <1>4, <1>5, RecordPrimed
<1>7. QED
  BY <1>2, <1>6 DEF LibcInv

LEMMA AssignKeeps ==
  ASSUME L!LibcAssumption, LibcInv, L!AssignEnviron
  PROVE  LibcInv'
<1>1. /\ libc_pc # "relocate" /\ UNCHANGED <<libc_pc, binding>>
      /\ moved' = moved \cup {"assigned"}
  BY DEF L!AssignEnviron, L!Changing, L!Running
<1>2. PICK s \in Seq(L!Entry) :
        /\ arrays' = Append(arrays, s)
        /\ \/ environ' = Len(arrays) + 1 /\ last' = [n \in EnvNames |-> L!Lookup(s, n)]
           \/ UNCHANGED <<environ, last>>
  BY DEF L!AssignEnviron, L!LibcAssumption
<1>3. /\ arrays' \in Seq(Seq(L!Entry)) /\ arrays' # <<>> /\ Len(arrays') = Len(arrays) + 1
      /\ Len(arrays) + 1 \in Nat \ {0} /\ arrays'[Len(arrays) + 1] = s
  BY <1>2, AppendArray DEF LibcInv
<1>4. Len(arrays) \in Nat /\ environ \in 0..Len(arrays)
  BY DEF LibcInv, ArraysRight
<1>5. ArraysRight'
  BY <1>1, <1>2, <1>3, <1>4 DEF LibcInv, ArraysRight
<1>6. EnvRecorded'
  <2>1. CASE environ' = Len(arrays) + 1 /\ last' = [n \in EnvNames |-> L!Lookup(s, n)]
    BY <2>1, <1>3, RecordPrimed
  <2>2. CASE UNCHANGED <<environ, last>>
    <3>1. PICK t : t = L!At(environ)
      OBVIOUS
    <3>2. IF environ = 0 THEN t = <<>> ELSE t = arrays'[environ]
      <4>1. PICK S : S = Seq(L!Entry)
        OBVIOUS
      <4>2. arrays \in Seq(S) /\ s \in S
        BY <4>1 DEF LibcInv, ArraysRight
      <4>3. \A k \in 1..Len(arrays) : Append(arrays, s)[k] = arrays[k]
        BY <4>2, AppendProperties
      <4>4. QED
        BY <4>3, <3>1, <1>2, <1>4 DEF L!At
    <3>3. last' = [n \in EnvNames |-> L!Lookup(t, n)]
      BY <3>1, <2>2 DEF LibcInv, EnvRecorded
    <3>4. QED
      BY <3>2, <3>3, <2>2, RecordPrimed
  <2>3. QED
    BY <2>1, <2>2, <1>2
<1>7. QED
  BY <1>5, <1>6 DEF LibcInv

LEMMA LibcStep ==
  ASSUME L!LibcAssumption, LibcInv, [L!Next]_L!vars
  PROVE  LibcInv'
<1>1. CASE L!Setenv
  <2>1. PICK n \in EnvNames, v \in EnvValues :
          L!Put(n, v) \/ UNCHANGED <<arrays, environ, own, moved, last>>
    BY <1>1 DEF L!Setenv
  <2>2. L!Changing
    BY <1>1 DEF L!Setenv
  <2>3. CASE L!Put(n, v)
    BY <2>2, <2>3, PutKeeps
  <2>4. CASE UNCHANGED <<arrays, environ, own, moved, last>>
    BY <2>2, <2>4 DEF L!Changing, LibcInv, ArraysRight, EnvRecorded, L!At, L!Lookup, L!First,
                      L!Entries
  <2>5. QED
    BY <2>1, <2>3, <2>4
<1>2. CASE L!Putenv
  BY <1>2, PutKeeps, RemoveKeeps DEF L!Putenv
<1>3. CASE L!Unsetenv
  BY <1>3, RemoveKeeps DEF L!Unsetenv
<1>4. CASE L!Clearenv
  BY <1>4, ClearenvKeeps
<1>5. CASE L!AssignEnviron
  BY <1>5, AssignKeeps
<1>6. CASE L!Relocate
  <2>1. /\ libc_pc = "relocate" /\ libc_pc' = "ctors"
        /\ UNCHANGED <<arrays, environ, binding, moved, last>>
        /\ own' = IF binding = "COPY" THEN environ ELSE own
    BY <1>6 DEF L!Relocate, L!Copied
  <2>2. ArraysRight'
    BY <2>1 DEF LibcInv, ArraysRight
  <2>3. EnvRecorded'
    BY <2>1 DEF LibcInv, EnvRecorded, L!At, L!Lookup, L!First, L!Entries
  <2>4. QED
    BY <2>2, <2>3 DEF LibcInv
<1>7. CASE L!CtorReturns \/ L!StartMain \/ L!Exit \/ L!Call \/ UNCHANGED L!vars
  <2>1. /\ UNCHANGED <<arrays, environ, binding, own, moved, last>>
        /\ libc_pc' = "relocate" <=> libc_pc = "relocate"
    BY <1>7 DEF L!CtorReturns, L!StartMain, L!Exit, L!Call, L!Running, L!vars
  <2>2. QED
    BY <2>1 DEF LibcInv, ArraysRight, EnvRecorded, L!At, L!Lookup, L!First, L!Entries
<1>8. QED
  BY <1>1, <1>2, <1>3, <1>4, <1>5, <1>6, <1>7 DEF L!Next

THEOREM LibcInvariant == L!Spec => []LibcInv
<1>1. L!Init => LibcInv
  BY LibcInit, LibcTableAssumption
<1>2. LibcInv /\ [L!Next]_L!vars => LibcInv'
  BY LibcStep, LibcTableAssumption
<1>3. QED
  BY <1>1, <1>2, PTL DEF L!Spec

\* SeesChanges of LibcTable: through environ the program finds under every name what
\* was last set, by setenv, putenv, unsetenv, clearenv or a store into environ, in any
\* number and order; with R_X86_64_COPY until environ or its copy has moved.
THEOREM CopySeesUntilMoved == L!Spec => []SeesChanges
<1>1. LibcInv => SeesChanges
  <2> SUFFICES ASSUME LibcInv, libc_pc # "relocate", binding = "GLOB_DAT" \/ moved = {},
                      NEW n \in EnvNames
               PROVE  L!Lookup(L!At(L!View), n) = last[n]
    BY DEF SeesChanges, L!SeesChanges
  <2>1. L!View = environ
    BY DEF LibcInv, ArraysRight, L!View
  <2>2. QED
    BY <2>1 DEF LibcInv, EnvRecorded
<1>2. QED
  BY <1>1, LibcInvariant, PTL

\* MainEnvCurrent of LibcTable: whatever constructors do to the environment, however
\* many of them, in main's third argument every name has the value of that moment,
\* and it is a null pointer only after clearenv.
THEOREM MainGetsPresentEnv == L!Spec => MainEnvCurrent
<1>1. ASSUME LibcInv, [L!Next]_L!vars
      PROVE  [libc_pc' = "main" /\ libc_pc # "main" =>
                /\ \A n \in EnvNames : L!Lookup(L!At(envp'), n) = last[n]
                /\ envp' = 0 => "cleared" \in moved]_L!vars
  <2> SUFFICES ASSUME L!Next, libc_pc' = "main", libc_pc # "main"
               PROVE  /\ \A n \in EnvNames : L!Lookup(L!At(envp'), n) = last[n]
                      /\ envp' = 0 => "cleared" \in moved
    BY <1>1
  <2>1. L!StartMain
    BY DEF L!Next, L!Relocate, L!CtorReturns, L!StartMain, L!Exit, L!Setenv, L!Putenv,
           L!Unsetenv, L!Clearenv, L!AssignEnviron, L!Changing, L!Call
  <2>2. envp' = environ
    BY <2>1 DEF L!StartMain, L!MainEnvp
  <2>3. QED
    BY <1>1, <2>2 DEF LibcInv, ArraysRight, EnvRecorded
<1>2. QED
  BY <1>1, LibcInvariant, PTL DEF L!Spec, MainEnvCurrent, L!MainEnvCurrent

=============================================================================
