---------------------------- MODULE InitialStack ----------------------------
(***************************************************************************)
(* The stack the loadee starts on.  Execute builds an array of words from  *)
(* the arguments, the environment and the auxiliary vector, upside down,   *)
(* with an index of its own and a size computed beforehand; ExecuteCore    *)
(* pushes it word by word and jumps, and the entry point reads it from the *)
(* stack pointer upwards.                                                  *)
(***************************************************************************)
EXTENDS Integers, Sequences, FiniteSets, SequencesExt

CONSTANTS
  Str,       \* arguments and environment entries (addresses of strings)
  AuxTypes,  \* aux_types, in its order
  Random,    \* AT_RANDOM
  AuxVals,   \* what the kernel may have put into the auxiliary vector
  MaxArgs,   \* bound: length of args
  MaxEnvs    \* bound: length of envs

Zero == 0    \* also the null pointer and AT_NULL

ASSUME StackAssumption ==
  /\ Zero \notin Str
  /\ AuxTypes \in Seq(Nat \ {Zero})
  /\ \A i, j \in DOMAIN AuxTypes : AuxTypes[i] = AuxTypes[j] => i = j
  /\ Random \in Range(AuxTypes)
  /\ AuxVals \subseteq [Range(AuxTypes) -> Nat]
  /\ MaxArgs \in Nat /\ MaxEnvs \in Nat

VARIABLES
  args, envs,   \* argv[1..] of sloader, and its environment
  auxval,       \* getauxval
  pc,           \* the loop that Execute is in
  i,            \* its index
  aux_tvs,      \* the pairs that are passed on
  stack,        \* the array; <<>> before it is allocated
  stack_index,
  pushed        \* what ExecuteCore has pushed, the stack pointer at the end

vars == <<args, envs, auxval, pc, i, aux_tvs, stack, stack_index, pushed>>

\* main passes sloader's own arguments on from the second: there is at least one.
Init ==
  /\ args \in UNION {[1..n -> Str] : n \in 1..MaxArgs}
  /\ envs \in UNION {[1..n -> Str] : n \in 0..MaxEnvs}
  /\ auxval \in AuxVals
  /\ pc = "aux"
  /\ i = 1
  /\ aux_tvs = <<>>
  /\ stack = <<>>
  /\ stack_index = 0
  /\ pushed = <<>>

\* A value of 0 is what getauxval returns for a type that is not there.
TakeAux(t) == IF auxval[t] # 0 THEN Append(aux_tvs, <<t, auxval[t]>>) ELSE aux_tvs

FilterAux ==
  /\ pc = "aux" /\ i <= Len(AuxTypes) /\ auxval[Random] # 0
  /\ aux_tvs' = TakeAux(AuxTypes[i])
  /\ i' = i + 1
  /\ UNCHANGED <<args, envs, auxval, pc, stack, stack_index, pushed>>

\* CHECK_NE(at_random, 0)
NoRandom ==
  /\ pc = "aux" /\ auxval[Random] = 0
  /\ pc' = "dead"
  /\ UNCHANGED <<args, envs, auxval, i, aux_tvs, stack, stack_index, pushed>>

\* Padding, 0 and AT_NULL, auxs, NULL, envs, NULL and argc, args.
StackNum == 4 + 2 + 2 * Len(aux_tvs) + 1 + Len(envs) + 2 + Len(args)

\* malloc and memset; the padding, the 0 and AT_NULL are zeros already.
Allocate ==
  /\ pc = "aux" /\ i > Len(AuxTypes) /\ auxval[Random] # 0
  /\ stack' = [k \in 1..StackNum |-> Zero]
  /\ stack_index' = 4 + 2
  /\ pc' = "auxs"
  /\ i' = 1
  /\ UNCHANGED <<args, envs, auxval, aux_tvs, pushed>>

\* *(stack + stack_index) = w; stack_index++.  The array starts at 1 here.
Put(w) ==
  /\ stack' = [stack EXCEPT ![stack_index + 1] = w]
  /\ stack_index' = stack_index + 1

\* The value lies above the type.
PutAux ==
  /\ pc = "auxs" /\ i <= Len(aux_tvs)
  /\ stack' = [stack EXCEPT ![stack_index + 1] = aux_tvs[i][2],
                            ![stack_index + 2] = aux_tvs[i][1]]
  /\ stack_index' = stack_index + 2
  /\ i' = i + 1
  /\ UNCHANGED <<args, envs, auxval, pc, aux_tvs, pushed>>

\* A loop is over; a null pointer ends envp and argv.
Terminator(from, n, to) ==
  /\ pc = from /\ i > n
  /\ stack_index' = stack_index + 1
  /\ pc' = to
  /\ i' = 1
  /\ UNCHANGED <<args, envs, auxval, aux_tvs, stack, pushed>>

AuxsDone == Terminator("auxs", Len(aux_tvs), "envs")

\* Mutant of PutEnv: in the order of envs.
PutEnvForward ==
  /\ pc = "envs" /\ i <= Len(envs)
  /\ Put(envs[i])
  /\ i' = i + 1
  /\ UNCHANGED <<args, envs, auxval, pc, aux_tvs, pushed>>

PutEnv ==
  /\ pc = "envs" /\ i <= Len(envs)
  /\ Put(envs[Len(envs) + 1 - i])
  /\ i' = i + 1
  /\ UNCHANGED <<args, envs, auxval, pc, aux_tvs, pushed>>

EnvsDone == Terminator("envs", Len(envs), "args")

PutArg ==
  /\ pc = "args" /\ i <= Len(args)
  /\ Put(args[Len(args) + 1 - i])
  /\ i' = i + 1
  /\ UNCHANGED <<args, envs, auxval, pc, aux_tvs, pushed>>

PutArgc ==
  /\ pc = "args" /\ i > Len(args)
  /\ Put(Len(args))
  /\ pc' = "check"
  /\ UNCHANGED <<args, envs, auxval, i, aux_tvs, pushed>>

\* CHECK_EQ(stack_index, stack_num)
CheckNum ==
  /\ pc = "check"
  /\ pc' = IF stack_index = StackNum THEN "push" ELSE "dead"
  /\ i' = 1
  /\ UNCHANGED <<args, envs, auxval, aux_tvs, stack, stack_index, pushed>>

Push ==
  /\ pc = "push" /\ i <= StackNum
  /\ pushed' = Append(pushed, stack[i])
  /\ i' = i + 1
  /\ UNCHANGED <<args, envs, auxval, pc, aux_tvs, stack, stack_index>>

Jump ==
  /\ pc = "push" /\ i > StackNum
  /\ pc' = "entered"
  /\ UNCHANGED <<args, envs, auxval, i, aux_tvs, stack, stack_index, pushed>>

Next ==
  \/ FilterAux \/ NoRandom \/ Allocate \/ PutAux \/ AuxsDone \/ PutEnv \/ EnvsDone
  \/ PutArg \/ PutArgc \/ CheckNum \/ Push \/ Jump

Spec == Init /\ [][Next]_vars

-----------------------------------------------------------------------------
(***************************************************************************)
(*                              Properties                                 *)
(***************************************************************************)

\* The stack as the entry point sees it.
Seen == Reverse(pushed)

\* The type at position k of the auxiliary vector that the loadee reads; it
\* stops at AT_NULL.
SeenAux(k) == Seen[Len(args) + Len(envs) + 3 + 2 * k - 1]
Looked(t) == {k \in 1..Len(aux_tvs) + 1 : SeenAux(k) = t /\
                                          \A j \in 1..k - 1 : SeenAux(j) # Zero}

\* The process entry of the ABI: argc, the arguments in order, null, the
\* environment in order, null, and an auxiliary vector in which the loadee finds,
\* for every type that sloader knows, what the kernel gave to sloader, and nothing
\* where that was 0 or missing.  The array is never written outside the size that
\* was computed beforehand, and the CHECK on it never fails.
AbiStack ==
  /\ stack_index <= Len(stack)
  /\ pc = "dead" => auxval[Random] = 0
  /\ pc = "entered" =>
       LET n == Len(args) e == Len(envs) IN
         /\ Len(Seen) = n + e + 3 + 2 * Len(aux_tvs) + 6
         /\ Seen[1] = n /\ \A k \in 1..n : Seen[1 + k] = args[k]
         /\ Seen[n + 2] = Zero /\ \A k \in 1..e : Seen[n + 2 + k] = envs[k]
         /\ Seen[n + e + 3] = Zero
         /\ SeenAux(Len(aux_tvs) + 1) = Zero
         /\ \A t \in Range(AuxTypes) :
              {Seen[n + e + 3 + 2 * k] : k \in Looked(t)} =
                IF auxval[t] = 0 THEN {} ELSE {auxval[t]}

=============================================================================
