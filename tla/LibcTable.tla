------------------------------ MODULE LibcTable ------------------------------
(***************************************************************************)
(* The C library as the loaded program meets it.  The loader binds every   *)
(* name of sloader_libc_map to sloader's own C library, and copies eight   *)
(* bytes where the program has an R_X86_64_COPY.  Constructors and main    *)
(* then call by these names, change the environment through them, and read *)
(* environ through what it was bound to.                                   *)
(***************************************************************************)
EXTENDS Integers, Sequences

CONSTANTS
  Callees,   \* names of the table that the program calls
  Bindings,  \* how it may be linked to environ: "GLOB_DAT", "COPY"
  EnvNames, EnvValues,
  Envs,      \* what the environment may be at the start
  MaxCtors,  \* bound: constructors
  MaxSets    \* bound: changes of the environment

Entry == EnvNames \X EnvValues

LibcAssumption ==
  /\ Bindings \subseteq {"GLOB_DAT", "COPY"}
  /\ Envs \subseteq Seq(Entry)
  /\ MaxCtors \in Nat /\ MaxSets \in Nat

-----------------------------------------------------------------------------
(***************************************************************************)
(*                     The table: what a name is bound to                  *)
(***************************************************************************)

\* Variables that hold the address of a function: const void* (*memchr_c)(...) =
\* memchr, and its like.
Casts == {"memchr_c", "modf_c"}

\* Functions that libc_mapping.cc defines in place of such a variable, and with
\* DEFINE_DUMMY_FUN.
Wrappers == {"wcschr_c"}
Dummies  == {"sloader___gmon_start__"}

\* The entries of sloader_libc_map, one name for each of their forms: what the
\* initialiser names and whether it has an &.  First "sloader dummy functions", then
\* "libc functions".
DummyEntries == [__gmon_start__ |-> [amp |-> TRUE, of |-> "sloader___gmon_start__"]]
LibcEntries ==
  [access |-> [amp |-> TRUE,  of |-> "access"],
   wcschr |-> [amp |-> TRUE,  of |-> "wcschr_c"],
   memchr |-> [amp |-> FALSE, of |-> "memchr_c"],
   modf   |-> [amp |-> TRUE,  of |-> "modf_c"]]

sloader_libc_map(n) == IF n \in DOMAIN DummyEntries THEN DummyEntries[n] ELSE LibcEntries[n]

\* Whatever the initialiser is, it is cast to Elf64_Addr.  A function and the value
\* of a variable lead to code, the address of a variable does not.
Functions == {"access"} \cup Wrappers \cup Dummies
IsCode(n) ==
  LET e == sloader_libc_map(n) IN e.of \in Functions \/ (e.of \in Casts /\ ~e.amp)

-----------------------------------------------------------------------------
VARIABLES
  pc,
  ctors,    \* constructors still to be called
  arrays,   \* the arrays that have been an environment, in their order
  environ,  \* environ of sloader's C library: an index into arrays, 0 for NULL
  binding,  \* how the program is linked to environ
  own,      \* the program's copy of environ
  envp,     \* what main was given
  sets,     \* changes of the environment
  moved,    \* how environ, or the program's copy, came to point elsewhere (history)
  last      \* what each name was last set to, by anyone (history)

vars == <<pc, ctors, arrays, environ, binding, own, envp, sets, moved, last>>

\* getenv: the first entry of a name counts.
Entries(s, n) == {k \in DOMAIN s : s[k][1] = n}
First(s, n)   == CHOOSE k \in Entries(s, n) : \A j \in Entries(s, n) : k <= j
Lookup(s, n)  == IF Entries(s, n) = {} THEN "null" ELSE s[First(s, n)][2]

\* A null pointer is an environment without entries.
At(p) == IF p = 0 THEN <<>> ELSE arrays[p]

Init ==
  /\ pc = "relocate"
  /\ ctors \in 0..MaxCtors
  /\ \E s \in Envs : arrays = <<s>> /\ last = [n \in EnvNames |-> Lookup(s, n)]
  /\ environ = 1
  /\ binding \in Bindings
  /\ own = 0
  /\ envp = 0
  /\ sets = 0
  /\ moved = {}

\* Mutant of Copied: the memcpy is missing.
CopiedNot == own

\* memcpy(dest, src, 8): the pointer, not what it points to
Copied == IF binding = "COPY" THEN environ ELSE own

Relocate ==
  /\ pc = "relocate"
  /\ pc' = "ctors"
  /\ own' = Copied
  /\ UNCHANGED <<ctors, arrays, environ, binding, envp, sets, moved, last>>

CtorReturns ==
  /\ pc = "ctors" /\ ctors > 0
  /\ ctors' = ctors - 1
  /\ UNCHANGED <<pc, arrays, environ, binding, own, envp, sets, moved, last>>

\* Mutant of MainEnvp: the environment of the start.
MainEnvpFirst == 1

\* exit(main(argc, argv, __environ))
MainEnvp == environ
StartMain ==
  /\ pc = "ctors" /\ ctors = 0
  /\ pc' = "main"
  /\ envp' = MainEnvp
  /\ UNCHANGED <<ctors, arrays, environ, binding, own, sets, moved, last>>

Exit ==
  /\ pc = "main"
  /\ pc' = "exited"
  /\ UNCHANGED <<ctors, arrays, environ, binding, own, envp, sets, moved, last>>

-----------------------------------------------------------------------------
\* Code of the program is running, and may change the environment once more.
Running  == pc = "main" \/ (pc = "ctors" /\ ctors > 0)
Changing ==
  /\ Running /\ sets < MaxSets
  /\ sets' = sets + 1
  /\ UNCHANGED <<pc, ctors, binding, envp>>

\* An entry that is there is replaced in place; for a new one there is a new,
\* larger array.
Put(n, v) ==
  /\ last' = [last EXCEPT ![n] = v]
  /\ \/ /\ Entries(At(environ), n) # {}
        /\ arrays' = [arrays EXCEPT ![environ] = [@ EXCEPT ![First(@, n)] = <<n, v>>]]
        /\ UNCHANGED <<environ, moved>>
     \/ /\ Entries(At(environ), n) = {}
        /\ arrays' = Append(arrays, Append(At(environ), <<n, v>>))
        /\ environ' = Len(arrays) + 1
        /\ moved' = moved \cup {"added"}
  /\ UNCHANGED own

\* s without the entries of name n.
Without(s, n) ==
  LET kept[k \in 0..Len(s)] ==
        IF k = 0 THEN <<>> ELSE IF s[k][1] = n THEN kept[k - 1] ELSE Append(kept[k - 1], s[k])
  IN  kept[Len(s)]

\* The entries behind move up, in place.
Remove(n) ==
  /\ Entries(At(environ), n) # {}
  /\ last' = [last EXCEPT ![n] = "null"]
  /\ arrays' = [arrays EXCEPT ![environ] = Without(@, n)]
  /\ UNCHANGED <<environ, own, moved>>

\* setenv with and without overwrite
Setenv ==
  /\ Changing
  /\ \E n \in EnvNames, v \in EnvValues, overwrite \in BOOLEAN :
       \/ (overwrite \/ Entries(At(environ), n) = {}) /\ Put(n, v)
       \/ /\ ~overwrite /\ Entries(At(environ), n) # {}
          /\ UNCHANGED <<arrays, environ, own, moved, last>>

\* putenv("n=v") or putenv("n"); the string is not changed afterwards
Putenv ==
  /\ Changing
  /\ \E n \in EnvNames : Remove(n) \/ \E v \in EnvValues : Put(n, v)

Unsetenv == Changing /\ \E n \in EnvNames : Remove(n)

Clearenv ==
  /\ Changing
  /\ environ' = 0
  /\ last' = [n \in EnvNames |-> "null"]
  /\ moved' = moved \cup {"cleared"}
  /\ UNCHANGED <<arrays, own>>

\* The program stores another array into the environ that it is linked to.
AssignEnviron ==
  /\ Changing
  /\ \E s \in Envs :
       /\ arrays' = Append(arrays, s)
       /\ \/ /\ binding = "GLOB_DAT"
             /\ environ' = Len(arrays) + 1
             /\ last' = [n \in EnvNames |-> Lookup(s, n)]
             /\ UNCHANGED own
          \/ /\ binding = "COPY"
             /\ own' = Len(arrays) + 1
             /\ UNCHANGED <<environ, last>>
  /\ moved' = moved \cup {"assigned"}

\* A call by name; the bytes of a variable are not code.
Call ==
  /\ Running
  /\ \E n \in Callees : pc' = IF IsCode(n) THEN pc ELSE "trap"
  /\ UNCHANGED <<ctors, arrays, environ, binding, own, envp, sets, moved, last>>

Next ==
  \/ Relocate \/ CtorReturns \/ StartMain \/ Exit
  \/ Setenv \/ Putenv \/ Unsetenv \/ Clearenv \/ AssignEnviron \/ Call

Spec == Init /\ [][Next]_vars

-----------------------------------------------------------------------------
(***************************************************************************)
(*                              Properties                                 *)
(***************************************************************************)

\* What the program reads as environ.
View == IF binding = "COPY" THEN own ELSE environ

\* A program that walks environ finds under every name what was last set, by
\* whoever in the process: always if it is linked with GLOB_DAT, and with
\* R_X86_64_COPY as long as no name has been added, the environment has not been
\* cleared and the program has not stored into its environ.
SeesChanges ==
  pc # "relocate" /\ (binding = "GLOB_DAT" \/ moved = {}) =>
    \A n \in EnvNames : Lookup(At(View), n) = last[n]

\* In main's third argument every name has, when main starts, the value that a
\* constructor last gave it, or that of the start; it is not an array but a null
\* pointer only after a constructor has called clearenv.
MainEnvCurrent ==
  [][pc' = "main" /\ pc # "main" =>
       /\ \A n \in EnvNames : Lookup(At(envp'), n) = last[n]
       /\ envp' = 0 => "cleared" \in moved]_vars

\* A call by a name of the table runs code.
CallsArrive == pc # "trap"

=============================================================================
