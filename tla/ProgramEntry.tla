---------------------------- MODULE ProgramEntry ----------------------------
(***************************************************************************)
(* What the program finds when it is entered: the stack that Execute has   *)
(* built, and the C library of sloader's table with its environment.  The  *)
(* two share no state: a behaviour is one of either, the part, while the   *)
(* other stays where it starts.                                            *)
(***************************************************************************)
EXTENDS InitialStack

CONSTANTS  \* see LibcTable
  Callees, Bindings, EnvNames, EnvValues, Envs, MaxCtors, MaxSets

VARIABLES
  part,
  libc_pc, ctors, arrays, environ, binding, own, envp, sets, moved, last

libc == <<libc_pc, ctors, arrays, environ, binding, own, envp, sets, moved, last>>

L == INSTANCE LibcTable WITH pc <- libc_pc

ASSUME LibcTableAssumption == L!LibcAssumption

EntryNext ==
  \/ part = "stack" /\ Next /\ UNCHANGED <<part, libc>>
  \/ part = "libc" /\ L!Next /\ UNCHANGED <<part, vars>>

-----------------------------------------------------------------------------
(***************************************************************************)
(*                              Properties                                 *)
(***************************************************************************)

\* Of LibcTable: which programs see changes of the environment, and until when.
SeesChanges == L!SeesChanges

\* Of LibcTable: a call by a name of the table runs code.
CallsArrive == L!CallsArrive

\* Of LibcTable: the environment main is given is the one of that moment.
MainEnvCurrent == L!MainEnvCurrent

=============================================================================
