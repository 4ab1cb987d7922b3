------------------------------ MODULE MCEntry ------------------------------
(***************************************************************************)
(* The instances of ProgramEntry that TLC checks.                          *)
(***************************************************************************)
EXTENDS ProgramEntry

CONSTANT Parts    \* "stack", "libc": what is checked

ASSUME Parts \subseteq {"stack", "libc"}

-----------------------------------------------------------------------------
\* InitialStack with up to three arguments and environment entries.  A string is
\* a number above every argc, type and value.

MCStr == {101, 102}
MCAuxTypes == <<6, 11, 25>>   \* AT_PAGESZ, AT_UID, AT_RANDOM
MCAuxVals == [{6, 11, 25} -> {0, 77}]

-----------------------------------------------------------------------------
\* LibcTable with every environment of at most two entries; a name may be there
\* twice.

MCEnvs == BoundedSeq(EnvNames \X EnvValues, 2)

-----------------------------------------------------------------------------
\* A part that does not run has one of its initial states.
EntryInit ==
  /\ part \in Parts
  /\ part # "stack" => args = <<101>> /\ envs = <<>> /\ auxval = [t \in {6, 11, 25} |-> 0]
  /\ part # "libc" => ctors = 0 /\ arrays = << <<>> >> /\ binding = "GLOB_DAT"
  /\ Init /\ L!Init

EntrySpec == EntryInit /\ [][EntryNext]_<<part, vars, libc>>

=============================================================================
