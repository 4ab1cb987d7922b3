---------------------------- MODULE FileReading ----------------------------
(***************************************************************************)
(* What sloader reads before it maps anything: PATH and the type of the    *)
(* program, ld.so.conf, the program headers of a file and its dynamic      *)
(* section.  The four share no state, so that a behaviour of this module   *)
(* is one of one of them, the part, while the others stay where they       *)
(* start.                                                                  *)
(***************************************************************************)
EXTENDS DynamicSection, FiniteSets

CONSTANTS
  PathDir, MaxPath,                                   \* see Startup
  Dir, Conf, Root, Foreign, Texts, MaxDepth,          \* see LdSoConf
  PageSize, MinSize, PhnumEnd, Byte, PhdrSize, Files  \* see ProgramHeaders

VARIABLES
  part,
  argv1, at, PATH, main_pc, str, path_dirs, dir_i, fullpath, dynloader,
  text, conf_pc, calls, res,
  class, elf, elf_pc, phdr_i, phdrs, dynamic, tls

main == <<argv1, at, PATH, main_pc, str, path_dirs, dir_i, fullpath, dynloader>>
conf == <<text, conf_pc, calls, res>>
elfs == <<class, elf, elf_pc, phdr_i, phdrs, dynamic, tls>>

S == INSTANCE Startup WITH Dir <- PathDir, pc <- main_pc, i <- dir_i
C == INSTANCE LdSoConf WITH pc <- conf_pc
P == INSTANCE ProgramHeaders WITH file <- elf, pc <- elf_pc, i <- phdr_i

ASSUME MainAssumption == S!StartupAssumption
ASSUME ReaderAssumption == C!ConfAssumption
ASSUME FilesAreFinite == IsFiniteSet(Conf)
ASSUME ElfAssumption == P!HeaderAssumption

FilesNext ==
  \/ part = "main" /\ S!Next /\ UNCHANGED <<part, conf, elfs, vars>>
  \/ part = "conf" /\ C!Next /\ UNCHANGED <<part, main, elfs, vars>>
  \/ part = "elf" /\ P!Next /\ UNCHANGED <<part, main, conf, vars>>
  \/ part = "dynamic" /\ Next /\ UNCHANGED <<part, main, conf, elfs>>

-----------------------------------------------------------------------------
(***************************************************************************)
(*                              Properties                                 *)
(***************************************************************************)

\* Of Startup: the program that runs is the one that the order of PATH says, and
\* a name is given up only for want of a file that can be loaded.
RunsFirstInPath == S!RunsFirstInPath

\* Of ProgramHeaders: a sound file is accepted and its headers are kept.
HeadersComplete == P!HeadersComplete

\* Of LdSoConf: the directories come in the order of the text, those of included
\* files in their places.
DirsInOrder == C!DirsInOrder

\* Of LdSoConf: the stack never overflows, if no file includes itself and there is
\* room for each of the files once, however often they are included.  What a
\* foreign file includes does not matter.
FitsStack == C!Acyclic /\ Cardinality(Conf \ Foreign) <= MaxDepth => conf_pc # "dead"

\* Of LdSoConf: the reader comes to an end if no file includes itself.
ReaderReturns == part = "conf" => C!ReaderReturns

=============================================================================
