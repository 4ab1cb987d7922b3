------------------------------ MODULE Startup ------------------------------
(***************************************************************************)
(* main of sloader, up to DynLoader::Run: the program to run is a path or  *)
(* is looked for in PATH, and must be an ELF file of one of two types.     *)
(***************************************************************************)
EXTENDS Integers, Sequences, FiniteSetsExt

CONSTANTS
  Dir,      \* directories that may be in PATH
  MaxPath   \* bound: length of PATH

\* What a name leads to: nothing, something that is not a regular file, a file
\* that cannot be opened, one too short to have an e_type, or one with the type.
Kind    == {"none", "dir", "unreadable", "short", "ET_EXEC", "ET_DYN", "ET_REL"}
Regular == Kind \ {"none", "dir"}

StartupAssumption == MaxPath \in Nat \ {0} /\ Dir \cap {"", "path"} = {}

VARIABLES
  argv1,      \* argv[1]: none, a name, or a path, which has a "/" or starts with "."
  at,         \* what is found under the name, in each directory or at the path
  PATH,       \* its pieces, at least one even if empty; <<>> if it is not set
  pc,
  str,        \* what SplitWith has not split yet
  path_dirs,  \* what it has, and main looks at
  i,          \* the loop of main
  fullpath,   \* the place of the file: a directory, "path", or "" for none
  dynloader   \* whether InitializeDynLoader has been called

vars == <<argv1, at, PATH, pc, str, path_dirs, i, fullpath, dynloader>>

Init ==
  /\ argv1 \in {"none", "name", "path"}
  /\ at \in [Dir \cup {"path"} -> Kind]
  /\ PATH \in UNION {[1..n -> Dir] : n \in 0..MaxPath}
  /\ pc = "args"
  /\ str = PATH
  /\ path_dirs = <<>>
  /\ i = 1
  /\ fullpath = ""
  /\ dynloader = FALSE

Die == pc' = "dead" /\ UNCHANGED <<argv1, at, PATH, str, path_dirs, i, fullpath, dynloader>>

TakePath ==
  /\ pc = "args" /\ argv1 = "path"
  /\ fullpath' = "path"
  /\ pc' = "check"
  /\ UNCHANGED <<argv1, at, PATH, str, path_dirs, i, dynloader>>

\* std::string of a null pointer, for argv[1] and for getenv("PATH").
NoArg  == pc = "args" /\ argv1 = "none" /\ Die
NoPath == pc = "args" /\ argv1 = "name" /\ PATH = <<>> /\ Die

\* The loop of SplitWith: a piece with a delimiter behind it.
Split ==
  /\ pc = "args" /\ argv1 = "name" /\ Len(str) > 1
  /\ path_dirs' = Append(path_dirs, Head(str))
  /\ str' = Tail(str)
  /\ UNCHANGED <<argv1, at, PATH, pc, i, fullpath, dynloader>>

\* The last piece, with no delimiter behind it, is not returned.
SplitDone ==
  /\ pc = "args" /\ argv1 = "name" /\ Len(str) = 1
  /\ pc' = "search"
  /\ UNCHANGED <<argv1, at, PATH, str, path_dirs, i, fullpath, dynloader>>

Hit(d) == at[d] \in Regular

\* Mutant of Try: no break.
TryLast ==
  /\ pc = "search" /\ i <= Len(path_dirs)
  /\ fullpath' = IF Hit(path_dirs[i]) THEN path_dirs[i] ELSE fullpath
  /\ pc' = IF i = Len(path_dirs) THEN "check" ELSE "search"
  /\ i' = i + 1
  /\ UNCHANGED <<argv1, at, PATH, str, path_dirs, dynloader>>

Try ==
  /\ pc = "search" /\ i <= Len(path_dirs)
  /\ IF Hit(path_dirs[i])
     THEN fullpath' = path_dirs[i] /\ pc' = "check" /\ i' = i
     ELSE i' = i + 1 /\ UNCHANGED <<pc, fullpath>>
  /\ UNCHANGED <<argv1, at, PATH, str, path_dirs, dynloader>>

SearchDone ==
  /\ pc = "search" /\ i > Len(path_dirs)
  /\ pc' = "check"
  /\ UNCHANGED <<argv1, at, PATH, str, path_dirs, i, fullpath, dynloader>>

\* CHECK(exists(fullpath)); and in GetEType CHECK(fd >= 0), CHECK_GT for a short
\* file, and CHECK(p != MAP_FAILED) for a directory.
Refused ==
  /\ pc = "check"
  /\ fullpath # "" => at[fullpath] \in {"none", "dir", "unreadable", "short"}
  /\ Die

\* The same CHECK where there is no room for the file.
MapFails ==
  /\ pc = "check" /\ fullpath # ""
  /\ at[fullpath] \in {"ET_EXEC", "ET_DYN", "ET_REL"}
  /\ pc' = "nomem"
  /\ UNCHANGED <<argv1, at, PATH, str, path_dirs, i, fullpath, dynloader>>

Unsupported ==
  /\ pc = "check" /\ fullpath # ""
  /\ at[fullpath] = "ET_REL"
  /\ Die

RunLoader ==
  /\ pc = "check" /\ fullpath # ""
  /\ at[fullpath] \in {"ET_DYN", "ET_EXEC"}
  /\ dynloader' = TRUE
  /\ pc' = "run"
  /\ UNCHANGED <<argv1, at, PATH, str, path_dirs, i, fullpath>>

Next ==
  \/ TakePath \/ NoArg \/ NoPath \/ Split \/ SplitDone \/ Try \/ SearchDone
  \/ Refused \/ MapFails \/ Unsupported \/ RunLoader

Spec == Init /\ [][Next]_vars

-----------------------------------------------------------------------------
(***************************************************************************)
(*                              Properties                                 *)
(***************************************************************************)

\* The first entry of PATH that holds a regular file, 0 if none does.
Holding == {k \in DOMAIN PATH : at[PATH[k]] \in Regular}
First   == IF Holding = {} THEN 0 ELSE Min(Holding)

\* The program that runs is the one that the order of PATH says, though the
\* search sees less than PATH; and a name is given up, with memory for the file,
\* for one of these reasons only: PATH does not hold it or holds it in its last
\* directory only, which SplitWith drops, or what it holds first cannot be opened,
\* is too short or is of another type; no later directory is tried then.
RunsFirstInPath ==
  argv1 = "name" =>
    /\ pc = "run" => First # 0 /\ fullpath = PATH[First]
    /\ pc = "dead" => \/ First \in {0, Len(PATH)}
                      \/ at[PATH[First]] \in {"unreadable", "short", "ET_REL"}

=============================================================================
