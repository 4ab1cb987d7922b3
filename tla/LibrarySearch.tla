--------------------------- MODULE LibrarySearch ---------------------------
(***************************************************************************)
(* FindLibrary of dyn_loader.cc: from a library name, as it stands in a    *)
(* DT_NEEDED entry or in a call of dlopen, to a file.                      *)
(*                                                                         *)
(* The file system does not change while the loader looks at it, so it is  *)
(* a set of CONSTANTS.  std::filesystem::directory_iterator lists a        *)
(* directory in an unspecified order and the loader takes the first entry  *)
(* whose name starts with the name it looks for: the result is therefore   *)
(* the SET of files the search may return, empty where it aborts.          *)
(***************************************************************************)
EXTENDS Naturals, Sequences, FiniteSetsExt

CONSTANTS
  File,        \* the files, one for each path
  Name,        \* file names and library names
  Dir,         \* the directories the search may look into
  Content,     \* the files of each directory; {} where there is no such directory
  FileName,    \* path::filename of each file
  BaseName,    \* path::filename of each library name
  StartsWith,  \* for each name, the names that start with it
  Absolute,    \* for each name, {the file} if it is the absolute path of one, else {}
  EnvDirs,     \* SLOADER_LIBRARY_PATH: a sequence of at most one directory
  ConfDirs,    \* the directories read_ldsoconf() returns
  DefaultDirs  \* /lib, /usr/lib, ..., "."

ASSUME SearchAssumption ==
  /\ Content \in [Dir -> SUBSET File]
  /\ FileName \in [File -> Name]
  /\ BaseName \in [Name -> Name]
  /\ StartsWith \in [Name -> SUBSET Name]
  /\ Absolute \in [Name -> SUBSET File]
  /\ EnvDirs \in Seq(Dir) /\ Len(EnvDirs) <= 1
  /\ ConfDirs \in Seq(Dir)
  /\ DefaultDirs \in Seq(Dir)

\* The directories in the order they are searched; runpath and rpath are
\* sequences of at most one directory.  DT_RPATH does not yield to DT_RUNPATH.
LibraryDirectories(runpath, rpath) ==
  EnvDirs \o runpath \o rpath \o ConfDirs \o DefaultDirs

\* The entries of directory d that the name n may be resolved to.
Hits(n, d) ==
  {f \in File : f \in Content[d] /\ FileName[f] \in StartsWith[BaseName[n]]}

\* The files FindLibrary(n, runpath, rpath) may return.
FindLibrary(n, runpath, rpath) ==
  IF Absolute[n] # {} THEN Absolute[n]
  ELSE LET dirs  == LibraryDirectories(runpath, rpath)
           found == {i \in DOMAIN dirs : Hits(n, dirs[i]) # {}}
       IN  IF found = {} THEN {} ELSE Hits(n, dirs[Min(found)])

=============================================================================
