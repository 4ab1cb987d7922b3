----------------------------- MODULE DynLoader -----------------------------
(***************************************************************************)
(* The life of a process under sloader: DynLoader::Run loads the main      *)
(* program and what it needs, relocates all of it, calls the constructors  *)
(* and jumps to the entry point; the loadee, in a constructor or after the *)
(* jump, may call back into the loader through dlopen and dlsym.           *)
(*                                                                         *)
(* binaries, loaded, relocated are the members of class DynLoader (their   *)
(* names end with "_" in the code); indices into binaries start at 1 here  *)
(* and at 0 in the code.  The files on disk are the variable elf, which    *)
(* never changes: Init chooses it from the CONSTANT Disks.                 *)
(***************************************************************************)
EXTENDS LibrarySearch

CONSTANTS
  Sym,       \* symbol names
  Skip,      \* the names that contain "ld-linux" or "libc.so"
  DummyFuns, SloaderFuns, LibcFuns,  \* the keys of libc_mapping::sloader_libc_map
             \*   for a function that does nothing, for one of sloader
             \*   (dlopen, __libc_start_main), and for one of its own libc
  LibcTls,   \* the keys of libc_mapping::sloader_libc_tls_variables
  MainFile,  \* main_path_
  Disks,     \* the possible contents of the files
  MaxDlopen  \* bound: calls of dlopen that load something

\* The types that ShowRelocationType names, as far as Relocate tells them apart:
\* GLOB_DAT stands for GLOB_DAT, JUMP_SLOT and 64, which bind alike, RELATIVE
\* for RELATIVE and IRELATIVE, other for every unsupported type.
RelaType ==
  {"GLOB_DAT", "RELATIVE", "TPOFF64", "DTPMOD64", "DTPOFF64", "COPY", "other"}
Rela == [type : RelaType, sym : Sym]

\* What ELFBinary and ParseDynamic read from a file: DT_NEEDED in order,
\* DT_RUNPATH and DT_RPATH (at most one directory each), the symbols it
\* defines, the ones it leaves undefined and weak, the thread-local ones among
\* the defined, its relocations, and whether it has constructors.
Elf ==
  [needed : Seq(Name), runpath : Seq(Dir), rpath : Seq(Dir),
   defs : SUBSET Sym, weaks : SUBSET Sym, tls : SUBSET Sym,
   rela : SUBSET Rela, ctor : BOOLEAN]

LibcMap == DummyFuns \cup SloaderFuns \cup LibcFuns

ASSUME LoaderAssumption ==
  /\ Skip \subseteq Name
  /\ LibcMap \subseteq Sym
  /\ LibcTls \subseteq Sym
  /\ MainFile \in File
  /\ Disks \subseteq [File -> Elf]
  /\ MaxDlopen \in Nat

VARIABLES
  elf,        \* what is on disk
  pc,         \* what the process is doing
  caller,     \* who called LoadDependingLibs: Run, or dlopen in a constructor or later
  binaries,   \* the link map; .as and .by (name looked for, index of the
              \*   binary that needs it, 0 for a root) record why it is there
  loaded,     \* set of library names
  queue,      \* the local queue of LoadDependingLibs
  relocated,  \* set of paths
  reloc_i,    \* the loop of Relocate
  slots,      \* for each binary Relocate has processed, what it wrote for each relocation
  init_i,     \* the loop of Execute over the constructors
  inits,      \* the constructors called so far, as indices into binaries
  opens,      \* number of calls of dlopen that load something
  handed      \* what dlsym returned to the loadee

vars == <<elf, pc, caller, binaries, loaded, queue, relocated, reloc_i, slots,
          init_i, inits, opens, handed>>

Loading == {"start", "search", "relocate", "init"}  \* the loader has control
Loadee  == {"ctor", "running"}                      \* the loadee has control

\* An address: of a symbol in a binary ("def"), of the start of a binary taken
\* for an undefined weak symbol ("weak"), ...; bin is 0 where there is none.
Value ==
  [kind : {"def", "weak", "dummy", "sloader", "libc", "none", "base", "tls", "libctls",
           "module1", "copy"},
   bin  : Nat]
NotFound == [kind |-> "none", bin |-> 0]

\* sloader_libc_map[s]
LibcAddr(s) ==
  [kind |-> IF s \in DummyFuns THEN "dummy" ELSE IF s \in SloaderFuns THEN "sloader" ELSE "libc",
   bin  |-> 0]

-----------------------------------------------------------------------------
\* SearchSym, GetSymbolAddr and TLSSymOffset, over a link map.

Defining(bins, s, first) == {i \in first..Len(bins) : s \in elf[bins[i].file].defs}
WeakIn(bins, s, first)   == {i \in first..Len(bins) : s \in elf[bins[i].file].weaks}
TlsIn(bins, s)           == {i \in 1..Len(bins) : s \in elf[bins[i].file].tls}

\* Mutant of SearchSym: the last definition wins.
SearchSymLast(bins, s, first) ==
  IF Defining(bins, s, first) # {}
  THEN [kind |-> "def", bin |-> Max(Defining(bins, s, first))]
  ELSE IF WeakIn(bins, s, first) # {}
       THEN [kind |-> "weak", bin |-> Max(WeakIn(bins, s, first))]
       ELSE NotFound

\* first is 2 where skip_main is true.
SearchSym(bins, s, first) ==
  IF Defining(bins, s, first) # {}
  THEN [kind |-> "def", bin |-> Min(Defining(bins, s, first))]
  ELSE IF WeakIn(bins, s, first) # {}
       THEN [kind |-> "weak", bin |-> Min(WeakIn(bins, s, first))]
       ELSE NotFound

TLSSymOffset(bins, s) ==
  IF TlsIn(bins, s) # {}
  THEN [kind |-> "tls", bin |-> Min(TlsIn(bins, s))]
  ELSE IF s \in LibcTls THEN [kind |-> "libctls", bin |-> 0] ELSE NotFound

\* Mutant of ResolveBind: skip_main as for COPY.
ResolveBindSkipMain(bins, s) ==
  IF s \in LibcMap THEN LibcAddr(s) ELSE SearchSym(bins, s, 2)

\* sloader_libc_map goes before the link map.
ResolveBind(bins, s) ==
  IF s \in LibcMap THEN LibcAddr(s) ELSE SearchSym(bins, s, 1)
ResolveCopy(bins, s) ==
  IF s \in LibcMap THEN LibcAddr(s)
  ELSE IF SearchSym(bins, s, 2) = NotFound THEN NotFound
       ELSE [kind |-> "copy", bin |-> SearchSym(bins, s, 2).bin]

\* What Relocate writes for relocation r of binary i; NotFound: nothing.
Slot(bins, i, r) ==
  CASE r.type = "GLOB_DAT" -> ResolveBind(bins, r.sym)
    [] r.type = "RELATIVE" -> [kind |-> "base", bin |-> i]
    [] r.type = "TPOFF64"  -> TLSSymOffset(bins, r.sym)
    [] r.type = "DTPMOD64" -> [kind |-> "module1", bin |-> 0]
    [] r.type = "COPY"     -> ResolveCopy(bins, r.sym)
    [] OTHER               -> NotFound

\* The relocations that end the process: of a type that Relocate does not know,
\* with an index behind the symbol table (CHECK_LT; "other" stands for it too), or
\* to a symbol that there is not.
Aborts(bins, i, r) ==
  \/ r.type = "other"
  \/ r.type \in {"TPOFF64", "COPY"} /\ Slot(bins, i, r) = NotFound

-----------------------------------------------------------------------------
Init ==
  /\ elf \in Disks
  /\ pc = "start"
  /\ caller = "Run"
  /\ binaries = <<>>
  /\ loaded = {}
  /\ queue = <<>>
  /\ relocated = {}
  /\ reloc_i = 0
  /\ slots = <<>>
  /\ init_i = 0
  /\ inits = <<>>
  /\ opens = 0
  /\ handed = {}

\* A failed CHECK exits, a missing library or symbol aborts: either way the
\* whole process is gone.
Die == pc' = "dead" /\ UNCHANGED <<elf, caller, binaries, loaded, queue, relocated,
                                   reloc_i, slots, init_i, inits, opens, handed>>

\* Mutant of Needs: what a library needs is not looked at.
NeedsOfMain(f, k) ==
  IF k > 1 THEN <<>>
  ELSE [j \in DOMAIN elf[f].needed |-> [name |-> elf[f].needed[j], by |-> k]]

\* queue.push for each DT_NEEDED entry of file f, the k-th of binaries.
Needs(f, k) ==
  [j \in DOMAIN elf[f].needed |-> [name |-> elf[f].needed[j], by |-> k]]

\* The first lines of LoadDependingLibs: the root is loaded whether or not
\* loaded already holds its name.
LoadRoot(f) ==
  /\ pc' = "search"
  /\ binaries' = Append(binaries, [file |-> f, as |-> FileName[f], by |-> 0])
  /\ loaded' = loaded \cup {FileName[f]}
  /\ queue' = Needs(f, Len(binaries) + 1)

LoadMain ==
  /\ pc = "start"
  /\ LoadRoot(MainFile)
  /\ UNCHANGED <<elf, caller, relocated, reloc_i, slots, init_i, inits, opens, handed>>

-----------------------------------------------------------------------------
\* The loop of LoadDependingLibs.

IsLoaded(n) == n \in loaded
Found(e) == FindLibrary(e.name, elf[binaries[e.by].file].runpath,
                                elf[binaries[e.by].file].rpath)

\* Mutant of SkipLoaded: continue before queue.pop().
SkipLoadedNoPop ==
  /\ pc = "search" /\ queue # <<>>
  /\ IsLoaded(Head(queue).name)
  /\ UNCHANGED vars

SkipLoaded ==
  /\ pc = "search" /\ queue # <<>>
  /\ IsLoaded(Head(queue).name)
  /\ queue' = Tail(queue)
  /\ UNCHANGED <<elf, pc, caller, binaries, loaded, relocated, reloc_i, slots,
                 init_i, inits, opens, handed>>

SkipLibc ==
  /\ pc = "search" /\ queue # <<>>
  /\ ~IsLoaded(Head(queue).name)
  /\ Head(queue).name \in Skip
  /\ loaded' = loaded \cup {Head(queue).name}
  /\ queue' = Tail(queue)
  /\ UNCHANGED <<elf, pc, caller, binaries, relocated, reloc_i, slots, init_i,
                 inits, opens, handed>>

LoadNeeded ==
  /\ pc = "search" /\ queue # <<>>
  /\ LET e == Head(queue) IN
       /\ ~IsLoaded(e.name)
       /\ e.name \notin Skip
       /\ \E f \in Found(e) :
            /\ binaries' = Append(binaries, [file |-> f, as |-> e.name, by |-> e.by])
            /\ queue' = Tail(queue) \o Needs(f, Len(binaries) + 1)
       /\ loaded' = loaded \cup {e.name}
  /\ UNCHANGED <<elf, pc, caller, relocated, reloc_i, slots, init_i, inits, opens, handed>>

\* Mutant of LibraryNotFound: LOG(FATAL), which does not end the process,
\* without std::abort.
LibraryNotFoundIgnored ==
  /\ pc = "search" /\ queue # <<>>
  /\ ~IsLoaded(Head(queue).name)
  /\ Head(queue).name \notin Skip
  /\ Found(Head(queue)) = {}
  /\ queue' = Tail(queue)
  /\ UNCHANGED <<elf, pc, caller, binaries, loaded, relocated, reloc_i, slots,
                 init_i, inits, opens, handed>>

LibraryNotFound ==
  /\ pc = "search" /\ queue # <<>>
  /\ ~IsLoaded(Head(queue).name)
  /\ Head(queue).name \notin Skip
  /\ Found(Head(queue)) = {}
  /\ Die

\* ELFBinary, Load or ParseDynamic fails a CHECK on the file just chosen: it
\* cannot be opened, its addresses are taken, it has no dynamic section.
LoadFails ==
  /\ \/ pc = "start"
     \/ /\ pc = "search" /\ queue # <<>>
        /\ ~IsLoaded(Head(queue).name)
        /\ Head(queue).name \notin Skip
        /\ Found(Head(queue)) # {}
  /\ Die

\* Mutant of SearchDone: only what was loaded last is relocated.
SearchDoneLastOnly ==
  /\ pc = "search" /\ queue = <<>>
  /\ pc' = "relocate"
  /\ reloc_i' = Len(binaries)
  /\ UNCHANGED <<elf, caller, binaries, loaded, queue, relocated, slots, init_i,
                 inits, opens, handed>>

SearchDone ==
  /\ pc = "search" /\ queue = <<>>
  /\ pc' = "relocate"
  /\ reloc_i' = 1
  /\ UNCHANGED <<elf, caller, binaries, loaded, queue, relocated, slots, init_i,
                 inits, opens, handed>>

-----------------------------------------------------------------------------
\* The loop of Relocate over the link map.  relocated is keyed by path.

\* Mutant of IsRelocated: relocated_ is not looked at.
IsRelocatedNever(f) == FALSE

IsRelocated(f) == f \in relocated

SkipRelocated ==
  /\ pc = "relocate" /\ reloc_i <= Len(binaries)
  /\ IsRelocated(binaries[reloc_i].file)
  /\ reloc_i' = reloc_i + 1
  /\ UNCHANGED <<elf, pc, caller, binaries, loaded, queue, relocated, slots,
                 init_i, inits, opens, handed>>

RelocateBinary ==
  /\ pc = "relocate" /\ reloc_i <= Len(binaries)
  /\ LET f == binaries[reloc_i].file IN
       /\ ~IsRelocated(f)
       /\ \A r \in elf[f].rela : ~Aborts(binaries, reloc_i, r)
       /\ relocated' = relocated \cup {f}
       /\ slots' = [i \in DOMAIN slots \cup {reloc_i} |->
                      IF i = reloc_i
                      THEN [r \in elf[f].rela |-> Slot(binaries, i, r)]
                      ELSE slots[i]]
  /\ reloc_i' = reloc_i + 1
  /\ UNCHANGED <<elf, pc, caller, binaries, loaded, queue, init_i, inits, opens, handed>>

RelocationFails ==
  /\ pc = "relocate" /\ reloc_i <= Len(binaries)
  /\ ~IsRelocated(binaries[reloc_i].file)
  /\ \E r \in elf[binaries[reloc_i].file].rela : Aborts(binaries, reloc_i, r)
  /\ Die

\* Mutants of RelocateDone: the last binary is left out; a dlopen starts the
\* loop over the constructors again.
RelocateDoneOffByOne ==
  /\ pc = "relocate" /\ reloc_i > Len(binaries)
  /\ pc' = IF caller = "Run" THEN "init" ELSE caller
  /\ init_i' = IF caller = "Run" THEN Len(binaries) - 1 ELSE init_i
  /\ UNCHANGED <<elf, caller, binaries, loaded, queue, relocated, reloc_i, slots,
                 inits, opens, handed>>
RelocateDoneRestart ==
  /\ pc = "relocate" /\ reloc_i > Len(binaries)
  /\ pc' = IF caller = "Run" THEN "init" ELSE caller
  /\ init_i' = Len(binaries)
  /\ UNCHANGED <<elf, caller, binaries, loaded, queue, relocated, reloc_i, slots,
                 inits, opens, handed>>

\* Relocate returns: to Run, which goes on with Execute, or to dlopen and so
\* to the loadee.
RelocateDone ==
  /\ pc = "relocate" /\ reloc_i > Len(binaries)
  /\ pc' = IF caller = "Run" THEN "init" ELSE caller
  /\ init_i' = IF caller = "Run" THEN Len(binaries) ELSE init_i
  /\ UNCHANGED <<elf, caller, binaries, loaded, queue, relocated, reloc_i, slots,
                 inits, opens, handed>>

-----------------------------------------------------------------------------
\* Execute: the constructors from the last binary to the first, then the jump.

\* A second mapping of a path is never relocated: its DT_INIT_ARRAY holds what
\* is in the file, null pointers, where the loop stops, or addresses that are
\* none (ExecuteFails); its DT_INIT is called all the same (CallCtor).
SkipInit ==
  /\ pc = "init" /\ init_i > 0
  /\ elf[binaries[init_i].file].ctor => init_i \notin DOMAIN slots
  /\ init_i' = init_i - 1
  /\ UNCHANGED <<elf, pc, caller, binaries, loaded, queue, relocated, reloc_i,
                 slots, inits, opens, handed>>

\* DT_INIT and the functions of DT_INIT_ARRAY, one after the other: while pc is
\* "ctor", any of them may call dlopen, each time the same.
CallCtor ==
  /\ pc = "init" /\ init_i > 0
  /\ elf[binaries[init_i].file].ctor
  /\ pc' = "ctor"
  /\ inits' = Append(inits, init_i)
  /\ UNCHANGED <<elf, caller, binaries, loaded, queue, relocated, reloc_i, slots,
                 init_i, opens, handed>>

CtorReturns ==
  /\ pc = "ctor"
  /\ pc' = "init"
  /\ init_i' = init_i - 1
  /\ UNCHANGED <<elf, caller, binaries, loaded, queue, relocated, reloc_i, slots,
                 inits, opens, handed>>

\* The stack, the thread-local storage and ExecuteCore.
Enter ==
  /\ pc = "init" /\ init_i = 0
  /\ pc' = "running"
  /\ UNCHANGED <<elf, caller, binaries, loaded, queue, relocated, reloc_i, slots,
                 init_i, inits, opens, handed>>

\* A CHECK of Execute fails, on the auxiliary vector, on the size of an init
\* array, on the size of the thread-local storage; or a constructor that was
\* not relocated is jumped to.
ExecuteFails == pc = "init" /\ Die

-----------------------------------------------------------------------------
\* Calls of the loadee.

\* dlopen(NULL) and dlopen of a skipped name return at once and change nothing.
Dlopen(n) ==
  /\ pc \in Loadee
  /\ opens < MaxDlopen
  /\ n \notin Skip
  /\ \E f \in FindLibrary(n, <<>>, <<>>) : LoadRoot(f)
  /\ caller' = pc
  /\ opens' = opens + 1
  /\ UNCHANGED <<elf, relocated, reloc_i, slots, init_i, inits, handed>>

\* dlopen does not return NULL for what it cannot load: the process ends.
DlopenFails(n) ==
  /\ pc \in Loadee
  /\ opens < MaxDlopen
  /\ n \notin Skip
  /\ Die

\* The handle is not looked at: every call searches the whole link map, and
\* not sloader_libc_map.
Dlsym(s) ==
  /\ pc \in Loadee
  /\ SearchSym(binaries, s, 1) # NotFound
  /\ handed' = handed \cup {[sym |-> s, val |-> SearchSym(binaries, s, 1)]}
  /\ UNCHANGED <<elf, pc, caller, binaries, loaded, queue, relocated, reloc_i,
                 slots, init_i, inits, opens>>

DlsymFails(s) ==
  /\ pc \in Loadee
  /\ SearchSym(binaries, s, 1) = NotFound
  /\ Die

\* dlvsym exits; the loadee may exit by itself, in a constructor too.
Exit ==
  /\ pc \in Loadee
  /\ pc' = "exited"
  /\ UNCHANGED <<elf, caller, binaries, loaded, queue, relocated, reloc_i, slots,
                 init_i, inits, opens, handed>>

-----------------------------------------------------------------------------
LoaderStep ==
  \/ LoadMain \/ SkipLoaded \/ SkipLibc \/ LoadNeeded \/ LibraryNotFound
  \/ LoadFails \/ SearchDone
  \/ SkipRelocated \/ RelocateBinary \/ RelocationFails \/ RelocateDone
  \/ SkipInit \/ CallCtor \/ Enter \/ ExecuteFails

LoadeeStep ==
  \/ CtorReturns
  \/ \E n \in Name : Dlopen(n) \/ DlopenFails(n)
  \/ \E s \in Sym : Dlsym(s) \/ DlsymFails(s)
  \/ Exit

Next == LoaderStep \/ LoadeeStep

Spec == Init /\ [][Next]_vars

\* The loader is straight-line code in a process the kernel schedules; nothing
\* is assumed of the loadee.
FairSpec == Spec /\ WF_vars(LoaderStep)

-----------------------------------------------------------------------------
(***************************************************************************)
(*                              Properties                                 *)
(***************************************************************************)

\* Types, and the bounds of the loops of LoadDependingLibs, Relocate and
\* Execute: a library is in the queue on behalf of a binary that is in the
\* link map, only relocated binaries have slots, and no constructor of a
\* binary outside the link map is called.
TypeOK ==
  /\ elf \in Disks
  /\ pc \in Loading \cup Loadee \cup {"exited", "dead"}
  /\ caller \in {"Run"} \cup Loadee
  /\ binaries \in Seq([file : File, as : Name, by : Nat])
  /\ loaded \subseteq Name
  /\ queue \in Seq([name : Name, by : 1..Len(binaries)])
  /\ relocated \subseteq File
  /\ reloc_i \in 0..Len(binaries) + 1
  /\ pc = "relocate" => reloc_i > 0
  /\ DOMAIN slots \subseteq 1..Len(binaries)
  /\ \A i \in DOMAIN slots : slots[i] \in [elf[binaries[i].file].rela -> Value]
  /\ init_i \in 0..Len(binaries)
  /\ pc = "ctor" \/ (pc \in Loading \ {"init"} /\ caller = "ctor") => init_i > 0
  /\ inits \in Seq(1..Len(binaries))
  /\ opens \in 0..MaxDlopen
  /\ handed \subseteq [sym : Sym, val : Value]

Searched == pc \in {"relocate", "init"} \cup Loadee

\* Once LoadDependingLibs is through, and whatever cycles the DT_NEEDED entries
\* form, every library that a binary of the link map needs is in the link map
\* under that name, unless it is one of those sloader itself stands in for.
DependenciesMapped ==
  Searched =>
    \A i \in DOMAIN binaries : \A k \in DOMAIN elf[binaries[i].file].needed :
      LET n == elf[binaries[i].file].needed[k] IN
        n \in Skip \/ \E j \in DOMAIN binaries : binaries[j].as = n

\* The check of loaded_ in LoadDependingLibs: over the whole life of the process
\* no name is loaded a second time on behalf of a DT_NEEDED entry (only dlopen
\* maps its argument again).
LoadedOnce ==
  \A i, j \in DOMAIN binaries :
    i < j /\ binaries[i].as = binaries[j].as => binaries[j].by = 0

\* Whenever code of the loadee runs, in a constructor, after the jump or after
\* dlopen, Relocate has been over every file of the link map: a binary is
\* relocated, or it is a second mapping of the path of one that is.
RelocatedBeforeUse ==
  pc \in {"init"} \cup Loadee =>
    \A i \in DOMAIN binaries :
      \E j \in DOMAIN slots : j <= i /\ binaries[j].file = binaries[i].file

\* The relocations of binary i that take the address of symbol s.
Uses(i, s) == {r \in DOMAIN slots[i] : r.type = "GLOB_DAT" /\ r.sym = s}

\* One name, one address: every reference that found a definition, made when
\* the program was started or by a later dlopen, or returned by dlsym, is to
\* the binary where a search of the present link map would find it.  A library
\* opened later never takes a symbol over.
ScopeAgreement ==
  /\ \A i \in DOMAIN slots : \A r \in DOMAIN slots[i] :
       r.type = "GLOB_DAT" /\ slots[i][r].kind = "def" =>
         slots[i][r] = SearchSym(binaries, r.sym, 1)
  /\ \A h \in handed :
       h.val.kind = "def" => h.val = SearchSym(binaries, h.sym, 1)

\* A variable that the main program copies (R_X86_64_COPY; the main program
\* then defines the symbol) is copied from a library, and every binary refers
\* to the copy: as tests/global_variable/main.c says of hoge_var, its address
\* "must be the same" everywhere.
CopyShared ==
  1 \in DOMAIN slots =>
    \A c \in DOMAIN slots[1] :
      c.type = "COPY" /\ c.sym \in elf[MainFile].defs \ LibcMap =>
        /\ slots[1][c].bin # 1
        /\ \A i \in DOMAIN slots : \A r \in Uses(i, c.sym) :
             slots[i][r] = [kind |-> "def", bin |-> 1]

\* The binaries that Run loads, before any dlopen.
Initial == {i \in DOMAIN binaries : \A k \in 2..i : binaries[k].by # 0}
Called(i, p) == \E q \in 1..p : inits[q] = i

\* The reverse order of Execute: the constructors of a library that has been
\* relocated run before those of the binary on whose behalf it was loaded.
InitChildFirst ==
  \A p \in DOMAIN inits : \A i \in Initial \cap DOMAIN slots :
    binaries[i].by = inits[p] /\ elf[binaries[i].file].ctor => Called(i, p - 1)

\* When the program is entered, the constructors of each relocated binary that
\* Run loaded have been called exactly once, whatever the constructors did with
\* dlopen; those of a second mapping at most once, those of a binary that
\* dlopen loaded not at all.
InitOnce ==
  pc = "running" =>
    \A i \in DOMAIN binaries :
      LET calls  == Cardinality({p \in DOMAIN inits : inits[p] = i})
          called == i \in Initial /\ elf[binaries[i].file].ctor
      IN  /\ calls <= IF called THEN 1 ELSE 0
          /\ called /\ i \in DOMAIN slots => calls = 1

\* What the loadee has been given is never taken back: no step moves or removes
\* a binary of the link map, and Relocate, which every dlopen runs again over
\* the whole link map, does not write a slot a second time.
NeverRebind ==
  [][/\ \A i \in DOMAIN binaries :
          i \in DOMAIN binaries' /\ binaries'[i] = binaries[i]
     /\ \A i \in DOMAIN slots :
          i \in DOMAIN slots' /\ slots'[i] = slots[i]]_vars

\* The loader gives control back or ends the process: neither cycles of
\* DT_NEEDED, nor libraries that were loaded before, keep it busy forever.
LoaderReturns == pc \in Loading ~> pc \notin Loading

\* The parts of the inductive invariant behind DependenciesMapped, LoadedOnce
\* and RelocatedBeforeUse.  The queue is local to LoadDependingLibs; a name in
\* loaded is skipped or mapped; what is needed is loaded or still queued.
QueueLocal  == pc \notin {"search", "dead"} => queue = <<>>
NamesLoaded == \A i \in DOMAIN binaries : binaries[i].as \in loaded
LoadedMapped ==
  \A n \in loaded : n \in Skip \/ \E j \in DOMAIN binaries : binaries[j].as = n
NeedsPending ==
  \A i \in DOMAIN binaries : \A k \in DOMAIN elf[binaries[i].file].needed :
    \/ elf[binaries[i].file].needed[k] \in loaded
    \/ \E q \in DOMAIN queue : queue[q].name = elf[binaries[i].file].needed[k]

\* relocated is the set of the paths of the binaries with slots, each of them
\* the first of its path, and the loop of Relocate leaves none out behind it.
SlotsByPath  == relocated = {binaries[j].file : j \in DOMAIN slots}
SlotsFirst   ==
  \A j \in DOMAIN slots : \A i \in 1..j - 1 : binaries[i].file # binaries[j].file
RelocBehind  ==
  pc = "relocate" => \A i \in 1..reloc_i - 1 : binaries[i].file \in relocated

\* What LoadDependingLibs and Relocate preserve by themselves.
LoadInv ==
  /\ TypeOK
  /\ QueueLocal /\ NamesLoaded /\ LoadedMapped /\ NeedsPending /\ LoadedOnce
  /\ SlotsByPath /\ SlotsFirst /\ RelocBehind /\ RelocatedBeforeUse

\* The parts behind InitChildFirst and InitOnce.  Boot: Run has not reached
\* Execute.  During(p): the loadee has control at p, or called dlopen there.
Boot      == pc \in {"start", "search", "relocate"} /\ caller = "Run"
During(p) == pc = p \/ (pc \in {"search", "relocate"} /\ caller = p)
Stopped   == pc \in {"dead", "exited"}

\* The main program is the first binary, and the binary that needs another is
\* before it; before Execute there is no second root, in a dlopen there is.
MainFirst ==
  /\ pc = "start" => binaries = <<>> /\ caller = "Run"
  /\ pc \notin {"start", "dead"} => Len(binaries) > 0
  /\ Len(binaries) > 0 => binaries[1] = [file |-> MainFile, as |-> FileName[MainFile], by |-> 0]
ByEarlier == \A i \in DOMAIN binaries : binaries[i].by < i
BootState == Boot => inits = <<>> /\ init_i = 0 /\ Initial = DOMAIN binaries
OneMoreRoot ==
  pc \in {"search", "relocate"} /\ ~Boot => \E k \in 2..Len(binaries) : binaries[k].by = 0
\* After the boot no binary of Run is relocated any more.
InitialRelocated == ~Boot /\ ~Stopped => \A i \in Initial : binaries[i].file \in relocated

\* The loop of Execute goes down through the binaries of Run: the constructors
\* called are those at and above init_i, in falling order, and no other.
CtorsAhead == 1..init_i \subseteq Initial
CtorsFall  == \A p, q \in DOMAIN inits : p < q => inits[q] < inits[p]
CtorsRight ==
  \A p \in DOMAIN inits :
    /\ inits[p] \in Initial /\ elf[binaries[inits[p]].file].ctor
    /\ inits[p] >= init_i
    /\ pc = "init" => inits[p] > init_i
CtorsDone ==
  ~Boot /\ ~Stopped =>
    \A i \in Initial \cap DOMAIN slots :
      elf[binaries[i].file].ctor /\ (i > init_i \/ (During("ctor") /\ i = init_i)) =>
        Called(i, Len(inits))
LoopDone == During("running") => init_i = 0

CtorInv ==
  /\ MainFirst /\ ByEarlier /\ BootState /\ OneMoreRoot /\ InitialRelocated
  /\ CtorsAhead /\ CtorsFall /\ CtorsRight /\ CtorsDone /\ LoopDone /\ InitChildFirst

\* An invariant of DynLoader that each step preserves by itself.
LoaderInv == LoadInv /\ CtorInv

\* "Search the first defined symbol" (comment on SearchSym): what dlsym returns
\* is the address of a definition.
DlsymReturnsDefined ==
  \A h \in handed : h.sym \in elf[binaries[h.val.bin].file].defs

=============================================================================
