# A TLA+ model of sloader

sloader starts a dynamically linked ELF program in its own process, in the place
of `ld-linux.so`: it finds and maps the program and the libraries it needs,
relocates them, calls their constructors, lays out thread-local storage, builds
the initial stack and jumps. The program (the *loadee*) then calls back into it
through `dlopen` and `dlsym`. This directory models that, checks it with TLC on
small instances and proves all but liveness with TLAPS for every instance. Line numbers
refer to `src/`.

## The system

| Component | Code | State | Operations |
|---|---|---|---|
| Startup | `sloader.cc`, `SplitWith` in `utils.cc` | the path of the program, the global `dynloader` | search of `PATH`, type check, `InitializeDynLoader`, `Run` |
| ld.so.conf reader | `read_ldsoconf_dfs` | the call stack, the list of directories | lines, includes, globs |
| Library search | `FindLibrary` | none; the file system | name to file |
| `ELFBinary` parsing | constructor, `ParseDynamic` | the members of `ELFBinary` | two passes over the dynamic section, then the tables |
| `ELFBinary::Load` | `Load` | `base_addr_`, `end_addr_`, the mappings, `next_base_addr_` | map each segment, return the next base |
| Link map | `LoadDependingLibs`, `Relocate`, `SearchSym`, `Execute` | `binaries_`, `loaded_`, `relocated_`, what is written into the binaries | breadth-first loading, relocation, constructors, entry |
| dl functions | `sloader_dl.cc` | none of their own | `dlopen`, `dlsym`, `dlvsym`, `dladdr` |
| Thread-local storage | `TLSSymOffset`, end of `Execute`, `tls_secure.cc`, `sloader_tls_get_addr` | an array of 4096 bytes, `sloader_tls_offset` | offsets, copy of the blocks, address of a variable |
| Initial stack | `Execute`, `ExecuteCore` | an array of words, the stack | fill, push, jump |
| C library table | `libc_mapping.cc` | `sloader_libc_map`, `sloader_libc_tls_variables`; the environment | lookup of a name, the start of `main` |
| `ExecLoader` | `exec_loader.h` | `phdrs_`, `memories_` | `Load`, `Unload`, `Execute`, for static programs; nothing calls it now |

**Interaction.** `main` calls `Run`, which calls `LoadDependingLibs`, `Relocate`
and `Execute` once each. The loadee gets control from `Execute`, first in
constructors and then for good, and re-enters `LoadDependingLibs` and `Relocate`
through `dlopen` in either place: in a constructor that happens below the running
loop of `Execute`. All of them share `binaries_`, `loaded_` and `relocated_`. The
thread-local storage is described three times, by `TLSSymOffset` during
relocation, by `Execute` when it copies the blocks, and by
`sloader_tls_get_addr`; nothing but their agreement makes it work.

**What is hard.** Cycles and repeated names in the dependency graph; work redone
on every `dlopen` over a list that has grown; state that is computed at
relocation and used after code of others has run; a failure when half of the
libraries are mapped (there is no error return: every failure ends the process);
offsets, sizes and rounding at their limits; tables without a length. Threads of
the loadee exist and no lock does; after `fork` two processes share the mapped
segments but not the loader's lists; the program and the C library may each have
their own copy of a variable. `PROJECT.json` lists these as hazards, line by
line.

**What makes each part correct.**

- Link map: closed under `DT_NEEDED` and relocated before code of the loadee
  runs; no name loaded twice; one name means one address, now and after later
  `dlopen`s; constructors once and dependences first; every call returns or ends
  the process.
- Thread-local storage: blocks where the relocations expect them, disjoint,
  inside the array, initialized, and never moved.
- Address space: every base free of what is mapped, every segment covered.
- Parsing: independent of the order of entries, no symbol missed, no sound file
  refused.
- Initial stack: the process entry of the ABI, and nothing written outside the
  array.
- ld.so.conf and `PATH`: the order that the text says, and an end.
- The C library: a name leads to code; the environment is the same one for the
  program and for the library.
- Data: what relocation writes can be used by every process that sees it, and no
  later call undoes what the loadee has stored.

## The modules

| Module | Models | Correspondence |
|---|---|---|
| `LibrarySearch` | `FindLibrary` | an operator that returns the set of files the search may take, since a directory is listed in any order |
| `DynLoader` | `DynLoader`, `sloader_dl.cc`, the table of the C library | one action per iteration of each loop, per constructor and per call of the loadee; `pc` and `caller` are the place in the code and who called |
| `LinkMap` | what the loader promises | abstract: the link map grows by whole loads, atomically, or the process ends |
| `LinkMapRefinement` | | the mapping from `DynLoader` to `LinkMap` |
| `TlsLayout` | thread-local storage | one action per iteration of the three loops; memory byte by byte |
| `AddressSpace` | `ELFBinary::Load` | one action per segment |
| `ProgramHeaders` | the constructors of `ELFBinary` and `ExecLoader`, `MakeExecLoader` | one action per program header |
| `DynamicSection` | `ELFBinary::ParseDynamic` | one action per entry and per symbol |
| `InitialStack` | the stack in `Execute`, `ExecuteCore` | one action per word or pair |
| `LdSoConf` | `read_ldsoconf` | the recursion as an explicit stack of activations |
| `Startup` | `main`, `SplitWith`, `GetEType` | one action per piece of `PATH` and per directory |
| `DlThreads` | `dlopen` and `dlsym` on several threads | one action per operation on `binaries_`, `loaded_` or `relocated_` |
| `ImageData` | the contents of segments under `Relocate`, `dlopen`, `fork` and stores of the loadee | one action per binary that is relocated; a word holds its file's value, an address or a stored value |
| `TlsThreads` | extends `TlsLayout` by code that stores into thread-local variables | constructors before the blocks are filled; threads with an array of their own |
| `LibcTable` | the forms of the entries of `sloader_libc_map`, `sloader_libc_start_main`, the environment | one action per call by name and per function that changes the environment |
| `ExecLoader` | `ExecLoader` | one action per segment of `Load` and `Unload`; `Execute` is one |
| `DynLoaderProofs`, `TlsProofs`, `ImageDataProofs`, `DlThreadsProofs` | | the theorems about `DynLoader` and its refinement of `LinkMap`, `TlsLayout` and `TlsThreads`, `ImageData`, `DlThreads` |
| `FileReading` | what sloader reads before it maps anything | composes `Startup`, `LdSoConf`, `ProgramHeaders` and `DynamicSection`: a behaviour is one of one of them, since they share no state |
| `ImageLoading` | the two loaders of segments | composes `AddressSpace` and `ExecLoader` in the same way |
| `ProgramEntry` | what the program finds when it is entered | composes `InitialStack` and `LibcTable` in the same way |
| `ImageLoadingProofs`, `EntryProofs`, `FilesProofs` | | the theorems about the parts of `ImageLoading`, `ProgramEntry` and `FileReading` |
| `NatRecursion` | | induction and recursion over the natural numbers, for the proofs |
| `MCDynLoader`, `MCTlsLayout`, `MCTlsThreads`, `MCDlThreads`, `MCImageData`, `MCFiles`, `MCImages`, `MCEntry` | | the constants of the runs |

Indices start at 1 where the code starts at 0. Names are those of the code
without the trailing underscore. An operator whose comment begins with *Mutant of*
is a plausible mistake in the definition after it: putting it in place of that
definition violates a property (`PROJECT.json` says which), so that the property
is known to depend on the code.

`DynLoader` is the core. A file is a record (`Elf`) of what the loader uses of
it; the files are chosen once, in `Init`, from the constant `Disks`. A relocation
writes a `Value`, an address by its meaning: the definition in a binary, the
start of a binary taken for an undefined weak symbol, an entry of the table of
the C library, and so on. `binaries[i].by` and `.as` are history: on behalf of
which binary, and under which name, a file was loaded. The loadee is
unconstrained: it may call `dlopen` and `dlsym` with any name, in any order, in
constructors and after the jump, and may exit at any time. Every way a `CHECK` or
`abort` can end the process is an action (`LoadFails`, `LibraryNotFound`,
`RelocationFails`, `ExecuteFails`, `DlopenFails`, `DlsymFails`). A symbol index
behind the table (`CHECK_LT`, lines 263 and 618) is a relocation of type `other`,
which ends the process as well. `DT_INIT` and the entries of `DT_INIT_ARRAY` of one
binary are one call: nothing happens between them that could not happen within one.

## The runs

All bounds are constants of the configurations or of the `MC` modules. Every run
takes less than two minutes. The three modules that hold several components give
each its own variables: the components share no state, so a behaviour chooses a
`part` in its initial state, runs that component, and leaves the others in one of
their initial states. Nothing is multiplied, and every property speaks of its own
component only.

**loader_graph** (`DynLoaderGraph.cfg`, 116,310 states). 96 dependency graphs
over five files: cycles, a library that needs itself, diamonds, a missing
library, a library under a name and under its absolute path, a prefix match
(`liba.so.10` for `liba.so.1`) in a `DT_RUNPATH` directory only. Up to two
`dlopen`s of anything. Two are enough for a library to be opened in a constructor
and again later, and for a second mapping of a path. Shows `LoaderInv`,
`DependenciesMapped`, `RelocatedBeforeUse`, `InitChildFirst`,
`InitOnce`, that the loader returns (`LoaderReturns`), and that it implements
`LinkMap`.

**loader_scope** (`DynLoaderScope.cfg`, 872,063 states). Every way in which a program,
two libraries and a library opened later may define, use, weakly use or copy one
symbol, and every relocation type against every kind of symbol, among them a
name of the C library table that a library defines too. Shows `ScopeAgreement`,
`CopyShared`, `NeverRebind`. One symbol is enough: no
search depends on another symbol.

**tls** (`TlsThreads.cfg`, 681,140 states). Up to four binaries, each
without `PT_TLS` or with a block of 1 to 4 bytes, partly or not initialized from
the file; pointers of 2 bytes, so that a block can be smaller than a pointer, and
an array of 8 bytes that three blocks may overflow; libraries opened in
constructors or later; two stores by constructors or by a second thread, through
either way of reaching a variable. Shows `TpoffMatchesLayout`, `BlocksDisjoint`,
`GetAddrSingleModule`, `TpoffStable`; `EntryClean`, that the
program is entered with the last block and, if the first block is no smaller than
a pointer, `%fs:0` as they should be, whatever constructors have stored; and
`ThreadStoresInside`, that what a thread stores hits a block of its own array and
never the rest of it or its thread control block. Through `__tls_get_addr` a thread
comes with the offset of the variable or with 0: `Relocate` skips
`R_X86_64_DTPOFF64` (line 690), and the word keeps what the file has for it. That a
thread's array begins with zeros, where `.tdata` should be, is what the model
assumes of `pthread_create`, and no property is about it.

**files** (`Files.cfg`, 123,296 states), what is read before anything is mapped.

- `Startup`: every `PATH` of up to three entries, of two directories, with every
  kind of file in each, one that cannot be opened included; a name, a path or no
  argument. `RunsFirstInPath` also states what is lost because `SplitWith` drops the
  last piece, and that no later directory is tried when the first hit is refused.
- `LdSoConf`: 64 sets of configuration files with double, foreign, empty and
  cyclic includes; a foreign file includes the root. Shows `DirsInOrder` against a
  recursive definition of the expanded text (`Expand`), `ReaderReturns`, and
  `FitsStack`, that files without a cycle need no more activations than there are
  files that are not foreign. `MaxDepth` is that number, so that one activation more
  would be an overflow.
- `ProgramHeaders`: 504 files: missing, shorter than a header, ending before
  `e_phnum` or in the middle of it, within the table or on a page, the table far away or with entries of another size, two
  `PT_DYNAMIC` or two `PT_TLS`. Shows `HeadersComplete`. The two bytes of `e_phnum`
  are digits of base 2, so that the low one alone may say something else.
- `DynamicSection`: eleven sections, complete and incomplete, each read from every
  entry on, forwards and backwards, so that every entry comes before every other,
  in files of type `ET_DYN`, `ET_EXEC` and another;
  four tables of symbols followed by words that look like symbols or not. Shows
  `OrderFree`, `AllSymbolsRead`, `AcceptsWellFormed`.

**images** (`Images.cfg`, 142,318 states), the two loaders.

- `AddressSpace`: pages of 4 and bases at multiples of 16; the program of type
  `ET_EXEC` below, across or above the first base, or `ET_DYN`; libraries that end
  on a page, on a base or just behind; up to six, which reaches sloader's own image
  (linked at 0x10000000, see `sloader_static.map`). Shows `NextBaseFresh`,
  `NoCollision`, `SegmentsCovered`.
- `ExecLoader`: ten programs on eight pages of 4 bytes, sizes modulo 16 in
  `memories_`, pages taken by others before and between the steps of `Load` and
  `Unload`; four environments and auxiliary vectors. Shows `SegmentsInPlace`, with
  the stack at the entry, and `UnloadsOwnOnly`. Of `argv[0]` nothing is claimed:
  `exec_loader.h:168` stores the address of a temporary string, which is gone when
  the program is entered (`Temporary`).

**entry** (`Entry.cfg`, 305,547 states), what the program finds.

- `InitialStack`: up to three arguments and environment entries, three auxiliary
  types in every combination of present and missing. Shows `AbiStack`.
- `LibcTable`: every environment of up to two entries, twice the same name
  included; two constructors and two changes of the environment, by `setenv` with
  and without overwriting, `putenv`, `unsetenv`, `clearenv` or a store into
  `environ`; a program linked to `environ` by `GLOB_DAT` or by `COPY`. Shows
  `SeesChanges`: with `GLOB_DAT` the program always finds what was last set, with
  `COPY` until a name is added, the environment is cleared or the program stores
  into its own `environ`. And `MainEnvCurrent`: the third argument of `main` is the
  environment as the constructors have left it. The comment at
  `libc_mapping.cc:183`, "TODO: Passing __environ to main is not correct.", is right
  in one case that the property names: after a constructor has called `clearenv`,
  `main` gets a null pointer and no array.

**dl_threads** (`DlThreads.cfg`, 166,666 states). Two threads that open one of
three libraries each, with a cycle and a library in common, and look up symbols
at any time. Shows that calls which do not overlap leave everything usable for
both threads (`SerialUsable`), and that `dlopen` returns or the process ends even
if they do overlap (`DlopenReturns`). One call by each thread is enough for any
two places of the code to meet.

**image_data** (`ImageData.cfg`, 259,557 states). Two processes, the second made
by `fork` at any time; a program that copies variables, one of them a pointer, from
one of two libraries, in both orders, or finds them in none but undefined and weak
in one, and refers to a variable that only a library opened later defines; five
mappings in all. Shows `SlotsMapped`, `StoresKept`, `CopyInitial`. It is
`relocated_`, copied by `fork`, that keeps a process from writing addresses of its
own into the segments it shares. `CopyInitial` also says what goes wrong: the
program is relocated first, so a copied pointer is what the file of the library has
for it before its relocation, and stays so; and a copy that finds its symbol
undefined and weak only copies nothing and is not reported.

Four runs end in a violation and document a disagreement:

- **tls_tdata**: `Execute` stores the address of the end of each block at that
  end (line 535). That is right for the first block, where it is `%fs:0`, and
  overwrites the beginning of the previous block for all others: with two
  binaries that have `PT_TLS`, `TdataIntact`, the layout drawn at line 507, fails.
- **dlsym_weak**: `SearchSym` ("Search the first defined symbol", line 547) falls
  back to undefined weak symbols, so `dlsym` can return the start of a binary for
  a symbol nothing defines.
- **tls_libc**: the workaround of `TLSSymOffset` for `errno` (line 599) computes
  the thread pointer minus the address, the negative of the offset that a
  `TPOFF64` relocation needs.
- **libc_casts**: seven entries of the table (`modf`, `rindex`, `strcasestr`,
  `wcspbrk`, `wcsstr`, `wmemchr`, `__rawmemchr`) are addresses of function
  pointers, not of functions. It answers the question in the comment at
  `libc_mapping.cc:142`.

The models also contain what no run asserts to be otherwise:

- `DlThreads`: `LoadDependingLibs` enters a name in `loaded_` (line 332) before the
  library is searched for and mapped, and takes `binaries_.back()` for the binary
  it has just appended. With calls that overlap, a thread that comes in between
  skips the name, returns, and its `dlsym` for a symbol of the library ends the
  process (`DlsymFails`, `CHECK(opt)` at `sloader_dl.cc:39`). `SerialUsable` leaves
  overlapping calls out for this reason.
- `LibcTable`: a variable of the C library that the program has copied, such as
  `environ`, has two homes, and `SeesChanges` says exactly when they differ.
- `TlsThreads`: with `R_X86_64_DTPOFF64` skipped, `__tls_get_addr` leads every
  variable of the global dynamic model to the start of the block.
- `ExecLoader`: `Load` asserts that a segment ends before its last page does
  (`exec_loader.h:53`), which fails on a page boundary (`EndCheckFails`); the later
  loader has `CHECK_LE`.

Deadlock is not checked: every one of these processes may end.

**Fairness.** `DynLoader` assumes weak fairness of `LoaderStep`, the steps of the
loader itself: straight-line code of a process that the kernel schedules.
Nothing is assumed of the loadee, whose constructors may never return.
`LdSoConf` assumes weak fairness of its only process, and `FilesSpec` of the part
that runs. `DlThreads` assumes weak
fairness of each thread's steps inside `dlopen`, which never wait for anything;
no thread is made to call it. The other modules have no liveness properties.

## The theorems

Proved by TLAPS for every value of the constants. No bound of a run enters: files,
names, symbols, relocations, the number of `dlopen`s, of processes and of stores,
the sizes of pages, blocks, segments and tables are arbitrary. The assumptions are
those named in the modules. Nearly all of them give types; the others are

- `SpaceAssumption`: the alignment of bases and the first base are multiples of
  the page size (0x400000, 0x1400000 and 0x1000);
- `ImageAssumption`: a link map is not empty, since it begins with the program,
  and a relocation refers to at most one symbol;
- `ExecAssumption`: a segment has `p_filesz <= p_memsz` and lies in the address
  space;
- `StackAssumption`: no type is twice in `aux_types`, and `AT_RANDOM` is in it;
- `HeaderAssumption`: the header field `e_phnum` ends behind the 24 bytes that a
  file must have, both of its bytes (it ends at 58);
- `StartupAssumption`: no directory is the empty string, which stands for "not
  found";
- `FilesAreFinite`: there are finitely many configuration files, for `StackHasRoom`.

Every theorem below has the same form: an inductive invariant, a lemma that `Init`
implies it, one that each action preserves it, and the property as a consequence.
TLC has checked each inductive invariant on the run of its module first, except
`ConfInv`, which asserts that some division of the result exists and is nothing TLC
can enumerate.

`DynLoaderProofs`:

- `TypeCorrect`: `TypeOK`, with the bounds of all loops. It rests on what the
  helpers return (`FindLibraryFiles`, `SearchSymType`, `SlotType`, `NeedsType`).
- `LoaderInvariant`: `LoaderInv`, in two parts. `LoadInv` is about loading and
  relocation. `DependenciesMapped` is not inductive: while
  the queue is being worked off it is false. The strengthening says what is true
  in between. Whatever a binary needs is in `loaded` or still queued
  (`NeedsPending`); a name in `loaded` is skipped or in the link map
  (`LoadedMapped`), and every binary's name is in `loaded` (`NamesLoaded`); the
  queue is empty outside `LoadDependingLibs` (`QueueLocal`). For relocation:
  `relocated` is exactly the set of the paths of the binaries with slots
  (`SlotsByPath`), each the first of its path (`SlotsFirst`), and the loop leaves
  none behind (`RelocBehind`). `CtorInv` is about the loop of `Execute`: the binaries
  that `Run` loaded are a prefix of the link map that no `dlopen` changes, and are
  all relocated; the constructors that have been called are those above `init_i`,
  in falling order (`CtorsFall`, `CtorsRight`), and none is left out (`CtorsDone`).
- `DependenciesAreMapped`, `NamesAreLoadedOnce`, `RelocationPrecedesUse`,
  `ChildrenAreInitialisedFirst`, `ConstructorsRunOnce` follow. The last two rest on
  `ByEarlier`: a binary is loaded on behalf of one before it, and the loop goes
  down.
- `NothingIsRebound`: the action property `NeverRebind`. The link map is only
  appended to (`LinkMapStep`), and a binary with slots has its path in
  `relocated` (`SlotsByPath`), so `RelocateBinary` does not touch it again.
- `ScopesAgree`: `ScopeAgreement`. The lemma behind it, `SearchSymGrow`, is that
  appending to a link map does not change where a definition is found.
- `CopiesAreShared`: `CopyShared`, through `CopySlots`, which looks at each slot by
  itself: a `COPY` searches from the second binary on, and what the program
  defines is found in the program first.
- `LoaderImplementsLinkMap`, the refinement. The step of `DynLoader` that ends a
  `Relocate` is the abstract step that extends the link map by a whole load; all
  others before it are stutters, since the loadee sees the link map only up to the
  last root. The abstract step demands that every new file was asked for, which
  needs a second invariant, `BinariesAreJustified`: a binary may serve the name it
  was loaded for, and an earlier one needs that name or it is a root.

`TlsProofs`:

- `LayoutInvariant`: `TlsInv`. The offsets of `TLSSymOffset` are the running
  negative sum of block sizes (`AccInv`), `Relocate` always leaves them computed
  for the whole link map (`WalkInv`), and the two loops of `Execute` follow the
  same sum (`ExecInv`), from which `TpoffMatchesLayout` is preserved.
- `BlocksAreWhereRelocated`, `OffsetsAreStable` (an action property),
  `BlocksAreDisjoint`.
- `StoresKeepInvariant` adds to `TlsInv` what memory holds while constructors and
  threads store into it (`ThreadInv`). The last block that was put down is intact,
  and `%fs:0` holds its own address once a first block that is no smaller than a
  pointer is down (`MemInv`); until then only a constructor that has a block of its
  own can have written there. `StoresKeepLayout`, `GetAddrFindsSingleBlock` (for
  every byte of the block, given its `ti_offset`), `EntryIsClean`,
  `ThreadsStoreInside` follow; the last needs that `sloader_tls_offset` is the lowest
  start of a block, so that a variable of any module, taken for one of that block,
  is still below `%fs`.

`ImageLoadingProofs`:

- `SpaceInvariant`, about `AddressSpace`, with what is known of each mapping
  (`MapsKnown`: it is a segment that the loop of `Load` has passed, or belongs to an
  earlier binary and ends below the base) and of `end_addr_` (`EndAbove`); then
  `BasesAreFresh`, `BinariesDoNotCollide`, `SegmentsAreCovered`. The arithmetic is in
  lemmas about rounding to pages (`PageFacts`): rounding down commutes with adding a
  base because the base is aligned.
- `ExecInvariant`, about `ExecLoader`. `memories_` is what `Load` recorded of the
  segments so far (`RecordsKept`), each keeps its pages until `Unload` comes to it
  (`PagesHeld`), no two are on one page (`PagesApart`), and the bytes written are those
  that the file has for them (`BytesCopied`). `ProgramIsInPlace` follows for segments
  in any order, `argv[0]` left out, and `OthersKeepTheirPages` (an action property) from the lemma that
  the truncated length never reaches beyond the pages that were asked for.

`ImageDataProofs`: `DataInvariant`. What makes `MAP_SHARED` segments safe is that
`fork` only happens while the loadee runs, and then every binary is relocated
(`LoopBehind`); so what is still to be relocated belongs to one process (`Unshared`)
and is as in the file (`StillFresh`). `SlotsAreMapped`, `StoresAreKept` (an action
property) and `CopiesAreInitial` follow. For the last, the libraries that `Run` loaded
are the first of every link map (`RunFirst`), so that a copy's source does not depend on
what is opened later. The invariant speaks of processes that
have ended, too, since the segments outlive them.

`DlThreadsProofs`: `SerialCallsAreUsable`, through `SerialInvariant`. `SerialInv` is
about the time in which no `dlopen` has met another call. One thread at most is in
`dlopen` (`OneCaller`). Between two calls nothing is pending (`QuietInv`); in a call it
says for each place of `LoadDependingLibs` and `Relocate` which binary is not mapped yet
(`CallReady`), by which library `loaded_` and `binaries_` differ (`CallLoaded`: the
argument of `dlopen` is entered after it is mapped, a needed library before), that what
is needed is loaded, queued or in hand (`CallNeeds`), and that the first mapping of all
that the loop has passed is relocated (`CallRelocated`). When the loop begins the queue
is empty and the mapped libraries are closed under `DT_NEEDED`, so that they contain the
`Closure` of each (`MappedClosed`), cycles included. What was bound or returned earlier
stays the first definition because `binaries_` is only appended to (`FirstsStay`).

`EntryProofs`:

- `StackIsAbi`, through `StackInvariant`. `Target` says which word belongs at which
  index of the array; the three loops that fill it keep the index in step with
  their own (`IndexRight`), what is below it is `Target`, what is above is zero
  (`Filled`), and `ExecuteCore` pushes from the start (`Pushed`).
- `CopySeesUntilMoved`: `SeesChanges`, through `LibcInvariant`. What a lookup finds in
  the present array is what each name was last set to; a `COPY` is the present array
  as long as neither side was moved. `setenv` and `putenv` replace the first entry of
  a name or move everything to a longer array; `unsetenv` drops every entry of the
  name, and that a lookup of another name still finds its first entry is an induction
  over the environment (`LookupWithout`).
- `MainGetsPresentEnv`: the action property `MainEnvCurrent`, from the same invariant,
  and that `environ` is null only after `clearenv`.

`FilesProofs`:

- `FirstInPathRuns`: `RunsFirstInPath`. What `SplitWith` has split and what it has
  not are `PATH` (`SplitsPath`); no directory before the loop's has the file
  (`Searched`).
- `DirsComeInOrder`: `DirsInOrder`. The invariant, `ConfInv`, divides the result
  among the activations on the stack (`Account`). To each belongs a part of the
  result, and the parts follow one another. The part of the innermost is what the
  items and files that it has passed stand for (`Working`); that of any other stops
  before the file it has called for (`Waiting`). How much of `Expand` an
  activation stands for depends on its depth (`At`), so the account is exact also
  where files include one another in a circle and the stack is about to overflow.
  When an activation returns, its part is all that its file stands for, and joins the
  part of the caller in the place of the include. That the recursive functions
  `Joined` and `Expand` exist and follow their equations is proved with
  `NatRecursion`.
- `StackHasRoom`: `FitsStack`. Each activation was entered by a line of the one below
  it. Without a cycle no file is on such a chain twice: the files between the two
  would be a set each of whose members includes another. So the chain is no
  longer than the number of files (`ChainIsShort`, by the pigeonhole principle).
- `HeadersAreComplete`: `HeadersComplete`. In a sound file every header ends
  before the end of the file, and the file before its last page (`SoundIsInside`), so each
  header is read as it is; a file that ends within `e_phnum` has the low byte of it
  only (`LowByte`); the loops of both classes keep the only `PT_DYNAMIC`
  and `PT_TLS` of those they have passed (`ReadSoFar`, `ScannedSoFar`).
- `ParsingIsOrderFree`, `SymbolsAreRead`, `WellFormedIsAccepted`, through
  `SectionInvariant`. Each pass keeps, for its tags, the last value of the entries
  it has passed (`LastBelow`); the second adds the needed libraries in their order
  (`NeededBelow`), by a string table that the first has already found; all words
  that were read as symbols are below `DT_STRSZ` (`SymsSoFar`).

`Startup`, `ProgramHeaders`, `LibcTable` and `ExecLoader` are used through
`INSTANCE`; the modules that compose them assume of each instance what it needs, and
TLC evaluates it in every run of these modules.

`NatRecursion` is what these proofs use for induction over data. The induction
theorems of the library take a predicate as a parameter, which the provers do not
instantiate. `SetInduction` says the same of a set, the numbers for which something
holds, and `RecursionIs` of a function, the step of a recursion; both come from the
least number for which something fails (`LeastExists`).

Only model-checked are `LoaderReturns`, `ReaderReturns` and `DlopenReturns`: liveness
under fairness is out of this prover's reach. Every other property of a passing run
is the statement of a theorem. `CallsArrive` of `libc_casts` is a constant fact about
the forms of entries and has no theorem.

`TypeOK` and `LoadedOnce` of `DynLoader` are parts of `LoaderInv`, which
`loader_graph` checks.

## Assumptions and abstractions

- The file system does not change while sloader runs.
- Libraries are of type `ET_DYN`, segments come in ascending order, as the ELF
  format demands.
- The linker puts `sloader_dummy_to_secure_tls_space` last in sloader's own
  thread-local block, so that the thread pointer is the end of the array.
- `mmap` follows a hint exactly where the addresses are free.
- Relocations are set-valued and their addends left out; the contents of code and
  data are left out, except in `TlsLayout`, `ImageData` and `ExecLoader`.
- A data race on one of the loader's containers is undefined; `DlThreads` lets it
  end the process at any time (`Crash`) or go well, and leaves out containers
  that are corrupted and still in use.
- `fork` copies the heap and shares `MAP_SHARED` segments; `pthread_create` clears
  the array and sets up the thread control block; `setenv` and `putenv` replace in place
  what is there and move to a new array for what is not, `unsetenv` removes in place,
  `clearenv` makes `environ` null. These are the C library's and are marked external.
- A string given to `putenv` is not changed afterwards.
- `ImageData` has no `dlopen` with dependences and no table of the C library;
  `DynLoader` has.
- `dlopen(NULL)` and `dlopen` of a skipped name change nothing and are no actions;
  neither is `dladdr`.
- Offsets in `TlsLayout` are signed; the code's unsigned arithmetic wraps around
  to the same addresses.

## Not modelled

- What the individual functions of the C library do, and the names of the table
  that differ from others in nothing but the name. Read with it: `__xstat64`,
  `__lxstat64`, `__fxstat64` and `__fxstatat64` (`libc_mapping.cc:964`) are bound to
  functions that lack their leading argument, `iswcntrl` and `iswprint` to
  `iscntrl` and `isprint`, `__assert_fail` and `__stack_chk_fail` to functions that
  return; functions registered with `__cxa_atexit` are never called, and `atexit`
  returns whatever the register holds.
- The table holds more: `memrchr_c` calls `memchr` (`libc_mapping.cc:158`), so a
  loadee's `memrchr` returns the first occurrence; the `_chk` functions are bound to
  functions that do not check.
- The array that constructors get for an environment (line 381) has no null pointer at
  its end; what lies behind it is not modelled.
- That a prefix match (line 303) may take the wrong file: `FindLibrary` may return it,
  and every property takes it for the library.
- What overlapping `dlopen`s leave behind, beyond that they end.
- Variables of the C library that are bound to empty functions (`__progname`,
  `_rtld_global_ro`): what code means when it is read as data cannot be said.
- Page protections, the alignment of the stack, signals.
- Text: logging, `HexString`, `ShowRela`, the printing of `raw_write.h`.
  `ldsodefs.h`, more than a third of the
  lines of `src/`, is a copy of a header of glibc that nothing includes.

## Plan

Done, in the order of importance: `LibrarySearch` and `DynLoader` with `LinkMap`;
`TlsLayout`; `AddressSpace`; `InitialStack`; `DynamicSection`; `LdSoConf`;
`Startup`; `DlThreads`; `TlsThreads`; `ImageData`; `LibcTable`; `ProgramHeaders`;
`ExecLoader`; the proofs of the safety properties of all of them.

What could follow: `AddressSpace` with `ProgramHeaders`, for the bases of headers that
are not sound.
