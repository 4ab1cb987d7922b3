---------------------------- MODULE MCDynLoader ----------------------------
(***************************************************************************)
(* Instances of DynLoader.  A file is named by a letter: m the main        *)
(* program, a, b and c libraries, a1 a file whose name starts with the     *)
(* name of a ("liba.so.10" next to "liba.so.1").  The name "/b" is an      *)
(* absolute path of b, "libc.so" is skipped, "gone" is found nowhere.      *)
(***************************************************************************)
EXTENDS LinkMapRefinement

MCFile == {"m", "a", "a1", "b", "c"}
MCName == MCFile \cup {"/b", "libc.so", "gone"}
MCDir  == {"lib", "run"}

\* Directory "run" is only searched for the binaries whose DT_RUNPATH it is.
MCContent    == [d \in MCDir |-> IF d = "lib" THEN {"m", "a", "b", "c"} ELSE {"a", "a1"}]
MCFileName   == [f \in MCFile |-> f]
MCBaseName   == [n \in MCName |-> IF n = "/b" THEN "b" ELSE n]
MCStartsWith == [n \in MCName |-> IF n = "a" THEN {"a", "a1"} ELSE {n}]
MCAbsolute   == [n \in MCName |-> IF n = "/b" THEN {"b"} ELSE {}]
MCNoDirs     == <<>>
MCDefault    == <<"lib">>

MCSkip == {"libc.so"}
MCSym  == {"x", "t", "atexit", "dlopen", "puts", "errno"}
MCDummyFuns   == {"atexit"}
MCSloaderFuns == {"dlopen"}
MCLibcFuns    == {"puts"}
MCLibcTls == {"errno"}

Lib(needed, ctor) ==
  [needed |-> needed, runpath |-> <<>>, rpath |-> <<>>, defs |-> {}, weaks |-> {},
   tls |-> {}, rela |-> {}, ctor |-> ctor]

-----------------------------------------------------------------------------
\* Dependency graphs: what m, a and b need, with cycles, self-dependences,
\* diamonds, a missing library and a path; m has a DT_RUNPATH or not.
GraphDisks ==
  {[f \in MCFile |->
      CASE f = "m" -> [Lib(nm, TRUE) EXCEPT !.runpath = rp]
        [] f = "a" -> Lib(na, TRUE)
        [] f = "b" -> Lib(nb, TRUE)
        [] OTHER   -> Lib(<<"a">>, FALSE)] :
    nm \in {<<"a">>, <<"a", "b">>, <<"/b", "a">>, <<"b", "libc.so">>},
    na \in {<<>>, <<"b">>, <<"a", "b">>, <<"gone">>},
    nb \in {<<>>, <<"a">>, <<"libc.so", "a">>},
    rp \in {<<>>, <<"run">>}}

-----------------------------------------------------------------------------
\* Symbol scopes: m needs a and b, c is there for dlopen.  Each binary does
\* with x one of: nothing, define it, refer to it, refer to it weakly, define
\* and refer to it; m may also copy it.
Use(t, s)  == [type |-> t, sym |-> s]
Roles      == {"none", "def", "use", "weak", "both"}
MainRoles  == {"none", "use", "weak", "both", "copy"}

WithRole(e, role) ==
  [e EXCEPT
     !.defs  = @ \cup (IF role \in {"def", "both", "copy"} THEN {"x"} ELSE {}),
     !.weaks = @ \cup (IF role = "weak" THEN {"x"} ELSE {}),
     !.rela  = @ \cup CASE role \in {"use", "weak", "both"} -> {Use("GLOB_DAT", "x")}
                        [] role = "copy" -> {Use("COPY", "x")}
                        [] OTHER -> {}]

ScopeDisks ==
  {[f \in MCFile |->
      CASE f = "m" -> WithRole(Lib(<<"a", "b">>, FALSE), rm)
        [] f = "a" -> WithRole(Lib(<<>>, FALSE), ra)
        [] f = "b" -> WithRole(Lib(<<>>, TRUE), rb)
        [] f = "c" -> WithRole(Lib(<<"b">>, FALSE), rc)
        [] OTHER   -> Lib(<<>>, FALSE)] :
    rm \in MainRoles, ra \in Roles, rb \in Roles, rc \in Roles}

\* Every relocation type, resolved or not: t is thread-local, atexit, errno and
\* puts belong to the C library, dlopen is there and in a library.
RelaDisks ==
  {[f \in MCFile |->
      CASE f = "m" -> [Lib(<<"a">>, FALSE) EXCEPT !.rela = {r} \cup {Use("RELATIVE", "x")}]
        [] f = "a" -> [Lib(<<>>, FALSE) EXCEPT !.defs = d, !.tls = d \cap {"t"},
                                               !.rela = {r}]
        [] OTHER   -> Lib(<<>>, FALSE)] :
    r \in [type : RelaType, sym : MCSym], d \in SUBSET {"x", "t", "dlopen"}}

SymbolDisks == ScopeDisks \cup RelaDisks

=============================================================================
