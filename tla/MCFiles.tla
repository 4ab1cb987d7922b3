------------------------------ MODULE MCFiles ------------------------------
(***************************************************************************)
(* The instance of FileReading that TLC checks.                            *)
(***************************************************************************)
EXTENDS FileReading, SequencesExt

-----------------------------------------------------------------------------
\* ld.so.conf: three files and a foreign one, that include one another, a file
\* twice, or themselves.

D(x) == [kind |-> "dir", dir |-> x]
I(s) == [kind |-> "include", files |-> s]
Comment == [kind |-> "comment"]

RootTexts  == {<<I(<<"a", "b">>), D("d1")>>, <<D("d1"), I(<<"i386", "a", "a">>), Comment>>,
               <<I(<<>>), I(<<"b">>), I(<<"a">>)>>, <<I(<<"conf">>)>>}
InnerTexts == {<<>>, <<D("d2")>>, <<Comment, I(<<"b">>), D("d3")>>, <<D("d2"), I(<<"a", "i386">>)>>}
MCTexts == {[f \in Conf |-> CASE f = "conf" -> r [] f = "a" -> x [] f = "b" -> y
                              [] OTHER -> <<D("d3"), I(<<"conf">>)>>] :
              r \in RootTexts, x \in InnerTexts, y \in InnerTexts}

-----------------------------------------------------------------------------
\* Program headers: pages of 8 bytes, a header whose e_phnum is at 3 and 4, program
\* headers of 2 bytes, and bytes with two values.  Files too short for anything, for
\* a header, for both bytes of e_phnum, ending within the table, on a page and
\* behind it; tables in place, far away, and with entries of another size.

Phdrs == {<<>>, <<"LOAD">>, <<"OTHER", "LOAD", "DYNAMIC">>, <<"LOAD", "DYNAMIC", "TLS">>,
          <<"TLS", "LOAD", "LOAD", "DYNAMIC">>, <<"DYNAMIC", "LOAD", "DYNAMIC", "TLS">>,
          <<"LOAD", "TLS", "DYNAMIC", "TLS">>}
MCFileSet == [readable : BOOLEAN, size : {0, 2, 3, 4, 5, 8, 11, 13, 16},
              phoff : {5, 14}, phentsize : {1, 2}, phdrs : Phdrs]

-----------------------------------------------------------------------------
\* Dynamic sections, complete or not, read from each entry on, forwards and
\* backwards: any entry comes before any other.

E(t, v) == [tag |-> t, val |-> v]
MCRelaSize == [x \in {"Rela", "Sym", "DT_RELA", "DT_REL"} |->
                 CASE x = "Rela" -> 3 [] x = "Sym" -> 2 [] x = "DT_RELA" -> 7 [] OTHER -> 17]

Strings == <<E("STRTAB", 40), E("STRSZ", 5)>>
Bodies ==
  {Strings \o <<E("NEEDED", 1), E("NEEDED", 3), E("SYMTAB", 60), E("NULL", 0)>>,
   Strings \o <<E("RELA", 50), E("RELASZ", 6), E("RELAENT", 3), E("SYMTAB", 60)>>,
   Strings \o <<E("RELA", 50), E("RELASZ", 5), E("RELAENT", 3)>>,
   Strings \o <<E("RELA", 50), E("RELASZ", 6)>>,
   Strings \o <<E("JMPREL", 50), E("PLTRELSZ", 3), E("PLTREL", 7), E("SYMENT", 2)>>,
   Strings \o <<E("JMPREL", 50), E("PLTRELSZ", 3), E("PLTREL", 17)>>,
   Strings \o <<E("JMPREL", 50), E("PLTRELSZ", 3), E("SYMENT", 4)>>,
   Strings \o <<E("RPATH", 1), E("RPATH", 2), E("INIT", 9), E("PLTREL", 8)>>,
   Strings \o <<E("RUNPATH", 1), E("RPATH", 2), E("RPATH", 3), E("SYMTAB", 60)>>,
   <<E("SYMTAB", 60), E("STRSZ", 5), E("SYMENT", 2)>>,
   <<E("NEEDED", 1), E("STRSZ", 5), E("INIT_ARRAY", 9), E("INIT_ARRAYSZ", 8)>>}

Rotate(s, n) == SubSeq(s, n + 1, Len(s)) \o SubSeq(s, 1, n)
Orders == UNION {{Rotate(s, n) : n \in 0..Len(s) - 1} : s \in Bodies}

MCSections == {[dyn |-> d, whole |-> w, e_type |-> x] :
                 d \in Orders \cup {Reverse(o) : o \in Orders} \cup {<<>>},
                 w \in BOOLEAN, x \in EType}

MCTables == {[names |-> n, odd |-> o, real |-> 3] :
               n \in {<<0, 1, 4, 5>>, <<0, 1, 4, 2, 9>>, <<0, 1, 4, 3>>, <<0, 1, 6, 9>>},
               o \in {{}, {4}}}

-----------------------------------------------------------------------------
\* A part that does not run has one of its initial states.
FilesInit ==
  /\ part \in {"main", "conf", "elf", "dynamic"}
  /\ part # "main" => argv1 = "none" /\ at = [d \in PathDir \cup {"path"} |-> "none"] /\ PATH = <<>>
  /\ part # "conf" => text = CHOOSE t \in Texts : TRUE
  /\ part # "elf" => class = "ELFBinary" /\ elf = CHOOSE f \in Files : TRUE
  /\ part # "dynamic" => file = (CHOOSE s \in Sections : TRUE) /\ table = CHOOSE t \in Tables : TRUE
  /\ S!Init /\ C!Init /\ P!Init /\ Init

\* Each part is straight-line code, scheduled by the kernel.
FilesSpec ==
  FilesInit /\ [][FilesNext]_<<part, main, conf, elfs, vars>>
            /\ WF_<<part, main, conf, elfs, vars>>(FilesNext)

=============================================================================
