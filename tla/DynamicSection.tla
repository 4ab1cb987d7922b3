--------------------------- MODULE DynamicSection ---------------------------
(***************************************************************************)
(* ELFBinary::ParseDynamic: two passes over the dynamic section, whose     *)
(* entries come in any order, then the tables they point to.  The symbol   *)
(* table has no length of its own: it is read until a word does not look   *)
(* like the name of a symbol.                                              *)
(***************************************************************************)
EXTENDS Integers, Sequences, FiniteSets, FiniteSetsExt

CONSTANTS
  Sections,  \* the dynamic sections a file may have: sequences of entries
  Tables,    \* what may lie in memory from the symbol table on
  RelaSize   \* sizeof(Elf64_Rela), sizeof(Elf64_Sym), DT_RELA and DT_REL

\* The tags whose values are used; ParseDynamic ignores the others, DT_NULL too:
\* it goes on to the end of the segment.
Tag == {"STRTAB", "STRSZ", "NEEDED", "RUNPATH", "RPATH", "RELA", "RELASZ", "RELAENT",
        "JMPREL", "PLTRELSZ", "PLTREL", "SYMTAB", "SYMENT", "INIT",
        "INIT_ARRAY", "INIT_ARRAYSZ"}
Entry == [tag : Tag \cup {"NULL"}, val : Nat]
EType == {"ET_DYN", "ET_EXEC", "other"}

\* real symbols, then what happens to follow.  names are the words at st_name, odd
\* is where the byte at st_info is none of the types of a symbol.
Table ==
  {t \in [names : Seq(Nat), odd : SUBSET Nat, real : Nat] :
     /\ t.real \in 1..Len(t.names)
     /\ t.odd \subseteq t.real + 1..Len(t.names)}

ASSUME SectionAssumption ==
  /\ Sections \subseteq [dyn : Seq(Entry), whole : BOOLEAN, e_type : EType]
  /\ Tables \subseteq Table
  /\ RelaSize \in [{"Rela", "Sym", "DT_RELA", "DT_REL"} -> Nat \ {0}]

VARIABLES
  file,     \* the section, whether its size is that of whole entries, and the type
            \*   of the file
  table,    \* what lies at the address of DT_SYMTAB
  pc,
  k,        \* the loop over the section or over the symbols
  field,    \* the members of ELFBinary; 0 where there was no entry
  neededs,  \* the DT_NEEDED names, each an offset and the strtab_ it was added to
  relas, pltrelas,  \* the number of relocations read
  symtabs   \* the number of symbols read

vars == <<file, table, pc, k, field, neededs, relas, pltrelas, symtabs>>

Init ==
  /\ file \in Sections
  /\ table \in Tables
  /\ pc = "strings"
  /\ k = 1
  /\ field = [t \in Tag |-> 0]
  /\ neededs = <<>>
  /\ relas = 0 /\ pltrelas = 0 /\ symtabs = 0

Die == pc' = "dead" /\ UNCHANGED <<file, table, k, field, neededs, relas, pltrelas, symtabs>>

Goto(l) == pc' = l /\ k' = 1

\* CHECK(base_addr_ != 0UL || ehdr_.e_type == ET_EXEC), where Load makes
\* base_addr_ 0 for any type but ET_DYN; and
\* CHECK_EQ(file_dynamic_.p_filesz % dyn_size, 0).
Loaded == file.e_type # "other" /\ file.whole

NotLoaded == pc = "strings" /\ ~Loaded /\ Die

\* The first pass, for DT_STRTAB and DT_STRSZ only.
FirstPass ==
  /\ pc = "strings" /\ Loaded /\ k <= Len(file.dyn)
  /\ LET e == file.dyn[k] IN
       field' = IF e.tag \in {"STRTAB", "STRSZ"} THEN [field EXCEPT ![e.tag] = e.val] ELSE field
  /\ k' = k + 1
  /\ UNCHANGED <<file, table, pc, neededs, relas, pltrelas, symtabs>>

\* CHECK(strtab_ != nullptr || ehdr_.e_type == ET_EXEC)
NoStrings ==
  /\ pc = "strings" /\ Loaded /\ k > Len(file.dyn)
  /\ field["STRTAB"] = 0 /\ file.e_type # "ET_EXEC"
  /\ Die

FirstDone ==
  /\ pc = "strings" /\ Loaded /\ k > Len(file.dyn)
  /\ field["STRTAB"] # 0 \/ file.e_type = "ET_EXEC"
  /\ Goto("tags")
  /\ UNCHANGED <<file, table, field, neededs, relas, pltrelas, symtabs>>

\* The CHECKs on DT_PLTREL and DT_SYMENT; and a string is not read through a
\* null strtab_.
Acceptable(e) ==
  /\ e.tag \in {"NEEDED", "RUNPATH", "RPATH"} => field["STRTAB"] # 0
  /\ e.tag = "PLTREL" => e.val \in {RelaSize["DT_RELA"], RelaSize["DT_REL"]}
  /\ e.tag = "SYMENT" => e.val = RelaSize["Sym"]

\* Mutant of Keep: the first entry of a tag wins.
KeepFirst(t, v) == IF field[t] = 0 THEN [field EXCEPT ![t] = v] ELSE field

\* strtab_ + dyn->d_un.d_val
Resolve(off) == [off |-> off, strtab |-> field["STRTAB"]]

\* A member is assigned for each entry with its tag.
Keep(t, v) == [field EXCEPT ![t] = v]

SecondPass ==
  /\ pc = "tags" /\ k <= Len(file.dyn)
  /\ Acceptable(file.dyn[k])
  /\ LET e == file.dyn[k] IN
       /\ neededs' = IF e.tag = "NEEDED" THEN Append(neededs, Resolve(e.val)) ELSE neededs
       /\ field' = IF e.tag \in Tag \ {"NEEDED", "STRTAB", "STRSZ"}
                   THEN Keep(e.tag, e.val) ELSE field
  /\ k' = k + 1
  /\ UNCHANGED <<file, table, pc, relas, pltrelas, symtabs>>

BadEntry ==
  /\ pc = "tags" /\ k <= Len(file.dyn)
  /\ ~Acceptable(file.dyn[k])
  /\ Die

SecondDone ==
  /\ pc = "tags" /\ k > Len(file.dyn)
  /\ Goto("relas")
  /\ UNCHANGED <<file, table, field, neededs, relas, pltrelas, symtabs>>

\* Mutant of Whole: operands swapped.
WholeSwapped(n, m) == n # 0 /\ m # 0 /\ m % n = 0

\* A table of relocations with n bytes, in entries of m bytes: m is 0 where the
\* entry is missing, and the division ends the process.
Whole(n, m) == m # 0 /\ n % m = 0

\* Set by DT_PLTREL along with pltrel_; of another size for DT_REL, which is
\* refused in any case.
PltRelEnt == IF field["PLTREL"] = 0 THEN 0 ELSE RelaSize["Rela"]

ReadRelas ==
  /\ pc = "relas"
  /\ field["RELA"] # 0 => Whole(field["RELASZ"], field["RELAENT"])
  /\ field["JMPREL"] # 0 => /\ Whole(field["PLTRELSZ"], PltRelEnt)
                            /\ field["PLTREL"] = RelaSize["DT_RELA"]
  /\ relas' = IF field["RELA"] # 0 THEN field["RELASZ"] \div field["RELAENT"] ELSE 0
  /\ pltrelas' = IF field["JMPREL"] # 0 THEN field["PLTRELSZ"] \div PltRelEnt ELSE 0
  /\ Goto("syms")
  /\ UNCHANGED <<file, table, field, neededs, symtabs>>

BadRelas ==
  /\ pc = "relas"
  /\ \/ field["RELA"] # 0 /\ ~Whole(field["RELASZ"], field["RELAENT"])
     \/ field["JMPREL"] # 0 /\ ~(/\ Whole(field["PLTRELSZ"], PltRelEnt)
                                 /\ field["PLTREL"] = RelaSize["DT_RELA"])
  /\ Die

\* Mutant of LooksLikeSym: the last byte of the string table counts as out.
LooksLikeSymStrict(n) == n + 1 < field["STRSZ"]

LooksLikeSym(n) == n < field["STRSZ"]

\* The first symbol, the null symbol, is taken as it is.
ReadSym ==
  /\ pc = "syms" /\ field["SYMTAB"] # 0
  /\ k <= Len(table.names)
  /\ k = 1 \/ LooksLikeSym(table.names[k])
  /\ symtabs' = symtabs + 1
  /\ k' = k + 1
  /\ UNCHANGED <<file, table, pc, field, neededs, relas, pltrelas>>

\* The memory ends before the loop does.
ReadPastEnd ==
  /\ pc = "syms" /\ field["SYMTAB"] # 0
  /\ k > Len(table.names)
  /\ Die

EndOfSyms ==
  field["SYMTAB"] # 0 => k \in 2..Len(table.names) /\ ~LooksLikeSym(table.names[k])

\* Every symbol of 1..n has a name, and for ShowSTT, which aborts otherwise, a
\* type: the arguments of LOG are evaluated though nothing is written.
ShowSym(n) == n > 0 => field["STRTAB"] # 0 /\ table.odd \cap 1..n = {}

SymsDone ==
  /\ pc = "syms" /\ EndOfSyms
  /\ ShowSym(symtabs)
  /\ pc' = "done"
  /\ UNCHANGED <<file, table, k, field, neededs, relas, pltrelas, symtabs>>

BadSym ==
  /\ pc = "syms" /\ EndOfSyms
  /\ ~ShowSym(symtabs)
  /\ Die

Next ==
  \/ NotLoaded \/ FirstPass \/ NoStrings \/ FirstDone \/ SecondPass \/ BadEntry \/ SecondDone
  \/ ReadRelas \/ BadRelas \/ ReadSym \/ ReadPastEnd \/ SymsDone \/ BadSym

Spec == Init /\ [][Next]_vars

-----------------------------------------------------------------------------
(***************************************************************************)
(*                              Properties                                 *)
(***************************************************************************)

\* The entries with a tag; the last one says what the tag's value is.
With(t) == {j \in DOMAIN file.dyn : file.dyn[j].tag = t}
Val(t)  == IF With(t) = {} THEN 0 ELSE file.dyn[Max(With(t))].val

\* What is parsed does not depend on where in the section an entry is: every
\* member has the value of its tag, and the needed libraries, in their order,
\* are named by the string table even if it comes after them.
OrderFree ==
  pc = "done" =>
    /\ \A t \in Tag \ {"NEEDED"} : field[t] = Val(t)
    /\ Len(neededs) = Cardinality(With("NEEDED"))
    /\ \A j \in With("NEEDED") :
         neededs[Cardinality(With("NEEDED") \cap 1..j)] =
           [off |-> file.dyn[j].val, strtab |-> Val("STRTAB")]

\* No symbol of the file is missed, whatever follows the table.
AllSymbolsRead ==
  pc = "done" /\ field["SYMTAB"] # 0
     /\ (\A j \in 1..table.real : table.names[j] < Val("STRSZ"))
    => symtabs >= table.real

\* A section of a shared library as linkers write it.
Has(t) == Val(t) # 0
WellFormed ==
  /\ Loaded /\ Has("STRTAB")
  /\ Has("RELA") => Has("RELAENT") /\ Val("RELASZ") % Val("RELAENT") = 0
  /\ Has("JMPREL") => /\ Val("PLTREL") = RelaSize["DT_RELA"]
                      /\ Val("PLTRELSZ") % RelaSize["Rela"] = 0
  /\ \A j \in DOMAIN file.dyn : Acceptable(file.dyn[j])

\* The parser gives up on such a section only because of what happens to follow
\* the symbol table: up to the end of the memory every word is below the size of
\* the string table, or one is that is no symbol and has no known type.
AcceptsWellFormed ==
  pc = "dead" /\ WellFormed =>
    /\ symtabs >= table.real
    /\ \A j \in 2..symtabs : table.names[j] < Val("STRSZ")
    /\ symtabs = Len(table.names) \/ \E j \in table.odd : j <= symtabs

=============================================================================
