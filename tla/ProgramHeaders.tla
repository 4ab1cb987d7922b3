--------------------------- MODULE ProgramHeaders ---------------------------
(***************************************************************************)
(* How a file becomes an object: the constructor of ELFBinary, and the     *)
(* older MakeExecLoader with the constructor of ExecLoader.  Both map the  *)
(* file and trust the header for the place of the program headers; they    *)
(* differ in what they do with a second PT_DYNAMIC.                        *)
(***************************************************************************)
EXTENDS Integers, Sequences

CONSTANTS
  PageSize,  \* 0x1000
  MinSize,   \* 8 + 16: a file must be larger
  PhnumEnd,  \* the end of e_phnum, of two bytes, in the header, beyond MinSize
  Byte,      \* 256
  PhdrSize,  \* sizeof(Elf64_Phdr)
  Files      \* the files there may be

\* phdrs are the types at e_phoff; e_phentsize is PhdrSize in a sound file.
PType == {"LOAD", "DYNAMIC", "TLS", "OTHER"}
File  == [readable : BOOLEAN, size : Nat, phoff : Nat, phentsize : Nat, phdrs : Seq(PType)]

HeaderAssumption ==
  /\ PageSize \in Nat \ {0} /\ PhdrSize \in Nat \ {0}
  /\ MinSize \in Nat /\ PhnumEnd \in Nat /\ MinSize < PhnumEnd - 1
  /\ Byte \in Nat \ {0}
  /\ Files \subseteq File

VARIABLES
  class,    \* whose constructor it is
  file,
  pc,
  i,        \* the loop over the program headers
  phdrs,    \* file_phdrs_, phdrs_
  dynamic,  \* file_dynamic_, ph_dynamic_: an index into phdrs, 0 for none
  tls       \* file_tls_, and has_tls_ if it is not 0

vars == <<class, file, pc, i, phdrs, dynamic, tls>>

Init ==
  /\ class \in {"ELFBinary", "ExecLoader"}
  /\ file \in Files
  /\ pc = "open"
  /\ i = 1
  /\ phdrs = <<>>
  /\ dynamic = 0 /\ tls = 0

\* CHECK(fd >= 0), CHECK_GT(size, 8UL + 16UL)
Refused == ~file.readable \/ file.size <= MinSize

Open ==
  /\ pc = "open"
  /\ pc' = IF Refused THEN "dead" ELSE "read"
  /\ UNCHANGED <<class, file, i, phdrs, dynamic, tls>>

\* CHECK(file_base_addr_ != MAP_FAILED)
MapFails ==
  /\ pc = "open" /\ ~Refused
  /\ pc' = "nomem"
  /\ UNCHANGED <<class, file, i, phdrs, dynamic, tls>>

MappedSize == ((file.size + PageSize - 1) \div PageSize) * PageSize

\* The rest of the last page reads as zeros, and with it the high byte of e_phnum
\* or both.
Phnum ==
  CASE file.size >= PhnumEnd    -> Len(file.phdrs)
    [] file.size = PhnumEnd - 1 -> Len(file.phdrs) % Byte
    [] OTHER                    -> 0
At(k) == file.phoff + (k - 1) * file.phentsize

\* Header k lies where the mapping ends, or past it.
Outside(k) == At(k) + PhdrSize > MappedSize
TypeAt(k)  ==
  IF Outside(k) THEN {"UNREADABLE"}
  ELSE IF At(k) + PhdrSize <= file.size /\ file.phentsize = PhdrSize THEN {file.phdrs[k]}
  ELSE PType  \* bytes of something else

Keep(t, type, old) == IF type = t THEN i ELSE old

\* ELFBinary copies the header; ExecLoader keeps its address, which need not be
\* a good one.
ReadPhdr ==
  /\ pc = "read" /\ i <= Phnum
  /\ class = "ELFBinary" => ~Outside(i)
  /\ \E type \in TypeAt(i) :
       /\ phdrs' = Append(phdrs, type)
       /\ IF class = "ELFBinary"
          THEN /\ dynamic' = Keep("DYNAMIC", type, dynamic)
               /\ tls' = Keep("TLS", type, tls)
          ELSE UNCHANGED <<dynamic, tls>>
  /\ i' = i + 1
  /\ UNCHANGED <<class, file, pc>>

\* A page behind the file is not mapped by this mmap: the read may trap.
ReadFaults ==
  /\ pc = "read" /\ i <= Phnum
  /\ class = "ELFBinary" /\ Outside(i)
  /\ pc' = "fault"
  /\ UNCHANGED <<class, file, i, phdrs, dynamic, tls>>

\* ELFBinary is through; ExecLoader now looks at the headers.
ReadDone ==
  /\ pc = "read" /\ i > Phnum
  /\ pc' = IF class = "ELFBinary" THEN "done" ELSE "scan"
  /\ i' = 1
  /\ UNCHANGED <<class, file, phdrs, dynamic, tls>>

\* Mutant of Scan: the CHECK is made for every header.
ScanCheckAll ==
  /\ pc = "scan" /\ i <= Len(phdrs)
  /\ pc' = IF phdrs[i] = "UNREADABLE" THEN "fault" ELSE IF dynamic # 0 THEN "dead" ELSE pc
  /\ dynamic' = IF phdrs[i] = "DYNAMIC" /\ dynamic = 0 THEN i ELSE dynamic
  /\ i' = i + 1
  /\ UNCHANGED <<class, file, phdrs, tls>>

\* CHECK(ph_dynamic_ == NULL)
Scan ==
  /\ pc = "scan" /\ i <= Len(phdrs)
  /\ pc' = CASE phdrs[i] = "UNREADABLE" -> "fault"
             [] phdrs[i] = "DYNAMIC" /\ dynamic # 0 -> "dead"
             [] OTHER -> pc
  /\ dynamic' = IF phdrs[i] = "DYNAMIC" /\ dynamic = 0 THEN i ELSE dynamic
  /\ i' = i + 1
  /\ UNCHANGED <<class, file, phdrs, tls>>

ScanDone ==
  /\ pc = "scan" /\ i > Len(phdrs)
  /\ pc' = "done"
  /\ UNCHANGED <<class, file, i, phdrs, dynamic, tls>>

Next ==
  Open \/ MapFails \/ ReadPhdr \/ ReadFaults \/ ReadDone \/ Scan \/ ScanDone

Spec == Init /\ [][Next]_vars

-----------------------------------------------------------------------------
(***************************************************************************)
(*                              Properties                                 *)
(***************************************************************************)

Of(t) == {k \in DOMAIN file.phdrs : file.phdrs[k] = t}

\* A file as the ELF format has it.
Sound ==
  /\ file.readable /\ file.size >= PhnumEnd
  /\ file.phentsize = PhdrSize
  /\ file.phoff + Len(file.phdrs) * PhdrSize <= file.size
  /\ \A t \in {"DYNAMIC", "TLS"} : \A j, k \in Of(t) : j = k

\* A sound file is never refused and never leads out of the mapping, and both
\* constructors keep every program header of it in its order, so that Load maps
\* the segments in ascending order, and the only PT_DYNAMIC; ELFBinary also knows
\* the only PT_TLS, and that there is one.  A file that ends before e_phnum has a
\* table of length 0, since the rest of its page reads as zeros; one that ends
\* within it has a table as long as its low byte says, which may lead anywhere.
HeadersComplete ==
  /\ Sound => pc \notin {"dead", "fault"}
  /\ pc = "done" /\ Sound =>
       /\ phdrs = file.phdrs
       /\ dynamic \in Of("DYNAMIC") \/ (dynamic = 0 /\ Of("DYNAMIC") = {})
       /\ class = "ELFBinary" => tls \in Of("TLS") \/ (tls = 0 /\ Of("TLS") = {})
  /\ file.size < PhnumEnd - 1 => pc # "fault" /\ phdrs = <<>>
  /\ file.size = PhnumEnd - 1 => Len(phdrs) <= Len(file.phdrs) % Byte

=============================================================================
