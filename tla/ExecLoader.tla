----------------------------- MODULE ExecLoader -----------------------------
(***************************************************************************)
(* ExecLoader, sloader's first loader, for static programs; nothing calls  *)
(* it now.  Load maps every PT_LOAD segment at its own address, as a hint  *)
(* without MAP_FIXED, and records what Unload will give to munmap; Execute *)
(* builds a stack and jumps.  The rest of the process goes on mapping      *)
(* memory meanwhile.  Memory is divided into pages of PageSize bytes.      *)
(***************************************************************************)
EXTENDS Integers, Sequences, SequencesExt

CONSTANTS
  PageSize,  \* 0x1000
  Pages,     \* the number of pages there are
  Wrap,      \* 2^32: memories_ keeps sizes as uint32_t
  Images,    \* sequences of PT_LOAD segments
  Taken,     \* the pages that are in use before Load
  Temporary, \* where filename().c_str() was: the string, a copy that filename() returned,
             \*   is gone by the end of the statement
  Envs,      \* what envs may be, addresses too
  Auxs,      \* what aux_tvs may be: the types getauxval has a value for
  Random,    \* AT_RANDOM
  MaxOther   \* bound: pages that others map later

Segment == [vaddr : Nat, memsz : Nat, filesz : Nat]

ExecAssumption ==
  /\ PageSize \in Nat \ {0} /\ Pages \in Nat /\ Wrap \in Nat \ {0} /\ MaxOther \in Nat
  /\ Images \subseteq Seq(Segment)
  /\ \A s \in Images : \A k \in DOMAIN s :
       s[k].filesz <= s[k].memsz /\ s[k].vaddr + s[k].memsz <= Pages * PageSize
  /\ Taken \subseteq SUBSET (0..Pages - 1)
  /\ Temporary \in Nat \ {0}
  /\ Envs \subseteq Seq(Nat \ {0})
  /\ Auxs \subseteq Seq((Nat \ {0}) \X (Nat \ {0}))

VARIABLES
  segs,      \* the program
  envs, aux_tvs,  \* what Execute is given, and what it gets from the kernel
  pc,
  seg_i,     \* the loop of Load, then that of Unload
  owner,     \* who has a page: "exec", "other" or "free"
  bytes,     \* what Load has copied: address |-> [seg, at]
  memories,  \* memories_
  others,    \* pages that others have mapped since
  seen       \* the stack that the entry point sees, from the stack pointer up

vars == <<segs, envs, aux_tvs, pc, seg_i, owner, bytes, memories, others, seen>>

Page == 0..Pages - 1

Init ==
  /\ segs \in Images
  /\ envs \in Envs
  /\ aux_tvs \in Auxs
  /\ pc = "load"
  /\ seg_i = 1
  /\ \E t \in Taken : owner = [g \in Page |-> IF g \in t THEN "other" ELSE "free"]
  /\ bytes = <<>>
  /\ memories = <<>>
  /\ others = 0
  /\ seen = <<>>

\* The pages from mmap_start, or from any page, to the end of the last byte.
FirstPage(s) == s.vaddr \div PageSize
PagesTo(first, end) == {g \in Page : first <= g /\ g < (end + PageSize - 1) \div PageSize}
Wanted(s) == PagesTo(FirstPage(s), s.vaddr + s.memsz)

\* mmap follows a hint that is free; it refuses a size of 0 (CHECK_EQ).
HintFollowed(s) == Wanted(s) # {} /\ \A g \in Wanted(s) : owner[g] = "free"

\* CHECK_LT(p_vaddr + p_memsz, mmap_end)
EndsInside(s) == (s.vaddr + s.memsz) % PageSize # 0

\* Mutant of Copy: p_offset and p_memsz, not p_filesz.
CopyMemsz(k) ==
  [a \in DOMAIN bytes \cup segs[k].vaddr..segs[k].vaddr + segs[k].memsz - 1 |->
     IF a \in segs[k].vaddr..segs[k].vaddr + segs[k].memsz - 1
     THEN [seg |-> k, at |-> a - segs[k].vaddr] ELSE bytes[a]]

\* memcpy of p_filesz bytes; the rest of the fresh pages is zero.
Copy(k) ==
  [a \in DOMAIN bytes \cup segs[k].vaddr..segs[k].vaddr + segs[k].filesz - 1 |->
     IF a \in segs[k].vaddr..segs[k].vaddr + segs[k].filesz - 1
     THEN [seg |-> k, at |-> a - segs[k].vaddr] ELSE bytes[a]]

LoadSegment ==
  /\ pc = "load" /\ seg_i <= Len(segs)
  /\ HintFollowed(segs[seg_i]) /\ EndsInside(segs[seg_i])
  /\ owner' = [g \in Page |-> IF g \in Wanted(segs[seg_i]) THEN "exec" ELSE owner[g]]
  /\ bytes' = Copy(seg_i)
  /\ memories' = Append(memories, [first |-> FirstPage(segs[seg_i]),
                                   len |-> segs[seg_i].memsz % Wrap])
  /\ seg_i' = seg_i + 1
  /\ UNCHANGED <<segs, envs, aux_tvs, pc, others, seen>>

Fail(why) ==
  /\ pc' = why
  /\ UNCHANGED <<segs, envs, aux_tvs, seg_i, owner, bytes, memories, others, seen>>

HintRefused ==
  /\ pc = "load" /\ seg_i <= Len(segs)
  /\ ~HintFollowed(segs[seg_i])
  /\ Fail("hint_refused")

EndCheckFails ==
  /\ pc = "load" /\ seg_i <= Len(segs)
  /\ HintFollowed(segs[seg_i]) /\ ~EndsInside(segs[seg_i])
  /\ Fail("check_lt")

LoadDone ==
  /\ pc = "load" /\ seg_i > Len(segs)
  /\ pc' = "loaded"
  /\ seg_i' = 1
  /\ UNCHANGED <<segs, envs, aux_tvs, owner, bytes, memories, others, seen>>

\* Something else in the process maps a page: malloc, another thread.
OtherMaps ==
  /\ others < MaxOther
  /\ \E g \in Page : owner[g] = "free" /\ owner' = [owner EXCEPT ![g] = "other"]
  /\ others' = others + 1
  /\ UNCHANGED <<segs, envs, aux_tvs, pc, seg_i, bytes, memories, seen>>

\* Mutant of Unmapped: one page more, as if mmap_end were inclusive.
UnmappedOneMore(m) ==
  IF m.len = 0 THEN {} ELSE PagesTo(m.first, m.first * PageSize + m.len + PageSize)

\* munmap rounds the length up, and refuses 0.
Unmapped(m) == IF m.len = 0 THEN {} ELSE PagesTo(m.first, m.first * PageSize + m.len)

Unload ==
  /\ pc \in {"loaded", "unload"} /\ seg_i <= Len(memories)
  /\ pc' = "unload"
  /\ owner' = [g \in Page |-> IF g \in Unmapped(memories[seg_i]) THEN "free" ELSE owner[g]]
  /\ seg_i' = seg_i + 1
  /\ UNCHANGED <<segs, envs, aux_tvs, bytes, memories, others, seen>>

-----------------------------------------------------------------------------
\* Execute: the array, upside down, and its size as computed beforehand.

\* Of each pair the value, then the type.
Words == [w \in 1..2 * Len(aux_tvs) |-> aux_tvs[(w + 1) \div 2][1 + (w % 2)]]
Stack ==
  <<0, 0, 0, 0>> \o <<0, 0>> \o Words \o <<0>> \o envs \o <<0, Temporary, 1>>

StackNum == 4 + 2 + 2 * Len(aux_tvs) + 1 + Len(envs) + 3

HasRandom == \E k \in DOMAIN aux_tvs : aux_tvs[k][1] = Random

\* CHECK_EQ(stack_index, stack_num); ExecuteCore pushes the words and jumps.
Execute ==
  /\ pc = "loaded" /\ HasRandom
  /\ pc' = IF Len(Stack) = StackNum THEN "entered" ELSE "check_num"
  /\ seen' = Reverse(Stack)
  /\ UNCHANGED <<segs, envs, aux_tvs, seg_i, owner, bytes, memories, others>>

\* CHECK_NE(at_random, 0UL)
NoRandom == pc = "loaded" /\ ~HasRandom /\ Fail("no_random")

Next ==
  \/ LoadSegment \/ HintRefused \/ EndCheckFails \/ LoadDone \/ OtherMaps \/ Unload
  \/ Execute \/ NoRandom

Spec == Init /\ [][Next]_vars

-----------------------------------------------------------------------------
(***************************************************************************)
(*                              Properties                                 *)
(***************************************************************************)

BytesInPlace ==
  \A k \in DOMAIN segs : \A at \in 0..segs[k].memsz - 1 :
    LET a == segs[k].vaddr + at IN
      /\ owner[a \div PageSize] = "exec"
      /\ a \in DOMAIN bytes <=> at < segs[k].filesz
      /\ a \in DOMAIN bytes => bytes[a] = [seg |-> k, at |-> at]

\* What the entry point reads, from the stack pointer up.  seen[2], argv[0], is not
\* an address of the file name or of anything else.
StackInPlace ==
  LET e == Len(envs) a == Len(aux_tvs) IN
    /\ Len(seen) >= 4 + e + 2 * a + 2
    /\ seen[1] = 1 /\ seen[3] = 0
    /\ \A k \in 1..e : seen[3 + k] = envs[e + 1 - k]
    /\ seen[4 + e] = 0
    /\ \A k \in 1..a : <<seen[3 + e + 2 * k], seen[4 + e + 2 * k]>> = aux_tvs[a + 1 - k]
    /\ seen[5 + e + 2 * a] = 0 /\ seen[6 + e + 2 * a] = 0

\* When Load is through, and still when the program is entered, every byte of
\* every segment is on a page of the program, holds what the file has for it, and
\* is zero behind p_filesz, whatever others map meanwhile; no segment was written
\* over by a later one.  Then the entry point finds argc of 1, every entry of the
\* environment (in reverse order), every pair of the auxiliary vector and its end,
\* but no name in argv[0], and the CHECK on the number of words never fails.
SegmentsInPlace ==
  /\ pc \in {"loaded", "entered"} => BytesInPlace
  /\ pc # "check_num"
  /\ pc = "entered" => StackInPlace

\* Unload, which passes p_memsz where the mapping was larger and truncated to 32
\* bits, never unmaps a page that belongs to someone else, though others map
\* pages between its steps; it may leave pages of the program behind.
UnloadsOwnOnly ==
  [][\A g \in Page : owner[g] = "other" => owner'[g] = "other"]_vars

=============================================================================
