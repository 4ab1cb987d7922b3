------------------------------ MODULE MCImages ------------------------------
(***************************************************************************)
(* The instance of ImageLoading that TLC checks.                           *)
(***************************************************************************)
EXTENDS ImageLoading

-----------------------------------------------------------------------------
\* AddressSpace with pages of 4 bytes and bases at multiples of 16: five small
\* libraries, or fewer large ones, reach sloader's own image.

Seg(vaddr, memsz) == [vaddr |-> vaddr, memsz |-> memsz]

\* Below the first base, across it, and above it.
MCExecs == {<<Seg(4, 3), Seg(8, 5)>>, <<Seg(28, 4), Seg(41, 10)>>, <<Seg(66, 6)>>}

\* One segment or three, ending on a page, a base or just after it; the last
\* but one has two segments on one page, the last has none.
MCLibs == {<<Seg(0, 1)>>, <<Seg(0, 16)>>, <<Seg(0, 4), Seg(5, 3), Seg(9, 8)>>,
           <<Seg(0, 13), Seg(17, 16)>>, <<Seg(0, 2), Seg(3, 2)>>, <<>>}

MCReserved == {[lo |-> 112, hi |-> 124]}

-----------------------------------------------------------------------------
\* ExecLoader with eight pages of 4 bytes and sizes modulo 16.

ExSeg(vaddr, memsz, filesz) == [vaddr |-> vaddr, memsz |-> memsz, filesz |-> filesz]

\* Starting and ending within pages, on pages, across three pages; two segments
\* on one page; the higher one first; none; an empty one; one whose size becomes 0
\* and one whose size becomes 1 in memories_.
MCExecImages ==
  {<<>>, <<ExSeg(4, 3, 3)>>, <<ExSeg(17, 2, 2), ExSeg(5, 5, 4)>>,
   <<ExSeg(7, 3, 1), ExSeg(13, 6, 5)>>,
   <<ExSeg(5, 1, 1), ExSeg(6, 1, 0)>>, <<ExSeg(4, 3, 2), ExSeg(8, 8, 8)>>,
   <<ExSeg(8, 0, 0)>>, <<ExSeg(9, 0, 0), ExSeg(17, 9, 0)>>,
   <<ExSeg(5, 16, 3)>>, <<ExSeg(6, 17, 0), ExSeg(25, 5, 4)>>}
MCTaken == {{}, {1}, {0, 7}, {5, 6}}
MCEnvs  == {<<>>, <<101>>, <<101, 102>>, <<102, 102, 101>>}
MCAuxs  == {<<>>, <<<<6, 4>>>>, <<<<25, 9>>>>, <<<<6, 4>>, <<25, 9>>>>}

-----------------------------------------------------------------------------
\* A part that does not run has one of its initial states.
ImagesInit ==
  /\ part \in {"dyn", "exec"}
  /\ part # "exec" => /\ ex_segs = <<>> /\ envs = <<>> /\ aux_tvs = <<>>
                      /\ owner = [g \in 0..Pages - 1 |-> "free"]
  /\ Init /\ X!Init

ImagesSpec == ImagesInit /\ [][ImagesNext]_<<part, vars, exec>>

=============================================================================
