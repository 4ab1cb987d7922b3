---------------------------- MODULE ImageLoading ----------------------------
(***************************************************************************)
(* How the two loaders of sloader put segments into memory: ELFBinary::Load*)
(* at bases of DynLoader's choice, and ExecLoader at the segments' own     *)
(* addresses.  No process uses both: a behaviour is one of either, the     *)
(* part, while the other stays where it starts.                            *)
(***************************************************************************)
EXTENDS AddressSpace

CONSTANTS  \* see ExecLoader
  Pages, Wrap, ExecImages, Taken, Temporary, Envs, Auxs, Random, MaxOther

VARIABLES
  part,
  ex_segs, envs, aux_tvs, ex_pc, ex_i, owner, bytes, memories, others, seen

exec == <<ex_segs, envs, aux_tvs, ex_pc, ex_i, owner, bytes, memories, others, seen>>

X == INSTANCE ExecLoader WITH
       Images <- ExecImages, segs <- ex_segs, pc <- ex_pc, seg_i <- ex_i

ASSUME ExecLoaderAssumption == X!ExecAssumption

ImagesNext ==
  \/ part = "dyn" /\ Next /\ UNCHANGED <<part, exec>>
  \/ part = "exec" /\ X!Next /\ UNCHANGED <<part, vars>>

-----------------------------------------------------------------------------
(***************************************************************************)
(*                              Properties                                 *)
(***************************************************************************)

\* Of ExecLoader: after Load and at the entry every byte of every segment is in
\* its place, and the stack is the one of the process entry but for argv[0], the
\* address of a string that is gone.
SegmentsInPlace == X!SegmentsInPlace

\* Of ExecLoader: Unload never unmaps a page that belongs to someone else.
UnloadsOwnOnly == X!UnloadsOwnOnly

=============================================================================
