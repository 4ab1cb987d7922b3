------------------------- MODULE LinkMapRefinement -------------------------
(***************************************************************************)
(* DynLoader implements LinkMap: to the loadee, LoadDependingLibs and      *)
(* Relocate, many steps each, are one step.                                *)
(***************************************************************************)
EXTENDS DynLoader

\* The names a file needs, in no order.
NeedsOf(f) == {elf[f].needed[k] : k \in DOMAIN elf[f].needed}

\* The files that FindLibrary may return for a name, whoever needs it, and
\* those that loaded_ takes for it because they were opened by path.
MayServe(n) ==
  Absolute[n] \cup (UNION {Hits(n, d) : d \in Dir}) \cup {f \in File : FileName[f] = n}

\* While a load is under way the loadee sees what was there before its root.
LastRoot == CHOOSE i \in DOMAIN binaries :
              binaries[i].by = 0 /\ \A j \in DOMAIN binaries : j > i => binaries[j].by # 0
Visible ==
  CASE pc \in {"init"} \cup Loadee    -> Len(binaries)
    [] pc \in {"search", "relocate"} -> LastRoot - 1
    [] OTHER                         -> 0

AbstractMode ==
  CASE pc \in {"exited", "dead"} -> "gone"
    [] pc = "start" \/ (pc \in {"search", "relocate"} /\ caller = "Run") -> "boot"
    [] OTHER -> "user"

Abstract == INSTANCE LinkMap WITH
  Supplied   <- Skip,
  Candidates <- [n \in Name |-> MayServe(n)],
  needs      <- [f \in File |-> NeedsOf(f)],
  mode       <- AbstractMode,
  libs       <- [i \in 1..Visible |-> binaries[i].file]

\* The loader keeps the promise of LinkMap: closed, append-only, atomic and
\* minimal link maps.
ImplementsLinkMap == Abstract!Spec

=============================================================================
