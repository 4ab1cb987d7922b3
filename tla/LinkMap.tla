------------------------------ MODULE LinkMap ------------------------------
(***************************************************************************)
(* What sloader promises to the loadee, whoever has control in between:    *)
(* the program starts on a closed link map that begins with itself, each   *)
(* dlopen extends the link map in one step by the file that was asked for  *)
(* and what it needs, nothing else, and leaves it closed; or the process   *)
(* ends.  LinkMapRefinement shows that DynLoader keeps the promise.        *)
(***************************************************************************)
EXTENDS Naturals, Sequences

CONSTANTS
  File,
  Name,
  MainFile,
  Supplied,    \* the names of libraries sloader stands in for
  Candidates   \* for each name, the files that may be taken for it

VARIABLES
  needs,  \* for each file, the names of the libraries it needs; never changes
  mode,   \* "boot", "user" or "gone"
  libs    \* the files of the link map the loadee sees

vars == <<needs, mode, libs>>

\* Some binary of link map l is a library n.
Provided(l, n) == n \in Supplied \/ \E j \in DOMAIN l : l[j] \in Candidates[n]

Closed(l) == \A i \in DOMAIN l : \A n \in needs[l[i]] : Provided(l, n)

\* The k-th binary of l is there because an earlier one needs it.
Wanted(l, k) == \E i \in 1..k - 1 : \E n \in needs[l[i]] : l[k] \in Candidates[n]

\* l extends the present link map by one root and what is wanted after it.
Extends(l) ==
  /\ l \in Seq(File)
  /\ Len(l) > Len(libs)
  /\ \A i \in DOMAIN libs : l[i] = libs[i]
  /\ \A k \in Len(libs) + 2..Len(l) : Wanted(l, k)
  /\ Closed(l)

Init == mode = "boot" /\ libs = <<>> /\ needs \in [File -> SUBSET Name]

Start ==
  /\ mode = "boot"
  /\ Extends(libs') /\ libs'[1] = MainFile
  /\ mode' = "user"
  /\ UNCHANGED needs

Open ==
  /\ mode = "user"
  /\ Extends(libs')
  /\ UNCHANGED <<mode, needs>>

Stop ==
  /\ mode' = "gone" /\ libs' = <<>>
  /\ UNCHANGED needs

Next == Start \/ Open \/ Stop

Spec == Init /\ [][Next]_vars

=============================================================================
