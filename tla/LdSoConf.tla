------------------------------ MODULE LdSoConf ------------------------------
(***************************************************************************)
(* read_ldsoconf: a depth-first walk through /etc/ld.so.conf and the files *)
(* it includes, whose result FindLibrary searches.  A file may be included *)
(* twice, or by itself.                                                    *)
(***************************************************************************)
EXTENDS Naturals, Sequences

CONSTANTS
  Conf,      \* the configuration files
  Root,      \* /etc/ld.so.conf
  Foreign,   \* the files with "i386" or "lib32" in their names, or unreadable
  Dir,       \* directories
  Texts,     \* what may be in the files
  MaxDepth   \* bound: the depth of recursion the process stack has room for

\* An item of a file: a comment to the end of its line, a directory, or an
\* include line with the files that glob makes of it, in order.
Item == [kind : {"comment"}] \cup [kind : {"dir"}, dir : Dir]
          \cup [kind : {"include"}, files : Seq(Conf)]

ConfAssumption ==
  /\ Root \in Conf
  /\ Foreign \subseteq Conf
  /\ Texts \subseteq [Conf -> Seq(Item)]
  /\ MaxDepth \in Nat \ {0}

VARIABLES
  text,   \* what is in the files; never changes
  pc,     \* "read", "done", or "dead" when the stack has overflowed
  calls,  \* the activations of read_ldsoconf_dfs, the innermost last
  res     \* the result so far

vars == <<text, pc, calls, res>>

\* An activation: the file, the next item, and what is left of the glob.
Call(f) == [file |-> f, at |-> 1, files |-> <<>>]
Top  == calls[Len(calls)]
Rest == SubSeq(calls, 1, Len(calls) - 1)
Here == text[Top.file][Top.at]

IsForeignNever(f) == FALSE  \* mutant of IsForeign
IsForeign(f) == f \in Foreign

Init ==
  /\ text \in Texts
  /\ pc = "read"
  /\ calls = IF IsForeign(Root) THEN <<>> ELSE <<Call(Root)>>
  /\ res = <<>>

\* The innermost loop is at an item, not within a glob.
AtItem == pc = "read" /\ calls # <<>> /\ Top.files = <<>> /\ Top.at <= Len(text[Top.file])

SkipComment ==
  /\ AtItem /\ Here.kind = "comment"
  /\ calls' = Append(Rest, [Top EXCEPT !.at = @ + 1])
  /\ UNCHANGED <<text, pc, res>>

AddDir ==
  /\ AtItem /\ Here.kind = "dir"
  /\ res' = Append(res, Here.dir)
  /\ calls' = Append(Rest, [Top EXCEPT !.at = @ + 1])
  /\ UNCHANGED <<text, pc>>

Include ==
  /\ AtItem /\ Here.kind = "include"
  /\ calls' = Append(Rest, [Top EXCEPT !.at = @ + 1, !.files = Here.files])
  /\ UNCHANGED <<text, pc, res>>

\* Mutants of Advance: the loop over the glob stays where it is, or ends after
\* one file.
AdvanceNot(c) == c
AdvanceOnce(c) == [c EXCEPT !.files = <<>>]

Advance(c) == [c EXCEPT !.files = Tail(@)]

\* The next file of the glob; a foreign one returns at once.
Descend ==
  /\ pc = "read" /\ calls # <<>> /\ Top.files # <<>>
  /\ LET f == Head(Top.files) IN
       \/ /\ IsForeign(f)
          /\ calls' = Append(Rest, Advance(Top))
       \/ /\ ~IsForeign(f) /\ Len(calls) < MaxDepth
          /\ calls' = Append(Rest, Advance(Top)) \o <<Call(f)>>
  /\ UNCHANGED <<text, pc, res>>

Overflow ==
  /\ pc = "read" /\ calls # <<>> /\ Top.files # <<>>
  /\ ~IsForeign(Head(Top.files)) /\ Len(calls) >= MaxDepth
  /\ pc' = "dead"
  /\ UNCHANGED <<text, calls, res>>

Return ==
  /\ pc = "read" /\ calls # <<>> /\ Top.files = <<>> /\ Top.at > Len(text[Top.file])
  /\ calls' = Rest
  /\ UNCHANGED <<text, pc, res>>

Done ==
  /\ pc = "read" /\ calls = <<>>
  /\ pc' = "done"
  /\ UNCHANGED <<text, calls, res>>

Next == SkipComment \/ AddDir \/ Include \/ Descend \/ Overflow \/ Return \/ Done

\* Straight-line code, scheduled by the kernel.
Spec == Init /\ [][Next]_vars /\ WF_vars(Next)

-----------------------------------------------------------------------------
(***************************************************************************)
(*                              Properties                                 *)
(***************************************************************************)

\* The first n sequences of s, one after the other.
Joined(s, n) ==
  LET joined[k \in 0..Len(s)] == IF k = 0 THEN <<>> ELSE joined[k - 1] \o s[k]
  IN  joined[n]

\* What the files fs, an item and the items s of a file stand for, if every file f
\* stands for the directories D[f].
OfFiles(D, fs) == [j \in DOMAIN fs |-> D[fs[j]]]
OfItem(D, item) ==
  CASE item.kind = "comment" -> <<>>
    [] item.kind = "dir"     -> <<item.dir>>
    [] item.kind = "include" -> Joined(OfFiles(D, item.files), Len(item.files))
OfItems(D, s) == [k \in DOMAIN s |-> OfItem(D, s[k])]
OfText(t, D) ==
  [f \in Conf |-> IF f \in Foreign THEN <<>> ELSE Joined(OfItems(D, t[f]), Len(t[f]))]

\* The directories of every file of text t, those of the files it includes in their
\* places, d files deep.  What would be deeper shows as a directory of its own.
Expand(t, d) ==
  LET expand[k \in 0..MaxDepth] ==
        IF k = 0 THEN [f \in Conf |-> IF f \in Foreign THEN <<>> ELSE <<"too deep">>]
        ELSE OfText(t, expand[k - 1])
  IN  expand[d]

\* The walk of read_ldsoconf_dfs returns the directories in the order of the text
\* with every include line replaced by what it includes; comments and foreign
\* files add nothing.
DirsInOrder == pc = "done" => res = Expand(text, MaxDepth)[Root]

\* The files that are read because of a line of f; none is read because of itself.
Includes(f) == {g \in Conf \ Foreign : \E k \in DOMAIN text[f] :
                  /\ text[f][k].kind = "include"
                  /\ \E j \in DOMAIN text[f][k].files : text[f][k].files[j] = g}
Acyclic == ~\E S \in SUBSET (Conf \ Foreign) :
             S # {} /\ \A f \in S : \E g \in S : g \in Includes(f)

\* The reader comes to an end, in the depth there is, if no file includes
\* itself, however often files are included.
ReaderReturns == Acyclic => <>(pc = "done")

=============================================================================
