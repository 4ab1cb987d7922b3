---------------------------- MODULE FilesProofs ----------------------------
(***************************************************************************)
(* Proofs about what sloader reads before it maps anything: Startup, for   *)
(* every PATH and everything found in it, LdSoConf, for all configuration  *)
(* files, ProgramHeaders, for every file, and DynamicSection, for every    *)
(* section and every symbol table.                                         *)
(***************************************************************************)
EXTENDS FileReading, NatRecursion, SequenceTheorems, FiniteSetTheorems

-----------------------------------------------------------------------------
(***************************************************************************)
(*                                Startup                                  *)
(***************************************************************************)

StartTypes ==
  /\ argv1 \in {"none", "name", "path"}
  /\ PATH \in Seq(PathDir) /\ str \in Seq(PathDir) /\ path_dirs \in Seq(PathDir)
  /\ dir_i \in Nat \ {0}
  /\ main_pc \in {"args", "search", "check", "run", "dead", "nomem"}

\* What SplitWith has split and what it has not are PATH.
SplitsPath ==
  /\ Len(path_dirs) + Len(str) = Len(PATH)
  /\ \A h \in 1..Len(path_dirs) : path_dirs[h] = PATH[h]
  /\ \A h \in 1..Len(str) : str[h] = PATH[Len(path_dirs) + h]

\* No directory before the h-th holds a regular file of the name.
NoneBefore(h) == \A j \in 1..h - 1 : ~S!Hit(PATH[j])

\* The search sees all of PATH but its last piece, and stops at the first hit.
Searched ==
  argv1 = "name" =>
    /\ main_pc \in {"args", "search"} => fullpath = ""
    /\ main_pc = "args" => dir_i = 1
    /\ main_pc = "search" =>
         /\ Len(str) = 1 /\ dir_i <= Len(path_dirs) + 1
         /\ NoneBefore(dir_i)
    /\ main_pc \in {"check", "run"} =>
         /\ Len(str) = 1
         /\ \/ fullpath = "" /\ NoneBefore(Len(PATH))
            \/ /\ dir_i <= Len(path_dirs) /\ fullpath = PATH[dir_i]
               /\ S!Hit(PATH[dir_i]) /\ NoneBefore(dir_i)

StartInv == StartTypes /\ SplitsPath /\ Searched /\ S!RunsFirstInPath

\* The first hit, if the directories before it hold nothing.
LEMMA FirstIs ==
  ASSUME StartTypes, NEW h \in 1..Len(PATH), S!Hit(PATH[h]), NoneBefore(h)
  PROVE  S!First = h
<1>1. h \in S!Holding
  BY DEF S!Holding, S!Hit, StartTypes
<1>2. \A j \in S!Holding : j \in Nat /\ h <= j
  <2> SUFFICES ASSUME NEW j \in S!Holding PROVE j \in Nat /\ h <= j
    OBVIOUS
  <2>1. j \in 1..Len(PATH) /\ S!Hit(PATH[j])
    BY DEF S!Holding, S!Hit, StartTypes
  <2>2. ~(j \in 1..h - 1)
    BY <2>1 DEF NoneBefore
  <2>3. QED
    BY <2>1, <2>2
<1>3. S!First = CHOOSE x \in S!Holding : \A y \in S!Holding : x <= y
  BY <1>1 DEF S!First, S!Min
<1>4. PICK x \in S!Holding : x = S!First /\ \A y \in S!Holding : x <= y
  BY <1>1, <1>2, <1>3
<1>5. x <= h /\ h <= x /\ x \in Nat
  BY <1>1, <1>2, <1>4
<1>6. QED
  BY <1>4, <1>5

\* If only the last directory may hold the name, it is not found or found there.
LEMMA FirstIsLast ==
  ASSUME StartTypes, NoneBefore(Len(PATH))
  PROVE  S!First \in {0, Len(PATH)}
<1>1. CASE S!Holding = {}
  BY <1>1 DEF S!First
<1>2. CASE S!Holding # {}
  <2>1. PICK h \in S!Holding : TRUE
    BY <1>2
  <2>2. h \in 1..Len(PATH) /\ S!Hit(PATH[h])
    BY DEF S!Holding, S!Hit, StartTypes
  <2>3. ~(h \in 1..Len(PATH) - 1)
    BY <2>2 DEF NoneBefore
  <2>4. h = Len(PATH)
    BY <2>2, <2>3 DEF StartTypes
  <2>5. QED
    BY <2>2, <2>4, FirstIs
<1>3. QED
  BY <1>1, <1>2

LEMMA StartupInit ==
  ASSUME S!StartupAssumption
  PROVE  S!Init => StartInv
<1> SUFFICES ASSUME S!Init PROVE StartInv
  OBVIOUS
<1>1. PATH \in Seq(PathDir)
  <2>1. PICK n \in 0..MaxPath : PATH \in [1..n -> PathDir]
    BY DEF S!Init
  <2>2. n \in Nat
    OBVIOUS
  <2>3. QED
    BY <2>1, <2>2, SeqDef
<1>2. /\ argv1 \in {"none", "name", "path"} /\ str = PATH /\ path_dirs = <<>> /\ dir_i = 1 /\ main_pc = "args"
      /\ fullpath = ""
  BY DEF S!Init
<1>3. StartTypes
  <2>1. <<>> \in Seq(PathDir)
    OBVIOUS
  <2>2. 1 \in Nat \ {0}
    OBVIOUS
  <2>3. QED
    BY <1>1, <1>2, <2>1, <2>2, Zenon DEF StartTypes
<1>4. SplitsPath
  <2>1. Len(path_dirs) = 0 /\ Len(PATH) \in Nat /\ Len(str) = Len(PATH)
    <3>1. path_dirs = <<>> /\ str = PATH
      BY <1>2, Zenon
    <3>2. QED
      BY <1>1, <3>1
  <2>2. \A j \in 1..Len(str) : Len(path_dirs) + j = j
    BY <2>1
  <2>3. ~\E j \in 1..Len(path_dirs) : TRUE
    BY <2>1
  <2>4. Len(path_dirs) + Len(str) = Len(PATH)
    BY <2>1
  <2>5. QED
    BY <1>2, <2>2, <2>3, <2>4, Zenon DEF SplitsPath
<1>5. Searched /\ S!RunsFirstInPath
  BY <1>2 DEF Searched, S!RunsFirstInPath
<1>6. QED
  BY <1>3, <1>4, <1>5 DEF StartInv

LEMMA StartupStep ==
  ASSUME S!StartupAssumption, StartInv, [S!Next]_S!vars
  PROVE  StartInv'
<1>1. /\ Len(PATH) \in Nat /\ Len(str) \in Nat /\ Len(path_dirs) \in Nat /\ dir_i \in Nat \ {0}
      /\ argv1 \in {"none", "name", "path"}
  BY DEF StartInv, StartTypes
<1>2. CASE S!TakePath
  BY <1>2 DEF S!TakePath, StartInv, StartTypes, SplitsPath, Searched, S!RunsFirstInPath
<1>3. CASE S!Split
  <2>1. /\ UNCHANGED <<argv1, at, PATH, main_pc, dir_i, fullpath>> /\ main_pc = "args"
        /\ Len(str) > 1 /\ path_dirs' = Append(path_dirs, Head(str)) /\ str' = Tail(str)
    BY <1>3 DEF S!Split
  <2>2. PICK m \in Nat : m = Len(path_dirs)
    BY <1>1
  <2>3. PICK n \in Nat : n = Len(str) - 1
    <3>1. Len(str) \in Nat /\ Len(str) > 1
      BY <1>1, <2>1, Zenon
    <3>2. QED
      BY <3>1
  <2>4. /\ path_dirs' \in Seq(PathDir) /\ Len(path_dirs') = m + 1 /\ path_dirs'[m + 1] = str[1]
        /\ \A h \in 1..m : path_dirs'[h] = path_dirs[h]
    BY <2>1, <2>2, <2>3 DEF StartInv, StartTypes
  <2>5. str' \in Seq(PathDir) /\ Len(str') = n /\ \A h \in 1..n : str'[h] = str[h + 1]
    BY <2>1, <2>3 DEF StartInv, StartTypes
  <2>6. /\ m + (n + 1) = Len(PATH)
        /\ \A h \in 1..m : path_dirs[h] = PATH[h]
        /\ \A h \in 1..n + 1 : str[h] = PATH[m + h]
    BY <1>1, <2>2, <2>3 DEF StartInv, SplitsPath
  <2>7. \A h \in 1..m + 1 : path_dirs'[h] = PATH[h]
    <3> SUFFICES ASSUME NEW h \in 1..m + 1 PROVE path_dirs'[h] = PATH[h]
      OBVIOUS
    <3>1. CASE h \in 1..m
      BY <3>1, <2>4, <2>6
    <3>2. CASE h = m + 1
      <4>1. 1 \in 1..n + 1
        BY <2>3
      <4>2. QED
        BY <3>2, <4>1, <2>4, <2>6
    <3>3. QED
      BY <3>1, <3>2
  <2>8. \A h \in 1..n : str'[h] = PATH[m + 1 + h]
    <3> SUFFICES ASSUME NEW h \in 1..n PROVE str'[h] = PATH[m + 1 + h]
      OBVIOUS
    <3>1. h + 1 \in 1..n + 1 /\ m + (h + 1) = m + 1 + h
      OBVIOUS
    <3>2. QED
      BY <3>1, <2>5, <2>6
  <2>9. SplitsPath'
    <3>1. m + 1 + n = Len(PATH)
      BY <1>1, <2>6
    <3>2. QED
      BY <3>1, <2>1, <2>4, <2>5, <2>7, <2>8 DEF SplitsPath
  <2>10. StartTypes' /\ Searched' /\ S!RunsFirstInPath'
    BY <2>1, <2>4, <2>5 DEF StartInv, StartTypes, Searched, S!RunsFirstInPath
  <2>11. QED
    BY <2>9, <2>10 DEF StartInv
<1>4. CASE S!SplitDone
  <2>1. /\ UNCHANGED <<argv1, at, PATH, str, path_dirs, dir_i, fullpath>> /\ main_pc' = "search"
        /\ main_pc = "args" /\ Len(str) = 1 /\ argv1 = "name"
    BY <1>4 DEF S!SplitDone
  <2>2. dir_i = 1 /\ fullpath = ""
    BY <2>1 DEF StartInv, Searched
  <2>3. dir_i <= Len(path_dirs) + 1 /\ ~\E j \in 1..dir_i - 1 : TRUE
    <3>0. dir_i = 1
      BY <2>2, Zenon
    <3>1. dir_i <= Len(path_dirs) + 1
      BY <3>0, <1>1
    <3>2. ~\E j \in 1..dir_i - 1 : TRUE
      BY <3>0
    <3>3. QED
      BY <3>1, <3>2
  <2>4. Searched'
    BY <2>1, <2>2, <2>3 DEF Searched, NoneBefore
  <2>5. QED
    BY <2>1, <2>4 DEF StartInv, StartTypes, SplitsPath, S!RunsFirstInPath
<1>5. CASE S!Try
  <2>1. /\ UNCHANGED <<argv1, at, PATH, str, path_dirs>> /\ main_pc = "search"
        /\ dir_i <= Len(path_dirs)
    BY <1>5 DEF S!Try
  <2>2. CASE argv1 # "name"
    <3>1. main_pc' \in {"check", "search"} /\ dir_i' \in Nat \ {0}
      BY <1>1, <1>5 DEF S!Try
    <3>2. QED
      BY <2>1, <2>2, <3>1 DEF StartInv, StartTypes, SplitsPath, Searched, S!RunsFirstInPath
  <2>3. CASE argv1 = "name"
    <3>1. Len(str) = 1 /\ NoneBefore(dir_i) /\ fullpath = ""
      BY <2>1, <2>3 DEF StartInv, Searched
    <3>2. path_dirs[dir_i] = PATH[dir_i]
      BY <1>1, <2>1 DEF StartInv, SplitsPath
    <3>3. CASE S!Hit(PATH[dir_i])
      <4>1. fullpath' = PATH[dir_i] /\ main_pc' = "check" /\ dir_i' = dir_i
        BY <1>5, <3>2, <3>3 DEF S!Try
      <4>2. Searched'
        BY <2>1, <3>1, <3>3, <4>1 DEF Searched, NoneBefore, S!Hit
      <4>3. QED
        BY <2>1, <4>1, <4>2 DEF StartInv, StartTypes, SplitsPath, S!RunsFirstInPath
    <3>4. CASE ~S!Hit(PATH[dir_i])
      <4>1. dir_i' = dir_i + 1 /\ main_pc' = main_pc /\ fullpath' = fullpath
        BY <1>5, <3>2, <3>4 DEF S!Try
      <4>2. \A j \in 1..dir_i : ~S!Hit(PATH[j])
        <5> SUFFICES ASSUME NEW j \in 1..dir_i PROVE ~S!Hit(PATH[j])
          OBVIOUS
        <5>1. j = dir_i \/ j \in 1..dir_i - 1
          BY <1>1
        <5>2. QED
          BY <5>1, <3>1, <3>4 DEF NoneBefore
      <4>3. dir_i' <= Len(path_dirs) + 1 /\ dir_i' - 1 = dir_i
        BY <1>1, <2>1, <4>1
      <4>4. Searched'
        BY <2>1, <3>1, <4>1, <4>2, <4>3 DEF Searched, NoneBefore, S!Hit
      <4>5. QED
        BY <1>1, <2>1, <4>1, <4>4 DEF StartInv, StartTypes, SplitsPath, S!RunsFirstInPath
    <3>5. QED
      BY <3>3, <3>4
  <2>4. QED
    BY <1>1, <2>2, <2>3
<1>6. CASE S!SearchDone
  <2>1. /\ UNCHANGED <<argv1, at, PATH, str, path_dirs, dir_i, fullpath>>
        /\ main_pc = "search" /\ main_pc' = "check" /\ dir_i > Len(path_dirs)
    BY <1>6 DEF S!SearchDone
  <2>2. argv1 = "name" => Len(str) = 1 /\ fullpath = "" /\ NoneBefore(Len(PATH))
    <3> SUFFICES ASSUME argv1 = "name" PROVE Len(str) = 1 /\ fullpath = "" /\ NoneBefore(Len(PATH))
      OBVIOUS
    <3>1. Len(str) = 1 /\ NoneBefore(dir_i) /\ fullpath = "" /\ dir_i <= Len(path_dirs) + 1
      BY <2>1 DEF StartInv, Searched
    <3>2. dir_i = Len(PATH)
      <4>1. Len(path_dirs) + Len(str) = Len(PATH)
        BY DEF StartInv, SplitsPath
      <4>2. Len(str) = 1 /\ dir_i <= Len(path_dirs) + 1
        BY <3>1, Zenon
      <4>3. QED
        BY <1>1, <2>1, <4>1, <4>2
    <3>3. QED
      BY <3>1, <3>2
  <2>3. Searched'
    BY <2>1, <2>2 DEF Searched, NoneBefore, S!Hit
  <2>4. QED
    BY <2>1, <2>3 DEF StartInv, StartTypes, SplitsPath, S!RunsFirstInPath
<1>12. CASE S!NoArg
  <2>1. /\ UNCHANGED <<argv1, at, PATH, str, path_dirs, dir_i, fullpath>>
        /\ main_pc' = "dead" /\ argv1 = "none"
    BY <1>12 DEF S!NoArg, S!Die
  <2>2. QED
    BY <2>1 DEF StartInv, StartTypes, SplitsPath, Searched, S!RunsFirstInPath
<1>13. CASE S!MapFails
  <2>1. /\ UNCHANGED <<argv1, at, PATH, str, path_dirs, dir_i, fullpath>>
        /\ main_pc' = "nomem"
    BY <1>13 DEF S!MapFails
  <2>2. QED
    BY <2>1 DEF StartInv, StartTypes, SplitsPath, Searched, S!RunsFirstInPath
<1>7. CASE S!NoPath
  <2>1. /\ UNCHANGED <<argv1, at, PATH, str, path_dirs, dir_i, fullpath>>
        /\ main_pc' = "dead" /\ PATH = <<>>
    BY <1>7 DEF S!NoPath, S!Die
  <2>2. S!First = 0
    BY <2>1 DEF S!First, S!Holding
  <2>3. S!First' = S!First
    BY <2>1 DEF S!First, S!Holding
  <2>4. S!RunsFirstInPath'
    BY <2>1, <2>2, <2>3 DEF S!RunsFirstInPath
  <2>5. QED
    BY <2>1, <2>4 DEF StartInv, StartTypes, SplitsPath, Searched
<1>8. CASE S!Refused \/ S!Unsupported
  <2>1. /\ UNCHANGED <<argv1, at, PATH, str, path_dirs, dir_i, fullpath>>
        /\ main_pc' = "dead" /\ main_pc = "check"
        /\ fullpath # "" => at[fullpath] \in {"none", "dir", "unreadable", "short", "ET_REL"}
    BY <1>8 DEF S!Refused, S!Unsupported, S!Die
  <2>2. argv1 = "name" => S!First \in {0, Len(PATH)} \/ at[PATH[S!First]] \in {"unreadable", "short", "ET_REL"}
    <3> SUFFICES ASSUME argv1 = "name"
                 PROVE  S!First \in {0, Len(PATH)} \/ at[PATH[S!First]] \in {"unreadable", "short", "ET_REL"}
      OBVIOUS
    <3>1. CASE fullpath = "" /\ NoneBefore(Len(PATH))
      BY <3>1, FirstIsLast DEF StartInv
    <3>2. CASE /\ dir_i <= Len(path_dirs) /\ fullpath = PATH[dir_i]
               /\ S!Hit(PATH[dir_i]) /\ NoneBefore(dir_i)
      <4>1. dir_i \in 1..Len(PATH) /\ PATH[dir_i] \in PathDir
        BY <1>1, <3>2 DEF StartInv, StartTypes, SplitsPath
      <4>2. fullpath # ""
        BY <3>2, <4>1 DEF S!StartupAssumption
      <4>3. S!First = dir_i
        BY <3>2, <4>1, FirstIs DEF StartInv
      <4>4. QED
        BY <2>1, <3>2, <4>2, <4>3 DEF S!Hit, S!Regular, S!Kind
    <3>3. QED
      BY <2>1, <3>1, <3>2 DEF StartInv, Searched
  <2>3. S!First' = S!First
    BY <2>1 DEF S!First, S!Holding
  <2>4. S!RunsFirstInPath'
    BY <2>1, <2>2, <2>3 DEF S!RunsFirstInPath
  <2>5. QED
    BY <2>1, <2>4 DEF StartInv, StartTypes, SplitsPath, Searched
<1>9. CASE S!RunLoader
  <2>1. /\ UNCHANGED <<argv1, at, PATH, str, path_dirs, dir_i, fullpath>>
        /\ main_pc' = "run" /\ main_pc = "check" /\ fullpath # ""
    BY <1>9 DEF S!RunLoader
  <2>2. argv1 = "name" => S!First # 0 /\ fullpath = PATH[S!First]
    <3> SUFFICES ASSUME argv1 = "name" PROVE S!First # 0 /\ fullpath = PATH[S!First]
      OBVIOUS
    <3>1. /\ dir_i <= Len(path_dirs) /\ fullpath = PATH[dir_i]
          /\ S!Hit(PATH[dir_i]) /\ NoneBefore(dir_i)
      BY <2>1 DEF StartInv, Searched
    <3>2. dir_i \in 1..Len(PATH)
      BY <1>1, <3>1 DEF StartInv, SplitsPath
    <3>3. S!First = dir_i
      BY <3>1, <3>2, FirstIs DEF StartInv
    <3>4. QED
      BY <1>1, <3>1, <3>3
  <2>3. S!First' = S!First
    BY <2>1 DEF S!First, S!Holding
  <2>4. S!RunsFirstInPath'
    BY <2>1, <2>2, <2>3 DEF S!RunsFirstInPath
  <2>5. Searched'
    BY <2>1 DEF StartInv, Searched, NoneBefore, S!Hit
  <2>6. QED
    BY <2>1, <2>4, <2>5 DEF StartInv, StartTypes, SplitsPath
<1>10. CASE UNCHANGED S!vars
  <2>1. UNCHANGED <<argv1, at, PATH, main_pc, str, path_dirs, dir_i, fullpath>>
    BY <1>10 DEF S!vars
  <2>2. S!First' = S!First
    BY <2>1 DEF S!First, S!Holding
  <2>3. QED
    BY <2>1, <2>2 DEF StartInv, StartTypes, SplitsPath, Searched, NoneBefore, S!Hit,
                      S!RunsFirstInPath
<1>11. QED
  BY <1>2, <1>3, <1>4, <1>5, <1>6, <1>7, <1>8, <1>9, <1>10, <1>12,
     <1>13 DEF S!Next

\* RunsFirstInPath of Startup: main runs the first regular file that PATH leads to,
\* and gives a name up only for want of one or for what it is.
THEOREM FirstInPathRuns == S!Spec => []RunsFirstInPath
<1> USE MainAssumption
<1>1. StartInv /\ [S!Next]_S!vars => StartInv'
  BY StartupStep
<1>2. StartInv => RunsFirstInPath
  BY DEF StartInv, RunsFirstInPath
<1>3. S!Init => StartInv
  BY StartupInit
<1>4. QED
  BY <1>1, <1>2, <1>3, PTL DEF S!Spec

-----------------------------------------------------------------------------
(***************************************************************************)
(*                               LdSoConf                                  *)
(***************************************************************************)

\* The recursion of Joined, one step at a time.
LEMMA JoinedSteps ==
  ASSUME NEW A, NEW s \in Seq(Seq(A))
  PROVE  /\ C!Joined(s, 0) = <<>>
         /\ \A q \in 1..Len(s) : C!Joined(s, q) = C!Joined(s, q - 1) \o s[q]
         /\ \A q \in 0..Len(s) : C!Joined(s, q) \in Seq(A)
<1> DEFINE V == Seq(A)
           step == [q \in 1..Len(s) |-> [w \in V |-> w \o s[q]]]
           Rec(f) == f = [q \in 0..Len(s) |-> IF q = 0 THEN <<>> ELSE f[q - 1] \o s[q]]
<1>1. Len(s) \in Nat /\ <<>> \in V
  OBVIOUS
<1>2. step \in [1..Len(s) -> [V -> V]]
  <2>1. ASSUME NEW q \in 1..Len(s), NEW w \in V PROVE w \o s[q] \in V
    <3>1. s[q] \in Seq(A)
      OBVIOUS
    <3>2. QED
      BY <3>1, ConcatProperties
  <2> HIDE DEF V
  <2>2. QED
    BY <2>1
<1>3. PICK g \in [0..Len(s) -> V] :
        g[0] = <<>> /\ \A q \in 1..Len(s) : g[q] = step[q][g[q - 1]]
  <2>1. PICK v \in V, N \in Nat : v = <<>> /\ N = Len(s)
    BY <1>1
  <2>2. step \in [1..N -> [V -> V]]
    BY <1>2, <2>1
  <2> HIDE DEF step, V, Rec
  <2>3. PICK g : IsRecursion(g, V, v, N, step)
    BY <2>2, RecursionIs
  <2>4. QED
    BY <2>1, <2>3, Zenon DEF IsRecursion
<1>4. Rec(g)
  <2>1. ASSUME NEW q \in 1..Len(s) PROVE g[q] = g[q - 1] \o s[q]
    <3> HIDE DEF V, Rec
    <3>1. g[q - 1] \in V
      <4>1. q - 1 \in 0..Len(s)
        BY <1>1
      <4>2. QED
        BY <4>1, <1>3, Zenon
    <3>2. g[q] = step[q][g[q - 1]]
      BY <1>3, Zenon
    <3>3. QED
      BY <3>1, <3>2, Zenon
  <2>2. \A q \in 0..Len(s) : q = 0 \/ q \in 1..Len(s)
    BY <1>1
  <2>3. QED
    BY <2>1, <2>2, <1>3, Zenon
<1>5. \A n : C!Joined(s, n) = (CHOOSE f : Rec(f))[n]
  BY DEF C!Joined
<1>6. PICK h : Rec(h) /\ \A n : C!Joined(s, n) = h[n]
  <2> HIDE DEF Rec
  <2>1. QED
    BY <1>4, <1>5
<1>7. h[0] = <<>> /\ \A q \in 1..Len(s) : h[q] = h[q - 1] \o s[q]
  <2>1. \A q \in 1..Len(s) : q # 0 /\ q \in 0..Len(s)
    BY <1>1
  <2>2. 0 \in 0..Len(s)
    BY <1>1
  <2>3. QED
    BY <2>1, <2>2, <1>6, Zenon
<1>8. ASSUME NEW q \in 1..Len(s), h[q - 1] \in V PROVE h[q] \in V
  <2>1. s[q] \in Seq(A)
    OBVIOUS
  <2>2. h[q - 1] \o s[q] \in V
    BY <2>1, <1>8, ConcatProperties
  <2>3. QED
    BY <2>2, <1>7, <1>8, Zenon
<1>9. \A q \in 0..Len(s) : h[q] \in V
  <2>1. h[0] \in V
    BY <1>1, <1>7
  <2> HIDE DEF V
  <2>2. QED
    BY <2>1, <1>1, <1>8, RecursionType
<1>10. QED
  BY <1>6, <1>7, <1>9, Zenon


\* What Expand puts together: directories, and the mark of what is too deep.
Named == Dir \cup {"too deep"}

\* Joining such lists is associative.
LEMMA NamedAssociative ==
  \A a1, a2, a3 \in Seq(Named) : (a1 \o a2) \o a3 = a1 \o (a2 \o a3)
BY ConcatAssociative

LEMMA JoinFiles ==
  ASSUME NEW D \in [Conf -> Seq(Named)], NEW fs \in Seq(Conf)
  PROVE  /\ C!OfFiles(D, fs) \in Seq(Seq(Named))
         /\ C!Joined(C!OfFiles(D, fs), 0) = <<>>
         /\ \A q \in 1..Len(fs) :
              C!Joined(C!OfFiles(D, fs), q) = C!Joined(C!OfFiles(D, fs), q - 1) \o D[fs[q]]
         /\ \A q \in 0..Len(fs) : C!Joined(C!OfFiles(D, fs), q) \in Seq(Named)
<1>1. PICK N \in Nat : N = Len(fs) /\ DOMAIN fs = 1..N /\ fs \in [1..N -> Conf]
  OBVIOUS
<1> DEFINE V == Seq(Named)
<1>2. PICK s : s = C!OfFiles(D, fs)
  OBVIOUS
<1>3. s \in [1..N -> V] /\ \A q \in 1..N : s[q] = D[fs[q]]
  <2>1. s = [q \in 1..N |-> D[fs[q]]]
    BY <1>1, <1>2, Zenon DEF C!OfFiles
  <2> HIDE DEF V
  <2>2. D \in [Conf -> V]
    BY DEF V
  <2>3. QED
    BY <1>1, <2>1, <2>2
<1>4. s \in Seq(Seq(Named)) /\ Len(s) = N
  <2> HIDE DEF V
  <2>1. s \in Seq(V) /\ Len(s) = N
    <3>1. s \in [1..N -> V] /\ N \in Nat
      BY <1>1, <1>3, Zenon
    <3>2. QED
      BY <3>1, SMTT(30)
  <2>2. QED
    BY <2>1 DEF V
<1>5. /\ C!Joined(s, 0) = <<>>
      /\ \A q \in 1..N : C!Joined(s, q) = C!Joined(s, q - 1) \o s[q]
      /\ \A q \in 0..N : C!Joined(s, q) \in Seq(Named)
  BY <1>4, JoinedSteps, Zenon
<1>6. QED
  BY <1>1, <1>2, <1>3, <1>4, <1>5, Zenon

LEMMA ItemType ==
  ASSUME NEW D \in [Conf -> Seq(Named)], NEW x \in C!Item
  PROVE  C!OfItem(D, x) \in Seq(Named)
<1>1. CASE x.kind = "comment"
  BY <1>1 DEF C!OfItem
<1>2. CASE x.kind = "dir"
  <2>1. x.dir \in Named
    BY <1>2 DEF C!Item, Named
  <2>2. C!OfItem(D, x) = <<x.dir>>
    BY <1>2 DEF C!OfItem
  <2>3. QED
    BY <2>1, <2>2
<1>3. CASE x.kind = "include"
  <2>1. x.files \in Seq(Conf)
    BY <1>3 DEF C!Item
  <2>2. C!OfItem(D, x) = C!Joined(C!OfFiles(D, x.files), Len(x.files))
    BY <1>3 DEF C!OfItem
  <2>3. Len(x.files) \in 0..Len(x.files)
    BY <2>1
  <2>4. QED
    BY <2>1, <2>2, <2>3, JoinFiles
<1>4. QED
  BY <1>1, <1>2, <1>3 DEF C!Item

LEMMA JoinItems ==
  ASSUME NEW D \in [Conf -> Seq(Named)], NEW is \in Seq(C!Item)
  PROVE  /\ C!Joined(C!OfItems(D, is), 0) = <<>>
         /\ \A q \in 1..Len(is) :
              C!Joined(C!OfItems(D, is), q) =
                C!Joined(C!OfItems(D, is), q - 1) \o C!OfItem(D, is[q])
         /\ \A q \in 0..Len(is) : C!Joined(C!OfItems(D, is), q) \in Seq(Named)
<1>1. PICK N \in Nat : N = Len(is) /\ DOMAIN is = 1..N /\ is \in [1..N -> C!Item]
  OBVIOUS
<1> DEFINE V == Seq(Named)
<1>2. PICK s : s = C!OfItems(D, is)
  OBVIOUS
<1>3. s \in [1..N -> V] /\ \A q \in 1..N : s[q] = C!OfItem(D, is[q])
  <2>1. s = [q \in 1..N |-> C!OfItem(D, is[q])]
    BY <1>1, <1>2, Zenon DEF C!OfItems
  <2>2. \A q \in 1..N : C!OfItem(D, is[q]) \in V
    BY <1>1, ItemType
  <2> HIDE DEF V
  <2>3. QED
    BY <2>1, <2>2
<1>4. s \in Seq(Seq(Named)) /\ Len(s) = N
  <2> HIDE DEF V
  <2>1. s \in Seq(V) /\ Len(s) = N
    <3>1. s \in [1..N -> V] /\ N \in Nat
      BY <1>1, <1>3, Zenon
    <3>2. QED
      BY <3>1, SMTT(30)
  <2>2. QED
    BY <2>1 DEF V
<1>5. /\ C!Joined(s, 0) = <<>>
      /\ \A q \in 1..N : C!Joined(s, q) = C!Joined(s, q - 1) \o s[q]
      /\ \A q \in 0..N : C!Joined(s, q) \in Seq(Named)
  BY <1>4, JoinedSteps, Zenon
<1>6. QED
  BY <1>1, <1>2, <1>3, <1>5, Zenon

LEMMA TextType ==
  ASSUME NEW t \in [Conf -> Seq(C!Item)], NEW D \in [Conf -> Seq(Named)]
  PROVE  C!OfText(t, D) \in [Conf -> Seq(Named)]
<1>1. ASSUME NEW f \in Conf PROVE C!Joined(C!OfItems(D, t[f]), Len(t[f])) \in Seq(Named)
  <2>1. t[f] \in Seq(C!Item)
    OBVIOUS
  <2>2. Len(t[f]) \in 0..Len(t[f])
    BY <2>1
  <2>3. QED
    BY <2>1, <2>2, JoinItems
<1>2. <<>> \in Seq(Named)
  OBVIOUS
<1>3. QED
  BY <1>1, <1>2, Zenon DEF C!OfText


\* The recursion of Expand, one depth at a time.
LEMMA ExpandSteps ==
  ASSUME C!ConfAssumption, NEW t \in [Conf -> Seq(C!Item)]
  PROVE  /\ \A d \in 0..MaxDepth : C!Expand(t, d) \in [Conf -> Seq(Named)]
         /\ \A d \in 1..MaxDepth : C!Expand(t, d) = C!OfText(t, C!Expand(t, d - 1))
         /\ \A d \in 0..MaxDepth : \A f \in Foreign : C!Expand(t, d)[f] = <<>>
<1> DEFINE V == [Conf -> Seq(Named)]
           v == [f \in Conf |-> IF f \in Foreign THEN <<>> ELSE <<"too deep">>]
           step == [q \in 1..MaxDepth |-> [w \in V |-> C!OfText(t, w)]]
           Rec(g) == g = [q \in 0..MaxDepth |-> IF q = 0 THEN v ELSE C!OfText(t, g[q - 1])]
<1>1. MaxDepth \in Nat \ {0} /\ Foreign \subseteq Conf
  BY DEF C!ConfAssumption
<1>2. v \in V
  <2>1. <<"too deep">> \in Seq(Named) /\ <<>> \in Seq(Named)
    BY DEF Named
  <2>2. QED
    BY <2>1, Zenon
<1>3. \A w \in V : C!OfText(t, w) \in V
  BY TextType
<1>4. step \in [1..MaxDepth -> [V -> V]]
  <2> HIDE DEF V
  <2>1. QED
    BY <1>3
<1>5. PICK g \in [0..MaxDepth -> V] :
        g[0] = v /\ \A q \in 1..MaxDepth : g[q] = step[q][g[q - 1]]
  <2> HIDE DEF step, V, Rec, v
  <2>1. PICK g : IsRecursion(g, V, v, MaxDepth, step)
    BY <1>1, <1>2, <1>4, RecursionIs
  <2>2. QED
    BY <2>1, Zenon DEF IsRecursion
<1>6. Rec(g)
  <2>1. ASSUME NEW q \in 1..MaxDepth PROVE g[q] = C!OfText(t, g[q - 1])
    <3> HIDE DEF V, v, Rec
    <3>1. g[q - 1] \in V
      BY <1>1, <1>5
    <3>2. g[q] = step[q][g[q - 1]]
      BY <1>5
    <3>3. QED
      BY <3>1, <3>2, Zenon
  <2>2. \A q \in 0..MaxDepth : q = 0 \/ q \in 1..MaxDepth
    BY <1>1
  <2> HIDE DEF v, V
  <2>3. QED
    BY <2>1, <2>2, <1>5, Zenon
<1>7. \A d : C!Expand(t, d) = (CHOOSE h : Rec(h))[d]
  BY DEF C!Expand
<1>8. PICK h : Rec(h) /\ \A d : C!Expand(t, d) = h[d]
  <2> HIDE DEF Rec
  <2>1. QED
    BY <1>6, <1>7
<1>9. h[0] = v /\ \A q \in 1..MaxDepth : h[q] = C!OfText(t, h[q - 1])
  <2>1. \A q \in 1..MaxDepth : q # 0 /\ q \in 0..MaxDepth
    BY <1>1
  <2>2. 0 \in 0..MaxDepth
    BY <1>1
  <2> HIDE DEF v
  <2>3. QED
    BY <2>1, <2>2, <1>8, Zenon
<1>10. \A q \in 0..MaxDepth : h[q] \in V
  <2>1. h[0] \in V
    BY <1>2, <1>9, Zenon
  <2> HIDE DEF V, v, Rec
  <2>2. \A q \in 1..MaxDepth : h[q - 1] \in V => h[q] \in V
    BY <1>3, <1>9, Zenon
  <2>3. MaxDepth \in Nat
    BY <1>1
  <2>4. QED
    BY <2>1, <2>2, <2>3, RecursionType
<1>11. ASSUME NEW d \in 0..MaxDepth, NEW f \in Foreign PROVE h[d][f] = <<>>
  <2>1. f \in Conf
    BY <1>1
  <2>2. CASE d = 0
    BY <2>1, <2>2, <1>9, Zenon
  <2>3. CASE d # 0
    <3>1. d \in 1..MaxDepth
      BY <2>3, <1>1
    <3>2. h[d] = C!OfText(t, h[d - 1])
      BY <3>1, <1>9, Zenon
    <3>3. QED
      BY <3>2, <2>1, Zenon DEF C!OfText
  <2>4. QED
    BY <2>2, <2>3
<1>12. \A d \in 0..MaxDepth : C!Expand(t, d) \in V
  <2> HIDE DEF V, v, Rec
  <2>1. QED
    BY <1>8, <1>10, Zenon
<1>13. \A d \in 1..MaxDepth : C!Expand(t, d) = C!OfText(t, C!Expand(t, d - 1))
  <2> HIDE DEF V, v, Rec
  <2>1. QED
    BY <1>8, <1>9, Zenon
<1>14. \A d \in 0..MaxDepth : \A f \in Foreign : C!Expand(t, d)[f] = <<>>
  <2> HIDE DEF V, v, Rec
  <2>1. QED
    BY <1>8, <1>11, Zenon
<1>15. QED
  BY <1>12, <1>13, <1>14, Zenon


-----------------------------------------------------------------------------
\* An activation: what it has read is a part of what its file stands for.
IsCall(t, c) ==
  /\ c \in [file : Conf \ Foreign, at : Nat \ {0}, files : Seq(Conf)]
  /\ c.at <= Len(t[c.file]) + 1

\* The include line it is in, and what its items and the files of the line stand for.
Glob(t, c) == t[c.file][c.at - 1].files
ItemsTo(t, D, c, n) == C!Joined(C!OfItems(D, t[c.file]), n)
FilesTo(t, D, c, n) == C!Joined(C!OfFiles(D, Glob(t, c)), n)

\* Its glob, of which j files are taken.
InGlob(t, c, j) ==
  /\ c.at >= 2
  /\ t[c.file][c.at - 1].kind = "include"
  /\ j \in 0..Len(Glob(t, c))
  /\ c.files = SubSeq(Glob(t, c), j + 1, Len(Glob(t, c)))

\* The innermost activation has come to x; one that has called to x, and waits for f.
Working(t, D, c, x) ==
  \/ c.files = <<>> /\ x = ItemsTo(t, D, c, c.at - 1)
  \/ \E j : InGlob(t, c, j) /\ x = ItemsTo(t, D, c, c.at - 2) \o FilesTo(t, D, c, j)
Waiting(t, D, c, f, x) ==
  \E j : /\ InGlob(t, c, j) /\ j >= 1 /\ Glob(t, c)[j] = f
         /\ x = ItemsTo(t, D, c, c.at - 2) \o FilesTo(t, D, c, j - 1)

LEMMA ItemFacts ==
  ASSUME NEW t \in [Conf -> Seq(C!Item)], NEW D \in [Conf -> Seq(Named)], NEW c, IsCall(t, c)
  PROVE  /\ t[c.file] \in Seq(C!Item) /\ c.at - 1 \in 0..Len(t[c.file])
         /\ ItemsTo(t, D, c, 0) = <<>>
         /\ \A q \in 0..Len(t[c.file]) : ItemsTo(t, D, c, q) \in Seq(Named)
         /\ \A q \in 1..Len(t[c.file]) :
              ItemsTo(t, D, c, q) = ItemsTo(t, D, c, q - 1) \o C!OfItem(D, t[c.file][q])
<1>1. c.file \in Conf /\ c.at \in Nat \ {0} /\ c.at <= Len(t[c.file]) + 1
  BY DEF IsCall
<1>2. t[c.file] \in Seq(C!Item)
  BY <1>1
<1>3. c.at - 1 \in 0..Len(t[c.file])
  BY <1>1, <1>2
<1>4. QED
  BY <1>2, <1>3, JoinItems, Zenon DEF ItemsTo

LEMMA GlobFacts ==
  ASSUME NEW t \in [Conf -> Seq(C!Item)], NEW D \in [Conf -> Seq(Named)], NEW c, IsCall(t, c),
         NEW j, InGlob(t, c, j)
  PROVE  /\ Glob(t, c) \in Seq(Conf) /\ j \in 0..Len(Glob(t, c)) /\ Len(Glob(t, c)) \in Nat
         /\ FilesTo(t, D, c, 0) = <<>>
         /\ \A q \in 0..Len(Glob(t, c)) : FilesTo(t, D, c, q) \in Seq(Named)
         /\ \A q \in 1..Len(Glob(t, c)) :
              FilesTo(t, D, c, q) = FilesTo(t, D, c, q - 1) \o D[Glob(t, c)[q]]
         /\ ItemsTo(t, D, c, c.at - 2) \in Seq(Named)
         /\ ItemsTo(t, D, c, c.at - 1) =
              ItemsTo(t, D, c, c.at - 2) \o FilesTo(t, D, c, Len(Glob(t, c)))
<1>1. PICK a \in Nat \ {0} : a = c.at
  BY DEF IsCall
<1>2. t[c.file] \in Seq(C!Item) /\ a >= 2 /\ a - 1 \in 1..Len(t[c.file])
  <2>1. t[c.file] \in Seq(C!Item) /\ a - 1 \in 0..Len(t[c.file])
    BY <1>1, ItemFacts, Zenon
  <2>2. a >= 2
    BY <1>1, Zenon DEF InGlob
  <2>3. QED
    BY <2>1, <2>2
<1>3. PICK x \in C!Item : x = t[c.file][a - 1] /\ x.kind = "include"
  <2>1. t[c.file][a - 1].kind = "include"
    BY <1>1, Zenon DEF InGlob
  <2>2. t[c.file][a - 1] \in C!Item
    BY <1>2
  <2>3. QED
    BY <2>1, <2>2, Zenon
<1>4. Glob(t, c) = x.files /\ x.files \in Seq(Conf)
  BY <1>1, <1>3 DEF Glob, C!Item
<1>5. j \in 0..Len(Glob(t, c)) /\ Len(Glob(t, c)) \in Nat
  BY <1>4 DEF InGlob
<1>6. /\ FilesTo(t, D, c, 0) = <<>>
      /\ \A q \in 0..Len(Glob(t, c)) : FilesTo(t, D, c, q) \in Seq(Named)
      /\ \A q \in 1..Len(Glob(t, c)) :
           FilesTo(t, D, c, q) = FilesTo(t, D, c, q - 1) \o D[Glob(t, c)[q]]
  BY <1>4, JoinFiles, Zenon DEF FilesTo
<1>7. C!OfItem(D, x) = FilesTo(t, D, c, Len(Glob(t, c)))
  BY <1>3, <1>4 DEF C!OfItem, FilesTo
<1>8. a - 2 \in 0..Len(t[c.file]) /\ (a - 1) - 1 = a - 2
  BY <1>2
<1>9. /\ ItemsTo(t, D, c, a - 2) \in Seq(Named)
      /\ ItemsTo(t, D, c, a - 1) = ItemsTo(t, D, c, a - 2) \o C!OfItem(D, x)
  <2>1. /\ ItemsTo(t, D, c, a - 2) \in Seq(Named)
        /\ ItemsTo(t, D, c, a - 1) =
             ItemsTo(t, D, c, (a - 1) - 1) \o C!OfItem(D, t[c.file][a - 1])
    <3>1. /\ \A q \in 0..Len(t[c.file]) : ItemsTo(t, D, c, q) \in Seq(Named)
          /\ \A q \in 1..Len(t[c.file]) :
               ItemsTo(t, D, c, q) = ItemsTo(t, D, c, q - 1) \o C!OfItem(D, t[c.file][q])
      BY ItemFacts, Zenon
    <3>2. QED
      BY <1>2, <1>8, <3>1, Zenon
  <2>2. QED
    BY <2>1, <1>3, <1>8, Zenon
<1>10. QED
  BY <1>1, <1>4, <1>5, <1>6, <1>7, <1>9, Zenon

\* What an activation has come to is a sequence of directories.
LEMMA PartType ==
  ASSUME NEW t \in [Conf -> Seq(C!Item)], NEW D \in [Conf -> Seq(Named)], NEW c, IsCall(t, c),
         NEW x, Working(t, D, c, x) \/ \E f : Waiting(t, D, c, f, x)
  PROVE  x \in Seq(Named)
<1>1. CASE x = ItemsTo(t, D, c, c.at - 1)
  BY <1>1, ItemFacts
<1>2. ASSUME NEW j, NEW q, InGlob(t, c, j), q \in 0..Len(Glob(t, c)),
             x = ItemsTo(t, D, c, c.at - 2) \o FilesTo(t, D, c, q)
      PROVE  x \in Seq(Named)
  <2>1. ItemsTo(t, D, c, c.at - 2) \in Seq(Named) /\ FilesTo(t, D, c, q) \in Seq(Named)
    BY <1>2, GlobFacts
  <2>2. QED
    BY <1>2, <2>1, ConcatProperties
<1>3. ASSUME NEW j, InGlob(t, c, j) PROVE j \in 0..Len(Glob(t, c)) /\ Len(Glob(t, c)) \in Nat
  BY <1>3, GlobFacts
<1>4. CASE Working(t, D, c, x)
  BY <1>1, <1>2, <1>3, <1>4, Zenon DEF Working
<1>5. ASSUME NEW f, Waiting(t, D, c, f, x) PROVE x \in Seq(Named)
  <2>1. PICK j : /\ InGlob(t, c, j) /\ j >= 1
                 /\ x = ItemsTo(t, D, c, c.at - 2) \o FilesTo(t, D, c, j - 1)
    BY <1>5, Zenon DEF Waiting
  <2>2. j - 1 \in 0..Len(Glob(t, c))
    BY <1>3, <2>1
  <2>3. QED
    BY <1>2, <2>1, <2>2
<1>6. QED
  BY <1>4, <1>5


\* At the end of a glob the items up to the include line are done.
LEMMA GlobEnds ==
  ASSUME NEW t \in [Conf -> Seq(C!Item)], NEW D \in [Conf -> Seq(Named)], NEW c, IsCall(t, c),
         NEW x, Working(t, D, c, x), c.files = <<>>
  PROVE  x = ItemsTo(t, D, c, c.at - 1)
<1>1. ASSUME NEW j, InGlob(t, c, j), x = ItemsTo(t, D, c, c.at - 2) \o FilesTo(t, D, c, j)
      PROVE  x = ItemsTo(t, D, c, c.at - 1)
  <2>1. PICK fs \in Seq(Conf) : fs = Glob(t, c) /\ j \in 0..Len(fs)
    BY <1>1, GlobFacts
  <2>2. SubSeq(fs, j + 1, Len(fs)) = <<>>
    BY <1>1, <2>1 DEF InGlob
  <2>3. j = Len(fs)
    <3>1. Len(SubSeq(fs, j + 1, Len(fs))) = IF j + 1 <= Len(fs) THEN Len(fs) - (j + 1) + 1 ELSE 0
      BY <2>1, SubSeqProperties
    <3>2. PICK N \in Nat : N = Len(fs) /\ j \in 0..N
      BY <2>1
    <3>3. (IF j + 1 <= N THEN N - (j + 1) + 1 ELSE 0) = 0
      BY <2>2, <3>1, <3>2
    <3>4. j = N
      BY <3>2, <3>3
    <3>5. QED
      BY <3>2, <3>4
  <2>4. QED
    BY <1>1, <2>1, <2>3, GlobFacts
<1>2. QED
  BY <1>1, Zenon DEF Working

\* The next file of a glob, and what is left behind it.
LEMMA GlobNext ==
  ASSUME NEW t \in [Conf -> Seq(C!Item)], NEW D \in [Conf -> Seq(Named)], NEW c, IsCall(t, c),
         NEW x, Working(t, D, c, x), c.files # <<>>
  PROVE  /\ IsCall(t, C!Advance(c)) /\ Head(c.files) \in Conf
         /\ Waiting(t, D, C!Advance(c), Head(c.files), x)
<1>1. PICK j : InGlob(t, c, j) /\ x = ItemsTo(t, D, c, c.at - 2) \o FilesTo(t, D, c, j)
  BY Zenon DEF Working
<1>2. PICK fs \in Seq(Conf) : fs = Glob(t, c) /\ j \in 0..Len(fs)
  BY <1>1, GlobFacts
<1>3. c.files = SubSeq(fs, j + 1, Len(fs))
  BY <1>1, <1>2 DEF InGlob
<1>4. j + 1 \in 1..Len(fs)
  <2>1. j + 1 > Len(fs) => SubSeq(fs, j + 1, Len(fs)) = <<>>
    BY <1>2, SubSeqEmpty
  <2>2. QED
    BY <2>1, <1>2, <1>3
<1>5. Head(c.files) = fs[j + 1] /\ Tail(c.files) = SubSeq(fs, (j + 1) + 1, Len(fs))
  BY <1>2, <1>3, <1>4, HeadTailOfSubSeq
<1>6. fs[j + 1] \in Conf /\ Tail(c.files) \in Seq(Conf)
  <2>1. fs[j + 1] \in Conf
    BY <1>2, <1>4
  <2>2. c.files \in Seq(Conf)
    BY DEF IsCall
  <2>3. QED
    BY <2>1, <2>2, HeadTailProperties
<1>7. PICK b : b = C!Advance(c)
  OBVIOUS
<1>8. /\ b \in [file : Conf \ Foreign, at : Nat \ {0}, files : Seq(Conf)]
      /\ b.file = c.file /\ b.at = c.at /\ b.files = Tail(c.files)
  BY <1>6, <1>7 DEF IsCall, C!Advance
<1>9. IsCall(t, b)
  BY <1>8 DEF IsCall
<1>10. Glob(t, b) = fs
  BY <1>2, <1>8 DEF Glob
<1>11. /\ ItemsTo(t, D, b, b.at - 2) = ItemsTo(t, D, c, c.at - 2)
       /\ \A q : FilesTo(t, D, b, q) = FilesTo(t, D, c, q)
  BY <1>2, <1>8, <1>10 DEF ItemsTo, FilesTo
<1>12. InGlob(t, b, j + 1)
  <2>1. b.at >= 2 /\ t[b.file][b.at - 1].kind = "include"
    BY <1>1, <1>8, Zenon DEF InGlob
  <2>2. j + 1 \in 0..Len(fs)
    BY <1>2, <1>4
  <2>3. b.files = SubSeq(fs, (j + 1) + 1, Len(fs))
    BY <1>5, <1>8
  <2>4. QED
    BY <2>1, <2>2, <2>3, <1>10, Zenon DEF InGlob
<1>13. j + 1 >= 1 /\ (j + 1) - 1 = j
  BY <1>2
<1>14. Waiting(t, D, b, fs[j + 1], x)
  <2>1. x = ItemsTo(t, D, b, b.at - 2) \o FilesTo(t, D, b, (j + 1) - 1)
    BY <1>1, <1>11, <1>13
  <2>2. Glob(t, b)[j + 1] = fs[j + 1]
    BY <1>10
  <2>3. QED
    BY <2>1, <2>2, <1>12, <1>13, Zenon DEF Waiting
<1>15. QED
  BY <1>5, <1>6, <1>7, <1>9, <1>14

\* When the file it waits for has been read.
LEMMA GlobBack ==
  ASSUME NEW t \in [Conf -> Seq(C!Item)], NEW D \in [Conf -> Seq(Named)], NEW c, IsCall(t, c),
         NEW f \in Conf, NEW x, Waiting(t, D, c, f, x)
  PROVE  Working(t, D, c, x \o D[f])
<1>1. PICK j : /\ InGlob(t, c, j) /\ j >= 1 /\ Glob(t, c)[j] = f
               /\ x = ItemsTo(t, D, c, c.at - 2) \o FilesTo(t, D, c, j - 1)
  BY Zenon DEF Waiting
<1>2. j \in 1..Len(Glob(t, c)) /\ j - 1 \in 0..Len(Glob(t, c))
  <2>1. PICK N \in Nat : N = Len(Glob(t, c)) /\ j \in 0..N
    BY <1>1, GlobFacts
  <2>2. j \in 1..N /\ j - 1 \in 0..N
    BY <1>1, <2>1
  <2>3. QED
    BY <2>1, <2>2
<1>3. FilesTo(t, D, c, j) = FilesTo(t, D, c, j - 1) \o D[f]
  BY <1>1, <1>2, GlobFacts
<1>4. PICK y \in Seq(Named) : y = ItemsTo(t, D, c, c.at - 2)
  BY <1>1, GlobFacts
<1>5. PICK z \in Seq(Named) : z = FilesTo(t, D, c, j - 1)
  BY <1>1, <1>2, GlobFacts
<1>6. D[f] \in Seq(Named)
  OBVIOUS
<1>7. (y \o z) \o D[f] = y \o (z \o D[f])
  BY <1>6, NamedAssociative
<1>8. x \o D[f] = ItemsTo(t, D, c, c.at - 2) \o FilesTo(t, D, c, j)
  BY <1>1, <1>3, <1>4, <1>5, <1>7, Zenon
<1>9. QED
  BY <1>1, <1>8, Zenon DEF Working


\* The next item of an activation.
LEMMA CallMoves ==
  ASSUME NEW c \in [file : Conf \ Foreign, at : Nat \ {0}, files : Seq(Conf)],
         NEW fs \in Seq(Conf), NEW b,
         \/ b = [c EXCEPT !.at = @ + 1] /\ fs = c.files
         \/ b = [c EXCEPT !.at = @ + 1, !.files = fs]
  PROVE  /\ b \in [file : Conf \ Foreign, at : Nat \ {0}, files : Seq(Conf)]
         /\ b.file = c.file /\ b.at = c.at + 1 /\ b.files = fs
<1> DEFINE F == Conf \ Foreign
           T == Seq(Conf)
           N == Nat \ {0}
<1>1. c \in [file : F, at : N, files : T] /\ c.at + 1 \in N /\ fs \in T /\ c.files \in T
  OBVIOUS
<1>2. PICK m : m = c.at + 1
  OBVIOUS
<1>3. CASE b = [c EXCEPT !.at = m] /\ fs = c.files
  <2> HIDE DEF F, T, N
  <2>1. b \in [file : F, at : N, files : T] /\ b.file = c.file /\ b.at = m /\ b.files = fs
    BY <1>1, <1>2, <1>3
  <2>2. QED
    BY <2>1, <1>2 DEF F, T, N
<1>4. CASE b = [c EXCEPT !.at = m, !.files = fs]
  <2> HIDE DEF F, T, N
  <2>1. b \in [file : F, at : N, files : T] /\ b.file = c.file /\ b.at = m /\ b.files = fs
    BY <1>1, <1>2, <1>4
  <2>2. QED
    BY <2>1, <1>2 DEF F, T, N
<1>5. QED
  BY <1>2, <1>3, <1>4

LEMMA AtItem ==
  ASSUME NEW t \in [Conf -> Seq(C!Item)], NEW c, IsCall(t, c), c.at <= Len(t[c.file])
  PROVE  /\ t[c.file] \in Seq(C!Item) /\ c.at \in Nat \ {0} /\ c.at \in 1..Len(t[c.file])
         /\ t[c.file][c.at] \in C!Item
         /\ c \in [file : Conf \ Foreign, at : Nat \ {0}, files : Seq(Conf)]
<1>1. /\ c \in [file : Conf \ Foreign, at : Nat \ {0}, files : Seq(Conf)]
      /\ c.file \in Conf /\ c.at \in Nat \ {0}
  BY DEF IsCall
<1>2. t[c.file] \in Seq(C!Item)
  BY <1>1
<1>3. c.at \in 1..Len(t[c.file])
  BY <1>1, <1>2
<1>4. QED
  BY <1>1, <1>2, <1>3

\* An item that is no include line.
LEMMA ItemNext ==
  ASSUME NEW t \in [Conf -> Seq(C!Item)], NEW D \in [Conf -> Seq(Named)], NEW c, IsCall(t, c),
         NEW x, Working(t, D, c, x), c.files = <<>>, c.at <= Len(t[c.file]),
         NEW b, b = [c EXCEPT !.at = @ + 1]
  PROVE  /\ IsCall(t, b) /\ t[c.file][c.at] \in C!Item
         /\ Working(t, D, b, x \o C!OfItem(D, t[c.file][c.at]))
<1>1. PICK a \in Nat \ {0} : a = c.at
  BY DEF IsCall
<1>2. t[c.file] \in Seq(C!Item) /\ a \in 1..Len(t[c.file])
  BY <1>1, AtItem
<1>3. /\ b \in [file : Conf \ Foreign, at : Nat \ {0}, files : Seq(Conf)]
      /\ b.file = c.file /\ b.at = a + 1 /\ b.files = <<>>
  <2>1. c \in [file : Conf \ Foreign, at : Nat \ {0}, files : Seq(Conf)]
    BY AtItem
  <2>2. PICK fs \in Seq(Conf) : fs = c.files
    BY <2>1
  <2>3. QED
    BY <1>1, <2>1, <2>2, CallMoves
<1>4. IsCall(t, b)
  <2>1. a + 1 <= Len(t[c.file]) + 1
    BY <1>2
  <2>2. QED
    BY <2>1, <1>3 DEF IsCall
<1>5. x = ItemsTo(t, D, c, a - 1)
  BY <1>1, GlobEnds
<1>6. ItemsTo(t, D, c, a) = ItemsTo(t, D, c, a - 1) \o C!OfItem(D, t[c.file][a])
  <2>1. \A q \in 1..Len(t[c.file]) :
          ItemsTo(t, D, c, q) = ItemsTo(t, D, c, q - 1) \o C!OfItem(D, t[c.file][q])
    BY ItemFacts, Zenon
  <2>2. QED
    BY <1>2, <2>1, Zenon
<1>7. b.at - 1 = a
  BY <1>3
<1>8. ItemsTo(t, D, b, b.at - 1) = x \o C!OfItem(D, t[c.file][c.at])
  BY <1>1, <1>3, <1>5, <1>6, <1>7, Zenon DEF ItemsTo
<1>9. t[c.file][c.at] \in C!Item
  BY <1>1, <1>2
<1>10. QED
  BY <1>3, <1>4, <1>8, <1>9, Zenon DEF Working

\* The activation with the files of the include line that is next.
Entered(t, c) == [c EXCEPT !.at = @ + 1, !.files = t[c.file][c.at].files]

\* An include line: its glob begins.
LEMMA GlobBegins ==
  ASSUME NEW t \in [Conf -> Seq(C!Item)], NEW D \in [Conf -> Seq(Named)], NEW c, IsCall(t, c),
         NEW x, Working(t, D, c, x), c.files = <<>>, c.at <= Len(t[c.file]),
         t[c.file][c.at].kind = "include",
         NEW b, b = Entered(t, c)
  PROVE  IsCall(t, b) /\ Working(t, D, b, x)
<1>1. PICK a \in Nat \ {0} : a = c.at
  BY DEF IsCall
<1>2. t[c.file] \in Seq(C!Item) /\ a \in 1..Len(t[c.file])
  BY <1>1, AtItem
<1>3. PICK y \in C!Item : y = t[c.file][a] /\ y.kind = "include"
  BY <1>1, <1>2
<1>4. PICK fs \in Seq(Conf) : fs = y.files
  BY <1>3 DEF C!Item
<1>5. /\ b \in [file : Conf \ Foreign, at : Nat \ {0}, files : Seq(Conf)]
      /\ b.file = c.file /\ b.at = a + 1 /\ b.files = fs
  <2>1. c \in [file : Conf \ Foreign, at : Nat \ {0}, files : Seq(Conf)]
    BY AtItem
  <2>2. b = [c EXCEPT !.at = @ + 1, !.files = fs]
    BY <1>1, <1>3, <1>4 DEF Entered
  <2>3. QED
    BY <1>1, <2>1, <2>2, CallMoves
<1>6. IsCall(t, b)
  <2>1. a + 1 <= Len(t[c.file]) + 1
    BY <1>2
  <2>2. QED
    BY <2>1, <1>5 DEF IsCall
<1>7. b.at - 1 = a /\ b.at >= 2 /\ b.at - 2 = a - 1
  <2>1. (a + 1) - 1 = a /\ a + 1 >= 2 /\ (a + 1) - 2 = a - 1
    OBVIOUS
  <2>2. QED
    BY <2>1, <1>5
<1>8. Glob(t, b) = fs /\ t[b.file][b.at - 1].kind = "include"
  BY <1>3, <1>4, <1>5, <1>7 DEF Glob
<1>9. InGlob(t, b, 0)
  <2>1. SubSeq(fs, 0 + 1, Len(fs)) = fs /\ 0 \in 0..Len(fs)
    <3>1. PICK s : s = SubSeq(fs, 1, Len(fs))
      OBVIOUS
    <3>2. \A q \in 1..Len(fs) : fs[q] \in Conf
      OBVIOUS
    <3>3. /\ s \in Seq(Conf) /\ Len(s) = Len(fs)
          /\ \A q \in 1..Len(fs) : s[q] = fs[q]
      BY <3>1, <3>2, SubSeqProperties
    <3>4. s = fs
      BY <3>3, SeqEqual
    <3>5. QED
      BY <3>1, <3>4
  <2>2. QED
    BY <2>1, <1>5, <1>7, <1>8, Zenon DEF InGlob
<1>10. x = ItemsTo(t, D, b, b.at - 2)
  <2>1. x = ItemsTo(t, D, c, a - 1)
    BY <1>1, GlobEnds
  <2>2. QED
    BY <2>1, <1>5, <1>7, Zenon DEF ItemsTo
<1>11. x = ItemsTo(t, D, b, b.at - 2) \o FilesTo(t, D, b, 0)
  <2>1. FilesTo(t, D, b, 0) = <<>> /\ ItemsTo(t, D, b, b.at - 2) \in Seq(Named)
    BY <1>6, <1>9, GlobFacts
  <2>2. ItemsTo(t, D, b, b.at - 2) \o <<>> = ItemsTo(t, D, b, b.at - 2)
    BY <2>1, ConcatEmptySeq
  <2>3. QED
    BY <2>1, <2>2, <1>10, Zenon
<1>12. QED
  BY <1>6, <1>9, <1>11, Zenon DEF Working

\* A call has read nothing.
LEMMA CallBegins ==
  ASSUME NEW t \in [Conf -> Seq(C!Item)], NEW D \in [Conf -> Seq(Named)],
         NEW f \in Conf \ Foreign
  PROVE  IsCall(t, C!Call(f)) /\ Working(t, D, C!Call(f), <<>>)
<1>1. PICK b : b = C!Call(f)
  OBVIOUS
<1>2. /\ b \in [file : Conf \ Foreign, at : Nat \ {0}, files : Seq(Conf)]
      /\ b.file = f /\ b.at = 1 /\ b.files = <<>>
  BY <1>1 DEF C!Call
<1>3. IsCall(t, b)
  <2>1. t[f] \in Seq(C!Item)
    OBVIOUS
  <2>2. 1 <= Len(t[f]) + 1
    BY <2>1
  <2>3. QED
    BY <2>2, <1>2 DEF IsCall
<1>4. ItemsTo(t, D, b, 0) = <<>> /\ b.at - 1 = 0
  <2>1. ItemsTo(t, D, b, 0) = <<>>
    BY <1>3, ItemFacts, Zenon
  <2>2. QED
    BY <2>1, <1>2
<1>5. QED
  BY <1>1, <1>2, <1>3, <1>4, Zenon DEF Working

\* At the end of the file an activation has come to all that the file stands for.
LEMMA CallEnds ==
  ASSUME NEW t \in [Conf -> Seq(C!Item)], NEW D \in [Conf -> Seq(Named)], NEW c, IsCall(t, c),
         NEW x, Working(t, D, c, x), c.files = <<>>, c.at > Len(t[c.file])
  PROVE  x = C!OfText(t, D)[c.file]
<1>1. PICK a \in Nat \ {0} : a = c.at
  BY DEF IsCall
<1>2. PICK N \in Nat : N = Len(t[c.file]) /\ a - 1 = N
  <2>1. PICK N \in Nat : N = Len(t[c.file])
    BY ItemFacts
  <2>2. a <= N + 1 /\ a > N
    BY <1>1, <2>1 DEF IsCall
  <2>3. QED
    BY <1>1, <2>1, <2>2
<1>3. x = ItemsTo(t, D, c, N)
  BY <1>1, <1>2, GlobEnds
<1>4. c.file \in Conf /\ c.file \notin Foreign
  BY DEF IsCall
<1>5. QED
  BY <1>2, <1>3, <1>4, Zenon DEF C!OfText, ItemsTo


-----------------------------------------------------------------------------
\* The result r is accounted for by the n activations cs: when activation q was called
\* it was w[q], and x[q] is what q has come to since, each with what files that it
\* includes stand for at its depth.
At(t, q) == C!Expand(t, MaxDepth - q)
Account(t, cs, n, r, w, x) ==
  /\ w \in [1..n -> Seq(Named)] /\ x \in [1..n -> Seq(Named)] /\ w[1] = <<>>
  /\ \A q \in 1..n : IsCall(t, cs[q])
  /\ \A q \in 1..n - 1 : /\ w[q + 1] = w[q] \o x[q]
                         /\ Waiting(t, At(t, q), cs[q], cs[q + 1].file, x[q])
  /\ Working(t, At(t, n), cs[n], x[n])
  /\ r = w[n] \o x[n]

LEMMA AtType ==
  ASSUME C!ConfAssumption, NEW t \in [Conf -> Seq(C!Item)], NEW q \in 1..MaxDepth
  PROVE  /\ At(t, q) \in [Conf -> Seq(Named)]
         /\ C!Expand(t, MaxDepth - q + 1) = C!OfText(t, At(t, q))
         /\ \A f \in Foreign : At(t, q)[f] = <<>>
<1>1. MaxDepth \in Nat
  BY DEF C!ConfAssumption
<1>2. MaxDepth - q \in 0..MaxDepth /\ MaxDepth - q + 1 \in 1..MaxDepth
      /\ (MaxDepth - q + 1) - 1 = MaxDepth - q
  BY <1>1
<1>3. C!Expand(t, MaxDepth - q + 1) = C!OfText(t, C!Expand(t, (MaxDepth - q + 1) - 1))
  BY <1>2, ExpandSteps, Zenon
<1>4. QED
  BY <1>2, <1>3, ExpandSteps, Zenon DEF At

\* The innermost activation goes on.
LEMMA TopMoves ==
  ASSUME NEW t, NEW cs, NEW n \in Nat \ {0}, NEW r, NEW w, NEW x, Account(t, cs, n, r, w, x),
         NEW ds, \A q \in 1..n - 1 : ds[q] = cs[q],
         IsCall(t, ds[n]), ds[n].file = cs[n].file,
         NEW y \in Seq(Named), Working(t, At(t, n), ds[n], y)
  PROVE  \E v, z : Account(t, ds, n, w[n] \o y, v, z)
<1> DEFINE z == [x EXCEPT ![n] = y]
           V == Seq(Named)
<1>1. w \in [1..n -> V] /\ x \in [1..n -> V] /\ w[1] = <<>> /\ y \in V
  BY DEF Account
<1>2. z \in [1..n -> V] /\ z[n] = y /\ \A q \in 1..n - 1 : z[q] = x[q]
  <2> HIDE DEF V
  <2>1. QED
    BY <1>1
<1>3. \A q \in 1..n : q = n \/ q \in 1..n - 1
  OBVIOUS
<1>4. \A q \in 1..n : IsCall(t, ds[q])
  <2>1. \A q \in 1..n - 1 : q \in 1..n
    OBVIOUS
  <2>2. QED
    BY <2>1, <1>3, Zenon DEF Account
<1>5. ASSUME NEW q \in 1..n - 1
      PROVE  w[q + 1] = w[q] \o z[q] /\ Waiting(t, At(t, q), ds[q], ds[q + 1].file, z[q])
  <2>1. q + 1 \in 1..n /\ (q + 1 = n \/ q + 1 \in 1..n - 1)
    OBVIOUS
  <2>2. ds[q + 1].file = cs[q + 1].file /\ ds[q] = cs[q] /\ z[q] = x[q]
    BY <2>1, <1>2, Zenon
  <2>3. QED
    BY <2>2, Zenon DEF Account
<1>6. Account(t, ds, n, w[n] \o y, w, z)
  <2>1. Working(t, At(t, n), ds[n], z[n]) /\ w[n] \o y = w[n] \o z[n]
    BY <1>2
  <2>2. w \in [1..n -> Seq(Named)] /\ z \in [1..n -> Seq(Named)] /\ w[1] = <<>>
    BY <1>1, <1>2
  <2> HIDE DEF z
  <2>3. QED
    BY <2>1, <2>2, <1>4, <1>5, Zenon DEF Account
<1>7. QED
  BY <1>6, Zenon

\* It calls for a file.
LEMMA TopCalls ==
  ASSUME NEW t \in [Conf -> Seq(C!Item)], NEW cs, NEW n \in Nat \ {0}, NEW r, NEW w, NEW x,
         Account(t, cs, n, r, w, x), NEW ds, \A q \in 1..n - 1 : ds[q] = cs[q],
         IsCall(t, ds[n]), ds[n].file = cs[n].file,
         NEW f \in Conf \ Foreign, Waiting(t, At(t, n), ds[n], f, x[n]),
         ds[n + 1] = C!Call(f), At(t, n + 1) \in [Conf -> Seq(Named)]
  PROVE  \E v, z : Account(t, ds, n + 1, r, v, z)
<1> DEFINE V == Seq(Named)
           v == [q \in 1..n + 1 |-> IF q = n + 1 THEN w[n] \o x[n] ELSE w[q]]
           z == [q \in 1..n + 1 |-> IF q = n + 1 THEN <<>> ELSE x[q]]
<1>1. w \in [1..n -> V] /\ x \in [1..n -> V] /\ w[1] = <<>> /\ r = w[n] \o x[n]
  BY DEF Account
<1>2. w[n] \in V /\ x[n] \in V /\ <<>> \in V
  <2>1. <<>> \in V
    OBVIOUS
  <2> HIDE DEF V
  <2>2. QED
    BY <1>1, <2>1
<1>3. w[n] \o x[n] \in V /\ (w[n] \o x[n]) \o <<>> = w[n] \o x[n]
  <2>1. w[n] \o x[n] \in V
    BY <1>2, ConcatProperties
  <2>2. QED
    BY <2>1, ConcatEmptySeq
<1>4. PICK s \in V : s = w[n] \o x[n]
  BY <1>3
<1>5. /\ v \in [1..n + 1 -> V] /\ z \in [1..n + 1 -> V]
      /\ v[n + 1] = s /\ z[n + 1] = <<>>
      /\ \A q \in 1..n : v[q] = w[q] /\ z[q] = x[q]
  <2>1. v = [q \in 1..n + 1 |-> IF q = n + 1 THEN s ELSE w[q]]
    BY <1>4
  <2> HIDE DEF V, v
  <2>2. QED
    BY <2>1, <1>1, <1>2
<1>6. ds[n + 1].file = f /\ IsCall(t, ds[n + 1]) /\ Working(t, At(t, n + 1), ds[n + 1], <<>>)
  <2>1. C!Call(f).file = f
    BY DEF C!Call
  <2>2. QED
    BY <2>1, CallBegins
<1>7. /\ \A q \in 1..n + 1 : q = n + 1 \/ q = n \/ q \in 1..n - 1
      /\ \A q \in 1..n - 1 : q \in 1..n
  OBVIOUS
<1>8. \A q \in 1..n + 1 : IsCall(t, ds[q])
  BY <1>6, <1>7, Zenon DEF Account
<1>9. ASSUME NEW q \in 1..n
      PROVE  v[q + 1] = v[q] \o z[q] /\ Waiting(t, At(t, q), ds[q], ds[q + 1].file, z[q])
  <2>1. CASE q = n
    BY <2>1, <1>4, <1>5, <1>6, Zenon
  <2>2. CASE q # n
    <3>1. q \in 1..n - 1 /\ q + 1 \in 1..n /\ (q + 1 = n \/ q + 1 \in 1..n - 1)
      BY <2>2
    <3>2. ds[q + 1].file = cs[q + 1].file /\ ds[q] = cs[q]
      BY <3>1, Zenon
    <3>3. v[q] = w[q] /\ z[q] = x[q] /\ v[q + 1] = w[q + 1]
      BY <3>1, <1>5, Zenon
    <3>4. w[q + 1] = w[q] \o x[q] /\ Waiting(t, At(t, q), cs[q], cs[q + 1].file, x[q])
      BY <3>1, Zenon DEF Account
    <3>5. QED
      BY <3>2, <3>3, <3>4, Zenon
  <2>3. QED
    BY <2>1, <2>2
<1>10. Account(t, ds, n + 1, r, v, z)
  <2>1. (n + 1) - 1 = n /\ v[1] = <<>>
    <3>1. 1 \in 1..n
      OBVIOUS
    <3>2. QED
      BY <3>1, <1>1, <1>5
  <2>2. r = v[n + 1] \o z[n + 1]
    BY <1>1, <1>3, <1>4, <1>5, Zenon
  <2> HIDE DEF v, z
  <2>3. QED
    BY <2>1, <2>2, <1>5, <1>6, <1>8, <1>9, Zenon DEF Account
<1>11. QED
  BY <1>10, Zenon


\* It has read all of its file.
Ended(t, c) == c.files = <<>> /\ c.at > Len(t[c.file])

\* It is at its end: what it has come to is what its file stands for.
LEMMA TopEnds ==
  ASSUME C!ConfAssumption, NEW t \in [Conf -> Seq(C!Item)], NEW n \in 1..MaxDepth,
         NEW c, IsCall(t, c), NEW y, Working(t, At(t, n), c, y), Ended(t, c)
  PROVE  y = C!Expand(t, MaxDepth - n + 1)[c.file]
<1>1. At(t, n) \in [Conf -> Seq(Named)] /\ C!Expand(t, MaxDepth - n + 1) = C!OfText(t, At(t, n))
  BY AtType
<1>2. y = C!OfText(t, At(t, n))[c.file]
  BY <1>1, CallEnds DEF Ended
<1>3. QED
  BY <1>1, <1>2

\* It returns to the one that waits for it.
LEMMA TopReturns ==
  ASSUME C!ConfAssumption, NEW t \in [Conf -> Seq(C!Item)], NEW cs, NEW n \in 1..MaxDepth,
         n # 1, NEW r, NEW w, NEW x, Account(t, cs, n, r, w, x),
         Ended(t, cs[n]),
         NEW ds, \A q \in 1..n - 1 : ds[q] = cs[q]
  PROVE  \E v, z : Account(t, ds, n - 1, r, v, z)
<1>1. PICK m \in Nat \ {0} : m = n - 1 /\ n = m + 1 /\ m \in 1..MaxDepth /\ MaxDepth \in Nat
  BY DEF C!ConfAssumption
<1> DEFINE V == Seq(Named)
<1>2. /\ w \in [1..m + 1 -> V] /\ x \in [1..m + 1 -> V] /\ w[1] = <<>>
      /\ r = w[m + 1] \o x[m + 1] /\ w[m + 1] = w[m] \o x[m]
      /\ Waiting(t, At(t, m), cs[m], cs[m + 1].file, x[m])
      /\ IsCall(t, cs[m]) /\ IsCall(t, cs[m + 1])
  <2>1. m \in 1..n - 1 /\ m \in 1..n /\ n \in 1..n
    BY <1>1
  <2>2. QED
    BY <1>1, <2>1, Zenon DEF Account
<1>3. w[m] \in V /\ x[m] \in V /\ x[m + 1] \in V
  <2>1. m \in 1..m + 1 /\ m + 1 \in 1..m + 1
    OBVIOUS
  <2> HIDE DEF V
  <2>2. QED
    BY <1>2, <2>1
<1>4. At(t, m) \in [Conf -> Seq(Named)]
  BY <1>1, AtType
<1>5. PICK f \in Conf : f = cs[m + 1].file
  BY <1>2 DEF IsCall
<1>6. x[m + 1] = At(t, m)[f]
  <2>1. x[n] = C!Expand(t, MaxDepth - n + 1)[cs[n].file]
    <3>1. n \in 1..n
      BY <1>1
    <3>2. IsCall(t, cs[n]) /\ Working(t, At(t, n), cs[n], x[n])
      BY <3>1, Zenon DEF Account
    <3>3. QED
      BY <3>2, TopEnds, Zenon
  <2>2. MaxDepth - n + 1 = MaxDepth - m
    BY <1>1
  <2>3. QED
    BY <1>1, <1>5, <2>1, <2>2, Zenon DEF At
<1>7. Working(t, At(t, m), cs[m], x[m] \o x[m + 1])
  <2>1. Waiting(t, At(t, m), cs[m], f, x[m])
    BY <1>2, <1>5
  <2>2. Working(t, At(t, m), cs[m], x[m] \o At(t, m)[f])
    BY <1>2, <1>4, <2>1, GlobBack
  <2>3. QED
    BY <1>6, <2>2, Zenon
<1>8. PICK y \in V : y = x[m] \o x[m + 1] /\ r = w[m] \o y
  <2>1. x[m] \o x[m + 1] \in V
    BY <1>3, ConcatProperties
  <2>2. (w[m] \o x[m]) \o x[m + 1] = w[m] \o (x[m] \o x[m + 1])
    <3>1. PICK a1 \in Seq(Named), a2 \in Seq(Named), a3 \in Seq(Named) :
            a1 = w[m] /\ a2 = x[m] /\ a3 = x[m + 1]
      BY <1>3, Zenon
    <3>2. (a1 \o a2) \o a3 = a1 \o (a2 \o a3)
      BY NamedAssociative, Zenon
    <3>3. QED
      BY <3>1, <3>2, Zenon
  <2>3. QED
    BY <1>2, <2>1, <2>2, Zenon
<1> DEFINE v == [q \in 1..m |-> w[q]]
           z == [q \in 1..m |-> IF q = m THEN y ELSE x[q]]
<1>9. /\ v \in [1..m -> V] /\ z \in [1..m -> V] /\ v[1] = <<>> /\ v[m] = w[m] /\ z[m] = y
      /\ \A q \in 1..m - 1 : v[q + 1] = w[q + 1] /\ v[q] = w[q] /\ z[q] = x[q]
  <2>1. w \in [1..m + 1 -> V] /\ x \in [1..m + 1 -> V] /\ y \in V /\ w[1] = <<>>
    BY <1>2
  <2> HIDE DEF V
  <2>3. \A q \in 1..m : q \in 1..m + 1
    OBVIOUS
  <2>4. v \in [1..m -> V] /\ z \in [1..m -> V]
    BY <2>1, <2>3
  <2>5. v[m] = w[m] /\ z[m] = y /\ v[1] = w[1]
    OBVIOUS
  <2>6. \A q \in 1..m - 1 : v[q + 1] = w[q + 1] /\ v[q] = w[q] /\ z[q] = x[q]
    OBVIOUS
  <2>7. QED
    BY <2>1, <2>4, <2>5, <2>6, Zenon
<1>10. /\ \A q \in 1..m : q \in 1..n /\ q \in 1..n - 1
       /\ \A q \in 1..m - 1 : q + 1 \in 1..m /\ q \in 1..m /\ q \in 1..n - 1
       /\ m \in 1..m
  BY <1>1
<1>11. \A q \in 1..m : IsCall(t, ds[q])
  BY <1>10, Zenon DEF Account
<1>12. ASSUME NEW q \in 1..m - 1
       PROVE  v[q + 1] = v[q] \o z[q] /\ Waiting(t, At(t, q), ds[q], ds[q + 1].file, z[q])
  <2>1. w[q + 1] = w[q] \o x[q] /\ Waiting(t, At(t, q), cs[q], cs[q + 1].file, x[q])
    BY <1>10, Zenon DEF Account
  <2>2. ds[q] = cs[q] /\ ds[q + 1] = cs[q + 1]
    BY <1>10, Zenon
  <2>3. QED
    BY <2>1, <2>2, <1>9, Zenon
<1>13. Account(t, ds, m, r, v, z)
  <2>1. Working(t, At(t, m), ds[m], z[m])
    <3>1. ds[m] = cs[m]
      BY <1>10, Zenon
    <3>2. QED
      BY <3>1, <1>7, <1>8, <1>9, Zenon
  <2>2. r = v[m] \o z[m]
    BY <1>8, <1>9, Zenon
  <2> HIDE DEF v, z
  <2>3. QED
    BY <2>1, <2>2, <1>9, <1>11, <1>12, Zenon DEF Account
<1>14. QED
  BY <1>1, <1>13, Zenon


-----------------------------------------------------------------------------
Activation == [file : Conf \ Foreign, at : Nat \ {0}, files : Seq(Conf)]

\* While activations are on the stack the result is accounted for by them, from the root
\* down; without any it is what the root stands for.
ConfInv ==
  /\ text \in [Conf -> Seq(C!Item)]
  /\ conf_pc \in {"read", "done", "dead"}
  /\ calls \in Seq(Activation) /\ Len(calls) <= MaxDepth
  /\ calls # <<>> => /\ calls[1].file = Root
                     /\ \E w, x : Account(text, calls, Len(calls), res, w, x)
  /\ calls = <<>> => res = C!Expand(text, MaxDepth)[Root]
  /\ conf_pc = "done" => calls = <<>>

\* The top of a stack replaced or taken off, and one more put on it.
LEMMA StackTop ==
  ASSUME NEW R, NEW s \in Seq(R), NEW n \in Nat \ {0}, n = Len(s), NEW c \in R
  PROVE  LET rest == SubSeq(s, 1, n - 1) IN
         /\ rest \in Seq(R) /\ Len(rest) = n - 1 /\ \A q \in 1..n - 1 : rest[q] = s[q]
         /\ Append(rest, c) \in Seq(R) /\ Len(Append(rest, c)) = n
         /\ \A q \in 1..n - 1 : Append(rest, c)[q] = s[q]
         /\ Append(rest, c)[n] = c
<1>1. PICK rest : rest = SubSeq(s, 1, n - 1)
  OBVIOUS
<1>2. rest \in Seq(R) /\ Len(rest) = n - 1 /\ \A q \in 1..n - 1 : rest[q] = s[q]
  <2>1. \A q \in 1..n - 1 : s[q] \in R
    OBVIOUS
  <2>2. /\ SubSeq(s, 1, n - 1) \in Seq(R)
        /\ Len(SubSeq(s, 1, n - 1)) = IF 1 <= n - 1 THEN (n - 1) - 1 + 1 ELSE 0
        /\ \A q \in 1..(n - 1) - 1 + 1 : SubSeq(s, 1, n - 1)[q] = s[1 + q - 1]
    BY <2>1, SubSeqProperties
  <2>3. QED
    BY <1>1, <2>2
<1>3. PICK p : p = Append(rest, c)
  OBVIOUS
<1>4. p \in Seq(R) /\ Len(p) = n /\ (\A q \in 1..n - 1 : p[q] = s[q]) /\ p[n] = c
  <2>1. /\ p \in Seq(R) /\ Len(p) = Len(rest) + 1
        /\ \A q \in 1..Len(rest) : p[q] = rest[q]
        /\ p[Len(rest) + 1] = c
    BY <1>2, <1>3, AppendProperties
  <2>2. QED
    BY <1>2, <2>1
<1>5. QED
  BY <1>1, <1>2, <1>3, <1>4, Zenon

LEMMA StackPush ==
  ASSUME NEW R, NEW s \in Seq(R), NEW n \in Nat \ {0}, n = Len(s), NEW e \in R
  PROVE  /\ s \o <<e>> \in Seq(R) /\ Len(s \o <<e>>) = n + 1 /\ (s \o <<e>>)[n + 1] = e
         /\ \A q \in 1..n : (s \o <<e>>)[q] = s[q]
<1>1. PICK o \in Seq(R) : o = <<e>> /\ Len(o) = 1 /\ o[1] = e
  <2>1. <<e>> \in Seq(R)
    OBVIOUS
  <2>2. Len(<<e>>) = 1 /\ <<e>>[1] = e
    OBVIOUS
  <2>3. QED
    BY <2>1, <2>2, Zenon
<1>2. PICK u : u = s \o o
  OBVIOUS
<1>3. /\ u \in Seq(R) /\ Len(u) = n + 1
      /\ \A q \in 1..n + 1 : u[q] = IF q <= n THEN s[q] ELSE o[q - n]
  BY <1>1, <1>2, ConcatProperties
<1>4. u[n + 1] = e /\ \A q \in 1..n : u[q] = s[q]
  BY <1>1, <1>3
<1>5. QED
  BY <1>1, <1>2, <1>3, <1>4, Zenon

\* The innermost activation.
LEMMA TopIs ==
  ASSUME C!ConfAssumption, ConfInv, calls # <<>>
  PROVE  \E n \in 1..MaxDepth :
           /\ n = Len(calls) /\ n \in Nat \ {0} /\ C!Top = calls[n] /\ calls[n] \in Activation
           /\ C!Rest = SubSeq(calls, 1, n - 1)
           /\ At(text, n) \in [Conf -> Seq(Named)]
           /\ \A f \in Foreign : At(text, n)[f] = <<>>
           /\ \E w, x : /\ Account(text, calls, n, res, w, x)
                        /\ IsCall(text, calls[n]) /\ w[n] \in Seq(Named) /\ x[n] \in Seq(Named)
                        /\ Working(text, At(text, n), calls[n], x[n]) /\ res = w[n] \o x[n]
<1>1. calls \in Seq(Activation) /\ Len(calls) <= MaxDepth /\ MaxDepth \in Nat
  BY DEF ConfInv, C!ConfAssumption
<1>2. PICK n \in Nat \ {0} : n = Len(calls) /\ n \in 1..MaxDepth
  BY <1>1
<1>3. calls[n] \in Activation
  BY <1>1, <1>2
<1>4. C!Top = calls[n] /\ C!Rest = SubSeq(calls, 1, n - 1)
  BY <1>2 DEF C!Top, C!Rest
<1>5. text \in [Conf -> Seq(C!Item)]
  BY DEF ConfInv
<1>6. At(text, n) \in [Conf -> Seq(Named)] /\ \A f \in Foreign : At(text, n)[f] = <<>>
  BY <1>2, <1>5, AtType
<1>7. PICK w, x : Account(text, calls, n, res, w, x)
  BY <1>2 DEF ConfInv
<1>8. n \in 1..n
  OBVIOUS
<1>9. /\ IsCall(text, calls[n]) /\ Working(text, At(text, n), calls[n], x[n])
      /\ res = w[n] \o x[n] /\ w[n] \in Seq(Named) /\ x[n] \in Seq(Named)
  <2>1. w \in [1..n -> Seq(Named)] /\ x \in [1..n -> Seq(Named)]
    BY <1>7, Zenon DEF Account
  <2> DEFINE V == Seq(Named)
  <2>2. w[n] \in V /\ x[n] \in V
    <3> HIDE DEF V
    <3>1. w \in [1..n -> V] /\ x \in [1..n -> V]
      BY <2>1 DEF V
    <3>2. QED
      BY <1>8, <3>1
  <2>3. QED
    BY <1>7, <1>8, <2>2, Zenon DEF Account
<1>10. QED
  BY <1>2, <1>3, <1>4, <1>6, <1>7, <1>9, Zenon


LEMMA ConfInit ==
  ASSUME C!ConfAssumption, C!Init
  PROVE  ConfInv
<1>1. /\ Root \in Conf /\ Foreign \subseteq Conf /\ MaxDepth \in Nat \ {0}
      /\ text \in [Conf -> Seq(C!Item)] /\ conf_pc = "read" /\ res = <<>>
  BY DEF C!ConfAssumption, C!Init
<1>2. CASE Root \in Foreign
  <2>1. calls = <<>>
    BY <1>2 DEF C!Init, C!IsForeign
  <2>2. MaxDepth \in 0..MaxDepth
    BY <1>1
  <2>3. C!Expand(text, MaxDepth)[Root] = <<>>
    BY <1>1, <1>2, <2>2, ExpandSteps
  <2>4. calls \in Seq(Activation) /\ Len(calls) <= MaxDepth
    BY <1>1, <2>1
  <2>5. QED
    BY <1>1, <2>1, <2>3, <2>4 DEF ConfInv
<1>3. CASE Root \notin Foreign
  <2>1. calls = <<C!Call(Root)>>
    BY <1>3 DEF C!Init, C!IsForeign
  <2>2. 1 \in 1..MaxDepth
    BY <1>1
  <2>3. At(text, 1) \in [Conf -> Seq(Named)]
    BY <1>1, <2>2, AtType
  <2>4. PICK b : b = C!Call(Root)
    OBVIOUS
  <2>5. IsCall(text, b) /\ Working(text, At(text, 1), b, <<>>) /\ b \in Activation /\ b.file = Root
    <3>1. IsCall(text, b) /\ Working(text, At(text, 1), b, <<>>)
      BY <1>1, <1>3, <2>3, <2>4, CallBegins
    <3>2. b.file = Root
      BY <2>4 DEF C!Call
    <3>3. QED
      BY <3>1, <3>2 DEF IsCall, Activation
  <2>6. calls \in Seq(Activation) /\ Len(calls) = 1 /\ calls[1] = b /\ calls # <<>>
    <3>1. calls = <<b>>
      BY <2>1, <2>4
    <3>2. QED
      BY <3>1, <2>5
  <2>7. Account(text, calls, 1, <<>>, <<<<>>>>, <<<<>>>>)
    <3>1. PICK w : w = [q \in 1..1 |-> <<>>]
      OBVIOUS
    <3>2. <<<<>>>> = w
      BY <3>1
    <3>3. w \in [1..1 -> Seq(Named)] /\ w[1] = <<>> /\ <<>> \o <<>> = <<>>
      <4>1. <<>> \in Seq(Named)
        OBVIOUS
      <4>2. <<>> \o <<>> = <<>>
        BY <4>1, ConcatEmptySeq
      <4>3. 1 \in 1..1
        OBVIOUS
      <4>4. QED
        BY <3>1, <4>1, <4>2, <4>3, Zenon
    <3>4. (\A q \in 1..1 : q = 1) /\ (\A q \in 1..1 - 1 : FALSE)
      OBVIOUS
    <3>5. Account(text, calls, 1, <<>>, w, w)
      BY <2>5, <2>6, <3>3, <3>4, Zenon DEF Account
    <3>6. QED
      BY <3>2, <3>5
  <2>8. \E w, x : Account(text, calls, Len(calls), res, w, x)
    BY <1>1, <2>6, <2>7, Zenon
  <2>9. Len(calls) <= MaxDepth
    BY <1>1, <2>6
  <2>10. QED
    BY <1>1, <2>5, <2>6, <2>8, <2>9 DEF ConfInv
<1>4. QED
  BY <1>2, <1>3

\* A step of the innermost activation that calls nothing.
LEMMA TopStep ==
  ASSUME C!ConfAssumption, ConfInv, calls # <<>>, conf_pc = "read", UNCHANGED <<text, conf_pc>>,
         NEW n \in 1..MaxDepth, n = Len(calls), n \in Nat \ {0},
         NEW w, NEW x, Account(text, calls, n, res, w, x),
         NEW c, IsCall(text, c), c.file = calls[n].file,
         calls' = Append(SubSeq(calls, 1, n - 1), c),
         NEW y \in Seq(Named), Working(text, At(text, n), c, y), res' = w[n] \o y
  PROVE  ConfInv'
<1>1. PICK t \in [Conf -> Seq(C!Item)] : t = text /\ text' = t
  BY DEF ConfInv
<1>2. calls \in Seq(Activation) /\ c \in Activation
  BY DEF ConfInv, IsCall, Activation
<1>3. PICK ds : ds = calls'
  OBVIOUS
<1>4. /\ ds \in Seq(Activation) /\ Len(ds) = n /\ ds[n] = c
      /\ \A q \in 1..n - 1 : ds[q] = calls[q]
  BY <1>2, <1>3, StackTop
<1>5. \E v, z : Account(t, ds, n, w[n] \o y, v, z)
  <2>1. Account(t, calls, n, res, w, x) /\ IsCall(t, ds[n]) /\ ds[n].file = calls[n].file
        /\ Working(t, At(t, n), ds[n], y)
    BY <1>1, <1>4
  <2>2. QED
    BY <1>4, <2>1, TopMoves, Zenon
<1>6. ds[1].file = Root
  <2>1. calls[1].file = Root
    BY DEF ConfInv
  <2>2. n = 1 \/ 1 \in 1..n - 1
    OBVIOUS
  <2>3. QED
    BY <1>4, <2>1, <2>2, Zenon
<1>7. ds # <<>> /\ Len(ds) <= MaxDepth
  BY <1>4
<1>8. QED
  BY <1>1, <1>3, <1>4, <1>5, <1>6, <1>7 DEF ConfInv


LEMMA ConfStep ==
  ASSUME C!ConfAssumption, ConfInv, [C!Next]_C!vars
  PROVE  ConfInv'
<1>0. text \in [Conf -> Seq(C!Item)]
  BY DEF ConfInv
<1>1. ASSUME C!SkipComment \/ C!AddDir \/ C!Include PROVE ConfInv'
  <2>1. /\ conf_pc = "read" /\ calls # <<>> /\ C!Top.files = <<>>
        /\ C!Top.at <= Len(text[C!Top.file]) /\ UNCHANGED <<text, conf_pc>>
    BY <1>1 DEF C!SkipComment, C!AddDir, C!Include, C!AtItem
  <2>2. PICK n \in 1..MaxDepth :
           /\ n = Len(calls) /\ n \in Nat \ {0} /\ C!Top = calls[n] /\ calls[n] \in Activation
           /\ C!Rest = SubSeq(calls, 1, n - 1)
           /\ At(text, n) \in [Conf -> Seq(Named)]
           /\ \E w, x : /\ Account(text, calls, n, res, w, x)
                        /\ IsCall(text, calls[n]) /\ w[n] \in Seq(Named) /\ x[n] \in Seq(Named)
                        /\ Working(text, At(text, n), calls[n], x[n]) /\ res = w[n] \o x[n]
    BY <2>1, TopIs, Zenon
  <2>3. PICK w, x : /\ Account(text, calls, n, res, w, x)
                    /\ IsCall(text, calls[n]) /\ w[n] \in Seq(Named) /\ x[n] \in Seq(Named)
                    /\ Working(text, At(text, n), calls[n], x[n]) /\ res = w[n] \o x[n]
    BY <2>2, Zenon
  <2>4. PICK c : /\ c = calls[n] /\ IsCall(text, c) /\ Working(text, At(text, n), c, x[n])
                 /\ c.files = <<>> /\ c.at <= Len(text[c.file])
    BY <2>1, <2>2, <2>3, Zenon
  <2>5. PICK y : y = text[c.file][c.at] /\ C!Here = y
    BY <2>2, <2>4 DEF C!Here
  <2>6. PICK b : b = [c EXCEPT !.at = @ + 1]
    OBVIOUS
  <2>7. /\ IsCall(text, b) /\ y \in C!Item
        /\ Working(text, At(text, n), b, x[n] \o C!OfItem(At(text, n), y))
    BY <1>0, <2>2, <2>4, <2>5, <2>6, ItemNext
  <2>8. b.file = c.file
    BY <2>4, <2>6 DEF IsCall
  <2>9. CASE C!SkipComment
    <3>1. /\ y.kind = "comment" /\ res' = res
          /\ calls' = Append(SubSeq(calls, 1, n - 1), b)
      BY <2>2, <2>4, <2>5, <2>6, <2>9 DEF C!SkipComment
    <3>2. x[n] \o C!OfItem(At(text, n), y) = x[n]
      <4>1. C!OfItem(At(text, n), y) = <<>>
        BY <3>1 DEF C!OfItem
      <4>2. x[n] \o <<>> = x[n]
        BY <2>3, ConcatEmptySeq
      <4>3. QED
        BY <4>1, <4>2
    <3>3. res' = w[n] \o x[n] /\ Working(text, At(text, n), b, x[n]) /\ b.file = calls[n].file
      BY <2>3, <2>4, <2>7, <2>8, <3>1, <3>2, Zenon
    <3>4. QED
      BY <2>1, <2>2, <2>3, <2>7, <3>1, <3>3, TopStep
  <2>10. CASE C!AddDir
    <3>1. /\ y.kind = "dir" /\ res' = Append(res, y.dir)
          /\ calls' = Append(SubSeq(calls, 1, n - 1), b)
      BY <2>2, <2>4, <2>5, <2>6, <2>10 DEF C!AddDir
    <3>2. y.dir \in Named /\ C!OfItem(At(text, n), y) = <<y.dir>>
      <4>1. y.dir \in Dir
        BY <2>7, <3>1 DEF C!Item
      <4>2. C!OfItem(At(text, n), y) = <<y.dir>>
        BY <3>1 DEF C!OfItem
      <4>3. QED
        BY <4>1, <4>2 DEF Named
    <3>3. PICK z \in Seq(Named) : z = x[n] \o <<y.dir>> /\ res' = w[n] \o z
      <4>1. PICK p \in Seq(Named), q \in Seq(Named) : p = w[n] /\ q = x[n]
        BY <2>3, Zenon
      <4>2. PICK o \in Seq(Named) : o = <<y.dir>>
        <5>1. PICK u \in Named : u = y.dir
          BY <3>2
        <5>2. <<u>> \in Seq(Named)
          OBVIOUS
        <5>3. QED
          BY <5>1, <5>2, Zenon
      <4>3. q \o o \in Seq(Named) /\ p \o q \in Seq(Named)
        BY ConcatProperties
      <4>4. (p \o q) \o o = p \o (q \o o)
        BY ConcatAssociative
      <4>5. Append(p \o q, y.dir) = (p \o q) \o <<y.dir>>
        BY <3>2, <4>3, AppendIsConcat
      <4>6. QED
        BY <2>3, <3>1, <4>1, <4>2, <4>3, <4>4, <4>5, Zenon
    <3>4. Working(text, At(text, n), b, z) /\ b.file = calls[n].file
      BY <2>4, <2>7, <2>8, <3>2, <3>3, Zenon
    <3>5. QED
      BY <2>1, <2>2, <2>3, <2>7, <3>1, <3>3, <3>4, TopStep
  <2>11. CASE C!Include
    <3>1. PICK d : d = Entered(text, c)
      OBVIOUS
    <3>2. /\ y.kind = "include" /\ res' = res
          /\ calls' = Append(SubSeq(calls, 1, n - 1), d)
      BY <2>2, <2>4, <2>5, <2>11, <3>1 DEF C!Include, Entered
    <3>3. text[c.file][c.at].kind = "include"
      BY <2>5, <3>2
    <3>4. IsCall(text, d) /\ Working(text, At(text, n), d, x[n])
      BY <1>0, <2>2, <2>4, <3>1, <3>3, GlobBegins
    <3>5. d.file = calls[n].file
      BY <2>4, <3>1 DEF IsCall, Entered
    <3>6. res' = w[n] \o x[n]
      BY <2>3, <3>2
    <3>7. QED
      BY <2>1, <2>2, <2>3, <3>2, <3>4, <3>5, <3>6, TopStep
  <2>12. QED
    BY <1>1, <2>9, <2>10, <2>11
<1>2. ASSUME C!Descend PROVE ConfInv'
  <2>1. /\ conf_pc = "read" /\ calls # <<>> /\ C!Top.files # <<>>
        /\ UNCHANGED <<text, conf_pc, res>>
    BY <1>2 DEF C!Descend
  <2>2. PICK n \in 1..MaxDepth :
           /\ n = Len(calls) /\ n \in Nat \ {0} /\ C!Top = calls[n] /\ calls[n] \in Activation
           /\ C!Rest = SubSeq(calls, 1, n - 1)
           /\ At(text, n) \in [Conf -> Seq(Named)]
           /\ \A f \in Foreign : At(text, n)[f] = <<>>
           /\ \E w, x : /\ Account(text, calls, n, res, w, x)
                        /\ IsCall(text, calls[n]) /\ w[n] \in Seq(Named) /\ x[n] \in Seq(Named)
                        /\ Working(text, At(text, n), calls[n], x[n]) /\ res = w[n] \o x[n]
    BY <2>1, TopIs, Zenon
  <2>3. PICK w, x : /\ Account(text, calls, n, res, w, x)
                    /\ IsCall(text, calls[n]) /\ w[n] \in Seq(Named) /\ x[n] \in Seq(Named)
                    /\ Working(text, At(text, n), calls[n], x[n]) /\ res = w[n] \o x[n]
    BY <2>2, Zenon
  <2>4. PICK c : /\ c = calls[n] /\ IsCall(text, c) /\ Working(text, At(text, n), c, x[n])
                 /\ c.files # <<>>
    BY <2>1, <2>2, <2>3, Zenon
  <2>5. PICK f : f = Head(c.files)
    OBVIOUS
  <2>6. PICK b : b = C!Advance(c)
    OBVIOUS
  <2>7. IsCall(text, b) /\ f \in Conf /\ Waiting(text, At(text, n), b, f, x[n])
    BY <1>0, <2>2, <2>4, <2>5, <2>6, GlobNext
  <2>8. b.file = calls[n].file
    BY <2>4, <2>6 DEF IsCall, C!Advance
  <2>9. CASE f \in Foreign
    <3>1. calls' = Append(SubSeq(calls, 1, n - 1), b)
      BY <1>2, <2>2, <2>4, <2>5, <2>6, <2>9 DEF C!Descend, C!IsForeign
    <3>2. Working(text, At(text, n), b, x[n])
      <4>1. Working(text, At(text, n), b, x[n] \o At(text, n)[f])
        BY <1>0, <2>2, <2>7, GlobBack
      <4>2. At(text, n)[f] = <<>>
        BY <2>2, <2>9
      <4>3. x[n] \o <<>> = x[n]
        BY <2>3, ConcatEmptySeq
      <4>4. QED
        BY <4>1, <4>2, <4>3, Zenon
    <3>3. res' = w[n] \o x[n]
      BY <2>1, <2>3
    <3>4. QED
      BY <2>1, <2>2, <2>3, <2>7, <2>8, <3>1, <3>2, <3>3, TopStep
  <2>10. CASE f \notin Foreign
    <3>1. n < MaxDepth /\ calls' = Append(SubSeq(calls, 1, n - 1), b) \o <<C!Call(f)>>
      BY <1>2, <2>2, <2>4, <2>5, <2>6, <2>10 DEF C!Descend, C!IsForeign
    <3>2. n + 1 \in 1..MaxDepth /\ n + 1 \in Nat \ {0}
      BY <2>2, <3>1 DEF C!ConfAssumption
    <3>3. At(text, n + 1) \in [Conf -> Seq(Named)]
      BY <1>0, <3>2, AtType
    <3>4. PICK e : e = C!Call(f)
      OBVIOUS
    <3>5. calls \in Seq(Activation) /\ b \in Activation /\ e \in Activation
      BY <1>0, <2>7, <2>10, <3>3, <3>4, CallBegins DEF ConfInv, IsCall, Activation
    <3>6. PICK ds : ds = calls'
      OBVIOUS
    <3>7. /\ ds \in Seq(Activation) /\ Len(ds) = n + 1 /\ ds[n] = b /\ ds[n + 1] = e
          /\ \A q \in 1..n - 1 : ds[q] = calls[q]
      <4>1. n \in Nat \ {0} /\ n = Len(calls)
        BY <2>2
      <4>2. PICK p : p = Append(SubSeq(calls, 1, n - 1), b)
        OBVIOUS
      <4>3. p \in Seq(Activation) /\ Len(p) = n /\ p[n] = b /\ \A q \in 1..n - 1 : p[q] = calls[q]
        BY <4>1, <4>2, <3>5, StackTop
      <4>4. ds = p \o <<e>>
        BY <3>1, <3>4, <3>6, <4>2
      <4>5. ds \in Seq(Activation) /\ Len(ds) = n + 1 /\ ds[n + 1] = e /\ \A q \in 1..n : ds[q] = p[q]
        <5>1. n = Len(p) /\ n \in Nat \ {0} /\ p \in Seq(Activation) /\ e \in Activation
          BY <4>1, <4>3, <3>5
        <5>2. /\ p \o <<e>> \in Seq(Activation) /\ Len(p \o <<e>>) = n + 1
              /\ (p \o <<e>>)[n + 1] = e /\ \A q \in 1..n : (p \o <<e>>)[q] = p[q]
          BY <5>1, StackPush
        <5>3. QED
          BY <5>2, <4>4, Zenon
      <4>6. n \in 1..n /\ \A q \in 1..n - 1 : q \in 1..n
        BY <4>1
      <4>7. QED
        BY <4>3, <4>5, <4>6, Zenon
    <3>8. \E v, z : Account(text, ds, n + 1, res, v, z)
      <4>1. IsCall(text, ds[n]) /\ ds[n].file = calls[n].file /\ f \in Conf \ Foreign
            /\ Waiting(text, At(text, n), ds[n], f, x[n]) /\ ds[n + 1] = C!Call(f)
        BY <2>7, <2>8, <2>10, <3>4, <3>7
      <4>2. QED
        BY <1>0, <2>2, <2>3, <3>3, <3>7, <4>1, TopCalls, Zenon
    <3>9. ds[1].file = Root
      <4>1. calls[1].file = Root
        BY <2>1 DEF ConfInv
      <4>2. n = 1 \/ 1 \in 1..n - 1
        BY <2>2
      <4>3. QED
        BY <2>8, <3>7, <4>1, <4>2, Zenon
    <3>10. ds # <<>> /\ Len(ds) <= MaxDepth
      BY <2>2, <3>1, <3>2, <3>7
    <3>11. QED
      BY <1>0, <2>1, <3>6, <3>7, <3>8, <3>9, <3>10 DEF ConfInv
  <2>11. QED
    BY <2>9, <2>10

<1>3. ASSUME C!Return PROVE ConfInv'
  <2>1. /\ conf_pc = "read" /\ calls # <<>> /\ C!Top.files = <<>>
        /\ C!Top.at > Len(text[C!Top.file]) /\ calls' = C!Rest
        /\ UNCHANGED <<text, conf_pc, res>>
    BY <1>3 DEF C!Return
  <2>2. PICK n \in 1..MaxDepth :
           /\ n = Len(calls) /\ n \in Nat \ {0} /\ C!Top = calls[n] /\ calls[n] \in Activation
           /\ C!Rest = SubSeq(calls, 1, n - 1)
           /\ \E w, x : /\ Account(text, calls, n, res, w, x)
                        /\ IsCall(text, calls[n]) /\ w[n] \in Seq(Named) /\ x[n] \in Seq(Named)
                        /\ Working(text, At(text, n), calls[n], x[n]) /\ res = w[n] \o x[n]
    BY <2>1, TopIs, Zenon
  <2>3. PICK w, x : /\ Account(text, calls, n, res, w, x)
                    /\ IsCall(text, calls[n]) /\ w[n] \in Seq(Named) /\ x[n] \in Seq(Named)
                    /\ Working(text, At(text, n), calls[n], x[n]) /\ res = w[n] \o x[n]
    BY <2>2, Zenon
  <2>4. Ended(text, calls[n])
    BY <2>1, <2>2 DEF Ended
  <2>5. PICK ds : ds = calls'
    OBVIOUS
  <2>6. /\ ds \in Seq(Activation) /\ Len(ds) = n - 1
        /\ \A q \in 1..n - 1 : ds[q] = calls[q]
    <3>1. calls \in Seq(Activation) /\ ds = SubSeq(calls, 1, n - 1)
      BY <2>1, <2>2, <2>5 DEF ConfInv
    <3>2. QED
      BY <2>2, <3>1, StackTop
  <2>7. CASE n = 1
    <3>1. ds = <<>>
      BY <2>6, <2>7, EmptySeq
    <3>2. x[n] = C!Expand(text, MaxDepth - n + 1)[calls[n].file]
      BY <1>0, <2>3, <2>4, TopEnds
    <3>3. MaxDepth - n + 1 = MaxDepth /\ calls[n].file = Root
      BY <2>1, <2>7 DEF ConfInv, C!ConfAssumption
    <3>4. res = C!Expand(text, MaxDepth)[Root]
      <4>1. w[n] = <<>>
        BY <2>3, <2>7 DEF Account
      <4>2. <<>> \o x[n] = x[n]
        BY <2>3, ConcatEmptySeq
      <4>3. QED
        BY <2>3, <3>2, <3>3, <4>1, <4>2, Zenon
    <3>5. Len(ds) <= MaxDepth
      BY <2>2, <2>6 DEF C!ConfAssumption
    <3>6. QED
      BY <1>0, <2>1, <2>5, <2>6, <3>1, <3>4, <3>5 DEF ConfInv
  <2>8. CASE n # 1
    <3>1. \E v, z : Account(text, ds, n - 1, res, v, z)
      BY <1>0, <2>3, <2>4, <2>6, <2>8, TopReturns
    <3>2. 1 \in 1..n - 1
      BY <2>2, <2>8
    <3>3. ds[1].file = Root
      BY <2>1, <2>6, <3>2 DEF ConfInv
    <3>4. ds # <<>> /\ Len(ds) <= MaxDepth
      BY <2>2, <2>6, <3>2 DEF C!ConfAssumption
    <3>5. QED
      BY <1>0, <2>1, <2>5, <2>6, <3>1, <3>3, <3>4 DEF ConfInv
  <2>9. QED
    BY <2>7, <2>8
<1>4. CASE C!Overflow \/ C!Done \/ UNCHANGED C!vars
  <2>1. /\ UNCHANGED <<text, calls, res>>
        /\ conf_pc' \in {"read", "done", "dead"}
        /\ conf_pc' = "done" => calls = <<>>
    BY <1>4 DEF C!Overflow, C!Done, C!vars, ConfInv
  <2>2. QED
    BY <2>1 DEF ConfInv
<1>5. QED
  BY <1>1, <1>2, <1>3, <1>4 DEF C!Next

\* DirsInOrder of LdSoConf: for all files, however deep they include one another, the
\* walk returns the directories in the order of the text.
THEOREM DirsComeInOrder == C!Spec => []DirsInOrder
<1>1. C!Init => ConfInv
  BY ConfInit, ReaderAssumption
<1>2. ConfInv /\ [C!Next]_C!vars => ConfInv'
  BY ConfStep, ReaderAssumption
<1>3. ConfInv => DirsInOrder
  BY DEF ConfInv, DirsInOrder, C!DirsInOrder
<1>4. QED
  BY <1>1, <1>2, <1>3, PTL DEF C!Spec

-----------------------------------------------------------------------------
\* An activation that waits includes the file it waits for.
LEMMA WaitsForIncluded ==
  ASSUME text \in [Conf -> Seq(C!Item)], NEW D \in [Conf -> Seq(Named)], NEW c, IsCall(text, c),
         NEW f \in Conf \ Foreign, NEW x, Waiting(text, D, c, f, x)
  PROVE  c.file \in Conf \ Foreign /\ f \in C!Includes(c.file)
<1>1. PICK t \in [Conf -> Seq(C!Item)] : t = text
  OBVIOUS
<1>2. PICK j : InGlob(t, c, j) /\ j >= 1 /\ Glob(t, c)[j] = f
  BY <1>1, Zenon DEF Waiting
<1>3. Glob(t, c) \in Seq(Conf) /\ j \in 0..Len(Glob(t, c))
  BY <1>1, <1>2, GlobFacts
<1>4. j \in DOMAIN Glob(t, c)
  BY <1>2, <1>3
<1>5. PICK a \in Nat \ {0} : a = c.at
  BY DEF IsCall
<1>6. t[c.file] \in Seq(C!Item) /\ a - 1 \in 0..Len(t[c.file]) /\ a >= 2
  BY <1>1, <1>2, <1>5, ItemFacts DEF InGlob
<1>7. a - 1 \in DOMAIN t[c.file]
  BY <1>6
<1>8. t[c.file][a - 1].kind = "include" /\ Glob(t, c) = t[c.file][a - 1].files
  BY <1>2, <1>5 DEF InGlob, Glob
<1>9. c.file \in Conf \ Foreign
  BY DEF IsCall
<1>10. QED
  BY <1>1, <1>2, <1>4, <1>7, <1>8, <1>9, Zenon DEF C!Includes

\* A chain of inclusions without a cycle has no file twice.
LEMMA ChainIsShort ==
  ASSUME C!Acyclic, IsFiniteSet(Conf), NEW m \in Nat \ {0}, NEW g \in [1..m -> Conf \ Foreign],
         \A q \in 1..m - 1 : g[q + 1] \in C!Includes(g[q])
  PROVE  m <= Cardinality(Conf \ Foreign)
<1> DEFINE F == Conf \ Foreign
<1>1. IsFiniteSet(F) /\ Cardinality(F) \in Nat
  <2>1. IsFiniteSet(F)
    BY FS_Subset
  <2>2. QED
    BY <2>1, FS_CardinalityType
<1>2. ASSUME NEW a \in 1..m, NEW b \in 1..m, a < b, g[a] = g[b] PROVE FALSE
  <2> DEFINE Z == {g[q] : q \in a..b - 1}
  <2>1. a \in a..b - 1 /\ \A q \in a..b - 1 : q \in 1..m /\ q \in 1..m - 1 /\ q + 1 \in a..b
    BY <1>2
  <2>2. Z \in SUBSET F /\ g[a] \in Z
    BY <2>1
  <2>3. ASSUME NEW f \in Z PROVE \E h \in Z : h \in C!Includes(f)
    <3>1. PICK q \in a..b - 1 : f = g[q]
      OBVIOUS
    <3>2. g[q + 1] \in C!Includes(f)
      BY <2>1, <3>1
    <3>3. g[q + 1] \in Z
      <4>1. q + 1 = b \/ q + 1 \in a..b - 1
        BY <1>2
      <4>2. QED
        BY <4>1, <1>2, <2>2, Zenon
    <3>4. QED
      BY <3>2, <3>3, Zenon
  <2>4. QED
    <3> HIDE DEF Z
    <3>1. QED
      BY <2>2, <2>3, Zenon DEF C!Acyclic
<1>3. SUFFICES ASSUME ~(m <= Cardinality(F)) PROVE FALSE
  OBVIOUS
<1>4. IsFiniteSet(1..m) /\ Cardinality(1..m) = m
  <2>1. IsFiniteSet(1..m) /\ Cardinality(1..m) = IF 1 > m THEN 0 ELSE m - 1 + 1
    BY FS_Interval
  <2>2. QED
    BY <2>1
<1>5. Cardinality(F) < Cardinality(1..m)
  BY <1>1, <1>3, <1>4
<1>6. PICK a \in 1..m, b \in 1..m : a # b /\ g[a] = g[b]
  <2> HIDE DEF F
  <2>1. g \in [1..m -> F]
    BY DEF F
  <2>2. QED
    BY <2>1, <1>1, <1>4, <1>5, FS_PigeonHole
<1>7. a < b \/ b < a
  BY <1>6
<1>8. QED
  BY <1>2, <1>6, <1>7, Zenon

\* The files on the stack, and the one that is to be called, are such a chain.
LEMMA StackIsChain ==
  ASSUME C!ConfAssumption, ConfInv, C!Overflow, C!Acyclic
  PROVE  Len(calls) + 1 <= Cardinality(Conf \ Foreign)
<1>1. calls # <<>> /\ C!Top.files # <<>> /\ Head(C!Top.files) \notin Foreign
  BY DEF C!Overflow, C!IsForeign
<1>2. PICK n \in 1..MaxDepth :
         /\ n = Len(calls) /\ n \in Nat \ {0} /\ C!Top = calls[n]
         /\ At(text, n) \in [Conf -> Seq(Named)]
         /\ \E w, x : /\ Account(text, calls, n, res, w, x)
                      /\ IsCall(text, calls[n]) /\ w[n] \in Seq(Named) /\ x[n] \in Seq(Named)
                      /\ Working(text, At(text, n), calls[n], x[n]) /\ res = w[n] \o x[n]
  BY <1>1, TopIs, Zenon
<1>3. PICK w, x : /\ Account(text, calls, n, res, w, x) /\ IsCall(text, calls[n])
                  /\ Working(text, At(text, n), calls[n], x[n])
  BY <1>2, Zenon
<1>4. PICK f : f = Head(calls[n].files)
  OBVIOUS
<1>5. text \in [Conf -> Seq(C!Item)]
  BY DEF ConfInv
<1>6. f \in Conf \ Foreign /\ f \in C!Includes(calls[n].file)
  <2>1. PICK b : b = C!Advance(calls[n])
    OBVIOUS
  <2>2. IsCall(text, b) /\ f \in Conf /\ Waiting(text, At(text, n), b, f, x[n])
    BY <1>1, <1>2, <1>3, <1>4, <1>5, <2>1, GlobNext
  <2>3. b.file = calls[n].file
    BY <1>3, <2>1 DEF IsCall, C!Advance
  <2>4. f \in Conf \ Foreign
    BY <1>1, <1>2, <1>4, <2>2
  <2>5. f \in C!Includes(b.file)
    BY <1>2, <1>5, <2>2, <2>4, WaitsForIncluded
  <2>6. QED
    BY <2>3, <2>4, <2>5
<1>7. \A q \in 1..n : IsCall(text, calls[q]) /\ calls[q].file \in Conf \ Foreign
  BY <1>3 DEF Account, IsCall
<1>8. ASSUME NEW q \in 1..n - 1 PROVE calls[q + 1].file \in C!Includes(calls[q].file)
  <2>1. q \in 1..n /\ q + 1 \in 1..n /\ q \in 1..MaxDepth
    BY <1>2 DEF C!ConfAssumption
  <2>2. At(text, q) \in [Conf -> Seq(Named)]
    BY <1>5, <2>1, AtType
  <2>3. Waiting(text, At(text, q), calls[q], calls[q + 1].file, x[q])
    BY <1>3, Zenon DEF Account
  <2>4. QED
    BY <1>5, <1>7, <2>1, <2>2, <2>3, WaitsForIncluded
<1> DEFINE g == [q \in 1..n + 1 |-> IF q = n + 1 THEN f ELSE calls[q].file]
<1>9. g \in [1..n + 1 -> Conf \ Foreign]
  BY <1>2, <1>6, <1>7
<1>10. ASSUME NEW q \in 1..n PROVE g[q + 1] \in C!Includes(g[q])
  <2>1. CASE q = n
    <3>1. g[q + 1] = f /\ g[q] = calls[n].file
      BY <1>2, <2>1
    <3>2. QED
      BY <3>1, <1>6
  <2>2. CASE q # n
    <3>1. q \in 1..n - 1 /\ g[q + 1] = calls[q + 1].file /\ g[q] = calls[q].file
      BY <1>2, <2>2
    <3>2. QED
      BY <3>1, <1>8
  <2>3. QED
    BY <2>1, <2>2
<1>11. PICK m \in Nat \ {0} : m = n + 1 /\ m - 1 = n
  BY <1>2
<1>12. m <= Cardinality(Conf \ Foreign)
  <2>1. IsFiniteSet(Conf) /\ g \in [1..m -> Conf \ Foreign]
    BY <1>9, <1>11, FilesAreFinite
  <2>2. \A q \in 1..m - 1 : g[q + 1] \in C!Includes(g[q])
    BY <1>10, <1>11
  <2> HIDE DEF g
  <2>3. QED
    BY <2>1, <2>2, ChainIsShort
<1>13. QED
  BY <1>2, <1>11, <1>12

\* FitsStack of LdSoConf: the recursion of read_ldsoconf_dfs is never deeper than there
\* are files, unless one includes itself.
THEOREM StackHasRoom == C!Spec => []FitsStack
<1>1. C!Init => ConfInv /\ FitsStack
  BY ConfInit, ReaderAssumption DEF C!Init, FitsStack
<1>2. ConfInv /\ [C!Next]_C!vars => ConfInv'
  BY ConfStep, ReaderAssumption
<1>3. ASSUME ConfInv, FitsStack, [C!Next]_C!vars PROVE FitsStack'
  <2>1. text' = text
    BY <1>3 DEF C!Next, C!vars, C!SkipComment, C!AddDir, C!Include, C!Descend, C!Overflow,
                C!Return, C!Done
  <2>2. C!Acyclic' <=> C!Acyclic
    BY <2>1 DEF C!Acyclic, C!Includes
  <2>3. CASE C!Overflow
    <3>1. SUFFICES ASSUME C!Acyclic, Cardinality(Conf \ Foreign) <= MaxDepth PROVE FALSE
      BY <2>2, Zenon DEF FitsStack
    <3>2. Len(calls) + 1 <= Cardinality(Conf \ Foreign)
      BY <1>3, <2>3, <3>1, StackIsChain, ReaderAssumption
    <3>3. Len(calls) >= MaxDepth
      BY <2>3 DEF C!Overflow
    <3>4. Len(calls) \in Nat /\ MaxDepth \in Nat /\ Cardinality(Conf \ Foreign) \in Nat
      <4>1. calls \in Seq(Activation) /\ MaxDepth \in Nat /\ IsFiniteSet(Conf)
        BY <1>3, ReaderAssumption, FilesAreFinite DEF ConfInv, C!ConfAssumption
      <4>2. IsFiniteSet(Conf \ Foreign)
        BY <4>1, FS_Subset
      <4>3. QED
        BY <4>1, <4>2, FS_CardinalityType
    <3>5. QED
      BY <3>1, <3>2, <3>3, <3>4
  <2>4. CASE ~C!Overflow
    <3>1. conf_pc' = conf_pc \/ conf_pc' = "done"
      BY <1>3, <2>4 DEF C!Next, C!vars, C!SkipComment, C!AddDir, C!Include, C!Descend, C!Return,
                        C!Done
    <3>2. QED
      BY <1>3, <2>2, <3>1 DEF FitsStack
  <2>5. QED
    BY <2>3, <2>4
<1>4. QED
  BY <1>1, <1>2, <1>3, PTL DEF C!Spec

-----------------------------------------------------------------------------
(***************************************************************************)
(*                            ProgramHeaders                               *)
(***************************************************************************)

HeadTypes ==
  /\ class \in {"ELFBinary", "ExecLoader"}
  /\ elf \in P!File
  /\ elf_pc \in {"open", "read", "scan", "done", "dead", "nomem", "fault"}
  /\ phdr_i \in Nat \ {0}
  /\ phdrs \in Seq(P!PType \cup {"UNREADABLE"})

\* x is an index below n of a header of type t, or there is none below n.
Kept(t, x, n) ==
  \/ x \in 1..n - 1 /\ elf.phdrs[x] = t
  \/ x = 0 /\ \A j \in 1..n - 1 : elf.phdrs[j] # t

\* The table of a sound file, read up to header phdr_i.
ReadSoFar ==
  /\ phdr_i <= Len(elf.phdrs) + 1
  /\ Len(phdrs) = phdr_i - 1
  /\ \A j \in 1..phdr_i - 1 : phdrs[j] = elf.phdrs[j]
  /\ class = "ELFBinary" => Kept("DYNAMIC", dynamic, phdr_i) /\ Kept("TLS", tls, phdr_i)
  /\ class = "ExecLoader" => dynamic = 0

\* The table read, the loop of ExecLoader is at header phdr_i.
ScannedSoFar ==
  /\ class = "ExecLoader" /\ phdrs = elf.phdrs
  /\ phdr_i <= Len(elf.phdrs) + 1
  /\ Kept("DYNAMIC", dynamic, phdr_i)

AllKept ==
  /\ phdrs = elf.phdrs
  /\ Kept("DYNAMIC", dynamic, Len(elf.phdrs) + 1)
  /\ class = "ELFBinary" => Kept("TLS", tls, Len(elf.phdrs) + 1)

\* The table of a file that ends between the two bytes of e_phnum.
LowByte ==
  /\ elf_pc = "read" => Len(phdrs) = phdr_i - 1
  /\ Len(phdrs) <= Len(elf.phdrs) % Byte

HeadInv ==
  /\ HeadTypes
  /\ elf_pc = "open" => phdrs = <<>> /\ phdr_i = 1 /\ dynamic = 0 /\ tls = 0
  /\ elf.size < PhnumEnd - 1 => phdrs = <<>> /\ elf_pc # "fault"
  /\ elf.size = PhnumEnd - 1 => LowByte
  /\ P!Sound => /\ elf_pc \notin {"dead", "fault"}
                /\ elf_pc = "read" => ReadSoFar
                /\ elf_pc = "scan" => ScannedSoFar
                /\ elf_pc = "done" => AllKept

\* The last page of a file ends behind the file.
LEMMA RoundUp ==
  ASSUME NEW a \in Nat, NEW p \in Nat \ {0}
  PROVE  ((a + p - 1) \div p) * p \in Int /\ a <= ((a + p - 1) \div p) * p
<1> DEFINE q == (a + p - 1) \div p
<1>1. q \in Int /\ a + p - 1 < q * p + p
  OBVIOUS
<1> HIDE DEF q
<1>2. q * p \in Int /\ a <= q * p
  BY <1>1
<1>3. QED
  BY <1>2 DEF q

\* Entry j of a table of n entries ends in the table.
LEMMA EntryFits ==
  ASSUME NEW n \in Nat, NEW j \in 1..n, NEW c \in Nat \ {0}, NEW o \in Nat, NEW s \in Nat,
         o + n * c <= s
  PROVE  o + (j - 1) * c + c \in Nat /\ o + (j - 1) * c + c <= s
<1>1. PICK d \in Nat : n = j + d
  OBVIOUS
<1>2. n * c = (j - 1) * c + c + d * c
  BY <1>1
<1>3. (j - 1) * c \in Nat /\ d * c \in Nat /\ n * c \in Nat
  BY <1>1
<1>4. QED
  BY <1>2, <1>3

\* A sound table ends before the mapping does.
LEMMA SoundIsInside ==
  ASSUME P!HeaderAssumption, HeadTypes, P!Sound, NEW j \in 1..Len(elf.phdrs)
  PROVE  /\ ~P!Outside(j) /\ P!TypeAt(j) = {elf.phdrs[j]}
         /\ elf.phdrs[j] \in P!PType
<1> DEFINE n == Len(elf.phdrs)
<1>1. /\ elf.size \in Nat /\ elf.phoff \in Nat /\ n \in Nat
      /\ elf.phentsize = PhdrSize /\ elf.phoff + n * PhdrSize <= elf.size
  BY DEF HeadTypes, P!File, P!Sound
<1>2. elf.phdrs \in Seq(P!PType)
  BY DEF HeadTypes, P!File
<1>3. PhdrSize \in Nat \ {0} /\ PageSize \in Nat \ {0}
  BY DEF P!HeaderAssumption
<1>4. elf.phdrs[j] \in P!PType
  BY <1>2
<1> HIDE DEF n
<1>5. j \in 1..n
  BY DEF n
<1>6. P!At(j) + PhdrSize <= elf.size /\ P!At(j) + PhdrSize \in Nat
  <2>1. P!At(j) = elf.phoff + (j - 1) * PhdrSize
    BY <1>1 DEF P!At
  <2>2. PICK o \in Nat : o = elf.phoff
    BY <1>1
  <2>3. PICK s \in Nat : s = elf.size
    BY <1>1
  <2>4. o + n * PhdrSize <= s
    BY <1>1, <2>2, <2>3
  <2>5. o + (j - 1) * PhdrSize + PhdrSize \in Nat /\ o + (j - 1) * PhdrSize + PhdrSize <= s
    BY <1>1, <1>3, <1>5, <2>4, EntryFits
  <2>6. QED
    BY <2>1, <2>2, <2>3, <2>5
<1>7. P!MappedSize \in Int /\ elf.size <= P!MappedSize
  <2>1. PICK s \in Nat : s = elf.size
    BY <1>1
  <2>2. ((s + PageSize - 1) \div PageSize) * PageSize \in Int
        /\ s <= ((s + PageSize - 1) \div PageSize) * PageSize
    BY <1>3, RoundUp
  <2>3. QED
    BY <2>1, <2>2, Zenon DEF P!MappedSize
<1>8. ~P!Outside(j)
  BY <1>1, <1>6, <1>7 DEF P!Outside
<1>9. QED
  BY <1>1, <1>4, <1>6, <1>8 DEF P!TypeAt

\* A remainder is less than what divides and at most what is divided.
LEMMA ModAtMost ==
  ASSUME NEW a \in Nat, NEW b \in Nat \ {0}
  PROVE  a % b \in 0..b - 1 /\ a % b <= a
<1>1. PICK q \in Nat : a = b * q + (a % b) /\ a % b \in 0..b - 1
  <2>1. a \div b \in Nat /\ a = b * (a \div b) + (a % b) /\ a % b \in 0..b - 1
    OBVIOUS
  <2>2. QED
    BY <2>1
<1>2. b * q \in Nat
  BY <1>1
<1>3. QED
  BY <1>1, <1>2

LEMMA HeadInit ==
  ASSUME P!HeaderAssumption
  PROVE  P!Init => HeadInv
<1> SUFFICES ASSUME P!Init PROVE HeadInv
  OBVIOUS
<1>1. /\ class \in {"ELFBinary", "ExecLoader"} /\ elf \in P!File /\ elf_pc = "open"
      /\ phdr_i = 1 /\ phdrs = <<>> /\ dynamic = 0 /\ tls = 0
  BY DEF P!Init, P!HeaderAssumption
<1>2. LowByte
  <2>1. Len(elf.phdrs) \in Nat /\ Byte \in Nat \ {0}
    BY <1>1 DEF P!File, P!HeaderAssumption
  <2>2. Len(elf.phdrs) % Byte \in 0..Byte - 1
    BY <2>1, ModAtMost
  <2>3. phdrs = <<>> /\ elf_pc # "read"
    BY <1>1
  <2>4. Len(phdrs) <= Len(elf.phdrs) % Byte
    BY <2>2, <2>3
  <2>5. QED
    BY <2>3, <2>4 DEF LowByte
<1>3. QED
  BY <1>1, <1>2 DEF HeadInv, HeadTypes

\* One more header is looked at.
LEMMA KeptNext ==
  ASSUME HeadTypes, NEW t, NEW x, NEW n \in 1..Len(elf.phdrs), Kept(t, x, n)
  PROVE  /\ elf.phdrs[n] = t => Kept(t, n, n + 1)
         /\ elf.phdrs[n] # t => Kept(t, x, n + 1)
<1>1. n \in Nat \ {0}
  BY DEF HeadTypes, P!File
<1>2. n + 1 - 1 = n /\ n \in 1..n /\ \A j \in 1..n : j \in 1..n - 1 \/ j = n
  BY <1>1
<1>3. \A j \in 1..n - 1 : j \in 1..n
  BY <1>1
<1>4. elf.phdrs[n] = t => Kept(t, n, n + 1)
  BY <1>2 DEF Kept
<1>5. elf.phdrs[n] # t => Kept(t, x, n + 1)
  <2>1. CASE x \in 1..n - 1 /\ elf.phdrs[x] = t
    BY <1>2, <1>3, <2>1 DEF Kept
  <2>2. CASE x = 0 /\ \A j \in 1..n - 1 : elf.phdrs[j] # t
    <3>1. elf.phdrs[n] # t => \A j \in 1..n : elf.phdrs[j] # t
      BY <1>2, <2>2, Zenon
    <3>2. QED
      BY <1>2, <2>2, <3>1 DEF Kept
  <2>3. QED
    BY <2>1, <2>2 DEF Kept
<1>6. QED
  BY <1>4, <1>5

\* The whole table is looked at.
LEMMA KeptAll ==
  ASSUME HeadTypes, NEW t, NEW x, Kept(t, x, Len(elf.phdrs) + 1)
  PROVE  x \in P!Of(t) \/ (x = 0 /\ P!Of(t) = {})
<1>1. elf.phdrs \in Seq(P!PType) /\ Len(elf.phdrs) \in Nat
  BY DEF HeadTypes, P!File
<1>2. Len(elf.phdrs) + 1 - 1 = Len(elf.phdrs) /\ DOMAIN elf.phdrs = 1..Len(elf.phdrs)
  BY <1>1
<1>3. CASE x \in 1..Len(elf.phdrs) /\ elf.phdrs[x] = t
  BY <1>2, <1>3 DEF P!Of
<1>4. CASE x = 0 /\ \A j \in 1..Len(elf.phdrs) : elf.phdrs[j] # t
  <2>1. P!Of(t) = {}
    BY <1>2, <1>4 DEF P!Of
  <2>2. QED
    BY <1>4, <2>1
<1>5. QED
  BY <1>2, <1>3, <1>4 DEF Kept

\* The same table leads to the same.
LEMMA SameSequence ==
  ASSUME NEW T, NEW U, NEW s \in Seq(T), NEW u \in Seq(U), Len(s) = Len(u),
         \A j \in 1..Len(u) : s[j] = u[j]
  PROVE  s = u
  OBVIOUS

LEMMA HeadStep ==
  ASSUME P!HeaderAssumption, HeadInv, [P!Next]_P!vars
  PROVE  HeadInv'
<1> DEFINE n == Len(elf.phdrs)
<1>1. /\ HeadTypes /\ n \in Nat /\ elf.phdrs \in Seq(P!PType) /\ phdr_i \in Nat \ {0}
      /\ elf.size \in Nat /\ phdrs \in Seq(P!PType \cup {"UNREADABLE"}) /\ Len(phdrs) \in Nat
  BY DEF HeadInv, HeadTypes, P!File
<1>2. PhnumEnd \in Nat /\ MinSize \in Nat /\ MinSize < PhnumEnd - 1 /\ Byte \in Nat \ {0}
  BY DEF P!HeaderAssumption
<1>3. P!Sound => P!Phnum = n /\ elf.size >= PhnumEnd /\ elf.readable
  BY <1>1, <1>2 DEF P!Sound, P!Phnum
<1>4. P!Sound => ~P!Refused
  BY <1>1, <1>2, <1>3 DEF P!Refused
<1>5. /\ elf.size < PhnumEnd - 1 => P!Phnum = 0
      /\ elf.size = PhnumEnd - 1 => P!Phnum = n % Byte
      /\ n % Byte \in Nat /\ n % Byte <= n
      /\ P!Phnum \in 0..n
  <2>1. n % Byte \in 0..Byte - 1 /\ n % Byte <= n
    BY <1>1, <1>2, ModAtMost
  <2>2. QED
    BY <1>1, <1>2, <2>1 DEF P!Phnum
<1>6. ASSUME elf' = elf PROVE P!Sound' = P!Sound
  BY <1>6 DEF P!Sound, P!Of
<1>7. CASE P!Open \/ P!MapFails
  <2>1. /\ UNCHANGED <<class, elf, phdr_i, phdrs, dynamic, tls>> /\ elf_pc = "open"
        /\ elf_pc' \in {"dead", "read", "nomem"}
        /\ elf_pc' = "dead" => P!Refused
    BY <1>7 DEF P!Open, P!MapFails
  <2>2. phdrs = <<>> /\ phdr_i = 1 /\ dynamic = 0 /\ tls = 0
    BY <2>1 DEF HeadInv
  <2>3. ReadSoFar
    <3>1. phdr_i <= n + 1 /\ Len(phdrs) = phdr_i - 1 /\ ~\E j \in 1..phdr_i - 1 : TRUE
      BY <1>1, <2>2
    <3>2. QED
      BY <2>2, <3>1, Zenon DEF ReadSoFar, Kept
  <2>4. HeadTypes' /\ P!Sound' = P!Sound
    <3>1. P!Sound' = P!Sound
      BY <1>6, <2>1
    <3>2. HeadTypes'
      <4>1. elf_pc' \in {"open", "read", "scan", "done", "dead", "nomem", "fault"}
        BY <2>1
      <4>2. QED
        BY <1>1, <2>1, <4>1 DEF HeadTypes
    <3>3. QED
      BY <3>1, <3>2
  <2>5. ReadSoFar'
    BY <2>1, <2>3 DEF ReadSoFar, Kept
  <2>6. elf_pc' \notin {"open", "fault", "scan", "done"} /\ phdrs' = <<>>
    BY <2>1, <2>2
  <2>7. P!Sound' => elf_pc' # "dead"
    BY <1>4, <2>1, <2>4
  <2>8. LowByte'
    <3>1. Len(phdrs) = 0 /\ phdr_i = 1
      BY <2>2
    <3>2. QED
      BY <1>5, <2>1, <3>1 DEF LowByte
  <2>9. QED
    BY <2>4, <2>5, <2>6, <2>7, <2>8 DEF HeadInv
<1>8. CASE P!ReadPhdr
  <2>1. /\ elf_pc = "read" /\ UNCHANGED <<class, elf, elf_pc>> /\ phdr_i' = phdr_i + 1
        /\ phdr_i <= P!Phnum
    BY <1>8 DEF P!ReadPhdr
  <2>2. PICK type \in P!TypeAt(phdr_i) :
          /\ phdrs' = Append(phdrs, type)
          /\ class = "ELFBinary" => /\ dynamic' = P!Keep("DYNAMIC", type, dynamic)
                                    /\ tls' = P!Keep("TLS", type, tls)
          /\ class # "ELFBinary" => UNCHANGED <<dynamic, tls>>
    BY <1>8 DEF P!ReadPhdr
  <2>3. P!Phnum \in Nat /\ phdr_i \in 1..n /\ ~(elf.size < PhnumEnd - 1)
    BY <1>1, <1>5, <2>1
  <2>4. type \in P!PType \cup {"UNREADABLE"}
    <3>1. elf.phdrs[phdr_i] \in P!PType
      BY <1>1, <2>3
    <3>2. QED
      BY <2>2, <3>1 DEF P!TypeAt
  <2>5. HeadTypes' /\ P!Sound' = P!Sound
    BY <1>1, <1>6, <2>1, <2>2, <2>4 DEF HeadTypes
  <2>6. ASSUME P!Sound PROVE ReadSoFar'
    <3>1. ReadSoFar
      BY <2>1, <2>6 DEF HeadInv
    <3>2. type = elf.phdrs[phdr_i]
      BY <1>1, <2>2, <2>3, <2>6, SoundIsInside
    <3>3. phdr_i' <= n + 1 /\ phdr_i' - 1 = phdr_i
      BY <1>1, <2>1, <2>3
    <3>4. PICK m \in Nat : m = phdr_i - 1
      BY <1>1
    <3>5. Len(phdrs) = m /\ \A j \in 1..m : phdrs[j] = elf.phdrs[j]
      BY <3>1, <3>4 DEF ReadSoFar
    <3>6. /\ Len(phdrs') = m + 1 /\ phdrs'[m + 1] = type
          /\ \A j \in 1..m : phdrs'[j] = phdrs[j]
      BY <1>1, <2>2, <3>5
    <3>7. m + 1 = phdr_i /\ \A j \in 1..phdr_i : j \in 1..m \/ j = phdr_i
      BY <1>1, <3>4
    <3>8. \A j \in 1..phdr_i : phdrs'[j] = elf.phdrs[j]
      BY <3>2, <3>5, <3>6, <3>7, Zenon
    <3>9. ASSUME class = "ELFBinary"
          PROVE  Kept("DYNAMIC", dynamic', phdr_i + 1) /\ Kept("TLS", tls', phdr_i + 1)
      <4>1. Kept("DYNAMIC", dynamic, phdr_i) /\ Kept("TLS", tls, phdr_i)
        BY <3>1, <3>9 DEF ReadSoFar
      <4>2. Kept("DYNAMIC", dynamic', phdr_i + 1)
        BY <1>1, <2>2, <2>3, <3>2, <3>9, <4>1, KeptNext DEF P!Keep
      <4>3. Kept("TLS", tls', phdr_i + 1)
        BY <1>1, <2>2, <2>3, <3>2, <3>9, <4>1, KeptNext DEF P!Keep
      <4>4. QED
        BY <4>2, <4>3
    <3>10. class = "ExecLoader" => dynamic' = 0
      BY <2>2, <3>1 DEF ReadSoFar
    <3>11. Len(phdrs') = phdr_i
      BY <3>6, <3>7
    <3>12. QED
      BY <2>1, <3>3, <3>8, <3>9, <3>10, <3>11 DEF ReadSoFar, Kept
  <2>7. ASSUME elf.size = PhnumEnd - 1 PROVE LowByte'
    <3>1. Len(phdrs) = phdr_i - 1
      BY <2>1, <2>7 DEF HeadInv, LowByte
    <3>2. Len(phdrs') = phdr_i
      BY <1>1, <2>2, <3>1
    <3>3. phdr_i <= n % Byte
      BY <1>5, <2>1, <2>7
    <3>4. QED
      BY <1>1, <2>1, <3>2, <3>3 DEF LowByte
  <2>8. QED
    BY <2>1, <2>3, <2>5, <2>6, <2>7 DEF HeadInv
<1>9. CASE P!ReadFaults
  <2>1. /\ elf_pc = "read" /\ UNCHANGED <<class, elf, phdr_i, phdrs, dynamic, tls>>
        /\ elf_pc' = "fault" /\ phdr_i <= P!Phnum /\ P!Outside(phdr_i)
    BY <1>9 DEF P!ReadFaults
  <2>2. phdr_i \in 1..n /\ ~(elf.size < PhnumEnd - 1)
    BY <1>1, <1>5, <2>1
  <2>3. ~P!Sound
    BY <1>1, <2>1, <2>2, SoundIsInside
  <2>4. HeadTypes' /\ P!Sound' = P!Sound
    BY <1>1, <1>6, <2>1 DEF HeadTypes
  <2>5. QED
    BY <2>1, <2>2, <2>3, <2>4 DEF HeadInv, LowByte
<1>10. CASE P!ReadDone
  <2>1. /\ elf_pc = "read" /\ UNCHANGED <<class, elf, phdrs, dynamic, tls>>
        /\ phdr_i > P!Phnum /\ phdr_i' = 1
        /\ elf_pc' = IF class = "ELFBinary" THEN "done" ELSE "scan"
    BY <1>10 DEF P!ReadDone
  <2>2. HeadTypes' /\ P!Sound' = P!Sound
    BY <1>1, <1>6, <2>1 DEF HeadTypes
  <2>3. ASSUME P!Sound PROVE (class = "ELFBinary" => AllKept') /\ (class = "ExecLoader" => ScannedSoFar')
    <3>1. ReadSoFar
      BY <2>1, <2>3 DEF HeadInv
    <3>2. phdr_i = n + 1 /\ phdr_i - 1 = n
      BY <1>1, <1>3, <2>1, <2>3, <3>1 DEF ReadSoFar
    <3>3. Len(phdrs) = n /\ \A j \in 1..n : phdrs[j] = elf.phdrs[j]
      BY <3>1, <3>2 DEF ReadSoFar
    <3>4. phdrs = elf.phdrs
      BY <1>1, <3>3, SameSequence
    <3>5. class = "ELFBinary" => AllKept
      BY <3>1, <3>2, <3>4 DEF ReadSoFar, AllKept
    <3>6. 1 <= n + 1 /\ ~\E j \in 1..1 - 1 : TRUE
      BY <1>1
    <3>7. class = "ExecLoader" => dynamic = 0
      BY <3>1 DEF ReadSoFar
    <3>8. Kept("DYNAMIC", 0, 1)
      BY <3>6, Zenon DEF Kept
    <3>9. class = "ExecLoader" => ScannedSoFar'
      BY <2>1, <3>4, <3>6, <3>7, <3>8 DEF ScannedSoFar, Kept
    <3>10. class = "ELFBinary" => AllKept'
      BY <2>1, <3>5 DEF AllKept, Kept
    <3>11. QED
      BY <3>9, <3>10
  <2>4. class \in {"ELFBinary", "ExecLoader"}
    BY <1>1 DEF HeadTypes
  <2>5. QED
    BY <2>1, <2>2, <2>3, <2>4 DEF HeadInv, LowByte
<1>11. CASE P!Scan
  <2>1. /\ elf_pc = "scan" /\ UNCHANGED <<class, elf, phdrs, tls>>
        /\ phdr_i <= Len(phdrs) /\ phdr_i' = phdr_i + 1
        /\ elf_pc' = CASE phdrs[phdr_i] = "UNREADABLE" -> "fault"
                       [] phdrs[phdr_i] = "DYNAMIC" /\ dynamic # 0 -> "dead"
                       [] OTHER -> elf_pc
        /\ dynamic' = IF phdrs[phdr_i] = "DYNAMIC" /\ dynamic = 0 THEN phdr_i ELSE dynamic
    BY <1>11 DEF P!Scan
  <2>2. HeadTypes' /\ P!Sound' = P!Sound
    BY <1>1, <1>6, <2>1 DEF HeadTypes
  <2>3. ASSUME elf.size < PhnumEnd - 1 PROVE FALSE
    <3>1. phdrs = <<>>
      BY <2>3 DEF HeadInv
    <3>2. Len(phdrs) = 0
      BY <3>1
    <3>3. QED
      BY <1>1, <2>1, <3>2
  <2>4. ASSUME P!Sound PROVE elf_pc' = "scan" /\ ScannedSoFar'
    <3>1. ScannedSoFar
      BY <2>1, <2>4 DEF HeadInv
    <3>2. phdrs = elf.phdrs /\ phdr_i \in 1..n /\ phdr_i' <= n + 1
      BY <1>1, <2>1, <3>1 DEF ScannedSoFar
    <3>3. elf.phdrs[phdr_i] \in P!PType
      BY <1>1, <3>2
    <3>4. elf.phdrs[phdr_i] # "UNREADABLE"
      BY <3>3 DEF P!PType
    <3>5. Kept("DYNAMIC", dynamic, phdr_i)
      BY <3>1 DEF ScannedSoFar
    <3>6. ASSUME elf.phdrs[phdr_i] = "DYNAMIC", dynamic # 0 PROVE FALSE
      <4>1. dynamic \in 1..phdr_i - 1 /\ elf.phdrs[dynamic] = "DYNAMIC"
        BY <3>5, <3>6 DEF Kept
      <4>2. dynamic \in 1..n /\ dynamic # phdr_i
        BY <1>1, <3>2, <4>1
      <4>3. dynamic \in P!Of("DYNAMIC") /\ phdr_i \in P!Of("DYNAMIC")
        BY <1>1, <3>2, <3>6, <4>1, <4>2 DEF P!Of
      <4>4. QED
        BY <2>4, <4>2, <4>3 DEF P!Sound
    <3>7. elf_pc' = "scan"
      BY <2>1, <3>2, <3>4, <3>6
    <3>8. Kept("DYNAMIC", dynamic', phdr_i + 1)
      BY <1>1, <2>1, <3>2, <3>5, <3>6, KeptNext
    <3>9. QED
      BY <2>1, <3>1, <3>2, <3>7, <3>8 DEF ScannedSoFar, Kept
  <2>5. QED
    BY <2>1, <2>2, <2>3, <2>4 DEF HeadInv, LowByte
<1>12. CASE P!ScanDone
  <2>1. /\ elf_pc = "scan" /\ UNCHANGED <<class, elf, phdr_i, phdrs, dynamic, tls>>
        /\ phdr_i > Len(phdrs) /\ elf_pc' = "done"
    BY <1>12 DEF P!ScanDone
  <2>2. HeadTypes' /\ P!Sound' = P!Sound
    BY <1>1, <1>6, <2>1 DEF HeadTypes
  <2>3. ASSUME P!Sound PROVE AllKept'
    <3>1. ScannedSoFar
      BY <2>1, <2>3 DEF HeadInv
    <3>2. phdrs = elf.phdrs /\ phdr_i <= n + 1 /\ class = "ExecLoader"
      BY <3>1 DEF ScannedSoFar
    <3>3. phdr_i = n + 1
      BY <1>1, <2>1, <3>2
    <3>4. AllKept
      BY <3>1, <3>2, <3>3 DEF ScannedSoFar, AllKept
    <3>5. QED
      BY <2>1, <3>4 DEF AllKept, Kept
  <2>4. QED
    BY <2>1, <2>2, <2>3 DEF HeadInv, LowByte
<1>13. CASE UNCHANGED P!vars
  <2>1. UNCHANGED <<class, elf, elf_pc, phdr_i, phdrs, dynamic, tls>>
    BY <1>13 DEF P!vars
  <2>2. P!Sound' = P!Sound
    BY <1>6, <2>1
  <2>3. QED
    BY <2>1, <2>2 DEF HeadInv, LowByte, HeadTypes, ReadSoFar, ScannedSoFar, AllKept, Kept
<1>14. QED
  BY <1>7, <1>8, <1>9, <1>10, <1>11, <1>12, <1>13 DEF P!Next

\* HeadersComplete of ProgramHeaders: both constructors accept every sound file and
\* keep all of its program headers; a file without e_phnum has none.
THEOREM HeadersAreComplete == P!Spec => []HeadersComplete
<1> USE ElfAssumption
<1>1. HeadInv /\ [P!Next]_P!vars => HeadInv'
  BY HeadStep
<1>2. HeadInv => HeadersComplete
  <2> SUFFICES ASSUME HeadInv PROVE HeadersComplete
    OBVIOUS
  <2>1. ASSUME elf_pc = "done", P!Sound
        PROVE  /\ phdrs = elf.phdrs
               /\ dynamic \in P!Of("DYNAMIC") \/ (dynamic = 0 /\ P!Of("DYNAMIC") = {})
               /\ class = "ELFBinary" => tls \in P!Of("TLS") \/ (tls = 0 /\ P!Of("TLS") = {})
    <3>1. HeadTypes /\ AllKept
      BY <2>1 DEF HeadInv
    <3>2. QED
      BY <3>1, KeptAll DEF AllKept
  <2>2. QED
    BY <2>1 DEF HeadInv, LowByte, HeadersComplete, P!HeadersComplete
<1>3. QED
  BY <1>1, <1>2, HeadInit, PTL DEF P!Spec

-----------------------------------------------------------------------------
(***************************************************************************)
(*                            DynamicSection                               *)
(***************************************************************************)

SectTypes ==
  /\ file \in [dyn : Seq(Entry), whole : BOOLEAN, e_type : EType]
  /\ table \in Table
  /\ pc \in {"strings", "tags", "relas", "syms", "done", "dead"}
  /\ k \in Nat \ {0}
  /\ field \in [Tag -> Nat]
  /\ neededs \in Seq([off : Nat, strtab : Nat])
  /\ symtabs \in Nat

StringTag == {"STRTAB", "STRSZ"}
OtherTag  == Tag \ {"NEEDED", "STRTAB", "STRSZ"}

\* v is what the last entry of tag t below n says, 0 if there is none.
LastBelow(t, v, n) ==
  \/ v = 0 /\ \A j \in 1..n - 1 : file.dyn[j].tag # t
  \/ \E j \in 1..n - 1 : /\ file.dyn[j].tag = t /\ file.dyn[j].val = v
                         /\ \A m \in j + 1..n - 1 : file.dyn[m].tag # t

\* The libraries needed by the entries below n, in their order.
NeededBelow(n) ==
  /\ Len(neededs) = Cardinality(With("NEEDED") \cap 1..n - 1)
  /\ \A j \in With("NEEDED") \cap 1..n - 1 :
       neededs[Cardinality(With("NEEDED") \cap 1..j)] =
         [off |-> file.dyn[j].val, strtab |-> Val("STRTAB")]

FirstSoFar ==
  /\ k <= Len(file.dyn) + 1
  /\ \A t \in StringTag : LastBelow(t, field[t], k)
  /\ \A t \in OtherTag : field[t] = 0
  /\ neededs = <<>> /\ symtabs = 0

SecondSoFar ==
  /\ k <= Len(file.dyn) + 1
  /\ \A t \in StringTag : field[t] = Val(t)
  /\ \A t \in OtherTag : LastBelow(t, field[t], k)
  /\ NeededBelow(k) /\ symtabs = 0

Parsed ==
  /\ \A t \in Tag \ {"NEEDED"} : field[t] = Val(t)
  /\ NeededBelow(Len(file.dyn) + 1)

SymsSoFar ==
  /\ k = symtabs + 1 /\ symtabs <= Len(table.names)
  /\ \A j \in 2..symtabs : table.names[j] < field["STRSZ"]

SectInv ==
  /\ SectTypes
  /\ pc = "strings" => FirstSoFar
  /\ pc = "tags" => SecondSoFar
  /\ pc \in {"relas", "syms", "done"} => Parsed
  /\ pc = "relas" => symtabs = 0
  /\ pc = "syms" => SymsSoFar
  /\ AllSymbolsRead /\ AcceptsWellFormed

\* The loop passes entry n.
LEMMA LastNext ==
  ASSUME SectTypes, NEW t, NEW v, NEW n \in 1..Len(file.dyn), LastBelow(t, v, n)
  PROVE  /\ file.dyn[n].tag = t => LastBelow(t, file.dyn[n].val, n + 1)
         /\ file.dyn[n].tag # t => LastBelow(t, v, n + 1)
<1>1. n \in Nat \ {0}
  BY DEF SectTypes
<1>2. /\ n + 1 - 1 = n /\ n \in 1..n /\ ~\E m \in n + 1..n : TRUE
      /\ \A j \in 1..n : j \in 1..n - 1 \/ j = n
  BY <1>1
<1>3. \A j \in 1..n - 1 : j \in 1..n /\ \A m \in j + 1..n : m \in j + 1..n - 1 \/ m = n
  BY <1>1
<1>4. file.dyn[n].tag = t => LastBelow(t, file.dyn[n].val, n + 1)
  BY <1>2 DEF LastBelow
<1>5. ASSUME file.dyn[n].tag # t PROVE LastBelow(t, v, n + 1)
  <2>1. CASE v = 0 /\ \A j \in 1..n - 1 : file.dyn[j].tag # t
    <3>1. \A j \in 1..n : file.dyn[j].tag # t
      BY <1>2, <1>5, <2>1, Zenon
    <3>2. QED
      BY <1>2, <2>1, <3>1 DEF LastBelow
  <2>2. ASSUME NEW j \in 1..n - 1, file.dyn[j].tag = t, file.dyn[j].val = v,
               \A m \in j + 1..n - 1 : file.dyn[m].tag # t
        PROVE  LastBelow(t, v, n + 1)
    <3>1. j \in 1..n /\ \A m \in j + 1..n : file.dyn[m].tag # t
      BY <1>3, <1>5, <2>2, Zenon
    <3>2. QED
      BY <1>2, <2>2, <3>1 DEF LastBelow
  <2>3. QED
    BY <2>1, <2>2 DEF LastBelow
<1>6. QED
  BY <1>4, <1>5

\* The loop is through.
LEMMA LastIsVal ==
  ASSUME SectTypes, NEW t, NEW v, LastBelow(t, v, Len(file.dyn) + 1)
  PROVE  v = Val(t)
<1> DEFINE n == Len(file.dyn)
<1>1. n \in Nat /\ n + 1 - 1 = n /\ DOMAIN file.dyn = 1..n
  BY DEF SectTypes
<1> HIDE DEF n
<1>2. With(t) = {j \in 1..n : file.dyn[j].tag = t}
  BY <1>1 DEF With
<1>3. CASE v = 0 /\ \A j \in 1..n : file.dyn[j].tag # t
  <2>1. With(t) = {}
    BY <1>2, <1>3
  <2>2. QED
    BY <1>3, <2>1 DEF Val
<1>4. ASSUME NEW j \in 1..n, file.dyn[j].tag = t, file.dyn[j].val = v,
             \A m \in j + 1..n : file.dyn[m].tag # t
      PROVE  v = Val(t)
  <2>1. j \in With(t)
    BY <1>2, <1>4
  <2>2. \A m \in With(t) : m \in Nat /\ j >= m
    <3> SUFFICES ASSUME NEW m \in With(t) PROVE m \in Nat /\ j >= m
      OBVIOUS
    <3>1. m \in 1..n /\ file.dyn[m].tag = t
      BY <1>2
    <3>2. ~(m \in j + 1..n)
      BY <1>4, <3>1
    <3>3. QED
      BY <1>1, <3>1, <3>2
  <2>3. PICK x \in With(t) : x = Max(With(t)) /\ \A y \in With(t) : x >= y
    BY <2>1, <2>2 DEF Max
  <2>4. x >= j /\ j >= x /\ x \in Nat /\ j \in Nat
    BY <2>1, <2>2, <2>3
  <2>5. x = j
    BY <2>4
  <2>6. QED
    BY <1>4, <2>1, <2>3, <2>5 DEF Val
<1>5. QED
  BY <1>1, <1>3, <1>4 DEF LastBelow, n

\* The entries up to one of them.
LEMMA NeededCount ==
  ASSUME SectTypes, NEW n \in 1..Len(file.dyn)
  PROVE  /\ file.dyn[n].tag = "NEEDED" =>
              Cardinality(With("NEEDED") \cap 1..n) = Cardinality(With("NEEDED") \cap 1..n - 1) + 1
         /\ file.dyn[n].tag # "NEEDED" => With("NEEDED") \cap 1..n = With("NEEDED") \cap 1..n - 1
         /\ Cardinality(With("NEEDED") \cap 1..n - 1) \in Nat
         /\ \A j \in With("NEEDED") \cap 1..n - 1 :
              Cardinality(With("NEEDED") \cap 1..j) \in 1..Cardinality(With("NEEDED") \cap 1..n - 1)
<1> DEFINE W == With("NEEDED")
<1>1. n \in Nat \ {0} /\ DOMAIN file.dyn = 1..Len(file.dyn) /\ Len(file.dyn) \in Nat
  BY DEF SectTypes
<1>2. n \in W <=> file.dyn[n].tag = "NEEDED"
  BY <1>1 DEF With
<1> HIDE DEF W
<1>3. IsFiniteSet(W \cap 1..n - 1)
  <2>1. IsFiniteSet(1..n - 1)
    BY <1>1, FS_Interval
  <2>2. W \cap 1..n - 1 \subseteq 1..n - 1
    OBVIOUS
  <2>3. QED
    BY <2>1, <2>2, FS_Subset
<1>4. Cardinality(W \cap 1..n - 1) \in Nat
  BY <1>3, FS_CardinalityType
<1>5. \A j : j \in 1..n <=> j \in 1..n - 1 \/ j = n
  BY <1>1
<1>6. n \notin 1..n - 1
  BY <1>1
<1>7. ASSUME n \in W PROVE Cardinality(W \cap 1..n) = Cardinality(W \cap 1..n - 1) + 1
  <2>1. W \cap 1..n = (W \cap 1..n - 1) \cup {n}
    BY <1>5, <1>7
  <2>2. QED
    BY <1>3, <1>6, <2>1, FS_AddElement
<1>8. n \notin W => W \cap 1..n = W \cap 1..n - 1
  BY <1>5
<1>9. ASSUME NEW j \in W \cap 1..n - 1
      PROVE  Cardinality(W \cap 1..j) \in 1..Cardinality(W \cap 1..n - 1)
  <2>1. j \in 1..j /\ 1..j \subseteq 1..n - 1
    BY <1>1
  <2>2. W \cap 1..j \subseteq W \cap 1..n - 1 /\ W \cap 1..j # {}
    BY <2>1
  <2>3. IsFiniteSet(W \cap 1..j) /\ Cardinality(W \cap 1..j) <= Cardinality(W \cap 1..n - 1)
    BY <1>3, <2>2, FS_Subset
  <2>4. Cardinality(W \cap 1..j) \in Nat /\ Cardinality(W \cap 1..j) # 0
    BY <2>2, <2>3, FS_CardinalityType, FS_EmptySet
  <2>5. QED
    BY <1>4, <2>3, <2>4
<1>10. QED
  BY <1>2, <1>4, <1>7, <1>8, <1>9 DEF W

LEMMA SectInit == Init => SectInv
<1> SUFFICES ASSUME Init PROVE SectInv
  OBVIOUS
<1>1. /\ file \in [dyn : Seq(Entry), whole : BOOLEAN, e_type : EType] /\ table \in Table
      /\ pc = "strings" /\ k = 1 /\ field = [t \in Tag |-> 0] /\ neededs = <<>> /\ symtabs = 0
  BY SectionAssumption DEF Init
<1>2. SectTypes
  BY <1>1 DEF SectTypes
<1>3. FirstSoFar
  <2>1. Len(file.dyn) \in Nat
    BY <1>1
  <2>2. k <= Len(file.dyn) + 1 /\ ~\E j \in 1..k - 1 : TRUE
    BY <1>1, <2>1
  <2>3. \A t \in Tag : field[t] = 0
    BY <1>1
  <2>4. StringTag \subseteq Tag /\ OtherTag \subseteq Tag
    BY DEF StringTag, OtherTag, Tag
  <2>5. \A t \in StringTag : LastBelow(t, field[t], k)
    BY <2>2, <2>3, <2>4, Zenon DEF LastBelow
  <2>6. QED
    BY <1>1, <2>2, <2>3, <2>4, <2>5 DEF FirstSoFar
<1>4. QED
  BY <1>1, <1>2, <1>3 DEF SectInv, AllSymbolsRead, AcceptsWellFormed

\* A table lies where its symbols do, and what is odd behind them.
LEMMA TableFacts ==
  ASSUME SectTypes
  PROVE  /\ Len(table.names) \in Nat /\ table.real \in 1..Len(table.names)
         /\ table.odd \subseteq table.real + 1..Len(table.names)
         /\ \A j \in 1..Len(table.names) : table.names[j] \in Nat
<1>1. /\ table \in [names : Seq(Nat), odd : SUBSET Nat, real : Nat]
      /\ table.real \in 1..Len(table.names)
      /\ table.odd \subseteq table.real + 1..Len(table.names)
  BY DEF SectTypes, Table
<1>2. table.names \in Seq(Nat)
  BY <1>1
<1>3. QED
  BY <1>1, <1>2

\* The first pass keeps what it is at.
LEMMA FirstPassStep ==
  ASSUME SectInv, FirstPass
  PROVE  SectInv'
<1>1. /\ pc = "strings" /\ k <= Len(file.dyn) /\ k' = k + 1
      /\ UNCHANGED <<file, table, pc, neededs, symtabs>>
      /\ field' = IF file.dyn[k].tag \in StringTag
                  THEN [field EXCEPT ![file.dyn[k].tag] = file.dyn[k].val] ELSE field
  BY DEF FirstPass, StringTag
<1>2. /\ SectTypes /\ FirstSoFar /\ Len(file.dyn) \in Nat /\ k \in 1..Len(file.dyn)
      /\ file.dyn[k] \in Entry /\ field \in [Tag -> Nat]
  BY <1>1 DEF SectInv, SectTypes
<1>3. file.dyn[k].val \in Nat
  BY <1>2 DEF Entry
<1>4. StringTag \subseteq Tag /\ OtherTag \subseteq Tag /\ StringTag \cap OtherTag = {}
  BY DEF StringTag, OtherTag, Tag
<1>5. field' \in [Tag -> Nat]
  BY <1>1, <1>2, <1>3
<1>6. SectTypes'
  BY <1>1, <1>2, <1>5 DEF SectTypes
<1>7. ASSUME NEW t \in StringTag PROVE LastBelow(t, field'[t], k + 1)
  <2>1. LastBelow(t, field[t], k)
    BY <1>2 DEF FirstSoFar
  <2>2. CASE file.dyn[k].tag = t
    <3>1. field'[t] = file.dyn[k].val
      BY <1>1, <1>2, <1>4, <2>2
    <3>2. QED
      BY <1>2, <2>1, <2>2, <3>1, LastNext
  <2>3. CASE file.dyn[k].tag # t
    <3>1. field'[t] = field[t]
      BY <1>1, <1>2, <1>4, <2>3
    <3>2. QED
      BY <1>2, <2>1, <2>3, <3>1, LastNext
  <2>4. QED
    BY <2>2, <2>3
<1>8. ASSUME NEW t \in OtherTag PROVE field'[t] = 0
  <2>1. field[t] = 0
    BY <1>2 DEF FirstSoFar
  <2>2. t # file.dyn[k].tag \/ file.dyn[k].tag \notin StringTag
    BY <1>4
  <2>3. QED
    BY <1>1, <1>2, <1>4, <2>1, <2>2
<1>9. k' <= Len(file.dyn) + 1
  BY <1>1, <1>2
<1>10. FirstSoFar'
  BY <1>1, <1>2, <1>7, <1>8, <1>9 DEF FirstSoFar, LastBelow
<1>11. QED
  BY <1>1, <1>6, <1>10 DEF SectInv, AllSymbolsRead, AcceptsWellFormed

\* The second pass keeps what it is at, and adds a needed library behind the others.
LEMMA SecondPassStep ==
  ASSUME SectInv, SecondPass
  PROVE  SectInv'
<1>1. /\ pc = "tags" /\ k <= Len(file.dyn) /\ k' = k + 1
      /\ UNCHANGED <<file, table, pc, symtabs>>
      /\ neededs' = IF file.dyn[k].tag = "NEEDED" THEN Append(neededs, Resolve(file.dyn[k].val))
                    ELSE neededs
      /\ field' = IF file.dyn[k].tag \in OtherTag
                  THEN [field EXCEPT ![file.dyn[k].tag] = file.dyn[k].val] ELSE field
  BY DEF SecondPass, Keep, OtherTag
<1>2. /\ SectTypes /\ SecondSoFar /\ Len(file.dyn) \in Nat /\ k \in 1..Len(file.dyn)
      /\ file.dyn[k] \in Entry /\ field \in [Tag -> Nat]
      /\ neededs \in Seq([off : Nat, strtab : Nat])
  BY <1>1 DEF SectInv, SectTypes
<1>3. file.dyn[k].val \in Nat
  BY <1>2 DEF Entry
<1>4. /\ StringTag \subseteq Tag /\ OtherTag \subseteq Tag /\ StringTag \cap OtherTag = {}
      /\ "STRTAB" \in StringTag /\ "STRTAB" \in Tag
  BY DEF StringTag, OtherTag, Tag
<1>5. field' \in [Tag -> Nat]
  BY <1>1, <1>2, <1>3
<1>6. Resolve(file.dyn[k].val) = [off |-> file.dyn[k].val, strtab |-> Val("STRTAB")]
  <2>1. field["STRTAB"] = Val("STRTAB")
    BY <1>2, <1>4 DEF SecondSoFar
  <2>2. QED
    BY <2>1 DEF Resolve
<1>7. Resolve(file.dyn[k].val) \in [off : Nat, strtab : Nat]
  <2>1. field["STRTAB"] \in Nat
    BY <1>2, <1>4
  <2>2. QED
    BY <1>3, <2>1 DEF Resolve
<1>8. neededs' \in Seq([off : Nat, strtab : Nat])
  <2>1. Append(neededs, Resolve(file.dyn[k].val)) \in Seq([off : Nat, strtab : Nat])
    BY <1>2, <1>7, AppendProperties
  <2>2. QED
    BY <1>1, <1>2, <2>1, Zenon
<1>9. SectTypes'
  BY <1>1, <1>2, <1>5, <1>8 DEF SectTypes
<1>10. ASSUME NEW t \in OtherTag PROVE LastBelow(t, field'[t], k + 1)
  <2>1. LastBelow(t, field[t], k)
    BY <1>2 DEF SecondSoFar
  <2>2. CASE file.dyn[k].tag = t
    <3>1. field'[t] = file.dyn[k].val
      BY <1>1, <1>2, <1>4, <2>2
    <3>2. QED
      BY <1>2, <2>1, <2>2, <3>1, LastNext
  <2>3. CASE file.dyn[k].tag # t
    <3>1. field'[t] = field[t]
      BY <1>1, <1>2, <1>4, <2>3
    <3>2. QED
      BY <1>2, <2>1, <2>3, <3>1, LastNext
  <2>4. QED
    BY <2>2, <2>3
<1>11. ASSUME NEW t \in StringTag PROVE field'[t] = Val(t)
  <2>1. field[t] = Val(t)
    BY <1>2 DEF SecondSoFar
  <2>2. t # file.dyn[k].tag \/ file.dyn[k].tag \notin OtherTag
    BY <1>4
  <2>3. QED
    BY <1>1, <1>2, <1>4, <2>1, <2>2
<1> DEFINE W == With("NEEDED")
           r(j) == [off |-> file.dyn[j].val, strtab |-> Val("STRTAB")]
           c(n) == Cardinality(W \cap 1..n)
<1>12. Len(neededs) = c(k - 1) /\ \A j \in W \cap 1..k - 1 : neededs[c(j)] = r(j)
  BY <1>2 DEF SecondSoFar, NeededBelow
<1>13. /\ file.dyn[k].tag = "NEEDED" => c(k) = c(k - 1) + 1
       /\ file.dyn[k].tag # "NEEDED" => W \cap 1..k = W \cap 1..k - 1
       /\ c(k - 1) \in Nat
       /\ \A j \in W \cap 1..k - 1 : c(j) \in 1..c(k - 1)
  BY <1>2, NeededCount
<1>14. Len(neededs') = c(k) /\ \A j \in W \cap 1..k : neededs'[c(j)] = r(j)
  <2>1. CASE file.dyn[k].tag # "NEEDED"
    <3>1. W \cap 1..k = W \cap 1..k - 1 /\ neededs' = neededs
      BY <1>1, <1>13, <2>1
    <3>2. QED
      BY <1>12, <3>1
  <2>2. CASE file.dyn[k].tag = "NEEDED"
    <3>1. PICK l \in Nat : l = c(k - 1)
      BY <1>13
    <3>2. PICK x \in [off : Nat, strtab : Nat] : x = Resolve(file.dyn[k].val)
      BY <1>7
    <3>3. Len(neededs) = l /\ neededs' = Append(neededs, x) /\ c(k) = l + 1
      BY <1>1, <1>12, <1>13, <2>2, <3>1, <3>2
    <3>4. /\ Len(neededs') = l + 1 /\ neededs'[l + 1] = x
          /\ \A j \in 1..l : neededs'[j] = neededs[j]
      <4> HIDE DEF W, r, c
      <4>1. QED
        BY <1>2, <3>3
    <3>5. ASSUME NEW j \in W \cap 1..k PROVE neededs'[c(j)] = r(j)
      <4>1. CASE j = k
        <5>1. x = r(j)
          BY <1>6, <3>2, <4>1
        <5>2. QED
          BY <3>3, <3>4, <4>1, <5>1
      <4>2. CASE j # k
        <5>1. j \in W \cap 1..k - 1
          BY <1>2, <4>2
        <5>2. c(j) \in 1..l /\ neededs[c(j)] = r(j)
          BY <1>12, <1>13, <3>1, <5>1
        <5>3. QED
          <6> HIDE DEF W, r, c
          <6>1. QED
            BY <3>4, <5>2
      <4>3. QED
        BY <4>1, <4>2
    <3>6. QED
      BY <3>3, <3>4, <3>5
  <2>3. QED
    BY <2>1, <2>2
<1>15. ASSUME NEW t PROVE With(t)' = With(t) /\ Val(t)' = Val(t)
  BY <1>1 DEF With, Val
<1>16. k' <= Len(file.dyn) + 1 /\ k' - 1 = k
  BY <1>1, <1>2
<1>17. NeededBelow(k)'
  BY <1>1, <1>14, <1>15, <1>16 DEF NeededBelow
<1>18. \A t \in OtherTag : LastBelow(t, field[t], k)'
  BY <1>1, <1>10 DEF LastBelow
<1>19. \A t \in StringTag : field'[t] = Val(t)'
  BY <1>11, <1>15
<1>20. SecondSoFar'
  <2>1. symtabs' = 0 /\ k' <= (Len(file.dyn) + 1)'
    BY <1>1, <1>2, <1>16 DEF SecondSoFar
  <2>2. QED
    BY <1>17, <1>18, <1>19, <2>1 DEF SecondSoFar
<1>21. QED
  BY <1>1, <1>9, <1>20 DEF SectInv, AllSymbolsRead, AcceptsWellFormed

LEMMA SectStep ==
  ASSUME SectInv, [Next]_vars
  PROVE  SectInv'
<1> DEFINE n == Len(file.dyn)
<1>1. /\ SectTypes /\ n \in Nat /\ DOMAIN file.dyn = 1..n /\ k \in Nat \ {0}
      /\ field \in [Tag -> Nat] /\ symtabs \in Nat
  BY DEF SectInv, SectTypes
<1>2. ASSUME file' = file, NEW t PROVE With(t)' = With(t) /\ Val(t)' = Val(t)
  BY <1>2 DEF With, Val
<1>3. /\ \A t \in StringTag : t \in Tag \ {"NEEDED"}
      /\ \A t \in Tag \ {"NEEDED"} : t \in StringTag \/ t \in OtherTag
      /\ "STRTAB" \in StringTag /\ "STRTAB" \in Tag \ {"NEEDED"} /\ "STRSZ" \in Tag \ {"NEEDED"}
  BY DEF StringTag, OtherTag, Tag
<1>4. ASSUME file' = file, field' = field, neededs' = neededs, Parsed PROVE Parsed'
  BY <1>4, <1>2 DEF Parsed, NeededBelow
<1>5. ASSUME file' = file, table' = table, field' = field PROVE WellFormed' = WellFormed
  BY <1>2, <1>5 DEF WellFormed, Loaded, Has, Acceptable
\* A step that ends the process, if AcceptsWellFormed then holds.
<1>6. ASSUME Die,
             WellFormed => /\ symtabs >= table.real
                           /\ \A j \in 2..symtabs : table.names[j] < Val("STRSZ")
                           /\ symtabs = Len(table.names) \/ \E j \in table.odd : j <= symtabs
      PROVE  SectInv'
  <2>1. pc' = "dead" /\ UNCHANGED <<file, table, k, field, neededs, symtabs>>
    BY <1>6 DEF Die
  <2>2. WellFormed' = WellFormed
    BY <1>5, <2>1
  <2>3. Val("STRSZ")' = Val("STRSZ")
    BY <1>2, <2>1
  <2>4. AcceptsWellFormed'
    BY <1>6, <2>1, <2>2, <2>3 DEF AcceptsWellFormed
  <2>5. QED
    BY <1>1, <2>1, <2>4 DEF SectInv, SectTypes, AllSymbolsRead
<1>7. CASE NotLoaded
  BY <1>6, <1>7 DEF NotLoaded, WellFormed
<1>8. CASE FirstPass
  BY <1>8, FirstPassStep
<1>9. ASSUME pc = "strings", k > n PROVE \A t \in StringTag : field[t] = Val(t)
  <2> SUFFICES ASSUME NEW t \in StringTag PROVE field[t] = Val(t)
    OBVIOUS
  <2>1. k <= n + 1 /\ LastBelow(t, field[t], k)
    BY <1>9 DEF SectInv, FirstSoFar
  <2>2. k = n + 1
    BY <1>1, <1>9, <2>1
  <2>3. QED
    BY <1>1, <2>1, <2>2, LastIsVal
<1>10. CASE NoStrings
  <2>1. pc = "strings" /\ k > n /\ field["STRTAB"] = 0 /\ Die
    BY <1>10 DEF NoStrings
  <2>2. Val("STRTAB") = 0
    BY <1>3, <1>9, <2>1
  <2>3. QED
    BY <1>6, <2>1, <2>2 DEF WellFormed, Has
<1>11. CASE FirstDone
  <2>1. /\ pc = "strings" /\ k > n /\ pc' = "tags" /\ k' = 1
        /\ UNCHANGED <<file, table, field, neededs, symtabs>>
    BY <1>11 DEF FirstDone, Goto
  <2>2. neededs = <<>> /\ symtabs = 0 /\ \A t \in OtherTag : field[t] = 0
    BY <2>1 DEF SectInv, FirstSoFar
  <2>3. 1 <= n + 1 /\ 1..1 - 1 = {}
    BY <1>1
  <2>4. NeededBelow(1)
    <3>1. Len(neededs) = 0
      BY <2>2
    <3>2. With("NEEDED") \cap 1..1 - 1 = {}
      BY <2>3
    <3>3. QED
      BY <3>1, <3>2, FS_EmptySet DEF NeededBelow
  <2>5. \A t \in OtherTag : LastBelow(t, field[t], 1)
    BY <2>2, <2>3, Zenon DEF LastBelow
  <2>6. \A t \in StringTag : field[t] = Val(t)
    BY <1>9, <2>1
  <2>7. SecondSoFar'
    <3>1. NeededBelow(k)'
      BY <1>2, <2>1, <2>4 DEF NeededBelow
    <3>2. \A t \in OtherTag : LastBelow(t, field[t], k)'
      BY <2>1, <2>5 DEF LastBelow
    <3>3. \A t \in StringTag : field'[t] = Val(t)'
      BY <1>2, <2>1, <2>6
    <3>4. symtabs' = 0 /\ k' <= (Len(file.dyn) + 1)'
      BY <2>1, <2>2, <2>3
    <3>5. QED
      BY <3>1, <3>2, <3>3, <3>4 DEF SecondSoFar
  <2>8. SectTypes'
    BY <1>1, <2>1 DEF SectTypes
  <2>9. QED
    BY <2>1, <2>7, <2>8 DEF SectInv, AllSymbolsRead, AcceptsWellFormed
<1>12. CASE SecondPass
  BY <1>12, SecondPassStep
<1>13. CASE BadEntry
  <2>1. ~Acceptable(file.dyn[k]) /\ k \in DOMAIN file.dyn /\ Die
    BY <1>1, <1>13 DEF BadEntry
  <2>2. QED
    BY <1>6, <2>1 DEF WellFormed
<1>14. CASE SecondDone
  <2>1. /\ pc = "tags" /\ k > n /\ pc' = "relas" /\ k' = 1
        /\ UNCHANGED <<file, table, field, neededs, symtabs>>
    BY <1>14 DEF SecondDone, Goto
  <2>2. SecondSoFar
    BY <2>1 DEF SectInv
  <2>3. k = n + 1
    BY <1>1, <2>1, <2>2 DEF SecondSoFar
  <2>4. \A t \in OtherTag : field[t] = Val(t)
    BY <1>1, <2>2, <2>3, LastIsVal DEF SecondSoFar
  <2>5. Parsed
    BY <1>3, <2>2, <2>3, <2>4 DEF Parsed, SecondSoFar
  <2>6. Parsed' /\ symtabs' = 0
    BY <1>4, <2>1, <2>2, <2>5 DEF SecondSoFar
  <2>7. SectTypes'
    BY <1>1, <2>1 DEF SectTypes
  <2>8. QED
    BY <2>1, <2>6, <2>7 DEF SectInv, AllSymbolsRead, AcceptsWellFormed
<1>15. CASE ReadRelas
  <2>1. /\ pc = "relas" /\ pc' = "syms" /\ k' = 1
        /\ UNCHANGED <<file, table, field, neededs, symtabs>>
    BY <1>15 DEF ReadRelas, Goto
  <2>2. Parsed' /\ symtabs = 0
    BY <1>4, <2>1 DEF SectInv
  <2>3. Len(table.names) \in Nat
    BY <1>1, TableFacts
  <2>4. SymsSoFar'
    <3>1. 1 = symtabs + 1 /\ symtabs <= Len(table.names) /\ ~\E j \in 2..symtabs : TRUE
      BY <2>2, <2>3
    <3>2. QED
      BY <2>1, <3>1, Zenon DEF SymsSoFar
  <2>5. SectTypes'
    BY <1>1, <2>1 DEF SectTypes
  <2>6. QED
    BY <2>1, <2>2, <2>4, <2>5 DEF SectInv, AllSymbolsRead, AcceptsWellFormed
<1>16. CASE BadRelas
  <2>1. Parsed /\ Die
    BY <1>16 DEF BadRelas, SectInv
  <2>2. /\ field["RELA"] = Val("RELA") /\ field["RELASZ"] = Val("RELASZ")
        /\ field["RELAENT"] = Val("RELAENT") /\ field["JMPREL"] = Val("JMPREL")
        /\ field["PLTREL"] = Val("PLTREL") /\ field["PLTRELSZ"] = Val("PLTRELSZ")
    BY <2>1 DEF Parsed, Tag
  <2>3. RelaSize["DT_RELA"] # 0 /\ RelaSize["Rela"] # 0
    BY SectionAssumption
  <2>4. ~WellFormed
    <3> SUFFICES ASSUME WellFormed PROVE FALSE
      OBVIOUS
    <3>1. field["RELA"] # 0 => Whole(field["RELASZ"], field["RELAENT"])
      BY <2>2 DEF WellFormed, Has, Whole
    <3>2. field["JMPREL"] # 0 => /\ Whole(field["PLTRELSZ"], PltRelEnt)
                                 /\ field["PLTREL"] = RelaSize["DT_RELA"]
      BY <2>2, <2>3 DEF WellFormed, Has, Whole, PltRelEnt
    <3>3. QED
      BY <1>16, <3>1, <3>2 DEF BadRelas
  <2>5. QED
    BY <1>6, <2>1, <2>4
<1>17. CASE ReadSym
  <2>1. /\ pc = "syms" /\ k <= Len(table.names) /\ symtabs' = symtabs + 1 /\ k' = k + 1
        /\ k = 1 \/ table.names[k] < field["STRSZ"]
        /\ UNCHANGED <<file, table, pc, field, neededs>>
    BY <1>17 DEF ReadSym, LooksLikeSym
  <2>2. SymsSoFar /\ Parsed'
    BY <1>4, <2>1 DEF SectInv
  <2>3. Len(table.names) \in Nat
    BY <1>1, TableFacts
  <2>4. k = symtabs + 1 /\ \A j \in 2..symtabs : table.names[j] < field["STRSZ"]
    BY <2>2 DEF SymsSoFar
  <2>5. \A j \in 2..symtabs + 1 : j \in 2..symtabs \/ (j = k /\ k # 1)
    BY <1>1, <2>4
  <2>6. \A j \in 2..symtabs + 1 : table.names[j] < field["STRSZ"]
    BY <2>1, <2>4, <2>5, Zenon
  <2>7. k' = symtabs' + 1 /\ symtabs' <= Len(table.names)
    BY <1>1, <2>1, <2>3, <2>4
  <2>8. SymsSoFar'
    BY <2>1, <2>6, <2>7 DEF SymsSoFar
  <2>9. SectTypes'
    BY <1>1, <2>1 DEF SectTypes
  <2>10. QED
    BY <2>1, <2>2, <2>8, <2>9 DEF SectInv, AllSymbolsRead, AcceptsWellFormed
\* What is known of the symbols when the loop ends.
<1>18. ASSUME pc = "syms"
       PROVE  /\ k = symtabs + 1 /\ symtabs <= Len(table.names)
              /\ field["STRSZ"] = Val("STRSZ") /\ field["STRTAB"] = Val("STRTAB")
              /\ \A j \in 2..symtabs : table.names[j] < Val("STRSZ")
  <2>1. SymsSoFar /\ Parsed
    BY <1>18 DEF SectInv
  <2>2. field["STRSZ"] = Val("STRSZ") /\ field["STRTAB"] = Val("STRTAB")
    BY <1>3, <2>1 DEF Parsed
  <2>3. QED
    BY <2>1, <2>2 DEF SymsSoFar
<1>19. CASE ReadPastEnd
  <2>1. pc = "syms" /\ k > Len(table.names) /\ Die
    BY <1>19 DEF ReadPastEnd
  <2>2. Len(table.names) \in Nat /\ table.real \in 1..Len(table.names)
    BY <1>1, TableFacts
  <2>3. symtabs = Len(table.names) /\ symtabs >= table.real
    BY <1>1, <1>18, <2>1, <2>2
  <2>4. QED
    BY <1>6, <1>18, <2>1, <2>3
<1>20. CASE SymsDone
  <2>1. /\ pc = "syms" /\ pc' = "done" /\ EndOfSyms
        /\ UNCHANGED <<file, table, k, field, neededs, symtabs>>
    BY <1>20 DEF SymsDone
  <2>2. Parsed'
    BY <1>4, <2>1 DEF SectInv
  <2>3. ASSUME field["SYMTAB"] # 0, \A j \in 1..table.real : table.names[j] < Val("STRSZ")
        PROVE  symtabs >= table.real
    <3>1. k \in 2..Len(table.names) /\ ~(table.names[k] < Val("STRSZ"))
      BY <1>18, <2>1, <2>3 DEF EndOfSyms, LooksLikeSym
    <3>2. ~(k \in 1..table.real)
      BY <2>3, <3>1
    <3>3. table.real \in Nat
      BY <1>1, TableFacts
    <3>4. QED
      BY <1>1, <1>18, <2>1, <3>2, <3>3
  <2>4. Val("STRSZ")' = Val("STRSZ")
    BY <1>2, <2>1
  <2>5. AllSymbolsRead'
    BY <2>1, <2>3, <2>4 DEF AllSymbolsRead
  <2>6. SectTypes'
    BY <1>1, <2>1 DEF SectTypes
  <2>7. QED
    BY <2>1, <2>2, <2>5, <2>6 DEF SectInv, AcceptsWellFormed
<1>21. CASE BadSym
  <2>1. pc = "syms" /\ ~ShowSym(symtabs) /\ Die
    BY <1>21 DEF BadSym
  <2>2. ASSUME WellFormed PROVE symtabs >= table.real /\ \E j \in table.odd : j <= symtabs
    <3>1. field["STRTAB"] # 0
      BY <1>18, <2>1, <2>2 DEF WellFormed, Has
    <3>2. PICK j \in table.odd : j \in 1..symtabs
      BY <2>1, <3>1 DEF ShowSym
    <3>3. j \in table.real + 1..Len(table.names) /\ table.real \in Nat
      BY <1>1, TableFacts
    <3>4. j <= symtabs /\ symtabs >= table.real
      BY <1>1, <3>2, <3>3
    <3>5. QED
      BY <3>4
  <2>3. QED
    BY <1>6, <1>18, <2>1, <2>2
<1>22. CASE UNCHANGED vars
  <2>1. UNCHANGED <<file, table, pc, k, field, neededs, symtabs>>
    BY <1>22 DEF vars
  <2>2. ASSUME NEW t PROVE With(t)' = With(t) /\ Val(t)' = Val(t)
    BY <1>2, <2>1
  <2>3. WellFormed' = WellFormed
    BY <1>5, <2>1
  <2>4. Parsed => Parsed'
    BY <1>4, <2>1
  <2>5. SecondSoFar => SecondSoFar'
    <3> SUFFICES ASSUME SecondSoFar PROVE SecondSoFar'
      OBVIOUS
    <3>1. NeededBelow(k)'
      BY <2>1, <2>2 DEF SecondSoFar, NeededBelow
    <3>2. \A t \in OtherTag : LastBelow(t, field[t], k)'
      BY <2>1 DEF SecondSoFar, LastBelow
    <3>3. \A t \in StringTag : field'[t] = Val(t)'
      BY <2>1, <2>2 DEF SecondSoFar
    <3>4. symtabs' = 0 /\ k' <= (Len(file.dyn) + 1)'
      BY <2>1 DEF SecondSoFar
    <3>5. QED
      BY <3>1, <3>2, <3>3, <3>4 DEF SecondSoFar
  <2>6. FirstSoFar => FirstSoFar'
    BY <2>1 DEF FirstSoFar, LastBelow
  <2>7. SymsSoFar => SymsSoFar'
    BY <2>1 DEF SymsSoFar
  <2>8. AllSymbolsRead => AllSymbolsRead'
    BY <2>1, <2>2 DEF AllSymbolsRead
  <2>9. AcceptsWellFormed => AcceptsWellFormed'
    BY <2>1, <2>2, <2>3 DEF AcceptsWellFormed
  <2>10. SectTypes'
    BY <1>1, <2>1 DEF SectTypes
  <2>11. QED
    BY <2>1, <2>4, <2>5, <2>6, <2>7, <2>8, <2>9, <2>10 DEF SectInv
<1>23. QED
  BY <1>7, <1>8, <1>10, <1>11, <1>12, <1>13, <1>14, <1>15, <1>16, <1>17, <1>19, <1>20, <1>21,
     <1>22 DEF Next

\* The inductive invariant of the parser: where each pass is and what it has kept.
THEOREM SectionInvariant == Spec => []SectInv
<1>1. SectInv /\ [Next]_vars => SectInv'
  BY SectStep
<1>2. QED
  BY <1>1, SectInit, PTL DEF Spec

\* OrderFree of DynamicSection: whatever the order of the entries, each member has
\* its tag's value and the needed libraries their order and their names.
THEOREM ParsingIsOrderFree == Spec => []OrderFree
<1>1. SectInv => OrderFree
  <2> SUFFICES ASSUME SectInv, pc = "done" PROVE OrderFree
    BY DEF OrderFree
  <2>1. Parsed /\ Len(file.dyn) \in Nat /\ DOMAIN file.dyn = 1..Len(file.dyn)
    BY DEF SectInv, SectTypes
  <2>2. Len(file.dyn) + 1 - 1 = Len(file.dyn)
    BY <2>1
  <2>3. With("NEEDED") \cap 1..Len(file.dyn) = With("NEEDED")
    BY <2>1 DEF With
  <2>4. QED
    <3>1. \A t \in Tag \ {"NEEDED"} : field[t] = Val(t)
      BY <2>1 DEF Parsed
    <3>2. /\ Len(neededs) = Cardinality(With("NEEDED"))
          /\ \A j \in With("NEEDED") :
               neededs[Cardinality(With("NEEDED") \cap 1..j)] =
                 [off |-> file.dyn[j].val, strtab |-> Val("STRTAB")]
      <4> DEFINE right(j) == neededs[Cardinality(With("NEEDED") \cap 1..j)] =
                               [off |-> file.dyn[j].val, strtab |-> Val("STRTAB")]
      <4>1. PICK n : n = Len(file.dyn) + 1
        OBVIOUS
      <4>2. NeededBelow(n)
        BY <2>1, <4>1 DEF Parsed
      <4>3. With("NEEDED") \cap 1..n - 1 = With("NEEDED")
        BY <2>2, <2>3, <4>1
      <4>4. Len(neededs) = Cardinality(With("NEEDED") \cap 1..n - 1)
        BY <4>2, Zenon DEF NeededBelow
      <4>5. \A j \in With("NEEDED") \cap 1..n - 1 : right(j)
        BY <4>2 DEF NeededBelow
      <4> HIDE DEF right
      <4>6. Len(neededs) = Cardinality(With("NEEDED")) /\ \A j \in With("NEEDED") : right(j)
        BY <4>3, <4>4, <4>5, Zenon
      <4>7. QED
        BY <4>6 DEF right
    <3>3. QED
      BY <3>1, <3>2, Zenon DEF OrderFree
<1>2. QED
  BY <1>1, SectionInvariant, PTL

\* AllSymbolsRead of DynamicSection: the loop without a length reads every symbol
\* of the file.
THEOREM SymbolsAreRead == Spec => []AllSymbolsRead
<1>1. SectInv => AllSymbolsRead
  BY DEF SectInv
<1>2. QED
  BY <1>1, SectionInvariant, PTL

\* AcceptsWellFormed of DynamicSection: a well-formed section is given up only for
\* what follows the symbol table.
THEOREM WellFormedIsAccepted == Spec => []AcceptsWellFormed
<1>1. SectInv => AcceptsWellFormed
  BY DEF SectInv
<1>2. QED
  BY <1>1, SectionInvariant, PTL

=============================================================================
