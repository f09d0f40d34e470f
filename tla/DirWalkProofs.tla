------------------------------ MODULE DirWalkProofs ------------------------------
(***************************************************************************)
(* Proofs about the directory walk, for every tree, every order in which   *)
(* readdir() lists it, every failing call and every removal by others: as  *)
(* long as no directory is moved and every chdir("..") succeeds, a walker  *)
(* that keeps names only meets each of them in its directory, and meets    *)
(* none twice.                                                             *)
(***************************************************************************)
EXTENDS DirWalk, SequenceTheorems, FiniteSetTheorems, TLAPS

\* The element e is the name of node n.
Named(e, n) ==
  IF e = FullPath THEN n = Root
  ELSE e.depth > 0 /\ n \in Nodes \ {Top} /\ e.name = NameOf[n] /\ e.dir = ParentOf[n]

\* Where the walker is when it has dealt with e, which it began in e.dir.
After(e) == IF e.depth < 0 THEN ParentOf[e.dir] ELSE e.dir

Naming  == pc \in {"lstat", "opendir", "chdir"}
Opening == pc \in {"opendir", "chdir", "readdir"}

\* The copy of the first element lies at the bottom until the walk is over.
BottomInv ==
  /\ pc \in {"printStat", "done", "crash"} => stack = <<>>
  /\ Naming \/ pc \in {"readdir", "pop"} => stack # <<>> /\ stack[1] = FullPath
  /\ \A i \in 2 .. Len(stack) : stack[i].depth # 0
  /\ Opening => elem.depth >= 0

\* An element has the depth of what is in its directory.
Deep(e, level) == e.depth >= 0 => e.depth = level[e.dir] + 1

\* The element under another one belongs to the directory in which the upper one
\* leaves the walker, down to the first element, whose directory is Top.
PlaceInv ==
  /\ parent = ParentOf
  /\ \A i \in 2 .. Len(stack) : Deep(stack[i], Level) /\ stack[i - 1].dir = After(stack[i])
  /\ pc = "pop" /\ Len(stack) > 1 => cwd = stack[Len(stack)].dir
  /\ Naming => IF elem = FullPath THEN Len(stack) = 1
               ELSE /\ cwd = elem.dir /\ Deep(elem, Level) /\ elem.depth # 0
                    /\ stack[Len(stack)].dir = After(elem)
  /\ pc \in {"chdir", "readdir"} => Named(elem, dp)
  /\ pc = "readdir" => /\ cwd = dp /\ elem.depth = Level[dp]
                       /\ Len(stack) > 1 /\ stack[Len(stack)].dir = dp

Here(n)    == pc = "lstat" /\ Named(elem, n)
Stacked(n) == \E i \in 2 .. Len(stack) : Named(stack[i], n)

\* What has been visited, and what is still to be: each node of a directory that
\* was read is on the stack once, or has been looked up.
VisitInv ==
  /\ visits[Top] = 0
  /\ \A n \in Nodes :
       /\ visits[n] \in {0, 1}
       /\ Here(n) \/ Stacked(n) => visits[n] = 0
       /\ Here(n) => ~Stacked(n)
       /\ \A i, j \in 2 .. Len(stack) : Named(stack[i], n) /\ Named(stack[j], n) => i = j
       /\ n # Root /\ (Here(n) \/ Stacked(n) \/ visits[n] = 1) =>
            visits[ParentOf[n]] = 1 /\ ~(Opening /\ Named(elem, ParentOf[n]))
       /\ Opening /\ Named(elem, n) => visits[n] = 1
  /\ \A n \in exists \ {Top} :
       ParentOf[n] \in complete => visits[n] = 1 \/ n \in refused \/ Here(n) \/ Stacked(n)

\* Nothing has been counted as long as the first lstat() is to come or has failed.
Uncounted == \A k \in Kinds : stats[k] = 0

CrashInv ==
  /\ pc = "crash" => Uncounted
  /\ Uncounted => \/ pc = "lstat" /\ elem = FullPath /\ stack = <<FullPath>>
                  \/ /\ Root \notin exists \/ Root \in refused
                     /\ pc \in {"pop", "printStat", "crash"}
                     /\ pc = "pop" => stack = <<FullPath>>

WalkInv == TypeOK /\ BottomInv /\ CrashInv /\ (OnTrack => PlaceInv /\ VisitInv)

-------------------------------------------------------------------------------
(* The tree *)

\* What TreeAssumption says of single nodes.
LEMMA TreeFacts ==
  /\ Root \in Dirs /\ Top \in Dirs /\ Root # Top /\ ParentOf[Root] = Top
  /\ \A n \in Nodes \ {Top} : ParentOf[n] \in Dirs /\ ParentOf[n] # n
<1>1. ASSUME NEW n \in Nodes \ {Top} PROVE ParentOf[n] # n
  <2>1. PICK level \in [Nodes -> -1 .. Cardinality(Nodes) - 2] :
          \A m \in Nodes \ {Top} : level[m] = level[ParentOf[m]] + 1
    BY TreeAssumption
  <2>2. level[n] \in Int /\ level[n] = level[ParentOf[n]] + 1
    BY <2>1
  <2> QED
    BY <2>2
<1> QED
  BY <1>1, DirWalkAssumption DEF Dirs

\* The recursive definition of Level has a solution as long as nothing was moved.
LEMMA LevelFacts ==
  ASSUME parent = ParentOf
  PROVE  /\ Level[Root] = 0 /\ Level[Top] = -1
         /\ \A n \in Nodes \ {Top} : Level[n] = Level[ParentOf[n]] + 1
<1> DEFINE Rule(f) == f = [n \in Nodes |-> IF n = Root THEN 0 ELSE IF n = Top THEN -1
                                           ELSE f[parent[n]] + 1]
<1>1. \E f : Rule(f)
  <2>1. PICK level \in [Nodes -> -1 .. Cardinality(Nodes) - 2] :
          /\ level[Top] = -1
          /\ \A m \in Nodes \ {Top} : level[m] = level[ParentOf[m]] + 1
    BY TreeAssumption
  <2>2. level[Root] = 0
    BY <2>1, DirWalkAssumption DEF Dirs
  <2>3. Rule(level)
    BY <2>1, <2>2, DirWalkAssumption DEF Dirs
  <2> QED
    BY <2>3
<1>2. Level = CHOOSE f : Rule(f)
  BY DEF Level
<1> HIDE DEF Rule
<1>3. Rule(Level)
  BY <1>1, <1>2
<1>4. \A n \in Nodes : Level[n] = IF n = Root THEN 0 ELSE IF n = Top THEN -1
                                  ELSE Level[parent[n]] + 1
  BY <1>3 DEF Rule
<1> QED
  BY <1>4, TreeFacts, DirWalkAssumption DEF Dirs

\* The levels are those of the directories: only a move changes them.
LEMMA LevelSame == UNCHANGED parent => Level' = Level
BY DEF Level

\* A name stands for one node.
LEMMA OneNode ==
  ASSUME NEW e \in Elements, NEW m, NEW n, Named(e, m), Named(e, n)
  PROVE  m = n
BY TreeAssumption DEF Named

\* What the name of elem finds is the node it was read from.
LEMMA LookupFinds ==
  ASSUME TypeOK, PlaceInv, Naming, elem.depth >= 0
  PROVE  /\ \A n \in Lookup(elem) : n \in exists \ {Top} /\ Named(elem, n)
         /\ \A n \in exists : Named(elem, n) => n \in Lookup(elem)
<1>1. exists \subseteq Nodes
  BY DEF TypeOK
<1>2. CASE elem = FullPath
  BY <1>1, <1>2, TreeFacts DEF Lookup, Named
<1>3. CASE elem # FullPath
  <2>1. cwd = elem.dir /\ elem.depth # 0 /\ parent = ParentOf
    BY <1>3 DEF PlaceInv
  <2>2. elem.depth > 0
    BY <2>1 DEF TypeOK, Elements
  <2> QED
    BY <1>1, <1>3, <2>1, <2>2 DEF Lookup, Named
<1> QED
  BY <1>2, <1>3

-------------------------------------------------------------------------------
(* What readdir() pushes *)

\* An order lists every child once.
LEMMA OrderFacts ==
  ASSUME NEW S \in SUBSET Nodes, NEW order \in Orders(S)
  PROVE  /\ order \in Seq(S) /\ Len(order) = Cardinality(S)
         /\ \A n \in S : \E i \in 1 .. Len(order) : order[i] = n
         /\ \A i, j \in 1 .. Len(order) : order[i] = order[j] => i = j
<1>1. IsFiniteSet(S) /\ Cardinality(S) \in Nat
  BY TreeAssumption, FS_Subset, FS_CardinalityType
<1>2. order \in [1 .. Cardinality(S) -> S] /\ \A n \in S : \E i \in DOMAIN order : order[i] = n
  BY DEF Orders
<1>3. order \in Seq(S) /\ Len(order) = Cardinality(S)
  BY <1>1, <1>2
<1>4. Cardinality(1 .. Cardinality(S)) = Cardinality(S) /\ IsFiniteSet(1 .. Cardinality(S))
  BY <1>1, FS_Interval
<1>5. order \in Surjection(1 .. Cardinality(S), S)
  BY <1>2 DEF Surjection
<1>6. order \in Injection(1 .. Cardinality(S), S)
  BY <1>4, <1>5, FS_SurjSameCardinalityImpliesInj
<1>7. \A i, j \in 1 .. Cardinality(S) : order[i] = order[j] => i = j
  BY <1>6 DEF Injection, IsInjective
<1> QED
  BY <1>2, <1>3, <1>7

\* The first k entries of an order come on the stack, above what was there.
Pushed(order, k) ==
  /\ stack' \in Seq(Elements)
  /\ Len(stack') = Len(stack) + k
  /\ \A i \in 1 .. Len(stack) : stack'[i] = stack[i]
  /\ \A i \in 1 .. k : stack'[Len(stack) + i] = Entry(order[i], elem.depth + 1)

\* What the stack is after the first k entries of a directory were pushed.
LEMMA PushedFacts ==
  ASSUME TypeOK, elem.depth >= 0, NEW S \in SUBSET Nodes, NEW order \in Seq(S),
         NEW k \in 0 .. Len(order), PushAll(SubSeq(order, 1, k))
  PROVE  Pushed(order, k)
<1> DEFINE part == SubSeq(order, 1, k)
           new  == [i \in DOMAIN part |-> Entry(part[i], elem.depth + 1)]
<1>1. part \in Seq(S) /\ Len(part) = k /\ \A i \in 1 .. k : part[i] = order[i]
  BY SubSeqProperties
<1>2. DOMAIN part = 1 .. k
  BY <1>1
<1>3. ASSUME NEW n \in Nodes PROVE Entry(n, elem.depth + 1) \in Elements
  BY DEF TypeOK, Entry, Elements
<1>4. new \in Seq(Elements) /\ Len(new) = k
         /\ \A i \in 1 .. k : new[i] = Entry(order[i], elem.depth + 1)
  <2>1. \A i \in 1 .. k : part[i] \in Nodes
    BY <1>1
  <2>2. new \in [1 .. k -> Elements]
    BY <1>2, <1>3, <2>1
  <2>3. k \in Nat
    BY <1>1, LenProperties
  <2>4. new \in Seq(Elements) /\ Len(new) = k
    <3> HIDE DEF new
    <3> QED
      BY <2>2, <2>3
  <2>5. \A i \in 1 .. k : new[i] = Entry(order[i], elem.depth + 1)
    BY <1>1, <1>2
  <2> QED
    BY <2>4, <2>5
<1>5. stack' = stack \o new
  BY DEF PushAll
<1>6. stack \in Seq(Elements)
  BY DEF TypeOK
<1> HIDE DEF new, part
<1>7. /\ stack \o new \in Seq(Elements)
      /\ Len(stack \o new) = Len(stack) + k
      /\ \A i \in 1 .. Len(stack) + k : (stack \o new)[i] =
           IF i <= Len(stack) THEN stack[i] ELSE new[i - Len(stack)]
  BY <1>4, <1>6, ConcatProperties
<1>8. \A i \in 1 .. k : /\ Len(stack) + i \in 1 .. Len(stack) + k
                        /\ ~(Len(stack) + i <= Len(stack))
                        /\ (Len(stack) + i) - Len(stack) = i
  BY <1>6
<1> QED
  BY <1>4, <1>5, <1>6, <1>7, <1>8 DEF Pushed

-------------------------------------------------------------------------------
(* Types and the bottom of the stack *)

\* ftw() starts at Root with its copy on the stack.
LEMMA TypesInit == Init => TypeOK /\ BottomInv
<1> SUFFICES ASSUME Init PROVE TypeOK /\ BottomInv
  OBVIOUS
<1>1. FullPath \in Elements
  BY TreeFacts DEF FullPath, Elements
<1>2. stack \in Seq(Elements) /\ Len(stack) = 1 /\ stack[1] = FullPath /\ stack # <<>>
  BY <1>1 DEF Init
<1>3. TypeOK
  <2>1. /\ parent \in [Nodes -> Dirs] /\ exists \subseteq Nodes /\ moves \in 0 .. MaxMoves
        /\ cwd \in Dirs /\ elem \in Elements /\ dp \in Dirs
    BY <1>1, TreeFacts, DirWalkAssumption DEF Init, Dirs
  <2>2. stats \in [Kinds -> Nat] /\ visits \in [Nodes -> Nat]
    BY DEF Init
  <2>3. /\ pc \in {"lstat", "opendir", "chdir", "readdir", "pop", "printStat", "done", "crash"}
        /\ complete \subseteq Dirs /\ refused \subseteq Nodes /\ astray \in BOOLEAN
    BY DEF Init
  <2> QED
    BY <1>2, <2>1, <2>2, <2>3 DEF TypeOK
<1>4. BottomInv
  BY <1>2 DEF Init, BottomInv, Naming, Opening
<1> QED
  BY <1>3, <1>4

\* The calls that leave the stack alone, and what others do to the tree.
LEMMA PlainTypes ==
  ASSUME TypeOK, BottomInv,
         \/ GoUp \/ GoUpFails \/ LstatFails \/ OpendirFails \/ ChdirFails \/ PrintStat
         \/ \E n \in Nodes : Lstat(n) \/ Opendir(n) \/ Remove(n)
         \/ \E n \in Movable, d \in Dirs : Move(n, d)
         \/ UNCHANGED vars
  PROVE  TypeOK' /\ BottomInv'
<1> USE DEF treeVars, reportVars, walkVars
<1>1. CASE GoUp \/ GoUpFails \/ LstatFails \/ OpendirFails \/ ChdirFails
  <2>1. /\ UNCHANGED <<treeVars, stack, elem, dp, stats, visits, complete>>
        /\ pc' = "pop" /\ pc \in {"lstat", "opendir", "chdir"}
        /\ cwd' = cwd \/ cwd' = parent[cwd]
        /\ refused' = refused \/ refused' = refused \cup Lookup(elem)
        /\ astray' = astray \/ astray' = TRUE
    BY <1>1 DEF GoUp, GoUpFails, LstatFails, OpendirFails, ChdirFails, Fail
  <2>2. cwd' \in Dirs
    BY <2>1 DEF TypeOK, Dirs
  <2>3. refused' \subseteq Nodes /\ astray' \in BOOLEAN
    <3>1. Lookup(elem) \subseteq Nodes
      BY DEF TypeOK, Lookup
    <3> QED
      BY <2>1, <3>1 DEF TypeOK
  <2> QED
    BY <2>1, <2>2, <2>3 DEF TypeOK, BottomInv, Naming, Opening
<1>2. CASE PrintStat
  BY <1>2 DEF PrintStat, TypeOK, BottomInv, Naming, Opening
<1>3. ASSUME NEW n \in Nodes, Lstat(n) PROVE TypeOK' /\ BottomInv'
  <2>1. /\ UNCHANGED <<treeVars, cwd, stack, elem, dp, complete, refused, astray>>
        /\ pc = "lstat" /\ elem.depth >= 0 /\ pc' \in {"opendir", "pop"}
    BY <1>3 DEF Lstat, Report
  <2>2. visits' \in [Nodes -> Nat] /\ stats' \in [Kinds -> Nat]
    <3>1. /\ visits' = [visits EXCEPT ![n] = visits[n] + 1]
          /\ stats' = [stats EXCEPT ![KindOf[n]] = stats[KindOf[n]] + 1]
      BY <1>3 DEF Lstat, Report
    <3>2. KindOf[n] \in Kinds /\ visits \in [Nodes -> Nat] /\ stats \in [Kinds -> Nat]
      BY DirWalkAssumption DEF TypeOK
    <3> QED
      BY <3>1, <3>2
  <2> QED
    BY <2>1, <2>2 DEF TypeOK, BottomInv, Naming, Opening
<1>4. ASSUME NEW n \in Nodes, Opendir(n) PROVE TypeOK' /\ BottomInv'
  BY <1>4 DEF Opendir, TypeOK, BottomInv, Naming, Opening
<1>5. ASSUME NEW n \in Nodes, Remove(n) PROVE TypeOK' /\ BottomInv'
  BY <1>5 DEF Remove, TypeOK, BottomInv, Naming, Opening
<1>6. ASSUME NEW n \in Movable, NEW d \in Dirs, Move(n, d) PROVE TypeOK' /\ BottomInv'
  <2>1. /\ UNCHANGED <<exists, walkVars>> /\ moves' = moves + 1 /\ moves < MaxMoves
        /\ parent' = [parent EXCEPT ![n] = d]
    BY <1>6 DEF Move
  <2>2. moves' \in 0 .. MaxMoves /\ parent' \in [Nodes -> Dirs]
    BY <2>1, DirWalkAssumption DEF TypeOK
  <2> QED
    BY <2>1, <2>2 DEF TypeOK, BottomInv, Naming, Opening
<1>7. CASE UNCHANGED vars
  BY <1>7 DEF vars, TypeOK, BottomInv, Naming, Opening
<1> QED
  BY <1>1, <1>2, <1>3, <1>4, <1>5, <1>6, <1>7

\* chdir() puts the way back on the stack.
LEMMA ChdirTypes ==
  ASSUME TypeOK, BottomInv, NEW n \in Nodes, Chdir(n)
  PROVE  TypeOK' /\ BottomInv'
<1>1. /\ pc = "chdir" /\ pc' = "readdir" /\ cwd' = n /\ n \in Dirs
      /\ stack' = Append(stack, UpMarker(n))
      /\ UNCHANGED <<parent, exists, moves, elem, dp, stats, visits, complete, refused, astray>>
  BY DEF Chdir, treeVars, reportVars
<1>2. UpMarker(n) \in Elements /\ UpMarker(n).depth = -1
  BY <1>1 DEF UpMarker, Elements
<1>3. /\ stack' \in Seq(Elements) /\ Len(stack') = Len(stack) + 1
      /\ \A i \in 1 .. Len(stack) : stack'[i] = stack[i]
      /\ stack'[Len(stack) + 1] = UpMarker(n)
  BY <1>1, <1>2, AppendProperties DEF TypeOK
<1>4. TypeOK'
  BY <1>1, <1>3 DEF TypeOK
<1>5. BottomInv'
  <2>1. stack[1] = FullPath /\ Len(stack) \in Nat /\ Len(stack) > 0
    BY <1>1 DEF BottomInv, Naming, TypeOK
  <2>2. stack' # <<>> /\ stack'[1] = FullPath
    BY <1>3, <2>1
  <2>3. \A i \in 2 .. Len(stack') : stack'[i].depth # 0
    BY <1>2, <1>3, <2>1 DEF BottomInv
  <2>4. elem'.depth >= 0
    BY <1>1 DEF BottomInv, Opening
  <2> QED
    BY <1>1, <2>2, <2>3, <2>4 DEF BottomInv, Naming, Opening
<1> QED
  BY <1>4, <1>5

\* What a step of readdir() does, whether it reaches the end or not.
LEMMA ReaddirPushes ==
  ASSUME TypeOK, BottomInv, Readdir \/ ReaddirFails
  PROVE  /\ pc = "readdir" /\ pc' = "pop" /\ elem.depth >= 0
         /\ UNCHANGED <<parent, exists, moves, cwd, elem, dp, stats, visits, refused, astray>>
         /\ Children(dp) \in SUBSET Nodes
         /\ \E order \in Orders(Children(dp)) : \E k \in 0 .. Len(order) :
              /\ Pushed(order, k)
              /\ \/ complete' = complete
                 \/ k = Len(order) /\ complete' = complete \cup {dp}
<1>1. /\ pc = "readdir" /\ pc' = "pop" /\ elem.depth >= 0
      /\ UNCHANGED <<parent, exists, moves, cwd, elem, dp, stats, visits, refused, astray>>
      /\ Children(dp) \in SUBSET Nodes
  BY DEF Readdir, ReaddirFails, BottomInv, Opening, treeVars, reportVars, Children, TypeOK
<1>2. CASE Readdir
  <2>1. PICK order \in Orders(Children(dp)) : PushAll(order)
    BY <1>2 DEF Readdir
  <2>2. order \in Seq(Children(dp))
    BY <1>1, OrderFacts
  <2>3. SubSeq(order, 1, Len(order)) = order /\ Len(order) \in 0 .. Len(order)
    BY <2>2, SubSeqFull
  <2>4. Pushed(order, Len(order))
    BY <1>1, <2>1, <2>2, <2>3, PushedFacts
  <2> QED
    BY <1>1, <1>2, <2>3, <2>4 DEF Readdir
<1>3. CASE ReaddirFails
  <2>1. PICK order \in Orders(Children(dp)) :
          \E n \in 0 .. Len(order) - 1 : PushAll(SubSeq(order, 1, n))
    BY <1>3 DEF ReaddirFails
  <2>2. PICK k \in 0 .. Len(order) - 1 : PushAll(SubSeq(order, 1, k))
    BY <2>1
  <2>3. order \in Seq(Children(dp))
    BY <1>1, OrderFacts
  <2>4. k \in 0 .. Len(order)
    BY <2>3
  <2>5. Pushed(order, k)
    BY <1>1, <2>2, <2>3, <2>4, PushedFacts
  <2> QED
    BY <1>1, <1>3, <2>4, <2>5 DEF ReaddirFails, reportVars
<1> QED
  BY <1>2, <1>3

\* readdir() pushes elements above the first one, and leaves a walker that goes on.
LEMMA ReaddirTypes ==
  ASSUME TypeOK, BottomInv, Readdir \/ ReaddirFails
  PROVE  TypeOK' /\ BottomInv'
<1>1. /\ pc = "readdir" /\ pc' = "pop" /\ elem.depth >= 0
      /\ UNCHANGED <<parent, exists, moves, cwd, elem, dp, stats, visits, refused, astray>>
      /\ Children(dp) \in SUBSET Nodes
  BY ReaddirPushes
<1>2. PICK order \in Orders(Children(dp)) : \E n \in 0 .. Len(order) :
        /\ Pushed(order, n)
        /\ \/ complete' = complete
           \/ n = Len(order) /\ complete' = complete \cup {dp}
  BY ReaddirPushes
<1>3. PICK k \in 0 .. Len(order) :
        /\ Pushed(order, k)
        /\ \/ complete' = complete
           \/ k = Len(order) /\ complete' = complete \cup {dp}
  BY <1>2
<1>4. order \in Seq(Children(dp)) /\ Len(order) \in Nat
  BY <1>1, OrderFacts
<1>5. TypeOK'
  BY <1>1, <1>3 DEF TypeOK, Pushed
<1>6. Len(stack) \in Nat /\ Len(stack) > 0 /\ stack[1] = FullPath
  BY <1>1 DEF BottomInv, TypeOK
<1>7. stack' # <<>> /\ stack'[1] = FullPath
  BY <1>3, <1>4, <1>6 DEF Pushed
<1>8. \A i \in 2 .. Len(stack') : stack'[i].depth # 0
  <2> SUFFICES ASSUME NEW i \in 2 .. Len(stack') PROVE stack'[i].depth # 0
    OBVIOUS
  <2>1. CASE i <= Len(stack)
    <3>1. i \in 2 .. Len(stack) /\ i \in 1 .. Len(stack)
      BY <1>6, <2>1
    <3> QED
      BY <1>3, <3>1 DEF Pushed, BottomInv
  <2>2. CASE i > Len(stack)
    <3>1. i - Len(stack) \in 1 .. k /\ i = Len(stack) + (i - Len(stack))
      BY <1>3, <1>4, <1>6, <2>2 DEF Pushed
    <3>2. stack'[i] = Entry(order[i - Len(stack)], elem.depth + 1)
      BY <1>3, <3>1 DEF Pushed
    <3>3. stack'[i].depth = elem.depth + 1
      BY <3>2 DEF Entry
    <3> QED
      BY <1>1, <3>3 DEF TypeOK, Elements
  <2> QED
    BY <1>3, <1>4, <1>6, <2>1, <2>2 DEF Pushed
<1> QED
  BY <1>1, <1>5, <1>7, <1>8 DEF BottomInv, Naming, Opening

\* pop() of the top element: all but it stay.
LEMMA PopFacts ==
  ASSUME TypeOK, BottomInv, Pop
  PROVE  /\ Len(stack) \in Nat /\ Len(stack) > 0
         /\ elem' = stack[Len(stack)] /\ elem' \in Elements
         /\ stack' \in Seq(Elements) /\ Len(stack') = Len(stack) - 1
         /\ \A i \in 1 .. Len(stack) - 1 : stack'[i] = stack[i]
<1>1. stack \in Seq(Elements) /\ stack # <<>>
  BY DEF Pop, TypeOK, BottomInv
<1>2. Len(stack) \in Nat /\ Len(stack) > 0 /\ \A i \in 1 .. Len(stack) : stack[i] \in Elements
  BY <1>1
<1>3. elem' = stack[Len(stack)] /\ stack' = SubSeq(stack, 1, Len(stack) - 1)
  BY DEF Pop
<1>4. /\ stack' \in Seq(Elements) /\ Len(stack') = Len(stack) - 1
      /\ \A i \in 1 .. Len(stack) - 1 : stack'[i] = stack[i]
  <2>1. Len(stack) - 1 \in Nat /\ \A i \in 1 .. Len(stack) - 1 : stack[i] \in Elements
    BY <1>2
  <2> DEFINE n == Len(stack) - 1
  <2> HIDE DEF n
  <2>2. n \in Nat /\ \A i \in 1 .. n : stack[i] \in Elements
    BY <2>1 DEF n
  <2>3. /\ SubSeq(stack, 1, n) \in Seq(Elements)
        /\ Len(SubSeq(stack, 1, n)) = IF 1 <= n THEN n - 1 + 1 ELSE 0
        /\ \A i \in 1 .. n - 1 + 1 : SubSeq(stack, 1, n)[i] = stack[1 + i - 1]
    BY <2>2, SubSeqProperties
  <2>4. Len(SubSeq(stack, 1, n)) = n /\ \A i \in 1 .. n : SubSeq(stack, 1, n)[i] = stack[i]
    BY <2>2, <2>3
  <2> QED
    BY <1>3, <2>3, <2>4 DEF n
<1> QED
  BY <1>2, <1>3, <1>4

\* pop() takes FullPath last, and then the walk is over.
LEMMA PopTypes ==
  ASSUME TypeOK, BottomInv, Pop
  PROVE  TypeOK' /\ BottomInv'
<1>1. /\ pc = "pop" /\ pc' = (IF Len(stack) = 1 THEN "printStat" ELSE "lstat")
      /\ UNCHANGED <<parent, exists, moves, cwd, dp, stats, visits, complete, refused, astray>>
  BY DEF Pop, treeVars, reportVars
<1>2. TypeOK'
  BY <1>1, PopFacts DEF TypeOK
<1>3. CASE Len(stack) = 1
  <2>1. stack' \in Seq(Elements) /\ Len(stack') = 0
    BY <1>3, PopFacts
  <2>2. stack' = <<>>
    BY <2>1, EmptySeq
  <2> QED
    BY <1>1, <1>2, <1>3, <2>1, <2>2 DEF BottomInv, Naming, Opening
<1>4. CASE Len(stack) # 1
  <2>1. Len(stack) - 1 \in Nat /\ Len(stack) - 1 > 0 /\ Len(stack') = Len(stack) - 1
    BY <1>4, PopFacts
  <2>2. stack' # <<>> /\ stack'[1] = stack[1] /\ stack[1] = FullPath
    BY <1>1, <2>1, PopFacts DEF BottomInv
  <2>3. \A i \in 2 .. Len(stack') : stack'[i] = stack[i] /\ i \in 2 .. Len(stack)
    BY <2>1, PopFacts
  <2>4. pc' = "lstat" /\ \A i \in 2 .. Len(stack') : stack'[i].depth # 0
    BY <1>1, <1>4, <2>3 DEF BottomInv
  <2> QED
    BY <1>2, <2>2, <2>4 DEF BottomInv, Naming, Opening
<1> QED
  BY <1>2, <1>3, <1>4

\* Every step keeps the types, and the first element at the bottom.
LEMMA TypesStep == TypeOK /\ BottomInv /\ [Next]_vars => TypeOK' /\ BottomInv'
BY PlainTypes, ChdirTypes, ReaddirTypes, PopTypes DEF Next, Walk, Ended

-------------------------------------------------------------------------------
(* printStat() *)

\* At first nothing has been counted, and the first lstat() is to come.
LEMMA CrashInit == Init => CrashInv
BY DEF Init, CrashInv, Uncounted, Kinds

\* The first thing that is counted is Root.
LEMMA CrashStep ==
  ASSUME TypeOK, BottomInv, CrashInv, [Next]_vars
  PROVE  CrashInv'
<1> USE DEF treeVars, reportVars, walkVars
<1>1. ASSUME NEW n \in Nodes, Lstat(n) PROVE CrashInv'
  <2>1. KindOf[n] \in Kinds /\ stats' = [stats EXCEPT ![KindOf[n]] = @ + 1] /\ stats \in [Kinds -> Nat]
    BY <1>1, DirWalkAssumption DEF Lstat, Report, TypeOK
  <2>2. stats'[KindOf[n]] # 0
    BY <2>1
  <2> QED
    BY <1>1, <2>1, <2>2 DEF CrashInv, Uncounted, Lstat
<1>2. CASE PrintStat
  BY <1>2 DEF PrintStat, CrashInv, Uncounted
<1>3. ASSUME Uncounted, LstatFails PROVE CrashInv'
  <2>1. pc = "lstat" /\ elem = FullPath /\ stack = <<FullPath>>
    BY <1>3 DEF CrashInv, LstatFails
  <2>2. Root \notin exists' \/ Root \in refused'
    BY <1>3, <2>1 DEF LstatFails, Lookup
  <2> QED
    BY <1>3, <2>1, <2>2 DEF CrashInv, LstatFails, Fail, Uncounted
<1>4. ASSUME Uncounted, Pop PROVE CrashInv'
  <2>1. (Root \notin exists \/ Root \in refused) /\ Len(stack) = 1
    BY <1>4 DEF CrashInv, Pop
  <2> QED
    BY <1>4, <2>1 DEF CrashInv, Pop, Uncounted
<1>5. ASSUME NEW n \in Nodes, Remove(n) PROVE CrashInv'
  BY <1>5 DEF Remove, CrashInv, Uncounted
<1>6. ASSUME NEW n \in Movable, NEW d \in Dirs, Move(n, d) PROVE CrashInv'
  BY <1>6 DEF Move, CrashInv, Uncounted
<1>7. CASE UNCHANGED vars
  BY <1>7 DEF vars, CrashInv, Uncounted
<1>8. ASSUME Uncounted PROVE ~GoUp /\ ~GoUpFails /\ pc \notin {"opendir", "chdir", "readdir"}
  BY <1>8 DEF CrashInv, GoUp, GoUpFails, FullPath
<1>9. ASSUME NEW n \in Nodes, Opendir(n) \/ Chdir(n) PROVE CrashInv'
  <2>1. ~Uncounted
    BY <1>8, <1>9 DEF Opendir, Chdir
  <2> QED
    BY <1>9, <2>1 DEF Opendir, Chdir, CrashInv, Uncounted
<1>10. CASE GoUp \/ GoUpFails \/ OpendirFails \/ ChdirFails \/ Readdir \/ ReaddirFails
  <2>1. ~Uncounted
    BY <1>8, <1>10 DEF OpendirFails, ChdirFails, Readdir, ReaddirFails
  <2>2. stats' = stats /\ pc' = "pop"
    BY <1>10 DEF GoUp, GoUpFails, OpendirFails, ChdirFails, Fail, Readdir, ReaddirFails
  <2> QED
    BY <2>1, <2>2 DEF CrashInv, Uncounted
<1>11. ASSUME ~Uncounted, LstatFails \/ Pop PROVE CrashInv'
  <2>1. stats' = stats /\ pc' # "crash"
    BY <1>11 DEF LstatFails, Fail, Pop
  <2> QED
    BY <1>11, <2>1 DEF CrashInv, Uncounted
<1> QED
  BY <1>1, <1>2, <1>3, <1>4, <1>5, <1>6, <1>7, <1>9, <1>10, <1>11 DEF Next, Walk, Ended

-------------------------------------------------------------------------------
(* The walker's place *)

\* Every move is counted.
LEMMA MoveCounts ==
  ASSUME TypeOK, NEW n \in Movable, NEW d \in Dirs, Move(n, d)
  PROVE  moves' # 0
<1>1. moves' = moves + 1
  BY Zenon DEF Move
<1>2. moves \in Nat
  BY DirWalkAssumption DEF TypeOK
<1> QED
  BY <1>1, <1>2

\* A directory that was moved, or a ".." that has failed, leaves no trace to follow:
\* only steps that keep the walker on its track are looked at.
LEMMA OnTrackStep ==
  ASSUME TypeOK, [Next]_vars, OnTrack'
  PROVE  /\ OnTrack /\ UNCHANGED parent /\ Level' = Level
         /\ ~GoUpFails /\ ~\E n \in Movable, d \in Dirs : Move(n, d)
<1>1. ASSUME NEW n \in Movable, NEW d \in Dirs, Move(n, d) PROVE FALSE
  BY <1>1, MoveCounts DEF OnTrack
<1>2. ~GoUpFails
  BY DEF GoUpFails, OnTrack
<1>3. CASE ~\E n \in Movable, d \in Dirs : Move(n, d)
  <2>1. UNCHANGED <<parent, moves, astray>>
    BY <1>2, <1>3
    DEF Next, Walk, Ended, vars, treeVars, reportVars, walkVars, GoUp, LstatFails, OpendirFails,
        ChdirFails, Lstat, Report, Opendir, Chdir, Readdir, ReaddirFails, Pop, PrintStat, Remove
  <2> QED
    BY <1>2, <1>3, <2>1, LevelSame DEF OnTrack
<1> QED
  BY <1>1, <1>3

\* The walk begins with the only element that has no other under it.
LEMMA PlaceInit == Init => PlaceInv
<1> SUFFICES ASSUME Init PROVE PlaceInv
  OBVIOUS
<1>1. Len(stack) = 1 /\ parent = ParentOf /\ pc = "lstat" /\ elem = FullPath
  BY DEF Init
<1> QED
  BY <1>1 DEF PlaceInv, Naming

\* The calls that leave the stack alone.
LEMMA PlainPlace ==
  ASSUME TypeOK, BottomInv, PlaceInv, UNCHANGED <<parent, stack>>, Level' = Level,
         \/ GoUp \/ LstatFails \/ OpendirFails \/ ChdirFails \/ PrintStat
         \/ \E n \in Nodes : Lstat(n) \/ Opendir(n) \/ Remove(n)
         \/ UNCHANGED vars
  PROVE  PlaceInv'
<1> USE DEF treeVars, reportVars, walkVars
<1>1. UNCHANGED <<parent, stack>> /\ Level' = Level
  OBVIOUS
<1>2. /\ parent' = ParentOf
      /\ \A j \in 2 .. Len(stack') : Deep(stack'[j], Level') /\ stack'[j - 1].dir = After(stack'[j])
  BY <1>1 DEF PlaceInv
<1>3. CASE pc' \in {"printStat", "done", "crash"}
  BY <1>2, <1>3 DEF PlaceInv, Naming
<1>4. CASE GoUp
  <2>1. pc = "lstat" /\ elem.depth < 0 /\ cwd' = parent[cwd] /\ pc' = "pop"
    BY <1>4 DEF GoUp
  <2>2. elem # FullPath
    BY <2>1 DEF FullPath
  <2>3. cwd' = After(elem) /\ stack[Len(stack)].dir = After(elem)
    BY <2>1, <2>2 DEF PlaceInv, Naming, After
  <2> QED
    BY <1>2, <2>1, <2>3 DEF PlaceInv, Naming
<1>5. CASE LstatFails \/ OpendirFails \/ ChdirFails
  <2>1. Naming /\ elem.depth >= 0 /\ cwd' = cwd /\ pc' = "pop"
    BY <1>5 DEF LstatFails, OpendirFails, ChdirFails, Fail, Naming, Opening, BottomInv
  <2>2. Len(stack) > 1 => cwd = stack[Len(stack)].dir
    BY <2>1 DEF PlaceInv, After, TypeOK, Elements
  <2> QED
    BY <1>2, <2>1, <2>2 DEF PlaceInv, Naming
<1>6. ASSUME NEW n \in Nodes, Lstat(n) PROVE PlaceInv'
  <2>1. /\ pc = "lstat" /\ elem.depth >= 0 /\ pc' \in {"opendir", "pop"}
        /\ UNCHANGED <<cwd, elem, dp>>
    BY <1>6 DEF Lstat
  <2>2. Len(stack) > 1 => cwd = stack[Len(stack)].dir
    BY <2>1 DEF PlaceInv, Naming, After, TypeOK, Elements
  <2> QED
    BY <1>1, <1>2, <2>1, <2>2 DEF PlaceInv, Naming
<1>7. ASSUME NEW n \in Nodes, Opendir(n) PROVE PlaceInv'
  <2>1. /\ pc = "opendir" /\ pc' = "chdir" /\ dp' = n /\ n \in Lookup(elem)
        /\ UNCHANGED <<cwd, elem>>
    BY <1>7 DEF Opendir
  <2>2. Named(elem, n)
    BY <2>1, LookupFinds DEF Naming, Opening, BottomInv
  <2>3. Named(elem', dp')
    BY <2>1, <2>2
  <2>4. Named(elem, dp)' <=> Named(elem', dp')
    BY DEF Named, FullPath
  <2> QED
    BY <1>1, <1>2, <2>1, <2>3, <2>4 DEF PlaceInv, Naming
<1>8. CASE UNCHANGED <<cwd, stack, elem, pc, dp>>
  <2>1. Named(elem, dp)' <=> Named(elem, dp)
    BY <1>8 DEF Named, FullPath
  <2> QED
    BY <1>1, <1>2, <1>8, <2>1 DEF PlaceInv, Naming
<1>9. ASSUME NEW n \in Nodes, Remove(n) PROVE PlaceInv'
  BY <1>8, <1>9 DEF Remove
<1> QED
  BY <1>3, <1>4, <1>5, <1>6, <1>7, <1>8, <1>9 DEF PrintStat, vars

\* chdir() enters the directory that was opened, and its way back leads to where
\* its own name was.
LEMMA ChdirPlace ==
  ASSUME TypeOK, BottomInv, PlaceInv, UNCHANGED parent, Level' = Level,
         NEW n \in Nodes, Chdir(n)
  PROVE  PlaceInv'
<1>1. /\ pc = "chdir" /\ pc' = "readdir" /\ cwd' = n /\ n \in Lookup(elem)
      /\ stack' = Append(stack, UpMarker(n)) /\ UNCHANGED <<elem, dp>>
  BY DEF Chdir
<1>2. Naming /\ elem.depth >= 0 /\ elem \in Elements
  BY <1>1 DEF Naming, Opening, BottomInv, TypeOK
<1>3. Named(elem, n) /\ n # Top
  BY <1>1, <1>2, LookupFinds
<1>4. n = dp
  BY <1>1, <1>2, <1>3, OneNode DEF PlaceInv
<1>5. parent = ParentOf /\ Len(stack) \in Nat /\ Len(stack) > 0 /\ stack[1] = FullPath
  BY <1>1 DEF PlaceInv, BottomInv, Naming, TypeOK
<1>6. elem.depth = Level[n] /\ stack[Len(stack)].dir = parent[n]
  <2>1. CASE elem = FullPath
    <3>1. n = Root /\ Len(stack) = 1
      BY <1>2, <1>3, <2>1 DEF Named, PlaceInv
    <3> QED
      BY <1>5, <2>1, <3>1, LevelFacts, TreeFacts DEF FullPath
  <2>2. CASE elem # FullPath
    <3>1. elem.dir = ParentOf[n] /\ elem.depth = Level[elem.dir] + 1
      BY <1>2, <1>3, <2>2 DEF Named, PlaceInv, Deep
    <3>2. stack[Len(stack)].dir = elem.dir
      BY <1>2, <2>2 DEF PlaceInv, After, Elements
    <3> QED
      BY <1>3, <1>5, <3>1, <3>2, LevelFacts
  <2> QED
    BY <2>1, <2>2
<1>7. /\ Len(stack') = Len(stack) + 1
      /\ \A j \in 1 .. Len(stack) : stack'[j] = stack[j]
      /\ stack'[Len(stack) + 1] = UpMarker(n)
  <2>1. UpMarker(n) \in Elements
    BY <1>1, DirWalkAssumption DEF UpMarker, Elements, Chdir
  <2> QED
    BY <1>1, <2>1, AppendProperties DEF TypeOK
<1>8. ASSUME NEW j \in 2 .. Len(stack')
      PROVE  Deep(stack'[j], Level) /\ stack'[j - 1].dir = After(stack'[j])
  <2>1. CASE j <= Len(stack)
    <3>1. j \in 2 .. Len(stack) /\ stack'[j] = stack[j] /\ stack'[j - 1] = stack[j - 1]
      BY <1>5, <1>7, <2>1
    <3> QED
      BY <3>1 DEF PlaceInv
  <2>2. CASE j = Len(stack) + 1
    <3>1. stack'[j] = UpMarker(n) /\ stack'[j - 1] = stack[Len(stack)]
      BY <1>5, <1>7, <2>2
    <3>2. UpMarker(n).dir = n /\ UpMarker(n).depth < 0 /\ ~(UpMarker(n).depth >= 0)
      BY DEF UpMarker
    <3> QED
      BY <1>5, <1>6, <3>1, <3>2 DEF Deep, After
  <2> QED
    BY <1>5, <1>7, <2>1, <2>2
<1>9. Named(elem, dp)'
  BY <1>1, <1>3, <1>4 DEF Named, FullPath
<1>10. stack'[Len(stack')].dir = n
  BY <1>5, <1>7 DEF UpMarker
<1>11. \A j \in 2 .. Len(stack') : Deep(stack'[j], Level') /\ stack'[j - 1].dir = After(stack'[j])
  BY <1>8
<1> QED
  BY <1>1, <1>4, <1>5, <1>6, <1>7, <1>9, <1>10, <1>11 DEF PlaceInv, Naming

\* readdir() puts names of the directory in which the walker is above the way out
\* of this directory.
LEMMA ReaddirPlace ==
  ASSUME TypeOK, BottomInv, PlaceInv, Level' = Level, Readdir \/ ReaddirFails
  PROVE  PlaceInv'
<1>1. /\ pc = "readdir" /\ pc' = "pop" /\ elem.depth >= 0
      /\ UNCHANGED <<parent, exists, moves, cwd, elem, dp, stats, visits, refused, astray>>
      /\ Children(dp) \in SUBSET Nodes
  BY ReaddirPushes
<1>2. PICK order \in Orders(Children(dp)) : \E n \in 0 .. Len(order) : Pushed(order, n)
  BY ReaddirPushes
<1>3. PICK k \in 0 .. Len(order) : Pushed(order, k)
  BY <1>2
<1>4. order \in Seq(Children(dp)) /\ Len(order) \in Nat
  BY <1>1, OrderFacts
<1>5. /\ cwd = dp /\ elem.depth = Level[dp] /\ parent = ParentOf
      /\ Len(stack) \in Nat /\ Len(stack) > 1 /\ stack[Len(stack)].dir = dp
  BY <1>1 DEF PlaceInv, TypeOK
<1>6. ASSUME NEW m \in 1 .. k
      PROVE  /\ stack'[Len(stack) + m].dir = dp /\ Deep(stack'[Len(stack) + m], Level)
             /\ After(stack'[Len(stack) + m]) = dp
  <2>1. stack'[Len(stack) + m] = Entry(order[m], elem.depth + 1)
    BY <1>3 DEF Pushed
  <2>2. order[m] \in Children(dp)
    BY <1>4
  <2>3. parent[order[m]] = dp
    BY <2>2 DEF Children
  <2>4. stack'[Len(stack) + m].dir = dp /\ stack'[Len(stack) + m].depth = Level[dp] + 1
    BY <1>5, <2>1, <2>3 DEF Entry
  <2>5. ~(stack'[Len(stack) + m].depth < 0)
    BY <1>1, <2>1 DEF Entry, TypeOK, Elements
  <2> QED
    BY <2>4, <2>5 DEF Deep, After
<1>7. ASSUME NEW j \in 2 .. Len(stack')
      PROVE  Deep(stack'[j], Level) /\ stack'[j - 1].dir = After(stack'[j])
  <2>1. CASE j <= Len(stack)
    <3>1. j \in 2 .. Len(stack) /\ stack'[j] = stack[j] /\ stack'[j - 1] = stack[j - 1]
      BY <1>3, <1>5, <2>1 DEF Pushed
    <3> QED
      BY <3>1 DEF PlaceInv
  <2>2. CASE j > Len(stack)
    <3>1. j - Len(stack) \in 1 .. k /\ j = Len(stack) + (j - Len(stack))
      BY <1>3, <1>4, <1>5, <2>2 DEF Pushed
    <3>2. Deep(stack'[j], Level) /\ After(stack'[j]) = dp
      BY <1>6, <3>1
    <3>3. stack'[j - 1].dir = dp
      <4>1. CASE j - 1 = Len(stack)
        BY <1>3, <1>5, <4>1 DEF Pushed
      <4>2. CASE j - 1 # Len(stack)
        <5>1. j - 1 - Len(stack) \in 1 .. k /\ j - 1 = Len(stack) + (j - 1 - Len(stack))
          BY <1>4, <1>5, <3>1, <4>2
        <5> QED
          BY <1>6, <5>1
      <4> QED
        BY <4>1, <4>2
    <3> QED
      BY <3>2, <3>3
  <2> QED
    BY <1>3, <1>4, <1>5, <2>1, <2>2 DEF Pushed
<1>8. stack'[Len(stack')].dir = dp
  <2>1. CASE k = 0
    BY <1>3, <1>5, <2>1 DEF Pushed
  <2>2. CASE k # 0
    <3>1. k \in 1 .. k /\ Len(stack') = Len(stack) + k
      BY <1>3, <1>4, <2>2 DEF Pushed
    <3> QED
      BY <1>6, <3>1
  <2> QED
    BY <2>1, <2>2
<1>9. \A j \in 2 .. Len(stack') : Deep(stack'[j], Level') /\ stack'[j - 1].dir = After(stack'[j])
  BY <1>7
<1> QED
  BY <1>1, <1>5, <1>8, <1>9 DEF PlaceInv, Naming

\* pop() works on an element where the one above it has left the walker.
LEMMA PopPlace ==
  ASSUME TypeOK, BottomInv, PlaceInv, UNCHANGED parent, Level' = Level, Pop
  PROVE  PlaceInv'
<1>1. /\ pc = "pop" /\ pc' = (IF Len(stack) = 1 THEN "printStat" ELSE "lstat")
      /\ UNCHANGED <<cwd, dp>>
  BY DEF Pop
<1>2. Len(stack) \in Nat /\ Len(stack) > 0 /\ elem' = stack[Len(stack)]
      /\ Len(stack') = Len(stack) - 1
      /\ \A j \in 1 .. Len(stack) - 1 : stack'[j] = stack[j]
  BY PopFacts
<1>3. \A j \in 2 .. Len(stack') : Deep(stack'[j], Level') /\ stack'[j - 1].dir = After(stack'[j])
  <2> SUFFICES ASSUME NEW j \in 2 .. Len(stack')
               PROVE  Deep(stack'[j], Level') /\ stack'[j - 1].dir = After(stack'[j])
    OBVIOUS
  <2>1. j \in 2 .. Len(stack) /\ stack'[j] = stack[j] /\ stack'[j - 1] = stack[j - 1]
    BY <1>2
  <2> QED
    BY <2>1 DEF PlaceInv
<1>4. CASE Len(stack) = 1
  BY <1>1, <1>3, <1>4 DEF PlaceInv, Naming
<1>5. CASE Len(stack) # 1
  <2>1. Len(stack) \in 2 .. Len(stack) /\ Len(stack) > 1 /\ Len(stack) - 1 \in 1 .. Len(stack) - 1
    BY <1>2, <1>5
  <2>2. cwd = elem'.dir /\ Deep(elem', Level) /\ stack[Len(stack) - 1].dir = After(elem')
    BY <1>1, <1>2, <2>1 DEF PlaceInv
  <2>3. elem'.depth # 0 /\ elem' # FullPath
    BY <1>2, <2>1 DEF BottomInv, FullPath
  <2>4. stack'[Len(stack')].dir = After(elem')
    BY <1>2, <2>1, <2>2
  <2> QED
    BY <1>1, <1>3, <1>5, <2>2, <2>3, <2>4 DEF PlaceInv, Naming
<1> QED
  BY <1>4, <1>5

\* Every step on the track keeps each element over the directory it belongs to.
LEMMA PlaceStep ==
  ASSUME TypeOK, BottomInv, PlaceInv, [Next]_vars, OnTrack'
  PROVE  PlaceInv'
<1>1. UNCHANGED parent /\ Level' = Level
  BY OnTrackStep
<1>2. ~GoUpFails /\ ~\E n \in Movable, d \in Dirs : Move(n, d)
  BY OnTrackStep
<1>3. CASE \/ GoUp \/ LstatFails \/ OpendirFails \/ ChdirFails \/ PrintStat
           \/ \E n \in Nodes : Lstat(n) \/ Opendir(n) \/ Remove(n)
           \/ UNCHANGED vars
  <2>1. UNCHANGED stack
    BY <1>3 DEF GoUp, LstatFails, OpendirFails, ChdirFails, PrintStat, Lstat, Opendir, Remove,
                vars, walkVars
  <2> QED
    BY <1>1, <1>3, <2>1, PlainPlace
<1> QED
  BY <1>1, <1>2, <1>3, ChdirPlace, ReaddirPlace, PopPlace DEF Next, Walk, Ended

-------------------------------------------------------------------------------
(* What has been visited *)

\* The conditions on one node.
VisitOf(n) ==
  /\ visits[n] \in {0, 1}
  /\ Here(n) \/ Stacked(n) => visits[n] = 0
  /\ Here(n) => ~Stacked(n)
  /\ \A j, l \in 2 .. Len(stack) : Named(stack[j], n) /\ Named(stack[l], n) => j = l
  /\ n # Root /\ (Here(n) \/ Stacked(n) \/ visits[n] = 1) =>
       visits[ParentOf[n]] = 1 /\ ~(Opening /\ Named(elem, ParentOf[n]))
  /\ Opening /\ Named(elem, n) => visits[n] = 1

Remembered(n) ==
  ParentOf[n] \in complete => visits[n] = 1 \/ n \in refused \/ Here(n) \/ Stacked(n)

\* VisitInv is a fact on each node.
LEMMA VisitParts ==
  VisitInv <=> /\ visits[Top] = 0
               /\ \A n \in Nodes : VisitOf(n)
               /\ \A n \in exists \ {Top} : Remembered(n)
BY DEF VisitInv, VisitOf, Remembered

\* The same of the next state.
LEMMA VisitPartsNext ==
  VisitInv' <=> /\ visits'[Top] = 0
                /\ \A n \in Nodes : VisitOf(n)'
                /\ \A n \in exists' \ {Top} : Remembered(n)'
BY DEF VisitInv, VisitOf, Remembered

\* FullPath is the first element only, and the stack has no name of Root: a name
\* in Top would have depth 0.
LEMMA RootNotStacked ==
  ASSUME TypeOK, BottomInv, PlaceInv
  PROVE  /\ ~Stacked(Root)
         /\ Naming /\ elem # FullPath => ~Named(elem, Root)
<1>1. Level[Top] = -1 /\ ParentOf[Root] = Top
  BY LevelFacts, TreeFacts DEF PlaceInv
<1>2. ASSUME NEW e \in Elements, Deep(e, Level), e.depth # 0, e # FullPath PROVE ~Named(e, Root)
  <2> SUFFICES ASSUME Named(e, Root) PROVE FALSE
    OBVIOUS
  <2>1. e.depth > 0 /\ e.dir = Top /\ e.depth \in Int
    BY <1>1, <1>2 DEF Named, Elements
  <2>2. e.depth = -1 + 1
    BY <1>1, <1>2, <2>1 DEF Deep
  <2> QED
    BY <2>1, <2>2
<1>3. ASSUME NEW j \in 2 .. Len(stack) PROVE ~Named(stack[j], Root)
  <2>1. Deep(stack[j], Level) /\ stack[j].depth # 0 /\ stack[j] \in Elements
    BY DEF PlaceInv, BottomInv, TypeOK
  <2>2. stack[j] # FullPath
    BY <2>1 DEF FullPath
  <2> QED
    BY <1>2, <2>1, <2>2
<1>4. ASSUME Naming, elem # FullPath PROVE ~Named(elem, Root)
  BY <1>2, <1>4 DEF PlaceInv, TypeOK
<1> QED
  BY <1>3, <1>4 DEF Stacked

\* At first only Root is to be visited.
LEMMA VisitInit == Init => VisitInv
<1> SUFFICES ASSUME Init PROVE VisitInv
  OBVIOUS
<1>1. /\ Len(stack) = 1 /\ pc = "lstat" /\ elem = FullPath /\ complete = {} /\ exists = Nodes
      /\ \A n \in Nodes : visits[n] = 0
  BY DEF Init
<1>2. \A n \in Nodes : ~Stacked(n) /\ (Here(n) => n = Root) /\ ~Opening
  BY <1>1 DEF Stacked, Here, Named, Opening
<1> QED
  BY <1>1, <1>2, TreeFacts DEF VisitInv, Dirs

\* Steps that leave the stack and the name in elem alone, and visit and read
\* nothing: after a failed lstat() the name is gone, or its node was refused.
LEMMA SameVisits ==
  ASSUME VisitInv, UNCHANGED <<stack, elem, visits, complete>>, exists' \subseteq exists,
         refused \subseteq refused', pc' = "lstat" => pc = "lstat", Opening' => Opening,
         \A n \in exists' : Here(n) => pc' = "lstat" \/ n \in refused'
  PROVE  VisitInv'
<1>1. \A n : Named(elem, n)' <=> Named(elem, n)
  BY DEF Named, FullPath
<1>2. \A n : Stacked(n)' <=> Stacked(n)
  BY DEF Stacked, Named, FullPath
<1>3. /\ \A n : Here(n)' => Here(n)
      /\ \A n \in exists' : Here(n) => Here(n)' \/ n \in refused'
  BY <1>1 DEF Here
<1>4. ASSUME NEW n \in Nodes PROVE VisitOf(n)'
  <2>1. VisitOf(n)
    BY VisitParts
  <2>2. \A j, l \in 2 .. Len(stack) : Named(stack[j], n) /\ Named(stack[l], n) => j = l
    BY <2>1 DEF VisitOf
  <2>3. (\A j, l \in 2 .. Len(stack) : Named(stack[j], n) /\ Named(stack[l], n) => j = l)'
    BY <2>2 DEF Named, FullPath
  <2> QED
    BY <1>1, <1>2, <1>3, <2>1, <2>3 DEF VisitOf
<1>5. ASSUME NEW n \in exists' \ {Top} PROVE Remembered(n)'
  <2>1. n \in exists \ {Top} /\ Remembered(n)
    BY VisitParts
  <2> QED
    BY <1>2, <1>3, <2>1 DEF Remembered
<1>6. visits'[Top] = 0
  BY DEF VisitInv
<1> QED
  BY <1>4, <1>5, <1>6, VisitPartsNext

\* The calls that neither visit nor read nor move a name, and removals by others.
LEMMA PlainVisits ==
  ASSUME TypeOK, BottomInv, PlaceInv, VisitInv,
         \/ GoUp \/ LstatFails \/ OpendirFails \/ ChdirFails \/ PrintStat
         \/ \E n \in Nodes : Opendir(n) \/ Remove(n)
         \/ UNCHANGED vars
  PROVE  VisitInv'
<1> USE DEF treeVars, reportVars, walkVars
<1>1. CASE GoUp
  <2>1. pc = "lstat" /\ elem.depth < 0 /\ pc' = "pop"
        /\ UNCHANGED <<stack, elem, visits, complete, exists, refused>>
    BY <1>1 DEF GoUp
  <2>2. \A n : ~Here(n)
    BY <2>1 DEF Here, Named, FullPath, TypeOK, Elements
  <2> QED
    BY <2>1, <2>2, SameVisits DEF Opening
<1>2. CASE LstatFails
  <2>1. pc = "lstat" /\ elem.depth >= 0 /\ pc' = "pop"
        /\ refused' = refused \cup Lookup(elem)
        /\ UNCHANGED <<stack, elem, visits, complete, exists>>
    BY <1>2 DEF LstatFails, Fail
  <2>2. \A n \in exists : Here(n) => n \in refused'
    BY <2>1, LookupFinds DEF Here, Naming
  <2> QED
    BY <2>1, <2>2, SameVisits DEF Opening
<1>3. CASE OpendirFails \/ ChdirFails \/ PrintStat
  <2>1. pc # "lstat" /\ pc' \notin {"lstat", "opendir", "chdir", "readdir"}
        /\ UNCHANGED <<stack, elem, visits, complete, exists, refused>>
    BY <1>3 DEF OpendirFails, ChdirFails, PrintStat, Fail
  <2> QED
    BY <2>1, SameVisits DEF Opening, Here
<1>4. ASSUME NEW n \in Nodes, Opendir(n) PROVE VisitInv'
  <2>1. pc = "opendir" /\ pc' = "chdir" /\ UNCHANGED <<stack, elem, visits, complete, exists, refused>>
    BY <1>4 DEF Opendir
  <2> QED
    BY <2>1, SameVisits DEF Opening, Here
<1>5. ASSUME NEW n \in Nodes, Remove(n) PROVE VisitInv'
  <2>1. exists' \subseteq exists /\ UNCHANGED <<stack, elem, visits, complete, pc, refused>>
    BY <1>5 DEF Remove
  <2> QED
    BY <2>1, SameVisits DEF Opening, Here
<1>6. CASE UNCHANGED vars
  <2>1. UNCHANGED <<stack, elem, visits, complete, pc, exists, refused>>
    BY <1>6 DEF vars
  <2> QED
    BY <2>1, SameVisits DEF Opening, Here
<1> QED
  BY <1>1, <1>2, <1>3, <1>4, <1>5, <1>6

\* lstat() and func(): the node that was next has been visited, and what is in it
\* is still to come.
LEMMA LstatVisits ==
  ASSUME TypeOK, BottomInv, PlaceInv, VisitInv, NEW n \in Nodes, Lstat(n)
  PROVE  VisitInv'
<1>1. /\ pc = "lstat" /\ elem.depth >= 0 /\ pc' \in {"opendir", "pop"} /\ n \in Lookup(elem)
      /\ UNCHANGED <<exists, stack, elem, complete, refused>>
      /\ visits' = [visits EXCEPT ![n] = @ + 1]
  BY DEF Lstat, Report, treeVars, reportVars
<1>2. Here(n) /\ n # Top /\ n \in exists /\ \A m \in Nodes : Here(m) => m = n
  <2>1. Named(elem, n) /\ n # Top /\ n \in exists
    BY <1>1, LookupFinds DEF Naming
  <2>2. \A m : Named(elem, m) => m = n
    BY <2>1, OneNode DEF TypeOK
  <2> QED
    BY <1>1, <2>1, <2>2 DEF Here
<1>3. visits \in [Nodes -> Nat] /\ visits[Top] = 0 /\ \A m \in Nodes : VisitOf(m)
  BY VisitParts DEF TypeOK
<1>4. visits[n] = 0 /\ ~Stacked(n)
  BY <1>2, <1>3 DEF VisitOf
<1>5. visits'[n] = 1 /\ \A m \in Nodes : m # n => visits'[m] = visits[m]
  BY <1>1, <1>3, <1>4
<1>6. /\ \A m : Named(elem, m)' <=> Named(elem, m)
      /\ \A m : Stacked(m)' <=> Stacked(m)
      /\ \A m : ~Here(m)'
  BY <1>1 DEF Named, FullPath, Stacked, Here
<1>7. ASSUME NEW m \in Nodes PROVE VisitOf(m)'
  <2>1. VisitOf(m)
    BY <1>3
  <2>2. visits'[m] \in {0, 1} /\ (Stacked(m) => visits'[m] = 0)
    BY <1>4, <1>5, <2>1 DEF VisitOf
  <2>3. (\A j, l \in 2 .. Len(stack) : Named(stack[j], m) /\ Named(stack[l], m) => j = l)'
    <3>1. \A j, l \in 2 .. Len(stack) : Named(stack[j], m) /\ Named(stack[l], m) => j = l
      BY <2>1 DEF VisitOf
    <3> QED
      BY <1>1, <3>1 DEF Named, FullPath
  <2>4. ASSUME m # Root, Stacked(m) \/ visits'[m] = 1
        PROVE  visits'[ParentOf[m]] = 1 /\ ~Named(elem, ParentOf[m])
    <3>1. Here(m) \/ Stacked(m) \/ visits[m] = 1
      BY <1>2, <1>5, <2>4
    <3>2. visits[ParentOf[m]] = 1
      BY <2>1, <2>4, <3>1 DEF VisitOf
    <3>3. ParentOf[m] \in Nodes
      BY TreeFacts, DirWalkAssumption DEF Dirs
    <3>4. ParentOf[m] # n
      BY <1>4, <3>2
    <3> QED
      BY <1>1, <1>2, <1>5, <3>2, <3>3, <3>4 DEF Here
  <2>5. Named(elem, m) => visits'[m] = 1
    BY <1>1, <1>2, <1>5 DEF Here
  <2> QED
    BY <1>6, <2>2, <2>3, <2>4, <2>5 DEF VisitOf
<1>8. ASSUME NEW m \in exists' \ {Top} PROVE Remembered(m)'
  <2>1. m \in exists \ {Top} /\ m \in Nodes /\ Remembered(m)
    BY <1>1, VisitParts DEF TypeOK
  <2> QED
    BY <1>1, <1>2, <1>5, <1>6, <2>1 DEF Remembered
<1>9. visits'[Top] = 0
  BY <1>2, <1>3, <1>5, DirWalkAssumption
<1> QED
  BY <1>7, <1>8, <1>9, VisitPartsNext

\* The way back is no name of a node.
LEMMA ChdirVisits ==
  ASSUME TypeOK, BottomInv, PlaceInv, VisitInv, NEW n \in Nodes, Chdir(n)
  PROVE  VisitInv'
<1>1. /\ pc = "chdir" /\ pc' = "readdir" /\ n \in Dirs
      /\ stack' = Append(stack, UpMarker(n))
      /\ UNCHANGED <<exists, elem, visits, complete, refused>>
  BY DEF Chdir, treeVars, reportVars
<1>2. UpMarker(n) \in Elements /\ \A m : ~Named(UpMarker(n), m)
  BY <1>1 DEF UpMarker, FullPath, Elements, Named
<1>3. /\ Len(stack) \in Nat /\ Len(stack) > 0 /\ Len(stack') = Len(stack) + 1
      /\ \A j \in 1 .. Len(stack) : stack'[j] = stack[j]
      /\ stack'[Len(stack) + 1] = UpMarker(n)
  BY <1>1, <1>2, AppendProperties DEF TypeOK, BottomInv, Naming
<1>4. ASSUME NEW m, NEW j \in 2 .. Len(stack'), Named(stack'[j], m)
      PROVE  j \in 2 .. Len(stack) /\ Named(stack[j], m)
  <2>1. CASE j = Len(stack) + 1
    BY <1>2, <1>3, <1>4, <2>1
  <2>2. CASE j # Len(stack) + 1
    <3>1. j \in 2 .. Len(stack) /\ stack'[j] = stack[j]
      BY <1>3, <2>2
    <3> QED
      BY <1>4, <3>1
  <2> QED
    BY <2>1, <2>2
<1>5. \A m : Stacked(m)' <=> \E j \in 2 .. Len(stack') : Named(stack'[j], m)
  BY DEF Stacked, Named, FullPath
<1>6. \A m : Stacked(m)' <=> Stacked(m)
  <2>1. \A j \in 2 .. Len(stack) : j \in 2 .. Len(stack') /\ stack'[j] = stack[j]
    BY <1>3
  <2> QED
    BY <1>4, <1>5, <2>1 DEF Stacked
<1>7. /\ \A m : ~Here(m) /\ ~Here(m)'
      /\ \A m : Named(elem, m)' <=> Named(elem, m)
      /\ Opening /\ Opening'
  BY <1>1 DEF Here, Named, FullPath, Opening
<1>8. ASSUME NEW m \in Nodes PROVE VisitOf(m)'
  <2>1. VisitOf(m)
    BY VisitParts
  <2>2. (\A j, l \in 2 .. Len(stack) : Named(stack[j], m) /\ Named(stack[l], m) => j = l)'
    <3>1. \A j, l \in 2 .. Len(stack') : Named(stack'[j], m) /\ Named(stack'[l], m) => j = l
      BY <1>4, <2>1 DEF VisitOf
    <3> QED
      BY <3>1 DEF Named, FullPath
  <2> QED
    BY <1>1, <1>6, <1>7, <2>1, <2>2 DEF VisitOf
<1>9. ASSUME NEW m \in exists' \ {Top} PROVE Remembered(m)'
  <2>1. Remembered(m)
    BY <1>1, VisitParts
  <2> QED
    BY <1>1, <1>6, <1>7, <2>1 DEF Remembered
<1> QED
  BY <1>1, <1>8, <1>9, VisitParts, VisitPartsNext

\* pop() moves a name from the stack to elem.
LEMMA PopVisits ==
  ASSUME TypeOK, BottomInv, PlaceInv, VisitInv, Pop
  PROVE  VisitInv'
<1>1. /\ pc = "pop" /\ pc' = (IF Len(stack) = 1 THEN "printStat" ELSE "lstat")
      /\ UNCHANGED <<exists, visits, complete, refused>>
  BY DEF Pop, treeVars, reportVars
<1>2. Len(stack) \in Nat /\ Len(stack) > 0 /\ elem' = stack[Len(stack)]
      /\ Len(stack') = Len(stack) - 1
      /\ \A j \in 1 .. Len(stack) - 1 : stack'[j] = stack[j]
  BY PopFacts
<1>3. /\ \A m : Here(m)' <=> pc' = "lstat" /\ Named(stack[Len(stack)], m)
      /\ \A m : ~Here(m) /\ ~Opening'
  BY <1>1, <1>2 DEF Here, Named, FullPath, Opening
<1>4. \A m : Stacked(m)' <=> \E j \in 2 .. Len(stack) - 1 : Named(stack[j], m)
  <2>1. \A m : Stacked(m)' <=> \E j \in 2 .. Len(stack') : Named(stack'[j], m)
    BY DEF Stacked, Named, FullPath
  <2>2. \A j \in 2 .. Len(stack') : j \in 1 .. Len(stack) - 1
    BY <1>2
  <2> QED
    BY <1>2, <2>1, <2>2
<1>5. Len(stack) # 1 => Len(stack) \in 2 .. Len(stack) /\ pc' = "lstat"
  BY <1>1, <1>2
<1>6. ASSUME NEW m PROVE Stacked(m) <=> Here(m)' \/ Stacked(m)'
  <2>1. CASE Len(stack) = 1
    <3>1. 2 .. Len(stack) = {} /\ 2 .. Len(stack) - 1 = {} /\ pc' # "lstat"
      BY <1>1, <2>1
    <3> QED
      BY <1>3, <1>4, <3>1 DEF Stacked
  <2>2. CASE Len(stack) # 1
    <3>1. \A j \in 2 .. Len(stack) : j \in 2 .. Len(stack) - 1 \/ j = Len(stack)
      BY <1>2
    <3>2. \A j \in 2 .. Len(stack) - 1 : j \in 2 .. Len(stack)
      BY <1>2
    <3> QED
      BY <1>3, <1>4, <1>5, <2>2, <3>1, <3>2 DEF Stacked
  <2> QED
    BY <2>1, <2>2
<1>7. ASSUME NEW m \in Nodes PROVE VisitOf(m)'
  <2>1. VisitOf(m)
    BY VisitParts
  <2>2. ASSUME Here(m)', Stacked(m)' PROVE FALSE
    <3>1. Named(stack[Len(stack)], m) /\ Len(stack) # 1
      BY <1>1, <1>3, <2>2
    <3>2. PICK j \in 2 .. Len(stack) - 1 : Named(stack[j], m)
      BY <1>4, <2>2
    <3>3. j \in 2 .. Len(stack) /\ j # Len(stack)
      BY <1>2
    <3> QED
      BY <1>5, <2>1, <3>1, <3>2, <3>3 DEF VisitOf
  <2>3. (\A j, l \in 2 .. Len(stack) : Named(stack[j], m) /\ Named(stack[l], m) => j = l)'
    <3>1. \A j, l \in 2 .. Len(stack') : Named(stack'[j], m) /\ Named(stack'[l], m) => j = l
      <4>1. \A j \in 2 .. Len(stack') : j \in 2 .. Len(stack) /\ stack'[j] = stack[j]
        BY <1>2
      <4> QED
        BY <2>1, <4>1 DEF VisitOf
    <3> QED
      BY <3>1 DEF Named, FullPath
  <2> QED
    BY <1>1, <1>3, <1>6, <2>1, <2>2, <2>3 DEF VisitOf
<1>8. ASSUME NEW m \in exists' \ {Top} PROVE Remembered(m)'
  <2>1. Remembered(m)
    BY <1>1, VisitParts
  <2> QED
    BY <1>1, <1>3, <1>6, <2>1 DEF Remembered
<1> QED
  BY <1>1, <1>7, <1>8, VisitParts, VisitPartsNext

\* readdir() names nodes that nobody has named before: their directory has been
\* visited, and it is only now that it is read.
LEMMA ReaddirVisits ==
  ASSUME TypeOK, BottomInv, PlaceInv, VisitInv, Readdir \/ ReaddirFails
  PROVE  VisitInv'
<1>1. /\ pc = "readdir" /\ pc' = "pop" /\ elem.depth >= 0
      /\ UNCHANGED <<parent, exists, moves, cwd, elem, dp, stats, visits, refused, astray>>
      /\ Children(dp) \in SUBSET Nodes
  BY ReaddirPushes
<1>2. PICK order \in Orders(Children(dp)) : \E n \in 0 .. Len(order) :
        /\ Pushed(order, n)
        /\ \/ complete' = complete
           \/ n = Len(order) /\ complete' = complete \cup {dp}
  BY ReaddirPushes
<1>3. PICK k \in 0 .. Len(order) :
        /\ Pushed(order, k)
        /\ \/ complete' = complete
           \/ k = Len(order) /\ complete' = complete \cup {dp}
  BY <1>2
<1>4. /\ order \in Seq(Children(dp)) /\ Len(order) \in Nat
      /\ \A n \in Children(dp) : \E j \in 1 .. Len(order) : order[j] = n
      /\ \A j, l \in 1 .. Len(order) : order[j] = order[l] => j = l
  BY <1>1, OrderFacts
<1>5. /\ Named(elem, dp) /\ parent = ParentOf /\ Len(stack) \in Nat /\ Len(stack) > 1
      /\ dp \in Nodes
  BY <1>1 DEF PlaceInv, TypeOK, Dirs
<1>6. visits[dp] = 1 /\ \A m \in Nodes : VisitOf(m)
  BY <1>1, <1>5, VisitParts DEF VisitOf, Opening
<1>7. dp # Top
  BY <1>6, VisitParts
<1>8. ASSUME NEW m \in Children(dp)
      PROVE  m \in Nodes \ {Top, Root} /\ ParentOf[m] = dp /\ ~Stacked(m) /\ visits[m] = 0
  <2>1. m \in Nodes \ {Top} /\ ParentOf[m] = dp
    BY <1>1, <1>5 DEF Children
  <2>2. m # Root
    BY <1>7, <2>1, TreeFacts
  <2> QED
    BY <1>1, <1>5, <1>6, <2>1, <2>2 DEF VisitOf, Opening
<1>9. ASSUME NEW j \in 1 .. k
      PROVE  /\ order[j] \in Children(dp)
             /\ \A m : Named(stack'[Len(stack) + j], m) <=> m = order[j]
  <2>1. order[j] \in Children(dp)
    BY <1>4
  <2>2. stack'[Len(stack) + j] = Entry(order[j], elem.depth + 1)
    BY <1>3 DEF Pushed
  <2> DEFINE e == Entry(order[j], elem.depth + 1)
  <2>3. e.depth > 0 /\ e.name = NameOf[order[j]] /\ e.dir = ParentOf[order[j]] /\ e # FullPath
    BY <1>1, <1>5 DEF Entry, FullPath, TypeOK, Elements
  <2> HIDE DEF e
  <2>4. Named(e, order[j])
    BY <1>8, <2>1, <2>3 DEF Named
  <2>5. \A m : Named(e, m) => m = order[j]
    BY <1>8, <2>1, <2>3, TreeAssumption DEF Named
  <2> QED
    BY <2>1, <2>2, <2>4, <2>5 DEF e
<1>10. /\ Len(stack') = Len(stack) + k
       /\ \A j \in 2 .. Len(stack) : j \in 2 .. Len(stack') /\ stack'[j] = stack[j]
       /\ \A j \in 1 .. k : Len(stack) + j \in 2 .. Len(stack')
       /\ \A j \in 2 .. Len(stack') :
            \/ j \in 2 .. Len(stack)
            \/ \E l \in 1 .. k : j = Len(stack) + l
  <2>1. ASSUME NEW j \in 2 .. Len(stack) + k, j \notin 2 .. Len(stack)
        PROVE  \E l \in 1 .. k : j = Len(stack) + l
    <3>1. j - Len(stack) \in 1 .. k /\ j = Len(stack) + (j - Len(stack))
      BY <1>4, <1>5, <2>1
    <3> QED
      BY <3>1
  <2> QED
    BY <1>3, <1>4, <1>5, <2>1 DEF Pushed
<1>11. \A m : Stacked(m)' <=> Stacked(m) \/ \E j \in 1 .. k : order[j] = m
  <2>1. \A m : Stacked(m)' <=> \E j \in 2 .. Len(stack') : Named(stack'[j], m)
    BY DEF Stacked, Named, FullPath
  <2> QED
    BY <1>9, <1>10, <2>1 DEF Stacked
<1>12. \A m : ~Here(m) /\ ~Here(m)' /\ ~Opening'
  BY <1>1 DEF Here, Opening
<1>13. ASSUME NEW m \in Nodes PROVE VisitOf(m)'
  <2>1. VisitOf(m)
    BY <1>6
  <2>2. ASSUME NEW j \in 2 .. Len(stack'), NEW l \in 2 .. Len(stack'),
               Named(stack'[j], m), Named(stack'[l], m)
        PROVE  j = l
    <3>1. CASE j \in 2 .. Len(stack) /\ l \in 2 .. Len(stack)
      BY <1>10, <2>1, <2>2, <3>1 DEF VisitOf
    <3>2. ASSUME NEW a \in 2 .. Len(stack), NEW b \in 1 .. k,
                 Named(stack'[a], m), Named(stack'[Len(stack) + b], m)
          PROVE  FALSE
      <4>1. Stacked(m)
        BY <1>10, <3>2 DEF Stacked
      <4> QED
        BY <1>8, <1>9, <3>2, <4>1
    <3>3. ASSUME NEW a \in 1 .. k, NEW b \in 1 .. k, j = Len(stack) + a, l = Len(stack) + b
          PROVE  j = l
      <4>1. m = order[a] /\ m = order[b]
        BY <1>9, <2>2, <3>3
      <4>2. a \in 1 .. Len(order) /\ b \in 1 .. Len(order)
        BY <1>4
      <4> QED
        BY <1>4, <3>3, <4>1, <4>2
    <3> QED
      BY <1>10, <2>2, <3>1, <3>2, <3>3
  <2>3. (\A j, l \in 2 .. Len(stack) : Named(stack[j], m) /\ Named(stack[l], m) => j = l)'
    BY <2>2 DEF Named, FullPath
  <2>4. ASSUME NEW j \in 1 .. k, order[j] = m
        PROVE  visits[m] = 0 /\ m # Root /\ visits[ParentOf[m]] = 1
    BY <1>6, <1>8, <1>9, <2>4
  <2>5. Stacked(m)' => visits[m] = 0 /\ (m # Root => visits[ParentOf[m]] = 1)
    BY <1>11, <2>1, <2>4 DEF VisitOf
  <2> QED
    BY <1>1, <1>12, <2>1, <2>3, <2>5 DEF VisitOf
<1>14. ASSUME NEW m \in exists' \ {Top} PROVE Remembered(m)'
  <2>1. m \in exists \ {Top} /\ Remembered(m)
    BY <1>1, VisitParts
  <2>2. CASE complete' = complete
    BY <1>1, <1>11, <1>12, <2>1, <2>2 DEF Remembered
  <2>3. CASE k = Len(order) /\ complete' = complete \cup {dp}
    <3>1. CASE ParentOf[m] = dp
      <4>1. m \in Children(dp)
        BY <1>5, <2>1, <3>1 DEF Children
      <4> QED
        BY <1>4, <1>11, <2>3, <4>1 DEF Remembered
    <3>2. CASE ParentOf[m] # dp
      BY <1>1, <1>11, <1>12, <2>1, <2>3, <3>2 DEF Remembered
    <3> QED
      BY <3>1, <3>2
  <2> QED
    BY <1>3, <2>2, <2>3
<1> QED
  BY <1>1, <1>13, <1>14, VisitParts, VisitPartsNext

\* Every step on the track keeps what is visited and what is to come apart.
LEMMA VisitStep ==
  ASSUME TypeOK, BottomInv, PlaceInv, VisitInv, [Next]_vars, OnTrack'
  PROVE  VisitInv'
<1>1. ~GoUpFails /\ ~\E n \in Movable, d \in Dirs : Move(n, d)
  BY OnTrackStep
<1> QED
  BY <1>1, PlainVisits, LstatVisits, ChdirVisits, ReaddirVisits, PopVisits DEF Next, Walk, Ended

-------------------------------------------------------------------------------
(* What is proved *)

\* The inductive invariant, for every finite tree and whatever calls fail: the types,
\* the first element at the bottom and the counters always, the walker's place and
\* what it has visited as long as it is on its track.
THEOREM WalkInvariant == Spec => []WalkInv
<1>1. Init => WalkInv
  BY TypesInit, CrashInit, PlaceInit, VisitInit DEF WalkInv
<1>2. WalkInv /\ [Next]_vars => WalkInv'
  <2> SUFFICES ASSUME WalkInv, [Next]_vars PROVE WalkInv'
    OBVIOUS
  <2>1. TypeOK' /\ BottomInv' /\ CrashInv'
    BY TypesStep, CrashStep DEF WalkInv
  <2>2. ASSUME OnTrack' PROVE PlaceInv' /\ VisitInv'
    BY <2>2, OnTrackStep, PlaceStep, VisitStep DEF WalkInv
  <2> QED
    BY <2>1, <2>2 DEF WalkInv
<1> QED
  BY <1>1, <1>2, PTL DEF Spec

\* Type correctness.
THEOREM WalkTypes == Spec => []TypeOK
<1>1. WalkInv => TypeOK
  BY DEF WalkInv
<1> QED
  BY <1>1, WalkInvariant, PTL

\* As long as nobody moves a directory and no chdir("..") fails, every name is looked
\* up where it was read, and every ".." is taken where it was pushed.
THEOREM WalkMeetsDirectories == Spec => []NamesMeetTheirDirectory
<1>1. WalkInv => NamesMeetTheirDirectory
  <2> SUFFICES ASSUME WalkInv, OnTrack, pc = "lstat", elem # FullPath
               PROVE  cwd = elem.dir /\ (elem.depth >= 0 => elem.depth = Level[cwd] + 1)
    BY DEF NamesMeetTheirDirectory
  <2> QED
    BY DEF WalkInv, PlaceInv, Naming, Deep
<1> QED
  BY <1>1, WalkInvariant, PTL

\* On the track no node is visited twice, and what is left of a directory that was
\* read to its end has been visited when the walk is over, or lstat() has failed for
\* it; printStat() divides by zero only if the tree was gone at the start or its own
\* lstat() has failed.
THEOREM WalkVisitsOnce == Spec => []EachVisitedOnce
<1>1. WalkInv => EachVisitedOnce
  <2> SUFFICES ASSUME WalkInv PROVE EachVisitedOnce
    OBVIOUS
  <2>1. OnTrack => \A n \in Nodes : visits[n] <= 1
    BY DEF WalkInv, VisitInv
  <2>2. ASSUME OnTrack, pc = "done", NEW n \in exists \ {Top}, ParentOf[n] \in complete
        PROVE  visits[n] = 1 \/ n \in refused
    <3>1. stack = <<>> /\ ~Here(n)
      BY <2>2 DEF WalkInv, BottomInv, Here
    <3>2. ~Stacked(n)
      BY <3>1 DEF Stacked
    <3> QED
      BY <2>2, <3>1, <3>2 DEF WalkInv, VisitInv
  <2>3. OnTrack => parent = ParentOf
    BY DEF WalkInv, PlaceInv
  <2>4. pc = "crash" => Root \notin exists \/ Root \in refused
    BY DEF WalkInv, CrashInv
  <2> QED
    BY <2>1, <2>2, <2>3, <2>4 DEF EachVisitedOnce
<1> QED
  BY <1>1, WalkInvariant, PTL

====
