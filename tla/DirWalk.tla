-------------------------------- MODULE DirWalk --------------------------------
(***************************************************************************)
(* Laboratory 2: the depth-first walk over a directory tree (lab_02/main.c *)
(* with its list stack lib/stack.c and its counters lib/statistics.c).     *)
(*                                                                         *)
(* The walker keeps no paths: it changes into every directory it lists and *)
(* names the entries relative to it, so a stack element ("..", -1) under   *)
(* the entries of a directory takes it back up.  The tree may be changed   *)
(* by other processes between two system calls, and the calls may fail.    *)
(***************************************************************************)
EXTENDS Integers, Sequences, FiniteSets

CONSTANTS
  Nodes,      \* the files and directories of the tree and the directories around it
  Root,       \* the directory the user names
  Top,        \* the directory that Root is in
  ParentOf,   \* the directory each node is in at first, Top's being Top
  NameOf,     \* the name of each node in its directory
  KindOf,     \* what lstat() says each node is
  Removable,  \* the nodes other processes may remove
  Movable,    \* the nodes other processes may move to another directory
  MaxMoves    \* bound: the number of moves

Kinds == {"reg", "dir", "blk", "chr", "fifo", "slink", "sock"}
Dirs  == {n \in Nodes : KindOf[n] = "dir"}

ASSUME DirWalkAssumption ==
  /\ Root \in Dirs /\ Top \in Nodes /\ Root # Top
  /\ KindOf \in [Nodes -> Kinds]
  /\ ParentOf \in [Nodes -> Dirs]
  /\ ParentOf[Root] = Top /\ ParentOf[Top] = Top
  /\ Removable \subseteq Nodes \ {Top}
  /\ Movable \subseteq Nodes \ {Root, Top}
  /\ MaxMoves \in Nat

\* What every file system keeps: the directories are a tree, in which Top and the
\* nodes below it are all there is, and names are unique in a directory.
ASSUME TreeAssumption ==
  /\ IsFiniteSet(Nodes)
  /\ \A m, n \in Nodes \ {Top} :
       ParentOf[m] = ParentOf[n] /\ NameOf[m] = NameOf[n] => m = n
  /\ \E level \in [Nodes -> -1 .. Cardinality(Nodes) - 2] :
       level[Top] = -1 /\ \A n \in Nodes \ {Top} : level[n] = level[ParentOf[n]] + 1

VARIABLES
  parent, exists, moves,  \* the tree, and how often it was rearranged
  cwd,                    \* the walker's current directory
  stack,                  \* stk, the top element last
  elem,                   \* the element doPath() works on
  pc,                     \* the walker's next call
  dp,                     \* the directory stream doPath() has open
  stats,                  \* the counters
  visits,                 \* how often func() was called for each node
  complete,               \* the directories that were read to their end
  refused,                \* the nodes that lstat() has failed for
  astray                  \* has a chdir("..") failed?

treeVars   == <<parent, exists, moves>>
reportVars == <<stats, visits, complete, refused, astray>>
vars == <<treeVars, cwd, stack, elem, pc, dp, reportVars>>

\* Stack elements.  "dir", the directory an entry was read in or ".." leads out
\* of, is not in the code: the properties compare it with where the walker is.
UpMarker(d)     == [name |-> "..", depth |-> -1, dir |-> d]
FullPath        == [name |-> "/", depth |-> 0, dir |-> Top]
Entry(n, depth) == [name |-> NameOf[n], depth |-> depth, dir |-> parent[n]]

Elements == [name : {NameOf[n] : n \in Nodes} \cup {"..", "/"},
             depth : Nat \cup {-1}, dir : Dirs]

\* The nodes that the name of an element stands for at this moment.
Lookup(e) ==
  IF e = FullPath THEN {Root} \cap exists
  ELSE {n \in exists \ {Top} : parent[n] = cwd /\ NameOf[n] = e.name}

Children(d) == {n \in exists \ {Top} : parent[n] = d}

\* The orders in which readdir() may list a directory.
Orders(S) == {s \in [1 .. Cardinality(S) -> S] : \A n \in S : \E i \in DOMAIN s : s[i] = n}

\* The walker is before a call, in a directory, and has counted what it met.
TypeOK ==
  /\ parent \in [Nodes -> Dirs]
  /\ exists \subseteq Nodes
  /\ moves \in 0 .. MaxMoves
  /\ cwd \in Dirs
  /\ stack \in Seq(Elements)
  /\ elem \in Elements
  /\ pc \in {"lstat", "opendir", "chdir", "readdir", "pop", "printStat", "done", "crash"}
  /\ dp \in Dirs
  /\ stats \in [Kinds -> Nat]
  /\ visits \in [Nodes -> Nat]
  /\ complete \subseteq Dirs
  /\ refused \subseteq Nodes
  /\ astray \in BOOLEAN

\* ftw() after chdir(pathName), getcwd() and the first push.  elem is the node
\* that was pushed and the stack holds a copy of it: the loop ends when that
\* copy is popped, and never walks it again.
Init ==
  /\ parent = ParentOf
  /\ exists = Nodes
  /\ moves = 0
  /\ cwd = Root
  /\ stack = <<FullPath>>
  /\ elem = FullPath
  /\ pc = "lstat"
  /\ dp = Top
  /\ stats = [k \in Kinds |-> 0]
  /\ visits = [n \in Nodes |-> 0]
  /\ complete = {}
  /\ refused = {}
  /\ astray = FALSE

\* func() and one of the counters.
Report(n) ==
  /\ visits' = [visits EXCEPT ![n] = @ + 1]
  /\ stats' = [stats EXCEPT ![KindOf[n]] = @ + 1]
  /\ UNCHANGED <<complete, refused, astray>>

\* A system call failed and doPath() returns.
Fail == pc' = "pop"

-------------------------------------------------------------------------------
(* doPath(), one action per system call *)

\* depth < 0: chdir("..").
GoUp ==
  /\ pc = "lstat"
  /\ elem.depth < 0
  /\ cwd' = parent[cwd]
  /\ pc' = "pop"
  /\ UNCHANGED <<treeVars, stack, elem, dp, reportVars>>

\* Nobody looks at the result of chdir(".."): the walker goes on where it is.
GoUpFails ==
  /\ pc = "lstat"
  /\ elem.depth < 0
  /\ astray' = TRUE
  /\ pc' = "pop"
  /\ UNCHANGED <<treeVars, cwd, stack, elem, dp, stats, visits, complete, refused>>

\* lstat() of a name that is gone, or that it fails for.
LstatFails ==
  /\ pc = "lstat"
  /\ elem.depth >= 0
  /\ refused' = refused \cup Lookup(elem)
  /\ Fail
  /\ UNCHANGED <<treeVars, cwd, stack, elem, dp, stats, visits, complete, astray>>

\* lstat(), then func() for whatever it is, and the counter of its kind.
Lstat(n) ==
  /\ pc = "lstat"
  /\ elem.depth >= 0
  /\ n \in Lookup(elem)
  /\ Report(n)
  /\ pc' = IF n \in Dirs THEN "opendir" ELSE "pop"
  /\ UNCHANGED <<treeVars, cwd, stack, elem, dp>>

\* opendir() of a directory that is gone or may not be read.
OpendirFails ==
  /\ pc = "opendir"
  /\ Fail
  /\ UNCHANGED <<treeVars, cwd, stack, elem, dp, reportVars>>

Opendir(n) ==
  /\ pc = "opendir"
  /\ n \in Lookup(elem) \cap Dirs
  /\ dp' = n
  /\ pc' = "chdir"
  /\ UNCHANGED <<treeVars, cwd, stack, elem, reportVars>>

\* chdir() into a directory that is gone or may not be searched; closedir().
ChdirFails ==
  /\ pc = "chdir"
  /\ Fail
  /\ UNCHANGED <<treeVars, cwd, stack, elem, dp, reportVars>>

\* chdir(), and the push of the way back.
Chdir(n) ==
  /\ pc = "chdir"
  /\ n \in Lookup(elem) \cap Dirs
  /\ cwd' = n
  /\ stack' = Append(stack, UpMarker(n))
  /\ pc' = "readdir"
  /\ UNCHANGED <<treeVars, elem, dp, reportVars>>

\* Every entry that readdir() returns is pushed with the depth below.
PushAll(order) ==
  stack' = stack \o [i \in DOMAIN order |-> Entry(order[i], elem.depth + 1)]

\* Seeded fault of Readdir: the depth is that of the directory itself.
ReaddirSameDepth ==
  /\ pc = "readdir"
  /\ \E order \in Orders(Children(dp)) :
       stack' = stack \o [i \in DOMAIN order |-> Entry(order[i], elem.depth)]
  /\ complete' = complete \cup {dp}
  /\ pc' = "pop"
  /\ UNCHANGED <<treeVars, cwd, elem, dp, stats, visits, refused, astray>>

\* readdir() to the end of the directory; closedir().
Readdir ==
  /\ pc = "readdir"
  /\ \E order \in Orders(Children(dp)) : PushAll(order)
  /\ complete' = complete \cup {dp}
  /\ pc' = "pop"
  /\ UNCHANGED <<treeVars, cwd, elem, dp, stats, visits, refused, astray>>

\* readdir() fails with entries left.
ReaddirFails ==
  /\ pc = "readdir"
  /\ \E order \in Orders(Children(dp)) : \E n \in 0 .. Len(order) - 1 :
       PushAll(SubSeq(order, 1, n))
  /\ pc' = "pop"
  /\ UNCHANGED <<treeVars, cwd, elem, dp, reportVars>>

-------------------------------------------------------------------------------
(* The loop of ftw() *)

\* Seeded fault of Pop: isEmpty() is asked after the element has been worked
\* on, so the copy of the first element is walked as well.
PopThenTest ==
  /\ pc = "pop"
  /\ IF stack = <<>>
     THEN /\ pc' = "printStat"
          /\ UNCHANGED <<elem, stack>>
     ELSE /\ elem' = stack[Len(stack)]
          /\ stack' = SubSeq(stack, 1, Len(stack) - 1)
          /\ pc' = "lstat"
  /\ UNCHANGED <<treeVars, cwd, dp, reportVars>>

\* Seeded fault of Pop: the element is read but stays on the stack.
PopKeeps ==
  /\ pc = "pop"
  /\ elem' = stack[Len(stack)]
  /\ pc' = IF Len(stack) = 1 THEN "printStat" ELSE "lstat"
  /\ UNCHANGED <<stack, treeVars, cwd, dp, reportVars>>

\* elem = pop(&stk), and on with it while the stack is not empty.
Pop ==
  /\ pc = "pop"
  /\ elem' = stack[Len(stack)]
  /\ stack' = SubSeq(stack, 1, Len(stack) - 1)
  /\ pc' = IF Len(stack) = 1 THEN "printStat" ELSE "lstat"
  /\ UNCHANGED <<treeVars, cwd, dp, reportVars>>

\* printStat(): findPercent() divides by the number of all files.
PrintStat ==
  /\ pc = "printStat"
  /\ pc' = IF \A k \in Kinds : stats[k] = 0 THEN "crash" ELSE "done"
  /\ UNCHANGED <<treeVars, cwd, stack, elem, dp, reportVars>>

Walk ==
  \/ GoUp \/ GoUpFails \/ LstatFails \/ OpendirFails \/ ChdirFails
  \/ \E n \in Nodes : Lstat(n) \/ Opendir(n) \/ Chdir(n)
  \/ Readdir \/ ReaddirFails \/ Pop \/ PrintStat

-------------------------------------------------------------------------------
(* Other processes *)

walkVars == <<cwd, stack, elem, pc, dp, reportVars>>

\* unlink(), or rmdir() of an empty directory.
Remove(n) ==
  /\ n \in Removable \cap exists
  /\ Children(n) = {}
  /\ exists' = exists \ {n}
  /\ UNCHANGED <<parent, moves, walkVars>>

\* Is d the directory n or below it?
Below[d \in Nodes, n \in Nodes, steps \in 0 .. Cardinality(Nodes)] ==
  d = n \/ (steps > 0 /\ Below[parent[d], n, steps - 1])

\* rename() into another directory, where the name is free.
Move(n, d) ==
  /\ moves < MaxMoves
  /\ n \in Movable \cap exists
  /\ d \in Dirs \cap exists
  /\ d # parent[n]
  /\ ~Below[d, n, Cardinality(Nodes)]
  /\ \A c \in Children(d) : NameOf[c] # NameOf[n]
  /\ parent' = [parent EXCEPT ![n] = d]
  /\ moves' = moves + 1
  /\ UNCHANGED <<exists, walkVars>>

Ended == pc \in {"done", "crash"} /\ UNCHANGED vars

Next ==
  \/ Walk
  \/ \E n \in Nodes : Remove(n)
  \/ \E n \in Movable, d \in Dirs : Move(n, d)
  \/ Ended

Spec == Init /\ [][Next]_vars

\* The walker is one thread that waits for nobody.
FairSpec == Spec /\ WF_vars(Walk)

-------------------------------------------------------------------------------
(* Properties *)

\* The depth of a node below Root.
Level[n \in Nodes] == IF n = Root THEN 0 ELSE IF n = Top THEN -1 ELSE Level[parent[n]] + 1

\* Nobody has moved a directory, and every ".." has led up.  A walker without paths
\* cannot know where it is otherwise, and the properties that need it say so.
OnTrack == moves = 0 /\ ~astray

\* Every name is looked up in the directory in which it was read, at its true
\* depth, however many directories were entered, failed and left in between; and
\* ".." is taken in the directory it was pushed for.
NamesMeetTheirDirectory ==
  OnTrack /\ pc = "lstat" /\ elem # FullPath =>
    cwd = elem.dir /\ (elem.depth >= 0 => elem.depth = Level[cwd] + 1)

\* func() is never called twice for a file, also when others remove files, and
\* at the end it has been called for everything that still is in a directory
\* read to its end and that lstat() has not failed for, whatever failed elsewhere
\* in the tree.  printStat() divides by zero, having counted nothing, only if the
\* tree was gone before the first lstat() or this one has failed.
EachVisitedOnce ==
  /\ OnTrack => \A n \in Nodes : visits[n] <= 1
  /\ OnTrack /\ pc = "done" => \A n \in exists \ {Top} :
       parent[n] \in complete => visits[n] = 1 \/ n \in refused
  /\ pc = "crash" => Root \notin exists \/ Root \in refused

\* The walk ends, also while directories are moved into and out of its way.
WalkEnds == <>(pc \in {"done", "crash"})

===============================================================================
