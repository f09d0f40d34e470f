-------------------------- MODULE KernelModuleProofs --------------------------
(***************************************************************************)
(* Theorems about the modules that are loaded into the kernel and leave it *)
(* again: the fortune modules for any number of modules that share the     *)
(* names in /proc and any number of users, the file system's module and    *)
(* the modules that export symbols for any number of processes that mount  *)
(* the one and of people who load and remove the others.                   *)
(***************************************************************************)
EXTENDS KernelModules, TLAPS

-------------------------------------------------------------------------------
(* FortuneLoad: who owns each name (Owners), how far a load has come         *)
(* (Progress), and that memory and handlers go with the stage of a module    *)
(* (Buffers, Handlers)                                                       *)

\* A name is registered by a module exactly from its registration to the
\* removal in the clean-up, and the module's pointer says so.
Owners ==
  \A m \in Modules, e \in Names :
    entry[e] = m <=> pc[m] \in Before(e) /\ e \in ptr[m]

\* The pointers of a module that is loading are those of the names it has got.
Progress ==
  \A m \in Modules :
    /\ pc[m] = "mkdir" => ptr[m] = {}
    /\ pc[m] = "create" => ptr[m] = {"dir"}
    /\ pc[m] = "symlink" => ptr[m] = {"dir", "file"}

\* A module has its buffer as long as it is in the kernel.
Buffers == \A m \in Modules : buffer[m] <=> pc[m] # "out"

\* A user is inside a handler only while remove_proc_entry() may still wait.
Handlers ==
  \A u \in Users, m \in Modules :
    inside[u] = m => "file" \in ptr[m] /\ pc[m] \in Before("file") \cup {"drain"}

LoadInv == TypeOK /\ Owners /\ Progress /\ Buffers /\ Handlers

-------------------------------------------------------------------------------
(* FortuneLoad: each part of the invariant is preserved by every step. *)

\* Every step keeps each variable in its range.
LEMMA TypeStep ==
  ASSUME LoadInv, [Next]_vars PROVE TypeOK'
<1> USE LoadAssumption
    DEF LoadInv, TypeOK, Stages, Loading, Unloading, Names, At, Goto
<1>1. ASSUME NEW m \in Modules, Insmod(m) PROVE TypeOK'
  BY <1>1 DEF Insmod
<1>2. ASSUME NEW m \in Modules, MakeDir(m) PROVE TypeOK'
  BY <1>2 DEF MakeDir, Register
<1>3. ASSUME NEW m \in Modules, CreateFile(m) PROVE TypeOK'
  BY <1>3 DEF CreateFile, Register
<1>4. ASSUME NEW m \in Modules, MakeSymlink(m) PROVE TypeOK'
  BY <1>4 DEF MakeSymlink, Register
<1>5. ASSUME NEW m \in Modules, Loaded(m) PROVE TypeOK'
  BY <1>5 DEF Loaded
<1>6. ASSUME NEW m \in Modules, Rmmod(m) PROVE TypeOK'
  BY <1>6 DEF Rmmod
<1>7. ASSUME NEW m \in Modules, RemoveSymlink(m) PROVE TypeOK'
  BY <1>7 DEF RemoveSymlink, Remove
<1>8. ASSUME NEW m \in Modules, RemoveFile(m) PROVE TypeOK'
  BY <1>8 DEF RemoveFile, Remove
<1>9. ASSUME NEW m \in Modules, Drain(m) PROVE TypeOK'
  BY <1>9 DEF Drain
<1>10. ASSUME NEW m \in Modules, RemoveDir(m) PROVE TypeOK'
  BY <1>10 DEF RemoveDir, Remove
<1>11. ASSUME NEW m \in Modules, Vfree(m) PROVE TypeOK'
  BY <1>11 DEF Vfree
<1>12. ASSUME NEW m \in Modules, NEW u \in Users, Enter(u, m) PROVE TypeOK'
  BY <1>12 DEF Enter
<1>13. ASSUME NEW u \in Users, Leave(u) PROVE TypeOK'
  BY <1>13 DEF Leave
<1>14. CASE UNCHANGED vars
  BY <1>14 DEF vars
<1>15. QED
  BY <1>1, <1>2, <1>3, <1>4, <1>5, <1>6, <1>7, <1>8, <1>9, <1>10, <1>11, <1>12,
     <1>13, <1>14
  DEF Next

\* A clean-up removes only what its own module has registered.
LEMMA OwnersStep ==
  ASSUME LoadInv, [Next]_vars PROVE Owners'
<1> USE LoadAssumption
    DEF LoadInv, TypeOK, Stages, Loading, Unloading, Names, At, Goto, Before, Owners, Progress
<1>1. ASSUME NEW m \in Modules, Insmod(m) PROVE Owners'
  BY <1>1 DEF Insmod
<1>2. ASSUME NEW m \in Modules, MakeDir(m) PROVE Owners'
  BY <1>2 DEF MakeDir, Register
<1>3. ASSUME NEW m \in Modules, CreateFile(m) PROVE Owners'
  BY <1>3 DEF CreateFile, Register
<1>4. ASSUME NEW m \in Modules, MakeSymlink(m) PROVE Owners'
  BY <1>4 DEF MakeSymlink, Register
<1>5. ASSUME NEW m \in Modules, Loaded(m) PROVE Owners'
  BY <1>5 DEF Loaded
<1>6. ASSUME NEW m \in Modules, Rmmod(m) PROVE Owners'
  BY <1>6 DEF Rmmod
<1>7. ASSUME NEW m \in Modules, RemoveSymlink(m) PROVE Owners'
  BY <1>7 DEF RemoveSymlink, Remove
<1>8. ASSUME NEW m \in Modules, RemoveFile(m) PROVE Owners'
  BY <1>8 DEF RemoveFile, Remove
<1>9. ASSUME NEW m \in Modules, Drain(m) PROVE Owners'
  BY <1>9 DEF Drain
<1>10. ASSUME NEW m \in Modules, RemoveDir(m) PROVE Owners'
  BY <1>10 DEF RemoveDir, Remove
<1>11. ASSUME NEW m \in Modules, Vfree(m) PROVE Owners'
  BY <1>11 DEF Vfree
<1>12. ASSUME NEW m \in Modules, NEW u \in Users, Enter(u, m) PROVE Owners'
  BY <1>12 DEF Enter
<1>13. ASSUME NEW u \in Users, Leave(u) PROVE Owners'
  BY <1>13 DEF Leave
<1>14. CASE UNCHANGED vars
  BY <1>14 DEF vars
<1>15. QED
  BY <1>1, <1>2, <1>3, <1>4, <1>5, <1>6, <1>7, <1>8, <1>9, <1>10, <1>11, <1>12,
     <1>13, <1>14
  DEF Next

\* The names are registered one after the other.
LEMMA ProgressStep ==
  ASSUME LoadInv, [Next]_vars PROVE Progress'
<1> USE LoadAssumption
    DEF LoadInv, TypeOK, Stages, Loading, Unloading, Names, At, Goto, Progress
<1>1. ASSUME NEW m \in Modules, Insmod(m) PROVE Progress'
  BY <1>1 DEF Insmod
<1>2. ASSUME NEW m \in Modules, MakeDir(m) PROVE Progress'
  BY <1>2 DEF MakeDir, Register
<1>3. ASSUME NEW m \in Modules, CreateFile(m) PROVE Progress'
  BY <1>3 DEF CreateFile, Register
<1>4. ASSUME NEW m \in Modules, MakeSymlink(m) PROVE Progress'
  BY <1>4 DEF MakeSymlink, Register
<1>5. ASSUME NEW m \in Modules, Loaded(m) PROVE Progress'
  BY <1>5 DEF Loaded
<1>6. ASSUME NEW m \in Modules, Rmmod(m) PROVE Progress'
  BY <1>6 DEF Rmmod
<1>7. ASSUME NEW m \in Modules, RemoveSymlink(m) PROVE Progress'
  BY <1>7 DEF RemoveSymlink, Remove
<1>8. ASSUME NEW m \in Modules, RemoveFile(m) PROVE Progress'
  BY <1>8 DEF RemoveFile, Remove
<1>9. ASSUME NEW m \in Modules, Drain(m) PROVE Progress'
  BY <1>9 DEF Drain
<1>10. ASSUME NEW m \in Modules, RemoveDir(m) PROVE Progress'
  BY <1>10 DEF RemoveDir, Remove
<1>11. ASSUME NEW m \in Modules, Vfree(m) PROVE Progress'
  BY <1>11 DEF Vfree
<1>12. ASSUME NEW m \in Modules, NEW u \in Users, Enter(u, m) PROVE Progress'
  BY <1>12 DEF Enter
<1>13. ASSUME NEW u \in Users, Leave(u) PROVE Progress'
  BY <1>13 DEF Leave
<1>14. CASE UNCHANGED vars
  BY <1>14 DEF vars
<1>15. QED
  BY <1>1, <1>2, <1>3, <1>4, <1>5, <1>6, <1>7, <1>8, <1>9, <1>10, <1>11, <1>12,
     <1>13, <1>14
  DEF Next

\* vmalloc() comes first and vfree() last.
LEMMA BuffersStep ==
  ASSUME LoadInv, [Next]_vars PROVE Buffers'
<1> USE LoadAssumption
    DEF LoadInv, TypeOK, Stages, Loading, Unloading, Names, At, Goto, Buffers
<1>1. ASSUME NEW m \in Modules, Insmod(m) PROVE Buffers'
  BY <1>1 DEF Insmod
<1>2. ASSUME NEW m \in Modules, MakeDir(m) PROVE Buffers'
  BY <1>2 DEF MakeDir, Register
<1>3. ASSUME NEW m \in Modules, CreateFile(m) PROVE Buffers'
  BY <1>3 DEF CreateFile, Register
<1>4. ASSUME NEW m \in Modules, MakeSymlink(m) PROVE Buffers'
  BY <1>4 DEF MakeSymlink, Register
<1>5. ASSUME NEW m \in Modules, Loaded(m) PROVE Buffers'
  BY <1>5 DEF Loaded
<1>6. ASSUME NEW m \in Modules, Rmmod(m) PROVE Buffers'
  BY <1>6 DEF Rmmod
<1>7. ASSUME NEW m \in Modules, RemoveSymlink(m) PROVE Buffers'
  BY <1>7 DEF RemoveSymlink, Remove
<1>8. ASSUME NEW m \in Modules, RemoveFile(m) PROVE Buffers'
  BY <1>8 DEF RemoveFile, Remove
<1>9. ASSUME NEW m \in Modules, Drain(m) PROVE Buffers'
  BY <1>9 DEF Drain
<1>10. ASSUME NEW m \in Modules, RemoveDir(m) PROVE Buffers'
  BY <1>10 DEF RemoveDir, Remove
<1>11. ASSUME NEW m \in Modules, Vfree(m) PROVE Buffers'
  BY <1>11 DEF Vfree
<1>12. ASSUME NEW m \in Modules, NEW u \in Users, Enter(u, m) PROVE Buffers'
  BY <1>12 DEF Enter
<1>13. ASSUME NEW u \in Users, Leave(u) PROVE Buffers'
  BY <1>13 DEF Leave
<1>14. CASE UNCHANGED vars
  BY <1>14 DEF vars
<1>15. QED
  BY <1>1, <1>2, <1>3, <1>4, <1>5, <1>6, <1>7, <1>8, <1>9, <1>10, <1>11, <1>12,
     <1>13, <1>14
  DEF Next

\* No handler starts after the name is gone, and drain lets all of them return.
LEMMA HandlersStep ==
  ASSUME LoadInv, [Next]_vars PROVE Handlers'
<1> USE LoadAssumption
    DEF LoadInv, TypeOK, Stages, Loading, Unloading, Names, At, Goto, Before, Owners, Progress, Handlers
<1>1. ASSUME NEW m \in Modules, Insmod(m) PROVE Handlers'
  BY <1>1 DEF Insmod
<1>2. ASSUME NEW m \in Modules, MakeDir(m) PROVE Handlers'
  BY <1>2 DEF MakeDir, Register
<1>3. ASSUME NEW m \in Modules, CreateFile(m) PROVE Handlers'
  BY <1>3 DEF CreateFile, Register
<1>4. ASSUME NEW m \in Modules, MakeSymlink(m) PROVE Handlers'
  BY <1>4 DEF MakeSymlink, Register
<1>5. ASSUME NEW m \in Modules, Loaded(m) PROVE Handlers'
  BY <1>5 DEF Loaded
<1>6. ASSUME NEW m \in Modules, Rmmod(m) PROVE Handlers'
  BY <1>6 DEF Rmmod
<1>7. ASSUME NEW m \in Modules, RemoveSymlink(m) PROVE Handlers'
  BY <1>7 DEF RemoveSymlink, Remove
<1>8. ASSUME NEW m \in Modules, RemoveFile(m) PROVE Handlers'
  BY <1>8 DEF RemoveFile, Remove
<1>9. ASSUME NEW m \in Modules, Drain(m) PROVE Handlers'
  BY <1>9 DEF Drain
<1>10. ASSUME NEW m \in Modules, RemoveDir(m) PROVE Handlers'
  BY <1>10 DEF RemoveDir, Remove
<1>11. ASSUME NEW m \in Modules, Vfree(m) PROVE Handlers'
  BY <1>11 DEF Vfree
<1>12. ASSUME NEW m \in Modules, NEW u \in Users, Enter(u, m) PROVE Handlers'
  BY <1>12 DEF Enter
<1>13. ASSUME NEW u \in Users, Leave(u) PROVE Handlers'
  BY <1>13 DEF Leave
<1>14. CASE UNCHANGED vars
  BY <1>14 DEF vars
<1>15. QED
  BY <1>1, <1>2, <1>3, <1>4, <1>5, <1>6, <1>7, <1>8, <1>9, <1>10, <1>11, <1>12,
     <1>13, <1>14
  DEF Next

-------------------------------------------------------------------------------
(* FortuneLoad: the theorems *)

\* The inductive invariant holds, whichever registrations fail.
THEOREM LoadInvariant == Spec => []LoadInv
<1>1. Init => LoadInv
  BY LoadAssumption
  DEF Init, LoadInv, TypeOK, Stages, Names, Before, Owners, Progress, Buffers, Handlers
<1>2. LoadInv /\ [Next]_vars => LoadInv'
  BY TypeStep, OwnersStep, ProgressStep, BuffersStep, HandlersStep DEF LoadInv
<1>3. QED
  BY <1>1, <1>2, PTL DEF Spec

\* Every module stays at a call of its life.
THEOREM LoadTypeOK == Spec => []TypeOK
<1>1. LoadInv => TypeOK
  BY DEF LoadInv
<1>2. QED
  BY <1>1, LoadInvariant, PTL

\* No module, failed or leaving, takes away a name that another one registered.
THEOREM LoadKeepsItsEntries == Spec => []KeepsItsEntries
<1>1. LoadInv => KeepsItsEntries
  BY LoadAssumption DEF LoadInv, TypeOK, Owners, KeepsItsEntries
<1>2. QED
  BY <1>1, LoadInvariant, PTL

\* Only one module at a time has the directory.
THEOREM LoadOneFortuneModule == Spec => []OneFortuneModule
<1>1. LoadInv => OneFortuneModule
  BY LoadAssumption DEF LoadInv, TypeOK, Owners, Names, OneFortuneModule
<1>2. QED
  BY <1>1, LoadInvariant, PTL

\* A module that is out of the kernel has left no name, memory or user there.
THEOREM LoadNothingLeftBehind == Spec => []NothingLeftBehind
<1>1. LoadInv => NothingLeftBehind
  BY LoadAssumption DEF LoadInv, TypeOK, Owners, Buffers, Handlers, Names, Before, At, NothingLeftBehind
<1>2. QED
  BY <1>1, LoadInvariant, PTL

\* No handler runs without the buffer.
THEOREM LoadHandlersHaveBuffer == Spec => []HandlersHaveBuffer
<1>1. LoadInv => HandlersHaveBuffer
  BY LoadAssumption DEF LoadInv, TypeOK, Buffers, Handlers, Before, HandlersHaveBuffer
<1>2. QED
  BY <1>1, LoadInvariant, PTL

-------------------------------------------------------------------------------
(* FsModule *)

\* What is allocated at each call of myfs_init() and myfs_exit().
Allocated ==
  [stage \in {"out", "cache", "object", "register", "loaded", "free", "destroy", "kfree",
              "unregister"} |->
    (IF stage \in {"out", "unregister"} THEN {} ELSE {"line"})
      \cup (IF stage \in {"out", "unregister", "cache", "kfree"} THEN {} ELSE {"cache"})
      \cup (IF stage \in {"register", "loaded", "free"} THEN {"object"} ELSE {})]

\* The inductive invariant: what is allocated and registered follows from where
\* the module is, and a mount holds it where it is loaded.
FsInv ==
  /\ FsTypeOK
  /\ slab = Allocated[fs]
  /\ registered <=> fs \in {"loaded", "free", "destroy", "kfree", "unregister"}
  /\ (\E u \in Mounters : mount[u] # "no") => fs = "loaded"
  /\ left # {} => refused
  /\ broken => short

\* A step that leaves the module where it is keeps the invariant if it keeps the
\* mounts typed and damages nothing while the module is loaded, or says why.
LEMMA MountStep ==
  ASSUME FsInv, NEW u \in Mounters, NEW stage,
         NEW next \in {"no", "inode", "root", "mounted", "kill"},
         Mounting(u, stage, next), fs = "loaded",
         short' \in BOOLEAN, broken' \in BOOLEAN, broken' => short'
  PROVE  FsInv'
<1>1. FsTypeOK'
  BY DEF FsInv, FsTypeOK, Mounting
<1> QED
  BY <1>1 DEF FsInv, Mounting

\* Every state that myfs_init() and myfs_exit() pass through keeps to the
\* inductive invariant, for any number of mounts.
THEOREM FsInvariant == FsSpec => []FsInv
<1>1. FsInit => FsInv
  BY DEF FsInit, FsInv, FsTypeOK, Allocated
<1>2. FsInv /\ [FsNext]_fsVars => FsInv'
  <2> SUFFICES ASSUME FsInv, [FsNext]_fsVars PROVE FsInv'
    OBVIOUS
  <2>1. CASE AllocLine
    BY <2>1 DEF AllocLine, FsGoes, FsInv, FsTypeOK, Allocated
  <2>2. CASE CreateCache
    BY <2>2 DEF CreateCache, FsGoes, GoesOut, FsInv, FsTypeOK, Allocated
  <2>3. CASE AllocObject
    <3>1. slab = {"line", "cache"} /\ fs = "object"
      BY <2>3 DEF AllocObject, FsGoes, GoesOut, FsInv, Allocated
    <3>2. CASE FsGoes("object", "register", slab \cup {"object"}) /\ UNCHANGED <<left, short, broken>>
      BY <2>3, <3>1, <3>2 DEF AllocObject, FsGoes, FsInv, FsTypeOK, Allocated
    <3>3. CASE GoesOut("object", slab \ {"cache", "line"}) /\ short' = TRUE /\ MayBreak
      <4>1. left' = left /\ slab' = {} /\ fs' = "out"
        BY <3>1, <3>3 DEF GoesOut, FsGoes
      <4>2. broken' \in BOOLEAN
        BY <3>3 DEF MayBreak, FsInv, FsTypeOK
      <4> QED
        BY <2>3, <3>1, <3>3, <4>1, <4>2 DEF AllocObject, FsInv, FsTypeOK, Allocated
    <3> QED
      BY <2>3, <3>2, <3>3 DEF AllocObject
  <2>4. CASE RegisterFs
    <3> USE DEF FsInv, FsTypeOK, FsGoes, GoesOut
    <3>1. CASE FsGoes("register", "loaded", slab) /\ registered' = TRUE /\ UNCHANGED <<left, refused>>
      BY <2>4, <3>1 DEF RegisterFs, Allocated
    <3>2. CASE GoesOut("register", slab) /\ refused' = TRUE /\ UNCHANGED registered
      <4>1. fs = "register" /\ fs' = "out" /\ slab' = {} /\ left' = left \cup slab
        BY <3>2
      <4>2. ~registered /\ ~registered' /\ \A u \in Mounters : mount[u] = "no"
        BY <3>2, <4>1
      <4>3. UNCHANGED <<mount, short, broken>>
        BY <2>4 DEF RegisterFs
      <4> QED
        BY <3>2, <4>1, <4>2, <4>3 DEF Allocated
    <3> QED
      BY <2>4, <3>1, <3>2 DEF RegisterFs
  <2>5. CASE RmmodFs
    BY <2>5 DEF RmmodFs, FsGoes, FsInv, FsTypeOK, Allocated, Referring
  <2>6. CASE ExitFs
    <3> USE DEF FsInv, FsTypeOK
    <3>1. CASE FreeObject
      BY <2>6, <3>1 DEF ExitFs, FreeObject, FsGoes, Allocated
    <3>2. CASE DestroyCache
      BY <2>6, <3>2 DEF ExitFs, DestroyCache, FsGoes, Allocated
    <3>3. CASE FreeLine
      BY <2>6, <3>3 DEF ExitFs, FreeLine, FsGoes, Allocated
    <3>4. CASE UnregisterFs
      BY <2>6, <3>4 DEF ExitFs, UnregisterFs, FsGoes, GoesOut, Allocated
    <3> QED
      BY <2>6, <3>1, <3>2, <3>3, <3>4 DEF ExitFs
  <2>7. ASSUME NEW u \in Mounters,
               MountFs(u) \/ MakeInode(u) \/ MakeRoot(u) \/ Umount(u) \/ KillSuper(u)
        PROVE  FsInv'
    <3>1. PICK stage, next \in {"no", "inode", "root", "mounted", "kill"} :
            Mounting(u, stage, next)
      BY <2>7 DEF MountFs, MakeInode, MakeRoot, Umount, KillSuper
    <3>2. fs = "loaded"
      BY <2>7 DEF MountFs, MakeInode, MakeRoot, Umount, KillSuper, Mounting, FsInv
    <3>3. (broken' = broken /\ short' = short) \/ (short' = TRUE /\ MayBreak)
      <4>1. fs # "out"
        BY <3>2
      <4> QED
        BY <2>7, <4>1, Zenon DEF MountFs, MakeInode, MakeRoot, Umount, KillSuper, NeedsText
    <3>4. short' \in BOOLEAN /\ broken' \in BOOLEAN /\ (broken' => short')
      <4>1. CASE broken' = broken /\ short' = short
        BY <4>1, Zenon DEF FsInv, FsTypeOK
      <4>2. CASE short' = TRUE /\ MayBreak
        <5>1. broken' = broken \/ broken' = TRUE
          BY <4>2, Zenon DEF MayBreak
        <5> QED
          BY <4>2, <5>1, Zenon DEF FsInv, FsTypeOK
      <4> QED
        BY <3>3, <4>1, <4>2
    <3> QED
      BY <3>1, <3>2, <3>4, MountStep
  <2>8. CASE UNCHANGED fsVars
    BY <2>8 DEF fsVars, FsInv, FsTypeOK
  <2> QED
    BY <2>1, <2>2, <2>3, <2>4, <2>5, <2>6, <2>7, <2>8 DEF FsNext
<1> QED
  BY <1>1, <1>2, PTL DEF FsSpec

\* The module leaves memory only when it is refused, and no code of it is run
\* after it has gone, for any number of mounts.
THEOREM FsOnlyKnownDamage == FsSpec => []OnlyKnownDamage
<1>1. FsInv => OnlyKnownDamage
  BY DEF FsInv, FsTypeOK, OnlyKnownDamage
<1> QED
  BY <1>1, FsInvariant, PTL

-------------------------------------------------------------------------------
(* ExportModules *)

Targets == {<<"no", 0>>} \cup {<<"load", n>> : n \in 1 .. 3} \cup {<<"remove", n>> : n \in 1 .. 2}

Are(x, y, z) == md["md1"] = x /\ md["md2"] = y /\ md["md3"] = z

\* Both or none.
Rest == Are("out", "out", "out") \/ Are("live", "live", "out")

\* How far one admin alone has come with a target.
Stage(a) ==
  \/ make[a] = <<"load", 1>> /\ ~asks[a] /\ Rest
  \/ make[a] = <<"load", 1>> /\ asks[a] /\ Are("init", "out", "out")
  \/ make[a] = <<"load", 2>> /\ ~asks[a] /\ Are("live", "out", "out")
  \/ make[a] = <<"load", 2>> /\ asks[a] /\ Are("live", "init", "out")
  \/ make[a] = <<"load", 3>> /\ ~asks[a] /\ Are("live", "live", "out")
  \/ make[a] = <<"load", 3>> /\ asks[a] /\ Are("live", "live", "init")
  \/ make[a] = <<"remove", 1>> /\ ~asks[a] /\ Rest
  \/ make[a] = <<"remove", 1>> /\ asks[a] /\ Are("live", "exit", "out")
  \/ make[a] = <<"remove", 2>> /\ ~asks[a] /\ Are("live", "out", "out")
  \/ make[a] = <<"remove", 2>> /\ asks[a] /\ Are("exit", "out", "out")

\* The inductive invariant: until there is a muddle at most one admin makes a
\* target, and the modules are where the commands so far have brought them.
ExportInv ==
  /\ make \in [Admins -> Targets]
  /\ asks \in [Admins -> BOOLEAN]
  /\ md = [m \in Mds |-> md[m]]
  /\ \A a \in Admins : asks[a] => Makes(a)
  /\ ~muddle =>
       /\ \A a, b \in Admins : Makes(a) /\ Makes(b) => a = b
       /\ (\A a \in Admins : ~Makes(a)) => Rest
       /\ \A a \in Admins : Makes(a) => Stage(a)

\* Which module each command is about, and which command comes next.
LEMMA CommandFacts ==
  ASSUME ExportInv, NEW a \in Admins, Makes(a)
  PROVE  /\ make[a] \in {<<"load", 1>>, <<"load", 2>>, <<"load", 3>>,
                         <<"remove", 1>>, <<"remove", 2>>}
         /\ make[a] = <<"load", 1>> => Named(a) = "md1"
         /\ make[a] = <<"load", 2>> => Named(a) = "md2"
         /\ make[a] = <<"load", 3>> => Named(a) = "md3"
         /\ make[a] = <<"remove", 1>> => Named(a) = "md2"
         /\ make[a] = <<"remove", 2>> => Named(a) = "md1"
         /\ Named(a) \in Mds
<1>1. make[a] \in {<<"load", 1>>, <<"load", 2>>, <<"load", 3>>, <<"remove", 1>>, <<"remove", 2>>}
  BY DEF ExportInv, Makes, Targets
<1>2. CASE make[a] = <<"load", 1>>
  BY <1>2 DEF Named, Commands, Mds
<1>3. CASE make[a] = <<"load", 2>>
  BY <1>3 DEF Named, Commands, Mds
<1>4. CASE make[a] = <<"load", 3>>
  BY <1>4 DEF Named, Commands, Mds
<1>5. CASE make[a] = <<"remove", 1>>
  BY <1>5 DEF Named, Commands, Mds
<1>6. CASE make[a] = <<"remove", 2>>
  BY <1>6 DEF Named, Commands, Mds
<1> QED
  BY <1>1, <1>2, <1>3, <1>4, <1>5, <1>6

\* The command after a command that has gone well.
LEMMA DoneFacts ==
  ASSUME ExportInv, NEW a \in Admins, Makes(a), Done(a)
  PROVE  /\ make' = [make EXCEPT ![a] = make'[a]]
         /\ make[a] = <<"load", 1>> => make'[a] = <<"load", 2>>
         /\ make[a] = <<"load", 2>> => make'[a] = <<"load", 3>>
         /\ make[a] = <<"load", 3>> => make'[a] = <<"no", 0>>
         /\ make[a] = <<"remove", 1>> => make'[a] = <<"remove", 2>>
         /\ make[a] = <<"remove", 2>> => make'[a] = <<"no", 0>>
         /\ make'[a] \in Targets
<1>1. make[a] \in {<<"load", 1>>, <<"load", 2>>, <<"load", 3>>, <<"remove", 1>>, <<"remove", 2>>}
  BY CommandFacts
<1>2. /\ DOMAIN make = Admins
      /\ make'[a] = IF make[a][2] = Len(Commands(make[a][1])) THEN <<"no", 0>>
                                                            ELSE <<make[a][1], make[a][2] + 1>>
      /\ make' = [make EXCEPT ![a] = make'[a]]
  BY DEF Done, ExportInv
<1>3. Len(Commands("load")) = 3 /\ Len(Commands("remove")) = 2
  BY DEF Commands
<1>4. CASE make[a] = <<"load", 1>>
  BY <1>2, <1>3, <1>4 DEF Targets
<1>5. CASE make[a] = <<"load", 2>>
  BY <1>2, <1>3, <1>5 DEF Targets
<1>6. CASE make[a] = <<"load", 3>>
  BY <1>2, <1>3, <1>6 DEF Targets
<1>7. CASE make[a] = <<"remove", 1>>
  BY <1>2, <1>3, <1>7 DEF Targets
<1>8. CASE make[a] = <<"remove", 2>>
  BY <1>2, <1>3, <1>8 DEF Targets
<1> QED
  BY <1>1, <1>2, <1>4, <1>5, <1>6, <1>7, <1>8

\* What a step of an admin who makes a target has to show.
LEMMA CommandStep ==
  ASSUME ExportInv, NEW a \in Admins, Makes(a),
         make' = [make EXCEPT ![a] = make'[a]], make'[a] \in Targets,
         NEW b \in BOOLEAN, asks' = [asks EXCEPT ![a] = b], b => make'[a] # <<"no", 0>>,
         md' = [m \in Mds |-> md'[m]],
         muddle' = muddle,
         ~muddle => IF make'[a] = <<"no", 0>> THEN Rest' ELSE Stage(a)'
  PROVE  ExportInv'
<1>1. \A c \in Admins \ {a} : make'[c] = make[c] /\ asks'[c] = asks[c]
  BY DEF ExportInv
<1>2. asks'[a] = b
  BY DEF ExportInv
<1>3. /\ make' \in [Admins -> Targets]
      /\ asks' \in [Admins -> BOOLEAN]
  BY DEF ExportInv, Targets
<1>4. \A c \in Admins : asks'[c] => make'[c] # <<"no", 0>>
  BY <1>1, <1>2 DEF ExportInv, Makes
<1>5. ASSUME ~muddle'
      PROVE  /\ \A c, d \in Admins : make'[c] # <<"no", 0>> /\ make'[d] # <<"no", 0>> => c = d
             /\ (\A c \in Admins : make'[c] = <<"no", 0>>) => Rest'
             /\ \A c \in Admins : make'[c] # <<"no", 0>> => Stage(c)'
  <2>1. \A c \in Admins \ {a} : make'[c] = <<"no", 0>>
    BY <1>1, <1>5 DEF ExportInv, Makes
  <2>2. make'[a] # <<"no", 0>> => Stage(a)'
    BY <1>5
  <2> QED
    BY <1>5, <2>1, <2>2
<1> QED
  BY <1>3, <1>4, <1>5 DEF ExportInv, Makes, Targets

\* A command that the kernel refuses ends the target.
LEMMA RefusedStep ==
  ASSUME ExportInv, NEW a \in Admins, Makes(a), ~asks[a],
         make' = [make EXCEPT ![a] = <<"no", 0>>], UNCHANGED <<md, asks>>,
         muddle' = muddle, ~muddle => Rest'
  PROVE  ExportInv'
<1>1. /\ make' = [make EXCEPT ![a] = make'[a]] /\ make'[a] \in Targets
      /\ make'[a] = <<"no", 0>> /\ md' = [m \in Mds |-> md'[m]]
      /\ asks' = [asks EXCEPT ![a] = FALSE]
  BY DEF ExportInv, Targets
<1> QED
  BY <1>1, CommandStep

\* A target of one admin alone leaves both modules or none, or is in one of its
\* stages.
THEOREM ExportInvariant == ExportSpec => []ExportInv
<1>1. ExportInit => ExportInv
  BY DEF ExportInit, ExportInv, Targets, Makes, Rest, Are, Mds
<1>2. ExportInv /\ [ExportNext]_exportVars => ExportInv'
  <2> SUFFICES ASSUME ExportInv, [ExportNext]_exportVars PROVE ExportInv'
    OBVIOUS
  <2>1. ASSUME NEW a \in Admins, NEW target \in {"load", "remove"}, Starts(a, target)
        PROVE  ExportInv'
    <3>1. /\ ~Makes(a) /\ UNCHANGED <<md, asks>>
          /\ make' = [make EXCEPT ![a] = <<target, 1>>]
          /\ muddle' = (muddle \/ \E b \in Admins : Makes(b))
      BY <2>1 DEF Starts
    <3>2. /\ make' \in [Admins -> Targets] /\ make'[a] = <<target, 1>>
          /\ \A b \in Admins \ {a} : make'[b] = make[b]
      BY <3>1 DEF ExportInv, Targets
    <3>3. \A b \in Admins : asks'[b] => make'[b] # <<"no", 0>>
      BY <3>1, <3>2 DEF ExportInv, Makes
    <3>4. ASSUME ~muddle'
          PROVE  /\ \A b \in Admins \ {a} : make'[b] = <<"no", 0>>
                 /\ ~asks[a] /\ Rest
      BY <3>1, <3>2, <3>4 DEF ExportInv, Makes
    <3>5. ~muddle' => Stage(a)'
      BY <3>1, <3>2, <3>4 DEF Stage, Rest, Are
    <3> QED
      BY <3>1, <3>2, <3>3, <3>4, <3>5 DEF ExportInv, Makes, Targets
  <2>2. ASSUME NEW a \in Admins, CommandFails(a) PROVE ExportInv'
    <3>1. /\ UNCHANGED <<md, asks>> /\ ~asks[a] /\ muddle'
          /\ make' = [make EXCEPT ![a] = <<"no", 0>>]
      BY <2>2 DEF CommandFails, Stops
    <3>2. /\ make' \in [Admins -> Targets]
          /\ \A b \in Admins \ {a} : make'[b] = make[b]
      BY <3>1 DEF ExportInv, Targets
    <3> QED
      BY <3>1, <3>2 DEF ExportInv, Makes
  <2>3. ASSUME NEW a \in Admins, InsmodMd(a) PROVE ExportInv'
    <3>1. make[a][1] = "load" /\ ~asks[a] /\ muddle' = muddle /\ Makes(a)
      BY <2>3 DEF InsmodMd, Makes
    <3>2. ~muddle => Stage(a)
      BY <3>1 DEF ExportInv
    <3>3. CASE md[Named(a)] = "out" /\ \A n \in Imports(Named(a)) : md[n] = "live"
      <4>1. /\ md' = [md EXCEPT ![Named(a)] = "init"]
            /\ asks' = [asks EXCEPT ![a] = TRUE] /\ make' = make
        BY <2>3, <3>3 DEF InsmodMd
      <4>2. ~muddle => Stage(a)'
        BY <3>1, <3>2, <3>3, <4>1, CommandFacts DEF Stage, Rest, Are, ExportInv, Mds
      <4>3. /\ make' = [make EXCEPT ![a] = make'[a]] /\ make'[a] \in Targets
            /\ make'[a] # <<"no", 0>> /\ md' = [m \in Mds |-> md'[m]]
        BY <3>1, <4>1 DEF ExportInv, Makes
      <4> QED
        BY <3>1, <4>1, <4>2, <4>3, CommandStep
    <3>4. CASE ~(md[Named(a)] = "out" /\ \A n \in Imports(Named(a)) : md[n] = "live")
      <4>1. make' = [make EXCEPT ![a] = <<"no", 0>>] /\ UNCHANGED <<md, asks>>
        BY <2>3, <3>4 DEF InsmodMd, Stops
      <4>2. ~muddle => Rest
        BY <3>1, <3>2, <3>4, CommandFacts DEF Stage, Rest, Are, Imports
      <4>3. ~muddle => Rest'
        BY <4>1, <4>2 DEF Rest, Are
      <4> QED
        BY <3>1, <4>1, <4>3, RefusedStep
    <3> QED
      BY <3>3, <3>4
  <2>4. ASSUME NEW a \in Admins, InitMd(a) PROVE ExportInv'
    <3>1. /\ make[a][1] = "load" /\ asks[a] /\ muddle' = muddle /\ Makes(a)
          /\ asks' = [asks EXCEPT ![a] = FALSE]
      BY <2>4 DEF InitMd, ExportInv
    <3>2. ~muddle => Stage(a)
      BY <3>1 DEF ExportInv
    <3>3. CASE Accepts(Named(a))
      <4>1. md' = [md EXCEPT ![Named(a)] = "live"] /\ Done(a)
        BY <2>4, <3>3 DEF InitMd
      <4>2. /\ make' = [make EXCEPT ![a] = make'[a]] /\ make'[a] \in Targets
            /\ md' = [m \in Mds |-> md'[m]] /\ asks'[a] = FALSE
        BY <3>1, <4>1, DoneFacts DEF ExportInv
      <4>3. ~muddle => make'[a] # <<"no", 0>> /\ Stage(a)'
        BY <3>1, <3>2, <3>3, <4>1, <4>2, CommandFacts, DoneFacts
           DEF Stage, Rest, Are, ExportInv, Mds, Accepts
      <4> QED
        BY <3>1, <4>2, <4>3, CommandStep
    <3>4. CASE ~Accepts(Named(a))
      <4>1. /\ md' = [md EXCEPT ![Named(a)] = "out"]
            /\ make' = [make EXCEPT ![a] = <<"no", 0>>]
        BY <2>4, <3>4 DEF InitMd, Stops
      <4>2. /\ make' = [make EXCEPT ![a] = make'[a]] /\ make'[a] \in Targets
            /\ make'[a] = <<"no", 0>> /\ md' = [m \in Mds |-> md'[m]]
        BY <4>1 DEF ExportInv, Targets
      <4>3. ~muddle => Rest'
        BY <3>1, <3>2, <3>4, <4>1, CommandFacts DEF Stage, Rest, Are, ExportInv, Mds, Accepts
      <4> QED
        BY <3>1, <4>2, <4>3, CommandStep
    <3> QED
      BY <3>3, <3>4
  <2>5. ASSUME NEW a \in Admins, RmmodMd(a) PROVE ExportInv'
    <3>1. make[a][1] = "remove" /\ ~asks[a] /\ muddle' = muddle /\ Makes(a)
      BY <2>5 DEF RmmodMd, Makes
    <3>2. ~muddle => Stage(a)
      BY <3>1 DEF ExportInv
    <3>3. CASE md[Named(a)] = "live" /\ \A n \in Mds : Named(a) \in Imports(n) => md[n] = "out"
      <4>1. /\ md' = [md EXCEPT ![Named(a)] = "exit"]
            /\ asks' = [asks EXCEPT ![a] = TRUE] /\ make' = make
        BY <2>5, <3>3 DEF RmmodMd
      <4>2. ~muddle => Stage(a)'
        BY <3>1, <3>2, <3>3, <4>1, CommandFacts DEF Stage, Rest, Are, ExportInv, Mds
      <4>3. /\ make' = [make EXCEPT ![a] = make'[a]] /\ make'[a] \in Targets
            /\ make'[a] # <<"no", 0>> /\ md' = [m \in Mds |-> md'[m]]
        BY <3>1, <4>1 DEF ExportInv, Makes
      <4> QED
        BY <3>1, <4>1, <4>2, <4>3, CommandStep
    <3>4. CASE ~(md[Named(a)] = "live" /\ \A n \in Mds : Named(a) \in Imports(n) => md[n] = "out")
      <4>1. make' = [make EXCEPT ![a] = <<"no", 0>>] /\ UNCHANGED <<md, asks>>
        BY <2>5, <3>4 DEF RmmodMd, Stops
      <4>2. ~muddle => Rest
        BY <3>1, <3>2, <3>4, CommandFacts DEF Stage, Rest, Are, Imports, Mds
      <4>3. ~muddle => Rest'
        BY <4>1, <4>2 DEF Rest, Are
      <4> QED
        BY <3>1, <4>1, <4>3, RefusedStep
    <3> QED
      BY <3>3, <3>4
  <2>6. ASSUME NEW a \in Admins, ExitMd(a) PROVE ExportInv'
    <3>1. /\ make[a][1] = "remove" /\ asks[a] /\ muddle' = muddle /\ Makes(a)
          /\ asks' = [asks EXCEPT ![a] = FALSE]
          /\ md' = [md EXCEPT ![Named(a)] = "out"] /\ Done(a)
      BY <2>6 DEF ExitMd, ExportInv
    <3>2. ~muddle => Stage(a)
      BY <3>1 DEF ExportInv
    <3>3. /\ make' = [make EXCEPT ![a] = make'[a]] /\ make'[a] \in Targets
          /\ md' = [m \in Mds |-> md'[m]] /\ asks'[a] = FALSE
      BY <3>1, DoneFacts DEF ExportInv
    <3>4. ~muddle => IF make'[a] = <<"no", 0>> THEN Rest' ELSE Stage(a)'
      BY <3>1, <3>2, <3>3, CommandFacts, DoneFacts DEF Stage, Rest, Are, ExportInv, Mds
    <3> QED
      BY <3>1, <3>3, <3>4, CommandStep
  <2>7. CASE UNCHANGED exportVars
    BY <2>7 DEF exportVars, ExportInv, Makes, Rest, Stage, Are
  <2> QED
    BY <2>1, <2>2, <2>3, <2>4, <2>5, <2>6, <2>7 DEF ExportNext
<1> QED
  BY <1>1, <1>2, PTL DEF ExportSpec

\* Any number of people who load and remove the modules leave both modules or
\* none, unless two of them do it at the same time or a command fails by itself.
THEOREM ExportBothOrNone == ExportSpec => []BothOrNone
<1>1. ExportInv => BothOrNone
  BY DEF ExportInv, BothOrNone, Rest, Are
<1> QED
  BY <1>1, ExportInvariant, PTL

-------------------------------------------------------------------------------
(* The three laboratories in one behaviour *)

\* Whichever of the laboratories is loaded: no fortune module takes away another's
\* name, leaves anything behind or runs without its buffer; the file system leaves
\* memory only when it is refused; `make load` and `make remove`, one after the
\* other, leave md1 and md2 both or none.
THEOREM KernelModulesSafe ==
  KernelSpec => [](/\ KeepsItsEntries /\ NothingLeftBehind /\ HandlersHaveBuffer
                   /\ OnlyKnownDamage
                   /\ BothOrNone)
<1>1. KernelInit => Init /\ FsInit /\ ExportInit
  BY DEF KernelInit
<1>2. [KernelNext]_kernelVars => [Next]_vars /\ [FsNext]_fsVars /\ [ExportNext]_exportVars
  BY DEF KernelNext, kernelVars, Lab3, Lab4, Lab7
<1>3. KernelSpec => Spec /\ FsSpec /\ ExportSpec
  BY <1>1, <1>2, PTL DEF KernelSpec, Spec, FsSpec, ExportSpec
<1> QED
  BY <1>3, LoadKeepsItsEntries, LoadNothingLeftBehind, LoadHandlersHaveBuffer,
     FsOnlyKnownDamage, ExportBothOrNone, PTL

===============================================================================
