------------------------------ MODULE FortuneLoad ------------------------------
(***************************************************************************)
(* Laboratory 4, part 2: how fortune.c and seqfile.c enter and leave the   *)
(* kernel.  The two modules have the same initFortune(), cleanUpFortune()  *)
(* and exitFortune(), and the same three names in /proc, so each of them   *)
(* may be loaded while the other one is there, is loading or is leaving.   *)
(* The line numbers of the comments are fortune.c's.                       *)
(*                                                                         *)
(* /proc is modelled from how the code uses it: a name is registered once; *)
(* remove_proc_entry() removes a name whoever registered it, and returns   *)
(* when no handler of that entry runs.                                     *)
(***************************************************************************)

CONSTANTS
  Modules,  \* fortune.ko and seqfile.ko
  Users,    \* processes that read or write fortune_file
  None      \* no module: an unregistered name, or a user outside any handler

ASSUME LoadAssumption == None \notin Modules

VARIABLES
  pc,       \* the next call of initFortune() or cleanUpFortune() of a module
  ptr,      \* the module's non-NULL pointers fortuneDir, fortuneFile, fortuneSymlink
  buffer,   \* does cookieBuffer point to allocated memory?
  entry,    \* the module that registered each name in /proc
  inside    \* the module whose read or write handler a user is executing

vars == <<pc, ptr, buffer, entry, inside>>

Names == {"dir", "file", "link"}

Loading   == {"mkdir", "create", "symlink", "reset"}
Unloading == {"rmlink", "rmfile", "drain", "rmdir", "vfree"}
Stages    == {"out", "loaded"} \cup Loading \cup Unloading

\* Every module is at a call of its life, and every name belongs to a module.
TypeOK ==
  /\ pc \in [Modules -> Stages]
  /\ ptr \in [Modules -> SUBSET Names]
  /\ buffer \in [Modules -> BOOLEAN]
  /\ entry \in [Names -> Modules \cup {None}]
  /\ inside \in [Users -> Modules \cup {None}]

Init ==
  /\ pc = [m \in Modules |-> "out"]
  /\ ptr = [m \in Modules |-> {}]
  /\ buffer = [m \in Modules |-> FALSE]
  /\ entry = [e \in Names |-> None]
  /\ inside = [u \in Users |-> None]

At(m, stage) == pc[m] = stage
Goto(m, stage) == pc' = [pc EXCEPT ![m] = stage]

-------------------------------------------------------------------------------
(* insmod: initFortune() *)

\* vmalloc() and memset(); a module without memory is not loaded.  The static
\* pointers of a module start as NULL each time it is loaded.
Insmod(m) ==
  /\ At(m, "out")
  /\ Goto(m, "mkdir")
  /\ buffer' = [buffer EXCEPT ![m] = TRUE]
  /\ ptr' = [ptr EXCEPT ![m] = {}]
  /\ UNCHANGED <<entry, inside>>

\* proc_mkdir(), proc_create() and proc_symlink() register a free name, and
\* return NULL when it is taken or there is no memory: then initFortune()
\* cleans up.
Register(m, stage, name, next) ==
  /\ At(m, stage)
  /\ \/ /\ entry[name] = None
        /\ entry' = [entry EXCEPT ![name] = m]
        /\ ptr' = [ptr EXCEPT ![m] = @ \cup {name}]
        /\ Goto(m, next)
     \/ /\ Goto(m, "rmlink")
        /\ UNCHANGED <<entry, ptr>>
  /\ UNCHANGED <<buffer, inside>>

MakeDir(m)     == Register(m, "mkdir", "dir", "create")
CreateFile(m)  == Register(m, "create", "file", "symlink")

\* Seeded fault of MakeSymlink: a failed proc_symlink() returns -ENOMEM without
\* cleaning up.
MakeSymlinkLeaks(m) ==
  /\ At(m, "symlink")
  /\ \/ /\ entry["link"] = None
        /\ entry' = [entry EXCEPT !["link"] = m]
        /\ ptr' = [ptr EXCEPT ![m] = @ \cup {"link"}]
        /\ Goto(m, "reset")
     \/ /\ Goto(m, "out")
        /\ UNCHANGED <<entry, ptr>>
  /\ UNCHANGED <<buffer, inside>>

MakeSymlink(m) == Register(m, "symlink", "link", "reset")

\* readInd = writeInd = 0 and return 0: FortuneStore models what the indices do.
Loaded(m) ==
  /\ At(m, "reset")
  /\ Goto(m, "loaded")
  /\ UNCHANGED <<ptr, buffer, entry, inside>>

-------------------------------------------------------------------------------
(* cleanUpFortune(), from exitFortune() or from a failed initFortune() *)

Rmmod(m) ==
  /\ At(m, "loaded")
  /\ Goto(m, "rmlink")
  /\ UNCHANGED <<ptr, buffer, entry, inside>>

\* Seeded fault of Remove: the pointers are not compared with NULL.
RemoveUnchecked(m, stage, name, next) ==
  /\ At(m, stage)
  /\ Goto(m, next)
  /\ entry' = [entry EXCEPT ![name] = None]
  /\ UNCHANGED <<ptr, buffer, inside>>

\* Seeded fault of Remove: the running handlers are waited for while the name
\* is still visible.
RemoveTooLate(m, stage, name, next) ==
  /\ At(m, stage)
  /\ Goto(m, next)
  /\ UNCHANGED <<ptr, buffer, entry, inside>>

\* remove_proc_entry() of a name whose pointer is not NULL.
Remove(m, stage, name, next) ==
  /\ At(m, stage)
  /\ Goto(m, next)
  /\ IF name \in ptr[m] THEN entry' = [entry EXCEPT ![name] = None]
                        ELSE UNCHANGED entry
  /\ UNCHANGED <<ptr, buffer, inside>>

\* Seeded fault of RemoveSymlink: cookieBuffer is freed before the names go.
VfreeFirst(m) ==
  /\ At(m, "rmlink")
  /\ Goto(m, "rmfile")
  /\ buffer' = [buffer EXCEPT ![m] = FALSE]
  /\ entry' = [entry EXCEPT !["link"] = IF "link" \in ptr[m] THEN None ELSE @]
  /\ UNCHANGED <<ptr, inside>>

RemoveSymlink(m) == Remove(m, "rmlink", "link", "rmfile")
RemoveFile(m)    == Remove(m, "rmfile", "file", "drain")
RemoveDir(m)     == Remove(m, "rmdir", "dir", "vfree")

\* remove_proc_entry(FORTUNE_FILENAME) returns when no handler of it runs.
Drain(m) ==
  /\ At(m, "drain")
  /\ "file" \in ptr[m] => \A u \in Users : inside[u] # m
  /\ Goto(m, "rmdir")
  /\ UNCHANGED <<ptr, buffer, entry, inside>>

\* vfree(cookieBuffer), and the module is gone.
Vfree(m) ==
  /\ At(m, "vfree")
  /\ Goto(m, "out")
  /\ buffer' = [buffer EXCEPT ![m] = FALSE]
  /\ UNCHANGED <<ptr, entry, inside>>

-------------------------------------------------------------------------------
(* The users of fortune_file *)

\* readFortune(), showFortune() or writeFortune() starts: only while the entry
\* is registered, which is from proc_create() on, before initFortune() is done.
Enter(u, m) ==
  /\ inside[u] = None
  /\ entry["file"] = m
  /\ inside' = [inside EXCEPT ![u] = m]
  /\ UNCHANGED <<pc, ptr, buffer, entry>>

Leave(u) ==
  /\ inside[u] # None
  /\ inside' = [inside EXCEPT ![u] = None]
  /\ UNCHANGED <<pc, ptr, buffer, entry>>

Next ==
  \/ \E m \in Modules :
       \/ Insmod(m) \/ MakeDir(m) \/ CreateFile(m) \/ MakeSymlink(m)
       \/ Loaded(m) \/ Rmmod(m) \/ RemoveSymlink(m) \/ RemoveFile(m)
       \/ Drain(m) \/ RemoveDir(m) \/ Vfree(m)
       \/ \E u \in Users : Enter(u, m)
  \/ \E u \in Users : Leave(u)

Spec == Init /\ [][Next]_vars

\* A module that has begun to load or to unload goes on, and a handler, which
\* has no loop and waits for nobody, returns.
Fairness ==
  /\ \A m \in Modules :
       WF_vars(MakeDir(m) \/ CreateFile(m) \/ MakeSymlink(m) \/ Loaded(m)
               \/ RemoveSymlink(m) \/ RemoveFile(m) \/ Drain(m)
               \/ RemoveDir(m) \/ Vfree(m))
  /\ \A u \in Users : WF_vars(Leave(u))

FairSpec == Spec /\ Fairness

-------------------------------------------------------------------------------
(* Properties *)

\* The stages in which the clean-up still has to remove the name.
Before(name) ==
  CASE name = "link" -> {"reset", "loaded", "rmlink"}
    [] name = "file" -> {"symlink", "reset", "loaded", "rmlink", "rmfile"}
    [] name = "dir"  -> {"create", "symlink", "reset", "loaded", "rmlink",
                         "rmfile", "drain", "rmdir"}

\* A name that a module registered stays its own until its clean-up removes
\* it: the failed load of one module, which runs the same cleanUpFortune() with
\* the same names, never takes away an entry of the other one.
KeepsItsEntries ==
  \A m \in Modules, e \in Names :
    pc[m] \in Before(e) /\ e \in ptr[m] => entry[e] = m

\* fortune_dir, which the modules never put anything in, is what keeps them
\* apart: only one of them is between its proc_mkdir() and its removal of the
\* directory, so the file and the link are never registered by different ones.
OneFortuneModule ==
  \A m, n \in Modules :
    "dir" \in ptr[m] /\ pc[m] \in Before("dir")
      /\ "dir" \in ptr[n] /\ pc[n] \in Before("dir") => m = n

\* A module that is not in the kernel has left nothing behind: no name, no
\* memory, and no user inside its code; so a failed load leaks nothing.
NothingLeftBehind ==
  \A m \in Modules : At(m, "out") =>
    /\ ~buffer[m]
    /\ \A e \in Names : entry[e] # m
    /\ \A u \in Users : inside[u] # m

\* No handler runs without cookieBuffer: it is allocated before the file is
\* visible and freed after the last handler has returned.
HandlersHaveBuffer ==
  \A u \in Users, m \in Modules : inside[u] = m => buffer[m]

\* rmmod ends, also while users keep opening and reading the file.
UnloadEnds ==
  \A m \in Modules : At(m, "rmlink") ~> At(m, "out")

===============================================================================
