------------------------------- MODULE FsModule -------------------------------
(***************************************************************************)
(* Laboratory 7: the module of the file system a23fs is loaded, is mounted *)
(* by several processes and is unloaded, while any call may fail.  Only    *)
(* what has a life of its own is kept: the array line, the cache and its   *)
(* object, the registration, and how far each mount has got.               *)
(*                                                                         *)
(* The kernel is modelled from how the code uses it: a file system in use  *)
(* holds a reference to its owner, which rmmod waits for by failing;       *)
(* d_make_root() puts the inode of a root it cannot make; an inode put     *)
(* twice, a NULL object given back to a cache, or code of a module that is *)
(* gone may go well or not.                                                *)
(***************************************************************************)
EXTENDS Naturals

CONSTANT Mounters   \* the processes that mount a23fs

VARIABLES
  fs,        \* the next call of myfs_init() or myfs_exit(), "out" or "loaded"
  slab,      \* what myfs_init() has allocated: line, cache, object
  left,      \* what a module that went out has left allocated
  registered,\* is myfs_type in the kernel's list?
  refused,   \* has register_filesystem() failed?
  mount,     \* how far the mount of each process is
  short,     \* has kmem_cache_alloc() or d_make_root() failed?
  broken     \* has the kernel's memory been damaged?

fsVars == <<fs, slab, left, registered, refused, mount, short, broken>>

\* The parts of the module are where their calls leave them.
FsTypeOK ==
  /\ fs \in {"out", "cache", "object", "register", "loaded", "free", "destroy", "kfree",
            "unregister"}
  /\ slab \subseteq {"line", "cache", "object"} /\ left \subseteq {"line", "cache", "object"}
  /\ registered \in BOOLEAN /\ refused \in BOOLEAN
  /\ short \in BOOLEAN /\ broken \in BOOLEAN
  /\ mount \in [Mounters -> {"no", "inode", "root", "mounted", "kill"}]

FsInit ==
  /\ fs = "out" /\ slab = {} /\ left = {}
  /\ registered = FALSE /\ refused = FALSE /\ short = FALSE /\ broken = FALSE
  /\ mount = [u \in Mounters |-> "no"]

\* A call that comes to `next`, where what has been allocated is `allocated`.
FsGoes(stage, next, allocated) == fs = stage /\ fs' = next /\ slab' = allocated

\* init or exit returns and the module goes out.
GoesOut(stage, allocated) ==
  /\ FsGoes(stage, "out", {})
  /\ left' = left \cup allocated

\* What is undefined may do harm, or none.
MayBreak == broken' \in {broken, TRUE}

-------------------------------------------------------------------------------
(* myfs_init() *)

\* insmod and kmalloc(): without it nothing has happened.
AllocLine ==
  /\ FsGoes("out", "cache", {"line"})
  /\ UNCHANGED <<left, registered, refused, mount, short, broken>>

CreateCache ==
  /\ \/ FsGoes("cache", "object", slab \cup {"cache"}) /\ UNCHANGED left
     \/ GoesOut("cache", slab \ {"line"})
  /\ UNCHANGED <<registered, refused, mount, short, broken>>

\* kmem_cache_alloc(): when it fails, NULL is given back to the cache before
\* the cache and the array go.
AllocObject ==
  /\ \/ /\ FsGoes("object", "register", slab \cup {"object"})
        /\ UNCHANGED <<left, short, broken>>
     \/ /\ GoesOut("object", slab \ {"cache", "line"})
        /\ short' = TRUE /\ MayBreak
  /\ UNCHANGED <<registered, refused, mount>>

\* register_filesystem(): when the name is taken, all of it stays allocated.
RegisterFs ==
  /\ \/ /\ FsGoes("register", "loaded", slab)
        /\ registered' = TRUE
        /\ UNCHANGED <<left, refused>>
     \/ /\ GoesOut("register", slab)
        /\ refused' = TRUE
        /\ UNCHANGED registered
  /\ UNCHANGED <<mount, short, broken>>

-------------------------------------------------------------------------------
(* myfs_exit() *)

\* Seeded fault of Referring: a type without .owner.
ReferringNone == {}

\* .owner = THIS_MODULE: who is mounting or has mounted holds the module.
Referring == {u \in Mounters : mount[u] # "no"}

RmmodFs ==
  /\ Referring = {}
  /\ FsGoes("loaded", "free", slab)
  /\ UNCHANGED <<left, registered, refused, mount, short, broken>>

FreeObject == FsGoes("free", "destroy", slab \ {"object"}) /\ UNCHANGED <<left, registered>>

\* A cache that still has an object is not destroyed.
DestroyCache ==
  /\ FsGoes("destroy", "kfree", IF "object" \in slab THEN slab ELSE slab \ {"cache"})
  /\ UNCHANGED <<left, registered>>

FreeLine == FsGoes("kfree", "unregister", slab \ {"line"}) /\ UNCHANGED <<left, registered>>

UnregisterFs == GoesOut("unregister", slab) /\ registered' = FALSE

ExitFs ==
  /\ FreeObject \/ DestroyCache \/ FreeLine \/ UnregisterFs
  /\ UNCHANGED <<refused, mount, short, broken>>

-------------------------------------------------------------------------------
(* mount and umount *)

\* A handler of the file system runs code of the module.
Mounting(u, stage, next) ==
  /\ mount[u] = stage /\ mount' = [mount EXCEPT ![u] = next]
  /\ UNCHANGED <<fs, slab, left, registered, refused>>

NeedsText == IF fs = "out" THEN MayBreak ELSE UNCHANGED broken

\* mount(): the type is found and its owner is neither loading nor leaving, and
\* myfs_mount() calls mount_nodev().
MountFs(u) ==
  /\ registered /\ fs = "loaded"
  /\ Mounting(u, "no", "inode") /\ UNCHANGED <<short, broken>>

\* myfs_make_inode(): without an inode the superblock is given up.
MakeInode(u) ==
  /\ Mounting(u, "inode", "root") \/ Mounting(u, "inode", "kill")
  /\ NeedsText /\ UNCHANGED short

\* d_make_root(): when it fails, the inode it has put is put again.
MakeRoot(u) ==
  \/ Mounting(u, "root", "mounted") /\ NeedsText /\ UNCHANGED short
  \/ Mounting(u, "root", "kill") /\ MayBreak /\ short' = TRUE

Umount(u) == Mounting(u, "mounted", "kill") /\ UNCHANGED <<short, broken>>

\* myfs_kill_anon_super() and myfs_put_super(), for a mount that ends or failed.
KillSuper(u) == Mounting(u, "kill", "no") /\ NeedsText /\ UNCHANGED short

FsNext ==
  \/ AllocLine \/ CreateCache \/ AllocObject \/ RegisterFs
  \/ RmmodFs \/ ExitFs
  \/ \E u \in Mounters :
       MountFs(u) \/ MakeInode(u) \/ MakeRoot(u) \/ Umount(u) \/ KillSuper(u)

FsSpec == FsInit /\ [][FsNext]_fsVars

-------------------------------------------------------------------------------
(* Properties *)

\* However loads, mounts and unloads fail and overlap, a module that is out has
\* no type in the kernel's list and, unless register_filesystem() was what
\* failed (line 186 frees nothing), no memory; and the kernel is not damaged
\* but by the two paths that put what is not there (104 and 176), so that code
\* of the module is never run after it has gone.
OnlyKnownDamage ==
  /\ fs = "out" => ~registered
  /\ left # {} => refused
  /\ broken => short

===============================================================================
