-------------------------------- MODULE Daemon --------------------------------
(***************************************************************************)
(* Laboratory 1: the syslog daemon (lab_01/main.c) and the lock file       *)
(* /var/run/daemon.pid by which it tries to run only once.                 *)
(*                                                                         *)
(* Several processes execute the same main().  Each one becomes a daemon,  *)
(* opens LOCKFILE, tries a write lock with fcntl(F_SETLK), writes its pid  *)
(* into the file, restores SIGHUP, blocks every signal and starts a thread *)
(* that waits for signals.  SIGTERM makes that thread remove LOCKFILE and  *)
(* exit.  The kernel's part (inodes, advisory locks, signal delivery) is   *)
(* modelled from how the code uses it: a lock belongs to an inode and a    *)
(* process, not to a name, and it goes when its process goes.              *)
(***************************************************************************)

CONSTANTS
  Procs,    \* the processes that may execute main(); an identity is a pid
  Inodes,   \* the inodes LOCKFILE may name over time
  NoFile,   \* "no inode": LOCKFILE does not exist, or nothing is open
  Nobody    \* "no process": an unlocked inode, or an empty pid file

ASSUME DaemonAssumption ==
  /\ NoFile \notin Inodes
  /\ Nobody \notin Procs

VARIABLES
  pc,       \* the next call of each process, "off" when it does not exist
  fd,       \* the inode each process has open as LOCKFILE
  path,     \* the inode the name LOCKFILE refers to
  owner,    \* the process that holds the write lock of each inode
  content,  \* the pid stored in each inode
  sighup,   \* each process's disposition of SIGHUP
  blocked,  \* has the process blocked all signals (pthread_sigmask)?
  pending   \* the blocked signals that wait for sigwait()

vars == <<pc, fd, path, owner, content, sighup, blocked, pending>>

fileVars   == <<path, owner, content>>
signalVars == <<sighup, blocked, pending>>

Signals == {"HUP", "TERM", "OTHER"}

\* The stages are named after the call the process is about to make.
Unlocked == {"daemonize", "open", "lockfile"}
Locked   == {"ftruncate", "write", "sigaction", "sigmask", "pthread_create",
             "sigwait", "remove", "exit"}
Stages   == {"off"} \cup Unlocked \cup Locked

\* The stages after the write() of already_running().
PidWritten == Locked \ {"ftruncate", "write"}

\* The stages whose call can fail and then ends the process.
Fallible == {"daemonize", "open", "lockfile", "sigaction", "sigmask",
             "pthread_create", "sigwait"}

\* Every process is at a call of main() or of thr_fn(), and every file, lock and
\* pid is one the kernel could have there.
TypeOK ==
  /\ pc \in [Procs -> Stages]
  /\ fd \in [Procs -> Inodes \cup {NoFile}]
  /\ path \in Inodes \cup {NoFile}
  /\ owner \in [Inodes -> Procs \cup {Nobody}]
  /\ content \in [Inodes -> Procs \cup {Nobody}]
  /\ sighup \in [Procs -> {"default", "ignore"}]
  /\ blocked \in [Procs -> BOOLEAN]
  /\ pending \in [Procs -> SUBSET Signals]

Init ==
  /\ pc = [p \in Procs |-> "off"]
  /\ fd = [p \in Procs |-> NoFile]
  /\ path = NoFile
  /\ owner = [i \in Inodes |-> Nobody]
  /\ content = [i \in Inodes |-> Nobody]
  /\ sighup = [p \in Procs |-> "default"]
  /\ blocked = [p \in Procs |-> FALSE]
  /\ pending = [p \in Procs |-> {}]

At(p, stage) == pc[p] = stage
Goto(p, stage) == pc' = [pc EXCEPT ![p] = stage]

\* Inodes open() may create: neither named nor open anywhere.
FreeInodes == {i \in Inodes : i # path /\ \A p \in Procs : fd[p] # i}

\* exit() or death: the kernel closes the descriptors and drops the locks.
\* LOCKFILE and the pid in it stay.
Die(p) ==
  /\ Goto(p, "off")
  /\ fd' = [fd EXCEPT ![p] = NoFile]
  /\ owner' = [i \in Inodes |-> IF owner[i] = p THEN Nobody ELSE owner[i]]
  /\ sighup' = [sighup EXCEPT ![p] = "default"]
  /\ blocked' = [blocked EXCEPT ![p] = FALSE]
  /\ pending' = [pending EXCEPT ![p] = {}]
  /\ UNCHANGED <<path, content>>

-------------------------------------------------------------------------------
(* Start-up: main() calls daemonize(), then already_running(). *)

\* The user starts the program.
Launch(p) ==
  /\ At(p, "off")
  /\ Goto(p, "daemonize")
  /\ UNCHANGED <<fd, fileVars, signalVars>>

\* daemonize(): the parent exits, the child loses its terminal, ignores SIGHUP
\* and attaches descriptors 0..2 to /dev/null.
Daemonize(p) ==
  /\ At(p, "daemonize")
  /\ Goto(p, "open")
  /\ sighup' = [sighup EXCEPT ![p] = "ignore"]
  /\ UNCHANGED <<fd, fileVars, blocked, pending>>

\* open(LOCKFILE, O_RDWR | O_CREAT): the inode the name refers to now, or a
\* new empty one.
OpenLockfile(p) ==
  /\ At(p, "open")
  /\ Goto(p, "lockfile")
  /\ \/ /\ path # NoFile
        /\ fd' = [fd EXCEPT ![p] = path]
        /\ UNCHANGED <<path, content>>
     \/ /\ path = NoFile
        /\ \E i \in FreeInodes :
             /\ path' = i
             /\ fd' = [fd EXCEPT ![p] = i]
             /\ content' = [content EXCEPT ![i] = Nobody]
  /\ UNCHANGED <<owner, signalVars>>

\* Seeded fault of Lockfile: the pid file is taken without looking at the lock.
LockfileUnchecked(p) ==
  /\ At(p, "lockfile")
  /\ owner' = [owner EXCEPT ![fd[p]] = p]
  /\ Goto(p, "ftruncate")
  /\ UNCHANGED <<fd, path, content, signalVars>>

\* Seeded fault of Lockfile: the pid is written while the lock is still wanted,
\* as if the file were filled in before fcntl().
LockfileAfterWrite(p) ==
  /\ At(p, "lockfile")
  /\ content' = [content EXCEPT ![fd[p]] = p]
  /\ \/ /\ owner[fd[p]] = Nobody
        /\ owner' = [owner EXCEPT ![fd[p]] = p]
        /\ Goto(p, "ftruncate")
     \/ /\ owner[fd[p]] # Nobody
        /\ UNCHANGED <<pc, owner>>
  /\ UNCHANGED <<fd, path, signalVars>>

\* lockfile(fd): fcntl(F_SETLK) succeeds at once when nobody holds the lock.
Lockfile(p) ==
  /\ At(p, "lockfile")
  /\ owner[fd[p]] = Nobody
  /\ owner' = [owner EXCEPT ![fd[p]] = p]
  /\ Goto(p, "ftruncate")
  /\ UNCHANGED <<fd, path, content, signalVars>>

\* already_running() returns 1 (EACCES or EAGAIN): main() logs and exits.
AlreadyRunning(p) ==
  /\ At(p, "lockfile")
  /\ owner[fd[p]] # Nobody
  /\ Die(p)

\* ftruncate(fd, 0), whose result is ignored: a pid left by another process stays
\* when it fails.
Truncate(p) ==
  /\ At(p, "ftruncate")
  /\ Goto(p, "write")
  /\ \/ content' = [content EXCEPT ![fd[p]] = Nobody]
     \/ UNCHANGED content
  /\ UNCHANGED <<fd, path, owner, signalVars>>

\* Seeded fault of WritePid: the pid is written through a second descriptor of
\* the file; closing that one drops every lock the process has on the file.
WritePidByReopening(p) ==
  /\ At(p, "write")
  /\ Goto(p, "sigaction")
  /\ content' = [content EXCEPT ![fd[p]] = p]
  /\ owner' = [owner EXCEPT ![fd[p]] = Nobody]
  /\ UNCHANGED <<fd, path, signalVars>>

\* write(fd, buf, ...) of the process's own pid and a NUL, whose result is ignored.
\* So few bytes are written at once or not at all.
WritePid(p) ==
  /\ At(p, "write")
  /\ Goto(p, "sigaction")
  /\ \/ content' = [content EXCEPT ![fd[p]] = p]
     \/ UNCHANGED content
  /\ UNCHANGED <<fd, path, owner, signalVars>>

\* sigaction(SIGHUP, SIG_DFL): from here to pthread_sigmask a SIGHUP kills.
RestoreSighup(p) ==
  /\ At(p, "sigaction")
  /\ Goto(p, "sigmask")
  /\ sighup' = [sighup EXCEPT ![p] = "default"]
  /\ UNCHANGED <<fd, fileVars, blocked, pending>>

\* sigfillset(&mask); pthread_sigmask(SIG_BLOCK, &mask).
BlockSignals(p) ==
  /\ At(p, "sigmask")
  /\ Goto(p, "pthread_create")
  /\ blocked' = [blocked EXCEPT ![p] = TRUE]
  /\ UNCHANGED <<fd, fileVars, sighup, pending>>

\* pthread_create(thr_fn): the new thread inherits the mask.  The main thread
\* then only logs the time every three seconds.
CreateThread(p) ==
  /\ At(p, "pthread_create")
  /\ Goto(p, "sigwait")
  /\ UNCHANGED <<fd, fileVars, signalVars>>

\* err_quit(), err_exit() or exit(1) after a failed call.
ErrExit(p) ==
  /\ pc[p] \in Fallible
  /\ Die(p)

-------------------------------------------------------------------------------
(* The signal thread thr_fn() and the signals themselves. *)

\* Seeded fault of TakeSignal: a missing case for SIGTERM, which is then
\* consumed and logged like any other signal.
TakeSignalNoTerm(p, s) ==
  /\ At(p, "sigwait")
  /\ s \in pending[p]
  /\ pending' = [pending EXCEPT ![p] = @ \ {s}]
  /\ UNCHANGED <<pc, fd, fileVars, sighup, blocked>>

\* sigwait() returns one of the pending signals; only SIGTERM does more than
\* write a log line.
TakeSignal(p, s) ==
  /\ At(p, "sigwait")
  /\ s \in pending[p]
  /\ pending' = [pending EXCEPT ![p] = @ \ {s}]
  /\ IF s = "TERM" THEN Goto(p, "remove") ELSE UNCHANGED pc
  /\ UNCHANGED <<fd, fileVars, sighup, blocked>>

\* remove(LOCKFILE) removes the name, whichever inode it refers to by now; when it
\* fails the process exits all the same.
RemoveLockfile(p) ==
  /\ At(p, "remove")
  /\ Goto(p, "exit")
  /\ path' \in {NoFile, path}
  /\ UNCHANGED <<fd, owner, content, signalVars>>

\* exit(0) of the signal thread.
Exit(p) ==
  /\ At(p, "exit")
  /\ Die(p)

\* Another process sends s to p.  A blocked signal stays pending, an ignored
\* SIGHUP is discarded, any other signal kills.
SendSignal(p, s) ==
  /\ pc[p] # "off"
  /\ \/ /\ blocked[p]
        /\ pending' = [pending EXCEPT ![p] = @ \cup {s}]
        /\ UNCHANGED <<pc, fd, fileVars, sighup, blocked>>
     \/ /\ ~blocked[p]
        /\ ~(s = "HUP" /\ sighup[p] = "ignore")
        /\ Die(p)

\* SIGKILL, an out-of-memory kill or a crash.
Kill(p) ==
  /\ pc[p] # "off"
  /\ Die(p)

-------------------------------------------------------------------------------
Next ==
  \E p \in Procs :
    \/ Launch(p) \/ Daemonize(p) \/ OpenLockfile(p)
    \/ Lockfile(p) \/ AlreadyRunning(p) \/ Truncate(p) \/ WritePid(p)
    \/ RestoreSighup(p) \/ BlockSignals(p) \/ CreateThread(p) \/ ErrExit(p)
    \/ \E s \in Signals : TakeSignal(p, s) \/ SendSignal(p, s)
    \/ RemoveLockfile(p) \/ Exit(p) \/ Kill(p)

Spec == Init /\ [][Next]_vars

\* A scheduled process that is not blocked makes its next call; sigwait() does
\* not pass over a pending SIGTERM for ever.
Fairness ==
  \A p \in Procs :
    /\ WF_vars(CreateThread(p))
    /\ WF_vars(TakeSignal(p, "TERM"))
    /\ WF_vars(RemoveLockfile(p))
    /\ WF_vars(Exit(p))

FairSpec == Spec /\ Fairness

-------------------------------------------------------------------------------
(* Properties *)

\* What already_running() announces (main.c:40, "only one daemon runs"): no two
\* processes serve signals at the same time.  The code does not achieve it.
SingleInstance ==
  \A p, q \in Procs : At(p, "sigwait") /\ At(q, "sigwait") => p = q

\* What the lock does achieve: of all the processes that passed
\* already_running(), no two have the same lock file open, so at most one of
\* them owns the file that LOCKFILE names.  A second daemon can exist only on
\* an inode that remove(LOCKFILE) has already unlinked.
OneDaemonPerLockfile ==
  \A p, q \in Procs :
    pc[p] \in Locked /\ pc[q] \in Locked /\ fd[p] = fd[q] => p = q

\* From the return of already_running() to its exit, nobody changes a daemon's lock
\* file: neither a refused start nor a second daemon.  So its pid stays there, or,
\* when its write() failed, what that has left.
PidFileStays ==
  [][\A p \in Procs : pc[p] \in PidWritten /\ pc'[p] \in PidWritten =>
       content'[fd[p]] = content[fd[p]]]_vars

\* A process holds the write lock of an inode exactly while it is past
\* lockfile() with that inode open: no daemon loses its lock before it exits
\* (fcntl drops it on the first close), and no lock outlives its process, so
\* the pid file a crash leaves behind does not stop the next start.
LockFollowsDaemon ==
  \A p \in Procs, i \in Inodes :
    owner[i] = p <=> pc[p] \in Locked /\ fd[p] = i

\* Once the signals are blocked, a SIGTERM is never lost: it ends the daemon,
\* also when it arrives before the signal thread exists.
TermEndsDaemon ==
  \A p \in Procs :
    (blocked[p] /\ "TERM" \in pending[p]) ~> At(p, "off")

===============================================================================
