----------------------------- MODULE DaemonProofs -----------------------------
(***************************************************************************)
(* Proofs about module Daemon, for any set of processes and any set of     *)
(* inodes.  The inductive invariant adds to the checked properties only    *)
(* that a process has LOCKFILE open from the return of open() until it     *)
(* exits: without it a step of one process could not be told from a step   *)
(* on the inode of another.                                                *)
(***************************************************************************)
EXTENDS Daemon, TLAPS

\* The stages in which a process has LOCKFILE open.
Opened == Locked \cup {"lockfile"}

FdOpen == \A p \in Procs : fd[p] \in Inodes <=> pc[p] \in Opened

IInv ==
  /\ TypeOK
  /\ FdOpen
  /\ LockFollowsDaemon

\* Type correctness of the daemon: every step of start-up, signal handling and
\* death keeps each variable in its range.
THEOREM DaemonTypeOK == Spec => []TypeOK
<1> USE DaemonAssumption
<1>1. Init => TypeOK
  BY DEF Init, TypeOK, Stages
<1>2. TypeOK /\ [Next]_vars => TypeOK'
  <2> SUFFICES ASSUME TypeOK, [Next]_vars PROVE TypeOK'
    OBVIOUS
  <2> USE DEF TypeOK, Stages, Unlocked, Locked, Signals, At, Goto,
              fileVars, signalVars
  <2>1. ASSUME NEW p \in Procs, Launch(p) PROVE TypeOK'
    BY <2>1 DEF Launch
  <2>2. ASSUME NEW p \in Procs, Daemonize(p) PROVE TypeOK'
    BY <2>2 DEF Daemonize
  <2>3. ASSUME NEW p \in Procs, OpenLockfile(p) PROVE TypeOK'
    BY <2>3 DEF OpenLockfile, FreeInodes
  <2>4. ASSUME NEW p \in Procs, Lockfile(p) PROVE TypeOK'
    BY <2>4 DEF Lockfile
  <2>5. ASSUME NEW p \in Procs, Truncate(p) PROVE TypeOK'
    BY <2>5 DEF Truncate
  <2>6. ASSUME NEW p \in Procs, WritePid(p) PROVE TypeOK'
    BY <2>6 DEF WritePid
  <2>7. ASSUME NEW p \in Procs, RestoreSighup(p) PROVE TypeOK'
    BY <2>7 DEF RestoreSighup
  <2>8. ASSUME NEW p \in Procs, BlockSignals(p) PROVE TypeOK'
    BY <2>8 DEF BlockSignals
  <2>9. ASSUME NEW p \in Procs, CreateThread(p) PROVE TypeOK'
    BY <2>9 DEF CreateThread
  <2>10. ASSUME NEW p \in Procs, NEW s \in Signals, TakeSignal(p, s)
         PROVE TypeOK'
    BY <2>10 DEF TakeSignal
  <2>11. ASSUME NEW p \in Procs, RemoveLockfile(p) PROVE TypeOK'
    BY <2>11 DEF RemoveLockfile
  <2>12. ASSUME NEW p \in Procs, Die(p) PROVE TypeOK'
    BY <2>12 DEF Die
  <2>13. ASSUME NEW p \in Procs, NEW s \in Signals, SendSignal(p, s)
         PROVE TypeOK'
    BY <2>12, <2>13 DEF SendSignal
  <2>14. CASE UNCHANGED vars
    BY <2>14 DEF vars
  <2>15. QED
    BY <2>1, <2>2, <2>3, <2>4, <2>5, <2>6, <2>7, <2>8, <2>9, <2>10, <2>11,
       <2>12, <2>13, <2>14
    DEF Next, AlreadyRunning, ErrExit, Exit, Kill
<1>3. QED
  BY <1>1, <1>2, PTL DEF Spec

-------------------------------------------------------------------------------
(* The inductive step, one lemma for the steps that leave the files alone,  *)
(* one for the death of a process, one for each call on LOCKFILE.           *)

\* Two processes past lockfile() never have the same inode open: its lock has
\* one owner.
LEMMA LockedApart ==
  ASSUME TypeOK, LockFollowsDaemon,
         NEW p \in Procs, NEW q \in Procs,
         pc[p] \in Locked, pc[q] \in Locked, fd[p] = fd[q], fd[p] \in Inodes
  PROVE  p = q
  BY DEF LockFollowsDaemon

\* A step that moves one process between two stages on the same side of open()
\* and of lockfile() touches no part of the invariant.
LEMMA PlainStep ==
  ASSUME IInv, TypeOK', NEW p \in Procs, NEW stage \in Stages,
         Goto(p, stage), UNCHANGED <<fd, owner>>,
         stage \in Opened <=> pc[p] \in Opened,
         stage \in Locked <=> pc[p] \in Locked
  PROVE  IInv'
<1> USE DEF IInv, Goto, TypeOK
<1>1. FdOpen'
  BY DEF FdOpen
<1>2. LockFollowsDaemon'
  BY DEF LockFollowsDaemon
<1>3. QED
  BY <1>1, <1>2

\* The death of a process at any point keeps the invariant: its locks go with
\* it, the name and the pid file stay.
LEMMA DieStep ==
  ASSUME IInv, TypeOK', NEW p \in Procs, Die(p)
  PROVE  IInv'
<1> USE DaemonAssumption DEF IInv, Die, Goto, TypeOK
<1> USE DEF Opened, Locked
<1>1. FdOpen'
  BY DEF FdOpen
<1>2. LockFollowsDaemon'
  BY DEF LockFollowsDaemon
<1>3. QED
  BY <1>1, <1>2

\* open(): the process has an inode open, and no lock of it yet.
LEMMA OpenStep ==
  ASSUME IInv, TypeOK', NEW p \in Procs, OpenLockfile(p)
  PROVE  IInv'
<1> USE DaemonAssumption
    DEF IInv, OpenLockfile, FreeInodes, Goto, At, TypeOK, signalVars
<1>1. FdOpen'
  BY DEF FdOpen, Opened, Locked
<1>2. LockFollowsDaemon'
  BY DEF LockFollowsDaemon, Locked
<1>3. QED
  BY <1>1, <1>2

\* fcntl(): the lock is granted only when nobody has it.
LEMMA LockfileStep ==
  ASSUME IInv, TypeOK', NEW p \in Procs, Lockfile(p)
  PROVE  IInv'
<1> USE DaemonAssumption DEF IInv, Lockfile, Goto, At, TypeOK, signalVars
<1>1. FdOpen'
  BY DEF FdOpen, Opened, Locked
<1>2. fd[p] \in Inodes
  BY DEF FdOpen, Opened
<1>3. LockFollowsDaemon'
  BY <1>2 DEF LockFollowsDaemon, Locked
<1>4. QED
  BY <1>1, <1>3

\* The inductive invariant holds in every state of the daemon.
THEOREM DaemonInvariant == Spec => []IInv
<1>1. Init => IInv
  <2> SUFFICES ASSUME Init PROVE IInv
    OBVIOUS
  <2>1. TypeOK
    BY DaemonAssumption DEF Init, TypeOK, Stages
  <2>2. FdOpen /\ LockFollowsDaemon
    BY DaemonAssumption DEF Init, FdOpen, LockFollowsDaemon, Opened, Locked
  <2>3. QED
    BY <2>1, <2>2 DEF IInv
<1>2. IInv /\ TypeOK' /\ [Next]_vars => IInv'
  <2> SUFFICES ASSUME IInv, TypeOK', [Next]_vars PROVE IInv'
    OBVIOUS
  <2> USE DEF At, fileVars, signalVars, Stages, Unlocked, Opened, Locked
  <2>1. ASSUME NEW p \in Procs, Launch(p) PROVE IInv'
    BY <2>1, PlainStep DEF Launch
  <2>2. ASSUME NEW p \in Procs, Daemonize(p) PROVE IInv'
    BY <2>2, PlainStep DEF Daemonize
  <2>3. ASSUME NEW p \in Procs, OpenLockfile(p) PROVE IInv'
    BY <2>3, OpenStep
  <2>4. ASSUME NEW p \in Procs, Lockfile(p) PROVE IInv'
    BY <2>4, LockfileStep
  <2>5. ASSUME NEW p \in Procs, Truncate(p) \/ WritePid(p) PROVE IInv'
    BY <2>5, PlainStep DEF Truncate, WritePid
  <2>6. ASSUME NEW p \in Procs, RestoreSighup(p) PROVE IInv'
    BY <2>6, PlainStep DEF RestoreSighup
  <2>7. ASSUME NEW p \in Procs, BlockSignals(p) PROVE IInv'
    BY <2>7, PlainStep DEF BlockSignals
  <2>8. ASSUME NEW p \in Procs, CreateThread(p) PROVE IInv'
    BY <2>8, PlainStep DEF CreateThread
  <2>9. CASE UNCHANGED <<pc, fd, fileVars>>
    BY <2>9 DEF IInv, FdOpen, LockFollowsDaemon
  <2>10. ASSUME NEW p \in Procs, NEW s \in Signals, TakeSignal(p, s)
         PROVE IInv'
    <3>1. CASE s = "TERM"
      BY <2>10, <3>1, PlainStep DEF TakeSignal
    <3>2. CASE s # "TERM"
      BY <2>9, <2>10, <3>2 DEF TakeSignal
    <3>3. QED
      BY <3>1, <3>2
  <2>11. ASSUME NEW p \in Procs, RemoveLockfile(p) PROVE IInv'
    BY <2>11, PlainStep DEF RemoveLockfile
  <2>12. ASSUME NEW p \in Procs, Die(p) PROVE IInv'
    BY <2>12, DieStep
  <2>13. ASSUME NEW p \in Procs, NEW s \in Signals, SendSignal(p, s)
         PROVE IInv'
    BY <2>9, <2>12, <2>13 DEF SendSignal
  <2>14. CASE UNCHANGED vars
    BY <2>9, <2>14 DEF vars
  <2>15. QED
    BY <2>1, <2>2, <2>3, <2>4, <2>5, <2>6, <2>7, <2>8, <2>10, <2>11,
       <2>12, <2>13, <2>14
    DEF Next, AlreadyRunning, ErrExit, Exit, Kill
<1>3. QED
  BY <1>1, <1>2, DaemonTypeOK, PTL DEF Spec

-------------------------------------------------------------------------------
(* What the invariant gives. *)

\* Of all the processes past already_running(), no two have the same lock file
\* open, however many start, crash or stop.
THEOREM DaemonOnePerLockfile == Spec => []OneDaemonPerLockfile
<1>1. IInv => OneDaemonPerLockfile
  BY LockedApart DEF IInv, OneDaemonPerLockfile, FdOpen, Opened
<1>2. QED
  BY <1>1, DaemonInvariant, PTL

\* Only the process past lockfile() writes into an inode that is in use: no step of
\* another one changes the file of a daemon.
LEMMA ContentStays ==
  ASSUME IInv, [Next]_vars, NEW p \in Procs, pc[p] \in PidWritten, pc'[p] \in PidWritten
  PROVE  content'[fd[p]] = content[fd[p]]
<1>1. fd[p] \in Inodes /\ pc[p] \in Locked
  BY DEF IInv, FdOpen, Opened, PidWritten
<1>2. ASSUME NEW q \in Procs, OpenLockfile(q) PROVE content'[fd[p]] = content[fd[p]]
  BY <1>1, <1>2 DEF OpenLockfile, FreeInodes, IInv, TypeOK
<1>3. ASSUME NEW q \in Procs, Truncate(q) \/ WritePid(q)
      PROVE  content'[fd[p]] = content[fd[p]]
  <2>1. /\ pc[q] \in {"ftruncate", "write"}
        /\ \/ UNCHANGED content
           \/ \E c : content' = [content EXCEPT ![fd[q]] = c]
    BY <1>3 DEF Truncate, WritePid, At
  <2>2. q # p /\ pc[q] \in Locked
    BY <2>1 DEF PidWritten, Locked
  <2>3. fd[q] # fd[p]
    BY <1>1, <2>2, LockedApart DEF IInv
  <2>4. QED
    BY <1>1, <2>1, <2>3 DEF IInv, TypeOK
<1>4. CASE UNCHANGED content
  BY <1>4
<1>5. QED
  BY <1>2, <1>3, <1>4
  DEF Next, vars, fileVars, Launch, Daemonize, Lockfile, AlreadyRunning, RestoreSighup,
      BlockSignals, CreateThread, ErrExit, TakeSignal, SendSignal, RemoveLockfile,
      Exit, Kill, Die

\* Nobody changes a daemon's lock file between already_running() and its exit.
THEOREM DaemonPidFile == Spec => PidFileStays
<1>1. IInv /\ [Next]_vars =>
        [\A p \in Procs : pc[p] \in PidWritten /\ pc'[p] \in PidWritten =>
           content'[fd[p]] = content[fd[p]]]_vars
  BY ContentStays
<1>2. QED
  BY <1>1, DaemonInvariant, PTL DEF Spec, PidFileStays

\* The lock of an inode and the stage of its owner always agree.
THEOREM DaemonLockFollows == Spec => []LockFollowsDaemon
<1>1. IInv => LockFollowsDaemon
  BY DEF IInv
<1>2. QED
  BY <1>1, DaemonInvariant, PTL

===============================================================================
