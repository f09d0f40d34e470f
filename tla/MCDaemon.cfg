\* Two processes and the three inodes they can need: one each, and LOCKFILE's.
CONSTANTS
  Procs = {p1, p2}
  Inodes = {i1, i2, i3}
  NoFile = NoFile
  Nobody = Nobody
SPECIFICATION FairSpec
INVARIANTS
  OneDaemonPerLockfile
  LockFollowsDaemon
PROPERTIES
  PidFileStays
  TermEndsDaemon
