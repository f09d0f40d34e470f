\* Two starts are enough to run the daemon twice.
CONSTANTS
  Procs = {p1, p2}
  Inodes = {i1, i2, i3}
  NoFile = NoFile
  Nobody = Nobody
SPECIFICATION Spec
INVARIANTS
  SingleInstance
