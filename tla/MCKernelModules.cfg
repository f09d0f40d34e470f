\* The repository's two fortune modules and two users; two processes that mount
\* the file system; two people who load and remove the exporting modules.
CONSTANTS
  Modules = {fortune, seqfile}
  Users = {u1, u2}
  None = None
  Mounters = {m1, m2}
  Admins = {a1, a2}
SPECIFICATION KernelSpec
INVARIANTS
  KeepsItsEntries
  NothingLeftBehind
  HandlersHaveBuffer
  OnlyKnownDamage
  BothOrNone
PROPERTIES
  UnloadEnds
