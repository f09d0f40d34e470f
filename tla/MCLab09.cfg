\* Four interrupts, two keys and one code that is no key.  Part 2 on two
\* processors; part 1 with a log of two entries, which is filled and started again.
CONSTANTS
  Cpus = {k1, k2}
  Codes = {30, 31, 158}
  MaxPresses = 4
  Keys = {30, 31, 158}
  POS_MAX = 2
  MaxKeys = 4
SPECIFICATION Lab09Spec
INVARIANTS
  LastKeySeen
  NothingOutlivesModule
  FreedOnlyByLatecomers
  ReaderShowsLog
PROPERTIES
  ModulesUnload
