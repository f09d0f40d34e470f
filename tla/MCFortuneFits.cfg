\* One writer is enough to pass the check and miss the buffer.
CONSTANTS
  Size = 6
  Writers = {w}
  Readers = {r}
  Texts = {a}
  Lens = {1, 2, 5}
  FailedCopies = {0, 1}
  NL = NL
  NUL = NUL
SPECIFICATION Spec
INVARIANTS
  FortuneFits
