\* One reader and one writer in a buffer of six bytes: up to three fortunes, a
\* fortune that fills the buffer, and room checks that pass and fail at its end.
CONSTANTS
  Size = 6
  Writers = {w}
  Readers = {r}
  Texts = {a, b}
  Lens = {1, 2, 5}
  FailedCopies = {0, 1}
  NL = NL
  NUL = NUL
SPECIFICATION Spec
INVARIANTS
  CursorAtFortune
  PublishedEnds
PROPERTIES
  ReadsInCycle
