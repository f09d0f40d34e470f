\* Two readers and a writer one after the other, or one reader and the writer at
\* the same time.  A copy that fails copies nothing: what a longer one leaves behind
\* writeInd would be measured as a fortune.
CONSTANTS
  Size = 6
  Writers = {w}
  Readers = {r1, r2}
  Hasty = {r1}
  Texts = {a, b}
  Lens = {1, 2, 5}
  FailedCopies = {0}
  NL = NL
  NUL = NUL
SPECIFICATION SeqSpec
PROPERTIES
  ShowsInCycle
  ShowsOnlyPublished
