\* Up to two lines of maps in a buffer of 40, with its end at every place of a line;
\* files from none to two buffers and a part.
CONSTANTS
  BUF_SIZE = 40
  Lengths = {0, 5, 39, 40, 41, 90}
  MapLists <- Lists
  Silences <- Silent
  Base = 4
SPECIFICATION Spec
INVARIANTS
  FilesAreCopied
  WholeLinesAreReported
  OverrunsNeedCutLines
