\* The same instance, and every mapping.
CONSTANTS
  BUF_SIZE = 40
  Lengths = {0, 5, 39, 40, 41, 90}
  MapLists <- Lists
  Silences <- Silent
  Base = 4
SPECIFICATION Spec
INVARIANTS
  PagesOfMaps
