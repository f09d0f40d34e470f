\* app2_threads.c with a file of four characters, of which each thread reads,
\* and both meet the end; the others with one of ten that fills a buffer twice
\* and a part of a third time (26 characters and 18 in the code).
CONSTANTS
  N = 4
  Length = 10
  BUFF_SIZE = 4
SPECIFICATION Lab05Spec
INVARIANTS
  InOrder
  OwnColour
  AllWritten
  EveryCharacterOnce
  CopiesDoNotMix
  BuffersReachFile
PROPERTIES
  EveryProgramEnds
