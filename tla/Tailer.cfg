SPECIFICATION FairSpec
CONSTANTS
  MaxLines = 3
  MaxGens = 3
  Chunk = 1
  LongLines <- SecondLine
INVARIANTS
  TypeOK
  OldIsNeverRead
  NoLineIsSkipped
  NoticedIsReadOrQueued
PROPERTIES
  ReadIsSettled
