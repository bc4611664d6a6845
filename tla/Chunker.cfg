SPECIFICATION Spec
CONSTANTS
  MaxText = 6
  Texts <- MCTexts
  Windows <- MCWindows
INVARIANTS
  TypeOK
  PhrasesWhole
PROPERTIES
  WindowsAdvance
  ChunkingEnds
CHECK_DEADLOCK FALSE
