SPECIFICATION Spec
CONSTANTS
  Groups = 3
  MaxProfile = 1
  MaxSweeps <- MCMaxSweeps
  RemapProfile = 1
  Modes <- MCInlineModes
INVARIANT
  InlineParityIsExact
