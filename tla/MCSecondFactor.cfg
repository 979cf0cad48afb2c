SPECIFICATION Spec
CONSTANTS
  Callers = {c, d}
  Secrets = {1, 2}
  Sets = {1, 2}
  SetSize = 2
  MaxLag = 1
CONSTRAINT OneRace
SYMMETRY Symmetry
INVARIANTS
  TypeOK
  CodeCountsOnce
  ActiveSecretConfirmed
  OneSetOfCodes
