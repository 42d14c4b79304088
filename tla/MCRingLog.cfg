SPECIFICATION Spec
CONSTANTS
  Cap = 3
  SeqSpace = 10
  Record = {r1, r2}
  NoRecord = noRecord
  MaxProduced = 12
INVARIANTS
  TypeOK
  WindowInv
  HonestAnswers
PROPERTIES
  RetentionPromise
