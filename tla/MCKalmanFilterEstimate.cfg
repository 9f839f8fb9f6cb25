CONSTANTS
  MaxMessages = 4
  Rotations = {"turned"}
SPECIFICATION FairSpec
INVARIANTS
  TypeOK
  CorrectedFromMessages
PROPERTIES
  CorrectedInOrder
  AlignmentIsFixed
  StreamIsServed
