CONSTANTS
  MaxMessages = 4
  Rotations = {"identity", "turned"}
SPECIFICATION Spec
PROPERTY AlignmentIsFixed
