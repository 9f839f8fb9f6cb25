\* Four feet in every contact, and every small hierarchy of two or three levels
\* in which at most one level above the last has inequalities.
CONSTANTS
  Feet <- Legs4
  Names <- MCNames
  Hierarchies <- MCHierarchies
SPECIFICATION Spec
INVARIANTS
  HoQpTypeOK
  HigherIsUndisturbed
  RelaxedByOwnSlack
  EveryFootIsTreated
  SameRowsAsWeighted
  TorquesReachTheirMotors
