SPECIFICATION Spec
CONSTANTS
  a = a
  b = b
  ABSENT = ABSENT
  DIR = DIR
  TOUCHED = TOUCHED
  MIXED = MIXED
  Names <- MCNames
  Size = 2
  MaxVersion = 2
  MaxLength = 3
  MaxTouches = 2
SYMMETRY MCSymmetry
INVARIANTS Downloaded
PROPERTIES KeepsFiles
