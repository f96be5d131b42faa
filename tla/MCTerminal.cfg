SPECIFICATION Spec
CONSTANTS
  MaxSize = 3
  MaxChanges = 2
INVARIANTS Reported BarComplete RightKind
