SPECIFICATION Spec
CONSTANTS
  Folders = {}
  DefaultFolder = default
  Names = {}
  Unnamed = unnamed
  Absent = absent
  MaxAmount = 2
  MaxPairs = 4
INVARIANTS MergeWritesKeys
