SPECIFICATION Spec
CONSTANTS
  Folders = {elsewhere}
  DefaultFolder = default
  Names = {merged}
  Unnamed = unnamed
  Absent = absent
  MaxAmount = 2
  MaxPairs = 4
INVARIANTS FolderOptionHonoured
