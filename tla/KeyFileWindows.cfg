SPECIFICATION Spec
CONSTANTS
  Others = {"k"}
  MaxLength = 3
  Windows = TRUE
INVARIANTS TypeOK KeyComesBack
