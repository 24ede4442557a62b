SPECIFICATION Spec
CONSTANTS
  Half = 8
  Junk = junk
  Types <- MCAll
  Objects <- MCObjects
INVARIANTS TypeOK SerializedFieldsTravel
