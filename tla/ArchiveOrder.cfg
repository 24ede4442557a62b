SPECIFICATION Spec
CONSTANTS
  Half = 8
  Junk = junk
  Types <- MCOrder
  Objects <- MCObjects
INVARIANTS EveryFieldTravels
