SPECIFICATION Spec
CONSTANTS
  LetterCount = 2
  Ticks = 3
  MaxAdvance = 1
  Bytes = {0, 1}
  IdRoom = 1
  MaxProcesses = 2
  MaxHandles = 0
CHECK_DEADLOCK FALSE
INVARIANTS TypeOK SteadyDrivesListed ListedDrivesWereReady
PROPERTIES ConstructorEnds
