SPECIFICATION Spec
CONSTANTS
  Clients = {c1, c2, c3}
  Threads = 8
  Reserve = 1
INVARIANTS IteratorsValid
