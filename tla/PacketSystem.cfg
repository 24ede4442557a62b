SPECIFICATION SystemSpec
CONSTANTS
  Clients = {me, c1}
  Me = me
  Threads = 8
  Reserve = 1
  Exponents = {x1, x2}
  Salts = {s1}
  Draws = {0}
  KeyPairs = {pairA, pairB}
  ServerPair = pairA
  IntMax = 1
  Null = Null
PROPERTIES HandshakeResolves EchoKeepsGoing 
