SPECIFICATION Spec
CONSTANTS
  Exponents = {x1, x2}
  Salts = {s1, s2}
  Draws <- MCDraws
  KeyPairs = {pairA, pairB}
  ServerPair = pairA
  IntMax = 3
  Null = Null
CHECK_DEADLOCK FALSE
INVARIANTS TypeOK KeyAgreement OneInFlight EchoParity ClientNeverGarbles
PROPERTIES OnlyGreetingGarbled EncryptionInstalledOnce HandshakeResolves PlaysEchoGame
