------------------------- MODULE KeyExchange_proofs -------------------------
(* Proofs about KeyExchange, for any exponents, salts, draws, key pairs and    *)
(* integer width.                                                              *)
EXTENDS KeyExchange, TLAPS

\* Whatever the chi-squared distribution draws, std::min(., 5) followed by
\* std::max(., 20) gives 20 rounds (central_server:91-93): the draw has no effect.
THEOREM RoundsAlwaysTwenty == \A draw \in Nat : Rounds(draw) = 20
  BY DEF Rounds

------------------------------------------------------------------------------
(* Type correctness *)

LEMMA IncType == \A n \in Int32 : Inc(n) \in Int32
  BY ConstantsAssumption DEF Int32, Inc

LEMMA IncParity == \A n \in Int32 : Inc(n) % 2 = 1 - (n % 2)
  BY ConstantsAssumption DEF Int32, Inc

LEMMA DHRequestType == \A x \in Exponents : DHRequest(x) \in Requests
  BY DEF DHRequest, Requests, PublicKey, PublicKeys

LEMMA DHResponseType ==
  \A y \in Exponents, salt \in Salts, draw \in Draws : DHResponse(y, salt, draw) \in Responses
<1> TAKE y \in Exponents, salt \in Salts, draw \in Draws
<1>1. Rounds(draw) \in Nat
  BY ConstantsAssumption, RoundsAlwaysTwenty
<1>2. PublicKey(y) \in PublicKeys
  BY DEF PublicKey, PublicKeys
<1> QED
  BY <1>1, <1>2, ConstantsAssumption DEF DHResponse, Responses

LEMMA UInt16Type == \A n \in Nat : UInt16(n) \in UInt16Values
<1>1. UInt16Count \in Nat \ {0}
  BY DEF UInt16Count
<1> QED
  BY <1>1 DEF UInt16, UInt16Values

LEMMA DeriveKeyType ==
  \A x \in Exponents, k \in PublicKeys, r \in Responses : DeriveKey(x, k, r) \in AESKeys
<1> TAKE x \in Exponents, k \in PublicKeys, r \in Responses
<1>1. r.salt \in Salts /\ r.n_rounds \in Nat
  BY DEF Responses
<1>2. UInt16(r.n_rounds) \in UInt16Values
  BY <1>1, UInt16Type
<1>3. SharedSecret(x, k) \in SUBSET Exponents
  BY DEF SharedSecret, PublicKeys
<1>4. DeriveKey(x, k, r) = [secret |-> SharedSecret(x, k), salt |-> r.salt,
                            rounds |-> UInt16(r.n_rounds)]
  BY DEF DeriveKey, AES256
<1> QED
  BY <1>1, <1>2, <1>3, <1>4 DEF AESKeys

\* both ends derive the same key from one response
LEMMA DeriveKeyAgrees ==
  \A x, y \in Exponents, salt \in Salts, draw \in Draws :
    LET r == DHResponse(y, salt, draw)
    IN  DeriveKey(x, r.public_key, r) = DeriveKey(y, PublicKey(x), r)
  BY DEF DHResponse, DeriveKey, SharedSecret, PublicKey

\* a packet's kind tells its fields
LEMMA KindType ==
  \A p \in Packets : /\ p.kind = "DHRequest"  => p \in Requests
                     /\ p.kind = "DHResponse" => p \in Responses
                     /\ p.kind = "Echo"       => p \in Echoes
  BY DEF Packets, Requests, Responses, Echoes

LEMMA RemoveType ==
  ASSUME NEW S, NEW s \in Seq(S), NEW i \in DOMAIN s
  PROVE  RemoveAt(s, i) \in Seq(S)
  BY DEF RemoveAt

LEMMA HeadTailType ==
  ASSUME NEW S, NEW s \in Seq(S), s # <<>>
  PROVE  Head(s) \in S /\ Tail(s) \in Seq(S)
  OBVIOUS

LEMMA PeerType == \A s \in Sides : Peer(s) \in Sides /\ Peer(s) # s /\ Peer(Peer(s)) = s
  BY DEF Sides, Peer

LEMMA SentType ==
  ASSUME TypeOK, NEW from \in Sides, NEW p \in Packets
  PROVE  Sent(from, p) \in [Sides -> Seq([packet : Packets, cipher : Ciphers])]
<1>1. [packet |-> p, cipher |-> enc[from]] \in [packet : Packets, cipher : Ciphers]
  BY DEF TypeOK
<1>2. wire[Peer(from)] \in Seq([packet : Packets, cipher : Ciphers])
  BY PeerType DEF TypeOK
<1>3. Append(wire[Peer(from)], [packet |-> p, cipher |-> enc[from]])
         \in Seq([packet : Packets, cipher : Ciphers])
  BY <1>1, <1>2
<1> QED
  BY <1>3, PeerType DEF TypeOK, Sent

LEMMA TypeInit == Init => TypeOK
  BY DEF Init, TypeOK, Ciphers

LEMMA TypeStep == TypeOK /\ [Next]_vars => TypeOK'
<1> SUFFICES ASSUME TypeOK, [Next]_vars PROVE TypeOK'
  OBVIOUS
<1> USE PeerType
<1>1. CASE Connect
  BY <1>1 DEF Connect, TypeOK, Sides
<1>2. CASE RequestKey
  <2>1. DHRequest(dh') \in Packets
    BY <1>2, DHRequestType DEF RequestKey, Packets
  <2>2. wire' \in [Sides -> Seq([packet : Packets, cipher : Ciphers])]
    BY <1>2, <2>1, SentType DEF RequestKey, Sides
  <2> QED
    BY <1>2, <2>2 DEF RequestKey, TypeOK
<1>3. CASE VerifyResponse
  <2>1. held' \in Responses
    <3>1. PICK i \in DOMAIN inbox["client"] :
            inbox["client"][i].kind = "DHResponse" /\ held' = inbox["client"][i]
      BY <1>3 DEF VerifyResponse
    <3>2. inbox["client"][i] \in Packets
      BY <3>1 DEF TypeOK, Sides
    <3> QED
      BY <3>1, <3>2, KindType
  <2>2. inbox' \in [Sides -> Seq(Packets)]
    BY <1>3, RemoveType DEF VerifyResponse, Claim, TypeOK, Sides
  <2>3. /\ wire' \in [Sides -> Seq([packet : Packets, cipher : Ciphers])]
        /\ link' \in [Sides -> {"none", "open", "closed"}]
    <3>1. CASE UNCHANGED <<link, wire>>
      BY <3>1 DEF TypeOK
    <3>2. CASE Close("client")
      BY <3>2 DEF Close, TypeOK, Sides
    <3> QED
      BY <1>3, <3>1, <3>2 DEF VerifyResponse
  <2> QED
    BY <1>3, <2>1, <2>2, <2>3 DEF VerifyResponse, TypeOK
<1>4. CASE InstallKey
  <2>1. held.public_key \in PublicKeys
    BY <1>4 DEF InstallKey, TypeOK, Responses
  <2>2. DeriveKey(dh, held.public_key, held) \in Ciphers
    BY <1>4, <2>1, DeriveKeyType DEF InstallKey, TypeOK, Ciphers
  <2> QED
    BY <1>4, <2>2 DEF InstallKey, TypeOK
<1>5. CASE Greet
  <2>1. Echo(0) \in Packets
    BY ConstantsAssumption DEF Echo, Packets, Echoes, Int32
  <2>2. wire' \in [Sides -> Seq([packet : Packets, cipher : Ciphers])]
    BY <1>5, <2>1, SentType DEF Greet, Sides
  <2> QED
    BY <1>5, <2>2 DEF Greet, TypeOK
<1>6. CASE Accept
  BY <1>6 DEF Accept, TypeOK
<1>7. CASE Register
  BY <1>7 DEF Register, TypeOK
<1>8. CASE encryption_handler_server
  <2>1. PICK i \in DOMAIN inbox["server"], y \in Exponents, salt \in Salts, draw \in Draws :
          /\ inbox["server"][i].kind = "DHRequest"
          /\ Claim("server", i)
          /\ pending' = DeriveKey(y, inbox["server"][i].public_key, DHResponse(y, salt, draw))
          /\ wire' = Sent("server", DHResponse(y, salt, draw))
    BY <1>8 DEF encryption_handler_server
  <2>2. inbox["server"][i].public_key \in PublicKeys
    BY <2>1 DEF TypeOK, Packets, Requests, Responses, Echoes, Sides
  <2>3. pending' \in Ciphers
    BY <2>1, <2>2, DeriveKeyType, DHResponseType DEF Ciphers
  <2>4. DHResponse(y, salt, draw) \in Packets
    BY DHResponseType DEF Packets
  <2>5. wire' \in [Sides -> Seq([packet : Packets, cipher : Ciphers])]
    BY <2>1, <2>4, SentType DEF Sides
  <2>6. inbox' \in [Sides -> Seq(Packets)]
    BY <2>1, RemoveType DEF Claim, TypeOK, Sides
  <2> QED
    BY <1>8, <2>3, <2>5, <2>6 DEF encryption_handler_server, TypeOK
<1>9. CASE ServerInstall
  BY <1>9 DEF ServerInstall, TypeOK, Ciphers
<1>10. ASSUME NEW side \in Sides, process_echo(side) PROVE TypeOK'
  <2>1. PICK i \in DOMAIN inbox[side] :
          /\ inbox[side][i].kind = "Echo"
          /\ Claim(side, i)
          /\ wire' = Sent(side, Echo(Inc(inbox[side][i].echo_message)))
    BY <1>10 DEF process_echo
  <2>2. inbox[side][i].echo_message \in Int32
    BY <2>1 DEF TypeOK, Packets, Requests, Responses, Echoes
  <2>3. Echo(Inc(inbox[side][i].echo_message)) \in Packets
    BY <2>2, IncType DEF Echo, Echoes, Packets
  <2>4. wire' \in [Sides -> Seq([packet : Packets, cipher : Ciphers])]
    BY <2>1, <2>3, SentType
  <2>5. inbox' \in [Sides -> Seq(Packets)]
    BY <2>1, RemoveType DEF Claim, TypeOK
  <2> QED
    BY <1>10, <2>4, <2>5 DEF process_echo, TypeOK
<1>11. ASSUME NEW side \in Sides, Receive(side) PROVE TypeOK'
  <2>1. /\ wire[side] \in Seq([packet : Packets, cipher : Ciphers])
        /\ wire[side] # <<>>
    BY <1>11 DEF Receive, TypeOK
  <2>2. /\ Head(wire[side]) \in [packet : Packets, cipher : Ciphers]
        /\ Tail(wire[side]) \in Seq([packet : Packets, cipher : Ciphers])
    BY <2>1, HeadTailType
  <2>3. Append(inbox[side], Head(wire[side]).packet) \in Seq(Packets)
    BY <2>2 DEF TypeOK
  <2>4. wire' \in [Sides -> Seq([packet : Packets, cipher : Ciphers])]
    BY <1>11, <2>2 DEF Receive, TypeOK
  <2>5. inbox' \in [Sides -> Seq(Packets)]
    <3>1. \/ inbox' = [inbox EXCEPT ![side] = Append(@, Head(wire[side]).packet)]
          \/ inbox' = inbox
      BY <1>11 DEF Receive
    <3>2. inbox \in [Sides -> Seq(Packets)]
      BY DEF TypeOK
    <3> QED
      BY <2>3, <3>1, <3>2
  <2>6. garbled' \in SUBSET Sides
    BY <1>11 DEF Receive, TypeOK
  <2>7. UNCHANGED <<trusted, cpc, dh, held, pending, handlers, link, enc>>
    BY <1>11 DEF Receive
  <2> QED
    BY <2>4, <2>5, <2>6, <2>7 DEF TypeOK
<1>12. ASSUME NEW side \in Sides, Fail(side) \/ NoticeClose(side) PROVE TypeOK'
  <2>1. Close(side) /\ UNCHANGED <<trusted, cpc, dh, held, pending, handlers, enc,
                                   inbox, garbled>>
    BY <1>12 DEF Fail, NoticeClose
  <2>2. wire' \in [Sides -> Seq([packet : Packets, cipher : Ciphers])]
    <3>1. wire \in [Sides -> Seq([packet : Packets, cipher : Ciphers])]
      BY DEF TypeOK
    <3>2. <<>> \in Seq([packet : Packets, cipher : Ciphers])
      OBVIOUS
    <3> QED
      BY <2>1, <3>1, <3>2 DEF Close
  <2>3. link' \in [Sides -> {"none", "open", "closed"}]
    <3>1. link \in [Sides -> {"none", "open", "closed"}]
      BY DEF TypeOK
    <3> QED
      BY <2>1, <3>1 DEF Close
  <2> QED
    BY <2>1, <2>2, <2>3 DEF TypeOK
<1>13. CASE UNCHANGED vars
  BY <1>13 DEF vars, TypeOK
<1> QED
  BY <1>1, <1>2, <1>3, <1>4, <1>5, <1>6, <1>7, <1>8, <1>9, <1>10, <1>11, <1>12,
     <1>13 DEF Next

\* Every variable of the specification keeps its type.
THEOREM TypeCorrect == Spec => []TypeOK
  BY TypeInit, TypeStep, PTL DEF Spec

------------------------------------------------------------------------------
(* The inductive invariant: the connection is in one of seven phases, each of  *)
(* which says where the one packet is, and under which cipher.                 *)

Quiet == \A s \in Sides : wire[s] = <<>> /\ inbox[s] = <<>>

\* the only packet is on its way to `side`, sent under `cipher`
InWire(side, p, cipher) ==
  /\ wire[side] = <<[packet |-> p, cipher |-> cipher]>> /\ inbox[side] = <<>>
  /\ wire[Peer(side)] = <<>> /\ inbox[Peer(side)] = <<>>

\* the only packet is decoded at `side` and not claimed
InBox(side, p) ==
  /\ wire[side] = <<>> /\ inbox[side] = <<p>>
  /\ wire[Peer(side)] = <<>> /\ inbox[Peer(side)] = <<>>

KeyOf(response) == DeriveKey(dh, response.public_key, response)

\* the server has computed the key, and may or may not have installed it
ServerHas(key) == \/ pending = key /\ enc["server"] = Null
                  \/ pending = Null /\ enc["server"] = key

NoKeys == enc["client"] = Null /\ enc["server"] = Null /\ pending = Null

\* the echo with number n is on its way to `side` or unclaimed there
EchoTurn(side, n) ==
  /\ n % 2 = IF side = "server" THEN 0 ELSE 1
  /\ \/ InWire(side, Echo(n), KeyOf(held))
     \/ InBox(side, Echo(n)) /\ enc["server"] = KeyOf(held)
  /\ side = "client" => enc["server"] = KeyOf(held)
  /\ n = 0 \/ enc["server"] = KeyOf(held)

BothHave == ServerHas(KeyOf(held)) /\ enc["client"] = KeyOf(held)

Idle      == cpc \in {"main", "refused", "spawned"} /\ Quiet /\ NoKeys /\ garbled = {}
Asking    == /\ cpc = "await" /\ NoKeys /\ garbled = {}
             /\ InWire("server", DHRequest(dh), Null) \/ InBox("server", DHRequest(dh))
Answering == /\ cpc = "await" /\ enc["client"] = Null /\ garbled = {}
             /\ \E r \in Responses : /\ InWire("client", r, Null) \/ InBox("client", r)
                                     /\ ServerHas(KeyOf(r))
Holding   == /\ cpc \in {"install", "greet"} /\ Quiet /\ garbled = {}
             /\ ServerHas(KeyOf(held))
             /\ enc["client"] = IF cpc = "install" THEN Null ELSE KeyOf(held)
Playing   == /\ cpc = "done" /\ held \in Responses /\ BothHave /\ garbled = {}
             /\ \E side \in Sides, n \in Int32 : EchoTurn(side, n)
Over      == /\ cpc = "done" /\ held \in Responses /\ BothHave /\ Quiet
             /\ garbled \subseteq {"server"}
Lost      == /\ cpc = "await" /\ Quiet /\ enc["client"] = Null /\ garbled = {}
             /\ pending = Null \/ enc["server"] = Null

Phase == Idle \/ Asking \/ Answering \/ Holding \/ Playing \/ Over \/ Lost

IInv == TypeOK /\ Phase

\* how the elementary steps move the one packet

LEMMA SendMoves ==
  ASSUME TypeOK, NEW from \in Sides, NEW p, NEW cipher, cipher = enc[from],
         \A s \in Sides : wire[s] = <<>> /\ inbox'[s] = <<>>,
         wire' = Sent(from, p)
  PROVE  Quiet' \/ InWire(Peer(from), p, cipher)'
<1>1. CASE wire' = wire
  BY <1>1 DEF Quiet
<1>2. CASE wire' = [wire EXCEPT ![Peer(from)] = Append(@, [packet |-> p, cipher |-> cipher])]
  <2> DEFINE item == [packet |-> p, cipher |-> cipher]
  <2>1. Peer(from) \in DOMAIN wire /\ wire[Peer(from)] = <<>> /\ wire[from] = <<>>
    BY PeerType DEF TypeOK
  <2>2. Append(<<>>, item) = <<item>>
    OBVIOUS
  <2>3. wire' = [wire EXCEPT ![Peer(from)] = <<item>>]
    BY <1>2, <2>1, <2>2, Zenon
  <2>4. wire'[Peer(from)] = <<item>> /\ wire'[from] = <<>>
    BY <2>1, <2>3, PeerType
  <2> QED
    BY <2>4, PeerType DEF InWire
<1> QED
  BY <1>1, <1>2 DEF Sent

LEMMA ClaimTakes ==
  ASSUME TypeOK, NEW side \in Sides, NEW p, InBox(side, p),
         NEW i \in DOMAIN inbox[side], Claim(side, i)
  PROVE  /\ inbox[side][i] = p
         /\ \A s \in Sides : wire[s] = <<>> /\ inbox'[s] = <<>>
<1>1. inbox[side] = <<p>> /\ i = 1
  BY DEF InBox
<1>2. RemoveAt(inbox[side], i) = <<>>
  BY <1>1 DEF RemoveAt
<1>3. inbox'[side] = <<>> /\ inbox'[Peer(side)] = <<>>
  BY <1>2, PeerType DEF Claim, InBox, TypeOK
<1>4. \A s \in Sides : s = side \/ s = Peer(side)
  BY DEF Sides, Peer
<1> QED
  BY <1>1, <1>3, <1>4 DEF InBox

LEMMA ReceiveMoves ==
  ASSUME TypeOK, NEW side \in Sides, NEW to \in Sides, NEW p, NEW cipher,
         InWire(to, p, cipher), Receive(side)
  PROVE  /\ side = to
         /\ cipher = enc[side] => InBox(side, p)' /\ UNCHANGED garbled
         /\ cipher # enc[side] => Quiet' /\ garbled' = garbled \cup {side}
<1>1. side = to
  BY DEF Receive, InWire, Sides, Peer
<1>2. /\ wire[side] = <<[packet |-> p, cipher |-> cipher]>> /\ inbox[side] = <<>>
      /\ wire[Peer(side)] = <<>> /\ inbox[Peer(side)] = <<>>
  BY <1>1 DEF InWire
<1>3. Head(wire[side]).packet = p /\ Head(wire[side]).cipher = cipher
  BY <1>2
<1>4. wire'[side] = <<>> /\ wire'[Peer(side)] = <<>>
  BY <1>2, PeerType DEF Receive, TypeOK
<1>5. \A s \in Sides : s = side \/ s = Peer(side)
  BY DEF Sides, Peer
<1>6. CASE cipher = enc[side]
  <2>1. inbox' = [inbox EXCEPT ![side] = Append(@, p)] /\ UNCHANGED garbled
    BY <1>3, <1>6 DEF Receive
  <2>2. inbox'[side] = <<p>> /\ inbox'[Peer(side)] = <<>>
    BY <1>2, <2>1, PeerType DEF TypeOK
  <2> QED
    BY <1>1, <1>4, <1>6, <2>1, <2>2 DEF InBox
<1>7. CASE cipher # enc[side]
  <2>1. inbox' = inbox /\ garbled' = garbled \cup {side}
    BY <1>3, <1>7 DEF Receive
  <2> QED
    BY <1>1, <1>2, <1>4, <1>5, <1>7, <2>1 DEF Quiet
<1> QED
  BY <1>1, <1>6, <1>7

\* what does not move it, or loses it, keeps the invariant
LEMMA PhaseKept ==
  ASSUME Phase, UNCHANGED <<cpc, dh, held, pending, enc, wire, inbox, garbled>>
  PROVE  Phase'
<1> USE DEF Quiet, InWire, InBox, KeyOf, ServerHas, NoKeys, EchoTurn, BothHave
<1>1. CASE Idle
  BY <1>1 DEF Idle, Phase
<1>2. CASE Asking
  BY <1>2 DEF Asking, Phase
<1>3. CASE Answering
  BY <1>3 DEF Answering, Phase
<1>4. CASE Holding
  BY <1>4 DEF Holding, Phase
<1>5. CASE Playing
  BY <1>5 DEF Playing, Phase
<1>6. CASE Over
  BY <1>6 DEF Over, Phase
<1>7. CASE Lost
  BY <1>7 DEF Lost, Phase
<1> QED
  BY <1>1, <1>2, <1>3, <1>4, <1>5, <1>6, <1>7 DEF Phase

LEMMA PhaseIfLost ==
  ASSUME Phase, Quiet', UNCHANGED <<cpc, dh, held, pending, enc, garbled>>
  PROVE  Phase'
<1> USE DEF KeyOf, ServerHas, NoKeys, BothHave
<1>1. CASE Idle
  BY <1>1 DEF Idle, Phase
<1>2. CASE Asking \/ Answering \/ Lost
  BY <1>2 DEF Asking, Answering, Lost, Phase
<1>3. CASE Holding
  BY <1>3 DEF Holding, Phase
<1>4. CASE Playing \/ Over
  BY <1>4 DEF Playing, Over, Phase
<1> QED
  BY <1>1, <1>2, <1>3, <1>4 DEF Phase

LEMMA CloseMoves ==
  ASSUME TypeOK, Phase, NEW side \in Sides, Close(side), inbox' = inbox
  PROVE  wire' = wire \/ Quiet'
<1>1. CASE wire[side] = <<>>
  BY <1>1 DEF Close, TypeOK
<1>2. CASE wire[side] # <<>>
  <2>1. inbox[side] = <<>> /\ wire[Peer(side)] = <<>> /\ inbox[Peer(side)] = <<>>
    <3>1. ~Quiet /\ \A t \in Sides : \A p : ~InBox(t, p)
      BY <1>2, PeerType DEF Quiet, InBox, Sides, Peer
    <3>2. PICK t \in Sides : \E p, cipher : InWire(t, p, cipher)
      BY <3>1 DEF Phase, Idle, Asking, Answering, Holding, Playing, EchoTurn, Over, Lost,
                  Sides
    <3> QED
      BY <1>2, <3>2 DEF InWire, Sides, Peer
  <2>2. wire'[side] = <<>> /\ wire'[Peer(side)] = <<>>
    BY <2>1, PeerType DEF Close, TypeOK
  <2> QED
    BY <2>1, <2>2 DEF Quiet, Sides, Peer
<1> QED
  BY <1>1, <1>2

LEMMA CloseKeeps ==
  ASSUME TypeOK, Phase, NEW side \in Sides, Close(side),
         UNCHANGED <<cpc, dh, held, pending, enc, inbox, garbled>>
  PROVE  Phase'
  BY CloseMoves, PhaseKept, PhaseIfLost

\* one lemma per action that moves the connection to another phase

LEMMA RequestKeyStep == IInv /\ RequestKey => Phase'
<1> SUFFICES ASSUME IInv, RequestKey PROVE Phase'
  OBVIOUS
<1>1. Idle
  BY DEF IInv, Phase, RequestKey, Asking, Answering, Holding, Playing, Over, Lost
<1>2. PICK p : p = DHRequest(dh')
  OBVIOUS
<1>3. PICK cipher : cipher = enc["client"] /\ cipher = Null
  BY <1>1 DEF Idle, NoKeys
<1>4. \A s \in Sides : wire[s] = <<>> /\ inbox'[s] = <<>>
  BY <1>1 DEF Idle, Quiet, RequestKey
<1>5. Quiet' \/ InWire(Peer("client"), p, cipher)'
  BY <1>2, <1>3, <1>4, SendMoves DEF RequestKey, IInv, Sides
<1>6. cpc' = "await" /\ UNCHANGED <<held, pending, enc, garbled>>
  BY DEF RequestKey
<1>7. CASE Quiet'
  BY <1>1, <1>6, <1>7 DEF Idle, NoKeys, Lost, Phase
<1>8. CASE InWire(Peer("client"), p, cipher)'
  <2>1. InWire("server", DHRequest(dh), Null)'
    BY <1>2, <1>3, <1>8 DEF InWire, Peer
  <2> QED
    BY <1>1, <1>6, <2>1 DEF Idle, NoKeys, Asking, Phase
<1> QED
  BY <1>5, <1>7, <1>8

\* an unclaimed packet tells the phase
LEMMA UnclaimedTells ==
  ASSUME IInv, NEW side \in Sides, inbox[side] # <<>>
  PROVE  \E p : /\ InBox(side, p)
                /\ \/ Asking /\ side = "server" /\ p = DHRequest(dh)
                   \/ Answering /\ side = "client" /\ p \in Responses /\ ServerHas(KeyOf(p))
                   \/ Playing /\ \E n \in Int32 : EchoTurn(side, n) /\ p = Echo(n)
<1>1. ~Quiet /\ \A t \in Sides : \A p, cipher : ~InWire(t, p, cipher)
  BY DEF Quiet, InWire, Sides, Peer
<1>2. \A t \in Sides : \A p : InBox(t, p) => t = side
  BY DEF InBox, Sides, Peer
<1>3. CASE Asking
  BY <1>1, <1>2, <1>3 DEF Asking, Sides
<1>4. CASE Answering
  BY <1>1, <1>2, <1>4 DEF Answering, Sides
<1>5. CASE Playing
  <2>1. PICK t \in Sides, n \in Int32 : EchoTurn(t, n)
    BY <1>5 DEF Playing
  <2>2. InBox(t, Echo(n)) /\ t = side
    BY <1>1, <1>2, <2>1 DEF EchoTurn
  <2> QED
    BY <1>5, <2>1, <2>2
<1> QED
  BY <1>1, <1>3, <1>4, <1>5 DEF IInv, Phase, Idle, Holding, Over, Lost

LEMMA VerifyResponseStep == IInv /\ VerifyResponse => Phase'
<1> SUFFICES ASSUME IInv, VerifyResponse PROVE Phase'
  OBVIOUS
<1>1. PICK i \in DOMAIN inbox["client"] :
        /\ inbox["client"][i].kind = "DHResponse"
        /\ Claim("client", i)
        /\ held' = inbox["client"][i]
  BY DEF VerifyResponse
<1>2. inbox["client"] # <<>> /\ cpc = "await"
  BY <1>1 DEF VerifyResponse
<1>3. PICK r : /\ InBox("client", r)
               /\ Answering /\ r \in Responses /\ ServerHas(KeyOf(r))
  BY <1>2, UnclaimedTells DEF Asking, Playing, Sides
<1>4. held' = r /\ \A s \in Sides : wire[s] = <<>> /\ inbox'[s] = <<>>
  BY <1>1, <1>3, ClaimTakes DEF IInv, Sides
<1>5. wire' = wire \/ wire' = [wire EXCEPT !["client"] = <<>>]
  BY DEF VerifyResponse, Close
<1>6. Quiet'
  BY <1>4, <1>5 DEF Quiet, IInv, TypeOK
<1>7. cpc' = "install" /\ UNCHANGED <<dh, pending, enc, garbled>>
  BY DEF VerifyResponse
<1>8. ServerHas(KeyOf(held))'
  BY <1>3, <1>4, <1>7 DEF ServerHas, KeyOf
<1> QED
  BY <1>3, <1>6, <1>7, <1>8 DEF Answering, Holding, Phase

LEMMA GreetStep == IInv /\ Greet => Phase'
<1> SUFFICES ASSUME IInv, Greet PROVE Phase'
  OBVIOUS
<1>1. Holding /\ cpc = "greet" /\ held \in Responses
  BY DEF IInv, Phase, Greet, Idle, Asking, Answering, Playing, Over, Lost, TypeOK
<1>2. PICK p : p = Echo(0)
  OBVIOUS
<1>3. PICK cipher : cipher = enc["client"] /\ cipher = KeyOf(held)
  BY <1>1 DEF Holding
<1>4. \A s \in Sides : wire[s] = <<>> /\ inbox'[s] = <<>>
  BY <1>1 DEF Holding, Quiet, Greet
<1>5. Quiet' \/ InWire(Peer("client"), p, cipher)'
  BY <1>2, <1>3, <1>4, SendMoves DEF Greet, IInv, Sides
<1>6. cpc' = "done" /\ UNCHANGED <<dh, held, pending, enc, garbled>>
  BY DEF Greet
<1>7. BothHave' /\ garbled' = {} /\ held' \in Responses
  BY <1>1, <1>6 DEF Holding, BothHave, ServerHas, KeyOf
<1>8. CASE Quiet'
  BY <1>6, <1>7, <1>8 DEF Over, Phase
<1>9. CASE InWire(Peer("client"), p, cipher)'
  <2>1. InWire("server", Echo(0), KeyOf(held))'
    BY <1>2, <1>3, <1>6, <1>9 DEF InWire, Peer, KeyOf
  <2>2. 0 % 2 = 0 /\ 0 \in Int32
    BY ConstantsAssumption DEF Int32
  <2>3. EchoTurn("server", 0)'
    BY <2>1, <2>2 DEF EchoTurn
  <2> QED
    BY <1>6, <1>7, <2>2, <2>3 DEF Playing, Phase, Sides
<1> QED
  BY <1>5, <1>8, <1>9

LEMMA ServerAnswerStep == IInv /\ encryption_handler_server => Phase'
<1> SUFFICES ASSUME IInv, encryption_handler_server PROVE Phase'
  OBVIOUS
<1>1. PICK i \in DOMAIN inbox["server"], y \in Exponents, salt \in Salts, draw \in Draws :
        /\ inbox["server"][i].kind = "DHRequest"
        /\ Claim("server", i)
        /\ pending' = DeriveKey(y, inbox["server"][i].public_key, DHResponse(y, salt, draw))
        /\ wire' = Sent("server", DHResponse(y, salt, draw))
  BY DEF encryption_handler_server
<1>2. PICK p : /\ InBox("server", p)
               /\ \/ Asking /\ p = DHRequest(dh)
                  \/ \E n \in Int32 : p = Echo(n)
  BY <1>1, UnclaimedTells DEF Sides
<1>3. inbox["server"][i] = p /\ \A s \in Sides : wire[s] = <<>> /\ inbox'[s] = <<>>
  BY <1>1, <1>2, ClaimTakes DEF IInv, Sides
<1>4. Asking /\ p = DHRequest(dh)
  BY <1>1, <1>2, <1>3 DEF Echo
<1>5. PICK r : r = DHResponse(y, salt, draw)
  OBVIOUS
<1>6. r \in Responses
  BY <1>5, DHResponseType
<1>7. dh \in Exponents
  BY <1>4 DEF Asking, IInv, TypeOK
<1>8. pending' = KeyOf(r)
  BY <1>1, <1>3, <1>4, <1>5, <1>7, DeriveKeyAgrees DEF KeyOf, DHRequest
<1>9. PICK cipher : cipher = enc["server"] /\ cipher = Null
  BY <1>4 DEF Asking, NoKeys
<1>10. Quiet' \/ InWire(Peer("server"), r, cipher)'
  BY <1>1, <1>3, <1>5, <1>9, SendMoves DEF IInv, Sides
<1>11. UNCHANGED <<cpc, dh, enc, garbled>>
  BY DEF encryption_handler_server
<1>12. CASE Quiet'
  BY <1>4, <1>11, <1>12 DEF Asking, NoKeys, Lost, Phase
<1>13. CASE InWire(Peer("server"), r, cipher)'
  <2>1. InWire("client", r, Null)'
    BY <1>9, <1>13 DEF InWire, Peer
  <2>2. ServerHas(KeyOf(r))'
    BY <1>4, <1>8, <1>11 DEF ServerHas, KeyOf, Asking, NoKeys
  <2> QED
    BY <1>4, <1>6, <1>11, <2>1, <2>2 DEF Asking, NoKeys, Answering, Phase
<1> QED
  BY <1>10, <1>12, <1>13

LEMMA ServerInstallStep == IInv /\ ServerInstall => Phase'
<1> SUFFICES ASSUME IInv, ServerInstall PROVE Phase'
  OBVIOUS
<1>1. /\ UNCHANGED <<cpc, dh, held, wire, inbox, garbled>>
      /\ pending # Null /\ pending' = Null /\ enc'["server"] = pending
      /\ enc'["client"] = enc["client"]
  BY DEF ServerInstall, IInv, TypeOK, Sides
<1>2. \A key : ServerHas(key) => ServerHas(key)' /\ enc'["server"] = key
  BY <1>1 DEF ServerHas
<1>3. ~NoKeys
  BY <1>1 DEF NoKeys
<1>4. CASE Answering
  <2>1. PICK r \in Responses : /\ InWire("client", r, Null) \/ InBox("client", r)
                              /\ ServerHas(KeyOf(r))
    BY <1>4 DEF Answering
  <2>2. (InWire("client", r, Null) \/ InBox("client", r))' /\ KeyOf(r)' = KeyOf(r)
    BY <1>1, <2>1 DEF InWire, InBox, KeyOf
  <2>3. ServerHas(KeyOf(r))'
    BY <1>1, <1>2, <2>1, <2>2 DEF ServerHas
  <2> QED
    BY <1>1, <1>4, <2>2, <2>3 DEF Answering, Phase
<1>5. ASSUME ServerHas(KeyOf(held))
      PROVE  /\ KeyOf(held)' = KeyOf(held) /\ ServerHas(KeyOf(held))'
             /\ enc'["server"] = KeyOf(held)
  BY <1>1, <1>2, <1>5 DEF KeyOf, ServerHas
<1>6. CASE Holding
  BY <1>1, <1>5, <1>6 DEF Holding, Quiet, Phase
<1>7. CASE Playing
  <2>1. PICK side \in Sides, n \in Int32 : EchoTurn(side, n)
    BY <1>7 DEF Playing
  <2>2. KeyOf(held)' = KeyOf(held) /\ enc'["server"] = KeyOf(held) /\ BothHave'
    BY <1>1, <1>5, <1>7 DEF Playing, BothHave
  <2>3. EchoTurn(side, n)'
    BY <1>1, <2>1, <2>2 DEF EchoTurn, InWire, InBox
  <2> QED
    BY <1>1, <1>7, <2>2, <2>3 DEF Playing, Phase
<1>8. CASE Over
  BY <1>1, <1>5, <1>8 DEF Over, BothHave, Quiet, Phase
<1>9. CASE Lost
  BY <1>1, <1>9 DEF Lost, Quiet, Phase
<1> QED
  BY <1>3, <1>4, <1>6, <1>7, <1>8, <1>9 DEF IInv, Phase, Idle, Asking

LEMMA InstallKeyStep == IInv /\ InstallKey => Phase'
<1> SUFFICES ASSUME IInv, InstallKey PROVE Phase'
  OBVIOUS
<1>1. Holding /\ cpc = "install"
  BY DEF IInv, Phase, InstallKey, Idle, Asking, Answering, Playing, Over, Lost
<1>2. /\ cpc' = "greet" /\ UNCHANGED <<dh, held, pending, wire, inbox, garbled>>
      /\ enc'["client"] = KeyOf(held) /\ enc'["server"] = enc["server"]
  BY DEF InstallKey, IInv, TypeOK, Sides, KeyOf
<1>3. KeyOf(held)' = KeyOf(held)
  BY <1>2 DEF KeyOf
<1> QED
  BY <1>1, <1>2, <1>3 DEF Holding, ServerHas, Quiet, Phase

LEMMA EchoStep == ASSUME IInv, NEW side \in Sides, process_echo(side) PROVE Phase'
<1>1. PICK i \in DOMAIN inbox[side] :
        /\ inbox[side][i].kind = "Echo"
        /\ Claim(side, i)
        /\ wire' = Sent(side, Echo(Inc(inbox[side][i].echo_message)))
  BY DEF process_echo
<1>2. inbox[side] # <<>>
  BY <1>1
<1>3. PICK p : /\ InBox(side, p)
               /\ \/ p = DHRequest(dh) \/ p \in Responses
                  \/ Playing /\ \E n \in Int32 : EchoTurn(side, n) /\ p = Echo(n)
  BY <1>2, UnclaimedTells
<1>4. inbox[side][i] = p /\ \A s \in Sides : wire[s] = <<>> /\ inbox'[s] = <<>>
  BY <1>1, <1>3, ClaimTakes DEF IInv
<1>5. Playing /\ \E n \in Int32 : EchoTurn(side, n) /\ p = Echo(n)
  BY <1>1, <1>3, <1>4 DEF DHRequest, Responses
<1>6. PICK n \in Int32 : EchoTurn(side, n) /\ p = Echo(n)
  BY <1>5
<1>7. PICK m : m = Inc(n)
  OBVIOUS
<1>8. m \in Int32 /\ m % 2 = IF Peer(side) = "server" THEN 0 ELSE 1
  <2>1. m \in Int32 /\ m % 2 = 1 - (n % 2)
    BY <1>7, IncType, IncParity
  <2>2. n % 2 = IF side = "server" THEN 0 ELSE 1
    BY <1>6 DEF EchoTurn
  <2>3. Peer(side) = "server" <=> side # "server"
    BY DEF Peer, Sides
  <2> QED
    BY <2>1, <2>2, <2>3
<1>9. PICK q : q = Echo(m)
  OBVIOUS
<1>10. wire' = Sent(side, q)
  BY <1>1, <1>4, <1>6, <1>7, <1>9 DEF Echo
<1>11. enc["server"] = KeyOf(held) /\ enc["client"] = KeyOf(held)
  BY <1>3, <1>5, <1>6 DEF Playing, BothHave, EchoTurn, InBox, InWire
<1>12. PICK cipher : cipher = enc[side] /\ cipher = KeyOf(held)
  BY <1>11 DEF Sides
<1>13. Quiet' \/ InWire(Peer(side), q, cipher)'
  BY <1>4, <1>10, <1>12, SendMoves DEF IInv
<1>14. UNCHANGED <<cpc, dh, held, pending, enc, garbled>>
  BY DEF process_echo
<1>15. BothHave' /\ KeyOf(held)' = KeyOf(held)
  BY <1>5, <1>14 DEF Playing, BothHave, ServerHas, KeyOf
<1>16. CASE Quiet'
  BY <1>5, <1>14, <1>15, <1>16 DEF Playing, Over, Phase
<1>17. CASE InWire(Peer(side), q, cipher)'
  <2>1. InWire(Peer(side), Echo(m), KeyOf(held))'
    BY <1>9, <1>12, <1>15, <1>17 DEF InWire
  <2>2. EchoTurn(Peer(side), m)'
    BY <1>8, <1>11, <1>14, <1>15, <2>1 DEF EchoTurn
  <2> QED
    BY <1>5, <1>8, <1>14, <1>15, <2>2, PeerType DEF Playing, Phase
<1> QED
  BY <1>13, <1>16, <1>17

LEMMA ReceiveStep == ASSUME IInv, NEW side \in Sides, Receive(side) PROVE Phase'
<1>1. wire[side] # <<>> /\ UNCHANGED <<cpc, dh, held, pending, enc>>
  BY DEF Receive
<1>2. ~Quiet /\ \A t \in Sides : \A p : ~InBox(t, p)
  BY <1>1 DEF Quiet, InBox, Sides, Peer
<1>3. CASE Asking
  <2>1. PICK p : p = DHRequest(dh)
    OBVIOUS
  <2>2. InWire("server", p, Null)
    BY <1>2, <1>3, <2>1 DEF Asking, Sides
  <2>3. InBox("server", p)' /\ UNCHANGED garbled
    BY <1>3, <2>2, ReceiveMoves DEF Asking, NoKeys, Sides, IInv
  <2>4. InBox("server", DHRequest(dh))'
    BY <1>1, <2>1, <2>3 DEF InBox
  <2> QED
    BY <1>1, <1>3, <2>3, <2>4 DEF Asking, NoKeys, Phase
<1>4. CASE Answering
  <2>1. PICK r \in Responses : InWire("client", r, Null) /\ ServerHas(KeyOf(r))
    BY <1>2, <1>4 DEF Answering, Sides
  <2>2. InBox("client", r)' /\ UNCHANGED garbled
    BY <1>4, <2>1, ReceiveMoves DEF Answering, Sides, IInv
  <2>3. ServerHas(KeyOf(r))'
    BY <1>1, <2>1 DEF ServerHas, KeyOf
  <2> QED
    BY <1>1, <1>4, <2>2, <2>3 DEF Answering, Phase
<1>5. CASE Playing
  <2>1. PICK t \in Sides, n \in Int32 : EchoTurn(t, n)
    BY <1>5 DEF Playing
  <2>2. PICK p : p = Echo(n)
    OBVIOUS
  <2>3. PICK key : key = KeyOf(held)
    OBVIOUS
  <2>4. InWire(t, p, key)
    BY <1>2, <2>1, <2>2, <2>3 DEF EchoTurn
  <2>5. /\ side = t
        /\ key = enc[side] => InBox(side, p)' /\ UNCHANGED garbled
        /\ key # enc[side] => Quiet' /\ garbled' = garbled \cup {side}
    BY <2>4, ReceiveMoves DEF IInv
  <2>6. BothHave' /\ KeyOf(held)' = key
    BY <1>1, <1>5, <2>3 DEF Playing, BothHave, ServerHas, KeyOf
  <2>7. CASE key = enc[side]
    <3>1. enc["server"] = key
      BY <2>1, <2>3, <2>5, <2>7 DEF EchoTurn, Sides
    <3>2. InBox(side, Echo(n))'
      BY <2>2, <2>5, <2>7 DEF InBox
    <3>3. EchoTurn(side, n)'
      BY <1>1, <2>1, <2>5, <2>6, <3>1, <3>2 DEF EchoTurn
    <3> QED
      BY <1>1, <1>5, <2>5, <2>6, <2>7, <3>3 DEF Playing, Phase
  <2>8. CASE key # enc[side]
    <3>1. side = "server"
      BY <1>5, <2>3, <2>8 DEF Playing, BothHave, Sides
    <3> QED
      BY <1>1, <1>5, <2>5, <2>6, <2>8, <3>1 DEF Playing, Over, Phase
  <2> QED
    BY <2>7, <2>8
<1> QED
  BY <1>2, <1>3, <1>4, <1>5 DEF IInv, Phase, Idle, Holding, Over, Lost

LEMMA PhaseStep == IInv /\ [Next]_vars => Phase'
<1> SUFFICES ASSUME IInv, [Next]_vars PROVE Phase'
  OBVIOUS
<1>1. CASE Connect
  BY <1>1 DEF Connect, IInv, Phase, Idle, Asking, Answering, Holding, Playing, Over, Lost,
              Quiet, NoKeys
<1>2. CASE Accept \/ Register \/ UNCHANGED vars
  BY <1>2, PhaseKept DEF Accept, Register, vars, IInv
<1>3. ASSUME NEW side \in Sides, Fail(side) \/ NoticeClose(side) PROVE Phase'
  BY <1>3, CloseKeeps DEF Fail, NoticeClose, IInv
<1> QED
  BY <1>1, <1>2, <1>3, RequestKeyStep, VerifyResponseStep, InstallKeyStep, GreetStep,
     ServerAnswerStep, ServerInstallStep, EchoStep, ReceiveStep DEF Next

LEMMA IInvInit == Init => IInv
  BY TypeInit DEF Init, IInv, Phase, Idle, Quiet, NoKeys, Sides

LEMMA IInvStep == IInv /\ [Next]_vars => IInv'
  BY TypeStep, PhaseStep DEF IInv

\* The connection never leaves the seven phases.
THEOREM PhaseInvariant == Spec => []IInv
  BY IInvInit, IInvStep, PTL DEF Spec

------------------------------------------------------------------------------
(* What follows from it *)

LEMMA PhasesAgree == IInv => KeyAgreement
  BY DEF IInv, Phase, KeyAgreement, Idle, Asking, Answering, Holding, Playing, Over, Lost,
         NoKeys, BothHave, ServerHas

\* Both ends that encrypt, encrypt with the same key, whatever is drawn, lost or
\* cut, and whenever the server's reader runs.
THEOREM KeysAgree == Spec => []KeyAgreement
  BY PhasesAgree, PhaseInvariant, PTL

LEMMA PhasesClientReads == IInv => ClientNeverGarbles
  BY DEF IInv, Phase, ClientNeverGarbles, Idle, Asking, Answering, Holding, Playing, Over,
         Lost

\* What the client decodes was sent under the cipher it has installed.
THEOREM ClientReadsAll == Spec => []ClientNeverGarbles
  BY PhasesClientReads, PhaseInvariant, PTL

\* what an end decodes wrongly
LEMMA GarbledIsGreeting ==
  ASSUME IInv, NEW side \in Sides, Receive(side), garbled' # garbled
  PROVE  /\ pending # Null /\ garbled' = garbled \cup {"server"}
         /\ wire["server"] # <<>> /\ Head(wire["server"]).packet = Echo(0)
<1>1. /\ wire[side] # <<>> /\ Head(wire[side]).cipher # enc[side]
      /\ garbled' = garbled \cup {side}
  BY DEF Receive
<1>2. \A t \in Sides : \A p, cipher :
        InWire(t, p, cipher) => t = side /\ p = Head(wire[side]).packet /\ cipher # enc[side]
  BY <1>1 DEF InWire, Sides, Peer
<1>3. ~Quiet /\ \A t \in Sides : \A p : ~InBox(t, p)
  BY <1>1 DEF Quiet, InBox, Sides, Peer
<1>4. Playing
  BY <1>2, <1>3 DEF IInv, Phase, Idle, Asking, Answering, Holding, Over, Lost, NoKeys, Sides
<1>5. PICK t \in Sides, n \in Int32 : EchoTurn(t, n)
  BY <1>4 DEF Playing
<1>6. PICK p : p = Echo(n)
  OBVIOUS
<1>7. InWire(t, p, KeyOf(held))
  BY <1>3, <1>5, <1>6 DEF EchoTurn
<1>8. t = side /\ p = Head(wire[side]).packet /\ KeyOf(held) # enc[side]
  BY <1>2, <1>7
<1>9. side = "server"
  BY <1>4, <1>8 DEF Playing, BothHave, Sides
<1>10. n = 0
  BY <1>5, <1>8, <1>9 DEF EchoTurn
<1>11. KeyOf(held) \in AESKeys
  <2>1. held \in Responses /\ dh \in Exponents
    BY <1>4 DEF Playing, IInv, TypeOK
  <2>2. held.public_key \in PublicKeys
    BY <2>1 DEF Responses
  <2> QED
    BY <2>1, <2>2, DeriveKeyType DEF KeyOf
<1>12. pending # Null
  BY <1>4, <1>8, <1>9, <1>11, NullAssumption DEF Playing, BothHave, ServerHas
<1> QED
  BY <1>1, <1>6, <1>8, <1>9, <1>10, <1>12

\* Whatever is drawn or lost and whenever an end decodes its input, the only packet
\* that can be decoded under another cipher than it was sent with is the client's
\* greeting, while the server is between its send and setup_encryption.
THEOREM GreetingOnlyGarbled == Spec => OnlyGreetingGarbled
<1> DEFINE A == garbled' # garbled =>
                  /\ pending # Null /\ garbled' = garbled \cup {"server"}
                  /\ wire["server"] # <<>> /\ Head(wire["server"]).packet = Echo(0)
<1>1. IInv /\ [Next]_vars => [A]_vars
  <2> SUFFICES ASSUME IInv, Next, garbled' # garbled PROVE A
    OBVIOUS
  <2>1. \E side \in Sides : Receive(side)
    BY DEF Next, Connect, RequestKey, VerifyResponse, InstallKey, Greet, Accept, Register,
           encryption_handler_server, ServerInstall, process_echo, Fail, NoticeClose
  <2> QED
    BY <2>1, GarbledIsGreeting
<1>2. Spec => [][A]_vars
  BY <1>1, PhaseInvariant, PTL DEF Spec
<1> QED
  BY <1>2 DEF OnlyGreetingGarbled

LEMMA PhasesKeepKeys ==
  ASSUME IInv, [Next]_vars
  PROVE  \A side \in Sides : enc[side] # Null => enc'[side] = enc[side]
<1>1. CASE InstallKey
  <2>1. enc["client"] = Null
    BY <1>1 DEF InstallKey, IInv, Phase, Idle, Asking, Answering, Holding, Playing, Over, Lost
  <2> QED
    BY <1>1, <2>1 DEF InstallKey, IInv, TypeOK, Sides
<1>2. CASE ServerInstall
  <2>1. enc["server"] = Null
    BY <1>2 DEF ServerInstall, IInv, Phase, Idle, Asking, Answering, Holding, Playing,
                Over, Lost, NoKeys, BothHave, ServerHas
  <2> QED
    BY <1>2, <2>1 DEF ServerInstall, IInv, TypeOK, Sides
<1>3. CASE ~InstallKey /\ ~ServerInstall
  <2>1. enc' = enc
    BY <1>3 DEF Next, vars, Connect, RequestKey, VerifyResponse, Greet, Accept, Register,
                encryption_handler_server, process_echo, Receive, Fail, NoticeClose
  <2> QED
    BY <2>1
<1> QED
  BY <1>1, <1>2, <1>3

\* Neither end ever replaces a key it has installed.
THEOREM KeysInstalledOnce == Spec => EncryptionInstalledOnce
<1>1. IInv /\ [Next]_vars =>
        [\A side \in Sides : enc[side] # Null => enc'[side] = enc[side]]_vars
  BY PhasesKeepKeys
<1> QED
  BY <1>1, PhaseInvariant, PTL DEF Spec, EncryptionInstalledOnce

\* what is under way or unclaimed at each end, by where the packet is
LEMMA UnclaimedNone ==
  Quiet => \A side \in Sides : Unclaimed(side) = <<>>
  BY DEF Unclaimed, Quiet

LEMMA UnclaimedOne ==
  \A side \in Sides : \A p, cipher :
    InWire(side, p, cipher) \/ InBox(side, p) =>
      Unclaimed(side) = <<p>> /\ Unclaimed(Peer(side)) = <<>>
<1> TAKE side \in Sides
<1> TAKE p, cipher
<1>1. CASE InBox(side, p)
  BY <1>1 DEF InBox, Unclaimed
<1>2. CASE InWire(side, p, cipher)
  BY <1>2 DEF InWire, Unclaimed
<1> QED
  BY <1>1, <1>2

LEMMA OnePacket ==
  IInv => \/ Quiet
          \/ \E side \in Sides : \E p, cipher : InWire(side, p, cipher) \/ InBox(side, p)
  BY DEF IInv, Phase, Idle, Asking, Answering, Holding, Playing, EchoTurn, Over, Lost, Sides

LEMMA PhasesOnePacket == IInv => OneInFlight
<1> SUFFICES ASSUME IInv PROVE OneInFlight
  OBVIOUS
<1>1. CASE Quiet
  BY <1>1, UnclaimedNone DEF OneInFlight, Sides
<1>2. ASSUME NEW side \in Sides, NEW p, NEW cipher, InWire(side, p, cipher) \/ InBox(side, p)
      PROVE  OneInFlight
  <2>1. Unclaimed(side) = <<p>> /\ Unclaimed(Peer(side)) = <<>>
    BY <1>2, UnclaimedOne
  <2>2. Len(Unclaimed(side)) = 1 /\ Len(Unclaimed(Peer(side))) = 0
    BY <2>1
  <2> QED
    BY <2>2 DEF OneInFlight, Sides, Peer
<1> QED
  BY <1>1, <1>2, OnePacket

\* The two programs take strict turns.
THEOREM OnePacketAtATime == Spec => []OneInFlight
  BY PhasesOnePacket, PhaseInvariant, PTL

LEMMA PhasesParity == IInv => EchoParity
<1> SUFFICES ASSUME IInv, NEW side \in Sides, NEW i \in DOMAIN Unclaimed(side),
                    Unclaimed(side)[i].kind = "Echo"
             PROVE  Unclaimed(side)[i].echo_message % 2 = IF side = "server" THEN 0 ELSE 1
  BY DEF EchoParity
<1>1. ~Quiet
  BY UnclaimedNone
<1>2. \A t \in Sides : \A p, cipher :
        InWire(t, p, cipher) \/ InBox(t, p) => t = side /\ Unclaimed(side)[i] = p
  <2> TAKE t \in Sides
  <2> TAKE p, cipher
  <2> HAVE InWire(t, p, cipher) \/ InBox(t, p)
  <2>1. Unclaimed(t) = <<p>> /\ Unclaimed(Peer(t)) = <<>>
    BY UnclaimedOne
  <2>2. t = side
    BY <2>1 DEF Sides, Peer
  <2> QED
    BY <2>1, <2>2
<1>3. Playing
  BY <1>1, <1>2 DEF IInv, Phase, Idle, Asking, Answering, Holding, Over, Lost,
                    Responses, DHRequest, Sides
<1>4. PICK t \in Sides, n \in Int32 : EchoTurn(t, n)
  BY <1>3 DEF Playing
<1>5. t = side /\ Unclaimed(side)[i] = Echo(n)
  BY <1>2, <1>4 DEF EchoTurn
<1> QED
  BY <1>4, <1>5 DEF EchoTurn, Echo

\* The number of an echo tells whose turn it is, for any width of the int.
THEOREM ParityTellsTurn == Spec => []EchoParity
  BY PhasesParity, PhaseInvariant, PTL

------------------------------------------------------------------------------
(* The connection plays the EchoGame *)

LEMMA TurnNone == cpc # "done" => turn = "none" /\ number = 0
  BY DEF turn, number, Sides

LEMMA TurnOver == cpc = "done" /\ Quiet => turn = "over" /\ number = 0
  BY UnclaimedNone DEF turn, number, EchoAt, Sides

LEMMA TurnAt ==
  \A side \in Sides : \A n, cipher :
    cpc = "done" /\ (InWire(side, Echo(n), cipher) \/ InBox(side, Echo(n))) =>
      turn = side /\ number = n
<1> SUFFICES ASSUME NEW side \in Sides, NEW n, NEW cipher, cpc = "done",
                    InWire(side, Echo(n), cipher) \/ InBox(side, Echo(n))
             PROVE  turn = side /\ number = n
  OBVIOUS
<1>1. Unclaimed(side) = <<Echo(n)>> /\ Unclaimed(Peer(side)) = <<>>
  BY UnclaimedOne
<1>2. EchoAt(side) /\ ~EchoAt(Peer(side))
  BY <1>1 DEF EchoAt, Echo
<1>3. turn = side
  BY <1>2 DEF turn, Sides, Peer
<1>4. number = Unclaimed(side)[1].echo_message
  BY <1>3 DEF number
<1> QED
  BY <1>1, <1>3, <1>4 DEF Echo

\* a step that leaves the packets alone leaves the game alone
LEMMA GameKept ==
  ASSUME UNCHANGED <<cpc, wire, inbox>> PROVE UNCHANGED <<turn, number>>
  BY DEF turn, number, EchoAt, Unclaimed

LEMMA GameInit == Init => Game!Init
  BY TurnNone DEF Init, Game!Init

LEMMA GameStep == IInv /\ [Next]_vars => [Game!Next]_(Game!vars)
<1> SUFFICES ASSUME IInv, [Next]_vars
             PROVE  Game!Start \/ Game!Bounce \/ Game!Stop \/ UNCHANGED <<turn, number>>
  BY DEF Game!Next, Game!vars
<1>1. (cpc # "done" => turn = "none" /\ number = 0)'
  BY TurnNone, PTL
<1>2. (cpc = "done" /\ Quiet => turn = "over" /\ number = 0)'
  BY TurnOver, PTL
<1>3. (\A side \in Sides : \A n, cipher :
         cpc = "done" /\ (InWire(side, Echo(n), cipher) \/ InBox(side, Echo(n))) =>
           turn = side /\ number = n)'
  BY TurnAt, PTL
<1>4. ASSUME cpc' = "done", Quiet' PROVE Game!Stop
  BY <1>2, <1>4 DEF Game!Stop
<1>5. CASE cpc # "done" /\ ~Greet
  <2>1. cpc' # "done"
    BY <1>5 DEF Next, vars, Connect, RequestKey, VerifyResponse, InstallKey, Accept,
                Register, encryption_handler_server, ServerInstall, process_echo,
                Receive, Fail, NoticeClose
  <2> QED
    BY <1>1, <1>5, <2>1, TurnNone
<1>6. CASE Greet
  <2>1. turn = "none" /\ cpc' = "done"
    BY <1>6, TurnNone DEF Greet
  <2>2. PICK p : p = Echo(0)
    OBVIOUS
  <2>3. PICK cipher : cipher = enc["client"]
    OBVIOUS
  <2>4. Holding
    BY <1>6 DEF IInv, Phase, Greet, Idle, Asking, Answering, Playing, Over, Lost
  <2>5. \A s \in Sides : wire[s] = <<>> /\ inbox'[s] = <<>>
    BY <1>6, <2>4 DEF Holding, Quiet, Greet
  <2>6. Quiet' \/ InWire(Peer("client"), p, cipher)'
    BY <1>6, <2>2, <2>3, <2>5, SendMoves DEF Greet, IInv, Sides
  <2>7. ASSUME InWire("server", p, cipher)' PROVE Game!Start
    <3>1. InWire("server", Echo(0), cipher)'
      BY <2>2, <2>7 DEF InWire
    <3> QED
      BY <1>3, <2>1, <3>1 DEF Game!Start, Sides
  <2> QED
    BY <1>4, <2>1, <2>6, <2>7 DEF InWire, Peer
<1>7. CASE cpc = "done"
  <2>1. cpc' = "done"
    BY <1>7 DEF Next, vars, Connect, RequestKey, VerifyResponse, InstallKey, Greet, Accept,
                Register, encryption_handler_server, ServerInstall, process_echo,
                Receive, Fail, NoticeClose
  <2>2. Playing \/ (Over /\ Quiet)
    BY <1>7 DEF IInv, Phase, Idle, Asking, Answering, Holding, Over, Lost
  <2>3. CASE Accept \/ Register \/ ServerInstall \/ UNCHANGED vars
    BY <2>3, GameKept DEF Accept, Register, ServerInstall, vars
  <2>4. ASSUME NEW side \in Sides, process_echo(side)
        PROVE  Game!Bounce \/ Game!Stop
    <3>1. PICK i \in DOMAIN inbox[side] :
            /\ inbox[side][i].kind = "Echo"
            /\ Claim(side, i)
            /\ wire' = Sent(side, Echo(Inc(inbox[side][i].echo_message)))
      BY <2>4 DEF process_echo
    <3>2. PICK n \in Int32 : InBox(side, Echo(n))
      BY <1>7, <3>1, UnclaimedTells DEF Asking, Answering
    <3>3. PICK p : p = Echo(n)
      OBVIOUS
    <3>4. inbox[side][i] = p /\ \A s \in Sides : wire[s] = <<>> /\ inbox'[s] = <<>>
      BY <3>1, <3>2, <3>3, ClaimTakes DEF IInv
    <3>5. PICK q : q = Echo(Inc(n))
      OBVIOUS
    <3>6. wire' = Sent(side, q)
      BY <3>1, <3>3, <3>4, <3>5 DEF Echo
    <3>7. PICK cipher : cipher = enc[side]
      OBVIOUS
    <3>8. Quiet' \/ InWire(Peer(side), q, cipher)'
      BY <3>4, <3>6, <3>7, SendMoves DEF IInv
    <3>9. ASSUME InWire(Peer(side), q, cipher)' PROVE Game!Bounce
      <4>1. InWire(Peer(side), Echo(Inc(n)), cipher)'
        BY <3>5, <3>9 DEF InWire
      <4>2. turn = side /\ number = n
        BY <1>7, <3>2, TurnAt
      <4>3. turn' = Peer(side) /\ number' = Inc(n)
        BY <1>3, <2>1, <4>1, PeerType
      <4> QED
        BY <4>2, <4>3 DEF Game!Bounce, Game!Next32, Inc, Sides, Peer
    <3> QED
      BY <1>4, <2>1, <3>8, <3>9
  <2>5. ASSUME NEW side \in Sides, Receive(side)
        PROVE  Game!Stop \/ UNCHANGED <<turn, number>>
    <3>1. ~Quiet /\ \A t \in Sides : \A p : ~InBox(t, p)
      BY <2>5 DEF Receive, Quiet, InBox, Sides, Peer
    <3>2. PICK t \in Sides, n \in Int32 : InWire(t, Echo(n), KeyOf(held))
      BY <2>2, <3>1 DEF Playing, EchoTurn
    <3>3. PICK p : p = Echo(n)
      OBVIOUS
    <3>4. PICK cipher : cipher = KeyOf(held)
      OBVIOUS
    <3>5. InWire(t, p, cipher)
      BY <3>2, <3>3, <3>4 DEF InWire
    <3>6. side = t /\ (InBox(side, p)' \/ Quiet')
      BY <2>5, <3>5, ReceiveMoves DEF IInv
    <3>7. ASSUME InBox(side, p)' PROVE UNCHANGED <<turn, number>>
      <4>1. InBox(side, Echo(n))'
        BY <3>3, <3>7 DEF InBox
      <4>2. turn = side /\ number = n
        BY <1>7, <3>2, <3>6, TurnAt
      <4> QED
        BY <1>3, <2>1, <4>1, <4>2
    <3> QED
      BY <1>4, <2>1, <3>6, <3>7
  <2>6. ASSUME NEW side \in Sides, Fail(side) \/ NoticeClose(side)
        PROVE  Game!Stop \/ UNCHANGED <<turn, number>>
    <3>1. Close(side) /\ inbox' = inbox /\ cpc' = cpc
      BY <2>6 DEF Fail, NoticeClose
    <3>2. wire' = wire \/ Quiet'
      BY <3>1, CloseMoves DEF IInv
    <3> QED
      BY <1>4, <2>1, <3>1, <3>2, GameKept
  <2>7. ~encryption_handler_server
    <3>1. ASSUME encryption_handler_server PROVE FALSE
      <4>1. PICK i \in DOMAIN inbox["server"] : inbox["server"][i].kind = "DHRequest"
        BY <3>1 DEF encryption_handler_server
      <4>2. PICK n \in Int32 : InBox("server", Echo(n))
        BY <1>7, <4>1, UnclaimedTells DEF Asking, Answering, Sides
      <4> QED
        BY <4>1, <4>2 DEF InBox, Echo
    <3> QED
      BY <3>1
  <2> QED
    BY <1>7, <2>3, <2>4, <2>5, <2>6, <2>7
       DEF Next, Connect, RequestKey, VerifyResponse, InstallKey, Greet
<1> QED
  BY <1>5, <1>6, <1>7

\* Every step of the two programs and of the link is a move of the EchoGame, in
\* which the number goes back and forth and grows by one, or leaves it alone.
THEOREM ImplementsEchoGame == Spec => PlaysEchoGame
  BY GameInit, GameStep, PhaseInvariant, PTL DEF Spec, PlaysEchoGame, Game!Spec

=============================================================================
