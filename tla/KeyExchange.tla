----------------------------- MODULE KeyExchange -----------------------------
(* One connection between client_test and central_server: the client's        *)
(* coroutine setup_encryption_for_session, the handlers the server registers   *)
(* for the session, the echo handlers of both ends, and the link between them. *)
(* Two connections share nothing but the server's read-only signer, so one     *)
(* connection is the whole system for every property stated here.             *)
(*                                                                            *)
(* The session library (mal-packet-weaver) is external: a packet is encrypted  *)
(* with the cipher installed when it is sent and decrypted with the one        *)
(* installed when it is received; a packet nobody claims is kept.              *)
(*                                                                            *)
(* A definition named Bug... is not the code: it is the definition after it    *)
(* with a plausible mistake, which a property below must catch.                *)
EXTENDS Integers, Sequences, SequencesExt

CONSTANTS Exponents,          \* Diffie-Hellman private exponents
          Salts,              \* salts the server can draw
          Draws,              \* values static_cast<int>(chi_squared) can take
          KeyPairs,           \* ECDSA key pairs on the two machines
          ServerPair,         \* the pair whose private half the server reads
          IntMax,             \* the largest value of a C++ int
          Null                \* an exponent, key or packet there is not yet

ASSUME ConstantsAssumption ==
         /\ Draws \subseteq Nat
         /\ ServerPair \in KeyPairs
         /\ IntMax \in Nat /\ IntMax % 2 = 1

Sides == {"client", "server"}
Peer(side) == IF side = "client" THEN "server" ELSE "client"

------------------------------------------------------------------------------
(* Cryptography and packets *)

\* A public key hides its exponent; both ends compute the same secret from
\* their own exponent and the other's public key.
PublicKey(exponent) == [g |-> exponent]
SharedSecret(exponent, public_key) == {exponent, public_key.g}

\* 5 + draw, through std::min(., 5) and std::max(., 20) in this order
Rounds(draw) ==
  LET n == 5 + draw
      atMost == IF n < 5 THEN n ELSE 5
  IN  IF atMost > 20 THEN atMost ELSE 20

\* static_cast<uint16_t>
UInt16Count == 65536
UInt16Values == 0..(UInt16Count - 1)
UInt16(n) == n % UInt16Count

\* AES256(SHA256(secret + salt), salt, static_cast<uint16_t>(n_rounds))
AES256(secret, salt, n_rounds) ==
  [secret |-> secret, salt |-> salt, rounds |-> UInt16(n_rounds)]

DHRequest(exponent) == [kind |-> "DHRequest", public_key |-> PublicKey(exponent)]

\* the fields DHKeyExchangeResponsePacket::get_hash covers
GetHash(response) == <<response.public_key, response.salt>>

DHResponse(exponent, salt, draw) ==
  LET public_key == PublicKey(exponent)
  IN  [kind |-> "DHResponse", public_key |-> public_key, salt |-> salt,
       n_rounds |-> Rounds(draw),
       signature |-> [signer |-> ServerPair, hash |-> <<public_key, salt>>]]

VerifyHash(pair, response) ==
  response.signature = [signer |-> pair, hash |-> GetHash(response)]

\* the key either end derives from its exponent, the other's public key and
\* the salt and rounds of the response
DeriveKey(exponent, public_key, response) ==
  AES256(SharedSecret(exponent, public_key), response.salt, response.n_rounds)

Int32 == (-IntMax - 1)..IntMax

BugIncWide(n) == n + 1
BugIncSaturates(n) == IF n = IntMax THEN n ELSE n + 1
BugIncForgotten(n) == n

\* std::stoi(message) + 1: signed overflow, which the builds wrap around
Inc(n) == IF n = IntMax THEN -IntMax - 1 ELSE n + 1

Echo(n) == [kind |-> "Echo", echo_message |-> n]

PublicKeys == [g : Exponents]
Requests   == [kind : {"DHRequest"}, public_key : PublicKeys]
Responses  == [kind : {"DHResponse"}, public_key : PublicKeys, salt : Salts,
               n_rounds : Nat,
               signature : [signer : KeyPairs, hash : PublicKeys \X Salts]]
Echoes     == [kind : {"Echo"}, echo_message : Int32]
Packets    == Requests \cup Responses \cup Echoes
AESKeys    == [secret : SUBSET Exponents, salt : Salts, rounds : UInt16Values]
Ciphers    == AESKeys \cup {Null}

ASSUME NullAssumption == Null \notin Exponents \cup Responses \cup AESKeys

------------------------------------------------------------------------------
VARIABLES
  trusted,   \* the pair of the public-key.pem the client was given
  cpc,       \* where the client's main and its coroutine are
  dh,        \* the exponent of the client's DiffieHellmanHelper
  held,      \* the response the client's coroutine works on
  pending,   \* the key encryption_handler_server has computed but not installed
  handlers,  \* the kinds of packet the server has registered a handler for
  link,      \* each end's socket: "none", "open" or "closed"
  enc,       \* the cipher installed at each end
  wire,      \* packets on their way to each end, with the cipher used
  inbox,     \* packets an end has decoded and nobody has claimed
  garbled    \* ends that decoded a packet with another cipher than it was sent with

vars == <<trusted, cpc, dh, held, pending, handlers, link, enc, wire, inbox,
          garbled>>

TypeOK ==
  /\ trusted \in KeyPairs
  /\ cpc \in {"main", "refused", "spawned", "await", "install", "greet", "done"}
  /\ dh \in Exponents \cup {Null}
  /\ cpc \in {"await", "install", "greet", "done"} => dh \in Exponents
  /\ held \in Responses \cup {Null}
  /\ cpc \in {"install", "greet"} => held \in Responses
  /\ pending \in Ciphers
  /\ handlers \in SUBSET {"DHRequest", "Echo"}
  /\ link \in [Sides -> {"none", "open", "closed"}]
  /\ enc \in [Sides -> Ciphers]
  /\ wire \in [Sides -> Seq([packet : Packets, cipher : Ciphers])]
  /\ inbox \in [Sides -> Seq(Packets)]
  /\ garbled \in SUBSET Sides

Init ==
  /\ trusted \in KeyPairs
  /\ cpc = "main"
  /\ dh = Null
  /\ held = Null
  /\ pending = Null
  /\ handlers = {}
  /\ link = [s \in Sides |-> "none"]
  /\ enc = [s \in Sides |-> Null]
  /\ wire = [s \in Sides |-> <<>>]
  /\ inbox = [s \in Sides |-> <<>>]
  /\ garbled = {}

------------------------------------------------------------------------------
(* The session library, as both programs use it *)

\* wire once `from` has sent the packet; a closed session drops it
Sent(from, packet) ==
  IF link[from] = "open" /\ link[Peer(from)] # "closed"
  THEN [wire EXCEPT ![Peer(from)] =
          Append(@, [packet |-> packet, cipher |-> enc[from]])]
  ELSE wire

\* closing a socket loses what was on its way to it
Close(side) ==
  /\ link' = [link EXCEPT ![side] = "closed"]
  /\ wire' = [wire EXCEPT ![side] = <<>>]

\* a handler or an awaiting coroutine claims the i-th unclaimed packet
Claim(side, i) == inbox' = [inbox EXCEPT ![side] = RemoveAt(@, i)]

\* the session reads the next packet, on any thread: also while another one
\* is inside encryption_handler_server
Receive(side) ==
  /\ link[side] = "open"
  /\ wire[side] # <<>>
  /\ wire' = [wire EXCEPT ![side] = Tail(@)]
  /\ IF Head(wire[side]).cipher = enc[side]
     THEN /\ inbox' = [inbox EXCEPT ![side] = Append(@, Head(wire[side]).packet)]
          /\ UNCHANGED garbled
     ELSE /\ garbled' = garbled \cup {side}
          /\ UNCHANGED inbox
  /\ UNCHANGED <<trusted, cpc, dh, held, pending, handlers, link, enc>>

\* the link breaks under one end
Fail(side) ==
  /\ link[side] = "open"
  /\ Close(side)
  /\ UNCHANGED <<trusted, cpc, dh, held, pending, handlers, enc, inbox, garbled>>

\* an end reads the end of the stream its peer has closed
NoticeClose(side) ==
  /\ link[side] = "open" /\ link[Peer(side)] = "closed"
  /\ Close(side)
  /\ UNCHANGED <<trusted, cpc, dh, held, pending, handlers, enc, inbox, garbled>>

------------------------------------------------------------------------------
(* client_test *)

\* main connects, registers process_echo and spawns the coroutine; a refused
\* connection breaks out of the loop
Connect ==
  /\ cpc = "main"
  /\ \/ cpc' = "refused" /\ UNCHANGED link
     \/ cpc' = "spawned" /\ link' = [link EXCEPT !["client"] = "open"]
  /\ UNCHANGED <<trusted, dh, held, pending, handlers, enc, wire, inbox, garbled>>

\* the coroutine waits before it has asked
BugAwaitFirst ==
  /\ cpc = "spawned" /\ dh' \in Exponents /\ cpc' = "await"
  /\ UNCHANGED <<trusted, held, pending, handlers, link, enc, wire, inbox, garbled>>

RequestKey ==
  /\ cpc = "spawned"
  /\ dh' \in Exponents
  /\ wire' = Sent("client", DHRequest(dh'))
  /\ cpc' = "await"
  /\ UNCHANGED <<trusted, held, pending, handlers, link, enc, inbox, garbled>>

\* await_packet returns; a response with a wrong signature destroys the session,
\* and the coroutine goes on all the same
VerifyResponse ==
  /\ cpc = "await"
  /\ \E i \in DOMAIN inbox["client"] :
       /\ inbox["client"][i].kind = "DHResponse"
       /\ Claim("client", i)
       /\ held' = inbox["client"][i]
  /\ cpc' = "install"
  /\ IF VerifyHash(trusted, held') THEN UNCHANGED <<link, wire>>
                                   ELSE Close("client")
  /\ UNCHANGED <<trusted, dh, pending, handlers, enc, garbled>>

\* the secret is computed from the client's own public key
BugInstallOwnPublicKey ==
  /\ cpc = "install"
  /\ enc' = [enc EXCEPT !["client"] = DeriveKey(dh, PublicKey(dh), held)]
  /\ cpc' = "greet"
  /\ UNCHANGED <<trusted, dh, held, pending, handlers, link, wire, inbox, garbled>>

InstallKey ==
  /\ cpc = "install"
  /\ enc' = [enc EXCEPT !["client"] = DeriveKey(dh, held.public_key, held)]
  /\ cpc' = "greet"
  /\ UNCHANGED <<trusted, dh, held, pending, handlers, link, wire, inbox, garbled>>

Greet ==
  /\ cpc = "greet"
  /\ wire' = Sent("client", Echo(0))
  /\ cpc' = "done"
  /\ UNCHANGED <<trusted, dh, held, pending, handlers, link, enc, inbox, garbled>>

------------------------------------------------------------------------------
(* central_server *)

\* setup_new_connection builds the session, which reads from now on ...
Accept ==
  /\ link["server"] = "none" /\ link["client"] # "none"
  /\ link' = [link EXCEPT !["server"] = "open"]
  /\ UNCHANGED <<trusted, cpc, dh, held, pending, handlers, enc, wire, inbox, garbled>>

\* ... and registers the two handlers afterwards, one by one
Register ==
  /\ link["server"] # "none"
  /\ \/ handlers = {} /\ handlers' = {"DHRequest"}
     \/ handlers = {"DHRequest"} /\ handlers' = {"DHRequest", "Echo"}
  /\ UNCHANGED <<trusted, cpc, dh, held, pending, link, enc, wire, inbox, garbled>>

\* setup_encryption before send_packet: the response leaves encrypted
BugEncryptResponse ==
  /\ pending = Null /\ "DHRequest" \in handlers /\ link["server"] = "open"
  /\ \E i \in DOMAIN inbox["server"], y \in Exponents, salt \in Salts, draw \in Draws :
       LET response == DHResponse(y, salt, draw)
       IN  /\ inbox["server"][i].kind = "DHRequest"
           /\ Claim("server", i)
           /\ pending' = DeriveKey(y, inbox["server"][i].public_key, response)
           /\ wire' = [wire EXCEPT !["client"] =
                        Append(@, [packet |-> response, cipher |-> pending'])]
  /\ UNCHANGED <<trusted, cpc, dh, held, handlers, link, enc, garbled>>

\* the request stays in the inbox and is answered again
BugRequestNotClaimed ==
  /\ pending = Null /\ "DHRequest" \in handlers
  /\ \E i \in DOMAIN inbox["server"], y \in Exponents, salt \in Salts, draw \in Draws :
       LET response == DHResponse(y, salt, draw)
       IN  /\ inbox["server"][i].kind = "DHRequest"
           /\ pending' = DeriveKey(y, inbox["server"][i].public_key, response)
           /\ wire' = Sent("server", response)
  /\ UNCHANGED <<trusted, cpc, dh, held, handlers, link, enc, inbox, garbled>>

\* up to and including send_packet(response_packet)
encryption_handler_server ==
  /\ pending = Null /\ "DHRequest" \in handlers
  /\ \E i \in DOMAIN inbox["server"], y \in Exponents, salt \in Salts, draw \in Draws :
       LET request  == inbox["server"][i]
           response == DHResponse(y, salt, draw)
       IN  /\ request.kind = "DHRequest"
           /\ Claim("server", i)
           /\ pending' = DeriveKey(y, request.public_key, response)
           /\ wire' = Sent("server", response)
  /\ UNCHANGED <<trusted, cpc, dh, held, handlers, link, enc, garbled>>

\* the rest of the handler: setup_encryption
ServerInstall ==
  /\ pending # Null
  /\ enc' = [enc EXCEPT !["server"] = pending]
  /\ pending' = Null
  /\ UNCHANGED <<trusted, cpc, dh, held, handlers, link, wire, inbox, garbled>>

\* the echo stays in the inbox and is answered again
BugEchoNotClaimed(side) ==
  /\ \E i \in DOMAIN inbox[side] :
       /\ inbox[side][i].kind = "Echo"
       /\ wire' = Sent(side, Echo(Inc(inbox[side][i].echo_message)))
  /\ UNCHANGED <<trusted, cpc, dh, held, pending, handlers, link, enc, inbox, garbled>>

\* std::stoi throws at the largest number: the echo is claimed and not answered
BugStopsAtIntMax(side) ==
  /\ side = "server" => "Echo" \in handlers
  /\ \E i \in DOMAIN inbox[side] :
       /\ inbox[side][i].kind = "Echo"
       /\ Claim(side, i)
       /\ wire' = IF inbox[side][i].echo_message = IntMax THEN wire
                  ELSE Sent(side, Echo(Inc(inbox[side][i].echo_message)))
  /\ UNCHANGED <<trusted, cpc, dh, held, pending, handlers, link, enc, garbled>>

\* the echo handler of either end
process_echo(side) ==
  /\ side = "server" => "Echo" \in handlers
  /\ \E i \in DOMAIN inbox[side] :
       /\ inbox[side][i].kind = "Echo"
       /\ Claim(side, i)
       /\ wire' = Sent(side, Echo(Inc(inbox[side][i].echo_message)))
  /\ UNCHANGED <<trusted, cpc, dh, held, pending, handlers, link, enc, garbled>>

------------------------------------------------------------------------------
Next ==
  \/ Connect \/ RequestKey \/ VerifyResponse \/ InstallKey \/ Greet
  \/ Accept \/ Register \/ encryption_handler_server \/ ServerInstall
  \/ \E side \in Sides : process_echo(side) \/ Receive(side)
                           \/ Fail(side) \/ NoticeClose(side)

\* Every coroutine, handler and completion that is ready runs: io_context.run
\* has eight threads at each end. Nothing makes a link fail.
Fairness ==
  /\ WF_vars(Connect) /\ WF_vars(RequestKey) /\ WF_vars(VerifyResponse)
  /\ WF_vars(InstallKey) /\ WF_vars(Greet) /\ WF_vars(Accept)
  /\ WF_vars(Register) /\ WF_vars(encryption_handler_server)
  /\ WF_vars(ServerInstall)
  /\ \A side \in Sides : /\ WF_vars(process_echo(side))
                         /\ WF_vars(Receive(side))
                         /\ WF_vars(NoticeClose(side))

Spec == Init /\ [][Next]_vars /\ Fairness

------------------------------------------------------------------------------
(* Properties *)

\* Two ends that encrypt, encrypt with the same key: same secret, same salt,
\* same number of rounds (setup_encryption at central_server:108 and
\* client_test:50), however the handshake was interleaved or cut.
KeyAgreement ==
  enc["client"] # Null /\ enc["server"] # Null => enc["client"] = enc["server"]

\* packets sent to an end and not yet claimed by a handler there
Unclaimed(side) == [i \in 1..Len(wire[side]) |-> wire[side][i].packet] \o inbox[side]

\* The two programs take strict turns: over both directions at most one packet
\* is under way or unclaimed. The handlers rely on it: they keep no queue, no
\* sequence number and no request identifier.
OneInFlight == Len(Unclaimed("client")) + Len(Unclaimed("server")) <= 1

\* The number tells whose turn it is, even after the int has wrapped around:
\* the server is sent the even numbers and the client the odd ones. A handler
\* that ran twice, or skipped its turn, would break it for good.
EchoParity ==
  \A side \in Sides : \A i \in DOMAIN Unclaimed(side) :
    Unclaimed(side)[i].kind = "Echo" =>
      Unclaimed(side)[i].echo_message % 2 = IF side = "server" THEN 0 ELSE 1

\* The server sends its response before it installs the key (104 before 108),
\* and the client installs its own before it sends an echo: what the client
\* reads is always under the cipher the client has installed by then.
ClientNeverGarbles == "client" \notin garbled

\* The gap between the server's send_packet (104) and setup_encryption (108) can
\* cost one packet only: the client's greeting, decoded under no key by another
\* thread while the handler is inside it. No response and no later echo is ever
\* decoded under another cipher than it was sent with.
OnlyGreetingGarbled ==
  [][garbled' # garbled =>
       /\ pending # Null /\ garbled' = garbled \cup {"server"}
       /\ wire["server"] # <<>> /\ Head(wire["server"]).packet = Echo(0)]_vars

\* An end installs a key once: no packet order and no second handler run makes
\* it replace the key its peer already uses.
EncryptionInstalledOnce ==
  [][\A side \in Sides : enc[side] # Null => enc'[side] = enc[side]]_vars

\* A coroutine that has asked for a key gets through, or its link is closed: no
\* request is missed while the server registers its handlers, and no response
\* while the client starts to wait for it.
HandshakeResolves == cpc = "spawned" ~> cpc = "done" \/ link["client"] = "closed"

\* An echo gets lost on a connection that stays up only if the greeting was
\* garbled: otherwise an answer comes back to the client again and again.
EchoKeepsGoing ==
  [](cpc = "done" =>
       <>(\/ \E side \in Sides : link[side] = "closed"
          \/ garbled # {}
          \/ \E i \in DOMAIN inbox["client"] : inbox["client"][i].kind = "Echo"))

\* "encryption response packet has the wrong signature. Aborting connection."
\* (client_test:34): a client that aborted installs no key.
NoKeyFromRejectedResponse == enc["client"] # Null => VerifyHash(trusted, held)

(* Refinement: once the handshake is over the connection plays the EchoGame. *)
EchoAt(side) ==
  cpc = "done" /\ \E i \in DOMAIN Unclaimed(side) : Unclaimed(side)[i].kind = "Echo"

turn == IF cpc # "done" THEN "none"
        ELSE IF EchoAt("server") THEN "server"
        ELSE IF EchoAt("client") THEN "client"
        ELSE "over"

number ==
  IF turn \in Sides THEN Unclaimed(turn)[1].echo_message ELSE 0

Game == INSTANCE EchoGame WITH IntMax <- IntMax, turn <- turn, number <- number

\* Every step of the two programs is a move of the game or leaves it alone.
PlaysEchoGame == Game!Spec
=============================================================================
