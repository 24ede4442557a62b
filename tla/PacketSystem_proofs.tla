------------------------- MODULE PacketSystem_proofs -------------------------
(* Theorems about the server as a whole. With any number of threads every step  *)
(* of PacketSystem is a step of TcpServer and a step of KeyExchange or leaves   *)
(* them alone, so that what is proved of the two modules holds of the system.   *)
EXTENDS PacketSystem, TcpServer_proofs

\* the connection, with what is proved of it
Whole == INSTANCE KeyExchange_proofs

ConnectionSpec == Connection!Init /\ [][Connection!Next]_(Connection!vars)
TableSpec == Init /\ [][Next]_vars

------------------------------------------------------------------------------
(* Every step of the system is one of the table *)

LEMMA TableInit == SystemInit => Init
BY DEF SystemInit

LEMMA TableStep == [SystemNext]_allVars => [Next]_vars
<1> SUFFICES ASSUME [SystemNext]_allVars PROVE [Next]_vars
  OBVIOUS
<1> USE MeAssumption
<1>1. CASE Dial
  BY <1>1 DEF Dial, Next
<1>2. CASE ClientStep \/ RegisterMe \/ ReadMe \/ AnswerMe \/ InstallMe \/ UNCHANGED allVars
  BY <1>2 DEF ClientStep, RegisterMe, ReadMe, AnswerMe, InstallMe, allVars
<1>3. CASE AcceptMe \/ LoseMe
  BY <1>3 DEF AcceptMe, LoseMe, Next
<1>4. ASSUME NEW c \in Others, AcceptOther(c) \/ OtherStep(c) PROVE Next
  BY <1>4 DEF AcceptOther, OtherStep, Others, Next
<1>5. CASE ErrorOther \/ AcceptEnds \/ CleanupStarts \/ CleanupGoesOn
  BY <1>5 DEF ErrorOther, AcceptEnds, CleanupStarts, CleanupGoesOn, Erase, Next
<1> QED BY <1>1, <1>2, <1>3, <1>4, <1>5 DEF SystemNext

\* What the sessions of the followed client and the others do is what TcpServer
\* says of them, on any number of threads.
THEOREM SystemImplementsTable == SystemSpec => TableSpec
BY TableInit, TableStep, PTL DEF SystemSpec, TableSpec

------------------------------------------------------------------------------
(* Every step of the system is one of the connection *)

LEMMA WholeAssumptions == Whole!ConstantsAssumption /\ Whole!NullAssumption
<1>1. Whole!Responses = Connection!Responses
  BY DEF Whole!Responses, Whole!PublicKeys, Connection!Responses, Connection!PublicKeys
<1>2. Whole!AESKeys = Connection!AESKeys
  BY DEF Whole!AESKeys, Whole!UInt16Values, Whole!UInt16Count, Connection!AESKeys,
         Connection!UInt16Values, Connection!UInt16Count
<1>3. Whole!ConstantsAssumption
  BY KeysAssumption DEF Whole!ConstantsAssumption
<1>4. Whole!NullAssumption
  BY <1>1, <1>2, NullDiffers DEF Whole!NullAssumption
<1> QED BY <1>3, <1>4

LEMMA SameInit == Connection!Init => Whole!Init
BY DEF Connection!Init, Whole!Init, Connection!Sides, Whole!Sides

LEMMA SameOperators ==
  /\ \A e : Whole!DHRequest(e) = Connection!DHRequest(e)
  /\ \A e, salt, draw : Whole!DHResponse(e, salt, draw) = Connection!DHResponse(e, salt, draw)
  /\ \A e, k, r : Whole!DeriveKey(e, k, r) = Connection!DeriveKey(e, k, r)
  /\ \A n : Whole!Inc(n) = Connection!Inc(n)
  /\ \A n : Whole!Echo(n) = Connection!Echo(n)
  /\ \A e : Whole!PublicKey(e) = Connection!PublicKey(e)
  /\ \A from, packet : Whole!Sent(from, packet) = Connection!Sent(from, packet)
  /\ \A seq, i : Whole!RemoveAt(seq, i) = Connection!RemoveAt(seq, i)
<1>1. \A r : Whole!Rounds(r) = Connection!Rounds(r)
  BY DEF Connection!Rounds, Whole!Rounds
<1>2. \A e : Whole!PublicKey(e) = Connection!PublicKey(e)
  BY DEF Connection!PublicKey, Whole!PublicKey
<1>3. \A e : Whole!DHRequest(e) = Connection!DHRequest(e)
  BY <1>2 DEF Connection!DHRequest, Whole!DHRequest
<1>4. \A e, salt, draw : Whole!DHResponse(e, salt, draw) = Connection!DHResponse(e, salt, draw)
  BY <1>1, <1>2, Zenon DEF Connection!DHResponse, Whole!DHResponse
<1>5. \A e, k, r : Whole!DeriveKey(e, k, r) = Connection!DeriveKey(e, k, r)
  BY DEF Connection!DeriveKey, Whole!DeriveKey, Connection!AES256, Whole!AES256,
         Connection!SharedSecret, Whole!SharedSecret, Connection!UInt16, Whole!UInt16,
         Connection!UInt16Count, Whole!UInt16Count
<1>6. \A n : Whole!Inc(n) = Connection!Inc(n)
  BY DEF Connection!Inc, Whole!Inc
<1>7. \A n : Whole!Echo(n) = Connection!Echo(n)
  BY DEF Connection!Echo, Whole!Echo
<1>8. \A from, packet : Whole!Sent(from, packet) = Connection!Sent(from, packet)
  BY DEF Connection!Sent, Whole!Sent, Connection!Peer, Whole!Peer
<1>9. \A seq, i : Whole!RemoveAt(seq, i) = Connection!RemoveAt(seq, i)
  BY DEF Connection!RemoveAt, Whole!RemoveAt
<1> QED BY <1>2, <1>3, <1>4, <1>5, <1>6, <1>7, <1>8, <1>9

\* a step of the connection is one of Whole
LEMMA SameStep == [Connection!Next]_(Connection!vars) => [Whole!Next]_(Whole!vars)
<1>1. Connection!Connect => Whole!Connect
  BY DEF Connection!Connect, Whole!Connect
<1>2. Connection!RequestKey => Whole!RequestKey
  BY SameOperators DEF Connection!RequestKey, Whole!RequestKey
<1>3. Connection!VerifyResponse => Whole!VerifyResponse
  BY SameOperators DEF Connection!VerifyResponse, Whole!VerifyResponse,
         Connection!Claim, Whole!Claim, Connection!VerifyHash, Whole!VerifyHash,
         Connection!GetHash, Whole!GetHash, Connection!Close, Whole!Close
<1>4. Connection!InstallKey => Whole!InstallKey
  BY SameOperators DEF Connection!InstallKey, Whole!InstallKey
<1>5. Connection!Greet => Whole!Greet
  BY SameOperators DEF Connection!Greet, Whole!Greet
<1>6. Connection!Accept => Whole!Accept
  BY DEF Connection!Accept, Whole!Accept
<1>7. Connection!Register => Whole!Register
  BY DEF Connection!Register, Whole!Register
<1>8. Connection!encryption_handler_server => Whole!encryption_handler_server
  BY SameOperators DEF Connection!encryption_handler_server, Whole!encryption_handler_server,
         Connection!Claim, Whole!Claim
<1>9. Connection!ServerInstall => Whole!ServerInstall
  BY DEF Connection!ServerInstall, Whole!ServerInstall
<1>10. \A side : Connection!process_echo(side) => Whole!process_echo(side)
  BY SameOperators DEF Connection!process_echo, Whole!process_echo, Connection!Claim, Whole!Claim
<1>11. \A side : Connection!Fail(side) => Whole!Fail(side)
  BY DEF Connection!Fail, Whole!Fail, Connection!Close, Whole!Close
<1>12. \A side : Connection!NoticeClose(side) => Whole!NoticeClose(side)
  BY DEF Connection!NoticeClose, Whole!NoticeClose,
         Connection!Close, Whole!Close, Connection!Peer, Whole!Peer
<1>13. \A side : Connection!Receive(side) => Whole!Receive(side)
  BY DEF Connection!Receive, Whole!Receive
<1>14. UNCHANGED Connection!vars => UNCHANGED Whole!vars
  BY DEF Connection!vars, Whole!vars
<1> QED
  BY <1>1, <1>2, <1>3, <1>4, <1>5, <1>6, <1>7, <1>8, <1>9, <1>10, <1>11, <1>12, <1>13, <1>14
     DEF Connection!Next, Whole!Next, Connection!Sides, Whole!Sides

\* the session of the table and the socket of the connection are open together
LinkIsSession == session[Me] = "open" <=> link["server"] = "open"

SysInv == TrackInv /\ Whole!IInv /\ LinkIsSession

LEMMA LinkType == Whole!IInv => link \in [{"client", "server"} -> {"none", "open", "closed"}]
BY DEF Whole!IInv, Whole!TypeOK, Whole!Sides

LEMMA SysInit == SystemInit => SysInv
<1> SUFFICES ASSUME SystemInit PROVE SysInv
  OBVIOUS
<1>1. link = [s \in {"client", "server"} |-> "none"]
  BY DEF SystemInit, Connection!Init, Connection!Sides
<1>2. session[Me] = "absent"
  BY MeAssumption DEF SystemInit, Init
<1>3. Whole!IInv
  BY SameInit, WholeAssumptions, Whole!IInvInit
     DEF SystemInit, Whole!ConstantsAssumption, Whole!NullAssumption
<1> QED BY <1>1, <1>2, <1>3, TrackInit DEF SystemInit, SysInv, LinkIsSession

\* The cleanup that destroys the followed client's open session is, for the
\* connection, a link that fails at the server's end.
LEMMA ConnectionStep ==
  ASSUME LinkIsSession, [SystemNext]_allVars
  PROVE  [Connection!Next]_(Connection!vars)
<1> USE DEF Connection!Next, Connection!Sides
<1>1. CASE Dial
  BY <1>1 DEF Dial
<1>2. CASE ClientStep
  BY <1>2 DEF ClientStep
<1>3. CASE AcceptMe \/ RegisterMe \/ ReadMe \/ AnswerMe \/ InstallMe \/ LoseMe
  BY <1>3 DEF AcceptMe, RegisterMe, ReadMe, AnswerMe, InstallMe, LoseMe
<1>4. CASE UNCHANGED connection
  BY <1>4 DEF connection, Connection!vars
<1>5. CASE Erase
  <2>1. CASE session[Me] = "open" /\ session'[Me] = "erased"
    <3>1. Connection!Fail("server")
      BY <1>5, <2>1 DEF Erase, Connection!Fail, LinkIsSession
    <3> QED BY <3>1
  <2>2. CASE ~(session[Me] = "open" /\ session'[Me] = "erased")
    BY <1>5, <2>2 DEF Erase, Connection!vars
  <2> QED BY <2>1, <2>2
<1> QED
  BY <1>1, <1>2, <1>3, <1>4, <1>5
     DEF SystemNext, AcceptOther, OtherStep, ErrorOther, AcceptEnds, CleanupStarts,
         CleanupGoesOn, allVars

\* Only what closes a session closes its socket, and the other way round.
LEMMA LinkStep ==
  ASSUME SysInv, [SystemNext]_allVars
  PROVE  LinkIsSession'
<1>a. /\ link \in [{"client", "server"} -> {"none", "open", "closed"}]
      /\ session \in [Clients -> {"absent", "backlog", "open", "closed", "erased"}]
      /\ Me \in Clients /\ LinkIsSession
  BY LinkType, MeAssumption DEF SysInv, TrackInv, ScanInv, TInv, TypeOK
<1>1. CASE Dial
  BY <1>1, <1>a DEF Dial, Connect, vars, Connection!Connect, LinkIsSession
<1>2. CASE ClientStep
  <2>1. session' = session /\ link'["server"] = link["server"]
    BY <1>2, <1>a
       DEF ClientStep, vars, Connection!RequestKey, Connection!VerifyResponse,
           Connection!InstallKey, Connection!Greet, Connection!process_echo,
           Connection!Receive, Connection!Fail, Connection!NoticeClose, Connection!Close
  <2> QED BY <1>a, <2>1 DEF LinkIsSession
<1>3. CASE AcceptMe
  BY <1>3, <1>a DEF AcceptMe, AcceptSocket, Connection!Accept, LinkIsSession
<1>4. CASE RegisterMe \/ ReadMe \/ AnswerMe \/ InstallMe
  <2>1. session' = session /\ link' = link
    BY <1>4
       DEF RegisterMe, ReadMe, AnswerMe, InstallMe, vars, Connection!Register,
           Connection!Receive, Connection!encryption_handler_server,
           Connection!process_echo, Connection!ServerInstall
  <2> QED BY <1>a, <2>1 DEF LinkIsSession
<1>5. CASE LoseMe
  BY <1>5, <1>a DEF LoseMe, Close, Connection!Fail, Connection!NoticeClose,
                    Connection!Close, LinkIsSession
<1>6. ASSUME NEW c \in Others, AcceptOther(c) \/ OtherStep(c) PROVE LinkIsSession'
  <2>1. session'[Me] = session[Me] /\ link' = link
    BY <1>6, <1>a DEF AcceptOther, OtherStep, Others, AcceptSocket, Connect, Close, connection
  <2> QED BY <1>a, <2>1 DEF LinkIsSession
<1>7. CASE Erase
  BY <1>7, <1>a DEF Erase, CleanupErase, Connection!Close, LinkIsSession
<1>8. CASE \/ ErrorOther \/ AcceptEnds \/ CleanupStarts
           \/ (CleanupVisit \/ Timer) /\ UNCHANGED connection
           \/ UNCHANGED allVars
  <2>1. session' = session /\ link' = link
    BY <1>8
       DEF ErrorOther, AcceptEnds, CleanupStarts, AcceptError, EmplaceBack, do_accept,
           CleanupBegin, CleanupVisit, Timer, connection, allVars, vars
  <2> QED BY <1>a, <2>1 DEF LinkIsSession
<1> QED BY <1>1, <1>2, <1>3, <1>4, <1>5, <1>6, <1>7, <1>8 DEF SystemNext, CleanupGoesOn

LEMMA SysStep == SysInv /\ [SystemNext]_allVars => SysInv'
<1> SUFFICES ASSUME SysInv, [SystemNext]_allVars PROVE SysInv'
  OBVIOUS
<1>1. TrackInv'
  BY TableStep, TrackNext DEF SysInv
<1>2. [Whole!Next]_(Whole!vars)
  BY ConnectionStep, SameStep DEF SysInv
<1>3. Whole!IInv'
  BY <1>2, WholeAssumptions, Whole!IInvStep
     DEF SysInv, Whole!ConstantsAssumption, Whole!NullAssumption
<1> QED BY <1>1, <1>3, LinkStep DEF SysInv

\* The followed client's connection, with a server that accepts, cleans up and
\* destroys sessions at the same time, does nothing KeyExchange does not: any
\* number of clients and threads, and the cleanup erases at any moment.
THEOREM SystemImplementsConnection == SystemSpec => ConnectionSpec
<1>1. SystemInit => Connection!Init
  BY DEF SystemInit
<1>2. SysInv /\ [SystemNext]_allVars => [Connection!Next]_(Connection!vars)
  BY ConnectionStep DEF SysInv
<1> QED BY <1>1, <1>2, SysInit, SysStep, PTL DEF SystemSpec, ConnectionSpec

\* On any number of threads, whatever the cleanup destroys and whenever: both ends
\* that encrypt use the same key, at most one packet is under way or unclaimed, the
\* number of an echo tells whose turn it is, and the client reads what it is sent.
THEOREM ServerKeepsAgreement ==
  SystemSpec => [](/\ Connection!KeyAgreement /\ Connection!OneInFlight
                   /\ Connection!EchoParity /\ Connection!ClientNeverGarbles)
<1>1. SysInv => /\ Connection!KeyAgreement /\ Connection!OneInFlight
                /\ Connection!EchoParity /\ Connection!ClientNeverGarbles
  <2> SUFFICES ASSUME Whole!IInv
               PROVE  /\ Connection!KeyAgreement /\ Connection!OneInFlight
                      /\ Connection!EchoParity /\ Connection!ClientNeverGarbles
    BY DEF SysInv
  <2> USE WholeAssumptions DEF Whole!ConstantsAssumption, Whole!NullAssumption
  <2>1. Connection!KeyAgreement
    BY Whole!PhasesAgree DEF Whole!KeyAgreement, Connection!KeyAgreement
  <2>2. \A side : Whole!Unclaimed(side) = Connection!Unclaimed(side)
    BY DEF Whole!Unclaimed, Connection!Unclaimed
  <2>3. Connection!OneInFlight
    BY <2>2, Whole!PhasesOnePacket DEF Whole!OneInFlight, Connection!OneInFlight
  <2>4. Connection!EchoParity
    BY <2>2, Whole!PhasesParity
       DEF Whole!EchoParity, Connection!EchoParity, Whole!Sides, Connection!Sides
  <2>5. Connection!ClientNeverGarbles
    BY Whole!PhasesClientReads DEF Whole!ClientNeverGarbles, Connection!ClientNeverGarbles
  <2> QED BY <2>1, <2>3, <2>4, <2>5
<1> QED BY <1>1, SysInit, SysStep, PTL DEF SystemSpec

\* Nor does the server make an end replace a key it has installed.
THEOREM ServerInstallsOnce == SystemSpec => Connection!EncryptionInstalledOnce
<1> DEFINE A == \A side \in Connection!Sides : enc[side] # Null => enc'[side] = enc[side]
<1>1. SysInv /\ [SystemNext]_allVars => [A]_(Connection!vars)
  <2> SUFFICES ASSUME SysInv, [SystemNext]_allVars PROVE A
    OBVIOUS
  <2>1. [Whole!Next]_(Whole!vars)
    BY ConnectionStep, SameStep DEF SysInv
  <2> QED
    BY <2>1, WholeAssumptions, Whole!PhasesKeepKeys
       DEF SysInv, Whole!ConstantsAssumption, Whole!NullAssumption, Whole!Sides,
           Connection!Sides
<1> QED
  BY <1>1, SysInit, SysStep, PTL DEF SystemSpec, Connection!EncryptionInstalledOnce

LEMMA SameGame == Connection!turn = Whole!turn /\ Connection!number = Whole!number
<1>1. \A side : Connection!Unclaimed(side) = Whole!Unclaimed(side)
  BY DEF Connection!Unclaimed, Whole!Unclaimed
<1>2. \A side : Connection!EchoAt(side) <=> Whole!EchoAt(side)
  BY <1>1 DEF Connection!EchoAt, Whole!EchoAt
<1>3. Connection!turn = Whole!turn
  BY <1>2 DEF Connection!turn, Whole!turn
<1> QED
  BY <1>1, <1>3 DEF Connection!number, Whole!number, Connection!Sides, Whole!Sides

\* The followed client and its session play the EchoGame, whatever else the server
\* does and on any number of threads: a session the cleanup destroys ends the game.
THEOREM ServerPlaysEchoGame == SystemSpec => Connection!PlaysEchoGame
<1> USE SameGame, WholeAssumptions DEF Whole!ConstantsAssumption, Whole!NullAssumption
<1>1. SystemInit => Connection!Game!Init
  BY SameInit, Whole!GameInit DEF SystemInit, Connection!Game!Init, Whole!Game!Init
<1>2. SysInv /\ [SystemNext]_allVars => [Connection!Game!Next]_(Connection!Game!vars)
  <2> SUFFICES ASSUME SysInv, [SystemNext]_allVars
               PROVE  [Connection!Game!Next]_(Connection!Game!vars)
    OBVIOUS
  <2>1. [Whole!Next]_(Whole!vars)
    BY ConnectionStep, SameStep DEF SysInv
  <2>2. [Whole!Game!Next]_(Whole!Game!vars)
    BY <2>1, Whole!GameStep DEF SysInv
  <2>3. (Connection!turn = Whole!turn /\ Connection!number = Whole!number)'
    BY SameGame, PTL
  <2> QED
    BY <2>2, <2>3
       DEF Whole!Game!Next, Whole!Game!Start, Whole!Game!Bounce, Whole!Game!Stop, Whole!Game!vars,
           Whole!Game!Next32, Connection!Game!Next, Connection!Game!Start, Connection!Game!Bounce,
           Connection!Game!Stop, Connection!Game!vars, Connection!Game!Next32
<1> QED
  BY <1>1, <1>2, SysInit, SysStep, PTL DEF SystemSpec, Connection!PlaysEchoGame, Connection!Game!Spec

\* On any number of threads, with whatever the server does besides, the only packet an
\* end can decode under another cipher than it was sent with is the client's greeting,
\* while the server is between its send and setup_encryption.
THEOREM ServerGarblesGreetingOnly == SystemSpec => Connection!OnlyGreetingGarbled
<1> DEFINE A == garbled' # garbled =>
                  /\ pending # Null /\ garbled' = garbled \cup {"server"}
                  /\ wire["server"] # <<>> /\ Head(wire["server"]).packet = Connection!Echo(0)
<1>1. SysInv /\ [SystemNext]_allVars => [A]_(Connection!vars)
  <2> SUFFICES ASSUME SysInv, [SystemNext]_allVars, garbled' # garbled PROVE A
    OBVIOUS
  <2>1. [Whole!Next]_(Whole!vars)
    BY ConnectionStep, SameStep DEF SysInv
  <2>2. PICK side \in Whole!Sides : Whole!Receive(side)
    BY <2>1
       DEF Whole!Next, Whole!vars, Whole!Connect, Whole!RequestKey, Whole!VerifyResponse,
           Whole!InstallKey, Whole!Greet, Whole!Accept, Whole!Register,
           Whole!encryption_handler_server, Whole!ServerInstall, Whole!process_echo,
           Whole!Fail, Whole!NoticeClose
  <2>3. Whole!Echo(0) = Connection!Echo(0)
    BY DEF Whole!Echo, Connection!Echo
  <2> QED
    BY <2>2, <2>3, WholeAssumptions, Whole!GarbledIsGreeting
       DEF SysInv, Whole!ConstantsAssumption, Whole!NullAssumption
<1> QED
  BY <1>1, SysInit, SysStep, PTL DEF SystemSpec, Connection!OnlyGreetingGarbled

------------------------------------------------------------------------------
(* The table, with the handlers of a session beside accept chain and cleanup *)

\* The table holds every session once, and moves under erase_if only beyond its
\* reserve, also while the followed client's handlers run on other threads.
THEOREM ServerTable == SystemSpec => [](TableTracksSessions /\ SafeWithinReserve)
<1>1. SysInv => TableTracksSessions /\ SafeWithinReserve
  BY DEF SysInv, TrackInv, ScanInv, RoomKept, SafeWithinReserve
<1> QED BY <1>1, SysInit, SysStep, PTL DEF SystemSpec

\* The cleanup takes no session that is open and was in the table when its range was
\* fixed, whatever the handlers of the sessions do.
THEOREM ServerKeepsStored == SystemSpec => StoredSessionsKept
<1> DEFINE A == \A c \in Clients : session[c] = "open" /\ session'[c] = "erased" =>
                  cleanup = "scan" /\ c \in ToSet(Appended)
<1>1. SysInv /\ [SystemNext]_allVars => [A]_vars
  BY TableStep, TakesAppended DEF SysInv, TrackInv
<1> QED BY <1>1, SysInit, SysStep, PTL DEF SystemSpec, StoredSessionsKept

\* The whole server, with a client's connection in one of the places of its table and
\* any number of threads, keeps the safety of SessionSet.
THEOREM ServerIsSessionSet == SystemSpec => Sessions!Init /\ [][Sessions!Next]_Sessions!vars
<1>1. SystemInit => Sessions!Init
  BY TableInit, MappedInit
<1>2. SysInv /\ SysInv' /\ [SystemNext]_allVars => [Sessions!Next]_Sessions!vars
  BY TableStep, MappedNext DEF SysInv
<1> QED BY <1>1, <1>2, SysInit, SysStep, PTL DEF SystemSpec
=============================================================================
