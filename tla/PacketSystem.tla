----------------------------- MODULE PacketSystem -----------------------------
(* The server as a whole: the accept chain, the table of connections and its     *)
(* cleanup (TcpServer), and all of the connection of one client (KeyExchange),   *)
(* the others being what TcpServer makes of them. They meet where the accept     *)
(* handler sets the session up, where a lost link closes it, where the cleanup   *)
(* destroys it, and in the threads: a handler of the session needs one too.      *)
(*                                                                              *)
(* A definition named Bug... is not the code: it is the definition after it      *)
(* with a plausible mistake, which a property below must catch.                  *)
EXTENDS TcpServer

CONSTANTS Me,        \* the client whose connection is followed
          Exponents, Salts, Draws, KeyPairs, ServerPair, IntMax, Null

ASSUME MeAssumption == Me \in Clients

ASSUME KeysAssumption ==
         /\ Draws \subseteq Nat
         /\ ServerPair \in KeyPairs
         /\ IntMax \in Nat /\ IntMax % 2 = 1

VARIABLES trusted, cpc, dh, held, pending, handlers, link, enc, wire, inbox, garbled

connection == <<trusted, cpc, dh, held, pending, handlers, link, enc, wire, inbox, garbled>>
allVars == <<vars, connection>>

Connection == INSTANCE KeyExchange

ASSUME NullDiffers ==
         Null \notin Exponents \cup Connection!Responses \cup Connection!AESKeys

SystemInit == Init /\ Connection!Init

\* encryption_handler_server has a thread until it has installed the key
HandlerRuns == pending # Null
Free == Cardinality(Running) + (IF HandlerRuns THEN 1 ELSE 0) < Threads

\* the session is there for its handlers
Alive == session[Me] \in {"open", "closed"}

------------------------------------------------------------------------------
(* The followed client; its machine has threads of its own *)

Dial ==
  /\ Connection!Connect
  /\ IF cpc' = "spawned" THEN Connect(Me) ELSE UNCHANGED vars

ClientStep ==
  /\ \/ Connection!RequestKey \/ Connection!VerifyResponse \/ Connection!InstallKey
     \/ Connection!Greet \/ Connection!process_echo("client")
     \/ Connection!Receive("client") \/ Connection!Fail("client")
     \/ Connection!NoticeClose("client")
  /\ UNCHANGED vars

------------------------------------------------------------------------------
(* Its session on the server *)

AcceptMe ==
  /\ Free /\ AcceptSocket(Me) /\ Connection!Accept

\* the two registrations, within the accept handler
RegisterMe ==
  /\ accept = "setup" /\ socket = Me
  /\ Connection!Register
  /\ UNCHANGED vars

\* the session is put into the table once both are done
SetUp == socket = Me => "Echo" \in handlers

\* a packet is decoded, or answered, by one of the threads
ReadMe == Free /\ Alive /\ Connection!Receive("server") /\ UNCHANGED vars

AnswerMe ==
  /\ Free /\ Alive
  /\ Connection!encryption_handler_server \/ Connection!process_echo("server")
  /\ UNCHANGED vars

\* whoever erases the session meanwhile: what its handler holds on to is external
InstallMe == Connection!ServerInstall /\ UNCHANGED vars

\* the link is lost, or the session learns that the client has closed it
LoseMe ==
  /\ Free
  /\ Connection!Fail("server") \/ Connection!NoticeClose("server")
  /\ Close(Me)

NoticeMe == Free /\ Connection!NoticeClose("server") /\ Close(Me)

------------------------------------------------------------------------------
(* The rest of the server *)

Others == Clients \ {Me}

AcceptOther(c) == Free /\ AcceptSocket(c) /\ UNCHANGED connection
OtherStep(c) == (Connect(c) \/ (Free /\ Close(c))) /\ UNCHANGED connection
ErrorOther == Free /\ AcceptError /\ UNCHANGED connection
AcceptEnds == ((SetUp /\ EmplaceBack) \/ do_accept) /\ UNCHANGED connection

CleanupStarts == Free /\ CleanupBegin /\ UNCHANGED connection

\* a session that is destroyed while it is open closes its socket
Erase ==
  /\ CleanupErase
  /\ IF session[Me] = "open" /\ session'[Me] = "erased"
     THEN Connection!Close("server")
     ELSE UNCHANGED <<link, wire>>
  /\ UNCHANGED <<trusted, cpc, dh, held, pending, handlers, enc, inbox, garbled>>

CleanupGoesOn == Erase \/ ((CleanupVisit \/ Timer) /\ UNCHANGED connection)

SystemNext ==
  \/ Dial \/ ClientStep
  \/ AcceptMe \/ RegisterMe \/ ReadMe \/ AnswerMe \/ InstallMe \/ LoseMe
  \/ \E c \in Others : AcceptOther(c) \/ OtherStep(c)
  \/ ErrorOther \/ AcceptEnds \/ CleanupStarts \/ CleanupGoesOn

\* As in the two modules: what has a thread goes on, what waits for one gets it in
\* its turn. Links fail or do not.
SystemFairness ==
  /\ WF_allVars(Dial)
  /\ WF_allVars(Connection!RequestKey /\ UNCHANGED vars)
  /\ WF_allVars(Connection!VerifyResponse /\ UNCHANGED vars)
  /\ WF_allVars(Connection!InstallKey /\ UNCHANGED vars)
  /\ WF_allVars(Connection!Greet /\ UNCHANGED vars)
  /\ WF_allVars(Connection!process_echo("client") /\ UNCHANGED vars)
  /\ WF_allVars(Connection!Receive("client") /\ UNCHANGED vars)
  /\ WF_allVars(Connection!NoticeClose("client") /\ UNCHANGED vars)
  /\ SF_allVars(AcceptMe) /\ WF_allVars(RegisterMe)
  /\ SF_allVars(ReadMe) /\ SF_allVars(AnswerMe) /\ WF_allVars(InstallMe)
  /\ SF_allVars(NoticeMe)
  /\ WF_allVars(AcceptEnds) /\ SF_allVars(CleanupStarts) /\ WF_allVars(CleanupGoesOn)

SystemSpec == SystemInit /\ [][SystemNext]_allVars /\ SystemFairness

------------------------------------------------------------------------------
(* Properties *)

\* A client that has connected gets its key or loses its link, though accept chain,
\* cleanup and other sessions run beside it, the table outgrows its reserve and the
\* cleanup may take the session before its handlers have answered.
HandshakeResolves == Connection!HandshakeResolves

\* Echoes come back to the client again and again for as long as both ends are up and
\* the greeting was not garbled, whatever else the server has to do.
EchoKeepsGoing == Connection!EchoKeepsGoing

\* Once the client's end of an accepted connection is closed, whenever in the
\* handshake that was, the server forgets the session, unless the table has moved
\* under a cleanup.
LostConnectionForgotten ==
  (link["client"] = "closed" /\ session[Me] # "absent") ~>
    session[Me] = "erased" \/ dangling
=============================================================================
