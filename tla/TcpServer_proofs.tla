--------------------------- MODULE TcpServer_proofs ---------------------------
(* Theorems about TcpServer, for every number of clients and threads and every   *)
(* reserve.                                                                      *)
EXTENDS TcpServer, SequenceFacts, FiniteSetTheorems, TLAPS

\* the range erase_if works on is a part of the vector, and a session that is
\* being set up is somebody's
Ranges ==
  /\ cleanup = "scan" => last <= Len(connections)
  /\ accept = "setup" => socket \in Clients

TInv == TypeOK /\ Ranges

------------------------------------------------------------------------------
LEMMA TInvInit == Init => TInv
<1> SUFFICES ASSUME Init PROVE TInv
  OBVIOUS
<1>1. session \in [Clients -> {"absent", "backlog", "open", "closed", "erased"}]
  BY DEF Init
<1>2. connections \in Seq(Clients) /\ Len(connections) = 0
  BY DEF Init
<1>3. kept \in Seq(Clients) /\ Len(kept) = 0
  BY DEF Init
<1>4. capacity \in Nat \ {0}
  BY ConstantsAssumption DEF Init
<1>5. Len(connections) <= capacity /\ Len(kept) <= scanned
  BY <1>2, <1>3, <1>4 DEF Init
<1>6. last \in Nat /\ scanned \in 0..last
  BY DEF Init
<1>7. dangling = FALSE /\ accept = "armed" /\ socket = None /\ cleanup = "due"
  BY DEF Init
<1>8. TypeOK
  BY <1>1, <1>2, <1>3, <1>4, <1>5, <1>6, <1>7 DEF TypeOK
<1> QED
  BY <1>7, <1>8 DEF TInv, Ranges

\* What an append has added behind a range of the vector.
LEMMA AppendedType ==
  ASSUME TInv, cleanup = "scan"
  PROVE  /\ Appended \in Seq(Clients)
         /\ Len(Appended) = Len(connections) - last
BY DEF TInv, TypeOK, Ranges, Appended

LEMMA TInvNext == TInv /\ [Next]_vars => TInv'
<1> SUFFICES ASSUME TInv, [Next]_vars PROVE TInv'
  OBVIOUS
<1>1. ASSUME NEW c \in Clients, Connect(c) PROVE TInv'
  BY <1>1 DEF TInv, TypeOK, Ranges, Connect, table, scan
<1>2. ASSUME NEW c \in Clients, Close(c) PROVE TInv'
  BY <1>2 DEF TInv, TypeOK, Ranges, Close, table, scan
<1>3. ASSUME NEW c \in Clients, AcceptSocket(c) PROVE TInv'
  BY <1>3 DEF TInv, TypeOK, Ranges, AcceptSocket, table, scan
<1>4. CASE AcceptError
  BY <1>4 DEF TInv, TypeOK, Ranges, AcceptError, table, scan
<1>5. CASE EmplaceBack
  <2>1. /\ connections' \in Seq(Clients)
        /\ Len(connections') = Len(connections) + 1
    BY <1>5 DEF TInv, TypeOK, Ranges, EmplaceBack
  <2>2. capacity' \in Nat \ {0} /\ Len(connections') <= capacity'
    <3>1. CASE Len(connections) = capacity
      BY <1>5, <2>1, <3>1 DEF TInv, TypeOK, EmplaceBack, Grown
    <3>2. CASE Len(connections) # capacity
      BY <1>5, <2>1, <3>2 DEF TInv, TypeOK, EmplaceBack
    <3> QED BY <3>1, <3>2
  <2>3. dangling' \in BOOLEAN
    BY <1>5, Zenon DEF TInv, TypeOK, EmplaceBack
  <2>4. UNCHANGED <<session, cleanup, last, scanned, kept>> /\ accept' = "rearm" /\ socket' = None
    BY <1>5 DEF EmplaceBack, scan
  <2> QED BY <2>1, <2>2, <2>3, <2>4 DEF TInv, TypeOK, Ranges
<1>6. CASE do_accept
  BY <1>6 DEF TInv, TypeOK, Ranges, do_accept, table, scan
<1>7. CASE CleanupBegin
  BY <1>7 DEF TInv, TypeOK, Ranges, CleanupBegin, table
<1>8. CASE CleanupVisit
  <2>1. connections[scanned + 1] \in Clients
    BY <1>8 DEF TInv, TypeOK, Ranges, CleanupVisit
  <2>2. kept' \in Seq(Clients) /\ Len(kept') <= scanned + 1
    BY <1>8, <2>1 DEF TInv, TypeOK, CleanupVisit
  <2>3. scanned' = scanned + 1 /\ scanned' \in 0..last
    BY <1>8 DEF TInv, TypeOK, CleanupVisit
  <2> QED BY <1>8, <2>2, <2>3 DEF TInv, TypeOK, Ranges, CleanupVisit, table
<1>9. CASE CleanupErase
  <2>1. connections' \in Seq(Clients) /\ Len(connections') <= capacity
    <3>1. cleanup = "scan"
      BY <1>9 DEF CleanupErase
    <3>2. CASE connections' = kept \o Appended
      BY <3>1, <3>2, AppendedType DEF TInv, TypeOK, Ranges
    <3>3. CASE Len(kept) < last /\ connections' = kept
      BY <3>1, <3>3 DEF TInv, TypeOK, Ranges
    <3> QED BY <1>9, <3>2, <3>3 DEF CleanupErase
  <2>2. session' \in [Clients -> {"absent", "backlog", "open", "closed", "erased"}]
    BY <1>9 DEF TInv, TypeOK, CleanupErase
  <2> QED BY <1>9, <2>1, <2>2 DEF TInv, TypeOK, Ranges, CleanupErase, scan
<1>10. CASE Timer
  BY <1>10 DEF TInv, TypeOK, Ranges, Timer, table, scan
<1>11. CASE UNCHANGED vars
  BY <1>11 DEF TInv, TypeOK, Ranges, vars
<1> QED BY <1>1, <1>2, <1>3, <1>4, <1>5, <1>6, <1>7, <1>8, <1>9, <1>10, <1>11 DEF Next

\* The table, the accept chain and the cleanup never leave their types: no range
\* of erase_if reaches behind the vector, no session is set up for nobody, and the
\* vector never holds more than its buffer, whatever the number of threads.
THEOREM TypeCorrect == Spec => []TypeOK
<1>1. TInv => TypeOK
  BY DEF TInv
<1> QED BY TInvInit, TInvNext, <1>1, PTL DEF Spec

------------------------------------------------------------------------------
(* What erase_if has visited, and when the vector moves under it *)

\* what it has left out is closed: nothing opens a closed session again
ScanKeeps ==
  cleanup = "scan" =>
    \A i \in 1..scanned :
      connections[i] \in ToSet(kept) \/ session[connections[i]] = "closed"

\* the vector has at least the room it started with; once it has moved under
\* erase_if, the cleanup never gets any further
RoomKept ==
  /\ capacity >= Reserve
  /\ dangling => cleanup = "scan" /\ Len(connections) > Reserve

ScanInv == TInv /\ ScanKeeps /\ RoomKept

LEMMA ScanInit == Init => ScanInv
  BY TInvInit, ConstantsAssumption DEF Init, ScanInv, ScanKeeps, RoomKept

LEMMA ScanNext == ScanInv /\ [Next]_vars => ScanInv'
<1> SUFFICES ASSUME ScanInv, [Next]_vars PROVE (ScanKeeps /\ RoomKept)'
  BY TInvNext DEF ScanInv
<1> USE DEF ScanInv
<1>a. /\ session \in [Clients -> {"absent", "backlog", "open", "closed", "erased"}]
      /\ connections \in Seq(Clients) /\ kept \in Seq(Clients)
      /\ capacity \in Nat \ {0} /\ Len(connections) <= capacity
      /\ last \in Nat /\ scanned \in 0..last
      /\ cleanup = "scan" => last <= Len(connections)
      /\ Reserve \in Nat
  BY ConstantsAssumption DEF TInv, TypeOK, Ranges
<1>b. cleanup = "scan" => \A i \in 1..scanned : connections[i] \in Clients
  BY <1>a
<1>1. ASSUME NEW c \in Clients, Connect(c) PROVE (ScanKeeps /\ RoomKept)'
  BY <1>1, <1>a, <1>b DEF ScanKeeps, RoomKept, Connect, table, scan
<1>2. ASSUME NEW c \in Clients, Close(c) PROVE (ScanKeeps /\ RoomKept)'
  BY <1>2, <1>a, <1>b DEF ScanKeeps, RoomKept, Close, table, scan
<1>3. ASSUME NEW c \in Clients, AcceptSocket(c) PROVE (ScanKeeps /\ RoomKept)'
  BY <1>3, <1>a, <1>b DEF ScanKeeps, RoomKept, AcceptSocket, table, scan
<1>4. CASE AcceptError
  BY <1>4 DEF ScanKeeps, RoomKept, AcceptError, table, scan
<1>5. CASE EmplaceBack
  <2>1. /\ connections' = Append(connections, socket) /\ socket \in Clients
        /\ UNCHANGED <<session, cleanup, last, scanned, kept>>
    BY <1>5 DEF EmplaceBack, scan, TInv, Ranges
  <2>2. /\ Len(connections') = Len(connections) + 1
        /\ \A i \in 1..Len(connections) : connections'[i] = connections[i]
    BY <1>a, <2>1
  <2>3. ScanKeeps'
    BY <1>a, <2>1, <2>2 DEF ScanKeeps
  <2>4. CASE Len(connections) = capacity
    <3>1. capacity' >= capacity
      BY <1>5, <1>a, <2>4 DEF EmplaceBack, Grown
    <3>2. capacity' \in Nat
      BY <1>5, <1>a, <2>4 DEF EmplaceBack, Grown
    <3>3. dangling' => cleanup' = "scan"
      BY <1>5, <2>1, <2>4, Zenon DEF EmplaceBack, RoomKept
    <3> QED BY <1>a, <2>2, <2>3, <2>4, <3>1, <3>2, <3>3 DEF RoomKept
  <2>5. CASE Len(connections) # capacity
    BY <1>5, <1>a, <2>1, <2>2, <2>3, <2>5 DEF EmplaceBack, RoomKept
  <2> QED BY <2>4, <2>5
<1>6. CASE do_accept
  BY <1>6 DEF ScanKeeps, RoomKept, do_accept, table, scan
<1>7. CASE CleanupBegin
  BY <1>7 DEF ScanKeeps, RoomKept, CleanupBegin, table
<1>8. CASE CleanupVisit
  <2>1. /\ cleanup = "scan"
        /\ UNCHANGED <<cleanup, accept, last, connections, capacity, session, dangling>>
        /\ scanned' = scanned + 1
    BY <1>8 DEF CleanupVisit, table
  <2> DEFINE c == connections[scanned + 1]
  <2>a. c \in Clients
    BY <1>8, <1>a DEF CleanupVisit
  <2>b. kept' = IF is_closed(c) THEN kept ELSE Append(kept, c)
    BY <1>8 DEF CleanupVisit
  <2>2. ToSet(kept) \subseteq ToSet(kept')
    BY <1>a, <2>a, <2>b, AppendKeeps
  <2>3. c \in ToSet(kept') \/ session[c] = "closed"
    BY <1>a, <2>a, <2>b, AppendKeeps DEF is_closed
  <2>4. ASSUME NEW i \in 1..scanned'
        PROVE  connections'[i] \in ToSet(kept') \/ session'[connections'[i]] = "closed"
    <3>1. i = scanned + 1 \/ i \in 1..scanned
      BY <1>a, <2>1
    <3> QED BY <2>1, <2>2, <2>3, <3>1 DEF ScanKeeps
  <2> QED BY <2>1, <2>4 DEF ScanKeeps, RoomKept
<1>9. CASE CleanupErase
  <2>1. cleanup' = "sleep" /\ ~dangling /\ UNCHANGED <<dangling, capacity>>
    BY <1>9 DEF CleanupErase
  <2> QED BY <2>1 DEF ScanKeeps, RoomKept
<1>10. CASE Timer
  BY <1>10 DEF ScanKeeps, RoomKept, Timer, table, scan
<1>11. CASE UNCHANGED vars
  BY <1>11 DEF ScanKeeps, RoomKept, vars
<1> QED BY <1>1, <1>2, <1>3, <1>4, <1>5, <1>6, <1>7, <1>8, <1>9, <1>10, <1>11 DEF Next

\* The vector moves under erase_if only once the server holds more sessions than it
\* reserved room for, on any number of threads: reserve(100) does protect the cleanup
\* of a server with up to a hundred sessions.
THEOREM ReserveProtects == Spec => []SafeWithinReserve
<1>1. ScanInv => SafeWithinReserve
  BY DEF ScanInv, RoomKept, SafeWithinReserve
<1> QED BY ScanInit, ScanNext, <1>1, PTL DEF Spec

\* What was appended behind the range are the elements behind it, in their order.
LEMMA AppendedParts ==
  ASSUME connections \in Seq(Clients), last \in Nat, last <= Len(connections)
  PROVE  /\ Appended \in Seq(Clients) /\ Len(Appended) = Len(connections) - last
         /\ \A k \in 1..(Len(connections) - last) : Appended[k] = connections[last + k]
BY PartOf DEF Appended

\* Where the table keeps what was appended behind the range.
LEMMA BehindRange ==
  ASSUME TInv, cleanup = "scan", NEW i \in 1..Len(connections), i > last
  PROVE  connections[i] \in ToSet(Appended)
<1>1. /\ connections \in Seq(Clients) /\ last \in Nat /\ last <= Len(connections)
  BY DEF TInv, TypeOK, Ranges
<1>2. /\ Appended \in Seq(Clients) /\ Len(Appended) = Len(connections) - last
      /\ \A k \in 1..(Len(connections) - last) : Appended[k] = connections[last + k]
  BY <1>1, AppendedParts
<1>3. i - last \in 1..(Len(connections) - last) /\ last + (i - last) = i
  BY <1>1
<1>4. Appended[i - last] = connections[i]
  BY <1>2, <1>3
<1> QED BY <1>2, <1>3, <1>4, InSequence

\* What erase_if keeps stays in the table.
LEMMA KeptStay ==
  ASSUME TInv, CleanupErase
  PROVE  ToSet(kept) \subseteq ToSet(connections')
<1>1. cleanup = "scan"
  BY DEF CleanupErase
<1>2. kept \in Seq(Clients) /\ Appended \in Seq(Clients)
  BY <1>1, AppendedType DEF TInv, TypeOK
<1>3. CASE connections' = kept \o Appended
  BY <1>2, <1>3, ConcatKeeps
<1>4. CASE connections' = kept
  BY <1>4
<1> QED BY <1>3, <1>4 DEF CleanupErase

\* What is taken while it is open was appended behind the range.
LEMMA TakesAppended ==
  ASSUME ScanInv, Next, NEW c \in Clients, session[c] = "open", session'[c] = "erased"
  PROVE  cleanup = "scan" /\ c \in ToSet(Appended)
<1>1. CASE CleanupErase
  <2>1. c \in ToSet(connections) \ ToSet(connections')
    BY <1>1 DEF CleanupErase, ScanInv, TInv, TypeOK
  <2>2. /\ cleanup = "scan" /\ scanned = last /\ last \in Nat
        /\ connections \in Seq(Clients)
    BY <1>1 DEF CleanupErase, ScanInv, TInv, TypeOK
  <2>3. PICK i \in 1..Len(connections) : connections[i] = c
    BY <2>1, <2>2, InSequence
  <2>4. c \notin ToSet(kept)
    BY <1>1, <2>1, KeptStay DEF ScanInv
  <2>5. i > last
    BY <2>2, <2>3, <2>4 DEF ScanInv, ScanKeeps
  <2> QED BY <2>2, <2>3, <2>5, BehindRange DEF ScanInv
<1>2. CASE ~CleanupErase
  BY <1>2 DEF Next, Connect, Close, AcceptSocket, AcceptError, EmplaceBack, do_accept,
              CleanupBegin, CleanupVisit, Timer, ScanInv, TInv, TypeOK
<1> QED BY <1>1, <1>2

\* A session that was in the table when erase_if fixed its range is never taken while
\* it is open, on any number of threads and however often the vector grows.
THEOREM StoredKept == Spec => StoredSessionsKept
<1> DEFINE A == \A c \in Clients : session[c] = "open" /\ session'[c] = "erased" =>
                  cleanup = "scan" /\ c \in ToSet(Appended)
<1>1. ScanInv /\ [Next]_vars => [A]_vars
  BY TakesAppended
<1>2. Spec => [][A]_vars
  BY ScanInit, ScanNext, <1>1, PTL DEF Spec
<1> QED BY <1>2 DEF StoredSessionsKept

------------------------------------------------------------------------------
(* The table tracks the sessions *)

\* whose session is being set up is known and not in the table yet
SetupHasSocket ==
  /\ accept = "setup" <=> socket # None
  /\ socket \notin ToSet(connections)

\* what erase_if keeps are elements it has visited, none of them twice
KeptVisited ==
  cleanup = "scan" =>
    /\ IsInjective(kept)
    /\ \A k \in DOMAIN kept : \E i \in 1..scanned : kept[k] = connections[i]

TrackInv == ScanInv /\ TableTracksSessions /\ SetupHasSocket /\ KeptVisited

LEMMA TrackInit == Init => TrackInv
<1> SUFFICES ASSUME Init PROVE TrackInv
  OBVIOUS
<1>1. ToSet(connections) = {} /\ IsInjective(connections)
  BY DEF Init, ToSet, IsInjective
<1>2. {c \in Clients : session[c] \in {"open", "closed"}} = {}
  BY DEF Init
<1> QED BY ScanInit, <1>1, <1>2 DEF Init, TrackInv, TableTracksSessions, SetupHasSocket, KeptVisited

\* Once the range is visited, what is kept is a part of it, and what was appended is
\* the rest of the table.
LEMMA ErasedTable ==
  ASSUME TrackInv, CleanupErase
  PROVE  /\ IsInjective(connections') /\ connections' \in Seq(Clients)
         /\ ToSet(connections') \subseteq ToSet(connections)
<1>1. /\ cleanup = "scan" /\ scanned = last
      /\ connections \in Seq(Clients) /\ kept \in Seq(Clients)
      /\ last \in Nat /\ last <= Len(connections)
  BY DEF CleanupErase, TrackInv, ScanInv, TInv, TypeOK, Ranges
<1>2. /\ Appended \in Seq(Clients) /\ Len(Appended) = Len(connections) - last
      /\ \A k \in 1..(Len(connections) - last) : Appended[k] = connections[last + k]
  BY <1>1, AppendedParts
<1>3. IsInjective(connections) /\ DOMAIN connections = 1..Len(connections)
  BY <1>1 DEF TrackInv, TableTracksSessions
<1>4. ASSUME NEW e \in ToSet(kept) PROVE \E i \in 1..last : e = connections[i]
  <2>1. PICK k \in DOMAIN kept : kept[k] = e
    BY <1>1 DEF ToSet
  <2> QED BY <1>1, <2>1 DEF TrackInv, KeptVisited
<1>5. ASSUME NEW e \in ToSet(Appended)
      PROVE  \E i \in (last + 1)..Len(connections) : e = connections[i]
  <2>1. PICK k \in 1..(Len(connections) - last) : Appended[k] = e
    BY <1>2, InSequence
  <2>2. last + k \in (last + 1)..Len(connections)
    BY <1>1
  <2> QED BY <1>2, <2>1, <2>2
<1>6. IsInjective(kept)
  BY <1>1 DEF TrackInv, KeptVisited
<1>7. IsInjective(Appended)
  <2> SUFFICES ASSUME NEW a \in 1..(Len(connections) - last),
                      NEW b \in 1..(Len(connections) - last), Appended[a] = Appended[b]
               PROVE  a = b
    BY <1>2 DEF IsInjective
  <2>1. last + a \in DOMAIN connections /\ last + b \in DOMAIN connections
    BY <1>1, <1>3
  <2>2. last + a = last + b
    BY <1>2, <1>3, <2>1 DEF IsInjective
  <2> QED BY <1>1, <2>2
<1>8. ToSet(kept) \cap ToSet(Appended) = {}
  <2> SUFFICES ASSUME NEW e \in ToSet(kept), e \in ToSet(Appended) PROVE FALSE
    OBVIOUS
  <2>1. PICK i \in 1..last : e = connections[i]
    BY <1>4
  <2>2. PICK j \in (last + 1)..Len(connections) : e = connections[j]
    BY <1>5
  <2>3. i \in DOMAIN connections /\ j \in DOMAIN connections /\ i # j
    BY <1>1, <1>3
  <2> QED BY <1>3, <2>1, <2>2, <2>3 DEF IsInjective
<1>9. ToSet(kept) \cup ToSet(Appended) \subseteq ToSet(connections)
  <2>1. \A i \in 1..Len(connections) : connections[i] \in ToSet(connections)
    BY <1>1, InSequence
  <2>2. /\ \A i \in 1..last : connections[i] \in ToSet(connections)
        /\ \A i \in (last + 1)..Len(connections) : connections[i] \in ToSet(connections)
    BY <1>1, <2>1
  <2> QED BY <1>4, <1>5, <2>2
<1>10. CASE connections' = kept \o Appended
  BY <1>1, <1>2, <1>6, <1>7, <1>8, <1>9, <1>10, ConcatHolds, ConcatNew
<1>11. CASE connections' = kept
  BY <1>1, <1>6, <1>9, <1>11
<1> QED BY <1>10, <1>11 DEF CleanupErase

\* Every step keeps the sessions and the table together.
LEMMA TrackNext == TrackInv /\ [Next]_vars => TrackInv'
<1> SUFFICES ASSUME TrackInv, [Next]_vars
             PROVE  (TableTracksSessions /\ SetupHasSocket /\ KeptVisited)'
  BY ScanNext DEF TrackInv
<1> USE DEF TrackInv
<1>a. ScanInv /\ TInv /\ TypeOK
  BY DEF ScanInv, TInv
<1>1. ASSUME NEW c \in Clients, Connect(c)
      PROVE  (TableTracksSessions /\ SetupHasSocket /\ KeptVisited)'
  <2>1. {d \in Clients : session'[d] \in {"open", "closed"}}
          = {d \in Clients : session[d] \in {"open", "closed"}}
    BY <1>1, <1>a DEF Connect, TypeOK
  <2> QED BY <1>1, <2>1 DEF Connect, table, scan, TableTracksSessions, SetupHasSocket, KeptVisited
<1>2. ASSUME NEW c \in Clients, Close(c)
      PROVE  (TableTracksSessions /\ SetupHasSocket /\ KeptVisited)'
  <2>1. {d \in Clients : session'[d] \in {"open", "closed"}}
          = {d \in Clients : session[d] \in {"open", "closed"}}
    BY <1>2, <1>a DEF Close, TypeOK
  <2> QED BY <1>2, <2>1 DEF Close, table, scan, TableTracksSessions, SetupHasSocket, KeptVisited
<1>3. ASSUME NEW c \in Clients, AcceptSocket(c)
      PROVE  (TableTracksSessions /\ SetupHasSocket /\ KeptVisited)'
  <2>1. socket = None
    BY <1>3 DEF AcceptSocket, SetupHasSocket
  <2>2. {d \in Clients : session'[d] \in {"open", "closed"}}
          = {d \in Clients : session[d] \in {"open", "closed"}} \cup {c}
    BY <1>3, <1>a DEF AcceptSocket, TypeOK
  <2>3. c \notin ToSet(connections)
    BY <1>3 DEF AcceptSocket, TableTracksSessions
  <2>4. c # None
    BY ConstantsAssumption
  <2>5. /\ UNCHANGED <<connections, cleanup, kept, scanned>>
        /\ socket' = c /\ accept' = "setup"
    BY <1>3 DEF AcceptSocket, table, scan
  <2>6. ToSet(connections') \cup ({socket'} \ {None})
          = {d \in Clients : session'[d] \in {"open", "closed"}}
    BY <2>1, <2>2, <2>4, <2>5 DEF TableTracksSessions
  <2> QED BY <2>3, <2>4, <2>5, <2>6 DEF TableTracksSessions, SetupHasSocket, KeptVisited
<1>4. CASE AcceptError
  <2>1. socket = None
    BY <1>4 DEF AcceptError, SetupHasSocket
  <2> QED BY <1>4, <2>1 DEF AcceptError, table, scan, TableTracksSessions, SetupHasSocket, KeptVisited
<1>5. CASE EmplaceBack
  <2>1. socket \in Clients /\ socket # None /\ connections \in Seq(Clients)
    BY <1>5, <1>a DEF EmplaceBack, SetupHasSocket, TypeOK
  <2>2. /\ connections' = Append(connections, socket)
        /\ UNCHANGED <<session, cleanup, scanned, kept>>
        /\ accept' = "rearm" /\ socket' = None
    BY <1>5 DEF EmplaceBack, scan
  <2>3. IsInjective(connections')
    BY <2>1, <2>2, AppendNew DEF TableTracksSessions, SetupHasSocket
  <2>4. ToSet(connections') = ToSet(connections) \cup {socket}
    BY <2>1, <2>2, AppendHolds
  <2>5. None \notin ToSet(connections')
    BY <2>1, <2>4, InSequence, ConstantsAssumption
  <2>6. KeptVisited'
    <3>1. cleanup = "scan" => \A i \in 1..scanned : connections'[i] = connections[i]
      BY <2>1, <2>2, <1>a DEF TInv, TypeOK, Ranges
    <3>2. CASE cleanup = "scan"
      <4>1. ASSUME NEW k \in DOMAIN kept PROVE \E i \in 1..scanned : kept[k] = connections'[i]
        BY <3>1, <3>2 DEF KeptVisited
      <4>2. IsInjective(kept)
        BY <3>2 DEF KeptVisited
      <4> QED BY <2>2, <4>1, <4>2 DEF KeptVisited
    <3> QED BY <2>2, <3>2 DEF KeptVisited
  <2> QED BY <2>1, <2>2, <2>3, <2>4, <2>5, <2>6 DEF TableTracksSessions, SetupHasSocket
<1>6. CASE do_accept
  BY <1>6 DEF do_accept, table, scan, TableTracksSessions, SetupHasSocket, KeptVisited
<1>7. CASE CleanupBegin
  <2>1. kept' = <<>> /\ UNCHANGED <<session, accept, socket, connections>>
    BY <1>7 DEF CleanupBegin, table
  <2>2. IsInjective(kept') /\ DOMAIN kept' = {}
    BY <2>1 DEF IsInjective
  <2> QED BY <2>1, <2>2 DEF TableTracksSessions, SetupHasSocket, KeptVisited
<1>8. CASE CleanupVisit
  <2> DEFINE e == connections[scanned + 1]
  <2>1. /\ cleanup = "scan" /\ scanned' = scanned + 1
        /\ UNCHANGED <<session, accept, socket, connections, cleanup>>
        /\ kept' = IF is_closed(e) THEN kept ELSE Append(kept, e)
    BY <1>8 DEF CleanupVisit, table
  <2>2. /\ e \in Clients /\ kept \in Seq(Clients) /\ connections \in Seq(Clients)
        /\ scanned \in Nat /\ scanned + 1 \in DOMAIN connections
        /\ 1..scanned \subseteq DOMAIN connections
    BY <1>8, <1>a DEF CleanupVisit, TInv, TypeOK, Ranges
  <2>3. e \notin ToSet(kept)
    <3> SUFFICES ASSUME e \in ToSet(kept) PROVE FALSE
      OBVIOUS
    <3>1. PICK k \in DOMAIN kept : kept[k] = e
      BY <2>2 DEF ToSet
    <3>2. PICK i \in 1..scanned : connections[i] = e
      BY <2>1, <3>1 DEF KeptVisited
    <3>3. i = scanned + 1
      BY <2>2, <3>2 DEF TableTracksSessions, IsInjective
    <3> QED BY <2>2, <3>3
  <2>4. IsInjective(kept')
    BY <2>1, <2>2, <2>3, AppendNew DEF KeptVisited
  <2>5. ASSUME NEW k \in DOMAIN kept'
        PROVE  \E i \in 1..scanned' : kept'[k] = connections'[i]
    <3>1. CASE k \in DOMAIN kept /\ kept'[k] = kept[k]
      BY <2>1, <2>2, <3>1 DEF KeptVisited
    <3>2. CASE kept'[k] = e
      BY <2>1, <2>2, <3>2
    <3> QED BY <2>1, <2>2, <3>1, <3>2
  <2> QED BY <2>1, <2>4, <2>5 DEF TableTracksSessions, SetupHasSocket, KeptVisited
<1>9. CASE CleanupErase
  <2>1. /\ cleanup' = "sleep" /\ UNCHANGED <<accept, socket>>
        /\ connections \in Seq(Clients)
    BY <1>9, <1>a DEF CleanupErase, TypeOK
  <2>2. /\ IsInjective(connections') /\ connections' \in Seq(Clients)
        /\ ToSet(connections') \subseteq ToSet(connections)
    BY <1>9, ErasedTable
  <2>3. ASSUME NEW c \in Clients
        PROVE  session'[c] \in {"open", "closed"} <=>
                 c \in ToSet(connections') \cup ({socket} \ {None})
    <3>1. session'[c] = IF c \in ToSet(connections) \ ToSet(connections') THEN "erased"
                                                                         ELSE session[c]
      BY <1>9 DEF CleanupErase
    <3>2. session[c] \in {"open", "closed"} <=> c \in ToSet(connections) \cup ({socket} \ {None})
      BY DEF TableTracksSessions
    <3>3. socket \notin ToSet(connections)
      BY DEF SetupHasSocket
    <3> QED BY <2>2, <3>1, <3>2, <3>3
  <2>4. ToSet(connections') \cup ({socket} \ {None}) \subseteq Clients
    BY <2>2, <1>a, InSequence DEF TypeOK
  <2>5. TableTracksSessions'
    BY <2>1, <2>2, <2>3, <2>4 DEF TableTracksSessions
  <2> QED BY <2>1, <2>2, <2>5 DEF SetupHasSocket, KeptVisited
<1>10. CASE Timer
  BY <1>10 DEF Timer, table, scan, TableTracksSessions, SetupHasSocket, KeptVisited
<1>11. CASE UNCHANGED vars
  BY <1>11 DEF vars, TableTracksSessions, SetupHasSocket, KeptVisited
<1> QED BY <1>1, <1>2, <1>3, <1>4, <1>5, <1>6, <1>7, <1>8, <1>9, <1>10, <1>11 DEF Next

\* Every session that is open or closed is in the table once, or about to be put
\* there, and nothing else is: for any number of clients and threads and any reserve,
\* and also while an append and a cleanup overlap, the cleanup will find what it has
\* to erase.
THEOREM TableTracks == Spec => []TableTracksSessions
<1>1. TrackInv => TableTracksSessions
  BY DEF TrackInv
<1> QED BY TrackInit, TrackNext, <1>1, PTL DEF Spec

------------------------------------------------------------------------------
(* The table implements the set of sessions *)

With(state) == {c \in Clients : session[c] = state}

\* what the refinement mapping reads from the table is what the sessions say
Mapped ==
  /\ InBacklog = With("backlog")
  /\ {c \in Held : ~is_closed(c)} = With("open")
  /\ {c \in Held : is_closed(c)} = With("closed")

LEMMA Mapping == TrackInv => Mapped
BY DEF TrackInv, TableTracksSessions, Held, InBacklog, is_closed, With, Mapped

LEMMA MappingNext == TrackInv' => Mapped'
BY DEF TrackInv, TableTracksSessions, Held, InBacklog, is_closed, With, Mapped

LEMMA MappedInit == Init => Sessions!Init
BY DEF Init, Sessions!Init, InBacklog, Held, is_closed, ToSet, Settled

\* A table without repetition has as many elements as places.
LEMMA InjectiveSize ==
  ASSUME NEW S, NEW s \in Seq(S), IsInjective(s)
  PROVE  Cardinality(ToSet(s)) = Len(s)
<1>1. DOMAIN s = 1..Len(s) /\ Len(s) \in Nat
  OBVIOUS
<1>2. s \in [1..Len(s) -> ToSet(s)]
  BY <1>1 DEF ToSet
<1>3. s \in Bijection(1..Len(s), ToSet(s))
  BY <1>1, <1>2 DEF Bijection, Injection, Surjection, ToSet
<1>4. IsFiniteSet(1..Len(s)) /\ Cardinality(1..Len(s)) = Len(s)
  BY <1>1, FS_Interval
<1> QED BY <1>3, <1>4, FS_Bijection DEF ExistsBijection

\* A part of the table that a new element leaves alone.
LEMMA RangeKept ==
  ASSUME NEW S, NEW s \in Seq(S), NEW e \in S, NEW n \in Nat, n <= Len(s)
  PROVE  SubSeq(Append(s, e), 1, n) = SubSeq(s, 1, n)
<1>1. \A i \in 1..n : Append(s, e)[i] = s[i]
  OBVIOUS
<1> QED BY <1>1

LEMMA WholeRange ==
  ASSUME NEW S, NEW s \in Seq(S) PROVE SubSeq(s, 1, Len(s)) = s
OBVIOUS

\* No element of the range is behind it.
LEMMA SettledApart ==
  ASSUME TrackInv, cleanup = "scan"
  PROVE  Settled \cap ToSet(Appended) = {} /\ Settled \subseteq ToSet(connections)
<1>1. /\ connections \in Seq(Clients) /\ last \in Nat /\ last <= Len(connections)
      /\ IsInjective(connections) /\ DOMAIN connections = 1..Len(connections)
  BY DEF TrackInv, ScanInv, TInv, TypeOK, Ranges, TableTracksSessions
<1>2. /\ SubSeq(connections, 1, last) \in Seq(Clients)
      /\ Len(SubSeq(connections, 1, last)) = last
      /\ \A i \in 1..last : SubSeq(connections, 1, last)[i] = connections[i]
  BY <1>1
<1>3. ASSUME NEW e \in Settled PROVE \E i \in 1..last : e = connections[i]
  <2>1. e \in ToSet(SubSeq(connections, 1, last))
    BY <1>3 DEF Settled
  <2>2. PICK i \in 1..Len(SubSeq(connections, 1, last)) : SubSeq(connections, 1, last)[i] = e
    BY <1>2, <2>1, InSequence
  <2> QED BY <1>2, <2>2
<1>4. /\ Appended \in Seq(Clients) /\ Len(Appended) = Len(connections) - last
      /\ \A k \in 1..(Len(connections) - last) : Appended[k] = connections[last + k]
  BY <1>1, AppendedParts
<1>5. ASSUME NEW e \in Settled, e \in ToSet(Appended) PROVE FALSE
  <2>1. PICK i \in 1..last : e = connections[i]
    BY <1>3
  <2>2. PICK k \in 1..(Len(connections) - last) : e = Appended[k]
    BY <1>4, <1>5, InSequence
  <2>3. i \in DOMAIN connections /\ last + k \in DOMAIN connections /\ i # last + k
    BY <1>1
  <2> QED BY <1>1, <1>4, <2>1, <2>2, <2>3 DEF IsInjective
<1>6. \A i \in 1..last : connections[i] \in ToSet(connections)
  BY <1>1, InSequence
<1> QED BY <1>3, <1>5, <1>6

\* whose session is being set up
Starting == {socket} \ {None}

\* An append ends what set the session up; the session is settled then, or is left
\* behind a range, or moves the vector.
LEMMA AppendMapped ==
  ASSUME TrackInv, TrackInv', EmplaceBack, Mapped, Mapped'
  PROVE  Sessions!Next
<1>1. /\ connections' = Append(connections, socket) /\ socket \in Clients
      /\ UNCHANGED <<session, cleanup, last>> /\ connections \in Seq(Clients)
      /\ accept' = "rearm" /\ socket' = None
  BY DEF EmplaceBack, scan, TrackInv, ScanInv, TInv, TypeOK, Ranges
<1>2. /\ With("backlog")' = With("backlog") /\ With("open")' = With("open")
      /\ With("closed")' = With("closed")
  BY <1>1 DEF With
<1>3. socket \in Starting /\ Starting' = Starting \ {socket}
  BY <1>1, ConstantsAssumption DEF Starting
<1>4. Settled' \in {Settled, Settled \cup {socket}}
  <2>1. CASE cleanup = "scan"
    <3>1. last \in Nat /\ last <= Len(connections)
      BY <2>1 DEF TrackInv, ScanInv, TInv, TypeOK, Ranges
    <3> QED BY <1>1, <2>1, <3>1, RangeKept DEF Settled
  <2>2. CASE cleanup # "scan"
    BY <1>1, <2>2, AppendHolds DEF Settled
  <2> QED BY <2>1, <2>2
<1>5. \/ dangling' = dangling
      \/ /\ With("open") \cup With("closed") \notin {S \in SUBSET Clients : Cardinality(S) <= Reserve}
         /\ dangling' = TRUE
  <2> SUFFICES ASSUME dangling' # dangling
               PROVE  /\ ~(Cardinality(With("open") \cup With("closed")) <= Reserve)
                      /\ dangling' = TRUE
    OBVIOUS
  <2>1. ~dangling /\ dangling' = TRUE /\ Len(connections) = capacity
    BY Zenon DEF EmplaceBack, TrackInv, ScanInv, TInv, TypeOK
  <2>2. /\ Len(connections') = Len(connections) + 1 /\ connections' \in Seq(Clients)
        /\ Len(connections) \in Nat
    BY <1>1
  <2>3. Cardinality(ToSet(connections')) = Len(connections')
    BY <2>2, InjectiveSize DEF TrackInv, TableTracksSessions
  <2>4. ToSet(connections') = With("open") \cup With("closed")
    <3>1. ToSet(connections') = {c \in Clients : session'[c] \in {"open", "closed"}}
      BY <1>1 DEF TrackInv, TableTracksSessions
    <3> QED BY <1>1, <3>1 DEF With
  <2>5. capacity >= Reserve /\ Reserve \in Nat
    BY ConstantsAssumption DEF TrackInv, ScanInv, RoomKept
  <2> QED BY <2>1, <2>2, <2>3, <2>4, <2>5
<1>6. Sessions!Finish(socket)
  BY <1>2, <1>3, <1>4, <1>5 DEF Sessions!Finish, Mapped, Starting
<1> QED BY <1>1, <1>6 DEF Sessions!Next

\* What a cleanup takes is lost or not settled, and what it leaves is settled.
LEMMA EraseMapped ==
  ASSUME TrackInv, TrackInv', CleanupErase, Next, Mapped, Mapped'
  PROVE  Sessions!Next
<1> DEFINE S == ToSet(connections) \ ToSet(connections')
           T == ToSet(connections')
<1>1. /\ cleanup = "scan" /\ cleanup' = "sleep" /\ ~dangling /\ UNCHANGED <<socket, dangling>>
      /\ session \in [Clients -> {"absent", "backlog", "open", "closed", "erased"}]
      /\ session' = [c \in Clients |-> IF c \in S THEN "erased" ELSE session[c]]
      /\ connections \in Seq(Clients)
  BY DEF CleanupErase, TrackInv, ScanInv, TInv, TypeOK
<1>2. T \subseteq ToSet(connections) /\ ToSet(connections) \subseteq Clients
  BY <1>1, ErasedTable, InSequence
<1>3. ToSet(connections) \subseteq With("open") \cup With("closed")
  BY DEF TrackInv, TableTracksSessions, With
<1>4. S \subseteq With("closed") \cup (With("open") \ Settled)
  <2> SUFFICES ASSUME NEW c \in S, c \notin With("closed") PROVE c \in With("open") \ Settled
    OBVIOUS
  <2>1. c \in Clients /\ session[c] = "open" /\ session'[c] = "erased" /\ c \in With("open")
    BY <1>1, <1>2, <1>3 DEF With
  <2>2. c \in ToSet(Appended)
    BY <2>1, TakesAppended DEF TrackInv
  <2> QED BY <1>1, <2>1, <2>2, SettledApart
<1>5. /\ T \subseteq (With("open") \cup With("closed")) \ (S \cup Starting)
      /\ S \cap Starting = {}
  BY <1>2, <1>3 DEF TrackInv, SetupHasSocket, Starting
<1>6. /\ With("open")' = With("open") \ S /\ With("closed")' = With("closed") \ S
      /\ With("backlog")' = With("backlog")
  <2>1. \A c \in S : session[c] # "backlog"
    BY <1>3 DEF With
  <2> QED BY <1>1, <2>1 DEF With
<1>7. Settled' = (Settled \ S) \cup T
  <2>1. Settled' = T
    BY <1>1 DEF Settled
  <2>2. Settled \ S \subseteq T
    BY <1>1, SettledApart
  <2> QED BY <2>1, <2>2
<1>8. Sessions!Sweep(S, T)
  BY <1>1, <1>4, <1>5, <1>6, <1>7 DEF Sessions!Sweep, Mapped, Starting
<1>9. S \in SUBSET Clients /\ T \in SUBSET Clients
  BY <1>2
<1> QED BY <1>8, <1>9 DEF Sessions!Next

LEMMA MappedNext ==
  ASSUME TrackInv, TrackInv', [Next]_vars
  PROVE  [Sessions!Next]_Sessions!vars
<1>1. Mapped /\ Mapped'
  BY Mapping, MappingNext
<1>a. session \in [Clients -> {"absent", "backlog", "open", "closed", "erased"}]
  BY DEF TrackInv, ScanInv, TInv, TypeOK
<1>2. ASSUME UNCHANGED session
      PROVE  /\ With("backlog")' = With("backlog") /\ With("open")' = With("open")
             /\ With("closed")' = With("closed")
  BY <1>2 DEF With
<1>3. ASSUME UNCHANGED <<connections, cleanup, last>> PROVE Settled' = Settled
  BY <1>3 DEF Settled
<1>4. ASSUME NEW c \in Clients, Connect(c) PROVE Sessions!Next
  <2>1. /\ c \notin With("backlog") \cup With("open") \cup With("closed")
        /\ With("backlog")' = With("backlog") \cup {c}
        /\ With("open")' = With("open") /\ With("closed")' = With("closed")
    BY <1>4, <1>a DEF Connect, With
  <2>2. Settled' = Settled /\ dangling' = dangling /\ socket' = socket
    BY <1>3, <1>4 DEF Connect, table, scan
  <2>3. Sessions!Ask(c)
    BY <1>1, <2>1, <2>2 DEF Sessions!Ask, Mapped
  <2> QED BY <2>3 DEF Sessions!Next
<1>5. ASSUME NEW c \in Clients, AcceptSocket(c) PROVE Sessions!Next
  <2>1. /\ c \in With("backlog")
        /\ With("backlog")' = With("backlog") \ {c}
        /\ With("open")' = With("open") \cup {c} /\ With("closed")' = With("closed")
    BY <1>5, <1>a DEF AcceptSocket, With
  <2>2. Settled' = Settled /\ dangling' = dangling
    BY <1>3, <1>5 DEF AcceptSocket, table, scan
  <2>a. Starting' = Starting \cup {c}
    <3>1. socket = None /\ socket' = c
      BY <1>5 DEF AcceptSocket, TrackInv, SetupHasSocket
    <3> QED BY <3>1, ConstantsAssumption DEF Starting
  <2>3. Sessions!Serve(c)
    BY <1>1, <2>1, <2>2, <2>a DEF Sessions!Serve, Mapped, Starting
  <2> QED BY <2>3 DEF Sessions!Next
<1>6. ASSUME NEW c \in Clients, Close(c) PROVE Sessions!Next
  <2>1. /\ c \in With("open") /\ With("backlog")' = With("backlog")
        /\ With("open")' = With("open") \ {c} /\ With("closed")' = With("closed") \cup {c}
    BY <1>6, <1>a DEF Close, With
  <2>2. Settled' = Settled /\ dangling' = dangling /\ socket' = socket
    BY <1>3, <1>6 DEF Close, table, scan
  <2>3. Sessions!Lose(c)
    BY <1>1, <2>1, <2>2 DEF Sessions!Lose, Mapped
  <2> QED BY <2>3 DEF Sessions!Next
<1>7. CASE CleanupErase
  BY <1>1, <1>7, EraseMapped DEF Next
<1>8. CASE EmplaceBack
  BY <1>1, <1>8, AppendMapped
<1>9. CASE CleanupBegin
  <2>1. /\ cleanup = "due" /\ cleanup' = "scan" /\ last' = Len(connections)
        /\ UNCHANGED <<session, connections, dangling, socket>> /\ connections \in Seq(Clients)
    BY <1>9 DEF CleanupBegin, table, TrackInv, ScanInv, TInv, TypeOK
  <2>2. Settled' = Settled
    BY <2>1, WholeRange DEF Settled
  <2> QED BY <1>1, <1>2, <2>1, <2>2 DEF Sessions!vars, Mapped
<1>10. CASE Timer
  <2>1. Settled' = Settled /\ UNCHANGED <<session, dangling, socket>>
    BY <1>10 DEF Timer, table, scan, Settled
  <2> QED BY <1>1, <1>2, <2>1 DEF Sessions!vars, Mapped
<1>11. CASE AcceptError \/ do_accept \/ CleanupVisit \/ UNCHANGED vars
  <2>1. UNCHANGED <<session, connections, cleanup, last, dangling, socket>>
    BY <1>11 DEF AcceptError, do_accept, CleanupVisit, vars, table, scan
  <2> QED BY <1>1, <1>2, <1>3, <2>1 DEF Sessions!vars, Mapped
<1> QED BY <1>4, <1>5, <1>6, <1>7, <1>8, <1>9, <1>10, <1>11 DEF Next

\* Every step of accept chain and cleanup is a step of SessionSet or leaves it alone,
\* for any number of clients and threads and any reserve: the safety of
\* ImplementsSessionSet.
THEOREM TableImplements == Spec => Sessions!Init /\ [][Sessions!Next]_Sessions!vars
BY TrackInit, TrackNext, MappedInit, MappedNext, PTL DEF Spec
=============================================================================
