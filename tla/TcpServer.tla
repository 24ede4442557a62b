------------------------------ MODULE TcpServer ------------------------------
(* The table of connections of central_server: the chain of async_accept       *)
(* handlers appends to it, the coroutine cleanup_task erases closed sessions    *)
(* from it, and both run on the threads of one io_context. What a session does  *)
(* while it is open is KeyExchange; here it is open until it is closed.         *)
(*                                                                             *)
(* std::vector and std::erase_if are external: erase_if fixes its range when    *)
(* it starts, visits the elements one by one, moves the kept ones to the front  *)
(* and, if it has removed some, erases the rest: to the end of its range in one *)
(* standard library, to the present end of the vector in another.              *)
(*                                                                             *)
(* A definition named Bug... is not the code: it is the definition after it     *)
(* with a plausible mistake, which a property below must catch.                 *)
EXTENDS Integers, Sequences, FiniteSets, SequencesExt

CONSTANTS Clients,     \* the connection attempts
          Threads,     \* threads in io_context.run: kAdditionalThreads + 1
          Reserve      \* connections_.reserve(Reserve)

None == "none"

ASSUME ConstantsAssumption ==
  /\ Threads \in Nat \ {0} /\ Reserve \in Nat \ {0}
  /\ None \notin Clients

VARIABLES
  session,       \* each attempt: "absent", "backlog", "open", "closed" or "erased"
  accept,        \* the accept chain: "armed", "setup", "rearm"
  socket,        \* the client whose session the accept handler sets up
  connections,   \* the vector
  capacity,      \* the elements it can hold before it moves to a new buffer
  cleanup,       \* cleanup_task: "due", "scan" or "sleep"
  last,          \* the end of the range erase_if works on
  scanned,       \* the elements it has visited
  kept,          \* those it keeps
  dangling       \* the vector moved while erase_if was visiting it

vars == <<session, accept, socket, connections, capacity, cleanup, last, scanned,
          kept, dangling>>
table == <<connections, capacity>>
scan  == <<last, scanned, kept>>

TypeOK ==
  /\ session \in [Clients -> {"absent", "backlog", "open", "closed", "erased"}]
  /\ accept \in {"armed", "setup", "rearm"}
  /\ socket \in Clients \cup {None}
  /\ connections \in Seq(Clients)
  /\ capacity \in Nat \ {0} /\ Len(connections) <= capacity
  /\ cleanup \in {"due", "scan", "sleep"}
  /\ last \in Nat /\ scanned \in 0..last
  /\ kept \in Seq(Clients) /\ Len(kept) <= scanned
  /\ dangling \in BOOLEAN

\* reserve is forgotten
BugNoReserve ==
  /\ session = [c \in Clients |-> "absent"]
  /\ accept = "armed" /\ socket = None
  /\ connections = <<>> /\ capacity = 0
  /\ cleanup = "due" /\ last = 0 /\ scanned = 0 /\ kept = <<>>
  /\ dangling = FALSE

\* The constructor: do_accept, co_spawn, reserve. No thread runs yet.
Init ==
  /\ session = [c \in Clients |-> "absent"]
  /\ accept = "armed" /\ socket = None
  /\ connections = <<>> /\ capacity = Reserve
  /\ cleanup = "due" /\ last = 0 /\ scanned = 0 /\ kept = <<>>
  /\ dangling = FALSE

\* the handlers that occupy a thread
Running == (IF accept = "armed" THEN {} ELSE {"accept"})
             \cup (IF cleanup = "scan" THEN {"cleanup"} ELSE {})
FreeThread == Cardinality(Running) < Threads

------------------------------------------------------------------------------
(* The outside *)

Connect(c) ==
  /\ session[c] = "absent"
  /\ session' = [session EXCEPT ![c] = "backlog"]
  /\ UNCHANGED <<accept, socket, table, cleanup, scan, dangling>>

\* a session handler sees its link broken and closes
Close(c) ==
  /\ session[c] = "open" /\ FreeThread
  /\ session' = [session EXCEPT ![c] = "closed"]
  /\ UNCHANGED <<accept, socket, table, cleanup, scan, dangling>>

------------------------------------------------------------------------------
(* The accept chain *)

\* the handler is called with an error
AcceptError ==
  /\ accept = "armed" /\ FreeThread
  /\ accept' = "rearm"
  /\ UNCHANGED <<session, socket, table, cleanup, scan, dangling>>

\* the handler is called with a socket: setup_new_connection makes the session
AcceptSocket(c) ==
  /\ accept = "armed" /\ FreeThread
  /\ session[c] = "backlog"
  /\ session' = [session EXCEPT ![c] = "open"]
  /\ socket' = c
  /\ accept' = "setup"
  /\ UNCHANGED <<table, cleanup, scan, dangling>>

\* a full vector moves to a buffer half as large again, or twice as large
Grown == {capacity + (IF capacity < 2 THEN 1 ELSE capacity \div 2), 2 * capacity}

\* the session is not stored
BugEmplaceForgotten ==
  /\ accept = "setup" /\ accept' = "rearm" /\ socket' = None
  /\ UNCHANGED <<session, table, cleanup, scan, dangling>>

EmplaceBack ==
  /\ accept = "setup"
  /\ connections' = Append(connections, socket)
  /\ IF Len(connections) = capacity
     THEN capacity' \in Grown /\ dangling' = (dangling \/ cleanup = "scan")
     ELSE UNCHANGED <<capacity, dangling>>
  /\ accept' = "rearm" /\ socket' = None
  /\ UNCHANGED <<session, cleanup, scan>>

\* no further client is accepted once the table is full
BugStopsWhenFull ==
  /\ accept = "rearm" /\ Len(connections) < capacity /\ accept' = "armed"
  /\ UNCHANGED <<session, socket, table, cleanup, scan, dangling>>

do_accept ==
  /\ accept = "rearm"
  /\ accept' = "armed"
  /\ UNCHANGED <<session, socket, table, cleanup, scan, dangling>>

------------------------------------------------------------------------------
(* cleanup_task *)

CleanupBegin ==
  /\ cleanup = "due" /\ FreeThread
  /\ cleanup' = "scan" /\ last' = Len(connections) /\ scanned' = 0 /\ kept' = <<>>
  /\ UNCHANGED <<session, accept, socket, table, dangling>>

is_closed(c) == session[c] = "closed"

\* One element, by the iterators erase_if was called with. Once they dangle
\* anything can happen: the model goes no further.
CleanupVisit ==
  /\ cleanup = "scan" /\ scanned < last /\ ~dangling
  /\ LET c == connections[scanned + 1]
     IN  kept' = IF is_closed(c) THEN kept ELSE Append(kept, c)
  /\ scanned' = scanned + 1
  /\ UNCHANGED <<session, accept, socket, table, cleanup, last, dangling>>

\* what an append has added behind the range
Appended == SubSeq(connections, last + 1, Len(connections))

\* the element before the end of the range is erased too
BugEraseOneTooMany ==
  /\ cleanup = "scan" /\ scanned = last /\ ~dangling
  /\ connections' = IF kept = <<>> THEN kept ELSE SubSeq(kept, 1, Len(kept) - 1)
  /\ session' = [c \in Clients |->
       IF c \in ToSet(connections) \ ToSet(connections') THEN "erased" ELSE session[c]]
  /\ cleanup' = "sleep"
  /\ UNCHANGED <<accept, socket, capacity, scan, dangling>>

\* what is erased is destroyed; then the coroutine waits for its timer
CleanupErase ==
  /\ cleanup = "scan" /\ scanned = last /\ ~dangling
  /\ \/ connections' = kept \o Appended
     \/ Len(kept) < last /\ connections' = kept
  /\ session' = [c \in Clients |->
       IF c \in ToSet(connections) \ ToSet(connections') THEN "erased" ELSE session[c]]
  /\ cleanup' = "sleep"
  /\ UNCHANGED <<accept, socket, capacity, scan, dangling>>

\* the coroutine has no loop
BugNoLoop == FALSE /\ UNCHANGED vars

Timer ==
  /\ cleanup = "sleep"
  /\ cleanup' = "due"
  /\ UNCHANGED <<session, accept, socket, table, scan, dangling>>

------------------------------------------------------------------------------
Next ==
  \/ \E c \in Clients : Connect(c) \/ Close(c) \/ AcceptSocket(c)
  \/ AcceptError \/ EmplaceBack \/ do_accept
  \/ CleanupBegin \/ CleanupVisit \/ CleanupErase \/ Timer

\* A handler that has a thread goes on, and a handler that is ready again and
\* again gets a thread: io_context queues them in order. Errors of async_accept
\* pass, so a waiting client is accepted if the chain is armed again and again.
Fairness ==
  /\ \A c \in Clients : SF_vars(AcceptSocket(c))
  /\ WF_vars(EmplaceBack) /\ WF_vars(do_accept)
  /\ SF_vars(CleanupBegin) /\ WF_vars(CleanupVisit) /\ WF_vars(CleanupErase)
  /\ WF_vars(Timer)

Spec == Init /\ [][Next]_vars /\ Fairness

------------------------------------------------------------------------------
(* Properties *)

\* erase_if works on the buffer the vector still uses: no append moved it
\* between two visits, however often the table outgrows reserve(100).
IteratorsValid == ~dangling

\* As long as the server never holds more sessions than reserve(100) made room
\* for, no append moves the vector under erase_if, on any number of threads.
SafeWithinReserve == dangling => Len(connections) > Reserve

\* A session that was in the table when erase_if fixed its range is not taken while
\* it is open; one that another thread has appended behind the range can be.
StoredSessionsKept ==
  [][\A c \in Clients : session[c] = "open" /\ session'[c] = "erased" =>
       cleanup = "scan" /\ c \in ToSet(Appended)]_vars

\* Every session the server has set up is in the table or about to be put there,
\* once, so that the cleanup will find it; an erased one is not in it any more.
TableTracksSessions ==
  /\ IsInjective(connections)
  /\ ToSet(connections) \cup ({socket} \ {None}) =
       {c \in Clients : session[c] \in {"open", "closed"}}

\* A client in the backlog is accepted, whatever errors the chain meets before.
PendingAccepted ==
  \A c \in Clients : session[c] = "backlog" ~> session[c] # "backlog"

\* A closed session is erased by some later run of the cleanup, unless the vector
\* has moved under one.
ClosedErased ==
  \A c \in Clients : session[c] = "closed" ~> session[c] = "erased" \/ dangling

(* Refinement: the table, read with the session that is being set up, is the set  *)
(* of sessions; settled are those no range under way has left behind.             *)
Held == ToSet(connections) \cup ({socket} \ {None})
InBacklog == {c \in Clients : session[c] = "backlog"}
Settled == IF cleanup = "scan" THEN ToSet(SubSeq(connections, 1, last))
                               ELSE ToSet(connections)

Sessions == INSTANCE SessionSet WITH
  Room     <- {S \in SUBSET Clients : Cardinality(S) <= Reserve},
  waiting  <- InBacklog,
  served   <- {c \in Held : ~is_closed(c)},
  lost     <- {c \in Held : is_closed(c)},
  starting <- {socket} \ {None},
  settled  <- Settled,
  broken   <- dangling

\* Every step of accept chain and cleanup is one of the set of sessions or leaves
\* it alone: a session that is set up comes into the table, none loses its place there
\* while it is open and settled, and those that wait or are lost are dealt with in the
\* end.
ImplementsSessionSet == Sessions!Spec
=============================================================================
