------------------------------ MODULE SessionSet ----------------------------
(* What the server promises its clients about their sessions, whatever vector,  *)
(* range or coroutine it keeps them with, on any number of threads: a waiting   *)
(* client is given a session, a session that is lost is given up, and an open   *)
(* one only if it is newer than the cleanup that takes it. The last is no       *)
(* promise to be proud of: an implementation under a lock would never do it.    *)
CONSTANTS Clients,
          Room        \* the sets of clients there is room for from the start

VARIABLES waiting,   \* clients that have asked for a session
          served,    \* clients whose session is open
          lost,      \* clients whose session is closed and not given up yet
          starting,  \* clients whose session is being set up
          settled,   \* clients whose session no cleanup can take while it is open
          broken     \* the cleanup is lost, and with it the promise

vars == <<waiting, served, lost, starting, settled, broken>>

Init ==
  /\ waiting = {} /\ served = {} /\ lost = {} /\ starting = {} /\ settled = {}
  /\ broken = FALSE

Ask(c) ==
  /\ c \notin waiting \cup served \cup lost
  /\ waiting' = waiting \cup {c} /\ UNCHANGED <<served, lost, starting, settled, broken>>

Serve(c) ==
  /\ c \in waiting
  /\ waiting' = waiting \ {c} /\ served' = served \cup {c}
  /\ starting' = starting \cup {c}
  /\ UNCHANGED <<lost, settled, broken>>

\* the session is set up, and may settle; too many of them may break the cleanup
Finish(c) ==
  /\ c \in starting
  /\ starting' = starting \ {c}
  /\ settled' \in {settled, settled \cup {c}}
  /\ \/ broken' = broken
     \/ served \cup lost \notin Room /\ broken' = TRUE
  /\ UNCHANGED <<waiting, served, lost>>

Lose(c) ==
  /\ c \in served
  /\ served' = served \ {c} /\ lost' = lost \cup {c}
  /\ UNCHANGED <<waiting, starting, settled, broken>>

\* of the sessions that are set up, lost and unsettled ones are given up, and some of
\* the others are settled
Sweep(S, T) ==
  /\ ~broken
  /\ S \subseteq lost \cup (served \ settled) /\ S \cap starting = {}
  /\ T \subseteq (served \cup lost) \ (S \cup starting)
  /\ served' = served \ S /\ lost' = lost \ S
  /\ settled' = (settled \ S) \cup T
  /\ UNCHANGED <<waiting, starting, broken>>

SweepLost == \E S, T \in SUBSET Clients : S \cap lost # {} /\ Sweep(S, T)

Next ==
  \/ \E c \in Clients : Ask(c) \/ Serve(c) \/ Finish(c) \/ Lose(c)
  \/ \E S, T \in SUBSET Clients : Sweep(S, T)

Fairness ==
  /\ \A c \in Clients : WF_vars(Serve(c)) /\ WF_vars(Finish(c))
  /\ WF_vars(SweepLost)

Spec == Init /\ [][Next]_vars /\ Fairness
=============================================================================
