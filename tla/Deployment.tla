------------------------------ MODULE Deployment ------------------------------
(* keygen, central_server and client_test on one machine: keygen's runs rewrite *)
(* the merged files, and the two programs are started, stopped and started      *)
(* again, each reading its half with read_key before it does anything else.     *)
(* Nothing orders the three; the files are all they share.                      *)
EXTENDS Keygen

CONSTANTS PrivatePem, PublicPem     \* the files private-key.pem and public-key.pem

ASSUME PemAssumption == PrivatePem \in Names /\ PublicPem \in Names /\ PrivatePem # PublicPem

Programs == {"server", "client"}
KeyPath(p) == IF p = "server" THEN PrivatePem ELSE PublicPem
Needed(p) == IF p = "server" THEN "private" ELSE "public"

Padding == {}        \* what resize fills a buffer with: no key

VARIABLES
  at,        \* each program: "off" (or ended), "open", "sized", "read" or "up"
  key,       \* what it has read: the halves that its buffer lists, or padding
  kept       \* history: no run has emptied its file since it opened it

programs == <<at, key, kept>>
allVars == <<vars, programs>>

DeploymentInit ==
  /\ Init
  /\ at = [p \in Programs |-> "off"]
  /\ key = [p \in Programs |-> <<>>]
  /\ kept = [p \in Programs |-> FALSE]

------------------------------------------------------------------------------
(* A program's start: main up to the Signer or the Verifier *)

GoTo(p, step) == at' = [at EXCEPT ![p] = step]

\* a program ends, or is stopped
Stop(p) ==
  /\ GoTo(p, "off")
  /\ key' = [key EXCEPT ![p] = <<>>] /\ kept' = [kept EXCEPT ![p] = FALSE]
  /\ UNCHANGED vars

\* read_key opens the file; without one it throws, and main catches nothing
OpenKey(p) ==
  /\ at[p] = "off" /\ files[KeyPath(p)] # Absent /\ GoTo(p, "open")
  /\ kept' = [kept EXCEPT ![p] = TRUE]
  /\ UNCHANGED <<vars, key>>

SizeKey(p) ==
  /\ at[p] = "open" /\ GoTo(p, "sized")
  /\ key' = [key EXCEPT ![p] = [i \in DOMAIN Entries(KeyPath(p)) |-> Padding]]
  /\ UNCHANGED <<vars, kept>>

ReadKey(p) ==
  /\ at[p] = "sized" /\ GoTo(p, "read")
  /\ LET held == Entries(KeyPath(p))
     IN  key' = [key EXCEPT ![p] = [i \in DOMAIN @ |-> IF i \in DOMAIN held THEN held[i] ELSE @[i]]]
  /\ UNCHANGED <<vars, kept>>

\* The Signer or the Verifier takes the first key of the buffer, and throws unless it
\* is a half that it can use; then the server may find its port in use and abort, and
\* the client be refused.
UseKey(p) ==
  /\ at[p] = "read" /\ GoTo(p, "up")
  /\ key[p] # <<>> /\ \E half \in Head(key[p]) : half[1] = Needed(p)
  /\ UNCHANGED <<vars, key, kept>>

\* a step of keygen
KeygenStep ==
  /\ Next
  /\ kept' = [p \in Programs |->
                 kept[p] /\ (Entries(KeyPath(p)) # <<>> => Entries(KeyPath(p))' # <<>>)]
  /\ UNCHANGED <<at, key>>

DeploymentNext ==
  \/ KeygenStep
  \/ \E p \in Programs :
       \/ OpenKey(p) \/ SizeKey(p) \/ ReadKey(p) \/ UseKey(p)
       \/ at[p] # "off" /\ Stop(p)

DeploymentSpec == DeploymentInit /\ [][DeploymentNext]_allVars

------------------------------------------------------------------------------
(* Properties *)

\* A server and a client that are both up hold the two halves of one pair, whatever
\* was killed, and whatever was written while and since they read: if their files
\* were last opened for each other, and not emptied since they opened them. So the
\* client trusts the signature of this server.
HalvesFit ==
  /\ \A p \in Programs : at[p] = "up" /\ kept[p]
  /\ partner[PrivatePem] = PublicPem /\ partner[PublicPem] = PrivatePem
  => \E pair \in 1..MaxPairs :
       Half("private", pair) \in Head(key["server"]) /\ Half("public", pair) \in Head(key["client"])
=============================================================================
