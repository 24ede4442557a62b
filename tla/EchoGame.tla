------------------------------ MODULE EchoGame ------------------------------
(* What a connection between client_test and central_server promises once    *)
(* its handshake is over: one number is bounced between the two ends, every   *)
(* bounce adds one to it, and the game can only end, never split in two or    *)
(* skip a turn.                                                               *)
EXTENDS Integers

CONSTANT IntMax      \* the largest value of a C++ int

VARIABLES turn,      \* the end that has to answer, "none" before the first move
          number     \* the number in play, 0 while none is

vars == <<turn, number>>

\* std::stoi(message) + 1 in an int that wraps around
Next32(n) == IF n = IntMax THEN -IntMax - 1 ELSE n + 1

Init == turn = "none" /\ number = 0

Start  == turn = "none" /\ turn' = "server" /\ number' = 0

Bounce == /\ turn \in {"server", "client"}
          /\ turn' = IF turn = "server" THEN "client" ELSE "server"
          /\ number' = Next32(number)

Stop   == turn' = "over" /\ number' = 0

Next == Start \/ Bounce \/ Stop

Spec == Init /\ [][Next]_vars
=============================================================================
