---------------------------- MODULE KeyExchangeMC ----------------------------
(* KeyExchange on a small instance. *)
EXTENDS KeyExchange

MCDraws == {0, 17}   \* below and above the clamp of n_rounds
=============================================================================
