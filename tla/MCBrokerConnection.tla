------------------------- MODULE MCBrokerConnection -------------------------
(* BrokerConnection with the constants of the code, for TLC. *)
EXTENDS BrokerConnection

MCMaxAttempts == 5
MCFloatMaxExponent == 1023
=============================================================================
