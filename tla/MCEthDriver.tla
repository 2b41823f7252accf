----------------------------- MODULE MCEthDriver -----------------------------
(* Instance of EthDriver for TLC: rings of 3 and 2, and a pool of 3.       *)
EXTENDS EthDriver
=============================================================================
