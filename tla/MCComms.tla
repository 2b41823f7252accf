------------------------------- MODULE MCComms -------------------------------
(* Instance of Comms for TLC; the configurations give the bounds.          *)
EXTENDS Comms
=============================================================================
