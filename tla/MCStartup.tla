------------------------------ MODULE MCStartup ------------------------------
(* Instance of Startup for TLC; the configuration gives the bound.         *)
EXTENDS Startup
=============================================================================
