------------------------------- MODULE MCBoot -------------------------------
(* Model values for Boot are given in the configurations. *)
EXTENDS Boot
=============================================================================
