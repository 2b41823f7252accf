------------------------------ MODULE MCCondVar ------------------------------
(* Instance of CondVar for TLC: four threads, and a modulus of 5.        *)
EXTENDS CondVar
=============================================================================
