------------------------------ MODULE MCDriver ------------------------------
(* Clients that outnumber the workers. *)
EXTENDS Driver
=============================================================================
