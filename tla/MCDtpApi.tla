------------------------------ MODULE MCDtpApi ------------------------------
(* Instances of DtpApi for TLC. *)
EXTENDS DtpApi
=============================================================================
