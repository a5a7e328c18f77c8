---------------------------- MODULE MCDtpClient ----------------------------
(* Instances of DtpClient for TLC. *)
EXTENDS DtpClient
=============================================================================
