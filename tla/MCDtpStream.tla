---------------------------- MODULE MCDtpStream ----------------------------
(* Two streams, a message longer than the window on one of them. *)
EXTENDS DtpStream, TLC

CONSTANTS s1, s2, Long, Short

MCMsgLen == (s1 :> Long) @@ (s2 :> Short)
=============================================================================
