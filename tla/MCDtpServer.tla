---------------------------- MODULE MCDtpServer ----------------------------
(* Instances of DtpServer for TLC. *)
EXTENDS DtpServer, TLC

CONSTANTS c1, c2, \* client connections
          t1, t2  \* application threads

\* Client connections and threads are interchangeable in the safety runs.
Symmetry == Permutations({c1, c2}) \cup Permutations({t1, t2})
=============================================================================
