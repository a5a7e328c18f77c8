--------------------------- MODULE ConnOwnership ---------------------------
(***************************************************************************)
(* What the server side of the DTP API promises about a connection, with   *)
(* no event loop, packet, lock or status table in sight: it is offered to  *)
(* the application, taken by exactly one thread, given back by that        *)
(* thread, and only then collected.  Module DtpServer implements it.       *)
(*                                                                         *)
(* This is the reading of the comments in dtp_close (src/src/ffi.rs        *)
(* 593-597): the server loop must never release what a DtpConnection       *)
(* handed to the application still refers to.                              *)
(***************************************************************************)
CONSTANTS Cid,   \* connection ids
          App    \* application threads

VARIABLES stage, \* [Cid -> Stage]: how far each connection id has got
          owners \* [Cid -> SUBSET App]: threads holding its DtpConnection

avars == <<stage, owners>>

Stage == {"absent", "offered", "owned", "released"}

AInit ==
    /\ stage = [c \in Cid |-> "absent"]
    /\ owners = [c \in Cid |-> {}]

\* The server loop learns of a new connection.
Offer(c) ==
    /\ stage[c] = "absent"
    /\ stage' = [stage EXCEPT ![c] = "offered"]
    /\ UNCHANGED owners

\* Thread t, which owns nothing, takes the connection.
Take(c, t) ==
    /\ stage[c] = "offered"
    /\ \A d \in Cid : t \notin owners[d]
    /\ stage' = [stage EXCEPT ![c] = "owned"]
    /\ owners' = [owners EXCEPT ![c] = {t}]

\* The owner gives it back.
Release(c, t) ==
    /\ stage[c] = "owned"
    /\ owners[c] = {t}
    /\ stage' = [stage EXCEPT ![c] = "released"]
    /\ owners' = [owners EXCEPT ![c] = {}]

\* The server loop forgets some of the connections that were given back.
Collect(S) ==
    /\ \A c \in S : stage[c] = "released"
    /\ stage' = [c \in Cid |-> IF c \in S THEN "absent" ELSE stage[c]]
    /\ UNCHANGED owners

ANext ==
    \/ \E c \in Cid : Offer(c)
    \/ \E c \in Cid, t \in App : Take(c, t) \/ Release(c, t)
    \/ \E S \in SUBSET Cid : Collect(S)

ASpec == AInit /\ [][ANext]_avars
=============================================================================
