----------------------------- MODULE SharedConn -----------------------------
(***************************************************************************)
(* The server's end of one connection as two writers that the C API does   *)
(* not use see it: handle_stream with handle_writable (module Responses)   *)
(* and recv_msg_loop (module MsgLoop).  Besides them, the server's loop:   *)
(* on a packet it offers every writable stream to handle_writable, then    *)
(* its write pass sends what quiche has accepted; a wake only leads to the *)
(* write pass.                                                             *)
(*                                                                         *)
(* External: quiche::Connection, which accepts stream data as far as the   *)
(* congestion window, Window bytes not yet acknowledged, has room for it.  *)
(***************************************************************************)
EXTENDS Naturals, FiniteSets

CONSTANTS Stream,  \* streams the writers write on
          Window,  \* congestion window: bytes accepted and not acknowledged
          Failures \* may a stream be stopped, the connection close, a thread panic?

ASSUME ConnAssumption == Window \in Nat \ {0} /\ Failures \in BOOLEAN

VARIABLES phase,    \* of the connection
          pend,     \* bytes accepted by stream_send and not in a packet yet
          flight,   \* bytes in packets not acknowledged
          stopped,  \* streams the peer has stopped: stream_send fails
          poisoned, \* a thread panicked with the connection's mutex held
          stuck,    \* a thread waits for that mutex holding it
          lpc,      \* where the server's loop is
          todo,     \* streams it has still to offer to handle_writable
          woken     \* the waker's event is pending

mutexVars == <<poisoned, stuck>>
connVars  == <<phase, pend, flight, stopped, mutexVars, lpc, todo, woken>>

\* A connection that is closed during its handshake is "aborting", then "aborted": it
\* never is established.
Phase == {"handshake", "open", "closing", "closed", "aborting", "aborted"}
IsEstablished == phase \in {"open", "closing", "closed"}
GoingDown == IF IsEstablished THEN "closing" ELSE "aborting"
CanLock == ~stuck /\ ~poisoned

Least(a, b) == IF a < b THEN a ELSE b

\* What stream_send accepts of n more bytes; it may answer Done instead of 0.
Room == Window - (pend + flight)
Accepted(n) == Least(n, Room)

-----------------------------------------------------------------------------
(* The server's loop *)

\* A packet: it may acknowledge data and complete the handshake, stop a stream, or
\* close the connection; one that is going down ignores it, and one that is closed
\* was collected.  Then the writable streams, if any, are offered in turn.
LoopPacket ==
    /\ lpc = "poll"
    /\ CanLock
    /\ \/ /\ phase \in {"handshake", "open"}
          /\ phase' = "open"
          /\ flight' \in 0 .. flight
          /\ UNCHANGED stopped
       \/ /\ Failures /\ phase = "open"
          /\ \E s \in Stream : stopped' = stopped \cup {s}
          /\ UNCHANGED <<phase, flight>>
       \/ /\ Failures /\ phase \in {"handshake", "open"}
          /\ phase' = GoingDown
          /\ UNCHANGED <<flight, stopped>>
       \/ phase = GoingDown /\ UNCHANGED <<phase, flight, stopped>>
    /\ lpc' = "writable"
    /\ todo' = IF pend + flight' < Window THEN Stream ELSE {}
    /\ UNCHANGED <<pend, mutexVars, woken>>

LoopWake ==
    /\ lpc = "poll"
    /\ woken
    /\ woken' = FALSE
    /\ lpc' = "write"
    /\ UNCHANGED <<phase, pend, flight, stopped, mutexVars, todo>>

LoopOffered ==
    /\ lpc = "writable"
    /\ todo = {}
    /\ lpc' = "write"
    /\ UNCHANGED <<phase, pend, flight, stopped, mutexVars, todo, woken>>

\* The write pass; a failing socket makes it panic.
LoopWrite ==
    /\ lpc = "write"
    /\ CanLock
    /\ \/ /\ IF phase = "open"
             THEN flight' = flight + pend /\ pend' = 0
             ELSE UNCHANGED <<flight, pend>>
          /\ lpc' = "poll"
          /\ UNCHANGED poisoned
       \/ /\ Failures
          /\ poisoned' = TRUE
          /\ lpc' = "dead"
          /\ UNCHANGED <<flight, pend>>
    /\ UNCHANGED <<phase, stopped, stuck, todo, woken>>

\* The draining or the idle timer.
LoopTimer ==
    /\ lpc = "poll"
    /\ CanLock
    /\ phase = GoingDown \/ (Failures /\ phase \in {"handshake", "open"})
    /\ phase' = IF IsEstablished THEN "closed" ELSE "aborted"
    /\ lpc' = "write"
    /\ UNCHANGED <<pend, flight, stopped, mutexVars, todo, woken>>

\* It locks the mutex of a thread that panicked.
LoopDies ==
    /\ lpc \in {"poll", "writable", "write"}
    /\ poisoned
    /\ lpc' = "dead"
    /\ UNCHANGED <<phase, pend, flight, stopped, mutexVars, todo, woken>>

LoopStep == LoopPacket \/ LoopWake \/ LoopOffered \/ LoopWrite \/ LoopTimer \/ LoopDies

ConnInit ==
    /\ phase = "handshake"
    /\ pend = 0 /\ flight = 0
    /\ stopped = {}
    /\ poisoned = FALSE /\ stuck = FALSE
    /\ lpc = "poll" /\ todo = {} /\ woken = FALSE

ConnTypeOK ==
    /\ phase \in Phase
    /\ pend \in Nat /\ flight \in Nat /\ pend + flight <= Window
    /\ stopped \in SUBSET Stream
    /\ poisoned \in BOOLEAN /\ stuck \in BOOLEAN
    /\ lpc \in {"poll", "writable", "write", "dead"}
    /\ todo \in SUBSET Stream /\ woken \in BOOLEAN
=============================================================================
