----------------------------- MODULE ClientLife -----------------------------
(***************************************************************************)
(* What the client side of the DTP API promises about the connections of   *)
(* dtp_connect, with no registry, mutex, poll or packet in sight: the      *)
(* thread behind a connection ends when it is closed, and dtp_close        *)
(* answers 1 only over a closed connection, joining its thread if it had   *)
(* to close it.  DtpClient implements it with the event loop itself,       *)
(* DtpApi with a thread in its place, for all connections at once.         *)
(***************************************************************************)
CONSTANT Conn  \* the connections dtp_connect makes

VARIABLES phase,  \* [Conn -> Phase]
          thread, \* [Conn -> Thread]
          call    \* [Conn -> Call]: dtp_close

lvars == <<phase, thread, call>>

\* "down" is closing or draining after having been open; "failed" is closed
\* without having been.
Phase == {"handshake", "open", "down", "closed", "failed"}
Thread == {"running", "exited", "crashed"}
Call == {"none", "closing", "done", "panicked"}

Over(k) == phase[k] \in {"closed", "failed"}

LInit ==
    /\ phase = [k \in Conn |-> "handshake"]
    /\ thread = [k \in Conn |-> "running"]
    /\ call = [k \in Conn |-> "none"]

\* The connection only moves on.
After == [handshake |-> {"open", "failed"}, open |-> {"down", "closed"},
          down |-> {"closed"}, closed |-> {}, failed |-> {}]

Move(k) ==
    /\ thread[k] = "running"
    /\ \E to \in After[phase[k]] : phase' = [phase EXCEPT ![k] = to]
    /\ UNCHANGED <<thread, call>>

Exit(k) ==
    /\ thread[k] = "running" /\ Over(k)
    /\ thread' = [thread EXCEPT ![k] = "exited"]
    /\ UNCHANGED <<phase, call>>

Crash(k) ==
    /\ thread[k] = "running"
    /\ thread' = [thread EXCEPT ![k] = "crashed"]
    /\ UNCHANGED <<phase, call>>

\* dtp_close of a closed connection answers 1.
Free(k) ==
    /\ call[k] = "none" /\ Over(k)
    /\ call' = [call EXCEPT ![k] = "done"]
    /\ UNCHANGED <<phase, thread>>

\* dtp_close of an open one closes it ...
Close(k) ==
    /\ call[k] = "none" /\ phase[k] = "open"
    /\ phase' = [phase EXCEPT ![k] = "down"]
    /\ call' = [call EXCEPT ![k] = "closing"]
    /\ UNCHANGED thread

\* ... and answers 1 when its thread has ended.
Join(k) ==
    /\ call[k] = "closing" /\ thread[k] = "exited"
    /\ call' = [call EXCEPT ![k] = "done"]
    /\ UNCHANGED <<phase, thread>>

\* It panics over a connection going down or closed under it, or a dead thread.
Panic(k) ==
    /\ \/ call[k] = "closing"
       \/ call[k] = "none" /\ (thread[k] = "crashed" \/ phase[k] \in {"down", "closed"})
    /\ call' = [call EXCEPT ![k] = "panicked"]
    /\ UNCHANGED <<phase, thread>>

LNext ==
    \E k \in Conn :
        \/ Move(k) \/ Exit(k) \/ Crash(k)
        \/ Free(k) \/ Close(k) \/ Join(k) \/ Panic(k)

LSpec == LInit /\ [][LNext]_lvars
=============================================================================
