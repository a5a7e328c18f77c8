----------------------------- MODULE DtpClient -----------------------------
(***************************************************************************)
(* One client connection: the thread running client_loop and the           *)
(* application threads that use its DtpConnection, one of which is in      *)
(* dtp_close.  They share the quiche connection (one mutex, which the loop *)
(* takes anew for every packet it reads or writes) and the waker.          *)
(*                                                                         *)
(* The story starts when dtp_connect has sent the first packet and spawned *)
(* the thread.  External: quiche::Connection, the socket, the poll.        *)
(***************************************************************************)
EXTENDS Naturals

CONSTANTS MaxPkts,    \* bound: datagrams delivered in a behaviour
          SockCap,    \* bound: datagrams waiting in the socket
          IoResults,  \* what the socket and the poll may return
          QuicheErrs  \* may quiche return errors other than Done?

ASSUME ClientAssumption ==
    /\ MaxPkts \in Nat /\ SockCap \in Nat
    /\ IoResults \subseteq {"ok", "block", "fail"}
    /\ QuicheErrs \in BOOLEAN

VARIABLES
    pc,          \* where client_loop is
    armed,       \* the poll was given a timeout
    events,      \* the last poll returned events
    gaveUp,      \* the last write loop ended before quiche had no more to send
    phase,       \* of the connection
    established, \* is_established, which outlives the phase "open"
    recvd,       \* a packet of the peer has been processed
    dirty,       \* something to send: not yet seen by the write loop, or left by it
    woken,       \* the waker's event is pending
    poisoned,    \* a panic holding the connection's mutex
    close,       \* how far dtp_close has got
    sock,        \* number of datagrams waiting in the socket
    sockReady,   \* its edge-triggered event is pending
    arrived      \* number of datagrams delivered so far

loopVars == <<pc, armed, events, gaveUp>>
connVars == <<phase, established, recvd, dirty, poisoned>>
netVars  == <<sock, sockReady, arrived>>
vars     == <<loopVars, connVars, woken, close, netVars>>

LoopPc == {"top", "poll", "read", "check_read", "write", "check_write", "exit", "panicked"}
Phase == {"handshake", "open", "closing", "draining", "closed"}
ClosePc == {"idle",     \* not called, or it returned -1
            "tested",   \* past the test of is_closed
            "sent",     \* close sent, the loop not woken yet
            "woken",    \* the loop woken, the thread's handle not taken yet
            "joining",  \* waits for the thread
            "freed",    \* returned 1, the connection being closed already
            "joined",   \* returned 1 after joining the thread
            "panicked"}

Closed == phase = "closed"

\* Connection::close, when not called on a connection that is going down: sent
\* to the peer, unless nothing was ever received from it.
ClosedLocally ==
    CASE phase \in {"handshake", "open"} -> IF recvd THEN "closing" ELSE "closed"
      [] OTHER -> phase

-----------------------------------------------------------------------------
(* client_loop *)

\* Mutant: a connection that is closing has no timer.
Top_NotClosing ==
    /\ pc = "top"
    /\ ~poisoned
    /\ armed' = (phase \in {"handshake", "open"})
    /\ pc' = "poll"
    /\ UNCHANGED <<events, gaveUp, connVars, woken, close, netVars>>

\* The timeout of the connection; quiche gives none once it is closed.
Top ==
    /\ pc = "top"
    /\ ~poisoned
    /\ armed' = ~Closed
    /\ pc' = "poll"
    /\ UNCHANGED <<events, gaveUp, connVars, woken, close, netVars>>

PollEvents ==
    /\ pc = "poll"
    /\ sockReady \/ woken
    /\ events' = TRUE
    /\ sockReady' = FALSE
    /\ woken' = FALSE
    /\ pc' = "read"
    /\ UNCHANGED <<armed, gaveUp, connVars, close, sock, arrived>>

PollTimeout ==
    /\ pc = "poll"
    /\ armed
    /\ ~sockReady /\ ~woken
    /\ events' = FALSE
    /\ pc' = "read"
    /\ UNCHANGED <<armed, gaveUp, connVars, woken, close, netVars>>

\* on_timeout: the idle or draining timer has expired, or only a timer of loss
\* detection, which gives the connection something to send.
OnTimeout(expired) ==
    /\ pc = "read"
    /\ ~poisoned
    /\ ~events
    /\ IF expired THEN phase' = "closed" /\ UNCHANGED dirty
                  ELSE UNCHANGED phase /\ dirty' = ~Closed
    /\ pc' = "check_read"
    /\ UNCHANGED <<armed, events, gaveUp, established, recvd, poisoned, woken, close, netVars>>

ReadDrained ==
    /\ pc = "read"
    /\ ~poisoned
    /\ events
    /\ sock = 0
    /\ pc' = "check_read"
    /\ UNCHANGED <<armed, events, gaveUp, connVars, woken, close, netVars>>

\* Mutant: a refused packet ends the read loop.
ReadPacket_Break ==
    /\ pc = "read"
    /\ ~poisoned
    /\ events
    /\ sock > 0
    /\ sock' = sock - 1
    /\ \/ UNCHANGED <<connVars, pc>>
       \/ /\ phase \in {"handshake", "open"}
          /\ \/ /\ phase' = "open" /\ established' = TRUE /\ dirty' = TRUE
             \/ /\ phase' = "draining" /\ UNCHANGED <<established, dirty>>
             \/ /\ phase = "handshake"
                /\ dirty' = TRUE
                /\ UNCHANGED <<phase, established>>
          /\ recvd' = TRUE
          /\ UNCHANGED <<poisoned, pc>>
       \/ /\ QuicheErrs
          /\ phase' = ClosedLocally
          /\ dirty' = (dirty \/ phase' # phase)
          /\ pc' = "check_read"
          /\ UNCHANGED <<established, recvd, poisoned>>
    /\ UNCHANGED <<armed, events, gaveUp, woken, close, sockReady, arrived>>

\* A datagram is read and fed to the connection: it is ignored; or processed,
\* completing the handshake or carrying the peer's close; or it is refused and
\* quiche closes the connection.
ReadPacket ==
    /\ pc = "read"
    /\ ~poisoned
    /\ events
    /\ sock > 0
    /\ sock' = sock - 1
    /\ \/ UNCHANGED connVars
       \/ /\ phase \in {"handshake", "open"}
          /\ \/ /\ phase' = "open" /\ established' = TRUE /\ dirty' = TRUE
             \/ /\ phase' = "draining" /\ UNCHANGED <<established, dirty>>
             \/ /\ phase = "handshake"
                /\ dirty' = TRUE
                /\ UNCHANGED <<phase, established>>
          /\ recvd' = TRUE
          /\ UNCHANGED poisoned
       \/ /\ QuicheErrs
          /\ phase' = ClosedLocally
          /\ dirty' = (dirty \/ phase' # phase)
          /\ UNCHANGED <<established, recvd, poisoned>>
    /\ UNCHANGED <<loopVars, woken, close, sockReady, arrived>>

\* Mutant: the loop is left as soon as the connection goes down.
CheckRead_Draining ==
    /\ pc = "check_read"
    /\ ~poisoned
    /\ pc' = IF phase \in {"handshake", "open"} THEN "write" ELSE "exit"
    /\ UNCHANGED <<armed, events, gaveUp, connVars, woken, close, netVars>>

CheckRead ==
    /\ pc = "check_read"
    /\ ~poisoned
    /\ pc' = IF Closed THEN "exit" ELSE "write"
    /\ UNCHANGED <<armed, events, gaveUp, connVars, woken, close, netVars>>

\* The write loop: it ends when quiche has no more packets to be sent; or is given up,
\* when the socket would block, with what is left still to be sent, or upon an error of
\* quiche, with the close this causes still to be sent.
Write ==
    /\ pc = "write"
    /\ ~poisoned
    /\ \/ dirty' = FALSE /\ gaveUp' = FALSE /\ UNCHANGED phase
       \/ "block" \in IoResults /\ gaveUp' = TRUE /\ UNCHANGED <<phase, dirty>>
       \/ /\ QuicheErrs
          /\ phase' = ClosedLocally
          /\ dirty' = (dirty \/ phase' # phase)
          /\ gaveUp' = TRUE
    /\ pc' = "check_write"
    /\ UNCHANGED <<armed, events, established, recvd, poisoned, woken, close, netVars>>

\* Mutant: the second test is taken for redundant.
CheckWrite_None ==
    /\ pc = "check_write"
    /\ ~poisoned
    /\ pc' = "top"
    /\ UNCHANGED <<armed, events, gaveUp, connVars, woken, close, netVars>>

CheckWrite ==
    /\ pc = "check_write"
    /\ ~poisoned
    /\ pc' = IF Closed THEN "exit" ELSE "top"
    /\ UNCHANGED <<armed, events, gaveUp, connVars, woken, close, netVars>>

\* The loop finds the mutex poisoned; or the socket fails while it reads or
\* writes, and the panic poisons the mutex it holds; or the poll fails, where it
\* holds none (and dtp_connect's closure unwraps the error of the loop).
LoopPanic ==
    /\ \/ poisoned /\ pc \in {"top", "read", "check_read", "write", "check_write"}
       \/ "fail" \in IoResults /\ (pc \in {"poll", "write"} \/ (pc = "read" /\ events))
    /\ pc' = "panicked"
    /\ poisoned' = (poisoned \/ pc # "poll")
    /\ UNCHANGED <<armed, events, gaveUp, phase, established, recvd, dirty, woken, close, netVars>>

LoopStep ==
    \/ Top \/ PollEvents \/ PollTimeout
    \/ \E expired \in BOOLEAN : OnTimeout(expired)
    \/ ReadDrained \/ ReadPacket \/ CheckRead \/ Write \/ CheckWrite \/ LoopPanic

-----------------------------------------------------------------------------
(* The application *)

\* dtp_send, in one critical section of the connection's mutex.  The pointer may
\* not be used any more once dtp_close is called.
DtpSend ==
    /\ close = "idle"
    /\ ~poisoned
    /\ established /\ ~Closed
    /\ dirty' = TRUE
    /\ woken' = TRUE
    /\ UNCHANGED <<loopVars, phase, established, recvd, poisoned, close, netVars>>

\* dtp_close finds the connection closed and frees the DtpConnection.
CloseFree ==
    /\ close = "idle"
    /\ ~poisoned
    /\ Closed
    /\ close' = "freed"
    /\ UNCHANGED <<loopVars, connVars, woken, netVars>>

CloseTest ==
    /\ close = "idle"
    /\ ~poisoned
    /\ ~Closed
    /\ close' = "tested"
    /\ UNCHANGED <<loopVars, connVars, woken, netVars>>

\* Not established: it returns -1.
CloseRefuse ==
    /\ close = "tested"
    /\ ~poisoned
    /\ ~established
    /\ close' = "idle"
    /\ UNCHANGED <<loopVars, connVars, woken, netVars>>

\* Established: close the connection.  Unless it is open, quiche answers Done
\* and `expect' panics with the mutex held.
CloseSend ==
    /\ close = "tested"
    /\ ~poisoned
    /\ established
    /\ IF phase = "open"
       THEN /\ phase' = "closing"
            /\ dirty' = TRUE
            /\ close' = "sent"
            /\ UNCHANGED poisoned
       ELSE /\ poisoned' = TRUE
            /\ close' = "panicked"
            /\ UNCHANGED <<phase, dirty>>
    /\ UNCHANGED <<loopVars, established, recvd, woken, netVars>>

\* Mutant: the wake is left out.
CloseWake_None ==
    /\ close = "sent"
    /\ close' = "woken"
    /\ UNCHANGED <<loopVars, connVars, woken, netVars>>

CloseWake ==
    /\ close = "sent"
    /\ woken' = TRUE
    /\ close' = "woken"
    /\ UNCHANGED <<loopVars, connVars, netVars>>

\* The thread's handle is taken out of the registry (see module DtpApi).
CloseTakeHandle ==
    /\ close = "woken"
    /\ close' = "joining"
    /\ UNCHANGED <<loopVars, connVars, woken, netVars>>

CloseJoin ==
    /\ close = "joining"
    /\ pc \in {"exit", "panicked"}
    /\ close' = IF pc = "exit" THEN "joined" ELSE "panicked"
    /\ UNCHANGED <<loopVars, connVars, woken, netVars>>

CloseTouchPoisoned ==
    /\ close \in {"idle", "tested"}
    /\ poisoned
    /\ close' = "panicked"
    /\ UNCHANGED <<loopVars, connVars, woken, netVars>>

CloseStep ==
    \/ CloseFree \/ CloseTest \/ CloseRefuse \/ CloseSend \/ CloseWake
    \/ CloseTakeHandle \/ CloseJoin \/ CloseTouchPoisoned

-----------------------------------------------------------------------------
(* The network *)

Arrive ==
    /\ arrived < MaxPkts
    /\ sock < SockCap
    /\ sock' = sock + 1
    /\ sockReady' = TRUE
    /\ arrived' = arrived + 1
    /\ UNCHANGED <<loopVars, connVars, woken, close>>

-----------------------------------------------------------------------------
Init ==
    /\ pc = "top" /\ armed = FALSE /\ events = FALSE /\ gaveUp = FALSE
    /\ phase = "handshake" /\ established = FALSE /\ recvd = FALSE
    /\ dirty = FALSE /\ poisoned = FALSE
    /\ woken = FALSE
    /\ close = "idle"
    /\ sock = 0 /\ sockReady = FALSE /\ arrived = 0

Next == LoopStep \/ DtpSend \/ CloseStep \/ Arrive

Spec == Init /\ [][Next]_vars

\* The thread is scheduled and a dtp_close that has begun goes on.  Nothing makes the
\* application call dtp_close, nothing makes the poll or the socket fail, and nothing makes
\* a timer expire: what needs that says so.
LoopRuns == LoopStep /\ (pc' = "panicked" => poisoned)
CloseGoesOn == CloseRefuse \/ CloseSend \/ CloseWake \/ CloseTakeHandle \/ CloseJoin

FairSpec == Spec /\ WF_vars(LoopRuns) /\ WF_vars(CloseGoesOn)

\* A connection whose timers are looked at again and again does expire.
TimersExpire == SF_vars(OnTimeout(TRUE))

-----------------------------------------------------------------------------
(* Properties *)

TypeOK ==
    /\ pc \in LoopPc
    /\ armed \in BOOLEAN /\ events \in BOOLEAN /\ gaveUp \in BOOLEAN
    /\ phase \in Phase
    /\ established \in BOOLEAN /\ recvd \in BOOLEAN
    /\ dirty \in BOOLEAN /\ poisoned \in BOOLEAN
    /\ woken \in BOOLEAN
    /\ close \in ClosePc
    /\ sock \in 0 .. SockCap /\ sockReady \in BOOLEAN
    /\ arrived \in 0 .. MaxPkts

\* The loop never blocks in poll over work that nobody brings to its notice: over a closed
\* connection, which has no timer, so that dtp_close could not join the thread; over
\* something to send, unless the wake for it is pending or dtp_close, which closes and wakes
\* in two critical sections, is just about to make it, or the write loop gave it up, and
\* then the poll has a timeout; or over a datagram whose event the edge-triggered poll has
\* reported already.
NeverSleepsOverWork ==
    pc = "poll" =>
        /\ ~Closed
        /\ dirty => woken \/ close = "sent" \/ (gaveUp /\ armed)
        /\ sock > 0 => sockReady

\* The inductive invariant behind them: where the loop may be when the connection
\* is closed, when there is something to send, when a datagram waits.
ClosedInv ==
    /\ Closed => pc \in {"read", "check_read", "check_write", "exit", "panicked"}
    /\ pc = "poll" => armed

DirtyInv ==
    dirty => \/ woken \/ close = "sent" \/ gaveUp
             \/ pc \in {"read", "check_read", "write", "exit", "panicked"}

UnreadInv ==
    sock > 0 => \/ sockReady
                \/ pc = "read" /\ events
                \/ pc \in {"exit", "panicked"}

\* A dtp_close that has closed the connection has: it only goes down from there.
CloseInv == close \in {"sent", "woken", "joining"} => phase \in {"closing", "closed"}

IInv == TypeOK /\ ClosedInv /\ DirtyInv /\ UnreadInv /\ CloseInv

\* The loop can always go on: it blocks in its poll only, and there it has a timeout or
\* an event; and dtp_close waits for nothing but the thread.  The steps that FairSpec and
\* TimersExpire promise can be taken then, and only then.
NoHiddenWait ==
    /\ pc \notin {"exit", "panicked"} <=> ENABLED <<LoopRuns>>_vars
    /\ \/ close = "tested" /\ ~poisoned
       \/ close \in {"sent", "woken"}
       \/ close = "joining" /\ pc \in {"exit", "panicked"}
       <=> ENABLED <<CloseGoesOn>>_vars
    /\ pc = "read" /\ ~events /\ ~poisoned <=> ENABLED <<OnTimeout(TRUE)>>_vars

\* All that arrives is read in the end, as long as the thread lives.  No timer has to
\* expire under FairSpec, so a datagram left behind is not excused by the end of its
\* connection.
ReadsAllPackets == <>[](pc \in {"exit", "panicked"} \/ (sock = 0 /\ ~sockReady))

\* The loop is not held up, and reads all that arrives (client.rs 62-145).
LoopProgress == []NoHiddenWait /\ ReadsAllPackets

\* A dtp_close that has closed the connection returns, if timers expire.
CloseReturns ==
    TimersExpire => close \in {"sent", "woken", "joining"} ~> close \in {"joined", "panicked"}

\* Once the connection is closed its thread ends, however it came to be closed.
ThreadEnds == Closed ~> pc \in {"exit", "panicked"}

-----------------------------------------------------------------------------
(* The loop and dtp_close implement ClientLife *)

LifePhase ==
    IF Closed THEN IF established THEN "closed" ELSE "failed"
    ELSE IF ~established THEN "handshake"
    ELSE IF phase = "open" THEN "open" ELSE "down"

LifeThread ==
    CASE pc = "exit" -> "exited"
      [] pc = "panicked" -> "crashed"
      [] OTHER -> "running"

LifeCall ==
    CASE close \in {"idle", "tested"} -> "none"
      [] close \in {"sent", "woken", "joining"} -> "closing"
      [] close \in {"freed", "joined"} -> "done"
      [] OTHER -> "panicked"

Life == INSTANCE ClientLife WITH
          Conn   <- {1},
          phase  <- [k \in {1} |-> LifePhase],
          thread <- [k \in {1} |-> LifeThread],
          call   <- [k \in {1} |-> LifeCall]

\* The loop is the thread DtpApi takes it for: it ends only when the connection is
\* closed or a panic takes it down, and a dtp_close that answers 1 leaves a closed
\* connection, with the thread ended if it closed the connection itself.
ImplementsLife == Life!LSpec
=============================================================================
