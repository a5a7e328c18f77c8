----------------------------- MODULE DtpServer -----------------------------
(***************************************************************************)
(* The server side of the DTP API: the thread running server_loop and the  *)
(* application threads in dtp_accept, dtp_send and dtp_close.              *)
(*                                                                         *)
(* They share the table client_status (one mutex), the quiche connections  *)
(* (one mutex each) and the waker of the poll.  The map `clients' and the  *)
(* receive buffer belong to the loop alone.  An action is one critical     *)
(* section, or the stretch of thread-local code between two of them.       *)
(*                                                                         *)
(* External: quiche::Connection (module part "quiche" below), the UDP      *)
(* socket and mio's edge-triggered poll.                                   *)
(***************************************************************************)
EXTENDS Naturals, Sequences

CONSTANTS
    Cid,         \* connection ids the stateless retry can mint, one per client
    App,         \* application threads of the server process
    Kinds,       \* kinds of datagram the environment delivers
    MaxPkts,     \* bound: datagrams delivered in a behaviour
    SockCap,     \* bound: datagrams waiting in the socket
    LogLevels,   \* log levels a behaviour may run at
    IoResults,   \* what socket.send_to, recv_from and the poll may return
    QuicheErrs   \* may quiche return errors other than Done?

AllKinds == {"Initial",     \* Initial packet without a token
             "OldInitial",  \* Initial packet of an unsupported version
             "Token",       \* Initial packet echoing the token of a Retry
             "BadToken",    \* Initial packet whose token or dcid is refused
             "Data",        \* any later packet of the connection
             "Junk"}        \* a datagram whose header does not parse

ASSUME ServerAssumption ==
    /\ Kinds \subseteq AllKinds
    /\ MaxPkts \in Nat /\ SockCap \in Nat
    /\ LogLevels \subseteq {"off", "error", "debug"}
    /\ "ok" \in IoResults /\ IoResults \subseteq {"ok", "block", "fail"}
    /\ QuicheErrs \in BOOLEAN

VARIABLES
    \* the server thread
    pc,            \* where server_loop is
    armed,         \* the poll was given a timeout
    events,        \* the last poll returned events
    buf,           \* the datagram the read loop is working on, if any
    todo,          \* clients the write pass has still to visit
    clients,       \* [Cid -> Nat]: the ClientMap; 0 when there is no entry
    held,          \* connections whose mutex this thread never gives back
    logLevel,
    \* shared with the application
    conn,          \* Seq(Conn): every connection object created so far
    client_status, \* [Cid -> StatusEntry]: SharedStreams.client_status
    woken,         \* the waker's event is pending
    \* application threads
    app,           \* [App -> AppPc]
    handle,        \* [App -> Nat]: connection of the DtpConnection held, or 0
    \* the network
    sock,          \* Seq(Packet): datagrams waiting in the UDP socket
    sockReady,     \* the socket's edge-triggered event is pending
    retried,       \* cids whose token has been sent to the client
    arrived        \* number of datagrams delivered so far

serverVars == <<pc, armed, events, buf, todo, clients, held, logLevel>>
sharedVars == <<conn, client_status, woken>>
appVars    == <<app, handle>>
netVars    == <<sock, sockReady, retried, arrived>>
vars       == <<serverVars, sharedVars, appVars, netVars>>

Packet == [kind : Kinds, cid : Cid]

ServerPc == {"top", "poll", "read", "recv", "write", "gc",
             "stuck",  \* waits for a mutex it holds itself
             "dead"}   \* panicked
AppPc == {"idle", "open",
          "closing",  \* its dtp_close has answered -1 and will be called again
          "marking",  \* in dtp_close, past the test of is_closed
          "panicked"}
Status == {"Absent", "Connected", "Accepted", "Close"}
StatusEntry == [obj : Nat, status : Status]
NoEntry == [obj |-> 0, status |-> "Absent"]

-----------------------------------------------------------------------------
(* quiche::Connection, as far as src/ looks at it *)

\* "fresh": no packet processed yet; "closing": an end has closed it and the
\* draining timer runs.  dirty: stream data written by dtp_send that no write
\* pass of the loop has seen yet.
Phase == {"fresh", "live", "closing", "closed"}
Conn == [scid : Cid, phase : Phase, established : BOOLEAN, dirty : BOOLEAN]

FreshConn(c) ==
    [scid |-> c, phase |-> "fresh", established |-> FALSE, dirty |-> FALSE]

IsClosed(n) == conn[n].phase = "closed"

\* The states Connection::recv may leave q in when it returns Ok: the packet
\* is processed or ignored, completes the handshake, or carries a close.
Processed(q, kind) ==
    IF q.phase = "fresh" THEN {[q EXCEPT !.phase = "live"]}
    ELSE {q} \cup
         IF q.phase = "live" /\ kind = "Data"
         THEN {[q EXCEPT !.established = TRUE], [q EXCEPT !.phase = "closing"]}
         ELSE {}

\* Connection::close: immediate when nothing was processed, else via draining.
CloseQuiche(q) ==
    [q EXCEPT !.phase = CASE q.phase = "fresh" -> "closed"
                          [] q.phase = "live" -> "closing"
                          [] OTHER -> q.phase]

\* Can processing the packet fail?  quiche then closes the connection itself.
RecvFails(q, kind) ==
    /\ QuicheErrs
    /\ \/ q.phase = "fresh"
       \/ q.phase = "live" /\ kind = "Data"

-----------------------------------------------------------------------------
(* server_loop *)

InMap(c) == clients[c] # 0
Keys == {c \in Cid : InMap(c)}
Alive == {c \in Keys : ~IsClosed(clients[c])}

\* Mutant: only the timers of established connections are looked at.
Top_EstablishedOnly ==
    /\ pc = "top"
    /\ armed' = (\E c \in Alive : conn[clients[c]].established)
    /\ pc' = "poll"
    /\ UNCHANGED <<events, buf, todo, clients, held, logLevel>>
    /\ UNCHANGED <<sharedVars, appVars, netVars>>

\* The shortest timeout of the connections; quiche gives none once closed.
Top ==
    /\ pc = "top"
    /\ armed' = (Alive # {})
    /\ pc' = "poll"
    /\ UNCHANGED <<events, buf, todo, clients, held, logLevel>>
    /\ UNCHANGED <<sharedVars, appVars, netVars>>

PollEvents ==
    /\ pc = "poll"
    /\ sockReady \/ woken
    /\ events' = TRUE
    /\ sockReady' = FALSE
    /\ woken' = FALSE
    /\ pc' = "read"
    /\ UNCHANGED <<armed, buf, todo, clients, held, logLevel>>
    /\ UNCHANGED <<conn, client_status, appVars, sock, retried, arrived>>

PollTimeout ==
    /\ pc = "poll"
    /\ armed
    /\ ~sockReady /\ ~woken
    /\ events' = FALSE
    /\ pc' = "read"
    /\ UNCHANGED <<armed, buf, todo, clients, held, logLevel>>
    /\ UNCHANGED <<sharedVars, appVars, netVars>>

\* Mutant: on_timeout is only called on established connections.
OnTimeout_Established(X) ==
    /\ pc = "read"
    /\ ~events
    /\ X \subseteq {c \in Alive : conn[clients[c]].established}
    /\ conn' = [n \in DOMAIN conn |->
                  IF \E c \in X : clients[c] = n
                  THEN [conn[n] EXCEPT !.phase = "closed"] ELSE conn[n]]
    /\ todo' = Keys
    /\ pc' = "write"
    /\ UNCHANGED <<armed, events, buf, clients, held, logLevel>>
    /\ UNCHANGED <<client_status, woken, appVars, netVars>>

\* on_timeout on every client: the idle or draining timer of those in X has
\* expired.  X is empty when only a loss-detection timer fired.
OnTimeout(X) ==
    /\ pc = "read"
    /\ ~events
    /\ X \subseteq Alive
    /\ conn' = [n \in DOMAIN conn |->
                  IF \E c \in X : clients[c] = n
                  THEN [conn[n] EXCEPT !.phase = "closed"] ELSE conn[n]]
    /\ todo' = Keys
    /\ pc' = "write"
    /\ UNCHANGED <<armed, events, buf, clients, held, logLevel>>
    /\ UNCHANGED <<client_status, woken, appVars, netVars>>

\* recv_from would block: on to the write pass.
ReadDrained ==
    /\ pc = "read"
    /\ events
    /\ sock = <<>>
    /\ todo' = Keys
    /\ pc' = "write"
    /\ UNCHANGED <<armed, events, buf, clients, held, logLevel>>
    /\ UNCHANGED <<sharedVars, appVars, netVars>>

\* recv_from takes a datagram out of the socket.
Receiving(p) ==
    /\ pc = "read"
    /\ events
    /\ sock # <<>>
    /\ p = Head(sock)
    /\ sock' = Tail(sock)

\* A datagram the loop skips: no header, or no connection and no way to make
\* one (not Initial, or its token or connection id is refused).
DropPacket(p) ==
    /\ Receiving(p)
    /\ \/ p.kind = "Junk"
       \/ ~InMap(p.cid) /\ p.kind \in {"Data", "BadToken"}
    /\ UNCHANGED <<serverVars, sharedVars, appVars, sockReady, retried, arrived>>

\* Version negotiation and stateless retry answer the packet with one of their
\* own.  When it cannot be sent for now, `break' leaves the whole read loop.
AnswerPacket(p) ==
    /\ Receiving(p)
    /\ ~InMap(p.cid)
    /\ p.kind \in {"OldInitial", "Initial"}
    /\ \E r \in IoResults :
         /\ pc' = CASE r = "ok" -> "read" [] r = "block" -> "write" [] OTHER -> "dead"
         /\ todo' = IF r = "block" THEN Keys ELSE todo
         /\ retried' = IF r = "ok" /\ p.kind = "Initial"
                       THEN retried \cup {p.cid} ELSE retried
    /\ UNCHANGED <<armed, events, buf, clients, held, logLevel>>
    /\ UNCHANGED <<sharedVars, appVars, sockReady, arrived>>

\* Mutant: an entry left over from an earlier connection of this id is kept.
AcceptPacket_KeepEntry(p) ==
    /\ Receiving(p)
    /\ ~InMap(p.cid)
    /\ p.kind = "Token"
    /\ conn' = Append(conn, FreshConn(p.cid))
    /\ clients' = [clients EXCEPT ![p.cid] = Len(conn) + 1]
    /\ client_status' = [client_status EXCEPT ![p.cid] =
                           IF @ = NoEntry
                           THEN [obj |-> Len(conn) + 1, status |-> "Connected"]
                           ELSE @]
    /\ buf' = <<p>>
    /\ pc' = "recv"
    /\ UNCHANGED <<armed, events, todo, held, logLevel, woken>>
    /\ UNCHANGED <<appVars, sockReady, retried, arrived>>

\* An Initial packet with a valid token and no connection: make one, publish it
\* as Connected, and go on to feed it the packet.
AcceptPacket(p) ==
    /\ Receiving(p)
    /\ ~InMap(p.cid)
    /\ p.kind = "Token"
    /\ conn' = Append(conn, FreshConn(p.cid))
    /\ clients' = [clients EXCEPT ![p.cid] = Len(conn) + 1]
    /\ client_status' = [client_status EXCEPT ![p.cid] =
                           [obj |-> Len(conn) + 1, status |-> "Connected"]]
    /\ buf' = <<p>>
    /\ pc' = "recv"
    /\ UNCHANGED <<armed, events, todo, held, logLevel, woken>>
    /\ UNCHANGED <<appVars, sockReady, retried, arrived>>

\* quiche::accept makes no connection, and its unwrap panics.
AcceptFails(p) ==
    /\ Receiving(p)
    /\ ~InMap(p.cid)
    /\ p.kind = "Token"
    /\ QuicheErrs
    /\ pc' = "dead"
    /\ UNCHANGED <<armed, events, buf, todo, clients, held, logLevel>>
    /\ UNCHANGED <<sharedVars, appVars, sockReady, retried, arrived>>

\* The packet belongs to a connection: by its dcid, or, for the client's first
\* Initial, by the connection id derived from it.
LookupPacket(p) ==
    /\ Receiving(p)
    /\ InMap(p.cid)
    /\ p.kind # "Junk"
    /\ buf' = <<p>>
    /\ pc' = "recv"
    /\ UNCHANGED <<armed, events, todo, clients, held, logLevel>>
    /\ UNCHANGED <<sharedVars, appVars, sockReady, retried, arrived>>

\* The connection the packet in buf is fed to.
Current == clients[Head(buf).cid]

\* Mutant: the read loop is left after a packet.
RecvOk_Break ==
    /\ pc = "recv"
    /\ \E q \in Processed(conn[Current], Head(buf).kind) :
          conn' = [conn EXCEPT ![Current] = q]
    /\ buf' = <<>>
    /\ todo' = Keys
    /\ pc' = "write"
    /\ UNCHANGED <<armed, events, clients, held, logLevel>>
    /\ UNCHANGED <<client_status, woken, appVars, netVars>>

\* Connection::recv returns Ok.  The pass over the writable streams that
\* follows finds partial_responses empty and changes nothing.
RecvOk ==
    /\ pc = "recv"
    /\ \E q \in Processed(conn[Current], Head(buf).kind) :
          conn' = [conn EXCEPT ![Current] = q]
    /\ buf' = <<>>
    /\ pc' = "read"
    /\ UNCHANGED <<armed, events, todo, clients, held, logLevel>>
    /\ UNCHANGED <<client_status, woken, appVars, netVars>>

\* Connection::recv returns an error.  The guard taken in the scrutinee of the
\* match lives through its arms: evaluating the arguments of error! locks the
\* same mutex again, which happens when that level is logged.
RecvErr ==
    /\ pc = "recv"
    /\ RecvFails(conn[Current], Head(buf).kind)
    /\ conn' = [conn EXCEPT ![Current] = CloseQuiche(@)]
    /\ buf' = <<>>
    /\ IF logLevel = "off"
       THEN pc' = "read" /\ UNCHANGED held
       ELSE pc' = "stuck" /\ held' = {Current}
    /\ UNCHANGED <<armed, events, todo, clients, logLevel>>
    /\ UNCHANGED <<client_status, woken, appVars, netVars>>

\* Any other error of the poll or of recv_from panics; of the mutexes it may then
\* hold, the socket's, nobody else takes.
IoPanic ==
    /\ pc = "poll" \/ (pc = "read" /\ events)
    /\ "fail" \in IoResults
    /\ pc' = "dead"
    /\ UNCHANGED <<armed, events, buf, todo, clients, held, logLevel>>
    /\ UNCHANGED <<sharedVars, appVars, netVars>>

\* One client of the write pass: whatever the connection has to send goes out,
\* until quiche is done or the socket would block.  An error of quiche closes
\* the connection; any other error of the socket panics with the guard held.
WriteClient(c) ==
    /\ pc = "write"
    /\ c \in todo
    /\ LET n == clients[c] IN
       \/ /\ conn' = [conn EXCEPT ![n].dirty = FALSE]
          /\ UNCHANGED <<pc, held>>
       \/ /\ QuicheErrs
          /\ conn' = [conn EXCEPT ![n] = CloseQuiche([@ EXCEPT !.dirty = FALSE])]
          /\ UNCHANGED <<pc, held>>
       \/ /\ "fail" \in IoResults
          /\ ~IsClosed(n)
          /\ pc' = "dead"
          /\ held' = {n}
          /\ UNCHANGED conn
    /\ todo' = todo \ {c}
    /\ UNCHANGED <<armed, events, buf, clients, logLevel>>
    /\ UNCHANGED <<client_status, woken, appVars, netVars>>

WriteDone ==
    /\ pc = "write"
    /\ todo = {}
    /\ pc' = "gc"
    /\ UNCHANGED <<armed, events, buf, todo, clients, held, logLevel>>
    /\ UNCHANGED <<sharedVars, appVars, netVars>>

\* Mutant: closed connections are collected whether or not they are marked.
Collectable_Unmarked(c) == InMap(c) /\ IsClosed(clients[c])

\* A closed connection is collected once the application has marked it.  (The
\* loop looks the status up and is `unreachable!' when there is none: see
\* StatusCoversClients.)
Collectable(c) ==
    /\ InMap(c)
    /\ IsClosed(clients[c])
    /\ client_status[c].status = "Close"

Gc ==
    /\ pc = "gc"
    /\ clients' = [c \in Cid |-> IF Collectable(c) THEN 0 ELSE clients[c]]
    /\ pc' = "top"
    /\ UNCHANGED <<armed, events, buf, todo, held, logLevel>>
    /\ UNCHANGED <<sharedVars, appVars, netVars>>

ReadPacket ==
    \E p \in Packet :
        \/ DropPacket(p) \/ AnswerPacket(p) \/ AcceptPacket(p) \/ AcceptFails(p)
        \/ LookupPacket(p)

ServerStep ==
    \/ Top \/ PollEvents \/ PollTimeout
    \/ \E X \in SUBSET Cid : OnTimeout(X)
    \/ ReadDrained \/ ReadPacket \/ RecvOk \/ RecvErr
    \/ \E c \in Cid : WriteClient(c)
    \/ WriteDone \/ Gc \/ IoPanic

-----------------------------------------------------------------------------
(* The application threads *)

\* Mutant: the connection handed out stays Connected.
DtpAccept_StayConnected(t) ==
    /\ app[t] = "idle"
    /\ \E c \in Cid :
         /\ client_status[c].status = "Connected"
         /\ handle' = [handle EXCEPT ![t] = client_status[c].obj]
    /\ app' = [app EXCEPT ![t] = "open"]
    /\ UNCHANGED <<serverVars, conn, client_status, woken, netVars>>

\* dtp_accept, blocking or not: a scan of the table under its mutex.  A scan
\* that finds nothing changes nothing.
DtpAccept(t) ==
    /\ app[t] = "idle"
    /\ \E c \in Cid :
         /\ client_status[c].status = "Connected"
         /\ client_status' = [client_status EXCEPT ![c].status = "Accepted"]
         /\ handle' = [handle EXCEPT ![t] = client_status[c].obj]
    /\ app' = [app EXCEPT ![t] = "open"]
    /\ UNCHANGED <<serverVars, conn, woken, netVars>>

\* The thread can take the mutex of its connection.
CanLock(t) == app[t] \in {"open", "closing"} /\ handle[t] \notin held

\* Mutant: the loop is not woken (dtp_recv has its wake commented out).
DtpSend_NoWake(t) ==
    /\ CanLock(t)
    /\ conn[handle[t]].established
    /\ ~IsClosed(handle[t])
    /\ conn' = [conn EXCEPT ![handle[t]].dirty = TRUE]
    /\ UNCHANGED <<serverVars, client_status, woken, appVars, netVars>>

\* dtp_send on an established, not yet closed connection: the data is written
\* into the stream and the loop woken, in one critical section.
DtpSend(t) ==
    /\ CanLock(t)
    /\ conn[handle[t]].established
    /\ ~IsClosed(handle[t])
    /\ conn' = [conn EXCEPT ![handle[t]].dirty = TRUE]
    /\ woken' = TRUE
    /\ UNCHANGED <<serverVars, client_status, appVars, netVars>>

\* dtp_close on a connection that is closed: the test, in its own critical
\* section; DtpCloseMark is the rest.
DtpCloseTest(t) ==
    /\ CanLock(t)
    /\ IsClosed(handle[t])
    /\ app' = [app EXCEPT ![t] = "marking"]
    /\ UNCHANGED <<serverVars, sharedVars, handle, netVars>>

\* While it is not closed the call answers -1 and changes nothing but what its caller
\* knows.  With the debug level logged it panics: the message unwraps sockid, which
\* dtp_accept leaves None.
DtpCloseRefused(t) ==
    /\ CanLock(t)
    /\ ~IsClosed(handle[t])
    /\ app' = [app EXCEPT ![t] = IF logLevel = "debug" THEN "panicked" ELSE "closing"]
    /\ UNCHANGED <<serverVars, sharedVars, handle, netVars>>

\* Mutant: the entry is removed instead of marked.
DtpCloseMark_Remove(t) ==
    /\ app[t] = "marking"
    /\ client_status' = [client_status EXCEPT ![conn[handle[t]].scid] = NoEntry]
    /\ app' = [app EXCEPT ![t] = "idle"]
    /\ handle' = [handle EXCEPT ![t] = 0]
    /\ UNCHANGED <<serverVars, conn, woken, netVars>>

DtpCloseMark(t) ==
    /\ app[t] = "marking"
    /\ LET c == conn[handle[t]].scid IN
       client_status' = IF client_status[c].obj = 0 THEN client_status
                        ELSE [client_status EXCEPT ![c].status = "Close"]
    /\ app' = [app EXCEPT ![t] = "idle"]
    /\ handle' = [handle EXCEPT ![t] = 0]
    /\ UNCHANGED <<serverVars, conn, woken, netVars>>

\* Any call that locks the mutex the dead server thread poisoned.
TouchPoisoned(t) ==
    /\ app[t] \in {"open", "closing"}
    /\ pc = "dead"
    /\ handle[t] \in held
    /\ app' = [app EXCEPT ![t] = "panicked"]
    /\ UNCHANGED <<serverVars, sharedVars, handle, netVars>>

AppStep(t) ==
    \/ DtpAccept(t) \/ DtpSend(t) \/ DtpCloseTest(t) \/ DtpCloseRefused(t)
    \/ DtpCloseMark(t) \/ TouchPoisoned(t)

-----------------------------------------------------------------------------
(* The network: anything a client may have sent reaches the socket, late,  *)
(* twice or out of order; a lost datagram is one that never arrives.       *)

Created(c) == \E n \in DOMAIN conn : conn[n].scid = c

Plausible(p) ==
    /\ p.kind = "Token" => p.cid \in retried
    /\ p.kind = "Data" => Created(p.cid)

Arrive(p) ==
    /\ arrived < MaxPkts
    /\ Len(sock) < SockCap
    /\ Plausible(p)
    /\ sock' = Append(sock, p)
    /\ sockReady' = TRUE
    /\ arrived' = arrived + 1
    /\ UNCHANGED <<serverVars, sharedVars, appVars, retried>>

-----------------------------------------------------------------------------
Init ==
    /\ pc = "top" /\ armed = FALSE /\ events = FALSE
    /\ buf = <<>> /\ todo = {} /\ held = {}
    /\ clients = [c \in Cid |-> 0]
    /\ logLevel \in LogLevels
    /\ conn = <<>>
    /\ client_status = [c \in Cid |-> NoEntry]
    /\ woken = FALSE
    /\ app = [t \in App |-> "idle"]
    /\ handle = [t \in App |-> 0]
    /\ sock = <<>> /\ sockReady = FALSE /\ retried = {} /\ arrived = 0

Next ==
    \/ ServerStep
    \/ \E t \in App : AppStep(t)
    \/ \E p \in Packet : Arrive(p)

Spec == Init /\ [][Next]_vars

\* The server thread is scheduled; an idle application thread sits in dtp_accept; a
\* thread whose dtp_close was refused calls it again (main.rs 220-236); and a connection
\* whose timers are looked at again and again does expire.  Nothing makes a thread call
\* dtp_close for the first time: one that waits for a request (main.rs 197-211) may
\* never get there.  Nothing makes the poll or the socket fail.
LoopRuns == ServerStep /\ pc' # "dead"
CloseAgain(t) == app[t] = "closing" /\ DtpCloseTest(t)
Expires(c) == \E X \in SUBSET Cid : c \in X /\ OnTimeout(X)

AppFair(t) ==
    /\ WF_vars(DtpAccept(t))
    /\ WF_vars(CloseAgain(t))
    /\ WF_vars(DtpCloseMark(t))
TimerFair(c) == SF_vars(Expires(c))

AppsFair == \A t \in App : AppFair(t)
TimersFair == \A c \in Cid : TimerFair(c)

Fairness == WF_vars(LoopRuns) /\ AppsFair /\ TimersFair

FairSpec == Spec /\ Fairness

-----------------------------------------------------------------------------
(* Properties *)

TypeOK ==
    /\ pc \in ServerPc
    /\ armed \in BOOLEAN /\ events \in BOOLEAN
    /\ buf \in Seq(Packet) /\ Len(buf) = (IF pc = "recv" THEN 1 ELSE 0)
    /\ todo \in SUBSET Cid
    /\ clients \in [Cid -> Nat]
    /\ held \in SUBSET Nat
    /\ logLevel \in LogLevels
    /\ conn \in Seq(Conn)
    /\ client_status \in [Cid -> StatusEntry]
    /\ woken \in BOOLEAN
    /\ app \in [App -> AppPc]
    /\ handle \in [App -> Nat]
    /\ sock \in Seq(Packet)
    /\ sockReady \in BOOLEAN
    /\ retried \in SUBSET Cid
    /\ arrived \in Nat

\* What an application thread refers to through its DtpConnection is what the
\* loop still serves: it was not collected, and no later connection of the same
\* id has taken its place (the danger spelled out in ffi.rs 593-597).
LiveHandleNotCollected ==
    \A t \in App : handle[t] # 0 => clients[conn[handle[t]].scid] = handle[t]

\* A connection is handed to one thread only, however many sit in dtp_accept,
\* and its entry is the Accepted one until that thread gives it back.
OneOwner ==
    /\ \A t, u \in App : handle[t] # 0 /\ handle[t] = handle[u] => t = u
    /\ \A t \in App : handle[t] # 0 =>
          client_status[conn[handle[t]].scid] = [obj |-> handle[t], status |-> "Accepted"]

\* The garbage collector finds an entry for every client it scans, and it is the
\* entry of that very connection (`unreachable!' at server.rs 422).
StatusCoversClients ==
    \A c \in Keys : client_status[c].obj = clients[c]

\* The loop never blocks in poll while a connection has data that dtp_send wrote
\* and no write pass has seen, unless the wake for it is pending.
NoLostWake ==
    \A c \in Keys : pc = "poll" /\ conn[clients[c]].dirty => woken

-----------------------------------------------------------------------------
(* The inductive invariant behind them *)

\* What clients and client_status say of an id agrees.
TableInv ==
    \A c \in Cid :
        /\ clients[c] # 0 =>
             /\ clients[c] \in DOMAIN conn
             /\ conn[clients[c]].scid = c
             /\ client_status[c].obj = clients[c]
        /\ client_status[c].obj = 0 <=> client_status[c].status = "Absent"
        /\ client_status[c].status \in {"Connected", "Accepted"} => clients[c] # 0
        /\ client_status[c].status = "Close" /\ clients[c] # 0 => IsClosed(clients[c])

\* A thread holds the connection its entry says is Accepted, alone.
HandleInv ==
    /\ \A t \in App :
        /\ handle[t] = 0 => app[t] = "idle"
        /\ app[t] = "idle" => handle[t] = 0
        /\ handle[t] # 0 =>
             LET c == conn[handle[t]].scid IN
             /\ handle[t] \in DOMAIN conn
             /\ clients[c] = handle[t]
             /\ client_status[c].status = "Accepted"
        /\ app[t] = "marking" => IsClosed(handle[t])
    /\ \A t, u \in App : handle[t] # 0 /\ handle[t] = handle[u] => t = u

\* The datagram in hand, and what is left of the write pass, belong to clients.
WorkInv ==
    /\ pc = "recv" => InMap(Head(buf).cid)
    /\ pc = "write" => todo \subseteq Keys

\* Unseen data: the wake is pending, or the write pass is still to come.
WakeInv ==
    \A c \in Cid :
        clients[c] # 0 /\ conn[clients[c]].dirty =>
            \/ woken
            \/ pc \in {"read", "recv", "stuck", "dead"}
            \/ pc = "write" /\ c \in todo

\* The poll has a timeout as long as a connection has a timer, and no mutex is kept by a
\* loop that runs.
PollInv ==
    /\ pc = "poll" /\ Alive # {} => armed
    /\ pc \notin {"stuck", "dead"} => held = {}

IInv == TypeOK /\ TableInv /\ HandleInv /\ WorkInv /\ WakeInv /\ PollInv

-----------------------------------------------------------------------------
(* The server implements ConnOwnership *)

Stage(c) ==
    IF clients[c] = 0 THEN "absent"
    ELSE CASE client_status[c].status = "Connected" -> "offered"
           [] client_status[c].status = "Accepted" -> "owned"
           [] OTHER -> "released"

Owners(c) == {t \in App : handle[t] # 0 /\ conn[handle[t]].scid = c}

Own == INSTANCE ConnOwnership WITH
         stage  <- [c \in Cid |-> Stage(c)],
         owners <- [c \in Cid |-> Owners(c)]

\* Seen from the application, a connection id is offered, taken by one thread,
\* given back by it and only then collected, in this order.
Ownership == Own!ASpec

-----------------------------------------------------------------------------
(* Liveness, under FairSpec *)

\* From some point on nothing arrives and nobody wakes the loop.
Quiet == <>[](~woken /\ ~sockReady)

\* An open connection whose peer has fallen silent is closed by its timers: the
\* poll is always armed for it, and every expiry reaches it.
SilentConnectionsClose ==
    Quiet => \A c \in Cid : []<>(c \notin Alive)

\* No thread keeps a connection for ever without ever calling dtp_close.
AllComeToClose == \A t \in App : []<>(app[t] # "open")

\* Every connection published as Connected is handed to the application, even
\* when one thread serves them all and accepts again only after closing.
EveryConnectionAccepted ==
    Quiet /\ AllComeToClose => \A c \in Cid :
        client_status[c].status = "Connected" ~> client_status[c].status # "Connected"

\* The loop reads until there are no more packets to read (server.rs 98-99):
\* a datagram in the socket is taken out, although the poll reports an arrival
\* only once.
ReadsAllPackets == sock # <<>> ~> sock = <<>>

\* A write pass comes to its end: it visits a client once, whatever the application
\* writes meanwhile (server.rs 360-395).
WritePassEnds == pc = "write" ~> pc # "write"

\* When the loop, the expiry of a connection and a dtp_close wait for nothing.
LoopReady == pc \notin {"stuck", "dead"} /\ (pc = "poll" => armed \/ sockReady \/ woken)
ExpiryReady(c) == pc = "read" /\ ~events /\ c \in Alive
CloseReady(t) == app[t] = "closing" /\ CanLock(t) /\ IsClosed(handle[t])

\* The loop is never held up but by itself (RecvErr) or in a poll with no timeout and no
\* event, and a repeated dtp_close waits for nothing once its connection is closed: the steps
\* that FairSpec promises can be taken then, and only then (server.rs 84-112, ffi.rs 588-604).
NoHiddenWait ==
    /\ LoopReady <=> ENABLED <<LoopRuns>>_vars
    /\ \A c \in Cid : ExpiryReady(c) <=> ENABLED <<Expires(c)>>_vars
    /\ \A t \in App :
        /\ CloseReady(t) <=> ENABLED <<CloseAgain(t)>>_vars
        /\ app[t] = "marking" <=> ENABLED <<DtpCloseMark(t)>>_vars

\* The loop is not held up, reads what there is to read and ends each of its write passes
\* (server.rs 84-428).
LoopProgress == []NoHiddenWait /\ ReadsAllPackets /\ WritePassEnds

\* A thread that has begun to call dtp_close gives its connection back: its timers close
\* it once its peer has fallen silent, and the dtp_close that is repeated until then
\* succeeds (main.rs 220-236).
ConnectionsGivenBack ==
    Quiet => \A t \in App, c \in Cid :
        t \in Owners(c) /\ app[t] \in {"closing", "marking"} ~> t \notin Owners(c)

\* A connection the application has marked is collected by the loop: it `will
\* certainly be collected by server_loop because of a timeout' (ffi.rs 590).
MarkedIsCollected ==
    \A c \in Cid : client_status[c].status = "Close" ~> clients[c] = 0

=============================================================================
