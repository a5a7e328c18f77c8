------------------------------- MODULE DtpApi -------------------------------
(***************************************************************************)
(* The registry behind the C API, DTP_API_MAP, and the calls that use it:  *)
(* dtp_socket, dtp_socket_close, dtp_bind, dtp_listen, dtp_connect and the *)
(* client half of dtp_close.                                               *)
(*                                                                         *)
(* A call that holds the registry's mutex from its first line to its       *)
(* return is one action.  dtp_close is not such a call: it tests the       *)
(* connection, closes it, takes the thread's handle out of the registry    *)
(* and joins the thread in critical sections of their own, while other     *)
(* threads call the API, the peer closes the connection and timers expire. *)
(*                                                                         *)
(* The client's event loop is module DtpClient; here it is a thread that   *)
(* ends once its connection is closed.                                     *)
(***************************************************************************)
EXTENDS Naturals, Sequences

CONSTANTS MaxFd,      \* bound: sockets created in a behaviour
          MaxClients, \* bound: successful dtp_connect calls in a behaviour
          Results     \* outcomes of creating or using a poll, a socket or a waker

ASSUME ApiAssumption ==
    /\ MaxFd \in Nat /\ MaxClients \in Nat
    /\ Results \subseteq {"ok",
                          "err",   \* it returns Err
                          "panic"} \* it unwraps an error itself

Fd == 0 .. MaxFd - 1

VARIABLES
    poisoned,          \* a call panicked with the registry's mutex held
    next_fd,
    sock_map,          \* [Fd -> SockState]
    server_map,        \* fds bound and not yet listening
    server_handles,    \* fds with a server thread
    server_shared_map, \* fds with a SharedStreams
    server_waker_map,  \* fds with a server's waker
    client_handles,    \* [Fd -> Nat]: the client thread registered, 0 for none
    client             \* Seq(Client): one per successful dtp_connect

serverMaps == <<server_map, server_handles, server_shared_map, server_waker_map>>
vars == <<poisoned, next_fd, sock_map, serverMaps, client_handles, client>>

SockState == {"absent", "none", "socket"}  \* no entry, Some(None), Some(Some(_))

\* "handshake" is anything before the connection is established, "failed" a
\* connection that closed without having been.
ConnPhase == {"handshake", "open", "closing", "draining", "closed", "failed"}

\* A thread that has "panicked" did so with the connection's mutex held; one that
\* has "failed", because its poll did, held none.
ThreadState == {"running", "exited", "panicked", "failed"}

\* How far dtp_close has got with the connection.  "freed" and "joined" are calls
\* that returned 1; "poisoned" is a panic that held the connection's mutex,
\* "panicked" one that did not.
ClosePc == {"idle", "tested", "sent", "joining", "freed", "joined",
            "poisoned", "panicked"}

Client == [sock : Fd, phase : ConnPhase, thread : ThreadState,
           close : ClosePc,
           taken : Nat]     \* whose handle dtp_close took, 0 before it did

-----------------------------------------------------------------------------
(* Lookups *)

has_sock_entry(fd) == sock_map[fd] # "absent"
has_server(fd) == fd \in server_map \cup server_handles

\* client_map is never written, so only the handles count.
has_client(fd) == client_handles[fd] # 0

-----------------------------------------------------------------------------
(* The calls that hold the registry throughout *)

dtp_socket ==
    /\ ~poisoned
    /\ next_fd < MaxFd
    /\ sock_map' = [sock_map EXCEPT ![next_fd] = "none"]
    /\ next_fd' = next_fd + 1
    /\ UNCHANGED <<poisoned, serverMaps, client_handles, client>>

\* Mutant: a socket a client is using can be closed.
dtp_socket_close_InUse(fd) ==
    /\ ~poisoned
    /\ has_sock_entry(fd)
    /\ ~has_server(fd)
    /\ sock_map' = [sock_map EXCEPT ![fd] = "absent"]
    /\ UNCHANGED <<poisoned, next_fd, serverMaps, client_handles, client>>

\* Mutant: the fd of the closed socket is given out again.
dtp_socket_close_Reuse(fd) ==
    /\ ~poisoned
    /\ has_sock_entry(fd)
    /\ ~has_client(fd)
    /\ ~has_server(fd)
    /\ sock_map' = [sock_map EXCEPT ![fd] = "absent"]
    /\ next_fd' = fd
    /\ UNCHANGED <<poisoned, serverMaps, client_handles, client>>

dtp_socket_close(fd) ==
    /\ ~poisoned
    /\ has_sock_entry(fd)
    /\ ~has_client(fd)
    /\ ~has_server(fd)
    /\ sock_map' = [sock_map EXCEPT ![fd] = "absent"]
    /\ UNCHANGED <<poisoned, next_fd, serverMaps, client_handles, client>>

\* Binding a socket twice is refused; binding one that a client uses is not.
dtp_bind(fd) ==
    /\ ~poisoned
    /\ has_sock_entry(fd)
    /\ ~has_server(fd)
    /\ \/ /\ "ok" \in Results
          /\ sock_map' = [sock_map EXCEPT ![fd] = "socket"]
          /\ server_map' = server_map \cup {fd}
          /\ UNCHANGED poisoned
       \/ /\ "panic" \in Results
          /\ poisoned' = TRUE
          /\ UNCHANGED <<sock_map, server_map>>
    /\ UNCHANGED <<next_fd, server_handles, server_shared_map, server_waker_map>>
    /\ UNCHANGED <<client_handles, client>>

\* Mutant: the bound server stays in server_map.
dtp_listen_Keep(fd) ==
    /\ ~poisoned
    /\ has_sock_entry(fd)
    /\ fd \in server_map
    /\ server_handles' = server_handles \cup {fd}
    /\ server_shared_map' = server_shared_map \cup {fd}
    /\ server_waker_map' = server_waker_map \cup {fd}
    /\ UNCHANGED <<poisoned, next_fd, sock_map, server_map, client_handles, client>>

\* The server leaves server_map for its thread: has_server still holds, and a
\* second dtp_listen finds nothing to start.
dtp_listen(fd) ==
    /\ ~poisoned
    /\ has_sock_entry(fd)
    /\ fd \in server_map
    /\ server_map' = server_map \ {fd}
    /\ server_handles' = server_handles \cup {fd}
    /\ server_shared_map' = server_shared_map \cup {fd}
    /\ server_waker_map' = server_waker_map \cup {fd}
    /\ UNCHANGED <<poisoned, next_fd, sock_map, client_handles, client>>

NewClient(fd) == [sock |-> fd, phase |-> "handshake", thread |-> "running",
                  close |-> "idle", taken |-> 0]

\* Mutant: a socket can be connected twice.
dtp_connect_Again(fd) ==
    /\ ~poisoned
    /\ has_sock_entry(fd)
    /\ Len(client) < MaxClients
    /\ client' = Append(client, NewClient(fd))
    /\ client_handles' = [client_handles EXCEPT ![fd] = Len(client) + 1]
    /\ sock_map' = [sock_map EXCEPT ![fd] = "socket"]
    /\ UNCHANGED <<poisoned, next_fd, serverMaps>>

\* Whatever DtpClient::connect fails with, the call panics: it unwraps the Result.
dtp_connect(fd) ==
    /\ ~poisoned
    /\ has_sock_entry(fd)
    /\ ~has_client(fd)
    /\ \/ /\ "ok" \in Results
          /\ Len(client) < MaxClients
          /\ client' = Append(client, NewClient(fd))
          /\ client_handles' = [client_handles EXCEPT ![fd] = Len(client) + 1]
          /\ sock_map' = [sock_map EXCEPT ![fd] = "socket"]
          /\ UNCHANGED poisoned
       \/ /\ {"err", "panic"} \cap Results # {}
          /\ poisoned' = TRUE
          /\ UNCHANGED <<client, client_handles, sock_map>>
    /\ UNCHANGED <<next_fd, serverMaps>>

-----------------------------------------------------------------------------
(* dtp_close on the connection of client k *)

registry == <<poisoned, next_fd, sock_map, serverMaps, client_handles>>

Closed(k) == client[k].phase \in {"closed", "failed"}

\* No panic has poisoned the connection's mutex.
Usable(k) == client[k].thread # "panicked" /\ client[k].close # "poisoned"

\* Already closed: the DtpConnection is freed; the handle stays registered.
CloseFree(k) ==
    /\ client[k].close = "idle"
    /\ Usable(k)
    /\ Closed(k)
    /\ client' = [client EXCEPT ![k].close = "freed"]
    /\ UNCHANGED registry

CloseTest(k) ==
    /\ client[k].close = "idle"
    /\ Usable(k)
    /\ ~Closed(k)
    /\ client' = [client EXCEPT ![k].close = "tested"]
    /\ UNCHANGED registry

\* Not established: the call returns -1.
CloseRefuse(k) ==
    /\ client[k].close = "tested"
    /\ Usable(k)
    /\ client[k].phase \in {"handshake", "failed"}
    /\ client' = [client EXCEPT ![k].close = "idle"]
    /\ UNCHANGED registry

\* Established, which it stays while draining and once closed: close it and wake
\* the loop.  On a connection that is draining or closed quiche returns Done and
\* `expect' panics, with the connection's mutex held.
CloseSend(k) ==
    /\ client[k].close = "tested"
    /\ Usable(k)
    /\ client[k].phase \notin {"handshake", "failed"}
    /\ client' = IF client[k].phase = "open"
                 THEN [client EXCEPT ![k].phase = "closing", ![k].close = "sent"]
                 ELSE [client EXCEPT ![k].close = "poisoned"]
    /\ UNCHANGED registry

\* The handle of the socket is taken out of the registry and unwrapped.
CloseTakeHandle(k) ==
    /\ client[k].close = "sent"
    /\ LET fd == client[k].sock IN
       IF ~poisoned /\ has_client(fd)
       THEN /\ client' = [client EXCEPT ![k].close = "joining",
                                        ![k].taken = client_handles[fd]]
            /\ client_handles' = [client_handles EXCEPT ![fd] = 0]
            /\ UNCHANGED poisoned
       ELSE /\ client' = [client EXCEPT ![k].close = "panicked"]
            /\ poisoned' = TRUE
            /\ UNCHANGED client_handles
    /\ UNCHANGED <<next_fd, sock_map, serverMaps>>

\* Mutant: the handle is dropped instead of joined.
CloseJoin_Detach(k) ==
    /\ client[k].close = "joining"
    /\ client' = [client EXCEPT ![k].close = "joined"]
    /\ UNCHANGED registry

\* The thread has ended: the DtpConnection is freed, unless the thread panicked.
CloseJoin(k) ==
    /\ client[k].close = "joining"
    /\ LET thread == client[client[k].taken].thread IN
       /\ thread # "running"
       /\ client' = [client EXCEPT ![k].close =
                       IF thread = "exited" THEN "joined" ELSE "panicked"]
    /\ UNCHANGED registry

\* The loop has panicked with the connection's mutex held: the call panics too.
CloseTouchPoisoned(k) ==
    /\ client[k].close \in {"idle", "tested"}
    /\ client[k].thread = "panicked"
    /\ client' = [client EXCEPT ![k].close = "panicked"]
    /\ UNCHANGED registry

-----------------------------------------------------------------------------
(* The client's thread and its connection *)

\* The handshake completes or fails, the peer closes, a timer expires.
PhaseChange ==
    {<<"handshake", "open">>, <<"handshake", "failed">>,
     <<"open", "draining">>, <<"open", "closed">>,
     <<"closing", "closed">>, <<"draining", "closed">>}

ConnEvent(k) ==
    /\ client[k].thread = "running"
    /\ Usable(k)
    /\ \E to \in ConnPhase :
         /\ <<client[k].phase, to>> \in PhaseChange
         /\ client' = [client EXCEPT ![k].phase = to]
    /\ UNCHANGED registry

\* The loop ends when the connection is closed; it panics when its mutex is
\* poisoned or the socket or the poll fails.
ThreadEnd(k) ==
    /\ client[k].thread = "running"
    /\ \/ /\ Usable(k)
          /\ Closed(k)
          /\ client' = [client EXCEPT ![k].thread = "exited"]
       \/ /\ ~Usable(k) \/ "err" \in Results
          /\ client' = [client EXCEPT ![k].thread = "panicked"]
       \/ /\ "err" \in Results
          /\ client' = [client EXCEPT ![k].thread = "failed"]
    /\ UNCHANGED registry

-----------------------------------------------------------------------------
Init ==
    /\ poisoned = FALSE
    /\ next_fd = 0
    /\ sock_map = [fd \in Fd |-> "absent"]
    /\ server_map = {} /\ server_handles = {}
    /\ server_shared_map = {} /\ server_waker_map = {}
    /\ client_handles = [fd \in Fd |-> 0]
    /\ client = <<>>

CloseStep(k) ==
    \/ CloseFree(k) \/ CloseTest(k) \/ CloseRefuse(k) \/ CloseSend(k)
    \/ CloseTakeHandle(k) \/ CloseJoin(k) \/ CloseTouchPoisoned(k)

Next ==
    \/ dtp_socket
    \/ \E fd \in Fd : \/ dtp_socket_close(fd) \/ dtp_bind(fd) \/ dtp_listen(fd)
                      \/ dtp_connect(fd)
    \/ \E k \in DOMAIN client : CloseStep(k) \/ ConnEvent(k) \/ ThreadEnd(k)

Spec == Init /\ [][Next]_vars

-----------------------------------------------------------------------------
(* Properties *)

TypeOK ==
    /\ poisoned \in BOOLEAN
    /\ next_fd \in Nat
    /\ sock_map \in [Fd -> SockState]
    /\ server_map \in SUBSET Fd /\ server_handles \in SUBSET Fd
    /\ server_shared_map \in SUBSET Fd /\ server_waker_map \in SUBSET Fd
    /\ client_handles \in [Fd -> Nat]
    /\ client \in Seq(Client)

\* As long as a server or a client is registered under a socket, the socket has
\* its entry: dtp_socket_close cannot take it away (ffi.rs 122-129).
InUseHasSocket ==
    \A fd \in Fd : has_server(fd) \/ has_client(fd) => sock_map[fd] = "socket"

\* A server is either bound or running, never both, and a running one has its
\* thread, its waker and its SharedStreams: dtp_listen cannot start a second loop.
ServerTablesAgree ==
    /\ server_map \cap server_handles = {}
    /\ server_shared_map = server_handles
    /\ server_waker_map = server_handles

\* The seven tables agree: no call leaves one of them behind the others.
TablesAgree == InUseHasSocket /\ ServerTablesAgree

\* dtp_close finds the handle of its connection's thread in the registry (the
\* unwrap at ffi.rs 551), and joins that thread and no other, whatever was
\* connected, closed or refused on the same socket in between.
CloseJoinsItsThread ==
    \A k \in DOMAIN client :
        /\ client[k].close \in {"idle", "tested", "sent"} => client_handles[client[k].sock] = k
        /\ client[k].close \in {"joining", "joined"} => client[k].taken = k

\* The fd the next dtp_socket returns is not in use.
FreshFds == \A fd \in Fd : fd >= next_fd => sock_map[fd] = "absent"

IInv == TypeOK /\ InUseHasSocket /\ ServerTablesAgree /\ CloseJoinsItsThread /\ FreshFds

\* dtp_close only answers 1 for a connection that is closed, and when it has
\* joined, the thread has ended.
CloseIsFinal ==
    \A k \in DOMAIN client :
        /\ client[k].close \in {"freed", "joined"} => Closed(k)
        /\ client[k].close = "joined" => client[k].thread = "exited"

\* An fd that was handed out is never handed out again: one whose socket was closed
\* names no socket from then on, so an application that still uses it is refused
\* and cannot reach the socket of another (lib.rs 134-145).
FdsNeverReused ==
    [][\A fd \in Fd : fd < next_fd =>
           /\ fd < next_fd'
           /\ sock_map[fd] = "absent" => sock_map'[fd] = "absent"]_vars

-----------------------------------------------------------------------------
(* The registry implements ClientLife *)

\* A connection that is yet to be made counts as one in its handshake.
Made(k) == k \in DOMAIN client

LifePhase(k) ==
    IF ~Made(k) THEN "handshake"
    ELSE IF client[k].phase \in {"closing", "draining"} THEN "down"
    ELSE client[k].phase

LifeThread(k) ==
    IF ~Made(k) THEN "running"
    ELSE IF client[k].thread \in {"panicked", "failed"} THEN "crashed"
    ELSE client[k].thread

LifeCall(k) ==
    IF ~Made(k) THEN "none"
    ELSE CASE client[k].close \in {"idle", "tested"} -> "none"
           [] client[k].close \in {"sent", "joining"} -> "closing"
           [] client[k].close \in {"freed", "joined"} -> "done"
           [] OTHER -> "panicked"

Conn == 1 .. MaxClients

Life == INSTANCE ClientLife WITH
          phase  <- [k \in Conn |-> LifePhase(k)],
          thread <- [k \in Conn |-> LifeThread(k)],
          call   <- [k \in Conn |-> LifeCall(k)]

\* Whatever is connected, closed and refused on the sockets in the meantime, each
\* connection lives as if it were alone: dtp_close answers 1 for a closed one only,
\* and when it has joined, it is the connection's own thread that has ended.
ImplementsLife == Life!LSpec
=============================================================================
