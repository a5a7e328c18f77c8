---------------------------- MODULE DtpApiProofs ----------------------------
(***************************************************************************)
(* Theorems about DtpApi, for any number of sockets and clients and any    *)
(* outcome of the constructors.  The properties are inductive together     *)
(* with the types: IInv.                                                   *)
(***************************************************************************)
EXTENDS DtpApi, SequenceTheorems, TLAPS

USE DEF TypeOK, vars, serverMaps, registry, has_server, has_client, has_sock_entry


\* Changing one field of one client keeps the sequence well formed.
LEMMA ClientExcept ==
    ASSUME TypeOK, NEW k \in DOMAIN client, NEW q \in Client,
           client' = [client EXCEPT ![k] = q]
    PROVE  /\ client' \in Seq(Client)
           /\ DOMAIN client' = DOMAIN client
           /\ client'[k] = q
           /\ \A m \in DOMAIN client : m # k => client'[m] = client[m]
  <1>1. DOMAIN client = 1 .. Len(client)
    BY LenProperties
  <1> QED
    BY <1>1, ExceptSeq

\* A client has the fields of Client, and its index is not 0.
LEMMA ClientElement ==
    ASSUME TypeOK, NEW k \in DOMAIN client
    PROVE  client[k] \in Client /\ k \in Nat \ {0}
  BY LenProperties, ElementOfSeq

\* What a step of dtp_close, of a loop or of a connection does to the clients:
\* it changes one of them, and never its socket.
ClientStep(k, q) ==
    /\ q \in Client
    /\ q.sock = client[k].sock
    /\ client' = [client EXCEPT ![k] = q]

\* A step on client k that leaves the registry alone keeps the invariant, if
\* what dtp_close relies on is still true of k.
LEMMA OneClient ==
    ASSUME IInv, NEW k \in DOMAIN client, NEW q, ClientStep(k, q), UNCHANGED registry,
           q.taken = client[k].taken,
           q.close \in {"idle", "tested", "sent"} =>
               client[k].close \in {"idle", "tested", "sent"},
           q.close \in {"joining", "joined"} => client[k].close \in {"joining", "joined"}
    PROVE  IInv'
  <1> USE DEF IInv, ClientStep
  <1>1. /\ client' \in Seq(Client)
        /\ DOMAIN client' = DOMAIN client
        /\ client'[k] = q
        /\ \A m \in DOMAIN client : m # k => client'[m] = client[m]
    BY ClientExcept
  <1>2. TypeOK' /\ InUseHasSocket' /\ ServerTablesAgree' /\ FreshFds'
    BY <1>1 DEF InUseHasSocket, ServerTablesAgree, FreshFds
  <1>3. CloseJoinsItsThread'
    BY <1>1 DEF CloseJoinsItsThread
  <1> QED
    BY <1>2, <1>3

-----------------------------------------------------------------------------
(* The calls that hold the registry *)

\* The calls that do not touch the clients.
LEMMA RegistryCalls ==
    ASSUME IInv, NEW fd \in Fd,
           dtp_socket \/ dtp_socket_close(fd) \/ dtp_bind(fd) \/ dtp_listen(fd)
    PROVE  IInv'
  <1> USE DEF IInv, Fd
  <1>0. UNCHANGED <<client, client_handles>>
    BY DEF dtp_socket, dtp_socket_close, dtp_bind, dtp_listen
  <1>1. CloseJoinsItsThread'
    BY <1>0 DEF CloseJoinsItsThread
  <1>2. CASE dtp_socket
    <2>1. TypeOK'
      BY <1>2, ApiAssumption DEF dtp_socket, SockState
    <2>2. /\ next_fd \in Fd /\ next_fd' = next_fd + 1
          /\ sock_map' = [sock_map EXCEPT ![next_fd] = "none"]
          /\ sock_map[next_fd] = "absent"
          /\ UNCHANGED serverMaps
      BY <1>2, ApiAssumption DEF dtp_socket, FreshFds
    <2>3. InUseHasSocket'
      BY <1>0, <2>2 DEF InUseHasSocket
    <2>4. ServerTablesAgree' /\ FreshFds'
      BY <2>2 DEF ServerTablesAgree, FreshFds
    <2> QED
      BY <1>1, <2>1, <2>3, <2>4
  <1>3. CASE dtp_socket_close(fd)
    BY <1>0, <1>1, <1>3 DEF dtp_socket_close, InUseHasSocket, ServerTablesAgree, SockState, FreshFds
  <1>4. CASE dtp_bind(fd)
    BY <1>0, <1>1, <1>4 DEF dtp_bind, InUseHasSocket, ServerTablesAgree, SockState, FreshFds
  <1>5. CASE dtp_listen(fd)
    BY <1>0, <1>1, <1>5 DEF dtp_listen, InUseHasSocket, ServerTablesAgree, FreshFds
  <1> QED
    BY <1>2, <1>3, <1>4, <1>5

\* dtp_connect registers a thread where there is none.
LEMMA ConnectCall ==
    ASSUME IInv, NEW fd \in Fd, dtp_connect(fd)
    PROVE  IInv'
  <1> USE DEF IInv
  <1>1. CASE UNCHANGED <<client, client_handles, sock_map>>
    BY <1>1 DEF dtp_connect, InUseHasSocket, ServerTablesAgree, CloseJoinsItsThread,
                FreshFds
  <1>2. CASE /\ client' = Append(client, NewClient(fd))
             /\ client_handles' = [client_handles EXCEPT ![fd] = Len(client) + 1]
             /\ sock_map' = [sock_map EXCEPT ![fd] = "socket"]
             /\ UNCHANGED poisoned
    <2>1. NewClient(fd) \in Client /\ NewClient(fd).sock = fd /\ NewClient(fd).close = "idle"
      BY DEF NewClient, Client, ConnPhase, ThreadState, ClosePc
    <2>2. /\ client' \in Seq(Client)
          /\ Len(client) + 1 \in Nat \ {0}
          /\ DOMAIN client' = DOMAIN client \cup {Len(client) + 1}
          /\ Len(client) + 1 \notin DOMAIN client
          /\ client'[Len(client) + 1] = NewClient(fd)
          /\ \A k \in DOMAIN client : client'[k] = client[k]
      BY <1>2, <2>1, AppendProperties, LenProperties
    <2>3. client_handles[fd] = 0 /\ sock_map[fd] # "absent" /\ UNCHANGED <<next_fd, serverMaps>>
      BY DEF dtp_connect
    <2>4. TypeOK' /\ InUseHasSocket' /\ ServerTablesAgree' /\ FreshFds'
      BY <1>2, <2>2, <2>3 DEF InUseHasSocket, ServerTablesAgree, SockState, FreshFds
    <2>5. ASSUME NEW k \in DOMAIN client, client[k].close \in {"idle", "tested", "sent"}
          PROVE  client[k].sock # fd
      BY <2>3, <2>5, ClientElement DEF CloseJoinsItsThread
    <2>6. ASSUME NEW k \in DOMAIN client
          PROVE  /\ client'[k].close \in {"idle", "tested", "sent"}
                      => client_handles'[client'[k].sock] = k
                 /\ client'[k].close \in {"joining", "joined"} => client'[k].taken = k
      <3>1. client[k].sock \in Fd
        BY ClientElement DEF Client
      <3> QED
        BY <1>2, <2>2, <2>5, <3>1 DEF CloseJoinsItsThread
    <2>7. CloseJoinsItsThread'
      BY <1>2, <2>1, <2>2, <2>6 DEF CloseJoinsItsThread
    <2> QED
      BY <2>4, <2>7
  <1> QED
    BY <1>1, <1>2 DEF dtp_connect

-----------------------------------------------------------------------------
(* dtp_close, the loops and the connections *)

\* The steps of a client that leave the registry alone.
LEMMA ClientCalls ==
    ASSUME IInv, NEW k \in DOMAIN client,
           \/ CloseFree(k) \/ CloseTest(k) \/ CloseRefuse(k) \/ CloseSend(k)
           \/ CloseJoin(k) \/ CloseTouchPoisoned(k) \/ ConnEvent(k) \/ ThreadEnd(k)
    PROVE  IInv'
  <1> DEFINE c == client[k]
  <1> USE DEF IInv, Client, ConnPhase, ThreadState, ClosePc
  <1>1. client[k] \in Client
    BY ClientElement
  <1>2. ASSUME NEW v \in {"freed", "tested", "idle", "poisoned", "panicked", "joined"},
               client' = [client EXCEPT ![k].close = v],
               UNCHANGED registry,
               v \in {"tested", "idle"} => client[k].close \in {"idle", "tested"},
               v = "joined" => client[k].close = "joining"
        PROVE  IInv'
    <2> DEFINE q == [c EXCEPT !.close = v]
    <2>1. q \in Client /\ q.sock = c.sock /\ q.taken = c.taken /\ q.close = v
      BY <1>1
    <2>2. client' = [client EXCEPT ![k] = q]
      BY <1>2
    <2> HIDE DEF q
    <2>3. ClientStep(k, q)
      BY <2>1, <2>2 DEF ClientStep
    <2> QED
      BY <1>2, <2>1, <2>3, OneClient
  <1>3. ASSUME NEW v \in ConnPhase, client' = [client EXCEPT ![k].phase = v],
               UNCHANGED registry
        PROVE  IInv'
    <2> DEFINE q == [c EXCEPT !.phase = v]
    <2>1. q \in Client /\ q.sock = c.sock /\ q.taken = c.taken /\ q.close = c.close
      BY <1>1
    <2>2. client' = [client EXCEPT ![k] = q]
      BY <1>3
    <2> HIDE DEF q
    <2> QED
      BY <1>3, <2>1, <2>2, OneClient DEF ClientStep
  <1>4. ASSUME NEW v \in ThreadState, client' = [client EXCEPT ![k].thread = v],
               UNCHANGED registry
        PROVE  IInv'
    <2> DEFINE q == [c EXCEPT !.thread = v]
    <2>1. q \in Client /\ q.sock = c.sock /\ q.taken = c.taken /\ q.close = c.close
      BY <1>1
    <2>2. client' = [client EXCEPT ![k] = q]
      BY <1>4
    <2> HIDE DEF q
    <2> QED
      BY <1>4, <2>1, <2>2, OneClient DEF ClientStep
  <1>5. ASSUME client[k].close = "tested", UNCHANGED registry,
               client' = [client EXCEPT ![k].phase = "closing", ![k].close = "sent"]
        PROVE  IInv'
    <2> DEFINE q == [c EXCEPT !.phase = "closing", !.close = "sent"]
    <2>1. q \in Client /\ q.sock = c.sock /\ q.taken = c.taken /\ q.close = "sent"
      BY <1>1
    <2>2. client' = [client EXCEPT ![k] = q]
      BY <1>5
    <2> HIDE DEF q
    <2> QED
      BY <1>5, <2>1, <2>2, OneClient DEF ClientStep
  <1>6. CASE CloseFree(k) \/ CloseTest(k) \/ CloseRefuse(k) \/ CloseTouchPoisoned(k)
    BY <1>2, <1>6 DEF CloseFree, CloseTest, CloseRefuse, CloseTouchPoisoned
  <1>7. CASE CloseSend(k)
    BY <1>2, <1>5, <1>7 DEF CloseSend
  <1>8. CASE CloseJoin(k)
    BY <1>2, <1>8 DEF CloseJoin
  <1>9. CASE ConnEvent(k)
    BY <1>3, <1>9 DEF ConnEvent
  <1>10. CASE ThreadEnd(k)
    BY <1>4, <1>10 DEF ThreadEnd
  <1> QED
    BY <1>6, <1>7, <1>8, <1>9, <1>10

\* dtp_close takes the handle of its own thread.
LEMMA TakeHandleCall ==
    ASSUME IInv, NEW k \in DOMAIN client, CloseTakeHandle(k)
    PROVE  IInv'
  <1> USE DEF IInv
  <1> DEFINE fd == client[k].sock
  <1>1. client[k] \in Client /\ k \in Nat \ {0} /\ fd \in Fd
    BY ClientElement DEF Client
  <1>2. client_handles[fd] = k /\ client[k].close = "sent"
    BY DEF CloseTakeHandle, CloseJoinsItsThread
  <1>3. PICK q \in Client :
           /\ client' = [client EXCEPT ![k] = q]
           /\ q.sock = fd
           /\ q.close \in {"joining", "panicked"}
           /\ q.close = "joining" => q.taken = k
    <2> DEFINE q1 == [client[k] EXCEPT !.close = "joining", !.taken = k]
               q2 == [client[k] EXCEPT !.close = "panicked"]
    <2>1. /\ q1 \in Client /\ q1.sock = fd /\ q1.close = "joining" /\ q1.taken = k
          /\ q2 \in Client /\ q2.sock = fd /\ q2.close = "panicked"
      BY <1>1 DEF Client, ClosePc
    <2>2. \/ client' = [client EXCEPT ![k] = q1]
          \/ client' = [client EXCEPT ![k] = q2]
      BY <1>2 DEF CloseTakeHandle
    <2> HIDE DEF q1, q2
    <2> QED
      BY <2>1, <2>2
  <1>4. /\ \/ client_handles' = [client_handles EXCEPT ![fd] = 0]
           \/ UNCHANGED client_handles
        /\ poisoned' \in BOOLEAN
        /\ UNCHANGED <<next_fd, sock_map, serverMaps>>
    BY DEF CloseTakeHandle
  <1>5. /\ client' \in Seq(Client)
        /\ DOMAIN client' = DOMAIN client
        /\ client'[k] = q
        /\ \A m \in DOMAIN client : m # k => client'[m] = client[m]
    BY <1>3, ClientExcept
  <1> HIDE DEF fd
  <1>6. client_handles' \in [Fd -> Nat]
        /\ \A f \in Fd : f # fd => client_handles'[f] = client_handles[f]
        /\ client_handles'[fd] \in {0, k}
    BY <1>1, <1>2, <1>4
  <1>7. TypeOK' /\ ServerTablesAgree' /\ FreshFds'
    BY <1>4, <1>5, <1>6 DEF ServerTablesAgree, FreshFds
  <1>8. InUseHasSocket'
    BY <1>1, <1>2, <1>4, <1>6 DEF InUseHasSocket
  <1>9. CloseJoinsItsThread'
    <2>1. ASSUME NEW m \in DOMAIN client, m # k,
                 client[m].close \in {"idle", "tested", "sent"}
          PROVE  client_handles'[client[m].sock] = m
      <3>1. client[m].sock \in Fd /\ client_handles[client[m].sock] = m
        BY <2>1, ClientElement DEF CloseJoinsItsThread, Client
      <3> QED
        BY <1>2, <1>6, <2>1, <3>1
    <2>2. ASSUME NEW m \in DOMAIN client'
          PROVE  /\ client'[m].close \in {"idle", "tested", "sent"}
                      => client_handles'[client'[m].sock] = m
                 /\ client'[m].close \in {"joining", "joined"} => client'[m].taken = m
      BY <1>3, <1>5, <2>1 DEF CloseJoinsItsThread
    <2> QED
      BY <2>2 DEF CloseJoinsItsThread
  <1> QED
    BY <1>7, <1>8, <1>9

-----------------------------------------------------------------------------
(* The theorems *)

\* IInv is inductive.
THEOREM Invariant == Spec => []IInv
  <1>1. Init => IInv
    <2> SUFFICES ASSUME Init PROVE IInv
      OBVIOUS
    <2>1. TypeOK
      BY EmptySeq DEF Init, SockState
    <2>2. CloseJoinsItsThread
      BY DEF Init, CloseJoinsItsThread
    <2>3. InUseHasSocket /\ ServerTablesAgree /\ FreshFds
      BY DEF Init, InUseHasSocket, ServerTablesAgree, FreshFds
    <2> QED
      BY <2>1, <2>2, <2>3 DEF IInv
  <1>2. IInv /\ [Next]_vars => IInv'
    <2> SUFFICES ASSUME IInv, [Next]_vars PROVE IInv'
      OBVIOUS
    <2>1. CASE dtp_socket
      <3>1. PICK fd : fd \in Fd
        BY <2>1, ApiAssumption DEF dtp_socket, Fd, IInv
      <3> QED
        BY <2>1, <3>1, RegistryCalls
    <2>2. ASSUME NEW fd \in Fd,
                 dtp_socket_close(fd) \/ dtp_bind(fd) \/ dtp_listen(fd) \/ dtp_connect(fd)
          PROVE  IInv'
      BY <2>2, RegistryCalls, ConnectCall
    <2>3. ASSUME NEW k \in DOMAIN client, CloseStep(k) \/ ConnEvent(k) \/ ThreadEnd(k)
          PROVE  IInv'
      BY <2>3, ClientCalls, TakeHandleCall DEF CloseStep
    <2>4. CASE UNCHANGED vars
      BY <2>4 DEF IInv, InUseHasSocket, ServerTablesAgree,
                      CloseJoinsItsThread, FreshFds
    <2> QED
      BY <2>1, <2>2, <2>3, <2>4 DEF Next
  <1> QED
    BY <1>1, <1>2, PTL DEF Spec

\* dtp_close joins the thread of the connection it closes, and the registry
\* always holds the handle it is going to unwrap (ffi.rs 546-551).
THEOREM CloseJoins == Spec => []CloseJoinsItsThread
  <1>1. IInv => CloseJoinsItsThread
    BY DEF IInv
  <1> QED
    BY <1>1, Invariant, PTL

\* No call can take away the entry of a socket in use (ffi.rs 122-129), and no
\* server runs twice (ffi.rs 186-195).
THEOREM RegistryConsistent == Spec => []TablesAgree
  <1>1. IInv => TablesAgree
    BY DEF IInv, TablesAgree
  <1> QED
    BY <1>1, Invariant, PTL

\* A socket's entry comes from dtp_socket alone, which takes the next fd, and every
\* call that changes an entry finds it there; so an fd is handed out once
\* (lib.rs 134-145, ffi.rs 104-346).
THEOREM FdsHandedOutOnce == Spec => FdsNeverReused
  <1>1. IInv /\ [Next]_vars =>
            [\A fd \in Fd : fd < next_fd =>
                /\ fd < next_fd'
                /\ sock_map[fd] = "absent" => sock_map'[fd] = "absent"]_vars
    <2> SUFFICES ASSUME IInv, Next, NEW fd \in Fd, fd < next_fd
                 PROVE  /\ fd < next_fd'
                        /\ sock_map[fd] = "absent" => sock_map'[fd] = "absent"
      OBVIOUS
    <2> USE DEF IInv
    <2>1. CASE dtp_socket
      BY <2>1, ApiAssumption DEF dtp_socket, Fd
    <2>2. ASSUME NEW g \in Fd, dtp_socket_close(g) \/ dtp_bind(g) \/ dtp_listen(g) \/ dtp_connect(g)
          PROVE  UNCHANGED next_fd /\ (sock_map[fd] = "absent" => sock_map'[fd] = "absent")
      BY <2>2 DEF dtp_socket_close, dtp_bind, dtp_listen, dtp_connect
    <2>3. ASSUME NEW k \in DOMAIN client, CloseStep(k) \/ ConnEvent(k) \/ ThreadEnd(k)
          PROVE  UNCHANGED <<next_fd, sock_map>>
      BY <2>3 DEF CloseStep, CloseFree, CloseTest, CloseRefuse, CloseSend, CloseTakeHandle,
                  CloseJoin, CloseTouchPoisoned, ConnEvent, ThreadEnd
    <2> QED
      BY <2>1, <2>2, <2>3 DEF Next
  <1> QED
    BY <1>1, Invariant, PTL DEF Spec, FdsNeverReused

-----------------------------------------------------------------------------
(* What an answer of 1 means *)

\* CloseIsFinal of one client, and what it rests on: a thread only exits after its
\* connection is closed.
Final(c) ==
    /\ c.close \in {"freed", "joined"} => c.phase \in {"closed", "failed"}
    /\ c.close = "joined" => c.thread = "exited"
    /\ c.thread = "exited" => c.phase \in {"closed", "failed"}

AllFinal == \A k \in DOMAIN client : Final(client[k])

\* One field, or two, of client k change in a way that keeps Final.
LEMMA FinalOne ==
    ASSUME IInv, AllFinal, NEW k \in DOMAIN client, NEW q \in Client,
           client' = [client EXCEPT ![k] = q], Final(q)
    PROVE  AllFinal'
  <1>1. /\ DOMAIN client' = DOMAIN client
        /\ client'[k] = q
        /\ \A m \in DOMAIN client : m # k => client'[m] = client[m]
    BY ClientExcept DEF IInv
  <1> QED
    BY <1>1 DEF AllFinal, Final

\* A step of dtp_close, of a loop or of a connection.
LEMMA FinalClient ==
    ASSUME IInv, AllFinal, NEW k \in DOMAIN client,
           CloseStep(k) \/ ConnEvent(k) \/ ThreadEnd(k)
    PROVE  AllFinal'
  <1> DEFINE c == client[k]
  <1>1. c \in Client /\ Final(c)
    BY ClientElement DEF IInv, AllFinal
  <1> USE DEF Client, ConnPhase, ThreadState, ClosePc, Final, Closed
  <1>2. ASSUME NEW v \in ClosePc, NEW n \in Nat,
               \/ client' = [client EXCEPT ![k].close = v]
               \/ client' = [client EXCEPT ![k].close = v, ![k].taken = n],
               v = "freed" => Closed(k),
               v = "joined" => c.thread = "exited"
        PROVE  AllFinal'
    <2> DEFINE q1 == [c EXCEPT !.close = v]
               q2 == [c EXCEPT !.close = v, !.taken = n]
    <2>1. q1 \in Client /\ Final(q1) /\ q2 \in Client /\ Final(q2)
      BY <1>1, <1>2
    <2>2. client' = [client EXCEPT ![k] = q1] \/ client' = [client EXCEPT ![k] = q2]
      BY <1>2
    <2> HIDE DEF q1, q2, Final
    <2> QED
      BY <2>1, <2>2, FinalOne
  <1>3. ASSUME NEW v \in ConnPhase, client' = [client EXCEPT ![k].phase = v], ~Closed(k)
        PROVE  AllFinal'
    <2> DEFINE q == [c EXCEPT !.phase = v]
    <2>1. q \in Client /\ Final(q) /\ client' = [client EXCEPT ![k] = q]
      BY <1>1, <1>3
    <2> HIDE DEF q, Final
    <2> QED
      BY <2>1, FinalOne
  <1>4. ASSUME NEW v \in ThreadState, client' = [client EXCEPT ![k].thread = v],
               c.thread = "running", v = "exited" => Closed(k)
        PROVE  AllFinal'
    <2> DEFINE q == [c EXCEPT !.thread = v]
    <2>1. q \in Client /\ Final(q) /\ client' = [client EXCEPT ![k] = q]
      BY <1>1, <1>4
    <2> HIDE DEF q, Final
    <2> QED
      BY <2>1, FinalOne
  <1>5. CASE \/ CloseFree(k) \/ CloseTest(k) \/ CloseRefuse(k) \/ CloseTouchPoisoned(k)
    BY <1>2, <1>5 DEF CloseFree, CloseTest, CloseRefuse, CloseTouchPoisoned
  <1>6. CASE CloseSend(k)
    <2>1. CASE c.phase = "open"
      <3> DEFINE q == [c EXCEPT !.phase = "closing", !.close = "sent"]
      <3>1. q \in Client /\ client' = [client EXCEPT ![k] = q]
        BY <1>1, <1>6, <2>1 DEF CloseSend
      <3>2. Final(q)
        BY <1>1, <2>1
      <3> HIDE DEF q, Final
      <3> QED
        BY <3>1, <3>2, FinalOne
    <2>2. CASE c.phase # "open"
      BY <1>2, <1>6, <2>2 DEF CloseSend
    <2> QED
      BY <2>1, <2>2
  <1>7. CASE CloseTakeHandle(k)
    <2>1. client_handles[client[k].sock] \in Nat
      BY <1>1 DEF IInv
    <2> QED
      BY <1>2, <1>7, <2>1 DEF CloseTakeHandle
  <1>8. CASE CloseJoin(k)
    <2>1. client[k].taken = k
      BY <1>8 DEF CloseJoin, IInv, CloseJoinsItsThread
    <2> QED
      BY <1>2, <1>8, <2>1 DEF CloseJoin
  <1>9. CASE ConnEvent(k)
    BY <1>3, <1>9 DEF ConnEvent, PhaseChange
  <1>10. CASE ThreadEnd(k)
    BY <1>4, <1>10 DEF ThreadEnd
  <1> QED
    BY <1>5, <1>6, <1>7, <1>8, <1>9, <1>10 DEF CloseStep

\* dtp_close answers 1 only for a closed connection, and when it joined, only after
\* the thread has ended: nothing runs on a DtpConnection that was freed (ffi.rs 516-560).
THEOREM CloseFinal == Spec => []CloseIsFinal
  <1>1. Init => AllFinal
    BY DEF Init, AllFinal
  <1>2. IInv /\ AllFinal /\ [Next]_vars => AllFinal'
    <2> SUFFICES ASSUME IInv, AllFinal, [Next]_vars PROVE AllFinal'
      OBVIOUS
    <2>1. CASE UNCHANGED client
      BY <2>1 DEF AllFinal
    <2>2. ASSUME NEW fd \in Fd, client' = Append(client, NewClient(fd))
          PROVE  AllFinal'
      <3>1. NewClient(fd) \in Client /\ Final(NewClient(fd))
        BY DEF NewClient, Client, ConnPhase, ThreadState, ClosePc, Final
      <3>2. /\ DOMAIN client' = DOMAIN client \cup {Len(client) + 1}
            /\ client'[Len(client) + 1] = NewClient(fd)
            /\ \A k \in DOMAIN client : client'[k] = client[k]
        BY <2>2, <3>1, AppendProperties, LenProperties DEF IInv
      <3> QED
        BY <3>1, <3>2 DEF AllFinal
    <2>3. ASSUME NEW k \in DOMAIN client, CloseStep(k) \/ ConnEvent(k) \/ ThreadEnd(k)
          PROVE  AllFinal'
      BY <2>3, FinalClient
    <2> QED
      BY <2>1, <2>2, <2>3
      DEF Next, dtp_socket, dtp_socket_close, dtp_bind, dtp_listen, dtp_connect
  <1>3. AllFinal => CloseIsFinal
    BY DEF AllFinal, Final, CloseIsFinal, Closed
  <1> QED
    BY <1>1, <1>2, <1>3, Invariant, PTL DEF Spec

-----------------------------------------------------------------------------
(* The refinement of ClientLife *)

\* No more clients than connections.
Bounded == DOMAIN client \subseteq Conn

\* What a client is in ClientLife.
P(c) == IF c.phase \in {"closing", "draining"} THEN "down" ELSE c.phase
T(c) == IF c.thread \in {"panicked", "failed"} THEN "crashed" ELSE c.thread
C(c) ==
    CASE c.close \in {"idle", "tested"} -> "none"
      [] c.close \in {"sent", "joining"} -> "closing"
      [] c.close \in {"freed", "joined"} -> "done"
      [] OTHER -> "panicked"

phases == [k \in Conn |-> LifePhase(k)]
threads == [k \in Conn |-> LifeThread(k)]
calls == [k \in Conn |-> LifeCall(k)]

\* A step that changes one client changes one connection.
LEMMA OneLife ==
    ASSUME IInv, Bounded, NEW k \in DOMAIN client, NEW q \in Client,
           client' = [client EXCEPT ![k] = q]
    PROVE  /\ k \in Conn /\ Bounded'
           /\ phases[k] = P(client[k]) /\ phases' = [phases EXCEPT ![k] = P(q)]
           /\ threads[k] = T(client[k]) /\ threads' = [threads EXCEPT ![k] = T(q)]
           /\ calls[k] = C(client[k]) /\ calls' = [calls EXCEPT ![k] = C(q)]
  <1>1. /\ DOMAIN client' = DOMAIN client
        /\ client'[k] = q
        /\ \A m \in DOMAIN client : m # k => client'[m] = client[m]
    BY ClientExcept DEF IInv
  <1>2. k \in Conn /\ Bounded'
    BY <1>1 DEF Bounded, Conn
  <1>3. /\ LifePhase(k) = P(client[k]) /\ LifePhase(k)' = P(q)
        /\ LifeThread(k) = T(client[k]) /\ LifeThread(k)' = T(q)
        /\ LifeCall(k) = C(client[k]) /\ LifeCall(k)' = C(q)
    BY <1>1 DEF LifePhase, LifeThread, LifeCall, Made, P, T, C
  <1>4. ASSUME NEW m \in Conn, m # k
        PROVE  /\ LifePhase(m)' = LifePhase(m)
               /\ LifeThread(m)' = LifeThread(m)
               /\ LifeCall(m)' = LifeCall(m)
    BY <1>1, <1>4 DEF LifePhase, LifeThread, LifeCall, Made
  <1>5. UNCHANGED Conn
    BY DEF Conn
  <1> HIDE DEF Conn
  <1> QED
    BY <1>2, <1>3, <1>4, <1>5 DEF phases, threads, calls

\* The changes of one client that ClientLife allows.
LifeChange(c, q) ==
    \/ /\ P(q) = P(c) /\ T(q) = T(c) /\ C(q) = C(c)
    \/ /\ T(q) = T(c) /\ C(q) = C(c) /\ T(c) = "running"
       /\ P(q) \in Life!After[P(c)]
    \/ /\ P(q) = P(c) /\ C(q) = C(c) /\ T(c) = "running"
       /\ T(q) = "crashed" \/ (T(q) = "exited" /\ P(c) \in {"closed", "failed"})
    \/ /\ P(q) = P(c) /\ T(q) = T(c) /\ C(c) = "none" /\ C(q) = "done"
       /\ P(c) \in {"closed", "failed"}
    \/ /\ T(q) = T(c) /\ C(c) = "none" /\ C(q) = "closing"
       /\ P(c) = "open" /\ P(q) = "down"
    \/ /\ P(q) = P(c) /\ T(q) = T(c) /\ C(c) = "closing" /\ C(q) = "done"
       /\ T(c) = "exited"
    \/ /\ P(q) = P(c) /\ T(q) = T(c) /\ C(q) = "panicked"
       /\ \/ C(c) = "closing"
          \/ C(c) = "none" /\ (T(c) = "crashed" \/ P(c) \in {"down", "closed"})

\* They are its steps.
LEMMA ChangeMaps ==
    ASSUME IInv, Bounded, NEW k \in DOMAIN client, NEW q \in Client,
           client' = [client EXCEPT ![k] = q], LifeChange(client[k], q)
    PROVE  Bounded' /\ [Life!LNext]_Life!lvars
  <1> DEFINE c == client[k]
  <1>1. /\ k \in Conn /\ Bounded'
        /\ phases[k] = P(c) /\ phases' = [phases EXCEPT ![k] = P(q)]
        /\ threads[k] = T(c) /\ threads' = [threads EXCEPT ![k] = T(q)]
        /\ calls[k] = C(c) /\ calls' = [calls EXCEPT ![k] = C(q)]
    BY OneLife
  <1>2. /\ P(q) = P(c) => UNCHANGED phases
        /\ T(q) = T(c) => UNCHANGED threads
        /\ C(q) = C(c) => UNCHANGED calls
    <2>1. /\ phases = [m \in Conn |-> phases[m]]
          /\ threads = [m \in Conn |-> threads[m]]
          /\ calls = [m \in Conn |-> calls[m]]
      BY DEF phases, threads, calls
    <2> QED
      BY <1>1, <2>1
  <1> HIDE DEF c, P, T, C
  <1>3. CASE P(q) = P(c) /\ T(q) = T(c) /\ C(q) = C(c)
    BY <1>1, <1>2, <1>3 DEF Life!lvars, phases, threads, calls
  <1>4. CASE /\ T(q) = T(c) /\ C(q) = C(c) /\ T(c) = "running"
             /\ P(q) \in Life!After[P(c)]
    <2>1. Life!Move(k)
      BY <1>1, <1>2, <1>4 DEF Life!Move, phases, threads, calls
    <2> QED
      BY <1>1, <2>1 DEF Life!LNext
  <1>5. CASE P(q) = P(c) /\ C(q) = C(c) /\ T(c) = "running" /\ T(q) = "crashed"
    <2>1. Life!Crash(k)
      BY <1>1, <1>2, <1>5 DEF Life!Crash, phases, threads, calls
    <2> QED
      BY <1>1, <2>1 DEF Life!LNext
  <1>6. CASE /\ P(q) = P(c) /\ C(q) = C(c) /\ T(c) = "running"
             /\ T(q) = "exited" /\ P(c) \in {"closed", "failed"}
    <2>1. Life!Exit(k)
      BY <1>1, <1>2, <1>6 DEF Life!Exit, Life!Over, phases, threads, calls
    <2> QED
      BY <1>1, <2>1 DEF Life!LNext
  <1>7. CASE /\ P(q) = P(c) /\ T(q) = T(c) /\ C(c) = "none" /\ C(q) = "done"
             /\ P(c) \in {"closed", "failed"}
    <2>1. Life!Free(k)
      BY <1>1, <1>2, <1>7 DEF Life!Free, Life!Over, phases, threads, calls
    <2> QED
      BY <1>1, <2>1 DEF Life!LNext
  <1>8. CASE /\ T(q) = T(c) /\ C(c) = "none" /\ C(q) = "closing"
             /\ P(c) = "open" /\ P(q) = "down"
    <2>1. Life!Close(k)
      BY <1>1, <1>2, <1>8 DEF Life!Close, phases, threads, calls
    <2> QED
      BY <1>1, <2>1 DEF Life!LNext
  <1>9. CASE /\ P(q) = P(c) /\ T(q) = T(c) /\ C(c) = "closing" /\ C(q) = "done"
             /\ T(c) = "exited"
    <2>1. Life!Join(k)
      BY <1>1, <1>2, <1>9 DEF Life!Join, phases, threads, calls
    <2> QED
      BY <1>1, <2>1 DEF Life!LNext
  <1>10. CASE /\ P(q) = P(c) /\ T(q) = T(c) /\ C(q) = "panicked"
              /\ \/ C(c) = "closing"
                 \/ C(c) = "none" /\ (T(c) = "crashed" \/ P(c) \in {"down", "closed"})
    <2>1. Life!Panic(k)
      BY <1>1, <1>2, <1>10 DEF Life!Panic, phases, threads, calls
    <2> QED
      BY <1>1, <2>1 DEF Life!LNext
  <1> QED
    BY <1>1, <1>3, <1>4, <1>5, <1>6, <1>7, <1>8, <1>9, <1>10 DEF LifeChange, c

\* Every step of dtp_close, of a loop or of a connection is one of them.
LEMMA LifeClient ==
    ASSUME IInv, Bounded, NEW k \in DOMAIN client,
           CloseStep(k) \/ ConnEvent(k) \/ ThreadEnd(k)
    PROVE  Bounded' /\ [Life!LNext]_Life!lvars
  <1> DEFINE c == client[k]
  <1>1. c \in Client
    BY ClientElement DEF IInv
  <1> USE DEF Client, ConnPhase, ThreadState, ClosePc, P, T, C, Closed
  <1>2. ASSUME NEW v \in ClosePc, NEW n \in Nat,
               \/ client' = [client EXCEPT ![k].close = v]
               \/ client' = [client EXCEPT ![k].close = v, ![k].taken = n],
               LifeChange(c, [c EXCEPT !.close = v])
        PROVE  Bounded' /\ [Life!LNext]_Life!lvars
    <2> DEFINE q1 == [c EXCEPT !.close = v]
               q2 == [c EXCEPT !.close = v, !.taken = n]
    <2>1. q1 \in Client /\ q2 \in Client /\ P(q1) = P(q2) /\ T(q1) = T(q2) /\ C(q1) = C(q2)
      BY <1>1
    <2>2. client' = [client EXCEPT ![k] = q1] \/ client' = [client EXCEPT ![k] = q2]
      BY <1>2
    <2> HIDE DEF q2, P, T, C
    <2>3. LifeChange(c, q1) /\ LifeChange(c, q2)
      BY <1>2, <2>1 DEF LifeChange
    <2> HIDE DEF q1
    <2> QED
      BY <2>1, <2>2, <2>3, ChangeMaps
  <1>3. CASE CloseFree(k)
    <2>1. LifeChange(c, [c EXCEPT !.close = "freed"])
      BY <1>1, <1>3 DEF CloseFree, LifeChange
    <2> QED
      BY <1>2, <1>3, <2>1 DEF CloseFree
  <1>4. CASE CloseTest(k)
    <2>1. LifeChange(c, [c EXCEPT !.close = "tested"])
      BY <1>1, <1>4 DEF CloseTest, LifeChange
    <2> QED
      BY <1>2, <1>4, <2>1 DEF CloseTest
  <1>5. CASE CloseRefuse(k)
    <2>1. LifeChange(c, [c EXCEPT !.close = "idle"])
      BY <1>1, <1>5 DEF CloseRefuse, LifeChange
    <2> QED
      BY <1>2, <1>5, <2>1 DEF CloseRefuse
  <1>6. CASE CloseSend(k)
    <2>1. CASE c.phase = "open"
      <3> DEFINE q == [c EXCEPT !.phase = "closing", !.close = "sent"]
      <3>1. q \in Client /\ client' = [client EXCEPT ![k] = q]
        BY <1>1, <1>6, <2>1 DEF CloseSend
      <3>2. LifeChange(c, q)
        BY <1>1, <1>6, <2>1 DEF CloseSend, LifeChange
      <3> HIDE DEF q
      <3> QED
        BY <3>1, <3>2, ChangeMaps
    <2>2. CASE c.phase # "open"
      <3>1. LifeChange(c, [c EXCEPT !.close = "poisoned"])
        BY <1>1, <1>6, <2>2 DEF CloseSend, LifeChange
      <3> QED
        BY <1>2, <1>6, <2>2, <3>1 DEF CloseSend
    <2> QED
      BY <2>1, <2>2
  <1>7. CASE CloseTakeHandle(k)
    <2>1. client_handles[client[k].sock] \in Nat
      BY <1>1 DEF IInv
    <2>2. /\ LifeChange(c, [c EXCEPT !.close = "joining"])
          /\ LifeChange(c, [c EXCEPT !.close = "panicked"])
      BY <1>1, <1>7 DEF CloseTakeHandle, LifeChange
    <2> QED
      BY <1>2, <1>7, <2>1, <2>2 DEF CloseTakeHandle
  <1>8. CASE CloseJoin(k)
    <2>1. client[k].taken = k
      BY <1>8 DEF CloseJoin, IInv, CloseJoinsItsThread
    <2>2. /\ c.thread = "exited" => LifeChange(c, [c EXCEPT !.close = "joined"])
          /\ LifeChange(c, [c EXCEPT !.close = "panicked"])
      BY <1>1, <1>8 DEF CloseJoin, LifeChange
    <2> QED
      BY <1>2, <1>8, <2>1, <2>2 DEF CloseJoin
  <1>9. CASE CloseTouchPoisoned(k)
    <2>1. LifeChange(c, [c EXCEPT !.close = "panicked"])
      BY <1>1, <1>9 DEF CloseTouchPoisoned, LifeChange
    <2> QED
      BY <1>2, <1>9, <2>1 DEF CloseTouchPoisoned
  <1>10. CASE ConnEvent(k)
    <2>1. PICK v \in ConnPhase : /\ <<c.phase, v>> \in PhaseChange
                                 /\ client' = [client EXCEPT ![k].phase = v]
      BY <1>10 DEF ConnEvent
    <2> DEFINE q == [c EXCEPT !.phase = v]
    <2>2. q \in Client /\ client' = [client EXCEPT ![k] = q]
      BY <1>1, <2>1
    <2>3. LifeChange(c, q)
      BY <1>1, <1>10, <2>1 DEF ConnEvent, PhaseChange, LifeChange, Life!After
    <2> HIDE DEF q
    <2> QED
      BY <2>2, <2>3, ChangeMaps
  <1>11. CASE ThreadEnd(k)
    <2>1. PICK v \in ThreadState : /\ client' = [client EXCEPT ![k].thread = v]
                                   /\ v = "exited" => Closed(k)
                                   /\ v # "running"
      BY <1>11 DEF ThreadEnd
    <2> DEFINE q == [c EXCEPT !.thread = v]
    <2>2. q \in Client /\ client' = [client EXCEPT ![k] = q]
      BY <1>1, <2>1
    <2>3. LifeChange(c, q)
      BY <1>1, <1>11, <2>1 DEF ThreadEnd, LifeChange
    <2> HIDE DEF q
    <2> QED
      BY <2>2, <2>3, ChangeMaps
  <1> QED
    BY <1>3, <1>4, <1>5, <1>6, <1>7, <1>8, <1>9, <1>10, <1>11 DEF CloseStep

\* The calls on the registry are none of its business; a new client is a connection
\* in its handshake, as it was.
LEMMA LifeOther ==
    ASSUME IInv, Bounded,
           \/ UNCHANGED client
           \/ /\ Len(client) < MaxClients
              /\ \E fd \in Fd : client' = Append(client, NewClient(fd))
    PROVE  Bounded' /\ UNCHANGED Life!lvars
  <1>1. CASE UNCHANGED client
    BY <1>1 DEF Bounded, Conn, Life!lvars, LifePhase, LifeThread, LifeCall, Made
  <1>2. ASSUME NEW fd \in Fd, client' = Append(client, NewClient(fd)), Len(client) < MaxClients
        PROVE  Bounded' /\ UNCHANGED Life!lvars
    <2>1. NewClient(fd) \in Client
      BY DEF NewClient, Client, ConnPhase, ThreadState, ClosePc
    <2>2. /\ Len(client) + 1 \in Conn
          /\ DOMAIN client' = DOMAIN client \cup {Len(client) + 1}
          /\ Len(client) + 1 \notin DOMAIN client
          /\ client'[Len(client) + 1] = NewClient(fd)
          /\ \A k \in DOMAIN client : client'[k] = client[k]
      BY <1>2, <2>1, ApiAssumption, AppendProperties, LenProperties DEF IInv, Conn
    <2>3. ASSUME NEW k \in Conn
          PROVE  UNCHANGED <<LifePhase(k), LifeThread(k), LifeCall(k)>>
      BY <2>2 DEF LifePhase, LifeThread, LifeCall, Made, NewClient
    <2>4. UNCHANGED Conn
      BY DEF Conn
    <2>5. Bounded'
      BY <2>2, <2>4 DEF Bounded
    <2> HIDE DEF Conn, LifePhase, LifeThread, LifeCall
    <2> QED
      BY <2>3, <2>4, <2>5 DEF Life!lvars
  <1> QED
    BY <1>1, <1>2

\* The registry and dtp_close implement ClientLife for all connections at once: each
\* lives as if it were alone, whatever is called for the others (ffi.rs 105-309, 507-560).
THEOREM RegistryImplementsLife == Spec => ImplementsLife
  <1>1. Init => Bounded /\ Life!LInit
    BY DEF Init, Bounded, Life!LInit, LifePhase, LifeThread, LifeCall, Made
  <1>2. IInv /\ Bounded /\ [Next]_vars => Bounded' /\ [Life!LNext]_Life!lvars
    <2> SUFFICES ASSUME IInv, Bounded, [Next]_vars
                 PROVE  Bounded' /\ [Life!LNext]_Life!lvars
      OBVIOUS
    <2>1. CASE UNCHANGED client
      BY <2>1, LifeOther
    <2>2. ASSUME NEW fd \in Fd, dtp_connect(fd)
          PROVE  Bounded' /\ [Life!LNext]_Life!lvars
      BY <2>2, LifeOther DEF dtp_connect
    <2>3. ASSUME NEW k \in DOMAIN client, CloseStep(k) \/ ConnEvent(k) \/ ThreadEnd(k)
          PROVE  Bounded' /\ [Life!LNext]_Life!lvars
      BY <2>3, LifeClient
    <2> QED
      BY <2>1, <2>2, <2>3 DEF Next, dtp_socket, dtp_socket_close, dtp_bind, dtp_listen
  <1> USE DEF ImplementsLife, Life!LSpec
  <1> QED
    BY <1>1, <1>2, Invariant, PTL DEF Spec
=============================================================================
