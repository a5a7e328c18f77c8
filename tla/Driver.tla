------------------------------- MODULE Driver -------------------------------
(***************************************************************************)
(* The program of src/main.rs: a server and many clients in one process.   *)
(* A client task connects, sends a request, polls for the answer, prints   *)
(* it and closes; a server thread per accepted connection polls for the    *)
(* request, answers, and calls dtp_close until it succeeds.                *)
(*                                                                         *)
(* The client tasks run on tokio's workers and never await: a task keeps   *)
(* its worker until it ends.                                               *)
(*                                                                         *)
(* The API below is what DtpServer, DtpClient and DtpStream show of it.    *)
(* The messages are a few bytes, accepted and handed out as a whole.       *)
(***************************************************************************)
EXTENDS Naturals, FiniteSets

CONSTANTS Client,   \* client tasks (client_num of them)
          Workers,  \* threads of the tokio runtime
          Expiry    \* may connections fail or time out while in use?

ASSUME DriverAssumption ==
    IsFiniteSet(Client) /\ Workers \in Nat \ {0} /\ Expiry \in BOOLEAN

VARIABLES
    main,    \* where main is
    cpc,     \* [Client -> ClientPc]: the client tasks
    spc,     \* [Client -> ServerPc]: the server's thread for each connection
    cphase,  \* [Client -> Phase]: the connection as the client's end sees it
    sphase,  \* [Client -> Phase]: ... and the server's end
    request, \* [Client -> MsgState]
    answer,  \* [Client -> MsgState]
    lost     \* clients whose connection expired at one of its ends

vars == <<main, cpc, spc, cphase, sphase, request, answer, lost>>

ClientPc == {"none", "queued", "send", "recv", "close", "join", "done", "panicked"}
ServerPc == {"none", "recv", "send", "close", "done"}
Phase == {"none", "handshake", "open", "closing", "closed"}
MsgState == {"none", "sent", "arrived", "read"}

Running == {c \in Client : cpc[c] \in {"send", "recv", "close", "join"}}
Ended(c) == cpc[c] \in {"done", "panicked"}
Printed(c) == answer[c] = "read"

-----------------------------------------------------------------------------
(* main *)

Spawn(c) ==
    /\ main = "spawning"
    /\ cpc[c] = "none"
    /\ cpc' = [cpc EXCEPT ![c] = "queued"]
    /\ main' = IF \A d \in Client \ {c} : cpc[d] # "none" THEN "joining" ELSE main
    /\ UNCHANGED <<spc, cphase, sphase, request, answer, lost>>

\* join_all: then main joins the thread that accepts, which never ends.
JoinAll ==
    /\ main = "joining"
    /\ \A c \in Client : Ended(c)
    /\ main' = "serving"
    /\ UNCHANGED <<cpc, spc, cphase, sphase, request, answer, lost>>

-----------------------------------------------------------------------------
(* A client task *)

\* A worker is free for it; dtp_connect (a failing one panics, see DtpApi).
Connect(c) ==
    /\ cpc[c] = "queued"
    /\ Cardinality(Running) < Workers
    /\ cpc' = [cpc EXCEPT ![c] = "send"]
    /\ cphase' = [cphase EXCEPT ![c] = "handshake"]
    /\ UNCHANGED <<main, spc, sphase, request, answer, lost>>

\* Mutant: an answer of -42 is not retried.
ClientSend_NoRetry(c) ==
    /\ cpc[c] = "send"
    /\ request' = [request EXCEPT ![c] = IF cphase[c] = "open" THEN "sent" ELSE @]
    /\ cpc' = [cpc EXCEPT ![c] = "recv"]
    /\ UNCHANGED <<main, spc, cphase, sphase, answer, lost>>

\* dtp_util_send: while the handshake lasts dtp_send answers -42 and is retried;
\* any other error is only logged.
ClientSend(c) ==
    /\ cpc[c] = "send"
    /\ cphase[c] # "handshake"
    /\ request' = [request EXCEPT ![c] = IF cphase[c] = "open" THEN "sent" ELSE @]
    /\ cpc' = [cpc EXCEPT ![c] = "recv"]
    /\ UNCHANGED <<main, spc, cphase, sphase, answer, lost>>

\* dtp_util_recv with something to return.  Otherwise it returns "", be it that
\* nothing came, that the retries are used up or that the connection is closed,
\* and the task polls again.
ClientRecv(c) ==
    /\ cpc[c] = "recv"
    /\ cphase[c] # "closed"
    /\ answer[c] = "arrived"
    /\ answer' = [answer EXCEPT ![c] = "read"]
    /\ cpc' = [cpc EXCEPT ![c] = "close"]
    /\ UNCHANGED <<main, spc, cphase, sphase, request, lost>>

\* dtp_close: free a closed connection; close and join an open one; or panic when
\* it expires between the tests and the close.
ClientClose(c) ==
    /\ cpc[c] = "close"
    /\ \/ /\ cphase[c] = "closed"
          /\ cpc' = [cpc EXCEPT ![c] = "done"]
          /\ UNCHANGED <<cphase, lost>>
       \/ /\ cphase[c] = "open"
          /\ cphase' = [cphase EXCEPT ![c] = "closing"]
          /\ cpc' = [cpc EXCEPT ![c] = "join"]
          /\ UNCHANGED lost
       \/ /\ cphase[c] = "open" /\ Expiry
          /\ cphase' = [cphase EXCEPT ![c] = "closed"]
          /\ cpc' = [cpc EXCEPT ![c] = "panicked"]
          /\ lost' = lost \cup {c}
    /\ UNCHANGED <<main, spc, sphase, request, answer>>

ClientJoin(c) ==
    /\ cpc[c] = "join"
    /\ cphase[c] = "closed"
    /\ cpc' = [cpc EXCEPT ![c] = "done"]
    /\ UNCHANGED <<main, spc, cphase, sphase, request, answer, lost>>

ClientStep(c) ==
    Connect(c) \/ ClientSend(c) \/ ClientRecv(c) \/ ClientClose(c) \/ ClientJoin(c)

-----------------------------------------------------------------------------
(* The server's threads *)

\* The accepting thread takes a connection, established or not, and spawns a
\* thread for it.
Accept(c) ==
    /\ spc[c] = "none"
    /\ sphase[c] # "none"
    /\ spc' = [spc EXCEPT ![c] = "recv"]
    /\ UNCHANGED <<main, cpc, cphase, sphase, request, answer, lost>>

\* Mutant: it does not poll again when nothing has come.
ServerRecv_Empty(c) ==
    /\ spc[c] = "recv"
    /\ request' = [request EXCEPT ![c] = IF @ = "arrived" THEN "read" ELSE @]
    /\ spc' = [spc EXCEPT ![c] = "send"]
    /\ UNCHANGED <<main, cpc, cphase, sphase, answer, lost>>

\* dtp_util_recv, as on the client.
ServerRecv(c) ==
    /\ spc[c] = "recv"
    /\ sphase[c] # "closed"
    /\ request[c] = "arrived"
    /\ request' = [request EXCEPT ![c] = "read"]
    /\ spc' = [spc EXCEPT ![c] = "send"]
    /\ UNCHANGED <<main, cpc, cphase, sphase, answer, lost>>

\* dtp_util_send of the answer, its result ignored.
ServerSend(c) ==
    /\ spc[c] = "send"
    /\ answer' = [answer EXCEPT ![c] = IF sphase[c] = "open" THEN "sent" ELSE @]
    /\ spc' = [spc EXCEPT ![c] = "close"]
    /\ UNCHANGED <<main, cpc, cphase, sphase, request, lost>>

\* Mutant: dtp_close does not insist that the connection is closed.
ServerClose_Open(c) ==
    /\ spc[c] = "close"
    /\ sphase' = [sphase EXCEPT ![c] = "closed"]
    /\ spc' = [spc EXCEPT ![c] = "done"]
    /\ UNCHANGED <<main, cpc, cphase, request, answer, lost>>

\* Mutant: the driver makes do with a -1.
ServerClose_Once(c) ==
    /\ spc[c] = "close"
    /\ spc' = [spc EXCEPT ![c] = IF sphase[c] = "closed" THEN "done" ELSE "none"]
    /\ UNCHANGED <<main, cpc, cphase, sphase, request, answer, lost>>

\* dtp_close, retried for as long as it answers -1.
ServerClose(c) ==
    /\ spc[c] = "close"
    /\ sphase[c] = "closed"
    /\ spc' = [spc EXCEPT ![c] = "done"]
    /\ UNCHANGED <<main, cpc, cphase, sphase, request, answer, lost>>

ServerStep(c) == Accept(c) \/ ServerRecv(c) \/ ServerSend(c) \/ ServerClose(c)

-----------------------------------------------------------------------------
(* The connection between the two loops *)

\* The handshake, one end after the other.
Handshake(c) ==
    /\ cphase[c] \in {"handshake", "open"}
    /\ \/ /\ sphase[c] = "none" /\ cphase[c] = "handshake"
          /\ sphase' = [sphase EXCEPT ![c] = "handshake"]
          /\ UNCHANGED cphase
       \/ /\ sphase[c] = "handshake" /\ cphase[c] = "handshake"
          /\ cphase' = [cphase EXCEPT ![c] = "open"]
          /\ UNCHANGED sphase
       \/ /\ sphase[c] = "handshake" /\ cphase[c] = "open"
          /\ sphase' = [sphase EXCEPT ![c] = "open"]
          /\ UNCHANGED cphase
    /\ UNCHANGED <<main, cpc, spc, request, answer, lost>>

Transfer(c) ==
    /\ cphase[c] = "open" /\ sphase[c] = "open"
    /\ \/ /\ request[c] = "sent"
          /\ request' = [request EXCEPT ![c] = "arrived"]
          /\ UNCHANGED answer
       \/ /\ answer[c] = "sent"
          /\ answer' = [answer EXCEPT ![c] = "arrived"]
          /\ UNCHANGED request
    /\ UNCHANGED <<main, cpc, spc, cphase, sphase, lost>>

\* What follows when an end has gone: the draining timer of the one that closed,
\* the close packet reaching the other or, since that may be lost and an expired
\* connection sends none, the idle timer of the other.
WindUp(c) ==
    /\ \/ /\ \/ cphase[c] = "closing"
             \/ cphase[c] \in {"handshake", "open"} /\ sphase[c] = "closed"
          /\ cphase' = [cphase EXCEPT ![c] = "closed"]
          /\ UNCHANGED sphase
       \/ /\ sphase[c] = "open" /\ cphase[c] = "closing"
          /\ sphase' = [sphase EXCEPT ![c] = "closing"]
          /\ UNCHANGED cphase
       \/ /\ sphase[c] \in {"handshake", "open", "closing"}
          /\ cphase[c] \in {"closing", "closed"}
          /\ sphase' = [sphase EXCEPT ![c] = "closed"]
          /\ UNCHANGED cphase
    /\ UNCHANGED <<main, cpc, spc, request, answer, lost>>

\* A connection in use fails or expires at one end.
Expire(c) ==
    /\ Expiry
    /\ \/ /\ cphase[c] \in {"handshake", "open"}
          /\ cphase' = [cphase EXCEPT ![c] = "closed"]
          /\ UNCHANGED sphase
       \/ /\ sphase[c] \in {"handshake", "open"}
          /\ sphase' = [sphase EXCEPT ![c] = "closed"]
          /\ UNCHANGED cphase
    /\ lost' = lost \cup {c}
    /\ UNCHANGED <<main, cpc, spc, request, answer>>

-----------------------------------------------------------------------------
Init ==
    /\ main = "spawning"
    /\ cpc = [c \in Client |-> "none"] /\ spc = [c \in Client |-> "none"]
    /\ cphase = [c \in Client |-> "none"] /\ sphase = [c \in Client |-> "none"]
    /\ request = [c \in Client |-> "none"] /\ answer = [c \in Client |-> "none"]
    /\ lost = {}

Next ==
    \/ JoinAll
    \/ \E c \in Client : \/ Spawn(c) \/ ClientStep(c) \/ ServerStep(c)
                         \/ Handshake(c) \/ Transfer(c) \/ WindUp(c) \/ Expire(c)

Spec == Init /\ [][Next]_vars

\* Every thread that can go on does, packets arrive in the end and timers run;
\* a queued task gets a worker when there is one.  Nothing makes a connection in
\* use fail, nor a dtp_close panic.
Fair(c) ==
    /\ WF_vars(Spawn(c)) /\ SF_vars(Connect(c))
    /\ WF_vars(ClientStep(c) /\ cpc'[c] # "panicked")
    /\ WF_vars(ServerStep(c))
    /\ WF_vars(Handshake(c)) /\ WF_vars(Transfer(c)) /\ WF_vars(WindUp(c))

AllFair == \A c \in Client : Fair(c)

FairSpec == Spec /\ WF_vars(JoinAll) /\ AllFair

-----------------------------------------------------------------------------
(* Properties *)

TypeOK ==
    /\ main \in {"spawning", "joining", "serving"}
    /\ cpc \in [Client -> ClientPc] /\ spc \in [Client -> ServerPc]
    /\ cphase \in [Client -> Phase] /\ sphase \in [Client -> Phase]
    /\ request \in [Client -> MsgState] /\ answer \in [Client -> MsgState]
    /\ lost \in SUBSET Client

\* No answer is cut off: the server's thread gives its connection back, and the
\* client closes it, only when the client has its answer, unless the connection
\* was lost.
AnswerNotCutOff ==
    \A c \in Client :
        spc[c] = "done" \/ cphase[c] \in {"closing", "closed"} => Printed(c) \/ c \in lost

\* The inductive invariant: an answer exists from the server's send on, a client
\* connects first and goes on to close with the answer only, and the end that goes
\* first, if nothing is lost, is the client's.
ConnInv(c) ==
    /\ cpc[c] \in {"none", "queued"} => cphase[c] = "none"
    /\ answer[c] # "none" => spc[c] \in {"close", "done"}
    /\ cpc[c] \in {"close", "join", "done", "panicked"} => Printed(c)
    /\ spc[c] = "done" => sphase[c] = "closed"
    /\ cphase[c] \in {"closing", "closed"} => Printed(c) \/ c \in lost
    /\ sphase[c] \in {"closing", "closed"} =>
           cphase[c] \in {"closing", "closed"} \/ c \in lost

\* What the threads' waiting rests on: a message that has got somewhere was sent by
\* a connected end, the two ends open and close one after the other, and a thread
\* that is past its answer has sent it or has no connection to send it on.
WaitInv(c) ==
    /\ request[c] # "none" => cpc[c] \in {"recv", "close", "join", "done", "panicked"}
    /\ request[c] \in {"arrived", "read"} => sphase[c] \in {"open", "closing", "closed"}
    /\ spc[c] \in {"send", "close", "done"} => request[c] = "read"
    /\ spc[c] = "close" /\ answer[c] = "none" => sphase[c] \in {"closing", "closed"}
    /\ answer[c] = "read" => cpc[c] \in {"close", "join", "done", "panicked"}
    /\ cpc[c] = "join" => cphase[c] \in {"closing", "closed"}
    /\ cpc[c] \in {"done", "panicked"} => cphase[c] = "closed"
    /\ cphase[c] = "closing" => cpc[c] = "join"
    /\ cpc[c] \in {"recv", "close", "join", "done", "panicked"} =>
           cphase[c] \in {"open", "closing", "closed"}
    /\ sphase[c] # "none" => cphase[c] # "none"
    /\ sphase[c] = "open" => cphase[c] # "handshake"
    /\ sphase[c] = "closing" => cphase[c] \in {"closing", "closed"}
    /\ spc[c] # "none" => sphase[c] # "none"
    /\ cphase[c] = "open" => sphase[c] # "none"
    /\ cpc[c] = "none" => main = "spawning"
    /\ cpc[c] = "send" => cphase[c] # "none"
    /\ cpc[c] = "recv" /\ request[c] = "none" => cphase[c] = "closed"
    /\ request[c] = "read" => spc[c] \in {"send", "close", "done"}

IInv ==
    /\ TypeOK
    /\ \A c \in Client : ConnInv(c) /\ WaitInv(c)
    /\ Cardinality(Running) <= Workers

\* As long as no connection is lost, every client gets its answer and ends, with
\* fewer workers than clients, and so does every thread of the server.
Served(c) == Ended(c) /\ Printed(c) /\ spc[c] = "done"

AllServed ==
    [](lost = {}) => <>(main = "serving" /\ \A c \in Client : Served(c))

\* A thread of the server that has answered gets rid of its connection: what it
\* waits for, polling dtp_close, comes about whatever happens to the client.
ServerThreadsEnd == \A c \in Client : spc[c] = "close" ~> spc[c] = "done"

-----------------------------------------------------------------------------
(* The driver implements Exchange *)

Stage(c) ==
    IF Ended(c) THEN "left"
    ELSE IF Printed(c) THEN "printed"
    ELSE IF answer[c] # "none" THEN "answered"
    ELSE IF request[c] = "read" THEN "heard"
    ELSE IF request[c] # "none" THEN "asked"
    ELSE "quiet"

Xch == INSTANCE Exchange WITH
         stage  <- [c \in Client |-> Stage(c)],
         served <- {c \in Client : spc[c] = "done"},
         joined <- (main = "serving")

\* Every request is read and answered at most once, in this order, whatever connections
\* are lost; a client ends with its answer printed, its connection is given back then at
\* the earliest or when it is lost, and main passes its join_all last.
ImplementsExchange == Xch!XSpec

\* A claim the code does not keep: every client prints its answer or gives up
\* (`500 in all', readme.md 22).
ClientsEnd == \A c \in Client : cpc[c] = "recv" ~> cpc[c] # "recv"
=============================================================================
