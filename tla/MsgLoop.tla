------------------------------ MODULE MsgLoop ------------------------------
(***************************************************************************)
(* recv_msg_loop, a task that works off requests from a bounded channel    *)
(* and answers each through a oneshot channel, and its callers, such as    *)
(* `send' of lib.rs.  A caller unwraps what its channels return.           *)
(***************************************************************************)
EXTENDS SharedConn, Sequences

CONSTANTS Caller,    \* callers, each with one request and a stream of its own
          StreamOf,  \* [Caller -> Stream]
          Chan       \* capacity of the channel

ASSUME MsgAssumption == StreamOf \in [Caller -> Stream] /\ Chan \in Nat \ {0}

VARIABLES queue, \* Seq(Caller): requests waiting in the channel
          mpc,   \* where the task is
          cmd,   \* the request it works on
          reply, \* [Caller -> Reply]
          sentBy \* [Caller -> Nat]: bytes quiche accepted for the caller

msgVars == <<queue, mpc, cmd, reply, sentBy>>

Kind == {"DtpSend", "DtpRecv", "DtpClose"}
Busy == Kind \cup {"send"}
Reply == {"none",     \* not asked yet
          "waiting", "ok", "empty", "err", "retry", "panicked"}

\* tx.send of a request of any kind: the caller waits while the channel is full, and
\* panics when it is shut.
Ask(r) ==
    /\ reply[r] = "none"
    /\ IF mpc = "dead"
       THEN reply' = [reply EXCEPT ![r] = "panicked"] /\ UNCHANGED queue
       ELSE /\ Len(queue) < Chan
            /\ queue' = Append(queue, r)
            /\ reply' = [reply EXCEPT ![r] = "waiting"]
    /\ UNCHANGED <<connVars, mpc, cmd, sentBy>>

\* The kinds are told apart from here on.
Take ==
    /\ mpc = "recv"
    /\ queue # <<>>
    /\ cmd' = Head(queue)
    /\ queue' = Tail(queue)
    /\ mpc' \in Kind
    /\ UNCHANGED <<connVars, reply, sentBy>>

Answer(a) == reply' = [reply EXCEPT ![cmd] = a]

\* Mutant: a request that comes too early is also put back for later.
Check_Requeue ==
    /\ mpc = "DtpSend"
    /\ CanLock
    /\ IF IsEstablished
       THEN mpc' = "send" /\ UNCHANGED <<queue, reply>>
       ELSE mpc' = "wake" /\ Answer("retry") /\ queue' = Append(queue, cmd)
    /\ UNCHANGED <<connVars, cmd, sentBy>>

\* Mutant: the task waits for the handshake.
Check_Waits ==
    /\ mpc = "DtpSend"
    /\ CanLock
    /\ IsEstablished
    /\ mpc' = "send"
    /\ UNCHANGED <<connVars, queue, cmd, reply, sentBy>>

\* DtpSend, first critical section: is the connection established?
Check ==
    /\ mpc = "DtpSend"
    /\ CanLock
    /\ IF IsEstablished
       THEN mpc' = "send" /\ UNCHANGED reply
       ELSE mpc' = "wake" /\ Answer("retry")
    /\ UNCHANGED <<connVars, queue, cmd, sentBy>>

\* Mutant: the outcome of the send is put down to the handshake.
Send_Retry ==
    /\ mpc = "send"
    /\ CanLock
    /\ IF StreamOf[cmd] \in stopped
       THEN Answer("err") /\ UNCHANGED <<pend, sentBy>>
       ELSE /\ Answer(IF phase = "open" THEN "ok" ELSE "retry")
            /\ pend' = pend + Accepted(1)
            /\ sentBy' = [sentBy EXCEPT ![cmd] = Accepted(1)]
    /\ mpc' = "wake"
    /\ UNCHANGED <<phase, flight, stopped, mutexVars, lpc, todo, woken, queue, cmd>>

\* ... second critical section.  It does not ask whether the connection is closed.
Send ==
    /\ mpc = "send"
    /\ CanLock
    /\ IF StreamOf[cmd] \in stopped
       THEN Answer("err") /\ UNCHANGED <<pend, sentBy>>
       ELSE /\ Answer(IF Accepted(1) = 1 THEN "ok" ELSE "empty")
            /\ pend' = pend + Accepted(1)
            /\ sentBy' = [sentBy EXCEPT ![cmd] = Accepted(1)]
    /\ mpc' = "wake"
    /\ UNCHANGED <<phase, flight, stopped, mutexVars, lpc, todo, woken, queue, cmd>>

\* DtpRecv: the buffer is an empty slice of a vector with capacity only, so there
\* is never anything in the answer.
Recv ==
    /\ mpc = "DtpRecv"
    /\ CanLock
    /\ \E a \in {"empty", "err"} : Answer(a)
    /\ mpc' = "wake"
    /\ UNCHANGED <<connVars, queue, cmd, sentBy>>

\* DtpClose; quiche answers Done when the connection is already going down.
Close ==
    /\ mpc = "DtpClose"
    /\ CanLock
    /\ IF phase \in {"handshake", "open"}
       THEN phase' = GoingDown /\ Answer("ok")
       ELSE UNCHANGED phase /\ Answer("err")
    /\ mpc' = "wake"
    /\ UNCHANGED <<pend, flight, stopped, mutexVars, lpc, todo, woken>>
    /\ UNCHANGED <<queue, cmd, sentBy>>

Wake ==
    /\ mpc = "wake"
    /\ woken' = TRUE
    /\ mpc' = "recv"
    /\ UNCHANGED <<phase, pend, flight, stopped, mutexVars, lpc, todo>>
    /\ UNCHANGED <<queue, cmd, reply, sentBy>>

\* The mutex is poisoned: the task panics, its channels are dropped, and whoever
\* waits for an answer unwraps an error.
Die ==
    /\ mpc \in Busy
    /\ poisoned
    /\ mpc' = "dead"
    /\ queue' = <<>>
    /\ reply' = [r \in Caller |-> IF reply[r] = "waiting" THEN "panicked" ELSE reply[r]]
    /\ UNCHANGED <<connVars, cmd, sentBy>>

TaskStep == Take \/ Check \/ Send \/ Recv \/ Close \/ Wake \/ Die

MsgStep == TaskStep \/ \E r \in Caller : Ask(r)

MsgInit ==
    /\ queue = <<>> /\ mpc = "recv"
    /\ cmd \in Caller
    /\ reply = [r \in Caller |-> "none"]
    /\ sentBy = [r \in Caller |-> 0]

MsgTypeOK ==
    /\ queue \in Seq(Caller) /\ Len(queue) <= Chan
    /\ mpc \in {"recv", "wake", "dead"} \cup Busy
    /\ cmd \in Caller
    /\ reply \in [Caller -> Reply]
    /\ sentBy \in [Caller -> {0, 1}]

-----------------------------------------------------------------------------
(* Properties *)

\* A request is in one place: in the channel, in the hands of the task, answered,
\* or given up; its caller waits exactly as long as it is in one of the first two.
OneReply ==
    \A r \in Caller :
        /\ reply[r] = "waiting" <=> \/ \E i \in DOMAIN queue : queue[i] = r
                                    \/ mpc \in Busy /\ cmd = r
        /\ \A i, j \in DOMAIN queue : queue[i] = queue[j] => i = j

\* The request the task works on is no longer in the channel, nothing is sent for a
\* caller before it has its answer, and a channel that is shut is empty.
RequestInv ==
    /\ mpc \in Busy => \A i \in DOMAIN queue : queue[i] # cmd
    /\ mpc = "dead" => queue = <<>>
    /\ \A r \in Caller : reply[r] \in {"none", "waiting"} => sentBy[r] = 0

\* A caller that is told to retry, or that nothing was accepted, can send again
\* without sending twice, whatever happens between the two critical sections.
RetryIsSafe ==
    \A r \in Caller : reply[r] \in {"retry", "err", "empty"} => sentBy[r] = 0

\* Every request is answered, or its caller panics; none waits for ever, unless
\* the connection's mutex is never given back.
RequestsAnswered ==
    \A r \in Caller : reply[r] = "waiting" ~> reply[r] # "waiting" \/ stuck
=============================================================================
