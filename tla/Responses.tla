----------------------------- MODULE Responses -----------------------------
(***************************************************************************)
(* handle_stream and handle_writable: a handler answers a request on its   *)
(* stream with as much as quiche accepts, then stores the rest, which the  *)
(* loop sends bit by bit when the stream is writable.  Both take the       *)
(* connection's mutex and that of partial_responses; handle_stream takes   *)
(* them one after the other.  Nothing in the repository calls it any more: *)
(* it is modelled as the loop would call it, for requests that came in on  *)
(* an established connection.                                              *)
(***************************************************************************)
EXTENDS SharedConn

CONSTANTS Answers, \* the streams with a request for handle_stream
          BodyLen, \* length of the response
          LogError \* is error! logged?

ASSUME ResponseAssumption ==
    Answers \subseteq Stream /\ BodyLen \in Nat \ {0} /\ LogError \in BOOLEAN

VARIABLES hpc,     \* [Answers -> HandlerPc]
          written, \* [Answers -> Nat]: bytes of the response quiche has accepted
          partial  \* [Answers -> Int]: PartialResponse.written, or Absent

respVars == <<hpc, written, partial>>

HandlerPc == {"send", "store", "wake", "done", "failed", "stuck", "panicked"}
Absent == BodyLen + 1  \* no entry in partial_responses

Write(s) == Accepted(BodyLen - written[s])

\* stream_send of the whole response, fin set.
HandlerSend(s) ==
    /\ hpc[s] = "send" /\ IsEstablished
    /\ CanLock
    /\ s \notin stopped
    /\ written' = [written EXCEPT ![s] = @ + Write(s)]
    /\ pend' = pend + Write(s)
    /\ hpc' = [hpc EXCEPT ![s] = IF written'[s] < BodyLen THEN "store" ELSE "wake"]
    /\ UNCHANGED <<phase, flight, stopped, mutexVars, lpc, todo, woken, partial>>

\* It fails.  The guard in the match's scrutinee is still held when error! locks
\* the connection for its message.
HandlerFails(s) ==
    /\ hpc[s] = "send" /\ IsEstablished
    /\ CanLock
    /\ s \in stopped
    /\ hpc' = [hpc EXCEPT ![s] = IF LogError THEN "stuck" ELSE "failed"]
    /\ stuck' = LogError
    /\ UNCHANGED <<phase, pend, flight, stopped, poisoned, lpc, todo, woken, written, partial>>

\* Mutant: the entry claims that nothing was sent.
HandlerStore_FromStart(s) ==
    /\ hpc[s] = "store"
    /\ partial' = [partial EXCEPT ![s] = 0]
    /\ hpc' = [hpc EXCEPT ![s] = "wake"]
    /\ UNCHANGED <<connVars, written>>

\* The rest is stored, in a critical section of its own.
HandlerStore(s) ==
    /\ hpc[s] = "store"
    /\ partial' = [partial EXCEPT ![s] = written[s]]
    /\ hpc' = [hpc EXCEPT ![s] = "wake"]
    /\ UNCHANGED <<connVars, written>>

\* The loop is woken.  The debug! before it locks the connection, if it is logged:
\* then the handler may be held up here, or panic.
HandlerWake(s) ==
    /\ hpc[s] = "wake"
    /\ woken' = TRUE
    /\ hpc' = [hpc EXCEPT ![s] = "done"]
    /\ UNCHANGED <<phase, pend, flight, stopped, mutexVars, lpc, todo, written, partial>>

HandlerPanics(s) ==
    /\ hpc[s] \in {"send", "wake"}
    /\ poisoned
    /\ hpc' = [hpc EXCEPT ![s] = "panicked"]
    /\ UNCHANGED <<connVars, written, partial>>

HandlerStep(s) ==
    \/ HandlerSend(s) \/ HandlerFails(s) \/ HandlerStore(s) \/ HandlerWake(s)
    \/ HandlerPanics(s)

\* Mutant: an entry is dropped after one more attempt, complete or not.
HandleWritable_Once(s) ==
    /\ lpc = "writable" /\ s \in todo
    /\ CanLock
    /\ todo' = todo \ {s}
    /\ IF s \in Answers /\ partial[s] # Absent
       THEN /\ partial' = [partial EXCEPT ![s] = Absent]
            /\ IF s \in stopped THEN UNCHANGED <<written, pend>>
               ELSE /\ written' = [written EXCEPT ![s] = @ + Write(s)]
                    /\ pend' = pend + Write(s)
       ELSE UNCHANGED <<partial, written, pend>>
    /\ UNCHANGED <<phase, flight, stopped, mutexVars, lpc, woken, hpc>>

\* The loop offers a writable stream: nothing to do without an entry; otherwise
\* more of it is sent, and the entry removed once complete or on an error.
HandleWritable(s) ==
    /\ lpc = "writable" /\ s \in todo
    /\ CanLock
    /\ todo' = todo \ {s}
    /\ IF s \notin Answers \/ partial[s] = Absent
       THEN UNCHANGED <<partial, written, pend>>
       ELSE IF s \in stopped
       THEN partial' = [partial EXCEPT ![s] = Absent] /\ UNCHANGED <<written, pend>>
       ELSE LET n == Accepted(BodyLen - partial[s]) IN
            /\ written' = [written EXCEPT ![s] = @ + n]
            /\ pend' = pend + n
            /\ partial' = [partial EXCEPT ![s] = IF @ + n = BodyLen THEN Absent ELSE @ + n]
    /\ UNCHANGED <<phase, flight, stopped, mutexVars, lpc, woken, hpc>>

RespStep ==
    \/ \E s \in Answers : HandlerStep(s)
    \/ \E s \in Stream : HandleWritable(s)

RespInit ==
    /\ hpc = [s \in Answers |-> "send"]
    /\ written = [s \in Answers |-> 0]
    /\ partial = [s \in Answers |-> Absent]

RespTypeOK ==
    /\ hpc \in [Answers -> HandlerPc]
    /\ written \in [Answers -> 0 .. BodyLen]
    /\ partial \in [Answers -> 0 .. BodyLen + 1]

-----------------------------------------------------------------------------
(* Properties *)

\* What partial_responses says was sent is what quiche has accepted, whoever sent
\* it: no byte of a response is sent twice, none is skipped.
EntryAgrees == \A s \in Answers : partial[s] # Absent => partial[s] = written[s]

\* A handler that is through leaves its response complete or its rest stored: the
\* critical sections between the send and the store lose nothing.
RestIsKept ==
    \A s \in Answers : hpc[s] \in {"wake", "done"} =>
        written[s] = BodyLen \/ partial[s] # Absent \/ s \in stopped

\* As long as packets that acknowledge data keep coming in, what is in
\* partial_responses is sent in full (the comment at server.rs 301-303), unless the
\* stream or the connection fails.
ResponsesComplete ==
    []<>(lpc = "writable" /\ todo = Stream) =>
        \A s \in Answers : hpc[s] = "done" ~> \/ written[s] = BodyLen
                                              \/ s \in stopped \/ phase # "open" \/ stuck
=============================================================================
