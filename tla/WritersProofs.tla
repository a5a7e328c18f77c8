--------------------------- MODULE WritersProofs ---------------------------
(***************************************************************************)
(* Theorems about module Writers: for any streams, window, body, callers   *)
(* and capacity of the channel.                                            *)
(***************************************************************************)
EXTENDS Writers, TLAPS

\* Accepted never takes more than it is given, nor more than there is room for.
LEMMA AcceptedBounds ==
    ASSUME ConnTypeOK, NEW n \in Nat
    PROVE  /\ Accepted(n) \in 0 .. n
           /\ pend + Accepted(n) + flight <= Window
           /\ pend + Accepted(n) \in Nat
<1>1. Window \in Nat /\ pend \in Nat /\ flight \in Nat /\ pend + flight <= Window
      BY ConnAssumption DEF ConnTypeOK
<1>2. Room \in Nat /\ pend + Room + flight = Window BY <1>1 DEF Room
<1> QED BY <1>1, <1>2 DEF Accepted, Least

\* The invariant holds at the start.
LEMMA InitIInv == Init => IInv
<1> SUFFICES ASSUME Init PROVE IInv OBVIOUS
<1> USE DEF Init
<1>1. ConnTypeOK
  <2>1. Window \in Nat BY ConnAssumption
  <2>2. pend = 0 /\ flight = 0 BY DEF ConnInit
  <2>3. pend \in Nat /\ flight \in Nat /\ pend + flight <= Window BY <2>1, <2>2
  <2>4. poisoned = FALSE /\ stuck = FALSE /\ woken = FALSE BY DEF ConnInit
  <2> QED BY <2>3, <2>4 DEF ConnInit, ConnTypeOK, Phase
<1>2. RespInv
      BY ResponseAssumption
      DEF RespInit, RespInv, RespTypeOK, EntryInv, EntryAgrees, RestIsKept, HandlerPc, Absent
<1>3. MsgInv
  <2>1. MsgTypeOK BY MsgAssumption DEF MsgInit, MsgTypeOK, Reply
  <2>2. OneReply BY DEF MsgInit, OneReply, Busy, Kind
  <2>3. RequestInv /\ RetryIsSafe BY DEF MsgInit, RequestInv, RetryIsSafe, Busy, Kind
  <2> QED BY <2>1, <2>2, <2>3 DEF MsgInv
<1> QED BY <1>1, <1>2, <1>3 DEF IInv

\* A packet that acknowledges data leaves the window kept.
LEMMA Lowered ==
    ASSUME NEW a \in Nat, NEW b \in Nat, NEW c \in Nat, NEW d \in Nat,
           a + b <= d, c <= b
    PROVE  a + c <= d
  OBVIOUS

\* The loop alone leaves both writers' state as it is; streams only get stopped.
LEMMA LoopIInv ==
    ASSUME IInv, Loop PROVE IInv'
<1>0. ConnTypeOK /\ RespInv /\ MsgInv BY DEF IInv
<1>1. UNCHANGED <<respVars, msgVars>> BY DEF Loop
<1>2. ConnTypeOK' /\ stopped \subseteq stopped'
  <2> USE <1>0 DEF ConnTypeOK, Phase, mutexVars
  <2>0. Window \in Nat BY ConnAssumption
  <2>1. CASE LoopPacket
    <3>1. phase' \in Phase BY <2>1 DEF LoopPacket, GoingDown
    <3>2. /\ flight' \in 0 .. flight
          /\ stopped \subseteq stopped' /\ stopped' \in SUBSET Stream
      BY <2>1 DEF LoopPacket
    <3>3. /\ lpc' = "writable" /\ todo' \in SUBSET Stream
          /\ UNCHANGED <<pend, mutexVars, woken>>
      BY <2>1 DEF LoopPacket
    <3>4. pend' = pend BY <3>3
    <3> HIDE DEF Phase
    <3>5. pend \in Nat /\ flight \in Nat /\ pend + flight <= Window OBVIOUS
    <3> HIDE DEF ConnTypeOK
    <3>6. flight' \in Nat /\ pend' + flight' <= Window
      <4>1. flight' \in 0 .. flight BY <3>2
      <4>2. flight' \in Nat /\ flight' <= flight BY <3>5, <4>1
      <4> QED BY <2>0, <3>4, <3>5, <4>2, Lowered
    <3> USE DEF ConnTypeOK
    <3> QED BY <3>1, <3>2, <3>3, <3>4, <3>6
  <2>2. CASE LoopWake BY <2>2 DEF LoopWake
  <2>3. CASE LoopOffered BY <2>3 DEF LoopOffered
  <2>4. CASE LoopWrite
    <3>1. /\ pend' \in Nat /\ flight' \in Nat /\ pend' + flight' <= Window
      <4>1. CASE flight' = flight + pend /\ pend' = 0 BY <2>0, <4>1
      <4>2. CASE UNCHANGED <<flight, pend>> BY <4>2
      <4> QED BY <2>4, <4>1, <4>2 DEF LoopWrite
    <3> QED BY <2>4, <3>1 DEF LoopWrite
  <2>5. CASE LoopTimer BY <2>5 DEF LoopTimer
  <2>6. CASE LoopDies BY <2>6 DEF LoopDies
  <2> QED BY <2>1, <2>2, <2>3, <2>4, <2>5, <2>6 DEF Loop, LoopStep
<1>3. RespInv'
      BY <1>0, <1>1, <1>2
      DEF RespInv, RespTypeOK, EntryInv, EntryAgrees, RestIsKept, respVars
<1>4. MsgInv'
      BY <1>0, <1>1
      DEF MsgInv, MsgTypeOK, OneReply, RequestInv, RetryIsSafe, msgVars
<1> QED BY <1>2, <1>3, <1>4 DEF IInv

-----------------------------------------------------------------------------
(* handle_stream and handle_writable *)

\* What a handler sends is in `written', what it stores agrees with it.
LEMMA HandlerIInv ==
    ASSUME NEW s \in Answers, IInv, Handler(s) PROVE IInv'
<1>0. /\ ConnTypeOK /\ RespInv /\ MsgInv /\ s \in Stream /\ BodyLen \in Nat \ {0}
      /\ Absent = BodyLen + 1
      BY ResponseAssumption DEF IInv, Absent
<1>1. MsgInv'
      BY <1>0 DEF Handler, MsgInv, MsgTypeOK, OneReply, RequestInv, RetryIsSafe, msgVars
<1> USE DEF RespInv, RespTypeOK, EntryInv, EntryAgrees, RestIsKept, HandlerPc
<1>2. CASE HandlerSend(s)
  <2>1. written[s] \in 0 .. BodyLen BY <1>0
  <2>2. BodyLen - written[s] \in Nat BY <1>0, <2>1
  <2>3. /\ Write(s) \in 0 .. BodyLen - written[s]
        /\ pend + Write(s) + flight <= Window /\ pend + Write(s) \in Nat
        BY <1>0, <2>2, AcceptedBounds DEF Write
  <2>4. ConnTypeOK' BY <1>0, <1>2, <2>3 DEF HandlerSend, ConnTypeOK, mutexVars
  <2>5. written[s] + Write(s) \in 0 .. BodyLen BY <1>0, <2>1, <2>3
  <2>6. RespInv'
    <3>1. written' = [written EXCEPT ![s] = written[s] + Write(s)] BY <1>2 DEF HandlerSend
    <3>2. written' \in [Answers -> 0 .. BodyLen] BY <1>0, <2>5, <3>1
    <3>3. hpc' = [hpc EXCEPT ![s] = IF written'[s] < BodyLen THEN "store" ELSE "wake"]
          /\ hpc[s] = "send" /\ partial' = partial /\ stopped' = stopped
          BY <1>2 DEF HandlerSend
    <3>4. RespTypeOK' BY <1>0, <3>2, <3>3
    <3>5. EntryInv' BY <1>0, <3>1, <3>2, <3>3
    <3>6. EntryAgrees' BY <1>0, <3>1, <3>3
    <3>7. RestIsKept' BY <1>0, <3>1, <3>2, <3>3
    <3> QED BY <3>4, <3>5, <3>6, <3>7
  <2> QED BY <1>1, <2>4, <2>6 DEF IInv
<1>3. CASE HandlerFails(s)
  <2>1. ConnTypeOK' BY <1>0, <1>3, ResponseAssumption DEF HandlerFails, ConnTypeOK
  <2>2. RespInv' BY <1>0, <1>3 DEF HandlerFails
  <2> QED BY <1>1, <2>1, <2>2 DEF IInv
<1>4. CASE HandlerStore(s)
  <2>1. ConnTypeOK' BY <1>0, <1>4 DEF HandlerStore, ConnTypeOK, connVars, mutexVars
  <2>2. RespInv' BY <1>0, <1>4 DEF HandlerStore, connVars
  <2> QED BY <1>1, <2>1, <2>2 DEF IInv
<1>5. CASE HandlerWake(s)
  <2>1. ConnTypeOK' BY <1>0, <1>5 DEF HandlerWake, ConnTypeOK, mutexVars
  <2>2. RespInv' BY <1>0, <1>5 DEF HandlerWake
  <2> QED BY <1>1, <2>1, <2>2 DEF IInv
<1>6. CASE HandlerPanics(s)
  <2>1. ConnTypeOK' BY <1>0, <1>6 DEF HandlerPanics, ConnTypeOK, connVars, mutexVars
  <2>2. RespInv' BY <1>0, <1>6 DEF HandlerPanics, connVars
  <2> QED BY <1>1, <2>1, <2>2 DEF IInv
<1> QED BY <1>2, <1>3, <1>4, <1>5, <1>6 DEF Handler, HandlerStep

\* The loop sends on from where the entry says, and drops the entry when all is sent.
LEMMA OfferIInv ==
    ASSUME NEW s \in Stream, IInv, Offer(s) PROVE IInv'
<1>0. /\ ConnTypeOK /\ RespInv /\ MsgInv /\ BodyLen \in Nat \ {0}
      /\ Absent = BodyLen + 1
      BY ResponseAssumption DEF IInv, Absent
<1>1. MsgInv'
      BY <1>0 DEF Offer, MsgInv, MsgTypeOK, OneReply, RequestInv, RetryIsSafe, msgVars
<1>2. /\ todo' = todo \ {s} /\ hpc' = hpc
      /\ UNCHANGED <<phase, flight, stopped, mutexVars, lpc, woken>>
      BY DEF Offer, HandleWritable
<1> USE DEF RespInv, RespTypeOK, EntryInv, EntryAgrees, RestIsKept, HandlerPc
<1>3. CASE s \notin Answers \/ partial[s] = Absent
  <2>1. UNCHANGED <<partial, written, pend>> BY <1>3 DEF Offer, HandleWritable
  <2>2. ConnTypeOK' BY <1>0, <1>2, <2>1 DEF ConnTypeOK, mutexVars
  <2>3. RespInv' BY <1>0, <1>2, <2>1
  <2> QED BY <1>1, <2>2, <2>3 DEF IInv
<1>4. CASE s \in Answers /\ partial[s] # Absent /\ s \in stopped
  <2>1. partial' = [partial EXCEPT ![s] = Absent] /\ UNCHANGED <<written, pend>>
        BY <1>4 DEF Offer, HandleWritable
  <2>2. ConnTypeOK' BY <1>0, <1>2, <2>1 DEF ConnTypeOK, mutexVars
  <2>3. RespInv' BY <1>0, <1>2, <1>4, <2>1
  <2> QED BY <1>1, <2>2, <2>3 DEF IInv
<1>5. CASE s \in Answers /\ partial[s] # Absent /\ s \notin stopped
  <2> DEFINE n == Accepted(BodyLen - partial[s])
  <2>1. /\ written' = [written EXCEPT ![s] = @ + n]
        /\ pend' = pend + n
        /\ partial' = [partial EXCEPT ![s] = IF @ + n = BodyLen THEN Absent ELSE @ + n]
        BY <1>5 DEF Offer, HandleWritable
  <2>2. partial[s] = written[s] /\ partial[s] \in 0 .. BodyLen /\ BodyLen - partial[s] \in Nat
        BY <1>0, <1>5
  <2>3. /\ n \in 0 .. BodyLen - partial[s]
        /\ pend + n + flight <= Window /\ pend + n \in Nat
        BY <1>0, <2>2, AcceptedBounds
  <2> HIDE DEF n
  <2>4. ConnTypeOK' BY <1>0, <1>2, <2>1, <2>3 DEF ConnTypeOK, mutexVars
  <2>5. /\ written' \in [Answers -> 0 .. BodyLen] /\ partial' \in [Answers -> 0 .. BodyLen + 1]
        /\ written'[s] = written[s] + n
        /\ partial'[s] = IF written'[s] = BodyLen THEN Absent ELSE written'[s]
        /\ \A r \in Answers \ {s} : partial'[r] = partial[r] /\ written'[r] = written[r]
        BY <1>0, <1>5, <2>1, <2>2, <2>3
  <2>6. hpc[s] \notin {"send", "store", "failed", "stuck"} BY <1>0, <1>5
  <2>7. RespTypeOK' BY <1>0, <1>2, <2>5
  <2>8. EntryInv' BY <1>0, <1>2, <2>5, <2>6
  <2>9. EntryAgrees' BY <1>0, <2>5
  <2>10. RestIsKept' BY <1>0, <1>2, <2>5
  <2> QED BY <1>1, <2>4, <2>7, <2>8, <2>9, <2>10 DEF IInv
<1> QED BY <1>3, <1>4, <1>5

-----------------------------------------------------------------------------
(* recv_msg_loop and its callers *)

\* A caller asks: its request is the last in the channel, and there only once.
LEMMA CallIInv ==
    ASSUME NEW r \in Caller, IInv, Call(r) PROVE IInv'
<1>0. ConnTypeOK /\ RespInv /\ MsgInv BY DEF IInv
<1>1. UNCHANGED <<connVars, respVars, mpc, cmd, sentBy>> /\ reply[r] = "none"
      BY DEF Call, Ask
<1>2. ConnTypeOK' BY <1>0, <1>1 DEF ConnTypeOK, connVars, mutexVars
<1>3. RespInv'
      BY <1>0, <1>1
      DEF RespInv, RespTypeOK, EntryInv, EntryAgrees, RestIsKept, respVars, connVars
<1>4. /\ MsgTypeOK /\ OneReply /\ RequestInv /\ RetryIsSafe /\ Chan \in Nat
      BY <1>0, MsgAssumption DEF MsgInv
<1> USE DEF Reply
<1>5. CASE mpc = "dead"
  <2>1. reply' = [reply EXCEPT ![r] = "panicked"] /\ queue' = queue
        BY <1>5 DEF Call, Ask
  <2>2. MsgTypeOK' BY <1>1, <1>4, <2>1 DEF MsgTypeOK
  <2>3. OneReply'
    <3>1. \A i \in DOMAIN queue : queue[i] # r BY <1>1, <1>4 DEF OneReply
    <3> QED BY <1>1, <1>4, <2>1, <3>1 DEF OneReply, MsgTypeOK
  <2>4. RequestInv' /\ RetryIsSafe'
        BY <1>1, <1>4, <2>1 DEF RequestInv, RetryIsSafe, MsgTypeOK
  <2> QED BY <1>2, <1>3, <2>2, <2>3, <2>4 DEF IInv, MsgInv
<1>6. CASE mpc # "dead"
  <2>1. /\ Len(queue) < Chan /\ queue' = Append(queue, r)
        /\ reply' = [reply EXCEPT ![r] = "waiting"]
        BY <1>6 DEF Call, Ask
  <2>2. /\ queue \in Seq(Caller) /\ Len(queue) \in Nat
        /\ queue' \in Seq(Caller) /\ Len(queue') = Len(queue) + 1
        /\ DOMAIN queue = 1 .. Len(queue) /\ DOMAIN queue' = 1 .. Len(queue) + 1
        /\ queue'[Len(queue) + 1] = r
        /\ \A i \in DOMAIN queue : queue'[i] = queue[i]
        BY <1>4, <2>1 DEF MsgTypeOK
  <2>3. \A i \in DOMAIN queue' : i \in DOMAIN queue \/ i = Len(queue) + 1
        BY <2>2
  <2>4. \A i \in DOMAIN queue : queue[i] # r BY <1>1, <1>4 DEF OneReply
  <2>5. mpc \in Busy => cmd # r BY <1>1, <1>4 DEF OneReply
  <2>6. MsgTypeOK' BY <1>1, <1>4, <2>1, <2>2 DEF MsgTypeOK
  <2>7. OneReply'
    <3>1. reply'[r] = "waiting" /\ \A q \in Caller \ {r} : reply'[q] = reply[q]
          BY <1>4, <2>1 DEF MsgTypeOK
    <3>2. ASSUME NEW q \in Caller
          PROVE  (\E i \in DOMAIN queue' : queue'[i] = q)
                   <=> q = r \/ \E i \in DOMAIN queue : queue[i] = q
          BY <2>2, <2>3
    <3>3. \A i, j \in DOMAIN queue' : queue'[i] = queue'[j] => i = j
          BY <1>4, <2>2, <2>3, <2>4 DEF OneReply
    <3> QED BY <1>1, <1>4, <2>5, <3>1, <3>2, <3>3 DEF OneReply
  <2>8. RequestInv' /\ RetryIsSafe'
    <3>1. reply'[r] = "waiting" /\ \A q \in Caller \ {r} : reply'[q] = reply[q]
          BY <1>4, <2>1 DEF MsgTypeOK
    <3> QED BY <1>1, <1>4, <1>6, <2>2, <2>3, <2>5, <3>1 DEF RequestInv, RetryIsSafe
  <2> QED BY <1>2, <1>3, <2>6, <2>7, <2>8 DEF IInv, MsgInv
<1> QED BY <1>5, <1>6

\* An answer, with the bytes sent for the caller when there are any, settles the
\* request the task holds and no other.
LEMMA AnswerIInv ==
    ASSUME MsgInv, mpc \in Busy, mpc' \in {"recv", "wake"},
           UNCHANGED <<queue, cmd>>,
           NEW a \in Reply \ {"none", "waiting"}, Answer(a),
           NEW n \in {0, 1}, sentBy' = [sentBy EXCEPT ![cmd] = n],
           a \in {"retry", "err", "empty"} => n = 0
    PROVE  MsgInv'
<1>0. /\ MsgTypeOK /\ OneReply /\ RequestInv /\ RetryIsSafe /\ cmd \in Caller
      BY DEF MsgInv, MsgTypeOK
<1>1. /\ reply'[cmd] = a /\ \A q \in Caller \ {cmd} : reply'[q] = reply[q]
      /\ sentBy'[cmd] = n /\ \A q \in Caller \ {cmd} : sentBy'[q] = sentBy[q]
      BY <1>0 DEF MsgTypeOK, Answer
<1>2. mpc' \notin Busy BY DEF Busy, Kind
<1>3. \A i \in DOMAIN queue : queue[i] # cmd BY <1>0 DEF RequestInv
<1>4. MsgTypeOK' BY <1>0 DEF MsgTypeOK, Answer
<1>5. OneReply' BY <1>0, <1>1, <1>2, <1>3 DEF OneReply
<1>6. RequestInv' BY <1>0, <1>1, <1>2 DEF RequestInv
<1>7. RetryIsSafe' BY <1>0, <1>1 DEF RetryIsSafe
<1> QED BY <1>4, <1>5, <1>6, <1>7 DEF MsgInv

\* A step of the task.  Between its critical sections it holds one request, for
\* which nothing was sent.
LEMMA TaskIInv ==
    ASSUME IInv, Task PROVE IInv'
<1>0. ConnTypeOK /\ RespInv /\ MsgInv /\ UNCHANGED respVars BY DEF IInv, Task
<1>1. /\ MsgTypeOK /\ OneReply /\ RequestInv /\ RetryIsSafe /\ cmd \in Caller
      BY <1>0 DEF MsgInv, MsgTypeOK
<1>2. stopped' = stopped => RespInv'
      BY <1>0 DEF RespInv, RespTypeOK, EntryInv, EntryAgrees, RestIsKept, respVars
<1>3. CASE Take
  <2>1. /\ mpc = "recv" /\ mpc' \in Kind /\ queue # <<>>
        /\ cmd' = Head(queue) /\ queue' = Tail(queue)
        /\ UNCHANGED <<connVars, reply, sentBy>>
        BY <1>3 DEF Take
  <2>2. /\ queue \in Seq(Caller) /\ Len(queue) \in Nat \ {0}
        /\ queue' \in Seq(Caller) /\ Len(queue') = Len(queue) - 1
        /\ DOMAIN queue = 1 .. Len(queue) /\ DOMAIN queue' = 1 .. Len(queue) - 1
        /\ cmd' = queue[1] /\ cmd' \in Caller
        /\ \A i \in DOMAIN queue' : i + 1 \in DOMAIN queue /\ queue'[i] = queue[i + 1]
        BY <1>1, <2>1 DEF MsgTypeOK
  <2>3. ConnTypeOK' /\ RespInv'
        BY <1>0, <1>2, <2>1 DEF ConnTypeOK, connVars, mutexVars
  <2>4. MsgTypeOK' BY <1>1, <2>1, <2>2, MsgAssumption DEF MsgTypeOK, Busy
  <2>5. mpc \notin Busy /\ mpc' \in Busy BY <2>1 DEF Busy, Kind
  <2>6. OneReply'
    <3>1. ASSUME NEW q \in Caller
          PROVE  (\E i \in DOMAIN queue : queue[i] = q)
                   <=> q = cmd' \/ \E i \in DOMAIN queue' : queue'[i] = q
      <4>1. ASSUME NEW i \in DOMAIN queue
            PROVE  i = 1 \/ (i - 1 \in DOMAIN queue' /\ queue'[i - 1] = queue[i])
            BY <2>2
      <4> QED BY <2>2, <4>1
    <3>2. ASSUME NEW i \in DOMAIN queue', NEW j \in DOMAIN queue', queue'[i] = queue'[j]
          PROVE  i = j
      <4>1. /\ i + 1 \in DOMAIN queue /\ j + 1 \in DOMAIN queue
            /\ queue[i + 1] = queue[j + 1]
            BY <2>2, <3>2
      <4>2. i + 1 = j + 1 BY <1>1, <2>2, <4>1 DEF OneReply
      <4>3. i \in Nat /\ j \in Nat BY <2>2
      <4> QED BY <4>2, <4>3
    <3> QED BY <1>1, <2>1, <2>5, <3>1, <3>2 DEF OneReply
  <2>7. RequestInv' /\ RetryIsSafe'
    <3>1. /\ \A i \in DOMAIN queue' : queue'[i] # cmd'
          /\ mpc' # "dead"
          BY <1>1, <2>1, <2>2 DEF OneReply, Kind
    <3> QED BY <1>1, <2>1, <3>1 DEF RequestInv, RetryIsSafe
  <2> QED BY <2>3, <2>4, <2>6, <2>7 DEF IInv, MsgInv
<1>4. CASE Check
  <2>1. ConnTypeOK' /\ RespInv'
        BY <1>0, <1>2, <1>4 DEF Check, ConnTypeOK, connVars, mutexVars
  <2>2. mpc \in Busy BY <1>4 DEF Check, Busy, Kind
  <2>3. CASE IsEstablished
    <3>1. mpc' = "send" /\ UNCHANGED <<queue, cmd, reply, sentBy>> BY <1>4, <2>3 DEF Check
    <3>2. mpc' \in Busy BY <3>1 DEF Busy
    <3>3. MsgInv'
          BY <1>1, <2>2, <3>1, <3>2
          DEF MsgInv, MsgTypeOK, OneReply, RequestInv, RetryIsSafe
    <3> QED BY <2>1, <3>3 DEF IInv
  <2>4. CASE ~IsEstablished
    <3>1. mpc' = "wake" /\ Answer("retry") /\ UNCHANGED <<queue, cmd, sentBy>>
          BY <1>4, <2>4 DEF Check
    <3>2. sentBy[cmd] = 0 BY <1>1, <2>2 DEF OneReply, RequestInv
    <3>3. sentBy' = [sentBy EXCEPT ![cmd] = 0] BY <1>1, <3>1, <3>2 DEF MsgTypeOK
    <3>4. MsgInv' BY <1>0, <2>2, <3>1, <3>3, AnswerIInv DEF Reply
    <3> QED BY <2>1, <3>4 DEF IInv
  <2> QED BY <2>3, <2>4
<1>5. CASE Send
  <2>1. mpc \in Busy /\ mpc' = "wake" /\ UNCHANGED <<queue, cmd>> /\ stopped' = stopped
        BY <1>5 DEF Send, Busy
  <2>2. sentBy[cmd] = 0 BY <1>1, <2>1 DEF OneReply, RequestInv
  <2>3. /\ Accepted(1) \in {0, 1}
        /\ pend + Accepted(1) + flight <= Window /\ pend + Accepted(1) \in Nat
        BY <1>0, AcceptedBounds
  <2>4. CASE StreamOf[cmd] \in stopped
    <3>1. Answer("err") /\ UNCHANGED <<pend, sentBy>> BY <1>5, <2>4 DEF Send
    <3>2. sentBy' = [sentBy EXCEPT ![cmd] = 0] BY <1>1, <2>2, <3>1 DEF MsgTypeOK
    <3>3. MsgInv' BY <1>0, <2>1, <3>1, <3>2, AnswerIInv DEF Reply
    <3>4. ConnTypeOK' BY <1>0, <1>5, <3>1 DEF Send, ConnTypeOK, mutexVars
    <3> QED BY <1>2, <2>1, <3>3, <3>4 DEF IInv
  <2>5. CASE StreamOf[cmd] \notin stopped
    <3>1. /\ Answer(IF Accepted(1) = 1 THEN "ok" ELSE "empty")
          /\ pend' = pend + Accepted(1)
          /\ sentBy' = [sentBy EXCEPT ![cmd] = Accepted(1)]
          BY <1>5, <2>5 DEF Send
    <3>2. MsgInv'
      <4>1. CASE Accepted(1) = 1
        <5>1. (IF Accepted(1) = 1 THEN "ok" ELSE "empty") = "ok" BY <4>1
        <5>2. Answer("ok") BY <3>1, <5>1
        <5>3. sentBy' = [sentBy EXCEPT ![cmd] = 1] BY <3>1, <4>1
        <5> QED BY <1>0, <2>1, <5>2, <5>3, AnswerIInv DEF Reply
      <4>2. CASE Accepted(1) = 0
        <5>1. (IF Accepted(1) = 1 THEN "ok" ELSE "empty") = "empty" BY <4>2
        <5>2. Answer("empty") BY <3>1, <5>1
        <5>3. sentBy' = [sentBy EXCEPT ![cmd] = 0] BY <3>1, <4>2
        <5> QED BY <1>0, <2>1, <5>2, <5>3, AnswerIInv DEF Reply
      <4> QED BY <2>3, <4>1, <4>2
    <3>3. ConnTypeOK' BY <1>0, <1>5, <2>3, <3>1 DEF Send, ConnTypeOK, mutexVars
    <3> QED BY <1>2, <2>1, <3>2, <3>3 DEF IInv
  <2> QED BY <2>4, <2>5
<1>6. CASE Recv
  <2>1. PICK a \in {"empty", "err"} : Answer(a) BY <1>6 DEF Recv
  <2>2. /\ mpc \in Busy /\ mpc' = "wake"
        /\ UNCHANGED <<connVars, queue, cmd, sentBy>>
        BY <1>6 DEF Recv, Busy, Kind
  <2>3. sentBy[cmd] = 0 BY <1>1, <2>2 DEF OneReply, RequestInv
  <2>4. sentBy' = [sentBy EXCEPT ![cmd] = 0] BY <1>1, <2>2, <2>3 DEF MsgTypeOK
  <2>5. MsgInv' BY <1>0, <2>1, <2>2, <2>4, AnswerIInv DEF Reply
  <2>6. ConnTypeOK' /\ RespInv'
        BY <1>0, <1>2, <2>2 DEF ConnTypeOK, connVars, mutexVars
  <2> QED BY <2>5, <2>6 DEF IInv
<1>7. CASE Close
  <2>1. PICK a \in {"ok", "err"} : Answer(a) BY <1>7 DEF Close
  <2>2. /\ mpc \in Busy /\ mpc' = "wake" /\ stopped' = stopped
        /\ UNCHANGED <<queue, cmd, sentBy>>
        BY <1>7 DEF Close, Busy, Kind
  <2>3. sentBy[cmd] = 0 BY <1>1, <2>2 DEF OneReply, RequestInv
  <2>4. sentBy' = [sentBy EXCEPT ![cmd] = 0] BY <1>1, <2>2, <2>3 DEF MsgTypeOK
  <2>5. MsgInv' BY <1>0, <2>1, <2>2, <2>4, AnswerIInv DEF Reply
  <2>6. phase' \in Phase
    BY <1>0, <1>7 DEF Close, GoingDown, ConnTypeOK, Phase
  <2>7. UNCHANGED <<pend, flight, stopped, mutexVars, lpc, todo, woken>>
    BY <1>7 DEF Close
  <2>8. ConnTypeOK' BY <1>0, <2>6, <2>7 DEF ConnTypeOK, mutexVars
  <2> QED BY <1>2, <2>2, <2>5, <2>8 DEF IInv
<1>8. CASE Wake
  <2>1. ConnTypeOK' /\ RespInv' BY <1>0, <1>2, <1>8 DEF Wake, ConnTypeOK, mutexVars
  <2>2. /\ mpc = "wake" /\ mpc' = "recv" /\ UNCHANGED <<queue, cmd, reply, sentBy>>
        BY <1>8 DEF Wake
  <2>3. mpc \notin Busy /\ mpc' \notin Busy BY <2>2 DEF Busy, Kind
  <2>4. MsgInv'
        BY <1>1, <2>2, <2>3 DEF MsgInv, MsgTypeOK, OneReply, RequestInv, RetryIsSafe
  <2> QED BY <2>1, <2>4 DEF IInv
<1>9. CASE Die
  <2>1. ConnTypeOK' /\ RespInv'
        BY <1>0, <1>2, <1>9 DEF Die, ConnTypeOK, connVars, mutexVars
  <2>2. /\ mpc' = "dead" /\ queue' = <<>> /\ UNCHANGED <<cmd, sentBy>>
        /\ reply' = [r \in Caller |-> IF reply[r] = "waiting" THEN "panicked" ELSE reply[r]]
        BY <1>9 DEF Die
  <2>3. mpc' \notin Busy BY <2>2 DEF Busy, Kind
  <2>4. MsgTypeOK' BY <1>1, <2>2, MsgAssumption DEF MsgTypeOK, Reply
  <2>5. OneReply' /\ RequestInv' /\ RetryIsSafe'
        BY <1>1, <2>2, <2>3 DEF OneReply, RequestInv, RetryIsSafe
  <2> QED BY <2>1, <2>4, <2>5 DEF IInv, MsgInv
<1> QED BY <1>3, <1>4, <1>5, <1>6, <1>7, <1>8, <1>9 DEF Task, TaskStep

-----------------------------------------------------------------------------
(* The theorems *)

\* Every step of the two writers and of the loop preserves the invariant.
LEMMA NextIInv == IInv /\ [Next]_vars => IInv'
<1> SUFFICES ASSUME IInv, [Next]_vars PROVE IInv' OBVIOUS
<1>1. CASE UNCHANGED vars
  <2>1. ConnTypeOK' BY <1>1 DEF IInv, ConnTypeOK, vars, connVars, mutexVars
  <2>2. RespInv'
        BY <1>1
        DEF IInv, RespInv, RespTypeOK, EntryInv, EntryAgrees, RestIsKept, vars, respVars,
            connVars
  <2>3. MsgInv'
        BY <1>1
        DEF IInv, MsgInv, MsgTypeOK, OneReply, RequestInv, RetryIsSafe, vars, msgVars
  <2> QED BY <2>1, <2>2, <2>3 DEF IInv
<1> QED BY <1>1, LoopIInv, HandlerIInv, OfferIInv, TaskIInv, CallIInv DEF Next

\* The inductive invariant of the two writers on one connection.
THEOREM WritersInvariant == Spec => []IInv
BY InitIInv, NextIInv, PTL DEF Spec

\* Whoever sends a part of a response, the handler or the loop, the entry in
\* partial_responses says how far it got (server.rs 541-550, 566-596).
THEOREM EntriesAgree == Spec => []EntryAgrees
<1>1. IInv => EntryAgrees BY DEF IInv, RespInv
<1> QED BY <1>1, WritersInvariant, PTL

\* The rest of a response is in partial_responses once its handler is through, in
\* spite of the gap between the send and the store (server.rs 522-550).
THEOREM RestsAreKept == Spec => []RestIsKept
<1>1. IInv => RestIsKept BY DEF IInv, RespInv
<1> QED BY <1>1, WritersInvariant, PTL

\* Each request to recv_msg_loop is in one place and answered once (message.rs 42-98).
THEOREM RequestsAreAnsweredOnce == Spec => []OneReply
<1>1. IInv => OneReply BY DEF IInv, MsgInv
<1> QED BY <1>1, WritersInvariant, PTL

\* A caller told to retry, or that nothing was accepted, has not sent anything
\* (message.rs 51-64, lib.rs 63-87).
THEOREM RetriesAreSafe == Spec => []RetryIsSafe
<1>1. IInv => RetryIsSafe BY DEF IInv, MsgInv
<1> QED BY <1>1, WritersInvariant, PTL

-----------------------------------------------------------------------------
(* The writers implement Sending                                           *)

Overs == {s \in Answers : Over(s)}
Brokens == {s \in Answers : poisoned \/ s \in stopped}

\* The loop breaks streams, and the connection's mutex, for good.
LEMMA LoopSending ==
    ASSUME IInv, Loop PROVE Snd!Break
<1>1. UNCHANGED <<respVars, msgVars>> BY DEF Loop
<1>2. /\ stopped \subseteq stopped'
      /\ poisoned => poisoned'
  <2>1. CASE LoopPacket BY <2>1 DEF LoopPacket, mutexVars
  <2>2. CASE LoopWake \/ LoopOffered \/ LoopTimer \/ LoopDies
        BY <2>2 DEF LoopWake, LoopOffered, LoopTimer, LoopDies, mutexVars
  <2>3. CASE LoopWrite BY <2>3 DEF LoopWrite, CanLock
  <2> QED BY <2>1, <2>2, <2>3 DEF Loop, LoopStep
<1>3. Brokens \subseteq Brokens' /\ Brokens' \subseteq Answers BY <1>2 DEF Brokens
<1>4. UNCHANGED <<written, Overs, reply, sentBy>>
      BY <1>1 DEF respVars, msgVars, Overs, Over
<1> QED BY <1>3, <1>4 DEF Snd!Break, Snd!callPart, Overs, Brokens

\* What a step on one response does to the responses that are over.
LEMMA OverFrame ==
    ASSUME NEW s \in Answers,
           \A q \in Answers : q # s => hpc'[q] = hpc[q] /\ partial'[q] = partial[q]
    PROVE  /\ Over(s)' => Overs' = Overs \cup {s}
           /\ (Over(s)' <=> Over(s)) => Overs' = Overs
<1>1. \A q \in Answers : q # s => (Over(q)' <=> Over(q)) BY DEF Over
<1> QED BY <1>1 DEF Overs

\* A handler extends its response, gives it up when its stream is broken, or is not seen.
LEMMA HandlerSending ==
    ASSUME NEW s \in Answers, IInv, Handler(s)
    PROVE  Snd!Extend(s) \/ Snd!Abandon(s) \/ UNCHANGED Snd!svars
<1>0. /\ RespTypeOK /\ EntryInv /\ EntryAgrees /\ ConnTypeOK /\ BodyLen \in Nat \ {0}
      /\ Absent = BodyLen + 1
      BY ResponseAssumption DEF IInv, RespInv, Absent
<1>1. UNCHANGED <<stopped, poisoned, reply, sentBy>>
  <2>1. UNCHANGED <<reply, sentBy>> BY DEF Handler, msgVars
  <2>2. UNCHANGED <<stopped, poisoned>>
        BY DEF Handler, HandlerStep, HandlerSend, HandlerFails, HandlerStore, HandlerWake,
               HandlerPanics, connVars, mutexVars
  <2> QED BY <2>1, <2>2
<1>2. Brokens' = Brokens BY <1>1 DEF Brokens
<1>3. CASE HandlerSend(s)
  <2>1. /\ hpc[s] = "send" /\ partial' = partial /\ partial[s] = Absent
        /\ written' = [written EXCEPT ![s] = written[s] + Write(s)]
        /\ hpc' = [hpc EXCEPT ![s] = IF written'[s] < BodyLen THEN "store" ELSE "wake"]
        BY <1>0, <1>3 DEF HandlerSend, EntryInv
  <2>2. written[s] + Write(s) \in written[s] .. BodyLen
    <3>1. written[s] \in 0 .. BodyLen /\ BodyLen - written[s] \in Nat
          BY <1>0 DEF RespTypeOK
    <3>2. Write(s) \in 0 .. BodyLen - written[s] BY <1>0, <3>1, AcceptedBounds DEF Write
    <3> QED BY <1>0, <3>1, <3>2
  <2>3. written'[s] = written[s] + Write(s) BY <1>0, <2>1 DEF RespTypeOK
  <2>4. s \notin Overs BY <2>1 DEF Overs, Over
  <2>5. hpc'[s] = IF written'[s] < BodyLen THEN "store" ELSE "wake"
        BY <1>0, <2>1 DEF RespTypeOK
  <2>6. \A q \in Answers : q # s => hpc'[q] = hpc[q] /\ partial'[q] = partial[q]
        BY <1>0, <2>1 DEF RespTypeOK
  <2>7. CASE written'[s] < BodyLen
    <3>1. ~Over(s)' /\ ~Over(s) BY <2>1, <2>5, <2>7 DEF Over
    <3>2. Overs' = Overs BY <2>6, <3>1, OverFrame
    <3> QED BY <1>1, <1>2, <2>1, <2>2, <2>4, <3>2
            DEF Snd!Extend, Snd!callPart, Overs, Brokens
  <2>8. CASE ~(written'[s] < BodyLen)
    <3>1. written[s] + Write(s) = BodyLen
      <4>1. written[s] \in Nat BY <1>0 DEF RespTypeOK
      <4> HIDE DEF Write
      <4> QED BY <1>0, <2>2, <2>3, <2>8, <4>1
    <3>2. Over(s)' BY <2>1, <2>5, <2>8 DEF Over
    <3>3. Overs' = Overs \cup {s} BY <2>6, <3>2, OverFrame
    <3> QED BY <1>1, <1>2, <2>1, <2>2, <2>4, <3>1, <3>3
            DEF Snd!Extend, Snd!callPart, Overs, Brokens
  <2> QED BY <2>7, <2>8
<1>4. CASE HandlerFails(s) \/ (HandlerPanics(s) /\ hpc[s] = "send")
  <2>1. /\ hpc[s] = "send" /\ partial' = partial /\ written' = written
        /\ partial[s] = Absent /\ s \in Brokens
        BY <1>0, <1>4 DEF HandlerFails, HandlerPanics, EntryInv, Brokens
  <2>2. hpc'[s] \in {"failed", "stuck", "panicked"}
        /\ \A q \in Answers : q # s => hpc'[q] = hpc[q]
        BY <1>0, <1>4 DEF HandlerFails, HandlerPanics, RespTypeOK
  <2>3. Over(s)' /\ ~Over(s) BY <2>1, <2>2 DEF Over
  <2>4. Overs' = Overs \cup {s} BY <2>1, <2>2, <2>3, OverFrame
  <2> QED BY <1>1, <1>2, <2>1, <2>3, <2>4
          DEF Snd!Abandon, Snd!callPart, Overs, Brokens
<1>5. CASE HandlerStore(s) \/ HandlerWake(s) \/ (HandlerPanics(s) /\ hpc[s] # "send")
  <2>1. /\ written' = written
        /\ \A q \in Answers : q # s => hpc'[q] = hpc[q] /\ partial'[q] = partial[q]
        /\ \/ hpc[s] = "store" /\ hpc'[s] = "wake" /\ partial'[s] = written[s]
           \/ hpc[s] = "wake" /\ hpc'[s] \in {"done", "panicked"} /\ partial' = partial
        BY <1>0, <1>5 DEF HandlerStore, HandlerWake, HandlerPanics, RespTypeOK
  <2>2. written[s] # Absent BY <1>0 DEF RespTypeOK
  <2>3. Over(s)' <=> Over(s) BY <2>1, <2>2 DEF Over, Absent
  <2>4. Overs' = Overs BY <2>1, <2>3, OverFrame
  <2> QED BY <1>1, <1>2, <2>1, <2>4
          DEF Snd!svars, Snd!respPart, Snd!callPart, Overs, Brokens
<1> QED BY <1>3, <1>4, <1>5 DEF Handler, HandlerStep

\* The loop extends a response that has an entry, or gives it up.
LEMMA OfferSending ==
    ASSUME NEW s \in Stream, IInv, Offer(s)
    PROVE  \/ s \in Answers /\ (Snd!Extend(s) \/ Snd!Abandon(s))
           \/ UNCHANGED Snd!svars
<1>0. /\ RespTypeOK /\ EntryInv /\ EntryAgrees /\ ConnTypeOK /\ BodyLen \in Nat \ {0}
      /\ Absent = BodyLen + 1
      BY ResponseAssumption DEF IInv, RespInv, Absent
<1>1. UNCHANGED <<stopped, poisoned, reply, sentBy, hpc>>
      BY DEF Offer, HandleWritable, msgVars, mutexVars
<1>2. Brokens' = Brokens BY <1>1 DEF Brokens
<1>3. CASE s \notin Answers \/ partial[s] = Absent
  <2>1. UNCHANGED <<partial, written>> BY <1>3 DEF Offer, HandleWritable
  <2>2. Overs' = Overs BY <1>1, <2>1 DEF Overs, Over
  <2> QED BY <1>1, <1>2, <2>1, <2>2
          DEF Snd!svars, Snd!respPart, Snd!callPart, Overs, Brokens
<1>4. CASE s \in Answers /\ partial[s] # Absent
  <2>1. /\ hpc[s] \in {"wake", "done", "panicked"} /\ ~Over(s)
        /\ partial[s] = written[s] /\ written[s] \in 0 .. BodyLen
        BY <1>0, <1>4 DEF EntryInv, EntryAgrees, RespTypeOK, HandlerPc, Over
  <2>2. s \notin Overs BY <2>1 DEF Overs
  <2>3. CASE s \in stopped
    <3>1. partial' = [partial EXCEPT ![s] = Absent] /\ written' = written
          BY <1>4, <2>3 DEF Offer, HandleWritable
    <3>2. Over(s)' /\ \A q \in Answers : q # s => partial'[q] = partial[q]
          BY <1>0, <1>1, <1>4, <2>1, <3>1 DEF Over, RespTypeOK, Absent
    <3>3. Overs' = Overs \cup {s} BY <1>1, <1>4, <3>2, OverFrame
    <3>4. s \in Brokens BY <1>4, <2>3 DEF Brokens
    <3> QED BY <1>1, <1>2, <1>4, <2>2, <3>1, <3>3, <3>4
            DEF Snd!Abandon, Snd!callPart, Overs, Brokens
  <2>4. CASE s \notin stopped
    <3> DEFINE n == Accepted(BodyLen - partial[s])
    <3>1. /\ written' = [written EXCEPT ![s] = written[s] + n]
          /\ partial' = [partial EXCEPT ![s] =
                            IF partial[s] + n = BodyLen THEN Absent ELSE partial[s] + n]
          BY <1>4, <2>4 DEF Offer, HandleWritable
    <3>2. n \in 0 .. BodyLen - written[s]
      <4>1. BodyLen - partial[s] \in Nat BY <1>0, <2>1
      <4>2. n \in 0 .. BodyLen - partial[s] BY <1>0, <4>1, AcceptedBounds
      <4> QED BY <2>1, <4>2
    <3> HIDE DEF n
    <3>3. written[s] + n \in written[s] .. BodyLen BY <1>0, <2>1, <3>2
    <3>4. /\ \A q \in Answers : q # s => partial'[q] = partial[q]
          /\ partial'[s] = IF written[s] + n = BodyLen THEN Absent ELSE written[s] + n
          BY <1>0, <1>4, <2>1, <3>1 DEF RespTypeOK
    <3>5. CASE written[s] + n = BodyLen
      <4>1. Over(s)' BY <1>1, <2>1, <3>4, <3>5 DEF Over, Absent
      <4>2. Overs' = Overs \cup {s} BY <1>1, <1>4, <3>4, <4>1, OverFrame
      <4> QED BY <1>1, <1>2, <1>4, <2>2, <3>1, <3>3, <3>5, <4>2
              DEF Snd!Extend, Snd!callPart, Overs, Brokens
    <3>6. CASE written[s] + n # BodyLen
      <4>1. partial'[s] # Absent BY <1>0, <3>3, <3>4, <3>6
      <4>2. ~Over(s)' BY <1>1, <2>1, <4>1 DEF Over, Absent
      <4>3. Overs' = Overs BY <1>1, <1>4, <2>1, <3>4, <4>2, OverFrame
      <4> QED BY <1>1, <1>2, <1>4, <2>2, <3>1, <3>3, <4>3
              DEF Snd!Extend, Snd!callPart, Overs, Brokens
    <3> QED BY <3>5, <3>6
  <2> QED BY <2>3, <2>4
<1> QED BY <1>3, <1>4

\* The task answers the request in its hands, gives everybody up, or is not seen.
LEMMA TaskSending ==
    ASSUME IInv, Task
    PROVE  \/ Snd!GiveUp
           \/ UNCHANGED Snd!svars
           \/ \E r \in Caller : \/ Snd!Reply(r, "ok", 1)
                                \/ \E a \in {"ok", "empty", "err", "retry"} : Snd!Reply(r, a, 0)
<1>0. /\ MsgTypeOK /\ OneReply /\ RequestInv /\ ConnTypeOK /\ cmd \in Caller
      BY DEF IInv, MsgInv, MsgTypeOK
<1>1. UNCHANGED <<stopped, poisoned, hpc, partial, written>>
      BY DEF Task, TaskStep, Take, Check, Send, Recv, Close, Wake, Die, connVars, mutexVars,
             respVars
<1>2. UNCHANGED <<written, Overs, Brokens>> BY <1>1 DEF Overs, Over, Brokens
<1>3. mpc \in Busy => reply[cmd] = "waiting" /\ sentBy[cmd] = 0
      BY <1>0 DEF OneReply, RequestInv
<1>4. CASE UNCHANGED <<reply, sentBy>>
  BY <1>2, <1>4 DEF Snd!svars, Snd!respPart, Snd!callPart, Overs, Brokens
<1>5. ASSUME NEW a \in {"ok", "empty", "err", "retry"}, NEW n \in {0, 1}, n = 1 => a = "ok",
             mpc \in Busy, Answer(a), sentBy' = [sentBy EXCEPT ![cmd] = n]
      PROVE  \/ Snd!Reply(cmd, "ok", 1)
             \/ \E b \in {"ok", "empty", "err", "retry"} : Snd!Reply(cmd, b, 0)
  <2>1. Snd!Reply(cmd, a, n)
        BY <1>2, <1>3, <1>5 DEF Snd!Reply, Snd!respPart, Answer, Overs, Brokens
  <2> QED BY <1>5, <2>1
<1>6. sentBy' = sentBy /\ mpc \in Busy => sentBy' = [sentBy EXCEPT ![cmd] = 0]
      BY <1>0, <1>3 DEF MsgTypeOK
<1>7. CASE Take \/ Wake BY <1>4, <1>7 DEF Take, Wake
<1>8. CASE Check
  <2>1. mpc \in Busy /\ sentBy' = sentBy BY <1>8 DEF Check, Busy, Kind
  <2>2. CASE IsEstablished BY <1>4, <1>8, <2>1, <2>2 DEF Check
  <2>3. CASE ~IsEstablished
    <3>1. Answer("retry") BY <1>8, <2>3 DEF Check
    <3> QED BY <1>0, <1>5, <1>6, <2>1, <3>1
  <2> QED BY <2>2, <2>3
<1>9. CASE Send
  <2>1. mpc \in Busy BY <1>9 DEF Send, Busy
  <2>2. CASE StreamOf[cmd] \in stopped
    <3>1. Answer("err") /\ sentBy' = sentBy BY <1>9, <2>2 DEF Send
    <3> QED BY <1>0, <1>5, <1>6, <2>1, <3>1
  <2>3. CASE StreamOf[cmd] \notin stopped
    <3> DEFINE n == Accepted(1)
    <3>1. /\ Answer(IF n = 1 THEN "ok" ELSE "empty")
          /\ sentBy' = [sentBy EXCEPT ![cmd] = n]
          BY <1>9, <2>3 DEF Send
    <3>2. n \in {0, 1} BY <1>0, AcceptedBounds
    <3> HIDE DEF n
    <3>3. CASE n = 1
      <4>1. Answer("ok") BY <3>1, <3>3
      <4> QED BY <1>0, <1>5, <2>1, <3>1, <3>2, <4>1
    <3>4. CASE n # 1
      <4>1. Answer("empty") BY <3>1, <3>4
      <4> QED BY <1>0, <1>5, <2>1, <3>1, <3>2, <3>4, <4>1
    <3> QED BY <3>3, <3>4
  <2> QED BY <2>2, <2>3
<1>10. CASE Recv
  <2>1. PICK a \in {"empty", "err"} : Answer(a) BY <1>10 DEF Recv
  <2>2. mpc \in Busy /\ sentBy' = sentBy BY <1>10 DEF Recv, Busy, Kind
  <2> QED BY <1>0, <1>5, <1>6, <2>1, <2>2
<1>11. CASE Close
  <2>1. PICK a \in {"ok", "err"} : Answer(a) BY <1>11 DEF Close
  <2>2. mpc \in Busy /\ sentBy' = sentBy BY <1>11 DEF Close, Busy, Kind
  <2> QED BY <1>0, <1>5, <1>6, <2>1, <2>2
<1>12. CASE Die
  <2>1. /\ sentBy' = sentBy
        /\ reply' = [r \in Caller |-> IF reply[r] = "waiting" THEN "panicked" ELSE reply[r]]
        BY <1>12 DEF Die
  <2> QED BY <1>2, <2>1 DEF Snd!GiveUp, Snd!respPart, Overs, Brokens
<1> QED BY <1>7, <1>8, <1>9, <1>10, <1>11, <1>12 DEF Task, TaskStep

\* A caller asks.
LEMMA CallSending ==
    ASSUME NEW r \in Caller, Call(r) PROVE Snd!Ask(r)
<1>1. UNCHANGED <<stopped, poisoned, hpc, partial, written, sentBy>> /\ reply[r] = "none"
      BY DEF Call, Ask, connVars, mutexVars, respVars
<1>2. UNCHANGED <<written, Overs, Brokens>> BY <1>1 DEF Overs, Over, Brokens
<1>3. \E a \in {"waiting", "panicked"} : reply' = [reply EXCEPT ![r] = a]
      BY DEF Call, Ask
<1> QED BY <1>1, <1>2, <1>3 DEF Snd!Ask, Snd!respPart, Overs, Brokens

\* Every step of the writers is a step of Sending, or is not seen there.
LEMMA SendingStep == IInv /\ [Next]_vars => [Snd!SNext]_(Snd!svars)
<1> SUFFICES ASSUME IInv, [Next]_vars PROVE [Snd!SNext]_(Snd!svars) OBVIOUS
<1>1. CASE Loop BY <1>1, LoopSending DEF Snd!SNext
<1>2. ASSUME NEW s \in Answers, Handler(s) PROVE [Snd!SNext]_(Snd!svars)
      BY <1>2, HandlerSending DEF Snd!SNext
<1>3. ASSUME NEW s \in Stream, Offer(s) PROVE [Snd!SNext]_(Snd!svars)
      BY <1>3, OfferSending DEF Snd!SNext
<1>4. CASE Task BY <1>4, TaskSending DEF Snd!SNext
<1>5. ASSUME NEW r \in Caller, Call(r) PROVE [Snd!SNext]_(Snd!svars)
      BY <1>5, CallSending DEF Snd!SNext
<1>6. CASE UNCHANGED vars
  <2>1. UNCHANGED <<written, reply, sentBy, hpc, partial, stopped, poisoned>>
        BY <1>6 DEF vars, connVars, mutexVars, respVars, msgVars
  <2>2. UNCHANGED <<Overs, Brokens>> BY <2>1 DEF Overs, Over, Brokens
  <2> QED BY <2>1, <2>2 DEF Snd!svars, Snd!respPart, Snd!callPart, Overs, Brokens
<1> QED BY <1>1, <1>2, <1>3, <1>4, <1>5, <1>6 DEF Next

\* The writers implement Sending: a response is sent once from start to end and given up
\* only when its stream or the connection's mutex is broken, and a request is answered
\* once (server.rs 522-596, message.rs 42-98).
THEOREM SendingImplemented == Spec => ImplementsSending
<1>1. Init => Snd!SInit
      BY DEF Init, ConnInit, RespInit, MsgInit, Snd!SInit, Over
<1> QED BY <1>1, SendingStep, WritersInvariant, PTL DEF Spec, ImplementsSending, Snd!SSpec

-----------------------------------------------------------------------------
(* The way of a request                                                    *)

\* A request waits at place i of the channel, or is in the hands of the task; the
\* place ahead of it; and its end.
Waits(r, i) == i \in DOMAIN queue /\ queue[i] = r
InHand(r) == mpc \in Busy /\ cmd = r
Ahead(r, i) == IF i = 1 THEN InHand(r) ELSE Waits(r, i - 1)
Settled(r) == reply[r] # "waiting" \/ stuck

\* The task alone takes requests out of the channel, and moves on.
LEMMA OthersQueue ==
    ASSUME IInv, [Next]_vars, ~Task, NEW r \in Caller, NEW i \in Nat \ {0}
    PROVE  /\ UNCHANGED <<mpc, cmd>>
           /\ Waits(r, i) => Waits(r, i)'
<1>1. MsgTypeOK BY DEF IInv, MsgInv
<1>2. CASE UNCHANGED msgVars BY <1>2 DEF msgVars, Waits
<1>3. ASSUME NEW q \in Caller, Call(q)
      PROVE  UNCHANGED <<mpc, cmd>> /\ (Waits(r, i) => Waits(r, i)')
  <2>1. UNCHANGED <<mpc, cmd>> BY <1>3 DEF Call, Ask
  <2>2. queue' = queue \/ queue' = Append(queue, q) BY <1>3 DEF Call, Ask
  <2>3. queue \in Seq(Caller) BY <1>1 DEF MsgTypeOK
  <2> QED BY <2>1, <2>2, <2>3 DEF Waits
<1> QED BY <1>2, <1>3 DEF Next, Loop, Handler, Offer, vars, msgVars

\* What the task does with a request that waits or that it works on.
LEMMA TaskServes ==
    ASSUME IInv, Task, NEW r \in Caller, NEW i \in Nat \ {0}
    PROVE  /\ mpc = "recv" /\ Waits(r, i) => Ahead(r, i)'
           /\ mpc = "wake" /\ Waits(r, i) => mpc' = "recv" /\ Waits(r, i)'
           /\ mpc \in Busy /\ Waits(r, i) =>
                 \/ mpc = "DtpSend" /\ mpc' = "send" /\ Waits(r, i)'
                 \/ mpc' = "wake" /\ Waits(r, i)'
                 \/ Settled(r)'
           /\ InHand(r) =>
                 \/ mpc = "DtpSend" /\ mpc' = "send" /\ InHand(r)'
                 \/ Settled(r)'
<1>1. MsgTypeOK /\ OneReply BY DEF IInv, MsgInv
<1>2. queue \in Seq(Caller) /\ reply \in [Caller -> Reply] BY <1>1 DEF MsgTypeOK
<1>3. /\ Waits(r, i) => reply[r] = "waiting" BY <1>1 DEF Waits, OneReply
<1>4. CASE Take
  <2>1. /\ mpc = "recv" /\ mpc \notin Busy /\ mpc' \in Busy
        /\ queue # <<>> /\ cmd' = Head(queue) /\ queue' = Tail(queue)
        BY <1>4 DEF Take, Busy, Kind
  <2>2. Waits(r, i) => Ahead(r, i)' BY <1>2, <2>1 DEF Waits, Ahead, InHand
  <2> QED BY <2>1, <2>2 DEF InHand
<1>5. CASE Wake
  <2>1. mpc = "wake" /\ mpc' = "recv" /\ mpc \notin Busy /\ queue' = queue
        BY <1>5 DEF Wake, Busy, Kind
  <2> QED BY <2>1 DEF Waits, InHand
<1>6. CASE Check \/ Send \/ Recv \/ Close
  <2>1. /\ mpc \in Busy /\ UNCHANGED <<queue, cmd>>
        /\ \/ mpc = "DtpSend" /\ mpc' = "send"
           \/ mpc' = "wake" /\ \E a \in Reply \ {"none", "waiting"} : Answer(a)
    <3>1. CASE Check BY <3>1 DEF Check, Busy, Kind, Reply
    <3>2. CASE Send BY <3>2 DEF Send, Busy, Kind, Reply
    <3>3. CASE Recv BY <3>3 DEF Recv, Busy, Kind, Reply
    <3>4. CASE Close BY <3>4 DEF Close, Busy, Kind, Reply
    <3> QED BY <1>6, <3>1, <3>2, <3>3, <3>4
  <2>2. mpc # "recv" /\ mpc # "wake" BY <2>1 DEF Busy, Kind
  <2>3. "send" \in Busy BY DEF Busy
  <2>4. ASSUME NEW a \in Reply \ {"none", "waiting"}, Answer(a), cmd = r PROVE Settled(r)'
        BY <1>2, <2>4 DEF Answer, Settled
  <2> QED BY <2>1, <2>2, <2>3, <2>4 DEF Waits, InHand
<1>7. CASE Die
  <2>1. /\ mpc \in Busy
        /\ reply' = [q \in Caller |-> IF reply[q] = "waiting" THEN "panicked" ELSE reply[q]]
        BY <1>7 DEF Die
  <2>2. Settled(r)' BY <2>1 DEF Settled
  <2>3. mpc # "recv" /\ mpc # "wake" BY <2>1 DEF Busy, Kind
  <2> QED BY <2>2, <2>3
<1> QED BY <1>4, <1>5, <1>6, <1>7 DEF Task, TaskStep

\* The critical sections of a DtpSend, and all the others.
First == mpc = "DtpSend"
Later == mpc \in Busy \ {"DtpSend"}

\* What a step may do to a request at place i ...
Move(r, i) ==
    /\ Waits(r, i) /\ mpc = "recv" => (Waits(r, i) /\ mpc = "recv")' \/ Ahead(r, i)'
    /\ Waits(r, i) /\ mpc = "wake" =>
          (Waits(r, i) /\ mpc = "wake")' \/ (Waits(r, i) /\ mpc = "recv")'
    /\ Waits(r, i) /\ First =>
          (Waits(r, i) /\ (First \/ Later \/ mpc = "wake"))' \/ Settled(r)'
    /\ Waits(r, i) /\ Later =>
          (Waits(r, i) /\ (Later \/ mpc = "wake"))' \/ Settled(r)'
    /\ InHand(r) /\ First => (InHand(r) /\ (First \/ Later))' \/ Settled(r)'
    /\ InHand(r) /\ Later => (InHand(r) /\ Later)' \/ Settled(r)'

\* ... and what a step of the task does.
Leave(r, i) ==
    /\ Waits(r, i) /\ mpc = "recv" => Ahead(r, i)'
    /\ Waits(r, i) /\ mpc = "wake" => (Waits(r, i) /\ mpc = "recv")'
    /\ Waits(r, i) /\ First => (Waits(r, i) /\ (Later \/ mpc = "wake"))' \/ Settled(r)'
    /\ Waits(r, i) /\ Later => (Waits(r, i) /\ mpc = "wake")' \/ Settled(r)'
    /\ InHand(r) /\ First => (InHand(r) /\ Later)' \/ Settled(r)'
    /\ InHand(r) /\ Later => Settled(r)'

\* The task's steps are such steps, and the others leave the request where it is.
LEMMA RequestMoves ==
    ASSUME IInv, [Next]_vars, NEW r \in Caller, NEW i \in Nat \ {0}
    PROVE  Move(r, i) /\ (Task => Leave(r, i))
<1>1. CASE Task
  <2>1. "send" \in Busy /\ "DtpSend" \in Busy /\ "recv" \notin Busy /\ "wake" \notin Busy
        BY DEF Busy, Kind
  <2>2. Leave(r, i) BY <1>1, <2>1, TaskServes DEF Leave, First, Later
  <2>3. Move(r, i) BY <2>2 DEF Leave, Move
  <2> QED BY <2>2, <2>3
<1>2. CASE ~Task
  <2>1. UNCHANGED <<mpc, cmd>> /\ (Waits(r, i) => Waits(r, i)') BY <1>2, OthersQueue
  <2> QED BY <1>2, <2>1 DEF Move, First, Later, InHand
<1> QED BY <1>1, <1>2

\* When the task of recv_msg_loop has something to do.
TaskReady ==
    \/ mpc = "wake"
    \/ mpc = "recv" /\ queue # <<>>
    \/ mpc \in Busy /\ (poisoned \/ ~stuck)

\* Its steps can be taken then, and only then.  This restates the guards of the actions; it
\* is a premise below because ENABLED is opaque to the provers.
NoHiddenWait == TaskReady <=> ENABLED <<Task>>_vars

\* A request that is not settled never finds the task held up.
LEMMA RequestReady ==
    ASSUME IInv, NEW r \in Caller, NEW i \in Nat \ {0}, ~Settled(r)
    PROVE  /\ Waits(r, i) => /\ TaskReady
                             /\ mpc = "recv" \/ mpc = "wake" \/ First \/ Later
           /\ InHand(r) => TaskReady /\ (First \/ Later)
<1>1. MsgTypeOK /\ RequestInv /\ ConnTypeOK BY DEF IInv, MsgInv
<1>2. Waits(r, i) => queue # <<>> BY <1>1 DEF Waits, MsgTypeOK
<1>3. ~stuck BY DEF Settled
<1> QED BY <1>1, <1>2, <1>3
        DEF MsgTypeOK, RequestInv, TaskReady, First, Later, InHand

\* The request that recv_msg_loop works on is answered, or its caller panics, unless the
\* connection's mutex is never given back (message.rs 42-98).
THEOREM RequestInHandIsAnswered ==
    FairSpec /\ []NoHiddenWait => \A r \in Caller : InHand(r) ~> Settled(r)
<1>1. ASSUME NEW r \in Caller
      PROVE  FairSpec /\ []NoHiddenWait => (InHand(r) ~> Settled(r))
  <2>1. IInv /\ [Next]_vars => Move(r, 1) /\ (Task => Leave(r, 1)) BY RequestMoves
  <2>2. IInv /\ ~Settled(r) /\ InHand(r) => TaskReady /\ (First \/ Later)
        BY RequestReady
  <2>3. NoHiddenWait /\ TaskReady => ENABLED <<Task>>_vars BY DEF NoHiddenWait
  <2>4. ~(First /\ Later) BY DEF First, Later
  <2> QED BY <2>1, <2>2, <2>3, <2>4, WritersInvariant, PTL
          DEF FairSpec, Spec, Fairness, Move, Leave
<1> QED BY <1>1

\* A request at any place of the channel moves up to the next one, and from the first into
\* the hands of the task, whatever the others do to the connection.  With
\* RequestInHandIsAnswered, as many applications of it as the channel has places give
\* RequestsAnswered.
THEOREM RequestsMoveUp ==
    FairSpec /\ []NoHiddenWait =>
        \A r \in Caller, i \in Nat \ {0} : Waits(r, i) ~> Ahead(r, i) \/ Settled(r)
<1>1. ASSUME NEW r \in Caller, NEW i \in Nat \ {0}
      PROVE  FairSpec /\ []NoHiddenWait => (Waits(r, i) ~> Ahead(r, i) \/ Settled(r))
  <2>1. IInv /\ [Next]_vars => Move(r, i) /\ (Task => Leave(r, i)) BY RequestMoves
  <2>2. IInv /\ ~Settled(r) /\ Waits(r, i) =>
          TaskReady /\ (mpc = "recv" \/ mpc = "wake" \/ First \/ Later)
        BY RequestReady
  <2>3. NoHiddenWait /\ TaskReady => ENABLED <<Task>>_vars BY DEF NoHiddenWait
  <2>4. ~(First /\ Later) /\ ~(First /\ mpc = "wake") /\ ~(Later /\ mpc = "wake")
        /\ ~(mpc = "recv" /\ mpc = "wake") /\ ~(First /\ mpc = "recv") /\ ~(Later /\ mpc = "recv")
        BY DEF First, Later, Busy, Kind
  <2> QED BY <2>1, <2>2, <2>3, <2>4, WritersInvariant, PTL
          DEF FairSpec, Spec, Fairness, Move, Leave
<1> QED BY <1>1
=============================================================================
