--------------------------- MODULE DtpClientProofs ---------------------------
(***************************************************************************)
(* Theorems about DtpClient, for any number of datagrams and whether or    *)
(* not quiche and the socket may fail.                                     *)
(***************************************************************************)
EXTENDS DtpClient, TLAPS

USE DEF TypeOK, vars, loopVars, connVars, netVars, LoopPc, Phase, ClosePc, Closed

\* A step of the loop keeps the types.
LEMMA LoopTypes ==
    ASSUME IInv, LoopStep
    PROVE  TypeOK'
  <1> USE ClientAssumption DEF IInv
  <1>1. CASE Top
    <2>1. pc' = "poll"
      BY <1>1 DEF Top
    <2>2. armed' = (~Closed)
      BY <1>1 DEF Top
    <2>3. armed' \in BOOLEAN
      BY <2>2
    <2>4. UNCHANGED <<events, gaveUp>>
      BY <1>1 DEF Top
    <2>5. UNCHANGED <<connVars, netVars>>
      BY <1>1 DEF Top
    <2>6. UNCHANGED <<woken, close>>
      BY <1>1 DEF Top
    <2> QED
      BY <2>1, <2>3, <2>4, <2>5, <2>6
  <1>7. CASE PollEvents
    <2>1. pc' = "read" /\ events' = TRUE /\ sockReady' = FALSE /\ woken' = FALSE
      BY <1>7 DEF PollEvents
    <2>2. events' \in BOOLEAN /\ sockReady' \in BOOLEAN /\ woken' \in BOOLEAN
      BY <2>1
    <2>3. UNCHANGED <<armed, gaveUp, connVars>>
      BY <1>7 DEF PollEvents
    <2>4. UNCHANGED <<close, sock, arrived>>
      BY <1>7 DEF PollEvents
    <2> QED
      BY <2>1, <2>2, <2>3, <2>4
  <1>8. CASE PollTimeout
    BY <1>8 DEF PollTimeout
  <1>5. CASE ReadDrained \/ CheckRead \/ CheckWrite
    BY <1>5 DEF ReadDrained, CheckRead, CheckWrite
  <1>6. CASE LoopPanic
    BY <1>6 DEF LoopPanic
  <1>2. ASSUME NEW expired \in BOOLEAN, OnTimeout(expired)
        PROVE  TypeOK'
    <2>1. phase' \in Phase /\ dirty' \in BOOLEAN
      BY <1>2 DEF OnTimeout
    <2>2. /\ pc' \in LoopPc
          /\ UNCHANGED <<armed, events, gaveUp>>
          /\ UNCHANGED <<established, recvd, poisoned, woken, close, netVars>>
      BY <1>2 DEF OnTimeout
    <2> QED
      BY <2>1, <2>2
  <1>3. CASE ReadPacket
    <2>1. sock' \in 0 .. SockCap
      BY <1>3 DEF ReadPacket
    <2>2. /\ phase' \in Phase
          /\ established' \in BOOLEAN /\ recvd' \in BOOLEAN
          /\ dirty' \in BOOLEAN /\ UNCHANGED poisoned
      BY <1>3 DEF ReadPacket, ClosedLocally
    <2> QED
      BY <1>3, <2>1, <2>2 DEF ReadPacket
  <1>4. CASE Write
    <2>1. phase' \in Phase /\ dirty' \in BOOLEAN /\ gaveUp' \in BOOLEAN
      BY <1>4 DEF Write, ClosedLocally
    <2> QED
      BY <1>4, <2>1 DEF Write
  <1> QED
    BY <1>1, <1>2, <1>3, <1>4, <1>5, <1>6, <1>7, <1>8 DEF LoopStep

\* A step of the loop leaves it where the invariant wants it.
LEMMA LoopKeeps ==
    ASSUME IInv, LoopStep
    PROVE  ClosedInv' /\ DirtyInv' /\ UnreadInv' /\ CloseInv'
  <1> USE ClientAssumption DEF IInv, ClosedInv, DirtyInv, UnreadInv, CloseInv
  <1>1. CASE PollEvents \/ PollTimeout
    BY <1>1 DEF PollEvents, PollTimeout
  <1>7. CASE Top
    <2>1. ~Closed /\ pc' = "poll" /\ armed' = TRUE
      BY <1>7 DEF Top
    <2> QED
      BY <1>7, <2>1 DEF Top
  <1>2. ASSUME NEW expired \in BOOLEAN, OnTimeout(expired)
        PROVE  ClosedInv' /\ DirtyInv' /\ UnreadInv' /\ CloseInv'
    BY <1>2 DEF OnTimeout
  <1>3. CASE ReadDrained \/ CheckRead \/ CheckWrite
    BY <1>3 DEF ReadDrained, CheckRead, CheckWrite
  <1>4. CASE ReadPacket
    <2>1. pc = "read" /\ pc' = "read" /\ events /\ events'
      BY <1>4 DEF ReadPacket
    <2>2. close' = close /\ (phase' # phase => phase \in {"handshake", "open"})
      BY <1>4 DEF ReadPacket, ClosedLocally
    <2> QED
      BY <2>1, <2>2
  <1>5. CASE Write
    <2>1. /\ pc = "write" /\ pc' = "check_write" /\ (dirty' => gaveUp')
          /\ UNCHANGED <<sock, sockReady>>
      BY <1>5 DEF Write
    <2>2. close' = close /\ (phase' # phase => phase \in {"handshake", "open"})
      BY <1>5 DEF Write, ClosedLocally
    <2> QED
      BY <2>1, <2>2
  <1>6. CASE LoopPanic
    BY <1>6 DEF LoopPanic
  <1> QED
    BY <1>1, <1>2, <1>3, <1>4, <1>5, <1>6, <1>7 DEF LoopStep

\* So do the application and the network.
LEMMA OthersKeep ==
    ASSUME IInv, DtpSend \/ CloseStep \/ Arrive
    PROVE  IInv'
  <1> USE ClientAssumption DEF IInv, ClosedInv, DirtyInv, UnreadInv, CloseInv
  <1>1. CASE DtpSend
    BY <1>1 DEF DtpSend
  <1>2. CASE CloseFree \/ CloseTest \/ CloseRefuse
    BY <1>2 DEF CloseFree, CloseTest, CloseRefuse
  <1>5. CASE CloseWake
    BY <1>5 DEF CloseWake
  <1>7. CASE CloseTakeHandle
    BY <1>7 DEF CloseTakeHandle
  <1>6. CASE CloseJoin \/ CloseTouchPoisoned
    BY <1>6 DEF CloseJoin, CloseTouchPoisoned
  <1>3. CASE CloseSend
    <2>1. CASE phase = "open"
      BY <1>3, <2>1 DEF CloseSend
    <2>2. CASE phase # "open"
      BY <1>3, <2>2 DEF CloseSend
    <2> QED
      BY <2>1, <2>2
  <1>4. CASE Arrive
    <2>1. sock' \in 0 .. SockCap /\ arrived' \in 0 .. MaxPkts /\ sockReady'
      BY <1>4 DEF Arrive
    <2> QED
      BY <1>4, <2>1 DEF Arrive
  <1> QED
    BY <1>1, <1>2, <1>3, <1>4, <1>5, <1>6, <1>7 DEF CloseStep

\* Every step keeps it.
LEMMA NextIInv ==
    ASSUME IInv, [Next]_vars
    PROVE  IInv'
  <1>1. ASSUME IInv, LoopStep PROVE IInv'
    BY <1>1, LoopTypes, LoopKeeps DEF IInv
  <1>2. ASSUME IInv, UNCHANGED vars PROVE IInv'
    BY <1>2 DEF IInv, ClosedInv, DirtyInv, UnreadInv, CloseInv
  <1> QED
    BY <1>1, <1>2, OthersKeep DEF Next

\* IInv is inductive.
THEOREM Invariant == Spec => []IInv
  <1>1. Init => IInv
    <2> SUFFICES ASSUME Init PROVE IInv
      OBVIOUS
    <2>1. sock \in 0 .. SockCap /\ arrived \in 0 .. MaxPkts
      BY ClientAssumption DEF Init
    <2>2. TypeOK
      BY <2>1 DEF Init
    <2>3. ClosedInv /\ DirtyInv /\ UnreadInv /\ CloseInv
      BY DEF Init, ClosedInv, DirtyInv, UnreadInv, CloseInv
    <2> QED
      BY <2>2, <2>3 DEF IInv
  <1>2. IInv /\ [Next]_vars => IInv'
    BY NextIInv
  <1> QED
    BY <1>1, <1>2, PTL DEF Spec

\* The loop never sleeps over a closed connection, which nothing would wake it from, over
\* something to send without its wake on the way, unless its own write loop gave up and its
\* poll has a timeout (client.rs 119-132), or over a datagram without its event.  Both tests
\* of is_closed (client.rs 93 and 141) are needed for the first.
THEOREM SleepsOverNothing == Spec => []NeverSleepsOverWork
  <1>1. IInv => NeverSleepsOverWork
    BY DEF IInv, ClosedInv, DirtyInv, UnreadInv, NeverSleepsOverWork
  <1> QED
    BY <1>1, Invariant, PTL

-----------------------------------------------------------------------------
(* The refinement of ClientLife *)

\* A connection is established from the moment its handshake completes; its mutex
\* is poisoned by a panic of the loop or of dtp_close.
LifeInv == /\ phase = "handshake" => ~established
           /\ phase = "open" => established
           /\ poisoned => pc = "panicked" \/ close = "panicked"

USE DEF LifePhase, LifeThread, LifeCall

\* What may change while the thread runs: the phase, forwards.
LEMMA MoveMaps ==
    ASSUME LifeThread = "running", UNCHANGED <<LifeThread, LifeCall>>,
           \/ UNCHANGED LifePhase
           \/ LifePhase = "handshake" /\ LifePhase' \in {"open", "failed"}
           \/ LifePhase = "open" /\ LifePhase' \in {"down", "closed"}
           \/ LifePhase = "down" /\ LifePhase' = "closed"
    PROVE  [Life!LNext]_Life!lvars
  <1> HIDE DEF LifePhase, LifeThread, LifeCall
  <1>1. CASE UNCHANGED LifePhase
    BY <1>1 DEF Life!lvars
  <1>2. ASSUME LifePhase' \in Life!After[LifePhase]
        PROVE  Life!Move(1)
    BY <1>2 DEF Life!Move
  <1>3. LifePhase' \in Life!After[LifePhase] \/ UNCHANGED LifePhase
    BY DEF Life!After
  <1> QED
    BY <1>1, <1>2, <1>3 DEF Life!LNext

\* What may change of the thread and of the call.
LEMMA OtherMaps ==
    ASSUME \/ LifeThread = "running" /\ LifeThread' = "crashed" /\ UNCHANGED <<LifePhase, LifeCall>>
           \/ /\ LifeThread = "running" /\ LifeThread' = "exited"
              /\ LifePhase \in {"closed", "failed"} /\ UNCHANGED <<LifePhase, LifeCall>>
           \/ /\ LifeCall = "none" /\ LifeCall' = "done"
              /\ LifePhase \in {"closed", "failed"} /\ UNCHANGED <<LifePhase, LifeThread>>
           \/ /\ LifeCall = "none" /\ LifeCall' = "closing"
              /\ LifePhase = "open" /\ LifePhase' = "down" /\ UNCHANGED LifeThread
           \/ /\ LifeCall = "closing" /\ LifeCall' = "done"
              /\ LifeThread = "exited" /\ UNCHANGED <<LifePhase, LifeThread>>
           \/ /\ LifeCall' = "panicked" /\ UNCHANGED <<LifePhase, LifeThread>>
              /\ \/ LifeCall = "closing"
                 \/ /\ LifeCall = "none"
                    /\ LifeThread = "crashed" \/ LifePhase \in {"down", "closed"}
    PROVE  Life!LNext
  <1> HIDE DEF LifePhase, LifeThread, LifeCall
  <1> USE DEF Life!Over
  <1>1. \/ Life!Exit(1) \/ Life!Crash(1) \/ Life!Free(1)
        \/ Life!Close(1) \/ Life!Join(1) \/ Life!Panic(1)
    BY DEF Life!Exit, Life!Crash, Life!Free, Life!Close, Life!Join, Life!Panic
  <1> QED
    BY <1>1 DEF Life!LNext

\* LifeInv is kept by every step.
LEMMA LifeInvStep ==
    ASSUME IInv, LifeInv, [Next]_vars
    PROVE  LifeInv'
  <1> USE DEF LifeInv
  <1>1. CASE Top \/ PollEvents \/ PollTimeout \/ ReadDrained \/ CheckRead \/ CheckWrite
    BY <1>1 DEF Top, PollEvents, PollTimeout, ReadDrained, CheckRead, CheckWrite
  <1>2. ASSUME NEW expired \in BOOLEAN, OnTimeout(expired) PROVE LifeInv'
    BY <1>2 DEF OnTimeout
  <1>3. CASE ReadPacket
    BY <1>3 DEF ReadPacket, ClosedLocally
  <1>4. CASE Write
    BY <1>4 DEF Write, ClosedLocally
  <1>5. CASE LoopPanic
    BY <1>5 DEF LoopPanic
  <1>6. CASE DtpSend \/ Arrive
    BY <1>6 DEF DtpSend, Arrive
  <1>7. CASE CloseFree \/ CloseTest \/ CloseRefuse \/ CloseSend
    BY <1>7 DEF CloseFree, CloseTest, CloseRefuse, CloseSend
  <1>8. CASE CloseWake \/ CloseTakeHandle \/ CloseJoin \/ CloseTouchPoisoned
    BY <1>8 DEF CloseWake, CloseTakeHandle, CloseJoin, CloseTouchPoisoned
  <1>9. CASE UNCHANGED vars
    BY <1>9
  <1> QED
    BY <1>1, <1>2, <1>3, <1>4, <1>5, <1>6, <1>7, <1>8, <1>9 DEF Next, LoopStep, CloseStep

\* Every step of the loop and of dtp_close is one of ClientLife or a stutter.
LEMMA LifeStep ==
    ASSUME IInv, LifeInv, [Next]_vars
    PROVE  [Life!LNext]_Life!lvars
  <1> USE DEF IInv, LifeInv
  <1>1. CASE Top \/ PollEvents \/ PollTimeout \/ ReadDrained
    <2>1. LifeThread = "running" /\ UNCHANGED <<LifePhase, LifeThread, LifeCall>>
      BY <1>1 DEF Top, PollEvents, PollTimeout, ReadDrained
    <2> QED
      BY <2>1, MoveMaps
  <1>2. ASSUME NEW expired \in BOOLEAN, OnTimeout(expired)
        PROVE  [Life!LNext]_Life!lvars
    <2>1. LifeThread = "running" /\ UNCHANGED <<established, LifeThread, LifeCall>>
      BY <1>2 DEF OnTimeout
    <2>2. UNCHANGED phase \/ phase' = "closed"
      BY <1>2 DEF OnTimeout
    <2> QED
      BY <2>1, <2>2, MoveMaps
  <1>3. CASE ReadPacket
    <2>1. LifeThread = "running" /\ UNCHANGED <<LifeThread, LifeCall>>
      BY <1>3 DEF ReadPacket
    <2>2. \/ UNCHANGED <<phase, established>>
          \/ phase \in {"handshake", "open"} /\ phase' = "open" /\ established'
          \/ phase \in {"handshake", "open"} /\ phase' = "draining" /\ UNCHANGED established
          \/ phase' = ClosedLocally /\ UNCHANGED established
      BY <1>3 DEF ReadPacket
    <2> QED
      BY <2>1, <2>2, MoveMaps DEF ClosedLocally
  <1>4. CASE Write
    <2>1. LifeThread = "running" /\ UNCHANGED <<established, LifeThread, LifeCall>>
      BY <1>4 DEF Write
    <2>2. UNCHANGED phase \/ phase' = ClosedLocally
      BY <1>4 DEF Write
    <2> QED
      BY <2>1, <2>2, MoveMaps DEF ClosedLocally
  <1>5. CASE CheckRead \/ CheckWrite
    <2>1. LifeThread = "running" /\ UNCHANGED <<LifePhase, LifeCall>>
      BY <1>5 DEF CheckRead, CheckWrite
    <2>2. IF Closed THEN LifeThread' = "exited" ELSE UNCHANGED LifeThread
      BY <1>5 DEF CheckRead, CheckWrite
    <2>3. Closed => LifePhase = "closed" \/ LifePhase = "failed"
      OBVIOUS
    <2>4. CASE Closed
      BY <2>1, <2>2, <2>3, <2>4, OtherMaps
    <2>5. CASE ~Closed
      BY <2>1, <2>2, <2>5, MoveMaps
    <2> QED
      BY <2>4, <2>5
  <1>6. CASE LoopPanic
    <2>1. LifeThread = "running" /\ LifeThread' = "crashed" /\ UNCHANGED <<LifePhase, LifeCall>>
      BY <1>6 DEF LoopPanic
    <2> QED
      BY <2>1, OtherMaps
  <1>7. CASE \/ DtpSend \/ Arrive \/ CloseTest \/ CloseRefuse
             \/ CloseWake \/ CloseTakeHandle \/ UNCHANGED vars
    <2>1. UNCHANGED <<LifePhase, LifeThread, LifeCall>>
      BY <1>7 DEF DtpSend, Arrive, CloseTest, CloseRefuse, CloseWake, CloseTakeHandle
    <2> QED
      BY <2>1 DEF Life!lvars
  <1>8. CASE CloseFree
    <2>1. /\ LifeCall = "none" /\ LifeCall' = "done"
          /\ LifePhase \in {"closed", "failed"} /\ UNCHANGED <<LifePhase, LifeThread>>
      BY <1>8 DEF CloseFree
    <2> QED
      BY <2>1, OtherMaps
  <1>9. CASE CloseSend
    <2>1. CASE phase = "open"
      <3>1. /\ LifeCall = "none" /\ LifeCall' = "closing" /\ UNCHANGED LifeThread
            /\ LifePhase = "open" /\ LifePhase' = "down"
        BY <1>9, <2>1 DEF CloseSend
      <3> QED
        BY <3>1, OtherMaps
    <2>2. CASE phase # "open"
      <3>1. /\ LifeCall = "none" /\ LifeCall' = "panicked"
            /\ UNCHANGED <<LifePhase, LifeThread>> /\ LifePhase \in {"down", "closed"}
        BY <1>9, <2>2 DEF CloseSend
      <3> QED
        BY <3>1, OtherMaps
    <2> QED
      BY <2>1, <2>2
  <1>10. CASE CloseJoin
    <2>1. /\ LifeCall = "closing" /\ UNCHANGED <<LifePhase, LifeThread>>
          /\ \/ LifeThread = "exited" /\ LifeCall' = "done"
             \/ LifeCall' = "panicked"
      BY <1>10 DEF CloseJoin
    <2> QED
      BY <2>1, OtherMaps
  <1>11. CASE CloseTouchPoisoned
    <2>1. /\ LifeCall = "none" /\ LifeThread = "crashed" /\ LifeCall' = "panicked"
          /\ UNCHANGED <<LifePhase, LifeThread>>
      BY <1>11 DEF CloseTouchPoisoned
    <2> QED
      BY <2>1, OtherMaps
  <1> QED
    BY <1>1, <1>2, <1>3, <1>4, <1>5, <1>6, <1>7, <1>8, <1>9, <1>10, <1>11
    DEF Next, LoopStep, CloseStep

\* The loop and dtp_close implement ClientLife: the thread ends only over a closed
\* connection or by a panic, and dtp_close answers 1 only over a closed connection,
\* after its thread has ended if it was the one to close (client.rs 62-145, ffi.rs 516-560).
THEOREM LoopImplementsLife == Spec => ImplementsLife
  <1>1. Init => LifeInv /\ Life!LInit
    BY DEF Init, LifeInv, Life!LInit
  <1> USE DEF ImplementsLife, Life!LSpec
  <1> QED
    BY <1>1, LifeInvStep, LifeStep, Invariant, PTL DEF Spec

-----------------------------------------------------------------------------
(* Liveness.  ENABLED is opaque to the provers, and they cannot count the  *)
(* datagrams: LoopProgress is a premise here and a property of the run     *)
(* client.                                                                 *)

Over == pc \in {"exit", "panicked"}

\* No datagram waits for the thread.
Drained == Over \/ (sock = 0 /\ ~sockReady)

\* Where a step of the program may take the loop.
Move ==
    /\ pc = "top" => (pc = "top")' \/ (pc = "poll")' \/ Over'
    /\ pc = "poll" => (pc = "poll")' \/ (pc = "read")' \/ Over'
    /\ pc = "read" => (pc = "read")' \/ (pc = "check_read")' \/ Over'
    /\ pc = "check_read" => (pc = "check_read")' \/ ((pc = "write")' /\ ~Closed) \/ Over'
    /\ pc = "write" => (pc = "write")' \/ (pc = "check_write")' \/ Over'
    /\ pc = "check_write" => (pc = "check_write")' \/ ((pc = "top")' /\ ~Closed) \/ Over'
    /\ Over => Over'
    /\ Closed => Closed'
    /\ poisoned = TRUE => (poisoned = TRUE)'
    /\ poisoned = TRUE /\ pc = "read" => (pc = "read")' \/ Over'

\* Every step is such a move.
LEMMA LoopMoves ==
    ASSUME IInv, [Next]_vars
    PROVE  Move
  <1>0. /\ poisoned \in BOOLEAN /\ poisoned' \in BOOLEAN
        /\ ClosedInv
    <2>1. IInv'
      BY NextIInv
    <2> QED
      BY <2>1 DEF IInv
  <1> USE <1>0 DEF Over, ClosedInv, Move
  <1>1. CASE LoopStep
    <2>1. CASE Top \/ PollEvents \/ PollTimeout
      BY <2>1 DEF Top, PollEvents, PollTimeout
    <2>2. ASSUME NEW expired \in BOOLEAN, OnTimeout(expired)
          PROVE  /\ pc = "read" /\ pc' = "check_read" /\ (Closed => Closed')
                 /\ poisoned' = poisoned /\ ~poisoned
      BY <2>2 DEF OnTimeout
    <2>3. CASE ReadDrained \/ CheckRead \/ CheckWrite
      BY <2>3 DEF ReadDrained, CheckRead, CheckWrite
    <2>4. CASE ReadPacket
      <3>1. pc = "read" /\ pc' = "read" /\ (Closed => Closed') /\ poisoned' = poisoned
        BY <2>4 DEF ReadPacket, ClosedLocally
      <3> QED
        BY <3>1
    <2>5. CASE Write
      <3>1. pc = "write" /\ pc' = "check_write" /\ (Closed => Closed') /\ poisoned' = poisoned
        BY <2>5 DEF Write, ClosedLocally
      <3> QED
        BY <3>1
    <2>6. CASE LoopPanic
      BY <2>6 DEF LoopPanic
    <2> QED
      BY <1>1, <2>1, <2>2, <2>3, <2>4, <2>5, <2>6 DEF LoopStep
  <1>2. CASE CloseStep
    <2>1. UNCHANGED pc /\ (Closed => Closed') /\ (poisoned => poisoned')
      BY <1>2 DEF CloseStep, CloseFree, CloseTest, CloseRefuse, CloseSend, CloseWake,
         CloseTakeHandle, CloseJoin, CloseTouchPoisoned
    <2> QED
      BY <2>1
  <1>3. CASE DtpSend \/ Arrive
    BY <1>3 DEF DtpSend, Arrive
  <1>4. CASE UNCHANGED vars
    BY <1>4
  <1> QED
    BY <1>1, <1>2, <1>3, <1>4 DEF Next

\* And where a step of the thread does take it.
Leave ==
    /\ pc = "top" => (pc = "poll")' \/ Over'
    /\ pc = "poll" => (pc = "read")' \/ Over'
    /\ pc = "read" /\ sock = 0 => (pc = "check_read")' \/ Over'
    /\ pc = "check_read" => ((pc = "write")' /\ ~Closed) \/ Over'
    /\ pc = "write" => (pc = "check_write")' \/ Over'
    /\ pc = "check_write" => ((pc = "top")' /\ ~Closed) \/ Over'
    /\ poisoned = TRUE => pc = "poll" \/ Over'

\* Every step of the thread is.
LEMMA LoopLeaves ==
    ASSUME IInv, LoopRuns
    PROVE  Leave
  <1>0. poisoned \in BOOLEAN
    BY DEF IInv
  <1> USE <1>0 DEF Over, Leave
  <1>1. CASE Top \/ PollEvents \/ PollTimeout
    BY <1>1 DEF Top, PollEvents, PollTimeout
  <1>2. ASSUME NEW expired \in BOOLEAN, OnTimeout(expired)
        PROVE  pc = "read" /\ pc' = "check_read" /\ ~poisoned
    BY <1>2 DEF OnTimeout
  <1>3. CASE ReadDrained \/ CheckRead \/ CheckWrite
    BY <1>3 DEF ReadDrained, CheckRead, CheckWrite
  <1>4. CASE ReadPacket
    <2>1. pc = "read" /\ events /\ sock > 0 /\ ~poisoned
      BY <1>4 DEF ReadPacket
    <2> QED
      BY <2>1
  <1>5. CASE Write
    BY <1>5 DEF Write
  <1>6. CASE LoopPanic
    BY <1>6 DEF LoopPanic
  <1> QED
    BY <1>1, <1>2, <1>3, <1>4, <1>5, <1>6 DEF LoopRuns, LoopStep

\* What the liveness of the thread rests on, from some moment on.
Lively ==
    /\ []IInv /\ [][Next]_vars /\ []NoHiddenWait /\ []Drained
    /\ WF_vars(LoopRuns) /\ WF_vars(CloseGoesOn)

\* The loop goes round.
LEMMA GoesRound ==
    Lively => /\ pc = "top" ~> (pc = "poll" \/ Over)
              /\ pc = "poll" ~> (pc = "read" \/ Over)
              /\ pc = "read" ~> (pc = "check_read" \/ Over)
              /\ pc = "check_read" ~> ((pc = "write" /\ ~Closed) \/ Over)
              /\ pc = "write" ~> (pc = "check_write" \/ Over)
              /\ pc = "check_write" ~> (pc = "top" \/ Over)
              /\ Closed ~> Over
  <1>1. IInv /\ [Next]_vars => Move
    BY LoopMoves
  <1>2. IInv /\ <<LoopRuns>>_vars => Leave
    BY LoopLeaves
  <1>3. NoHiddenWait => Over \/ ENABLED <<LoopRuns>>_vars
    BY DEF NoHiddenWait, Over
  <1>4. Drained => Over \/ sock = 0
    BY DEF Drained
  <1>5. IInv /\ Closed => \/ pc = "read" \/ pc = "check_read" \/ pc = "check_write" \/ Over
    BY DEF IInv, ClosedInv, Over
  <1>6. ~(pc = "read" /\ pc = "check_read")
    OBVIOUS
  <1>7. Over => ~(pc = "read") /\ ~(pc = "check_read")
    BY DEF Over
  <1> QED
    BY <1>1, <1>2, <1>3, <1>4, <1>5, <1>6, <1>7, PTL DEF Lively, Move, Leave

\* How far dtp_close gets, and what the loop does meanwhile: while it joins, nobody wakes
\* the loop, and a poll with no datagram and no wake to report times out.
Joining == close = "joining"
Returned == close \in {"joined", "panicked"}
Awake == woken = TRUE
TimedOut == pc = "read" /\ events = FALSE

CloseMove ==
    /\ close = "sent" => (close = "sent")' \/ (close = "woken")'
    /\ close = "woken" => (close = "woken")' \/ Joining'
    /\ Joining => Joining' \/ Returned'
    /\ Joining /\ ~Awake => ~Awake'
    /\ Joining /\ pc = "poll" =>
           (pc = "poll")' \/ (pc = "read" /\ ~Awake)' \/ Over'
    /\ Joining /\ pc = "poll" /\ ~Awake /\ Drained => (pc = "poll")' \/ TimedOut' \/ Over'

\* Every step is such a move.
LEMMA CloseMoves ==
    ASSUME IInv, [Next]_vars
    PROVE  CloseMove
  <1>0. TypeOK
    BY DEF IInv
  <1> USE <1>0 DEF CloseMove, Joining, Returned, Awake, TimedOut, Over, Drained
  <1>1. CASE LoopStep
    <2>1. CASE Top \/ PollEvents \/ PollTimeout
      BY <2>1 DEF Top, PollEvents, PollTimeout
    <2>2. ASSUME pc # "poll", UNCHANGED <<close, woken>> PROVE CloseMove
      BY <2>2
    <2>3. ASSUME NEW expired \in BOOLEAN, OnTimeout(expired) PROVE CloseMove
      <3>1. pc # "poll" /\ UNCHANGED <<close, woken>>
        BY <2>3 DEF OnTimeout
      <3> QED
        BY <2>2, <3>1
    <2>4. CASE ReadDrained \/ ReadPacket \/ CheckRead \/ Write \/ CheckWrite
      <3>1. pc # "poll" /\ UNCHANGED <<close, woken>>
        BY <2>4 DEF ReadDrained, ReadPacket, CheckRead, Write, CheckWrite
      <3> QED
        BY <2>2, <3>1
    <2>5. CASE LoopPanic
      BY <2>5 DEF LoopPanic
    <2> QED
      BY <1>1, <2>1, <2>3, <2>4, <2>5 DEF LoopStep
  <1>2. CASE CloseStep
    BY <1>2 DEF CloseStep, CloseFree, CloseTest, CloseRefuse, CloseSend, CloseWake,
       CloseTakeHandle, CloseJoin, CloseTouchPoisoned
  <1>3. CASE DtpSend \/ Arrive
    BY <1>3 DEF DtpSend, Arrive
  <1>4. CASE UNCHANGED vars
    BY <1>4
  <1> QED
    BY <1>1, <1>2, <1>3, <1>4 DEF Next

\* What the fair steps do for it.
LEMMA CloseLeaves ==
    ASSUME IInv, CloseGoesOn
    PROVE  /\ close = "sent" => (close = "woken")'
           /\ close = "woken" => Joining'
           /\ Joining => Returned'
  BY DEF CloseGoesOn, CloseRefuse, CloseSend, CloseWake, CloseTakeHandle, CloseJoin,
     Joining, Returned

\* A dtp_close that joins the thread finds it ended: a wake may come first, but then the
\* loop polls until its timer expires (client.rs 64, 128).
LEMMA JoinEnds == Lively /\ TimersExpire => (Joining ~> Over \/ Returned)
  <1>1. IInv /\ [Next]_vars => Move /\ CloseMove
    BY LoopMoves, CloseMoves
  <1>2. IInv /\ <<LoopRuns>>_vars => Leave
    BY LoopLeaves
  <1>3. <<OnTimeout(TRUE)>>_vars => Closed'
    BY DEF OnTimeout
  <1>4. NoHiddenWait =>
           /\ Over \/ ENABLED <<LoopRuns>>_vars
           /\ TimedOut /\ ~(poisoned = TRUE) => ENABLED <<OnTimeout(TRUE)>>_vars
    BY DEF NoHiddenWait, Over, TimedOut
  <1>5. TimedOut => pc = "read"
    BY DEF TimedOut
  <1>6. ~(pc = "read" /\ pc = "poll")
    OBVIOUS
  <1>7. IInv => pc \in LoopPc
    BY DEF IInv
  <1>8. pc \in LoopPc => \/ pc = "top" \/ pc = "poll" \/ pc = "read" \/ pc = "check_read"
                         \/ pc = "write" \/ pc = "check_write" \/ Over
    BY DEF Over
  <1> DEFINE Stays == [](Joining /\ ~Over)
  <1>11. Lively /\ Stays => []<>(pc = "poll") /\ []<>(pc = "read")
    BY <1>7, <1>8, GoesRound, PTL DEF Lively
  <1>12. Lively /\ Stays => <>[](~Awake)
    BY <1>1, <1>6, <1>11, PTL DEF Lively, CloseMove
  <1>13. Lively /\ Stays => []<>TimedOut
    BY <1>1, <1>6, <1>11, <1>12, PTL DEF Lively, CloseMove
  <1>14. Lively /\ Stays => [](~(poisoned = TRUE))
    BY <1>1, <1>2, <1>4, <1>6, <1>11, PTL DEF Lively, Move, Leave
  <1>15. Lively /\ TimersExpire /\ Stays => <>Closed
    BY <1>3, <1>4, <1>13, <1>14, PTL DEF Lively, TimersExpire
  <1>16. Lively /\ TimersExpire => ~Stays
    BY <1>15, GoesRound, PTL
  <1>17. Lively /\ []~(Over \/ Returned) /\ Joining => Stays
    BY <1>1, PTL DEF Lively, CloseMove
  <1> QED
    BY <1>16, <1>17, PTL DEF Lively, TimersExpire

\* Once its connection is closed the thread ends, if the datagrams that are still to come
\* are read in the end (client.rs 93 and 141: the two tests of is_closed).
THEOREM ClosedThreadEnds == FairSpec /\ LoopProgress => ThreadEnds
  <1>1. IInv /\ [Next]_vars => Move
    BY LoopMoves
  <1>2. LoopProgress => <>[]Drained
    BY PTL DEF LoopProgress, ReadsAllPackets, Drained, Over
  <1> QED
    BY <1>1, <1>2, GoesRound, Invariant, PTL
    DEF FairSpec, Spec, LoopProgress, ThreadEnds, Over, Move, Lively

\* A dtp_close that has closed the connection returns, if timers expire (ffi.rs 533-560),
\* under the same premise: a peer that never stops sending keeps on_timeout from being called.
THEOREM DtpCloseReturns == FairSpec /\ LoopProgress => CloseReturns
  <1>1. IInv /\ [Next]_vars => Move /\ CloseMove
    BY LoopMoves, CloseMoves
  <1>2. LoopProgress => <>[]Drained
    BY PTL DEF LoopProgress, ReadsAllPackets, Drained, Over
  <1>3. IInv /\ <<CloseGoesOn>>_vars =>
           /\ close = "sent" => (close = "woken")'
           /\ close = "woken" => Joining'
           /\ Joining => Returned'
    BY CloseLeaves
  <1>4. NoHiddenWait =>
           /\ close = "sent" \/ close = "woken" => ENABLED <<CloseGoesOn>>_vars
           /\ Joining /\ Over => ENABLED <<CloseGoesOn>>_vars
    BY DEF NoHiddenWait, Joining, Over
  <1>5. close \in {"sent", "woken", "joining"} <=> close = "sent" \/ close = "woken" \/ Joining
    BY DEF Joining
  <1>6. FairSpec /\ LoopProgress /\ TimersExpire => (Joining ~> Over \/ Returned)
    BY <1>1, <1>2, JoinEnds, Invariant, PTL
    DEF FairSpec, Spec, LoopProgress, Lively, Move, CloseMove, TimersExpire
  <1> QED
    BY <1>1, <1>3, <1>4, <1>5, <1>6, Invariant, PTL
    DEF FairSpec, Spec, LoopProgress, CloseReturns, Returned, Move, CloseMove
=============================================================================
