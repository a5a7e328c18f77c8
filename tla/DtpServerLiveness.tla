------------------------- MODULE DtpServerLiveness -------------------------
(***************************************************************************)
(* What the server brings about once events cease, for any number of       *)
(* clients, threads and datagrams.  The provers know nothing of ENABLED    *)
(* and cannot count, so that the loop is not held up, reads the socket     *)
(* empty and ends its write passes (LoopProgress) is a premise here and a  *)
(* property of the run server_live there.                                  *)
(***************************************************************************)
EXTENDS DtpServerProofs

USE DEF TypeOK, serverVars, sharedVars, appVars, netVars, vars

\* The loop has not panicked or locked itself out, and no thread has panicked.
Alright == pc \notin {"stuck", "dead"} /\ \A t \in App : app[t] # "panicked"

\* The premises of the theorems.
Premises == FairSpec /\ LoopProgress /\ []Alright

\* The logging of refused packets, a failing quiche::accept and failures of the socket are
\* all that could make it untrue (server.rs 240, 280, 286, 390; ffi.rs 584).
THEOREM NobodyPanics ==
    ASSUME "fail" \notin IoResults, LogLevels \subseteq {"off"}, QuicheErrs = FALSE
    PROVE  Spec => []Alright
  <1>1. Init => Alright
    BY DEF Init, Alright
  <1>2. IInv /\ Alright /\ [Next]_vars => Alright'
    <2> SUFFICES ASSUME IInv, Alright, [Next]_vars PROVE Alright'
      OBVIOUS
    <2> USE DEF IInv, Alright
    <2>0. logLevel = "off"
      OBVIOUS
    <2>1. CASE ServerStep
      <3>1. UNCHANGED app
        BY <2>1 DEF ServerStep, ReadPacket, Top, PollEvents, PollTimeout, OnTimeout, ReadDrained,
           DropPacket, AnswerPacket, AcceptPacket, AcceptFails, LookupPacket, RecvOk, RecvErr,
           WriteClient, WriteDone, Gc, IoPanic
      <3>2. CASE Top \/ PollEvents \/ PollTimeout \/ ReadDrained \/ RecvOk \/ WriteDone \/ Gc
        BY <3>1, <3>2 DEF Top, PollEvents, PollTimeout, ReadDrained, RecvOk, WriteDone, Gc
      <3>3. ASSUME NEW X \in SUBSET Cid, OnTimeout(X) PROVE Alright'
        BY <3>1, <3>3 DEF OnTimeout
      <3>4. ASSUME NEW p \in Packet, DropPacket(p) \/ AcceptFails(p) PROVE Alright'
        BY <3>1, <3>4 DEF DropPacket, AcceptFails
      <3>5. ASSUME NEW p \in Packet, AcceptPacket(p) \/ LookupPacket(p) PROVE Alright'
        BY <3>1, <3>5 DEF AcceptPacket, LookupPacket
      <3>6. ASSUME NEW p \in Packet, AnswerPacket(p) PROVE Alright'
        BY <3>1, <3>6, ServerAssumption DEF AnswerPacket
      <3>7. CASE RecvErr
        BY <2>0, <3>1, <3>7 DEF RecvErr
      <3>8. ASSUME NEW c \in Cid, WriteClient(c) PROVE Alright'
        BY <3>1, <3>8 DEF WriteClient
      <3>9. ~IoPanic
        BY DEF IoPanic
      <3> QED
        BY <2>1, <3>2, <3>3, <3>4, <3>5, <3>6, <3>7, <3>8, <3>9 DEF ServerStep, ReadPacket
    <2>2. ASSUME NEW t \in App, AppStep(t) PROVE Alright'
      BY <2>0, <2>2 DEF AppStep, DtpAccept, DtpSend, DtpCloseTest, DtpCloseRefused,
         DtpCloseMark, TouchPoisoned
    <2>3. ASSUME NEW p \in Packet, Arrive(p) PROVE Alright'
      BY <2>3 DEF Arrive
    <2>4. CASE UNCHANGED vars
      BY <2>4
    <2> QED
      BY <2>1, <2>2, <2>3, <2>4 DEF Next
  <1> QED
    BY <1>1, <1>2, Invariant, PTL DEF Spec

-----------------------------------------------------------------------------
(* The loop goes round *)

\* No event is pending, and nothing is left in the socket.
Calm == woken = FALSE /\ sockReady = FALSE
Drained == sock = <<>>

\* The read loop is about to call on_timeout.
TimedOut == pc = "read" /\ events = FALSE

Over == pc = "stuck" \/ pc = "dead"

\* Where a step may take the loop ...
Move ==
    /\ pc = "top" => (pc = "top")' \/ (pc = "poll")'
    /\ pc = "poll" => (pc = "poll")' \/ (pc = "read")' \/ Over'
    /\ pc = "poll" /\ Calm => (pc = "poll")' \/ TimedOut' \/ Over'
    /\ pc = "read" => (pc = "read")' \/ (pc = "recv")' \/ (pc = "write")' \/ Over'
    /\ pc = "read" /\ Drained => (pc = "read")' \/ (pc = "write")' \/ Over'
    /\ pc = "recv" => (pc = "recv")' \/ (pc = "read")' \/ Over'
    /\ pc = "write" => (pc = "write")' \/ (pc = "gc")' \/ Over'
    /\ pc = "gc" => (pc = "gc")' \/ (pc = "top")'
    /\ Drained => Drained' \/ ~Calm'

\* ... and where a step of its own does.
Leave ==
    /\ pc = "top" => (pc = "poll")'
    /\ pc = "poll" => (pc = "read")' \/ Over'
    /\ pc = "read" /\ Drained => (pc = "write")' \/ Over'
    /\ pc = "recv" => (pc = "read")' \/ Over'
    /\ pc = "gc" => (pc = "top")'

\* The steps of the loop are such moves.
LEMMA LoopMoves ==
    ASSUME IInv, ServerStep
    PROVE  Move /\ (Leave \/ pc = "write")
  <1> USE DEF Move, Leave, Over, Drained
  <1>0. TypeOK
    BY DEF IInv
  <1>1. CASE Top \/ PollTimeout \/ PollEvents
    BY <1>1 DEF Top, PollTimeout, PollEvents, Calm, TimedOut
  <1>2. ASSUME NEW X \in SUBSET Cid, OnTimeout(X)
        PROVE  Move /\ Leave
    BY <1>2 DEF OnTimeout
  <1>3. CASE ReadDrained \/ RecvOk \/ RecvErr \/ Gc
    BY <1>3 DEF ReadDrained, RecvOk, RecvErr, Gc
  <1>4. ASSUME NEW p \in Packet,
               DropPacket(p) \/ AcceptPacket(p) \/ AcceptFails(p) \/ LookupPacket(p)
        PROVE  Move /\ Leave
    BY <1>4 DEF DropPacket, AcceptPacket, AcceptFails, LookupPacket, Receiving
  <1>5. ASSUME NEW p \in Packet, AnswerPacket(p)
        PROVE  Move /\ Leave
    <2>1. pc = "read" /\ sock # <<>> /\ pc' \in {"read", "write", "dead"}
      BY <1>5 DEF AnswerPacket, Receiving
    <2> QED
      BY <2>1
  <1>6. ASSUME NEW c \in Cid, WriteClient(c)
        PROVE  Move /\ pc = "write"
    <2>1. pc = "write" /\ pc' \in {"write", "dead"} /\ UNCHANGED sock
      BY <1>6 DEF WriteClient
    <2> QED
      BY <2>1
  <1>7. CASE WriteDone
    BY <1>7 DEF WriteDone
  <1>8. CASE IoPanic
    <2>1. pc \in {"poll", "read"} /\ pc' = "dead" /\ UNCHANGED sock
      BY <1>8 DEF IoPanic
    <2> QED
      BY <2>1
  <1> QED
    BY <1>1, <1>2, <1>3, <1>4, <1>5, <1>6, <1>7, <1>8 DEF ServerStep, ReadPacket

\* So are those of the others, which do not touch it.
LEMMA AllMoves ==
    ASSUME IInv, [Next]_vars
    PROVE  Move
  <1>1. ASSUME UNCHANGED <<pc, sock>>
        PROVE  Move
    BY <1>1 DEF Move, Drained
  <1>2. CASE ServerStep
    BY <1>2, LoopMoves
  <1>3. ASSUME NEW t \in App, AppStep(t)
        PROVE  Move
    BY <1>1, <1>3 DEF AppStep, DtpAccept, DtpSend, DtpCloseTest, DtpCloseRefused,
       DtpCloseMark, TouchPoisoned
  <1>4. ASSUME NEW p \in Packet, Arrive(p)
        PROVE  Move
    BY <1>4 DEF Arrive, Move, Calm
  <1>5. CASE UNCHANGED vars
    BY <1>1, <1>5
  <1> QED
    BY <1>2, <1>3, <1>4, <1>5 DEF Next

\* An expiry closes the connection.
LEMMA ExpiryCloses ==
    ASSUME IInv, NEW c \in Cid, Expires(c)
    PROVE  c \notin Alive'
  <1>1. PICK X \in SUBSET Cid : c \in X /\ OnTimeout(X)
    BY DEF Expires
  <1>2. clients[c] \in DOMAIN conn /\ conn[clients[c]] \in Conn
    BY <1>1, Objects DEF OnTimeout, Alive, Keys
  <1> QED
    BY <1>1, <1>2 DEF OnTimeout, Alive, IsClosed, Conn

-----------------------------------------------------------------------------
(* Expiry *)

\* What the proofs need of the server, once it is calm.
Lively ==
    /\ []IInv /\ [][Next]_vars /\ []NoHiddenWait /\ []Alright
    /\ WF_vars(LoopRuns) /\ WritePassEnds
    /\ []Calm /\ []Drained

\* A connection that stays open keeps the poll armed, so its timers are looked at again
\* and again (server.rs 84-112).
LEMMA TimersAreLookedAt ==
    ASSUME NEW c \in Cid
    PROVE  Lively /\ [](c \in Alive) => []<>ExpiryReady(c)
  <1>1. IInv /\ [Next]_vars => Move
    BY AllMoves
  <1>2. IInv /\ <<LoopRuns>>_vars => Leave \/ pc = "write"
    BY LoopMoves DEF LoopRuns
  <1>3. IInv /\ NoHiddenWait /\ Alright /\ c \in Alive => ENABLED <<LoopRuns>>_vars
    BY DEF NoHiddenWait, LoopReady, Alright, IInv, PollInv
  <1>4. Alright => ~Over
    BY DEF Alright, Over
  <1>5. IInv /\ Alright => \/ pc = "top" \/ pc = "poll" \/ pc = "read" \/ pc = "recv"
                           \/ pc = "write" \/ pc = "gc"
    BY DEF IInv, ServerPc, Alright
  <1>6. /\ pc = "write" => ~(pc = "top") /\ ~(pc = "poll") /\ ~(pc = "read") /\ ~(pc = "recv")
                           /\ ~(pc = "gc")
        /\ pc = "poll" => ~(pc = "read")
        /\ pc # "write" <=> ~(pc = "write")
        /\ TimedOut => pc = "read"
    BY DEF TimedOut
  <1>7. TimedOut /\ c \in Alive => ExpiryReady(c)
    BY DEF TimedOut, ExpiryReady
  <1> DEFINE Open == [](c \in Alive)
  <1>8. Lively /\ Open => /\ pc = "top" ~> pc = "poll"
                          /\ pc = "poll" ~> TimedOut
                          /\ pc = "read" ~> pc = "write"
                          /\ pc = "recv" ~> pc = "read"
                          /\ pc = "write" ~> pc = "gc"
                          /\ pc = "gc" ~> pc = "top"
    BY <1>1, <1>2, <1>3, <1>4, <1>6, PTL DEF Lively, Move, Leave, WritePassEnds
  <1>9. Lively /\ Open => []<>TimedOut
    BY <1>5, <1>8, PTL DEF Lively
  <1> QED
    BY <1>7, <1>9, PTL

\* When events cease, the socket is read empty, and stays so.
LEMMA CalmsDown ==
    Premises /\ Quiet => <>Lively
  <1>1. IInv /\ [Next]_vars => Move
    BY AllMoves
  <1>2. ~woken /\ ~sockReady /\ IInv => Calm
    BY DEF Calm, IInv
  <1>3. sock = <<>> <=> Drained
    BY DEF Drained
  <1>4. sock # <<>> <=> ~Drained
    BY DEF Drained
  <1> QED
    BY <1>1, <1>2, <1>3, <1>4, Invariant, PTL
    DEF Premises, LoopProgress, FairSpec, Spec, Fairness, Quiet, ReadsAllPackets,
        WritePassEnds, Lively, Move

\* An open connection whose peer has fallen silent is closed by its timers.
LEMMA SilenceClosesEach ==
    ASSUME NEW c \in Cid
    PROVE  Premises /\ Quiet => []<>(c \notin Alive)
  <1>1. Lively /\ [](c \in Alive) => []<>ExpiryReady(c)
    BY TimersAreLookedAt
  <1>2. NoHiddenWait /\ ExpiryReady(c) => ENABLED <<Expires(c)>>_vars
    BY DEF NoHiddenWait
  <1>3. IInv /\ <<Expires(c)>>_vars => ~(c \in Alive)'
    BY ExpiryCloses
  <1>4. TimersFair => TimerFair(c)
    BY DEF TimersFair
  <1>5. TimerFair(c) => SF_vars(Expires(c))
    BY PTL DEF TimerFair
  <1>6. c \notin Alive <=> ~(c \in Alive)
    OBVIOUS
  <1>7. Premises /\ Quiet => <>Lively /\ SF_vars(Expires(c)) /\ []IInv /\ []NoHiddenWait
    BY <1>4, <1>5, CalmsDown, Invariant, PTL
    DEF Premises, LoopProgress, FairSpec, Fairness
  <1> QED
    BY <1>1, <1>2, <1>3, <1>6, <1>7, PTL DEF Lively, WritePassEnds

\* Once events cease, every connection is closed by its timers, however many clients there
\* are and whatever the application does (server.rs 84-112).
THEOREM SilenceCloses == FairSpec /\ LoopProgress /\ []Alright => SilentConnectionsClose
  <1>1. ASSUME NEW c \in Cid
        PROVE  Premises /\ Quiet => []<>(c \notin Alive)
    BY SilenceClosesEach
  <1> QED
    BY <1>1 DEF SilentConnectionsClose, Premises

-----------------------------------------------------------------------------
(* Giving a connection back *)

\* The thread t holds a DtpConnection on the connection of c.
Holds(t, c) == t \in Owners(c)
Shut(c) == c \notin Alive

\* It has called dtp_close, which answered -1 or is about to answer 1.
Gives(t) == app[t] \in {"closing", "marking"}

\* What a thread does with a connection once it has begun to call dtp_close: what is closed
\* stays closed, and only DtpCloseMark gives it back.
HoldMove(t, c) ==
    Holds(t, c) =>
        /\ app[t] = "closing" =>
              Holds(t, c)' /\ ((app[t] = "closing")' \/ (app[t] = "marking")')
        /\ app[t] = "marking" => (app[t] = "marking")' \/ ~Holds(t, c)'
        /\ Shut(c) => Shut(c)' \/ ~Holds(t, c)'

\* A thread holds a client's connection, and is about to do something with it.
LEMMA HeldIsServed ==
    ASSUME IInv, NEW t \in App, NEW c \in Cid, Holds(t, c)
    PROVE  /\ handle[t] # 0 /\ handle[t] \in DOMAIN conn /\ clients[c] = handle[t]
           /\ conn[handle[t]].scid = c
           /\ app[t] # "idle"
           /\ Shut(c) <=> IsClosed(handle[t])
  BY DEF Holds, Shut, Owners, IInv, HandleInv, Alive, Keys, InMap

\* Every step is such a move, as long as nobody panics.
LEMMA HoldMoves ==
    ASSUME IInv, [Next]_vars, Alright', NEW t \in App, NEW c \in Cid
    PROVE  HoldMove(t, c)
  <1> SUFFICES ASSUME Holds(t, c)
               PROVE  /\ app[t] = "closing" =>
                            Holds(t, c)' /\ ((app[t] = "closing")' \/ (app[t] = "marking")')
                      /\ app[t] = "marking" => (app[t] = "marking")' \/ ~Holds(t, c)'
                      /\ Shut(c) => Shut(c)' \/ ~Holds(t, c)'
    BY DEF HoldMove
  <1>0. TypeOK /\ app'[t] # "panicked"
    BY DEF IInv, Alright
  <1>1. /\ handle[t] # 0 /\ handle[t] \in DOMAIN conn /\ conn[handle[t]].scid = c
        /\ app[t] # "idle"
        /\ Shut(c) <=> IsClosed(handle[t])
    BY HeldIsServed
  <1>2. ConnStep /\ IInv'
    BY AllConnStep, NextTypes, NextTables, NextWork, NextWake, NextPoll DEF IInv
  <1>3. ASSUME handle'[t] = handle[t]
        PROVE  Holds(t, c)' /\ (Shut(c) => Shut(c)')
    <2>1. conn'[handle[t]].scid = c
          /\ (conn[handle[t]].phase = "closed" => conn'[handle[t]].phase = "closed")
      BY <1>1, <1>2 DEF ConnStep
    <2>2. Holds(t, c)'
      BY <1>1, <1>3, <2>1 DEF Holds, Owners
    <2>3. clients'[c] = handle[t]
      BY <1>1, <1>2, <1>3, <2>1 DEF IInv, HandleInv
    <2>4. Shut(c) => Shut(c)'
      BY <1>1, <2>1, <2>3 DEF Shut, Alive, IsClosed
    <2> QED
      BY <2>2, <2>4
  <1>4. CASE UNCHANGED <<app, handle>>
    BY <1>1, <1>3, <1>4
  <1>5. ASSUME NEW u \in App, AppStep(u)
        PROVE  \/ handle'[t] = handle[t] /\ app'[t] = app[t]
               \/ handle'[t] = handle[t] /\ app[t] = "open" /\ app'[t] \in {"closing", "marking"}
               \/ handle'[t] = handle[t] /\ app[t] = "closing" /\ app'[t] = "marking"
               \/ app[t] = "marking" /\ handle'[t] = 0
    <2>1. CASE u # t
      BY <1>0, <1>5, <2>1 DEF AppStep, DtpAccept, DtpSend, DtpCloseTest, DtpCloseRefused,
         DtpCloseMark, TouchPoisoned
    <2>2. CASE u = t
      BY <1>0, <1>1, <1>5, <2>2 DEF AppStep, DtpAccept, DtpSend, DtpCloseTest, DtpCloseRefused,
         DtpCloseMark, TouchPoisoned, CanLock
    <2> QED
      BY <2>1, <2>2
  <1>6. ASSUME NEW u \in App, AppStep(u)
        PROVE  /\ app[t] = "closing" =>
                     Holds(t, c)' /\ ((app[t] = "closing")' \/ (app[t] = "marking")')
               /\ app[t] = "marking" => (app[t] = "marking")' \/ ~Holds(t, c)'
               /\ Shut(c) => Shut(c)' \/ ~Holds(t, c)'
    <2>1. handle'[t] = 0 => ~Holds(t, c)'
      BY DEF Holds, Owners
    <2> QED
      BY <1>3, <1>5, <1>6, <2>1
  <1>7. CASE ServerStep \/ (\E p \in Packet : Arrive(p))
    <2>1. UNCHANGED <<app, handle>>
      BY <1>7 DEF Arrive, ServerStep, ReadPacket, Top, PollEvents, PollTimeout, OnTimeout,
         ReadDrained, DropPacket, AnswerPacket, AcceptPacket, AcceptFails, LookupPacket, RecvOk,
         RecvErr, WriteClient, WriteDone, Gc, IoPanic
    <2> QED
      BY <1>4, <2>1
  <1> QED
    BY <1>4, <1>6, <1>7 DEF Next

\* A thread in its dtp_close loop gets on once its connection is closed, and gives it back
\* (ffi.rs 514-523, 587-611).
LEMMA ClosedIsGivenBack ==
    ASSUME NEW t \in App, NEW c \in Cid
    PROVE  /\ []IInv /\ [][Next]_vars /\ []NoHiddenWait /\ []Alright /\ AppFair(t)
           /\ []<>Shut(c)
           => (Holds(t, c) /\ Gives(t) ~> ~Holds(t, c))
  <1>1. IInv /\ [Next]_vars /\ Alright' => HoldMove(t, c)
    BY HoldMoves
  <1>2. Gives(t) <=> app[t] = "closing" \/ app[t] = "marking"
    BY DEF Gives
  <1>3. ~(app[t] = "closing" /\ app[t] = "marking")
    OBVIOUS
  <1>4. IInv /\ Alright /\ Holds(t, c) /\ Shut(c) /\ app[t] = "closing" => CloseReady(t)
    BY HeldIsServed DEF CloseReady, CanLock, Alright, IInv, PollInv
  <1>5. NoHiddenWait => /\ CloseReady(t) => ENABLED <<CloseAgain(t)>>_vars
                        /\ app[t] = "marking" => ENABLED <<DtpCloseMark(t)>>_vars
    BY DEF NoHiddenWait
  <1>6. IInv /\ <<CloseAgain(t)>>_vars => (app[t] = "marking")'
    BY DEF CloseAgain, DtpCloseTest, IInv
  <1>7. IInv /\ <<DtpCloseMark(t)>>_vars => ~Holds(t, c)'
    BY DEF DtpCloseMark, IInv, Holds, Owners
  <1> QED
    BY <1>1, <1>2, <1>3, <1>4, <1>5, <1>6, <1>7, PTL DEF AppFair, HoldMove

\* Once events cease, a thread that has begun to call dtp_close gives its connection back,
\* by the dtp_close that it repeats until the timers have closed it (main.rs 220-236).
THEOREM GivenBack == FairSpec /\ LoopProgress /\ []Alright => ConnectionsGivenBack
  <1>1. ASSUME NEW t \in App, NEW c \in Cid
        PROVE  Premises /\ Quiet =>
                   (t \in Owners(c) /\ app[t] \in {"closing", "marking"} ~> t \notin Owners(c))
    <2>1. Premises /\ Quiet => []<>(c \notin Alive)
      BY SilenceClosesEach
    <2>2. AppsFair => AppFair(t)
      BY DEF AppsFair
    <2>3. /\ []IInv /\ [][Next]_vars /\ []NoHiddenWait /\ []Alright /\ AppFair(t)
          /\ []<>Shut(c)
          => (Holds(t, c) /\ Gives(t) ~> ~Holds(t, c))
      BY ClosedIsGivenBack
    <2>4. /\ Holds(t, c) <=> t \in Owners(c)
          /\ ~Holds(t, c) <=> t \notin Owners(c)
          /\ Shut(c) <=> c \notin Alive
          /\ Gives(t) <=> app[t] \in {"closing", "marking"}
      BY DEF Holds, Shut, Gives
    <2> QED
      BY <2>1, <2>2, <2>3, <2>4, Invariant, PTL
      DEF Premises, LoopProgress, FairSpec, Spec, Fairness
  <1> QED
    BY <1>1 DEF ConnectionsGivenBack, Premises
=============================================================================
