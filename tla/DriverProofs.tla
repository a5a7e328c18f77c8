---------------------------- MODULE DriverProofs ----------------------------
(***************************************************************************)
(* Theorems about module Driver, for any number of clients and workers.    *)
(***************************************************************************)
EXTENDS Driver, FiniteSetTheorems, TLAPS

\* The invariant but for the bound on the tasks that have a worker.
LocalInv == TypeOK /\ \A c \in Client : ConnInv(c) /\ WaitInv(c)

\* What client d's part of the system is made of, untouched by a step.
Same(d) ==
    /\ cpc'[d] = cpc[d] /\ spc'[d] = spc[d]
    /\ cphase'[d] = cphase[d] /\ sphase'[d] = sphase[d]
    /\ request'[d] = request[d] /\ answer'[d] = answer[d]
    /\ (d \in lost' <=> d \in lost)

\* The steps of the tasks, threads and timers of one client's connection.
ConnStep(c) ==
    ClientStep(c) \/ ServerStep(c) \/ Handshake(c) \/ Transfer(c) \/ WindUp(c) \/ Expire(c)

\* The connections share nothing: such a step leaves main and the other ones alone.
LEMMA Frame ==
    ASSUME TypeOK, NEW c \in Client, ConnStep(c), NEW d \in Client, d # c
    PROVE  main' = main /\ Same(d)
<1> USE DEF TypeOK, Same
<1>1. CASE ClientStep(c)
      BY <1>1 DEF ClientStep, Connect, ClientSend, ClientRecv, ClientClose, ClientJoin
<1>2. CASE ServerStep(c)
      BY <1>2 DEF ServerStep, Accept, ServerRecv, ServerSend, ServerClose
<1>3. CASE Handshake(c) BY <1>3 DEF Handshake
<1>4. CASE Transfer(c) BY <1>4 DEF Transfer
<1>5. CASE WindUp(c) BY <1>5 DEF WindUp
<1>6. CASE Expire(c) BY <1>6 DEF Expire
<1> QED BY <1>1, <1>2, <1>3, <1>4, <1>5, <1>6 DEF ConnStep

\* What is untouched keeps its part of the invariant.
LEMMA SameInv ==
    ASSUME NEW d \in Client, ConnInv(d), WaitInv(d), main' = main, Same(d)
    PROVE  ConnInv(d)' /\ WaitInv(d)'
BY DEF ConnInv, WaitInv, Same, Printed

\* The invariant holds initially: no task has been spawned (main.rs 244).
LEMMA InitIInv == Init => IInv
<1> SUFFICES ASSUME Init PROVE IInv OBVIOUS
<1>1. TypeOK BY DEF Init, TypeOK, ClientPc, ServerPc, Phase, MsgState
<1>2. \A c \in Client : ConnInv(c) /\ WaitInv(c) BY DEF Init, ConnInv, WaitInv, Printed
<1>3. Running = {} BY DEF Init, Running
<1> QED BY <1>1, <1>2, <1>3, FS_EmptySet, DriverAssumption DEF IInv

\* What the actions of a client's connection read and write, for that client.
Local(c) ==
    /\ cpc[c] \in ClientPc /\ spc[c] \in ServerPc
    /\ cphase[c] \in Phase /\ sphase[c] \in Phase
    /\ request[c] \in MsgState /\ answer[c] \in MsgState
    /\ ConnInv(c) /\ WaitInv(c)

\* A step that keeps the part of its own client keeps everybody's.
LEMMA OwnPartSuffices ==
    ASSUME LocalInv, NEW c \in Client, ConnStep(c), TypeOK', ConnInv(c)', WaitInv(c)'
    PROVE  LocalInv'
<1>0. TypeOK /\ \A d \in Client : ConnInv(d) /\ WaitInv(d) BY DEF LocalInv
<1>1. ASSUME NEW d \in Client, d # c PROVE ConnInv(d)' /\ WaitInv(d)'
  <2>1. main' = main /\ Same(d) BY <1>0, <1>1, Frame
  <2>2. ConnInv(d) /\ WaitInv(d) BY <1>0
  <2> QED BY <2>1, <2>2, SameInv
<1>2. ASSUME NEW d \in Client PROVE ConnInv(d)' /\ WaitInv(d)'
  <2>1. CASE d = c BY <2>1
  <2>2. CASE d # c BY <1>1, <2>2
  <2> QED BY <2>1, <2>2
<1> QED BY <1>2 DEF LocalInv

\* The invariant of one client's part, for the lemmas on its actions.
LEMMA LocalFacts ==
    ASSUME LocalInv, NEW c \in Client
    PROVE  TypeOK /\ Local(c)
BY DEF LocalInv, TypeOK, Local

\* A step of a client task preserves the invariant (main.rs 244-290).
LEMMA ClientIInv ==
    ASSUME LocalInv, NEW c \in Client, ClientStep(c)
    PROVE  LocalInv'
<1>0. TypeOK /\ Local(c) /\ ConnStep(c) BY LocalFacts DEF ConnStep
<1>1. CASE Connect(c)
  <2>1. TypeOK' BY <1>0, <1>1 DEF Connect, TypeOK, ClientPc, ServerPc, Phase, MsgState
  <2>2. /\ cpc[c] = "queued" /\ cpc'[c] = "send" /\ cphase'[c] = "handshake"
        BY <1>0, <1>1 DEF Connect, TypeOK
  <2>3. UNCHANGED <<main, spc, sphase, request, answer, lost>> BY <1>1 DEF Connect
  <2>4. ConnInv(c)' BY <1>0, <2>2, <2>3 DEF Local, ConnInv, Printed
  <2>5. /\ cphase[c] = "none" /\ sphase[c] = "none" /\ spc[c] = "none"
        /\ request[c] = "none" /\ answer[c] = "none"
        BY <1>0, <2>2 DEF Local, ConnInv, WaitInv, ServerPc, MsgState
  <2>6. WaitInv(c)' BY <2>2, <2>3, <2>5 DEF WaitInv
  <2> QED BY <1>0, <2>1, <2>4, <2>6, OwnPartSuffices
<1>2. CASE ClientSend(c)
  <2>1. TypeOK' BY <1>0, <1>2 DEF ClientSend, TypeOK, ClientPc, ServerPc, Phase, MsgState
  <2>2. /\ cpc[c] = "send" /\ cpc'[c] = "recv" /\ cphase[c] # "handshake"
        /\ \/ cphase[c] = "open" /\ request'[c] = "sent"
           \/ cphase[c] # "open" /\ request'[c] = request[c]
        BY <1>0, <1>2 DEF ClientSend, TypeOK
  <2>3. UNCHANGED <<main, spc, cphase, sphase, answer, lost>> BY <1>2 DEF ClientSend
  <2>4. ConnInv(c)' BY <1>0, <2>2, <2>3 DEF Local, ConnInv, Printed
  <2>5. WaitInv(c)' BY <1>0, <2>2, <2>3 DEF Local, WaitInv, ClientPc, ServerPc, Phase, MsgState
  <2> QED BY <1>0, <2>1, <2>4, <2>5, OwnPartSuffices
<1>3. CASE ClientRecv(c)
  <2>1. TypeOK' BY <1>0, <1>3 DEF ClientRecv, TypeOK, ClientPc, ServerPc, Phase, MsgState
  <2>2. /\ cpc[c] = "recv" /\ cpc'[c] = "close" /\ cphase[c] # "closed"
        /\ answer[c] = "arrived" /\ answer'[c] = "read"
        BY <1>0, <1>3 DEF ClientRecv, TypeOK
  <2>3. UNCHANGED <<main, spc, cphase, sphase, request, lost>> BY <1>3 DEF ClientRecv
  <2>4. ConnInv(c)' BY <1>0, <2>2, <2>3 DEF Local, ConnInv, Printed
  <2>5. WaitInv(c)' BY <1>0, <2>2, <2>3 DEF Local, WaitInv, ClientPc, ServerPc, Phase, MsgState
  <2> QED BY <1>0, <2>1, <2>4, <2>5, OwnPartSuffices
<1>4. CASE ClientClose(c)
  <2>1. TypeOK' BY <1>0, <1>4 DEF ClientClose, TypeOK, ClientPc, ServerPc, Phase, MsgState
  <2>2. /\ cpc[c] = "close"
        /\ \/ cphase[c] = "closed" /\ cpc'[c] = "done" /\ UNCHANGED <<cphase, lost>>
           \/ cphase[c] = "open" /\ cpc'[c] = "join" /\ cphase'[c] = "closing" /\ lost' = lost
           \/ /\ cphase[c] = "open" /\ cpc'[c] = "panicked" /\ cphase'[c] = "closed"
              /\ c \in lost'
        BY <1>0, <1>4 DEF ClientClose, TypeOK
  <2>3. UNCHANGED <<main, spc, sphase, request, answer>> BY <1>4 DEF ClientClose
  <2>4. ConnInv(c)' BY <1>0, <2>2, <2>3 DEF Local, ConnInv, Printed
  <2>5. WaitInv(c)' BY <1>0, <2>2, <2>3 DEF Local, WaitInv, ClientPc, ServerPc, Phase, MsgState
  <2> QED BY <1>0, <2>1, <2>4, <2>5, OwnPartSuffices
<1>5. CASE ClientJoin(c)
  <2>1. TypeOK' BY <1>0, <1>5 DEF ClientJoin, TypeOK, ClientPc, ServerPc, Phase, MsgState
  <2>2. /\ cpc[c] = "join" /\ cpc'[c] = "done" /\ cphase[c] = "closed"
        BY <1>0, <1>5 DEF ClientJoin, TypeOK
  <2>3. UNCHANGED <<main, spc, cphase, sphase, request, answer, lost>> BY <1>5 DEF ClientJoin
  <2>4. ConnInv(c)' BY <1>0, <2>2, <2>3 DEF Local, ConnInv, Printed
  <2>5. WaitInv(c)' BY <1>0, <2>2, <2>3 DEF Local, WaitInv, ClientPc, ServerPc, Phase, MsgState
  <2> QED BY <1>0, <2>1, <2>4, <2>5, OwnPartSuffices
<1> QED BY <1>1, <1>2, <1>3, <1>4, <1>5 DEF ClientStep

\* So does a step of a thread of the server (main.rs 185-239).
LEMMA ServerIInv ==
    ASSUME LocalInv, NEW c \in Client, ServerStep(c)
    PROVE  LocalInv'
<1>0. TypeOK /\ Local(c) /\ ConnStep(c) BY LocalFacts DEF ConnStep
<1>1. CASE Accept(c)
  <2>1. TypeOK' BY <1>0, <1>1 DEF Accept, TypeOK, ClientPc, ServerPc, Phase, MsgState
  <2>2. /\ spc[c] = "none" /\ spc'[c] = "recv" /\ sphase[c] # "none"
        BY <1>0, <1>1 DEF Accept, TypeOK
  <2>3. UNCHANGED <<main, cpc, cphase, sphase, request, answer, lost>> BY <1>1 DEF Accept
  <2>4. ConnInv(c)' BY <1>0, <2>2, <2>3 DEF Local, ConnInv, Printed
  <2>5. WaitInv(c)' BY <1>0, <2>2, <2>3 DEF Local, WaitInv, ClientPc, ServerPc, Phase, MsgState
  <2> QED BY <1>0, <2>1, <2>4, <2>5, OwnPartSuffices
<1>2. CASE ServerRecv(c)
  <2>1. TypeOK' BY <1>0, <1>2 DEF ServerRecv, TypeOK, ClientPc, ServerPc, Phase, MsgState
  <2>2. /\ spc[c] = "recv" /\ spc'[c] = "send" /\ sphase[c] # "closed"
        /\ request[c] = "arrived" /\ request'[c] = "read"
        BY <1>0, <1>2 DEF ServerRecv, TypeOK
  <2>3. UNCHANGED <<main, cpc, cphase, sphase, answer, lost>> BY <1>2 DEF ServerRecv
  <2>4. ConnInv(c)' BY <1>0, <2>2, <2>3 DEF Local, ConnInv, Printed
  <2>5. WaitInv(c)' BY <1>0, <2>2, <2>3 DEF Local, WaitInv, ClientPc, ServerPc, Phase, MsgState
  <2> QED BY <1>0, <2>1, <2>4, <2>5, OwnPartSuffices
<1>3. CASE ServerSend(c)
  <2>1. TypeOK' BY <1>0, <1>3 DEF ServerSend, TypeOK, ClientPc, ServerPc, Phase, MsgState
  <2>2. /\ spc[c] = "send" /\ spc'[c] = "close"
        /\ \/ sphase[c] = "open" /\ answer'[c] = "sent"
           \/ sphase[c] # "open" /\ answer'[c] = answer[c]
        BY <1>0, <1>3 DEF ServerSend, TypeOK
  <2>3. UNCHANGED <<main, cpc, cphase, sphase, request, lost>> BY <1>3 DEF ServerSend
  <2>4. ConnInv(c)' BY <1>0, <2>2, <2>3 DEF Local, ConnInv, Printed
  <2>5. WaitInv(c)' BY <1>0, <2>2, <2>3 DEF Local, WaitInv, ClientPc, ServerPc, Phase, MsgState
  <2> QED BY <1>0, <2>1, <2>4, <2>5, OwnPartSuffices
<1>4. CASE ServerClose(c)
  <2>1. TypeOK' BY <1>0, <1>4 DEF ServerClose, TypeOK, ClientPc, ServerPc, Phase, MsgState
  <2>2. /\ spc[c] = "close" /\ spc'[c] = "done" /\ sphase[c] = "closed"
        BY <1>0, <1>4 DEF ServerClose, TypeOK
  <2>3. UNCHANGED <<main, cpc, cphase, sphase, request, answer, lost>> BY <1>4 DEF ServerClose
  <2>4. ConnInv(c)' BY <1>0, <2>2, <2>3 DEF Local, ConnInv, Printed
  <2>5. WaitInv(c)' BY <1>0, <2>2, <2>3 DEF Local, WaitInv, ClientPc, ServerPc, Phase, MsgState
  <2> QED BY <1>0, <2>1, <2>4, <2>5, OwnPartSuffices
<1> QED BY <1>1, <1>2, <1>3, <1>4 DEF ServerStep

\* So does what happens between the loops, the loss of a connection included.
LEMMA NetworkIInv ==
    ASSUME LocalInv, NEW c \in Client, Handshake(c) \/ Transfer(c) \/ WindUp(c) \/ Expire(c)
    PROVE  LocalInv'
<1>0. TypeOK /\ Local(c) /\ ConnStep(c) BY LocalFacts DEF ConnStep
<1>1. CASE Handshake(c)
  <2>1. TypeOK' BY <1>0, <1>1 DEF Handshake, TypeOK, ClientPc, ServerPc, Phase, MsgState
  <2>2. \/ /\ cphase[c] = "handshake" /\ cphase' = cphase
           /\ sphase[c] = "none" /\ sphase'[c] = "handshake"
        \/ /\ cphase[c] = "handshake" /\ cphase'[c] = "open"
           /\ sphase[c] = "handshake" /\ sphase' = sphase
        \/ /\ cphase[c] = "open" /\ cphase' = cphase
           /\ sphase[c] = "handshake" /\ sphase'[c] = "open"
        BY <1>0, <1>1 DEF Handshake, TypeOK
  <2>3. UNCHANGED <<main, cpc, spc, request, answer, lost>> BY <1>1 DEF Handshake
  <2>4. ConnInv(c)' BY <1>0, <2>2, <2>3 DEF Local, ConnInv, Printed
  <2>5. WaitInv(c)' BY <1>0, <2>2, <2>3 DEF Local, WaitInv, ClientPc, ServerPc, Phase, MsgState
  <2> QED BY <1>0, <2>1, <2>4, <2>5, OwnPartSuffices
<1>2. CASE Transfer(c)
  <2>1. TypeOK' BY <1>0, <1>2 DEF Transfer, TypeOK, ClientPc, ServerPc, Phase, MsgState
  <2>2. /\ cphase[c] = "open" /\ sphase[c] = "open"
        /\ \/ request[c] = "sent" /\ request'[c] = "arrived" /\ answer' = answer
           \/ answer[c] = "sent" /\ answer'[c] = "arrived" /\ request' = request
        BY <1>0, <1>2 DEF Transfer, TypeOK
  <2>3. UNCHANGED <<main, cpc, spc, cphase, sphase, lost>> BY <1>2 DEF Transfer
  <2>4. ConnInv(c)' BY <1>0, <2>2, <2>3 DEF Local, ConnInv, Printed
  <2>5. WaitInv(c)' BY <1>0, <2>2, <2>3 DEF Local, WaitInv, ClientPc, ServerPc, Phase, MsgState
  <2> QED BY <1>0, <2>1, <2>4, <2>5, OwnPartSuffices
<1>3. CASE WindUp(c)
  <2>1. TypeOK' BY <1>0, <1>3 DEF WindUp, TypeOK, ClientPc, ServerPc, Phase, MsgState
  <2>2. \/ /\ cphase[c] = "closing" \/ (cphase[c] \in {"handshake", "open"} /\ sphase[c] = "closed")
           /\ cphase'[c] = "closed" /\ sphase' = sphase
        \/ /\ sphase[c] = "open" /\ cphase[c] = "closing"
           /\ sphase'[c] = "closing" /\ cphase' = cphase
        \/ /\ sphase[c] \in {"handshake", "open", "closing"} /\ cphase[c] \in {"closing", "closed"}
           /\ sphase'[c] = "closed" /\ cphase' = cphase
        BY <1>0, <1>3 DEF WindUp, TypeOK
  <2>3. UNCHANGED <<main, cpc, spc, request, answer, lost>> BY <1>3 DEF WindUp
  <2>4. ConnInv(c)' BY <1>0, <2>2, <2>3 DEF Local, ConnInv, Printed
  <2>5. WaitInv(c)' BY <1>0, <2>2, <2>3 DEF Local, WaitInv, ClientPc, ServerPc, Phase, MsgState
  <2> QED BY <1>0, <2>1, <2>4, <2>5, OwnPartSuffices
<1>4. CASE Expire(c)
  <2>1. TypeOK' BY <1>0, <1>4 DEF Expire, TypeOK, ClientPc, ServerPc, Phase, MsgState
  <2>2. /\ c \in lost'
        /\ \/ /\ cphase[c] \in {"handshake", "open"}
              /\ cphase'[c] = "closed" /\ sphase' = sphase
           \/ /\ sphase[c] \in {"handshake", "open"}
              /\ sphase'[c] = "closed" /\ cphase' = cphase
        BY <1>0, <1>4 DEF Expire, TypeOK
  <2>3. UNCHANGED <<main, cpc, spc, request, answer>> BY <1>4 DEF Expire
  <2>4. ConnInv(c)' BY <1>0, <2>2, <2>3 DEF Local, ConnInv, Printed
  <2>5. WaitInv(c)' BY <1>0, <2>2, <2>3 DEF Local, WaitInv, ClientPc, ServerPc, Phase, MsgState
  <2> QED BY <1>0, <2>1, <2>4, <2>5, OwnPartSuffices
<1> QED BY <1>1, <1>2, <1>3, <1>4

\* main moves on when every task has been spawned (main.rs 243-292) ...
LEMMA SpawnIInv ==
    ASSUME LocalInv, NEW c \in Client, Spawn(c)
    PROVE  LocalInv'
<1>0. TypeOK /\ Local(c) BY LocalFacts
<1>1. TypeOK' BY <1>0 DEF Spawn, TypeOK, ClientPc
<1>2. /\ cpc[c] = "none" /\ cpc'[c] = "queued" /\ main = "spawning"
      /\ UNCHANGED <<spc, cphase, sphase, request, answer, lost>>
      BY <1>0 DEF Spawn, TypeOK
<1>3. ConnInv(c)' BY <1>0, <1>2 DEF Local, ConnInv, Printed
<1>4. WaitInv(c)' BY <1>0, <1>2 DEF Local, WaitInv, ClientPc, ServerPc, Phase, MsgState
<1>5. ASSUME NEW d \in Client, d # c PROVE ConnInv(d)' /\ WaitInv(d)'
  <2>1. ConnInv(d) /\ WaitInv(d) BY DEF LocalInv
  <2>2. cpc'[d] = cpc[d] BY <1>0, <1>5 DEF Spawn, TypeOK
  <2>3. cpc[d] = "none" => main' = main BY <1>5 DEF Spawn
  <2>4. ConnInv(d)' BY <1>2, <2>1, <2>2 DEF ConnInv, Printed
  <2>5. WaitInv(d)' BY <1>2, <2>1, <2>2, <2>3 DEF WaitInv
  <2> QED BY <2>4, <2>5
<1>6. ASSUME NEW d \in Client PROVE ConnInv(d)' /\ WaitInv(d)'
  <2>1. CASE d = c BY <1>3, <1>4, <2>1
  <2>2. CASE d # c BY <1>5, <2>2
  <2> QED BY <2>1, <2>2
<1> QED BY <1>1, <1>6 DEF LocalInv

\* ... and when every task has ended (main.rs 294).
LEMMA JoinAllIInv ==
    ASSUME LocalInv, JoinAll
    PROVE  LocalInv'
<1>1. TypeOK' BY DEF JoinAll, LocalInv, TypeOK
<1>2. ASSUME NEW d \in Client PROVE ConnInv(d)' /\ WaitInv(d)'
  <2>1. ConnInv(d) /\ WaitInv(d) BY DEF LocalInv
  <2>2. cpc[d] # "none" BY DEF JoinAll, Ended
  <2>3. UNCHANGED <<cpc, spc, cphase, sphase, request, answer, lost>> BY DEF JoinAll
  <2>4. ConnInv(d)' BY <2>1, <2>3 DEF ConnInv, Printed
  <2>5. WaitInv(d)' BY <2>1, <2>2, <2>3 DEF WaitInv
  <2> QED BY <2>4, <2>5
<1> QED BY <1>1, <1>2 DEF LocalInv

\* No more tasks run than there are workers (main.rs 20: tokio's runtime): one starts
\* when a worker is free, and no other step starts one.
LEMMA WorkersBound ==
    ASSUME TypeOK, Cardinality(Running) <= Workers, [Next]_vars
    PROVE  Cardinality(Running') <= Workers
<1> USE DEF TypeOK, ClientPc
<1>1. IsFiniteSet(Running) /\ Cardinality(Running) \in Nat
      BY DriverAssumption, FS_Subset, FS_CardinalityType DEF Running
<1>2. CASE \E c \in Client : Connect(c)
  <2>1. PICK c \in Client : Connect(c) BY <1>2
  <2>2. Running' = Running \cup {c} BY <2>1 DEF Connect, Running
  <2>3. c \notin Running BY <2>1 DEF Connect, Running
  <2>4. Cardinality(Running') = Cardinality(Running) + 1
        BY <1>1, <2>2, <2>3, FS_AddElement
  <2>5. Cardinality(Running) < Workers BY <2>1 DEF Connect
  <2> HIDE DEF TypeOK, ClientPc
  <2> QED BY <1>1, <2>4, <2>5, DriverAssumption
<1>3. CASE Running' \subseteq Running
  <2>1. Cardinality(Running') <= Cardinality(Running) /\ IsFiniteSet(Running')
        BY <1>1, <1>3, FS_Subset
  <2>2. Cardinality(Running') \in Nat BY <2>1, FS_CardinalityType
  <2> HIDE DEF TypeOK, ClientPc
  <2> QED BY <1>1, <2>1, <2>2, DriverAssumption
<1>4. CASE JoinAll \/ UNCHANGED vars BY <1>3, <1>4 DEF JoinAll, vars, Running
<1>5. CASE \E c \in Client : Spawn(c) BY <1>3, <1>5 DEF Spawn, Running
<1>6. CASE \E c \in Client : ClientSend(c) \/ ClientRecv(c) \/ ClientClose(c) \/ ClientJoin(c)
      BY <1>3, <1>6 DEF ClientSend, ClientRecv, ClientClose, ClientJoin, Running
<1>7. CASE \E c \in Client : ServerStep(c)
      BY <1>3, <1>7 DEF ServerStep, Accept, ServerRecv, ServerSend, ServerClose, Running
<1>8. CASE \E c \in Client : Handshake(c) \/ Transfer(c) \/ WindUp(c) \/ Expire(c)
      BY <1>3, <1>8 DEF Handshake, Transfer, WindUp, Expire, Running
<1> QED BY <1>2, <1>4, <1>5, <1>6, <1>7, <1>8 DEF Next, ClientStep

\* Every step preserves the invariant.
LEMMA NextIInv == IInv /\ [Next]_vars => IInv'
<1> SUFFICES ASSUME IInv, [Next]_vars PROVE IInv' OBVIOUS
<1>0. LocalInv BY DEF IInv, LocalInv
<1>1. LocalInv'
  <2>1. CASE JoinAll BY <1>0, <2>1, JoinAllIInv
  <2>2. CASE \E c \in Client : Spawn(c) BY <1>0, <2>2, SpawnIInv
  <2>3. CASE \E c \in Client : ClientStep(c) BY <1>0, <2>3, ClientIInv
  <2>4. CASE \E c \in Client : ServerStep(c) BY <1>0, <2>4, ServerIInv
  <2>5. CASE \E c \in Client : Handshake(c) \/ Transfer(c) \/ WindUp(c) \/ Expire(c)
        BY <1>0, <2>5, NetworkIInv
  <2>6. CASE UNCHANGED vars
    <3>1. TypeOK' BY <1>0, <2>6 DEF vars, LocalInv, TypeOK
    <3>2. ASSUME NEW d \in Client PROVE ConnInv(d)' /\ WaitInv(d)'
      <4>1. ConnInv(d) /\ WaitInv(d) BY <1>0 DEF LocalInv
      <4>2. main' = main /\ Same(d) BY <2>6 DEF vars, Same
      <4> QED BY <4>1, <4>2, SameInv
    <3> QED BY <3>1, <3>2 DEF LocalInv
  <2> QED BY <2>1, <2>2, <2>3, <2>4, <2>5, <2>6 DEF Next
<1>2. Cardinality(Running') <= Workers BY WorkersBound DEF IInv
<1> QED BY <1>1, <1>2 DEF IInv, LocalInv

\* The driver's invariant, with any number of clients and of tokio's workers.
THEOREM DriverInvariant == Spec => []IInv
BY InitIInv, NextIInv, PTL DEF Spec

\* The server's thread gives its connection back (main.rs 228), and a client closes
\* its own (main.rs 286), only when the client has its answer, or the connection is lost.
THEOREM AnswersArrive == Spec => []AnswerNotCutOff
<1>1. IInv => AnswerNotCutOff BY DEF IInv, ConnInv, AnswerNotCutOff
<1> QED BY <1>1, DriverInvariant, PTL

-----------------------------------------------------------------------------
(* The driver implements Exchange                                          *)

Stages == [c \in Client |-> Stage(c)]
Done == {c \in Client : spc[c] = "done"}
Joined == (main = "serving")

\* What a client's step does to the other exchanges, and when it does nothing to its own.
LEMMA StageFrame ==
    ASSUME TypeOK, NEW c \in Client, ConnStep(c)
    PROVE  /\ Joined' = Joined
           /\ \A s \in Xch!Stage : Stage(c)' = s => Stages' = [Stages EXCEPT ![c] = s]
           /\ Stage(c)' = Stage(c) => Stages' = Stages
           /\ spc'[c] = spc[c] => Done' = Done
           /\ spc'[c] = "done" => Done' = Done \cup {c}
<1>1. ASSUME NEW d \in Client, d # c
      PROVE  main' = main /\ Stage(d)' = Stage(d) /\ spc'[d] = spc[d]
  <2>1. main' = main /\ Same(d) BY <1>1, Frame
  <2>2. Stage(d)' = Stage(d) BY <2>1 DEF Same, Stage, Ended, Printed
  <2> QED BY <2>1, <2>2 DEF Same
<1>2. main' = main
      BY DEF ConnStep, ClientStep, Connect, ClientSend, ClientRecv, ClientClose, ClientJoin,
             ServerStep, Accept, ServerRecv, ServerSend, ServerClose,
             Handshake, Transfer, WindUp, Expire
<1>3. ASSUME NEW s \in Xch!Stage, Stage(c)' = s PROVE Stages' = [Stages EXCEPT ![c] = s]
      BY <1>1, <1>3 DEF Stages
<1>4. Stage(c)' = Stage(c) => Stages' = Stages BY <1>1 DEF Stages
<1>5. spc'[c] = spc[c] => Done' = Done BY <1>1 DEF Done
<1>6. spc'[c] = "done" => Done' = Done \cup {c} BY <1>1 DEF Done
<1> QED BY <1>2, <1>3, <1>4, <1>5, <1>6 DEF Joined

\* Only ServerClose ends a thread.
LEMMA DoneKept ==
    ASSUME TypeOK, NEW c \in Client, ConnStep(c),
           spc'[c] = spc[c] \/ (spc[c] # "done" /\ spc'[c] # "done")
    PROVE  Done' = Done
<1>1. \A d \in Client : d # c => spc'[d] = spc[d] BY Frame DEF Same
<1> QED BY <1>1 DEF Done

\* A step that changes neither its own exchange, nor whether its thread has ended, nor
\* what is lost, is not seen.
LEMMA Unseen ==
    ASSUME TypeOK, NEW c \in Client, ConnStep(c),
           Stage(c)' = Stage(c), spc'[c] = spc[c] \/ (spc[c] # "done" /\ spc'[c] # "done"),
           lost' = lost
    PROVE  UNCHANGED Xch!xvars
<1>1. Joined' = Joined /\ Stages' = Stages BY StageFrame
<1>2. Done' = Done BY DoneKept
<1> QED BY <1>1, <1>2 DEF Xch!xvars, Stages, Done, Joined

\* A step that moves its own exchange on moves that one only.
LEMMA Moves ==
    ASSUME TypeOK, NEW c \in Client, ConnStep(c), NEW from, NEW to \in Xch!Stage,
           Stage(c) = from, Stage(c)' = to
    PROVE  Xch!Move(c, from, to) /\ Joined' = Joined
<1>1. Stages' = [Stages EXCEPT ![c] = to] /\ Joined' = Joined BY StageFrame
<1> QED BY <1>1 DEF Xch!Move, Stages

\* A client's steps are seen when its request is sent, its answer printed, or it ends.
LEMMA ClientExchange ==
    ASSUME IInv, NEW c \in Client, ClientStep(c)
    PROVE  UNCHANGED Xch!xvars \/ Xch!Ask(c) \/ Xch!PrintAnswer(c) \/ Xch!Leave(c)
<1>0. LocalInv BY DEF IInv, LocalInv
<1>1. TypeOK /\ Local(c) /\ ConnStep(c) BY <1>0, LocalFacts DEF ConnStep
<1>2. CASE Connect(c)
  <2>1. /\ cpc[c] = "queued" /\ cpc'[c] = "send"
        /\ UNCHANGED <<spc, request, answer, lost>>
        BY <1>1, <1>2 DEF Connect, TypeOK
  <2>2. Stage(c)' = Stage(c) BY <2>1 DEF Stage, Ended, Printed
  <2> QED BY <1>1, <2>1, <2>2, Unseen
<1>3. CASE ClientSend(c)
  <2>1. /\ cpc[c] = "send" /\ cpc'[c] = "recv"
        /\ UNCHANGED <<main, spc, answer, lost>>
        /\ request'[c] = "sent" \/ request'[c] = request[c]
        BY <1>1, <1>3 DEF ClientSend, TypeOK
  <2>2. request[c] = "none" /\ answer[c] = "none"
        BY <1>1, <2>1 DEF Local, ConnInv, WaitInv
  <2>3. CASE request'[c] = "sent"
    <3>1. Stage(c) = "quiet" /\ Stage(c)' = "asked"
          BY <2>1, <2>2, <2>3 DEF Stage, Ended, Printed
    <3>2. Xch!Move(c, "quiet", "asked") BY <1>1, <3>1, Moves DEF Xch!Stage
    <3> QED BY <2>1, <3>2 DEF Xch!Ask
  <2>4. CASE request'[c] = request[c]
    <3>1. Stage(c)' = Stage(c) BY <2>1, <2>2, <2>4 DEF Stage, Ended, Printed
    <3> QED BY <1>1, <2>1, <3>1, Unseen
  <2> QED BY <2>1, <2>3, <2>4
<1>4. CASE ClientRecv(c)
  <2>1. /\ cpc[c] = "recv" /\ cpc'[c] = "close"
        /\ answer[c] = "arrived" /\ answer'[c] = "read"
        /\ UNCHANGED <<main, spc, request, lost>>
        BY <1>1, <1>4 DEF ClientRecv, TypeOK
  <2>2. Stage(c) = "answered" /\ Stage(c)' = "printed"
        BY <2>1 DEF Stage, Ended, Printed
  <2>3. Xch!Move(c, "answered", "printed") BY <1>1, <2>2, Moves DEF Xch!Stage
  <2> QED BY <2>1, <2>3 DEF Xch!PrintAnswer
<1>5. CASE ClientClose(c) \/ ClientJoin(c)
  <2>1. /\ cpc[c] \in {"close", "join"} /\ cpc'[c] \in {"join", "done", "panicked"}
        /\ UNCHANGED <<main, spc, request, answer>>
        /\ lost' \in {lost, lost \cup {c}}
        /\ cpc'[c] = "join" => lost' = lost
        BY <1>1, <1>5 DEF ClientClose, ClientJoin, TypeOK
  <2>2. Printed(c) /\ Stage(c) = "printed"
        BY <1>1, <2>1 DEF Local, ConnInv, Stage, Ended, Printed
  <2>3. CASE cpc'[c] = "join"
    <3>1. Stage(c)' = Stage(c) BY <2>1, <2>2, <2>3 DEF Stage, Ended, Printed
    <3> QED BY <1>1, <2>1, <2>3, <3>1, Unseen
  <2>4. CASE cpc'[c] \in {"done", "panicked"}
    <3>1. Stage(c)' = "left" BY <2>4 DEF Stage, Ended
    <3>2. Xch!Move(c, "printed", "left") BY <1>1, <2>2, <3>1, Moves DEF Xch!Stage
    <3> QED BY <2>1, <3>2 DEF Xch!Leave
  <2> QED BY <2>1, <2>3, <2>4
<1> QED BY <1>2, <1>3, <1>4, <1>5 DEF ClientStep

\* The server's are when it reads the request, answers, or gives the connection back: the
\* client has printed its answer then, or the connection is lost.
LEMMA ServerExchange ==
    ASSUME IInv, NEW c \in Client, ServerStep(c)
    PROVE  UNCHANGED Xch!xvars \/ Xch!Hear(c) \/ Xch!Answer(c) \/ Xch!Forget(c)
<1>0. LocalInv BY DEF IInv, LocalInv
<1>1. TypeOK /\ Local(c) /\ ConnStep(c) BY <1>0, LocalFacts DEF ConnStep
<1>2. CASE Accept(c)
  <2>1. /\ spc[c] = "none" /\ spc'[c] = "recv"
        /\ UNCHANGED <<cpc, request, answer, lost>>
        BY <1>1, <1>2 DEF Accept, TypeOK
  <2>2. Stage(c)' = Stage(c) BY <2>1 DEF Stage, Ended, Printed
  <2> QED BY <1>1, <2>1, <2>2, Unseen
<1>3. CASE ServerRecv(c)
  <2>1. /\ spc[c] = "recv" /\ spc'[c] = "send"
        /\ request[c] = "arrived" /\ request'[c] = "read"
        /\ UNCHANGED <<main, cpc, answer, lost>>
        BY <1>1, <1>3 DEF ServerRecv, TypeOK
  <2>2. answer[c] = "none" /\ ~Ended(c) BY <1>1, <2>1 DEF Local, ConnInv, Ended, Printed
  <2>3. Stage(c) = "asked" /\ Stage(c)' = "heard"
        BY <2>1, <2>2 DEF Stage, Ended, Printed
  <2>4. Xch!Move(c, "asked", "heard") BY <1>1, <2>3, Moves DEF Xch!Stage
  <2>5. UNCHANGED <<Done, Joined>> BY <2>1, DoneKept, <1>1 DEF Joined
  <2> QED BY <2>1, <2>4, <2>5 DEF Xch!Hear, Done, Joined
<1>4. CASE ServerSend(c)
  <2>1. /\ spc[c] = "send" /\ spc'[c] = "close"
        /\ answer'[c] = "sent" \/ answer'[c] = answer[c]
        /\ UNCHANGED <<main, cpc, request, lost>>
        BY <1>1, <1>4 DEF ServerSend, TypeOK
  <2>2. answer[c] = "none" /\ ~Ended(c) /\ request[c] = "read"
        BY <1>1, <2>1 DEF Local, ConnInv, WaitInv, Ended, Printed
  <2>3. CASE answer'[c] = "sent"
    <3>1. Stage(c) = "heard" /\ Stage(c)' = "answered"
          BY <2>1, <2>2, <2>3 DEF Stage, Ended, Printed
    <3>2. Xch!Move(c, "heard", "answered") BY <1>1, <3>1, Moves DEF Xch!Stage
    <3>3. UNCHANGED <<Done, Joined>> /\ c \notin Done BY <2>1, DoneKept, <1>1 DEF Joined, Done
    <3> QED BY <2>1, <3>2, <3>3 DEF Xch!Answer, Done, Joined
  <2>4. CASE answer'[c] = answer[c]
    <3>1. Stage(c)' = Stage(c) BY <2>1, <2>2, <2>4 DEF Stage, Ended, Printed
    <3> QED BY <1>1, <2>1, <3>1, Unseen
  <2> QED BY <2>1, <2>3, <2>4
<1>5. CASE ServerClose(c)
  <2>1. /\ spc[c] = "close" /\ spc'[c] = "done" /\ sphase[c] = "closed"
        /\ UNCHANGED <<main, cpc, request, answer, lost>>
        BY <1>1, <1>5 DEF ServerClose, TypeOK
  <2>2. request[c] = "read" /\ (Printed(c) \/ c \in lost) /\ (Ended(c) => Printed(c))
        BY <1>1, <2>1 DEF Local, ConnInv, WaitInv, Ended
  <2>3. Stage(c) \in {"printed", "left"} \/ (c \in lost /\ Stage(c) \in {"heard", "answered"})
        BY <1>1, <2>2 DEF Local, MsgState, Stage, Printed
  <2>4. Stage(c)' = Stage(c) BY <2>1 DEF Stage, Ended, Printed
  <2>5. Stages' = Stages /\ Done' = Done \cup {c} /\ c \notin Done
        BY <1>1, <2>1, <2>4, StageFrame DEF Done
  <2> QED BY <2>1, <2>3, <2>5 DEF Xch!Forget, Stages, Done
<1> QED BY <1>2, <1>3, <1>4, <1>5 DEF ServerStep

\* Of what happens between the loops only the loss of a connection is seen.
LEMMA NetworkExchange ==
    ASSUME IInv, NEW c \in Client, Handshake(c) \/ Transfer(c) \/ WindUp(c) \/ Expire(c)
    PROVE  UNCHANGED Xch!xvars \/ Xch!Lose(c)
<1>1. TypeOK /\ ConnStep(c) BY DEF IInv, ConnStep
<1>2. CASE Handshake(c) \/ WindUp(c)
  <2>1. UNCHANGED <<cpc, spc, request, answer, lost>> BY <1>2 DEF Handshake, WindUp
  <2>2. Stage(c)' = Stage(c) BY <2>1 DEF Stage, Ended, Printed
  <2> QED BY <1>1, <2>1, <2>2, Unseen
<1>3. CASE Transfer(c)
  <2>1. /\ UNCHANGED <<cpc, spc, lost>>
        /\ \/ answer' = answer /\ request[c] = "sent" /\ request'[c] = "arrived"
           \/ request' = request /\ answer[c] = "sent" /\ answer'[c] = "arrived"
        BY <1>1, <1>3 DEF Transfer, TypeOK
  <2>2. Stage(c)' = Stage(c) BY <2>1 DEF Stage, Ended, Printed
  <2> QED BY <1>1, <2>1, <2>2, Unseen
<1>4. CASE Expire(c)
  <2>1. UNCHANGED <<main, cpc, spc, request, answer>> /\ lost' = lost \cup {c}
        BY <1>4 DEF Expire
  <2>2. Stage(c)' = Stage(c) BY <2>1 DEF Stage, Ended, Printed
  <2>3. Stages' = Stages /\ Done' = Done /\ Joined' = Joined
        BY <1>1, <2>1, <2>2, StageFrame
  <2> QED BY <2>1, <2>3 DEF Xch!Lose, Stages, Done, Joined
<1> QED BY <1>2, <1>3, <1>4

\* Every step is one of Exchange's or is not seen.
LEMMA ExchangeStep ==
    ASSUME IInv, [Next]_vars
    PROVE  [Xch!XNext]_(Xch!xvars)
<1>1. CASE JoinAll
  <2>1. \A c \in Client : Stage(c) = "left" BY <1>1 DEF JoinAll, Stage
  <2>2. Joined' /\ UNCHANGED <<cpc, spc, request, answer, lost>> BY <1>1 DEF JoinAll, Joined
  <2>3. Stages' = Stages /\ Done' = Done
        BY <2>2 DEF Stages, Done, Stage, Ended, Printed
  <2>4. Xch!Join BY <2>1, <2>2, <2>3 DEF Xch!Join, Stages, Done, Joined
  <2> QED BY <2>4 DEF Xch!XNext
<1>2. ASSUME NEW c \in Client, Spawn(c) PROVE UNCHANGED Xch!xvars
  <2>1. /\ cpc[c] = "none" /\ cpc'[c] = "queued"
        /\ \A d \in Client : d # c => cpc'[d] = cpc[d]
        /\ Joined' = Joined
        /\ UNCHANGED <<spc, request, answer, lost>>
        BY <1>2 DEF Spawn, IInv, TypeOK, Joined
  <2>2. \A d \in Client : Ended(d)' = Ended(d) BY <2>1 DEF Ended
  <2>3. Stages' = Stages /\ Done' = Done BY <2>1, <2>2 DEF Stages, Done, Stage, Printed
  <2> QED BY <2>1, <2>3 DEF Xch!xvars, Stages, Done, Joined
<1>3. CASE \E c \in Client : ClientStep(c) BY <1>3, ClientExchange DEF Xch!XNext
<1>4. CASE \E c \in Client : ServerStep(c) BY <1>4, ServerExchange DEF Xch!XNext
<1>5. CASE \E c \in Client : Handshake(c) \/ Transfer(c) \/ WindUp(c) \/ Expire(c)
      BY <1>5, NetworkExchange DEF Xch!XNext
<1>6. CASE UNCHANGED vars
  <2>1. UNCHANGED <<Stages, Done, Joined, lost>>
        BY <1>6 DEF vars, Stages, Done, Joined, Stage, Ended, Printed
  <2> QED BY <2>1 DEF Xch!xvars, Stages, Done, Joined
<1> QED BY <1>1, <1>2, <1>3, <1>4, <1>5, <1>6 DEF Next

\* The program is an exchange of requests and answers (main.rs 185-294): each is read and
\* answered once, a client that ends has printed its answer, the server lets go of it no
\* sooner unless the connection is lost, and main passes join_all after them all.
THEOREM ExchangeImplemented == Spec => ImplementsExchange
<1>1. Init => Xch!XInit
  <2> SUFFICES ASSUME Init PROVE Xch!XInit OBVIOUS
  <2>1. /\ \A c \in Client : Stage(c) = "quiet" /\ spc[c] # "done"
        /\ ~Joined /\ lost = {}
        BY DEF Init, Stage, Ended, Printed, Joined
  <2>2. Stages = [c \in Client |-> "quiet"] /\ Done = {} BY <2>1 DEF Stages, Done
  <2> QED BY <2>1, <2>2 DEF Xch!XInit, Stages, Done, Joined
<1>2. IInv /\ [Next]_vars => [Xch!XNext]_(Xch!xvars) BY ExchangeStep
<1> QED BY <1>1, <1>2, DriverInvariant, PTL DEF Spec, ImplementsExchange, Xch!XSpec

-----------------------------------------------------------------------------
(* Liveness.  ENABLED is opaque to the provers: the theorems below take    *)
(* []NoHiddenWait, which spells out when the fair steps can be taken, as a *)
(* premise.  It restates the guards of the actions and says nothing of the *)
(* code.                                                                   *)

\* What a thread waits for, and what a connection does.
SpawnReady(c) == main = "spawning" /\ cpc[c] = "none"

ConnectReady(c) == cpc[c] = "queued" /\ Cardinality(Running) < Workers

ClientReady(c) ==
    \/ ConnectReady(c)
    \/ cpc[c] = "send" /\ cphase[c] # "handshake"
    \/ cpc[c] = "recv" /\ cphase[c] # "closed" /\ answer[c] = "arrived"
    \/ cpc[c] = "close" /\ cphase[c] \in {"open", "closed"}
    \/ cpc[c] = "join" /\ cphase[c] = "closed"

ServerReady(c) ==
    \/ spc[c] = "none" /\ sphase[c] # "none"
    \/ spc[c] = "recv" /\ sphase[c] # "closed" /\ request[c] = "arrived"
    \/ spc[c] = "send"
    \/ spc[c] = "close" /\ sphase[c] = "closed"

HandshakeReady(c) ==
    \/ cphase[c] = "handshake" /\ sphase[c] \in {"none", "handshake"}
    \/ cphase[c] = "open" /\ sphase[c] = "handshake"

TransferReady(c) ==
    /\ cphase[c] = "open" /\ sphase[c] = "open"
    /\ "sent" \in {request[c], answer[c]}

WindUpReady(c) ==
    \/ cphase[c] = "closing"
    \/ cphase[c] \in {"handshake", "open"} /\ sphase[c] = "closed"
    \/ cphase[c] = "closed" /\ sphase[c] \in {"handshake", "open", "closing"}

\* The steps that FairSpec promises can be taken then, and only then.
NoHiddenWait ==
    \A c \in Client :
        /\ SpawnReady(c) <=> ENABLED <<Spawn(c)>>_vars
        /\ ConnectReady(c) <=> ENABLED <<Connect(c)>>_vars
        /\ ClientReady(c) <=> ENABLED <<ClientStep(c) /\ cpc'[c] # "panicked">>_vars
        /\ ServerReady(c) <=> ENABLED <<ServerStep(c)>>_vars
        /\ HandshakeReady(c) <=> ENABLED <<Handshake(c)>>_vars
        /\ TransferReady(c) <=> ENABLED <<Transfer(c)>>_vars
        /\ WindUpReady(c) <=> ENABLED <<WindUp(c)>>_vars

\* A step of the program is one of c's connection, or spawns c's task, or does not
\* touch the connection.
LEMMA StepOf ==
    ASSUME TypeOK, NEW c \in Client, [Next]_vars
    PROVE  ConnStep(c) \/ Spawn(c) \/ Same(c)
<1>1. CASE \E d \in Client : ConnStep(d) BY <1>1, Frame
<1>2. CASE \E d \in Client : Spawn(d) BY <1>2 DEF Spawn, TypeOK, Same
<1>3. CASE JoinAll \/ UNCHANGED vars BY <1>3 DEF JoinAll, vars, Same
<1> QED BY <1>1, <1>2, <1>3 DEF Next, ConnStep

\* The ways a connection ends.
Gone(c) == cphase[c] = "closed" /\ sphase[c] = "closed"
Half(c) ==
    \/ cphase[c] \in {"handshake", "open", "closing"} /\ sphase[c] = "closed"
    \/ cphase[c] = "closed" /\ sphase[c] \in {"handshake", "open", "closing"}
Both(c) == cphase[c] = "closing" /\ sphase[c] \in {"handshake", "closing"}
One(c) == cphase[c] = "closing" /\ sphase[c] = "open"
Leaving(c) == One(c) \/ Both(c) \/ Half(c) \/ Gone(c)

\* A connection that is going down goes further down.
LEMMA LeavingStep ==
    ASSUME IInv, NEW c \in Client, [Next]_vars
    PROVE  /\ Gone(c) => Gone(c)'
           /\ Half(c) => Half(c)' \/ Gone(c)'
           /\ Both(c) => Both(c)' \/ Half(c)' \/ Gone(c)'
           /\ One(c) => Leaving(c)'
<1>0. TypeOK /\ ConnInv(c) BY DEF IInv
<1> USE <1>0 DEF TypeOK, Leaving, One, Both, Half, Gone
<1>1. CASE ClientStep(c)
  <2>1. CASE ClientClose(c) BY <2>1 DEF ClientClose
  <2>2. CASE Connect(c) BY <2>2 DEF Connect, ConnInv
  <2>3. CASE ClientSend(c) \/ ClientRecv(c) \/ ClientJoin(c)
        BY <2>3 DEF ClientSend, ClientRecv, ClientJoin
  <2> QED BY <1>1, <2>1, <2>2, <2>3 DEF ClientStep
<1>2. CASE ServerStep(c)
      BY <1>2 DEF ServerStep, Accept, ServerRecv, ServerSend, ServerClose
<1>3. CASE Handshake(c) BY <1>3 DEF Handshake
<1>4. CASE Transfer(c) BY <1>4 DEF Transfer
<1>5. CASE WindUp(c) BY <1>5 DEF WindUp
<1>6. CASE Expire(c) BY <1>6 DEF Expire
<1>7. CASE Spawn(c) BY <1>7 DEF Spawn
<1>8. CASE Same(c) BY <1>8 DEF Same
<1> QED BY <1>1, <1>2, <1>3, <1>4, <1>5, <1>6, <1>7, <1>8, StepOf DEF ConnStep

\* A timer takes it one stage further.
LEMMA WindUpStep ==
    ASSUME TypeOK, NEW c \in Client, WindUp(c)
    PROVE  /\ Half(c) => Gone(c)'
           /\ Both(c) => Half(c)' \/ Gone(c)'
           /\ One(c) => Both(c)' \/ Half(c)' \/ Gone(c)'
BY DEF TypeOK, One, Both, Half, Gone, WindUp

\* What the liveness of one connection rests on.
Live(c) == []IInv /\ [][Next]_vars /\ []NoHiddenWait /\ Fair(c)

\* When one end has left, both are closed in the end (server.rs 128, client.rs 64: the
\* draining and the idle timers).
LEMMA WindsUp ==
    ASSUME NEW c \in Client
    PROVE  Live(c) => (Leaving(c) ~> Gone(c))
<1>1. IInv /\ [Next]_vars =>
          /\ Gone(c) => Gone(c)'
          /\ Half(c) => Half(c)' \/ Gone(c)'
          /\ Both(c) => Both(c)' \/ Half(c)' \/ Gone(c)'
          /\ One(c) => One(c)' \/ Both(c)' \/ Half(c)' \/ Gone(c)'
      BY LeavingStep DEF Leaving
<1>2. TypeOK /\ <<WindUp(c)>>_vars =>
          /\ Half(c) => Gone(c)'
          /\ Both(c) => Half(c)' \/ Gone(c)'
          /\ One(c) => Both(c)' \/ Half(c)' \/ Gone(c)'
      BY WindUpStep
<1>3. NoHiddenWait /\ (One(c) \/ Both(c) \/ Half(c)) => ENABLED <<WindUp(c)>>_vars
      BY DEF NoHiddenWait, WindUpReady, One, Both, Half
<1>4. IInv => TypeOK BY DEF IInv
<1>5. Fair(c) => WF_vars(WindUp(c)) BY PTL DEF Fair
<1>6. Leaving(c) => One(c) \/ Both(c) \/ Half(c) \/ Gone(c) BY DEF Leaving
<1> QED BY <1>1, <1>2, <1>3, <1>4, <1>5, <1>6, PTL DEF Live

-----------------------------------------------------------------------------
(* The stages of a request after the server's answer.                      *)

Open(c) == cphase[c] = "open" /\ sphase[c] = "open"
Answered(c) == spc[c] = "close" /\ Open(c) /\ cpc[c] = "recv" /\ answer[c] = "sent"
AnswerHere(c) == spc[c] = "close" /\ Open(c) /\ cpc[c] = "recv" /\ answer[c] = "arrived"
AnswerRead(c) == spc[c] = "close" /\ Open(c) /\ cpc[c] = "close"

\* A thread of the server that has answered is at one of them, or the connection is
\* going down.
LEMMA CloseStages ==
    ASSUME IInv, NEW c \in Client, spc[c] = "close"
    PROVE  Answered(c) \/ AnswerHere(c) \/ AnswerRead(c) \/ Leaving(c)
<1>1. ConnInv(c) /\ WaitInv(c) /\ TypeOK BY DEF IInv
<1> QED BY <1>1 DEF ConnInv, WaitInv, TypeOK, ClientPc, Phase, MsgState, Printed, Open,
               Answered, AnswerHere, AnswerRead, Leaving, One, Both, Half, Gone

\* They are passed in this order.
LEMMA AnswerStep ==
    ASSUME IInv, NEW c \in Client, [Next]_vars
    PROVE  /\ Answered(c) => Answered(c)' \/ AnswerHere(c)' \/ Leaving(c)'
           /\ AnswerHere(c) => AnswerHere(c)' \/ AnswerRead(c)' \/ Leaving(c)'
           /\ AnswerRead(c) => AnswerRead(c)' \/ Leaving(c)'
           /\ spc[c] = "close" => spc'[c] \in {"close", "done"}
           /\ cpc[c] = "close" => cpc'[c] \in {"close", "join", "done", "panicked"}
           /\ cpc[c] = "join" => cpc'[c] \in {"join", "done"}
           /\ spc[c] = "done" => spc'[c] = "done"
           /\ Ended(c) => Ended(c)'
<1>0. TypeOK BY DEF IInv
<1>a. request[c] = "sent" => spc[c] # "close" BY DEF IInv, WaitInv
<1> USE DEF TypeOK, Open, Answered, AnswerHere, AnswerRead, Leaving, One, Half, Ended
<1>1. CASE ClientStep(c)
  <2>1. CASE ClientClose(c) BY <1>0, <2>1 DEF ClientClose
  <2>2. CASE ClientRecv(c) BY <1>0, <2>2 DEF ClientRecv
  <2>3. CASE Connect(c) \/ ClientSend(c) \/ ClientJoin(c)
        BY <1>0, <2>3 DEF Connect, ClientSend, ClientJoin
  <2> QED BY <1>1, <2>1, <2>2, <2>3 DEF ClientStep
<1>2. CASE ServerStep(c)
      BY <1>0, <1>2 DEF ServerStep, Accept, ServerRecv, ServerSend, ServerClose
<1>3. CASE Handshake(c) BY <1>0, <1>3 DEF Handshake
<1>4. CASE Transfer(c) BY <1>0, <1>a, <1>4 DEF Transfer
<1>5. CASE WindUp(c) BY <1>0, <1>5 DEF WindUp
<1>6. CASE Expire(c) BY <1>0, <1>6 DEF Expire
<1>7. CASE Spawn(c) BY <1>0, <1>7 DEF Spawn
<1>8. CASE Same(c) BY <1>8 DEF Same
<1> QED BY <1>0, <1>1, <1>2, <1>3, <1>4, <1>5, <1>6, <1>7, <1>8, StepOf DEF ConnStep

\* What the fair steps do at each stage.
LEMMA AnswerHelp ==
    ASSUME IInv, NEW c \in Client
    PROVE  /\ Answered(c) /\ Transfer(c) => AnswerHere(c)'
           /\ AnswerHere(c) /\ ClientStep(c) => AnswerRead(c)'
           /\ AnswerRead(c) /\ ClientStep(c) => Leaving(c)'
           /\ spc[c] = "close" /\ ServerStep(c) => spc'[c] = "done"
           /\ cpc[c] = "close" /\ ClientStep(c) => cpc'[c] \in {"join", "done", "panicked"}
           /\ cpc[c] = "join" /\ ClientStep(c) => cpc'[c] = "done"
<1>0. TypeOK BY DEF IInv
<1>a. request[c] = "sent" => spc[c] # "close" BY DEF IInv, WaitInv
<1> USE DEF TypeOK, Open, Answered, AnswerHere, AnswerRead, Leaving, One, Half
<1>1. Answered(c) /\ Transfer(c) => AnswerHere(c)' BY <1>0, <1>a DEF Transfer
<1>2. AnswerHere(c) /\ ClientStep(c) => AnswerRead(c)'
      BY <1>0 DEF ClientStep, Connect, ClientSend, ClientRecv, ClientClose, ClientJoin
<1>3. AnswerRead(c) /\ ClientStep(c) => Leaving(c)'
      BY <1>0 DEF ClientStep, Connect, ClientSend, ClientRecv, ClientClose, ClientJoin
<1>4. spc[c] = "close" /\ ServerStep(c) => spc'[c] = "done"
      BY <1>0 DEF ServerStep, Accept, ServerRecv, ServerSend, ServerClose
<1>5. cpc[c] = "close" /\ ClientStep(c) => cpc'[c] \in {"join", "done", "panicked"}
      BY <1>0 DEF ClientStep, Connect, ClientSend, ClientRecv, ClientClose, ClientJoin
<1>6. cpc[c] = "join" /\ ClientStep(c) => cpc'[c] = "done"
      BY <1>0 DEF ClientStep, Connect, ClientSend, ClientRecv, ClientClose, ClientJoin
<1> QED BY <1>1, <1>2, <1>3, <1>4, <1>5, <1>6

\* And that they can be taken.
LEMMA AnswerReady ==
    ASSUME IInv, NoHiddenWait, NEW c \in Client
    PROVE  /\ Answered(c) => ENABLED <<Transfer(c)>>_vars
           /\ AnswerHere(c) \/ AnswerRead(c) \/ cpc[c] = "close" \/ (cpc[c] = "join" /\ Gone(c)) =>
                  ENABLED <<ClientStep(c) /\ cpc'[c] # "panicked">>_vars
           /\ spc[c] = "close" /\ Gone(c) => ENABLED <<ServerStep(c)>>_vars
<1>0. TypeOK /\ WaitInv(c) BY DEF IInv
<1>1. Answered(c) => TransferReady(c) BY DEF Answered, TransferReady, Open
<1>2. AnswerHere(c) \/ AnswerRead(c) \/ (cpc[c] = "join" /\ Gone(c)) => ClientReady(c)
      BY DEF AnswerHere, AnswerRead, Open, Gone, ClientReady
<1>3. cpc[c] = "close" => ClientReady(c)
      BY <1>0 DEF WaitInv, ClientReady
<1>4. spc[c] = "close" /\ Gone(c) => ServerReady(c) BY DEF ServerReady, Gone
<1> QED BY <1>1, <1>2, <1>3, <1>4 DEF NoHiddenWait

\* After the answer the connection comes to its end, whatever the client does.
LEMMA ComesToAnEnd ==
    ASSUME NEW c \in Client
    PROVE  Live(c) => (spc[c] = "close" ~> Gone(c))
<1>1. IInv /\ spc[c] = "close" => Answered(c) \/ AnswerHere(c) \/ AnswerRead(c) \/ Leaving(c)
      BY CloseStages
<1>2. IInv /\ [Next]_vars =>
          /\ Answered(c) => Answered(c)' \/ AnswerHere(c)' \/ Leaving(c)'
          /\ AnswerHere(c) => AnswerHere(c)' \/ AnswerRead(c)' \/ Leaving(c)'
          /\ AnswerRead(c) => AnswerRead(c)' \/ Leaving(c)'
      BY AnswerStep
<1>3. IInv /\ <<Transfer(c)>>_vars => (Answered(c) => AnswerHere(c)') BY AnswerHelp
<1>4. IInv /\ <<ClientStep(c) /\ cpc'[c] # "panicked">>_vars =>
          (AnswerHere(c) => AnswerRead(c)') /\ (AnswerRead(c) => Leaving(c)')
      BY AnswerHelp
<1>5. IInv /\ NoHiddenWait =>
          /\ Answered(c) => ENABLED <<Transfer(c)>>_vars
          /\ AnswerHere(c) \/ AnswerRead(c) =>
                 ENABLED <<ClientStep(c) /\ cpc'[c] # "panicked">>_vars
      BY AnswerReady
<1>6. Fair(c) => WF_vars(Transfer(c)) /\ WF_vars(ClientStep(c) /\ cpc'[c] # "panicked")
      BY PTL DEF Fair
<1>7. Live(c) => (Leaving(c) ~> Gone(c)) BY WindsUp
<1> QED BY <1>1, <1>2, <1>3, <1>4, <1>5, <1>6, <1>7, PTL DEF Live

\* ServerThreadsEnd for one thread.
LEMMA ThreadEnds ==
    ASSUME NEW c \in Client
    PROVE  Live(c) => (spc[c] = "close" ~> spc[c] = "done")
<1>1. IInv /\ [Next]_vars =>
          /\ spc[c] = "close" => (spc[c] = "close")' \/ (spc[c] = "done")'
          /\ Gone(c) => Gone(c)'
      BY AnswerStep, LeavingStep
<1>2. IInv /\ <<ServerStep(c)>>_vars => (spc[c] = "close" => (spc[c] = "done")')
      BY AnswerHelp
<1>3. IInv /\ NoHiddenWait /\ spc[c] = "close" /\ Gone(c) => ENABLED <<ServerStep(c)>>_vars
      BY AnswerReady
<1>4. Fair(c) => WF_vars(ServerStep(c)) BY PTL DEF Fair
<1> QED BY <1>1, <1>2, <1>3, <1>4, ComesToAnEnd, PTL DEF Live

\* A thread of the server that has answered ends (main.rs 228: it calls dtp_close until it
\* succeeds), given that the fair steps can be taken when NoHiddenWait says.
THEOREM ServerThreadsFinish == FairSpec /\ []NoHiddenWait => ServerThreadsEnd
<1>1. ASSUME NEW c \in Client
      PROVE  FairSpec /\ []NoHiddenWait => (spc[c] = "close" ~> spc[c] = "done")
  <2>1. AllFair => Fair(c) BY DEF AllFair
  <2>2. FairSpec => Spec /\ AllFair BY PTL DEF FairSpec
  <2> QED BY <2>1, <2>2, ThreadEnds, DriverInvariant, PTL DEF Spec, Live
<1> QED BY <1>1 DEF ServerThreadsEnd

-----------------------------------------------------------------------------
(* The stages of a request up to the server's answer, if no connection is  *)
(* lost.                                                                   *)

Knocking(c) == cpc[c] = "send" /\ cphase[c] = "handshake" /\ sphase[c] = "none"
HalfOpen(c) == cpc[c] = "send" /\ cphase[c] = "handshake" /\ sphase[c] = "handshake"
Connected(c) == cpc[c] = "send" /\ cphase[c] = "open" /\ sphase[c] \in {"handshake", "open"}
AskedEarly(c) ==
    cpc[c] = "recv" /\ cphase[c] = "open" /\ sphase[c] = "handshake" /\ request[c] = "sent"
Asked(c) == cpc[c] = "recv" /\ Open(c) /\ request[c] = "sent"
Unserved(c) == cpc[c] = "recv" /\ Open(c) /\ request[c] = "arrived" /\ spc[c] = "none"
Polled(c) == cpc[c] = "recv" /\ Open(c) /\ request[c] = "arrived" /\ spc[c] = "recv"
Answering(c) == cpc[c] = "recv" /\ Open(c) /\ spc[c] = "send"

\* A task that has a worker is at one of them, or the answer is there.
LEMMA RequestStages ==
    ASSUME IInv, lost = {}, NEW c \in Client, c \in Running
    PROVE  \/ Knocking(c) \/ HalfOpen(c) \/ Connected(c) \/ AskedEarly(c) \/ Asked(c)
           \/ Unserved(c) \/ Polled(c) \/ Answering(c)
           \/ spc[c] = "close" \/ cpc[c] \in {"close", "join"}
<1>1. ConnInv(c) /\ WaitInv(c) /\ TypeOK BY DEF IInv
<1>2. CASE cpc[c] = "send"
      BY <1>1, <1>2 DEF ConnInv, WaitInv, TypeOK, Phase, Printed, Knocking, HalfOpen, Connected
<1>3. CASE cpc[c] = "recv"
  <2>1. cphase[c] = "open" /\ sphase[c] \in {"handshake", "open"}
        BY <1>1, <1>3 DEF ConnInv, WaitInv, TypeOK, Phase, Printed
  <2>2. request[c] # "none" BY <1>1, <1>3, <2>1 DEF WaitInv
  <2> QED BY <1>1, <1>3, <2>1, <2>2 DEF ConnInv, WaitInv, TypeOK, Phase, MsgState, ServerPc,
             Open, AskedEarly, Asked, Unserved, Polled, Answering
<1> QED BY <1>2, <1>3 DEF Running

\* They are passed in this order.
LEMMA RequestStep ==
    ASSUME IInv, NEW c \in Client, [Next]_vars, lost' = {}
    PROVE  /\ Knocking(c) => Knocking(c)' \/ HalfOpen(c)'
           /\ HalfOpen(c) => HalfOpen(c)' \/ Connected(c)'
           /\ Connected(c) => Connected(c)' \/ AskedEarly(c)' \/ Asked(c)'
           /\ AskedEarly(c) => AskedEarly(c)' \/ Asked(c)'
           /\ Asked(c) => Asked(c)' \/ Unserved(c)' \/ Polled(c)'
           /\ Unserved(c) => Unserved(c)' \/ Polled(c)'
           /\ Polled(c) => Polled(c)' \/ Answering(c)'
           /\ Answering(c) => Answering(c)' \/ (spc[c] = "close")'
<1>0. TypeOK /\ ConnInv(c) /\ WaitInv(c) BY DEF IInv
<1>a. answer[c] # "none" => spc[c] \in {"close", "done"} BY <1>0 DEF ConnInv
<1>b. request[c] = "sent" => spc[c] \in {"none", "recv"} BY <1>0 DEF WaitInv, TypeOK, ServerPc
<1>c. spc[c] = "send" => request[c] = "read" BY <1>0 DEF WaitInv
<1> USE <1>0, <1>a, <1>b, <1>c DEF TypeOK, Open, Knocking, HalfOpen, Connected, AskedEarly,
        Asked, Unserved, Polled, Answering
<1>1. CASE ClientStep(c)
  <2>1. CASE ClientClose(c) BY <2>1 DEF ClientClose
  <2>2. CASE ClientRecv(c) BY <2>2 DEF ClientRecv
  <2>3. CASE Connect(c) BY <2>3 DEF Connect
  <2>4. CASE ClientSend(c) BY <2>4 DEF ClientSend
  <2>5. CASE ClientJoin(c) BY <2>5 DEF ClientJoin
  <2> QED BY <1>1, <2>1, <2>2, <2>3, <2>4, <2>5 DEF ClientStep
<1>2. CASE ServerStep(c)
      BY <1>2 DEF ServerStep, Accept, ServerRecv, ServerSend, ServerClose
<1>3. CASE Handshake(c) BY <1>3 DEF Handshake
<1>4. CASE Transfer(c) BY <1>4 DEF Transfer
<1>5. CASE WindUp(c) BY <1>5 DEF WindUp
<1>6. CASE Expire(c) BY <1>6 DEF Expire
<1>7. CASE Spawn(c) BY <1>7 DEF Spawn
<1>8. CASE Same(c) BY <1>8 DEF Same
<1> QED BY <1>1, <1>2, <1>3, <1>4, <1>5, <1>6, <1>7, <1>8, StepOf DEF ConnStep

\* What the fair steps do at each stage.
LEMMA RequestHelp ==
    ASSUME IInv, NEW c \in Client
    PROVE  /\ Handshake(c) =>
                  /\ Knocking(c) => HalfOpen(c)'
                  /\ HalfOpen(c) => Connected(c)'
                  /\ AskedEarly(c) => Asked(c)'
           /\ ClientStep(c) => (Connected(c) => AskedEarly(c)' \/ Asked(c)')
           /\ Transfer(c) => (Asked(c) => Unserved(c)' \/ Polled(c)')
           /\ ServerStep(c) =>
                  /\ Unserved(c) => Polled(c)'
                  /\ Polled(c) => Answering(c)'
                  /\ Answering(c) => (spc[c] = "close")'
<1>0. TypeOK /\ ConnInv(c) /\ WaitInv(c) BY DEF IInv
<1>a. answer[c] # "none" => spc[c] \in {"close", "done"} BY <1>0 DEF ConnInv
<1>b. request[c] = "sent" => spc[c] \in {"none", "recv"} BY <1>0 DEF WaitInv, TypeOK, ServerPc
<1> USE <1>0, <1>a, <1>b DEF TypeOK, Open, Knocking, HalfOpen, Connected, AskedEarly,
        Asked, Unserved, Polled, Answering
<1>1. Handshake(c) =>
          /\ Knocking(c) => HalfOpen(c)'
          /\ HalfOpen(c) => Connected(c)'
          /\ AskedEarly(c) => Asked(c)'
      BY DEF Handshake
<1>2. ClientStep(c) => (Connected(c) => AskedEarly(c)' \/ Asked(c)')
      BY DEF ClientStep, Connect, ClientSend, ClientRecv, ClientClose, ClientJoin
<1>3. Transfer(c) => (Asked(c) => Unserved(c)' \/ Polled(c)') BY DEF Transfer
<1>4. ServerStep(c) =>
          /\ Unserved(c) => Polled(c)'
          /\ Polled(c) => Answering(c)'
          /\ Answering(c) => (spc[c] = "close")'
      BY DEF ServerStep, Accept, ServerRecv, ServerSend, ServerClose
<1> QED BY <1>1, <1>2, <1>3, <1>4

\* And that they can be taken.
LEMMA RequestReady ==
    ASSUME IInv, NoHiddenWait, NEW c \in Client
    PROVE  /\ Knocking(c) \/ HalfOpen(c) \/ AskedEarly(c) => ENABLED <<Handshake(c)>>_vars
           /\ Connected(c) => ENABLED <<ClientStep(c) /\ cpc'[c] # "panicked">>_vars
           /\ Asked(c) => ENABLED <<Transfer(c)>>_vars
           /\ Unserved(c) \/ Polled(c) \/ Answering(c) => ENABLED <<ServerStep(c)>>_vars
<1>1. Knocking(c) \/ HalfOpen(c) \/ AskedEarly(c) => HandshakeReady(c)
      BY DEF Knocking, HalfOpen, AskedEarly, HandshakeReady
<1>2. Connected(c) => ClientReady(c) BY DEF Connected, ClientReady
<1>3. Asked(c) => TransferReady(c) BY DEF Asked, TransferReady, Open
<1>4. Unserved(c) \/ Polled(c) \/ Answering(c) => ServerReady(c)
      BY DEF Unserved, Polled, Answering, ServerReady, Open
<1> QED BY <1>1, <1>2, <1>3, <1>4 DEF NoHiddenWait

\* A running task gets as far as the server's answer.
LEMMA GetsAnswered ==
    ASSUME NEW c \in Client
    PROVE  Live(c) /\ [](lost = {}) =>
               (c \in Running ~> (spc[c] = "close" \/ cpc[c] \in {"close", "join"}))
<1>1. IInv /\ lost = {} /\ c \in Running =>
          \/ Knocking(c) \/ HalfOpen(c) \/ Connected(c) \/ AskedEarly(c) \/ Asked(c)
          \/ Unserved(c) \/ Polled(c) \/ Answering(c)
          \/ spc[c] = "close" \/ cpc[c] \in {"close", "join"}
      BY RequestStages
<1>2. IInv /\ (lost = {})' /\ [Next]_vars =>
          /\ Knocking(c) => Knocking(c)' \/ HalfOpen(c)'
          /\ HalfOpen(c) => HalfOpen(c)' \/ Connected(c)'
          /\ Connected(c) => Connected(c)' \/ AskedEarly(c)' \/ Asked(c)'
          /\ AskedEarly(c) => AskedEarly(c)' \/ Asked(c)'
          /\ Asked(c) => Asked(c)' \/ Unserved(c)' \/ Polled(c)'
          /\ Unserved(c) => Unserved(c)' \/ Polled(c)'
          /\ Polled(c) => Polled(c)' \/ Answering(c)'
          /\ Answering(c) => Answering(c)' \/ (spc[c] = "close")'
      BY RequestStep
<1>3. IInv /\ <<Handshake(c)>>_vars =>
          /\ Knocking(c) => HalfOpen(c)'
          /\ HalfOpen(c) => Connected(c)'
          /\ AskedEarly(c) => Asked(c)'
      BY RequestHelp
<1>4. IInv /\ <<ClientStep(c) /\ cpc'[c] # "panicked">>_vars =>
          (Connected(c) => AskedEarly(c)' \/ Asked(c)')
      BY RequestHelp
<1>5. IInv /\ <<Transfer(c)>>_vars => (Asked(c) => Unserved(c)' \/ Polled(c)')
      BY RequestHelp
<1>6. IInv /\ <<ServerStep(c)>>_vars =>
          /\ Unserved(c) => Polled(c)'
          /\ Polled(c) => Answering(c)'
          /\ Answering(c) => (spc[c] = "close")'
      BY RequestHelp
<1>7. IInv /\ NoHiddenWait =>
          /\ Knocking(c) \/ HalfOpen(c) \/ AskedEarly(c) => ENABLED <<Handshake(c)>>_vars
          /\ Connected(c) => ENABLED <<ClientStep(c) /\ cpc'[c] # "panicked">>_vars
          /\ Asked(c) => ENABLED <<Transfer(c)>>_vars
          /\ Unserved(c) \/ Polled(c) \/ Answering(c) => ENABLED <<ServerStep(c)>>_vars
      BY RequestReady
<1>8. Fair(c) => /\ WF_vars(Handshake(c)) /\ WF_vars(ClientStep(c) /\ cpc'[c] # "panicked")
                 /\ WF_vars(Transfer(c)) /\ WF_vars(ServerStep(c))
      BY PTL DEF Fair
<1> QED BY <1>1, <1>2, <1>3, <1>4, <1>5, <1>6, <1>7, <1>8, PTL DEF Live

\* A task that closes gets away: dtp_close returns, and joining the client's thread too
\* (ffi.rs 509).
LEMMA GetsAway ==
    ASSUME NEW c \in Client
    PROVE  Live(c) => (cpc[c] \in {"close", "join"} ~> Ended(c))
<1>1. IInv /\ [Next]_vars =>
          /\ cpc[c] = "close" => (cpc[c] = "close")' \/ (cpc[c] = "join")' \/ Ended(c)'
          /\ cpc[c] = "join" => (cpc[c] = "join")' \/ Ended(c)'
          /\ Gone(c) => Gone(c)'
      BY AnswerStep, LeavingStep DEF Ended
<1>2. IInv /\ <<ClientStep(c) /\ cpc'[c] # "panicked">>_vars =>
          /\ cpc[c] = "close" => (cpc[c] = "join")' \/ Ended(c)'
          /\ cpc[c] = "join" => Ended(c)'
      BY AnswerHelp DEF Ended
<1>3. IInv /\ NoHiddenWait =>
          (cpc[c] = "close" \/ (cpc[c] = "join" /\ Gone(c)) =>
              ENABLED <<ClientStep(c) /\ cpc'[c] # "panicked">>_vars)
      BY AnswerReady
<1>4. IInv /\ cpc[c] = "join" => Leaving(c)
  <2>1. ASSUME IInv, cpc[c] = "join" PROVE Leaving(c)
    <3>1. ConnInv(c) /\ WaitInv(c) /\ TypeOK BY <2>1 DEF IInv
    <3> QED BY <2>1, <3>1 DEF ConnInv, WaitInv, TypeOK, Phase, MsgState, Printed, Leaving, One,
               Both, Half, Gone
  <2> QED BY <2>1
<1>5. Fair(c) => WF_vars(ClientStep(c) /\ cpc'[c] # "panicked") BY PTL DEF Fair
<1>6. cpc[c] \in {"close", "join"} <=> cpc[c] = "close" \/ cpc[c] = "join" OBVIOUS
<1> QED BY <1>1, <1>2, <1>3, <1>4, <1>5, <1>6, WindsUp, PTL DEF Live

\* A running task ends, with its answer printed and its thread of the server ended.
LEMMA RunsToTheEnd ==
    ASSUME NEW c \in Client
    PROVE  Live(c) /\ [](lost = {}) => (c \in Running ~> []Served(c))
<1>1. IInv /\ lost = {} /\ Gone(c) => cpc[c] \in {"close", "join"} \/ Ended(c)
  <2>1. ASSUME IInv, lost = {}, Gone(c) PROVE cpc[c] \in {"close", "join"} \/ Ended(c)
    <3>1. ConnInv(c) /\ WaitInv(c) BY <2>1 DEF IInv
    <3> QED BY <2>1, <3>1 DEF ConnInv, WaitInv, Printed, Gone, Ended
  <2> QED BY <2>1
<1>2. IInv /\ cpc[c] \in {"close", "join"} => spc[c] \in {"close", "done"}
  <2>1. ASSUME IInv, cpc[c] \in {"close", "join"} PROVE spc[c] \in {"close", "done"}
    <3>1. ConnInv(c) BY <2>1 DEF IInv
    <3> QED BY <2>1, <3>1 DEF ConnInv, Printed
  <2> QED BY <2>1
<1>3. IInv /\ Ended(c) /\ spc[c] = "done" => Served(c)
  <2>1. ASSUME IInv, Ended(c) PROVE Printed(c) BY <2>1 DEF IInv, ConnInv, Ended
  <2> QED BY <2>1 DEF Served
<1>4. IInv /\ [Next]_vars =>
          /\ spc[c] = "done" => (spc[c] = "done")'
          /\ Ended(c) => Ended(c)'
      BY AnswerStep
<1>5. spc[c] \in {"close", "done"} <=> spc[c] = "close" \/ spc[c] = "done" OBVIOUS
<1> QED BY <1>1, <1>2, <1>3, <1>4, <1>5, GetsAnswered, GetsAway, ComesToAnEnd, ThreadEnds,
           PTL DEF Live

-----------------------------------------------------------------------------
(* The workers                                                             *)

FreeWorker == Cardinality(Running) < Workers

\* A task that ends leaves its worker to another.
LEMMA LeavesWorker ==
    ASSUME IInv, NEW c \in Client, [Next]_vars, c \in Running
    PROVE  (c \in Running)' \/ FreeWorker'
<1> SUFFICES ASSUME c \notin Running' PROVE FreeWorker' OBVIOUS
<1>0. TypeOK /\ Cardinality(Running) <= Workers BY DEF IInv
<1>1. IsFiniteSet(Running) /\ Cardinality(Running) \in Nat
      BY DriverAssumption, FS_Subset, FS_CardinalityType DEF Running
<1>2. Running' = Running \ {c}
  <2>1. cpc'[c] # cpc[c] BY DEF Running
  <2>2. ConnStep(c)
    <3>1. CASE Spawn(c) BY <1>0, <3>1 DEF Spawn, Running
    <3>2. CASE Same(c) BY <2>1, <3>2 DEF Same
    <3> QED BY <1>0, <3>1, <3>2, StepOf
  <2>3. \A d \in Client : d # c => cpc'[d] = cpc[d] BY <1>0, <2>2, Frame DEF Same
  <2> QED BY <2>3 DEF Running
<1>3. Cardinality(Running \ {c}) = Cardinality(Running) - 1
      BY <1>1, FS_RemoveElement
<1> QED BY <1>0, <1>1, <1>2, <1>3, DriverAssumption DEF FreeWorker

\* So there is a free worker again and again: a task that waits for one is not passed over
\* for ever.  (The fairness of all the tasks, not only of the waiting one, is needed.)
LEMMA FreeAgain ==
    []IInv /\ [][Next]_vars /\ []NoHiddenWait /\ []AllFair /\ [](lost = {}) => []<>FreeWorker
<1> DEFINE H == /\ []IInv /\ [][Next]_vars /\ []NoHiddenWait
                /\ []AllFair /\ [](lost = {})
           Each == \A d \in Client : d \in Running => <>FreeWorker
<1>1. ASSUME NEW c \in Client PROVE H => (c \in Running => <>FreeWorker)
  <2>1. IInv /\ [Next]_vars /\ c \in Running => (c \in Running)' \/ FreeWorker'
        BY LeavesWorker
  <2>2. Served(c) => ~(c \in Running) BY DEF Served, Ended, Running
  <2>3. AllFair => Fair(c) BY DEF AllFair
  <2>4. Live(c) /\ [](lost = {}) => (c \in Running ~> []Served(c)) BY RunsToTheEnd
  <2>5. H => Live(c) /\ [](lost = {}) BY <2>3, PTL DEF Live, H
  <2>6. H => []IInv /\ [][Next]_vars BY PTL DEF H
  <2>7. H => (c \in Running ~> []Served(c)) BY <2>4, <2>5, PTL
  <2>8. H => (c \in Running ~> FreeWorker) BY <2>1, <2>2, <2>6, <2>7, PTL
  <2> QED BY <2>8, PTL
<1>2. H => Each BY <1>1
<1>3. IInv /\ ~FreeWorker => \E d \in Client : d \in Running
  <2>1. ASSUME IInv, ~FreeWorker PROVE Running # {}
        BY <2>1, FS_EmptySet, DriverAssumption DEF FreeWorker
  <2> QED BY <2>1 DEF Running
<1>4. IInv /\ ~FreeWorker /\ Each => <>FreeWorker BY <1>3
<1> HIDE DEF Each
<1> QED BY <1>2, <1>4, PTL

\* A task that has been spawned gets a worker.
LEMMA GetsWorker ==
    ASSUME NEW c \in Client
    PROVE  Live(c) /\ []<>FreeWorker => <>(c \in Running \/ Ended(c))
<1>1. IInv /\ [Next]_vars =>
          /\ cpc[c] = "none" => (cpc[c] = "none")' \/ (cpc[c] = "queued")'
          /\ cpc[c] = "queued" => (cpc[c] = "queued")' \/ (c \in Running)'
  <2>1. ASSUME IInv, [Next]_vars
        PROVE  /\ cpc[c] = "none" => (cpc[c] = "none")' \/ (cpc[c] = "queued")'
               /\ cpc[c] = "queued" => (cpc[c] = "queued")' \/ (c \in Running)'
    <3>0. TypeOK BY <2>1 DEF IInv
    <3> USE <3>0 DEF TypeOK, Running
    <3>1. CASE ClientStep(c)
          BY <3>1 DEF ClientStep, Connect, ClientSend, ClientRecv, ClientClose, ClientJoin
    <3>2. CASE ServerStep(c)
          BY <3>2 DEF ServerStep, Accept, ServerRecv, ServerSend, ServerClose
    <3>3. CASE Handshake(c) \/ Transfer(c) \/ WindUp(c) \/ Expire(c)
          BY <3>3 DEF Handshake, Transfer, WindUp, Expire
    <3>4. CASE Spawn(c) BY <3>4 DEF Spawn
    <3>5. CASE Same(c) BY <3>5 DEF Same
    <3> QED BY <2>1, <3>1, <3>2, <3>3, <3>4, <3>5, StepOf DEF ConnStep
  <2> QED BY <2>1
<1>2. IInv /\ <<Spawn(c)>>_vars => (cpc[c] = "none" => (cpc[c] = "queued")')
      BY DEF Spawn, IInv, TypeOK
<1>3. IInv /\ <<Connect(c)>>_vars => (cpc[c] = "queued" => (c \in Running)')
      BY DEF Connect, IInv, TypeOK, Running
<1>4. IInv /\ NoHiddenWait =>
          /\ cpc[c] = "none" => ENABLED <<Spawn(c)>>_vars
          /\ cpc[c] = "queued" /\ FreeWorker => ENABLED <<Connect(c)>>_vars
  <2>1. ASSUME IInv, cpc[c] = "none" PROVE SpawnReady(c) BY <2>1 DEF IInv, WaitInv, SpawnReady
  <2>2. cpc[c] = "queued" /\ FreeWorker => ConnectReady(c) BY DEF ConnectReady, FreeWorker
  <2> QED BY <2>1, <2>2 DEF NoHiddenWait
<1>5. IInv => cpc[c] = "none" \/ cpc[c] = "queued" \/ c \in Running \/ Ended(c)
      BY DEF IInv, TypeOK, ClientPc, Running, Ended
<1>6. Fair(c) => WF_vars(Spawn(c)) /\ SF_vars(Connect(c)) BY PTL DEF Fair
<1> QED BY <1>1, <1>2, <1>3, <1>4, <1>5, <1>6, PTL DEF Live

\* AllServed for each of the clients, however few the workers: as long as no connection is
\* lost it gets its answer, it ends, and so does the thread that served it (main.rs 185-290).
THEOREM EachServed ==
    Spec /\ []NoHiddenWait /\ []AllFair /\ [](lost = {}) => \A c \in Client : <>[]Served(c)
<1>1. ASSUME NEW c \in Client
      PROVE  Spec /\ []NoHiddenWait /\ []AllFair /\ [](lost = {}) => <>[]Served(c)
  <2>1. AllFair => Fair(c) BY DEF AllFair
  <2>2. Live(c) /\ [](lost = {}) /\ []<>FreeWorker => <>(c \in Running \/ Ended(c))
        BY GetsWorker, PTL
  <2>3. Live(c) /\ [](lost = {}) => (c \in Running ~> []Served(c)) BY RunsToTheEnd
  <2>4. Init => ~Ended(c) BY DEF Init, Ended
  <2>5. IInv /\ [Next]_vars /\ ~Ended(c) => ~Ended(c)' \/ c \in Running
    <3>1. ASSUME IInv, [Next]_vars, ~Ended(c), Ended(c)' PROVE c \in Running
      <4>0. TypeOK BY <3>1 DEF IInv
      <4> USE <4>0, <3>1 DEF TypeOK, Running, Ended
      <4>1. CASE ClientStep(c)
            BY <4>1 DEF ClientStep, Connect, ClientSend, ClientRecv, ClientClose, ClientJoin
      <4>2. CASE ServerStep(c)
            BY <4>2 DEF ServerStep, Accept, ServerRecv, ServerSend, ServerClose
      <4>3. CASE Handshake(c) \/ Transfer(c) \/ WindUp(c) \/ Expire(c)
            BY <4>3 DEF Handshake, Transfer, WindUp, Expire
      <4>4. CASE Spawn(c) BY <4>4 DEF Spawn
      <4>5. CASE Same(c) BY <4>5 DEF Same
      <4> QED BY <4>1, <4>2, <4>3, <4>4, <4>5, StepOf DEF ConnStep
    <3> QED BY <3>1
  <2> QED BY <2>1, <2>2, <2>3, <2>4, <2>5, FreeAgain, DriverInvariant, PTL DEF Spec, Live
<1> QED BY <1>1
=============================================================================
