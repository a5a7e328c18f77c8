-------------------------- MODULE DtpStreamProofs --------------------------
(***************************************************************************)
(* Theorems about module DtpStream: for any streams, messages, window and  *)
(* buffer, and for the widths of c_int and usize of the build.             *)
(***************************************************************************)
EXTENDS DtpStream, TLAPS

-----------------------------------------------------------------------------
(* Results of the calls *)

\* A number that a c_int holds survives the way through usize and back
\* (ffi.rs 435, 448), on a 64-bit machine.
LEMMA CastKeeps ==
    ASSUME CIntMod = 4294967296, UsizeMod = 18446744073709551616,
           NEW n \in Int, -2147483648 <= n, n < 2147483648
    PROVE  AsCInt(AsUsize(n)) = n
<1>1. CASE n >= 0
  <2>1. AsUsize(n) = n BY <1>1 DEF AsUsize
  <2>2. n % CIntMod = n BY <1>1
  <2> QED BY <2>1, <2>2 DEF AsCInt
<1>2. CASE n < 0
  <2>1. AsUsize(n) = n + 18446744073709551616 BY <1>2 DEF AsUsize
  <2>2. (n + 18446744073709551616) % CIntMod = n + 4294967296 BY <1>2
  <2> QED BY <1>2, <2>1, <2>2 DEF AsCInt
<1> QED BY <1>1, <1>2

\* The result a reset stream has: the sixteenth of quiche's errors.
LEMMA ResetCode == error_to_c("StreamReset") = -16
<1>1. \A i \in DOMAIN Errors : Errors[i] = "StreamReset" <=> i = 16 BY DEF Errors
<1>2. 16 \in DOMAIN Errors BY DEF Errors
<1>3. (CHOOSE i \in DOMAIN Errors : Errors[i] = "StreamReset") = 16 BY <1>1, <1>2
<1> QED BY <1>3 DEF error_to_c

\* dtp_recv's one result tells data from an error and both from the connection's
\* state (ffi.rs 355-449).
THEOREM ResultsTell ==
    ASSUME CIntMod = 4294967296, UsizeMod = 18446744073709551616
    PROVE  Spec => []ResultTells
<1>1. ASSUME NEW s \in Stream, NEW r \in RecvRets(s)
      PROVE  /\ r > 0 <=> s \notin reset
             /\ r \notin {DtpClosed, DtpNotEstablished}
  <2>1. CASE s \in reset
    <3>1. r = AsCInt(AsUsize(-16)) BY <1>1, <2>1, ResetCode DEF RecvRets
    <3>2. r = -16 BY <3>1, CastKeeps
    <3> QED BY <2>1, <3>2 DEF DtpClosed, DtpNotEstablished
  <2>2. CASE s \notin reset
    <3>1. PICK n \in Chunk(s) : r = AsCInt(AsUsize(n)) BY <1>1, <2>2 DEF RecvRets
    <3>2. n \in Int /\ 1 <= n /\ n < 2147483648
          BY <3>1, StreamAssumption DEF Chunk
    <3>3. r = n BY <3>1, <3>2, CastKeeps
    <3> QED BY <2>2, <3>2, <3>3 DEF DtpClosed, DtpNotEstablished
  <2> QED BY <2>1, <2>2
<1>2. ResultTells BY <1>1 DEF ResultTells
<1> QED BY <1>2, PTL

-----------------------------------------------------------------------------
(* The invariant *)

\* Init satisfies the invariant.
LEMMA InitIInv == Init => IInv
<1>0. Window \in Nat BY StreamAssumption
<1>1. Init => TypeOK BY <1>0 DEF Init, TypeOK, End, Phase, Frame
<1>2. Init => WithinWindow
  <2> SUFFICES ASSUME Init, NEW s \in Stream
               PROVE  /\ read[s] <= flushed[s] /\ flushed[s] <= sent[s]
                      /\ sent[s] <= credit[s] /\ credit[s] <= limit[s]
                      /\ limit[s] <= read[s] + Window
      BY DEF WithinWindow
  <2>1. /\ read[s] = 0 /\ flushed[s] = 0 /\ sent[s] = 0
        /\ credit[s] = Window /\ limit[s] = Window
        BY DEF Init
  <2> QED BY <1>0, <2>1
<1>3. Init => SenderInv BY <1>0 DEF Init, SenderInv
<1>4. Init => FlightInv BY DEF Init, FlightInv
<1>5. Init => NothingVanishes BY DEF Init, NothingVanishes
<1> QED BY <1>1, <1>2, <1>3, <1>4, <1>5 DEF IInv

\* dtp_send (ffi.rs 460-507).
LEMMA SendIInv ==
    ASSUME NEW s \in Stream, IInv, DtpSend(s)
    PROVE  IInv'
<1> DEFINE k == Least(MsgLen[s], credit[s]) - sent[s]
           short == sent[s] + k < MsgLen[s]
<1>1. /\ TypeOK /\ WithinWindow /\ SenderInv /\ FlightInv /\ NothingVanishes
      BY DEF IInv
<1>2. /\ phase \in [End -> Phase] /\ established["snd"] /\ MsgLen[s] \in Nat
      /\ sent[s] \in Nat /\ credit[s] \in Nat /\ sent[s] < MsgLen[s] /\ sent[s] <= credit[s]
      BY <1>1, StreamAssumption DEF DtpSend, CanTransfer, TypeOK, WithinWindow
<1>3. k \in Nat /\ sent[s] + k <= credit[s] BY <1>2 DEF Least
<1>4. /\ sent' = [sent EXCEPT ![s] = @ + k]
      /\ announce' = [announce EXCEPT ![s] = short /\ (@ \/ blockedAt[s] # credit[s])]
      /\ blockedAt' = [blockedAt EXCEPT ![s] = IF short THEN credit[s] ELSE -1]
      /\ woken' = [woken EXCEPT !["snd"] = TRUE]
      BY DEF DtpSend
<1>5. UNCHANGED <<connVars, due, flushed, credit, rcvVars, net>> BY DEF DtpSend
<1> HIDE DEF k, short
<1>6. TypeOK'
  <2>1. sent' \in [Stream -> Nat] BY <1>1, <1>3, <1>4 DEF TypeOK
  <2>2. blockedAt' \in [Stream -> Int] BY <1>1, <1>2, <1>4 DEF TypeOK
  <2>3. announce' \in [Stream -> BOOLEAN] BY <1>1, <1>4, Zenon DEF TypeOK
  <2>4. woken' \in [End -> BOOLEAN] BY <1>1, <1>4 DEF TypeOK
  <2> QED BY <1>1, <1>5, <2>1, <2>2, <2>3, <2>4 DEF TypeOK, connVars, rcvVars
<1>7. WithinWindow'
  <2>1. \A r \in Stream : sent[r] <= sent'[r] /\ sent'[r] <= credit[r]
        BY <1>1, <1>3, <1>4 DEF TypeOK, WithinWindow
  <2>2. sent' \in [Stream -> Nat] BY <1>6 DEF TypeOK
  <2> QED BY <1>1, <1>5, <2>1, <2>2 DEF WithinWindow, TypeOK, rcvVars
<1>8. SenderInv'
  <2>1. \A r \in Stream : blockedAt'[r] <= credit[r]
        BY <1>1, <1>2, <1>4 DEF TypeOK, SenderInv
  <2>2. \A r \in Stream : announce'[r] => blockedAt'[r] >= 0
    <3>1. \A r \in Stream \ {s} : announce'[r] = announce[r] /\ blockedAt'[r] = blockedAt[r]
          BY <1>1, <1>4 DEF TypeOK
    <3>2. announce'[s] => short BY <1>1, <1>4, Zenon DEF TypeOK
    <3>3. short => blockedAt'[s] = credit[s] BY <1>1, <1>4 DEF TypeOK
    <3> QED BY <1>1, <1>2, <3>1, <3>2, <3>3 DEF SenderInv
  <2> QED BY <1>2, <1>5, <2>1, <2>2 DEF SenderInv, connVars
<1>9. FlightInv' BY <1>1, <1>5 DEF FlightInv, rcvVars
<1>10. NothingVanishes'
  <2>1. Runs("snd")' BY <1>1, <1>4 DEF TypeOK, End, Runs
  <2>2. \A r \in Stream, i \in Nat : i \in 1 .. sent'[r] /\ i \notin 1 .. sent[r] => i > flushed[r]
        BY <1>1, <1>6 DEF TypeOK, WithinWindow
  <2>3. BothOpen' => BothOpen BY <1>5 DEF BothOpen, connVars
  <2>4. \A r \in Stream : sent[r] \in Nat /\ sent'[r] \in Nat BY <1>1, <1>6 DEF TypeOK
  <2> QED BY <1>1, <1>5, <2>1, <2>2, <2>3, <2>4 DEF NothingVanishes, rcvVars
<1> QED BY <1>6, <1>7, <1>8, <1>9, <1>10 DEF IInv

\* dtp_recv (ffi.rs 355-449).
LEMMA RecvIInv ==
    ASSUME NEW s \in Stream, IInv, DtpRecv(s)
    PROVE  IInv'
<1>1. /\ TypeOK /\ WithinWindow /\ SenderInv /\ FlightInv /\ NothingVanishes
      BY DEF IInv
<1>2. UNCHANGED <<connVars, loopVars, sndVars, arrived, limit, reset, net>> BY DEF DtpRecv
<1>3. PICK k \in Nat : /\ read' = [read EXCEPT ![s] = @ + k]
                       /\ read[s] + 1 .. read[s] + k \subseteq arrived[s]
  <2>1. CASE s \in reset
    <3>1. read' = [read EXCEPT ![s] = @ + 0] BY <1>1, <2>1 DEF DtpRecv, TypeOK
    <3>2. read[s] \in Nat BY <1>1 DEF TypeOK
    <3>3. read[s] + 1 .. read[s] + 0 = {} BY <3>2
    <3> QED BY <3>1, <3>3
  <2>2. CASE s \notin reset BY <2>2, StreamAssumption DEF DtpRecv, Chunk
  <2> QED BY <2>1, <2>2
<1>4. dead' \in SUBSET Stream BY <1>1 DEF DtpRecv, TypeOK
<1>5. read[s] \in Nat /\ flushed[s] \in Nat BY <1>1 DEF TypeOK
<1>6. read[s] + k <= flushed[s]
  <2>1. CASE k = 0 BY <1>1, <1>5, <2>1 DEF WithinWindow
  <2>2. CASE k # 0
    <3>1. read[s] + k \in read[s] + 1 .. read[s] + k BY <1>5, <2>2
    <3>2. read[s] + k \in 1 .. flushed[s] BY <1>1, <1>3, <3>1 DEF FlightInv
    <3> QED BY <1>5, <3>2
  <2> QED BY <2>1, <2>2
<1>7. TypeOK'
  <2>1. read' \in [Stream -> Nat] BY <1>1, <1>3 DEF TypeOK
  <2> QED BY <1>1, <1>2, <1>4, <2>1 DEF TypeOK, connVars, loopVars, sndVars
<1>8. WithinWindow'
  <2>1. \A r \in Stream : read'[r] \in Nat /\ read[r] <= read'[r] /\ read'[r] <= flushed[r]
        BY <1>1, <1>3, <1>6 DEF TypeOK, WithinWindow
  <2> QED BY <1>1, <1>2, <2>1, StreamAssumption DEF WithinWindow, TypeOK, sndVars
<1>9. SenderInv' BY <1>1, <1>2 DEF SenderInv, connVars, sndVars
<1>10. FlightInv'
  <2>1. \A r \in Stream : 1 .. read'[r] \subseteq arrived[r]
    <3> SUFFICES ASSUME NEW r \in Stream, NEW i \in 1 .. read'[r] PROVE i \in arrived[r]
        OBVIOUS
    <3>1. 1 .. read[r] \subseteq arrived[r] BY <1>1 DEF FlightInv
    <3>2. CASE r # s BY <1>1, <1>3, <3>1, <3>2 DEF TypeOK
    <3>3. CASE r = s
      <4>1. read'[r] = read[s] + k BY <1>1, <1>3, <3>3 DEF TypeOK
      <4>2. i \in 1 .. read[s] \/ i \in read[s] + 1 .. read[s] + k BY <1>5, <4>1
      <4> QED BY <1>3, <3>1, <3>3, <4>2
    <3> QED BY <3>2, <3>3
  <2> QED BY <1>1, <1>2, <2>1 DEF FlightInv, sndVars
<1>11. NothingVanishes'
       BY <1>1, <1>2 DEF NothingVanishes, BothOpen, Runs, connVars, loopVars, sndVars
<1> QED BY <1>7, <1>8, <1>9, <1>10, <1>11 DEF IInv

\* Calls, resets and closes that leave the sender's and the network's part alone.
LEMMA QuietIInv ==
    ASSUME IInv, TypeOK', UNCHANGED <<sndVars, arrived, read, limit, net>>,
           established["snd"] => established'["snd"],
           BothOpen' => BothOpen, Runs("snd") => Runs("snd")'
    PROVE  IInv'
<1>1. /\ TypeOK /\ WithinWindow /\ SenderInv /\ FlightInv /\ NothingVanishes
      BY DEF IInv
<1>2. WithinWindow' BY <1>1 DEF WithinWindow, sndVars
<1>3. SenderInv' BY <1>1 DEF SenderInv, sndVars
<1>4. FlightInv' BY <1>1 DEF FlightInv, sndVars
<1>5. NothingVanishes' BY <1>1 DEF NothingVanishes, sndVars
<1> QED BY <1>2, <1>3, <1>4, <1>5 DEF IInv

\* dtp_send at the receiver, the handshake, a reset, and an end that goes down.
LEMMA OtherIInv ==
    ASSUME IInv,
           \/ OtherSend
           \/ \E s \in Stream : ResetArrives(s)
           \/ \E e \in End : Establish(e) \/ GoDown(e)
    PROVE  IInv'
<1>0. TypeOK BY DEF IInv
<1>1. CASE OtherSend
  <2>1. TypeOK' BY <1>0, <1>1 DEF OtherSend, TypeOK, End, connVars, sndVars, rcvVars
  <2>2. Runs("snd") => Runs("snd")' BY <1>0, <1>1 DEF OtherSend, Runs, TypeOK
  <2> QED BY <1>1, <2>1, <2>2, QuietIInv DEF OtherSend, BothOpen, connVars, rcvVars
<1>2. CASE \E s \in Stream : ResetArrives(s)
  <2>1. TypeOK' BY <1>0, <1>2 DEF ResetArrives, TypeOK, End, connVars, sndVars
  <2>2. Runs("snd") => Runs("snd")' BY <1>0, <1>2 DEF ResetArrives, Runs, TypeOK
  <2> QED BY <1>2, <2>1, <2>2, QuietIInv DEF ResetArrives, BothOpen, connVars
<1>3. CASE \E e \in End : Establish(e)
  <2>1. TypeOK' BY <1>0, <1>3 DEF Establish, TypeOK, loopVars, sndVars, rcvVars
  <2>2. established["snd"] => established'["snd"]
        BY <1>0, <1>3 DEF Establish, TypeOK, End
  <2> QED BY <1>3, <2>1, <2>2, QuietIInv DEF Establish, BothOpen, Runs, loopVars, rcvVars
<1>4. CASE \E e \in End : GoDown(e)
  <2>1. TypeOK' BY <1>0, <1>4 DEF GoDown, TypeOK, Phase, loopVars, sndVars, rcvVars
  <2>2. BothOpen' => BothOpen
    <3>1. PICK e \in End : GoDown(e) BY <1>4
    <3>2. phase'[e] # "open" BY <1>0, <3>1 DEF GoDown, TypeOK
    <3> QED BY <3>1, <3>2 DEF BothOpen
  <2> QED BY <1>4, <2>1, <2>2, QuietIInv DEF GoDown, Runs, loopVars, rcvVars
<1> QED BY <1>1, <1>2, <1>3, <1>4

\* A round of the sender's loop: what it flushes is in flight then.
LEMMA WriteSndIInv ==
    ASSUME IInv, WriteSnd
    PROVE  IInv'
<1>1. /\ TypeOK /\ WithinWindow /\ SenderInv /\ FlightInv /\ NothingVanishes
      BY DEF IInv
<1>2. /\ woken' = [woken EXCEPT !["snd"] = FALSE] /\ due' = [due EXCEPT !["snd"] = FALSE]
      /\ UNCHANGED <<connVars, sent, credit, blockedAt, rcvVars>>
      BY DEF WriteSnd
<1>3. woken' \in [End -> BOOLEAN] /\ due' \in [End -> BOOLEAN]
      BY <1>1, <1>2 DEF TypeOK
<1>4. CASE phase["snd"] = "open" /\ established["snd"]
  <2>1. /\ net' = net \cup Fresh \cup Blocked
        /\ flushed' = sent
        /\ announce' = [s \in Stream |-> FALSE]
        BY <1>4 DEF WriteSnd
  <2>2. \A f \in Fresh : \E s \in Stream, i \in Nat :
            f = FrameOf("data", s, i) /\ i \in flushed[s] + 1 .. sent[s]
        BY <1>1 DEF TypeOK, Fresh
  <2>3. \A f \in Blocked : \E s \in Stream :
            announce[s] /\ f = FrameOf("blocked", s, blockedAt[s])
        BY DEF Blocked
  <2>4. \A s \in Stream, i \in Nat :
            i \in flushed[s] + 1 .. sent[s] => FrameOf("data", s, i) \in Fresh
        BY DEF Fresh
  <2>5. Fresh \subseteq Frame BY <2>2 DEF FrameOf, Frame
  <2>6. Blocked \subseteq Frame BY <1>1, <2>3 DEF FrameOf, Frame, TypeOK, SenderInv
  <2>7. TypeOK' BY <1>1, <1>2, <1>3, <2>1, <2>5, <2>6 DEF TypeOK, connVars, rcvVars
  <2>8. WithinWindow' BY <1>1, <1>2, <2>1 DEF WithinWindow, TypeOK, rcvVars
  <2>9. SenderInv' BY <1>1, <1>2, <2>1 DEF SenderInv, connVars
  <2>10. FlightInv'
    <3>1. \A s \in Stream : arrived[s] \subseteq 1 .. sent[s] /\ 1 .. read[s] \subseteq arrived[s]
      <4> SUFFICES ASSUME NEW s \in Stream PROVE 1 .. flushed[s] \subseteq 1 .. sent[s]
          BY <1>1 DEF FlightInv
      <4>1. flushed[s] \in Nat /\ sent[s] \in Nat /\ flushed[s] <= sent[s]
            BY <1>1 DEF TypeOK, WithinWindow
      <4> QED BY <4>1
    <3>2. \A f \in net : IF f.type = "data" THEN f.at \in 1 .. sent[f.stream]
                                             ELSE f.at <= limit[f.stream]
      <4> SUFFICES ASSUME NEW f \in net, f.type = "data" PROVE f.at \in 1 .. sent[f.stream]
          BY <1>1 DEF FlightInv
      <4>1. f.at \in 1 .. flushed[f.stream] /\ f.stream \in Stream
            BY <1>1 DEF FlightInv, TypeOK, Frame
      <4> QED BY <1>1, <4>1 DEF TypeOK, WithinWindow
    <3>3. \A f \in Fresh : f.type = "data" /\ f.at \in 1 .. sent[f.stream]
      <4> SUFFICES ASSUME NEW f \in Fresh PROVE f.type = "data" /\ f.at \in 1 .. sent[f.stream]
          OBVIOUS
      <4>1. PICK s \in Stream, i \in Nat :
                f = FrameOf("data", s, i) /\ i \in flushed[s] + 1 .. sent[s]
            BY <2>2
      <4>2. f.type = "data" /\ f.at = i /\ f.stream = s BY <4>1 DEF FrameOf
      <4> QED BY <1>1, <4>1, <4>2 DEF TypeOK
    <3>4. \A f \in Blocked : f.type = "blocked" /\ f.at <= limit[f.stream]
      <4> SUFFICES ASSUME NEW f \in Blocked PROVE f.type = "blocked" /\ f.at <= limit[f.stream]
          OBVIOUS
      <4>1. PICK s \in Stream : f = FrameOf("blocked", s, blockedAt[s]) BY <2>3
      <4>2. f.type = "blocked" /\ f.at = blockedAt[s] /\ f.stream = s BY <4>1 DEF FrameOf
      <4> QED BY <1>1, <4>2 DEF TypeOK, SenderInv, WithinWindow
    <3> QED BY <1>2, <2>1, <3>1, <3>2, <3>3, <3>4 DEF FlightInv, rcvVars
  <2>11. NothingVanishes'
    <3> SUFFICES ASSUME BothOpen, NEW s \in Stream, NEW i \in 1 .. sent[s]
                 PROVE  i \in arrived[s] \/ FrameOf("data", s, i) \in net'
        BY <1>2 DEF NothingVanishes, BothOpen, connVars, rcvVars
    <3>1. \/ i \in arrived[s] \/ FrameOf("data", s, i) \in net \/ i > flushed[s]
          BY <1>1 DEF NothingVanishes
    <3>2. CASE i > flushed[s]
      <4>1. i \in Nat /\ i \in flushed[s] + 1 .. sent[s] BY <1>1, <3>2 DEF TypeOK
      <4> QED BY <2>1, <2>4, <4>1
    <3> QED BY <2>1, <3>1, <3>2
  <2> QED BY <2>7, <2>8, <2>9, <2>10, <2>11 DEF IInv
<1>5. CASE ~(phase["snd"] = "open" /\ established["snd"])
  <2>1. UNCHANGED <<net, flushed, announce>> BY <1>5 DEF WriteSnd
  <2>2. TypeOK' BY <1>1, <1>2, <1>3, <2>1 DEF TypeOK, connVars, rcvVars
  <2>3. WithinWindow' BY <1>1, <1>2, <2>1 DEF WithinWindow, rcvVars
  <2>4. SenderInv' BY <1>1, <1>2, <2>1 DEF SenderInv, connVars
  <2>5. FlightInv' BY <1>1, <1>2, <2>1 DEF FlightInv, rcvVars
  <2>6. NothingVanishes'
    <3>1. CASE ~established["snd"]
      <4>1. ASSUME NEW s \in Stream PROVE 1 .. sent[s] = {}
        <5>1. sent[s] = 0 BY <1>1, <3>1 DEF SenderInv
        <5> QED BY <5>1
      <4> QED BY <1>2, <4>1 DEF NothingVanishes
    <3>2. CASE phase["snd"] # "open"
          BY <1>2, <3>2 DEF NothingVanishes, BothOpen, connVars, End
    <3> QED BY <1>5, <3>1, <3>2
  <2> QED BY <2>2, <2>3, <2>4, <2>5, <2>6 DEF IInv
<1> QED BY <1>4, <1>5

\* A round of the receiver's loop only raises limits, by what was read.
LEMMA WriteRcvIInv ==
    ASSUME IInv, WriteRcv
    PROVE  IInv'
<1>1. /\ TypeOK /\ WithinWindow /\ SenderInv /\ FlightInv /\ NothingVanishes
      BY DEF IInv
<1> DEFINE S == {s \in Stream \ (reset \cup dead) :
                    phase["rcv"] = "open" /\ established["rcv"] /\ MaxDue(s)}
           New == {FrameOf("max", s, read[s] + Window) : s \in S}
<1>2. /\ woken' = [woken EXCEPT !["rcv"] = FALSE] /\ due' = [due EXCEPT !["rcv"] = FALSE]
      /\ limit' = [s \in Stream |-> IF s \in S THEN read[s] + Window ELSE limit[s]]
      /\ net' = net \cup New
      /\ UNCHANGED <<connVars, sndVars, arrived, read, reset, dead>>
      BY DEF WriteRcv
<1>3. S \subseteq Stream OBVIOUS
<1>4. \A f \in New : \E s \in S : f = FrameOf("max", s, read[s] + Window) OBVIOUS
<1> HIDE DEF S, New
<1>5. Window \in Nat BY StreamAssumption
<1>6. \A s \in Stream : /\ limit'[s] \in Nat /\ limit[s] <= limit'[s]
                        /\ limit'[s] <= read[s] + Window
                        /\ s \in S => limit'[s] = read[s] + Window
      BY <1>1, <1>2, <1>5 DEF TypeOK, WithinWindow
<1>7. New \subseteq Frame
  <2> SUFFICES ASSUME NEW f \in New PROVE f \in Frame OBVIOUS
  <2>1. PICK s \in Stream : f = FrameOf("max", s, read[s] + Window) BY <1>3, <1>4
  <2>2. read[s] + Window \in Nat BY <1>1, <1>5 DEF TypeOK
  <2> QED BY <2>1, <2>2 DEF FrameOf, Frame
<1>8. TypeOK'
  <2>1. woken' \in [End -> BOOLEAN] /\ due' \in [End -> BOOLEAN] BY <1>1, <1>2 DEF TypeOK
  <2>2. limit' \in [Stream -> Nat] BY <1>2, <1>6
  <2> QED BY <1>1, <1>2, <1>7, <2>1, <2>2 DEF TypeOK, connVars, sndVars
<1>9. WithinWindow' BY <1>1, <1>2, <1>6 DEF WithinWindow, TypeOK, sndVars
<1>10. SenderInv' BY <1>1, <1>2 DEF SenderInv, connVars, sndVars
<1>11. FlightInv'
  <2>1. \A f \in net : IF f.type = "data" THEN f.at \in 1 .. flushed[f.stream]
                                           ELSE f.at <= limit'[f.stream]
    <3> SUFFICES ASSUME NEW f \in net, f.type # "data" PROVE f.at <= limit'[f.stream]
        BY <1>1 DEF FlightInv
    <3>1. f.at \in Nat /\ f.stream \in Stream BY <1>1 DEF TypeOK, Frame
    <3>2. f.at <= limit[f.stream] BY <1>1 DEF FlightInv
    <3> QED BY <1>1, <1>6, <3>1, <3>2 DEF TypeOK
  <2>2. \A f \in New : f.type = "max" /\ f.at <= limit'[f.stream]
    <3> SUFFICES ASSUME NEW f \in New PROVE f.type = "max" /\ f.at <= limit'[f.stream]
        OBVIOUS
    <3>1. PICK s \in S : f = FrameOf("max", s, read[s] + Window) BY <1>4
    <3>2. f.type = "max" /\ f.at = read[s] + Window /\ f.stream = s BY <3>1 DEF FrameOf
    <3>3. read[s] + Window \in Nat BY <1>1, <1>3, <1>5 DEF TypeOK
    <3> QED BY <1>3, <1>6, <3>2, <3>3
  <2> QED BY <1>1, <1>2, <2>1, <2>2 DEF FlightInv, sndVars
<1>12. NothingVanishes'
  <2>1. Runs("snd") => Runs("snd")' BY <1>1, <1>2 DEF Runs, TypeOK
  <2> QED BY <1>1, <1>2, <2>1 DEF NothingVanishes, BothOpen, connVars, sndVars
<1> QED BY <1>8, <1>9, <1>10, <1>11, <1>12 DEF IInv

\* A frame is processed.  Data leaves the network for the receiver, limits for the
\* sender; neither leaves it for nowhere while both ends are open.
LEMMA DeliverIInv ==
    ASSUME NEW f \in net, IInv, Deliver(f)
    PROVE  IInv'
<1>1. /\ TypeOK /\ WithinWindow /\ SenderInv /\ FlightInv /\ NothingVanishes
      BY DEF IInv
<1>2. /\ due' = [due EXCEPT ![Dest(f)] = TRUE]
      /\ UNCHANGED <<connVars, woken, sent, flushed, blockedAt, announce>>
      /\ UNCHANGED <<read, limit, reset, dead>>
      BY DEF Deliver
<1>3. /\ f \in Frame /\ f.stream \in Stream /\ f.at \in Nat
      /\ f.type \in {"data", "max", "blocked", "ack"}
      BY <1>1 DEF TypeOK, Frame
<1>4. due' \in [End -> BOOLEAN] /\ (Runs("snd") => Runs("snd")')
      BY <1>1, <1>2 DEF TypeOK, Runs, Dest, End
<1>5. CASE phase[Dest(f)] = "open" /\ f.type = "data"
  <2>1. /\ arrived' = [arrived EXCEPT ![f.stream] = @ \cup {f.at}]
        /\ net' = net \ {f} /\ credit' = credit
        BY <1>5 DEF Deliver
  <2>2. f.at \in 1 .. flushed[f.stream] BY <1>1, <1>5 DEF FlightInv
  <2>3. TypeOK'
    <3>1. arrived' \in [Stream -> SUBSET Nat] BY <1>1, <1>3, <2>1 DEF TypeOK
    <3> QED BY <1>1, <1>2, <1>4, <2>1, <3>1 DEF TypeOK, connVars
  <2>4. WithinWindow' BY <1>1, <1>2, <2>1 DEF WithinWindow
  <2>5. SenderInv' BY <1>1, <1>2, <2>1 DEF SenderInv, connVars
  <2>6. FlightInv'
    <3>1. \A s \in Stream : arrived'[s] \subseteq 1 .. flushed[s] /\ arrived[s] \subseteq arrived'[s]
          BY <1>1, <2>1, <2>2 DEF FlightInv, TypeOK
    <3> QED BY <1>1, <1>2, <2>1, <3>1 DEF FlightInv
  <2>7. NothingVanishes'
    <3> SUFFICES ASSUME BothOpen, NEW s \in Stream, NEW i \in 1 .. sent[s]
                 PROVE  \/ i \in arrived'[s] \/ FrameOf("data", s, i) \in net'
                        \/ i > flushed[s] /\ Runs("snd")'
        BY <1>2 DEF NothingVanishes, BothOpen, connVars
    <3>1. i \in arrived[s] => i \in arrived'[s] BY <1>1, <2>1 DEF TypeOK
    <3>2. CASE FrameOf("data", s, i) = f
      <4>1. f.stream = s /\ f.at = i BY <3>2 DEF FrameOf
      <4>2. i \in arrived'[s] BY <1>1, <2>1, <4>1 DEF TypeOK
      <4> QED BY <4>2
    <3>3. CASE FrameOf("data", s, i) # f
      <4>1. FrameOf("data", s, i) \in net => FrameOf("data", s, i) \in net' BY <2>1, <3>3
      <4>2. \/ i \in arrived[s] \/ FrameOf("data", s, i) \in net
            \/ i > flushed[s] /\ Runs("snd")
            BY <1>1 DEF NothingVanishes
      <4> QED BY <1>4, <3>1, <4>1, <4>2
    <3> QED BY <3>2, <3>3
  <2> QED BY <2>3, <2>4, <2>5, <2>6, <2>7 DEF IInv
<1>6. CASE ~(phase[Dest(f)] = "open" /\ f.type = "data")
  <2>1. arrived' = arrived BY <1>6 DEF Deliver
  <2>2. /\ net' \subseteq (net \ {f}) \cup {FrameOf("ack", f.stream, f.at)}
        /\ net \ {f} \subseteq net'
    <3>1. CASE phase[Dest(f)] # "open" BY <3>1 DEF Deliver
    <3>2. CASE phase[Dest(f)] = "open" /\ f.type = "max" BY <3>2 DEF Deliver
    <3>3. CASE phase[Dest(f)] = "open" /\ f.type \in {"blocked", "ack"} BY <3>3 DEF Deliver
    <3> QED BY <1>3, <1>6, <3>1, <3>2, <3>3
  <2>3. net' = net \ {f} \/ f.type = "max"
    <3>1. CASE phase[Dest(f)] # "open" BY <3>1 DEF Deliver
    <3>2. CASE phase[Dest(f)] = "open" /\ f.type \in {"blocked", "ack"} BY <3>2 DEF Deliver
    <3> QED BY <1>3, <1>6, <3>1, <3>2
  <2>4. credit' \in [Stream -> Nat] /\ \A s \in Stream :
            credit[s] <= credit'[s] /\ credit'[s] <= limit[s]
    <3>1. CASE credit' = credit BY <1>1, <3>1 DEF TypeOK, WithinWindow
    <3>2. CASE f.type = "max" /\ credit' = [credit EXCEPT ![f.stream] = Most(@, f.at)]
      <4>1. f.at <= limit[f.stream] BY <1>1, <3>2 DEF FlightInv
      <4> QED BY <1>1, <1>3, <3>2, <4>1 DEF TypeOK, WithinWindow, Most
    <3>3. CASE phase[Dest(f)] # "open" BY <3>1, <3>3 DEF Deliver
    <3>4. CASE phase[Dest(f)] = "open" /\ f.type = "max" BY <3>2, <3>4 DEF Deliver
    <3>5. CASE phase[Dest(f)] = "open" /\ f.type \in {"blocked", "ack"}
          BY <3>1, <3>5 DEF Deliver
    <3> QED BY <1>3, <1>6, <3>3, <3>4, <3>5
  <2>5. FrameOf("ack", f.stream, f.at) \in Frame BY <1>3 DEF FrameOf, Frame
  <2>6. TypeOK' BY <1>1, <1>2, <1>4, <2>1, <2>2, <2>4, <2>5 DEF TypeOK, connVars
  <2>7. WithinWindow' BY <1>1, <1>2, <2>4 DEF WithinWindow, TypeOK
  <2>8. SenderInv' BY <1>1, <1>2, <2>4 DEF SenderInv, TypeOK, connVars
  <2>9. FlightInv'
    <3> DEFINE a == FrameOf("ack", f.stream, f.at)
    <3>1. a.type = "ack" /\ a.at = f.at /\ a.stream = f.stream BY DEF FrameOf
    <3>2. net' = net \ {f} \/ a.at <= limit[a.stream] BY <1>1, <2>3, <3>1 DEF FlightInv
    <3>3. net' \subseteq (net \ {f}) \cup {a} BY <2>2
    <3> HIDE DEF a
    <3>4. \A g \in net' : g \in net \/ (g = a /\ a.at <= limit[a.stream])
      <4>1. CASE net' = net \ {f} BY <4>1
      <4>2. CASE a.at <= limit[a.stream] BY <3>3, <4>2
      <4> QED BY <3>2, <4>1, <4>2
    <3> QED BY <1>1, <1>2, <2>1, <3>1, <3>4 DEF FlightInv
  <2>10. NothingVanishes'
    <3>1. BothOpen => f.type # "data" BY <1>6 DEF BothOpen, Dest, ToSender, End
    <3>2. \A s \in Stream, i \in Nat : f.type # "data" => FrameOf("data", s, i) # f
          BY DEF FrameOf
    <3> SUFFICES ASSUME BothOpen, NEW s \in Stream, NEW i \in 1 .. sent[s]
                 PROVE  \/ i \in arrived[s] \/ FrameOf("data", s, i) \in net'
                        \/ i > flushed[s] /\ Runs("snd")'
        BY <1>2, <2>1 DEF NothingVanishes, BothOpen, connVars
    <3>3. i \in Nat BY <1>1 DEF TypeOK
    <3>4. FrameOf("data", s, i) \in net => FrameOf("data", s, i) \in net'
          BY <2>2, <3>1, <3>2, <3>3
    <3>5. \/ i \in arrived[s] \/ FrameOf("data", s, i) \in net
          \/ i > flushed[s] /\ Runs("snd")
          BY <1>1 DEF NothingVanishes
    <3> QED BY <1>4, <3>4, <3>5
  <2> QED BY <2>6, <2>7, <2>8, <2>9, <2>10 DEF IInv
<1> QED BY <1>5, <1>6

\* Every step preserves the invariant.
LEMMA NextIInv == IInv /\ [Next]_vars => IInv'
<1> SUFFICES ASSUME IInv, [Next]_vars PROVE IInv' OBVIOUS
<1>1. CASE \E s \in Stream : DtpSend(s) BY <1>1, SendIInv
<1>2. CASE \E s \in Stream : DtpRecv(s) BY <1>2, RecvIInv
<1>3. CASE \/ OtherSend
           \/ \E s \in Stream : ResetArrives(s)
           \/ \E e \in End : Establish(e) \/ GoDown(e)
      BY <1>3, OtherIInv
<1>4. CASE WriteSnd BY <1>4, WriteSndIInv
<1>5. CASE WriteRcv BY <1>5, WriteRcvIInv
<1>6. CASE \E f \in net : Deliver(f) BY <1>6, DeliverIInv
<1>7. CASE UNCHANGED vars
  <2>1. TypeOK' BY <1>7 DEF IInv, TypeOK, vars, connVars, loopVars, sndVars, rcvVars
  <2> QED BY <1>7, <2>1, QuietIInv
          DEF BothOpen, Runs, vars, connVars, loopVars, rcvVars
<1> QED BY <1>1, <1>2, <1>3, <1>4, <1>5, <1>6, <1>7 DEF Next, LoopStep

\* The inductive invariant: what was accepted, flushed, received and read, and the
\* limits known and granted, stay in order at every moment of the two loops.
THEOREM StreamInvariant == Spec => []IInv
BY InitIInv, NextIInv, PTL DEF Spec

\* A byte dtp_send has accepted is never left without somebody to carry it on, as
\* long as no end goes down: the wake at ffi.rs 500 suffices.
THEOREM AcceptedIsCarried == Spec => []NothingVanishes
<1>1. IInv => NothingVanishes BY DEF IInv
<1> QED BY <1>1, StreamInvariant, PTL

\* The two loops, with quiche between them, implement a pipe of bytes per stream: what
\* dtp_recv hands out was accepted by dtp_send, once, and nothing follows an error
\* (ffi.rs 355-507).
THEOREM PipeImplemented == Spec => ImplementsPipe
<1>1. Init => Pipe!Init BY DEF Init, Pipe!Init
<1>2. IInv /\ [Next]_vars => [Pipe!Next]_(Pipe!vars)
  <2> SUFFICES ASSUME IInv, [Next]_vars PROVE Pipe!Next \/ UNCHANGED <<sent, read, dead>>
      BY DEF Pipe!vars
  <2>0. TypeOK /\ WithinWindow /\ FlightInv BY DEF IInv
  <2>1. CASE UNCHANGED <<sent, read, dead>> BY <2>1
  <2>2. ASSUME NEW s \in Stream, DtpSend(s) PROVE Pipe!Next
    <3> DEFINE k == Least(MsgLen[s], credit[s]) - sent[s]
    <3>1. /\ sent' = [sent EXCEPT ![s] = @ + k] /\ sent[s] < MsgLen[s]
          /\ UNCHANGED <<read, dead>>
          BY <2>2 DEF DtpSend, rcvVars
    <3>2. /\ sent[s] \in Nat /\ credit[s] \in Nat /\ MsgLen[s] \in Nat
          /\ sent[s] <= credit[s]
          BY <2>0, StreamAssumption DEF TypeOK, WithinWindow
    <3>3. sent[s] + k \in sent[s] .. MsgLen[s] BY <3>1, <3>2 DEF Least
    <3>4. Pipe!Accept(s) BY <3>1, <3>3 DEF Pipe!Accept
    <3> QED BY <3>4 DEF Pipe!Next
  <2>3. ASSUME NEW s \in Stream, DtpRecv(s) PROVE Pipe!Next
    <3>1. s \notin dead /\ sent' = sent BY <2>3 DEF DtpRecv, Readable, sndVars
    <3>2. CASE s \in reset
      <4>1. Pipe!Break(s) BY <2>3, <3>1, <3>2 DEF DtpRecv, Pipe!Break
      <4> QED BY <4>1 DEF Pipe!Next
    <3>3. CASE s \notin reset
      <4>1. PICK k \in Chunk(s) : read' = [read EXCEPT ![s] = @ + k] /\ dead' = dead
            BY <2>3, <3>3 DEF DtpRecv
      <4>2. /\ k \in Nat /\ k >= 1 /\ read[s] \in Nat /\ flushed[s] \in Nat
            /\ sent[s] \in Nat /\ flushed[s] <= sent[s]
            /\ read[s] + 1 .. read[s] + k \subseteq arrived[s]
            /\ arrived[s] \subseteq 1 .. flushed[s]
            BY <2>0, <4>1, StreamAssumption DEF Chunk, TypeOK, WithinWindow, FlightInv
      <4>3. read[s] + k \in read[s] + 1 .. read[s] + k BY <4>2
      <4>4. read[s] + k \in read[s] + 1 .. sent[s] BY <4>2, <4>3
      <4>5. Pipe!HandOut(s) BY <3>1, <4>1, <4>4 DEF Pipe!HandOut
      <4> QED BY <4>5 DEF Pipe!Next
    <3> QED BY <3>2, <3>3
  <2>4. CASE OtherSend \/ WriteSnd \/ WriteRcv
        BY <2>4 DEF OtherSend, WriteSnd, WriteRcv, sndVars, rcvVars
  <2>5. CASE \E s \in Stream : ResetArrives(s) BY <2>5 DEF ResetArrives, sndVars
  <2>6. CASE \E f \in net : Deliver(f) BY <2>6 DEF Deliver
  <2>7. CASE \E e \in End : Establish(e) \/ GoDown(e)
        BY <2>7 DEF Establish, GoDown, sndVars, rcvVars
  <2>8. CASE UNCHANGED vars BY <2>8 DEF vars, sndVars, rcvVars
  <2> QED BY <2>1, <2>2, <2>3, <2>4, <2>5, <2>6, <2>7, <2>8 DEF Next, LoopStep
<1> QED BY <1>1, <1>2, StreamInvariant, PTL DEF Spec, ImplementsPipe, Pipe!Spec
=============================================================================
