----------------------------- MODULE DtpStream -----------------------------
(***************************************************************************)
(* Stream data through the DTP API: an application that sends a message on *)
(* each of some streams with dtp_send (fin set, the rest offered again     *)
(* when only a part was accepted), an application at the other end that    *)
(* polls dtp_recv, and the two event loops between them, reduced to what   *)
(* makes them run: a wake, or a packet.                                    *)
(*                                                                         *)
(* External: quiche::Connection, that is reassembly, retransmission and    *)
(* per-stream flow control.  A frame stays in flight until it is delivered,*)
(* in any order; a lost one is sent again by quiche on a timer of its own. *)
(***************************************************************************)
EXTENDS Integers, Sequences

CONSTANTS
    Stream,   \* streams opened by the sender
    MsgLen,   \* [Stream -> Nat]: bytes of the message on each
    Window,   \* initial_max_stream_data of the receiver
    BufLen,   \* size of the buffer passed to dtp_recv
    Failures, \* may streams be reset and the connection go down?
    CIntMod,  \* 2^32: c_int arithmetic
    UsizeMod  \* 2^64: usize arithmetic

ASSUME StreamAssumption ==
    /\ MsgLen \in [Stream -> Nat \ {0}]
    /\ Window \in Nat \ {0} /\ BufLen \in Nat \ {0}
    /\ Failures \in BOOLEAN
    /\ CIntMod \in Nat /\ CIntMod % 2 = 0
    /\ BufLen < CIntMod \div 2 /\ 42 < CIntMod \div 2
    /\ UsizeMod \in Nat \ {0} /\ UsizeMod % CIntMod = 0

VARIABLES
    phase,       \* [End -> Phase]: the connection as each end sees it
    established, \* [End -> BOOLEAN]
    woken,       \* [End -> BOOLEAN]: the waker's event is pending
    due,         \* [End -> BOOLEAN]: packets were read, the write pass is to come
    sent,        \* [Stream -> Nat]: bytes dtp_send was told are accepted
    flushed,     \* [Stream -> Nat]: bytes put into packets
    credit,      \* [Stream -> Nat]: flow control limit the sender knows
    blockedAt,   \* [Stream -> Int]: limit at which it found itself blocked, or -1
    announce,    \* [Stream -> BOOLEAN]: a STREAM_DATA_BLOCKED is to be sent
    arrived,     \* [Stream -> SUBSET Nat]: bytes the receiver has, by position
    read,        \* [Stream -> Nat]: bytes handed out by dtp_recv
    limit,       \* [Stream -> Nat]: flow control limit the receiver granted
    reset,       \* streams the receiver saw reset, the error not yet handed out
    dead,        \* streams whose error has been handed out
    net          \* frames in flight

connVars == <<phase, established>>
loopVars == <<woken, due>>
sndVars  == <<sent, flushed, credit, blockedAt, announce>>
rcvVars  == <<arrived, read, limit, reset, dead>>
vars     == <<connVars, loopVars, sndVars, rcvVars, net>>

End == {"snd", "rcv"}
Phase == {"open",
          "draining",  \* closed by an end; not yet is_closed
          "closed"}

\* "data" carries the byte at a position (the last one with fin), "max" a new
\* limit, "blocked" the limit the sender met, "ack" answers a "max".
Frame == [type : {"data", "max", "blocked", "ack"}, stream : Stream, at : Nat]

FrameOf(type, s, at) == [type |-> type, stream |-> s, at |-> at]
ToSender(f) == f.type = "max"
Dest(f) == IF ToSender(f) THEN "snd" ELSE "rcv"

Least(a, b) == IF a < b THEN a ELSE b
Most(a, b) == IF a < b THEN b ELSE a

-----------------------------------------------------------------------------
(* Results of the calls *)

Errors == <<"Done", "BufferTooShort", "UnknownVersion", "InvalidFrame", "InvalidPacket",
            "InvalidState", "InvalidStreamState", "InvalidTransportParam", "CryptoFail",
            "TlsFail", "FlowControl", "StreamLimit", "FinalSize", "CongestionControl",
            "StreamStopped", "StreamReset">>

error_to_c(e) == -(CHOOSE i \in DOMAIN Errors : Errors[i] = e)

DtpClosed == -22
DtpNotEstablished == -42

AsUsize(n) == n % UsizeMod

\* Mutant: the sign bit is lost.
AsCInt_Unsigned(n) == n % CIntMod

AsCInt(n) ==
    LET r == n % CIntMod
    IN  IF r < CIntMod \div 2 THEN r ELSE r - CIntMod

-----------------------------------------------------------------------------
(* quiche streams *)

Readable(s) == s \notin dead /\ (s \in reset \/ read[s] + 1 \in arrived[s])

\* Mutant: the length of the buffer is taken for what was read.
Chunk_Buffer(s) == IF read[s] + 1 \in arrived[s] THEN {BufLen} ELSE {}

\* stream_recv takes the bytes up to the first gap, as far as the buffer goes.
Chunk(s) ==
    {k \in 1 .. BufLen :
        /\ read[s] + 1 .. read[s] + k \subseteq arrived[s]
        /\ k = BufLen \/ read[s] + k + 1 \notin arrived[s]}

\* What dtp_recv makes of stream_recv's answer.
RecvRets(s) ==
    {AsCInt(AsUsize(n)) : n \in IF s \in reset THEN {error_to_c("StreamReset")}
                                ELSE Chunk(s)}

\* The receiver renews the limit once half of the window is used up, unless it
\* knows the end of the stream.
MaxDue(s) ==
    /\ 2 * (limit[s] - read[s]) < Window
    /\ MsgLen[s] \notin arrived[s]

-----------------------------------------------------------------------------
(* The application's calls *)

CanTransfer(e) == established[e] /\ phase[e] # "closed"

\* Mutant: the loop is not woken.
DtpSend_NoWake(s) ==
    /\ CanTransfer("snd")
    /\ sent[s] < MsgLen[s]
    /\ LET k == Least(MsgLen[s], credit[s]) - sent[s]
           short == sent[s] + k < MsgLen[s]
       IN  /\ sent' = [sent EXCEPT ![s] = @ + k]
           /\ announce' = [announce EXCEPT ![s] =
                             short /\ (@ \/ blockedAt[s] # credit[s])]
           /\ blockedAt' = [blockedAt EXCEPT ![s] = IF short THEN credit[s] ELSE -1]
    /\ UNCHANGED <<connVars, loopVars, flushed, credit, rcvVars, net>>

\* Mutant: the length of the buffer is taken for what was accepted.
DtpSend_All(s) ==
    /\ CanTransfer("snd")
    /\ sent[s] < MsgLen[s]
    /\ sent' = [sent EXCEPT ![s] = MsgLen[s]]
    /\ woken' = [woken EXCEPT !["snd"] = TRUE]
    /\ UNCHANGED <<connVars, due, flushed, credit, blockedAt, announce, rcvVars, net>>

\* dtp_send of what is left of the message: as much as the credit allows is
\* accepted, which may be nothing, and the loop is woken in any case.
DtpSend(s) ==
    /\ CanTransfer("snd")
    /\ sent[s] < MsgLen[s]
    /\ LET k == Least(MsgLen[s], credit[s]) - sent[s]
           short == sent[s] + k < MsgLen[s]
       IN  /\ sent' = [sent EXCEPT ![s] = @ + k]
           /\ announce' = [announce EXCEPT ![s] =
                             short /\ (@ \/ blockedAt[s] # credit[s])]
           /\ blockedAt' = [blockedAt EXCEPT ![s] = IF short THEN credit[s] ELSE -1]
    /\ woken' = [woken EXCEPT !["snd"] = TRUE]
    /\ UNCHANGED <<connVars, due, flushed, credit, rcvVars, net>>

\* dtp_recv hands out what one readable stream has, or its error; the loop is not
\* woken.
DtpRecv(s) ==
    /\ CanTransfer("rcv")
    /\ Readable(s)
    /\ IF s \in reset
       THEN dead' = dead \cup {s} /\ UNCHANGED read
       ELSE /\ \E k \in Chunk(s) : read' = [read EXCEPT ![s] = @ + k]
            /\ UNCHANGED dead
    /\ UNCHANGED <<connVars, loopVars, sndVars, arrived, limit, reset, net>>

\* dtp_send at the receiving end, on a stream of its own: for these streams it is
\* no more than a wake.
OtherSend ==
    /\ CanTransfer("rcv")
    /\ woken' = [woken EXCEPT !["rcv"] = TRUE]
    /\ UNCHANGED <<connVars, due, sndVars, rcvVars, net>>

-----------------------------------------------------------------------------
(* The event loops *)

\* Mutant: the loop goes on with its round only when the socket had packets.
Runs_PacketsOnly(e) == due[e]

\* The poll returned because of the waker or of the socket.
Runs(e) == woken[e] \/ due[e]

Fresh == UNION {{FrameOf("data", s, i) : i \in flushed[s] + 1 .. sent[s]} : s \in Stream}
Blocked == {FrameOf("blocked", s, blockedAt[s]) : s \in {r \in Stream : announce[r]}}

\* A round of the sender's loop: everything accepted goes out, and the news that
\* it is blocked.
WriteSnd ==
    /\ Runs("snd")
    /\ woken' = [woken EXCEPT !["snd"] = FALSE]
    /\ due' = [due EXCEPT !["snd"] = FALSE]
    /\ IF phase["snd"] = "open" /\ established["snd"]
       THEN /\ net' = net \cup Fresh \cup Blocked
            /\ flushed' = sent
            /\ announce' = [s \in Stream |-> FALSE]
       ELSE UNCHANGED <<net, flushed, announce>>
    /\ UNCHANGED <<connVars, sent, credit, blockedAt, rcvVars>>

\* A round of the receiver's loop: new limits go out.
WriteRcv ==
    /\ Runs("rcv")
    /\ woken' = [woken EXCEPT !["rcv"] = FALSE]
    /\ due' = [due EXCEPT !["rcv"] = FALSE]
    /\ LET S == {s \in Stream \ (reset \cup dead) :
                    phase["rcv"] = "open" /\ established["rcv"] /\ MaxDue(s)}
       IN  /\ limit' = [s \in Stream |-> IF s \in S THEN read[s] + Window ELSE limit[s]]
           /\ net' = net \cup {FrameOf("max", s, read[s] + Window) : s \in S}
    /\ UNCHANGED <<connVars, sndVars, arrived, read, reset, dead>>

\* A frame is read from the socket and fed to the connection, which ignores it
\* when it is going down; the loop's write pass follows.
Deliver(f) ==
    /\ f \in net
    /\ due' = [due EXCEPT ![Dest(f)] = TRUE]
    /\ IF phase[Dest(f)] # "open"
       THEN net' = net \ {f} /\ UNCHANGED <<credit, arrived>>
       ELSE CASE f.type = "data" ->
                   /\ arrived' = [arrived EXCEPT ![f.stream] = @ \cup {f.at}]
                   /\ net' = net \ {f}
                   /\ UNCHANGED credit
              [] f.type = "max" ->
                   /\ credit' = [credit EXCEPT ![f.stream] = Most(@, f.at)]
                   /\ net' = (net \ {f}) \cup {FrameOf("ack", f.stream, f.at)}
                   /\ UNCHANGED arrived
              [] OTHER -> net' = net \ {f} /\ UNCHANGED <<credit, arrived>>
    /\ UNCHANGED <<connVars, woken, sent, flushed, blockedAt, announce>>
    /\ UNCHANGED <<read, limit, reset, dead>>

\* The handshake, done by the sender's end first.
Establish(e) ==
    /\ ~established[e]
    /\ phase[e] = "open"
    /\ e = "rcv" => established["snd"]
    /\ established' = [established EXCEPT ![e] = TRUE]
    /\ UNCHANGED <<phase, loopVars, sndVars, rcvVars, net>>

\* A RESET_STREAM is processed, which this library never sends but another peer
\* may: what was not read yet is discarded.
ResetArrives(s) ==
    /\ Failures
    /\ phase["rcv"] = "open" /\ established["rcv"]
    /\ s \notin reset \cup dead
    /\ read[s] < MsgLen[s]
    /\ reset' = reset \cup {s}
    /\ due' = [due EXCEPT !["rcv"] = TRUE]
    /\ UNCHANGED <<connVars, woken, sndVars, arrived, read, limit, dead, net>>

\* dtp_close at either end, the peer's close, an error or a timer.
GoDown(e) ==
    /\ Failures
    /\ \/ phase[e] = "open" /\ phase' = [phase EXCEPT ![e] = "draining"]
       \/ phase[e] # "closed" /\ phase' = [phase EXCEPT ![e] = "closed"]
    /\ UNCHANGED <<established, loopVars, sndVars, rcvVars, net>>

-----------------------------------------------------------------------------
Init ==
    /\ phase = [e \in End |-> "open"]
    /\ established = [e \in End |-> FALSE]
    /\ woken = [e \in End |-> FALSE] /\ due = [e \in End |-> FALSE]
    /\ sent = [s \in Stream |-> 0] /\ flushed = [s \in Stream |-> 0]
    /\ credit = [s \in Stream |-> Window]
    /\ blockedAt = [s \in Stream |-> -1]
    /\ announce = [s \in Stream |-> FALSE]
    /\ arrived = [s \in Stream |-> {}] /\ read = [s \in Stream |-> 0]
    /\ limit = [s \in Stream |-> Window]
    /\ reset = {} /\ dead = {}
    /\ net = {}

LoopStep == WriteSnd \/ WriteRcv \/ \E f \in net : Deliver(f)

Next ==
    \/ \E s \in Stream : DtpSend(s) \/ DtpRecv(s) \/ ResetArrives(s)
    \/ OtherSend
    \/ LoopStep
    \/ \E e \in End : Establish(e) \/ GoDown(e)

Spec == Init /\ [][Next]_vars

\* Threads are scheduled and frames arrive in the end; the sender offers the rest
\* again and the receiver polls.  Nothing makes the receiver call dtp_send, and
\* nothing makes the connection go down.
FairSpec ==
    /\ Spec
    /\ WF_vars(WriteSnd) /\ WF_vars(WriteRcv)
    /\ WF_vars(\E f \in net : Deliver(f))
    /\ \A e \in End : WF_vars(Establish(e))
    /\ \A s \in Stream : WF_vars(DtpSend(s)) /\ WF_vars(DtpRecv(s))

-----------------------------------------------------------------------------
(* Properties *)

TypeOK ==
    /\ phase \in [End -> Phase]
    /\ established \in [End -> BOOLEAN]
    /\ woken \in [End -> BOOLEAN] /\ due \in [End -> BOOLEAN]
    /\ sent \in [Stream -> Nat] /\ flushed \in [Stream -> Nat]
    /\ credit \in [Stream -> Nat] /\ limit \in [Stream -> Nat]
    /\ blockedAt \in [Stream -> Int] /\ announce \in [Stream -> BOOLEAN]
    /\ arrived \in [Stream -> SUBSET Nat] /\ read \in [Stream -> Nat]
    /\ reset \in SUBSET Stream /\ dead \in SUBSET Stream
    /\ net \in SUBSET Frame

BothOpen == \A e \in End : phase[e] = "open"

\* A byte dtp_send has accepted is never left without somebody to carry it on: it
\* has arrived, is in flight, or the sender's loop is about to run (`success means
\* written to the cache, it is sent automatically later', ffi.rs 453).
NothingVanishes ==
    BothOpen => \A s \in Stream : \A i \in 1 .. sent[s] :
        \/ i \in arrived[s]
        \/ FrameOf("data", s, i) \in net
        \/ i > flushed[s] /\ Runs("snd")

\* The one number dtp_recv answers with tells data from an error of the stream,
\* and that from the connection's state, after its casts (ffi.rs 435, 448).
ResultTells ==
    \A s \in Stream : CanTransfer("rcv") /\ Readable(s) => \A r \in RecvRets(s) :
        /\ r > 0 <=> s \notin reset
        /\ r \notin {DtpClosed, DtpNotEstablished}

\* The sender writes no further than the receiver has granted, and the receiver
\* grants no more than its window beyond what the application took.
WithinWindow ==
    \A s \in Stream :
        /\ read[s] <= flushed[s] /\ flushed[s] <= sent[s]
        /\ sent[s] <= credit[s] /\ credit[s] <= limit[s]
        /\ limit[s] <= read[s] + Window

\* Nothing is accepted before the handshake is done, and the sender announces only
\* limits it has met.
SenderInv ==
    /\ ~established["snd"] => \A s \in Stream : sent[s] = 0
    /\ \A s \in Stream : blockedAt[s] <= credit[s] /\ (announce[s] => blockedAt[s] >= 0)

\* What is in flight is within what was sent and granted.
FlightInv ==
    /\ \A s \in Stream : arrived[s] \subseteq 1 .. flushed[s] /\ 1 .. read[s] \subseteq arrived[s]
    /\ \A f \in net : IF f.type = "data" THEN f.at \in 1 .. flushed[f.stream]
                                          ELSE f.at <= limit[f.stream]

IInv == TypeOK /\ WithinWindow /\ SenderInv /\ FlightInv /\ NothingVanishes

\* The streams are pipes of bytes to the application: nothing is handed out that was
\* not accepted or after an error, in spite of frames that arrive in any order.
Pipe == INSTANCE BytePipe WITH broken <- dead
ImplementsPipe == Pipe!Spec

Failed(s) == s \in reset \cup dead \/ ~BothOpen

\* What dtp_send accepted is handed out by dtp_recv, unless the stream or the
\* connection fails: it cannot wait for a call or a packet that never comes.
AcceptedIsRead ==
    \A s \in Stream : \A n \in 1 .. MsgLen[s] :
        sent[s] >= n ~> read[s] >= n \/ Failed(s)

Whole(s) == read[s] = MsgLen[s] \/ Failed(s)

\* If the receiver's loop is woken again and again, for whatever reason, whole
\* messages get through a window smaller than they are.
WholeIfWoken == []<>woken["rcv"] => \A s \in Stream : <>Whole(s)

\* A claim the code does not keep: dtp_recv wakes the poll and sends data (the
\* comment at ffi.rs 441), so the room it makes is made known.
WholeMessage == \A s \in Stream : <>Whole(s)
=============================================================================
