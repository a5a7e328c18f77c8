------------------------------ MODULE Sending ------------------------------
(***************************************************************************)
(* What the two writers of module Writers promise about what they send,    *)
(* with no window, mutex, channel or loop in sight.  A response is sent    *)
(* from its start on, never past its end, and is left incomplete only if   *)
(* its stream or the connection broke.  A caller of the message loop gets  *)
(* one answer, and its byte is accepted at that moment or never.           *)
(***************************************************************************)
EXTENDS Naturals

CONSTANTS Answers, \* streams with a response
          BodyLen, \* its length
          Caller

VARIABLES got,    \* [Answers -> 0 .. BodyLen]: accepted of each response
          over,   \* responses nothing will be sent of any more
          broken, \* responses that may be given up
          answer, \* [Caller -> Reply of MsgLoop]
          sent    \* [Caller -> {0, 1}]: accepted of the caller's byte

respPart == <<got, over, broken>>
callPart == <<answer, sent>>
svars == <<respPart, callPart>>

SInit ==
    /\ got = [s \in Answers |-> 0]
    /\ over = {} /\ broken = {}
    /\ answer = [r \in Caller |-> "none"]
    /\ sent = [r \in Caller |-> 0]

\* More of a response is accepted, and it is over when that was the end of it.
Extend(s) ==
    /\ s \notin over
    /\ \E n \in got[s] .. BodyLen :
         /\ got' = [got EXCEPT ![s] = n]
         /\ over' \in {over} \cup IF n = BodyLen THEN {over \cup {s}} ELSE {}
    /\ UNCHANGED <<broken, callPart>>

Abandon(s) ==
    /\ s \in broken \ over
    /\ over' = over \cup {s}
    /\ UNCHANGED <<got, broken, callPart>>

Break ==
    /\ broken \subseteq broken' /\ broken' \subseteq Answers
    /\ UNCHANGED <<got, over, callPart>>

Ask(r) ==
    /\ answer[r] = "none"
    /\ \E a \in {"waiting", "panicked"} : answer' = [answer EXCEPT ![r] = a]
    /\ UNCHANGED <<respPart, sent>>

Reply(r, a, n) ==
    /\ answer[r] = "waiting"
    /\ answer' = [answer EXCEPT ![r] = a]
    /\ sent' = [sent EXCEPT ![r] = n]
    /\ UNCHANGED respPart

\* The loop is gone: nobody waits any longer.
GiveUp ==
    /\ answer' = [r \in Caller |-> IF answer[r] = "waiting" THEN "panicked" ELSE answer[r]]
    /\ UNCHANGED <<respPart, sent>>

SNext ==
    \/ Break \/ GiveUp
    \/ \E s \in Answers : Extend(s) \/ Abandon(s)
    \/ \E r \in Caller : \/ Ask(r) \/ Reply(r, "ok", 1)
                         \/ \E a \in {"ok", "empty", "err", "retry"} : Reply(r, a, 0)

SSpec == SInit /\ [][SNext]_svars
=============================================================================
