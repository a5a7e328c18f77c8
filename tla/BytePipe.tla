------------------------------ MODULE BytePipe ------------------------------
(***************************************************************************)
(* What dtp_send and dtp_recv promise of a stream, whatever goes on in     *)
(* quiche, in the two event loops and on the network: a pipe of bytes that *)
(* hands out what was accepted, each byte once, until it breaks; once the  *)
(* receiver has been told that it broke, nothing more comes out of it.     *)
(***************************************************************************)
EXTENDS Naturals

CONSTANTS Stream,
          MsgLen  \* [Stream -> Nat]: bytes of the message on each

VARIABLES sent,   \* [Stream -> Nat]: bytes accepted
          read,   \* [Stream -> Nat]: bytes handed out
          broken  \* streams whose receiver was told of the failure

vars == <<sent, read, broken>>

Init ==
    /\ sent = [s \in Stream |-> 0] /\ read = [s \in Stream |-> 0]
    /\ broken = {}

Accept(s) ==
    /\ \E n \in sent[s] .. MsgLen[s] : sent' = [sent EXCEPT ![s] = n]
    /\ UNCHANGED <<read, broken>>

HandOut(s) ==
    /\ s \notin broken
    /\ \E n \in read[s] + 1 .. sent[s] : read' = [read EXCEPT ![s] = n]
    /\ UNCHANGED <<sent, broken>>

Break(s) ==
    /\ s \notin broken
    /\ broken' = broken \cup {s}
    /\ UNCHANGED <<sent, read>>

Next == \E s \in Stream : Accept(s) \/ HandOut(s) \/ Break(s)

Spec == Init /\ [][Next]_vars
=============================================================================
