------------------------------ MODULE Writers ------------------------------
(***************************************************************************)
(* Responses and MsgLoop on one connection: they compete for the room in   *)
(* its window, for its mutex and for the loop, and close it or bring it    *)
(* down under one another.                                                 *)
(***************************************************************************)
EXTENDS Responses, MsgLoop

vars == <<connVars, respVars, msgVars>>

Init == ConnInit /\ RespInit /\ MsgInit

Loop == LoopStep /\ UNCHANGED <<respVars, msgVars>>
Handler(s) == HandlerStep(s) /\ UNCHANGED msgVars
Offer(s) == HandleWritable(s) /\ UNCHANGED msgVars
Task == TaskStep /\ UNCHANGED respVars
Call(r) == Ask(r) /\ UNCHANGED respVars

Next ==
    \/ Loop
    \/ \E s \in Answers : Handler(s)
    \/ \E s \in Stream : Offer(s)
    \/ Task
    \/ \E r \in Caller : Call(r)

Spec == Init /\ [][Next]_vars

\* The threads run on when they can.  Packets and timers are not owed: the loop may
\* stay in its poll unless it was woken.
Fairness ==
    /\ WF_vars((LoopWake \/ LoopOffered \/ LoopWrite \/ LoopDies)
               /\ UNCHANGED <<respVars, msgVars>>)
    /\ \A s \in Answers : WF_vars(Handler(s))
    /\ \A s \in Stream : WF_vars(Offer(s))
    /\ WF_vars(Task)
    /\ \A r \in Caller : WF_vars(Call(r))

FairSpec == Spec /\ Fairness

-----------------------------------------------------------------------------
(* What holds while the two writers share the connection. *)

\* An entry in partial_responses says what was sent, which is not all; there is none
\* before the handler has stored it.
EntryInv ==
    \A s \in Answers :
        /\ hpc[s] \in {"send", "store", "failed", "stuck"} => partial[s] = Absent
        /\ hpc[s] = "store" => written[s] < BodyLen
        /\ partial[s] # Absent => partial[s] < BodyLen

\* The inductive invariant.
RespInv == RespTypeOK /\ EntryInv /\ EntryAgrees /\ RestIsKept
MsgInv == MsgTypeOK /\ OneReply /\ RequestInv /\ RetryIsSafe

IInv == ConnTypeOK /\ RespInv /\ MsgInv

-----------------------------------------------------------------------------
(* The two writers implement Sending *)

\* Nothing is left to do for a response: its handler has failed, or is past the store and
\* there is no entry.
Over(s) ==
    \/ hpc[s] \in {"failed", "stuck"}
    \/ hpc[s] \in {"wake", "done", "panicked"} /\ partial[s] = Absent

Snd == INSTANCE Sending WITH
         got    <- written,
         over   <- {s \in Answers : Over(s)},
         broken <- {s \in Answers : poisoned \/ s \in stopped},
         answer <- reply,
         sent   <- sentBy

\* A response is sent once from start to end and given up only when its stream or the
\* connection's mutex is broken; a request is answered once, and its byte accepted as it is
\* answered or never: whatever the loop, the other writer and the failures do in between.
ImplementsSending == Snd!SSpec

=============================================================================
