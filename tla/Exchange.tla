------------------------------ MODULE Exchange ------------------------------
(***************************************************************************)
(* What the program of src/main.rs amounts to for somebody who looks at    *)
(* its messages and its output, with no worker, handshake, timer or retry  *)
(* in sight: each client's request is read and answered once, by a server  *)
(* that lets go of the client only when the answer is printed or the       *)
(* connection lost, and a client that ends has printed its answer.         *)
(* Module Driver implements it.                                            *)
(***************************************************************************)
CONSTANT Client

VARIABLES stage,  \* [Client -> Stage]: how far each client's exchange has got
          served, \* clients whose thread of the server has ended
          lost,   \* clients whose connection expired
          joined  \* has main seen all of them end?

xvars == <<stage, served, lost, joined>>

Stage == {"quiet", "asked", "heard", "answered", "printed", "left"}

XInit ==
    /\ stage = [c \in Client |-> "quiet"]
    /\ served = {} /\ lost = {}
    /\ joined = FALSE

Move(c, from, to) ==
    /\ stage[c] = from
    /\ stage' = [stage EXCEPT ![c] = to]

Ask(c) == Move(c, "quiet", "asked") /\ UNCHANGED <<served, lost, joined>>
Hear(c) == Move(c, "asked", "heard") /\ UNCHANGED <<served, lost, joined>>
Answer(c) ==
    /\ c \notin served
    /\ Move(c, "heard", "answered")
    /\ UNCHANGED <<served, lost, joined>>
PrintAnswer(c) == Move(c, "answered", "printed") /\ UNCHANGED <<served, lost, joined>>

\* The client's task ends; its last call may find the connection expired.
Leave(c) ==
    /\ Move(c, "printed", "left")
    /\ lost' \in {lost, lost \cup {c}}
    /\ UNCHANGED <<served, joined>>

\* The server's thread for c ends: it has read the request, and takes no answer from
\* a client that could still print it.
Forget(c) ==
    /\ c \notin served
    /\ stage[c] \in {"printed", "left"} \/ (c \in lost /\ stage[c] \in {"heard", "answered"})
    /\ served' = served \cup {c}
    /\ UNCHANGED <<stage, lost, joined>>

Lose(c) == lost' = lost \cup {c} /\ UNCHANGED <<stage, served, joined>>

Join ==
    /\ \A c \in Client : stage[c] = "left"
    /\ joined' = TRUE
    /\ UNCHANGED <<stage, served, lost>>

XNext ==
    \/ Join
    \/ \E c \in Client : \/ Ask(c) \/ Hear(c) \/ Answer(c) \/ PrintAnswer(c)
                         \/ Leave(c) \/ Forget(c) \/ Lose(c)

XSpec == XInit /\ [][XNext]_xvars
=============================================================================
