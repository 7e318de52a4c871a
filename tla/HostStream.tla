----------------------------- MODULE HostStream -----------------------------
(***************************************************************************)
(* What a host promises the connections that use it, whatever goes on      *)
(* between tasks, locks and processes: it has at most one stream at a      *)
(* time, a stream starts only when there is none and ends for good, and a  *)
(* client takes up only the stream that is current.                        *)
(* StreamLifecycle implements it (ImplementsHostStream).                   *)
(***************************************************************************)
CONSTANTS
    Stream,    \* streams a host may have had
    Client,    \* clients that take up whatever stream there is
    NoStream   \* the absence of a stream

VARIABLES
    current,   \* the stream of the host
    over,      \* streams that have ended
    using      \* stream each client has taken up

vars == <<current, over, using>>

Init ==
    /\ current = NoStream
    /\ over = {}
    /\ using = [c \in Client |-> NoStream]

Start(s) ==
    /\ current = NoStream
    /\ s \notin over
    /\ current' = s
    /\ UNCHANGED <<over, using>>

\* Ending the stream does not take it out of the hands of its clients.
End(s) ==
    /\ current = s
    /\ current' = NoStream
    /\ over' = over \cup {s}
    /\ UNCHANGED using

Use(c) ==
    /\ using[c] = NoStream
    /\ current # NoStream
    /\ using' = [using EXCEPT ![c] = current]
    /\ UNCHANGED <<current, over>>

Release(c) ==
    /\ using[c] # NoStream
    /\ using' = [using EXCEPT ![c] = NoStream]
    /\ UNCHANGED <<current, over>>

Next ==
    \/ \E s \in Stream : Start(s) \/ End(s)
    \/ \E c \in Client : Use(c) \/ Release(c)

Spec == Init /\ [][Next]_vars
=============================================================================
