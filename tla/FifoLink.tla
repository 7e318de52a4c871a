------------------------------ MODULE FifoLink ------------------------------
(***************************************************************************)
(* What the two ends of a link rely on: messages arrive in the order in    *)
(* which they were sent, none is left out before one that arrives, none    *)
(* arrives twice.  Nothing need arrive: the other end may be gone.         *)
(***************************************************************************)
EXTENDS Naturals, Sequences

CONSTANT Message

VARIABLES posted, got    \* everything sent, everything received

LinkInit == posted = <<>> /\ got = <<>>

Post == \E m \in Message : posted' = Append(posted, m) /\ UNCHANGED got

\* One message, or several at once.
Deliver ==
    /\ \E n \in Len(got)..Len(posted) : got' = SubSeq(posted, 1, n)
    /\ UNCHANGED posted

LinkSpec == LinkInit /\ [][Post \/ Deliver]_<<posted, got>>
=============================================================================
