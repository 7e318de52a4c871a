------------------------------ MODULE MCProcess ------------------------------
(***************************************************************************)
(* The instances of Streamer and GamepadSlots that are to hold: the two    *)
(* parts of the streamer process, which share no state in the models.  A   *)
(* behaviour is one of the component that `part` names, and the other      *)
(* stays as it is.                                                         *)
(***************************************************************************)
EXTENDS Streamer, GamepadSlots, Sequences, TLC

Seqs == INSTANCE SequencesExt

CONSTANTS primary, phone   \* Browsers

VARIABLE part

ProcessInit == part \in {"streamer", "gamepads"} /\ Init /\ SlotsInit

StreamerPart == part = "streamer" /\ Next /\ UNCHANGED <<part, gamepadVars>>
GamepadsPart == part = "gamepads" /\ SlotsNext /\ UNCHANGED <<part, vars>>

\* The fairness that the modules state.  A behaviour is of one part, so that the
\* k-th action of each can share a condition.
ClientList == Seqs!SetToSeq(Clients)
TaskList   == Seqs!SetToSeq(PadTasks)

StreamerTurn(k) ==
    \/ k = 1 /\ MainStep
    \/ k = 2 /\ (StartStep \/ StopStep("start"))
    \/ k = 3 /\ (AttachInserts \/ DetachStep("ipc") \/ StopStep("ipc"))
    \/ k = 4 /\ StopStep("peer")
    \/ k - 4 \in DOMAIN ClientList /\ DetachStep(ClientList[k - 4])

GamepadsTurn(k) ==
    \/ k \in DOMAIN TaskList /\ TaskStep(TaskList[k])
    \/ k = Len(TaskList) + 1 /\ StartReturns

turnVars == IF part = "streamer" THEN vars ELSE gamepadVars

Turn(k) ==
    /\ UNCHANGED part
    /\ \/ part = "streamer" /\ StreamerTurn(k)
       \/ part = "gamepads" /\ GamepadsTurn(k)

ProcessSpec ==
    /\ ProcessInit /\ [][StreamerPart \/ GamepadsPart]_<<part, vars, gamepadVars>>
    /\ \A k \in 1..6 : WF_turnVars(Turn(k))
=============================================================================
