-------------------------------- MODULE Ipc --------------------------------
(***************************************************************************)
(* The pipes between the server and a streamer (common/src/ipc.rs): a      *)
(* bounded channel, a task that writes its messages as lines into a pipe,  *)
(* a reader of lines at the other end.  The loops that read are part of the*)
(* model, since what they do before they read again decides who waits for  *)
(* whom: the streamer's loop answers in the other direction, the server's  *)
(* router hands messages to a WebSocket.  Pipes, processes and the browser *)
(* at the end of the WebSocket are external.                               *)
(***************************************************************************)
EXTENDS Naturals, Sequences

CONSTANTS
    Requests,   \* what the server sends after Init, in order: "signal", "stop", "bad"
    MaxOther,   \* messages the streamer sends on its own
    ChanCap,    \* capacity of the channel (10)
    PipeCap,    \* lines a pipe holds
    WsCap,      \* messages a WebSocket session holds
    IpcFaults   \* what may happen: "crash", "readError"

ASSUME IpcAssumption ==
    /\ Requests \in Seq({"signal", "stop", "bad"})
    /\ {MaxOther, ChanCap, PipeCap, WsCap} \subseteq Nat
    /\ ChanCap > 0 /\ PipeCap > 0 /\ WsCap > 0

Dirs == {"down", "up"}                    \* server to streamer, and back
Source == [d \in Dirs |-> IF d = "down" THEN "server" ELSE "streamer"]
Target == [d \in Dirs |-> IF d = "down" THEN "streamer" ELSE "server"]

\* A "bad" message cannot be serialised, or the line it makes not be parsed.
Texts == {"signal", "stop", "bad", "answer", "other"}

VARIABLES
    handed,     \* what was handed to IpcSender::send and accepted, and can be read
    chan,       \* the channel between the senders and the writer task
    writing,    \* the message the writer task writes, if any
    gone,       \* directions whose writer task has returned
    pipe,       \* lines in the pipe
    read,       \* what recv() has returned
    loop,       \* the task that calls recv(): "recv", "busy", "stopped", "ended"
    toSend,     \* requests the server has not sent yet
    others,     \* messages the streamer has sent on its own
    ws,         \* messages the WebSocket session holds
    alive,      \* processes that run
    readFailed  \* directions whose reading failed (IpcReceiver::errored)

ipcVars == <<handed, chan, writing, gone, pipe, read, loop, toSend, others, ws, alive, readFailed>>

IpcTypeOK ==
    /\ handed \in [Dirs -> Seq(Texts)]
    /\ chan \in [Dirs -> Seq(Texts)] /\ \A d \in Dirs : Len(chan[d]) <= ChanCap
    /\ writing \in [Dirs -> {<<>>} \cup {<<m>> : m \in Texts}]
    /\ gone \subseteq Dirs
    /\ pipe \in [Dirs -> Seq(Texts)] /\ \A d \in Dirs : Len(pipe[d]) <= PipeCap
    /\ read \in [Dirs -> Seq(Texts)]
    /\ loop \in [Dirs -> {"recv", "busy", "stopped", "ended"}]
    /\ toSend \in Seq(Texts)
    /\ others \in 0..MaxOther
    /\ ws \in 0..WsCap
    /\ alive \subseteq {"server", "streamer"}
    /\ readFailed \subseteq Dirs

\* create_child_ipc, create_process_ipc
IpcInit ==
    /\ handed = [d \in Dirs |-> <<>>]
    /\ chan = [d \in Dirs |-> <<>>]
    /\ writing = [d \in Dirs |-> <<>>]
    /\ gone = {}
    /\ pipe = [d \in Dirs |-> <<>>]
    /\ read = [d \in Dirs |-> <<>>]
    /\ loop = [d \in Dirs |-> "recv"]
    /\ toSend = Requests
    /\ others = 0
    /\ ws = 0
    /\ alive = {"server", "streamer"}
    /\ readFailed = {}

-----------------------------------------------------------------------------
(* IpcSender::send *)

Readable(m) == m # "bad"
Hands(d, m) == handed' = IF Readable(m) THEN [handed EXCEPT ![d] = Append(@, m)] ELSE handed

\* Bug: try_send.  What does not fit is left out.
PutOrDrop(d, m) ==
    /\ Source[d] \in alive /\ Hands(d, m)
    /\ chan' = IF Len(chan[d]) < ChanCap /\ d \notin gone
               THEN [chan EXCEPT ![d] = Append(@, m)] ELSE chan

\* send() waits while the channel is full.  When the writer task has returned it
\* fails, which is only logged.
Put(d, m) ==
    /\ Source[d] \in alive
    /\ \/ /\ d \notin gone /\ Len(chan[d]) < ChanCap
          /\ chan' = [chan EXCEPT ![d] = Append(@, m)]
          /\ Hands(d, m)
       \/ /\ d \in gone
          /\ UNCHANGED <<chan, handed>>

\* The tasks of the server's WebSockets, one message after the other.
ServerSends ==
    /\ toSend # <<>>
    /\ Put("down", Head(toSend))
    /\ toSend' = Tail(toSend)
    /\ UNCHANGED <<writing, gone, pipe, read, loop, others, ws, alive, readFailed>>

\* Stages, states and candidates of the streamer, from tasks of their own.
StreamerSends ==
    /\ others < MaxOther
    /\ Put("up", "other")
    /\ others' = others + 1
    /\ UNCHANGED <<writing, gone, pipe, read, loop, toSend, ws, alive, readFailed>>

-----------------------------------------------------------------------------
(* The writer task: ipc_sender *)

WriterTakes(d) ==
    /\ Source[d] \in alive /\ d \notin gone /\ writing[d] = <<>> /\ chan[d] # <<>>
    /\ writing' = [writing EXCEPT ![d] = <<Head(chan[d])>>]
    /\ chan' = [chan EXCEPT ![d] = Tail(@)]
    /\ UNCHANGED <<handed, gone, pipe, read, loop, toSend, others, ws, alive, readFailed>>

\* serde_json refuses the message: the next one, please.
WriterSkips(d) ==
    /\ Source[d] \in alive /\ writing[d] = <<"bad">>
    /\ writing' = [writing EXCEPT ![d] = <<>>]
    /\ UNCHANGED <<handed, gone, chan, pipe, read, loop, toSend, others, ws, alive, readFailed>>

WriterWrites(d) ==
    /\ Source[d] \in alive /\ Target[d] \in alive
    /\ writing[d] # <<>> /\ Len(pipe[d]) < PipeCap
    /\ pipe' = [pipe EXCEPT ![d] = @ \o writing[d]]
    /\ writing' = [writing EXCEPT ![d] = <<>>]
    /\ UNCHANGED <<handed, gone, chan, read, loop, toSend, others, ws, alive, readFailed>>

\* Nobody reads any more: the task returns, and what waits in the channel is lost.
WriterFails(d) ==
    /\ Source[d] \in alive /\ Target[d] \notin alive
    /\ writing[d] # <<>>
    /\ gone' = gone \cup {d}
    /\ writing' = [writing EXCEPT ![d] = <<>>]
    /\ chan' = [chan EXCEPT ![d] = <<>>]
    /\ UNCHANGED <<handed, pipe, read, loop, toSend, others, ws, alive, readFailed>>

-----------------------------------------------------------------------------
(* IpcReceiver::recv, called by the streamer's loop ("down") and the router ("up") *)

Reads(d) == Target[d] \in alive /\ loop[d] = "recv" /\ d \notin readFailed

\* What the loop does with a message: only Stop ends it.
RecvMessage(d) ==
    /\ Reads(d) /\ pipe[d] # <<>> /\ Readable(Head(pipe[d]))
    /\ read' = [read EXCEPT ![d] = Append(@, Head(pipe[d]))]
    /\ pipe' = [pipe EXCEPT ![d] = Tail(@)]
    /\ loop' = [loop EXCEPT ![d] = IF Head(pipe[d]) = "stop" THEN "stopped" ELSE "busy"]
    /\ UNCHANGED <<handed, chan, writing, gone, toSend, others, ws, alive, readFailed>>

\* Bug: a line that cannot be parsed ends the loop.
RecvBadEnds(d) ==
    /\ Reads(d) /\ pipe[d] # <<>> /\ Head(pipe[d]) = "bad"
    /\ pipe' = [pipe EXCEPT ![d] = Tail(@)]
    /\ loop' = [loop EXCEPT ![d] = "ended"]
    /\ UNCHANGED <<handed, chan, writing, gone, read, toSend, others, ws, alive, readFailed>>

\* A malformed line is skipped within recv().
RecvSkips(d) ==
    /\ Reads(d) /\ pipe[d] # <<>> /\ Head(pipe[d]) = "bad"
    /\ pipe' = [pipe EXCEPT ![d] = Tail(@)]
    /\ UNCHANGED <<handed, chan, writing, gone, read, loop, toSend, others, ws, alive, readFailed>>

\* End of file.
RecvNone(d) ==
    /\ Reads(d) /\ pipe[d] = <<>> /\ Source[d] \notin alive
    /\ loop' = [loop EXCEPT ![d] = "ended"]
    /\ UNCHANGED <<handed, chan, writing, gone, pipe, read, toSend, others, ws, alive, readFailed>>

RecvFails(d) ==
    /\ Reads(d) /\ "readError" \in IpcFaults
    /\ readFailed' = readFailed \cup {d}
    /\ loop' = [loop EXCEPT ![d] = "ended"]
    /\ UNCHANGED <<handed, chan, writing, gone, pipe, read, toSend, others, ws, alive>>

\* on_ipc_message: the loop reads on when its answer is in the channel.
LoopAnswers ==
    /\ loop["down"] = "busy"
    /\ Put("up", "answer")
    /\ loop' = [loop EXCEPT !["down"] = "recv"]
    /\ UNCHANGED <<writing, gone, pipe, read, toSend, others, ws, alive, readFailed>>

\* The router reads on when the session has taken the message.
RouterHandsOver ==
    /\ loop["up"] = "busy" /\ "server" \in alive /\ ws < WsCap
    /\ ws' = ws + 1
    /\ loop' = [loop EXCEPT !["up"] = "recv"]
    /\ UNCHANGED <<handed, chan, writing, gone, pipe, read, toSend, others, alive, readFailed>>

BrowserReads ==
    /\ ws > 0
    /\ ws' = ws - 1
    /\ UNCHANGED <<handed, chan, writing, gone, pipe, read, loop, toSend, others, alive, readFailed>>

-----------------------------------------------------------------------------

\* A process is gone, with its channels; what is in a pipe can still be read.
Dies(p) ==
    /\ "crash" \in IpcFaults /\ alive = {"server", "streamer"}
    /\ alive' = alive \ {p}
    /\ chan' = [d \in Dirs |-> IF Source[d] = p THEN <<>> ELSE chan[d]]
    /\ writing' = [d \in Dirs |-> IF Source[d] = p THEN <<>> ELSE writing[d]]
    /\ gone' = gone \cup {d \in Dirs : Source[d] = p}
    /\ loop' = [d \in Dirs |-> IF Target[d] = p /\ loop[d] # "stopped"
                               THEN "ended" ELSE loop[d]]
    /\ UNCHANGED <<handed, pipe, read, toSend, others, ws, readFailed>>

WriterStep(d) == WriterTakes(d) \/ WriterSkips(d) \/ WriterWrites(d) \/ WriterFails(d)
RecvStep(d)   == RecvMessage(d) \/ RecvSkips(d) \/ RecvNone(d)

IpcNext ==
    \/ ServerSends \/ StreamerSends \/ LoopAnswers \/ RouterHandsOver \/ BrowserReads
    \/ \E d \in Dirs : WriterStep(d) \/ RecvStep(d) \/ RecvFails(d)
    \/ \E p \in {"server", "streamer"} : Dies(p)

IpcSpec == IpcInit /\ [][IpcNext]_ipcVars

\* Tasks that can go on do, and the browser takes what the server has for it: if it did
\* not, the router would wait for it, and with the router the streamer.
IpcFairness ==
    /\ WF_ipcVars(ServerSends) /\ WF_ipcVars(RouterHandsOver) /\ WF_ipcVars(BrowserReads)
    /\ WF_ipcVars(LoopAnswers)
    /\ \A d \in Dirs : WF_ipcVars(WriterStep(d)) /\ WF_ipcVars(RecvStep(d))

IpcFairSpec == IpcSpec /\ IpcFairness

-----------------------------------------------------------------------------
(* Properties *)

Down == INSTANCE FifoLink WITH Message <- Texts,
            posted <- handed["down"], got <- read["down"]
Up   == INSTANCE FifoLink WITH Message <- Texts,
            posted <- handed["up"], got <- read["up"]

\* Each direction is a link of the kind the other modules take for granted: order kept,
\* nothing left out, whatever dies and whatever cannot be parsed.
ImplementsLink == Down!LinkSpec /\ Up!LinkSpec

Healthy == alive = {"server", "streamer"} /\ readFailed = {}

\* A Stop the server sends is handled, also behind a line nobody can parse and while the
\* loop that would handle it waits to get an answer through the other direction
\* (ipc.rs:195-197).
StopIsHandled ==
    (\E n \in DOMAIN handed["down"] : handed["down"][n] = "stop")
        ~> (loop["down"] = "stopped" \/ ~Healthy)
=============================================================================
