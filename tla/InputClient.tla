----------------------------- MODULE InputClient -----------------------------
(***************************************************************************)
(* A page that only sends input                                            *)
(* (moonlight-web/web-server/web/stream/input_stream.ts), with the server's *)
(* task for its WebSocket (run_attach_input) and the streamer's peer.      *)
(*                                                                         *)
(* The page keeps its socket while streams come and go: the server says    *)
(* WaitingForStream when there is none, and has the streamer send a        *)
(* WebRtcConfig for every stream it attaches the page to.  Messages are     *)
(* handled one after the other (messageProcessingQueue), and a handler     *)
(* waits for the peer connection; the close of the socket and the state of *)
(* the peer are handled beside it, and tear the peer down under it.  An    *)
(* operation of a closed peer never ends, and the queue with it.           *)
(*                                                                         *)
(* makingOffer has no variable: it is set while a handler makes an offer    *)
(* of this.peer, so that the negotiationneeded event of a new peer does    *)
(* nothing.  The streamer makes no offers to such a page, and an ICE       *)
(* candidate that fails is only logged: neither is a step here.            *)
(***************************************************************************)
EXTENDS Naturals, Sequences

CONSTANTS
    MaxTries,    \* WS_MAX_ATTEMPTS, 20 in the code
    MaxDrops,    \* bound: sockets the network refuses or drops
    MaxStreams   \* bound: streams of the host

ASSUME InputAssumption ==
    MaxTries \in Nat \ {0} /\ MaxDrops \in Nat /\ MaxStreams \in Nat

VARIABLES
    tries,      \* wsAttempt
    wsState,    \* readyState of this.ws
    armed,      \* wsConnectTimeout is the handle of a timer that runs
    strays,     \* connect timers that run and have no handle
    retrying,   \* wsReconnectTimeout
    gaveUp,     \* the user was told that the connection is lost
    left,       \* intentionalClose
    drops,      \* sockets refused or dropped so far
    waiting,    \* offers in wsSendBuffer, behind the authentication
    cur,        \* this.peer: a number, 0 for null
    made,       \* peers made so far
    signaling,  \* signalingState of this.peer; "settled" is stable with an answer
    answer,     \* remoteDescription: the peer whose offer it answers, and the
                \* attachment whose peer answered
    live,       \* this.peer is connected
    inbox,      \* messageProcessingQueue
    handler,    \* what the handler at its head waits for
    awaited,    \* the peer it waits for
    serverTask, \* run_attach_input
    attachment, \* attachments so far; the last is the page's client_id
    attachedTo, \* the stream of it
    current,    \* stream in the slot of the host, 0 for none
    started,    \* streams so far
    toPage, toServer,  \* messages on the socket
    hurried     \* history: what has overtaken what.  "close": a peer was torn down
                \* under a handler that waits for it, or before messages that wait;
                \* "message": a stream started before what was sent during the last
                \* one was handled; "task": before the server's task had seen its
                \* end and looked for the next

timerVars  == <<armed, strays, retrying>>
socketVars == <<tries, wsState, timerVars, gaveUp, left, drops, waiting>>
whichPeer  == <<cur, made>>
pagePeer   == <<whichPeer, signaling, answer, live>>
queueVars  == <<inbox, handler, awaited>>
relayVars  == <<serverTask, attachment, attachedTo>>
wireVars   == <<toPage, toServer>>
hostVars   == <<current, started>>
inputVars  == <<socketVars, pagePeer, queueVars, relayVars, hostVars, wireVars, hurried>>

NoAnswer == <<0, 0>>

InputTypeOK ==
    /\ tries \in 0..MaxTries
    /\ wsState \in {"connecting", "open", "closing", "closed"}
    /\ {armed, retrying, gaveUp, left, live} \subseteq BOOLEAN
    /\ strays \in Nat /\ drops \in 0..MaxDrops
    /\ made \in Nat /\ cur \in 0..made /\ attachment \in Nat
    /\ signaling \in {"stable", "offered", "settled"}
    /\ answer \in (0..made) \X (0..attachment)
    /\ handler \in {"none", "local", "gather", "remote"} /\ awaited \in 0..made
    /\ serverTask \in {"none", "looks", "waits", "attached"}
    /\ started \in 0..MaxStreams /\ current \in 0..started /\ attachedTo \in 0..started
    /\ waiting \in Seq(1..made) /\ toServer \in Seq(1..made)
    /\ hurried \subseteq {"close", "message", "task"}

\* The constructor has called connectWebSocket.
InputInit ==
    /\ tries = 1 /\ wsState = "connecting" /\ armed = TRUE /\ strays = 0
    /\ retrying = FALSE /\ gaveUp = FALSE /\ left = FALSE /\ drops = 0 /\ waiting = <<>>
    /\ cur = 0 /\ made = 0 /\ signaling = "stable"
    /\ answer = NoAnswer /\ live = FALSE
    /\ inbox = <<>> /\ handler = "none" /\ awaited = 0
    /\ serverTask = "none" /\ attachment = 0 /\ attachedTo = 0
    /\ current = 0 /\ started = 0
    /\ toPage = <<>> /\ toServer = <<>> /\ hurried = {}

TeardownPeer ==
    /\ cur' = 0 /\ signaling' = "stable" /\ live' = FALSE /\ answer' = NoAnswer
    /\ UNCHANGED made

\* Promises are run before the next event: what waits then waits for a handler.
Handled == handler = "none" => inbox = <<>>

\* The peer goes while something waits.
Hurry == hurried' = IF handler \in {"local", "remote"} \/ inbox # <<>>
                    THEN hurried \cup {"close"} ELSE hurried

-----------------------------------------------------------------------------
(* The socket *)

\* onWsOpen: the authentication leaves the buffer, and the server's task begins.
WsOpens ==
    /\ wsState = "connecting" /\ ~left /\ Handled
    /\ wsState' = "open" /\ armed' = FALSE /\ tries' = 0
    /\ toServer' = waiting /\ waiting' = <<>>
    /\ serverTask' = "looks"
    /\ UNCHANGED <<strays, retrying, gaveUp, left, drops, pagePeer, queueVars,
                   attachment, attachedTo, hostVars, toPage, hurried>>

\* onWsClose, with scheduleReconnect, whatever the handlers wait for.  The connect
\* timer goes on.
WsCloses ==
    /\ ~left /\ Handled
    /\ \/ wsState = "closing" /\ UNCHANGED drops
       \/ wsState \in {"connecting", "open"} /\ drops < MaxDrops /\ drops' = drops + 1
    /\ wsState' = "closed" /\ serverTask' = "none" /\ toPage' = <<>> /\ toServer' = <<>>
    /\ TeardownPeer /\ Hurry
    /\ retrying' = (retrying \/ tries < MaxTries)
    /\ gaveUp' = (gaveUp \/ (~retrying /\ tries >= MaxTries))
    /\ UNCHANGED <<tries, armed, strays, left, waiting, queueVars, attachment, attachedTo, hostVars>>

\* Bug: what the last socket could not send goes out on the next one.
ReconnectsKeepsBuffer ==
    /\ retrying /\ ~left /\ Handled
    /\ retrying' = FALSE /\ wsState' = "connecting" /\ tries' = tries + 1
    /\ armed' = TRUE /\ strays' = IF armed THEN strays + 1 ELSE strays
    /\ UNCHANGED <<waiting, gaveUp, left, drops, pagePeer, queueVars, relayVars, hostVars, wireVars, hurried>>

\* connectWebSocket: the handle of a timer that still runs is lost, and so is what
\* waits to be sent.
Reconnects ==
    /\ retrying /\ ~left /\ Handled
    /\ retrying' = FALSE /\ wsState' = "connecting" /\ tries' = tries + 1
    /\ armed' = TRUE /\ strays' = IF armed THEN strays + 1 ELSE strays
    /\ waiting' = <<>>
    /\ UNCHANGED <<gaveUp, left, drops, pagePeer, queueVars, relayVars, hostVars, wireVars, hurried>>

\* A connect timer fires: it closes this.ws, and takes the handle for its own.
TimerFires(own) ==
    /\ ~left /\ Handled /\ IF own THEN armed ELSE strays > 0
    /\ armed' = FALSE
    /\ strays' = IF own \/ armed THEN strays ELSE strays - 1
    /\ wsState' = IF wsState = "closed" THEN wsState ELSE "closing"
    /\ UNCHANGED <<tries, retrying, gaveUp, left, drops, waiting, pagePeer, queueVars, relayVars,
                   hostVars, wireVars, hurried>>

\* close()
Leave ==
    /\ ~left /\ Handled /\ left' = TRUE
    /\ wsState' = "closed" /\ armed' = FALSE /\ retrying' = FALSE
    /\ serverTask' = "none" /\ toPage' = <<>> /\ toServer' = <<>>
    /\ UNCHANGED <<tries, strays, gaveUp, drops, waiting, pagePeer, queueVars, attachment, attachedTo,
                   hostVars, hurried>>

\* onRawWsMessage
Receives ==
    /\ wsState = "open" /\ toPage # <<>> /\ Handled
    /\ inbox' = Append(inbox, Head(toPage)) /\ toPage' = Tail(toPage)
    /\ UNCHANGED <<socketVars, pagePeer, handler, awaited, relayVars, hostVars, toServer, hurried>>

-----------------------------------------------------------------------------
(* Handlers of messages *)

Takes(kind) ==
    /\ ~left /\ handler = "none" /\ inbox # <<>> /\ Head(inbox).kind = kind
    /\ inbox' = Tail(inbox)

\* Bug: the page is told to wait and keeps its peer.
HandlesWaitingKeepsPeer ==
    /\ Takes("waiting")
    /\ UNCHANGED <<socketVars, pagePeer, handler, awaited, relayVars, hostVars, wireVars, hurried>>

HandlesWaiting ==
    /\ Takes("waiting")
    /\ TeardownPeer
    /\ UNCHANGED <<socketVars, handler, awaited, relayVars, hostVars, wireVars, hurried>>

\* createPeer: nothing if there is a peer.  The new one makes an offer.  A saved
\* answer (of a peer that was torn down) is refused, as it has made none yet, and
\* the negotiationneeded event makes the offer instead; the queue, which goes on
\* beside that event, waits for it here.
HandlesConfig ==
    /\ Takes("config")
    /\ IF cur # 0
       THEN UNCHANGED <<whichPeer, signaling, live, handler, awaited>>
       ELSE /\ made' = made + 1 /\ cur' = made + 1 /\ signaling' = "stable" /\ live' = FALSE
            /\ handler' = "local" /\ awaited' = made + 1
    /\ UNCHANGED <<socketVars, answer, relayVars, hostVars, wireVars, hurried>>

\* handleRemoteDescription
HandlesAnswer ==
    /\ Takes("answer")
    /\ answer' = Head(inbox).of
    /\ IF cur = 0 THEN UNCHANGED <<handler, awaited>>
                  ELSE handler' = "remote" /\ awaited' = cur
    /\ UNCHANGED <<socketVars, whichPeer, signaling, live, relayVars, hostVars, wireVars, hurried>>

\* setLocalDescription has ended.
LocalSet ==
    /\ ~left /\ handler = "local" /\ awaited = cur
    /\ signaling' = "offered" /\ handler' = "gather"
    /\ UNCHANGED <<socketVars, whichPeer, answer, live, inbox, awaited, relayVars, hostVars, wireVars, hurried>>

\* waitForIceGathering has ended, by its timer at the latest: the description of
\* whatever is now this.peer is sent.
Gathered ==
    /\ ~left /\ handler = "gather"
    /\ LET offers == IF cur # 0 /\ signaling # "stable" THEN <<cur>> ELSE <<>>
       IN /\ toServer' = IF wsState = "open" THEN toServer \o offers ELSE toServer
          /\ waiting'  = IF wsState = "open" THEN waiting ELSE waiting \o offers
    /\ handler' = "none"
    /\ UNCHANGED <<tries, wsState, timerVars, gaveUp, left, drops, whichPeer, signaling, answer, live,
                   inbox, awaited, relayVars, hostVars, toPage, hurried>>

\* setRemoteDescription has ended; a peer without an offer refuses an answer.
RemoteSet ==
    /\ ~left /\ handler = "remote" /\ awaited = cur
    /\ signaling' = IF signaling = "offered" THEN "settled" ELSE signaling
    /\ handler' = "none"
    /\ UNCHANGED <<socketVars, whichPeer, answer, live, inbox, awaited, relayVars, hostVars, wireVars, hurried>>

\* The streamer's peer that answered the page's offer is still there.
Reaches == serverTask = "attached" /\ attachedTo = current /\ answer = <<cur, attachment>>

\* onConnectionStateChange, connected: the handle's timer is cleared.
PeerConnects ==
    /\ ~left /\ Handled /\ signaling = "settled" /\ ~live /\ Reaches
    /\ live' = TRUE /\ armed' = FALSE
    /\ UNCHANGED <<tries, wsState, strays, retrying, gaveUp, left, drops, waiting, whichPeer, signaling, answer,
                   queueVars, relayVars, hostVars, wireVars, hurried>>

\* onConnectionStateChange, failed: the streamer's peer is gone.
PeerFails ==
    /\ ~left /\ Handled /\ signaling = "settled" /\ ~Reaches
    /\ TeardownPeer /\ Hurry
    /\ UNCHANGED <<socketVars, queueVars, relayVars, hostVars, wireVars>>

-----------------------------------------------------------------------------
(* The server's task, and the streams of the host *)

Attach ==
    /\ attachment' = attachment + 1 /\ attachedTo' = current /\ serverTask' = "attached"
    /\ toPage' = Append(toPage, [kind |-> "config"])

\* wait_for_active_stream says so once if it has to wait.
Looks ==
    /\ serverTask = "looks"
    /\ IF current # 0
       THEN Attach
       ELSE /\ serverTask' = "waits" /\ toPage' = Append(toPage, [kind |-> "waiting"])
            /\ UNCHANGED <<attachment, attachedTo>>
    /\ UNCHANGED <<socketVars, pagePeer, queueVars, hostVars, toServer, hurried>>

StreamFound ==
    /\ serverTask = "waits" /\ current # 0
    /\ Attach
    /\ UNCHANGED <<socketVars, pagePeer, queueVars, hostVars, toServer, hurried>>

\* An offer that comes while the page waits is dropped.
WaitsDrops ==
    /\ serverTask = "waits" /\ toServer # <<>>
    /\ toServer' = Tail(toServer)
    /\ UNCHANGED <<socketVars, pagePeer, queueVars, relayVars, hostVars, toPage, hurried>>

\* relay_ws_to_ipc_while_attached: the streamer answers every offer, unless it is
\* gone.
Relays ==
    /\ serverTask = "attached" /\ toServer # <<>>
    /\ toServer' = Tail(toServer)
    /\ toPage' = IF attachedTo = current
               THEN Append(toPage, [kind |-> "answer", of |-> <<Head(toServer), attachment>>])
               ELSE toPage
    /\ UNCHANGED <<socketVars, pagePeer, queueVars, relayVars, hostVars, hurried>>

StreamEnded ==
    /\ serverTask = "attached" /\ current = 0
    /\ serverTask' = "looks"
    /\ UNCHANGED <<socketVars, pagePeer, queueVars, attachment, attachedTo, hostVars, wireVars, hurried>>

\* The streams of the host (external).  A task that sees the end of a stream only
\* after the next one has started stays attached to the old one.
HostStarts ==
    /\ current = 0 /\ started < MaxStreams
    /\ started' = started + 1 /\ current' = started + 1
    /\ hurried' = hurried
         \cup (IF handler # "none" \/ <<inbox, toPage, toServer, waiting>> # <<<<>>, <<>>, <<>>, <<>>>>
               THEN {"message"} ELSE {})
         \cup (IF serverTask \in {"looks", "attached"} THEN {"task"} ELSE {})
    /\ UNCHANGED <<socketVars, pagePeer, queueVars, relayVars, wireVars>>

HostEnds ==
    /\ current # 0 /\ current' = 0
    /\ UNCHANGED <<socketVars, pagePeer, queueVars, relayVars, started, wireVars, hurried>>

-----------------------------------------------------------------------------

HandlerStep == HandlesWaiting \/ HandlesConfig \/ HandlesAnswer \/ LocalSet \/ Gathered \/ RemoteSet
TaskOnWs    == Looks \/ StreamFound \/ WaitsDrops \/ Relays \/ StreamEnded

InputNext ==
    \/ WsOpens \/ WsCloses \/ Reconnects \/ Leave \/ Receives
    \/ \E own \in BOOLEAN : TimerFires(own)
    \/ HandlerStep
    \/ PeerConnects \/ PeerFails
    \/ TaskOnWs
    \/ HostStarts \/ HostEnds

InputSpec == InputInit /\ [][InputNext]_inputVars

\* Timers and handlers run, the server's task goes on, and peers that have
\* negotiated connect or fail.  Nothing is assumed of when sockets open.
InputFairness ==
    /\ WF_inputVars(wsState = "closing" /\ WsCloses)
    /\ WF_inputVars(Reconnects) /\ WF_inputVars(Receives)
    /\ \A own \in BOOLEAN : WF_inputVars(TimerFires(own))
    /\ WF_inputVars(HandlerStep)
    /\ WF_inputVars(PeerConnects) /\ WF_inputVars(PeerFails)
    /\ WF_inputVars(TaskOnWs)

InputFairSpec == InputSpec /\ InputFairness

-----------------------------------------------------------------------------
(* Properties *)

\* A peer only ever takes the answer to its own offer, although sockets close and
\* peers fail while a handler still waits, offers wait for a socket, and handlers
\* go on with the peer of another stream.  Only if a stream starts before what was
\* sent during the last one is handled may it be another's.
AnswersAreOwn ==
    "message" \notin hurried /\ signaling = "settled" => answer[1] = cur

\* In the end the page is connected to the stream there is, or there is none, or
\* the user has been told that the connection is lost (input_stream.ts: "worth
\* retrying with backoff rather than giving up").
ReattachesOrTells ==
    <>[](left \/ gaveUp \/ current = 0 \/ (live /\ Reaches))

\* As long as nothing overtakes anything, it is: no refused or dropped socket, late
\* timer or end of a stream leaves the page waiting.
ReattachesUnhurried ==
    [](hurried = {}) => <>[](left \/ gaveUp \/ current = 0 \/ (live /\ Reaches))

\* A page that stays attached to a stream is connected to it in the end, whichever
\* peer it uses, if all messages were handled before the stream started ("we'll
\* get a fresh peer once a stream is available again", onConnectionStateChange).
FreshPeer ==
    [](hurried \subseteq {"task"}) =>
        <>[](serverTask # "attached" \/ attachedTo # current \/ current = 0 \/ left \/ (live /\ Reaches))
=============================================================================
