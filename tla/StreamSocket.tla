---------------------------- MODULE StreamSocket ----------------------------
(***************************************************************************)
(* How the browser of a stream connects its WebSocket                      *)
(* (moonlight-web/web-server/web/stream/index.ts, class Stream).           *)
(*                                                                         *)
(* Every attempt makes a new socket, and this.ws is the newest one.  The   *)
(* handlers of all sockets and timers run one at a time in one thread, in  *)
(* an order the browser chooses, and none of them knows which socket or    *)
(* attempt it was called for.                                              *)
(***************************************************************************)
EXTENDS Naturals, Sequences

CONSTANTS
    MaxAttempts,  \* WS_MAX_ATTEMPTS, 10 in the code
    NoTimer       \* wsConnectTimeout is null

Sockets  == 1..MaxAttempts
Messages == {"auth", "offer"}
Timers   == {"connect", "stream"} \X Sockets

ASSUME SocketAssumption == MaxAttempts \in Nat \ {0} /\ NoTimer \notin Timers

VARIABLES
    attempt,  \* wsAttempt, and the number of the socket this.ws
    opened,   \* wsOpened
    timer,    \* wsConnectTimeout
    timers,   \* timers that were started and neither fired nor were cleared
    retries,  \* calls of connectWebSocket that are waiting for their delay
    buffer,   \* wsSendBuffer
    sock,     \* readyState of every socket
    sent,     \* messages that left through a socket
    peer,     \* the peer connection; "failed" includes "closed"
    offered,  \* the peer's offer was made
    told,     \* history: an error was dispatched to the page
    stale     \* history: a socket was closed by its timeout, and its close event
              \* came after the next socket was made

connVars == <<attempt, opened, retries>>
sockVars == <<buffer, sock, sent>>
timeVars == <<timer, timers>>
peerVars == <<peer, offered>>
vars     == <<connVars, sockVars, timeVars, peerVars, told, stale>>

TypeOK ==
    /\ attempt \in Sockets
    /\ opened \in BOOLEAN
    /\ timer \in Timers \cup {NoTimer}
    /\ timers \subseteq Timers
    /\ retries \in 0..1
    /\ buffer \in Seq(Messages)
    /\ sock \in [Sockets -> {"none", "connecting", "open", "closing", "closed"}]
    /\ sent \in [Sockets -> Seq(Messages)]
    /\ peer \in {"none", "new", "connected", "failed"}
    /\ offered \in BOOLEAN
    /\ told \in BOOLEAN
    /\ stale \in BOOLEAN

\* The constructor has called connectWebSocket.
Init ==
    /\ attempt = 1
    /\ opened = FALSE
    /\ timer = <<"connect", 1>>
    /\ timers = {<<"connect", 1>>}
    /\ retries = 0
    /\ buffer = <<"auth">>
    /\ sock = [k \in Sockets |-> IF k = 1 THEN "connecting" ELSE "none"]
    /\ sent = [k \in Sockets |-> <<>>]
    /\ peer = "none"
    /\ offered = FALSE
    /\ told = FALSE
    /\ stale = FALSE

SetTimer(id) == timer' = id /\ timers' = (timers \ {timer}) \cup {id}
ClearTimer   == timer' = NoTimer /\ timers' = timers \ {timer}

\* Messages handed to a socket: sent if it is open.  Sending throws while it is
\* connecting, and does nothing once it is closing.
Deliver(k, msgs, state) ==
    sent' = IF state = "open" THEN [sent EXCEPT ![k] = @ \o msgs] ELSE sent

-----------------------------------------------------------------------------
(* Attempts *)

\* Bug: the new attempt has no timeout.
ConnectWithoutTimeout ==
    /\ retries > 0
    /\ retries' = retries - 1
    /\ attempt' = attempt + 1
    /\ opened' = FALSE
    /\ sock' = [sock EXCEPT ![attempt + 1] = "connecting"]
    /\ buffer' = <<"auth">>
    /\ UNCHANGED <<timeVars, sent, peerVars, told, stale>>

\* connectWebSocket.  A timer that still runs goes on without its handle.
Connect ==
    /\ retries > 0
    /\ retries' = retries - 1
    /\ attempt' = attempt + 1
    /\ opened' = FALSE
    /\ sock' = [sock EXCEPT ![attempt + 1] = "connecting"]
    /\ buffer' = <<"auth">>
    /\ timer' = <<"connect", attempt + 1>>
    /\ timers' = timers \cup {timer'}
    /\ UNCHANGED <<sent, peerVars, told, stale>>

\* Bug: the retry is left to the close event.
ConnectTimeoutOnlyCloses(k) ==
    /\ <<"connect", k>> \in timers
    /\ timers' = timers \ {<<"connect", k>>}
    /\ timer' = NoTimer
    /\ sock' = [sock EXCEPT ![attempt] = IF @ = "closed" THEN @ ELSE "closing"]
    /\ told' = (told \/ attempt = MaxAttempts)
    /\ UNCHANGED <<connVars, buffer, sent, peerVars, stale>>

\* The socket did not open within 5 s.
ConnectTimeout(k) ==
    /\ <<"connect", k>> \in timers
    /\ timers' = timers \ {<<"connect", k>>}
    /\ timer' = NoTimer
    /\ sock' = [sock EXCEPT ![attempt] = IF @ = "closed" THEN @ ELSE "closing"]
    /\ IF attempt < MaxAttempts
       THEN retries' = retries + 1 /\ UNCHANGED told
       ELSE told' = TRUE /\ UNCHANGED retries
    /\ UNCHANGED <<attempt, opened, buffer, sent, peerVars, stale>>

\* There was no stream within 30 s of an open socket.
StreamTimeout(k) ==
    /\ <<"stream", k>> \in timers
    /\ timers' = timers \ {<<"stream", k>>}
    /\ told' = (told \/ peer # "connected")
    /\ UNCHANGED <<connVars, sockVars, timer, peerVars, stale>>

-----------------------------------------------------------------------------
(* Sockets: when they open and close is the network's and the server's choice *)

\* onWsOpen sends what waits through this.ws, whichever socket has opened.
OnWsOpen(k) ==
    /\ sock[k] = "connecting"
    /\ sock' = [sock EXCEPT ![k] = "open"]
    /\ opened' = TRUE
    /\ SetTimer(<<"stream", k>>)
    /\ Deliver(attempt, buffer, sock'[attempt])
    /\ buffer' = <<>>
    /\ UNCHANGED <<attempt, retries, peerVars, told, stale>>

\* onWsClose: of the close that a timeout asked for, of a socket that is refused,
\* and of an open socket.
OnWsClose(k) ==
    /\ sock[k] \in {"connecting", "open", "closing"}
    /\ sock' = [sock EXCEPT ![k] = "closed"]
    /\ stale' = (stale \/ (sock[k] = "closing" /\ k # attempt))
    /\ \/ \* a retry is pending
          /\ attempt < MaxAttempts /\ timer = NoTimer
          /\ UNCHANGED <<retries, timeVars, told>>
       \/ \* never opened
          /\ attempt < MaxAttempts /\ timer # NoTimer /\ ~opened
          /\ ClearTimer
          /\ retries' = retries + 1
          /\ UNCHANGED told
       \/ \* no more attempts, or it had been open
          /\ attempt < MaxAttempts => timer # NoTimer /\ opened
          /\ told' = (told \/ peer # "connected")
          /\ UNCHANGED <<retries, timeVars>>
    /\ UNCHANGED <<attempt, opened, buffer, sent, peerVars>>

-----------------------------------------------------------------------------
(* The peer connection *)

\* WebRtcConfig: the server's answer to the authentication, on whichever socket.
\* A second one finds a peer and does nothing.
CreatePeer(k) ==
    /\ sock[k] = "open"
    /\ "auth" \in {sent[k][n] : n \in DOMAIN sent[k]}
    /\ peer = "none"
    /\ peer' = "new"
    /\ UNCHANGED <<connVars, sockVars, timeVars, offered, told, stale>>

\* sendLocalDescription: through this.ws, or into the buffer if it is not open.
SendOffer ==
    /\ peer = "new"
    /\ ~offered
    /\ offered' = TRUE
    /\ Deliver(attempt, <<"offer">>, sock[attempt])
    /\ buffer' = IF sock[attempt] = "open" THEN buffer ELSE Append(buffer, "offer")
    /\ UNCHANGED <<connVars, sock, timeVars, peer, told, stale>>

\* A server that was authenticated and got the offer has answered it (external).
PeerConnected ==
    /\ peer = "new"
    /\ \E k \in Sockets, m, n \in 1..2 :
          /\ m < n /\ n <= Len(sent[k])
          /\ sent[k][m] = "auth" /\ sent[k][n] = "offer"
    /\ peer' = "connected"
    /\ ClearTimer
    /\ UNCHANGED <<connVars, sockVars, offered, told, stale>>

PeerFailed ==
    /\ offered
    /\ peer \in {"new", "connected"}
    /\ peer' = "failed"
    /\ told' = TRUE
    /\ UNCHANGED <<connVars, sockVars, timeVars, offered, stale>>

-----------------------------------------------------------------------------

Page ==
    \/ Connect
    \/ SendOffer
    \/ \E k \in Sockets : ConnectTimeout(k) \/ StreamTimeout(k)

Next ==
    \/ Page
    \/ \E k \in Sockets : OnWsOpen(k) \/ OnWsClose(k) \/ CreatePeer(k)
    \/ PeerConnected \/ PeerFailed

Spec == Init /\ [][Next]_vars

\* The browser runs timers that are due.  Nothing is assumed of the network or
\* of the server.
Fairness ==
    /\ WF_vars(Connect)
    /\ \A k \in Sockets : WF_vars(ConnectTimeout(k)) /\ WF_vars(StreamTimeout(k))

FairSpec == Spec /\ Fairness

-----------------------------------------------------------------------------
(* Properties *)

\* A close that is taken for the page's own is followed by another attempt
\* (onWsClose: "Closed by our timeout handler, retry is pending").
SuppressedCloseRetries ==
    timer = NoTimer /\ attempt < MaxAttempts /\ peer \in {"none", "new"} => retries > 0

\* The events of an old and of a new socket together never start two attempts, nor
\* more attempts than allowed (WS_MAX_ATTEMPTS).
AttemptsBounded == retries <= 1 /\ attempt + retries <= MaxAttempts

\* The server never gets the authentication of one socket twice, even if it had
\* waited for an earlier socket.
AuthOncePerSocket ==
    \A k \in Sockets : \A m, n \in DOMAIN sent[k] :
        sent[k][m] = "auth" /\ sent[k][n] = "auth" => m = n

\* As long as the browser reports a socket it was told to close before it makes
\* the next one, a socket that is open was the newest one when it opened and has
\* sent the authentication before anything else.
AuthSentOnOpen ==
    ~stale => \A k \in Sockets :
        sock[k] = "open" => k = attempt /\ sent[k] # <<>> /\ sent[k][1] = "auth"

\* The page does not wait for ever: it gets its stream, or the user is told.
ConnectsOrTells == <>(told \/ peer = "connected")
=============================================================================
