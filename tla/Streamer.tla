------------------------------ MODULE Streamer ------------------------------
(***************************************************************************)
(* The streamer process (moonlight-web/streamer/src/main.rs): the main     *)
(* task sets everything up, spawns the start of the Moonlight stream and   *)
(* waits for terminate.  stop() is called by the IPC loop, by the state    *)
(* handler of the primary peer and by the start task when it fails, and    *)
(* nothing keeps these calls apart.  The peers of input-only clients are   *)
(* attached by the IPC loop and detached by it or by their own handlers.   *)
(***************************************************************************)

CONSTANTS
    Clients,    \* ids of input-only clients; the server uses each once
    NoTask      \* the absence of a lock holder

Handlers == Clients                       \* state handler of an input peer
Stoppers == {"ipc", "start", "peer"}      \* the tasks that call stop()
Tasks    == Stoppers \cup Handlers

ASSUME StreamerAssumption ==
    /\ Clients \cap Stoppers = {}
    /\ NoTask \notin Tasks

VARIABLES
    main,       \* the main task
    at,         \* where each task is
    arg,        \* client the IPC loop is attaching or detaching
    took,       \* task has taken the stream out of connection.stream
    closing,    \* peers a task still has to close
    stream,     \* connection.stream is there
    session,    \* the Moonlight connection (MoonlightStream)
    peers,      \* secondary_peers
    peersLock,  \* task that holds secondary_peers across an await
    open,       \* input peers that are not closed
    server,     \* what the server has asked for each client
    restarted,  \* ice_restart_attempted
    told        \* the server has been sent Stop

procVars   == <<main, at>>
streamVars == <<took, stream, session, told>>
peerVars   == <<arg, closing, peers, peersLock, open, server>>
vars       == <<procVars, streamVars, peerVars, restarted>>

Labels == {"idle", "none", "returned", "connect", "store",
           "take", "drop", "dropping", "drain", "closeAll", "tell", "notify",
           "insert", "remove", "close"}

TypeOK ==
    /\ main \in {"setup", "spawned", "waiting", "woken", "exited"}
    /\ at \in [Tasks -> Labels]
    /\ arg \in Clients \cup {NoTask}
    /\ took \in [Stoppers -> BOOLEAN]
    /\ closing \in [Tasks -> SUBSET Clients]
    /\ stream \in BOOLEAN
    /\ session \in {"none", "connecting", "up", "stopping"}
    /\ peers \subseteq Clients
    /\ peersLock \in Stoppers \cup {NoTask}
    /\ open \subseteq Clients
    /\ server \in [Clients -> {"new", "attached", "left"}]
    /\ restarted \in BOOLEAN
    /\ told \in BOOLEAN

\* StreamConnection::new has spawned the IPC loop and installed the handlers.
Init ==
    /\ main = "setup"
    /\ at = [t \in Tasks |-> IF t = "start" THEN "none" ELSE "idle"]
    /\ arg = NoTask
    /\ took = [t \in Stoppers |-> FALSE]
    /\ closing = [t \in Tasks |-> {}]
    /\ stream = FALSE
    /\ session = "none"
    /\ peers = {}
    /\ peersLock = NoTask
    /\ open = {}
    /\ server = [c \in Clients |-> "new"]
    /\ restarted = FALSE
    /\ told = FALSE

Alive      == main # "exited"
Goto(t, l) == at' = [at EXCEPT ![t] = l]

\* Bug: the lock is held while a peer is closed.
PeersFreeWhenClosed == peersLock = NoTask /\ \A t \in Tasks : closing[t] = {}

PeersFree == peersLock = NoTask

\* The task is somewhere inside stop().
Stopping(t) == at[t] \in {"take", "drop", "dropping", "drain", "closeAll", "tell", "notify"}

-----------------------------------------------------------------------------
(* The main task *)

MainSpawnsStart ==
    /\ main = "setup"
    /\ main' = "spawned"
    /\ Goto("start", "connect")
    /\ UNCHANGED <<streamVars, peerVars, restarted>>

\* From here on notify_waiters finds a waiter.
MainWaits ==
    /\ main = "spawned"
    /\ main' = "waiting"
    /\ UNCHANGED <<at, streamVars, peerVars, restarted>>

\* The process is gone with everything it has.
MainExits ==
    /\ main = "woken"
    /\ main' = "exited"
    /\ at' = [t \in Tasks |-> "returned"]
    /\ arg' = NoTask
    /\ took' = [t \in Stoppers |-> FALSE]
    /\ closing' = [t \in Tasks |-> {}]
    /\ stream' = FALSE
    /\ session' = "none"
    /\ peers' = {} /\ open' = {} /\ peersLock' = NoTask
    /\ restarted' = FALSE
    /\ UNCHANGED <<server, told>>

-----------------------------------------------------------------------------
(* start_stream, in its own task *)

StartConnects ==
    /\ Alive /\ at["start"] = "connect" /\ session = "none"
    /\ session' = "connecting"
    /\ UNCHANGED <<procVars, took, stream, told, peerVars, restarted>>

StartSucceeds ==
    /\ Alive /\ at["start"] = "connect" /\ session = "connecting"
    /\ session' = "up"
    /\ Goto("start", "store")
    /\ UNCHANGED <<main, took, stream, told, peerVars, restarted>>

\* The task calls stop() when the stream could not be started.
StartFails ==
    /\ Alive /\ at["start"] = "connect" /\ session = "connecting"
    /\ session' = "none"
    /\ Goto("start", "take")
    /\ UNCHANGED <<main, took, stream, told, peerVars, restarted>>

\* The stream is stored, whether or not stop() has run in the meantime.
StartStores ==
    /\ Alive /\ at["start"] = "store"
    /\ stream' = TRUE
    /\ Goto("start", "returned")
    /\ UNCHANGED <<main, took, session, told, peerVars, restarted>>

-----------------------------------------------------------------------------
(* The state handler of the primary peer.  Nothing closes this peer (the two  *)
(* calls of close() are for input peers), so that its Closed branch is never  *)
(* taken, and it is New until a description has come.                         *)

\* Descriptions are exchanged and ICE takes its seconds: the main task waits.
Negotiates == main \in {"waiting", "woken"}

\* A first failure is answered with an ICE restart, a second one with stop().
\* (After that the flag is not read again, and is reset here to save states.)
PeerFails ==
    /\ Negotiates /\ at["peer"] = "idle"
    /\ restarted' = ~restarted
    /\ IF restarted THEN Goto("peer", "take") ELSE UNCHANGED at
    /\ UNCHANGED <<main, streamVars, peerVars>>

PeerConnects ==
    /\ Negotiates /\ at["peer"] = "idle"
    /\ restarted' = FALSE
    /\ UNCHANGED <<procVars, streamVars, peerVars>>

-----------------------------------------------------------------------------
(* stop() *)

\* Bug: the stream is used, but not taken.
StopTakesCopy(t) ==
    /\ Alive /\ at[t] = "take"
    /\ took' = [took EXCEPT ![t] = stream]
    /\ Goto(t, "drop")
    /\ UNCHANGED <<main, stream, session, told, peerVars, restarted>>

StopTakes(t) ==
    /\ Alive /\ at[t] = "take"
    /\ took' = [took EXCEPT ![t] = stream]
    /\ stream' = FALSE
    /\ Goto(t, "drop")
    /\ UNCHANGED <<main, session, told, peerVars, restarted>>

\* Bug: a caller that finds no stream returns.
StopDropsOrReturns(t) ==
    /\ Alive /\ at[t] = "drop"
    /\ IF took[t]
       THEN session' = "stopping" /\ Goto(t, "dropping")
       ELSE Goto(t, "returned") /\ UNCHANGED session
    /\ UNCHANGED <<main, took, stream, told, peerVars, restarted>>

\* Only the caller that took the stream stops the connection, in a blocking
\* task that may be slow; for the others there is nothing to drop.
StopDrops(t) ==
    /\ Alive /\ at[t] = "drop"
    /\ IF took[t]
       THEN session' = "stopping" /\ Goto(t, "dropping")
       ELSE Goto(t, "drain") /\ UNCHANGED session
    /\ UNCHANGED <<main, took, stream, told, peerVars, restarted>>

StopDropped(t) ==
    /\ Alive /\ at[t] = "dropping"
    /\ session' = "none"
    /\ took' = [took EXCEPT ![t] = FALSE]
    /\ Goto(t, "drain")
    /\ UNCHANGED <<main, stream, told, peerVars, restarted>>

\* Bug: the peers are forgotten, not closed.
StopDrainsOnly(t) ==
    /\ Alive /\ at[t] = "drain" /\ PeersFree
    /\ peersLock' = t
    /\ peers' = {}
    /\ Goto(t, "closeAll")
    /\ UNCHANGED <<main, streamVars, arg, closing, open, server, restarted>>

\* The input peers leave the map; its lock is held until all are closed.
StopDrains(t) ==
    /\ Alive /\ at[t] = "drain" /\ PeersFree
    /\ peersLock' = t
    /\ closing' = [closing EXCEPT ![t] = peers]
    /\ peers' = {}
    /\ Goto(t, "closeAll")
    /\ UNCHANGED <<main, streamVars, arg, open, server, restarted>>

StopClosed(t) ==
    /\ Alive /\ at[t] = "closeAll"
    /\ closing[t] = {}
    /\ peersLock' = NoTask
    /\ Goto(t, "tell")
    /\ UNCHANGED <<main, streamVars, arg, closing, peers, open, server, restarted>>

StopTells(t) ==
    /\ Alive /\ at[t] = "tell"
    /\ told' = TRUE
    /\ Goto(t, "notify")
    /\ UNCHANGED <<main, took, stream, session, peerVars, restarted>>

\* notify_waiters wakes the main task if it waits, and is lost otherwise.  The
\* IPC loop ends with its Stop.  (Bound: the peer's handler calls stop() once,
\* as the other two tasks do.)
StopNotifies(t) ==
    /\ Alive /\ at[t] = "notify"
    /\ main' = IF main = "waiting" THEN "woken" ELSE main
    /\ Goto(t, "returned")
    /\ UNCHANGED <<streamVars, peerVars, restarted>>

-----------------------------------------------------------------------------
(* Input peers *)

\* peer.close() has returned (it may take long, and need not return).
CloseReturns(t) ==
    /\ Alive
    /\ \E c \in closing[t] :
         /\ closing' = [closing EXCEPT ![t] = @ \ {c}]
         /\ open' = open \ {c}
    /\ UNCHANGED <<procVars, streamVars, arg, peers, peersLock, server, restarted>>

\* The server attaches a client: its peer is created, then put into the map.
AttachCreates ==
    /\ Alive /\ at["ipc"] = "idle"
    /\ \E c \in Clients :
         /\ server[c] = "new"
         /\ server' = [server EXCEPT ![c] = "attached"]
         /\ open' = open \cup {c}
         /\ arg' = c
    /\ Goto("ipc", "insert")
    /\ UNCHANGED <<main, streamVars, closing, peers, peersLock, restarted>>

AttachInserts ==
    /\ Alive /\ at["ipc"] = "insert" /\ PeersFree
    /\ peers' = peers \cup {arg}
    /\ arg' = NoTask
    /\ Goto("ipc", "idle")
    /\ UNCHANGED <<main, streamVars, closing, peersLock, open, server, restarted>>

\* The server detaches a client, or the client's peer fails or is closed.
DetachAsked ==
    /\ Alive /\ at["ipc"] = "idle"
    /\ \E c \in Clients :
         /\ server[c] = "attached"
         /\ server' = [server EXCEPT ![c] = "left"]
         /\ arg' = c
    /\ Goto("ipc", "remove")
    /\ UNCHANGED <<main, streamVars, closing, peers, peersLock, open, restarted>>

InputPeerEnds(c) ==
    /\ Alive /\ at[c] = "idle" /\ c \in peers
    /\ Goto(c, "remove")
    /\ UNCHANGED <<main, streamVars, peerVars, restarted>>

Leaver(t) == IF t = "ipc" THEN arg ELSE t

\* The peer is taken out of the map and closed after the lock is released;
\* whoever comes second finds nothing to close, and is done.
DetachRemoves(t) ==
    /\ Alive /\ at[t] = "remove" /\ PeersFree
    /\ closing' = [closing EXCEPT ![t] = {Leaver(t)} \cap peers]
    /\ peers' = peers \ {Leaver(t)}
    /\ Goto(t, IF Leaver(t) \in peers THEN "close" ELSE "idle")
    /\ arg' = IF t = "ipc" /\ arg \notin peers THEN NoTask ELSE arg
    /\ UNCHANGED <<main, streamVars, peersLock, open, server, restarted>>

\* Who has closed a peer looks into the map once more, for the count it reports.
DetachReturns(t) ==
    /\ Alive /\ at[t] = "close" /\ PeersFree
    /\ closing[t] = {}
    /\ Goto(t, "idle")
    /\ arg' = IF t = "ipc" THEN NoTask ELSE arg
    /\ UNCHANGED <<main, streamVars, closing, peers, peersLock, open, server, restarted>>

-----------------------------------------------------------------------------
(* The IPC loop *)

\* The loop reads no more requests.
LoopEnds == server' = [c \in Clients |-> "left"]

StopAsked ==
    /\ Alive /\ at["ipc"] = "idle"
    /\ LoopEnds
    /\ Goto("ipc", "take")
    /\ UNCHANGED <<main, streamVars, arg, closing, peers, peersLock, open, restarted>>

\* The server is gone: the loop ends, and nothing else does.
IpcEnds ==
    /\ Alive /\ at["ipc"] = "idle"
    /\ LoopEnds
    /\ Goto("ipc", "returned")
    /\ UNCHANGED <<main, streamVars, arg, closing, peers, peersLock, open, restarted>>

-----------------------------------------------------------------------------

MainStep   == MainSpawnsStart \/ MainWaits \/ MainExits
StartStep  == StartConnects \/ StartSucceeds \/ StartFails \/ StartStores
StopStep(t) ==
    \/ StopTakes(t) \/ StopDrops(t) \/ StopDropped(t) \/ StopDrains(t)
    \/ StopClosed(t) \/ StopTells(t) \/ StopNotifies(t)
DetachStep(t) == DetachRemoves(t) \/ DetachReturns(t)

Next ==
    \/ MainStep
    \/ StartStep
    \/ PeerFails \/ PeerConnects
    \/ \E t \in Stoppers : StopStep(t)
    \/ AttachCreates \/ AttachInserts \/ DetachAsked \/ StopAsked \/ IpcEnds
    \/ \E c \in Clients : InputPeerEnds(c)
    \/ \E t \in Handlers \cup {"ipc"} : DetachStep(t)
    \/ \E t \in Tasks : CloseReturns(t)

Spec == Init /\ [][Next]_vars

\* Tasks run on, requests to Sunshine and the teardown of the stream end.  The
\* map's lock is only ever held by stop(), which each task calls once, so
\* weak fairness is enough for the steps that wait for it.  peer.close() need
\* not return (the comment in detach_input_peer), and nothing is assumed of the
\* server and the network.
Fairness ==
    /\ WF_vars(MainStep)
    /\ WF_vars(StartStep \/ StopStep("start"))
    /\ WF_vars(AttachInserts \/ DetachStep("ipc") \/ StopStep("ipc"))
    /\ WF_vars(StopStep("peer"))
    /\ \A c \in Clients : WF_vars(DetachStep(c))

FairSpec == Spec /\ Fairness

-----------------------------------------------------------------------------
(* Properties *)

\* However many calls of stop() there are, at most one of them tears the
\* Moonlight connection down, and none while another call still has it stored.
OneTeardown ==
    /\ \A t, u \in Stoppers : took[t] /\ took[u] => t = u
    /\ stream => session = "up"

\* No input peer is lost: until it is closed it is in the map, or a task has it
\* in its hands.
NoPeerLost ==
    \A c \in open :
        \/ c \in peers
        \/ \E t \in Tasks : c \in closing[t]
        \/ at["ipc"] = "insert" /\ arg = c

\* A client is attached although the closing of another one's peer, which its
\* handler began, never returns, unless the process is being stopped (the
\* comment in detach_input_peer).
AttachNotBlocked ==
    at["ipc"] = "insert" ~>
        at["ipc"] # "insert" \/ main = "exited" \/ \E t \in Stoppers : Stopping(t)

\* A call of stop() ends the process if the main task waits for it by then and
\* every peer.close() returns.
StopEndsWaiting ==
    <>[](\A t \in Tasks : closing[t] = {}) =>
        ((main = "waiting" /\ \E t \in Stoppers : Stopping(t)) ~> main = "exited")

\* The server hears Stop after the Moonlight connection is down, so that the
\* next streamer does not race its teardown (stop_existing_stream_and_wait).
ToldWhenDown == told => session = "none"

\* When the server has asked for it, the process exits ("the process is exiting").
StopEndsProcess ==
    <>[](\A t \in Tasks : closing[t] = {}) =>
        (at["ipc"] = "notify" ~> main = "exited")
=============================================================================
