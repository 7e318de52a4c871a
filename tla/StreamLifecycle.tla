-------------------------- MODULE StreamLifecycle --------------------------
(***************************************************************************)
(* The life of the streams of one host in the web server                   *)
(* (moonlight-web/web-server/src/api/stream.rs and data.rs).               *)
(*                                                                         *)
(* Every browser WebSocket is a task: a primary connection starts a        *)
(* streamer subprocess with its own settings, an input-only connection     *)
(* waits for whatever stream the host has and attaches to it.  The tasks   *)
(* meet in three shared objects of the host: the watch slot holding the    *)
(* active stream, the lifecycle lock that serialises starting a stream,    *)
(* and the host lock that is held across requests to Sunshine.  Every      *)
(* stream has a router task that owns its IPC receiver; a placeholder      *)
(* stream, started by an input-only connection, also has a supervisor.     *)
(***************************************************************************)
EXTENDS Naturals, FiniteSets

CONSTANTS
    Primaries,     \* browser connections that ask for audio and video
    Inputs,        \* browser connections that only send input
    NoConn,        \* the absence of a connection
    MaxStreams,    \* bound: streamer processes that can still be spawned
    MaxClientId,   \* u32::MAX, the client id at which next_client_id wraps
    MaxConnects,   \* bound: WebSockets opened in a behaviour
    EmptyPolls,    \* EMPTY_POLLS_BEFORE_STOP
    Faults         \* which failures the environment may produce

FaultKinds == {"stopTimeout", "hostDeleted", "streamerCrash", "spawnFailure"}

ASSUME LifecycleAssumption ==
    /\ Primaries \cap Inputs = {}
    /\ NoConn \notin Primaries \cup Inputs
    /\ MaxStreams \in Nat
    /\ MaxClientId \in Nat \ {0}
    /\ MaxConnects \in Nat
    /\ EmptyPolls \in Nat \ {0}
    /\ Faults \subseteq FaultKinds

Conns     == Primaries \cup Inputs
Streams   == 1..MaxStreams
NoStream  == 0
ClientIds == 0..MaxClientId       \* 0 is reserved for the primary

VARIABLES
    hostPresent,  \* the host is still in the slab
    active,       \* value of the watch channel active_stream
    unseen,       \* its receivers that have not marked that value as seen
    lifecycle,    \* holder of stream_lifecycle
    hostGuard,    \* holder of the host mutex (and hosts.read) across a request
    connects,     \* WebSockets opened so far
    ws,           \* the browser's side of each connection
    pc,           \* where each connection's task is
    on,           \* stream a connection spawned or is attached to
    cid,          \* client id of an attached input-only connection
    spawned,      \* streamer processes spawned so far
    proc,         \* state of each streamer process
    stopReq,      \* ServerIpcMessage::Stop has been sent to the process
    router,       \* router task of each stream
    clients,      \* ActiveStream::clients
    nextId,       \* ActiveStream::next_client_id
    sup,          \* supervisor task of a placeholder stream
    polls         \* its empty_polls

hostVars   == <<hostPresent, active, unseen>>
lockVars   == <<lifecycle, hostGuard>>
connVars   == <<connects, ws, pc, on, cid>>
streamVars == <<spawned, proc, stopReq, router, clients, nextId, sup, polls>>
vars       == <<hostVars, lockVars, connVars, streamVars>>

PrimaryPc == {"closed", "checking", "appList", "appsOk", "queued", "stopping",
              "waiting", "spawning", "relaying", "grace"}
InputPc   == {"closed", "checking", "precheck", "queued", "recheck", "query",
              "spawning", "wait", "attach", "attached", "ended", "leaving"}

PcTypeOK ==
    /\ pc \in [Conns -> PrimaryPc \cup InputPc]
    /\ \A p \in Primaries : pc[p] \in PrimaryPc
    /\ \A i \in Inputs : pc[i] \in InputPc

TypeOK ==
    /\ hostPresent \in BOOLEAN
    /\ active \in Streams \cup {NoStream}
    /\ unseen \subseteq Inputs
    /\ lifecycle \in Conns \cup {NoConn}
    /\ hostGuard \in Conns \cup {NoConn}
    /\ connects \in 0..MaxConnects
    /\ ws \in [Conns -> {"open", "closed"}]
    /\ PcTypeOK
    /\ on \in [Conns -> Streams \cup {NoStream}]
    /\ cid \in [Inputs -> ClientIds]
    /\ spawned \in 0..MaxStreams
    /\ proc \in [Streams -> {"none", "running", "stopped", "exited"}]
    /\ stopReq \in [Streams -> BOOLEAN]
    /\ router \in [Streams -> {"none", "routing", "cleared", "done"}]
    /\ clients \in [Streams -> [ClientIds -> Conns \cup {NoConn}]]
    /\ nextId \in [Streams -> 1..MaxClientId]
    /\ sup \in [Streams -> {"none", "watching", "grace", "done"}]
    /\ polls \in [Streams -> 0..EmptyPolls]

Init ==
    /\ hostPresent = TRUE
    /\ active = NoStream
    /\ unseen = {}
    /\ lifecycle = NoConn
    /\ hostGuard = NoConn
    /\ connects = 0
    /\ ws = [c \in Conns |-> "closed"]
    /\ pc = [c \in Conns |-> "closed"]
    /\ on = [c \in Conns |-> NoStream]
    /\ cid = [i \in Inputs |-> 0]
    /\ spawned = 0
    /\ proc = [s \in Streams |-> "none"]
    /\ stopReq = [s \in Streams |-> FALSE]
    /\ router = [s \in Streams |-> "none"]
    /\ clients = [s \in Streams |-> [k \in ClientIds |-> NoConn]]
    /\ nextId = [s \in Streams |-> 1]
    /\ sup = [s \in Streams |-> "none"]
    /\ polls = [s \in Streams |-> 0]

-----------------------------------------------------------------------------
(* Helpers *)

HostLockFree == hostGuard = NoConn

\* A short critical section on the host: it finds the host, or finds it gone.
HostFound == hostPresent /\ HostLockFree

NoClients(s) == \A k \in ClientIds : clients[s][k] = NoConn

GoTo(c, l) == pc' = [pc EXCEPT ![c] = l]

Close(c) ==
    /\ GoTo(c, "closed")
    /\ ws' = [ws EXCEPT ![c] = "closed"]

\* The input-only connections that hold a receiver of the watch channel.
Subscribed == {i \in Inputs : pc[i] \notin {"closed", "checking"}}

\* watch::Sender::send_replace: a new version for every receiver, even when
\* the value is an equal one; values a receiver has not looked at are lost.
SendReplace(a) ==
    /\ active' = a
    /\ unseen' = Subscribed

\* The next streamer process is spawned with its router; the stream is put in
\* the slot if the host is still there.
SpawnStreamer(primary, supervision) ==
    LET s == spawned + 1
    IN  /\ spawned < MaxStreams
        /\ HostLockFree
        /\ spawned' = s
        /\ proc' = [proc EXCEPT ![s] = "running"]
        /\ router' = [router EXCEPT ![s] = "routing"]
        /\ clients' = [clients EXCEPT ![s][0] = primary]
        /\ sup' = [sup EXCEPT ![s] = supervision]
        /\ IF hostPresent THEN SendReplace(s) ELSE UNCHANGED <<active, unseen>>
        /\ UNCHANGED <<hostPresent, stopReq, nextId, polls>>

SpawnMayFail == spawned = MaxStreams \/ "spawnFailure" \in Faults

-----------------------------------------------------------------------------
(* Opening and losing a WebSocket *)

Connect(c) ==
    /\ pc[c] = "closed"
    /\ connects < MaxConnects
    /\ connects' = connects + 1
    /\ ws' = [ws EXCEPT ![c] = "open"]
    /\ GoTo(c, "checking")
    /\ UNCHANGED <<hostVars, lockVars, on, cid, streamVars>>

\* The browser goes away; the task notices only where it reads the socket.
BrowserClose(c) ==
    /\ pc[c] # "closed"
    /\ ws[c] = "open"
    /\ ws' = [ws EXCEPT ![c] = "closed"]
    /\ UNCHANGED <<hostVars, lockVars, connects, pc, on, cid, streamVars>>

\* Bad first message, failed authentication, unknown or unpaired host.
Reject(c) ==
    /\ pc[c] = "checking"
    /\ Close(c)
    /\ UNCHANGED <<hostVars, lockVars, connects, on, cid, streamVars>>

-----------------------------------------------------------------------------
(* run_primary_stream *)

\* Authenticated and paired: take the host lock and ask for the app list.
PrimaryAdmit(p) ==
    /\ pc[p] = "checking"
    /\ HostFound
    /\ hostGuard' = p
    /\ GoTo(p, "appList")
    /\ UNCHANGED <<hostVars, lifecycle, connects, ws, on, cid, streamVars>>

PrimaryAppFound(p) ==
    /\ pc[p] = "appList"
    /\ hostGuard' = NoConn
    /\ GoTo(p, "appsOk")
    /\ UNCHANGED <<hostVars, lifecycle, connects, ws, on, cid, streamVars>>

\* The request fails, takes more than ten seconds, or the app is not listed.
PrimaryNoApp(p) ==
    /\ pc[p] = "appList"
    /\ hostGuard' = NoConn
    /\ Close(p)
    /\ UNCHANGED <<hostVars, lifecycle, connects, on, cid, streamVars>>

\* UpdateApp is sent and the host's lifecycle lock is cloned.
PrimaryQueue(p) ==
    /\ pc[p] = "appsOk"
    /\ \/ /\ HostFound
          /\ GoTo(p, "queued")
          /\ UNCHANGED ws
       \/ /\ ~hostPresent
          /\ Close(p)
    /\ UNCHANGED <<hostVars, lockVars, connects, on, cid, streamVars>>

\* Bug: an existing stream is stopped outside the lifecycle lock.
PrimaryLockNotTaken(p) ==
    /\ pc[p] = "queued"
    /\ GoTo(p, "stopping")
    /\ UNCHANGED <<hostVars, lockVars, connects, ws, on, cid, streamVars>>

PrimaryLock(p) ==
    /\ pc[p] = "queued"
    /\ lifecycle = NoConn
    /\ lifecycle' = p
    /\ GoTo(p, "stopping")
    /\ UNCHANGED <<hostVars, hostGuard, connects, ws, on, cid, streamVars>>

\* Bug: Stop is sent to the existing stream, but its end is not awaited.
PrimaryStopExistingNoWait(p) ==
    /\ pc[p] = "stopping"
    /\ ~hostPresent \/ HostFound
    /\ stopReq' = [s \in Streams |-> stopReq[s] \/ (hostPresent /\ active = s)]
    /\ GoTo(p, "spawning")
    /\ UNCHANGED <<hostVars, lockVars, connects, ws, on, cid,
                   spawned, proc, router, clients, nextId, sup, polls>>

\* stop_existing_stream_and_wait: nothing to stop, or Stop is sent.
PrimaryStopExisting(p) ==
    /\ pc[p] = "stopping"
    /\ \/ /\ ~hostPresent \/ (HostFound /\ active = NoStream)
          /\ GoTo(p, "spawning")
          /\ UNCHANGED stopReq
       \/ /\ HostFound
          /\ active # NoStream
          /\ stopReq' = [stopReq EXCEPT ![active] = TRUE]
          /\ GoTo(p, "waiting")
    /\ UNCHANGED <<hostVars, lockVars, connects, ws, on, cid,
                   spawned, proc, router, clients, nextId, sup, polls>>

\* The slot is empty, or its sender was dropped with the host.
PrimaryStopped(p) ==
    /\ pc[p] = "waiting"
    /\ active = NoStream \/ ~hostPresent
    /\ GoTo(p, "spawning")
    /\ UNCHANGED <<hostVars, lockVars, connects, ws, on, cid, streamVars>>

\* Ten seconds are over: only a warning, the new stream is started anyway.
PrimaryStopTimeout(p) ==
    /\ pc[p] = "waiting"
    /\ "stopTimeout" \in Faults
    /\ active # NoStream
    /\ GoTo(p, "spawning")
    /\ UNCHANGED <<hostVars, lockVars, connects, ws, on, cid, streamVars>>

PrimarySpawn(p) ==
    /\ pc[p] = "spawning"
    /\ SpawnStreamer(p, "none")
    /\ on' = [on EXCEPT ![p] = spawned']
    /\ lifecycle' = NoConn
    /\ GoTo(p, "relaying")
    /\ UNCHANGED <<hostGuard, connects, ws, cid>>

PrimarySpawnFails(p) ==
    /\ pc[p] = "spawning"
    /\ SpawnMayFail
    /\ lifecycle' = NoConn
    /\ Close(p)
    /\ UNCHANGED <<hostVars, hostGuard, connects, on, cid, streamVars>>

\* relay_ws_to_ipc returns once the WebSocket is closed by either side.
PrimaryRelayEnds(p) ==
    /\ pc[p] = "relaying"
    /\ ws[p] = "closed"
    /\ stopReq' = [stopReq EXCEPT ![on[p]] = TRUE]
    /\ GoTo(p, "grace")
    /\ UNCHANGED <<hostVars, lockVars, connects, ws, on, cid,
                   spawned, proc, router, clients, nextId, sup, polls>>

\* Bug: the task trusts Stop and does not kill the child.
PrimaryNoKill(p) ==
    /\ pc[p] = "grace"
    /\ on' = [on EXCEPT ![p] = NoStream]
    /\ GoTo(p, "closed")
    /\ UNCHANGED <<hostVars, lockVars, connects, ws, cid, streamVars>>

\* Four seconds after Stop the child is killed, exited or not.
PrimaryKill(p) ==
    /\ pc[p] = "grace"
    /\ proc' = [proc EXCEPT ![on[p]] = "exited"]
    /\ on' = [on EXCEPT ![p] = NoStream]
    /\ GoTo(p, "closed")
    /\ UNCHANGED <<hostVars, lockVars, connects, ws, cid,
                   spawned, stopReq, router, clients, nextId, sup, polls>>

-----------------------------------------------------------------------------
(* run_attach_input and maybe_start_placeholder_stream *)

InputSubscribe(i) ==
    /\ pc[i] = "checking"
    /\ HostFound
    /\ unseen' = unseen \ {i}
    /\ GoTo(i, "precheck")
    /\ UNCHANGED <<hostPresent, active, lockVars, connects, ws, on, cid, streamVars>>

\* First look at the slot, without the lifecycle lock.
PlaceholderPrecheck(i) ==
    /\ pc[i] = "precheck"
    /\ \/ /\ ~hostPresent \/ (HostFound /\ active # NoStream)
          /\ GoTo(i, "wait")
       \/ /\ HostFound
          /\ active = NoStream
          /\ GoTo(i, "queued")
    /\ UNCHANGED <<hostVars, lockVars, connects, ws, on, cid, streamVars>>

PlaceholderLock(i) ==
    /\ pc[i] = "queued"
    /\ lifecycle = NoConn
    /\ lifecycle' = i
    /\ GoTo(i, "recheck")
    /\ UNCHANGED <<hostVars, hostGuard, connects, ws, on, cid, streamVars>>

\* Second look, under the lock; then current_game with the host lock held.
PlaceholderRecheck(i) ==
    /\ pc[i] = "recheck"
    /\ \/ /\ ~hostPresent \/ (HostFound /\ active # NoStream)
          /\ lifecycle' = NoConn
          /\ GoTo(i, "wait")
          /\ UNCHANGED hostGuard
       \/ /\ HostFound
          /\ active = NoStream
          /\ hostGuard' = i
          /\ GoTo(i, "query")
          /\ UNCHANGED lifecycle
    /\ UNCHANGED <<hostVars, connects, ws, on, cid, streamVars>>

\* Bug: the early return keeps the lifecycle lock.
PlaceholderNoGameKeepsLock(i) ==
    /\ pc[i] = "query"
    /\ hostGuard' = NoConn
    /\ GoTo(i, "wait")
    /\ UNCHANGED <<hostVars, lifecycle, connects, ws, on, cid, streamVars>>

\* Sunshine has no game, does not answer within five seconds, or fails.
PlaceholderNoGame(i) ==
    /\ pc[i] = "query"
    /\ hostGuard' = NoConn
    /\ lifecycle' = NoConn
    /\ GoTo(i, "wait")
    /\ UNCHANGED <<hostVars, connects, ws, on, cid, streamVars>>

PlaceholderGame(i) ==
    /\ pc[i] = "query"
    /\ hostGuard' = NoConn
    /\ GoTo(i, "spawning")
    /\ UNCHANGED <<hostVars, lifecycle, connects, ws, on, cid, streamVars>>

PlaceholderSpawn(i) ==
    /\ pc[i] = "spawning"
    /\ SpawnStreamer(NoConn, "watching")
    /\ lifecycle' = NoConn
    /\ GoTo(i, "wait")
    /\ UNCHANGED <<hostGuard, connects, ws, on, cid>>

\* host_connection_info fails, or the process cannot be spawned.
PlaceholderSpawnFails(i) ==
    /\ pc[i] = "spawning"
    /\ ~hostPresent \/ SpawnMayFail
    /\ lifecycle' = NoConn
    /\ GoTo(i, "wait")
    /\ UNCHANGED <<hostVars, hostGuard, connects, ws, on, cid, streamVars>>

\* wait_for_active_stream: borrow() finds a stream (and marks nothing seen).
InputFindsStream(i) ==
    /\ pc[i] = "wait"
    /\ active # NoStream
    /\ on' = [on EXCEPT ![i] = active]
    /\ GoTo(i, "attach")
    /\ UNCHANGED <<hostVars, lockVars, connects, ws, cid, streamVars>>

\* changed() fires while the slot is still (or again) empty.
InputWaits(i) ==
    /\ pc[i] = "wait"
    /\ active = NoStream
    /\ i \in unseen
    /\ unseen' = unseen \ {i}
    /\ UNCHANGED <<hostPresent, active, lockVars, connVars, streamVars>>

\* The select! that follows an empty borrow(): the WebSocket closes, even as a
\* stream arrives, or the watch sender is gone.
InputGivesUp(i) ==
    /\ pc[i] = "wait"
    /\ \/ ws[i] = "closed" /\ (active = NoStream \/ i \in unseen)
       \/ active = NoStream /\ ~hostPresent /\ i \notin unseen
    /\ Close(i)
    /\ unseen' = unseen \ {i}
    /\ UNCHANGED <<hostPresent, active, lockVars, connects, on, cid, streamVars>>

\* Bug: the counter wraps to 0, the id of the primary.
InputAttachWrapsToPrimary(i) ==
    LET s == on[i]
        k == nextId[s]
    IN  /\ pc[i] = "attach"
        /\ nextId' = [nextId EXCEPT ![s] = (k + 1) % (MaxClientId + 1)]
        /\ clients' = [clients EXCEPT ![s][k] = i]
        /\ cid' = [cid EXCEPT ![i] = k]
        /\ GoTo(i, "attached")
        /\ UNCHANGED <<hostVars, lockVars, connects, ws, on,
                       spawned, proc, stopReq, router, sup, polls>>

\* The id is taken from the counter, which wraps back to 1 past its maximum.
InputAttach(i) ==
    LET s == on[i]
        k == nextId[s]
    IN  /\ pc[i] = "attach"
        /\ nextId' = [nextId EXCEPT ![s] = IF k = MaxClientId THEN 1 ELSE k + 1]
        /\ clients' = [clients EXCEPT ![s][k] = i]
        /\ cid' = [cid EXCEPT ![i] = k]
        /\ GoTo(i, "attached")
        /\ UNCHANGED <<hostVars, lockVars, connects, ws, on,
                       spawned, proc, stopReq, router, sup, polls>>

\* Bug: a change is noted, but the slot is not examined for the stream's end.
InputChangeIgnored(i) ==
    /\ pc[i] = "attached"
    /\ i \in unseen
    /\ unseen' = unseen \ {i}
    /\ UNCHANGED <<hostPresent, active, lockVars, connVars, streamVars>>

\* changed() in relay_ws_to_ipc_while_attached: the stream has ended only if
\* the slot is empty when the task gets to look at it.
InputChanged(i) ==
    /\ pc[i] = "attached"
    /\ \/ /\ i \in unseen
          /\ IF active = NoStream THEN GoTo(i, "ended") ELSE UNCHANGED pc
       \/ /\ i \notin unseen
          /\ ~hostPresent
          /\ GoTo(i, "ended")
    /\ unseen' = unseen \ {i}
    /\ UNCHANGED <<hostPresent, active, lockVars, connects, ws, on, cid, streamVars>>

InputWsClosed(i) ==
    /\ pc[i] = "attached"
    /\ ws[i] = "closed"
    /\ GoTo(i, "leaving")
    /\ UNCHANGED <<hostVars, lockVars, connects, ws, on, cid, streamVars>>

\* The client leaves the map; then it waits for the next stream.
InputDetach(i) ==
    /\ pc[i] = "ended"
    /\ clients' = [clients EXCEPT ![on[i]][cid[i]] = NoConn]
    /\ on' = [on EXCEPT ![i] = NoStream]
    /\ cid' = [cid EXCEPT ![i] = 0]
    /\ GoTo(i, "precheck")
    /\ UNCHANGED <<hostVars, lockVars, connects, ws,
                   spawned, proc, stopReq, router, nextId, sup, polls>>

\* The client leaves the map and its task, with its receiver, ends.
InputLeave(i) ==
    /\ pc[i] = "leaving"
    /\ clients' = [clients EXCEPT ![on[i]][cid[i]] = NoConn]
    /\ on' = [on EXCEPT ![i] = NoStream]
    /\ cid' = [cid EXCEPT ![i] = 0]
    /\ unseen' = unseen \ {i}
    /\ Close(i)
    /\ UNCHANGED <<hostPresent, active, lockVars, connects,
                   spawned, proc, stopReq, router, nextId, sup, polls>>

-----------------------------------------------------------------------------
(* The streamer process as the server sees it *)

\* It handles Stop: the moonlight stream is dropped, StreamerIpc Stop is sent.
StreamerObeysStop(s) ==
    /\ proc[s] = "running"
    /\ stopReq[s]
    /\ proc' = [proc EXCEPT ![s] = "stopped"]
    /\ UNCHANGED <<hostVars, lockVars, connVars,
                   spawned, stopReq, router, clients, nextId, sup, polls>>

\* Its peer failed or closed, or the stream did not start: it stops by itself.
StreamerEnds(s) ==
    /\ proc[s] = "running"
    /\ ~stopReq[s]
    /\ proc' = [proc EXCEPT ![s] = "stopped"]
    /\ UNCHANGED <<hostVars, lockVars, connVars,
                   spawned, stopReq, router, clients, nextId, sup, polls>>

StreamerExits(s) ==
    /\ proc[s] = "stopped"
    /\ proc' = [proc EXCEPT ![s] = "exited"]
    /\ UNCHANGED <<hostVars, lockVars, connVars,
                   spawned, stopReq, router, clients, nextId, sup, polls>>

\* Its panic hook ends the process without a Stop message.
StreamerCrash(s) ==
    /\ "streamerCrash" \in Faults
    /\ proc[s] = "running"
    /\ proc' = [proc EXCEPT ![s] = "exited"]
    /\ UNCHANGED <<hostVars, lockVars, connVars,
                   spawned, stopReq, router, clients, nextId, sup, polls>>

-----------------------------------------------------------------------------
(* The router task of a stream *)

\* Bug: the router ends without emptying the slot.
RouterLeavesSlot(s) ==
    /\ router[s] = "routing"
    /\ proc[s] \in {"stopped", "exited"}
    /\ HostLockFree
    /\ router' = [router EXCEPT ![s] = "cleared"]
    /\ UNCHANGED <<hostVars, lockVars, connVars,
                   spawned, proc, stopReq, clients, nextId, sup, polls>>

\* Stop or end of file: the slot is emptied, whichever stream it holds.
RouterClear(s) ==
    /\ router[s] = "routing"
    /\ proc[s] \in {"stopped", "exited"}
    /\ HostLockFree
    /\ router' = [router EXCEPT ![s] = "cleared"]
    /\ IF hostPresent THEN SendReplace(NoStream) ELSE UNCHANGED <<active, unseen>>
    /\ UNCHANGED <<hostPresent, lockVars, connVars,
                   spawned, proc, stopReq, clients, nextId, sup, polls>>

\* Client 0 is removed and its WebSocket, if it is still that one, closed.
RouterClosePrimary(s) ==
    /\ router[s] = "cleared"
    /\ router' = [router EXCEPT ![s] = "done"]
    /\ clients' = [clients EXCEPT ![s][0] = NoConn]
    /\ ws' = [c \in Conns |-> IF c = clients[s][0] /\ on[c] = s THEN "closed"
                                                                ELSE ws[c]]
    /\ UNCHANGED <<hostVars, lockVars, connects, pc, on, cid,
                   spawned, proc, stopReq, nextId, sup, polls>>

-----------------------------------------------------------------------------
(* supervise_placeholder_stream *)

\* Bug: the streamer's Stop message is taken for its exit.
SupervisorSeesStop(s) ==
    /\ sup[s] = "watching"
    /\ proc[s] \in {"stopped", "exited"}
    /\ sup' = [sup EXCEPT ![s] = "done"]
    /\ UNCHANGED <<hostVars, lockVars, connVars,
                   spawned, proc, stopReq, router, clients, nextId, polls>>

SupervisorSeesExit(s) ==
    /\ sup[s] = "watching"
    /\ proc[s] = "exited"
    /\ sup' = [sup EXCEPT ![s] = "done"]
    /\ UNCHANGED <<hostVars, lockVars, connVars,
                   spawned, proc, stopReq, router, clients, nextId, polls>>

SupervisorSeesClients(s) ==
    /\ sup[s] = "watching"
    /\ proc[s] # "exited"
    /\ ~NoClients(s)
    /\ polls' = [polls EXCEPT ![s] = 0]
    /\ UNCHANGED <<hostVars, lockVars, connVars,
                   spawned, proc, stopReq, router, clients, nextId, sup>>

\* One more empty poll; the last one asks the streamer to stop.
SupervisorSeesEmpty(s) ==
    /\ sup[s] = "watching"
    /\ proc[s] # "exited"
    /\ NoClients(s)
    /\ polls' = [polls EXCEPT ![s] = @ + 1]
    /\ IF polls[s] + 1 < EmptyPolls
       THEN UNCHANGED <<sup, stopReq>>
       ELSE /\ sup' = [sup EXCEPT ![s] = "grace"]
            /\ stopReq' = [stopReq EXCEPT ![s] = TRUE]
    /\ UNCHANGED <<hostVars, lockVars, connVars,
                   spawned, proc, router, clients, nextId>>

\* Bug: the supervisor trusts Stop and does not kill the child.
SupervisorNoKill(s) ==
    /\ sup[s] = "grace"
    /\ sup' = [sup EXCEPT ![s] = "done"]
    /\ UNCHANGED <<hostVars, lockVars, connVars,
                   spawned, proc, stopReq, router, clients, nextId, polls>>

SupervisorKill(s) ==
    /\ sup[s] = "grace"
    /\ proc' = [proc EXCEPT ![s] = "exited"]
    /\ sup' = [sup EXCEPT ![s] = "done"]
    /\ UNCHANGED <<hostVars, lockVars, connVars,
                   spawned, stopReq, router, clients, nextId, polls>>

-----------------------------------------------------------------------------

\* delete_host: needs hosts.write, so no request to Sunshine is in progress.
DeleteHost ==
    /\ "hostDeleted" \in Faults
    /\ HostFound
    /\ hostPresent' = FALSE
    /\ UNCHANGED <<active, unseen, lockVars, connVars, streamVars>>

\* Nothing is left to do: every connection is closed, every task has ended.
Finished ==
    /\ connects = MaxConnects
    /\ \A c \in Conns : pc[c] = "closed"
    /\ \A s \in Streams : /\ proc[s] \in {"none", "exited"}
                          /\ router[s] \in {"none", "done"}
                          /\ sup[s] \in {"none", "done"}
    /\ UNCHANGED vars

PrimaryStep(p) ==
    \/ PrimaryAdmit(p) \/ PrimaryAppFound(p) \/ PrimaryNoApp(p)
    \/ PrimaryQueue(p) \/ PrimaryLock(p) \/ PrimaryStopExisting(p)
    \/ PrimaryStopped(p) \/ PrimaryStopTimeout(p)
    \/ PrimarySpawn(p) \/ PrimarySpawnFails(p)
    \/ PrimaryRelayEnds(p) \/ PrimaryKill(p)

InputStep(i) ==
    \/ InputSubscribe(i) \/ PlaceholderPrecheck(i) \/ PlaceholderLock(i)
    \/ PlaceholderRecheck(i) \/ PlaceholderNoGame(i) \/ PlaceholderGame(i)
    \/ PlaceholderSpawn(i) \/ PlaceholderSpawnFails(i)
    \/ InputFindsStream(i) \/ InputWaits(i) \/ InputGivesUp(i)
    \/ InputAttach(i) \/ InputChanged(i) \/ InputWsClosed(i)
    \/ InputDetach(i) \/ InputLeave(i)

RouterStep(s) == RouterClear(s) \/ RouterClosePrimary(s)

SupervisorStep(s) ==
    \/ SupervisorSeesExit(s) \/ SupervisorSeesClients(s)
    \/ SupervisorSeesEmpty(s) \/ SupervisorKill(s)

StreamerStep(s) ==
    \/ StreamerObeysStop(s) \/ StreamerEnds(s)
    \/ StreamerExits(s) \/ StreamerCrash(s)

Next ==
    \/ \E c \in Conns : Connect(c) \/ BrowserClose(c) \/ Reject(c)
    \/ \E p \in Primaries : PrimaryStep(p)
    \/ \E i \in Inputs : InputStep(i)
    \/ \E s \in Streams : RouterStep(s) \/ SupervisorStep(s) \/ StreamerStep(s)
    \/ DeleteHost
    \/ Finished

Spec == Init /\ [][Next]_vars

-----------------------------------------------------------------------------
(* Fairness.  The tokio runtime runs every task that can go on.  Its mutexes *)
(* are FIFO, so strong fairness would be justified for the steps that take   *)
(* one; as the connections of a behaviour are bounded, weak fairness is      *)
(* enough.  Requests to Sunshine are bounded by timeouts.  select! picks a   *)
(* ready branch at random, so a closed WebSocket is noticed however busy the *)
(* other branch is.  A streamer handles a Stop it has received; nothing is   *)
(* assumed of its exit, and nothing of browsers.                             *)

Fairness ==
    /\ \A p \in Primaries : WF_vars(PrimaryStep(p) \/ Reject(p))
    /\ \A i \in Inputs : /\ WF_vars(InputStep(i) \/ Reject(i))
                         /\ WF_vars(InputWsClosed(i))
    /\ \A s \in Streams : /\ WF_vars(RouterStep(s))
                          /\ WF_vars(SupervisorStep(s))
                          /\ WF_vars(StreamerObeysStop(s))

FairSpec == Spec /\ Fairness

-----------------------------------------------------------------------------
(* Safety *)

\* A connection that found the slot empty under the lifecycle lock and is on
\* its way to start a placeholder keeps finding it empty: nobody else can
\* register a stream meanwhile (the purpose of stream_lifecycle in data.rs).
PlaceholderFindsSlotEmpty ==
    \A i \in Inputs : pc[i] \in {"query", "spawning"} => active = NoStream

\* A stream in the slot of a host is one whose router still runs, so what an
\* input-only client finds there can still answer and can still be ended.
SlotHoldsRoutedStream ==
    hostPresent /\ active # NoStream => router[active] = "routing"

\* No streamer process is left to itself: until it has exited, the task of the
\* connection that started it, or its supervisor, is there to kill it.
EveryStreamerHasAKeeper ==
    \A s \in Streams : proc[s] \in {"running", "stopped"} =>
        \/ \E p \in Primaries : on[p] = s /\ pc[p] \in {"relaying", "grace"}
        \/ sup[s] \in {"watching", "grace"}

\* The slot is empty only when no stream of this host is being routed
\* ("None while no primary (AV) stream is running", data.rs).
EmptySlotMeansNoStream ==
    hostPresent /\ active = NoStream => \A s \in Streams : router[s] # "routing"

\* At most one stream of the host is live at a time.
OneLiveStream ==
    hostPresent => \A s, t \in Streams :
        router[s] = "routing" /\ router[t] = "routing" => s = t

\* Replies tagged with the id of an attached client reach that client, and while a
\* stream is routed, those tagged 0 reach its primary browser.  (When the host is
\* deleted its clients attach again and again, and take up ids until the counter
\* wraps.)
ClientsAreReached ==
    /\ hostPresent => \A i \in Inputs : pc[i] = "attached" => clients[on[i]][cid[i]] = i
    /\ \A p \in Primaries : pc[p] \in {"relaying", "grace"} /\ router[on[p]] = "routing"
                               => clients[on[p]][0] = p

\* Seen from outside, the slot, the routers and the attached clients are those
\* of a host with one stream at a time.
Host == INSTANCE HostStream WITH
    Stream  <- Streams,
    Client  <- Inputs,
    current <- active,
    over    <- {s \in Streams : router[s] \in {"cleared", "done"}},
    using   <- [i \in Inputs |-> on[i]]

ImplementsHostStream == Host!Spec

-----------------------------------------------------------------------------
(* Liveness *)

\* A browser that asks for a stream gets one or is refused, however many
\* connections contend for the host and whatever is running on it.
PrimaryGetsThrough ==
    \A p \in Primaries : pc[p] = "queued" ~> pc[p] \in {"relaying", "closed"}

\* When a primary's stream is over, its process is gone before long, even if
\* it never exits by itself.
PrimaryStreamerReaped ==
    \A s \in Streams : router[s] = "cleared" /\ sup[s] = "none" ~> proc[s] = "exited"

\* A placeholder that stays without clients is ended after the grace period.
IdlePlaceholderEnds ==
    \A s \in Streams : sup[s] = "watching" /\ NoClients(s)
                         ~> proc[s] = "exited" \/ ~NoClients(s)

\* If the host stays without a stream, every input-only client lets go of
\* the stream it was attached to.
DetachWhenOver ==
    <>[](active = NoStream) => <>[](\A i \in Inputs : on[i] = NoStream)

\* An input-only client whose stream has ended goes back to waiting for the
\* next one (the comment in the router task of stream.rs).
EndedStreamIsLeft ==
    \A i \in Inputs, s \in Streams :
        on[i] = s /\ router[s] = "done" ~> on[i] # s
=============================================================================
