----------------------- MODULE StreamLifecycleProofs -----------------------
(***************************************************************************)
(* What holds of StreamLifecycle for every set of connections, every       *)
(* number of streams and every choice of failures.                         *)
(***************************************************************************)
EXTENDS StreamLifecycle, FiniteSetTheorems, TLAPS

-----------------------------------------------------------------------------
(* Type correctness *)

\* A task that moves to a label of its own kind leaves pc well typed.
LEMMA PrimaryGoTo ==
    ASSUME PcTypeOK, NEW p \in Primaries, NEW l \in PrimaryPc, GoTo(p, l)
    PROVE  PcTypeOK'
BY LifecycleAssumption DEF PcTypeOK, GoTo, Conns, PrimaryPc, InputPc

LEMMA InputGoTo ==
    ASSUME PcTypeOK, NEW i \in Inputs, NEW l \in InputPc, GoTo(i, l)
    PROVE  PcTypeOK'
BY LifecycleAssumption DEF PcTypeOK, GoTo, Conns, PrimaryPc, InputPc

LEMMA ConnGoTo ==
    ASSUME PcTypeOK, NEW c \in Conns, NEW l \in {"closed", "checking"}, GoTo(c, l)
    PROVE  PcTypeOK'
BY PrimaryGoTo, InputGoTo DEF Conns, PrimaryPc, InputPc

LEMMA PcUnchanged == ASSUME PcTypeOK, UNCHANGED pc PROVE PcTypeOK'
BY DEF PcTypeOK

\* Putting a connection (or none) under an id keeps the client maps well typed.
LEMMA ClientsUpdate ==
    ASSUME clients \in [Streams -> [ClientIds -> Conns \cup {NoConn}]],
           NEW s, NEW k, NEW c \in Conns \cup {NoConn}
    PROVE  [clients EXCEPT ![s][k] = c]
             \in [Streams -> [ClientIds -> Conns \cup {NoConn}]]
OBVIOUS

SpawnedTypeOK ==
    /\ spawned' \in Streams
    /\ active' \in Streams \cup {NoStream}
    /\ unseen' \subseteq Inputs
    /\ proc' \in [Streams -> {"none", "running", "stopped", "exited"}]
    /\ router' \in [Streams -> {"none", "routing", "cleared", "done"}]
    /\ clients' \in [Streams -> [ClientIds -> Conns \cup {NoConn}]]
    /\ sup' \in [Streams -> {"none", "watching", "grace", "done"}]
    /\ UNCHANGED <<hostPresent, stopReq, nextId, polls>>

\* Spawning a streamer types every variable it changes.
LEMMA SpawnTyped ==
    ASSUME TypeOK, NEW c \in Conns \cup {NoConn}, NEW w \in {"none", "watching"},
           SpawnStreamer(c, w)
    PROVE  SpawnedTypeOK
<1>1. spawned' = spawned + 1 /\ spawned' \in Streams
  BY LifecycleAssumption DEF SpawnStreamer, TypeOK, Streams
<1>2. clients' \in [Streams -> [ClientIds -> Conns \cup {NoConn}]]
  <2>1. clients' = [clients EXCEPT ![spawned + 1][0] = c]
    BY DEF SpawnStreamer
  <2> QED  BY <2>1, ClientsUpdate DEF TypeOK
<1>3. active' \in Streams \cup {NoStream} /\ unseen' \subseteq Inputs
  BY <1>1 DEF SpawnStreamer, SendReplace, Subscribed, TypeOK
<1>4. QED  BY <1>1, <1>2, <1>3 DEF SpawnStreamer, TypeOK, SpawnedTypeOK

\* A supervisor that still watches has counted fewer than EmptyPolls.
PollsInv == \A s \in Streams : sup[s] \in {"none", "watching"} => polls[s] < EmptyPolls

\* Streams that are not spawned yet have no process, router or supervisor.
FreshInv == \A s \in Streams : s > spawned =>
                proc[s] = "none" /\ router[s] = "none" /\ sup[s] = "none"

\* The slot and the tasks only hold streams that exist, and a task has one in
\* its hands wherever its code uses it.
HasStream == {"relaying", "grace", "attach", "attached", "ended", "leaving"}
OnInv == /\ active <= spawned
         /\ \A c \in Conns : on[c] <= spawned /\ (pc[c] \in HasStream => on[c] # NoStream)

BaseInv == TypeOK /\ PollsInv /\ FreshInv /\ OnInv

\* The steps that touch the slot, a process, a router or a supervisor: a spawn,
\* the stream's own tasks, and the kill at the end of a primary connection.
LEMMA StreamSteps ==
    ASSUME [Next]_vars
    PROVE  \/ \E p \in Primaries : PrimarySpawn(p)
           \/ \E i \in Inputs : PlaceholderSpawn(i)
           \/ \E p \in Primaries : PrimaryKill(p)
           \/ \E s \in Streams : RouterStep(s) \/ SupervisorStep(s) \/ StreamerStep(s)
           \/ UNCHANGED <<active, spawned, proc, router, sup, polls>>
<1> USE DEF hostVars, streamVars
<1>1. CASE \E c \in Conns : Connect(c) \/ BrowserClose(c) \/ Reject(c)
  BY <1>1 DEF Connect, BrowserClose, Reject
<1>2. ASSUME NEW p \in Primaries, PrimaryStep(p)
      PROVE  \/ PrimarySpawn(p) \/ PrimaryKill(p)
             \/ UNCHANGED <<active, spawned, proc, router, sup, polls>>
  BY <1>2 DEF PrimaryStep, PrimaryAdmit, PrimaryAppFound, PrimaryNoApp,
     PrimaryQueue, PrimaryLock, PrimaryStopExisting, PrimaryStopped,
     PrimaryStopTimeout, PrimarySpawnFails, PrimaryRelayEnds
<1>3. ASSUME NEW i \in Inputs, InputStep(i)
      PROVE  \/ PlaceholderSpawn(i)
             \/ UNCHANGED <<active, spawned, proc, router, sup, polls>>
  BY <1>3 DEF InputStep, InputSubscribe, PlaceholderPrecheck, PlaceholderLock,
     PlaceholderRecheck, PlaceholderNoGame, PlaceholderGame,
     PlaceholderSpawnFails, InputFindsStream, InputWaits, InputGivesUp,
     InputAttach, InputChanged, InputWsClosed, InputDetach, InputLeave
<1>4. CASE DeleteHost \/ Finished \/ UNCHANGED vars
  BY <1>4 DEF DeleteHost, Finished, vars
<1> QED  BY <1>1, <1>2, <1>3, <1>4 DEF Next

\* The steps in which a task moves, other than those above.
LEMMA TaskSteps ==
    ASSUME [Next]_vars
    PROVE  \/ \E c \in Conns : Connect(c) \/ Reject(c)
           \/ \E p \in Primaries : PrimaryStep(p)
           \/ \E i \in Inputs : InputStep(i)
           \/ UNCHANGED <<pc, on, lifecycle>>
<1> USE DEF connVars, lockVars
<1>1. ASSUME NEW s \in Streams, RouterStep(s) \/ SupervisorStep(s) \/ StreamerStep(s)
      PROVE  UNCHANGED <<pc, on, lifecycle>>
  BY <1>1 DEF RouterStep, RouterClear, RouterClosePrimary, SupervisorStep,
     SupervisorSeesExit, SupervisorSeesClients, SupervisorSeesEmpty,
     SupervisorKill, StreamerStep, StreamerObeysStop, StreamerEnds,
     StreamerExits, StreamerCrash
<1>2. CASE \E c \in Conns : BrowserClose(c)
  BY <1>2 DEF BrowserClose
<1>3. CASE DeleteHost \/ Finished \/ UNCHANGED vars
  BY <1>3 DEF DeleteHost, Finished, vars
<1> QED  BY <1>1, <1>2, <1>3 DEF Next

\* A task that moves to a label and keeps, takes or drops a stream.
LEMMA OnMoves ==
    ASSUME TypeOK, OnInv, NEW c \in Conns, NEW l, NEW o \in Nat,
           GoTo(c, l), on' = [on EXCEPT ![c] = o],
           spawned' \in Nat, spawned <= spawned', active' <= spawned',
           o <= spawned', l \in HasStream => o # NoStream
    PROVE  OnInv'
<1> SUFFICES ASSUME NEW d \in Conns
             PROVE  on'[d] <= spawned' /\ (pc'[d] \in HasStream => on'[d] # NoStream)
  BY DEF OnInv
<1>1. pc'[d] = (IF d = c THEN l ELSE pc[d]) /\ on'[d] = (IF d = c THEN o ELSE on[d])
  BY DEF GoTo, TypeOK, PcTypeOK
<1>2. on[d] \in Nat /\ spawned \in Nat
  BY LifecycleAssumption DEF TypeOK, Streams, NoStream
<1> QED  BY <1>1, <1>2 DEF OnInv

LEMMA OnKept ==
    ASSUME TypeOK, OnInv, NEW c \in Conns, NEW l, GoTo(c, l), UNCHANGED on,
           spawned' \in Nat, spawned <= spawned', active' <= spawned',
           l \in HasStream => pc[c] \in HasStream
    PROVE  OnInv'
<1>1. on' = [on EXCEPT ![c] = on[c]] /\ on[c] \in Nat /\ spawned \in Nat
  BY LifecycleAssumption DEF TypeOK, Streams, NoStream
<1>2. on[c] <= spawned'
  BY <1>1 DEF OnInv
<1> QED  BY <1>1, <1>2, OnMoves DEF OnInv

\* The variables of every component keep their types (stream.rs and data.rs).
THEOREM TypeCorrect == Spec => []BaseInv
<1> USE LifecycleAssumption DEF Conns, Streams, NoStream, ClientIds
<1>1. Init => BaseInv
  BY DEF Init, BaseInv, TypeOK, PcTypeOK, PrimaryPc, InputPc, PollsInv, FreshInv,
         OnInv, HasStream
<1>2. BaseInv /\ [Next]_vars => TypeOK'
  <2> SUFFICES ASSUME TypeOK, PollsInv, OnInv, [Next]_vars
               PROVE  TypeOK'
    BY DEF BaseInv
  <2> USE PrimaryGoTo, InputGoTo, ConnGoTo, PcUnchanged
      DEF TypeOK, PrimaryPc, InputPc, vars, hostVars, lockVars, connVars,
          streamVars, Close
  <2>1. ASSUME NEW c \in Conns, Connect(c) \/ BrowserClose(c) \/ Reject(c)
        PROVE  TypeOK'
    <3>1. CASE Connect(c)
      <4>1. PcTypeOK'
        BY <3>1, ConnGoTo DEF Connect
      <4>2. connects' \in 0..MaxConnects
        BY <3>1 DEF Connect
      <4>3. ws' \in [Conns -> {"open", "closed"}]
        BY <3>1 DEF Connect
      <4> HIDE PrimaryGoTo, InputGoTo, ConnGoTo, PcUnchanged
      <4> HIDE DEF Conns, Streams, ClientIds
      <4> QED  BY <3>1, <4>1, <4>2, <4>3 DEF Connect
    <3>2. CASE BrowserClose(c)  BY <3>2 DEF BrowserClose
    <3>3. CASE Reject(c)        BY <3>3 DEF Reject
    <3> QED  BY <2>1, <3>1, <3>2, <3>3
  <2>2. ASSUME NEW p \in Primaries, PrimaryStep(p)
        PROVE  TypeOK'
    <3>1. CASE PrimaryAdmit(p)         BY <3>1 DEF PrimaryAdmit
    <3>2. CASE PrimaryAppFound(p)      BY <3>2 DEF PrimaryAppFound
    <3>3. CASE PrimaryNoApp(p)         BY <3>3 DEF PrimaryNoApp
    <3>4. CASE PrimaryQueue(p)         BY <3>4 DEF PrimaryQueue
    <3>5. CASE PrimaryLock(p)          BY <3>5 DEF PrimaryLock
    <3>6. CASE PrimaryStopExisting(p)  BY <3>6 DEF PrimaryStopExisting
    <3>7. CASE PrimaryStopped(p)       BY <3>7 DEF PrimaryStopped
    <3>8. CASE PrimaryStopTimeout(p)   BY <3>8 DEF PrimaryStopTimeout
    <3>9. CASE PrimarySpawn(p)
      <4>1. SpawnStreamer(p, "none") /\ on' = [on EXCEPT ![p] = spawned']
        BY <3>9 DEF PrimarySpawn
      <4>5. SpawnedTypeOK
        <5> HIDE DEF TypeOK
        <5> QED  BY <4>1, SpawnTyped
      <4>2. spawned' \in Streams /\ on' \in [Conns -> Streams \cup {NoStream}]
        BY <4>1, <4>5 DEF SpawnedTypeOK
      <4>3. PcTypeOK'
        BY <3>9 DEF PrimarySpawn
      <4>4. lifecycle' = NoConn /\ UNCHANGED <<hostGuard, connects, ws, cid>>
        BY <3>9 DEF PrimarySpawn
      <4> HIDE PrimaryGoTo, InputGoTo, ConnGoTo, PcUnchanged
      <4>6. spawned' \in 0..MaxStreams
        BY <4>2
      <4> HIDE DEF Conns, Streams, ClientIds
      <4> QED  BY <4>2, <4>3, <4>4, <4>5, <4>6 DEF SpawnedTypeOK
    <3>10. CASE PrimarySpawnFails(p)   BY <3>10 DEF PrimarySpawnFails
    <3>11. CASE PrimaryRelayEnds(p)    BY <3>11 DEF PrimaryRelayEnds
    <3>12. CASE PrimaryKill(p)         BY <3>12 DEF PrimaryKill
    <3> QED  BY <2>2, <3>1, <3>2, <3>3, <3>4, <3>5, <3>6, <3>7, <3>8, <3>9,
                <3>10, <3>11, <3>12 DEF PrimaryStep
  <2>3. ASSUME NEW i \in Inputs, InputStep(i)
        PROVE  TypeOK'
    <3>1. CASE InputSubscribe(i)         BY <3>1 DEF InputSubscribe
    <3>2. CASE PlaceholderPrecheck(i)    BY <3>2 DEF PlaceholderPrecheck
    <3>3. CASE PlaceholderLock(i)        BY <3>3 DEF PlaceholderLock
    <3>4. CASE PlaceholderRecheck(i)     BY <3>4 DEF PlaceholderRecheck
    <3>5. CASE PlaceholderNoGame(i)      BY <3>5 DEF PlaceholderNoGame
    <3>6. CASE PlaceholderGame(i)        BY <3>6 DEF PlaceholderGame
    <3>7. CASE PlaceholderSpawn(i)
      <4>1. SpawnStreamer(NoConn, "watching")
        BY <3>7 DEF PlaceholderSpawn
      <4>4. SpawnedTypeOK
        <5> HIDE DEF TypeOK
        <5> QED  BY <4>1, SpawnTyped
      <4>2. PcTypeOK'
        BY <3>7 DEF PlaceholderSpawn
      <4>3. lifecycle' = NoConn /\ UNCHANGED <<hostGuard, connects, ws, on, cid>>
        BY <3>7 DEF PlaceholderSpawn
      <4> HIDE PrimaryGoTo, InputGoTo, ConnGoTo, PcUnchanged
      <4>5. spawned' \in 0..MaxStreams
        BY <4>4 DEF SpawnedTypeOK
      <4> HIDE DEF Conns, Streams, ClientIds
      <4> QED  BY <4>2, <4>3, <4>4, <4>5 DEF SpawnedTypeOK
    <3>8. CASE PlaceholderSpawnFails(i)  BY <3>8 DEF PlaceholderSpawnFails
    <3>9. CASE InputFindsStream(i)       BY <3>9 DEF InputFindsStream
    <3>10. CASE InputWaits(i)            BY <3>10 DEF InputWaits
    <3>11. CASE InputGivesUp(i)          BY <3>11 DEF InputGivesUp
    <3>12. CASE InputAttach(i)
      <4>1. on[i] \in Streams /\ nextId[on[i]] \in 1..MaxClientId
        BY <3>12 DEF InputAttach, OnInv, HasStream
      <4>2. nextId' \in [Streams -> 1..MaxClientId]
        BY <3>12, <4>1 DEF InputAttach
      <4>3. clients' \in [Streams -> [ClientIds -> Conns \cup {NoConn}]]
        BY <3>12, ClientsUpdate DEF InputAttach
      <4>4. cid' \in [Inputs -> ClientIds]
        BY <3>12, <4>1 DEF InputAttach
      <4> QED  BY <3>12, <4>2, <4>3, <4>4 DEF InputAttach
    <3>13. CASE InputChanged(i)          BY <3>13 DEF InputChanged
    <3>14. CASE InputWsClosed(i)         BY <3>14 DEF InputWsClosed
    <3>15. CASE InputDetach(i)
      <4>1. clients' \in [Streams -> [ClientIds -> Conns \cup {NoConn}]]
        BY <3>15, ClientsUpdate DEF InputDetach
      <4>2. cid' \in [Inputs -> ClientIds] /\ on' \in [Conns -> Streams \cup {NoStream}]
        BY <3>15 DEF InputDetach
      <4> QED  BY <3>15, <4>1, <4>2 DEF InputDetach
    <3>16. CASE InputLeave(i)
      <4>1. clients' \in [Streams -> [ClientIds -> Conns \cup {NoConn}]]
        BY <3>16, ClientsUpdate DEF InputLeave
      <4>2. cid' \in [Inputs -> ClientIds] /\ on' \in [Conns -> Streams \cup {NoStream}]
        BY <3>16 DEF InputLeave
      <4> QED  BY <3>16, <4>1, <4>2 DEF InputLeave
    <3> QED  BY <2>3, <3>1, <3>2, <3>3, <3>4, <3>5, <3>6, <3>7, <3>8, <3>9,
                <3>10, <3>11, <3>12, <3>13, <3>14, <3>15, <3>16 DEF InputStep
  <2>4. ASSUME NEW s \in Streams, RouterStep(s)
        PROVE  TypeOK'
    <3>1. CASE RouterClear(s)
      BY <3>1 DEF RouterClear, SendReplace, Subscribed
    <3>2. CASE RouterClosePrimary(s)     BY <3>2 DEF RouterClosePrimary
    <3> QED  BY <2>4, <3>1, <3>2 DEF RouterStep
  <2>5. ASSUME NEW s \in Streams, SupervisorStep(s)
        PROVE  TypeOK'
    <3>1. CASE SupervisorSeesExit(s)     BY <3>1 DEF SupervisorSeesExit
    <3>2. CASE SupervisorSeesClients(s)  BY <3>2 DEF SupervisorSeesClients
    <3>3. CASE SupervisorSeesEmpty(s)
      <4>1. polls[s] + 1 \in 0..EmptyPolls
        BY <3>3 DEF SupervisorSeesEmpty, PollsInv
      <4> QED  BY <3>3, <4>1 DEF SupervisorSeesEmpty
    <3>4. CASE SupervisorKill(s)         BY <3>4 DEF SupervisorKill
    <3> QED  BY <2>5, <3>1, <3>2, <3>3, <3>4 DEF SupervisorStep
  <2>6. ASSUME NEW s \in Streams, StreamerStep(s)
        PROVE  TypeOK'
    BY <2>6 DEF StreamerStep, StreamerObeysStop, StreamerEnds, StreamerExits,
                StreamerCrash
  <2>7. CASE DeleteHost        BY <2>7 DEF DeleteHost
  <2>8. CASE Finished          BY <2>8 DEF Finished
  <2>9. CASE UNCHANGED vars    BY <2>9
  <2> QED  BY <2>1, <2>2, <2>3, <2>4, <2>5, <2>6, <2>7, <2>8, <2>9 DEF Next
<1>3. BaseInv /\ [Next]_vars => PollsInv'
  <2> SUFFICES ASSUME BaseInv, [Next]_vars
               PROVE  PollsInv'
    OBVIOUS
  <2> USE DEF BaseInv, TypeOK, PollsInv
  <2>1. ASSUME NEW c, NEW w, SpawnStreamer(c, w)
        PROVE  PollsInv'
    BY <2>1 DEF SpawnStreamer, FreshInv
  <2>2. ASSUME NEW s \in Streams, SupervisorStep(s)
        PROVE  PollsInv'
    <3>1. CASE SupervisorSeesEmpty(s)
      BY <3>1 DEF SupervisorSeesEmpty
    <3>2. CASE SupervisorSeesClients(s)
      BY <3>2 DEF SupervisorSeesClients
    <3>3. CASE SupervisorSeesExit(s) \/ SupervisorKill(s)
      BY <3>3 DEF SupervisorSeesExit, SupervisorKill
    <3> QED  BY <2>2, <3>1, <3>2, <3>3 DEF SupervisorStep
  <2>3. CASE UNCHANGED <<sup, polls>>
    BY <2>3
  <2> QED
    BY <2>1, <2>2, <2>3, StreamSteps
       DEF PrimarySpawn, PlaceholderSpawn, PrimaryKill, RouterStep, RouterClear,
           RouterClosePrimary, StreamerStep, StreamerObeysStop, StreamerEnds,
           StreamerExits, StreamerCrash
<1>4. BaseInv /\ [Next]_vars => FreshInv'
  <2> SUFFICES ASSUME BaseInv, [Next]_vars
               PROVE  FreshInv'
    OBVIOUS
  <2> USE DEF BaseInv, TypeOK, FreshInv
  <2>1. ASSUME NEW c, NEW w, SpawnStreamer(c, w)
        PROVE  FreshInv'
    BY <2>1 DEF SpawnStreamer
  <2>2. ASSUME NEW p \in Primaries, PrimaryKill(p)
        PROVE  FreshInv'
    <3>1. on[p] \in Streams /\ on[p] <= spawned
      BY <2>2 DEF PrimaryKill, OnInv, HasStream
    <3> QED  BY <2>2, <3>1 DEF PrimaryKill
  <2>3. ASSUME NEW s \in Streams, RouterStep(s) \/ SupervisorStep(s) \/ StreamerStep(s)
        PROVE  FreshInv'
    <3>1. CASE RouterStep(s)
      BY <3>1 DEF RouterStep, RouterClear, RouterClosePrimary
    <3>2. CASE SupervisorStep(s)
      <4>1. CASE SupervisorSeesExit(s)
        BY <4>1 DEF SupervisorSeesExit
      <4>2. CASE SupervisorSeesClients(s)
        BY <4>2 DEF SupervisorSeesClients
      <4>3. CASE SupervisorSeesEmpty(s)
        BY <4>3 DEF SupervisorSeesEmpty
      <4>4. CASE SupervisorKill(s)
        BY <4>4 DEF SupervisorKill
      <4> QED  BY <3>2, <4>1, <4>2, <4>3, <4>4 DEF SupervisorStep
    <3>3. CASE StreamerStep(s)
      BY <3>3 DEF StreamerStep, StreamerObeysStop, StreamerEnds, StreamerExits,
                  StreamerCrash
    <3> QED  BY <2>3, <3>1, <3>2, <3>3
  <2>4. CASE UNCHANGED <<spawned, proc, router, sup>>
    BY <2>4
  <2> QED
    BY <2>1, <2>2, <2>3, <2>4, StreamSteps DEF PrimarySpawn, PlaceholderSpawn
<1>5. BaseInv /\ [Next]_vars => OnInv'
  <2> SUFFICES ASSUME BaseInv, [Next]_vars
               PROVE  OnInv'
    OBVIOUS
  <2> USE DEF BaseInv
  <2>1. active' <= spawned' /\ spawned <= spawned' /\ spawned' \in Nat
    <3> USE DEF TypeOK, OnInv
    <3>1. ASSUME NEW c, NEW w, SpawnStreamer(c, w)
          PROVE  active' <= spawned' /\ spawned <= spawned' /\ spawned' \in Nat
      BY <3>1 DEF SpawnStreamer, SendReplace
    <3>2. ASSUME NEW s \in Streams, RouterStep(s) \/ SupervisorStep(s) \/ StreamerStep(s)
          PROVE  active' \in {active, 0} /\ spawned' = spawned
      BY <3>2 DEF RouterStep, RouterClear, RouterClosePrimary, SendReplace,
         SupervisorStep, SupervisorSeesExit, SupervisorSeesClients,
         SupervisorSeesEmpty, SupervisorKill, StreamerStep, StreamerObeysStop,
         StreamerEnds, StreamerExits, StreamerCrash, hostVars, streamVars
    <3>3. ASSUME NEW p \in Primaries, PrimaryKill(p)
          PROVE  active' = active /\ spawned' = spawned
      BY <3>3 DEF PrimaryKill, hostVars
    <3>4. ASSUME NEW p \in Primaries, PrimarySpawn(p)
          PROVE  \E c, w : SpawnStreamer(c, w)
      BY <3>4 DEF PrimarySpawn
    <3>5. ASSUME NEW i \in Inputs, PlaceholderSpawn(i)
          PROVE  \E c, w : SpawnStreamer(c, w)
      BY <3>5 DEF PlaceholderSpawn
    <3> QED  BY <3>1, <3>2, <3>3, <3>4, <3>5, StreamSteps
  <2>2. ASSUME NEW c \in Conns, Connect(c) \/ Reject(c)
        PROVE  OnInv'
    BY <2>1, <2>2, OnKept DEF Connect, Reject, Close, HasStream
  <2>3. ASSUME NEW p \in Primaries, PrimaryStep(p)
        PROVE  OnInv'
    <3>1. CASE PrimarySpawn(p)
      <4>1. spawned' = spawned + 1
        BY <3>1 DEF PrimarySpawn, SpawnStreamer
      <4>2. spawned' # NoStream /\ spawned' <= spawned'
        BY <4>1 DEF TypeOK
      <4> QED  BY <2>1, <3>1, <4>2, OnMoves DEF PrimarySpawn
    <3>2. CASE PrimaryKill(p)
      <4>1. GoTo(p, "closed") /\ on' = [on EXCEPT ![p] = 0] /\ "closed" \notin HasStream
        BY <3>2 DEF PrimaryKill, HasStream
      <4>2. 0 \in Nat /\ 0 <= spawned' /\ p \in Conns
        BY <2>1
      <4> QED  BY <2>1, <4>1, <4>2, OnMoves
    <3>3. CASE PrimaryRelayEnds(p)
      BY <2>1, <3>3, OnKept DEF PrimaryRelayEnds, HasStream
    <3>4. CASE PrimaryAdmit(p) \/ PrimaryAppFound(p) \/ PrimaryNoApp(p)
      BY <2>1, <3>4, OnKept
         DEF PrimaryAdmit, PrimaryAppFound, PrimaryNoApp, Close, HasStream
    <3>5. CASE PrimaryQueue(p) \/ PrimaryLock(p) \/ PrimaryStopExisting(p)
      BY <2>1, <3>5, OnKept
         DEF PrimaryQueue, PrimaryLock, PrimaryStopExisting, Close, HasStream
    <3>6. CASE PrimaryStopped(p) \/ PrimaryStopTimeout(p) \/ PrimarySpawnFails(p)
      BY <2>1, <3>6, OnKept
         DEF PrimaryStopped, PrimaryStopTimeout, PrimarySpawnFails, Close, HasStream
    <3> QED  BY <2>3, <3>1, <3>2, <3>3, <3>4, <3>5, <3>6 DEF PrimaryStep
  <2>4. ASSUME NEW i \in Inputs, InputStep(i)
        PROVE  OnInv'
    <3>1. CASE InputFindsStream(i)
      <4>1. active \in Nat /\ active <= spawned'
        BY <2>1, <3>1 DEF InputFindsStream, hostVars, TypeOK
      <4> QED  BY <2>1, <3>1, <4>1, OnMoves DEF InputFindsStream
    <3>2. CASE InputDetach(i) \/ InputLeave(i)
      BY <2>1, <3>2, OnMoves DEF InputDetach, InputLeave, Close, HasStream
    <3>3. CASE InputSubscribe(i) \/ PlaceholderPrecheck(i) \/ PlaceholderLock(i)
      BY <2>1, <3>3, OnKept
         DEF InputSubscribe, PlaceholderPrecheck, PlaceholderLock, HasStream
    <3>4. CASE PlaceholderRecheck(i) \/ PlaceholderNoGame(i) \/ PlaceholderGame(i)
      BY <2>1, <3>4, OnKept
         DEF PlaceholderRecheck, PlaceholderNoGame, PlaceholderGame, HasStream
    <3>5. CASE PlaceholderSpawn(i) \/ PlaceholderSpawnFails(i) \/ InputGivesUp(i)
      BY <2>1, <3>5, OnKept
         DEF PlaceholderSpawn, PlaceholderSpawnFails, InputGivesUp, Close, HasStream
    <3>6. CASE InputAttach(i) \/ InputChanged(i) \/ InputWsClosed(i)
      <4>1. CASE UNCHANGED <<pc, on>>
        BY <2>1, <4>1 DEF OnInv, TypeOK
      <4> QED
        BY <2>1, <3>6, <4>1, OnKept
           DEF InputAttach, InputChanged, InputWsClosed, HasStream
    <3>7. CASE InputWaits(i)
      BY <2>1, <3>7 DEF InputWaits, connVars, streamVars, OnInv, TypeOK
    <3> QED  BY <2>4, <3>1, <3>2, <3>3, <3>4, <3>5, <3>6, <3>7 DEF InputStep
  <2>5. CASE UNCHANGED <<pc, on>>
    BY <2>1, <2>5 DEF OnInv, TypeOK
  <2> QED  BY <2>2, <2>3, <2>4, <2>5, TaskSteps
<1>6. QED  BY <1>1, <1>2, <1>3, <1>4, <1>5, PTL DEF Spec, BaseInv

\* In particular the type invariant that TLC checks.
THEOREM TypeSafe == Spec => []TypeOK
BY TypeCorrect, PTL DEF BaseInv

-----------------------------------------------------------------------------
(* The lifecycle lock and what it protects *)

\* A task is critical while it decides about the slot and fills it.
Critical(c) ==
    \/ c \in Primaries /\ pc[c] \in {"stopping", "waiting", "spawning"}
    \/ c \in Inputs /\ pc[c] \in {"recheck", "query", "spawning"}

\* A critical task holds the lifecycle lock, so there is at most one.
LockInv == \A c \in Conns : Critical(c) => lifecycle = c

\* The move of one task: it needs the lock for a critical label, may take a free
\* lock, and may free its own.
LEMMA LockMoves ==
    ASSUME BaseInv, LockInv, NEW c \in Conns, NEW l, GoTo(c, l),
           \/ lifecycle' = lifecycle /\ (Critical(c)' => lifecycle = c)
           \/ lifecycle = NoConn /\ lifecycle' = c
           \/ Critical(c) /\ ~Critical(c)' /\ lifecycle' = NoConn
    PROVE  LockInv'
<1> USE LifecycleAssumption DEF Conns
<1> SUFFICES ASSUME NEW d \in Conns, Critical(d)'
             PROVE  lifecycle' = d
  BY DEF LockInv
<1>1. d # c => pc'[d] = pc[d]
  BY DEF GoTo, BaseInv, TypeOK, PcTypeOK
<1>2. d # c => Critical(d)
  BY <1>1 DEF Critical
<1>3. d # c => lifecycle = d
  BY <1>2 DEF LockInv
<1> QED  BY <1>3 DEF LockInv

\* The lock discipline of run_primary_stream and maybe_start_placeholder_stream
\* is kept by every step.
LEMMA LockPreserved == BaseInv /\ LockInv /\ [Next]_vars => LockInv'
<1> SUFFICES ASSUME BaseInv, LockInv, [Next]_vars
             PROVE  LockInv'
  OBVIOUS
<1> USE LifecycleAssumption DEF Conns
<1>0. ASSUME NEW c \in Conns, NEW l, GoTo(c, l)
      PROVE  pc'[c] = l
  BY <1>0 DEF GoTo, BaseInv, TypeOK, PcTypeOK
<1>1. ASSUME NEW c \in Conns, Connect(c) \/ Reject(c)
      PROVE  LockInv'
  BY <1>0, <1>1, LockMoves DEF Connect, Reject, Close, Critical, lockVars
<1>2. ASSUME NEW p \in Primaries, PrimaryStep(p)
      PROVE  LockInv'
  <2>1. CASE PrimaryAdmit(p) \/ PrimaryAppFound(p) \/ PrimaryNoApp(p)
    BY <1>0, <2>1, LockMoves
       DEF PrimaryAdmit, PrimaryAppFound, PrimaryNoApp, Close, Critical
  <2>2. CASE PrimaryQueue(p) \/ PrimaryRelayEnds(p) \/ PrimaryKill(p)
    BY <1>0, <2>2, LockMoves
       DEF PrimaryQueue, PrimaryRelayEnds, PrimaryKill, Close, Critical, lockVars
  <2>3. CASE PrimaryLock(p)
    BY <1>0, <2>3, LockMoves DEF PrimaryLock
  <2>4. CASE PrimaryStopExisting(p) \/ PrimaryStopped(p) \/ PrimaryStopTimeout(p)
    <3>1. Critical(p) /\ lifecycle' = lifecycle
      BY <2>4 DEF PrimaryStopExisting, PrimaryStopped, PrimaryStopTimeout,
                  Critical, lockVars
    <3> QED
      BY <2>4, <3>1, LockMoves
         DEF PrimaryStopExisting, PrimaryStopped, PrimaryStopTimeout, LockInv
  <2>5. CASE PrimarySpawn(p) \/ PrimarySpawnFails(p)
    <3>1. Critical(p) /\ lifecycle' = NoConn
      BY <2>5 DEF PrimarySpawn, PrimarySpawnFails, Critical
    <3>2. ~Critical(p)'
      BY <1>0, <2>5 DEF PrimarySpawn, PrimarySpawnFails, Critical, Close
    <3> QED
      BY <2>5, <3>1, <3>2, LockMoves DEF PrimarySpawn, PrimarySpawnFails, Close
  <2> QED  BY <1>2, <2>1, <2>2, <2>3, <2>4, <2>5 DEF PrimaryStep
<1>3. ASSUME NEW i \in Inputs, InputStep(i)
      PROVE  LockInv'
  <2>1. CASE InputSubscribe(i) \/ PlaceholderPrecheck(i) \/ InputFindsStream(i)
    BY <1>0, <2>1, LockMoves
       DEF InputSubscribe, PlaceholderPrecheck, InputFindsStream, Critical, lockVars
  <2>2. CASE PlaceholderLock(i)
    BY <1>0, <2>2, LockMoves DEF PlaceholderLock
  <2>3. CASE PlaceholderRecheck(i) \/ PlaceholderGame(i)
    <3>1. Critical(i) /\ lifecycle = i
      BY <2>3 DEF PlaceholderRecheck, PlaceholderGame, Critical, LockInv
    <3>2. CASE lifecycle' = lifecycle
      BY <2>3, <3>1, <3>2, LockMoves DEF PlaceholderRecheck, PlaceholderGame
    <3>3. CASE lifecycle' # lifecycle
      <4>1. GoTo(i, "wait") /\ lifecycle' = NoConn
        BY <2>3, <3>3 DEF PlaceholderRecheck, PlaceholderGame
      <4>2. ~Critical(i)'
        BY <1>0, <4>1 DEF Critical
      <4> QED  BY <3>1, <4>1, <4>2, LockMoves
    <3> QED  BY <3>2, <3>3
  <2>4. CASE PlaceholderNoGame(i) \/ PlaceholderSpawn(i) \/ PlaceholderSpawnFails(i)
    <3>1. Critical(i) /\ lifecycle' = NoConn /\ GoTo(i, "wait")
      BY <2>4 DEF PlaceholderNoGame, PlaceholderSpawn, PlaceholderSpawnFails, Critical
    <3>2. ~Critical(i)'
      BY <1>0, <3>1 DEF Critical
    <3> QED  BY <3>1, <3>2, LockMoves
  <2>5. CASE InputGivesUp(i) \/ InputAttach(i) \/ InputWsClosed(i)
    BY <1>0, <2>5, LockMoves
       DEF InputGivesUp, InputAttach, InputWsClosed, Close, Critical, lockVars
  <2>6. CASE InputDetach(i) \/ InputLeave(i)
    BY <1>0, <2>6, LockMoves DEF InputDetach, InputLeave, Close, Critical, lockVars
  <2>7. CASE InputChanged(i) \/ InputWaits(i)
    <3>1. CASE UNCHANGED pc
      BY <2>7, <3>1 DEF InputChanged, InputWaits, lockVars, LockInv, Critical
    <3> QED
      BY <1>0, <2>7, <3>1, LockMoves
         DEF InputChanged, InputWaits, connVars, lockVars, Critical
  <2> QED
    BY <1>3, <2>1, <2>2, <2>3, <2>4, <2>5, <2>6, <2>7 DEF InputStep
<1>4. CASE UNCHANGED <<pc, lifecycle>>
  BY <1>4 DEF LockInv, Critical
<1> QED  BY <1>1, <1>2, <1>3, <1>4, TaskSteps

\* Every task that decides about the slot of a host or fills it holds its lifecycle lock
\* (stop_existing_stream_and_wait, maybe_start_placeholder_stream in stream.rs).
THEOREM LockSafe == Spec => [](BaseInv /\ LockInv)
<1>1. Init => LockInv
  BY DEF Init, LockInv, Critical, Conns
<1>2. QED  BY <1>1, TypeCorrect, LockPreserved, PTL DEF Spec

-----------------------------------------------------------------------------
(* The slot *)

\* A stream gets into the slot only by the spawn of a task that holds the
\* lifecycle lock and lets go of it in the same step.
FilledBy(c) ==
    /\ Critical(c)
    /\ pc[c] = "spawning"
    /\ lifecycle' = NoConn
    /\ \E l \in {"relaying", "wait"} : GoTo(c, l)
    /\ \E d, w : SpawnStreamer(d, w)

\* The other changes of the slot are those of a router.
LEMMA SlotSteps ==
    ASSUME [Next]_vars
    PROVE  \/ \E c \in Conns : FilledBy(c)
           \/ \E s \in Streams : RouterClear(s)
           \/ active' = active
<1> USE DEF Conns
<1>1. ASSUME NEW p \in Primaries, PrimarySpawn(p)
      PROVE  FilledBy(p)
  BY <1>1 DEF PrimarySpawn, FilledBy, Critical
<1>2. ASSUME NEW i \in Inputs, PlaceholderSpawn(i)
      PROVE  FilledBy(i)
  BY <1>2 DEF PlaceholderSpawn, FilledBy, Critical
<1>3. ASSUME NEW s \in Streams, RouterClosePrimary(s) \/ SupervisorStep(s) \/ StreamerStep(s)
      PROVE  active' = active
  BY <1>3 DEF RouterClosePrimary, SupervisorStep, SupervisorSeesExit,
     SupervisorSeesClients, SupervisorSeesEmpty, SupervisorKill, StreamerStep,
     StreamerObeysStop, StreamerEnds, StreamerExits, StreamerCrash, hostVars
<1>4. ASSUME NEW p \in Primaries, PrimaryKill(p)
      PROVE  active' = active
  BY <1>4 DEF PrimaryKill, hostVars
<1> QED  BY <1>1, <1>2, <1>3, <1>4, StreamSteps DEF RouterStep

\* An input-only connection gets to ask for a game, or from there to a spawn,
\* only with the slot empty before its eyes.
LEMMA PlaceholderMoves ==
    ASSUME BaseInv, [Next]_vars, NEW i \in Inputs, pc'[i] \in {"query", "spawning"}
    PROVE  pc[i] \in {"query", "spawning"} \/ active' = NoStream
<1> USE LifecycleAssumption DEF Conns
<1>0. ASSUME NEW c \in Conns, NEW l, GoTo(c, l)
      PROVE  pc'[i] = IF c = i THEN l ELSE pc[i]
  BY <1>0 DEF GoTo, BaseInv, TypeOK, PcTypeOK
<1>1. ASSUME NEW c \in Conns, Connect(c) \/ Reject(c)
      PROVE  pc'[i] = pc[i]
  BY <1>0, <1>1 DEF Connect, Reject, Close
<1>2. ASSUME NEW p \in Primaries, PrimaryStep(p)
      PROVE  pc'[i] = pc[i]
  <2>1. \E l : GoTo(p, l)
    BY <1>2 DEF PrimaryStep, PrimaryAdmit, PrimaryAppFound, PrimaryNoApp,
       PrimaryQueue, PrimaryLock, PrimaryStopExisting, PrimaryStopped,
       PrimaryStopTimeout, PrimarySpawn, PrimarySpawnFails, PrimaryRelayEnds,
       PrimaryKill, Close
  <2> QED  BY <1>0, <2>1
<1>3. ASSUME NEW j \in Inputs, InputStep(j)
      PROVE  pc[i] \in {"query", "spawning"} \/ active' = NoStream
  <2>1. CASE PlaceholderRecheck(j)
    BY <1>0, <2>1 DEF PlaceholderRecheck, hostVars
  <2>2. CASE PlaceholderGame(j)
    BY <1>0, <2>2 DEF PlaceholderGame
  <2>3. CASE pc' = pc
    BY <2>3
  <2>4. CASE \E l : l \notin {"query", "spawning"} /\ GoTo(j, l)
    BY <1>0, <2>4
  <2> QED
    BY <1>3, <2>1, <2>2, <2>3, <2>4
       DEF InputStep, InputSubscribe, PlaceholderPrecheck, PlaceholderLock,
           PlaceholderNoGame, PlaceholderSpawn, PlaceholderSpawnFails,
           InputFindsStream, InputWaits, InputGivesUp, InputAttach, InputChanged,
           InputWsClosed, InputDetach, InputLeave, Close, connVars
<1>4. CASE UNCHANGED pc
  BY <1>4
<1> QED  BY <1>1, <1>2, <1>3, <1>4, TaskSteps

\* No stream appears behind the back of a placeholder start
\* (maybe_start_placeholder_stream looks again under the lifecycle lock).
THEOREM PlaceholderSlotSafe == Spec => []PlaceholderFindsSlotEmpty
<1>1. Init => PlaceholderFindsSlotEmpty
  BY DEF Init, PlaceholderFindsSlotEmpty, Conns
<1>2. BaseInv /\ LockInv /\ PlaceholderFindsSlotEmpty /\ [Next]_vars
        => PlaceholderFindsSlotEmpty'
  <2> SUFFICES ASSUME BaseInv, LockInv, PlaceholderFindsSlotEmpty, [Next]_vars,
                      NEW i \in Inputs, pc'[i] \in {"query", "spawning"}
               PROVE  active' = NoStream
    BY DEF PlaceholderFindsSlotEmpty
  <2> USE LifecycleAssumption DEF Conns
  <2>1. ASSUME NEW c \in Conns, FilledBy(c)
        PROVE  active' = NoStream
    <3>1. CASE pc[i] \in {"query", "spawning"}
      <4>1. c = i
        BY <2>1, <3>1 DEF FilledBy, LockInv, Critical
      <4>2. pc'[i] \in {"relaying", "wait"}
        BY <2>1, <4>1 DEF FilledBy, GoTo, BaseInv, TypeOK, PcTypeOK
      <4> QED  BY <4>2
    <3> QED  BY <3>1, PlaceholderMoves
  <2>2. ASSUME NEW s \in Streams, RouterClear(s)
        PROVE  active' = NoStream
    BY <2>2, PlaceholderMoves
       DEF RouterClear, SendReplace, PlaceholderFindsSlotEmpty
  <2>3. CASE active' = active
    BY <2>3, PlaceholderMoves DEF PlaceholderFindsSlotEmpty
  <2> QED  BY <2>1, <2>2, <2>3, SlotSteps
<1>3. QED  BY <1>1, <1>2, LockSafe, PTL DEF Spec

\* The host, once removed, does not come back.
LEMMA HostStays == ASSUME [Next]_vars, hostPresent' PROVE hostPresent
<1> USE DEF hostVars
<1>1. CASE \E c \in Conns : Connect(c) \/ BrowserClose(c) \/ Reject(c)
  BY <1>1 DEF Connect, BrowserClose, Reject
<1>2. ASSUME NEW p \in Primaries, PrimaryStep(p)
      PROVE  hostPresent
  BY <1>2 DEF PrimaryStep, PrimaryAdmit, PrimaryAppFound, PrimaryNoApp,
     PrimaryQueue, PrimaryLock, PrimaryStopExisting, PrimaryStopped,
     PrimaryStopTimeout, PrimarySpawn, PrimarySpawnFails, PrimaryRelayEnds,
     PrimaryKill, SpawnStreamer
<1>3. ASSUME NEW i \in Inputs, InputStep(i)
      PROVE  hostPresent
  BY <1>3 DEF InputStep, InputSubscribe, PlaceholderPrecheck, PlaceholderLock,
     PlaceholderRecheck, PlaceholderNoGame, PlaceholderGame, PlaceholderSpawn,
     PlaceholderSpawnFails, InputFindsStream, InputWaits, InputGivesUp,
     InputAttach, InputChanged, InputWsClosed, InputDetach, InputLeave, SpawnStreamer
<1>4. ASSUME NEW s \in Streams, RouterStep(s) \/ SupervisorStep(s) \/ StreamerStep(s)
      PROVE  hostPresent
  BY <1>4 DEF RouterStep, RouterClear, RouterClosePrimary, SupervisorStep,
     SupervisorSeesExit, SupervisorSeesClients, SupervisorSeesEmpty,
     SupervisorKill, StreamerStep, StreamerObeysStop, StreamerEnds,
     StreamerExits, StreamerCrash
<1>5. CASE DeleteHost \/ Finished \/ UNCHANGED vars
  BY <1>5 DEF DeleteHost, Finished, vars
<1> QED  BY <1>1, <1>2, <1>3, <1>4, <1>5 DEF Next

\* What the steps do to the routers: a spawn starts one, a router clears the
\* slot and then ends, nothing else touches them.
LEMMA RouterSteps ==
    ASSUME [Next]_vars
    PROVE  \/ \E c \in Conns : FilledBy(c)
           \/ \E s \in Streams : RouterClear(s) \/ RouterClosePrimary(s)
           \/ UNCHANGED <<active, router>>
<1> USE DEF Conns
<1>1. ASSUME NEW p \in Primaries, PrimarySpawn(p)
      PROVE  FilledBy(p)
  BY <1>1 DEF PrimarySpawn, FilledBy, Critical
<1>2. ASSUME NEW i \in Inputs, PlaceholderSpawn(i)
      PROVE  FilledBy(i)
  BY <1>2 DEF PlaceholderSpawn, FilledBy, Critical
<1>3. ASSUME NEW s \in Streams, SupervisorStep(s) \/ StreamerStep(s)
      PROVE  UNCHANGED <<active, router>>
  BY <1>3 DEF SupervisorStep, SupervisorSeesExit,
     SupervisorSeesClients, SupervisorSeesEmpty, SupervisorKill, StreamerStep,
     StreamerObeysStop, StreamerEnds, StreamerExits, StreamerCrash, hostVars
<1>4. ASSUME NEW p \in Primaries, PrimaryKill(p)
      PROVE  UNCHANGED <<active, router>>
  BY <1>4 DEF PrimaryKill, hostVars
<1> QED  BY <1>1, <1>2, <1>3, <1>4, StreamSteps DEF RouterStep

\* A stream found in the slot is still routed (spawn_streamer_process registers
\* the stream whose router it starts, and the router empties the slot first).
THEOREM SlotRouted == Spec => []SlotHoldsRoutedStream
<1>1. Init => SlotHoldsRoutedStream
  BY DEF Init, SlotHoldsRoutedStream
<1>2. BaseInv /\ SlotHoldsRoutedStream /\ [Next]_vars => SlotHoldsRoutedStream'
  <2> SUFFICES ASSUME BaseInv, SlotHoldsRoutedStream, [Next]_vars,
                      hostPresent', active' # NoStream
               PROVE  router'[active'] = "routing"
    BY DEF SlotHoldsRoutedStream
  <2>0. hostPresent
    BY HostStays
  <2> USE DEF BaseInv, TypeOK
  <2>1. ASSUME NEW c \in Conns, FilledBy(c)
        PROVE  router'[active'] = "routing"
    <3>1. PICK d, w : SpawnStreamer(d, w)
      BY <2>1 DEF FilledBy
    <3>2. active' = spawned + 1 /\ active' \in Streams
      BY <2>0, <3>1, LifecycleAssumption DEF SpawnStreamer, SendReplace, Streams
    <3>3. router' = [router EXCEPT ![spawned + 1] = "routing"]
      BY <3>1 DEF SpawnStreamer
    <3> QED  BY <3>2, <3>3
  <2>2. ASSUME NEW s \in Streams, RouterClear(s)
        PROVE  FALSE
    BY <2>0, <2>2 DEF RouterClear, SendReplace
  <2>3. ASSUME NEW s \in Streams, RouterClosePrimary(s)
        PROVE  router'[active'] = "routing"
    <3>1. active' = active /\ s # active
      BY <2>0, <2>3 DEF RouterClosePrimary, hostVars, SlotHoldsRoutedStream
    <3> QED  BY <2>0, <2>3, <3>1 DEF RouterClosePrimary, SlotHoldsRoutedStream
  <2>4. CASE UNCHANGED <<active, router>>
    BY <2>0, <2>4 DEF SlotHoldsRoutedStream
  <2> QED  BY <2>1, <2>2, <2>3, <2>4, RouterSteps
<1>3. QED  BY <1>1, <1>2, TypeCorrect, PTL DEF Spec

-----------------------------------------------------------------------------
(* Streamer processes *)

Alive == {"running", "stopped"}
Keeping(p, s) == on[p] = s /\ pc[p] \in {"relaying", "grace"}

\* A primary connection that keeps a process goes on doing so, or kills it.
LEMMA KeeperKept ==
    ASSUME BaseInv, [Next]_vars, NEW p \in Primaries, NEW s, Keeping(p, s)
    PROVE  Keeping(p, s)' \/ PrimaryKill(p)
<1> USE LifecycleAssumption DEF Conns, Keeping
<1>0. ASSUME NEW c \in Conns, NEW l, GoTo(c, l)
      PROVE  pc'[p] = IF c = p THEN l ELSE pc[p]
  BY <1>0 DEF GoTo, BaseInv, TypeOK, PcTypeOK
<1>1. ASSUME NEW c \in Conns, Connect(c) \/ Reject(c)
      PROVE  Keeping(p, s)'
  BY <1>0, <1>1 DEF Connect, Reject, Close
<1>2. ASSUME NEW q \in Primaries, PrimaryStep(q)
      PROVE  Keeping(p, s)' \/ PrimaryKill(p)
  <2>1. CASE q = p
    BY <1>0, <1>2, <2>1
       DEF PrimaryStep, PrimaryAdmit, PrimaryAppFound, PrimaryNoApp, PrimaryQueue,
           PrimaryLock, PrimaryStopExisting, PrimaryStopped, PrimaryStopTimeout,
           PrimarySpawn, PrimarySpawnFails, PrimaryRelayEnds
  <2>2. CASE q # p
    <3>1. \E l : GoTo(q, l)
      BY <1>2
         DEF PrimaryStep, PrimaryAdmit, PrimaryAppFound, PrimaryNoApp, PrimaryQueue,
             PrimaryLock, PrimaryStopExisting, PrimaryStopped, PrimaryStopTimeout,
             PrimarySpawn, PrimarySpawnFails, PrimaryRelayEnds, PrimaryKill, Close
    <3>2. on' = on \/ \E o : on' = [on EXCEPT ![q] = o]
      BY <1>2
         DEF PrimaryStep, PrimaryAdmit, PrimaryAppFound, PrimaryNoApp, PrimaryQueue,
             PrimaryLock, PrimaryStopExisting, PrimaryStopped, PrimaryStopTimeout,
             PrimarySpawn, PrimarySpawnFails, PrimaryRelayEnds, PrimaryKill, connVars
    <3>3. on'[p] = on[p]
      BY <2>2, <3>2 DEF BaseInv, TypeOK
    <3> QED  BY <1>0, <2>2, <3>1, <3>3
  <2> QED  BY <2>1, <2>2
<1>3. ASSUME NEW i \in Inputs, InputStep(i)
      PROVE  Keeping(p, s)'
  <2>1. pc' = pc \/ \E l : GoTo(i, l)
    BY <1>3
       DEF InputStep, InputSubscribe, PlaceholderPrecheck, PlaceholderLock,
           PlaceholderRecheck, PlaceholderNoGame, PlaceholderGame, PlaceholderSpawn,
           PlaceholderSpawnFails, InputFindsStream, InputWaits, InputGivesUp,
           InputAttach, InputChanged, InputWsClosed, InputDetach, InputLeave, Close,
           connVars
  <2>2. on' = on \/ \E o : on' = [on EXCEPT ![i] = o]
    BY <1>3
       DEF InputStep, InputSubscribe, PlaceholderPrecheck, PlaceholderLock,
           PlaceholderRecheck, PlaceholderNoGame, PlaceholderGame, PlaceholderSpawn,
           PlaceholderSpawnFails, InputFindsStream, InputWaits, InputGivesUp,
           InputAttach, InputChanged, InputWsClosed, InputDetach, InputLeave, Close,
           connVars
  <2>3. i # p
    OBVIOUS
  <2>4. on'[p] = on[p]
    BY <2>2, <2>3 DEF BaseInv, TypeOK
  <2> QED  BY <1>0, <2>1, <2>3, <2>4
<1>4. CASE UNCHANGED <<pc, on>>
  BY <1>4
<1> QED  BY <1>1, <1>2, <1>3, <1>4, TaskSteps

\* No streamer process is orphaned (the 4-second kill of run_primary_stream, and
\* supervise_placeholder_stream).
THEOREM StreamersKept == Spec => []EveryStreamerHasAKeeper
<1>1. Init => EveryStreamerHasAKeeper
  BY DEF Init, EveryStreamerHasAKeeper
<1>2. BaseInv /\ EveryStreamerHasAKeeper /\ [Next]_vars => EveryStreamerHasAKeeper'
  <2> SUFFICES ASSUME BaseInv, EveryStreamerHasAKeeper, [Next]_vars,
                      NEW s \in Streams, proc'[s] \in Alive
               PROVE  \/ \E p \in Primaries : Keeping(p, s)'
                      \/ sup'[s] \in {"watching", "grace"}
    BY DEF EveryStreamerHasAKeeper, Alive, Keeping
  <2>1. ASSUME NEW p \in Primaries, PrimarySpawn(p)
        PROVE  \/ \E q \in Primaries : Keeping(q, s)'
               \/ sup'[s] \in {"watching", "grace"}
    <3>1. spawned' = spawned + 1 /\ spawned' \in Streams
      BY <2>1, LifecycleAssumption
         DEF PrimarySpawn, SpawnStreamer, BaseInv, TypeOK, Streams
    <3>2. CASE s = spawned'
      <4>1. on'[p] = s /\ pc'[p] = "relaying"
        BY <2>1, <3>2 DEF PrimarySpawn, GoTo, BaseInv, TypeOK, PcTypeOK, Conns
      <4> QED  BY <4>1 DEF Keeping
    <3>3. CASE s # spawned'
      <4>1. proc[s] \in Alive /\ sup'[s] = sup[s]
        BY <2>1, <3>1, <3>3 DEF PrimarySpawn, SpawnStreamer, BaseInv, TypeOK
      <4>2. CASE sup[s] \in {"watching", "grace"}
        BY <4>1, <4>2
      <4>3. ASSUME NEW q \in Primaries, Keeping(q, s)
            PROVE  Keeping(q, s)'
        <5>1. q # p
          BY <2>1, <4>3 DEF PrimarySpawn, Keeping
        <5> QED
          BY <2>1, <4>3, <5>1
             DEF PrimarySpawn, Keeping, GoTo, BaseInv, TypeOK, PcTypeOK, Conns
      <4> QED  BY <4>1, <4>2, <4>3 DEF EveryStreamerHasAKeeper, Alive, Keeping
    <3> QED  BY <3>2, <3>3
  <2>2. ASSUME NEW i \in Inputs, PlaceholderSpawn(i)
        PROVE  \/ \E q \in Primaries : Keeping(q, s)'
               \/ sup'[s] \in {"watching", "grace"}
    <3>1. spawned' = spawned + 1 /\ spawned' \in Streams
      BY <2>2, LifecycleAssumption
         DEF PlaceholderSpawn, SpawnStreamer, BaseInv, TypeOK, Streams
    <3>2. CASE s = spawned'
      BY <2>2, <3>1, <3>2 DEF PlaceholderSpawn, SpawnStreamer, BaseInv, TypeOK
    <3>3. CASE s # spawned'
      <4>1. proc[s] \in Alive /\ sup'[s] = sup[s]
        BY <2>2, <3>1, <3>3 DEF PlaceholderSpawn, SpawnStreamer, BaseInv, TypeOK
      <4>2. ASSUME NEW q \in Primaries, Keeping(q, s)
            PROVE  Keeping(q, s)'
        <5>1. q # i
          BY LifecycleAssumption
        <5> QED
          BY <2>2, <4>2, <5>1
             DEF PlaceholderSpawn, Keeping, GoTo, BaseInv, TypeOK, PcTypeOK, Conns
      <4> QED  BY <4>1, <4>2 DEF EveryStreamerHasAKeeper, Alive, Keeping
    <3> QED  BY <3>2, <3>3
  <2>3. ASSUME NEW p \in Primaries, PrimaryKill(p)
        PROVE  \/ \E q \in Primaries : Keeping(q, s)'
               \/ sup'[s] \in {"watching", "grace"}
    <3>1. on[p] # s /\ proc[s] \in Alive /\ sup'[s] = sup[s]
      BY <2>3 DEF PrimaryKill, BaseInv, TypeOK, Alive
    <3>2. ASSUME NEW q \in Primaries, Keeping(q, s)
          PROVE  Keeping(q, s)'
      <4>1. q # p
        BY <3>1, <3>2 DEF Keeping
      <4> QED
        BY <2>3, <3>2, <4>1
           DEF PrimaryKill, Keeping, GoTo, BaseInv, TypeOK, PcTypeOK, Conns
    <3> QED  BY <3>1, <3>2 DEF EveryStreamerHasAKeeper, Alive, Keeping
  <2>4. ASSUME proc[s] \in Alive, sup[s] \in {"watching", "grace"} => sup'[s] \in {"watching", "grace"},
               \A p \in Primaries : ~PrimaryKill(p)
        PROVE  \/ \E q \in Primaries : Keeping(q, s)'
               \/ sup'[s] \in {"watching", "grace"}
    BY <2>4, KeeperKept DEF EveryStreamerHasAKeeper, Alive, Keeping
  <2>5. ASSUME NEW t \in Streams, RouterStep(t) \/ SupervisorStep(t) \/ StreamerStep(t)
        PROVE  /\ proc[s] \in Alive
               /\ sup[s] \in {"watching", "grace"} => sup'[s] \in {"watching", "grace"}
    BY <2>5 DEF RouterStep, RouterClear, RouterClosePrimary, SupervisorStep,
       SupervisorSeesExit, SupervisorSeesClients, SupervisorSeesEmpty,
       SupervisorKill, StreamerStep, StreamerObeysStop, StreamerEnds,
       StreamerExits, StreamerCrash, Alive, BaseInv, TypeOK
  <2>6. CASE UNCHANGED <<active, spawned, proc, router, sup, polls>>
    BY <2>3, <2>4, <2>6
  <2> QED  BY <2>1, <2>2, <2>3, <2>4, <2>5, <2>6, StreamSteps
<1>3. QED  BY <1>1, <1>2, TypeCorrect, PTL DEF Spec

-----------------------------------------------------------------------------
(* One stream at a time, as long as stopping one is never given up on *)

\* A task about to spawn has seen the slot empty, or the host gone.
SpawnerInv ==
    \A c \in Conns : Critical(c) /\ pc[c] = "spawning"
                       => active = NoStream \/ ~hostPresent

\* The slot holds the only stream whose router runs.
RoutedInv == hostPresent => \A s \in Streams : router[s] = "routing" => active = s

OneInv == SpawnerInv /\ RoutedInv

LEMMA PrimaryMoves ==
    ASSUME BaseInv, [Next]_vars, "stopTimeout" \notin Faults,
           NEW p \in Primaries, pc'[p] = "spawning"
    PROVE  pc[p] = "spawning" \/ active' = NoStream \/ ~hostPresent'
<1> USE LifecycleAssumption DEF Conns
<1>0. ASSUME NEW c \in Conns, NEW l, GoTo(c, l)
      PROVE  pc'[p] = IF c = p THEN l ELSE pc[p]
  BY <1>0 DEF GoTo, BaseInv, TypeOK, PcTypeOK
<1>1. ASSUME NEW c \in Conns, Connect(c) \/ Reject(c)
      PROVE  pc'[p] = pc[p]
  BY <1>0, <1>1 DEF Connect, Reject, Close
<1>2. ASSUME NEW q \in Primaries, PrimaryStep(q)
      PROVE  pc[p] = "spawning" \/ active' = NoStream \/ ~hostPresent'
  <2>1. CASE PrimaryStopExisting(q)
    BY <1>0, <2>1 DEF PrimaryStopExisting, hostVars
  <2>2. CASE PrimaryStopped(q)
    BY <1>0, <2>2 DEF PrimaryStopped, hostVars
  <2>3. CASE PrimaryStopTimeout(q)
    BY <2>3 DEF PrimaryStopTimeout
  <2>4. CASE \E l : l # "spawning" /\ GoTo(q, l)
    BY <1>0, <2>4
  <2> QED
    BY <1>2, <2>1, <2>2, <2>3, <2>4
       DEF PrimaryStep, PrimaryAdmit, PrimaryAppFound, PrimaryNoApp, PrimaryQueue,
           PrimaryLock, PrimarySpawn, PrimarySpawnFails, PrimaryRelayEnds,
           PrimaryKill, Close
<1>3. ASSUME NEW i \in Inputs, InputStep(i)
      PROVE  pc'[p] = pc[p]
  <2>1. pc' = pc \/ \E l : GoTo(i, l)
    BY <1>3
       DEF InputStep, InputSubscribe, PlaceholderPrecheck, PlaceholderLock,
           PlaceholderRecheck, PlaceholderNoGame, PlaceholderGame, PlaceholderSpawn,
           PlaceholderSpawnFails, InputFindsStream, InputWaits, InputGivesUp,
           InputAttach, InputChanged, InputWsClosed, InputDetach, InputLeave, Close,
           connVars
  <2> QED  BY <1>0, <2>1
<1>4. CASE UNCHANGED pc
  BY <1>4
<1> QED  BY <1>1, <1>2, <1>3, <1>4, TaskSteps

LEMMA OnePreserved ==
    ASSUME BaseInv, LockInv, PlaceholderFindsSlotEmpty, PlaceholderFindsSlotEmpty',
           OneInv, [Next]_vars, "stopTimeout" \notin Faults
    PROVE  OneInv'
<1> USE LifecycleAssumption DEF Conns
<1>1. SpawnerInv'
  <2> SUFFICES ASSUME NEW p \in Primaries, pc'[p] = "spawning", hostPresent'
               PROVE  active' = NoStream
    BY DEF SpawnerInv, Critical, PlaceholderFindsSlotEmpty
  <2>0. hostPresent
    BY HostStays
  <2>1. CASE pc[p] # "spawning"
    BY <2>1, PrimaryMoves
  <2>2. CASE pc[p] = "spawning"
    <3>0. active = NoStream /\ Critical(p)
      BY <2>0, <2>2 DEF OneInv, SpawnerInv, Critical
    <3>1. ASSUME NEW c \in Conns, FilledBy(c)
          PROVE  FALSE
      <4>1. c = p
        BY <3>0, <3>1 DEF FilledBy, LockInv
      <4>2. pc'[p] \in {"relaying", "wait"}
        BY <3>1, <4>1 DEF FilledBy, GoTo, BaseInv, TypeOK, PcTypeOK
      <4> QED  BY <4>2
    <3>2. ASSUME NEW s \in Streams, RouterClear(s)
          PROVE  active' = NoStream
      BY <3>0, <3>2 DEF RouterClear, SendReplace
    <3> QED  BY <3>0, <3>1, <3>2, SlotSteps
  <2> QED  BY <2>1, <2>2
<1>2. RoutedInv'
  <2> SUFFICES ASSUME hostPresent', NEW s \in Streams, router'[s] = "routing"
               PROVE  active' = s
    BY DEF RoutedInv
  <2>0. hostPresent
    BY HostStays
  <2>1. ASSUME NEW c \in Conns, FilledBy(c)
        PROVE  active' = s
    <3>1. PICK d, w : SpawnStreamer(d, w)
      BY <2>1 DEF FilledBy
    <3>2. active = NoStream
      BY <2>0, <2>1 DEF FilledBy, OneInv, SpawnerInv
    <3>3. active' = spawned + 1 /\ router' = [router EXCEPT ![spawned + 1] = "routing"]
      BY <2>0, <3>1 DEF SpawnStreamer, SendReplace
    <3>4. router[s] # "routing"
      BY <2>0, <3>2 DEF OneInv, RoutedInv, Streams, NoStream
    <3> QED  BY <3>3, <3>4 DEF BaseInv, TypeOK
  <2>2. ASSUME NEW t \in Streams, RouterClear(t)
        PROVE  FALSE
    <3>1. active = t
      BY <2>0, <2>2 DEF RouterClear, OneInv, RoutedInv
    <3>2. s # t /\ router[s] = "routing"
      BY <2>2 DEF RouterClear, BaseInv, TypeOK
    <3> QED  BY <2>0, <3>1, <3>2 DEF OneInv, RoutedInv
  <2>3. ASSUME NEW t \in Streams, RouterClosePrimary(t)
        PROVE  active' = s
    BY <2>0, <2>3 DEF RouterClosePrimary, hostVars, OneInv, RoutedInv, BaseInv, TypeOK
  <2>4. CASE UNCHANGED <<active, router>>
    BY <2>0, <2>4 DEF OneInv, RoutedInv
  <2> QED  BY <2>1, <2>2, <2>3, <2>4, RouterSteps
<1> QED  BY <1>1, <1>2 DEF OneInv

\* Unless a stop is given up on, the slot, the routers and the tasks that are starting a stream
\* account for one stream at a time (stream.rs).
THEOREM OneSafe ==
    ASSUME "stopTimeout" \notin Faults
    PROVE  Spec => []OneInv
<1>1. Init => OneInv
  BY LifecycleAssumption
     DEF Init, OneInv, SpawnerInv, RoutedInv, Critical, Conns, Streams
<1>2. BaseInv /\ LockInv /\ PlaceholderFindsSlotEmpty /\ PlaceholderFindsSlotEmpty'
        /\ OneInv /\ [Next]_vars => OneInv'
  BY OnePreserved
<1>3. QED  BY <1>1, <1>2, LockSafe, PlaceholderSlotSafe, PTL DEF Spec

\* Unless a stop is given up on after ten seconds, the slot of a host is empty
\* only when none of its streams is routed (ActiveStream's doc in data.rs).
THEOREM EmptySlot ==
    ASSUME "stopTimeout" \notin Faults
    PROVE  Spec => []EmptySlotMeansNoStream
<1>1. OneInv => EmptySlotMeansNoStream
  BY DEF OneInv, RoutedInv, EmptySlotMeansNoStream, Streams, NoStream
<1>2. QED  BY <1>1, OneSafe, PTL

\* Under the same condition a host never has two live streams
\* (stop_existing_stream_and_wait).
THEOREM OneLive ==
    ASSUME "stopTimeout" \notin Faults
    PROVE  Spec => []OneLiveStream
<1>1. OneInv => OneLiveStream
  BY DEF OneInv, RoutedInv, OneLiveStream
<1>2. QED  BY <1>1, OneSafe, PTL

-----------------------------------------------------------------------------
(* Refinement of HostStream *)

Present == hostPresent = TRUE

\* Without delete_host the host stays.
LEMMA HostKept ==
    ASSUME "hostDeleted" \notin Faults
    PROVE  Spec => []Present
<1>1. Init => Present
  BY DEF Init, Present
<1>2. Present /\ [Next]_vars => Present'
  <2> SUFFICES ASSUME Present, [Next]_vars
               PROVE  hostPresent' = hostPresent
    BY DEF Present
  <2> USE DEF hostVars
  <2>1. CASE \E c \in Conns : Connect(c) \/ BrowserClose(c) \/ Reject(c)
    BY <2>1 DEF Connect, BrowserClose, Reject
  <2>2. ASSUME NEW p \in Primaries, PrimaryStep(p)
        PROVE  hostPresent' = hostPresent
    BY <2>2 DEF PrimaryStep, PrimaryAdmit, PrimaryAppFound, PrimaryNoApp,
       PrimaryQueue, PrimaryLock, PrimaryStopExisting, PrimaryStopped,
       PrimaryStopTimeout, PrimarySpawn, PrimarySpawnFails, PrimaryRelayEnds,
       PrimaryKill, SpawnStreamer
  <2>3. ASSUME NEW i \in Inputs, InputStep(i)
        PROVE  hostPresent' = hostPresent
    BY <2>3 DEF InputStep, InputSubscribe, PlaceholderPrecheck, PlaceholderLock,
       PlaceholderRecheck, PlaceholderNoGame, PlaceholderGame, PlaceholderSpawn,
       PlaceholderSpawnFails, InputFindsStream, InputWaits, InputGivesUp,
       InputAttach, InputChanged, InputWsClosed, InputDetach, InputLeave, SpawnStreamer
  <2>4. ASSUME NEW s \in Streams, RouterStep(s) \/ SupervisorStep(s) \/ StreamerStep(s)
        PROVE  hostPresent' = hostPresent
    BY <2>4 DEF RouterStep, RouterClear, RouterClosePrimary, SupervisorStep,
       SupervisorSeesExit, SupervisorSeesClients, SupervisorSeesEmpty,
       SupervisorKill, StreamerStep, StreamerObeysStop, StreamerEnds,
       StreamerExits, StreamerCrash
  <2>5. CASE DeleteHost \/ Finished \/ UNCHANGED vars
    BY <2>5 DEF DeleteHost, Finished, vars
  <2> QED  BY <2>1, <2>2, <2>3, <2>4, <2>5 DEF Next
<1>3. QED  BY <1>1, <1>2, PTL DEF Spec

\* An input-only task has a stream in its hands exactly from finding it to
\* leaving it.
IdleInv == \A i \in Inputs : pc[i] \notin HasStream => on[i] = NoStream

Using == [i \in Inputs |-> on[i]]
Over  == {s \in Streams : router[s] \in {"cleared", "done"}}

\* What a step does to the stream an input-only task has taken up.
UsingStep ==
    \/ UNCHANGED Using
    \/ \E i \in Inputs : InputFindsStream(i)
    \/ \E i \in Inputs : InputDetach(i) \/ InputLeave(i)

LEMMA UsingSteps ==
    ASSUME BaseInv, [Next]_vars
    PROVE  UsingStep
<1> USE LifecycleAssumption DEF Conns
<1>1. ASSUME NEW p \in Primaries, PrimaryStep(p)
      PROVE  UNCHANGED Using
  <2>1. on' = on \/ \E o : on' = [on EXCEPT ![p] = o]
    BY <1>1
       DEF PrimaryStep, PrimaryAdmit, PrimaryAppFound, PrimaryNoApp, PrimaryQueue,
           PrimaryLock, PrimaryStopExisting, PrimaryStopped, PrimaryStopTimeout,
           PrimarySpawn, PrimarySpawnFails, PrimaryRelayEnds, PrimaryKill, connVars
  <2>2. \A i \in Inputs : on'[i] = on[i]
    BY <2>1 DEF BaseInv, TypeOK
  <2> QED  BY <2>2 DEF Using
<1>2. ASSUME NEW i \in Inputs, InputStep(i)
      PROVE  \/ InputFindsStream(i) \/ InputDetach(i) \/ InputLeave(i)
             \/ UNCHANGED on
  BY <1>2
     DEF InputStep, InputSubscribe, PlaceholderPrecheck, PlaceholderLock,
         PlaceholderRecheck, PlaceholderNoGame, PlaceholderGame, PlaceholderSpawn,
         PlaceholderSpawnFails, InputWaits, InputGivesUp, InputAttach, InputChanged,
         InputWsClosed, connVars
<1>3. ASSUME NEW c \in Conns, Connect(c) \/ Reject(c)
      PROVE  UNCHANGED on
  BY <1>3 DEF Connect, Reject
<1>4. UNCHANGED on => UNCHANGED Using
  BY DEF Using
<1> QED  BY <1>1, <1>2, <1>3, <1>4, TaskSteps DEF UsingStep

\* The lines of run_attach_input that let go of a stream are those that go back
\* to waiting or end the task.
LEMMA IdlePreserved == BaseInv /\ IdleInv /\ [Next]_vars => IdleInv'
<1> SUFFICES ASSUME BaseInv, IdleInv, [Next]_vars, NEW i \in Inputs,
                    pc'[i] \notin HasStream
             PROVE  on'[i] = NoStream
  BY DEF IdleInv
<1> USE LifecycleAssumption DEF Conns
<1>0. ASSUME NEW c \in Conns, NEW l, GoTo(c, l)
      PROVE  pc'[i] = IF c = i THEN l ELSE pc[i]
  BY <1>0 DEF GoTo, BaseInv, TypeOK, PcTypeOK
<1>1. ASSUME NEW p \in Primaries, PrimaryStep(p)
      PROVE  on'[i] = NoStream
  <2>1. \E l : GoTo(p, l)
    BY <1>1
       DEF PrimaryStep, PrimaryAdmit, PrimaryAppFound, PrimaryNoApp, PrimaryQueue,
           PrimaryLock, PrimaryStopExisting, PrimaryStopped, PrimaryStopTimeout,
           PrimarySpawn, PrimarySpawnFails, PrimaryRelayEnds, PrimaryKill, Close
  <2>2. on' = on \/ \E o : on' = [on EXCEPT ![p] = o]
    BY <1>1
       DEF PrimaryStep, PrimaryAdmit, PrimaryAppFound, PrimaryNoApp, PrimaryQueue,
           PrimaryLock, PrimaryStopExisting, PrimaryStopped, PrimaryStopTimeout,
           PrimarySpawn, PrimarySpawnFails, PrimaryRelayEnds, PrimaryKill, connVars
  <2>3. on'[i] = on[i] /\ pc'[i] = pc[i]
    BY <1>0, <2>1, <2>2 DEF BaseInv, TypeOK
  <2> QED  BY <2>3 DEF IdleInv
<1>2. ASSUME NEW j \in Inputs, InputStep(j)
      PROVE  on'[i] = NoStream
  <2>1. CASE InputFindsStream(j)
    BY <1>0, <2>1 DEF InputFindsStream, IdleInv, HasStream, BaseInv, TypeOK
  <2>2. CASE InputDetach(j) \/ InputLeave(j)
    BY <1>0, <2>2 DEF InputDetach, InputLeave, Close, IdleInv, BaseInv, TypeOK
  <2>3. CASE UNCHANGED <<pc, on>>
    BY <2>3 DEF IdleInv
  <2>4. CASE /\ UNCHANGED on
             /\ \E l : GoTo(j, l) /\ (pc[j] \notin HasStream \/ l \in HasStream)
    BY <1>0, <2>4 DEF IdleInv
  <2> QED
    BY <1>2, <2>1, <2>2, <2>3, <2>4
       DEF InputStep, InputSubscribe, PlaceholderPrecheck, PlaceholderLock,
           PlaceholderRecheck, PlaceholderNoGame, PlaceholderGame, PlaceholderSpawn,
           PlaceholderSpawnFails, InputWaits, InputGivesUp, InputAttach,
           InputChanged, InputWsClosed, Close, HasStream, connVars
<1>3. ASSUME NEW c \in Conns, Connect(c) \/ Reject(c)
      PROVE  on'[i] = NoStream
  BY <1>0, <1>3 DEF Connect, Reject, Close, IdleInv, HasStream
<1>4. CASE UNCHANGED <<pc, on>>
  BY <1>4 DEF IdleInv
<1> QED  BY <1>1, <1>2, <1>3, <1>4, TaskSteps

\* A step is one of the host's, or changes nothing a host shows.
LEMMA HostStep ==
    ASSUME BaseInv, OneInv, IdleInv, hostPresent, [Next]_vars
    PROVE  [Host!Next]_(Host!vars)
<1> USE LifecycleAssumption DEF Conns
<1> DEFINE Kept == UNCHANGED <<active, Over>>
<1>1. ASSUME NEW c \in Conns, FilledBy(c), UNCHANGED Using
      PROVE  \E s \in Streams : Host!Start(s)
  <2>1. PICK d, w : SpawnStreamer(d, w)
    BY <1>1 DEF FilledBy
  <2>2. active = NoStream /\ active' = spawned + 1 /\ spawned + 1 \in Streams
    BY <1>1, <2>1
       DEF FilledBy, OneInv, SpawnerInv, SpawnStreamer, SendReplace, Streams,
           BaseInv, TypeOK
  <2>3. router[spawned + 1] = "none"
    BY <2>2 DEF BaseInv, FreshInv, Streams, TypeOK
  <2>4. router' = [router EXCEPT ![spawned + 1] = "routing"]
    BY <2>1 DEF SpawnStreamer
  <2>5. Over' = Over /\ spawned + 1 \notin Over
    BY <2>2, <2>3, <2>4 DEF Over, BaseInv, TypeOK
  <2> QED  BY <1>1, <2>2, <2>5 DEF Host!Start, Over, Using
<1>2. ASSUME NEW s \in Streams, RouterClear(s), UNCHANGED Using
      PROVE  Host!End(s)
  <2>1. active = s /\ active' = NoStream
    BY <1>2 DEF RouterClear, SendReplace, OneInv, RoutedInv
  <2>2. Over' = Over \cup {s}
    BY <1>2 DEF RouterClear, Over, BaseInv, TypeOK
  <2> QED  BY <1>2, <2>1, <2>2 DEF Host!End, Over, Using
<1>3. ASSUME NEW s \in Streams, RouterClosePrimary(s)
      PROVE  Kept
  BY <1>3 DEF RouterClosePrimary, hostVars, Over, BaseInv, TypeOK
<1>4. UNCHANGED <<active, router>> => Kept
  BY DEF Over
<1>5. ASSUME NEW i \in Inputs, InputFindsStream(i)
      PROVE  Host!Use(i)
  <2>1. on[i] = NoStream /\ active # NoStream /\ UNCHANGED <<active, router>>
    BY <1>5 DEF InputFindsStream, IdleInv, HasStream, hostVars, streamVars
  <2>2. Using' = [Using EXCEPT ![i] = active]
    BY <1>5 DEF InputFindsStream, Using, BaseInv, TypeOK
  <2>3. Over' = Over
    BY <2>1 DEF Over
  <2> QED  BY <2>1, <2>2, <2>3 DEF Host!Use, Over, Using
<1>6. ASSUME NEW i \in Inputs, InputDetach(i) \/ InputLeave(i)
      PROVE  Host!Release(i)
  <2>1. on[i] # NoStream /\ UNCHANGED <<active, router>>
    BY <1>6 DEF InputDetach, InputLeave, BaseInv, OnInv, HasStream, hostVars
  <2>2. Using' = [Using EXCEPT ![i] = NoStream]
    BY <1>6 DEF InputDetach, InputLeave, Using, BaseInv, TypeOK
  <2>3. Over' = Over
    BY <2>1 DEF Over
  <2> QED  BY <2>1, <2>2, <2>3 DEF Host!Release, Over, Using
<1>7. Kept /\ UNCHANGED Using => UNCHANGED Host!vars
  BY DEF Host!vars, Over, Using
<1>8. ASSUME NEW i \in Inputs, InputFindsStream(i) \/ InputDetach(i) \/ InputLeave(i)
      PROVE  [Host!Next]_(Host!vars)
  BY <1>5, <1>6, <1>8 DEF Host!Next
<1>9. CASE UNCHANGED Using
  BY <1>1, <1>2, <1>3, <1>4, <1>7, <1>9, RouterSteps DEF Host!Next
<1> QED  BY <1>8, <1>9, UsingSteps DEF UsingStep

\* The streams of a host, as its clients see them, are those of HostStream: one
\* at a time, started in an empty slot, ended by their own router.
THEOREM Refinement ==
    ASSUME "stopTimeout" \notin Faults, "hostDeleted" \notin Faults
    PROVE  Spec => ImplementsHostStream
<1>1. Init => Host!Init
  BY DEF Init, Host!Init, Conns
<1>2. Init => IdleInv
  BY DEF Init, IdleInv, Conns
<1>3. BaseInv /\ OneInv /\ IdleInv /\ Present /\ [Next]_vars
        => [Host!Next]_(Host!vars)
  BY HostStep DEF Present
<1>4. QED
  BY <1>1, <1>2, <1>3, IdlePreserved, TypeCorrect, OneSafe, HostKept, PTL
     DEF Spec, ImplementsHostStream, Host!Spec

-----------------------------------------------------------------------------
(* Client ids *)

\* An attached client, or one that was attached and still has its id.
Served == {"attached", "ended", "leaving"}

\* The connections that may yet take a client id of stream s: those on their
\* way to attach to it, and those that can still find it in the slot.
Joinable(s) ==
    {i \in Inputs :
        \/ pc[i] = "attach" /\ on[i] = s
        \/ (active = s \/ s > spawned) /\ pc[i] # "closed" /\ on[i] # s}

\* After n ids of stream s have been given out, each of them is still the id
\* of the client it was given to, and there are at least as many WebSockets as
\* ids given out and to be given out.
Counted(s) ==
    /\ IsFiniteSet(Joinable(s))
    /\ \E n \in 0..MaxConnects :
         /\ n + Cardinality(Joinable(s)) <= connects
         /\ nextId[s] = IF n = MaxClientId THEN 1 ELSE n + 1
         /\ \A i \in Inputs : on[i] = s /\ pc[i] \in Served =>
                cid[i] \in 1..n /\ clients[s][cid[i]] = i

\* A client leaves a stream only when the slot has let go of it for good.
EndedInv == \A i \in Inputs : pc[i] = "ended" => active # on[i]

\* Client id 0 is never that of an input-only client, and it is its primary's
\* while a stream is routed.
PrimaryIdInv ==
    /\ \A i \in Inputs : pc[i] \in Served => cid[i] # 0
    /\ \A p \in Primaries : pc[p] \in {"relaying", "grace"} /\ router[on[p]] = "routing"
                              => clients[on[p]][0] = p

ReachInv ==
    /\ PrimaryIdInv
    /\ hostPresent => EndedInv /\ \A s \in Streams : Counted(s)

\* A step in which no client id is given out or back, and no client comes near
\* a stream.
Elsewhere ==
    /\ UNCHANGED <<connects, nextId, cid>>
    /\ \A i \in Inputs : /\ on'[i] = on[i]
                         /\ \/ pc'[i] = pc[i]
                            \/ /\ pc[i] \notin HasStream \cup {"closed"}
                               /\ pc'[i] \notin HasStream
    /\ \A s \in Streams, k \in ClientIds \ {0} : clients'[s][k] = clients[s][k]

\* What a step does to the ids of the clients (run_attach_input in stream.rs).
LEMMA ClientSteps ==
    ASSUME BaseInv, [Next]_vars
    PROVE  \/ \E c \in Conns : Connect(c)
           \/ \E i \in Inputs : InputFindsStream(i) \/ InputAttach(i)
           \/ \E i \in Inputs : InputChanged(i) \/ InputWsClosed(i)
           \/ \E i \in Inputs : InputDetach(i) \/ InputLeave(i)
           \/ Elsewhere
<1> USE LifecycleAssumption DEF Conns, BaseInv, TypeOK
<1>0. ASSUME NEW c \in Conns, NEW l, GoTo(c, l), NEW i \in Inputs
      PROVE  pc'[i] = IF c = i THEN l ELSE pc[i]
  BY <1>0 DEF GoTo, PcTypeOK
<1>1. ASSUME NEW d, NEW w, SpawnStreamer(d, w)
      PROVE  /\ UNCHANGED nextId
             /\ \A s \in Streams, k \in ClientIds \ {0} : clients'[s][k] = clients[s][k]
  BY <1>1 DEF SpawnStreamer
<1>2. ASSUME NEW p \in Primaries, PrimaryStep(p)
      PROVE  Elsewhere
  <2>1. \E l : GoTo(p, l)
    BY <1>2 DEF PrimaryStep, PrimaryAdmit, PrimaryAppFound, PrimaryNoApp,
       PrimaryQueue, PrimaryLock, PrimaryStopExisting, PrimaryStopped,
       PrimaryStopTimeout, PrimarySpawn, PrimarySpawnFails, PrimaryRelayEnds,
       PrimaryKill, Close
  <2>2. UNCHANGED <<connects, cid>> /\ (on' = on \/ \E o : on' = [on EXCEPT ![p] = o])
    BY <1>2 DEF PrimaryStep, PrimaryAdmit, PrimaryAppFound, PrimaryNoApp,
       PrimaryQueue, PrimaryLock, PrimaryStopExisting, PrimaryStopped,
       PrimaryStopTimeout, PrimarySpawn, PrimarySpawnFails, PrimaryRelayEnds,
       PrimaryKill, connVars
  <2>3. (\E d, w : SpawnStreamer(d, w)) \/ UNCHANGED <<nextId, clients>>
    BY <1>2 DEF PrimaryStep, PrimaryAdmit, PrimaryAppFound, PrimaryNoApp,
       PrimaryQueue, PrimaryLock, PrimaryStopExisting, PrimaryStopped,
       PrimaryStopTimeout, PrimarySpawn, PrimarySpawnFails, PrimaryRelayEnds,
       PrimaryKill, streamVars
  <2>4. \A i \in Inputs : pc'[i] = pc[i] /\ on'[i] = on[i]
    BY <1>0, <2>1, <2>2
  <2> QED  BY <1>1, <2>2, <2>3, <2>4 DEF Elsewhere
<1>3. ASSUME NEW j \in Inputs, InputStep(j)
      PROVE  \/ InputFindsStream(j) \/ InputAttach(j) \/ InputChanged(j)
             \/ InputWsClosed(j) \/ InputDetach(j) \/ InputLeave(j) \/ Elsewhere
  <2>1. CASE /\ pc[j] \notin HasStream \cup {"closed"}
             /\ UNCHANGED <<connects, on, cid>>
             /\ UNCHANGED pc \/ \E l : l \notin HasStream /\ GoTo(j, l)
             /\ (\E d, w : SpawnStreamer(d, w)) \/ UNCHANGED <<nextId, clients>>
    <3>1. \A i \in Inputs : pc'[i] = pc[i] \/ (i = j /\ pc'[i] \notin HasStream)
      BY <1>0, <2>1
    <3> QED  BY <1>1, <2>1, <3>1 DEF Elsewhere
  <2>2. CASE PlaceholderSpawn(j) \/ PlaceholderSpawnFails(j)
    <3>1. /\ pc[j] = "spawning"
          /\ UNCHANGED <<connects, on, cid>>
          /\ GoTo(j, "wait")
          /\ (\E d, w : SpawnStreamer(d, w)) \/ UNCHANGED <<nextId, clients>>
      BY <2>2 DEF PlaceholderSpawn, PlaceholderSpawnFails, streamVars
    <3> QED  BY <2>1, <3>1 DEF HasStream
  <2> QED
    BY <1>3, <2>1, <2>2
       DEF InputStep, InputSubscribe, PlaceholderPrecheck, PlaceholderLock,
           PlaceholderRecheck, PlaceholderNoGame, PlaceholderGame, InputWaits,
           InputGivesUp, Close, HasStream, connVars, streamVars
<1>4. ASSUME NEW c \in Conns, Reject(c)
      PROVE  Elsewhere
  BY <1>0, <1>4 DEF Reject, Close, HasStream, Elsewhere, streamVars
<1>5. ASSUME NEW c \in Conns, BrowserClose(c)
      PROVE  Elsewhere
  BY <1>5 DEF BrowserClose, Elsewhere, streamVars
<1>6. ASSUME NEW s \in Streams, RouterStep(s) \/ SupervisorStep(s) \/ StreamerStep(s)
      PROVE  Elsewhere
  <2>1. UNCHANGED <<connects, pc, on, cid, nextId>>
    BY <1>6 DEF RouterStep, RouterClear, RouterClosePrimary, SupervisorStep,
       SupervisorSeesExit, SupervisorSeesClients, SupervisorSeesEmpty,
       SupervisorKill, StreamerStep, StreamerObeysStop, StreamerEnds,
       StreamerExits, StreamerCrash, connVars
  <2>2. UNCHANGED clients \/ clients' = [clients EXCEPT ![s][0] = NoConn]
    BY <1>6 DEF RouterStep, RouterClear, RouterClosePrimary, SupervisorStep,
       SupervisorSeesExit, SupervisorSeesClients, SupervisorSeesEmpty,
       SupervisorKill, StreamerStep, StreamerObeysStop, StreamerEnds,
       StreamerExits, StreamerCrash
  <2>3. \A t \in Streams, k \in ClientIds \ {0} : clients'[t][k] = clients[t][k]
    BY <2>2
  <2> QED  BY <2>1, <2>3 DEF Elsewhere
<1>7. CASE DeleteHost \/ Finished \/ UNCHANGED vars
  BY <1>7 DEF DeleteHost, Finished, vars, connVars, streamVars, Elsewhere
<1> QED  BY <1>2, <1>3, <1>4, <1>5, <1>6, <1>7 DEF Next

\* A stream that comes into the slot is the next one.
LEMMA SlotMoves ==
    ASSUME BaseInv, [Next]_vars
    PROVE  /\ spawned \in Nat /\ spawned' \in Nat /\ spawned <= spawned'
           /\ active' \in {active, NoStream, spawned + 1}
<1> USE LifecycleAssumption DEF BaseInv, TypeOK
<1>1. ASSUME NEW d, NEW w, SpawnStreamer(d, w)
      PROVE  spawned' = spawned + 1 /\ active' \in {active, spawned + 1}
  BY <1>1 DEF SpawnStreamer, SendReplace
<1>2. ASSUME NEW s \in Streams, RouterClear(s)
      PROVE  active' \in {active, NoStream}
  BY <1>2 DEF RouterClear, SendReplace
<1>3. active' \in {active, NoStream, spawned + 1}
  BY <1>1, <1>2, SlotSteps DEF FilledBy
<1>4. spawned' = spawned \/ \E d, w : SpawnStreamer(d, w)
  BY StreamSteps DEF PrimarySpawn, PlaceholderSpawn, PrimaryKill, RouterStep,
     RouterClear, RouterClosePrimary, SupervisorStep, SupervisorSeesExit,
     SupervisorSeesClients, SupervisorSeesEmpty, SupervisorKill, StreamerStep,
     StreamerObeysStop, StreamerEnds, StreamerExits, StreamerCrash
<1> QED  BY <1>1, <1>3, <1>4

\* A count is kept while nobody joins the stream and its clients keep their ids.
LEMMA CountKept ==
    ASSUME BaseInv, NEW s \in Streams, Counted(s), Joinable(s)' \subseteq Joinable(s),
           nextId'[s] = nextId[s], connects' \in Nat, connects <= connects',
           \A i \in Inputs : on'[i] = s /\ pc'[i] \in Served =>
               /\ on[i] = s /\ pc[i] \in Served /\ cid'[i] = cid[i]
               /\ clients[s][cid[i]] = i => clients'[s][cid[i]] = i
    PROVE  Counted(s)'
<1>1. PICK n \in 0..MaxConnects :
        /\ n + Cardinality(Joinable(s)) <= connects
        /\ nextId[s] = IF n = MaxClientId THEN 1 ELSE n + 1
        /\ \A i \in Inputs : on[i] = s /\ pc[i] \in Served =>
               cid[i] \in 1..n /\ clients[s][cid[i]] = i
  BY DEF Counted
<1>2. IsFiniteSet(Joinable(s))
  BY DEF Counted
<1>3. PICK J : J = Joinable(s)'
  OBVIOUS
<1>4. /\ IsFiniteSet(J)
      /\ Cardinality(J) <= Cardinality(Joinable(s))
      /\ Cardinality(J) \in Nat /\ Cardinality(Joinable(s)) \in Nat
  BY <1>2, <1>3, FS_Subset, FS_CardinalityType
<1>5. n + Cardinality(J) <= connects'
  BY <1>1, <1>4, LifecycleAssumption DEF BaseInv, TypeOK
<1> QED  BY <1>1, <1>3, <1>4, <1>5 DEF Counted

\* No step but a new WebSocket brings a connection nearer to a stream.
LEMMA JoinableShrinks ==
    ASSUME BaseInv, IdleInv, EndedInv, [Next]_vars, NEW s \in Streams,
           NEW i \in Inputs, i \in Joinable(s)', ~Connect(i)
    PROVE  i \in Joinable(s)
<1>a. /\ spawned \in Nat /\ spawned' \in Nat /\ spawned <= spawned'
      /\ active' \in {active, NoStream, spawned + 1}
  BY SlotMoves
<1> USE LifecycleAssumption DEF Conns, BaseInv, TypeOK
<1>0. ASSUME NEW c \in Conns, NEW l, GoTo(c, l)
      PROVE  pc'[i] = IF c = i THEN l ELSE pc[i]
  BY <1>0 DEF GoTo, PcTypeOK
<1>1. active' = s \/ s > spawned' => active = s \/ s > spawned
  BY <1>a DEF Streams, NoStream
<1>2. \/ pc'[i] = "attach" /\ on'[i] = s
      \/ (active' = s \/ s > spawned') /\ pc'[i] # "closed" /\ on'[i] # s
  BY DEF Joinable
<1>3. CASE on'[i] = on[i] /\ pc'[i] = pc[i]
  BY <1>1, <1>2, <1>3 DEF Joinable
<1>4. CASE on'[i] = on[i] /\ pc[i] # "closed" /\ pc'[i] # "attach"
  BY <1>1, <1>2, <1>4 DEF Joinable
<1>5. ASSUME NEW c \in Conns, Connect(c)
      PROVE  i \in Joinable(s)
  <2>1. c # i
    BY <1>5
  <2>2. pc'[i] = pc[i] /\ on'[i] = on[i]
    BY <1>0, <1>5, <2>1 DEF Connect
  <2> QED  BY <1>3, <2>2
<1>6. ASSUME NEW j \in Inputs, InputFindsStream(j)
      PROVE  i \in Joinable(s)
  <2>1. CASE j # i
    <3>1. pc'[i] = pc[i] /\ on'[i] = on[i]
      BY <1>0, <1>6, <2>1 DEF InputFindsStream
    <3> QED  BY <1>3, <3>1
  <2>2. CASE j = i
    <3>1. pc[i] = "wait" /\ on[i] = NoStream /\ on'[i] = active /\ UNCHANGED active
      BY <1>6, <2>2 DEF InputFindsStream, IdleInv, HasStream, hostVars
    <3>2. on[i] # s
      BY <3>1 DEF Streams, NoStream
    <3> QED  BY <1>1, <1>2, <3>1, <3>2 DEF Joinable
  <2> QED  BY <2>1, <2>2
<1>7. ASSUME NEW j \in Inputs, InputAttach(j) \/ InputChanged(j) \/ InputWsClosed(j)
      PROVE  i \in Joinable(s)
  <2>1. UNCHANGED on /\ pc[j] # "closed" /\ (UNCHANGED pc \/ \E l : l # "attach" /\ GoTo(j, l))
    BY <1>7 DEF InputAttach, InputChanged, InputWsClosed
  <2>2. pc'[i] = pc[i] \/ (pc[i] # "closed" /\ pc'[i] # "attach")
    BY <1>0, <2>1
  <2> QED  BY <1>3, <1>4, <2>1, <2>2
<1>8. ASSUME NEW j \in Inputs, InputDetach(j) \/ InputLeave(j)
      PROVE  i \in Joinable(s)
  <2>1. CASE j # i
    <3>1. pc'[i] = pc[i] /\ on'[i] = on[i]
      BY <1>0, <1>8, <2>1 DEF InputDetach, InputLeave, Close
    <3> QED  BY <1>3, <3>1
  <2>2. CASE j = i /\ InputLeave(i)
    <3>1. pc'[i] = "closed"
      BY <1>0, <2>2 DEF InputLeave, Close
    <3> QED  BY <1>2, <3>1
  <2>3. CASE j = i /\ InputDetach(i)
    <3>1. pc[i] = "ended" /\ pc'[i] = "precheck"
      BY <1>0, <2>3 DEF InputDetach
    <3>2. active = s \/ s > spawned
      BY <1>1, <1>2, <3>1
    <3>3. on[i] # active /\ on[i] <= spawned
      BY <3>1 DEF EndedInv, OnInv
    <3>4. on[i] # s
      BY <3>2, <3>3 DEF Streams, NoStream
    <3> QED  BY <3>1, <3>2, <3>4 DEF Joinable
  <2> QED  BY <1>8, <2>1, <2>2, <2>3
<1>9. CASE Elsewhere
  <2>1. pc'[i] # "attach" \/ pc'[i] = pc[i]
    BY <1>9 DEF Elsewhere, HasStream
  <2> QED  BY <1>3, <1>4, <1>9, <2>1 DEF Elsewhere
<1> QED  BY <1>5, <1>6, <1>7, <1>8, <1>9, ClientSteps

\* A new WebSocket may join every stream there is or will be.
LEMMA ConnectCounts ==
    ASSUME BaseInv, IdleInv, EndedInv, NEW s \in Streams, Counted(s),
           NEW c \in Conns, Connect(c), [Next]_vars
    PROVE  Counted(s)'
<1> USE LifecycleAssumption DEF Conns, BaseInv, TypeOK
<1>1. PICK n \in 0..MaxConnects :
        /\ n + Cardinality(Joinable(s)) <= connects
        /\ nextId[s] = IF n = MaxClientId THEN 1 ELSE n + 1
        /\ \A i \in Inputs : on[i] = s /\ pc[i] \in Served =>
               cid[i] \in 1..n /\ clients[s][cid[i]] = i
  BY DEF Counted
<1>2. PICK J : J = Joinable(s)'
  OBVIOUS
<1>3. ASSUME NEW i \in Inputs, Connect(i)
      PROVE  i = c
  BY <1>3 DEF Connect, GoTo, PcTypeOK
<1>4. J \subseteq Joinable(s) \cup {c}
  BY <1>2, <1>3, JoinableShrinks DEF Joinable
<1>5. IsFiniteSet(Joinable(s))
  BY DEF Counted
<1>6. PICK K : K = Joinable(s) \cup {c}
  OBVIOUS
<1>7. /\ IsFiniteSet(K)
      /\ Cardinality(K) <= Cardinality(Joinable(s)) + 1
      /\ Cardinality(Joinable(s)) \in Nat
  <2>1. Cardinality(Joinable(s)) \in Nat
    BY <1>5, FS_CardinalityType
  <2>2. /\ IsFiniteSet(K)
        /\ \/ Cardinality(K) = Cardinality(Joinable(s))
           \/ Cardinality(K) = Cardinality(Joinable(s)) + 1
    BY <1>5, <1>6, FS_AddElement
  <2> QED  BY <2>1, <2>2
<1>8. /\ IsFiniteSet(J)
      /\ Cardinality(J) <= Cardinality(K)
      /\ Cardinality(J) \in Nat /\ Cardinality(K) \in Nat
  BY <1>4, <1>6, <1>7, FS_Subset, FS_CardinalityType
<1>9. connects' = connects + 1
  BY DEF Connect
<1>10. n + Cardinality(J) <= connects'
  BY <1>1, <1>7, <1>8, <1>9
<1>11. UNCHANGED <<nextId, cid, clients, on>>
  BY DEF Connect, streamVars
<1>12. \A i \in Inputs : pc'[i] \in Served => pc[i] \in Served
  BY DEF Connect, GoTo, PcTypeOK, Served
<1> QED  BY <1>1, <1>2, <1>8, <1>10, <1>11, <1>12 DEF Counted

\* The id a client is given is the count plus one: nobody has it.
LEMMA AttachCounts ==
    ASSUME BaseInv, IdleInv, EndedInv, NEW s \in Streams, Counted(s),
           NEW i \in Inputs, InputAttach(i), on[i] = s, [Next]_vars,
           MaxConnects <= MaxClientId
    PROVE  Counted(s)'
<1> USE LifecycleAssumption DEF Conns, BaseInv, TypeOK
<1>0. \A j \in Inputs : pc'[j] = IF j = i THEN "attached" ELSE pc[j]
  BY DEF InputAttach, GoTo, PcTypeOK
<1>1. PICK n \in 0..MaxConnects :
        /\ n + Cardinality(Joinable(s)) <= connects
        /\ nextId[s] = IF n = MaxClientId THEN 1 ELSE n + 1
        /\ \A j \in Inputs : on[j] = s /\ pc[j] \in Served =>
               cid[j] \in 1..n /\ clients[s][cid[j]] = j
  BY DEF Counted
<1>2. IsFiniteSet(Joinable(s)) /\ i \in Joinable(s)
  BY DEF Counted, Joinable, InputAttach
<1>3. PICK J : J = Joinable(s)'
  OBVIOUS
<1>4. UNCHANGED <<connects, on, active, spawned>>
  BY DEF InputAttach, hostVars
<1>5. J \subseteq Joinable(s) \ {i}
  <2>1. ASSUME NEW j \in J
        PROVE  j \in Inputs /\ ~Connect(j) /\ j # i
    BY <1>0, <1>3, <1>4, <2>1 DEF Joinable, Connect
  <2> QED  BY <1>3, <2>1, JoinableShrinks
<1>6. PICK K : K = Joinable(s) \ {i}
  OBVIOUS
<1>7. /\ IsFiniteSet(K)
      /\ Cardinality(K) = Cardinality(Joinable(s)) - 1
      /\ Cardinality(Joinable(s)) \in Nat
  BY <1>2, <1>6, FS_RemoveElement, FS_CardinalityType
<1>8. /\ IsFiniteSet(J)
      /\ Cardinality(J) <= Cardinality(K)
      /\ Cardinality(J) \in Nat /\ Cardinality(K) \in Nat
  BY <1>5, <1>6, <1>7, FS_Subset, FS_CardinalityType
<1>9. n + 1 \in 0..MaxConnects /\ n + 1 <= MaxClientId /\ n # MaxClientId
      /\ n + 1 + Cardinality(J) <= connects'
  BY <1>1, <1>4, <1>7, <1>8
<1>10. nextId[s] = n + 1
  BY <1>1, <1>9
<1>11. /\ nextId'[s] = IF n + 1 = MaxClientId THEN 1 ELSE n + 1 + 1
       /\ cid' = [cid EXCEPT ![i] = n + 1]
       /\ clients' = [clients EXCEPT ![s][n + 1] = i]
  BY <1>10 DEF InputAttach
<1>12. ASSUME NEW j \in Inputs, on'[j] = s, pc'[j] \in Served
       PROVE  cid'[j] \in 1..n + 1 /\ clients'[s][cid'[j]] = j
  <2>1. CASE j = i
    <3>1. cid'[j] = n + 1 /\ n + 1 \in ClientIds
      BY <1>9, <1>11, <2>1 DEF ClientIds
    <3>2. clients'[s][n + 1] = i
      BY <1>11, <3>1
    <3> QED  BY <1>9, <2>1, <3>1, <3>2
  <2>2. CASE j # i
    <3>1. cid'[j] = cid[j] /\ cid[j] \in 1..n /\ clients[s][cid[j]] = j
      BY <1>0, <1>1, <1>4, <1>11, <1>12, <2>2
    <3>2. cid[j] # n + 1
      BY <3>1
    <3>3. clients'[s][cid[j]] = clients[s][cid[j]]
      BY <1>11, <3>2
    <3> QED  BY <3>1, <3>3
  <2> QED  BY <2>1, <2>2
<1> QED  BY <1>3, <1>8, <1>9, <1>11, <1>12 DEF Counted

\* Every other step keeps the counts.
LEMMA OthersCount ==
    ASSUME BaseInv, IdleInv, EndedInv, PrimaryIdInv, NEW s \in Streams, Counted(s),
           [Next]_vars, \A c \in Conns : ~Connect(c),
           \A i \in Inputs : ~(InputAttach(i) /\ on[i] = s)
    PROVE  Counted(s)'
<1> USE LifecycleAssumption DEF Conns, BaseInv, TypeOK
<1>0. ASSUME NEW c \in Conns, NEW l, GoTo(c, l), NEW j \in Inputs
      PROVE  pc'[j] = IF c = j THEN l ELSE pc[j]
  BY <1>0 DEF GoTo, PcTypeOK
<1>1. Joinable(s)' \subseteq Joinable(s)
  <2> SUFFICES ASSUME NEW i \in Joinable(s)'
               PROVE  i \in Joinable(s)
    OBVIOUS
  <2>1. i \in Inputs
    BY DEF Joinable
  <2> QED  BY <2>1, JoinableShrinks
<1> DEFINE Keeps == \A i \in Inputs : on'[i] = s /\ pc'[i] \in Served =>
               /\ on[i] = s /\ pc[i] \in Served /\ cid'[i] = cid[i]
               /\ clients[s][cid[i]] = i => clients'[s][cid[i]] = i
<1>2. ASSUME nextId'[s] = nextId[s], UNCHANGED connects, Keeps
      PROVE  Counted(s)'
  BY <1>1, <1>2, CountKept
<1>3. ASSUME NEW j \in Inputs, InputFindsStream(j)
      PROVE  Counted(s)'
  <2>1. UNCHANGED <<connects, nextId, cid, clients>>
    BY <1>3 DEF InputFindsStream, streamVars
  <2>2. Keeps
    BY <1>0, <1>3, <2>1 DEF InputFindsStream, Served
  <2> QED  BY <1>2, <2>1, <2>2
<1>4. ASSUME NEW j \in Inputs, InputAttach(j)
      PROVE  Counted(s)'
  <2>1. on[j] # s /\ on[j] \in Streams /\ UNCHANGED <<connects, on>>
    BY <1>4 DEF InputAttach, OnInv, HasStream
  <2>2. nextId'[s] = nextId[s] /\ clients'[s] = clients[s]
    BY <1>4, <2>1 DEF InputAttach
  <2>3. \A i \in Inputs : i # j => cid'[i] = cid[i] /\ pc'[i] = pc[i]
    BY <1>0, <1>4 DEF InputAttach
  <2> QED  BY <1>2, <2>1, <2>2, <2>3
<1>5. ASSUME NEW j \in Inputs, InputChanged(j) \/ InputWsClosed(j)
      PROVE  Counted(s)'
  <2>1. UNCHANGED <<connects, on, cid, clients, nextId>>
    BY <1>5 DEF InputChanged, InputWsClosed, streamVars
  <2>2. pc[j] \in Served /\ (UNCHANGED pc \/ \E l : GoTo(j, l))
    BY <1>5 DEF InputChanged, InputWsClosed, Served
  <2>3. \A i \in Inputs : pc'[i] \in Served => pc[i] \in Served
    BY <1>0, <2>2
  <2> QED  BY <1>2, <2>1, <2>3
<1>6. ASSUME NEW j \in Inputs, InputDetach(j) \/ InputLeave(j)
      PROVE  Counted(s)'
  <2>1. /\ UNCHANGED <<connects, nextId>>
        /\ clients' = [clients EXCEPT ![on[j]][cid[j]] = NoConn]
        /\ on' = [on EXCEPT ![j] = NoStream]
        /\ cid' = [cid EXCEPT ![j] = 0]
        /\ pc[j] \in Served
        /\ \A i \in Inputs : i # j => pc'[i] = pc[i]
    BY <1>0, <1>6 DEF InputDetach, InputLeave, Close, Served
  <2>2. clients[on[j]][cid[j]] = j \/ on[j] # s
    BY <2>1 DEF Counted
  <2>3. ASSUME NEW i \in Inputs, on'[i] = s, pc'[i] \in Served
        PROVE  /\ on[i] = s /\ pc[i] \in Served /\ cid'[i] = cid[i]
               /\ clients[s][cid[i]] = i => clients'[s][cid[i]] = i
    <3>1. i # j
      BY <2>1, <2>3 DEF Streams, NoStream
    <3>2. on[i] = s /\ pc[i] \in Served /\ cid'[i] = cid[i]
      BY <2>1, <2>3, <3>1
    <3>3. ASSUME clients[s][cid[i]] = i
          PROVE  on[j] # s \/ cid[j] # cid[i]
      BY <2>2, <3>1, <3>3
    <3>4. ASSUME clients[s][cid[i]] = i
          PROVE  clients'[s][cid[i]] = i
      BY <2>1, <3>3, <3>4
    <3> QED  BY <3>2, <3>4
  <2> QED  BY <1>2, <2>1, <2>3
<1>7. CASE Elsewhere
  <2>1. ASSUME NEW i \in Inputs, on'[i] = s, pc'[i] \in Served
        PROVE  /\ on[i] = s /\ pc[i] \in Served /\ cid'[i] = cid[i]
               /\ clients'[s][cid[i]] = clients[s][cid[i]]
    <3>1. on[i] = s /\ pc[i] \in Served /\ cid'[i] = cid[i]
      BY <1>7, <2>1 DEF Elsewhere, Served, HasStream
    <3>2. cid[i] \in ClientIds \ {0}
      BY <3>1 DEF PrimaryIdInv
    <3> QED  BY <1>7, <3>1, <3>2 DEF Elsewhere
  <2>2. nextId'[s] = nextId[s] /\ UNCHANGED connects
    BY <1>7 DEF Elsewhere
  <2> QED  BY <1>2, <2>1, <2>2
<1> QED  BY <1>3, <1>4, <1>5, <1>6, <1>7, ClientSteps

\* The steps that change the client map of a stream.
LEMMA MapSteps ==
    ASSUME [Next]_vars
    PROVE  \/ \E d, w : SpawnStreamer(d, w)
           \/ \E s \in Streams : RouterClosePrimary(s)
           \/ \E i \in Inputs : InputAttach(i) \/ InputDetach(i) \/ InputLeave(i)
           \/ UNCHANGED clients
<1> USE DEF streamVars
<1>1. ASSUME NEW c \in Conns, Connect(c) \/ BrowserClose(c) \/ Reject(c)
      PROVE  UNCHANGED clients
  BY <1>1 DEF Connect, BrowserClose, Reject
<1>2. ASSUME NEW p \in Primaries, PrimaryStep(p)
      PROVE  (\E d, w : SpawnStreamer(d, w)) \/ UNCHANGED clients
  BY <1>2 DEF PrimaryStep, PrimaryAdmit, PrimaryAppFound, PrimaryNoApp,
     PrimaryQueue, PrimaryLock, PrimaryStopExisting, PrimaryStopped,
     PrimaryStopTimeout, PrimarySpawn, PrimarySpawnFails, PrimaryRelayEnds,
     PrimaryKill
<1>3. ASSUME NEW i \in Inputs, InputStep(i)
      PROVE  \/ InputAttach(i) \/ InputDetach(i) \/ InputLeave(i)
             \/ (\E d, w : SpawnStreamer(d, w)) \/ UNCHANGED clients
  BY <1>3 DEF InputStep, InputSubscribe, PlaceholderPrecheck, PlaceholderLock,
     PlaceholderRecheck, PlaceholderNoGame, PlaceholderGame, PlaceholderSpawn,
     PlaceholderSpawnFails, InputFindsStream, InputWaits, InputGivesUp,
     InputChanged, InputWsClosed
<1>4. ASSUME NEW s \in Streams, RouterStep(s) \/ SupervisorStep(s) \/ StreamerStep(s)
      PROVE  RouterClosePrimary(s) \/ UNCHANGED clients
  BY <1>4 DEF RouterStep, RouterClear, SupervisorStep, SupervisorSeesExit,
     SupervisorSeesClients, SupervisorSeesEmpty, SupervisorKill, StreamerStep,
     StreamerObeysStop, StreamerEnds, StreamerExits, StreamerCrash
<1>5. CASE DeleteHost \/ Finished \/ UNCHANGED vars
  BY <1>5 DEF DeleteHost, Finished, vars
<1> QED  BY <1>1, <1>2, <1>3, <1>4, <1>5 DEF Next

LEMMA EndedPreserved ==
    ASSUME BaseInv, EndedInv, [Next]_vars, hostPresent
    PROVE  EndedInv'
<1>a. spawned \in Nat /\ active' \in {active, NoStream, spawned + 1}
  BY SlotMoves
<1> USE LifecycleAssumption DEF Conns, BaseInv, TypeOK
<1>0. ASSUME NEW c \in Conns, NEW l, GoTo(c, l), NEW i \in Inputs
      PROVE  pc'[i] = IF c = i THEN l ELSE pc[i]
  BY <1>0 DEF GoTo, PcTypeOK
<1> SUFFICES ASSUME NEW i \in Inputs, pc'[i] = "ended"
             PROVE  active' # on'[i]
  BY DEF EndedInv
<1>1. ASSUME pc[i] \in Served, on'[i] = on[i], active # on[i]
      PROVE  active' # on'[i]
  <2>1. on[i] \in Nat /\ on[i] # NoStream /\ on[i] <= spawned
    BY <1>1 DEF Served, OnInv, HasStream, Streams, NoStream
  <2> QED  BY <1>1, <1>a, <2>1 DEF Streams, NoStream
<1>2. CASE on'[i] = on[i] /\ pc[i] = "ended"
  BY <1>1, <1>2 DEF EndedInv, Served
<1>3. ASSUME NEW c \in Conns, Connect(c)
      PROVE  active' # on'[i]
  BY <1>0, <1>2, <1>3 DEF Connect
<1>4. ASSUME NEW j \in Inputs, InputFindsStream(j) \/ InputAttach(j) \/ InputWsClosed(j)
      PROVE  active' # on'[i]
  BY <1>0, <1>2, <1>4 DEF InputFindsStream, InputAttach, InputWsClosed
<1>5. ASSUME NEW j \in Inputs, InputChanged(j)
      PROVE  active' # on'[i]
  <2>1. CASE pc[i] = "ended"
    BY <1>2, <1>5, <2>1 DEF InputChanged
  <2>2. CASE pc[i] # "ended"
    <3>1. j = i /\ pc[i] = "attached" /\ active = NoStream /\ UNCHANGED on
      BY <1>0, <1>5, <2>2 DEF InputChanged
    <3>2. active # on[i]
      BY <3>1 DEF OnInv, HasStream
    <3> QED  BY <1>1, <3>1, <3>2 DEF Served
  <2> QED  BY <2>1, <2>2
<1>6. ASSUME NEW j \in Inputs, InputDetach(j) \/ InputLeave(j)
      PROVE  active' # on'[i]
  <2>1. j # i
    <3>1. \E l : l # "ended" /\ GoTo(j, l)
      BY <1>6 DEF InputDetach, InputLeave, Close
    <3> QED  BY <1>0, <3>1
  <2>2. pc'[i] = pc[i]
    <3>1. \E l : GoTo(j, l)
      BY <1>6 DEF InputDetach, InputLeave, Close
    <3> QED  BY <1>0, <2>1, <3>1
  <2>3. on'[i] = on[i]
    BY <1>6, <2>1 DEF InputDetach, InputLeave
  <2> QED  BY <1>2, <2>2, <2>3
<1>7. CASE Elsewhere
  BY <1>2, <1>7 DEF Elsewhere, HasStream
<1> QED  BY <1>3, <1>4, <1>5, <1>6, <1>7, ClientSteps

\* Only a spawn makes a stream routed, and a primary connection comes to own
\* one only by its spawn.
LEMMA PrimaryIdPreserved ==
    ASSUME BaseInv, IdleInv, PrimaryIdInv, [Next]_vars
    PROVE  PrimaryIdInv'
<1> USE LifecycleAssumption DEF Conns, BaseInv, TypeOK
<1>0. ASSUME NEW c \in Conns, NEW l, GoTo(c, l), NEW d \in Conns
      PROVE  pc'[d] = IF c = d THEN l ELSE pc[d]
  BY <1>0 DEF GoTo, PcTypeOK
<1>1. ASSUME NEW i \in Inputs, pc'[i] \in Served
      PROVE  cid'[i] # 0
  <2>1. CASE cid'[i] = cid[i] /\ pc[i] \in Served
    BY <2>1 DEF PrimaryIdInv
  <2>2. ASSUME NEW c \in Conns, Connect(c)
        PROVE  cid'[i] # 0
    BY <1>0, <1>1, <2>1, <2>2 DEF Connect, Served
  <2>3. ASSUME NEW j \in Inputs, InputFindsStream(j) \/ InputChanged(j) \/ InputWsClosed(j)
        PROVE  cid'[i] # 0
    BY <1>0, <1>1, <2>1, <2>3 DEF InputFindsStream, InputChanged, InputWsClosed, Served
  <2>4. ASSUME NEW j \in Inputs, InputAttach(j)
        PROVE  cid'[i] # 0
    <3>1. on[j] \in Streams
      BY <2>4 DEF InputAttach, OnInv, HasStream
    <3>2. nextId[on[j]] # 0
      BY <3>1
    <3> QED  BY <1>0, <1>1, <2>1, <2>4, <3>2 DEF InputAttach
  <2>5. ASSUME NEW j \in Inputs, InputDetach(j) \/ InputLeave(j)
        PROVE  cid'[i] # 0
    BY <1>0, <1>1, <2>1, <2>5 DEF InputDetach, InputLeave, Close, Served
  <2>6. CASE Elsewhere
    BY <1>1, <2>1, <2>6 DEF Elsewhere, Served, HasStream
  <2> QED  BY <2>2, <2>3, <2>4, <2>5, <2>6, ClientSteps
<1>2. ASSUME NEW p \in Primaries, pc'[p] \in {"relaying", "grace"},
             router'[on'[p]] = "routing"
      PROVE  clients'[on'[p]][0] = p
  <2>1. CASE PrimarySpawn(p)
    <3>1. SpawnStreamer(p, "none") /\ on'[p] = spawned + 1
      BY <2>1 DEF PrimarySpawn, SpawnStreamer
    <3>2. spawned + 1 \in Streams /\ clients' = [clients EXCEPT ![spawned + 1][0] = p]
      BY <3>1, SpawnTyped DEF SpawnStreamer, SpawnedTypeOK
    <3> QED  BY <3>1, <3>2 DEF ClientIds
  <2>2. CASE ~PrimarySpawn(p)
    <3>1. pc[p] \in {"relaying", "grace"} /\ on'[p] = on[p]
      <4>1. ASSUME NEW q \in Primaries, PrimaryStep(q)
            PROVE  pc[p] \in {"relaying", "grace"} /\ on'[p] = on[p]
        <5>1. CASE q = p
          BY <1>0, <1>2, <2>2, <4>1, <5>1
             DEF PrimaryStep, PrimaryAdmit, PrimaryAppFound, PrimaryNoApp,
                 PrimaryQueue, PrimaryLock, PrimaryStopExisting, PrimaryStopped,
                 PrimaryStopTimeout, PrimarySpawnFails, PrimaryRelayEnds,
                 PrimaryKill, Close, connVars
        <5>2. CASE q # p
          <6>1. \E l : GoTo(q, l)
            BY <4>1 DEF PrimaryStep, PrimaryAdmit, PrimaryAppFound, PrimaryNoApp,
               PrimaryQueue, PrimaryLock, PrimaryStopExisting, PrimaryStopped,
               PrimaryStopTimeout, PrimarySpawn, PrimarySpawnFails,
               PrimaryRelayEnds, PrimaryKill, Close
          <6>2. on' = on \/ \E o : on' = [on EXCEPT ![q] = o]
            BY <4>1 DEF PrimaryStep, PrimaryAdmit, PrimaryAppFound, PrimaryNoApp,
               PrimaryQueue, PrimaryLock, PrimaryStopExisting, PrimaryStopped,
               PrimaryStopTimeout, PrimarySpawn, PrimarySpawnFails,
               PrimaryRelayEnds, PrimaryKill, connVars
          <6> QED  BY <1>0, <1>2, <5>2, <6>1, <6>2
        <5> QED  BY <5>1, <5>2
      <4>2. ASSUME NEW j \in Inputs, InputStep(j)
            PROVE  pc'[p] = pc[p] /\ on'[p] = on[p]
        <5>1. UNCHANGED pc \/ \E l : GoTo(j, l)
          BY <4>2
             DEF InputStep, InputSubscribe, PlaceholderPrecheck, PlaceholderLock,
                 PlaceholderRecheck, PlaceholderNoGame, PlaceholderGame,
                 PlaceholderSpawn, PlaceholderSpawnFails, InputFindsStream,
                 InputWaits, InputGivesUp, InputAttach, InputChanged, InputWsClosed,
                 InputDetach, InputLeave, Close, connVars
        <5>2. on' = on \/ \E o : on' = [on EXCEPT ![j] = o]
          BY <4>2
             DEF InputStep, InputSubscribe, PlaceholderPrecheck, PlaceholderLock,
                 PlaceholderRecheck, PlaceholderNoGame, PlaceholderGame,
                 PlaceholderSpawn, PlaceholderSpawnFails, InputFindsStream,
                 InputWaits, InputGivesUp, InputAttach, InputChanged, InputWsClosed,
                 InputDetach, InputLeave, Close, connVars
        <5>3. p # j
          OBVIOUS
        <5> QED  BY <1>0, <5>1, <5>2, <5>3
      <4>3. ASSUME NEW c \in Conns, Connect(c) \/ Reject(c)
            PROVE  pc[p] \in {"relaying", "grace"} /\ on'[p] = on[p]
        BY <1>0, <1>2, <4>3 DEF Connect, Reject, Close
      <4> QED  BY <1>2, <4>1, <4>2, <4>3, TaskSteps
    <3>2. on[p] \in Streams /\ on[p] <= spawned
      BY <3>1 DEF OnInv, HasStream
    <3>3. router[on[p]] = "routing"
      <4>1. ASSUME NEW d, NEW w, SpawnStreamer(d, w)
            PROVE  router'[on[p]] = router[on[p]]
        BY <3>2, <4>1 DEF SpawnStreamer, Streams
      <4>2. ASSUME NEW t \in Streams, RouterClear(t) \/ RouterClosePrimary(t)
            PROVE  router'[on[p]] = router[on[p]] \/ router'[on[p]] # "routing"
        BY <3>2, <4>2 DEF RouterClear, RouterClosePrimary
      <4> QED  BY <1>2, <3>1, <4>1, <4>2, RouterSteps DEF FilledBy
    <3>4. clients[on[p]][0] = p
      BY <3>1, <3>3 DEF PrimaryIdInv
    <3>5. clients'[on[p]][0] = clients[on[p]][0]
      <4>1. ASSUME NEW d, NEW w, SpawnStreamer(d, w)
            PROVE  clients'[on[p]] = clients[on[p]]
        BY <3>2, <4>1 DEF SpawnStreamer, Streams
      <4>2. ASSUME NEW t \in Streams, RouterClosePrimary(t)
            PROVE  clients'[on[p]] = clients[on[p]]
        <5>1. on[p] # t
          BY <1>2, <3>1, <4>2 DEF RouterClosePrimary
        <5> QED  BY <3>2, <4>2, <5>1 DEF RouterClosePrimary
      <4>3. ASSUME NEW j \in Inputs, InputAttach(j) \/ InputDetach(j) \/ InputLeave(j)
            PROVE  clients'[on[p]][0] = clients[on[p]][0]
        <5>1. \E t \in Streams, k \in ClientIds \ {0} : \E x :
                clients' = [clients EXCEPT ![t][k] = x]
          <6>1. on[j] \in Streams
            BY <4>3 DEF InputAttach, InputDetach, InputLeave, OnInv, HasStream
          <6>2. CASE InputAttach(j)
            <7>1. nextId[on[j]] \in ClientIds \ {0}
              BY <6>1 DEF ClientIds
            <7> QED  BY <6>1, <6>2, <7>1 DEF InputAttach
          <6>3. CASE InputDetach(j) \/ InputLeave(j)
            <7>1. cid[j] \in ClientIds \ {0}
              BY <6>3 DEF InputDetach, InputLeave, PrimaryIdInv, Served
            <7> QED  BY <6>1, <6>3, <7>1 DEF InputDetach, InputLeave
          <6> QED  BY <4>3, <6>2, <6>3
        <5> QED  BY <3>2, <5>1
      <4>4. CASE UNCHANGED clients
        BY <4>4
      <4> QED  BY <4>1, <4>2, <4>3, <4>4, MapSteps
    <3> QED  BY <3>1, <3>4, <3>5
  <2> QED  BY <2>1, <2>2
<1> QED  BY <1>1, <1>2 DEF PrimaryIdInv

LEMMA ReachPreserved ==
    ASSUME BaseInv, IdleInv, ReachInv, [Next]_vars, MaxConnects <= MaxClientId
    PROVE  ReachInv'
<1>1. PrimaryIdInv'
  BY PrimaryIdPreserved DEF ReachInv
<1>2. ASSUME hostPresent'
      PROVE  EndedInv' /\ \A s \in Streams : Counted(s)'
  <2>1. hostPresent /\ EndedInv /\ PrimaryIdInv
    BY <1>2, HostStays DEF ReachInv
  <2>2. EndedInv'
    BY <2>1, EndedPreserved
  <2>3. ASSUME NEW s \in Streams
        PROVE  Counted(s)'
    <3>1. Counted(s)
      BY <2>1 DEF ReachInv
    <3> QED  BY <2>1, <3>1, ConnectCounts, AttachCounts, OthersCount
  <2> QED  BY <2>2, <2>3
<1> QED  BY <1>1, <1>2 DEF ReachInv

\* As long as client ids do not wrap, the ids of the clients of a stream are those it has given
\* out (run_attach_input, stream.rs:1025-1035).
THEOREM ReachSafe ==
    ASSUME MaxConnects <= MaxClientId
    PROVE  Spec => []ReachInv
<1>1. Init => ReachInv
  <2> SUFFICES ASSUME Init
               PROVE  ReachInv
    OBVIOUS
  <2> USE LifecycleAssumption DEF Init, Conns
  <2>1. PrimaryIdInv /\ EndedInv
    BY DEF PrimaryIdInv, EndedInv, Served
  <2>2. ASSUME NEW s \in Streams
        PROVE  Counted(s)
    <3>1. Joinable(s) = {}
      BY DEF Joinable, Streams
    <3>2. IsFiniteSet(Joinable(s)) /\ Cardinality(Joinable(s)) = 0
      BY <3>1, FS_EmptySet
    <3>3. /\ 0 \in 0..MaxConnects /\ 0 + Cardinality(Joinable(s)) <= connects
          /\ nextId[s] = IF 0 = MaxClientId THEN 1 ELSE 0 + 1
      BY <3>2
    <3>4. \A i \in Inputs : pc[i] \notin Served
      BY DEF Served
    <3> HIDE LifecycleAssumption DEF Init
    <3> QED  BY <3>2, <3>3, <3>4 DEF Counted
  <2> QED  BY <2>1, <2>2 DEF ReachInv
<1>2. Init => IdleInv
  BY DEF Init, IdleInv, Conns
<1>3. BaseInv /\ IdleInv /\ ReachInv /\ [Next]_vars => ReachInv'
  BY ReachPreserved
<1>4. QED  BY <1>1, <1>2, <1>3, IdlePreserved, TypeCorrect, PTL DEF Spec

\* As long as fewer WebSockets are opened than there are client ids (u32::MAX),
\* a reply for an attached client, or for the primary of a routed stream, finds
\* that client under its id (ActiveStream::clients in data.rs and the router
\* task in stream.rs).
THEOREM ClientsReached ==
    ASSUME MaxConnects <= MaxClientId
    PROVE  Spec => []ClientsAreReached
<1>1. BaseInv /\ ReachInv => ClientsAreReached
  <2> SUFFICES ASSUME BaseInv, ReachInv
               PROVE  ClientsAreReached
    OBVIOUS
  <2>1. ASSUME hostPresent, NEW i \in Inputs, pc[i] = "attached"
        PROVE  clients[on[i]][cid[i]] = i
    <3>1. on[i] \in Streams
      BY <2>1 DEF BaseInv, TypeOK, OnInv, HasStream, Conns
    <3>2. Counted(on[i])
      BY <2>1, <3>1 DEF ReachInv
    <3> QED  BY <2>1, <3>2 DEF Counted, Served
  <2> QED  BY <2>1 DEF ClientsAreReached, ReachInv, PrimaryIdInv
<1>2. QED  BY <1>1, ReachSafe, TypeCorrect, PTL

=============================================================================
