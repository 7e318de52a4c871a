--------------------------- MODULE StreamerProofs ---------------------------
(***************************************************************************)
(* What holds of the streamer process (Streamer) and of the connection     *)
(* library it calls (MoonlightConnection), for every value of their        *)
(* constants.                                                              *)
(***************************************************************************)
EXTENDS Streamer, MoonlightConnection, TLAPS

-----------------------------------------------------------------------------
(***************************************************************************)
(* The streamer, for every set of input-only clients: the calls of stop()  *)
(* tear the Moonlight connection down once, and no input peer is lost      *)
(* between the map and the tasks that close it.                            *)
(***************************************************************************)

\* The stream is in connection.stream, or in the hands of the call of stop()
\* that took it, or was never stored.
TakenInv ==
    /\ stream => session = "up"
    /\ \A t \in Stoppers : at[t] = "dropping" => took[t]
    /\ \A t \in Stoppers : took[t] => /\ ~stream
                                      /\ \/ at[t] = "drop" /\ session = "up"
                                         \/ at[t] = "dropping" /\ session = "stopping"
    /\ \A t, u \in Stoppers : took[t] /\ took[u] => t = u
    /\ at["start"] \in {"none", "connect", "store"} =>
         ~stream /\ \A t \in Stoppers : ~took[t]
    /\ at["start"] = "store" => session = "up"
    /\ main = "setup" => at["start"] = "none"

\* Peers are being closed only where the code awaits their close(), and the IPC
\* loop knows the client it works for.
ClosingInv ==
    /\ \A t \in Tasks : closing[t] # {} => at[t] \in {"closeAll", "close"}
    /\ at["ipc"] \in {"insert", "remove"} => arg \in Clients

Inv == TypeOK /\ TakenInv /\ ClosingInv /\ NoPeerLost

LEMMA TaskFacts ==
    /\ "ipc" \in Stoppers /\ "start" \in Stoppers /\ "peer" \in Stoppers
    /\ \A t \in Stoppers : t \in Tasks /\ t \notin Clients
    /\ \A c \in Clients : c \in Tasks /\ c \notin Stoppers
    /\ \A t \in Handlers \cup {"ipc"} : t \in Tasks
    /\ NoTask \notin Tasks
BY StreamerAssumption DEF Stoppers, Tasks, Handlers

LEMMA InitInv == Init => Inv
<1> SUFFICES ASSUME Init PROVE Inv
  OBVIOUS
<1>1. TypeOK
  BY TaskFacts DEF Init, TypeOK, Labels
<1>2. TakenInv /\ ClosingInv /\ NoPeerLost
  BY TaskFacts DEF Init, TakenInv, ClosingInv, NoPeerLost
<1> QED  BY <1>1, <1>2 DEF Inv

\* A task that goes to a label leaves the places of the others alone.
LEMMA Moves ==
    ASSUME TypeOK, NEW t \in Tasks, NEW l \in Labels, Goto(t, l)
    PROVE  /\ at' \in [Tasks -> Labels]
           /\ at'[t] = l
           /\ \A u \in Tasks : u # t => at'[u] = at[u]
BY DEF TypeOK, Goto

LEMMA LabelFacts ==
    {"idle", "returned", "connect", "store", "take", "drop", "dropping", "drain",
     "closeAll", "tell", "notify", "insert", "remove", "close"} \subseteq Labels
BY DEF Labels

-----------------------------------------------------------------------------
(* Each step keeps the invariant *)

LEMMA MainInv == ASSUME Inv, MainStep PROVE Inv'
<1> USE TaskFacts, LabelFacts DEF streamVars, peerVars
<1>0. TypeOK /\ TakenInv /\ ClosingInv /\ NoPeerLost
  BY DEF Inv
<1>1. CASE MainSpawnsStart
  <2>1. /\ at' \in [Tasks -> Labels] /\ at'["start"] = "connect"
        /\ \A u \in Tasks : u # "start" => at'[u] = at[u]
    BY <1>0, <1>1, Moves DEF MainSpawnsStart
  <2>2. TypeOK'
    BY <1>0, <1>1, <2>1 DEF MainSpawnsStart, TypeOK
  <2>3. TakenInv'
    BY <1>0, <1>1, <2>1 DEF MainSpawnsStart, TakenInv
  <2>4. ClosingInv' /\ NoPeerLost'
    BY <1>0, <1>1, <2>1 DEF MainSpawnsStart, TakenInv, ClosingInv, NoPeerLost
  <2> QED  BY <2>2, <2>3, <2>4 DEF Inv
<1>2. CASE MainWaits
  BY <1>0, <1>2 DEF MainWaits, Inv, TypeOK, TakenInv, ClosingInv, NoPeerLost
<1>3. CASE MainExits
  <2>1. TypeOK'
    BY <1>0, <1>3 DEF MainExits, TypeOK
  <2>2. TakenInv' /\ ClosingInv' /\ NoPeerLost'
    BY <1>3 DEF MainExits, TakenInv, ClosingInv, NoPeerLost
  <2> QED  BY <2>1, <2>2 DEF Inv
<1> QED  BY <1>1, <1>2, <1>3 DEF MainStep

LEMMA StartInv == ASSUME Inv, StartStep PROVE Inv'
<1> USE TaskFacts, LabelFacts DEF streamVars, peerVars, procVars
<1>0. TypeOK /\ TakenInv /\ ClosingInv /\ NoPeerLost
  BY DEF Inv
<1>1. CASE StartConnects
  BY <1>0, <1>1 DEF StartConnects, Inv, TypeOK, TakenInv, ClosingInv, NoPeerLost
<1>2. CASE StartSucceeds \/ StartFails \/ StartStores
  <2>1. /\ at' \in [Tasks -> Labels] /\ at'["start"] \in {"store", "take", "returned"}
        /\ \A u \in Tasks : u # "start" => at'[u] = at[u]
    BY <1>0, <1>2, Moves DEF StartSucceeds, StartFails, StartStores
  <2>2. at["start"] \in {"connect", "store"}
    BY <1>2 DEF StartSucceeds, StartFails, StartStores
  <2>3. TypeOK'
    BY <1>0, <1>2, <2>1 DEF StartSucceeds, StartFails, StartStores, TypeOK
  <2>4. TakenInv'
    <3>1. CASE StartSucceeds
      <4>1. at'["start"] = "store"
        BY <1>0, <3>1, Moves DEF StartSucceeds
      <4> QED  BY <1>0, <2>1, <2>2, <3>1, <4>1 DEF StartSucceeds, TakenInv
    <3>2. CASE StartFails
      <4>1. at'["start"] = "take"
        BY <1>0, <3>2, Moves DEF StartFails
      <4> QED  BY <1>0, <2>1, <2>2, <3>2, <4>1 DEF StartFails, TakenInv
    <3>3. CASE StartStores
      <4>1. at'["start"] = "returned"
        BY <1>0, <3>3, Moves DEF StartStores
      <4> QED  BY <1>0, <2>1, <2>2, <3>3, <4>1 DEF StartStores, TakenInv
    <3> QED  BY <1>2, <3>1, <3>2, <3>3
  <2>5. ClosingInv' /\ NoPeerLost'
    BY <1>0, <1>2, <2>1, <2>2
    DEF StartSucceeds, StartFails, StartStores, ClosingInv, NoPeerLost
  <2> QED  BY <2>3, <2>4, <2>5 DEF Inv
<1> QED  BY <1>1, <1>2 DEF StartStep

LEMMA PeerInv == ASSUME Inv, PeerFails \/ PeerConnects PROVE Inv'
<1> USE TaskFacts, LabelFacts DEF streamVars, peerVars, procVars
<1>0. TypeOK /\ TakenInv /\ ClosingInv /\ NoPeerLost
  BY DEF Inv
<1>1. CASE UNCHANGED at
  <2>1. UNCHANGED <<main, at, streamVars, peerVars>> /\ restarted' \in BOOLEAN
    BY <1>0, <1>1 DEF PeerFails, PeerConnects, TypeOK
  <2>2. TypeOK'
    BY <1>0, <2>1 DEF TypeOK
  <2>3. TakenInv' /\ ClosingInv' /\ NoPeerLost'
    BY <1>0, <2>1 DEF TakenInv, ClosingInv, NoPeerLost
  <2> QED  BY <2>2, <2>3 DEF Inv
<1>2. CASE Goto("peer", "take")
  <2>1. /\ at' \in [Tasks -> Labels] /\ at'["peer"] = "take" /\ at["peer"] = "idle"
        /\ \A u \in Tasks : u # "peer" => at'[u] = at[u]
    BY <1>0, <1>2, Moves DEF PeerFails, PeerConnects
  <2>2. TypeOK'
    BY <1>0, <2>1 DEF PeerFails, PeerConnects, TypeOK
  <2>3. TakenInv' /\ ClosingInv' /\ NoPeerLost'
    BY <1>0, <2>1
    DEF PeerFails, PeerConnects, TakenInv, ClosingInv, NoPeerLost
  <2> QED  BY <2>2, <2>3 DEF Inv
<1> QED  BY <1>1, <1>2 DEF PeerFails, PeerConnects

LEMMA StopInv == ASSUME Inv, NEW t \in Stoppers, StopStep(t) PROVE Inv'
<1> USE TaskFacts, LabelFacts DEF streamVars, peerVars, procVars
<1>0. TypeOK /\ TakenInv /\ ClosingInv /\ NoPeerLost
  BY DEF Inv
<1>1. CASE StopTakes(t)
  <2>1. /\ at' \in [Tasks -> Labels] /\ at'[t] = "drop" /\ at[t] = "take"
        /\ \A u \in Tasks : u # t => at'[u] = at[u]
    BY <1>0, <1>1, Moves DEF StopTakes
  <2>2. /\ took' \in [Stoppers -> BOOLEAN] /\ took'[t] = stream
        /\ \A u \in Stoppers : u # t => took'[u] = took[u]
    BY <1>0, <1>1 DEF StopTakes, TypeOK
  <2>3. TypeOK'
    BY <1>0, <1>1, <2>1, <2>2 DEF StopTakes, TypeOK
  <2>4. TakenInv'
    BY <1>0, <1>1, <2>1, <2>2 DEF StopTakes, TakenInv
  <2>5. ClosingInv' /\ NoPeerLost'
    BY <1>0, <1>1, <2>1 DEF StopTakes, ClosingInv, NoPeerLost
  <2> QED  BY <2>3, <2>4, <2>5 DEF Inv
<1>2. CASE StopDrops(t)
  <2>1. /\ at' \in [Tasks -> Labels] /\ at[t] = "drop"
        /\ at'[t] = IF took[t] THEN "dropping" ELSE "drain"
        /\ \A u \in Tasks : u # t => at'[u] = at[u]
    BY <1>0, <1>2, Moves DEF StopDrops
  <2>2. TypeOK'
    BY <1>0, <1>2, <2>1 DEF StopDrops, TypeOK
  <2>3. TakenInv'
    BY <1>0, <1>2, <2>1 DEF StopDrops, TakenInv
  <2>4. ClosingInv' /\ NoPeerLost'
    BY <1>0, <1>2, <2>1 DEF StopDrops, ClosingInv, NoPeerLost
  <2> QED  BY <2>2, <2>3, <2>4 DEF Inv
<1>3. CASE StopDropped(t)
  <2>1. /\ at' \in [Tasks -> Labels] /\ at[t] = "dropping" /\ at'[t] = "drain"
        /\ \A u \in Tasks : u # t => at'[u] = at[u]
    BY <1>0, <1>3, Moves DEF StopDropped
  <2>2. /\ took' \in [Stoppers -> BOOLEAN] /\ ~took'[t]
        /\ \A u \in Stoppers : u # t => took'[u] = took[u]
    BY <1>0, <1>3 DEF StopDropped, TypeOK
  <2>3. TypeOK'
    BY <1>0, <1>3, <2>1, <2>2 DEF StopDropped, TypeOK
  <2>4. TakenInv'
    BY <1>0, <1>3, <2>1, <2>2 DEF StopDropped, TakenInv
  <2>5. ClosingInv' /\ NoPeerLost'
    BY <1>0, <1>3, <2>1 DEF StopDropped, ClosingInv, NoPeerLost
  <2> QED  BY <2>3, <2>4, <2>5 DEF Inv
<1>4. CASE StopDrains(t)
  <2>1. /\ at' \in [Tasks -> Labels] /\ at[t] = "drain" /\ at'[t] = "closeAll"
        /\ \A u \in Tasks : u # t => at'[u] = at[u]
    BY <1>0, <1>4, Moves DEF StopDrains
  <2>2. /\ closing' \in [Tasks -> SUBSET Clients] /\ closing'[t] = peers /\ closing[t] = {}
        /\ \A u \in Tasks : u # t => closing'[u] = closing[u]
    BY <1>0, <1>4 DEF StopDrains, TypeOK, ClosingInv
  <2>3. TypeOK'
    BY <1>0, <1>4, <2>1, <2>2 DEF StopDrains, TypeOK
  <2>4. TakenInv' /\ ClosingInv'
    BY <1>0, <1>4, <2>1, <2>2 DEF StopDrains, TakenInv, ClosingInv
  <2>5. NoPeerLost'
    BY <1>0, <1>4, <2>1, <2>2 DEF StopDrains, NoPeerLost
  <2> QED  BY <2>3, <2>4, <2>5 DEF Inv
<1>5. CASE StopClosed(t) \/ StopTells(t) \/ StopNotifies(t)
  <2>1. /\ at' \in [Tasks -> Labels] /\ at[t] \in {"closeAll", "tell", "notify"}
        /\ at'[t] \in {"tell", "notify", "returned"}
        /\ closing[t] = {}
        /\ \A u \in Tasks : u # t => at'[u] = at[u]
    BY <1>0, <1>5, Moves DEF StopClosed, StopTells, StopNotifies, ClosingInv
  <2>2. TypeOK'
    BY <1>0, <1>5, <2>1 DEF StopClosed, StopTells, StopNotifies, TypeOK
  <2>3. TakenInv'
    BY <1>0, <1>5, <2>1 DEF StopClosed, StopTells, StopNotifies, TakenInv
  <2>4. ClosingInv' /\ NoPeerLost'
    BY <1>0, <1>5, <2>1 DEF StopClosed, StopTells, StopNotifies, ClosingInv, NoPeerLost
  <2> QED  BY <2>2, <2>3, <2>4 DEF Inv
<1> QED  BY <1>1, <1>2, <1>3, <1>4, <1>5 DEF StopStep

LEMMA AttachInv == ASSUME Inv, AttachCreates \/ AttachInserts PROVE Inv'
<1> USE TaskFacts, LabelFacts DEF streamVars, peerVars, procVars
<1>0. TypeOK /\ TakenInv /\ ClosingInv /\ NoPeerLost
  BY DEF Inv
<1>1. CASE AttachCreates
  <2>1. /\ at' \in [Tasks -> Labels] /\ at["ipc"] = "idle" /\ at'["ipc"] = "insert"
        /\ \A u \in Tasks : u # "ipc" => at'[u] = at[u]
    BY <1>0, <1>1, Moves DEF AttachCreates
  <2>2. PICK c \in Clients : /\ server' = [server EXCEPT ![c] = "attached"]
                             /\ open' = open \cup {c} /\ arg' = c
    BY <1>1 DEF AttachCreates
  <2>3. TypeOK'
    BY <1>0, <1>1, <2>1, <2>2 DEF AttachCreates, TypeOK
  <2>4. TakenInv' /\ ClosingInv'
    BY <1>0, <1>1, <2>1, <2>2 DEF AttachCreates, TakenInv, ClosingInv
  <2>5. NoPeerLost'
    BY <1>0, <1>1, <2>1, <2>2 DEF AttachCreates, NoPeerLost
  <2> QED  BY <2>3, <2>4, <2>5 DEF Inv
<1>2. CASE AttachInserts
  <2>1. /\ at' \in [Tasks -> Labels] /\ at["ipc"] = "insert" /\ at'["ipc"] = "idle"
        /\ \A u \in Tasks : u # "ipc" => at'[u] = at[u]
    BY <1>0, <1>2, Moves DEF AttachInserts
  <2>2. TypeOK'
    BY <1>0, <1>2, <2>1 DEF AttachInserts, TypeOK, ClosingInv
  <2>3. TakenInv' /\ ClosingInv'
    BY <1>0, <1>2, <2>1 DEF AttachInserts, TakenInv, ClosingInv
  <2>4. NoPeerLost'
    BY <1>0, <1>2, <2>1 DEF AttachInserts, NoPeerLost
  <2> QED  BY <2>2, <2>3, <2>4 DEF Inv
<1> QED  BY <1>1, <1>2

LEMMA IpcInv == ASSUME Inv, DetachAsked \/ StopAsked \/ IpcEnds PROVE Inv'
<1> USE TaskFacts, LabelFacts DEF streamVars, peerVars, procVars
<1>0. TypeOK /\ TakenInv /\ ClosingInv /\ NoPeerLost
  BY DEF Inv
<1>1. /\ at' \in [Tasks -> Labels] /\ at["ipc"] = "idle"
      /\ at'["ipc"] \in {"remove", "take", "returned"}
      /\ \A u \in Tasks : u # "ipc" => at'[u] = at[u]
  BY <1>0, Moves DEF DetachAsked, StopAsked, IpcEnds
<1>2. arg' \in Clients \cup {NoTask} /\ (at'["ipc"] = "remove" => arg' \in Clients)
  <2>1. CASE DetachAsked
    BY <2>1 DEF DetachAsked
  <2>2. CASE StopAsked \/ IpcEnds
    BY <1>0, <2>2, Moves DEF StopAsked, IpcEnds, TypeOK
  <2> QED  BY <2>1, <2>2
<1>3. TypeOK'
  BY <1>0, <1>1, <1>2 DEF DetachAsked, StopAsked, IpcEnds, LoopEnds, TypeOK
<1>4. TakenInv' /\ ClosingInv'
  BY <1>0, <1>1, <1>2 DEF DetachAsked, StopAsked, IpcEnds, TakenInv, ClosingInv
<1>5. NoPeerLost'
  BY <1>0, <1>1 DEF DetachAsked, StopAsked, IpcEnds, NoPeerLost
<1> QED  BY <1>3, <1>4, <1>5 DEF Inv

LEMMA DetachInv ==
    ASSUME Inv, NEW t \in Handlers \cup {"ipc"}, DetachStep(t) PROVE Inv'
<1> USE TaskFacts, LabelFacts DEF streamVars, peerVars, procVars
<1>0. TypeOK /\ TakenInv /\ ClosingInv /\ NoPeerLost
  BY DEF Inv
<1>1. CASE DetachRemoves(t)
  <2>1. /\ at' \in [Tasks -> Labels] /\ at[t] = "remove"
        /\ at'[t] = (IF Leaver(t) \in peers THEN "close" ELSE "idle")
        /\ \A u \in Tasks : u # t => at'[u] = at[u]
    <3>1. PICK l \in Labels : /\ Goto(t, l)
                             /\ l = (IF Leaver(t) \in peers THEN "close" ELSE "idle")
      BY <1>1 DEF DetachRemoves
    <3> QED  BY <1>0, <1>1, <3>1, Moves DEF DetachRemoves
  <2>2. /\ closing' \in [Tasks -> SUBSET Clients] /\ closing[t] = {}
        /\ closing'[t] = {Leaver(t)} \cap peers
        /\ \A u \in Tasks : u # t => closing'[u] = closing[u]
    BY <1>0, <1>1 DEF DetachRemoves, TypeOK, ClosingInv
  <2>3. TypeOK'
    <3>1. arg' \in Clients \cup {NoTask}
      BY <1>0, <1>1 DEF DetachRemoves, TypeOK
    <3> QED  BY <1>0, <1>1, <2>1, <2>2, <3>1 DEF DetachRemoves, TypeOK
  <2>4. TakenInv' /\ ClosingInv'
    BY <1>0, <1>1, <2>1, <2>2 DEF DetachRemoves, TakenInv, ClosingInv
  <2>5. NoPeerLost'
    BY <1>0, <1>1, <2>1, <2>2 DEF DetachRemoves, NoPeerLost
  <2> QED  BY <2>3, <2>4, <2>5 DEF Inv
<1>2. CASE DetachReturns(t)
  <2>1. /\ at' \in [Tasks -> Labels] /\ at[t] = "close" /\ at'[t] = "idle"
        /\ closing[t] = {}
        /\ \A u \in Tasks : u # t => at'[u] = at[u]
    BY <1>0, <1>2, Moves DEF DetachReturns
  <2>2. TypeOK'
    BY <1>0, <1>2, <2>1 DEF DetachReturns, TypeOK
  <2>3. TakenInv' /\ ClosingInv'
    BY <1>0, <1>2, <2>1 DEF DetachReturns, TakenInv, ClosingInv
  <2>4. NoPeerLost'
    BY <1>0, <1>2, <2>1 DEF DetachReturns, NoPeerLost
  <2> QED  BY <2>2, <2>3, <2>4 DEF Inv
<1> QED  BY <1>1, <1>2 DEF DetachStep

LEMMA CloseInv ==
    ASSUME Inv, (\E c \in Clients : InputPeerEnds(c)) \/ (\E t \in Tasks : CloseReturns(t))
    PROVE  Inv'
<1> USE TaskFacts, LabelFacts DEF streamVars, peerVars, procVars
<1>0. TypeOK /\ TakenInv /\ ClosingInv /\ NoPeerLost
  BY DEF Inv
<1>1. ASSUME NEW c \in Clients, InputPeerEnds(c) PROVE Inv'
  <2>1. /\ at' \in [Tasks -> Labels] /\ at[c] = "idle" /\ at'[c] = "remove"
        /\ \A u \in Tasks : u # c => at'[u] = at[u]
    BY <1>0, <1>1, Moves DEF InputPeerEnds
  <2>2. TypeOK'
    BY <1>0, <1>1, <2>1 DEF InputPeerEnds, TypeOK
  <2>3. TakenInv' /\ ClosingInv' /\ NoPeerLost'
    BY <1>0, <1>1, <2>1 DEF InputPeerEnds, TakenInv, ClosingInv, NoPeerLost
  <2> QED  BY <2>2, <2>3 DEF Inv
<1>2. ASSUME NEW t \in Tasks, CloseReturns(t) PROVE Inv'
  <2>1. PICK c \in closing[t] : /\ closing' = [closing EXCEPT ![t] = closing[t] \ {c}]
                                /\ open' = open \ {c}
    BY <1>2 DEF CloseReturns
  <2>2. /\ closing' \in [Tasks -> SUBSET Clients] /\ closing'[t] = closing[t] \ {c}
        /\ \A u \in Tasks : u # t => closing'[u] = closing[u]
    <3>1. closing[t] \ {c} \in SUBSET Clients
      BY <1>0 DEF TypeOK
    <3> QED  BY <1>0, <2>1, <3>1 DEF TypeOK
  <2>3. TypeOK'
    BY <1>0, <1>2, <2>1, <2>2 DEF CloseReturns, TypeOK
  <2>4. TakenInv' /\ ClosingInv'
    BY <1>0, <1>2, <2>2 DEF CloseReturns, TakenInv, ClosingInv
  <2>5. NoPeerLost'
    BY <1>0, <1>2, <2>1, <2>2 DEF CloseReturns, NoPeerLost
  <2> QED  BY <2>3, <2>4, <2>5 DEF Inv
<1> QED  BY <1>1, <1>2

-----------------------------------------------------------------------------
(* The theorems *)

\* The stream and the input peers each have one owner, whichever calls of stop() overlap (stop()
\* and the handlers of main.rs).
THEOREM InvHolds == Spec => []Inv
<1>1. Init => Inv
  BY InitInv
<1>2. Inv /\ [Next]_vars => Inv'
  <2> SUFFICES ASSUME Inv, [Next]_vars PROVE Inv'
    OBVIOUS
  <2>1. CASE UNCHANGED vars
    BY <2>1 DEF vars, procVars, streamVars, peerVars, Inv, TypeOK, TakenInv, ClosingInv,
       NoPeerLost
  <2> QED  BY <2>1, MainInv, StartInv, PeerInv, StopInv, AttachInv, IpcInv, DetachInv,
              CloseInv DEF Next
<1> QED  BY <1>1, <1>2, PTL DEF Spec

\* The types, for every set of input-only clients.
THEOREM StreamerTypeSafe == Spec => []TypeOK
<1>1. Inv => TypeOK
  BY DEF Inv
<1> QED  BY <1>1, InvHolds, PTL

\* At most one call of stop() tears the Moonlight connection down, and a stored
\* stream is one that is up (stop takes it out under the write lock).
THEOREM StreamTornDownOnce == Spec => []OneTeardown
<1>1. Inv => OneTeardown
  BY DEF Inv, TakenInv, OneTeardown
<1> QED  BY <1>1, InvHolds, PTL

\* An open input peer is in secondary_peers, or about to be put there, or some
\* task closes it.
THEOREM PeersKept == Spec => []NoPeerLost
<1>1. Inv => NoPeerLost
  BY DEF Inv
<1> QED  BY <1>1, InvHolds, PTL

-----------------------------------------------------------------------------
(***************************************************************************)
(* The connection library, for every number of starts, whichever of their  *)
(* strings are bad: although connection_lock is not held while the library *)
(* connects, no two native calls overlap and no callback meets the object  *)
(* of another connection.                                                  *)
(***************************************************************************)

\* From setting connection_exists to resetting it.
Holders == {"convert", "leaked", "targets", "native", "undo", "up", "dropWait",
            "stopping", "clear"}
\* The globals are set and the library may run threads.
Live == {"native", "undo", "up", "dropWait", "stopping"}

\* connection_exists is set while somebody holds the library, and it is one.
HolderInv ==
    /\ \A s \in Starts : pc[s] \in Holders => exists
    /\ \A s, t \in Starts : pc[s] \in Holders /\ pc[t] \in Holders => s = t

\* Threads run for a connection that is live, and find its object in their globals.
ThreadInv ==
    /\ running # {} => \E s \in Starts : pc[s] \in Live
    /\ \A s \in Starts : /\ pc[s] = "native" => \A k \in Kinds : target[k] = s
                         /\ pc[s] \in Live => \A k \in running : target[k] = s
                         /\ pc[s] = "up" => running = Kinds

\* A callback uses the object its global holds, and its thread has not been joined.
BusyInv == \A k \in Kinds : busy[k] # NoStart => k \in running /\ busy[k] = target[k]

\* Methods are called on a stream that start has returned.
CallInv == \A s \in Starts : call[s] # "none" => pc[s] = "up"

LibraryInv == ConnTypeOK /\ HolderInv /\ ThreadInv /\ BusyInv /\ CallInv

\* A start that goes to a place leaves those of the others alone.
LEMMA GoesTo ==
    ASSUME ConnTypeOK, NEW s \in Starts, NEW p \in Places, To(s, p)
    PROVE  /\ pc' \in [Starts -> Places]
           /\ pc'[s] = p
           /\ \A t \in Starts : t # s => pc'[t] = pc[t]
BY DEF ConnTypeOK, To

LEMMA PlacesFacts ==
    {"idle", "refused", "convert", "leaked", "targets", "native", "undo", "up", "dropWait",
     "stopping", "clear", "ended"} \subseteq Places
BY DEF Places

LEMMA ConnInitInv == ConnInit => LibraryInv
<1> SUFFICES ASSUME ConnInit PROVE LibraryInv
  OBVIOUS
<1>1. ConnTypeOK
  BY PlacesFacts DEF ConnInit, ConnTypeOK
<1>2. HolderInv /\ ThreadInv /\ BusyInv /\ CallInv
  BY DEF ConnInit, HolderInv, ThreadInv, BusyInv, CallInv, Holders, Live
<1> QED  BY <1>1, <1>2 DEF LibraryInv

-----------------------------------------------------------------------------
(* Each step keeps the invariant *)

LEMMA ConnectKeeps == ASSUME LibraryInv, NEW s \in Starts, ConnectStep(s) PROVE LibraryInv'
<1> USE PlacesFacts
<1>0. ConnTypeOK /\ HolderInv /\ ThreadInv /\ BusyInv /\ CallInv
  BY DEF LibraryInv
<1>1. CASE Claims(s)
  <2>1. /\ pc' \in [Starts -> Places] /\ pc'[s] = IF exists THEN "refused" ELSE "convert"
        /\ \A t \in Starts : t # s => pc'[t] = pc[t]
    BY <1>0, <1>1, GoesTo DEF Claims
  <2>2. ConnTypeOK'
    BY <1>0, <1>1, <2>1 DEF Claims, ConnTypeOK
  <2>3. HolderInv'
    BY <1>0, <1>1, <2>1 DEF Claims, At, HolderInv, Holders
  <2>4. ThreadInv' /\ BusyInv' /\ CallInv'
    BY <1>0, <1>1, <2>1 DEF Claims, At, ThreadInv, BusyInv, CallInv, Live
  <2> QED  BY <2>2, <2>3, <2>4 DEF LibraryInv
<1>2. CASE ConversionFails(s) \/ Converts(s)
  <2>1. /\ pc' \in [Starts -> Places] /\ pc[s] = "convert" /\ pc'[s] \in {"leaked", "targets"}
        /\ \A t \in Starts : t # s => pc'[t] = pc[t]
        /\ UNCHANGED <<exists, guard, call, target, running, busy>>
    BY <1>0, <1>2, GoesTo DEF ConversionFails, Converts, At
  <2>2. ConnTypeOK'
    BY <1>0, <2>1 DEF ConnTypeOK
  <2>3. HolderInv'
    BY <1>0, <2>1 DEF HolderInv, Holders
  <2>4. ThreadInv' /\ BusyInv' /\ CallInv'
    BY <1>0, <2>1 DEF ThreadInv, BusyInv, CallInv, Live
  <2> QED  BY <2>2, <2>3, <2>4 DEF LibraryInv
<1>3. CASE SetsTargets(s)
  <2>1. /\ pc' \in [Starts -> Places] /\ pc[s] = "targets" /\ pc'[s] = "native"
        /\ \A t \in Starts : t # s => pc'[t] = pc[t]
    BY <1>0, <1>3, GoesTo DEF SetsTargets, At
  <2>2. ConnTypeOK'
    BY <1>0, <1>3, <2>1 DEF SetsTargets, ConnTypeOK
  <2>3. HolderInv'
    BY <1>0, <1>3, <2>1 DEF SetsTargets, HolderInv, Holders
  <2>4. running = {}
    BY <1>0, <2>1 DEF ThreadInv, HolderInv, Holders, Live
  <2>5. ThreadInv'
    BY <1>0, <1>3, <2>1, <2>3, <2>4 DEF SetsTargets, ThreadInv, HolderInv, Holders, Live
  <2>6. BusyInv' /\ CallInv'
    BY <1>0, <1>3, <2>1, <2>4 DEF SetsTargets, BusyInv, CallInv
  <2> QED  BY <2>2, <2>3, <2>5, <2>6 DEF LibraryInv
<1>4. CASE NativeSucceeds(s) \/ NativeFails(s) \/ NativeUndone(s)
  <2>1. /\ pc' \in [Starts -> Places]
        /\ \/ pc[s] = "native" /\ pc'[s] = "up" /\ running = Kinds
           \/ pc[s] = "native" /\ pc'[s] = "undo"
           \/ pc[s] = "undo" /\ pc'[s] = "dropWait" /\ running = {}
        /\ \A t \in Starts : t # s => pc'[t] = pc[t]
        /\ UNCHANGED <<exists, guard, call, target, running, busy>>
    BY <1>0, <1>4, GoesTo DEF NativeSucceeds, NativeFails, NativeUndone, At
  <2>2. ConnTypeOK'
    BY <1>0, <2>1 DEF ConnTypeOK
  <2>3. HolderInv'
    BY <1>0, <2>1 DEF HolderInv, Holders
  <2>4. ThreadInv'
    BY <1>0, <2>1, <2>3 DEF ThreadInv, Live
  <2>5. BusyInv' /\ CallInv'
    BY <1>0, <2>1 DEF BusyInv, CallInv
  <2> QED  BY <2>2, <2>3, <2>4, <2>5 DEF LibraryInv
<1> QED  BY <1>1, <1>2, <1>3, <1>4 DEF ConnectStep

LEMMA CallKeeps ==
    ASSUME LibraryInv, NEW s \in Starts, Sent(s) \/ \E m \in Calls : Sends(s, m)
    PROVE  LibraryInv'
<1>1. ConnTypeOK /\ HolderInv /\ ThreadInv /\ BusyInv /\ CallInv
  BY DEF LibraryInv
<1>2. /\ UNCHANGED <<exists, guard, pc, target, running, busy>>
      /\ call' \in [Starts -> Calls \cup {"none"}]
      /\ \A t \in Starts : t # s => call'[t] = call[t]
      /\ call'[s] = "none" \/ pc[s] = "up"
  BY <1>1 DEF Sent, Sends, ConnTypeOK, At
<1>3. ConnTypeOK'
  BY <1>1, <1>2 DEF ConnTypeOK
<1>4. HolderInv' /\ ThreadInv' /\ BusyInv'
  BY <1>1, <1>2 DEF HolderInv, ThreadInv, BusyInv
<1>5. CallInv'
  BY <1>1, <1>2 DEF CallInv
<1> QED  BY <1>3, <1>4, <1>5 DEF LibraryInv

LEMMA DropKeeps ==
    ASSUME LibraryInv, NEW s \in Starts, DropsStream(s) \/ DropStep(s) PROVE LibraryInv'
<1> USE PlacesFacts
<1>0. ConnTypeOK /\ HolderInv /\ ThreadInv /\ BusyInv /\ CallInv
  BY DEF LibraryInv
<1>1. CASE DropsStream(s) \/ DropLocks(s) \/ NativeStopped(s)
  <2>1. /\ pc' \in [Starts -> Places] /\ guard' \in Starts \cup {NoStart}
        /\ \/ pc[s] = "up" /\ pc'[s] = "dropWait" /\ call[s] = "none"
           \/ pc[s] = "dropWait" /\ pc'[s] = "stopping"
           \/ pc[s] = "stopping" /\ pc'[s] = "clear" /\ running = {}
        /\ \A t \in Starts : t # s => pc'[t] = pc[t]
        /\ UNCHANGED <<exists, call, target, running, busy>>
    BY <1>0, <1>1, GoesTo DEF DropsStream, DropLocks, NativeStopped, At, ConnTypeOK
  <2>2. ConnTypeOK'
    BY <1>0, <2>1 DEF ConnTypeOK
  <2>3. HolderInv'
    BY <1>0, <2>1 DEF HolderInv, Holders
  <2>4. ThreadInv'
    BY <1>0, <2>1 DEF ThreadInv, Live
  <2>5. BusyInv' /\ CallInv'
    BY <1>0, <2>1 DEF BusyInv, CallInv
  <2> QED  BY <2>2, <2>3, <2>4, <2>5 DEF LibraryInv
<1>2. CASE DropClears(s)
  <2>1. /\ pc' \in [Starts -> Places] /\ pc[s] = "clear" /\ pc'[s] = "ended"
        /\ \A t \in Starts : t # s => pc'[t] = pc[t]
    BY <1>0, <1>2, GoesTo DEF DropClears, At
  <2>2. \A t \in Starts : pc'[t] \notin Holders
    BY <1>0, <2>1 DEF HolderInv, Holders
  <2>3. running = {}
    BY <1>0, <2>1 DEF ThreadInv, HolderInv, Holders, Live
  <2>4. ConnTypeOK'
    BY <1>0, <1>2, <2>1 DEF DropClears, ConnTypeOK
  <2>5. HolderInv' /\ ThreadInv'
    BY <1>2, <2>2, <2>3 DEF DropClears, HolderInv, ThreadInv, Holders, Live
  <2>6. BusyInv' /\ CallInv'
    BY <1>0, <1>2, <2>1, <2>3 DEF DropClears, BusyInv, CallInv
  <2> QED  BY <2>4, <2>5, <2>6 DEF LibraryInv
<1> QED  BY <1>1, <1>2 DEF DropStep

LEMMA ThreadKeeps ==
    ASSUME LibraryInv, ListenerReturns \/ \E k \in Kinds : ThreadStep(k) PROVE LibraryInv'
<1>0. ConnTypeOK /\ HolderInv /\ ThreadInv /\ BusyInv /\ CallInv
  BY DEF LibraryInv
<1>1. CASE \E k \in Kinds : ThreadStarts(k)
  <2> PICK k \in Kinds : ThreadStarts(k)
    BY <1>1
  <2>1. PICK s \in Starts : pc[s] = "native"
    BY DEF ThreadStarts, At
  <2>2. /\ running' = running \cup {k} /\ k \notin running
        /\ UNCHANGED <<exists, guard, pc, call, target, busy>>
    BY DEF ThreadStarts
  <2>3. \A t \in Starts : pc[t] \in Live => t = s
    BY <1>0, <2>1 DEF HolderInv, Holders, Live
  <2>4. ConnTypeOK' /\ HolderInv' /\ CallInv' /\ BusyInv'
    BY <1>0, <2>2 DEF ConnTypeOK, HolderInv, CallInv, BusyInv
  <2>5. ThreadInv'
    BY <1>0, <2>1, <2>2, <2>3 DEF ThreadInv, Live, ConnTypeOK
  <2> QED  BY <2>4, <2>5 DEF LibraryInv
<1>2. CASE ListenerReturns \/ \E k \in Kinds : CallbackBegins(k) \/ DecoderReturns(k)
  <2>1. /\ UNCHANGED <<exists, guard, pc, call, target, running>>
        /\ \E k \in Kinds : /\ busy' = [busy EXCEPT ![k] = IF CallbackBegins(k) THEN target[k]
                                                           ELSE NoStart]
                            /\ CallbackBegins(k) => k \in running
    BY <1>2 DEF ListenerReturns, CallbackBegins, DecoderReturns, Kinds
  <2>2. ConnTypeOK'
    BY <1>0, <2>1 DEF ConnTypeOK
  <2>3. HolderInv' /\ ThreadInv' /\ CallInv'
    BY <1>0, <2>1 DEF HolderInv, ThreadInv, CallInv
  <2>4. BusyInv'
    BY <1>0, <2>1 DEF BusyInv, ConnTypeOK
  <2> QED  BY <2>2, <2>3, <2>4 DEF LibraryInv
<1>3. CASE \E k \in Kinds : ThreadJoined(k)
  <2> PICK k \in Kinds : ThreadJoined(k)
    BY <1>3
  <2>1. PICK s \in Starts : pc[s] \in {"undo", "stopping"}
    BY DEF ThreadJoined, At
  <2>2. \A t \in Starts : pc[t] \in Holders => t = s
    BY <1>0, <2>1 DEF HolderInv, Holders
  <2>3. /\ running' = running \ {k} /\ busy[k] = NoStart
        /\ \A j \in Kinds : j # k => target'[j] = target[j]
        /\ target' \in [Kinds -> Starts \cup {NoStart}]
        /\ UNCHANGED <<exists, guard, pc, call, busy>>
    BY <1>0 DEF ThreadJoined, ConnTypeOK
  <2>4. ConnTypeOK'
    BY <1>0, <2>3 DEF ConnTypeOK
  <2>5. HolderInv' /\ CallInv' /\ BusyInv'
    BY <1>0, <2>3 DEF HolderInv, CallInv, BusyInv
  <2>6. ThreadInv'
    BY <1>0, <2>1, <2>2, <2>3 DEF ThreadInv, Live, Holders, ConnTypeOK
  <2> QED  BY <2>4, <2>5, <2>6 DEF LibraryInv
<1> QED  BY <1>1, <1>2, <1>3 DEF ThreadStep

-----------------------------------------------------------------------------
(* The theorems *)

\* Who holds the native library, what runs in it and whose targets it uses stay consistent
\* (start_connection and Drop of MoonlightStream in stream/mod.rs).
THEOREM LibraryInvHolds == ConnSpec => []LibraryInv
<1>1. ConnInit => LibraryInv
  BY ConnInitInv
<1>2. LibraryInv /\ [ConnNext]_libraryVars => LibraryInv'
  <2> SUFFICES ASSUME LibraryInv, [ConnNext]_libraryVars PROVE LibraryInv'
    OBVIOUS
  <2>1. CASE UNCHANGED libraryVars
    BY <2>1 DEF libraryVars, LibraryInv, ConnTypeOK, HolderInv, ThreadInv, BusyInv, CallInv
  <2> QED  BY <2>1, ConnectKeeps, CallKeeps, DropKeeps, ThreadKeeps DEF ConnNext
<1> QED  BY <1>1, <1>2, PTL DEF ConnSpec

\* The types, for every number of starts.
THEOREM ConnectionTypeSafe == ConnSpec => []ConnTypeOK
<1>1. LibraryInv => ConnTypeOK
  BY DEF LibraryInv
<1> QED  BY <1>1, LibraryInvHolds, PTL

\* However many starts and drops run at once, no two of their native calls overlap: the
\* flag connection_exists is enough, though the lock is released long before the call.
THEOREM NativeCallsAlone == ConnSpec => []OneNativeCall
<1>1. LibraryInv => OneNativeCall
  BY DEF LibraryInv, HolderInv, OneNativeCall, Holders, Native
<1> QED  BY <1>1, LibraryInvHolds, PTL

\* A callback finds the object of the connection its thread belongs to, and that object
\* stays while it is used.
THEOREM CallbacksKeepTarget == ConnSpec => []CallbacksOnOwnTarget
<1>1. LibraryInv => CallbacksOnOwnTarget
  <2> SUFFICES ASSUME LibraryInv, NEW k \in running
               PROVE  /\ target[k] # NoStart
                      /\ pc[target[k]] \in Native \cup {"up", "dropWait"}
                      /\ busy[k] \in {NoStart, target[k]}
    BY DEF CallbacksOnOwnTarget
  <2>1. PICK s \in Starts : pc[s] \in Live /\ target[k] = s
    BY DEF LibraryInv, ThreadInv
  <2>2. k \in Kinds
    BY DEF LibraryInv, ConnTypeOK
  <2> QED  BY <2>1, <2>2, ConnectionAssumption DEF LibraryInv, BusyInv, Live, Native
<1> QED  BY <1>1, LibraryInvHolds, PTL

\* A method of a stream never reaches the library without a connection, nor another
\* stream's connection (no method takes connection_lock).
THEOREM CallsReach == ConnSpec => []CallsReachOwnConnection
<1>1. LibraryInv => CallsReachOwnConnection
  BY DEF LibraryInv, CallInv, HolderInv, ThreadInv, CallsReachOwnConnection, Holders, Live
<1> QED  BY <1>1, LibraryInvHolds, PTL
=============================================================================
