---------------------------- MODULE PageGamepads ----------------------------
(***************************************************************************)
(* The gamepads of a page (StreamInput in                                  *)
(* moonlight-web/web-server/web/stream/input.ts): a pad that the browser   *)
(* reports is buffered until the stream is up, then pending until a button *)
(* is pressed, which tells a pad from the mirror a Tesla shows of it, then *)
(* registered under an id that the streamer is told on the "controllers"   *)
(* channel.  A page that gets a new peer has a new channel.                *)
(*                                                                         *)
(* A browser keeps the index of a pad that is plugged in (the Gamepad API  *)
(* asks it to), so that the search for a registered pad under another index *)
(* is left out.  So are the states of buttons, but for the poll that finds *)
(* pending pads pressed alike.                                             *)
(***************************************************************************)
EXTENDS Naturals, SequencesExt, FiniteSetsExt

CONSTANTS
    Pads,         \* gamepads, by their index
    VirtualPads,  \* the Tesla's own
    Vendors,      \* vendor in a pad's name
    NoVendor,     \* a name without one
    DeviceModes,  \* the modes that are used
    MaxPagePeers, \* bound: peers of the page
    MaxPlugs      \* bound: how often pads are plugged in

ASSUME PagePadAssumption == Pads \subseteq Nat /\ IsFiniteSet(Pads)

VARIABLES
    deviceMode,      \* config.controllerDeviceMode
    plugged,         \* what navigator.getGamepads() shows
    plugs,
    connected,       \* StreamInput.connected
    controllers,     \* readyState of the "controllers" channel
    pagePeers,
    streamStarted,   \* onStreamStart has been called for the current peer
    buffered,        \* bufferedControllers
    pendingGamepads, \* in the order of connectedAt
    registered,      \* gamepads: the id of each
    heard            \* ids that the current channel has added and not removed

pagePadVars == <<deviceMode, plugged, plugs, connected, controllers, pagePeers,
                 streamStarted, buffered, pendingGamepads, registered, heard>>

PagePadTypeOK ==
    /\ deviceMode \in DeviceModes
    /\ plugged \subseteq Pads /\ plugs \in 0..MaxPlugs
    /\ connected \in BOOLEAN /\ streamStarted \in BOOLEAN
    /\ controllers \in {"none", "connecting", "open"} /\ pagePeers \in 0..MaxPagePeers
    /\ buffered \in Seq(Pads) /\ pendingGamepads \in Seq(Pads)
    /\ DOMAIN registered \subseteq Pads /\ Range(registered) \subseteq Nat
    /\ heard \subseteq Nat

PagePadInit ==
    /\ deviceMode \in DeviceModes
    /\ plugged = {} /\ plugs = 0 /\ connected = FALSE /\ controllers = "none" /\ pagePeers = 0
    /\ streamStarted = FALSE /\ buffered = <<>> /\ pendingGamepads = <<>>
    /\ registered = <<>> /\ heard = {}

Ids == Range(registered)

\* What trySendChannel makes of an add or a remove: nothing unless the channel is open.
ReachesHost(ids) == IF controllers = "open" THEN ids ELSE heard

-----------------------------------------------------------------------------

SameVendor(p, q) == Vendors[p] # NoVendor /\ Vendors[p] = Vendors[q]

\* A virtual pad beside the physical one it mirrors, if that is registered, or pending
\* for no longer than VIRTUAL_SUPPRESSION_MS; the pads of `old` are pending for longer.
Mirrors(p, q, queue, old) ==
    /\ p \in VirtualPads /\ q \notin VirtualPads /\ SameVendor(p, q)
    /\ q \in DOMAIN registered \cup (ToSet(queue) \ old)

Rejected(p, queue, old) ==
    \/ deviceMode = "physical" /\ p \in VirtualPads
    \/ deviceMode = "virtual" /\ p \notin VirtualPads
    \/ deviceMode = "auto" /\ \E q \in Pads : Mirrors(p, q, queue, old)

\* The entries of a queue for the pads of a set, in their order.
Those(queue, pads) ==
    LET kept[n \in 0..Len(queue)] ==
            IF n = 0 THEN <<>>
            ELSE IF queue[n] \in pads THEN Append(kept[n - 1], queue[n]) ELSE kept[n - 1]
    IN  kept[Len(queue)]

\* A physical pad drives out the virtual one that came just before it.
Stays(q, p, old) ==
    ~(deviceMode = "auto" /\ p \notin VirtualPads /\ q \in VirtualPads \ old /\ SameVendor(p, q))

\* onGamepadConnect with an open channel
Queue(queue, p, old) ==
    IF p \in DOMAIN registered \cup ToSet(queue) \/ Rejected(p, queue, old) THEN queue
    ELSE Append(Those(queue, {q \in Pads : Stays(q, p, old)}), p)

\* It is called for one pad after the other.
QueueAll(queue, pads, old) ==
    LET queued[n \in 0..Len(pads)] ==
            IF n = 0 THEN queue ELSE Queue(queued[n - 1], pads[n], old)
    IN  queued[Len(pads)]

\* The pads pending for longer than the window are the first ones.
Olds == {ToSet(SubSeq(pendingGamepads, 1, n)) : n \in 0..Len(pendingGamepads)}

PadConnects(p) ==
    /\ p \notin plugged /\ plugs < MaxPlugs
    /\ plugged' = plugged \cup {p} /\ plugs' = plugs + 1
    /\ IF connected /\ controllers = "open"
       THEN /\ \E old \in Olds : pendingGamepads' = Queue(pendingGamepads, p, old)
            /\ UNCHANGED buffered
       ELSE buffered' = Append(buffered, p) /\ UNCHANGED pendingGamepads
    /\ UNCHANGED <<deviceMode, connected, controllers, pagePeers, streamStarted,
                   registered, heard>>

\* removeRegisteredGamepad
RemovesPad(p) ==
    IF p \in DOMAIN registered
    THEN /\ registered' = [q \in DOMAIN registered \ {p} |-> registered[q]]
         /\ heard' = ReachesHost(heard \ {registered[p]})
    ELSE UNCHANGED <<registered, heard>>

\* onGamepadDisconnect
PadDisconnects(p) ==
    /\ p \in plugged /\ plugged' = plugged \ {p}
    /\ pendingGamepads' = Those(pendingGamepads, Pads \ {p})
    /\ IF p \in ToSet(pendingGamepads) THEN UNCHANGED <<registered, heard>> ELSE RemovesPad(p)
    /\ UNCHANGED <<deviceMode, plugs, connected, controllers, pagePeers, streamStarted,
                   buffered>>

\* setPeer
NewPeer ==
    /\ pagePeers < MaxPagePeers /\ pagePeers' = pagePeers + 1
    /\ controllers' = "connecting" /\ heard' = {} /\ streamStarted' = FALSE
    /\ UNCHANGED <<deviceMode, plugged, plugs, connected, buffered, pendingGamepads,
                   registered>>

ControllersOpen ==
    /\ controllers = "connecting" /\ controllers' = "open"
    /\ UNCHANGED <<deviceMode, plugged, plugs, connected, pagePeers, streamStarted,
                   buffered, pendingGamepads, registered, heard>>

\* The loop of registerBufferedControllers: onGamepadConnect for every buffered pad that
\* is still there, which buffers it again unless the channel is open.
RegistersBuffered ==
    LET there == Those(buffered, plugged) IN
    IF controllers = "open"
    THEN /\ \E old \in Olds : pendingGamepads' = QueueAll(pendingGamepads, there, old)
         /\ buffered' = <<>>
    ELSE buffered' = there /\ UNCHANGED pendingGamepads

\* Its second half: the new channel has not heard of the pads that are registered.
Announces == heard' = ReachesHost(heard \cup Ids)

\* onStreamStart, with registerBufferedControllers: when the streamer says that the
\* stream is up, or, on a page that only sends input, when the peer is connected, be the
\* channel open by then or not.
StreamStart ==
    /\ controllers # "none"
    /\ connected' = TRUE /\ streamStarted' = TRUE
    /\ RegistersBuffered /\ Announces
    /\ UNCHANGED <<deviceMode, plugged, plugs, controllers, pagePeers, registered>>

-----------------------------------------------------------------------------
(* processPendingGamepads, which a timer calls while pads are pending *)

\* The one that is kept of the pads pressed alike; near says that the first physical
\* and the first virtual one came within VIRTUAL_SUPPRESSION_MS.
Chosen(alike, near) ==
    LET first(S)  == Those(pendingGamepads, S)[1]
        physicals == alike \ VirtualPads
        virtuals  == alike \cap VirtualPads
    IN  CASE deviceMode = "physical" -> IF physicals # {} THEN first(physicals) ELSE Min(alike)
          [] deviceMode = "virtual"  -> IF virtuals # {} THEN first(virtuals) ELSE Min(alike)
          [] OTHER -> IF near /\ physicals # {} /\ virtuals # {} THEN first(physicals)
                      ELSE first(alike)

\* Bug: the number of pads is taken for the next id.
SizeAsId == Cardinality(DOMAIN registered)

\* registerGamepad
FreeId == CHOOSE n \in 0..Cardinality(Pads) :
              n \notin Ids /\ \A m \in 0..n - 1 : m \in Ids

Promotes(alike, near) ==
    LET p == Chosen(alike, near) IN
    /\ alike # {}
    /\ pendingGamepads' = Those(pendingGamepads, Pads \ alike)
    /\ registered' = [q \in DOMAIN registered \cup {p} |->
                         IF q = p THEN FreeId ELSE registered[q]]
    /\ heard' = ReachesHost(heard \cup {FreeId})
    /\ UNCHANGED <<deviceMode, plugged, plugs, connected, controllers, pagePeers,
                   streamStarted, buffered>>

-----------------------------------------------------------------------------

PagePadNext ==
    \/ \E p \in Pads : PadConnects(p) \/ PadDisconnects(p)
    \/ NewPeer
    \/ ControllersOpen
    \/ StreamStart
    \/ \E alike \in SUBSET ToSet(pendingGamepads), near \in BOOLEAN : Promotes(alike, near)

PagePadSpec == PagePadInit /\ [][PagePadNext]_pagePadVars

-----------------------------------------------------------------------------
(* Properties *)

\* Once the stream has started on the channel of a page that has had no other, the
\* streamer has heard of exactly the pads whose states the page sends it, whatever was
\* plugged in, pulled out, suppressed or registered before and since.  A page with video
\* keeps its one peer (createPeer, index.ts:687).
FirstPeerHears == pagePeers = 1 /\ streamStarted /\ controllers = "open" => heard = Ids

\* The same of every peer of a page that only sends input.  The comment on the
\* announcements says what happens otherwise: "the host would see input for a gamepad it
\* never heard arrive, forever" (input.ts:763-769).
PadsAreHeard == streamStarted /\ controllers = "open" => heard = Ids
=============================================================================
