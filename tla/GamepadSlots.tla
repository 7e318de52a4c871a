---------------------------- MODULE GamepadSlots ----------------------------
(***************************************************************************)
(* Sharing Sunshine's controller slots between the browsers of a stream    *)
(* (moonlight-web/streamer/src/input.rs, detach_input_peer in main.rs).    *)
(*                                                                         *)
(* Every client numbers its gamepads from 0.  The streamer gives each one  *)
(* a slot of its own, under the write lock of gamepad_slots, and keeps the *)
(* mask of the slots in use, active_gamepads, under another lock.  Events  *)
(* for Sunshine are sent after the locks are released.  The handlers of    *)
(* the data channels and the detaching of a client run concurrently.       *)
(***************************************************************************)
EXTENDS Naturals

CONSTANTS
    Browsers,     \* browsers, the primary one among them
    Primary,      \* client 0, which is never detached
    LocalIds,     \* gamepad numbers a client uses
    NumSlots,     \* 16 in the code
    NoSlot,       \* the absence of a slot
    NoHolder,     \* the absence of a lock holder
    MaxMessages   \* bound: messages of the "controllers" channels

Slots    == 0..NumSlots - 1
Gamepads == Browsers \X LocalIds

\* The handler of a client's "controllers" channel, and detach_input_peer,
\* which is called for the IPC message and for the Closed state of the peer.
CtlTasks    == Browsers \X {"controllers"}
DetachTasks == (Browsers \ {Primary}) \X {"ipc", "closed"}
PadTasks    == CtlTasks \cup DetachTasks

ASSUME GamepadAssumption ==
    /\ Primary \in Browsers
    /\ LocalIds # {}
    /\ NumSlots \in Nat
    /\ NoSlot \notin Slots
    /\ NoHolder \notin PadTasks
    /\ MaxMessages \in Nat

VARIABLES
    slots,      \* gamepad_slots: slot of each gamepad
    active,     \* active_gamepads
    slotsLock,  \* task that holds gamepad_slots for writing
    starting,   \* start_stream holds active_gamepads for reading
    streaming,  \* connection.stream is there
    messages,   \* messages received so far
    peer,       \* whether a client's peer connection is open
    padAt,      \* where a task is
    pad,        \* gamepad it is working on
    slot,       \* slot it is working on
    todo,       \* gamepads a detach task has collected
    inp,        \* handler of a gamepad's "controller<n>" channel
    pads        \* controllers Sunshine shows to the game (external)

slotVars    == <<slots, active, slotsLock>>
connVars    == <<starting, streaming, messages, peer>>
taskVars    == <<padAt, pad, slot, todo>>
gamepadVars == <<slotVars, connVars, taskVars, inp, pads>>

PadLabels == {"idle", "add", "allocate", "arrive", "remove", "release", "leave",
           "next", "done"}

SlotsTypeOK ==
    /\ slots \in [Gamepads -> Slots \cup {NoSlot}]
    /\ active \subseteq Slots
    /\ slotsLock \in PadTasks \cup {NoHolder}
    /\ starting \in BOOLEAN
    /\ streaming \in BOOLEAN
    /\ messages \in 0..MaxMessages
    /\ peer \in [Browsers -> {"open", "closed"}]
    /\ padAt \in [PadTasks -> PadLabels]
    /\ pad \in [PadTasks -> Gamepads]
    /\ slot \in [PadTasks -> Slots \cup {NoSlot}]
    /\ todo \in [PadTasks -> SUBSET Gamepads]
    /\ inp \in [Gamepads -> [at : {"idle", "check", "send"}, slot : Slots \cup {NoSlot},
                             mask : SUBSET Slots]]
    /\ pads \subseteq Slots

SlotsInit ==
    /\ slots = [g \in Gamepads |-> NoSlot]
    /\ active = {}
    /\ slotsLock = NoHolder
    /\ starting = FALSE
    /\ streaming = FALSE
    /\ messages = 0
    /\ peer = [c \in Browsers |-> "open"]
    /\ padAt = [t \in PadTasks |-> "idle"]
    /\ pad = [t \in PadTasks |-> <<t[1], CHOOSE l \in LocalIds : TRUE>>]
    /\ slot = [t \in PadTasks |-> NoSlot]
    /\ todo = [t \in PadTasks |-> {}]
    /\ inp = [g \in Gamepads |-> [at |-> "idle", slot |-> NoSlot, mask |-> {}]]
    /\ pads = {}

\* A detach task goes on with the next gamepad, a message handler is done.
PadGoto(t, l) == padAt' = [padAt EXCEPT ![t] = l]
Back(t)       == PadGoto(t, IF t \in DetachTasks THEN "next" ELSE "idle")

\* What Sunshine does with an event (external): an arrival shows the controller,
\* a state event shows or removes it as its mask says.
Arrive(s) == pads' = IF streaming THEN pads \cup {s} ELSE pads

State(s, mask) ==
    pads' = IF ~streaming THEN pads
            ELSE IF s \in mask THEN pads \cup {s} ELSE pads \ {s}

-----------------------------------------------------------------------------
(* start_stream: the mask is read, and stays locked, while Sunshine is asked *)

StartBegins ==
    /\ ~starting /\ ~streaming
    /\ starting' = TRUE
    /\ UNCHANGED <<slotVars, streaming, messages, peer, taskVars, inp, pads>>

\* Bug: the read guard lives on in the stream.
StartKeepsGuard ==
    /\ starting /\ ~streaming
    /\ streaming' = TRUE
    /\ UNCHANGED <<slotVars, starting, messages, peer, taskVars, inp, pads>>

StartReturns ==
    /\ starting /\ ~streaming
    /\ starting' = FALSE
    /\ streaming' = TRUE
    /\ UNCHANGED <<slotVars, messages, peer, taskVars, inp, pads>>

-----------------------------------------------------------------------------
(* on_controller_message and allocate_gamepad_slot *)

Receive(c, l, what) ==
    LET t == <<c, "controllers">>
    IN  /\ padAt[t] = "idle"
        /\ peer[c] = "open"
        /\ messages < MaxMessages
        /\ messages' = messages + 1
        /\ pad' = [pad EXCEPT ![t] = <<c, l>>]
        /\ PadGoto(t, what)
        /\ UNCHANGED <<slotVars, starting, streaming, peer, slot, todo, inp, pads>>

\* The write lock is taken; a gamepad that has a slot keeps it.
Add(t) ==
    /\ padAt[t] = "add"
    /\ slotsLock = NoHolder
    /\ IF slots[pad[t]] # NoSlot
       THEN /\ slot' = [slot EXCEPT ![t] = slots[pad[t]]]
            /\ PadGoto(t, "arrive")
            /\ UNCHANGED slotsLock
       ELSE /\ slotsLock' = t
            /\ PadGoto(t, "allocate")
            /\ UNCHANGED slot
    /\ UNCHANGED <<slots, active, connVars, pad, todo, inp, pads>>

\* Bug: the slot is recorded, but not marked as active.
AllocateUnmarked(t) ==
    LET free == Slots \ active
    IN  /\ padAt[t] = "allocate"
        /\ ~starting
        /\ slotsLock' = NoHolder
        /\ IF free = {}
           THEN PadGoto(t, "idle") /\ UNCHANGED <<slots, slot>>
           ELSE \E s \in free :
                  /\ \A other \in free : s <= other
                  /\ slots' = [slots EXCEPT ![pad[t]] = s]
                  /\ slot' = [slot EXCEPT ![t] = s]
                  /\ PadGoto(t, "arrive")
        /\ UNCHANGED <<active, connVars, pad, todo, inp, pads>>

\* The lowest free slot, if there is one.
Allocate(t) ==
    LET free == Slots \ active
    IN  /\ padAt[t] = "allocate"
        /\ ~starting
        /\ slotsLock' = NoHolder
        /\ IF free = {}
           THEN PadGoto(t, "idle") /\ UNCHANGED <<slots, active, slot>>
           ELSE \E s \in free :
                  /\ \A other \in free : s <= other
                  /\ slots' = [slots EXCEPT ![pad[t]] = s]
                  /\ active' = active \cup {s}
                  /\ slot' = [slot EXCEPT ![t] = s]
                  /\ PadGoto(t, "arrive")
        /\ UNCHANGED <<connVars, pad, todo, inp, pads>>

SendArrival(t) ==
    /\ padAt[t] = "arrive"
    /\ Arrive(slot[t])
    /\ PadGoto(t, "idle")
    /\ UNCHANGED <<slotVars, connVars, pad, slot, todo, inp>>

-----------------------------------------------------------------------------
(* release_gamepad_slot *)

\* The gamepad loses its slot under the write lock, or had none.
Remove(t) ==
    /\ padAt[t] = "remove"
    /\ slotsLock = NoHolder
    /\ IF slots[pad[t]] # NoSlot
       THEN /\ slotsLock' = t
            /\ slots' = [slots EXCEPT ![pad[t]] = NoSlot]
            /\ slot' = [slot EXCEPT ![t] = slots[pad[t]]]
            /\ PadGoto(t, "release")
       ELSE Back(t) /\ UNCHANGED <<slots, slotsLock, slot>>
    /\ UNCHANGED <<active, connVars, pad, todo, inp, pads>>

Release(t) ==
    /\ padAt[t] = "release"
    /\ ~starting
    /\ active' = active \ {slot[t]}
    /\ slotsLock' = NoHolder
    /\ PadGoto(t, "leave")
    /\ UNCHANGED <<slots, connVars, pad, slot, todo, inp, pads>>

SendRemoval(t) ==
    /\ padAt[t] = "leave"
    /\ State(slot[t], {})
    /\ Back(t)
    /\ UNCHANGED <<slotVars, connVars, pad, slot, todo, inp>>

-----------------------------------------------------------------------------
(* detach_input_peer and release_client_gamepads *)

\* Bug: the gamepads of every client are collected.
DetachCollectAll(t) ==
    /\ padAt[t] = "idle"
    /\ slotsLock = NoHolder
    /\ peer' = [peer EXCEPT ![t[1]] = "closed"]
    /\ todo' = [todo EXCEPT ![t] = {g \in Gamepads : slots[g] # NoSlot}]
    /\ PadGoto(t, "next")
    /\ UNCHANGED <<slotVars, starting, streaming, messages, pad, slot, inp, pads>>

\* The peer leaves the map and is closed: no message is received from now on,
\* but a handler that runs goes on.  The client's gamepads are then collected.
DetachCollect(t) ==
    /\ padAt[t] = "idle"
    /\ slotsLock = NoHolder
    /\ peer' = [peer EXCEPT ![t[1]] = "closed"]
    /\ todo' = [todo EXCEPT ![t] =
                  {g \in Gamepads : g[1] = t[1] /\ slots[g] # NoSlot}]
    /\ PadGoto(t, "next")
    /\ UNCHANGED <<slotVars, starting, streaming, messages, pad, slot, inp, pads>>

\* Bug: the gamepads are only released when there is a stream to tell.
DetachNextIfStream(t) ==
    /\ padAt[t] = "next"
    /\ IF todo[t] = {} \/ ~streaming
       THEN PadGoto(t, "done") /\ UNCHANGED <<pad, todo>>
       ELSE \E g \in todo[t] : /\ pad' = [pad EXCEPT ![t] = g]
                               /\ todo' = [todo EXCEPT ![t] = @ \ {g}]
                               /\ PadGoto(t, "remove")
    /\ UNCHANGED <<slotVars, connVars, slot, inp, pads>>

DetachNext(t) ==
    /\ padAt[t] = "next"
    /\ IF todo[t] = {}
       THEN PadGoto(t, "done") /\ UNCHANGED <<pad, todo>>
       ELSE \E g \in todo[t] : /\ pad' = [pad EXCEPT ![t] = g]
                               /\ todo' = [todo EXCEPT ![t] = @ \ {g}]
                               /\ PadGoto(t, "remove")
    /\ UNCHANGED <<slotVars, connVars, slot, inp, pads>>

-----------------------------------------------------------------------------
(* on_controller_input_message *)

\* Without a stream or a slot the message is dropped.
InputLookup(g) ==
    /\ inp[g].at = "idle"
    /\ peer[g[1]] = "open"
    /\ streaming
    /\ slotsLock = NoHolder
    /\ slots[g] # NoSlot
    /\ inp' = [inp EXCEPT ![g] = [at |-> "check", slot |-> slots[g], mask |-> {}]]
    /\ UNCHANGED <<slotVars, connVars, taskVars, pads>>

\* The mask is read after the slot, and must still have it.
InputCheck(g) ==
    /\ inp[g].at = "check"
    /\ inp' = [inp EXCEPT ![g] =
                 [at   |-> IF inp[g].slot \in active THEN "send" ELSE "idle",
                  slot |-> inp[g].slot,
                  mask |-> active]]
    /\ UNCHANGED <<slotVars, connVars, taskVars, pads>>

InputSend(g) ==
    /\ inp[g].at = "send"
    /\ State(inp[g].slot, inp[g].mask)
    /\ inp' = [inp EXCEPT ![g].at = "idle"]
    /\ UNCHANGED <<slotVars, connVars, taskVars>>

-----------------------------------------------------------------------------

TaskStep(t) ==
    \/ Add(t) \/ Allocate(t) \/ SendArrival(t)
    \/ Remove(t) \/ Release(t) \/ SendRemoval(t)
    \/ DetachNext(t)

InputStep(g) == InputCheck(g) \/ InputSend(g)

SlotsNext ==
    \/ StartBegins \/ StartReturns
    \/ \E c \in Browsers, l \in LocalIds, what \in {"add", "remove"} :
           Receive(c, l, what)
    \/ \E t \in PadTasks : TaskStep(t)
    \/ \E t \in DetachTasks : DetachCollect(t)
    \/ \E g \in Gamepads : InputLookup(g) \/ InputStep(g)

SlotsSpec == SlotsInit /\ [][SlotsNext]_gamepadVars

\* Tasks run on, and the start of a stream ends (its requests have timeouts).  A lock
\* is held for a few steps, so that weak fairness is enough for the tasks that wait
\* for it.  Nothing is assumed of browsers.
SlotsFairness ==
    /\ WF_gamepadVars(StartReturns)
    /\ \A t \in PadTasks : WF_gamepadVars(TaskStep(t))

FairSlotsSpec == SlotsSpec /\ SlotsFairness

-----------------------------------------------------------------------------
(* Properties *)

\* Two gamepads never share a Sunshine controller, whoever's they are (the
\* purpose of gamepad_slots).
NoSharedSlot ==
    \A g, h \in Gamepads : slots[g] # NoSlot /\ slots[g] = slots[h] => g = h

\* Whenever nobody is changing them, the mask and the map agree.
MaskIsWhatIsHeld ==
    slotsLock = NoHolder => active = {slots[g] : g \in Gamepads} \ {NoSlot}

\* A gamepad keeps its slot until its own client removes it or is detached,
\* whatever the other clients do and however often it is announced
\* (allocate_gamepad_slot returns the existing one).
SlotKept ==
    [][\A g \in Gamepads :
          slots[g] # NoSlot /\ slots'[g] # slots[g]
            => /\ slots'[g] = NoSlot
               /\ \E t \in PadTasks :
                     t[1] = g[1] /\ padAt[t] = "remove" /\ pad[t] = g]_gamepadVars

\* The map is not locked for ever, even if a gamepad is added while the stream
\* is being started: every request is answered.
MessagesAnswered ==
    \A t \in CtlTasks : padAt[t] \in {"add", "remove"} ~> padAt[t] = "idle"

\* A client's gamepads known when it is detached are all released.
DetachReleases ==
    \A t \in DetachTasks, l \in LocalIds :
        LET g == <<t[1], l>> IN
        padAt[t] = "next" /\ g \in todo[t] /\ padAt[<<t[1], "controllers">>] = "idle"
            ~> slots[g] = NoSlot

\* A client that is detached for good holds no slot (the doc comment of
\* release_client_gamepads).
DetachedHoldsNothing ==
    \A g \in Gamepads :
        (\A t \in DetachTasks : t[1] = g[1] => padAt[t] = "done")
            /\ g[1] # Primary /\ padAt[<<g[1], "controllers">>] = "idle"
          => slots[g] = NoSlot
=============================================================================
