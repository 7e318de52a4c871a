------------------------- MODULE GamepadSlotsProofs -------------------------
(***************************************************************************)
(* What holds of GamepadSlots for every set of clients and gamepads, every *)
(* number of slots and every number of messages.                           *)
(***************************************************************************)
EXTENDS GamepadSlots, TLAPS

\* The sets of clients and of the numbers they use.
LEMMA TaskFacts ==
    /\ \A c \in Browsers : <<c, "controllers">> \in CtlTasks
    /\ \A t \in PadTasks : t[1] \in Browsers
    /\ CtlTasks \subseteq PadTasks /\ DetachTasks \subseteq PadTasks
BY DEF CtlTasks, DetachTasks, PadTasks

\* Two locks in sequence: a task is between them exactly while it holds the
\* first, the map's.
LockInv == \A t \in PadTasks : padAt[t] \in {"allocate", "release"} <=> slotsLock = t

\* A task that has a slot in its hands has a real one, and one that allocates
\* has a gamepad without a slot.
HandsInv ==
    \A t \in PadTasks : /\ padAt[t] \in {"arrive", "release", "leave"} => slot[t] \in Slots
                        /\ padAt[t] = "allocate" => slots[pad[t]] = NoSlot

\* The mask holds the slots of the map and the one that is just being released,
\* which the map has no more.
MaskInv ==
    /\ \A g \in Gamepads : slots[g] # NoSlot => slots[g] \in active
    /\ \A s \in active : \/ \E g \in Gamepads : slots[g] = s
                         \/ \E t \in PadTasks : padAt[t] = "release" /\ slot[t] = s
    /\ \A t \in PadTasks, g \in Gamepads : padAt[t] = "release" => slots[g] # slot[t]

\* A task only works on gamepads of its own client.
OwnInv ==
    \A t \in PadTasks : /\ pad[t] \in Gamepads /\ pad[t][1] = t[1]
                        /\ \A g \in todo[t] : g[1] = t[1]

BaseInv == SlotsTypeOK /\ LockInv /\ HandsInv
Inv     == BaseInv /\ NoSharedSlot /\ MaskInv /\ OwnInv

-----------------------------------------------------------------------------

LEMMA InitInv == SlotsInit => Inv
<1> SUFFICES ASSUME SlotsInit PROVE Inv
  OBVIOUS
<1> USE GamepadAssumption DEF SlotsInit
<1>1. SlotsTypeOK
  <2>1. \A t \in PadTasks : <<t[1], CHOOSE l \in LocalIds : TRUE>> \in Gamepads
    BY TaskFacts DEF Gamepads
  <2>2. pad \in [PadTasks -> Gamepads]
    BY <2>1
  <2>3. inp \in [Gamepads -> [at : {"idle", "check", "send"}, slot : Slots \cup {NoSlot},
                             mask : SUBSET Slots]]
    OBVIOUS
  <2>4. padAt \in [PadTasks -> PadLabels] /\ messages \in 0..MaxMessages
    BY DEF PadLabels
  <2>5. /\ slots \in [Gamepads -> Slots \cup {NoSlot}]
        /\ slot \in [PadTasks -> Slots \cup {NoSlot}]
        /\ peer \in [Browsers -> {"open", "closed"}]
        /\ todo \in [PadTasks -> SUBSET Gamepads]
    OBVIOUS
  <2>6. /\ active \subseteq Slots /\ pads \subseteq Slots
        /\ slotsLock \in PadTasks \cup {NoHolder}
        /\ starting \in BOOLEAN /\ streaming \in BOOLEAN
    OBVIOUS
  <2> HIDE DEF SlotsInit
  <2> QED  BY <2>2, <2>3, <2>4, <2>5, <2>6 DEF SlotsTypeOK
<1>2. LockInv /\ HandsInv /\ NoSharedSlot /\ MaskInv
  BY DEF LockInv, HandsInv, NoSharedSlot, MaskInv
<1>3. OwnInv
  BY TaskFacts DEF OwnInv, Gamepads
<1> QED  BY <1>1, <1>2, <1>3 DEF Inv, BaseInv

\* A task that moves leaves the labels well typed.
LEMMA Moves ==
    ASSUME SlotsTypeOK, NEW t \in PadTasks
    PROVE  /\ \A l \in PadLabels : PadGoto(t, l) => padAt' \in [PadTasks -> PadLabels]
           /\ Back(t) => padAt' \in [PadTasks -> PadLabels]
BY DEF SlotsTypeOK, PadGoto, Back, PadLabels

\* Every step keeps the types.
LEMMA TypeStep == ASSUME Inv, [SlotsNext]_gamepadVars PROVE SlotsTypeOK'
<1> USE GamepadAssumption, TaskFacts DEF slotVars, connVars, taskVars
<1>0. SlotsTypeOK /\ HandsInv
  BY DEF Inv, BaseInv
<1>1. CASE StartBegins \/ StartReturns \/ UNCHANGED gamepadVars
  BY <1>0, <1>1 DEF StartBegins, StartReturns, gamepadVars, SlotsTypeOK
<1>2. ASSUME NEW c \in Browsers, NEW l \in LocalIds, NEW w \in {"add", "remove"},
             Receive(c, l, w)
      PROVE  SlotsTypeOK'
  <2>1. padAt' \in [PadTasks -> PadLabels]
    BY <1>0, <1>2, Moves DEF Receive, PadLabels
  <2>2. pad' \in [PadTasks -> Gamepads]
    BY <1>0, <1>2 DEF Receive, SlotsTypeOK, Gamepads
  <2>3. messages' \in 0..MaxMessages
    BY <1>0, <1>2 DEF Receive, SlotsTypeOK
  <2> QED  BY <1>0, <1>2, <2>1, <2>2, <2>3 DEF Receive, SlotsTypeOK
<1>3. ASSUME NEW t \in PadTasks, TaskStep(t) PROVE SlotsTypeOK'
  <2>1. CASE Add(t)
    BY <1>0, <2>1, Moves DEF Add, SlotsTypeOK, PadLabels
  <2>2. CASE Allocate(t)
    <3>1. padAt' \in [PadTasks -> PadLabels]
      BY <1>0, <2>2, Moves DEF Allocate, PadLabels
    <3>2. /\ slots' \in [Gamepads -> Slots \cup {NoSlot}] /\ active' \subseteq Slots
          /\ slot' \in [PadTasks -> Slots \cup {NoSlot}]
      <4>1. \/ UNCHANGED <<slots, active, slot>>
            \/ \E s \in Slots : /\ slots' = [slots EXCEPT ![pad[t]] = s]
                               /\ active' = active \cup {s}
                               /\ slot' = [slot EXCEPT ![t] = s]
        BY <2>2 DEF Allocate
      <4>2. /\ slots \in [Gamepads -> Slots \cup {NoSlot}] /\ active \subseteq Slots
            /\ slot \in [PadTasks -> Slots \cup {NoSlot}]
        BY <1>0 DEF SlotsTypeOK
      <4> QED  BY <4>1, <4>2
    <3> QED  BY <1>0, <2>2, <3>1, <3>2 DEF Allocate, SlotsTypeOK
  <2>3. CASE SendArrival(t)
    BY <1>0, <2>3, Moves DEF SendArrival, Arrive, SlotsTypeOK, HandsInv, PadLabels
  <2>4. CASE Remove(t)
    <3>1. padAt' \in [PadTasks -> PadLabels]
      BY <1>0, <2>4, Moves DEF Remove, PadLabels
    <3>2. /\ slots' \in [Gamepads -> Slots \cup {NoSlot}]
          /\ slot' \in [PadTasks -> Slots \cup {NoSlot}]
          /\ slotsLock' \in PadTasks \cup {NoHolder}
      BY <1>0, <2>4 DEF Remove, SlotsTypeOK
    <3> QED  BY <1>0, <2>4, <3>1, <3>2 DEF Remove, SlotsTypeOK
  <2>5. CASE Release(t)
    BY <1>0, <2>5, Moves DEF Release, SlotsTypeOK, PadLabels
  <2>6. CASE SendRemoval(t)
    BY <1>0, <2>6, Moves DEF SendRemoval, State, SlotsTypeOK, HandsInv
  <2>7. CASE DetachNext(t)
    <3>1. padAt' \in [PadTasks -> PadLabels]
      BY <1>0, <2>7, Moves DEF DetachNext, PadLabels
    <3>2. pad' \in [PadTasks -> Gamepads] /\ todo' \in [PadTasks -> SUBSET Gamepads]
      <4>1. UNCHANGED <<pad, todo>> \/ \E g \in todo[t] :
              pad' = [pad EXCEPT ![t] = g] /\ todo' = [todo EXCEPT ![t] = @ \ {g}]
        BY <2>7 DEF DetachNext
      <4>2. todo[t] \subseteq Gamepads
        BY <1>0 DEF SlotsTypeOK
      <4>3. pad \in [PadTasks -> Gamepads] /\ todo \in [PadTasks -> SUBSET Gamepads]
        BY <1>0 DEF SlotsTypeOK
      <4>4. ASSUME NEW g \in todo[t], pad' = [pad EXCEPT ![t] = g],
                   todo' = [todo EXCEPT ![t] = todo[t] \ {g}]
            PROVE  pad' \in [PadTasks -> Gamepads] /\ todo' \in [PadTasks -> SUBSET Gamepads]
        <5>1. g \in Gamepads /\ todo[t] \ {g} \in SUBSET Gamepads
          BY <4>2
        <5> QED  BY <4>3, <4>4, <5>1
      <4> QED  BY <4>1, <4>3, <4>4
    <3> QED  BY <1>0, <2>7, <3>1, <3>2 DEF DetachNext, SlotsTypeOK
  <2> QED  BY <1>3, <2>1, <2>2, <2>3, <2>4, <2>5, <2>6, <2>7 DEF TaskStep
<1>4. ASSUME NEW t \in DetachTasks, DetachCollect(t) PROVE SlotsTypeOK'
  <2>1. padAt' \in [PadTasks -> PadLabels]
    BY <1>0, <1>4, Moves DEF DetachCollect, PadLabels
  <2>2. /\ peer' \in [Browsers -> {"open", "closed"}]
        /\ todo' \in [PadTasks -> SUBSET Gamepads]
    BY <1>0, <1>4 DEF DetachCollect, SlotsTypeOK
  <2> QED  BY <1>0, <1>4, <2>1, <2>2 DEF DetachCollect, SlotsTypeOK
<1>5. ASSUME NEW g \in Gamepads, InputLookup(g) PROVE SlotsTypeOK'
  BY <1>0, <1>5 DEF InputLookup, SlotsTypeOK
<1>6. ASSUME NEW g \in Gamepads, InputStep(g) PROVE SlotsTypeOK'
  <2>1. CASE InputCheck(g)
    <3>1. inp[g].slot \in Slots \cup {NoSlot}
      BY <1>0 DEF SlotsTypeOK
    <3> QED  BY <1>0, <2>1, <3>1 DEF InputCheck, SlotsTypeOK
  <2>2. CASE InputSend(g)
    <3>1. pads' \subseteq Slots
      BY <1>0, <2>2 DEF InputSend, State, SlotsTypeOK
    <3>2. inp' \in [Gamepads -> [at : {"idle", "check", "send"},
                                 slot : Slots \cup {NoSlot}, mask : SUBSET Slots]]
      BY <1>0, <2>2 DEF InputSend, SlotsTypeOK
    <3> QED  BY <1>0, <2>2, <3>1, <3>2 DEF InputSend, SlotsTypeOK
  <2> QED  BY <1>6, <2>1, <2>2 DEF InputStep
<1> QED  BY <1>1, <1>2, <1>3, <1>4, <1>5, <1>6 DEF SlotsNext

\* The steps that leave alone the map, the mask, the lock and the places of the
\* tasks that hold it.
LEMMA QuietSteps ==
    ASSUME Inv, [SlotsNext]_gamepadVars
    PROVE  \/ \E t \in PadTasks : Add(t) \/ Allocate(t) \/ Remove(t) \/ Release(t)
           \/ /\ UNCHANGED <<slots, active, slotsLock, slot>>
              /\ \A t \in PadTasks :
                   \/ padAt'[t] = padAt[t] /\ pad'[t] = pad[t]
                   \/ /\ padAt[t] \notin {"allocate", "release"}
                      /\ padAt'[t] \in {"idle", "add", "remove", "next", "done"}
<1> USE TaskFacts DEF slotVars, connVars, taskVars
<1>0. SlotsTypeOK
  BY DEF Inv, BaseInv
<1>1. CASE StartBegins \/ StartReturns \/ UNCHANGED gamepadVars
  BY <1>1 DEF StartBegins, StartReturns, gamepadVars
<1>2. ASSUME NEW c \in Browsers, NEW l \in LocalIds, NEW w \in {"add", "remove"},
             Receive(c, l, w)
      PROVE  /\ UNCHANGED <<slots, active, slotsLock, slot>>
             /\ \A t \in PadTasks :
                   \/ padAt'[t] = padAt[t] /\ pad'[t] = pad[t]
                   \/ /\ padAt[t] \notin {"allocate", "release"}
                      /\ padAt'[t] \in {"idle", "add", "remove", "next", "done"}
  BY <1>0, <1>2 DEF Receive, PadGoto, SlotsTypeOK
<1>3. ASSUME NEW u \in PadTasks, SendArrival(u) \/ SendRemoval(u) \/ DetachNext(u)
      PROVE  /\ UNCHANGED <<slots, active, slotsLock, slot>>
             /\ \A t \in PadTasks :
                   \/ padAt'[t] = padAt[t] /\ pad'[t] = pad[t]
                   \/ /\ padAt[t] \notin {"allocate", "release"}
                      /\ padAt'[t] \in {"idle", "add", "remove", "next", "done"}
  BY <1>0, <1>3 DEF SendArrival, SendRemoval, DetachNext, PadGoto, Back, SlotsTypeOK
<1>4. ASSUME NEW u \in DetachTasks, DetachCollect(u)
      PROVE  /\ UNCHANGED <<slots, active, slotsLock, slot>>
             /\ \A t \in PadTasks :
                   \/ padAt'[t] = padAt[t] /\ pad'[t] = pad[t]
                   \/ /\ padAt[t] \notin {"allocate", "release"}
                      /\ padAt'[t] \in {"idle", "add", "remove", "next", "done"}
  BY <1>0, <1>4 DEF DetachCollect, PadGoto, SlotsTypeOK
<1>5. ASSUME NEW g \in Gamepads, InputLookup(g) \/ InputStep(g)
      PROVE  UNCHANGED <<slots, active, slotsLock, slot, padAt, pad>>
  BY <1>5 DEF InputLookup, InputStep, InputCheck, InputSend
<1> QED  BY <1>1, <1>2, <1>3, <1>4, <1>5 DEF SlotsNext, TaskStep

\* Every step keeps the lock, the map and the mask in agreement.
LEMMA SlotStep == ASSUME Inv, [SlotsNext]_gamepadVars
                  PROVE  LockInv' /\ HandsInv' /\ NoSharedSlot' /\ MaskInv'
<1> USE TaskFacts, GamepadAssumption DEF slotVars, connVars, taskVars
<1>0. SlotsTypeOK /\ LockInv /\ HandsInv /\ NoSharedSlot /\ MaskInv
  BY DEF Inv, BaseInv
<1>1. ASSUME NEW t \in PadTasks, Add(t)
      PROVE  LockInv' /\ HandsInv' /\ NoSharedSlot' /\ MaskInv'
  <2>1. LockInv' /\ HandsInv'
    BY <1>0, <1>1 DEF Add, PadGoto, SlotsTypeOK, LockInv, HandsInv
  <2>2. NoSharedSlot'
    BY <1>0, <1>1 DEF Add, NoSharedSlot
  <2>3. \A u \in PadTasks : padAt'[u] = "release" <=> padAt[u] = "release"
    BY <1>0, <1>1 DEF Add, PadGoto, SlotsTypeOK
  <2>4. /\ UNCHANGED <<slots, active>>
        /\ \A u \in PadTasks : padAt[u] = "release" => slot'[u] = slot[u]
    BY <1>0, <1>1 DEF Add, SlotsTypeOK
  <2>5. MaskInv'
    BY <1>0, <2>3, <2>4 DEF MaskInv
  <2> QED  BY <2>1, <2>2, <2>5
<1>2. ASSUME NEW t \in PadTasks, Allocate(t)
      PROVE  LockInv' /\ HandsInv' /\ NoSharedSlot' /\ MaskInv'
  <2>1. \A u \in PadTasks : u # t => padAt[u] \notin {"allocate", "release"}
    BY <1>0, <1>2 DEF Allocate, LockInv
  <2>2. /\ \A u \in PadTasks : u # t => padAt'[u] = padAt[u]
        /\ padAt'[t] \in {"idle", "arrive"}
    BY <1>0, <1>2 DEF Allocate, PadGoto, SlotsTypeOK
  <2>3. LockInv'
    BY <1>0, <1>2, <2>1, <2>2 DEF Allocate, LockInv
  <2>4. CASE UNCHANGED <<slots, active, slot>> /\ padAt'[t] = "idle"
    BY <1>0, <1>2, <2>1, <2>2, <2>3, <2>4
    DEF Allocate, HandsInv, NoSharedSlot, MaskInv
  <2>5. ASSUME NEW s \in Slots \ active, slots' = [slots EXCEPT ![pad[t]] = s],
               active' = active \cup {s}, slot' = [slot EXCEPT ![t] = s]
        PROVE  HandsInv' /\ NoSharedSlot' /\ MaskInv'
    <3>1. \A g \in Gamepads : slots[g] # s
      BY <1>0, <2>5 DEF MaskInv
    <3>2. pad[t] \in Gamepads /\ slots'[pad[t]] = s
          /\ \A g \in Gamepads : g # pad[t] => slots'[g] = slots[g]
      BY <1>0, <2>5 DEF SlotsTypeOK
    <3>3. HandsInv'
      BY <1>0, <1>2, <2>1, <2>2, <2>5 DEF HandsInv, SlotsTypeOK
    <3>4. NoSharedSlot'
      BY <1>0, <3>1, <3>2 DEF NoSharedSlot
    <3>5. \A u \in PadTasks : padAt[u] # "release" /\ padAt'[u] # "release"
      BY <1>2, <2>1, <2>2 DEF Allocate
    <3>6. slots[pad[t]] = NoSlot
      BY <1>0, <1>2 DEF Allocate, HandsInv
    <3>7. MaskInv'
      BY <1>0, <2>5, <3>2, <3>5, <3>6 DEF MaskInv, SlotsTypeOK
    <3> QED  BY <3>3, <3>4, <3>7
  <2>6. \/ UNCHANGED <<slots, active, slot>> /\ padAt'[t] = "idle"
        \/ \E s \in Slots \ active : /\ slots' = [slots EXCEPT ![pad[t]] = s]
                                     /\ active' = active \cup {s}
                                     /\ slot' = [slot EXCEPT ![t] = s]
    BY <1>0, <1>2 DEF Allocate, PadGoto, SlotsTypeOK
  <2> QED  BY <2>3, <2>4, <2>5, <2>6
<1>3. ASSUME NEW t \in PadTasks, Remove(t)
      PROVE  LockInv' /\ HandsInv' /\ NoSharedSlot' /\ MaskInv'
  <2>1. \A u \in PadTasks : padAt[u] \notin {"allocate", "release"}
    BY <1>0, <1>3 DEF Remove, LockInv
  <2>2. CASE slots[pad[t]] = NoSlot
    <3>1. UNCHANGED <<slots, active, slotsLock, slot>>
      BY <1>3, <2>2 DEF Remove
    <3>2. \A u \in PadTasks : padAt'[u] \notin {"allocate", "release"}
          /\ (padAt'[u] = padAt[u] \/ padAt'[u] \in {"idle", "next"})
      BY <1>0, <1>3, <2>1, <2>2 DEF Remove, Back, PadGoto, SlotsTypeOK
    <3> QED  BY <1>0, <1>3, <2>1, <3>1, <3>2
             DEF Remove, LockInv, HandsInv, NoSharedSlot, MaskInv
  <2>3. CASE slots[pad[t]] # NoSlot
    <3>1. /\ slotsLock = NoHolder /\ slotsLock' = t /\ UNCHANGED <<active, pad>>
          /\ slots' = [slots EXCEPT ![pad[t]] = NoSlot]
          /\ slot' = [slot EXCEPT ![t] = slots[pad[t]]]
          /\ padAt' = [padAt EXCEPT ![t] = "release"]
      BY <1>3, <2>3 DEF Remove, PadGoto
    <3>2. /\ padAt'[t] = "release" /\ slot'[t] = slots[pad[t]]
          /\ slot'[t] \in Slots
          /\ \A u \in PadTasks : u # t => padAt'[u] = padAt[u] /\ slot'[u] = slot[u]
      BY <1>0, <2>3, <3>1 DEF SlotsTypeOK
    <3>3. /\ pad[t] \in Gamepads /\ slots'[pad[t]] = NoSlot
          /\ \A g \in Gamepads : g # pad[t] => slots'[g] = slots[g]
      BY <1>0, <3>1 DEF SlotsTypeOK
    <3>4. LockInv'
      BY <1>0, <2>1, <3>1, <3>2 DEF LockInv
    <3>5. HandsInv'
      BY <1>0, <2>1, <3>2 DEF HandsInv
    <3>6. NoSharedSlot'
      BY <1>0, <3>3 DEF NoSharedSlot
    <3>7. \A g \in Gamepads : slots'[g] # slot'[t]
      BY <1>0, <2>3, <3>2, <3>3 DEF NoSharedSlot
    <3>8. MaskInv'
      BY <1>0, <2>1, <3>1, <3>2, <3>3, <3>7 DEF MaskInv
    <3> QED  BY <3>4, <3>5, <3>6, <3>8
  <2> QED  BY <2>2, <2>3
<1>4. ASSUME NEW t \in PadTasks, Release(t)
      PROVE  LockInv' /\ HandsInv' /\ NoSharedSlot' /\ MaskInv'
  <2>1. \A u \in PadTasks : u # t => padAt[u] \notin {"allocate", "release"}
    BY <1>0, <1>4 DEF Release, LockInv
  <2>2. /\ \A u \in PadTasks : u # t => padAt'[u] = padAt[u]
        /\ padAt'[t] = "leave" /\ padAt[t] = "release"
    BY <1>0, <1>4 DEF Release, PadGoto, SlotsTypeOK
  <2>3. LockInv' /\ HandsInv' /\ NoSharedSlot'
    BY <1>0, <1>4, <2>1, <2>2 DEF Release, LockInv, HandsInv, NoSharedSlot
  <2>4. \A u \in PadTasks : padAt'[u] # "release"
    BY <2>1, <2>2
  <2>5. MaskInv'
    BY <1>0, <1>4, <2>1, <2>2, <2>4 DEF Release, MaskInv
  <2> QED  BY <2>3, <2>5
<1>5. ASSUME UNCHANGED <<slots, active, slotsLock, slot>>,
             \A t \in PadTasks :
                   \/ padAt'[t] = padAt[t] /\ pad'[t] = pad[t]
                   \/ /\ padAt[t] \notin {"allocate", "release"}
                      /\ padAt'[t] \in {"idle", "add", "remove", "next", "done"}
      PROVE  LockInv' /\ HandsInv' /\ NoSharedSlot' /\ MaskInv'
  <2>1. \A t \in PadTasks :
           \/ padAt'[t] = padAt[t] /\ pad'[t] = pad[t]
           \/ /\ padAt'[t] \notin {"allocate", "release", "arrive", "leave"}
              /\ padAt[t] \notin {"allocate", "release"}
    BY <1>5
  <2>2. \A t \in PadTasks : padAt'[t] = "release" <=> padAt[t] = "release"
    BY <2>1
  <2> QED  BY <1>0, <1>5, <2>1, <2>2 DEF LockInv, HandsInv, NoSharedSlot, MaskInv
<1> QED  BY <1>1, <1>2, <1>3, <1>4, <1>5, QuietSteps

\* Every step leaves the tasks with gamepads of their own clients.
LEMMA OwnStep == ASSUME Inv, [SlotsNext]_gamepadVars PROVE OwnInv'
<1> USE TaskFacts DEF slotVars, connVars, taskVars
<1>0. SlotsTypeOK /\ OwnInv
  BY DEF Inv, BaseInv
<1>1. CASE UNCHANGED <<pad, todo>>
  BY <1>0, <1>1 DEF OwnInv
<1>2. ASSUME NEW c \in Browsers, NEW l \in LocalIds, NEW w \in {"add", "remove"},
             Receive(c, l, w)
      PROVE  OwnInv'
  <2>1. /\ pad' = [pad EXCEPT ![<<c, "controllers">>] = <<c, l>>]
        /\ UNCHANGED todo
    BY <1>2 DEF Receive
  <2>2. <<c, l>> \in Gamepads
    BY DEF Gamepads
  <2> QED  BY <1>0, <2>1, <2>2 DEF OwnInv, SlotsTypeOK
<1>3. ASSUME NEW t \in PadTasks, DetachNext(t) PROVE OwnInv'
  <2>1. ASSUME NEW g \in todo[t], pad' = [pad EXCEPT ![t] = g],
               todo' = [todo EXCEPT ![t] = todo[t] \ {g}]
        PROVE  OwnInv'
    <3>1. g \in Gamepads /\ g[1] = t[1]
      BY <1>0 DEF OwnInv, SlotsTypeOK
    <3> QED  BY <1>0, <2>1, <3>1 DEF OwnInv, SlotsTypeOK
  <2> QED  BY <1>1, <1>3, <2>1 DEF DetachNext
<1>4. ASSUME NEW t \in DetachTasks, DetachCollect(t) PROVE OwnInv'
  <2>1. /\ UNCHANGED pad
        /\ todo' = [todo EXCEPT ![t] = {g \in Gamepads : g[1] = t[1] /\ slots[g] # NoSlot}]
    BY <1>4 DEF DetachCollect
  <2> QED  BY <1>0, <2>1 DEF OwnInv, SlotsTypeOK
<1>5. ASSUME NEW t \in PadTasks, TaskStep(t), ~DetachNext(t) PROVE UNCHANGED <<pad, todo>>
  BY <1>5 DEF TaskStep, Add, Allocate, SendArrival, Remove, Release, SendRemoval
<1>6. ASSUME StartBegins \/ StartReturns \/ UNCHANGED gamepadVars PROVE UNCHANGED <<pad, todo>>
  BY <1>6 DEF StartBegins, StartReturns, gamepadVars
<1>7. ASSUME NEW g \in Gamepads, InputLookup(g) \/ InputStep(g)
      PROVE  UNCHANGED <<pad, todo>>
  BY <1>7 DEF InputLookup, InputStep, InputCheck, InputSend
<1> QED  BY <1>1, <1>2, <1>3, <1>4, <1>5, <1>6, <1>7 DEF SlotsNext

-----------------------------------------------------------------------------
(* The theorems *)

\* Two gamepads never have one slot, and the map and the mask agree up to the
\* release in progress.
THEOREM Agreement == SlotsSpec => []Inv
<1>1. SlotsInit => Inv
  BY InitInv
<1>2. Inv /\ [SlotsNext]_gamepadVars => Inv'
  BY TypeStep, SlotStep, OwnStep DEF Inv, BaseInv
<1> QED  BY <1>1, <1>2, PTL DEF SlotsSpec

\* The types, for every set of clients and number of slots.
THEOREM SlotsTypeSafe == SlotsSpec => []SlotsTypeOK
<1>1. Inv => SlotsTypeOK
  BY DEF Inv, BaseInv
<1> QED  BY <1>1, Agreement, PTL

\* Two gamepads never share a controller of Sunshine (allocate_gamepad_slot).
THEOREM SlotsNotShared == SlotsSpec => []NoSharedSlot
<1>1. Inv => NoSharedSlot
  BY DEF Inv
<1> QED  BY <1>1, Agreement, PTL

\* While nobody holds the map's lock, active_gamepads is what the map holds.
THEOREM MaskAgrees == SlotsSpec => []MaskIsWhatIsHeld
<1>1. Inv => MaskIsWhatIsHeld
  <2> SUFFICES ASSUME Inv, slotsLock = NoHolder
               PROVE  active = {slots[g] : g \in Gamepads} \ {NoSlot}
    BY DEF MaskIsWhatIsHeld
  <2>1. \A t \in PadTasks : padAt[t] # "release"
    BY GamepadAssumption DEF Inv, BaseInv, LockInv
  <2> QED  BY <2>1, GamepadAssumption DEF Inv, BaseInv, SlotsTypeOK, MaskInv
<1> QED  BY <1>1, Agreement, PTL

\* A gamepad keeps its slot until its own client removes it or is detached: it
\* is not moved when it is announced again, nor lost with another client's.
THEOREM SlotStays == SlotsSpec => SlotKept
<1> DEFINE Kept ==
      \A g \in Gamepads :
          slots[g] # NoSlot /\ slots'[g] # slots[g]
            => /\ slots'[g] = NoSlot
               /\ \E t \in PadTasks : t[1] = g[1] /\ padAt[t] = "remove" /\ pad[t] = g
<1>1. Inv /\ [SlotsNext]_gamepadVars => [Kept]_gamepadVars
  <2> SUFFICES ASSUME Inv, [SlotsNext]_gamepadVars PROVE Kept
    OBVIOUS
  <2>0. SlotsTypeOK /\ HandsInv /\ OwnInv
    BY DEF Inv, BaseInv
  <2>1. ASSUME NEW t \in PadTasks, Allocate(t) PROVE Kept
    <3>1. padAt[t] = "allocate" /\ slots[pad[t]] = NoSlot
      BY <2>0, <2>1 DEF Allocate, HandsInv
    <3>2. \A g \in Gamepads : g # pad[t] => slots'[g] = slots[g]
      BY <2>0, <2>1 DEF Allocate, SlotsTypeOK
    <3> QED  BY <3>1, <3>2
  <2>2. ASSUME NEW t \in PadTasks, Remove(t) PROVE Kept
    <3>1. padAt[t] = "remove" /\ pad[t][1] = t[1]
      BY <2>0, <2>2 DEF Remove, OwnInv
    <3>2. \A g \in Gamepads : slots'[g] = IF g = pad[t] THEN NoSlot ELSE slots[g]
      BY <2>0, <2>2 DEF Remove, SlotsTypeOK
    <3> QED  BY <3>1, <3>2
  <2>3. CASE UNCHANGED slots
    BY <2>3
  <2>4. ASSUME NEW t \in PadTasks, Add(t) \/ Release(t) PROVE UNCHANGED slots
    BY <2>4 DEF Add, Release
  <2> QED  BY <2>1, <2>2, <2>3, <2>4, QuietSteps
<1> QED  BY <1>1, Agreement, PTL DEF SlotsSpec, SlotKept
=============================================================================
