----------------------------- MODULE TouchInput -----------------------------
(***************************************************************************)
(* Fingers as a mouse: the touch events of StreamInput                     *)
(* (moonlight-web/web-server/web/stream/input.ts) in the modes that drive  *)
(* the mouse of the host, "mouseRelative" and "pointAndDrag".              *)
(*                                                                         *)
(* A position is reduced to whether it is further from where the finger    *)
(* touched down than TOUCH_AS_CLICK_MAX_DISTANCE, a time to whether it is  *)
(* past a threshold; cursor moves and scrolling are left out.              *)
(***************************************************************************)
EXTENDS Naturals, FiniteSets

CONSTANTS
    Fingers,
    NoFinger,
    TouchModes,   \* the modes that are used
    MaxConfigs    \* bound: calls of setConfig

VARIABLES
    touchMode,      \* config.touchMode
    touching,       \* fingers on the screen
    touchTracker,   \* what is kept of each
    primaryTouch,
    touchMouseAction,
    touchGestureSuppressClick,
    configs,        \* calls of setConfig
    leftHeld,       \* the left button of the host
    clicked,        \* history: the last event pressed a button
    many            \* history: fingers were put down to make two or three tracked ones,
                    \* and the tracker has not been empty since

gestureVars == <<touching, touchTracker, primaryTouch, touchMouseAction,
                 touchGestureSuppressClick, many>>
touchVars   == <<touchMode, gestureVars, configs, leftHeld, clicked>>

Tracks == [far : BOOLEAN, mouseMoved : BOOLEAN, mouseClicked : BOOLEAN]

TouchTypeOK ==
    /\ touchMode \in TouchModes
    /\ touching \subseteq Fingers /\ DOMAIN touchTracker \subseteq touching
    /\ \A f \in DOMAIN touchTracker : touchTracker[f] \in Tracks
    /\ primaryTouch \in Fingers \cup {NoFinger}
    /\ touchMouseAction \in {"default", "scroll", "screenKeyboard"}
    /\ touchGestureSuppressClick \in BOOLEAN /\ configs \in 0..MaxConfigs
    /\ leftHeld \in BOOLEAN /\ clicked \in BOOLEAN /\ many \in BOOLEAN

TouchInit ==
    /\ touchMode \in TouchModes
    /\ touching = {} /\ touchTracker = <<>> /\ primaryTouch = NoFinger
    /\ touchMouseAction = "default" /\ touchGestureSuppressClick = FALSE
    /\ configs = 0 /\ leftHeld = FALSE /\ clicked = FALSE /\ many = FALSE

Tracked == DOMAIN touchTracker
AtRest  == [far |-> FALSE, mouseMoved |-> FALSE, mouseClicked |-> FALSE]

Tracking(tracker) == touchTracker' = tracker /\ many' = (many /\ DOMAIN tracker # {})

-----------------------------------------------------------------------------

\* onTouchStart: one of the changed touches becomes the primary one if there is none; a
\* second finger beside one that has done nothing yet scrolls, a third one asks for the
\* keyboard.
OnTouchStart(changed, first) ==
    LET tracker == [f \in Tracked \cup changed |->
                        IF f \in Tracked THEN touchTracker[f] ELSE AtRest]
        primary == IF primaryTouch = NoFinger THEN first ELSE primaryTouch
        size    == Cardinality(DOMAIN tracker)
        scrolls == size = 2 /\ LET p == tracker[primary] IN ~p.mouseMoved /\ ~p.mouseClicked
    IN
    /\ touching' = touching \cup changed /\ primaryTouch' = primary
    /\ touchTracker' = [f \in DOMAIN tracker |->
                            IF f = primary /\ scrolls /\ touchMode = "pointAndDrag"
                            THEN [tracker[f] EXCEPT !.mouseMoved = TRUE] ELSE tracker[f]]
    /\ many' = (many \/ size \in {2, 3})
    /\ touchMouseAction' = IF scrolls THEN "scroll"
                           ELSE IF size = 3 THEN "screenKeyboard"
                           ELSE IF primaryTouch = NoFinger THEN "default"
                           ELSE touchMouseAction
    /\ touchGestureSuppressClick' =
           (scrolls \/ size = 3 \/ (Tracked # {} /\ touchGestureSuppressClick))
    /\ clicked' = FALSE /\ UNCHANGED <<touchMode, configs, leftHeld>>

\* onTouchUpdate, from the polling loop, after TOUCH_AS_CLICK_MIN_TIME_MS
OnTouchUpdate ==
    /\ touchMode = "pointAndDrag" /\ primaryTouch \in Tracked /\ touchMouseAction = "default"
    /\ Tracking([touchTracker EXCEPT ![primaryTouch].mouseMoved = TRUE])
    /\ clicked' = FALSE
    /\ UNCHANGED <<touchMode, touching, primaryTouch, touchMouseAction,
                   touchGestureSuppressClick, configs, leftHeld>>

\* onTouchMove: dragging the primary finger away from its origin presses the left
\* button.  A finger that is not tracked is tracked from here on.
OnTouchMove(f, far) ==
    LET drags == /\ f = primaryTouch /\ f \in Tracked /\ touchMouseAction = "default"
                 /\ touchMode = "pointAndDrag" /\ far
        track == IF f \notin Tracked THEN AtRest
                 ELSE [touchTracker[f] EXCEPT !.far = far,
                                              !.mouseMoved = @ \/ drags,
                                              !.mouseClicked = @ \/ drags]
        presses == drags /\ ~touchTracker[f].mouseClicked
    IN
    /\ Tracking([g \in Tracked \cup {f} |-> IF g = f THEN track ELSE touchTracker[g]])
    /\ clicked' = presses /\ leftHeld' = (leftHeld \/ presses)
    /\ UNCHANGED <<touchMode, touching, primaryTouch, touchMouseAction,
                   touchGestureSuppressClick, configs>>

\* Bug: a click is suppressed only while two fingers are down.
OnTouchEndForgets(changed, long) ==
    LET rest == Tracked \ changed
        mine == primaryTouch \in changed
        t    == IF mine /\ primaryTouch \in Tracked THEN touchTracker[primaryTouch] ELSE AtRest
        ends == /\ mine /\ primaryTouch \in Tracked /\ touchMouseAction = "default"
                /\ ~touchGestureSuppressClick /\ (t.far => touchMode = "pointAndDrag")
    IN
    /\ touching' = touching \ changed
    /\ primaryTouch' = IF mine THEN NoFinger ELSE primaryTouch
    /\ clicked' = (ends /\ (t.far \/ ~t.mouseClicked))
    /\ leftHeld' = (leftHeld /\ ~(ends /\ (t.far \/ t.mouseClicked \/ ~long)))
    /\ Tracking([f \in rest |-> touchTracker[f]])
    /\ touchMouseAction' = IF touchMouseAction = "scroll" /\ Cardinality(rest) < 2
                           THEN "default" ELSE touchMouseAction
    /\ touchGestureSuppressClick' = (touchGestureSuppressClick /\ Cardinality(rest) >= 2)
    /\ UNCHANGED <<touchMode, configs>>

\* onTouchEnd: the end of the primary finger is a left click, the release of a drag or,
\* after TOUCH_AS_CLICK_MAX_TIME_MS, a right click; nothing, if the click is suppressed
\* or the finger has moved the cursor.
OnTouchEnd(changed, long) ==
    LET rest == Tracked \ changed
        mine == primaryTouch \in changed
        t    == IF mine /\ primaryTouch \in Tracked THEN touchTracker[primaryTouch] ELSE AtRest
        ends == /\ mine /\ primaryTouch \in Tracked /\ touchMouseAction = "default"
                /\ ~touchGestureSuppressClick /\ (t.far => touchMode = "pointAndDrag")
    IN
    /\ touching' = touching \ changed
    /\ primaryTouch' = IF mine THEN NoFinger ELSE primaryTouch
    /\ clicked' = (ends /\ (t.far \/ ~t.mouseClicked))
    /\ leftHeld' = (leftHeld /\ ~(ends /\ (t.far \/ t.mouseClicked \/ ~long)))
    /\ Tracking([f \in rest |-> touchTracker[f]])
    /\ touchMouseAction' = IF touchMouseAction = "scroll" /\ Cardinality(rest) < 2
                           THEN "default" ELSE touchMouseAction
    /\ touchGestureSuppressClick' = (touchGestureSuppressClick /\ rest # {})
    /\ UNCHANGED <<touchMode, configs>>

\* onTouchCancel: everything is forgotten, the other fingers too.
OnTouchCancel(changed) ==
    /\ touching' = touching \ changed
    /\ leftHeld' = (leftHeld /\ \A f \in Tracked : ~touchTracker[f].mouseClicked)
    /\ Tracking(<<>>) /\ primaryTouch' = NoFinger /\ touchMouseAction' = "default"
    /\ touchGestureSuppressClick' = FALSE /\ clicked' = FALSE
    /\ UNCHANGED <<touchMode, configs>>

\* setConfig, which may come while fingers are down
SetConfig ==
    /\ configs < MaxConfigs /\ configs' = configs + 1 /\ touchMode' \in TouchModes
    /\ primaryTouch' = NoFinger /\ Tracking(<<>>) /\ clicked' = FALSE
    /\ UNCHANGED <<touching, touchMouseAction, touchGestureSuppressClick, leftHeld>>

-----------------------------------------------------------------------------

TouchNext ==
    \/ \E changed \in SUBSET (Fingers \ touching) :
           \E first \in changed : OnTouchStart(changed, first)
    \/ OnTouchUpdate
    \/ \E f \in touching, far \in BOOLEAN : OnTouchMove(f, far)
    \/ \E changed \in SUBSET touching \ {{}}, long \in BOOLEAN : OnTouchEnd(changed, long)
    \/ \E changed \in SUBSET touching \ {{}} : OnTouchCancel(changed)
    \/ SetConfig

TouchSpec == TouchInit /\ [][TouchNext]_touchVars

-----------------------------------------------------------------------------
(* Properties *)

\* In "mouseRelative" no finger of a gesture of two or three clicks, whichever is lifted
\* first, put down again or left behind, though the tracker may have been cleared under
\* the others (input.ts:453-455, 495-543, 675-687).  Four at once do click.
ManyFingersNeverClick ==
    [][many /\ touchMode = "mouseRelative" => ~clicked']_touchVars

\* When no finger is on the screen, the left button of the host is up: what a gesture of
\* two fingers leaves behind is no phantom click (input.ts:453-454).  The code violates
\* it: in "pointAndDrag" a finger that is left of two drags with the left button down,
\* and its end is suppressed.
LiftedHandHoldsNothing == touching = {} => ~leftHeld
=============================================================================
