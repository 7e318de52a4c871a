--------------------------- MODULE VideoKeyframe ---------------------------
(***************************************************************************)
(* How a browser that has lost the picture gets a keyframe                 *)
(* (streamer/src/video.rs): its PLIs set needs_idr, the callback of the    *)
(* next frame takes the flag and asks the host, unless it has asked within *)
(* the last 300 ms.  A PLI within the window is taken and forgotten: the   *)
(* browser, which repeats it, has to do so after the window.  The host,    *)
(* the link to the browser and the browser's decoder are external.         *)
(***************************************************************************)
EXTENDS Naturals

CONSTANTS
    Window,     \* ticks an IDR request is taken to be in flight (300 ms)
    MaxLosses   \* frames the link loses

ASSUME KeyframeAssumption == Window \in Nat \ {0} /\ MaxLosses \in Nat

VARIABLES
    needsIdr,   \* needs_idr
    since,      \* ticks since last_idr_request, Window when that is long ago or never
    asked,      \* the host owes a keyframe
    needKey,    \* the browser can decode nothing but a keyframe
    losses

keyVars == <<needsIdr, since, asked, needKey, losses>>

KeyTypeOK ==
    /\ {needsIdr, asked, needKey} \subseteq BOOLEAN
    /\ since \in 0..Window
    /\ losses \in 0..MaxLosses

\* The first frame of a stream is a keyframe; or it is some time later, and all is well.
KeyInit ==
    /\ needsIdr = FALSE /\ since = Window /\ needKey \in BOOLEAN
    /\ asked = needKey /\ losses = 0

\* Bug: a request that is held back starts the window again.
AskWindowRestarts(key) ==
    /\ needsIdr' = FALSE
    /\ asked' = ((asked /\ ~key) \/ (needsIdr /\ since = Window))
    /\ since' = IF needsIdr THEN 0 ELSE since

\* The end of submit_decode_unit.
Ask(key) ==
    /\ needsIdr' = FALSE
    /\ asked' = ((asked /\ ~key) \/ (needsIdr /\ since = Window))
    /\ since' = IF needsIdr /\ since = Window THEN 0 ELSE since

\* A frame passes the callback and the link and reaches the browser, or is lost.
Frame(key, lost) ==
    /\ key => asked
    /\ lost => losses < MaxLosses
    /\ Ask(key)
    /\ needKey' = IF lost THEN TRUE ELSE needKey /\ ~key
    /\ losses' = IF lost THEN losses + 1 ELSE losses

\* The handler of a PictureLossIndication.
Pli ==
    /\ needKey
    /\ needsIdr' = TRUE
    /\ UNCHANGED <<since, asked, needKey, losses>>

Tick ==
    /\ since < Window
    /\ since' = since + 1
    /\ UNCHANGED <<needsIdr, asked, needKey, losses>>

KeyNext == Pli \/ Tick \/ \E key, lost \in BOOLEAN : Frame(key, lost)

KeySpec == KeyInit /\ [][KeyNext]_keyVars

\* Frames keep coming, a keyframe in the end if one is owed; the browser repeats its
\* PLI as long as it needs one; time passes.
KeyFairness ==
    /\ WF_keyVars(\E lost \in BOOLEAN : Frame(FALSE, lost))
    /\ SF_keyVars(\E lost \in BOOLEAN : Frame(TRUE, lost))
    /\ WF_keyVars(Pli) /\ WF_keyVars(Tick)

KeyFairSpec == KeySpec /\ KeyFairness

\* A browser that has lost the picture gets it back, though requests of it are
\* swallowed, a keyframe can be lost itself, and its PLIs never pause for as long as
\* the window (video.rs:446-455).
KeyframeComes == needKey ~> ~needKey
=============================================================================
