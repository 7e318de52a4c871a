---------------------------- MODULE MCComponents ----------------------------
(***************************************************************************)
(* The instances of the components that share no state with one another    *)
(* and are small enough to be checked side by side: a behaviour is one of  *)
(* the component that `part` names, and the others stay as they are.       *)
(***************************************************************************)
EXTENDS MoonlightConnection, Ipc, VideoSend, VideoKeyframe, AudioSend, AnnexB, RtpPayload,
        Ulpfec, Auth, Negotiation, StreamSocket, InputClient, PageGamepads, TouchInput, TLC

VARIABLE part

\* The lengths 0 to 2 of a payload, by their bits.
FecLengths  == {{}, {0}, {1}}
FecSizeOf   == [n \in FecLengths |-> IF n = {} THEN 0 ELSE IF n = {0} THEN 1 ELSE 2]
FecSymbols  == {{}, {0}}
VideoSizes  == <<1, 3>>
IpcRequests == <<"signal", "bad", "signal", "stop">>
OneVendor   == [p \in Pads |-> "vendor"]

\* A page that has its stream.
SocketAtRest ==
    /\ attempt = 1 /\ opened = TRUE /\ timer = NoTimer /\ timers = {} /\ retries = 0
    /\ buffer = <<>> /\ sock = [k \in Sockets |-> IF k = 1 THEN "open" ELSE "none"]
    /\ sent = [k \in Sockets |-> IF k = 1 THEN <<"auth">> ELSE <<>>]
    /\ peer = "connected" /\ offered = TRUE /\ told = FALSE /\ stale = FALSE

\* The components that are not looked at have one state each.
PartsInit ==
    /\ part \in {"library", "ipc", "video", "keyframe", "audio", "annexb", "payload",
              "ulpfec", "logins", "factor", "negotiation", "socket", "input", "pagePads", "touch"}
    /\ ConnInit /\ IpcInit /\ VideoInit /\ AudioInit /\ AuthInit /\ NegotiationInit /\ InputInit
    /\ KeyInit /\ (part # "keyframe" => ~needKey)
    /\ PayloadInit /\ (part # "payload" => codec = "h264")
    /\ FecInit /\ (part # "ulpfec" => base = 0)
    /\ PagePadInit /\ (part # "pagePads" => deviceMode = "auto")
    /\ TouchInit /\ (part # "touch" => touchMode = "mouseRelative")
    /\ IF part = "annexb" THEN AnnexInit ELSE reader = "h264" /\ data = <<>> /\ offset = 0 /\ nals = <<>>
    /\ IF part = "socket" THEN Init ELSE SocketAtRest

partVars == <<part, libraryVars, ipcVars, videoVars, keyVars, audioVars, annexVars, payloadVars,
              fecVars, authVars, negotiationVars, vars, inputVars, pagePadVars, touchVars>>

LibraryPart ==
    /\ part = "library" /\ ConnNext
    /\ UNCHANGED <<part, ipcVars, videoVars, keyVars, audioVars, annexVars, payloadVars, fecVars,
                  authVars, negotiationVars, vars, inputVars, pagePadVars, touchVars>>

IpcPart ==
    /\ part = "ipc" /\ IpcNext
    /\ UNCHANGED <<part, libraryVars, videoVars, keyVars, audioVars, annexVars, payloadVars,
                  fecVars, authVars, negotiationVars, vars, inputVars, pagePadVars,
                  touchVars>>

VideoPart ==
    /\ part = "video" /\ VideoNext
    /\ UNCHANGED <<part, libraryVars, ipcVars, keyVars, audioVars, annexVars, payloadVars,
                  fecVars, authVars, negotiationVars, vars, inputVars, pagePadVars,
                  touchVars>>

KeyframePart ==
    /\ part = "keyframe" /\ KeyNext
    /\ UNCHANGED <<part, libraryVars, ipcVars, videoVars, audioVars, annexVars, payloadVars,
                  fecVars, authVars, negotiationVars, vars, inputVars, pagePadVars,
                  touchVars>>

AudioPart ==
    /\ part = "audio" /\ AudioNext
    /\ UNCHANGED <<part, libraryVars, ipcVars, videoVars, keyVars, annexVars, payloadVars,
                  fecVars, authVars, negotiationVars, vars, inputVars, pagePadVars,
                  touchVars>>

AnnexbPart ==
    /\ part = "annexb" /\ AnnexNext
    /\ UNCHANGED <<part, libraryVars, ipcVars, videoVars, keyVars, audioVars, payloadVars,
                  fecVars, authVars, negotiationVars, vars, inputVars, pagePadVars,
                  touchVars>>

PayloadPart ==
    /\ part = "payload" /\ PayloadNext
    /\ UNCHANGED <<part, libraryVars, ipcVars, videoVars, keyVars, audioVars, annexVars, fecVars,
                  authVars, negotiationVars, vars, inputVars, pagePadVars, touchVars>>

UlpfecPart ==
    /\ part = "ulpfec" /\ FecNext
    /\ UNCHANGED <<part, libraryVars, ipcVars, videoVars, keyVars, audioVars, annexVars,
                  payloadVars, authVars, negotiationVars, vars, inputVars, pagePadVars,
                  touchVars>>

\* Logins together with one change of the second factor, and two changes by themselves:
\* all at once are too many for TLC, and for AuthProofs alone.
FirstChange == CHOOSE c \in Changes : TRUE

LoginsPart ==
    /\ part = "logins" /\ AuthNext /\ \A c \in Changes \ {FirstChange} : at'[c] = "idle"
    /\ UNCHANGED <<part, libraryVars, ipcVars, videoVars, keyVars, audioVars, annexVars,
                  payloadVars, fecVars, negotiationVars, vars, inputVars, pagePadVars,
                  touchVars>>

FactorPart ==
    /\ part = "factor" /\ AuthNext /\ \A l \in Logins : at'[l] = "idle"
    /\ UNCHANGED <<part, libraryVars, ipcVars, videoVars, keyVars, audioVars, annexVars,
                  payloadVars, fecVars, negotiationVars, vars, inputVars, pagePadVars,
                  touchVars>>

NegotiationPart ==
    /\ part = "negotiation" /\ NegotiationNext
    /\ UNCHANGED <<part, libraryVars, ipcVars, videoVars, keyVars, audioVars, annexVars,
                  payloadVars, fecVars, authVars, vars, inputVars, pagePadVars, touchVars>>

SocketPart ==
    /\ part = "socket" /\ Next
    /\ UNCHANGED <<part, libraryVars, ipcVars, videoVars, keyVars, audioVars, annexVars,
                  payloadVars, fecVars, authVars, negotiationVars, inputVars, pagePadVars,
                  touchVars>>

InputPart ==
    /\ part = "input" /\ InputNext
    /\ UNCHANGED <<part, libraryVars, ipcVars, videoVars, keyVars, audioVars, annexVars,
                  payloadVars, fecVars, authVars, negotiationVars, vars, pagePadVars,
                  touchVars>>

PagePadsPart ==
    /\ part = "pagePads" /\ PagePadNext
    /\ UNCHANGED <<part, libraryVars, ipcVars, videoVars, keyVars, audioVars, annexVars,
                  payloadVars, fecVars, authVars, negotiationVars, vars, inputVars,
                  touchVars>>

TouchPart ==
    /\ part = "touch" /\ TouchNext
    /\ UNCHANGED <<part, libraryVars, ipcVars, videoVars, keyVars, audioVars, annexVars,
                  payloadVars, fecVars, authVars, negotiationVars, vars, inputVars,
                  pagePadVars>>

PartsNext ==
    \/ LibraryPart
    \/ IpcPart
    \/ VideoPart
    \/ KeyframePart
    \/ AudioPart
    \/ AnnexbPart
    \/ PayloadPart
    \/ UlpfecPart
    \/ LoginsPart
    \/ FactorPart
    \/ NegotiationPart
    \/ SocketPart
    \/ InputPart
    \/ PagePadsPart
    \/ TouchPart

\* The fairness that the modules state for their components.  A behaviour is of one part,
\* so that the k-th action of each can share a condition.
StartList == SetToSeq(Starts)
KindList  == SetToSeq(Kinds)

LibraryTurn(k) ==
    \/ \E n \in 1..3 : \/ k = n     /\ ConnectStep(StartList[n])
                       \/ k = n + 3 /\ DropStep(StartList[n])
                       \/ k = n + 6 /\ DecoderReturns(KindList[n])
                       \/ k = n + 9 /\ ThreadStarts(KindList[n])
    \/ k = 13 /\ ListenerReturns

IpcTurn(k) ==
    \/ k = 1 /\ ServerSends
    \/ k = 2 /\ RouterHandsOver
    \/ k = 3 /\ BrowserReads
    \/ k = 4 /\ LoopAnswers
    \/ k = 5 /\ WriterStep("down")
    \/ k = 6 /\ RecvStep("down")
    \/ k = 7 /\ WriterStep("up")
    \/ k = 8 /\ RecvStep("up")

VideoTurn(k) == (k = 1 /\ BlockingSend) \/ (k = 2 /\ SenderStep)

KeyframeTurn(k) ==
    \/ k = 1 /\ \E lost \in BOOLEAN : Frame(FALSE, lost)
    \/ k = 2 /\ Pli
    \/ k = 3 /\ Tick

AudioTurn(k) == (k = 1 /\ AudioTaskStep) \/ (k = 2 /\ OnOpen)

NegotiationTurn(k) ==
    \/ k = 1 /\ PageHandles
    \/ k = 2 /\ LoopStep
    \/ k = 3 /\ RestartStep
    \/ k = 4 /\ IceConnects
    \/ k = 5 /\ ~Agreed /\ IceFails

SocketTurn(k) ==
    \/ k = 1 /\ Connect
    \/ k - 1 \in Sockets /\ ConnectTimeout(k - 1)
    \/ k - 1 - MaxAttempts \in Sockets /\ StreamTimeout(k - 1 - MaxAttempts)

InputTurn(k) ==
    \/ k = 1 /\ wsState = "closing" /\ WsCloses
    \/ k = 2 /\ Reconnects
    \/ k = 3 /\ Receives
    \/ k = 4 /\ TimerFires(TRUE)
    \/ k = 5 /\ TimerFires(FALSE)
    \/ k = 6 /\ HandlerStep
    \/ k = 7 /\ PeerConnects
    \/ k = 8 /\ PeerFails
    \/ k = 9 /\ TaskOnWs

turnVars ==
    CASE part = "library" -> libraryVars [] part = "ipc" -> ipcVars
      [] part = "video" -> videoVars [] part = "keyframe" -> keyVars
      [] part = "audio" -> audioVars
      [] part = "negotiation" -> negotiationVars [] part = "socket" -> vars
      [] OTHER -> inputVars

PartTurn(k) ==
    /\ UNCHANGED part
    /\ \/ part = "library" /\ LibraryTurn(k)
       \/ part = "ipc" /\ IpcTurn(k)
       \/ part = "video" /\ VideoTurn(k)
       \/ part = "keyframe" /\ KeyframeTurn(k)
       \/ part = "audio" /\ AudioTurn(k)
       \/ part = "negotiation" /\ NegotiationTurn(k)
       \/ part = "socket" /\ SocketTurn(k)
       \/ part = "input" /\ InputTurn(k)

\* The actions whose fairness is strong.
StrongTurn(k) ==
    /\ UNCHANGED part
    /\ \/ part = "library" /\ k \in DOMAIN KindList /\ ThreadJoined(KindList[k])
       \/ part = "keyframe" /\ k = 1 /\ \E lost \in BOOLEAN : Frame(TRUE, lost)

PartsFairness ==
    /\ \A k \in 1..13 : WF_turnVars(PartTurn(k))
    /\ \A k \in 1..3 : SF_turnVars(StrongTurn(k))

PartsSpec == PartsInit /\ [][PartsNext]_partVars /\ PartsFairness
=============================================================================
