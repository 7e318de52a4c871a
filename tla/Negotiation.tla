----------------------------- MODULE Negotiation -----------------------------
(***************************************************************************)
(* Signaling between the page with the video                               *)
(* (moonlight-web/web-server/web/stream/index.ts) and the streamer         *)
(* (moonlight-web/streamer/src/main.rs): the first offer of the page, the  *)
(* answer, and the offers with which the streamer restarts ICE when the    *)
(* connection has failed.                                                  *)
(*                                                                         *)
(* A round has the number of its offer: 1 is the page's, the others are    *)
(* restarts.  Each brings the streamer new candidates, which leave by a    *)
(* callback of their own, beside the description they belong to.  The      *)
(* page puts its own candidates into its descriptions.                     *)
(*                                                                         *)
(* The page handles one message after the other (messageProcessingQueue)   *)
(* and sends at the end of a handler, and nothing else touches its peer:   *)
(* a negotiationneeded event finds makingOffer set or an unstable state.   *)
(* So each handler is one step.  The links are those of Ipc: in order,     *)
(* nothing lost.                                                           *)
(***************************************************************************)
EXTENDS Naturals, FiniteSets, SequencesExt

CONSTANTS
    MaxCandidates,  \* bound: candidates of the streamer in a round
    MaxOutages      \* bound: how often an agreed connection fails

VARIABLES
    pageSignaling, \* signalingState of the page's peer, "none" before createPeer
    pageRound,     \* the round of its descriptions, 0 while remoteDescription is null
    saved,         \* iceCandidateQueue
    added,         \* candidates that addIceCandidate took for the current round
    signalState,   \* signaling state of the streamer's peer
    round,         \* round of its last local description
    loopAt,        \* where the IPC loop is in on_ws_message
    stateAt,       \* where the handler of the peer's state is
    gathered,      \* candidates of the round that have been sent
    ice,           \* connection state of the streamer's peer
    restartTried,  \* ice_restart_attempted
    outages,
    stopping,      \* stop() has been called
    toPagePeer, toStreamerPeer

pageSigVars == <<pageSignaling, pageRound, saved, added>>
peerSigVars == <<signalState, round, loopAt, stateAt, gathered, ice, restartTried,
                 outages, stopping>>
negotiationVars == <<pageSigVars, peerSigVars, toPagePeer, toStreamerPeer>>

Offer(r)  == [kind |-> "offer", round |-> r]
Answer(r) == [kind |-> "answer", round |-> r]
\* early: sent before the offer of its round
Candidate(r, n, early) == [kind |-> "candidate", round |-> r, n |-> n, early |-> early]

NegotiationTypeOK ==
    /\ pageSignaling \in {"none", "stable", "offered"}
    /\ pageRound \in Nat /\ round \in Nat
    /\ signalState \in {"stable", "offered", "answering"}
    /\ loopAt \in {"recv", "answer", "send"} /\ stateAt \in {"idle", "offer", "send"}
    /\ ice \in {"new", "checking", "connected", "failed"}
    /\ Cardinality(gathered) <= MaxCandidates /\ outages \in 0..MaxOutages
    /\ restartTried \in BOOLEAN /\ stopping \in BOOLEAN

\* new() has sent the WebRtcConfig and made the peer.
NegotiationInit ==
    /\ pageSignaling = "none" /\ pageRound = 0
    /\ saved = <<>> /\ added = {}
    /\ signalState = "stable" /\ round = 0 /\ loopAt = "recv" /\ stateAt = "idle"
    /\ gathered = {} /\ ice = "new" /\ restartTried = FALSE /\ outages = 0 /\ stopping = FALSE
    /\ toPagePeer = <<[kind |-> "config"]>> /\ toStreamerPeer = <<>>

-----------------------------------------------------------------------------
(* The page *)

PageTakes(kind) ==
    /\ toPagePeer # <<>> /\ Head(toPagePeer).kind = kind
    /\ toPagePeer' = Tail(toPagePeer)
    /\ UNCHANGED peerSigVars

\* A candidate counts for the round of the description it is added to; it names no
\* other (RTCIceCandidate::to_json sets no ufrag).
Usable(cands, r) == {c \in cands : c.round = r}

\* createPeer, with onNegotiationNeeded; the configuration is the first message.
PageCreates ==
    /\ PageTakes("config")
    /\ pageSignaling' = "offered"
    /\ toStreamerPeer' = Append(toStreamerPeer, Offer(1))
    /\ UNCHANGED <<pageRound, saved, added>>

\* handleRemoteDescription of an offer: the page's own offer, if it is not answered
\* yet, is rolled back.
PageAnswers ==
    /\ PageTakes("offer")
    /\ LET r == Head(toPagePeer).round IN
       /\ pageRound' = r /\ pageSignaling' = "stable"
       /\ added' = Usable(ToSet(saved), r) /\ saved' = <<>>
       /\ toStreamerPeer' = Append(toStreamerPeer, Answer(r))

\* handleRemoteDescription of an answer: setRemoteDescription rejects one for an offer
\* that was rolled back, and the rest of the handler is skipped.
PageCompletes ==
    /\ PageTakes("answer")
    /\ IF pageSignaling = "offered"
       THEN /\ pageSignaling' = "stable" /\ pageRound' = 1
            /\ added' = Usable(ToSet(saved), 1) /\ saved' = <<>>
       ELSE UNCHANGED <<pageSignaling, pageRound, saved, added>>
    /\ UNCHANGED toStreamerPeer

\* Bug: a candidate that comes before a description is given to the peer at once,
\* which refuses it.
PageAddsAtOnce ==
    /\ PageTakes("candidate")
    /\ added' = IF pageRound = 0 THEN added
                ELSE added \cup Usable({Head(toPagePeer)}, pageRound)
    /\ UNCHANGED <<pageSignaling, pageRound, saved, toStreamerPeer>>

\* handleIceCandidate
PageAdds ==
    /\ PageTakes("candidate")
    /\ IF pageRound = 0
       THEN saved' = Append(saved, Head(toPagePeer)) /\ UNCHANGED added
       ELSE added' = added \cup Usable({Head(toPagePeer)}, pageRound) /\ UNCHANGED saved
    /\ UNCHANGED <<pageSignaling, pageRound, toStreamerPeer>>

-----------------------------------------------------------------------------
(* The IPC loop of the streamer: on_ws_message *)

\* An offer: set_remote_description, which needs a stable state.
LoopTakesOffer ==
    /\ ~stopping /\ loopAt = "recv" /\ signalState = "stable"
    /\ toStreamerPeer # <<>> /\ Head(toStreamerPeer).kind = "offer"
    /\ toStreamerPeer' = Tail(toStreamerPeer)
    /\ signalState' = "answering" /\ loopAt' = "answer"
    /\ UNCHANGED <<pageSigVars, round, stateAt, gathered, ice, restartTried, outages,
                   stopping, toPagePeer>>

\* send_answer as far as set_local_description: ICE starts, and so does the gathering.
LoopSetsAnswer ==
    /\ ~stopping /\ loopAt = "answer"
    /\ signalState' = "stable" /\ round' = 1 /\ gathered' = {} /\ ice' = "checking"
    /\ loopAt' = "send"
    /\ UNCHANGED <<pageSigVars, stateAt, restartTried, outages, stopping, toPagePeer,
                   toStreamerPeer>>

LoopSendsAnswer ==
    /\ ~stopping /\ loopAt = "send"
    /\ toPagePeer' = Append(toPagePeer, Answer(1)) /\ loopAt' = "recv"
    /\ UNCHANGED <<pageSigVars, signalState, round, stateAt, gathered, ice, restartTried,
                   outages, stopping, toStreamerPeer>>

\* An answer ends the round of the streamer's offer.
LoopTakesAnswer ==
    /\ ~stopping /\ loopAt = "recv" /\ toStreamerPeer # <<>> /\ Head(toStreamerPeer).kind = "answer"
    /\ toStreamerPeer' = Tail(toStreamerPeer)
    /\ signalState' = IF signalState = "offered" THEN "stable" ELSE signalState
    /\ UNCHANGED <<pageSigVars, round, loopAt, stateAt, gathered, ice, restartTried, outages,
                   stopping, toPagePeer>>

\* on_ice_candidate, from the moment the round has begun
SendsCandidate ==
    /\ ~stopping /\ round # 0
    /\ LET n == Cardinality(gathered) + 1
           c == Candidate(round, n, stateAt = "send")
       IN  /\ n <= MaxCandidates
           /\ gathered' = gathered \cup {c} /\ toPagePeer' = Append(toPagePeer, c)
    /\ UNCHANGED <<pageSigVars, signalState, round, loopAt, stateAt, ice, restartTried,
                   outages, stopping, toStreamerPeer>>

-----------------------------------------------------------------------------
(* on_peer_connection_state_change; the callbacks of a peer do not overlap *)

\* Both sides have the descriptions of one round.
Agreed == signalState = "stable" /\ pageSignaling = "stable" /\ pageRound = round

\* Bug: a connection that fails again is left to itself.
IceFailsForgotten ==
    /\ ~stopping /\ stateAt = "idle" /\ ice \in {"checking", "connected"}
    /\ IF Agreed THEN outages < MaxOutages /\ outages' = outages + 1 ELSE UNCHANGED outages
    /\ ice' = "failed" /\ restartTried' = TRUE
    /\ stateAt' = IF restartTried THEN "idle" ELSE "offer"
    /\ UNCHANGED <<pageSigVars, signalState, round, loopAt, gathered, stopping, toPagePeer,
                   toStreamerPeer>>

\* Failed: one restart is tried, the next failure stops the stream.
IceFails ==
    /\ ~stopping /\ stateAt = "idle" /\ ice \in {"checking", "connected"}
    /\ IF Agreed THEN outages < MaxOutages /\ outages' = outages + 1 ELSE UNCHANGED outages
    /\ ice' = "failed" /\ restartTried' = TRUE
    /\ IF restartTried
       THEN stopping' = TRUE /\ UNCHANGED stateAt
       ELSE stateAt' = "offer" /\ UNCHANGED stopping
    /\ UNCHANGED <<pageSigVars, signalState, round, loopAt, gathered, toPagePeer, toStreamerPeer>>

\* Connected: the next failure may try a restart again.
IceConnects ==
    /\ ~stopping /\ stateAt = "idle" /\ ice = "checking" /\ Agreed
    /\ ice' = "connected" /\ restartTried' = FALSE
    /\ UNCHANGED <<pageSigVars, signalState, round, loopAt, stateAt, gathered, outages,
                   stopping, toPagePeer, toStreamerPeer>>

\* send_offer_with_ice_restart as far as set_local_description
RestartSetsOffer ==
    /\ ~stopping /\ stateAt = "offer" /\ signalState = "stable"
    /\ signalState' = "offered" /\ round' = round + 1 /\ gathered' = {} /\ ice' = "checking"
    /\ stateAt' = "send"
    /\ UNCHANGED <<pageSigVars, loopAt, restartTried, outages, stopping, toPagePeer,
                   toStreamerPeer>>

RestartSendsOffer ==
    /\ ~stopping /\ stateAt = "send"
    /\ toPagePeer' = Append(toPagePeer, Offer(round)) /\ stateAt' = "idle"
    /\ UNCHANGED <<pageSigVars, signalState, round, loopAt, gathered, ice, restartTried,
                   outages, stopping, toStreamerPeer>>

-----------------------------------------------------------------------------

PageHandles == PageCreates \/ PageAnswers \/ PageCompletes \/ PageAdds
LoopStep    == LoopTakesOffer \/ LoopSetsAnswer \/ LoopSendsAnswer \/ LoopTakesAnswer
RestartStep == RestartSetsOffer \/ RestartSendsOffer

NegotiationNext ==
    \/ PageHandles
    \/ LoopStep
    \/ SendsCandidate
    \/ RestartStep
    \/ IceFails \/ IceConnects

NegotiationSpec == NegotiationInit /\ [][NegotiationNext]_negotiationVars

\* Handlers and tasks go on; a check of ICE ends, with a failure if the two sides do
\* not agree.
NegotiationFairness ==
    /\ WF_negotiationVars(PageHandles) /\ WF_negotiationVars(LoopStep)
    /\ WF_negotiationVars(RestartStep)
    /\ WF_negotiationVars(IceConnects) /\ WF_negotiationVars(~Agreed /\ IceFails)

NegotiationFairSpec == NegotiationSpec /\ NegotiationFairness

-----------------------------------------------------------------------------
(* Properties *)

\* When the page has handled all it was sent, it has every candidate of its round that
\* was not sent ahead of a restart's offer: those that overtake the first answer wait
\* in iceCandidateQueue (index.ts:927-947).
CandidatesArrive ==
    toPagePeer = <<>> /\ pageRound = round => {c \in gathered : ~c.early} \subseteq added

\* Once the page has made its offer, and after every failure, the connection comes up or
\* the stream is stopped, however late descriptions arrive (main.rs:595-616): no side
\* waits for a round that the other does not know of.
ConnectsOrStops == pageSignaling # "none" ~> (ice = "connected" \/ stopping)
=============================================================================
