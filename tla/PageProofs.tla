----------------------------- MODULE PageProofs -----------------------------
(***************************************************************************)
(* What holds of the parts of the page in the browser, for every number of *)
(* attempts, peers, fingers and gamepads: the WebSocket of a stream, the   *)
(* client that only sends input, the negotiation of a connection, touches, *)
(* and gamepads.                                                           *)
(***************************************************************************)
EXTENDS StreamSocket, InputClient, Negotiation, TouchInput, PageGamepads, DataLemmas,
        SequenceTheorems, FiniteSetTheorems, WellFoundedInduction, TLAPS

-----------------------------------------------------------------------------
(***************************************************************************)
(* The WebSocket of a stream (StreamSocket).                               *)
(***************************************************************************)

\* At most one attempt is waiting, only while it is allowed, and never together
\* with a connect timeout, which would start another one.
RetryInv ==
    /\ retries > 0 => attempt < MaxAttempts /\ (timer = NoTimer \/ opened)
    /\ \A k \in Sockets :
          <<"connect", k>> \in timers
            => timer = <<"connect", k>> /\ retries = 0 /\ ~opened

\* The authentication waits at most once, for a socket that was never open, and
\* sockets to come are untouched.
AuthInv ==
    /\ \A m, n \in DOMAIN buffer : buffer[m] = "auth" /\ buffer[n] = "auth" => m = n
    /\ (\E n \in DOMAIN buffer : buffer[n] = "auth")
         => sock[attempt] # "open" /\ sent[attempt] = <<>>
    /\ \A k \in Sockets : k > attempt => sock[k] = "none" /\ sent[k] = <<>>

\* Unless a close event came late, old sockets are done with, and the newest one
\* has its authentication before it or behind it.
OrderInv ==
    ~stale =>
      /\ \A k \in Sockets : k < attempt => sock[k] \in {"closing", "closed"}
      /\ retries > 0 => sock[attempt] \in {"closing", "closed"}
      /\ sock[attempt] = "connecting"
           => buffer # <<>> /\ buffer[1] = "auth" /\ sent[attempt] = <<>>
      /\ sock[attempt] = "open" => sent[attempt] # <<>> /\ sent[attempt][1] = "auth"

Inv == /\ TypeOK /\ RetryInv /\ SuppressedCloseRetries
       /\ AuthInv /\ AuthOncePerSocket /\ OrderInv

-----------------------------------------------------------------------------

LEMMA InitInv == Init => Inv
<1> SUFFICES ASSUME Init PROVE Inv
  OBVIOUS
<1> USE SocketAssumption DEF Init
<1>1. TypeOK
  <2>1. 1 \in Sockets /\ <<"connect", 1>> \in Timers
    BY DEF Sockets, Timers
  <2>2. <<"auth">> \in Seq(Messages) /\ <<>> \in Seq(Messages)
    BY DEF Messages
  <2>3. sock \in [Sockets -> {"none", "connecting", "open", "closing", "closed"}]
        /\ sent \in [Sockets -> Seq(Messages)]
    BY <2>2
  <2>4. /\ timer \in Timers \cup {NoTimer} /\ timers \subseteq Timers
        /\ attempt \in Sockets /\ buffer \in Seq(Messages)
    BY <2>1, <2>2
  <2>5. retries \in 0..1 /\ peer \in {"none", "new", "connected", "failed"}
    OBVIOUS
  <2>6. /\ opened \in BOOLEAN /\ offered \in BOOLEAN
        /\ told \in BOOLEAN /\ stale \in BOOLEAN
    OBVIOUS
  <2> HIDE DEF Init
  <2> QED  BY <2>3, <2>4, <2>5, <2>6 DEF TypeOK
<1>2. RetryInv /\ SuppressedCloseRetries
  BY DEF RetryInv, SuppressedCloseRetries, Sockets, Timers
<1>3. AuthInv /\ AuthOncePerSocket /\ OrderInv
  BY DEF AuthInv, AuthOncePerSocket, OrderInv, Sockets
<1> QED  BY <1>1, <1>2, <1>3 DEF Inv

\* Every step keeps the types.
LEMMA TypeStep == ASSUME Inv, [Next]_vars PROVE TypeOK'
<1> USE SocketAssumption DEF Inv, connVars, sockVars, timeVars, peerVars, Sockets
<1>1. ASSUME Connect PROVE TypeOK'
  <2>1. attempt + 1 \in Sockets
    BY <1>1 DEF Connect, TypeOK, RetryInv
  <2>2. <<"auth">> \in Seq(Messages)
    BY DEF Messages
  <2>3. <<"connect", attempt + 1>> \in Timers
    BY <2>1 DEF Timers
  <2>4. sock' \in [Sockets -> {"none", "connecting", "open", "closing", "closed"}]
    BY <1>1, <2>1 DEF Connect, TypeOK
  <2>5. retries' \in 0..1
    BY <1>1 DEF Connect, TypeOK
  <2> QED  BY <1>1, <2>1, <2>2, <2>3, <2>4, <2>5 DEF Connect, TypeOK
<1>2. ASSUME NEW k \in Sockets, ConnectTimeout(k) PROVE TypeOK'
  <2>1. sock' \in [Sockets -> {"none", "connecting", "open", "closing", "closed"}]
    BY <1>2 DEF ConnectTimeout, TypeOK
  <2>2. retries' \in 0..1
    BY <1>2 DEF ConnectTimeout, TypeOK, RetryInv
  <2>3. told' \in BOOLEAN
    BY <1>2 DEF ConnectTimeout, TypeOK
  <2> QED  BY <1>2, <2>1, <2>2, <2>3 DEF ConnectTimeout, TypeOK
<1>3. ASSUME NEW k \in Sockets, StreamTimeout(k) PROVE TypeOK'
  BY <1>3 DEF StreamTimeout, TypeOK
<1>4. ASSUME NEW k \in Sockets, OnWsOpen(k) PROVE TypeOK'
  <2>1. <<"stream", k>> \in Timers /\ <<>> \in Seq(Messages)
    BY DEF Timers
  <2>2. sent' \in [Sockets -> Seq(Messages)]
    <3>1. sent[attempt] \o buffer \in Seq(Messages)
      BY DEF TypeOK
    <3> QED  BY <1>4, <3>1 DEF OnWsOpen, Deliver, TypeOK
  <2> QED  BY <1>4, <2>1, <2>2 DEF OnWsOpen, SetTimer, TypeOK
<1>5. ASSUME NEW k \in Sockets, OnWsClose(k) PROVE TypeOK'
  <2>1. /\ sock' \in [Sockets -> {"none", "connecting", "open", "closing", "closed"}]
        /\ stale' \in BOOLEAN
    BY <1>5 DEF OnWsClose, TypeOK
  <2>2. retries' \in 0..1
    <3>1. retries' = retries \/ (retries' = retries + 1 /\ timer # NoTimer /\ ~opened)
      BY <1>5 DEF OnWsClose
    <3> QED  BY <3>1 DEF TypeOK, RetryInv
  <2>3. told' \in BOOLEAN
    <3>1. UNCHANGED told \/ told' = (told \/ peer # "connected")
      BY <1>5 DEF OnWsClose
    <3> QED  BY <3>1 DEF TypeOK
  <2>4. timer' \in Timers \cup {NoTimer} /\ timers' \subseteq Timers
    BY <1>5 DEF OnWsClose, ClearTimer, TypeOK
  <2> QED  BY <1>5, <2>1, <2>2, <2>3, <2>4 DEF OnWsClose, TypeOK
<1>6. ASSUME NEW k \in Sockets, CreatePeer(k) PROVE TypeOK'
  BY <1>6 DEF CreatePeer, TypeOK
<1>7. ASSUME SendOffer PROVE TypeOK'
  <2>1. <<"offer">> \in Seq(Messages) /\ "offer" \in Messages
    BY DEF Messages
  <2>2. sent[attempt] \o <<"offer">> \in Seq(Messages)
        /\ Append(buffer, "offer") \in Seq(Messages)
    BY <2>1 DEF TypeOK
  <2> QED  BY <1>7, <2>2 DEF SendOffer, Deliver, TypeOK
<1>8. ASSUME PeerConnected \/ PeerFailed PROVE TypeOK'
  BY <1>8 DEF PeerConnected, PeerFailed, ClearTimer, TypeOK
<1>9. ASSUME UNCHANGED vars PROVE TypeOK'
  BY <1>9 DEF vars, TypeOK
<1> QED  BY <1>1, <1>2, <1>3, <1>4, <1>5, <1>6, <1>7, <1>8, <1>9 DEF Next, Page

\* Every step keeps the attempts in order.
LEMMA RetryStep == ASSUME Inv, [Next]_vars PROVE RetryInv' /\ SuppressedCloseRetries'
<1> USE SocketAssumption
    DEF Inv, TypeOK, RetryInv, SuppressedCloseRetries, Sockets, connVars, sockVars,
        timeVars, peerVars
<1>1. ASSUME Connect PROVE RetryInv' /\ SuppressedCloseRetries'
  <2>1. retries' = 0 /\ timer' # NoTimer
    BY <1>1 DEF Connect, Timers
  <2>2. \A k \in Sockets : <<"connect", k>> \notin timers
    BY <1>1 DEF Connect
  <2> QED  BY <1>1, <2>1, <2>2 DEF Connect
<1>2. ASSUME NEW k \in Sockets, ConnectTimeout(k) PROVE RetryInv' /\ SuppressedCloseRetries'
  BY <1>2 DEF ConnectTimeout
<1>3. ASSUME NEW k \in Sockets, StreamTimeout(k) PROVE RetryInv' /\ SuppressedCloseRetries'
  BY <1>3 DEF StreamTimeout
<1>4. ASSUME NEW k \in Sockets, OnWsOpen(k) PROVE RetryInv' /\ SuppressedCloseRetries'
  BY <1>4 DEF OnWsOpen, SetTimer, Timers
<1>5. ASSUME NEW k \in Sockets, OnWsClose(k) PROVE RetryInv' /\ SuppressedCloseRetries'
  <2>1. UNCHANGED <<attempt, opened, peer>>
    BY <1>5 DEF OnWsClose
  <2>2. CASE attempt < MaxAttempts /\ ClearTimer /\ retries' = retries + 1
    <3>1. \A j \in Sockets : <<"connect", j>> \notin timers'
      BY <2>2 DEF ClearTimer
    <3> QED  BY <2>1, <2>2, <3>1 DEF ClearTimer
  <2>3. CASE UNCHANGED <<retries, timer, timers>>
    BY <2>1, <2>3
  <2> QED  BY <1>5, <2>2, <2>3 DEF OnWsClose
<1>6. ASSUME PeerConnected \/ PeerFailed PROVE RetryInv' /\ SuppressedCloseRetries'
  <2>1. /\ UNCHANGED <<attempt, opened, retries>>
        /\ peer' \notin {"none", "new"}
        /\ UNCHANGED <<timer, timers>> \/ (timer' = NoTimer /\ timers' = timers \ {timer})
    BY <1>6 DEF PeerConnected, PeerFailed, ClearTimer
  <2>2. CASE UNCHANGED <<timer, timers>>
    BY <2>1, <2>2
  <2>3. CASE timer' = NoTimer /\ timers' = timers \ {timer}
    <3>1. \A j \in Sockets : <<"connect", j>> \notin timers'
      BY <2>3
    <3> QED  BY <2>1, <2>3, <3>1
  <2> QED  BY <2>1, <2>2, <2>3
<1>7. ASSUME SendOffer \/ UNCHANGED vars \/ (\E k \in Sockets : CreatePeer(k))
      PROVE  RetryInv' /\ SuppressedCloseRetries'
  BY <1>7 DEF SendOffer, CreatePeer, vars
<1> QED  BY <1>1, <1>2, <1>3, <1>4, <1>5, <1>6, <1>7 DEF Next, Page

\* The other steps leave messages alone and only close sockets.
LEMMA QuietSteps ==
    ASSUME Inv, [Next]_vars
    PROVE  \/ Connect \/ SendOffer
           \/ \E k \in Sockets : OnWsOpen(k)
           \/ /\ UNCHANGED <<attempt, buffer, sent>>
              /\ \A k \in Sockets :
                   sock'[k] = sock[k] \/ (k <= attempt /\ sock'[k] \in {"closing", "closed"})
<1> USE SocketAssumption
    DEF Inv, TypeOK, AuthInv, Sockets, connVars, sockVars, timeVars, peerVars
<1> DEFINE Quiet ==
      /\ UNCHANGED <<attempt, buffer, sent>>
      /\ \A k \in Sockets :
           sock'[k] = sock[k] \/ (k <= attempt /\ sock'[k] \in {"closing", "closed"})
<1>1. ASSUME NEW j \in Sockets, ConnectTimeout(j) PROVE Quiet
  BY <1>1 DEF ConnectTimeout
<1>2. ASSUME NEW j \in Sockets, OnWsClose(j) PROVE Quiet
  <2>1. j <= attempt
    <3>1. sock[j] # "none"
      BY <1>2 DEF OnWsClose
    <3>2. j \in Nat /\ attempt \in Nat /\ ~(j > attempt)
      BY <3>1
    <3> QED  BY <3>2
  <2>2. /\ UNCHANGED <<attempt, buffer, sent>>
        /\ sock' = [sock EXCEPT ![j] = "closed"]
    BY <1>2 DEF OnWsClose
  <2> QED  BY <2>1, <2>2
<1>3. ASSUME UNCHANGED vars \/ PeerConnected \/ PeerFailed
             \/ (\E j \in Sockets : StreamTimeout(j) \/ CreatePeer(j))
      PROVE  Quiet
  BY <1>3 DEF vars, PeerConnected, PeerFailed, StreamTimeout, CreatePeer
<1> QED  BY <1>1, <1>2, <1>3 DEF Next, Page

\* Every step keeps the authentication single.
LEMMA AuthStep == ASSUME Inv, [Next]_vars PROVE AuthInv' /\ AuthOncePerSocket'
<1> USE SocketAssumption DEF connVars, sockVars, timeVars, peerVars
<1>0. /\ TypeOK /\ RetryInv /\ AuthInv /\ AuthOncePerSocket
      /\ attempt \in 1..MaxAttempts
  BY DEF Inv, TypeOK, Sockets
<1>1. ASSUME Connect PROVE AuthInv' /\ AuthOncePerSocket'
  <2>1. attempt' = attempt + 1 /\ attempt + 1 \in Sockets
    BY <1>0, <1>1 DEF Connect, RetryInv, TypeOK, Sockets
  <2>2. /\ buffer' = <<"auth">> /\ UNCHANGED sent
        /\ sock' = [sock EXCEPT ![attempt + 1] = "connecting"]
    BY <1>1 DEF Connect
  <2>3. sent[attempt + 1] = <<>>
    BY <1>0, <2>1 DEF AuthInv
  <2>4. AuthInv'
    <3>1. sock'[attempt'] = "connecting" /\ sent'[attempt'] = <<>>
      BY <1>0, <2>1, <2>2, <2>3 DEF TypeOK
    <3>2. \A m, n \in DOMAIN buffer' : m = n
      BY <2>2
    <3>3. ASSUME NEW k \in Sockets, k > attempt'
          PROVE  sock'[k] = "none" /\ sent'[k] = <<>>
      <4>1. k > attempt /\ k # attempt + 1
        BY <1>0, <2>1, <3>3 DEF Sockets
      <4> QED  BY <1>0, <2>2, <4>1 DEF AuthInv, TypeOK
    <3> QED  BY <3>1, <3>2, <3>3 DEF AuthInv
  <2> QED  BY <1>0, <2>2, <2>4 DEF AuthOncePerSocket
<1>2. ASSUME NEW k \in Sockets, OnWsOpen(k) PROVE AuthInv' /\ AuthOncePerSocket'
  <2>1. /\ buffer' = <<>> /\ UNCHANGED attempt
        /\ sock[k] = "connecting" /\ sock' = [sock EXCEPT ![k] = "open"]
        /\ sent' = IF sock'[attempt] = "open"
                   THEN [sent EXCEPT ![attempt] = @ \o buffer] ELSE sent
    BY <1>2 DEF OnWsOpen, Deliver
  <2>2. \A j \in Sockets : j > attempt => j # k /\ sent'[j] = sent[j]
    BY <1>0, <2>1 DEF AuthInv, TypeOK, Sockets
  <2>3. AuthInv'
    <3>1. DOMAIN buffer' = {}
      BY <2>1
    <3>2. \A j \in Sockets : j > attempt' => sock'[j] = "none" /\ sent'[j] = <<>>
      BY <1>0, <2>1, <2>2 DEF AuthInv, TypeOK
    <3> QED  BY <3>1, <3>2 DEF AuthInv
  <2>4. ASSUME NEW m \in DOMAIN (sent[attempt] \o buffer),
               NEW n \in DOMAIN (sent[attempt] \o buffer),
               (sent[attempt] \o buffer)[m] = "auth", (sent[attempt] \o buffer)[n] = "auth"
        PROVE  m = n
    <3>1. sent[attempt] \in Seq(Messages) /\ buffer \in Seq(Messages)
      BY <1>0 DEF TypeOK
    <3>2. CASE \E i \in DOMAIN buffer : buffer[i] = "auth"
      <4>1. sent[attempt] = <<>>
        BY <1>0, <3>2 DEF AuthInv
      <4>2. m \in DOMAIN buffer /\ n \in DOMAIN buffer /\ buffer[m] = "auth" /\ buffer[n] = "auth"
        BY <2>4, <3>1, <4>1
      <4> QED  BY <1>0, <4>2 DEF AuthInv
    <3>3. CASE \A i \in DOMAIN buffer : buffer[i] # "auth"
      <4>1. /\ m \in DOMAIN sent[attempt] /\ sent[attempt][m] = "auth"
            /\ n \in DOMAIN sent[attempt] /\ sent[attempt][n] = "auth"
        BY <2>4, <3>1, <3>3
      <4> QED  BY <1>0, <4>1 DEF AuthOncePerSocket, Sockets
    <3> QED  BY <3>2, <3>3
  <2>5. \A j \in Sockets : sent'[j] = sent[j] \/ (j = attempt /\ sent'[j] = sent[j] \o buffer)
    BY <1>0, <2>1 DEF TypeOK
  <2>6. AuthOncePerSocket'
    BY <1>0, <2>4, <2>5 DEF AuthOncePerSocket
  <2> QED  BY <2>3, <2>6
<1>3. ASSUME SendOffer PROVE AuthInv' /\ AuthOncePerSocket'
  <2>1. UNCHANGED <<attempt, sock>>
    BY <1>3 DEF SendOffer
  <2>2. sent[attempt] \in Seq(Messages) /\ buffer \in Seq(Messages)
    BY <1>0 DEF TypeOK, Sockets
  <2>3. CASE sock[attempt] = "open"
    <3>1. UNCHANGED buffer /\ sent' = [sent EXCEPT ![attempt] = @ \o <<"offer">>]
      BY <1>3, <2>3 DEF SendOffer, Deliver
    <3>2. \A i \in DOMAIN buffer : buffer[i] # "auth"
      BY <1>0, <2>3 DEF AuthInv
    <3>3. AuthInv'
      <4>1. \A j \in Sockets : j > attempt => sent'[j] = sent[j]
        BY <1>0, <3>1 DEF TypeOK
      <4>2. \A j \in Sockets : j > attempt' => sock'[j] = "none" /\ sent'[j] = <<>>
        BY <1>0, <2>1, <4>1 DEF AuthInv
      <4>3. ~\E n \in DOMAIN buffer' : buffer'[n] = "auth"
        BY <3>1, <3>2
      <4> QED  BY <4>2, <4>3 DEF AuthInv
    <3>4. \A i \in DOMAIN (sent[attempt] \o <<"offer">>) :
             (sent[attempt] \o <<"offer">>)[i] = "auth"
               => i \in DOMAIN sent[attempt] /\ sent[attempt][i] = "auth"
      BY <2>2
    <3>5. \A j \in Sockets : sent'[j] = IF j = attempt THEN sent[attempt] \o <<"offer">>
                                       ELSE sent[j]
      BY <1>0, <3>1 DEF TypeOK
    <3>6. AuthOncePerSocket'
      BY <1>0, <3>4, <3>5 DEF AuthOncePerSocket
    <3> QED  BY <3>3, <3>6
  <2>4. CASE sock[attempt] # "open"
    <3>1. UNCHANGED sent /\ buffer' = Append(buffer, "offer")
      BY <1>3, <2>4 DEF SendOffer, Deliver
    <3>2. \A i \in DOMAIN buffer' : buffer'[i] = "auth"
                                     => i \in DOMAIN buffer /\ buffer[i] = "auth"
      BY <2>2, <3>1
    <3> QED  BY <1>0, <2>1, <2>4, <3>1, <3>2 DEF AuthInv, AuthOncePerSocket
  <2> QED  BY <2>3, <2>4
<1>4. ASSUME UNCHANGED <<attempt, buffer, sent>>,
             \A k \in Sockets :
               sock'[k] = sock[k] \/ (k <= attempt /\ sock'[k] \in {"closing", "closed"})
      PROVE  AuthInv' /\ AuthOncePerSocket'
  BY <1>0, <1>4 DEF AuthInv, AuthOncePerSocket, Sockets
<1> QED  BY <1>1, <1>2, <1>3, <1>4, QuietSteps

\* Every step keeps the sockets in order.
LEMMA OrderStep == ASSUME Inv, [Next]_vars PROVE OrderInv'
<1> USE SocketAssumption DEF connVars, sockVars, timeVars, peerVars
<1>0. /\ TypeOK /\ RetryInv /\ AuthInv /\ OrderInv
      /\ attempt \in 1..MaxAttempts
  BY DEF Inv, TypeOK, Sockets
<1>1. ASSUME Connect PROVE OrderInv'
  <2>1. /\ attempt' = attempt + 1 /\ attempt + 1 \in Sockets /\ retries' = 0
        /\ buffer' = <<"auth">> /\ UNCHANGED <<sent, stale>>
        /\ sock' = [sock EXCEPT ![attempt + 1] = "connecting"]
    BY <1>0, <1>1 DEF Connect, RetryInv, TypeOK, Sockets
  <2>2. /\ sock'[attempt'] = "connecting" /\ sent'[attempt'] = <<>>
        /\ \A k \in Sockets : k < attempt' => sock'[k] = sock[k]
    BY <1>0, <2>1 DEF AuthInv, TypeOK, Sockets
  <2>3. ~stale => \A k \in Sockets : k < attempt' => sock[k] \in {"closing", "closed"}
    <3> SUFFICES ASSUME ~stale, NEW k \in Sockets, k < attempt'
                 PROVE  sock[k] \in {"closing", "closed"}
      OBVIOUS
    <3>1. k < attempt \/ k = attempt
      BY <1>0, <2>1 DEF Sockets
    <3> QED  BY <1>0, <1>1, <3>1 DEF Connect, OrderInv
  <2> QED  BY <2>1, <2>2, <2>3 DEF OrderInv
<1>2. ASSUME NEW j \in Sockets, ConnectTimeout(j) PROVE OrderInv'
  <2>1. UNCHANGED <<attempt, buffer, sent, stale>>
    BY <1>2 DEF ConnectTimeout
  <2>2. /\ sock'[attempt] \in {"closing", "closed"}
        /\ \A k \in Sockets : k # attempt => sock'[k] = sock[k]
    BY <1>0, <1>2 DEF ConnectTimeout, TypeOK
  <2>3. \A k \in Sockets : k < attempt => k # attempt
    BY <1>0 DEF Sockets
  <2> QED  BY <1>0, <2>1, <2>2, <2>3 DEF OrderInv
<1>3. ASSUME NEW k \in Sockets, OnWsOpen(k) PROVE OrderInv'
  <2> SUFFICES ASSUME ~stale' PROVE OrderInv'
    BY DEF OrderInv
  <2>1. /\ sock[k] = "connecting" /\ sock' = [sock EXCEPT ![k] = "open"]
        /\ UNCHANGED <<attempt, retries, stale>>
        /\ sent' = IF sock'[attempt] = "open"
                   THEN [sent EXCEPT ![attempt] = @ \o buffer] ELSE sent
    BY <1>3 DEF OnWsOpen, Deliver
  <2>2. k = attempt
    BY <1>0, <2>1 DEF AuthInv, OrderInv, Sockets
  <2>3. /\ buffer # <<>> /\ buffer[1] = "auth" /\ sent[attempt] = <<>>
        /\ retries = 0
    BY <1>0, <2>1, <2>2 DEF OrderInv, TypeOK
  <2>4. sock'[attempt] = "open" /\ \A j \in Sockets : j < attempt => sock'[j] = sock[j]
    BY <1>0, <2>1, <2>2 DEF TypeOK, Sockets
  <2>5. sent'[attempt] = <<>> \o buffer
    BY <1>0, <2>1, <2>3, <2>4 DEF TypeOK
  <2>6. sent'[attempt] # <<>> /\ sent'[attempt][1] = "auth"
    BY <1>0, <2>3, <2>5 DEF TypeOK
  <2> QED  BY <1>0, <2>1, <2>3, <2>4, <2>6 DEF OrderInv
<1>4. ASSUME NEW k \in Sockets, OnWsClose(k) PROVE OrderInv'
  <2> SUFFICES ASSUME ~stale' PROVE OrderInv'
    BY DEF OrderInv
  <2>1. /\ sock[k] \in {"connecting", "open", "closing"}
        /\ sock' = [sock EXCEPT ![k] = "closed"]
        /\ ~stale /\ (sock[k] = "closing" => k = attempt)
        /\ UNCHANGED <<attempt, buffer, sent>>
    BY <1>4 DEF OnWsClose
  <2>2. k = attempt
    BY <1>0, <2>1 DEF AuthInv, OrderInv, Sockets
  <2>3. sock'[attempt] = "closed" /\ \A j \in Sockets : j < attempt => sock'[j] = sock[j]
    BY <1>0, <2>1, <2>2 DEF TypeOK, Sockets
  <2> QED  BY <1>0, <2>1, <2>3 DEF OrderInv
<1>5. ASSUME SendOffer PROVE OrderInv'
  <2>1. /\ UNCHANGED <<attempt, retries, sock, stale>>
        /\ sock[attempt] = "open" => UNCHANGED buffer
                                     /\ sent' = [sent EXCEPT ![attempt] = @ \o <<"offer">>]
        /\ sock[attempt] # "open" => UNCHANGED sent /\ buffer' = Append(buffer, "offer")
    BY <1>5 DEF SendOffer, Deliver
  <2>2. sent[attempt] \in Seq(Messages) /\ buffer \in Seq(Messages)
    BY <1>0 DEF TypeOK, Sockets
  <2>3. buffer # <<>> => Append(buffer, "offer") # <<>>
                        /\ Append(buffer, "offer")[1] = buffer[1]
    BY <2>2
  <2>4. sent[attempt] # <<>> => sent[attempt] \o <<"offer">> # <<>>
                               /\ (sent[attempt] \o <<"offer">>)[1] = sent[attempt][1]
    BY <2>2
  <2>5. sock[attempt] = "open" => sent'[attempt] = sent[attempt] \o <<"offer">>
    BY <1>0, <2>1 DEF TypeOK, Sockets
  <2> QED  BY <1>0, <2>1, <2>3, <2>4, <2>5 DEF OrderInv
<1>6. ASSUME UNCHANGED vars \/ PeerConnected \/ PeerFailed
             \/ (\E j \in Sockets : StreamTimeout(j) \/ CreatePeer(j))
      PROVE  OrderInv'
  BY <1>0, <1>6 DEF vars, PeerConnected, PeerFailed, StreamTimeout, CreatePeer, OrderInv
<1> QED  BY <1>1, <1>2, <1>3, <1>4, <1>5, <1>6 DEF Next, Page

-----------------------------------------------------------------------------
(* The theorems *)

\* The events of all sockets and timers, in whatever order, leave the attempts,
\* the waiting messages and the sockets in order.
THEOREM InvHolds == Spec => []Inv
<1>1. Init => Inv
  BY InitInv
<1>2. Inv /\ [Next]_vars => Inv'
  BY TypeStep, RetryStep, AuthStep, OrderStep DEF Inv
<1> QED  BY <1>1, <1>2, PTL DEF Spec

\* The types, for every number of attempts.
THEOREM SocketTypeSafe == Spec => []TypeOK
<1>1. Inv => TypeOK
  BY DEF Inv
<1> QED  BY <1>1, InvHolds, PTL

\* A close that onWsClose ignores is followed by another attempt.
THEOREM RetryFollows == Spec => []SuppressedCloseRetries
<1>1. Inv => SuppressedCloseRetries
  BY DEF Inv
<1> QED  BY <1>1, InvHolds, PTL

\* The page never tries more often than WS_MAX_ATTEMPTS.
THEOREM AttemptsStayBounded == Spec => []AttemptsBounded
<1>1. Inv => AttemptsBounded
  BY SocketAssumption DEF Inv, TypeOK, RetryInv, AttemptsBounded, Sockets
<1> QED  BY <1>1, InvHolds, PTL

\* No socket carries the authentication twice.
THEOREM AuthOnce == Spec => []AuthOncePerSocket
<1>1. Inv => AuthOncePerSocket
  BY DEF Inv
<1> QED  BY <1>1, InvHolds, PTL

\* If closes are reported in time, an open socket has sent its authentication.
THEOREM AuthSent == Spec => []AuthSentOnOpen
<1>1. Inv => AuthSentOnOpen
  <2> SUFFICES ASSUME Inv, ~stale, NEW k \in Sockets, sock[k] = "open"
               PROVE  k = attempt /\ sent[k] # <<>> /\ sent[k][1] = "auth"
    BY DEF AuthSentOnOpen
  <2>1. k = attempt
    <3>1. ~(k > attempt) /\ ~(k < attempt)
      BY DEF Inv, AuthInv, OrderInv
    <3>2. k \in Nat /\ attempt \in Nat
      BY SocketAssumption DEF Inv, TypeOK, Sockets
    <3> QED  BY <3>1, <3>2
  <2> QED  BY <2>1 DEF Inv, OrderInv
<1> QED  BY <1>1, InvHolds, PTL

-----------------------------------------------------------------------------
(***************************************************************************)
(* The client that only sends input (InputClient): a page, its WebSocket   *)
(* and the task of the server that connects them.                          *)
(***************************************************************************)

Mailed == {[kind |-> "waiting"], [kind |-> "config"]} \cup [kind : {"answer"}, of : Nat \X Nat]

\* What was sent to the page and is not handled, in order.
Mail == inbox \o toPage

MailTypes ==
    /\ inbox \in Seq(Mailed) /\ toPage \in Seq(Mailed)
    /\ made \in Nat /\ cur \in {0, made} /\ attachment \in Nat

\* An offer is on its way, or its answer: on the socket, in the buffer of a socket
\* that is not open yet, or in the mail of the page.
Buffered == wsState = "connecting" /\ waiting # <<>>
Answered == \E i \in 1..Len(Mail) : Mail[i].kind = "answer"
Out      == toServer # <<>> \/ Buffered \/ Answered

\* There is one at most, and it is of the peer made last.
OneOffer ==
    /\ toServer \in {<<>>, <<made>>}
    /\ Buffered => waiting = <<made>> /\ toServer = <<>>
    /\ \A i \in 1..Len(Mail) : Mail[i].kind = "answer" =>
          /\ Mail[i].of[1] = made /\ toServer = <<>> /\ ~Buffered
          /\ \A j \in 1..Len(Mail) : Mail[j].kind = "answer" => j = i

\* Meanwhile no handler waits, and no other peer is made: there is that one, or the
\* stream is over and no WebRtcConfig on its way.
OfferStands ==
    /\ Out => handler = "none" /\ (cur = 0 \/ signaling = "offered")
    /\ Out /\ cur = 0 => current = 0 /\ \A i \in 1..Len(Mail) : Mail[i].kind # "config"
    /\ handler = "gather" /\ cur # 0 => signaling = "offered"

\* The page is told to wait when there is no stream, and then nothing else.
WaitingLast ==
    /\ serverTask = "attached" => attachedTo # 0
    /\ \A i \in 1..Len(Mail) : Mail[i].kind = "waiting" =>
          current = 0 /\ \A j \in i..Len(Mail) : Mail[j].kind = "waiting"

OwnAnswers ==
    /\ handler = "remote" => awaited # 0 /\ (awaited = cur => answer[1] = cur)
    /\ signaling = "settled" => cur # 0

InputInv ==
    /\ AnswersAreOwn
    /\ ~left /\ "message" \notin hurried =>
          MailTypes /\ OneOffer /\ OfferStands /\ WaitingLast /\ OwnAnswers

\* All of it, while the page is there and nothing was overtaken.
Orderly ==
    /\ ~left /\ "message" \notin hurried
    /\ AnswersAreOwn /\ MailTypes /\ OneOffer /\ OfferStands /\ WaitingLast /\ OwnAnswers

LEMMA MailFacts ==
    ASSUME MailTypes
    PROVE  /\ Mail \in Seq(Mailed) /\ (Mail = <<>> <=> inbox = <<>> /\ toPage = <<>>)
           /\ inbox # <<>> => /\ Mail # <<>> /\ Head(inbox) = Mail[1] /\ Tail(Mail) = Tail(inbox) \o toPage
                              /\ Tail(inbox) \in Seq(Mailed)
           /\ \A m \in Mailed : /\ inbox \o Append(toPage, m) = Append(Mail, m)
                                  /\ Append(toPage, m) \in Seq(Mailed)
           /\ toPage # <<>> => /\ Append(inbox, Head(toPage)) \o Tail(toPage) = Mail
                               /\ Append(inbox, Head(toPage)) \in Seq(Mailed)
                               /\ Tail(toPage) \in Seq(Mailed)
<1> DEFINE a == inbox  b == toPage  M == Mailed
<1>1. a \in Seq(M) /\ b \in Seq(M)
  BY DEF MailTypes
<1> HIDE DEF a, b, M
<1>2. a \o b \in Seq(M) /\ (a \o b = <<>> <=> a = <<>> /\ b = <<>>)
  BY <1>1
<1>3. a # <<>> => /\ a \o b # <<>> /\ Head(a) = (a \o b)[1] /\ Tail(a \o b) = Tail(a) \o b
                  /\ Tail(a) \in Seq(M)
  <2>1. a # <<>> => a \o b # <<>> /\ Head(a \o b) = Head(a) /\ Tail(a \o b) = Tail(a) \o b
    BY <1>1, FrontPart
  <2> QED  BY <1>1, <1>2, <2>1
<1>4. \A m \in M : a \o Append(b, m) = Append(a \o b, m) /\ Append(b, m) \in Seq(M)
  BY <1>1, AppendToLast
<1>5. b # <<>> => /\ Append(a, Head(b)) \o Tail(b) = a \o b /\ Append(a, Head(b)) \in Seq(M)
                  /\ Tail(b) \in Seq(M)
  BY <1>1, HeadMoves
<1> QED  BY <1>2, <1>3, <1>4, <1>5 DEF a, b, M, Mail

LEMMA InputInvStarts == InputInit => InputInv
<1> SUFFICES ASSUME InputInit PROVE InputInv
  OBVIOUS
<1>1. <<>> \in Seq(Mailed) /\ Len(<<>>) = 0
  OBVIOUS
<1>2. Mail = <<>>
  BY DEF InputInit, Mail
<1> QED  BY <1>1, <1>2
         DEF InputInit, InputInv, AnswersAreOwn, MailTypes, OneOffer, OfferStands, WaitingLast,
             OwnAnswers, Out, Buffered, Answered

\* What is kept while the mail stays, nothing new is offered, and the peer and the
\* host's stream are as before.
LEMMA StillOrderly ==
    ASSUME Orderly, inbox' \in Seq(Mailed), toPage' \in Seq(Mailed), Mail' = Mail,
           UNCHANGED <<made, cur, attachment, signaling, answer, handler, awaited>>,
           current' \in {current, 0}, serverTask' = "attached" => attachedTo' # 0,
           \/ toServer' \in {toServer, <<>>} /\ (Buffered' => Buffered /\ waiting' = waiting)
           \/ toServer' = waiting /\ Buffered /\ ~Buffered'
    PROVE  AnswersAreOwn' /\ MailTypes' /\ OneOffer' /\ OfferStands' /\ WaitingLast' /\ OwnAnswers'
<1> USE DEF Orderly
<1>1. MailTypes' /\ OwnAnswers' /\ AnswersAreOwn'
  BY DEF MailTypes, OwnAnswers, AnswersAreOwn
<1>2. OneOffer' /\ (Out' => Out)
  BY DEF OneOffer, Out, Answered, Buffered
<1>3. OfferStands'
  BY <1>2 DEF OfferStands
<1>4. WaitingLast'
  BY DEF WaitingLast
<1> QED  BY <1>1, <1>2, <1>3, <1>4

-----------------------------------------------------------------------------
(* The socket *)

\* A torn down peer leaves no offer: its answers had no handler to wait for.
LEMMA ClosesKeeps ==
    ASSUME Orderly, WsCloses
    PROVE  InputInv'
<1> USE DEF Orderly
<1>1. /\ Handled /\ inbox' = inbox /\ toPage' = <<>> /\ toServer' = <<>> /\ wsState' = "closed"
      /\ made' = made /\ cur' = 0 /\ signaling' = "stable" /\ attachment' = attachment
      /\ handler' = handler /\ awaited' = awaited /\ serverTask' = "none" /\ current' = current
  BY DEF WsCloses, TeardownPeer, queueVars, hostVars
<1>2. Mail' = inbox /\ Len(inbox) \in Nat /\ Len(inbox) <= Len(Mail)
      /\ \A i \in 1..Len(inbox) : i \in 1..Len(Mail) /\ inbox[i] = Mail[i]
  <2> DEFINE a == inbox  b == toPage  M == Mailed
  <2>1. a \in Seq(M) /\ b \in Seq(M)
    BY DEF MailTypes
  <2> HIDE DEF a, b, M
  <2>2. a \o <<>> = a /\ Len(a) \in Nat /\ Len(a) <= Len(a \o b)
        /\ \A i \in 1..Len(a) : i \in 1..Len(a \o b) /\ a[i] = (a \o b)[i]
    BY <2>1
  <2> QED  BY <1>1, <2>2 DEF a, b, Mail
<1>3. \A i \in 1..Len(inbox) : inbox[i].kind # "answer"
  <2> SUFFICES ASSUME NEW i \in 1..Len(inbox), inbox[i].kind = "answer" PROVE FALSE
    OBVIOUS
  <2>1. Out
    BY <1>2 DEF Out, Answered
  <2>2. inbox = <<>>
    BY <1>1, <2>1 DEF OfferStands, Handled
  <2> QED  BY <2>2
<1>4. ~Out'
  BY <1>1, <1>2, <1>3 DEF Out, Answered, Buffered
<1>5. MailTypes' /\ OneOffer' /\ OfferStands'
  <2>1. <<>> \in Seq(Mailed)
    OBVIOUS
  <2> QED  BY <1>1, <1>2, <1>3, <1>4, <2>1 DEF MailTypes, OneOffer, OfferStands, Buffered
<1>6. WaitingLast'
  <2> SUFFICES ASSUME NEW i \in 1..Len(inbox), inbox[i].kind = "waiting"
               PROVE  current = 0 /\ \A j \in i..Len(inbox) : inbox[j].kind = "waiting"
    BY <1>1, <1>2 DEF WaitingLast
  <2>1. \A j \in i..Len(inbox) : j \in 1..Len(inbox) /\ j \in i..Len(Mail)
    BY <1>2
  <2> QED  BY <1>2, <2>1 DEF WaitingLast
<1>7. AnswersAreOwn' /\ OwnAnswers'
  BY <1>1 DEF AnswersAreOwn, OwnAnswers, MailTypes
<1> QED  BY <1>5, <1>6, <1>7 DEF InputInv

\* What the page's other timers and sockets do while the messages stay.
LEMMA SocketKeeps ==
    ASSUME Orderly, WsOpens \/ Reconnects \/ \E own \in BOOLEAN : TimerFires(own)
    PROVE  InputInv'
<1> USE DEF Orderly
<1>1. Mail' = Mail /\ inbox' = inbox /\ toPage' = toPage
  BY DEF WsOpens, Reconnects, TimerFires, Mail, queueVars, wireVars
<1>2. UNCHANGED <<made, cur, attachment, signaling, answer, handler, awaited, current, attachedTo>>
  BY DEF WsOpens, Reconnects, TimerFires, pagePeer, whichPeer, queueVars, relayVars, hostVars
<1>3. serverTask' = "attached" => attachedTo' # 0
  BY <1>2 DEF WsOpens, Reconnects, TimerFires, relayVars, WaitingLast
<1>4. \/ toServer' \in {toServer, <<>>} /\ (Buffered' => Buffered /\ waiting' = waiting)
      \/ toServer' = waiting /\ Buffered /\ ~Buffered'
  <2>1. CASE WsOpens
    BY <2>1 DEF WsOpens, Buffered
  <2>2. CASE Reconnects
    BY <2>2 DEF Reconnects, Buffered, wireVars
  <2>3. CASE \E own \in BOOLEAN : TimerFires(own)
    BY <2>3 DEF TimerFires, Buffered, wireVars
  <2> QED  BY <2>1, <2>2, <2>3
<1>5. inbox' \in Seq(Mailed) /\ toPage' \in Seq(Mailed)
  BY <1>1 DEF MailTypes
<1> QED  BY <1>1, <1>2, <1>3, <1>4, <1>5, StillOrderly DEF InputInv

\* A message goes on to the queue of the page.
LEMMA ReceiveKeeps ==
    ASSUME Orderly, Receives
    PROVE  InputInv'
<1> USE DEF Orderly
<1>1. Mail' = Mail /\ inbox' \in Seq(Mailed) /\ toPage' \in Seq(Mailed)
  BY MailFacts DEF Receives, Mail
<1>2. UNCHANGED <<made, cur, attachment, signaling, answer, handler, awaited, current, attachedTo,
                  serverTask, toServer, wsState, waiting>>
  BY DEF Receives, socketVars, pagePeer, whichPeer, relayVars, hostVars
<1>3. /\ serverTask' = "attached" => attachedTo' # 0
      /\ Buffered' => Buffered /\ waiting' = waiting
  BY <1>2 DEF WaitingLast, Buffered
<1> QED  BY <1>1, <1>2, <1>3, StillOrderly DEF InputInv

-----------------------------------------------------------------------------
(* Handlers *)

\* What is left when the first message has been handled.
LEMMA TakenMail ==
    ASSUME Orderly, NEW k, Takes(k), toPage' = toPage
    PROVE  /\ Mail[1] = Head(inbox) /\ Mail[1].kind = k /\ 1 \in 1..Len(Mail)
           /\ Mail[1] \in Mailed
           /\ inbox' \in Seq(Mailed) /\ toPage' \in Seq(Mailed)
           /\ Len(Mail') = Len(Mail) - 1 /\ Len(Mail) \in Nat
           /\ \A i \in 1..Len(Mail') : i + 1 \in 1..Len(Mail) /\ Mail'[i] = Mail[i + 1] /\ i + 1 # 1
<1> DEFINE M == Mail  N == Mail'
<1>1. MailTypes /\ inbox # <<>> /\ Head(inbox).kind = k
  BY DEF Orderly, Takes
<1>2. /\ M \in Seq(Mailed) /\ M # <<>> /\ M[1] = Head(inbox) /\ N = Tail(M)
      /\ inbox' \in Seq(Mailed) /\ toPage' \in Seq(Mailed)
  <2>1. N = Tail(inbox) \o toPage
    BY DEF Takes, Mail
  <2> QED  BY <1>1, <2>1, MailFacts DEF Takes, MailTypes
<1> HIDE DEF M, N
<1>3. /\ Len(N) = Len(M) - 1 /\ Len(M) \in Nat /\ 1 \in 1..Len(M) /\ M[1] \in Mailed
      /\ \A i \in 1..Len(N) : i + 1 \in 1..Len(M) /\ N[i] = M[i + 1] /\ i + 1 # 1
  BY <1>2
<1> QED  BY <1>1, <1>2, <1>3 DEF M, N

\* The rest of the mail, by the properties of all of it.
LEMMA RestOfMail ==
    ASSUME Orderly, NEW k, Takes(k), toPage' = toPage,
           UNCHANGED <<toServer, wsState, waiting, current, serverTask, attachedTo>>
    PROVE  /\ WaitingLast' /\ (Out' => Out) /\ (Answered' => Answered /\ k # "answer")
           /\ Buffered' = Buffered
           /\ made' = made => OneOffer'
           /\ (\A i \in 1..Len(Mail) : Mail[i].kind # "config")
                => \A i \in 1..Len(Mail') : Mail'[i].kind # "config"
<1> USE DEF Orderly
<1>1. /\ Mail[1].kind = k /\ 1 \in 1..Len(Mail) /\ Len(Mail') = Len(Mail) - 1 /\ Len(Mail) \in Nat
      /\ \A i \in 1..Len(Mail') : i + 1 \in 1..Len(Mail) /\ Mail'[i] = Mail[i + 1] /\ i + 1 # 1
  BY TakenMail
<1>2. Buffered' = Buffered
  BY DEF Buffered
<1>3. Answered' => Answered /\ k # "answer"
  <2> SUFFICES ASSUME NEW i \in 1..Len(Mail'), Mail'[i].kind = "answer"
               PROVE  Answered /\ k # "answer"
    BY DEF Answered
  <2>1. i + 1 \in 1..Len(Mail) /\ Mail[i + 1].kind = "answer" /\ i + 1 # 1
    BY <1>1
  <2> QED  BY <1>1, <2>1 DEF OneOffer, Answered
<1>4. WaitingLast'
  <2> SUFFICES ASSUME NEW i \in 1..Len(Mail'), Mail'[i].kind = "waiting"
               PROVE  current = 0 /\ \A j \in i..Len(Mail') : Mail'[j].kind = "waiting"
    BY DEF WaitingLast
  <2>1. i + 1 \in 1..Len(Mail) /\ Mail[i + 1].kind = "waiting"
    BY <1>1
  <2>2. \A j \in i..Len(Mail') : j \in 1..Len(Mail') /\ j + 1 \in i + 1..Len(Mail)
    BY <1>1
  <2> QED  BY <1>1, <2>1, <2>2 DEF WaitingLast
<1>5. made' = made => OneOffer'
  <2> SUFFICES ASSUME made' = made PROVE OneOffer'
    OBVIOUS
  <2>1. \A i \in 1..Len(Mail') : Mail'[i].kind = "answer" =>
          /\ Mail'[i].of[1] = made /\ toServer = <<>> /\ ~Buffered
          /\ \A j \in 1..Len(Mail') : Mail'[j].kind = "answer" => j = i
    <3> SUFFICES ASSUME NEW i \in 1..Len(Mail'), Mail'[i].kind = "answer"
                 PROVE  /\ Mail'[i].of[1] = made /\ toServer = <<>> /\ ~Buffered
                        /\ \A j \in 1..Len(Mail') : Mail'[j].kind = "answer" => j = i
      OBVIOUS
    <3>1. i + 1 \in 1..Len(Mail) /\ Mail[i + 1] = Mail'[i]
      BY <1>1
    <3>2. \A j \in 1..Len(Mail') : Mail'[j].kind = "answer" => j + 1 = i + 1
      BY <1>1, <3>1 DEF OneOffer
    <3>3. \A j \in 1..Len(Mail') : Mail'[j].kind = "answer" => j = i
      BY <3>2
    <3> QED  BY <3>1, <3>3 DEF OneOffer
  <2> QED  BY <1>2, <2>1 DEF OneOffer
<1>6. (\A i \in 1..Len(Mail) : Mail[i].kind # "config")
        => \A i \in 1..Len(Mail') : Mail'[i].kind # "config"
  BY <1>1
<1>7. Out' => Out
  BY <1>2, <1>3 DEF Out
<1> QED  BY <1>2, <1>3, <1>4, <1>5, <1>6, <1>7

LEMMA WaitingKeeps ==
    ASSUME Orderly, HandlesWaiting
    PROVE  InputInv'
<1> USE DEF Orderly
<1>1. /\ Takes("waiting") /\ toPage' = toPage /\ made' = made /\ cur' = 0 /\ signaling' = "stable"
      /\ UNCHANGED <<toServer, wsState, waiting, current, serverTask, attachedTo, attachment,
                     handler, awaited>>
      /\ handler = "none"
  BY DEF HandlesWaiting, TeardownPeer, Takes, socketVars, relayVars, hostVars, wireVars
<1>2. /\ Mail[1].kind = "waiting" /\ 1 \in 1..Len(Mail) /\ inbox' \in Seq(Mailed)
      /\ toPage' \in Seq(Mailed)
  BY <1>1, TakenMail
<1>3. current = 0 /\ \A i \in 1..Len(Mail) : Mail[i].kind # "config"
  BY <1>2 DEF WaitingLast
<1>4. /\ WaitingLast' /\ OneOffer'
      /\ \A i \in 1..Len(Mail') : Mail'[i].kind # "config"
  BY <1>1, <1>3, RestOfMail
<1>5. OfferStands' /\ MailTypes'
  BY <1>1, <1>2, <1>3, <1>4 DEF OfferStands, MailTypes
<1>6. AnswersAreOwn' /\ OwnAnswers'
  BY <1>1 DEF AnswersAreOwn, OwnAnswers
<1> QED  BY <1>4, <1>5, <1>6 DEF InputInv

\* A new peer is made only when nothing of the last one is on its way.
LEMMA ConfigKeeps ==
    ASSUME Orderly, HandlesConfig
    PROVE  InputInv'
<1> USE DEF Orderly
<1>1. /\ Takes("config") /\ toPage' = toPage /\ answer' = answer /\ handler = "none"
      /\ UNCHANGED <<toServer, wsState, waiting, current, serverTask, attachedTo, attachment>>
  BY DEF HandlesConfig, Takes, socketVars, relayVars, hostVars, wireVars
<1>2. /\ Mail[1].kind = "config" /\ 1 \in 1..Len(Mail) /\ inbox' \in Seq(Mailed)
      /\ toPage' \in Seq(Mailed)
  BY <1>1, TakenMail
<1>3. CASE cur # 0
  <2>1. UNCHANGED <<made, cur, signaling, handler, awaited>>
    BY <1>3 DEF HandlesConfig, whichPeer
  <2>2. WaitingLast' /\ OneOffer' /\ (Out' => Out)
    BY <1>1, <2>1, RestOfMail
  <2>3. OfferStands' /\ MailTypes'
    BY <1>1, <1>2, <1>3, <2>1, <2>2 DEF OfferStands, MailTypes
  <2>4. AnswersAreOwn' /\ OwnAnswers'
    BY <1>1, <1>3, <2>1 DEF AnswersAreOwn, OwnAnswers
  <2> QED  BY <2>2, <2>3, <2>4 DEF InputInv
<1>4. CASE cur = 0
  <2>1. /\ made' = made + 1 /\ cur' = made + 1 /\ signaling' = "stable"
        /\ handler' = "local"
    BY <1>4 DEF HandlesConfig
  <2>2. ~Out
    BY <1>2, <1>4 DEF OfferStands
  <2>3. WaitingLast' /\ ~Out'
    BY <1>1, <2>2, RestOfMail
  <2>4. OneOffer'
    BY <2>3 DEF OneOffer, Out, Answered, Buffered
  <2>5. OfferStands' /\ MailTypes'
    BY <1>1, <1>2, <2>1, <2>3 DEF OfferStands, MailTypes
  <2>6. AnswersAreOwn' /\ OwnAnswers'
    BY <2>1 DEF AnswersAreOwn, OwnAnswers
  <2> QED  BY <2>3, <2>4, <2>5, <2>6 DEF InputInv
<1> QED  BY <1>3, <1>4

LEMMA AnswerKeeps ==
    ASSUME Orderly, HandlesAnswer
    PROVE  InputInv'
<1> USE DEF Orderly
<1>1. /\ Takes("answer") /\ toPage' = toPage /\ answer' = Head(inbox).of /\ handler = "none"
      /\ IF cur = 0 THEN UNCHANGED <<handler, awaited>> ELSE handler' = "remote" /\ awaited' = cur
      /\ UNCHANGED <<toServer, wsState, waiting, current, serverTask, attachedTo, attachment,
                     made, cur, signaling>>
  BY DEF HandlesAnswer, Takes, socketVars, whichPeer, relayVars, hostVars, wireVars
<1>2. /\ Mail[1].kind = "answer" /\ Mail[1] = Head(inbox) /\ 1 \in 1..Len(Mail)
      /\ inbox' \in Seq(Mailed) /\ toPage' \in Seq(Mailed)
  BY <1>1, TakenMail
<1>3. answer'[1] = made /\ toServer = <<>> /\ ~Buffered /\ Answered
  BY <1>1, <1>2 DEF OneOffer, Answered
<1>4. Out /\ (cur = 0 \/ signaling = "offered")
  BY <1>3 DEF Out, OfferStands
<1>5. WaitingLast' /\ OneOffer' /\ ~Answered' /\ Buffered' = Buffered
  BY <1>1, RestOfMail
<1>6. ~Out'
  BY <1>1, <1>3, <1>5 DEF Out
<1>7. OfferStands' /\ MailTypes'
  BY <1>1, <1>2, <1>6 DEF OfferStands, MailTypes
<1>8. cur # 0 => answer'[1] = cur /\ signaling # "settled"
  BY <1>3, <1>4 DEF MailTypes
<1>9. AnswersAreOwn' /\ OwnAnswers'
  BY <1>1, <1>8 DEF AnswersAreOwn, OwnAnswers
<1> QED  BY <1>5, <1>7, <1>9 DEF InputInv

\* Operations of the peer end; the mail stays.
LEMMA PeerKeeps ==
    ASSUME Orderly, LocalSet \/ RemoteSet \/ PeerConnects \/ PeerFails
    PROVE  InputInv'
<1> USE DEF Orderly
<1>1. /\ Mail' = Mail /\ inbox' = inbox /\ toPage' = toPage
      /\ UNCHANGED <<toServer, wsState, waiting, current, serverTask, attachedTo, attachment, made>>
  BY DEF LocalSet, RemoteSet, PeerConnects, PeerFails, TeardownPeer, Mail, socketVars, whichPeer,
     queueVars, relayVars, hostVars, wireVars
<1>2. OneOffer' /\ WaitingLast' /\ Out' = Out
  BY <1>1 DEF OneOffer, WaitingLast, Out, Answered, Buffered
<1>3. CASE LocalSet
  <2>1. handler = "local" /\ handler' = "gather" /\ signaling' = "offered" /\ UNCHANGED <<cur, answer>>
    BY <1>3 DEF LocalSet, whichPeer
  <2> QED  BY <1>1, <1>2, <2>1
           DEF InputInv, MailTypes, OfferStands, AnswersAreOwn, OwnAnswers
<1>4. CASE RemoteSet
  <2>1. /\ handler = "remote" /\ handler' = "none" /\ awaited = cur /\ UNCHANGED <<cur, answer>>
        /\ signaling' \in {"settled", signaling}
    BY <1>4 DEF RemoteSet, whichPeer
  <2>2. ~Out /\ cur # 0 /\ answer[1] = cur
    BY <2>1 DEF OfferStands, OwnAnswers
  <2> QED  BY <1>1, <1>2, <2>1, <2>2
           DEF InputInv, MailTypes, OfferStands, AnswersAreOwn, OwnAnswers
<1>5. CASE PeerConnects
  <2>1. UNCHANGED <<handler, awaited, cur, answer, signaling>>
    BY <1>5 DEF PeerConnects, whichPeer, queueVars
  <2> QED  BY <1>1, <1>2, <2>1
           DEF InputInv, MailTypes, OfferStands, AnswersAreOwn, OwnAnswers
<1>6. CASE PeerFails
  <2>1. /\ signaling = "settled" /\ signaling' = "stable" /\ cur' = 0
        /\ UNCHANGED <<handler, awaited>>
    BY <1>6 DEF PeerFails, TeardownPeer, queueVars
  <2>2. ~Out
    BY <2>1 DEF OfferStands, OwnAnswers
  <2> QED  BY <1>1, <1>2, <2>1, <2>2
           DEF InputInv, MailTypes, OfferStands, AnswersAreOwn, OwnAnswers
<1> QED  BY <1>3, <1>4, <1>5, <1>6

\* An offer is sent, or kept for a socket that is not open yet.
LEMMA GatheredKeeps ==
    ASSUME Orderly, Gathered
    PROVE  InputInv'
<1> USE DEF Orderly
<1> DEFINE offers == IF cur # 0 /\ signaling # "stable" THEN <<cur>> ELSE <<>>
<1>1. /\ toServer' = IF wsState = "open" THEN toServer \o offers ELSE toServer
      /\ waiting' = IF wsState = "open" THEN waiting ELSE waiting \o offers
      /\ UNCHANGED <<wsState, made, cur, signaling, answer, inbox, awaited, toPage, current,
                     serverTask, attachedTo, attachment>>
      /\ handler = "gather" /\ handler' = "none"
  BY DEF Gathered, whichPeer, relayVars, hostVars
<1>2. Mail' = Mail
  BY <1>1 DEF Mail
<1>3. toServer = <<>> /\ ~Buffered /\ ~Answered
  BY <1>1 DEF OfferStands, Out
<1>4. <<>> \o <<>> = <<>> /\ <<>> \o <<cur>> = <<cur>>
  OBVIOUS
<1>5. /\ toServer' \in {<<>>, offers}
      /\ Buffered' => toServer' = <<>> /\ waiting' = offers
      /\ Answered' = Answered
  BY <1>1, <1>2, <1>3, <1>4 DEF Buffered, Answered
<1>6. offers # <<>> => offers = <<made>> /\ cur = made /\ cur # 0 /\ signaling = "offered"
  BY <1>1 DEF MailTypes, OfferStands
<1>7. OneOffer'
  BY <1>1, <1>2, <1>3, <1>5, <1>6 DEF OneOffer, Answered, Buffered
<1>8. Out' => offers # <<>>
  BY <1>3, <1>5 DEF Out, Buffered
<1>9. OfferStands'
  BY <1>1, <1>6, <1>8 DEF OfferStands
<1>10. WaitingLast' /\ MailTypes'
  BY <1>1, <1>2 DEF WaitingLast, MailTypes
<1>11. AnswersAreOwn' /\ OwnAnswers'
  BY <1>1 DEF AnswersAreOwn, OwnAnswers
<1> QED  BY <1>7, <1>9, <1>10, <1>11 DEF InputInv

-----------------------------------------------------------------------------
(* The server's task *)

LEMMA OneElement == \A n \in Nat : Head(<<n>>) = n /\ Tail(<<n>>) = <<>>
<1> SUFFICES ASSUME NEW n \in Nat PROVE Head(<<n>>) = n /\ Tail(<<n>>) = <<>>
  OBVIOUS
<1>1. <<n>> \in Seq(Nat) /\ Len(<<n>>) = 1
  OBVIOUS
<1>2. Tail(<<n>>) \in Seq(Nat) /\ Len(Tail(<<n>>)) = 0
  BY <1>1
<1> QED  BY <1>1, <1>2, EmptySeq

\* A message is put at the end of the mail.
LEMMA MoreMail ==
    ASSUME MailTypes, NEW m \in Mailed, toPage' = Append(toPage, m), inbox' = inbox
    PROVE  /\ inbox' \in Seq(Mailed) /\ toPage' \in Seq(Mailed)
           /\ Len(Mail') = Len(Mail) + 1 /\ Len(Mail) \in Nat
           /\ \A i \in 1..Len(Mail) : i \in 1..Len(Mail') /\ Mail'[i] = Mail[i]
           /\ \A i \in 1..Len(Mail') : \/ i \in 1..Len(Mail) /\ Mail'[i] = Mail[i]
                                       \/ i = Len(Mail) + 1 /\ Mail'[i] = m
<1> DEFINE M == Mail  N == Mail'
<1>1. M \in Seq(Mailed) /\ N = Append(M, m) /\ toPage' \in Seq(Mailed)
  BY MailFacts DEF Mail
<1> HIDE DEF M, N
<1>2. /\ Len(N) = Len(M) + 1 /\ Len(M) \in Nat
      /\ \A i \in 1..Len(M) : i \in 1..Len(N) /\ N[i] = M[i]
      /\ \A i \in 1..Len(N) : \/ i \in 1..Len(M) /\ N[i] = M[i]
                              \/ i = Len(M) + 1 /\ N[i] = m
  BY <1>1
<1> QED  BY <1>1, <1>2 DEF M, N, MailTypes

\* Nothing but "waiting" comes behind a "waiting", and that only without a stream.
LEMMA MoreWaitingLast ==
    ASSUME MailTypes, WaitingLast, NEW m \in Mailed, toPage' = Append(toPage, m), inbox' = inbox,
           m.kind = "waiting" <=> current = 0, current' = current,
           serverTask' = "attached" => attachedTo' # 0
    PROVE  WaitingLast'
<1>1. /\ Len(Mail') = Len(Mail) + 1 /\ Len(Mail) \in Nat
      /\ \A i \in 1..Len(Mail') : \/ i \in 1..Len(Mail) /\ Mail'[i] = Mail[i]
                                  \/ i = Len(Mail) + 1 /\ Mail'[i] = m
  BY MoreMail
<1> SUFFICES ASSUME NEW i \in 1..Len(Mail'), Mail'[i].kind = "waiting"
             PROVE  current = 0 /\ \A j \in i..Len(Mail') : Mail'[j].kind = "waiting"
  BY DEF WaitingLast
<1>2. current = 0
  BY <1>1 DEF WaitingLast
<1>3. ASSUME NEW j \in i..Len(Mail') PROVE Mail'[j].kind = "waiting"
  <2>1. j \in 1..Len(Mail')
    BY <1>1
  <2>2. CASE j = Len(Mail) + 1 /\ Mail'[j] = m
    BY <1>2, <2>2
  <2>3. CASE j \in 1..Len(Mail) /\ Mail'[j] = Mail[j]
    <3>1. i \in 1..Len(Mail) /\ Mail'[i] = Mail[i] /\ j \in i..Len(Mail)
      BY <1>1, <2>3
    <3> QED  BY <2>3, <3>1 DEF WaitingLast
  <2> QED  BY <1>1, <2>1, <2>2, <2>3
<1> QED  BY <1>2, <1>3

\* The task sends a WebRtcConfig or WaitingForStream.
LEMMA TellsKeeps ==
    ASSUME Orderly, Looks \/ StreamFound
    PROVE  InputInv'
<1> USE DEF Orderly
<1>1. UNCHANGED <<made, cur, signaling, answer, inbox, handler, awaited, current, toServer, wsState,
                  waiting>>
  BY DEF Looks, StreamFound, socketVars, pagePeer, whichPeer, queueVars, hostVars
<1>2. PICK m \in {[kind |-> "waiting"], [kind |-> "config"]} :
          /\ toPage' = Append(toPage, m) /\ (m.kind = "waiting" <=> current = 0)
          /\ attachment' \in {attachment, attachment + 1}
          /\ serverTask' = "attached" => attachedTo' # 0
  <2>1. CASE current # 0
    <3>1. toPage' = Append(toPage, [kind |-> "config"]) /\ attachment' = attachment + 1
          /\ attachedTo' = current
      BY <2>1 DEF Looks, StreamFound, Attach
    <3> QED  BY <2>1, <3>1
  <2>2. CASE current = 0
    <3>1. toPage' = Append(toPage, [kind |-> "waiting"]) /\ attachment' = attachment
          /\ serverTask' = "waits"
      BY <2>2 DEF Looks, StreamFound
    <3> QED  BY <2>2, <3>1
  <2> QED  BY <2>1, <2>2
<1>3. m \in Mailed /\ m.kind # "answer"
  BY DEF Mailed
<1>4. /\ inbox' \in Seq(Mailed) /\ toPage' \in Seq(Mailed)
      /\ Len(Mail') = Len(Mail) + 1 /\ Len(Mail) \in Nat
      /\ \A i \in 1..Len(Mail) : i \in 1..Len(Mail') /\ Mail'[i] = Mail[i]
      /\ \A i \in 1..Len(Mail') : \/ i \in 1..Len(Mail) /\ Mail'[i] = Mail[i]
                                  \/ i = Len(Mail) + 1 /\ Mail'[i] = m
  BY <1>1, <1>2, <1>3, MoreMail
<1>5. WaitingLast'
  BY <1>1, <1>2, <1>3, MoreWaitingLast
<1>6. \A i \in 1..Len(Mail') : Mail'[i].kind = "answer" => i \in 1..Len(Mail) /\ Mail'[i] = Mail[i]
  BY <1>3, <1>4
<1>7. Buffered' = Buffered /\ (Answered' => Answered)
  BY <1>1, <1>6 DEF Buffered, Answered
<1>8. OneOffer'
  BY <1>1, <1>6, <1>7 DEF OneOffer
<1>9. OfferStands'
  <2>1. Out' => Out
    BY <1>1, <1>7 DEF Out
  <2>2. Out' /\ cur' = 0 => current' = 0 /\ \A i \in 1..Len(Mail') : Mail'[i].kind # "config"
    <3> SUFFICES ASSUME Out', cur' = 0
                 PROVE  current' = 0 /\ \A i \in 1..Len(Mail') : Mail'[i].kind # "config"
      OBVIOUS
    <3>1. current = 0 /\ \A i \in 1..Len(Mail) : Mail[i].kind # "config"
      BY <1>1, <2>1 DEF OfferStands
    <3>2. m.kind # "config"
      BY <1>2, <3>1
    <3> QED  BY <1>1, <1>4, <3>1, <3>2
  <2> QED  BY <1>1, <2>1, <2>2 DEF OfferStands
<1>10. MailTypes' /\ AnswersAreOwn' /\ OwnAnswers'
  BY <1>1, <1>2, <1>4 DEF MailTypes, AnswersAreOwn, OwnAnswers
<1> QED  BY <1>5, <1>8, <1>9, <1>10 DEF InputInv

\* The offer on its way becomes the answer on its way.
LEMMA RelaysKeeps ==
    ASSUME Orderly, Relays, attachedTo = current
    PROVE  InputInv'
<1> USE DEF Orderly
<1> DEFINE m == [kind |-> "answer", of |-> <<Head(toServer), attachment>>]
<1>1. /\ toServer # <<>> /\ toServer' = Tail(toServer) /\ toPage' = Append(toPage, m)
      /\ serverTask = "attached"
      /\ UNCHANGED <<made, cur, signaling, answer, inbox, handler, awaited, current, wsState,
                     waiting, serverTask, attachedTo, attachment>>
  BY DEF Relays, socketVars, pagePeer, whichPeer, queueVars, relayVars, hostVars
<1>2. toServer = <<made>> /\ Head(toServer) = made /\ Tail(toServer) = <<>> /\ made \in Nat
  BY <1>1, OneElement DEF OneOffer, MailTypes
<1>3. m \in Mailed /\ m.kind = "answer" /\ m.of[1] = made
  BY <1>2 DEF Mailed, MailTypes
<1> HIDE DEF m
<1>4. /\ inbox' \in Seq(Mailed) /\ toPage' \in Seq(Mailed)
      /\ Len(Mail') = Len(Mail) + 1 /\ Len(Mail) \in Nat
      /\ \A i \in 1..Len(Mail') : \/ i \in 1..Len(Mail) /\ Mail'[i] = Mail[i]
                                  \/ i = Len(Mail) + 1 /\ Mail'[i] = m
  BY <1>1, <1>3, MoreMail
<1>5. Out /\ ~Buffered /\ \A i \in 1..Len(Mail) : Mail[i].kind # "answer"
  BY <1>1, <1>2 DEF Out, OneOffer
<1>6. \A i \in 1..Len(Mail') : Mail'[i].kind = "answer" => i = Len(Mail) + 1 /\ Mail'[i] = m
  BY <1>4, <1>5
<1>7. ~Buffered'
  BY <1>1, <1>5 DEF Buffered
<1>8. OneOffer'
  <2>1. toServer' = <<>>
    BY <1>1, <1>2
  <2> QED  BY <1>1, <1>3, <1>6, <1>7, <2>1 DEF OneOffer
<1>9. WaitingLast'
  <2>1. current # 0 /\ attachedTo' # 0
    BY <1>1 DEF WaitingLast
  <2> QED  BY <1>1, <1>3, <2>1, MoreWaitingLast
<1>10. OfferStands'
  <2>1. \A i \in 1..Len(Mail') : Mail'[i].kind = "config" => i \in 1..Len(Mail) /\ Mail'[i] = Mail[i]
    BY <1>3, <1>4
  <2> QED  BY <1>1, <1>5, <2>1 DEF OfferStands
<1>11. MailTypes' /\ AnswersAreOwn' /\ OwnAnswers'
  BY <1>1, <1>4 DEF MailTypes, AnswersAreOwn, OwnAnswers
<1> QED  BY <1>8, <1>9, <1>10, <1>11 DEF InputInv

\* An offer is dropped, or the stream found to be over.
LEMMA DropsKeeps ==
    ASSUME Orderly, WaitsDrops \/ StreamEnded \/ (Relays /\ attachedTo # current)
    PROVE  InputInv'
<1> USE DEF Orderly
<1>1. Mail' = Mail /\ inbox' = inbox /\ toPage' = toPage
  BY DEF WaitsDrops, StreamEnded, Relays, Mail, queueVars, wireVars
<1>2. UNCHANGED <<made, cur, attachment, signaling, answer, handler, awaited, current, attachedTo,
                  wsState, waiting>>
  BY DEF WaitsDrops, StreamEnded, Relays, socketVars, pagePeer, whichPeer, queueVars, relayVars, hostVars
<1>3. serverTask' = "attached" => attachedTo' # 0
  BY <1>2 DEF WaitsDrops, StreamEnded, Relays, relayVars, WaitingLast
<1>4. toServer' \in {toServer, <<>>}
  <2>1. toServer # <<>> => Tail(toServer) = <<>>
    BY OneElement DEF OneOffer, MailTypes
  <2> QED  BY <2>1 DEF WaitsDrops, StreamEnded, Relays, wireVars
<1>5. (Buffered' => Buffered /\ waiting' = waiting) /\ inbox' \in Seq(Mailed) /\ toPage' \in Seq(Mailed)
  BY <1>1, <1>2 DEF Buffered, MailTypes
<1> QED  BY <1>1, <1>2, <1>3, <1>4, <1>5, StillOrderly DEF InputInv

\* A stream starts: if nothing is overtaken, nothing is on its way.
LEMMA HostKeeps ==
    ASSUME Orderly, HostStarts \/ HostEnds, "message" \notin hurried'
    PROVE  InputInv'
<1> USE DEF Orderly
<1>1. /\ Mail' = Mail
      /\ UNCHANGED <<made, cur, attachment, signaling, answer, handler, awaited, attachedTo,
                     wsState, waiting, serverTask, inbox, toPage, toServer>>
  BY DEF HostStarts, HostEnds, Mail, socketVars, pagePeer, whichPeer, queueVars, relayVars, wireVars
<1>2. CASE HostStarts
  <2>1. inbox = <<>> /\ toPage = <<>> /\ toServer = <<>> /\ waiting = <<>>
    BY <1>2 DEF HostStarts
  <2>2. Mail = <<>> /\ Len(<<>>) = 0
    BY <2>1 DEF Mail
  <2>3. ~Out /\ ~Out'
    BY <1>1, <2>1, <2>2 DEF Out, Buffered, Answered
  <2> QED  BY <1>1, <2>1, <2>2, <2>3
           DEF InputInv, MailTypes, OneOffer, OfferStands, WaitingLast, OwnAnswers, AnswersAreOwn, Buffered
<1>3. CASE HostEnds
  <2>1. current' = 0
    BY <1>3 DEF HostEnds
  <2>2. (Buffered' => Buffered /\ waiting' = waiting) /\ inbox' \in Seq(Mailed) /\ toPage' \in Seq(Mailed)
        /\ (serverTask' = "attached" => attachedTo' # 0)
    BY <1>1 DEF Buffered, MailTypes, WaitingLast
  <2> QED  BY <1>1, <2>1, <2>2, StillOrderly DEF InputInv
<1> QED  BY <1>2, <1>3

-----------------------------------------------------------------------------

\* What was overtaken stays overtaken, and once the page has left, its peer stays as it is.
LEMMA HurriedGrows == InputNext => ("message" \in hurried => "message" \in hurried')
BY DEF InputNext, WsOpens, WsCloses, Hurry, Reconnects, Leave, Receives, TimerFires, HandlerStep,
   HandlesWaiting, HandlesConfig, HandlesAnswer, LocalSet, Gathered, RemoteSet, Takes, PeerConnects,
   PeerFails, TaskOnWs, Looks, StreamFound, WaitsDrops, Relays, StreamEnded, HostStarts, HostEnds

LEMMA LeftKeeps ==
    ASSUME InputInv, left \/ Leave, InputNext
    PROVE  InputInv'
<1>1. UNCHANGED <<whichPeer, signaling, answer>> /\ left'
  BY DEF InputNext, WsOpens, WsCloses, Reconnects, Leave, Receives, TimerFires, HandlerStep,
     HandlesWaiting, HandlesConfig, HandlesAnswer, LocalSet, Gathered, RemoteSet, Takes, PeerConnects,
     PeerFails, TaskOnWs, Looks, StreamFound, WaitsDrops, Relays, StreamEnded, HostStarts, HostEnds,
     socketVars, pagePeer
<1> QED  BY <1>1, HurriedGrows DEF InputInv, AnswersAreOwn, whichPeer

\* Whatever sockets, peers, handlers and timers of the page do to each other, and whenever
\* streams end, a peer of the page never takes an answer that was meant for another, unless a
\* stream starts before the messages of the last one are handled (input_stream.ts:98-146,
\* 195-257, 299-341, 398-408).
THEOREM AnswersAreOwnHolds == InputSpec => []AnswersAreOwn
<1>1. InputInv /\ [InputNext]_inputVars => InputInv'
  <2> SUFFICES ASSUME InputInv, [InputNext]_inputVars PROVE InputInv'
    OBVIOUS
  <2>1. CASE UNCHANGED inputVars
    <3>1. /\ Mail' = Mail
          /\ UNCHANGED <<made, cur, attachment, signaling, answer, handler, awaited, attachedTo, left,
                         wsState, waiting, serverTask, inbox, toPage, toServer, current, hurried>>
      BY <2>1 DEF inputVars, socketVars, timerVars, pagePeer, whichPeer, queueVars, relayVars, hostVars,
         wireVars, Mail
    <3>2. Buffered' = Buffered /\ Answered' = Answered
      BY <3>1 DEF Buffered, Answered
    <3> QED  BY <3>1, <3>2 DEF InputInv, AnswersAreOwn, MailTypes, OneOffer, OfferStands, WaitingLast,
                OwnAnswers, Out
  <2>2. CASE InputNext /\ (left \/ Leave)
    BY <2>2, LeftKeeps
  <2>3. CASE InputNext /\ "message" \in hurried'
    <3>1. left' \/ "message" \in hurried'
      BY <2>3
    <3> QED  BY <2>3, <3>1 DEF InputInv, AnswersAreOwn
  <2>4. CASE InputNext /\ ~left /\ ~Leave /\ "message" \notin hurried'
    <3>1. Orderly
      BY <2>4, HurriedGrows DEF InputInv, Orderly
    <3> QED  BY <2>4, <3>1, ClosesKeeps, SocketKeeps, ReceiveKeeps, WaitingKeeps, ConfigKeeps,
                AnswerKeeps, PeerKeeps, GatheredKeeps, TellsKeeps, RelaysKeeps, DropsKeeps, HostKeeps
             DEF InputNext, HandlerStep, TaskOnWs
  <2> QED  BY <2>1, <2>2, <2>3, <2>4
<1>2. InputInv => AnswersAreOwn
  BY DEF InputInv
<1> QED  BY <1>1, <1>2, InputInvStarts, PTL DEF InputSpec

-----------------------------------------------------------------------------
(***************************************************************************)
(* The negotiation of a peer connection (Negotiation).                     *)
(***************************************************************************)

Descriptions == [kind : {"offer", "answer"}, round : Nat]
Candidates   == [kind : {"candidate"}, round : Nat, n : Nat, early : BOOLEAN]
Posts        == {[kind |-> "config"]} \cup Descriptions \cup Candidates

PostTypes ==
    /\ toPagePeer \in Seq(Posts) /\ toStreamerPeer \in Seq(Descriptions)
    /\ saved \in Seq(Candidates) /\ gathered \subseteq Candidates /\ IsFiniteSet(gathered)
    /\ round \in Nat /\ pageRound \in Nat /\ pageRound <= round

\* Until the streamer has answered the first offer there is one message, or one handler.
FirstRound ==
    IF round = 0
    THEN /\ stateAt = "idle" /\ ice = "new"
         /\ \/ toPagePeer = <<[kind |-> "config"]>> /\ toStreamerPeer = <<>> /\ loopAt = "recv"
            \/ toPagePeer = <<>> /\ toStreamerPeer = <<Offer(1)>> /\ loopAt = "recv"
            \/ toPagePeer = <<>> /\ toStreamerPeer = <<>> /\ loopAt = "answer"
    ELSE /\ loopAt # "answer"
         /\ \A i \in 1..Len(toPagePeer) : toPagePeer[i].kind # "config"
         /\ \A i \in 1..Len(toStreamerPeer) : toStreamerPeer[i].kind # "offer"

\* The page hears of the restarts in their order, and of the last one if its offer was sent.
RestartsInOrder ==
    /\ pageSignaling = "offered" => pageRound = 0
    /\ stateAt = "send" => pageRound < round /\ round >= 2
    /\ \A i \in 1..Len(toPagePeer) : toPagePeer[i].kind = "offer" =>
          /\ pageRound < toPagePeer[i].round /\ 2 <= toPagePeer[i].round
          /\ toPagePeer[i].round <= round /\ (stateAt = "send" => toPagePeer[i].round # round)
          /\ \A j \in 1..Len(toPagePeer) : i < j /\ toPagePeer[j].kind = "offer" =>
                toPagePeer[i].round < toPagePeer[j].round
    /\ round >= 2 /\ stateAt # "send" =>
          \/ pageRound = round
          \/ \E i \in 1..Len(toPagePeer) : toPagePeer[i] = Offer(round)

\* A candidate of the round that was not sent too early is saved for the first answer, or
\* added, or on its way behind the offer of its round.
OnItsWay(c) ==
    \/ c \in ToSet(saved) /\ pageRound = 0 /\ round = 1
    \/ c \in added /\ pageRound = round
    \/ \E j \in 1..Len(toPagePeer) :
          /\ toPagePeer[j] = c
          /\ \/ round = 1 \/ pageRound = round
             \/ \E i \in 1..Len(toPagePeer) : i < j /\ toPagePeer[i] = Offer(round)

CandidatesKept ==
    /\ \A c \in gathered : c.round = round
    /\ \A c \in gathered : ~c.early => OnItsWay(c)

NegotiationInv == PostTypes /\ FirstRound /\ RestartsInOrder /\ CandidatesKept

LEMMA NegotiationInvStarts == NegotiationInit => NegotiationInv
<1> SUFFICES ASSUME NegotiationInit PROVE NegotiationInv
  OBVIOUS
<1> DEFINE c == [kind |-> "config"]
<1>1. c \in Posts /\ c.kind = "config"
  BY DEF Posts
<1>2. toPagePeer = <<c>> /\ <<c>> \in Seq(Posts) /\ Len(<<c>>) = 1 /\ <<c>>[1] = c
  BY <1>1 DEF NegotiationInit
<1>3. PostTypes
  BY <1>2, FS_EmptySet DEF NegotiationInit, PostTypes
<1>4. \A i \in 1..Len(toPagePeer) : toPagePeer[i].kind # "offer"
  BY <1>1, <1>2
<1> QED  BY <1>3, <1>4
         DEF NegotiationInit, NegotiationInv, FirstRound, RestartsInOrder, CandidatesKept

-----------------------------------------------------------------------------
(* The page *)

\* What is left of the messages to the page when the first has been handled.
LEMMA PageTook ==
    ASSUME PostTypes, NEW k, PageTakes(k)
    PROVE  LET q == toPagePeer  p == toPagePeer' IN
           /\ q # <<>> /\ Len(q) \in Nat /\ 1 \in 1..Len(q) /\ Head(q) = q[1] /\ q[1].kind = k
           /\ q[1] \in Posts /\ p \in Seq(Posts) /\ Len(p) = Len(q) - 1
           /\ \A i \in 1..Len(p) : i + 1 \in 1..Len(q) /\ i + 1 # 1 /\ p[i] = q[i + 1]
           /\ \A i \in 1..Len(q) : i # 1 => i - 1 \in 1..Len(p) /\ p[i - 1] = q[i]
           /\ UNCHANGED peerSigVars
<1> DEFINE q == toPagePeer  p == toPagePeer'
<1>1. q \in Seq(Posts) /\ q # <<>> /\ p = Tail(q) /\ Head(q).kind = k /\ UNCHANGED peerSigVars
  BY DEF PageTakes, PostTypes
<1> HIDE DEF q, p
<1>2. /\ Len(q) \in Nat /\ 1 \in 1..Len(q) /\ Head(q) = q[1]
      /\ q[1] \in Posts /\ p \in Seq(Posts) /\ Len(p) = Len(q) - 1
      /\ \A i \in 1..Len(p) : i + 1 \in 1..Len(q) /\ p[i] = q[i + 1]
  BY <1>1
<1>3. ASSUME NEW i \in 1..Len(q), i # 1 PROVE i - 1 \in 1..Len(p) /\ p[i - 1] = q[i]
  <2>1. i - 1 \in 1..Len(p) /\ (i - 1) + 1 = i
    BY <1>2, <1>3
  <2>2. p[i - 1] = q[(i - 1) + 1]
    BY <1>2, <2>1
  <2> QED  BY <2>1, <2>2
<1> QED  BY <1>1, <1>2, <1>3 DEF q, p

\* While the page has no description, the streamer has sent it none of a restart.
LEMMA CreatesKeeps == NegotiationInv /\ PageCreates => NegotiationInv'
<1> SUFFICES ASSUME NegotiationInv, PageCreates PROVE NegotiationInv'
  OBVIOUS
<1>1. PostTypes /\ PageTakes("config") /\ UNCHANGED <<pageRound, saved, added>>
  BY DEF NegotiationInv, PageCreates
<1>2. UNCHANGED peerSigVars /\ toPagePeer[1].kind = "config" /\ 1 \in 1..Len(toPagePeer)
  BY <1>1, PageTook
<1>3. /\ round = 0 /\ toPagePeer = <<[kind |-> "config"]>> /\ toStreamerPeer = <<>>
      /\ stateAt = "idle" /\ ice = "new" /\ loopAt = "recv"
  BY <1>1, <1>2 DEF NegotiationInv, FirstRound
<1>4. toPagePeer' = <<>>
  BY <1>3, <1>1 DEF PageTakes
<1>5. toStreamerPeer' = <<Offer(1)>> /\ Offer(1) \in Descriptions
  BY <1>3 DEF PageCreates, Offer, Descriptions
<1>6. <<>> \in Seq(Posts) /\ Len(<<>>) = 0 /\ <<Offer(1)>> \in Seq(Descriptions)
  BY <1>5
<1>7. pageRound = 0 /\ \A c \in gathered : c.round = 0
  BY <1>3 DEF NegotiationInv, PostTypes, CandidatesKept
<1>8. PostTypes'
  BY <1>1, <1>2, <1>4, <1>5, <1>6 DEF PostTypes, peerSigVars
<1>9. FirstRound' /\ RestartsInOrder'
  BY <1>1, <1>2, <1>3, <1>4, <1>5, <1>6, <1>7 DEF FirstRound, RestartsInOrder, peerSigVars
<1>10. CandidatesKept'
  <2>1. ASSUME NEW c \in gathered, ~c.early PROVE OnItsWay(c)'
    <3>1. c \in added /\ pageRound = round
      <4>1. OnItsWay(c)
        BY <2>1 DEF NegotiationInv, CandidatesKept
      <4>2. c.kind = "candidate"
        BY <1>1 DEF PostTypes, Candidates
      <4> QED  BY <1>2, <1>3, <4>1, <4>2 DEF OnItsWay
    <3> QED  BY <1>1, <1>2, <3>1 DEF OnItsWay, peerSigVars
  <2> QED  BY <1>2, <1>3, <1>7, <2>1 DEF CandidatesKept, peerSigVars
<1> QED  BY <1>8, <1>9, <1>10 DEF NegotiationInv

\* The page has handled a message that is no configuration.
LEMMA TookFirst ==
    ASSUME NegotiationInv, NEW k, PageTakes(k), k # "config"
    PROVE  round # 0 /\ round' = round /\ stateAt' = stateAt /\ gathered' = gathered
           /\ loopAt' = loopAt
           /\ \A i \in 1..Len(toPagePeer') : toPagePeer'[i].kind # "config"
<1>1. PostTypes
  BY DEF NegotiationInv
<1>2. round # 0
  <2>1. toPagePeer # <<>> /\ toPagePeer[1].kind # "config"
    BY <1>1, PageTook
  <2>2. [kind |-> "config"].kind = "config" /\ <<[kind |-> "config"]>>[1] = [kind |-> "config"]
    OBVIOUS
  <2> QED  BY <2>1, <2>2 DEF NegotiationInv, FirstRound
<1>3. \A i \in 1..Len(toPagePeer) : toPagePeer[i].kind # "config"
  BY <1>2 DEF NegotiationInv, FirstRound
<1>4. \A i \in 1..Len(toPagePeer') : i + 1 \in 1..Len(toPagePeer) /\ toPagePeer'[i] = toPagePeer[i + 1]
  BY <1>1, PageTook
<1>5. UNCHANGED peerSigVars
  BY <1>1, PageTook
<1> QED  BY <1>2, <1>3, <1>4, <1>5 DEF peerSigVars

\* The page takes the description of round r, of a restart or its first one.
LEMMA DescriptionKeeps ==
    ASSUME NegotiationInv, NEW k \in {"offer", "answer"}, PageTakes(k), NEW r \in Nat,
           k = "offer" => r = Head(toPagePeer).round,
           k = "answer" => pageRound = 0 /\ r = 1,
           pageRound' = r, pageSignaling' = "stable",
           added' = Usable(ToSet(saved), r), saved' = <<>>
    PROVE  /\ pageRound' \in Nat /\ pageRound' <= round' /\ RestartsInOrder' /\ CandidatesKept'
<1> DEFINE q == toPagePeer  p == toPagePeer'
<1>1. PostTypes /\ round \in Nat /\ pageRound \in Nat
  BY DEF NegotiationInv, PostTypes
<1>2. /\ round # 0 /\ round' = round /\ stateAt' = stateAt /\ gathered' = gathered
  BY TookFirst
<1>3. /\ 1 \in 1..Len(q) /\ Head(q) = q[1] /\ q[1].kind = k /\ Len(q) \in Nat /\ Len(p) = Len(q) - 1
      /\ \A i \in 1..Len(p) : i + 1 \in 1..Len(q) /\ i + 1 # 1 /\ p[i] = q[i + 1]
      /\ \A i \in 1..Len(q) : i # 1 => i - 1 \in 1..Len(p) /\ p[i - 1] = q[i]
  BY <1>1, PageTook
<1>4. k = "offer" => pageRound < r /\ 2 <= r /\ r <= round /\ (stateAt = "send" => r # round)
  BY <1>3 DEF NegotiationInv, RestartsInOrder
<1>5. pageRound < r /\ r <= round /\ (stateAt = "send" => r < round)
  BY <1>1, <1>2, <1>4 DEF NegotiationInv, RestartsInOrder
<1>6. \A i \in 1..Len(q) : i # 1 /\ q[i].kind = "offer" => r < q[i].round
  <2> SUFFICES ASSUME NEW i \in 1..Len(q), i # 1, q[i].kind = "offer" PROVE r < q[i].round
    OBVIOUS
  <2>1. 2 <= q[i].round
    BY DEF NegotiationInv, RestartsInOrder
  <2>2. q[i].round \in Nat
    BY <1>1 DEF PostTypes, Posts, Descriptions, Candidates
  <2>3. k = "offer" => q[1].round < q[i].round
    BY <1>3 DEF NegotiationInv, RestartsInOrder
  <2> QED  BY <1>3, <2>1, <2>2, <2>3
<1>7. r # round => \A i \in 1..Len(q) : q[i] = Offer(round) => i # 1
  BY <1>1, <1>3, <1>4, <1>5 DEF Offer
<1>8. RestartsInOrder'
  <2>1. \A i \in 1..Len(p) : p[i].kind = "offer" =>
          /\ r < p[i].round /\ 2 <= p[i].round
          /\ p[i].round <= round /\ (stateAt = "send" => p[i].round # round)
    BY <1>3, <1>6 DEF NegotiationInv, RestartsInOrder
  <2>2. ASSUME NEW i \in 1..Len(p), NEW j \in 1..Len(p), p[i].kind = "offer", p[j].kind = "offer", i < j
        PROVE  p[i].round < p[j].round
    <3>1. i + 1 \in 1..Len(q) /\ j + 1 \in 1..Len(q) /\ i + 1 < j + 1
      BY <1>3, <2>2
    <3> QED  BY <1>3, <2>2, <3>1 DEF NegotiationInv, RestartsInOrder
  <2>3. round >= 2 /\ stateAt # "send" => r = round \/ \E i \in 1..Len(p) : p[i] = Offer(round)
    <3> SUFFICES ASSUME round >= 2, stateAt # "send", r # round
                 PROVE  \E i \in 1..Len(p) : p[i] = Offer(round)
      OBVIOUS
    <3>1. PICK i \in 1..Len(q) : q[i] = Offer(round)
      BY <1>1, <1>5 DEF NegotiationInv, RestartsInOrder
    <3>2. i # 1
      BY <1>7, <3>1
    <3> QED  BY <1>3, <3>1, <3>2
  <2>4. stateAt = "send" => r < round /\ round >= 2
    BY <1>5 DEF NegotiationInv, RestartsInOrder
  <2> QED  BY <1>2, <2>1, <2>2, <2>3, <2>4 DEF RestartsInOrder
<1>9. CandidatesKept'
  <2>1. ASSUME NEW c \in gathered, ~c.early PROVE OnItsWay(c)'
    <3>1. OnItsWay(c) /\ c.kind = "candidate" /\ c.round = round
      BY <1>1, <2>1 DEF NegotiationInv, CandidatesKept, PostTypes, Candidates
    <3>2. CASE c \in ToSet(saved) /\ pageRound = 0 /\ round = 1
      <4>1. r = 1 /\ c \in added'
        BY <1>4, <1>5, <3>1, <3>2 DEF Usable
      <4> QED  BY <1>2, <3>2, <4>1 DEF OnItsWay
    <3>3. CASE pageRound = round
      BY <1>1, <1>5, <3>3
    <3>4. ASSUME NEW j \in 1..Len(q), q[j] = c,
                 round = 1 \/ \E i \in 1..Len(q) : i < j /\ q[i] = Offer(round)
          PROVE  OnItsWay(c)'
      <4>1. j # 1
        BY <1>3, <3>1, <3>4
      <4>2. j - 1 \in 1..Len(p) /\ p[j - 1] = c
        BY <1>3, <3>4, <4>1
      <4>3. CASE round = 1 \/ r = round
        BY <1>2, <4>2, <4>3 DEF OnItsWay
      <4>4. CASE round # 1 /\ r # round
        <5>1. PICK i \in 1..Len(q) : i < j /\ q[i] = Offer(round)
          BY <3>4, <4>4
        <5>2. i - 1 \in 1..Len(p) /\ p[i - 1] = Offer(round) /\ i - 1 < j - 1
          <6>1. i # 1
            BY <1>7, <4>4, <5>1
          <6> QED  BY <1>3, <5>1, <6>1, <4>1
        <5> QED  BY <1>2, <4>2, <5>2 DEF OnItsWay, Offer
      <4> QED  BY <4>3, <4>4
    <3> QED  BY <3>1, <3>2, <3>3, <3>4 DEF OnItsWay
  <2> QED  BY <1>2, <2>1 DEF NegotiationInv, CandidatesKept
<1> QED  BY <1>1, <1>2, <1>5, <1>8, <1>9

\* The page takes a message that changes no round.
LEMMA CandidateKeeps ==
    ASSUME NegotiationInv, NEW k \in {"answer", "candidate"}, PageTakes(k),
           UNCHANGED <<pageRound, pageSignaling>>,
           \/ k = "answer" /\ UNCHANGED <<saved, added>>
           \/ k = "candidate" /\ IF pageRound = 0
                 THEN saved' = Append(saved, Head(toPagePeer)) /\ UNCHANGED added
                 ELSE added' = added \cup Usable({Head(toPagePeer)}, pageRound) /\ UNCHANGED saved
    PROVE  /\ saved' \in Seq(Candidates) /\ RestartsInOrder' /\ CandidatesKept'
<1> DEFINE q == toPagePeer  p == toPagePeer'
<1>1. /\ PostTypes /\ round \in Nat /\ pageRound \in Nat /\ saved \in Seq(Candidates)
      /\ pageRound <= round
  BY DEF NegotiationInv, PostTypes
<1>2. round # 0 /\ round' = round /\ stateAt' = stateAt /\ gathered' = gathered
  BY TookFirst
<1>3. /\ 1 \in 1..Len(q) /\ Head(q) = q[1] /\ q[1].kind = k /\ Len(q) \in Nat /\ Len(p) = Len(q) - 1
      /\ q[1] \in Posts
      /\ \A i \in 1..Len(p) : i + 1 \in 1..Len(q) /\ i + 1 # 1 /\ p[i] = q[i + 1]
      /\ \A i \in 1..Len(q) : i # 1 => i - 1 \in 1..Len(p) /\ p[i - 1] = q[i]
  BY <1>1, PageTook
<1>4. k = "candidate" => q[1] \in Candidates
  BY <1>3 DEF Posts, Descriptions, Candidates
<1>5. saved' \in Seq(Candidates) /\ ToSet(saved) \subseteq ToSet(saved')
      /\ (k = "candidate" /\ pageRound = 0 => q[1] \in ToSet(saved')) /\ added \subseteq added'
  <2>1. \A x \in Candidates : /\ Append(saved, x) \in Seq(Candidates)
                              /\ ToSet(saved) \subseteq ToSet(Append(saved, x))
                              /\ x \in ToSet(Append(saved, x))
    <3> TAKE x \in Candidates
    <3>1. /\ Append(saved, x) \in Seq(Candidates) /\ Len(Append(saved, x)) = Len(saved) + 1
          /\ Len(saved) \in Nat /\ Append(saved, x)[Len(saved) + 1] = x
          /\ \A i \in 1..Len(saved) : Append(saved, x)[i] = saved[i]
          /\ DOMAIN saved = 1..Len(saved) /\ DOMAIN Append(saved, x) = 1..Len(saved) + 1
      BY <1>1
    <3> QED  BY <3>1 DEF ToSet
  <2> QED  BY <1>1, <1>3, <1>4, <2>1
<1>6. RestartsInOrder'
  <2>1. \A i \in 1..Len(p) : p[i].kind = "offer" =>
          /\ pageRound < p[i].round /\ 2 <= p[i].round
          /\ p[i].round <= round /\ (stateAt = "send" => p[i].round # round)
    BY <1>3 DEF NegotiationInv, RestartsInOrder
  <2>2. ASSUME NEW i \in 1..Len(p), NEW j \in 1..Len(p), p[i].kind = "offer", p[j].kind = "offer", i < j
        PROVE  p[i].round < p[j].round
    <3>1. i + 1 \in 1..Len(q) /\ j + 1 \in 1..Len(q) /\ i + 1 < j + 1
      BY <1>3, <2>2
    <3> QED  BY <1>3, <2>2, <3>1 DEF NegotiationInv, RestartsInOrder
  <2>3. \A i \in 1..Len(q) : q[i] = Offer(round) => i # 1
    BY <1>3 DEF Offer
  <2>4. round >= 2 /\ stateAt # "send" =>
            pageRound = round \/ \E i \in 1..Len(p) : p[i] = Offer(round)
    BY <1>3, <2>3 DEF NegotiationInv, RestartsInOrder
  <2>5. /\ pageSignaling = "offered" => pageRound = 0
        /\ stateAt = "send" => pageRound < round /\ round >= 2
    BY DEF NegotiationInv, RestartsInOrder
  <2> QED  BY <1>2, <2>1, <2>2, <2>4, <2>5 DEF RestartsInOrder
<1>7. CandidatesKept'
  <2>1. ASSUME NEW c \in gathered, ~c.early PROVE OnItsWay(c)'
    <3>1. OnItsWay(c) /\ c.kind = "candidate" /\ c.round = round
      BY <1>1, <2>1 DEF NegotiationInv, CandidatesKept, PostTypes, Candidates
    <3>2. CASE c \in ToSet(saved) /\ pageRound = 0 /\ round = 1
      BY <1>2, <1>5, <3>2 DEF OnItsWay
    <3>3. CASE c \in added /\ pageRound = round
      BY <1>2, <1>5, <3>3 DEF OnItsWay
    <3>4. ASSUME NEW j \in 1..Len(q), q[j] = c,
                 \/ round = 1 \/ pageRound = round
                 \/ \E i \in 1..Len(q) : i < j /\ q[i] = Offer(round)
          PROVE  OnItsWay(c)'
      <4>1. CASE j = 1
        <5>1. k = "candidate" /\ q[1] = c
          BY <1>3, <3>1, <3>4, <4>1
        <5>2. round = 1 \/ pageRound = round
          BY <3>4, <4>1
        <5>3. CASE pageRound = 0
          BY <1>2, <1>5, <5>1, <5>2, <5>3 DEF OnItsWay
        <5>4. CASE pageRound # 0
          <6>1. pageRound = round
            BY <1>1, <5>2, <5>4
          <6>2. c \in added'
            BY <1>3, <3>1, <5>1, <5>4, <6>1 DEF Usable
          <6> QED  BY <1>2, <6>1, <6>2 DEF OnItsWay
        <5> QED  BY <5>3, <5>4
      <4>2. CASE j # 1
        <5>1. j - 1 \in 1..Len(p) /\ p[j - 1] = c
          BY <1>3, <3>4, <4>2
        <5>2. CASE round = 1 \/ pageRound = round
          BY <1>2, <5>1, <5>2 DEF OnItsWay
        <5>3. CASE \E i \in 1..Len(q) : i < j /\ q[i] = Offer(round)
          <6>1. PICK i \in 1..Len(q) : i < j /\ q[i] = Offer(round)
            BY <5>3
          <6>2. i # 1
            BY <1>3, <6>1 DEF Offer
          <6>3. i - 1 \in 1..Len(p) /\ p[i - 1] = Offer(round) /\ i - 1 < j - 1
            BY <1>3, <6>1, <6>2
          <6> QED  BY <1>2, <5>1, <6>3 DEF OnItsWay, Offer
        <5> QED  BY <3>4, <5>2, <5>3
      <4> QED  BY <4>1, <4>2
    <3> QED  BY <3>1, <3>2, <3>3, <3>4 DEF OnItsWay
  <2> QED  BY <1>2, <2>1 DEF NegotiationInv, CandidatesKept
<1> QED  BY <1>5, <1>6, <1>7

LEMMA PageKeeps == NegotiationInv /\ PageHandles => NegotiationInv'
<1> SUFFICES ASSUME NegotiationInv, PageAnswers \/ PageCompletes \/ PageAdds PROVE NegotiationInv'
  BY CreatesKeeps DEF PageHandles
<1>1. PostTypes /\ saved \in Seq(Candidates) /\ toStreamerPeer \in Seq(Descriptions)
  BY DEF NegotiationInv, PostTypes
<1>2. <<>> \in Seq(Candidates)
  OBVIOUS
<1>3. PICK k \in {"offer", "answer", "candidate"} : PageTakes(k)
  BY DEF PageAnswers, PageCompletes, PageAdds
<1>4. /\ round # 0 /\ UNCHANGED <<round, stateAt, gathered, loopAt>>
      /\ \A i \in 1..Len(toPagePeer') : toPagePeer'[i].kind # "config"
      /\ toPagePeer' \in Seq(Posts)
  BY <1>1, <1>3, TookFirst, PageTook
<1>5. CASE PageAnswers
  <2> DEFINE r == Head(toPagePeer).round
  <2>1. PageTakes("offer") /\ pageRound' = r /\ pageSignaling' = "stable"
        /\ added' = Usable(ToSet(saved), r) /\ saved' = <<>>
        /\ toStreamerPeer' = Append(toStreamerPeer, Answer(r))
    BY <1>5 DEF PageAnswers
  <2>2. r \in Nat
    BY <1>1, <2>1, PageTook DEF Posts, Descriptions, Candidates
  <2>3. Answer(r) \in Descriptions /\ Answer(r).kind = "answer"
    BY <2>2 DEF Answer, Descriptions
  <2>4. pageRound' \in Nat /\ pageRound' <= round' /\ RestartsInOrder' /\ CandidatesKept'
    BY <2>1, <2>2, DescriptionKeeps
  <2> HIDE DEF r
  <2>5. /\ toStreamerPeer' \in Seq(Descriptions)
        /\ (\A i \in 1..Len(toStreamerPeer) : toStreamerPeer[i].kind # "offer") =>
              \A i \in 1..Len(toStreamerPeer') : toStreamerPeer'[i].kind # "offer"
    BY <1>1, <2>1, <2>3
  <2>6. PostTypes'
    BY <1>1, <1>2, <1>4, <2>1, <2>4, <2>5 DEF PostTypes
  <2>7. FirstRound'
    BY <1>4, <2>5 DEF NegotiationInv, FirstRound
  <2> QED  BY <2>4, <2>6, <2>7 DEF NegotiationInv
<1>6. CASE PageCompletes \/ PageAdds
  <2>1. toStreamerPeer' = toStreamerPeer
    BY <1>6 DEF PageCompletes, PageAdds
  <2>2. FirstRound'
    BY <1>4, <2>1 DEF NegotiationInv, FirstRound
  <2>3. /\ pageRound' \in Nat /\ pageRound' <= round' /\ RestartsInOrder' /\ CandidatesKept'
        /\ saved' \in Seq(Candidates)
    <3>1. CASE PageCompletes /\ pageSignaling = "offered"
      <4>1. pageRound = 0
        BY <3>1 DEF NegotiationInv, RestartsInOrder
      <4> QED  BY <1>2, <3>1, <4>1, DescriptionKeeps DEF PageCompletes
    <3>2. CASE PageCompletes /\ pageSignaling # "offered"
      BY <1>1, <1>4, <3>2, CandidateKeeps DEF PageCompletes, PostTypes
    <3>3. CASE PageAdds
      BY <1>1, <1>4, <3>3, CandidateKeeps DEF PageAdds, PostTypes
    <3> QED  BY <1>6, <3>1, <3>2, <3>3
  <2>4. PostTypes'
    BY <1>1, <1>4, <2>1, <2>3 DEF PostTypes
  <2> QED  BY <2>2, <2>3, <2>4 DEF NegotiationInv
<1> QED  BY <1>5, <1>6

-----------------------------------------------------------------------------
(* The streamer *)

\* The streamer sends the page one more message and nothing else changes for the page.
LEMMA MorePosts ==
    ASSUME PostTypes, NEW m \in Posts, toPagePeer' = Append(toPagePeer, m)
    PROVE  /\ toPagePeer' \in Seq(Posts) /\ Len(toPagePeer') = Len(toPagePeer) + 1
           /\ Len(toPagePeer) \in Nat /\ Len(toPagePeer') \in 1..Len(toPagePeer')
           /\ toPagePeer'[Len(toPagePeer')] = m
           /\ \A i \in 1..Len(toPagePeer) :
                 i \in 1..Len(toPagePeer') /\ toPagePeer'[i] = toPagePeer[i]
           /\ \A i \in 1..Len(toPagePeer') : i \in 1..Len(toPagePeer) \/ i = Len(toPagePeer')
<1> DEFINE q == toPagePeer  p == toPagePeer'
<1>1. q \in Seq(Posts) /\ p = Append(q, m)
  BY DEF PostTypes
<1> HIDE DEF q, p
<1>2. /\ p \in Seq(Posts) /\ Len(p) = Len(q) + 1 /\ Len(q) \in Nat /\ Len(p) \in 1..Len(p)
      /\ p[Len(p)] = m
      /\ \A i \in 1..Len(q) : i \in 1..Len(p) /\ p[i] = q[i]
      /\ \A i \in 1..Len(p) : i \in 1..Len(q) \/ i = Len(p)
  BY <1>1
<1> QED  BY <1>2 DEF q, p

\* What was on its way stays so.
LEMMA MoreOnItsWay ==
    ASSUME PostTypes, NEW m \in Posts, toPagePeer' = Append(toPagePeer, m),
           UNCHANGED <<pageRound, saved, added, round>>, NEW c, OnItsWay(c)
    PROVE  OnItsWay(c)'
<1>1. \A i \in 1..Len(toPagePeer) : i \in 1..Len(toPagePeer') /\ toPagePeer'[i] = toPagePeer[i]
  BY MorePosts
<1>2. CASE \/ c \in ToSet(saved) /\ pageRound = 0 /\ round = 1
           \/ c \in added /\ pageRound = round
  BY <1>2 DEF OnItsWay
<1>3. ASSUME NEW j \in 1..Len(toPagePeer), toPagePeer[j] = c,
             \/ round = 1 \/ pageRound = round
             \/ \E i \in 1..Len(toPagePeer) : i < j /\ toPagePeer[i] = Offer(round)
      PROVE  OnItsWay(c)'
  BY <1>1, <1>3 DEF OnItsWay, Offer
<1> QED  BY <1>2, <1>3 DEF OnItsWay

\* A message that is no description goes to the page, or an answer.
LEMMA PostKeeps ==
    ASSUME NegotiationInv, NEW m \in Posts, m.kind \in {"candidate", "answer"},
           toPagePeer' = Append(toPagePeer, m), round # 0,
           UNCHANGED <<pageSigVars, round, stateAt, toStreamerPeer>>, loopAt' # "answer"
    PROVE  FirstRound' /\ RestartsInOrder'
<1> DEFINE q == toPagePeer  p == toPagePeer'
<1>1. PostTypes
  BY DEF NegotiationInv
<1>2. /\ Len(q) \in Nat /\ Len(p) \in 1..Len(p) /\ p[Len(p)] = m
      /\ \A i \in 1..Len(q) : i \in 1..Len(p) /\ p[i] = q[i]
      /\ \A i \in 1..Len(p) : i \in 1..Len(q) \/ i = Len(p)
  BY <1>1, MorePosts
<1>3. FirstRound'
  BY <1>2 DEF NegotiationInv, FirstRound
<1>4. \A i \in 1..Len(p) : p[i].kind = "offer" => i \in 1..Len(q) /\ p[i] = q[i]
  BY <1>2
<1>5. round >= 2 /\ stateAt # "send" =>
          pageRound = round \/ \E i \in 1..Len(p) : p[i] = Offer(round)
  BY <1>2 DEF NegotiationInv, RestartsInOrder
<1>6. RestartsInOrder'
  BY <1>4, <1>5 DEF NegotiationInv, RestartsInOrder, pageSigVars, Offer
<1> QED  BY <1>3, <1>6

LEMMA SendsCandidateKeeps == NegotiationInv /\ SendsCandidate => NegotiationInv'
<1> SUFFICES ASSUME NegotiationInv, SendsCandidate PROVE NegotiationInv'
  OBVIOUS
<1>0. PICK c : c = Candidate(round, Cardinality(gathered) + 1, stateAt = "send")
  OBVIOUS
<1>1. /\ round # 0 /\ gathered' = gathered \cup {c} /\ toPagePeer' = Append(toPagePeer, c)
      /\ UNCHANGED <<pageSigVars, signalState, round, loopAt, stateAt, ice, restartTried,
                     outages, stopping, toStreamerPeer>>
  BY <1>0 DEF SendsCandidate
<1>2. PostTypes /\ round \in Nat
  BY DEF NegotiationInv, PostTypes
<1>3. c \in Candidates /\ c.kind = "candidate" /\ c.round = round /\ (~c.early => stateAt # "send")
  <2>1. Cardinality(gathered) \in Nat
    BY <1>2, FS_CardinalityType DEF PostTypes
  <2>2. \A x \in Nat, n \in Nat, e \in BOOLEAN :
           /\ Candidate(x, n, e) \in Candidates /\ Candidate(x, n, e).kind = "candidate"
           /\ Candidate(x, n, e).round = x /\ Candidate(x, n, e).early = e
    BY DEF Candidate, Candidates
  <2>3. (stateAt = "send") \in BOOLEAN /\ Cardinality(gathered) + 1 \in Nat
    BY <2>1
  <2>4. /\ c \in Candidates /\ c.kind = "candidate" /\ c.round = round
        /\ c.early = (stateAt = "send")
    BY <1>0, <1>2, <2>2, <2>3
  <2> QED  BY <2>4
<1>4. c \in Posts
  BY <1>3 DEF Posts
<1>5. FirstRound' /\ RestartsInOrder'
  BY <1>1, <1>3, <1>4, PostKeeps DEF NegotiationInv, FirstRound
<1>6. PostTypes'
  <2>1. toPagePeer' \in Seq(Posts)
    BY <1>1, <1>2, <1>4, MorePosts
  <2>2. IsFiniteSet(gathered')
    BY <1>1, <1>2, FS_AddElement DEF PostTypes
  <2> QED  BY <1>1, <1>2, <1>3, <2>1, <2>2 DEF PostTypes, pageSigVars
<1>7. CandidatesKept'
  <2>1. ASSUME NEW b \in gathered, ~b.early PROVE OnItsWay(b)'
    BY <1>1, <1>2, <1>4, <2>1, MoreOnItsWay DEF NegotiationInv, CandidatesKept, pageSigVars
  <2>2. ASSUME ~c.early PROVE OnItsWay(c)'
    <3> DEFINE p == toPagePeer'
    <3>1. /\ Len(p) \in 1..Len(p) /\ p[Len(p)] = c
          /\ \A i \in 1..Len(toPagePeer) : i \in 1..Len(p) /\ p[i] = toPagePeer[i] /\ i < Len(p)
      BY <1>1, <1>2, <1>4, MorePosts
    <3>2. \/ round = 1 \/ pageRound = round
          \/ \E i \in 1..Len(toPagePeer) : toPagePeer[i] = Offer(round)
      BY <1>1, <1>2, <1>3, <2>2 DEF NegotiationInv, RestartsInOrder
    <3>3. \/ round = 1 \/ pageRound = round
          \/ \E i \in 1..Len(p) : i < Len(p) /\ p[i] = Offer(round)
      BY <3>1, <3>2
    <3> QED  BY <1>1, <3>1, <3>3 DEF OnItsWay, pageSigVars, Offer
  <2> QED  BY <1>1, <1>3, <2>1, <2>2 DEF NegotiationInv, CandidatesKept
<1> QED  BY <1>5, <1>6, <1>7 DEF NegotiationInv

LEMMA LoopKeeps == NegotiationInv /\ LoopStep => NegotiationInv'
<1> SUFFICES ASSUME NegotiationInv, LoopStep PROVE NegotiationInv'
  OBVIOUS
<1>1. PostTypes
  BY DEF NegotiationInv
<1>2. CASE LoopTakesOffer
  <2>1. toStreamerPeer # <<>> /\ Head(toStreamerPeer) = toStreamerPeer[1]
        /\ 1 \in 1..Len(toStreamerPeer) /\ toStreamerPeer[1].kind = "offer"
        /\ Tail(toStreamerPeer) \in Seq(Descriptions)
    BY <1>1, <1>2 DEF LoopTakesOffer, PostTypes
  <2>2. round = 0 /\ toStreamerPeer = <<Offer(1)>> /\ toPagePeer = <<>>
    BY <2>1 DEF NegotiationInv, FirstRound
  <2>3. toStreamerPeer' = <<>>
    BY <1>2, <2>2 DEF LoopTakesOffer
  <2>4. PostTypes' /\ RestartsInOrder' /\ CandidatesKept'
    <3>1. PostTypes'
      BY <1>1, <1>2, <2>1 DEF LoopTakesOffer, PostTypes, pageSigVars
    <3>2. RestartsInOrder'
      BY <1>1, <1>2, <2>1 DEF NegotiationInv, LoopTakesOffer, RestartsInOrder, pageSigVars, Offer
    <3>3. CandidatesKept'
      BY <1>1, <1>2, <2>1 DEF NegotiationInv, LoopTakesOffer, CandidatesKept, OnItsWay, pageSigVars
    <3> QED  BY <3>1, <3>2, <3>3
  <2>5. FirstRound'
    BY <1>2, <2>2, <2>3 DEF NegotiationInv, LoopTakesOffer, FirstRound
  <2> QED  BY <2>4, <2>5 DEF NegotiationInv
<1>3. CASE LoopSetsAnswer
  <2>1. round = 0 /\ toStreamerPeer = <<>> /\ toPagePeer = <<>> /\ stateAt = "idle" /\ pageRound = 0
    BY <1>1, <1>3 DEF LoopSetsAnswer, NegotiationInv, FirstRound, PostTypes
  <2>2. Len(<<>>) = 0
    OBVIOUS
  <2>3. PostTypes' /\ FirstRound' /\ RestartsInOrder' /\ CandidatesKept'
    BY <1>1, <1>3, <2>1, <2>2, FS_EmptySet
    DEF NegotiationInv, LoopSetsAnswer, PostTypes, FirstRound, RestartsInOrder, CandidatesKept, pageSigVars
  <2> QED  BY <2>3 DEF NegotiationInv
<1>4. CASE LoopSendsAnswer
  <2>1. Answer(1) \in Posts /\ Answer(1).kind = "answer"
    BY DEF Answer, Posts, Descriptions
  <2>2. round # 0
    BY <1>4 DEF LoopSendsAnswer, NegotiationInv, FirstRound
  <2>3. FirstRound' /\ RestartsInOrder'
    BY <1>4, <2>1, <2>2, PostKeeps DEF LoopSendsAnswer
  <2>4. PostTypes'
    BY <1>1, <1>4, <2>1, MorePosts DEF LoopSendsAnswer, PostTypes, pageSigVars
  <2>5. CandidatesKept'
    BY <1>1, <1>4, <2>1, MoreOnItsWay DEF LoopSendsAnswer, NegotiationInv, CandidatesKept, pageSigVars
  <2> QED  BY <2>3, <2>4, <2>5 DEF NegotiationInv
<1>5. CASE LoopTakesAnswer
  <2> DEFINE q == toStreamerPeer
  <2>1. q \in Seq(Descriptions) /\ q # <<>> /\ Head(q).kind = "answer" /\ toStreamerPeer' = Tail(q)
    BY <1>1, <1>5 DEF LoopTakesAnswer, PostTypes
  <2>2. round # 0
    <3>1. Head(<<Offer(1)>>).kind = "offer"
      BY DEF Offer
    <3> QED  BY <2>1, <3>1 DEF NegotiationInv, FirstRound
  <2>3. /\ Tail(q) \in Seq(Descriptions)
        /\ \A i \in 1..Len(Tail(q)) : i + 1 \in 1..Len(q) /\ Tail(q)[i] = q[i + 1]
    <3> HIDE DEF q
    <3> QED  BY <2>1
  <2>4. FirstRound'
    BY <1>5, <2>1, <2>2, <2>3 DEF NegotiationInv, LoopTakesAnswer, FirstRound
  <2>5. PostTypes' /\ RestartsInOrder' /\ CandidatesKept'
    BY <1>1, <1>5, <2>1, <2>3
    DEF NegotiationInv, LoopTakesAnswer, PostTypes, RestartsInOrder, CandidatesKept, OnItsWay, pageSigVars,
        Offer
  <2> QED  BY <2>4, <2>5 DEF NegotiationInv
<1> QED  BY <1>2, <1>3, <1>4, <1>5 DEF LoopStep

LEMMA StateKeeps == NegotiationInv /\ (RestartStep \/ IceFails \/ IceConnects) => NegotiationInv'
<1> SUFFICES ASSUME NegotiationInv, RestartStep \/ IceFails \/ IceConnects PROVE NegotiationInv'
  OBVIOUS
<1>1. PostTypes
  BY DEF NegotiationInv
<1>2. CASE RestartSetsOffer
  <2>1. round # 0 /\ stateAt # "send" /\ round \in Nat /\ pageRound \in Nat /\ pageRound <= round
    BY <1>1, <1>2 DEF RestartSetsOffer, NegotiationInv, FirstRound, PostTypes
  <2>2. PostTypes' /\ CandidatesKept'
    BY <1>1, <1>2, <2>1, FS_EmptySet DEF RestartSetsOffer, PostTypes, CandidatesKept, pageSigVars
  <2>3. FirstRound'
    BY <1>2, <2>1 DEF RestartSetsOffer, NegotiationInv, FirstRound
  <2>4. RestartsInOrder'
    <3>1. \A i \in 1..Len(toPagePeer) : toPagePeer[i].kind = "offer" =>
            /\ pageRound < toPagePeer[i].round /\ 2 <= toPagePeer[i].round
            /\ toPagePeer[i].round <= round + 1 /\ toPagePeer[i].round # round + 1
            /\ \A j \in 1..Len(toPagePeer) : i < j /\ toPagePeer[j].kind = "offer" =>
                  toPagePeer[i].round < toPagePeer[j].round
      <4>1. \A i \in 1..Len(toPagePeer) : toPagePeer[i].kind = "offer" => toPagePeer[i].round \in Nat
        BY <1>1 DEF PostTypes, Posts, Descriptions, Candidates
      <4> QED  BY <2>1, <4>1 DEF NegotiationInv, RestartsInOrder
    <3>2. pageRound < round + 1 /\ round + 1 >= 2
      BY <2>1
    <3> QED  BY <1>2, <3>1, <3>2 DEF RestartSetsOffer, NegotiationInv, RestartsInOrder, pageSigVars
  <2> QED  BY <2>2, <2>3, <2>4 DEF NegotiationInv
<1>3. CASE RestartSendsOffer
  <2> DEFINE q == toPagePeer  p == toPagePeer'  m == Offer(round)
  <2>1. /\ stateAt = "send" /\ p = Append(q, m) /\ stateAt' = "idle"
        /\ UNCHANGED <<pageSigVars, signalState, round, loopAt, gathered, ice, toStreamerPeer>>
    BY <1>3 DEF RestartSendsOffer
  <2>2. m \in Posts /\ m.kind = "offer" /\ m.round = round /\ round \in Nat
    BY <1>1 DEF Offer, Posts, Descriptions, PostTypes
  <2>3. /\ p \in Seq(Posts) /\ Len(q) \in Nat /\ Len(p) \in 1..Len(p) /\ p[Len(p)] = m
        /\ \A i \in 1..Len(q) : i \in 1..Len(p) /\ p[i] = q[i]
        /\ \A i \in 1..Len(p) : i \in 1..Len(q) \/ i = Len(p)
    BY <1>1, <2>1, <2>2, MorePosts
  <2>4. pageRound < round /\ round >= 2
    BY <2>1 DEF NegotiationInv, RestartsInOrder
  <2>5. PostTypes'
    BY <1>1, <2>1, <2>3 DEF PostTypes, pageSigVars
  <2>6. FirstRound'
    BY <2>1, <2>2, <2>3, <2>4 DEF NegotiationInv, FirstRound
  <2>7. CandidatesKept'
    BY <1>1, <2>1, <2>2, MoreOnItsWay DEF NegotiationInv, CandidatesKept, pageSigVars
  <2>8. RestartsInOrder'
    <3>1. \A i \in 1..Len(q) : q[i].kind = "offer" =>
            /\ pageRound < q[i].round /\ 2 <= q[i].round /\ q[i].round < round
            /\ q[i].round \in Nat
            /\ \A j \in 1..Len(q) : i < j /\ q[j].kind = "offer" => q[i].round < q[j].round
      <4>1. \A i \in 1..Len(q) : q[i].kind = "offer" => q[i].round \in Nat
        BY <1>1 DEF PostTypes, Posts, Descriptions, Candidates
      <4> QED  BY <2>1, <2>2, <4>1 DEF NegotiationInv, RestartsInOrder
    <3>2. \A i \in 1..Len(p) : p[i].kind = "offer" =>
            /\ pageRound < p[i].round /\ 2 <= p[i].round /\ p[i].round <= round
      <4> TAKE i \in 1..Len(p)
      <4>1. CASE i = Len(p)
        BY <2>2, <2>3, <2>4, <4>1
      <4>2. CASE i \in 1..Len(q)
        BY <2>2, <2>3, <3>1, <4>2
      <4> QED  BY <2>3, <4>1, <4>2
    <3>3. ASSUME NEW i \in 1..Len(p), NEW j \in 1..Len(p), i < j, p[i].kind = "offer", p[j].kind = "offer"
          PROVE  p[i].round < p[j].round
      <4>1. i \in 1..Len(q) /\ p[i] = q[i]
        BY <2>3, <3>3
      <4>2. CASE j = Len(p)
        BY <2>2, <2>3, <3>1, <3>3, <4>1, <4>2
      <4>3. CASE j \in 1..Len(q)
        BY <2>3, <3>1, <3>3, <4>1, <4>3
      <4> QED  BY <2>3, <4>2, <4>3
    <3>4. \E i \in 1..Len(p) : p[i] = Offer(round)
      BY <2>3
    <3>5. pageSignaling = "offered" => pageRound = 0
      BY DEF NegotiationInv, RestartsInOrder
    <3> HIDE DEF p, m
    <3> QED  BY <2>1, <3>2, <3>3, <3>4, <3>5 DEF RestartsInOrder, pageSigVars, Offer, p
  <2> QED  BY <2>5, <2>6, <2>7, <2>8 DEF NegotiationInv
<1>4. CASE IceFails \/ IceConnects
  <2>1. /\ round # 0 /\ UNCHANGED <<pageSigVars, round, loopAt, gathered, toPagePeer, toStreamerPeer>>
        /\ stateAt # "send" /\ stateAt' # "send"
    BY <1>4 DEF IceFails, IceConnects, NegotiationInv, FirstRound
  <2>2. PostTypes' /\ CandidatesKept'
    BY <1>1, <2>1 DEF NegotiationInv, PostTypes, CandidatesKept, OnItsWay, pageSigVars, Offer
  <2>3. FirstRound'
    BY <2>1 DEF NegotiationInv, FirstRound
  <2>4. RestartsInOrder'
    BY <2>1 DEF NegotiationInv, RestartsInOrder, pageSigVars, Offer
  <2> QED  BY <2>2, <2>3, <2>4 DEF NegotiationInv
<1> QED  BY <1>2, <1>3, <1>4 DEF RestartStep

\* Every candidate that was not sent ahead of the offer of its restart is with the peer of the
\* page when the page has handled all there is, whatever overtakes whatever.
THEOREM CandidatesArriveHolds == NegotiationSpec => []CandidatesArrive
<1>1. NegotiationInv /\ [NegotiationNext]_negotiationVars => NegotiationInv'
  <2> SUFFICES ASSUME NegotiationInv, [NegotiationNext]_negotiationVars PROVE NegotiationInv'
    OBVIOUS
  <2>1. CASE UNCHANGED negotiationVars
    <3>1. PostTypes' /\ FirstRound'
      BY <2>1 DEF negotiationVars, pageSigVars, peerSigVars, NegotiationInv, PostTypes, FirstRound, Offer
    <3>2. RestartsInOrder'
      BY <2>1 DEF negotiationVars, pageSigVars, peerSigVars, NegotiationInv, RestartsInOrder
    <3>3. CandidatesKept'
      BY <2>1 DEF negotiationVars, pageSigVars, peerSigVars, NegotiationInv, CandidatesKept, OnItsWay
    <3> QED  BY <3>1, <3>2, <3>3 DEF NegotiationInv
  <2> QED  BY <2>1, PageKeeps, LoopKeeps, SendsCandidateKeeps, StateKeeps DEF NegotiationNext
<1>2. NegotiationInv => CandidatesArrive
  <2> SUFFICES ASSUME NegotiationInv, toPagePeer = <<>>, pageRound = round,
                      NEW c \in gathered, ~c.early
               PROVE  c \in added
    BY DEF CandidatesArrive
  <2>1. OnItsWay(c) /\ Len(toPagePeer) = 0
    BY DEF NegotiationInv, CandidatesKept
  <2> QED  BY <2>1 DEF OnItsWay
<1> QED  BY <1>1, <1>2, NegotiationInvStarts, PTL DEF NegotiationSpec

-----------------------------------------------------------------------------
(***************************************************************************)
(* Touches (TouchInput).                                                   *)
(***************************************************************************)

\* What is kept of a finger, and of which.
TracksOK ==
    /\ touchTracker = [f \in Tracked |-> touchTracker[f]]
    /\ \A f \in Tracked : touchTracker[f] \in Tracks
    /\ primaryTouch \in Tracked \cup {NoFinger}

\* In "mouseRelative" a finger neither drags nor is taken to have moved, and a gesture of
\* several fingers suppresses the click as long as one of them is tracked.
GestureSuppresses ==
    /\ many => Tracked # {}
    /\ touchMode = "mouseRelative" =>
          /\ \A f \in Tracked : ~touchTracker[f].mouseMoved /\ ~touchTracker[f].mouseClicked
          /\ many => touchGestureSuppressClick

TouchInv == TracksOK /\ GestureSuppresses

LEMMA TouchInvStarts == TouchInit => TouchInv
BY DEF TouchInit, TouchInv, TracksOK, GestureSuppresses, Tracked

LEMMA EmptyTracker == DOMAIN <<>> = {} /\ <<>> = [f \in {} |-> 0]
OBVIOUS

LEMMA StartKeeps ==
    ASSUME TouchInv, NEW changed \in SUBSET (Fingers \ touching), NEW first \in changed,
           OnTouchStart(changed, first)
    PROVE  TouchInv'
<1> DEFINE tracker == [f \in Tracked \cup changed |->
                           IF f \in Tracked THEN touchTracker[f] ELSE AtRest]
           primary == IF primaryTouch = NoFinger THEN first ELSE primaryTouch
           size    == Cardinality(DOMAIN tracker)
           scrolls == size = 2 /\ ~tracker[primary].mouseMoved /\ ~tracker[primary].mouseClicked
<1>1. DOMAIN tracker = Tracked \cup changed /\ primary \in DOMAIN tracker
  BY DEF TouchInv, TracksOK
<1>2. \A f \in DOMAIN tracker : tracker[f] \in Tracks
  BY DEF TouchInv, TracksOK, AtRest, Tracks
<1>3. touchMode = "mouseRelative" =>
        \A f \in DOMAIN tracker : ~tracker[f].mouseMoved /\ ~tracker[f].mouseClicked
  BY DEF TouchInv, GestureSuppresses, AtRest
<1>4. /\ primaryTouch' = primary /\ touchMode' = touchMode
      /\ touchTracker' = [f \in DOMAIN tracker |->
                            IF f = primary /\ scrolls /\ touchMode = "pointAndDrag"
                            THEN [tracker[f] EXCEPT !.mouseMoved = TRUE] ELSE tracker[f]]
      /\ many' = (many \/ size \in {2, 3})
      /\ touchGestureSuppressClick' =
            (scrolls \/ size = 3 \/ (Tracked # {} /\ touchGestureSuppressClick))
  BY DEF OnTouchStart
<1>5. touchMode = "mouseRelative" => (size = 2 => scrolls)
  BY <1>1, <1>3
<1> HIDE DEF tracker, primary, size, scrolls
<1>6. Tracked' = DOMAIN tracker /\ Tracked' # {}
  BY <1>1, <1>4 DEF Tracked
<1>7. TracksOK'
  <2>1. \A f \in Tracked' : touchTracker'[f] \in Tracks
    BY <1>2, <1>4, <1>6 DEF Tracks
  <2> QED  BY <1>1, <1>4, <1>6, <2>1 DEF TracksOK
<1>8. GestureSuppresses'
  <2>1. touchMode = "mouseRelative" => \A f \in Tracked' : touchTracker'[f] = tracker[f]
    BY <1>4, <1>6
  <2>2. touchMode = "mouseRelative" => (many' => touchGestureSuppressClick')
    BY <1>4, <1>5 DEF TouchInv, GestureSuppresses
  <2> QED  BY <1>3, <1>4, <1>6, <2>1, <2>2 DEF GestureSuppresses
<1> QED  BY <1>7, <1>8 DEF TouchInv

LEMMA MoveKeeps ==
    ASSUME TouchInv, NEW f \in touching, NEW far \in BOOLEAN, OnTouchMove(f, far)
    PROVE  TouchInv' /\ (touchMode = "mouseRelative" => ~clicked')
<1> DEFINE drags == /\ f = primaryTouch /\ f \in Tracked /\ touchMouseAction = "default"
                    /\ touchMode = "pointAndDrag" /\ far
           track == IF f \notin Tracked THEN AtRest
                    ELSE [touchTracker[f] EXCEPT !.far = far,
                                                 !.mouseMoved = @ \/ drags,
                                                 !.mouseClicked = @ \/ drags]
<1>1. /\ touchTracker' = [g \in Tracked \cup {f} |-> IF g = f THEN track ELSE touchTracker[g]]
      /\ many' = (many /\ DOMAIN touchTracker' # {})
      /\ UNCHANGED <<touchMode, primaryTouch, touchGestureSuppressClick>>
      /\ clicked' = (drags /\ ~touchTracker[f].mouseClicked)
  BY DEF OnTouchMove, Tracking
<1>2. Tracked' = Tracked \cup {f}
  BY <1>1 DEF Tracked
<1>3. track \in Tracks
  BY DEF TouchInv, TracksOK, Tracks, AtRest
<1>4. touchMode = "mouseRelative" => ~drags /\ ~track.mouseMoved /\ ~track.mouseClicked
  BY DEF TouchInv, TracksOK, GestureSuppresses, AtRest, Tracks
<1> HIDE DEF drags, track
<1>5. TracksOK'
  BY <1>1, <1>2, <1>3 DEF TouchInv, TracksOK
<1>6. GestureSuppresses'
  BY <1>1, <1>2, <1>4 DEF TouchInv, GestureSuppresses
<1> QED  BY <1>1, <1>4, <1>5, <1>6 DEF TouchInv

LEMMA EndKeeps ==
    ASSUME TouchInv, NEW changed \in SUBSET touching, NEW long \in BOOLEAN,
           OnTouchEnd(changed, long)
    PROVE  TouchInv' /\ (many /\ touchMode = "mouseRelative" => ~clicked')
<1> DEFINE rest == Tracked \ changed
<1>1. /\ primaryTouch' = IF primaryTouch \in changed THEN NoFinger ELSE primaryTouch
      /\ touchTracker' = [f \in rest |-> touchTracker[f]]
      /\ many' = (many /\ DOMAIN touchTracker' # {})
      /\ touchGestureSuppressClick' = (touchGestureSuppressClick /\ rest # {})
      /\ touchMode' = touchMode
  BY DEF OnTouchEnd, Tracking
<1>2. Tracked' = rest
  BY <1>1 DEF Tracked
<1>3. TracksOK'
  BY <1>1, <1>2 DEF TouchInv, TracksOK
<1>4. GestureSuppresses'
  BY <1>1, <1>2 DEF TouchInv, GestureSuppresses
<1>5. clicked' => ~touchGestureSuppressClick
  BY DEF OnTouchEnd
<1>6. many /\ touchMode = "mouseRelative" => touchGestureSuppressClick
  BY DEF TouchInv, GestureSuppresses
<1> QED  BY <1>3, <1>4, <1>5, <1>6 DEF TouchInv

LEMMA ForgetsKeeps ==
    ASSUME TouchInv, Tracking(<<>>), primaryTouch' = NoFinger
    PROVE  TouchInv'
BY EmptyTracker DEF Tracking, TouchInv, TracksOK, GestureSuppresses, Tracked

LEMMA UpdateKeeps == TouchInv /\ OnTouchUpdate => TouchInv'
<1> SUFFICES ASSUME TouchInv, OnTouchUpdate PROVE TouchInv'
  OBVIOUS
<1>1. /\ touchTracker' = [touchTracker EXCEPT ![primaryTouch].mouseMoved = TRUE]
      /\ many' = (many /\ DOMAIN touchTracker' # {}) /\ primaryTouch \in Tracked
      /\ UNCHANGED <<touchMode, primaryTouch>> /\ touchMode # "mouseRelative"
  BY DEF OnTouchUpdate, Tracking
<1>2. Tracked' = Tracked
  BY <1>1 DEF Tracked
<1>3. \A f \in Tracked : touchTracker'[f] \in Tracks
  <2>1. \A f \in Tracked : touchTracker'[f] =
           IF f = primaryTouch THEN [touchTracker[f] EXCEPT !.mouseMoved = TRUE] ELSE touchTracker[f]
    BY <1>1 DEF Tracked
  <2> QED  BY <2>1 DEF TouchInv, TracksOK, Tracks
<1>4. touchTracker' = [f \in Tracked' |-> touchTracker'[f]]
  BY <1>1, <1>2 DEF Tracked
<1> QED  BY <1>1, <1>2, <1>3, <1>4 DEF TouchInv, TracksOK, GestureSuppresses

LEMMA TouchStep ==
    ASSUME TouchInv, [TouchNext]_touchVars
    PROVE  TouchInv' /\ [many /\ touchMode = "mouseRelative" => ~clicked']_touchVars
<1>1. ASSUME NEW changed \in SUBSET (Fingers \ touching), NEW first \in changed,
             OnTouchStart(changed, first)
      PROVE  TouchInv' /\ ~clicked'
  BY <1>1, StartKeeps DEF OnTouchStart
<1>2. CASE OnTouchUpdate
  BY <1>2, UpdateKeeps DEF OnTouchUpdate
<1>3. ASSUME NEW f \in touching, NEW far \in BOOLEAN, OnTouchMove(f, far)
      PROVE  TouchInv' /\ (touchMode = "mouseRelative" => ~clicked')
  BY <1>3, MoveKeeps
<1>4. ASSUME NEW changed \in SUBSET touching, NEW long \in BOOLEAN, OnTouchEnd(changed, long)
      PROVE  TouchInv' /\ (many /\ touchMode = "mouseRelative" => ~clicked')
  BY <1>4, EndKeeps
<1>5. CASE SetConfig \/ \E changed \in SUBSET touching \ {{}} : OnTouchCancel(changed)
  BY <1>5, ForgetsKeeps DEF SetConfig, OnTouchCancel
<1>6. CASE UNCHANGED touchVars
  BY <1>6 DEF touchVars, gestureVars, TouchInv, TracksOK, GestureSuppresses, Tracked
<1>7. CASE TouchNext
  BY <1>1, <1>2, <1>3, <1>4, <1>5, <1>7 DEF TouchNext
<1> QED  BY <1>6, <1>7

\* In "mouseRelative" no finger of a gesture of two or three clicks, whichever is lifted
\* first, put down again or left behind (onTouchEnd and the tracker, input.ts:495-543, 675-687).
THEOREM ManyFingersNeverClickHolds == TouchSpec => ManyFingersNeverClick
<1>1. TouchInv /\ [TouchNext]_touchVars => TouchInv'
  BY TouchStep
<1>2. TouchInv /\ [TouchNext]_touchVars =>
          [many /\ touchMode = "mouseRelative" => ~clicked']_touchVars
  BY TouchStep
<1> QED  BY <1>1, <1>2, TouchInvStarts, PTL DEF TouchSpec, ManyFingersNeverClick

-----------------------------------------------------------------------------
(***************************************************************************)
(* Gamepads (PageGamepads).                                                *)
(***************************************************************************)

\* The ids of the registered pads are different ones.
OneIdEach == \A p, q \in DOMAIN registered : registered[p] = registered[q] => p = q

\* A pad is pending or registered, not both.
NotBoth == ToSet(pendingGamepads) \cap DOMAIN registered = {}

\* A channel that is not open has heard of nothing, one that is open of pads that are
\* still registered.
ChannelHears == heard \subseteq IF controllers = "open" THEN Ids ELSE {}

\* Until the channel of the first peer opens no pad gets past the buffer.
FirstPeer ==
    /\ controllers = "none" => ~streamStarted /\ pagePeers = 0
    /\ controllers # "none" => pagePeers > 0
    /\ controllers # "open" /\ pagePeers <= 1 =>
           pendingGamepads = <<>> /\ DOMAIN registered = {}

PadTypes ==
    /\ controllers \in {"none", "connecting", "open"} /\ pagePeers \in Nat
    /\ buffered \in Seq(Pads) /\ pendingGamepads \in Seq(Pads)
    /\ DOMAIN registered \subseteq Pads /\ registered \in [DOMAIN registered -> Nat]

PadInv ==
    /\ PadTypes /\ OneIdEach /\ NotBoth /\ ChannelHears /\ FirstPeer
    /\ FirstPeerHears

-----------------------------------------------------------------------------
(* The queue of pending gamepads *)

LEMMA AppendSet ==
    ASSUME NEW S, NEW q \in Seq(S), NEW e \in S
    PROVE  Append(q, e) \in Seq(S) /\ ToSet(Append(q, e)) = ToSet(q) \cup {e}
<1>1. /\ Append(q, e) \in Seq(S) /\ Len(Append(q, e)) = Len(q) + 1
      /\ \A i \in 1..Len(q) : Append(q, e)[i] = q[i]
      /\ Append(q, e)[Len(q) + 1] = e
  OBVIOUS
<1>2. DOMAIN q = 1..Len(q) /\ DOMAIN Append(q, e) = 1..Len(q) + 1 /\ Len(q) \in Nat
  BY <1>1
<1>3. 1..Len(q) + 1 = 1..Len(q) \cup {Len(q) + 1}
  BY <1>2
<1> QED  BY <1>1, <1>2, <1>3 DEF ToSet

\* What Those keeps are the entries that are in the set.
LEMMA ThoseAre ==
    ASSUME NEW S, NEW queue \in Seq(S), NEW pads
    PROVE  /\ Those(queue, pads) \in Seq(S)
           /\ ToSet(Those(queue, pads)) = ToSet(queue) \cap pads
<1> DEFINE N    == Len(queue)
           step == [x \in Seq(S) \X Nat |->
                       IF x[2] \in 1..N /\ queue[x[2]] \in pads THEN Append(x[1], queue[x[2]])
                                                                 ELSE x[1]]
<1>1. N \in Nat /\ <<>> \in Seq(S)
  OBVIOUS
<1>2. step \in [Seq(S) \X Nat -> Seq(S)]
  <2>1. ASSUME NEW x \in Seq(S) \X Nat
        PROVE  step[x] \in Seq(S)
    <3>1. x[1] \in Seq(S)
      OBVIOUS
    <3>2. x[2] \in 1..N => queue[x[2]] \in S
      OBVIOUS
    <3>3. x[2] \in 1..N => Append(x[1], queue[x[2]]) \in Seq(S)
      BY <3>1, <3>2
    <3> QED  BY <3>1, <3>3
  <2> QED  BY <2>1
<1>3. PICK g \in [0..N -> Seq(S)] : Runs(g, <<>>, step, N)
  <2>1. PICK Q : Q = Seq(S)
    OBVIOUS
  <2>2. PICK a : a = <<>>
    OBVIOUS
  <2> HIDE DEF step, N
  <2>3. a \in Q /\ step \in [Q \X Nat -> Q]
    BY <1>1, <1>2, <2>1, <2>2
  <2>4. \E g \in [0..N -> Q] : Runs(g, a, step, N)
    BY <1>1, <2>3, Recursion
  <2> QED  BY <2>1, <2>2, <2>4
<1>4. \A n \in 1..N : g[n] = IF queue[n] \in pads THEN Append(g[n - 1], queue[n]) ELSE g[n - 1]
  <2> SUFFICES ASSUME NEW n \in 1..N
               PROVE  g[n] = IF queue[n] \in pads THEN Append(g[n - 1], queue[n]) ELSE g[n - 1]
    OBVIOUS
  <2>1. g[n - 1] \in Seq(S) /\ n \in Nat
    OBVIOUS
  <2>2. <<g[n - 1], n>> \in Seq(S) \X Nat
    BY <2>1
  <2>3. g[n] = step[<<g[n - 1], n>>]
    BY <1>3 DEF Runs
  <2> QED  BY <2>2, <2>3
<1>5. g = [n \in 0..N |-> IF n = 0 THEN <<>>
                          ELSE IF queue[n] \in pads THEN Append(g[n - 1], queue[n]) ELSE g[n - 1]]
  <2> DEFINE F == [n \in 0..N |-> IF n = 0 THEN <<>>
                          ELSE IF queue[n] \in pads THEN Append(g[n - 1], queue[n]) ELSE g[n - 1]]
  <2>1. ASSUME NEW n \in 0..N
        PROVE  g[n] = F[n]
    <3>1. n = 0 \/ n \in 1..N
      BY <1>1
    <3> QED  BY <1>3, <1>4, <3>1 DEF Runs
  <2>2. DOMAIN g = 0..N /\ DOMAIN F = 0..N /\ g = [n \in 0..N |-> g[n]] /\ F = [n \in 0..N |-> F[n]]
    OBVIOUS
  <2> HIDE DEF F, N
  <2>3. g = F
    BY <2>1, <2>2
  <2> QED  BY <2>3 DEF F
<1>6. PICK k : /\ Those(queue, pads) = k[N]
               /\ k = [n \in 0..N |-> IF n = 0 THEN <<>>
                          ELSE IF queue[n] \in pads THEN Append(k[n - 1], queue[n]) ELSE k[n - 1]]
  BY <1>5, Zenon DEF Those
<1>7. /\ k[0] = <<>>
      /\ \A n \in 1..N : k[n] = IF queue[n] \in pads THEN Append(k[n - 1], queue[n]) ELSE k[n - 1]
  <2>1. PICK F : F = [n \in 0..N |-> IF n = 0 THEN <<>>
                          ELSE IF queue[n] \in pads THEN Append(k[n - 1], queue[n]) ELSE k[n - 1]]
    OBVIOUS
  <2>2. F[0] = <<>>
    BY <1>1, <2>1
  <2>3. \A n \in 1..N : F[n] = IF queue[n] \in pads THEN Append(k[n - 1], queue[n]) ELSE k[n - 1]
    BY <2>1
  <2>4. k = F
    BY <1>6, <2>1
  <2> QED  BY <2>2, <2>3, <2>4
<1> HIDE DEF N, step
<1> DEFINE Good == {n \in 0..N : /\ k[n] \in Seq(S)
                                 /\ ToSet(k[n]) = {queue[i] : i \in 1..n} \cap pads}
<1>8. 0 \in Good
  <2>1. ToSet(<<>>) = {} /\ {queue[i] : i \in 1..0} = {}
    BY DEF ToSet
  <2>2. k[0] \in Seq(S) /\ ToSet(k[0]) = {queue[i] : i \in 1..0} \cap pads
    BY <1>1, <1>7, <2>1
  <2>3. 0 \in 0..N
    BY <1>1
  <2> QED  BY <2>2, <2>3
<1>9. ASSUME NEW n \in 0..N - 1, n \in Good
      PROVE  n + 1 \in Good
  <2>1. n + 1 \in 1..N /\ n + 1 \in 0..N /\ n + 1 - 1 = n /\ queue[n + 1] \in S
    BY <1>1 DEF N
  <2>2. k[n + 1] = IF queue[n + 1] \in pads THEN Append(k[n], queue[n + 1]) ELSE k[n]
    BY <1>7, <2>1
  <2>3. {queue[i] : i \in 1..n + 1} = {queue[i] : i \in 1..n} \cup {queue[n + 1]}
    <3>1. 1..n + 1 = 1..n \cup {n + 1}
      OBVIOUS
    <3> QED  BY <3>1
  <2>4. PICK q : q = k[n]
    OBVIOUS
  <2>5. q \in Seq(S) /\ ToSet(q) = {queue[i] : i \in 1..n} \cap pads
    BY <1>9, <2>4
  <2>6. /\ Append(q, queue[n + 1]) \in Seq(S)
        /\ ToSet(Append(q, queue[n + 1])) = ToSet(q) \cup {queue[n + 1]}
    BY <2>1, <2>5, AppendSet
  <2>7. CASE queue[n + 1] \in pads
    BY <2>1, <2>2, <2>3, <2>4, <2>5, <2>6, <2>7
  <2>8. CASE queue[n + 1] \notin pads
    BY <2>1, <2>2, <2>3, <2>4, <2>5, <2>8
  <2> QED  BY <2>7, <2>8
<1>10. N \in Good
  <2> HIDE DEF Good
  <2>1. 0..N \subseteq Good
    BY <1>1, <1>8, <1>9, SetInduction
  <2> QED  BY <1>1, <2>1
<1>11. {queue[i] : i \in 1..N} = ToSet(queue)
  BY DEF ToSet, N
<1> QED  BY <1>6, <1>10, <1>11

\* An entry is added at most once, and never beside its registration.
LEMMA QueueIs ==
    ASSUME NEW queue \in Seq(Pads), NEW p \in Pads, NEW old
    PROVE  /\ Queue(queue, p, old) \in Seq(Pads)
           /\ ToSet(queue) \cap DOMAIN registered = {} =>
                  ToSet(Queue(queue, p, old)) \cap DOMAIN registered = {}
<1>1. CASE p \in DOMAIN registered \cup ToSet(queue) \/ Rejected(p, queue, old)
  BY <1>1 DEF Queue
<1>2. CASE p \notin DOMAIN registered /\ ~(p \in ToSet(queue) \/ Rejected(p, queue, old))
  <2>1. PICK kept : kept = Those(queue, {q \in Pads : Stays(q, p, old)})
    OBVIOUS
  <2>2. kept \in Seq(Pads) /\ ToSet(kept) \subseteq ToSet(queue)
    BY <2>1, ThoseAre
  <2>3. Append(kept, p) \in Seq(Pads) /\ ToSet(Append(kept, p)) = ToSet(kept) \cup {p}
    BY <2>2, AppendSet
  <2>4. Queue(queue, p, old) = Append(kept, p)
    BY <1>2, <2>1 DEF Queue
  <2> QED  BY <1>2, <2>2, <2>3, <2>4
<1> QED  BY <1>1, <1>2

\* The same holds of a row of pads.
LEMMA QueueAllIs ==
    ASSUME NEW queue \in Seq(Pads), NEW pads \in Seq(Pads), NEW old
    PROVE  /\ QueueAll(queue, pads, old) \in Seq(Pads)
           /\ ToSet(queue) \cap DOMAIN registered = {} =>
                  ToSet(QueueAll(queue, pads, old)) \cap DOMAIN registered = {}
<1> DEFINE N    == Len(pads)
           step == [x \in Seq(Pads) \X Nat |->
                       IF x[2] \in 1..N THEN Queue(x[1], pads[x[2]], old) ELSE x[1]]
<1>1. N \in Nat /\ \A n \in 1..N : pads[n] \in Pads
  OBVIOUS
<1>2. step \in [Seq(Pads) \X Nat -> Seq(Pads)]
  <2>1. ASSUME NEW x \in Seq(Pads) \X Nat
        PROVE  step[x] \in Seq(Pads)
    <3>1. x[1] \in Seq(Pads)
      OBVIOUS
    <3>2. x[2] \in 1..N => Queue(x[1], pads[x[2]], old) \in Seq(Pads)
      BY <1>1, <3>1, QueueIs
    <3> QED  BY <3>1, <3>2
  <2> QED  BY <2>1
<1>3. PICK g \in [0..N -> Seq(Pads)] : Runs(g, queue, step, N)
  <2>1. PICK Q : Q = Seq(Pads)
    OBVIOUS
  <2>2. queue \in Q /\ step \in [Q \X Nat -> Q]
    BY <1>2, <2>1
  <2> HIDE DEF step, N
  <2>3. \E g \in [0..N -> Q] : Runs(g, queue, step, N)
    BY <1>1, <2>2, Recursion
  <2> QED  BY <2>1, <2>3
<1>4. \A n \in 1..N : g[n] = Queue(g[n - 1], pads[n], old)
  <2> SUFFICES ASSUME NEW n \in 1..N
               PROVE  g[n] = Queue(g[n - 1], pads[n], old)
    OBVIOUS
  <2>1. g[n - 1] \in Seq(Pads) /\ n \in Nat
    OBVIOUS
  <2>2. <<g[n - 1], n>> \in Seq(Pads) \X Nat
    BY <2>1
  <2>3. g[n] = step[<<g[n - 1], n>>]
    BY <1>3 DEF Runs
  <2> QED  BY <2>2, <2>3
<1>5. g = [n \in 0..N |-> IF n = 0 THEN queue ELSE Queue(g[n - 1], pads[n], old)]
  <2> DEFINE F == [n \in 0..N |-> IF n = 0 THEN queue ELSE Queue(g[n - 1], pads[n], old)]
  <2>1. ASSUME NEW n \in 0..N
        PROVE  g[n] = F[n]
    <3>1. n = 0 \/ n \in 1..N
      BY <1>1
    <3> QED  BY <1>3, <1>4, <3>1 DEF Runs
  <2>2. DOMAIN g = 0..N /\ DOMAIN F = 0..N /\ g = [n \in 0..N |-> g[n]] /\ F = [n \in 0..N |-> F[n]]
    OBVIOUS
  <2> HIDE DEF F, N
  <2>3. g = F
    BY <2>1, <2>2
  <2> QED  BY <2>3 DEF F
<1>6. PICK k : /\ QueueAll(queue, pads, old) = k[N]
               /\ k = [n \in 0..N |-> IF n = 0 THEN queue ELSE Queue(k[n - 1], pads[n], old)]
  BY <1>5, Zenon DEF QueueAll
<1>7. k[0] = queue /\ \A n \in 1..N : k[n] = Queue(k[n - 1], pads[n], old)
  <2>1. PICK F : F = [n \in 0..N |-> IF n = 0 THEN queue ELSE Queue(k[n - 1], pads[n], old)]
    OBVIOUS
  <2>2. F[0] = queue
    BY <1>1, <2>1
  <2>3. \A n \in 1..N : F[n] = Queue(k[n - 1], pads[n], old)
    BY <2>1
  <2>4. k = F
    BY <1>6, <2>1
  <2> QED  BY <2>2, <2>3, <2>4
<1> HIDE DEF N, step
<1> DEFINE Apart(q) == ToSet(queue) \cap DOMAIN registered = {} =>
                           ToSet(q) \cap DOMAIN registered = {}
           Good     == {n \in 0..N : k[n] \in Seq(Pads) /\ Apart(k[n])}
<1>8. 0 \in Good
  BY <1>1, <1>7
<1>9. ASSUME NEW n \in 0..N - 1, n \in Good
      PROVE  n + 1 \in Good
  <2>1. n + 1 \in 1..N /\ n + 1 \in 0..N /\ n + 1 - 1 = n /\ pads[n + 1] \in Pads
    BY <1>1
  <2>2. k[n + 1] = Queue(k[n], pads[n + 1], old)
    BY <1>7, <2>1
  <2> QED  BY <1>9, <2>1, <2>2, QueueIs
<1>10. N \in Good
  <2> HIDE DEF Good
  <2>1. 0..N \subseteq Good
    BY <1>1, <1>8, <1>9, SetInduction
  <2> QED  BY <1>1, <2>1
<1> QED  BY <1>6, <1>10

-----------------------------------------------------------------------------
(* Registering *)

\* There are more ids than pads, so the lowest one that is free is found.
LEMMA FreeIdIsFree ==
    ASSUME PadTypes
    PROVE  FreeId \in Nat /\ FreeId \notin Ids
<1> DEFINE C    == Cardinality(Pads)
           Free == {n \in 0..C : n \notin Ids}
<1>1. IsFiniteSet(Pads) /\ C \in Nat
  BY PagePadAssumption, FS_CardinalityType
<1>2. PICK D : D = DOMAIN registered
  OBVIOUS
<1>3. D \subseteq Pads /\ registered \in [D -> Nat] /\ Ids = {registered[p] : p \in D}
  BY <1>2 DEF PadTypes, Ids, Range
<1>4. IsFiniteSet(D) /\ Cardinality(D) <= C /\ Cardinality(D) \in Nat
  BY <1>1, <1>3, FS_Subset, FS_CardinalityType
<1>5. registered \in Surjection(D, Ids)
  BY <1>3 DEF Surjection
<1>6. IsFiniteSet(Ids) /\ Cardinality(Ids) <= Cardinality(D) /\ Cardinality(Ids) \in Nat
  BY <1>4, <1>5, FS_Surjection, FS_CardinalityType
<1>7. Free # {}
  <2> SUFFICES ASSUME 0..C \subseteq Ids
               PROVE  FALSE
    OBVIOUS
  <2>1. Cardinality(0..C) = C + 1 /\ IsFiniteSet(0..C)
    BY <1>1, FS_Interval
  <2>2. Cardinality(0..C) <= Cardinality(Ids)
    BY <1>6, <2>1, FS_Subset
  <2> QED  BY <1>1, <1>4, <1>6, <2>1, <2>2
<1>8. PICK m \in Free : \A x \in Free : m <= x
  <2>1. Free \subseteq Nat
    BY <1>1
  <2> HIDE DEF Free
  <2> QED  BY <1>7, <2>1, LeastElement
<1>9. m \in 0..C /\ m \notin Ids /\ \A x \in 0..m - 1 : x \in Ids
  <2>1. m \in 0..C /\ m \notin Ids
    OBVIOUS
  <2>2. ASSUME NEW x \in 0..m - 1
        PROVE  x \in Ids
    <3>1. x \in 0..C /\ ~(m <= x)
      BY <1>1, <2>1
    <3> QED  BY <1>8, <3>1
  <2> QED  BY <2>1, <2>2
<1> HIDE DEF C
<1>10. FreeId \in 0..C /\ FreeId \notin Ids
  BY <1>9 DEF FreeId, C
<1> QED  BY <1>1, <1>10

\* Of some pending pads one is chosen.
LEMMA ChosenIsOne ==
    ASSUME PadTypes, NEW alike, alike \subseteq ToSet(pendingGamepads), alike # {}, NEW near
    PROVE  Chosen(alike, near) \in alike
<1>1. ASSUME NEW T, T \subseteq alike, T # {}
      PROVE  Those(pendingGamepads, T)[1] \in T
  <2>1. PICK q : q = Those(pendingGamepads, T)
    OBVIOUS
  <2>2. q \in Seq(Pads) /\ ToSet(q) = T
    <3>1. q \in Seq(Pads) /\ ToSet(q) = ToSet(pendingGamepads) \cap T
      BY <2>1, ThoseAre DEF PadTypes
    <3> QED  BY <1>1, <3>1
  <2>3. q # <<>>
    BY <1>1, <2>2 DEF ToSet
  <2>4. 1 \in DOMAIN q
    BY <2>2, <2>3
  <2> QED  BY <2>1, <2>2, <2>4 DEF ToSet
<1>2. Min(alike) \in alike
  <2>1. alike \subseteq Nat
    BY PagePadAssumption DEF PadTypes, ToSet
  <2>2. \E m \in alike : \A x \in alike : m <= x
    BY <2>1, LeastElement
  <2> QED  BY <2>2 DEF Min
<1> QED  BY <1>1, <1>2 DEF Chosen

-----------------------------------------------------------------------------
(* The invariant *)

LEMMA PadConnectsKeeps ==
    ASSUME PadInv, NEW p \in Pads, PadConnects(p)
    PROVE  PadInv'
<1>1. UNCHANGED <<controllers, pagePeers, streamStarted, registered, heard>>
  BY DEF PadConnects
<1>2. OneIdEach' /\ ChannelHears' /\ FirstPeerHears'
  BY <1>1 DEF PadInv, OneIdEach, ChannelHears, FirstPeerHears, Ids
<1>3. CASE UNCHANGED pendingGamepads /\ buffered' = Append(buffered, p)
  <2>1. PadTypes'
    BY <1>1, <1>3 DEF PadInv, PadTypes
  <2> QED  BY <1>1, <1>2, <1>3, <2>1 DEF PadInv, NotBoth, FirstPeer
<1>4. CASE UNCHANGED buffered /\ controllers = "open"
             /\ \E old \in Olds : pendingGamepads' = Queue(pendingGamepads, p, old)
  <2>1. PICK old : pendingGamepads' = Queue(pendingGamepads, p, old)
    BY <1>4
  <2>2. pendingGamepads' \in Seq(Pads) /\ ToSet(pendingGamepads') \cap DOMAIN registered = {}
    BY <2>1, QueueIs DEF PadInv, PadTypes, NotBoth
  <2>3. PadTypes' /\ NotBoth' /\ FirstPeer'
    BY <1>1, <1>4, <2>2 DEF PadInv, PadTypes, NotBoth, FirstPeer
  <2> QED  BY <1>2, <2>3 DEF PadInv
<1> QED  BY <1>3, <1>4 DEF PadConnects

LEMMA PadDisconnectsKeeps ==
    ASSUME PadInv, NEW p \in Pads, PadDisconnects(p)
    PROVE  PadInv'
<1> USE DEF PadInv
<1>1. UNCHANGED <<controllers, pagePeers, streamStarted, buffered>>
  BY DEF PadDisconnects
<1>2. /\ pendingGamepads' \in Seq(Pads)
      /\ ToSet(pendingGamepads') \subseteq ToSet(pendingGamepads)
  BY ThoseAre DEF PadDisconnects, PadTypes
<1>3. pendingGamepads = <<>> => pendingGamepads' = <<>>
  <2> SUFFICES ASSUME pendingGamepads = <<>>
               PROVE  pendingGamepads' = <<>>
    OBVIOUS
  <2>1. ToSet(pendingGamepads') = {}
    BY <1>2 DEF ToSet
  <2>2. DOMAIN (pendingGamepads') = {}
    BY <2>1 DEF ToSet
  <2> QED  BY <1>2, <2>2
<1>4. CASE UNCHANGED <<registered, heard>>
  BY <1>1, <1>2, <1>3, <1>4
     DEF PadTypes, OneIdEach, NotBoth, ChannelHears, FirstPeer, FirstPeerHears, Ids
<1>5. CASE p \in DOMAIN registered /\ RemovesPad(p)
  <2>1. /\ registered' = [q \in DOMAIN registered \ {p} |-> registered[q]]
        /\ heard' = ReachesHost(heard \ {registered[p]})
    BY <1>5 DEF RemovesPad
  <2>2. DOMAIN registered' = DOMAIN registered \ {p}
        /\ \A q \in DOMAIN registered \ {p} : registered'[q] = registered[q]
    BY <2>1
  <2>3. Ids' = Ids \ {registered[p]}
    BY <1>5, <2>2 DEF OneIdEach, Ids, Range
  <2>4. PadTypes' /\ OneIdEach' /\ NotBoth'
    BY <1>1, <1>2, <2>1, <2>2 DEF PadTypes, OneIdEach, NotBoth
  <2>5. ChannelHears' /\ FirstPeerHears'
    BY <1>1, <2>1, <2>3 DEF ChannelHears, FirstPeerHears, ReachesHost
  <2>6. FirstPeer'
    BY <1>1, <1>3, <2>2 DEF FirstPeer
  <2> QED  BY <2>4, <2>5, <2>6
<1> QED  BY <1>4, <1>5 DEF PadDisconnects, RemovesPad

LEMMA PromotesKeeps ==
    ASSUME PadInv, NEW alike \in SUBSET ToSet(pendingGamepads), NEW near,
           Promotes(alike, near)
    PROVE  PadInv'
<1> USE DEF PadInv
<1>1. UNCHANGED <<controllers, pagePeers, streamStarted, buffered>> /\ alike # {}
  BY DEF Promotes
<1>2. PICK p : p = Chosen(alike, near)
  OBVIOUS
<1>3. p \in alike /\ p \in Pads /\ p \notin DOMAIN registered
  BY <1>1, <1>2, ChosenIsOne DEF PadTypes, NotBoth, ToSet
<1>4. PICK n : n = FreeId
  OBVIOUS
<1>5. n \in Nat /\ n \notin Ids
  BY <1>4, FreeIdIsFree
<1>6. /\ registered' = [q \in DOMAIN registered \cup {p} |-> IF q = p THEN n ELSE registered[q]]
      /\ heard' = ReachesHost(heard \cup {n})
      /\ pendingGamepads' = Those(pendingGamepads, Pads \ alike)
  BY <1>2, <1>4 DEF Promotes
<1>7. /\ pendingGamepads' \in Seq(Pads)
      /\ ToSet(pendingGamepads') = ToSet(pendingGamepads) \cap (Pads \ alike)
  BY <1>6, ThoseAre DEF PadTypes
<1>8. /\ DOMAIN registered' = DOMAIN registered \cup {p} /\ registered'[p] = n
      /\ \A q \in DOMAIN registered : registered'[q] = registered[q]
  BY <1>3, <1>6
<1>9. Ids' = Ids \cup {n}
  BY <1>8 DEF Ids, Range
<1>10. PadTypes'
  <2>1. registered' \in [DOMAIN registered' -> Nat]
    BY <1>5, <1>6, <1>8 DEF PadTypes
  <2> QED  BY <1>1, <1>3, <1>7, <1>8, <2>1 DEF PadTypes
<1>11. OneIdEach'
  BY <1>5, <1>8 DEF OneIdEach, Ids, Range
<1>12. NotBoth'
  BY <1>3, <1>7, <1>8 DEF NotBoth
<1>13. ChannelHears' /\ FirstPeerHears'
  BY <1>1, <1>6, <1>9 DEF ChannelHears, FirstPeerHears, ReachesHost
<1>14. FirstPeer'
  <2>1. pendingGamepads # <<>>
    BY <1>1 DEF ToSet, PadTypes
  <2> QED  BY <1>1, <2>1 DEF FirstPeer
<1> QED  BY <1>10, <1>11, <1>12, <1>13, <1>14

LEMMA StreamStartKeeps ==
    ASSUME PadInv, StreamStart
    PROVE  PadInv'
<1> USE DEF PadInv
<1>1. UNCHANGED <<controllers, pagePeers, registered>> /\ streamStarted'
        /\ controllers # "none"
  BY DEF StreamStart
<1>2. Ids' = Ids
  BY <1>1 DEF Ids
<1>3. /\ buffered' \in Seq(Pads) /\ pendingGamepads' \in Seq(Pads)
      /\ ToSet(pendingGamepads') \cap DOMAIN registered = {}
      /\ controllers # "open" => UNCHANGED pendingGamepads
  <2>1. PICK there : there = Those(buffered, plugged)
    OBVIOUS
  <2>2. there \in Seq(Pads)
    BY <2>1, ThoseAre DEF PadTypes
  <2>3. CASE controllers = "open"
    <3>1. PICK old : pendingGamepads' = QueueAll(pendingGamepads, there, old)
      BY <2>1, <2>3 DEF StreamStart, RegistersBuffered
    <3>2. buffered' = <<>>
      BY <2>3 DEF StreamStart, RegistersBuffered
    <3> QED  BY <2>2, <2>3, <3>1, <3>2, QueueAllIs DEF PadTypes, NotBoth
  <2>4. CASE controllers # "open"
    BY <2>1, <2>2, <2>4 DEF StreamStart, RegistersBuffered, PadTypes, NotBoth
  <2> QED  BY <2>3, <2>4
<1>4. PadTypes' /\ NotBoth' /\ OneIdEach'
  BY <1>1, <1>3 DEF PadTypes, NotBoth, OneIdEach
<1>5. heard' = ReachesHost(heard \cup Ids)
  BY DEF StreamStart, Announces
<1>6. ChannelHears' /\ FirstPeerHears'
  BY <1>1, <1>2, <1>5 DEF ChannelHears, FirstPeerHears, ReachesHost
<1>7. FirstPeer'
  BY <1>1, <1>3 DEF FirstPeer, PadTypes
<1> QED  BY <1>4, <1>6, <1>7

\* The host knows of exactly the pads that are registered as long as the page has its first
\* peer, whether its stream starts before or after its channel opens.
THEOREM FirstPeerHearsHolds == PagePadSpec => []FirstPeerHears
<1>1. PagePadInit => PadInv
  BY DEF PagePadInit, PadInv, PadTypes, OneIdEach, NotBoth, ChannelHears, FirstPeer,
         FirstPeerHears, Ids, Range, ToSet
<1>2. PadInv /\ [PagePadNext]_pagePadVars => PadInv'
  <2> SUFFICES ASSUME PadInv, [PagePadNext]_pagePadVars
               PROVE  PadInv'
    OBVIOUS
  <2>1. ASSUME NEW p \in Pads, PadConnects(p) \/ PadDisconnects(p)
        PROVE  PadInv'
    BY <2>1, PadConnectsKeeps, PadDisconnectsKeeps
  <2>2. CASE NewPeer
    BY <2>2 DEF NewPeer, PadInv, PadTypes, OneIdEach, NotBoth, ChannelHears, FirstPeer,
                FirstPeerHears, Ids
  <2>3. CASE ControllersOpen
    BY <2>3 DEF ControllersOpen, PadInv, PadTypes, OneIdEach, NotBoth, ChannelHears,
                FirstPeer, FirstPeerHears, Ids, Range
  <2>4. CASE StreamStart
    BY <2>4, StreamStartKeeps
  <2>5. ASSUME NEW alike \in SUBSET ToSet(pendingGamepads), NEW near \in BOOLEAN,
               Promotes(alike, near)
        PROVE  PadInv'
    BY <2>5, PromotesKeeps
  <2>6. CASE UNCHANGED pagePadVars
    BY <2>6 DEF pagePadVars, PadInv, PadTypes, OneIdEach, NotBoth, ChannelHears,
                FirstPeer, FirstPeerHears, Ids
  <2> QED  BY <2>1, <2>2, <2>3, <2>4, <2>5, <2>6 DEF PagePadNext
<1>3. PadInv => FirstPeerHears
  BY DEF PadInv
<1>4. QED  BY <1>1, <1>2, <1>3, PTL DEF PagePadSpec
=============================================================================
