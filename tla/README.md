# Moonlight Web: a verification of its concurrent core

TLA+ models of the parts of Moonlight Web (this fork's commit under `src/`) whose
correctness rests on the order in which tasks, locks, processes and messages act, and
of the algorithms its media pipeline is built from, with TLC configurations that check
small instances and TLAPS proofs of safety properties for every instance. Paths
below are relative to the repository; `MW` stands for `moonlight-web`.

Check a run with `tlc -workers 2 -config MCProcess_safe.cfg MCProcess.tla`, a
proof with `tlapm StreamerProofs.tla`. `PROJECT.json` lists the runs, a mutant for
every property (a plausible bug in a mapped definition that makes the property
fail), the source lines of every definition, the hazards and the findings.

## 1. The system

A browser page opens a WebSocket to the **web server** (`MW/web-server/src`), which
starts a **streamer** process (`MW/streamer/src`) for the host it asks for and
relays signaling between the two over stdin and stdout. The streamer opens a
Moonlight connection to Sunshine through `moonlight-common` (bindings of a C
library) and a WebRTC peer connection to the browser. Further browsers can attach
to the same stream to send input only. If there is no stream when an input-only
browser comes but the host runs a game, the server starts a placeholder stream.

    primary page ---WS---+                      +--IPC--- streamer --- Sunshine
                         +--- web server -------+            |
    input-only page -WS--+    host record, slot             | WebRTC
          ^------------------------------------- peers -----+

### Inventory

| Component | State it keeps | Operations | What is hard | Modules |
|---|---|---|---|---|
| **Stream lifecycle of a host** `MW/web-server/src/api/stream.rs`, `data.rs` | the watch slot `active_stream`, `stream_lifecycle`, `ActiveStream` (clients, next id), one router and maybe one supervisor per stream | primary connect, relay, end; input-only connect, attach, detach; placeholder start; stop and wait | two locks across requests, coalescing watch values, a ten-second give-up, hand-over of the slot between streams, processes that do not exit | `StreamLifecycle`, `HostStream` |
| **Streamer process** `MW/streamer/src/main.rs` | `stream`, `secondary_peers`, `ice_restart_attempted`, `terminate` | start of the stream, `stop()`, attach, detach, peer states | three callers of `stop()`, closes that do not return, notifications nobody waits for | `Streamer` |
| **Gamepad slots** `MW/streamer/src/input.rs` | `gamepad_slots`, `active_gamepads` | add, remove, state, release of a client | two locks in sequence, events sent after they are released | `GamepadSlots` |
| **Host records** `MW/web-server/src/data.rs`, `api/mod.rs` | slab of hosts, `file_writer` channel of capacity 1, `data.json` | list, get, apps, put, delete, pair, cancel; save; load | guards across requests, dropped signals, in-place writes, crash and restart | `HostRecord` |
| **Moonlight host client** `moonlight-common/src/high.rs`, `pair.rs` | cached server information, `tried_connect`, pairing | `host_info`, `clear_cache`, `pair`, `start_stream` | a cached failure, five phases that may each fail | `HostRecord` |
| **Moonlight connection library** `moonlight-common/src/stream/` | `connection_exists`, `connection_lock`, three global targets of callbacks | start, drop, calls of a stream | one connection per process, C threads that call back while it changes | `MoonlightConnection` |
| **IPC** `MW/common/src/ipc.rs` | two bounded channels, two pipes | send, write, receive | a partner that died, full channels, bad lines | `Ipc`, `FifoLink` |
| **Signaling and ICE** `streamer/src/main.rs`, `web/stream/index.ts` | signaling state of both peers, candidate queues, `ice_restart_attempted` | offer, answer, rollback, restart, candidates | failures while descriptions are on their way, candidates beside them | `Negotiation`, `InputClient` |
| **Video pipeline** `streamer/src/video*`, `sender.rs` | channel, pacing queue, token bucket, parity record, keyframe flag | submit, pace, write, drop; split, payload, parity | a callback thread that must not wait for ever, drops and failures beside parity, boundaries | `VideoSend`, `VideoKeyframe`, `AnnexB`, `RtpPayload`, `Ulpfec` |
| **Audio pipeline** `streamer/src/audio.rs` | channel of 50 samples, pages, notification | setup, decode, flush | a notification before the wait, a queue that drops | `AudioSend`, `FifoLink` |
| **Authentication** `api/auth.rs` | sessions, second-factor secret, pending secret, `sessions.json`, `config.json` | login, session check, set up, enable, delete | several locks and a file per operation, restarts | `Auth` |
| **Browser: WebSocket of a stream** `web/stream/index.ts` | `ws`, `wsAttempt`, `wsOpened`, `wsConnectTimeout`, `wsSendBuffer` | connect, open, close, timeouts, send | handlers not bound to a socket, retry after timeout and after close | `StreamSocket` |
| **Browser: input-only client** `web/stream/input_stream.ts` | the same with backoff; peer, description, serialized message queue | reconnect, createPeer, teardownPeer, close | teardown beside handlers that wait, streams that come and go | `InputClient` |
| **Browser: gamepads and touch** `web/stream/input.ts` | buffered, pending, registered pads; tracked fingers | connect, disconnect, promote, announce; start, move, end, cancel | a channel that is replaced, gestures that end finger by finger | `PageGamepads`, `TouchInput` |
| **Byte buffer** `streamer/src/buffer.rs`, `web/stream/buffer.ts` | bytes, position, limit | put, get, flip, reset | boundaries | - |
| **Browser: audio, video, pages** `web/` | ring buffer of the worklet, canvas, views | - | hand-over between threads; mostly timing and presentation | - |
| **Start-up, network protocol, bindings, packaging** | configuration | - | none worth a model | - |

What makes each component correct:

* lifecycle: one stream per host, a stream in the slot can answer, no process is
  left behind, replies reach the client they are for, whoever waits gets on;
* streamer: torn down once, no peer lost, one hanging peer blocks nobody, the server
  hears of the end when it is the end;
* gamepads: no shared controller, map and mask agree, own slot kept, slots come back;
* records: nothing unsaved, pairings are real, no request waits for ever;
* library: one native call at a time, callbacks on their own connection, free again;
* links: in order, none lost but the end, Stop handled whatever came before it;
* negotiation: every candidate arrives, a connection or the end of the stream;
* media: whole units out of whole frames, parity that repairs, a keyframe for whoever
  lost the picture, audio in order;
* sessions: what a browser was given survives a restart, the factor is one that was asked for;
* pages: bounded attempts, authentication first and once, the page streams or tells;
  the streamer has heard of the pads whose input it gets; a gesture leaves nothing behind.

## 2. Modules

| Module | Role |
|---|---|
| `HostStream` | abstract: a host has at most one stream, streams end for good, clients take up the current one |
| `StreamLifecycle`, `StreamLifecycleProofs`, `MCStreamLifecycle` | the tasks of `api/stream.rs`; implements `HostStream` |
| `Streamer`, `MCStreamer` | `stop()`, the start of the stream, input peers |
| `GamepadSlots`, `GamepadSlotsProofs`, `MCGamepadSlots` | `gamepad_slots` and `active_gamepads` |
| `MCProcess` | these two components of a streamer process, side by side |
| `HostRecord`, `HostRecordProofs`, `MCHostRecord` | record, cache, pairing, writer and file |
| `StreamSocket` | the WebSocket of a page with video |
| `InputClient`, `MCInputClient` | an input-only page, the server's task and the streamer's peer |
| `Negotiation` | signaling and ICE restarts of the page with video |
| `MoonlightConnection` | the one native connection of a process and its callbacks |
| `FifoLink` | abstract: what arrives is a prefix of what was sent |
| `Ipc` | both pipes between server and streamer; implements `FifoLink` in each direction |
| `AudioSend` | the audio queue and its task; implements `FifoLink` |
| `VideoSend`, `VideoKeyframe` | packets from the decoder callback to the wire; keyframe requests |
| `AnnexB`, `RtpPayload`, `Ulpfec` | splitting, packetizing and parity, against reference definitions |
| `Auth`, `AuthProofs` | sessions and the second factor, in memory and in files |
| `PageGamepads`, `MCPageGamepads`, `TouchInput` | the gamepads of a page; fingers that drive the mouse |
| `MCComponents` | the other components, which share no state, side by side |
| `StreamerProofs` | proofs about `Streamer` and `MoonlightConnection` |
| `LinkProofs` | proofs about the ways of data: `AudioSend`, `Ipc`, `VideoSend`, `AnnexB`, `RtpPayload`, `Ulpfec` |
| `PageProofs` | proofs about the page: `StreamSocket`, `InputClient`, `Negotiation`, `TouchInput`, `PageGamepads` |
| `DataLemmas` | induction and recursion on numbers, and sequences, for `LinkProofs` and `PageProofs` |

The modules are composed through what they assume of each other: `StreamLifecycle`
takes the streamer as a process that obeys Stop, may end, crash or hang
(`StreamerObeysStop`, `StreamerEnds`, `StreamerCrash`, nothing assumed of its exit).
`Streamer` shows that `stop()` ends the process if the main task waits by then, and by
its two findings where that interface is not kept. `GamepadSlots` takes the two calls of
`detach_input_peer` that `Streamer` produces. Both take the IPC as a link in order,
which `Ipc` implements, and `Streamer`'s IPC loop is the loop of `Ipc` that stops at
Stop. `InputClient` holds the page, the server's task and the answers of the streamer in
one module. `Negotiation` and `InputClient` take the WebSocket as such a link too.

In every module an action is one stretch of code between two awaits that can
interleave with others; a lock taken and released without an await in between is
not a step of its own; a lock that is held across one has a variable with its
holder. Mutated definitions (`\* Bug: ...`) stand before the definition they
mutate and are used by no specification.

### StreamLifecycle

`pc[c]` is the place of the task of connection `c` in `handle_primary` or
`handle_input_only`; `active` and `unseen` are the watch channel (`send_replace` marks it
unseen by every receiver, `changed()` returns when it is unseen, `borrow()` gives the
latest value only: values in between are lost); `router`, `sup`, `proc` are the two tasks
and the process of each stream; `clients`, `nextId` the map of replies. `lifecycle`
and `hostGuard` are the locks that are held across requests to Sunshine. A primary
checks the host, queues for the lifecycle lock, asks the stream in the slot to stop and
watches the slot until it is empty (or, with fault `stopTimeout`, goes on after ten
seconds), spawns, relays, and kills its process after a grace period. A router that
sees the end empties the slot (`RouterClear`) and then lets go of client 0
(`RouterClosePrimary`). `Faults` chooses among stop timeout, host deletion, streamer crash and
failed spawn. When the host is deleted, the receiver of an attached task fails at once
for ever while `borrow()` still gives the last stream, so that the task attaches and
detaches without end (`stream.rs:842`): the steps are in the model, no property
excludes the loop.

### Streamer

Three tasks call `stop()`: the IPC loop, the primary peer's state handler and the
failing start task. Each step of it is an action (`StopTakes` takes `stream` out
under its lock, `StopDrops`/`StopDropped` tear the connection down in a blocking task,
`StopDrains` takes the peers, `StopClosed` when all of them are closed, `StopTells`
sends Stop, `StopNotifies` notifies). Input peers are attached by the IPC loop and
detached by it or by their own handlers, and a detach reads the map a second time when
the close has returned; `peer.close()` need not return, which the code's own comment fears.
The primary peer can only fail or connect once the main task has set up the connection and
the server has given it a remote description (`Negotiates`): nobody closes it.

### GamepadSlots

A task is a handler of a client's `controllers` channel or a `detach_input_peer`.
`Add`, `Allocate` and `Remove`, `Release` are separate because `active_gamepads` is locked after
the map, and `start_stream` keeps it locked for reading meanwhile. Events leave after both are
released (`SendArrival`, `SendRemoval`, `InputCheck`, `InputSend`); what Sunshine makes
of them (`pads`) is external and nothing is claimed of it.
`streaming` is `connection.stream`, which `Streamer` follows in detail; its names differ
from `Streamer`'s so that `MCProcess` can extend both.

### HostRecord

`rec` is one record of the slab with its cached information and pairing;
`readers`, `queue` model tokio's fair `RwLock`; `hostLock` the mutex of the host.
`HostInfo` returns the outcomes of `host_info` (what is cached, a fetched value, a failure that
sets `tried_connect`). `PairPhase` is a phase of `host_pair`; the certificate is
taken over after the fifth. The writer takes a signal, waits for the hosts lock,
collects (`WriterSaves`), truncates and writes. A crash loses memory at any point;
a truncated file keeps the server from starting, as the code does.

Assumptions about the code's surroundings: `/unpair` ends only the pairing in
progress; the browser's closing of a pairing response drops the rest of it; a second
record is not followed (requests for other hosts only matter as lock traffic, which
the same request kinds produce); name and MAC address are left out.

### MoonlightConnection

`Starts` are the calls of `start_connection`, each of which is later its
`MoonlightStream`. `exists` is `connection_exists`, `guard` the holder of
`connection_lock`, `target` what the three globals point at, `running` and `busy` the
threads of the C library and the object they are inside of. A start locks for a moment to
claim the flag (`Claims`), converts four strings, sets the targets and calls the library;
a drop holds the lock across `LiStopConnection` until no thread is left (`ThreadJoined`, which
waits for callbacks that are running) and then clears everything. `BadStrings` are the starts
with a string that `CString` refuses: they return before the object that would reset the
flag exists, so that no later start of the process succeeds (`stream/mod.rs:155`).
`LibraryIsFreed` says that the library comes free again, unless that has happened.

### Ipc and FifoLink

Each direction has a bounded channel, a writer task that takes a message, skips one it
cannot serialize and returns on the first write that fails, a pipe, and a reader that
skips lines it cannot parse. The two loops that call `recv()` are included: the streamer's
answers a signal by sending in the other direction, and the server's router hands over to a
WebSocket session, so that "everyone waits for everyone" would be a behaviour of the
model. `IpcFaults` has the death of either process and a failed read. `ImplementsLink`
maps each direction to `FifoLink`; `StopIsHandled` says that a Stop that was sent is
reached unless a process died or a read of a pipe failed.

### Video: VideoSend, VideoKeyframe, AnnexB, RtpPayload, Ulpfec

`VideoSend` follows packets: the callback's blocking send into a channel of
`ChannelSize`, the select of `sample_sender` (receive, or wait for the bucket), the drop of what
is older than the queue's limit, the pause of a binding, the write that fails, and the
parity record. Time is whether the bucket has something. `CallbackGetsThrough`: the
native thread is not held for ever. `ParityCoversFrame`: every parity packet on the wire
names only packets of its frame, within the width of the mask, and every packet of an
unbroken frame with parity is named by one.

`VideoKeyframe` has the flag that a PLI sets and the callback takes, and the 300 ms
within which another request is swallowed. `KeyframeComes` needs a browser that repeats
its PLI, and a link that does not lose keyframes for ever (`MaxLosses`, strong fairness of a keyframe
getting through).

The other three are functions of the code as steps over bounded inputs, compared with what
they should compute: `FindsEveryUnit` (all frames of up to six bytes of {0, 1, 6} against the
definition of a start code; and all frames of up to ten that begin with one, the
shortest in which two units are kept), `SlicesArrive` (sequences of units of boundary lengths:
slices arrive whole and in order with the parameter sets in force, and only parameter sets may
exceed the MTU, which is below 2^16 so that an aggregate's lengths fit their two bytes), `OneLossIsRepaired` (groups of
three packets of all lengths up to two, across the wrap of sequence numbers: the mask names
the packets of the group, and what XOR gives is the missing packet). `MaxGroup` is at most 16, as
`generate_parity` asserts; lengths are below 2^16.

### AudioSend

The callback drops a sample when the queue is full; the task waits for the channel's
`notified()`, which `on_open` may give before, between looking and waiting, or later
(`LooksAtChannel`, `StartsWaiting`); batches leave on a tick or when they are large.

### Auth

A login checks, inserts its session under one lock and writes `sessions.json` under a
lock held across the write; a change of the second factor reads `config.json`, truncates and writes
it, sets memory and clears the pending secret, each a step of its own. The server may stop between
any two. Changes meet in any way: the handlers share no lock. `wanted` has what the changes that have met
ask for, `choices` what the second factor may be by then: that, and what was in use before them until
the last of them ends. `FactorIsAsked` says that memory and file never hold anything else, so that a
secret that is only being set up is never asked for, and the password alone opens nothing unless a
change asked for that. Memory and file need not agree: two changes at once leave the one with the
first outcome and the other with the second until the next start, or, when a shorter JSON is written
over a longer one, a file that is none (`mixed`) and keeps the server from starting.

### StreamSocket

A socket has the number of the attempt that made it; `this.ws` is therefore
`sock[attempt]`. `timers` are those that still run, `timer` is the handle in
`wsConnectTimeout`, which need not be one of them (the 30 s timer leaves its handle
behind). The order of timers, socket events and retries is free, since delays of 0 and
500 ms and network events are not ordered by the code; the browser's own rule is kept
that `close()` changes `readyState` at once and reports it later. Debug lines, which also
go through the send buffer, are left out.

### InputClient

The page handles one message after the other, and a handler waits for its peer
(`HandlesConfig`, `LocalSet`, `Gathered`, `RemoteSet`), while the close of the socket and the state
of the peer are handled beside it and tear the peer down. `cur` is `this.peer`,
`answer` the offer and the attachment of the answer it took. `strays` are connect timers whose
handle is lost. On the server's side `Looks`, `StreamFound`, `WaitsDrops`, `Relays` and
`StreamEnded` are `wait_for_active_stream` and `relay_ws_to_ipc_while_attached`.

Closes, failures and timers come at any time, under a handler that waits as well; the one rule of
the browser that is kept is that promise callbacks run before its next event (`Handled`). An
operation of a closed peer settles no promise: a handler whose peer has gone waits for ever, and the
queue of messages behind it (`input_stream.ts:133`), until the page is loaded again.
`hurried` is history: `"close"` when a peer was torn down under a handler that waits for it or before
messages that wait, `"message"` when a stream started before what was sent during the last one was
handled, `"task"` when it started before the server's task had looked. No action depends on it.
`AnswersAreOwn` holds whatever closes and fails, and needs that no stream has hurried past messages:
then an old peer's offer may be answered by the new one. `ReattachesUnhurried` says that the page is
connected or tells the user when nothing has hurried, whatever socket is refused, dropped or closed late by
the connect timer of another; without that premise it is `ReattachesOrTells`, finding 6. `FreshPeer`,
finding 5, allows the hurry of the server's task alone. A peer that fails while the stream goes on gets
no new configuration from the server and is outside the model.

### Negotiation

A round is an offer with its number and the answer to it: round 1 is the page's, the others
are restarts of the streamer. `pageSignaling`, `pageRound`, `saved` and `added` are the page's
state, one step for each handler, because it handles messages one by one and nothing else touches
its peer; `signalState`, `round`, `loopAt`, `stateAt`, `gathered`, `ice` the streamer's, where the IPC
loop, the handler of the peer's state and the candidates' callback interleave. `IceFails`
may come at any point after ICE has begun, `outages` bounds those that come when both sides agree.
A restart's offer that overtakes the first answer makes the page roll back its own.

### PageGamepads, TouchInput

A pad is buffered while there is no open channel, pending until a button tells it from
the mirror a Tesla shows of it, then registered under the lowest free id and announced;
a new peer brings a new channel that has heard of nothing (`NewPeer`). The stream starts when the
channel is open or before that (`StreamStart`), as an input-only page does. A page with video has one
peer (`index.ts:687`), and `FirstPeerHears` is about that; `PadsAreHeard`, about every peer, is
finding 7. `old` and
`near` are whether two pads came within `VIRTUAL_SUPPRESSION_MS`. `heard` is what the
channel has been told.

A touch's position is whether it is farther from its origin than a click allows, a time
whether it is past its threshold. `many` and `clicked` are history: fingers of one gesture,
and whether the last event pressed a button.

## 3. Runs

| Run | Question | Bounds |
|---|---|---|
| `lifecycle_faults` | every fault, two racing input-only clients: routed slot, keepers, replies | 2 streams, 2 connections, ids wrap at 2, 2 empty polls |
| `lifecycle_live` | one live stream, implements `HostStream`; a queued primary gets through, processes are reaped, idle placeholders end, clients let go | 2 streams, 2 connections, ids wrap at 1, 1 empty poll |
| `lifecycle_coalesced` | finding 1 | 2 streams |
| `process` | gamepads: sharing, kept slots, answered requests, released slots; streamer: one teardown, no lost peer, attach not blocked, process ends | 2 gamepads for 1 slot, 3 messages, two detaches of one client; 2 input clients, all three callers |
| `gamepads_leak` | finding 2 | 2 slots, 2 messages |
| `streamer_told` | finding 3 | 1 client |
| `streamer_wakeup` | finding 4 | 1 client |
| `host_store` | nothing unsaved, trusted pairings, requests answered | 2 requests at once of 3, 2 pairings, 1 crash |
| `input_fresh` | finding 5 | 2 streams, no refused sockets |
| `input_stall` | finding 6 | 1 stream, 1 dropped socket |
| `pads_heard` | finding 7 | 1 pad, 2 peers |
| `components` | the other components, each alone | below |

`components` looks at one component in a behaviour (`part`) and leaves the others in
their initial state, so that their interleavings do not multiply; it is fifteen
instances in one state graph of about 170,000 states. `process` does the same with two
components of 130,000 states:

| Part | Bounds | Properties |
|---|---|---|
| library | 3 starts, one with a bad string | `OneNativeCall`, `LibraryIsFreed` |
| ipc | 4 requests with a bad one before Stop, channel, pipe and session of 1, crash, read error | `ImplementsLink`, `StopIsHandled` |
| video | frames of 1 and 3 packets, channel 1, queue 2, groups of 2, masks of 3 bits, sequence numbers modulo 5, 1 pause | `ParityCoversFrame`, `CallbackGetsThrough` |
| keyframe | window of 3 ticks, 3 losses | `KeyframeComes` |
| audio | 4 samples, queue 2, eager flush at 2 | `AudioGetsOut` |
| annexb | frames of up to 6 bytes, and of up to 10 that begin with a start code, both readers | `FindsEveryUnit` |
| payload | 4 units, MTU 9, lengths at, below and above it, both codecs | `SlicesArrive` |
| ulpfec | groups of up to 3, payloads of up to 2 bytes | `OneLossIsRepaired` |
| logins | 2 logins, 1 task of changes, 2 secrets, 1 stop | `SessionsAreSaved`, `FactorIsAsked` |
| factor | 2 tasks of changes, 2 secrets, 1 stop | `FactorIsAsked` |
| negotiation | 2 outages, 2 candidates a round | `CandidatesArrive`, `ConnectsOrStops` |
| socket | 4 attempts | `ConnectsOrTells` |
| input | 2 tries, 1 refused or dropped socket, 2 streams | `AnswersAreOwn`, `ReattachesUnhurried` |
| pagePads | 3 pads of one vendor, one of them virtual, 3 plugs, 2 peers, 3 modes | `FirstPeerHears` |
| touch | 3 fingers, 1 change of the configuration | `ManyFingersNeverClick` |

Why the bounds suffice: what the lifecycle must get right is the hand-over from
one stream to the next, which two streams show (an old router beside a new slot, a
late kill beside a new process), and a third connection adds the contention on the
lock; ids wrap within the bound so that re-use is reached. One slot for two gamepads makes
every allocation contended and refused in turn; more slots only add free ones
(the proofs cover any number). Two requests are all the host's mutex and the hosts
lock can tell apart besides the writer, and a second pairing shows the retry after one
that failed. The fourth attempt of a page is the last one, after a close that was ignored, one that was
retried and one that came late; the page behaves in attempts 4 to 9 as in 3. Three starts of the
library are one that runs, one that is dropped and one that is refused or leaks. With
capacities of 1 every channel is full and empty in turn. Two outages are a restart that works and
one that is given up. The video numbers make a frame span two parity groups, sequence
numbers wrap inside a frame, and the queue overflow. Three fingers are the gesture with the most
fingers that the code tells apart. Two empty polls are the shortest count that starts anew when a
client comes. Ten bytes hold two kept units and the codes around them.
Two handlers of changes, each of which takes one request after another, overlap in every way two can.

Properties that are proved for every instance are not all run as well: type
correctness of each proved module, `PlaceholderFindsSlotEmpty`, `EmptySlotMeansNoStream`,
`MaskIsWhatIsHeld`, `PairingHasInfo`, `CallbacksOnOwnTarget`, `CallsReachOwnConnection`,
`AttemptsBounded`, `SuppressedCloseRetries`, `AuthOncePerSocket`, `AuthSentOnOpen`,
`AudioImplementsLink`.

`CHECK_DEADLOCK FALSE` is used where the system may stop: requests run out, a
streamer exits, a page has its stream. `StreamLifecycle` keeps the deadlock check;
its `Finished` step says when being at rest is right.

### Fairness

* Rust tasks that can go on do (weak fairness, one condition for each task). tokio's
  mutex and `RwLock` serve in order, which would justify strong fairness for the steps
  that take a lock; it is not assumed, because the connections and requests of a
  behaviour are bounded and a waiting task gets its turn when the others are through.
  Starvation by an endless supply of requests is therefore outside these runs.
* Requests to Sunshine have timeouts and end.
* `select!` takes a ready branch at random, so a closed WebSocket is noticed
  however busy the other branch is (fairness of its own for `InputWsClosed`).
* A streamer handles a Stop it received; its exit is not assumed. `peer.close()` need not
  return; `StopEndsWaiting` says so in its premise.
* A browser runs timers that are due, and its handlers go on. Nothing is assumed of
  networks, servers and users; a check of ICE ends, in failure if the sides do not agree.
* Strong fairness is assumed in two places. A thread of the C library is joined, although it may be
  inside a callback again and again (`ThreadJoined`: it looks for the end between two
  callbacks). And of keyframes that are sent again and again, one gets through.
* `MCComponents` states the conditions of its parts together: since a behaviour is of one
  part, the k-th action of each shares a condition (`PartTurn`), which says the same and
  keeps the number of conditions small.

## 4. Findings

Each is a run that TLC refutes; `PROJECT.json` quotes the sentence of the code it
contradicts.

1. `EndedStreamIsLeft`: the end of a stream followed at once by the next one looks
   like no change to an attached task that is scheduled late, since the watch channel
   coalesces `None` with what follows it. The client stays with the dead stream.
2. `DetachedHoldsNothing`: a handler that is allocating when its client is
   detached leaves a slot in use for the rest of the stream.
3. `ToldWhenDown`: a second caller of `stop()`, or one that comes while
   the stream starts, tells the server Stop while a Moonlight connection is up.
4. `StopEndsProcess`: a `stop()` that ends before the main task waits notifies nobody. In the trace
   the server's Stop is handled while the stream is being started.
5. `FreshPeer`: an input-only page whose host has its next stream before the server's task looks is
   attached without `WaitingForStream`, ignores the new `WebRtcConfig` because it has
   the old peer, and is never connected.
6. `ReattachesOrTells`: a socket that closes while a handler waits for `setLocalDescription` or
   `setRemoteDescription` leaves the queue of messages stuck. The page reconnects, is attached
   again, and never handles the new `WebRtcConfig`.
7. `PadsAreHeard`: a later peer of an input-only page is connected before its channel is open, and the
   announcement of the registered pads is dropped (`input_stream.ts:231`). The host gets input of
   pads it never heard of.

Seen while modelling, without a run of their own:

* **Sockets.** If a browser reports the close of a socket that timed out after the page made the
  next one, `onWsClose` clears the new socket's timeout and starts a third. The second
  one's open event then sends the waiting authentication through a socket that is still
  connecting, where it is lost. `AuthSentOnOpen` is proved for browsers that report in
  order (`~stale`); the other properties of `StreamSocket` hold for late reports too.
* **Touch.** In "pointAndDrag", after a scroll of two fingers of which the second is lifted, the first
  one drags with the left button down, and its end is suppressed as part of the gesture: LEFT stays
  pressed on the host (`input.ts:593`, 652). TLC refutes `LiftedHandHoldsNothing` with two fingers and no change
  of configuration. A third finger during a drag and `setConfig` during a drag leave it pressed
  too. Four fingers put down at once count as no gesture of several fingers, and click. A touch that
  ends far from its origin presses LEFT a second time before it releases it. In "touch" mode an end
  outside the picture is not sent.
* **Gamepads of a page.** When an input-only page's first peer starts the stream before its channel is
  open, buffered pads are buffered again, and nothing calls for them later. The same may happen to
  a page with video whose `ConnectionComplete` comes first. Announcements at a later peer are finding 7.
  Of two pads pressed alike in one poll the other is discarded until it is plugged in
  again; re-keying after the browser has reshuffled indices may overwrite another pad's entry; the first
  state on a fresh controller channel is dropped; `previousStates` survives a new peer, so that a
  pad whose state does not change stays silent on it.
* **Negotiation.** Candidates that leave ahead of the offer of a restart belong to no
  round the page knows and are lost (`main.rs:809`); `CandidatesArrive` excepts them.
* **Library.** A string with a NUL byte makes every later connection of the process fail
  (`stream/mod.rs:155`).
* **Second factor.** Two changes at once leave `config.json` and memory apart, or no JSON in the file
  (`auth.rs:371`, 417), after which the server does not start.
* **Host client.** One failed request makes `host_info` fail for later ones, unasked, until the cache
  is cleared (`high.rs:128`), contrary to the comment at `high.rs:140-144`.
* **Late router.** After a stop timeout the router of the old stream empties the slot of the new one
  (`stream.rs:413`): `EmptySlotMeansNoStream` fails then, and is proved for the rest (`EmptySlot`).
* **Buffers.** `stream.ts:1328-1329` sends a key through the shared buffer without resetting it first.

## 5. Proofs

All theorems are of the form `Spec => []Inv` or `Spec => [][A]_vars` or a
refinement, for every value of the constants that meets the module's named
assumptions (disjoint sets, natural numbers, a model value that is none of the others).

* **StreamLifecycleProofs.** `TypeCorrect` proves types with `PollsInv`, `FreshInv`
  (streams not yet spawned have nothing) and `OnInv` (a task that uses its stream
  has one), without which `on[c]` and `polls` leave their types. `LockSafe`: a task between
  its second look at the slot and the spawn holds the lifecycle lock; from it follow
  `PlaceholderSlotSafe`, `SlotRouted` and `StreamersKept` whatever fails. `EmptySlot` and
  `OneLive` assume that the environment has no `stopTimeout`: they need
  `SpawnerInv` (a task about to spawn sees no routed stream), which the time-out
  breaks. `Refinement` also excludes host deletion, after which the slot is not emptied: every step
  maps to a step of `HostStream` or a stutter, with `IdleInv` for the clients.
* **GamepadSlotsProofs.** `MaskInv` is `MaskIsWhatIsHeld` made inductive: the mask
  holds the slots of the map *and* the one being released by the task that holds the
  lock; `LockInv` says that there is one such task. `OwnInv` (tasks work on their own
  client's gamepads) gives `SlotStays`.
* **StreamerProofs.** `TakenInv` follows the stream from the start task through
  `connection.stream` into the hands of the one `stop()` that took it; `ClosingInv`
  says where peers are being closed.
* **HostRecordProofs.** `SavedInv` strengthens `NothingUnsaved` by what the
  writer is about to write even when the file happens to agree; `HoldInv` says which locks a
  request holds where, which is why the cache survives a pairing (`PairingKeepsInfo`).
* **StreamerProofs, second part (library).** `connection_lock` is released while a start is on its
  way, so it is `HolderInv` that keeps native calls apart: whoever is between the
  claim and the clearing is the only one, and `exists` is set while there is one.
  `ThreadInv` (threads run only while their connection is in the hands of the library) and
  `BusyInv` (an object in use is the target, and its thread runs) give
  `CallbacksKeepTarget`; `CallsReach` follows from `HolderInv` alone.
* **AuthProofs.** `WriterInv` (what a login is about to write has every session that was
  inserted before) and `InsertedInv` give `SessionsKept`. `ChangeInv` and `FactorInv` follow
  what the changes at work ask for, and `FactorKept` (`FactorIsAsked`) holds for any number of them at
  once.
* **LinkProofs.**
  Audio: `QueueInv`: delivered, outgoing, pages and channel put together
  are what was accepted, in order. With it every step of the task is a `Deliver` of `FifoLink` or a
  stutter (`AudioIsALink`).
  IPC: `TransitInv` says that the pipe, the message in the writer's hands and the channel, put
  together and without what cannot be parsed, are the next of what was handed over, up to the last
  unless the writer has returned; skipped lines make this a matching of positions (`Holds`).
  `IpcIsALink` maps every step to one of `FifoLink`'s, in both directions.
  Video: `VideoInv` puts the pacing queue, the channel and the callback's rest into one row of packets
  (`Way`) in which a frame is contiguous and its marker comes last, the record (`pending`) in
  front of it with consecutive numbers, and every packet written without a failure in its
  frame in one of three places: recorded, covered, or of a frame that ended without parity.
  The groups of a record are shown to partition it and to fit the mask (`GroupsCover`).
  Splitter: `UnitsSoFar` says that the offset is in no start code and that the units up to it
  have been returned. `SearchFinds` shows the recursive search equal to a closed form (`Found`:
  the first mark, and the zero in front of it unless it comes before the start of the search)
  by downward induction.
  Parity: `FecInv` adds that the numbers are consecutive. A sequence's XOR (`XorAll`) is the XOR of the
  sequence without one element and that element (`XorWithout`, by induction over the place), so
  every field and every padded byte comes back (`FieldsAreBack`, `PayloadIsBack`), and a
  packet's place is its bit in the mask on both sides of the wrap (`BitIsPlace`).
  Payloads: `PayloadInv` says that between two calls nothing is half received, and that the parameter
  sets a decoder has, overlaid with those held back, are the ones in force at the encoder (`Agree`).
  `FragmentsArrive` is an induction over the fragments of one unit: after n of them it is there
  up to n times the size of a fragment, and the last one ends at its length (`FewestPieces`:
  the last fragment is neither empty nor too long). `GroupArrives` and `GroupSeen` say that an
  aggregate and single payloads leave the same sets. What one more payload does to the
  receiver, and one more unit to the decoder (`ReassembledStep`, `DecodedStep`), comes from
  `FoldGoes`. Nothing is assumed of the lengths but that a unit has its header.
* **PageProofs.**
  Sockets: `RetryInv`: an attempt never waits beside a connect
  timeout. `AuthInv`: the authentication waits at most once, for a socket that was never open.
  `OrderInv`: without late reports old sockets are done with.
  Input-only page: `OneOffer` says that one offer or answer is under way at most, of the peer made
  last; `OfferStands` that meanwhile no handler waits and that peer is still offering, or the stream is
  over; `WaitingLast` that the page is told to wait only when there is no stream, with nothing behind
  it; `OwnAnswers` that a handler works on the answer to its own peer's offer. They are kept as long
  as no stream hurries past messages, and `hurried` only grows (`HurriedGrows`); `AnswersAreOwnHolds` assumes nothing of the constants, of sockets, peers or timers.
  Negotiation: `CandidatesKept` says where a candidate is that was not early (saved, added, or in
  the mail behind its offer), `RestartsInOrder` that offers are answered in the order of
  their rounds. No assumption on the constants.
  Touches: `GestureSuppresses`: as long as a finger of such a gesture is tracked, the click is suppressed.
  Gamepads: `FirstPeer` says that nothing gets past the buffer before the first channel is
  open; with `OneIdEach` and `NotBoth` it gives `FirstPeerHearsHolds`, whenever the stream starts.
  `ThoseAre` and `QueueAllIs`
  say what the two recursive loops return.
* **StreamLifecycleProofs, last part.** `ClientsReached`: `Counted` says that the ids a stream has given
  out are the numbers up to some n, that each maps back to its client until it is detached, and
  that WebSockets have been opened for them and for all connections that may still take one. It assumes
  `MaxConnects <= MaxClientId`: ids are not used up. The code re-uses them after 2^32 clients of
  one stream; an id that is still in use then is outside theorem and run.
* **DataLemmas.** A set of naturals has a least element, from which follow induction over the
  numbers up to n in terms of a set (`SetInduction`) and that a recursive function exists
  (`Recursion`). This replaces the induction theorems of the library that take an operator as a
  parameter. `FoldExists` and `FoldGoes` say the same of a function that takes a step for each
  element of a sequence.

Only model-checked: all liveness properties (`PrimaryGetsThrough`,
`PrimaryStreamerReaped`, `IdlePlaceholderEnds`, `DetachWhenOver`, `MessagesAnswered`,
`DetachReleases`, `AttachNotBlocked`, `StopEndsWaiting`, `RequestsAnswered`,
`ConnectsOrTells`, `ReattachesUnhurried`, `LibraryIsFreed`, `StopIsHandled`, `CallbackGetsThrough`,
`KeyframeComes`, `AudioGetsOut`, `ConnectsOrStops`), since the prover handles neither fairness nor
`ENABLED`. Every invariant and every action property of a passing run is proved.

## 6. Not modelled, and hazards without a property

`PROJECT.json` lists every component that is not modelled with the reason, and 40
hazards. Those without a property name why. Not in that list, being smaller or of the same
kinds: events for one controller slot overtake each other after the locks are
released (`input.rs:469`); when the server dies, the IPC loop ends without `stop()` and the streamer
goes on until its primary peer fails (`main.rs:565`); before Init the end of the input is
skipped like a bad line, and the loop spins (`main.rs:126`); the count of input clients is
read under the lock and sent after other awaits (`main.rs:918`); `connection.rs` spawns
unordered sends of status messages; the page's peer ignores the configuration of a second
session (`index.ts:687`).

Left out on purpose: the byte buffers and key tables, whose content no property tells apart;
canvas, freeze watch and statistics, which are heuristics on measured times; the Opus decoder and
the bindings, which are foreign code; pages and dialogs; single requests of Sunshine's
protocol, which are outcomes where they are used; start-up, certificates, tray and
packaging.

## 7. Plan

In this order:

1. **Composition**: `Streamer` with `StreamLifecycle`, so that "obeys Stop" is shown and not
   assumed, on one stream and one client.
2. **Touch**: pressed buttons and keys over a loss of focus, with `LiftedHandHoldsNothing` as a run.
3. **AudioRing** (`audio_playback_worklet.js`, `audio_decode_worker.ts`): the ring's two positions and its
   overflow.
4. **ByteBuffer**: positions and limits of both implementations of one format.
5. `start_stream` of `high.rs`: launch or resume beside a host's cached state.
