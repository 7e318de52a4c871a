----------------------------- MODULE VideoSend -----------------------------
(***************************************************************************)
(* The way of a video packet from the decoder callback of the Moonlight    *)
(* library to the wire (streamer/src/video.rs, sender.rs): the callback    *)
(* thread puts the packets of a frame into a bounded channel, the task     *)
(* sample_sender moves them to a queue, paces them and writes them, and    *)
(* with forward error correction adds parity packets after each frame.     *)
(* Time is a bucket that is empty or not; bytes are left out.              *)
(***************************************************************************)
EXTENDS Naturals, Sequences, FiniteSets

CONSTANTS
    FrameSizes,     \* the most packets each frame of the host can have
    ChannelSize,    \* video_sample_queue_size
    PaceQueueMax,   \* PACE_QUEUE_MAX (4096)
    GroupSize,      \* MAX_GROUP_SIZE (10)
    MaskBits,       \* packets a parity mask can name (16)
    SeqModulus,     \* sequence numbers (2^16)
    MaxPauses       \* times the peer's binding is paused

ASSUME VideoAssumption ==
    /\ FrameSizes \in Seq(Nat)
    /\ {ChannelSize, PaceQueueMax, GroupSize,
        MaskBits, SeqModulus, MaxPauses} \subseteq Nat \ {0}
    /\ GroupSize <= MaskBits /\ MaskBits <= SeqModulus

MaxFrames == Len(FrameSizes)

VARIABLES
    track,      \* what setup has attached: "none", "plain", "fec", "unresolved", "failed"
    frame,      \* number of the frame being sent, its RTP timestamp
    todo,       \* packets of the frame the callback has not handed over
    channel,    \* between the callback and sample_sender
    queue,      \* sample_sender's own queue
    bucket,     \* the token bucket has something left
    sender,     \* sample_sender: "none", "recv", "wait", "write", "ended"
    dropped,    \* the decoder, and with it the Sender, is gone
    paused,     \* all_binding_paused
    pauses,
    seq,        \* sequence_number
    pending,    \* UlpfecGenerator::packets
    wire,       \* what was written, in order
    broken      \* frames with a packet that could not be written

frameVars == <<frame, todo>>
paceVars  == <<channel, queue, bucket, sender, dropped>>
rtpVars   == <<track, paused, pauses, seq, pending, wire, broken>>
videoVars == <<frameVars, paceVars, rtpVars>>

Packet == [ts : 1..MaxFrames, marker : BOOLEAN]

VideoTypeOK ==
    /\ track \in {"none", "plain", "fec", "unresolved", "failed"}
    /\ frame \in 0..MaxFrames
    /\ {todo, channel, queue} \subseteq Seq(Packet)
    /\ Len(channel) <= ChannelSize
    /\ sender \in {"none", "recv", "wait", "write", "ended"}
    /\ {bucket, dropped, paused} \subseteq BOOLEAN
    /\ pauses \in 0..MaxPauses
    /\ seq \in 0..(SeqModulus - 1)
    /\ pending \in Seq([seq : 0..(SeqModulus - 1), ts : 1..MaxFrames])
    /\ broken \subseteq 1..MaxFrames

VideoInit ==
    /\ track = "none"
    /\ frame = 0 /\ todo = <<>>
    /\ channel = <<>> /\ queue = <<>> /\ bucket = TRUE
    /\ sender = "none" /\ dropped = FALSE
    /\ paused = FALSE /\ pauses = 0
    /\ seq = 0 /\ pending = <<>> /\ wire = <<>> /\ broken = {}

-----------------------------------------------------------------------------
(* The callbacks: setup, submit_decode_unit, and the end of the decoder *)

\* create_track spawns the task before the peer may refuse the track, replace_track after.
CreateTrack(attached)  == "recv"
ReplaceTrack(attached) == IF attached THEN "recv" ELSE "none"

\* Whether forward error correction is used: it is wanted, the stream is H264, there is a
\* transceiver to put the track on, and the offer has red and ulpfec.  The payload types
\* are not known yet.
Setup(supported, attached, fecWanted, h264, preSender, offered) ==
    /\ track = "none" /\ ~dropped
    /\ track' = IF ~supported \/ ~attached THEN "failed"
                ELSE IF fecWanted /\ h264 /\ preSender /\ offered THEN "unresolved"
                ELSE "plain"
    /\ sender' = IF ~supported THEN "none"
                 ELSE IF preSender THEN ReplaceTrack(attached) ELSE CreateTrack(attached)
    /\ dropped' = (track' = "failed")
    /\ UNCHANGED <<frameVars, channel, queue, bucket, paused, pauses, seq,
                   pending, wire, broken>>

\* The packets of a frame; only the last one can carry the marker, and no packet does
\* when the last NAL gives none (it was dropped, held back, or failed to packetize).
Packets(ts, n, ends) == [i \in 1..n |-> [ts |-> ts, marker |-> ends /\ i = n]]

\* A frame is known by its number: its RTP timestamp is of its time, and taken as another
\* one for every frame.
SubmitDecodeUnit ==
    /\ track \notin {"none", "failed"} /\ ~dropped /\ todo = <<>> /\ frame < MaxFrames
    /\ frame' = frame + 1
    /\ \E n \in 0..FrameSizes[frame + 1], ends \in BOOLEAN : todo' = Packets(frame + 1, n, ends)
    /\ UNCHANGED <<paceVars, rtpVars>>

\* blocking_send: the callback thread waits while the channel is full.
BlockingSend ==
    /\ todo # <<>>
    /\ \/ /\ sender # "ended" /\ Len(channel) < ChannelSize
          /\ channel' = Append(channel, Head(todo))
       \/ sender = "ended" /\ UNCHANGED channel
    /\ todo' = Tail(todo)
    /\ UNCHANGED <<frame, queue, bucket, sender, dropped, rtpVars>>

\* The decoder is dropped by the library's end; its Sender goes with it.
DropDecoder ==
    /\ todo = <<>> /\ ~dropped
    /\ dropped' = TRUE
    /\ UNCHANGED <<frameVars, channel, queue, bucket, sender, rtpVars>>

-----------------------------------------------------------------------------
(* sample_sender *)

Disconnected == dropped /\ channel = <<>>

\* The top of the loop: everything in the channel is moved, too long a queue is thrown
\* away, and if something is left and the bucket has been refilled by now, it is written.
Drain ==
    /\ sender = "recv" /\ queue \o channel # <<>>
    /\ channel' = <<>>
    /\ \/ /\ Len(queue \o channel) > PaceQueueMax
          /\ queue' = <<>> /\ UNCHANGED <<bucket, sender>>
       \/ /\ Len(queue \o channel) <= PaceQueueMax
          /\ queue' = queue \o channel
          /\ bucket' \in {bucket, TRUE}
          /\ sender' = IF bucket' THEN "write" ELSE "wait"
    /\ UNCHANGED <<frameVars, dropped, rtpVars>>

SenderEnds ==
    /\ sender = "recv" /\ Disconnected /\ queue = <<>>
    /\ sender' = "ended"
    /\ UNCHANGED <<frameVars, channel, queue, bucket, dropped, rtpVars>>

\* Bug: only the sleep is awaited.
WaitSleepsOnly == FALSE /\ UNCHANGED videoVars

\* While it waits, it goes on receiving.
WaitReceives ==
    /\ sender = "wait" /\ channel # <<>>
    /\ queue' = Append(queue, Head(channel))
    /\ channel' = Tail(channel)
    /\ UNCHANGED <<frameVars, bucket, sender, dropped, rtpVars>>

WaitOver ==
    /\ sender = "wait"
    /\ bucket' = TRUE
    /\ sender' = "recv"
    /\ UNCHANGED <<frameVars, channel, queue, dropped, rtpVars>>

-----------------------------------------------------------------------------
(* write_with_extensions, write_with_fec *)

\* Bug: packets of the frame before stay recorded.
RecordedAll(p) == Append(pending, [seq |-> seq, ts |-> p.ts])

\* The recorded packets, without those of a frame that never saw its marker.
Recorded(p) ==
    LET old == IF pending # <<>> /\ pending[1].ts # p.ts THEN <<>> ELSE pending
    IN  Append(old, [seq |-> seq, ts |-> p.ts])

\* Bug: a frame's last, short group has no parity.
GroupsFullOnly(rec) ==
    [g \in 1..(Len(rec) \div GroupSize) |->
        {rec[i] : i \in {j \in 1..Len(rec) : (j - 1) \div GroupSize = g - 1}}]

\* finish_frame: groups of up to GroupSize, each with the numbers its mask names.
Groups(rec) ==
    [g \in 1..((Len(rec) + GroupSize - 1) \div GroupSize) |->
        {rec[i] : i \in {j \in 1..Len(rec) : (j - 1) \div GroupSize = g - 1}}]

Media(p)          == [kind |-> "media", seq |-> seq, ts |-> p.ts, covers |-> {}]
Parity(p, n, grp) == [kind |-> "parity", seq |-> n, ts |-> p.ts, covers |-> grp]

\* The packet that ends a frame and k of its parities are written; the write of the next
\* one fails and skips the rest.
WriteParities(p, rec, k) ==
    LET groups == Groups(rec)
        all    == k = Len(groups)
    IN  /\ wire' = Append(wire, Media(p)) \o
              [g \in 1..k |-> Parity(p, (seq + g) % SeqModulus, groups[g])]
        /\ seq' = (seq + 1 + k + (IF all THEN 0 ELSE 1)) % SeqModulus
        /\ broken' = IF all THEN broken ELSE broken \cup {p.ts}
        /\ pending' = <<>>

\* FecRuntime::resolve looks the payload types up for every packet, until the negotiated
\* parameters have both.
Resolves ==
    /\ track = "unresolved" /\ track' = "fec"
    /\ UNCHANGED <<frameVars, paceVars, paused, pauses, seq, pending, wire, broken>>

\* A paused binding and an unresolved payload type use up no sequence number.
Skip(p) ==
    /\ paused \/ track = "unresolved"
    /\ UNCHANGED <<seq, pending, wire, broken>>

\* A media packet whose write fails has used its number, and has been recorded.
Fails(p) ==
    /\ ~paused /\ track \in {"plain", "fec"}
    /\ seq' = (seq + 1) % SeqModulus
    /\ pending' = IF track = "fec" THEN Recorded(p) ELSE pending
    /\ broken' = broken \cup {p.ts}
    /\ UNCHANGED wire

Succeeds(p) ==
    /\ ~paused /\ track \in {"plain", "fec"} /\ ~(track = "fec" /\ p.marker)
    /\ seq' = (seq + 1) % SeqModulus
    /\ pending' = IF track = "fec" THEN Recorded(p) ELSE pending
    /\ wire' = Append(wire, Media(p))
    /\ UNCHANGED broken

EndsFrame(p) ==
    /\ ~paused /\ track = "fec" /\ p.marker
    /\ \E k \in 0..Len(Groups(Recorded(p))) : WriteParities(p, Recorded(p), k)

Write ==
    /\ sender = "write" /\ queue # <<>>
    /\ LET p == Head(queue) IN Skip(p) \/ Fails(p) \/ Succeeds(p) \/ EndsFrame(p)
    /\ queue' = Tail(queue)
    /\ bucket' \in BOOLEAN
    /\ sender' = IF Len(queue) > 1 /\ bucket' THEN "write" ELSE "recv"
    /\ UNCHANGED <<frameVars, channel, dropped, track, paused, pauses>>

\* The browser or a renegotiation pauses the binding of the track, and resumes it.
Pause ==
    /\ paused \/ pauses < MaxPauses
    /\ paused' = ~paused
    /\ pauses' = IF paused THEN pauses ELSE pauses + 1
    /\ UNCHANGED <<frameVars, paceVars, track, seq, pending, wire, broken>>

-----------------------------------------------------------------------------

Setups == \E supported, attached, fecWanted, h264, preSender, offered \in BOOLEAN :
             Setup(supported, attached, fecWanted, h264, preSender, offered)
SenderStep == Drain \/ SenderEnds \/ WaitReceives \/ Write

VideoNext ==
    \/ Setups \/ SubmitDecodeUnit \/ BlockingSend \/ DropDecoder
    \/ Drain \/ SenderEnds \/ WaitReceives \/ WaitOver \/ Write
    \/ Resolves \/ Pause

VideoSpec == VideoInit /\ [][VideoNext]_videoVars

\* The task and the callback go on.  Nothing is assumed of the refill (WaitOver): the
\* callback thread must not depend on it.
VideoFairness == WF_videoVars(BlockingSend) /\ WF_videoVars(SenderStep)

VideoFairSpec == VideoSpec /\ VideoFairness

-----------------------------------------------------------------------------
(* Properties *)

Number(m)      == [seq |-> m.seq, ts |-> m.ts]
Distance(a, b) == (b.seq + SeqModulus - a.seq) % SeqModulus

\* Every parity packet repairs packets of its own frame that its mask can name; and if a
\* frame has parity and all its writes went well, every packet of it on the wire is
\* covered, so that a single loss can be repaired whatever was paused, failed or never
\* finished before it (sender.rs:452-459, fec.rs:103-105).
ParityCoversFrame ==
    \A i \in DOMAIN wire : wire[i].kind = "parity" =>
        /\ Cardinality(wire[i].covers) \in 1..GroupSize
        /\ \E first \in wire[i].covers : \A m \in wire[i].covers :
              m.ts = wire[i].ts /\ Distance(first, m) < MaskBits
        /\ wire[i].ts \notin broken =>
              \A j \in DOMAIN wire :
                  wire[j].kind = "media" /\ wire[j].ts = wire[i].ts =>
                     \E k \in DOMAIN wire :
                        wire[k].kind = "parity" /\ Number(wire[j]) \in wire[k].covers

\* The callback thread of the library gets rid of a frame even if the pacer is out of
\* budget and stays so (sender.rs:222-236).
CallbackGetsThrough == (todo # <<>>) ~> (todo = <<>>)
=============================================================================
