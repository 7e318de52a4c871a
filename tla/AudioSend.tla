----------------------------- MODULE AudioSend -----------------------------
(***************************************************************************)
(* The audio of a stream on its way to the browser (streamer/src/audio.rs):*)
(* the callback thread puts Opus samples into a bounded channel and never  *)
(* waits; the task that setup spawns waits for the data channel to open,   *)
(* sends the Ogg headers, and then whole batches of pages.  The data       *)
(* channel is external; on_open is set up in main.rs.                      *)
(***************************************************************************)
EXTENDS Naturals, Sequences

CONSTANTS
    MaxSamples,     \* samples the host sends
    AudioQueue,     \* samples the channel holds (50)
    EagerFlush      \* samples that are 16 KiB of pages

ASSUME AudioAssumption == MaxSamples \in Nat /\ {AudioQueue, EagerFlush} \subseteq Nat \ {0}

Header == 0     \* the two header pages; samples are numbered from 1

VARIABLES
    dataChannel,    \* "connecting", "open", "closed"
    notified,       \* channel_open: "no", "permit", or "due": on_open is yet to run
    task,           \* "none", "spawned", "looked", "waits", "headers", "selects", "sends",
                    \* "ended"
    arrived,        \* samples the callback has been given
    accepted,       \* those that found room
    samples,        \* the channel
    pages,          \* the Ogg writer's buffer
    outgoing,       \* the batch channel.send() is busy with
    delivered,      \* what the data channel has taken, in order
    released        \* the decoder, and with it the Sender, is gone

audioVars == <<dataChannel, notified, task, arrived, accepted, samples, pages,
               outgoing, delivered, released>>

Pieces == Header..MaxSamples

AudioTypeOK ==
    /\ dataChannel \in {"connecting", "open", "closed"}
    /\ notified \in {"no", "due", "permit"}
    /\ task \in {"none", "spawned", "looked", "waits", "headers", "selects", "sends", "ended"}
    /\ arrived \in 0..MaxSamples
    /\ {accepted, samples, pages, outgoing, delivered} \subseteq Seq(Pieces)
    /\ Len(samples) <= AudioQueue /\ Len(pages) < EagerFlush
    /\ released \in BOOLEAN

AudioInit ==
    /\ dataChannel = "connecting" /\ notified = "no" /\ task = "none"
    /\ arrived = 0 /\ accepted = <<>> /\ samples = <<>>
    /\ pages = <<>> /\ outgoing = <<>> /\ delivered = <<>>
    /\ released = FALSE

-----------------------------------------------------------------------------
(* The data channel *)

\* The state is Open before the handler runs.
ChannelOpens ==
    /\ dataChannel = "connecting"
    /\ dataChannel' = "open" /\ notified' = "due"
    /\ UNCHANGED <<task, arrived, accepted, samples, pages, outgoing, delivered, released>>

\* Bug: notify_waiters, which nobody hears who is not waiting yet.
OnOpenWaiters ==
    /\ notified = "due"
    /\ notified' = IF task = "waits" THEN "permit" ELSE "no"
    /\ UNCHANGED <<dataChannel, task, arrived, accepted, samples, pages, outgoing,
                   delivered, released>>

\* on_open: notify_one leaves a permit.
OnOpen ==
    /\ notified = "due"
    /\ notified' = "permit"
    /\ UNCHANGED <<dataChannel, task, arrived, accepted, samples, pages, outgoing,
                   delivered, released>>

ChannelCloses ==
    /\ dataChannel = "open"
    /\ dataChannel' = "closed"
    /\ UNCHANGED <<notified, task, arrived, accepted, samples, pages, outgoing,
                   delivered, released>>

-----------------------------------------------------------------------------
(* The callbacks *)

AudioSetup ==
    /\ task = "none" /\ ~released
    /\ task' = "spawned"
    /\ UNCHANGED <<dataChannel, notified, arrived, accepted, samples, pages, outgoing,
                   delivered, released>>

\* try_send: what finds no room is dropped.
DecodeAndPlaySample ==
    /\ task # "none" /\ ~released /\ arrived < MaxSamples
    /\ arrived' = arrived + 1
    /\ IF Len(samples) < AudioQueue
       THEN /\ samples' = Append(samples, arrived')
            /\ accepted' = Append(accepted, arrived')
       ELSE UNCHANGED <<samples, accepted>>
    /\ UNCHANGED <<dataChannel, notified, task, pages, outgoing, delivered, released>>

ReleaseDecoder ==
    /\ ~released
    /\ released' = TRUE
    /\ UNCHANGED <<dataChannel, notified, task, arrived, accepted, samples, pages,
                   outgoing, delivered>>

-----------------------------------------------------------------------------
(* The task *)

LooksAtChannel ==
    /\ task = "spawned"
    /\ task' = IF dataChannel = "open" THEN "headers" ELSE "looked"
    /\ UNCHANGED <<dataChannel, notified, arrived, accepted, samples, pages, outgoing,
                   delivered, released>>

\* channel_open.notified()
StartsWaiting ==
    /\ task = "looked"
    /\ task' = "waits"
    /\ UNCHANGED <<dataChannel, notified, arrived, accepted, samples, pages, outgoing,
                   delivered, released>>

Woken ==
    /\ task = "waits" /\ notified = "permit"
    /\ notified' = "no" /\ task' = "headers"
    /\ UNCHANGED <<dataChannel, arrived, accepted, samples, pages, outgoing, delivered,
                   released>>

Flush(batch) ==
    /\ outgoing' = batch /\ pages' = <<>>
    /\ task' = "sends"

SendHeaders ==
    /\ task = "headers"
    /\ Flush(<<Header>>)
    /\ UNCHANGED <<dataChannel, notified, arrived, accepted, samples, delivered, released>>

\* send() is over, and has failed if the channel is closed, which is only logged.
SendReturns ==
    /\ task = "sends"
    /\ task' = "selects"
    /\ delivered' = IF dataChannel = "open" THEN delivered \o outgoing ELSE delivered
    /\ outgoing' = <<>>
    /\ UNCHANGED <<dataChannel, notified, arrived, accepted, samples, pages, released>>

\* Every 20 ms.
IntervalTick ==
    /\ task = "selects" /\ pages # <<>>
    /\ Flush(pages)
    /\ UNCHANGED <<dataChannel, notified, arrived, accepted, samples, delivered, released>>

ReceiveSample ==
    /\ task = "selects" /\ samples # <<>>
    /\ samples' = Tail(samples)
    /\ LET filled == Append(pages, Head(samples))
       IN  IF Len(filled) >= EagerFlush THEN Flush(filled)
           ELSE pages' = filled /\ UNCHANGED <<outgoing, task>>
    /\ UNCHANGED <<dataChannel, notified, arrived, accepted, delivered, released>>

\* Bug: what is buffered at the end is left there.
ReceiverClosedLeaves ==
    /\ task = "selects" /\ samples = <<>> /\ released
    /\ task' = "ended"
    /\ UNCHANGED <<dataChannel, notified, arrived, accepted, samples, pages, outgoing,
                   delivered, released>>

\* The Sender is gone: the rest is flushed, and then the task ends.
ReceiverClosed ==
    /\ task = "selects" /\ samples = <<>> /\ released
    /\ IF pages # <<>> THEN Flush(pages) ELSE task' = "ended" /\ UNCHANGED <<outgoing, pages>>
    /\ UNCHANGED <<dataChannel, notified, arrived, accepted, samples, delivered, released>>

-----------------------------------------------------------------------------

AudioTaskStep ==
    \/ LooksAtChannel \/ StartsWaiting \/ Woken \/ SendHeaders \/ SendReturns
    \/ IntervalTick \/ ReceiveSample \/ ReceiverClosed

AudioNext ==
    \/ ChannelOpens \/ OnOpen \/ ChannelCloses
    \/ AudioSetup \/ DecodeAndPlaySample \/ ReleaseDecoder
    \/ LooksAtChannel \/ StartsWaiting \/ Woken \/ SendHeaders \/ SendReturns
    \/ IntervalTick \/ ReceiveSample \/ ReceiverClosed

AudioSpec == AudioInit /\ [][AudioNext]_audioVars

\* The task and the handler of the open channel go on; the callbacks need not come.
AudioFairness == WF_audioVars(AudioTaskStep) /\ WF_audioVars(OnOpen)

AudioFairSpec == AudioSpec /\ AudioFairness

-----------------------------------------------------------------------------
(* Properties *)

\* The browser gets the headers first and then every sample that found room, each once
\* and in order: a link that loses nothing but its end, when the channel closes
\* (audio.rs:147-153, 173-216).
AudioLink == INSTANCE FifoLink WITH Message <- Pieces,
                posted <- IF task = "none" THEN <<>> ELSE <<Header>> \o accepted,
                got <- delivered
AudioImplementsLink == AudioLink!LinkSpec

\* Samples that found room are sent once the channel is open: whenever it opens, were it
\* just before the task begins to wait for that, and also if the decoder is released in
\* the meantime (audio.rs:105-107, 206-214).
Undelivered == \E i \in DOMAIN accepted : \A j \in DOMAIN delivered : delivered[j] # accepted[i]
AudioGetsOut ==
    (Undelivered /\ dataChannel = "open") ~> (~Undelivered \/ dataChannel = "closed")
=============================================================================
