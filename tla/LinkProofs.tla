----------------------------- MODULE LinkProofs -----------------------------
(***************************************************************************)
(* The ways of data through the streamer, for every number of messages and *)
(* every size of the queues: the pipes between server and streamer (Ipc)   *)
(* and the audio task (AudioSend) are links, the packets of video          *)
(* (VideoSend) reach the wire with parity that covers their frames, the    *)
(* splitter of those frames (AnnexB) finds every unit, the payloaders      *)
(* (RtpPayload) bring every slice over, and the parity (Ulpfec) brings     *)
(* back a lost packet.                                                     *)
(***************************************************************************)
EXTENDS AudioSend, Ipc, VideoSend, AnnexB, Ulpfec, RtpPayload, DataLemmas, SequenceTheorems,
        FiniteSetTheorems, TLAPS

-----------------------------------------------------------------------------
(***************************************************************************)
(* The audio task. What the data channel has taken is the two header pages *)
(* and the first of the accepted samples, in order.                        *)
(***************************************************************************)

Before == {"none", "spawned", "looked", "waits", "headers"}    \* before the headers are sent

\* Nothing is written before the channel has been open.
OpenInv ==
    /\ notified # "no" => dataChannel # "connecting"
    /\ task \in {"headers", "selects", "sends", "ended"} => dataChannel # "connecting"

\* What has been accepted is with the data channel, being sent, buffered as pages or in the
\* channel of samples, in this order, as long as no send has failed.
QueueInv ==
    /\ task \in Before => /\ delivered = <<>> /\ outgoing = <<>> /\ pages = <<>>
                          /\ samples = accepted
    /\ task = "none" => accepted = <<>>
    /\ task # "sends" => outgoing = <<>>
    /\ task \notin Before /\ dataChannel = "open" =>
          delivered \o (outgoing \o (pages \o samples)) = <<Header>> \o accepted

SendInv == AudioTypeOK /\ OpenInv /\ QueueInv

LEMMA Numbers ==
    /\ Header \in Pieces /\ MaxSamples \in Nat /\ AudioQueue \in Nat
    /\ EagerFlush \in Nat /\ EagerFlush > 0
    /\ \A n \in 0..MaxSamples : n \in Pieces
    /\ <<Header>> \in Seq(Pieces)
BY AudioAssumption DEF Pieces, Header

\* What is being sent may be counted with what has arrived.
LEMMA Regroup ==
    ASSUME AudioTypeOK
    PROVE  (delivered \o outgoing) \o (pages \o samples)
             = delivered \o (outgoing \o (pages \o samples))
<1> DEFINE behind == pages \o samples
<1>1. delivered \in Seq(Pieces) /\ outgoing \in Seq(Pieces) /\ behind \in Seq(Pieces)
  BY ConcatProperties DEF AudioTypeOK
<1> HIDE DEF behind
<1>2. (delivered \o outgoing) \o behind = delivered \o (outgoing \o behind)
  BY <1>1, ConcatAssociative
<1> QED  BY <1>2 DEF behind

-----------------------------------------------------------------------------
(* Types *)

LEMMA AudioTypesKept == AudioTypeOK /\ [AudioNext]_audioVars => AudioTypeOK'
<1> SUFFICES ASSUME AudioTypeOK, [AudioNext]_audioVars PROVE AudioTypeOK'
  OBVIOUS
<1> USE Numbers
<1>1. CASE ChannelOpens \/ OnOpen \/ ChannelCloses
  BY <1>1 DEF ChannelOpens, OnOpen, ChannelCloses, AudioTypeOK
<1>2. CASE AudioSetup \/ ReleaseDecoder \/ LooksAtChannel \/ StartsWaiting \/ Woken
  BY <1>2 DEF AudioSetup, ReleaseDecoder, LooksAtChannel, StartsWaiting, Woken, AudioTypeOK
<1>3. CASE DecodeAndPlaySample
  <2>1. arrived' \in 0..MaxSamples /\ arrived' \in Pieces
    BY <1>3 DEF DecodeAndPlaySample, AudioTypeOK
  <2>2. /\ Append(samples, arrived') \in Seq(Pieces) /\ Append(accepted, arrived') \in Seq(Pieces)
        /\ Len(Append(samples, arrived')) = Len(samples) + 1 /\ Len(samples) \in Nat
    BY <2>1, AppendProperties DEF AudioTypeOK
  <2>3. UNCHANGED <<dataChannel, notified, task, pages, outgoing, delivered, released>>
    BY <1>3 DEF DecodeAndPlaySample
  <2>4. /\ samples' \in Seq(Pieces) /\ accepted' \in Seq(Pieces) /\ Len(samples') <= AudioQueue
    <3>1. CASE Len(samples) < AudioQueue
      <4>1. samples' = Append(samples, arrived') /\ accepted' = Append(accepted, arrived')
        BY <1>3, <3>1 DEF DecodeAndPlaySample
      <4>2. Len(samples) + 1 <= AudioQueue
        BY <2>2, <3>1
      <4> QED  BY <2>2, <4>1, <4>2
    <3>2. CASE ~(Len(samples) < AudioQueue)
      BY <1>3, <3>2 DEF DecodeAndPlaySample, AudioTypeOK
    <3> QED  BY <3>1, <3>2
  <2> QED  BY <2>1, <2>3, <2>4 DEF AudioTypeOK
<1>4. CASE SendHeaders \/ IntervalTick \/ ReceiverClosed
  <2>1. <<>> \in Seq(Pieces) /\ Len(<<>>) = 0
    BY EmptySeq
  <2>2. /\ outgoing' \in {<<Header>>, pages, outgoing}
        /\ pages' \in {<<>>, pages} /\ task' \in {"sends", "ended"}
        /\ UNCHANGED <<dataChannel, notified, arrived, accepted, samples, delivered, released>>
    BY <1>4 DEF SendHeaders, IntervalTick, ReceiverClosed, Flush
  <2>3. outgoing' \in Seq(Pieces) /\ pages' \in Seq(Pieces) /\ Len(pages') < EagerFlush
    BY <2>1, <2>2 DEF AudioTypeOK
  <2> QED  BY <2>2, <2>3 DEF AudioTypeOK
<1>5. CASE SendReturns
  <2>1. delivered \o outgoing \in Seq(Pieces)
    BY ConcatProperties DEF AudioTypeOK
  <2> QED  BY <1>5, <2>1 DEF SendReturns, AudioTypeOK
<1>6. CASE ReceiveSample
  <2> DEFINE filled == Append(pages, Head(samples))
  <2>1. /\ Head(samples) \in Pieces /\ Tail(samples) \in Seq(Pieces)
        /\ Len(Tail(samples)) = Len(samples) - 1
    BY <1>6, HeadTailProperties DEF ReceiveSample, AudioTypeOK
  <2>2. filled \in Seq(Pieces) /\ Len(filled) \in Nat /\ Len(samples) \in Nat
    BY <2>1, AppendProperties DEF AudioTypeOK
  <2>3. /\ samples' = Tail(samples)
        /\ \/ outgoing' = filled /\ pages' = <<>> /\ task' = "sends"
           \/ pages' = filled /\ Len(filled) < EagerFlush /\ UNCHANGED <<outgoing, task>>
        /\ UNCHANGED <<dataChannel, notified, arrived, accepted, delivered, released>>
    BY <1>6, <2>2 DEF ReceiveSample, Flush
  <2>4. /\ outgoing' \in Seq(Pieces) /\ pages' \in Seq(Pieces) /\ Len(pages') < EagerFlush
        /\ task' \in {"selects", "sends"}
    BY <1>6, <2>2, <2>3, EmptySeq DEF AudioTypeOK, ReceiveSample
  <2>5. Len(samples') <= AudioQueue /\ samples' \in Seq(Pieces)
    BY <2>1, <2>2, <2>3 DEF AudioTypeOK
  <2> QED  BY <2>3, <2>4, <2>5 DEF AudioTypeOK
<1>7. CASE UNCHANGED audioVars
  BY <1>7 DEF audioVars, AudioTypeOK
<1> QED  BY <1>1, <1>2, <1>3, <1>4, <1>5, <1>6, <1>7 DEF AudioNext

-----------------------------------------------------------------------------
(* The queues *)

LEMMA QueuesKept == SendInv /\ [AudioNext]_audioVars => OpenInv' /\ QueueInv'
<1> SUFFICES ASSUME SendInv, [AudioNext]_audioVars PROVE OpenInv' /\ QueueInv'
  OBVIOUS
<1> USE Numbers
<1>0. /\ AudioTypeOK /\ OpenInv /\ QueueInv /\ pages \o samples \in Seq(Pieces)
      /\ outgoing \o (pages \o samples) \in Seq(Pieces)
      /\ accepted \in Seq(Pieces) /\ samples \in Seq(Pieces) /\ pages \in Seq(Pieces)
      /\ outgoing \in Seq(Pieces) /\ delivered \in Seq(Pieces)
  BY ConcatProperties DEF SendInv, AudioTypeOK
<1>1. CASE ChannelOpens \/ OnOpen \/ ChannelCloses
  BY <1>0, <1>1 DEF ChannelOpens, OnOpen, ChannelCloses, AudioTypeOK, OpenInv, QueueInv, Before
<1>2. CASE AudioSetup \/ ReleaseDecoder \/ LooksAtChannel \/ StartsWaiting \/ Woken
  BY <1>0, <1>2 DEF AudioSetup, ReleaseDecoder, LooksAtChannel, StartsWaiting, Woken,
     OpenInv, QueueInv, Before
<1>3. CASE DecodeAndPlaySample
  <2>1. arrived' \in Pieces /\ task # "none"
    BY <1>0, <1>3 DEF DecodeAndPlaySample, AudioTypeOK
  <2>2. CASE Len(samples) < AudioQueue
    <3>1. /\ samples' = Append(samples, arrived') /\ accepted' = Append(accepted, arrived')
          /\ UNCHANGED <<dataChannel, notified, task, pages, outgoing, delivered>>
      BY <1>3, <2>2 DEF DecodeAndPlaySample
    <3>2. delivered \o (outgoing \o (pages \o Append(samples, arrived')))
            = Append(delivered \o (outgoing \o (pages \o samples)), arrived')
      <4>0. \A a, b \in Seq(Pieces), e \in Pieces : a \o Append(b, e) = Append(a \o b, e)
        BY AppendToLast
      <4>1. pages \o Append(samples, arrived') = Append(pages \o samples, arrived')
        BY <1>0, <2>1, <4>0
      <4>2. outgoing \o Append(pages \o samples, arrived')
              = Append(outgoing \o (pages \o samples), arrived')
        BY <1>0, <2>1, <4>0
      <4>3. delivered \o Append(outgoing \o (pages \o samples), arrived')
              = Append(delivered \o (outgoing \o (pages \o samples)), arrived')
        BY <1>0, <2>1, <4>0
      <4> QED  BY <4>1, <4>2, <4>3
    <3>3. <<Header>> \o Append(accepted, arrived') = Append(<<Header>> \o accepted, arrived')
      BY <1>0, <2>1, AppendToLast
    <3> QED  BY <1>0, <2>1, <3>1, <3>2, <3>3 DEF OpenInv, QueueInv
  <2>3. CASE ~(Len(samples) < AudioQueue)
    BY <1>0, <1>3, <2>3 DEF DecodeAndPlaySample, OpenInv, QueueInv
  <2> QED  BY <2>2, <2>3
<1>4. CASE SendHeaders
  <2>1. /\ samples = accepted /\ delivered = <<>> /\ dataChannel # "connecting"
        /\ outgoing' = <<Header>> /\ pages' = <<>> /\ task' = "sends"
        /\ UNCHANGED <<dataChannel, notified, accepted, samples, delivered>>
    BY <1>0, <1>4 DEF SendHeaders, Flush, OpenInv, QueueInv, Before
  <2>2. <<>> \o (<<Header>> \o (<<>> \o accepted)) = <<Header>> \o accepted
    BY <1>0, ConcatEmptySeq, ConcatProperties
  <2> QED  BY <1>0, <2>1, <2>2 DEF OpenInv, QueueInv, Before
<1>5. CASE SendReturns
  <2>1. /\ task = "sends" /\ task' = "selects" /\ outgoing' = <<>>
        /\ dataChannel = "open" => delivered' = delivered \o outgoing
        /\ UNCHANGED <<dataChannel, notified, accepted, samples, pages>>
    BY <1>5 DEF SendReturns
  <2>2. (delivered \o outgoing) \o (<<>> \o (pages \o samples))
          = delivered \o (outgoing \o (pages \o samples))
    <3>1. <<>> \o (pages \o samples) = pages \o samples
      BY <1>0, ConcatEmptySeq
    <3> QED  BY <1>0, <3>1, Regroup
  <2> QED  BY <1>0, <2>1, <2>2 DEF OpenInv, QueueInv, Before
<1>6. CASE IntervalTick \/ (ReceiverClosed /\ pages # <<>>)
  <2>1. /\ task = "selects" /\ task' = "sends" /\ outgoing = <<>> /\ outgoing' = pages
        /\ pages' = <<>> /\ UNCHANGED <<dataChannel, notified, accepted, samples, delivered>>
    BY <1>0, <1>6 DEF IntervalTick, ReceiverClosed, Flush, QueueInv
  <2>2. <<>> \o (pages \o samples) = pages \o (<<>> \o samples)
    BY <1>0, ConcatEmptySeq
  <2> QED  BY <1>0, <2>1, <2>2 DEF OpenInv, QueueInv, Before
<1>7. CASE ReceiverClosed /\ pages = <<>>
  BY <1>0, <1>7 DEF ReceiverClosed, OpenInv, QueueInv, Before
<1>8. CASE ReceiveSample
  <2> DEFINE filled == Append(pages, Head(samples))
  <2>1. /\ task = "selects" /\ samples # <<>> /\ outgoing = <<>> /\ samples' = Tail(samples)
        /\ UNCHANGED <<dataChannel, notified, accepted, delivered>>
    BY <1>0, <1>8 DEF ReceiveSample, QueueInv
  <2>2. \/ outgoing' = filled /\ pages' = <<>> /\ task' = "sends"
        \/ pages' = filled /\ UNCHANGED <<outgoing, task>>
    BY <1>8 DEF ReceiveSample, Flush
  <2>3. /\ filled \o Tail(samples) = pages \o samples
        /\ <<>> \o Tail(samples) = Tail(samples)
        /\ <<>> \o (pages \o samples) = pages \o samples
    <3>1. Tail(samples) \in Seq(Pieces)
      BY <1>0, <2>1, HeadTailProperties
    <3> QED  BY <1>0, <2>1, <3>1, HeadMoves, ConcatEmptySeq
  <2>4. outgoing' \o (pages' \o samples') = outgoing \o (pages \o samples)
    BY <2>1, <2>2, <2>3
  <2> QED  BY <1>0, <2>1, <2>2, <2>4 DEF OpenInv, QueueInv, Before
<1>9. CASE UNCHANGED audioVars
  BY <1>0, <1>9 DEF audioVars, OpenInv, QueueInv
<1> QED  BY <1>1, <1>2, <1>3, <1>4, <1>5, <1>6, <1>7, <1>8, <1>9 DEF AudioNext

LEMMA SendInvHolds == AudioSpec => []SendInv
<1>1. AudioInit => SendInv
  <2> SUFFICES ASSUME AudioInit PROVE SendInv
    OBVIOUS
  <2>1. <<>> \in Seq(Pieces) /\ Len(<<>>) = 0 /\ 0 \in 0..MaxSamples
    BY Numbers, EmptySeq
  <2>2. AudioTypeOK
    <3>1. {accepted, samples, pages, outgoing, delivered} \subseteq Seq(Pieces)
      BY <2>1 DEF AudioInit
    <3>2. Len(samples) <= AudioQueue /\ Len(pages) < EagerFlush
      BY Numbers, <2>1 DEF AudioInit
    <3> QED  BY <2>1, <3>1, <3>2 DEF AudioInit, AudioTypeOK
  <2>3. OpenInv /\ QueueInv
    BY DEF AudioInit, OpenInv, QueueInv, Before
  <2> QED  BY <2>2, <2>3 DEF SendInv
<1>2. SendInv /\ [AudioNext]_audioVars => SendInv'
  BY AudioTypesKept, QueuesKept DEF SendInv
<1> QED  BY <1>1, <1>2, PTL DEF AudioSpec

-----------------------------------------------------------------------------
(* The theorems *)

\* The types; the channel never holds more than it has room for.
THEOREM AudioTypeSafe == AudioSpec => []AudioTypeOK
<1>1. SendInv => AudioTypeOK
  BY DEF SendInv
<1> QED  BY <1>1, SendInvHolds, PTL

LEMMA LinkStep ==
    ASSUME SendInv, [AudioNext]_audioVars
    PROVE  \/ AudioLink!Post \/ AudioLink!Deliver
           \/ UNCHANGED <<IF task = "none" THEN <<>> ELSE <<Header>> \o accepted, delivered>>
<1> USE Numbers
<1> DEFINE Posted == IF task = "none" THEN <<>> ELSE <<Header>> \o accepted
<1>0. /\ AudioTypeOK /\ QueueInv
      /\ accepted \in Seq(Pieces) /\ samples \in Seq(Pieces) /\ pages \in Seq(Pieces)
      /\ outgoing \in Seq(Pieces) /\ delivered \in Seq(Pieces)
  BY DEF SendInv, AudioTypeOK
<1>1. CASE AudioSetup
  <2>1. Posted = <<>> /\ Posted' = <<Header>> /\ delivered' = delivered
    BY <1>0, <1>1, ConcatEmptySeq DEF AudioSetup, QueueInv
  <2>2. Posted' = Append(Posted, Header)
    BY <2>1
  <2> QED  BY <2>1, <2>2 DEF AudioLink!Post
<1>2. CASE DecodeAndPlaySample
  <2>1. arrived' \in Pieces /\ Posted = <<Header>> \o accepted /\ delivered' = delivered
    BY <1>0, <1>2 DEF DecodeAndPlaySample, AudioTypeOK
  <2>2. accepted' = accepted \/ accepted' = Append(accepted, arrived')
    BY <1>2 DEF DecodeAndPlaySample
  <2>3. <<Header>> \o Append(accepted, arrived') = Append(<<Header>> \o accepted, arrived')
    BY <1>0, <2>1, AppendToLast
  <2>4. Posted' = <<Header>> \o accepted'
    BY <1>2 DEF DecodeAndPlaySample
  <2>5. Posted' = Posted \/ Posted' = Append(Posted, arrived')
    BY <2>1, <2>2, <2>3, <2>4
  <2> QED  BY <2>1, <2>5 DEF AudioLink!Post
<1>3. CASE SendReturns /\ dataChannel = "open"
  <2> DEFINE all == delivered \o outgoing  behind == pages \o samples
  <2>1. delivered' = all /\ Posted' = Posted /\ Posted = <<Header>> \o accepted
    BY <1>3 DEF SendReturns
  <2>2. all \in Seq(Pieces) /\ behind \in Seq(Pieces)
    BY <1>0, ConcatProperties
  <2>3. Posted = all \o behind
    <3>1. Posted = delivered \o (outgoing \o behind)
      BY <1>0, <1>3, <2>1 DEF SendReturns, QueueInv, Before
    <3> QED  BY <1>0, <3>1, Regroup
  <2>4. /\ Len(all) \in Len(delivered)..Len(Posted)
        /\ SubSeq(Posted, 1, Len(all)) = all
    <3>1. /\ Len(all) = Len(delivered) + Len(outgoing) /\ Len(Posted) = Len(all) + Len(behind)
          /\ {Len(delivered), Len(outgoing), Len(all), Len(behind)} \subseteq Nat
      BY <1>0, <2>2, <2>3, ConcatProperties, LenProperties
    <3>2. SubSeq(all, 1, Len(all)) = all
      BY <2>2, SubSeqFull
    <3>3. CASE Len(all) = 0
      BY <2>2, <3>1, <3>3, EmptySeq, SubSeqEmpty
    <3>4. CASE Len(all) > 0
      <4>1. 1 \in 1..Len(all) /\ Len(all) \in 1..Len(all)
        BY <3>1, <3>4
      <4>2. SubSeq(all \o behind, 1, Len(all)) = SubSeq(all, 1, Len(all))
        BY <2>2, <4>1, SubSeqOfConcat1
      <4>3. SubSeq(Posted, 1, Len(all)) = all
        BY <2>3, <3>2, <4>2
      <4> QED  BY <3>1, <4>3
    <3> QED  BY <3>1, <3>3, <3>4
  <2> QED  BY <2>1, <2>4 DEF AudioLink!Deliver
<1>4. CASE SendReturns /\ dataChannel # "open"
  BY <1>4 DEF SendReturns
<1>5. CASE \/ ChannelOpens \/ OnOpen \/ ChannelCloses \/ ReleaseDecoder \/ StartsWaiting
           \/ LooksAtChannel \/ Woken \/ SendHeaders \/ IntervalTick \/ ReceiveSample
           \/ ReceiverClosed \/ UNCHANGED audioVars
  BY <1>5 DEF ChannelOpens, OnOpen, ChannelCloses, ReleaseDecoder, StartsWaiting, LooksAtChannel,
     Woken, SendHeaders, IntervalTick, ReceiveSample, ReceiverClosed, Flush, audioVars
<1> QED  BY <1>1, <1>2, <1>3, <1>4, <1>5 DEF AudioNext

\* What the browser gets is the headers and then the accepted samples, each once and in
\* order, however the callbacks, the task and the channel take turns; only the end may be
\* missing, when the channel closes (audio.rs:147-153, 173-216).
THEOREM AudioIsALink == AudioSpec => AudioImplementsLink
<1>1. AudioInit => AudioLink!LinkInit
  BY DEF AudioInit, AudioLink!LinkInit
<1>2. SendInv /\ [AudioNext]_audioVars =>
        [AudioLink!Post \/ AudioLink!Deliver]_<<IF task = "none" THEN <<>>
                                                ELSE <<Header>> \o accepted, delivered>>
  BY LinkStep
<1> QED  BY <1>1, <1>2, SendInvHolds, PTL DEF AudioSpec, AudioImplementsLink, AudioLink!LinkSpec

-----------------------------------------------------------------------------
(***************************************************************************)
(* The pipes. Each end receives a prefix of what the other has handed      *)
(* over.                                                                   *)
(***************************************************************************)

\* The k-th place of a queue has seen the first at[k] messages of a history: a readable
\* message is the next one of it, the others are none of it.
Matching(q, h, at) ==
    /\ at \in [0..Len(q) -> 0..Len(h)]
    /\ \A i \in 1..Len(q) :
          IF Readable(q[i]) THEN at[i] = at[i - 1] + 1 /\ q[i] = h[at[i]]
          ELSE at[i] = at[i - 1]

\* The readable messages of a queue are the n + 1st to the m-th of a history.
Holds(q, h, n, m) ==
    \E at \in [0..Len(q) -> 0..Len(h)] : Matching(q, h, at) /\ at[0] = n /\ at[Len(q)] = m

\* What is on its way, in order.
Transit(d) == pipe[d] \o (writing[d] \o chan[d])

\* The reader has had the first messages of what was handed over, and those on their way
\* follow, up to the last unless the writer is gone.
TransitInv ==
    \A d \in Dirs :
        /\ Len(read[d]) <= Len(handed[d]) /\ read[d] = SubSeq(handed[d], 1, Len(read[d]))
        /\ \E m \in 0..Len(handed[d]) :
              Holds(Transit(d), handed[d], Len(read[d]), m) /\ (d \notin gone => m = Len(handed[d]))

IpcInv == IpcTypeOK /\ TransitInv

-----------------------------------------------------------------------------
(* Queues and histories *)

\* A message that is put at the end of the queue is put at the end of the history, if it
\* can be read.
LEMMA PutHolds ==
    ASSUME NEW q \in Seq(Texts), NEW h \in Seq(Texts), NEW x \in Texts, NEW n,
           Holds(q, h, n, Len(h))
    PROVE  LET k == IF Readable(x) THEN Append(h, x) ELSE h
           IN  Holds(Append(q, x), k, n, Len(k))
<1> DEFINE k == IF Readable(x) THEN Append(h, x) ELSE h
           p == Append(q, x)
<1>1. PICK at : Matching(q, h, at) /\ at[0] = n /\ at[Len(q)] = Len(h)
  BY DEF Holds
<1> DEFINE to == [i \in 0..Len(p) |-> IF i = Len(p) THEN Len(k) ELSE at[i]]
<1>2. /\ Len(p) = Len(q) + 1 /\ Len(q) \in Nat /\ Len(h) \in Nat
      /\ p[Len(p)] = x /\ \A i \in 1..Len(q) : p[i] = q[i]
  OBVIOUS
<1>3. /\ Len(k) = Len(h) + (IF Readable(x) THEN 1 ELSE 0)
      /\ \A i \in 1..Len(h) : k[i] = h[i]
      /\ Readable(x) => k[Len(k)] = x
  OBVIOUS
<1> HIDE DEF k, p
<1>4. to \in [0..Len(p) -> 0..Len(k)]
  BY <1>1, <1>2, <1>3 DEF Matching
<1>5. ASSUME NEW i \in 1..Len(p)
      PROVE  IF Readable(p[i]) THEN to[i] = to[i - 1] + 1 /\ p[i] = k[to[i]]
             ELSE to[i] = to[i - 1]
  <2>1. CASE i = Len(p)
    BY <1>1, <1>2, <1>3, <2>1
  <2>2. CASE i # Len(p)
    <3>1. i \in 1..Len(q) /\ i - 1 \in 0..Len(q) /\ to[i] = at[i] /\ to[i - 1] = at[i - 1]
      BY <1>2, <2>2
    <3>2. at[i] \in 0..Len(h) /\ at[i - 1] \in 0..Len(h)
      <4>1. at \in [0..Len(q) -> 0..Len(h)]
        BY <1>1 DEF Matching
      <4>2. i \in 0..Len(q) /\ i - 1 \in 0..Len(q)
        BY <1>2, <3>1
      <4> HIDE DEF to
      <4> QED  BY <4>1, <4>2
    <3>3. IF Readable(q[i]) THEN at[i] = at[i - 1] + 1 /\ q[i] = h[at[i]]
          ELSE at[i] = at[i - 1]
      BY <1>1, <3>1 DEF Matching
    <3>4. p[i] = q[i]
      BY <1>2, <3>1
    <3> HIDE DEF to
    <3>5. CASE Readable(q[i])
      <4>1. at[i] = at[i - 1] + 1 /\ q[i] = h[at[i]]
        BY <3>3, <3>5
      <4>2. at[i] \in 1..Len(h)
        BY <1>2, <3>2, <4>1
      <4>3. k[at[i]] = h[at[i]]
        BY <1>3, <4>2
      <4> QED  BY <3>1, <3>4, <3>5, <4>1, <4>3
    <3>6. CASE ~Readable(q[i])
      BY <3>1, <3>3, <3>4, <3>6
    <3> QED  BY <3>5, <3>6
  <2> QED  BY <2>1, <2>2
<1>6. to[0] = n /\ to[Len(p)] = Len(k)
  BY <1>1, <1>2
<1> HIDE DEF to
<1>7. Holds(p, k, n, Len(k))
  BY <1>4, <1>5, <1>6 DEF Holds, Matching
<1> QED  BY <1>7 DEF k, p

\* The first message of the queue is the next one of the history, if it can be read.
LEMMA TakeHolds ==
    ASSUME NEW q \in Seq(Texts), NEW h \in Seq(Texts), NEW n \in Nat, NEW m, q # <<>>,
           Holds(q, h, n, m)
    PROVE  IF Readable(Head(q))
           THEN n + 1 <= Len(h) /\ Head(q) = h[n + 1] /\ Holds(Tail(q), h, n + 1, m)
           ELSE Holds(Tail(q), h, n, m)
<1>1. PICK at : Matching(q, h, at) /\ at[0] = n /\ at[Len(q)] = m
  BY DEF Holds
<1> DEFINE p == Tail(q)
           to == [i \in 0..Len(p) |-> at[i + 1]]
<1>2. /\ Len(p) = Len(q) - 1 /\ Len(q) \in Nat /\ Len(q) > 0 /\ Len(h) \in Nat
      /\ Head(q) = q[1] /\ \A i \in 1..Len(p) : p[i] = q[i + 1]
  OBVIOUS
<1> HIDE DEF p
<1>3. to \in [0..Len(p) -> 0..Len(h)]
  BY <1>1, <1>2 DEF Matching
<1>4. ASSUME NEW i \in 1..Len(p)
      PROVE  IF Readable(p[i]) THEN to[i] = to[i - 1] + 1 /\ p[i] = h[to[i]]
             ELSE to[i] = to[i - 1]
  <2>1. i + 1 \in 1..Len(q) /\ to[i] = at[i + 1] /\ to[i - 1] = at[(i + 1) - 1] /\ p[i] = q[i + 1]
    BY <1>2
  <2> QED  BY <1>1, <2>1 DEF Matching
<1>5. to[0] = at[1] /\ to[Len(p)] = m
  <2>1. Len(p) + 1 = Len(q) /\ 0 + 1 = 1 /\ 0 \in 0..Len(p) /\ Len(p) \in 0..Len(p)
    BY <1>2
  <2> QED  BY <1>1, <2>1
<1>6. IF Readable(q[1]) THEN at[1] = n + 1 /\ q[1] = h[n + 1] ELSE at[1] = n
  <2>1. ASSUME NEW i \in 1..Len(q), i - 1 = 0
        PROVE  IF Readable(q[i]) THEN at[i] = n + 1 /\ q[i] = h[n + 1] ELSE at[i] = n
    <3>1. at[i - 1] = n
      BY <1>1, <2>1
    <3> QED  BY <1>1, <3>1 DEF Matching
  <2> QED  BY <1>2, <2>1
<1> HIDE DEF to
<1>7. Holds(p, h, at[1], m)
  BY <1>3, <1>4, <1>5 DEF Holds, Matching
<1>8. at[1] \in 0..Len(h) /\ Head(q) = q[1]
  <2>1. 1 \in 0..Len(q)
    BY <1>2
  <2> QED  BY <1>1, <1>2, <2>1 DEF Matching
<1>9. CASE Readable(Head(q))
  BY <1>2, <1>6, <1>7, <1>8, <1>9 DEF p
<1>10. CASE ~Readable(Head(q))
  BY <1>6, <1>7, <1>8, <1>10 DEF p
<1> QED  BY <1>9, <1>10

\* A message that cannot be read may be left out anywhere.
LEMMA SkipHolds ==
    ASSUME NEW a \in Seq(Texts), NEW x \in Texts, NEW b \in Seq(Texts),
           NEW h \in Seq(Texts), NEW n, NEW m,
           ~Readable(x), Holds(a \o (<<x>> \o b), h, n, m)
    PROVE  Holds(a \o b, h, n, m)
<1> DEFINE q == a \o (<<x>> \o b)
           p == a \o b
<1>1. PICK at : Matching(q, h, at) /\ at[0] = n /\ at[Len(q)] = m
  BY DEF Holds
<1> DEFINE to == [i \in 0..Len(p) |-> IF i <= Len(a) THEN at[i] ELSE at[i + 1]]
<1>2. /\ Len(a) \in Nat /\ Len(b) \in Nat /\ Len(h) \in Nat
      /\ Len(p) = Len(a) + Len(b) /\ Len(q) = Len(p) + 1
      /\ \A i \in 1..Len(a) : p[i] = q[i]
      /\ \A i \in Len(a) + 1..Len(p) : p[i] = q[i + 1]
      /\ q[Len(a) + 1] = x
  OBVIOUS
<1> HIDE DEF p, q
<1>3. to \in [0..Len(p) -> 0..Len(h)]
  BY <1>1, <1>2 DEF Matching
<1>4. at[Len(a) + 1] = at[Len(a)]
  <2>1. Len(a) + 1 \in 1..Len(q) /\ (Len(a) + 1) - 1 = Len(a)
    BY <1>2
  <2>2. at[Len(a) + 1] = at[(Len(a) + 1) - 1]
    BY <1>1, <1>2, <2>1 DEF Matching
  <2> QED  BY <2>1, <2>2
<1>5. ASSUME NEW i \in 1..Len(p)
      PROVE  IF Readable(p[i]) THEN to[i] = to[i - 1] + 1 /\ p[i] = h[to[i]]
             ELSE to[i] = to[i - 1]
  <2>1. CASE i <= Len(a)
    <3>1. i \in 1..Len(q) /\ i \in 1..Len(a) /\ to[i] = at[i] /\ to[i - 1] = at[i - 1]
      BY <1>2, <2>1
    <3> QED  BY <1>1, <1>2, <3>1 DEF Matching
  <2>2. CASE i > Len(a)
    <3>1. /\ i + 1 \in 1..Len(q) /\ i \in Len(a) + 1..Len(p)
          /\ to[i] = at[i + 1] /\ to[i - 1] = at[(i + 1) - 1]
      BY <1>2, <1>4, <2>2
    <3> QED  BY <1>1, <1>2, <3>1 DEF Matching
  <2> QED  BY <1>2, <2>1, <2>2
<1>6. to[0] = n /\ to[Len(p)] = m
  BY <1>1, <1>2, <1>4
<1> HIDE DEF to
<1>7. Holds(p, h, n, m)
  BY <1>3, <1>5, <1>6 DEF Holds, Matching
<1> QED  BY <1>7 DEF p

\* What is left of a queue whose end is lost.
LEMMA CutHolds ==
    ASSUME NEW a \in Seq(Texts), NEW b \in Seq(Texts), NEW h \in Seq(Texts), NEW n, NEW m,
           Holds(a \o b, h, n, m)
    PROVE  \E l \in 0..Len(h) : Holds(a, h, n, l)
<1> DEFINE q == a \o b
<1>1. PICK at : Matching(q, h, at) /\ at[0] = n
  BY DEF Holds
<1> DEFINE to == [i \in 0..Len(a) |-> at[i]]
<1>2. /\ Len(a) \in Nat /\ Len(b) \in Nat /\ Len(h) \in Nat /\ Len(q) = Len(a) + Len(b)
      /\ \A i \in 1..Len(a) : a[i] = q[i]
  OBVIOUS
<1> HIDE DEF q
<1>3. to \in [0..Len(a) -> 0..Len(h)] /\ to[0] = n /\ to[Len(a)] \in 0..Len(h)
  BY <1>1, <1>2 DEF Matching
<1>4. ASSUME NEW i \in 1..Len(a)
      PROVE  IF Readable(a[i]) THEN to[i] = to[i - 1] + 1 /\ a[i] = h[to[i]]
             ELSE to[i] = to[i - 1]
  <2>1. i \in 1..Len(q) /\ to[i] = at[i] /\ to[i - 1] = at[i - 1]
    BY <1>2
  <2> QED  BY <1>1, <1>2, <2>1 DEF Matching
<1> HIDE DEF to
<1>5. Matching(a, h, to)
  BY <1>3, <1>4 DEF Matching
<1>6. Holds(a, h, n, to[Len(a)])
  BY <1>3, <1>5 DEF Holds
<1> QED  BY <1>3, <1>6

-----------------------------------------------------------------------------
(* Types *)

LEMMA IpcFacts ==
    /\ Requests \in Seq(Texts) /\ MaxOther \in Nat
    /\ ChanCap \in Nat /\ PipeCap \in Nat /\ WsCap \in Nat
    /\ ChanCap > 0 /\ PipeCap > 0 /\ WsCap > 0
    /\ "answer" \in Texts /\ "other" \in Texts /\ "down" \in Dirs /\ "up" \in Dirs
<1>1. {"signal", "stop", "bad"} \subseteq Texts
  BY DEF Texts
<1> QED  BY <1>1, IpcAssumption DEF Texts, Dirs

LEMMA PutTypes ==
    ASSUME IpcTypeOK, NEW d \in Dirs, NEW x \in Texts, Put(d, x)
    PROVE  /\ handed' \in [Dirs -> Seq(Texts)]
           /\ chan' \in [Dirs -> Seq(Texts)] /\ \A e \in Dirs : Len(chan'[e]) <= ChanCap
<1>1. handed' \in [Dirs -> Seq(Texts)]
  <2>1. handed[d] \in Seq(Texts) /\ Append(handed[d], x) \in Seq(Texts)
    BY DEF IpcTypeOK
  <2>2. handed' = handed \/ handed' = [handed EXCEPT ![d] = Append(handed[d], x)]
    BY DEF Put, Hands
  <2> QED  BY <2>1, <2>2 DEF IpcTypeOK
<1>2. CASE chan' = chan
  BY <1>1, <1>2 DEF IpcTypeOK
<1>3. CASE Len(chan[d]) < ChanCap /\ chan' = [chan EXCEPT ![d] = Append(@, x)]
  <2>1. chan[d] \in Seq(Texts) /\ Append(chan[d], x) \in Seq(Texts)
        /\ Len(Append(chan[d], x)) = Len(chan[d]) + 1 /\ Len(chan[d]) \in Nat
    BY DEF IpcTypeOK
  <2>2. \A e \in Dirs : chan'[e] = IF e = d THEN Append(chan[d], x) ELSE chan[e]
    BY <1>3 DEF IpcTypeOK
  <2>3. chan' \in [Dirs -> Seq(Texts)]
    BY <1>3, <2>1 DEF IpcTypeOK
  <2>4. Len(Append(chan[d], x)) <= ChanCap
    BY <1>3, <2>1, IpcFacts
  <2>5. \A e \in Dirs : Len(chan'[e]) <= ChanCap
    BY <2>2, <2>4 DEF IpcTypeOK
  <2> QED  BY <1>1, <2>3, <2>5
<1> QED  BY <1>2, <1>3 DEF Put

LEMMA IpcTypesKept == IpcTypeOK /\ [IpcNext]_ipcVars => IpcTypeOK'
<1> SUFFICES ASSUME IpcTypeOK, [IpcNext]_ipcVars PROVE IpcTypeOK'
  OBVIOUS
<1> USE IpcFacts
<1>1. CASE ServerSends
  <2>1. Head(toSend) \in Texts /\ Tail(toSend) \in Seq(Texts)
    <3>1. toSend \in Seq(Texts) /\ toSend # <<>>
      BY <1>1 DEF ServerSends, IpcTypeOK
    <3> QED  BY ONLY <3>1
  <2> QED  BY <1>1, <2>1, PutTypes DEF ServerSends, IpcTypeOK
<1>2. CASE StreamerSends
  <2>1. others' \in 0..MaxOther
    <3>1. others \in 0..MaxOther /\ others < MaxOther /\ others' = others + 1
      BY <1>2 DEF StreamerSends, IpcTypeOK
    <3> QED  BY <3>1
  <2> QED  BY <1>2, <2>1, PutTypes DEF StreamerSends, IpcTypeOK
<1>3. CASE LoopAnswers
  BY <1>3, PutTypes DEF LoopAnswers, IpcTypeOK
<1>4. CASE RouterHandsOver \/ BrowserReads
  <2>1. ws' \in 0..WsCap
    <3>1. ws \in 0..WsCap /\ WsCap \in Nat
      BY DEF IpcTypeOK
    <3>2. (ws < WsCap /\ ws' = ws + 1) \/ (ws > 0 /\ ws' = ws - 1)
      BY <1>4 DEF RouterHandsOver, BrowserReads
    <3> QED  BY <3>1, <3>2
  <2>2. loop' \in [Dirs -> {"recv", "busy", "stopped", "ended"}]
    BY <1>4 DEF RouterHandsOver, BrowserReads, IpcTypeOK
  <2> QED  BY <1>4, <2>1, <2>2 DEF RouterHandsOver, BrowserReads, IpcTypeOK
<1>5. ASSUME NEW d \in Dirs, WriterTakes(d) PROVE IpcTypeOK'
  <2>1. /\ chan[d] \in Seq(Texts) /\ Head(chan[d]) \in Texts /\ Tail(chan[d]) \in Seq(Texts)
        /\ Len(Tail(chan[d])) <= ChanCap
    <3>1. chan[d] \in Seq(Texts) /\ chan[d] # <<>> /\ Len(chan[d]) <= ChanCap
      BY <1>5 DEF WriterTakes, IpcTypeOK
    <3> QED  BY <3>1
  <2>2. writing' \in [Dirs -> {<<>>} \cup {<<m>> : m \in Texts}]
    BY <1>5, <2>1 DEF WriterTakes, IpcTypeOK
  <2>3. chan' \in [Dirs -> Seq(Texts)] /\ \A e \in Dirs : Len(chan'[e]) <= ChanCap
    BY <1>5, <2>1 DEF WriterTakes, IpcTypeOK
  <2> QED  BY <1>5, <2>2, <2>3 DEF WriterTakes, IpcTypeOK
<1>6. ASSUME NEW d \in Dirs, WriterSkips(d) PROVE IpcTypeOK'
  BY <1>6 DEF WriterSkips, IpcTypeOK
<1>7. ASSUME NEW d \in Dirs, WriterWrites(d) PROVE IpcTypeOK'
  <2>1. PICK m \in Texts : writing[d] = <<m>>
    BY <1>7 DEF WriterWrites, IpcTypeOK
  <2>2. /\ pipe[d] \in Seq(Texts) /\ pipe[d] \o writing[d] \in Seq(Texts)
        /\ Len(pipe[d] \o writing[d]) <= PipeCap
    BY <1>7, <2>1 DEF WriterWrites, IpcTypeOK
  <2>3. pipe' \in [Dirs -> Seq(Texts)] /\ \A e \in Dirs : Len(pipe'[e]) <= PipeCap
    BY <1>7, <2>2 DEF WriterWrites, IpcTypeOK
  <2> QED  BY <1>7, <2>3 DEF WriterWrites, IpcTypeOK
<1>8. ASSUME NEW d \in Dirs, WriterFails(d) PROVE IpcTypeOK'
  <2>1. <<>> \in Seq(Texts) /\ Len(<<>>) = 0
    OBVIOUS
  <2> QED  BY <1>8, <2>1 DEF WriterFails, IpcTypeOK
<1>9. ASSUME NEW d \in Dirs, RecvMessage(d) PROVE IpcTypeOK'
  <2>0. /\ pipe[d] \in Seq(Texts) /\ read[d] \in Seq(Texts) /\ Len(pipe[d]) <= PipeCap
        /\ pipe[d] # <<>>
    BY <1>9 DEF RecvMessage, IpcTypeOK
  <2>1. /\ Head(pipe[d]) \in Texts /\ Tail(pipe[d]) \in Seq(Texts)
        /\ Len(Tail(pipe[d])) <= PipeCap
    BY <2>0
  <2>2. Append(read[d], Head(pipe[d])) \in Seq(Texts)
    BY <2>0, <2>1
  <2>3. read' \in [Dirs -> Seq(Texts)]
    BY <1>9, <2>2 DEF RecvMessage, IpcTypeOK
  <2>4. loop' \in [Dirs -> {"recv", "busy", "stopped", "ended"}]
    BY <1>9 DEF RecvMessage, IpcTypeOK
  <2>5. pipe' \in [Dirs -> Seq(Texts)] /\ \A e \in Dirs : Len(pipe'[e]) <= PipeCap
    <3>1. pipe' = [pipe EXCEPT ![d] = Tail(pipe[d])]
      BY <1>9 DEF RecvMessage
    <3> QED  BY <2>1, <3>1 DEF IpcTypeOK
  <2> QED  BY <1>9, <2>3, <2>4, <2>5 DEF RecvMessage, IpcTypeOK
<1>10. ASSUME NEW d \in Dirs, RecvSkips(d) PROVE IpcTypeOK'
  <2>1. /\ pipe[d] \in Seq(Texts) /\ Tail(pipe[d]) \in Seq(Texts)
        /\ Len(Tail(pipe[d])) <= PipeCap
    BY <1>10 DEF RecvSkips, IpcTypeOK
  <2>2. pipe' \in [Dirs -> Seq(Texts)] /\ \A e \in Dirs : Len(pipe'[e]) <= PipeCap
    BY <1>10, <2>1 DEF RecvSkips, IpcTypeOK
  <2> QED  BY <1>10, <2>2 DEF RecvSkips, IpcTypeOK
<1>11. ASSUME NEW d \in Dirs, RecvNone(d) \/ RecvFails(d) PROVE IpcTypeOK'
  BY <1>11 DEF RecvNone, RecvFails, IpcTypeOK
<1>12. ASSUME NEW p \in {"server", "streamer"}, Dies(p) PROVE IpcTypeOK'
  <2>1. <<>> \in Seq(Texts) /\ Len(<<>>) = 0
    OBVIOUS
  <2>2. chan' \in [Dirs -> Seq(Texts)] /\ \A e \in Dirs : Len(chan'[e]) <= ChanCap
    BY <1>12, <2>1 DEF Dies, IpcTypeOK
  <2>3. writing' \in [Dirs -> {<<>>} \cup {<<m>> : m \in Texts}]
    BY <1>12 DEF Dies, IpcTypeOK
  <2> QED  BY <1>12, <2>2, <2>3 DEF Dies, IpcTypeOK
<1>13. CASE UNCHANGED ipcVars
  BY <1>13 DEF ipcVars, IpcTypeOK
<1> QED  BY <1>1, <1>2, <1>3, <1>4, <1>5, <1>6, <1>7, <1>8, <1>9, <1>10, <1>11, <1>12, <1>13
         DEF IpcNext, WriterStep, RecvStep

-----------------------------------------------------------------------------
(* What is on its way *)

\* TransitInv of one direction, in terms of the queue, the history and what was read.
LinkAt(q, h, r, writes) ==
    /\ Len(r) <= Len(h) /\ r = SubSeq(h, 1, Len(r))
    /\ \E m \in 0..Len(h) : Holds(q, h, Len(r), m) /\ (writes => m = Len(h))

LEMMA LinkAts ==
    ASSUME TransitInv
    PROVE  \A d \in Dirs : LinkAt(Transit(d), handed[d], read[d], d \notin gone)
BY DEF TransitInv, LinkAt

LEMMA LinkAtsNext ==
    ASSUME \A d \in Dirs : LinkAt(Transit(d)', handed'[d], read'[d], d \notin gone')
    PROVE  TransitInv'
BY DEF TransitInv, LinkAt

LEMMA TransitParts ==
    ASSUME IpcTypeOK, NEW d \in Dirs
    PROVE  /\ pipe[d] \in Seq(Texts) /\ writing[d] \in Seq(Texts) /\ chan[d] \in Seq(Texts)
           /\ Transit(d) \in Seq(Texts) /\ handed[d] \in Seq(Texts) /\ read[d] \in Seq(Texts)
<1>1. pipe[d] \in Seq(Texts) /\ chan[d] \in Seq(Texts) /\ handed[d] \in Seq(Texts) /\ read[d] \in Seq(Texts)
  BY DEF IpcTypeOK
<1>2. writing[d] \in Seq(Texts)
  <2>1. <<>> \in Seq(Texts) /\ \A m \in Texts : <<m>> \in Seq(Texts)
    OBVIOUS
  <2>2. writing[d] \in {<<>>} \cup {<<m>> : m \in Texts}
    BY DEF IpcTypeOK
  <2> QED  BY <2>1, <2>2
<1> QED  BY <1>1, <1>2, ConcatProperties DEF Transit

\* A message is sent.
LEMMA PutKeeps ==
    ASSUME IpcInv, NEW d \in Dirs, NEW x \in Texts, Put(d, x),
           UNCHANGED <<writing, pipe, gone, read>>
    PROVE  TransitInv'
<1>1. ASSUME NEW e \in Dirs PROVE LinkAt(Transit(e)', handed'[e], read'[e], e \notin gone')
  <2>1. LinkAt(Transit(e), handed[e], read[e], e \notin gone)
    BY LinkAts DEF IpcInv
  <2>2. CASE chan'[e] = chan[e] /\ handed'[e] = handed[e]
    BY <2>1, <2>2 DEF Transit
  <2>3. CASE /\ e = d /\ d \notin gone /\ chan'[d] = Append(chan[d], x)
             /\ handed'[d] = IF Readable(x) THEN Append(handed[d], x) ELSE handed[d]
    <3> DEFINE h == handed[d]  r == read[d]
    <3>1. /\ pipe[d] \in Seq(Texts) /\ writing[d] \in Seq(Texts) /\ chan[d] \in Seq(Texts)
          /\ Transit(d) \in Seq(Texts) /\ h \in Seq(Texts) /\ r \in Seq(Texts)
      BY TransitParts DEF IpcInv
    <3>2. Transit(d)' = Append(Transit(d), x)
      <4>1. pipe[d] \o (writing[d] \o Append(chan[d], x))
              = Append(pipe[d] \o (writing[d] \o chan[d]), x)
        <5> DEFINE a == pipe[d]  b == writing[d]  c == chan[d]
        <5>1. a \in Seq(Texts) /\ b \in Seq(Texts) /\ c \in Seq(Texts)
          BY <3>1
        <5> HIDE DEF a, b, c
        <5>2. AppendsLast(a, b, c, x)
          BY <5>1, ThreeParts
        <5> QED  BY <5>2 DEF AppendsLast, a, b, c
      <4> QED  BY <2>3, <4>1 DEF Transit
    <3>3. Holds(Transit(d), h, Len(r), Len(h)) /\ Len(r) <= Len(h) /\ r = SubSeq(h, 1, Len(r))
      BY <2>1, <2>3 DEF LinkAt
    <3>4. Holds(Transit(d)', handed'[d], Len(r), Len(handed'[d]))
      BY <2>3, <3>1, <3>2, <3>3, PutHolds
    <3>5. Len(r) <= Len(handed'[d]) /\ r = SubSeq(handed'[d], 1, Len(r)) /\ Len(handed'[d]) \in Nat
      BY <2>3, <3>1, <3>3
    <3>6. read'[d] = r
      OBVIOUS
    <3> QED  BY <2>3, <3>4, <3>5, <3>6 DEF LinkAt
  <2> QED  BY <2>2, <2>3 DEF Put, Hands, IpcInv, IpcTypeOK
<1> QED  BY <1>1, LinkAtsNext

\* The writer takes or writes a message: nothing changes place.
LEMMA WriterKeeps ==
    ASSUME IpcInv, NEW d \in Dirs, WriterTakes(d) \/ WriterWrites(d)
    PROVE  TransitInv'
<1>1. ASSUME NEW e \in Dirs PROVE Transit(e)' = Transit(e)
  <2>1. CASE e # d
    BY <2>1 DEF WriterTakes, WriterWrites, Transit, IpcInv, IpcTypeOK
  <2>2. CASE e = d /\ WriterTakes(d)
    <3>1. chan[d] \in Seq(Texts) /\ chan[d] # <<>> /\ <<>> \in Seq(Texts)
      BY <2>2, TransitParts DEF IpcInv, WriterTakes
    <3>2. <<Head(chan[d])>> \o Tail(chan[d]) = chan[d] /\ <<>> \o chan[d] = chan[d]
      BY <3>1
    <3> QED  BY <2>2, <3>2 DEF WriterTakes, Transit, IpcInv, IpcTypeOK
  <2>3. CASE e = d /\ WriterWrites(d)
    <3>1. pipe[d] \in Seq(Texts) /\ writing[d] \in Seq(Texts) /\ chan[d] \in Seq(Texts)
      BY TransitParts DEF IpcInv
    <3>2. (pipe[d] \o writing[d]) \o (<<>> \o chan[d]) = pipe[d] \o (writing[d] \o chan[d])
      <4>1. JoinsFirst(pipe[d], writing[d], chan[d])
        BY <3>1, ThreeParts
      <4> QED  BY <4>1 DEF JoinsFirst
    <3> QED  BY <2>3, <3>2 DEF WriterWrites, Transit, IpcInv, IpcTypeOK
  <2> QED  BY <2>1, <2>2, <2>3
<1>2. UNCHANGED <<handed, read, gone>>
  BY DEF WriterTakes, WriterWrites
<1> QED  BY <1>1, <1>2, LinkAts, LinkAtsNext DEF IpcInv

\* The writer leaves out what it cannot serialise.
LEMMA SkipKeeps ==
    ASSUME IpcInv, NEW d \in Dirs, WriterSkips(d)
    PROVE  TransitInv'
<1>1. ASSUME NEW e \in Dirs PROVE LinkAt(Transit(e)', handed'[e], read'[e], e \notin gone')
  <2>1. LinkAt(Transit(e), handed[e], read[e], e \notin gone) /\ UNCHANGED <<handed, read, gone>>
    BY LinkAts DEF IpcInv, WriterSkips
  <2>2. CASE e # d
    <3>1. Transit(e)' = Transit(e)
      BY <2>2 DEF WriterSkips, Transit, IpcInv, IpcTypeOK
    <3> QED  BY <2>1, <3>1
  <2>3. CASE e = d
    <3>1. pipe[d] \in Seq(Texts) /\ chan[d] \in Seq(Texts) /\ handed[d] \in Seq(Texts)
      BY TransitParts DEF IpcInv
    <3>2. Transit(d) = pipe[d] \o (<<"bad">> \o chan[d]) /\ Transit(d)' = pipe[d] \o chan[d]
      <4>1. <<>> \o chan[d] = chan[d]
        BY <3>1, ConcatEmptySeq
      <4> QED  BY <4>1 DEF WriterSkips, Transit, IpcInv, IpcTypeOK
    <3>3. "bad" \in Texts /\ ~Readable("bad")
      BY DEF Texts, Readable
    <3>4. \A n, m : Holds(Transit(d), handed[d], n, m) => Holds(Transit(d)', handed[d], n, m)
      BY <3>1, <3>2, <3>3, SkipHolds
    <3> QED  BY <2>1, <2>3, <3>4 DEF LinkAt
  <2> QED  BY <2>2, <2>3
<1> QED  BY <1>1, LinkAtsNext

\* What was not yet in the pipe is lost with the writer.
LEMMA LossKeeps ==
    ASSUME IpcInv, (\E d \in Dirs : WriterFails(d)) \/ (\E p \in {"server", "streamer"} : Dies(p))
    PROVE  TransitInv'
<1>1. ASSUME NEW e \in Dirs PROVE LinkAt(Transit(e)', handed'[e], read'[e], e \notin gone')
  <2>1. LinkAt(Transit(e), handed[e], read[e], e \notin gone) /\ UNCHANGED <<handed, read, pipe>>
    BY LinkAts DEF IpcInv, WriterFails, Dies
  <2>2. /\ pipe[e] \in Seq(Texts) /\ writing[e] \in Seq(Texts) /\ chan[e] \in Seq(Texts)
        /\ handed[e] \in Seq(Texts)
    BY TransitParts DEF IpcInv
  <2>3. CASE chan'[e] = chan[e] /\ writing'[e] = writing[e] /\ (e \in gone' <=> e \in gone)
    BY <2>1, <2>3 DEF Transit
  <2>4. CASE chan'[e] = <<>> /\ writing'[e] = <<>> /\ e \in gone'
    <3>1. writing[e] \o chan[e] \in Seq(Texts) /\ <<>> \o <<>> = <<>> /\ pipe[e] \o <<>> = pipe[e]
      BY <2>2, ConcatProperties, ConcatEmptySeq
    <3>2. Transit(e)' = pipe[e]
      BY <2>1, <2>4, <3>1 DEF Transit
    <3>3. PICK m : Holds(pipe[e] \o (writing[e] \o chan[e]), handed[e], Len(read[e]), m)
      BY <2>1 DEF LinkAt, Transit
    <3>4. \E l \in 0..Len(handed[e]) : Holds(pipe[e], handed[e], Len(read[e]), l)
      BY <2>2, <3>1, <3>3, CutHolds
    <3> QED  BY <2>1, <2>4, <3>2, <3>4 DEF LinkAt
  <2>5. CASE \E d \in Dirs : WriterFails(d)
    BY <2>3, <2>4, <2>5 DEF WriterFails, IpcInv, IpcTypeOK
  <2>6. CASE \E p \in {"server", "streamer"} : Dies(p)
    BY <2>3, <2>4, <2>6 DEF Dies
  <2> QED  BY <2>5, <2>6
<1> QED  BY <1>1, LinkAtsNext

\* recv() returns the next message of the history, or leaves out a bad line.
LEMMA RecvKeeps ==
    ASSUME IpcInv, NEW d \in Dirs, RecvMessage(d) \/ RecvSkips(d)
    PROVE  /\ TransitInv'
           /\ RecvMessage(d) => /\ Len(read[d]) + 1 <= Len(handed[d])
                                /\ read'[d] = SubSeq(handed[d], 1, Len(read[d]) + 1)
<1> DEFINE h == handed[d]  r == read[d]  q == Transit(d)
<1>1. /\ pipe[d] \in Seq(Texts) /\ writing[d] \in Seq(Texts) /\ chan[d] \in Seq(Texts)
      /\ q \in Seq(Texts) /\ h \in Seq(Texts) /\ r \in Seq(Texts) /\ pipe[d] # <<>>
  BY TransitParts DEF IpcInv, RecvMessage, RecvSkips
<1>2. q # <<>> /\ Head(q) = Head(pipe[d]) /\ Tail(q) = Tail(pipe[d]) \o (writing[d] \o chan[d])
  <2>1. \A a, b \in Seq(Texts) :
            a # <<>> => a \o b # <<>> /\ Head(a \o b) = Head(a) /\ Tail(a \o b) = Tail(a) \o b
    BY FrontPart
  <2>2. \A b, c \in Seq(Texts) : b \o c \in Seq(Texts)
    BY ConcatProperties
  <2>3. writing[d] \o chan[d] \in Seq(Texts)
    BY <1>1, <2>2
  <2> QED  BY <1>1, <2>1, <2>3 DEF Transit
<1>3. UNCHANGED <<handed, gone, writing, chan>> /\ pipe' = [pipe EXCEPT ![d] = Tail(@)]
  BY DEF RecvMessage, RecvSkips
<1>4. Transit(d)' = Tail(q)
  BY <1>2, <1>3 DEF Transit, IpcInv, IpcTypeOK
<1>5. PICK m \in 0..Len(h) : Holds(q, h, Len(r), m) /\ (d \notin gone => m = Len(h))
  BY LinkAts DEF IpcInv, LinkAt
<1>6. Len(r) \in Nat /\ Len(r) <= Len(h) /\ r = SubSeq(h, 1, Len(r))
  BY <1>1, LinkAts DEF IpcInv, LinkAt
<1>7. CASE RecvMessage(d)
  <2>1. Len(r) + 1 <= Len(h) /\ Head(pipe[d]) = h[Len(r) + 1] /\ Holds(Tail(q), h, Len(r) + 1, m)
    BY <1>1, <1>2, <1>5, <1>6, <1>7, TakeHolds DEF RecvMessage
  <2>2. read'[d] = Append(r, h[Len(r) + 1])
    BY <1>7, <2>1 DEF RecvMessage, IpcInv, IpcTypeOK
  <2>3. Len(read'[d]) = Len(r) + 1
    BY <1>1, <2>2
  <2>4. read'[d] = SubSeq(h, 1, Len(r) + 1)
    BY <1>1, <1>6, <2>1, <2>2
  <2>5. LinkAt(Transit(d)', handed'[d], read'[d], d \notin gone')
    BY <1>3, <1>4, <1>5, <2>1, <2>3, <2>4 DEF LinkAt
  <2>6. ASSUME NEW e \in Dirs, e # d
        PROVE  LinkAt(Transit(e)', handed'[e], read'[e], e \notin gone')
    <3>1. Transit(e)' = Transit(e) /\ read'[e] = read[e]
      BY <1>3, <1>7, <2>6 DEF RecvMessage, Transit, IpcInv, IpcTypeOK
    <3> QED  BY <1>3, <3>1, LinkAts DEF IpcInv
  <2> QED  BY <2>1, <2>4, <2>5, <2>6, LinkAtsNext
<1>8. CASE RecvSkips(d)
  <2>1. Holds(Tail(q), h, Len(r), m) /\ read' = read
    BY <1>1, <1>2, <1>5, <1>6, <1>8, TakeHolds DEF RecvSkips, Readable
  <2>2. LinkAt(Transit(d)', handed'[d], read'[d], d \notin gone')
    BY <1>3, <1>4, <1>5, <1>6, <2>1 DEF LinkAt
  <2>3. ASSUME NEW e \in Dirs, e # d
        PROVE  LinkAt(Transit(e)', handed'[e], read'[e], e \notin gone')
    <3>1. Transit(e)' = Transit(e) /\ read'[e] = read[e]
      BY <1>3, <2>1, <2>3 DEF Transit, IpcInv, IpcTypeOK
    <3> QED  BY <1>3, <3>1, LinkAts DEF IpcInv
  <2>4. ~RecvMessage(d)
    BY <1>8 DEF RecvSkips, RecvMessage, Readable
  <2> QED  BY <2>2, <2>3, <2>4, LinkAtsNext
<1> QED  BY <1>7, <1>8

LEMMA OthersKeep ==
    ASSUME IpcInv, \/ RouterHandsOver \/ BrowserReads \/ UNCHANGED ipcVars
                   \/ \E d \in Dirs : RecvNone(d) \/ RecvFails(d)
    PROVE  TransitInv'
<1>1. UNCHANGED <<handed, pipe, writing, chan, read, gone>>
  BY DEF RouterHandsOver, BrowserReads, RecvNone, RecvFails, ipcVars
<1>2. \A d \in Dirs : Transit(d)' = Transit(d)
  BY <1>1 DEF Transit
<1> QED  BY <1>1, <1>2, LinkAts, LinkAtsNext DEF IpcInv

LEMMA SendKeeps ==
    ASSUME IpcInv, ServerSends \/ StreamerSends \/ LoopAnswers
    PROVE  TransitInv'
<1> USE IpcFacts
<1>1. CASE ServerSends
  <2>1. Head(toSend) \in Texts
    BY <1>1 DEF ServerSends, IpcInv, IpcTypeOK
  <2> QED  BY <1>1, <2>1, PutKeeps DEF ServerSends
<1>2. CASE StreamerSends
  BY <1>2, PutKeeps DEF StreamerSends
<1>3. CASE LoopAnswers
  BY <1>3, PutKeeps DEF LoopAnswers
<1> QED  BY <1>1, <1>2, <1>3

LEMMA IpcInvHolds == IpcSpec => []IpcInv
<1>1. IpcInit => IpcInv
  <2> SUFFICES ASSUME IpcInit PROVE IpcInv
    OBVIOUS
  <2>1. <<>> \in Seq(Texts) /\ Len(<<>>) = 0 /\ <<>> \o (<<>> \o <<>>) = <<>>
    OBVIOUS
  <2>2. IpcTypeOK
    BY <2>1, IpcFacts DEF IpcInit, IpcTypeOK
  <2>3. Holds(<<>>, <<>>, 0, 0)
    <3>1. Matching(<<>>, <<>>, [i \in 0..0 |-> 0])
      BY DEF Matching
    <3> QED  BY <3>1 DEF Holds
  <2>4. \A d \in Dirs : handed[d] = <<>> /\ read[d] = <<>> /\ Transit(d) = <<>>
    BY <2>1 DEF IpcInit, Transit
  <2>5. <<>> = SubSeq(<<>>, 1, 0) /\ 0 \in 0..0
    OBVIOUS
  <2>6. ASSUME NEW d \in Dirs PROVE LinkAt(Transit(d), handed[d], read[d], d \notin gone)
    <3>1. \A w \in BOOLEAN : LinkAt(<<>>, <<>>, <<>>, w)
      BY <2>1, <2>3, <2>5 DEF LinkAt
    <3> QED  BY <2>4, <3>1
  <2>7. TransitInv
    BY <2>6 DEF TransitInv, LinkAt
  <2> QED  BY <2>2, <2>7 DEF IpcInv
<1>2. IpcInv /\ [IpcNext]_ipcVars => IpcInv'
  <2> SUFFICES ASSUME IpcInv, [IpcNext]_ipcVars PROVE TransitInv'
    BY IpcTypesKept DEF IpcInv
  <2> QED  BY SendKeeps, WriterKeeps, SkipKeeps, LossKeeps, RecvKeeps, OthersKeep
           DEF IpcNext, WriterStep, RecvStep
<1> QED  BY <1>1, <1>2, PTL DEF IpcSpec

-----------------------------------------------------------------------------
(* The theorems *)

\* The types; no channel, pipe or session holds more than it has room for.
THEOREM IpcTypeSafe == IpcSpec => []IpcTypeOK
<1>1. IpcInv => IpcTypeOK
  BY DEF IpcInv
<1> QED  BY <1>1, IpcInvHolds, PTL

\* A step sends a message that can be read, or receives the next one, in one direction.
LEMMA IpcLinkStep ==
    ASSUME IpcInv, [IpcNext]_ipcVars
    PROVE  \A d \in Dirs :
              \/ UNCHANGED <<handed[d], read[d]>>
              \/ \E m \in Texts : handed'[d] = Append(handed[d], m) /\ read'[d] = read[d]
              \/ /\ \E n \in Len(read[d])..Len(handed[d]) : read'[d] = SubSeq(handed[d], 1, n)
                 /\ handed'[d] = handed[d]
<1> USE IpcFacts
<1> TAKE d \in Dirs
<1>1. ASSUME NEW e \in Dirs, NEW m \in Texts, Put(e, m)
      PROVE  handed'[d] = handed[d] \/ \E x \in Texts : handed'[d] = Append(handed[d], x)
  <2>1. handed' = handed \/ handed' = [handed EXCEPT ![e] = Append(handed[e], m)]
    BY <1>1 DEF Put, Hands
  <2> QED  BY <2>1 DEF IpcInv, IpcTypeOK
<1>2. CASE ServerSends \/ StreamerSends \/ LoopAnswers
  <2>1. toSend # <<>> => Head(toSend) \in Texts
    <3>1. toSend \in Seq(Texts)
      BY DEF IpcInv, IpcTypeOK
    <3> QED  BY ONLY <3>1
  <2> QED  BY <1>1, <1>2, <2>1 DEF ServerSends, StreamerSends, LoopAnswers
<1>3. ASSUME NEW e \in Dirs, RecvMessage(e)
      PROVE  \/ UNCHANGED <<handed[d], read[d]>>
             \/ /\ \E n \in Len(read[d])..Len(handed[d]) : read'[d] = SubSeq(handed[d], 1, n)
                /\ handed'[d] = handed[d]
  <2>1. CASE e # d
    BY <1>3, <2>1 DEF RecvMessage, IpcInv, IpcTypeOK
  <2>2. CASE e = d
    <3>1. read[d] \in Seq(Texts) /\ handed[d] \in Seq(Texts)
      BY TransitParts DEF IpcInv
    <3>2. Len(read[d]) + 1 \in Len(read[d])..Len(handed[d])
      BY <1>3, <2>2, <3>1, RecvKeeps
    <3> QED  BY <1>3, <2>2, <3>2, RecvKeeps DEF RecvMessage
  <2> QED  BY <2>1, <2>2
<1>4. CASE \/ RouterHandsOver \/ BrowserReads \/ UNCHANGED ipcVars
           \/ \E e \in Dirs : WriterStep(e) \/ RecvSkips(e) \/ RecvNone(e) \/ RecvFails(e)
           \/ \E p \in {"server", "streamer"} : Dies(p)
  BY <1>4 DEF RouterHandsOver, BrowserReads, ipcVars, WriterStep, WriterTakes, WriterSkips,
     WriterWrites, WriterFails, RecvSkips, RecvNone, RecvFails, Dies
<1> QED  BY <1>2, <1>3, <1>4 DEF IpcNext, RecvStep

\* Whatever dies, fills up or cannot be parsed, each end of the pipes receives a prefix of what
\* the other has handed over, once and in order (ipc.rs:97-205).
THEOREM IpcIsALink == IpcSpec => ImplementsLink
<1> USE IpcFacts
<1>1. IpcInit => Down!LinkInit /\ Up!LinkInit
  BY DEF IpcInit, Down!LinkInit, Up!LinkInit
<1>2. IpcInv /\ [IpcNext]_ipcVars =>
        /\ [Down!Post \/ Down!Deliver]_<<handed["down"], read["down"]>>
        /\ [Up!Post \/ Up!Deliver]_<<handed["up"], read["up"]>>
  <2> SUFFICES ASSUME IpcInv, [IpcNext]_ipcVars
               PROVE  /\ [Down!Post \/ Down!Deliver]_<<handed["down"], read["down"]>>
                      /\ [Up!Post \/ Up!Deliver]_<<handed["up"], read["up"]>>
    OBVIOUS
  <2>1. [Down!Post \/ Down!Deliver]_<<handed["down"], read["down"]>>
    BY IpcLinkStep DEF Down!Post, Down!Deliver
  <2>2. [Up!Post \/ Up!Deliver]_<<handed["up"], read["up"]>>
    BY IpcLinkStep DEF Up!Post, Up!Deliver
  <2> QED  BY <2>1, <2>2
<1> QED  BY <1>1, <1>2, IpcInvHolds, PTL
         DEF IpcSpec, ImplementsLink, Down!LinkSpec, Up!LinkSpec

-----------------------------------------------------------------------------
(***************************************************************************)
(* The video packets. Those of a frame without failures are recorded until *)
(* its parity covers them.                                                 *)
(***************************************************************************)

PacketNumbers == [seq : 0..(SeqModulus - 1), ts : 1..MaxFrames]
Written  == [kind : {"media", "parity"}, seq : 0..(SeqModulus - 1), ts : 1..MaxFrames,
             covers : SUBSET PacketNumbers]

\* The packets on their way to the wire, in order.
Way == queue \o (channel \o todo)

\* The callback ends before the decoder is dropped, and sample_sender after that.
CallbackFirst ==
    /\ dropped \/ track \in {"none", "failed"} => todo = <<>>
    /\ sender = "ended" => dropped

\* Only a track with error correction records packets, none is written without a track, or
\* before its payload types are known.
TrackFirst ==
    /\ track # "fec" => pending = <<>>
    /\ track \in {"none", "unresolved"} => wire = <<>>

\* Frames follow one another, and the marker is on the last packet of a frame.
InOrder(way, f) ==
    \A i \in 1..Len(way) :
        /\ way[i].ts <= f
        /\ \A j \in i + 1..Len(way) :
              /\ way[i].ts <= way[j].ts
              /\ way[i].marker => way[i].ts < way[j].ts

\* The recorded packets are of one frame, no later than those on their way.
OneFrame(rec, way, f) ==
    \A i \in 1..Len(rec) :
        /\ rec[i].ts = rec[1].ts /\ rec[i].ts <= f
        /\ \A j \in 1..Len(way) : rec[i].ts <= way[j].ts

\* The k-th sequence number after another.
Ahead(a, k) == IF a + k < SeqModulus THEN a + k ELSE a + k - SeqModulus

\* Recorded packets have consecutive numbers, up to the next one.
InRow(rec, next) ==
    \A i \in 1..Len(rec) :
        /\ \A j \in i..Len(rec) :
              j - i < SeqModulus => rec[j].seq = Ahead(rec[i].seq, j - i)
        /\ Len(rec) + 1 - i < SeqModulus => next = Ahead(rec[i].seq, Len(rec) + 1 - i)

\* Nothing more of a frame is on its way.
Over(ts, way) == \A j \in 1..Len(way) : ts < way[j].ts

RightGroup(grp, ts) ==
    /\ Cardinality(grp) \in 1..GroupSize
    /\ \E first \in grp : \A n \in grp : n.ts = ts /\ Distance(first, n) < MaskBits

\* A frame gets its parity when it is over.
ParityIsLast(wr, way, rec) ==
    \A k \in 1..Len(wr) : wr[k].kind = "parity" =>
        /\ RightGroup(wr[k].covers, wr[k].ts)
        /\ Over(wr[k].ts, way)
        /\ \A i \in 1..Len(rec) : wr[k].ts < rec[i].ts

ParityOnlyWithFec == \A k \in 1..Len(wire) : wire[k].kind = "parity" => track = "fec"

HasParity(ts, wr) == \E k \in 1..Len(wr) : wr[k].kind = "parity" /\ wr[k].ts = ts
Covered(m, wr)    == \E k \in 1..Len(wr) : wr[k].kind = "parity" /\ Number(m) \in wr[k].covers
Awaits(m, rec)    == \E i \in 1..Len(rec) : rec[i] = Number(m)

\* A packet of a frame without failures is recorded until it is covered, unless its frame
\* is over without parity.
IsKept(m, wr, way, rec, bad) ==
    \/ m.ts \in bad
    \/ Awaits(m, rec)
    \/ Covered(m, wr)
    \/ ~HasParity(m.ts, wr) /\ Over(m.ts, way)

MediaIsKept(wr, way, rec, bad) ==
    \A j \in 1..Len(wr) : wr[j].kind = "media" => IsKept(wr[j], wr, way, rec, bad)

WrittenBy(wr, f) == \A j \in 1..Len(wr) : wr[j].ts <= f

VideoInv ==
    /\ VideoTypeOK /\ wire \in Seq(Written)
    /\ CallbackFirst /\ TrackFirst
    /\ InOrder(Way, frame) /\ OneFrame(pending, Way, frame) /\ InRow(pending, seq)
    /\ WrittenBy(wire, frame)
    /\ ParityOnlyWithFec /\ ParityIsLast(wire, Way, pending)
    /\ track = "fec" => MediaIsKept(wire, Way, pending, broken)

LEMMA VideoConstants ==
    /\ MaxFrames \in Nat
    /\ ChannelSize \in Nat /\ PaceQueueMax \in Nat /\ GroupSize \in Nat /\ GroupSize > 0
    /\ MaskBits \in Nat /\ SeqModulus \in Nat /\ SeqModulus > 0 /\ MaxPauses \in Nat
    /\ GroupSize <= MaskBits /\ MaskBits <= SeqModulus
    /\ \A i \in 1..MaxFrames : FrameSizes[i] \in Nat
<1>1. /\ FrameSizes \in Seq(Nat) /\ GroupSize <= MaskBits /\ MaskBits <= SeqModulus
      /\ ChannelSize \in Nat \ {0} /\ PaceQueueMax \in Nat \ {0} /\ GroupSize \in Nat \ {0}
      /\ MaskBits \in Nat \ {0} /\ SeqModulus \in Nat \ {0} /\ MaxPauses \in Nat \ {0}
  BY VideoAssumption
<1> QED  BY <1>1 DEF MaxFrames

-----------------------------------------------------------------------------
(* Numbers and groups *)

\* Sequence numbers that follow one another.
LEMMA NextNumber ==
    ASSUME NEW a \in 0..SeqModulus - 1
    PROVE  /\ (a + 1) % SeqModulus = Ahead(a, 1) /\ Ahead(a, 0) = a
           /\ \A k \in Nat : k + 1 < SeqModulus => Ahead(Ahead(a, k), 1) = Ahead(a, k + 1)
<1> USE VideoConstants
<1>1. (a + 1) % SeqModulus = Ahead(a, 1)
  <2>1. CASE a + 1 < SeqModulus
    BY <2>1 DEF Ahead
  <2>2. CASE a + 1 = SeqModulus
    <3>1. SeqModulus % SeqModulus = 0
      OBVIOUS
    <3> QED  BY <2>2, <3>1 DEF Ahead
  <2> QED  BY <2>1, <2>2
<1> QED  BY <1>1 DEF Ahead

\* How far apart two numbers of a row are.
LEMMA HowFar ==
    ASSUME NEW m \in PacketNumbers, NEW n \in PacketNumbers, NEW k \in Nat, k < SeqModulus,
           n.seq = Ahead(m.seq, k)
    PROVE  Distance(m, n) = k
<1> USE VideoConstants
<1> DEFINE a == m.seq
<1>1. a \in 0..SeqModulus - 1
  BY DEF PacketNumbers
<1> HIDE DEF a
<1>2. CASE a + k < SeqModulus
  <2>1. n.seq + SeqModulus - a = k + SeqModulus
    BY <1>1, <1>2 DEF Ahead, a
  <2>2. (k + SeqModulus) % SeqModulus = k
    OBVIOUS
  <2> QED  BY <2>1, <2>2 DEF Distance, a
<1>3. CASE ~(a + k < SeqModulus)
  <2>1. n.seq + SeqModulus - a = k
    BY <1>1, <1>3 DEF Ahead, a
  <2>2. k % SeqModulus = k
    OBVIOUS
  <2> QED  BY <2>1, <2>2 DEF Distance, a
<1> QED  BY <1>2, <1>3

\* One more packet is recorded.
LEMMA RowGrows ==
    ASSUME NEW rec \in Seq(PacketNumbers), NEW s \in 0..SeqModulus - 1, NEW t \in 1..MaxFrames,
           InRow(rec, s)
    PROVE  InRow(Append(rec, [seq |-> s, ts |-> t]), (s + 1) % SeqModulus)
<1> USE VideoConstants
<1> DEFINE e == [seq |-> s, ts |-> t]  more == Append(rec, e)
<1>1. /\ e \in PacketNumbers /\ e.seq = s /\ more \in Seq(PacketNumbers) /\ Len(more) = Len(rec) + 1
      /\ Len(rec) \in Nat /\ more[Len(rec) + 1] = e /\ \A i \in 1..Len(rec) : more[i] = rec[i]
  BY DEF PacketNumbers
<1>2. \A i \in 1..Len(rec) : rec[i].seq \in 0..SeqModulus - 1
  <2>1. \A i \in 1..Len(rec) : rec[i] \in PacketNumbers
    OBVIOUS
  <2> QED  BY <2>1 DEF PacketNumbers
<1> HIDE DEF e, more
<1> SUFFICES ASSUME NEW i \in 1..Len(more)
             PROVE  /\ \A j \in i..Len(more) :
                          j - i < SeqModulus => more[j].seq = Ahead(more[i].seq, j - i)
                    /\ Len(more) + 1 - i < SeqModulus =>
                          (s + 1) % SeqModulus = Ahead(more[i].seq, Len(more) + 1 - i)
  BY DEF InRow, e, more
<1>3. CASE i = Len(more)
  BY <1>1, <1>3, NextNumber
<1>4. CASE i \in 1..Len(rec)
  <2>1. /\ more[i] = rec[i] /\ rec[i].seq \in 0..SeqModulus - 1
        /\ \A j \in i..Len(rec) :
              j - i < SeqModulus => more[j].seq = Ahead(rec[i].seq, j - i)
    <3>1. \A j \in i..Len(rec) : more[j] = rec[j]
      BY <1>1, <1>4
    <3>2. \A j \in i..Len(rec) : j - i < SeqModulus => rec[j].seq = Ahead(rec[i].seq, j - i)
      BY <1>4 DEF InRow
    <3> QED  BY <1>1, <1>2, <1>4, <3>1, <3>2
  <2>2. Len(rec) + 1 - i < SeqModulus => s = Ahead(rec[i].seq, Len(rec) + 1 - i)
    BY <1>4 DEF InRow
  <2>3. Len(rec) + 1 - i \in Nat /\ Len(more) + 1 - i = (Len(rec) + 1 - i) + 1
    BY <1>1, <1>4
  <2>4. ASSUME Len(more) + 1 - i < SeqModulus
        PROVE  (s + 1) % SeqModulus = Ahead(rec[i].seq, Len(more) + 1 - i)
    <3> DEFINE k == Len(rec) + 1 - i
    <3>1. k \in Nat /\ k + 1 < SeqModulus /\ s = Ahead(rec[i].seq, k) /\ Len(more) + 1 - i = k + 1
      BY <2>2, <2>3, <2>4
    <3> HIDE DEF k
    <3>2. Ahead(Ahead(rec[i].seq, k), 1) = Ahead(rec[i].seq, k + 1)
      BY <2>1, <3>1, NextNumber
    <3>3. (s + 1) % SeqModulus = Ahead(s, 1)
      BY NextNumber
    <3> QED  BY <3>1, <3>2, <3>3
  <2>5. \A j \in i..Len(more) : j \in i..Len(rec) \/ j = Len(rec) + 1
    BY <1>1, <1>4
  <2>6. more[Len(rec) + 1].seq = s
    BY <1>1
  <2>7. ASSUME NEW j \in i..Len(more), j - i < SeqModulus
        PROVE  more[j].seq = Ahead(more[i].seq, j - i)
    <3>1. CASE j \in i..Len(rec)
      BY <2>1, <2>7, <3>1
    <3>2. CASE j = Len(rec) + 1
      BY <2>1, <2>2, <2>6, <2>7, <3>2
    <3> QED  BY <2>5, <3>1, <3>2
  <2> QED  BY <2>1, <2>4, <2>7
<1> QED  BY <1>1, <1>3, <1>4

\* Every recorded packet is in a group, and a group has as many as a mask can name.
LEMMA GroupsCover ==
    ASSUME NEW rec \in Seq(PacketNumbers), NEW i \in 1..Len(rec)
    PROVE  \E g \in 1..Len(Groups(rec)) : rec[i] \in Groups(rec)[g]
<1> USE VideoConstants
<1> DEFINE n == (Len(rec) + GroupSize - 1) \div GroupSize  g == (i - 1) \div GroupSize + 1
<1>1. i - 1 \in Nat /\ Len(rec) \in Nat /\ n \in Nat /\ g \in Nat \ {0}
  OBVIOUS
<1>2. ((i - 1) + GroupSize) \div GroupSize = g
  BY <1>1
<1>3. (i - 1) + GroupSize <= Len(rec) + GroupSize - 1
  BY <1>1
<1>4. g <= n
  <2>1. \A x, y \in Nat : x <= y => x \div GroupSize <= y \div GroupSize
    OBVIOUS
  <2>2. (i - 1) + GroupSize \in Nat /\ Len(rec) + GroupSize - 1 \in Nat
    BY <1>1
  <2> QED  BY <1>2, <1>3, <2>1, <2>2
<1>5. (i - 1) \div GroupSize = g - 1
  BY <1>1
<1> HIDE DEF n, g
<1>6. Len(Groups(rec)) = n /\ Groups(rec)[g] = {rec[j] : j \in {l \in 1..Len(rec) : (l - 1) \div GroupSize = g - 1}}
  <2>1. g \in 1..n
    BY <1>1, <1>4
  <2>2. Groups(rec) = [h \in 1..n |->
           {rec[j] : j \in {l \in 1..Len(rec) : (l - 1) \div GroupSize = h - 1}}]
    BY DEF Groups, n
  <2>3. Len(Groups(rec)) = n
    BY <1>1, <2>2
  <2> QED  BY <2>1, <2>2, <2>3
<1>7. rec[i] \in Groups(rec)[g]
  BY <1>5, <1>6
<1>8. g \in 1..Len(Groups(rec))
  BY <1>1, <1>4, <1>6
<1> QED  BY <1>7, <1>8

LEMMA GroupsAreRight ==
    ASSUME NEW rec \in Seq(PacketNumbers), NEW t, NEW next, InRow(rec, next),
           \A i \in 1..Len(rec) : rec[i].ts = t,
           NEW g \in 1..Len(Groups(rec))
    PROVE  RightGroup(Groups(rec)[g], t) /\ Groups(rec)[g] \in SUBSET PacketNumbers
<1> USE VideoConstants
<1> DEFINE n == (Len(rec) + GroupSize - 1) \div GroupSize
           lo == (g - 1) * GroupSize
           idx == {l \in 1..Len(rec) : (l - 1) \div GroupSize = g - 1}
           grp == {rec[j] : j \in idx}
<1>1. Len(rec) \in Nat /\ n \in Nat /\ g \in 1..n /\ Groups(rec)[g] = grp
  <2>1. Groups(rec) = [h \in 1..n |->
           {rec[j] : j \in {l \in 1..Len(rec) : (l - 1) \div GroupSize = h - 1}}]
    BY DEF Groups
  <2>2. Len(rec) \in Nat /\ n \in Nat
    OBVIOUS
  <2> HIDE DEF n
  <2>3. Len(Groups(rec)) = n
    BY <2>1, <2>2
  <2> QED  BY <2>1, <2>2, <2>3
<1>2. lo \in Nat /\ lo + 1 <= Len(rec)
  <2>1. g * GroupSize <= Len(rec) + GroupSize - 1
    <3>1. n * GroupSize <= Len(rec) + GroupSize - 1
      BY <1>1
    <3>2. g * GroupSize <= n * GroupSize
      <4> HIDE DEF n
      <4> QED  BY <1>1
    <3> HIDE DEF n
    <3> QED  BY <1>1, <3>1, <3>2
  <2>2. lo = g * GroupSize - GroupSize /\ lo \in Nat
    BY <1>1
  <2> HIDE DEF lo
  <2> QED  BY <1>1, <2>1, <2>2
<1>3. idx \subseteq lo + 1..lo + GroupSize /\ lo + 1 \in idx
  <2>1. \A l \in Nat \ {0} : (l - 1) \div GroupSize = g - 1 => lo <= l - 1 /\ l - 1 < lo + GroupSize
    BY <1>1
  <2>2. lo \div GroupSize = g - 1
    BY <1>1
  <2>3. \A l \in idx : l \in Nat \ {0} /\ (l - 1) \div GroupSize = g - 1
    BY <1>1
  <2>4. lo + 1 \in 1..Len(rec) /\ (lo + 1) - 1 = lo
    <3> HIDE DEF lo
    <3> QED  BY <1>1, <1>2
  <2>5. lo + 1 \in idx
    BY <2>2, <2>4
  <2> HIDE DEF lo, idx
  <2>6. ASSUME NEW l \in idx PROVE l \in lo + 1..lo + GroupSize
    <3>1. l \in Nat \ {0} /\ lo <= l - 1 /\ l - 1 < lo + GroupSize
      BY <2>1, <2>3
    <3> QED  BY <1>2, <3>1
  <2> QED  BY <2>5, <2>6
<1>4. Cardinality(grp) \in 1..GroupSize
  <2> HIDE DEF lo
  <2>1. /\ IsFiniteSet(lo + 1..lo + GroupSize)
        /\ Cardinality(lo + 1..lo + GroupSize) = GroupSize
    BY <1>2, FS_Interval
  <2> HIDE DEF idx
  <2>2. IsFiniteSet(idx) /\ Cardinality(idx) <= GroupSize
    <3>1. \A S, T : IsFiniteSet(S) /\ T \subseteq S
                      => IsFiniteSet(T) /\ Cardinality(T) <= Cardinality(S)
      BY FS_Subset
    <3> QED  BY <1>3, <2>1, <3>1
  <2>3. IsFiniteSet(grp) /\ Cardinality(grp) <= Cardinality(idx)
    <3> DEFINE f == [j \in idx |-> rec[j]]
    <3>1. f \in Surjection(idx, grp)
      BY DEF Surjection
    <3> HIDE DEF f, grp
    <3> QED  BY <2>2, <3>1, FS_Surjection
  <2>4. rec[lo + 1] \in grp
    BY <1>3
  <2> HIDE DEF grp
  <2>5. Cardinality(grp) \in Nat /\ Cardinality(idx) \in Nat /\ Cardinality(grp) # 0
    BY <2>2, <2>3, <2>4, FS_CardinalityType, FS_EmptySet
  <2> QED  BY <2>2, <2>3, <2>5
<1>5. \A j \in idx : rec[j] \in PacketNumbers /\ rec[j].ts = t
  OBVIOUS
<1>6. \A j \in idx : Distance(rec[lo + 1], rec[j]) < MaskBits
  <2> SUFFICES ASSUME NEW j \in idx PROVE Distance(rec[lo + 1], rec[j]) < MaskBits
    OBVIOUS
  <2>1. j \in lo + 1..lo + GroupSize /\ j \in 1..Len(rec) /\ lo + 1 \in 1..Len(rec)
    BY <1>2, <1>3
  <2> HIDE DEF lo, idx
  <2> DEFINE k == j - (lo + 1)
  <2>2. k \in Nat /\ k < SeqModulus /\ k < MaskBits /\ j \in lo + 1..Len(rec)
    BY <1>2, <2>1
  <2>3. rec[j].seq = Ahead(rec[lo + 1].seq, k)
    BY <2>1, <2>2 DEF InRow
  <2>4. rec[j] \in PacketNumbers /\ rec[lo + 1] \in PacketNumbers
    BY <2>1
  <2> HIDE DEF k
  <2> QED  BY <2>2, <2>3, <2>4, HowFar
<1>7. \E first \in grp : \A m \in grp : m.ts = t /\ Distance(first, m) < MaskBits
  <2>1. rec[lo + 1] \in grp
    BY <1>3
  <2>2. \A m \in grp : m.ts = t /\ Distance(rec[lo + 1], m) < MaskBits
    BY <1>5, <1>6
  <2> QED  BY <2>1, <2>2
<1>8. grp \in SUBSET PacketNumbers
  BY <1>5
<1> HIDE DEF grp
<1> QED  BY <1>1, <1>4, <1>7, <1>8 DEF RightGroup

-----------------------------------------------------------------------------
(* The packets on their way *)

\* v is w without its first s packets.
RestOf(w, v, s) == Len(w) = Len(v) + s /\ \A i \in 1..Len(v) : v[i] = w[i + s]

LEMMA WayTypes ==
    ASSUME VideoTypeOK
    PROVE  /\ queue \in Seq(Packet) /\ channel \in Seq(Packet) /\ todo \in Seq(Packet)
           /\ Way \in Seq(Packet) /\ channel \o todo \in Seq(Packet)
<1>1. queue \in Seq(Packet) /\ channel \in Seq(Packet) /\ todo \in Seq(Packet)
  BY DEF VideoTypeOK
<1>2. channel \o todo \in Seq(Packet)
  BY <1>1, ConcatProperties
<1> QED  BY <1>1, <1>2, ConcatProperties DEF Way

\* What the rest of a way keeps.
LEMMA LessKeeps ==
    ASSUME NEW w \in Seq(Packet), NEW v \in Seq(Packet), NEW s \in Nat, RestOf(w, v, s),
           NEW f \in Nat
    PROVE  /\ InOrder(w, f) => InOrder(v, f)
           /\ \A rec \in Seq(PacketNumbers) : OneFrame(rec, w, f) => OneFrame(rec, v, f)
           /\ \A t : Over(t, w) => Over(t, v)
           /\ \A wr, rec : ParityIsLast(wr, w, rec) => ParityIsLast(wr, v, rec)
           /\ \A m, wr, rec, bad : IsKept(m, wr, w, rec, bad) => IsKept(m, wr, v, rec, bad)
           /\ \A wr, rec, bad : MediaIsKept(wr, w, rec, bad) => MediaIsKept(wr, v, rec, bad)
<1>1. /\ Len(w) \in Nat /\ Len(v) \in Nat /\ \A i \in 1..Len(v) : i + s \in 1..Len(w) /\ v[i] = w[i + s]
      /\ \A i \in 1..Len(v) : \A j \in i + 1..Len(v) : j + s \in (i + s) + 1..Len(w)
  BY DEF RestOf
<1>2. InOrder(w, f) => InOrder(v, f)
  <2> SUFFICES ASSUME InOrder(w, f), NEW i \in 1..Len(v)
               PROVE  /\ v[i].ts <= f
                      /\ \A j \in i + 1..Len(v) :
                            /\ v[i].ts <= v[j].ts
                            /\ v[i].marker => v[i].ts < v[j].ts
    BY DEF InOrder
  <2>1. /\ w[i + s].ts <= f
        /\ \A j \in (i + s) + 1..Len(w) :
              /\ w[i + s].ts <= w[j].ts
              /\ w[i + s].marker => w[i + s].ts < w[j].ts
    BY <1>1 DEF InOrder
  <2>2. \A j \in i + 1..Len(v) : j \in 1..Len(v)
    BY <1>1
  <2> QED  BY <1>1, <2>1, <2>2
<1>3. \A t : Over(t, w) => Over(t, v)
  BY <1>1 DEF Over
<1>4. \A rec \in Seq(PacketNumbers) : OneFrame(rec, w, f) => OneFrame(rec, v, f)
  BY <1>1 DEF OneFrame
<1>5. \A wr, rec : ParityIsLast(wr, w, rec) => ParityIsLast(wr, v, rec)
  BY <1>3 DEF ParityIsLast
<1>6. \A m, wr, rec, bad : IsKept(m, wr, w, rec, bad) => IsKept(m, wr, v, rec, bad)
  BY <1>3 DEF IsKept
<1> QED  BY <1>2, <1>3, <1>4, <1>5, <1>6 DEF MediaIsKept

\* What is before an earlier frame is before a later one.
LEMMA EarlierYet ==
    ASSUME NEW a \in 1..MaxFrames, NEW b \in 1..MaxFrames, NEW c \in 1..MaxFrames, a < b, b <= c
    PROVE  a < c
BY VideoConstants

\* BlockingSend, WaitReceives and Drain move packets along the way, Drain may lose the first
\* ones, Write takes the first one.
LEMMA Moves ==
    ASSUME NEW a \in Seq(Packet), NEW b \in Seq(Packet), NEW c \in Seq(Packet)
    PROVE  /\ c # <<>> => a \o (Append(b, Head(c)) \o Tail(c)) = a \o (b \o c)
           /\ b # <<>> => Append(a, Head(b)) \o (Tail(b) \o c) = a \o (b \o c)
           /\ (a \o b) \o (<<>> \o c) = a \o (b \o c)
           /\ RestOf(a \o (b \o c), <<>> \o (<<>> \o c), Len(a) + Len(b))
           /\ a # <<>> => /\ a \o (b \o c) # <<>> /\ Head(a \o (b \o c)) = Head(a)
                          /\ Tail(a) \o (b \o c) = Tail(a \o (b \o c))
<1>1. c # <<>> => Append(b, Head(c)) \o Tail(c) = b \o c
  BY HeadMoves
<1>2. b # <<>> => Append(a, Head(b)) \o (Tail(b) \o c) = a \o (b \o c)
  <2> SUFFICES ASSUME b # <<>> PROVE Append(a, Head(b)) \o (Tail(b) \o c) = a \o (b \o c)
    OBVIOUS
  <2>1. Head(b) \in Packet /\ Tail(b) \in Seq(Packet) /\ Append(a, Head(b)) \in Seq(Packet)
    BY HeadTailProperties, AppendProperties
  <2>2. Append(a, Head(b)) \o (Tail(b) \o c) = (Append(a, Head(b)) \o Tail(b)) \o c
    <3>1. JoinEither(Append(a, Head(b)), Tail(b), c)
      BY <2>1, JoinsEither
    <3> QED  BY <3>1 DEF JoinEither
  <2>3. (a \o b) \o c = a \o (b \o c)
    BY ConcatAssociative
  <2> QED  BY <2>2, <2>3, HeadMoves
<1>3. (a \o b) \o (<<>> \o c) = a \o (b \o c)
  BY ConcatAssociative, ConcatEmptySeq
<1>4. RestOf(a \o (b \o c), <<>> \o (<<>> \o c), Len(a) + Len(b))
  <2>1. <<>> \o (<<>> \o c) = c /\ b \o c \in Seq(Packet)
    BY ConcatEmptySeq, ConcatProperties
  <2>2. /\ Len(b \o c) = Len(b) + Len(c) /\ Len(a \o (b \o c)) = Len(a) + (Len(b) + Len(c))
        /\ Len(a) \in Nat /\ Len(b) \in Nat /\ Len(c) \in Nat
    BY <2>1, ConcatProperties, LenProperties
  <2>3. ASSUME NEW i \in 1..Len(c) PROVE (a \o (b \o c))[i + (Len(a) + Len(b))] = c[i]
    <3>1. (b \o c)[i + Len(b)] = c[i]
      BY <2>2
    <3>2. \A d \in Seq(Packet) : \A k \in 1..Len(d) : (a \o d)[k + Len(a)] = d[k]
      OBVIOUS
    <3>3. i + Len(b) \in 1..Len(b \o c) /\ (i + Len(b)) + Len(a) = i + (Len(a) + Len(b))
      BY <2>2
    <3> QED  BY <2>1, <3>1, <3>2, <3>3
  <2> QED  BY <2>1, <2>2, <2>3 DEF RestOf
<1>5. ASSUME a # <<>>
      PROVE  /\ a \o (b \o c) # <<>> /\ Head(a \o (b \o c)) = Head(a)
             /\ Tail(a) \o (b \o c) = Tail(a \o (b \o c))
  <2>1. b \o c \in Seq(Packet)
    BY ConcatProperties
  <2> QED  BY <1>5, <2>1, FrontPart
<1> QED  BY <1>1, <1>2, <1>3, <1>4, <1>5

LEMMA TailIs ==
    ASSUME NEW w \in Seq(Packet), w # <<>>
    PROVE  Tail(w) \in Seq(Packet) /\ RestOf(w, Tail(w), 1) /\ Head(w) = w[1]
BY DEF RestOf

-----------------------------------------------------------------------------
(* The packet that is written *)

\* The first packet on its way, for the writer.
IsFirst(p) == p \in Packet /\ Way # <<>> /\ Way[1] = p

Continues(rec, p) ==
    /\ rec \in Seq(PacketNumbers) /\ Len(rec) > 0 /\ rec[Len(rec)] = [seq |-> seq, ts |-> p.ts]
    /\ \A i \in 1..Len(rec) : rec[i].ts = p.ts
    /\ InRow(rec, (seq + 1) % SeqModulus)
    /\ \A i \in 1..Len(pending) :
          IF pending[i].ts = p.ts THEN i \in 1..Len(rec) /\ rec[i] = pending[i]
                                  ELSE pending[i].ts < p.ts

LEMMA FirstFacts ==
    ASSUME VideoInv, NEW p, IsFirst(p)
    PROVE  /\ p.ts \in 1..MaxFrames /\ p.ts <= frame /\ frame \in Nat
           /\ seq \in 0..SeqModulus - 1 /\ pending \in Seq(PacketNumbers) /\ Way \in Seq(Packet)
           /\ \A j \in 1..Len(Tail(Way)) : p.ts <= Tail(Way)[j].ts
           /\ p.marker => Over(p.ts, Tail(Way))
           /\ \A t : Over(t, Way) => t < p.ts
<1> USE VideoConstants
<1>1. /\ VideoTypeOK /\ Way \in Seq(Packet) /\ InOrder(Way, frame)
      /\ p \in Packet /\ Way # <<>> /\ Way[1] = p
  BY WayTypes DEF VideoInv, IsFirst
<1>2. 1 \in 1..Len(Way) /\ Tail(Way) \in Seq(Packet) /\ RestOf(Way, Tail(Way), 1)
  BY <1>1, TailIs
<1>3. \A j \in 1..Len(Tail(Way)) : Tail(Way)[j] = Way[j + 1] /\ j + 1 \in 1 + 1..Len(Way)
  BY <1>1, <1>2 DEF RestOf
<1>4. /\ p.ts <= frame
      /\ \A j \in 1 + 1..Len(Way) : p.ts <= Way[j].ts /\ (p.marker => p.ts < Way[j].ts)
  BY <1>1, <1>2 DEF InOrder
<1>5. p.ts \in 1..MaxFrames /\ frame \in Nat /\ seq \in 0..SeqModulus - 1 /\ pending \in Seq(PacketNumbers)
  BY <1>1 DEF VideoTypeOK, Packet, PacketNumbers
<1>6. \A t : Over(t, Way) => t < p.ts
  BY <1>1, <1>2 DEF Over
<1> QED  BY <1>1, <1>3, <1>4, <1>5, <1>6 DEF Over

LEMMA RecordedIs ==
    ASSUME VideoInv, NEW p, IsFirst(p)
    PROVE  Continues(Recorded(p), p)
<1> USE VideoConstants
<1> DEFINE old == IF pending # <<>> /\ pending[1].ts # p.ts THEN <<>> ELSE pending
           e   == [seq |-> seq, ts |-> p.ts]
<1>1. /\ p.ts \in 1..MaxFrames /\ seq \in 0..SeqModulus - 1 /\ pending \in Seq(PacketNumbers)
  BY FirstFacts
<1>2. \A i \in 1..Len(pending) : pending[i].ts = pending[1].ts /\ pending[i].ts <= p.ts
  <2>1. OneFrame(pending, Way, frame) /\ Way \in Seq(Packet) /\ Way # <<>> /\ Way[1] = p
    BY WayTypes DEF VideoInv, IsFirst
  <2>2. 1 \in 1..Len(Way)
    BY <2>1
  <2> QED  BY <2>1, <2>2 DEF OneFrame
<1>3. \A i \in 1..Len(pending) : pending[i].ts \in 1..MaxFrames
  <2>1. \A i \in 1..Len(pending) : pending[i] \in PacketNumbers
    BY <1>1
  <2> QED  BY <2>1 DEF PacketNumbers
<1>4. old \in Seq(PacketNumbers) /\ InRow(old, seq) /\ \A i \in 1..Len(old) : old[i].ts = p.ts
  <2>1. CASE pending # <<>> /\ pending[1].ts # p.ts
    <3>1. old = <<>>
      BY <2>1
    <3>2. <<>> \in Seq(PacketNumbers) /\ \A i \in 1..Len(<<>>) : FALSE
      OBVIOUS
    <3> QED  BY <3>1, <3>2 DEF InRow
  <2>2. CASE ~(pending # <<>> /\ pending[1].ts # p.ts)
    <3>1. old = pending
      BY <2>2
    <3>2. \A i \in 1..Len(pending) : pending # <<>>
      BY <1>1
    <3> QED  BY <1>1, <1>2, <2>2, <3>1, <3>2 DEF VideoInv
  <2> QED  BY <2>1, <2>2
<1>5. \A i \in 1..Len(pending) :
          IF pending[i].ts = p.ts THEN old = pending ELSE pending[i].ts < p.ts
  <2>1. \A i \in 1..Len(pending) : pending # <<>>
    BY <1>1
  <2> QED  BY <1>1, <1>2, <1>3, <2>1
<1> HIDE DEF old
<1>6. Recorded(p) = Append(old, e)
  BY DEF Recorded, old
<1>7. /\ e \in PacketNumbers /\ Append(old, e) \in Seq(PacketNumbers) /\ Len(Append(old, e)) = Len(old) + 1
      /\ Append(old, e)[Len(old) + 1] = e /\ \A i \in 1..Len(old) : Append(old, e)[i] = old[i]
      /\ Len(old) \in Nat
  BY <1>1, <1>4 DEF PacketNumbers
<1>8. InRow(Append(old, e), (seq + 1) % SeqModulus)
  BY <1>1, <1>4, RowGrows
<1>9. \A i \in 1..Len(Append(old, e)) : Append(old, e)[i].ts = p.ts
  <2>1. \A i \in 1..Len(Append(old, e)) : i \in 1..Len(old) \/ i = Len(old) + 1
    BY <1>7
  <2>2. e.ts = p.ts
    OBVIOUS
  <2> HIDE DEF e
  <2> QED  BY <1>4, <1>7, <2>1, <2>2
<1>10. \A i \in 1..Len(pending) : pending[i].ts = p.ts =>
            i \in 1..Len(Append(old, e)) /\ Append(old, e)[i] = pending[i]
  <2> HIDE DEF e
  <2> QED  BY <1>5, <1>7
<1> QED  BY <1>5, <1>6, <1>7, <1>8, <1>9, <1>10 DEF Continues

\* A packet that is recorded: it was written, or its frame is broken.
LEMMA RecordKeeps ==
    ASSUME VideoInv, NEW p, IsFirst(p), NEW rec, Continues(rec, p), NEW wr, NEW bad,
           \/ wr = wire /\ bad = broken \cup {p.ts}
           \/ wr = Append(wire, Media(p)) /\ bad = broken
    PROVE  /\ OneFrame(rec, Tail(Way), frame)
           /\ ParityIsLast(wr, Tail(Way), rec)
           /\ track = "fec" => MediaIsKept(wr, Tail(Way), rec, bad)
<1> USE VideoConstants
<1> DEFINE v == Tail(Way)
<1>1. /\ p.ts \in 1..MaxFrames /\ p.ts <= frame /\ frame \in Nat
      /\ \A j \in 1..Len(v) : p.ts <= v[j].ts
      /\ \A t : Over(t, Way) => t < p.ts
  BY FirstFacts
<1>2. /\ Way \in Seq(Packet) /\ v \in Seq(Packet) /\ RestOf(Way, v, 1)
  BY WayTypes, TailIs DEF VideoInv, IsFirst
<1>3. /\ \A t : Over(t, Way) => Over(t, v)
      /\ \A m, s, r, b : IsKept(m, s, Way, r, b) => IsKept(m, s, v, r, b)
  BY <1>1, <1>2, LessKeeps
<1>4. /\ wire \in Seq(Written) /\ WrittenBy(wire, frame) /\ ParityIsLast(wire, Way, pending)
      /\ track = "fec" => MediaIsKept(wire, Way, pending, broken)
      /\ v \in Seq(Packet) /\ Len(wire) \in Nat
  BY <1>2 DEF VideoInv
<1> HIDE DEF v
<1>5. /\ \A j \in 1..Len(wire) : wr[j] = wire[j] /\ j \in 1..Len(wr)
      /\ \A j \in 1..Len(wr) : j \in 1..Len(wire) \/ (wr[j] = Media(p) /\ bad = broken)
  BY <1>4
<1>6. Media(p).kind = "media" /\ Media(p).ts = p.ts /\ Number(Media(p)) = [seq |-> seq, ts |-> p.ts]
  BY DEF Media, Number
<1>7. OneFrame(rec, v, frame)
  <2>1. \A i \in 1..Len(rec) : rec[i].ts = p.ts /\ rec[1].ts = p.ts
    BY DEF Continues
  <2> QED  BY <1>1, <2>1 DEF OneFrame, v
<1>8. ParityIsLast(wr, v, rec)
  <2> SUFFICES ASSUME NEW k \in 1..Len(wr), wr[k].kind = "parity"
               PROVE  /\ RightGroup(wr[k].covers, wr[k].ts)
                      /\ Over(wr[k].ts, v)
                      /\ \A i \in 1..Len(rec) : wr[k].ts < rec[i].ts
    BY DEF ParityIsLast
  <2>1. k \in 1..Len(wire) /\ wr[k] = wire[k]
    BY <1>5, <1>6
  <2>2. RightGroup(wire[k].covers, wire[k].ts) /\ Over(wire[k].ts, Way)
    BY <1>4, <2>1 DEF ParityIsLast
  <2>3. wire[k].ts < p.ts /\ \A i \in 1..Len(rec) : rec[i].ts = p.ts
    BY <1>1, <2>2 DEF Continues
  <2> QED  BY <1>3, <2>1, <2>2, <2>3
<1>9. ASSUME track = "fec", NEW j \in 1..Len(wr), wr[j].kind = "media"
      PROVE  IsKept(wr[j], wr, v, rec, bad)
  <2>1. CASE j \in 1..Len(wire)
    <3> DEFINE m == wire[j]
    <3>0. wr[j] = m /\ m.kind = "media"
      BY <1>5, <1>9, <2>1
    <3>1. \/ m.ts \in broken \/ Awaits(m, pending) \/ Covered(m, wire)
          \/ ~HasParity(m.ts, wire) /\ Over(m.ts, Way)
      BY <1>4, <1>9, <2>1, <3>0 DEF MediaIsKept, IsKept
    <3> HIDE DEF m
    <3>2. Covered(m, wire) => Covered(m, wr)
      BY <1>5 DEF Covered
    <3>3. \A t : HasParity(t, wr) => HasParity(t, wire)
      <4>1. \A k \in 1..Len(wr) : wr[k].kind = "parity" => k \in 1..Len(wire) /\ wr[k] = wire[k]
        BY <1>5, <1>6
      <4> QED  BY <4>1 DEF HasParity
    <3>4. ASSUME Awaits(m, pending)
          PROVE  Awaits(m, rec) \/ (~HasParity(m.ts, wire) /\ Over(m.ts, v))
      <4>1. PICK i \in 1..Len(pending) : pending[i] = Number(m)
        BY <3>4 DEF Awaits
      <4>2. pending[i].ts = m.ts
        BY <4>1 DEF Number
      <4>3. CASE pending[i].ts = p.ts
        BY <4>1, <4>3 DEF Continues, Awaits
      <4>4. CASE pending[i].ts # p.ts
        <5>1. m.ts < p.ts /\ m.ts \in 1..MaxFrames
          <6>1. pending[i].ts < p.ts
            BY <4>1, <4>4 DEF Continues
          <6>2. pending[i] \in PacketNumbers
            BY <4>1, FirstFacts
          <6> QED  BY <4>2, <6>1, <6>2 DEF PacketNumbers
        <5>2. Over(m.ts, v)
          <6>1. \A l \in 1..Len(v) : p.ts <= v[l].ts /\ v[l].ts \in 1..MaxFrames
            <7>1. \A l \in 1..Len(v) : v[l] \in Packet
              BY <1>4
            <7> QED  BY <1>1, <7>1 DEF v, Packet
          <6>2. \A l \in 1..Len(v) : m.ts < v[l].ts
            <7>1. p.ts \in 1..MaxFrames
              BY <1>1
            <7> QED  BY <5>1, <6>1, <7>1, EarlierYet
          <6> QED  BY <6>2 DEF Over
        <5>3. ~HasParity(m.ts, wire)
          <6> SUFFICES ASSUME NEW k \in 1..Len(wire), wire[k].kind = "parity", wire[k].ts = m.ts
                       PROVE  FALSE
            BY DEF HasParity
          <6>1. wire[k].ts < pending[i].ts
            BY <1>4, <4>1 DEF ParityIsLast
          <6> QED  BY <4>2, <5>1, <6>1
        <5> QED  BY <5>2, <5>3
      <4> QED  BY <4>3, <4>4
    <3>5. m.ts \in broken => m.ts \in bad
      OBVIOUS
    <3> QED  BY <1>3, <3>0, <3>1, <3>2, <3>3, <3>4, <3>5 DEF IsKept
  <2>2. CASE j \notin 1..Len(wire)
    <3>1. Number(wr[j]) = rec[Len(rec)] /\ Len(rec) \in 1..Len(rec)
      BY <1>5, <1>6, <2>2 DEF Continues
    <3> QED  BY <3>1 DEF IsKept, Awaits
  <2> QED  BY <2>1, <2>2
<1> QED  BY <1>7, <1>8, <1>9 DEF MediaIsKept, v

\* The groups are as many as they are; what is written at the end of a frame, one by one.
LEMMA GroupsCount ==
    ASSUME NEW rec \in Seq(PacketNumbers)
    PROVE  Len(Groups(rec)) \in Nat
<1> USE VideoConstants
<1> DEFINE n == (Len(rec) + GroupSize - 1) \div GroupSize
<1>1. Len(rec) \in Nat /\ n \in Nat
  OBVIOUS
<1>2. Groups(rec) = [h \in 1..n |->
           {rec[j] : j \in {l \in 1..Len(rec) : (l - 1) \div GroupSize = h - 1}}]
  BY DEF Groups
<1> HIDE DEF n
<1> QED  BY <1>1, <1>2

Ended(p, groups, k) ==
    Append(wire, Media(p)) \o [g \in 1..k |-> Parity(p, (seq + g) % SeqModulus, groups[g])]

EndsWith(wr, p, rec, k) ==
    /\ wr \in Seq(Written) /\ Len(wr) = Len(wire) + 1 + k
    /\ \A j \in 1..Len(wire) : wr[j] = wire[j]
    /\ wr[Len(wire) + 1] = Media(p)
    /\ \A g \in 1..k : LET m == wr[Len(wire) + 1 + g]
                     IN  m.kind = "parity" /\ m.ts = p.ts /\ m.covers = Groups(rec)[g]

LEMMA EndWrites ==
    ASSUME VideoInv, NEW p, IsFirst(p), NEW rec, Continues(rec, p), NEW k \in 0..Len(Groups(rec)),
           NEW wr, wr = Ended(p, Groups(rec), k)
    PROVE  EndsWith(wr, p, rec, k)
<1> USE VideoConstants
<1> DEFINE groups == Groups(rec)
           new == [g \in 1..k |-> Parity(p, (seq + g) % SeqModulus, groups[g])]
<1>1. wire \in Seq(Written) /\ p.ts \in 1..MaxFrames /\ seq \in 0..SeqModulus - 1
      /\ Len(wire) \in Nat /\ Len(groups) \in Nat /\ k \in Nat /\ k <= Len(groups)
  <2>1. rec \in Seq(PacketNumbers)
    BY DEF Continues
  <2>2. Len(groups) \in Nat
    BY <2>1, GroupsCount
  <2>3. wire \in Seq(Written)
    BY DEF VideoInv
  <2> HIDE DEF groups
  <2> QED  BY <2>2, <2>3, FirstFacts DEF groups
<1>2. \A g \in 1..k : groups[g] \in SUBSET PacketNumbers
  <2>1. /\ rec \in Seq(PacketNumbers) /\ InRow(rec, (seq + 1) % SeqModulus)
        /\ \A i \in 1..Len(rec) : rec[i].ts = p.ts
    BY DEF Continues
  <2>2. \A g \in 1..Len(groups) : groups[g] \in SUBSET PacketNumbers
    BY <2>1, GroupsAreRight
  <2> HIDE DEF groups
  <2> QED  BY <1>1, <2>2
<1> HIDE DEF groups
<1>3. \A g \in 1..k : Parity(p, (seq + g) % SeqModulus, groups[g]) \in Written
  <2> SUFFICES ASSUME NEW g \in 1..k
               PROVE  Parity(p, (seq + g) % SeqModulus, groups[g]) \in Written
    OBVIOUS
  <2>1. (seq + g) % SeqModulus \in 0..SeqModulus - 1
    BY <1>1
  <2> HIDE DEF groups
  <2> QED  BY <1>1, <1>2, <2>1 DEF Parity, Written
<1>4. new \in Seq(Written) /\ Len(new) = k
  BY <1>1, <1>3
<1>5. Media(p) \in Written
  <2>1. {} \in SUBSET PacketNumbers
    OBVIOUS
  <2> QED  BY <1>1, <2>1 DEF Media, Written
<1>6. \A g \in 1..k : new[g].kind = "parity" /\ new[g].ts = p.ts /\ new[g].covers = groups[g]
  BY DEF Parity
<1> HIDE DEF new
<1> DEFINE first == Append(wire, Media(p))
<1>7. /\ first \in Seq(Written) /\ Len(first) = Len(wire) + 1 /\ first[Len(wire) + 1] = Media(p)
      /\ \A j \in 1..Len(wire) : first[j] = wire[j]
  BY <1>1, <1>5
<1> HIDE DEF first
<1>8. /\ first \o new \in Seq(Written) /\ Len(first \o new) = Len(first) + k
      /\ \A j \in 1..Len(first) : (first \o new)[j] = first[j]
      /\ \A g \in 1..k : (first \o new)[Len(first) + g] = new[g]
  <2>1. \A x, y \in Seq(Written) :
           /\ x \o y \in Seq(Written) /\ Len(x \o y) = Len(x) + Len(y) /\ Len(x) \in Nat
           /\ \A j \in 1..Len(x) : (x \o y)[j] = x[j]
           /\ \A j \in 1..Len(y) : (x \o y)[Len(x) + j] = y[j]
    OBVIOUS
  <2>2. new \in Seq(Written) /\ first \in Seq(Written) /\ Len(new) = k
    BY <1>4, <1>7
  <2> QED  BY <2>1, <2>2
<1>9. Ended(p, Groups(rec), k) = first \o new
  BY DEF Ended, first, new, groups
<1>10. /\ \A j \in 1..Len(wire) : (first \o new)[j] = wire[j]
       /\ (first \o new)[Len(wire) + 1] = Media(p)
       /\ \A g \in 1..k : (first \o new)[Len(wire) + 1 + g] = new[g]
  <2>1. \A j \in 1..Len(wire) + 1 : j \in 1..Len(first)
    BY <1>1, <1>7
  <2> QED  BY <1>1, <1>7, <1>8, <2>1
<1>11. wr \in Seq(Written) /\ Len(wr) = Len(wire) + 1 + k
  BY <1>1, <1>7, <1>8, <1>9
<1>12. wr[Len(wire) + 1] = Media(p) /\ \A j \in 1..Len(wire) : wr[j] = wire[j]
  BY <1>9, <1>10
<1>13. \A g \in 1..k : wr[Len(wire) + 1 + g] = new[g]
  BY <1>9, <1>10
<1>14. \A g \in 1..k : LET m == wr[Len(wire) + 1 + g]
                      IN  m.kind = "parity" /\ m.ts = p.ts /\ m.covers = Groups(rec)[g]
  BY <1>6, <1>13 DEF groups
<1> QED  BY <1>11, <1>12, <1>14 DEF EndsWith

\* The last packet of a frame is written, and all or some of the parities.
LEMMA EndKeeps ==
    ASSUME VideoInv, NEW p, IsFirst(p), p.marker, NEW rec, Continues(rec, p),
           NEW k \in 0..Len(Groups(rec)), NEW wr, wr = Ended(p, Groups(rec), k),
           NEW bad, bad = IF k = Len(Groups(rec)) THEN broken ELSE broken \cup {p.ts}
    PROVE  /\ ParityIsLast(wr, Tail(Way), <<>>)
           /\ track = "fec" => MediaIsKept(wr, Tail(Way), <<>>, bad)
<1>5. /\ Len(wr) = Len(wire) + 1 + k
      /\ \A j \in 1..Len(wire) : wr[j] = wire[j]
      /\ wr[Len(wire) + 1] = Media(p)
      /\ \A g \in 1..k : LET m == wr[Len(wire) + 1 + g]
                       IN  m.kind = "parity" /\ m.ts = p.ts /\ m.covers = Groups(rec)[g]
  <2>1. EndsWith(wr, p, rec, k)
    BY EndWrites
  <2> QED  BY <2>1 DEF EndsWith
<1> USE VideoConstants
<1> DEFINE v == Tail(Way)
<1>1. /\ p.ts \in 1..MaxFrames /\ p.ts <= frame /\ frame \in Nat /\ Over(p.ts, v)
      /\ \A j \in 1..Len(v) : p.ts <= v[j].ts
      /\ \A t : Over(t, Way) => t < p.ts
  BY FirstFacts
<1>2. /\ Way \in Seq(Packet) /\ v \in Seq(Packet) /\ RestOf(Way, v, 1)
  BY WayTypes, TailIs DEF VideoInv, IsFirst
<1>3. \A t : Over(t, Way) => Over(t, v)
  BY <1>1, <1>2, LessKeeps
<1>4. /\ wire \in Seq(Written) /\ ParityIsLast(wire, Way, pending)
      /\ track = "fec" => MediaIsKept(wire, Way, pending, broken)
      /\ Len(wire) \in Nat /\ k \in Nat /\ rec \in Seq(PacketNumbers) /\ Len(Groups(rec)) \in Nat
      /\ k <= Len(Groups(rec))
  <2>1. rec \in Seq(PacketNumbers) /\ wire \in Seq(Written)
    BY DEF VideoInv, Continues
  <2>2. Len(Groups(rec)) \in Nat /\ Len(wire) \in Nat
    BY <2>1, GroupsCount
  <2> QED  BY <2>1, <2>2 DEF VideoInv
<1> HIDE DEF v
<1>6. \A j \in 1..Len(wr) : \/ j \in 1..Len(wire)
                            \/ j = Len(wire) + 1
                            \/ \E g \in 1..k : j = Len(wire) + 1 + g
  <2> SUFFICES ASSUME NEW j \in 1..Len(wr), j \notin 1..Len(wire), j # Len(wire) + 1
               PROVE  \E g \in 1..k : j = Len(wire) + 1 + g
    OBVIOUS
  <2> DEFINE n == Len(wire)
  <2>1. n \in Nat /\ k \in Nat /\ j \in 1..n + 1 + k /\ j \notin 1..n /\ j # n + 1
    BY <1>4, <1>5
  <2> HIDE DEF n
  <2>2. j - (n + 1) \in 1..k /\ j = n + 1 + (j - (n + 1))
    BY <2>1
  <2> QED  BY <2>2 DEF n
<1>7. Media(p).kind = "media" /\ Media(p).ts = p.ts /\ Number(Media(p)) = [seq |-> seq, ts |-> p.ts]
  BY DEF Media, Number
<1>8. \A j \in 1..Len(wire) : j \in 1..Len(wr)
  BY <1>4, <1>5
<1>9. /\ Len(wire) + 1 \in 1..Len(wr)
      /\ \A g \in 1..k : Len(wire) + 1 + g \in 1..Len(wr)
  BY <1>4, <1>5
<1>10. \A g \in 1..k : RightGroup(Groups(rec)[g], p.ts)
  <2>1. /\ InRow(rec, (seq + 1) % SeqModulus)
        /\ \A i \in 1..Len(rec) : rec[i].ts = p.ts
    BY DEF Continues
  <2>2. \A g \in 1..Len(Groups(rec)) : RightGroup(Groups(rec)[g], p.ts)
    BY <1>4, <2>1, GroupsAreRight
  <2> QED  BY <1>4, <2>2
<1>11. ParityIsLast(wr, v, <<>>)
  <2> SUFFICES ASSUME NEW j \in 1..Len(wr), wr[j].kind = "parity"
               PROVE  RightGroup(wr[j].covers, wr[j].ts) /\ Over(wr[j].ts, v)
    BY DEF ParityIsLast
  <2>1. CASE j \in 1..Len(wire)
    BY <1>3, <1>4, <1>5, <2>1 DEF ParityIsLast
  <2>2. CASE j = Len(wire) + 1
    BY <1>5, <1>7, <2>2
  <2>3. CASE \E g \in 1..k : j = Len(wire) + 1 + g
    BY <1>1, <1>5, <1>10, <2>3
  <2> QED  BY <1>6, <2>1, <2>2, <2>3
<1>12. \A t : HasParity(t, wr) => HasParity(t, wire) \/ t = p.ts
  <2> SUFFICES ASSUME NEW j \in 1..Len(wr), wr[j].kind = "parity"
               PROVE  HasParity(wr[j].ts, wire) \/ wr[j].ts = p.ts
    BY DEF HasParity
  <2>1. CASE j \in 1..Len(wire)
    BY <1>5, <2>1 DEF HasParity
  <2>2. CASE j = Len(wire) + 1
    BY <1>5, <1>7, <2>2
  <2>3. CASE \E g \in 1..k : j = Len(wire) + 1 + g
    BY <1>5, <2>3
  <2> QED  BY <1>6, <2>1, <2>2, <2>3
<1>13. ASSUME NEW m, NEW i \in 1..Len(rec), Number(m) = rec[i], m.ts = p.ts
       PROVE  IsKept(m, wr, v, <<>>, bad)
  <2>1. CASE k = Len(Groups(rec))
    <3>1. PICK g \in 1..Len(Groups(rec)) : rec[i] \in Groups(rec)[g]
      BY <1>4, GroupsCover
    <3>2. /\ wr[Len(wire) + 1 + g].kind = "parity" /\ wr[Len(wire) + 1 + g].covers = Groups(rec)[g]
          /\ Len(wire) + 1 + g \in 1..Len(wr)
      BY <1>5, <1>9, <2>1
    <3>3. Covered(m, wr)
      BY <1>13, <3>1, <3>2 DEF Covered
    <3> QED  BY <3>3 DEF IsKept
  <2>2. CASE k # Len(Groups(rec))
    BY <1>13, <2>2 DEF IsKept
  <2> QED  BY <2>1, <2>2
<1>14. ASSUME track = "fec", NEW j \in 1..Len(wr), wr[j].kind = "media"
       PROVE  IsKept(wr[j], wr, v, <<>>, bad)
  <2>1. CASE j \in 1..Len(wire)
    <3> DEFINE m == wire[j]
    <3>0. wr[j] = m /\ m.kind = "media" /\ m \in Written
      BY <1>4, <1>5, <1>14, <2>1
    <3>1. \/ m.ts \in broken \/ Awaits(m, pending) \/ Covered(m, wire)
          \/ ~HasParity(m.ts, wire) /\ Over(m.ts, Way)
      BY <1>4, <1>14, <2>1, <3>0 DEF MediaIsKept, IsKept
    <3> HIDE DEF m
    <3>2. Covered(m, wire) => Covered(m, wr)
      BY <1>5, <1>8 DEF Covered
    <3>3. m.ts \in broken => m.ts \in bad
      OBVIOUS
    <3>4. ASSUME ~HasParity(m.ts, wire), Over(m.ts, Way)
          PROVE  ~HasParity(m.ts, wr) /\ Over(m.ts, v)
      <4>1. m.ts < p.ts /\ m.ts \in 1..MaxFrames
        BY <1>1, <3>0, <3>4 DEF Written
      <4>2. m.ts # p.ts
        BY <1>1, <4>1
      <4> QED  BY <1>3, <1>12, <3>4, <4>2
    <3>5. ASSUME Awaits(m, pending)
          PROVE  IsKept(m, wr, v, <<>>, bad)
      <4>1. PICK i \in 1..Len(pending) : pending[i] = Number(m)
        BY <3>5 DEF Awaits
      <4>2. pending[i].ts = m.ts
        BY <4>1 DEF Number
      <4>3. CASE pending[i].ts = p.ts
        <5>1. i \in 1..Len(rec) /\ rec[i] = Number(m) /\ m.ts = p.ts
          BY <4>1, <4>2, <4>3 DEF Continues
        <5> QED  BY <1>13, <5>1
      <4>4. CASE pending[i].ts # p.ts
        <5>1. m.ts < p.ts /\ m.ts \in 1..MaxFrames
          <6>1. pending[i].ts < p.ts
            BY <4>1, <4>4 DEF Continues
          <6> QED  BY <3>0, <4>2, <6>1 DEF Written
        <5>2. Over(m.ts, v)
          <6>1. \A l \in 1..Len(v) : p.ts <= v[l].ts /\ v[l].ts \in 1..MaxFrames
            <7>1. \A l \in 1..Len(v) : v[l] \in Packet
              BY <1>2
            <7> QED  BY <1>1, <7>1 DEF Packet
          <6>2. \A l \in 1..Len(v) : m.ts < v[l].ts
            <7>1. p.ts \in 1..MaxFrames
              BY <1>1
            <7> HIDE DEF m
            <7> QED  BY <5>1, <6>1, <7>1, EarlierYet
          <6> QED  BY <6>2 DEF Over
        <5>3. ~HasParity(m.ts, wire)
          <6> SUFFICES ASSUME NEW l \in 1..Len(wire), wire[l].kind = "parity", wire[l].ts = m.ts
                       PROVE  FALSE
            BY DEF HasParity
          <6>1. wire[l].ts < pending[i].ts
            BY <1>4, <4>1 DEF ParityIsLast
          <6> QED  BY <4>2, <5>1, <6>1
        <5>4. ~HasParity(m.ts, wr)
          <6>1. m.ts # p.ts
            BY <1>1, <5>1
          <6> QED  BY <1>12, <5>3, <6>1
        <5> QED  BY <5>2, <5>4 DEF IsKept
      <4> QED  BY <4>3, <4>4
    <3> QED  BY <3>0, <3>1, <3>2, <3>3, <3>4, <3>5 DEF IsKept
  <2>2. CASE j = Len(wire) + 1
    <3>1. wr[j] = Media(p) /\ Number(wr[j]) = rec[Len(rec)] /\ Len(rec) \in 1..Len(rec) /\ wr[j].ts = p.ts
      BY <1>5, <1>7, <2>2 DEF Continues
    <3> QED  BY <1>13, <3>1
  <2>3. CASE \E g \in 1..k : j = Len(wire) + 1 + g
    BY <1>5, <1>14, <2>3
  <2> QED  BY <1>6, <2>1, <2>2, <2>3
<1> QED  BY <1>11, <1>14 DEF MediaIsKept, v

-----------------------------------------------------------------------------
(* The steps *)

\* A step that moves packets on, or loses some, keeps the invariant.
LEMMA MovesKeep ==
    ASSUME VideoInv, VideoTypeOK', CallbackFirst', TrackFirst',
           UNCHANGED <<frame, seq, pending, wire, broken>>,
           track' = track \/ track \in {"none", "unresolved"},
           NEW s \in Nat, RestOf(Way, Way', s)
    PROVE  VideoInv'
<1>1. /\ Way \in Seq(Packet) /\ frame \in Nat /\ pending \in Seq(PacketNumbers)
      /\ InOrder(Way, frame) /\ OneFrame(pending, Way, frame) /\ ParityIsLast(wire, Way, pending)
  BY WayTypes, VideoConstants DEF VideoInv, VideoTypeOK, PacketNumbers
<1>2. Way' \in Seq(Packet)
  <2>1. queue' \in Seq(Packet) /\ channel' \in Seq(Packet) /\ todo' \in Seq(Packet)
    BY DEF VideoTypeOK
  <2>2. \A a, b \in Seq(Packet) : a \o b \in Seq(Packet)
    BY ConcatProperties
  <2> QED  BY <2>1, <2>2 DEF Way
<1>3. /\ InOrder(Way', frame') /\ OneFrame(pending', Way', frame')
      /\ ParityIsLast(wire', Way', pending')
  BY <1>1, <1>2, LessKeeps
<1>4. track' = "fec" => MediaIsKept(wire', Way', pending', broken')
  <2>1. CASE track' = track
    BY <1>1, <1>2, <2>1, LessKeeps DEF VideoInv
  <2>2. CASE track \in {"none", "unresolved"}
    BY <2>2 DEF VideoInv, TrackFirst, MediaIsKept
  <2> QED  BY <2>1, <2>2
<1>5. ParityOnlyWithFec'
  <2>1. CASE track' = track
    BY <2>1 DEF VideoInv, ParityOnlyWithFec
  <2>2. CASE track \in {"none", "unresolved"}
    BY <2>2 DEF VideoInv, TrackFirst, ParityOnlyWithFec
  <2> QED  BY <2>1, <2>2
<1>6. wire' \in Seq(Written) /\ InRow(pending', seq') /\ WrittenBy(wire', frame')
  BY DEF VideoInv
<1> QED  BY <1>3, <1>4, <1>5, <1>6 DEF VideoInv

LEMMA SetupKeeps == VideoInv /\ Setups => VideoInv'
<1> SUFFICES ASSUME VideoInv, Setups PROVE VideoInv'
  OBVIOUS
<1>1. /\ track = "none" /\ ~dropped /\ track' \in {"plain", "fec", "unresolved", "failed"}
      /\ sender' \in {"none", "recv"} /\ dropped' \in BOOLEAN
      /\ UNCHANGED <<frame, todo, channel, queue, bucket, paused, pauses, seq, pending, wire, broken>>
  BY DEF Setups, Setup, CreateTrack, ReplaceTrack, frameVars
<1>2. Way' = Way /\ VideoTypeOK /\ todo = <<>> /\ pending = <<>> /\ wire = <<>>
  BY <1>1 DEF VideoInv, Way, CallbackFirst, TrackFirst
<1>3. VideoTypeOK'
  BY <1>1, <1>2 DEF VideoTypeOK
<1>4. CallbackFirst' /\ TrackFirst'
  BY <1>1, <1>2 DEF CallbackFirst, TrackFirst
<1>5. RestOf(Way, Way', 0)
  BY <1>2, WayTypes DEF RestOf
<1> QED  BY <1>1, <1>3, <1>4, <1>5, MovesKeep

LEMMA ResolvesKeeps == VideoInv /\ Resolves => VideoInv'
<1> SUFFICES ASSUME VideoInv, Resolves PROVE VideoInv'
  OBVIOUS
<1>1. /\ track = "unresolved" /\ track' = "fec"
      /\ UNCHANGED <<frame, todo, channel, queue, bucket, sender, dropped, paused, pauses, seq,
                     pending, wire, broken>>
  BY DEF Resolves, frameVars, paceVars
<1>2. Way' = Way /\ VideoTypeOK /\ CallbackFirst
  BY <1>1 DEF VideoInv, Way
<1>3. VideoTypeOK'
  BY <1>1, <1>2 DEF VideoTypeOK
<1>4. CallbackFirst' /\ TrackFirst'
  BY <1>1, <1>2 DEF CallbackFirst, TrackFirst
<1>5. RestOf(Way, Way', 0)
  BY <1>2, WayTypes DEF RestOf, VideoInv
<1> QED  BY <1>1, <1>3, <1>4, <1>5, MovesKeep

LEMMA QueuesKeep ==
    VideoInv /\ (BlockingSend \/ DropDecoder \/ Drain \/ SenderEnds \/ WaitReceives \/ WaitOver
                 \/ Pause \/ UNCHANGED videoVars) => VideoInv'
<1> SUFFICES ASSUME VideoInv,
                    \/ BlockingSend \/ DropDecoder \/ Drain \/ SenderEnds \/ WaitReceives \/ WaitOver
                    \/ Pause \/ UNCHANGED videoVars
             PROVE  VideoInv'
  OBVIOUS
<1> USE VideoConstants
<1>0. /\ VideoTypeOK /\ CallbackFirst /\ TrackFirst
      /\ queue \in Seq(Packet) /\ channel \in Seq(Packet) /\ todo \in Seq(Packet)
      /\ Way \in Seq(Packet) /\ Way = queue \o (channel \o todo)
  BY WayTypes DEF VideoInv, Way
<1>1. UNCHANGED <<frame, track, seq, pending, wire, broken>>
  BY DEF BlockingSend, DropDecoder, Drain, SenderEnds, WaitReceives, WaitOver, Pause, videoVars,
     frameVars, paceVars, rtpVars
<1>2. ASSUME Way' = Way PROVE RestOf(Way, Way', 0)
  BY <1>0, <1>2 DEF RestOf
<1>3. CASE BlockingSend
  <2>1. sender # "ended"
    BY <1>0, <1>3 DEF BlockingSend, CallbackFirst
  <2>2. /\ todo # <<>> /\ Len(channel) < ChannelSize /\ channel' = Append(channel, Head(todo))
        /\ todo' = Tail(todo) /\ UNCHANGED <<queue, bucket, sender, dropped, paused, pauses>>
    BY <1>3, <2>1 DEF BlockingSend, rtpVars
  <2>3. Way' = Way
    <3>1. channel \in Seq(Packet) /\ todo \in Seq(Packet) /\ queue \in Seq(Packet)
      BY <1>0
    <3>2. queue \o (Append(channel, Head(todo)) \o Tail(todo)) = queue \o (channel \o todo)
      BY <2>2, <3>1, Moves
    <3> QED  BY <2>2, <3>2 DEF Way
  <2>4. /\ channel' \in Seq(Packet) /\ todo' \in Seq(Packet) /\ Len(channel') <= ChannelSize
    <3>1. Head(todo) \in Packet /\ Tail(todo) \in Seq(Packet)
      BY <1>0, <2>2
    <3> QED  BY <1>0, <2>2, <3>1
  <2>5. VideoTypeOK'
    BY <1>0, <1>1, <2>2, <2>4 DEF VideoTypeOK
  <2>6. CallbackFirst' /\ TrackFirst'
    BY <1>0, <1>1, <2>1, <2>2 DEF CallbackFirst, TrackFirst
  <2> QED  BY <1>1, <1>2, <2>3, <2>5, <2>6, MovesKeep
<1>4. CASE WaitReceives
  <2>1. /\ channel # <<>> /\ queue' = Append(queue, Head(channel)) /\ channel' = Tail(channel)
        /\ UNCHANGED <<todo, bucket, sender, dropped, paused, pauses>>
    BY <1>4 DEF WaitReceives, frameVars, rtpVars
  <2>2. Way' = Way
    <3>1. channel \in Seq(Packet) /\ todo \in Seq(Packet) /\ queue \in Seq(Packet)
      BY <1>0
    <3>2. Append(queue, Head(channel)) \o (Tail(channel) \o todo) = queue \o (channel \o todo)
      BY <2>1, <3>1, Moves
    <3> QED  BY <2>1, <3>2 DEF Way
  <2>3. /\ channel' \in Seq(Packet) /\ queue' \in Seq(Packet) /\ Len(channel') <= ChannelSize
    <3>1. Head(channel) \in Packet /\ Tail(channel) \in Seq(Packet) /\ Len(Tail(channel)) = Len(channel) - 1
      BY <1>0, <2>1
    <3>2. Len(channel) <= ChannelSize
      BY <1>0 DEF VideoTypeOK
    <3> QED  BY <1>0, <2>1, <3>1, <3>2
  <2>4. VideoTypeOK'
    BY <1>0, <1>1, <2>1, <2>3 DEF VideoTypeOK
  <2>5. CallbackFirst' /\ TrackFirst'
    BY <1>0, <1>1, <2>1 DEF CallbackFirst, TrackFirst
  <2> QED  BY <1>1, <1>2, <2>2, <2>4, <2>5, MovesKeep
<1>5. CASE Drain
  <2>1. /\ channel' = <<>> /\ sender' \in {"recv", "write", "wait"} /\ bucket' \in BOOLEAN
        /\ UNCHANGED <<todo, dropped, paused, pauses>>
        /\ \/ queue' = <<>>
           \/ queue' = queue \o channel
    BY <1>0, <1>5 DEF Drain, frameVars, rtpVars, VideoTypeOK
  <2>2. queue \o channel \in Seq(Packet) /\ <<>> \in Seq(Packet) /\ Len(<<>>) = 0
    BY <1>0, ConcatProperties
  <2>3. VideoTypeOK'
    <3>1. queue' \in Seq(Packet) /\ channel' \in Seq(Packet) /\ todo' \in Seq(Packet)
      BY <1>0, <2>1, <2>2
    <3>2. Len(channel') <= ChannelSize
      BY <2>1, <2>2
    <3> QED  BY <1>0, <1>1, <2>1, <3>1, <3>2 DEF VideoTypeOK
  <2>4. CallbackFirst' /\ TrackFirst'
    BY <1>0, <1>1, <2>1 DEF CallbackFirst, TrackFirst
  <2>5. CASE queue' = queue \o channel
    <3>1. Way' = Way
      BY <1>0, <2>1, <2>5, Moves DEF Way
    <3> QED  BY <1>1, <1>2, <2>3, <2>4, <3>1, MovesKeep
  <2>6. CASE queue' = <<>>
    <3>1. RestOf(Way, Way', Len(queue) + Len(channel))
      <4>1. Way' = <<>> \o (<<>> \o todo)
        BY <2>1, <2>6 DEF Way
      <4> QED  BY <1>0, <4>1, Moves
    <3>2. Len(queue) + Len(channel) \in Nat
      BY <1>0
    <3> QED  BY <1>1, <2>3, <2>4, <3>1, <3>2, MovesKeep
  <2> QED  BY <2>1, <2>5, <2>6
<1>6. CASE DropDecoder \/ SenderEnds \/ WaitOver \/ Pause \/ UNCHANGED videoVars
  <2>1. UNCHANGED <<todo, channel, queue>>
    BY <1>6 DEF DropDecoder, SenderEnds, WaitOver, Pause, videoVars, frameVars, paceVars
  <2>2. Way' = Way
    BY <2>1 DEF Way
  <2>3. VideoTypeOK'
    <3>1. pauses' \in 0..MaxPauses /\ paused' \in BOOLEAN
      <4>1. CASE Pause
        BY <1>0, <4>1 DEF Pause, VideoTypeOK
      <4>2. CASE ~Pause
        BY <1>0, <1>6, <4>2 DEF DropDecoder, SenderEnds, WaitOver, videoVars, rtpVars, VideoTypeOK
      <4> QED  BY <4>1, <4>2
    <3>2. /\ sender' \in {"none", "recv", "wait", "write", "ended"}
          /\ bucket' \in BOOLEAN /\ dropped' \in BOOLEAN
      BY <1>0, <1>6 DEF DropDecoder, SenderEnds, WaitOver, Pause, videoVars, paceVars, VideoTypeOK
    <3> QED  BY <1>0, <1>1, <2>1, <3>1, <3>2 DEF VideoTypeOK
  <2>4. CallbackFirst' /\ TrackFirst'
    BY <1>0, <1>1, <1>6, <2>1 DEF DropDecoder, SenderEnds, WaitOver, Pause, videoVars, paceVars,
       Disconnected, CallbackFirst, TrackFirst
  <2> QED  BY <1>1, <1>2, <2>2, <2>3, <2>4, MovesKeep
<1> QED  BY <1>3, <1>4, <1>5, <1>6

\* The packets of the next frame come after those of the frames before.
LEMMA SubmitKeeps == VideoInv /\ SubmitDecodeUnit => VideoInv'
<1> SUFFICES ASSUME VideoInv, SubmitDecodeUnit PROVE VideoInv'
  OBVIOUS
<1> USE VideoConstants
<1>0. /\ VideoTypeOK /\ CallbackFirst /\ TrackFirst
      /\ queue \in Seq(Packet) /\ channel \in Seq(Packet)
      /\ Way \in Seq(Packet) /\ frame \in Nat /\ frame < MaxFrames
      /\ pending \in Seq(PacketNumbers) /\ wire \in Seq(Written)
  BY WayTypes DEF VideoInv, SubmitDecodeUnit, VideoTypeOK, PacketNumbers
<1>1. /\ track \notin {"none", "failed"} /\ ~dropped /\ todo = <<>> /\ frame' = frame + 1
      /\ UNCHANGED <<channel, queue, bucket, sender, dropped, track, paused, pauses, seq, pending,
                     wire, broken>>
  BY DEF SubmitDecodeUnit, paceVars, rtpVars
<1>2. PICK n \in 0..FrameSizes[frame + 1], ends \in BOOLEAN : todo' = Packets(frame + 1, n, ends)
  BY DEF SubmitDecodeUnit
<1>3. n \in Nat /\ frame + 1 \in 1..MaxFrames
  <2>1. frame + 1 \in 1..MaxFrames
    BY <1>0
  <2>2. FrameSizes[frame + 1] \in Nat
    BY <2>1
  <2> QED  BY <2>1, <2>2
<1>4. /\ todo' \in Seq(Packet) /\ Len(todo') = n
      /\ \A i \in 1..n : todo'[i].ts = frame + 1 /\ (todo'[i].marker => i = n)
  <2>1. todo' = [i \in 1..n |-> [ts |-> frame + 1, marker |-> ends /\ i = n]]
    BY <1>2 DEF Packets
  <2>2. \A i \in 1..n : [ts |-> frame + 1, marker |-> ends /\ i = n] \in Packet
    BY <1>3 DEF Packet
  <2> DEFINE f == [i \in 1..n |-> [ts |-> frame + 1, marker |-> ends /\ i = n]]
  <2>3. f \in Seq(Packet) /\ Len(f) = n
    BY <1>3, <2>2
  <2>4. \A i \in 1..n : f[i].ts = frame + 1 /\ (f[i].marker => i = n)
    OBVIOUS
  <2>5. todo' = f
    BY <2>1
  <2> HIDE DEF f
  <2> QED  BY <2>3, <2>4, <2>5
<1>5. VideoTypeOK'
  BY <1>0, <1>1, <1>3, <1>4 DEF VideoTypeOK
<1>6. CallbackFirst' /\ TrackFirst'
  BY <1>0, <1>1 DEF CallbackFirst, TrackFirst
<1>7. /\ Way' \in Seq(Packet) /\ Len(Way') = Len(Way) + n /\ Len(Way) \in Nat
      /\ \A i \in 1..Len(Way) : Way'[i] = Way[i]
      /\ \A i \in 1..n : Way'[Len(Way) + i] = todo'[i]
  <2>1. Way = queue \o channel
    BY <1>0, <1>1, ConcatEmptySeq DEF Way
  <2>2. Way' = (queue \o channel) \o todo'
    <3>1. JoinEither(queue, channel, todo')
      BY <1>0, <1>1, <1>4, JoinsEither
    <3>2. Way' = queue \o (channel \o todo')
      BY <1>1 DEF Way
    <3> QED  BY <3>1, <3>2 DEF JoinEither
  <2>3. \A a, b \in Seq(Packet) :
          /\ a \o b \in Seq(Packet) /\ Len(a \o b) = Len(a) + Len(b) /\ Len(a) \in Nat
          /\ \A i \in 1..Len(a) : (a \o b)[i] = a[i]
          /\ \A i \in 1..Len(b) : (a \o b)[Len(a) + i] = b[i]
    OBVIOUS
  <2>4. Way' = Way \o todo'
    BY <2>1, <2>2
  <2> QED  BY <1>0, <1>4, <2>3, <2>4
<1>8. \A i \in 1..Len(Way') : \/ i \in 1..Len(Way) /\ Way'[i] = Way[i]
                             \/ /\ i > Len(Way) /\ Way'[i].ts = frame + 1
                                /\ Way'[i].marker => i = Len(Way')
  <2> SUFFICES ASSUME NEW i \in 1..Len(Way'), i \notin 1..Len(Way)
               PROVE  i > Len(Way) /\ Way'[i].ts = frame + 1 /\ (Way'[i].marker => i = Len(Way'))
    BY <1>7
  <2> DEFINE k == i - Len(Way)
  <2>1. k \in 1..n /\ i = Len(Way) + k /\ i > Len(Way)
    BY <1>3, <1>7
  <2> HIDE DEF k
  <2> QED  BY <1>3, <1>4, <1>7, <2>1
<1>9. /\ InOrder(Way, frame) /\ OneFrame(pending, Way, frame) /\ ParityIsLast(wire, Way, pending)
      /\ WrittenBy(wire, frame)
  BY DEF VideoInv
<1>10. InOrder(Way', frame')
  <2> SUFFICES ASSUME NEW i \in 1..Len(Way')
               PROVE  /\ Way'[i].ts <= frame + 1
                      /\ \A j \in i + 1..Len(Way') :
                            /\ Way'[i].ts <= Way'[j].ts
                            /\ Way'[i].marker => Way'[i].ts < Way'[j].ts
    BY <1>1 DEF InOrder
  <2>1. \A j \in i + 1..Len(Way') : j \in 1..Len(Way') /\ i < j
    BY <1>7
  <2>2. CASE i \in 1..Len(Way)
    <3>1. Way[i].ts \in Nat /\ Way[i].ts <= frame
      <4>1. Way[i] \in Packet
        BY <1>0, <2>2
      <4> QED  BY <1>9, <2>2, <4>1 DEF InOrder, Packet
    <3>2. \A j \in i + 1..Len(Way) : Way[i].ts <= Way[j].ts /\ (Way[i].marker => Way[i].ts < Way[j].ts)
      BY <1>9, <2>2 DEF InOrder
    <3>3. ASSUME NEW j \in i + 1..Len(Way')
          PROVE  Way'[i].ts <= Way'[j].ts /\ (Way'[i].marker => Way'[i].ts < Way'[j].ts)
      <4>1. CASE j \in 1..Len(Way)
        <5>1. j \in i + 1..Len(Way)
          BY <1>7, <2>1, <4>1
        <5> QED  BY <1>7, <2>2, <3>2, <4>1, <5>1
      <4>2. CASE j \notin 1..Len(Way)
        <5>1. Way'[j].ts = frame + 1 /\ Way'[i] = Way[i]
          BY <1>7, <1>8, <2>1, <2>2, <4>2
        <5>2. frame \in Nat
          BY <1>0
        <5> QED  BY <3>1, <5>1, <5>2
      <4> QED  BY <4>1, <4>2
    <3> QED  BY <1>0, <1>7, <2>2, <3>1, <3>3
  <2>3. CASE i \notin 1..Len(Way)
    <3>1. Way'[i].ts = frame + 1 /\ (Way'[i].marker => i = Len(Way')) /\ i > Len(Way)
      BY <1>8, <2>3
    <3>2. ASSUME NEW j \in i + 1..Len(Way') PROVE Way'[j].ts = frame + 1 /\ i # Len(Way')
      <4>1. j > Len(Way) /\ i # Len(Way')
        BY <1>3, <1>7, <3>1
      <4> QED  BY <1>7, <1>8, <2>1, <4>1
    <3>3. frame \in Nat
      BY <1>0
    <3> QED  BY <3>1, <3>2, <3>3
  <2> QED  BY <2>2, <2>3
<1>11. ASSUME NEW t \in Nat, t <= frame, \A j \in 1..Len(Way) : t <= Way[j].ts
       PROVE  \A j \in 1..Len(Way') : t <= Way'[j].ts
  <2>1. \A i \in 1..Len(Way') : Way'[i].ts = frame + 1 \/ (i \in 1..Len(Way) /\ Way'[i] = Way[i])
    BY <1>8
  <2>2. t <= frame + 1
    BY <1>0, <1>11
  <2> QED  BY <1>11, <2>1, <2>2
<1>12. ASSUME NEW t \in Nat, t <= frame, Over(t, Way)
       PROVE  Over(t, Way')
  <2>1. \A i \in 1..Len(Way') : Way'[i].ts = frame + 1 \/ (i \in 1..Len(Way) /\ Way'[i] = Way[i])
    BY <1>8
  <2>2. t < frame + 1
    BY <1>0, <1>12
  <2> QED  BY <1>12, <2>1, <2>2 DEF Over
<1>13. OneFrame(pending', Way', frame')
  <2> SUFFICES ASSUME NEW i \in 1..Len(pending)
               PROVE  /\ pending[i].ts = pending[1].ts /\ pending[i].ts <= frame + 1
                      /\ \A j \in 1..Len(Way') : pending[i].ts <= Way'[j].ts
    BY <1>1 DEF OneFrame
  <2>1. pending[i].ts \in Nat
    <3>1. pending[i] \in PacketNumbers
      BY <1>0
    <3> QED  BY <3>1 DEF PacketNumbers
  <2>2. /\ pending[i].ts = pending[1].ts /\ pending[i].ts <= frame
        /\ \A j \in 1..Len(Way) : pending[i].ts <= Way[j].ts
    BY <1>9 DEF OneFrame
  <2>3. \A j \in 1..Len(Way') : pending[i].ts <= Way'[j].ts
    BY <1>11, <2>1, <2>2
  <2>4. pending[i].ts <= frame + 1
    BY <1>0, <2>1, <2>2
  <2> QED  BY <2>2, <2>3, <2>4
<1>14. \A k \in 1..Len(wire) : wire[k].ts \in Nat /\ wire[k].ts <= frame
  <2>1. \A k \in 1..Len(wire) : wire[k] \in Written
    BY <1>0
  <2> QED  BY <1>9, <2>1 DEF Written, WrittenBy
<1>15. ParityIsLast(wire', Way', pending')
  BY <1>1, <1>9, <1>12, <1>14 DEF ParityIsLast
<1>16. track' = "fec" => MediaIsKept(wire', Way', pending', broken')
  <2> SUFFICES ASSUME track = "fec", NEW j \in 1..Len(wire), wire[j].kind = "media"
               PROVE  IsKept(wire[j], wire, Way', pending, broken)
    BY <1>1 DEF MediaIsKept
  <2>1. IsKept(wire[j], wire, Way, pending, broken)
    BY DEF VideoInv, MediaIsKept
  <2> QED  BY <1>12, <1>14, <2>1 DEF IsKept
<1>17. /\ wire' \in Seq(Written) /\ InRow(pending', seq') /\ WrittenBy(wire', frame')
       /\ ParityOnlyWithFec'
  <2>1. WrittenBy(wire', frame')
    BY <1>0, <1>1, <1>14 DEF WrittenBy
  <2> QED  BY <1>1, <2>1 DEF VideoInv, ParityOnlyWithFec
<1> QED  BY <1>5, <1>6, <1>10, <1>13, <1>15, <1>16, <1>17 DEF VideoInv

LEMMA WriteKeeps == VideoInv /\ Write => VideoInv'
<1> SUFFICES ASSUME VideoInv, Write PROVE VideoInv'
  OBVIOUS
<1> USE VideoConstants
<1> DEFINE p == Head(queue)  v == Tail(Way)
<1>1. /\ VideoTypeOK /\ CallbackFirst /\ TrackFirst /\ sender = "write" /\ queue # <<>>
      /\ Way \in Seq(Packet)
      /\ queue \in Seq(Packet) /\ channel \in Seq(Packet) /\ todo \in Seq(Packet)
      /\ queue' = Tail(queue) /\ bucket' \in BOOLEAN /\ sender' \in {"write", "recv"}
      /\ UNCHANGED <<frame, todo, channel, dropped, track, paused, pauses>>
      /\ Skip(p) \/ Fails(p) \/ Succeeds(p) \/ EndsFrame(p)
  BY WayTypes DEF VideoInv, Write, frameVars
<1>2. Way # <<>> /\ Head(Way) = p /\ Way' = v
  <2>1. /\ Way # <<>> /\ Head(Way) = p /\ Tail(queue) \o (channel \o todo) = v
    <3>1. \A a, b, c \in Seq(Packet) :
             a # <<>> => /\ a \o (b \o c) # <<>> /\ Head(a \o (b \o c)) = Head(a)
                         /\ Tail(a) \o (b \o c) = Tail(a \o (b \o c))
      BY Moves
    <3> QED  BY <1>1, <3>1 DEF Way
  <2>2. Way' = queue' \o (channel' \o todo')
    BY DEF Way
  <2>3. queue' = Tail(queue) /\ channel' = channel /\ todo' = todo
    BY <1>1
  <2>4. Way' = Tail(queue) \o (channel \o todo)
    BY <2>2, <2>3, Zenon
  <2> QED  BY <2>1, <2>4, Zenon
<1>3. /\ v \in Seq(Packet) /\ RestOf(Way, v, 1) /\ IsFirst(p)
  <2>1. p \in Packet /\ Head(Way) = Way[1]
    BY <1>1, <1>2
  <2> QED  BY <1>1, <1>2, <2>1, TailIs DEF IsFirst
<1> HIDE DEF p, v
<1>4. /\ p.ts \in 1..MaxFrames /\ p.ts <= frame /\ frame \in Nat
      /\ seq \in 0..SeqModulus - 1 /\ pending \in Seq(PacketNumbers) /\ broken \subseteq 1..MaxFrames
      /\ wire \in Seq(Written) /\ WrittenBy(wire, frame)
  BY <1>1, <1>3, FirstFacts DEF VideoInv, VideoTypeOK
<1>5. /\ InOrder(v, frame) /\ OneFrame(pending, v, frame) /\ ParityIsLast(wire, v, pending)
      /\ track = "fec" => MediaIsKept(wire, v, pending, broken)
  BY <1>1, <1>3, <1>4, LessKeeps DEF VideoInv
<1>6. ASSUME seq' \in 0..SeqModulus - 1, pending' \in Seq(PacketNumbers), broken' \subseteq 1..MaxFrames
      PROVE  VideoTypeOK'
  <2>1. queue' \in Seq(Packet)
    BY <1>1
  <2> QED  BY <1>1, <1>6, <2>1 DEF VideoTypeOK, PacketNumbers
<1>7. CallbackFirst'
  BY <1>1 DEF CallbackFirst
<1>8. InOrder(Way', frame')
  BY <1>1, <1>2, <1>5
<1>9. CASE Skip(p)
  <2>1. UNCHANGED <<seq, pending, wire, broken>>
    BY <1>9 DEF Skip
  <2>2. VideoTypeOK' /\ TrackFirst'
    BY <1>1, <1>4, <1>6, <2>1 DEF TrackFirst
  <2>3. ParityOnlyWithFec' /\ InRow(pending', seq')
    BY <1>1, <2>1 DEF VideoInv, ParityOnlyWithFec
  <2> QED  BY <1>1, <1>2, <1>4, <1>5, <1>7, <1>8, <2>1, <2>2, <2>3 DEF VideoInv
<1>10. CASE Fails(p) \/ Succeeds(p)
  <2>1. /\ track \in {"plain", "fec"} /\ seq' = (seq + 1) % SeqModulus
        /\ pending' = IF track = "fec" THEN Recorded(p) ELSE pending
        /\ \/ wire' = wire /\ broken' = broken \cup {p.ts}
           \/ wire' = Append(wire, Media(p)) /\ broken' = broken
    BY <1>10 DEF Fails, Succeeds
  <2>2. Continues(Recorded(p), p)
    BY <1>3, RecordedIs
  <2>3. seq' \in 0..SeqModulus - 1 /\ broken' \subseteq 1..MaxFrames
    <3>1. (seq + 1) % SeqModulus \in 0..SeqModulus - 1
      BY <1>4
    <3>2. broken \cup {p.ts} \subseteq 1..MaxFrames
      BY <1>4
    <3> QED  BY <1>4, <2>1, <3>1, <3>2
  <2>4. Media(p) \in Written /\ Media(p).kind = "media" /\ Media(p).ts = p.ts
    <3>1. {} \in SUBSET PacketNumbers
      OBVIOUS
    <3> QED  BY <1>4, <3>1 DEF Media, Written
  <2>5. wire' \in Seq(Written) /\ WrittenBy(wire', frame')
    <3>1. CASE wire' = wire
      BY <1>1, <1>4, <3>1
    <3>2. CASE wire' = Append(wire, Media(p))
      <4>1. /\ wire' \in Seq(Written)
            /\ \A j \in 1..Len(wire') : (j \in 1..Len(wire) /\ wire'[j] = wire[j]) \/ wire'[j] = Media(p)
        BY <1>4, <2>4, <3>2
      <4> QED  BY <1>1, <1>4, <2>4, <4>1 DEF WrittenBy
    <3> QED  BY <2>1, <3>1, <3>2
  <2>6. ParityOnlyWithFec'
    <3>1. \A j \in 1..Len(wire') : \/ j \in 1..Len(wire) /\ wire'[j] = wire[j]
                                  \/ wire'[j] = Media(p)
      BY <1>4, <2>1, <2>4
    <3> QED  BY <1>1, <2>4, <3>1 DEF VideoInv, ParityOnlyWithFec
  <2>7. CASE track = "fec"
    <3>1. pending' = Recorded(p) /\ Recorded(p) \in Seq(PacketNumbers) /\ InRow(Recorded(p), (seq + 1) % SeqModulus)
      BY <2>1, <2>2, <2>7 DEF Continues
    <3>2. /\ OneFrame(Recorded(p), v, frame) /\ ParityIsLast(wire', v, Recorded(p))
          /\ MediaIsKept(wire', v, Recorded(p), broken')
      <4> DEFINE rec == Recorded(p)  wr == wire'  bad == broken'
      <4>1. /\ Continues(rec, p)
            /\ \/ wr = wire /\ bad = broken \cup {p.ts}
               \/ wr = Append(wire, Media(p)) /\ bad = broken
        BY <2>1, <2>2
      <4> HIDE DEF rec, wr, bad
      <4>2. OneFrame(rec, v, frame) /\ ParityIsLast(wr, v, rec) /\ MediaIsKept(wr, v, rec, bad)
        BY <1>3, <2>7, <4>1, RecordKeeps DEF v
      <4> QED  BY <4>2 DEF rec, wr, bad
    <3>3. VideoTypeOK' /\ TrackFirst'
      BY <1>1, <1>6, <2>3, <2>7, <3>1 DEF TrackFirst
    <3>4. /\ OneFrame(pending', Way', frame') /\ ParityIsLast(wire', Way', pending')
          /\ MediaIsKept(wire', Way', pending', broken') /\ InRow(pending', seq')
      BY <1>1, <1>2, <2>1, <3>1, <3>2
    <3> QED  BY <1>7, <1>8, <2>5, <2>6, <3>3, <3>4 DEF VideoInv
  <2>8. CASE track # "fec"
    <3>1. pending' = pending /\ pending = <<>> /\ track' = "plain"
      BY <1>1, <2>1, <2>8 DEF TrackFirst
    <3>2. VideoTypeOK' /\ TrackFirst'
      BY <1>1, <1>4, <1>6, <2>3, <2>8, <3>1 DEF TrackFirst
    <3>3. OneFrame(pending', Way', frame') /\ InRow(pending', seq')
      <4>1. \A i \in 1..Len(<<>>) : FALSE
        OBVIOUS
      <4> QED  BY <3>1, <4>1 DEF OneFrame, InRow
    <3>4. ParityIsLast(wire', Way', pending')
      BY <2>6, <3>1 DEF ParityOnlyWithFec, ParityIsLast
    <3> QED  BY <1>7, <1>8, <2>5, <2>6, <3>1, <3>2, <3>3, <3>4 DEF VideoInv
  <2> QED  BY <2>7, <2>8
<1>11. CASE EndsFrame(p)
  <2> DEFINE rec == Recorded(p)
  <2>1. track = "fec" /\ p.marker /\ \E k \in 0..Len(Groups(rec)) : WriteParities(p, rec, k)
    BY <1>11 DEF EndsFrame
  <2>2. Continues(rec, p)
    BY <1>3, RecordedIs
  <2>3. rec \in Seq(PacketNumbers)
    BY <2>2 DEF Continues
  <2> HIDE DEF rec
  <2>4. PICK k \in 0..Len(Groups(rec)) : WriteParities(p, rec, k)
    BY <2>1
  <2>5. Len(Groups(rec)) \in Nat /\ k \in Nat
    BY <2>3, GroupsCount
  <2>6. /\ wire' = Ended(p, Groups(rec), k) /\ pending' = <<>>
        /\ broken' = IF k = Len(Groups(rec)) THEN broken ELSE broken \cup {p.ts}
    BY <2>4 DEF WriteParities, Ended
  <2>7. seq' \in 0..SeqModulus - 1
    <3>1. \A n \in Nat : n % SeqModulus \in 0..SeqModulus - 1
      OBVIOUS
    <3>2. seq + 1 + k + (IF k = Len(Groups(rec)) THEN 0 ELSE 1) \in Nat
      BY <1>4, <2>5
    <3> QED  BY <2>4, <3>1, <3>2 DEF WriteParities
  <2>8. EndsWith(wire', p, rec, k)
    BY <1>3, <2>2, <2>6, EndWrites
  <2>9. ParityIsLast(wire', v, <<>>) /\ MediaIsKept(wire', v, <<>>, broken')
    <3> DEFINE wr == wire'  bad == broken'
    <3>1. wr = Ended(p, Groups(rec), k) /\ bad = IF k = Len(Groups(rec)) THEN broken ELSE broken \cup {p.ts}
      BY <2>6
    <3> HIDE DEF wr, bad
    <3>2. ParityIsLast(wr, v, <<>>) /\ (track = "fec" => MediaIsKept(wr, v, <<>>, bad))
      BY <1>3, <2>1, <2>2, <3>1, EndKeeps DEF v
    <3> QED  BY <2>1, <3>2 DEF wr, bad
  <2>10. VideoTypeOK' /\ TrackFirst'
    <3>1. <<>> \in Seq(PacketNumbers) /\ broken' \subseteq 1..MaxFrames
      <4>1. broken \cup {p.ts} \subseteq 1..MaxFrames
        BY <1>4
      <4>2. <<>> \in Seq(PacketNumbers)
        OBVIOUS
      <4> QED  BY <1>4, <2>6, <4>1, <4>2
    <3> QED  BY <1>1, <1>6, <2>1, <2>6, <2>7, <3>1 DEF TrackFirst
  <2>11. wire' \in Seq(Written) /\ WrittenBy(wire', frame')
    <3>1. \A j \in 1..Len(wire') : \/ j \in 1..Len(wire) /\ wire'[j] = wire[j]
                                  \/ wire'[j].ts = p.ts
      <4> SUFFICES ASSUME NEW j \in 1..Len(wire'), j \notin 1..Len(wire)
                   PROVE  wire'[j].ts = p.ts
        BY <2>8 DEF EndsWith
      <4> DEFINE n == Len(wire)
      <4>1. n \in Nat /\ j \in 1..n + 1 + k /\ j \notin 1..n
        BY <1>4, <2>8 DEF EndsWith
      <4> HIDE DEF n
      <4>2. j = n + 1 \/ (j - (n + 1) \in 1..k /\ j = n + 1 + (j - (n + 1)))
        BY <2>5, <4>1
      <4>3. wire'[n + 1].ts = p.ts /\ \A g \in 1..k : wire'[n + 1 + g].ts = p.ts
        <5>1. wire'[n + 1] = Media(p) /\ \A g \in 1..k : wire'[n + 1 + g].ts = p.ts
          BY <2>8 DEF EndsWith, n
        <5>2. Media(p).ts = p.ts
          BY DEF Media
        <5> QED  BY <5>1, <5>2
      <4> QED  BY <4>2, <4>3
    <3> QED  BY <1>1, <1>4, <2>8, <3>1 DEF WrittenBy, EndsWith
  <2>12. OneFrame(pending', Way', frame') /\ InRow(pending', seq')
    <3>1. \A i \in 1..Len(<<>>) : FALSE
      OBVIOUS
    <3> QED  BY <2>6, <3>1 DEF OneFrame, InRow
  <2>13. ParityOnlyWithFec'
    BY <1>1, <2>1 DEF ParityOnlyWithFec
  <2>14. ParityIsLast(wire', Way', pending') /\ MediaIsKept(wire', Way', pending', broken')
    BY <1>2, <2>6, <2>9
  <2> QED  BY <1>7, <1>8, <2>10, <2>11, <2>12, <2>13, <2>14 DEF VideoInv
<1> QED  BY <1>1, <1>9, <1>10, <1>11

LEMMA VideoInvHolds == VideoSpec => []VideoInv
<1>1. VideoInit => VideoInv
  <2> SUFFICES ASSUME VideoInit PROVE VideoInv
    OBVIOUS
  <2> USE VideoConstants
  <2>1. /\ <<>> \in Seq(Packet) /\ <<>> \in Seq(Written) /\ <<>> \in Seq(PacketNumbers) /\ Len(<<>>) = 0
        /\ 0 \in 0..MaxFrames /\ 0 \in 0..MaxPauses /\ 0 \in 0..SeqModulus - 1
        /\ \A i \in 1..Len(<<>>) : FALSE
    OBVIOUS
  <2>2. Way = <<>>
    BY DEF VideoInit, Way
  <2>3. VideoTypeOK
    <3>1. /\ Len(channel) <= ChannelSize /\ pending \in Seq(PacketNumbers)
          /\ {todo, channel, queue} \subseteq Seq(Packet)
      BY <2>1 DEF VideoInit
    <3>2. /\ frame \in 0..MaxFrames /\ pauses \in 0..MaxPauses /\ seq \in 0..SeqModulus - 1
          /\ broken \subseteq 1..MaxFrames /\ {bucket, dropped, paused} \subseteq BOOLEAN
      BY <2>1 DEF VideoInit
    <3> QED  BY <3>1, <3>2 DEF VideoInit, VideoTypeOK, PacketNumbers
  <2>4. CallbackFirst /\ TrackFirst
    BY DEF VideoInit, CallbackFirst, TrackFirst
  <2>5. InOrder(<<>>, frame) /\ OneFrame(<<>>, <<>>, frame) /\ InRow(<<>>, seq) /\ WrittenBy(<<>>, frame)
    BY <2>1 DEF InOrder, OneFrame, InRow, WrittenBy
  <2>6. ParityOnlyWithFec /\ ParityIsLast(<<>>, <<>>, <<>>) /\ track # "fec"
    BY <2>1 DEF VideoInit, ParityOnlyWithFec, ParityIsLast
  <2> QED  BY <2>1, <2>2, <2>3, <2>4, <2>5, <2>6 DEF VideoInit, VideoInv
<1>2. VideoInv /\ [VideoNext]_videoVars => VideoInv'
  BY SetupKeeps, SubmitKeeps, ResolvesKeeps, QueuesKeep, WriteKeeps DEF VideoNext
<1> QED  BY <1>1, <1>2, PTL DEF VideoSpec

\* The types; the channel never holds more than it has room for.
THEOREM VideoTypeSafe == VideoSpec => []VideoTypeOK
<1>1. VideoInv => VideoTypeOK
  BY DEF VideoInv
<1> QED  BY <1>1, VideoInvHolds, PTL

\* For every size of frames, of groups and of the queues, and whatever is paused, fails, is
\* thrown away or never finished: parity is over packets of its own frame that its mask can
\* name, and covers all of the frame that was written (sender.rs:452-459, fec.rs:103-105).
THEOREM ParityCovers == VideoSpec => []ParityCoversFrame
<1>1. VideoInv => ParityCoversFrame
  <2> SUFFICES ASSUME VideoInv, NEW i \in DOMAIN wire, wire[i].kind = "parity"
               PROVE  /\ Cardinality(wire[i].covers) \in 1..GroupSize
                      /\ \E first \in wire[i].covers : \A m \in wire[i].covers :
                            m.ts = wire[i].ts /\ Distance(first, m) < MaskBits
                      /\ wire[i].ts \notin broken =>
                            \A j \in DOMAIN wire :
                                wire[j].kind = "media" /\ wire[j].ts = wire[i].ts =>
                                   \E k \in DOMAIN wire :
                                      wire[k].kind = "parity" /\ Number(wire[j]) \in wire[k].covers
    BY DEF ParityCoversFrame
  <2>1. wire \in Seq(Written) /\ DOMAIN wire = 1..Len(wire) /\ pending \in Seq(PacketNumbers)
    BY DEF VideoInv, VideoTypeOK, PacketNumbers
  <2>2. /\ RightGroup(wire[i].covers, wire[i].ts) /\ Over(wire[i].ts, Way)
        /\ \A n \in 1..Len(pending) : wire[i].ts < pending[n].ts
        /\ track = "fec"
    BY <2>1 DEF VideoInv, ParityIsLast, ParityOnlyWithFec
  <2>3. ASSUME wire[i].ts \notin broken, NEW j \in 1..Len(wire), wire[j].kind = "media",
               wire[j].ts = wire[i].ts
        PROVE  Covered(wire[j], wire)
    <3>1. IsKept(wire[j], wire, Way, pending, broken)
      BY <2>2, <2>3 DEF VideoInv, MediaIsKept
    <3>2. ~Awaits(wire[j], pending)
      <4> SUFFICES ASSUME NEW n \in 1..Len(pending), pending[n] = Number(wire[j]) PROVE FALSE
        BY DEF Awaits
      <4>1. pending[n].ts = wire[i].ts /\ wire[i].ts < pending[n].ts
        BY <2>2, <2>3 DEF Number
      <4>2. pending[n] \in PacketNumbers
        BY <2>1
      <4> QED  BY <4>1, <4>2 DEF PacketNumbers
    <3>3. HasParity(wire[j].ts, wire)
      BY <2>1, <2>3 DEF HasParity
    <3> QED  BY <2>3, <3>1, <3>2, <3>3 DEF IsKept
  <2> QED  BY <2>1, <2>2, <2>3 DEF RightGroup, Covered
<1> QED  BY <1>1, VideoInvHolds, PTL

-----------------------------------------------------------------------------
(***************************************************************************)
(* The splitter of a frame. It has returned the units of the start codes   *)
(* it has passed.                                                          *)
(***************************************************************************)

\* The marks from i on, and the first of a set of them.
Later(i)   == {m \in Marks : i <= m}
FirstOf(S) == CHOOSE m \in S : \A x \in S : m <= x

\* The elements of a sequence.
Entries(s) == {s[i] : i \in DOMAIN s}

\* The units whose first byte is not behind o.
UnitsTo(o) == {u \in Units : Kept(u[1], u[2]) /\ u[1] <= o}

\* The reader has returned the units up to its offset, which is in none of the start codes
\* behind it.
UnitsSoFar ==
    /\ \A m \in Marks : m + 3 <= offset \/ offset <= m
    /\ Entries(nals) = UnitsTo(offset)
    /\ \A i \in DOMAIN nals : nals[i][2] <= offset
    /\ \A i, j \in DOMAIN nals : i < j => nals[i][2] < nals[j][1]

AnnexInv == AnnexTypeOK /\ UnitsSoFar

LEMMA StartCodes ==
    ASSUME data \in Seq(Bytes), NEW i \in Nat
    PROVE  /\ StartsAt(i, B3) <=> /\ i + 3 <= Len(data)
                                  /\ data[i + 1] = 0 /\ data[i + 2] = 0 /\ data[i + 3] = 1
           /\ StartsAt(i, B4) <=> /\ i + 4 <= Len(data) /\ data[i + 1] = 0
                                  /\ data[i + 2] = 0 /\ data[i + 3] = 0 /\ data[i + 4] = 1
<1>1. /\ Len(B3) = 3 /\ DOMAIN B3 = {1, 2, 3} /\ B3[1] = 0 /\ B3[2] = 0 /\ B3[3] = 1
  BY DEF B3
<1>2. /\ Len(B4) = 4 /\ DOMAIN B4 = {1, 2, 3, 4} /\ B4[1] = 0 /\ B4[2] = 0 /\ B4[3] = 0 /\ B4[4] = 1
  BY DEF B4
<1>3. i + 1 - 1 + 1 = i + 1 /\ i + 2 - 1 + 1 = i + 2 /\ i + 3 - 1 + 1 = i + 3 /\ i + 4 - 1 + 1 = i + 4
  OBVIOUS
<1>4. StartsAt(i, B3) <=> /\ i + 3 <= Len(data)
                          /\ data[i + 1] = 0 /\ data[i + 2] = 0 /\ data[i + 3] = 1
  BY <1>1, <1>3 DEF StartsAt, Byte
<1>5. StartsAt(i, B4) <=> /\ i + 4 <= Len(data) /\ data[i + 1] = 0
                          /\ data[i + 2] = 0 /\ data[i + 3] = 0 /\ data[i + 4] = 1
  BY <1>2, <1>3 DEF StartsAt, Byte
<1> QED  BY <1>4, <1>5

\* Start codes do not overlap.
LEMMA MarksApart ==
    ASSUME data \in Seq(Bytes)
    PROVE  /\ Marks \subseteq Nat
           /\ \A m \in Marks : m + 3 <= Len(data) /\ data[m + 1] = 0 /\ data[m + 2] = 0 /\ data[m + 3] = 1
           /\ \A m, n \in Marks : m < n => m + 3 <= n
           /\ \A i \in Nat : StartsAt(i, B3) => i \in Marks
           /\ \A i \in Nat : StartsAt(i, B4) => i + 1 \in Marks /\ i \notin Marks /\ data[i + 1] = 0
<1>1. Len(data) \in Nat
  OBVIOUS
<1>2. Marks \subseteq Nat
  BY <1>1 DEF Marks
<1>3. \A m \in Marks : m + 3 <= Len(data) /\ data[m + 1] = 0 /\ data[m + 2] = 0 /\ data[m + 3] = 1
  BY <1>2, StartCodes DEF Marks
<1>4. \A i \in Nat : StartsAt(i, B3) => i \in Marks
  BY <1>1, StartCodes DEF Marks
<1>5. ASSUME NEW m \in Marks, NEW n \in Marks, m < n PROVE m + 3 <= n
  <2>1. n # m + 1
    <3>1. n = m + 1 => n + 2 = m + 3
      BY <1>2
    <3> QED  BY <1>3, <3>1
  <2>2. n # m + 2
    <3>1. n = m + 2 => n + 1 = m + 3
      BY <1>2
    <3> QED  BY <1>3, <3>1
  <2> QED  BY <1>2, <1>5, <2>1, <2>2
<1>6. ASSUME NEW i \in Nat, StartsAt(i, B4)
      PROVE  i + 1 \in Marks /\ i \notin Marks /\ data[i + 1] = 0
  <2>1. /\ i + 4 <= Len(data) /\ data[i + 1] = 0
        /\ data[i + 2] = 0 /\ data[i + 3] = 0 /\ data[i + 4] = 1
    BY <1>6, StartCodes
  <2>2. i + 1 \in Nat /\ i + 1 + 3 <= Len(data) /\ i + 1 + 1 = i + 2 /\ i + 1 + 2 = i + 3 /\ i + 1 + 3 = i + 4
    BY <1>1, <2>1
  <2>3. StartsAt(i + 1, B3)
    BY <2>1, <2>2, StartCodes
  <2> QED  BY <1>3, <1>4, <2>1, <2>2, <2>3
<1> QED  BY <1>2, <1>3, <1>4, <1>5, <1>6

LEMMA FirstIs ==
    ASSUME NEW S, S \subseteq Nat, S # {}
    PROVE  FirstOf(S) \in S /\ \A x \in S : FirstOf(S) <= x
BY LeastElement DEF FirstOf

\* What a search from first on comes to at i: it has seen the bytes from first to i, and has
\* found no start code that begins there.
Found(i, first) ==
    IF Later(i) = {} THEN NoCode
    ELSE LET m == FirstOf(Later(i))
         IN  IF (m > first \/ m > i) /\ Byte(m - 1) = 0 THEN [at |-> m - 1, len |-> 4]
                                                       ELSE [at |-> m, len |-> 3]

\* One step of the search, where next is what the search comes to at the next byte.
OneStep(i, first, next) ==
    IF i + 2 >= Len(data) THEN NoCode
    ELSE IF StartsAt(i, B3)
         THEN IF i > first /\ Byte(i - 1) = 0 THEN [at |-> i - 1, len |-> 4]
              ELSE [at |-> i, len |-> 3]
    ELSE IF StartsAt(i, B4) THEN [at |-> i, len |-> 4]
    ELSE next

\* No mark is left at the end; at a mark it is the first one, elsewhere the first is that of
\* the next byte.
LEMMA FirstLater ==
    ASSUME data \in Seq(Bytes), NEW i \in Nat
    PROVE  /\ Later(i) \subseteq Nat
           /\ i + 2 >= Len(data) => Later(i) = {}
           /\ i \in Marks => Later(i) # {} /\ FirstOf(Later(i)) = i
           /\ i \notin Marks => Later(i) = Later(i + 1)
           /\ Later(i) # {} => /\ FirstOf(Later(i)) \in Marks /\ FirstOf(Later(i)) >= i
                               /\ \A m \in Marks : i <= m => FirstOf(Later(i)) <= m
<1>1. /\ Marks \subseteq Nat /\ Len(data) \in Nat
      /\ \A m \in Marks : m + 3 <= Len(data)
  BY MarksApart
<1>2. /\ Later(i) \subseteq Nat /\ Later(i) \subseteq Marks /\ \A m \in Later(i) : i <= m
  BY <1>1 DEF Later
<1>3. i + 2 >= Len(data) => Later(i) = {}
  <2>1. \A m \in Later(i) : m \in Nat /\ i <= m /\ m + 3 <= Len(data)
    BY <1>1, <1>2
  <2>2. i + 2 >= Len(data) => \A m \in Later(i) : FALSE
    BY <1>1, <2>1
  <2> QED  BY <2>2
<1>4. Later(i) # {} => /\ FirstOf(Later(i)) \in Marks /\ FirstOf(Later(i)) >= i
                       /\ \A m \in Marks : i <= m => FirstOf(Later(i)) <= m
  <2>1. Later(i) # {} => /\ FirstOf(Later(i)) \in Later(i)
                         /\ \A m \in Later(i) : FirstOf(Later(i)) <= m
    BY <1>2, FirstIs
  <2>2. \A m \in Marks : i <= m => m \in Later(i)
    BY DEF Later
  <2> QED  BY <1>1, <1>2, <2>1, <2>2
<1>5. i \in Marks => i \in Later(i)
  BY DEF Later
<1>6. ASSUME i \in Marks PROVE Later(i) # {} /\ FirstOf(Later(i)) = i
  <2>1. Later(i) # {}
    BY <1>5, <1>6
  <2>2. i <= i
    OBVIOUS
  <2>3. FirstOf(Later(i)) \in Marks /\ FirstOf(Later(i)) >= i /\ FirstOf(Later(i)) <= i
    BY <1>4, <1>6, <2>1, <2>2, Zenon
  <2>4. FirstOf(Later(i)) \in Nat
    BY <1>1, <2>3
  <2> QED  BY <2>1, <2>3, <2>4
<1>7. ASSUME i \notin Marks PROVE Later(i) = Later(i + 1)
  <2>1. \A m \in Marks : i <= m <=> i + 1 <= m
    BY <1>1, <1>7
  <2> QED  BY <2>1 DEF Later
<1> QED  BY <1>2, <1>3, <1>4, <1>6, <1>7

LEMMA FoundSteps ==
    ASSUME data \in Seq(Bytes), NEW first \in Nat, NEW i \in Nat
    PROVE  Found(i, first) = OneStep(i, first, Found(i + 1, first))
<1> DEFINE m == FirstOf(Later(i))  n == FirstOf(Later(i + 1))
<1>1. /\ Len(data) \in Nat /\ Marks \subseteq Nat /\ i + 1 \in Nat
      /\ StartsAt(i, B3) <=> i \in Marks
      /\ StartsAt(i, B4) => i + 1 \in Marks /\ i \notin Marks /\ data[i + 1] = 0
  BY MarksApart DEF Marks
<1>2. CASE i + 2 >= Len(data)
  BY <1>2, FirstLater DEF Found, OneStep
<1>3. CASE ~(i + 2 >= Len(data)) /\ i \in Marks
  <2>1. Later(i) # {} /\ m = i /\ ~(i > i)
    BY <1>3, FirstLater
  <2>2. Found(i, first) = IF i > first /\ Byte(i - 1) = 0 THEN [at |-> i - 1, len |-> 4]
                                                        ELSE [at |-> i, len |-> 3]
    BY <2>1 DEF Found
  <2> QED  BY <1>1, <1>3, <2>2 DEF OneStep
<1>4. CASE ~(i + 2 >= Len(data)) /\ i \notin Marks /\ StartsAt(i, B4)
  <2>1. Later(i) = Later(i + 1) /\ Later(i + 1) # {} /\ m = i + 1
    BY <1>1, <1>4, FirstLater
  <2>2. m > i /\ m - 1 = i /\ Byte(m - 1) = 0
    BY <1>1, <1>4, <2>1 DEF Byte
  <2>3. Found(i, first) = [at |-> i, len |-> 4]
    BY <2>1, <2>2 DEF Found
  <2> QED  BY <1>1, <1>4, <2>3 DEF OneStep
<1>5. CASE ~(i + 2 >= Len(data)) /\ i \notin Marks /\ ~StartsAt(i, B4)
  <2>1. Later(i) = Later(i + 1) /\ OneStep(i, first, Found(i + 1, first)) = Found(i + 1, first)
    BY <1>1, <1>5, FirstLater DEF OneStep
  <2>2. CASE Later(i) = {}
    BY <2>1, <2>2 DEF Found
  <2>3. CASE Later(i) # {}
    <3>1. m = n /\ m \in Marks /\ m \in Nat /\ m >= i + 1
      BY <1>1, <2>1, <2>3, FirstLater
    <3>2. Byte(m - 1) = 0 => m # i + 1
      <4> SUFFICES ASSUME Byte(m - 1) = 0, m = i + 1 PROVE FALSE
        OBVIOUS
      <4>1. data[i + 1] = 0
        BY <3>1 DEF Byte
      <4>2. /\ i + 1 + 3 <= Len(data)
            /\ data[i + 1 + 1] = 0 /\ data[i + 1 + 2] = 0 /\ data[i + 1 + 3] = 1
        BY <3>1, MarksApart
      <4>3. i + 1 + 1 = i + 2 /\ i + 1 + 2 = i + 3 /\ i + 1 + 3 = i + 4
        OBVIOUS
      <4> QED  BY <1>5, <4>1, <4>2, <4>3, StartCodes
    <3>3. Byte(m - 1) = 0 => m > i /\ m > i + 1
      BY <3>1, <3>2
    <3>4. Found(i, first) = IF (m > first \/ m > i) /\ Byte(m - 1) = 0
                           THEN [at |-> m - 1, len |-> 4] ELSE [at |-> m, len |-> 3]
      BY <2>3 DEF Found
    <3>5. Found(i + 1, first) = IF (m > first \/ m > i + 1) /\ Byte(m - 1) = 0
                               THEN [at |-> m - 1, len |-> 4] ELSE [at |-> m, len |-> 3]
      BY <2>1, <2>3, <3>1 DEF Found
    <3> HIDE DEF m
    <3>6. Found(i, first) = Found(i + 1, first)
      BY <3>3, <3>4, <3>5
    <3> QED  BY <2>1, <3>6
  <2> QED  BY <2>2, <2>3
<1> QED  BY <1>1, <1>2, <1>3, <1>4, <1>5

\* The search finds the first start code from first on, and with it the zero before it unless
\* that was found before.
LEMMA SearchFinds ==
    ASSUME data \in Seq(Bytes), NEW first \in Nat
    PROVE  FindStartCode(first) = Found(first, first)
<1> DEFINE g == [i \in Nat |-> Found(i, first)]
<1>1. g = [i \in Nat |-> OneStep(i, first, g[i + 1])]
  <2> DEFINE F == [i \in Nat |-> OneStep(i, first, g[i + 1])]
  <2>1. ASSUME NEW i \in Nat PROVE g[i] = F[i]
    BY FoundSteps
  <2>2. DOMAIN g = Nat /\ DOMAIN F = Nat /\ g = [i \in Nat |-> g[i]] /\ F = [i \in Nat |-> F[i]]
    OBVIOUS
  <2> HIDE DEF F, g
  <2>3. g = F
    BY <2>1, <2>2
  <2> QED  BY <2>3 DEF F
<1> HIDE DEF g
<1>2. \E f : f = [i \in Nat |-> OneStep(i, first, f[i + 1])]
  BY <1>1
<1>3. PICK k : FindStartCode(first) = k[first] /\ k = [i \in Nat |-> OneStep(i, first, k[i + 1])]
  BY <1>2, Zenon DEF FindStartCode, OneStep
<1>4. \A i \in Nat : k[i] = OneStep(i, first, k[i + 1])
  <2>1. PICK F : F = [i \in Nat |-> OneStep(i, first, k[i + 1])]
    OBVIOUS
  <2>2. \A i \in Nat : F[i] = OneStep(i, first, k[i + 1])
    BY <2>1
  <2> QED  BY <1>3, <2>1, <2>2
<1> DEFINE N == Len(data) + first
           Right == {n \in 0..N : k[N - n] = Found(N - n, first)}
<1>5. N \in Nat /\ Len(data) \in Nat
  OBVIOUS
<1>6. 0 \in Right
  <2>1. N + 2 >= Len(data) /\ N - 0 = N /\ 0 \in 0..N
    BY <1>5
  <2>2. \A x : OneStep(N, first, x) = NoCode
    BY <2>1 DEF OneStep
  <2>3. k[N] = NoCode /\ Found(N, first) = NoCode
    BY <1>4, <1>5, <2>2, FoundSteps
  <2> QED  BY <2>1, <2>3
<1>7. ASSUME NEW n \in 0..N - 1, n \in Right PROVE n + 1 \in Right
  <2>1. n \in 0..N /\ n + 1 \in 0..N /\ N - (n + 1) \in Nat /\ N - (n + 1) + 1 = N - n
    BY <1>5
  <2>2. k[N - n] = Found(N - n, first)
    BY <1>7
  <2>3. k[N - (n + 1)] = OneStep(N - (n + 1), first, k[N - n])
    BY <1>4, <2>1
  <2>4. Found(N - (n + 1), first) = OneStep(N - (n + 1), first, Found(N - n, first))
    BY <2>1, FoundSteps
  <2> QED  BY <2>1, <2>2, <2>3, <2>4
<1> HIDE DEF N
<1>8. 0..N \subseteq Right
  <2>1. \A n \in 0..N - 1 : n \in Right => n + 1 \in Right
    BY <1>7
  <2> HIDE DEF Right
  <2> QED  BY <1>5, <1>6, <2>1, SetInduction
<1>9. Len(data) \in 0..N /\ N - Len(data) = first
  BY <1>5 DEF N
<1> QED  BY <1>3, <1>8, <1>9

\* The next unit begins behind the first mark from the offset on.
LEMMA CodeAtOffsetIs ==
    ASSUME data \in Seq(Bytes), offset \in Nat
    PROVE  IF Later(offset) = {} THEN CodeAtOffset = NoCode
           ELSE CodeAtOffset # NoCode /\ CodeAtOffset.at + CodeAtOffset.len = FirstOf(Later(offset)) + 3
<1> DEFINE m == FirstOf(Later(offset))
<1>1. /\ Len(data) \in Nat /\ Marks \subseteq Nat
      /\ StartsAt(offset, B3) <=> offset \in Marks
      /\ StartsAt(offset, B4) => offset + 1 \in Marks /\ offset \notin Marks
  BY MarksApart DEF Marks
<1>2. \A a, l \in Nat : l # 0 => [at |-> a, len |-> l] # NoCode
  BY DEF NoCode
<1>3. CASE StartsAt(offset, B4)
  <2>1. Later(offset) = Later(offset + 1) /\ Later(offset) # {} /\ m = offset + 1
    BY <1>1, <1>3, FirstLater
  <2>2. CodeAtOffset = [at |-> offset, len |-> 4]
    BY <1>3 DEF CodeAtOffset
  <2> QED  BY <1>2, <2>1, <2>2
<1>4. CASE ~StartsAt(offset, B4) /\ StartsAt(offset, B3)
  <2>1. Later(offset) # {} /\ m = offset
    BY <1>1, <1>4, FirstLater
  <2>2. CodeAtOffset = [at |-> offset, len |-> 3]
    BY <1>4 DEF CodeAtOffset
  <2> QED  BY <1>2, <2>1, <2>2
<1>5. CASE ~StartsAt(offset, B4) /\ ~StartsAt(offset, B3)
  <2>1. CodeAtOffset = Found(offset, offset)
    BY <1>5, SearchFinds DEF CodeAtOffset
  <2>2. CASE Later(offset) = {}
    BY <2>1, <2>2 DEF Found
  <2>3. CASE Later(offset) # {}
    <3>1. m \in Nat /\ m >= offset /\ m # offset
      BY <1>1, <1>5, <2>3, FirstLater
    <3>2. m - 1 \in Nat /\ m - 1 + 4 = m + 3
      BY <3>1
    <3>3. \/ CodeAtOffset = [at |-> m - 1, len |-> 4]
          \/ CodeAtOffset = [at |-> m, len |-> 3]
      BY <2>1, <2>3 DEF Found
    <3> HIDE DEF m
    <3>4. CodeAtOffset # NoCode /\ CodeAtOffset.at + CodeAtOffset.len = m + 3
      BY <1>2, <3>1, <3>2, <3>3
    <3> QED  BY <2>3, <3>4 DEF m
  <2> QED  BY <2>2, <2>3
<1> QED  BY <1>3, <1>4, <1>5

\* The search from a unit's first byte on finds its end, and no mark lies between.
LEMMA UnitEnds ==
    ASSUME data \in Seq(Bytes), NEW m \in Marks, NEW to,
           to = IF m + 3 < Len(data) THEN FindStartCode(m + 3).at ELSE Len(data)
    PROVE  /\ to = EndOf(m) /\ to \in Nat /\ m + 3 <= to /\ to <= Len(data)
           /\ \A x \in Marks : x > m => to <= x
<1> DEFINE n == FirstOf(Later(m + 3))
<1>1. /\ Len(data) \in Nat /\ Marks \subseteq Nat /\ m \in Nat /\ m + 3 \in Nat
      /\ m + 3 <= Len(data) /\ data[m + 3] = 1
      /\ \A x \in Marks : x + 3 <= Len(data) /\ (x > m <=> m + 3 <= x)
  <2>1. \A x, y \in Marks : x < y => x + 3 <= y
    BY MarksApart
  <2>2. \A x \in Marks : x \in Nat /\ x + 3 <= Len(data)
    BY MarksApart
  <2>3. m \in Nat /\ m + 3 <= Len(data) /\ data[m + 3] = 1
    BY MarksApart
  <2>4. ASSUME NEW x \in Marks PROVE x > m <=> m + 3 <= x
    <3>1. x \in Nat /\ (m < x => m + 3 <= x)
      BY <2>1, <2>2
    <3> QED  BY <2>3, <3>1
  <2>5. Marks \subseteq Nat /\ Len(data) \in Nat
    BY MarksApart
  <2> QED  BY <2>2, <2>3, <2>4, <2>5
<1>2. CASE Later(m + 3) = {}
  <2>1. \A x \in Marks : ~(x > m) /\ x <= m
    BY <1>1, <1>2 DEF Later
  <2>2. EndOf(m) = Len(data)
    BY <2>1 DEF EndOf
  <2>3. to = Len(data)
    <3>1. Found(m + 3, m + 3).at = Len(data)
      BY <1>2 DEF Found, NoCode
    <3> QED  BY <1>1, <3>1, SearchFinds
  <2> QED  BY <1>1, <2>1, <2>2, <2>3
<1>3. CASE Later(m + 3) # {}
  <2>1. n \in Marks /\ n \in Nat /\ n >= m + 3 /\ n > m /\ n + 3 <= Len(data)
    BY <1>1, <1>3, FirstLater
  <2>2. \A x \in Marks : x > m => n <= x
    BY <1>1, <1>3, FirstLater
  <2>3. EndOf(m) = IF Byte(n - 1) = 0 THEN n - 1 ELSE n
    <3>1. ~\A x \in Marks : x <= m
      BY <1>1, <2>1
    <3>2. \A x \in Marks : x > m /\ (\A o \in Marks : o > m => x <= o) => x = n
      BY <1>1, <2>1, <2>2
    <3>3. n = CHOOSE x \in Marks : x > m /\ \A o \in Marks : o > m => x <= o
      <4> HIDE DEF n
      <4> QED  BY <2>1, <2>2, <3>2
    <3> HIDE DEF n
    <3> QED  BY <3>1, <3>3 DEF EndOf
  <2>4. to = IF (n > m + 3 \/ n > m + 3) /\ Byte(n - 1) = 0 THEN n - 1 ELSE n
    <3>1. m + 3 < Len(data)
      BY <1>1, <2>1
    <3>2. Found(m + 3, m + 3) = IF (n > m + 3 \/ n > m + 3) /\ Byte(n - 1) = 0
                                THEN [at |-> n - 1, len |-> 4] ELSE [at |-> n, len |-> 3]
      BY <1>3 DEF Found
    <3>3. to = Found(m + 3, m + 3).at
      BY <1>1, <3>1, SearchFinds
    <3> HIDE DEF n
    <3> QED  BY <3>2, <3>3
  <2>5. Byte(n - 1) = 0 => n # m + 3
    <3>1. n = m + 3 => n - 1 + 1 = m + 3
      BY <1>1
    <3> QED  BY <1>1, <3>1 DEF Byte
  <2> HIDE DEF n
  <2>6. to = EndOf(m) /\ to \in Nat /\ m + 3 <= to /\ to <= Len(data) /\ to <= n
    BY <1>1, <2>1, <2>3, <2>4, <2>5
  <2>7. ASSUME NEW x \in Marks, x > m PROVE to <= x
    BY <1>1, <2>1, <2>2, <2>6, <2>7
  <2> QED  BY <2>6, <2>7
<1> QED  BY <1>2, <1>3

\* What a step adds to the units.
LEMMA UnitsGrow ==
    ASSUME data \in Seq(Bytes), NEW o \in Nat, NEW m \in Marks, NEW to \in Nat, to = EndOf(m),
           o <= m, m + 3 <= to, \A x \in Marks : x > m => to <= x,
           \A x \in Marks : x + 3 <= o \/ m <= x
    PROVE  UnitsTo(to) = UnitsTo(o) \cup {u \in {<<m + 3, to>>} : Kept(m + 3, to)}
<1>1. Marks \subseteq Nat /\ m \in Nat
  BY MarksApart
<1>2. ASSUME NEW x \in Marks PROVE (x + 3 <= to <=> x + 3 <= o \/ x = m) /\ x \in Nat
  BY <1>1, <1>2
<1>3. ASSUME NEW u PROVE u \in UnitsTo(to) <=> u \in UnitsTo(o) \/ (u = <<m + 3, to>> /\ Kept(m + 3, to))
  <2>1. \A x \in Marks : <<x + 3, EndOf(x)>>[1] = x + 3 /\ <<x + 3, EndOf(x)>>[2] = EndOf(x)
    OBVIOUS
  <2>2. u \in Units <=> \E x \in Marks : u = <<x + 3, EndOf(x)>>
    BY DEF Units
  <2>3. u \in UnitsTo(to) <=> \E x \in Marks : /\ u = <<x + 3, EndOf(x)>> /\ Kept(x + 3, EndOf(x))
                                               /\ x + 3 <= to
    BY <2>1, <2>2 DEF UnitsTo
  <2>4. u \in UnitsTo(o) <=> \E x \in Marks : /\ u = <<x + 3, EndOf(x)>> /\ Kept(x + 3, EndOf(x))
                                              /\ x + 3 <= o
    BY <2>1, <2>2 DEF UnitsTo
  <2> QED  BY <1>2, <2>3, <2>4
<1> QED  BY <1>3

\* What a sequence holds after one more element.
LEMMA OneMore ==
    ASSUME NEW S, NEW s \in Seq(S), NEW e \in S
    PROVE  Entries(Append(s, e)) = Entries(s) \cup {e}
<1>1. /\ Len(s) \in Nat /\ DOMAIN s = 1..Len(s) /\ DOMAIN Append(s, e) = 1..Len(s) + 1
      /\ Append(s, e)[Len(s) + 1] = e
      /\ \A i \in 1..Len(s) : Append(s, e)[i] = s[i]
  OBVIOUS
<1>2. 1..Len(s) + 1 = (1..Len(s)) \cup {Len(s) + 1}
  BY <1>1
<1> QED  BY <1>1, <1>2 DEF Entries

LEMMA UnitStep == AnnexInv /\ NextUnit => AnnexInv'
<1> SUFFICES ASSUME AnnexInv, NextUnit PROVE AnnexInv'
  OBVIOUS
<1> DEFINE code == CodeAtOffset  from == code.at + code.len
           to == IF from < Len(data) THEN FindStartCode(from).at ELSE Len(data)
           Pairs == (0..Len(data)) \X (0..Len(data))
<1>1. /\ reader \in Codecs /\ data \in Seq(Bytes) /\ offset \in Nat /\ offset < Len(data)
      /\ Len(data) \in Nat /\ nals \in Seq(Pairs) /\ Len(nals) \in Nat /\ DOMAIN nals = 1..Len(nals)
      /\ reader' = reader /\ data' = data
  BY DEF AnnexInv, AnnexTypeOK, NextUnit
<1>2. /\ \A m \in Marks : m + 3 <= offset \/ offset <= m
      /\ Entries(nals) = UnitsTo(offset)
      /\ \A i \in DOMAIN nals : nals[i][2] <= offset
      /\ \A i, j \in DOMAIN nals : i < j => nals[i][2] < nals[j][1]
  BY DEF AnnexInv, UnitsSoFar
<1>3. IF code = NoCode THEN offset' = Len(data) /\ nals' = nals
      ELSE /\ offset' = to
           /\ nals' = IF Kept(from, to) THEN Append(nals, <<from, to>>) ELSE nals
  BY DEF NextUnit
<1>4. Marks' = Marks /\ \A o : UnitsTo(o)' = UnitsTo(o)
  <2>1. Marks' = Marks
    BY <1>1 DEF Marks, StartsAt, Byte
  <2>2. \A m : EndOf(m)' = EndOf(m)
    BY <1>1, <2>1 DEF EndOf, Byte
  <2>3. \A a, b : Kept(a, b)' <=> Kept(a, b)
    BY <1>1 DEF Kept, HeaderSize, Byte
  <2> QED  BY <2>1, <2>2, <2>3 DEF UnitsTo, Units
<1>5. Marks \subseteq Nat /\ \A m \in Marks : m + 3 <= Len(data)
  BY <1>1, MarksApart
<1>6. CASE Later(offset) = {}
  <2>1. code = NoCode
    BY <1>1, <1>6, CodeAtOffsetIs
  <2>2. offset' = Len(data) /\ nals' = nals
    BY <1>3, <2>1
  <2>3. \A m \in Marks : m + 3 <= offset /\ m + 3 <= Len(data)
    BY <1>2, <1>5, <1>6 DEF Later
  <2>4. UnitsTo(Len(data)) = UnitsTo(offset)
    <3>1. \A u \in Units : u[1] <= offset /\ u[1] <= Len(data)
      BY <2>3 DEF Units
    <3> QED  BY <3>1 DEF UnitsTo
  <2>5. UnitsSoFar'
    <3>1. \A m \in Marks' : m + 3 <= offset' \/ offset' <= m
      BY <1>4, <2>2, <2>3
    <3>2. Entries(nals') = UnitsTo(offset)'
      BY <1>2, <1>4, <2>2, <2>4 DEF UnitsTo
    <3>3. \A i \in DOMAIN nals : nals[i][2] <= Len(data)
      BY <1>1
    <3> QED  BY <1>2, <2>2, <3>1, <3>2, <3>3 DEF UnitsSoFar
  <2>6. AnnexTypeOK'
    BY <1>1, <2>2 DEF AnnexTypeOK
  <2> QED  BY <2>5, <2>6 DEF AnnexInv
<1>7. CASE Later(offset) # {}
  <2> DEFINE m == FirstOf(Later(offset))
  <2>1. /\ m \in Marks /\ m \in Nat /\ offset <= m
        /\ \A x \in Marks : offset <= x => m <= x
    BY <1>1, <1>5, <1>7, FirstLater
  <2>2. code # NoCode /\ from = m + 3
    BY <1>1, <1>7, CodeAtOffsetIs
  <2>3. to = IF m + 3 < Len(data) THEN FindStartCode(m + 3).at ELSE Len(data)
    BY <2>2
  <2> HIDE DEF m, to, from, code
  <2>4. /\ to = EndOf(m) /\ to \in Nat /\ m + 3 <= to /\ to <= Len(data)
        /\ \A x \in Marks : x > m => to <= x
    BY <1>1, <2>1, <2>3, UnitEnds
  <2>5. \A x \in Marks : x + 3 <= offset \/ m <= x
    BY <1>2, <2>1
  <2>6. UnitsTo(to) = UnitsTo(offset) \cup {u \in {<<m + 3, to>>} : Kept(m + 3, to)}
    BY <1>1, <2>1, <2>4, <2>5, UnitsGrow
  <2>7. offset' = to /\ nals' = IF Kept(m + 3, to) THEN Append(nals, <<m + 3, to>>) ELSE nals
    BY <1>3, <2>2
  <2>8. <<m + 3, to>> \in Pairs /\ <<m + 3, to>>[1] = m + 3 /\ <<m + 3, to>>[2] = to
    BY <1>1, <2>1, <2>4
  <2>9. \A x \in Marks' : x + 3 <= offset' \/ offset' <= x
    <3>1. ASSUME NEW x \in Marks PROVE x + 3 <= to \/ to <= x
      BY <1>5, <2>1, <2>4, <3>1
    <3> QED  BY <1>4, <2>7, <3>1
  <2>10. offset < m + 3 /\ offset <= to
    BY <1>1, <2>1, <2>4
  <2>11. \A i \in DOMAIN nals : nals[i][2] \in Nat /\ nals[i][2] <= to /\ nals[i][2] < m + 3
    BY <1>1, <1>2, <2>1, <2>4, <2>10
  <2>12. AnnexTypeOK'
    <3>1. offset' \in 0..Len(data)
      BY <1>1, <2>4, <2>7
    <3>2. nals' \in Seq(Pairs)
      <4> HIDE DEF Pairs
      <4>1. Append(nals, <<m + 3, to>>) \in Seq(Pairs)
        BY <1>1, <2>8
      <4> QED  BY <1>1, <2>7, <4>1
    <3> QED  BY <1>1, <3>1, <3>2 DEF AnnexTypeOK
  <2>13. CASE Kept(m + 3, to)
    <3>1. nals' = Append(nals, <<m + 3, to>>)
      BY <2>7, <2>13
    <3>2. Entries(nals') = UnitsTo(offset)'
      <4>1. Entries(nals') = Entries(nals) \cup {<<m + 3, to>>}
        <5> HIDE DEF Pairs
        <5>1. \A e \in Pairs : Entries(Append(nals, e)) = Entries(nals) \cup {e}
          BY <1>1, OneMore
        <5> QED  BY <2>8, <3>1, <5>1, Zenon
      <4>2. UnitsTo(offset)' = UnitsTo(to)
        BY <1>4, <2>7 DEF UnitsTo
      <4> QED  BY <1>2, <2>6, <2>13, <4>1, <4>2
    <3>3. /\ DOMAIN nals' = 1..Len(nals) + 1 /\ nals'[Len(nals) + 1] = <<m + 3, to>>
          /\ \A i \in DOMAIN nals : nals'[i] = nals[i]
          /\ \A i \in DOMAIN nals' : i \in DOMAIN nals \/ i = Len(nals) + 1
          /\ \A i, j \in DOMAIN nals' : i < j => i \in DOMAIN nals
      BY <1>1, <2>8, <3>1
    <3>4. \A i \in DOMAIN nals' : nals'[i][2] <= offset'
      BY <2>4, <2>7, <2>8, <2>11, <3>3
    <3>5. \A i, j \in DOMAIN nals' : i < j => nals'[i][2] < nals'[j][1]
      BY <1>2, <2>8, <2>11, <3>3
    <3> QED  BY <2>9, <2>12, <3>1, <3>2, <3>4, <3>5 DEF AnnexInv, UnitsSoFar
  <2>14. CASE ~Kept(m + 3, to)
    <3>1. nals' = nals
      BY <2>7, <2>14
    <3>2. Entries(nals') = UnitsTo(offset)'
      <4>1. UnitsTo(offset)' = UnitsTo(to)
        BY <1>4, <2>7 DEF UnitsTo
      <4> QED  BY <1>2, <2>6, <2>14, <3>1, <4>1
    <3> QED  BY <1>2, <2>7, <2>9, <2>11, <2>12, <3>1, <3>2 DEF AnnexInv, UnitsSoFar
  <2> QED  BY <2>13, <2>14
<1> QED  BY <1>6, <1>7

LEMMA AnnexInvInit == AnnexInit => AnnexInv
<1> SUFFICES ASSUME AnnexInit PROVE AnnexInv
  OBVIOUS
<1>1. /\ reader \in Codecs /\ data \in Seq(Bytes) /\ Len(data) \in Nat
      /\ offset = 0 /\ nals = <<>>
  <2>1. PICK n \in 0..MaxBytes : data \in [1..n -> Bytes]
    BY DEF AnnexInit
  <2>2. n \in Nat /\ data \in Seq(Bytes)
    BY <2>1, AnnexBAssumption
  <2> QED  BY <2>2 DEF AnnexInit
<1>2. AnnexTypeOK
  BY <1>1 DEF AnnexTypeOK
<1>3. UnitsTo(0) = {}
  <2>1. \A u \in Units : ~(u[1] <= 0)
    <3>1. Marks \subseteq Nat
      BY <1>1, MarksApart
    <3> QED  BY <3>1 DEF Units
  <2> QED  BY <2>1 DEF UnitsTo
<1>4. \A m \in Marks : offset <= m
  BY <1>1, MarksApart
<1>5. DOMAIN nals = {} /\ Entries(nals) = {}
  BY <1>1 DEF Entries
<1> QED  BY <1>1, <1>2, <1>3, <1>4, <1>5 DEF AnnexInv, UnitsSoFar

\* Between two calls the splitter stands outside every start code that is left, and has
\* returned the units before it (AnnexBSplitter::next, annexb.rs).
THEOREM AnnexBInvariant == AnnexSpec => []AnnexInv
<1>1. AnnexInv /\ [AnnexNext]_annexVars => AnnexInv'
  <2>1. ASSUME AnnexInv, UNCHANGED annexVars PROVE AnnexInv'
    <3>1. reader' = reader /\ data' = data /\ offset' = offset /\ nals' = nals
      BY <2>1 DEF annexVars
    <3>2. Marks' = Marks
      BY <3>1 DEF Marks, StartsAt, Byte
    <3>3. \A m : EndOf(m)' = EndOf(m)
      BY <3>1, <3>2 DEF EndOf, Byte
    <3>4. \A a, b : Kept(a, b)' <=> Kept(a, b)
      BY <3>1 DEF Kept, HeaderSize, Byte
    <3>5. UnitsTo(offset)' = UnitsTo(offset)
      BY <3>1, <3>2, <3>3, <3>4 DEF UnitsTo, Units
    <3> QED  BY <2>1, <3>1, <3>2, <3>5 DEF AnnexInv, AnnexTypeOK, UnitsSoFar
  <2> QED  BY <2>1, UnitStep DEF AnnexNext
<1> QED  BY <1>1, AnnexInvInit, PTL DEF AnnexSpec

\* The reader returns every unit of a frame of any length, once and in order
\* (AnnexBSplitter::next, next_nal).
THEOREM FindsUnits == AnnexSpec => []FindsEveryUnit
<1>1. AnnexInv => FindsEveryUnit
  <2> SUFFICES ASSUME AnnexInv PROVE FindsEveryUnit
    OBVIOUS
  <2>1. \A u \in Units : u[1] <= Len(data)
    BY MarksApart DEF AnnexInv, AnnexTypeOK, Units
  <2>2. UnitsTo(Len(data)) = {u \in Units : Kept(u[1], u[2])}
    BY <2>1 DEF UnitsTo
  <2> QED  BY <2>2 DEF AnnexInv, UnitsSoFar, FindsEveryUnit, Entries
<1> QED  BY <1>1, AnnexBInvariant, PTL

-----------------------------------------------------------------------------
(***************************************************************************)
(* The parity of a group of packets. What is lost is the XOR of the parity *)
(* and of the packets that came, field by field and byte by byte.          *)
(***************************************************************************)

\* The packets have consecutive numbers.
FecInv ==
    /\ FecTypeOK
    /\ \A i \in DOMAIN group : group[i].seq = (base + i - 1) % SeqNumbers

-----------------------------------------------------------------------------
(* XOR *)

LEMMA XorOfTwo ==
    /\ \A a : Xor(a, {}) = a
    /\ \A a, b : Xor(Xor(a, b), a) = b /\ Xor(a, Xor(a, b)) = b
    /\ \A a, b, c : Xor(Xor(a, b), c) = Xor(Xor(a, c), b)
    /\ \A U : \A a, b \in SUBSET U : Xor(a, b) \in SUBSET U
<1>0. \A a, b, x : x \in Xor(a, b) <=> ((x \in a) <=> ~(x \in b))
  BY DEF Xor
<1>1. ASSUME NEW a PROVE Xor(a, {}) = a
  <2>1. \A x : x \in Xor(a, {}) <=> x \in a
    BY <1>0
  <2> QED  BY <2>1
<1>2. ASSUME NEW a, NEW b PROVE Xor(Xor(a, b), a) = b /\ Xor(a, Xor(a, b)) = b
  <2>1. \A x : x \in Xor(Xor(a, b), a) <=> x \in b
    BY <1>0
  <2>2. \A x : x \in Xor(a, Xor(a, b)) <=> x \in b
    BY <1>0
  <2> QED  BY <2>1, <2>2
<1>3. ASSUME NEW a, NEW b, NEW c PROVE Xor(Xor(a, b), c) = Xor(Xor(a, c), b)
  <2>1. \A x : x \in Xor(Xor(a, b), c) <=> x \in Xor(Xor(a, c), b)
    BY <1>0
  <2> QED  BY <2>1
<1>4. ASSUME NEW U, NEW a \in SUBSET U, NEW b \in SUBSET U PROVE Xor(a, b) \in SUBSET U
  BY <1>0
<1> QED  BY <1>1, <1>2, <1>3, <1>4

\* k is the XOR of the first elements of a sequence, at each of their numbers.
Sums(k, s) == k[0] = {} /\ \A n \in 1..Len(s) : k[n] = Xor(k[n - 1], s[n])

LEMMA XorAllIs ==
    ASSUME NEW U, NEW s \in Seq(SUBSET U)
    PROVE  \E k : Sums(k, s) /\ XorAll(s) = k[Len(s)]
<1> DEFINE N    == Len(s)
           S    == SUBSET U
           step == [x \in S \X Nat |-> IF x[2] \in 1..N THEN Xor(x[1], s[x[2]]) ELSE {}]
<1>1. N \in Nat /\ {} \in S /\ \A n \in 1..N : s[n] \in S
  OBVIOUS
<1>2. step \in [S \X Nat -> S]
  <2>1. \A x \in S \X Nat : x[1] \in S /\ x[2] \in Nat
    OBVIOUS
  <2>2. \A x \in S \X Nat : (IF x[2] \in 1..N THEN Xor(x[1], s[x[2]]) ELSE {}) \in S
    BY <1>1, <2>1, XorOfTwo
  <2> QED  BY <2>2
<1>3. PICK g \in [0..N -> S] : Runs(g, {}, step, N)
  <2> HIDE DEF step, S, N
  <2> QED  BY <1>1, <1>2, Recursion
<1>4. g[0] = {} /\ \A n \in 1..N : g[n] = Xor(g[n - 1], s[n])
  <2>1. g[0] = {} /\ \A n \in 1..N : g[n] = step[<<g[n - 1], n>>]
    BY <1>3 DEF Runs
  <2>2. ASSUME NEW n \in 1..N PROVE step[<<g[n - 1], n>>] = Xor(g[n - 1], s[n])
    <3>1. n - 1 \in 0..N /\ n \in Nat
      BY <1>1
    <3>2. g[n - 1] \in S
      BY <1>3, <3>1
    <3>3. <<g[n - 1], n>> \in S \X Nat /\ <<g[n - 1], n>>[1] = g[n - 1] /\ <<g[n - 1], n>>[2] = n
      BY <3>1, <3>2
    <3> QED  BY <3>3
  <2> QED  BY <2>1, <2>2
<1>5. g = [n \in 0..N |-> IF n = 0 THEN {} ELSE Xor(g[n - 1], s[n])]
  <2> DEFINE F == [n \in 0..N |-> IF n = 0 THEN {} ELSE Xor(g[n - 1], s[n])]
  <2>1. ASSUME NEW n \in 0..N PROVE g[n] = F[n]
    <3>1. n = 0 \/ n \in 1..N
      BY <1>1
    <3> QED  BY <1>4, <3>1
  <2>2. DOMAIN g = 0..N /\ DOMAIN F = 0..N /\ g = [n \in 0..N |-> g[n]] /\ F = [n \in 0..N |-> F[n]]
    OBVIOUS
  <2> HIDE DEF F, N
  <2>3. g = F
    BY <2>1, <2>2
  <2> QED  BY <2>3 DEF F
<1>6. PICK k : /\ XorAll(s) = k[N]
               /\ k = [n \in 0..N |-> IF n = 0 THEN {} ELSE Xor(k[n - 1], s[n])]
  BY <1>5, Zenon DEF XorAll
<1>7. k[0] = {} /\ \A n \in 1..N : k[n] = Xor(k[n - 1], s[n])
  <2>1. PICK F : F = [n \in 0..N |-> IF n = 0 THEN {} ELSE Xor(k[n - 1], s[n])]
    OBVIOUS
  <2>2. F[0] = {} /\ \A n \in 1..N : F[n] = Xor(k[n - 1], s[n])
    BY <1>1, <2>1
  <2> QED  BY <1>6, <2>1, <2>2
<1> QED  BY <1>6, <1>7 DEF Sums

LEMMA XorAllType ==
    ASSUME NEW U, NEW s \in Seq(SUBSET U)
    PROVE  XorAll(s) \in SUBSET U
<1>1. PICK k : Sums(k, s) /\ XorAll(s) = k[Len(s)]
  BY XorAllIs
<1> DEFINE N == Len(s)
           T == {n \in 0..N : k[n] \in SUBSET U}
<1>2. N \in Nat /\ \A n \in 1..N : s[n] \in SUBSET U
  OBVIOUS
<1>3. 0 \in T
  BY <1>1, <1>2 DEF Sums
<1>4. ASSUME NEW n \in 0..N - 1, n \in T PROVE n + 1 \in T
  <2>1. n + 1 \in 1..N /\ n + 1 \in 0..N /\ n + 1 - 1 = n
    BY <1>2
  <2>2. k[n + 1] = Xor(k[n], s[n + 1])
    BY <1>1, <2>1 DEF Sums
  <2>3. k[n] \in SUBSET U /\ s[n + 1] \in SUBSET U
    BY <1>2, <1>4, <2>1
  <2> QED  BY <2>1, <2>2, <2>3, XorOfTwo
<1>5. \A n \in 0..N - 1 : n \in T => n + 1 \in T
  BY <1>4
<1> HIDE DEF T
<1>6. 0..N \subseteq T
  BY <1>2, <1>3, <1>5, SetInduction
<1> QED  BY <1>1, <1>2, <1>6 DEF T

\* r is s without its l-th element.
Without(r, s, l) ==
    /\ Len(r) = Len(s) - 1
    /\ \A i \in 1..Len(r) : r[i] = IF i < l THEN s[i] ELSE s[i + 1]

LEMMA XorWithout ==
    ASSUME NEW U, NEW s \in Seq(SUBSET U), NEW r \in Seq(SUBSET U), NEW l \in 1..Len(s),
           Without(r, s, l)
    PROVE  XorAll(s) = Xor(XorAll(r), s[l])
<1>1. PICK k : Sums(k, s) /\ XorAll(s) = k[Len(s)]
  BY XorAllIs
<1>2. PICK m : Sums(m, r) /\ XorAll(r) = m[Len(r)]
  BY XorAllIs
<1> DEFINE N == Len(r)
           Right == {n \in 0..N : IF n < l THEN m[n] = k[n] ELSE Xor(m[n], s[l]) = k[n + 1]}
<1>3. /\ N \in Nat /\ Len(s) = N + 1 /\ l \in Nat /\ 1 <= l /\ l <= N + 1
      /\ \A i \in 1..N : r[i] = IF i < l THEN s[i] ELSE s[i + 1]
  BY DEF Without
<1>4. /\ k[0] = {} /\ m[0] = {}
      /\ \A n \in 1..N + 1 : k[n] = Xor(k[n - 1], s[n])
      /\ \A n \in 1..N : m[n] = Xor(m[n - 1], r[n])
  BY <1>1, <1>2, <1>3 DEF Sums
<1>5. 0 \in Right
  <2>1. 0 \in 0..N /\ 0 < l /\ m[0] = k[0]
    BY <1>3, <1>4
  <2> QED  BY <2>1
<1>6. ASSUME NEW n \in 0..N - 1, n \in Right PROVE n + 1 \in Right
  <2>1. /\ n \in Nat /\ n + 1 \in 1..N /\ n + 1 \in 1..N + 1 /\ n + 2 \in 1..N + 1
        /\ n + 1 - 1 = n /\ n + 2 - 1 = n + 1 /\ n + 1 + 1 = n + 2 /\ n + 1 \in 0..N
    BY <1>3
  <2>2. /\ m[n + 1] = Xor(m[n], r[n + 1])
        /\ k[n + 1] = Xor(k[n], s[n + 1]) /\ k[n + 2] = Xor(k[n + 1], s[n + 2])
        /\ r[n + 1] = IF n + 1 < l THEN s[n + 1] ELSE s[n + 2]
    BY <1>3, <1>4, <2>1
  <2>3. CASE n + 1 < l
    <3>1. m[n] = k[n]
      BY <1>6, <2>1, <2>3
    <3> QED  BY <2>1, <2>2, <2>3, <3>1
  <2>4. CASE n + 1 = l
    <3>1. n < l /\ ~(n + 1 < l)
      BY <2>1, <2>4
    <3>2. m[n] = k[n]
      BY <1>6, <3>1
    <3>3. Xor(m[n + 1], s[l]) = Xor(Xor(k[n], s[n + 2]), s[n + 1])
      BY <2>2, <2>4, <3>1, <3>2
    <3>4. Xor(Xor(k[n], s[n + 2]), s[n + 1]) = Xor(Xor(k[n], s[n + 1]), s[n + 2])
      BY XorOfTwo
    <3> QED  BY <2>1, <2>2, <3>1, <3>3, <3>4
  <2>5. CASE l < n + 1
    <3>1. ~(n < l) /\ ~(n + 1 < l)
      BY <1>3, <2>1, <2>5
    <3>2. Xor(m[n], s[l]) = k[n + 1]
      BY <1>6, <3>1
    <3>3. Xor(Xor(m[n], s[n + 2]), s[l]) = Xor(Xor(m[n], s[l]), s[n + 2])
      BY XorOfTwo
    <3> QED  BY <2>1, <2>2, <3>1, <3>2, <3>3
  <2> QED  BY <1>3, <2>1, <2>3, <2>4, <2>5
<1>7. N \in Right
  <2>1. \A n \in 0..N - 1 : n \in Right => n + 1 \in Right
    BY <1>6
  <2> HIDE DEF Right, N
  <2>2. 0..N \subseteq Right
    BY <1>3, <1>5, <2>1, SetInduction
  <2> QED  BY <1>3, <2>2
<1>8. CASE N < l
  <2>1. l = N + 1 /\ m[N] = k[N] /\ k[N + 1] = Xor(k[N], s[N + 1])
    BY <1>3, <1>4, <1>7, <1>8
  <2> QED  BY <1>1, <1>2, <1>3, <2>1
<1>9. CASE ~(N < l)
  BY <1>1, <1>2, <1>3, <1>7, <1>9
<1> QED  BY <1>8, <1>9

-----------------------------------------------------------------------------
(* The groups *)

LEMMA PayloadTypes ==
    ASSUME NEW p \in Payloads
    PROVE  /\ p \in Seq(Symbols) /\ Len(p) \in Nat
           /\ LengthOf(p) \in Lengths /\ SizeOf[LengthOf(p)] = Len(p)
<1>1. PICK n \in Lengths : p \in [1..SizeOf[n] -> Symbols]
  BY DEF Payloads
<1>2. SizeOf[n] \in Nat
  BY UlpfecAssumption
<1>3. p \in Seq(Symbols) /\ Len(p) = SizeOf[n]
  BY <1>1, <1>2
<1> QED  BY <1>2, <1>3 DEF LengthOf

\* A group without one of its packets.
LEMMA OneIsLost ==
    ASSUME NEW S, NEW g \in Seq(S), NEW l \in 1..Len(g)
    PROVE  RemoveAt(g, l) \in Seq(S) /\ Without(RemoveAt(g, l), g, l)
<1> DEFINE a == SubSeq(g, 1, l - 1)  b == SubSeq(g, l + 1, Len(g))
<1>1. /\ Len(g) \in Nat /\ l \in Nat /\ 1 <= l /\ l <= Len(g)
      /\ a \in Seq(S) /\ Len(a) = l - 1 /\ \A i \in 1..l - 1 : a[i] = g[i]
      /\ b \in Seq(S) /\ Len(b) = Len(g) - l /\ \A i \in 1..Len(g) - l : b[i] = g[l + i]
  <2>1. /\ a \in Seq(S) /\ Len(a) = l - 1 /\ \A i \in 1..l - 1 : a[i] = g[i]
    OBVIOUS
  <2>2. /\ b \in Seq(S) /\ Len(b) = Len(g) - l /\ \A i \in 1..Len(g) - l : b[i] = g[l + i]
    <3>1. \A i \in 1..Len(g) - l : l + 1 + i - 1 = l + i
      OBVIOUS
    <3> QED  BY <3>1
  <2> QED  BY <2>1, <2>2
<1>2. RemoveAt(g, l) = a \o b
  BY DEF RemoveAt
<1> HIDE DEF a, b
<1>3. /\ a \o b \in Seq(S) /\ Len(a \o b) = Len(g) - 1
      /\ \A i \in 1..Len(g) - 1 : (a \o b)[i] = IF i <= l - 1 THEN a[i] ELSE b[i - (l - 1)]
  <2>1. \A x, y \in Seq(S) :
           /\ x \o y \in Seq(S) /\ Len(x \o y) = Len(x) + Len(y)
           /\ \A i \in 1..Len(x) + Len(y) : (x \o y)[i] = IF i <= Len(x) THEN x[i] ELSE y[i - Len(x)]
    OBVIOUS
  <2>2. Len(a) + Len(b) = Len(g) - 1
    BY <1>1
  <2>3. /\ a \o b \in Seq(S) /\ Len(a \o b) = Len(a) + Len(b)
        /\ \A i \in 1..Len(a) + Len(b) : (a \o b)[i] = IF i <= Len(a) THEN a[i] ELSE b[i - Len(a)]
    BY <1>1, <2>1
  <2>4. Len(a) = l - 1
    BY <1>1
  <2> QED  BY <2>2, <2>3, <2>4
<1>4. ASSUME NEW i \in 1..Len(g) - 1 PROVE (a \o b)[i] = IF i < l THEN g[i] ELSE g[i + 1]
  <2>1. CASE i < l
    BY <1>1, <1>3, <2>1
  <2>2. CASE ~(i < l)
    <3>1. i - (l - 1) \in 1..Len(g) - l /\ l + (i - (l - 1)) = i + 1 /\ ~(i <= l - 1)
      BY <1>1, <2>2
    <3> QED  BY <1>1, <1>3, <2>2, <3>1
  <2> QED  BY <2>1, <2>2
<1> QED  BY <1>2, <1>3, <1>4 DEF Without

\* c came of g, whose l-th packet is lost.
LostOf(S, g, c, l) == g \in Seq(S) /\ c \in Seq(S) /\ l \in 1..Len(g) /\ Without(c, g, l)

\* s and r are a field of the packets of g and of c: the same packet has the same field.
FieldOf(U, g, c, s, r) ==
    /\ s \in [DOMAIN g -> SUBSET U] /\ r \in [DOMAIN c -> SUBSET U]
    /\ \A i \in DOMAIN c, j \in DOMAIN g : c[i] = g[j] => r[i] = s[j]

\* XOR over all packets and over those that came gives what was lost, field by field.
PartsOf(U) == SUBSET U

LEMMA FieldSeqs ==
    ASSUME NEW U, NEW S, NEW g, NEW c, NEW l, NEW s, NEW r,
           LostOf(S, g, c, l), FieldOf(U, g, c, s, r)
    PROVE  /\ s \in Seq(PartsOf(U)) /\ r \in Seq(PartsOf(U)) /\ Len(s) = Len(g) /\ Len(r) = Len(c)
           /\ DOMAIN g = 1..Len(g) /\ DOMAIN c = 1..Len(c) /\ Len(g) \in Nat /\ Len(c) \in Nat
<1>1. DOMAIN g = 1..Len(g) /\ DOMAIN c = 1..Len(c) /\ Len(g) \in Nat /\ Len(c) \in Nat
  BY DEF LostOf
<1>2. \A T : \A n \in Nat : \A f \in [1..n -> T] : f \in Seq(T) /\ Len(f) = n
  OBVIOUS
<1>3. s \in [1..Len(g) -> SUBSET U] /\ r \in [1..Len(c) -> SUBSET U]
  BY <1>1 DEF FieldOf
<1> QED  BY <1>1, <1>2, <1>3 DEF PartsOf

LEMMA FieldIsBack ==
    ASSUME NEW U, NEW S, NEW g, NEW c, NEW l, NEW s, NEW r,
           LostOf(S, g, c, l), FieldOf(U, g, c, s, r)
    PROVE  Xor(XorAll(s), XorAll(r)) = s[l] /\ Xor(XorAll(r), XorAll(s)) = s[l]
<1>0. l \in 1..Len(g) /\ Without(c, g, l)
  BY DEF LostOf
<1>1. /\ DOMAIN g = 1..Len(g) /\ DOMAIN c = 1..Len(c) /\ Len(g) \in Nat /\ Len(c) \in Nat
      /\ Len(s) = Len(g) /\ Len(r) = Len(c)
  BY FieldSeqs
<1>2. s \in Seq(SUBSET U) /\ r \in Seq(SUBSET U)
  <2>1. s \in Seq(PartsOf(U)) /\ r \in Seq(PartsOf(U))
    BY FieldSeqs
  <2> QED  BY <2>1 DEF PartsOf
<1>3. /\ Len(c) = Len(g) - 1
      /\ \A i \in 1..Len(c) : c[i] = IF i < l THEN g[i] ELSE g[i + 1]
  BY <1>0 DEF Without
<1>4. ASSUME NEW i \in 1..Len(c) PROVE r[i] = IF i < l THEN s[i] ELSE s[i + 1]
  <2>1. i \in DOMAIN g /\ i + 1 \in DOMAIN g /\ i \in DOMAIN c
    BY <1>0, <1>1, <1>3
  <2>2. CASE i < l
    BY <1>3, <2>1, <2>2 DEF FieldOf
  <2>3. CASE ~(i < l)
    BY <1>3, <2>1, <2>3 DEF FieldOf
  <2> QED  BY <2>2, <2>3
<1>5. Without(r, s, l) /\ l \in 1..Len(s)
  BY <1>0, <1>1, <1>3, <1>4 DEF Without
<1>6. XorAll(s) = Xor(XorAll(r), s[l])
  BY <1>2, <1>5, XorWithout
<1> QED  BY <1>6, XorOfTwo

\* XOR over a sequence with one more element.
LEMMA XorAppend ==
    ASSUME NEW U, NEW r \in Seq(SUBSET U), NEW e \in SUBSET U
    PROVE  XorAll(Append(r, e)) = Xor(XorAll(r), e)
<1> DEFINE s == Append(r, e)  l == Len(r) + 1
<1>1. /\ s \in Seq(SUBSET U) /\ Len(s) = l /\ l \in 1..Len(s) /\ s[l] = e /\ Len(r) \in Nat
      /\ \A i \in 1..Len(r) : s[i] = r[i] /\ i < l
  OBVIOUS
<1>2. Without(r, s, l)
  BY <1>1 DEF Without
<1> QED  BY <1>1, <1>2, XorWithout

\* Some packet of a group is the longest.
LEMMA LongestIs ==
    ASSUME NEW g \in Seq(ProtectedPackets), g # <<>>
    PROVE  LET m == FecMax({Len(g[i].payload) : i \in DOMAIN g})
           IN  m \in Nat /\ \A i \in DOMAIN g : Len(g[i].payload) <= m
<1> DEFINE L(i) == Len(g[i].payload)
           N    == Len(g) - 1
           Good == {n \in 0..N : \E m \in 1..n + 1 : \A i \in 1..n + 1 : L(i) <= L(m)}
           T    == {Len(g[i].payload) : i \in DOMAIN g}
<1>1. N \in Nat /\ Len(g) = N + 1 /\ DOMAIN g = 1..N + 1
  OBVIOUS
<1>2. \A i \in 1..N + 1 : L(i) \in Nat
  BY PayloadTypes DEF ProtectedPackets
<1> HIDE DEF L, N
<1>3. 0 \in Good
  <2>1. 1 \in 1..0 + 1 /\ \A i \in 1..0 + 1 : i = 1
    OBVIOUS
  <2>2. L(1) <= L(1)
    BY <1>1, <1>2
  <2> QED  BY <1>1, <2>1, <2>2
<1>4. ASSUME NEW n \in 0..N - 1, n \in Good PROVE n + 1 \in Good
  <2>1. PICK m \in 1..n + 1 : \A i \in 1..n + 1 : L(i) <= L(m)
    BY <1>4
  <2>2. /\ n + 1 \in 0..N /\ m \in 1..N + 1 /\ n + 2 \in 1..N + 1 /\ n + 1 + 1 = n + 2
        /\ m \in 1..n + 2 /\ n + 2 \in 1..n + 2
        /\ \A i \in 1..n + 2 : i \in 1..N + 1 /\ (i \in 1..n + 1 \/ i = n + 2)
    BY <1>1
  <2>3. L(m) \in Nat /\ L(n + 2) \in Nat /\ \A i \in 1..n + 2 : L(i) \in Nat
    BY <1>2, <2>2
  <2>4. CASE L(n + 2) <= L(m)
    BY <2>1, <2>2, <2>4
  <2>5. CASE ~(L(n + 2) <= L(m))
    <3>1. \A i \in 1..n + 2 : L(i) <= L(n + 2)
      BY <2>1, <2>2, <2>3, <2>5
    <3> QED  BY <2>2, <3>1
  <2> QED  BY <2>4, <2>5
<1>5. N \in Good
  <2>1. \A n \in 0..N - 1 : n \in Good => n + 1 \in Good
    BY <1>4
  <2> HIDE DEF Good
  <2>2. 0..N \subseteq Good
    BY <1>1, <1>3, <2>1, SetInduction
  <2> QED  BY <1>1, <2>2
<1>6. PICK m \in DOMAIN g : \A i \in DOMAIN g : L(i) <= L(m)
  BY <1>1, <1>5
<1>7. L(m) \in T /\ \A n \in T : n <= L(m)
  BY <1>6 DEF L
<1>8. FecMax(T) \in T /\ \A n \in T : n <= FecMax(T)
  <2> HIDE DEF T
  <2> QED  BY <1>7 DEF FecMax
<1>9. T \subseteq Nat
  BY <1>1, <1>2 DEF L
<1> QED  BY <1>8, <1>9

\* Everything a packet is made of, as bits.
Bits == (UNION Symbols) \cup (UNION Lengths) \cup {0}

LEMMA PacketTypes ==
    ASSUME NEW p \in ProtectedPackets
    PROVE  /\ p.ts \subseteq Bits /\ p.pt \subseteq Bits /\ Bit(p.marker) \subseteq Bits
           /\ LengthOf(p.payload) \subseteq Bits
           /\ \A i \in Nat \ {0} : ByteOf(p.payload, i) \subseteq Bits
<1>1. p.ts \in Symbols /\ p.pt \in Symbols /\ p.payload \in Payloads
  BY DEF ProtectedPackets
<1>2. /\ p.payload \in Seq(Symbols) /\ Len(p.payload) \in Nat /\ LengthOf(p.payload) \in Lengths
  BY <1>1, PayloadTypes
<1>3. p.ts \subseteq Bits /\ p.pt \subseteq Bits /\ LengthOf(p.payload) \subseteq Bits
  <2>1. \A S : \A x \in S : x \subseteq UNION S
    OBVIOUS
  <2>2. UNION Symbols \subseteq Bits /\ UNION Lengths \subseteq Bits
    BY DEF Bits
  <2> QED  BY <1>1, <1>2, <2>1, <2>2
<1>4. Bit(p.marker) \subseteq Bits
  <2>1. 0 \in Bits
    BY DEF Bits
  <2>2. Bit(p.marker) = {0} \/ Bit(p.marker) = {}
    BY DEF Bit
  <2> QED  BY <2>1, <2>2
<1>5. ASSUME NEW i \in Nat \ {0} PROVE ByteOf(p.payload, i) \subseteq Bits
  <2>1. CASE i <= Len(p.payload)
    <3>1. p.payload[i] \in Symbols
      BY <1>2, <2>1
    <3> QED  BY <2>1, <3>1 DEF ByteOf, Bits
  <2>2. CASE ~(i <= Len(p.payload))
    BY <2>2 DEF ByteOf
  <2> QED  BY <2>1, <2>2
<1> QED  BY <1>3, <1>4, <1>5

\* The fields of a lost packet are those of the parity without those of the packets that came.
LEMMA FieldsAreBack ==
    ASSUME NEW g \in Seq(ProtectedPackets), NEW c \in Seq(ProtectedPackets),
           NEW l \in 1..Len(g), Without(c, g, l)
    PROVE  /\ Xor(XorField(g, LAMBDA p : p.ts), XorField(c, LAMBDA p : p.ts)) = g[l].ts
           /\ Xor(XorField(g, LAMBDA p : p.pt), XorField(c, LAMBDA p : p.pt)) = g[l].pt
           /\ Xor(XorField(g, LAMBDA p : Bit(p.marker)), XorField(c, LAMBDA p : Bit(p.marker)))
                = Bit(g[l].marker)
           /\ Xor(XorField(g, LAMBDA p : LengthOf(p.payload)),
                  XorField(c, LAMBDA p : LengthOf(p.payload))) = LengthOf(g[l].payload)
<1>1. /\ \A j \in DOMAIN g : g[j] \in ProtectedPackets
      /\ \A j \in DOMAIN c : c[j] \in ProtectedPackets
      /\ l \in DOMAIN g
  OBVIOUS
<1>0. LostOf(ProtectedPackets, g, c, l)
  BY DEF LostOf
<1>2. Xor(XorField(g, LAMBDA p : p.ts), XorField(c, LAMBDA p : p.ts)) = g[l].ts
  <2> DEFINE s == [j \in DOMAIN g |-> g[j].ts]  r == [j \in DOMAIN c |-> c[j].ts]
  <2>1. s \in [DOMAIN g -> SUBSET Bits] /\ r \in [DOMAIN c -> SUBSET Bits]
    BY <1>1, PacketTypes
  <2>2. s[l] = g[l].ts /\ FieldOf(Bits, g, c, s, r)
    BY <1>1, <2>1 DEF FieldOf
  <2>3. XorField(g, LAMBDA p : p.ts) = XorAll(s) /\ XorField(c, LAMBDA p : p.ts) = XorAll(r)
    BY DEF XorField
  <2> HIDE DEF s, r
  <2>4. Xor(XorAll(s), XorAll(r)) = s[l]
    BY <1>0, <2>2, FieldIsBack
  <2> QED  BY <2>2, <2>3, <2>4
<1>3. Xor(XorField(g, LAMBDA p : p.pt), XorField(c, LAMBDA p : p.pt)) = g[l].pt
  <2> DEFINE s == [j \in DOMAIN g |-> g[j].pt]  r == [j \in DOMAIN c |-> c[j].pt]
  <2>1. s \in [DOMAIN g -> SUBSET Bits] /\ r \in [DOMAIN c -> SUBSET Bits]
    BY <1>1, PacketTypes
  <2>2. s[l] = g[l].pt /\ FieldOf(Bits, g, c, s, r)
    BY <1>1, <2>1 DEF FieldOf
  <2>3. XorField(g, LAMBDA p : p.pt) = XorAll(s) /\ XorField(c, LAMBDA p : p.pt) = XorAll(r)
    BY DEF XorField
  <2> HIDE DEF s, r
  <2>4. Xor(XorAll(s), XorAll(r)) = s[l]
    BY <1>0, <2>2, FieldIsBack
  <2> QED  BY <2>2, <2>3, <2>4
<1>4. Xor(XorField(g, LAMBDA p : Bit(p.marker)), XorField(c, LAMBDA p : Bit(p.marker)))
        = Bit(g[l].marker)
  <2> DEFINE s == [j \in DOMAIN g |-> Bit(g[j].marker)]  r == [j \in DOMAIN c |-> Bit(c[j].marker)]
  <2>1. s \in [DOMAIN g -> SUBSET Bits] /\ r \in [DOMAIN c -> SUBSET Bits]
    BY <1>1, PacketTypes
  <2>2. s[l] = Bit(g[l].marker) /\ FieldOf(Bits, g, c, s, r)
    BY <1>1, <2>1 DEF FieldOf
  <2>3. /\ XorField(g, LAMBDA p : Bit(p.marker)) = XorAll(s)
        /\ XorField(c, LAMBDA p : Bit(p.marker)) = XorAll(r)
    BY DEF XorField
  <2> HIDE DEF s, r
  <2>4. Xor(XorAll(s), XorAll(r)) = s[l]
    BY <1>0, <2>2, FieldIsBack
  <2> QED  BY <2>2, <2>3, <2>4
<1>5. Xor(XorField(g, LAMBDA p : LengthOf(p.payload)), XorField(c, LAMBDA p : LengthOf(p.payload)))
        = LengthOf(g[l].payload)
  <2> DEFINE s == [j \in DOMAIN g |-> LengthOf(g[j].payload)]
             r == [j \in DOMAIN c |-> LengthOf(c[j].payload)]
  <2>1. s \in [DOMAIN g -> SUBSET Bits] /\ r \in [DOMAIN c -> SUBSET Bits]
    BY <1>1, PacketTypes
  <2>2. /\ s[l] = LengthOf(g[l].payload)
        /\ FieldOf(Bits, g, c, s, r)
    BY <1>1, <2>1 DEF FieldOf
  <2>3. /\ XorField(g, LAMBDA p : LengthOf(p.payload)) = XorAll(s)
        /\ XorField(c, LAMBDA p : LengthOf(p.payload)) = XorAll(r)
    BY DEF XorField
  <2> HIDE DEF s, r
  <2>4. Xor(XorAll(s), XorAll(r)) = s[l]
    BY <1>0, <2>2, FieldIsBack
  <2> QED  BY <2>2, <2>3, <2>4
<1> QED  BY <1>2, <1>3, <1>4, <1>5

\* The bytes of a lost packet, in its own length.
LEMMA PayloadIsBack ==
    ASSUME NEW g \in Seq(ProtectedPackets), NEW c \in Seq(ProtectedPackets),
           NEW l \in 1..Len(g), Without(c, g, l), NEW m \in Nat,
           \A i \in DOMAIN g : Len(g[i].payload) <= m
    PROVE  LET all == XorPayloads(Append(PayloadsOf(c), XorPayloads(PayloadsOf(g), m)), m)
           IN  /\ Len(XorPayloads(PayloadsOf(g), m)) = m /\ Len(all) = m
               /\ SubSeq(all, 1, Len(g[l].payload)) = g[l].payload
<1> DEFINE parity == XorPayloads(PayloadsOf(g), m)
           came   == Append(PayloadsOf(c), parity)
           all    == XorPayloads(came, m)
           s(i)   == [j \in DOMAIN g |-> ByteOf(g[j].payload, i)]
           r(i)   == [j \in DOMAIN c |-> ByteOf(c[j].payload, i)]
           L      == Len(g[l].payload)
<1>1. /\ \A j \in DOMAIN g : g[j] \in ProtectedPackets
      /\ \A j \in DOMAIN c : c[j] \in ProtectedPackets
      /\ l \in DOMAIN g /\ Len(c) \in Nat /\ DOMAIN c = 1..Len(c)
  OBVIOUS
<1>0. LostOf(ProtectedPackets, g, c, l)
  BY DEF LostOf
<1>2. L \in Nat /\ L <= m /\ g[l].payload \in [1..L -> Symbols]
  <2>1. g[l].payload \in Payloads
    BY <1>1 DEF ProtectedPackets
  <2>2. g[l].payload \in Seq(Symbols) /\ Len(g[l].payload) \in Nat
    BY <2>1, PayloadTypes
  <2> QED  BY <1>1, <2>2
<1>3. /\ parity = [i \in 1..m |-> XorAll(s(i))] /\ Len(parity) = m
  <2>1. DOMAIN PayloadsOf(g) = DOMAIN g /\ \A j \in DOMAIN g : PayloadsOf(g)[j] = g[j].payload
    BY DEF PayloadsOf
  <2>2. \A i \in 1..m : [j \in DOMAIN PayloadsOf(g) |-> ByteOf(PayloadsOf(g)[j], i)] = s(i)
    BY <2>1
  <2>3. parity = [i \in 1..m |-> XorAll(s(i))]
    BY <2>2 DEF XorPayloads
  <2>4. \A f : Len([i \in 1..m |-> f[i]]) = m
    OBVIOUS
  <2> HIDE DEF s
  <2> QED  BY <2>3
<1>4. ASSUME NEW i \in 1..m
      PROVE  /\ Xor(XorAll(r(i)), XorAll(s(i))) = ByteOf(g[l].payload, i)
             /\ r(i) \in Seq(SUBSET Bits) /\ Len(r(i)) = Len(c) /\ XorAll(s(i)) \in SUBSET Bits
  <2> DEFINE x == s(i)  y == r(i)
  <2>1. x \in [DOMAIN g -> SUBSET Bits] /\ y \in [DOMAIN c -> SUBSET Bits]
    BY <1>1, PacketTypes
  <2>2. /\ x[l] = ByteOf(g[l].payload, i)
        /\ FieldOf(Bits, g, c, x, y)
    BY <1>1, <2>1 DEF FieldOf
  <2> HIDE DEF x, y
  <2>3. Xor(XorAll(y), XorAll(x)) = x[l]
    BY <1>0, <2>2, FieldIsBack
  <2>4. x \in Seq(SUBSET Bits) /\ y \in Seq(SUBSET Bits) /\ Len(y) = Len(c)
    <3>1. x \in Seq(PartsOf(Bits)) /\ y \in Seq(PartsOf(Bits)) /\ Len(y) = Len(c)
      BY <1>0, <2>2, FieldSeqs
    <3> QED  BY <3>1 DEF PartsOf
  <2>5. XorAll(x) \in SUBSET Bits
    BY <2>4, XorAllType
  <2> QED  BY <2>2, <2>3, <2>4, <2>5 DEF x, y
<1>5. ASSUME NEW i \in 1..m
      PROVE  [j \in DOMAIN came |-> ByteOf(came[j], i)] = Append(r(i), XorAll(s(i)))
  <2> DEFINE e == XorAll(s(i))  n == Len(c)
  <2>1. PayloadsOf(c) = [j \in 1..n |-> c[j].payload] /\ n \in Nat
    BY <1>1 DEF PayloadsOf
  <2>2. /\ DOMAIN came = 1..n + 1 /\ came[n + 1] = parity
        /\ \A j \in 1..n : came[j] = c[j].payload
    BY <2>1
  <2>3. ByteOf(parity, i) = e
    BY <1>3 DEF ByteOf
  <2>4. /\ DOMAIN Append(r(i), e) = 1..n + 1 /\ Append(r(i), e)[n + 1] = e
        /\ \A j \in 1..n : Append(r(i), e)[j] = ByteOf(c[j].payload, i)
    BY <1>1
  <2> QED  BY <2>2, <2>3, <2>4
<1>6. \A i \in 1..m : all[i] = ByteOf(g[l].payload, i)
  <2> SUFFICES ASSUME NEW i \in 1..m PROVE all[i] = ByteOf(g[l].payload, i)
    OBVIOUS
  <2>1. all[i] = XorAll([j \in DOMAIN came |-> ByteOf(came[j], i)])
    BY DEF XorPayloads
  <2>2. XorAll(Append(r(i), XorAll(s(i)))) = Xor(XorAll(r(i)), XorAll(s(i)))
    <3>1. r(i) \in Seq(SUBSET Bits) /\ XorAll(s(i)) \in SUBSET Bits
      BY <1>4
    <3> HIDE DEF r, s
    <3> QED  BY <3>1, XorAppend
  <2> HIDE DEF r, s, all, came
  <2> QED  BY <1>4, <1>5, <2>1, <2>2
<1>7. Len(all) = m /\ all = [i \in 1..m |-> ByteOf(g[l].payload, i)]
  BY <1>6 DEF XorPayloads
<1>8. \A i \in 1..L : all[i] = g[l].payload[i]
  BY <1>2, <1>6 DEF ByteOf
<1>9. SubSeq(all, 1, L) = g[l].payload
  <2>1. DOMAIN SubSeq(all, 1, L) = 1..L /\ \A i \in 1..L : SubSeq(all, 1, L)[i] = all[i]
    <3>1. \A i \in 1..L : i + 1 - 1 = i /\ i \in 1..m
      BY <1>2
    <3> HIDE DEF all, L
    <3> QED  BY <1>2, <1>7, <3>1
  <2>2. \A n \in Nat : \A f : f = [i \in 1..n |-> f[i]] => DOMAIN f = 1..n
    OBVIOUS
  <2> QED  BY <1>2, <1>8, <2>1
<1> QED  BY <1>3, <1>7, <1>9

-----------------------------------------------------------------------------
(* The group *)

\* The numbers wrap.
LEMMA SeqNumbersIs == SeqNumbers \in Nat /\ SeqNumbers > 16
BY DEF SeqNumbers

LEMMA Wraps ==
    ASSUME NEW x \in Nat
    PROVE  /\ x % SeqNumbers \in 0..SeqNumbers - 1
           /\ x < SeqNumbers => x % SeqNumbers = x
           /\ SeqNumbers <= x /\ x < SeqNumbers + SeqNumbers => x % SeqNumbers = x - SeqNumbers
<1>1. x % SeqNumbers \in 0..SeqNumbers - 1
  <2>1. \A n \in Nat : n > 16 => x % n \in 0..n - 1
    OBVIOUS
  <2> QED  BY <2>1, SeqNumbersIs
<1>2. x < SeqNumbers => x % SeqNumbers = x
  BY DEF SeqNumbers
<1>3. SeqNumbers <= x /\ x < SeqNumbers + SeqNumbers => x % SeqNumbers = x - SeqNumbers
  BY DEF SeqNumbers
<1> QED  BY <1>1, <1>2, <1>3

\* A number k after b, where the numbers wrap at n.
LEMMA Distances ==
    ASSUME NEW b \in Nat, NEW k \in Nat, NEW n \in Nat, b < n, k < n
    PROVE  /\ b + k \in Nat /\ n + k \in Nat /\ n <= n + k /\ n + k < n + n /\ (n + k) - n = k
           /\ b + k < n => b + k + n - b = n + k
           /\ ~(b + k < n) => n <= b + k /\ b + k < n + n /\ ((b + k) - n) + n - b = k
OBVIOUS

LEMMA FecInvFirst == FecInit => FecInv
<1> SUFFICES ASSUME FecInit PROVE FecInv
  OBVIOUS
<1>1. group = <<>> /\ base \in 0..SeqNumbers - 1
  BY SeqNumbersIs DEF FecInit
<1>2. group \in Seq(ProtectedPackets) /\ Len(group) <= MaxGroup /\ DOMAIN group = {}
  BY <1>1, UlpfecAssumption
<1> QED  BY <1>1, <1>2 DEF FecInv, FecTypeOK

LEMMA FecInvNext == FecInv /\ [FecNext]_fecVars => FecInv'
<1> SUFFICES ASSUME FecInv, [FecNext]_fecVars PROVE FecInv'
  OBVIOUS
<1>1. ASSUME NEW payload \in Payloads, NEW ts \in Symbols, NEW pt \in Symbols, NEW marker \in BOOLEAN,
             PushMediaPacket(payload, ts, pt, marker)
      PROVE  FecInv'
  <2> DEFINE n == Len(group)
             p == [seq |-> (base + n) % SeqNumbers, ts |-> ts, pt |-> pt,
                   marker |-> marker, payload |-> payload]
  <2>1. /\ group \in Seq(ProtectedPackets) /\ base \in 0..SeqNumbers - 1
        /\ \A i \in DOMAIN group : group[i].seq = (base + i - 1) % SeqNumbers
    BY DEF FecInv, FecTypeOK
  <2>2. group' = Append(group, p) /\ base' = base /\ n < MaxGroup
    BY <1>1 DEF PushMediaPacket
  <2>3. n \in Nat /\ DOMAIN group = 1..n /\ MaxGroup \in Nat
    BY <2>1, UlpfecAssumption
  <2>4. p \in ProtectedPackets /\ p.seq = (base + (n + 1) - 1) % SeqNumbers
    <3>1. base \in Nat /\ base + n \in Nat /\ base + n = base + (n + 1) - 1
      BY <2>1, <2>3, SeqNumbersIs
    <3>2. (base + n) % SeqNumbers \in 0..SeqNumbers - 1
      BY <3>1, Wraps
    <3> QED  BY <1>1, <3>1, <3>2 DEF ProtectedPackets
  <2> HIDE DEF p, n
  <2>5. /\ group' \in Seq(ProtectedPackets) /\ Len(group') = n + 1 /\ group'[n + 1] = p
        /\ DOMAIN group' = 1..n + 1 /\ \A i \in 1..n : group'[i] = group[i]
    BY <2>1, <2>2, <2>4 DEF n
  <2>6. \A i \in DOMAIN group' : group'[i].seq = (base + i - 1) % SeqNumbers
    <3>1. \A i \in 1..n + 1 : i \in 1..n \/ i = n + 1
      BY <2>3
    <3> QED  BY <2>1, <2>3, <2>4, <2>5, <3>1
  <2>7. Len(group') <= MaxGroup
    BY <2>2, <2>3, <2>5
  <2> QED  BY <2>1, <2>2, <2>5, <2>6, <2>7 DEF FecInv, FecTypeOK
<1>2. CASE UNCHANGED fecVars
  BY <1>2 DEF fecVars, FecInv, FecTypeOK
<1> QED  BY <1>1, <1>2 DEF FecNext

\* The place of a packet in the group is its bit in the mask.
LEMMA BitIsPlace ==
    ASSUME FecInv, NEW i \in DOMAIN group
    PROVE  /\ (group[i].seq + SeqNumbers - group[1].seq) % SeqNumbers = i - 1
           /\ (group[1].seq + (i - 1)) % SeqNumbers = group[i].seq
           /\ i - 1 \in 0..MaxGroup - 1
<1>1. /\ base \in Nat /\ base < SeqNumbers /\ i \in 1..Len(group) /\ 1 \in DOMAIN group
      /\ Len(group) \in Nat /\ Len(group) <= MaxGroup /\ MaxGroup \in 1..16
  BY UlpfecAssumption, SeqNumbersIs DEF FecInv, FecTypeOK
<1>2. PICK k \in Nat : i = k + 1
  <2>1. i - 1 \in Nat /\ i = (i - 1) + 1
    BY <1>1
  <2> QED  BY <2>1
<1>3. k \in 0..MaxGroup - 1 /\ k < SeqNumbers /\ i - 1 = k
  BY <1>1, <1>2, SeqNumbersIs
<1>4. group[i].seq = (base + k) % SeqNumbers /\ group[1].seq = base
  <2>1. base + i - 1 = base + k /\ base + 1 - 1 = base
    BY <1>1, <1>2
  <2>2. base % SeqNumbers = base
    BY <1>1, Wraps
  <2> QED  BY <1>1, <2>1, <2>2 DEF FecInv
<1>5. /\ base + k \in Nat /\ SeqNumbers + k \in Nat /\ SeqNumbers <= SeqNumbers + k
      /\ SeqNumbers + k < SeqNumbers + SeqNumbers /\ (SeqNumbers + k) - SeqNumbers = k
      /\ base + k < SeqNumbers => base + k + SeqNumbers - base = SeqNumbers + k
      /\ ~(base + k < SeqNumbers) => /\ SeqNumbers <= base + k /\ base + k < SeqNumbers + SeqNumbers
                                     /\ ((base + k) - SeqNumbers) + SeqNumbers - base = k
  BY <1>1, <1>3, SeqNumbersIs, Distances
<1>6. k % SeqNumbers = k /\ (SeqNumbers + k) % SeqNumbers = k
  <2>1. k % SeqNumbers = k
    BY <1>3, Wraps
  <2>2. (SeqNumbers + k) % SeqNumbers = (SeqNumbers + k) - SeqNumbers
    <3>1. PICK x \in Nat : x = SeqNumbers + k
      BY <1>5
    <3>2. x % SeqNumbers = x - SeqNumbers
      BY <1>5, <3>1, Wraps
    <3> QED  BY <3>1, <3>2, Zenon
  <2> QED  BY <1>5, <2>1, <2>2
<1>7. (group[i].seq + SeqNumbers - group[1].seq) % SeqNumbers = k
  <2>1. CASE base + k < SeqNumbers
    <3>1. group[i].seq = base + k
      BY <1>4, <1>5, <2>1, Wraps
    <3>2. group[i].seq + SeqNumbers - group[1].seq = SeqNumbers + k
      BY <1>4, <1>5, <2>1, <3>1
    <3> QED  BY <1>6, <3>2
  <2>2. CASE ~(base + k < SeqNumbers)
    <3>1. group[i].seq = (base + k) - SeqNumbers
      <4>1. PICK x \in Nat : x = base + k
        BY <1>5
      <4>2. x % SeqNumbers = x - SeqNumbers
        BY <1>5, <2>2, <4>1, Wraps
      <4> QED  BY <1>4, <4>1, <4>2, Zenon
    <3> QED  BY <1>4, <1>5, <1>6, <2>2, <3>1
  <2> QED  BY <2>1, <2>2
<1> QED  BY <1>3, <1>4, <1>7

LEMMA MaskNames ==
    ASSUME FecInv, group # <<>>, NEW parity, parity = GenerateParity(group)
    PROVE  /\ parity.mask \subseteq 0..MaxGroup - 1
           /\ {(parity.base + k) % SeqNumbers : k \in parity.mask} = {group[i].seq : i \in DOMAIN group}
<1>1. /\ parity.base = group[1].seq
      /\ parity.mask = {(p.seq + SeqNumbers - group[1].seq) % SeqNumbers :
                           p \in {group[i] : i \in DOMAIN group}}
  BY DEF GenerateParity
<1> DEFINE K == {i - 1 : i \in DOMAIN group}
<1>2. parity.mask = K
  <2>1. parity.mask = {(group[i].seq + SeqNumbers - group[1].seq) % SeqNumbers : i \in DOMAIN group}
    BY <1>1
  <2> QED  BY <2>1, BitIsPlace
<1>3. parity.mask \subseteq 0..MaxGroup - 1
  BY <1>2, BitIsPlace
<1>4. {(parity.base + k) % SeqNumbers : k \in K} = {(group[1].seq + (i - 1)) % SeqNumbers : i \in DOMAIN group}
  BY <1>1
<1>5. {(group[1].seq + (i - 1)) % SeqNumbers : i \in DOMAIN group} = {group[i].seq : i \in DOMAIN group}
  BY BitIsPlace
<1> QED  BY <1>2, <1>3, <1>4, <1>5

\* The packet that is lost is what Recover gives.
LEMMA LostIsBack ==
    ASSUME FecInv, NEW lost \in DOMAIN group
    PROVE  Recover(GenerateParity(group), RemoveAt(group, lost), group[lost].seq) = group[lost]
<1> DEFINE g      == group
           c      == RemoveAt(group, lost)
           parity == GenerateParity(group)
           m      == FecMax({Len(g[i].payload) : i \in DOMAIN g})
           q      == g[lost]
           len    == Xor(parity.len, XorField(c, LAMBDA p : LengthOf(p.payload)))
           all    == XorPayloads(Append(PayloadsOf(c), parity.parity), Len(parity.parity))
           back   == Recover(parity, c, q.seq)
<1>1. g \in Seq(ProtectedPackets) /\ lost \in 1..Len(g) /\ g # <<>> /\ q \in ProtectedPackets
  BY DEF FecInv, FecTypeOK
<1>2. c \in Seq(ProtectedPackets) /\ Without(c, g, lost)
  <2>1. \A s \in Seq(ProtectedPackets) : \A l \in 1..Len(s) :
           RemoveAt(s, l) \in Seq(ProtectedPackets) /\ Without(RemoveAt(s, l), s, l)
    BY OneIsLost
  <2> QED  BY <1>1, <2>1
<1>3. m \in Nat /\ \A i \in DOMAIN g : Len(g[i].payload) <= m
  BY <1>1, LongestIs
<1>4. /\ parity.ts = XorField(g, LAMBDA p : p.ts) /\ parity.pt = XorField(g, LAMBDA p : p.pt)
      /\ parity.marker = XorField(g, LAMBDA p : Bit(p.marker))
      /\ parity.len = XorField(g, LAMBDA p : LengthOf(p.payload))
      /\ parity.parity = XorPayloads(PayloadsOf(g), m)
  BY DEF GenerateParity
<1> HIDE DEF c, m, parity
<1>5. /\ Xor(parity.ts, XorField(c, LAMBDA p : p.ts)) = q.ts
      /\ Xor(parity.pt, XorField(c, LAMBDA p : p.pt)) = q.pt
      /\ Xor(parity.marker, XorField(c, LAMBDA p : Bit(p.marker))) = Bit(q.marker)
      /\ len = LengthOf(q.payload)
  BY <1>1, <1>2, <1>4, FieldsAreBack
<1>6. Len(parity.parity) = m /\ Len(all) = m /\ SubSeq(all, 1, Len(q.payload)) = q.payload
  <2> DEFINE b == XorPayloads(Append(PayloadsOf(c), XorPayloads(PayloadsOf(g), m)), m)
  <2>1. /\ Len(XorPayloads(PayloadsOf(g), m)) = m /\ Len(b) = m
        /\ SubSeq(b, 1, Len(q.payload)) = q.payload
    BY <1>1, <1>2, <1>3, PayloadIsBack
  <2>2. Len(parity.parity) = m /\ all = b
    BY <1>4, <2>1
  <2> QED  BY <2>1, <2>2
<1>7. len \in Lengths /\ SizeOf[len] = Len(q.payload) /\ Len(q.payload) <= m
  <2>1. q.payload \in Payloads
    BY <1>1 DEF ProtectedPackets
  <2>2. LengthOf(q.payload) \in Lengths /\ SizeOf[LengthOf(q.payload)] = Len(q.payload)
    BY <2>1, PayloadTypes
  <2> QED  BY <1>3, <1>5, <2>2
<1>8. (Bit(q.marker) # {}) = q.marker
  <2>1. q.marker \in BOOLEAN
    BY <1>1 DEF ProtectedPackets
  <2> QED  BY <2>1 DEF Bit
<1> HIDE DEF q, g
<1>9. back = [seq |-> q.seq, ts |-> q.ts, pt |-> q.pt, marker |-> q.marker, payload |-> q.payload]
  <2>1. back = [seq |-> q.seq,
                ts |-> Xor(parity.ts, XorField(c, LAMBDA p : p.ts)),
                pt |-> Xor(parity.pt, XorField(c, LAMBDA p : p.pt)),
                marker |-> Xor(parity.marker, XorField(c, LAMBDA p : Bit(p.marker))) # {},
                payload |-> IF len \in Lengths /\ SizeOf[len] <= Len(all)
                            THEN SubSeq(all, 1, SizeOf[len]) ELSE <<>>]
    BY DEF Recover
  <2> HIDE DEF back, all, len
  <2>2. (IF len \in Lengths /\ SizeOf[len] <= Len(all) THEN SubSeq(all, 1, SizeOf[len]) ELSE <<>>)
          = q.payload
    BY <1>6, <1>7
  <2> QED  BY <1>5, <1>8, <2>1, <2>2
<1>10. q = [seq |-> q.seq, ts |-> q.ts, pt |-> q.pt, marker |-> q.marker, payload |-> q.payload]
  BY <1>1 DEF ProtectedPackets
<1> QED  BY <1>9, <1>10 DEF c, parity, q, g

\* Whatever the lengths and the fields of the packets of a group, the mask names them and the
\* one that is lost comes back from the parity and the others (fec.rs:103-145).
THEOREM OneLossRepaired == FecSpec => []OneLossIsRepaired
<1>1. FecInv => OneLossIsRepaired
  <2> SUFFICES ASSUME FecInv, NEW lost \in DOMAIN group, NEW parity, parity = GenerateParity(group)
               PROVE  /\ parity.mask \subseteq 0..MaxGroup - 1
                      /\ {(parity.base + k) % SeqNumbers : k \in parity.mask}
                            = {group[i].seq : i \in DOMAIN group}
                      /\ Recover(parity, RemoveAt(group, lost), group[lost].seq) = group[lost]
    BY DEF OneLossIsRepaired
  <2>1. group # <<>>
    OBVIOUS
  <2> QED  BY <2>1, MaskNames, LostIsBack
<1> QED  BY <1>1, FecInvFirst, FecInvNext, PTL DEF FecSpec

-----------------------------------------------------------------------------
(***************************************************************************)
(* The payloaders.  Nothing is half received between two calls; the sets a *)
(* decoder would have, with those held back, are the ones the encoder      *)
(* meant.                                                                  *)
(***************************************************************************)

(* Sums of lengths, receivers and decoders take a step for each element *)

States        == [done : Seq(NalUnits), part : Seq(NalUnits), upto : Int]
InForce       == [SetTypes -> NalUnits \cup {NoUnit}]
Seen          == [unit : NalUnits, sets : InForce]
DecoderStates == [sets : InForce, slices : Seq(Seen)]
Fresh         == [sets |-> Nothing, slices |-> <<>>]

TotalStep      == [x \in Nat \X NalUnits |-> x[1] + 2 + x[2].len]
ReceiveStep(c) == [x \in States \X Parts |-> Receive(c, x[1], x[2])]
SeeStep        == [x \in DecoderStates \X NalUnits |-> See(x[1], x[2])]

LEMMA UnitFields ==
    /\ \A u \in NalUnits : /\ u.type \in SetTypes \cup {"slice", "delimiter"}
                           /\ u.len \in Nat /\ u.len >= 2 /\ u.id \in Nat
                           /\ u # NoUnit
    /\ NoUnit \notin NalUnits
    /\ Nothing \in InForce /\ Fresh \in DecoderStates /\ NoneYet \in States
<1>1. ASSUME NEW u \in NalUnits
      PROVE  /\ u.type \in SetTypes \cup {"slice", "delimiter"}
             /\ u.len \in Nat /\ u.len >= 2 /\ u.id \in Nat
             /\ u # NoUnit
  BY DEF NalUnits, NoUnit, SetTypes
<1>2. Nothing \in InForce
  BY DEF Nothing, InForce
<1>3. Fresh \in DecoderStates /\ NoneYet \in States
  BY <1>2 DEF Fresh, NoneYet, DecoderStates, States
<1> QED  BY <1>1, <1>2, <1>3

LEMMA ReceiveType ==
    ASSUME NEW c \in Codecs, NEW state \in States, NEW p \in Parts
    PROVE  Receive(c, state, p) \in States
<1>1. /\ state.done \in Seq(NalUnits) /\ p.units \in Seq(NalUnits) /\ p.units # <<>>
      /\ p.from \in Nat /\ p.len \in Nat /\ UnitHeader(c) \in Nat
  BY DEF States, Parts, UnitHeader
<1>2. p.units[1] \in NalUnits
  BY <1>1
<1>3. state.done \o p.units \in Seq(NalUnits) /\ Append(state.done, p.units[1]) \in Seq(NalUnits)
  BY <1>1, <1>2, ConcatProperties, AppendProperties
<1>4. p.from + p.len - UnitHeader(c) - 1 \in Int
  BY <1>1
<1> QED  BY <1>1, <1>3, <1>4 DEF Receive, States

LEMMA SeeType ==
    ASSUME NEW d \in DecoderStates, NEW u \in NalUnits
    PROVE  See(d, u) \in DecoderStates
<1>1. d.sets \in InForce /\ d.slices \in Seq(Seen)
  BY DEF DecoderStates
<1>2. [d.sets EXCEPT ![u.type] = u] \in InForce
  BY <1>1 DEF InForce
<1>3. [unit |-> u, sets |-> d.sets] \in Seen
  BY <1>1 DEF Seen
<1>4. Append(d.slices, [unit |-> u, sets |-> d.sets]) \in Seq(Seen)
  BY <1>1, <1>3, AppendProperties
<1> QED  BY <1>1, <1>2, <1>4 DEF See, DecoderStates

LEMMA TotalFolds ==
    ASSUME NEW s \in Seq(NalUnits)
    PROVE  \E k : FoldsIn(k, Nat, 0, TotalStep, s) /\ Total(s) = k[Len(s)]
<1> DEFINE N == Len(s)
<1>1. N \in Nat /\ \A n \in 1..N : s[n] \in NalUnits
  OBVIOUS
<1>2. Advances(TotalStep, Nat, NalUnits) /\ 0 \in Nat
  <2>1. ASSUME NEW x \in Nat \X NalUnits PROVE x[1] + 2 + x[2].len \in Nat
    BY UnitFields
  <2> QED  BY <2>1 DEF TotalStep, Advances
<1>3. PICK g : FoldRuns(g, Nat, 0, TotalStep, s)
  BY <1>2, FoldExists
<1>4. \A x \in Nat, u \in NalUnits : TotalStep[<<x, u>>] = x + 2 + u.len
  BY DEF TotalStep
<1>5. g = [n \in 0..N |-> IF n = 0 THEN 0 ELSE g[n - 1] + 2 + s[n].len]
  <2> DEFINE F == [n \in 0..N |-> IF n = 0 THEN 0 ELSE g[n - 1] + 2 + s[n].len]
  <2>1. ASSUME NEW n \in 1..N PROVE g[n] = F[n]
    <3>1. n - 1 \in 0..N /\ n \in 0..N /\ n # 0
      BY <1>1
    <3>2. g[n - 1] \in Nat /\ s[n] \in NalUnits
      BY <1>1, <1>3, <3>1 DEF FoldRuns
    <3> QED  BY <1>3, <1>4, <3>1, <3>2 DEF FoldRuns
  <2>2. g[0] = F[0] /\ 0 \in 0..N /\ \A n \in 0..N : n = 0 \/ n \in 1..N
    BY <1>1, <1>3 DEF FoldRuns
  <2>3. g = [n \in 0..N |-> g[n]] /\ F = [n \in 0..N |-> F[n]]
    BY <1>3 DEF FoldRuns
  <2> HIDE DEF F, N
  <2>4. g = F
    BY <2>1, <2>2, <2>3
  <2> QED  BY <2>4 DEF F
<1>6. PICK k : /\ Total(s) = k[N]
               /\ k = [n \in 0..N |-> IF n = 0 THEN 0 ELSE k[n - 1] + 2 + s[n].len]
  BY <1>5, Zenon DEF Total
<1>7. k[0] = 0 /\ \A n \in 1..N : k[n] = k[n - 1] + 2 + s[n].len
  <2>1. PICK F : F = [n \in 0..N |-> IF n = 0 THEN 0 ELSE k[n - 1] + 2 + s[n].len]
    OBVIOUS
  <2>2. F[0] = 0 /\ \A n \in 1..N : F[n] = k[n - 1] + 2 + s[n].len
    BY <1>1, <2>1
  <2> QED  BY <1>6, <2>1, <2>2
<1>8. FoldsIn(k, Nat, 0, TotalStep, s)
  BY <1>1, <1>4, <1>7 DEF FoldsIn
<1> QED  BY <1>6, <1>8

LEMMA ReassembledFolds ==
    ASSUME NEW c \in Codecs, NEW s \in Seq(Parts)
    PROVE  \E k : FoldsIn(k, States, NoneYet, ReceiveStep(c), s) /\ Reassembled(c, s) = k[Len(s)]
<1> DEFINE N == Len(s)
<1>1. N \in Nat /\ \A n \in 1..N : s[n] \in Parts
  OBVIOUS
<1>2. Advances(ReceiveStep(c), States, Parts) /\ NoneYet \in States
  <2>1. ASSUME NEW x \in States \X Parts PROVE Receive(c, x[1], x[2]) \in States
    BY ReceiveType
  <2> QED  BY <2>1, UnitFields DEF ReceiveStep, Advances
<1>3. PICK g : FoldRuns(g, States, NoneYet, ReceiveStep(c), s)
  BY <1>2, FoldExists
<1>4. \A x \in States, p \in Parts : ReceiveStep(c)[<<x, p>>] = Receive(c, x, p)
  BY DEF ReceiveStep
<1>5. g = [n \in 0..N |-> IF n = 0 THEN NoneYet ELSE Receive(c, g[n - 1], s[n])]
  <2> DEFINE F == [n \in 0..N |-> IF n = 0 THEN NoneYet ELSE Receive(c, g[n - 1], s[n])]
  <2>1. ASSUME NEW n \in 1..N PROVE g[n] = F[n]
    <3>1. n - 1 \in 0..N /\ n \in 0..N /\ n # 0
      BY <1>1
    <3>2. g[n - 1] \in States /\ s[n] \in Parts
      BY <1>1, <1>3, <3>1 DEF FoldRuns
    <3> QED  BY <1>3, <1>4, <3>1, <3>2 DEF FoldRuns
  <2>2. g[0] = F[0] /\ 0 \in 0..N /\ \A n \in 0..N : n = 0 \/ n \in 1..N
    BY <1>1, <1>3 DEF FoldRuns
  <2>3. g = [n \in 0..N |-> g[n]] /\ F = [n \in 0..N |-> F[n]]
    BY <1>3 DEF FoldRuns
  <2> HIDE DEF F, N
  <2>4. g = F
    BY <2>1, <2>2, <2>3
  <2> QED  BY <2>4 DEF F
<1>6. PICK k : /\ Reassembled(c, s) = k[N]
               /\ k = [n \in 0..N |-> IF n = 0 THEN NoneYet ELSE Receive(c, k[n - 1], s[n])]
  BY <1>5, Zenon DEF Reassembled
<1>7. k[0] = NoneYet /\ \A n \in 1..N : k[n] = Receive(c, k[n - 1], s[n])
  <2>1. PICK F : F = [n \in 0..N |-> IF n = 0 THEN NoneYet ELSE Receive(c, k[n - 1], s[n])]
    OBVIOUS
  <2>2. F[0] = NoneYet /\ \A n \in 1..N : F[n] = Receive(c, k[n - 1], s[n])
    BY <1>1, <2>1
  <2> QED  BY <1>6, <2>1, <2>2
<1>8. FoldsIn(k, States, NoneYet, ReceiveStep(c), s)
  BY <1>1, <1>4, <1>7 DEF FoldsIn
<1> QED  BY <1>6, <1>8

LEMMA DecodedFolds ==
    ASSUME NEW s \in Seq(NalUnits)
    PROVE  \E k : FoldsIn(k, DecoderStates, Fresh, SeeStep, s) /\ Decoded(s) = k[Len(s)]
<1> DEFINE N == Len(s)
<1>1. N \in Nat /\ \A n \in 1..N : s[n] \in NalUnits
  OBVIOUS
<1>2. Advances(SeeStep, DecoderStates, NalUnits) /\ Fresh \in DecoderStates
  <2>1. ASSUME NEW x \in DecoderStates \X NalUnits PROVE See(x[1], x[2]) \in DecoderStates
    BY SeeType
  <2> QED  BY <2>1, UnitFields DEF SeeStep, Advances
<1>3. PICK g : FoldRuns(g, DecoderStates, Fresh, SeeStep, s)
  BY <1>2, FoldExists
<1>4. \A x \in DecoderStates, u \in NalUnits : SeeStep[<<x, u>>] = See(x, u)
  BY DEF SeeStep
<1>5. g = [n \in 0..N |-> IF n = 0 THEN Fresh ELSE See(g[n - 1], s[n])]
  <2> DEFINE F == [n \in 0..N |-> IF n = 0 THEN Fresh ELSE See(g[n - 1], s[n])]
  <2>1. ASSUME NEW n \in 1..N PROVE g[n] = F[n]
    <3>1. n - 1 \in 0..N /\ n \in 0..N /\ n # 0
      BY <1>1
    <3>2. g[n - 1] \in DecoderStates /\ s[n] \in NalUnits
      BY <1>1, <1>3, <3>1 DEF FoldRuns
    <3> QED  BY <1>3, <1>4, <3>1, <3>2 DEF FoldRuns
  <2>2. g[0] = F[0] /\ 0 \in 0..N /\ \A n \in 0..N : n = 0 \/ n \in 1..N
    BY <1>1, <1>3 DEF FoldRuns
  <2>3. g = [n \in 0..N |-> g[n]] /\ F = [n \in 0..N |-> F[n]]
    BY <1>3 DEF FoldRuns
  <2> HIDE DEF F, N
  <2>4. g = F
    BY <2>1, <2>2, <2>3
  <2> QED  BY <2>4 DEF F
<1>6. PICK k : /\ Decoded(s) = k[N]
               /\ k = [n \in 0..N |-> IF n = 0 THEN Fresh ELSE See(k[n - 1], s[n])]
  BY <1>5, Zenon DEF Decoded, Fresh
<1>7. k[0] = Fresh /\ \A n \in 1..N : k[n] = See(k[n - 1], s[n])
  <2>1. PICK F : F = [n \in 0..N |-> IF n = 0 THEN Fresh ELSE See(k[n - 1], s[n])]
    OBVIOUS
  <2>2. F[0] = Fresh /\ \A n \in 1..N : F[n] = See(k[n - 1], s[n])
    BY <1>1, <2>1
  <2> QED  BY <1>6, <2>1, <2>2
<1>8. FoldsIn(k, DecoderStates, Fresh, SeeStep, s)
  BY <1>1, <1>4, <1>7 DEF FoldsIn
<1> QED  BY <1>6, <1>8

LEMMA StepsTyped ==
    /\ Advances(TotalStep, Nat, NalUnits)
    /\ \A c \in Codecs : Advances(ReceiveStep(c), States, Parts)
    /\ Advances(SeeStep, DecoderStates, NalUnits)
<1>1. ASSUME NEW x \in Nat \X NalUnits PROVE x[1] + 2 + x[2].len \in Nat
  BY UnitFields
<1>2. ASSUME NEW c \in Codecs, NEW x \in States \X Parts PROVE Receive(c, x[1], x[2]) \in States
  BY ReceiveType
<1>3. ASSUME NEW x \in DecoderStates \X NalUnits PROVE See(x[1], x[2]) \in DecoderStates
  BY SeeType
<1> QED  BY <1>1, <1>2, <1>3 DEF Advances, TotalStep, ReceiveStep, SeeStep

LEMMA TotalType ==
    ASSUME NEW s \in Seq(NalUnits)
    PROVE  Total(s) \in Nat
<1>1. PICK k : FoldsIn(k, Nat, 0, TotalStep, s) /\ Total(s) = k[Len(s)]
  BY TotalFolds
<1>2. \A n \in 0..Len(s) : k[n] \in Nat
  BY <1>1, StepsTyped, FoldGoes
<1> QED  BY <1>1, <1>2

LEMMA ReassembledStep ==
    ASSUME NEW c \in Codecs, NEW s \in Seq(Parts)
    PROVE  /\ Reassembled(c, s) \in States
           /\ Reassembled(c, <<>>) = NoneYet
           /\ \A p \in Parts : Reassembled(c, Append(s, p)) = Receive(c, Reassembled(c, s), p)
<1>1. PICK k : FoldsIn(k, States, NoneYet, ReceiveStep(c), s) /\ Reassembled(c, s) = k[Len(s)]
  BY ReassembledFolds
<1>2. /\ \A n \in 0..Len(s) : k[n] \in States
      /\ \A p \in Parts : \A h : FoldsIn(h, States, NoneYet, ReceiveStep(c), Append(s, p)) =>
            h[Len(s) + 1] = ReceiveStep(c)[<<k[Len(s)], p>>]
  BY <1>1, StepsTyped, UnitFields, FoldGoes
<1>3. Reassembled(c, s) \in States
  BY <1>1, <1>2
<1>4. Reassembled(c, <<>>) = NoneYet
  <2>1. <<>> \in Seq(Parts) /\ Len(<<>>) = 0
    OBVIOUS
  <2>2. PICK h : /\ FoldsIn(h, States, NoneYet, ReceiveStep(c), <<>>)
                 /\ Reassembled(c, <<>>) = h[Len(<<>>)]
    BY <2>1, ReassembledFolds
  <2> QED  BY <2>1, <2>2 DEF FoldsIn
<1>5. ASSUME NEW p \in Parts
      PROVE  Reassembled(c, Append(s, p)) = Receive(c, Reassembled(c, s), p)
  <2>1. Append(s, p) \in Seq(Parts) /\ Len(Append(s, p)) = Len(s) + 1
    BY AppendProperties
  <2>2. PICK h : /\ FoldsIn(h, States, NoneYet, ReceiveStep(c), Append(s, p))
                 /\ Reassembled(c, Append(s, p)) = h[Len(Append(s, p))]
    BY <2>1, ReassembledFolds
  <2>3. Reassembled(c, Append(s, p)) = ReceiveStep(c)[<<Reassembled(c, s), p>>]
    BY <1>1, <1>2, <2>1, <2>2
  <2> QED  BY <1>3, <2>3 DEF ReceiveStep
<1> QED  BY <1>3, <1>4, <1>5

LEMMA DecodedStep ==
    ASSUME NEW s \in Seq(NalUnits)
    PROVE  /\ Decoded(s) \in DecoderStates
           /\ Decoded(<<>>) = Fresh
           /\ \A u \in NalUnits : Decoded(Append(s, u)) = See(Decoded(s), u)
<1>1. PICK k : FoldsIn(k, DecoderStates, Fresh, SeeStep, s) /\ Decoded(s) = k[Len(s)]
  BY DecodedFolds
<1>2. /\ \A n \in 0..Len(s) : k[n] \in DecoderStates
      /\ \A u \in NalUnits : \A h : FoldsIn(h, DecoderStates, Fresh, SeeStep, Append(s, u)) =>
            h[Len(s) + 1] = SeeStep[<<k[Len(s)], u>>]
  BY <1>1, StepsTyped, UnitFields, FoldGoes
<1>3. Decoded(s) \in DecoderStates
  BY <1>1, <1>2
<1>4. Decoded(<<>>) = Fresh
  <2>1. <<>> \in Seq(NalUnits) /\ Len(<<>>) = 0
    OBVIOUS
  <2>2. PICK h : FoldsIn(h, DecoderStates, Fresh, SeeStep, <<>>) /\ Decoded(<<>>) = h[Len(<<>>)]
    BY <2>1, DecodedFolds
  <2> QED  BY <2>1, <2>2 DEF FoldsIn
<1>5. ASSUME NEW u \in NalUnits
      PROVE  Decoded(Append(s, u)) = See(Decoded(s), u)
  <2>1. Append(s, u) \in Seq(NalUnits) /\ Len(Append(s, u)) = Len(s) + 1
    BY AppendProperties
  <2>2. PICK h : /\ FoldsIn(h, DecoderStates, Fresh, SeeStep, Append(s, u))
                 /\ Decoded(Append(s, u)) = h[Len(Append(s, u))]
    BY <2>1, DecodedFolds
  <2>3. Decoded(Append(s, u)) = SeeStep[<<Decoded(s), u>>]
    BY <1>1, <1>2, <2>1, <2>2
  <2> QED  BY <1>3, <2>3 DEF SeeStep
<1> QED  BY <1>3, <1>4, <1>5

-----------------------------------------------------------------------------
(* A unit cut into fragments *)

LEMMA Division ==
    ASSUME NEW a \in Nat, NEW b \in Nat, b > 0
    PROVE  a \div b \in Nat /\ (a \div b) * b <= a /\ a < (a \div b) * b + b
OBVIOUS

\* The fewest pieces of a size that hold the rest: all but the last are full.
LEMMA FewestPieces ==
    ASSUME NEW rest \in Nat, NEW size \in Nat, 0 < size, size < rest,
           NEW k, k = (rest + size - 1) \div size
    PROVE  /\ k \in Nat /\ k >= 2
           /\ (k - 1) * size < rest /\ rest <= (k - 1) * size + size
<1>1. k \in Nat /\ k * size <= rest + size - 1 /\ rest + size - 1 < k * size + size
  <2>1. rest + size - 1 \in Nat
    OBVIOUS
  <2> QED  BY <2>1, Division
<1>2. k # 0 /\ k # 1
  <2>1. 0 * size = 0 /\ 1 * size = size
    OBVIOUS
  <2> QED  BY <1>1, <2>1
<1>3. k * size \in Nat /\ (k - 1) * size \in Int /\ (k - 1) * size + size = k * size
  BY <1>1
<1> QED  BY <1>1, <1>2, <1>3

\* Nothing is being put together.
Idle(d) == [done |-> d, part |-> <<>>, upto |-> 0]

\* The i-th of the k fragments of a unit: the bytes from (i - 1) * size of what follows its
\* header.
Fragment(c, u, i, k, size, rest) ==
    [kind |-> "fragment", units |-> <<u>>, from |-> (i - 1) * size,
     len |-> UnitHeader(c) + 1 + (IF i = k THEN rest - (k - 1) * size ELSE size),
     start |-> i = 1, end |-> i = k]

LEMMA FragmentFields ==
    ASSUME NEW c, NEW u, NEW i, NEW k, NEW size, NEW rest, NEW p,
           p = Fragment(c, u, i, k, size, rest)
    PROVE  /\ p.kind = "fragment" /\ p.units = <<u>> /\ p.from = (i - 1) * size
           /\ p.len = UnitHeader(c) + 1 + (IF i = k THEN rest - (k - 1) * size ELSE size)
           /\ (p.start <=> i = 1) /\ (p.end <=> i = k)
<1>1. /\ p.kind = "fragment" /\ p.units = <<u>> /\ p.from = (i - 1) * size
      /\ p.len = UnitHeader(c) + 1 + (IF i = k THEN rest - (k - 1) * size ELSE size)
  BY DEF Fragment
<1>2. p.start <=> i = 1
  BY DEF Fragment
<1>3. p.end <=> i = k
  BY DEF Fragment
<1> QED  BY <1>1, <1>2, <1>3

LEMMA FragmentsAre ==
    ASSUME NEW c \in Codecs, NEW u \in NalUnits, u.len > Mtu
    PROVE  \E k, size, rest :
              /\ k \in Nat /\ size \in Nat /\ rest \in Nat /\ k >= 2 /\ size > 0
              /\ size = Mtu - UnitHeader(c) - 1 /\ rest = u.len - UnitHeader(c)
              /\ (k - 1) * size < rest /\ rest <= (k - 1) * size + size
              /\ Fragments(c, u) = [i \in 1..k |-> Fragment(c, u, i, k, size, rest)]
<1>1. PICK size : size = Mtu - UnitHeader(c) - 1
  OBVIOUS
<1>2. PICK rest : rest = u.len - UnitHeader(c)
  OBVIOUS
<1>3. PICK k : k = (rest + size - 1) \div size
  OBVIOUS
<1>4. size \in Nat /\ rest \in Nat /\ 0 < size /\ size < rest
  BY <1>1, <1>2, PayloadAssumption, UnitFields DEF UnitHeader
<1>5. /\ k \in Nat /\ k >= 2
      /\ (k - 1) * size < rest /\ rest <= (k - 1) * size + size
  BY <1>3, <1>4, FewestPieces
<1>6. Fragments(c, u) = [i \in 1..k |-> Fragment(c, u, i, k, size, rest)]
  BY <1>1, <1>2, <1>3, Zenon DEF Fragments, Fragment
<1> QED  BY <1>1, <1>2, <1>4, <1>5, <1>6

\* The first n elements of a sequence of k, n growing.
Grows(f, k, S) ==
    /\ SubSeq(f, 1, 0) = <<>> /\ SubSeq(f, 1, k) = f
    /\ \A n \in 0..k : SubSeq(f, 1, n) \in Seq(S)
    /\ \A n \in 0..k - 1 : SubSeq(f, 1, n + 1) = Append(SubSeq(f, 1, n), f[n + 1])

LEMMA PrefixesGrow ==
    ASSUME NEW S, NEW f \in Seq(S)
    PROVE  Grows(f, Len(f), S)
<1>1. SubSeq(f, 1, 0) = <<>>
  OBVIOUS
<1>2. SubSeq(f, 1, Len(f)) = f
  OBVIOUS
<1>3. \A n \in 0..Len(f) : SubSeq(f, 1, n) \in Seq(S)
  OBVIOUS
<1>4. \A n \in 0..Len(f) - 1 : SubSeq(f, 1, n + 1) = Append(SubSeq(f, 1, n), f[n + 1])
  OBVIOUS
<1> QED  BY <1>1, <1>2, <1>3, <1>4 DEF Grows

\* What a unit larger than a payload is cut into arrives as that unit.
LEMMA FragmentsArrive ==
    ASSUME NEW c \in Codecs, NEW u \in NalUnits, u.len > Mtu,
           NEW s \in Seq(Parts), NEW d \in Seq(NalUnits), Reassembled(c, s) = Idle(d)
    PROVE  /\ Fragments(c, u) \in Seq(Parts)
           /\ \A i \in DOMAIN Fragments(c, u) : Fragments(c, u)[i].len <= Mtu
           /\ Reassembled(c, s \o Fragments(c, u)) = Idle(Append(d, u))
<1>1. PICK k, size, rest :
              /\ k \in Nat /\ size \in Nat /\ rest \in Nat /\ k >= 2 /\ size > 0
              /\ size = Mtu - UnitHeader(c) - 1 /\ rest = u.len - UnitHeader(c)
              /\ (k - 1) * size < rest /\ rest <= (k - 1) * size + size
              /\ Fragments(c, u) = [i \in 1..k |-> Fragment(c, u, i, k, size, rest)]
  BY FragmentsAre
<1>2. PICK f : f = Fragments(c, u)
  OBVIOUS
<1>3. UnitHeader(c) \in {1, 2} /\ <<u>> \in Seq(NalUnits) \ {<<>>} /\ <<u>>[1] = u
  BY DEF UnitHeader
<1>4. ASSUME NEW i \in 1..k
      PROVE  /\ Fragment(c, u, i, k, size, rest) \in Parts
             /\ Fragment(c, u, i, k, size, rest).len <= Mtu
  <2> DEFINE len == UnitHeader(c) + 1 + (IF i = k THEN rest - (k - 1) * size ELSE size)
  <2>1. (i - 1) * size \in Nat /\ (k - 1) * size \in Nat
    <3>1. \A a \in Nat, b \in Nat : a * b \in Nat
      OBVIOUS
    <3>2. i - 1 \in Nat /\ k - 1 \in Nat /\ size \in Nat
      BY <1>1
    <3> QED  BY <3>1, <3>2
  <2>2. len \in Nat /\ len <= Mtu
    <3>1. \A h \in {1, 2}, m \in Nat, r \in Nat, b \in Nat :
             m < r /\ r <= m + b /\ b = Mtu - h - 1 =>
                /\ h + 1 + (r - m) \in Nat /\ h + 1 + (r - m) <= Mtu
                /\ h + 1 + b \in Nat /\ h + 1 + b <= Mtu
      BY PayloadAssumption
    <3>2. /\ UnitHeader(c) + 1 + (rest - (k - 1) * size) \in Nat
          /\ UnitHeader(c) + 1 + (rest - (k - 1) * size) <= Mtu
          /\ UnitHeader(c) + 1 + size \in Nat /\ UnitHeader(c) + 1 + size <= Mtu
      BY <1>1, <1>3, <2>1, <3>1
    <3> QED  BY <3>2
  <2>3. Fragment(c, u, i, k, size, rest)
          = [kind |-> "fragment", units |-> <<u>>, from |-> (i - 1) * size, len |-> len,
             start |-> i = 1, end |-> i = k]
    BY DEF Fragment
  <2> HIDE DEF len
  <2> QED  BY <1>3, <2>1, <2>2, <2>3 DEF Parts
<1>5. /\ f \in Seq(Parts) /\ Len(f) = k /\ DOMAIN f = 1..k
      /\ \A i \in 1..k : f[i] = Fragment(c, u, i, k, size, rest)
  <2>1. \A g : g = [i \in 1..k |-> Fragment(c, u, i, k, size, rest)] => g \in [1..k -> Parts]
    BY <1>4
  <2>2. f \in [1..k -> Parts]
    BY <1>1, <1>2, <2>1
  <2>3. f \in Seq(Parts) /\ Len(f) = k /\ DOMAIN f = 1..k
    BY <1>1, <2>2
  <2> QED  BY <1>1, <1>2, <2>3
<1>6. /\ s \o SubSeq(f, 1, 0) = s /\ s \o SubSeq(f, 1, k) = s \o f
      /\ \A n \in 0..k - 1 : s \o SubSeq(f, 1, n + 1) = Append(s \o SubSeq(f, 1, n), f[n + 1])
      /\ \A n \in 0..k : s \o SubSeq(f, 1, n) \in Seq(Parts)
  <2>1. /\ SubSeq(f, 1, 0) = <<>> /\ SubSeq(f, 1, k) = f
        /\ \A n \in 0..k : SubSeq(f, 1, n) \in Seq(Parts)
        /\ \A n \in 0..k - 1 : SubSeq(f, 1, n + 1) = Append(SubSeq(f, 1, n), f[n + 1])
    <3>1. Grows(f, k, Parts)
      BY <1>5, PrefixesGrow
    <3> QED  BY <3>1 DEF Grows
  <2>2. ASSUME NEW n \in 0..k - 1
        PROVE  s \o SubSeq(f, 1, n + 1) = Append(s \o SubSeq(f, 1, n), f[n + 1])
    <3>1. f[n + 1] \in Parts /\ SubSeq(f, 1, n) \in Seq(Parts)
      BY <1>1, <1>4, <1>5, <2>1
    <3> QED  BY <2>1, <3>1, AppendToLast
  <2>3. s \o <<>> = s
    BY ConcatEmptySeq
  <2>4. \A n \in 0..k : s \o SubSeq(f, 1, n) \in Seq(Parts)
    BY <2>1, ConcatProperties
  <2> QED  BY <2>1, <2>2, <2>3, <2>4
\* After n fragments the unit is there up to n * size.
<1> DEFINE at(n) == Reassembled(c, s \o SubSeq(f, 1, n))
           There == {n \in 0..k - 1 :
                       at(n) = IF n = 0 THEN Idle(d)
                               ELSE [done |-> d, part |-> <<u>>, upto |-> n * size]}
<1>7. ASSUME NEW n \in 0..k - 1 PROVE at(n + 1) = Receive(c, at(n), f[n + 1])
  <2>1. n + 1 \in 1..k /\ n \in 0..k
    BY <1>1
  <2>2. f[n + 1] \in Parts /\ s \o SubSeq(f, 1, n) \in Seq(Parts)
    BY <1>4, <1>5, <1>6, <2>1
  <2>3. s \o SubSeq(f, 1, n + 1) = Append(s \o SubSeq(f, 1, n), f[n + 1])
    BY <1>6
  <2> QED  BY <2>2, <2>3, ReassembledStep
<1>8. ASSUME NEW n \in 0..k - 1
      PROVE  /\ f[n + 1].kind = "fragment" /\ f[n + 1].units = <<u>> /\ f[n + 1].from = n * size
             /\ (f[n + 1].start <=> n = 0) /\ (f[n + 1].end <=> n + 1 = k)
             /\ f[n + 1].from + f[n + 1].len - UnitHeader(c) - 1
                  = IF n + 1 = k THEN rest ELSE (n + 1) * size
             /\ n * size \in Nat
  <2>1. n + 1 \in 1..k /\ n + 1 - 1 = n /\ (n + 1 = 1 <=> n = 0)
    BY <1>1
  <2>2. f[n + 1] = Fragment(c, u, n + 1, k, size, rest)
    BY <1>5, <2>1
  <2>3. n * size \in Nat /\ (n + 1) * size = n * size + size /\ (k - 1) * size \in Nat
    <3>1. \A a \in Nat, b \in Nat : a * b \in Nat /\ (a + 1) * b = a * b + b
      OBVIOUS
    <3>2. n \in Nat /\ k - 1 \in Nat /\ size \in Nat
      BY <1>1
    <3> QED  BY <3>1, <3>2
  <2>4. n + 1 = k => n * size = (k - 1) * size
    BY <1>1, <2>1
  <2>5. n * size + (UnitHeader(c) + 1 + (IF n + 1 = k THEN rest - (k - 1) * size ELSE size))
            - UnitHeader(c) - 1
          = IF n + 1 = k THEN rest ELSE (n + 1) * size
    <3>1. \A h \in {1, 2}, a \in Nat, r \in Nat, b \in Nat :
             /\ a + (h + 1 + (r - a)) - h - 1 = r
             /\ a + (h + 1 + b) - h - 1 = a + b
      OBVIOUS
    <3>2. PICK a \in Nat : a = n * size
      BY <2>3
    <3>3. PICK h \in {1, 2} : h = UnitHeader(c)
      BY <1>3
    <3>4. a + (h + 1 + (rest - a)) - h - 1 = rest /\ a + (h + 1 + size) - h - 1 = a + size
      <4>1. rest \in Nat /\ size \in Nat
        BY <1>1
      <4>2. h \in Nat /\ a \in Nat
        BY <3>2, <3>3
      <4> QED  BY ONLY <4>1, <4>2
    <3>5. (n + 1 = k => (k - 1) * size = a) /\ (n + 1) * size = a + size
      BY <2>3, <2>4, <3>2
    <3>6. CASE n + 1 = k
      BY <3>2, <3>3, <3>4, <3>5, <3>6
    <3>7. CASE n + 1 # k
      BY <3>2, <3>3, <3>4, <3>5, <3>7
    <3> QED  BY <3>6, <3>7
  <2>6. /\ f[n + 1].kind = "fragment" /\ f[n + 1].units = <<u>> /\ f[n + 1].from = n * size
        /\ (f[n + 1].start <=> n + 1 = 1) /\ (f[n + 1].end <=> n + 1 = k)
        /\ f[n + 1].len = UnitHeader(c) + 1 + (IF n + 1 = k THEN rest - (k - 1) * size ELSE size)
    BY <2>1, <2>2, FragmentFields
  <2>7. f[n + 1].from + f[n + 1].len - UnitHeader(c) - 1
          = IF n + 1 = k THEN rest ELSE (n + 1) * size
    BY <2>5, <2>6
  <2> QED  BY <2>1, <2>3, <2>6, <2>7
<1>9. k - 1 \in There
  <2>1. 0 \in There
    <3>1. at(0) = Idle(d)
      BY <1>6
    <3>2. 0 \in 0..k - 1
      BY <1>1
    <3> HIDE DEF at
    <3> QED  BY <3>1, <3>2
  <2>2. ASSUME NEW n \in 0..k - 2, n \in There PROVE n + 1 \in There
    <3>1. n \in 0..k - 1 /\ n + 1 \in 0..k - 1 /\ n + 1 # k /\ n + 1 # 0 /\ n \in Nat
      BY <1>1
    <3>2. at(n) = IF n = 0 THEN Idle(d) ELSE [done |-> d, part |-> <<u>>, upto |-> n * size]
      BY <2>2
    <3>3. at(n + 1) = Receive(c, at(n), f[n + 1])
      BY <1>7, <3>1
    <3>4. /\ f[n + 1].kind = "fragment" /\ f[n + 1].units = <<u>> /\ f[n + 1].from = n * size
          /\ (f[n + 1].start <=> n = 0) /\ ~f[n + 1].end
          /\ f[n + 1].from + f[n + 1].len - UnitHeader(c) - 1 = (n + 1) * size
      BY <1>8, <3>1
    <3> HIDE DEF at, There
    <3>5. at(n).done = d /\ (n # 0 => at(n).part = <<u>> /\ at(n).upto = n * size)
      BY <3>2 DEF Idle
    <3>6. Receive(c, at(n), f[n + 1]) = [done |-> d, part |-> <<u>>, upto |-> (n + 1) * size]
      BY <3>4, <3>5 DEF Receive
    <3> QED  BY <3>1, <3>3, <3>6 DEF There
  <2> HIDE DEF There
  <2>3. \A n \in 0..(k - 1) - 1 : n \in There => n + 1 \in There
    <3>1. 0..(k - 1) - 1 = 0..k - 2
      BY <1>1
    <3> QED  BY <2>2, <3>1
  <2>4. k - 1 \in Nat
    BY <1>1
  <2>5. 0..k - 1 \subseteq There
    BY <2>1, <2>3, <2>4, SetInduction
  <2> QED  BY <1>1, <2>4, <2>5
<1>10. at(k) = Idle(Append(d, u))
  <2>1. k - 1 \in 0..k - 1 /\ k - 1 + 1 = k /\ k - 1 # 0
    BY <1>1
  <2>2. at(k - 1) = [done |-> d, part |-> <<u>>, upto |-> (k - 1) * size]
    BY <1>9, <2>1
  <2>3. at(k) = Receive(c, at(k - 1), f[k])
    BY <1>7, <2>1
  <2>4. /\ f[k].kind = "fragment" /\ f[k].units = <<u>> /\ f[k].from = (k - 1) * size
        /\ f[k].end /\ f[k].from + f[k].len - UnitHeader(c) - 1 = rest
    BY <1>8, <2>1
  <2> HIDE DEF at
  <2>5. at(k - 1).done = d /\ at(k - 1).part = f[k].units /\ at(k - 1).upto = f[k].from
    BY <2>2, <2>4
  <2>6. f[k].units[1] = u /\ rest = u.len - UnitHeader(c)
    BY <1>1, <1>3, <2>4
  <2> QED  BY <2>3, <2>4, <2>5, <2>6 DEF Receive, Idle
<1>11. Reassembled(c, s \o f) = Idle(Append(d, u))
  BY <1>6, <1>10
<1>12. \A i \in DOMAIN f : f[i].len <= Mtu
  BY <1>4, <1>5
<1> QED  BY <1>2, <1>5, <1>11, <1>12

-----------------------------------------------------------------------------
(* What each kind of payload brings to the receiver and its decoder *)

\* Only parameter sets exceed the MTU, in payloads of their own.
Sized(c, p) == p.len > Mtu => p.kind = "single" /\ IsSet(c, p.units[1])

LEMMA SingleArrives ==
    ASSUME NEW c \in Codecs, NEW u \in NalUnits, NEW s \in Seq(Parts), NEW d \in Seq(NalUnits),
           Reassembled(c, s) = Idle(d)
    PROVE  /\ Single(u) \in Parts /\ Single(u).len = u.len /\ Single(u).kind = "single"
           /\ Single(u).units = <<u>>
           /\ Reassembled(c, Append(s, Single(u))) = Idle(Append(d, u))
<1>1. /\ Single(u) \in Parts /\ Single(u).len = u.len /\ Single(u).kind = "single"
      /\ Single(u).units = <<u>>
  BY UnitFields DEF Single, Parts
<1>2. Reassembled(c, Append(s, Single(u))) = Receive(c, Idle(d), Single(u))
  BY <1>1, ReassembledStep
<1>3. Idle(d).done = d /\ Append(d, u) = d \o <<u>>
  BY AppendIsConcat DEF Idle
<1>4. Receive(c, Idle(d), Single(u)) = Idle(Append(d, u))
  BY <1>1, <1>3 DEF Receive, Idle
<1> QED  BY <1>1, <1>2, <1>4

LEMMA WholeArrives ==
    ASSUME NEW c \in Codecs, NEW u \in NalUnits, NEW s \in Seq(Parts), NEW d \in Seq(NalUnits),
           Reassembled(c, s) = Idle(d)
    PROVE  /\ Whole(c, u) \in Seq(Parts)
           /\ \A i \in DOMAIN Whole(c, u) : Whole(c, u)[i].len <= Mtu
           /\ Reassembled(c, s \o Whole(c, u)) = Idle(Append(d, u))
<1>1. CASE u.len <= Mtu
  <2>1. Whole(c, u) = <<Single(u)>>
    BY <1>1 DEF Whole
  <2>2. /\ Single(u) \in Parts /\ Single(u).len = u.len
        /\ Reassembled(c, Append(s, Single(u))) = Idle(Append(d, u))
    BY SingleArrives
  <2>3. Append(s, Single(u)) = s \o <<Single(u)>>
    BY <2>2, AppendIsConcat
  <2>4. <<Single(u)>> \in Seq(Parts) /\ \A i \in DOMAIN <<Single(u)>> : <<Single(u)>>[i] = Single(u)
    BY <2>2
  <2> QED  BY <1>1, <2>1, <2>2, <2>3, <2>4
<1>2. CASE ~(u.len <= Mtu)
  <2>1. u.len > Mtu
    BY <1>2, UnitFields, PayloadAssumption
  <2>2. Whole(c, u) = Fragments(c, u)
    BY <1>2 DEF Whole
  <2> QED  BY <2>1, <2>2, FragmentsArrive
<1> QED  BY <1>1, <1>2

\* What the held units are.
HeldOK(c, h) ==
    /\ h \in InForce
    /\ \A t \in SetTypes : h[t] # NoUnit => h[t].type = t /\ IsSet(c, h[t])

LEMMA GroupIs ==
    ASSUME NEW c \in Codecs, NEW h, HeldOK(c, h), AllHeld(c, h)
    PROVE  /\ h["sps"] \in NalUnits /\ h["sps"].type = "sps" /\ IsSet(c, h["sps"])
           /\ h["pps"] \in NalUnits /\ h["pps"].type = "pps" /\ IsSet(c, h["pps"])
           /\ c = "h264" => h["vps"] = NoUnit /\ Group(c, h) = <<h["sps"], h["pps"]>>
           /\ c # "h264" => /\ h["vps"] \in NalUnits /\ h["vps"].type = "vps" /\ IsSet(c, h["vps"])
                            /\ Group(c, h) = <<h["vps"], h["sps"], h["pps"]>>
<1>1. \A t \in SetTypes : h[t] # NoUnit => h[t] \in NalUnits /\ h[t].type = t /\ IsSet(c, h[t])
  BY DEF HeldOK, InForce
<1>2. CASE c = "h264"
  <2>1. DOMAIN Sets(c) = 1..2 /\ Sets(c)[1] = "sps" /\ Sets(c)[2] = "pps"
    BY <1>2 DEF Sets
  <2>2. h["sps"] # NoUnit /\ h["pps"] # NoUnit
    BY <2>1 DEF AllHeld
  <2>3. h["vps"] = NoUnit
    <3> SUFFICES ASSUME h["vps"] # NoUnit PROVE FALSE
      OBVIOUS
    <3>1. h["vps"].type = "vps" /\ IsSet(c, h["vps"])
      BY <1>1 DEF SetTypes
    <3>2. PICK i \in 1..2 : Sets(c)[i] = "vps"
      BY <2>1, <3>1 DEF IsSet
    <3> QED  BY <2>1, <3>2
  <2>4. Group(c, h) = <<h["sps"], h["pps"]>>
    <3>1. Group(c, h) = [i \in 1..2 |-> h[Sets(c)[i]]]
      BY <2>1 DEF Group
    <3> QED  BY <2>1, <3>1
  <2> QED  BY <1>1, <1>2, <2>2, <2>3, <2>4 DEF SetTypes
<1>3. CASE c # "h264"
  <2>1. /\ DOMAIN Sets(c) = 1..3
        /\ Sets(c)[1] = "vps" /\ Sets(c)[2] = "sps" /\ Sets(c)[3] = "pps"
    BY <1>3 DEF Sets
  <2>2. h["vps"] # NoUnit /\ h["sps"] # NoUnit /\ h["pps"] # NoUnit
    BY <2>1 DEF AllHeld
  <2>3. Group(c, h) = <<h["vps"], h["sps"], h["pps"]>>
    <3>1. Group(c, h) = [i \in 1..3 |-> h[Sets(c)[i]]]
      BY <2>1 DEF Group
    <3> QED  BY <2>1, <3>1
  <2> QED  BY <1>1, <1>3, <2>2, <2>3 DEF SetTypes
<1> QED  BY <1>2, <1>3

LEMMA GroupArrives ==
    ASSUME NEW c \in Codecs, NEW h, HeldOK(c, h), AllHeld(c, h),
           NEW s \in Seq(Parts), NEW d \in Seq(NalUnits), Reassembled(c, s) = Idle(d)
    PROVE  /\ Grouped(c, h) \in Seq(Parts)
           /\ \A i \in DOMAIN Grouped(c, h) : Sized(c, Grouped(c, h)[i])
           /\ Group(c, h) \in Seq(NalUnits)
           /\ Reassembled(c, s \o Grouped(c, h)) = Idle(d \o Group(c, h))
<1>1. Group(c, h) \in Seq(NalUnits) /\ Group(c, h) # <<>>
  <2>1. \A x \in NalUnits, y \in NalUnits, z \in NalUnits :
           /\ <<x, y>> \in Seq(NalUnits) /\ <<x, y>> # <<>>
           /\ <<x, y, z>> \in Seq(NalUnits) /\ <<x, y, z>> # <<>>
    OBVIOUS
  <2>2. CASE c = "h264"
    <3>1. PICK a, b : a \in NalUnits /\ b \in NalUnits /\ Group(c, h) = <<a, b>>
      BY <2>2, GroupIs, Zenon
    <3> QED  BY <2>1, <3>1
  <2>3. CASE c # "h264"
    <3>1. PICK v, a, b : /\ v \in NalUnits /\ a \in NalUnits /\ b \in NalUnits
                         /\ Group(c, h) = <<v, a, b>>
      BY <2>3, GroupIs, Zenon
    <3> QED  BY <2>1, <3>1
  <2> QED  BY <2>2, <2>3
<1>2. CASE Fits(c, Aggregate(c, Group(c, h)).len)
  <2> DEFINE p == Aggregate(c, Group(c, h))
  <2>1. /\ p.kind = "aggregate" /\ p.units = Group(c, h)
        /\ p.len = UnitHeader(c) + Total(Group(c, h))
    BY DEF Aggregate
  <2>2. p.len \in Nat
    BY <1>1, <2>1, TotalType DEF UnitHeader
  <2>3. p \in Parts
    <3>1. \A us \in Seq(NalUnits) \ {<<>>}, n \in Nat :
             [kind |-> "aggregate", units |-> us, from |-> 0, start |-> FALSE, end |-> FALSE,
              len |-> n] \in Parts
      BY DEF Parts
    <3> QED  BY <1>1, <2>1, <2>2, <3>1 DEF Aggregate
  <2> HIDE DEF p
  <2>4. p.len <= Mtu
    BY <1>2, <2>2, PayloadAssumption DEF Fits, p
  <2>5. Grouped(c, h) = <<p>>
    BY <1>2 DEF Grouped, p
  <2>6. Reassembled(c, Append(s, p)) = Receive(c, Idle(d), p)
    BY <2>3, ReassembledStep
  <2>7. Receive(c, Idle(d), p) = Idle(d \o Group(c, h))
    BY <2>1 DEF Receive, Idle
  <2>8. Append(s, p) = s \o <<p>>
    BY <2>3, AppendIsConcat
  <2>9. <<p>> \in Seq(Parts) /\ \A i \in DOMAIN <<p>> : <<p>>[i] = p
    BY <2>3
  <2>10. Sized(c, p)
    BY <2>2, <2>4, PayloadAssumption DEF Sized
  <2> QED  BY <1>1, <2>5, <2>6, <2>7, <2>8, <2>9, <2>10
<1>3. CASE ~Fits(c, Aggregate(c, Group(c, h)).len) /\ c = "h264"
  <2>1. PICK a \in NalUnits, b \in NalUnits :
           a = h["sps"] /\ b = h["pps"] /\ Group(c, h) = <<a, b>> /\ IsSet(c, a) /\ IsSet(c, b)
    BY <1>3, GroupIs
  <2>2. Grouped(c, h) = <<Single(a), Single(b)>>
    <3>1. DOMAIN Sets(c) = 1..2
      BY <1>3 DEF Sets
    <3>2. Grouped(c, h) = [i \in 1..2 |-> Single(Group(c, h)[i])]
      BY <1>3, <3>1 DEF Grouped
    <3> QED  BY <2>1, <3>2
  <2>3. /\ Single(a) \in Parts /\ Single(a).kind = "single" /\ Single(a).units = <<a>>
        /\ Reassembled(c, Append(s, Single(a))) = Idle(Append(d, a))
    BY SingleArrives
  <2>4. Append(s, Single(a)) \in Seq(Parts) /\ Append(d, a) \in Seq(NalUnits)
    BY <2>3, AppendProperties
  <2>5. /\ Single(b) \in Parts /\ Single(b).kind = "single" /\ Single(b).units = <<b>>
        /\ Reassembled(c, Append(Append(s, Single(a)), Single(b))) = Idle(Append(Append(d, a), b))
    BY <2>3, <2>4, SingleArrives
  <2>6. \A S : \A q \in Seq(S), x \in S, y \in S : Append(Append(q, x), y) = q \o <<x, y>>
    OBVIOUS
  <2>7. /\ Append(Append(s, Single(a)), Single(b)) = s \o <<Single(a), Single(b)>>
        /\ Append(Append(d, a), b) = d \o <<a, b>>
    BY <2>3, <2>5, <2>6
  <2>8. Sized(c, Single(a)) /\ Sized(c, Single(b))
    BY <2>1, <2>3, <2>5 DEF Sized
  <2>9. \A x, y : /\ \A i \in DOMAIN <<x, y>> : <<x, y>>[i] = x \/ <<x, y>>[i] = y
                  /\ x \in Parts /\ y \in Parts => <<x, y>> \in Seq(Parts)
    OBVIOUS
  <2> QED  BY <1>1, <2>1, <2>2, <2>3, <2>5, <2>7, <2>8, <2>9
<1>4. CASE ~Fits(c, Aggregate(c, Group(c, h)).len) /\ c # "h264"
  <2>1. PICK v \in NalUnits, a \in NalUnits, b \in NalUnits :
           /\ v = h["vps"] /\ a = h["sps"] /\ b = h["pps"] /\ Group(c, h) = <<v, a, b>>
           /\ IsSet(c, v) /\ IsSet(c, a) /\ IsSet(c, b)
    BY <1>4, GroupIs
  <2>2. Grouped(c, h) = <<Single(v), Single(a), Single(b)>>
    <3>1. DOMAIN Sets(c) = 1..3
      BY <1>4 DEF Sets
    <3>2. Grouped(c, h) = [i \in 1..3 |-> Single(Group(c, h)[i])]
      BY <1>4, <3>1 DEF Grouped
    <3> QED  BY <2>1, <3>2
  <2>3. /\ Single(v) \in Parts /\ Single(v).kind = "single" /\ Single(v).units = <<v>>
        /\ Reassembled(c, Append(s, Single(v))) = Idle(Append(d, v))
    BY SingleArrives
  <2>4. Append(s, Single(v)) \in Seq(Parts) /\ Append(d, v) \in Seq(NalUnits)
    BY <2>3, AppendProperties
  <2>5. /\ Single(a) \in Parts /\ Single(a).kind = "single" /\ Single(a).units = <<a>>
        /\ Reassembled(c, Append(Append(s, Single(v)), Single(a))) = Idle(Append(Append(d, v), a))
    BY <2>3, <2>4, SingleArrives
  <2>6. /\ Append(Append(s, Single(v)), Single(a)) \in Seq(Parts)
        /\ Append(Append(d, v), a) \in Seq(NalUnits)
    BY <2>4, <2>5, AppendProperties
  <2>7. /\ Single(b) \in Parts /\ Single(b).kind = "single" /\ Single(b).units = <<b>>
        /\ Reassembled(c, Append(Append(Append(s, Single(v)), Single(a)), Single(b)))
             = Idle(Append(Append(Append(d, v), a), b))
    BY <2>5, <2>6, SingleArrives
  <2>8. /\ Append(Append(Append(s, Single(v)), Single(a)), Single(b))
             = s \o <<Single(v), Single(a), Single(b)>>
        /\ Append(Append(Append(d, v), a), b) = d \o <<v, a, b>>
    <3>1. \A q \in Seq(Parts), x \in Parts, y \in Parts, z \in Parts :
             Append(Append(Append(q, x), y), z) = q \o <<x, y, z>>
      OBVIOUS
    <3>2. \A q \in Seq(NalUnits), x \in NalUnits, y \in NalUnits, z \in NalUnits :
             Append(Append(Append(q, x), y), z) = q \o <<x, y, z>>
      OBVIOUS
    <3>3. Append(Append(Append(s, Single(v)), Single(a)), Single(b))
             = s \o <<Single(v), Single(a), Single(b)>>
      BY <2>3, <2>5, <2>7, <3>1, Zenon
    <3> QED  BY <3>2, <3>3, Zenon
  <2>9. Sized(c, Single(v)) /\ Sized(c, Single(a)) /\ Sized(c, Single(b))
    BY <2>1, <2>3, <2>5, <2>7 DEF Sized
  <2>10. \A x, y, z :
           /\ \A i \in DOMAIN <<x, y, z>> :
                 <<x, y, z>>[i] = x \/ <<x, y, z>>[i] = y \/ <<x, y, z>>[i] = z
           /\ x \in Parts /\ y \in Parts /\ z \in Parts => <<x, y, z>> \in Seq(Parts)
    OBVIOUS
  <2> QED  BY <1>1, <2>1, <2>2, <2>3, <2>5, <2>7, <2>8, <2>9, <2>10
<1> QED  BY <1>2, <1>3, <1>4

\* The sets of a decoder after those held back.
Overlaid(sets, h) == [t \in SetTypes |-> IF h[t] # NoUnit THEN h[t] ELSE sets[t]]

LEMMA SetSeen ==
    ASSUME NEW d \in Seq(NalUnits), NEW u \in NalUnits, u.type \in SetTypes
    PROVE  /\ Decoded(Append(d, u)).sets = [Decoded(d).sets EXCEPT ![u.type] = u]
           /\ Decoded(Append(d, u)).slices = Decoded(d).slices
<1>1. Decoded(Append(d, u)) = See(Decoded(d), u)
  BY DecodedStep
<1>2. u.type # "slice"
  BY DEF SetTypes
<1> QED  BY <1>1, <1>2 DEF See

LEMMA OtherSeen ==
    ASSUME NEW d \in Seq(NalUnits), NEW u \in NalUnits, u.type \notin SetTypes
    PROVE  /\ Decoded(Append(d, u)).sets = Decoded(d).sets
           /\ Decoded(Append(d, u)).slices =
                 IF u.type = "slice"
                 THEN Append(Decoded(d).slices, [unit |-> u, sets |-> Decoded(d).sets])
                 ELSE Decoded(d).slices
<1>1. Decoded(Append(d, u)) = See(Decoded(d), u)
  BY DecodedStep
<1> QED  BY <1>1 DEF See

LEMMA DecodedTypes ==
    ASSUME NEW d \in Seq(NalUnits)
    PROVE  Decoded(d).sets \in InForce /\ Decoded(d).slices \in Seq(Seen)
BY DecodedStep DEF DecoderStates

\* A group leaves the decoder with the sets that were held back.
LEMMA GroupSeen ==
    ASSUME NEW c \in Codecs, NEW h, HeldOK(c, h), AllHeld(c, h), NEW d \in Seq(NalUnits)
    PROVE  /\ Decoded(d \o Group(c, h)).sets = Overlaid(Decoded(d).sets, h)
           /\ Decoded(d \o Group(c, h)).slices = Decoded(d).slices
<1>1. PICK a \in NalUnits, b \in NalUnits :
        /\ a = h["sps"] /\ b = h["pps"] /\ a.type = "sps" /\ b.type = "pps"
  BY GroupIs
<1>2. PICK old : old = Decoded(d).sets
  OBVIOUS
<1>3. /\ old \in InForce /\ NoUnit \notin NalUnits
      /\ SetTypes = {"vps", "sps", "pps"}
  BY <1>2, DecodedTypes, UnitFields DEF SetTypes
<1>4. CASE c = "h264"
  <2>1. d \o Group(c, h) = Append(Append(d, a), b) /\ h["vps"] = NoUnit
    <3>1. \A q \in Seq(NalUnits), x \in NalUnits, y \in NalUnits :
             Append(Append(q, x), y) = q \o <<x, y>>
      OBVIOUS
    <3>2. Group(c, h) = <<a, b>> /\ h["vps"] = NoUnit
      BY <1>1, <1>4, GroupIs
    <3> QED  BY <3>1, <3>2
  <2>2. /\ Decoded(Append(d, a)).sets = [old EXCEPT !["sps"] = a]
        /\ Decoded(Append(d, a)).slices = Decoded(d).slices
    BY <1>1, <1>2, <1>3, SetSeen
  <2>3. Append(d, a) \in Seq(NalUnits)
    BY AppendProperties
  <2>4. /\ Decoded(Append(Append(d, a), b)).sets = [[old EXCEPT !["sps"] = a] EXCEPT !["pps"] = b]
        /\ Decoded(Append(Append(d, a), b)).slices = Decoded(d).slices
    <3>1. PICK q \in Seq(NalUnits) : q = Append(d, a)
      BY <2>3
    <3>2. b.type \in SetTypes /\ b.type = "pps"
      BY <1>1, <1>3
    <3>3. /\ Decoded(Append(q, b)).sets = [Decoded(q).sets EXCEPT ![b.type] = b]
          /\ Decoded(Append(q, b)).slices = Decoded(q).slices
          /\ Append(q, b) \in Seq(NalUnits)
      BY <3>2, SetSeen, AppendProperties
    <3> QED  BY <2>2, <3>1, <3>2, <3>3
  <2>5. [[old EXCEPT !["sps"] = a] EXCEPT !["pps"] = b] = Overlaid(old, h)
    BY <1>1, <1>3, <2>1 DEF InForce, Overlaid
  <2> QED  BY <1>2, <2>1, <2>4, <2>5
<1>5. CASE c # "h264"
  <2>1. PICK v \in NalUnits : v = h["vps"] /\ v.type = "vps"
    BY <1>5, GroupIs
  <2>2. d \o Group(c, h) = Append(Append(Append(d, v), a), b)
    <3>1. \A q \in Seq(NalUnits), x \in NalUnits, y \in NalUnits, z \in NalUnits :
             Append(Append(Append(q, x), y), z) = q \o <<x, y, z>>
      OBVIOUS
    <3>2. Group(c, h) = <<v, a, b>>
      BY <1>1, <1>5, <2>1, GroupIs
    <3> QED  BY <3>1, <3>2
  <2>3. /\ Decoded(Append(d, v)).sets = [old EXCEPT !["vps"] = v]
        /\ Decoded(Append(d, v)).slices = Decoded(d).slices
        /\ Append(d, v) \in Seq(NalUnits)
    BY <1>2, <1>3, <2>1, SetSeen, AppendProperties
  <2>4. /\ Decoded(Append(Append(d, v), a)).sets = [[old EXCEPT !["vps"] = v] EXCEPT !["sps"] = a]
        /\ Decoded(Append(Append(d, v), a)).slices = Decoded(d).slices
        /\ Append(Append(d, v), a) \in Seq(NalUnits)
    <3>1. PICK q \in Seq(NalUnits) : q = Append(d, v)
      BY <2>3
    <3>2. a.type \in SetTypes /\ a.type = "sps"
      BY <1>1, <1>3
    <3>3. /\ Decoded(Append(q, a)).sets = [Decoded(q).sets EXCEPT ![a.type] = a]
          /\ Decoded(Append(q, a)).slices = Decoded(q).slices
          /\ Append(q, a) \in Seq(NalUnits)
      BY <3>2, SetSeen, AppendProperties
    <3> QED  BY <2>3, <3>1, <3>2, <3>3
  <2>5. /\ Decoded(Append(Append(Append(d, v), a), b)).sets
             = [[[old EXCEPT !["vps"] = v] EXCEPT !["sps"] = a] EXCEPT !["pps"] = b]
        /\ Decoded(Append(Append(Append(d, v), a), b)).slices = Decoded(d).slices
    <3>1. PICK q \in Seq(NalUnits) : q = Append(Append(d, v), a)
      BY <2>4
    <3>2. b.type \in SetTypes /\ b.type = "pps"
      BY <1>1, <1>3
    <3>3. /\ Decoded(Append(q, b)).sets = [Decoded(q).sets EXCEPT ![b.type] = b]
          /\ Decoded(Append(q, b)).slices = Decoded(q).slices
          /\ Append(q, b) \in Seq(NalUnits)
      BY <3>2, SetSeen, AppendProperties
    <3> QED  BY <2>4, <3>1, <3>2, <3>3
  <2>6. [[[old EXCEPT !["vps"] = v] EXCEPT !["sps"] = a] EXCEPT !["pps"] = b] = Overlaid(old, h)
    BY <1>1, <1>3, <2>1 DEF InForce, Overlaid
  <2> QED  BY <1>2, <2>2, <2>5, <2>6
<1> QED  BY <1>4, <1>5

-----------------------------------------------------------------------------
(* The receiver and the encoder agree *)

Reached(c, pl) == Reassembled(c, pl).done

\* The same slices, whatever parameter sets they met.
SameUnits(came, meant) ==
    Len(came) = Len(meant) /\ \A i \in DOMAIN meant : came[i].unit = meant[i].unit

\* Nothing is half received, the decoder would have the sets the encoder meant if it also
\* had those held back, and the slices came.
Agree(c, h, pl, gv, ap) ==
    /\ c \in Codecs /\ ap \in BOOLEAN /\ HeldOK(c, h)
    /\ gv \in Seq(NalUnits) /\ pl \in Seq(Parts) /\ Reached(c, pl) \in Seq(NalUnits)
    /\ Reassembled(c, pl) = Idle(Reached(c, pl))
    /\ Decoded(gv).sets = Overlaid(Decoded(Reached(c, pl)).sets, h)
    /\ SameUnits(Decoded(Reached(c, pl)).slices, Decoded(gv).slices)
    /\ ~ap => Decoded(Reached(c, pl)).slices = Decoded(gv).slices
    /\ \A i \in DOMAIN pl : Sized(c, pl[i])

LEMMA SameAppended ==
    ASSUME NEW S, NEW a \in Seq(S), NEW b \in Seq(S), SameUnits(a, b),
           NEW x \in S, NEW y \in S, x.unit = y.unit
    PROVE  SameUnits(Append(a, x), Append(b, y))
BY DEF SameUnits

LEMMA BothSized ==
    ASSUME NEW c, NEW a \in Seq(Parts), NEW b \in Seq(Parts),
           \A i \in DOMAIN a : Sized(c, a[i]), \A i \in DOMAIN b : Sized(c, b[i])
    PROVE  a \o b \in Seq(Parts) /\ \A i \in DOMAIN (a \o b) : Sized(c, (a \o b)[i])
<1>1. a \o b \in Seq(Parts)
  BY ConcatProperties
<1>2. ASSUME NEW i \in DOMAIN (a \o b) PROVE Sized(c, (a \o b)[i])
  <2>1. \/ i \in DOMAIN a /\ (a \o b)[i] = a[i]
        \/ i - Len(a) \in DOMAIN b /\ (a \o b)[i] = b[i - Len(a)]
    OBVIOUS
  <2> QED  BY <2>1
<1> QED  BY <1>1, <1>2

\* With nothing held, the sets in force are those of the decoder.
LEMMA NothingOver ==
    /\ \A sets \in InForce : Overlaid(sets, Nothing) = sets
    /\ \A sets \in InForce, h \in InForce : Overlaid(sets, h) \in InForce
    /\ \A c \in Codecs : HeldOK(c, Nothing) /\ ~AllHeld(c, Nothing)
<1>1. \A sets \in InForce : Overlaid(sets, Nothing) = sets
  BY DEF Overlaid, Nothing, InForce
<1>2. \A sets \in InForce, h \in InForce : Overlaid(sets, h) \in InForce
  BY DEF Overlaid, InForce
<1>3. ASSUME NEW c \in Codecs PROVE HeldOK(c, Nothing) /\ ~AllHeld(c, Nothing)
  <2>1. HeldOK(c, Nothing)
    BY UnitFields DEF HeldOK, Nothing
  <2>2. 1 \in DOMAIN Sets(c) /\ Sets(c)[1] \in SetTypes
    BY DEF Sets, SetTypes
  <2>3. Nothing[Sets(c)[1]] = NoUnit
    BY <2>2 DEF Nothing
  <2> QED  BY <2>1, <2>2, <2>3 DEF AllHeld
<1> QED  BY <1>1, <1>2, <1>3

\* A group is sent.
LEMMA GroupAgrees ==
    ASSUME NEW c, NEW h, NEW pl, NEW gv, NEW ap, Agree(c, h, pl, gv, ap), AllHeld(c, h)
    PROVE  Agree(c, Nothing, pl \o Grouped(c, h), gv, ap)
<1> DEFINE d  == Reached(c, pl)
           e  == d \o Group(c, h)
           to == pl \o Grouped(c, h)
<1>1. /\ c \in Codecs /\ ap \in BOOLEAN /\ HeldOK(c, h)
      /\ gv \in Seq(NalUnits) /\ pl \in Seq(Parts) /\ d \in Seq(NalUnits)
      /\ Reassembled(c, pl) = Idle(d)
      /\ Decoded(gv).sets = Overlaid(Decoded(d).sets, h)
      /\ SameUnits(Decoded(d).slices, Decoded(gv).slices)
      /\ ~ap => Decoded(d).slices = Decoded(gv).slices
      /\ \A i \in DOMAIN pl : Sized(c, pl[i])
  BY DEF Agree
<1> HIDE DEF d
<1>2. /\ Grouped(c, h) \in Seq(Parts) /\ Group(c, h) \in Seq(NalUnits)
      /\ \A i \in DOMAIN Grouped(c, h) : Sized(c, Grouped(c, h)[i])
      /\ Reassembled(c, to) = Idle(e)
  BY <1>1, GroupArrives
<1>3. e \in Seq(NalUnits) /\ to \in Seq(Parts) /\ \A i \in DOMAIN to : Sized(c, to[i])
  BY <1>1, <1>2, BothSized, ConcatProperties
<1>4. Decoded(e).sets = Overlaid(Decoded(d).sets, h) /\ Decoded(e).slices = Decoded(d).slices
  BY <1>1, GroupSeen
<1> HIDE DEF e, to
<1>5. Reached(c, to) = e
  BY <1>2 DEF Reached, Idle
<1>6. Decoded(gv).sets = Overlaid(Decoded(e).sets, Nothing)
  BY <1>1, <1>3, <1>4, NothingOver, DecodedTypes
<1>7. HeldOK(c, Nothing)
  BY <1>1, NothingOver
<1>8. Agree(c, Nothing, to, gv, ap)
  BY <1>1, <1>2, <1>3, <1>4, <1>5, <1>6, <1>7 DEF Agree
<1> QED  BY <1>8 DEF to

\* A unit that is no parameter set goes as it is.
LEMMA WholeAgrees ==
    ASSUME NEW c, NEW h, NEW pl, NEW gv, NEW ap, Agree(c, h, pl, gv, ap),
           NEW u \in NalUnits, u.type \notin SetTypes
    PROVE  Agree(c, h, pl \o Whole(c, u), Append(gv, u),
                 ap \/ (u.type = "slice" /\ h # Nothing))
<1> DEFINE d  == Reached(c, pl)
           e  == Append(d, u)
           to == pl \o Whole(c, u)
           hv == Append(gv, u)
           aq == ap \/ (u.type = "slice" /\ h # Nothing)
<1>1. /\ c \in Codecs /\ ap \in BOOLEAN /\ HeldOK(c, h)
      /\ gv \in Seq(NalUnits) /\ pl \in Seq(Parts) /\ d \in Seq(NalUnits)
      /\ Reassembled(c, pl) = Idle(d)
      /\ Decoded(gv).sets = Overlaid(Decoded(d).sets, h)
      /\ SameUnits(Decoded(d).slices, Decoded(gv).slices)
      /\ ~ap => Decoded(d).slices = Decoded(gv).slices
      /\ \A i \in DOMAIN pl : Sized(c, pl[i])
  BY DEF Agree
<1> HIDE DEF d
<1>2. /\ Whole(c, u) \in Seq(Parts)
      /\ \A i \in DOMAIN Whole(c, u) : Whole(c, u)[i].len <= Mtu
      /\ Reassembled(c, to) = Idle(e)
  BY <1>1, WholeArrives
<1>3. \A i \in DOMAIN Whole(c, u) : Sized(c, Whole(c, u)[i])
  <2>1. \A p \in Parts : p.len \in Nat
    BY DEF Parts
  <2>2. \A i \in DOMAIN Whole(c, u) : Whole(c, u)[i] \in Parts
    BY <1>2
  <2> QED  BY <1>2, <2>1, <2>2, PayloadAssumption DEF Sized
<1>4. to \in Seq(Parts) /\ \A i \in DOMAIN to : Sized(c, to[i])
  BY <1>1, <1>2, <1>3, BothSized
<1>5. e \in Seq(NalUnits) /\ hv \in Seq(NalUnits)
  BY <1>1, AppendProperties
<1>6. /\ Decoded(e).sets = Decoded(d).sets /\ Decoded(hv).sets = Decoded(gv).sets
      /\ u.type = "slice" =>
            /\ Decoded(e).slices = Append(Decoded(d).slices, [unit |-> u, sets |-> Decoded(d).sets])
            /\ Decoded(hv).slices
                 = Append(Decoded(gv).slices, [unit |-> u, sets |-> Decoded(gv).sets])
      /\ u.type # "slice" =>
            Decoded(e).slices = Decoded(d).slices /\ Decoded(hv).slices = Decoded(gv).slices
  BY <1>1, OtherSeen
<1> HIDE DEF e, to, hv, aq
<1>7. Reached(c, to) = e
  BY <1>2 DEF Reached, Idle
<1>8. /\ SameUnits(Decoded(e).slices, Decoded(hv).slices)
      /\ ~aq => Decoded(e).slices = Decoded(hv).slices
  <2>1. CASE u.type = "slice"
    <3>1. PICK x : x = [unit |-> u, sets |-> Decoded(d).sets]
      OBVIOUS
    <3>2. PICK y : y = [unit |-> u, sets |-> Decoded(gv).sets]
      OBVIOUS
    <3>3. x \in Seen /\ y \in Seen /\ x.unit = y.unit
      BY <1>1, <3>1, <3>2, DecodedTypes DEF Seen
    <3>4. Decoded(d).slices \in Seq(Seen) /\ Decoded(gv).slices \in Seq(Seen)
      BY <1>1, DecodedTypes
    <3>5. SameUnits(Append(Decoded(d).slices, x), Append(Decoded(gv).slices, y))
      BY <1>1, <3>3, <3>4, SameAppended
    <3>6. ASSUME ~aq PROVE x = y /\ Decoded(d).slices = Decoded(gv).slices
      <4>1. ~ap /\ h = Nothing
        BY <2>1, <3>6 DEF aq
      <4>2. Decoded(gv).sets = Decoded(d).sets
        BY <1>1, <4>1, NothingOver, DecodedTypes
      <4> QED  BY <1>1, <3>1, <3>2, <4>1, <4>2
    <3> QED  BY <1>6, <2>1, <3>1, <3>2, <3>5, <3>6
  <2>2. CASE u.type # "slice"
    BY <1>1, <1>6, <2>2 DEF aq
  <2> QED  BY <2>1, <2>2
<1>9. aq \in BOOLEAN
  BY DEF aq
<1>10. Agree(c, h, to, hv, aq)
  BY <1>1, <1>2, <1>4, <1>5, <1>6, <1>7, <1>8, <1>9 DEF Agree
<1> QED  BY <1>10 DEF to, hv, aq

\* A parameter set is held back.
LEMMA HeldAgrees ==
    ASSUME NEW c, NEW h, NEW pl, NEW gv, NEW ap, Agree(c, h, pl, gv, ap),
           NEW u \in NalUnits, u.type \in SetTypes, IsSet(c, u)
    PROVE  Agree(c, [h EXCEPT ![u.type] = u], pl, Append(gv, u), ap)
<1> DEFINE d == Reached(c, pl)
           g == [h EXCEPT ![u.type] = u]
<1>1. /\ HeldOK(c, h) /\ gv \in Seq(NalUnits) /\ d \in Seq(NalUnits)
      /\ Decoded(gv).sets = Overlaid(Decoded(d).sets, h)
  BY DEF Agree
<1>2. h \in InForce /\ u # NoUnit
  BY <1>1, UnitFields DEF HeldOK
<1>3. HeldOK(c, g)
  BY <1>1, <1>2 DEF HeldOK, InForce
<1>4. /\ Decoded(Append(gv, u)).sets = [Decoded(gv).sets EXCEPT ![u.type] = u]
      /\ Decoded(Append(gv, u)).slices = Decoded(gv).slices
      /\ Append(gv, u) \in Seq(NalUnits)
  BY <1>1, SetSeen, AppendProperties
<1>5. \A sets : [Overlaid(sets, h) EXCEPT ![u.type] = u] = Overlaid(sets, g)
  BY <1>2 DEF Overlaid, InForce
<1>6. Decoded(Append(gv, u)).sets = Overlaid(Decoded(d).sets, g)
  BY <1>1, <1>4, <1>5
<1> HIDE DEF g
<1>7. Agree(c, g, pl, Append(gv, u), ap)
  BY <1>3, <1>4, <1>6 DEF Agree
<1> QED  BY <1>7 DEF g

\* A delimiter is dropped.
LEMMA DroppedAgrees ==
    ASSUME NEW c, NEW h, NEW pl, NEW gv, NEW ap, Agree(c, h, pl, gv, ap),
           NEW u \in NalUnits, u.type \notin SetTypes, u.type # "slice"
    PROVE  Agree(c, h, pl, Append(gv, u), ap)
<1>1. gv \in Seq(NalUnits)
  BY DEF Agree
<1>2. /\ Decoded(Append(gv, u)).sets = Decoded(gv).sets
      /\ Decoded(Append(gv, u)).slices = Decoded(gv).slices
      /\ Append(gv, u) \in Seq(NalUnits)
  BY <1>1, OtherSeen, AppendProperties
<1> QED  BY <1>2 DEF Agree

-----------------------------------------------------------------------------
(* The payloader *)

\* The H265 payloader sends a group when it is complete.
PayloadInv ==
    /\ Agree(codec, held, payloads, given, apart)
    /\ codec = "h265" => ~AllHeld(codec, held)
    /\ Len(given) <= MaxUnits

LEMMA PayloadInvHolds ==
    ASSUME PayloadInv
    PROVE  PayloadTypeOK /\ SlicesArrive
<1>1. Agree(codec, held, payloads, given, apart)
  BY DEF PayloadInv
<1>2. PayloadTypeOK
  BY <1>1 DEF PayloadInv, PayloadTypeOK, Agree, HeldOK, InForce, Codecs
<1>3. Decoded(Reached(codec, payloads)).slices \in Seq(Seen) /\ Decoded(given).slices \in Seq(Seen)
  BY <1>1, DecodedTypes DEF Agree
<1>4. SlicesArrive
  BY <1>1, <1>3 DEF SlicesArrive, Agree, Reached, SameUnits, Sized
<1> QED  BY <1>2, <1>4

LEMMA PayloadStarts ==
    ASSUME PayloadInit
    PROVE  PayloadInv
<1>1. /\ codec \in Codecs /\ given = <<>> /\ payloads = <<>> /\ apart = FALSE
      /\ held = Nothing
  BY DEF PayloadInit, Codecs
<1>2. <<>> \in Seq(Parts) /\ <<>> \in Seq(NalUnits) /\ DOMAIN <<>> = {} /\ Len(<<>>) = 0
  OBVIOUS
<1>3. Reassembled(codec, payloads) = NoneYet /\ Decoded(<<>>) = Fresh
  BY <1>1, <1>2, ReassembledStep, DecodedStep
<1>4. Reached(codec, payloads) = <<>> /\ NoneYet = Idle(<<>>)
  BY <1>3 DEF Reached, NoneYet, Idle
<1>5. Fresh.sets = Nothing /\ Fresh.slices = <<>> /\ Overlaid(Nothing, Nothing) = Nothing
  BY UnitFields, NothingOver DEF Fresh
<1>6. HeldOK(codec, Nothing) /\ ~AllHeld(codec, Nothing)
  BY <1>1, NothingOver
<1>7. SameUnits(<<>>, <<>>)
  BY <1>2 DEF SameUnits
<1>8. Agree(codec, held, payloads, given, apart)
  BY <1>1, <1>2, <1>3, <1>4, <1>5, <1>6, <1>7 DEF Agree
<1> QED  BY <1>1, <1>2, <1>6, <1>8, PayloadAssumption DEF PayloadInv

\* Which units are parameter sets of a codec.
LEMMA KindsOfUnits ==
    ASSUME NEW u, u.type \in {"slice", "delimiter"}
    PROVE  u.type \notin SetTypes /\ \A c \in Codecs : ~IsSet(c, u)
<1>1. \A c \in Codecs : \A i \in DOMAIN Sets(c) : Sets(c)[i] \in SetTypes
  BY DEF Sets, SetTypes
<1>2. u.type \notin SetTypes
  BY DEF SetTypes
<1> QED  BY <1>1, <1>2 DEF IsSet

LEMMA PayloadKeeps ==
    ASSUME PayloadInv, NEW u \in NalUnits, Len(given) < MaxUnits, Payload(u),
           \/ u.type \in SetTypes /\ IsSet(codec, u)
           \/ u.type \in {"slice", "delimiter"}
    PROVE  PayloadInv'
<1> DEFINE late == u.type = "slice" /\ held # Nothing /\ ~AllHeld(codec, held)
<1>1. /\ Agree(codec, held, payloads, given, apart) /\ codec \in Codecs
      /\ given \in Seq(NalUnits) /\ payloads \in Seq(Parts) /\ held \in InForce
      /\ apart \in BOOLEAN /\ Reached(codec, payloads) \in Seq(NalUnits)
      /\ HeldOK(codec, held) /\ Reassembled(codec, payloads) = Idle(Reached(codec, payloads))
  BY DEF PayloadInv, Agree, HeldOK
<1>2. codec' = codec /\ given' = Append(given, u) /\ apart' = (apart \/ late)
  BY DEF Payload
<1>3. Len(given') <= MaxUnits
  BY <1>1, <1>2, PayloadAssumption
<1>4. CASE codec = "h264"
  <2>1. PayloadH264(u)
    BY <1>4 DEF Payload
  <2>2. CASE u.type = "delimiter"
    <3>1. held' = held /\ payloads' = payloads
      BY <2>1, <2>2 DEF PayloadH264
    <3>2. Agree(codec, held, payloads, Append(given, u), apart) /\ (apart \/ late) = apart
      BY <1>1, <2>2, KindsOfUnits, DroppedAgrees
    <3> QED  BY <1>2, <1>3, <1>4, <3>1, <3>2 DEF PayloadInv
  <2>3. CASE u.type \in SetTypes /\ IsSet(codec, u)
    <3>1. u.type # "delimiter" /\ u.type # "slice"
      BY <2>3 DEF SetTypes
    <3>2. held' = [held EXCEPT ![u.type] = u] /\ payloads' = payloads
      BY <1>4, <2>1, <2>3, <3>1 DEF PayloadH264
    <3>3. Agree(codec, [held EXCEPT ![u.type] = u], payloads, Append(given, u), apart)
          /\ (apart \/ late) = apart
      BY <1>1, <2>3, <3>1, HeldAgrees
    <3> QED  BY <1>2, <1>3, <1>4, <3>2, <3>3 DEF PayloadInv
  <2>4. CASE u.type = "slice" /\ AllHeld(codec, held)
    <3>1. ~IsSet("h264", u) /\ u.type # "delimiter" /\ u.type \notin SetTypes
      BY <2>4, KindsOfUnits DEF Codecs
    <3>2. held' = Nothing /\ payloads' = (payloads \o Grouped(codec, held)) \o Whole(codec, u)
      BY <1>4, <2>1, <2>4, <3>1 DEF PayloadH264
    <3>3. Agree(codec, Nothing, payloads \o Grouped(codec, held), given, apart)
      BY <1>1, <2>4, GroupAgrees
    <3>4. Agree(codec, Nothing, (payloads \o Grouped(codec, held)) \o Whole(codec, u),
                Append(given, u), apart \/ (u.type = "slice" /\ Nothing # Nothing))
      BY <3>1, <3>3, WholeAgrees
    <3>5. (apart \/ (u.type = "slice" /\ Nothing # Nothing)) = apart /\ (apart \/ late) = apart
      BY <1>1, <2>4
    <3> QED  BY <1>2, <1>3, <1>4, <3>2, <3>4, <3>5 DEF PayloadInv
  <2>5. CASE u.type = "slice" /\ ~AllHeld(codec, held)
    <3>1. ~IsSet("h264", u) /\ u.type # "delimiter" /\ u.type \notin SetTypes
      BY <2>5, KindsOfUnits DEF Codecs
    <3>2. held' = held /\ payloads' = payloads \o Whole(codec, u)
      BY <1>4, <2>1, <2>5, <3>1 DEF PayloadH264
    <3>3. Agree(codec, held, payloads \o Whole(codec, u),
                Append(given, u), apart \/ (u.type = "slice" /\ held # Nothing))
      BY <1>1, <3>1, WholeAgrees
    <3>4. (apart \/ (u.type = "slice" /\ held # Nothing)) = (apart \/ late)
      BY <1>1, <2>5
    <3> QED  BY <1>2, <1>3, <1>4, <3>2, <3>3, <3>4 DEF PayloadInv
  <2> QED  BY <2>2, <2>3, <2>4, <2>5
<1>5. CASE codec = "h265"
  <2>1. PayloadH265(u) /\ ~AllHeld(codec, held)
    BY <1>5 DEF Payload, PayloadInv
  <2>2. CASE u.type \in {"slice", "delimiter"}
    <3>1. ~IsSet("h265", u) /\ u.type \notin SetTypes
      BY <2>2, KindsOfUnits DEF Codecs
    <3>2. held' = held /\ payloads' = payloads \o Whole(codec, u)
      BY <1>5, <2>1, <3>1 DEF PayloadH265
    <3>3. Agree(codec, held, payloads \o Whole(codec, u),
                Append(given, u), apart \/ (u.type = "slice" /\ held # Nothing))
      BY <1>1, <3>1, WholeAgrees
    <3>4. (apart \/ (u.type = "slice" /\ held # Nothing)) = (apart \/ late)
      BY <1>1, <2>1
    <3> QED  BY <1>2, <1>3, <2>1, <3>2, <3>3, <3>4 DEF PayloadInv
  <2>3. CASE u.type \in SetTypes /\ IsSet(codec, u)
    <3> DEFINE h == [held EXCEPT ![u.type] = u]
    <3>1. u.type # "slice"
      BY <2>3 DEF SetTypes
    <3>2. Agree(codec, h, payloads, Append(given, u), apart) /\ (apart \/ late) = apart
      BY <1>1, <2>3, <3>1, HeldAgrees
    <3>3. IF AllHeld(codec, h)
          THEN held' = Nothing /\ payloads' = payloads \o Grouped(codec, h)
          ELSE held' = h /\ payloads' = payloads
      BY <1>5, <2>1, <2>3 DEF PayloadH265
    <3> HIDE DEF h
    <3>4. CASE AllHeld(codec, h)
      <4>1. Agree(codec, Nothing, payloads \o Grouped(codec, h), Append(given, u), apart)
        BY <3>2, <3>4, GroupAgrees
      <4>2. ~AllHeld(codec, Nothing)
        BY <1>1, NothingOver
      <4> QED  BY <1>2, <1>3, <3>2, <3>3, <3>4, <4>1, <4>2 DEF PayloadInv
    <3>5. CASE ~AllHeld(codec, h)
      BY <1>2, <1>3, <3>2, <3>3, <3>5 DEF PayloadInv
    <3> QED  BY <3>4, <3>5
  <2> QED  BY <2>2, <2>3, <1>5
<1> QED  BY <1>1, <1>4, <1>5 DEF Codecs

LEMMA PayloadSteps ==
    ASSUME PayloadInv, [PayloadNext]_payloadVars
    PROVE  PayloadInv'
<1>1. CASE UNCHANGED payloadVars
  BY <1>1 DEF PayloadInv, payloadVars
<1>2. CASE PayloadNext
  <2>1. Len(given) < MaxUnits /\ Len(given) + 1 \in Nat
    BY <1>2 DEF PayloadNext, PayloadInv, Agree
  <2>2. ASSUME NEW t \in SetTypes, NEW n \in SetLengths, IsSet(codec, [type |-> t]),
               Payload([type |-> t, id |-> Len(given) + 1, len |-> n])
        PROVE  PayloadInv'
    <3>1. PICK u : u = [type |-> t, id |-> Len(given) + 1, len |-> n]
      OBVIOUS
    <3>2. u \in NalUnits
      BY <2>1, <3>1, PayloadAssumption DEF NalUnits
    <3>3. u.type = t /\ IsSet(codec, u)
      BY <2>2, <3>1 DEF IsSet
    <3> QED  BY <2>1, <2>2, <3>1, <3>2, <3>3, PayloadKeeps
  <2>3. ASSUME NEW n \in SliceLengths,
               Payload([type |-> "slice", id |-> Len(given) + 1, len |-> n])
        PROVE  PayloadInv'
    <3>1. PICK u : u = [type |-> "slice", id |-> Len(given) + 1, len |-> n]
      OBVIOUS
    <3>2. u \in NalUnits /\ u.type = "slice"
      BY <2>1, <3>1, PayloadAssumption DEF NalUnits
    <3> QED  BY <2>1, <2>3, <3>1, <3>2, PayloadKeeps
  <2>4. ASSUME Payload([type |-> "delimiter", id |-> Len(given) + 1, len |-> 2])
        PROVE  PayloadInv'
    <3>1. PICK u : u = [type |-> "delimiter", id |-> Len(given) + 1, len |-> 2]
      OBVIOUS
    <3>2. u \in NalUnits /\ u.type = "delimiter"
      BY <2>1, <3>1 DEF NalUnits
    <3> QED  BY <2>1, <2>4, <3>1, <3>2, PayloadKeeps
  <2> QED  BY <1>2, <2>2, <2>3, <2>4 DEF PayloadNext
<1> QED  BY <1>1, <1>2

\* The types of the payloader (h264/payloader.rs, h265/payloader.rs).
THEOREM PayloadersTyped == PayloadSpec => []PayloadTypeOK
<1>1. PayloadInit => PayloadInv
  BY PayloadStarts
<1>2. PayloadInv /\ [PayloadNext]_payloadVars => PayloadInv'
  BY PayloadSteps
<1>3. PayloadInv => PayloadTypeOK
  BY PayloadInvHolds
<1> QED  BY <1>1, <1>2, <1>3, PTL DEF PayloadSpec

\* Every slice given to a payloader reaches the receiver whole, in order and with the
\* parameter sets it was meant for, however long units are and whatever the MTU is
\* (payload() of h264/payloader.rs and h265/payloader.rs).
THEOREM SlicesAllArrive == PayloadSpec => []SlicesArrive
<1>1. PayloadInit => PayloadInv
  BY PayloadStarts
<1>2. PayloadInv /\ [PayloadNext]_payloadVars => PayloadInv'
  BY PayloadSteps
<1>3. PayloadInv => SlicesArrive
  BY PayloadInvHolds
<1> QED  BY <1>1, <1>2, <1>3, PTL DEF PayloadSpec
=============================================================================
