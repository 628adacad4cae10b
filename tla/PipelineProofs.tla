--------------------------- MODULE PipelineProofs ---------------------------
(***************************************************************************)
(* What holds of a call's media, its speech gate, its tool calls, its      *)
(* record, its speech-to-text stream, the LLM's reply, its text's chunks   *)
(* and the jitter buffer for any number of frames, calls, nodes,           *)
(* connections, retries, packets, tokens and failures.  The modules share  *)
(* no state: each has an invariant and theorems of its own.                *)
(***************************************************************************)
EXTENDS MediaPipeline, SpeechGate, ToolCalls, CallRecord, SttStream, LlmStream, JitterBuffer,
        SentenceChunker, SequenceTheorems, WellFoundedInduction, TLAPS

-----------------------------------------------------------------------------
(* The media goroutines: FramesInOrder. *)

\* The inbound queue holds later frames than the Handler was given, in order.
QueueInOrder ==
    /\ inbound \in Seq(1 .. MaxFrames)
    /\ \A i \in 1 .. Len(inbound) : lastIn < inbound[i] /\ inbound[i] <= framesIn
    /\ \A i, j \in 1 .. Len(inbound) : i < j => inbound[i] < inbound[j]
    /\ lastIn <= framesIn

\* The recorder is closed by Run's return, which waits for the loops.
LoopsFirst ==
    /\ ~recorderOpen => running = "closed"
    /\ running = "closed" => LoopsDone /\ ~ctxLive

\* Run stops serving only after its context is cancelled.
PacersFollow ==
    /\ running # "serving" => ~ctxLive
    /\ ctxLive \in BOOLEAN /\ recorderOpen \in BOOLEAN /\ reading \in BOOLEAN

MediaInv == MediaTypeOK /\ QueueInOrder /\ LoopsFirst /\ PacersFollow

\* A tick that begins finds its loop idle, so a loop that is done stays so.
LEMMA LoopsStayDone == LoopsFirst /\ PacersFollow /\ [MediaNext]_mediaVars => (LoopsFirst /\ PacersFollow)'
<1>. SUFFICES ASSUME LoopsFirst, PacersFollow, [MediaNext]_mediaVars PROVE (LoopsFirst /\ PacersFollow)'
  OBVIOUS
<1>. USE DEF LoopsFirst, PacersFollow, LoopsDone, wireVars, loopVars, queueVars, watchVars, runVars, mediaVars
<1>1. ASSUME UNCHANGED <<loopVars, runVars>> PROVE (LoopsFirst /\ PacersFollow)'
  BY <1>1
<1>1a. CASE CancelMedia
  BY <1>1a DEF CancelMedia
<1>2. FarEndStalls \/ FarEndHangsUp \/ RtpReads \/ FramedReads => UNCHANGED <<loopVars, runVars>>
  BY DEF FarEndStalls, FarEndHangsUp, RtpReads, FramedReads
<1>2a. CASE ReaderEnds
  BY <1>2a DEF ReaderEnds
<1>3. CASE ReleaseSteps
  BY <1>3 DEF ReleaseSteps, ReleaserStops, ReleaseTickBegins, ReleaseTickEnds
<1>4. CASE WriteSteps
  BY <1>4 DEF WriteSteps, WriterStops, WriteTickBegins, TakeOutbound, WriteSucceeds, FrameWriteFails, Framed
<1>5. CASE RunStops
  BY <1>5 DEF RunStops
<1>5a. CASE RunCloses
  BY <1>5a DEF RunCloses
<1>6. CASE SilencePasses \/ WatchdogPolls
  BY <1>6 DEF SilencePasses, WatchdogPolls
<1>7. CASE UNCHANGED mediaVars
  BY <1>7
<1>. QED BY <1>1, <1>1a, <1>2, <1>2a, <1>3, <1>4, <1>5, <1>5a, <1>6, <1>7 DEF MediaNext, RunStepsMedia

\* Reading appends the newest frame, a release takes the oldest.
LEMMA QueueStaysInOrder == MediaInv /\ [MediaNext]_mediaVars => (MediaTypeOK /\ QueueInOrder)'
<1>. SUFFICES ASSUME MediaInv, [MediaNext]_mediaVars PROVE (MediaTypeOK /\ QueueInOrder)'
  OBVIOUS
<1>. USE PipelineAssumption DEF MediaInv, MediaTypeOK, QueueInOrder, wireVars, loopVars, queueVars, watchVars, runVars, mediaVars
<1>1. CASE FarEndStalls \/ FarEndHangsUp \/ CancelMedia
  BY <1>1 DEF FarEndStalls, FarEndHangsUp, CancelMedia
<1>2. CASE RtpReads \/ ReaderEnds
  BY <1>2 DEF RtpReads, ReaderEnds
<1>3. CASE FramedReads
  <2>. USE <1>3 DEF FramedReads
  <2>1. framesIn' = framesIn + 1 /\ framesIn' \in 1 .. MaxFrames /\ lastIn' = lastIn
    OBVIOUS
  <2>2. CASE Len(inbound) < QueueCap
    <3>1. inbound' = Append(inbound, framesIn + 1)
      BY <2>2 DEF Offer
    <3>0. framesIn + 1 \in 1 .. MaxFrames /\ inbound \in Seq(1 .. MaxFrames)
      BY <2>1
    <3>. HIDE <1>3 DEF FramedReads, mediaVars
    <3>2. inbound' \in Seq(1 .. MaxFrames) /\ Len(inbound') = Len(inbound) + 1
      BY <3>1, <3>0
    <3>3. \A i \in 1 .. Len(inbound) : inbound'[i] = inbound[i]
      BY <3>1
    <3>4. inbound'[Len(inbound) + 1] = framesIn + 1
      BY <3>1
    <3>5. \A i \in 1 .. Len(inbound) : inbound[i] \in 1 .. MaxFrames
      OBVIOUS
    <3>. DEFINE n == Len(inbound)
    <3>5a. n \in Nat /\ lastIn \in Nat /\ framesIn \in Nat /\ lastIn <= framesIn
          /\ Len(inbound') = n + 1 /\ inbound'[n + 1] = framesIn + 1
      BY <3>0, <3>2, <3>4
    <3>5b. \A i \in 1 .. n : inbound'[i] = inbound[i] /\ inbound[i] \in Nat
                             /\ lastIn < inbound[i] /\ inbound[i] <= framesIn
      BY <3>3, <3>5
    <3>5c. \A i, j \in 1 .. n : i < j => inbound[i] < inbound[j]
      OBVIOUS
    <3>. HIDE DEF n, QueueInOrder, MediaInv
    <3>6. \A i, j \in 1 .. Len(inbound') : i < j => inbound'[i] < inbound'[j]
      <4>. SUFFICES ASSUME NEW i \in 1 .. n + 1, NEW j \in 1 .. n + 1, i < j PROVE inbound'[i] < inbound'[j]
        BY <3>5a
      <4>1. CASE j = n + 1
        BY <4>1, <3>5a, <3>5b
      <4>2. CASE j \in 1 .. n
        BY <4>2, <3>5a, <3>5b, <3>5c
      <4>. QED BY <4>1, <4>2, <3>5a
    <3>7. \A i \in 1 .. Len(inbound') : lastIn < inbound'[i] /\ inbound'[i] <= framesIn + 1
      <4>. SUFFICES ASSUME NEW i \in 1 .. n + 1 PROVE lastIn < inbound'[i] /\ inbound'[i] <= framesIn + 1
        BY <3>5a
      <4>1. CASE i = n + 1
        BY <4>1, <3>5a
      <4>2. CASE i \in 1 .. n
        BY <4>2, <3>5a, <3>5b
      <4>. QED BY <4>1, <4>2, <3>5a
    <3>8. transport' = transport /\ farEnd' = farEnd /\ outbound' = outbound
          /\ UNCHANGED <<releasing, writing, running>>
      BY <1>3 DEF FramedReads
    <3>. QED BY <2>1, <2>2, <3>2, <3>6, <3>7, <3>8 DEF QueueInOrder, MediaInv
  <2>3. CASE ~(Len(inbound) < QueueCap)
    BY <2>1, <2>3 DEF Offer
  <2>. QED BY <2>2, <2>3
<1>4. CASE ReleaserStops \/ ReleaseTickBegins
  BY <1>4 DEF ReleaserStops, ReleaseTickBegins
<1>5. ASSUME NEW answers \in BOOLEAN, ReleaseTickEnds(answers) PROVE (MediaTypeOK /\ QueueInOrder)'
  <2>. USE <1>5 DEF ReleaseTickEnds, TakeInbound
  <2>1. outbound' \in 0 .. QueueCap /\ framesIn' = framesIn
    OBVIOUS
  <2>2. CASE inbound = <<>>
    BY <2>1, <2>2
  <2>3. CASE inbound # <<>>
    <3>1. inbound' = Tail(inbound) /\ lastIn' = inbound[1] /\ Len(inbound) > 0
      BY <2>3
    <3>2. inbound' \in Seq(1 .. MaxFrames) /\ Len(inbound') = Len(inbound) - 1
      BY <3>1
    <3>3. \A i \in 1 .. Len(inbound') : inbound'[i] = inbound[i + 1]
      BY <3>1
    <3>4. \A i \in 1 .. Len(inbound) : inbound[i] \in 1 .. MaxFrames
      OBVIOUS
    <3>. QED BY <2>1, <3>1, <3>2, <3>3, <3>4
  <2>. QED BY <2>2, <2>3
<1>6. CASE WriteSteps
  BY <1>6 DEF WriteSteps, WriterStops, WriteTickBegins, TakeOutbound, WriteSucceeds, FrameWriteFails
<1>7. CASE RunStepsMedia
  BY <1>7 DEF RunStepsMedia, RunStops, RunCloses
<1>8. CASE SilencePasses \/ WatchdogPolls
  BY <1>8 DEF SilencePasses, WatchdogPolls
<1>9. CASE UNCHANGED mediaVars
  BY <1>9
<1>. QED BY <1>1, <1>2, <1>3, <1>4, <1>5, <1>6, <1>7, <1>8, <1>9 DEF MediaNext, ReleaseSteps

\* The Handler of a call hears the caller's frames in order and none twice,
\* and the recorder is closed after the last tick that writes to it, for any
\* transport, queue and number of frames.
THEOREM HandlerHearsInOrder == MediaSpec => []FramesInOrder
<1>1. MediaInit => MediaInv
  BY PipelineAssumption DEF MediaInit, MediaInv, MediaTypeOK, QueueInOrder, LoopsFirst, LoopsDone, PacersFollow
<1>2. MediaInv /\ [MediaNext]_mediaVars => MediaInv'
  BY LoopsStayDone, QueueStaysInOrder DEF MediaInv
<1>3. MediaInv => FramesInOrder
  <2>. SUFFICES ASSUME MediaInv PROVE FramesInOrder
    OBVIOUS
  <2>1. RecorderClosedLast
    BY DEF MediaInv, LoopsFirst, LoopsDone, RecorderClosedLast
  <2>2. InboundInOrder
    <3>. DEFINE line == <<lastIn>> \o inbound
    <3>1. inbound \in Seq(1 .. MaxFrames) /\ lastIn \in 0 .. MaxFrames
      BY DEF MediaInv, QueueInOrder, MediaTypeOK
    <3>2. Len(line) = Len(inbound) + 1 /\ DOMAIN line = 1 .. Len(inbound) + 1
      BY <3>1
    <3>3. line[1] = lastIn /\ \A i \in 2 .. Len(inbound) + 1 : line[i] = inbound[i - 1]
      BY <3>1
    <3>4. \A i, j \in 1 .. Len(inbound) + 1 : i < j => line[i] < line[j]
      <4>. SUFFICES ASSUME NEW i \in 1 .. Len(inbound) + 1, NEW j \in 1 .. Len(inbound) + 1, i < j
                    PROVE line[i] < line[j]
        OBVIOUS
      <4>. HIDE DEF line
      <4>1. j - 1 \in 1 .. Len(inbound) /\ line[j] = inbound[j - 1]
        BY <3>1, <3>3
      <4>2. CASE i = 1
        BY <4>1, <4>2, <3>3 DEF MediaInv, QueueInOrder
      <4>3. CASE i # 1
        <5>1. i - 1 \in 1 .. Len(inbound) /\ line[i] = inbound[i - 1] /\ i - 1 < j - 1
          BY <4>3, <3>1, <3>3
        <5>. QED BY <4>1, <5>1 DEF MediaInv, QueueInOrder
      <4>. QED BY <4>2, <4>3
    <3>. QED BY <3>2, <3>4 DEF InboundInOrder
  <2>. QED BY <2>1, <2>2 DEF FramesInOrder, MediaInv
<1>. QED BY <1>1, <1>2, <1>3, PTL DEF MediaSpec

-----------------------------------------------------------------------------
(* The speech gate: GateFeeds. *)

\* Where the ring keeps the i-th of its frames, oldest first.
Kept(i) == (head - count + i - 1 + Preroll) % Preroll

GateTyped ==
    /\ frameNo \in Nat /\ head \in 0 .. Preroll - 1 /\ count \in 0 .. Preroll
    /\ ring \in [0 .. Preroll - 1 -> Nat] /\ gateOpen \in BOOLEAN
    /\ fed \in Seq(Nat) /\ lastSent \in Int /\ lastVoiced \in Int
    /\ count <= frameNo

\* The ring holds the last frames, and none while the gate is open.
RingHoldsLast ==
    /\ gateOpen => count = 0
    /\ \A i \in 1 .. count : ring[Kept(i)] = frameNo - count + i

WasFed(n) == \E i \in DOMAIN fed : fed[i] = n

\* Before the frames the ring holds, and unless it is full, there is a stretch
\* as long as the pre-roll that went out.
PrerollFed ==
    count < Preroll => \A n \in 1 .. frameNo - count : n >= frameNo - count - Preroll => WasFed(n)

\* What went out is older than what the ring holds.
FedIsOlder == \A i \in DOMAIN fed : fed[i] <= frameNo - count

GateInv == GateTyped /\ RingHoldsLast /\ PrerollFed /\ FedIsOlder /\ GateFeeds

\* The remainder by the pre-roll, for the places the code computes.
LEMMA AroundTheRing ==
    ASSUME NEW x \in 0 .. 2 * Preroll - 1
    PROVE  x % Preroll = IF x < Preroll THEN x ELSE x - Preroll
<1>. USE GateAssumption
<1>1. CASE x < Preroll
  BY <1>1
<1>2. CASE ~(x < Preroll)
  BY <1>2
<1>. QED BY <1>1, <1>2

\* Where a kept frame is, without the remainder.
LEMMA KeptPlace ==
    ASSUME GateTyped, NEW i \in 1 .. count
    PROVE  /\ Kept(i) = IF head - count + i - 1 < 0 THEN head - count + i - 1 + Preroll ELSE head - count + i - 1
           /\ Kept(i) \in 0 .. Preroll - 1
<1>1. head - count + i - 1 + Preroll \in 0 .. 2 * Preroll - 1
  BY GateAssumption DEF GateTyped
<1>. DEFINE x == head - count + i - 1 + Preroll
<1>2. x % Preroll = IF x < Preroll THEN x ELSE x - Preroll
  BY <1>1, AroundTheRing
<1>3. Kept(i) = x % Preroll
  BY DEF Kept
<1>. QED BY <1>1, <1>2, <1>3, GateAssumption DEF GateTyped

\* push: the ring holds one frame more, or the same number without its oldest.
LEMMA PushHolds ==
    ASSUME GateTyped, RingHoldsLast, frameNo' = frameNo + 1, PushFrame(frameNo + 1)
    PROVE  /\ head' \in 0 .. Preroll - 1 /\ ring' \in [0 .. Preroll - 1 -> Nat]
           /\ count' = IF count < Preroll THEN count + 1 ELSE count
           /\ \A i \in 1 .. count' : ring'[Kept(i)'] = frameNo + 1 - count' + i
<1>. USE GateAssumption
<1>1. head' = IF head + 1 < Preroll THEN head + 1 ELSE 0
  <2>1. head + 1 \in 0 .. 2 * Preroll - 1
    BY DEF GateTyped
  <2>2. PICK y \in 0 .. 2 * Preroll - 1 : y = head + 1
    BY <2>1
  <2>3. y % Preroll = IF y < Preroll THEN y ELSE y - Preroll
    BY AroundTheRing
  <2>. QED BY <2>2, <2>3 DEF PushFrame, GateTyped
<1>2. count' = IF count < Preroll THEN count + 1 ELSE count
  BY DEF PushFrame, Smaller, GateTyped
<1>3. ring' \in [0 .. Preroll - 1 -> Nat] /\ ring'[head] = frameNo + 1
      /\ \A k \in 0 .. Preroll - 1 : k # head => ring'[k] = ring[k]
  BY DEF PushFrame, GateTyped
<1>4. ASSUME NEW i \in 1 .. count' PROVE ring'[Kept(i)'] = frameNo + 1 - count' + i
  <2>. DEFINE x == head' - count' + i - 1 + Preroll
  <2>1. x \in 0 .. 2 * Preroll - 1
    BY <1>1, <1>2 DEF GateTyped
  <2>2. x % Preroll = IF x < Preroll THEN x ELSE x - Preroll
    BY <2>1, AroundTheRing
  <2>3. Kept(i)' = x % Preroll
    BY DEF Kept
  <2>4. CASE i = count'
    <3>1. Kept(i)' = head
      BY <1>1, <1>2, <2>2, <2>3, <2>4 DEF GateTyped
    <3>. QED BY <1>2, <1>3, <2>4, <3>1 DEF GateTyped
  <2>5. CASE i < count' /\ count < Preroll
    <3>1. i \in 1 .. count /\ count' = count + 1
      BY <1>2, <2>5 DEF GateTyped
    <3>. DEFINE y == head - count + i - 1
    <3>4. Kept(i) \in 0 .. Preroll - 1 /\ Kept(i) = IF y < 0 THEN y + Preroll ELSE y
      BY <3>1, KeptPlace
    <3>5. Kept(i) # head
      BY <3>1, <3>4, <2>5 DEF GateTyped
    <3>6. Kept(i)' = IF x < Preroll THEN x ELSE x - Preroll
      BY <2>2, <2>3
    <3>7. x = IF head + 1 < Preroll THEN y + Preroll ELSE y
      BY <1>1, <3>1 DEF GateTyped
    <3>8. y \in Int /\ y < head /\ head \in 0 .. Preroll - 1 /\ x \in Int /\ y >= head + 1 - Preroll
      BY <2>1, <2>5, <3>1 DEF GateTyped
    <3>. HIDE DEF x, y
    <3>2. Kept(i)' = Kept(i) /\ Kept(i) # head
      BY <3>4, <3>5, <3>6, <3>7, <3>8
    <3>3. ring'[Kept(i)'] = ring[Kept(i)]
      BY <1>3, <3>2, <3>4
    <3>. QED BY <3>1, <3>3 DEF RingHoldsLast, GateTyped
  <2>6. CASE i < count' /\ ~(count < Preroll)
    <3>1. i + 1 \in 1 .. count /\ count' = count /\ count = Preroll
      BY <1>2, <2>6 DEF GateTyped
    <3>4. PICK j \in 1 .. count : j = i + 1
      BY <3>1
    <3>5. Kept(j) \in 0 .. Preroll - 1
          /\ Kept(j) = IF head - count + j - 1 < 0 THEN head - count + j - 1 + Preroll ELSE head - count + j - 1
      BY KeptPlace
    <3>2. Kept(i)' = Kept(j) /\ Kept(j) # head
      BY <1>1, <2>2, <2>3, <2>6, <3>1, <3>4, <3>5 DEF GateTyped
    <3>3. ring'[Kept(i)'] = ring[Kept(j)]
      BY <1>3, <3>2, <3>5
    <3>6. ring[Kept(j)] = frameNo - count + j
      BY DEF RingHoldsLast
    <3>. QED BY <3>1, <3>3, <3>4, <3>6 DEF GateTyped
  <2>. QED BY <1>2, <2>4, <2>5, <2>6 DEF GateTyped
<1>. QED BY <1>1, <1>2, <1>3, <1>4 DEF GateTyped

\* sendPreroll: the frames go out oldest first, ending with the one before.
LEMMA PrerollInOrder ==
    ASSUME GateTyped, RingHoldsLast
    PROVE  /\ PrerollFrames \in Seq(Nat) /\ Len(PrerollFrames) = count
           /\ \A i \in 1 .. count : PrerollFrames[i] = frameNo - count + i
<1>1. PrerollFrames = [i \in 1 .. count |-> ring[Kept(i)]]
  BY DEF PrerollFrames, Kept
<1>2. \A i \in 1 .. count : ring[Kept(i)] = frameNo - count + i /\ frameNo - count + i \in Nat
  BY DEF RingHoldsLast, GateTyped
<1>3. count \in Nat
  BY GateAssumption DEF GateTyped
<1>. QED BY <1>1, <1>2, <1>3

\* A frame of speech, or within the hangover, goes out live.
LEMMA LiveFrame ==
    ASSUME GateInv, frameNo' = frameNo + 1, gateOpen, gateOpen' = TRUE, Send(<<frameNo + 1>>, frameNo + 1),
           UNCHANGED <<ring, head, count>>, lastVoiced' \in Int, wanted' \subseteq wanted \cup {frameNo + 1}
    PROVE  GateInv'
<1>. USE GateAssumption DEF GateInv
<1>1. /\ fed' \in Seq(Nat) /\ Len(fed') = Len(fed) + 1 /\ fed'[Len(fed) + 1] = frameNo + 1
      /\ \A i \in 1 .. Len(fed) : fed'[i] = fed[i]
  BY DEF Send, GateTyped
<1>2. count = 0 /\ count' = 0 /\ lastSent' = frameNo + 1
  BY DEF RingHoldsLast, Send
<1>3. GateTyped'
  BY <1>1, <1>2 DEF GateTyped
<1>4. RingHoldsLast'
  BY <1>2 DEF RingHoldsLast
<1>5. /\ DOMAIN fed = 1 .. Len(fed) /\ DOMAIN fed' = 1 .. Len(fed) + 1 /\ Len(fed) \in Nat
      /\ \A i \in 1 .. Len(fed) : fed[i] \in Nat /\ fed[i] <= frameNo
  BY <1>1, <1>2 DEF GateTyped, FedIsOlder
<1>6. \A n : WasFed(n) \/ n = frameNo + 1 => WasFed(n)'
  BY <1>1, <1>5 DEF WasFed
<1>11. PrerollFed'
  <2>. SUFFICES ASSUME NEW n \in 1 .. frameNo + 1, n >= frameNo + 1 - Preroll PROVE WasFed(n)'
    BY <1>2 DEF PrerollFed, GateTyped
  <2>. QED BY <1>2, <1>6 DEF PrerollFed, GateTyped
<1>7. FedIsOlder'
  <2>. SUFFICES ASSUME NEW i \in 1 .. Len(fed) + 1 PROVE fed'[i] <= frameNo + 1
    BY <1>2, <1>5 DEF FedIsOlder, GateTyped
  <2>1. CASE i \in 1 .. Len(fed)
    BY <1>1, <1>5, <2>1 DEF GateTyped
  <2>2. CASE i = Len(fed) + 1
    BY <1>1, <2>2 DEF GateTyped
  <2>. QED BY <1>5, <2>1, <2>2
<1>8. FedInOrder'
  <2>. SUFFICES ASSUME NEW i \in 1 .. Len(fed) + 1, NEW j \in 1 .. Len(fed) + 1, i < j,
                       0 \notin {fed'[i], fed'[j]}
                PROVE  fed'[i] < fed'[j]
    BY <1>5 DEF FedInOrder
  <2>1. i \in 1 .. Len(fed)
    BY <1>5
  <2>2. CASE j \in 1 .. Len(fed)
    BY <1>1, <1>5, <2>1, <2>2 DEF FedInOrder, GateFeeds
  <2>3. CASE j = Len(fed) + 1
    BY <1>1, <1>5, <2>1, <2>3 DEF GateTyped
  <2>. QED BY <1>5, <2>2, <2>3
<1>9. SpeechIsFed'
  BY <1>6 DEF SpeechIsFed, GateFeeds, WasFed
<1>10. KeptAlive'
  BY <1>2 DEF KeptAlive, GateTyped
<1>. QED BY <1>3, <1>4, <1>7, <1>8, <1>9, <1>10, <1>11 DEF GateFeeds

\* What goes out is what went out before, then more.
LEMMA FedGrows ==
    ASSUME NEW a \in Seq(Nat), NEW b \in Seq(Nat)
    PROVE  /\ a \o b \in Seq(Nat) /\ Len(a \o b) = Len(a) + Len(b)
           /\ DOMAIN (a \o b) = 1 .. Len(a) + Len(b)
           /\ \A i \in 1 .. Len(a) : (a \o b)[i] = a[i]
           /\ \A i \in 1 .. Len(b) : (a \o b)[Len(a) + i] = b[i]
<1>. DEFINE c == a \o b
<1>1. c \in Seq(Nat) /\ Len(c) = Len(a) + Len(b)
  BY ConcatProperties
<1>2. \A i \in 1 .. Len(c) : c[i] = IF i <= Len(a) THEN a[i] ELSE b[i - Len(a)]
  BY ConcatProperties
<1>3. Len(a) \in Nat /\ Len(b) \in Nat
  OBVIOUS
<1>4. ASSUME NEW i \in 1 .. Len(b) PROVE c[Len(a) + i] = b[i]
  <2>1. Len(a) + i \in 1 .. Len(c) /\ ~(Len(a) + i <= Len(a)) /\ Len(a) + i - Len(a) = i
    BY <1>1, <1>3
  <2>. QED BY <1>2, <2>1
<1>5. ASSUME NEW i \in 1 .. Len(a) PROVE c[i] = a[i]
  <2>1. i \in 1 .. Len(c) /\ i <= Len(a)
    BY <1>1, <1>3
  <2>. QED BY <1>2, <2>1
<1>6. DOMAIN c = 1 .. Len(c)
  BY <1>1
<1>. QED BY <1>1, <1>4, <1>5, <1>6

InOrder(s) == \A i, j \in 1 .. Len(s) : i < j /\ s[i] # 0 /\ s[j] # 0 => s[i] < s[j]
Holds(s, n) == \E i \in 1 .. Len(s) : s[i] = n

\* FedInOrder and WasFed, by length.
LEMMA FedByLength == ASSUME GateTyped PROVE (FedInOrder <=> InOrder(fed)) /\ \A n : WasFed(n) <=> Holds(fed, n)
<1>1. DOMAIN fed = 1 .. Len(fed)
  BY DEF GateTyped
<1>. QED BY <1>1 DEF FedInOrder, InOrder, WasFed, Holds

\* The same of the next state.
LEMMA FedByLengthNext == ASSUME GateTyped' PROVE (FedInOrder <=> InOrder(fed))' /\ \A n : WasFed(n)' <=> Holds(fed, n)'
<1>1. DOMAIN fed' = 1 .. Len(fed')
  BY DEF GateTyped
<1>. QED BY <1>1 DEF FedInOrder, InOrder, WasFed, Holds

\* More that is in order and newer than all that went out stays in order.
LEMMA OrderedJoin ==
    ASSUME NEW a \in Seq(Nat), NEW b \in Seq(Nat), NEW m \in Nat, InOrder(a), InOrder(b),
           \A i \in 1 .. Len(a) : a[i] <= m, \A i \in 1 .. Len(b) : b[i] # 0 => b[i] > m
    PROVE  InOrder(a \o b)
<1>. DEFINE c == a \o b
<1>1. /\ Len(c) = Len(a) + Len(b)
      /\ \A i \in 1 .. Len(a) : c[i] = a[i]
      /\ \A i \in 1 .. Len(b) : c[Len(a) + i] = b[i]
  BY FedGrows
<1>2. Len(a) \in Nat /\ Len(b) \in Nat
  OBVIOUS
<1>. SUFFICES ASSUME NEW i \in 1 .. Len(c), NEW j \in 1 .. Len(c), i < j, c[i] # 0, c[j] # 0 PROVE c[i] < c[j]
  BY DEF InOrder
<1>. HIDE DEF c
<1>3. CASE j \in 1 .. Len(a)
  <2>1. i \in 1 .. Len(a)
    BY <1>2, <1>3
  <2>. QED BY <1>1, <1>3, <2>1 DEF InOrder
<1>4. CASE i \in 1 .. Len(a) /\ j \notin 1 .. Len(a)
  <2>1. PICK k \in 1 .. Len(b) : j = Len(a) + k
    <3>1. j - Len(a) \in 1 .. Len(b) /\ j = Len(a) + (j - Len(a))
      BY <1>1, <1>2, <1>4
    <3>. QED BY <3>1
  <2>2. c[j] = b[k] /\ c[i] = a[i]
    BY <1>1, <1>4, <2>1
  <2>3. b[k] \in Nat /\ a[i] \in Nat
    BY <1>4
  <2>. QED BY <1>4, <2>2, <2>3
<1>5. CASE i \notin 1 .. Len(a) /\ j \notin 1 .. Len(a)
  <2>1. PICK k \in 1 .. Len(b) : j = Len(a) + k
    <3>1. j - Len(a) \in 1 .. Len(b) /\ j = Len(a) + (j - Len(a))
      BY <1>1, <1>2, <1>5
    <3>. QED BY <3>1
  <2>2. PICK l \in 1 .. Len(b) : i = Len(a) + l
    <3>1. i - Len(a) \in 1 .. Len(b) /\ i = Len(a) + (i - Len(a))
      BY <1>1, <1>2, <1>5
    <3>. QED BY <3>1
  <2>3. c[j] = b[k] /\ c[i] = b[l] /\ l < k
    BY <1>1, <1>2, <2>1, <2>2
  <2>. QED BY <2>3 DEF InOrder
<1>. QED BY <1>3, <1>4, <1>5

\* Nothing that went out is taken back.
LEMMA JoinHolds ==
    ASSUME NEW a \in Seq(Nat), NEW b \in Seq(Nat), NEW n, Holds(a, n) \/ Holds(b, n)
    PROVE  Holds(a \o b, n)
<1>. DEFINE c == a \o b
<1>1. /\ Len(c) = Len(a) + Len(b)
      /\ \A i \in 1 .. Len(a) : c[i] = a[i]
      /\ \A i \in 1 .. Len(b) : c[Len(a) + i] = b[i]
  BY FedGrows
<1>2. Len(a) \in Nat /\ Len(b) \in Nat
  OBVIOUS
<1>. HIDE DEF c
<1>3. CASE Holds(a, n)
  <2>1. PICK i \in 1 .. Len(a) : a[i] = n
    BY <1>3 DEF Holds
  <2>2. i \in 1 .. Len(c) /\ c[i] = n
    BY <1>1, <1>2, <2>1
  <2>. QED BY <2>2 DEF Holds, c
<1>4. CASE Holds(b, n)
  <2>1. PICK i \in 1 .. Len(b) : b[i] = n
    BY <1>4 DEF Holds
  <2>2. Len(a) + i \in 1 .. Len(c) /\ c[Len(a) + i] = n
    BY <1>1, <1>2, <2>1
  <2>. QED BY <2>2 DEF Holds, c
<1>. QED BY <1>3, <1>4

\* Nor is anything larger.
LEMMA JoinBound ==
    ASSUME NEW a \in Seq(Nat), NEW b \in Seq(Nat), NEW m \in Nat,
           \A i \in 1 .. Len(a) : a[i] <= m, \A i \in 1 .. Len(b) : b[i] <= m
    PROVE  \A i \in 1 .. Len(a \o b) : (a \o b)[i] <= m
<1>. DEFINE c == a \o b
<1>1. /\ Len(c) = Len(a) + Len(b)
      /\ \A i \in 1 .. Len(a) : c[i] = a[i]
      /\ \A i \in 1 .. Len(b) : c[Len(a) + i] = b[i]
  BY FedGrows
<1>2. Len(a) \in Nat /\ Len(b) \in Nat
  OBVIOUS
<1>. HIDE DEF c
<1>. SUFFICES ASSUME NEW i \in 1 .. Len(c) PROVE c[i] <= m
  BY DEF c
<1>3. CASE i \in 1 .. Len(a)
  BY <1>1, <1>3
<1>4. CASE i \notin 1 .. Len(a)
  <2>1. PICK k \in 1 .. Len(b) : i = Len(a) + k
    <3>1. i - Len(a) \in 1 .. Len(b) /\ i = Len(a) + (i - Len(a))
      BY <1>1, <1>2, <1>4
    <3>. QED BY <3>1
  <2>. QED BY <1>1, <2>1
<1>. QED BY <1>3, <1>4

\* The gate opens: the frames kept go out ahead of the live one.
LEMMA GateOpens ==
    ASSUME GateInv, frameNo' = frameNo + 1, ~gateOpen, gateOpen' = TRUE,
           Send(Append(PrerollFrames, frameNo + 1), frameNo + 1),
           count' = 0, UNCHANGED <<ring, head>>, lastVoiced' \in Int,
           \A n \in wanted' : n \in wanted \/ (n \in 1 .. frameNo + 1 /\ n >= frameNo + 1 - Preroll)
    PROVE  GateInv'
<1>. DEFINE sent == Append(PrerollFrames, frameNo + 1)
<1>1. GateTyped /\ RingHoldsLast /\ PrerollFed /\ FedIsOlder /\ SpeechIsFed /\ FedInOrder
  BY DEF GateInv, GateFeeds
<1>2. /\ frameNo \in Nat /\ count \in Nat /\ count <= frameNo /\ fed \in Seq(Nat)
      /\ Preroll \in Nat \ {0} /\ count <= Preroll /\ Keepalive \in Nat \ {0}
  BY <1>1, GateAssumption DEF GateTyped
<1>3. /\ sent \in Seq(Nat) /\ Len(sent) = count + 1 /\ sent[count + 1] = frameNo + 1
      /\ \A i \in 1 .. count : sent[i] = frameNo - count + i
  BY <1>1, <1>2, PrerollInOrder
<1>4. fed' = fed \o sent /\ lastSent' = frameNo + 1
  BY DEF Send
<1>. HIDE DEF sent
<1>5. \A i \in 1 .. count + 1 : sent[i] = frameNo - count + i
  <2>. SUFFICES ASSUME NEW i \in 1 .. count + 1 PROVE sent[i] = frameNo - count + i
    OBVIOUS
  <2>1. CASE i = count + 1
    BY <1>2, <1>3, <2>1
  <2>2. CASE i \in 1 .. count
    BY <1>3, <2>2
  <2>. QED BY <1>2, <2>1, <2>2
<1>6. fed' \in Seq(Nat)
  BY <1>2, <1>3, <1>4, FedGrows
<1>7. GateTyped'
  BY <1>1, <1>2, <1>4, <1>6 DEF GateTyped
<1>8. RingHoldsLast'
  BY DEF RingHoldsLast
<1>9. \A n : WasFed(n) \/ Holds(sent, n) => WasFed(n)'
  <2>1. (\A n : WasFed(n) <=> Holds(fed, n)) /\ \A n : WasFed(n)' <=> Holds(fed, n)'
    BY <1>1, <1>7, FedByLength, FedByLengthNext
  <2>. SUFFICES ASSUME NEW n, Holds(fed, n) \/ Holds(sent, n) PROVE Holds(fed', n)
    BY <2>1 DEF Holds
  <2>. QED BY <1>2, <1>3, <1>4, JoinHolds
<1>10. \A n \in frameNo - count + 1 .. frameNo + 1 : WasFed(n)'
  <2>. SUFFICES ASSUME NEW n \in frameNo - count + 1 .. frameNo + 1 PROVE WasFed(n)'
    OBVIOUS
  <2>1. n - frameNo + count \in 1 .. count + 1
    BY <1>2
  <2>2. sent[n - frameNo + count] = n
    BY <1>2, <1>5, <2>1
  <2>3. Holds(sent, n)
    BY <1>3, <2>1, <2>2 DEF Holds
  <2>. QED BY <1>9, <2>3
<1>11. \A n \in 1 .. frameNo + 1 : n >= frameNo + 1 - Preroll => WasFed(n)'
  <2>. SUFFICES ASSUME NEW n \in 1 .. frameNo + 1, n >= frameNo + 1 - Preroll PROVE WasFed(n)'
    OBVIOUS
  <2>1. CASE n > frameNo - count
    BY <1>2, <1>10, <2>1
  <2>2. CASE n <= frameNo - count
    <3>1. count < Preroll /\ n \in 1 .. frameNo - count /\ n >= frameNo - count - Preroll
      BY <1>2, <2>2
    <3>. QED BY <1>1, <1>9, <3>1 DEF PrerollFed
  <2>. QED BY <1>2, <2>1, <2>2
<1>12. PrerollFed'
  BY <1>11, <1>2 DEF PrerollFed
<1>13. \A i \in 1 .. Len(fed) : fed[i] \in Nat /\ fed[i] <= frameNo - count
  BY <1>1, <1>2 DEF FedIsOlder
<1>14. FedIsOlder'
  <2>1. frameNo + 1 \in Nat /\ \A i \in 1 .. Len(fed) : fed[i] <= frameNo + 1
    BY <1>2, <1>13
  <2>2. \A i \in 1 .. Len(sent) : sent[i] <= frameNo + 1
    BY <1>2, <1>3, <1>5
  <2>3. \A i \in 1 .. Len(fed \o sent) : (fed \o sent)[i] <= frameNo + 1
    BY <1>2, <1>3, <2>1, <2>2, JoinBound
  <2>4. DOMAIN fed' = 1 .. Len(fed') /\ frameNo' - count' = frameNo + 1
    BY <1>2, <1>6
  <2>. QED BY <1>4, <2>3, <2>4 DEF FedIsOlder
<1>15. FedInOrder'
  <2>1. InOrder(fed)
    BY <1>1, FedByLength
  <2>2. InOrder(sent)
    BY <1>2, <1>3, <1>5 DEF InOrder
  <2>3. \A i \in 1 .. Len(sent) : sent[i] > frameNo - count
    BY <1>2, <1>3, <1>5
  <2>4. frameNo - count \in Nat
    BY <1>2
  <2>5. InOrder(fed \o sent)
    BY <1>2, <1>3, <1>13, <2>1, <2>2, <2>3, <2>4, OrderedJoin
  <2>6. (FedInOrder <=> InOrder(fed))'
    BY <1>7, FedByLengthNext
  <2>. QED BY <1>4, <2>5, <2>6 DEF InOrder
<1>16. SpeechIsFed'
  BY <1>1, <1>9, <1>11 DEF SpeechIsFed, WasFed
<1>17. KeptAlive'
  BY <1>2, <1>4 DEF KeptAlive
<1>. QED BY <1>7, <1>8, <1>12, <1>14, <1>15, <1>16, <1>17 DEF GateInv, GateFeeds

\* A silent frame while closed, or the one that closes the gate, is kept; a
\* silent chunk goes out when the connection was idle for long enough.
LEMMA FrameIsKept ==
    ASSUME GateInv, frameNo' = frameNo + 1, gateOpen' = FALSE, PushFrame(frameNo + 1),
           KeepaliveDue(frameNo + 1) => Send(<< 0 >>, frameNo + 1),
           ~KeepaliveDue(frameNo + 1) => UNCHANGED <<fed, lastSent>>,
           lastVoiced' \in Int, wanted' = wanted
    PROVE  GateInv'
<1>1. GateTyped /\ RingHoldsLast /\ PrerollFed /\ FedIsOlder /\ SpeechIsFed /\ FedInOrder /\ KeptAlive
  BY DEF GateInv, GateFeeds
<1>2. /\ frameNo \in Nat /\ count \in Nat /\ count <= frameNo /\ fed \in Seq(Nat)
      /\ Preroll \in Nat \ {0} /\ count <= Preroll /\ Keepalive \in Nat \ {0} /\ lastSent \in Int
  BY <1>1, GateAssumption DEF GateTyped
<1>3. /\ head' \in 0 .. Preroll - 1 /\ ring' \in [0 .. Preroll - 1 -> Nat]
      /\ count' = IF count < Preroll THEN count + 1 ELSE count
      /\ \A i \in 1 .. count' : ring'[Kept(i)'] = frameNo + 1 - count' + i
  BY <1>1, PushHolds
<1>4. PICK sent \in {<<>>, <<0>>} : fed' = fed \o sent
  <2>1. fed = fed \o <<>>
    BY <1>2
  <2>. QED BY <2>1 DEF Send
<1>5. sent \in Seq(Nat) /\ \A i \in 1 .. Len(sent) : sent[i] = 0
  <2>1. CASE sent = <<>>
    BY <2>1
  <2>2. CASE sent = <<0>>
    BY <2>2
  <2>. QED BY <2>1, <2>2
<1>6. lastSent' \in Int /\ KeptAlive'
  BY <1>1, <1>2 DEF KeepaliveDue, KeptAlive, Send
<1>7. fed' \in Seq(Nat)
  BY <1>2, <1>4, <1>5, FedGrows
<1>8. count' \in 0 .. Preroll /\ frameNo' \in Nat /\ count' <= frameNo' /\ frameNo' - count' \in Nat
      /\ frameNo - count <= frameNo' - count' /\ (count' < Preroll => count < Preroll /\ frameNo' - count' = frameNo - count)
  BY <1>2, <1>3
<1>9. GateTyped'
  BY <1>3, <1>6, <1>7, <1>8 DEF GateTyped
<1>10. RingHoldsLast'
  <2>1. \A i \in 1 .. count' : ring'[Kept(i)'] = frameNo' - count' + i
    <3>. SUFFICES ASSUME NEW i \in 1 .. count' PROVE ring'[Kept(i)'] = frameNo' - count' + i
      OBVIOUS
    <3>1. ring'[Kept(i)'] = frameNo + 1 - count' + i
      BY <1>3
    <3>. QED BY <1>2, <1>8, <3>1
  <2>. QED BY <2>1 DEF RingHoldsLast
<1>11. \A n : WasFed(n) => WasFed(n)'
  <2>1. (\A n : WasFed(n) <=> Holds(fed, n)) /\ \A n : WasFed(n)' <=> Holds(fed, n)'
    BY <1>1, <1>9, FedByLength, FedByLengthNext
  <2>. QED BY <1>2, <1>4, <1>5, <2>1, JoinHolds DEF Holds
<1>12. PrerollFed'
  BY <1>1, <1>8, <1>11 DEF PrerollFed
<1>13. \A i \in 1 .. Len(fed) : fed[i] \in Nat /\ fed[i] <= frameNo - count
  BY <1>1, <1>2 DEF FedIsOlder
<1>14. FedIsOlder'
  <2>. DEFINE m == frameNo' - count'
  <2>1. \A i \in 1 .. Len(fed) : fed[i] <= m
    <3>. SUFFICES ASSUME NEW i \in 1 .. Len(fed) PROVE fed[i] <= frameNo' - count'
      OBVIOUS
    <3>1. fed[i] \in Nat /\ fed[i] <= frameNo - count
      BY <1>13
    <3>3. frameNo - count \in Nat
      BY <1>2
    <3>2. frameNo' - count' \in Nat /\ frameNo - count <= frameNo' - count'
      BY <1>8
    <3>. QED BY <3>1, <3>2, <3>3
  <2>2. \A i \in 1 .. Len(sent) : sent[i] <= m
    BY <1>5, <1>8
  <2>. m \in Nat
    BY <1>8
  <2>. HIDE DEF m
  <2>3. \A i \in 1 .. Len(fed \o sent) : (fed \o sent)[i] <= m
    BY <1>2, <1>5, <2>1, <2>2, JoinBound
  <2>4. DOMAIN fed' = 1 .. Len(fed')
    BY <1>7
  <2>. QED BY <1>4, <2>3, <2>4 DEF FedIsOlder, m
<1>15. FedInOrder'
  <2>1. InOrder(fed)
    BY <1>1, FedByLength
  <2>2. InOrder(sent)
    BY <1>5 DEF InOrder
  <2>4. frameNo - count \in Nat
    BY <1>2
  <2>5. InOrder(fed \o sent)
    BY <1>2, <1>5, <1>13, <2>1, <2>2, <2>4, OrderedJoin
  <2>6. (FedInOrder <=> InOrder(fed))'
    BY <1>9, FedByLengthNext
  <2>. QED BY <1>4, <2>5, <2>6 DEF InOrder
<1>16. SpeechIsFed'
  BY <1>1, <1>11 DEF SpeechIsFed, WasFed
<1>. QED BY <1>6, <1>9, <1>10, <1>12, <1>14, <1>15, <1>16 DEF GateInv, GateFeeds

\* The speech-to-text gets every frame of speech and the pre-roll before it,
\* in order and none twice, on a connection never idle for the keepalive, for
\* any length of pre-roll, hangover, keepalive and call.
THEOREM SpeechReachesStt == GateSpec => []GateFeeds
<1>1. GateInit => GateInv
  BY GateAssumption DEF GateInit, GateInv, GateTyped, RingHoldsLast, PrerollFed, FedIsOlder, GateFeeds,
                        SpeechIsFed, FedInOrder, KeptAlive, Never
<1>2. GateInv /\ [GateNext]_gateVars => GateInv'
  <2>. SUFFICES ASSUME GateInv, [GateNext]_gateVars PROVE GateInv'
    OBVIOUS
  <2>1. ASSUME NEW voiced \in BOOLEAN, GateFrame(voiced) PROVE GateInv'
    <3>. USE <2>1 DEF GateFrame
    <3>1. frameNo \in Nat /\ frameNo' = frameNo + 1 /\ frameNo' \in Int
      BY DEF GateInv, GateTyped
    <3>2. lastVoiced' \in Int
      BY <3>1 DEF GateInv, GateTyped
    <3>3. CASE StillOpen(frameNo', voiced) /\ gateOpen' = TRUE /\ Send(<<frameNo'>>, frameNo') /\ UNCHANGED <<ring, head, count>>
      <4>1. gateOpen /\ wanted' \subseteq wanted \cup {frameNo'}
        BY <3>3 DEF StillOpen
      <4>. QED BY <3>1, <3>2, <3>3, <4>1, LiveFrame
    <3>4. CASE /\ ~StillOpen(frameNo', voiced) /\ voiced /\ gateOpen' = TRUE
               /\ Send(Append(PrerollFrames, frameNo'), frameNo') /\ count' = Emptied /\ UNCHANGED <<ring, head>>
      <4>1. ~gateOpen /\ wanted' = wanted \cup {n \in 1 .. frameNo' : n >= frameNo' - Preroll}
        BY <3>4 DEF StillOpen
      <4>2. /\ Send(Append(PrerollFrames, frameNo + 1), frameNo + 1) /\ gateOpen' = TRUE
            /\ count' = 0 /\ UNCHANGED <<ring, head>>
        BY <3>1, <3>4 DEF Emptied
      <4>3. \A n \in wanted' : n \in wanted \/ (n \in 1 .. frameNo + 1 /\ n >= frameNo + 1 - Preroll)
        <5>. SUFFICES ASSUME NEW n \in wanted', n \notin wanted PROVE n \in 1 .. frameNo + 1 /\ n >= frameNo + 1 - Preroll
          OBVIOUS
        <5>1. n \in 1 .. frameNo' /\ n >= frameNo' - Preroll
          BY <4>1
        <5>. QED BY <3>1, <5>1, GateAssumption
      <4>. HIDE <2>1 DEF GateFrame
      <4>. QED BY <3>1, <3>2, <4>1, <4>2, <4>3, GateOpens
    <3>5. CASE /\ ~StillOpen(frameNo', voiced) /\ ~voiced /\ gateOpen' = FALSE /\ PushFrame(frameNo')
               /\ IF KeepaliveDue(frameNo') THEN Send(<<0>>, frameNo') ELSE UNCHANGED <<fed, lastSent>>
      <4>1. /\ wanted' = wanted /\ KeepaliveDue(frameNo + 1) => Send(<<0>>, frameNo + 1)
            /\ ~KeepaliveDue(frameNo + 1) => UNCHANGED <<fed, lastSent>>
        BY <3>1, <3>5
      <4>. QED BY <3>1, <3>2, <3>5, <4>1, FrameIsKept
    <3>. QED BY <3>3, <3>4, <3>5
  <2>2. CASE UNCHANGED gateVars
    BY <2>2 DEF gateVars, GateInv, GateTyped, RingHoldsLast, Kept, PrerollFed, WasFed, FedIsOlder, GateFeeds,
                SpeechIsFed, FedInOrder, KeptAlive
  <2>. QED BY <2>1, <2>2 DEF GateNext
<1>3. GateInv => GateFeeds
  BY DEF GateInv
<1>. QED BY <1>1, <1>2, <1>3, PTL DEF GateSpec

-----------------------------------------------------------------------------
(* The tool calls: CallsKeepTheirArguments. *)

ArgsSoFar(k) == [n \in 1 .. sentOf[k] |-> <<k, n>>]

\* The calls begun are the first ones, in order, each in its place with its
\* own fragments; without index or id only the last is unfinished.
CallsInPlace ==
    /\ style \in Styles
    /\ sentOf \in [1 .. MeantCalls -> Nat]
    /\ Len(assembled) \in 0 .. MeantCalls
    /\ assembled = [i \in 1 .. Len(assembled) |-> [id |-> i, args |-> ArgsSoFar(i)]]
    /\ \A k \in 1 .. MeantCalls : sentOf[k] > 0 <=> k <= Len(assembled)
    /\ style = "tail" => \A k \in 1 .. Len(assembled) - 1 : sentOf[k] = Pieces
    /\ style = "whole" => \A k \in 1 .. MeantCalls : sentOf[k] <= 1

\* slot finds the call's own place, or the next one for a new call.
LEMMA OwnSlot ==
    ASSUME CallsInPlace, NEW k \in 1 .. MeantCalls, MaySend(k), NEW d \in Deltas(k)
    PROVE  /\ CallSlot(d) = k /\ k <= Len(assembled) + 1
           /\ sentOf[k] = 0 <=> k = Len(assembled) + 1
           /\ d.piece = <<k, sentOf[k] + 1>> /\ d.id \in {NoId, k} /\ (sentOf[k] = 0 => d.id = k)
<1>. USE ToolCallsAssumption DEF NoId, NoIndex
<1>. DEFINE m == Len(assembled)
<1>1. /\ m \in Nat /\ k \in Nat /\ k >= 1 /\ sentOf[k] \in Nat
      /\ \A i \in 1 .. m : assembled[i].id = i
  BY DEF CallsInPlace
<1>2. sentOf[k] > 0 <=> k <= m
  BY DEF CallsInPlace
<1>3. k <= m + 1
  <2>. SUFFICES ASSUME k > m + 1 PROVE FALSE
    BY <1>1
  <2>1. m + 1 \in 1 .. k - 1 /\ m + 1 \in 1 .. MeantCalls /\ ~(m + 1 <= m)
    BY <1>1
  <2>2. sentOf[m + 1] > 0
    BY <2>1 DEF MaySend, PiecesOf, Styles, CallsInPlace
  <2>. QED BY <2>1, <2>2 DEF CallsInPlace
<1>4. sentOf[k] = 0 <=> k = m + 1
  BY <1>1, <1>2, <1>3
<1>5. /\ d.piece = <<k, sentOf[k] + 1>>
      /\ d.id = IF sentOf[k] = 0 \/ style = "byid" THEN k ELSE 0
      /\ style = "indexed" => d.index = k
      /\ style = "whole" => d.index \in {0, 1}
      /\ style \in {"byid", "tail"} => d.index = 0
  BY DEF Deltas, Styles
<1>6. HasId(k) <=> k <= m
  <2>1. DOMAIN assembled = 1 .. m
    BY DEF CallsInPlace
  <2>. QED BY <1>1, <2>1 DEF HasId
<1>7. k <= m => (CHOOSE i \in DOMAIN assembled : assembled[i].id = k) = k
  <2>1. DOMAIN assembled = 1 .. m
    BY DEF CallsInPlace
  <2>. QED BY <1>1, <2>1
<1>8. ASSUME d.id = k, ~ByIndex(d) PROVE CallSlot(d) = k
  BY <1>1, <1>3, <1>6, <1>7, <1>8 DEF CallSlot
<1>. HIDE DEF m
<1>9. CASE style = "indexed"
  <2>1. k <= Len(assembled) => assembled[k].id = k
    BY <1>1 DEF m
  <2>2. ByIndex(d)
    BY <1>1, <1>5, <1>9, <2>1 DEF ByIndex
  <2>. QED BY <1>3, <1>4, <1>5, <1>9, <2>2 DEF CallSlot, m
<1>10. CASE style = "whole"
  <2>1. sentOf[k] = 0 /\ d.id = k
    BY <1>1, <1>5, <1>10 DEF MaySend, PiecesOf
  <2>2. CASE ByIndex(d)
    <3>1. d.index = 1
      BY <1>5, <1>10, <2>2 DEF ByIndex
    <3>2. ~(1 <= m)
      <4>. SUFFICES ASSUME 1 <= m PROVE FALSE
        OBVIOUS
      <4>1. assembled[1].id = 1 /\ k = m + 1
        BY <1>1, <1>4, <2>1
      <4>. QED BY <1>1, <2>1, <2>2, <3>1, <4>1 DEF ByIndex, m
    <3>. QED BY <1>1, <1>3, <1>4, <1>5, <2>1, <2>2, <3>1, <3>2 DEF CallSlot, m
  <2>3. CASE ~ByIndex(d)
    BY <1>3, <1>4, <1>5, <1>8, <2>1, <2>3 DEF m
  <2>. QED BY <2>2, <2>3
<1>11. CASE style = "byid"
  <2>1. d.id = k /\ ~ByIndex(d)
    BY <1>5, <1>11 DEF ByIndex
  <2>. QED BY <1>3, <1>4, <1>5, <1>8, <2>1 DEF m
<1>12. CASE style = "tail"
  <2>1. ~ByIndex(d)
    BY <1>5, <1>12 DEF ByIndex
  <2>2. CASE sentOf[k] = 0
    BY <1>3, <1>4, <1>5, <1>8, <2>1, <2>2 DEF m
  <2>3. CASE sentOf[k] # 0
    <3>1. d.id = 0 /\ k <= m
      BY <1>1, <1>2, <1>5, <1>12, <2>3
    <3>2. k = m
      <4>1. k \in 1 .. m - 1 => sentOf[k] = Pieces
        BY <1>12 DEF CallsInPlace, m
      <4>2. sentOf[k] < Pieces
        BY <1>12 DEF MaySend, PiecesOf
      <4>. QED BY <1>1, <3>1, <4>1, <4>2
    <3>3. assembled # <<>>
      BY <1>1, <3>1 DEF m
    <3>. QED BY <1>1, <1>3, <1>4, <1>5, <2>1, <3>1, <3>2, <3>3 DEF CallSlot, m
  <2>. QED BY <2>2, <2>3
<1>. QED BY <1>9, <1>10, <1>11, <1>12 DEF CallsInPlace, Styles

\* A fragment joins its own call, and the others stay as they are.
LEMMA DeltaJoinsItsCall ==
    ASSUME CallsInPlace, NEW k \in 1 .. MeantCalls, SendDelta(k)
    PROVE  CallsInPlace'
<1>. DEFINE m == Len(assembled)
            n == IF k > m THEN k ELSE m
<1>1. PICK d \in Deltas(k) : AddDelta(d)
  BY DEF SendDelta
<1>2. /\ CallSlot(d) = k /\ k <= m + 1 /\ (sentOf[k] = 0 <=> k = m + 1)
      /\ d.piece = <<k, sentOf[k] + 1>> /\ d.id \in {NoId, k} /\ (sentOf[k] = 0 => d.id = k)
  BY OwnSlot DEF SendDelta
<1>3. /\ m \in 0 .. MeantCalls /\ k \in Nat /\ k >= 1 /\ sentOf \in [1 .. MeantCalls -> Nat] /\ MeantCalls \in Nat
      /\ sentOf' = [sentOf EXCEPT ![k] = @ + 1] /\ style' = style
  BY ToolCallsAssumption DEF CallsInPlace, SendDelta
<1>4. /\ assembled = [i \in 1 .. m |-> [id |-> i, args |-> ArgsSoFar(i)]]
      /\ \A j \in 1 .. MeantCalls : sentOf[j] > 0 <=> j <= m
  BY DEF CallsInPlace
<1>5. n \in 0 .. MeantCalls /\ n >= m /\ k \in 1 .. n /\ (n = m \/ (n = m + 1 /\ k = n))
  BY <1>2, <1>3
<1>6. assembled' = [Grown(k) EXCEPT ![k] = [id |-> IF d.id # NoId THEN d.id ELSE @.id, args |-> Append(@.args, d.piece)]]
  BY <1>1, <1>2 DEF AddDelta
<1>7. Grown(k) = [i \in 1 .. n |-> IF i <= m THEN assembled[i] ELSE EmptyCall]
  BY DEF Grown
<1>. HIDE DEF m, n
<1>8. /\ DOMAIN assembled' = 1 .. n
      /\ \A i \in 1 .. n : i # k => assembled'[i] = assembled[i]
      /\ assembled'[k] = [id |-> IF d.id # NoId THEN d.id ELSE Grown(k)[k].id, args |-> Append(Grown(k)[k].args, d.piece)]
  BY <1>3, <1>5, <1>6, <1>7
<1>9. assembled'[k] = [id |-> k, args |-> [l \in 1 .. sentOf[k] + 1 |-> <<k, l>>]]
  <2>1. Grown(k)[k].args = [l \in 1 .. sentOf[k] |-> <<k, l>>] /\ (d.id # NoId \/ Grown(k)[k].id = k)
    <3>1. CASE k <= m
      <4>1. Grown(k)[k] = [id |-> k, args |-> ArgsSoFar(k)]
        BY <1>3, <1>4, <1>5, <1>7, <3>1
      <4>. QED BY <4>1 DEF ArgsSoFar
    <3>2. CASE k = m + 1
      <4>1. Grown(k)[k] = EmptyCall /\ sentOf[k] = 0 /\ d.id = k
        BY <1>2, <1>3, <1>5, <1>7, <3>2
      <4>2. <<>> = [l \in 1 .. 0 |-> <<k, l>>]
        OBVIOUS
      <4>. QED BY <1>3, <4>1, <4>2 DEF EmptyCall, NoId
    <3>. QED BY <1>2, <1>3, <3>1, <3>2 DEF m
  <2>2. sentOf[k] \in Nat
    BY <1>3
  <2>3. Append([l \in 1 .. sentOf[k] |-> <<k, l>>], <<k, sentOf[k] + 1>>) = [l \in 1 .. sentOf[k] + 1 |-> <<k, l>>]
    <3>. DEFINE s == [l \in 1 .. sentOf[k] |-> <<k, l>>]
                u == [l \in 1 .. sentOf[k] + 1 |-> <<k, l>>]
    <3>5. s \in [1 .. sentOf[k] -> Nat \X Nat] /\ u \in [1 .. sentOf[k] + 1 -> Nat \X Nat]
      BY <1>3, <2>2
    <3>6. sentOf[k] + 1 \in Nat
      BY <2>2
    <3>7. s \in Seq(Nat \X Nat) /\ u \in Seq(Nat \X Nat)
      BY <2>2, <3>5, <3>6
    <3>8. Len(s) = sentOf[k] /\ Len(u) = sentOf[k] + 1
      BY <2>2, <3>6
    <3>1. s \in Seq(Nat \X Nat) /\ Len(s) = sentOf[k] /\ u \in Seq(Nat \X Nat) /\ Len(u) = sentOf[k] + 1
      BY <3>7, <3>8
    <3>2. \A i \in 1 .. sentOf[k] : Append(s, <<k, sentOf[k] + 1>>)[i] = u[i]
      BY <2>2, <3>1
    <3>3. Append(s, <<k, sentOf[k] + 1>>)[sentOf[k] + 1] = u[sentOf[k] + 1]
      BY <2>2, <3>1
    <3>4. Append(s, <<k, sentOf[k] + 1>>) \in Seq(Nat \X Nat) /\ Len(Append(s, <<k, sentOf[k] + 1>>)) = sentOf[k] + 1
      BY <1>3, <2>2, <3>1
    <3>. QED BY <2>2, <3>1, <3>2, <3>3, <3>4, SeqEqual
  <2>. QED BY <1>2, <1>8, <2>1, <2>3
<1>10. /\ sentOf' \in [1 .. MeantCalls -> Nat] /\ sentOf'[k] = sentOf[k] + 1
       /\ \A j \in 1 .. MeantCalls : j # k => sentOf'[j] = sentOf[j]
  BY <1>3
<1>11. assembled' = [i \in 1 .. n |-> [id |-> i, args |-> ArgsSoFar(i)']]
  <2>1. \A i \in 1 .. n : assembled'[i] = [id |-> i, args |-> ArgsSoFar(i)']
    <3>. SUFFICES ASSUME NEW i \in 1 .. n PROVE assembled'[i] = [id |-> i, args |-> ArgsSoFar(i)']
      OBVIOUS
    <3>1. CASE i = k
      BY <1>9, <1>10, <3>1 DEF ArgsSoFar
    <3>2. CASE i # k
      <4>1. i \in 1 .. m /\ i \in 1 .. MeantCalls
        BY <1>3, <1>5, <3>2
      <4>2. assembled'[i] = [id |-> i, args |-> ArgsSoFar(i)] /\ sentOf'[i] = sentOf[i]
        BY <1>4, <1>8, <1>10, <3>2, <4>1
      <4>. QED BY <4>2 DEF ArgsSoFar
    <3>. QED BY <3>1, <3>2
  <2>2. assembled' = [i \in DOMAIN assembled' |-> assembled'[i]]
    BY <1>6
  <2>. QED BY <1>8, <2>1, <2>2
<1>12. Len(assembled') = n
  BY <1>5, <1>8, <1>11
<1>13. \A j \in 1 .. MeantCalls : sentOf'[j] > 0 <=> j <= n
  BY <1>2, <1>3, <1>4, <1>5, <1>10
<1>14. style' = "tail" => \A j \in 1 .. n - 1 : sentOf'[j] = Pieces
  <2>. SUFFICES ASSUME style = "tail", NEW j \in 1 .. n - 1 PROVE sentOf'[j] = Pieces
    BY <1>3
  <2>1. \A i \in 1 .. m - 1 : sentOf[i] = Pieces
    BY DEF CallsInPlace, m
  <2>2. \A i \in 1 .. k - 1 : sentOf[i] = Pieces
    BY DEF SendDelta, MaySend, PiecesOf
  <2>3. sentOf[k] # Pieces
    BY <1>3 DEF SendDelta, MaySend, PiecesOf
  <2>4. k = n
    BY <1>3, <1>5, <2>1, <2>3
  <2>. QED BY <1>3, <1>5, <1>10, <2>2, <2>4
<1>15. style' = "whole" => \A j \in 1 .. MeantCalls : sentOf'[j] <= 1
  BY <1>3, <1>10 DEF CallsInPlace, SendDelta, MaySend, PiecesOf
<1>. QED BY <1>3, <1>5, <1>10, <1>11, <1>12, <1>13, <1>14, <1>15 DEF CallsInPlace

\* The assembled tool calls are the calls the model began, each with exactly
\* its own arguments so far, for any number of calls and fragments and
\* whichever of its styles the provider sends them in.
THEOREM ToolCallsStaySeparate == ToolSpec => []CallsKeepTheirArguments
<1>1. ToolInit => CallsInPlace
  BY ToolCallsAssumption DEF ToolInit, CallsInPlace
<1>2. CallsInPlace /\ [ToolNext]_toolVars => CallsInPlace'
  <2>. SUFFICES ASSUME CallsInPlace, [ToolNext]_toolVars PROVE CallsInPlace'
    OBVIOUS
  <2>1. CASE ToolNext
    BY <2>1, DeltaJoinsItsCall DEF ToolNext
  <2>2. CASE UNCHANGED toolVars
    BY <2>2 DEF toolVars, CallsInPlace, ArgsSoFar
  <2>. QED BY <2>1, <2>2
<1>3. CallsInPlace => CallsKeepTheirArguments
  <2>. SUFFICES ASSUME CallsInPlace PROVE CallsKeepTheirArguments
    OBVIOUS
  <2>. DEFINE m == Len(assembled)
              Call(k) == [id |-> k, args |-> [n \in 1 .. sentOf[k] |-> <<k, n>>]]
  <2>1. m \in 0 .. MeantCalls /\ DOMAIN assembled = 1 .. m /\ \A i \in 1 .. m : assembled[i] = Call(i)
    BY DEF CallsInPlace, ArgsSoFar
  <2>2. \A k \in 1 .. MeantCalls : sentOf[k] > 0 <=> k <= m
    BY DEF CallsInPlace
  <2>3. MeantCalls \in Nat
    BY ToolCallsAssumption
  <2>. HIDE DEF m, Call
  <2>4. {assembled[i] : i \in DOMAIN assembled} = {Call(k) : k \in 1 .. m}
    BY <2>1
  <2>5. 1 .. m = {j \in 1 .. MeantCalls : sentOf[j] > 0}
    BY <2>1, <2>2, <2>3
  <2>6. {assembled[i] : i \in DOMAIN assembled} = {Call(k) : k \in {j \in 1 .. MeantCalls : sentOf[j] > 0}}
    BY <2>4, <2>5
  <2>. QED BY <2>6 DEF CallsKeepTheirArguments, Call
<1>. QED BY <1>1, <1>2, <1>3, PTL DEF ToolSpec

-----------------------------------------------------------------------------
(* The record: RecordIsComplete. *)

Gathering == {"waiting", "draining", "asking", "summary"}
Stages == Gathering \cup {"completing", "uploading", "reviewing", "annotating", "pricing", "done"}
JobStates == {"none", "asking", "answered", "merged", "failed", "refused"}

\* The merged variables are those of nodes, then perhaps of the whole call.
RecordTyped ==
    /\ recorder \in Stages /\ jobs \in [WorkflowNodes -> JobStates] /\ atNode \in Nat \ {0}
    /\ mergedVars \in Seq(1 .. Final) /\ saved \in Seq(1 .. Final)
    /\ reviews \in Seq({"reviewed", "skipped", "failed"}) /\ annotated \in Seq({"reviewed", "skipped", "failed"})
    /\ extractDone \in BOOLEAN /\ cutShort \in BOOLEAN

\* Once the wait is over, unless cut short, no extraction is at work: none
\* starts after FinishExtraction, which waits for all it found.
NoneAtWork ==
    /\ extractDone <=> recorder # "waiting"
    /\ recorder = "draining" => Working \subseteq waitsFor
    /\ cutShort => recorder \notin {"waiting", "draining", "asking"}
    /\ recorder \notin {"waiting", "draining"} /\ ~cutShort => Working = {}

\* The summary holds what was merged; whatever merges later comes after it
\* only when the wait was cut short.
MergedReachSummary ==
    /\ \A n \in WorkflowNodes : jobs[n] = "merged" => \E i \in 1 .. Len(mergedVars) : mergedVars[i] = n
    /\ recorder \notin Gathering /\ ~cutShort => saved = mergedVars
    /\ recorder \in Gathering => saved = <<>>

\* The last word of the merged variables, too, is the final extraction's.
FinalComesLast ==
    /\ recorder \in {"waiting", "draining", "asking"} \/ cutShort =>
           \A i \in 1 .. Len(mergedVars) : mergedVars[i] # Final
    /\ \A i \in 1 .. Len(mergedVars) : mergedVars[i] = Final => i = Len(mergedVars)
    /\ \A i \in 1 .. Len(saved) : saved[i] = Final => i = Len(saved)

\* The annotations are the reviews of all QA nodes.
ReviewsComplete ==
    /\ Len(reviews) <= QaNodes
    /\ recorder = "annotating" => Len(reviews) = QaNodes
    /\ annotated # <<>> => Len(annotated) = QaNodes

RecordInv == RecordTyped /\ NoneAtWork /\ MergedReachSummary /\ FinalComesLast /\ ReviewsComplete

\* The steps of the conversation and of the process stopping.
LEMMA ConversationKeepsRecord ==
    ASSUME RecordInv, StartExtraction \/ TakeEdge \/ TurnReturns \/ LoopReturns \/ ProcessStops \/ QaTimesOut
    PROVE  RecordInv'
<1>. USE CallRecordAssumption DEF RecordInv, WorkflowNodes, Final, conversationVars, extractionVars, databaseVars
<1>1. CASE StartExtraction
  <2>. USE <1>1 DEF StartExtraction
  <2>1. RecordTyped'
    BY DEF RecordTyped, JobStates
  <2>2. \A n \in WorkflowNodes : jobs'[n] = jobs[n] \/ (jobs'[n] = "asking" /\ ~extractDone) \/ jobs'[n] = "refused"
    BY DEF RecordTyped
  <2>3. NoneAtWork'
    BY <2>2 DEF NoneAtWork, Working, RecordTyped
  <2>4. MergedReachSummary'
    BY <2>2 DEF MergedReachSummary
  <2>5. FinalComesLast' /\ ReviewsComplete'
    BY DEF FinalComesLast, ReviewsComplete
  <2>. QED BY <2>1, <2>3, <2>4, <2>5
<1>2. CASE TakeEdge
  <2>1. atNode' \in Nat \ {0}
    BY <1>2 DEF TakeEdge, RecordTyped
  <2>. QED BY <1>2, <2>1 DEF TakeEdge, RecordTyped, NoneAtWork, Working, MergedReachSummary, FinalComesLast, ReviewsComplete
<1>3. CASE TurnReturns \/ LoopReturns \/ ProcessStops
  <2>1. UNCHANGED <<extractionVars, databaseVars, atNode, recorder>>
    BY <1>3 DEF TurnReturns, LoopReturns, ProcessStops
  <2>. QED BY <2>1 DEF RecordTyped, NoneAtWork, Working, MergedReachSummary, FinalComesLast, ReviewsComplete
<1>4. CASE QaTimesOut
  BY <1>4 DEF QaTimesOut, RecordTyped, NoneAtWork, Working, MergedReachSummary, FinalComesLast, ReviewsComplete
<1>. QED BY <1>1, <1>2, <1>3, <1>4

\* An extraction leaves Working for good; its answer is merged as it does.
LEMMA ExtractionKeepsRecord ==
    ASSUME RecordInv, NEW n \in WorkflowNodes, ExtractionSteps(n)
    PROVE  RecordInv'
<1>. USE CallRecordAssumption DEF RecordInv, WorkflowNodes, Final, conversationVars, extractionVars, databaseVars
<1>1. CASE ExtractionExpires(n)
  BY <1>1 DEF ExtractionExpires, RecordTyped, NoneAtWork, Working, MergedReachSummary, FinalComesLast, ReviewsComplete
<1>2. CASE ExtractionReplies(n)
  <2>. USE <1>2 DEF ExtractionReplies
  <2>1. RecordTyped'
    BY DEF RecordTyped, JobStates
  <2>2. /\ jobs[n] = "asking" /\ jobs'[n] \in {"answered", "failed"}
        /\ \A k \in WorkflowNodes : k # n => jobs'[k] = jobs[k]
    BY DEF RecordTyped
  <2>3. Working' \subseteq Working
    BY <2>2 DEF Working
  <2>4. NoneAtWork'
    BY <2>3 DEF NoneAtWork
  <2>5. MergedReachSummary'
    BY <2>2 DEF MergedReachSummary
  <2>6. FinalComesLast' /\ ReviewsComplete'
    BY DEF FinalComesLast, ReviewsComplete
  <2>. QED BY <2>1, <2>4, <2>5, <2>6
<1>3. CASE ExtractionMerges(n)
  <2>. USE <1>3 DEF ExtractionMerges
  <2>1. /\ n \in 1 .. LastNode /\ n \in 1 .. LastNode + 1 /\ mergedVars \in Seq(1 .. LastNode + 1)
        /\ mergedVars' = Append(mergedVars, n)
    BY DEF RecordTyped
  <2>2. /\ mergedVars' \in Seq(1 .. LastNode + 1) /\ Len(mergedVars') = Len(mergedVars) + 1
        /\ \A i \in 1 .. Len(mergedVars) : mergedVars'[i] = mergedVars[i]
        /\ mergedVars'[Len(mergedVars) + 1] = n /\ Len(mergedVars) \in Nat
    BY <2>1
  <2>3. RecordTyped'
    BY <2>2 DEF RecordTyped, JobStates
  <2>4. /\ jobs[n] = "answered" /\ jobs'[n] = "merged"
        /\ \A k \in WorkflowNodes : k # n => jobs'[k] = jobs[k]
    BY DEF RecordTyped
  <2>5. Working' \subseteq Working /\ n \in Working
    BY <2>4 DEF Working
  <2>6. NoneAtWork'
    BY <2>5 DEF NoneAtWork
  <2>7. recorder \in {"waiting", "draining"} \/ cutShort
    BY <2>5 DEF NoneAtWork
  <2>8. \A k \in WorkflowNodes : jobs'[k] = "merged" => \E i \in 1 .. Len(mergedVars') : mergedVars'[i] = k
    <3>. SUFFICES ASSUME NEW k \in WorkflowNodes, jobs'[k] = "merged"
                  PROVE  \E i \in 1 .. Len(mergedVars') : mergedVars'[i] = k
      OBVIOUS
    <3>1. CASE k = n
      <4>1. Len(mergedVars) + 1 \in 1 .. Len(mergedVars')
        BY <2>2
      <4>. QED BY <2>2, <3>1, <4>1
    <3>2. CASE k # n
      <4>1. PICK i \in 1 .. Len(mergedVars) : mergedVars[i] = k
        BY <2>4, <3>2 DEF MergedReachSummary
      <4>2. i \in 1 .. Len(mergedVars') /\ mergedVars'[i] = k
        BY <2>2, <4>1
      <4>. QED BY <4>2
    <3>. QED BY <3>1, <3>2
  <2>9. MergedReachSummary'
    BY <2>7, <2>8 DEF MergedReachSummary, Gathering
  <2>10. \A i \in 1 .. Len(mergedVars') : mergedVars'[i] # LastNode + 1
    <3>. SUFFICES ASSUME NEW i \in 1 .. Len(mergedVars') PROVE mergedVars'[i] # LastNode + 1
      OBVIOUS
    <3>1. CASE i = Len(mergedVars) + 1
      BY <2>1, <2>2, <3>1
    <3>2. CASE i \in 1 .. Len(mergedVars)
      BY <2>2, <2>7, <3>2 DEF FinalComesLast
    <3>. QED BY <2>2, <3>1, <3>2
  <2>11. FinalComesLast'
    BY <2>10 DEF FinalComesLast
  <2>12. ReviewsComplete'
    BY DEF ReviewsComplete
  <2>. QED BY <2>3, <2>6, <2>9, <2>11, <2>12
<1>. QED BY <1>1, <1>2, <1>3 DEF ExtractionSteps

\* recordRun gathers: the wait, the last node's extraction, the summary.
LEMMA GatheringKeepsRecord ==
    ASSUME RecordInv, FinishExtraction \/ ExtractionsIn \/ StopsWaiting \/ FinalExtraction \/ TakeSummary
    PROVE  RecordInv'
<1>. USE CallRecordAssumption DEF RecordInv, WorkflowNodes, Final, conversationVars, extractionVars, databaseVars
<1>1. CASE FinishExtraction
  BY <1>1 DEF FinishExtraction, RecordTyped, Stages, Gathering, NoneAtWork, Working, MergedReachSummary,
              FinalComesLast, ReviewsComplete
<1>2. CASE ExtractionsIn
  <2>. USE <1>2 DEF ExtractionsIn
  <2>1. Working = {} /\ ~cutShort
    BY DEF AllIn, NoneAtWork
  <2>2. NoneAtWork'
    BY <2>1 DEF NoneAtWork, Working
  <2>. QED BY <2>1, <2>2 DEF RecordTyped, Stages, Gathering, MergedReachSummary, FinalComesLast, ReviewsComplete
<1>3. CASE StopsWaiting
  BY <1>3 DEF StopsWaiting, RecordTyped, Stages, Gathering, NoneAtWork, Working, MergedReachSummary,
              FinalComesLast, ReviewsComplete
<1>4. CASE FinalExtraction
  <2>. USE <1>4 DEF FinalExtraction
  <2>1. ~cutShort /\ NoneAtWork'
    BY DEF NoneAtWork, Working
  <2>2. LastNode + 1 \in 1 .. LastNode + 1 /\ mergedVars \in Seq(1 .. LastNode + 1) /\ Len(mergedVars) \in Nat
    BY DEF RecordTyped
  <2>3. CASE UNCHANGED mergedVars
    BY <2>1, <2>3 DEF RecordTyped, Stages, Gathering, MergedReachSummary, FinalComesLast, ReviewsComplete
  <2>4. CASE mergedVars' = Append(mergedVars, LastNode + 1)
    <3>1. /\ mergedVars' \in Seq(1 .. LastNode + 1) /\ Len(mergedVars') = Len(mergedVars) + 1
          /\ \A i \in 1 .. Len(mergedVars) : mergedVars'[i] = mergedVars[i]
      BY <2>2, <2>4
    <3>2. RecordTyped'
      BY <3>1 DEF RecordTyped, Stages, Gathering
    <3>3. \A i \in 1 .. Len(mergedVars) : mergedVars[i] # LastNode + 1
      BY DEF FinalComesLast
    <3>4. \A i \in 1 .. Len(mergedVars') : mergedVars'[i] = LastNode + 1 => i = Len(mergedVars')
      <4>. SUFFICES ASSUME NEW i \in 1 .. Len(mergedVars'), i # Len(mergedVars') PROVE mergedVars'[i] # LastNode + 1
        OBVIOUS
      <4>1. i \in 1 .. Len(mergedVars)
        BY <2>2, <3>1
      <4>. QED BY <3>1, <3>3, <4>1
    <3>5. FinalComesLast'
      BY <2>1, <3>4 DEF FinalComesLast
    <3>6. 1 .. Len(mergedVars) \subseteq 1 .. Len(mergedVars')
      BY <2>2, <3>1
    <3>7. MergedReachSummary'
      <4>1. \A n \in 1 .. LastNode : jobs[n] = "merged" => \E i \in 1 .. Len(mergedVars) : mergedVars'[i] = n
        BY <3>1 DEF MergedReachSummary
      <4>2. \A n \in 1 .. LastNode : jobs[n] = "merged" => \E i \in 1 .. Len(mergedVars') : mergedVars'[i] = n
        BY <3>6, <4>1
      <4>. QED BY <4>2 DEF MergedReachSummary, Gathering
    <3>8. ReviewsComplete'
      BY DEF ReviewsComplete
    <3>. QED BY <2>1, <3>2, <3>5, <3>7, <3>8
  <2>. QED BY <2>3, <2>4
<1>5. CASE TakeSummary
  BY <1>5 DEF TakeSummary, RecordTyped, Stages, Gathering, NoneAtWork, Working, MergedReachSummary,
              FinalComesLast, ReviewsComplete
<1>. QED BY <1>1, <1>2, <1>3, <1>4, <1>5

\* recordRun's writes, reviews and price.
LEMMA ClosingKeepsRecord ==
    ASSUME RecordInv, CompleteRun \/ AttachFiles \/ ReviewNode \/ ReviewsDone \/ Annotate \/ RecordCost
    PROVE  RecordInv'
<1>. USE CallRecordAssumption DEF RecordInv, WorkflowNodes, Final, conversationVars, extractionVars, databaseVars, RecordFails
<1>1. recorder \notin Gathering /\ recorder' \in Stages \ Gathering /\ UNCHANGED <<extractionVars, saved>> /\ atNode' = atNode
  BY DEF CompleteRun, AttachFiles, ReviewNode, ReviewsDone, Annotate, RecordCost, Gathering, Stages
<1>2. NoneAtWork' /\ MergedReachSummary' /\ FinalComesLast'
  <2>1. recorder \notin {"waiting", "draining", "asking"} /\ recorder' \notin {"waiting", "draining", "asking"} /\ recorder' \notin Gathering
    BY <1>1 DEF Gathering
  <2>. QED BY <1>1, <2>1 DEF NoneAtWork, Working, MergedReachSummary, FinalComesLast
<1>3. CASE CompleteRun \/ AttachFiles \/ RecordCost
  BY <1>1, <1>2, <1>3 DEF CompleteRun, AttachFiles, RecordCost, RecordTyped, ReviewsComplete
<1>4. CASE ReviewNode
  <2>. USE <1>4 DEF ReviewNode
  <2>1. PICK r \in {"reviewed", "skipped", "failed"} : reviews' = Append(reviews, r)
    OBVIOUS
  <2>2. reviews' \in Seq({"reviewed", "skipped", "failed"}) /\ Len(reviews') = Len(reviews) + 1 /\ Len(reviews) \in Nat
    BY <2>1 DEF RecordTyped
  <2>. QED BY <1>1, <1>2, <2>2 DEF RecordTyped, ReviewsComplete
<1>5. CASE ReviewsDone
  BY <1>1, <1>2, <1>5 DEF ReviewsDone, RecordTyped, ReviewsComplete
<1>6. CASE Annotate
  BY <1>1, <1>2, <1>6 DEF Annotate, RecordTyped, ReviewsComplete
<1>. QED BY <1>3, <1>4, <1>5, <1>6

\* The record of a call holds every answer the LLM gave unless the wait was cut
\* short, the end-of-call extraction's word last, and one QA result per node,
\* for any number of nodes, QA nodes and failures.
THEOREM RecordHoldsAll == RecordSpec => []RecordIsComplete
<1>1. RecordInit => RecordInv
  <2>. SUFFICES ASSUME RecordInit PROVE RecordInv
    OBVIOUS
  <2>. USE CallRecordAssumption DEF RecordInit
  <2>1. RecordTyped
    <3>1. jobs \in [WorkflowNodes -> JobStates] /\ recorder \in Stages
      BY DEF Stages, Gathering, JobStates
    <3>2. /\ mergedVars \in Seq(1 .. Final) /\ saved \in Seq(1 .. Final)
          /\ reviews \in Seq({"reviewed", "skipped", "failed"}) /\ annotated \in Seq({"reviewed", "skipped", "failed"})
      OBVIOUS
    <3>3. atNode \in Nat \ {0}
      OBVIOUS
    <3>4. extractDone \in BOOLEAN /\ cutShort \in BOOLEAN
      OBVIOUS
    <3>. HIDE DEF RecordInit
    <3>. QED BY <3>1, <3>2, <3>3, <3>4, Zenon DEF RecordTyped
  <2>2. NoneAtWork
    BY DEF NoneAtWork
  <2>3. MergedReachSummary
    BY DEF MergedReachSummary, Gathering
  <2>4. FinalComesLast /\ ReviewsComplete
    BY DEF FinalComesLast, ReviewsComplete
  <2>. QED BY <2>1, <2>2, <2>3, <2>4 DEF RecordInv
<1>2. RecordInv /\ [RecordNext]_recordVars => RecordInv'
  <2>. SUFFICES ASSUME RecordInv, [RecordNext]_recordVars PROVE RecordInv'
    OBVIOUS
  <2>1. CASE RecordNext
    BY <2>1, ConversationKeepsRecord, ExtractionKeepsRecord, GatheringKeepsRecord, ClosingKeepsRecord
       DEF RecordNext, RecorderSteps
  <2>2. CASE UNCHANGED recordVars
    BY <2>2 DEF recordVars, RecordInv, RecordTyped, NoneAtWork, Working, MergedReachSummary, FinalComesLast, ReviewsComplete
  <2>. QED BY <2>1, <2>2
<1>3. RecordInv => RecordIsComplete
  <2>. SUFFICES ASSUME RecordInv PROVE RecordIsComplete
    OBVIOUS
  <2>. USE DEF RecordInv
  <2>1. DOMAIN saved = 1 .. Len(saved)
    BY DEF RecordTyped
  <2>2. AnswersReachTheRecord
    <3>. SUFFICES ASSUME recorder \notin Gathering, ~cutShort, NEW n \in WorkflowNodes, jobs[n] \in {"answered", "merged"}
                  PROVE  n \in ToSet(saved)
      BY DEF AnswersReachTheRecord, Gathering
    <3>1. Working = {} /\ saved = mergedVars
      BY DEF NoneAtWork, MergedReachSummary, Gathering
    <3>2. jobs[n] = "merged"
      BY <3>1 DEF Working
    <3>3. PICK i \in 1 .. Len(saved) : saved[i] = n
      BY <3>1, <3>2 DEF MergedReachSummary
    <3>. QED BY <2>1, <3>3 DEF ToSet
  <2>3. LastWordIsFinal
    BY <2>1 DEF LastWordIsFinal, FinalComesLast
  <2>4. EveryNodeAnnotated
    BY DEF EveryNodeAnnotated, ReviewsComplete
  <2>. QED BY <2>2, <2>3, <2>4 DEF RecordIsComplete
<1>. QED BY <1>1, <1>2, <1>3, PTL DEF RecordSpec


-----------------------------------------------------------------------------
(* The speech-to-text stream: the safety parts of StreamKept. *)

SttInv == SttTypeOK /\ NoStreamAfterClose /\ sttClosed \in BOOLEAN

\* Closing a connection, or forgetting it, keeps the types.
LEMMA SttCloses ==
    ASSUME SttTypeOK, NEW c \in 0 .. MaxSttConns
    PROVE  /\ Closed(c) \in [SttConns -> {"none", "open", "lost", "closed"}]
           /\ c \in SttConns => Closed(c)[c] # "open"
  BY DEF SttTypeOK, Closed, SttConns

\* No writer, receiver or redial keeps or makes a connection current after Close.
LEMMA SttStep == SttInv /\ [SttNext]_sttVars => SttInv'
<1>. SUFFICES ASSUME SttInv, [SttNext]_sttVars PROVE SttInv'
  OBVIOUS
<1>. USE SttAssumption DEF SttInv, connVarsStt, redialVars, userVars
<1>0. SttTypeOK /\ NoStreamAfterClose /\ sttClosed \in BOOLEAN /\ SttConns \subseteq 0 .. MaxSttConns
  BY DEF SttConns
<1>1. ASSUME NEW c \in SttConns, StreamLost(c) \/ ReceiverEnds(c) \/ ReceiverLeaves(c) PROVE SttInv'
  <2>1. stream' \in [SttConns -> {"none", "open", "lost", "closed"}]
    BY <1>0, <1>1, SttCloses DEF StreamLost, ReceiverEnds, ReceiverLeaves, Invalidate, SttTypeOK
  <2>2. conn' \in {conn, 0} /\ UNCHANGED <<sttClosed, dialed, redialVars, userVars>>
    BY <1>1 DEF StreamLost, ReceiverEnds, ReceiverLeaves, Invalidate
  <2>. QED BY <1>0, <2>1, <2>2 DEF SttTypeOK, NoStreamAfterClose
<1>2. ASSUME NEW u \in SttUsers, UserSteps(u) PROVE SttInv'
  <2>1. stream' \in [SttConns -> {"none", "open", "lost", "closed"}]
    <3>1. holds[u] \in 0 .. MaxSttConns
      BY <1>0 DEF SttTypeOK
    <3>. QED BY <1>0, <1>2, <3>1, SttCloses
             DEF UserSteps, GetConn, WriteGoes, WriteError, TriggerReconnect, Invalidate, SttTypeOK
  <2>2. conn' \in {conn, 0} /\ UNCHANGED <<sttClosed, dialed>>
    BY <1>2 DEF UserSteps, GetConn, WriteGoes, WriteError, TriggerReconnect, Invalidate
  <2>3. user' \in [SttUsers -> {"idle", "holding", "nilconn"}] /\ holds' \in [SttUsers -> 0 .. MaxSttConns]
    BY <1>0, <1>2 DEF UserSteps, GetConn, WriteGoes, WriteError, TriggerReconnect, SttTypeOK
  <2>4. dialer' \in {"idle", "dialing", "connected", "returning"} /\ (dialer' # "idle" => reconnecting')
    BY <1>0, <1>2 DEF UserSteps, GetConn, WriteGoes, WriteError, TriggerReconnect, SttTypeOK
  <2>. QED BY <1>0, <2>1, <2>2, <2>3, <2>4 DEF SttTypeOK, NoStreamAfterClose
<1>3. CASE DialConnects
  BY <1>0, <1>3 DEF DialConnects, SttTypeOK, NoStreamAfterClose, SttConns
<1>4. CASE DialSettles
  BY <1>0, <1>4, SttCloses DEF DialSettles, SttTypeOK, NoStreamAfterClose
<1>5. CASE DialNotNeeded \/ DialReturns \/ DialError \/ BackoffPasses \/ CallOver
  BY <1>0, <1>5 DEF DialNotNeeded, DialReturns, DialError, BackoffPasses, CallOver, SttTypeOK, NoStreamAfterClose
<1>6. CASE CloseStream
  BY <1>0, <1>6, SttCloses DEF CloseStream, SttTypeOK, NoStreamAfterClose
<1>7. CASE UNCHANGED sttVars
  BY <1>0, <1>7 DEF sttVars, SttTypeOK, NoStreamAfterClose
<1>. QED BY <1>1, <1>2, <1>3, <1>4, <1>5, <1>6, <1>7 DEF SttNext, DialerSteps

\* The invariant holds.
LEMMA SttInvHolds == SttSpec => []SttInv
<1>1. ASSUME SttInit PROVE SttInv
  <2>1. 1 \in SttConns /\ 0 \in 0 .. MaxSttConns /\ 1 \in 0 .. MaxSttConns
    BY SttAssumption DEF SttConns
  <2>2. /\ stream \in [SttConns -> {"none", "open", "lost", "closed"}]
        /\ user \in [SttUsers -> {"idle", "holding", "nilconn"}] /\ holds \in [SttUsers -> 0 .. MaxSttConns]
    BY <1>1, <2>1 DEF SttInit
  <2>3. SttTypeOK
    BY <1>1, <2>1, <2>2 DEF SttInit, SttTypeOK
  <2>. QED BY <1>1, <2>3 DEF SttInit, SttInv, NoStreamAfterClose
<1>. QED BY <1>1, SttStep, PTL DEF SttSpec

\* NoStreamAfterClose: once Close has run no connection is current, though the end
\* of the call came while a redial was under way, for any number of writers,
\* connections and failures.
THEOREM StreamEndsWithCall == SttSpec => [](SttTypeOK /\ NoStreamAfterClose)
  BY SttInvHolds, PTL DEF SttInv

\* LiveStreamKept: a failure noticed late, of a connection that was replaced
\* meanwhile, does not take the working one with it (invalidate).
THEOREM WorkingStreamStays == SttSpec => LiveStreamKept
<1>. DEFINE StaysOpen == conn # 0 /\ conn' = 0 => stream'[conn] # "open"
<1>1. SttInv /\ [SttNext]_sttVars => [StaysOpen]_sttVars
  <2>. SUFFICES ASSUME SttInv, SttNext, conn # 0, conn' = 0 PROVE stream'[conn] # "open"
    BY DEF sttVars
  <2>1. SttTypeOK /\ conn \in SttConns
    BY SttAssumption DEF SttInv, SttTypeOK, SttConns
  <2>2. ASSUME NEW c, Invalidate(c), stream[c] # "open" PROVE stream'[conn] # "open"
    BY <2>1, <2>2 DEF Invalidate, Closed
  <2>3. ASSUME NEW c \in SttConns, StreamLost(c) \/ ReceiverEnds(c) \/ ReceiverLeaves(c)
        PROVE  stream'[conn] # "open"
    BY <2>1, <2>2, <2>3 DEF StreamLost, ReceiverEnds, ReceiverLeaves, connVarsStt
  <2>4. ASSUME NEW u \in SttUsers, UserSteps(u) PROVE stream'[conn] # "open"
    BY <2>1, <2>2, <2>4 DEF UserSteps, GetConn, WriteGoes, WriteError, TriggerReconnect, connVarsStt
  <2>5. CASE CloseStream
    BY <2>1, <2>5, SttCloses DEF CloseStream, SttTypeOK
  <2>6. DialSettles => conn' # 0 \/ conn' = conn
    BY <2>1, SttAssumption DEF DialSettles, SttTypeOK, SttConns
  <2>7. DialNotNeeded \/ DialConnects \/ DialReturns \/ DialError \/ BackoffPasses \/ CallOver => conn' = conn
    BY DEF DialNotNeeded, DialConnects, DialReturns, DialError, BackoffPasses, CallOver, connVarsStt
  <2>. QED BY <2>3, <2>4, <2>5, <2>6, <2>7 DEF SttNext, DialerSteps
<1>. QED BY <1>1, SttInvHolds, PTL DEF SttSpec, LiveStreamKept

-----------------------------------------------------------------------------
(* The LLM's reply: the safety parts of ReplySettles. *)

\* What was read came from a body, so an attempt that may be made again has read
\* nothing; usage is counted at the end of a completed reply.
ReplyInv ==
    /\ LlmTypeOK /\ OneReplySpoken /\ UsageOfCompletedReply
    /\ tokens \in Seq(Nat) /\ usages \in Seq(Nat)
    /\ phase \in {"none", "request", "waiting"} => tokens = <<>>
    /\ phase = "failed" /\ err \in {"request", "overload"} => tokens = <<>>
    /\ phase = "finished" => err = "none"
    /\ phase \notin {"finished", "returned"} => usages = <<>>
    /\ phase = "waiting" => attempt <= Retries

\* Only an attempt of which nothing was read is made again.
LEMMA ReplyStep == ReplyInv /\ [LlmNext]_llmVars => ReplyInv'
<1>. SUFFICES ASSUME ReplyInv, [LlmNext]_llmVars PROVE ReplyInv'
  OBVIOUS
<1>. USE LlmAssumption DEF ReplyInv, LlmTypeOK, OneReplySpoken, UsageOfCompletedReply, bodyVars, reportVars
<1>1. CASE StreamCalled
  BY <1>1 DEF StreamCalled
<1>2. CASE IdleFires \/ CallerCuts
  BY <1>2 DEF IdleFires, CallerCuts
<1>3. ASSUME NEW e \in {"request", "overload", "refused"}, RequestFails(e) PROVE ReplyInv'
  BY <1>3 DEF RequestFails, AttemptFails
<1>4. CASE HeadersArrive
  BY <1>4 DEF HeadersArrive
<1>5. CASE TokenLine
  <2>1. tokens' = Append(tokens, attempt) /\ attempt' = attempt /\ attempt \in Nat
    BY <1>5 DEF TokenLine
  <2>2. tokens' \in Seq(Nat) /\ \A i \in DOMAIN tokens' : tokens'[i] = attempt
    BY <2>1
  <2>. HIDE DEF OneReplySpoken
  <2>3. OneReplySpoken'
    BY <2>1, <2>2 DEF OneReplySpoken
  <2>. QED BY <1>5, <2>2, <2>3 DEF TokenLine, Line
<1>6. CASE ToolLine \/ UsageLine
  BY <1>6 DEF ToolLine, UsageLine, Line
<1>7. ASSUME NEW e \in {"stream", "empty"}, BodyFails(e) PROVE ReplyInv'
  BY <1>7 DEF BodyFails, AttemptFails
<1>8. ASSUME NEW done \in BOOLEAN, BodyEnds(done) PROVE ReplyInv'
  <2>1. usages = <<>> /\ usages' \in {usages, Append(usages, attempt)} /\ attempt \in Nat
    BY <1>8 DEF BodyEnds
  <2>2. usages' \in Seq(Nat) /\ Len(usages') <= 1
    <3>1. Append(<<>>, attempt) \in Seq(Nat) /\ Len(Append(<<>>, attempt)) = 1
      BY <2>1
    <3>2. <<>> \in Seq(Nat) /\ Len(<<>>) = 0
      OBVIOUS
    <3>3. usages' = <<>> \/ usages' = Append(<<>>, attempt)
      BY <2>1
    <3>4. CASE usages' = <<>>
      BY <3>2, <3>4
    <3>5. CASE usages' = Append(<<>>, attempt)
      BY <3>1, <3>5
    <3>. QED BY <3>3, <3>4, <3>5
  <2>. QED BY <1>8, <2>2 DEF BodyEnds
<1>9. CASE Waits
  BY <1>9 DEF Waits, MayRetry, Retryable
<1>10. CASE RetryStarts
  BY <1>10 DEF RetryStarts
<1>11. CASE StreamReturns
  <2>1. UNCHANGED <<llmCtx, attempt, err, tokens, usages>> /\ phase' = "returned" /\ reply' = Outcome
    BY <1>11 DEF StreamReturns
  <2>2. usages # <<>> => reply' = "ok"
    <3>1. usages # <<>> => phase = "finished"
      BY <1>11 DEF StreamReturns, GivesUp
    <3>. QED BY <2>1, <3>1 DEF Outcome
  <2>3. Outcome \in {"ok", "idle", "error"}
    BY DEF Outcome
  <2>. QED BY <2>1, <2>2, <2>3
<1>12. CASE UNCHANGED llmVars
  BY <1>12 DEF llmVars
<1>. QED
  BY <1>1, <1>2, <1>3, <1>4, <1>5, <1>6, <1>7, <1>8, <1>9, <1>10, <1>11, <1>12 DEF LlmNext

\* ReplySettles but for its liveness: however often an attempt fails, is cut or is
\* made again, all that is spoken is of one attempt, and usage is counted once, of
\* a reply that completed (Client.Stream).
THEOREM OneReplyAtMost == LlmSpec => [](LlmTypeOK /\ OneReplySpoken /\ UsageOfCompletedReply)
<1>1. LlmInit => ReplyInv
  BY LlmAssumption DEF LlmInit, ReplyInv, LlmTypeOK, OneReplySpoken, UsageOfCompletedReply
<1>2. ReplyInv => LlmTypeOK /\ OneReplySpoken /\ UsageOfCompletedReply
  BY DEF ReplyInv
<1>. QED BY <1>1, <1>2, ReplyStep, PTL DEF LlmSpec

-----------------------------------------------------------------------------
(* The jitter buffer: NothingStale and DiscardedForCause of PacketsInTurn. *)

\* Sequence numbers: the modulus is at least 4, so half of it at least 2.
LEMMA Moduli == /\ SeqModulus \in Nat /\ SeqModulus > 3 /\ JitterSize \in Nat \ {0}
                /\ 2 * JitterSize < SeqModulus /\ JitterSize < SeqModulus \div 2
  BY JitterAssumption

\* Differences and successors, without the remainder.
LEMMA AroundTheNumbers ==
    /\ \A a, b \in Seqs : (a - b) % SeqModulus = IF a >= b THEN a - b ELSE a - b + SeqModulus
    /\ \A e \in Seqs : (e + 1) % SeqModulus = IF e + 1 = SeqModulus THEN 0 ELSE e + 1
  BY Moduli DEF Seqs

\* A packet within the window is as many places ahead as Distance says, and one
\* less once the window has moved on; only the expected one is no place ahead.
LEMMA Ahead ==
    ASSUME NEW a \in Seqs, NEW e \in Seqs, Distance(a, e) \in 0 .. JitterSize - 1
    PROVE  /\ Distance(a, e) = IF a >= e THEN a - e ELSE a - e + SeqModulus
           /\ (e + 1) % SeqModulus \in Seqs
           /\ Distance(a, e) = 0 <=> a = e
           /\ a # e => Distance(a, (e + 1) % SeqModulus) = Distance(a, e) - 1
<1>1. Distance(a, e) = IF a >= e THEN a - e ELSE a - e + SeqModulus
  BY Moduli, AroundTheNumbers DEF Distance, Seqs
<1>2. (e + 1) % SeqModulus \in Seqs
  BY Moduli, AroundTheNumbers DEF Seqs
<1>3. Distance(a, e) = 0 <=> a = e
  BY <1>1, Moduli DEF Seqs
<1>4. ASSUME a # e PROVE Distance(a, (e + 1) % SeqModulus) = Distance(a, e) - 1
  <2>. DEFINE f == (e + 1) % SeqModulus
  <2>1. f \in Seqs /\ f = IF e + 1 = SeqModulus THEN 0 ELSE e + 1
    BY <1>2, AroundTheNumbers
  <2>. HIDE DEF f
  <2>2. (a - f) % SeqModulus = IF a >= f THEN a - f ELSE a - f + SeqModulus
    BY <2>1, AroundTheNumbers
  <2>3. (a - f) % SeqModulus = Distance(a, e) - 1
    BY <1>1, <1>4, <2>1, <2>2, Moduli DEF Seqs
  <2>4. Distance(a, e) - 1 < SeqModulus \div 2
    BY Moduli
  <2>. QED BY <2>3, <2>4 DEF Distance, f
<1>. QED BY <1>1, <1>2, <1>3, <1>4

\* A packet's slot.
LEMMA SlotOf == \A n \in Nat : Slot(n) \in SlotIdx
  BY Moduli DEF Slot, SlotIdx

Packets(n) == [seq : Seqs, ssrc : 0 .. n]
Buffers(n) ==
    [started : BOOLEAN, state : {"waiting", "active", "frozen"}, misses : 0 .. StarveFreezeThreshold,
     primingTicks : 0 .. MaxPrimingTicks, expected : Seqs, ssrc : 0 .. n,
     slots : [SlotIdx -> {Silence} \cup Packets(n)]]

\* Every stored packet is in its slot and within the window.
Stored(b) ==
    \A i \in SlotIdx : b.slots[i] # Silence =>
        /\ b.slots[i].ssrc = b.ssrc /\ Slot(b.slots[i].seq) = i
        /\ Distance(b.slots[i].seq, b.expected) \in 0 .. JitterSize - 1

\* The counters stop where the code leaves the state they belong to.
Counters(b) ==
    /\ b.state = "waiting" => b.primingTicks < MaxPrimingTicks
    /\ b.state # "frozen" => b.misses < StarveFreezeThreshold

BufferOK(b, n) == b \in Buffers(n) /\ Stored(b) /\ Counters(b)

JitterInv ==
    /\ nextSeq \in Seqs /\ sentAhead \in {0, 1} /\ netTrouble \in 0 .. MaxNetTrouble
    /\ nextSsrc \in Nat /\ delayed \subseteq Packets(nextSsrc)
    /\ BufferOK(jb, nextSsrc)

\* Silence is no packet.
LEMMA NoSilentPacket == \A n : Silence \notin Packets(n)
  BY DEF Silence, Packets, Seqs

\* Stepping the SSRC only adds packets.
LEMMA MorePackets == ASSUME NEW n \in Nat, NEW m \in Nat, n <= m PROVE Packets(n) \subseteq Packets(m) /\ Buffers(n) \subseteq Buffers(m)
<1>1. 0 .. n \subseteq 0 .. m /\ Packets(n) \subseteq Packets(m)
  BY DEF Packets
<1>2. [SlotIdx -> {Silence} \cup Packets(n)] \subseteq [SlotIdx -> {Silence} \cup Packets(m)]
  BY <1>1
<1>. QED BY <1>1, <1>2 DEF Buffers

\* An emptied window.
LEMMA Anchored == ASSUME NEW n \in Nat, NEW p \in Packets(n) PROVE BufferOK(Anchor(p), n) /\ Anchor(p).slots = NoFrames
<1>1. p.seq \in Seqs /\ p.ssrc \in 0 .. n
  BY DEF Packets
<1>2. NoFrames \in [SlotIdx -> {Silence} \cup Packets(n)] /\ \A i \in SlotIdx : NoFrames[i] = Silence
  BY DEF NoFrames
<1>3. 0 \in 0 .. StarveFreezeThreshold /\ 0 \in 0 .. MaxPrimingTicks /\ 0 < MaxPrimingTicks /\ 0 < StarveFreezeThreshold
  BY Moduli DEF StarveFreezeThreshold, MaxPrimingTicks
<1>. HIDE DEF NoFrames
<1>4. Anchor(p) \in Buffers(n)
  BY <1>1, <1>2, <1>3 DEF Anchor, Buffers
<1>5. Stored(Anchor(p))
  BY <1>2 DEF Anchor, Stored
<1>6. Counters(Anchor(p))
  BY <1>3 DEF Anchor, Counters
<1>. QED BY <1>4, <1>5, <1>6 DEF BufferOK, Anchor

\* A packet that fits is stored.
LEMMA Placed ==
    ASSUME NEW n \in Nat, NEW p \in Packets(n), NEW w, BufferOK(w, n), Fits(w, p), p.ssrc = w.ssrc
    PROVE  BufferOK([w EXCEPT !.slots[Slot(p.seq)] = p], n)
<1>. DEFINE b == [w EXCEPT !.slots[Slot(p.seq)] = p]
            slots == [w.slots EXCEPT ![Slot(p.seq)] = p]
<1>1. w \in Buffers(n) /\ p.seq \in Seqs /\ Slot(p.seq) \in SlotIdx
  BY SlotOf DEF BufferOK, Packets, Seqs
<1>2. b = [w EXCEPT !.slots = slots]
  BY <1>1 DEF Buffers
<1>3. /\ slots \in [SlotIdx -> {Silence} \cup Packets(n)]
      /\ \A i \in SlotIdx : slots[i] = IF i = Slot(p.seq) THEN p ELSE w.slots[i]
  BY <1>1 DEF Buffers
<1>. HIDE DEF slots, b
<1>4. /\ b \in Buffers(n) /\ b.slots = slots /\ b.expected = w.expected /\ b.ssrc = w.ssrc
      /\ b.state = w.state /\ b.misses = w.misses /\ b.primingTicks = w.primingTicks
  BY <1>1, <1>2, <1>3 DEF Buffers
<1>5. Counters(b)
  BY <1>4 DEF BufferOK, Counters
<1>6. Stored(b)
  <2>. SUFFICES ASSUME NEW i \in SlotIdx, slots[i] # Silence
                PROVE  /\ slots[i].ssrc = w.ssrc /\ Slot(slots[i].seq) = i
                       /\ Distance(slots[i].seq, w.expected) \in 0 .. JitterSize - 1
    BY <1>4 DEF Stored
  <2>1. CASE i = Slot(p.seq)
    <3>1. Distance(p.seq, w.expected) \in Int
      BY <1>1, Moduli, AroundTheNumbers DEF Distance, Buffers, Seqs
    <3>. QED BY <1>3, <2>1, <3>1, Moduli DEF Fits
  <2>2. CASE i # Slot(p.seq)
    BY <1>3, <2>2 DEF BufferOK, Stored
  <2>. QED BY <2>1, <2>2
<1>. QED BY <1>4, <1>5, <1>6 DEF BufferOK, b

\* The window a packet is placed in is empty, or the one there is, of its SSRC.
LEMMA Windows ==
    ASSUME NEW n \in Nat, NEW p \in Packets(n), BufferOK(jb, n)
    PROVE  /\ BufferOK(Window(p), n) /\ Window(p).ssrc = p.ssrc
           /\ Window(p) = jb \/ Window(p).slots = NoFrames
<1>1. BufferOK(Anchor(p), n) /\ Anchor(p).ssrc = p.ssrc /\ Anchor(p).slots = NoFrames
  BY Anchored DEF Anchor
<1>. HIDE DEF Anchor
<1>2. Window(p) = Anchor(p) \/ (Window(p) = jb /\ p.ssrc = jb.ssrc)
  BY DEF Window, Begin
<1>. QED BY <1>1, <1>2

\* Push keeps the buffer in order.
LEMMA PushKeeps ==
    ASSUME NEW n \in Nat, NEW p \in Packets(n), BufferOK(jb, n), Push(p)
    PROVE  BufferOK(jb', n)
<1>. DEFINE w == Window(p)
<1>1. BufferOK(w, n) /\ w.ssrc = p.ssrc
  BY Windows
<1>2. jb' \in {jb, w} \/ (Fits(w, p) /\ jb' = [w EXCEPT !.slots[Slot(p.seq)] = p])
  BY DEF Push
<1>. HIDE DEF w
<1>3. CASE jb' \in {jb, w}
  BY <1>1, <1>3
<1>4. CASE Fits(w, p) /\ jb' = [w EXCEPT !.slots[Slot(p.seq)] = p]
  BY <1>1, <1>4, Placed
<1>. QED BY <1>2, <1>3, <1>4

\* The expected packet's slot is emptied and the window moves on: nothing that is
\* stored falls behind it.
LEMMA MovesOn ==
    ASSUME NEW n \in Nat, NEW b, BufferOK(b, n),
           NEW s, s = [b.slots EXCEPT ![Slot(b.expected)] = Silence] \/ (s = b.slots /\ b.slots[Slot(b.expected)] = Silence)
    PROVE  /\ s \in [SlotIdx -> {Silence} \cup Packets(n)] /\ (b.expected + 1) % SeqModulus \in Seqs
           /\ \A i \in SlotIdx : s[i] # Silence =>
                /\ s[i].ssrc = b.ssrc /\ Slot(s[i].seq) = i
                /\ Distance(s[i].seq, (b.expected + 1) % SeqModulus) \in 0 .. JitterSize - 1
<1>1. b \in Buffers(n) /\ b.expected \in Seqs /\ b.slots \in [SlotIdx -> {Silence} \cup Packets(n)]
  BY DEF BufferOK, Buffers
<1>2. Slot(b.expected) \in SlotIdx /\ (b.expected + 1) % SeqModulus \in Seqs
  BY <1>1, SlotOf, Moduli, AroundTheNumbers DEF Seqs
<1>3. /\ s \in [SlotIdx -> {Silence} \cup Packets(n)] /\ s[Slot(b.expected)] = Silence
      /\ \A i \in SlotIdx : s[i] # Silence => s[i] = b.slots[i] /\ i # Slot(b.expected)
  BY <1>1, <1>2
<1>4. ASSUME NEW i \in SlotIdx, s[i] # Silence
      PROVE  /\ s[i].ssrc = b.ssrc /\ Slot(s[i].seq) = i
             /\ Distance(s[i].seq, (b.expected + 1) % SeqModulus) \in 0 .. JitterSize - 1
  <2>1. s[i] = b.slots[i] /\ i # Slot(b.expected) /\ s[i] \in Packets(n)
    BY <1>3, <1>4
  <2>2. s[i].ssrc = b.ssrc /\ Slot(s[i].seq) = i /\ Distance(s[i].seq, b.expected) \in 0 .. JitterSize - 1
    BY <1>4, <2>1 DEF BufferOK, Stored
  <2>3. s[i].seq \in Seqs /\ s[i].seq # b.expected
    BY <2>1, <2>2 DEF Packets
  <2>4. Distance(s[i].seq, b.expected) # 0
        /\ Distance(s[i].seq, (b.expected + 1) % SeqModulus) = Distance(s[i].seq, b.expected) - 1
    BY <1>1, <2>2, <2>3, Ahead
  <2>. QED BY <2>2, <2>4, Moduli
<1>. QED BY <1>2, <1>3, <1>4

\* Release keeps the buffer in order.
LEMMA ReleaseKeeps == ASSUME NEW n \in Nat, BufferOK(jb, n), Release PROVE BufferOK(jb', n)
<1>1. CASE ~jb.started
  BY <1>1 DEF Release
<1>2. CASE jb.started /\ Primes
  <2>1. jb \in Buffers(n) /\ jb' = [jb EXCEPT !.primingTicks = @ + 1] /\ jb.primingTicks + 1 < MaxPrimingTicks
    BY <1>2 DEF Release, Primes, BufferOK
  <2>2. jb.primingTicks + 1 \in 0 .. MaxPrimingTicks
    BY <2>1, Moduli DEF Buffers, MaxPrimingTicks
  <2>3. /\ jb' \in Buffers(n) /\ jb'.primingTicks = jb.primingTicks + 1 /\ jb'.state = jb.state
        /\ jb'.misses = jb.misses /\ jb'.slots = jb.slots /\ jb'.expected = jb.expected /\ jb'.ssrc = jb.ssrc
    BY <2>1, <2>2 DEF Buffers
  <2>4. Counters(jb')
    BY <2>1, <2>3 DEF Counters, BufferOK
  <2>5. Stored(jb')
    BY <2>3 DEF Stored, BufferOK
  <2>. QED BY <2>3, <2>4, <2>5 DEF BufferOK
<1>3. CASE jb.started /\ ~Primes
  <2>. DEFINE b == Activated
  <2>1. /\ b \in Buffers(n) /\ b.slots = jb.slots /\ b.expected = jb.expected /\ b.ssrc = jb.ssrc
        /\ b.state \in {"active", "frozen"} /\ (b.state # "frozen" => b.misses < StarveFreezeThreshold)
    <3>1. jb \in Buffers(n) /\ Counters(jb)
      BY DEF BufferOK
    <3>. DEFINE t == IF Priming THEN [jb EXCEPT !.primingTicks = @ + 1] ELSE jb
    <3>2. Priming => jb.primingTicks + 1 \in 0 .. MaxPrimingTicks
      BY <3>1, Moduli DEF Priming, Buffers, Counters, MaxPrimingTicks
    <3>3. /\ t \in Buffers(n) /\ t.slots = jb.slots /\ t.expected = jb.expected /\ t.ssrc = jb.ssrc
          /\ t.misses = jb.misses /\ t.state = jb.state
      BY <3>1, <3>2 DEF Buffers
    <3>4. b = IF jb.state = "waiting" THEN [t EXCEPT !.state = "active", !.misses = 0] ELSE t
      BY DEF Activated
    <3>. HIDE DEF t, b
    <3>5. 0 \in 0 .. StarveFreezeThreshold /\ 0 < StarveFreezeThreshold
      BY DEF StarveFreezeThreshold
    <3>6. CASE jb.state = "waiting"
      BY <3>3, <3>4, <3>5, <3>6 DEF Buffers
    <3>7. CASE jb.state # "waiting"
      BY <3>1, <3>3, <3>4, <3>7 DEF Buffers, Counters
    <3>. QED BY <3>6, <3>7
  <2>2. BufferOK(b, n)
    BY <2>1 DEF BufferOK, Stored, Counters
  <2>3. jb' = IF b.slots[Slot(b.expected)] # Silence THEN Pop(b) ELSE Miss(b)
    BY <1>3, <2>1 DEF Release
  <2>. HIDE DEF b
  <2>. DEFINE e == (b.expected + 1) % SeqModulus
  <2>4. CASE b.slots[Slot(b.expected)] # Silence
    <3>. DEFINE s == [b.slots EXCEPT ![Slot(b.expected)] = Silence]
    <3>1. /\ s \in [SlotIdx -> {Silence} \cup Packets(n)] /\ e \in Seqs
          /\ \A i \in SlotIdx : s[i] # Silence =>
               s[i].ssrc = b.ssrc /\ Slot(s[i].seq) = i /\ Distance(s[i].seq, e) \in 0 .. JitterSize - 1
      BY <2>2, MovesOn
    <3>2. jb' = [b EXCEPT !.slots = s, !.expected = e, !.misses = 0]
      BY <2>1, <2>3, <2>4 DEF Pop, Buffers
    <3>. HIDE DEF s, e
    <3>3. 0 \in 0 .. StarveFreezeThreshold /\ 0 < StarveFreezeThreshold
      BY DEF StarveFreezeThreshold
    <3>4. /\ jb' \in Buffers(n) /\ jb'.slots = s /\ jb'.expected = e /\ jb'.misses = 0
          /\ jb'.state = b.state /\ jb'.ssrc = b.ssrc
      BY <2>1, <3>1, <3>2, <3>3 DEF Buffers
    <3>5. Stored(jb') /\ Counters(jb')
      BY <2>1, <3>1, <3>3, <3>4 DEF Stored, Counters
    <3>. QED BY <3>4, <3>5 DEF BufferOK
  <2>5. CASE b.slots[Slot(b.expected)] = Silence
    <3>1. CASE b.state = "frozen"
      BY <2>2, <2>3, <2>5, <3>1 DEF Miss
    <3>2. CASE b.state # "frozen"
      <4>1. /\ e \in Seqs
            /\ \A i \in SlotIdx : b.slots[i] # Silence =>
                 /\ b.slots[i].ssrc = b.ssrc /\ Slot(b.slots[i].seq) = i
                 /\ Distance(b.slots[i].seq, e) \in 0 .. JitterSize - 1
        BY <2>2, <2>5, MovesOn
      <4>. DEFINE st == IF b.misses + 1 >= StarveFreezeThreshold THEN "frozen" ELSE b.state
      <4>2. jb' = [b EXCEPT !.misses = @ + 1, !.expected = e, !.state = st]
        BY <2>1, <2>3, <2>5, <3>2 DEF Miss, Buffers
      <4>3. b.misses \in Nat /\ b.misses + 1 \in 0 .. StarveFreezeThreshold /\ b.state = "active"
        BY <2>1, <3>2 DEF Buffers, StarveFreezeThreshold
      <4>4. st \in {"active", "frozen"} /\ (st # "frozen" => b.misses + 1 < StarveFreezeThreshold)
        BY <4>3 DEF StarveFreezeThreshold
      <4>. HIDE DEF st, e
      <4>5. /\ jb' \in Buffers(n) /\ jb'.slots = b.slots /\ jb'.expected = e /\ jb'.misses = b.misses + 1
            /\ jb'.state = st /\ jb'.ssrc = b.ssrc
        BY <2>1, <4>1, <4>2, <4>3, <4>4 DEF Buffers
      <4>6. Stored(jb') /\ Counters(jb')
        BY <4>1, <4>4, <4>5 DEF Stored, Counters
      <4>. QED BY <4>5, <4>6 DEF BufferOK
    <3>. QED BY <3>1, <3>2
  <2>. QED BY <2>4, <2>5
<1>. QED BY <1>1, <1>2, <1>3

\* Every step keeps it: packets come from the network, ticks from the clock.
LEMMA JitterStep == JitterInv /\ [JitterNext]_jitterVars => JitterInv'
<1>. SUFFICES ASSUME JitterInv, [JitterNext]_jitterVars PROVE JitterInv'
  OBVIOUS
<1>. USE JitterAssumption DEF JitterInv
<1>1. nextSsrc \in Nat /\ NextPacket \in Packets(nextSsrc) /\ (nextSeq + 1) % SeqModulus \in Seqs
  <2>1. nextSsrc \in 0 .. nextSsrc
    OBVIOUS
  <2>2. (nextSeq + 1) % SeqModulus \in Seqs
    BY Moduli, AroundTheNumbers DEF Seqs
  <2>. QED BY <2>1, <2>2 DEF NextPacket, Packet, Packets
<1>2. ASSUME Push(NextPacket) \/ UNCHANGED jb, delayed' \subseteq delayed \cup {NextPacket}, Sends,
             netTrouble' \in 0 .. MaxNetTrouble
      PROVE  JitterInv'
  <2>1. BufferOK(jb', nextSsrc)
    BY <1>1, <1>2, PushKeeps
  <2>. QED BY <1>1, <1>2, <2>1 DEF Sends
<1>3. NetTrouble => netTrouble' \in 0 .. MaxNetTrouble
  BY DEF NetTrouble
<1>4. CASE Arrives \/ Lost \/ Delayed \/ Duplicated
  BY <1>2, <1>3, <1>4 DEF Arrives, Lost, Delayed, Duplicated
<1>5. ASSUME NEW p \in delayed, ArrivesLate(p) PROVE JitterInv'
  <2>1. p \in Packets(nextSsrc) /\ Push(p)
    BY <1>5 DEF ArrivesLate
  <2>2. BufferOK(jb', nextSsrc)
    BY <1>1, <2>1, PushKeeps
  <2>. QED BY <1>5, <2>2 DEF ArrivesLate
<1>6. ASSUME NEW seq \in {0, SeqModulus - 1}, Restarts(seq) PROVE JitterInv'
  <2>1. nextSsrc' = nextSsrc + 1 /\ nextSsrc' \in Nat /\ nextSeq' = seq /\ seq \in Seqs
    BY <1>6, Moduli DEF Restarts, Seqs
  <2>2. Packets(nextSsrc) \subseteq Packets(nextSsrc') /\ Buffers(nextSsrc) \subseteq Buffers(nextSsrc')
    BY <2>1, MorePackets
  <2>3. BufferOK(jb', nextSsrc')
    BY <1>6, <2>2 DEF Restarts, BufferOK
  <2>. QED BY <1>3, <1>6, <2>1, <2>2, <2>3 DEF Restarts
<1>7. CASE ReleaseTick \/ ExtraTick
  <2>1. BufferOK(jb', nextSsrc)
    BY <1>1, <1>7, ReleaseKeeps DEF ReleaseTick, ExtraTick
  <2>. QED BY <1>3, <1>7, <2>1 DEF ReleaseTick, ExtraTick
<1>8. CASE SkippedTick
  BY <1>3, <1>8 DEF SkippedTick
<1>9. CASE UNCHANGED jitterVars
  BY <1>9 DEF jitterVars, netVars
<1>. QED BY <1>4, <1>5, <1>6, <1>7, <1>8, <1>9 DEF JitterNext

\* The invariant holds.
LEMMA JitterInvHolds == JitterSpec => []JitterInv
<1>1. ASSUME JitterInit PROVE JitterInv
  <2>1. Packet(0, 0) \in Packets(0) /\ 0 \in Seqs
    BY Moduli DEF Packet, Packets, Seqs
  <2>2. BufferOK(Anchor(Packet(0, 0)), 0)
    BY <2>1, Anchored
  <2>3. jb = [Anchor(Packet(0, 0)) EXCEPT !.started = FALSE]
    BY <1>1 DEF JitterInit
  <2>. HIDE DEF Anchor
  <2>4. BufferOK(jb, 0)
    BY <2>2, <2>3 DEF BufferOK, Buffers, Stored, Counters
  <2>. QED BY <1>1, <2>1, <2>4, JitterAssumption DEF JitterInit, JitterInv
<1>. QED BY <1>1, JitterStep, PTL DEF JitterSpec

\* NothingStale: whatever was lost, late or repeated, however the clocks drifted and
\* whoever restarted the stream, a stored frame is one still to be released, in the
\* slot in which Release will look for it; for any window and modulus, whether or
\* not one divides the other.
THEOREM WindowHoldsFuture == JitterSpec => [](JitterTypeOK /\ NothingStale)
<1>1. JitterInv => JitterTypeOK
  <2>. SUFFICES ASSUME JitterInv PROVE JitterTypeOK
    OBVIOUS
  <2>1. jb \in Buffers(nextSsrc)
    BY DEF JitterInv, BufferOK
  <2>2. jb.slots \in [SlotIdx -> {Silence} \cup Packets(nextSsrc)]
    BY <2>1 DEF Buffers
  <2>. QED BY <2>1, <2>2 DEF JitterInv, JitterTypeOK, Buffers, Packets
<1>2. JitterInv => NothingStale
  BY DEF JitterInv, BufferOK, Stored, NothingStale
<1>. QED BY <1>1, <1>2, JitterInvHolds, PTL

\* The arithmetic of slots: a number is its quotient and its slot, both of which
\* are its own.
LEMMA Quotients ==
    /\ \A x \in Nat : Slot(x) \in 0 .. JitterSize - 1 /\ x \div JitterSize \in Nat
                      /\ x = JitterSize * (x \div JitterSize) + Slot(x)
    /\ \A a, b \in Nat : a > b => JitterSize * a >= JitterSize * b + JitterSize
    /\ \A x, q \in Nat, r \in 0 .. JitterSize - 1 : x = JitterSize * q + r => Slot(x) = r
<1>1. \A x \in Nat : Slot(x) \in 0 .. JitterSize - 1 /\ x \div JitterSize \in Nat
                     /\ x = JitterSize * (x \div JitterSize) + Slot(x)
  BY Moduli DEF Slot
<1>2. \A a, b \in Nat : a > b => JitterSize * a >= JitterSize * b + JitterSize
  BY Moduli
<1>3. \A x, q \in Nat, r \in 0 .. JitterSize - 1 : x = JitterSize * q + r => Slot(x) = r
  BY Moduli DEF Slot
<1>. QED BY <1>1, <1>2, <1>3

\* Two numbers less than a window apart have different slots.
LEMMA SlotsDiffer ==
    ASSUME NEW x \in Nat, NEW y \in Nat, Slot(x) = Slot(y), x < y + JitterSize, y < x + JitterSize
    PROVE  x = y
<1>. DEFINE q == x \div JitterSize
            p == y \div JitterSize
<1>1. q \in Nat /\ p \in Nat /\ x = JitterSize * q + Slot(x) /\ y = JitterSize * p + Slot(y) /\ Slot(x) \in Nat
  BY Quotients
<1>. HIDE DEF q, p
<1>2. q > p => JitterSize * q >= JitterSize * p + JitterSize
  BY <1>1, Quotients
<1>3. p > q => JitterSize * p >= JitterSize * q + JitterSize
  BY <1>1, Quotients
<1>4. JitterSize * q \in Nat /\ JitterSize * p \in Nat
  BY <1>1, Moduli
<1>5. ~(q > p) /\ ~(p > q)
  BY <1>1, <1>2, <1>3, <1>4, Moduli
<1>6. p = q
  BY <1>1, <1>5
<1>. QED BY <1>1, <1>6

\* What a turn of the numbers leaves over is less than a window.
LEMMA LeftOver ==
    /\ Unaligned \in 0 .. JitterSize - 1
    /\ SeqModulus \div JitterSize \in Nat
    /\ SeqModulus = JitterSize * (SeqModulus \div JitterSize) + Unaligned
  BY Moduli, Quotients DEF Unaligned, Slot

\* Two numbers of one slot that are less than a window apart across the wrap are as
\* far apart as a turn of the numbers leaves over.
LEMMA AcrossTheWrap ==
    ASSUME NEW a \in Seqs, NEW b \in Seqs, Slot(a) = Slot(b), b + SeqModulus - a \in 0 .. JitterSize - 1
    PROVE  b + SeqModulus - a = Unaligned
<1>. DEFINE q == a \div JitterSize
            p == b \div JitterSize
            k == SeqModulus \div JitterSize
            c == b + SeqModulus - a
            r == Slot(a)
            z == JitterSize * (p + k) + Unaligned
<1>1. a \in Nat /\ b \in Nat
  BY DEF Seqs
<1>2. /\ q \in Nat /\ p \in Nat /\ k \in Nat /\ r \in Nat /\ Unaligned \in 0 .. JitterSize - 1
      /\ a = JitterSize * q + r /\ b = JitterSize * p + r /\ SeqModulus = JitterSize * k + Unaligned
  BY <1>1, LeftOver, Quotients
<1>. HIDE DEF q, p, k, r
<1>3. JitterSize * (p + k) = JitterSize * p + JitterSize * k /\ p + k \in Nat
  BY <1>2, Moduli
<1>4. z = JitterSize * q + c
  <2>1. JitterSize * q \in Nat /\ JitterSize * p \in Nat /\ JitterSize * k \in Nat /\ JitterSize * (p + k) \in Nat
    BY <1>2, <1>3, Moduli
  <2>. QED BY <1>2, <1>3, <2>1, Moduli
<1>5. z \in Nat
  BY <1>2, <1>3, Moduli
<1>6. Slot(z) = Unaligned
  BY <1>2, <1>3, <1>5, Quotients
<1>. HIDE DEF z
<1>7. Slot(z) = c
  BY <1>2, <1>4, <1>5, Quotients
<1>. QED BY <1>6, <1>7

\* So the packets of one window that share a slot are on either side of the wrap.
LEMMA OneSlotEach ==
    ASSUME NEW a \in Seqs, NEW b \in Seqs, NEW e \in Seqs, Slot(a) = Slot(b),
           Distance(a, e) \in 0 .. JitterSize - 1, Distance(b, e) \in 0 .. JitterSize - 1
    PROVE  \/ a = b
           \/ NearWrap(a) /\ a < Unaligned /\ a < b /\ Distance(a, e) = Distance(b, e) + Unaligned
           \/ NearWrap(a) /\ b < Unaligned /\ b < a /\ Distance(b, e) = Distance(a, e) + Unaligned
<1>1. /\ Distance(a, e) = IF a >= e THEN a - e ELSE a - e + SeqModulus
      /\ Distance(b, e) = IF b >= e THEN b - e ELSE b - e + SeqModulus
  BY Ahead
<1>2. /\ a \in Nat /\ b \in Nat /\ e \in Nat /\ a < SeqModulus /\ b < SeqModulus /\ e < SeqModulus
      /\ Unaligned \in 0 .. JitterSize - 1
  BY Moduli, LeftOver DEF Seqs
<1>3. CASE a >= e <=> b >= e
  <2>1. a < b + JitterSize /\ b < a + JitterSize
    BY <1>1, <1>2, <1>3, Moduli
  <2>. QED BY <1>2, <2>1, SlotsDiffer
<1>4. CASE a < e /\ b >= e
  <2>1. a + SeqModulus - b \in 0 .. JitterSize - 1
    BY <1>1, <1>2, <1>4, Moduli
  <2>2. a + SeqModulus - b = Unaligned
    BY <2>1, AcrossTheWrap
  <2>. QED BY <1>1, <1>2, <1>4, <2>2, Moduli DEF NearWrap
<1>5. CASE b < e /\ a >= e
  <2>1. b + SeqModulus - a \in 0 .. JitterSize - 1
    BY <1>1, <1>2, <1>5, Moduli
  <2>2. b + SeqModulus - a = Unaligned
    BY <2>1, AcrossTheWrap
  <2>. QED BY <1>1, <1>2, <1>5, <2>2, Moduli DEF NearWrap
<1>. QED BY <1>2, <1>3, <1>4, <1>5

\* DiscardedForCause: of whatever size the window is, a packet that arrives within it
\* and not as a duplicate is stored; only at the wrap, if the size does not divide
\* 2^16, may its slot be another packet's.
THEOREM KeptUnlessDuplicate == JitterSpec => DiscardedForCause
<1>. DEFINE Stale == jb.started /\ NextPacket.ssrc = jb.ssrc /\ StaleWhileFrozen(NextPacket)
            InWindow == Distance(nextSeq, Window(NextPacket).expected) \in 0 .. JitterSize - 1
            kept == jb'.slots[Slot(nextSeq)]
<1>1. JitterInv /\ [JitterNext]_jitterVars => [Arrives /\ ~Stale /\ InWindow
                                             => kept = NextPacket \/ (NearWrap(nextSeq) /\ kept # Silence)]_jitterVars
  <2>. SUFFICES ASSUME JitterInv, Arrives, ~Stale, InWindow
                  PROVE  kept = NextPacket \/ (NearWrap(nextSeq) /\ kept # Silence)
    OBVIOUS
  <2>. DEFINE p == NextPacket
              w == Window(p)
              i == Slot(p.seq)
  <2>1. nextSsrc \in Nat /\ p \in Packets(nextSsrc) /\ p.seq = nextSeq /\ p.seq \in Seqs
    <3>1. nextSsrc \in 0 .. nextSsrc /\ nextSeq \in Seqs
      BY DEF JitterInv
    <3>. QED BY <3>1 DEF NextPacket, Packet, Packets, JitterInv
  <2>2. i \in SlotIdx
    BY <2>1, SlotOf DEF Seqs
  <2>3. BufferOK(w, nextSsrc) /\ w.ssrc = p.ssrc
    BY <2>1, Windows DEF JitterInv
  <2>4. jb' = IF Fits(w, p) THEN [w EXCEPT !.slots[i] = p] ELSE w
    BY DEF Arrives, Push
  <2>5. Distance(p.seq, w.expected) \in 0 .. JitterSize - 1
    BY <2>1
  <2>0. kept = jb'.slots[i]
    BY <2>1
  <2>. HIDE DEF p, w, i, kept
  <2>6. w \in Buffers(nextSsrc) /\ w.slots \in [SlotIdx -> {Silence} \cup Packets(nextSsrc)] /\ w.expected \in Seqs
    BY <2>3 DEF BufferOK, Buffers
  <2>7. CASE Fits(w, p)
    <3>1. jb'.slots = [w.slots EXCEPT ![i] = p]
      BY <2>4, <2>6, <2>7 DEF Buffers
    <3>2. jb'.slots[i] = p
      BY <2>2, <2>6, <3>1
    <3>. QED BY <2>0, <3>2 DEF p
  <2>8. CASE ~Fits(w, p)
    <3>1. w.slots[i] # Silence
      BY <2>5, <2>8, Moduli DEF Fits, i
    <3>. DEFINE q == w.slots[i]
    <3>2. q \in Packets(nextSsrc) /\ q.seq \in Seqs
      BY <2>2, <2>6, <3>1 DEF Packets
    <3>3. q.ssrc = p.ssrc /\ Slot(q.seq) = i /\ Distance(q.seq, w.expected) \in 0 .. JitterSize - 1
      BY <2>2, <2>3, <3>1 DEF BufferOK, Stored
    <3>. HIDE DEF q
    <3>4. kept = q /\ q # Silence
      BY <2>0, <2>4, <2>8, <3>1 DEF q
    <3>5. p.seq = q.seq \/ NearWrap(p.seq)
      BY <2>1, <2>5, <2>6, <3>2, <3>3, OneSlotEach DEF i
    <3>6. p.seq = q.seq => q = p
      BY <2>1, <3>2, <3>3 DEF Packets
    <3>. QED BY <2>1, <3>4, <3>5, <3>6 DEF p
  <2>. QED BY <2>7, <2>8
<1>. QED BY <1>1, JitterInvHolds, PTL DEF JitterSpec, DiscardedForCause

-----------------------------------------------------------------------------
(* The jitter buffer: HeardInOrder. *)

Half == SeqModulus \div 2

\* Distance is the difference, a turn of the numbers more or less.
LEMMA DistanceIs ==
    ASSUME NEW a \in Seqs, NEW b \in Seqs
    PROVE  /\ a \in Nat /\ b \in Nat /\ Half \in Nat /\ SeqModulus \in Nat
           /\ 2 * Half <= SeqModulus /\ SeqModulus <= 2 * Half + 1
           /\ Distance(a, b) \in Int /\ Half - SeqModulus <= Distance(a, b) /\ Distance(a, b) < Half
           /\ Distance(a, b) \in {a - b, a - b + SeqModulus, a - b - SeqModulus}
<1>1. (a - b) % SeqModulus = IF a >= b THEN a - b ELSE a - b + SeqModulus
  BY AroundTheNumbers
<1>2. Distance(a, b) = IF (a - b) % SeqModulus < Half THEN (a - b) % SeqModulus
                       ELSE ((a - b) % SeqModulus) - SeqModulus
  BY DEF Distance, Half
<1>3. Half \in Nat /\ 2 * Half <= SeqModulus /\ SeqModulus <= 2 * Half + 1
  BY Moduli DEF Half
<1>4. a \in Nat /\ b \in Nat /\ a < SeqModulus /\ b < SeqModulus /\ SeqModulus \in Nat
  BY Moduli DEF Seqs
<1>. DEFINE d == (a - b) % SeqModulus
<1>5. d \in {a - b, a - b + SeqModulus} /\ 0 <= d /\ d < SeqModulus /\ d \in Int
  BY <1>1, <1>4
<1>. HIDE DEF d
<1>6. Distance(a, b) = IF d < Half THEN d ELSE d - SeqModulus
  BY <1>2 DEF d
<1>. HIDE DEF Half
<1>. QED
  BY <1>3, <1>4, <1>5, <1>6

\* Seen from the number t, two numbers are as far apart as their distances say.
LEMMA SeenFrom ==
    ASSUME NEW t \in Seqs, NEW a \in Seqs, NEW b \in Seqs,
           Distance(t, b) - Distance(t, a) < Half, Distance(t, a) - Distance(t, b) < Half
    PROVE  Distance(a, b) = Distance(t, b) - Distance(t, a)
<1>. HIDE DEF Half
<1>1. /\ a \in Nat /\ b \in Nat /\ t \in Nat /\ Half \in Nat /\ SeqModulus \in Nat
      /\ 2 * Half <= SeqModulus /\ SeqModulus <= 2 * Half + 1
  BY DistanceIs
<1>2. /\ Distance(a, b) \in Int /\ Half - SeqModulus <= Distance(a, b) /\ Distance(a, b) < Half
      /\ Distance(a, b) \in {a - b, a - b + SeqModulus, a - b - SeqModulus}
  BY DistanceIs
<1>3. /\ Distance(t, a) \in Int
      /\ Distance(t, a) \in {t - a, t - a + SeqModulus, t - a - SeqModulus}
  BY DistanceIs
<1>4. /\ Distance(t, b) \in Int
      /\ Distance(t, b) \in {t - b, t - b + SeqModulus, t - b - SeqModulus}
  BY DistanceIs
<1>5. \E k \in {0, SeqModulus, 2 * SeqModulus, 3 * SeqModulus} :
         \/ Distance(a, b) = Distance(t, b) - Distance(t, a) + k
         \/ Distance(a, b) = Distance(t, b) - Distance(t, a) - k
  BY <1>1, <1>2, <1>3, <1>4
<1>. DEFINE x == Distance(a, b)
            y == Distance(t, b) - Distance(t, a)
<1>6. x \in Int /\ y \in Int /\ Half - SeqModulus <= x /\ x < Half /\ y < Half /\ 0 - Half < y
  BY <1>1, <1>2, <1>3, <1>4
<1>7. PICK k \in {0, SeqModulus, 2 * SeqModulus, 3 * SeqModulus} : x = y + k \/ x = y - k
  BY <1>5
<1>. HIDE DEF x, y
<1>8. k \in Nat /\ (k = 0 \/ k >= SeqModulus)
  BY <1>1, <1>7
<1>9. k < SeqModulus
  BY <1>1, <1>6, <1>7, <1>8
<1>10. x = y
  BY <1>1, <1>6, <1>7, <1>8, <1>9
<1>. QED
  BY <1>10 DEF x, y

\* The number after t is one further from all that is not half a turn behind.
LEMMA OneFurther ==
    ASSUME NEW t \in Seqs, NEW a \in Seqs, Distance(t, a) + 1 < Half
    PROVE  /\ (t + 1) % SeqModulus \in Seqs
           /\ Distance((t + 1) % SeqModulus, a) = Distance(t, a) + 1
           /\ Distance((t + 1) % SeqModulus, t) = 1
<1>. DEFINE u == (t + 1) % SeqModulus
<1>1. u \in Seqs /\ u = IF t + 1 = SeqModulus THEN 0 ELSE t + 1
  BY Moduli, AroundTheNumbers DEF Seqs
<1>. HIDE DEF u
<1>2. /\ a \in Nat /\ t \in Nat /\ u \in Nat /\ Half \in Nat /\ SeqModulus \in Nat
      /\ 2 * Half <= SeqModulus /\ SeqModulus <= 2 * Half + 1 /\ SeqModulus > 3
  BY <1>1, DistanceIs, Moduli
<1>3. /\ Distance(u, a) \in Int /\ Half - SeqModulus <= Distance(u, a) /\ Distance(u, a) < Half
      /\ Distance(u, a) \in {u - a, u - a + SeqModulus, u - a - SeqModulus}
  BY <1>1, DistanceIs
<1>4. /\ Distance(u, t) \in Int /\ Half - SeqModulus <= Distance(u, t) /\ Distance(u, t) < Half
      /\ Distance(u, t) \in {u - t, u - t + SeqModulus, u - t - SeqModulus}
  BY <1>1, DistanceIs
<1>5. /\ Distance(t, a) \in Int /\ Half - SeqModulus <= Distance(t, a)
      /\ Distance(t, a) \in {t - a, t - a + SeqModulus, t - a - SeqModulus}
  BY DistanceIs
<1>. HIDE DEF Half
<1>6. Distance(u, t) = 1
  BY <1>1, <1>2, <1>4
<1>7. Distance(u, a) = Distance(t, a) + 1
  <2>. DEFINE x == Distance(u, a)
              y == Distance(t, a) + 1
  <2>1. x \in Int /\ y \in Int /\ Half - SeqModulus <= x /\ x < Half /\ Half - SeqModulus < y /\ y < Half
    BY <1>2, <1>3, <1>5
  <2>2. x = y \/ x - y >= SeqModulus \/ y - x >= SeqModulus
    BY <1>1, <1>2, <1>3, <1>5
  <2>. HIDE DEF x, y
  <2>3. x = y
    BY <1>2, <2>1, <2>2
  <2>. QED
    BY <2>3 DEF x, y
<1>. QED
  BY <1>1, <1>6, <1>7 DEF u

\* The number after a is one nearer.
LEMMA OneNearer ==
    ASSUME NEW t \in Seqs, NEW a \in Seqs, 0 - Half < Distance(t, a) - 1
    PROVE  /\ (a + 1) % SeqModulus \in Seqs
           /\ Distance(t, (a + 1) % SeqModulus) = Distance(t, a) - 1
<1>. DEFINE u == (a + 1) % SeqModulus
<1>1. u \in Seqs /\ u = IF a + 1 = SeqModulus THEN 0 ELSE a + 1
  BY Moduli, AroundTheNumbers DEF Seqs
<1>. HIDE DEF u
<1>2. /\ a \in Nat /\ t \in Nat /\ u \in Nat /\ Half \in Nat /\ SeqModulus \in Nat
      /\ 2 * Half <= SeqModulus /\ SeqModulus <= 2 * Half + 1
  BY <1>1, DistanceIs
<1>3. /\ Distance(t, u) \in Int /\ Half - SeqModulus <= Distance(t, u) /\ Distance(t, u) < Half
      /\ Distance(t, u) \in {t - u, t - u + SeqModulus, t - u - SeqModulus}
  BY <1>1, DistanceIs
<1>4. /\ Distance(t, a) \in Int /\ Distance(t, a) < Half
      /\ Distance(t, a) \in {t - a, t - a + SeqModulus, t - a - SeqModulus}
  BY DistanceIs
<1>. HIDE DEF Half
<1>. DEFINE x == Distance(t, u)
            y == Distance(t, a) - 1
<1>5. x \in Int /\ y \in Int /\ Half - SeqModulus <= x /\ x < Half /\ 0 - Half < y /\ y < Half
  BY <1>2, <1>3, <1>4
<1>6. x = y \/ x - y >= SeqModulus \/ y - x >= SeqModulus
  BY <1>1, <1>2, <1>3, <1>4
<1>. HIDE DEF x, y
<1>7. x = y
  BY <1>2, <1>5, <1>6
<1>. QED
  BY <1>1, <1>7 DEF x, y, u

\* A frame is played early by less than a window.
LEMMA EarlyIs == ASSUME NEW l PROVE Early(l) \in Int /\ 0 <= Early(l) /\ Early(l) < JitterSize
  BY LeftOver, Moduli DEF Early

\* How far Asterisk may be ahead of the frame that was heard last.
Reach == Half - MaxDelay - 6

\* Asterisk is at most Reach ahead of the frame that is due and of the last one it
\* was heard with: with 2^16 numbers and a frame every 20 ms no caller goes unheard
\* for more than ten minutes.
WithinReach ==
    jb.started /\ jb.ssrc = nextSsrc =>
        /\ Distance(nextSeq, jb.expected) <= Reach
        /\ lastHeard # Silence => Distance(nextSeq, lastHeard.seq) <= Reach

\* A buffer b that played l last, seen from the stream's next number t: what it
\* stores has been sent, and the number it waits for is at most r behind t, before t
\* only by its misses, and ahead of l, or behind it by less than l was early.
InStep(b, l, t, r) ==
    /\ b.state = "waiting" => b.misses = 0
    /\ ~b.started => l = Silence
    /\ b.started =>
        /\ 0 - b.misses <= Distance(t, b.expected) /\ Distance(t, b.expected) <= r
        /\ \A i \in SlotIdx : b.slots[i] # Silence =>
              1 <= Distance(t, b.slots[i].seq) /\ Distance(t, b.slots[i].seq) <= r
        /\ l # Silence => /\ l.seq \in Seqs /\ Distance(t, l.seq) <= r
                          /\ Distance(t, b.expected) < Distance(t, l.seq) + Early(l)

\* The reaches the proof needs: further than a packet may be delayed, and far
\* from half a turn.
Far(r) == r \in Int /\ MaxDelay + 1 <= r /\ r + MaxDelay + 5 <= Half

\* A packet more is sent.
LEMMA OneSent ==
    ASSUME NEW n \in Nat, NEW b, BufferOK(b, n), NEW l, NEW t \in Seqs, NEW r, Far(r), InStep(b, l, t, r)
    PROVE  InStep(b, l, (t + 1) % SeqModulus, r + 1)
<1>. DEFINE u == (t + 1) % SeqModulus
<1>1. b \in Buffers(n) /\ b.expected \in Seqs /\ b.misses \in Nat
  BY DEF BufferOK, Buffers
<1>2. Half \in Nat /\ r \in Int /\ r + 1 < Half /\ MaxDelay \in Nat
  BY DistanceIs, JitterAssumption DEF Far
<1>3. \A a \in Seqs : Distance(t, a) \in Int
  BY DistanceIs
<1>4. \A a \in Seqs : Distance(t, a) <= r => Distance(u, a) = Distance(t, a) + 1
  BY <1>2, <1>3, OneFurther
<1>. HIDE DEF u, Half
<1>5. CASE ~b.started
  BY <1>5 DEF InStep
<1>6. CASE b.started
  <2>1. 0 - b.misses <= Distance(u, b.expected) /\ Distance(u, b.expected) <= r + 1
    BY <1>1, <1>2, <1>3, <1>4, <1>6 DEF InStep
  <2>2. ASSUME l # Silence
        PROVE  /\ l.seq \in Seqs /\ Distance(u, l.seq) <= r + 1
               /\ Distance(u, b.expected) < Distance(u, l.seq) + Early(l)
    BY <1>1, <1>2, <1>3, <1>4, <1>6, <2>2, EarlyIs DEF InStep
  <2>3. ASSUME NEW i \in SlotIdx, b.slots[i] # Silence
        PROVE  1 <= Distance(u, b.slots[i].seq) /\ Distance(u, b.slots[i].seq) <= r + 1
    <3>1. b.slots[i].seq \in Seqs
      BY <1>1, <2>3 DEF Buffers, Packets
    <3>. QED
      BY <1>2, <1>3, <1>4, <1>6, <2>3, <3>1 DEF InStep
  <2>. QED
    BY <1>6, <2>1, <2>2, <2>3 DEF InStep, u
<1>. QED
  BY <1>5, <1>6

\* What was heard last and what is due first are within r: so is all the rest.
LEMMA Nearer ==
    ASSUME NEW n \in Nat, NEW b, BufferOK(b, n), NEW l, NEW t \in Seqs, NEW r, Far(r), InStep(b, l, t, r + 1),
           b.started => Distance(t, b.expected) <= r,
           b.started /\ l # Silence => Distance(t, l.seq) <= r
    PROVE  InStep(b, l, t, r)
<1>1. b \in Buffers(n) /\ b.expected \in Seqs /\ b.misses \in 0 .. 3
  BY DEF BufferOK, Buffers, StarveFreezeThreshold
<1>2. Half \in Nat /\ r \in Int /\ r + 5 <= Half
  BY DistanceIs, JitterAssumption DEF Far
<1>3. \A a \in Seqs : Distance(t, a) \in Int
  BY DistanceIs
<1>. HIDE DEF Half
<1>4. CASE b.started
  <2>1. Distance(t, b.expected) <= r /\ (l # Silence => Distance(t, l.seq) <= r)
    BY <1>1, <1>2, <1>3, <1>4 DEF InStep
  <2>2. ASSUME NEW i \in SlotIdx, b.slots[i] # Silence PROVE Distance(t, b.slots[i].seq) <= r
    <3>. DEFINE s == b.slots[i].seq
    <3>1. s \in Seqs /\ Distance(s, b.expected) \in 0 .. JitterSize - 1
      BY <1>1, <2>2 DEF BufferOK, Stored, Buffers, Packets
    <3>2. 1 <= Distance(t, s) /\ Distance(t, s) <= r + 1 /\ 0 - 3 <= Distance(t, b.expected)
      BY <1>1, <1>3, <1>4, <2>2 DEF InStep
    <3>. HIDE DEF s
    <3>3. Distance(s, b.expected) = Distance(t, b.expected) - Distance(t, s)
      <4>1. Distance(t, s) - Distance(t, b.expected) < Half /\ Distance(t, b.expected) - Distance(t, s) < Half
        BY <1>1, <1>2, <1>3, <2>1, <3>1, <3>2
      <4>. QED
        BY <1>1, <3>1, <4>1, SeenFrom
    <3>. QED
      BY <1>1, <1>2, <1>3, <2>1, <3>1, <3>3, Moduli DEF s
  <2>. QED
    BY <1>4, <2>1, <2>2 DEF InStep
<1>5. CASE ~b.started
  BY <1>5 DEF InStep
<1>. QED
  BY <1>4, <1>5

\* A packet is pushed: an emptied window begins ahead of what was heard.
LEMMA PushInStep ==
    ASSUME NEW n \in Nat, NEW p \in Packets(n), BufferOK(jb, n), NEW r, Far(r),
           NEW t \in Seqs, NEW u \in Seqs, InStep(jb, lastHeard, t, r), p.ssrc = jb.ssrc => u = t,
           1 <= Distance(u, p.seq), Distance(u, p.seq) <= MaxDelay + 1,
           Push(p), NotHeard
    PROVE  \/ jb'.ssrc = p.ssrc /\ InStep(jb', lastHeard', u, r)
           \/ jb'.ssrc = jb.ssrc /\ InStep(jb', lastHeard', t, r)
<1>. DEFINE w == Window(p)
            stale == jb.started /\ p.ssrc = jb.ssrc /\ StaleWhileFrozen(p)
<1>1. jb \in Buffers(n) /\ jb.expected \in Seqs /\ jb.misses \in 0 .. 3 /\ p.seq \in Seqs /\ Slot(p.seq) \in SlotIdx
  BY SlotOf DEF BufferOK, Buffers, StarveFreezeThreshold, Packets, Seqs
<1>2. Half \in Nat /\ r \in Int /\ r + MaxDelay + 5 <= Half /\ MaxDelay \in Nat /\ MaxDelay + 1 <= r
  BY DistanceIs, JitterAssumption DEF Far
<1>3. \A a \in Seqs : Distance(t, a) \in Int /\ Distance(u, a) \in Int
  BY DistanceIs
<1>4. w = Anchor(p) \/ (w = jb /\ jb.started /\ p.ssrc = jb.ssrc)
  BY DEF Window, Begin
<1>5. /\ stale => jb' = jb
      /\ ~stale => jb' = IF Fits(w, p) THEN [w EXCEPT !.slots[Slot(p.seq)] = p] ELSE w
  BY DEF Push
<1>6. w \in Buffers(n)
  BY Windows DEF BufferOK
<1>7. CASE jb' = jb
  BY <1>7 DEF NotHeard, InStep
<1>8. CASE ~stale
  <2>1. /\ jb' \in Buffers(n) /\ jb'.state = w.state /\ jb'.misses = w.misses /\ jb'.started = w.started
        /\ jb'.expected = w.expected /\ jb'.ssrc = w.ssrc
        /\ \A i \in SlotIdx : jb'.slots[i] \in {w.slots[i], p}
    <3>1. CASE Fits(w, p)
      <4>. DEFINE s == [w.slots EXCEPT ![Slot(p.seq)] = p]
      <4>1. s \in [SlotIdx -> {Silence} \cup Packets(n)] /\ \A i \in SlotIdx : s[i] \in {w.slots[i], p}
        BY <1>1, <1>6 DEF Buffers
      <4>2. jb' = [w EXCEPT !.slots = s]
        BY <1>5, <1>6, <1>8, <3>1 DEF Buffers
      <4>. HIDE DEF s, w
      <4>. QED
        BY <1>6, <4>1, <4>2 DEF Buffers
    <3>2. CASE ~Fits(w, p)
      BY <1>5, <1>6, <1>8, <3>2
    <3>. QED
      BY <3>1, <3>2
  <2>2. CASE w = Anchor(p)
    <3>1. /\ w.started /\ w.state = "waiting" /\ w.misses = 0 /\ w.expected = p.seq /\ w.ssrc = p.ssrc
          /\ \A i \in SlotIdx : w.slots[i] = Silence
      BY <2>2 DEF Anchor, NoFrames
    <3>2. \A i \in SlotIdx : jb'.slots[i] # Silence =>
             1 <= Distance(u, jb'.slots[i].seq) /\ Distance(u, jb'.slots[i].seq) <= r
      BY <1>1, <1>2, <1>3, <2>1, <3>1
    <3>3. 0 - 0 <= Distance(u, p.seq) /\ Distance(u, p.seq) <= r
      BY <1>1, <1>2, <1>3
    <3>4. ASSUME lastHeard' # Silence
          PROVE  /\ lastHeard'.seq \in Seqs /\ Distance(u, lastHeard'.seq) <= r
                 /\ Distance(u, p.seq) < Distance(u, lastHeard'.seq) + Early(lastHeard')
      <4>1. p.ssrc = jb.ssrc /\ lastHeard' = lastHeard /\ u = t
        BY <2>1, <3>1, <3>4 DEF NotHeard
      <4>2. CASE w = jb
        BY <2>1, <3>1, <3>4, <4>1, <4>2 DEF InStep
      <4>3. CASE w # jb
        <5>1. jb.started
          BY <3>4, <4>1 DEF InStep
        <5>2. \/ jb.state = "frozen"
              \/ jb.state = "waiting" /\ Distance(p.seq, jb.expected) >= JitterSize
          BY <4>1, <4>3, <5>1 DEF Window
        <5>3. Distance(p.seq, jb.expected) >= 0
          <6>1. Distance(p.seq, jb.expected) \in Int
            BY <1>1, DistanceIs
          <6>2. CASE jb.state = "frozen"
            BY <1>8, <4>1, <5>1, <6>1, <6>2 DEF StaleWhileFrozen
          <6>3. CASE Distance(p.seq, jb.expected) >= JitterSize
            BY <6>1, <6>3, Moduli
          <6>. QED
            BY <5>2, <6>2, <6>3
        <5>4. /\ 0 - 3 <= Distance(t, jb.expected) /\ Distance(t, jb.expected) <= r
              /\ lastHeard.seq \in Seqs /\ Distance(t, lastHeard.seq) <= r
              /\ Distance(t, jb.expected) < Distance(t, lastHeard.seq) + Early(lastHeard)
          BY <1>1, <1>3, <3>4, <4>1, <5>1 DEF InStep
        <5>5. Distance(p.seq, jb.expected) = Distance(t, jb.expected) - Distance(t, p.seq)
          <6>. HIDE DEF Half
          <6>1. Distance(t, p.seq) - Distance(t, jb.expected) < Half /\ Distance(t, jb.expected) - Distance(t, p.seq) < Half
            BY <1>1, <1>2, <1>3, <4>1, <5>4
          <6>. QED
            BY <1>1, <6>1, SeenFrom
        <5>. QED
          BY <1>1, <1>3, <4>1, <5>3, <5>4, <5>5, EarlyIs
      <4>. QED
        BY <4>2, <4>3
    <3>. QED
      BY <2>1, <3>1, <3>2, <3>3, <3>4 DEF InStep
  <2>3. CASE w = jb /\ jb.started /\ p.ssrc = jb.ssrc
    <3>1. lastHeard' = lastHeard /\ u = t
      BY <2>1, <2>3 DEF NotHeard
    <3>2. \A i \in SlotIdx : jb'.slots[i] # Silence =>
             1 <= Distance(t, jb'.slots[i].seq) /\ Distance(t, jb'.slots[i].seq) <= r
      BY <1>1, <1>2, <1>3, <2>1, <2>3, <3>1 DEF InStep
    <3>. QED
      BY <2>1, <2>3, <3>1, <3>2 DEF InStep
  <2>. QED
    BY <1>4, <2>2, <2>3
<1>. QED
  BY <1>5, <1>7, <1>8

\* A tick of the release loop: what it returns is ahead of what it returned before,
\* and the number due next ahead of that, but for what was early at the wrap.
LEMMA ReleaseInStep ==
    ASSUME NEW n \in Nat, BufferOK(jb, n), NEW r, Far(r),
           NEW t \in Seqs, InStep(jb, lastHeard, t, r), Release
    PROVE  /\ jb'.ssrc = jb.ssrc /\ InStep(jb', lastHeard', t, r)
           /\ heard' # Silence /\ lastHeard # Silence
                => Distance(heard'.seq, lastHeard.seq) > 0 - Early(lastHeard)
<1>1. /\ jb \in Buffers(n) /\ jb.expected \in Seqs /\ jb.misses \in 0 .. 3 /\ Slot(jb.expected) \in SlotIdx
      /\ jb.slots \in [SlotIdx -> {Silence} \cup Packets(n)]
  BY SlotOf DEF BufferOK, Buffers, StarveFreezeThreshold, Seqs
<1>2. Half \in Nat /\ r \in Int /\ r + MaxDelay + 5 <= Half /\ MaxDelay \in Nat /\ MaxDelay + 1 <= r
  BY DistanceIs, JitterAssumption DEF Far
<1>3. \A a \in Seqs : Distance(t, a) \in Int
  BY DistanceIs
<1>. HIDE DEF Half
<1>4. CASE ~jb.started
  BY <1>4 DEF Release, Hear
<1>5. CASE jb.started /\ Primes
  <2>1. jb' = [jb EXCEPT !.primingTicks = @ + 1] /\ heard' = Silence /\ lastHeard' = lastHeard
    BY <1>5 DEF Release, Hear
  <2>2. /\ jb'.state = jb.state /\ jb'.misses = jb.misses /\ jb'.slots = jb.slots /\ jb'.started = jb.started
        /\ jb'.expected = jb.expected /\ jb'.ssrc = jb.ssrc
    BY <1>1, <2>1 DEF Buffers
  <2>. QED
    BY <2>1, <2>2 DEF InStep
<1>6. CASE jb.started /\ ~Primes
  <2>. DEFINE b == Activated
              f == b.slots[Slot(jb.expected)]
              e == (b.expected + 1) % SeqModulus
  <2>1. /\ b.slots = jb.slots /\ b.expected = jb.expected /\ b.ssrc = jb.ssrc /\ b.started = jb.started
        /\ b.misses = jb.misses /\ b.state \in {"active", "frozen"}
        /\ DOMAIN b = DOMAIN jb /\ b = [x \in DOMAIN jb |-> b[x]]
    <3>. DEFINE k == IF Priming THEN [jb EXCEPT !.primingTicks = @ + 1] ELSE jb
    <3>1. /\ k.slots = jb.slots /\ k.expected = jb.expected /\ k.ssrc = jb.ssrc /\ k.started = jb.started
          /\ k.misses = jb.misses /\ k.state = jb.state /\ DOMAIN k = DOMAIN jb /\ k = [x \in DOMAIN jb |-> k[x]]
      BY <1>1 DEF Buffers
    <3>2. b = IF jb.state = "waiting" THEN [k EXCEPT !.state = "active", !.misses = 0] ELSE k
      BY DEF Activated
    <3>3. jb.state = "waiting" => jb.misses = 0
      BY DEF InStep
    <3>4. jb.state \in {"waiting", "active", "frozen"}
      BY <1>1 DEF Buffers
    <3>5. DOMAIN jb = {"started", "state", "misses", "primingTicks", "expected", "ssrc", "slots"}
      BY <1>1 DEF Buffers
    <3>. HIDE DEF k, b
    <3>6. CASE jb.state = "waiting"
      BY <3>1, <3>2, <3>3, <3>5, <3>6
    <3>7. CASE jb.state # "waiting"
      BY <3>1, <3>2, <3>4, <3>5, <3>7
    <3>. QED
      BY <3>6, <3>7
  <2>2. /\ jb' = IF f # Silence THEN Pop(b) ELSE Miss(b)
        /\ heard' = f /\ lastHeard' = IF f = Silence THEN lastHeard ELSE f
    BY <1>6 DEF Release, Hear
  <2>3. f = jb.slots[Slot(jb.expected)] /\ f \in {Silence} \cup Packets(n)
    BY <1>1, <2>1
  <2>4. /\ 0 - jb.misses <= Distance(t, jb.expected) /\ Distance(t, jb.expected) <= r
        /\ \A i \in SlotIdx : jb.slots[i] # Silence =>
              1 <= Distance(t, jb.slots[i].seq) /\ Distance(t, jb.slots[i].seq) <= r
        /\ lastHeard # Silence => /\ lastHeard.seq \in Seqs /\ Distance(t, lastHeard.seq) <= r
                                  /\ Distance(t, jb.expected) < Distance(t, lastHeard.seq) + Early(lastHeard)
    BY <1>6 DEF InStep
  <2>5. e \in Seqs /\ Distance(t, e) = Distance(t, jb.expected) - 1
    <3>1. 0 - Half < Distance(t, jb.expected) - 1
      BY <1>1, <1>2, <1>3, <2>4
    <3>. QED
      BY <1>1, <2>1, <3>1, OneNearer
  <2>6. DOMAIN jb = {"started", "state", "misses", "primingTicks", "expected", "ssrc", "slots"}
    BY <1>1 DEF Buffers
  <2>. HIDE DEF b, e, f
  <2>7. CASE f # Silence
    <3>1. f \in Packets(n) /\ f.seq \in Seqs
      BY <2>3, <2>7 DEF Packets
    <3>2. /\ 1 <= Distance(t, f.seq) /\ Distance(t, f.seq) <= r /\ Distance(t, f.seq) <= Distance(t, jb.expected)
          /\ Distance(t, jb.expected) <= Distance(t, f.seq) + Early(f)
      <4>1. Slot(f.seq) = Slot(jb.expected) /\ Distance(f.seq, jb.expected) \in 0 .. JitterSize - 1
        BY <1>1, <2>3, <2>7 DEF BufferOK, Stored
      <4>2. Distance(jb.expected, jb.expected) = 0
        <5>1. 0 < Half
          BY <1>2
        <5>2. Distance(jb.expected, jb.expected) = Distance(t, jb.expected) - Distance(t, jb.expected)
          BY <1>1, <1>3, <5>1, SeenFrom
        <5>. QED
          BY <1>1, <1>3, <5>2
      <4>3. Distance(f.seq, jb.expected) <= Early(f)
        <5>1. Distance(jb.expected, jb.expected) \in 0 .. JitterSize - 1
          BY <4>2, Moduli
        <5>2. \/ f.seq = jb.expected
              \/ f.seq < Unaligned /\ Distance(f.seq, jb.expected) = Distance(jb.expected, jb.expected) + Unaligned
              \/ Distance(jb.expected, jb.expected) = Distance(f.seq, jb.expected) + Unaligned
          BY <1>1, <3>1, <4>1, <5>1, OneSlotEach
        <5>. QED
          BY <4>1, <4>2, <5>2, EarlyIs, LeftOver, Moduli DEF Early
      <4>4. 1 <= Distance(t, f.seq) /\ Distance(t, f.seq) <= r
        BY <1>1, <2>3, <2>4, <2>7
      <4>5. Distance(f.seq, jb.expected) = Distance(t, jb.expected) - Distance(t, f.seq)
        <5>1. /\ Distance(t, jb.expected) - Distance(t, f.seq) < Half
              /\ Distance(t, f.seq) - Distance(t, jb.expected) < Half
          BY <1>1, <1>2, <1>3, <2>4, <3>1, <4>4
        <5>. QED
          BY <1>1, <3>1, <5>1, SeenFrom
      <4>. QED
        BY <1>1, <1>3, <3>1, <4>1, <4>3, <4>4, <4>5, EarlyIs, Moduli
    <3>3. /\ jb' = [b EXCEPT !.slots[Slot(b.expected)] = Silence, !.expected = e, !.misses = 0]
          /\ heard' = f /\ lastHeard' = f
      BY <2>2, <2>7 DEF Pop, e
    <3>4. /\ jb'.started = jb.started /\ jb'.ssrc = jb.ssrc /\ jb'.expected = e /\ jb'.misses = 0
          /\ jb'.state \in {"active", "frozen"}
          /\ jb'.slots = [jb.slots EXCEPT ![Slot(jb.expected)] = Silence]
      BY <2>1, <2>6, <3>3
    <3>5. \A i \in SlotIdx : jb'.slots[i] # Silence => jb'.slots[i] = jb.slots[i]
      BY <1>1, <3>4
    <3>6. 1 <= Distance(t, jb.expected)
      BY <1>1, <1>3, <3>1, <3>2
    <3>7. InStep(jb', lastHeard', t, r)
      <4>1. /\ 0 - 0 <= Distance(t, e) /\ Distance(t, e) <= r
        BY <1>1, <1>2, <1>3, <2>4, <2>5, <3>6
      <4>2. f.seq \in Seqs /\ Distance(t, f.seq) <= r /\ Distance(t, e) < Distance(t, f.seq) + Early(f)
        BY <1>1, <1>3, <2>5, <3>1, <3>2, EarlyIs
      <4>3. \A i \in SlotIdx : jb'.slots[i] # Silence =>
              1 <= Distance(t, jb'.slots[i].seq) /\ Distance(t, jb'.slots[i].seq) <= r
        BY <2>4, <3>5
      <4>. QED
        BY <1>6, <3>3, <3>4, <4>1, <4>2, <4>3 DEF InStep
    <3>8. ASSUME lastHeard # Silence PROVE Distance(f.seq, lastHeard.seq) > 0 - Early(lastHeard)
      <4>1. /\ lastHeard.seq \in Seqs /\ Distance(t, lastHeard.seq) <= r
            /\ Distance(t, jb.expected) < Distance(t, lastHeard.seq) + Early(lastHeard)
        BY <2>4, <3>8
      <4>2. Distance(t, f.seq) - Distance(t, lastHeard.seq) < Early(lastHeard)
        BY <1>1, <1>3, <3>1, <3>2, <4>1, EarlyIs
      <4>3. JitterSize < Half
        BY Moduli DEF Half
      <4>4. /\ Distance(t, lastHeard.seq) - Distance(t, f.seq) < Half
            /\ Distance(t, f.seq) - Distance(t, lastHeard.seq) < Half
        BY <1>2, <1>3, <3>1, <3>2, <4>1, <4>2, <4>3, EarlyIs, Moduli
      <4>5. Distance(f.seq, lastHeard.seq) = Distance(t, lastHeard.seq) - Distance(t, f.seq)
        BY <3>1, <4>1, <4>4, SeenFrom
      <4>. QED
        BY <1>3, <3>1, <4>1, <4>2, <4>5, EarlyIs
    <3>. QED
      BY <3>3, <3>4, <3>7, <3>8
  <2>8. CASE f = Silence
    <3>1. jb' = Miss(b) /\ heard' = Silence /\ lastHeard' = lastHeard
      BY <2>2, <2>8
    <3>2. CASE b.state = "frozen"
      <4>1. jb' = b
        BY <3>1, <3>2 DEF Miss
      <4>. QED
        BY <1>6, <2>1, <2>4, <3>1, <4>1 DEF InStep
    <3>3. CASE b.state # "frozen"
      <4>1. /\ jb'.started = jb.started /\ jb'.ssrc = jb.ssrc /\ jb'.expected = e /\ jb'.misses = jb.misses + 1
            /\ jb'.state \in {"active", "frozen"} /\ jb'.slots = jb.slots
        BY <2>1, <2>6, <3>1, <3>3 DEF Miss, e
      <4>2. 0 - (jb.misses + 1) <= Distance(t, e) /\ Distance(t, e) <= r
        BY <1>1, <1>2, <1>3, <2>4, <2>5
      <4>3. lastHeard # Silence => Distance(t, e) < Distance(t, lastHeard.seq) + Early(lastHeard)
        BY <1>1, <1>3, <2>4, <2>5, EarlyIs
      <4>. QED
        BY <1>6, <2>4, <3>1, <4>1, <4>2, <4>3 DEF InStep
    <3>. QED
      BY <3>2, <3>3
  <2>. QED
    BY <2>7, <2>8
<1>. QED
  BY <1>4, <1>5, <1>6

\* Each stream's next number: the last of an old stream, and what is on its way
\* of it, is no longer behind than a packet may be delayed.
TopsOK(top) ==
    /\ top \in [0 .. nextSsrc -> Seqs] /\ top[nextSsrc] = nextSeq
    /\ \A p \in delayed : 1 <= Distance(top[p.ssrc], p.seq) /\ Distance(top[p.ssrc], p.seq) <= MaxDelay + 1

Streams(top) == TopsOK(top) /\ InStep(jb, lastHeard, top[jb.ssrc], Reach)

OrderInv == JitterInv /\ \E top : Streams(top)

\* A packet is delayed for less than about a quarter of a turn.
DelaysShort == 2 * MaxDelay + 7 <= SeqModulus \div 2

\* The reaches are far enough.
LEMMA Reaches == ASSUME DelaysShort PROVE Far(Reach) /\ Far(Reach + 1) /\ Reach + 1 < Half /\ Reach \in Int
  BY DistanceIs, Moduli, JitterAssumption DEF DelaysShort, Far, Reach, Half

\* Asterisk sends a packet, which is pushed or not: all stays in order.
LEMMA SendInStep ==
    ASSUME DelaysShort, JitterInv, JitterInv', WithinReach', NEW top, Streams(top), Sends,
           Push(NextPacket) \/ UNCHANGED jb, NotHeard,
           delayed' \subseteq delayed \cup {NextPacket}
    PROVE  \E new : Streams(new)'
<1>. DEFINE u == (nextSeq + 1) % SeqModulus
            p == NextPacket
<1>0. PICK new : new = [top EXCEPT ![nextSsrc] = u]
  OBVIOUS
<1>1. /\ nextSsrc \in Nat /\ nextSsrc' = nextSsrc /\ nextSeq' = u /\ nextSeq \in Seqs
      /\ top \in [0 .. nextSsrc -> Seqs] /\ top[nextSsrc] = nextSeq /\ jb.ssrc \in 0 .. nextSsrc
      /\ BufferOK(jb, nextSsrc) /\ BufferOK(jb', nextSsrc) /\ delayed \subseteq Packets(nextSsrc)
  BY DEF JitterInv, BufferOK, Buffers, Streams, TopsOK, Sends
<1>2. p.seq = nextSeq /\ p.ssrc = nextSsrc /\ p \in Packets(nextSsrc)
  <2>1. nextSsrc \in 0 .. nextSsrc
    BY <1>1
  <2>. QED
    BY <1>1, <2>1 DEF NextPacket, Packet, Packets
<1>3. Far(Reach) /\ Far(Reach + 1) /\ Reach + 1 < Half /\ Reach \in Int /\ Half \in Nat /\ MaxDelay \in Nat
  BY Reaches, DistanceIs, JitterAssumption, <1>1
<1>4. u \in Seqs
  BY <1>1, Moduli, AroundTheNumbers DEF Seqs
<1>5. new \in [0 .. nextSsrc -> Seqs] /\ new[nextSsrc] = u /\ \A s \in 0 .. nextSsrc : s # nextSsrc => new[s] = top[s]
  BY <1>0, <1>1, <1>4
<1>6. Distance(u, nextSeq) = 1
  <2>1. Distance(nextSeq, nextSeq) = 0
    <3>1. Distance(nextSeq, nextSeq) \in Int /\ 0 < Half
      BY <1>1, <1>3, DistanceIs DEF Far
    <3>2. Distance(nextSeq, nextSeq) = Distance(nextSeq, nextSeq) - Distance(nextSeq, nextSeq)
      BY <1>1, <3>1, SeenFrom
    <3>. QED
      BY <3>1, <3>2
  <2>2. Distance(nextSeq, nextSeq) + 1 < Half
    BY <1>3, <2>1 DEF Far
  <2>. QED
    BY <1>1, <2>2, OneFurther
<1>. HIDE DEF u, p, Half, Reach
<1>7. TopsOK(new)'
  <2>. SUFFICES ASSUME NEW q \in delayed'
                PROVE  1 <= Distance(new[q.ssrc], q.seq) /\ Distance(new[q.ssrc], q.seq) <= MaxDelay + 1
    BY <1>1, <1>5 DEF TopsOK
  <2>1. CASE q = p
    BY <1>2, <1>3, <1>5, <1>6, <2>1
  <2>2. CASE q \in delayed
    <3>1. q.ssrc \in 0 .. nextSsrc /\ q.seq \in Seqs
      BY <1>1, <2>2 DEF Packets
    <3>2. 1 <= Distance(top[q.ssrc], q.seq) /\ Distance(top[q.ssrc], q.seq) <= MaxDelay + 1
      BY <2>2 DEF Streams, TopsOK
    <3>3. CASE q.ssrc # nextSsrc
      BY <1>5, <3>1, <3>2, <3>3
    <3>4. CASE q.ssrc = nextSsrc
      <4>1. Distance(nextSeq, q.seq) < MaxDelay /\ 1 <= Distance(nextSeq, q.seq)
        BY <1>1, <2>2, <3>2, <3>4 DEF Sends, InTime
      <4>2. Distance(nextSeq, q.seq) \in Int /\ MaxDelay < Half
        BY <1>1, <1>3, <3>1, DistanceIs DEF Far
      <4>3. Distance(nextSeq, q.seq) + 1 < Half
        BY <1>3, <4>1, <4>2
      <4>4. Distance(u, q.seq) = Distance(nextSeq, q.seq) + 1
        BY <1>1, <3>1, <4>3, OneFurther DEF u
      <4>. QED
        BY <1>3, <1>5, <3>4, <4>1, <4>2, <4>4
    <3>. QED
      BY <3>3, <3>4
  <2>. QED
    BY <2>1, <2>2 DEF p
<1>8. InStep(jb, lastHeard, new[jb.ssrc], Reach + 1)
  <2>1. InStep(jb, lastHeard, top[jb.ssrc], Reach)
    BY DEF Streams
  <2>2. top[jb.ssrc] \in Seqs
    BY <1>1
  <2>3. CASE jb.ssrc = nextSsrc
    BY <1>1, <1>3, <1>5, <2>1, <2>2, <2>3, OneSent DEF u
  <2>4. CASE jb.ssrc # nextSsrc
    <3>1. \A a \in Seqs : Distance(top[jb.ssrc], a) \in Int
      BY <2>2, DistanceIs
    <3>2. jb \in Buffers(nextSsrc)
      BY <1>1 DEF BufferOK
    <3>3. jb.expected \in Seqs /\ \A i \in SlotIdx : jb.slots[i] # Silence => jb.slots[i].seq \in Seqs
      BY <3>2 DEF Buffers, Packets
    <3>4. InStep(jb, lastHeard, top[jb.ssrc], Reach + 1)
      BY <1>3, <2>1, <3>1, <3>3 DEF InStep
    <3>. QED
      BY <1>1, <1>5, <2>4, <3>4
  <2>. QED
    BY <2>3, <2>4
<1>9. jb'.ssrc \in 0 .. nextSsrc /\ InStep(jb', lastHeard', new[jb'.ssrc], Reach + 1)
  <2>1. CASE UNCHANGED jb
    BY <1>1, <1>8, <2>1 DEF NotHeard
  <2>2. CASE Push(p)
    <3>1. new[jb.ssrc] \in Seqs /\ new[p.ssrc] \in Seqs /\ Distance(new[p.ssrc], p.seq) = 1
      BY <1>1, <1>2, <1>4, <1>5, <1>6
    <3>2. 1 <= Distance(new[p.ssrc], p.seq) /\ Distance(new[p.ssrc], p.seq) <= MaxDelay + 1
      BY <1>3, <3>1
    <3>3. \/ jb'.ssrc = p.ssrc /\ InStep(jb', lastHeard', new[p.ssrc], Reach + 1)
          \/ jb'.ssrc = jb.ssrc /\ InStep(jb', lastHeard', new[jb.ssrc], Reach + 1)
      BY <1>1, <1>2, <1>3, <1>8, <2>2, <3>1, <3>2, PushInStep
    <3>. QED
      BY <1>1, <1>2, <3>3
  <2>. QED
    BY <2>1, <2>2 DEF p
<1>10. InStep(jb', lastHeard', new[jb'.ssrc], Reach)
  <2>1. CASE jb'.ssrc = nextSsrc
    <3>1. /\ jb'.started => Distance(u, jb'.expected) <= Reach
          /\ jb'.started /\ lastHeard' # Silence => Distance(u, lastHeard'.seq) <= Reach
      BY <1>1, <2>1 DEF WithinReach, Reach, Half
    <3>. QED
      BY <1>1, <1>3, <1>4, <1>5, <1>9, <2>1, <3>1, Nearer
  <2>2. CASE jb'.ssrc # nextSsrc
    <3>1. new[jb'.ssrc] = top[jb'.ssrc] /\ top[jb'.ssrc] \in Seqs
      BY <1>1, <1>5, <1>9, <2>2
    <3>2. jb' = jb
      <4>1. CASE Push(p)
        <5>1. jb' = jb \/ jb'.ssrc = p.ssrc
          <6>1. BufferOK(Window(p), nextSsrc) /\ Window(p).ssrc = p.ssrc
            BY <1>1, <1>2, Windows
          <6>2. \/ jb' = jb \/ jb' = Window(p) \/ jb' = [Window(p) EXCEPT !.slots[Slot(p.seq)] = p]
            BY <4>1 DEF Push
          <6>. QED
            BY <6>1, <6>2 DEF BufferOK, Buffers
        <5>. QED
          BY <1>2, <2>2, <5>1
      <4>. QED
        BY <4>1 DEF p
    <3>3. lastHeard' = lastHeard
      BY <3>2 DEF NotHeard
    <3>. QED
      BY <3>1, <3>2, <3>3 DEF Streams
  <2>. QED
    BY <2>1, <2>2
<1>11. Streams(new)'
  BY <1>7, <1>10 DEF Streams
<1>. QED
  BY <1>11

\* Every step keeps the streams in order, and plays them so.
LEMMA StreamsStep ==
    ASSUME DelaysShort, OrderInv, JitterInv', WithinReach', [JitterNext]_jitterVars
    PROVE  /\ OrderInv'
           /\ \/ UNCHANGED jitterVars
              \/ heard' # Silence /\ lastHeard # Silence
                   => Distance(heard'.seq, lastHeard.seq) > 0 - Early(lastHeard)
<1>0. JitterInv /\ Far(Reach)
  BY Reaches DEF OrderInv
<1>1. PICK top : Streams(top)
  BY DEF OrderInv
<1>2. /\ nextSsrc \in Nat /\ top \in [0 .. nextSsrc -> Seqs] /\ jb.ssrc \in 0 .. nextSsrc
      /\ BufferOK(jb, nextSsrc) /\ delayed \subseteq Packets(nextSsrc) /\ top[nextSsrc] = nextSeq
  BY <1>0, <1>1 DEF JitterInv, BufferOK, Buffers, Streams, TopsOK
<1>3. CASE Arrives \/ Lost \/ Delayed \/ Duplicated
  <2>1. /\ Sends /\ (Push(NextPacket) \/ UNCHANGED jb) /\ NotHeard
        /\ delayed' \subseteq delayed \cup {NextPacket}
    BY <1>3 DEF Arrives, Lost, Delayed, Duplicated
  <2>2. \E new : Streams(new)'
    BY <1>0, <1>1, <2>1, SendInStep
  <2>. QED
    BY <2>1, <2>2 DEF OrderInv, NotHeard
<1>4. ASSUME NEW p \in delayed, ArrivesLate(p)
      PROVE  OrderInv' /\ heard' = Silence
  <2>1. /\ delayed' \subseteq delayed /\ Push(p) /\ NotHeard /\ nextSeq' = nextSeq /\ nextSsrc' = nextSsrc
    BY <1>4 DEF ArrivesLate
  <2>2. p \in Packets(nextSsrc) /\ p.ssrc \in 0 .. nextSsrc
    BY <1>2 DEF Packets
  <2>3. /\ top[p.ssrc] \in Seqs /\ top[jb.ssrc] \in Seqs
        /\ 1 <= Distance(top[p.ssrc], p.seq) /\ Distance(top[p.ssrc], p.seq) <= MaxDelay + 1
        /\ InStep(jb, lastHeard, top[jb.ssrc], Reach)
    BY <1>1, <1>2, <2>2 DEF Streams, TopsOK
  <2>4. InStep(jb', lastHeard', top[jb'.ssrc], Reach)
    <3>1. \/ jb'.ssrc = p.ssrc /\ InStep(jb', lastHeard', top[p.ssrc], Reach)
          \/ jb'.ssrc = jb.ssrc /\ InStep(jb', lastHeard', top[jb.ssrc], Reach)
      BY <1>0, <1>2, <2>1, <2>2, <2>3, PushInStep
    <3>. QED
      BY <3>1
  <2>5. TopsOK(top)'
    BY <1>1, <2>1 DEF Streams, TopsOK
  <2>6. Streams(top)'
    BY <2>4, <2>5 DEF Streams, Reach, Half
  <2>. QED
    BY <2>1, <2>6 DEF OrderInv, NotHeard
<1>5. ASSUME NEW seq \in {0, SeqModulus - 1}, Restarts(seq)
      PROVE  OrderInv' /\ heard' = Silence
  <2>1. /\ nextSeq' = seq /\ nextSsrc' = nextSsrc + 1 /\ delayed' = delayed /\ jb' = jb /\ NotHeard
        /\ seq \in Seqs /\ lastHeard' = lastHeard
    BY <1>5, Moduli DEF Restarts, Seqs, NotHeard
  <2>2. PICK new : new = [s \in 0 .. nextSsrc + 1 |-> IF s = nextSsrc + 1 THEN seq ELSE top[s]]
    OBVIOUS
  <2>3. /\ new \in [0 .. nextSsrc + 1 -> Seqs] /\ new[nextSsrc + 1] = seq
        /\ \A s \in 0 .. nextSsrc : new[s] = top[s]
    BY <1>2, <2>1, <2>2
  <2>4. \A q \in delayed : new[q.ssrc] = top[q.ssrc]
    BY <1>2, <2>3 DEF Packets
  <2>5. TopsOK(new)'
    BY <1>1, <2>1, <2>3, <2>4 DEF Streams, TopsOK
  <2>6. InStep(jb', lastHeard', new[jb'.ssrc], Reach)
    BY <1>1, <1>2, <2>1, <2>3 DEF Streams
  <2>7. Streams(new)'
    BY <2>5, <2>6 DEF Streams, Reach, Half
  <2>. QED
    BY <2>1, <2>7 DEF OrderInv, NotHeard
<1>6. CASE ReleaseTick \/ ExtraTick
  <2>1. Release /\ nextSeq' = nextSeq /\ nextSsrc' = nextSsrc /\ delayed' = delayed
    BY <1>6 DEF ReleaseTick, ExtraTick
  <2>2. top[jb.ssrc] \in Seqs /\ InStep(jb, lastHeard, top[jb.ssrc], Reach)
    BY <1>1, <1>2 DEF Streams
  <2>3. /\ jb'.ssrc = jb.ssrc /\ InStep(jb', lastHeard', top[jb.ssrc], Reach)
        /\ heard' # Silence /\ lastHeard # Silence
             => Distance(heard'.seq, lastHeard.seq) > 0 - Early(lastHeard)
    BY <1>0, <1>2, <2>1, <2>2, ReleaseInStep
  <2>4. TopsOK(top)'
    BY <1>1, <2>1 DEF Streams, TopsOK
  <2>5. Streams(top)'
    BY <2>3, <2>4 DEF Streams, Reach, Half
  <2>. QED
    BY <2>3, <2>5 DEF OrderInv
<1>7. CASE SkippedTick
  <2>1. /\ nextSeq' = nextSeq /\ nextSsrc' = nextSsrc /\ delayed' = delayed /\ jb' = jb
        /\ heard' = Silence /\ lastHeard' = lastHeard
    BY <1>7 DEF SkippedTick, NotHeard
  <2>2. Streams(top)'
    BY <1>1, <2>1 DEF Streams, TopsOK, Reach, Half
  <2>. QED
    BY <2>1, <2>2 DEF OrderInv
<1>8. CASE UNCHANGED jitterVars
  <2>1. /\ nextSeq' = nextSeq /\ nextSsrc' = nextSsrc /\ delayed' = delayed /\ jb' = jb
        /\ lastHeard' = lastHeard
    BY <1>8 DEF jitterVars, netVars
  <2>2. Streams(top)'
    BY <1>1, <2>1 DEF Streams, TopsOK, Reach, Half
  <2>. QED
    BY <1>8, <2>2 DEF OrderInv
<1>. QED
  BY <1>3, <1>4, <1>5, <1>6, <1>7, <1>8 DEF JitterNext

\* HeardInOrder: whatever is lost, late or repeated, however the clocks drift and
\* the numbers wrap, the frames Release returns of one stream are each ahead of the
\* one before, of whatever size the window is, but for one that a size which does
\* not divide 2^16 lets through early at the wrap; in a call whose caller is heard
\* within Reach of what Asterisk sends.
THEOREM PlayedInOrder ==
    ASSUME DelaysShort
    PROVE  JitterSpec /\ []WithinReach => HeardInOrder
<1>. DEFINE Later == heard' # Silence /\ lastHeard # Silence
                        => Distance(heard'.seq, lastHeard.seq) > 0 - Early(lastHeard)
<1>1. ASSUME JitterInit, JitterInv PROVE OrderInv
  <2>1. PICK top : top = [s \in 0 .. 0 |-> 0]
    OBVIOUS
  <2>2. 0 \in Seqs
    BY Moduli DEF Seqs
  <2>3. top \in [0 .. 0 -> Seqs] /\ top[0] = 0
    BY <2>1, <2>2
  <2>4. TopsOK(top)
    BY <1>1, <2>3 DEF JitterInit, TopsOK
  <2>5. ~jb.started /\ jb.misses = 0 /\ lastHeard = Silence
    BY <1>1 DEF JitterInit, Anchor
  <2>6. InStep(jb, lastHeard, top[jb.ssrc], Reach)
    BY <2>5 DEF InStep
  <2>. QED
    BY <1>1, <2>4, <2>6 DEF OrderInv, Streams
<1>2. OrderInv /\ JitterInv' /\ WithinReach' /\ [JitterNext]_jitterVars => OrderInv'
  BY StreamsStep
<1>3. OrderInv /\ JitterInv' /\ WithinReach' /\ [JitterNext]_jitterVars => [Later]_jitterVars
  BY StreamsStep
<1>. QED
  BY <1>1, <1>2, <1>3, JitterInvHolds, PTL DEF JitterSpec, HeardInOrder

\* PacketsInTurn: Push stores every packet of the window for its own tick, discards
\* none but the late and the repeated, and Release returns one frame a tick in the
\* order of their numbers, for every size of the window, with what a size that does
\* not divide 2^16 does at the wrap as the only exception.
THEOREM EachInItsTurn ==
    ASSUME DelaysShort
    PROVE  JitterSpec /\ []WithinReach => PacketsInTurn
<1>1. JitterSpec => [](JitterTypeOK /\ NothingStale)
  BY WindowHoldsFuture
<1>2. JitterSpec => DiscardedForCause
  BY KeptUnlessDuplicate
<1>3. JitterSpec /\ []WithinReach => HeardInOrder
  BY PlayedInOrder
<1>. QED
  BY <1>1, <1>2, <1>3, PTL DEF PacketsInTurn

-----------------------------------------------------------------------------
(* The chunks of a reply: ChunksAreTheText. *)

\* A set of numbers has a least one.
LEMMA MinIsLeast ==
    ASSUME NEW S, S \subseteq Nat, S # {}
    PROVE  Min(S) \in S /\ \A x \in S : Min(S) <= x
<1>. DEFINE R == OpToRel(<, Nat)
<1>1. R = {ss \in Nat \X Nat : ss[1] < ss[2]}
  BY Zenon DEF OpToRel
<1>2. IsWellFoundedOn(R, Nat)
  BY NatLessThanWellFounded, Zenon
<1>. HIDE DEF R
<1>3. PICK p \in S : \A x \in S : <<x, p>> \notin R
  BY <1>2, WFMin
<1>4. \A x \in S : x \in Nat /\ p \in Nat /\ ~(x < p)
  <2>. SUFFICES ASSUME NEW x \in S, x < p PROVE FALSE
    OBVIOUS
  <2>1. <<x, p>> \in Nat \X Nat /\ <<x, p>>[1] < <<x, p>>[2]
    OBVIOUS
  <2>2. <<x, p>> \in R
    BY <1>1, <2>1
  <2>. QED
    BY <1>3, <2>2
<1>5. \E q \in S : \A x \in S : q =< x
  BY <1>4
<1>. QED
  BY <1>5 DEF Min

\* A set of positions in a text has a last one.
LEMMA MaxIsIn ==
    ASSUME NEW n \in Nat, NEW S, S \subseteq 1 .. n, S # {}
    PROVE  Max(S) \in S
<1>. DEFINE D == {n - x : x \in S}
<1>1. D \subseteq Nat /\ D # {}
  OBVIOUS
<1>2. Min(D) \in D /\ \A d \in D : Min(D) <= d
  BY <1>1, MinIsLeast
<1>3. PICK q \in S : Min(D) = n - q
  BY <1>2
<1>4. \A x \in S : q >= x
  <2>. SUFFICES ASSUME NEW x \in S PROVE q >= x
    OBVIOUS
  <2>1. n - x \in D
    OBVIOUS
  <2>2. n - q <= n - x
    BY <1>2, <1>3, <2>1
  <2>3. q \in Nat /\ x \in Nat
    OBVIOUS
  <2>. QED
    BY <2>2, <2>3
<1>5. \E z \in S : \A y \in S : z >= y
  BY <1>4
<1>. QED
  BY <1>5 DEF Max

\* Where nextCut has a reason to cut.
Fired(b) == {i \in DOMAIN b : CutsLong(b, i) \/ CutsSentence(b, i)}

\* nextCut takes the first such place, or the space before it.
LEMMA NextCutCases ==
    ASSUME NEW b \in Seq(RuneClasses), NextCut(b) # 0
    PROVE  \E m \in 1 .. Len(b) :
               /\ m \in Fired(b) /\ \A x \in Fired(b) : m <= x
               /\ \/ ~CutsLong(b, m) /\ CutsSentence(b, m) /\ NextCut(b) = m
                  \/ /\ CutsLong(b, m) /\ NextCut(b) = LongCut(b, m)
                     /\ \/ NextCut(b) \in LastSpaces(b, m)
                        \/ NextCut(b) = m /\ MayBreakWord(b, m)
<1>. DEFINE F == Fired(b)
            m == Min(F)
<1>1. Len(b) \in Nat /\ DOMAIN b = 1 .. Len(b)
  BY LenProperties
<1>2. F \subseteq 1 .. Len(b)
  BY <1>1 DEF Fired
<1>3. NextCut(b) = IF F = {} THEN 0 ELSE IF CutsLong(b, m) THEN LongCut(b, m) ELSE m
  BY DEF NextCut, Fired
<1>4. F # {}
  BY <1>3
<1>5. m \in F /\ \A x \in F : m <= x
  BY <1>2, <1>4, MinIsLeast
<1>6. CutsLong(b, m) \/ CutsSentence(b, m)
  BY <1>5 DEF Fired
<1>. HIDE DEF F, m
<1>7. CASE ~CutsLong(b, m)
  BY <1>2, <1>3, <1>4, <1>5, <1>6, <1>7 DEF F
<1>8. CASE CutsLong(b, m)
  <2>. SUFFICES LongCut(b, m) \in LastSpaces(b, m) \/ (LongCut(b, m) = m /\ MayBreakWord(b, m))
    BY <1>2, <1>3, <1>4, <1>5, <1>8 DEF F
  <2>1. m \in Nat
    BY <1>1, <1>2, <1>5
  <2>2. LastSpaces(b, m) \subseteq 1 .. m /\ LastPauses(b, m) \subseteq LastSpaces(b, m)
    BY DEF LastSpaces, LastPauses
  <2>3. CASE LastPauses(b, m) # {}
    BY <2>1, <2>2, <2>3, MaxIsIn DEF LongCut
  <2>4. CASE LastPauses(b, m) = {} /\ LastSpaces(b, m) # {}
    BY <2>1, <2>2, <2>4, MaxIsIn DEF LongCut
  <2>5. CASE LastSpaces(b, m) = {}
    BY <1>8, <2>2, <2>5 DEF LongCut, CutsLong
  <2>. QED
    BY <2>3, <2>4, <2>5
<1>. QED
  BY <1>7, <1>8

\* A chunk with something to say and which a listener follows, of k runes of b.
GoodCut(b, k) ==
    /\ k \in 1 .. Len(b)
    /\ (\E j \in 1 .. k : Speaks(b[j])) \/ k >= HardLimit
    /\ \/ b[k] = "stop"
       \/ b[k] = "space" /\ RuneThreshold <= Len(b)
       \/ b[k] = "dot" /\ k > 1 /\ b[k - 1] # "digit"
       \/ /\ k >= HardLimit /\ b[k] # "virama"
          /\ k < Len(b) /\ b[k + 1] \notin {"sign", "virama"}

\* nextCut cuts nowhere else.
LEMMA CutsAreGood ==
    ASSUME NEW b \in Seq(RuneClasses), NextCut(b) # 0
    PROVE  GoodCut(b, NextCut(b))
<1>. DEFINE k == NextCut(b)
<1>1. Len(b) \in Nat
  BY LenProperties
<1>2. PICK m \in 1 .. Len(b) :
           \/ ~CutsLong(b, m) /\ CutsSentence(b, m) /\ k = m
           \/ CutsLong(b, m) /\ (k \in LastSpaces(b, m) \/ (k = m /\ MayBreakWord(b, m)))
  BY NextCutCases
<1>. HIDE DEF k
<1>3. CASE CutsSentence(b, m) /\ k = m
  <2>1. PICK j \in 1 .. (m - 1) : Speaks(b[j])
    BY <1>3 DEF CutsSentence, Delimits, HasContent
  <2>2. b[m] \in {"dot", "stop"} /\ ~(b[m] = "dot" /\ b[m - 1] = "digit")
    BY <1>3 DEF CutsSentence, Delimits
  <2>3. j \in 1 .. k /\ k > 1
    BY <1>1, <1>3, <2>1
  <2>. QED
    BY <1>1, <1>3, <2>1, <2>2, <2>3 DEF GoodCut, k
<1>4. CASE k \in LastSpaces(b, m)
  <2>1. k \in 1 .. m /\ b[k] = "space" /\ \E j \in 1 .. (k - 1) : Speaks(b[j])
    BY <1>4 DEF LastSpaces, HasContent
  <2>2. PICK j \in 1 .. (k - 1) : Speaks(b[j])
    BY <2>1
  <2>3. k \in 1 .. Len(b) /\ j \in 1 .. k
    BY <1>1, <2>1, <2>2
  <2>4. RuneThreshold <= Len(b)
    <3>1. ~(CutsSentence(b, m) /\ k = m)
      BY <2>1 DEF CutsSentence, Delimits
    <3>2. m >= RuneThreshold
      BY <1>2, <3>1 DEF CutsLong
    <3>. QED
      BY <1>1, <3>2, ChunkerAssumption
  <2>. QED
    BY <2>1, <2>2, <2>3, <2>4 DEF GoodCut, k
<1>5. CASE k = m /\ MayBreakWord(b, m)
  BY <1>1, <1>5 DEF MayBreakWord, GoodCut, k
<1>. QED
  BY <1>2, <1>3, <1>4, <1>5

\* What nextCut looks at is before the place it cuts, but for the rune after a
\* broken word: it decides the same with more of the text behind.
LEMMA CutsAreStable ==
    ASSUME NEW b \in Seq(RuneClasses), NEW t \in Seq(RuneClasses), NextCut(b) # 0
    PROVE  NextCut(b \o t) = NextCut(b)
<1>. DEFINE c == b \o t
<1>1. /\ Len(b) \in Nat /\ Len(t) \in Nat /\ c \in Seq(RuneClasses)
      /\ Len(c) = Len(b) + Len(t)
      /\ DOMAIN b = 1 .. Len(b) /\ DOMAIN c = 1 .. Len(c)
  BY LenProperties, ConcatProperties
<1>2. \A i \in 1 .. Len(b) : i \in 1 .. Len(c) /\ c[i] = b[i]
  BY <1>1, ConcatProperties
<1>. HIDE DEF c
<1>3. \A i \in 1 .. Len(b) : HasContent(c, i) = HasContent(b, i)
  <2>. SUFFICES ASSUME NEW i \in 1 .. Len(b) PROVE HasContent(c, i) = HasContent(b, i)
    OBVIOUS
  <2>1. \A j \in 1 .. (i - 1) : c[j] = b[j]
    BY <1>1, <1>2
  <2>. QED
    BY <2>1 DEF HasContent
<1>4. \A i \in 1 .. Len(b) : Delimits(c, i) = Delimits(b, i)
  BY <1>2, <1>3 DEF Delimits
<1>5. \A i \in 1 .. Len(b) : CutsSentence(b, i) = CutsSentence(c, i)
  <2>. SUFFICES ASSUME NEW i \in 1 .. Len(b), Delimits(b, i)
                PROVE  CutsSentence(b, i) = CutsSentence(c, i)
    BY <1>4 DEF CutsSentence
  <2>1. i - 1 \in 1 .. Len(b)
    BY <1>1 DEF Delimits, HasContent
  <2>. QED
    BY <1>2, <1>4, <2>1 DEF CutsSentence
<1>6. \A i \in 1 .. Len(b) : LastSpaces(c, i) = LastSpaces(b, i)
  <2>. SUFFICES ASSUME NEW i \in 1 .. Len(b) PROVE LastSpaces(c, i) = LastSpaces(b, i)
    OBVIOUS
  <2>1. \A j \in 1 .. i : c[j] = b[j] /\ HasContent(c, j) = HasContent(b, j)
    BY <1>1, <1>2, <1>3
  <2>. QED
    BY <2>1 DEF LastSpaces
<1>7. \A i \in 1 .. Len(b) : LastPauses(c, i) = LastPauses(b, i)
  <2>. SUFFICES ASSUME NEW i \in 1 .. Len(b) PROVE LastPauses(c, i) = LastPauses(b, i)
    OBVIOUS
  <2>1. \A j \in LastSpaces(b, i) : c[j - 1] = b[j - 1]
    <3>. SUFFICES ASSUME NEW j \in LastSpaces(b, i) PROVE c[j - 1] = b[j - 1]
      OBVIOUS
    <3>1. j \in 1 .. i /\ HasContent(b, j)
      BY DEF LastSpaces
    <3>2. j - 1 \in 1 .. Len(b)
      BY <1>1, <3>1 DEF HasContent
    <3>. QED
      BY <1>2, <3>2
  <2>. QED
    BY <1>6, <2>1 DEF LastPauses
<1>8. \A i \in 1 .. Len(b) : MayBreakWord(b, i) => MayBreakWord(c, i)
  BY <1>1, <1>2 DEF MayBreakWord
<1>9. \A i \in 1 .. Len(b) : i < Len(b) => MayBreakWord(c, i) = MayBreakWord(b, i)
  BY <1>1, <1>2 DEF MayBreakWord
<1>10. \A i \in 1 .. Len(b) : CutsLong(b, i) => CutsLong(c, i)
  BY <1>4, <1>6, <1>8 DEF CutsLong
<1>11. \A i \in 1 .. Len(b) : i < Len(b) => CutsLong(c, i) = CutsLong(b, i)
  BY <1>4, <1>6, <1>9 DEF CutsLong
<1>12. PICK m \in 1 .. Len(b) :
           /\ m \in Fired(b) /\ \A x \in Fired(b) : m <= x
           /\ \/ ~CutsLong(b, m) /\ CutsSentence(b, m) /\ NextCut(b) = m
              \/ CutsLong(b, m) /\ NextCut(b) = LongCut(b, m)
  BY NextCutCases
<1>13. m \in Fired(c)
  BY <1>1, <1>2, <1>5, <1>10, <1>12 DEF Fired
<1>14. \A x \in Fired(c) : m <= x
  <2>. SUFFICES ASSUME NEW x \in Fired(c), x < m PROVE FALSE
    BY <1>1, <1>12 DEF Fired
  <2>1. x \in 1 .. Len(b) /\ x < Len(b)
    BY <1>1, <1>12 DEF Fired
  <2>2. x \in Fired(b)
    BY <1>1, <1>5, <1>11, <2>1 DEF Fired
  <2>. QED
    BY <1>1, <1>12, <2>1, <2>2
<1>15. Min(Fired(c)) = m
  <2>1. Fired(c) \subseteq Nat /\ Fired(c) # {}
    BY <1>1, <1>13 DEF Fired
  <2>2. Min(Fired(c)) \in Fired(c) /\ \A x \in Fired(c) : Min(Fired(c)) <= x
    BY <2>1, MinIsLeast
  <2>3. m \in Nat /\ Min(Fired(c)) \in Nat /\ m <= Min(Fired(c)) /\ Min(Fired(c)) <= m
    BY <1>13, <1>14, <2>1, <2>2
  <2>. QED
    BY <2>3
<1>16. NextCut(c) = IF CutsLong(c, m) THEN LongCut(c, m) ELSE m
  <2>1. NextCut(c) = IF Fired(c) = {} THEN 0
                     ELSE IF CutsLong(c, Min(Fired(c))) THEN LongCut(c, Min(Fired(c)))
                     ELSE Min(Fired(c))
    BY DEF NextCut, Fired
  <2>. QED
    BY <1>13, <1>15, <2>1
<1>17. LongCut(c, m) = LongCut(b, m)
  BY <1>6, <1>7 DEF LongCut
<1>18. CASE CutsLong(b, m)
  BY <1>10, <1>12, <1>16, <1>17, <1>18 DEF c
<1>19. CASE ~CutsLong(b, m) /\ CutsSentence(b, m)
  <2>1. ~CutsLong(c, m)
    BY <1>4, <1>19 DEF CutsLong, CutsSentence
  <2>. QED
    BY <1>12, <1>16, <1>19, <2>1 DEF c
<1>. QED
  BY <1>12, <1>18, <1>19
-----------------------------------------------------------------------------
\* The text from rune n + 1 on, and pieces of it.
LEMMA TextPieces ==
    ASSUME NEW w \in Seq(RuneClasses), NEW n \in 0 .. Len(w)
    PROVE  LET a == SubSeq(w, n + 1, Len(w)) IN
           /\ a \in Seq(RuneClasses) /\ Len(a) = Len(w) - n
           /\ \A j \in 1 .. Len(a) : a[j] = w[n + j]
           /\ \A k \in 0 .. Len(a) :
                 /\ SubSeq(a, 1, k) = SubSeq(w, n + 1, n + k)
                 /\ SubSeq(a, k + 1, Len(a)) = SubSeq(w, n + k + 1, Len(w))
<1>. DEFINE a == SubSeq(w, n + 1, Len(w))
<1>1. Len(w) \in Nat /\ \A i \in n + 1 .. Len(w) : w[i] \in RuneClasses
  BY LenProperties, ElementOfSeq
<1>2. a \in Seq(RuneClasses) /\ Len(a) = Len(w) - n /\ \A j \in 1 .. Len(a) : a[j] = w[n + j]
  <2>1. n + 1 \in Int /\ Len(w) \in Int
    BY <1>1
  <2>2. /\ a \in Seq(RuneClasses)
        /\ Len(a) = IF n + 1 <= Len(w) THEN Len(w) - (n + 1) + 1 ELSE 0
        /\ \A i \in 1 .. Len(w) - (n + 1) + 1 : a[i] = w[(n + 1) + i - 1]
    BY <1>1, <2>1, SubSeqProperties
  <2>. QED
    BY <1>1, <2>2
<1>. HIDE DEF a
<1>3. ASSUME NEW k \in 0 .. Len(a)
      PROVE  SubSeq(a, 1, k) = SubSeq(w, n + 1, n + k)
  <2>1. /\ SubSeq(a, 1, k) \in Seq(RuneClasses) /\ Len(SubSeq(a, 1, k)) = k
        /\ \A i \in 1 .. k : SubSeq(a, 1, k)[i] = a[i]
    BY <1>1, <1>2, SubSeqProperties, ElementOfSeq
  <2>2. /\ SubSeq(w, n + 1, n + k) \in Seq(RuneClasses) /\ Len(SubSeq(w, n + 1, n + k)) = k
        /\ \A i \in 1 .. k : SubSeq(w, n + 1, n + k)[i] = w[n + i]
    BY <1>1, <1>2, SubSeqProperties, ElementOfSeq
  <2>3. \A i \in 1 .. k : i \in 1 .. Len(a)
    BY <1>1, <1>2
  <2>4. \A i \in 1 .. k : a[i] = w[n + i]
    BY <1>2, <2>3
  <2>. DEFINE x == SubSeq(a, 1, k)
              y == SubSeq(w, n + 1, n + k)
  <2>5. Len(x) = Len(y) /\ \A i \in 1 .. Len(x) : x[i] = y[i]
    BY <2>1, <2>2, <2>4
  <2>. HIDE DEF x, y
  <2>6. x = y
    BY <2>1, <2>2, <2>5, SeqEqual DEF x, y
  <2>. QED
    BY <2>6 DEF x, y
<1>4. ASSUME NEW k \in 0 .. Len(a)
      PROVE  SubSeq(a, k + 1, Len(a)) = SubSeq(w, n + k + 1, Len(w))
  <2>1. /\ SubSeq(a, k + 1, Len(a)) \in Seq(RuneClasses) /\ Len(SubSeq(a, k + 1, Len(a))) = Len(a) - k
        /\ \A i \in 1 .. Len(a) - k : SubSeq(a, k + 1, Len(a))[i] = a[k + i]
    BY <1>1, <1>2, SubSeqProperties, ElementOfSeq
  <2>2. /\ SubSeq(w, n + k + 1, Len(w)) \in Seq(RuneClasses)
        /\ Len(SubSeq(w, n + k + 1, Len(w))) = Len(a) - k
        /\ \A i \in 1 .. Len(a) - k : SubSeq(w, n + k + 1, Len(w))[i] = w[n + k + i]
    BY <1>1, <1>2, SubSeqProperties, ElementOfSeq
  <2>3. \A i \in 1 .. Len(a) - k : a[k + i] = w[n + k + i]
    BY <1>1, <1>2
  <2>. QED
    BY <2>1, <2>2, <2>3, SeqEqual
<1>. QED
  BY <1>2, <1>3, <1>4 DEF a

\* More text behind a piece leaves it as it is, and follows the rest.
LEMMA TextGrows ==
    ASSUME NEW w \in Seq(RuneClasses), NEW t \in Seq(RuneClasses), NEW n \in 0 .. Len(w)
    PROVE  /\ SubSeq(w \o t, n + 1, Len(w \o t)) = SubSeq(w, n + 1, Len(w)) \o t
           /\ \A m \in n .. Len(w) : SubSeq(w \o t, n + 1, m) = SubSeq(w, n + 1, m)
<1>. DEFINE c == w \o t
<1>1. /\ c \in Seq(RuneClasses) /\ Len(c) = Len(w) + Len(t) /\ Len(w) \in Nat /\ Len(t) \in Nat
      /\ \A i \in 1 .. Len(w) : c[i] = w[i]
      /\ \A i \in 1 .. Len(t) : c[Len(w) + i] = t[i]
  BY LenProperties, ConcatProperties
<1>. HIDE DEF c
<1>2. SubSeq(c, n + 1, Len(c)) = SubSeq(w, n + 1, Len(w)) \o t
  <2>. DEFINE a == SubSeq(c, n + 1, Len(c))
              b == SubSeq(w, n + 1, Len(w))
  <2>1. n \in 0 .. Len(c)
    BY <1>1
  <2>2. a \in Seq(RuneClasses) /\ Len(a) = Len(c) - n /\ \A j \in 1 .. Len(a) : a[j] = c[n + j]
    BY <1>1, <2>1, TextPieces
  <2>3. b \in Seq(RuneClasses) /\ Len(b) = Len(w) - n /\ \A j \in 1 .. Len(b) : b[j] = w[n + j]
    BY TextPieces
  <2>. HIDE DEF a, b
  <2>4. /\ b \o t \in Seq(RuneClasses) /\ Len(b \o t) = Len(b) + Len(t)
        /\ \A i \in 1 .. Len(b) + Len(t) : (b \o t)[i] = IF i <= Len(b) THEN b[i] ELSE t[i - Len(b)]
    BY <2>3, ConcatProperties
  <2>5. Len(a) = Len(b \o t)
    BY <1>1, <2>2, <2>3, <2>4
  <2>6. \A i \in 1 .. Len(a) : a[i] = (b \o t)[i]
    <3>. SUFFICES ASSUME NEW i \in 1 .. Len(a) PROVE a[i] = (b \o t)[i]
      OBVIOUS
    <3>1. CASE i <= Len(b)
      BY <1>1, <2>2, <2>3, <2>4, <2>5, <3>1
    <3>2. CASE i > Len(b)
      <4>1. i - Len(b) \in 1 .. Len(t) /\ n + i = Len(w) + (i - Len(b))
        BY <1>1, <2>2, <2>3, <3>2
      <4>2. a[i] = t[i - Len(b)]
        BY <1>1, <2>2, <4>1
      <4>. QED
        BY <1>1, <2>3, <2>4, <2>5, <3>2, <4>2
    <3>. QED
      BY <1>1, <2>2, <2>3, <3>1, <3>2
  <2>. QED
    BY <2>2, <2>4, <2>5, <2>6, SeqEqual DEF a, b
<1>3. ASSUME NEW m \in n .. Len(w) PROVE SubSeq(c, n + 1, m) = SubSeq(w, n + 1, m)
  <2>0. \A i \in 1 .. Len(w) : w[i] \in RuneClasses
    BY ElementOfSeq
  <2>0a. \A i \in n + 1 .. m : i \in 1 .. Len(w)
    BY <1>1
  <2>1. \A i \in n + 1 .. m : w[i] \in RuneClasses /\ c[i] \in RuneClasses
    <3>. SUFFICES ASSUME NEW i \in n + 1 .. m PROVE w[i] \in RuneClasses /\ c[i] \in RuneClasses
      OBVIOUS
    <3>1. c[i] = w[i]
      BY <1>1, <2>0a
    <3>. QED
      BY <2>0, <2>0a, <3>1
  <2>2. /\ SubSeq(c, n + 1, m) \in Seq(RuneClasses) /\ Len(SubSeq(c, n + 1, m)) = m - n
        /\ \A i \in 1 .. m - n : SubSeq(c, n + 1, m)[i] = c[n + i]
    BY <1>1, <2>1, SubSeqProperties
  <2>3. /\ SubSeq(w, n + 1, m) \in Seq(RuneClasses) /\ Len(SubSeq(w, n + 1, m)) = m - n
        /\ \A i \in 1 .. m - n : SubSeq(w, n + 1, m)[i] = w[n + i]
    BY <1>1, <2>1, SubSeqProperties
  <2>4. \A i \in 1 .. m - n : c[n + i] = w[n + i]
    BY <1>1
  <2>. QED
    BY <2>2, <2>3, <2>4, SeqEqual
<1>. QED
  BY <1>2, <1>3 DEF c

-----------------------------------------------------------------------------
ChunkTypes ==
    /\ written \in Seq(RuneClasses) /\ chunkBuf \in Seq(RuneClasses)
    /\ feeding \in BOOLEAN /\ flushed \in BOOLEAN
    /\ chunks \in Seq(Seq(RuneClasses)) /\ ends \in Seq(Nat)
    /\ Len(ends) = Len(chunks)

\* Each chunk is the text from where the one before it ended.
ChunksArePieces ==
    \A i \in 1 .. Len(chunks) :
        /\ StartOf(i) < ends[i] /\ ends[i] <= Len(written)
        /\ chunks[i] = SubSeq(written, StartOf(i) + 1, ends[i])

\* Each but the last of the turn is what nextCut takes of the text from there.
Chosen ==
    \A i \in 1 .. Len(chunks) :
        i < Len(chunks) \/ ~flushed => NextCut(TextAfter(StartOf(i))) = Len(chunks[i])

\* The buffer holds what is in no chunk, and between tokens nothing to cut.
TheRest ==
    /\ ~flushed => chunkBuf = TextAfter(Cut)
    /\ ~flushed /\ ~feeding => NextCut(chunkBuf) = 0
    /\ flushed => ~feeding /\ ~HasLetterOrDigit(TextAfter(Cut))

\* All but what the hard limit cut holds a letter or digit.
NoneIsBare ==
    \A i \in DOMAIN chunks : HasLetterOrDigit(chunks[i]) \/ Len(chunks[i]) >= HardLimit

ChunkInv == ChunkTypes /\ ChunksArePieces /\ Chosen /\ TheRest /\ NoneIsBare

\* Chunks start and end in the text.
LEMMA StartsInText ==
    ASSUME ChunkTypes, ChunksArePieces
    PROVE  /\ Len(chunks) \in Nat /\ Len(written) \in Nat
           /\ \A i \in 1 .. Len(chunks) + 1 : StartOf(i) \in 0 .. Len(written)
           /\ Cut \in 0 .. Len(written)
<1>1. Len(chunks) \in Nat /\ Len(written) \in Nat
  BY LenProperties DEF ChunkTypes
<1>2. \A i \in 1 .. Len(chunks) : ends[i] \in Nat /\ ends[i] <= Len(written)
  BY ElementOfSeq DEF ChunkTypes, ChunksArePieces
<1>3. ASSUME NEW i \in 1 .. Len(chunks) + 1 PROVE StartOf(i) \in 0 .. Len(written)
  <2>1. CASE i = 1
    BY <1>1, <2>1 DEF StartOf
  <2>2. CASE i # 1
    <3>1. i - 1 \in 1 .. Len(chunks)
      BY <1>1, <2>2
    <3>. QED
      BY <1>1, <1>2, <2>2, <3>1 DEF StartOf
  <2>. QED
    BY <2>1, <2>2
<1>. QED
  BY <1>1, <1>3 DEF Cut

\* What a chunk is, as a piece of the text from where it starts.
LEMMA PieceOfText ==
    ASSUME ChunkTypes, ChunksArePieces, NEW i \in 1 .. Len(chunks)
    PROVE  LET a == TextAfter(StartOf(i)) IN
           /\ a \in Seq(RuneClasses) /\ Len(chunks[i]) \in 1 .. Len(a)
           /\ StartOf(i) + Len(chunks[i]) = ends[i]
           /\ DOMAIN chunks[i] = 1 .. Len(chunks[i])
           /\ \A j \in 1 .. Len(a) : a[j] = written[StartOf(i) + j]
           /\ \A j \in 1 .. Len(chunks[i]) : chunks[i][j] = a[j]
<1>. DEFINE s == StartOf(i)
            e == ends[i]
            a == TextAfter(s)
<1>1. /\ Len(chunks) \in Nat /\ Len(written) \in Nat /\ s \in 0 .. Len(written)
      /\ e \in Nat /\ s < e /\ e <= Len(written)
      /\ chunks[i] = SubSeq(written, s + 1, e)
  BY StartsInText, ElementOfSeq DEF ChunkTypes, ChunksArePieces
<1>2. a \in Seq(RuneClasses) /\ Len(a) = Len(written) - s /\ \A j \in 1 .. Len(a) : a[j] = written[s + j]
  BY <1>1, TextPieces DEF ChunkTypes, TextAfter
<1>. HIDE DEF a, s, e
<1>3. \A j \in 1 .. Len(written) : written[j] \in RuneClasses
  BY ElementOfSeq DEF ChunkTypes
<1>4. /\ chunks[i] \in Seq(RuneClasses) /\ Len(chunks[i]) = e - s
      /\ \A j \in 1 .. e - s : chunks[i][j] = written[s + j]
  <2>1. \A j \in s + 1 .. e : written[j] \in RuneClasses
    BY <1>1, <1>3
  <2>. QED
    BY <1>1, <2>1, SubSeqProperties
<1>5. \A j \in 1 .. e - s : chunks[i][j] = a[j]
  BY <1>1, <1>2, <1>4
<1>6. DOMAIN chunks[i] = 1 .. Len(chunks[i])
  BY <1>4, LenProperties
<1>7. Len(chunks[i]) \in 1 .. Len(a) /\ s + Len(chunks[i]) = e
  BY <1>1, <1>2, <1>4
<1>. QED
  BY <1>2, <1>4, <1>5, <1>6, <1>7 DEF a, s, e

\* A chunk that another follows is a good cut of the text.
LEMMA ChunksAreGoodCuts ==
    ASSUME ChunkTypes, ChunksArePieces, Chosen, NEW i \in 1 .. Len(chunks), i < Len(chunks) \/ ~flushed
    PROVE  GoodCut(TextAfter(StartOf(i)), Len(chunks[i]))
<1>1. NextCut(TextAfter(StartOf(i))) = Len(chunks[i])
  BY DEF Chosen
<1>2. TextAfter(StartOf(i)) \in Seq(RuneClasses) /\ Len(chunks[i]) # 0
  BY PieceOfText
<1>. QED
  BY <1>1, <1>2, CutsAreGood

\* The invariant is all the properties ask.
LEMMA ChunkInvImplies == ChunkInv => ChunksAreTheText
<1>. SUFFICES ASSUME ChunkInv PROVE ChunksAreTheText
  OBVIOUS
<1>. USE DEF ChunkInv
<1>1. /\ Len(chunks) \in Nat /\ DOMAIN chunks = 1 .. Len(chunks)
  BY LenProperties DEF ChunkTypes
<1>2. EverythingSpoken
  BY <1>1 DEF EverythingSpoken, ChunkTypes, ChunksArePieces, TheRest
<1>3. WordsStayWhole
  <2>. SUFFICES ASSUME NEW i \in 1 .. (Len(chunks) - 1)
                PROVE LET c == chunks[i] IN
                      \/ Last(c) \in {"space", "stop"}
                      \/ Last(c) = "dot" /\ c[Len(c) - 1] # "digit"
                      \/ /\ Len(c) >= HardLimit /\ Last(c) # "virama"
                         /\ Head(chunks[i + 1]) \notin {"sign", "virama"}
    BY DEF WordsStayWhole
  <2>. DEFINE a == TextAfter(StartOf(i))
              k == Len(chunks[i])
  <2>1. i \in 1 .. Len(chunks) /\ i + 1 \in 1 .. Len(chunks) /\ i < Len(chunks)
    BY <1>1
  <2>2. GoodCut(a, k)
    BY <2>1, ChunksAreGoodCuts
  <2>3. /\ k \in 1 .. Len(a) /\ a \in Seq(RuneClasses)
        /\ \A j \in 1 .. k : chunks[i][j] = a[j]
        /\ \A j \in 1 .. Len(a) : a[j] = written[StartOf(i) + j]
        /\ StartOf(i) + k = ends[i]
    BY <2>1, PieceOfText
  <2>4. Last(chunks[i]) = a[k] /\ Len(a) \in Nat
    BY <2>3, LenProperties DEF Last
  <2>5. k > 1 => chunks[i][k - 1] = a[k - 1]
    BY <2>3, <2>4
  <2>6. StartOf(i + 1) = ends[i]
    BY <2>1 DEF StartOf
  <2>7. k < Len(a) => Head(chunks[i + 1]) = a[k + 1]
    <3>. SUFFICES ASSUME k < Len(a) PROVE Head(chunks[i + 1]) = a[k + 1]
      OBVIOUS
    <3>4. StartOf(i) + (k + 1) = ends[i] + 1
      <4>1. StartOf(i) \in Nat
        BY <2>1, StartsInText
      <4>2. k \in Nat
        BY <2>3, <2>4
      <4>. HIDE DEF k
      <4>. QED
        BY <2>3, <4>1, <4>2
    <3>5. a[k + 1] = written[ends[i] + 1]
      BY <2>3, <2>4, <3>4
    <3>6. Head(chunks[i + 1]) = written[ends[i] + 1]
      <4>1. /\ chunks[i + 1] = SubSeq(written, ends[i] + 1, ends[i + 1])
            /\ ends[i] < ends[i + 1] /\ ends[i + 1] <= Len(written)
        BY <2>1, <2>6 DEF ChunksArePieces
      <4>2. ends[i] \in Nat /\ ends[i + 1] \in Nat /\ Len(written) \in Nat
        BY <2>1, StartsInText, ElementOfSeq DEF ChunkTypes
      <4>3. ends[i] + 1 \in 1 .. Len(written) /\ ends[i + 1] \in ends[i] + 1 .. Len(written)
        BY <4>1, <4>2
      <4>. QED
        BY <4>1, <4>3, HeadTailOfSubSeq DEF ChunkTypes
    <3>. QED
      BY <3>5, <3>6
  <2>. HIDE DEF a, k
  <2>. QED
    BY <2>2, <2>3, <2>4, <2>5, <2>7 DEF GoodCut, k
<1>4. TokensDontMatter
  BY <1>1 DEF TokensDontMatter, Chosen, TheRest
<1>5. EveryChunkSpeaks
  <2>. SUFFICES ASSUME NEW i \in 1 .. Len(chunks)
                PROVE  \/ HasLetter(chunks[i])
                       \/ HasLetterOrDigit(chunks[i]) /\ NumberGoesAlone(i)
                       \/ Len(chunks[i]) >= HardLimit
    BY <1>1 DEF EveryChunkSpeaks
  <2>. DEFINE a == TextAfter(StartOf(i))
              k == Len(chunks[i])
  <2>1. HasLetterOrDigit(chunks[i]) \/ k >= HardLimit
    BY <1>1 DEF NoneIsBare
  <2>2. CASE flushed /\ i = Len(chunks)
    BY <2>1, <2>2 DEF NumberGoesAlone
  <2>3. CASE i < Len(chunks) \/ ~flushed
    <3>1. GoodCut(a, k)
      BY <2>3, ChunksAreGoodCuts
    <3>2. /\ k \in 1 .. Len(a) /\ a \in Seq(RuneClasses)
          /\ \A j \in 1 .. k : chunks[i][j] = a[j]
      BY PieceOfText
    <3>3. Last(chunks[i]) = a[k] /\ Len(a) \in Nat
      BY <3>2, LenProperties DEF Last
    <3>4. k > 1 => chunks[i][k - 1] = a[k - 1]
      BY <3>2, <3>3
    <3>5. \/ k >= HardLimit \/ Last(chunks[i]) = "stop"
          \/ Last(chunks[i]) = "space" /\ Len(a) >= RuneThreshold
          \/ Last(chunks[i]) = "dot" /\ chunks[i][k - 1] # "digit"
      <4>. HIDE DEF a, k
      <4>. QED
        BY <3>1, <3>2, <3>3, <3>4, ChunkerAssumption DEF GoodCut
    <3>. QED
      BY <2>1, <3>5 DEF NumberGoesAlone
  <2>4. i < Len(chunks) \/ i = Len(chunks)
    <3>1. \A n \in Nat, x \in Nat : x <= n => x < n \/ x = n
      OBVIOUS
    <3>2. i \in Nat /\ i <= Len(chunks)
      BY <1>1
    <3>. QED
      BY <1>1, <3>1, <3>2, Zenon
  <2>. HIDE DEF a, k
  <2>. QED
    BY <2>2, <2>3, <2>4
<1>. QED
  BY <1>2, <1>3, <1>4, <1>5 DEF ChunksAreTheText

\* A chunk of n runes of the buffer is a piece of the text, the others stay.
LEMMA HandOverSplits ==
    ASSUME ChunkTypes, ChunksArePieces, NoneIsBare, chunkBuf = TextAfter(Cut), NEW n \in 1 .. Len(chunkBuf),
           HandOver(n), written' = written,
           (\E j \in 1 .. n : Speaks(chunkBuf[j])) \/ n >= HardLimit
    PROVE  /\ chunks' \in Seq(Seq(RuneClasses)) /\ ends' \in Seq(Nat)
           /\ Len(chunks') = Len(chunks) + 1 /\ Len(ends') = Len(chunks')
           /\ ChunksArePieces' /\ NoneIsBare'
           /\ \A i \in 1 .. Len(chunks) + 1 : StartOf(i)' = StartOf(i)
           /\ \A i \in 1 .. Len(chunks) : Len(chunks'[i]) = Len(chunks[i])
           /\ Len(chunks'[Len(chunks) + 1]) = n
           /\ Cut' = Cut + n
<1>. DEFINE c == SubSeq(chunkBuf, 1, n)
            m == Len(chunks)
<1>1. /\ m \in Nat /\ Len(written) \in Nat /\ Len(ends) = m
      /\ \A i \in 1 .. m + 1 : StartOf(i) \in 0 .. Len(written)
      /\ Cut \in 0 .. Len(written) /\ Cut = StartOf(m + 1)
  BY StartsInText DEF Cut, ChunkTypes
<1>2. /\ chunkBuf \in Seq(RuneClasses) /\ Len(chunkBuf) = Len(written) - Cut /\ n \in Nat
      /\ SubSeq(chunkBuf, 1, n) = SubSeq(written, Cut + 1, Cut + n)
  <2>. DEFINE a == SubSeq(written, Cut + 1, Len(written))
  <2>1. /\ Len(a) = Len(written) - Cut
        /\ \A k \in 0 .. Len(a) : SubSeq(a, 1, k) = SubSeq(written, Cut + 1, Cut + k)
    BY <1>1, TextPieces DEF ChunkTypes
  <2>2. chunkBuf = a /\ chunkBuf \in Seq(RuneClasses)
    BY DEF TextAfter, ChunkTypes
  <2>. HIDE DEF a
  <2>3. n \in 0 .. Len(a) /\ n \in Nat
    BY <1>1, <2>1, <2>2
  <2>. QED
    BY <2>1, <2>2, <2>3
<1>3. c \in Seq(RuneClasses) /\ Len(c) = n /\ \A j \in 1 .. n : c[j] = chunkBuf[j]
  <2>1. \A j \in 1 .. Len(chunkBuf) : chunkBuf[j] \in RuneClasses
    BY <1>2, ElementOfSeq
  <2>2. \A j \in 1 .. n : chunkBuf[j] \in RuneClasses
    BY <1>1, <1>2, <2>1
  <2>. QED
    BY <1>2, <2>2, SubSeqProperties
<1>. HIDE DEF c
<1>4. chunks' = Append(chunks, c) /\ ends' = Append(ends, Cut + n)
  BY DEF HandOver, c
<1>5. /\ chunks' \in Seq(Seq(RuneClasses)) /\ Len(chunks') = m + 1
      /\ \A i \in 1 .. m : chunks'[i] = chunks[i]
      /\ chunks'[m + 1] = c
  BY <1>3, <1>4, AppendProperties DEF ChunkTypes
<1>6. /\ ends' \in Seq(Nat) /\ Len(ends') = m + 1
      /\ \A i \in 1 .. m : ends'[i] = ends[i]
      /\ ends'[m + 1] = Cut + n
  <2>1. Cut + n \in Nat /\ ends \in Seq(Nat)
    BY <1>1, <1>2 DEF ChunkTypes
  <2>. QED
    BY <1>1, <1>4, <2>1, AppendProperties
<1>. HIDE DEF m
<1>7. \A i \in 1 .. m + 1 : StartOf(i)' = StartOf(i)
  <2>. SUFFICES ASSUME NEW i \in 1 .. m + 1 PROVE StartOf(i)' = StartOf(i)
    OBVIOUS
  <2>1. CASE i = 1
    BY <2>1 DEF StartOf
  <2>2. CASE i # 1
    <3>1. i - 1 \in 1 .. m
      BY <1>1, <2>2
    <3>. QED
      BY <1>6, <2>2, <3>1 DEF StartOf
  <2>. QED
    BY <2>1, <2>2
<1>8. Cut' = Cut + n
  <2>1. Cut' = IF Len(chunks') + 1 = 1 THEN 0 ELSE ends'[Len(chunks') + 1 - 1]
    BY DEF Cut, StartOf
  <2>2. Len(chunks') + 1 # 1 /\ Len(chunks') + 1 - 1 = m + 1
    BY <1>1, <1>5
  <2>. QED
    BY <1>6, <2>1, <2>2
<1>9. ChunksArePieces'
  <2>. SUFFICES ASSUME NEW i \in 1 .. m + 1
                PROVE  /\ StartOf(i)' < ends'[i] /\ ends'[i] <= Len(written)
                       /\ chunks'[i] = SubSeq(written, StartOf(i)' + 1, ends'[i])
    BY <1>5 DEF ChunksArePieces
  <2>1. CASE i \in 1 .. m
    BY <1>5, <1>6, <1>7, <2>1 DEF ChunksArePieces, m
  <2>2. CASE i = m + 1
    <3>1. StartOf(i)' = Cut /\ ends'[i] = Cut + n /\ chunks'[i] = SubSeq(written, Cut + 1, Cut + n)
      BY <1>1, <1>2, <1>5, <1>6, <1>7, <2>2 DEF c
    <3>2. 1 <= n /\ n <= Len(written) - Cut
      BY <1>2
    <3>3. Cut \in Nat /\ Len(written) \in Nat /\ n \in Nat
      BY <1>1, <1>2
    <3>4. Cut < Cut + n /\ Cut + n <= Len(written)
      BY <3>2, <3>3
    <3>. QED
      BY <3>1, <3>4
  <2>. QED
    BY <1>1, <2>1, <2>2
<1>10. NoneIsBare'
  <2>1. DOMAIN chunks' = 1 .. m + 1 /\ DOMAIN chunks = 1 .. m
    BY <1>5, LenProperties DEF ChunkTypes, m
  <2>. SUFFICES ASSUME NEW i \in 1 .. m + 1
                PROVE  HasLetterOrDigit(chunks'[i]) \/ Len(chunks'[i]) >= HardLimit
    BY <2>1 DEF NoneIsBare
  <2>2. CASE i \in 1 .. m
    BY <1>5, <2>1, <2>2 DEF NoneIsBare
  <2>3. CASE i = m + 1
    <3>1. DOMAIN c = 1 .. n
      BY <1>3, LenProperties
    <3>. QED
      BY <1>3, <1>5, <2>3, <3>1 DEF HasLetterOrDigit
  <2>. QED
    BY <1>1, <2>2, <2>3
<1>11. /\ \A i \in 1 .. m : Len(chunks'[i]) = Len(chunks[i])
       /\ Len(chunks'[m + 1]) = n
  BY <1>3, <1>5
<1>. QED
  BY <1>5, <1>6, <1>7, <1>8, <1>9, <1>10, <1>11 DEF m

\* One turn of Feed's loop takes what nextCut takes of all the text.
LEMMA CutChunkKeeps == ChunkInv /\ CutChunk => ChunkInv'
<1>. SUFFICES ASSUME ChunkInv, CutChunk PROVE ChunkInv'
  OBVIOUS
<1>. DEFINE n == NextCut(chunkBuf)
            m == Len(chunks)
<1>0. ChunkTypes /\ ChunksArePieces /\ Chosen /\ TheRest /\ NoneIsBare
  BY DEF ChunkInv
<1>1. /\ feeding /\ n # 0 /\ HandOver(n) /\ written' = written /\ flushed' = flushed /\ feeding' = feeding
      /\ chunkBuf' = SubSeq(chunkBuf, n + 1, Len(chunkBuf))
  BY DEF CutChunk
<1>2. ~flushed /\ chunkBuf = TextAfter(Cut) /\ chunkBuf \in Seq(RuneClasses)
  BY <1>0, <1>1 DEF TheRest, ChunkTypes
<1>3. n \in 1 .. Len(chunkBuf) /\ ((\E j \in 1 .. n : Speaks(chunkBuf[j])) \/ n >= HardLimit)
  BY <1>1, <1>2, CutsAreGood DEF GoodCut
<1>4. m \in Nat /\ Len(written) \in Nat /\ Cut \in 0 .. Len(written)
  BY <1>0, StartsInText
<1>5. /\ Len(chunkBuf) = Len(written) - Cut /\ n \in 0 .. Len(chunkBuf)
      /\ SubSeq(chunkBuf, n + 1, Len(chunkBuf)) = SubSeq(written, Cut + n + 1, Len(written))
  <2>1. /\ Len(chunkBuf) = Len(written) - Cut
        /\ \A k \in 0 .. Len(chunkBuf) :
              SubSeq(chunkBuf, k + 1, Len(chunkBuf)) = SubSeq(written, Cut + k + 1, Len(written))
    BY <1>0, <1>2, <1>4, TextPieces DEF ChunkTypes, TextAfter
  <2>2. n \in 0 .. Len(chunkBuf)
    BY <1>3, <1>4, <2>1
  <2>. QED
    BY <2>1, <2>2
<1>. HIDE DEF n, m
<1>6. /\ chunks' \in Seq(Seq(RuneClasses)) /\ ends' \in Seq(Nat)
      /\ Len(chunks') = m + 1 /\ Len(ends') = Len(chunks')
      /\ ChunksArePieces' /\ NoneIsBare'
      /\ \A i \in 1 .. m + 1 : StartOf(i)' = StartOf(i)
      /\ \A i \in 1 .. m : Len(chunks'[i]) = Len(chunks[i])
      /\ Len(chunks'[m + 1]) = n
      /\ Cut' = Cut + n
  BY <1>0, <1>1, <1>2, <1>3, HandOverSplits DEF m
<1>7. chunkBuf' = TextAfter(Cut)'
  BY <1>1, <1>5, <1>6 DEF TextAfter
<1>8. chunkBuf' \in Seq(RuneClasses)
  <2>1. Cut + n \in 0 .. Len(written)
    BY <1>4, <1>5
  <2>. QED
    BY <1>0, <1>1, <1>5, <2>1, TextPieces DEF ChunkTypes
<1>9. Chosen'
  <2>1. \A k : TextAfter(k)' = TextAfter(k)
    BY <1>1 DEF TextAfter
  <2>2. \A i \in 1 .. m + 1 : TextAfter(StartOf(i))' = TextAfter(StartOf(i))
    BY <1>1, <1>6 DEF TextAfter
  <2>. SUFFICES ASSUME NEW i \in 1 .. m + 1
                PROVE  NextCut(TextAfter(StartOf(i)))' = Len(chunks'[i])
    BY <1>6 DEF Chosen
  <2>3. NextCut(TextAfter(StartOf(i)))' = NextCut(TextAfter(StartOf(i)))
    BY <2>2
  <2>4. CASE i \in 1 .. m
    BY <1>0, <1>2, <1>6, <2>3, <2>4 DEF Chosen, m
  <2>5. CASE i = m + 1
    BY <1>2, <1>6, <2>3, <2>5 DEF Cut, n, m
  <2>. QED
    BY <1>4, <2>4, <2>5
<1>10. ChunkTypes'
  BY <1>0, <1>1, <1>6, <1>8 DEF ChunkTypes
<1>11. TheRest'
  BY <1>1, <1>2, <1>7 DEF TheRest
<1>. QED
  BY <1>6, <1>9, <1>10, <1>11 DEF ChunkInv

\* Flush ends the last chunk with the text, or drops what no one would say.
LEMMA FlushKeeps == ChunkInv /\ Flush => ChunkInv'
<1>. SUFFICES ASSUME ChunkInv, Flush PROVE ChunkInv'
  OBVIOUS
<1>. DEFINE n == Len(chunkBuf)
            m == Len(chunks)
<1>0. ChunkTypes /\ ChunksArePieces /\ Chosen /\ TheRest /\ NoneIsBare
  BY DEF ChunkInv
<1>1. ~flushed /\ ~feeding /\ flushed' = TRUE /\ chunkBuf' = <<>> /\ written' = written /\ feeding' = feeding
  BY DEF Flush
<1>2. chunkBuf = TextAfter(Cut) /\ chunkBuf \in Seq(RuneClasses) /\ chunkBuf' \in Seq(RuneClasses)
  BY <1>0, <1>1, EmptySeq DEF TheRest, ChunkTypes
<1>3. m \in Nat /\ Len(written) \in Nat /\ Cut \in 0 .. Len(written) /\ n = Len(written) - Cut
      /\ DOMAIN chunkBuf = 1 .. n /\ n \in Nat
  BY <1>0, <1>2, StartsInText, TextPieces, LenProperties DEF TextAfter, ChunkTypes
<1>. HIDE DEF n, m
<1>4. CASE HasLetterOrDigit(chunkBuf)
  <2>1. HandOver(n)
    BY <1>4 DEF Flush, n
  <2>2. n \in 1 .. Len(chunkBuf) /\ \E j \in 1 .. n : Speaks(chunkBuf[j])
    BY <1>3, <1>4 DEF HasLetterOrDigit, n
  <2>3. /\ chunks' \in Seq(Seq(RuneClasses)) /\ ends' \in Seq(Nat)
        /\ Len(chunks') = m + 1 /\ Len(ends') = Len(chunks')
        /\ ChunksArePieces' /\ NoneIsBare'
        /\ \A i \in 1 .. m + 1 : StartOf(i)' = StartOf(i)
        /\ \A i \in 1 .. m : Len(chunks'[i]) = Len(chunks[i])
        /\ Cut' = Cut + n
    BY <1>0, <1>1, <1>2, <2>1, <2>2, HandOverSplits DEF m
  <2>4. Chosen'
    <3>1. \A i \in 1 .. m : NextCut(TextAfter(StartOf(i)))' = NextCut(TextAfter(StartOf(i)))
      BY <1>1, <1>3, <2>3 DEF TextAfter
    <3>2. \A i \in 1 .. m + 1 : i < m + 1 => i \in 1 .. m
      BY <1>3
    <3>. QED
      BY <1>0, <1>1, <2>3, <3>1, <3>2 DEF Chosen, m
  <2>5. TheRest'
    <3>1. Cut' = Len(written)
      BY <1>3, <2>3
    <3>2. TextAfter(Cut)' = <<>>
      BY <1>1, <1>3, <3>1, SubSeqEmpty DEF TextAfter
    <3>3. ~HasLetterOrDigit(<<>>)
      BY DEF HasLetterOrDigit
    <3>4. ~HasLetterOrDigit(TextAfter(Cut))'
      BY <3>2, <3>3
    <3>. QED
      BY <1>1, <3>4 DEF TheRest
  <2>6. ChunkTypes'
    BY <1>0, <1>1, <1>2, <2>3 DEF ChunkTypes
  <2>. QED
    BY <2>3, <2>4, <2>5, <2>6 DEF ChunkInv
<1>5. CASE ~HasLetterOrDigit(chunkBuf)
  <2>1. chunks' = chunks /\ ends' = ends
    BY <1>5 DEF Flush
  <2>2. ChunkTypes' /\ ChunksArePieces' /\ NoneIsBare' /\ Chosen'
    BY <1>0, <1>1, <1>2, <2>1 DEF ChunkTypes, ChunksArePieces, NoneIsBare, Chosen, StartOf, TextAfter
  <2>3. TextAfter(Cut)' = chunkBuf
    BY <1>1, <1>2, <2>1 DEF TextAfter, Cut, StartOf
  <2>4. TheRest'
    BY <1>1, <1>5, <2>3 DEF TheRest
  <2>. QED
    BY <2>2, <2>4 DEF ChunkInv
<1>. QED
  BY <1>4, <1>5

\* A token more leaves the chunks what nextCut takes of all the text.
LEMMA FeedKeeps == ASSUME NEW t \in Seq(RuneClasses) PROVE ChunkInv /\ Feed(t) => ChunkInv'
<1>. SUFFICES ASSUME ChunkInv, Feed(t) PROVE ChunkInv'
  OBVIOUS
<1>. DEFINE m == Len(chunks)
<1>0. ChunkTypes /\ ChunksArePieces /\ Chosen /\ TheRest /\ NoneIsBare
  BY DEF ChunkInv
<1>1. /\ ~flushed /\ flushed' = flushed /\ feeding' = TRUE
      /\ written' = written \o t /\ chunkBuf' = chunkBuf \o t /\ chunks' = chunks /\ ends' = ends
  BY DEF Feed
<1>2. /\ m \in Nat /\ Len(written) \in Nat /\ Cut \in 0 .. Len(written) /\ Cut = StartOf(m + 1)
      /\ \A i \in 1 .. m + 1 : StartOf(i) \in 0 .. Len(written)
  BY <1>0, StartsInText DEF Cut
<1>3. /\ \A i : StartOf(i)' = StartOf(i)
      /\ Cut' = Cut
  BY <1>1 DEF StartOf, Cut
<1>4. written' \in Seq(RuneClasses) /\ Len(written') = Len(written) + Len(t) /\ Len(t) \in Nat
  BY <1>0, <1>1, ConcatProperties, LenProperties DEF ChunkTypes
<1>5. \A k \in 0 .. Len(written) : SubSeq(written', k + 1, Len(written')) = TextAfter(k) \o t
  BY <1>0, <1>1, TextGrows DEF TextAfter, ChunkTypes
<1>6. \A i \in 1 .. m + 1 : TextAfter(StartOf(i))' = TextAfter(StartOf(i)) \o t
  <2>. SUFFICES ASSUME NEW i \in 1 .. m + 1
                PROVE TextAfter(StartOf(i))' = TextAfter(StartOf(i)) \o t
    OBVIOUS
  <2>1. TextAfter(StartOf(i))' = SubSeq(written', StartOf(i) + 1, Len(written'))
    BY <1>3 DEF TextAfter
  <2>. QED
    BY <1>2, <1>5, <2>1
<1>7. Chosen'
  <2>. SUFFICES ASSUME NEW i \in 1 .. m
                PROVE  NextCut(TextAfter(StartOf(i)))' = Len(chunks[i])
    BY <1>1 DEF Chosen
  <2>1. NextCut(TextAfter(StartOf(i))) = Len(chunks[i])
    BY <1>0, <1>1 DEF Chosen
  <2>2. TextAfter(StartOf(i)) \in Seq(RuneClasses) /\ Len(chunks[i]) # 0
    BY <1>0, PieceOfText
  <2>3. NextCut(TextAfter(StartOf(i)) \o t) = Len(chunks[i])
    BY <2>1, <2>2, CutsAreStable
  <2>4. TextAfter(StartOf(i))' = TextAfter(StartOf(i)) \o t
    BY <1>2, <1>6
  <2>5. NextCut(TextAfter(StartOf(i)))' = NextCut(TextAfter(StartOf(i)) \o t)
    BY <2>4
  <2>. QED
    BY <2>3, <2>5
<1>8. ChunksArePieces'
  <2>. SUFFICES ASSUME NEW i \in 1 .. m
                PROVE  /\ StartOf(i) < ends[i] /\ ends[i] <= Len(written')
                       /\ chunks[i] = SubSeq(written', StartOf(i) + 1, ends[i])
    BY <1>1, <1>3 DEF ChunksArePieces
  <2>1. /\ StartOf(i) < ends[i] /\ ends[i] <= Len(written) /\ ends[i] \in Nat
        /\ chunks[i] = SubSeq(written, StartOf(i) + 1, ends[i])
    BY <1>0, ElementOfSeq DEF ChunksArePieces, ChunkTypes
  <2>2. StartOf(i) \in 0 .. Len(written)
    BY <1>2
  <2>3. ends[i] \in StartOf(i) .. Len(written)
    BY <1>2, <2>1, <2>2
  <2>4. SubSeq(written', StartOf(i) + 1, ends[i]) = SubSeq(written, StartOf(i) + 1, ends[i])
    BY <1>0, <1>1, <2>2, <2>3, TextGrows DEF ChunkTypes
  <2>5. ends[i] <= Len(written')
    BY <1>2, <1>4, <2>1
  <2>. QED
    BY <2>1, <2>4, <2>5
<1>9. TheRest'
  <2>1. TextAfter(Cut)' = TextAfter(Cut) \o t
    BY <1>2, <1>3, <1>5 DEF TextAfter
  <2>2. chunkBuf = TextAfter(Cut)
    BY <1>0, <1>1 DEF TheRest
  <2>. QED
    BY <1>1, <2>1, <2>2 DEF TheRest
<1>10. ChunkTypes'
  <2>1. chunkBuf' \in Seq(RuneClasses)
    BY <1>0, <1>1, ConcatProperties DEF ChunkTypes
  <2>. QED
    BY <1>0, <1>1, <1>4, <2>1 DEF ChunkTypes
<1>11. NoneIsBare'
  BY <1>0, <1>1 DEF NoneIsBare
<1>. QED
  BY <1>7, <1>8, <1>9, <1>10, <1>11 DEF ChunkInv

\* Tokens are texts.
LEMMA TokensAreTexts == Tokens \subseteq Seq(RuneClasses)
<1>1. ASSUME NEW r \in RuneClasses PROVE <<r>> \in Seq(RuneClasses)
  OBVIOUS
<1>2. ASSUME NEW r \in RuneClasses PROVE <<"letter", "letter", r>> \in Seq(RuneClasses)
  <2>1. "letter" \in RuneClasses
    BY DEF RuneClasses
  <2>. QED
    BY <2>1
<1>. QED
  BY <1>1, <1>2 DEF Tokens

\* However the LLM's tokens fall, and for any thresholds and lengths, the chunks
\* handed to the TTS are the reply's text: piece after piece of it, all but a tail
\* without letters, each with a letter or digit unless the hard limit cut it and no
\* number alone because of its own dot, none ending inside a word short of the hard
\* limit nor inside a syllable, and each the chunk nextCut takes of the whole text.
THEOREM ChunksSayTheText == ChunkerSpec => []ChunksAreTheText
<1>1. ChunkerInit => ChunkInv
  <2>. SUFFICES ASSUME ChunkerInit PROVE ChunkInv
    OBVIOUS
  <2>1. /\ written = <<>> /\ chunkBuf = <<>> /\ feeding = FALSE
        /\ chunks = <<>> /\ ends = <<>> /\ flushed = FALSE /\ Len(chunks) = 0
    BY EmptySeq DEF ChunkerInit
  <2>2. ChunkTypes
    BY <2>1, EmptySeq DEF ChunkTypes
  <2>3. ChunksArePieces /\ Chosen
    BY <2>1 DEF ChunksArePieces, Chosen
  <2>4. NoneIsBare
    BY <2>1 DEF NoneIsBare
  <2>5. TextAfter(Cut) = <<>>
    BY <2>1, SubSeqEmpty DEF TextAfter, Cut, StartOf
  <2>6. NextCut(<<>>) = 0
    BY DEF NextCut
  <2>. QED
    BY <2>1, <2>2, <2>3, <2>4, <2>5, <2>6 DEF ChunkInv, TheRest
<1>2. ChunkInv /\ [ChunkerNext]_chunkVars => ChunkInv'
  <2>. SUFFICES ASSUME ChunkInv, [ChunkerNext]_chunkVars PROVE ChunkInv'
    OBVIOUS
  <2>1. CASE Flush
    BY <2>1, FlushKeeps
  <2>2. CASE CutChunk
    BY <2>2, CutChunkKeeps
  <2>3. CASE FeedReturns
    BY <2>3 DEF FeedReturns, ChunkInv, ChunkTypes, ChunksArePieces, Chosen, TheRest, NoneIsBare,
                StartOf, Cut, TextAfter
  <2>4. CASE \E t \in Tokens : Feed(t)
    BY <2>4, FeedKeeps, TokensAreTexts
  <2>5. CASE UNCHANGED chunkVars
    BY <2>5 DEF chunkVars, ChunkInv, ChunkTypes, ChunksArePieces, Chosen, TheRest, NoneIsBare,
                StartOf, Cut, TextAfter
  <2>. QED
    BY <2>1, <2>2, <2>3, <2>4, <2>5 DEF ChunkerNext
<1>. QED
  BY <1>1, <1>2, ChunkInvImplies, PTL DEF ChunkerSpec
=============================================================================
