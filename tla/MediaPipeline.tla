--------------------------- MODULE MediaPipeline ---------------------------
(***************************************************************************)
(* The goroutines of one call's media: CallMedia (internal/media/          *)
(* loopback.go, rtp.go) for RTP, AudioSocketCallMedia (audiosocket_call.go,*)
(* earshot.go) for AudioSocket and FreeSWITCH's earshot, with the pacers   *)
(* (pacer.go) and the watchdog (watchdog.go).  Run, readLoop, releaseLoop, *)
(* writeLoop and the watchdog share a wire, two queues and a recorder.     *)
(*                                                                         *)
(* A frame is its number.  Which packet an RTP tick releases is            *)
(* JitterBuffer's; here an RTP packet locks the remote and touches the     *)
(* watchdog.  A tick stops being atomic where it can block or be overtaken *)
(* by Run: between the check of ctx and the rest, and at the write.        *)
(***************************************************************************)
EXTENDS Integers, Sequences

CONSTANTS
    Transports,     \* transports a behaviour may be about
    QueueCap,       \* capacity of the inbound and the outbound queue (5)
    MaxFrames       \* bound: frames the far end sends

ASSUME PipelineAssumption ==
    /\ Transports \subseteq {"rtp", "audiosocket", "earshot"}
    /\ QueueCap \in Nat \ {0} /\ MaxFrames \in Nat

VARIABLES
    transport,
    ctxLive,        \* Run's ctx is not cancelled
    wireOpen,       \* the socket, connection or WebSocket is open on our side
    farEnd,         \* the far end: up, stalled (reads nothing), gone
    framesIn,       \* frames the far end has sent
    reading,        \* readLoop is running
    inbound,        \* the inbound queue
    outbound,       \* frames in the outbound queue
    lastIn,         \* the last inbound frame the Handler was given
    remoteLocked,   \* RTP: the address of the first packet is known
    releasing,      \* releaseLoop: idle, tick, done
    writing,        \* writeLoop: idle, tick, frame (a frame to write), done
    writeDead,      \* a framed write has failed
    silentLong,     \* nothing came in for the dead timeout
    mediaDead,      \* Dead() is closed
    recorderOpen,
    running         \* Run: serving, stopping, closed

wireVars == <<transport, wireOpen, farEnd, framesIn, remoteLocked>>
loopVars == <<reading, releasing, writing, writeDead>>
queueVars == <<inbound, outbound, lastIn>>
watchVars == <<silentLong, mediaDead>>
runVars == <<ctxLive, recorderOpen, running>>
mediaVars == <<wireVars, loopVars, queueVars, watchVars, runVars>>

Framed == transport # "rtp"
PacersStopped == running # "serving"

-----------------------------------------------------------------------------
\* The far end (external), and the call's context.

FarEndStalls ==
    /\ farEnd = "up" /\ farEnd' = "stalled"
    /\ UNCHANGED <<transport, wireOpen, framesIn, remoteLocked, loopVars, queueVars, watchVars, runVars>>

FarEndHangsUp ==
    /\ farEnd # "gone" /\ farEnd' = "gone"
    /\ UNCHANGED <<transport, wireOpen, framesIn, remoteLocked, loopVars, queueVars, watchVars, runVars>>

CancelMedia ==
    /\ ctxLive /\ ctxLive' = FALSE
    /\ UNCHANGED <<wireVars, loopVars, queueVars, watchVars, recorderOpen, running>>

-----------------------------------------------------------------------------
\* readLoop.

Touch == silentLong' = FALSE

\* A valid packet over UDP, from whoever sent it.
RtpReads ==
    /\ reading /\ wireOpen /\ ~Framed /\ farEnd = "up" /\ framesIn < MaxFrames
    /\ framesIn' = framesIn + 1
    /\ remoteLocked' = TRUE
    /\ Touch
    /\ UNCHANGED <<transport, wireOpen, farEnd, loopVars, queueVars, mediaDead, runVars>>

Offer(q, frame) == IF Len(q) < QueueCap THEN Append(q, frame) ELSE q

\* A frame over TCP or a WebSocket: dropped when releases do not keep up.
FramedReads ==
    /\ reading /\ wireOpen /\ Framed /\ farEnd = "up" /\ framesIn < MaxFrames
    /\ framesIn' = framesIn + 1
    /\ Touch
    /\ inbound' = Offer(inbound, framesIn')
    /\ UNCHANGED <<transport, wireOpen, farEnd, remoteLocked, loopVars, outbound, lastIn, mediaDead, runVars>>

\* Our side closed, a framed connection ended by the far end, or a read failed.
ReaderEnds ==
    /\ reading /\ reading' = FALSE
    /\ UNCHANGED <<wireVars, releasing, writing, writeDead, queueVars, watchVars, runVars>>

\* What must end the reader.
ReaderMustEnd == ReaderEnds /\ (wireOpen => Framed /\ farEnd = "gone")

-----------------------------------------------------------------------------
\* releaseLoop, on its own ticker.

ReleaseTickBegins ==
    /\ releasing = "idle" /\ ctxLive
    /\ releasing' = "tick"
    /\ UNCHANGED <<wireVars, reading, writing, writeDead, queueVars, watchVars, runVars>>

TakeInbound ==
    IF inbound = <<>> THEN UNCHANGED <<inbound, lastIn>>
                      ELSE lastIn' = Head(inbound) /\ inbound' = Tail(inbound)

\* Recorded, given to the Handler; its answer is queued, or dropped when the
\* writer does not keep up.
ReleaseTickEnds(answers) ==
    /\ releasing = "tick" /\ releasing' = "idle"
    /\ TakeInbound
    /\ outbound' = IF answers /\ outbound < QueueCap THEN outbound + 1 ELSE outbound
    /\ UNCHANGED <<wireVars, reading, writing, writeDead, watchVars, runVars>>

ReleaserStops ==
    /\ releasing = "idle" /\ PacersStopped
    /\ releasing' = "done"
    /\ UNCHANGED <<wireVars, reading, writing, writeDead, queueVars, watchVars, runVars>>

-----------------------------------------------------------------------------
\* writeLoop, on its own ticker.

WriteTickBegins ==
    /\ writing = "idle" /\ ctxLive /\ ~writeDead
    /\ writing' = "tick"
    /\ UNCHANGED <<wireVars, reading, releasing, writeDead, queueVars, watchVars, runVars>>

\* A queued frame, else silence, is recorded and written; earshot is sent no
\* filler.
TakeOutbound ==
    /\ writing = "tick"
    /\ writing' = IF outbound = 0 /\ transport = "earshot" THEN "idle" ELSE "frame"
    /\ outbound' = IF outbound = 0 THEN 0 ELSE outbound - 1
    /\ UNCHANGED <<wireVars, reading, releasing, writeDead, inbound, lastIn, watchVars, runVars>>

\* RTP goes nowhere before the remote is locked, and is never held up.
WriteSucceeds ==
    /\ writing = "frame" /\ wireOpen
    /\ Framed => farEnd = "up"
    /\ writing' = "idle"
    /\ UNCHANGED <<wireVars, reading, releasing, writeDead, queueVars, watchVars, runVars>>

\* earshot's writes have a deadline; AudioSocket's wait until the connection
\* is closed.
MayFail == \/ ~wireOpen \/ farEnd = "gone"
           \/ farEnd = "stalled" /\ transport = "earshot"

\* A framed stream cannot be trusted after a failed write: no more of them,
\* and the connection is closed, which ends the reader.
FrameWriteFails ==
    /\ writing = "frame" /\ MayFail
    /\ writing' = "idle"
    /\ writeDead' = Framed
    /\ wireOpen' = (wireOpen /\ ~Framed)
    /\ UNCHANGED <<transport, farEnd, framesIn, remoteLocked, reading, releasing, queueVars, watchVars, runVars>>

WriterStops ==
    /\ writing = "idle" /\ PacersStopped
    /\ writing' = "done"
    /\ UNCHANGED <<wireVars, reading, releasing, writeDead, queueVars, watchVars, runVars>>

-----------------------------------------------------------------------------
\* Watchdog.Run, which polls the time since the last Touch.

SilencePasses ==
    /\ ctxLive /\ ~silentLong /\ silentLong' = TRUE
    /\ UNCHANGED <<wireVars, loopVars, queueVars, mediaDead, runVars>>

WatchdogPolls ==
    /\ ctxLive /\ silentLong /\ ~mediaDead
    /\ mediaDead' = TRUE
    /\ UNCHANGED <<wireVars, loopVars, queueVars, silentLong, runVars>>

-----------------------------------------------------------------------------
\* Run.

\* Mutant: the wire is left to the recorder's turn.
RunStopsOpen ==
    /\ running = "serving" /\ ~ctxLive
    /\ running' = "stopping"
    /\ UNCHANGED <<wireVars, loopVars, queueVars, watchVars, ctxLive, recorderOpen>>

\* The pacers are stopped and the wire closed.
RunStops ==
    /\ running = "serving" /\ ~ctxLive
    /\ running' = "stopping"
    /\ wireOpen' = FALSE
    /\ UNCHANGED <<transport, farEnd, framesIn, remoteLocked, loopVars, queueVars, watchVars, ctxLive, recorderOpen>>

\* Mutant: only the reader is waited for.
LoopsDoneReader == ~reading
LoopsDone == ~reading /\ releasing = "done" /\ writing = "done"

RunCloses ==
    /\ running = "stopping" /\ LoopsDone
    /\ running' = "closed" /\ recorderOpen' = FALSE
    /\ UNCHANGED <<wireVars, loopVars, queueVars, watchVars, ctxLive>>

-----------------------------------------------------------------------------
MediaInit ==
    /\ transport \in Transports
    /\ ctxLive = TRUE /\ wireOpen = TRUE /\ farEnd = "up" /\ framesIn = 0
    /\ reading = TRUE /\ inbound = <<>> /\ outbound = 0 /\ lastIn = 0
    /\ remoteLocked = FALSE /\ releasing = "idle" /\ writing = "idle" /\ writeDead = FALSE
    /\ silentLong = FALSE /\ mediaDead = FALSE /\ recorderOpen = TRUE /\ running = "serving"

ReleaseSteps == ReleaserStops \/ ReleaseTickBegins \/ \E answers \in BOOLEAN : ReleaseTickEnds(answers)
WriteSteps == WriterStops \/ WriteTickBegins \/ TakeOutbound \/ WriteSucceeds \/ FrameWriteFails
RunStepsMedia == RunStops \/ RunCloses
WatchSteps == WatchdogPolls \/ (~reading /\ SilencePasses)

MediaNext ==
    \/ FarEndStalls \/ FarEndHangsUp \/ CancelMedia
    \/ RtpReads \/ FramedReads \/ ReaderEnds
    \/ ReleaseSteps \/ WriteSteps \/ RunStepsMedia
    \/ SilencePasses \/ WatchdogPolls

MediaSpec == MediaInit /\ [][MediaNext]_mediaVars

\* Every goroutine runs on; a write that cannot go on fails (FrameWriteFails) or,
\* over AudioSocket, waits.
MediaFairness ==
    /\ WF_mediaVars(ReaderMustEnd) /\ WF_mediaVars(ReleaseSteps) /\ WF_mediaVars(WriteSteps)
    /\ WF_mediaVars(RunStepsMedia) /\ WF_mediaVars(WatchSteps)
FairMediaSpec == MediaSpec /\ MediaFairness

-----------------------------------------------------------------------------
\* The queues keep within their channels' capacity, every goroutine is at one
\* of its steps.
MediaTypeOK ==
    /\ transport \in Transports /\ farEnd \in {"up", "stalled", "gone"}
    /\ Len(inbound) <= QueueCap /\ outbound \in 0..QueueCap
    /\ framesIn \in 0..MaxFrames /\ lastIn \in 0..MaxFrames
    /\ releasing \in {"idle", "tick", "done"} /\ writing \in {"idle", "tick", "frame", "done"}
    /\ running \in {"serving", "stopping", "closed"}

\* The recorder is closed after the last tick that writes to it: a tick that
\* was in flight when the call ended finishes first.
RecorderClosedLast == ~recorderOpen => releasing # "tick" /\ writing \notin {"tick", "frame"} /\ ~reading

\* The Handler hears the caller's frames in order and none twice, though
\* frames are dropped when it is slow.
InboundInOrder ==
    LET line == <<lastIn>> \o inbound IN
    \A i, j \in DOMAIN line : i < j => line[i] < line[j]

\* A failed write ends the call's media: the reader ends too, which is what
\* the managers watch.
WriteErrorEndsReader == writeDead ~> ~reading

\* A call that stopped delivering audio is declared dead by the watchdog,
\* unless it ends first: nobody else notices when an RTP reader ends.
DeafCallIsDeclaredDead == ~reading ~> (mediaDead \/ ~ctxLive)

\* Once its ctx is cancelled Run returns, even when the writer is held up by
\* a far end that has stopped reading.
MediaStops == ~ctxLive ~> running = "closed"

\* What the call's ear and its record get, and when.
FramesInOrder == MediaTypeOK /\ RecorderClosedLast /\ InboundInOrder

\* A call's media comes to its end, whichever side of it fails.
MediaEnds == WriteErrorEndsReader /\ DeafCallIsDeclaredDead /\ MediaStops
=============================================================================
