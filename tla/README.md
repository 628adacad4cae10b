# Vaani in TLA+

Vaani is a voice agent for telephone calls. It answers and places calls through
Asterisk (ARI) or FreeSWITCH, carries their audio over RTP or AudioSocket,
converses with the caller through speech recognition, a language model and
speech synthesis, and shares its database, its campaigns and its call history
with Dograh. This directory holds TLA+ models of the parts whose correctness
depends on the order of things, what TLC finds out about them on small
instances, and what TLAPS proves about them for every instance.

## The system

| Part | Source (`src/internal/`) | State | Operations | What is hard |
|---|---|---|---|---|
| Campaign runner | `campaign/runner.go` | `draining`, `inflight`, `liveRuns`, `wakeCh` | Run, scan, drain, dialOne, place, finished, maybeComplete, recover, sweep | one goroutine per campaign and per ended call; every step is a command that may fail; crashes |
| Limiter | `campaign/limiter.go` | Redis sets of slots, call starts, outcomes | AcquireSlot, ReleaseSlot, AcquireToken, RecordOutcome | two sets without a transaction, entries that grow stale |
| Campaign store | `dograh/campaign.go`, `outbound.go` | campaigns, queued_runs, workflow_runs | ClaimRuns, SetRunState, ScheduleRetry, CreateOutboundRun, CompleteCampaign, RecoverContacts, StaleRuns | updates made by several writers, Dograh's UI among them |
| Run recording | `callagent/callagent.go`, `dograh/run.go` | the run of one call | MarkRunRunning, FinishRun | runs beside the dialer's own completion of the run |
| Call manager | `ari/handlers.go`, `outbound.go` | `pending`, `active`, `outbound`, calls | onStasisStart, startCall, completeBridge, onStasisEnd, abort, teardown, teardownAll, Dial | an event loop, timers, media goroutines, a watcher and dialers around one lock; lost events |
| Session, ports | `session/call.go`, `media/portalloc.go` | call state, once-guard, ports in use | SetState, Teardown, Alloc, Free | cleanup from many goroutines |
| Transfer | `ari/transfer.go` | `transfers`, `transferChannel` | transfer, connectTransfer | hangups during the swap |
| Agent | `ai/agent/handler.go`, `backchannel.go` | turn state and generation, queues, timers, history | transcripts, replies, barge-in, tools, idle and drain timeouts | signals without a generation, results of an earlier turn |
| Speech gate | `ai/agent/sttgate.go` | ring of frames, open or closed | frame | speech that begins as the gate closes, the ring's wrap |
| Chunking | `ai/agent/chunker.go` | the text not cut yet | Feed, Flush | where a token ends must not matter |
| Speech to text | `ai/stt/sarvam.go` | one connection, closed, backoff | Feed, Flush, receiveLoop, redial, Close | late failures of a replaced connection; a dial that ends after the call |
| Language model | `ai/llm/client.go` | one request, its attempts, its tool calls | Stream, add, done | retries against what was spoken; fragments of several calls |
| Speech synthesis | `ai/tts/sarvam.go` | one connection per turn | Speak, readLoop, Cancel | late audio of a cut reply |
| Jitter buffer | `media/jitterbuffer.go` | window, slots, stats | Push, Release | reordering, wrap-around, freezes |
| Media planes | `media/loopback.go`, `rtp.go`, `audiosocket_call.go`, `earshot.go`, `pacer.go`, `watchdog.go` | two queues, a socket, a recorder | Run, readLoop, releaseLoop, writeLoop, watchdog | one side fails and the other is blocked; closing while a tick is under way |
| FreeSWITCH manager | `freeswitch/manager.go` | `calls`, `closing`, `esl`, gauge | ServeHTTP, runCall, onEvent, hangup, Run | reconnecting media, lost hangup events, shutdown |
| Event Socket client | `esl/esl.go` | mutex, reply channel, event queue | Send, readLoop, pumpEvents, fail | late replies, lost wake-ups |
| Call record | `ai/agent/extract.go`, `calllog.go`, `callagent/callagent.go`, `dograh/run.go`, `qa.go`, `cost.go` | the run, variables, annotations | startExtraction, Finalize, recordRun, FinishRun, RunQA | extractions that outlive the turn, the process stopping, timeouts of timeouts |
| Dograh workflow, tools, storage | `dograh/*.go` | none that outlives a call | parsing, HTTP tools, files | sequential |

How they interact: the runner calls `Manager.Dial` and hears of the end of the
call through the `Done` callback, on a goroutine of its own. The manager's event
loop starts a media goroutine per bridged call, which builds the agent
(`callagent`), which records the call in Dograh. The runner, the agent's record
and Dograh's own UI write the same database rows.

What makes each part correct:

* runner: no contact is called twice; nobody is forgotten; a campaign is
  completed only when nothing of it is left; limits hold; every run is closed;
* call manager: every call is cleaned up exactly once; no port, socket, bridge,
  channel or map entry outlives its call; no port has two owners; `Done` is
  called exactly once for a placed call, when the call is over;
* both managers: what `CallLife` says, the promise they share;
* Event Socket: a command gets its own reply, events come in order and all of
  them, and the loss of the connection is noticed by everyone who waits;
* transfer: neither side is left alone in the bridge;
* agent: a signal of one turn never acts on another; history is what was heard;
  the call ends when it should;
* speech and language clients: a stream lost is replaced and one replaced stays
  closed; nothing is said twice; a tool call keeps its own arguments; all the
  text is spoken;
* media: packets and frames in order, each in its turn; the caller is heard again
  after any disturbance; every goroutine ends with its call;
* record: a call's run is completed, and holds what was extracted and reviewed.

## The modules

| Module | Contents |
|---|---|
| `CampaignDialer` | runner, slots, campaign store, run recording |
| `CampaignDialerProofs`, `CampaignCallsProofs` | its inductive invariants and theorems: rows, then calls and slots |
| `CallLife` | abstract: what a call manager promises of its calls |
| `CallManager` | Asterisk: event loop, staging, bridging, teardown, watcher, shutdown, Dial |
| `CallManagerLife`, `CallManagerProofs` | the refinement mapping from `CallManager` to `CallLife`; the proofs |
| `FreeSwitch` | FreeSWITCH: connections, calls, events, hangups, shutdown |
| `FreeSwitchLife`, `FreeSwitchProofs` | the refinement mapping from `FreeSwitch` to `CallLife`; the proofs |
| `EventSocket`, `EventSocketProofs` | the Event Socket client |
| `Transfer`, `TransferProofs` | a caller handed over to a person |
| `AgentTurn`, `AgentTurnProofs` | the agent's turns, interruptions and held speech, the requests of the TTS client |
| `SpeechGate`, `SttStream` | which frames go to the speech-to-text; its connection |
| `LlmStream`, `ToolCalls`, `SentenceChunker` | a streamed reply with its retries; its tool calls; its text cut for the TTS |
| `JitterBuffer`, `MediaPipeline` | the order of RTP packets; the goroutines of a call's media |
| `CallRecord` | extraction, completion of the run, QA, cost |
| `PipelineProofs` | theorems about `MediaPipeline`, `JitterBuffer`, `SpeechGate`, `SttStream`, `LlmStream`, `ToolCalls`, `SentenceChunker` and `CallRecord` |
| `MCCampaignDialer`, `MCCallManager`, `MCAgentTurn` | instances for TLC |
| `MCCallScenarios`, `MCAgentScenarios` | two scenarios of one module in one run |
| `MCTelephony`, `MCPipeline` | several modules without common state in one run |

The dialer and the manager meet in `Dial` and `Done`. `CampaignDialer` sees a
call as none, ringing, up or over and takes from the manager's comment that an
error from `Dial` means no call and no `Done` (`ari/outbound.go:84-85`).
`CallManager` has the request that is answered with an error though the phone
rings: the call was registered before the request was sent, so it is bridged,
ended and reported all the same. The constant `DoneAfterDialError` of
`CampaignDialer` shows what the runner then does. `AgentTurn` sees the manager
only as frames of audio and as `Hangup`, and a call that ends at any time
(`CallEnds`). `FreeSwitch` sees the Event Socket client as what `EventSocket`
shows it to be: events in order until the connection goes, and commands that
fail once it has gone. `MediaPipeline` leaves to `JitterBuffer` which packet a
tick releases; `Transfer` begins where `CallManager` has bridged a call.

In the joint runs (`MCTelephony`, `MCPipeline`) the variable `part` is chosen at
the start and says which component moves; the others keep their initial state.
The state space is the sum of the components', and each property is checked over
the behaviours about its own component (it holds of the others' because nothing
of it moves). Every action fires, by TLC's coverage; the one branch that does not
is the reader's guard against a reply nobody waits for (`PutReply` of
`EventSocket`), since a command that times out closes the connection.
`MCCallScenarios` and `MCAgentScenarios` hold two scenarios of one
module each: the action constraint `Scenarios` leaves out the steps that lead out
of both, and the safety properties are checked in either.

### CampaignDialer

State: Dograh's tables (`campState`, `rowState`, `due`, `processedRows`,
`failedRows`, `runState`, `oldRuns`), the two Redis sets (`orgSlots`,
`capSlots`; `agedSlots` says which entries are older than 20 minutes), the
process's memory (`main`: the Run goroutine; `drain[c]`: where the drain
goroutine of campaign c is and its locals; `inflight`, `liveRuns`; `fin[r]`:
the `finished` goroutine of a call), and the calls with their agents.

A contact row is a pair of a contact and a retry count, since ScheduleRetry's
unique key is just that; a run is a row and the number of the attempt to create
one. Every database or Redis command is one action, named after the function
that issues it. A command can fail at any time: `Fault`, at most `MaxFaults`
times. Where the code goes on differently after an error, the command may have
taken effect or not (a claimed row whose answer was lost, a run inserted by a
request that timed out, a Redis script that ran). Where the code only logs the
error, a failure with effect is the same as success. `Crash` throws the memory
away between any two steps; a deploy's shutdown is one of the places it can
happen.

Abstracted: one organization; `GatesPass`, `GatesStop` and `GatesTrip` stand
for the checks at the head of dialOne (state, schedule, breaker, wallet,
limits, rate token), whose answers may change at every reading; waiting for a
rate token is staying at the gates. Times: a retry becomes due (`RetryDue`), a
run older than the ring timeout plus a minute (`RunGetsOld`), a slot older than
20 minutes (`SlotAges`). `RunGetsOld` relies on the ring timeout (the call no
longer rings), and both on dialOne taking less than that.

### CallManager

State: Asterisk's channels, bridges and event queue; the manager's maps, ports
and gauge; the loop, the watcher, the two possible runs of teardownAll; per call
its session state, port, socket, bridge, timer, once-guard (`td`) and media
goroutine; per dialed call the progress of `Dial`, the watchdog and the
outcome. A call is named by its caller's channel.

An action ends at every ARI request that another goroutine can come between and
at every section under `Manager.mu`. The event loop is one process: it takes one
event and is busy until the handler returns, blocked in a teardown included
(`sync.Once` makes a second caller wait). Asterisk is external: channels start,
are answered and end at any time, events come in order and are lost while the
WebSocket is down; a hangup of a channel that is gone is not an error. Requests
fail when a channel is gone, and at most `MaxFaults` times for no visible
reason, the externalMedia and originate requests with or without effect.

Abstracted: audio, the agent, transfers (see `Transfer`), numbers and hangup
causes. A hangup or a bridge deletion is assumed to take effect.

### CallLife, and what implements it

`CallLife` has the switch's channels (none, up, gone), the calls (none, live,
over) with the channel each is on, and the gauge. A call begins on a channel the
switch has had and on which no other call is live, begins and ends once, and the
gauge counts exactly the live ones; a live call whose channel is gone ends
(`Promise`). In `CallManagerLife` a call is a caller's channel, live from
completeBridge to the end of its teardown. In `FreeSwitchLife` a call is a
connection of earshot, live from the start of runCall to the end of its deferred
functions; two connections for one channel are the interesting case, since
earshot reconnects. Each mapping is checked as a temporal property, so every step
of either manager is a step of `CallLife` or a stutter.

### FreeSwitch, EventSocket

`FreeSwitch`: the switch's channels, WebSockets and event queue; the manager's
`calls`, `esl`, gauge and `closing`; per connection its handler goroutine
(ServeHTTP and runCall), the watcher that ends the call with its media, the
cause of its context; the goroutines of `go m.hangup`; Run. `missed` is a
history: the ids whose uuid_kill did not reach the switch. Trouble is the Event
Socket failing, and a WebSocket dropped or gone silent while its channel is up.

`EventSocket`: the connection, the messages on it, the reader, the pump with its
batch and its one-slot wake-up, the mutex, the one-slot reply channel, one
command per sender. A timeout closes the connection, which is why no reply can be
taken for another's.

### Transfer

The three channels (caller, the agent's leg, destination) with their events in
order, `tracked` (the keys of `active` that lead to the call), `handedOver`
(`transferChannel`), the pending transfer with its two signals, the tool's
goroutine from originate to connect, the event loop and the teardown. Everyone
may hang up at any time and the turn that runs the tool may be cut.

### The media

`JitterBuffer` keeps the fields of the code's struct. Packet and release tick
alternate, as two 20 ms clocks do; a packet lost, delayed, duplicated or
restarted under another SSRC and a tick too many or too few each cost one unit
of trouble. Sequence numbers are compared as int16 does.

`MediaPipeline` covers the three transports with the differences the code has:
RTP without an inbound queue and with a socket that stays open until Run ends
it; AudioSocket, whose write may block on a far end that does not read; earshot,
whose write has a deadline. A tick is split where it can block or be overtaken.

### Speech and language

`SttStream`: connections are numbered as dialed; a writer reads `conn` under the
mutex and writes to it later, a receiver's failure invalidates only the
connection it was reading, and one redial runs at a time. `SpeechGate`: the ring
with head and count as the code has them; a frame's number is its time. `LlmStream`:
one call of Stream, its attempts, the idle timer and the caller's cancellation;
each line of a body is content, a tool call, usage, an error or [DONE]. `ToolCalls`:
the assembler against the four styles in which providers send fragments.
`SentenceChunker`: runes by class, thresholds scaled down from 80 and 160 to 4
and 8; a step is a token coming in or one turn of Feed's loop. The history `ends`
keeps where in the text each chunk ends, so that each can be compared with what
nextCut takes of all the text from where it starts.

### CallRecord

The turn that leaves workflow nodes, one extraction per node left, the end of
the loop, and recordRun: waiting for extractions, the extraction of the last
node, FinishRun, disposition code, files, QA and cost. The process may be told to
stop at any time, one database command or upload may fail, and the two 30 s
waits and QA's overall timeout may pass.

### AgentTurn

State: the atomics shared by `run()` and ProcessFrame (`state`, `paused`,
`silence`, `ttsDeliveryDone`, `closing`, `playing`, `replay`), the frames
waiting to be played (`outbound`), the event channel (`events`, in order) and
the three one-slot signals (`sigs`, which select takes in any order); what only
`run()` has (`curGen`, `turnChunks`, the ending of the call, the two timers,
`held`); per generation the `runLLMTurn` goroutine (`turn`); per TTS connection
its client and provider (`conn`); and the caller (`stt`). Two histories are kept
for the properties: `heard`, the sentences played with the generation that was
current, and `cut`, the replies that were interrupted; `recorded` is what
recordReply has written.

The processes are ProcessFrame, `run()`, one LLM turn per generation, the
provider and reader of each connection, the STT reader and the timers. A handler
is one action, cutReply included, except where ProcessFrame can come between
reading the pause and lifting it (`run` = confirm, unpause, cut). `Preempt` says
where a goroutine may be held up between two instructions: "tick" is
ProcessFrame between reading the state, the pause and the queue, "reader" is
readTTS between its look at the client's done channel and its select.

Abstracted: a sentence is one TTS request whose audio is one frame, a reply is
named by its generation, a transcript is words, an acknowledgement or junk.
Whether held speech answers a reply depends on AckEndMargin: speech begun in the
last sentence does (`MustAnswer`), earlier speech may (`MayAnswer`). A timer whose
sequence number has moved on is taken out of the event channel, where the code
would ignore it. Edges lead to the end node only; a turn reads its node when it
starts. Left out: transfers, hold music, recorded clips, the fixed lines spoken
for tools and edges, and the capacity of the event channel.

Timing that the model takes from the code's constants: `run()` handles a raised
signal before `silenceUntil` has passed and within the ten seconds of the drain
timeout; with `MinSpeech`, BARGE_IN_MIN_SPEECH_MS is longer than one frame, so
that a reply that resumes has replayed its sentence before the next interruption
can be detected.

## What TLC checks

All runs have `CHECK_DEADLOCK FALSE`: a campaign that is completed, a manager
without calls and an agent whose call is over have nothing left to do.

| Run | Instance | Properties | Distinct states |
|---|---|---|---|
| `CampaignFaults` | 1 campaign, 2 contacts, 1 fault, 1 crash, 1 pause | `TypeOK`, `AtMostOneDial`, `CompletedIsQuiet` | 1.5 M |
| `CampaignRetries` | 2 contacts (one without a number), 1 retry, 1 crash, sweep | `CompletedIsQuiet`, `CompletedAccounts`, `LiveRunsSpared` | 2.3 M |
| `CampaignLimits` | 2 campaigns, organization limit 1, own cap 2, slots age, 1 fault | `LimitsHold`, `NoSlotLeak` | 2.3 M |
| `CampaignLiveness` | 1 contact, 1 retry, limit 1, 1 crash, slots and runs age | `CampaignCompletes`, `RunsSettle` | 0.3 M |
| `CallFaults` | RTP, 2 ports; `Faults`: 1 inbound and 1 dialed call, 1 fault; `Drops`: 1 dialed call, duration timer, 1 WebSocket drop, shutdown | `PortsExclusive`, `FaultsSettle`, `CallsFindable` | 1.1 M |
| `CallLiveness` | 1 inbound and 1 dialed call, AudioSocket, 1 port, 1 fault | `ImplementsCallLife`, `CallsSettle` | 0.1 M |
| `AgentFaults` | greeting, all tools, replies of 2 sentences, 1 utterance, 1 fault, a TTS that may stop answering anywhere, goroutines held up | `CutStaysCut`, `ReplyEnds` | 0.5 M |
| `AgentTurns` | `Turns`: LLM opens, replies of 2 sentences, early finalizing, 1 utterance, 2 interruptions; `Silence`: greeting, end_call, silence clock, maximum duration, 2 utterances or silences | `CutStaysCut`, `OneTurnAtATime`, `HistoryIsWhatWasHeard`, `SilenceClockRuns`, `EndingHangsUp` | 1.3 M |
| `Telephony` | FreeSWITCH: 1 channel, 2 connections, 1 trouble of each kind, duration limit, shutdown; Event Socket: 2 commands, 2 events; a transfer | `OwnReply`, `ImplementsCallLife`, `CallersNotLeft`, `ShutdownIsFinal`, `EventsArrive`, `LossIsNoticed`, `NobodyLeftAlone` | 74 k |
| `Pipeline` | jitter buffer of 3, modulus 52, 2 troubles; 3 transports, queues of 1, 2 frames; 5 connections, 2 faults; gate of 8 frames; 2 retries; 3 tool calls of 3 fragments; replies of 10 runes; 2 nodes, 2 QA nodes, 1 fault | `FramesInOrder`, `GateFeeds`, `CallsKeepTheirArguments`, `ChunksAreTheText`, `RecordIsComplete`, `PacketsInTurn`, `CallerIsHeard`, `MediaEnds`, `StreamKept`, `ReplySettles`, `CallLeavesRunning` | 0.1 M |

Several properties are conjunctions of named parts, each with its own comment in
its module, which together are one promise: `FaultsSettle` (`NothingLeaks`,
`GaugeCountsCalls`, `MediaLegNeverACaller`, `DoneMeansOver`), `CallsSettle`
(`NothingLeaks`, `HangupFreesPort`, `OutcomeDelivered`), `CompletedAccounts`
(`FailedOncePerContact` and the counters), `HistoryIsWhatWasHeard` (with
`CutRecordsHeard`), `ReplyEnds` (with `PausedIsChecked`), `CallersNotLeft`
(`NoChannelLeftUp`, `RefusedIsHungUp`), `ShutdownIsFinal` (`DrainIsFinal` and
Run's return), `EventsArrive` (with `EventsInOrder`), `LossIsNoticed`
(`EventsClose`, `SendReturns`), `NobodyLeftAlone` (`DestinationReleased`,
`HandoverSurvives`, `CallerTakesDestinationAlong`, `LegHangupEndsCall`),
`PacketsInTurn` (`NothingStale`, `HeardInOrder`, `DiscardedForCause`),
`FramesInOrder` (`RecorderClosedLast`, `InboundInOrder`), `MediaEnds`
(`WriteErrorEndsReader`, `DeafCallIsDeclaredDead`, `MediaStops`), `StreamKept`
(`LiveStreamKept`, `NoStreamAfterClose`, `SttReconnects`) and those of
`SpeechGate`, `LlmStream`, `SentenceChunker` and `CallRecord`. Each module's type
invariant is part of one of them.

Bounds. Two contacts are enough for one to be dialed while another is given
back, recovered or completed; two campaigns for a race on the last slot; one
retry for both branches of `finished`; one fault and one crash for every place
where either can strike, and together for a crash after a fault. `MaxRunsPerRow`
is the number of runs one row can get under those faults. Three externalMedia
ids are enough for a leg to be mistaken for a caller and to get one of its own;
one port makes the next call take the port just freed. Slot ids are symmetric
in the safety runs of the dialer. For the agent, one utterance and one possible
interruption are two turns (the opening and its answer), which is what a signal
of one turn needs to act on another; two sentences give a reply a heard and an
unheard part; a second interruption can come before the answer's first sentence,
while the last sentence played is still that of the cut reply (the recogniser
finalizes early before it, not after, and the answer it cuts has one sentence, to
keep the run within minutes); two silences are the goodbye of handleIdle.
`MaxToolRounds` is 2 where the code has 5: one round with a call and one after it.
`AgentTurns` is checked without faults, stalls or held-up
goroutines: request numbers restart with a new connection, so that a lost one
makes recordReply compare numbers of two connections, and the schedules below
show what the other two do.

In `Telephony`, two connections of one channel are a reconnection that meets the
call it replaces; one trouble of each kind lets the hangup event be lost and the
media end, the Event Socket fail as a call ends, or a silent WebSocket be left to
the watchdog. `SlowDrain` is FALSE: the drain of a shutdown is given the time the
calls need (with a call that takes longer than shutdownDrain, Run returns without
it, as the code says). Two commands are a late reply and the command it could be
mistaken for; two events, one that is queued while the pump goes to sleep.
In `Pipeline`, 2 troubles are a loss and a delay, a loss and a drift, or a restart
in the middle of either, anywhere in a stream that wraps again and again. Queues
of one frame are full at once. Two lost or failing connections are a redial that
fails and is taken up again. Eight frames let the gate open, close, send its
keepalive and open once more over a ring of 2. Ten runes are a chunk cut at the
hard limit of 8 and a remainder. Two nodes are one extraction in the background
and one at the end; two QA nodes, one that fails and one that does not.

`JitterSize` is 3, the default of JITTER_BUFFER_PACKETS, and `SeqModulus` leaves
the same remainder by it as 2^16 does (1), so that the run has the default's wrap
(see below). With 52 numbers the two troubles never take Asterisk further ahead of
what was heard than numbers can be compared (`WithinReach`, the hypothesis of
`EachInItsTurn`).

In `AgentFaults` two sentences are a reply that stalls with something played and
something owed: with one, the reply is either heard whole or has not begun, and the
drain timeout is never needed. With two it is: without the fairness of
`DrainTimeout`, and with the mutant of it, `ReplyEnds` fails.

### Where the code and its comments disagree

Two runs are expected to end in a violation. Each checks what a comment or a
document says and shows a behaviour of the code that contradicts it.

| Run | Property | What happens |
|---|---|---|
| `CallPorts` | `PortsExclusive` | externalMedia fails, the port is freed outside the once-guard, the duration timer stays armed and later frees it again under a new owner |
| `CampaignDialError` | `CompletedIsQuiet` | `Dial` fails in its answer only: the campaign is completed under the call |

What follows was found while the properties were being stated, and is the reason
why some are stated as they are. It can be reproduced by lifting the named
restriction.

Calls on Asterisk. `FaultsSettle` speaks of a manager that nothing has disturbed
(`Undisturbed`: no WebSocket drop, no shutdown, no call under a duration limit).
Without that hypothesis its parts fail. The
WebSocket drops and returns between two polls of the watcher, which then purges nothing: a staged
call whose end was lost keeps its port (`NothingLeaks`, `ari/handlers.go:208`).
A purge, or the duration timer, that
tears down a staged call (`ari/handlers.go:833` and 464) decrements `CallsActive`
without the increment of completeBridge it is said to be paired with
(`ari/handlers.go:471-473`), and the gauge is -1. And a
purge that takes a dialed call whose originate request is still on its way calls
`Done` before the phone rings (`ari/outbound.go:295`). In a transfer, a
destination that hangs up after AddChannel and before it is entered into `active`
(`ari/transfer.go:127`) is noticed by nobody, and the caller stays alone in the
bridge until the maximum duration; `LegHangupEndsCall` begins with the entry.
Two smaller disagreements: `SetState(StateMediaActive)` comes after the unlock
(`ari/handlers.go:643`) and can overwrite `StateTornDown`, which
`session/call.go:27` calls terminal, though nothing reads the state afterwards;
and the comment in slotScript says 30 minutes (`campaign/limiter.go:81`), the
constant is 20 (`limiter.go:26`).

Calls on FreeSWITCH. An `earshot::error` that arrives between a failed Upgrade
and the unregister of its connection is taken for one of a live call and dropped
(`freeswitch/manager.go:242`); `RefusedIsHungUp` asks for the unregister first.
hangup sends uuid_kill once and does not come back to it: when the Event Socket is
down just then, the channel stays up (436); `NoChannelLeftUp` excuses the ids in
`missed`, which are just those.

Media. Slots are addressed by sequence number modulo the size, and sizes from 1
to 10 are allowed (`config/config.go:316`). Where the size does not divide 2^16,
as the default of 3 does not, numbers 65535 and 0 may fall into the same slot of
one window: with 3, packet 0 is discarded as a duplicate at every wrap of an
undisturbed stream, about every 22 minutes (`media/jitterbuffer.go:156`), against
"late, duplicate, or outside the reorder window" (104); and after a loss or two a
packet from behind the wrap can be played in the slot of a missing one from before
it, so that what follows it comes after it by number, against "in sequence order"
(49). `DiscardedForCause` and `HeardInOrder` say how far this goes, for every size:
a packet is refused the slot only within the remainder (`Unaligned`, 1 for the
default) of the wrap and only if another packet of the window has it (`NearWrap`),
and is played at most that much too early (`Early`). Where the size divides 2^16
the remainder is 0 and both say what the comments do. Without the two exceptions
both fail with the run's own constants, `DiscardedForCause` without any trouble.

Text. nextCut cuts at the hard limit whether or not the buffer holds a letter
(`ai/agent/chunker.go:121`), so that 160 runes of spaces and punctuation go out
as a request of their own, which the TTS rejects, as the comment at 71-80 says of
the cut at a delimiter. `EveryChunkSpeaks` therefore excepts a chunk of the hard
limit's length. And a chunk of digits alone, which the same comment (80-85) and
`chunker_test.go:192` say the TTS rejects too, is withheld only before its own dot:
"5!" and "5।" go out alone, and so do a "5." that Flush finds at the end of the
reply, a number followed by a comma or a space and then the dot, and one at whose
space the cut falls for want of a later one. `NumberGoesAlone` lists these;
`EveryChunkSpeaks` asks for a letter in every other chunk, so that neither a list's
marker nor the first half of a decimal goes out alone because of its dot. Without
the exception for the hard limit it fails with `RuneThreshold = 2` and
`MaxOdd = 6`; the run's two odd runes do not reach it. Without the one for numbers
it fails in the run itself.

Speech to text. A Feed that saw no connection while a redial was under way may
win the compare-and-swap (`ai/stt/sarvam.go:192`) after that redial has ended,
dial once more and overwrite the first connection. Nothing closes that one, not
even the end of the call, against the comment at 62-65. `NoStreamAfterClose`
speaks of the current connection.

Call record. recordRun returns at the first error of FinishRun
(`callagent/callagent.go:465`), so that a failed upload or disposition code also
costs the QA pass and the cost, where `dograh/run.go:93` says that it costs only
the files. QA's overall timeout expires together with the context on which its
results are saved (`dograh/qa.go:400`): the reviews already made are lost, against
333-336. And the extractions of two earlier nodes merge in the order of their
answers (`ai/agent/extract.go:343`), so that an older one may win over a newer;
`LastWordIsFinal` is about the last node.

In the agent (`ai/agent/handler.go`):

* The caller interrupts as the agent ends the call. handleFinalTranscript has
  read `closing` as false (1227) when end_call, or the edge to the end node, sets
  it; cutReply then moves the generation on and the `llmDone` that would have
  set `hangupAfterTurn` is dropped. The caller can no longer interrupt and the
  call is not ended, against the comments at 1551-1553 and 2414-2415.
  `EndingHangsUp` therefore starts from what `run()` has decided (`ending`,
  `hangupAfterTurn`) and not from `closing`.
* ProcessFrame raises playbackDone and, in the next tick, pauses the reply that
  has just ended. `run()` finishes the turn; the resume check then sets
  `replayPending` while listening, and the next turn begins with a sentence of
  the previous reply, which the comment on `replayGen` excludes for a reply that
  was cut. `CutStaysCut` speaks of cut replies; for those it holds with
  `MinSpeech`, and fails without it once there are two interruptions
  (`MaxDetects = 2`).
* The drain timeout (968) hangs up when `ending` is set but not when
  `hangupAfterTurn` is: with `Stalls`, a call that end_call ended goes on. The
  same path settles no held speech and starts no silence clock.
* A TTS that stops answering before the first audio of a reply leaves the turn in
  Thinking for good: receiveLoop reads without a deadline (`tts/sarvam.go:401`),
  the drain timeout counts in Speaking only (765-785), and Thinking has no timeout
  of its own, against the comment at 62-71, for which the timeout is what keeps a
  turn from never ending. In Thinking the caller cannot interrupt, the silence
  clock does not run, and the maximum duration sets `ending` and hangs up only in
  Listening and Transcribing (1095). `ReplyEnds` therefore excepts a turn that
  stays in Thinking while the provider owes audio (`OwesAudio`).
* A TTS connection that cannot be opened (1132) puts the state back to Listening
  and no more: the silence clock does not run, and a goodbye that was about to
  be spoken leaves `ending` set and the call up.
* The connection is lost after the last frame of a reply, when ProcessFrame has
  raised playbackDone and `run()` has not taken it: the state is still Speaking,
  so that ConnectionLost sets `ttsDeliveryDone` once more (2010). Nothing clears
  it when the turn is finished or the next begins (only 758 and 2430 do), and the
  next reply is ended at its first empty tick while its LLM turn still runs. So
  does a reply given up for want of audio (`Stalls`), or a tick of ProcessFrame
  that is held up between reading the queue and the state: an old LLM turn goes
  on beside the new one, which the comment at 449-450 excludes.
  `OneTurnAtATime` is checked and proved without the three (`Untroubled`).
* The goodbye after `MaxFailedTurns` failed turns does not set `closing`, so the
  caller can interrupt it and the call goes on.

### Fairness

`CampaignLiveness` assumes weak fairness of every goroutine's steps, which is
what the Go scheduler gives; strong fairness of `Scan` and of `SweepSnapshot`,
because Run comes back to both at every tick whatever else it does; strong
fairness of `GatesPass`: a campaign that keeps being asked about is let through
again and again (a window that never opens, or a wallet never filled, is a
campaign that rightly never ends). Calls end because ringing has a timeout and
a watchdog and people hang up; a paused campaign is resumed. `CallLiveness`
assumes weak fairness of the loop, the teardowns, the media goroutines, armed
timers, the watcher's polls and answers to ARI requests; a dialed call ends;
media whose caller is gone is declared dead after `MEDIA_DEAD_TIMEOUT_SECONDS`.
It runs without WebSocket drops: with them a staged call may never be found.
`ImplementsCallLife` is checked under the same fairness, which its last part needs.

`Telephony`: weak fairness of every goroutine (handlers, watchers, the event loop,
Run, the reader, the pump, the transfer's tool, the teardown) and of the watchdog
once the channel is gone, since nothing touches it any more; strong fairness of
taking the command mutex, as Go's mutex hands itself over to a waiter that starves.
FreeSWITCH need not answer or send anything, and no party need hang up.

`Pipeline`: weak fairness of the senders of a steady stream and of the tickers;
of the media goroutines except a write to a far end that does not read; of frames
coming in, the redial and its backoff; of the LLM client and its idle timer, never
of the provider; of recordRun, and of each extraction, whose request has a timeout.

`AgentFaults` assumes weak fairness of ProcessFrame (called every 20 ms), of
`run()` as a whole, of each LLM turn (which has time limits) and of the timers;
strong fairness of `FalseInterruption`, since falseInterruptionMaxPause ends a
pause however long the line is noisy; and of `DrainTimeout`, since ten seconds
without a frame do pass when none comes. It asks nothing of the TTS provider, which
may leave any request unanswered, nor of the caller, who need not speak or hang up.
`run()`'s select may take its three signals and its events in any order and need
not be fair among them.

## What is proved

Each theorem holds for every value of the constants its module's assumptions
admit: any number of campaigns, channels, ports, connections, frames, nodes,
failures and crashes. TLC checked each invariant on small instances before it was
proved. "Property" names what the runs check of the same.

| Theorem | Property | Hypothesis |
|---|---|---|
| `CampaignDialerProofs`: `TypeCorrect`, `NeverDialedTwice` | `TypeOK`, `AtMostOneDial` | |
| `CampaignCallsProofs`: `NoSlotLeftBehind` | `NoSlotLeak` | |
| `CompletedQuiet`, `LiveRunsKept`, `LimitsAreHeld`, `AccountsAgree` | `CompletedIsQuiet`, `LiveRunsSpared`, `LimitsHold`, `CompletedAccounts` | `~DoneAfterDialError` |
| `CallManagerProofs`: `TypeCorrect`, `AlwaysFindable` | `TypeOK`, `CallsFindable` | |
| `PortsNeverShared`, `PortsExclusiveWhenSafe` | `PortsExclusive` | `Safe` |
| `UndisturbedSettles` | `FaultsSettle` | (in the property) |
| `ImplementsLife` | steps of `ImplementsCallLife` | no drop, limit or shutdown |
| `FreeSwitchProofs`: `NoChannelStaysUp`, `DrainStaysFinal`, `ImplementsLife` | safety parts of `CallersNotLeft`, `ShutdownIsFinal`, `ImplementsCallLife` | |
| `EventSocketProofs`: `RepliesMatch`, `EventsOrdered` | `OwnReply`, safety part of `EventsArrive` | |
| `PipelineProofs`: `HandlerHearsInOrder`, `SpeechReachesStt`, `ToolCallsStaySeparate`, `RecordHoldsAll` | `FramesInOrder`, `GateFeeds`, `CallsKeepTheirArguments`, `RecordIsComplete` | |
| `StreamEndsWithCall`, `WorkingStreamStays` | safety part of `StreamKept` | |
| `OneReplyAtMost` | safety part of `ReplySettles` | |
| `WindowHoldsFuture` | `NothingStale` of `PacketsInTurn` | |
| `KeptUnlessDuplicate` | `DiscardedForCause` of `PacketsInTurn` | |
| `PlayedInOrder`, `EachInItsTurn` | `HeardInOrder`, `PacketsInTurn` | `DelaysShort`, `[]WithinReach` |
| `ChunksSayTheText` | `ChunksAreTheText` | |
| `TransferProofs`: `DestinationLetGo`, `HandoverIsKept` | safety part of `NobodyLeftAlone` | |
| `AgentTurnProofs`: `TypesKept`, `PauseIsLookedAfter` | safety part of `ReplyEnds` | |
| `CutIsFinal` | `CutStaysCut` | `MinSpeech` |
| `OneAtATime`, `EndedIsHungUp`, `ClockRuns` | `OneTurnAtATime`, `EndingHangsUp`, `SilenceClockRuns` | `Untroubled` |
| `HistoryIsHeard` | `HistoryIsWhatWasHeard` | `Undisturbed` |

The hypotheses are the code's own, or needed:

* `~DoneAfterDialError` is what `runner.go` says of `Placer.Dial`. The run
  `CampaignDialError` violates `CompletedIsQuiet` without it.
* `Safe` is: no drop and no call under a duration limit so far, or no failed
  request so far and RTP media. The run `CallPorts` has a failed request and a
  duration limit and violates the property.
* `MinSpeech` says that BARGE_IN_MIN_SPEECH_MS is longer than a frame, as its
  default is; without it TLC finds a cut sentence replayed (see above).
* `Untroubled` is: no connection or request fails, no reply is given up for want
  of audio, no tick of ProcessFrame is held up. Each of the three alone breaks
  `OneTurnAtATime` (see above). A reader held up in readTTS is allowed.
* `Undisturbed` (of `AgentTurnProofs`) is `Untroubled` and no reader held up in
  readTTS, which could put Done before the last audio of a reply, so that the
  reply is recorded before its last sentence is heard.
* `WithinReach`: Asterisk is at most half the sequence numbers, less the longest
  delay and 6, ahead of the last frame heard of its stream (before the first, of
  the one that is due). Numbers are compared as int16, so that one more than half
  a turn away is taken for an earlier one, whatever the buffer does. With 2^16
  numbers, a frame every 20 ms and packets delayed by less than 50 s, it says
  that no caller goes unheard for more than ten minutes; by default a call whose
  media stays away for 30 s is ended (MEDIA_DEAD_TIMEOUT_SECONDS).
* `DelaysShort` bounds the delay of a packet: with 2^16 numbers, to less than
  16 381 packets, or five minutes.

The arguments:

* Dialer, rows. `AtMostOneDial` is not inductive: whether a row can be dialed
  depends on which goroutine has it in hand. `DrainOK` says what a drain
  goroutine's locals are at each step; `DialInv` that a row held by a goroutine
  that may still give it back (`Holding`) is 'processing' and was never dialed,
  that a goroutine about to dial has created the run, that a dialed row has a run
  and is past the queue, and that nobody drains before recovery is over. Claiming
  takes a row from 'queued', so it is neither held by another goroutine nor
  dialed; recovery closes a row with a run and returns one without.
  `DoneAfterDialError` may be TRUE here.
* Dialer, calls. `SlotInv`: a drain goroutine's slot is its own alone and, before
  the organization has counted it, in no list but the capacity's. `CallInv`: a
  call is in `liveRuns` from dial to the end of `finished`, and `inflight` is the
  number of those; maybeComplete reads no call in flight, then no open rows, and
  the second reading holds for good, because a row is opened again only by the
  end of a call. `LimitInv`: every call that has not outlived its slot owns a
  slot of its own that the sets still hold, so that the calls are no more than
  the entries, which the script keeps within the limits.
* Dialer, accounts. A contact is the rows of its retries. `PlacedInv`: a row
  whose call was placed is not failed, nor in hand to be made so. `RetryChain`: a
  row is there only if every earlier one of its contact was dialed and not
  reached. `FailedCounted`: failed_rows counts rows that are failed or whose last
  retry is spent, at most all of them and, if nothing failed, all; by the two
  others that is at most one row a contact. Counting needs `Contacts` to be
  finite (`ContactsAssumption`).
* Call manager. `Inv` holds whatever happens: what the loop is doing to which
  call, how far each call has got, which entries and events there can be for it.
  From it `CallsFindable`. `PortsOK` follows a port from Alloc to Free: a call
  that freed its port outside the once-guard is one that nothing leads to any
  more. `SettleOK` adds that a channel somebody awaits has its end in the queue
  (`EndsKept`) and that a cleanup begun before the bridge does not wait, so that
  what a call has left behind is nothing and the gauge is the number of live
  calls. The refinement follows action by action, each being at most one call's
  beginning or end.
* FreeSWITCH. `RegistryOK`: `calls` and the handlers between register and
  unregister are the same set, one per channel. `TruthOK`: what tells the manager
  that a channel is gone is true.
* Event Socket. A reply carries no name. `OneOutstanding`: at most one command
  is at the switch, on the wire or in the reply channel, and none while an open
  connection has nobody waiting. `EventChain`: delivered, batch, queue and wire
  hold consecutive numbers.
* Media, gate, tool calls, record. `QueueInOrder` and `LoopsFirst`; `RingHoldsLast`
  (the ring holds the last frames in order, wherever its head is) with
  `PrerollFed`; `CallsInPlace` (where the fragments of call i are, for each
  style); `MergedReachSummary` and `FinalComesLast`.
* Connections and replies. `SttInv` is little more than
  `NoStreamAfterClose` with the types: the dial that Close overtakes reads
  `sttClosed` under the lock that makes its connection current. `ReplyInv`: an attempt is made again only if nothing of
  it was read, so what was spoken is the one attempt under way.
* Jitter buffer. `JitterInv`: a stored packet is of the current SSRC, lies in
  its own slot and less than a window ahead of the expected number; moving the
  window by one takes exactly the packet whose turn it is (`MovesOn`). Two
  packets of one window share a slot only across the wrap, and then they are
  `Unaligned` numbers apart and within as much of it (`OneSlotEach`), whatever
  the size; so a slot holds the packet whose turn it is or one that much ahead of
  it (`EarlyIs`). For the order of what is heard, `OrderInv` gives each stream the
  number it sends next and measures everything as a distance behind that
  (`SeenFrom`), where distances below half a turn compare like numbers: the
  expected number is ahead of the last frame heard, and before the stream's next
  one only by the buffer's misses; what is on its way of a stream that was
  replaced is no further behind than a packet may be delayed. One lemma for each
  of `PushInStep`, `ReleaseInStep` and `SendInStep`.
* Text. A cut lies inside what is cut, after a letter or digit or at the hard
  limit (`CutsAreGood`), and nextCut, once it has cut, cuts the same whatever is
  written behind (`CutsAreStable`), so that a chunk taken early is the one that
  all of the text would have given. `ChunkInv` says that the chunks and the
  buffer are the text, piece after piece, and of each piece how it was chosen.
* Transfer. `DestOwned`: a tool that has dialed nobody or has failed leaves no
  destination up; one that handed the call over has untracked the agent's leg,
  and a teardown that has swept took the destination with it. `RefusalTrue`: a
  leg given up as refused is destroyed, so nobody needs to hang it up.
* Agent. `CutFrames` follows the frames of a cut reply: none is in the queue and
  none will be replayed. `PausedIsChecked` is inductive by itself. `TurnInv` says
  where the current reply is (its LLM turn, its client, the event queue, the
  playback, or delivered), that only a turn that was cancelled is not the current
  one, and what each event in the queue still says when its turn comes
  (`QueueOK`, with the order of events that `PairOK` allows). For the history,
  the audio of a connection comes in the order of its requests and before its
  Done; what was heard of the reply under way is not yet written or is settled,
  and of every earlier one what was heard is what was written.

Only model-checked is what must eventually happen, and with it the fairness
conditions of the two refinements: temporal proofs under fairness, and ENABLED,
are beyond this prover. Of the runs' properties these are `CampaignCompletes`,
`RunsSettle`, `LossIsNoticed`, `CallerIsHeard`, `MediaEnds` and
`CallLeavesRunning`, and the eventual part of `CallsSettle`, `ImplementsCallLife`,
`CallersNotLeft`, `ShutdownIsFinal`, `EventsArrive`, `NobodyLeftAlone`,
`StreamKept`, `ReplySettles` and `ReplyEnds`. Every invariant and action property
of the passing runs is stated by a theorem, under the hypotheses above where
there are any.

## Not modelled, and the plan

Models left for later: the limiter's sliding windows and the breaker with a clock
(`campaign/limiter.go`; the dialer takes their answers as given), an abstract
dialer (contacts pending, dialed, settled) that `CampaignDialer` implements, the
transfer composed with lost events, recorded clips and the buffer limits of the
TTS client, the agent's hold music.

Left out for good: workflow parsing, HTTP tools, storage, prompts and prices,
sample arithmetic, resampling and WAV files (sequential computation and I/O on
one call), the barge-in detector's loudness estimate, configuration, logging and
metrics other than the gauge, the programs under `cmd/`, the test call (the same
agent and media over a WebSocket).
