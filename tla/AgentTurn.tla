------------------------------ MODULE AgentTurn ------------------------------
(***************************************************************************)
(* One call's conversation: internal/ai/agent/handler.go with the held     *)
(* speech of backchannel.go and the request bookkeeping of the speech      *)
(* client, internal/ai/tts/sarvam.go.                                      *)
(*                                                                         *)
(* Processes: run(), which handles one event or signal at a time;          *)
(* ProcessFrame, called every 20ms with the caller's audio; one runLLMTurn *)
(* per turn; the speech provider with one reader per connection; the STT   *)
(* reader; the timers.  They share atomics, the event channel (FIFO) and   *)
(* three one-slot signals, which select takes in any order.                *)
(*                                                                         *)
(* A sentence is one TTS request, whose audio is one frame.  Text, timings *)
(* and metrics are left out; so are transfers and recorded clips.  A reply *)
(* is named by its generation.  A timer whose sequence number has moved on *)
(* is taken out of the event channel, where the code would ignore it.      *)
(***************************************************************************)
EXTENDS Integers, Sequences, FiniteSets, SequencesExt

CONSTANTS
    BargeIn,        \* ~BargeInObserveOnly
    AckFilter,      \* BARGE_IN_ACK_FILTER
    MinSpeech,      \* BARGE_IN_MIN_SPEECH_MS is longer than one frame
    STTFlush,       \* the STT may be asked to finalize early (STTFlushAfter > 0)
    Greeting,       \* the start node has a greeting, else the LLM opens the call
    Tools,          \* what the LLM may call: "run", "end_call", "edge"
    MaxFailedTurns, \* failed LLM turns in a row that end the call, 0 = never
    MaxToolRounds,  \* rounds of one turn
    IdleTimeout,    \* the caller-silence clock is on
    MaxDuration,    \* the call has a maximum duration
    Preempt,        \* where a goroutine may be held up between two instructions:
                    \* "tick" in ProcessFrame, "reader" in readTTS
    Stalls,         \* ten seconds may pass without a frame to play
    MaxSentences,   \* bound: sentences of one reply
    MaxAsks,        \* bound: utterances of the caller and firings of the clock
    MaxDetects,     \* bound: possible interruptions
    MaxFaults       \* bound: failures of the LLM and of TTS connections

Gens == 0 .. 2 * MaxAsks + 1
Conns == 1 .. MaxAsks + MaxFaults + 1
Reqs == 0 .. (MaxAsks + 1) * (MaxSentences + 1)

ASSUME AgentAssumption ==
    /\ {BargeIn, AckFilter, MinSpeech, STTFlush, Greeting, IdleTimeout, MaxDuration, Stalls} \subseteq BOOLEAN
    /\ Tools \subseteq {"run", "end_call", "edge"}
    /\ Preempt \subseteq {"tick", "reader"}
    /\ {MaxFailedTurns, MaxSentences, MaxAsks, MaxDetects, MaxFaults} \subseteq Nat
    /\ MaxToolRounds \in Nat \ {0}

VARIABLES
    \* atomics and channels
    state,          \* Listening, Transcribing, Thinking, Speaking
    paused,         \* the reply stands still on a possible interruption
    silence,        \* now < silenceUntil
    ttsDeliveryDone,
    closing,        \* the caller can no longer interrupt
    node,           \* the workflow node: start or end
    outbound,       \* frames waiting to be played
    playing,        \* playingReq
    replay,         \* replayGen while replayPending, else 0
    events, sigs,   \* the event channel and the raised signals
    \* ProcessFrame
    sent,           \* the sentence of the last frame played
    tick,           \* where a held-up ProcessFrame is
    \* run()
    run,            \* idle, or how far it is in cutting a reply
    curGen, turnChunks, voiced, \* voiced: ttfaLoggedGen
    hangupAfterTurn, ending, hungUp,
    tts, ttsConn,   \* the connection in use (0: none) and connections opened
    idleTimer, idleArmed, idleCount,
    resume,         \* the resume check: off, armed, posted
    callerSpeaking, held,
    \* the other goroutines
    turn,           \* runLLMTurn of each generation
    failures,       \* llmFailures
    conn,           \* the TTS client of each connection
    \* the caller, and what bounds the model
    stt, asked, detects, maxDur, faults,
    \* what happened: frames played [in turn, of generation, request],
    \* sentences written to history, replies cut
    heard, recorded, cut

pauseVars == <<paused, silence, resume, replay>>
frameVars == <<outbound, playing, sent, tick>>
endVars == <<closing, hangupAfterTurn, ending, hungUp>>
idleVars == <<idleTimer, idleArmed, idleCount>>
ttsVars == <<tts, ttsConn, conn>>
llmVars == <<turn, failures, node>>
envVars == <<stt, asked, detects, maxDur, faults>>
ghostVars == <<heard, recorded, cut>>
runVars == <<run, curGen, turnChunks, voiced, callerSpeaking, held>>
vars == <<state, ttsDeliveryDone, events, sigs, pauseVars, frameVars, endVars,
          idleVars, ttsVars, llmVars, envVars, ghostVars, runVars>>

-----------------------------------------------------------------------------
\* Events.

Plain(type) == [type |-> type]
Audio(g, r) == [type |-> "audio", gen |-> g, req |-> r]
Done(g) == [type |-> "done", gen |-> g]
Closed(c) == [type |-> "closed", conn |-> c]
LLMDone(g, e) == [type |-> "llmDone", gen |-> g, endCall |-> e]
Speech(on) == [type |-> "speech", started |-> on]
Transcript(k) == [type |-> "transcript", kind |-> k]

Kinds == {"words", "ack", "junk"}   \* junkTranscript, backchannel, or neither
PlainEvents == {"greeting", "opening", "idle", "resume", "maxDuration", "endCallTool"}

\* q without its event of a type, of which no queue ever has two.
Without(q, type) ==
    IF \E i \in 1 .. Len(q) : q[i].type = type
    THEN RemoveAt(q, CHOOSE i \in 1 .. Len(q) : q[i].type = type)
    ELSE q

Sentence(g, r) == [gen |-> g, req |-> r]
NoSentence == Sentence(0, 0)

-----------------------------------------------------------------------------
\* The TTS client: requests are answered in order, and Done follows the last
\* one of a generation that has been ended.

\* open: Cancel has not been called; up: receiveLoop runs.  What a client still
\* keeps once receiveLoop is gone no one reads: it is NoConn again.
NoConn == [open |-> FALSE, up |-> FALSE, next |-> 0, pending |-> <<>>, ended |-> {}]
NewClient == [NoConn EXCEPT !.open = TRUE, !.up = TRUE]

HasPending(c, g) == \E i \in 1 .. Len(c.pending) : c.pending[i].gen = g

Speak(c, g) ==
    IF c.open /\ c.up
    THEN [c EXCEPT !.next = @ + 1, !.pending = Append(@, Sentence(g, c.next + 1))]
    ELSE c

Ended(c, g) == IF c.up THEN [c EXCEPT !.ended = @ \cup {g}] ELSE c

\* Does EndGeneration, or the answer to the oldest request, complete g?
EmitsDone(c, g) == c.up /\ g \in c.ended /\ ~HasPending(c, g)

\* readTTS puts Done behind the audio that came before it.  Held up between its
\* look at the audio channel and its select, it may find both ready and take
\* Done first.
ForwardDone(q, g) ==
    {Append(q, Done(g))} \cup
    IF /\ "reader" \in Preempt /\ q # <<>>
       /\ q[Len(q)].type = "audio" /\ q[Len(q)].gen = g
    THEN {SubSeq(q, 1, Len(q) - 1) \o <<Done(g), q[Len(q)]>>}
    ELSE {}

Forward(q, c, g) == IF EmitsDone(c, g) THEN ForwardDone(q, g) ELSE {q}

\* cfg.TTS answers the oldest request of connection c: with its audio and the
\* final event, or with an error and no audio.
Synthesize(c, audio) ==
    /\ run # "over" /\ conn[c].up /\ conn[c].pending # <<>>
    /\ ~audio => faults < MaxFaults
    /\ LET p == Head(conn[c].pending)
           after == [conn[c] EXCEPT !.pending = Tail(@)]
           q == IF audio THEN Append(events, Audio(p.gen, p.req)) ELSE events
       IN /\ conn' = [conn EXCEPT ![c] = after]
          /\ events' \in Forward(q, after, p.gen)
    /\ faults' = IF audio THEN faults ELSE faults + 1
    /\ UNCHANGED <<state, ttsDeliveryDone, sigs, pauseVars, frameVars, endVars, idleVars,
                   tts, ttsConn, llmVars, stt, asked, detects, maxDur, ghostVars, runVars>>

\* receiveLoop ends and readTTS reports it: after Cancel, or because the
\* provider closed the connection.
ConnectionGone(c) ==
    /\ run # "over" /\ conn[c].up
    /\ conn[c].open => faults < MaxFaults
    /\ faults' = IF conn[c].open THEN faults + 1 ELSE faults
    /\ conn' = [conn EXCEPT ![c] = NoConn]
    /\ events' = Append(events, Closed(c))
    /\ UNCHANGED <<state, ttsDeliveryDone, sigs, pauseVars, frameVars, endVars, idleVars,
                   tts, ttsConn, llmVars, stt, asked, detects, maxDur, ghostVars, runVars>>

-----------------------------------------------------------------------------
\* runLLMTurn.

NoTurn == [pc |-> "none", cancelled |-> FALSE, said |-> 0, round |-> 0,
           endCall |-> FALSE, conn |-> 0, node |-> "start"]
OverTurn == [NoTurn EXCEPT !.pc = "over"]
TurnPcs == {"none", "stream", "run", "edge", "end_call", "called", "post", "end", "over"}
NewTurn(c) == [NoTurn EXCEPT !.pc = "stream", !.conn = c, !.node = node]

Running(g) == turn[g].pc \notin {"none", "over"}

\* A turn is inside runTool.
toolRunning == \E g \in Gens : turn[g].pc \in {"run", "end_call"}

\* sendToTTS for turn g: nothing once the turn is cancelled.
SendToTTS(g) ==
    conn' = IF turn[g].cancelled THEN conn ELSE [conn EXCEPT ![turn[g].conn] = Speak(@, g)]

LLMOnly == run # "over" /\ UNCHANGED <<state, ttsDeliveryDone, sigs, pauseVars, frameVars, hangupAfterTurn,
                            ending, hungUp, idleVars, tts, ttsConn, stt, asked, detects, maxDur,
                            ghostVars, runVars>>

\* The model's next sentence arrives and is sent to be spoken.
LLMSays(g) ==
    /\ turn[g].pc = "stream" /\ ~turn[g].cancelled /\ turn[g].said < MaxSentences
    /\ SendToTTS(g)
    /\ turn' = [turn EXCEPT ![g].said = @ + 1]
    /\ UNCHANGED <<events, closing, node, failures, faults>> /\ LLMOnly

\* The stream ends because the turn was cancelled: nothing more to do.
LLMCancelled(g) ==
    /\ turn[g].pc = "stream" /\ turn[g].cancelled
    /\ turn' = [turn EXCEPT ![g] = OverTurn]
    /\ UNCHANGED <<events, closing, node, failures, faults, conn>> /\ LLMOnly

\* The reply is complete, or the last round only asked for more tools.
LLMCompletes(g) ==
    /\ turn[g].pc = "stream" /\ ~turn[g].cancelled
    /\ failures' = 0
    /\ turn' = [turn EXCEPT ![g].pc = "post"]
    /\ UNCHANGED <<events, closing, node, faults, conn>> /\ LLMOnly

\* The request fails.  With nothing said a fixed line is spoken instead, and
\* after MaxFailedTurns such turns in a row the call ends with it.  Said counts
\* from the first token, which may be no sentence yet.
LLMFails(g) ==
    /\ turn[g].pc = "stream" /\ ~turn[g].cancelled /\ faults < MaxFaults
    /\ faults' = faults + 1
    /\ \/ /\ turn[g].said = 0
          /\ failures' = failures + 1
          /\ SendToTTS(g)
          /\ turn' = [turn EXCEPT ![g].pc = "post",
                                  ![g].endCall = @ \/ (MaxFailedTurns > 0 /\ failures' >= MaxFailedTurns)]
       \/ /\ turn' = [turn EXCEPT ![g].pc = "post"]
          /\ UNCHANGED <<failures, conn>>
    /\ UNCHANGED <<events, closing, node>> /\ LLMOnly

\* The model asks for a tool: an edge to the end node, end_call, or a tool that
\* takes time.
LLMCalls(g, tool) ==
    /\ turn[g].pc = "stream" /\ ~turn[g].cancelled
    /\ turn[g].round < MaxToolRounds - 1
    /\ tool = "edge" => turn[g].node = "start"
    /\ turn' = [turn EXCEPT ![g].round = @ + 1, ![g].pc = tool]
    /\ UNCHANGED <<events, closing, node, failures, faults, conn>> /\ LLMOnly

\* takeEdge or runTool, whether or not the turn has been cancelled by now.
CallReturns(g) ==
    /\ turn[g].pc \in {"run", "edge", "end_call"}
    /\ LET tool == turn[g].pc
       IN /\ turn' = [turn EXCEPT ![g].pc = "called",
                                  ![g].endCall = @ \/ tool = "end_call",
                                  ![g].node = IF tool = "edge" THEN "end" ELSE @]
          /\ node' = IF tool = "edge" THEN "end" ELSE node
          /\ closing' = (closing \/ tool # "run")
    /\ UNCHANGED <<events, failures, faults, conn>> /\ LLMOnly

\* After the calls of a round: a cancelled turn stops here, and says so if
\* end_call had run; end_call needs no further round.
AfterCalls(g) ==
    /\ turn[g].pc = "called"
    /\ IF turn[g].cancelled
       THEN /\ turn' = [turn EXCEPT ![g] = OverTurn]
            /\ events' = IF turn[g].endCall THEN Append(events, Plain("endCallTool")) ELSE events
            /\ UNCHANGED failures
       ELSE /\ turn' = [turn EXCEPT ![g].pc = IF turn[g].endCall THEN "post" ELSE "stream"]
            /\ failures' = IF turn[g].endCall THEN 0 ELSE failures
            /\ UNCHANGED events
    /\ UNCHANGED <<closing, node, faults, conn>> /\ LLMOnly

LLMPosts(g) ==
    /\ turn[g].pc = "post"
    /\ events' = Append(events, LLMDone(g, turn[g].endCall \/ turn[g].node = "end"))
    /\ turn' = [turn EXCEPT ![g].pc = "end"]
    /\ UNCHANGED <<closing, node, failures, faults, conn>> /\ LLMOnly

\* EndGeneration, after llmDone.
LLMEndsGeneration(g) ==
    /\ turn[g].pc = "end"
    /\ LET c == Ended(conn[turn[g].conn], g)
       IN /\ conn' = [conn EXCEPT ![turn[g].conn] = c]
          /\ events' \in Forward(events, c, g)
    /\ turn' = [turn EXCEPT ![g] = OverTurn]
    /\ UNCHANGED <<closing, node, failures, faults>> /\ LLMOnly

-----------------------------------------------------------------------------
\* ProcessFrame: one call per tick.  Held up, it acts on the state it read
\* before (tick = "speaking"), or on the empty queue it found (tick = "empty").

interruptible == BargeIn /\ ~closing /\ node = "start"

\* After a false interruption the sentence it stopped in is played again.
\* Mutant: whatever sentence was played last.
ReplaysLast == replay # 0 /\ sent # NoSentence
Replays == replay # 0 /\ sent # NoSentence /\ sent.gen = replay

Speaking ==
    IF "tick" \in Preempt THEN tick = "speaking" ELSE state = "Speaking"

FoundEmpty ==
    IF "tick" \in Preempt
    THEN tick = "empty"
    ELSE state = "Speaking" /\ ~paused /\ outbound = <<>> /\ ~Replays

TickOnly == run # "over" /\ UNCHANGED <<events, endVars, idleVars, ttsVars, llmVars, resume, stt, asked,
                             maxDur, faults, recorded, cut, runVars>>

ReadState ==
    /\ "tick" \in Preempt /\ tick = "idle" /\ state = "Speaking"
    /\ tick' = "speaking"
    /\ UNCHANGED <<state, ttsDeliveryDone, sigs, paused, silence, replay, outbound, playing, sent,
                   detects, heard>>
    /\ TickOnly

\* A held-up tick that has nothing to do after all.
TickEnds ==
    /\ \/ tick = "speaking" /\ paused
       \/ tick = "empty" /\ ~ttsDeliveryDone
    /\ tick' = "idle"
    /\ UNCHANGED <<state, ttsDeliveryDone, sigs, paused, silence, replay, outbound, playing, sent,
                   detects, heard>>
    /\ TickOnly

\* The caller seems to interrupt: pause the reply and tell run().  With a
\* minimum length of speech the first tick after a resumed reply cannot.
DetectBargeIn ==
    /\ Speaking /\ ~paused /\ interruptible
    /\ MinSpeech => replay = 0
    /\ detects < MaxDetects /\ detects' = detects + 1
    /\ paused' = TRUE /\ silence' = TRUE
    /\ sigs' = sigs \cup {"bargeIn"}
    /\ tick' = "idle"
    /\ UNCHANGED <<state, ttsDeliveryDone, replay, outbound, playing, sent, heard>> /\ TickOnly

ReplaySentence ==
    /\ Speaking /\ ~paused /\ Replays
    /\ heard' = heard \cup {[turn |-> curGen, gen |-> sent.gen, req |-> sent.req]}
    /\ replay' = 0 /\ tick' = "idle"
    /\ UNCHANGED <<state, ttsDeliveryDone, sigs, paused, silence, outbound, playing, sent, detects>>
    /\ TickOnly

PlayFrame ==
    /\ Speaking /\ ~paused /\ ~Replays /\ outbound # <<>>
    /\ LET f == Head(outbound)
       IN /\ sent' = f /\ playing' = f.req
          /\ heard' = heard \cup {[turn |-> curGen, gen |-> f.gen, req |-> f.req]}
    /\ outbound' = Tail(outbound)
    /\ replay' = 0 /\ tick' = "idle"
    /\ UNCHANGED <<state, ttsDeliveryDone, sigs, paused, silence, detects>> /\ TickOnly

FindEmpty ==
    /\ tick = "speaking" /\ ~paused /\ ~Replays /\ outbound = <<>>
    /\ replay' = 0 /\ tick' = "empty"
    /\ UNCHANGED <<state, ttsDeliveryDone, sigs, paused, silence, outbound, playing, sent, detects, heard>>
    /\ TickOnly

\* Nothing queued and nothing more to come: the reply has been played.
PlaybackDone ==
    /\ FoundEmpty /\ ttsDeliveryDone
    /\ ttsDeliveryDone' = FALSE
    /\ sigs' = sigs \cup {"playbackDone"}
    /\ replay' = 0 /\ tick' = "idle"
    /\ UNCHANGED <<state, paused, silence, outbound, playing, sent, detects, heard>> /\ TickOnly

\* Mutant: the state is left for run() to change, which takes it for changed.
DrainTimeoutTells ==
    /\ Stalls /\ FoundEmpty /\ ~ttsDeliveryDone /\ ~toolRunning
    /\ events = <<>> /\ sigs = {} /\ run = "idle"
    /\ sigs' = IF state = "Speaking" THEN sigs \cup {"drainTimeout"} ELSE sigs
    /\ replay' = 0 /\ tick' = "idle"
    /\ UNCHANGED <<state, ttsDeliveryDone, paused, silence, outbound, playing, sent, detects, heard>>
    /\ TickOnly

\* Ten seconds of that without the end of delivery: give the reply up.  In ten
\* seconds run() has handled whatever was waiting for it.
DrainTimeout ==
    /\ Stalls /\ FoundEmpty /\ ~ttsDeliveryDone /\ ~toolRunning
    /\ events = <<>> /\ sigs = {} /\ run = "idle"
    /\ state' = IF state = "Speaking" THEN "Listening" ELSE state
    /\ sigs' = IF state = "Speaking" THEN sigs \cup {"drainTimeout"} ELSE sigs
    /\ replay' = 0 /\ tick' = "idle"
    /\ UNCHANGED <<ttsDeliveryDone, paused, silence, outbound, playing, sent, detects, heard>>
    /\ TickOnly

-----------------------------------------------------------------------------
\* What run() does in several of its handlers.

\* cancelTurn: only the latest turn can still be cancelled.
CancelTurn(t) ==
    LET started == {g \in Gens : t[g].pc # "none"}
    IN IF started = {} \/ t[Max(started)].pc = "over" THEN t
       ELSE [t EXCEPT ![Max(started)].cancelled = TRUE]

\* recordReply of the current reply, whole or up to the sentence being played.
Recorded(whole) ==
    recorded \cup {Sentence(curGen, r) : r \in {q \in turnChunks : whole \/ (playing # 0 /\ q <= playing)}}

\* startIdleTimer and stopIdleTimer, with the events that are left as q.
StartIdleTimer(q) ==
    /\ idleTimer' = IF IdleTimeout /\ ~ending THEN "armed" ELSE "off"
    /\ events' = Without(q, "idle")

StopIdleTimer(q) ==
    /\ idleTimer' = "off"
    /\ events' = Without(q, "idle")

\* openTTS: c is the connection in use (0: none), cs the clients, and fresh a
\* new client as the caller of openTTS leaves it.  In OpenFails the state goes
\* back and "failed" is what is kept for the connection.
OpenFails(c, cs, failed) ==
    /\ c = 0 /\ faults < MaxFaults
    /\ state' = "Listening" /\ tts' = failed /\ conn' = cs
    /\ faults' = faults + 1
    /\ UNCHANGED ttsConn

OpenSucceeds(c, cs, fresh) ==
    /\ state' = "Thinking"
    /\ IF c = 0
       THEN /\ tts' = ttsConn + 1 /\ ttsConn' = ttsConn + 1
            /\ conn' = [cs EXCEPT ![ttsConn + 1] = fresh]
       ELSE tts' = c /\ conn' = cs /\ UNCHANGED ttsConn
    /\ UNCHANGED faults

OpenTTS(c, cs, fresh) == OpenSucceeds(c, cs, fresh) \/ OpenFails(c, cs, 0)

\* startTurn as generation g, with q left of the events and t the LLM turns.
StartTurn(g, q, c, cs, t) ==
    /\ StopIdleTimer(q)
    /\ curGen' = g /\ turnChunks' = {} /\ hangupAfterTurn' = FALSE /\ playing' = 0
    /\ OpenTTS(c, cs, NewClient)
    /\ turn' = IF state' = "Listening" THEN t ELSE [t EXCEPT ![g] = NewTurn(tts')]

\* resumeReply: the paused reply plays on.
ResumeReply(q) ==
    /\ resume' = "off" /\ events' = Without(q, "resume")
    /\ replay' = curGen /\ paused' = FALSE

\* settleHeld: speech held over this reply and begun during its last sentence
\* answers it; begun before that it may, within AckEndMargin of it.
MayAnswer == \E h \in held : h.gen = curGen
MustAnswer == \E h \in held : h.gen = curGen /\ h.during = sent

\* finishTurn, with q left of the events, c the connection and t the turns.
FinishTurn(q, c, t) ==
    /\ recorded' = Recorded(TRUE)
    /\ held' = {}
    /\ \/ /\ hangupAfterTurn \/ ending
          /\ hangupAfterTurn' = FALSE /\ hungUp' = TRUE
          /\ state' = IF state \in {"Speaking", "Thinking"} THEN "Listening" ELSE state
          /\ turnChunks' = {} /\ events' = q /\ tts' = c /\ turn' = t
          /\ UNCHANGED <<curGen, playing, idleVars, ttsConn, conn, faults>>
       \/ /\ ~hangupAfterTurn /\ ~ending /\ MayAnswer
          /\ StartTurn(curGen + 1, q, c, conn, t)
          /\ idleCount' = 0
          /\ UNCHANGED <<hungUp, idleArmed>>
       \/ /\ ~hangupAfterTurn /\ ~ending /\ ~MustAnswer
          /\ StartIdleTimer(q)
          /\ idleArmed' = TRUE
          /\ state' = IF state \in {"Speaking", "Thinking"} THEN "Listening" ELSE state
          /\ turnChunks' = {} /\ tts' = c /\ turn' = t
          /\ UNCHANGED <<curGen, playing, hangupAfterTurn, hungUp, idleCount, ttsConn, conn, faults>>

\* endCall: at once when no reply is in progress.  Mutant: always after one.
EndCallLater(q) ==
    /\ ending' = TRUE /\ closing' = TRUE
    /\ StopIdleTimer(q)
    /\ UNCHANGED hungUp

EndCall(q) ==
    /\ ending' = TRUE /\ closing' = TRUE
    /\ StopIdleTimer(q)
    /\ hungUp' = (hungUp \/ state \in {"Listening", "Transcribing"})

-----------------------------------------------------------------------------
\* run(): one event, or one signal, at a time.

Next1(type) == run = "idle" /\ events # <<>> /\ Head(events).type = type
q1 == Tail(events)

\* Everything a handler that starts or finishes a turn leaves alone.
HandlerUnchanged == UNCHANGED <<outbound, sent, tick, voiced, failures, node, stt, asked, detects,
                                maxDur, heard, callerSpeaking, silence>>

\* handleGreeting: one sentence, without the LLM.
HandleGreeting ==
    /\ Next1("greeting") /\ events' = q1
    /\ curGen' = curGen + 1 /\ turnChunks' = {} /\ hangupAfterTurn' = FALSE /\ playing' = 0
    /\ OpenTTS(tts, conn, Ended(Speak(NewClient, curGen + 1), curGen + 1))
    /\ UNCHANGED <<ttsDeliveryDone, sigs, paused, resume, replay, closing, ending, hungUp, idleVars,
                   turn, recorded, cut, run, held>>
    /\ HandlerUnchanged

HandleOpening ==
    /\ Next1("opening")
    /\ StartTurn(curGen + 1, q1, tts, conn, turn)
    /\ UNCHANGED <<ttsDeliveryDone, sigs, paused, resume, replay, closing, ending, hungUp, idleArmed,
                   idleCount, recorded, cut, run, held>>
    /\ HandlerUnchanged

\* handleCallerSpeech.  Mutant: the clock is not restarted.
SpeechStopsClock ==
    /\ Next1("speech")
    /\ callerSpeaking' = Head(events).started
    /\ StopIdleTimer(q1)
    /\ idleCount' = IF Head(events).started THEN 0 ELSE idleCount
    /\ UNCHANGED <<state, ttsDeliveryDone, sigs, pauseVars, frameVars, endVars, idleArmed, ttsVars,
                   llmVars, envVars, ghostVars, run, curGen, turnChunks, voiced, held>>

HandleCallerSpeech ==
    /\ Next1("speech")
    /\ callerSpeaking' = Head(events).started
    /\ \/ Head(events).started /\ StopIdleTimer(q1) /\ idleCount' = 0
       \/ /\ ~Head(events).started /\ UNCHANGED idleCount
          /\ IF idleArmed /\ state = "Listening" THEN StartIdleTimer(q1)
             ELSE events' = q1 /\ UNCHANGED idleTimer
    /\ UNCHANGED <<state, ttsDeliveryDone, sigs, pauseVars, frameVars, endVars, idleArmed, ttsVars,
                   llmVars, envVars, ghostVars, run, curGen, turnChunks, voiced, held>>

\* handleFinalTranscript, by what becomes of the transcript.
Transcribed(kinds) == Next1("transcript") /\ Head(events).kind \in kinds

TranscriptUnchanged == UNCHANGED <<state, ttsDeliveryDone, sigs, silence, frameVars, endVars, idleVars,
                                   ttsVars, llmVars, envVars, ghostVars, curGen, turnChunks, voiced,
                                   callerSpeaking>>

\* holdSpeech: said during the sentence now playing, or begun before it.
HoldSpeech == \E d \in {sent, NoSentence} : held' = held \cup {[gen |-> curGen, during |-> d]}

\* Over a reply that is not paused the caller is heard out if it might be an
\* answer, and ignored otherwise.
HeldOverReply ==
    state = "Speaking" /\ AckFilter /\ interruptible /\ Head(events).kind # "junk"

IgnoreTranscript ==
    /\ Transcribed(Kinds)
    /\ \/ silence
       \/ paused /\ Head(events).kind = "junk"
       \/ /\ ~paused /\ state \in {"Thinking", "Speaking"}
          /\ ~HeldOverReply
    /\ events' = q1
    /\ UNCHANGED <<paused, resume, replay, run, held>> /\ TranscriptUnchanged

HoldTranscript ==
    /\ Transcribed({"words", "ack"}) /\ ~silence /\ ~paused /\ HeldOverReply
    /\ HoldSpeech
    /\ events' = q1
    /\ UNCHANGED <<paused, resume, replay, run>> /\ TranscriptUnchanged

\* The call is ending: the paused goodbye plays on.
TranscriptWhileClosing ==
    /\ Transcribed({"words", "ack"}) /\ ~silence /\ paused /\ closing
    /\ ResumeReply(q1)
    /\ UNCHANGED <<run, held>> /\ TranscriptUnchanged

\* An acknowledgement is no interruption.
Acknowledged ==
    /\ Transcribed({"ack"}) /\ ~silence /\ paused /\ ~closing /\ AckFilter
    /\ HoldSpeech
    /\ ResumeReply(q1)
    /\ UNCHANGED run /\ TranscriptUnchanged

\* A real interruption.  The reply is cut in three steps that ProcessFrame and
\* the LLM's turn can come between: the state, the pause, and cutReply.
Interrupted ==
    /\ Transcribed({"words", "ack"}) /\ ~silence /\ paused /\ ~closing
    /\ Head(events).kind = "ack" => ~AckFilter
    /\ run' = "confirm" /\ events' = q1
    /\ UNCHANGED <<paused, resume, replay, held>> /\ TranscriptUnchanged

\* Said while the agent listens: the caller's turn.
AcceptTranscript ==
    /\ Transcribed(Kinds) /\ ~silence /\ ~paused /\ state \in {"Listening", "Transcribing"}
    /\ idleCount' = 0
    /\ StartTurn(curGen + 1, q1, tts, conn, turn)
    /\ UNCHANGED <<ttsDeliveryDone, sigs, paused, resume, replay, closing, ending, hungUp, idleArmed,
                   recorded, cut, run, held>>
    /\ HandlerUnchanged

ConfirmInterruption ==
    /\ run = "confirm" /\ run' = "unpause"
    /\ state' = "Transcribing"
    /\ resume' = "off" /\ events' = Without(events, "resume")
    /\ UNCHANGED <<ttsDeliveryDone, sigs, paused, silence, replay, frameVars, endVars, idleVars, ttsVars,
                   llmVars, envVars, ghostVars, curGen, turnChunks, voiced, callerSpeaking, held>>

Unpause ==
    /\ run = "unpause" /\ run' = "cut"
    /\ paused' = FALSE
    /\ held' = {}
    /\ UNCHANGED <<state, ttsDeliveryDone, events, sigs, silence, resume, replay, frameVars, endVars,
                   idleVars, ttsVars, llmVars, envVars, ghostVars, curGen, turnChunks, voiced,
                   callerSpeaking>>

\* cutReply, and the caller's words become the next turn.  Mutants: the LLM's
\* turn is not cancelled; the queue is kept.
CutWith(t, out) ==
    /\ run = "cut" /\ run' = "idle"
    /\ recorded' = Recorded(FALSE) /\ cut' = cut \cup {curGen}
    /\ ttsDeliveryDone' = FALSE /\ outbound' = out
    /\ idleCount' = 0
    /\ StartTurn(curGen + 2, events, 0,
                 [c \in Conns |-> IF c = tts THEN [conn[c] EXCEPT !.open = FALSE] ELSE conn[c]], t)
    /\ UNCHANGED <<sigs, paused, silence, resume, replay, sent, tick, closing, ending, hungUp,
                   idleArmed, failures, node, stt, asked, detects, maxDur, heard, voiced,
                   callerSpeaking, held>>

CutWithoutCancel == CutWith(turn, <<>>)
CutKeepsQueue == CutWith(CancelTurn(turn), outbound)

CutReply == CutWith(CancelTurn(turn), <<>>)

\* handleTTSAudio: the first audio of the current reply starts the playing.
AudioOf(gens) ==
    /\ Next1("audio") /\ events' = q1
    /\ LET e == Head(events) IN
       IF e.gen \notin gens
       THEN UNCHANGED <<state, turnChunks, voiced, outbound>>
       ELSE /\ turnChunks' = turnChunks \cup {e.req}
            /\ voiced' = e.gen
            /\ state' = IF voiced # e.gen /\ state = "Thinking" THEN "Speaking" ELSE state
            /\ outbound' = Append(outbound, Sentence(e.gen, e.req))
    /\ UNCHANGED <<ttsDeliveryDone, sigs, pauseVars, playing, sent, tick, endVars, idleVars, ttsVars,
                   llmVars, envVars, ghostVars, run, curGen, callerSpeaking, held>>

\* Mutant: audio of a cut reply is not dropped.
AudioOfAnyReply == AudioOf(Gens)
HandleTTSAudio == AudioOf({curGen})

\* handleTTSDone: with audio the reply ends when it has been played, without
\* any it ends now.
DeliveryDone ==
    /\ Next1("done")
    /\ events' = q1
    /\ ttsDeliveryDone' = (ttsDeliveryDone \/ (Head(events).gen = curGen /\ state = "Speaking"))
    /\ ~(Head(events).gen = curGen /\ state = "Thinking")
    /\ UNCHANGED <<state, sigs, pauseVars, frameVars, endVars, idleVars, ttsVars, llmVars, envVars,
                   ghostVars, runVars>>

NothingToPlay ==
    /\ Next1("done") /\ Head(events).gen = curGen /\ state = "Thinking"
    /\ FinishTurn(q1, tts, turn)
    /\ UNCHANGED <<ttsDeliveryDone, sigs, paused, resume, replay, closing, ending, cut, run>>
    /\ HandlerUnchanged

\* handleTTSClosed: the connection in use is gone.
ConnectionLostThinking ==
    /\ Next1("closed") /\ Head(events).conn = tts /\ state = "Thinking"
    /\ FinishTurn(q1, 0, CancelTurn(turn))
    /\ UNCHANGED <<ttsDeliveryDone, sigs, paused, resume, replay, closing, ending, cut, run>>
    /\ HandlerUnchanged

ConnectionLost ==
    /\ Next1("closed") /\ events' = q1
    /\ IF Head(events).conn = tts
       THEN /\ state # "Thinking"
            /\ tts' = 0
            /\ turn' = IF state = "Speaking" THEN CancelTurn(turn) ELSE turn
            /\ ttsDeliveryDone' = (ttsDeliveryDone \/ state = "Speaking")
       ELSE UNCHANGED <<tts, turn, ttsDeliveryDone>>
    /\ UNCHANGED <<state, sigs, pauseVars, frameVars, endVars, idleVars, ttsConn, conn, failures, node,
                   envVars, ghostVars, runVars>>

HandleLLMDone ==
    /\ Next1("llmDone") /\ events' = q1
    /\ hangupAfterTurn' = IF Head(events).gen = curGen THEN Head(events).endCall ELSE hangupAfterTurn
    /\ UNCHANGED <<state, ttsDeliveryDone, sigs, pauseVars, frameVars, closing, ending, hungUp, idleVars,
                   ttsVars, llmVars, envVars, ghostVars, runVars>>

\* maxDurationEvent and endCallToolEvent.
HandleEndCall ==
    /\ Next1("maxDuration") \/ Next1("endCallTool")
    /\ EndCall(q1)
    /\ UNCHANGED <<state, ttsDeliveryDone, sigs, pauseVars, frameVars, hangupAfterTurn, idleArmed,
                   idleCount, ttsVars, llmVars, envVars, ghostVars, runVars>>

\* handleIdle: ask whether the caller is there, the second time say goodbye.  An
\* event of an older timer is already gone (Without), and no other is ever
\* refused: that is the second half of SilenceClockRuns.
HandleIdle ==
    /\ Next1("idle") /\ ~ending /\ state = "Listening"
    /\ idleCount' = idleCount + 1
    /\ ending' = (idleCount' >= 2) /\ closing' = (closing \/ idleCount' >= 2)
    /\ StartTurn(curGen + 1, q1, tts, conn, turn)
    /\ UNCHANGED <<ttsDeliveryDone, sigs, paused, resume, replay, hungUp, idleArmed, recorded, cut,
                   run, held>>
    /\ HandlerUnchanged

ResumeUnchanged == UNCHANGED <<state, ttsDeliveryDone, silence, frameVars, endVars, idleVars, ttsVars,
                               llmVars, envVars, ghostVars, runVars>>

\* handleBargeIn: start checking whether the interruption was real.
HandleBargeIn ==
    /\ run = "idle" /\ "bargeIn" \in sigs /\ sigs' = sigs \ {"bargeIn"}
    /\ resume' = IF paused THEN "armed" ELSE resume
    /\ events' = IF paused THEN Without(events, "resume") ELSE events
    /\ UNCHANGED <<paused, replay>> /\ ResumeUnchanged

\* handleResumeCheck: the caller may not have been quiet for long enough yet.

KeepWaiting ==
    /\ Next1("resume") /\ events' = q1
    /\ resume' = IF paused THEN "armed" ELSE "off"
    /\ UNCHANGED <<sigs, paused, replay>> /\ ResumeUnchanged

FalseInterruption ==
    /\ Next1("resume") /\ paused
    /\ ResumeReply(q1)
    /\ UNCHANGED sigs /\ ResumeUnchanged

\* The reply has been played: finishTurn of whatever reply is current.
HandlePlaybackDone ==
    /\ run = "idle" /\ "playbackDone" \in sigs /\ sigs' = sigs \ {"playbackDone"}
    /\ FinishTurn(events, tts, turn)
    /\ UNCHANGED <<ttsDeliveryDone, paused, resume, replay, closing, ending, cut, run>>
    /\ HandlerUnchanged

HandleDrainTimeout ==
    /\ run = "idle" /\ "drainTimeout" \in sigs /\ sigs' = sigs \ {"drainTimeout"}
    /\ recorded' = Recorded(FALSE) /\ turnChunks' = {}
    /\ hungUp' = (hungUp \/ ending)
    /\ UNCHANGED <<state, ttsDeliveryDone, events, pauseVars, frameVars, closing, hangupAfterTurn,
                   ending, idleVars, ttsVars, llmVars, envVars, heard, cut, run, curGen, voiced,
                   callerSpeaking, held>>

-----------------------------------------------------------------------------
\* The caller and the timers.

CallerOnly == run # "over" /\ UNCHANGED <<state, ttsDeliveryDone, sigs, paused, replay, frameVars, endVars,
                            idleArmed, idleCount, ttsVars, llmVars, detects, faults, ghostVars,
                            runVars>>

\* readSTT: the STT reports speech, its end, and a transcript; or none if it
\* was noise; or the transcript first if it was asked to finalize early.
CallerStarts ==
    /\ stt = "quiet" /\ asked < MaxAsks
    /\ stt' = "talking" /\ asked' = asked + 1
    /\ events' = Append(events, Speech(TRUE))
    /\ UNCHANGED <<silence, resume, idleTimer, maxDur>> /\ CallerOnly

CallerStops ==
    /\ stt \in {"talking", "flushed"}
    /\ stt' = IF stt = "talking" THEN "stopped" ELSE "quiet"
    /\ events' = Append(events, Speech(FALSE))
    /\ UNCHANGED <<silence, resume, idleTimer, maxDur, asked>> /\ CallerOnly

CallerSaid(k) ==
    /\ stt = "stopped" \/ (STTFlush /\ stt = "talking")
    /\ stt' = IF stt = "talking" THEN "flushed" ELSE "quiet"
    /\ events' = Append(events, Transcript(k))
    /\ UNCHANGED <<silence, resume, idleTimer, maxDur, asked>> /\ CallerOnly

CallerMadeNoise ==
    /\ stt = "stopped" /\ stt' = "quiet"
    /\ UNCHANGED <<events, silence, resume, idleTimer, maxDur, asked>> /\ CallerOnly

\* silenceUntil passes: by then run() has handled the signals of the pause.
SilenceOver ==
    /\ silence /\ sigs = {} /\ silence' = FALSE
    /\ UNCHANGED <<events, stt, resume, idleTimer, maxDur, asked>> /\ CallerOnly

IdleFires ==
    /\ idleTimer = "armed" /\ asked < MaxAsks
    /\ idleTimer' = "fired" /\ asked' = asked + 1
    /\ events' = Append(events, Plain("idle"))
    /\ UNCHANGED <<silence, stt, resume, maxDur>> /\ CallerOnly

ResumeFires ==
    /\ resume = "armed" /\ resume' = "posted"
    /\ events' = Append(events, Plain("resume"))
    /\ UNCHANGED <<silence, stt, idleTimer, maxDur, asked>> /\ CallerOnly

MaxDurationFires ==
    /\ maxDur /\ maxDur' = FALSE
    /\ events' = Append(events, Plain("maxDuration"))
    /\ UNCHANGED <<silence, stt, resume, idleTimer, asked>> /\ CallerOnly

-----------------------------------------------------------------------------

\* NewHandler and Run: the call begins with its first event.
InitWith(first) ==
    /\ state = "Listening" /\ paused = FALSE /\ silence = FALSE /\ ttsDeliveryDone = FALSE
    /\ closing = FALSE /\ node = "start" /\ outbound = <<>> /\ playing = 0 /\ replay = 0
    /\ events = <<Plain(first)>> /\ sigs = {}
    /\ sent = NoSentence /\ tick = "idle"
    /\ run = "idle" /\ curGen = 0 /\ turnChunks = {} /\ voiced = 0
    /\ hangupAfterTurn = FALSE /\ ending = FALSE /\ hungUp = FALSE
    /\ tts = 0 /\ ttsConn = 0 /\ conn = [c \in Conns |-> NoConn]
    /\ idleTimer = "off" /\ idleArmed = FALSE /\ idleCount = 0 /\ resume = "off"
    /\ callerSpeaking = FALSE /\ held = {}
    /\ turn = [g \in Gens |-> NoTurn] /\ failures = 0
    /\ stt = "quiet" /\ asked = 0 /\ detects = 0 /\ maxDur = MaxDuration /\ faults = 0
    /\ heard = {} /\ recorded = {} /\ cut = {}

Init == InitWith(IF Greeting THEN "greeting" ELSE "opening")

\* The call is over, by Hangup or because the caller hung up: run() closes the
\* connection and records what was heard of the reply, and every goroutine
\* stops.  What the handler still holds no one reads: it is put to rest.
CallEnds ==
    /\ run = "idle" /\ run' = "over"
    /\ recorded' = Recorded(FALSE) /\ cut' = cut \cup {curGen}
    /\ state' = "Listening" /\ paused' = FALSE /\ silence' = FALSE /\ ttsDeliveryDone' = FALSE
    /\ outbound' = <<>> /\ playing' = 0 /\ replay' = 0 /\ events' = <<>> /\ sigs' = {}
    /\ sent' = NoSentence /\ tick' = "idle" /\ turnChunks' = {}
    /\ tts' = 0 /\ conn' = [c \in Conns |-> NoConn] /\ turn' = [g \in Gens |-> NoTurn]
    /\ idleTimer' = "off" /\ resume' = "off" /\ held' = {} /\ stt' = "quiet"
    /\ UNCHANGED <<endVars, idleArmed, idleCount, ttsConn, failures, node, asked, detects, maxDur,
                   faults, heard, curGen, voiced, callerSpeaking>>

Frame ==
    \/ ReadState \/ TickEnds \/ DetectBargeIn \/ ReplaySentence \/ PlayFrame
    \/ FindEmpty \/ PlaybackDone \/ DrainTimeout

Handler ==
    \/ HandleGreeting \/ HandleOpening \/ HandleCallerSpeech
    \/ IgnoreTranscript \/ HoldTranscript \/ TranscriptWhileClosing \/ Acknowledged
    \/ Interrupted \/ AcceptTranscript \/ ConfirmInterruption \/ Unpause \/ CutReply
    \/ HandleTTSAudio \/ DeliveryDone \/ NothingToPlay \/ ConnectionLostThinking \/ ConnectionLost
    \/ HandleLLMDone \/ HandleEndCall \/ HandleIdle
    \/ KeepWaiting \/ FalseInterruption
    \/ HandleBargeIn \/ HandlePlaybackDone \/ HandleDrainTimeout

LLM(g) ==
    \/ LLMSays(g) \/ LLMCancelled(g) \/ LLMCompletes(g) \/ LLMFails(g)
    \/ \E tool \in Tools : LLMCalls(g, tool)
    \/ CallReturns(g) \/ AfterCalls(g) \/ LLMPosts(g) \/ LLMEndsGeneration(g)

Provider(c) == (\E audio \in BOOLEAN : Synthesize(c, audio)) \/ ConnectionGone(c)

Caller ==
    \/ CallerStarts \/ CallerStops \/ (\E k \in Kinds : CallerSaid(k)) \/ CallerMadeNoise
    \/ SilenceOver \/ IdleFires \/ ResumeFires \/ MaxDurationFires

Next ==
    \/ Frame \/ Handler \/ Caller \/ CallEnds
    \/ \E g \in Gens : LLM(g)
    \/ \E c \in Conns : Provider(c)

Spec == Init /\ [][Next]_vars

\* Every goroutine that can go on does; the LLM's turn ends, by its time limits if
\* not by itself; timers fire; and ten seconds with nothing to play pass however
\* often a tick looked in vain.  The resume check cannot keep waiting:
\* falseInterruptionMaxPause ends it.  Nothing is asked of the TTS provider or of the
\* caller: the provider's connection is read without a deadline, and a request may
\* never be answered.
Fairness ==
    /\ WF_vars(ReadState \/ TickEnds \/ ReplaySentence \/ PlayFrame \/ FindEmpty \/ PlaybackDone)
    /\ SF_vars(DrainTimeout)
    /\ WF_vars(Handler)
    /\ SF_vars(FalseInterruption)
    /\ WF_vars(SilenceOver) /\ WF_vars(ResumeFires)
    /\ \A g \in Gens : WF_vars(LLM(g))

FairSpec == Spec /\ Fairness

-----------------------------------------------------------------------------

\* Types and ranges; the connection in use is always the one opened last.
TypeOK ==
    /\ state \in {"Listening", "Transcribing", "Thinking", "Speaking"}
    /\ {paused, silence, ttsDeliveryDone, closing, hangupAfterTurn, ending, hungUp, idleArmed,
        callerSpeaking, maxDur} \subseteq BOOLEAN
    /\ node \in {"start", "end"} /\ replay \in Gens
    /\ \A i \in 1 .. Len(outbound) : outbound[i] \in [gen : Gens, req : Reqs]
    /\ playing \in Reqs /\ sent \in [gen : Gens, req : Reqs] /\ tick \in {"idle", "speaking", "empty"}
    /\ \A i \in 1 .. Len(events) :
         events[i] \in [type : {"audio"}, gen : Gens, req : Reqs] \cup [type : {"done"}, gen : Gens]
                       \cup [type : {"closed"}, conn : Conns] \cup [type : PlainEvents]
                       \cup [type : {"llmDone"}, gen : Gens, endCall : BOOLEAN]
                       \cup [type : {"speech"}, started : BOOLEAN]
                       \cup [type : {"transcript"}, kind : Kinds]
    /\ sigs \subseteq {"bargeIn", "playbackDone", "drainTimeout"}
    /\ run \in {"idle", "confirm", "unpause", "cut", "over"}
    /\ curGen \in Gens /\ turnChunks \subseteq Reqs /\ voiced \in Gens
    /\ ttsConn \in {0} \cup Conns /\ tts \in {0, ttsConn}
    /\ idleTimer \in {"off", "armed", "fired"} /\ idleCount \in 0 .. MaxAsks
    /\ resume \in {"off", "armed", "posted"}
    /\ held \subseteq [gen : Gens, during : [gen : Gens, req : Reqs]]
    /\ \A g \in Gens : /\ turn[g].pc \in TurnPcs /\ turn[g].said \in 0 .. MaxSentences
                       /\ turn[g].round \in 0 .. MaxToolRounds /\ turn[g].conn \in {0} \cup Conns
    /\ \A c \in Conns : conn[c].next \in Reqs /\ conn[c].ended \subseteq Gens
    /\ stt \in {"quiet", "talking", "stopped", "flushed"}
    /\ asked \in 0 .. MaxAsks /\ detects \in 0 .. MaxDetects /\ faults \in 0 .. MaxFaults
    /\ failures \in 0 .. MaxFaults

\* Once an interruption has cut a reply, the caller never hears another frame of
\* it in a later turn: not from outbound, not by the replay of a sentence, not
\* from audio that arrives late (the cuts of cutReply, and replayGen).
CutStaysCut == \A h \in heard : h.gen \in cut => h.turn = h.gen

\* A reply never stands still with no one to start it again: while it is paused
\* the signal to run() is raised, or a resume check is pending, or run() is
\* already cutting it.
PausedIsChecked ==
    paused => "bargeIn" \in sigs \/ resume # "off" \/ run \in {"confirm", "unpause"}

HeardOf(g) == {h.req : h \in {x \in heard : x.gen = g}}
RecordedOf(g) == {s.req : s \in {x \in recorded : x.gen = g}}

\* Of a reply that was cut, history holds the sentences the caller began to hear
\* and no others (recordReply(true), read from playingReq while ProcessFrame is
\* paused).
CutRecordsHeard == \A g \in cut : HeardOf(g) = RecordedOf(g)

\* At most one LLM turn is at work that has not been cancelled: every way to a
\* new turn has cancelled the one before it or waited for its end ("one at a time:
\* a new turn starts only after the old one is cancelled", at llmFailures).
OneTurnAtATime == Cardinality({g \in Gens : Running(g) /\ ~turn[g].cancelled}) <= 1

\* Nothing is left to do but wait for the caller or for a timer.
Quiet ==
    /\ run = "idle" /\ events = <<>> /\ sigs = {} /\ state = "Listening" /\ tick = "idle"
    /\ \A g \in Gens : ~Running(g)
    /\ \A c \in Conns : conn[c].up => conn[c].pending = <<>>

\* Whenever nothing else can happen and the caller is silent, the silence clock
\* runs, whatever speech, noise, interruption and timer events came before and
\* in whatever order (startIdleTimer, stopIdleTimer and idleSeq).  And once it has
\* run out, run() finds the agent listening and the call not ending.
SilenceClockRuns ==
    /\ Quiet /\ IdleTimeout /\ idleArmed /\ ~ending /\ ~hungUp /\ ~callerSpeaking => idleTimer = "armed"
    /\ idleTimer = "fired" /\ run = "idle" => state = "Listening" /\ ~ending

\* A call that run() has decided to end (silent caller, maximum duration, end_call)
\* is hung up before the agent goes back to listening (endCall, finishTurn).
EndingHangsUp == Quiet /\ (ending \/ hangupAfterTurn) => hungUp

\* Between turns history holds exactly the sentences the caller heard of every
\* reply, whether it was played to its end or cut; of a cut one at every moment.
HistoryIsWhatWasHeard ==
    /\ CutRecordsHeard
    /\ Quiet => \A g \in Gens : HeardOf(g) = RecordedOf(g)

\* The TTS provider has yet to answer a request on the connection in use.
OwesAudio == tts # 0 /\ conn[tts].up /\ conn[tts].pending # <<>>

\* Every turn comes to an end: though a connection is lost or cannot be opened,
\* the LLM fails, a sentence is rejected or audio stops coming, the caller gets
\* the floor back or the call is hung up; and a paused one is always looked after.
\* Once a reply has begun to play that takes nothing of the provider (DrainTimeout);
\* before, nothing but its answer or its hanging up ends the wait for it.
ReplyEnds ==
    /\ [](TypeOK /\ PausedIsChecked)
    /\ \/ []<>(state = "Listening" \/ hungUp \/ run = "over")
       \/ <>[](state = "Thinking" /\ OwesAudio)
=============================================================================
