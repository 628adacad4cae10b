----------------------------- MODULE MCPipeline -----------------------------
(***************************************************************************)
(* What carries a call's sound and words, for TLC in one run: the jitter   *)
(* buffer, the media plane, the speech-to-text stream and its gate, the    *)
(* LLM's stream, its tool calls and its text, and the call's record.  They *)
(* share no state here, so a behaviour is about one of them: "part" names  *)
(* it, and the others stay as they began.                                  *)
(***************************************************************************)
EXTENDS JitterBuffer, MediaPipeline, SttStream, SpeechGate, LlmStream, ToolCalls, SentenceChunker,
        CallRecord, TLC

VARIABLE part

soundVars == <<jitterVars, mediaVars>>
speechVars == <<sttVars, gateVars>>
textVars == <<llmVars, toolVars, chunkVars>>
allVars == <<part, soundVars, speechVars, textVars, recordVars>>

\* What a component may start with is chosen only for the one in question.
MCInit ==
    /\ part \in {"jitter", "media", "stt", "gate", "llm", "tools", "text", "record"}
    /\ JitterInit /\ MediaInit /\ SttInit /\ GateInit
    /\ LlmInit /\ ToolInit /\ ChunkerInit /\ RecordInit
    /\ part # "media" => transport = "rtp"
    /\ part # "tools" => style = "indexed"

Jitter(A) == part = "jitter" /\ A /\ UNCHANGED <<part, mediaVars, speechVars, textVars, recordVars>>
Media(A) == part = "media" /\ A /\ UNCHANGED <<part, jitterVars, speechVars, textVars, recordVars>>
Stt(A) == part = "stt" /\ A /\ UNCHANGED <<part, soundVars, gateVars, textVars, recordVars>>
Gate(A) == part = "gate" /\ A /\ UNCHANGED <<part, soundVars, sttVars, textVars, recordVars>>
Llm(A) == part = "llm" /\ A /\ UNCHANGED <<part, soundVars, speechVars, toolVars, chunkVars, recordVars>>
ToolUse(A) == part = "tools" /\ A /\ UNCHANGED <<part, soundVars, speechVars, llmVars, chunkVars, recordVars>>
Text(A) == part = "text" /\ A /\ UNCHANGED <<part, soundVars, speechVars, llmVars, toolVars, recordVars>>
Record(A) == part = "record" /\ A /\ UNCHANGED <<part, soundVars, speechVars, textVars>>

MCNext ==
    \/ Jitter(JitterNext) \/ Media(MediaNext) \/ Stt(SttNext) \/ Gate(GateNext)
    \/ Llm(LlmNext) \/ ToolUse(ToolNext) \/ Text(ChunkerNext) \/ Record(RecordNext)

\* Each component's own fairness, of its steps in the behaviours about it.
MCFairness ==
    /\ WF_allVars(Jitter(Arrives)) /\ WF_allVars(Jitter(ReleaseTick)) /\ WF_allVars(Jitter(LateSteps))
    /\ WF_allVars(Media(ReaderMustEnd)) /\ WF_allVars(Media(ReleaseSteps)) /\ WF_allVars(Media(WriteSteps))
    /\ WF_allVars(Media(RunStepsMedia)) /\ WF_allVars(Media(WatchSteps))
    /\ \A u \in SttUsers : WF_allVars(Stt(UserSteps(u)))
    /\ WF_allVars(Stt(DialerSteps)) /\ WF_allVars(Stt(BackoffPasses))
    /\ \A c \in SttConns : WF_allVars(Stt(ReceiverEnds(c)))
    /\ WF_allVars(Llm(IdleFires)) /\ WF_allVars(Llm(ClientSteps))
    /\ WF_allVars(Record(RecorderSteps))
    /\ \A n \in WorkflowNodes : WF_allVars(Record(ExtractionReplies(n) \/ ExtractionMerges(n)))

MCSpec == MCInit /\ [][MCNext]_allVars /\ MCFairness
=============================================================================
