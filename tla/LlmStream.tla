----------------------------- MODULE LlmStream -----------------------------
(***************************************************************************)
(* One streamed chat completion: Client.Stream of internal/ai/llm/client.go*)
(* with its retries, the idle timer and the caller's cancellation (a       *)
(* barge-in).  A line of the stream is what it carries; wording, headers   *)
(* and tracing are left out.  Retry-After only changes how long a wait is. *)
(***************************************************************************)
EXTENDS Integers, Sequences

CONSTANTS
    Retries,        \* extra attempts a retryable failure gets
    MaxLines        \* bound: lines of one response body

ASSUME LlmAssumption == Retries \in Nat /\ MaxLines \in Nat

VARIABLES
    llmCtx,         \* Stream's ctx: live, idle (cancelled by the timer), cut (by the caller)
    attempt,        \* attempts made, the current one included
    phase,          \* none, request, reading, failed, waiting, finished, returned
    err,            \* the error of the last attempt
    lines,          \* lines read of this body
    gotReply,       \* any content or tool call in this attempt
    usage,          \* this attempt's usage chunk has been seen
    tokens,         \* onToken calls: the attempt each came from
    usages,         \* OnUsage calls: the attempt each came from
    retried, onRetry,
    reply           \* what Stream returned

bodyVars == <<lines, gotReply, usage>>
reportVars == <<tokens, usages>>
llmVars == <<llmCtx, attempt, phase, err, bodyVars, reportVars, retried, onRetry, reply>>

-----------------------------------------------------------------------------
\* The idle timer, reset by every line, and the caller.
IdleFires ==
    /\ llmCtx = "live" /\ phase \notin {"none", "returned"}
    /\ llmCtx' = "idle"
    /\ UNCHANGED <<attempt, phase, err, bodyVars, reportVars, retried, onRetry, reply>>

CallerCuts ==
    /\ llmCtx = "live" /\ phase \notin {"none", "returned"}
    /\ llmCtx' = "cut"
    /\ UNCHANGED <<attempt, phase, err, bodyVars, reportVars, retried, onRetry, reply>>

-----------------------------------------------------------------------------
\* Stream: the first attempt.
StreamCalled ==
    /\ phase = "none" /\ phase' = "request"
    /\ UNCHANGED <<llmCtx, attempt, err, bodyVars, reportVars, retried, onRetry, reply>>

\* stream, one attempt.

AttemptFails(e) == phase' = "failed" /\ err' = e

\* No response at all, or a status other than 2xx.
RequestFails(e) ==
    /\ phase = "request"
    /\ llmCtx # "live" => e = "request"
    /\ AttemptFails(e)
    /\ UNCHANGED <<llmCtx, attempt, bodyVars, reportVars, retried, onRetry, reply>>

HeadersArrive ==
    /\ phase = "request" /\ llmCtx = "live"
    /\ phase' = "reading"
    /\ lines' = 0 /\ gotReply' = FALSE /\ usage' = FALSE
    /\ UNCHANGED <<llmCtx, attempt, err, reportVars, retried, onRetry, reply>>

Line == phase = "reading" /\ lines < MaxLines /\ lines' = lines + 1

TokenLine ==
    /\ Line
    /\ gotReply' = TRUE /\ tokens' = Append(tokens, attempt)
    /\ UNCHANGED <<llmCtx, attempt, phase, err, usage, usages, retried, onRetry, reply>>

ToolLine ==
    /\ Line
    /\ gotReply' = TRUE
    /\ UNCHANGED <<llmCtx, attempt, phase, err, usage, reportVars, retried, onRetry, reply>>

\* Some providers repeat it: the last one counts.
UsageLine ==
    /\ Line
    /\ usage' = TRUE
    /\ UNCHANGED <<llmCtx, attempt, phase, err, gotReply, reportVars, retried, onRetry, reply>>

\* An error object in the stream, a read that fails (a cancelled ctx too), or
\* an end without [DONE] and without anything received.
BodyFails(e) ==
    /\ phase = "reading"
    /\ e = "empty" => ~gotReply
    /\ AttemptFails(e)
    /\ UNCHANGED <<llmCtx, attempt, bodyVars, reportVars, retried, onRetry, reply>>

\* [DONE], or the end of a body that brought something: report.
BodyEnds(done) ==
    /\ phase = "reading" /\ (done \/ gotReply)
    /\ phase' = "finished" /\ err' = "none"
    /\ usages' = IF usage THEN Append(usages, attempt) ELSE usages
    /\ UNCHANGED <<llmCtx, attempt, bodyVars, tokens, retried, onRetry, reply>>

-----------------------------------------------------------------------------
\* Stream.

\* Mutant: a stream that broke off is tried again too.
RetryableStream(e) == llmCtx = "live" /\ e \in {"request", "overload", "stream"}
Retryable(e) == llmCtx = "live" /\ e \in {"request", "overload"}

MayRetry == attempt <= Retries

Waits ==
    /\ phase = "failed" /\ MayRetry /\ Retryable(err)
    /\ phase' = "waiting"
    /\ UNCHANGED <<llmCtx, attempt, err, bodyVars, reportVars, retried, onRetry, reply>>

RetryStarts ==
    /\ phase = "waiting"
    /\ phase' = "request"
    /\ attempt' = attempt + 1 /\ retried' = TRUE
    /\ UNCHANGED <<llmCtx, err, bodyVars, reportVars, onRetry, reply>>

\* What Stream returns once no further attempt is made.
Outcome == IF err = "none" THEN "ok" ELSE IF llmCtx = "idle" THEN "idle" ELSE "error"

GivesUp == \/ phase = "failed" /\ ~(MayRetry /\ Retryable(err))
           \/ phase = "waiting" /\ llmCtx # "live"

StreamReturns ==
    /\ phase = "finished" \/ GivesUp
    /\ phase' = "returned"
    /\ reply' = Outcome
    /\ onRetry' = IF retried /\ llmCtx = "live"
                  THEN IF err = "none" THEN "recovered" ELSE "exhausted" ELSE onRetry
    /\ UNCHANGED <<llmCtx, attempt, err, bodyVars, reportVars, retried>>

-----------------------------------------------------------------------------
LlmInit ==
    /\ llmCtx = "live" /\ attempt = 1 /\ phase = "none" /\ err = "none"
    /\ lines = 0 /\ gotReply = FALSE /\ usage = FALSE /\ tokens = <<>> /\ usages = <<>>
    /\ retried = FALSE /\ onRetry = "none" /\ reply = "none"

\* What a cancelled ctx brings about: the request or the read fails.
CtxFails == llmCtx # "live" /\ (RequestFails("request") \/ BodyFails("stream"))
ClientSteps == Waits \/ StreamReturns \/ CtxFails

LlmNext ==
    \/ StreamCalled \/ IdleFires \/ CallerCuts
    \/ \E e \in {"request", "overload", "refused"} : RequestFails(e)
    \/ HeadersArrive \/ TokenLine \/ ToolLine \/ UsageLine
    \/ \E e \in {"stream", "empty"} : BodyFails(e)
    \/ \E done \in BOOLEAN : BodyEnds(done)
    \/ Waits \/ RetryStarts \/ StreamReturns

LlmSpec == LlmInit /\ [][LlmNext]_llmVars

\* The client runs on, its timers fire; nothing is asked of the provider.
LlmFairness == WF_llmVars(IdleFires) /\ WF_llmVars(ClientSteps)
FairLlmSpec == LlmSpec /\ LlmFairness

-----------------------------------------------------------------------------
\* No more attempts than the retries allow.
LlmTypeOK ==
    /\ llmCtx \in {"live", "idle", "cut"} /\ attempt \in 1 .. Retries + 1
    /\ phase \in {"none", "request", "reading", "failed", "waiting", "finished", "returned"}
    /\ reply \in {"none", "ok", "idle", "error"}

\* The agent speaks the tokens as they come, so nothing may be said twice: all
\* of them are of one attempt, after which there is no other.
OneReplySpoken == \A i \in DOMAIN tokens : tokens[i] = attempt

\* "gets each completed request's token counts": once for a reply that
\* completed, never for one that failed or was cut.
UsageOfCompletedReply ==
    /\ Len(usages) <= 1
    /\ usages # <<>> => phase = "finished" \/ reply = "ok"

\* Stream returns whatever the provider does: the idle timer ends a wait for
\* headers, a stalled body and a retry that comes too late.
StreamAlwaysReturns == phase = "request" ~> phase = "returned"

\* Stream returns, and has spoken and counted one reply at most.
ReplySettles == [](LlmTypeOK /\ OneReplySpoken /\ UsageOfCompletedReply) /\ StreamAlwaysReturns
=============================================================================
