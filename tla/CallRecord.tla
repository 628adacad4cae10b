----------------------------- MODULE CallRecord -----------------------------
(***************************************************************************)
(* What is left of a call in Dograh once it is over: variable extraction   *)
(* (internal/ai/agent/extract.go, the merge in calllog.go), recordRun      *)
(* (internal/callagent), FinishRun (internal/dograh/run.go), the QA pass   *)
(* (qa.go) and the cost (cost.go).                                         *)
(*                                                                         *)
(* Processes: the goroutine of the LLM's turn, which leaves workflow nodes *)
(* and may outlive the agent's loop; one goroutine per extraction; the     *)
(* recordRun goroutine, which starts its end once the loop has returned;   *)
(* the process being stopped.                                              *)
(*                                                                         *)
(* Abstracted: every node extracts; a variable's value is the extraction   *)
(* that wrote it, so the merged variables are the list of the extractions  *)
(* in merge order; prompts, parsing, prices and the recording's bytes.     *)
(***************************************************************************)
EXTENDS Naturals, Sequences, FiniteSets, SequencesExt

CONSTANTS
    LastNode,       \* nodes 1..LastNode, entered in this order
    QaNodes,        \* how many QA nodes are enabled; reviewed in order
    MaxRecordFaults \* bound: failing database commands and uploads

ASSUME CallRecordAssumption == LastNode \in Nat \ {0} /\ QaNodes \in Nat /\ MaxRecordFaults \in Nat

WorkflowNodes == 1..LastNode

VARIABLES
    turnAt,     \* the LLM turn: between, leaving (the edge is being taken), over
    atNode,     \* Handler.node
    loopOver,   \* Handler.done is closed
    jobs,       \* background extractions: none, asking, answered, merged, failed, refused
    expired,    \* extractions whose 30 s have passed
    extractDone,\* Handler.extractDone
    waitsFor,   \* FinishExtraction's copy of Handler.extracting
    cutShort,   \* FinishExtraction gave up waiting
    mergedVars, \* CallLog.extracted: the extractions merged, in order
    recorder,   \* recordRun: how far it is
    saved,      \* the variables in the run's gathered_context
    runRow,     \* workflow_runs.state: running, completed
    files,      \* the recording and transcript: none, attached, lost
    reviews,    \* RunQA's results, one per QA node reviewed
    qaTime,     \* qaOverallTimeout has not passed
    annotated,  \* the QA results in the run's annotations
    priced,     \* the cost is recorded
    stopping,   \* the process's context is done
    recordFaults

recordVars == <<turnAt, atNode, loopOver, jobs, expired, extractDone, waitsFor, cutShort, mergedVars,
                recorder, saved, runRow, files, reviews, qaTime, annotated, priced, stopping, recordFaults>>
conversationVars == <<turnAt, atNode, loopOver>>
extractionVars == <<jobs, expired, extractDone, waitsFor, cutShort, mergedVars>>
databaseVars == <<saved, runRow, files, reviews, qaTime, annotated, priced, recordFaults>>

\* The end-of-call extraction, told apart from the background one of its node.
Final == LastNode + 1

RecordInit ==
    /\ turnAt = "between" /\ atNode = 1 /\ loopOver = FALSE
    /\ jobs = [n \in WorkflowNodes |-> "none"] /\ expired = {}
    /\ extractDone = FALSE /\ waitsFor = {} /\ cutShort = FALSE
    /\ mergedVars = <<>>
    /\ recorder = "waiting"
    /\ saved = <<>> /\ runRow = "running" /\ files = "none"
    /\ reviews = <<>> /\ qaTime = TRUE /\ annotated = <<>> /\ priced = FALSE
    /\ stopping = FALSE /\ recordFaults = 0

RecordFails == recordFaults < MaxRecordFaults /\ recordFaults' = recordFaults + 1
Working == {n \in WorkflowNodes : jobs[n] \in {"asking", "answered"}}
-----------------------------------------------------------------------------
(* The conversation. *)

\* startExtraction as the turn takes an edge; refused once extractDone.
StartExtraction ==
    /\ turnAt = "between" /\ atNode < LastNode
    /\ turnAt' = "leaving"
    /\ jobs' = [jobs EXCEPT ![atNode] = IF extractDone THEN "refused" ELSE "asking"]
    /\ UNCHANGED <<atNode, loopOver, expired, extractDone, waitsFor, cutShort, mergedVars,
                   recorder, databaseVars, stopping>>

\* takeEdge
TakeEdge ==
    /\ turnAt = "leaving"
    /\ turnAt' = "between" /\ atNode' = atNode + 1
    /\ UNCHANGED <<loopOver, extractionVars, recorder, databaseVars, stopping>>

\* The turn's goroutine sees its context done; it is not waited for.
TurnReturns ==
    /\ turnAt = "between" /\ loopOver
    /\ turnAt' = "over"
    /\ UNCHANGED <<atNode, loopOver, extractionVars, recorder, databaseVars, stopping>>

\* The call ends, run returns and closes done.
LoopReturns ==
    /\ ~loopOver /\ loopOver' = TRUE
    /\ UNCHANGED <<turnAt, atNode, extractionVars, recorder, databaseVars, stopping>>

ProcessStops ==
    /\ ~stopping /\ stopping' = TRUE
    /\ UNCHANGED <<conversationVars, extractionVars, recorder, databaseVars>>
-----------------------------------------------------------------------------
(* The goroutine of a background extraction. *)

\* Its 30 s pass: those of an earlier extraction do so first.
ExtractionExpires(n) ==
    /\ jobs[n] = "asking" /\ n \notin expired
    /\ \A k \in Working : k < n => k \in expired \/ jobs[k] = "answered"
    /\ expired' = expired \cup {n}
    /\ UNCHANGED <<conversationVars, jobs, extractDone, waitsFor, cutShort, mergedVars,
                   recorder, databaseVars, stopping>>

\* The LLM's reply: an object, or an error, a timeout or no object.
ExtractionReplies(n) ==
    /\ jobs[n] = "asking"
    /\ \/ n \notin expired /\ jobs' = [jobs EXCEPT ![n] = "answered"]
       \/ jobs' = [jobs EXCEPT ![n] = "failed"]
    /\ UNCHANGED <<conversationVars, expired, extractDone, waitsFor, cutShort, mergedVars,
                   recorder, databaseVars, stopping>>

\* CallLog.Extracted, then the job's done channel is closed.
ExtractionMerges(n) ==
    /\ jobs[n] = "answered"
    /\ jobs' = [jobs EXCEPT ![n] = "merged"]
    /\ mergedVars' = Append(mergedVars, n)
    /\ UNCHANGED <<conversationVars, expired, extractDone, waitsFor, cutShort,
                   recorder, databaseVars, stopping>>
-----------------------------------------------------------------------------
(* recordRun: FinishExtraction. *)

FinishExtraction ==
    /\ recorder = "waiting" /\ loopOver
    /\ recorder' = "draining"
    /\ extractDone' = TRUE /\ waitsFor' = Working
    /\ UNCHANGED <<conversationVars, jobs, expired, cutShort, mergedVars, databaseVars, stopping>>

\* Mutant: an extraction still without its reply is not waited for.
AllInEarly == \A n \in waitsFor : jobs[n] # "answered"

\* Every extraction it waits for has closed its channel.
AllIn == waitsFor \cap Working = {}

\* All are in: the node the call ended at comes next, unless Vaani is stopping.
ExtractionsIn ==
    /\ recorder = "draining" /\ AllIn
    /\ recorder' = IF stopping THEN "summary" ELSE "asking"
    /\ UNCHANGED <<conversationVars, extractionVars, databaseVars, stopping>>

\* The wait's own 30 s, begun after the extractions', or the process stopping.
StopsWaiting ==
    /\ recorder = "draining" /\ ~AllIn
    /\ stopping \/ \A n \in waitsFor \cap Working : n \in expired \/ jobs[n] = "answered"
    /\ recorder' = "summary" /\ cutShort' = TRUE
    /\ UNCHANGED <<conversationVars, jobs, expired, extractDone, waitsFor, mergedVars, databaseVars, stopping>>

\* extract of the last node, over the whole conversation.
FinalExtraction ==
    /\ recorder = "asking" /\ recorder' = "summary"
    /\ mergedVars' = Append(mergedVars, Final) \/ UNCHANGED mergedVars
    /\ UNCHANGED <<conversationVars, jobs, expired, extractDone, waitsFor, cutShort, databaseVars, stopping>>
-----------------------------------------------------------------------------
(* recordRun: FinishRun, RunQA, RecordCost. *)

TakeSummary ==
    /\ recorder = "summary" /\ recorder' = "completing"
    /\ saved' = mergedVars
    /\ UNCHANGED <<conversationVars, extractionVars, runRow, files, reviews, qaTime, annotated, priced,
                   stopping, recordFaults>>

\* Mutant: the run is completed on the process's context.
CompleteRunWhileServing ==
    /\ recorder = "completing" /\ recorder' = "uploading"
    /\ \/ ~stopping /\ runRow' = "completed" /\ UNCHANGED recordFaults
       \/ stopping /\ UNCHANGED <<runRow, recordFaults>>
    /\ UNCHANGED <<conversationVars, extractionVars, saved, files, reviews, qaTime, annotated, priced, stopping>>

\* The run is completed first, on a context of its own, then its disposition
\* code is added; either may fail, and a failure is kept for the end.
CompleteRun ==
    /\ recorder = "completing" /\ recorder' = "uploading"
    /\ \/ runRow' = "completed" /\ UNCHANGED recordFaults
       \/ RecordFails /\ runRow' \in {"running", "completed"}
    /\ UNCHANGED <<conversationVars, extractionVars, saved, files, reviews, qaTime, annotated, priced, stopping>>

\* The files, then recordRun's look at the joined error: any failure of any
\* step ends it here, without review and without cost.
AttachFiles ==
    /\ recorder = "uploading"
    /\ \/ files' = "attached" /\ UNCHANGED recordFaults
       \/ RecordFails /\ files' = "lost"
    /\ recorder' = IF recordFaults' > 0 THEN "done"
                   ELSE IF stopping THEN "pricing" ELSE "reviewing"
    /\ UNCHANGED <<conversationVars, extractionVars, saved, runRow, reviews, qaTime, annotated, priced, stopping>>

\* qaOverallTimeout passes while the pass runs.
QaTimesOut ==
    /\ recorder = "reviewing" /\ qaTime /\ qaTime' = FALSE
    /\ UNCHANGED <<conversationVars, extractionVars, recorder, saved, runRow, files, reviews, annotated, priced,
                   stopping, recordFaults>>

\* One QA node: reviewed, skipped by its rules, or failed (its LLM, no time left).
ReviewNode ==
    /\ recorder = "reviewing" /\ Len(reviews) < QaNodes
    /\ \/ qaTime /\ reviews' = Append(reviews, "reviewed")
       \/ reviews' = Append(reviews, "skipped")
       \/ reviews' = Append(reviews, "failed")
    /\ UNCHANGED <<conversationVars, extractionVars, recorder, saved, runRow, files, qaTime, annotated, priced,
                   stopping, recordFaults>>

ReviewsDone ==
    /\ recorder = "reviewing" /\ Len(reviews) = QaNodes /\ recorder' = "annotating"
    /\ UNCHANGED <<conversationVars, extractionVars, databaseVars, stopping>>

\* updateAnnotations, on what is left of the pass's time.
Annotate ==
    /\ recorder = "annotating" /\ recorder' = "pricing"
    /\ \/ qaTime /\ annotated' = reviews /\ UNCHANGED recordFaults
       \/ ~qaTime /\ UNCHANGED <<annotated, recordFaults>>
       \/ RecordFails /\ UNCHANGED annotated
    /\ UNCHANGED <<conversationVars, extractionVars, saved, runRow, files, reviews, qaTime, priced, stopping>>

RecordCost ==
    /\ recorder = "pricing" /\ recorder' = "done"
    /\ \/ priced' = TRUE /\ UNCHANGED recordFaults
       \/ RecordFails /\ UNCHANGED priced
    /\ UNCHANGED <<conversationVars, extractionVars, saved, runRow, files, reviews, qaTime, annotated, stopping>>
-----------------------------------------------------------------------------
ExtractionSteps(n) == ExtractionExpires(n) \/ ExtractionReplies(n) \/ ExtractionMerges(n)

RecorderSteps ==
    \/ FinishExtraction \/ ExtractionsIn \/ StopsWaiting \/ FinalExtraction \/ TakeSummary
    \/ CompleteRun \/ AttachFiles \/ ReviewNode \/ ReviewsDone \/ Annotate \/ RecordCost

RecordNext ==
    \/ StartExtraction \/ TakeEdge \/ TurnReturns \/ LoopReturns \/ ProcessStops \/ QaTimesOut
    \/ RecorderSteps \/ \E n \in WorkflowNodes : ExtractionSteps(n)

\* recordRun runs, and every extraction ends: at the latest when its time is over.
RecordFairness ==
    /\ WF_recordVars(RecorderSteps)
    /\ \A n \in WorkflowNodes : WF_recordVars(ExtractionReplies(n) \/ ExtractionMerges(n))

RecordSpec == RecordInit /\ [][RecordNext]_recordVars /\ RecordFairness
-----------------------------------------------------------------------------
\* Unless the wait for them was cut short (Vaani stopping, 30 s over), the
\* record holds every answer the LLM gave: no extraction merges after
\* the summary was taken.
AnswersReachTheRecord ==
    recorder \notin {"waiting", "draining", "asking", "summary"} /\ ~cutShort
      => \A n \in WorkflowNodes : jobs[n] \in {"answered", "merged"} => n \in ToSet(saved)

\* The end-of-call extraction, over the whole conversation, has the last word
\* on a variable: "later ones winning" (calllog.go).
LastWordIsFinal ==
    \A i \in DOMAIN saved : saved[i] = Final => i = Len(saved)

\* One QA node's failure leaves the others' results: what is annotated has one
\* entry per enabled node (RunQA's loop).
EveryNodeAnnotated == annotated # <<>> => Len(annotated) = QaNodes

\* A call that is over does not stay at "running" in Dograh while its database
\* works, whatever becomes of extraction, upload and review.
CallLeavesRunning == loopOver ~> (runRow = "completed" \/ recordFaults > 0)

\* The record of a call holds what was found out about it, the last word on each.
RecordIsComplete == AnswersReachTheRecord /\ LastWordIsFinal /\ EveryNodeAnnotated
=============================================================================
