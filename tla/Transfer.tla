------------------------------ MODULE Transfer ------------------------------
(***************************************************************************)
(* Handing a caller over to a person: internal/ari/transfer.go with the    *)
(* parts of handlers.go it races (onStasisStart, onStasisEnd, teardown)    *)
(* and the agent's transfer tool (internal/ai/agent/handler.go).           *)
(*                                                                         *)
(* Processes: the tool's goroutine (dial, wait, beep, connect), the ARI    *)
(* event loop, the call's teardown, and Asterisk with the three channels.  *)
(* The call is bridged when the model starts.  Every ARI request and every *)
(* section under Manager.mu is one step.                                   *)
(*                                                                         *)
(* Abstracted: hold music and the beep (audio only); hangup causes; a      *)
(* hangup request always reaches Asterisk and no event is lost (lost       *)
(* events: CallManager); Originate fails only by creating no channel.      *)
(***************************************************************************)
EXTENDS Naturals, Sequences

Legs == {"caller", "agent", "dest"}

VARIABLES
    tool,       \* transfer and connectTransfer: how far they are
    legs,       \* Asterisk's channels: none, ringing, up, gone
    legEvents,  \* each channel's events on their way to the loop, in order
    tracked,    \* the keys of Manager.active that lead to this call
    handedOver, \* call.transferChannel is set
    awaited,    \* Manager.transfers holds the pendingTransfer
    answered,   \* pendingTransfer.answered holds a signal
    refused,    \* pendingTransfer.failed holds a cause
    turnOver,   \* the context of the turn that runs the tool is done
    ending,     \* session.Teardown: no, marked, swept, over
    sweepsDest, \* transferChannel as teardown read it
    loopAt      \* the event loop: idle, answering, refusing, teardown

transferVars == <<tool, legs, legEvents, tracked, handedOver, awaited, answered,
                  refused, turnOver, ending, sweepsDest, loopAt>>
asteriskVars == <<legs, legEvents>>
ariVars == <<tracked, handedOver, ending, sweepsDest>>

LegUp(l) == legs[l] \in {"ringing", "up"}

TransferInit ==
    /\ tool = "idle"
    /\ legs = [l \in Legs |-> IF l = "dest" THEN "none" ELSE "up"]
    /\ legEvents = [l \in Legs |-> <<>>]
    /\ tracked = {"caller", "agent"} /\ handedOver = FALSE
    /\ awaited = FALSE /\ answered = FALSE /\ refused = FALSE
    /\ turnOver = FALSE
    /\ ending = "no" /\ sweepsDest = FALSE
    /\ loopAt = "idle"

\* What Asterisk reports of a channel that is gone: StasisEnd once it had
\* entered the application, then ChannelDestroyed.
Parting(l) == IF legs[l] = "up" THEN <<"end", "destroyed">> ELSE <<"destroyed">>

\* hangupChannel on each of the channels in S; one that is not up is left as it is.
HangUpLegs(S) ==
    LET hung == {l \in S : LegUp(l)} IN
    /\ legs' = [l \in Legs |-> IF l \in hung THEN "gone" ELSE legs[l]]
    /\ legEvents' = [l \in Legs |-> IF l \in hung THEN legEvents[l] \o Parting(l) ELSE legEvents[l]]
-----------------------------------------------------------------------------
(* Asterisk: the destination answers; any party leaves. *)

DestAnswers ==
    /\ legs["dest"] = "ringing"
    /\ legs' = [legs EXCEPT !["dest"] = "up"]
    /\ legEvents' = [legEvents EXCEPT !["dest"] = Append(@, "start")]
    /\ UNCHANGED <<tool, ariVars, awaited, answered, refused, turnOver, loopAt>>

\* The caller hangs up, the destination refuses, stops ringing or hangs up,
\* the media leg breaks.
LegLeaves(l) ==
    /\ LegUp(l)
    /\ HangUpLegs({l})
    /\ UNCHANGED <<tool, ariVars, awaited, answered, refused, turnOver, loopAt>>
-----------------------------------------------------------------------------
(* The tool's goroutine: transfer. *)

\* The pendingTransfer is registered before Originate, whose channel may
\* answer before the request returns.
StartTransfer ==
    /\ tool = "idle" /\ ~turnOver
    /\ tool' = "dialing" /\ awaited' = TRUE
    /\ UNCHANGED <<asteriskVars, ariVars, answered, refused, turnOver, loopAt>>

OriginateRings ==
    /\ tool = "dialing" /\ legs["dest"] = "none"
    /\ legs' = [legs EXCEPT !["dest"] = "ringing"]
    /\ UNCHANGED <<tool, legEvents, ariVars, awaited, answered, refused, turnOver, loopAt>>

OriginateReturns ==
    /\ tool = "dialing"
    /\ IF legs["dest"] = "none" THEN tool' = "failed" /\ awaited' = FALSE
                                ELSE tool' = "ringing" /\ UNCHANGED awaited
    /\ UNCHANGED <<asteriskVars, ariVars, answered, refused, turnOver, loopAt>>

\* One branch of the select; when several are ready any may be taken.
WaitEnds(ready, next) ==
    /\ tool = "ringing" /\ ready
    /\ tool' = next /\ awaited' = FALSE
    /\ UNCHANGED <<asteriskVars, ariVars, answered, refused, turnOver, loopAt>>

AnswerSeen == WaitEnds(answered, "beep")
RefusalSeen == WaitEnds(refused, "failed")

\* The timer, or the turn's context: the caller left or the turn was cut.
GivesUpWaiting == WaitEnds(TRUE, "dropping")

\* hangupChannel of the destination on every path that does not connect it.
DropDest ==
    /\ tool = "dropping"
    /\ tool' = "failed" /\ HangUpLegs({"dest"})
    /\ UNCHANGED <<ariVars, awaited, answered, refused, turnOver, loopAt>>

(* connectTransfer, once the beep has played. *)

ChecksCall ==
    /\ tool = "beep"
    /\ tool' = IF ending # "no" THEN "dropping" ELSE "checked"
    /\ UNCHANGED <<asteriskVars, ariVars, awaited, answered, refused, turnOver, loopAt>>

\* bridge.AddChannel: refused by Asterisk when the channel or the bridge is
\* gone, and it may fail anyway.
AddsDest ==
    /\ tool = "checked"
    /\ \/ legs["dest"] = "up" /\ ending # "over" /\ tool' = "added"
       \/ tool' = "dropping"
    /\ UNCHANGED <<asteriskVars, ariVars, awaited, answered, refused, turnOver, loopAt>>

\* Under Manager.mu: the call is checked again, the destination tracked and
\* the agent's leg forgotten.
TakesOver ==
    /\ tool = "added"
    /\ IF ending # "no"
         THEN tool' = "dropping" /\ UNCHANGED <<tracked, handedOver>>
         ELSE /\ tool' = "connected" /\ handedOver' = TRUE
              /\ tracked' = (tracked \cup {"dest"}) \ {"agent"}
    /\ UNCHANGED <<asteriskVars, ending, sweepsDest, awaited, answered, refused, turnOver, loopAt>>

\* The media plane and the agent stop, the agent's leg is hung up.
AgentSteppedOut ==
    /\ tool = "connected"
    /\ tool' = "done" /\ turnOver' = TRUE /\ HangUpLegs({"agent"})
    /\ UNCHANGED <<ariVars, awaited, answered, refused, loopAt>>

\* An interruption cuts the turn that runs the tool.
TurnIsCut ==
    /\ tool = "ringing" /\ ~turnOver
    /\ turnOver' = TRUE
    /\ UNCHANGED <<tool, asteriskVars, ariVars, awaited, answered, refused, loopAt>>
-----------------------------------------------------------------------------
(* The event loop. *)

\* onTransferLegAnswered: nobody waits any more, so the leg is hung up.
OnAnswered(rest) ==
    IF awaited
      THEN loopAt' = "answering" /\ legEvents' = rest /\ UNCHANGED legs
      ELSE /\ UNCHANGED loopAt
           /\ legs' = [legs EXCEPT !["dest"] = "gone"]
           /\ legEvents' = IF LegUp("dest") THEN [rest EXCEPT !["dest"] = @ \o Parting("dest")] ELSE rest

\* Mutant: only the first two legs end the call.
OnLegEndOfCaller(l) ==
    IF l \in tracked /\ l # "dest"
      THEN tracked' = tracked \ {"caller", "agent"} /\ loopAt' = "teardown"
      ELSE UNCHANGED <<tracked, loopAt>>

\* onStasisEnd: the first event of a tracked channel ends the call.
OnLegEnd(l) ==
    IF l \in tracked
      THEN tracked' = tracked \ {"caller", "agent"} /\ loopAt' = "teardown"
      ELSE UNCHANGED <<tracked, loopAt>>

LoopTakes(l) ==
    /\ loopAt = "idle" /\ legEvents[l] # <<>>
    /\ LET rest == [legEvents EXCEPT ![l] = Tail(@)]
           event == Head(legEvents[l])
       IN \/ event = "start" /\ OnAnswered(rest) /\ UNCHANGED tracked
          \/ event = "end" /\ OnLegEnd(l) /\ legEvents' = rest /\ UNCHANGED legs
          \/ /\ event = "destroyed" /\ legEvents' = rest /\ UNCHANGED <<legs, tracked>>
             /\ loopAt' = IF l = "dest" /\ awaited THEN "refusing" ELSE "idle"
    /\ UNCHANGED <<tool, handedOver, ending, sweepsDest, awaited, answered, refused, turnOver>>

\* The signal goes to the pendingTransfer read under the lock, awaited or not.
LoopSignals ==
    /\ loopAt \in {"answering", "refusing"} /\ loopAt' = "idle"
    /\ answered' = (answered \/ loopAt = "answering")
    /\ refused' = (refused \/ loopAt = "refusing")
    /\ UNCHANGED <<tool, asteriskVars, ariVars, awaited, turnOver>>

LoopDone ==
    /\ loopAt = "teardown" /\ ending = "over" /\ loopAt' = "idle"
    /\ UNCHANGED <<tool, asteriskVars, ariVars, awaited, answered, refused, turnOver>>
-----------------------------------------------------------------------------
(* teardown, run by the loop, the duration cap, a watcher or a purge. *)

\* session.Teardown: state and context first.
CallIsEnded ==
    /\ ending = "no"
    /\ ending' = "marked" /\ turnOver' = TRUE
    /\ UNCHANGED <<tool, asteriskVars, tracked, handedOver, sweepsDest, awaited, answered, refused, loopAt>>

LoopEndsCall == loopAt = "teardown" /\ CallIsEnded

TeardownSweeps ==
    /\ ending = "marked"
    /\ ending' = "swept" /\ sweepsDest' = handedOver
    /\ tracked' = tracked \ (IF handedOver THEN Legs ELSE {"caller", "agent"})
    /\ UNCHANGED <<tool, asteriskVars, handedOver, awaited, answered, refused, turnOver, loopAt>>

TeardownHangsUp ==
    /\ ending = "swept"
    /\ ending' = "over"
    /\ HangUpLegs({"caller", "agent"} \cup (IF sweepsDest THEN {"dest"} ELSE {}))
    /\ UNCHANGED <<tool, tracked, handedOver, sweepsDest, awaited, answered, refused, turnOver, loopAt>>
-----------------------------------------------------------------------------
ToolSteps ==
    \/ OriginateReturns \/ AnswerSeen \/ RefusalSeen \/ GivesUpWaiting \/ DropDest
    \/ ChecksCall \/ AddsDest \/ TakesOver \/ AgentSteppedOut

LoopStepsOfTransfer == LoopSignals \/ LoopDone \/ LoopEndsCall \/ \E l \in Legs : LoopTakes(l)

TeardownSteps == TeardownSweeps \/ TeardownHangsUp

TransferNext ==
    \/ StartTransfer \/ OriginateRings \/ ToolSteps \/ TurnIsCut
    \/ LoopStepsOfTransfer \/ CallIsEnded \/ TeardownSteps
    \/ DestAnswers \/ \E l \in Legs : LegLeaves(l)

\* Goroutines run; Asterisk's parties owe nothing.
TransferFairness ==
    WF_transferVars(ToolSteps) /\ WF_transferVars(LoopStepsOfTransfer) /\ WF_transferVars(TeardownSteps)

TransferSpec == TransferInit /\ [][TransferNext]_transferVars /\ TransferFairness
-----------------------------------------------------------------------------
\* Once the call is over and the tool has returned, the destination is not left
\* up and billable: connectTransfer's second check against teardown, and the
\* hangup of every failed transfer.
DestinationReleased == ending = "over" /\ tool \in {"failed", "done"} => ~LegUp("dest")

\* The agent's leg leaving on purpose does not end the call it handed over
\* (connectTransfer's delete of the ExternalID before it hangs the leg up).
HandoverSurvives ==
    [][handedOver /\ legEvents["agent"] # legEvents'["agent"] /\ loopAt = "idle"
         => loopAt' # "teardown"]_transferVars

\* A caller who leaves takes the destination along, whatever the transfer was
\* doing: ringing, beeping, connecting or connected.
CallerTakesDestinationAlong == legs["caller"] = "gone" ~> ~LegUp("dest")

\* A destination that hangs up after the handover ends the call for the caller.
LegHangupEndsCall ==
    ("dest" \in tracked /\ \E i \in DOMAIN legEvents["dest"] : legEvents["dest"][i] = "end") ~> (ending = "over")

\* A transfer leaves nobody alone on the line: neither the destination when the
\* call is over or the caller gone, nor the caller when the destination leaves,
\* and the agent's departure does not part the two.
NobodyLeftAlone ==
    []DestinationReleased /\ HandoverSurvives /\ CallerTakesDestinationAlong /\ LegHangupEndsCall
=============================================================================
