--------------------------- MODULE TransferProofs --------------------------
(***************************************************************************)
(* What holds of a caller handed over to a person, however the hangups,    *)
(* the tool, the event loop and the teardown interleave: no destination is *)
(* left up when the call is over, and the agent's departure does not end   *)
(* the call it handed over.                                                *)
(*                                                                         *)
(* DestOwned: until the handover the tool answers for the destination and  *)
(* hangs it up wherever it gives up; from then on the teardown does, which *)
(* reads transferChannel after it has marked the call, when no handover    *)
(* can come any more.  RefusalTrue: a refusal means that the channel has   *)
(* gone, so that the tool has nothing left to hang up.                     *)
(***************************************************************************)
EXTENDS Transfer, SequenceTheorems, TLAPS

LegEvents == {"start", "end", "destroyed"}
TransferTyped ==
    /\ legs \in [Legs -> {"none", "ringing", "up", "gone"}]
    /\ legEvents \in [Legs -> Seq(LegEvents)] /\ tracked \subseteq Legs
    /\ handedOver \in BOOLEAN /\ sweepsDest \in BOOLEAN
    /\ tool \in {"idle", "dialing", "ringing", "beep", "checked", "added", "connected",
                 "dropping", "failed", "done"}
    /\ ending \in {"no", "marked", "swept", "over"}
    /\ loopAt \in {"idle", "answering", "refusing", "teardown"}
    /\ refused \in BOOLEAN

RefusalTrue ==
    /\ \A i \in DOMAIN legEvents["dest"] : legEvents["dest"][i] = "destroyed" => legs["dest"] = "gone"
    /\ loopAt = "refusing" \/ refused => legs["dest"] = "gone"

DestOwned ==
    /\ handedOver <=> tool \in {"connected", "done"}
    /\ tool \notin {"idle", "dialing", "failed"} => legs["dest"] # "none"
    /\ tool \in {"idle", "failed"} => ~LegUp("dest")
    /\ handedOver => "agent" \notin tracked
    /\ handedOver /\ ending \in {"swept", "over"} => sweepsDest
    /\ handedOver /\ ending = "over" => legs["dest"] = "gone"

TransferInv == TransferTyped /\ RefusalTrue /\ DestOwned

\* What a channel that leaves is reported with.
LEMMA PartingTyped == \A l \in Legs : Parting(l) \in Seq(LegEvents)
<1>1. <<"end", "destroyed">> \in Seq({"start", "end", "destroyed"}) /\ <<"destroyed">> \in Seq({"start", "end", "destroyed"})
  OBVIOUS
<1>. QED BY <1>1 DEF Parting, LegEvents

\* What a hangup does: the types stay, a channel hung up or gone is gone, and
\* only such a channel is reported destroyed.
LEMMA HungUp ==
    ASSUME TransferTyped, NEW S \in SUBSET Legs, HangUpLegs(S)
    PROVE  /\ legs' \in [Legs -> {"none", "ringing", "up", "gone"}]
           /\ legEvents' \in [Legs -> Seq(LegEvents)]
           /\ \A l \in Legs : legs'[l] = IF l \in S /\ LegUp(l) THEN "gone" ELSE legs[l]
           /\ \A l \in Legs : ~(l \in S /\ LegUp(l)) => legEvents'[l] = legEvents[l]
<1>2. \A l \in Legs : legEvents[l] \o Parting(l) \in Seq(LegEvents)
  BY PartingTyped, ConcatProperties DEF TransferTyped
<1>3. legEvents' \in [Legs -> Seq(LegEvents)]
  <2>. HIDE DEF Parting
  <2>1. \A l \in Legs : legEvents[l] \in Seq(LegEvents)
    BY DEF TransferTyped
  <2>. QED BY <1>2, <2>1 DEF HangUpLegs
<1>4. \A l \in Legs : legs'[l] = IF l \in S /\ LegUp(l) THEN "gone" ELSE legs[l]
  BY DEF HangUpLegs
<1>5. legs' \in [Legs -> {"none", "ringing", "up", "gone"}]
  BY DEF HangUpLegs, TransferTyped
<1>6. \A l \in Legs : ~(l \in S /\ LegUp(l)) => legEvents'[l] = legEvents[l]
  BY DEF HangUpLegs
<1>. QED BY <1>3, <1>4, <1>5, <1>6

\* So after a hangup a reported destruction is still true.
LEMMA HungUpTruth ==
    ASSUME TransferInv, NEW S \in SUBSET Legs, HangUpLegs(S), UNCHANGED <<loopAt, refused>>
    PROVE  RefusalTrue' /\ (legs["dest"] = "none" <=> legs'["dest"] = "none")
           /\ (~LegUp("dest") => legs'["dest"] = legs["dest"])
           /\ ("dest" \in S => ~LegUp("dest")')
<1>1. "dest" \in Legs
  BY DEF Legs
<1>2. TransferTyped /\ RefusalTrue
  BY DEF TransferInv
<1>3. legs'["dest"] = IF "dest" \in S /\ LegUp("dest") THEN "gone" ELSE legs["dest"]
  BY <1>1, <1>2, HungUp
<1>4. ~("dest" \in S /\ LegUp("dest")) => legEvents'["dest"] = legEvents["dest"]
  BY <1>1, <1>2, HungUp
<1>5. RefusalTrue'
  BY <1>2, <1>3, <1>4 DEF RefusalTrue
<1>. QED BY <1>3, <1>5 DEF LegUp

-----------------------------------------------------------------------------
(* The steps. *)

\* Asterisk's channels come and go; a destination begins to ring only while the
\* tool is dialing.
LEMMA AsteriskStep ==
    ASSUME TransferInv, DestAnswers \/ (\E l \in Legs : LegLeaves(l)) \/ OriginateRings
    PROVE  TransferInv'
<1>. USE DEF ariVars
<1>0. "dest" \in Legs /\ TransferTyped /\ RefusalTrue /\ DestOwned
  BY DEF Legs, TransferInv
<1>1. CASE DestAnswers
  <2>. USE <1>1 DEF DestAnswers
  <2>1. legEvents["dest"] \in Seq(LegEvents) /\ "start" \in LegEvents
    BY <1>0 DEF TransferTyped, LegEvents
  <2>2. /\ legEvents'["dest"] = Append(legEvents["dest"], "start") /\ legEvents' \in [Legs -> Seq(LegEvents)]
        /\ legs' \in [Legs -> {"none", "ringing", "up", "gone"}] /\ legs'["dest"] = "up"
    BY <1>0, <2>1 DEF TransferTyped
  <2>3. \A i \in DOMAIN legEvents'["dest"] : legEvents'["dest"][i] # "destroyed"
    <3>. SUFFICES ASSUME NEW i \in DOMAIN legEvents'["dest"] PROVE legEvents'["dest"][i] # "destroyed"
      OBVIOUS
    <3>1. CASE i \in DOMAIN legEvents["dest"]
      BY <1>0, <2>1, <2>2, <3>1 DEF RefusalTrue
    <3>2. CASE i \notin DOMAIN legEvents["dest"]
      BY <2>1, <2>2, <3>2
    <3>. QED BY <3>1, <3>2
  <2>4. TransferTyped'
    BY <1>0, <2>2 DEF TransferTyped
  <2>5. RefusalTrue'
    BY <1>0, <2>3 DEF RefusalTrue
  <2>6. DestOwned'
    BY <1>0, <2>2 DEF DestOwned, LegUp
  <2>. QED BY <2>4, <2>5, <2>6 DEF TransferInv
<1>2. ASSUME NEW l \in Legs, LegLeaves(l) PROVE TransferInv'
  <2>. USE <1>2 DEF LegLeaves
  <2>1. {l} \in SUBSET Legs
    OBVIOUS
  <2>2. TransferTyped'
    BY <1>0, <2>1, HungUp DEF TransferTyped
  <2>3. RefusalTrue' /\ (legs["dest"] = "none" <=> legs'["dest"] = "none")
        /\ (~LegUp("dest") => legs'["dest"] = legs["dest"])
    BY <2>1, HungUpTruth
  <2>4. DestOwned'
    BY <1>0, <2>3 DEF DestOwned, LegUp
  <2>. QED BY <2>2, <2>3, <2>4 DEF TransferInv
<1>3. CASE OriginateRings
  <2>. USE <1>3 DEF OriginateRings
  <2>1. TransferTyped' /\ legs'["dest"] = "ringing"
    BY <1>0 DEF TransferTyped
  <2>2. RefusalTrue'
    BY <1>0 DEF RefusalTrue
  <2>3. DestOwned'
    BY <1>0, <2>1 DEF DestOwned, LegUp
  <2>. QED BY <2>1, <2>2, <2>3 DEF TransferInv
<1>. QED BY <1>1, <1>2, <1>3

\* The tool's goroutine, and the turn that runs it.
LEMMA ToolStep ==
    ASSUME TransferInv, StartTransfer \/ ToolSteps \/ TurnIsCut
    PROVE  TransferInv'
<1>. USE DEF ariVars, asteriskVars
<1>0. "dest" \in Legs /\ TransferTyped /\ RefusalTrue /\ DestOwned
  BY DEF Legs, TransferInv
<1>1. ASSUME UNCHANGED <<asteriskVars, tracked, ending, sweepsDest, loopAt, refused>>,
             TransferTyped', DestOwned'
      PROVE  TransferInv'
  BY <1>0, <1>1 DEF TransferInv, RefusalTrue
<1>2. CASE StartTransfer
  BY <1>0, <1>1, <1>2 DEF StartTransfer, TransferTyped, DestOwned, LegUp
<1>3. CASE OriginateReturns
  BY <1>0, <1>1, <1>3 DEF OriginateReturns, TransferTyped, DestOwned, LegUp
<1>4. CASE AnswerSeen
  BY <1>0, <1>1, <1>4 DEF AnswerSeen, WaitEnds, TransferTyped, DestOwned, LegUp
<1>5. CASE RefusalSeen
  BY <1>0, <1>1, <1>5 DEF RefusalSeen, WaitEnds, TransferTyped, DestOwned, RefusalTrue, LegUp
<1>6. CASE GivesUpWaiting
  BY <1>0, <1>1, <1>6 DEF GivesUpWaiting, WaitEnds, TransferTyped, DestOwned, LegUp
<1>7. CASE ChecksCall
  BY <1>0, <1>1, <1>7 DEF ChecksCall, TransferTyped, DestOwned, LegUp
<1>8. CASE AddsDest
  BY <1>0, <1>1, <1>8 DEF AddsDest, TransferTyped, DestOwned, LegUp
<1>9. CASE TurnIsCut
  BY <1>0, <1>1, <1>9 DEF TurnIsCut, TransferTyped, DestOwned, LegUp
<1>10. CASE TakesOver
  <2>. USE <1>10 DEF TakesOver
  <2>1. TransferTyped'
    BY <1>0 DEF TransferTyped, Legs
  <2>2. DestOwned'
    BY <1>0 DEF DestOwned, LegUp, TransferTyped
  <2>3. RefusalTrue'
    BY <1>0 DEF RefusalTrue
  <2>. QED BY <2>1, <2>2, <2>3 DEF TransferInv
<1>11. CASE DropDest
  <2>. USE <1>11 DEF DropDest
  <2>1. {"dest"} \in SUBSET Legs
    BY <1>0
  <2>2. RefusalTrue' /\ (legs["dest"] = "none" <=> legs'["dest"] = "none") /\ ~LegUp("dest")'
    BY <2>1, HungUpTruth
  <2>3. TransferTyped'
    BY <1>0, <2>1, HungUp DEF TransferTyped
  <2>4. DestOwned'
    BY <1>0, <2>2 DEF DestOwned, LegUp
  <2>. QED BY <2>2, <2>3, <2>4 DEF TransferInv
<1>12. CASE AgentSteppedOut
  <2>. USE <1>12 DEF AgentSteppedOut
  <2>1. {"agent"} \in SUBSET Legs
    BY DEF Legs
  <2>2. RefusalTrue' /\ (legs["dest"] = "none" <=> legs'["dest"] = "none")
        /\ (~LegUp("dest") => legs'["dest"] = legs["dest"])
    BY <2>1, HungUpTruth
  <2>3. TransferTyped'
    BY <1>0, <2>1, HungUp DEF TransferTyped
  <2>4. DestOwned'
    BY <1>0, <2>2 DEF DestOwned, LegUp
  <2>. QED BY <2>2, <2>3, <2>4 DEF TransferInv
<1>. QED
  BY <1>2, <1>3, <1>4, <1>5, <1>6, <1>7, <1>8, <1>9, <1>10, <1>11, <1>12 DEF ToolSteps

\* The event loop takes one event: the late answer is hung up, the end of a
\* tracked channel ends the call, a refusal is the channel's last word.
LEMMA LoopTakesStep == ASSUME TransferInv, NEW l \in Legs, LoopTakes(l) PROVE TransferInv'
<1>. USE DEF LoopTakes
<1>0. "dest" \in Legs /\ TransferTyped /\ RefusalTrue /\ DestOwned
  BY DEF Legs, TransferInv
<1>. DEFINE rest == [legEvents EXCEPT ![l] = Tail(@)]
<1>1. legEvents[l] \in Seq(LegEvents) /\ legEvents[l] # <<>> /\ Head(legEvents[l]) = legEvents[l][1]
  BY <1>0 DEF TransferTyped
<1>2. rest \in [Legs -> Seq(LegEvents)]
  <2>1. Tail(legEvents[l]) \in Seq(LegEvents)
    BY <1>1
  <2>. QED BY <1>0, <2>1 DEF TransferTyped
<1>3. 1 \in DOMAIN legEvents[l] /\ \A i \in DOMAIN Tail(legEvents[l]) :
          i + 1 \in DOMAIN legEvents[l] /\ Tail(legEvents[l])[i] = legEvents[l][i + 1]
  BY <1>1
<1>4. \A i \in DOMAIN rest["dest"] : rest["dest"][i] = "destroyed" => legs["dest"] = "gone"
  <2>1. rest["dest"] = IF l = "dest" THEN Tail(legEvents["dest"]) ELSE legEvents["dest"]
    BY <1>0 DEF TransferTyped
  <2>. QED BY <1>0, <1>3, <2>1 DEF RefusalTrue
<1>. HIDE DEF rest
<1>5. UNCHANGED <<tool, handedOver, ending, sweepsDest, refused>>
  OBVIOUS
<1>6. CASE Head(legEvents[l]) = "start" /\ OnAnswered(rest) /\ UNCHANGED tracked
  <2>. USE <1>6 DEF OnAnswered
  <2>1. CASE awaited
    <3>1. legEvents' = rest /\ legs' = legs /\ loopAt' = "answering"
      BY <2>1
    <3>2. TransferTyped' /\ RefusalTrue'
      BY <1>0, <1>2, <1>4, <1>5, <3>1 DEF TransferTyped, RefusalTrue
    <3>3. DestOwned'
      BY <1>0, <1>5, <3>1 DEF DestOwned, LegUp
    <3>. QED BY <3>2, <3>3 DEF TransferInv
  <2>2. CASE ~awaited
    <3>1. legs' = [legs EXCEPT !["dest"] = "gone"] /\ loopAt' = loopAt
      BY <2>2
    <3>2. legs' \in [Legs -> {"none", "ringing", "up", "gone"}] /\ legs'["dest"] = "gone"
      BY <1>0, <3>1 DEF TransferTyped
    <3>3. legEvents' \in [Legs -> Seq(LegEvents)]
      <4>1. rest["dest"] \o Parting("dest") \in Seq(LegEvents)
        <5>1. Parting("dest") \in Seq(LegEvents)
          BY <1>0, PartingTyped
        <5>. QED BY <1>0, <1>2, <5>1, ConcatProperties
      <4>. QED BY <1>2, <2>2, <4>1
    <3>4. TransferTyped' /\ RefusalTrue'
      BY <1>0, <1>5, <3>1, <3>2, <3>3 DEF TransferTyped, RefusalTrue
    <3>5. DestOwned'
      BY <1>0, <1>5, <3>2 DEF DestOwned, LegUp
    <3>. QED BY <3>4, <3>5 DEF TransferInv
  <2>. QED BY <2>1, <2>2
<1>7. CASE Head(legEvents[l]) = "end" /\ OnLegEnd(l) /\ legEvents' = rest /\ UNCHANGED legs
  <2>1. tracked' \subseteq tracked /\ loopAt' \in {loopAt, "teardown"}
    BY <1>7 DEF OnLegEnd
  <2>2. TransferTyped'
    BY <1>0, <1>2, <1>5, <1>7, <2>1 DEF TransferTyped
  <2>3. RefusalTrue'
    BY <1>0, <1>4, <1>5, <1>7, <2>1 DEF RefusalTrue
  <2>4. DestOwned'
    BY <1>0, <1>5, <1>7, <2>1 DEF DestOwned, LegUp
  <2>. QED BY <2>2, <2>3, <2>4 DEF TransferInv
<1>8. CASE /\ Head(legEvents[l]) = "destroyed" /\ legEvents' = rest /\ UNCHANGED <<legs, tracked>>
           /\ loopAt' = IF l = "dest" /\ awaited THEN "refusing" ELSE "idle"
  <2>1. loopAt' = "refusing" => legs["dest"] = "gone"
    BY <1>0, <1>1, <1>3, <1>8 DEF RefusalTrue
  <2>2. TransferTyped'
    BY <1>0, <1>2, <1>5, <1>8 DEF TransferTyped
  <2>3. RefusalTrue'
    BY <1>0, <1>4, <1>5, <1>8, <2>1 DEF RefusalTrue
  <2>4. DestOwned'
    BY <1>0, <1>5, <1>8 DEF DestOwned, LegUp
  <2>. QED BY <2>2, <2>3, <2>4 DEF TransferInv
<1>. QED
  BY <1>6, <1>7, <1>8 DEF rest

\* The loop's other steps, and the teardown: a handover seen by the sweep is
\* hung up, and none can come after the mark.
LEMMA TeardownStep ==
    ASSUME TransferInv, LoopSignals \/ LoopDone \/ CallIsEnded \/ TeardownSteps
    PROVE  TransferInv'
<1>. USE DEF ariVars, asteriskVars
<1>0. "dest" \in Legs /\ TransferTyped /\ RefusalTrue /\ DestOwned
  BY DEF Legs, TransferInv
<1>1. CASE LoopSignals
  <2>1. TransferTyped'
    BY <1>0, <1>1 DEF LoopSignals, TransferTyped
  <2>2. RefusalTrue'
    BY <1>0, <1>1 DEF LoopSignals, RefusalTrue
  <2>3. DestOwned'
    BY <1>0, <1>1 DEF LoopSignals, DestOwned, LegUp
  <2>. QED BY <2>1, <2>2, <2>3 DEF TransferInv
<1>2. CASE LoopDone \/ CallIsEnded
  <2>1. TransferTyped'
    BY <1>0, <1>2 DEF LoopDone, CallIsEnded, TransferTyped
  <2>2. RefusalTrue'
    BY <1>0, <1>2 DEF LoopDone, CallIsEnded, RefusalTrue
  <2>3. DestOwned'
    BY <1>0, <1>2 DEF LoopDone, CallIsEnded, DestOwned, LegUp
  <2>. QED BY <2>1, <2>2, <2>3 DEF TransferInv
<1>3. CASE TeardownSweeps
  <2>1. tracked' \subseteq tracked /\ UNCHANGED <<legs, legEvents, tool, handedOver, loopAt, refused>>
    BY <1>3 DEF TeardownSweeps
  <2>2. ending' = "swept" /\ sweepsDest' = handedOver
    BY <1>3 DEF TeardownSweeps
  <2>3. TransferTyped' /\ RefusalTrue'
    BY <1>0, <2>1, <2>2 DEF TransferTyped, RefusalTrue
  <2>4. DestOwned'
    BY <1>0, <2>1, <2>2 DEF DestOwned, LegUp
  <2>. QED BY <2>3, <2>4 DEF TransferInv
<1>4. CASE TeardownHangsUp
  <2>. USE <1>4 DEF TeardownHangsUp
  <2>. DEFINE S == {"caller", "agent"} \cup (IF sweepsDest THEN {"dest"} ELSE {})
  <2>1. S \in SUBSET Legs
    BY DEF Legs
  <2>2. HangUpLegs(S)
    OBVIOUS
  <2>3. RefusalTrue' /\ (legs["dest"] = "none" <=> legs'["dest"] = "none")
        /\ (~LegUp("dest") => legs'["dest"] = legs["dest"]) /\ ("dest" \in S => ~LegUp("dest")')
    BY <2>1, <2>2, HungUpTruth
  <2>4. TransferTyped'
    BY <1>0, <2>1, <2>2, HungUp DEF TransferTyped
  <2>5. handedOver => legs'["dest"] = "gone"
    <3>1. handedOver => "dest" \in S /\ legs["dest"] # "none"
      BY <1>0 DEF DestOwned
    <3>2. legs'["dest"] \in {"none", "ringing", "up", "gone"}
      BY <1>0, <2>4 DEF TransferTyped
    <3>. QED BY <2>3, <3>1, <3>2 DEF LegUp
  <2>6. DestOwned'
    BY <1>0, <2>3, <2>5 DEF DestOwned, LegUp
  <2>. QED BY <2>3, <2>4, <2>6 DEF TransferInv
<1>. QED BY <1>1, <1>2, <1>3, <1>4 DEF TeardownSteps

-----------------------------------------------------------------------------
(* The theorems. *)

\* Every step keeps the invariant.
LEMMA TransferStep == TransferInv /\ [TransferNext]_transferVars => TransferInv'
<1>. SUFFICES ASSUME TransferInv, [TransferNext]_transferVars PROVE TransferInv'
  OBVIOUS
<1>1. CASE UNCHANGED transferVars
  BY <1>1 DEF transferVars, TransferInv, TransferTyped, RefusalTrue, DestOwned, LegUp
<1>2. CASE LoopStepsOfTransfer
  BY <1>2, LoopTakesStep, TeardownStep DEF LoopStepsOfTransfer, LoopEndsCall
<1>3. CASE TransferNext /\ ~LoopStepsOfTransfer
  BY <1>3, AsteriskStep, ToolStep, TeardownStep DEF TransferNext
<1>. QED BY <1>1, <1>2, <1>3

\* The invariant holds.
LEMMA TransferInvHolds == TransferSpec => []TransferInv
<1>1. ASSUME TransferInit PROVE TransferInv
  <2>. USE <1>1 DEF TransferInit
  <2>1. <<>> \in Seq(LegEvents) /\ legEvents = [l \in Legs |-> <<>>] /\ "dest" \in Legs
    BY DEF Legs
  <2>2. TransferTyped
    BY <2>1 DEF TransferTyped, Legs
  <2>3. legEvents["dest"] = <<>> /\ legs["dest"] = "none"
    BY <2>1
  <2>4. RefusalTrue
    <3>1. DOMAIN legEvents["dest"] = {}
      BY <2>3
    <3>2. ~(loopAt = "refusing" \/ refused)
      OBVIOUS
    <3>. QED BY <3>1, <3>2 DEF RefusalTrue
  <2>5. handedOver = FALSE /\ tool = "idle" /\ ending = "no"
    OBVIOUS
  <2>6. DestOwned
    BY <2>3, <2>5 DEF DestOwned, LegUp
  <2>. QED BY <2>2, <2>4, <2>6 DEF TransferInv
<1>. QED BY <1>1, TransferStep, PTL DEF TransferSpec

\* DestinationReleased: whoever hangs up while the destination rings, answers,
\* is connected or talks, no destination is left up and billable when the call is
\* over and the tool has returned (transfer, connectTransfer, teardown).
THEOREM DestinationLetGo == TransferSpec => []DestinationReleased
<1>1. TransferInv => DestinationReleased
  BY DEF TransferInv, DestOwned, DestinationReleased, LegUp
<1>. QED BY <1>1, TransferInvHolds, PTL

\* HandoverSurvives: no event of the agent's leg ends a call handed over, since
\* connectTransfer has stopped tracking the leg before it hangs it up.
THEOREM HandoverIsKept == TransferSpec => HandoverSurvives
<1>. DEFINE Kept == handedOver /\ legEvents["agent"] # legEvents'["agent"] /\ loopAt = "idle" => loopAt' # "teardown"
<1>1. TransferInv /\ [TransferNext]_transferVars => [Kept]_transferVars
  <2>. SUFFICES ASSUME TransferInv, TransferNext, handedOver, legEvents["agent"] # legEvents'["agent"],
                       loopAt = "idle"
                PROVE  loopAt' # "teardown"
    BY DEF transferVars
  <2>1. "agent" \notin tracked /\ legEvents \in [Legs -> Seq(LegEvents)]
    BY DEF TransferInv, TransferTyped, DestOwned
  <2>2. ASSUME NEW l \in Legs, LoopTakes(l) PROVE loopAt' # "teardown"
    <3>1. l = "agent"
      <4>. SUFFICES ASSUME l # "agent" PROVE legEvents'["agent"] = legEvents["agent"]
        OBVIOUS
      <4>1. "agent" \in Legs
        BY DEF Legs
      <4>. QED BY <2>1, <2>2, <4>1 DEF LoopTakes, OnAnswered
    <3>. QED BY <2>1, <2>2, <3>1 DEF LoopTakes, OnAnswered, OnLegEnd
  <2>3. ToolSteps => loopAt' = loopAt
    BY DEF ToolSteps, OriginateReturns, AnswerSeen, RefusalSeen, GivesUpWaiting, WaitEnds, DropDest, ChecksCall,
           AddsDest, TakesOver, AgentSteppedOut
  <2>4. TeardownSteps \/ CallIsEnded \/ LoopSignals \/ LoopDone \/ StartTransfer \/ OriginateRings \/ TurnIsCut
          \/ DestAnswers \/ (\E l \in Legs : LegLeaves(l)) => loopAt' \in {loopAt, "idle"}
    BY DEF TeardownSteps, TeardownSweeps, TeardownHangsUp, CallIsEnded, LoopSignals, LoopDone, StartTransfer,
           OriginateRings, TurnIsCut, DestAnswers, LegLeaves
  <2>. QED BY <2>2, <2>3, <2>4 DEF TransferNext, LoopStepsOfTransfer, LoopEndsCall
<1>. QED BY <1>1, TransferInvHolds, PTL DEF TransferSpec, HandoverSurvives
=============================================================================
