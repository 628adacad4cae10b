------------------------ MODULE CampaignCallsProofs ------------------------
(***************************************************************************)
(* What holds of the calls a campaign has placed, for any number of        *)
(* campaigns, contacts, slots, failing commands and crashes: no slot is    *)
(* left behind (NoSlotLeak), the limits hold (LimitsHold), a completed     *)
(* campaign is quiet (CompletedIsQuiet) and its counters are true          *)
(* (CompletedAccounts), and the sweep spares the runs of calls under way   *)
(* (LiveRunsSpared).                                                       *)
(*                                                                         *)
(* All but the first assume what runner.go says of Placer.Dial: after an   *)
(* error nothing is ringing and Done won't come.  The run CampaignDialError*)
(* shows that they need it.                                                *)
(***************************************************************************)
EXTENDS CampaignDialerProofs, FiniteSetTheorems

\* Steps of dialOne at which the goroutine owns a slot, and those at which the
\* organization has counted it.
SlotPcs == {"orgslot", "dropcap"} \cup {"claim", "place", "provider", "create", "dial", "release"}
OrgSlotPcs == {"claim", "place", "provider", "create", "dial", "release"}
RunPcs == {"dial", "release", "outcome", "tripped", "marknc", "setrow"}

\* finished runs for calls that are over, and startup comes before any call.
RunLife == \A r \in Runs : fin[r] # "none" => call[r] = "over"
StartIdle == main \in {"recover", "startquery", "startmark"} =>
    /\ \A c \in Campaigns : drain[c].pc = "idle"
    /\ \A r \in Runs : ~Live(r)

\* A drain goroutine's slot: held from AcquireSlot to release, its own alone.
DrainSlots ==
    \A c \in Campaigns :
        /\ drain[c].pc \in SlotPcs => drain[c].slot \in SlotIds
        /\ drain[c].pc \notin SlotPcs => drain[c].slot = None
        /\ \A k \in Campaigns : drain[k].slot = drain[c].slot /\ drain[c].slot # None => k = c
\* Until the organization has counted it, a slot is in no list but the capacity's.
FreshSlot ==
    Clean => \A c \in Campaigns : drain[c].pc \in {"orgslot", "dropcap"} => drain[c].slot \notin orgSlots
SlotInv == RunLife /\ StartIdle /\ DrainSlots /\ FreshSlot /\ NoSlotLeak

\* Calls the runner has to account for, and that it does: each is in liveRuns,
\* and inflight counts them.
Dialing(r) == \E c \in Campaigns : drain[c].pc = "dial" /\ drain[c].run = r
Pending(r) == Live(r) \/ fin[r] # "none" \/ Dialing(r)
LiveOf(c) == {r \in liveRuns : CampaignOfRun(r) = c}
Accounted ==
    /\ \A r \in Runs : Pending(r) => r \in liveRuns
    /\ \A r \in liveRuns : Pending(r) /\ runState[r] # "none"
Counted ==
    /\ IsFiniteSet(liveRuns)
    /\ \A c \in Campaigns : inflight[c] = Cardinality(LiveOf(c))

\* The locals of place once the run exists: after a failed dial its call is over.
DrainRun ==
    \A c \in Campaigns : drain[c].run # None =>
        /\ drain[c].pc \in RunPcs
        /\ drain[c].pc = "release" => drain[c].to = "failed"
        /\ drain[c].pc # "dial" /\ drain[c].to = "failed" => call[drain[c].run] = "over"

\* maybeComplete: nothing in flight, then no open work either, for good.
RowsSettled(c) == \A q \in Rows : CampaignOfRow(q) = c => rowState[q] \notin {"queued", "processing"}
Completing ==
    \A c \in Campaigns :
        /\ drain[c].pc \in {"openwork", "inflight2", "complete"} => inflight[c] = 0
        /\ drain[c].pc \in {"inflight2", "complete"} => RowsSettled(c)
        /\ campState[c] = "completed" => drain[c].pc = "idle" /\ inflight[c] = 0 /\ RowsSettled(c)

\* What a sweep works on: runs that are no call's, nor going to be.
SweepOK ==
    /\ \A r \in oldRuns : runState[r] # "none"
    /\ \A r \in sweepSet : runState[r] # "none" /\ ~Live(r) /\ ~Dialing(r)
CallInv == Accounted /\ Counted /\ DrainRun /\ Completing /\ SweepOK

\* Slots that count: every slot has one owner, which the lists still show.
Owns(r) == Live(r) \/ fin[r] = "release"
SlotOwners ==
    /\ \A r \in Runs : Owns(r) => callSlot[r] \in SlotIds
    /\ \A r, x \in Runs : Owns(r) /\ Owns(x) /\ callSlot[r] = callSlot[x] => r = x
    /\ \A r \in Runs, c \in Campaigns : Owns(r) => drain[c].slot # callSlot[r]
SlotsCounted ==
    /\ \A r \in Runs : Owns(r) /\ callSlot[r] \notin agedSlots =>
           callSlot[r] \in orgSlots /\ (MaxCalls > 0 => callSlot[r] \in capSlots)
    /\ \A c \in Campaigns : drain[c].pc \in SlotPcs =>
           /\ drain[c].slot \notin agedSlots
           /\ drain[c].pc \in OrgSlotPcs => drain[c].slot \in orgSlots
           /\ MaxCalls > 0 => drain[c].slot \in capSlots
Room ==
    /\ IsFiniteSet(orgSlots) /\ Cardinality(Trim(orgSlots)) <= OrgLimit
    /\ IsFiniteSet(capSlots) /\ (MaxCalls > 0 => Cardinality(Trim(capSlots)) <= MaxCalls)
LimitInv == SlotOwners /\ SlotsCounted /\ Room

-----------------------------------------------------------------------------
\* Without a failure now, there was none before, and this step is none either.
LEMMA CleanStep == TypeOK /\ [Next]_vars => (Clean' => Clean /\ UNCHANGED <<faults, restarts>>)
<1>. DEFINE Later == faults' >= faults /\ restarts' >= restarts
<1>. SUFFICES ASSUME TypeOK, [Next]_vars PROVE Later
  BY DEF TypeOK, Clean
<1>0. faults \in Nat /\ restarts \in Nat
  BY DialerAssumption DEF TypeOK
<1>. USE <1>0 DEF vars, boundVars, Fault, NoFault
<1>1. ASSUME NEW c \in Campaigns, Scan(c) \/ GatesPass(c) \/ GatesStop(c) \/ DrainStep(c) PROVE Later
  BY <1>1 DEF DrainStep, Scan, GatesPass, GatesStop, GatesTrip, GatesPause, TakeCapacity, TakeOrgSlot,
       DropCapacity, ClaimRun, Place, ProviderPause, CreateOutboundRun, Dial, DrainRelease, DrainOutcome,
       DrainTripped, DrainMarkNotConnected, SetRow, FirstInflightCheck, SecondInflightCheck, CheckInflight,
       OpenWork, CompleteCampaign, SetPaused, ReleaseSlot, CompleteRun, SetRunState
<1>2. ASSUME NEW r \in Runs, \/ FinStep(r) \/ AgentStep(r) \/ Answered(r) \/ Unanswered(r)
                             \/ HungUp(r) \/ SweepMark(r) \/ RunGetsOld(r)
      PROVE  Later
  BY <1>2 DEF FinStep, AgentStep, FinRelease, FinOutcome, FinTripped, FinRetry, FinMarkNotConnected, FinEnd,
       AgentStarted, MarkRunRunning, FinishRun, Answered, Unanswered, HungUp, Done, SweepMark, RunGetsOld,
       SetPaused, ReleaseSlot, CompleteRun
<1>3. ASSUME RecoverContacts \/ SweepQuery \/ SweepEnd \/ SweepSnapshot \/ Crash PROVE Later
  BY <1>3 DEF RecoverContacts, SweepQuery, SweepEnd, SweepSnapshot, Crash
<1>4. ASSUME NEW c \in Campaigns, UIPause(c) \/ UIResume(c) PROVE Later
  BY <1>4 DEF UIPause, UIResume
<1>5. ASSUME NEW q \in Rows, RetryDue(q) PROVE Later
  BY <1>5 DEF RetryDue
<1>6. ASSUME NEW s \in SlotIds, SlotAges(s) PROVE Later
  BY <1>6 DEF SlotAges
<1>. QED
  BY <1>1, <1>2, <1>3, <1>4, <1>5, <1>6 DEF Next, RunStep

\* Steps of a drain goroutine that move it between the gates and maybeComplete,
\* between two steps that own the slot, or past the release: nothing about slots.
DrainMove(c) ==
    /\ main = "loop" \/ drain[c].pc # "idle"
    /\ drain[c].pc \notin {"capacity", "orgslot", "dropcap"} /\ drain'[c].pc \notin {"orgslot", "dropcap"}
    /\ drain'[c].slot = drain[c].slot
    /\ drain'[c].pc \in SlotPcs <=> drain[c].pc \in SlotPcs
    /\ \A k \in Campaigns \ {c} : drain'[k] = drain[k]
    /\ UNCHANGED <<main, fin, call, callSlot, redisVars>>
\* Steps of `finished' after the release.
FinMove(r) ==
    /\ fin[r] \notin {"none", "release"} /\ fin'[r] # "release"
    /\ \A x \in Runs \ {r} : fin'[x] = fin[x]
    /\ UNCHANGED <<main, drain, call, callSlot, redisVars>>
\* Steps of the Run goroutine, and of everyone whom no slot concerns.
RunMove ==
    /\ main' \in {"recover", "startquery", "startmark"} => main \in {"recover", "startquery", "startmark"}
    /\ UNCHANGED <<drain, fin, call, callSlot, redisVars>>
SlotStep ==
    \/ \E c \in Campaigns : \/ DrainMove(c) \/ TakeCapacity(c) \/ TakeOrgSlot(c) \/ DropCapacity(c)
                            \/ Dial(c) \/ DrainRelease(c)
    \/ \E r \in Runs : FinMove(r) \/ FinRelease(r) \/ Answered(r) \/ Unanswered(r) \/ HungUp(r)
    \/ RunMove \/ Crash \/ \E s \in SlotIds : SlotAges(s)

\* What a step is to the slots.
LEMMA SlotSteps == TypeOK /\ DrainSlots /\ [Next]_vars => SlotStep
<1>. SUFFICES ASSUME TypeOK, DrainSlots, [Next]_vars PROVE SlotStep
  OBVIOUS
<1>0. drain \in [Campaigns -> DrainRecords] /\ fin \in [Runs -> FinPcs]
  BY DEF TypeOK
<1>. USE DialerAssumption, <1>0 DEF vars, dbVars, redisVars, procVars, callVars, boundVars,
       DrainSlots, SlotPcs, DrainPcs, DrainRecords
<1>1. ASSUME NEW c \in Campaigns, Scan(c) PROVE DrainMove(c)
  BY <1>1 DEF Scan, GatesDrain, Drain, DrainMove
<1>2. ASSUME NEW c \in Campaigns, GatesPass(c) PROVE DrainMove(c)
  BY <1>2 DEF GatesPass, At, Goto, Drain, DrainMove
<1>3. ASSUME NEW c \in Campaigns, GatesStop(c) PROVE DrainMove(c)
  BY <1>3 DEF GatesStop, At, Stop, IdleDrain, Drain, DrainMove
<1>4. ASSUME NEW c \in Campaigns, GatesTrip(c) PROVE DrainMove(c)
  BY <1>4 DEF GatesTrip, At, Goto, Drain, DrainMove
<1>5. ASSUME NEW c \in Campaigns, GatesPause(c) PROVE DrainMove(c)
  BY <1>5 DEF GatesPause, At, Stop, IdleDrain, Drain, DrainMove
<1>6. ASSUME NEW c \in Campaigns, ClaimRun(c) PROVE DrainMove(c)
  BY <1>6 DEF ClaimRun, At, ReleaseThen, Drain, DrainMove
<1>7. ASSUME NEW c \in Campaigns, Place(c) PROVE DrainMove(c)
  BY <1>7 DEF Place, At, ReleaseThen, Goto, Drain, DrainMove
<1>8. ASSUME NEW c \in Campaigns, ProviderPause(c) PROVE DrainMove(c)
  BY <1>8 DEF ProviderPause, At, Goto, Drain, DrainMove
<1>9. ASSUME NEW c \in Campaigns, CreateOutboundRun(c) PROVE DrainMove(c)
  BY <1>9 DEF CreateOutboundRun, At, ReleaseThen, Drain, DrainMove
<1>10. ASSUME NEW c \in Campaigns, DrainOutcome(c) PROVE DrainMove(c)
  BY <1>10 DEF DrainOutcome, At, Goto, Drain, DrainMove
<1>11. ASSUME NEW c \in Campaigns, DrainTripped(c) PROVE DrainMove(c)
  BY <1>11 DEF DrainTripped, At, Goto, Drain, DrainMove
<1>12. ASSUME NEW c \in Campaigns, DrainMarkNotConnected(c) PROVE DrainMove(c)
  BY <1>12 DEF DrainMarkNotConnected, At, Goto, Drain, DrainMove
<1>13. ASSUME NEW c \in Campaigns, SetRow(c) PROVE DrainMove(c)
  BY <1>13 DEF SetRow, At, IdleDrain, GatesDrain, Drain, DrainMove
<1>14. ASSUME NEW c \in Campaigns, FirstInflightCheck(c) PROVE DrainMove(c)
  BY <1>14 DEF FirstInflightCheck, CheckInflight, At, Stop, IdleDrain, Goto, Drain, DrainMove
<1>15. ASSUME NEW c \in Campaigns, OpenWork(c) PROVE DrainMove(c)
  BY <1>15 DEF OpenWork, At, Stop, IdleDrain, Goto, Drain, DrainMove
<1>16. ASSUME NEW c \in Campaigns, SecondInflightCheck(c) PROVE DrainMove(c)
  BY <1>16 DEF SecondInflightCheck, CheckInflight, At, Stop, IdleDrain, Goto, Drain, DrainMove
<1>17. ASSUME NEW c \in Campaigns, CompleteCampaign(c) PROVE DrainMove(c)
  BY <1>17 DEF CompleteCampaign, At, Stop, IdleDrain, Drain, DrainMove
<1>18. ASSUME NEW c \in Campaigns, UIPause(c) PROVE RunMove
  BY <1>18 DEF UIPause, RunMove
<1>19. ASSUME NEW c \in Campaigns, UIResume(c) PROVE RunMove
  BY <1>19 DEF UIResume, RunMove
<1>20. ASSUME NEW r \in Runs, FinOutcome(r) PROVE FinMove(r)
  BY <1>20 DEF FinOutcome, FinGoto, AfterOutcome, FinMove
<1>21. ASSUME NEW r \in Runs, FinTripped(r) PROVE FinMove(r)
  BY <1>21 DEF FinTripped, FinGoto, AfterOutcome, FinMove
<1>22. ASSUME NEW r \in Runs, FinRetry(r) PROVE FinMove(r)
  BY <1>22 DEF FinRetry, FinGoto, FinMove
<1>23. ASSUME NEW r \in Runs, FinMarkNotConnected(r) PROVE FinMove(r)
  BY <1>23 DEF FinMarkNotConnected, FinGoto, FinMove
<1>24. ASSUME NEW r \in Runs, FinEnd(r) PROVE FinMove(r)
  BY <1>24 DEF FinEnd, FinGoto, FinMove
<1>25. ASSUME NEW r \in Runs, AgentStarted(r) PROVE RunMove
  BY <1>25 DEF AgentStarted, RunMove
<1>26. ASSUME NEW r \in Runs, MarkRunRunning(r) PROVE RunMove
  BY <1>26 DEF MarkRunRunning, RunMove
<1>27. ASSUME NEW r \in Runs, FinishRun(r) PROVE RunMove
  BY <1>27 DEF FinishRun, RunMove
<1>28. ASSUME NEW r \in Runs, SweepMark(r) PROVE RunMove
  BY <1>28 DEF SweepMark, RunMove
<1>29. ASSUME NEW r \in Runs, RunGetsOld(r) PROVE RunMove
  BY <1>29 DEF RunGetsOld, RunMove
<1>30. ASSUME RecoverContacts PROVE RunMove
  BY <1>30 DEF RecoverContacts, RunMove
<1>31. ASSUME SweepQuery PROVE RunMove
  BY <1>31 DEF SweepQuery, RunMove
<1>32. ASSUME SweepEnd PROVE RunMove
  BY <1>32 DEF SweepEnd, RunMove
<1>33. ASSUME SweepSnapshot PROVE RunMove
  BY <1>33 DEF SweepSnapshot, RunMove
<1>34. ASSUME NEW q \in Rows, RetryDue(q) PROVE RunMove
  BY <1>34 DEF RetryDue, RunMove
<1>35. ASSUME NEW c \in Campaigns, Scan(c) \/ GatesPass(c) \/ GatesStop(c) \/ DrainStep(c) PROVE SlotStep
  BY <1>35, <1>1, <1>2, <1>3, <1>4, <1>5, <1>6, <1>7, <1>8, <1>9, <1>10, <1>11, <1>12, <1>13,
     <1>14, <1>15, <1>16, <1>17 DEF DrainStep, SlotStep
<1>36. ASSUME NEW r \in Runs, FinStep(r) \/ AgentStep(r) PROVE SlotStep
  BY <1>36, <1>20, <1>21, <1>22, <1>23, <1>24, <1>25, <1>26,
     <1>27 DEF FinStep, AgentStep, SlotStep
<1>37. ASSUME RunStep PROVE SlotStep
  BY <1>37, <1>30, <1>31, <1>32, <1>28 DEF RunStep, SlotStep
<1>38. CASE UNCHANGED vars
  BY <1>38 DEF RunMove, SlotStep
<1>39. ASSUME Next PROVE SlotStep
  BY <1>39, <1>35, <1>36, <1>37, <1>18, <1>19, <1>34, <1>29, <1>33 DEF Next, SlotStep
<1>. QED
  BY <1>38, <1>39

\* Every step keeps the slots in order, and leaves none behind.
LEMMA SlotInvStep == TypeOK /\ DrainOK /\ DialInv /\ SlotInv /\ [Next]_vars => SlotInv'
<1>. SUFFICES ASSUME TypeOK, DrainOK, DialInv, SlotInv, [Next]_vars PROVE SlotInv'
  OBVIOUS
<1>0. /\ drain \in [Campaigns -> DrainRecords] /\ fin \in [Runs -> FinPcs]
      /\ call \in [Runs -> {"none", "ringing", "up", "over"}]
      /\ callSlot \in [Runs -> SlotIds \cup {None}]
      /\ orgSlots \subseteq SlotIds /\ capSlots \subseteq SlotIds
      /\ faults \in Nat
  BY DialerAssumption DEF TypeOK
<1>1. SlotStep
  BY SlotSteps DEF SlotInv
<1>2. Clean' => Clean /\ faults' = faults
  BY CleanStep DEF Clean
<1>. USE DialerAssumption, <1>0, <1>2 DEF redisVars, procVars, callVars, SlotInv, SlotPcs, Live
<1>3. ASSUME NEW c \in Campaigns, DrainMove(c) PROVE SlotInv'
  <2>1. RunLife'
    BY <1>3 DEF DrainMove, RunLife
  <2>2. StartIdle'
    BY <1>3 DEF DrainMove, StartIdle
  <2>3. DrainSlots'
    BY <1>3 DEF DrainMove, DrainSlots
  <2>4. FreshSlot'
    BY <1>3 DEF DrainMove, FreshSlot, DrainSlots
  <2>5. NoSlotLeak'
    BY <1>3 DEF DrainMove, NoSlotLeak, DrainSlots
  <2>. QED
    BY <2>1, <2>2, <2>3, <2>4, <2>5
<1>4. ASSUME NEW c \in Campaigns, TakeCapacity(c) PROVE SlotInv'
  <2>1. RunLife'
    BY <1>4 DEF TakeCapacity, At, Stop, IdleDrain, Drain, Trim, UsedSlots, Fault, NoFault, RunLife
  <2>2. StartIdle'
    BY <1>4 DEF TakeCapacity, At, Stop, IdleDrain, Drain, Trim, UsedSlots, Fault, NoFault, StartIdle
  <2>3. DrainSlots'
    BY <1>4 DEF TakeCapacity, At, Stop, IdleDrain, Drain, Trim, UsedSlots, Fault, NoFault, DrainSlots
  <2>4. FreshSlot'
    BY <1>4 DEF TakeCapacity, At, Stop, IdleDrain, Drain, Trim, UsedSlots, Fault, NoFault, FreshSlot, DrainSlots
  <2>5. NoSlotLeak'
    BY <1>4 DEF TakeCapacity, At, Stop, IdleDrain, Drain, Trim, UsedSlots, Fault, NoFault, NoSlotLeak, DrainSlots
  <2>. QED
    BY <2>1, <2>2, <2>3, <2>4, <2>5
<1>5. ASSUME NEW c \in Campaigns, TakeOrgSlot(c) PROVE SlotInv'
  <2>1. RunLife'
    BY <1>5 DEF TakeOrgSlot, At, Goto, Drain, Trim, Fault, NoFault, RunLife
  <2>2. StartIdle'
    BY <1>5 DEF TakeOrgSlot, At, Goto, Drain, Trim, Fault, NoFault, StartIdle
  <2>3. DrainSlots'
    BY <1>5 DEF TakeOrgSlot, At, Goto, Drain, Trim, Fault, NoFault, DrainSlots
  <2>4. FreshSlot'
    BY <1>5 DEF TakeOrgSlot, At, Goto, Drain, Trim, Fault, NoFault, FreshSlot, DrainSlots
  <2>5. NoSlotLeak'
    BY <1>5 DEF TakeOrgSlot, At, Goto, Drain, Trim, Fault, NoFault, NoSlotLeak, DrainSlots
  <2>. QED
    BY <2>1, <2>2, <2>3, <2>4, <2>5
<1>6. ASSUME NEW c \in Campaigns, DropCapacity(c) PROVE SlotInv'
  <2>1. RunLife'
    BY <1>6 DEF DropCapacity, At, Stop, IdleDrain, Drain, Fault, NoFault, RunLife
  <2>2. StartIdle'
    BY <1>6 DEF DropCapacity, At, Stop, IdleDrain, Drain, Fault, NoFault, StartIdle
  <2>3. DrainSlots'
    BY <1>6 DEF DropCapacity, At, Stop, IdleDrain, Drain, Fault, NoFault, DrainSlots
  <2>4. FreshSlot'
    BY <1>6 DEF DropCapacity, At, Stop, IdleDrain, Drain, Fault, NoFault, FreshSlot, DrainSlots
  <2>5. NoSlotLeak'
    BY <1>6 DEF DropCapacity, At, Stop, IdleDrain, Drain, Fault, NoFault, NoSlotLeak, DrainSlots, FreshSlot
  <2>. QED
    BY <2>1, <2>2, <2>3, <2>4, <2>5
<1>7. ASSUME NEW c \in Campaigns, Dial(c) PROVE SlotInv'
  <2>1. RunLife'
    BY <1>7 DEF Dial, At, ReleaseThen, Drain, RunLife, DialInv, HeldUndialed, DrainOK, Holding, HasRow, Dialed
  <2>2. StartIdle'
    BY <1>7 DEF Dial, At, ReleaseThen, Drain, StartIdle
  <2>3. DrainSlots'
    BY <1>7 DEF Dial, At, ReleaseThen, Drain, DrainSlots
  <2>4. FreshSlot'
    BY <1>7 DEF Dial, At, ReleaseThen, Drain, FreshSlot, DrainSlots
  <2>5. NoSlotLeak'
    <3>1. drain[c].run \in Runs /\ call[drain[c].run] = "none" /\ fin[drain[c].run] = "none"
      BY <1>7 DEF Dial, At, RunLife, DialInv, HeldUndialed, DrainOK, Holding, HasRow, Dialed
    <3>2. \A k \in Campaigns \ {c} : drain'[k] = drain[k]
      BY <1>7 DEF Dial, ReleaseThen
    <3>3. \A x \in Runs : x # drain[c].run => call'[x] = call[x] /\ callSlot'[x] = callSlot[x]
      BY <1>7 DEF Dial
    <3>4. \/ drain'[c].slot = drain[c].slot
          \/ call'[drain[c].run] = "ringing" /\ callSlot'[drain[c].run] = drain[c].slot
      BY <1>7, <3>1 DEF Dial, ReleaseThen, Drain
    <3>5. UNCHANGED <<fin, orgSlots, capSlots>>
      BY <1>7 DEF Dial
    <3>6. ASSUME Clean', NEW s \in orgSlots \cup capSlots
          PROVE  \/ \E k \in Campaigns : drain'[k].slot = s
                 \/ \E x \in Runs : callSlot'[x] = s /\ (Live(x)' \/ fin'[x] = "release")
      <4>1. CASE \E k \in Campaigns : drain[k].slot = s
        BY <4>1, <3>1, <3>2, <3>4
      <4>2. CASE \E x \in Runs : callSlot[x] = s /\ (Live(x) \/ fin[x] = "release")
        BY <4>2, <3>1, <3>3, <3>5
      <4>. QED
        BY <3>6, <4>1, <4>2 DEF NoSlotLeak
    <3>. QED
      BY <3>5, <3>6 DEF NoSlotLeak
  <2>. QED
    BY <2>1, <2>2, <2>3, <2>4, <2>5
<1>8. ASSUME NEW c \in Campaigns, DrainRelease(c) PROVE SlotInv'
  <2>1. RunLife'
    BY <1>8 DEF DrainRelease, At, AfterRelease, ReleaseSlot, IdleDrain, Drain, Fault, NoFault, RunLife
  <2>2. StartIdle'
    BY <1>8 DEF DrainRelease, At, AfterRelease, ReleaseSlot, IdleDrain, Drain, Fault, NoFault, StartIdle
  <2>3. DrainSlots'
    BY <1>8 DEF DrainRelease, At, AfterRelease, ReleaseSlot, IdleDrain, Drain, Fault, NoFault, DrainSlots
  <2>4. FreshSlot'
    BY <1>8 DEF DrainRelease, At, AfterRelease, ReleaseSlot, IdleDrain, Drain, Fault, NoFault, FreshSlot, DrainSlots
  <2>5. NoSlotLeak'
    BY <1>8 DEF DrainRelease, At, AfterRelease, ReleaseSlot, IdleDrain, Drain, Fault, NoFault, NoSlotLeak, DrainSlots
  <2>. QED
    BY <2>1, <2>2, <2>3, <2>4, <2>5
<1>9. ASSUME NEW r \in Runs, FinMove(r) PROVE SlotInv'
  <2>1. RunLife'
    BY <1>9 DEF FinMove, RunLife
  <2>2. StartIdle'
    BY <1>9 DEF FinMove, StartIdle
  <2>3. DrainSlots'
    BY <1>9 DEF FinMove, DrainSlots
  <2>4. FreshSlot'
    BY <1>9 DEF FinMove, FreshSlot, DrainSlots
  <2>5. NoSlotLeak'
    BY <1>9 DEF FinMove, NoSlotLeak, DrainSlots
  <2>. QED
    BY <2>1, <2>2, <2>3, <2>4, <2>5
<1>10. ASSUME NEW r \in Runs, FinRelease(r) PROVE SlotInv'
  <2>1. RunLife'
    BY <1>10 DEF FinRelease, FinGoto, ReleaseSlot, Fault, NoFault, RunLife
  <2>2. StartIdle'
    BY <1>10 DEF FinRelease, FinGoto, ReleaseSlot, Fault, NoFault, StartIdle
  <2>3. DrainSlots'
    BY <1>10 DEF FinRelease, FinGoto, ReleaseSlot, Fault, NoFault, DrainSlots
  <2>4. FreshSlot'
    BY <1>10 DEF FinRelease, FinGoto, ReleaseSlot, Fault, NoFault, FreshSlot, DrainSlots
  <2>5. NoSlotLeak'
    BY <1>10 DEF FinRelease, FinGoto, ReleaseSlot, Fault, NoFault, NoSlotLeak, DrainSlots
  <2>. QED
    BY <2>1, <2>2, <2>3, <2>4, <2>5
<1>11. ASSUME NEW r \in Runs, Answered(r) PROVE SlotInv'
  <2>1. RunLife'
    BY <1>11 DEF Answered, RunLife
  <2>2. StartIdle'
    BY <1>11 DEF Answered, StartIdle
  <2>3. DrainSlots'
    BY <1>11 DEF Answered, DrainSlots
  <2>4. FreshSlot'
    BY <1>11 DEF Answered, FreshSlot, DrainSlots
  <2>5. NoSlotLeak'
    BY <1>11 DEF Answered, NoSlotLeak, DrainSlots
  <2>. QED
    BY <2>1, <2>2, <2>3, <2>4, <2>5
<1>12. ASSUME NEW r \in Runs, Unanswered(r) PROVE SlotInv'
  <2>1. RunLife'
    BY <1>12 DEF Unanswered, Done, FinGoto, RunLife
  <2>2. StartIdle'
    BY <1>12 DEF Unanswered, Done, FinGoto, StartIdle
  <2>3. DrainSlots'
    BY <1>12 DEF Unanswered, Done, FinGoto, DrainSlots
  <2>4. FreshSlot'
    BY <1>12 DEF Unanswered, Done, FinGoto, FreshSlot, DrainSlots
  <2>5. NoSlotLeak'
    BY <1>12 DEF Unanswered, Done, FinGoto, NoSlotLeak, DrainSlots
  <2>. QED
    BY <2>1, <2>2, <2>3, <2>4, <2>5
<1>13. ASSUME NEW r \in Runs, HungUp(r) PROVE SlotInv'
  <2>1. RunLife'
    BY <1>13 DEF HungUp, Done, FinGoto, RunLife
  <2>2. StartIdle'
    BY <1>13 DEF HungUp, Done, FinGoto, StartIdle
  <2>3. DrainSlots'
    BY <1>13 DEF HungUp, Done, FinGoto, DrainSlots
  <2>4. FreshSlot'
    BY <1>13 DEF HungUp, Done, FinGoto, FreshSlot, DrainSlots
  <2>5. NoSlotLeak'
    BY <1>13 DEF HungUp, Done, FinGoto, NoSlotLeak, DrainSlots
  <2>. QED
    BY <2>1, <2>2, <2>3, <2>4, <2>5
<1>14. ASSUME RunMove PROVE SlotInv'
  <2>1. RunLife'
    BY <1>14 DEF RunMove, RunLife
  <2>2. StartIdle'
    BY <1>14 DEF RunMove, StartIdle
  <2>3. DrainSlots'
    BY <1>14 DEF RunMove, DrainSlots
  <2>4. FreshSlot'
    BY <1>14 DEF RunMove, FreshSlot, DrainSlots
  <2>5. NoSlotLeak'
    BY <1>14 DEF RunMove, NoSlotLeak, DrainSlots
  <2>. QED
    BY <2>1, <2>2, <2>3, <2>4, <2>5
<1>15. ASSUME Crash PROVE SlotInv'
  <2>1. RunLife'
    BY <1>15 DEF Crash, IdleDrain, Drain, RunLife
  <2>2. StartIdle'
    BY <1>15 DEF Crash, IdleDrain, Drain, StartIdle
  <2>3. DrainSlots'
    BY <1>15 DEF Crash, IdleDrain, Drain, DrainSlots
  <2>4. FreshSlot'
    BY <1>15 DEF Crash, IdleDrain, Drain, FreshSlot, Clean, DrainSlots
  <2>5. NoSlotLeak'
    BY <1>15 DEF Crash, IdleDrain, Drain, NoSlotLeak, Clean, DrainSlots
  <2>. QED
    BY <2>1, <2>2, <2>3, <2>4, <2>5
<1>16. ASSUME NEW s \in SlotIds, SlotAges(s) PROVE SlotInv'
  <2>1. RunLife'
    BY <1>16 DEF SlotAges, RunLife
  <2>2. StartIdle'
    BY <1>16 DEF SlotAges, StartIdle
  <2>3. DrainSlots'
    BY <1>16 DEF SlotAges, DrainSlots
  <2>4. FreshSlot'
    BY <1>16 DEF SlotAges, FreshSlot, DrainSlots
  <2>5. NoSlotLeak'
    BY <1>16 DEF SlotAges, NoSlotLeak, DrainSlots
  <2>. QED
    BY <2>1, <2>2, <2>3, <2>4, <2>5
<1>. QED
  BY <1>1, <1>3, <1>4, <1>5, <1>6, <1>7, <1>8, <1>9, <1>10, <1>11, <1>12, <1>13, <1>14, <1>15, <1>16 DEF SlotStep

\* The invariant on the slots is inductive.
LEMMA SlotsInductive == Spec => []SlotInv
<1>1. Init => SlotInv
  BY DEF Init, SlotInv, RunLife, StartIdle, DrainSlots, FreshSlot, NoSlotLeak, SlotPcs, Live, IdleDrain, Drain
<1>. QED
  BY <1>1, SlotInvStep, Inductive, PTL DEF Spec

\* While no command has failed and the process has not died, no slot is left
\* behind: every slot in Redis is released by a drain goroutine (releaseSlot,
\* dropCapacity) or by the end of a call (finished).
THEOREM NoSlotLeftBehind == Spec => []NoSlotLeak
<1>1. SlotInv => NoSlotLeak
  BY DEF SlotInv
<1>. QED
  BY SlotsInductive, <1>1, PTL

-----------------------------------------------------------------------------
\* A step of drain goroutine c that is neither about to dial nor dialing.
LEMMA AccountedFrame ==
    ASSUME Accounted, liveRuns \subseteq Runs, NEW c \in Campaigns, drain[c].pc # "dial", drain'[c].pc # "dial",
           \A k \in Campaigns \ {c} : drain'[k] = drain[k],
           UNCHANGED <<fin, call, liveRuns, runState>>
    PROVE  Accounted'
<1>1. \A r \in Runs : Dialing(r)' <=> Dialing(r)
  BY DEF Dialing
<1>. QED
  BY <1>1 DEF Accounted, Pending, Live

\* The run a drain goroutine is about to dial is its own, and no call yet.
LEMMA DialFresh ==
    ASSUME DrainOK, DialInv, RunLife, NEW c \in Campaigns, drain[c].pc = "dial"
    PROVE  /\ drain[c].run \in Runs /\ CampaignOfRun(drain[c].run) = c
           /\ call[drain[c].run] = "none" /\ fin[drain[c].run] = "none"
           /\ runState[drain[c].run] # "none"
           /\ \A k \in Campaigns : drain[k].pc = "dial" /\ drain[k].run = drain[c].run => k = c
<1>1. /\ drain[c].run \in Runs /\ drain[c].run[1] = drain[c].row
      /\ drain[c].row \in Rows /\ CampaignOfRow(drain[c].row) = c
  BY DEF DrainOK, HasRow
<1>2. CampaignOfRun(drain[c].run) = c
  BY <1>1 DEF CampaignOfRow, CampaignOfRun
<1>3. call[drain[c].run] = "none" /\ runState[drain[c].run] # "none"
  BY <1>1 DEF DialInv, HeldUndialed, DialHasRun, Holding, Dialed
<1>4. \A k \in Campaigns : drain[k].pc = "dial" /\ drain[k].run = drain[c].run => k = c
  BY <1>1 DEF DrainOK, HasRow
<1>. QED
  BY <1>1, <1>2, <1>3, <1>4 DEF RunLife

\* Every run the runner answers for is in liveRuns, and nothing else is.
LEMMA AccountedStep ==
    ASSUME ~DoneAfterDialError, TypeOK, DrainOK, DialInv, SlotInv, Accounted, [Next]_vars
    PROVE  Accounted'
<1>0. /\ drain \in [Campaigns -> DrainRecords] /\ fin \in [Runs -> FinPcs]
      /\ call \in [Runs -> {"none", "ringing", "up", "over"}]
      /\ runState \in [Runs -> RunStates]
      /\ liveRuns \subseteq Runs
  BY DEF TypeOK
<1>. USE DialerAssumption, <1>0 DEF vars, dbVars, redisVars, procVars, callVars, boundVars,
       Accounted, Pending, Dialing, Live, DrainPcs, DrainRecords, RunStates
<1>1. ASSUME NEW c \in Campaigns, Scan(c) PROVE Accounted'
  BY <1>1 DEF Scan, GatesDrain, Drain
<1>2. ASSUME NEW c \in Campaigns, GatesPass(c) PROVE Accounted'
  BY <1>2 DEF GatesPass, At, Goto, Drain
<1>3. ASSUME NEW c \in Campaigns, GatesStop(c) PROVE Accounted'
  BY <1>3 DEF GatesStop, At, Stop, IdleDrain, Drain
<1>4. ASSUME NEW c \in Campaigns, GatesTrip(c) PROVE Accounted'
  BY <1>4 DEF GatesTrip, At, Goto, Drain
<1>5. ASSUME NEW c \in Campaigns, GatesPause(c) PROVE Accounted'
  BY <1>5 DEF GatesPause, At, Stop, IdleDrain, Drain
<1>6. ASSUME NEW c \in Campaigns, TakeCapacity(c) PROVE Accounted'
  <2>1. drain[c].pc # "dial" /\ drain'[c].pc # "dial"
    BY <1>6 DEF TakeCapacity, At, Stop, IdleDrain, Drain
  <2>2. \A k \in Campaigns \ {c} : drain'[k] = drain[k]
    BY <1>6 DEF TakeCapacity, At, Stop, IdleDrain, Drain
  <2>. QED
    BY <1>6, <2>1, <2>2, AccountedFrame DEF TakeCapacity
<1>7. ASSUME NEW c \in Campaigns, TakeOrgSlot(c) PROVE Accounted'
  <2>1. drain[c].pc # "dial" /\ drain'[c].pc # "dial"
    BY <1>7 DEF TakeOrgSlot, At, Goto, Drain
  <2>2. \A k \in Campaigns \ {c} : drain'[k] = drain[k]
    BY <1>7 DEF TakeOrgSlot, At, Goto, Drain
  <2>. QED
    BY <1>7, <2>1, <2>2, AccountedFrame DEF TakeOrgSlot
<1>8. ASSUME NEW c \in Campaigns, DropCapacity(c) PROVE Accounted'
  BY <1>8 DEF DropCapacity, At, Stop, IdleDrain, Drain
<1>9. ASSUME NEW c \in Campaigns, ClaimRun(c) PROVE Accounted'
  BY <1>9 DEF ClaimRun, At, ReleaseThen, Drain
<1>10. ASSUME NEW c \in Campaigns, Place(c) PROVE Accounted'
  BY <1>10 DEF Place, At, ReleaseThen, Goto, Drain
<1>11. ASSUME NEW c \in Campaigns, ProviderPause(c) PROVE Accounted'
  BY <1>11 DEF ProviderPause, At, Goto, Drain
<1>12. ASSUME NEW c \in Campaigns, CreateOutboundRun(c) PROVE Accounted'
  BY <1>12 DEF CreateOutboundRun, At, ReleaseThen, Drain
<1>13. ASSUME NEW c \in Campaigns, Dial(c) PROVE Accounted'
  <2>. DEFINE r == drain[c].run
  <2>1. /\ drain[c].pc = "dial" /\ r \in Runs /\ call[r] = "none" /\ fin[r] = "none"
        /\ runState[r] # "none"
        /\ \A k \in Campaigns : drain[k].pc = "dial" /\ drain[k].run = r => k = c
    BY <1>13, DialFresh DEF Dial, At, SlotInv
  <2>2. \A k \in Campaigns \ {c} : drain'[k] = drain[k]
    BY <1>13 DEF Dial, ReleaseThen
  <2>3. drain'[c].pc # "dial"
    BY <1>13 DEF Dial, ReleaseThen, Drain
  <2>4. \A x \in Runs : Dialing(x)' <=> Dialing(x) /\ x # r
    <3>1. ASSUME NEW x \in Runs, NEW k \in Campaigns, drain'[k].pc = "dial", drain'[k].run = x
          PROVE  Dialing(x) /\ x # r
      BY <2>1, <2>2, <2>3, <3>1
    <3>2. ASSUME NEW x \in Runs, x # r, NEW k \in Campaigns, drain[k].pc = "dial", drain[k].run = x
          PROVE  Dialing(x)'
      BY <2>2, <3>2
    <3>. QED
      BY <3>1, <3>2
  <2>5. \A x \in Runs : x # r => call'[x] = call[x]
    BY <1>13 DEF Dial
  <2>6. UNCHANGED <<fin, runState>>
    BY <1>13 DEF Dial
  <2>7. \/ call'[r] = "ringing" /\ liveRuns' = liveRuns
        \/ call'[r] = "over" /\ liveRuns' = liveRuns \ {r}
    BY <1>13, <2>1 DEF Dial
  <2>8. Dialing(r)
    BY <2>1
  <2>. HIDE DEF Dialing, r
  <2>. QED
    BY <2>1, <2>4, <2>5, <2>6, <2>7, <2>8
<1>14. ASSUME NEW c \in Campaigns, DrainRelease(c) PROVE Accounted'
  BY <1>14 DEF DrainRelease, At, AfterRelease, IdleDrain, Drain
<1>15. ASSUME NEW c \in Campaigns, DrainOutcome(c) PROVE Accounted'
  <2>1. drain[c].pc # "dial" /\ drain'[c].pc # "dial"
    BY <1>15 DEF DrainOutcome, At, Goto, Drain
  <2>2. \A k \in Campaigns \ {c} : drain'[k] = drain[k]
    BY <1>15 DEF DrainOutcome, At, Goto, Drain
  <2>. QED
    BY <1>15, <2>1, <2>2, AccountedFrame DEF DrainOutcome
<1>16. ASSUME NEW c \in Campaigns, DrainTripped(c) PROVE Accounted'
  BY <1>16 DEF DrainTripped, At, Goto, Drain
<1>17. ASSUME NEW c \in Campaigns, DrainMarkNotConnected(c) PROVE Accounted'
  BY <1>17 DEF DrainMarkNotConnected, At, CompleteRun, Goto, Drain
<1>18. ASSUME NEW c \in Campaigns, SetRow(c) PROVE Accounted'
  BY <1>18 DEF SetRow, At, IdleDrain, GatesDrain, Drain
<1>19. ASSUME NEW c \in Campaigns, FirstInflightCheck(c) PROVE Accounted'
  <2>1. drain[c].pc # "dial" /\ drain'[c].pc # "dial"
    BY <1>19 DEF FirstInflightCheck, CheckInflight, At, Stop, IdleDrain, Goto, Drain
  <2>2. \A k \in Campaigns \ {c} : drain'[k] = drain[k]
    BY <1>19 DEF FirstInflightCheck, CheckInflight, At, Stop, IdleDrain, Goto, Drain
  <2>. QED
    BY <1>19, <2>1, <2>2, AccountedFrame DEF FirstInflightCheck, CheckInflight
<1>20. ASSUME NEW c \in Campaigns, OpenWork(c) PROVE Accounted'
  <2>1. drain[c].pc # "dial" /\ drain'[c].pc # "dial"
    BY <1>20 DEF OpenWork, At, Stop, IdleDrain, Goto, Drain
  <2>2. \A k \in Campaigns \ {c} : drain'[k] = drain[k]
    BY <1>20 DEF OpenWork, At, Stop, IdleDrain, Goto, Drain
  <2>. QED
    BY <1>20, <2>1, <2>2, AccountedFrame DEF OpenWork
<1>21. ASSUME NEW c \in Campaigns, SecondInflightCheck(c) PROVE Accounted'
  <2>1. drain[c].pc # "dial" /\ drain'[c].pc # "dial"
    BY <1>21 DEF SecondInflightCheck, CheckInflight, At, Stop, IdleDrain, Goto, Drain
  <2>2. \A k \in Campaigns \ {c} : drain'[k] = drain[k]
    BY <1>21 DEF SecondInflightCheck, CheckInflight, At, Stop, IdleDrain, Goto, Drain
  <2>. QED
    BY <1>21, <2>1, <2>2, AccountedFrame DEF SecondInflightCheck, CheckInflight
<1>22. ASSUME NEW c \in Campaigns, CompleteCampaign(c) PROVE Accounted'
  BY <1>22 DEF CompleteCampaign, At, Stop, IdleDrain, Drain
<1>23. ASSUME NEW c \in Campaigns, UIPause(c) PROVE Accounted'
  BY <1>23 DEF UIPause
<1>24. ASSUME NEW c \in Campaigns, UIResume(c) PROVE Accounted'
  BY <1>24 DEF UIResume
<1>25. ASSUME NEW r \in Runs, FinRelease(r) PROVE Accounted'
  BY <1>25 DEF FinRelease, FinGoto
<1>26. ASSUME NEW r \in Runs, FinOutcome(r) PROVE Accounted'
  BY <1>26 DEF FinOutcome, FinGoto, AfterOutcome, SlotInv, RunLife
<1>27. ASSUME NEW r \in Runs, FinTripped(r) PROVE Accounted'
  BY <1>27 DEF FinTripped, FinGoto, AfterOutcome, SlotInv, RunLife
<1>28. ASSUME NEW r \in Runs, FinRetry(r) PROVE Accounted'
  BY <1>28 DEF FinRetry, FinGoto
<1>29. ASSUME NEW r \in Runs, FinMarkNotConnected(r) PROVE Accounted'
  BY <1>29 DEF FinMarkNotConnected, CompleteRun, FinGoto
<1>30. ASSUME NEW r \in Runs, FinEnd(r) PROVE Accounted'
  <2>1. ~Live(r) /\ ~Dialing(r) /\ fin'[r] = "none"
    BY <1>30, DialFresh DEF FinEnd, FinGoto, SlotInv, RunLife
  <2>2. \A x \in Runs \ {r} : fin'[x] = fin[x]
    BY <1>30 DEF FinEnd, FinGoto
  <2>3. liveRuns' = liveRuns \ {r} /\ UNCHANGED <<drain, call, runState>>
    BY <1>30 DEF FinEnd
  <2>4. \A x \in Runs : (Dialing(x)' <=> Dialing(x)) /\ (Live(x)' <=> Live(x))
    BY <2>3
  <2>. HIDE DEF Dialing, Live
  <2>. QED
    BY <2>1, <2>2, <2>3, <2>4
<1>31. ASSUME NEW r \in Runs, AgentStarted(r) PROVE Accounted'
  BY <1>31 DEF AgentStarted
<1>32. ASSUME NEW r \in Runs, MarkRunRunning(r) PROVE Accounted'
  BY <1>32 DEF MarkRunRunning, CompleteRun
<1>33. ASSUME NEW r \in Runs, FinishRun(r) PROVE Accounted'
  BY <1>33 DEF FinishRun, CompleteRun
<1>34. ASSUME NEW r \in Runs, Answered(r) PROVE Accounted'
  BY <1>34 DEF Answered
<1>35. ASSUME NEW r \in Runs, Unanswered(r) PROVE Accounted'
  BY <1>35 DEF Unanswered, Done, FinGoto
<1>36. ASSUME NEW r \in Runs, HungUp(r) PROVE Accounted'
  BY <1>36 DEF HungUp, Done, FinGoto
<1>37. ASSUME NEW r \in Runs, SweepMark(r) PROVE Accounted'
  BY <1>37 DEF SweepMark, CompleteRun
<1>38. ASSUME NEW r \in Runs, RunGetsOld(r) PROVE Accounted'
  BY <1>38 DEF RunGetsOld
<1>39. ASSUME RecoverContacts PROVE Accounted'
  BY <1>39 DEF RecoverContacts
<1>40. ASSUME SweepQuery PROVE Accounted'
  BY <1>40 DEF SweepQuery
<1>41. ASSUME SweepEnd PROVE Accounted'
  BY <1>41 DEF SweepEnd
<1>42. ASSUME SweepSnapshot PROVE Accounted'
  BY <1>42 DEF SweepSnapshot
<1>43. ASSUME Crash PROVE Accounted'
  BY <1>43 DEF Crash, IdleDrain, Drain
<1>44. ASSUME NEW q \in Rows, RetryDue(q) PROVE Accounted'
  BY <1>44 DEF RetryDue
<1>45. ASSUME NEW s \in SlotIds, SlotAges(s) PROVE Accounted'
  BY <1>45 DEF SlotAges
<1>46. ASSUME NEW c \in Campaigns, Scan(c) \/ GatesPass(c) \/ GatesStop(c) \/ DrainStep(c) PROVE Accounted'
  BY <1>46, <1>1, <1>2, <1>3, <1>4, <1>5, <1>6, <1>7, <1>8, <1>9, <1>10, <1>11, <1>12, <1>13,
     <1>14, <1>15, <1>16, <1>17, <1>18, <1>19, <1>20, <1>21, <1>22 DEF DrainStep
<1>47. ASSUME NEW r \in Runs, FinStep(r) \/ AgentStep(r) PROVE Accounted'
  BY <1>47, <1>25, <1>26, <1>27, <1>28, <1>29, <1>30, <1>31, <1>32, <1>33 DEF FinStep, AgentStep
<1>48. ASSUME RunStep PROVE Accounted'
  BY <1>48, <1>39, <1>40, <1>41, <1>37 DEF RunStep
<1>49. CASE UNCHANGED vars
  BY <1>49
<1>50. ASSUME Next PROVE Accounted'
  BY <1>50, <1>46, <1>47, <1>48, <1>34, <1>35, <1>36, <1>23, <1>24, <1>44, <1>38, <1>45, <1>42,
     <1>43 DEF Next
<1>. QED
  BY <1>49, <1>50

\* Who writes the runner's account of its calls.
LEMMA LiveWriters ==
    [Next]_vars => \/ UNCHANGED <<liveRuns, inflight>>
                   \/ \E c \in Campaigns : CreateOutboundRun(c) \/ Dial(c)
                   \/ (\E r \in Runs : FinEnd(r)) \/ Crash
<1>. DEFINE Same == UNCHANGED <<liveRuns, inflight>>
<1>. USE DEF vars, procVars
<1>1. ASSUME NEW c \in Campaigns, Scan(c) \/ GatesPass(c) \/ GatesStop(c) \/ DrainStep(c)
      PROVE  Same \/ CreateOutboundRun(c) \/ Dial(c)
  BY <1>1 DEF DrainStep, Scan, GatesPass, GatesStop, GatesTrip, GatesPause, TakeCapacity, TakeOrgSlot,
       DropCapacity, ClaimRun, Place, ProviderPause, DrainRelease, DrainOutcome, DrainTripped,
       DrainMarkNotConnected, SetRow, FirstInflightCheck, SecondInflightCheck, CheckInflight,
       OpenWork, CompleteCampaign
<1>2. ASSUME NEW r \in Runs, \/ FinStep(r) \/ AgentStep(r) \/ Answered(r) \/ Unanswered(r)
                             \/ HungUp(r) \/ SweepMark(r) \/ RunGetsOld(r)
      PROVE  Same \/ FinEnd(r)
  BY <1>2 DEF FinStep, AgentStep, FinRelease, FinOutcome, FinTripped, FinRetry, FinMarkNotConnected,
       AgentStarted, MarkRunRunning, FinishRun, Answered, Unanswered, HungUp, Done, SweepMark, RunGetsOld
<1>3. ASSUME RecoverContacts \/ SweepQuery \/ SweepEnd \/ SweepSnapshot PROVE Same
  BY <1>3 DEF RecoverContacts, SweepQuery, SweepEnd, SweepSnapshot
<1>4. ASSUME NEW c \in Campaigns, UIPause(c) \/ UIResume(c) PROVE Same
  BY <1>4 DEF UIPause, UIResume
<1>5. ASSUME NEW q \in Rows, RetryDue(q) PROVE Same
  BY <1>5 DEF RetryDue
<1>6. ASSUME NEW s \in SlotIds, SlotAges(s) PROVE Same
  BY <1>6 DEF SlotAges
<1>. QED
  BY <1>1, <1>2, <1>3, <1>4, <1>5, <1>6 DEF Next, RunStep

\* One more run in liveRuns is one more call in flight, and one less is one less.
LEMMA LiveGained ==
    ASSUME Counted, liveRuns \subseteq Runs, inflight \in [Campaigns -> Nat],
           NEW r \in Runs, r \notin liveRuns,
           liveRuns' = liveRuns \cup {r}, AddInflight(CampaignOfRun(r), 1)
    PROVE  Counted'
<1>1. IsFiniteSet(liveRuns')
  BY FS_AddElement DEF Counted
<1>2. ASSUME NEW c \in Campaigns PROVE inflight'[c] = Cardinality(LiveOf(c)')
  <2>1. IsFiniteSet(LiveOf(c)) /\ Cardinality(LiveOf(c)) \in Nat
    BY FS_Subset, FS_CardinalityType DEF Counted, LiveOf
  <2>2. inflight[c] = Cardinality(LiveOf(c))
    BY DEF Counted
  <2>3. CASE c = CampaignOfRun(r)
    <3>1. LiveOf(c)' = LiveOf(c) \cup {r} /\ r \notin LiveOf(c)
      BY <2>3 DEF LiveOf
    <3>2. Cardinality(LiveOf(c)') = Cardinality(LiveOf(c)) + 1
      BY <2>1, <3>1, FS_AddElement
    <3>3. inflight'[c] = inflight[c] + 1
      BY <2>3 DEF AddInflight
    <3>. QED
      BY <2>2, <3>2, <3>3
  <2>4. CASE c # CampaignOfRun(r)
    <3>1. LiveOf(c)' = LiveOf(c)
      BY <2>4 DEF LiveOf
    <3>2. inflight'[c] = inflight[c]
      BY <2>4 DEF AddInflight
    <3>. QED
      BY <2>2, <3>1, <3>2
  <2>. QED
    BY <2>3, <2>4
<1>. QED
  BY <1>1, <1>2 DEF Counted

\* A run that ends takes its calls out of its campaign's count.
LEMMA LiveLost ==
    ASSUME Counted, liveRuns \subseteq Runs, inflight \in [Campaigns -> Nat],
           NEW r \in Runs, r \in liveRuns,
           liveRuns' = liveRuns \ {r}, AddInflight(CampaignOfRun(r), -1)
    PROVE  Counted'
<1>1. IsFiniteSet(liveRuns')
  BY FS_RemoveElement DEF Counted
<1>2. ASSUME NEW c \in Campaigns PROVE inflight'[c] = Cardinality(LiveOf(c)')
  <2>1. IsFiniteSet(LiveOf(c)) /\ Cardinality(LiveOf(c)) \in Nat
    BY FS_Subset, FS_CardinalityType DEF Counted, LiveOf
  <2>2. inflight[c] = Cardinality(LiveOf(c))
    BY DEF Counted
  <2>3. CASE c = CampaignOfRun(r)
    <3>1. LiveOf(c)' = LiveOf(c) \ {r} /\ r \in LiveOf(c)
      BY <2>3 DEF LiveOf
    <3>2. Cardinality(LiveOf(c)') = Cardinality(LiveOf(c)) - 1
      BY <2>1, <3>1, FS_RemoveElement
    <3>3. Cardinality(LiveOf(c)') \in Nat
      <4>1. IsFiniteSet(LiveOf(c)')
        BY <2>1, <3>1, FS_RemoveElement
      <4>. QED
        BY <4>1, FS_CardinalityType
    <3>4. inflight'[c] = IF inflight[c] - 1 <= 0 THEN 0 ELSE inflight[c] - 1
      BY <2>3 DEF AddInflight
    <3>. QED
      BY <2>1, <2>2, <3>2, <3>3, <3>4
  <2>4. CASE c # CampaignOfRun(r)
    <3>1. LiveOf(c)' = LiveOf(c)
      BY <2>4 DEF LiveOf
    <3>2. inflight'[c] = inflight[c]
      BY <2>4 DEF AddInflight
    <3>. QED
      BY <2>2, <3>1, <3>2
  <2>. QED
    BY <2>3, <2>4
<1>. QED
  BY <1>1, <1>2 DEF Counted

\* A call that has to be accounted for is in flight.
LEMMA PendingInFlight ==
    ASSUME Accounted, Counted, liveRuns \subseteq Runs, NEW r \in Runs, Pending(r)
    PROVE  inflight[CampaignOfRun(r)] > 0
<1>. DEFINE c == CampaignOfRun(r)
<1>1. c \in Campaigns
  BY CampaignType
<1>2. r \in LiveOf(c)
  BY DEF LiveOf, Accounted
<1>3. IsFiniteSet(LiveOf(c))
  BY FS_Subset DEF Counted, LiveOf
<1>4. Cardinality(LiveOf(c)) \in Nat /\ Cardinality(LiveOf(c)) # 0
  BY <1>2, <1>3, FS_CardinalityType, FS_EmptySet
<1>. QED
  BY <1>1, <1>4 DEF Counted

\* inflight counts the runs in liveRuns, campaign by campaign.
LEMMA CountedStep ==
    ASSUME ~DoneAfterDialError, TypeOK, DrainOK, DialInv, SlotInv, Accounted, Counted, [Next]_vars
    PROVE  Counted'
<1>0. liveRuns \subseteq Runs /\ inflight \in [Campaigns -> Nat]
  BY DEF TypeOK
<1>1. ASSUME UNCHANGED <<liveRuns, inflight>> PROVE Counted'
  BY <1>1 DEF Counted, LiveOf
<1>2. ASSUME NEW c \in Campaigns, CreateOutboundRun(c) PROVE Counted'
  <2>1. CASE UNCHANGED <<liveRuns, inflight>>
    BY <2>1, <1>1
  <2>2. CASE \E r \in Runs : IsNextRun(drain[c].row, r) /\ AddInflight(c, 1) /\ liveRuns' = liveRuns \cup {r}
    <3>1. PICK r \in Runs : IsNextRun(drain[c].row, r) /\ AddInflight(c, 1) /\ liveRuns' = liveRuns \cup {r}
      BY <2>2
    <3>2. r \notin liveRuns
      BY <3>1 DEF IsNextRun, Accounted
    <3>3. CampaignOfRun(r) = c
      BY <1>2, <3>1 DEF CreateOutboundRun, At, IsNextRun, DrainOK, HasRow, CampaignOfRow, CampaignOfRun
    <3>. QED
      BY <1>0, <3>1, <3>2, <3>3, LiveGained
  <2>. QED
    BY <1>2, <2>1, <2>2 DEF CreateOutboundRun
<1>3. ASSUME NEW c \in Campaigns, Dial(c) PROVE Counted'
  <2>1. /\ drain[c].run \in Runs /\ CampaignOfRun(drain[c].run) = c
        /\ drain[c].run \in liveRuns
    BY <1>3, DialFresh DEF Dial, At, SlotInv, Accounted, Pending, Dialing
  <2>2. \/ UNCHANGED <<liveRuns, inflight>>
        \/ AddInflight(c, -1) /\ liveRuns' = liveRuns \ {drain[c].run}
    BY <1>3 DEF Dial
  <2>3. CASE UNCHANGED <<liveRuns, inflight>>
    BY <2>3, <1>1
  <2>4. CASE AddInflight(c, -1) /\ liveRuns' = liveRuns \ {drain[c].run}
    BY <1>0, <2>1, <2>4, LiveLost
  <2>. QED
    BY <2>2, <2>3, <2>4
<1>4. ASSUME NEW r \in Runs, FinEnd(r) PROVE Counted'
  <2>1. r \in liveRuns
    BY <1>4 DEF FinEnd, Accounted, Pending
  <2>. QED
    BY <1>0, <1>4, <2>1, LiveLost DEF FinEnd
<1>5. ASSUME Crash PROVE Counted'
  <2>1. liveRuns' = {} /\ inflight' = [c \in Campaigns |-> 0]
    BY <1>5 DEF Crash
  <2>2. \A c \in Campaigns : LiveOf(c)' = {}
    BY <2>1 DEF LiveOf
  <2>. QED
    BY <2>1, <2>2, FS_EmptySet DEF Counted
<1>6. \/ UNCHANGED <<liveRuns, inflight>>
      \/ \E c \in Campaigns : CreateOutboundRun(c) \/ Dial(c)
      \/ (\E r \in Runs : FinEnd(r)) \/ Crash
  BY LiveWriters
<1>. QED
  BY <1>1, <1>2, <1>3, <1>4, <1>5, <1>6

\* After a failed dial the run's call is over, and stays so.
LEMMA DrainRunStep ==
    ASSUME ~DoneAfterDialError, TypeOK, DrainOK, DialInv, SlotInv, DrainRun, [Next]_vars
    PROVE  DrainRun'
<1>0. /\ drain \in [Campaigns -> DrainRecords]
      /\ call \in [Runs -> {"none", "ringing", "up", "over"}]
  BY DEF TypeOK
<1>. USE DialerAssumption, <1>0 DEF vars, procVars, callVars, DrainRun, RunPcs, DrainPcs, DrainRecords
<1>1. ASSUME NEW c \in Campaigns, Scan(c) PROVE DrainRun'
  BY <1>1 DEF Scan, GatesDrain, Drain
<1>2. ASSUME NEW c \in Campaigns, GatesPass(c) PROVE DrainRun'
  BY <1>2 DEF GatesPass, At, Goto, Drain
<1>3. ASSUME NEW c \in Campaigns, GatesStop(c) PROVE DrainRun'
  BY <1>3 DEF GatesStop, At, Stop, IdleDrain, Drain
<1>4. ASSUME NEW c \in Campaigns, GatesTrip(c) PROVE DrainRun'
  BY <1>4 DEF GatesTrip, At, Goto, Drain
<1>5. ASSUME NEW c \in Campaigns, GatesPause(c) PROVE DrainRun'
  BY <1>5 DEF GatesPause, At, Stop, IdleDrain, Drain
<1>6. ASSUME NEW c \in Campaigns, TakeCapacity(c) PROVE DrainRun'
  BY <1>6 DEF TakeCapacity, At, Stop, IdleDrain, Drain
<1>7. ASSUME NEW c \in Campaigns, TakeOrgSlot(c) PROVE DrainRun'
  BY <1>7 DEF TakeOrgSlot, At, Goto, Drain
<1>8. ASSUME NEW c \in Campaigns, DropCapacity(c) PROVE DrainRun'
  BY <1>8 DEF DropCapacity, At, Stop, IdleDrain, Drain
<1>9. ASSUME NEW c \in Campaigns, ClaimRun(c) PROVE DrainRun'
  BY <1>9 DEF ClaimRun, At, ReleaseThen, Drain
<1>10. ASSUME NEW c \in Campaigns, Place(c) PROVE DrainRun'
  BY <1>10 DEF Place, At, ReleaseThen, Goto, Drain
<1>11. ASSUME NEW c \in Campaigns, ProviderPause(c) PROVE DrainRun'
  BY <1>11 DEF ProviderPause, At, Goto, Drain
<1>12. ASSUME NEW c \in Campaigns, CreateOutboundRun(c) PROVE DrainRun'
  BY <1>12 DEF CreateOutboundRun, At, ReleaseThen, Drain
<1>13. ASSUME NEW c \in Campaigns, Dial(c) PROVE DrainRun'
  <2>1. drain[c].run \in Runs /\ call[drain[c].run] = "none"
    BY <1>13, DialFresh DEF Dial, At, SlotInv
  <2>2. \A k \in Campaigns : k # c => drain'[k] = drain[k]
    BY <1>13 DEF Dial, ReleaseThen
  <2>3. \A x \in Runs : call[x] = "over" => call'[x] = "over"
    BY <1>13, <2>1 DEF Dial
  <2>4. /\ drain'[c].run = drain[c].run /\ drain'[c].pc \in {"setrow", "release"}
        /\ drain'[c].pc = "release" => drain'[c].to = "failed"
        /\ drain'[c].to = "failed" => call'[drain[c].run] = "over"
    BY <1>13, <2>1 DEF Dial, ReleaseThen, Drain
  <2>. QED
    BY <2>1, <2>2, <2>3, <2>4
<1>14. ASSUME NEW c \in Campaigns, DrainRelease(c) PROVE DrainRun'
  BY <1>14 DEF DrainRelease, At, AfterRelease, IdleDrain, Drain
<1>15. ASSUME NEW c \in Campaigns, DrainOutcome(c) PROVE DrainRun'
  BY <1>15 DEF DrainOutcome, At, Goto, Drain
<1>16. ASSUME NEW c \in Campaigns, DrainTripped(c) PROVE DrainRun'
  BY <1>16 DEF DrainTripped, At, Goto, Drain
<1>17. ASSUME NEW c \in Campaigns, DrainMarkNotConnected(c) PROVE DrainRun'
  BY <1>17 DEF DrainMarkNotConnected, At, Goto, Drain
<1>18. ASSUME NEW c \in Campaigns, SetRow(c) PROVE DrainRun'
  BY <1>18 DEF SetRow, At, IdleDrain, GatesDrain, Drain
<1>19. ASSUME NEW c \in Campaigns, FirstInflightCheck(c) PROVE DrainRun'
  BY <1>19 DEF FirstInflightCheck, CheckInflight, At, Stop, IdleDrain, Goto, Drain
<1>20. ASSUME NEW c \in Campaigns, OpenWork(c) PROVE DrainRun'
  BY <1>20 DEF OpenWork, At, Stop, IdleDrain, Goto, Drain
<1>21. ASSUME NEW c \in Campaigns, SecondInflightCheck(c) PROVE DrainRun'
  BY <1>21 DEF SecondInflightCheck, CheckInflight, At, Stop, IdleDrain, Goto, Drain
<1>22. ASSUME NEW c \in Campaigns, CompleteCampaign(c) PROVE DrainRun'
  BY <1>22 DEF CompleteCampaign, At, Stop, IdleDrain, Drain
<1>23. ASSUME NEW c \in Campaigns, UIPause(c) PROVE DrainRun'
  BY <1>23 DEF UIPause
<1>24. ASSUME NEW c \in Campaigns, UIResume(c) PROVE DrainRun'
  BY <1>24 DEF UIResume
<1>25. ASSUME NEW r \in Runs, FinRelease(r) PROVE DrainRun'
  BY <1>25 DEF FinRelease, FinGoto
<1>26. ASSUME NEW r \in Runs, FinOutcome(r) PROVE DrainRun'
  BY <1>26 DEF FinOutcome, FinGoto
<1>27. ASSUME NEW r \in Runs, FinTripped(r) PROVE DrainRun'
  BY <1>27 DEF FinTripped, FinGoto
<1>28. ASSUME NEW r \in Runs, FinRetry(r) PROVE DrainRun'
  BY <1>28 DEF FinRetry, FinGoto
<1>29. ASSUME NEW r \in Runs, FinMarkNotConnected(r) PROVE DrainRun'
  BY <1>29 DEF FinMarkNotConnected, FinGoto
<1>30. ASSUME NEW r \in Runs, FinEnd(r) PROVE DrainRun'
  BY <1>30 DEF FinEnd, FinGoto
<1>31. ASSUME NEW r \in Runs, AgentStarted(r) PROVE DrainRun'
  BY <1>31 DEF AgentStarted
<1>32. ASSUME NEW r \in Runs, MarkRunRunning(r) PROVE DrainRun'
  BY <1>32 DEF MarkRunRunning
<1>33. ASSUME NEW r \in Runs, FinishRun(r) PROVE DrainRun'
  BY <1>33 DEF FinishRun
<1>34. ASSUME NEW r \in Runs, Answered(r) PROVE DrainRun'
  BY <1>34 DEF Answered
<1>35. ASSUME NEW r \in Runs, Unanswered(r) PROVE DrainRun'
  BY <1>35 DEF Unanswered, Done, FinGoto
<1>36. ASSUME NEW r \in Runs, HungUp(r) PROVE DrainRun'
  BY <1>36 DEF HungUp, Done, FinGoto
<1>37. ASSUME NEW r \in Runs, SweepMark(r) PROVE DrainRun'
  BY <1>37 DEF SweepMark
<1>38. ASSUME NEW r \in Runs, RunGetsOld(r) PROVE DrainRun'
  BY <1>38 DEF RunGetsOld
<1>39. ASSUME RecoverContacts PROVE DrainRun'
  BY <1>39 DEF RecoverContacts
<1>40. ASSUME SweepQuery PROVE DrainRun'
  BY <1>40 DEF SweepQuery
<1>41. ASSUME SweepEnd PROVE DrainRun'
  BY <1>41 DEF SweepEnd
<1>42. ASSUME SweepSnapshot PROVE DrainRun'
  BY <1>42 DEF SweepSnapshot
<1>43. ASSUME Crash PROVE DrainRun'
  BY <1>43 DEF Crash, IdleDrain, Drain
<1>44. ASSUME NEW q \in Rows, RetryDue(q) PROVE DrainRun'
  BY <1>44 DEF RetryDue
<1>45. ASSUME NEW s \in SlotIds, SlotAges(s) PROVE DrainRun'
  BY <1>45 DEF SlotAges
<1>46. ASSUME NEW c \in Campaigns, Scan(c) \/ GatesPass(c) \/ GatesStop(c) \/ DrainStep(c) PROVE DrainRun'
  BY <1>46, <1>1, <1>2, <1>3, <1>4, <1>5, <1>6, <1>7, <1>8, <1>9, <1>10, <1>11, <1>12, <1>13,
     <1>14, <1>15, <1>16, <1>17, <1>18, <1>19, <1>20, <1>21, <1>22 DEF DrainStep
<1>47. ASSUME NEW r \in Runs, FinStep(r) \/ AgentStep(r) PROVE DrainRun'
  BY <1>47, <1>25, <1>26, <1>27, <1>28, <1>29, <1>30, <1>31, <1>32, <1>33 DEF FinStep, AgentStep
<1>48. ASSUME RunStep PROVE DrainRun'
  BY <1>48, <1>39, <1>40, <1>41, <1>37 DEF RunStep
<1>49. CASE UNCHANGED vars
  BY <1>49
<1>50. ASSUME Next PROVE DrainRun'
  BY <1>50, <1>46, <1>47, <1>48, <1>34, <1>35, <1>36, <1>23, <1>24, <1>44, <1>38, <1>45, <1>42,
     <1>43 DEF Next
<1>. QED
  BY <1>49, <1>50

\* maybeComplete: between its steps no call of the campaign begins, and no call
\* that could schedule a retry is left.
LEMMA CompletingStep ==
    ASSUME TypeOK, DrainOK, DialInv, SlotInv, Accounted, Counted, Completing, [Next]_vars
    PROVE  Completing'
<1>0. /\ drain \in [Campaigns -> DrainRecords] /\ inflight \in [Campaigns -> Nat]
      /\ campState \in [Campaigns -> CampaignStates] /\ rowState \in [Rows -> RowStates]
      /\ liveRuns \subseteq Runs
  BY DEF TypeOK
<1>. USE DialerAssumption, <1>0 DEF vars, dbVars, procVars, DrainPcs, DrainRecords, Completing, RowsSettled
<1>1. ASSUME NEW c \in Campaigns, Scan(c) PROVE Completing'
  BY <1>1 DEF Scan, GatesDrain, Drain
<1>2. ASSUME NEW c \in Campaigns, GatesPass(c) PROVE Completing'
  BY <1>2 DEF GatesPass, At, Goto, Drain
<1>3. ASSUME NEW c \in Campaigns, GatesStop(c) PROVE Completing'
  BY <1>3 DEF GatesStop, At, Stop, IdleDrain, Drain
<1>4. ASSUME NEW c \in Campaigns, GatesTrip(c) PROVE Completing'
  BY <1>4 DEF GatesTrip, At, Goto, Drain
<1>5. ASSUME NEW c \in Campaigns, GatesPause(c) PROVE Completing'
  BY <1>5 DEF GatesPause, At, SetPaused, NoFault, Fault, Stop, IdleDrain, Drain
<1>6. ASSUME NEW c \in Campaigns, TakeCapacity(c) PROVE Completing'
  BY <1>6 DEF TakeCapacity, At, Fault, NoFault, Stop, IdleDrain, Drain
<1>7. ASSUME NEW c \in Campaigns, TakeOrgSlot(c) PROVE Completing'
  BY <1>7 DEF TakeOrgSlot, At, Fault, NoFault, Goto, Drain
<1>8. ASSUME NEW c \in Campaigns, DropCapacity(c) PROVE Completing'
  BY <1>8 DEF DropCapacity, At, NoFault, Fault, Stop, IdleDrain, Drain
<1>9. ASSUME NEW c \in Campaigns, ClaimRun(c) PROVE Completing'
  BY <1>9 DEF ClaimRun, At, ReleaseThen, Drain, Fault, NoFault, NextRows, DueRows
<1>10. ASSUME NEW c \in Campaigns, Place(c) PROVE Completing'
  BY <1>10 DEF Place, At, ReleaseThen, Goto, Drain, Fault, NoFault
<1>11. ASSUME NEW c \in Campaigns, ProviderPause(c) PROVE Completing'
  BY <1>11 DEF ProviderPause, At, SetPaused, Fault, NoFault, Goto, Drain
<1>12. ASSUME NEW c \in Campaigns, CreateOutboundRun(c) PROVE Completing'
  BY <1>12 DEF CreateOutboundRun, At, ReleaseThen, Drain, Fault, NoFault, AddInflight
<1>13. ASSUME NEW c \in Campaigns, Dial(c) PROVE Completing'
  BY <1>13 DEF Dial, At, ReleaseThen, Drain, AddInflight
<1>14. ASSUME NEW c \in Campaigns, DrainRelease(c) PROVE Completing'
  BY <1>14 DEF DrainRelease, At, NoFault, Fault, AfterRelease, IdleDrain, Drain
<1>15. ASSUME NEW c \in Campaigns, DrainOutcome(c) PROVE Completing'
  BY <1>15 DEF DrainOutcome, At, Goto, Drain
<1>16. ASSUME NEW c \in Campaigns, DrainTripped(c) PROVE Completing'
  BY <1>16 DEF DrainTripped, At, SetPaused, NoFault, Fault, Goto, Drain
<1>17. ASSUME NEW c \in Campaigns, DrainMarkNotConnected(c) PROVE Completing'
  BY <1>17 DEF DrainMarkNotConnected, At, CompleteRun, NoFault, Fault, Goto, Drain
<1>18. ASSUME NEW c \in Campaigns, SetRow(c) PROVE Completing'
  BY <1>18 DEF SetRow, At, SetRunState, NoFault, Fault, IdleDrain, GatesDrain, Drain, DrainOK, HasRow
<1>19. ASSUME NEW c \in Campaigns, FirstInflightCheck(c) PROVE Completing'
  BY <1>19 DEF FirstInflightCheck, CheckInflight, At, Stop, IdleDrain, Goto, Drain
<1>20. ASSUME NEW c \in Campaigns, OpenWork(c) PROVE Completing'
  BY <1>20 DEF OpenWork, At, Stop, IdleDrain, Goto, Drain, Fault, NoFault
<1>21. ASSUME NEW c \in Campaigns, SecondInflightCheck(c) PROVE Completing'
  BY <1>21 DEF SecondInflightCheck, CheckInflight, At, Stop, IdleDrain, Goto, Drain
<1>22. ASSUME NEW c \in Campaigns, CompleteCampaign(c) PROVE Completing'
  BY <1>22 DEF CompleteCampaign, At, NoFault, Fault, Stop, IdleDrain, Drain
<1>23. ASSUME NEW c \in Campaigns, UIPause(c) PROVE Completing'
  BY <1>23 DEF UIPause
<1>24. ASSUME NEW c \in Campaigns, UIResume(c) PROVE Completing'
  BY <1>24 DEF UIResume
<1>25. ASSUME NEW r \in Runs, FinRelease(r) PROVE Completing'
  BY <1>25 DEF FinRelease, NoFault, Fault, FinGoto
<1>26. ASSUME NEW r \in Runs, FinOutcome(r) PROVE Completing'
  BY <1>26 DEF FinOutcome, FinGoto
<1>27. ASSUME NEW r \in Runs, FinTripped(r) PROVE Completing'
  BY <1>27 DEF FinTripped, SetPaused, NoFault, Fault, FinGoto
<1>28. ASSUME NEW r \in Runs, FinRetry(r) PROVE Completing'
  <2>1. inflight[CampaignOfRun(r)] > 0
    BY <1>28, PendingInFlight DEF FinRetry, Pending
  <2>2. \A q \in Rows : CampaignOfRow(q) # CampaignOfRun(r) => rowState'[q] = rowState[q]
    BY <1>28 DEF FinRetry, RetryOf, CampaignOfRow, CampaignOfRun
  <2>3. UNCHANGED <<drain, campState, inflight>>
    BY <1>28 DEF FinRetry
  <2>. QED
    BY <2>1, <2>2, <2>3
<1>29. ASSUME NEW r \in Runs, FinMarkNotConnected(r) PROVE Completing'
  BY <1>29 DEF FinMarkNotConnected, CompleteRun, NoFault, Fault, FinGoto
<1>30. ASSUME NEW r \in Runs, FinEnd(r) PROVE Completing'
  BY <1>30 DEF FinEnd, FinGoto, AddInflight
<1>31. ASSUME NEW r \in Runs, AgentStarted(r) PROVE Completing'
  BY <1>31 DEF AgentStarted
<1>32. ASSUME NEW r \in Runs, MarkRunRunning(r) PROVE Completing'
  BY <1>32 DEF MarkRunRunning, CompleteRun, NoFault, Fault
<1>33. ASSUME NEW r \in Runs, FinishRun(r) PROVE Completing'
  BY <1>33 DEF FinishRun, CompleteRun, NoFault, Fault
<1>34. ASSUME NEW r \in Runs, Answered(r) PROVE Completing'
  BY <1>34 DEF Answered
<1>35. ASSUME NEW r \in Runs, Unanswered(r) PROVE Completing'
  BY <1>35 DEF Unanswered, Done, FinGoto
<1>36. ASSUME NEW r \in Runs, HungUp(r) PROVE Completing'
  BY <1>36 DEF HungUp, Done, FinGoto
<1>37. ASSUME NEW r \in Runs, SweepMark(r) PROVE Completing'
  BY <1>37 DEF SweepMark, CompleteRun, NoFault, Fault
<1>38. ASSUME NEW r \in Runs, RunGetsOld(r) PROVE Completing'
  BY <1>38 DEF RunGetsOld
<1>39. ASSUME RecoverContacts PROVE Completing'
  BY <1>39 DEF RecoverContacts, NoFault, Fault
<1>40. ASSUME SweepQuery PROVE Completing'
  BY <1>40 DEF SweepQuery, NoFault, Fault
<1>41. ASSUME SweepEnd PROVE Completing'
  BY <1>41 DEF SweepEnd
<1>42. ASSUME SweepSnapshot PROVE Completing'
  BY <1>42 DEF SweepSnapshot
<1>43. ASSUME Crash PROVE Completing'
  BY <1>43 DEF Crash, IdleDrain, Drain
<1>44. ASSUME NEW q \in Rows, RetryDue(q) PROVE Completing'
  BY <1>44 DEF RetryDue
<1>45. ASSUME NEW s \in SlotIds, SlotAges(s) PROVE Completing'
  BY <1>45 DEF SlotAges
<1>46. ASSUME NEW c \in Campaigns, Scan(c) \/ GatesPass(c) \/ GatesStop(c) \/ DrainStep(c) PROVE Completing'
  BY <1>46, <1>1, <1>2, <1>3, <1>4, <1>5, <1>6, <1>7, <1>8, <1>9, <1>10, <1>11, <1>12, <1>13,
     <1>14, <1>15, <1>16, <1>17, <1>18, <1>19, <1>20, <1>21, <1>22 DEF DrainStep
<1>47. ASSUME NEW r \in Runs, FinStep(r) \/ AgentStep(r) PROVE Completing'
  BY <1>47, <1>25, <1>26, <1>27, <1>28, <1>29, <1>30, <1>31, <1>32, <1>33 DEF FinStep, AgentStep
<1>48. ASSUME RunStep PROVE Completing'
  BY <1>48, <1>39, <1>40, <1>41, <1>37 DEF RunStep
<1>49. CASE UNCHANGED vars
  BY <1>49
<1>50. ASSUME Next PROVE Completing'
  BY <1>50, <1>46, <1>47, <1>48, <1>34, <1>35, <1>36, <1>23, <1>24, <1>44, <1>38, <1>45, <1>42,
     <1>43 DEF Next
<1>. QED
  BY <1>49, <1>50

\* What the sweep works on never becomes a call.
LEMMA SweepOKStep ==
    ASSUME ~DoneAfterDialError, TypeOK, DrainOK, DialInv, SlotInv, Accounted, SweepOK, [Next]_vars
    PROVE  SweepOK'
<1>0. /\ drain \in [Campaigns -> DrainRecords] /\ runState \in [Runs -> RunStates]
      /\ call \in [Runs -> {"none", "ringing", "up", "over"}]
      /\ liveRuns \subseteq Runs /\ oldRuns \subseteq Runs /\ sweepSet \subseteq Runs
  BY DEF TypeOK
<1>. USE DialerAssumption, <1>0 DEF vars, dbVars, procVars, callVars, DrainPcs, DrainRecords, RunStates,
       SweepOK, Dialing, Live
<1>1. ASSUME NEW c \in Campaigns, Scan(c) PROVE SweepOK'
  BY <1>1 DEF Scan, GatesDrain, Drain
<1>2. ASSUME NEW c \in Campaigns, GatesPass(c) PROVE SweepOK'
  BY <1>2 DEF GatesPass, At, Goto, Drain
<1>3. ASSUME NEW c \in Campaigns, GatesStop(c) PROVE SweepOK'
  BY <1>3 DEF GatesStop, At, Stop, IdleDrain, Drain
<1>4. ASSUME NEW c \in Campaigns, GatesTrip(c) PROVE SweepOK'
  BY <1>4 DEF GatesTrip, At, Goto, Drain
<1>5. ASSUME NEW c \in Campaigns, GatesPause(c) PROVE SweepOK'
  BY <1>5 DEF GatesPause, At, NoFault, Fault, Stop, IdleDrain, Drain
<1>6. ASSUME NEW c \in Campaigns, TakeCapacity(c) PROVE SweepOK'
  BY <1>6 DEF TakeCapacity, At, Fault, NoFault, Stop, IdleDrain, Drain
<1>7. ASSUME NEW c \in Campaigns, TakeOrgSlot(c) PROVE SweepOK'
  BY <1>7 DEF TakeOrgSlot, At, Fault, NoFault, Goto, Drain
<1>8. ASSUME NEW c \in Campaigns, DropCapacity(c) PROVE SweepOK'
  BY <1>8 DEF DropCapacity, At, NoFault, Fault, Stop, IdleDrain, Drain
<1>9. ASSUME NEW c \in Campaigns, ClaimRun(c) PROVE SweepOK'
  BY <1>9 DEF ClaimRun, At, ReleaseThen, Drain, Fault, NoFault
<1>10. ASSUME NEW c \in Campaigns, Place(c) PROVE SweepOK'
  BY <1>10 DEF Place, At, ReleaseThen, Goto, Drain, Fault, NoFault
<1>11. ASSUME NEW c \in Campaigns, ProviderPause(c) PROVE SweepOK'
  BY <1>11 DEF ProviderPause, At, Fault, NoFault, Goto, Drain
<1>12. ASSUME NEW c \in Campaigns, CreateOutboundRun(c) PROVE SweepOK'
  <2>1. \A k \in Campaigns : k # c => drain'[k] = drain[k]
    BY <1>12 DEF CreateOutboundRun, ReleaseThen
  <2>2. drain'[c].pc = "dial" => drain'[c].run \in Runs /\ runState[drain'[c].run] = "none"
    BY <1>12 DEF CreateOutboundRun, IsNextRun, ReleaseThen, Drain
  <2>3. \A r \in Runs : runState[r] # "none" => runState'[r] # "none"
    BY <1>12 DEF CreateOutboundRun
  <2>4. UNCHANGED <<oldRuns, sweepSet, call>>
    BY <1>12 DEF CreateOutboundRun
  <2>5. ASSUME NEW r \in sweepSet, NEW k \in Campaigns PROVE ~(drain'[k].pc = "dial" /\ drain'[k].run = r)
    <3>1. CASE k = c
      BY <2>2, <3>1
    <3>2. CASE k # c
      BY <2>1, <3>2
    <3>. QED
      BY <3>1, <3>2
  <2>. QED
    BY <2>3, <2>4, <2>5
<1>13. ASSUME NEW c \in Campaigns, Dial(c) PROVE SweepOK'
  BY <1>13 DEF Dial, At, ReleaseThen, Drain
<1>14. ASSUME NEW c \in Campaigns, DrainRelease(c) PROVE SweepOK'
  BY <1>14 DEF DrainRelease, At, NoFault, Fault, AfterRelease, IdleDrain, Drain
<1>15. ASSUME NEW c \in Campaigns, DrainOutcome(c) PROVE SweepOK'
  BY <1>15 DEF DrainOutcome, At, Goto, Drain
<1>16. ASSUME NEW c \in Campaigns, DrainTripped(c) PROVE SweepOK'
  BY <1>16 DEF DrainTripped, At, NoFault, Fault, Goto, Drain
<1>17. ASSUME NEW c \in Campaigns, DrainMarkNotConnected(c) PROVE SweepOK'
  BY <1>17 DEF DrainMarkNotConnected, At, CompleteRun, NoFault, Fault, Goto, Drain
<1>18. ASSUME NEW c \in Campaigns, SetRow(c) PROVE SweepOK'
  BY <1>18 DEF SetRow, At, NoFault, Fault, IdleDrain, GatesDrain, Drain
<1>19. ASSUME NEW c \in Campaigns, FirstInflightCheck(c) PROVE SweepOK'
  BY <1>19 DEF FirstInflightCheck, CheckInflight, At, Stop, IdleDrain, Goto, Drain
<1>20. ASSUME NEW c \in Campaigns, OpenWork(c) PROVE SweepOK'
  BY <1>20 DEF OpenWork, At, Stop, IdleDrain, Goto, Drain, Fault, NoFault
<1>21. ASSUME NEW c \in Campaigns, SecondInflightCheck(c) PROVE SweepOK'
  BY <1>21 DEF SecondInflightCheck, CheckInflight, At, Stop, IdleDrain, Goto, Drain
<1>22. ASSUME NEW c \in Campaigns, CompleteCampaign(c) PROVE SweepOK'
  BY <1>22 DEF CompleteCampaign, At, NoFault, Fault, Stop, IdleDrain, Drain
<1>23. ASSUME NEW c \in Campaigns, UIPause(c) PROVE SweepOK'
  BY <1>23 DEF UIPause
<1>24. ASSUME NEW c \in Campaigns, UIResume(c) PROVE SweepOK'
  BY <1>24 DEF UIResume
<1>25. ASSUME NEW r \in Runs, FinRelease(r) PROVE SweepOK'
  BY <1>25 DEF FinRelease, NoFault, Fault, FinGoto
<1>26. ASSUME NEW r \in Runs, FinOutcome(r) PROVE SweepOK'
  BY <1>26 DEF FinOutcome, FinGoto
<1>27. ASSUME NEW r \in Runs, FinTripped(r) PROVE SweepOK'
  BY <1>27 DEF FinTripped, NoFault, Fault, FinGoto
<1>28. ASSUME NEW r \in Runs, FinRetry(r) PROVE SweepOK'
  BY <1>28 DEF FinRetry, FinGoto, NoFault, Fault
<1>29. ASSUME NEW r \in Runs, FinMarkNotConnected(r) PROVE SweepOK'
  BY <1>29 DEF FinMarkNotConnected, CompleteRun, NoFault, Fault, FinGoto
<1>30. ASSUME NEW r \in Runs, FinEnd(r) PROVE SweepOK'
  BY <1>30 DEF FinEnd, FinGoto
<1>31. ASSUME NEW r \in Runs, AgentStarted(r) PROVE SweepOK'
  BY <1>31 DEF AgentStarted
<1>32. ASSUME NEW r \in Runs, MarkRunRunning(r) PROVE SweepOK'
  BY <1>32 DEF MarkRunRunning, CompleteRun, NoFault, Fault
<1>33. ASSUME NEW r \in Runs, FinishRun(r) PROVE SweepOK'
  BY <1>33 DEF FinishRun, CompleteRun, NoFault, Fault
<1>34. ASSUME NEW r \in Runs, Answered(r) PROVE SweepOK'
  BY <1>34 DEF Answered
<1>35. ASSUME NEW r \in Runs, Unanswered(r) PROVE SweepOK'
  BY <1>35 DEF Unanswered, Done, FinGoto
<1>36. ASSUME NEW r \in Runs, HungUp(r) PROVE SweepOK'
  BY <1>36 DEF HungUp, Done, FinGoto
<1>37. ASSUME NEW r \in Runs, SweepMark(r) PROVE SweepOK'
  BY <1>37 DEF SweepMark, CompleteRun, NoFault, Fault
<1>38. ASSUME NEW r \in Runs, RunGetsOld(r) PROVE SweepOK'
  BY <1>38 DEF RunGetsOld
<1>39. ASSUME RecoverContacts PROVE SweepOK'
  BY <1>39 DEF RecoverContacts, NoFault, Fault
<1>40. ASSUME SweepQuery PROVE SweepOK'
  BY <1>40 DEF SweepQuery, NoFault, Fault, SlotInv, StartIdle
<1>41. ASSUME SweepEnd PROVE SweepOK'
  BY <1>41 DEF SweepEnd
<1>42. ASSUME SweepSnapshot PROVE SweepOK'
  BY <1>42 DEF SweepSnapshot, Accounted, Pending
<1>43. ASSUME Crash PROVE SweepOK'
  BY <1>43 DEF Crash, IdleDrain, Drain
<1>44. ASSUME NEW q \in Rows, RetryDue(q) PROVE SweepOK'
  BY <1>44 DEF RetryDue
<1>45. ASSUME NEW s \in SlotIds, SlotAges(s) PROVE SweepOK'
  BY <1>45 DEF SlotAges
<1>46. ASSUME NEW c \in Campaigns, Scan(c) \/ GatesPass(c) \/ GatesStop(c) \/ DrainStep(c) PROVE SweepOK'
  BY <1>46, <1>1, <1>2, <1>3, <1>4, <1>5, <1>6, <1>7, <1>8, <1>9, <1>10, <1>11, <1>12, <1>13,
     <1>14, <1>15, <1>16, <1>17, <1>18, <1>19, <1>20, <1>21, <1>22 DEF DrainStep
<1>47. ASSUME NEW r \in Runs, FinStep(r) \/ AgentStep(r) PROVE SweepOK'
  BY <1>47, <1>25, <1>26, <1>27, <1>28, <1>29, <1>30, <1>31, <1>32, <1>33 DEF FinStep, AgentStep
<1>48. ASSUME RunStep PROVE SweepOK'
  BY <1>48, <1>39, <1>40, <1>41, <1>37 DEF RunStep
<1>49. CASE UNCHANGED vars
  BY <1>49
<1>50. ASSUME Next PROVE SweepOK'
  BY <1>50, <1>46, <1>47, <1>48, <1>34, <1>35, <1>36, <1>23, <1>24, <1>44, <1>38, <1>45, <1>42,
     <1>43 DEF Next
<1>. QED
  BY <1>49, <1>50

\* The invariant on the calls is inductive.
LEMMA CallsInductive == ASSUME ~DoneAfterDialError PROVE Spec => []CallInv
<1>1. Init => CallInv
  <2>1. Init => Accounted /\ DrainRun /\ Completing /\ SweepOK
    BY DEF Init, Accounted, Pending, Dialing, Live, DrainRun, Completing, RowsSettled, SweepOK, IdleDrain, Drain
  <2>2. Init => Counted
    <3>1. Init => \A c \in Campaigns : LiveOf(c) = {}
      BY DEF Init, LiveOf
    <3>. QED
      BY <3>1, FS_EmptySet DEF Init, Counted
  <2>. QED
    BY <2>1, <2>2 DEF CallInv
<1>2. TypeOK /\ DrainOK /\ DialInv /\ SlotInv /\ CallInv /\ [Next]_vars => CallInv'
  BY AccountedStep, CountedStep, DrainRunStep, CompletingStep, SweepOKStep DEF CallInv
<1>. QED
  BY <1>1, <1>2, SlotsInductive, Inductive, PTL DEF Spec

\* A completed campaign is quiet: maybeComplete's two readings of inflight and
\* the one of open work between them are enough, whatever calls, retries and
\* pauses come in between, if Done never follows an error of Dial.
THEOREM CompletedQuiet == ASSUME ~DoneAfterDialError PROVE Spec => []CompletedIsQuiet
<1>1. TypeOK /\ CallInv => CompletedIsQuiet
  <2>. SUFFICES ASSUME TypeOK, CallInv, NEW c \in Campaigns, campState[c] = "completed"
       PROVE  /\ RowsSettled(c)
              /\ \A r \in Runs : CampaignOfRun(r) = c => ~Live(r) /\ fin[r] = "none"
    BY DEF CompletedIsQuiet, RowsSettled
  <2>1. inflight[c] = 0 /\ RowsSettled(c)
    BY DEF CallInv, Completing
  <2>2. ASSUME NEW r \in Runs, CampaignOfRun(r) = c PROVE ~Pending(r)
    BY <2>1, <2>2, PendingInFlight DEF CallInv, TypeOK
  <2>. QED
    BY <2>1, <2>2 DEF Pending
<1>. QED
  BY <1>1, CallsInductive, Inductive, PTL

\* No step completes the run of a call under way as not connected or
\* interrupted: a sweep leaves out the live runs it read together with its
\* cutoff, and a run it took up never becomes a call.
THEOREM LiveRunsKept == ASSUME ~DoneAfterDialError PROVE Spec => LiveRunsSpared
<1>. DEFINE Spared == \A r \in Runs : Live(r) /\ runState[r] \in {"initialized", "running"}
                                      => runState'[r] \notin {"notconnected", "interrupted"}
<1>1. TypeOK /\ DrainOK /\ SlotInv /\ CallInv /\ [Next]_vars => [Spared]_vars
  <2>. SUFFICES ASSUME TypeOK, DrainOK, SlotInv, CallInv, Next PROVE Spared
    OBVIOUS
  <2>0. runState \in [Runs -> RunStates] /\ sweepSet \subseteq Runs
    BY DEF TypeOK
  <2>. USE <2>0 DEF vars, dbVars, CompleteRun, Live
  <2>1. ASSUME NEW c \in Campaigns, DrainMarkNotConnected(c) PROVE Spared
    <3>1. drain[c].run # None => call[drain[c].run] = "over"
      BY <2>1 DEF DrainMarkNotConnected, At, CallInv, DrainRun, DrainOK
    <3>2. \A r \in Runs : r # drain[c].run => runState'[r] = runState[r]
      BY <2>1 DEF DrainMarkNotConnected
    <3>. QED
      BY <3>1, <3>2, DialerAssumption
  <2>2. ASSUME NEW c \in Campaigns, Scan(c) \/ GatesPass(c) \/ GatesStop(c) \/ DrainStep(c),
               ~DrainMarkNotConnected(c)
        PROVE  Spared
    BY <2>2 DEF DrainStep, Scan, GatesPass, GatesStop, GatesTrip, GatesPause, TakeCapacity, TakeOrgSlot,
         DropCapacity, ClaimRun, Place, ProviderPause, CreateOutboundRun, IsNextRun, Dial, DrainRelease,
         DrainOutcome, DrainTripped, SetRow, FirstInflightCheck, SecondInflightCheck, CheckInflight,
         OpenWork, CompleteCampaign
  <2>3. ASSUME NEW r \in Runs, FinMarkNotConnected(r) PROVE Spared
    BY <2>3 DEF FinMarkNotConnected, SlotInv, RunLife
  <2>4. ASSUME NEW r \in Runs, SweepMark(r) PROVE Spared
    BY <2>4 DEF SweepMark, CallInv, SweepOK
  <2>5. ASSUME NEW r \in Runs, ~FinMarkNotConnected(r),
               \/ FinStep(r) \/ AgentStep(r) \/ Answered(r) \/ Unanswered(r) \/ HungUp(r) \/ RunGetsOld(r)
        PROVE  Spared
    BY <2>5 DEF FinStep, AgentStep, FinRelease, FinOutcome, FinTripped, FinRetry, FinEnd,
         AgentStarted, MarkRunRunning, FinishRun, Answered, Unanswered, HungUp, Done, RunGetsOld
  <2>6. ASSUME RecoverContacts \/ SweepQuery \/ SweepEnd \/ SweepSnapshot \/ Crash PROVE Spared
    BY <2>6 DEF RecoverContacts, SweepQuery, SweepEnd, SweepSnapshot, Crash
  <2>7. ASSUME NEW c \in Campaigns, UIPause(c) \/ UIResume(c) PROVE Spared
    BY <2>7 DEF UIPause, UIResume
  <2>8. ASSUME NEW q \in Rows, RetryDue(q) PROVE Spared
    BY <2>8 DEF RetryDue
  <2>9. ASSUME NEW s \in SlotIds, SlotAges(s) PROVE Spared
    BY <2>9 DEF SlotAges
  <2>. QED
    BY <2>1, <2>2, <2>3, <2>4, <2>5, <2>6, <2>7, <2>8, <2>9 DEF Next, RunStep
<1>. QED
  BY <1>1, CallsInductive, SlotsInductive, Inductive, PTL DEF Spec, LiveRunsSpared

-----------------------------------------------------------------------------
\* Taking entries away leaves room.
LEMMA RoomKept ==
    ASSUME Room, orgSlots' \subseteq orgSlots, capSlots' \subseteq capSlots,
           Trim(orgSlots)' \subseteq Trim(orgSlots), Trim(capSlots)' \subseteq Trim(capSlots)
    PROVE  Room'
<1>1. IsFiniteSet(Trim(orgSlots)) /\ IsFiniteSet(Trim(capSlots))
  BY FS_Subset DEF Room, Trim
<1>2. IsFiniteSet(orgSlots') /\ IsFiniteSet(capSlots')
  BY FS_Subset DEF Room
<1>3. /\ Cardinality(Trim(orgSlots)') <= Cardinality(Trim(orgSlots))
      /\ Cardinality(Trim(capSlots)') <= Cardinality(Trim(capSlots))
  BY <1>1, FS_Subset
<1>4. /\ Cardinality(Trim(orgSlots)) \in Nat /\ Cardinality(Trim(capSlots)) \in Nat
      /\ Cardinality(Trim(orgSlots)') \in Nat /\ Cardinality(Trim(capSlots)') \in Nat
  BY <1>1, FS_Subset, FS_CardinalityType
<1>. QED
  BY <1>2, <1>3, <1>4, DialerAssumption DEF Room

\* One slot added to a key that has room for it.
LEMMA RoomForOne ==
    ASSUME NEW key, NEW rest, NEW limit \in Nat, NEW s, IsFiniteSet(key), rest \subseteq key,
           Cardinality(rest) < limit
    PROVE  IsFiniteSet(rest \cup {s}) /\ Cardinality(rest \cup {s}) <= limit
<1>1. IsFiniteSet(rest) /\ Cardinality(rest) \in Nat
  BY FS_Subset, FS_CardinalityType
<1>2. /\ IsFiniteSet(rest \cup {s})
      /\ Cardinality(rest \cup {s}) = IF s \in rest THEN Cardinality(rest) ELSE Cardinality(rest) + 1
  BY <1>1, FS_AddElement
<1>. QED
  BY <1>1, <1>2

\* Every step keeps one owner to a slot, every owned slot in the lists, and the
\* lists within their limits.
LEMMA LimitInvStep ==
    ASSUME ~DoneAfterDialError, TypeOK, DrainOK, DialInv, SlotInv, LimitInv, [Next]_vars
    PROVE  LimitInv'
<1>0. /\ drain \in [Campaigns -> DrainRecords] /\ fin \in [Runs -> FinPcs]
      /\ call \in [Runs -> {"none", "ringing", "up", "over"}]
      /\ callSlot \in [Runs -> SlotIds \cup {None}]
      /\ orgSlots \subseteq SlotIds /\ capSlots \subseteq SlotIds
  BY DEF TypeOK
<1>1. SlotStep
  BY SlotSteps DEF SlotInv
<1>2. DrainSlots /\ RunLife
  BY DEF SlotInv
<1>. USE DialerAssumption, <1>0, <1>2 DEF redisVars, procVars, callVars, LimitInv, SlotPcs, OrgSlotPcs, Live, Owns
<1>3. ASSUME NEW c \in Campaigns, DrainMove(c) PROVE LimitInv'
  <2>1. SlotOwners'
    BY <1>3 DEF DrainMove, SlotOwners, DrainSlots, RunLife
  <2>2. SlotsCounted'
    BY <1>3 DEF DrainMove, SlotsCounted, SlotOwners, DrainSlots, RunLife
  <2>3. Room'
    BY <1>3, RoomKept DEF DrainMove, Trim
  <2>. QED
    BY <2>1, <2>2, <2>3
<1>4. ASSUME NEW c \in Campaigns, TakeCapacity(c) PROVE LimitInv'
  <2>1. SlotOwners'
    BY <1>4 DEF TakeCapacity, At, Stop, IdleDrain, Drain, Trim, SlotOwners, DrainSlots, RunLife, UsedSlots
  <2>2. SlotsCounted'
    BY <1>4 DEF TakeCapacity, At, Stop, IdleDrain, Drain, Trim, SlotsCounted, SlotOwners, DrainSlots, RunLife, UsedSlots
  <2>3. Room'
    <3>1. PICK s \in SlotIds :
            /\ s \notin orgSlots /\ s \notin capSlots
            /\ agedSlots' = agedSlots \ {s}
            /\ \/ capSlots' = capSlots
               \/ capSlots' = Trim(capSlots)
               \/ /\ Cardinality(Trim(capSlots)) < MaxCalls
                  /\ capSlots' = Trim(capSlots) \cup {s}
      BY <1>4 DEF TakeCapacity, UsedSlots
    <3>2. orgSlots' = orgSlots /\ Trim(orgSlots)' = Trim(orgSlots)
      BY <1>4, <3>1 DEF TakeCapacity, Trim
    <3>3. CASE capSlots' = capSlots \/ capSlots' = Trim(capSlots)
      BY <3>1, <3>2, <3>3, RoomKept DEF Trim
    <3>4. CASE Cardinality(Trim(capSlots)) < MaxCalls /\ capSlots' = Trim(capSlots) \cup {s}
      <4>1. IsFiniteSet(capSlots) /\ Trim(capSlots) \subseteq capSlots
        BY DEF Room, Trim
      <4>2. IsFiniteSet(capSlots') /\ Cardinality(capSlots') <= MaxCalls
        BY <3>4, <4>1, RoomForOne
      <4>3. Trim(capSlots)' = capSlots'
        BY <3>1, <3>4 DEF Trim
      <4>. QED
        BY <3>2, <4>2, <4>3 DEF Room
    <3>. QED
      BY <3>1, <3>3, <3>4
  <2>. QED
    BY <2>1, <2>2, <2>3
<1>5. ASSUME NEW c \in Campaigns, TakeOrgSlot(c) PROVE LimitInv'
  <2>1. SlotOwners'
    BY <1>5 DEF TakeOrgSlot, At, Goto, Drain, Trim, SlotOwners, DrainSlots, RunLife
  <2>2. SlotsCounted'
    BY <1>5 DEF TakeOrgSlot, At, Goto, Drain, Trim, SlotsCounted, SlotOwners, DrainSlots, RunLife
  <2>3. Room'
    <3>1. LimitOf(c) \in Nat /\ LimitOf(c) <= OrgLimit
      BY DEF LimitOf
    <3>2. drain[c].slot \notin agedSlots
      BY <1>5 DEF TakeOrgSlot, At, SlotsCounted
    <3>3. UNCHANGED <<capSlots, agedSlots>>
      BY <1>5 DEF TakeOrgSlot
    <3>4. CASE orgSlots' = orgSlots \/ orgSlots' = Trim(orgSlots)
      BY <3>3, <3>4, RoomKept DEF Trim
    <3>5. CASE Cardinality(Trim(orgSlots)) < LimitOf(c) /\ orgSlots' = Trim(orgSlots) \cup {drain[c].slot}
      <4>1. IsFiniteSet(orgSlots) /\ Trim(orgSlots) \subseteq orgSlots
        BY DEF Room, Trim
      <4>2. IsFiniteSet(orgSlots') /\ Cardinality(orgSlots') <= LimitOf(c)
        BY <3>1, <3>5, <4>1, RoomForOne
      <4>3. Cardinality(orgSlots') <= OrgLimit
        BY <3>1, <4>2, FS_CardinalityType
      <4>4. Trim(orgSlots)' = orgSlots'
        BY <3>2, <3>3, <3>5 DEF Trim
      <4>5. Trim(capSlots)' = Trim(capSlots)
        BY <3>3 DEF Trim
      <4>. QED
        BY <3>3, <4>2, <4>3, <4>4, <4>5 DEF Room
    <3>. QED
      BY <1>5, <3>4, <3>5 DEF TakeOrgSlot
  <2>. QED
    BY <2>1, <2>2, <2>3
<1>6. ASSUME NEW c \in Campaigns, DropCapacity(c) PROVE LimitInv'
  <2>1. SlotOwners'
    BY <1>6 DEF DropCapacity, At, Stop, IdleDrain, Drain, SlotOwners, DrainSlots, RunLife
  <2>2. SlotsCounted'
    BY <1>6 DEF DropCapacity, At, Stop, IdleDrain, Drain, SlotsCounted, SlotOwners, DrainSlots, RunLife
  <2>3. Room'
    BY <1>6, RoomKept DEF DropCapacity, At, Stop, IdleDrain, Drain, Trim
  <2>. QED
    BY <2>1, <2>2, <2>3
<1>7. ASSUME NEW c \in Campaigns, Dial(c) PROVE LimitInv'
  <2>1. SlotOwners'
    BY <1>7 DEF Dial, At, ReleaseThen, Drain, SlotOwners, DrainSlots, RunLife
  <2>2. SlotsCounted'
    BY <1>7 DEF Dial, At, ReleaseThen, Drain, SlotsCounted, SlotOwners, DrainSlots, RunLife
  <2>3. Room'
    BY <1>7, RoomKept DEF Dial, At, ReleaseThen, Drain, Trim
  <2>. QED
    BY <2>1, <2>2, <2>3
<1>8. ASSUME NEW c \in Campaigns, DrainRelease(c) PROVE LimitInv'
  <2>1. SlotOwners'
    BY <1>8 DEF DrainRelease, At, AfterRelease, ReleaseSlot, IdleDrain, Drain, SlotOwners, DrainSlots, RunLife
  <2>2. SlotsCounted'
    BY <1>8 DEF DrainRelease, At, AfterRelease, ReleaseSlot, IdleDrain, Drain, SlotsCounted, SlotOwners, DrainSlots, RunLife
  <2>3. Room'
    BY <1>8, RoomKept DEF DrainRelease, At, AfterRelease, ReleaseSlot, IdleDrain, Drain, Trim
  <2>. QED
    BY <2>1, <2>2, <2>3
<1>9. ASSUME NEW r \in Runs, FinMove(r) PROVE LimitInv'
  <2>1. SlotOwners'
    BY <1>9 DEF FinMove, SlotOwners, DrainSlots, RunLife
  <2>2. SlotsCounted'
    BY <1>9 DEF FinMove, SlotsCounted, SlotOwners, DrainSlots, RunLife
  <2>3. Room'
    BY <1>9, RoomKept DEF FinMove, Trim
  <2>. QED
    BY <2>1, <2>2, <2>3
<1>10. ASSUME NEW r \in Runs, FinRelease(r) PROVE LimitInv'
  <2>1. SlotOwners'
    BY <1>10 DEF FinRelease, FinGoto, ReleaseSlot, SlotOwners, DrainSlots, RunLife
  <2>2. SlotsCounted'
    BY <1>10 DEF FinRelease, FinGoto, ReleaseSlot, SlotsCounted, SlotOwners, DrainSlots, RunLife
  <2>3. Room'
    BY <1>10, RoomKept DEF FinRelease, FinGoto, ReleaseSlot, Trim
  <2>. QED
    BY <2>1, <2>2, <2>3
<1>11. ASSUME NEW r \in Runs, Answered(r) PROVE LimitInv'
  <2>1. SlotOwners'
    BY <1>11 DEF Answered, SlotOwners, DrainSlots, RunLife
  <2>2. SlotsCounted'
    BY <1>11 DEF Answered, SlotsCounted, SlotOwners, DrainSlots, RunLife
  <2>3. Room'
    BY <1>11, RoomKept DEF Answered, Trim
  <2>. QED
    BY <2>1, <2>2, <2>3
<1>12. ASSUME NEW r \in Runs, Unanswered(r) PROVE LimitInv'
  <2>1. SlotOwners'
    BY <1>12 DEF Unanswered, Done, FinGoto, SlotOwners, DrainSlots, RunLife
  <2>2. SlotsCounted'
    BY <1>12 DEF Unanswered, Done, FinGoto, SlotsCounted, SlotOwners, DrainSlots, RunLife
  <2>3. Room'
    BY <1>12, RoomKept DEF Unanswered, Done, FinGoto, Trim
  <2>. QED
    BY <2>1, <2>2, <2>3
<1>13. ASSUME NEW r \in Runs, HungUp(r) PROVE LimitInv'
  <2>1. SlotOwners'
    BY <1>13 DEF HungUp, Done, FinGoto, SlotOwners, DrainSlots, RunLife
  <2>2. SlotsCounted'
    BY <1>13 DEF HungUp, Done, FinGoto, SlotsCounted, SlotOwners, DrainSlots, RunLife
  <2>3. Room'
    BY <1>13, RoomKept DEF HungUp, Done, FinGoto, Trim
  <2>. QED
    BY <2>1, <2>2, <2>3
<1>14. ASSUME RunMove PROVE LimitInv'
  <2>1. SlotOwners'
    BY <1>14 DEF RunMove, SlotOwners, DrainSlots, RunLife
  <2>2. SlotsCounted'
    BY <1>14 DEF RunMove, SlotsCounted, SlotOwners, DrainSlots, RunLife
  <2>3. Room'
    BY <1>14, RoomKept DEF RunMove, Trim
  <2>. QED
    BY <2>1, <2>2, <2>3
<1>15. ASSUME Crash PROVE LimitInv'
  <2>1. SlotOwners'
    BY <1>15 DEF Crash, IdleDrain, Drain, SlotOwners, DrainSlots, RunLife
  <2>2. SlotsCounted'
    BY <1>15 DEF Crash, IdleDrain, Drain, SlotsCounted, SlotOwners, DrainSlots, RunLife
  <2>3. Room'
    BY <1>15, RoomKept DEF Crash, IdleDrain, Drain, Trim
  <2>. QED
    BY <2>1, <2>2, <2>3
<1>16. ASSUME NEW s \in SlotIds, SlotAges(s) PROVE LimitInv'
  <2>1. SlotOwners'
    BY <1>16 DEF SlotAges, SlotOwners, DrainSlots, RunLife
  <2>2. SlotsCounted'
    BY <1>16 DEF SlotAges, SlotsCounted, SlotOwners, DrainSlots, RunLife
  <2>3. Room'
    BY <1>16, RoomKept DEF SlotAges, Trim
  <2>. QED
    BY <2>1, <2>2, <2>3
<1>. QED
  BY <1>1, <1>3, <1>4, <1>5, <1>6, <1>7, <1>8, <1>9, <1>10, <1>11, <1>12, <1>13, <1>14, <1>15, <1>16 DEF SlotStep

\* The invariant on the limits is inductive.
LEMMA LimitsInductive == ASSUME ~DoneAfterDialError PROVE Spec => []LimitInv
<1>1. Init => LimitInv
  <2>1. Init => SlotOwners /\ SlotsCounted
    BY DEF Init, SlotOwners, SlotsCounted, Owns, Live, SlotPcs, OrgSlotPcs, IdleDrain, Drain
  <2>2. Init => Room
    <3>1. Init => orgSlots = {} /\ capSlots = {} /\ Trim(orgSlots) = {} /\ Trim(capSlots) = {}
      BY DEF Init, Trim
    <3>. QED
      BY <3>1, FS_EmptySet, DialerAssumption DEF Room
  <2>. QED
    BY <2>1, <2>2 DEF LimitInv
<1>. QED
  BY <1>1, LimitInvStep, SlotsInductive, Inductive, PTL DEF Spec

\* The calls under way, but for those longer than a slot lives, are within the
\* organization's limit and Vaani's own cap: whatever fails, AcquireSlot's two
\* scripts never give one slot to two calls, nor trim one that still counts.
THEOREM LimitsAreHeld == ASSUME ~DoneAfterDialError PROVE Spec => []LimitsHold
<1>1. TypeOK /\ LimitInv => LimitsHold
  <2>. SUFFICES ASSUME TypeOK, LimitInv PROVE LimitsHold
    OBVIOUS
  <2>. DEFINE counted == {r \in Runs : Live(r) /\ callSlot[r] \notin agedSlots}
              slotOf == [r \in counted |-> callSlot[r]]
  <2>0. /\ \A r \in counted : callSlot[r] \in Trim(orgSlots)
        /\ MaxCalls > 0 => \A r \in counted : callSlot[r] \in Trim(capSlots)
        /\ \A r, x \in counted : callSlot[r] = callSlot[x] => r = x
    BY DEF LimitInv, SlotOwners, SlotsCounted, Owns, Trim
  <2>. HIDE DEF counted
  <2>1. slotOf \in Injection(counted, Trim(orgSlots))
    BY <2>0 DEF Injection, IsInjective
  <2>2. MaxCalls > 0 => slotOf \in Injection(counted, Trim(capSlots))
    BY <2>0 DEF Injection, IsInjective
  <2>3. IsFiniteSet(Trim(orgSlots)) /\ IsFiniteSet(Trim(capSlots))
    BY FS_Subset DEF LimitInv, Room, Trim
  <2>. HIDE DEF slotOf
  <2>4. IsFiniteSet(counted) /\ Cardinality(counted) <= Cardinality(Trim(orgSlots))
    BY <2>1, <2>3, FS_Injection
  <2>5. MaxCalls > 0 => Cardinality(counted) <= Cardinality(Trim(capSlots))
    BY <2>2, <2>3, FS_Injection
  <2>6. /\ Cardinality(counted) \in Nat /\ Cardinality(Trim(orgSlots)) \in Nat
        /\ Cardinality(Trim(capSlots)) \in Nat
    BY <2>3, <2>4, FS_CardinalityType
  <2>7. Cardinality(counted) <= OrgLimit /\ (MaxCalls > 0 => Cardinality(counted) <= MaxCalls)
    BY <2>4, <2>5, <2>6, DialerAssumption DEF LimitInv, Room
  <2>. QED
    BY <2>7 DEF LimitsHold, counted
<1>. QED
  BY <1>1, LimitsInductive, Inductive, PTL
-----------------------------------------------------------------------------
(* CompletedAccounts: what the campaign's counters say of its rows. *)

\* Calls the row accounts for: placed, and either under way or reported. The row
\* of one is not failed, and whoever has it in hand is about to call it processed.
BeforeRetry == {"release", "outcome", "tripped", "retry"}
Placed(r) == Live(r) \/ out[r] # "none"
HandsProcessing == \A c \in Campaigns : HasRow(c) => rowState[drain[c].row] = "processing"
PlacedRows ==
    /\ \A r \in Runs : out[r] # "none" => call[r] = "over"
    /\ \A r \in Runs : Placed(r) =>
         /\ rowState[r[1]] # "failed"
         /\ \A c \in Campaigns : HasRow(c) /\ drain[c].row = r[1] => drain[c].pc = "setrow" /\ drain[c].to = "processed"
    /\ \A r \in Runs : /\ fin[r] # "none" => out[r] # "none"
                       /\ fin[r] = "retry" => out[r] \in RetryOn
PlacedInv == HandsProcessing /\ PlacedRows

\* Calls whose retry has been seen to, or given up.
Late(r) == out[r] \in RetryOn /\ fin[r] \notin BeforeRetry
Unreached(q) == \E r \in Runs : r[1] = q /\ out[r] \in RetryOn
Spent(q) == q[2] = MaxRetries /\ \E r \in Runs : r[1] = q /\ Late(r)

FailedOf(c) == {q \in Rows : CampaignOfRow(q) = c /\ (rowState[q] = "failed" \/ Spent(q))}
ProcessedOf(c) == {q \in Rows : CampaignOfRow(q) = c /\ rowState[q] = "processed"}

RetryChain ==
    \A q \in Rows : rowState[q] # "absent" =>
        \A p \in Rows : p[1] = q[1] /\ p[2] < q[2] => Unreached(p)
FailedCounted ==
    \A c \in Campaigns : /\ failedRows[c] <= Cardinality(FailedOf(c))
                         /\ Clean => failedRows[c] = Cardinality(FailedOf(c))
CleanRows ==
    Clean => /\ main = "recover" => \A q \in Rows : rowState[q] # "processing"
             /\ \A c \in Campaigns : processedRows[c] = Cardinality(ProcessedOf(c))
             /\ \A r \in Runs : Late(r) /\ r[1][2] < MaxRetries => rowState[RetryOf(r[1])] # "absent"
AccountInv == RetryChain /\ FailedCounted /\ CleanRows

-----------------------------------------------------------------------------
\* A row in hand stays in processing until the goroutine that has it settles it.
LEMMA HandsStep ==
    ASSUME TypeOK, DrainOK, DialInv, HandsProcessing, [Next]_vars
    PROVE  HandsProcessing'
<1>0. drain \in [Campaigns -> DrainRecords] /\ rowState \in [Rows -> RowStates]
  BY DEF TypeOK
<1>. USE DialerAssumption, <1>0 DEF vars, dbVars, procVars, DrainPcs, DrainRecords, HandsProcessing, HasRow,
       GivenBackOrSettled
<1>1. ASSUME NEW c \in Campaigns, Scan(c) PROVE HandsProcessing'
  BY <1>1 DEF Scan, GatesDrain, Drain
<1>2. ASSUME NEW c \in Campaigns, GatesPass(c) PROVE HandsProcessing'
  BY <1>2 DEF GatesPass, At, Goto, Drain
<1>3. ASSUME NEW c \in Campaigns, GatesStop(c) PROVE HandsProcessing'
  BY <1>3 DEF GatesStop, At, Stop, IdleDrain, Drain
<1>4. ASSUME NEW c \in Campaigns, GatesTrip(c) PROVE HandsProcessing'
  BY <1>4 DEF GatesTrip, At, Goto, Drain
<1>5. ASSUME NEW c \in Campaigns, GatesPause(c) PROVE HandsProcessing'
  BY <1>5 DEF GatesPause, At, SetPaused, NoFault, Fault, Stop, IdleDrain, Drain
<1>6. ASSUME NEW c \in Campaigns, TakeCapacity(c) PROVE HandsProcessing'
  BY <1>6 DEF TakeCapacity, At, Fault, NoFault, Stop, IdleDrain, Drain
<1>7. ASSUME NEW c \in Campaigns, TakeOrgSlot(c) PROVE HandsProcessing'
  BY <1>7 DEF TakeOrgSlot, At, Fault, NoFault, Goto, Drain
<1>8. ASSUME NEW c \in Campaigns, DropCapacity(c) PROVE HandsProcessing'
  BY <1>8 DEF DropCapacity, At, NoFault, Fault, Stop, IdleDrain, Drain
<1>9. ASSUME NEW c \in Campaigns, ClaimRun(c) PROVE HandsProcessing'
  <2>1. \A q \in NextRows(c) : q \in Rows /\ rowState[q] = "queued"
    BY <1>9 DEF NextRows, DueRows
  <2>2. \A k \in Campaigns \ {c} : drain'[k] = drain[k]
    BY <1>9 DEF ClaimRun, ReleaseThen, Drain
  <2>3. \A q \in Rows : rowState[q] = "processing" => rowState'[q] = rowState[q]
    BY <1>9, <2>1 DEF ClaimRun
  <2>4. HasRow(c)' => drain'[c].row \in Rows /\ rowState'[drain'[c].row] = "processing"
    BY <1>9, <2>1 DEF ClaimRun, At, ReleaseThen, Drain
  <2>. QED
    BY <2>2, <2>3, <2>4 DEF DrainOK
<1>10. ASSUME NEW c \in Campaigns, Place(c) PROVE HandsProcessing'
  BY <1>10 DEF Place, At, ReleaseThen, Goto, Drain, Fault, NoFault
<1>11. ASSUME NEW c \in Campaigns, ProviderPause(c) PROVE HandsProcessing'
  BY <1>11 DEF ProviderPause, At, SetPaused, Fault, NoFault, Goto, Drain
<1>12. ASSUME NEW c \in Campaigns, CreateOutboundRun(c) PROVE HandsProcessing'
  BY <1>12 DEF CreateOutboundRun, At, ReleaseThen, Drain, Fault, NoFault, AddInflight
<1>13. ASSUME NEW c \in Campaigns, Dial(c) PROVE HandsProcessing'
  BY <1>13 DEF Dial, At, ReleaseThen, Drain, AddInflight
<1>14. ASSUME NEW c \in Campaigns, DrainRelease(c) PROVE HandsProcessing'
  <2>1. \A k \in Campaigns \ {c} : drain'[k] = drain[k]
    BY <1>14 DEF DrainRelease, IdleDrain, Drain
  <2>2. HasRow(c)' => HasRow(c) /\ drain'[c].row = drain[c].row
    BY <1>14 DEF DrainRelease, At, AfterRelease, IdleDrain, Drain, DrainOK
  <2>3. UNCHANGED rowState
    BY <1>14 DEF DrainRelease
  <2>. QED
    BY <2>1, <2>2, <2>3
<1>15. ASSUME NEW c \in Campaigns, DrainOutcome(c) PROVE HandsProcessing'
  BY <1>15 DEF DrainOutcome, At, Goto, Drain
<1>16. ASSUME NEW c \in Campaigns, DrainTripped(c) PROVE HandsProcessing'
  BY <1>16 DEF DrainTripped, At, SetPaused, NoFault, Fault, Goto, Drain
<1>17. ASSUME NEW c \in Campaigns, DrainMarkNotConnected(c) PROVE HandsProcessing'
  BY <1>17 DEF DrainMarkNotConnected, At, CompleteRun, NoFault, Fault, Goto, Drain
<1>18. ASSUME NEW c \in Campaigns, SetRow(c) PROVE HandsProcessing'
  <2>1. drain[c].row \in Rows /\ CampaignOfRow(drain[c].row) = c
    BY <1>18 DEF SetRow, At, DrainOK
  <2>2. ~HasRow(c)' /\ \A k \in Campaigns \ {c} : drain'[k] = drain[k]
    BY <1>18 DEF SetRow, IdleDrain, GatesDrain, Drain
  <2>3. \A q \in Rows : CampaignOfRow(q) # c => rowState'[q] = rowState[q]
    BY <1>18, <2>1 DEF SetRow, SetRunState
  <2>. QED
    BY <2>2, <2>3 DEF DrainOK
<1>19. ASSUME NEW c \in Campaigns, FirstInflightCheck(c) PROVE HandsProcessing'
  BY <1>19 DEF FirstInflightCheck, CheckInflight, At, Stop, IdleDrain, Goto, Drain
<1>20. ASSUME NEW c \in Campaigns, OpenWork(c) PROVE HandsProcessing'
  BY <1>20 DEF OpenWork, At, Stop, IdleDrain, Goto, Drain, Fault, NoFault
<1>21. ASSUME NEW c \in Campaigns, SecondInflightCheck(c) PROVE HandsProcessing'
  BY <1>21 DEF SecondInflightCheck, CheckInflight, At, Stop, IdleDrain, Goto, Drain
<1>22. ASSUME NEW c \in Campaigns, CompleteCampaign(c) PROVE HandsProcessing'
  BY <1>22 DEF CompleteCampaign, At, NoFault, Fault, Stop, IdleDrain, Drain
<1>23. ASSUME NEW c \in Campaigns, UIPause(c) PROVE HandsProcessing'
  BY <1>23 DEF UIPause
<1>24. ASSUME NEW c \in Campaigns, UIResume(c) PROVE HandsProcessing'
  BY <1>24 DEF UIResume
<1>25. ASSUME NEW r \in Runs, FinRelease(r) PROVE HandsProcessing'
  BY <1>25 DEF FinRelease, NoFault, Fault, FinGoto
<1>26. ASSUME NEW r \in Runs, FinOutcome(r) PROVE HandsProcessing'
  BY <1>26 DEF FinOutcome, FinGoto
<1>27. ASSUME NEW r \in Runs, FinTripped(r) PROVE HandsProcessing'
  BY <1>27 DEF FinTripped, SetPaused, NoFault, Fault, FinGoto
<1>28. ASSUME NEW r \in Runs, FinRetry(r) PROVE HandsProcessing'
  <2>1. \A q \in Rows : rowState[q] # "absent" => rowState'[q] = rowState[q]
    BY <1>28 DEF FinRetry
  <2>2. UNCHANGED drain
    BY <1>28 DEF FinRetry
  <2>. QED
    BY <2>1, <2>2 DEF DrainOK
<1>29. ASSUME NEW r \in Runs, FinMarkNotConnected(r) PROVE HandsProcessing'
  BY <1>29 DEF FinMarkNotConnected, CompleteRun, NoFault, Fault, FinGoto
<1>30. ASSUME NEW r \in Runs, FinEnd(r) PROVE HandsProcessing'
  BY <1>30 DEF FinEnd, FinGoto, AddInflight
<1>31. ASSUME NEW r \in Runs, AgentStarted(r) PROVE HandsProcessing'
  BY <1>31 DEF AgentStarted
<1>32. ASSUME NEW r \in Runs, MarkRunRunning(r) PROVE HandsProcessing'
  BY <1>32 DEF MarkRunRunning, CompleteRun, NoFault, Fault
<1>33. ASSUME NEW r \in Runs, FinishRun(r) PROVE HandsProcessing'
  BY <1>33 DEF FinishRun, CompleteRun, NoFault, Fault
<1>34. ASSUME NEW r \in Runs, Answered(r) PROVE HandsProcessing'
  BY <1>34 DEF Answered
<1>35. ASSUME NEW r \in Runs, Unanswered(r) PROVE HandsProcessing'
  BY <1>35 DEF Unanswered, Done, FinGoto
<1>36. ASSUME NEW r \in Runs, HungUp(r) PROVE HandsProcessing'
  BY <1>36 DEF HungUp, Done, FinGoto
<1>37. ASSUME NEW r \in Runs, SweepMark(r) PROVE HandsProcessing'
  BY <1>37 DEF SweepMark, CompleteRun, NoFault, Fault
<1>38. ASSUME NEW r \in Runs, RunGetsOld(r) PROVE HandsProcessing'
  BY <1>38 DEF RunGetsOld
<1>39. ASSUME RecoverContacts PROVE HandsProcessing'
  BY <1>39 DEF RecoverContacts, DialInv, RecoverIdle
<1>40. ASSUME SweepQuery PROVE HandsProcessing'
  BY <1>40 DEF SweepQuery, NoFault, Fault
<1>41. ASSUME SweepEnd PROVE HandsProcessing'
  BY <1>41 DEF SweepEnd
<1>42. ASSUME SweepSnapshot PROVE HandsProcessing'
  BY <1>42 DEF SweepSnapshot
<1>43. ASSUME Crash PROVE HandsProcessing'
  BY <1>43 DEF Crash, IdleDrain, Drain
<1>44. ASSUME NEW q \in Rows, RetryDue(q) PROVE HandsProcessing'
  BY <1>44 DEF RetryDue
<1>45. ASSUME NEW s \in SlotIds, SlotAges(s) PROVE HandsProcessing'
  BY <1>45 DEF SlotAges
<1>46. ASSUME NEW c \in Campaigns, Scan(c) \/ GatesPass(c) \/ GatesStop(c) \/ DrainStep(c) PROVE HandsProcessing'
  BY <1>46, <1>1, <1>2, <1>3, <1>4, <1>5, <1>6, <1>7, <1>8, <1>9, <1>10, <1>11, <1>12, <1>13,
     <1>14, <1>15, <1>16, <1>17, <1>18, <1>19, <1>20, <1>21, <1>22 DEF DrainStep
<1>47. ASSUME NEW r \in Runs, FinStep(r) \/ AgentStep(r) PROVE HandsProcessing'
  BY <1>47, <1>25, <1>26, <1>27, <1>28, <1>29, <1>30, <1>31, <1>32, <1>33 DEF FinStep, AgentStep
<1>48. ASSUME RunStep PROVE HandsProcessing'
  BY <1>48, <1>39, <1>40, <1>41, <1>37 DEF RunStep
<1>49. CASE UNCHANGED vars
  BY <1>49
<1>50. ASSUME Next PROVE HandsProcessing'
  BY <1>50, <1>46, <1>47, <1>48, <1>34, <1>35, <1>36, <1>23, <1>24, <1>44, <1>38, <1>45, <1>42,
     <1>43 DEF Next
<1>. QED
  BY <1>49, <1>50


\* A drain goroutine's move that touches no row and no call and takes up no row.
LEMMA PlacedFrame ==
    ASSUME PlacedRows, NEW c \in Campaigns,
           \A k \in Campaigns \ {c} : drain'[k] = drain[k],
           HasRow(c)' => /\ HasRow(c) /\ drain'[c].row = drain[c].row
                         /\ ~(drain[c].pc = "setrow" /\ drain[c].to = "processed"),
           UNCHANGED <<rowState, call, out, fin>>
    PROVE  PlacedRows'
  BY DEF PlacedRows, Placed, Live, HasRow

\* The row of a call that was placed is not failed, nor about to be.
LEMMA PlacedStep ==
    ASSUME ~DoneAfterDialError, TypeOK, DrainOK, DialInv, SlotInv, HandsProcessing, PlacedRows, [Next]_vars
    PROVE  PlacedRows'
<1>0. /\ drain \in [Campaigns -> DrainRecords] /\ rowState \in [Rows -> RowStates]
      /\ call \in [Runs -> {"none", "ringing", "up", "over"}] /\ fin \in [Runs -> FinPcs]
      /\ out \in [Runs -> Outcomes] /\ \A r \in Runs : r[1] \in Rows
  BY CampaignType DEF TypeOK
<1>0a. \A r \in Runs : Placed(r) => Dialed(r) /\ rowState[r[1]] \in {"processing", "processed"}
  BY DEF PlacedRows, Placed, Live, Dialed, DialInv, DialedPastQueue
<1>. USE DialerAssumption, <1>0 DEF vars, dbVars, procVars, callVars, DrainPcs, DrainRecords
<1>1. ASSUME NEW c \in Campaigns, Scan(c) PROVE PlacedRows'
  <2>1. \A k \in Campaigns \ {c} : drain'[k] = drain[k]
    BY <1>1 DEF Scan, GatesDrain, Drain
  <2>2. HasRow(c)' => /\ HasRow(c) /\ drain'[c].row = drain[c].row
                     /\ ~(drain[c].pc = "setrow" /\ drain[c].to = "processed")
    BY <1>1 DEF Scan, GatesDrain, Drain, HasRow, GivenBackOrSettled, DrainOK
  <2>. QED
    BY <1>1, <2>1, <2>2, PlacedFrame DEF Scan
<1>2. ASSUME NEW c \in Campaigns, GatesPass(c) PROVE PlacedRows'
  <2>1. \A k \in Campaigns \ {c} : drain'[k] = drain[k]
    BY <1>2 DEF GatesPass, At, Goto, Drain
  <2>2. HasRow(c)' => /\ HasRow(c) /\ drain'[c].row = drain[c].row
                     /\ ~(drain[c].pc = "setrow" /\ drain[c].to = "processed")
    BY <1>2 DEF GatesPass, At, Goto, Drain, HasRow, GivenBackOrSettled, DrainOK
  <2>. QED
    BY <1>2, <2>1, <2>2, PlacedFrame DEF GatesPass
<1>3. ASSUME NEW c \in Campaigns, GatesStop(c) PROVE PlacedRows'
  <2>1. \A k \in Campaigns \ {c} : drain'[k] = drain[k]
    BY <1>3 DEF GatesStop, At, Stop, IdleDrain, Drain
  <2>2. HasRow(c)' => /\ HasRow(c) /\ drain'[c].row = drain[c].row
                     /\ ~(drain[c].pc = "setrow" /\ drain[c].to = "processed")
    BY <1>3 DEF GatesStop, At, Stop, IdleDrain, Drain, HasRow, GivenBackOrSettled, DrainOK
  <2>. QED
    BY <1>3, <2>1, <2>2, PlacedFrame DEF GatesStop
<1>4. ASSUME NEW c \in Campaigns, GatesTrip(c) PROVE PlacedRows'
  <2>1. \A k \in Campaigns \ {c} : drain'[k] = drain[k]
    BY <1>4 DEF GatesTrip, At, Goto, Drain
  <2>2. HasRow(c)' => /\ HasRow(c) /\ drain'[c].row = drain[c].row
                     /\ ~(drain[c].pc = "setrow" /\ drain[c].to = "processed")
    BY <1>4 DEF GatesTrip, At, Goto, Drain, HasRow, GivenBackOrSettled, DrainOK
  <2>. QED
    BY <1>4, <2>1, <2>2, PlacedFrame DEF GatesTrip
<1>5. ASSUME NEW c \in Campaigns, GatesPause(c) PROVE PlacedRows'
  <2>1. \A k \in Campaigns \ {c} : drain'[k] = drain[k]
    BY <1>5 DEF GatesPause, At, Stop, IdleDrain, Drain
  <2>2. HasRow(c)' => /\ HasRow(c) /\ drain'[c].row = drain[c].row
                     /\ ~(drain[c].pc = "setrow" /\ drain[c].to = "processed")
    BY <1>5 DEF GatesPause, At, Stop, IdleDrain, Drain, HasRow, GivenBackOrSettled, DrainOK
  <2>. QED
    BY <1>5, <2>1, <2>2, PlacedFrame DEF GatesPause
<1>6. ASSUME NEW c \in Campaigns, TakeCapacity(c) PROVE PlacedRows'
  <2>1. \A k \in Campaigns \ {c} : drain'[k] = drain[k]
    BY <1>6 DEF TakeCapacity, At, Stop, IdleDrain, Drain
  <2>2. HasRow(c)' => /\ HasRow(c) /\ drain'[c].row = drain[c].row
                     /\ ~(drain[c].pc = "setrow" /\ drain[c].to = "processed")
    BY <1>6 DEF TakeCapacity, At, Stop, IdleDrain, Drain, HasRow, GivenBackOrSettled, DrainOK
  <2>. QED
    BY <1>6, <2>1, <2>2, PlacedFrame DEF TakeCapacity
<1>7. ASSUME NEW c \in Campaigns, TakeOrgSlot(c) PROVE PlacedRows'
  <2>1. \A k \in Campaigns \ {c} : drain'[k] = drain[k]
    BY <1>7 DEF TakeOrgSlot, At, Goto, Drain
  <2>2. HasRow(c)' => /\ HasRow(c) /\ drain'[c].row = drain[c].row
                     /\ ~(drain[c].pc = "setrow" /\ drain[c].to = "processed")
    BY <1>7 DEF TakeOrgSlot, At, Goto, Drain, HasRow, GivenBackOrSettled, DrainOK
  <2>. QED
    BY <1>7, <2>1, <2>2, PlacedFrame DEF TakeOrgSlot
<1>8. ASSUME NEW c \in Campaigns, DropCapacity(c) PROVE PlacedRows'
  <2>1. \A k \in Campaigns \ {c} : drain'[k] = drain[k]
    BY <1>8 DEF DropCapacity, At, Stop, IdleDrain, Drain
  <2>2. HasRow(c)' => /\ HasRow(c) /\ drain'[c].row = drain[c].row
                     /\ ~(drain[c].pc = "setrow" /\ drain[c].to = "processed")
    BY <1>8 DEF DropCapacity, At, Stop, IdleDrain, Drain, HasRow, GivenBackOrSettled, DrainOK
  <2>. QED
    BY <1>8, <2>1, <2>2, PlacedFrame DEF DropCapacity
<1>9. ASSUME NEW c \in Campaigns, ClaimRun(c) PROVE PlacedRows'
  <2>1. \A q \in NextRows(c) : q \in Rows /\ rowState[q] = "queued"
    BY <1>9 DEF NextRows, DueRows
  <2>2. \A k \in Campaigns \ {c} : drain'[k] = drain[k]
    BY <1>9 DEF ClaimRun, ReleaseThen, Drain
  <2>3. \A q \in Rows : rowState[q] # "queued" => rowState'[q] = rowState[q]
    BY <1>9, <2>1 DEF ClaimRun
  <2>4. HasRow(c)' => drain'[c].row \in Rows /\ rowState[drain'[c].row] = "queued"
    BY <1>9, <2>1 DEF ClaimRun, At, ReleaseThen, Drain, HasRow, GivenBackOrSettled
  <2>5. UNCHANGED <<call, out, fin>>
    BY <1>9 DEF ClaimRun
  <2>. QED
    BY <1>0a, <2>2, <2>3, <2>4, <2>5 DEF PlacedRows, Placed, Live, HasRow
<1>10. ASSUME NEW c \in Campaigns, Place(c) PROVE PlacedRows'
  <2>1. \A k \in Campaigns \ {c} : drain'[k] = drain[k]
    BY <1>10 DEF Place, At, ReleaseThen, Goto, Drain
  <2>2. HasRow(c)' => /\ HasRow(c) /\ drain'[c].row = drain[c].row
                     /\ ~(drain[c].pc = "setrow" /\ drain[c].to = "processed")
    BY <1>10 DEF Place, At, ReleaseThen, Goto, Drain, HasRow, GivenBackOrSettled, DrainOK
  <2>. QED
    BY <1>10, <2>1, <2>2, PlacedFrame DEF Place
<1>11. ASSUME NEW c \in Campaigns, ProviderPause(c) PROVE PlacedRows'
  <2>1. \A k \in Campaigns \ {c} : drain'[k] = drain[k]
    BY <1>11 DEF ProviderPause, At, Goto, Drain
  <2>2. HasRow(c)' => /\ HasRow(c) /\ drain'[c].row = drain[c].row
                     /\ ~(drain[c].pc = "setrow" /\ drain[c].to = "processed")
    BY <1>11 DEF ProviderPause, At, Goto, Drain, HasRow, GivenBackOrSettled, DrainOK
  <2>. QED
    BY <1>11, <2>1, <2>2, PlacedFrame DEF ProviderPause
<1>12. ASSUME NEW c \in Campaigns, CreateOutboundRun(c) PROVE PlacedRows'
  <2>1. \A k \in Campaigns \ {c} : drain'[k] = drain[k]
    BY <1>12 DEF CreateOutboundRun, At, ReleaseThen, Drain
  <2>2. HasRow(c)' => /\ HasRow(c) /\ drain'[c].row = drain[c].row
                     /\ ~(drain[c].pc = "setrow" /\ drain[c].to = "processed")
    BY <1>12 DEF CreateOutboundRun, At, ReleaseThen, Drain, HasRow, GivenBackOrSettled, DrainOK
  <2>. QED
    BY <1>12, <2>1, <2>2, PlacedFrame DEF CreateOutboundRun
<1>13. ASSUME NEW c \in Campaigns, Dial(c) PROVE PlacedRows'
  <2>. DEFINE run == drain[c].run
  <2>1. /\ drain[c].pc = "dial" /\ run \in Runs /\ run[1] = drain[c].row /\ CampaignOfRow(drain[c].row) = c
        /\ \A k \in Campaigns \ {c} : drain'[k] = drain[k]
    BY <1>13 DEF Dial, At, ReleaseThen, Drain, DrainOK, HasRow
  <2>2. /\ rowState[run[1]] = "processing" /\ \A r \in Runs : r[1] = run[1] => ~Placed(r) /\ out[r] = "none" /\ ~Live(r)
    BY <1>0a, <2>1 DEF DialInv, HeldUndialed, Holding, Placed
  <2>3. \A k \in Campaigns : k # c /\ HasRow(k) => drain[k].row # run[1]
    BY <2>1 DEF DrainOK
  <2>4. UNCHANGED <<rowState, out, fin>> /\ \A r \in Runs : r # run => call'[r] = call[r]
    BY <1>13, <2>1 DEF Dial
  <2>5. CASE /\ call'[run] = "ringing" /\ drain'[c].pc = "setrow" /\ drain'[c].to = "processed"
             /\ drain'[c].row = drain[c].row
    <3>1. \A r \in Runs : Placed(r)' => Placed(r) \/ r = run
      BY <2>4 DEF Placed, Live
    <3>2. \A r \in Runs : Placed(r)' => rowState'[r[1]] # "failed"
      BY <3>1, <2>2, <2>4, <1>0a
    <3>3. \A r \in Runs, k \in Campaigns : Placed(r)' /\ HasRow(k)' /\ drain'[k].row = r[1]
                => drain'[k].pc = "setrow" /\ drain'[k].to = "processed"
      BY <3>1, <2>1, <2>3, <2>5 DEF PlacedRows, HasRow
    <3>4. \A r \in Runs : out'[r] # "none" => call'[r] = "over"
      BY <2>1, <2>2, <2>4 DEF PlacedRows
    <3>. QED
      BY <2>4, <3>2, <3>3, <3>4 DEF PlacedRows
  <2>6. CASE call'[run] = "over"
    <3>1. \A r \in Runs : Placed(r)' => Placed(r) /\ r[1] # run[1]
      BY <2>1, <2>2, <2>4, <2>6 DEF Placed, Live
    <3>2. drain'[c].row = drain[c].row
      BY <1>13 DEF Dial, ReleaseThen, Drain
    <3>3. \A r \in Runs, k \in Campaigns : Placed(r)' /\ HasRow(k)' /\ drain'[k].row = r[1]
                => drain'[k].pc = "setrow" /\ drain'[k].to = "processed"
      BY <3>1, <3>2, <2>1 DEF PlacedRows, HasRow
    <3>4. \A r \in Runs : out'[r] # "none" => call'[r] = "over"
      BY <2>1, <2>2, <2>4, <2>6 DEF PlacedRows
    <3>. QED
      BY <2>4, <3>1, <3>3, <3>4 DEF PlacedRows
  <2>. QED
    BY <1>13, <2>1, <2>5, <2>6 DEF Dial, ReleaseThen, Drain
<1>14. ASSUME NEW c \in Campaigns, DrainRelease(c) PROVE PlacedRows'
  <2>1. \A k \in Campaigns \ {c} : drain'[k] = drain[k]
    BY <1>14 DEF DrainRelease, At, AfterRelease, IdleDrain, Drain
  <2>2. HasRow(c)' => /\ HasRow(c) /\ drain'[c].row = drain[c].row
                     /\ ~(drain[c].pc = "setrow" /\ drain[c].to = "processed")
    BY <1>14 DEF DrainRelease, At, AfterRelease, IdleDrain, Drain, HasRow, GivenBackOrSettled, DrainOK
  <2>. QED
    BY <1>14, <2>1, <2>2, PlacedFrame DEF DrainRelease
<1>15. ASSUME NEW c \in Campaigns, DrainOutcome(c) PROVE PlacedRows'
  <2>1. \A k \in Campaigns \ {c} : drain'[k] = drain[k]
    BY <1>15 DEF DrainOutcome, At, Goto, Drain
  <2>2. HasRow(c)' => /\ HasRow(c) /\ drain'[c].row = drain[c].row
                     /\ ~(drain[c].pc = "setrow" /\ drain[c].to = "processed")
    BY <1>15 DEF DrainOutcome, At, Goto, Drain, HasRow, GivenBackOrSettled, DrainOK
  <2>. QED
    BY <1>15, <2>1, <2>2, PlacedFrame DEF DrainOutcome
<1>16. ASSUME NEW c \in Campaigns, DrainTripped(c) PROVE PlacedRows'
  <2>1. \A k \in Campaigns \ {c} : drain'[k] = drain[k]
    BY <1>16 DEF DrainTripped, At, Goto, Drain
  <2>2. HasRow(c)' => /\ HasRow(c) /\ drain'[c].row = drain[c].row
                     /\ ~(drain[c].pc = "setrow" /\ drain[c].to = "processed")
    BY <1>16 DEF DrainTripped, At, Goto, Drain, HasRow, GivenBackOrSettled, DrainOK
  <2>. QED
    BY <1>16, <2>1, <2>2, PlacedFrame DEF DrainTripped
<1>17. ASSUME NEW c \in Campaigns, DrainMarkNotConnected(c) PROVE PlacedRows'
  <2>1. \A k \in Campaigns \ {c} : drain'[k] = drain[k]
    BY <1>17 DEF DrainMarkNotConnected, At, Goto, Drain
  <2>2. HasRow(c)' => /\ HasRow(c) /\ drain'[c].row = drain[c].row
                     /\ ~(drain[c].pc = "setrow" /\ drain[c].to = "processed")
    BY <1>17 DEF DrainMarkNotConnected, At, Goto, Drain, HasRow, GivenBackOrSettled, DrainOK
  <2>. QED
    BY <1>17, <2>1, <2>2, PlacedFrame DEF DrainMarkNotConnected
<1>18. ASSUME NEW c \in Campaigns, SetRow(c) PROVE PlacedRows'
  <2>1. /\ drain[c].pc = "setrow" /\ drain[c].row \in Rows /\ drain[c].to \in GivenBackOrSettled
        /\ CampaignOfRow(drain[c].row) = c
    BY <1>18 DEF SetRow, At, DrainOK, HasRow
  <2>2. ~HasRow(c)' /\ \A k \in Campaigns \ {c} : drain'[k] = drain[k]
    BY <1>18 DEF SetRow, IdleDrain, GatesDrain, Drain, HasRow
  <2>3. \A q \in Rows : q # drain[c].row => rowState'[q] = rowState[q]
    BY <1>18, <2>1 DEF SetRow, SetRunState
  <2>4. rowState'[drain[c].row] \in {drain[c].to, rowState[drain[c].row]}
    BY <1>18, <2>1 DEF SetRow, SetRunState
  <2>5. \A r \in Runs : Placed(r) /\ r[1] = drain[c].row => drain[c].to = "processed"
    BY <2>1 DEF PlacedRows, HasRow
  <2>6. UNCHANGED <<call, out, fin>>
    BY <1>18 DEF SetRow
  <2>. QED
    BY <2>2, <2>3, <2>4, <2>5, <2>6 DEF PlacedRows, Placed, Live, HasRow
<1>19. ASSUME NEW c \in Campaigns, FirstInflightCheck(c) PROVE PlacedRows'
  <2>1. \A k \in Campaigns \ {c} : drain'[k] = drain[k]
    BY <1>19 DEF FirstInflightCheck, CheckInflight, At, Stop, Goto, IdleDrain, Drain
  <2>2. HasRow(c)' => /\ HasRow(c) /\ drain'[c].row = drain[c].row
                     /\ ~(drain[c].pc = "setrow" /\ drain[c].to = "processed")
    BY <1>19 DEF FirstInflightCheck, CheckInflight, At, Stop, Goto, IdleDrain, Drain, HasRow, GivenBackOrSettled, DrainOK
  <2>. QED
    BY <1>19, <2>1, <2>2, PlacedFrame DEF FirstInflightCheck, CheckInflight
<1>20. ASSUME NEW c \in Campaigns, OpenWork(c) PROVE PlacedRows'
  <2>1. \A k \in Campaigns \ {c} : drain'[k] = drain[k]
    BY <1>20 DEF OpenWork, At, Stop, Goto, IdleDrain, Drain
  <2>2. HasRow(c)' => /\ HasRow(c) /\ drain'[c].row = drain[c].row
                     /\ ~(drain[c].pc = "setrow" /\ drain[c].to = "processed")
    BY <1>20 DEF OpenWork, At, Stop, Goto, IdleDrain, Drain, HasRow, GivenBackOrSettled, DrainOK
  <2>. QED
    BY <1>20, <2>1, <2>2, PlacedFrame DEF OpenWork
<1>21. ASSUME NEW c \in Campaigns, SecondInflightCheck(c) PROVE PlacedRows'
  <2>1. \A k \in Campaigns \ {c} : drain'[k] = drain[k]
    BY <1>21 DEF SecondInflightCheck, CheckInflight, At, Stop, Goto, IdleDrain, Drain
  <2>2. HasRow(c)' => /\ HasRow(c) /\ drain'[c].row = drain[c].row
                     /\ ~(drain[c].pc = "setrow" /\ drain[c].to = "processed")
    BY <1>21 DEF SecondInflightCheck, CheckInflight, At, Stop, Goto, IdleDrain, Drain, HasRow, GivenBackOrSettled, DrainOK
  <2>. QED
    BY <1>21, <2>1, <2>2, PlacedFrame DEF SecondInflightCheck, CheckInflight
<1>22. ASSUME NEW c \in Campaigns, CompleteCampaign(c) PROVE PlacedRows'
  <2>1. \A k \in Campaigns \ {c} : drain'[k] = drain[k]
    BY <1>22 DEF CompleteCampaign, At, Stop, IdleDrain, Drain
  <2>2. HasRow(c)' => /\ HasRow(c) /\ drain'[c].row = drain[c].row
                     /\ ~(drain[c].pc = "setrow" /\ drain[c].to = "processed")
    BY <1>22 DEF CompleteCampaign, At, Stop, IdleDrain, Drain, HasRow, GivenBackOrSettled, DrainOK
  <2>. QED
    BY <1>22, <2>1, <2>2, PlacedFrame DEF CompleteCampaign
<1>23. ASSUME NEW c \in Campaigns, UIPause(c) PROVE PlacedRows'
  BY <1>23 DEF UIPause, PlacedRows, Placed, Live, HasRow
<1>24. ASSUME NEW c \in Campaigns, UIResume(c) PROVE PlacedRows'
  BY <1>24 DEF UIResume, PlacedRows, Placed, Live, HasRow
<1>25. ASSUME NEW r \in Runs, FinRelease(r) PROVE PlacedRows'
  BY <1>25 DEF FinRelease, FinGoto, PlacedRows, Placed, Live, HasRow
<1>26. ASSUME NEW r \in Runs, FinOutcome(r) PROVE PlacedRows'
  BY <1>26 DEF FinOutcome, FinGoto, AfterOutcome, PlacedRows, Placed, Live, HasRow
<1>27. ASSUME NEW r \in Runs, FinTripped(r) PROVE PlacedRows'
  BY <1>27 DEF FinTripped, FinGoto, AfterOutcome, PlacedRows, Placed, Live, HasRow
<1>28. ASSUME NEW r \in Runs, FinRetry(r) PROVE PlacedRows'
  <2>1. \A q \in Rows : rowState[q] = "failed" <=> rowState'[q] = "failed"
    BY <1>28 DEF FinRetry
  <2>2. UNCHANGED <<drain, call, out>>
    BY <1>28 DEF FinRetry
  <2>3. \A x \in Runs : fin'[x] # "none" => fin[x] # "none" /\ (fin'[x] = "retry" => fin[x] = "retry")
    BY <1>28 DEF FinRetry, FinGoto
  <2>. QED
    BY <2>1, <2>2, <2>3 DEF PlacedRows, Placed, Live, HasRow
<1>29. ASSUME NEW r \in Runs, FinMarkNotConnected(r) PROVE PlacedRows'
  BY <1>29 DEF FinMarkNotConnected, FinGoto, PlacedRows, Placed, Live, HasRow
<1>30. ASSUME NEW r \in Runs, FinEnd(r) PROVE PlacedRows'
  BY <1>30 DEF FinEnd, FinGoto, PlacedRows, Placed, Live, HasRow
<1>31. ASSUME NEW r \in Runs, AgentStarted(r) PROVE PlacedRows'
  BY <1>31 DEF AgentStarted, PlacedRows, Placed, Live, HasRow
<1>32. ASSUME NEW r \in Runs, MarkRunRunning(r) PROVE PlacedRows'
  BY <1>32 DEF MarkRunRunning, PlacedRows, Placed, Live, HasRow
<1>33. ASSUME NEW r \in Runs, FinishRun(r) PROVE PlacedRows'
  BY <1>33 DEF FinishRun, PlacedRows, Placed, Live, HasRow
<1>34. ASSUME NEW r \in Runs, Answered(r) PROVE PlacedRows'
  BY <1>34 DEF Answered, PlacedRows, Placed, Live, HasRow
<1>35. ASSUME NEW r \in Runs, Unanswered(r) PROVE PlacedRows'
  <2>1. Live(r) /\ call'[r] = "over" /\ out'[r] # "none" /\ fin'[r] = "release"
    BY <1>35 DEF Unanswered, Done, FinGoto, Live
  <2>2. \A x \in Runs : x # r => call'[x] = call[x] /\ out'[x] = out[x] /\ fin'[x] = fin[x]
    BY <1>35 DEF Unanswered, Done, FinGoto
  <2>3. UNCHANGED <<rowState, drain>>
    BY <1>35 DEF Unanswered, Done
  <2>. QED
    BY <2>1, <2>2, <2>3 DEF PlacedRows, Placed, Live, HasRow
<1>36. ASSUME NEW r \in Runs, HungUp(r) PROVE PlacedRows'
  <2>1. Live(r) /\ call'[r] = "over" /\ out'[r] # "none" /\ fin'[r] = "release"
    BY <1>36 DEF HungUp, Done, FinGoto, Live
  <2>2. \A x \in Runs : x # r => call'[x] = call[x] /\ out'[x] = out[x] /\ fin'[x] = fin[x]
    BY <1>36 DEF HungUp, Done, FinGoto
  <2>3. UNCHANGED <<rowState, drain>>
    BY <1>36 DEF HungUp, Done
  <2>. QED
    BY <2>1, <2>2, <2>3 DEF PlacedRows, Placed, Live, HasRow
<1>37. ASSUME NEW r \in Runs, SweepMark(r) PROVE PlacedRows'
  BY <1>37 DEF SweepMark, PlacedRows, Placed, Live, HasRow
<1>38. ASSUME NEW r \in Runs, RunGetsOld(r) PROVE PlacedRows'
  BY <1>38 DEF RunGetsOld, PlacedRows, Placed, Live, HasRow
<1>39. ASSUME RecoverContacts PROVE PlacedRows'
  <2>1. \A q \in Rows : rowState'[q] = "failed" => rowState[q] = "failed"
    BY <1>39 DEF RecoverContacts
  <2>2. UNCHANGED <<drain, call, out, fin>>
    BY <1>39 DEF RecoverContacts
  <2>. QED
    BY <2>1, <2>2 DEF PlacedRows, Placed, Live, HasRow
<1>40. ASSUME SweepQuery PROVE PlacedRows'
  BY <1>40 DEF SweepQuery, PlacedRows, Placed, Live, HasRow
<1>41. ASSUME SweepEnd PROVE PlacedRows'
  BY <1>41 DEF SweepEnd, PlacedRows, Placed, Live, HasRow
<1>42. ASSUME SweepSnapshot PROVE PlacedRows'
  BY <1>42 DEF SweepSnapshot, PlacedRows, Placed, Live, HasRow
<1>43. ASSUME Crash PROVE PlacedRows'
  BY <1>43 DEF Crash, IdleDrain, Drain, PlacedRows, Placed, Live, HasRow
<1>44. ASSUME NEW q \in Rows, RetryDue(q) PROVE PlacedRows'
  BY <1>44 DEF RetryDue, PlacedRows, Placed, Live, HasRow
<1>45. ASSUME NEW s \in SlotIds, SlotAges(s) PROVE PlacedRows'
  BY <1>45 DEF SlotAges, PlacedRows, Placed, Live, HasRow
<1>46. ASSUME NEW c \in Campaigns, Scan(c) \/ GatesPass(c) \/ GatesStop(c) \/ DrainStep(c) PROVE PlacedRows'
  BY <1>46, <1>1, <1>2, <1>3, <1>4, <1>5, <1>6, <1>7, <1>8, <1>9, <1>10, <1>11, <1>12, <1>13,
     <1>14, <1>15, <1>16, <1>17, <1>18, <1>19, <1>20, <1>21, <1>22 DEF DrainStep
<1>47. ASSUME NEW r \in Runs, FinStep(r) \/ AgentStep(r) PROVE PlacedRows'
  BY <1>47, <1>25, <1>26, <1>27, <1>28, <1>29, <1>30, <1>31, <1>32, <1>33 DEF FinStep, AgentStep
<1>48. ASSUME RunStep PROVE PlacedRows'
  BY <1>48, <1>39, <1>40, <1>41, <1>37 DEF RunStep
<1>49. CASE UNCHANGED vars
  BY <1>49 DEF vars, PlacedRows, Placed, Live, HasRow
<1>50. ASSUME Next PROVE PlacedRows'
  BY <1>50, <1>46, <1>47, <1>48, <1>34, <1>35, <1>36, <1>23, <1>24, <1>44, <1>38, <1>45, <1>42,
     <1>43 DEF Next
<1>. QED
  BY <1>49, <1>50


-----------------------------------------------------------------------------
\* What a step that settles no row and schedules no retry leaves as it was.
RowsKept ==
    /\ UNCHANGED <<processedRows, failedRows>>
    /\ \A q \in Rows : /\ rowState'[q] = "failed" <=> rowState[q] = "failed"
                       /\ rowState'[q] = "absent" <=> rowState[q] = "absent"
                       /\ Clean' => (rowState'[q] = "processed" <=> rowState[q] = "processed")
                       /\ Clean' /\ main' = "recover" /\ rowState'[q] = "processing"
                              => main = "recover" /\ rowState[q] = "processing"
    /\ \A r \in Runs : /\ out[r] # "none" => out'[r] = out[r]
                       /\ Late(r) => Late(r)'
                       /\ Clean' => (Late(r)' => Late(r))
RowSettled(c) == SetRow(c) /\ NoFault
RetrySettled(r) == FinRetry(r) /\ NoFault

\* What a step is to the rows.
LEMMA RowSteps ==
    ASSUME TypeOK, DrainOK, SlotInv, PlacedInv, CleanRows, [Next]_vars
    PROVE  RowsKept \/ (\E c \in Campaigns : RowSettled(c)) \/ (\E r \in Runs : RetrySettled(r))
<1>. DEFINE Goal == RowsKept \/ (\E c \in Campaigns : RowSettled(c)) \/ (\E r \in Runs : RetrySettled(r))
<1>0. /\ drain \in [Campaigns -> DrainRecords] /\ rowState \in [Rows -> RowStates]
      /\ fin \in [Runs -> FinPcs] /\ out \in [Runs -> Outcomes] /\ faults \in Nat /\ restarts \in Nat
  BY DialerAssumption DEF TypeOK
<1>0a. Clean' => Clean
  BY CleanStep
<1>0b. \A c \in Campaigns : drain[c].pc # "idle" => main # "recover"
  BY DEF SlotInv, StartIdle
<1>. USE <1>0 DEF vars, dbVars, procVars, callVars
<1>1. ASSUME NEW c \in Campaigns, Scan(c) PROVE Goal
  BY <1>1 DEF Scan, RowsKept, Late
<1>2. ASSUME NEW c \in Campaigns, GatesPass(c) PROVE Goal
  BY <1>2 DEF GatesPass, RowsKept, Late
<1>3. ASSUME NEW c \in Campaigns, GatesStop(c) PROVE Goal
  BY <1>3 DEF GatesStop, RowsKept, Late
<1>4. ASSUME NEW c \in Campaigns, GatesTrip(c) PROVE Goal
  BY <1>4 DEF GatesTrip, RowsKept, Late
<1>5. ASSUME NEW c \in Campaigns, GatesPause(c) PROVE Goal
  BY <1>5 DEF GatesPause, RowsKept, Late
<1>6. ASSUME NEW c \in Campaigns, TakeCapacity(c) PROVE Goal
  BY <1>6 DEF TakeCapacity, RowsKept, Late
<1>7. ASSUME NEW c \in Campaigns, TakeOrgSlot(c) PROVE Goal
  BY <1>7 DEF TakeOrgSlot, RowsKept, Late
<1>8. ASSUME NEW c \in Campaigns, DropCapacity(c) PROVE Goal
  BY <1>8 DEF DropCapacity, RowsKept, Late
<1>9. ASSUME NEW c \in Campaigns, ClaimRun(c) PROVE Goal
  <2>1. \A q \in NextRows(c) : q \in Rows /\ rowState[q] = "queued"
    BY <1>9 DEF NextRows, DueRows
  <2>2. main # "recover" /\ UNCHANGED <<main, fin, out, processedRows, failedRows>>
    BY <1>9, <1>0b DEF ClaimRun, At
  <2>3. \A q \in Rows : rowState'[q] = rowState[q] \/ (rowState[q] = "queued" /\ rowState'[q] = "processing")
    BY <1>9, <2>1 DEF ClaimRun
  <2>. QED
    BY <2>2, <2>3 DEF RowsKept, Late
<1>10. ASSUME NEW c \in Campaigns, Place(c) PROVE Goal
  BY <1>10 DEF Place, RowsKept, Late
<1>11. ASSUME NEW c \in Campaigns, ProviderPause(c) PROVE Goal
  BY <1>11 DEF ProviderPause, RowsKept, Late
<1>12. ASSUME NEW c \in Campaigns, CreateOutboundRun(c) PROVE Goal
  BY <1>12 DEF CreateOutboundRun, RowsKept, Late
<1>13. ASSUME NEW c \in Campaigns, Dial(c) PROVE Goal
  BY <1>13 DEF Dial, RowsKept, Late
<1>14. ASSUME NEW c \in Campaigns, DrainRelease(c) PROVE Goal
  BY <1>14 DEF DrainRelease, RowsKept, Late
<1>15. ASSUME NEW c \in Campaigns, DrainOutcome(c) PROVE Goal
  BY <1>15 DEF DrainOutcome, RowsKept, Late
<1>16. ASSUME NEW c \in Campaigns, DrainTripped(c) PROVE Goal
  BY <1>16 DEF DrainTripped, RowsKept, Late
<1>17. ASSUME NEW c \in Campaigns, DrainMarkNotConnected(c) PROVE Goal
  BY <1>17 DEF DrainMarkNotConnected, RowsKept, Late
<1>18. ASSUME NEW c \in Campaigns, SetRow(c) PROVE Goal
  <2>1. CASE NoFault
    BY <1>18, <2>1 DEF RowSettled
  <2>2. CASE ~NoFault
    BY <1>18, <2>2 DEF SetRow, SetRunState, RowsKept, Late
  <2>. QED
    BY <2>1, <2>2
<1>19. ASSUME NEW c \in Campaigns, FirstInflightCheck(c) PROVE Goal
  BY <1>19 DEF FirstInflightCheck, CheckInflight, RowsKept, Late
<1>20. ASSUME NEW c \in Campaigns, OpenWork(c) PROVE Goal
  BY <1>20 DEF OpenWork, RowsKept, Late
<1>21. ASSUME NEW c \in Campaigns, SecondInflightCheck(c) PROVE Goal
  BY <1>21 DEF SecondInflightCheck, CheckInflight, RowsKept, Late
<1>22. ASSUME NEW c \in Campaigns, CompleteCampaign(c) PROVE Goal
  BY <1>22 DEF CompleteCampaign, RowsKept, Late
<1>23. ASSUME NEW c \in Campaigns, UIPause(c) PROVE Goal
  BY <1>23 DEF UIPause, RowsKept, Late
<1>24. ASSUME NEW c \in Campaigns, UIResume(c) PROVE Goal
  BY <1>24 DEF UIResume, RowsKept, Late
<1>25. ASSUME NEW r \in Runs, FinRelease(r) PROVE Goal
  BY <1>25 DEF FinRelease, FinGoto, BeforeRetry, RowsKept, Late
<1>26. ASSUME NEW r \in Runs, FinOutcome(r) PROVE Goal
  BY <1>26, RetryAssumption DEF FinOutcome, FinGoto, AfterOutcome, BeforeRetry, RowsKept, Late
<1>27. ASSUME NEW r \in Runs, FinTripped(r) PROVE Goal
  BY <1>27, RetryAssumption DEF FinTripped, FinGoto, AfterOutcome, BeforeRetry, RowsKept, Late
<1>28. ASSUME NEW r \in Runs, FinRetry(r) PROVE Goal
  <2>1. CASE NoFault
    BY <1>28, <2>1 DEF RetrySettled
  <2>2. CASE ~NoFault
    <3>1. ~Clean' /\ UNCHANGED <<rowState, failedRows, processedRows, out>>
      BY <1>28, <2>2 DEF FinRetry, Fault, Clean
    <3>2. \A x \in Runs : Late(x) => Late(x)'
      BY <1>28 DEF FinRetry, FinGoto, Late, BeforeRetry
    <3>. QED
      BY <3>1, <3>2 DEF RowsKept
  <2>. QED
    BY <2>1, <2>2
<1>29. ASSUME NEW r \in Runs, FinMarkNotConnected(r) PROVE Goal
  BY <1>29 DEF FinMarkNotConnected, FinGoto, BeforeRetry, RowsKept, Late
<1>30. ASSUME NEW r \in Runs, FinEnd(r) PROVE Goal
  BY <1>30 DEF FinEnd, FinGoto, BeforeRetry, RowsKept, Late
<1>31. ASSUME NEW r \in Runs, AgentStarted(r) PROVE Goal
  BY <1>31 DEF AgentStarted, RowsKept, Late
<1>32. ASSUME NEW r \in Runs, MarkRunRunning(r) PROVE Goal
  BY <1>32 DEF MarkRunRunning, RowsKept, Late
<1>33. ASSUME NEW r \in Runs, FinishRun(r) PROVE Goal
  BY <1>33 DEF FinishRun, RowsKept, Late
<1>34. ASSUME NEW r \in Runs, Answered(r) PROVE Goal
  BY <1>34 DEF Answered, RowsKept, Late
<1>35. ASSUME NEW r \in Runs, Unanswered(r) PROVE Goal
  <2>1. out[r] = "none" /\ fin'[r] = "release"
    BY <1>35 DEF Unanswered, Done, FinGoto, PlacedInv, PlacedRows
  <2>2. \A x \in Runs : x # r => out'[x] = out[x] /\ fin'[x] = fin[x]
    BY <1>35 DEF Unanswered, Done, FinGoto
  <2>3. UNCHANGED <<rowState, main, processedRows, failedRows>>
    BY <1>35 DEF Unanswered, Done
  <2>4. "none" \notin RetryOn
    BY RetryAssumption
  <2>. QED
    BY <2>1, <2>2, <2>3, <2>4 DEF RowsKept, Late, BeforeRetry
<1>36. ASSUME NEW r \in Runs, HungUp(r) PROVE Goal
  <2>1. out[r] = "none" /\ fin'[r] = "release"
    BY <1>36 DEF HungUp, Done, FinGoto, PlacedInv, PlacedRows
  <2>2. \A x \in Runs : x # r => out'[x] = out[x] /\ fin'[x] = fin[x]
    BY <1>36 DEF HungUp, Done, FinGoto
  <2>3. UNCHANGED <<rowState, main, processedRows, failedRows>>
    BY <1>36 DEF HungUp, Done
  <2>4. "none" \notin RetryOn
    BY RetryAssumption
  <2>. QED
    BY <2>1, <2>2, <2>3, <2>4 DEF RowsKept, Late, BeforeRetry
<1>37. ASSUME NEW r \in Runs, SweepMark(r) PROVE Goal
  BY <1>37 DEF SweepMark, RowsKept, Late
<1>38. ASSUME NEW r \in Runs, RunGetsOld(r) PROVE Goal
  BY <1>38 DEF RunGetsOld, RowsKept, Late
<1>39. ASSUME RecoverContacts PROVE Goal
  <2>1. UNCHANGED <<fin, out, processedRows, failedRows>> /\ main' # "recover"
    BY <1>39 DEF RecoverContacts
  <2>2. \A q \in Rows : rowState'[q] = rowState[q]
                        \/ (rowState[q] = "processing" /\ rowState'[q] \in {"processed", "queued"})
    BY <1>39 DEF RecoverContacts
  <2>3. Clean' => \A q \in Rows : rowState[q] # "processing"
    BY <1>39, <1>0a DEF RecoverContacts, CleanRows
  <2>. QED
    BY <2>1, <2>2, <2>3 DEF RowsKept, Late
<1>40. ASSUME SweepQuery PROVE Goal
  BY <1>40 DEF SweepQuery, RowsKept, Late
<1>41. ASSUME SweepEnd PROVE Goal
  BY <1>41 DEF SweepEnd, RowsKept, Late
<1>42. ASSUME SweepSnapshot PROVE Goal
  BY <1>42 DEF SweepSnapshot, RowsKept, Late
<1>43. ASSUME Crash PROVE Goal
  BY <1>43 DEF Crash, Clean, RowsKept, Late, BeforeRetry
<1>44. ASSUME NEW q \in Rows, RetryDue(q) PROVE Goal
  BY <1>44 DEF RetryDue, RowsKept, Late
<1>45. ASSUME NEW s \in SlotIds, SlotAges(s) PROVE Goal
  BY <1>45 DEF SlotAges, RowsKept, Late
<1>46. ASSUME NEW c \in Campaigns, Scan(c) \/ GatesPass(c) \/ GatesStop(c) \/ DrainStep(c) PROVE Goal
  BY <1>46, <1>1, <1>2, <1>3, <1>4, <1>5, <1>6, <1>7, <1>8, <1>9, <1>10, <1>11, <1>12, <1>13,
     <1>14, <1>15, <1>16, <1>17, <1>18, <1>19, <1>20, <1>21, <1>22 DEF DrainStep
<1>47. ASSUME NEW r \in Runs, FinStep(r) \/ AgentStep(r) PROVE Goal
  BY <1>47, <1>25, <1>26, <1>27, <1>28, <1>29, <1>30, <1>31, <1>32, <1>33 DEF FinStep, AgentStep
<1>48. ASSUME RunStep PROVE Goal
  BY <1>48, <1>39, <1>40, <1>41, <1>37 DEF RunStep
<1>49. CASE UNCHANGED vars
  BY <1>49 DEF RowsKept, Late, Clean
<1>50. ASSUME Next PROVE Goal
  BY <1>50, <1>46, <1>47, <1>48, <1>34, <1>35, <1>36, <1>23, <1>24, <1>44, <1>38, <1>45, <1>42,
     <1>43 DEF Next
<1>. QED
  BY <1>49, <1>50


-----------------------------------------------------------------------------
\* There are finitely many rows.
LEMMA RowsFinite ==
    /\ IsFiniteSet(Rows)
    /\ \A S : S \subseteq Rows => IsFiniteSet(S) /\ Cardinality(S) \in Nat
<1>1. IsFiniteSet(0 .. MaxRetries)
  BY FS_Interval, DialerAssumption
<1>2. IsFiniteSet(Rows)
  BY <1>1, FS_Product, ContactsAssumption DEF Rows
<1>. QED
  BY <1>2, FS_Subset, FS_CardinalityType

\* One row more, or the same rows, and more rows than there were.
LEMMA CountedRows ==
    ASSUME NEW S, NEW T, S \subseteq Rows, T \subseteq Rows
    PROVE  /\ S \subseteq T => Cardinality(S) <= Cardinality(T)
           /\ \A q : T = S \cup {q} /\ q \notin S => Cardinality(T) = Cardinality(S) + 1
<1>1. IsFiniteSet(S) /\ IsFiniteSet(T)
  BY RowsFinite
<1>2. S \subseteq T => Cardinality(S) <= Cardinality(T)
  BY <1>1, FS_Subset
<1>3. \A q : T = S \cup {q} /\ q \notin S => Cardinality(T) = Cardinality(S) + 1
  BY <1>1, FS_AddElement
<1>. QED
  BY <1>2, <1>3

\* Steps that settle nothing: the sets are the same, or what a crash and a
\* failing command gave up has joined them.
LEMMA AccountsKept ==
    ASSUME TypeOK, AccountInv, RowsKept, Clean' => Clean
    PROVE  AccountInv'
<1>. USE DEF RowsKept
<1>1. /\ \A r \in Runs : r[1] \in Rows
      /\ \A c \in Campaigns : failedRows[c] \in Nat
      /\ "none" \notin RetryOn
  BY CampaignType, RetryAssumption DEF TypeOK
<1>2. \A p : Unreached(p) => Unreached(p)'
  BY <1>1 DEF Unreached
<1>3. RetryChain'
  BY <1>2 DEF AccountInv, RetryChain
<1>4. FailedCounted'
  <2>. SUFFICES ASSUME NEW c \in Campaigns
       PROVE  failedRows[c] <= Cardinality(FailedOf(c)') /\ (Clean' => failedRows[c] = Cardinality(FailedOf(c)'))
    BY DEF FailedCounted
  <2>1. FailedOf(c) \subseteq FailedOf(c)' /\ FailedOf(c)' \subseteq Rows
    BY DEF FailedOf, Spent
  <2>2. Clean' => FailedOf(c)' = FailedOf(c)
    BY DEF FailedOf, Spent
  <2>3. Cardinality(FailedOf(c)) <= Cardinality(FailedOf(c)')
    BY <2>1, CountedRows
  <2>4. Cardinality(FailedOf(c)) \in Nat /\ Cardinality(FailedOf(c)') \in Nat
    BY <2>1, RowsFinite
  <2>. QED
    BY <1>1, <2>2, <2>3, <2>4 DEF AccountInv, FailedCounted
<1>5. CleanRows'
  <2>. SUFFICES ASSUME Clean' PROVE CleanRows'
    BY DEF CleanRows
  <2>1. \A c \in Campaigns : ProcessedOf(c)' = ProcessedOf(c)
    BY DEF ProcessedOf
  <2>2. \A r \in Runs : Late(r)' /\ r[1][2] < MaxRetries => RetryOf(r[1]) \in Rows
    BY DialerAssumption DEF Runs, Rows, RetryOf
  <2>. QED
    BY <2>1, <2>2 DEF AccountInv, CleanRows
<1>. QED
  BY <1>3, <1>4, <1>5 DEF AccountInv

\* setRunState settles a row in hand: it leaves processing, and its campaign's
\* counter follows.
LEMMA AccountsSettled ==
    ASSUME TypeOK, DrainOK, SlotInv, PlacedInv, AccountInv, Clean' => Clean,
           NEW c \in Campaigns, RowSettled(c)
    PROVE  AccountInv'
<1>. DEFINE q == drain[c].row
            to == drain[c].to
<1>0. faults \in Nat /\ faults' # faults + 1
  BY DialerAssumption DEF TypeOK, RowSettled, NoFault
<1>1. /\ q \in Rows /\ CampaignOfRow(q) = c /\ to \in {"queued", "failed", "processed"}
      /\ rowState[q] = "processing" /\ main # "recover"
  BY DEF RowSettled, SetRow, At, DrainOK, HasRow, GivenBackOrSettled, PlacedInv, HandsProcessing, SlotInv, StartIdle
<1>2. /\ rowState' = [rowState EXCEPT ![q] = to]
      /\ UNCHANGED <<main, out, fin>>
  BY <1>0 DEF RowSettled, SetRow, SetRunState, Fault, callVars
<1>3. rowState \in [Rows -> RowStates] /\ processedRows \in [Campaigns -> Nat] /\ failedRows \in [Campaigns -> Nat]
  BY DEF TypeOK
<1>4. /\ processedRows' = IF to = "processed" THEN [processedRows EXCEPT ![c] = @ + 1] ELSE processedRows
      /\ failedRows' = IF to = "failed" THEN [failedRows EXCEPT ![c] = @ + 1] ELSE failedRows
  BY <1>0, <1>1 DEF RowSettled, SetRow, SetRunState, Fault
<1>5. /\ \A p : Unreached(p)' <=> Unreached(p)
      /\ \A p : Spent(p)' <=> Spent(p)
      /\ \A r : Late(r)' <=> Late(r)
  BY <1>2 DEF Unreached, Spent, Late
<1>6. to = "failed" => ~Spent(q)
  <2>1. \A r \in Runs : r[1] = q /\ Late(r) => to = "processed"
    BY RetryAssumption DEF RowSettled, SetRow, At, HasRow, PlacedInv, PlacedRows, Placed, Late
  <2>. QED
    BY <2>1 DEF Spent
<1>. HIDE DEF q, to
<1>7. RetryChain'
  BY <1>1, <1>2, <1>3, <1>5 DEF AccountInv, RetryChain
<1>8. FailedCounted'
  <2>1. ASSUME NEW k \in Campaigns, k # c PROVE FailedOf(k)' = FailedOf(k) /\ failedRows'[k] = failedRows[k]
    BY <1>1, <1>2, <1>3, <1>4, <1>5, <2>1 DEF FailedOf
  <2>2. ASSUME to # "failed" PROVE FailedOf(c)' = FailedOf(c) /\ failedRows' = failedRows
    BY <1>1, <1>2, <1>3, <1>4, <1>5, <2>2 DEF FailedOf
  <2>3. ASSUME to = "failed" PROVE /\ Cardinality(FailedOf(c)') = Cardinality(FailedOf(c)) + 1
                                   /\ failedRows'[c] = failedRows[c] + 1
    <3>1. FailedOf(c)' = FailedOf(c) \cup {q}
      BY <1>1, <1>2, <1>3, <1>5, <2>3 DEF FailedOf
    <3>2. q \notin FailedOf(c)
      BY <1>1, <1>6, <2>3 DEF FailedOf
    <3>3. FailedOf(c) \subseteq Rows /\ FailedOf(c)' \subseteq Rows
      BY DEF FailedOf
    <3>4. Cardinality(FailedOf(c)') = Cardinality(FailedOf(c)) + 1
      BY <3>1, <3>2, <3>3, CountedRows
    <3>. QED
      BY <3>4, <1>3, <1>4, <2>3
  <2>4. Cardinality(FailedOf(c)) \in Nat
    <3>1. FailedOf(c) \subseteq Rows
      BY DEF FailedOf
    <3>. QED
      BY <3>1, RowsFinite
  <2>. QED
    BY <1>3, <2>1, <2>2, <2>3, <2>4 DEF AccountInv, FailedCounted
<1>9. CleanRows'
  <2>. SUFFICES ASSUME Clean', Clean PROVE CleanRows'
    BY DEF CleanRows
  <2>1. ASSUME NEW k \in Campaigns, k # c PROVE ProcessedOf(k)' = ProcessedOf(k) /\ processedRows'[k] = processedRows[k]
    BY <1>1, <1>2, <1>3, <1>4, <2>1 DEF ProcessedOf
  <2>2. ASSUME to # "processed" PROVE ProcessedOf(c)' = ProcessedOf(c) /\ processedRows' = processedRows
    BY <1>1, <1>2, <1>3, <1>4, <2>2 DEF ProcessedOf
  <2>3. ASSUME to = "processed" PROVE /\ Cardinality(ProcessedOf(c)') = Cardinality(ProcessedOf(c)) + 1
                                      /\ processedRows'[c] = processedRows[c] + 1
    <3>1. ProcessedOf(c)' = ProcessedOf(c) \cup {q} /\ q \notin ProcessedOf(c)
      BY <1>1, <1>2, <1>3, <2>3 DEF ProcessedOf
    <3>2. ProcessedOf(c) \subseteq Rows /\ ProcessedOf(c)' \subseteq Rows
      BY DEF ProcessedOf
    <3>3. Cardinality(ProcessedOf(c)') = Cardinality(ProcessedOf(c)) + 1
      BY <3>1, <3>2, CountedRows
    <3>. QED
      BY <3>3, <1>3, <1>4, <2>3
  <2>4. \A k \in Campaigns : processedRows'[k] = Cardinality(ProcessedOf(k)')
    BY <2>1, <2>2, <2>3 DEF AccountInv, CleanRows
  <2>5. \A r \in Runs : Late(r)' /\ r[1][2] < MaxRetries => rowState'[RetryOf(r[1])] # "absent"
    <3>1. \A r \in Runs : Late(r) /\ r[1][2] < MaxRetries => RetryOf(r[1]) \in Rows
      BY DialerAssumption DEF Runs, Rows, RetryOf
    <3>. QED
      BY <3>1, <1>1, <1>2, <1>3, <1>5 DEF AccountInv, CleanRows
  <2>. QED
    BY <1>1, <1>2, <2>4, <2>5 DEF CleanRows
<1>. QED
  BY <1>7, <1>8, <1>9 DEF AccountInv

\* `finished' sees to a call's retry: the campaign has one more failed row, or the
\* contact its next one.
LEMMA AccountsRetried ==
    ASSUME TypeOK, DialInv, SlotInv, PlacedInv, AccountInv, Clean' => Clean,
           NEW r \in Runs, RetrySettled(r)
    PROVE  AccountInv'
<1>. DEFINE q == r[1]
<1>0. faults \in Nat /\ faults' # faults + 1
  BY DialerAssumption DEF TypeOK, RetrySettled, NoFault
<1>1. /\ q \in Rows /\ CampaignOfRow(q) \in Campaigns /\ q[2] \in 0 .. MaxRetries /\ MaxRetries \in Nat
      /\ \A x \in Runs : x[1] \in Rows
  BY CampaignType, DialerAssumption DEF Rows, Runs
<1>2. /\ rowState \in [Rows -> RowStates] /\ failedRows \in [Campaigns -> Nat] /\ fin \in [Runs -> FinPcs]
  BY DEF TypeOK
<1>3. /\ fin[r] = "retry" /\ out[r] \in RetryOn /\ rowState[q] \in {"processing", "processed"} /\ Dialed(r)
  <2>1. fin[r] = "retry" /\ out[r] \in RetryOn /\ Placed(r)
    BY RetryAssumption DEF RetrySettled, FinRetry, PlacedInv, PlacedRows, Placed
  <2>2. Dialed(r)
    BY <2>1 DEF PlacedInv, PlacedRows, Placed, Live, Dialed
  <2>. QED
    BY <2>1, <2>2 DEF PlacedInv, PlacedRows, DialInv, DialedPastQueue
<1>4. UNCHANGED <<processedRows, out, main>> /\ fin' = [fin EXCEPT ![r] = "marknc"]
  BY DEF RetrySettled, FinRetry, FinGoto, callVars
<1>5. /\ ~Late(r) /\ Late(r)'
      /\ \A x \in Runs : x # r => (Late(x)' <=> Late(x))
  BY <1>2, <1>3, <1>4 DEF Late, BeforeRetry
<1>6. \A x \in Runs : x[1] = q /\ Late(x) => x = r
  <2>1. \A x \in Runs : Late(x) => Dialed(x)
    BY RetryAssumption DEF Late, PlacedInv, PlacedRows, Dialed
  <2>. QED
    BY <2>1, <1>3 DEF DialInv, AtMostOneDial
<1>7. /\ ~Spent(q) /\ (Spent(q)' <=> q[2] = MaxRetries)
      /\ \A p \in Rows : p # q => (Spent(p)' <=> Spent(p))
  BY <1>5, <1>6 DEF Spent
<1>8. /\ \A p : Unreached(p)' <=> Unreached(p)
      /\ Unreached(q)
  BY <1>3, <1>4 DEF Unreached
<1>9. CASE q[2] >= MaxRetries
  <2>1. /\ q[2] = MaxRetries /\ rowState' = rowState
        /\ failedRows' = [failedRows EXCEPT ![CampaignOfRow(q)] = @ + 1]
    BY <1>0, <1>1, <1>9 DEF RetrySettled, FinRetry, Fault
  <2>. HIDE DEF q
  <2>2. RetryChain'
    BY <1>8, <2>1 DEF AccountInv, RetryChain
  <2>3. FailedCounted'
    <3>1. ASSUME NEW k \in Campaigns, k # CampaignOfRow(q)
          PROVE  FailedOf(k)' = FailedOf(k) /\ failedRows'[k] = failedRows[k]
      BY <1>2, <1>7, <2>1, <3>1 DEF FailedOf
    <3>2. ASSUME NEW k \in Campaigns, k = CampaignOfRow(q)
          PROVE  /\ Cardinality(FailedOf(k)') = Cardinality(FailedOf(k)) + 1 /\ Cardinality(FailedOf(k)) \in Nat
                 /\ failedRows'[k] = failedRows[k] + 1
      <4>1. FailedOf(k)' = FailedOf(k) \cup {q} /\ q \notin FailedOf(k)
        BY <1>1, <1>3, <1>7, <2>1, <3>2 DEF FailedOf
      <4>2. FailedOf(k) \subseteq Rows /\ FailedOf(k)' \subseteq Rows
        BY DEF FailedOf
      <4>3. Cardinality(FailedOf(k)') = Cardinality(FailedOf(k)) + 1 /\ Cardinality(FailedOf(k)) \in Nat
        BY <4>1, <4>2, CountedRows, RowsFinite
      <4>. QED
        BY <4>3, <1>2, <2>1, <3>2
    <3>. QED
      BY <1>2, <3>1, <3>2 DEF AccountInv, FailedCounted
  <2>4. CleanRows'
    <3>. SUFFICES ASSUME Clean', Clean PROVE CleanRows'
      BY DEF CleanRows
    <3>1. \A k \in Campaigns : ProcessedOf(k)' = ProcessedOf(k)
      BY <2>1 DEF ProcessedOf
    <3>2. \A x \in Runs : Late(x)' /\ x[1][2] < MaxRetries => Late(x)
      BY <1>1, <1>5, <2>1 DEF q
    <3>. QED
      BY <1>4, <2>1, <3>1, <3>2 DEF AccountInv, CleanRows
  <2>. QED
    BY <2>2, <2>3, <2>4 DEF AccountInv
<1>10. CASE q[2] < MaxRetries
  <2>1. /\ rowState' = [rowState EXCEPT ![RetryOf(q)] = IF @ = "absent" THEN "queued" ELSE @]
        /\ failedRows' = failedRows
    BY <1>0, <1>1, <1>10 DEF RetrySettled, FinRetry, Fault
  <2>2. /\ RetryOf(q) \in Rows /\ RetryOf(q)[1] = q[1] /\ RetryOf(q)[2] = q[2] + 1
    BY <1>1, <1>10 DEF Rows, RetryOf
  <2>3. \A p \in Rows : p[2] \in Nat /\ p = <<p[1], p[2]>>
    BY DEF Rows
  <2>3a. \A p \in Rows : \/ rowState'[p] = rowState[p]
                         \/ p = RetryOf(q) /\ rowState[p] = "absent" /\ rowState'[p] = "queued"
    BY <1>2, <2>1, <2>2
  <2>. HIDE DEF q
  <2>4. RetryChain'
    <3>1. \A p \in Rows : p[1] = q[1] /\ p[2] < q[2] + 1 => Unreached(p)
      <4>. SUFFICES ASSUME NEW p \in Rows, p[1] = q[1], p[2] < q[2] + 1 PROVE Unreached(p)
        OBVIOUS
      <4>1. CASE p[2] < q[2]
        BY <4>1, <1>1, <1>3 DEF AccountInv, RetryChain
      <4>2. CASE p[2] = q[2]
        BY <4>2, <1>1, <1>8, <2>3
      <4>. QED
        BY <4>1, <4>2, <2>3, <1>1
    <3>2. \A p \in Rows : rowState'[p] # "absent" => rowState[p] # "absent" \/ p = RetryOf(q)
      BY <2>3a
    <3>. QED
      BY <1>8, <2>2, <3>1, <3>2 DEF AccountInv, RetryChain
  <2>5. FailedCounted'
    <3>1. \A k \in Campaigns : FailedOf(k)' = FailedOf(k)
      <4>1. \A p \in Rows : Spent(p)' <=> Spent(p)
        BY <1>7, <1>1, <1>10
      <4>. QED
        BY <4>1, <2>3a DEF FailedOf
    <3>. QED
      BY <2>1, <3>1 DEF AccountInv, FailedCounted
  <2>6. CleanRows'
    <3>. SUFFICES ASSUME Clean', Clean PROVE CleanRows'
      BY DEF CleanRows
    <3>1. \A k \in Campaigns : ProcessedOf(k)' = ProcessedOf(k)
      BY <2>3a DEF ProcessedOf
    <3>2. rowState'[RetryOf(q)] # "absent"
      BY <1>2, <2>1, <2>2
    <3>3. \A x \in Runs : Late(x)' => Late(x) \/ x[1] = q
      BY <1>5 DEF q
    <3>4. \A x \in Runs : x[1][2] < MaxRetries => RetryOf(x[1]) \in Rows
      BY DialerAssumption DEF Runs, Rows, RetryOf
    <3>5. \A x \in Runs : Late(x)' /\ x[1][2] < MaxRetries => rowState'[RetryOf(x[1])] # "absent"
      BY <2>3a, <3>2, <3>3, <3>4 DEF AccountInv, CleanRows
    <3>6. main' = "recover" => \A p \in Rows : rowState'[p] # "processing"
      BY <1>4, <2>3a DEF AccountInv, CleanRows
    <3>. QED
      BY <1>4, <3>1, <3>5, <3>6 DEF AccountInv, CleanRows
  <2>. QED
    BY <2>4, <2>5, <2>6 DEF AccountInv
<1>. QED
  BY <1>1, <1>9, <1>10

\* The accounts are kept.
LEMMA AccountsInductive == ASSUME ~DoneAfterDialError PROVE Spec => [](PlacedInv /\ AccountInv)
<1>1. Init => PlacedInv
  BY DEF Init, PlacedInv, HandsProcessing, PlacedRows, Placed, Live, HasRow, IdleDrain, Drain
<1>2. Init => AccountInv
  <2>. SUFFICES ASSUME Init PROVE AccountInv
    OBVIOUS
  <2>1. /\ \A r \in Runs : ~Late(r)
        /\ \A q \in Rows : rowState[q] \in {"queued", "absent"} /\ (rowState[q] = "queued" => q[2] = 0)
    BY RetryAssumption DEF Init, Late
  <2>2. \A c \in Campaigns : FailedOf(c) = {} /\ ProcessedOf(c) = {} /\ failedRows[c] = 0 /\ processedRows[c] = 0
    BY <2>1 DEF FailedOf, ProcessedOf, Spent, Init
  <2>3. \A q \in Rows : q[2] \in Nat
    BY DEF Rows
  <2>4. RetryChain
    BY <2>1, <2>3 DEF RetryChain
  <2>. QED
    BY <2>1, <2>2, <2>4, FS_EmptySet DEF AccountInv, FailedCounted, CleanRows
<1>3. TypeOK /\ DrainOK /\ DialInv /\ SlotInv /\ PlacedInv /\ AccountInv /\ [Next]_vars => PlacedInv' /\ AccountInv'
  <2>. SUFFICES ASSUME TypeOK, DrainOK, DialInv, SlotInv, PlacedInv, AccountInv, [Next]_vars
       PROVE  PlacedInv' /\ AccountInv'
    OBVIOUS
  <2>1. PlacedInv'
    BY HandsStep, PlacedStep DEF PlacedInv
  <2>2. (Clean' => Clean) /\ CleanRows
    BY CleanStep DEF AccountInv
  <2>3. AccountInv'
    BY <2>2, RowSteps, AccountsKept, AccountsSettled, AccountsRetried
  <2>. QED
    BY <2>1, <2>3
<1>. QED
  BY <1>1, <1>2, <1>3, SlotsInductive, Inductive, PTL DEF Spec

\* One row of a contact at most counts as failed: a retry is only scheduled for
\* a row that was placed, and one that was spent is the last.
LEMMA OneFailedRow ==
    ASSUME TypeOK, DialInv, PlacedInv, AccountInv, NEW c \in Campaigns
    PROVE  /\ Cardinality(FailedOf(c)) <= Cardinality({k \in Contacts : CampaignOf[k] = c})
           /\ Cardinality(FailedOf(c)) \in Nat /\ Cardinality({k \in Contacts : CampaignOf[k] = c}) \in Nat
<1>. DEFINE F == FailedOf(c)
            K == {k \in Contacts : CampaignOf[k] = c}
            f == [q \in F |-> q[1]]
<1>1. \A q \in F : q \in Rows /\ q[1] \in K /\ q[2] \in 0 .. MaxRetries /\ q = <<q[1], q[2]>>
  BY DEF FailedOf, Rows, CampaignOfRow
<1>2. \A r \in Runs : r[1] \in Rows /\ (out[r] \in RetryOn => Placed(r) /\ Dialed(r))
  BY CampaignType, RetryAssumption DEF PlacedInv, PlacedRows, Placed, Dialed
<1>3. \A q \in F : rowState[q] # "absent"
  BY <1>2 DEF FailedOf, Spent, Late, DialInv, DialedPastQueue
<1>4. \A p, q \in F : p[1] = q[1] => ~(p[2] < q[2])
  <2>. SUFFICES ASSUME NEW p \in F, NEW q \in F, p[1] = q[1], p[2] < q[2] PROVE FALSE
    OBVIOUS
  <2>1. Unreached(p)
    BY <1>1, <1>3 DEF AccountInv, RetryChain
  <2>2. rowState[p] # "failed"
    BY <1>2, <2>1 DEF Unreached, PlacedInv, PlacedRows
  <2>3. p[2] # MaxRetries
    BY <1>1, DialerAssumption
  <2>. QED
    BY <2>2, <2>3 DEF FailedOf, Spent
<1>5. \A p, q \in F : p[1] = q[1] => p = q
  <2>. SUFFICES ASSUME NEW p \in F, NEW q \in F, p[1] = q[1] PROVE p = q
    OBVIOUS
  <2>1. p[2] = q[2]
    BY <1>1, <1>4, DialerAssumption
  <2>. QED
    BY <1>1, <2>1
<1>6. f \in Injection(F, K)
  BY <1>1, <1>5 DEF Injection, IsInjective
<1>7. IsFiniteSet(K) /\ Cardinality(K) \in Nat
  BY ContactsAssumption, FS_Subset, FS_CardinalityType
<1>8. IsFiniteSet(F) /\ Cardinality(F) <= Cardinality(K)
  BY <1>6, <1>7, FS_Injection
<1>. QED
  BY <1>7, <1>8, FS_CardinalityType

\* The campaign's counters tell the truth: no contact is counted failed twice,
\* whatever fails and whenever the process dies; and if nothing failed, a
\* completed campaign has dialed every busy or unanswered contact until its
\* retries were used up, and processed_rows and failed_rows are what its rows
\* say (SetRunState, AddFailedRow, ScheduleRetry, maybeComplete).
THEOREM AccountsAgree == ASSUME ~DoneAfterDialError PROVE Spec => []CompletedAccounts
<1>1. TypeOK /\ DialInv /\ PlacedInv /\ AccountInv /\ CompletedIsQuiet => CompletedAccounts
  <2>. SUFFICES ASSUME TypeOK, DialInv, PlacedInv, AccountInv, CompletedIsQuiet PROVE CompletedAccounts
    OBVIOUS
  <2>1. FailedOncePerContact
    BY OneFailedRow DEF FailedOncePerContact, AccountInv, FailedCounted, TypeOK
  <2>2. ASSUME Clean, NEW c \in Campaigns, campState[c] = "completed"
        PROVE  /\ \A q \in Rows : CampaignOfRow(q) = c /\ Unreached(q) /\ q[2] < MaxRetries
                                    => rowState[RetryOf(q)] \in {"processed", "failed"}
               /\ \A q \in Rows : CampaignOfRow(q) = c => (Spent(q) <=> q[2] = MaxRetries /\ Unreached(q))
    <3>1. \A r \in Runs : CampaignOfRun(r) = c /\ out[r] \in RetryOn => Late(r)
      BY <2>2 DEF CompletedIsQuiet, Late, BeforeRetry
    <3>2. \A r \in Runs : CampaignOfRun(r) = CampaignOfRow(r[1])
      BY DEF CampaignOfRun, CampaignOfRow
    <3>3. ASSUME NEW q \in Rows, CampaignOfRow(q) = c, Unreached(q), q[2] < MaxRetries
          PROVE  rowState[RetryOf(q)] \in {"processed", "failed"}
      <4>1. RetryOf(q) \in Rows /\ CampaignOfRow(RetryOf(q)) = c
        BY <3>3, DialerAssumption DEF Rows, RetryOf, CampaignOfRow
      <4>2. rowState[RetryOf(q)] # "absent"
        BY <2>2, <3>1, <3>2, <3>3 DEF Unreached, AccountInv, CleanRows
      <4>3. rowState[RetryOf(q)] \in RowStates /\ rowState[RetryOf(q)] \notin {"queued", "processing"}
        BY <2>2, <4>1 DEF TypeOK, CompletedIsQuiet
      <4>. QED
        BY <4>2, <4>3 DEF RowStates
    <3>. QED
      BY <3>1, <3>2, <3>3 DEF Spent, Unreached, Late
  <2>3. ASSUME Clean, NEW c \in Campaigns, campState[c] = "completed"
        PROVE  /\ processedRows[c] = Cardinality({q \in {p \in Rows : CampaignOfRow(p) = c} : rowState[q] = "processed"})
               /\ failedRows[c] = Cardinality({q \in {p \in Rows : CampaignOfRow(p) = c} :
                                      rowState[q] = "failed" \/ (q[2] = MaxRetries /\ Unreached(q))})
    <3>1. {q \in {p \in Rows : CampaignOfRow(p) = c} : rowState[q] = "processed"} = ProcessedOf(c)
      BY DEF ProcessedOf
    <3>2. {q \in {p \in Rows : CampaignOfRow(p) = c} :
              rowState[q] = "failed" \/ (q[2] = MaxRetries /\ Unreached(q))} = FailedOf(c)
      BY <2>2, <2>3 DEF FailedOf
    <3>. QED
      BY <2>3, <3>1, <3>2 DEF AccountInv, FailedCounted, CleanRows
  <2>. QED
    BY <2>1, <2>2, <2>3 DEF CompletedAccounts, Unreached
<1>. QED
  BY <1>1, AccountsInductive, CompletedQuiet, Inductive, PTL
=============================================================================
