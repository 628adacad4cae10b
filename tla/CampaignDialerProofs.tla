------------------------ MODULE CampaignDialerProofs ------------------------
(***************************************************************************)
(* What holds of the campaign dialer for any number of campaigns, contacts,*)
(* retries, slots, failing commands and crashes: its types, and that no    *)
(* contact row is dialed twice.                                            *)
(*                                                                         *)
(* Neither is inductive alone.  DrainOK says what a drain goroutine's      *)
(* locals hold at each step of dialOne and place; DialInv says that a row  *)
(* in the hands of a goroutine that may still give it back is processing   *)
(* and was never dialed, and that a dialed row is past the queue.          *)
(***************************************************************************)
EXTENDS CampaignDialer, TLAPS

GivenBackOrSettled == {"queued", "failed", "processed"}

\* Steps of drain goroutine c that work on the row it claimed, and those from
\* which the row may still go back to the queue.
HasRow(c) ==
    \/ drain[c].pc \in {"place", "provider", "create", "dial", "outcome", "tripped", "marknc", "setrow"}
    \/ drain[c].pc = "release" /\ drain[c].to \in GivenBackOrSettled
Holding(c) ==
    \/ drain[c].pc \in {"place", "provider", "create", "dial"}
    \/ drain[c].pc \in {"release", "setrow"} /\ drain[c].to = "queued"

DrainOK ==
    \A c \in Campaigns :
        /\ drain[c].pc = "orgslot" => drain[c].slot \in SlotIds
        /\ HasRow(c) => drain[c].row \in Rows /\ CampaignOfRow(drain[c].row) = c
        /\ drain[c].pc = "dial" => drain[c].run \in Runs /\ drain[c].run[1] = drain[c].row
        /\ drain[c].pc = "provider" => drain[c].to = "queued"
        /\ drain[c].pc = "release" => drain[c].to # None
        /\ drain[c].pc \in {"outcome", "tripped", "marknc"} => drain[c].to = "failed"
        /\ drain[c].pc = "setrow" => drain[c].to \in GivenBackOrSettled

RecoverIdle == main = "recover" => \A c \in Campaigns : drain[c].pc = "idle"
HeldUndialed ==
    \A c \in Campaigns : Holding(c) =>
        /\ rowState[drain[c].row] = "processing"
        /\ \A r \in Runs : r[1] = drain[c].row => ~Dialed(r)
DialHasRun == \A c \in Campaigns : drain[c].pc = "dial" => runState[drain[c].run] # "none"
DialedPastQueue ==
    \A r \in Runs : Dialed(r) => /\ runState[r] # "none"
                                 /\ rowState[r[1]] \in {"processing", "processed", "failed"}
DialInv == RecoverIdle /\ HeldUndialed /\ DialHasRun /\ DialedPastQueue /\ AtMostOneDial

-----------------------------------------------------------------------------
\* Every row and every run belongs to a campaign.
LEMMA CampaignType ==
    /\ \A q \in Rows : CampaignOfRow(q) \in Campaigns
    /\ \A r \in Runs : r[1] \in Rows /\ CampaignOfRun(r) \in Campaigns
  BY DialerAssumption DEF Rows, Runs, CampaignOfRow, CampaignOfRun

\* addInflight keeps the calls in flight a natural number, up or down.
LEMMA InflightType ==
    ASSUME inflight \in [Campaigns -> Nat],
           NEW c \in Campaigns, NEW n \in Int, AddInflight(c, n)
    PROVE  inflight' \in [Campaigns -> Nat]
  BY DEF AddInflight

\* One more processed or failed row keeps a campaign's counter a natural number.
LEMMA CountType ==
    ASSUME NEW f \in [Campaigns -> Nat], NEW c \in Campaigns
    PROVE  [f EXCEPT ![c] = @ + 1] \in [Campaigns -> Nat]
  OBVIOUS

\* Every step keeps the types, given what DrainOK says of a goroutine's locals.
LEMMA TypeStep == TypeOK /\ DrainOK /\ [Next]_vars => TypeOK'
<1>. SUFFICES ASSUME TypeOK, DrainOK, [Next]_vars PROVE TypeOK'
  OBVIOUS
<1>. USE DialerAssumption DEF vars, dbVars, redisVars, procVars, callVars, boundVars, TypeOK,
       CampaignStates, RowStates, RunStates, DrainPcs, DrainRecords, FinPcs, Outcomes
<1>1. ASSUME NEW c \in Campaigns, Scan(c) PROVE TypeOK'
  BY <1>1 DEF Scan, GatesDrain, Drain
<1>2. ASSUME NEW c \in Campaigns, GatesPass(c) PROVE TypeOK'
  BY <1>2 DEF GatesPass, At, Goto, Drain
<1>3. ASSUME NEW c \in Campaigns, GatesStop(c) PROVE TypeOK'
  BY <1>3 DEF GatesStop, At, Stop, IdleDrain, Drain
<1>4. ASSUME NEW c \in Campaigns, GatesTrip(c) PROVE TypeOK'
  BY <1>4 DEF GatesTrip, At, CountPause, Goto, Drain
<1>5. ASSUME NEW c \in Campaigns, GatesPause(c) PROVE TypeOK'
  BY <1>5 DEF GatesPause, At, SetPaused, NoFault, Fault, Stop, IdleDrain, Drain
<1>6. ASSUME NEW c \in Campaigns, TakeCapacity(c) PROVE TypeOK'
  <2>1. drain' \in [Campaigns -> DrainRecords]
    BY <1>6 DEF TakeCapacity, Stop, Drain, IdleDrain
  <2>2. capSlots' \subseteq SlotIds /\ faults' \in 0..MaxFaults
    BY <1>6 DEF TakeCapacity, Trim, Fault, NoFault
  <2>. QED
    BY <1>6, <2>1, <2>2 DEF TakeCapacity
<1>7. ASSUME NEW c \in Campaigns, TakeOrgSlot(c) PROVE TypeOK'
  <2>1. drain' \in [Campaigns -> DrainRecords] /\ faults' \in 0..MaxFaults
    BY <1>7 DEF TakeOrgSlot, Goto, Drain, Fault, NoFault
  <2>2. drain[c].slot \in SlotIds
    BY <1>7 DEF DrainOK, TakeOrgSlot, At
  <2>3. orgSlots' \subseteq SlotIds
    BY <1>7, <2>2 DEF TakeOrgSlot, Trim
  <2>. QED
    BY <1>7, <2>1, <2>3 DEF TakeOrgSlot
<1>8. ASSUME NEW c \in Campaigns, DropCapacity(c) PROVE TypeOK'
  BY <1>8 DEF DropCapacity, At, NoFault, Fault, Stop, IdleDrain, Drain
<1>9. ASSUME NEW c \in Campaigns, ClaimRun(c) PROVE TypeOK'
  <2>1. NextRows(c) \subseteq Rows
    BY <1>9 DEF NextRows, DueRows
  <2>2. drain' \in [Campaigns -> DrainRecords]
    BY <1>9, <2>1 DEF ClaimRun, ReleaseThen, Drain
  <2>3. rowState' \in [Rows -> RowStates]
    BY <1>9, <2>1 DEF ClaimRun
  <2>4. faults' \in 0..MaxFaults
    BY <1>9 DEF ClaimRun, Fault, NoFault
  <2>. QED
    BY <1>9, <2>2, <2>3, <2>4 DEF ClaimRun
<1>10. ASSUME NEW c \in Campaigns, Place(c) PROVE TypeOK'
  <2>1. drain' \in [Campaigns -> DrainRecords]
    BY <1>10 DEF Place, Goto, ReleaseThen, Drain
  <2>2. faults' \in 0..MaxFaults /\ pauses' \in 0..MaxPauses
    BY <1>10 DEF Place, Fault, NoFault, CountPause
  <2>. QED
    BY <1>10, <2>1, <2>2 DEF Place
<1>11. ASSUME NEW c \in Campaigns, ProviderPause(c) PROVE TypeOK'
  <2>1. drain' \in [Campaigns -> DrainRecords]
    BY <1>11 DEF ProviderPause, Goto, Drain
  <2>2. campState' \in [Campaigns -> CampaignStates] /\ faults' \in 0..MaxFaults
    BY <1>11 DEF ProviderPause, SetPaused, Fault, NoFault
  <2>. QED
    BY <1>11, <2>1, <2>2 DEF ProviderPause
<1>12. ASSUME NEW c \in Campaigns, CreateOutboundRun(c) PROVE TypeOK'
  <2>1. drain' \in [Campaigns -> DrainRecords]
    BY <1>12 DEF CreateOutboundRun, ReleaseThen, Drain
  <2>2. runState' \in [Runs -> RunStates]
    BY <1>12 DEF CreateOutboundRun
  <2>3. inflight' \in [Campaigns -> Nat] /\ liveRuns' \subseteq Runs
    BY <1>12, InflightType DEF CreateOutboundRun
  <2>4. faults' \in 0..MaxFaults
    BY <1>12 DEF CreateOutboundRun, Fault, NoFault
  <2>. QED
    BY <1>12, <2>1, <2>2, <2>3, <2>4 DEF CreateOutboundRun
<1>13. ASSUME NEW c \in Campaigns, Dial(c) PROVE TypeOK'
  <2>1. drain' \in [Campaigns -> DrainRecords]
    BY <1>13 DEF Dial, ReleaseThen, Drain
  <2>2. inflight' \in [Campaigns -> Nat] /\ liveRuns' \subseteq Runs
    BY <1>13, InflightType DEF Dial
  <2>3. call' \in [Runs -> {"none", "ringing", "up", "over"}]
    BY <1>13 DEF Dial
  <2>4. callSlot' \in [Runs -> SlotIds \cup {None}]
    BY <1>13 DEF Dial
  <2>. QED
    BY <1>13, <2>1, <2>2, <2>3, <2>4 DEF Dial
<1>14. ASSUME NEW c \in Campaigns, DrainRelease(c) PROVE TypeOK'
  BY <1>14 DEF DrainRelease, At, ReleaseSlot, NoFault, Fault, AfterRelease, IdleDrain, Drain
<1>15. ASSUME NEW c \in Campaigns, DrainOutcome(c) PROVE TypeOK'
  BY <1>15 DEF DrainOutcome, At, Goto, Drain, CountPause
<1>16. ASSUME NEW c \in Campaigns, DrainTripped(c) PROVE TypeOK'
  BY <1>16 DEF DrainTripped, At, SetPaused, NoFault, Fault, Goto, Drain
<1>17. ASSUME NEW c \in Campaigns, DrainMarkNotConnected(c) PROVE TypeOK'
  BY <1>17 DEF DrainMarkNotConnected, At, CompleteRun, NoFault, Fault, Goto, Drain
<1>18. ASSUME NEW c \in Campaigns, SetRow(c) PROVE TypeOK'
  <2>1. drain' \in [Campaigns -> DrainRecords] /\ faults' \in 0..MaxFaults
    BY <1>18 DEF SetRow, IdleDrain, GatesDrain, Drain, SetRunState, Fault, NoFault
  <2>2. drain[c].to \in RowStates
    BY <1>18 DEF SetRow, DrainOK, At, GivenBackOrSettled
  <2>3. rowState' \in [Rows -> RowStates]
    BY <1>18, <2>2 DEF SetRow, SetRunState
  <2>4. drain[c].row \in Rows /\ CampaignOfRow(drain[c].row) \in Campaigns
    BY <1>18, CampaignType DEF SetRow, DrainOK, At, HasRow
  <2>5. processedRows' \in [Campaigns -> Nat]
    BY <1>18, <2>4, CountType DEF SetRow, SetRunState
  <2>6. failedRows' \in [Campaigns -> Nat]
    BY <1>18, <2>4, CountType DEF SetRow, SetRunState
  <2>. QED
    BY <1>18, <2>1, <2>3, <2>5, <2>6 DEF SetRow
<1>19. ASSUME NEW c \in Campaigns, FirstInflightCheck(c) PROVE TypeOK'
  BY <1>19 DEF FirstInflightCheck, CheckInflight, At, Stop, IdleDrain, Drain, Goto
<1>20. ASSUME NEW c \in Campaigns, OpenWork(c) PROVE TypeOK'
  <2>1. drain' \in [Campaigns -> DrainRecords]
    BY <1>20 DEF OpenWork, Stop, Goto, Drain, IdleDrain
  <2>2. faults' \in 0..MaxFaults
    BY <1>20 DEF OpenWork, Fault, NoFault
  <2>. QED
    BY <1>20, <2>1, <2>2 DEF OpenWork
<1>21. ASSUME NEW c \in Campaigns, SecondInflightCheck(c) PROVE TypeOK'
  BY <1>21 DEF SecondInflightCheck, CheckInflight, At, Stop, IdleDrain, Drain, Goto
<1>22. ASSUME NEW c \in Campaigns, CompleteCampaign(c) PROVE TypeOK'
  BY <1>22 DEF CompleteCampaign, At, NoFault, Fault, Stop, IdleDrain, Drain
<1>23. ASSUME NEW c \in Campaigns, UIPause(c) PROVE TypeOK'
  BY <1>23 DEF UIPause, CountPause
<1>24. ASSUME NEW c \in Campaigns, UIResume(c) PROVE TypeOK'
  BY <1>24 DEF UIResume
<1>25. ASSUME NEW r \in Runs, FinRelease(r) PROVE TypeOK'
  BY <1>25 DEF FinRelease, ReleaseSlot, NoFault, Fault, FinGoto
<1>26. ASSUME NEW r \in Runs, FinOutcome(r) PROVE TypeOK'
  BY <1>26 DEF FinOutcome, FinGoto, AfterOutcome, CountPause
<1>27. ASSUME NEW r \in Runs, FinTripped(r) PROVE TypeOK'
  BY <1>27 DEF FinTripped, SetPaused, NoFault, Fault, CampaignOfRun, FinGoto, AfterOutcome
<1>28. ASSUME NEW r \in Runs, FinRetry(r) PROVE TypeOK'
  <2>1. r[1] \in Rows /\ CampaignOfRow(r[1]) \in Campaigns
    BY CampaignType
  <2>2. failedRows' \in [Campaigns -> Nat] /\ rowState' \in [Rows -> RowStates]
    BY <1>28, <2>1 DEF FinRetry
  <2>3. fin' \in [Runs -> FinPcs] /\ faults' \in 0..MaxFaults
    BY <1>28 DEF FinRetry, FinGoto, Fault, NoFault
  <2>. QED
    BY <1>28, <2>2, <2>3 DEF FinRetry
<1>29. ASSUME NEW r \in Runs, FinMarkNotConnected(r) PROVE TypeOK'
  BY <1>29 DEF FinMarkNotConnected, CompleteRun, NoFault, Fault, FinGoto
<1>30. ASSUME NEW r \in Runs, FinEnd(r) PROVE TypeOK'
  <2>1. inflight' \in [Campaigns -> Nat]
    BY <1>30, InflightType, CampaignType DEF FinEnd
  <2>. QED
    BY <1>30, <2>1 DEF FinEnd, FinGoto
<1>31. ASSUME NEW r \in Runs, AgentStarted(r) PROVE TypeOK'
  BY <1>31 DEF AgentStarted
<1>32. ASSUME NEW r \in Runs, MarkRunRunning(r) PROVE TypeOK'
  BY <1>32 DEF MarkRunRunning, CompleteRun, NoFault, Fault
<1>33. ASSUME NEW r \in Runs, FinishRun(r) PROVE TypeOK'
  BY <1>33 DEF FinishRun, CompleteRun, NoFault, Fault
<1>34. ASSUME NEW r \in Runs, Answered(r) PROVE TypeOK'
  BY <1>34 DEF Answered
<1>35. ASSUME NEW r \in Runs, Unanswered(r) PROVE TypeOK'
  BY <1>35 DEF Unanswered, Done, FinGoto
<1>36. ASSUME NEW r \in Runs, HungUp(r) PROVE TypeOK'
  BY <1>36 DEF HungUp, Done, FinGoto
<1>37. ASSUME NEW r \in Runs, SweepMark(r) PROVE TypeOK'
  BY <1>37 DEF SweepMark, CompleteRun, NoFault, Fault
<1>38. ASSUME NEW r \in Runs, RunGetsOld(r) PROVE TypeOK'
  BY <1>38 DEF RunGetsOld
<1>39. ASSUME RecoverContacts PROVE TypeOK'
  BY <1>39 DEF RecoverContacts, NoFault, HasRun, Fault
<1>40. ASSUME SweepQuery PROVE TypeOK'
  BY <1>40 DEF SweepQuery, NoFault, Fault
<1>41. ASSUME SweepEnd PROVE TypeOK'
  BY <1>41 DEF SweepEnd
<1>42. ASSUME SweepSnapshot PROVE TypeOK'
  BY <1>42 DEF SweepSnapshot
<1>43. ASSUME Crash PROVE TypeOK'
  BY <1>43 DEF Crash, IdleDrain, Drain
<1>44. ASSUME NEW q \in Rows, RetryDue(q) PROVE TypeOK'
  BY <1>44 DEF RetryDue
<1>45. ASSUME NEW s \in SlotIds, SlotAges(s) PROVE TypeOK'
  BY <1>45 DEF SlotAges
<1>46. CASE UNCHANGED vars
  BY <1>46
<1>. QED
  BY <1>1, <1>2, <1>3, <1>4, <1>5, <1>6, <1>7, <1>8, <1>9, <1>10, <1>11, <1>12, <1>13, <1>14,
     <1>15, <1>16, <1>17, <1>18, <1>19, <1>20, <1>21, <1>22, <1>23, <1>24, <1>25, <1>26,
     <1>27, <1>28, <1>29, <1>30, <1>31, <1>32, <1>33, <1>34, <1>35, <1>36, <1>37, <1>38,
     <1>39, <1>40, <1>41, <1>42, <1>43, <1>44, <1>45, <1>46 DEF Next, DrainStep, FinStep, AgentStep, RunStep

\* Every step keeps the drain goroutines' locals in order.
LEMMA DrainOKStep == TypeOK /\ DrainOK /\ [Next]_vars => DrainOK'
<1>. SUFFICES ASSUME TypeOK, DrainOK, [Next]_vars PROVE DrainOK'
  OBVIOUS
<1>0. drain \in [Campaigns -> DrainRecords]
  BY DEF TypeOK
<1>. USE DialerAssumption, <1>0 DEF vars, dbVars, redisVars, procVars, callVars, boundVars,
       DrainOK, HasRow, GivenBackOrSettled, DrainPcs, DrainRecords
<1>1. ASSUME NEW c \in Campaigns, Scan(c) PROVE DrainOK'
  BY <1>1 DEF Scan, GatesDrain, Drain
<1>2. ASSUME NEW c \in Campaigns, GatesPass(c) PROVE DrainOK'
  BY <1>2 DEF GatesPass, At, Goto, Drain
<1>3. ASSUME NEW c \in Campaigns, GatesStop(c) PROVE DrainOK'
  BY <1>3 DEF GatesStop, At, Stop, IdleDrain, Drain
<1>4. ASSUME NEW c \in Campaigns, GatesTrip(c) PROVE DrainOK'
  BY <1>4 DEF GatesTrip, At, Goto, Drain
<1>5. ASSUME NEW c \in Campaigns, GatesPause(c) PROVE DrainOK'
  BY <1>5 DEF GatesPause, At, Stop, IdleDrain, Drain
<1>6. ASSUME NEW c \in Campaigns, TakeCapacity(c) PROVE DrainOK'
  BY <1>6 DEF TakeCapacity, At, Drain, Stop, IdleDrain
<1>7. ASSUME NEW c \in Campaigns, TakeOrgSlot(c) PROVE DrainOK'
  BY <1>7 DEF TakeOrgSlot, At, Goto, Drain
<1>8. ASSUME NEW c \in Campaigns, DropCapacity(c) PROVE DrainOK'
  BY <1>8 DEF DropCapacity, At, Stop, IdleDrain, Drain
<1>9. ASSUME NEW c \in Campaigns, ClaimRun(c) PROVE DrainOK'
  <2>1. \A q \in NextRows(c) : q \in Rows /\ CampaignOfRow(q) = c
    BY <1>9 DEF NextRows, DueRows
  <2>. QED
    BY <1>9, <2>1 DEF ClaimRun, ReleaseThen, Drain
<1>10. ASSUME NEW c \in Campaigns, Place(c) PROVE DrainOK'
  BY <1>10 DEF Place, At, ReleaseThen, Drain, Goto
<1>11. ASSUME NEW c \in Campaigns, ProviderPause(c) PROVE DrainOK'
  BY <1>11 DEF ProviderPause, At, Goto, Drain
<1>12. ASSUME NEW c \in Campaigns, CreateOutboundRun(c) PROVE DrainOK'
  BY <1>12 DEF CreateOutboundRun, At, IsNextRun, Drain, ReleaseThen
<1>13. ASSUME NEW c \in Campaigns, Dial(c) PROVE DrainOK'
  BY <1>13 DEF Dial, At, Drain, ReleaseThen
<1>14. ASSUME NEW c \in Campaigns, DrainRelease(c) PROVE DrainOK'
  BY <1>14 DEF DrainRelease, At, AfterRelease, IdleDrain, Drain
<1>15. ASSUME NEW c \in Campaigns, DrainOutcome(c) PROVE DrainOK'
  BY <1>15 DEF DrainOutcome, At, Goto, Drain
<1>16. ASSUME NEW c \in Campaigns, DrainTripped(c) PROVE DrainOK'
  BY <1>16 DEF DrainTripped, At, Goto, Drain
<1>17. ASSUME NEW c \in Campaigns, DrainMarkNotConnected(c) PROVE DrainOK'
  BY <1>17 DEF DrainMarkNotConnected, At, Goto, Drain
<1>18. ASSUME NEW c \in Campaigns, SetRow(c) PROVE DrainOK'
  BY <1>18 DEF SetRow, At, IdleDrain, Drain, GatesDrain
<1>19. ASSUME NEW c \in Campaigns, FirstInflightCheck(c) PROVE DrainOK'
  BY <1>19 DEF FirstInflightCheck, CheckInflight, At, Stop, IdleDrain, Drain, Goto
<1>20. ASSUME NEW c \in Campaigns, OpenWork(c) PROVE DrainOK'
  BY <1>20 DEF OpenWork, At, Stop, IdleDrain, Drain, Goto
<1>21. ASSUME NEW c \in Campaigns, SecondInflightCheck(c) PROVE DrainOK'
  BY <1>21 DEF SecondInflightCheck, CheckInflight, At, Stop, IdleDrain, Drain, Goto
<1>22. ASSUME NEW c \in Campaigns, CompleteCampaign(c) PROVE DrainOK'
  BY <1>22 DEF CompleteCampaign, At, Stop, IdleDrain, Drain
<1>23. ASSUME NEW c \in Campaigns, UIPause(c) PROVE DrainOK'
  BY <1>23 DEF UIPause
<1>24. ASSUME NEW c \in Campaigns, UIResume(c) PROVE DrainOK'
  BY <1>24 DEF UIResume
<1>25. ASSUME NEW r \in Runs, FinRelease(r) PROVE DrainOK'
  BY <1>25 DEF FinRelease
<1>26. ASSUME NEW r \in Runs, FinOutcome(r) PROVE DrainOK'
  BY <1>26 DEF FinOutcome
<1>27. ASSUME NEW r \in Runs, FinTripped(r) PROVE DrainOK'
  BY <1>27 DEF FinTripped
<1>28. ASSUME NEW r \in Runs, FinRetry(r) PROVE DrainOK'
  BY <1>28 DEF FinRetry
<1>29. ASSUME NEW r \in Runs, FinMarkNotConnected(r) PROVE DrainOK'
  BY <1>29 DEF FinMarkNotConnected
<1>30. ASSUME NEW r \in Runs, FinEnd(r) PROVE DrainOK'
  BY <1>30 DEF FinEnd
<1>31. ASSUME NEW r \in Runs, AgentStarted(r) PROVE DrainOK'
  BY <1>31 DEF AgentStarted
<1>32. ASSUME NEW r \in Runs, MarkRunRunning(r) PROVE DrainOK'
  BY <1>32 DEF MarkRunRunning
<1>33. ASSUME NEW r \in Runs, FinishRun(r) PROVE DrainOK'
  BY <1>33 DEF FinishRun
<1>34. ASSUME NEW r \in Runs, Answered(r) PROVE DrainOK'
  BY <1>34 DEF Answered
<1>35. ASSUME NEW r \in Runs, Unanswered(r) PROVE DrainOK'
  BY <1>35 DEF Unanswered, Done
<1>36. ASSUME NEW r \in Runs, HungUp(r) PROVE DrainOK'
  BY <1>36 DEF HungUp, Done
<1>37. ASSUME NEW r \in Runs, SweepMark(r) PROVE DrainOK'
  BY <1>37 DEF SweepMark
<1>38. ASSUME NEW r \in Runs, RunGetsOld(r) PROVE DrainOK'
  BY <1>38 DEF RunGetsOld
<1>39. ASSUME RecoverContacts PROVE DrainOK'
  BY <1>39 DEF RecoverContacts
<1>40. ASSUME SweepQuery PROVE DrainOK'
  BY <1>40 DEF SweepQuery
<1>41. ASSUME SweepEnd PROVE DrainOK'
  BY <1>41 DEF SweepEnd
<1>42. ASSUME SweepSnapshot PROVE DrainOK'
  BY <1>42 DEF SweepSnapshot
<1>43. ASSUME Crash PROVE DrainOK'
  BY <1>43 DEF Crash, IdleDrain, Drain
<1>44. ASSUME NEW q \in Rows, RetryDue(q) PROVE DrainOK'
  BY <1>44 DEF RetryDue
<1>45. ASSUME NEW s \in SlotIds, SlotAges(s) PROVE DrainOK'
  BY <1>45 DEF SlotAges
<1>46. CASE UNCHANGED vars
  BY <1>46
<1>. QED
  BY <1>1, <1>2, <1>3, <1>4, <1>5, <1>6, <1>7, <1>8, <1>9, <1>10, <1>11, <1>12, <1>13, <1>14,
     <1>15, <1>16, <1>17, <1>18, <1>19, <1>20, <1>21, <1>22, <1>23, <1>24, <1>25, <1>26,
     <1>27, <1>28, <1>29, <1>30, <1>31, <1>32, <1>33, <1>34, <1>35, <1>36, <1>37, <1>38,
     <1>39, <1>40, <1>41, <1>42, <1>43, <1>44, <1>45, <1>46 DEF Next, DrainStep, FinStep, AgentStep, RunStep

\* A step of drain goroutine c that claims, dials or settles no row.
LEMMA DrainFrame ==
    ASSUME DialInv, NEW c \in Campaigns, drain[c].pc # "idle",
           \A k \in Campaigns \ {c} : drain'[k] = drain[k],
           (Holding(c)' => Holding(c) /\ drain'[c].row = drain[c].row) /\ drain'[c].pc # "dial",
           UNCHANGED <<main, rowState, runState, call>>
    PROVE  DialInv'
  BY DEF DialInv, RecoverIdle, HeldUndialed, DialHasRun, DialedPastQueue, AtMostOneDial, Holding, Dialed

\* Every step keeps the dialing invariant.
LEMMA DialInvStep == TypeOK /\ DrainOK /\ DialInv /\ [Next]_vars => DialInv'
<1>. SUFFICES ASSUME TypeOK, DrainOK, DialInv, [Next]_vars PROVE DialInv'
  OBVIOUS
<1>0. /\ drain \in [Campaigns -> DrainRecords]
      /\ rowState \in [Rows -> RowStates]
      /\ runState \in [Runs -> RunStates]
      /\ call \in [Runs -> {"none", "ringing", "up", "over"}]
  BY DEF TypeOK
<1>. USE DialerAssumption, CampaignType, <1>0 DEF vars, dbVars, redisVars, procVars, callVars, boundVars,
       DrainOK, HasRow, DialInv, RecoverIdle, HeldUndialed, DialHasRun, DialedPastQueue,
       Holding, Dialed, AtMostOneDial, GivenBackOrSettled, RowStates, RunStates, DrainPcs, DrainRecords
<1>1. ASSUME NEW c \in Campaigns, Scan(c) PROVE DialInv'
  BY <1>1 DEF Scan, GatesDrain, Drain
<1>2. ASSUME NEW c \in Campaigns, GatesPass(c) PROVE DialInv'
  BY <1>2 DEF GatesPass, At, Goto, Drain
<1>3. ASSUME NEW c \in Campaigns, GatesStop(c) PROVE DialInv'
  BY <1>3 DEF GatesStop, At, Stop, IdleDrain, Drain
<1>4. ASSUME NEW c \in Campaigns, GatesTrip(c) PROVE DialInv'
  BY <1>4 DEF GatesTrip, At, Goto, Drain
<1>5. ASSUME NEW c \in Campaigns, GatesPause(c) PROVE DialInv'
  BY <1>5 DEF GatesPause, At, SetPaused, Stop, IdleDrain, Drain
<1>6. ASSUME NEW c \in Campaigns, TakeCapacity(c) PROVE DialInv'
  <2>1. drain[c].pc # "idle" /\ \A k \in Campaigns \ {c} : drain'[k] = drain[k]
    BY <1>6 DEF TakeCapacity, At, Goto, Stop, ReleaseThen, Drain, IdleDrain
  <2>2. (Holding(c)' => Holding(c) /\ drain'[c].row = drain[c].row) /\ drain'[c].pc # "dial"
    BY <1>6 DEF TakeCapacity, At, Goto, Stop, ReleaseThen, Drain, IdleDrain
  <2>. QED
    BY <1>6, <2>1, <2>2, DrainFrame DEF TakeCapacity
<1>7. ASSUME NEW c \in Campaigns, TakeOrgSlot(c) PROVE DialInv'
  <2>1. drain[c].pc # "idle" /\ \A k \in Campaigns \ {c} : drain'[k] = drain[k]
    BY <1>7 DEF TakeOrgSlot, At, Goto, Stop, ReleaseThen, Drain, IdleDrain
  <2>2. (Holding(c)' => Holding(c) /\ drain'[c].row = drain[c].row) /\ drain'[c].pc # "dial"
    BY <1>7 DEF TakeOrgSlot, At, Goto, Stop, ReleaseThen, Drain, IdleDrain
  <2>. QED
    BY <1>7, <2>1, <2>2, DrainFrame DEF TakeOrgSlot
<1>8. ASSUME NEW c \in Campaigns, DropCapacity(c) PROVE DialInv'
  BY <1>8 DEF DropCapacity, At, Stop, IdleDrain, Drain
<1>9. ASSUME NEW c \in Campaigns, ClaimRun(c) PROVE DialInv'
  <2>1. drain[c].pc # "idle" /\ \A k \in Campaigns \ {c} : drain'[k] = drain[k]
    BY <1>9 DEF ClaimRun, At, ReleaseThen, Drain
  <2>2. \A q \in NextRows(c) : q \in Rows /\ rowState[q] = "queued"
    BY <1>9 DEF NextRows, DueRows
  <2>3. \A q \in Rows : rowState[q] # "queued" => rowState'[q] = rowState[q]
    BY <1>9, <2>2 DEF ClaimRun
  <2>4. Holding(c)' => drain'[c].row \in NextRows(c) /\ rowState'[drain'[c].row] = "processing"
    BY <1>9, <2>2 DEF ClaimRun, At, ReleaseThen, Drain
  <2>5. HeldUndialed'
    BY <1>9, <2>1, <2>2, <2>3, <2>4 DEF ClaimRun
  <2>6. drain'[c].pc # "dial"
    BY <1>9 DEF ClaimRun, ReleaseThen, Drain
  <2>7. DialedPastQueue'
    BY <1>9, <2>3 DEF ClaimRun
  <2>8. UNCHANGED <<main, runState, call>>
    BY <1>9 DEF ClaimRun
  <2>9. DialHasRun'
    BY <2>1, <2>6, <2>8
  <2>10. RecoverIdle' /\ AtMostOneDial'
    BY <2>1, <2>8
  <2>. QED
    BY <1>9, <2>5, <2>7, <2>9, <2>10 DEF DialInv
<1>10. ASSUME NEW c \in Campaigns, Place(c) PROVE DialInv'
  <2>1. drain[c].pc # "idle" /\ \A k \in Campaigns \ {c} : drain'[k] = drain[k]
    BY <1>10 DEF Place, At, Goto, Stop, ReleaseThen, Drain, IdleDrain
  <2>2. (Holding(c)' => Holding(c) /\ drain'[c].row = drain[c].row) /\ drain'[c].pc # "dial"
    BY <1>10 DEF Place, At, Goto, Stop, ReleaseThen, Drain, IdleDrain
  <2>. QED
    BY <1>10, <2>1, <2>2, DrainFrame DEF Place
<1>11. ASSUME NEW c \in Campaigns, ProviderPause(c) PROVE DialInv'
  BY <1>11 DEF ProviderPause, At, SetPaused, Goto, Drain
<1>12. ASSUME NEW c \in Campaigns, CreateOutboundRun(c) PROVE DialInv'
  <2>1. drain[c].pc = "create" /\ \A k \in Campaigns \ {c} : drain'[k] = drain[k]
    BY <1>12 DEF CreateOutboundRun, At, ReleaseThen, Drain
  <2>2. \A r \in Runs : runState[r] # "none" => runState'[r] # "none"
    BY <1>12 DEF CreateOutboundRun
  <2>3. drain'[c].row = drain[c].row
    BY <1>12 DEF CreateOutboundRun, ReleaseThen, Drain
  <2>4. drain'[c].pc = "dial" => drain'[c].run \in Runs /\ runState'[drain'[c].run] # "none"
    BY <1>12 DEF CreateOutboundRun, ReleaseThen, Drain
  <2>5. rowState[drain[c].row] = "processing" /\ \A r \in Runs : r[1] = drain[c].row => ~Dialed(r)
    BY <2>1
  <2>6. UNCHANGED <<main, rowState, call>>
    BY <1>12 DEF CreateOutboundRun
  <2>7. HeldUndialed'
    BY <2>1, <2>3, <2>5, <2>6
  <2>8. DialHasRun'
    BY <1>12, <2>1, <2>2, <2>4 DEF CreateOutboundRun
  <2>9. DialedPastQueue' /\ AtMostOneDial' /\ RecoverIdle'
    BY <2>1, <2>2, <2>6
  <2>. QED
    BY <1>12, <2>7, <2>8, <2>9 DEF DialInv
<1>13. ASSUME NEW c \in Campaigns, Dial(c) PROVE DialInv'
  <2>1. drain[c].pc = "dial" /\ \A k \in Campaigns \ {c} : drain'[k] = drain[k]
    BY <1>13 DEF Dial, At, ReleaseThen, Drain
  <2>2. ~Holding(c)' /\ drain'[c].pc # "dial"
    BY <1>13 DEF Dial, ReleaseThen, Drain
  <2>3. drain[c].run \in Runs /\ drain[c].run[1] = drain[c].row /\ CampaignOfRow(drain[c].row) = c
    BY <2>1
  <2>4. \A r \in Runs : r # drain[c].run => call'[r] = call[r]
    BY <1>13 DEF Dial
  <2>5. HeldUndialed'
    BY <1>13, <2>1, <2>2, <2>3, <2>4 DEF Dial
  <2>6. DialedPastQueue'
    BY <1>13, <2>1, <2>3, <2>4 DEF Dial
  <2>7. AtMostOneDial'
    BY <1>13, <2>1, <2>3, <2>4 DEF Dial
  <2>8. UNCHANGED <<main, runState>>
    BY <1>13 DEF Dial
  <2>9. RecoverIdle'
    BY <2>1, <2>8
  <2>10. DialHasRun'
    BY <2>1, <2>2, <2>8
  <2>. QED
    BY <1>13, <2>5, <2>6, <2>7, <2>9, <2>10 DEF DialInv
<1>14. ASSUME NEW c \in Campaigns, DrainRelease(c) PROVE DialInv'
  BY <1>14 DEF DrainRelease, At, AfterRelease, IdleDrain, Drain
<1>15. ASSUME NEW c \in Campaigns, DrainOutcome(c) PROVE DialInv'
  <2>1. drain[c].pc # "idle" /\ \A k \in Campaigns \ {c} : drain'[k] = drain[k]
    BY <1>15 DEF DrainOutcome, At, Goto, Stop, ReleaseThen, Drain, IdleDrain
  <2>2. (Holding(c)' => Holding(c) /\ drain'[c].row = drain[c].row) /\ drain'[c].pc # "dial"
    BY <1>15 DEF DrainOutcome, At, Goto, Stop, ReleaseThen, Drain, IdleDrain
  <2>. QED
    BY <1>15, <2>1, <2>2, DrainFrame DEF DrainOutcome
<1>16. ASSUME NEW c \in Campaigns, DrainTripped(c) PROVE DialInv'
  BY <1>16 DEF DrainTripped, At, SetPaused, Goto, Drain
<1>17. ASSUME NEW c \in Campaigns, DrainMarkNotConnected(c) PROVE DialInv'
  BY <1>17 DEF DrainMarkNotConnected, At, CompleteRun, Goto, Drain
<1>18. ASSUME NEW c \in Campaigns, SetRow(c) PROVE DialInv'
  BY <1>18 DEF SetRow, At, SetRunState, IdleDrain, Drain, GatesDrain
<1>19. ASSUME NEW c \in Campaigns, FirstInflightCheck(c) PROVE DialInv'
  <2>1. drain[c].pc # "idle" /\ \A k \in Campaigns \ {c} : drain'[k] = drain[k]
    BY <1>19 DEF FirstInflightCheck, At, Goto, Stop, ReleaseThen, Drain, IdleDrain, CheckInflight
  <2>2. (Holding(c)' => Holding(c) /\ drain'[c].row = drain[c].row) /\ drain'[c].pc # "dial"
    BY <1>19 DEF FirstInflightCheck, At, Goto, Stop, ReleaseThen, Drain, IdleDrain, CheckInflight
  <2>. QED
    BY <1>19, <2>1, <2>2, DrainFrame DEF FirstInflightCheck, CheckInflight
<1>20. ASSUME NEW c \in Campaigns, OpenWork(c) PROVE DialInv'
  <2>1. drain[c].pc # "idle" /\ \A k \in Campaigns \ {c} : drain'[k] = drain[k]
    BY <1>20 DEF OpenWork, At, Goto, Stop, ReleaseThen, Drain, IdleDrain
  <2>2. (Holding(c)' => Holding(c) /\ drain'[c].row = drain[c].row) /\ drain'[c].pc # "dial"
    BY <1>20 DEF OpenWork, At, Goto, Stop, ReleaseThen, Drain, IdleDrain
  <2>. QED
    BY <1>20, <2>1, <2>2, DrainFrame DEF OpenWork
<1>21. ASSUME NEW c \in Campaigns, SecondInflightCheck(c) PROVE DialInv'
  <2>1. drain[c].pc # "idle" /\ \A k \in Campaigns \ {c} : drain'[k] = drain[k]
    BY <1>21 DEF SecondInflightCheck, At, Goto, Stop, ReleaseThen, Drain, IdleDrain, CheckInflight
  <2>2. (Holding(c)' => Holding(c) /\ drain'[c].row = drain[c].row) /\ drain'[c].pc # "dial"
    BY <1>21 DEF SecondInflightCheck, At, Goto, Stop, ReleaseThen, Drain, IdleDrain, CheckInflight
  <2>. QED
    BY <1>21, <2>1, <2>2, DrainFrame DEF SecondInflightCheck, CheckInflight
<1>22. ASSUME NEW c \in Campaigns, CompleteCampaign(c) PROVE DialInv'
  BY <1>22 DEF CompleteCampaign, At, Stop, IdleDrain, Drain
<1>23. ASSUME NEW c \in Campaigns, UIPause(c) PROVE DialInv'
  BY <1>23 DEF UIPause
<1>24. ASSUME NEW c \in Campaigns, UIResume(c) PROVE DialInv'
  BY <1>24 DEF UIResume
<1>25. ASSUME NEW r \in Runs, FinRelease(r) PROVE DialInv'
  BY <1>25 DEF FinRelease
<1>26. ASSUME NEW r \in Runs, FinOutcome(r) PROVE DialInv'
  BY <1>26 DEF FinOutcome
<1>27. ASSUME NEW r \in Runs, FinTripped(r) PROVE DialInv'
  BY <1>27 DEF FinTripped, SetPaused
<1>28. ASSUME NEW r \in Runs, FinRetry(r) PROVE DialInv'
  <2>1. \A q \in Rows : rowState[q] # "absent" => rowState'[q] = rowState[q]
    BY <1>28 DEF FinRetry
  <2>2. HeldUndialed' /\ DialedPastQueue'
    BY <1>28, <2>1 DEF FinRetry
  <2>. QED
    BY <1>28, <2>2 DEF FinRetry
<1>29. ASSUME NEW r \in Runs, FinMarkNotConnected(r) PROVE DialInv'
  BY <1>29 DEF FinMarkNotConnected, CompleteRun
<1>30. ASSUME NEW r \in Runs, FinEnd(r) PROVE DialInv'
  BY <1>30 DEF FinEnd
<1>31. ASSUME NEW r \in Runs, AgentStarted(r) PROVE DialInv'
  BY <1>31 DEF AgentStarted
<1>32. ASSUME NEW r \in Runs, MarkRunRunning(r) PROVE DialInv'
  BY <1>32 DEF MarkRunRunning, CompleteRun
<1>33. ASSUME NEW r \in Runs, FinishRun(r) PROVE DialInv'
  BY <1>33 DEF FinishRun, CompleteRun
<1>34. ASSUME NEW r \in Runs, Answered(r) PROVE DialInv'
  BY <1>34 DEF Answered
<1>35. ASSUME NEW r \in Runs, Unanswered(r) PROVE DialInv'
  BY <1>35 DEF Unanswered, Done
<1>36. ASSUME NEW r \in Runs, HungUp(r) PROVE DialInv'
  BY <1>36 DEF HungUp, Done
<1>37. ASSUME NEW r \in Runs, SweepMark(r) PROVE DialInv'
  BY <1>37 DEF SweepMark, CompleteRun
<1>38. ASSUME NEW r \in Runs, RunGetsOld(r) PROVE DialInv'
  BY <1>38 DEF RunGetsOld
<1>39. ASSUME RecoverContacts PROVE DialInv'
  BY <1>39 DEF RecoverContacts, HasRun
<1>40. ASSUME SweepQuery PROVE DialInv'
  BY <1>40 DEF SweepQuery
<1>41. ASSUME SweepEnd PROVE DialInv'
  BY <1>41 DEF SweepEnd
<1>42. ASSUME SweepSnapshot PROVE DialInv'
  BY <1>42 DEF SweepSnapshot
<1>43. ASSUME Crash PROVE DialInv'
  BY <1>43 DEF Crash, IdleDrain, Drain
<1>44. ASSUME NEW q \in Rows, RetryDue(q) PROVE DialInv'
  BY <1>44 DEF RetryDue
<1>45. ASSUME NEW s \in SlotIds, SlotAges(s) PROVE DialInv'
  BY <1>45 DEF SlotAges
<1>46. CASE UNCHANGED vars
  BY <1>46
<1>. QED
  BY <1>1, <1>2, <1>3, <1>4, <1>5, <1>6, <1>7, <1>8, <1>9, <1>10, <1>11, <1>12, <1>13, <1>14,
     <1>15, <1>16, <1>17, <1>18, <1>19, <1>20, <1>21, <1>22, <1>23, <1>24, <1>25, <1>26,
     <1>27, <1>28, <1>29, <1>30, <1>31, <1>32, <1>33, <1>34, <1>35, <1>36, <1>37, <1>38,
     <1>39, <1>40, <1>41, <1>42, <1>43, <1>44, <1>45, <1>46 DEF Next, DrainStep, FinStep, AgentStep, RunStep

-----------------------------------------------------------------------------
\* The inductive invariant holds throughout.
LEMMA Inductive == Spec => [](TypeOK /\ DrainOK /\ DialInv)
<1>1. Init => TypeOK
  BY DialerAssumption
     DEF Init, TypeOK, Rows, Runs, CampaignStates, RowStates, RunStates, DrainPcs, DrainRecords,
         Drain, IdleDrain, FinPcs, Outcomes
<1>2. Init => DrainOK /\ DialInv
  BY DEF Init, DrainOK, HasRow, DialInv, RecoverIdle, HeldUndialed, DialHasRun, DialedPastQueue,
         AtMostOneDial, Holding, Dialed, Drain, IdleDrain
<1>3. TypeOK /\ DrainOK /\ DialInv /\ [Next]_vars => TypeOK' /\ DrainOK' /\ DialInv'
  BY TypeStep, DrainOKStep, DialInvStep
<1>. QED
  BY <1>1, <1>2, <1>3, PTL DEF Spec

\* Type correctness: every variable keeps its type, whatever fails and whenever
\* the process is restarted.
THEOREM TypeCorrect == Spec => []TypeOK
  BY Inductive, PTL

\* No contact row is ever dialed twice: neither giving a row back after a failed
\* command (place) nor recovering it after a crash (RecoverContacts) puts a
\* dialed row back into the queue, and no two goroutines claim one row.
THEOREM NeverDialedTwice == Spec => []AtMostOneDial
<1>1. DialInv => AtMostOneDial
  BY DEF DialInv
<1>. QED
  BY Inductive, <1>1, PTL
=============================================================================
