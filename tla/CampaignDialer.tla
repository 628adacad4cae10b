--------------------------- MODULE CampaignDialer ---------------------------
(***************************************************************************)
(* The outbound campaign dialer: internal/campaign/runner.go with the slot *)
(* half of limiter.go, and the rows of Dograh's database it works on       *)
(* (internal/dograh/campaign.go, outbound.go).                             *)
(*                                                                         *)
(* Processes: the Run goroutine (recover, scan, sweep), one drain goroutine*)
(* per campaign (dialOne, place, maybeComplete), one `finished' goroutine  *)
(* per placed call, one recordRun goroutine per connected call             *)
(* (internal/callagent).  Every database or Redis command is one step, so  *)
(* the others interleave between any two of them; any command may fail     *)
(* (MaxFaults) and the process may die between any two steps (MaxRestarts).*)
(*                                                                         *)
(* Abstracted: one organization; the schedule window, the wallet, the rate *)
(* token and the circuit breaker's counters are oracles (each may say yes  *)
(* or no at every reading); time only as "due", "old" and "aged".          *)
(***************************************************************************)
EXTENDS Integers, FiniteSets

CONSTANTS
    None,               \* no row, run, slot or target
    Campaigns,          \* campaigns of one organization whose engine is vaani
    Contacts,           \* contacts loaded from the sheet, in loading order
    CampaignOf,         \* the campaign of each contact
    NoPhone,            \* contacts whose variables hold no phone_number
    MaxRetries,         \* retry_config.max_retries
    RetryOn,            \* the statuses the campaign retries (Eligible)
    OrgLimit,           \* CONCURRENT_CALL_LIMIT of the organization
    MaxConcurrency,     \* max_concurrency of each campaign, 0 = none
    MaxCalls,           \* OUTBOUND_MAX_CALLS, 0 = no cap of our own
    SlotIds,            \* slot ids; a bound on the slots known at once
    MaxRunsPerRow,      \* bound: Dograh runs created for one contact row
    Statuses,           \* statuses an unconnected call may end with
    MaxFaults,          \* bound: failing database and Redis commands
    MaxRestarts,        \* bound: crashes of the process
    MaxPauses,          \* bound: times a campaign is paused
    RunsGetOld,         \* FALSE: behaviours shorter than the sweep's minute
    SlotsAge,           \* FALSE: behaviours shorter than the slots' 20 minutes
    DoneAfterDialError  \* TRUE: Dial may fail and Done still be called

Rows == Contacts \X (0..MaxRetries)         \* queued_runs: contact, retry_count
Runs == Rows \X (1..MaxRunsPerRow)          \* workflow_runs with a queued_run_id
CampaignOfRow(q) == CampaignOf[q[1]]
CampaignOfRun(r) == CampaignOf[r[1][1]]
RetryOf(q) == <<q[1], q[2] + 1>>

ASSUME DialerAssumption ==
    /\ Contacts \subseteq Nat
    /\ CampaignOf \in [Contacts -> Campaigns]
    /\ NoPhone \subseteq Contacts
    /\ MaxRetries \in Nat
    /\ MaxRunsPerRow \in Nat
    /\ MaxConcurrency \in [Campaigns -> Nat]
    /\ OrgLimit \in Nat /\ MaxCalls \in Nat
    /\ MaxFaults \in Nat /\ MaxRestarts \in Nat /\ MaxPauses \in Nat
    /\ RunsGetOld \in BOOLEAN /\ SlotsAge \in BOOLEAN
    /\ None \notin SlotIds /\ None \notin Rows /\ None \notin Runs
    /\ None \notin {"stop", "complete", "queued", "failed", "processed"}
    /\ RetryOn \subseteq Statuses
    /\ Statuses \subseteq {"busy", "no-answer", "rejected", "failed"}
    /\ DoneAfterDialError \in BOOLEAN

\* A campaign's contacts are the rows of a sheet.
ASSUME ContactsAssumption == IsFiniteSet(Contacts)

\* retryReason: no other status stands for a retry setting.
ASSUME RetryAssumption == RetryOn \subseteq {"busy", "no-answer"}

VARIABLES
    \* Dograh's database
    campState,      \* campaigns.state
    rowState,       \* queued_runs.state, "absent" = no such row
    due,            \* retry rows whose scheduled_for has passed
    processedRows,  \* campaigns.processed_rows
    failedRows,     \* campaigns.failed_rows
    runState,       \* workflow_runs: none, initialized, running, or how it was completed
    oldRuns,        \* runs created more than the ring timeout and a minute ago
    \* Redis
    orgSlots,       \* concurrent_calls:<org>
    capSlots,       \* vaani_capacity:calls
    agedSlots,      \* slots taken more than 20 minutes ago
    \* the process
    main,           \* the Run goroutine
    sweepSet,       \* what the sweep in progress works on
    drain,          \* drain goroutines; pc "idle" = draining[c] is not set
    inflight,       \* Runner.inflight
    liveRuns,       \* Runner.liveRuns
    fin,            \* finished goroutines, one per call
    \* calls on the switch and their agents
    call,           \* none, ringing, up, over
    out,            \* the Outcome Done was called with
    callSlot,       \* the slot the call's Done closure carries
    agent,          \* recordRun: none, mark, talking, absent, done
    \* bounds
    faults, restarts, pauses

dbVars == <<campState, rowState, due, processedRows, failedRows, runState, oldRuns>>
redisVars == <<orgSlots, capSlots, agedSlots>>
procVars == <<main, sweepSet, drain, inflight, liveRuns, fin>>
callVars == <<call, out, callSlot, agent>>
boundVars == <<faults, restarts, pauses>>
vars == <<dbVars, redisVars, procVars, callVars, boundVars>>

CampaignStates == {"running", "paused", "completed"}
RowStates == {"absent", "queued", "processing", "processed", "failed"}
RunStates == {"none", "initialized", "running", "notconnected", "interrupted", "finished"}
DrainPcs == {"idle", "gates", "pausing", "capacity", "orgslot", "dropcap", "claim", "place",
             "provider", "create", "dial", "release", "outcome", "tripped", "marknc", "setrow",
             "inflight1", "openwork", "inflight2", "complete"}
FinPcs == {"none", "release", "outcome", "tripped", "retry", "marknc", "end"}
Outcomes == Statuses \cup {"failed", "connected", "none"}

DrainRecords == [pc : DrainPcs, row : Rows \cup {None}, run : Runs \cup {None},
                 slot : SlotIds \cup {None},
                 to : {None, "stop", "complete", "queued", "failed", "processed"}]
Drain(pc, row, run, slot, to) == [pc |-> pc, row |-> row, run |-> run, slot |-> slot, to |-> to]
IdleDrain == Drain("idle", None, None, None, None)
GatesDrain == Drain("gates", None, None, None, None)

-----------------------------------------------------------------------------
\* Failing commands, slots, and the limits.

\* A database or Redis command that returns an error.
Fault == faults < MaxFaults /\ faults' = faults + 1
NoFault == UNCHANGED faults

UsedSlots == orgSlots \cup capSlots \cup {drain[c].slot : c \in Campaigns}
             \cup {callSlot[r] : r \in {x \in Runs : call[x] \in {"ringing", "up"} \/ fin[x] # "none"}}

\* orgLimit: the organization's limit lowered by the campaign's own.
LimitOf(c) == IF MaxConcurrency[c] > 0 /\ MaxConcurrency[c] < OrgLimit
              THEN MaxConcurrency[c] ELSE OrgLimit

\* slotScript: what it leaves of a key once stale entries are trimmed.
Trim(key) == key \ agedSlots

\* ReleaseSlot with slot s: the capacity entry, then the organization's; either
\* removal may fail, and the entry then stays until it is stale.
ReleaseSlot(s) ==
    \/ /\ NoFault
       /\ capSlots' = capSlots \ {s}
       /\ orgSlots' = orgSlots \ {s}
    \/ /\ Fault
       /\ capSlots' \in {capSlots, capSlots \ {s}}
       /\ orgSlots' \in {orgSlots, orgSlots \ {s}}

\* inflight never goes below zero: a count of zero or less is deleted.
AddInflight(c, n) == inflight' = [inflight EXCEPT ![c] = IF @ + n <= 0 THEN 0 ELSE @ + n]

\* pause: running -> paused, only if it is still running.
SetPaused(c) ==
    \/ /\ NoFault
       /\ campState' = [campState EXCEPT ![c] = IF @ = "running" THEN "paused" ELSE @]
    \/ /\ Fault
       /\ UNCHANGED campState

CountPause == pauses < MaxPauses /\ pauses' = pauses + 1

\* SetRunState: the row, and its campaign's counter, in one transaction.
SetRunState(q, state) ==
    \/ /\ NoFault
       /\ rowState' = [rowState EXCEPT ![q] = state]
       /\ processedRows' = IF state = "processed"
                           THEN [processedRows EXCEPT ![CampaignOfRow(q)] = @ + 1] ELSE processedRows
       /\ failedRows' = IF state = "failed"
                        THEN [failedRows EXCEPT ![CampaignOfRow(q)] = @ + 1] ELSE failedRows
    \/ /\ Fault
       /\ UNCHANGED <<rowState, processedRows, failedRows>>

\* MarkNotConnected / MarkInterrupted / FinishRun: complete run r.
CompleteRun(r, how) ==
    \/ /\ NoFault
       /\ runState' = [runState EXCEPT ![r] = how]
    \/ /\ Fault
       /\ UNCHANGED runState

-----------------------------------------------------------------------------
\* The drain goroutine of campaign c.

At(c, pc) == drain[c].pc = pc
Goto(c, pc) == drain' = [drain EXCEPT ![c] = Drain(pc, @.row, @.run, @.slot, @.to)]
ReleaseThen(c, to) == drain' = [drain EXCEPT ![c] = Drain("release", @.row, @.run, @.slot, to)]
Stop(c) == drain' = [drain EXCEPT ![c] = IdleDrain]

\* scan: a running campaign nobody drains gets a drain goroutine.
Scan(c) ==
    /\ main = "loop"
    /\ campState[c] = "running"
    /\ drain[c].pc = "idle"
    /\ drain' = [drain EXCEPT ![c] = GatesDrain]
    /\ UNCHANGED <<dbVars, redisVars, main, sweepSet, inflight, liveRuns, fin, callVars, boundVars>>

\* dialOne's checks pass: running, in its window, breaker closed, wallet
\* funded, limits read, rate token taken.
GatesPass(c) ==
    /\ At(c, "gates")
    /\ campState[c] = "running"
    /\ Goto(c, "capacity")
    /\ UNCHANGED <<dbVars, redisVars, main, sweepSet, inflight, liveRuns, fin, callVars, boundVars>>

\* Not running, outside the window, or something could not be read.
GatesStop(c) ==
    /\ At(c, "gates")
    /\ Stop(c)
    /\ UNCHANGED <<dbVars, redisVars, main, sweepSet, inflight, liveRuns, fin, callVars, boundVars>>

\* The breaker is open or the wallet is empty.
GatesTrip(c) ==
    /\ At(c, "gates")
    /\ campState[c] = "running"
    /\ CountPause
    /\ Goto(c, "pausing")
    /\ UNCHANGED <<dbVars, redisVars, main, sweepSet, inflight, liveRuns, fin, callVars, faults, restarts>>

GatesPause(c) ==
    /\ At(c, "pausing")
    /\ SetPaused(c)
    /\ Stop(c)
    /\ UNCHANGED <<rowState, due, processedRows, failedRows, runState, oldRuns, redisVars,
                   main, sweepSet, inflight, liveRuns, fin, callVars, restarts, pauses>>

\* AcquireSlot, first half: a place under Vaani's own cap.  A failing command
\* may still have been executed.
TakeCapacity(c) ==
    /\ At(c, "capacity")
    /\ \E s \in SlotIds \ UsedSlots :
        LET taken == [drain EXCEPT ![c] = Drain("orgslot", @.row, @.run, s, @.to)] IN
        \/ /\ MaxCalls = 0
           /\ NoFault
           /\ drain' = taken
           /\ UNCHANGED capSlots
        \/ /\ MaxCalls > 0 /\ Cardinality(Trim(capSlots)) < MaxCalls
           /\ NoFault
           /\ capSlots' = Trim(capSlots) \cup {s}
           /\ drain' = taken
        \/ /\ MaxCalls > 0 /\ Cardinality(Trim(capSlots)) >= MaxCalls
           /\ NoFault
           /\ capSlots' = Trim(capSlots)
           /\ Stop(c)
        \/ /\ MaxCalls > 0
           /\ Fault
           /\ \/ UNCHANGED capSlots
              \/ Cardinality(Trim(capSlots)) < MaxCalls /\ capSlots' = Trim(capSlots) \cup {s}
           /\ Stop(c)
        /\ agedSlots' = agedSlots \ {s}
    /\ UNCHANGED <<dbVars, orgSlots, main, sweepSet, inflight, liveRuns, fin, callVars, restarts, pauses>>

\* Mutant: the limit is off by one.
TakeOrgSlotOffByOne(c) ==
    /\ At(c, "orgslot")
    /\ \/ /\ Cardinality(Trim(orgSlots)) <= LimitOf(c)
          /\ NoFault
          /\ orgSlots' = Trim(orgSlots) \cup {drain[c].slot}
          /\ Goto(c, "claim")
       \/ /\ Cardinality(Trim(orgSlots)) > LimitOf(c)
          /\ NoFault
          /\ orgSlots' = Trim(orgSlots)
          /\ Goto(c, "dropcap")
       \/ /\ Fault
          /\ \/ UNCHANGED orgSlots
             \/ /\ Cardinality(Trim(orgSlots)) <= LimitOf(c)
                /\ orgSlots' = Trim(orgSlots) \cup {drain[c].slot}
          /\ Goto(c, "dropcap")
    /\ UNCHANGED <<dbVars, capSlots, agedSlots, main, sweepSet, inflight, liveRuns, fin, callVars,
                   restarts, pauses>>

\* AcquireSlot, second half: a place under the organization's limit.
TakeOrgSlot(c) ==
    /\ At(c, "orgslot")
    /\ \/ /\ Cardinality(Trim(orgSlots)) < LimitOf(c)
          /\ NoFault
          /\ orgSlots' = Trim(orgSlots) \cup {drain[c].slot}
          /\ Goto(c, "claim")
       \/ /\ Cardinality(Trim(orgSlots)) >= LimitOf(c)
          /\ NoFault
          /\ orgSlots' = Trim(orgSlots)
          /\ Goto(c, "dropcap")
       \/ /\ Fault
          /\ \/ UNCHANGED orgSlots
             \/ /\ Cardinality(Trim(orgSlots)) < LimitOf(c)
                /\ orgSlots' = Trim(orgSlots) \cup {drain[c].slot}
          /\ Goto(c, "dropcap")
    /\ UNCHANGED <<dbVars, capSlots, agedSlots, main, sweepSet, inflight, liveRuns, fin, callVars,
                   restarts, pauses>>

\* Mutant: the capacity is not given back.
DropNothing(c) ==
    /\ At(c, "dropcap")
    /\ NoFault /\ UNCHANGED capSlots
    /\ Stop(c)
    /\ UNCHANGED <<dbVars, orgSlots, agedSlots, main, sweepSet, inflight, liveRuns, fin, callVars,
                   restarts, pauses>>

\* dropCapacity: no organization slot, so the capacity goes back; its error is
\* ignored.
DropCapacity(c) ==
    /\ At(c, "dropcap")
    /\ \/ NoFault /\ capSlots' = capSlots \ {drain[c].slot}
       \/ Fault /\ UNCHANGED capSlots
    /\ Stop(c)
    /\ UNCHANGED <<dbVars, orgSlots, agedSlots, main, sweepSet, inflight, liveRuns, fin, callVars,
                   restarts, pauses>>

\* ClaimRuns: retries that are due first, then the contacts as they were loaded.
DueRows(c) == {q \in Rows : CampaignOfRow(q) = c /\ rowState[q] = "queued" /\ (q[2] = 0 \/ q \in due)}
NextRows(c) == LET retries == {q \in DueRows(c) : q[2] > 0} IN
               IF retries # {} THEN retries
               ELSE {q \in DueRows(c) : \A p \in DueRows(c) : q[1] <= p[1]}

ClaimRun(c) ==
    /\ At(c, "claim")
    /\ \/ \E q \in NextRows(c) :
            /\ rowState' = [rowState EXCEPT ![q] = "processing"]
            /\ \/ /\ NoFault
                  /\ drain' = [drain EXCEPT ![c] = Drain("place", q, @.run, @.slot, @.to)]
               \/ /\ Fault        \* claimed, but the answer was lost or unreadable
                  /\ ReleaseThen(c, "stop")
       \/ /\ NextRows(c) = {}
          /\ NoFault
          /\ ReleaseThen(c, "complete")
          /\ UNCHANGED rowState
       \/ /\ Fault
          /\ ReleaseThen(c, "stop")
          /\ UNCHANGED rowState
    /\ UNCHANGED <<campState, due, processedRows, failedRows, runState, oldRuns, redisVars,
                   main, sweepSet, inflight, liveRuns, fin, callVars, restarts, pauses>>

\* place, up to creating the run: no number fails the contact, unreadable
\* settings or another provider give it back.
Place(c) ==
    /\ At(c, "place")
    /\ LET q == drain[c].row IN
       \/ /\ q[1] \in NoPhone
          /\ ReleaseThen(c, "failed")
          /\ UNCHANGED <<faults, pauses>>
       \/ /\ q[1] \notin NoPhone
          /\ Fault
          /\ ReleaseThen(c, "queued")
          /\ UNCHANGED pauses
       \/ /\ q[1] \notin NoPhone
          /\ CountPause
          /\ drain' = [drain EXCEPT ![c] = Drain("provider", @.row, @.run, @.slot, "queued")]
          /\ NoFault
       \/ /\ q[1] \notin NoPhone
          /\ Goto(c, "create")
          /\ UNCHANGED <<faults, pauses>>
    /\ UNCHANGED <<dbVars, redisVars, main, sweepSet, inflight, liveRuns, fin, callVars, restarts>>

ProviderPause(c) ==
    /\ At(c, "provider")
    /\ SetPaused(c)
    /\ Goto(c, "release")
    /\ UNCHANGED <<rowState, due, processedRows, failedRows, runState, oldRuns, redisVars,
                   main, sweepSet, inflight, liveRuns, fin, callVars, restarts, pauses>>

\* The run CreateOutboundRun inserts for row q: the next id.
IsNextRun(q, r) == /\ r \in Runs /\ r[1] = q
                   /\ runState[r] = "none"
                   /\ \A x \in Runs : x[1] = q /\ x[2] < r[2] => runState[x] # "none"

\* CreateOutboundRun, then the call counts as in flight and its run as live.
\* On an error the contact goes back; the insert may have happened all the same.
CreateOutboundRun(c) ==
    /\ At(c, "create")
    /\ \/ \E r \in Runs :
            /\ IsNextRun(drain[c].row, r)
            /\ runState' = [runState EXCEPT ![r] = "initialized"]
            /\ \/ /\ NoFault
                  /\ AddInflight(c, 1)
                  /\ liveRuns' = liveRuns \cup {r}
                  /\ drain' = [drain EXCEPT ![c] = Drain("dial", @.row, r, @.slot, @.to)]
               \/ /\ Fault
                  /\ ReleaseThen(c, "queued")
                  /\ UNCHANGED <<inflight, liveRuns>>
       \/ /\ Fault
          /\ ReleaseThen(c, "queued")
          /\ UNCHANGED <<runState, inflight, liveRuns>>
    /\ UNCHANGED <<campState, rowState, due, processedRows, failedRows, oldRuns, redisVars,
                   main, sweepSet, fin, callVars, restarts, pauses>>

\* placer.Dial returned: the call is ringing, or it failed ("nothing is
\* ringing, and Done won't come", unless DoneAfterDialError).
Dial(c) ==
    /\ At(c, "dial")
    /\ LET r == drain[c].run IN
       \/ /\ call' = [call EXCEPT ![r] = "ringing"]
          /\ callSlot' = [callSlot EXCEPT ![r] = drain[c].slot]
          /\ drain' = [drain EXCEPT ![c] = Drain("setrow", @.row, @.run, None, "processed")]
          /\ UNCHANGED <<inflight, liveRuns>>
       \/ /\ \/ /\ call' = [call EXCEPT ![r] = "over"]
                /\ UNCHANGED callSlot
             \/ /\ DoneAfterDialError
                /\ call' = [call EXCEPT ![r] = "up"]
                /\ callSlot' = [callSlot EXCEPT ![r] = drain[c].slot]
          /\ AddInflight(c, -1)
          /\ liveRuns' = liveRuns \ {r}
          /\ ReleaseThen(c, "failed")
    /\ UNCHANGED <<dbVars, redisVars, main, sweepSet, fin, out, agent, boundVars>>

\* release, and where the code goes from there.
AfterRelease(d) == IF d.to = "stop" THEN "idle"
                   ELSE IF d.to = "complete" THEN "inflight1"
                   ELSE IF d.to = "failed" /\ d.run # None THEN "outcome" ELSE "setrow"

DrainRelease(c) ==
    /\ At(c, "release")
    /\ ReleaseSlot(drain[c].slot)
    /\ LET pc == AfterRelease(drain[c]) IN
       drain' = [drain EXCEPT ![c] = IF pc = "idle" THEN IdleDrain
                                        ELSE Drain(pc, @.row, @.run, None, @.to)]
    /\ UNCHANGED <<dbVars, agedSlots, main, sweepSet, inflight, liveRuns, fin, callVars, restarts, pauses>>

\* recordOutcome after a failed dial: it may trip the breaker.
DrainOutcome(c) ==
    /\ At(c, "outcome")
    /\ \/ Goto(c, "marknc") /\ UNCHANGED pauses
       \/ Goto(c, "tripped") /\ CountPause
    /\ UNCHANGED <<dbVars, redisVars, main, sweepSet, inflight, liveRuns, fin, callVars, faults, restarts>>

DrainTripped(c) ==
    /\ At(c, "tripped")
    /\ SetPaused(c)
    /\ Goto(c, "marknc")
    /\ UNCHANGED <<rowState, due, processedRows, failedRows, runState, oldRuns, redisVars,
                   main, sweepSet, inflight, liveRuns, fin, callVars, restarts, pauses>>

DrainMarkNotConnected(c) ==
    /\ At(c, "marknc")
    /\ CompleteRun(drain[c].run, "notconnected")
    /\ Goto(c, "setrow")
    /\ UNCHANGED <<campState, rowState, due, processedRows, failedRows, oldRuns, redisVars,
                   main, sweepSet, inflight, liveRuns, fin, callVars, restarts, pauses>>

\* setRunState, the end of place: stepStop if the contact was given back, else
\* the next one.
SetRow(c) ==
    /\ At(c, "setrow")
    /\ SetRunState(drain[c].row, drain[c].to)
    /\ drain' = [drain EXCEPT ![c] = IF @.to = "queued" THEN IdleDrain ELSE GatesDrain]
    /\ UNCHANGED <<campState, due, runState, oldRuns, redisVars,
                   main, sweepSet, inflight, liveRuns, fin, callVars, restarts, pauses>>

\* maybeComplete: calls in flight, open work, calls in flight again, and then
\* the campaign is completed if it is still running.
CheckInflight(c, first, next) ==
    /\ At(c, first)
    /\ IF inflight[c] > 0 THEN Stop(c) ELSE Goto(c, next)
    /\ UNCHANGED <<dbVars, redisVars, main, sweepSet, inflight, liveRuns, fin, callVars, boundVars>>

\* Mutant: open work is asked for at once.
NoFirstInflightCheck(c) ==
    /\ At(c, "inflight1")
    /\ Goto(c, "openwork")
    /\ UNCHANGED <<dbVars, redisVars, main, sweepSet, inflight, liveRuns, fin, callVars, boundVars>>

FirstInflightCheck(c) == CheckInflight(c, "inflight1", "openwork")
SecondInflightCheck(c) == CheckInflight(c, "inflight2", "complete")

\* Mutant: contacts being handled do not count as open work.
OpenWorkQueuedOnly(c) ==
    /\ At(c, "openwork")
    /\ \/ /\ NoFault
          /\ IF \E q \in Rows : CampaignOfRow(q) = c /\ rowState[q] = "queued"
             THEN Stop(c) ELSE Goto(c, "inflight2")
       \/ Fault /\ Stop(c)
    /\ UNCHANGED <<dbVars, redisVars, main, sweepSet, inflight, liveRuns, fin, callVars, restarts, pauses>>

OpenWork(c) ==
    /\ At(c, "openwork")
    /\ \/ /\ NoFault
          /\ IF \E q \in Rows : CampaignOfRow(q) = c /\ rowState[q] \in {"queued", "processing"}
             THEN Stop(c) ELSE Goto(c, "inflight2")
       \/ Fault /\ Stop(c)
    /\ UNCHANGED <<dbVars, redisVars, main, sweepSet, inflight, liveRuns, fin, callVars, restarts, pauses>>

CompleteCampaign(c) ==
    /\ At(c, "complete")
    /\ \/ /\ NoFault
          /\ campState' = [campState EXCEPT ![c] = IF @ = "running" THEN "completed" ELSE @]
       \/ Fault /\ UNCHANGED campState
    /\ Stop(c)
    /\ UNCHANGED <<rowState, due, processedRows, failedRows, runState, oldRuns, redisVars,
                   main, sweepSet, inflight, liveRuns, fin, callVars, restarts, pauses>>

-----------------------------------------------------------------------------
\* finished: the end of the placed call of run r, on its own goroutine.

FinGoto(r, pc) == fin' = [fin EXCEPT ![r] = pc]

FinRelease(r) ==
    /\ fin[r] = "release"
    /\ ReleaseSlot(callSlot[r])
    /\ FinGoto(r, "outcome")
    /\ UNCHANGED <<dbVars, agedSlots, main, sweepSet, drain, inflight, liveRuns, callVars, restarts, pauses>>

\* What follows recordOutcome: a connected call is done, a busy or unanswered
\* one may be retried, and the run of any other is completed.
AfterOutcome(r) == IF out[r] = "connected" THEN "end"
                   ELSE IF out[r] \in RetryOn THEN "retry" ELSE "marknc"

FinOutcome(r) ==
    /\ fin[r] = "outcome"
    /\ \/ FinGoto(r, AfterOutcome(r)) /\ UNCHANGED pauses
       \/ FinGoto(r, "tripped") /\ CountPause
    /\ UNCHANGED <<dbVars, redisVars, main, sweepSet, drain, inflight, liveRuns, callVars, faults, restarts>>

FinTripped(r) ==
    /\ fin[r] = "tripped"
    /\ SetPaused(CampaignOfRun(r))
    /\ FinGoto(r, AfterOutcome(r))
    /\ UNCHANGED <<rowState, due, processedRows, failedRows, runState, oldRuns, redisVars,
                   main, sweepSet, drain, inflight, liveRuns, callVars, restarts, pauses>>

\* Mutant: one retry too few.
FinRetryOneShort(r) ==
    /\ fin[r] = "retry"
    /\ LET q == r[1] IN
       \/ /\ NoFault /\ q[2] + 1 >= MaxRetries
          /\ failedRows' = [failedRows EXCEPT ![CampaignOfRow(q)] = @ + 1]
          /\ UNCHANGED rowState
       \/ /\ NoFault /\ q[2] + 1 < MaxRetries
          /\ rowState' = [rowState EXCEPT ![RetryOf(q)] = IF @ = "absent" THEN "queued" ELSE @]
          /\ UNCHANGED failedRows
       \/ Fault /\ UNCHANGED <<rowState, failedRows>>
    /\ FinGoto(r, "marknc")
    /\ UNCHANGED <<campState, due, processedRows, runState, oldRuns, redisVars,
                   main, sweepSet, drain, inflight, liveRuns, callVars, restarts, pauses>>

\* Retries used up: one more failed row.  Else ScheduleRetry inserts the next
\* row, unless it exists (ON CONFLICT DO NOTHING).
FinRetry(r) ==
    /\ fin[r] = "retry"
    /\ LET q == r[1] IN
       \/ /\ NoFault /\ q[2] >= MaxRetries
          /\ failedRows' = [failedRows EXCEPT ![CampaignOfRow(q)] = @ + 1]
          /\ UNCHANGED rowState
       \/ /\ NoFault /\ q[2] < MaxRetries
          /\ rowState' = [rowState EXCEPT ![RetryOf(q)] = IF @ = "absent" THEN "queued" ELSE @]
          /\ UNCHANGED failedRows
       \/ Fault /\ UNCHANGED <<rowState, failedRows>>
    /\ FinGoto(r, "marknc")
    /\ UNCHANGED <<campState, due, processedRows, runState, oldRuns, redisVars,
                   main, sweepSet, drain, inflight, liveRuns, callVars, restarts, pauses>>

FinMarkNotConnected(r) ==
    /\ fin[r] = "marknc"
    /\ CompleteRun(r, "notconnected")
    /\ FinGoto(r, "end")
    /\ UNCHANGED <<campState, rowState, due, processedRows, failedRows, oldRuns, redisVars,
                   main, sweepSet, drain, inflight, liveRuns, callVars, restarts, pauses>>

\* Mutant: the call stays in flight.
FinEndInFlight(r) ==
    /\ fin[r] = "end"
    /\ liveRuns' = liveRuns \ {r}
    /\ UNCHANGED inflight
    /\ FinGoto(r, "none")
    /\ UNCHANGED <<dbVars, redisVars, main, sweepSet, drain, callVars, boundVars>>

\* The deferred calls: untrack, inflight - 1, wake.
FinEnd(r) ==
    /\ fin[r] = "end"
    /\ liveRuns' = liveRuns \ {r}
    /\ AddInflight(CampaignOfRun(r), -1)
    /\ FinGoto(r, "none")
    /\ UNCHANGED <<dbVars, redisVars, main, sweepSet, drain, callVars, boundVars>>

-----------------------------------------------------------------------------
\* The Run goroutine: recovery at startup, and the sweeps.

\* Mutant: every contact left processing goes back to the queue.
NeverHasRun(q) == FALSE

\* RecoverContacts: a contact left processing with a run becomes processed, one
\* without goes back to the queue.
HasRun(q) == \E r \in Runs : r[1] = q /\ runState[r] # "none"

RecoverContacts ==
    /\ main = "recover"
    /\ \/ /\ NoFault
          /\ rowState' = [q \in Rows |-> IF rowState[q] # "processing" THEN rowState[q]
                                         ELSE IF HasRun(q) THEN "processed" ELSE "queued"]
       \/ Fault /\ UNCHANGED rowState
    /\ main' = "startquery"
    /\ UNCHANGED <<campState, due, processedRows, failedRows, runState, oldRuns, redisVars,
                   sweepSet, drain, inflight, liveRuns, fin, callVars, restarts, pauses>>

\* Mutant: the runs of calls in progress are not left out.
SweepAllOld ==
    /\ main = "loop"
    /\ RunsGetOld
    /\ sweepSet' = oldRuns
    /\ main' = "query"
    /\ UNCHANGED <<dbVars, redisVars, drain, inflight, liveRuns, fin, callVars, boundVars>>

\* sweep, first step: the live runs and the cutoff are taken together, so the
\* candidates are the old runs nothing accounts for.
SweepSnapshot ==
    /\ main = "loop"
    /\ RunsGetOld
    /\ sweepSet' = oldRuns \ liveRuns
    /\ main' = "query"
    /\ UNCHANGED <<dbVars, redisVars, drain, inflight, liveRuns, fin, callVars, boundVars>>

\* Mutant: at startup, runs still running are left alone.
SweepQueryInitialized ==
    /\ main \in {"query", "startquery"}
    /\ \/ /\ NoFault
          /\ sweepSet' = IF main = "query" THEN {r \in sweepSet : runState[r] = "initialized"}
                         ELSE {r \in oldRuns : runState[r] = "initialized"}
          /\ main' = IF main = "query" THEN "mark" ELSE "startmark"
       \/ /\ Fault
          /\ sweepSet' = {}
          /\ main' = "loop"
    /\ UNCHANGED <<dbVars, redisVars, drain, inflight, liveRuns, fin, callVars, restarts, pauses>>

\* StaleRuns: which of them are still initialized; at startup, also every run
\* still running.
SweepQuery ==
    /\ main \in {"query", "startquery"}
    /\ \/ /\ NoFault
          /\ sweepSet' = IF main = "query" THEN {r \in sweepSet : runState[r] = "initialized"}
                         ELSE {r \in Runs : \/ runState[r] = "initialized" /\ r \in oldRuns
                                            \/ runState[r] = "running"}
          /\ main' = IF main = "query" THEN "mark" ELSE "startmark"
       \/ /\ Fault
          /\ sweepSet' = {}
          /\ main' = "loop"
    /\ UNCHANGED <<dbVars, redisVars, drain, inflight, liveRuns, fin, callVars, restarts, pauses>>

SweepMark(r) ==
    /\ main \in {"mark", "startmark"}
    /\ r \in sweepSet
    /\ CompleteRun(r, IF main = "startmark" /\ runState[r] = "running" THEN "interrupted" ELSE "notconnected")
    /\ sweepSet' = sweepSet \ {r}
    /\ UNCHANGED <<campState, rowState, due, processedRows, failedRows, oldRuns, redisVars,
                   main, drain, inflight, liveRuns, fin, callVars, restarts, pauses>>

SweepEnd ==
    /\ main \in {"mark", "startmark"}
    /\ sweepSet = {}
    /\ main' = "loop"
    /\ UNCHANGED <<dbVars, redisVars, sweepSet, drain, inflight, liveRuns, fin, callVars, boundVars>>

\* The process dies and is started again: its memory and its goroutines are
\* gone, the rows and the slots stay, its calls are cut off.
Crash ==
    /\ restarts < MaxRestarts
    /\ restarts' = restarts + 1
    /\ main' = "recover"
    /\ sweepSet' = {}
    /\ drain' = [c \in Campaigns |-> IdleDrain]
    /\ inflight' = [c \in Campaigns |-> 0]
    /\ liveRuns' = {}
    /\ fin' = [r \in Runs |-> "none"]
    /\ call' = [r \in Runs |-> IF call[r] \in {"ringing", "up"} THEN "over" ELSE call[r]]
    /\ agent' = [r \in Runs |-> IF agent[r] \in {"mark", "talking"} THEN "done" ELSE agent[r]]
    /\ callSlot' = [r \in Runs |-> None]
    /\ UNCHANGED <<dbVars, redisVars, out, faults, pauses>>

-----------------------------------------------------------------------------
\* The calls on the switch, as the runner sees them through Done, and the
\* agent's record of a connected one (callagent.recordRun).

Answered(r) ==
    /\ call[r] = "ringing"
    /\ call' = [call EXCEPT ![r] = "up"]
    /\ UNCHANGED <<dbVars, redisVars, procVars, out, callSlot, agent, boundVars>>

\* mediaHandler sets agentStarted; without a workflow or an STT connection
\* there is no recordRun.
AgentStarted(r) ==
    /\ call[r] = "up" /\ agent[r] = "none"
    /\ \E a \in {"mark", "absent"} : agent' = [agent EXCEPT ![r] = a]
    /\ UNCHANGED <<dbVars, redisVars, procVars, call, out, callSlot, boundVars>>

\* MarkRunRunning: an unconditional update.
MarkRunRunning(r) ==
    /\ agent[r] = "mark"
    /\ CompleteRun(r, "running")
    /\ agent' = [agent EXCEPT ![r] = "talking"]
    /\ UNCHANGED <<campState, rowState, due, processedRows, failedRows, oldRuns, redisVars,
                   procVars, call, out, callSlot, restarts, pauses>>

\* FinishRun, once the agent has left the call.
FinishRun(r) ==
    /\ agent[r] = "talking" /\ call[r] = "over"
    /\ CompleteRun(r, "finished")
    /\ agent' = [agent EXCEPT ![r] = "done"]
    /\ UNCHANGED <<campState, rowState, due, processedRows, failedRows, oldRuns, redisVars,
                   procVars, call, out, callSlot, restarts, pauses>>

\* The call is over and Done is called with its outcome.
Done(r, how) ==
    /\ call' = [call EXCEPT ![r] = "over"]
    /\ out' = [out EXCEPT ![r] = how]
    /\ FinGoto(r, "release")
    /\ UNCHANGED <<dbVars, redisVars, main, sweepSet, drain, inflight, liveRuns, callSlot, agent, boundVars>>

\* Mutant: the hangup cause is passed on unmapped.
UnansweredUnmapped(r) == call[r] = "ringing" /\ Done(r, "cause 17")
Unanswered(r) == call[r] = "ringing" /\ \E how \in Statuses : Done(r, how)

\* Connected if the agent was started; a call torn down before that failed.
HungUp(r) == call[r] = "up" /\ Done(r, IF agent[r] = "none" THEN "failed" ELSE "connected")

-----------------------------------------------------------------------------
\* Dograh's UI, and the passage of time.

UIPause(c) ==
    /\ campState[c] = "running"
    /\ CountPause
    /\ campState' = [campState EXCEPT ![c] = "paused"]
    /\ UNCHANGED <<rowState, due, processedRows, failedRows, runState, oldRuns, redisVars,
                   procVars, callVars, faults, restarts>>

UIResume(c) ==
    /\ campState[c] = "paused"
    /\ campState' = [campState EXCEPT ![c] = "running"]
    /\ UNCHANGED <<rowState, due, processedRows, failedRows, runState, oldRuns, redisVars,
                   procVars, callVars, boundVars>>

RetryDue(q) ==
    /\ rowState[q] = "queued" /\ q[2] > 0 /\ q \notin due
    /\ due' = due \cup {q}
    /\ UNCHANGED <<campState, rowState, processedRows, failedRows, runState, oldRuns, redisVars,
                   procVars, callVars, boundVars>>

\* By then the call is no longer ringing, nor is anyone about to say it runs.
RunGetsOld(r) ==
    /\ RunsGetOld
    /\ runState[r] = "initialized" /\ r \notin oldRuns
    /\ call[r] # "ringing" /\ agent[r] # "mark"
    /\ \A c \in Campaigns : drain[c].run # r
    /\ oldRuns' = oldRuns \cup {r}
    /\ UNCHANGED <<campState, rowState, due, processedRows, failedRows, runState, redisVars,
                   procVars, callVars, boundVars>>

\* Twenty minutes after it was taken: a slot left behind, or of a long call.
SlotAges(s) ==
    /\ SlotsAge
    /\ s \in orgSlots \cup capSlots /\ s \notin agedSlots
    /\ \A c \in Campaigns : drain[c].slot # s
    /\ \A r \in Runs : callSlot[r] = s => call[r] # "ringing" /\ fin[r] = "none"
    /\ agedSlots' = agedSlots \cup {s}
    /\ UNCHANGED <<dbVars, orgSlots, capSlots, procVars, callVars, boundVars>>

-----------------------------------------------------------------------------
Init ==
    /\ campState = [c \in Campaigns |-> "running"]
    /\ rowState = [q \in Rows |-> IF q[2] = 0 THEN "queued" ELSE "absent"]
    /\ due = {}
    /\ processedRows = [c \in Campaigns |-> 0]
    /\ failedRows = [c \in Campaigns |-> 0]
    /\ runState = [r \in Runs |-> "none"]
    /\ oldRuns = {}
    /\ orgSlots = {} /\ capSlots = {} /\ agedSlots = {}
    /\ main = "recover"
    /\ sweepSet = {}
    /\ drain = [c \in Campaigns |-> IdleDrain]
    /\ inflight = [c \in Campaigns |-> 0]
    /\ liveRuns = {}
    /\ fin = [r \in Runs |-> "none"]
    /\ call = [r \in Runs |-> "none"]
    /\ out = [r \in Runs |-> "none"]
    /\ callSlot = [r \in Runs |-> None]
    /\ agent = [r \in Runs |-> "none"]
    /\ faults = 0 /\ restarts = 0 /\ pauses = 0

\* One step of campaign c's drain goroutine past the gates.
DrainStep(c) ==
    \/ GatesTrip(c) \/ GatesPause(c)
    \/ TakeCapacity(c) \/ TakeOrgSlot(c) \/ DropCapacity(c)
    \/ ClaimRun(c) \/ Place(c) \/ ProviderPause(c)
    \/ CreateOutboundRun(c) \/ Dial(c)
    \/ DrainRelease(c) \/ DrainOutcome(c) \/ DrainTripped(c) \/ DrainMarkNotConnected(c)
    \/ SetRow(c)
    \/ FirstInflightCheck(c) \/ OpenWork(c) \/ SecondInflightCheck(c) \/ CompleteCampaign(c)

FinStep(r) ==
    \/ FinRelease(r) \/ FinOutcome(r) \/ FinTripped(r) \/ FinRetry(r)
    \/ FinMarkNotConnected(r) \/ FinEnd(r)

AgentStep(r) == AgentStarted(r) \/ MarkRunRunning(r) \/ FinishRun(r)

RunStep == RecoverContacts \/ SweepQuery \/ SweepEnd \/ \E r \in Runs : SweepMark(r)

Next ==
    \/ \E c \in Campaigns : Scan(c) \/ GatesPass(c) \/ GatesStop(c) \/ DrainStep(c)
    \/ \E r \in Runs : FinStep(r) \/ AgentStep(r)
    \/ \E r \in Runs : Answered(r) \/ Unanswered(r) \/ HungUp(r)
    \/ RunStep \/ SweepSnapshot \/ Crash
    \/ \E c \in Campaigns : UIPause(c) \/ UIResume(c)
    \/ \E q \in Rows : RetryDue(q)
    \/ \E r \in Runs : RunGetsOld(r)
    \/ \E s \in SlotIds : SlotAges(s)

Spec == Init /\ [][Next]_vars

\* Goroutines that can run are run; ringing and calls end (ring timeout,
\* watchdog, hangup); delays pass; the operator resumes a paused campaign; and
\* the gates (window, wallet, breaker) let a campaign through again and again.
Fairness ==
    /\ \A c \in Campaigns : /\ SF_vars(Scan(c)) /\ SF_vars(GatesPass(c))
                            /\ WF_vars(GatesPass(c) \/ GatesStop(c))
                            /\ WF_vars(DrainStep(c)) /\ WF_vars(UIResume(c))
    /\ \A r \in Runs : /\ WF_vars(FinStep(r)) /\ WF_vars(AgentStep(r))
                       /\ WF_vars(Answered(r) \/ Unanswered(r)) /\ WF_vars(HungUp(r))
                       /\ WF_vars(RunGetsOld(r))
    /\ \A q \in Rows : WF_vars(RetryDue(q))
    /\ \A s \in SlotIds : WF_vars(SlotAges(s))
    /\ WF_vars(RunStep) /\ SF_vars(SweepSnapshot)

FairSpec == Spec /\ Fairness

-----------------------------------------------------------------------------
\* Properties.

\* The type of every variable; in particular Done's outcome is one of the
\* statuses StatusForCause can return.
TypeOK ==
    /\ campState \in [Campaigns -> CampaignStates]
    /\ rowState \in [Rows -> RowStates]
    /\ due \subseteq Rows
    /\ processedRows \in [Campaigns -> Nat] /\ failedRows \in [Campaigns -> Nat]
    /\ runState \in [Runs -> RunStates]
    /\ oldRuns \subseteq Runs
    /\ orgSlots \subseteq SlotIds /\ capSlots \subseteq SlotIds /\ agedSlots \subseteq SlotIds
    /\ main \in {"recover", "startquery", "startmark", "loop", "query", "mark"}
    /\ sweepSet \subseteq Runs
    /\ drain \in [Campaigns -> DrainRecords]
    /\ inflight \in [Campaigns -> Nat]
    /\ liveRuns \subseteq Runs
    /\ fin \in [Runs -> FinPcs]
    /\ call \in [Runs -> {"none", "ringing", "up", "over"}]
    /\ out \in [Runs -> Outcomes]
    /\ callSlot \in [Runs -> SlotIds \cup {None}]
    /\ agent \in [Runs -> {"none", "mark", "talking", "absent", "done"}]
    /\ faults \in 0..MaxFaults /\ restarts \in 0..MaxRestarts /\ pauses \in 0..MaxPauses

Dialed(r) == call[r] # "none"
Live(r) == call[r] \in {"ringing", "up"}
Clean == faults = 0 /\ restarts = 0

\* A contact row is dialed at most once, whatever fails and whenever the
\* process dies: a row given back or recovered into the queue was never dialed.
AtMostOneDial ==
    \A r, x \in Runs : r[1] = x[1] /\ Dialed(r) /\ Dialed(x) => r = x

\* maybeComplete: a completed campaign has no contact queued or being handled
\* and no call that is ringing, up, or still being accounted for.
CompletedIsQuiet ==
    \A c \in Campaigns : campState[c] = "completed" =>
        /\ \A q \in Rows : CampaignOfRow(q) = c => rowState[q] \notin {"queued", "processing"}
        /\ \A r \in Runs : CampaignOfRun(r) = c => ~Live(r) /\ fin[r] = "none"

\* Slots: calls under way never exceed the organization's limit or Vaani's own
\* cap (a call longer than 20 minutes stops counting).
LimitsHold ==
    LET counted == {r \in Runs : Live(r) /\ callSlot[r] \notin agedSlots} IN
    /\ Cardinality(counted) <= OrgLimit
    /\ MaxCalls > 0 => Cardinality(counted) <= MaxCalls

\* Without a failing command or a crash no slot is left behind: each belongs to
\* a drain goroutine or to a call that will release it.
NoSlotLeak ==
    Clean => \A s \in orgSlots \cup capSlots :
                \/ \E c \in Campaigns : drain[c].slot = s
                \/ \E r \in Runs : callSlot[r] = s /\ (Live(r) \/ fin[r] = "release")

\* A contact is counted in failed_rows at most once, over all its attempts.
FailedOncePerContact ==
    \A c \in Campaigns : failedRows[c] <= Cardinality({k \in Contacts : CampaignOf[k] = c})

\* Nobody is counted failed twice and, without failures, a completed campaign has
\* accounted for everyone: a busy or unanswered contact was dialed again until its
\* retries were used up, and the campaign's counters agree with the rows.
CompletedAccounts ==
    /\ FailedOncePerContact
    /\ Clean => \A c \in Campaigns : campState[c] = "completed" =>
           LET mine == {q \in Rows : CampaignOfRow(q) = c}
               unreached(q) == \E r \in Runs : r[1] = q /\ out[r] \in RetryOn IN
           /\ \A q \in mine : unreached(q) /\ q[2] < MaxRetries
                                => rowState[RetryOf(q)] \in {"processed", "failed"}
           /\ processedRows[c] = Cardinality({q \in mine : rowState[q] = "processed"})
           /\ failedRows[c] = Cardinality({q \in mine : \/ rowState[q] = "failed"
                                                        \/ q[2] = MaxRetries /\ unreached(q)})

\* Neither the sweep nor anyone else completes the run of a call under way as
\* not connected or interrupted.
LiveRunsSpared ==
    [][\A r \in Runs : Live(r) /\ runState[r] \in {"initialized", "running"}
                       => runState'[r] \notin {"notconnected", "interrupted"}]_vars

\* Every campaign is completed in the end: no wake-up, slot, in-flight count or
\* processing row is lost for good when commands succeed, even over a crash.
CampaignCompletes == \A c \in Campaigns : <>(campState[c] = "completed")

\* The run of every call is completed in the end, by the runner, the agent or a
\* sweep: none stays initialized or running in Dograh.
RunsSettle ==
    \A r \in Runs : (runState[r] # "none") ~> (runState[r] \in {"notconnected", "interrupted", "finished"})
=============================================================================
