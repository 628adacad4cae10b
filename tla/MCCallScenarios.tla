-------------------------- MODULE MCCallScenarios --------------------------
(***************************************************************************)
(* Two scenarios of the call manager in one run, which Scenarios keeps TLC *)
(* within.  Faults: an inbound call and a dialed one, with an ARI request  *)
(* that fails.  Drops: a dialed call of limited duration, with the event   *)
(* WebSocket lost and the process stopped at any moment.                   *)
(***************************************************************************)
EXTENDS CallManagerLife, TLC

CONSTANTS a, d, e, x, y, z

Faults == drops = 0 /\ loop.pc # "stopped" /\ dial[e] = "none"
Drops ==
    /\ faults = 0 /\ chan[a] = "none" /\ dial[d] = "none"
    /\ \E ext \in ExtIds : chan[ext] = "none"

Scenarios == (Faults \/ Drops)'
=============================================================================
