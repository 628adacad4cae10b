-------------------------- MODULE MCAgentScenarios -------------------------
(***************************************************************************)
(* Two scenarios of the agent's turn machine in one run, told apart by     *)
(* which side of the start node opens the call; Scenarios keeps TLC within *)
(* them.  Turns: the LLM opens; long replies, repeated interruptions, a    *)
(* recogniser that finalizes early (up to the second one), and no clock    *)
(* fires.  Silence: a greeting; short replies, the caller-silence clock,   *)
(* the maximum duration and a reply that ends the call.                    *)
(***************************************************************************)
EXTENDS AgentTurn

MCInit == InitWith("opening") \/ InitWith("greeting")

\* The opening is an LLM turn, the first; the greeting is none.
LlmOpens == turn[1].pc # "none" \/ \E i \in DOMAIN events : events[i] = Plain("opening")

Turns ==
    /\ asked' <= 1 /\ idleTimer' # "fired" /\ maxDur'
    /\ \A g \in Gens : turn'[g].pc # "end_call"
    /\ detects' = 2 => stt' # "flushed" /\ \A g \in Gens : g > 1 => turn'[g].said <= 1

Silence ==
    /\ asked' + detects' <= 2 /\ stt' # "flushed"
    /\ \A g \in Gens : turn'[g].said <= 1

Scenarios == IF LlmOpens THEN Turns ELSE Silence

MCSpec == MCInit /\ [][Next]_vars
=============================================================================
