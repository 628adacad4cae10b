---------------------------- MODULE MCTelephony ----------------------------
(***************************************************************************)
(* The FreeSWITCH manager, its Event Socket and the call transfer for TLC, *)
(* in one run.  They share no state here, so a behaviour is about one of   *)
(* them: "part" names it, and the others stay as they began.               *)
(***************************************************************************)
EXTENDS FreeSwitchLife, EventSocket, Transfer, TLC

CONSTANT a

VARIABLE part

allVars == <<part, vars, socketVars, transferVars>>

MCInit == part \in {"calls", "socket", "transfer"} /\ Init /\ SocketInit /\ TransferInit

Calls(A) == part = "calls" /\ A /\ UNCHANGED <<part, socketVars, transferVars>>
Socket(A) == part = "socket" /\ A /\ UNCHANGED <<part, vars, transferVars>>
Handover(A) == part = "transfer" /\ A /\ UNCHANGED <<part, vars, socketVars>>

MCNext == Calls(Next) \/ Socket(SocketNext) \/ Handover(TransferNext)

\* Each component's own fairness, of its steps in the behaviours about it.
MCFairness ==
    /\ \A id \in Ids : WF_allVars(Calls(KillOrphan(id)))
    /\ \A k \in Conns : /\ WF_allVars(Calls(HandlerSteps(k))) /\ WF_allVars(Calls(WatcherSteps(k)))
                         /\ WF_allVars(Calls(MediaDies(k) /\ Gone(k)))
    /\ WF_allVars(Calls(LoopSteps)) /\ WF_allVars(Calls(RunSteps))
    /\ WF_allVars(Socket(ReaderReads)) /\ WF_allVars(Socket(PumpNext))
    /\ \A s \in Senders : SF_allVars(Socket(Lock(s))) /\ WF_allVars(Socket(SenderSteps(s)))
    /\ WF_allVars(Handover(ToolSteps)) /\ WF_allVars(Handover(LoopStepsOfTransfer))
    /\ WF_allVars(Handover(TeardownSteps))

MCSpec == MCInit /\ [][MCNext]_allVars /\ MCFairness
=============================================================================
