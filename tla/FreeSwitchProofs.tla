-------------------------- MODULE FreeSwitchProofs --------------------------
(***************************************************************************)
(* What holds of the FreeSWITCH manager for any number of channels,        *)
(* connections and failures: a call that is over has left no channel up, a *)
(* drained manager stays drained, and every step of it is a step of        *)
(* CallLife.                                                               *)
(*                                                                         *)
(* All three rest on RegistryOK: Manager.calls and the handlers between    *)
(* register and unregister are the same set, one per channel.  TruthOK says*)
(* that whatever tells the manager a channel is gone tells the truth.      *)
(***************************************************************************)
EXTENDS FreeSwitchLife, TLAPS

Events == [type : {"hangup", "error"}, id : Ids]

RegistryOK ==
    /\ \A k \in Conns : handler[k] # "none" => on[k] \in Ids
    /\ \A k \in Conns : on[k] \in Ids => chan[on[k]] # "none"
    /\ \A k \in Conns, id \in Ids : (calls[id] = k) <=> (Registered(k) /\ on[k] = id)

\* A hangup event, and the cause it becomes, mean that the channel is gone.
TruthOK ==
    /\ \A i \in DOMAIN queue : queue[i].type = "hangup" => chan[queue[i].id] = "gone"
    /\ \A k \in Conns : cause[k] = "hangup" => handler[k] # "none" /\ chan[on[k]] = "gone"

\* The end of runCall has hung the channel up, or the Event Socket failed it.
OverIsDown == \A k \in Conns : handler[k] = "done" => chan[on[k]] = "gone" \/ on[k] \in missed

Inv == TypeOK /\ RegistryOK /\ TruthOK /\ OverIsDown /\ DrainIsFinal

-----------------------------------------------------------------------------
\* What Append and Tail do to the queue.
LEMMA Queued ==
    ASSUME NEW S, NEW q \in Seq(S), NEW e \in S
    PROVE  /\ Append(q, e) \in Seq(S)
           /\ DOMAIN Append(q, e) = DOMAIN q \cup {Len(q) + 1}
           /\ \A i \in DOMAIN q : Append(q, e)[i] = q[i]
           /\ Append(q, e)[Len(q) + 1] = e
  OBVIOUS

\* What taking the head of the queue leaves.
LEMMA Dequeued ==
    ASSUME NEW S, NEW q \in Seq(S), q # <<>>
    PROVE  /\ Head(q) \in S /\ Tail(q) \in Seq(S)
           /\ 1 \in DOMAIN q /\ Head(q) = q[1]
           /\ \A i \in DOMAIN Tail(q) : i + 1 \in DOMAIN q /\ Tail(q)[i] = q[i + 1]
  OBVIOUS

\* An event emitted about a channel that allows it leaves the queue typed and
\* true.
LEMMA EmitStep ==
    ASSUME queue \in Seq(Events), NEW type \in {"hangup", "error"}, NEW id \in Ids, Emit(type, id)
    PROVE  /\ queue' \in Seq(Events)
           /\ \A i \in DOMAIN queue' : (i \in DOMAIN queue /\ queue'[i] = queue[i])
                                        \/ queue'[i] = Event(type, id)
<1>1. Event(type, id) \in Events
  BY DEF Event, Events
<1>2. CASE esl = "up"
  BY <1>1, <1>2, Queued DEF Emit
<1>3. CASE esl # "up"
  BY <1>3 DEF Emit
<1>. QED
  BY <1>2, <1>3

\* Channels that go, and a queue that says so.
GoneOnly == \A c \in Ids : chan'[c] = chan[c] \/ (chan[c] = "up" /\ chan'[c] = "gone")
QueueTrue(q, f) == \A i \in DOMAIN q : q[i].type = "hangup" => f[q[i].id] = "gone"

\* uuid_kill that is answered.
LEMMA KilledStep ==
    ASSUME chan \in [Ids -> {"none", "up", "gone"}], queue \in Seq(Events), QueueTrue(queue, chan),
           NEW id \in Ids, Killed(id)
    PROVE  /\ chan' \in [Ids -> {"none", "up", "gone"}] /\ GoneOnly /\ chan'[id] # "up"
           /\ queue' \in Seq(Events) /\ QueueTrue(queue', chan')
<1>1. CASE chan[id] = "up"
  <2>1. chan' = [chan EXCEPT ![id] = "gone"] /\ Emit("hangup", id)
    BY <1>1 DEF Killed
  <2>2. /\ queue' \in Seq(Events)
        /\ \A i \in DOMAIN queue' : (i \in DOMAIN queue /\ queue'[i] = queue[i])
                                     \/ queue'[i] = Event("hangup", id)
    BY <2>1, EmitStep
  <2>3. \A i \in DOMAIN queue : queue[i].id \in Ids
    <3>1. \A i \in DOMAIN queue : queue[i] \in Events
      OBVIOUS
    <3>. QED
      BY <3>1 DEF Events
  <2>4. QueueTrue(queue', chan')
    <3>1. \A c \in Ids : chan[c] = "gone" => chan'[c] = "gone"
      BY <2>1
    <3>2. chan'[id] = "gone"
      BY <2>1
    <3>3. Event("hangup", id).id = id
      BY DEF Event
    <3>. QED
      BY <2>2, <2>3, <3>1, <3>2, <3>3 DEF QueueTrue
  <2>. QED
    BY <1>1, <2>1, <2>2, <2>4 DEF GoneOnly
<1>2. CASE chan[id] # "up"
  BY <1>2 DEF Killed, GoneOnly
<1>. QED
  BY <1>1, <1>2

\* Whatever becomes of a uuid_kill, the channel is gone or the id is missed.
LEMMA HangupStep ==
    ASSUME TypeOK, TruthOK, NEW id \in Ids, Hangup(id)
    PROVE  /\ chan' \in [Ids -> {"none", "up", "gone"}] /\ GoneOnly
           /\ chan'[id] # "up" \/ id \in missed'
           /\ queue' \in Seq(Events) /\ QueueTrue(queue', chan')
           /\ missed \subseteq missed' /\ missed' \subseteq Ids
           /\ esl' \in {"down", "up", "failed"} /\ losses' \in 0 .. MaxTrouble
<1>1. /\ chan \in [Ids -> {"none", "up", "gone"}] /\ queue \in Seq(Events) /\ QueueTrue(queue, chan)
      /\ missed \subseteq Ids /\ esl \in {"down", "up", "failed"} /\ losses \in 0 .. MaxTrouble
  BY DEF TypeOK, TruthOK, QueueTrue, Events
<1>2. Trouble => losses + 1 \in 0 .. MaxTrouble
  BY FreeSwitchAssumption DEF TypeOK, Trouble
<1>3. CASE Killed(id) /\ UNCHANGED missed /\ (UNCHANGED <<esl, losses>> \/ (Trouble /\ esl' = "failed" /\ losses' = losses + 1))
  BY <1>1, <1>2, <1>3, KilledStep
<1>4. CASE UNCHANGED <<chan, queue>> /\ missed' = missed \cup {id}
           /\ (UNCHANGED <<esl, losses>> \/ (Trouble /\ esl' = "failed" /\ losses' = losses + 1))
  BY <1>1, <1>2, <1>4 DEF GoneOnly
<1>. QED
  BY <1>3, <1>4 DEF Hangup

\* The Event Socket's loop takes the oldest event.
LEMMA OnEventStep ==
    ASSUME TypeOK, TruthOK, OnEvent
    PROVE  /\ queue' \in Seq(Events) /\ QueueTrue(queue', chan)
           /\ cause' \in [Conns -> {"none", "hangup", "ended"}]
           /\ \A k \in Conns : cause'[k] = cause[k]
                              \/ (cause'[k] = "hangup" /\ \E id \in Ids : calls[id] = k /\ chan[id] = "gone")
           /\ kills' \subseteq Ids
<1>1. queue \in Seq(Events) /\ queue # <<>> /\ queue' = Tail(queue)
  BY DEF TypeOK, OnEvent, Events
<1>2. /\ Head(queue) \in Events /\ queue' \in Seq(Events)
      /\ 1 \in DOMAIN queue /\ Head(queue) = queue[1]
      /\ \A i \in DOMAIN queue' : i + 1 \in DOMAIN queue /\ queue'[i] = queue[i + 1]
  BY <1>1, Dequeued
<1>3. QueueTrue(queue', chan)
  BY <1>2 DEF TruthOK, QueueTrue
<1>4. Head(queue).id \in Ids /\ calls[Head(queue).id] \in Conns \cup {None}
  BY <1>2 DEF Events, TypeOK
<1>5. kills' \subseteq Ids
  BY <1>4 DEF OnEvent, TypeOK
<1>6. CASE Head(queue).type = "hangup" /\ calls[Head(queue).id] # None
  <2>1. chan[Head(queue).id] = "gone"
    BY <1>2, <1>6 DEF TruthOK
  <2>2. cause' = Cancel(cause, calls[Head(queue).id], "hangup")
    BY <1>6 DEF OnEvent
  <2>. QED
    BY <1>2, <1>3, <1>4, <1>5, <1>6, <2>1, <2>2 DEF Cancel, TypeOK
<1>7. CASE ~(Head(queue).type = "hangup" /\ calls[Head(queue).id] # None)
  <2>1. cause' = cause
    BY <1>7 DEF OnEvent
  <2>. QED
    BY <1>2, <1>3, <1>5, <2>1 DEF TypeOK
<1>. QED
  BY <1>6, <1>7

\* The deferred unregister.
LEMMA UnregisterStep ==
    ASSUME TypeOK, NEW k \in Conns, on[k] \in Ids, NEW pc \in {"aborted", "done"}, Unregister(k, pc)
    PROVE  /\ handler' \in [Conns -> {"none", "arrived", "registered", "running", "ended", "aborting",
                                      "refused", "aborted", "done"}]
           /\ calls' \in [Ids -> Conns \cup {None}] /\ cause' \in [Conns -> {"none", "hangup", "ended"}]
           /\ \A j \in Conns : handler'[j] = IF j = k THEN pc ELSE handler[j]
           /\ \A id \in Ids : calls'[id] = IF id = on[k] THEN None ELSE calls[id]
           /\ \A j \in Conns : cause'[j] = cause[j] \/ cause'[j] = "ended"
<1>1. handler' \in [Conns -> {"none", "arrived", "registered", "running", "ended", "aborting",
                              "refused", "aborted", "done"}]
  BY DEF Unregister, TypeOK
<1>2. calls' \in [Ids -> Conns \cup {None}]
  BY DEF Unregister, TypeOK
<1>3. cause' \in [Conns -> {"none", "hangup", "ended"}] /\ \A j \in Conns : cause'[j] = cause[j] \/ cause'[j] = "ended"
  BY DEF Unregister, Cancel, TypeOK
<1>4. \A j \in Conns : handler'[j] = IF j = k THEN pc ELSE handler[j]
  BY DEF Unregister, TypeOK
<1>5. \A id \in Ids : calls'[id] = IF id = on[k] THEN None ELSE calls[id]
  BY DEF Unregister, TypeOK
<1>. QED
  BY <1>1, <1>2, <1>3, <1>4, <1>5

\* Every step keeps the types.
LEMMA TypeStep == TypeOK /\ RegistryOK /\ TruthOK /\ [Next]_vars => TypeOK'
<1>. SUFFICES ASSUME TypeOK, RegistryOK, TruthOK, [Next]_vars PROVE TypeOK'
  OBVIOUS
<1>. USE FreeSwitchAssumption DEF vars, switchVars, managerVars, connVars, boundVars
<1>t. queue \in Seq(Events)
  BY DEF TypeOK, Events
<1>1. ASSUME NEW id \in Ids, ChannelArrives(id) PROVE TypeOK'
  BY <1>1 DEF ChannelArrives, TypeOK
<1>2. ASSUME NEW id \in Ids, CallerHangsUp(id) PROVE TypeOK'
  <2>1. queue' \in Seq(Events)
    BY <1>2, <1>t, EmitStep DEF CallerHangsUp
  <2>. QED
    BY <1>2, <2>1 DEF CallerHangsUp, TypeOK, Events
<1>3. ASSUME NEW id \in Ids, KillOrphan(id) PROVE TypeOK'
  <2>1. Hangup(id) /\ kills' \subseteq Ids
    BY <1>3 DEF KillOrphan, TypeOK
  <2>. QED
    BY <1>3, <2>1, HangupStep DEF KillOrphan, TypeOK, Events
<1>4. ASSUME NEW k \in Conns, NEW id \in Ids, EarshotConnects(k, id) PROVE TypeOK'
  BY <1>4 DEF EarshotConnects, TypeOK
<1>5. ASSUME NEW k \in Conns, WebSocketCloses(k) PROVE TypeOK'
  BY <1>5 DEF WebSocketCloses, Trouble, TypeOK
<1>6. ASSUME NEW k \in Conns, Register(k) PROVE TypeOK'
  <2>1. on[k] \in Ids
    BY <1>6 DEF Register, RegistryOK
  <2>2. queue' \in Seq(Events)
    BY <1>6, <1>t, <2>1, EmitStep DEF Register
  <2>. QED
    BY <1>6, <2>1, <2>2 DEF Register, TypeOK, Events
<1>7. ASSUME NEW k \in Conns, UpgradeFails(k) PROVE TypeOK'
  <2>1. on[k] \in Ids
    BY <1>7 DEF UpgradeFails, RegistryOK
  <2>2. queue' \in Seq(Events)
    BY <1>7, <1>t, <2>1, EmitStep DEF UpgradeFails
  <2>. QED
    BY <1>7, <2>2 DEF UpgradeFails, TypeOK, Events
<1>8. ASSUME NEW k \in Conns, CallStarts(k) PROVE TypeOK'
  BY <1>8 DEF CallStarts, TypeOK
<1>9. ASSUME NEW k \in Conns, AgentHangsUp(k) PROVE TypeOK'
  <2>1. on[k] \in Ids /\ Hangup(on[k])
    BY <1>9 DEF AgentHangsUp, RegistryOK
  <2>. QED
    BY <1>9, <2>1, HangupStep DEF AgentHangsUp, TypeOK, Events
<1>10. ASSUME NEW k \in Conns, MediaDies(k) PROVE TypeOK'
  BY <1>10 DEF MediaDies, Trouble, TypeOK
<1>11. ASSUME NEW k \in Conns, SocketDone(k) \/ GraceEnds(k) \/ SeesDead(k) \/ DurationEnds(k) PROVE TypeOK'
  BY <1>11 DEF SocketDone, GraceEnds, SeesDead, DurationEnds, Cancel, TypeOK
<1>12. ASSUME NEW k \in Conns, MediaEnds(k) PROVE TypeOK'
  BY <1>12 DEF MediaEnds, TypeOK
<1>13. ASSUME NEW k \in Conns, CallEnds(k) PROVE TypeOK'
  <2>1. on[k] \in Ids
    BY <1>13 DEF CallEnds, RegistryOK
  <2>2. /\ handler' \in [Conns -> {"none", "arrived", "registered", "running", "ended", "aborting",
                                   "refused", "aborted", "done"}]
        /\ calls' \in [Ids -> Conns \cup {None}] /\ cause' \in [Conns -> {"none", "hangup", "ended"}]
    BY <1>13, <2>1, UnregisterStep DEF CallEnds
  <2>3. gauge' \in Int /\ UNCHANGED <<on, wsOpen, run, kills, watcher, dead, stalls>>
    BY <1>13 DEF CallEnds, TypeOK
  <2>4. CASE UNCHANGED <<chan, queue, esl, missed, losses>>
    BY <2>2, <2>3, <2>4 DEF TypeOK
  <2>5. CASE Hangup(on[k])
    BY <2>1, <2>2, <2>3, <2>5, HangupStep DEF TypeOK, Events
  <2>. QED
    BY <1>13, <2>4, <2>5 DEF CallEnds
<1>14. ASSUME NEW k \in Conns, Aborts(k) PROVE TypeOK'
  <2>1. on[k] \in Ids /\ Unregister(k, "aborted")
    BY <1>14 DEF Aborts, RegistryOK
  <2>2. /\ handler' \in [Conns -> {"none", "arrived", "registered", "running", "ended", "aborting",
                                   "refused", "aborted", "done"}]
        /\ calls' \in [Ids -> Conns \cup {None}] /\ cause' \in [Conns -> {"none", "hangup", "ended"}]
    BY <2>1, UnregisterStep
  <2>. QED
    BY <1>14, <2>2 DEF Aborts, TypeOK
<1>15. CASE EslConnects \/ EslLost
  <2>1. queue' = <<>> /\ esl' \in {"down", "up", "failed"}
        /\ UNCHANGED <<chan, on, wsOpen, calls, gauge, run, kills, missed, connVars, boundVars>>
    BY <1>15 DEF EslConnects, EslLost
  <2>2. queue' \in Seq(Events)
    BY <2>1
  <2>. QED
    BY <2>1, <2>2 DEF TypeOK, Events
<1>16. CASE EslDrops
  BY <1>16 DEF EslDrops, Trouble, TypeOK
<1>17. CASE OnEvent
  BY <1>17, OnEventStep DEF OnEvent, TypeOK, Events
<1>18. CASE ServerCloses \/ CancelCalls \/ Drained \/ RunReturns
  BY <1>18 DEF ServerCloses, CancelCalls, Drained, RunReturns, TypeOK
<1>19. CASE UNCHANGED vars
  BY <1>19 DEF TypeOK
<1>. QED
  BY <1>1, <1>2, <1>3, <1>4, <1>5, <1>6, <1>7, <1>8, <1>9, <1>10, <1>11, <1>12, <1>13, <1>14, <1>15,
     <1>16, <1>17, <1>18, <1>19 DEF Next, ConnNext

-----------------------------------------------------------------------------
\* A channel is arriving, going or staying; it never comes back.
ChannelsAge ==
    \A c \in Ids : chan'[c] # chan[c] => <<chan[c], chan'[c]>> \in {<<"none", "up">>, <<"up", "gone">>}

\* Channels only age, along a step.
LEMMA ChannelStep == TypeOK /\ RegistryOK /\ TruthOK /\ [Next]_vars => ChannelsAge
<1>. SUFFICES ASSUME TypeOK, RegistryOK, TruthOK, [Next]_vars PROVE ChannelsAge
  OBVIOUS
<1>. USE DEF vars, switchVars
<1>1. CASE UNCHANGED chan
  BY <1>1 DEF ChannelsAge
<1>2. CASE GoneOnly
  BY <1>2 DEF ChannelsAge, GoneOnly
<1>3. ASSUME NEW id \in Ids, ChannelArrives(id) PROVE ChannelsAge
  BY <1>3 DEF ChannelArrives, ChannelsAge, TypeOK
<1>4. ASSUME NEW id \in Ids, CallerHangsUp(id) PROVE ChannelsAge
  BY <1>4 DEF CallerHangsUp, ChannelsAge, TypeOK
<1>5. ASSUME NEW id \in Ids, KillOrphan(id) PROVE GoneOnly
  BY <1>5, HangupStep DEF KillOrphan
<1>6. ASSUME NEW k \in Conns, AgentHangsUp(k) PROVE GoneOnly
  <2>1. on[k] \in Ids /\ Hangup(on[k])
    BY <1>6 DEF AgentHangsUp, RegistryOK
  <2>. QED
    BY <2>1, HangupStep
<1>7. ASSUME NEW k \in Conns, CallEnds(k) PROVE GoneOnly \/ UNCHANGED chan
  <2>1. on[k] \in Ids /\ (UNCHANGED chan \/ Hangup(on[k]))
    BY <1>7 DEF CallEnds, RegistryOK
  <2>. QED
    BY <2>1, HangupStep
<1>8. ASSUME NEW k \in Conns, ConnNext(k), ~AgentHangsUp(k), ~CallEnds(k) PROVE UNCHANGED chan
  BY <1>8 DEF ConnNext, EarshotConnects, WebSocketCloses, Register, UpgradeFails, CallStarts, MediaDies,
     SocketDone, GraceEnds, SeesDead, DurationEnds, MediaEnds, Aborts
<1>9. CASE EslConnects \/ EslDrops \/ EslLost \/ OnEvent
  BY <1>1, <1>9 DEF EslConnects, EslDrops, EslLost, OnEvent
<1>10. CASE ServerCloses \/ CancelCalls \/ Drained \/ RunReturns
  BY <1>1, <1>10 DEF ServerCloses, CancelCalls, Drained, RunReturns
<1>. QED
  BY <1>1, <1>2, <1>3, <1>4, <1>5, <1>6, <1>7, <1>8, <1>9, <1>10 DEF Next

\* A step that neither registers nor unregisters keeps the registry.
LEMMA RegistryKept ==
    ASSUME TypeOK, RegistryOK, ChannelsAge, UNCHANGED <<on, calls>>,
           \A k \in Conns : /\ Registered(k)' <=> Registered(k)
                            /\ handler'[k] # "none" => handler[k] # "none"
    PROVE  RegistryOK'
<1>1. \A c \in Ids : chan[c] # "none" => chan'[c] # "none"
  BY DEF ChannelsAge
<1>. QED
  BY <1>1 DEF RegistryOK, Registered

\* register and unregister keep one handler per channel.
LEMMA RegistryStep == TypeOK /\ RegistryOK /\ TruthOK /\ [Next]_vars => RegistryOK'
<1>. SUFFICES ASSUME TypeOK, RegistryOK, TruthOK, [Next]_vars PROVE RegistryOK'
  OBVIOUS
<1>. USE FreeSwitchAssumption DEF vars, switchVars, managerVars, connVars
<1>a. ChannelsAge
  BY ChannelStep
<1>1. CASE UNCHANGED <<on, calls, handler>>
  BY <1>a, <1>1, RegistryKept DEF Registered
<1>2. ASSUME NEW k \in Conns, NEW id \in Ids, EarshotConnects(k, id) PROVE RegistryOK'
  <2>1. /\ chan[id] = "up" /\ handler[k] = "none" /\ UNCHANGED <<chan, calls>>
        /\ on'[k] = id /\ handler'[k] = "arrived"
        /\ \A j \in Conns \ {k} : on'[j] = on[j] /\ handler'[j] = handler[j]
    BY <1>2 DEF EarshotConnects, TypeOK
  <2>2. \A j \in Conns, c \in Ids : (calls'[c] = j) <=> (Registered(j)' /\ on'[j] = c)
    BY <2>1 DEF RegistryOK, Registered
  <2>3. \A j \in Conns : /\ handler'[j] # "none" => on'[j] \in Ids
                         /\ on'[j] \in Ids => chan'[on'[j]] # "none"
    BY <2>1 DEF RegistryOK
  <2>. QED
    BY <2>2, <2>3 DEF RegistryOK
<1>3. ASSUME NEW k \in Conns, Register(k) PROVE RegistryOK'
  <2>1. on[k] \in Ids /\ handler[k] = "arrived" /\ UNCHANGED <<chan, on>>
    BY <1>3 DEF Register, RegistryOK
  <2>2. CASE MayRegister(k)
    <3>1. /\ calls[on[k]] = None
          /\ handler'[k] = "registered" /\ \A j \in Conns \ {k} : handler'[j] = handler[j]
          /\ calls'[on[k]] = k /\ \A c \in Ids \ {on[k]} : calls'[c] = calls[c]
      BY <1>3, <2>1, <2>2 DEF Register, MayRegister, TypeOK
    <3>2. ~Registered(k) /\ Registered(k)'
      BY <2>1, <3>1 DEF Registered
    <3>3. \A c \in Ids : (calls'[c] = k) <=> (on[k] = c)
      BY <2>1, <3>1, <3>2 DEF RegistryOK
    <3>4. ASSUME NEW j \in Conns \ {k}, NEW c \in Ids
          PROVE  (calls'[c] = j) <=> (Registered(j) /\ on[j] = c)
      BY <2>1, <3>1, <3>4 DEF RegistryOK
    <3>5. \A j \in Conns \ {k} : Registered(j)' <=> Registered(j)
      BY <3>1 DEF Registered
    <3>6. \A j \in Conns, c \in Ids : (calls'[c] = j) <=> (Registered(j)' /\ on'[j] = c)
      BY <2>1, <3>2, <3>3, <3>4, <3>5
    <3>7. \A j \in Conns : handler'[j] # "none" => on'[j] \in Ids
      BY <2>1, <3>1 DEF RegistryOK
    <3>. QED
      BY <2>1, <3>6, <3>7 DEF RegistryOK
  <2>3. CASE ~MayRegister(k)
    <3>1. handler'[k] = "refused" /\ UNCHANGED calls /\ \A j \in Conns \ {k} : handler'[j] = handler[j]
      BY <1>3, <2>3 DEF Register, TypeOK
    <3>2. \A j \in Conns : (Registered(j)' <=> Registered(j)) /\ (handler'[j] # "none" => handler[j] # "none")
      BY <2>1, <3>1 DEF Registered
    <3>. QED
      BY <1>a, <2>1, <3>1, <3>2, RegistryKept
  <2>. QED
    BY <2>2, <2>3
<1>4. ASSUME NEW k \in Conns, UpgradeFails(k) \/ CallStarts(k) \/ MediaEnds(k) PROVE RegistryOK'
  <2>1. /\ UNCHANGED <<on, calls>> /\ Registered(k) /\ Registered(k)'
        /\ handler[k] # "none" /\ \A j \in Conns \ {k} : handler'[j] = handler[j]
    BY <1>4 DEF UpgradeFails, CallStarts, MediaEnds, Registered, TypeOK
  <2>2. \A j \in Conns : (Registered(j)' <=> Registered(j)) /\ (handler'[j] # "none" => handler[j] # "none")
    BY <2>1 DEF Registered
  <2>. QED
    BY <1>a, <2>1, <2>2, RegistryKept
<1>5. ASSUME NEW k \in Conns, CallEnds(k) \/ Aborts(k) PROVE RegistryOK'
  <2>1. Registered(k) /\ on[k] \in Ids /\ UNCHANGED on
    BY <1>5 DEF CallEnds, Aborts, Registered, RegistryOK
  <2>2. PICK pc \in {"aborted", "done"} : Unregister(k, pc)
    BY <1>5 DEF CallEnds, Aborts
  <2>3. /\ \A j \in Conns : handler'[j] = IF j = k THEN pc ELSE handler[j]
        /\ \A id \in Ids : calls'[id] = IF id = on[k] THEN None ELSE calls[id]
    BY <2>1, <2>2, UnregisterStep
  <2>4. ~Registered(k)' /\ \A j \in Conns \ {k} : Registered(j)' <=> Registered(j)
    BY <2>3 DEF Registered
  <2>5. calls[on[k]] = k
    BY <2>1 DEF RegistryOK
  <2>6. ASSUME NEW j \in Conns, NEW c \in Ids
        PROVE  (calls'[c] = j) <=> (Registered(j)' /\ on'[j] = c)
    <3>1. (calls[c] = j) <=> (Registered(j) /\ on[j] = c)
      BY DEF RegistryOK
    <3>2. CASE c = on[k]
      BY FreeSwitchAssumption, <2>1, <2>3, <2>4, <2>5, <3>1, <3>2
    <3>3. CASE c # on[k]
      BY <2>1, <2>3, <2>4, <3>1, <3>3
    <3>. QED
      BY <3>2, <3>3
  <2>8. \A c \in Ids : chan[c] # "none" => chan'[c] # "none"
    BY <1>a DEF ChannelsAge
  <2>9. \A j \in Conns : handler'[j] # "none" => on'[j] \in Ids
    BY <2>1, <2>3 DEF RegistryOK
  <2>. QED
    BY <2>1, <2>6, <2>8, <2>9 DEF RegistryOK
<1>6. ASSUME NEW k \in Conns, ConnNext(k) PROVE RegistryOK'
  <2>1. \/ \E id \in Ids : EarshotConnects(k, id)
        \/ Register(k) \/ UpgradeFails(k) \/ CallStarts(k) \/ MediaEnds(k) \/ CallEnds(k) \/ Aborts(k)
        \/ UNCHANGED <<on, calls, handler>>
    BY <1>6 DEF ConnNext, WebSocketCloses, AgentHangsUp, MediaDies, SocketDone, GraceEnds, SeesDead, DurationEnds
  <2>. QED
    BY <1>1, <1>2, <1>3, <1>4, <1>5, <2>1
<1>7. ASSUME NEW id \in Ids, ChannelArrives(id) \/ CallerHangsUp(id) \/ KillOrphan(id) PROVE RegistryOK'
  BY <1>1, <1>7 DEF ChannelArrives, CallerHangsUp, KillOrphan
<1>8. CASE EslConnects \/ EslDrops \/ EslLost \/ OnEvent \/ ServerCloses \/ CancelCalls \/ Drained \/ RunReturns
  BY <1>1, <1>8 DEF EslConnects, EslDrops, EslLost, OnEvent, ServerCloses, CancelCalls, Drained, RunReturns
<1>. QED
  BY <1>1, <1>6, <1>7, <1>8 DEF Next

-----------------------------------------------------------------------------
\* A step that reports nothing keeps the reports true.
LEMMA TruthKept ==
    ASSUME TypeOK, RegistryOK, TruthOK, ChannelsAge, UNCHANGED <<queue, on>>,
           \A k \in Conns : /\ cause'[k] = "hangup" => cause[k] = "hangup"
                            /\ handler[k] # "none" => handler'[k] # "none"
    PROVE  TruthOK'
<1>1. \A c \in Ids : chan[c] = "gone" => chan'[c] = "gone"
  BY DEF ChannelsAge
<1>2. \A i \in DOMAIN queue : queue[i].id \in Ids
  <2>1. queue \in Seq(Events)
    BY DEF TypeOK, Events
  <2>2. \A i \in DOMAIN queue : queue[i] \in Events
    BY <2>1
  <2>. QED
    BY <2>2 DEF Events
<1>3. \A k \in Conns : handler[k] # "none" => on[k] \in Ids
  BY DEF RegistryOK
<1>. QED
  BY <1>1, <1>2, <1>3 DEF TruthOK

\* Events and causes stay true when the queue changes too.
LEMMA TruthQueued ==
    ASSUME TypeOK, RegistryOK, TruthOK, ChannelsAge, UNCHANGED on, QueueTrue(queue', chan'),
           \A k \in Conns : /\ cause'[k] = "hangup" => cause[k] = "hangup"
                            /\ handler[k] # "none" => handler'[k] # "none"
    PROVE  TruthOK'
<1>1. \A c \in Ids : chan[c] = "gone" => chan'[c] = "gone"
  BY DEF ChannelsAge
<1>2. \A k \in Conns : handler[k] # "none" => on[k] \in Ids
  BY DEF RegistryOK
<1>. QED
  BY <1>1, <1>2 DEF TruthOK, QueueTrue

\* An error event says nothing of a channel's end.
LEMMA ErrorQueued ==
    ASSUME TypeOK, TruthOK, NEW id \in Ids, Emit("error", id), UNCHANGED chan
    PROVE  QueueTrue(queue', chan')
<1>1. queue \in Seq(Events)
  BY DEF TypeOK, Events
<1>2. \A i \in DOMAIN queue' : (i \in DOMAIN queue /\ queue'[i] = queue[i]) \/ queue'[i] = Event("error", id)
  BY <1>1, EmitStep
<1>3. Event("error", id).type # "hangup"
  BY DEF Event
<1>. QED
  BY <1>2, <1>3 DEF TruthOK, QueueTrue

\* No step reports the end of a channel that is up.
LEMMA TruthStep == TypeOK /\ RegistryOK /\ TruthOK /\ [Next]_vars => TruthOK'
<1>. SUFFICES ASSUME TypeOK, RegistryOK, TruthOK, [Next]_vars PROVE TruthOK'
  OBVIOUS
<1>. USE FreeSwitchAssumption DEF vars, switchVars, managerVars, connVars
<1>a. ChannelsAge
  BY ChannelStep
<1>b. QueueTrue(queue, chan)
  BY DEF TruthOK, QueueTrue
<1>1. CASE UNCHANGED <<queue, on, cause, handler>>
  BY <1>a, <1>1, TruthKept
<1>2. ASSUME NEW id \in Ids, ChannelArrives(id) PROVE TruthOK'
  BY <1>1, <1>2 DEF ChannelArrives
<1>3. ASSUME NEW id \in Ids, CallerHangsUp(id) PROVE TruthOK'
  <2>1. Killed(id) /\ UNCHANGED <<on, cause, handler>>
    BY <1>3 DEF CallerHangsUp, Killed
  <2>2. QueueTrue(queue', chan')
    BY <1>b, <2>1, KilledStep DEF TypeOK, Events
  <2>. QED
    BY <1>a, <2>1, <2>2, TruthQueued
<1>4. ASSUME NEW id \in Ids, KillOrphan(id) PROVE TruthOK'
  <2>1. Hangup(id) /\ UNCHANGED <<on, cause, handler>>
    BY <1>4 DEF KillOrphan
  <2>. QED
    BY <1>a, <2>1, HangupStep, TruthQueued
<1>5. ASSUME NEW k \in Conns, NEW id \in Ids, EarshotConnects(k, id) PROVE TruthOK'
  <2>1. /\ handler[k] = "none" /\ handler'[k] = "arrived" /\ UNCHANGED <<chan, queue, cause>>
        /\ \A j \in Conns \ {k} : on'[j] = on[j] /\ handler'[j] = handler[j]
    BY <1>5 DEF EarshotConnects, TypeOK
  <2>. QED
    BY <2>1 DEF TruthOK
<1>6. ASSUME NEW k \in Conns, Register(k) \/ UpgradeFails(k) PROVE TruthOK'
  <2>1. /\ on[k] \in Ids /\ UNCHANGED <<chan, on, cause>>
        /\ \A j \in Conns : handler[j] # "none" => handler'[j] # "none"
    BY <1>6 DEF Register, UpgradeFails, RegistryOK, TypeOK
  <2>2. UNCHANGED queue \/ Emit("error", on[k])
    BY <1>6 DEF Register, UpgradeFails
  <2>3. QueueTrue(queue', chan')
    BY <1>b, <2>1, <2>2, ErrorQueued
  <2>. QED
    BY <1>a, <2>1, <2>3, TruthQueued
<1>7. ASSUME NEW k \in Conns, CallStarts(k) \/ MediaEnds(k) PROVE TruthOK'
  <2>1. /\ UNCHANGED <<queue, on, cause>>
        /\ \A j \in Conns : handler[j] # "none" => handler'[j] # "none"
    BY <1>7 DEF CallStarts, MediaEnds, TypeOK
  <2>. QED
    BY <1>a, <2>1, TruthKept
<1>8. ASSUME NEW k \in Conns, AgentHangsUp(k) PROVE TruthOK'
  <2>1. on[k] \in Ids /\ Hangup(on[k]) /\ UNCHANGED <<on, cause, handler>>
    BY <1>8 DEF AgentHangsUp, RegistryOK
  <2>. QED
    BY <1>a, <2>1, HangupStep, TruthQueued
<1>9. ASSUME NEW k \in Conns, GraceEnds(k) \/ SeesDead(k) \/ DurationEnds(k) PROVE TruthOK'
  <2>1. UNCHANGED <<queue, on, handler>> /\ cause' = Cancel(cause, k, "ended")
    BY <1>9 DEF GraceEnds, SeesDead, DurationEnds
  <2>2. \A j \in Conns : cause'[j] = "hangup" => cause[j] = "hangup"
    BY <2>1 DEF Cancel, TypeOK
  <2>. QED
    BY <1>a, <2>1, <2>2, TruthKept
<1>10. ASSUME NEW k \in Conns, CallEnds(k) \/ Aborts(k) PROVE TruthOK'
  <2>1. on[k] \in Ids /\ UNCHANGED on /\ \E pc \in {"aborted", "done"} : Unregister(k, pc)
    BY <1>10 DEF CallEnds, Aborts, RegistryOK
  <2>2. \A j \in Conns : /\ cause'[j] = "hangup" => cause[j] = "hangup"
                         /\ handler[j] # "none" => handler'[j] # "none"
    BY <2>1, UnregisterStep
  <2>3. Hangup(on[k]) \/ UNCHANGED <<chan, queue>>
    BY <1>10 DEF CallEnds, Aborts
  <2>4. QueueTrue(queue', chan')
    BY <1>b, <2>1, <2>3, HangupStep
  <2>. QED
    BY <1>a, <2>1, <2>2, <2>4, TruthQueued
<1>11. ASSUME NEW k \in Conns, WebSocketCloses(k) \/ MediaDies(k) \/ SocketDone(k) PROVE TruthOK'
  BY <1>1, <1>11 DEF WebSocketCloses, MediaDies, SocketDone
<1>12. CASE EslConnects \/ EslLost
  <2>1. queue' = <<>> /\ UNCHANGED <<chan, on, handler, cause>>
    BY <1>12 DEF EslConnects, EslLost
  <2>2. QueueTrue(queue', chan')
    BY <2>1 DEF QueueTrue
  <2>. QED
    BY <1>a, <2>1, <2>2, TruthQueued
<1>13. CASE OnEvent
  <2>1. UNCHANGED <<chan, on, handler>>
    BY <1>13 DEF OnEvent
  <2>2. QueueTrue(queue', chan')
    BY <1>13, <2>1, OnEventStep
  <2>3. ASSUME NEW k \in Conns, cause'[k] = "hangup" PROVE handler[k] # "none" /\ chan[on[k]] = "gone"
    <3>1. CASE cause[k] = "hangup"
      BY <3>1 DEF TruthOK
    <3>2. CASE \E id \in Ids : calls[id] = k /\ chan[id] = "gone"
      BY <3>2 DEF RegistryOK, Registered
    <3>. QED
      BY <1>13, <2>3, <3>1, <3>2, OnEventStep
  <2>. QED
    BY <2>1, <2>2, <2>3 DEF TruthOK, QueueTrue
<1>14. CASE CancelCalls
  <2>1. UNCHANGED <<queue, on, handler>> /\ \A k \in Conns : cause'[k] = "hangup" => cause[k] = "hangup"
    BY <1>14 DEF CancelCalls
  <2>. QED
    BY <1>a, <2>1, TruthKept
<1>15. CASE EslDrops \/ ServerCloses \/ Drained \/ RunReturns
  BY <1>1, <1>15 DEF EslDrops, ServerCloses, Drained, RunReturns
<1>. QED
  BY <1>1, <1>2, <1>3, <1>4, <1>5, <1>6, <1>7, <1>8, <1>9, <1>10, <1>11, <1>12, <1>13, <1>14, <1>15
  DEF Next, ConnNext

-----------------------------------------------------------------------------
\* A call that is over leaves no channel up that was not missed.
LEMMA OverStep == TypeOK /\ RegistryOK /\ TruthOK /\ OverIsDown /\ [Next]_vars => OverIsDown'
<1>. SUFFICES ASSUME TypeOK, RegistryOK, TruthOK, OverIsDown, [Next]_vars PROVE OverIsDown'
  OBVIOUS
<1>. USE FreeSwitchAssumption DEF vars, switchVars, managerVars, connVars
<1>a. \A c \in Ids : /\ chan[c] = "gone" => chan'[c] = "gone"
                     /\ chan[c] # "none" => chan'[c] # "none"
  BY ChannelStep DEF ChannelsAge
<1>b. \A k \in Conns : handler[k] # "none" => on[k] \in Ids
  BY DEF RegistryOK
<1>c. ASSUME missed \subseteq missed',
             \A k \in Conns : handler'[k] = "done" => handler[k] = "done" /\ on'[k] = on[k]
      PROVE  OverIsDown'
  BY <1>a, <1>b, <1>c DEF OverIsDown
<1>1. CASE UNCHANGED <<on, handler, missed>>
  BY <1>1, <1>c
<1>2. ASSUME NEW id \in Ids, KillOrphan(id) PROVE OverIsDown'
  <2>1. UNCHANGED <<on, handler>> /\ missed \subseteq missed'
    BY <1>2, HangupStep DEF KillOrphan
  <2>. QED
    BY <1>c, <2>1
<1>3. ASSUME NEW k \in Conns, NEW id \in Ids, EarshotConnects(k, id) PROVE OverIsDown'
  <2>1. /\ missed' = missed /\ handler'[k] = "arrived"
        /\ \A j \in Conns \ {k} : on'[j] = on[j] /\ handler'[j] = handler[j]
    BY <1>3 DEF EarshotConnects, TypeOK
  <2>. QED
    BY <1>c, <2>1
<1>4. ASSUME NEW k \in Conns, Register(k) \/ UpgradeFails(k) \/ CallStarts(k) \/ MediaEnds(k) PROVE OverIsDown'
  <2>1. /\ UNCHANGED <<on, missed>> /\ handler'[k] # "done"
        /\ \A j \in Conns \ {k} : handler'[j] = handler[j]
    BY <1>4 DEF Register, UpgradeFails, CallStarts, MediaEnds, TypeOK
  <2>. QED
    BY <1>c, <2>1
<1>5. ASSUME NEW k \in Conns, AgentHangsUp(k) PROVE OverIsDown'
  <2>1. on[k] \in Ids /\ Hangup(on[k]) /\ UNCHANGED <<on, handler>>
    BY <1>5, <1>b DEF AgentHangsUp
  <2>2. missed \subseteq missed'
    BY <2>1, HangupStep
  <2>. QED
    BY <1>c, <2>1, <2>2
<1>6. ASSUME NEW k \in Conns, CallEnds(k) PROVE OverIsDown'
  <2>1. on[k] \in Ids /\ handler[k] = "ended" /\ UNCHANGED on
    BY <1>6, <1>b DEF CallEnds
  <2>2. chan'[on[k]] # "none" /\ chan'[on[k]] \in {"none", "up", "gone"}
    BY <1>6, <1>a, <2>1, TypeStep DEF RegistryOK, TypeOK, Next, ConnNext
  <2>4. missed \subseteq missed' /\ (chan'[on[k]] = "gone" \/ on[k] \in missed')
    <3>1. CASE cause[k] = "hangup"
      <4>1. UNCHANGED <<chan, missed>>
        BY <1>6, <3>1 DEF CallEnds
      <4>. QED
        BY <2>1, <3>1, <4>1 DEF TruthOK
    <3>2. CASE cause[k] # "hangup"
      <4>1. Hangup(on[k])
        BY <1>6, <3>2 DEF CallEnds
      <4>. QED
        BY <2>1, <2>2, <4>1, HangupStep
    <3>. QED
      BY <3>1, <3>2
  <2>5. \A j \in Conns : handler'[j] = IF j = k THEN "done" ELSE handler[j]
    BY <1>6, <2>1, UnregisterStep DEF CallEnds
  <2>. QED
    BY <1>a, <1>b, <2>1, <2>4, <2>5 DEF OverIsDown
<1>7. ASSUME NEW k \in Conns, Aborts(k) PROVE OverIsDown'
  <2>1. on[k] \in Ids /\ UNCHANGED <<on, missed>> /\ Unregister(k, "aborted")
    BY <1>7, <1>b DEF Aborts
  <2>2. \A j \in Conns : handler'[j] = IF j = k THEN "aborted" ELSE handler[j]
    BY <2>1, UnregisterStep
  <2>. QED
    BY <1>c, <2>1, <2>2
<1>8. ASSUME NEW k \in Conns, ConnNext(k) PROVE OverIsDown'
  <2>1. \/ \E id \in Ids : EarshotConnects(k, id)
        \/ Register(k) \/ UpgradeFails(k) \/ CallStarts(k) \/ MediaEnds(k) \/ AgentHangsUp(k)
        \/ CallEnds(k) \/ Aborts(k) \/ UNCHANGED <<on, handler, missed>>
    BY <1>8 DEF ConnNext, WebSocketCloses, MediaDies, SocketDone, GraceEnds, SeesDead, DurationEnds
  <2>. QED
    BY <1>1, <1>3, <1>4, <1>5, <1>6, <1>7, <2>1
<1>9. ASSUME NEW id \in Ids, ChannelArrives(id) \/ CallerHangsUp(id) PROVE OverIsDown'
  BY <1>1, <1>9 DEF ChannelArrives, CallerHangsUp
<1>10. CASE EslConnects \/ EslDrops \/ EslLost \/ OnEvent \/ ServerCloses \/ CancelCalls \/ Drained \/ RunReturns
  BY <1>1, <1>10 DEF EslConnects, EslDrops, EslLost, OnEvent, ServerCloses, CancelCalls, Drained, RunReturns
<1>. QED
  BY <1>1, <1>2, <1>8, <1>9, <1>10 DEF Next

\* Once the drain is done nothing is registered, and nothing registers.
LEMMA DrainStep ==
    TypeOK /\ RegistryOK /\ DrainIsFinal /\ [Next]_vars /\ TypeOK' /\ RegistryOK' => DrainIsFinal'
<1>. SUFFICES ASSUME TypeOK, RegistryOK, DrainIsFinal, [Next]_vars, TypeOK', RegistryOK',
                     run' \in {"stopping", "stopped"}, ~SlowDrain
              PROVE  /\ \A k \in Conns : ~Registered(k)'
                     /\ \A id \in Ids : calls'[id] = None
  BY DEF DrainIsFinal
<1>. SUFFICES \A k \in Conns : ~Registered(k)'
  <2>1. \A id \in Ids : calls'[id] \in Conns \cup {None}
    BY DEF TypeOK
  <2>2. \A id \in Ids : \A k \in Conns : calls'[id] = k => Registered(k)'
    BY DEF RegistryOK
  <2>. QED
    BY <2>1, <2>2
<1>. USE DEF vars, switchVars, managerVars, connVars
<1>1. CASE Drained
  <2>1. \A k \in Conns : ~Registered(k)
    BY <1>1 DEF Drained
  <2>. QED
    BY <1>1, <2>1 DEF Drained, Registered
<1>2. CASE run \in {"stopping", "stopped"}
  <2>1. \A k \in Conns : ~Registered(k)
    BY <1>2 DEF DrainIsFinal
  <2>2. ASSUME NEW k \in Conns, Register(k) PROVE \A j \in Conns : ~Registered(j)'
    BY <1>2, <2>1, <2>2 DEF Register, MayRegister, Registered, TypeOK
  <2>3. ASSUME NEW k \in Conns, NEW id \in Ids, EarshotConnects(k, id) PROVE FALSE
    BY <1>2, <2>3 DEF EarshotConnects
  <2>4. ASSUME NEW k \in Conns, UpgradeFails(k) \/ CallStarts(k) \/ MediaEnds(k) \/ CallEnds(k) \/ Aborts(k)
        PROVE  FALSE
    BY <2>1, <2>4 DEF UpgradeFails, CallStarts, MediaEnds, CallEnds, Aborts, Registered
  <2>5. CASE UNCHANGED handler
    BY <2>1, <2>5 DEF Registered
  <2>6. ASSUME NEW k \in Conns, ConnNext(k) PROVE \A j \in Conns : ~Registered(j)'
    <3>1. (\E id \in Ids : EarshotConnects(k, id)) \/ Register(k) \/ UpgradeFails(k) \/ CallStarts(k)
          \/ MediaEnds(k) \/ CallEnds(k) \/ Aborts(k) \/ UNCHANGED handler
      BY <2>6 DEF ConnNext, WebSocketCloses, AgentHangsUp, MediaDies, SocketDone, GraceEnds, SeesDead, DurationEnds
    <3>. QED
      BY <2>2, <2>3, <2>4, <2>5, <3>1
  <2>7. ASSUME NEW id \in Ids, ChannelArrives(id) \/ CallerHangsUp(id) \/ KillOrphan(id) PROVE UNCHANGED handler
    BY <2>7 DEF ChannelArrives, CallerHangsUp, KillOrphan
  <2>8. CASE EslConnects \/ EslDrops \/ EslLost \/ OnEvent \/ ServerCloses \/ CancelCalls \/ Drained \/ RunReturns
    BY <2>5, <2>8 DEF EslConnects, EslDrops, EslLost, OnEvent, ServerCloses, CancelCalls, Drained, RunReturns
  <2>. QED
    BY <2>5, <2>6, <2>7, <2>8 DEF Next
<1>3. ASSUME run \notin {"stopping", "stopped"} PROVE Drained
  <2>1. ASSUME NEW k \in Conns, ConnNext(k) PROVE UNCHANGED run
    BY <2>1 DEF ConnNext, EarshotConnects, WebSocketCloses, Register, UpgradeFails, CallStarts, AgentHangsUp,
       MediaDies, SocketDone, GraceEnds, SeesDead, DurationEnds, MediaEnds, CallEnds, Aborts
  <2>2. ASSUME NEW id \in Ids, ChannelArrives(id) \/ CallerHangsUp(id) \/ KillOrphan(id) PROVE UNCHANGED run
    BY <2>2 DEF ChannelArrives, CallerHangsUp, KillOrphan
  <2>3. ~(EslConnects \/ EslDrops \/ EslLost \/ OnEvent \/ ServerCloses \/ CancelCalls \/ RunReturns \/ UNCHANGED vars)
    BY <1>3 DEF EslConnects, EslDrops, EslLost, OnEvent, ServerCloses, CancelCalls, RunReturns
  <2>. QED
    BY <1>3, <2>1, <2>2, <2>3 DEF Next
<1>. QED
  BY <1>1, <1>2, <1>3

-----------------------------------------------------------------------------
\* The inductive invariant.
LEMMA InvHolds == Spec => []Inv
<1>1. Init => Inv
  <2>. SUFFICES ASSUME Init PROVE Inv
    OBVIOUS
  <2>. USE FreeSwitchAssumption DEF Init
  <2>1. queue \in Seq([type : {"hangup", "error"}, id : Ids])
    OBVIOUS
  <2>2. TypeOK
    BY <2>1 DEF TypeOK
  <2>3. RegistryOK
    BY DEF RegistryOK, Registered
  <2>4. TruthOK
    BY DEF TruthOK
  <2>5. OverIsDown /\ DrainIsFinal
    BY DEF OverIsDown, DrainIsFinal
  <2>. QED
    BY <2>2, <2>3, <2>4, <2>5 DEF Inv
<1>2. Inv /\ [Next]_vars => Inv'
  BY TypeStep, RegistryStep, TruthStep, OverStep, DrainStep DEF Inv
<1>. QED
  BY <1>1, <1>2, PTL DEF Spec

\* No caller stays on a line whose call is over, unless the Event Socket failed
\* the uuid_kill for it (runCall, hangup).
THEOREM NoChannelStaysUp == Spec => [](TypeOK /\ NoChannelLeftUp)
<1>1. Inv => TypeOK /\ NoChannelLeftUp
  BY DEF Inv, OverIsDown, NoChannelLeftUp
<1>. QED
  BY <1>1, InvHolds, PTL

\* A shutdown that waited for the calls leaves none registered, and none
\* registers after it (register, Run).
THEOREM DrainStaysFinal == Spec => []DrainIsFinal
<1>1. Inv => DrainIsFinal
  BY DEF Inv
<1>. QED
  BY <1>1, InvHolds, PTL

-----------------------------------------------------------------------------
\* A step outside runCall's beginning and end is a stutter of the calls' lives,
\* whatever it does to the channels.
LEMMA LifeStutters ==
    ASSUME ChannelsAge, UNCHANGED <<on, gauge>>, \A k \in Conns : LifeOf(k)' = LifeOf(k)
    PROVE  Life!Next
  BY DEF ChannelsAge, Life!Next, Life!ChannelsMove, Life!callVars

\* Each step of the manager is a step of CallLife or a stutter.
LEMMA LifeStep == Inv /\ [Next]_vars => [Life!Next]_Life!vars
<1>. SUFFICES ASSUME Inv, [Next]_vars PROVE Life!Next
  OBVIOUS
<1>. USE FreeSwitchAssumption DEF vars, switchVars, managerVars, connVars
<1>a. ChannelsAge
  BY ChannelStep DEF Inv
<1>1. CASE UNCHANGED <<on, gauge, handler>>
  BY <1>a, <1>1, LifeStutters DEF LifeOf
<1>2. ASSUME NEW k \in Conns, NEW id \in Ids, EarshotConnects(k, id) PROVE Life!Next
  <2>1. /\ handler[k] = "none" /\ handler'[k] = "arrived" /\ UNCHANGED <<chan, gauge>>
        /\ \A j \in Conns \ {k} : on'[j] = on[j] /\ handler'[j] = handler[j]
    BY <1>2 DEF EarshotConnects, Inv, TypeOK
  <2>2. LifeOf(k) = "none" /\ \A j \in Conns : LifeOf(j)' = LifeOf(j)
    BY <2>1 DEF LifeOf
  <2>3. Life!Assign(k)
    BY <2>1, <2>2 DEF Life!Assign
  <2>. QED
    BY <1>a, <2>3 DEF Life!Next, Life!ChannelsMove, ChannelsAge
<1>3. ASSUME NEW k \in Conns, Register(k) \/ UpgradeFails(k) \/ MediaEnds(k) \/ Aborts(k) PROVE Life!Next
  <2>1. /\ UNCHANGED <<on, gauge>> /\ on[k] \in Ids
        /\ \A j \in Conns \ {k} : handler'[j] = handler[j]
        /\ \/ handler[k] \in {"arrived", "registered", "aborting"}
              /\ handler'[k] \in {"registered", "refused", "aborting", "aborted"}
           \/ handler[k] = "running" /\ handler'[k] = "ended"
    BY <1>3 DEF Register, UpgradeFails, MediaEnds, Aborts, Unregister, Inv, TypeOK, RegistryOK
  <2>2. \A j \in Conns : LifeOf(j)' = LifeOf(j)
    BY <2>1 DEF LifeOf
  <2>. QED
    BY <1>a, <2>1, <2>2, LifeStutters
<1>4. ASSUME NEW k \in Conns, CallStarts(k) PROVE Life!Next
  <2>1. /\ handler[k] = "registered" /\ handler'[k] = "running" /\ UNCHANGED <<chan, on>>
        /\ gauge' = gauge + 1
        /\ \A j \in Conns \ {k} : handler'[j] = handler[j]
    BY <1>4 DEF CallStarts, Inv, TypeOK
  <2>2. on[k] \in Ids /\ chan[on[k]] # "none"
    BY <2>1 DEF Inv, RegistryOK
  <2>3. ASSUME NEW j \in Conns, LifeOf(j) = "live" PROVE on[j] # on[k]
    <3>1. Registered(j) /\ j # k
      BY <2>1, <2>3 DEF LifeOf, Registered
    <3>. QED
      BY <2>1, <2>2, <3>1 DEF Inv, RegistryOK, Registered
  <2>4. LifeOf(k) = "none" /\ LifeOf(k)' = "live" /\ \A j \in Conns \ {k} : LifeOf(j)' = LifeOf(j)
    BY <2>1 DEF LifeOf
  <2>5. Life!Begin(k)
    BY <2>1, <2>2, <2>3, <2>4 DEF Life!Begin
  <2>. QED
    BY <1>a, <2>5 DEF Life!Next, Life!ChannelsMove, ChannelsAge
<1>5. ASSUME NEW k \in Conns, CallEnds(k) PROVE Life!Next
  <2>1. handler[k] = "ended" /\ on[k] \in Ids /\ UNCHANGED on /\ gauge' = gauge - 1
    BY <1>5 DEF CallEnds, Inv, RegistryOK
  <2>2. \A j \in Conns : handler'[j] = IF j = k THEN "done" ELSE handler[j]
    BY <1>5, <2>1, UnregisterStep DEF CallEnds, Inv
  <2>3. LifeOf(k) = "live" /\ LifeOf(k)' = "over" /\ \A j \in Conns \ {k} : LifeOf(j)' = LifeOf(j)
    BY <2>1, <2>2 DEF LifeOf
  <2>4. Life!End(k)
    BY <2>1, <2>3 DEF Life!End
  <2>. QED
    BY <1>a, <2>4 DEF Life!Next, Life!ChannelsMove, ChannelsAge
<1>6. ASSUME NEW k \in Conns, ConnNext(k) PROVE Life!Next
  <2>1. (\E id \in Ids : EarshotConnects(k, id)) \/ Register(k) \/ UpgradeFails(k) \/ MediaEnds(k) \/ Aborts(k)
        \/ CallStarts(k) \/ CallEnds(k) \/ UNCHANGED <<on, gauge, handler>>
    BY <1>6 DEF ConnNext, WebSocketCloses, AgentHangsUp, MediaDies, SocketDone, GraceEnds, SeesDead, DurationEnds
  <2>. QED
    BY <1>1, <1>2, <1>3, <1>4, <1>5, <2>1
<1>7. ASSUME NEW id \in Ids, ChannelArrives(id) \/ CallerHangsUp(id) \/ KillOrphan(id) PROVE Life!Next
  BY <1>1, <1>7 DEF ChannelArrives, CallerHangsUp, KillOrphan
<1>8. CASE EslConnects \/ EslDrops \/ EslLost \/ OnEvent \/ ServerCloses \/ CancelCalls \/ Drained \/ RunReturns
  BY <1>1, <1>8 DEF EslConnects, EslDrops, EslLost, OnEvent, ServerCloses, CancelCalls, Drained, RunReturns
<1>. QED
  BY <1>1, <1>6, <1>7, <1>8 DEF Next

\* The FreeSWITCH manager implements the safety part of CallLife: one call per
\* channel at a time, each begun and ended once, CallsActive exact.
THEOREM ImplementsLife == Spec => Life!Spec
<1>1. Init => Life!Init
  BY DEF Init, Life!Init, LifeOf
<1>2. Inv /\ [Next]_vars => [Life!Next]_Life!vars
  BY LifeStep
<1>. QED
  BY <1>1, <1>2, InvHolds, PTL DEF Spec, Life!Spec
=============================================================================
