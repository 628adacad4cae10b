----------------------------- MODULE FreeSwitch -----------------------------
(***************************************************************************)
(* Calls on FreeSWITCH: internal/freeswitch/manager.go.  mod_earshot opens *)
(* a WebSocket per call (ServeHTTP, one handler goroutine each); one Event *)
(* Socket connection (eslLoop, EventSocket.tla) brings the switch's events *)
(* and carries uuid_kill.                                                  *)
(*                                                                         *)
(* Processes: a handler and a watcher goroutine per connection, the call's *)
(* agent, the event loop, the goroutines of "go m.hangup", and Run.  A step*)
(* ends at every section under Manager.mu and every ESL command.           *)
(*                                                                         *)
(* Abstracted: audio, numbers, the token and UUID checks of a request (one *)
(* that fails them is refused before any state changes), logStatus, which  *)
(* only logs, and the backoff between connection attempts.                 *)
(***************************************************************************)
EXTENDS Integers, Sequences, FiniteSets

CONSTANTS
    None,
    Ids,            \* channel UUIDs
    Conns,          \* earshot connections, one handler each: 1, 2, ... as they arrive
    MaxDuration,    \* MAX_CALL_DURATION_SECONDS is set
    MaxTrouble,     \* bound: times the Event Socket fails, or a WebSocket drops
                    \* or goes quiet while its channel is up
    AllowShutdown,  \* the process may be told to stop
    SlowDrain       \* ending the calls may take longer than shutdownDrain

ASSUME FreeSwitchAssumption ==
    /\ None \notin Ids \cup Conns /\ Conns \subseteq Nat
    /\ MaxDuration \in BOOLEAN /\ AllowShutdown \in BOOLEAN /\ SlowDrain \in BOOLEAN
    /\ MaxTrouble \in Nat

VARIABLES
    \* FreeSWITCH and earshot
    chan,           \* a channel: none, up, gone
    on,             \* the channel a connection is for
    wsOpen,         \* the connection's WebSocket is open
    queue,          \* events on the Event Socket not handled yet
    \* Manager
    esl,            \* m.esl: down (nil), up, failed (stored, connection gone)
    calls,          \* id -> the connection registered for it
    gauge,          \* metrics.CallsActive
    run,            \* Manager.Run
    kills,          \* ids a "go m.hangup" goroutine is to hang up
    \* one connection
    handler,        \* ServeHTTP
    cause,          \* context.Cause(c.ctx): none while the call goes on, hangup
                    \* when the switch reported one, else ended
    watcher,        \* the goroutine that ends the call when its media does
    dead,           \* asm.Dead() is closed
    \* ghost and bounds
    missed,         \* ids whose uuid_kill never reached the switch
    losses, stalls  \* Event Sockets lost; WebSockets dropped or gone quiet

switchVars == <<chan, on, wsOpen, queue>>
managerVars == <<esl, calls, gauge, run, kills, missed>>
connVars == <<handler, cause, watcher, dead>>
boundVars == <<losses, stalls>>
vars == <<switchVars, managerVars, connVars, boundVars>>

Event(type, id) == [type |-> type, id |-> id]

\* Handlers that have registered their call and not unregistered it.
Registered(k) == handler[k] \in {"registered", "running", "ended", "aborting"}
Gone(k) == on[k] # None /\ chan[on[k]] = "gone"
Trouble == losses + stalls < MaxTrouble

-----------------------------------------------------------------------------
\* FreeSWITCH and mod_earshot (external).

\* An event is lost while no connection is up to carry it.
Emit(type, id) == queue' = IF esl = "up" THEN Append(queue, Event(type, id)) ELSE queue

ChannelArrives(id) ==
    /\ chan[id] = "none"
    /\ chan' = [chan EXCEPT ![id] = "up"]
    /\ UNCHANGED <<on, wsOpen, queue, managerVars, connVars, boundVars>>

\* "earshot start": a connection for the channel, the first or a reconnect.
EarshotConnects(k, id) ==
    /\ chan[id] = "up" /\ handler[k] = "none" /\ run = "serving"
    /\ \A j \in Conns : j < k => handler[j] # "none"
    /\ on' = [on EXCEPT ![k] = id]
    /\ wsOpen' = [wsOpen EXCEPT ![k] = TRUE]
    /\ handler' = [handler EXCEPT ![k] = "arrived"]
    /\ UNCHANGED <<chan, queue, managerVars, cause, watcher, dead, boundVars>>

CallerHangsUp(id) ==
    /\ chan[id] = "up"
    /\ chan' = [chan EXCEPT ![id] = "gone"]
    /\ Emit("hangup", id)
    /\ UNCHANGED <<on, wsOpen, managerVars, connVars, boundVars>>

\* The socket closes with its channel, or the network drops it.
WebSocketCloses(k) ==
    /\ wsOpen[k]
    /\ chan[on[k]] = "up" => Trouble
    /\ stalls' = IF chan[on[k]] = "up" THEN stalls + 1 ELSE stalls
    /\ wsOpen' = [wsOpen EXCEPT ![k] = FALSE]
    /\ UNCHANGED <<chan, on, queue, managerVars, connVars, losses>>

EslDrops ==
    /\ esl = "up" /\ Trouble
    /\ esl' = "failed" /\ losses' = losses + 1
    /\ UNCHANGED <<switchVars, calls, gauge, run, kills, missed, connVars, stalls>>

-----------------------------------------------------------------------------
\* api and hangup.

\* api: m.esl.Load() gives a connection, and it has not failed.
Connected == esl = "up"

Killed(id) == /\ chan' = IF chan[id] = "up" THEN [chan EXCEPT ![id] = "gone"] ELSE chan
              /\ IF chan[id] = "up" THEN Emit("hangup", id) ELSE UNCHANGED queue

\* hangup: uuid_kill is answered; or it is not answered in eslCommandTimeout,
\* which fails the connection, having reached the switch or not; or there is
\* no connection.  Nothing retries it.
Hangup(id) ==
    \/ /\ Connected /\ Killed(id)
       /\ UNCHANGED <<esl, missed, losses>>
    \/ /\ Connected /\ Trouble
       /\ esl' = "failed" /\ losses' = losses + 1
       /\ \/ Killed(id) /\ UNCHANGED missed
          \/ UNCHANGED <<chan, queue>> /\ missed' = missed \cup {id}
    \/ /\ ~Connected
       /\ missed' = missed \cup {id}
       /\ UNCHANGED <<chan, queue, esl, losses>>

-----------------------------------------------------------------------------
\* eslLoop and onEvent.

EslConnects ==
    /\ esl = "down" /\ run \notin {"stopping", "stopped"}
    /\ esl' = "up" /\ queue' = <<>>
    /\ UNCHANGED <<chan, on, wsOpen, calls, gauge, run, kills, missed, connVars, boundVars>>

\* The events channel of a failed connection closes, dropping what is queued.
EslLost ==
    /\ esl = "failed"
    /\ esl' = "down" /\ queue' = <<>>
    /\ UNCHANGED <<chan, on, wsOpen, calls, gauge, run, kills, missed, connVars, boundVars>>

\* c.cancel(why): the first cause stays.
Cancel(f, k, why) == IF f[k] = "none" THEN [f EXCEPT ![k] = why] ELSE f

\* Mutant: earshot::error is not looked at.
OnEventIgnoringErrors ==
    /\ esl # "down" /\ queue # <<>>
    /\ LET ev == Head(queue) k == calls[Head(queue).id] IN
       cause' = IF ev.type = "hangup" /\ k # None THEN Cancel(cause, k, "hangup") ELSE cause
    /\ queue' = Tail(queue)
    /\ UNCHANGED <<chan, on, wsOpen, esl, calls, gauge, run, kills, missed, handler, watcher, dead, boundVars>>

\* A connection that has just failed may still hand over an event.
OnEvent ==
    /\ esl # "down" /\ queue # <<>>
    /\ LET ev == Head(queue)
           k == calls[ev.id] IN
       /\ cause' = IF ev.type = "hangup" /\ k # None THEN Cancel(cause, k, "hangup") ELSE cause
       /\ kills' = IF ev.type = "error" /\ k = None THEN kills \cup {ev.id} ELSE kills
    /\ queue' = Tail(queue)
    /\ UNCHANGED <<chan, on, wsOpen, esl, calls, gauge, run, missed, handler, watcher, dead, boundVars>>

\* The goroutine of "go m.hangup(id)".
KillOrphan(id) ==
    /\ id \in kills
    /\ kills' = kills \ {id}
    /\ Hangup(id)
    /\ UNCHANGED <<on, wsOpen, calls, gauge, run, connVars, stalls>>

-----------------------------------------------------------------------------
\* ServeHTTP.

\* Mutant: a second connection replaces the first.
MayRegisterAgain(k) == run \in {"serving", "closed"}
MayRegister(k) == run \in {"serving", "closed"} /\ calls[on[k]] = None

\* register; earshot reports a refused connection as an error.
Register(k) ==
    /\ handler[k] = "arrived"
    /\ IF MayRegister(k)
       THEN /\ handler' = [handler EXCEPT ![k] = "registered"]
            /\ calls' = [calls EXCEPT ![on[k]] = k]
            /\ UNCHANGED <<wsOpen, queue>>
       ELSE /\ handler' = [handler EXCEPT ![k] = "refused"]
            /\ wsOpen' = [wsOpen EXCEPT ![k] = FALSE]
            /\ Emit("error", on[k])
            /\ UNCHANGED calls
    /\ UNCHANGED <<chan, on, esl, gauge, run, kills, missed, cause, watcher, dead, boundVars>>

\* The Upgrade fails when the connection is gone: the far end's doing, or
\* srv.Close.
UpgradeFails(k) ==
    /\ handler[k] = "registered"
    /\ ~wsOpen[k] \/ run # "serving"
    /\ handler' = [handler EXCEPT ![k] = "aborting"]
    /\ wsOpen' = [wsOpen EXCEPT ![k] = FALSE]
    /\ Emit("error", on[k])
    /\ UNCHANGED <<chan, on, managerVars, cause, watcher, dead, boundVars>>

\* runCall up to asm.Run.
CallStarts(k) ==
    /\ handler[k] = "registered"
    /\ handler' = [handler EXCEPT ![k] = "running"]
    /\ watcher' = [watcher EXCEPT ![k] = "waiting"]
    /\ gauge' = gauge + 1
    /\ UNCHANGED <<switchVars, esl, calls, run, kills, missed, cause, dead, boundVars>>

\* The agent's Hangup hook.
AgentHangsUp(k) ==
    /\ handler[k] = "running" /\ cause[k] = "none"
    /\ Hangup(on[k])
    /\ UNCHANGED <<on, wsOpen, calls, gauge, run, kills, connVars, stalls>>

\* The media watchdog: no audio, because the channel is gone or the media is
\* stuck.
MediaDies(k) ==
    /\ handler[k] = "running" /\ cause[k] = "none" /\ ~dead[k]
    /\ chan[on[k]] = "up" => Trouble
    /\ stalls' = IF chan[on[k]] = "up" THEN stalls + 1 ELSE stalls
    /\ dead' = [dead EXCEPT ![k] = TRUE]
    /\ UNCHANGED <<switchVars, managerVars, handler, cause, watcher, losses>>

\* The watcher, which has no effect once the context is done (its own select on
\* it, or a second cancel): asm.ReadDone() starts the grace for the hangup event.
SocketDone(k) ==
    /\ watcher[k] = "waiting" /\ ~wsOpen[k] /\ cause[k] = "none"
    /\ watcher' = [watcher EXCEPT ![k] = "grace"]
    /\ UNCHANGED <<switchVars, managerVars, handler, cause, dead, boundVars>>

GraceEnds(k) ==
    /\ watcher[k] = "grace" /\ cause[k] = "none"
    /\ watcher' = [watcher EXCEPT ![k] = "done"]
    /\ cause' = Cancel(cause, k, "ended")
    /\ UNCHANGED <<switchVars, managerVars, handler, dead, boundVars>>

SeesDead(k) ==
    /\ watcher[k] = "waiting" /\ dead[k] /\ cause[k] = "none"
    /\ watcher' = [watcher EXCEPT ![k] = "done"]
    /\ cause' = Cancel(cause, k, "ended")
    /\ UNCHANGED <<switchVars, managerVars, handler, dead, boundVars>>

DurationEnds(k) ==
    /\ MaxDuration /\ Registered(k) /\ cause[k] = "none"
    /\ cause' = Cancel(cause, k, "ended")
    /\ UNCHANGED <<switchVars, managerVars, handler, watcher, dead, boundVars>>

\* asm.Run returns: the context is done, the socket closed, the watcher gone.
MediaEnds(k) ==
    /\ handler[k] = "running" /\ cause[k] # "none"
    /\ handler' = [handler EXCEPT ![k] = "ended"]
    /\ wsOpen' = [wsOpen EXCEPT ![k] = FALSE]
    /\ watcher' = [watcher EXCEPT ![k] = "done"]
    /\ UNCHANGED <<chan, on, queue, managerVars, cause, dead, boundVars>>

\* unregister, the gauge given back first if runCall ran.
Unregister(k, pc) ==
    /\ handler' = [handler EXCEPT ![k] = pc]
    /\ calls' = [calls EXCEPT ![on[k]] = None]
    /\ cause' = Cancel(cause, k, "ended")

\* The end of runCall: the channel is hung up unless the switch said it is
\* gone; then the deferred gauge and unregister.
CallEnds(k) ==
    /\ handler[k] = "ended"
    /\ IF cause[k] = "hangup" THEN UNCHANGED <<chan, queue, esl, missed, losses>> ELSE Hangup(on[k])
    /\ gauge' = gauge - 1
    /\ Unregister(k, "done")
    /\ UNCHANGED <<on, wsOpen, run, kills, watcher, dead, stalls>>

Aborts(k) ==
    /\ handler[k] = "aborting"
    /\ Unregister(k, "aborted")
    /\ UNCHANGED <<switchVars, esl, gauge, run, kills, missed, watcher, dead, boundVars>>

-----------------------------------------------------------------------------
\* Run, once its context is cancelled.

ServerCloses ==
    /\ AllowShutdown /\ run = "serving"
    /\ run' = "closed"
    /\ UNCHANGED <<switchVars, esl, calls, gauge, kills, missed, connVars, boundVars>>

\* Mutant: no new calls, but the live ones are not cancelled.
CancelNothing ==
    /\ run = "closed"
    /\ run' = "draining"
    /\ UNCHANGED <<switchVars, esl, calls, gauge, kills, missed, connVars, boundVars>>

\* closing is set and every call cancelled, under mu.
CancelCalls ==
    /\ run = "closed"
    /\ run' = "draining"
    /\ cause' = [k \in Conns |-> IF k \in {calls[id] : id \in Ids} /\ cause[k] = "none"
                                 THEN "ended" ELSE cause[k]]
    /\ UNCHANGED <<switchVars, esl, calls, gauge, kills, missed, handler, watcher, dead, boundVars>>

\* wg.Wait returns, or shutdownDrain passes; then stopESL.
Drained ==
    /\ run = "draining"
    /\ SlowDrain \/ \A k \in Conns : ~Registered(k)
    /\ run' = "stopping"
    /\ esl' = IF esl = "up" THEN "failed" ELSE esl
    /\ UNCHANGED <<switchVars, calls, gauge, kills, missed, connVars, boundVars>>

RunReturns ==
    /\ run = "stopping" /\ esl = "down"
    /\ run' = "stopped"
    /\ UNCHANGED <<switchVars, esl, calls, gauge, kills, missed, connVars, boundVars>>

-----------------------------------------------------------------------------
Init ==
    /\ chan = [id \in Ids |-> "none"]
    /\ on = [k \in Conns |-> None]
    /\ wsOpen = [k \in Conns |-> FALSE]
    /\ queue = <<>>
    /\ esl = "down" /\ gauge = 0 /\ run = "serving" /\ kills = {} /\ missed = {}
    /\ calls = [id \in Ids |-> None]
    /\ handler = [k \in Conns |-> "none"]
    /\ cause = [k \in Conns |-> "none"]
    /\ watcher = [k \in Conns |-> "none"]
    /\ dead = [k \in Conns |-> FALSE]
    /\ losses = 0 /\ stalls = 0

ConnNext(k) ==
    \/ \E id \in Ids : EarshotConnects(k, id)
    \/ WebSocketCloses(k) \/ Register(k) \/ UpgradeFails(k) \/ CallStarts(k) \/ AgentHangsUp(k)
    \/ MediaDies(k) \/ SocketDone(k) \/ GraceEnds(k) \/ SeesDead(k)
    \/ DurationEnds(k) \/ MediaEnds(k) \/ CallEnds(k) \/ Aborts(k)

Next ==
    \/ \E id \in Ids : ChannelArrives(id) \/ CallerHangsUp(id) \/ KillOrphan(id)
    \/ \E k \in Conns : ConnNext(k)
    \/ EslConnects \/ EslDrops \/ EslLost \/ OnEvent
    \/ ServerCloses \/ CancelCalls \/ Drained \/ RunReturns

Spec == Init /\ [][Next]_vars

\* The steps of each goroutine.
HandlerSteps(k) == Register(k) \/ UpgradeFails(k) \/ CallStarts(k) \/ MediaEnds(k) \/ CallEnds(k) \/ Aborts(k)
WatcherSteps(k) == SocketDone(k) \/ GraceEnds(k) \/ SeesDead(k)
LoopSteps == EslConnects \/ EslLost \/ OnEvent
RunSteps == CancelCalls \/ Drained \/ RunReturns

\* Goroutines run; the Event Socket is dialed until it connects; the watchdog
\* notices that a channel is gone.
Fairness ==
    /\ \A id \in Ids : WF_vars(KillOrphan(id))
    /\ \A k \in Conns : /\ WF_vars(HandlerSteps(k)) /\ WF_vars(WatcherSteps(k))
                         /\ WF_vars(MediaDies(k) /\ Gone(k))
    /\ WF_vars(LoopSteps) /\ WF_vars(RunSteps)

FairSpec == Spec /\ Fairness

-----------------------------------------------------------------------------
TypeOK ==
    /\ chan \in [Ids -> {"none", "up", "gone"}]
    /\ on \in [Conns -> Ids \cup {None}] /\ wsOpen \in [Conns -> BOOLEAN]
    /\ queue \in Seq([type : {"hangup", "error"}, id : Ids])
    /\ esl \in {"down", "up", "failed"} /\ gauge \in Int
    /\ run \in {"serving", "closed", "draining", "stopping", "stopped"}
    /\ calls \in [Ids -> Conns \cup {None}] /\ kills \subseteq Ids /\ missed \subseteq Ids
    /\ handler \in [Conns -> {"none", "arrived", "registered", "running", "ended", "aborting",
                              "refused", "aborted", "done"}]
    /\ cause \in [Conns -> {"none", "hangup", "ended"}]
    /\ watcher \in [Conns -> {"none", "waiting", "grace", "done"}] /\ dead \in [Conns -> BOOLEAN]
    /\ losses \in 0 .. MaxTrouble /\ stalls \in 0 .. MaxTrouble

\* runCall: when a call is over its channel is gone, whatever ended it, unless
\* a uuid_kill for it failed with the Event Socket.
NoChannelLeftUp ==
    \A k \in Conns : handler[k] = "done" /\ chan[on[k]] = "up" => on[k] \in missed

\* register against Run: once the drain is done no call is registered or can
\* still be, so nothing runs on after Run has returned.
DrainIsFinal ==
    run \in {"stopping", "stopped"} /\ ~SlowDrain
        => /\ \A k \in Conns : ~Registered(k)
           /\ \A id \in Ids : calls[id] = None

HasCall(id) == \E k \in Conns : on[k] = id /\ handler[k] \in {"running", "ended"}
ErrorReported(id) == \E i \in DOMAIN queue : queue[i] = Event("error", id)

\* onEvent, earshot::error: a caller whose connection was refused or failed is
\* hung up, never left in silence, once the switch has reported it and the
\* connection is unregistered, while the Event Socket and the process go on.
RefusedIsHungUp ==
    \A id \in Ids :
        (ErrorReported(id) /\ calls[id] = None)
            ~> (chan[id] = "gone" \/ HasCall(id) \/ losses # 0 \/ run # "serving")

\* No caller is left on a line without an agent, neither when his call is over
\* nor when it was refused.
CallersNotLeft == [](TypeOK /\ NoChannelLeftUp) /\ RefusedIsHungUp

\* The shutdown is final, and Run returns once it is told to stop, whatever the
\* Event Socket does.
ShutdownIsFinal == []DrainIsFinal /\ ((run = "closed") ~> (run = "stopped"))
=============================================================================
