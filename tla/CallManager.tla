---------------------------- MODULE CallManager ----------------------------
(***************************************************************************)
(* The life of a call on Asterisk: internal/ari/handlers.go and outbound.go*)
(* with internal/session/call.go and internal/media/portalloc.go.          *)
(*                                                                         *)
(* Processes: the Stasis event loop (Manager.Run, one event at a time, its *)
(* handlers blocking on ARI requests), the connectivity watcher, one media *)
(* goroutine per bridged call, the maximum-duration timers, the campaign   *)
(* goroutines in Dial with their watchdogs, and whoever runs a teardown.   *)
(* A step ends at every ARI request another goroutine can come between, and*)
(* at every section under Manager.mu.                                      *)
(*                                                                         *)
(* A call is named by its caller channel.  Abstracted: audio, the agent,   *)
(* transfers, numbers; hangup causes (any cause of an unanswered call is   *)
(* "notconnected").  A hangup or a bridge deletion takes effect.           *)
(***************************************************************************)
EXTENDS Integers, Sequences, FiniteSets

CONSTANTS
    None,
    Inbound,        \* channels of callers who dial in
    Dialed,         \* channels Vaani dials (Manager.Dial)
    ExtIds,         \* ids for externalMedia channels (rid.New)
    Ports,          \* the media port range
    AudioSocket,    \* MEDIA_ENCAPSULATION=audiosocket, else RTP
    Limited,        \* calls under MAX_CALL_DURATION_SECONDS: in one process, all or none
    MaxFaults,      \* bound: ARI requests that fail though the channels are there
    MaxDrops,       \* bound: times the ARI WebSocket drops
    AllowShutdown   \* the process may be told to stop

Channels == Inbound \cup Dialed \cup ExtIds

ASSUME ManagerAssumption ==
    /\ None \notin Channels /\ None \notin Ports
    /\ Inbound \cap Dialed = {} /\ Inbound \cap ExtIds = {} /\ Dialed \cap ExtIds = {}
    /\ Ports \subseteq Nat /\ IsFiniteSet(Ports)
    /\ AudioSocket \in BOOLEAN /\ Limited \subseteq Inbound \cup Dialed /\ AllowShutdown \in BOOLEAN
    /\ MaxFaults \in Nat /\ MaxDrops \in Nat

VARIABLES
    \* Asterisk
    chan,           \* channels: none, ringing, stasis, gone
    bridgeUp,       \* calls whose mixing bridge exists
    connected,      \* the WebSocket is up
    queue,          \* events delivered and not yet handled
    \* Manager
    pending, active,\* channel id -> call
    outbound,       \* dialed calls the manager knows
    used,           \* PortAllocator.inUse
    gauge,          \* metrics.CallsActive
    loop,           \* the event loop: what it is doing, and for which channel
    sawUp,          \* the watcher: the WebSocket as of its last poll
    purge,          \* teardownAll, run by the watcher or by the loop at shutdown
    \* one call
    sess,           \* session.Call.state, "none" = no call object
    extOf, port,    \* ExternalID and Port
    held,           \* the call has not freed its port yet
    sock,           \* its UDP socket or TCP listener is open
    bridge,         \* c.bridge is set
    withOut,        \* c.out is set
    timer,          \* maxDur is armed
    td,             \* teardownOnce: none, the step of the cleanup, done
    media,          \* the media goroutine
    \* one dialed call
    dial,           \* Manager.Dial: none, originating, placed, error
    watchdog, answered, agentStarted,
    done,           \* the outcome Done was called with
    faults, drops

asteriskVars == <<chan, bridgeUp, connected, queue>>
managerVars == <<pending, active, outbound, used, gauge, loop, sawUp, purge>>
callVars == <<sess, extOf, port, held, sock, bridge, withOut, timer, td, media>>
dialVars == <<dial, watchdog, answered, agentStarted, done>>
boundVars == <<faults, drops>>
vars == <<asteriskVars, managerVars, callVars, dialVars, boundVars>>

LoopPcs == {"idle", "start", "ext", "bridge", "activate", "teardown", "stopped"}
TdPcs == {"none", "maps", "legs", "ports", "done"}
MediaPcs == {"none", "accept", "build", "assign", "setstate", "running", "done"}

Events == [type : {"start", "end", "destroyed"}, ch : Channels]
Event(type, ch) == [type |-> type, ch |-> ch]
Doing(pc, ch) == [pc |-> pc, ch |-> ch]
Idle == Doing("idle", None)
Purgers == {"watcher", "loop"}
NoPurge == [pc |-> "off", todo |-> {}, cur |-> None]

-----------------------------------------------------------------------------
\* Asterisk (external): channels and the events it sends about them.

\* Events sent while the WebSocket is down are lost.
Deliver(q, events) == IF connected THEN q \o events ELSE q

\* What ending channel ch makes Asterisk report.
EndEvents(ch) ==
    LET destroyed == IF ch \in Dialed THEN <<Event("destroyed", ch)>> ELSE <<>> IN
    CASE chan[ch] = "stasis" -> <<Event("end", ch)>> \o destroyed
      [] chan[ch] = "ringing" -> destroyed
      [] OTHER -> <<>>

EndChannel(f, ch) == IF f[ch] \in {"stasis", "ringing"} THEN [f EXCEPT ![ch] = "gone"] ELSE f

\* hangupChannel, on one channel and on both legs of a call whose event has
\* left the queue as q; a channel that is already gone is not an error.
Hangup(ch) ==
    /\ chan' = EndChannel(chan, ch)
    /\ queue' = Deliver(queue, EndEvents(ch))

HangupBoth(c, q) ==
    /\ chan' = EndChannel(EndChannel(chan, c), extOf[c])
    /\ queue' = Deliver(q, EndEvents(c) \o EndEvents(extOf[c]))

Fault == faults < MaxFaults /\ faults' = faults + 1
NoFault == UNCHANGED faults

CallerArrives(ch) ==
    /\ ch \in Inbound /\ chan[ch] = "none"
    /\ chan' = [chan EXCEPT ![ch] = "stasis"]
    /\ queue' = Deliver(queue, <<Event("start", ch)>>)
    /\ UNCHANGED <<bridgeUp, connected, managerVars, callVars, dialVars, boundVars>>

CalleeAnswers(ch) ==
    /\ chan[ch] = "ringing"
    /\ chan' = [chan EXCEPT ![ch] = "stasis"]
    /\ queue' = Deliver(queue, <<Event("start", ch)>>)
    /\ UNCHANGED <<bridgeUp, connected, managerVars, callVars, dialVars, boundVars>>

\* The far end hangs up, the ring timeout passes, Asterisk drops a leg.
ChannelEnds(ch) ==
    /\ chan[ch] \in {"stasis", "ringing"}
    /\ Hangup(ch)
    /\ UNCHANGED <<bridgeUp, connected, managerVars, callVars, dialVars, boundVars>>

WebSocketDrops ==
    /\ connected /\ drops < MaxDrops
    /\ connected' = FALSE
    /\ drops' = drops + 1
    /\ UNCHANGED <<chan, bridgeUp, queue, managerVars, callVars, dialVars, faults>>

WebSocketReturns ==
    /\ ~connected
    /\ connected' = TRUE
    /\ UNCHANGED <<chan, bridgeUp, queue, managerVars, callVars, dialVars, boundVars>>

-----------------------------------------------------------------------------
\* Outcomes, ports and the once-guarded cleanup.

\* outboundCall.finish: Done is called once.
Finish(f, ch, how) == IF f[ch] = "none" THEN [f EXCEPT ![ch] = how] ELSE f

\* The dialed calls takeRinging may take.
Ringing(ch) == ch \in outbound /\ ~answered[ch]

\* takeRinging, and Done with how the call failed.
TakeRinging(ch) ==
    /\ outbound' = outbound \ {ch}
    /\ watchdog' = [watchdog EXCEPT ![ch] = FALSE]
    /\ done' = Finish(done, ch, "notconnected")

\* outboundSetupFailed on channel ch.
SetupFailed(ch) ==
    /\ outbound' = outbound \ {ch}
    /\ done' = IF ch \in outbound THEN Finish(done, ch, "notconnected") ELSE done

\* finishOutbound of call c.
FinishOutbound(c) ==
    /\ outbound' = IF withOut[c] THEN outbound \ {c} ELSE outbound
    /\ done' = IF withOut[c]
               THEN Finish(done, c, IF agentStarted[c] THEN "connected" ELSE "notconnected") ELSE done

\* PortAllocator.Alloc takes the lowest free port.  Mutant: ports in use are
\* not skipped.
AnyPort == Ports
FreePorts == Ports \ used
LowestFree == CHOOSE p \in FreePorts : \A x \in FreePorts : p <= x

\* Mutant: without the once-guard.
StartTeardownAgain(c) ==
    /\ td' = [td EXCEPT ![c] = "maps"]
    /\ sess' = [sess EXCEPT ![c] = "torndown"]

\* session.Call.Teardown: the first caller moves the call to torn down and
\* starts the cleanup, the others wait for it.
StartTeardown(c) ==
    /\ td' = IF td[c] = "none" THEN [td EXCEPT ![c] = "maps"] ELSE td
    /\ sess' = IF td[c] = "none" THEN [sess EXCEPT ![c] = "torndown"] ELSE sess

\* A map without the two legs of call c.
WithoutLegs(m, c) == [k \in Channels |-> IF k \in {c, extOf[c]} THEN None ELSE m[k]]

\* teardown's cleanup: the timer and the maps, the socket, bridge and legs, the
\* port, the gauge and the outcome.
TdMaps(c) ==
    /\ td[c] = "maps"
    /\ timer' = [timer EXCEPT ![c] = FALSE]
    /\ active' = WithoutLegs(active, c)
    /\ pending' = WithoutLegs(pending, c)
    /\ td' = [td EXCEPT ![c] = "legs"]
    /\ UNCHANGED <<asteriskVars, outbound, used, gauge, loop, sawUp, purge, sess, extOf, port, held, sock,
                   bridge, withOut, media, dialVars, boundVars>>

TdLegs(c) ==
    /\ td[c] = "legs"
    /\ sock' = [sock EXCEPT ![c] = FALSE]
    /\ bridgeUp' = IF bridge[c] THEN bridgeUp \ {c} ELSE bridgeUp
    /\ HangupBoth(c, queue)
    /\ td' = [td EXCEPT ![c] = "ports"]
    /\ UNCHANGED <<connected, managerVars, sess, extOf, port, held, bridge, withOut, timer, media,
                   dialVars, boundVars>>

FreesPort(c, settled) ==
    /\ td[c] = "ports" /\ settled
    /\ used' = used \ {port[c]}
    /\ held' = [held EXCEPT ![c] = FALSE]
    /\ gauge' = gauge - 1
    /\ FinishOutbound(c)
    /\ td' = [td EXCEPT ![c] = "done"]
    /\ UNCHANGED <<asteriskVars, pending, active, loop, sawUp, purge, sess, extOf, port, sock, bridge,
                   withOut, timer, media, dial, watchdog, answered, agentStarted, boundVars>>

\* Mutant: the events of both legs are awaited, which the loop may be kept from.
TdPortsAfterEvents(c) == FreesPort(c, \A i \in DOMAIN queue : queue[i].ch \notin {c, extOf[c]})
TdPorts(c) == FreesPort(c, TRUE)

\* Mutant: an aborted call keeps its port.
AbortKeepsPort(c, q) ==
    /\ td' = [td EXCEPT ![c] = "done"]
    /\ sess' = [sess EXCEPT ![c] = "torndown"]
    /\ sock' = [sock EXCEPT ![c] = FALSE]
    /\ UNCHANGED used
    /\ held' = [held EXCEPT ![c] = FALSE]
    /\ HangupBoth(c, q)
    /\ FinishOutbound(c)

\* abort: the same once-guard, for a call that was never bridged.  No other
\* goroutine can see its steps apart.
AbortCleanup(c, q) ==
    /\ td' = [td EXCEPT ![c] = "done"]
    /\ sess' = [sess EXCEPT ![c] = "torndown"]
    /\ sock' = [sock EXCEPT ![c] = FALSE]
    /\ used' = used \ {port[c]}
    /\ held' = [held EXCEPT ![c] = FALSE]
    /\ HangupBoth(c, q)
    /\ FinishOutbound(c)

-----------------------------------------------------------------------------
\* The event loop: one event at a time, to the end of its handler.

\* The loop takes the next event, of the given type.
Takes(type) ==
    /\ loop.pc = "idle" /\ queue # <<>>
    /\ Head(queue).type = type

LoopTo(pc, ch) == loop' = Doing(pc, ch)
LoopIdle == loop' = Idle

IsExternal(ch) == pending[ch] # None /\ extOf[pending[ch]] = ch

\* onStasisStart, of the externalMedia leg a staged call waits for: the call
\* leaves pending and is bridged.
OnExternalStart ==
    /\ Takes("start")
    /\ LET ch == Head(queue).ch IN
       /\ ch \notin Dialed /\ IsExternal(ch)
       /\ pending' = WithoutLegs(pending, pending[ch])
       /\ LoopTo("bridge", pending[ch])
    /\ queue' = Tail(queue)
    /\ UNCHANGED <<chan, bridgeUp, connected, active, outbound, used, gauge, sawUp, purge, callVars,
                   dialVars, boundVars>>

\* onStasisStart, of any other channel that is not dialed: a new call.
OnCallerStart ==
    /\ Takes("start")
    /\ LET ch == Head(queue).ch IN
       /\ ch \notin Dialed /\ ~IsExternal(ch)
       /\ LoopTo("start", ch)
    /\ queue' = Tail(queue)
    /\ UNCHANGED <<chan, bridgeUp, connected, pending, active, outbound, used, gauge, sawUp, purge,
                   callVars, dialVars, boundVars>>

\* onOutboundAnswered: a leg nobody waits for any more is hung up.
OnOutboundAnswered ==
    /\ Takes("start")
    /\ LET ch == Head(queue).ch IN
       /\ ch \in Dialed
       /\ \/ /\ ch \in outbound
             /\ answered' = [answered EXCEPT ![ch] = TRUE]
             /\ watchdog' = [watchdog EXCEPT ![ch] = FALSE]
             /\ LoopTo("start", ch)
             /\ chan' = chan /\ queue' = Tail(queue)
          \/ /\ ch \notin outbound
             /\ chan' = EndChannel(chan, ch)
             /\ queue' = Deliver(Tail(queue), EndEvents(ch))
             /\ UNCHANGED <<answered, watchdog, loop>>
    /\ UNCHANGED <<bridgeUp, connected, pending, active, outbound, used, gauge, sawUp, purge, callVars,
                   dial, agentStarted, done, boundVars>>

\* startCall up to the externalMedia request: answer, take a port, bind, and
\* stage the call.
FreshExt == CHOOSE x \in ExtIds : \A c \in Channels : extOf[c] # x
PortBusy(p) == \E c \in Channels : sock[c] /\ port[c] = p

StartCall ==
    /\ loop.pc = "start"
    /\ LET ch == loop.ch
           out == ch \in outbound IN
       \/ \* the channel could not be answered
          /\ ~out
          /\ \/ chan[ch] # "stasis" /\ NoFault
             \/ chan[ch] = "stasis" /\ Fault
          /\ Hangup(ch)
          /\ LoopIdle
          /\ UNCHANGED <<pending, outbound, done, used, sess, extOf, port, held, sock, withOut, timer>>
       \/ \* no port is left, or the socket could not be bound
          /\ out \/ chan[ch] = "stasis"
          /\ \/ FreePorts = {} /\ NoFault
             \/ FreePorts # {} /\ PortBusy(LowestFree) /\ NoFault
             \/ FreePorts # {} /\ Fault
          /\ Hangup(ch)
          /\ SetupFailed(ch)
          /\ LoopIdle
          /\ UNCHANGED <<pending, used, sess, extOf, port, held, sock, withOut, timer>>
       \/ /\ out \/ chan[ch] = "stasis"
          /\ FreePorts # {} /\ ~PortBusy(LowestFree)
          /\ \E x \in ExtIds : \A c \in Channels : extOf[c] # x
          /\ NoFault
          /\ used' = used \cup {LowestFree}
          /\ port' = [port EXCEPT ![ch] = LowestFree]
          /\ held' = [held EXCEPT ![ch] = TRUE]
          /\ sock' = [sock EXCEPT ![ch] = TRUE]
          /\ extOf' = [extOf EXCEPT ![ch] = FreshExt]
          /\ withOut' = [withOut EXCEPT ![ch] = out]
          /\ pending' = [pending EXCEPT ![ch] = ch, ![FreshExt] = ch]
          /\ timer' = [timer EXCEPT ![ch] = ch \in Limited]
          /\ sess' = [sess EXCEPT ![ch] = "staged"]
          /\ LoopTo("ext", ch)
          /\ UNCHANGED <<chan, queue, outbound, done>>
    /\ UNCHANGED <<bridgeUp, connected, active, gauge, sawUp, purge, bridge, td, media, dial, watchdog,
                   answered, agentStarted, drops>>

\* The externalMedia request.  On an error the call is undone outside the
\* once-guard, and its timer runs on; the channel may have been created.
CreateExt ==
    /\ loop.pc = "ext"
    /\ LET c == loop.ch
           started == <<Event("start", extOf[c])>> IN
       \/ /\ AudioSocket => sock[c]
          /\ chan' = [chan EXCEPT ![extOf[c]] = "stasis"]
          /\ queue' = Deliver(queue, started)
          /\ NoFault
          /\ UNCHANGED <<pending, sock, used, held, outbound, done>>
       \/ /\ \/ AudioSocket /\ ~sock[c] /\ NoFault
             \/ Fault
          /\ \/ Hangup(c)
             \/ /\ AudioSocket => sock[c]
                /\ chan' = [EndChannel(chan, c) EXCEPT ![extOf[c]] = "stasis"]
                /\ queue' = Deliver(queue, started \o EndEvents(c))
          /\ pending' = WithoutLegs(pending, c)
          /\ sock' = [sock EXCEPT ![c] = FALSE]
          /\ used' = used \ {port[c]}
          /\ held' = [held EXCEPT ![c] = FALSE]
          /\ SetupFailed(c)
    /\ LoopIdle
    /\ UNCHANGED <<bridgeUp, connected, active, gauge, sawUp, purge, sess, extOf, port, bridge, withOut,
                   timer, td, media, dial, watchdog, answered, agentStarted, drops>>

\* abort, by the loop: the once-guarded cleanup, or a wait for whoever runs it.
Abort(c, q) ==
    \/ td[c] = "none" /\ AbortCleanup(c, q) /\ LoopIdle
    \/ /\ td[c] # "none"
       /\ LoopTo("teardown", c)
       /\ queue' = q
       /\ UNCHANGED <<td, sess, sock, used, held, chan, outbound, done>>

\* completeBridge: the bridge is created and both legs join it; a leg that is
\* gone is an error.
BridgeCall ==
    /\ loop.pc = "bridge"
    /\ LET c == loop.ch
           legs == chan[c] = "stasis" /\ chan[extOf[c]] = "stasis" IN
       \/ /\ legs /\ NoFault
          /\ bridgeUp' = bridgeUp \cup {c}
          /\ LoopTo("activate", c)
          /\ UNCHANGED <<td, sess, sock, used, held, chan, queue, outbound, done>>
       \/ /\ \/ ~legs /\ NoFault
             \/ legs /\ Fault
          /\ Abort(c, queue)
          /\ UNCHANGED bridgeUp
    /\ UNCHANGED <<connected, pending, active, gauge, sawUp, purge, extOf, port, bridge, withOut, timer,
                   media, dial, watchdog, answered, agentStarted, drops>>

\* Mutant: the active call is keyed by its caller's channel alone.
ActivateCallerOnly ==
    /\ loop.pc = "activate"
    /\ LET c == loop.ch IN
       /\ bridge' = [bridge EXCEPT ![c] = TRUE]
       /\ sess' = [sess EXCEPT ![c] = "bridged"]
       /\ active' = [active EXCEPT ![c] = c]
       /\ gauge' = gauge + 1
       /\ media' = [media EXCEPT ![c] = IF AudioSocket THEN "accept" ELSE "build"]
    /\ LoopIdle
    /\ UNCHANGED <<asteriskVars, pending, outbound, used, sawUp, purge, extOf, port, held, sock, withOut,
                   timer, td, dialVars, boundVars>>

\* completeBridge, the rest: the call is active and its media starts.
Activate ==
    /\ loop.pc = "activate"
    /\ LET c == loop.ch IN
       /\ bridge' = [bridge EXCEPT ![c] = TRUE]
       /\ sess' = [sess EXCEPT ![c] = "bridged"]
       /\ active' = [active EXCEPT ![c] = c, ![extOf[c]] = c]
       /\ gauge' = gauge + 1
       /\ media' = [media EXCEPT ![c] = IF AudioSocket THEN "accept" ELSE "build"]
    /\ LoopIdle
    /\ UNCHANGED <<asteriskVars, pending, outbound, used, sawUp, purge, extOf, port, held, sock, withOut,
                   timer, td, dialVars, boundVars>>

\* onStasisEnd of a leg of an active call: out of the map, and torn down.
OnActiveEnd ==
    /\ Takes("end")
    /\ LET c == active[Head(queue).ch] IN
       /\ c # None
       /\ active' = WithoutLegs(active, c)
       /\ StartTeardown(c)
       /\ LoopTo("teardown", c)
    /\ queue' = Tail(queue)
    /\ UNCHANGED <<chan, bridgeUp, connected, pending, outbound, used, gauge, sawUp, purge, extOf, port,
                   held, sock, bridge, withOut, timer, media, dialVars, boundVars>>

LoopTeardown ==
    /\ loop.pc = "teardown"
    /\ td[loop.ch] = "done"
    /\ LoopIdle
    /\ UNCHANGED <<asteriskVars, pending, active, outbound, used, gauge, sawUp, purge, callVars, dialVars,
                   boundVars>>

\* onStasisEnd of a leg of a staged call: abort.  Of any other: nothing.
OnStagedEnd ==
    /\ Takes("end")
    /\ LET ch == Head(queue).ch
           c == pending[ch] IN
       /\ active[ch] = None /\ c # None
       /\ pending' = WithoutLegs(pending, c)
       /\ Abort(c, Tail(queue))
    /\ UNCHANGED <<bridgeUp, connected, active, gauge, sawUp, purge, extOf, port, bridge, withOut, timer,
                   media, dial, watchdog, answered, agentStarted, boundVars>>

OnOtherEnd ==
    /\ Takes("end")
    /\ active[Head(queue).ch] = None /\ pending[Head(queue).ch] = None
    /\ queue' = Tail(queue)
    /\ UNCHANGED <<chan, bridgeUp, connected, managerVars, callVars, dialVars, boundVars>>

\* onOutboundDestroyed: the dialed call ended unanswered, or nobody cares.
OnOutboundDestroyed ==
    /\ Takes("destroyed")
    /\ LET ch == Head(queue).ch IN
       IF Ringing(ch) THEN TakeRinging(ch) ELSE UNCHANGED <<outbound, watchdog, done>>
    /\ queue' = Tail(queue)
    /\ UNCHANGED <<chan, bridgeUp, connected, pending, active, used, gauge, loop, sawUp, purge, callVars,
                   dial, answered, agentStarted, boundVars>>

-----------------------------------------------------------------------------
\* The goroutines of one call: its timer, its media plane.

TimerFires(c) ==
    /\ timer[c]
    /\ timer' = [timer EXCEPT ![c] = FALSE]
    /\ StartTeardown(c)
    /\ UNCHANGED <<asteriskVars, managerVars, extOf, port, held, sock, bridge, withOut, media, dialVars,
                   boundVars>>

\* startAudioSocketMedia: Asterisk connects and the listener is closed, or the
\* wait times out or ends with the listener, and the call is torn down.
MediaAccept(c) ==
    /\ media[c] = "accept"
    /\ \/ /\ sock[c]
          /\ sock' = [sock EXCEPT ![c] = FALSE]
          /\ media' = [media EXCEPT ![c] = "build"]
          /\ UNCHANGED <<td, sess>>
       \/ /\ StartTeardown(c)
          /\ media' = [media EXCEPT ![c] = "done"]
          /\ UNCHANGED sock
    /\ UNCHANGED <<asteriskVars, managerVars, extOf, port, held, bridge, withOut, timer, dialVars, boundVars>>

\* mediaHandler: from here the agent accounts for a dialed call.
MediaBuild(c) ==
    /\ media[c] = "build"
    /\ agentStarted' = IF withOut[c] THEN [agentStarted EXCEPT ![c] = TRUE] ELSE agentStarted
    /\ media' = [media EXCEPT ![c] = "assign"]
    /\ UNCHANGED <<asteriskVars, managerVars, sess, extOf, port, held, sock, bridge, withOut, timer, td,
                   dial, watchdog, answered, done, boundVars>>

\* Under the lock: a call torn down meanwhile gets no media plane.
MediaAssign(c) ==
    /\ media[c] = "assign"
    /\ media' = [media EXCEPT ![c] = IF sess[c] = "torndown" THEN "done" ELSE "setstate"]
    /\ UNCHANGED <<asteriskVars, managerVars, sess, extOf, port, held, sock, bridge, withOut, timer, td,
                   dialVars, boundVars>>

\* SetState(StateMediaActive), after the lock is released.
MediaSetState(c) ==
    /\ media[c] = "setstate"
    /\ sess' = [sess EXCEPT ![c] = "mediaactive"]
    /\ media' = [media EXCEPT ![c] = "running"]
    /\ UNCHANGED <<asteriskVars, managerVars, extOf, port, held, sock, bridge, withOut, timer, td,
                   dialVars, boundVars>>

\* The media plane runs until the call's context is cancelled, or until it
\* hears nothing for too long and watchMediaDead hangs the call up.
MediaEnds(c) ==
    /\ media[c] = "running" /\ td[c] # "none"
    /\ media' = [media EXCEPT ![c] = "done"]
    /\ UNCHANGED <<asteriskVars, managerVars, sess, extOf, port, held, sock, bridge, withOut, timer, td,
                   dialVars, boundVars>>

MediaDead(c) ==
    /\ media[c] = "running" /\ td[c] = "none"
    /\ StartTeardown(c)
    /\ media' = [media EXCEPT ![c] = "done"]
    /\ UNCHANGED <<asteriskVars, managerVars, extOf, port, held, sock, bridge, withOut, timer, dialVars,
                   boundVars>>

-----------------------------------------------------------------------------
\* teardownAll, and the two who run it.

hasCalls == \E k \in Channels : pending[k] # None \/ active[k] # None

\* hangupRingingOutbound begins with the dialed calls that ring now.
StartPurge(who) ==
    purge' = [purge EXCEPT ![who] = [pc |-> "ringing", todo |-> {ch \in Dialed : Ringing(ch)}, cur |-> None]]

\* watchConnectivity: one poll (those that see no change do nothing).
Poll ==
    /\ purge["watcher"].pc = "off"
    /\ loop.pc # "stopped"
    /\ connected # sawUp
    /\ sawUp' = connected
    /\ IF connected /\ hasCalls THEN StartPurge("watcher") ELSE UNCHANGED purge
    /\ UNCHANGED <<asteriskVars, pending, active, outbound, used, gauge, loop, callVars, dialVars, boundVars>>

\* The process is told to stop: the loop ends with teardownAll.
Shutdown ==
    /\ AllowShutdown
    /\ loop.pc = "idle"
    /\ LoopTo("stopped", None)
    /\ StartPurge("loop")
    /\ UNCHANGED <<asteriskVars, pending, active, outbound, used, gauge, sawUp, callVars, dialVars, boundVars>>

PurgeRinging(who) ==
    /\ purge[who].pc = "ringing"
    /\ \E ch \in purge[who].todo :
        /\ purge' = [purge EXCEPT ![who].todo = @ \ {ch}]
        /\ IF Ringing(ch) THEN TakeRinging(ch) /\ Hangup(ch)
                          ELSE UNCHANGED <<outbound, watchdog, done, chan, queue>>
    /\ UNCHANGED <<bridgeUp, connected, pending, active, used, gauge, loop, sawUp, callVars, dial, answered,
                   agentStarted, boundVars>>

\* Every tracked call is collected and both maps are emptied, under the lock.
PurgeCollect(who) ==
    /\ purge[who].pc = "ringing" /\ purge[who].todo = {}
    /\ LET tracked == {c \in Channels : \E k \in Channels : pending[k] = c \/ active[k] = c} IN
       purge' = [purge EXCEPT ![who] = [pc |-> "teardown", todo |-> tracked, cur |-> None]]
    /\ pending' = [k \in Channels |-> None]
    /\ active' = [k \in Channels |-> None]
    /\ UNCHANGED <<asteriskVars, outbound, used, gauge, loop, sawUp, callVars, dialVars, boundVars>>

\* One teardown after the other.
PurgeCall(who) ==
    /\ purge[who].pc = "teardown" /\ purge[who].cur = None
    /\ \E c \in purge[who].todo :
        /\ purge' = [purge EXCEPT ![who].todo = @ \ {c}, ![who].cur = c]
        /\ StartTeardown(c)
    /\ UNCHANGED <<asteriskVars, pending, active, outbound, used, gauge, loop, sawUp, extOf, port, held, sock,
                   bridge, withOut, timer, media, dialVars, boundVars>>

PurgeNext(who) ==
    /\ purge[who].pc = "teardown"
    /\ IF purge[who].cur = None THEN purge[who].todo = {} ELSE td[purge[who].cur] = "done"
    /\ purge' = [purge EXCEPT ![who] = IF @.todo = {} THEN NoPurge ELSE [@ EXCEPT !.cur = None]]
    /\ UNCHANGED <<asteriskVars, pending, active, outbound, used, gauge, loop, sawUp, callVars, dialVars,
                   boundVars>>

-----------------------------------------------------------------------------
\* Manager.Dial, on the campaign's goroutine, and the ring watchdog.

DialStart(ch) ==
    /\ dial[ch] = "none" /\ loop.pc # "stopped"
    /\ dial' = [dial EXCEPT ![ch] = "originating"]
    /\ outbound' = outbound \cup {ch}
    /\ UNCHANGED <<asteriskVars, pending, active, used, gauge, loop, sawUp, purge, callVars, watchdog,
                   answered, agentStarted, done, boundVars>>

\* Asterisk carries the request out (external).
Originate(ch) ==
    /\ dial[ch] = "originating" /\ chan[ch] = "none"
    /\ chan' = [chan EXCEPT ![ch] = "ringing"]
    /\ UNCHANGED <<bridgeUp, connected, queue, managerVars, callVars, dialVars, boundVars>>

DialOk(ch) ==
    /\ dial[ch] = "originating" /\ chan[ch] # "none"
    /\ dial' = [dial EXCEPT ![ch] = "placed"]
    /\ watchdog' = [watchdog EXCEPT ![ch] = Ringing(ch)]
    /\ UNCHANGED <<asteriskVars, managerVars, callVars, answered, agentStarted, done, boundVars>>

\* Asterisk refused, or (a fault) it dialed and its answer was lost.
DialErr(ch) ==
    /\ dial[ch] = "originating"
    /\ IF chan[ch] = "none" THEN NoFault ELSE Fault
    /\ dial' = [dial EXCEPT ![ch] = "error"]
    /\ outbound' = outbound \ {ch}
    /\ UNCHANGED <<asteriskVars, pending, active, used, gauge, loop, sawUp, purge, callVars, watchdog,
                   answered, agentStarted, done, drops>>

\* outboundTimedOut.
WatchdogFires(ch) ==
    /\ watchdog[ch] /\ Ringing(ch)
    /\ TakeRinging(ch)
    /\ Hangup(ch)
    /\ UNCHANGED <<bridgeUp, connected, pending, active, used, gauge, loop, sawUp, purge, callVars, dial,
                   answered, agentStarted, boundVars>>

-----------------------------------------------------------------------------
Init ==
    /\ chan = [k \in Channels |-> "none"]
    /\ bridgeUp = {} /\ connected = TRUE /\ queue = <<>>
    /\ pending = [k \in Channels |-> None] /\ active = [k \in Channels |-> None]
    /\ outbound = {} /\ used = {} /\ gauge = 0
    /\ loop = Idle
    /\ sawUp = TRUE /\ purge = [who \in Purgers |-> NoPurge]
    /\ sess = [c \in Channels |-> "none"]
    /\ extOf = [c \in Channels |-> None] /\ port = [c \in Channels |-> None]
    /\ held = [c \in Channels |-> FALSE] /\ sock = [c \in Channels |-> FALSE]
    /\ bridge = [c \in Channels |-> FALSE] /\ withOut = [c \in Channels |-> FALSE]
    /\ timer = [c \in Channels |-> FALSE]
    /\ td = [c \in Channels |-> "none"] /\ media = [c \in Channels |-> "none"]
    /\ dial = [ch \in Dialed |-> "none"]
    /\ watchdog = [ch \in Dialed |-> FALSE] /\ answered = [ch \in Dialed |-> FALSE]
    /\ agentStarted = [ch \in Dialed |-> FALSE] /\ done = [ch \in Dialed |-> "none"]
    /\ faults = 0 /\ drops = 0

LoopStep ==
    \/ OnExternalStart \/ OnCallerStart \/ OnOutboundAnswered
    \/ StartCall \/ CreateExt \/ BridgeCall \/ Activate
    \/ OnActiveEnd \/ LoopTeardown \/ OnStagedEnd \/ OnOtherEnd \/ OnOutboundDestroyed

TeardownStep(c) == TdMaps(c) \/ TdLegs(c) \/ TdPorts(c)

MediaStep(c) == MediaAccept(c) \/ MediaBuild(c) \/ MediaAssign(c) \/ MediaSetState(c) \/ MediaEnds(c)

PurgeStep(who) == PurgeRinging(who) \/ PurgeCollect(who) \/ PurgeCall(who) \/ PurgeNext(who)

Next ==
    \/ \E ch \in Channels : CallerArrives(ch) \/ CalleeAnswers(ch) \/ ChannelEnds(ch)
    \/ WebSocketDrops \/ WebSocketReturns
    \/ LoopStep
    \/ \E c \in Channels : TeardownStep(c) \/ MediaStep(c) \/ MediaDead(c) \/ TimerFires(c)
    \/ Poll \/ Shutdown
    \/ \E who \in Purgers : PurgeStep(who)
    \/ \E ch \in Dialed : DialStart(ch) \/ Originate(ch) \/ DialOk(ch) \/ DialErr(ch) \/ WatchdogFires(ch)

Spec == Init /\ [][Next]_vars

\* Goroutines run; ARI requests are answered; armed timers fire; a call that
\* rings or talks ends; media whose caller is gone is found dead.
Fairness ==
    /\ WF_vars(LoopStep) /\ WF_vars(Poll) /\ WF_vars(WebSocketReturns)
    /\ \A c \in Channels : /\ WF_vars(TeardownStep(c)) /\ WF_vars(MediaStep(c)) /\ WF_vars(TimerFires(c))
                            /\ WF_vars(MediaDead(c) /\ chan[c] = "gone")
                            /\ WF_vars(c \in Dialed /\ ChannelEnds(c))
    /\ \A who \in Purgers : WF_vars(PurgeStep(who))
    /\ \A ch \in Dialed : WF_vars(DialOk(ch) \/ DialErr(ch)) /\ WF_vars(WatchdogFires(ch))

FairSpec == Spec /\ Fairness

-----------------------------------------------------------------------------
\* Properties.

\* The type of every variable.
TypeOK ==
    /\ chan \in [Channels -> {"none", "ringing", "stasis", "gone"}]
    /\ bridgeUp \subseteq Channels /\ connected \in BOOLEAN
    /\ queue \in Seq(Events)
    /\ pending \in [Channels -> Channels \cup {None}] /\ active \in [Channels -> Channels \cup {None}]
    /\ outbound \subseteq Dialed /\ used \subseteq Ports /\ gauge \in Int
    /\ loop \in [pc : LoopPcs, ch : Channels \cup {None}]
    /\ sawUp \in BOOLEAN
    /\ purge \in [Purgers -> [pc : {"off", "ringing", "teardown"}, todo : SUBSET Channels,
                               cur : Channels \cup {None}]]
    /\ sess \in [Channels -> {"none", "staged", "bridged", "mediaactive", "torndown"}]
    /\ extOf \in [Channels -> ExtIds \cup {None}] /\ port \in [Channels -> Ports \cup {None}]
    /\ held \in [Channels -> BOOLEAN] /\ sock \in [Channels -> BOOLEAN]
    /\ bridge \in [Channels -> BOOLEAN] /\ withOut \in [Channels -> BOOLEAN]
    /\ timer \in [Channels -> BOOLEAN]
    /\ td \in [Channels -> TdPcs] /\ media \in [Channels -> MediaPcs]
    /\ dial \in [Dialed -> {"none", "originating", "placed", "error"}]
    /\ watchdog \in [Dialed -> BOOLEAN] /\ answered \in [Dialed -> BOOLEAN]
    /\ agentStarted \in [Dialed -> BOOLEAN] /\ done \in [Dialed -> {"none", "notconnected", "connected"}]
    /\ faults \in 0..MaxFaults /\ drops \in 0..MaxDrops

\* PortAllocator: two calls that have not given their port back never have the
\* same one.
PortsExclusive ==
    \A c, e \in Channels : held[c] /\ held[e] /\ port[c] = port[e] => c = e

Tracked(c) == \/ pending[c] = c /\ pending[extOf[c]] = c
              \/ active[c] = c /\ active[extOf[c]] = c

\* A caller's call whose cleanup nobody has begun is one the event loop has in
\* hand, a purge is about to end, or a StasisEnd of either leg finds.
CallsFindable ==
    \A c \in Inbound \cup Dialed : held[c] /\ td[c] = "none" =>
        loop.ch = c \/ Tracked(c) \/ \E who \in Purgers : c \in purge[who].todo

\* Nothing is under way and nothing is left to happen by itself.
Quiet ==
    /\ \A k \in Channels : chan[k] \in {"none", "gone"}
    /\ loop.pc = "stopped" \/ (loop.pc = "idle" /\ queue = <<>>)
    /\ connected = sawUp /\ \A who \in Purgers : purge[who].pc = "off"
    /\ \A c \in Channels : td[c] \in {"none", "done"} /\ media[c] \in {"none", "done"} /\ ~timer[c]
    /\ \A ch \in Dialed : dial[ch] # "originating" /\ ~(watchdog[ch] /\ Ringing(ch))

\* Once every channel is gone and everything has run, no port, socket, bridge or
\* map entry is left, and every call that was placed has had its Done.
NothingLeaks ==
    Quiet => /\ used = {} /\ bridgeUp = {}
             /\ \A k \in Channels : pending[k] = None /\ active[k] = None /\ ~sock[k]
             /\ outbound = {}
             /\ \A ch \in Dialed : dial[ch] = "placed" => done[ch] # "none"

\* completeBridge and teardown: CallsActive counts the bridged calls whose
\* teardown has not finished, each Dec paired with its Inc.
GaugeCountsCalls == gauge = Cardinality({c \in Channels : bridge[c] /\ td[c] # "done"})

\* onStasisStart: while ARI requests succeed, an externalMedia leg that enters
\* Stasis is never taken for a new caller and given a call of its own.
MediaLegNeverACaller == faults = 0 => \A x \in ExtIds : sess[x] = "none"

\* DialRequest.Done: once it has been called, the callee's phone neither rings
\* nor talks, so the slot it releases is really free.
DoneMeansOver == \A ch \in Dialed : done[ch] # "none" => chan[ch] \notin {"ringing", "stasis"}

\* No WebSocket drop and no shutdown so far, no call under a duration limit.
Undisturbed == drops = 0 /\ loop.pc # "stopped" /\ \A c \in Limited : extOf[c] = None

\* What the manager promises while undisturbed, each part of which a purge or
\* duration timer that meets a call before it is bridged breaks (see the README):
\* abort and teardown leave no port, socket, bridge or map entry and every dialed
\* call has its Done; CallsActive counts the bridged calls; an externalMedia leg is
\* not taken for a caller; a dialed call reported done neither rings nor talks.
FaultsSettle ==
    /\ TypeOK
    /\ Undisturbed => NothingLeaks /\ GaugeCountsCalls /\ MediaLegNeverACaller /\ DoneMeansOver

\* When the caller of a call that holds a port is gone, the port is freed.
HangupFreesPort ==
    \A c \in Inbound \cup Dialed : (held[c] /\ chan[c] = "gone") ~> ~held[c]

\* Every call Dial placed gets its Done: answered or not, torn down or timed out.
OutcomeDelivered == \A ch \in Dialed : (dial[ch] = "placed") ~> (done[ch] # "none")

\* Every call is settled: its port is free again, its Done delivered, nothing left.
CallsSettle == []NothingLeaks /\ HangupFreesPort /\ OutcomeDelivered
=============================================================================
