------------------------------ MODULE CallLife ------------------------------
(***************************************************************************)
(* What either call manager (internal/ari, internal/freeswitch) promises   *)
(* of its calls: a channel has at most one call at a time, a call begins   *)
(* only on a channel the switch has had, begins and ends once, the         *)
(* active-calls gauge counts exactly the calls in between, and a call whose*)
(* channel is gone is ended.  CallManagerLife and FreeSwitchLife show that *)
(* CallManager and FreeSwitch implement it.                                *)
(***************************************************************************)
EXTENDS Naturals

CONSTANTS
    Calls,
    Channels

VARIABLES
    channel,    \* the switch's channels: none, up, gone
    on,         \* the channel of a call
    life,       \* a call: none, live, over
    gauge       \* metrics.CallsActive

callVars == <<on, life, gauge>>
vars == <<channel, callVars>>

Init ==
    /\ channel = [c \in Channels |-> "none"]
    /\ life = [k \in Calls |-> "none"]
    /\ gauge = 0

\* The switch opens and ends channels, for reasons of its own or ours; a
\* channel that is gone never comes back.
ChannelsMove ==
    \A c \in Channels :
        channel'[c] # channel[c] => <<channel[c], channel'[c]>> \in {<<"none", "up">>, <<"up", "gone">>}

\* A call is given its channel before it begins.
Assign(k) ==
    /\ life[k] = "none"
    /\ \A j \in Calls \ {k} : on'[j] = on[j]
    /\ UNCHANGED <<life, gauge>>

Begin(k) ==
    /\ life[k] = "none"
    /\ on[k] \in Channels /\ channel[on[k]] # "none"
    /\ \A j \in Calls : life[j] = "live" => on[j] # on[k]
    /\ life' = [life EXCEPT ![k] = "live"]
    /\ gauge' = gauge + 1
    /\ UNCHANGED on

End(k) ==
    /\ life[k] = "live"
    /\ life' = [life EXCEPT ![k] = "over"]
    /\ gauge' = gauge - 1
    /\ UNCHANGED on

Next ==
    /\ ChannelsMove
    /\ UNCHANGED callVars \/ \E k \in Calls : Assign(k) \/ Begin(k) \/ End(k)

Spec == Init /\ [][Next]_vars

\* A call whose channel is gone ends.
GoneEndsCalls ==
    \A k \in Calls :
        (life[k] = "live" /\ on[k] \in Channels /\ channel[on[k]] = "gone") ~> (life[k] = "over")

\* What a manager promises of its calls.
Promise == Spec /\ GoneEndsCalls
=============================================================================
