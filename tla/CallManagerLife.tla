-------------------------- MODULE CallManagerLife --------------------------
(***************************************************************************)
(* CallManager implements CallLife: a call is named by its channel, live   *)
(* from completeBridge to the end of its teardown.                         *)
(***************************************************************************)
EXTENDS CallManager

ChannelOf(ch) ==
    CASE chan[ch] \in {"ringing", "stasis"} -> "up"
      [] OTHER -> chan[ch]

LifeOf(c) ==
    IF ~bridge[c] THEN "none" ELSE IF td[c] = "done" THEN "over" ELSE "live"

Life == INSTANCE CallLife WITH
    Calls <- Channels, on <- [c \in Channels |-> c],
    channel <- [ch \in Channels |-> ChannelOf(ch)], life <- [c \in Channels |-> LifeOf(c)]

\* Every step of the manager is a step of CallLife or a stutter: a call is
\* bridged at most once, on a channel Asterisk had, CallsActive is exact, and a
\* bridged call whose channel is gone is torn down.
ImplementsCallLife == Life!Promise
=============================================================================
