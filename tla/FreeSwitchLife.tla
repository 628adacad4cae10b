--------------------------- MODULE FreeSwitchLife ---------------------------
(***************************************************************************)
(* FreeSwitch implements CallLife: a call is an earshot connection, live   *)
(* from the start of runCall to its end.                                   *)
(***************************************************************************)
EXTENDS FreeSwitch

LifeOf(k) ==
    CASE handler[k] \in {"running", "ended"} -> "live"
      [] handler[k] = "done" -> "over"
      [] OTHER -> "none"

Life == INSTANCE CallLife WITH
    Calls <- Conns, Channels <- Ids, channel <- chan, life <- [k \in Conns |-> LifeOf(k)]

\* Every step of the manager is a step of CallLife or a stutter: one call per
\* channel, each begun and ended once, CallsActive exact; and a call whose
\* channel is gone ends, though the hangup event be lost: by the socket, the
\* watchdog or the duration limit.
ImplementsCallLife == Life!Promise
=============================================================================
