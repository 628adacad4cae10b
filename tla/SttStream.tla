----------------------------- MODULE SttStream -----------------------------
(***************************************************************************)
(* The speech-to-text stream of a call: internal/ai/stt/sarvam.go.  The    *)
(* media tick (Feed) and the agent (Flush) write to the connection, a      *)
(* receiveLoop per connection reads from it, one background goroutine at a *)
(* time redials, and the end of the call closes it.  A step ends at every  *)
(* section under connMu, at the reconnecting flag and at network calls.    *)
(*                                                                         *)
(* Connections are numbered as they are dialed, 0 is nil; what travels over*)
(* them is left out.                                                       *)
(***************************************************************************)
EXTENDS Integers

CONSTANTS
    SttUsers,       \* goroutines that write: Feed's and Flush's
    MaxSttConns,    \* bound: connections dialed
    MaxSttFaults    \* bound: connections lost and dials that fail

ASSUME SttAssumption == MaxSttConns \in Nat \ {0} /\ MaxSttFaults \in Nat

SttConns == 1 .. MaxSttConns

VARIABLES
    sttCtx,         \* the call's ctx is live
    stream,         \* each connection: none, open, lost (by the provider), closed (by us)
    conn, sttClosed,
    backoff,        \* nextDialAt has not come
    reconnecting,
    dialer,         \* the redial goroutine: idle, dialing, connected, returning
    dialed,         \* connections dialed so far
    receiver,       \* receiveLoop of each connection is running
    user, holds,    \* a writer: idle, holding (the conn it read), nilconn
    sttFaults

connVarsStt == <<stream, conn, sttClosed, dialed, receiver>>
redialVars == <<backoff, reconnecting, dialer>>
userVars == <<user, holds>>
sttVars == <<sttCtx, connVarsStt, redialVars, userVars, sttFaults>>

SttFault == sttFaults < MaxSttFaults /\ sttFaults' = sttFaults + 1

\* Close of one websocket.
Closed(c) == IF stream[c] = "open" THEN [stream EXCEPT ![c] = "closed"] ELSE stream

-----------------------------------------------------------------------------
\* The provider (external).
StreamLost(c) ==
    /\ stream[c] = "open" /\ SttFault
    /\ stream' = [stream EXCEPT ![c] = "lost"]
    /\ UNCHANGED <<sttCtx, conn, sttClosed, dialed, receiver, redialVars, userVars>>

-----------------------------------------------------------------------------
\* Mutant: whatever connection is current is cleared.
InvalidateAny(c) == conn' = 0 /\ stream' = Closed(c)
\* invalidate: clears conn if it is still the active one, and closes it.
Invalidate(c) == conn' = (IF conn = c THEN 0 ELSE conn) /\ stream' = Closed(c)

\* Feed and Flush: getConn, then a write or triggerReconnect.
GetConn(u) ==
    /\ user[u] = "idle" /\ sttCtx
    /\ user' = [user EXCEPT ![u] = IF conn = 0 THEN "nilconn" ELSE "holding"]
    /\ holds' = [holds EXCEPT ![u] = conn]
    /\ UNCHANGED <<sttCtx, connVarsStt, redialVars, sttFaults>>

WriteGoes(u) ==
    /\ user[u] = "holding" /\ stream[holds[u]] = "open"
    /\ user' = [user EXCEPT ![u] = "idle"]
    /\ UNCHANGED <<sttCtx, connVarsStt, redialVars, holds, sttFaults>>

WriteError(u) ==
    /\ user[u] = "holding" /\ stream[holds[u]] # "open"
    /\ Invalidate(holds[u])
    /\ user' = [user EXCEPT ![u] = "idle"]
    /\ UNCHANGED <<sttCtx, sttClosed, dialed, receiver, redialVars, holds, sttFaults>>

\* One redial at a time, none once closed or before nextDialAt.
TriggerReconnect(u) ==
    /\ user[u] = "nilconn"
    /\ user' = [user EXCEPT ![u] = "idle"]
    /\ IF sttClosed \/ backoff \/ reconnecting
       THEN UNCHANGED redialVars
       ELSE reconnecting' = TRUE /\ dialer' = "dialing" /\ UNCHANGED backoff
    /\ UNCHANGED <<sttCtx, connVarsStt, holds, sttFaults>>

-----------------------------------------------------------------------------
\* The redial goroutine.
DialNotNeeded ==
    /\ dialer = "dialing" /\ ~sttCtx
    /\ dialer' = "returning"
    /\ UNCHANGED <<sttCtx, connVarsStt, backoff, reconnecting, userVars, sttFaults>>

DialConnects ==
    /\ dialer = "dialing" /\ dialed < MaxSttConns
    /\ dialed' = dialed + 1
    /\ stream' = [stream EXCEPT ![dialed'] = "open"]
    /\ dialer' = "connected"
    /\ UNCHANGED <<sttCtx, conn, sttClosed, receiver, backoff, reconnecting, userVars, sttFaults>>

DialError ==
    /\ dialer = "dialing" /\ SttFault
    /\ backoff' = TRUE /\ dialer' = "returning"
    /\ UNCHANGED <<sttCtx, connVarsStt, reconnecting, userVars>>

\* Under connMu: kept, or closed because the call ended meanwhile.
DialSettles ==
    /\ dialer = "connected"
    /\ IF sttClosed
       THEN stream' = Closed(dialed) /\ UNCHANGED <<conn, receiver, backoff>>
       ELSE /\ conn' = dialed /\ receiver' = [receiver EXCEPT ![dialed] = TRUE]
            /\ backoff' = FALSE /\ UNCHANGED stream
    /\ dialer' = "returning"
    /\ UNCHANGED <<sttCtx, sttClosed, dialed, reconnecting, userVars, sttFaults>>

\* The deferred reconnecting.Store(false).
DialReturns ==
    /\ dialer = "returning" /\ dialer' = "idle"
    /\ reconnecting' = FALSE
    /\ UNCHANGED <<sttCtx, connVarsStt, backoff, userVars, sttFaults>>

BackoffPasses ==
    /\ backoff /\ backoff' = FALSE
    /\ UNCHANGED <<sttCtx, connVarsStt, reconnecting, dialer, userVars, sttFaults>>

-----------------------------------------------------------------------------
\* receiveLoop: ReadMessage fails on a connection that is not open, and its
\* invalidate comes whenever the goroutine gets to it.
ReceiverEnds(c) ==
    /\ receiver[c] /\ stream[c] # "open"
    /\ receiver' = [receiver EXCEPT ![c] = FALSE]
    /\ Invalidate(c)
    /\ UNCHANGED <<sttCtx, sttClosed, dialed, redialVars, userVars, sttFaults>>

\* receiveLoop sees the end of ctx, before its next read or at a full Results.
ReceiverLeaves(c) ==
    /\ receiver[c] /\ ~sttCtx
    /\ receiver' = [receiver EXCEPT ![c] = FALSE]
    /\ UNCHANGED <<sttCtx, stream, conn, sttClosed, dialed, redialVars, userVars, sttFaults>>

CallOver ==
    /\ sttCtx /\ sttCtx' = FALSE
    /\ UNCHANGED <<connVarsStt, redialVars, userVars, sttFaults>>

\* Close, by the goroutine that waits for ctx.
CloseStream ==
    /\ ~sttCtx /\ ~sttClosed
    /\ sttClosed' = TRUE /\ conn' = 0
    /\ stream' = IF conn = 0 THEN stream ELSE Closed(conn)
    /\ UNCHANGED <<sttCtx, dialed, receiver, redialVars, userVars, sttFaults>>

-----------------------------------------------------------------------------
\* NewSarvamClient has dialed the first connection.
SttInit ==
    /\ sttCtx = TRUE /\ sttClosed = FALSE /\ conn = 1 /\ dialed = 1
    /\ stream = [c \in SttConns |-> IF c = 1 THEN "open" ELSE "none"]
    /\ receiver = [c \in SttConns |-> c = 1]
    /\ backoff = FALSE /\ reconnecting = FALSE /\ dialer = "idle"
    /\ user = [u \in SttUsers |-> "idle"] /\ holds = [u \in SttUsers |-> 0]
    /\ sttFaults = 0

UserSteps(u) == GetConn(u) \/ WriteGoes(u) \/ WriteError(u) \/ TriggerReconnect(u)
DialerSteps == DialNotNeeded \/ DialConnects \/ DialSettles \/ DialReturns

SttNext ==
    \/ \E c \in SttConns : StreamLost(c) \/ ReceiverEnds(c) \/ ReceiverLeaves(c)
    \/ \E u \in SttUsers : UserSteps(u)
    \/ DialerSteps \/ DialError \/ BackoffPasses \/ CallOver \/ CloseStream

SttSpec == SttInit /\ [][SttNext]_sttVars

\* Frames keep coming, the goroutines run, the clock runs.
SttFairness ==
    /\ \A u \in SttUsers : WF_sttVars(UserSteps(u))
    /\ WF_sttVars(DialerSteps) /\ WF_sttVars(BackoffPasses)
    /\ \A c \in SttConns : WF_sttVars(ReceiverEnds(c))
FairSttSpec == SttSpec /\ SttFairness

-----------------------------------------------------------------------------
\* Types, and the flag: whoever holds the redial has it up.
SttTypeOK ==
    /\ stream \in [SttConns -> {"none", "open", "lost", "closed"}]
    /\ conn \in 0..MaxSttConns /\ dialed \in SttConns /\ holds \in [SttUsers -> 0..MaxSttConns]
    /\ user \in [SttUsers -> {"idle", "holding", "nilconn"}]
    /\ dialer \in {"idle", "dialing", "connected", "returning"}
    /\ dialer # "idle" => reconnecting

\* A failure noticed late, of a connection that was replaced meanwhile, does
\* not take the working one with it: conn is only cleared when the connection
\* itself is gone.
LiveStreamKept == [][conn # 0 /\ conn' = 0 => stream'[conn] # "open"]_sttVars

\* "The call ended while this dial was in flight": once Close has run no
\* connection is current, whatever dial was under way.
NoStreamAfterClose == sttClosed => conn = 0

\* A lost connection is replaced while the call goes on, though frames drop
\* meanwhile: the one-shot redial is taken up again after it failed.
SttReconnects == (conn = 0) ~> (conn # 0 \/ ~sttCtx)

\* During the call a stream is kept or replaced, after it there is none.
StreamKept == [](SttTypeOK /\ NoStreamAfterClose) /\ LiveStreamKept /\ SttReconnects
=============================================================================
