---------------------------- MODULE EventSocket ----------------------------
(***************************************************************************)
(* One FreeSWITCH Event Socket connection: internal/esl/esl.go.  Goroutines*)
(* that Send commands, the reader (readLoop), the event pump (pumpEvents)  *)
(* and the consumer of Events() share the connection with the switch, which*)
(* answers commands in order and sends events when it likes.               *)
(*                                                                         *)
(* A command and its reply carry the sender's name, an event its number;   *)
(* headers and bodies are left out.  Dial's handshake runs before any of   *)
(* these goroutines; a command containing a line break is refused before   *)
(* it touches the connection.                                              *)
(***************************************************************************)
EXTENDS Integers, Sequences

CONSTANTS
    NoSender,
    Senders,        \* goroutines, each sending one command: 1, 2, ... as they call Send
    MaxEvents       \* bound: events the switch sends

ASSUME EventSocketAssumption == NoSender \notin Senders /\ Senders \subseteq Nat /\ MaxEvents \in Nat

VARIABLES
    linkOpen,       \* c.done is not closed
    atSwitch,       \* commands the switch has not answered
    wire,           \* messages on their way to the reader
    sentEvents,     \* events the switch has sent
    reader,         \* readLoop is running
    cmdMu,          \* the sender holding the mutex
    replies,        \* the reply channel, of capacity one
    qEvents, qReady,  \* events read and not taken by the pump; its wake-up
    pump, batch,    \* pumpEvents: its step and the events it took
    sender,         \* a sender: idle, waiting, locked, sent, ok, failed
    got,            \* the reply a sender returned with
    delivered       \* events the consumer received

linkVars == <<linkOpen, atSwitch, wire, sentEvents>>
pumpVars == <<qEvents, qReady, pump, batch, delivered>>
sendVars == <<cmdMu, sender, got>>
socketVars == <<linkVars, reader, replies, pumpVars, sendVars>>

Message(type, of) == [type |-> type, of |-> of]

-----------------------------------------------------------------------------
\* The switch (external).

SwitchAnswers ==
    /\ linkOpen /\ atSwitch # <<>>
    /\ atSwitch' = Tail(atSwitch)
    /\ wire' = Append(wire, Message("reply", Head(atSwitch)))
    /\ UNCHANGED <<linkOpen, sentEvents, reader, replies, pumpVars, sendVars>>

SwitchEvent ==
    /\ linkOpen /\ sentEvents < MaxEvents
    /\ sentEvents' = sentEvents + 1
    /\ wire' = Append(wire, Message("event", sentEvents'))
    /\ UNCHANGED <<linkOpen, atSwitch, reader, replies, pumpVars, sendVars>>

SwitchDisconnects ==
    /\ linkOpen /\ \A i \in DOMAIN wire : wire[i].type # "notice"
    /\ wire' = Append(wire, Message("notice", 0))
    /\ UNCHANGED <<linkOpen, atSwitch, sentEvents, reader, replies, pumpVars, sendVars>>

-----------------------------------------------------------------------------
\* fail, called by Close too: only the first call counts.
Fail == linkOpen' = FALSE

\* A reply nobody waits for finds the channel full: the connection is out of
\* step.
PutReply(m) == IF replies = <<>> THEN replies' = <<m.of>> /\ UNCHANGED linkOpen
                                 ELSE Fail /\ UNCHANGED replies

IsEvent(m) == m.type = "event"

\* readLoop: one message.  What was received before the connection closed can
\* still be read.
ReaderReads ==
    /\ reader /\ wire # <<>>
    /\ wire' = Tail(wire)
    /\ LET m == Head(wire) IN
       \/ /\ m.type = "reply" /\ PutReply(m)
          /\ reader' = (replies = <<>>)
          /\ UNCHANGED <<qEvents, qReady>>
       \/ /\ IsEvent(m)
          /\ qEvents' = Append(qEvents, m.of) /\ qReady' = TRUE
          /\ UNCHANGED <<linkOpen, reader, replies>>
       \/ /\ m.type \notin {"reply", "event"}
          /\ Fail /\ reader' = FALSE
          /\ UNCHANGED <<replies, qEvents, qReady>>
    /\ UNCHANGED <<atSwitch, sentEvents, pump, batch, delivered, sendVars>>

\* The connection breaks, or a read on a closed one fails.
ReaderFails ==
    /\ reader
    /\ reader' = FALSE /\ Fail
    /\ UNCHANGED <<atSwitch, wire, sentEvents, replies, pumpVars, sendVars>>

-----------------------------------------------------------------------------
\* pumpEvents.

PumpTakes ==
    /\ pump = "take"
    /\ batch' = qEvents /\ qEvents' = <<>>
    /\ pump' = "deliver"
    /\ UNCHANGED <<linkVars, reader, replies, qReady, delivered, sendVars>>

PumpDelivers ==
    /\ pump = "deliver" /\ batch # <<>>
    /\ delivered' = Append(delivered, Head(batch))
    /\ batch' = Tail(batch)
    /\ UNCHANGED <<linkVars, reader, replies, qEvents, qReady, pump, sendVars>>

\* Mutant: the wake-up is cleared when going to sleep.
PumpSleepsDeaf ==
    /\ pump = "deliver" /\ batch = <<>>
    /\ pump' = "wait" /\ qReady' = FALSE
    /\ UNCHANGED <<linkVars, reader, replies, qEvents, batch, delivered, sendVars>>

PumpSleeps ==
    /\ pump = "deliver" /\ batch = <<>>
    /\ pump' = "wait"
    /\ UNCHANGED <<linkVars, reader, replies, qEvents, qReady, batch, delivered, sendVars>>

PumpWakes ==
    /\ pump = "wait" /\ qReady
    /\ qReady' = FALSE /\ pump' = "take"
    /\ UNCHANGED <<linkVars, reader, replies, qEvents, batch, delivered, sendVars>>

\* Mutant: done is looked at only while delivering.
PumpEndsBusy ==
    /\ ~linkOpen
    /\ pump = "deliver" /\ batch # <<>>
    /\ pump' = "ended"
    /\ UNCHANGED <<linkVars, reader, replies, qEvents, qReady, batch, delivered, sendVars>>

\* It sees done at either select, and the events channel closes.
PumpEnds ==
    /\ ~linkOpen
    /\ pump = "wait" \/ (pump = "deliver" /\ batch # <<>>)
    /\ pump' = "ended"
    /\ UNCHANGED <<linkVars, reader, replies, qEvents, qReady, batch, delivered, sendVars>>

-----------------------------------------------------------------------------
\* Send.

CallSend(s) ==
    /\ sender[s] = "idle" /\ \A t \in Senders : t < s => sender[t] # "idle"
    /\ sender' = [sender EXCEPT ![s] = "waiting"]
    /\ UNCHANGED <<linkVars, reader, replies, pumpVars, cmdMu, got>>

Lock(s) ==
    /\ sender[s] = "waiting" /\ cmdMu = NoSender
    /\ cmdMu' = s
    /\ sender' = [sender EXCEPT ![s] = "locked"]
    /\ UNCHANGED <<linkVars, reader, replies, pumpVars, got>>

Return(s, how) ==
    /\ sender' = [sender EXCEPT ![s] = how]
    /\ cmdMu' = NoSender

\* The connection was gone already, or the write fails.
WriteFails(s) ==
    /\ sender[s] = "locked"
    /\ Fail /\ Return(s, "failed")
    /\ UNCHANGED <<atSwitch, wire, sentEvents, reader, replies, pumpVars, got>>

Write(s) ==
    /\ sender[s] = "locked" /\ linkOpen
    /\ atSwitch' = Append(atSwitch, s)
    /\ sender' = [sender EXCEPT ![s] = "sent"]
    /\ UNCHANGED <<linkOpen, wire, sentEvents, reader, replies, pumpVars, cmdMu, got>>

Reply(s) ==
    /\ sender[s] = "sent" /\ replies # <<>>
    /\ got' = [got EXCEPT ![s] = Head(replies)]
    /\ replies' = <<>>
    /\ Return(s, "ok")
    /\ UNCHANGED <<linkVars, reader, pumpVars>>

SeesDone(s) ==
    /\ sender[s] = "sent" /\ ~linkOpen
    /\ Return(s, "failed")
    /\ UNCHANGED <<linkVars, reader, replies, pumpVars, got>>

\* Mutant: the command's timeout leaves the connection open.
TimesOutOnly(s) ==
    /\ sender[s] = "sent"
    /\ Return(s, "failed")
    /\ UNCHANGED <<linkVars, reader, replies, pumpVars, got>>

TimesOut(s) ==
    /\ sender[s] = "sent"
    /\ Fail /\ Return(s, "failed")
    /\ UNCHANGED <<atSwitch, wire, sentEvents, reader, replies, pumpVars, got>>

-----------------------------------------------------------------------------
SocketInit ==
    /\ linkOpen = TRUE /\ atSwitch = <<>> /\ wire = <<>> /\ sentEvents = 0
    /\ reader = TRUE /\ replies = <<>>
    /\ qEvents = <<>> /\ qReady = FALSE /\ pump = "take" /\ batch = <<>> /\ delivered = <<>>
    /\ cmdMu = NoSender
    /\ sender = [s \in Senders |-> "idle"]
    /\ got = [s \in Senders |-> NoSender]

SenderSteps(s) == WriteFails(s) \/ Write(s) \/ Reply(s) \/ SeesDone(s) \/ TimesOut(s)
PumpNext == PumpTakes \/ PumpDelivers \/ PumpSleeps \/ PumpWakes \/ PumpEnds

SocketNext ==
    \/ SwitchAnswers \/ SwitchEvent \/ SwitchDisconnects
    \/ ReaderReads \/ ReaderFails
    \/ PumpTakes \/ PumpDelivers \/ PumpSleeps \/ PumpWakes \/ PumpEnds
    \/ \E s \in Senders :
        CallSend(s) \/ Lock(s) \/ WriteFails(s) \/ Write(s) \/ Reply(s) \/ SeesDone(s) \/ TimesOut(s)

SocketSpec == SocketInit /\ [][SocketNext]_socketVars

\* Goroutines run, the consumer keeps receiving, every command has a timeout;
\* nothing is asked of the switch.
SocketFairness ==
    /\ WF_socketVars(ReaderReads) /\ WF_socketVars(PumpNext)
    /\ \A s \in Senders : SF_socketVars(Lock(s)) /\ WF_socketVars(SenderSteps(s))

FairSocketSpec == SocketSpec /\ SocketFairness

-----------------------------------------------------------------------------
SocketTypeOK ==
    /\ linkOpen \in BOOLEAN /\ reader \in BOOLEAN /\ qReady \in BOOLEAN
    /\ atSwitch \in Seq(Senders) /\ sentEvents \in 0 .. MaxEvents
    /\ wire \in Seq([type : {"reply", "event", "notice"}, of : Senders \cup (0 .. MaxEvents)])
    /\ replies \in Seq(Senders) /\ Len(replies) <= 1
    /\ qEvents \in Seq(1 .. MaxEvents) /\ batch \in Seq(1 .. MaxEvents) /\ delivered \in Seq(1 .. MaxEvents)
    /\ pump \in {"take", "deliver", "wait", "ended"}
    /\ cmdMu \in Senders \cup {NoSender}
    /\ sender \in [Senders -> {"idle", "waiting", "locked", "sent", "ok", "failed"}]
    /\ got \in [Senders -> Senders \cup {NoSender}]

\* "each gets its own reply": no command returns with the late reply of one
\* that timed out before it.
OwnReply == \A s \in Senders : got[s] \in {NoSender, s}

\* "Events are delivered in the order FreeSWITCH sent them": none skipped, none
\* twice, whatever is lost at the end when the connection fails.
EventsInOrder == \A i \in DOMAIN delivered : delivered[i] = i

\* pumpEvents: an event the reader queued reaches the consumer, in its place,
\* unless the connection is gone; the wake-up between the two is never lost.
EventsArrive ==
    /\ [](SocketTypeOK /\ EventsInOrder)
    /\ \A n \in 1 .. MaxEvents : (\E i \in DOMAIN qEvents : qEvents[i] = n)
                                  ~> (~linkOpen \/ \E i \in DOMAIN delivered : delivered[i] = n)

\* Once the connection is gone Events() is closed, so eslLoop reconnects.
EventsClose == ~linkOpen ~> (pump = "ended")

\* Send returns, though the switch never answer and others wait for the mutex.
SendReturns == \A s \in Senders : (sender[s] = "waiting") ~> (sender[s] \in {"ok", "failed"})

\* Nobody waits for ever on a connection that is gone or silent.
LossIsNoticed == EventsClose /\ SendReturns
=============================================================================
