------------------------- MODULE EventSocketProofs -------------------------
(***************************************************************************)
(* What holds of the Event Socket for any number of senders and events: a  *)
(* command never returns with another's reply, and events are delivered in *)
(* the order the switch sent them.                                         *)
(*                                                                         *)
(* A reply carries no name on the wire, so OwnReply rests on OneOutstanding:*)
(* at most one command is between Write and Reply, at the switch, on the   *)
(* wire or in the reply channel, and nothing is while an open connection   *)
(* has nobody waiting.  EventsInOrder rests on EventChain: the delivered   *)
(* events, the pump's batch, the queue and the wire hold consecutive       *)
(* numbers.                                                                *)
(***************************************************************************)
EXTENDS EventSocket, TLAPS

\* Numbers and names where the reader expects them.
WireTyped ==
    \A i \in DOMAIN wire : /\ wire[i].type = "reply" => wire[i].of \in Senders
                           /\ wire[i].type = "event" => wire[i].of \in 1 .. MaxEvents

\* The mutex belongs to the sender between Lock and its return.
MutexHeld == \A s \in Senders : (cmdMu = s) <=> (sender[s] \in {"locked", "sent"})

ReplyOnWire == \E i \in DOMAIN wire : wire[i].type = "reply"

\* Where the one command in progress can be.
OnePlace ==
    /\ Len(atSwitch) <= 1
    /\ atSwitch # <<>> => replies = <<>> /\ ~ReplyOnWire
    /\ replies # <<>> => ~ReplyOnWire
    /\ \A i, j \in DOMAIN wire : wire[i].type = "reply" /\ wire[j].type = "reply" => i = j

\* It is the command of the sender that waits for a reply.
OwnerWaits ==
    \A s \in Senders : sender[s] = "sent" =>
        /\ \A i \in DOMAIN atSwitch : atSwitch[i] = s
        /\ \A i \in DOMAIN wire : wire[i].type = "reply" => wire[i].of = s
        /\ \A i \in DOMAIN replies : replies[i] = s

\* With nobody waiting on an open connection there is none.
QuietWhenOpen ==
    linkOpen /\ (\A s \in Senders : sender[s] # "sent") =>
        atSwitch = <<>> /\ replies = <<>> /\ ~ReplyOnWire

OneOutstanding == OnePlace /\ OwnerWaits /\ QuietWhenOpen

\* Events handed over before those still on the wire.
Received == Len(delivered) + Len(batch) + Len(qEvents)

\* The wire holds the events after those, each once, in increasing order.
WireInOrder ==
    /\ \A i \in DOMAIN wire : IsEvent(wire[i]) => wire[i].of \in Received + 1 .. sentEvents
    /\ \A n \in Received + 1 .. sentEvents : \E i \in DOMAIN wire : IsEvent(wire[i]) /\ wire[i].of = n
    /\ \A i, j \in DOMAIN wire : IsEvent(wire[i]) /\ IsEvent(wire[j]) /\ i < j => wire[i].of < wire[j].of

EventChain ==
    /\ \A i \in DOMAIN batch : batch[i] = Len(delivered) + i
    /\ \A i \in DOMAIN qEvents : qEvents[i] = Len(delivered) + Len(batch) + i
    /\ Received <= sentEvents
    /\ WireInOrder
    /\ pump \in {"take", "wait"} => batch = <<>>

SocketInv == SocketTypeOK /\ WireTyped /\ MutexHeld /\ OneOutstanding /\ OwnReply
ChainInv == EventChain /\ EventsInOrder

-----------------------------------------------------------------------------
\* What Append does to a sequence, in terms of its domain.
LEMMA Appended ==
    ASSUME NEW S, NEW q \in Seq(S), NEW e \in S
    PROVE  /\ Append(q, e) \in Seq(S)
           /\ Len(q) \in Nat /\ Len(Append(q, e)) = Len(q) + 1
           /\ DOMAIN q = 1 .. Len(q) /\ DOMAIN Append(q, e) = 1 .. Len(q) + 1
           /\ \A i \in 1 .. Len(q) : Append(q, e)[i] = q[i]
           /\ Append(q, e)[Len(q) + 1] = e
  OBVIOUS

\* What Head and Tail take from a sequence.
LEMMA Taken ==
    ASSUME NEW S, NEW q \in Seq(S), q # <<>>
    PROVE  /\ Head(q) \in S /\ Head(q) = q[1]
           /\ Tail(q) \in Seq(S)
           /\ Len(q) \in Nat /\ Len(q) >= 1 /\ Len(Tail(q)) = Len(q) - 1
           /\ DOMAIN q = 1 .. Len(q) /\ DOMAIN Tail(q) = 1 .. Len(q) - 1
           /\ \A i \in 1 .. Len(q) - 1 : Tail(q)[i] = q[i + 1]
  OBVIOUS

Messages == [type : {"reply", "event", "notice"}, of : Senders \cup (0 .. MaxEvents)]

\* A message the switch sends is one, and keeps the wire typed.
LEMMA WireAppended ==
    ASSUME SocketTypeOK, WireTyped, NEW type \in {"reply", "event", "notice"}, NEW of,
           type = "reply" => of \in Senders,
           type = "event" => of \in 1 .. MaxEvents,
           type = "notice" => of = 0,
           wire' = Append(wire, Message(type, of))
    PROVE  /\ wire' \in Seq(Messages) /\ WireTyped'
           /\ DOMAIN wire = 1 .. Len(wire) /\ DOMAIN wire' = 1 .. Len(wire) + 1
           /\ Len(wire) \in Nat
           /\ \A i \in 1 .. Len(wire) : wire'[i] = wire[i]
           /\ wire'[Len(wire) + 1].type = type /\ wire'[Len(wire) + 1].of = of
<1>1. wire \in Seq(Messages)
  BY DEF SocketTypeOK, Messages
<1>2. /\ Message(type, of) \in Messages
      /\ Message(type, of).type = type /\ Message(type, of).of = of
  BY EventSocketAssumption DEF Message, Messages
<1>3. /\ wire' \in Seq(Messages)
      /\ DOMAIN wire = 1 .. Len(wire) /\ DOMAIN wire' = 1 .. Len(wire) + 1
      /\ Len(wire) \in Nat
      /\ \A i \in 1 .. Len(wire) : wire'[i] = wire[i]
      /\ wire'[Len(wire) + 1] = Message(type, of)
  BY <1>1, <1>2, Appended
<1>4. WireTyped'
  BY <1>2, <1>3 DEF WireTyped
<1>. QED
  BY <1>2, <1>3, <1>4

\* What is left when the reader takes a message.
LEMMA WireTaken ==
    ASSUME SocketTypeOK, WireTyped, wire # <<>>, wire' = Tail(wire)
    PROVE  /\ wire' \in Seq(Messages) /\ WireTyped'
           /\ DOMAIN wire = 1 .. Len(wire) /\ DOMAIN wire' = 1 .. Len(wire) - 1
           /\ Len(wire) \in Nat /\ 1 \in DOMAIN wire
           /\ Head(wire) = wire[1]
           /\ \A i \in 1 .. Len(wire) - 1 : wire'[i] = wire[i + 1]
           /\ wire[1].type = "reply" => wire[1].of \in Senders
           /\ wire[1].type = "event" => wire[1].of \in 1 .. MaxEvents
<1>1. wire \in Seq(Messages)
  BY DEF SocketTypeOK, Messages
<1>2. /\ wire' \in Seq(Messages)
      /\ DOMAIN wire = 1 .. Len(wire) /\ DOMAIN wire' = 1 .. Len(wire) - 1
      /\ Len(wire) \in Nat /\ 1 \in DOMAIN wire
      /\ Head(wire) = wire[1]
      /\ \A i \in 1 .. Len(wire) - 1 : wire'[i] = wire[i + 1]
  BY <1>1, Taken
<1>3. WireTyped'
  BY <1>2 DEF WireTyped
<1>. QED
  BY <1>2, <1>3 DEF WireTyped

\* readLoop's cases: a reply for the channel, one reply too many, an event, a
\* notice.
LEMMA ReaderCases ==
    ASSUME SocketTypeOK, WireTyped, ReaderReads
    PROVE  /\ wire # <<>> /\ wire' = Tail(wire)
           /\ UNCHANGED <<atSwitch, sentEvents, pump, batch, delivered, sendVars>>
           /\ \/ /\ wire[1].type = "reply" /\ replies = <<>>
                 /\ replies' = <<wire[1].of>> /\ reader' = TRUE
                 /\ UNCHANGED <<linkOpen, qEvents, qReady>>
              \/ /\ wire[1].type = "reply" /\ replies # <<>>
                 /\ linkOpen' = FALSE /\ reader' = FALSE
                 /\ UNCHANGED <<replies, qEvents, qReady>>
              \/ /\ wire[1].type = "event"
                 /\ qEvents' = Append(qEvents, wire[1].of) /\ qReady' = TRUE
                 /\ UNCHANGED <<linkOpen, reader, replies>>
              \/ /\ wire[1].type \notin {"reply", "event"}
                 /\ linkOpen' = FALSE /\ reader' = FALSE
                 /\ UNCHANGED <<replies, qEvents, qReady>>
<1>1. wire # <<>> /\ wire' = Tail(wire)
  BY DEF ReaderReads
<1>2. Head(wire) = wire[1]
  BY <1>1, WireTaken
<1>3. UNCHANGED <<atSwitch, sentEvents, pump, batch, delivered, sendVars>>
  BY DEF ReaderReads
<1>4. CASE wire[1].type = "reply" /\ replies = <<>>
  <2>1. /\ PutReply(wire[1]) /\ reader' = (replies = <<>>)
        /\ UNCHANGED <<qEvents, qReady>>
    BY <1>2, <1>4, Zenon DEF ReaderReads, IsEvent
  <2>2. replies' = <<wire[1].of>> /\ UNCHANGED <<linkOpen, qEvents, qReady>>
    BY <1>4, <2>1 DEF PutReply, Fail
  <2>3. reader' = TRUE
    BY <1>4, <2>1, Zenon
  <2>. QED
    BY <1>1, <1>3, <1>4, <2>2, <2>3
<1>5. CASE wire[1].type = "reply" /\ replies # <<>>
  <2>1. /\ PutReply(wire[1]) /\ reader' = (replies = <<>>)
        /\ UNCHANGED <<qEvents, qReady>>
    BY <1>2, <1>5, Zenon DEF ReaderReads, IsEvent
  <2>2. linkOpen' = FALSE /\ UNCHANGED <<replies, qEvents, qReady>>
    BY <1>5, <2>1 DEF PutReply, Fail
  <2>3. reader' = FALSE
    BY <1>5, <2>1, Zenon
  <2>. QED
    BY <1>1, <1>3, <1>5, <2>2, <2>3
<1>6. CASE wire[1].type = "event"
  BY <1>1, <1>2, <1>3, <1>6 DEF ReaderReads, IsEvent
<1>7. CASE wire[1].type \notin {"reply", "event"}
  BY <1>1, <1>2, <1>3, <1>7 DEF ReaderReads, IsEvent, Fail
<1>. QED
  BY <1>4, <1>5, <1>6, <1>7

\* Every step keeps the types of the socket's state.
LEMMA SocketTypeStep == SocketTypeOK /\ WireTyped /\ [SocketNext]_socketVars => SocketTypeOK' /\ WireTyped'
<1>. SUFFICES ASSUME SocketTypeOK, WireTyped, [SocketNext]_socketVars PROVE SocketTypeOK' /\ WireTyped'
  OBVIOUS
<1>. USE EventSocketAssumption DEF socketVars, linkVars, pumpVars, sendVars
<1>1. CASE SwitchAnswers
  <2>1. atSwitch \in Seq(Senders) /\ atSwitch # <<>>
    BY <1>1 DEF SwitchAnswers, SocketTypeOK
  <2>2. Head(atSwitch) \in Senders /\ atSwitch' \in Seq(Senders)
    BY <1>1, <2>1, Taken DEF SwitchAnswers
  <2>3. wire' = Append(wire, Message("reply", Head(atSwitch)))
    BY <1>1 DEF SwitchAnswers
  <2>4. wire' \in Seq(Messages) /\ WireTyped'
    BY <2>2, <2>3, WireAppended
  <2>. QED
    BY <1>1, <2>2, <2>4 DEF SwitchAnswers, SocketTypeOK, Messages
<1>2. CASE SwitchEvent
  <2>1. sentEvents' \in 1 .. MaxEvents
    BY <1>2 DEF SwitchEvent, SocketTypeOK
  <2>2. wire' = Append(wire, Message("event", sentEvents'))
    BY <1>2 DEF SwitchEvent
  <2>3. wire' \in Seq(Messages) /\ WireTyped'
    BY <2>1, <2>2, WireAppended
  <2>. QED
    BY <1>2, <2>1, <2>3 DEF SwitchEvent, SocketTypeOK, Messages
<1>3. CASE SwitchDisconnects
  <2>1. wire' = Append(wire, Message("notice", 0))
    BY <1>3 DEF SwitchDisconnects
  <2>2. wire' \in Seq(Messages) /\ WireTyped'
    BY <2>1, WireAppended
  <2>. QED
    BY <1>3, <2>2 DEF SwitchDisconnects, SocketTypeOK, Messages
<1>4. CASE ReaderReads
  <2>1. /\ wire' \in Seq(Messages) /\ WireTyped'
        /\ wire[1].type = "reply" => wire[1].of \in Senders
        /\ wire[1].type = "event" => wire[1].of \in 1 .. MaxEvents
    BY <1>4, ReaderCases, WireTaken
  <2>2. /\ linkOpen' \in BOOLEAN /\ reader' \in BOOLEAN /\ qReady' \in BOOLEAN
        /\ UNCHANGED <<atSwitch, sentEvents, pump, batch, delivered, sendVars>>
    BY <1>4, ReaderCases DEF SocketTypeOK
  <2>3. replies' \in Seq(Senders) /\ Len(replies') <= 1
    <3>1. CASE replies' = <<wire[1].of>> /\ wire[1].type = "reply"
      BY <2>1, <3>1
    <3>2. CASE UNCHANGED replies
      BY <3>2 DEF SocketTypeOK
    <3>. QED
      BY <1>4, <3>1, <3>2, ReaderCases
  <2>4. qEvents' \in Seq(1 .. MaxEvents)
    <3>1. qEvents \in Seq(1 .. MaxEvents)
      BY DEF SocketTypeOK
    <3>2. CASE qEvents' = Append(qEvents, wire[1].of) /\ wire[1].type = "event"
      BY <2>1, <3>1, <3>2, Appended
    <3>3. CASE UNCHANGED qEvents
      BY <3>1, <3>3
    <3>. QED
      BY <1>4, <3>2, <3>3, ReaderCases
  <2>. QED
    BY <2>1, <2>2, <2>3, <2>4 DEF SocketTypeOK, Messages
<1>5. CASE ReaderFails
  BY <1>5 DEF ReaderFails, Fail, SocketTypeOK, WireTyped
<1>6. CASE PumpTakes \/ PumpSleeps \/ PumpWakes \/ PumpEnds
  <2>1. CASE PumpTakes
    BY <2>1 DEF PumpTakes, SocketTypeOK, WireTyped
  <2>2. CASE PumpSleeps
    BY <2>2 DEF PumpSleeps, SocketTypeOK, WireTyped
  <2>3. CASE PumpWakes
    BY <2>3 DEF PumpWakes, SocketTypeOK, WireTyped
  <2>4. CASE PumpEnds
    BY <2>4 DEF PumpEnds, SocketTypeOK, WireTyped
  <2>. QED
    BY <1>6, <2>1, <2>2, <2>3, <2>4
<1>7. CASE PumpDelivers
  <2>1. Head(batch) \in 1 .. MaxEvents /\ batch' \in Seq(1 .. MaxEvents)
    BY <1>7, Taken DEF PumpDelivers, SocketTypeOK
  <2>2. delivered' \in Seq(1 .. MaxEvents)
    BY <1>7, <2>1 DEF PumpDelivers, SocketTypeOK
  <2>. QED
    BY <1>7, <2>1, <2>2 DEF PumpDelivers, SocketTypeOK, WireTyped
<1>8. ASSUME NEW s \in Senders, CallSend(s) \/ Lock(s) PROVE SocketTypeOK' /\ WireTyped'
  BY <1>8 DEF CallSend, Lock, SocketTypeOK, WireTyped
<1>9. ASSUME NEW s \in Senders, Write(s) PROVE SocketTypeOK' /\ WireTyped'
  BY <1>9 DEF Write, SocketTypeOK, WireTyped
<1>10. ASSUME NEW s \in Senders, WriteFails(s) \/ SeesDone(s) \/ TimesOut(s)
       PROVE SocketTypeOK' /\ WireTyped'
  BY <1>10 DEF WriteFails, SeesDone, TimesOut, Return, Fail, SocketTypeOK, WireTyped
<1>11. ASSUME NEW s \in Senders, Reply(s) PROVE SocketTypeOK' /\ WireTyped'
  <2>1. Head(replies) \in Senders
    BY <1>11, Taken DEF Reply, SocketTypeOK
  <2>2. got' \in [Senders -> Senders \cup {NoSender}]
    BY <1>11, <2>1 DEF Reply, SocketTypeOK
  <2>. QED
    BY <1>11, <2>2 DEF Reply, Return, SocketTypeOK, WireTyped
<1>12. CASE UNCHANGED socketVars
  BY <1>12 DEF SocketTypeOK, WireTyped
<1>. QED
  BY <1>1, <1>2, <1>3, <1>4, <1>5, <1>6, <1>7, <1>8, <1>9, <1>10, <1>11, <1>12 DEF SocketNext

\* Send holds the mutex from Lock to its return.
LEMMA MutexStep == SocketTypeOK /\ MutexHeld /\ [SocketNext]_socketVars => MutexHeld'
<1>. SUFFICES ASSUME SocketTypeOK, MutexHeld, [SocketNext]_socketVars PROVE MutexHeld'
  OBVIOUS
<1>. USE EventSocketAssumption DEF sendVars
<1>1. ASSUME NEW s \in Senders, CallSend(s) \/ Lock(s) \/ Write(s) PROVE MutexHeld'
  BY <1>1 DEF CallSend, Lock, Write, MutexHeld, SocketTypeOK
<1>2. ASSUME NEW s \in Senders, WriteFails(s) \/ Reply(s) \/ SeesDone(s) \/ TimesOut(s) PROVE MutexHeld'
  BY <1>2 DEF WriteFails, Reply, SeesDone, TimesOut, Return, MutexHeld, SocketTypeOK
<1>3. CASE UNCHANGED sendVars
  BY <1>3 DEF MutexHeld
<1>. QED
  BY <1>1, <1>2, <1>3 DEF SocketNext, socketVars, SwitchAnswers, SwitchEvent, SwitchDisconnects,
     ReaderReads, ReaderFails, PumpTakes, PumpDelivers, PumpSleeps, PumpWakes, PumpEnds

\* At most one command is outstanding, and it is the waiting sender's: the
\* connection is failed before the mutex of an unanswered command is released.
LEMMA OutstandingStep ==
    SocketTypeOK /\ WireTyped /\ MutexHeld /\ OneOutstanding /\ [SocketNext]_socketVars => OneOutstanding'
<1>. SUFFICES ASSUME SocketTypeOK, WireTyped, MutexHeld, OneOutstanding, [SocketNext]_socketVars
              PROVE  OneOutstanding'
  OBVIOUS
<1>. USE EventSocketAssumption DEF OneOutstanding
<1>1. CASE SwitchAnswers
  <2>1. /\ linkOpen /\ atSwitch # <<>> /\ atSwitch' = Tail(atSwitch)
        /\ wire' = Append(wire, Message("reply", Head(atSwitch)))
        /\ UNCHANGED <<linkOpen, replies, sender>>
    BY <1>1 DEF SwitchAnswers, sendVars
  <2>2. /\ Head(atSwitch) \in Senders /\ Head(atSwitch) = atSwitch[1]
        /\ 1 \in DOMAIN atSwitch /\ DOMAIN atSwitch' = {} /\ atSwitch' = <<>>
    <3>1. atSwitch \in Seq(Senders) /\ Len(atSwitch) <= 1
      BY DEF SocketTypeOK, OnePlace
    <3>2. atSwitch # <<>> /\ atSwitch' = Tail(atSwitch)
      BY <2>1
    <3>3. /\ Head(atSwitch) \in Senders /\ Head(atSwitch) = atSwitch[1]
          /\ Len(atSwitch) \in Nat /\ Len(atSwitch) >= 1 /\ DOMAIN atSwitch = 1 .. Len(atSwitch)
          /\ atSwitch' \in Seq(Senders) /\ Len(atSwitch') = Len(atSwitch) - 1
      BY <3>1, <3>2, Taken
    <3>4. Len(atSwitch) = 1 /\ Len(atSwitch') = 0
      BY <3>1, <3>3
    <3>. QED
      BY <3>3, <3>4
  <2>3. /\ DOMAIN wire = 1 .. Len(wire) /\ DOMAIN wire' = 1 .. Len(wire) + 1
        /\ Len(wire) \in Nat
        /\ \A i \in 1 .. Len(wire) : wire'[i] = wire[i]
        /\ wire'[Len(wire) + 1].type = "reply" /\ wire'[Len(wire) + 1].of = atSwitch[1]
    BY <2>1, <2>2, WireAppended
  <2>4. replies = <<>> /\ \A i \in DOMAIN wire : wire[i].type # "reply"
    BY <2>1 DEF OnePlace, ReplyOnWire
  <2>5. \E s \in Senders : sender[s] = "sent"
    BY <2>1 DEF QuietWhenOpen
  <2>6. OnePlace'
    BY <2>1, <2>2, <2>3, <2>4 DEF OnePlace
  <2>7. OwnerWaits'
    BY <2>1, <2>2, <2>3, <2>4 DEF OwnerWaits
  <2>8. QuietWhenOpen'
    BY <2>1, <2>5 DEF QuietWhenOpen
  <2>. QED
    BY <2>6, <2>7, <2>8
<1>2. CASE SwitchEvent \/ SwitchDisconnects
  <2>1. UNCHANGED <<linkOpen, atSwitch, replies, sender>>
    BY <1>2 DEF SwitchEvent, SwitchDisconnects, sendVars
  <2>2. /\ DOMAIN wire = 1 .. Len(wire) /\ DOMAIN wire' = 1 .. Len(wire) + 1
        /\ Len(wire) \in Nat
        /\ \A i \in 1 .. Len(wire) : wire'[i] = wire[i]
        /\ wire'[Len(wire) + 1].type # "reply"
    <3>1. CASE SwitchEvent
      <4>1. sentEvents' \in 1 .. MaxEvents /\ wire' = Append(wire, Message("event", sentEvents'))
        BY <3>1 DEF SwitchEvent, SocketTypeOK
      <4>. QED
        BY <4>1, WireAppended
    <3>2. CASE SwitchDisconnects
      <4>1. wire' = Append(wire, Message("notice", 0))
        BY <3>2 DEF SwitchDisconnects
      <4>. QED
        BY <4>1, WireAppended
    <3>. QED
      BY <1>2, <3>1, <3>2
  <2>3. ReplyOnWire' = ReplyOnWire
    BY <2>2 DEF ReplyOnWire
  <2>4. OnePlace'
    BY <2>1, <2>2, <2>3 DEF OnePlace
  <2>5. OwnerWaits' /\ QuietWhenOpen'
    BY <2>1, <2>2, <2>3 DEF OwnerWaits, QuietWhenOpen
  <2>. QED
    BY <2>4, <2>5
<1>3. CASE ReaderReads
  <2>1. /\ DOMAIN wire = 1 .. Len(wire) /\ DOMAIN wire' = 1 .. Len(wire) - 1
        /\ Len(wire) \in Nat /\ 1 \in DOMAIN wire
        /\ \A i \in 1 .. Len(wire) - 1 : wire'[i] = wire[i + 1]
        /\ wire[1].type = "reply" => wire[1].of \in Senders
    BY <1>3, ReaderCases, WireTaken
  <2>2. UNCHANGED <<atSwitch, sender>>
    BY <1>3, ReaderCases DEF sendVars
  <2>3. ReplyOnWire' => ReplyOnWire
    BY <2>1 DEF ReplyOnWire
  <2>4. CASE wire[1].type = "reply" /\ replies = <<>> /\ replies' = <<wire[1].of>> /\ UNCHANGED linkOpen
    <3>1. ReplyOnWire /\ atSwitch = <<>>
      BY <2>1, <2>4 DEF ReplyOnWire, OnePlace
    <3>2. ~ReplyOnWire'
      <4>1. SUFFICES ASSUME NEW i \in 1 .. Len(wire) - 1, wire[i + 1].type = "reply" PROVE FALSE
        BY <2>1 DEF ReplyOnWire
      <4>2. i + 1 \in DOMAIN wire /\ i + 1 # 1
        BY <2>1
      <4>. QED
        BY <2>1, <2>4, <4>1, <4>2 DEF OnePlace
    <3>3. OnePlace'
      BY <2>1, <2>2, <3>1, <3>2 DEF OnePlace, ReplyOnWire
    <3>4. OwnerWaits'
      BY <2>1, <2>2, <2>4, <3>2 DEF OwnerWaits, ReplyOnWire
    <3>5. QuietWhenOpen'
      BY <2>2, <2>4, <3>1 DEF QuietWhenOpen
    <3>. QED
      BY <3>3, <3>4, <3>5
  <2>5. CASE UNCHANGED replies /\ linkOpen' \in {linkOpen, FALSE}
    <3>1. OnePlace'
      <4>1. ASSUME NEW i \in 1 .. Len(wire) - 1, NEW j \in 1 .. Len(wire) - 1,
                   wire[i + 1].type = "reply", wire[j + 1].type = "reply"
            PROVE  i = j
        <5>1. i + 1 \in DOMAIN wire /\ j + 1 \in DOMAIN wire
          BY <2>1
        <5>2. i + 1 = j + 1
          BY <4>1, <5>1 DEF OnePlace
        <5>. QED
          BY <5>2
      <4>2. \A i, j \in DOMAIN wire' : wire'[i].type = "reply" /\ wire'[j].type = "reply" => i = j
        BY <2>1, <4>1
      <4>3. /\ Len(atSwitch') <= 1
            /\ atSwitch' # <<>> => replies' = <<>> /\ ~ReplyOnWire'
            /\ replies' # <<>> => ~ReplyOnWire'
        BY <2>2, <2>3, <2>5 DEF OnePlace
      <4>. QED
        BY <4>2, <4>3 DEF OnePlace
    <3>2. OwnerWaits'
      BY <2>1, <2>2, <2>5 DEF OwnerWaits
    <3>3. QuietWhenOpen'
      BY <2>2, <2>3, <2>5 DEF QuietWhenOpen
    <3>. QED
      BY <3>1, <3>2, <3>3
  <2>. QED
    BY <1>3, <2>4, <2>5, ReaderCases
<1>4. CASE ReaderFails
  BY <1>4 DEF ReaderFails, Fail, sendVars, OnePlace, OwnerWaits, QuietWhenOpen, ReplyOnWire
<1>5. CASE UNCHANGED <<linkVars, replies, sender>>
  BY <1>5 DEF linkVars, OnePlace, OwnerWaits, QuietWhenOpen, ReplyOnWire
<1>6. ASSUME NEW s \in Senders, CallSend(s) \/ Lock(s) PROVE OneOutstanding'
  <2>1. /\ UNCHANGED <<linkOpen, atSwitch, wire, replies>>
        /\ \A t \in Senders : (sender'[t] = "sent") <=> (sender[t] = "sent")
    BY <1>6 DEF CallSend, Lock, linkVars, SocketTypeOK
  <2>. QED
    BY <2>1 DEF OnePlace, OwnerWaits, QuietWhenOpen, ReplyOnWire
<1>7. ASSUME NEW s \in Senders, Write(s) PROVE OneOutstanding'
  <2>1. /\ sender[s] = "locked" /\ linkOpen
        /\ atSwitch' = Append(atSwitch, s) /\ UNCHANGED <<linkOpen, wire, replies>>
        /\ sender'[s] = "sent" /\ \A t \in Senders \ {s} : sender'[t] = sender[t]
    BY <1>7 DEF Write, SocketTypeOK
  <2>2. \A t \in Senders : sender[t] # "sent"
    BY <2>1 DEF MutexHeld
  <2>3. atSwitch = <<>> /\ replies = <<>> /\ ~ReplyOnWire
    BY <2>1, <2>2 DEF QuietWhenOpen
  <2>4. Len(atSwitch') = 1 /\ DOMAIN atSwitch' = {1} /\ atSwitch'[1] = s
    BY <2>1, <2>3
  <2>5. OnePlace'
    BY <2>1, <2>3, <2>4 DEF OnePlace, ReplyOnWire
  <2>6. OwnerWaits'
    BY <2>1, <2>2, <2>3, <2>4 DEF OwnerWaits, ReplyOnWire
  <2>7. QuietWhenOpen'
    BY <2>1 DEF QuietWhenOpen
  <2>. QED
    BY <2>5, <2>6, <2>7
<1>8. ASSUME NEW s \in Senders, Reply(s) PROVE OneOutstanding'
  <2>1. /\ replies # <<>> /\ replies' = <<>>
        /\ UNCHANGED <<linkOpen, atSwitch, wire>>
        /\ \A t \in Senders : sender'[t] = "sent" => sender[t] = "sent"
    BY <1>8 DEF Reply, Return, linkVars, SocketTypeOK
  <2>2. atSwitch = <<>> /\ ~ReplyOnWire
    BY <2>1 DEF OnePlace
  <2>. QED
    BY <2>1, <2>2 DEF OnePlace, OwnerWaits, QuietWhenOpen, ReplyOnWire
<1>9. ASSUME NEW s \in Senders, WriteFails(s) \/ SeesDone(s) \/ TimesOut(s) PROVE OneOutstanding'
  <2>1. /\ linkOpen' = FALSE /\ UNCHANGED <<atSwitch, wire, replies>>
        /\ \A t \in Senders : sender'[t] = "sent" => sender[t] = "sent"
    BY <1>9 DEF WriteFails, SeesDone, TimesOut, Return, Fail, linkVars, SocketTypeOK
  <2>. QED
    BY <2>1 DEF OnePlace, OwnerWaits, QuietWhenOpen, ReplyOnWire
<1>. QED
  BY <1>1, <1>2, <1>3, <1>4, <1>5, <1>6, <1>7, <1>8, <1>9
  DEF SocketNext, socketVars, sendVars, PumpTakes, PumpDelivers, PumpSleeps, PumpWakes, PumpEnds

\* A reply is taken by the sender it answers.
LEMMA OwnReplyStep ==
    SocketTypeOK /\ OneOutstanding /\ OwnReply /\ [SocketNext]_socketVars => OwnReply'
<1>. SUFFICES ASSUME SocketTypeOK, OneOutstanding, OwnReply, [SocketNext]_socketVars PROVE OwnReply'
  OBVIOUS
<1>1. ASSUME NEW s \in Senders, Reply(s) PROVE OwnReply'
  <2>1. Head(replies) = s
    <3>1. Head(replies) = replies[1] /\ 1 \in DOMAIN replies
      BY <1>1, Taken DEF Reply, SocketTypeOK
    <3>. QED
      BY <1>1, <3>1 DEF Reply, OneOutstanding, OwnerWaits
  <2>. QED
    BY <1>1, <2>1 DEF Reply, OwnReply, SocketTypeOK
<1>2. CASE UNCHANGED got
  BY <1>2 DEF OwnReply
<1>. QED
  BY <1>1, <1>2 DEF SocketNext, socketVars, sendVars, SwitchAnswers, SwitchEvent, SwitchDisconnects,
     ReaderReads, ReaderFails, PumpTakes, PumpDelivers, PumpSleeps, PumpWakes, PumpEnds,
     CallSend, Lock, WriteFails, Write, SeesDone, TimesOut

\* Events pass from the wire to the queue, the batch and the consumer without
\* a gap or a repetition.
LEMMA ChainStep ==
    SocketTypeOK /\ WireTyped /\ ChainInv /\ [SocketNext]_socketVars => ChainInv'
<1>. SUFFICES ASSUME SocketTypeOK, WireTyped, ChainInv, [SocketNext]_socketVars PROVE ChainInv'
  OBVIOUS
<1>. USE EventSocketAssumption DEF ChainInv
<1>a. /\ sentEvents \in Nat
      /\ delivered \in Seq(Nat) /\ Len(delivered) \in Nat /\ DOMAIN delivered = 1 .. Len(delivered)
      /\ batch \in Seq(Nat) /\ Len(batch) \in Nat /\ DOMAIN batch = 1 .. Len(batch)
      /\ qEvents \in Seq(Nat) /\ Len(qEvents) \in Nat /\ DOMAIN qEvents = 1 .. Len(qEvents)
      /\ Received \in Nat
  BY DEF SocketTypeOK, Received
<1>b. /\ \A i \in 1 .. Len(delivered) : delivered[i] = i
      /\ \A i \in 1 .. Len(batch) : batch[i] = Len(delivered) + i
      /\ \A i \in 1 .. Len(qEvents) : qEvents[i] = Len(delivered) + Len(batch) + i
  BY <1>a DEF EventChain, EventsInOrder
<1>1. CASE SwitchAnswers \/ SwitchDisconnects
  <2>1. /\ DOMAIN wire = 1 .. Len(wire) /\ DOMAIN wire' = 1 .. Len(wire) + 1
        /\ Len(wire) \in Nat
        /\ \A i \in 1 .. Len(wire) : wire'[i] = wire[i]
        /\ wire'[Len(wire) + 1].type # "event"
    <3>1. CASE SwitchAnswers
      <4>1. Head(atSwitch) \in Senders /\ wire' = Append(wire, Message("reply", Head(atSwitch)))
        BY <3>1, Taken DEF SwitchAnswers, SocketTypeOK
      <4>. QED
        BY <4>1, WireAppended
    <3>2. CASE SwitchDisconnects
      <4>1. wire' = Append(wire, Message("notice", 0))
        BY <3>2 DEF SwitchDisconnects
      <4>. QED
        BY <4>1, WireAppended
    <3>. QED
      BY <1>1, <3>1, <3>2
  <2>2. UNCHANGED <<sentEvents, pump, qEvents, batch, delivered>>
    BY <1>1 DEF SwitchAnswers, SwitchDisconnects, pumpVars
  <2>3. Received' = Received
    BY <2>2 DEF Received
  <2>4. WireInOrder'
    BY <2>1, <2>2, <2>3 DEF EventChain, WireInOrder, IsEvent
  <2>. QED
    BY <2>2, <2>3, <2>4 DEF EventChain, EventsInOrder
<1>2. CASE SwitchEvent
  <2>1. sentEvents' = sentEvents + 1 /\ sentEvents' \in 1 .. MaxEvents
        /\ wire' = Append(wire, Message("event", sentEvents'))
    BY <1>2 DEF SwitchEvent, SocketTypeOK
  <2>2. /\ DOMAIN wire = 1 .. Len(wire) /\ DOMAIN wire' = 1 .. Len(wire) + 1
        /\ Len(wire) \in Nat
        /\ \A i \in 1 .. Len(wire) : wire'[i] = wire[i]
        /\ wire'[Len(wire) + 1].type = "event" /\ wire'[Len(wire) + 1].of = sentEvents'
    BY <2>1, WireAppended
  <2>3. UNCHANGED <<pump, qEvents, batch, delivered>>
    BY <1>2 DEF SwitchEvent, pumpVars
  <2>4. Received' = Received
    BY <2>3 DEF Received
  <2>5. ASSUME NEW i \in DOMAIN wire', IsEvent(wire'[i]) PROVE wire'[i].of \in Received' + 1 .. sentEvents'
    BY <1>a, <2>1, <2>2, <2>4, <2>5 DEF EventChain, WireInOrder, IsEvent
  <2>6. ASSUME NEW n \in Received' + 1 .. sentEvents'
        PROVE  \E i \in DOMAIN wire' : IsEvent(wire'[i]) /\ wire'[i].of = n
    <3>1. CASE n = sentEvents'
      BY <2>2, <3>1 DEF IsEvent
    <3>2. CASE n # sentEvents'
      <4>1. n \in Received + 1 .. sentEvents
        BY <1>a, <2>1, <2>4, <3>2
      <4>2. PICK i \in DOMAIN wire : IsEvent(wire[i]) /\ wire[i].of = n
        BY <4>1 DEF EventChain, WireInOrder
      <4>3. i \in DOMAIN wire' /\ wire'[i] = wire[i]
        BY <2>2
      <4>. QED
        BY <4>2, <4>3
    <3>. QED
      BY <3>1, <3>2
  <2>7. ASSUME NEW i \in DOMAIN wire', NEW j \in DOMAIN wire', IsEvent(wire'[i]), IsEvent(wire'[j]), i < j
        PROVE  wire'[i].of < wire'[j].of
    <3>1. i \in DOMAIN wire /\ wire'[i] = wire[i]
      BY <2>2, <2>7
    <3>2. CASE j \in DOMAIN wire
      BY <2>2, <2>7, <3>1, <3>2 DEF EventChain, WireInOrder
    <3>3. CASE j = Len(wire) + 1
      <4>1. wire[i].of \in Received + 1 .. sentEvents
        BY <2>7, <3>1 DEF EventChain, WireInOrder
      <4>. QED
        BY <1>a, <2>1, <2>2, <3>1, <3>3, <4>1
    <3>. QED
      BY <2>2, <3>2, <3>3
  <2>8. WireInOrder'
    BY <2>5, <2>6, <2>7 DEF WireInOrder
  <2>. QED
    BY <1>a, <2>1, <2>3, <2>4, <2>8 DEF EventChain, EventsInOrder
<1>3. CASE ReaderReads
  <2>1. /\ DOMAIN wire = 1 .. Len(wire) /\ DOMAIN wire' = 1 .. Len(wire) - 1
        /\ Len(wire) \in Nat /\ 1 \in DOMAIN wire
        /\ \A i \in 1 .. Len(wire) - 1 : wire'[i] = wire[i + 1]
        /\ wire[1].type = "event" => wire[1].of \in 1 .. MaxEvents
    BY <1>3, ReaderCases, WireTaken
  <2>2. UNCHANGED <<sentEvents, pump, batch, delivered>>
    BY <1>3, ReaderCases
  <2>3. ASSUME NEW i \in DOMAIN wire' PROVE i + 1 \in DOMAIN wire /\ i + 1 # 1 /\ wire'[i] = wire[i + 1]
    BY <2>1
  <2>4. ASSUME NEW i \in DOMAIN wire, i # 1 PROVE i - 1 \in DOMAIN wire' /\ wire'[i - 1] = wire[i]
    BY <2>1, <2>4
  <2>5. \A i, j \in DOMAIN wire' : IsEvent(wire'[i]) /\ IsEvent(wire'[j]) /\ i < j => wire'[i].of < wire'[j].of
    <3>1. SUFFICES ASSUME NEW i \in DOMAIN wire', NEW j \in DOMAIN wire',
                          IsEvent(wire'[i]), IsEvent(wire'[j]), i < j
                   PROVE  wire'[i].of < wire'[j].of
      OBVIOUS
    <3>2. i + 1 < j + 1
      BY <2>1, <3>1
    <3>. QED
      BY <2>3, <3>1, <3>2 DEF EventChain, WireInOrder
  <2>6. CASE wire[1].type = "event" /\ qEvents' = Append(qEvents, wire[1].of)
    <3>1. wire[1].of \in Received + 1 .. sentEvents
      BY <2>1, <2>6 DEF EventChain, WireInOrder, IsEvent
    <3>2. wire[1].of = Received + 1
      <4>1. PICK i \in DOMAIN wire : IsEvent(wire[i]) /\ wire[i].of = Received + 1
        BY <1>a, <3>1 DEF EventChain, WireInOrder
      <4>2. CASE i # 1
        <5>1. wire[1].of < wire[i].of
          BY <2>1, <2>6, <4>1, <4>2 DEF EventChain, WireInOrder, IsEvent
        <5>. QED
          BY <1>a, <3>1, <4>1, <5>1
      <4>. QED
        BY <4>1, <4>2
    <3>3. /\ Len(qEvents') = Len(qEvents) + 1 /\ DOMAIN qEvents' = 1 .. Len(qEvents) + 1
          /\ \A i \in 1 .. Len(qEvents) : qEvents'[i] = qEvents[i]
          /\ qEvents'[Len(qEvents) + 1] = Received + 1
      BY <1>a, <2>6, <3>2, Appended
    <3>4. Received' = Received + 1
      BY <1>a, <2>2, <3>3 DEF Received
    <3>5. \A i \in DOMAIN qEvents' : qEvents'[i] = Len(delivered') + Len(batch') + i
      <4>1. SUFFICES ASSUME NEW i \in 1 .. Len(qEvents) + 1
                     PROVE  qEvents'[i] = Len(delivered) + Len(batch) + i
        BY <2>2, <3>3
      <4>2. CASE i = Len(qEvents) + 1
        BY <1>a, <3>3, <4>2 DEF Received
      <4>3. CASE i \in 1 .. Len(qEvents)
        BY <1>b, <3>3, <4>3
      <4>. QED
        BY <1>a, <4>2, <4>3
    <3>6. ASSUME NEW i \in DOMAIN wire', IsEvent(wire'[i])
          PROVE  wire'[i].of \in Received' + 1 .. sentEvents'
      <4>1. wire[i + 1].of \in Received + 1 .. sentEvents
        BY <2>3, <3>6 DEF EventChain, WireInOrder
      <4>2. wire[1].of < wire[i + 1].of
        <5>1. 1 < i + 1
          BY <2>1
        <5>. QED
          BY <2>1, <2>3, <2>6, <3>6, <5>1 DEF EventChain, WireInOrder, IsEvent
      <4>. QED
        BY <1>a, <2>2, <2>3, <3>2, <3>4, <4>1, <4>2
    <3>7. ASSUME NEW n \in Received' + 1 .. sentEvents'
          PROVE  \E i \in DOMAIN wire' : IsEvent(wire'[i]) /\ wire'[i].of = n
      <4>1. n \in Received + 1 .. sentEvents /\ n # Received + 1
        BY <1>a, <2>2, <3>4
      <4>2. PICK i \in DOMAIN wire : IsEvent(wire[i]) /\ wire[i].of = n
        BY <4>1 DEF EventChain, WireInOrder
      <4>3. i # 1
        BY <3>2, <4>1, <4>2
      <4>. QED
        BY <2>4, <4>2, <4>3
    <3>8. WireInOrder'
      BY <2>5, <3>6, <3>7 DEF WireInOrder
    <3>9. Received' <= sentEvents'
      BY <1>a, <2>2, <3>1, <3>4
    <3>. QED
      BY <2>2, <3>5, <3>8, <3>9 DEF EventChain, EventsInOrder
  <2>7. CASE wire[1].type # "event" /\ UNCHANGED qEvents
    <3>1. Received' = Received
      BY <2>2, <2>7 DEF Received
    <3>2. \A i \in DOMAIN wire' : IsEvent(wire'[i]) => wire'[i].of \in Received' + 1 .. sentEvents'
      BY <2>2, <2>3, <3>1 DEF EventChain, WireInOrder
    <3>3. ASSUME NEW n \in Received' + 1 .. sentEvents'
          PROVE  \E i \in DOMAIN wire' : IsEvent(wire'[i]) /\ wire'[i].of = n
      <4>1. PICK i \in DOMAIN wire : IsEvent(wire[i]) /\ wire[i].of = n
        BY <2>2, <3>1 DEF EventChain, WireInOrder
      <4>2. i # 1
        BY <2>7, <4>1 DEF IsEvent
      <4>. QED
        BY <2>4, <4>1, <4>2
    <3>4. WireInOrder'
      BY <2>5, <3>2, <3>3 DEF WireInOrder
    <3>. QED
      BY <2>2, <2>7, <3>1, <3>4 DEF EventChain, EventsInOrder
  <2>. QED
    BY <1>3, <2>6, <2>7, ReaderCases
<1>4. CASE PumpTakes
  <2>1. /\ batch = <<>> /\ Len(batch) = 0
        /\ batch' = qEvents /\ qEvents' = <<>> /\ Len(qEvents') = 0 /\ DOMAIN qEvents' = {}
        /\ UNCHANGED <<sentEvents, wire, delivered>> /\ pump' = "deliver"
    BY <1>4 DEF PumpTakes, linkVars, EventChain
  <2>2. Received' = Received
    BY <1>a, <2>1 DEF Received
  <2>3. WireInOrder'
    BY <2>1, <2>2 DEF EventChain, WireInOrder
  <2>4. \A i \in DOMAIN batch' : batch'[i] = Len(delivered') + i
    BY <1>a, <2>1 DEF EventChain
  <2>. QED
    BY <2>1, <2>2, <2>3, <2>4 DEF EventChain, EventsInOrder
<1>5. CASE PumpDelivers
  <2>1. /\ batch # <<>> /\ pump = "deliver" /\ delivered' = Append(delivered, Head(batch)) /\ batch' = Tail(batch)
        /\ UNCHANGED <<sentEvents, wire, qEvents, pump>>
    BY <1>5 DEF PumpDelivers, linkVars
  <2>2. /\ Head(batch) = batch[1] /\ Len(batch') = Len(batch) - 1 /\ Len(batch) >= 1
        /\ DOMAIN batch' = 1 .. Len(batch) - 1
        /\ \A i \in 1 .. Len(batch) - 1 : batch'[i] = batch[i + 1]
        /\ Head(batch) \in Nat
    BY <1>a, <2>1, Taken
  <2>3. /\ Len(delivered') = Len(delivered) + 1 /\ DOMAIN delivered' = 1 .. Len(delivered) + 1
        /\ \A i \in 1 .. Len(delivered) : delivered'[i] = delivered[i]
        /\ delivered'[Len(delivered) + 1] = batch[1]
    BY <1>a, <2>1, <2>2, Appended
  <2>4. Received' = Received
    BY <1>a, <2>1, <2>2, <2>3 DEF Received
  <2>5. WireInOrder'
    BY <2>1, <2>4 DEF EventChain, WireInOrder
  <2>6. \A i \in DOMAIN batch' : batch'[i] = Len(delivered') + i
    <3>1. SUFFICES ASSUME NEW i \in 1 .. Len(batch) - 1 PROVE batch[i + 1] = Len(delivered) + 1 + i
      BY <2>2, <2>3
    <3>2. i + 1 \in 1 .. Len(batch)
      BY <1>a
    <3>. QED
      BY <1>a, <1>b, <3>2
  <2>7. EventsInOrder'
    <3>1. SUFFICES ASSUME NEW i \in 1 .. Len(delivered) + 1 PROVE delivered'[i] = i
      BY <2>3 DEF EventsInOrder
    <3>2. batch[1] = Len(delivered) + 1
      BY <1>a, <1>b, <2>2
    <3>3. CASE i \in 1 .. Len(delivered)
      BY <1>b, <2>3, <3>3
    <3>. QED
      BY <1>a, <2>3, <3>2, <3>3
  <2>8. \A i \in DOMAIN qEvents' : qEvents'[i] = Len(delivered') + Len(batch') + i
    BY <1>a, <2>1, <2>2, <2>3 DEF EventChain
  <2>. QED
    BY <2>1, <2>4, <2>5, <2>6, <2>7, <2>8 DEF EventChain
<1>6. CASE PumpSleeps \/ PumpWakes \/ PumpEnds
  <2>1. /\ UNCHANGED <<sentEvents, wire, qEvents, batch, delivered>>
        /\ pump' \in {"take", "wait"} => batch = <<>>
    BY <1>6 DEF PumpSleeps, PumpWakes, PumpEnds, linkVars, EventChain
  <2>. QED
    BY <2>1 DEF EventChain, WireInOrder, Received, EventsInOrder
<1>7. CASE UNCHANGED <<wire, sentEvents, pump, qEvents, batch, delivered>>
  BY <1>7 DEF EventChain, WireInOrder, Received, EventsInOrder
<1>. QED
  BY <1>1, <1>2, <1>3, <1>4, <1>5, <1>6, <1>7
  DEF SocketNext, socketVars, linkVars, pumpVars, ReaderFails, CallSend, Lock, WriteFails, Write,
      Reply, SeesDone, TimesOut

\* The socket starts with nothing outstanding.
LEMMA InitSocketInv == SocketInit => SocketInv
<1>. SUFFICES ASSUME SocketInit PROVE SocketInv
  OBVIOUS
<1>. USE EventSocketAssumption DEF SocketInit
<1>1. SocketTypeOK
  <2>1. sentEvents \in 0 .. MaxEvents /\ cmdMu \in Senders \cup {NoSender}
    OBVIOUS
  <2>2. /\ sender \in [Senders -> {"idle", "waiting", "locked", "sent", "ok", "failed"}]
        /\ got \in [Senders -> Senders \cup {NoSender}]
    OBVIOUS
  <2>3. atSwitch \in Seq(Senders) /\ replies \in Seq(Senders) /\ Len(replies) <= 1
    OBVIOUS
  <2>4. wire \in Seq([type : {"reply", "event", "notice"}, of : Senders \cup (0 .. MaxEvents)])
    OBVIOUS
  <2>5. qEvents \in Seq(1 .. MaxEvents) /\ batch \in Seq(1 .. MaxEvents) /\ delivered \in Seq(1 .. MaxEvents)
    OBVIOUS
  <2>. QED
    BY <2>1, <2>2, <2>3, <2>4, <2>5 DEF SocketTypeOK
<1>2. WireTyped
  BY DEF WireTyped
<1>3. MutexHeld
  BY DEF MutexHeld
<1>4. OwnReply
  BY DEF OwnReply
<1>5. OneOutstanding
  BY DEF OneOutstanding, OnePlace, OwnerWaits, QuietWhenOpen, ReplyOnWire
<1>. QED
  BY <1>1, <1>2, <1>3, <1>4, <1>5 DEF SocketInv

\* Every command that returns with a reply returns with its own, whatever was
\* lost, late or timed out before it (Send, readLoop).
THEOREM RepliesMatch == SocketSpec => []OwnReply
<1>1. SocketInit => SocketInv
  BY InitSocketInv
<1>2. SocketInv /\ [SocketNext]_socketVars => SocketInv'
  BY SocketTypeStep, MutexStep, OutstandingStep, OwnReplyStep DEF SocketInv
<1>3. SocketInv => OwnReply
  BY DEF SocketInv
<1>. QED
  BY <1>1, <1>2, <1>3, PTL DEF SocketSpec

\* The consumer receives the switch's events in the order it sent them, none
\* skipped and none twice (readLoop, pumpEvents).
THEOREM EventsOrdered == SocketSpec => [](SocketTypeOK /\ EventsInOrder)
<1>1. SocketInit => SocketTypeOK /\ WireTyped /\ ChainInv
  <2>. SUFFICES ASSUME SocketInit PROVE ChainInv
    BY InitSocketInv DEF SocketInv
  <2>1. /\ wire = <<>> /\ qEvents = <<>> /\ batch = <<>> /\ delivered = <<>> /\ sentEvents = 0
    BY DEF SocketInit
  <2>2. Received = 0
    BY <2>1 DEF Received
  <2>. QED
    BY <2>1, <2>2 DEF ChainInv, EventChain, WireInOrder, EventsInOrder
<1>2. SocketTypeOK /\ WireTyped /\ ChainInv /\ [SocketNext]_socketVars
        => (SocketTypeOK /\ WireTyped /\ ChainInv)'
  BY SocketTypeStep, ChainStep
<1>3. ChainInv => EventsInOrder
  BY DEF ChainInv
<1>. QED
  BY <1>1, <1>2, <1>3, PTL DEF SocketSpec
=============================================================================
