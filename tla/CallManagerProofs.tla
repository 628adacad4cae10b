------------------------- MODULE CallManagerProofs -------------------------
(***************************************************************************)
(* What holds of the call manager for any number of channels, ports,       *)
(* failing requests, WebSocket drops and shutdowns.                        *)
(*                                                                         *)
(* Inv holds whatever happens: where the loop is, what a call has got as   *)
(* far as, which map entries and events there are for it.  PortsOK (no     *)
(* port freed twice) needs Safe, since CallPorts finds the exception;      *)
(* SettleOK (nothing left behind, the gauge, Done) needs a manager that    *)
(* nothing has disturbed.                                                  *)
(***************************************************************************)
EXTENDS CallManagerLife, FiniteSetTheorems, SequenceTheorems, WellFoundedInduction, TLAPS

\* Calls the loop has created: a port was taken and an ExternalID given.
Started(c) == extOf[c] # None
\* The loop has taken channel ch for a new caller.
TakenAsCaller(ch) == Started(ch) \/ (loop.pc = "start" /\ loop.ch = ch)
Bridging(c) == loop.pc \in {"bridge", "activate"} /\ loop.ch = c

\* Events of one type about one channel in a queue.
Has(q, type, ch) == \E i \in DOMAIN q : q[i].type = type /\ q[i].ch = ch
StartsUnique(q) ==
    \A i, j \in DOMAIN q : q[i].type = "start" /\ q[j].type = "start" /\ q[i].ch = q[j].ch => i = j
EndsLast(q) ==
    \A i, j \in DOMAIN q : q[i].type = "end" /\ q[j].type = "start" /\ q[i].ch = q[j].ch => j < i

\* No drop so far and no call under a duration limit.
Steady == drops = 0 /\ \A c \in Limited : ~Started(c)

-----------------------------------------------------------------------------
\* What holds whatever happens.

\* The loop works on one channel, whose call exists from "ext" on.
LoopOK ==
    /\ loop.pc \in {"idle", "stopped"} <=> loop.ch = None
    /\ loop.pc = "start" => ~Started(loop.ch) /\ chan[loop.ch] \in {"stasis", "gone"}
    /\ loop.pc \in {"ext", "bridge", "activate", "teardown"} => Started(loop.ch)
    /\ loop.pc \in {"ext", "bridge", "activate"} => ~bridge[loop.ch]
    /\ loop.pc = "teardown" => td[loop.ch] # "none"

\* A channel enters Stasis once, and its StasisStart is handled once.
StartsOnce ==
    /\ StartsUnique(queue) /\ EndsLast(queue)
    /\ \A ch \in Channels : Has(queue, "start", ch) => chan[ch] \in {"stasis", "gone"} /\ ~TakenAsCaller(ch)
    /\ \A ch \in Channels : Has(queue, "end", ch) \/ Has(queue, "destroyed", ch) => chan[ch] = "gone"

\* A call's state, by how far it has come.
CallAt(c) ==
    /\ Started(c) => chan[c] \in {"stasis", "gone"} /\ sess[c] # "none"
    /\ ~Started(c) => /\ sess[c] = "none" /\ td[c] = "none" /\ media[c] = "none"
                      /\ ~held[c] /\ ~bridge[c] /\ ~timer[c] /\ ~sock[c]
    /\ media[c] # "none" => bridge[c]
    /\ sock[c] => held[c] /\ td[c] \notin {"ports", "done"}
    /\ td[c] = "done" => ~held[c]
    /\ td[c] \in {"ports", "done"} => chan[c] = "gone"
    /\ timer[c] => c \in Limited

CallOK == \A c \in Channels : CallAt(c)

\* ExternalIDs: one call's alone, and no channel before the request for it.
ExtOnce ==
    /\ \A c, e \in Channels : Started(c) /\ extOf[c] = extOf[e] => c = e
    /\ \A c \in Channels : Started(c) => extOf[c] # c
    /\ \A x \in ExtIds : chan[x] # "none" =>
           \E c \in Channels : extOf[c] = x /\ ~(loop.pc = "ext" /\ loop.ch = c)
    /\ \A ch \in Channels : chan[ch] = "ringing" => ch \in Dialed

\* The maps lead from a call's own legs to it, and one map at a time.
MapsOK ==
    /\ \A k, c \in Channels : pending[k] = c => Started(c) /\ k \in {c, extOf[c]} /\ ~bridge[c] /\ ~Bridging(c)
    /\ \A k, c \in Channels : active[k] = c => Started(c) /\ k \in {c, extOf[c]} /\ bridge[c]
    /\ \A c \in Channels : Started(c) /\ pending[extOf[c]] = c => ~TakenAsCaller(extOf[c])
    /\ \A c \in Channels : Bridging(c) \/ bridge[c] =>
           chan[extOf[c]] # "none" /\ ~Has(queue, "start", extOf[c]) /\ ~TakenAsCaller(extOf[c])

\* Purges end calls that exist, and are off unless something went wrong.
PurgeOK ==
    /\ \A who \in Purgers :
           /\ purge[who].pc = "ringing" => purge[who].todo \subseteq Dialed
           /\ purge[who].pc = "teardown" => \A c \in purge[who].todo : Started(c)
           /\ purge[who].cur # None =>
                  /\ purge[who].pc = "teardown"
                  /\ Started(purge[who].cur) /\ td[purge[who].cur] # "none"
    /\ drops = 0 => connected /\ sawUp /\ purge["watcher"] = NoPurge
    /\ loop.pc # "stopped" => purge["loop"] = NoPurge
    /\ purge["loop"].pc = "teardown" => \A k \in Channels : pending[k] = None

\* A dialed call: known until Done, watched until answered, then the loop's or
\* the port holder's.
DialAt(ch) ==
    /\ dial[ch] = "none" => chan[ch] = "none" /\ ~answered[ch] /\ ch \notin outbound
    /\ dial[ch] = "placed" => chan[ch] # "none"
    /\ watchdog[ch] => dial[ch] = "placed"
    /\ ch \in outbound => dial[ch] \in {"originating", "placed"}
    /\ dial[ch] \in {"originating", "placed"} /\ done[ch] = "none" => ch \in outbound
    /\ ch \in outbound /\ dial[ch] = "placed" /\ ~answered[ch] => watchdog[ch]
    /\ ch \in outbound /\ answered[ch] =>
           (loop.pc = "start" /\ loop.ch = ch) \/ (Started(ch) /\ withOut[ch] /\ held[ch])

DialOK == \A ch \in Dialed : DialAt(ch)

\* Every used port is some call's.
UsedHeld == \A p \in used : \E c \in Channels : held[c] /\ port[c] = p

PendingBoth(c) == pending[c] = c /\ pending[extOf[c]] = c
ActiveBoth(c) == active[c] = c /\ active[extOf[c]] = c
Purged(c) == \E who \in Purgers : purge[who].pc = "teardown" /\ c \in purge[who].todo

\* The maps hold both legs of a call, which nobody loses before its cleanup.
FoundAt(c) ==
    /\ \A k \in Channels : pending[k] = c => PendingBoth(c)
    /\ \A k \in Channels : active[k] = c => ActiveBoth(c)
    /\ held[c] /\ td[c] = "none" => Bridging(c) \/ PendingBoth(c) \/ ActiveBoth(c) \/ Purged(c)

\* The steps that take call e out of a map.
PendingOut(e) ==
    /\ pending' = WithoutLegs(pending, e)
    /\ \/ (OnExternalStart \/ OnStagedEnd) /\ e = pending[Head(queue).ch]
       \/ CreateExt /\ e = loop.ch
       \/ TdMaps(e)
ActiveOut(e) ==
    /\ active' = WithoutLegs(active, e)
    /\ \/ OnActiveEnd /\ e = active[Head(queue).ch]
       \/ TdMaps(e)

-----------------------------------------------------------------------------
\* What holds of the ports as long as CreateExt's failure meets no teardown.

\* Without drops and duration limits nobody tears a call down before it is
\* bridged but the loop.
SteadyOK ==
    Steady =>
        /\ loop.pc \in {"ext", "bridge", "activate"} => td[loop.ch] = "none"
        /\ \A k, c \in Channels : pending[k] = c => td[c] = "none"

Safe == Steady \/ (faults = 0 /\ ~AudioSocket)

\* A call that gave its port back when its externalMedia channel could not be
\* created: nothing leads to it any more.
Dropped(c) ==
    /\ td[c] = "none" /\ ~timer[c] /\ ~bridge[c] /\ loop.ch # c /\ ~Purged(c)
    /\ \A k \in Channels : pending[k] # c /\ active[k] # c

PortsOK ==
    Safe => /\ \A c \in Channels : held[c] => port[c] \in used
            /\ \A c, e \in Channels : held[c] /\ held[e] /\ port[c] = port[e] => c = e
            /\ \A c \in Channels : Started(c) /\ ~held[c] => td[c] = "done" \/ Dropped(c)

-----------------------------------------------------------------------------
\* What holds while the manager is undisturbed.

\* Somebody still acts on channel k.
Awaited(k) ==
    \/ Has(queue, "start", k) \/ pending[k] # None \/ active[k] # None
    \/ loop.ch = k /\ loop.pc \in {"start", "ext", "bridge", "activate"}
    \/ \E c \in Channels : Bridging(c) /\ extOf[c] = k

EndsKept == \A k \in Channels : chan[k] = "gone" /\ Awaited(k) => Has(queue, "end", k)

\* Only bridged calls are under a cleanup that takes its time; a bridge is up
\* while its call is, or while completeBridge is about to note it.
BridgesOK ==
    /\ \A c \in Channels : td[c] \notin {"none", "done"} => bridge[c]
    /\ \A c \in bridgeUp : \/ loop.pc = "activate" /\ loop.ch = c
                           \/ bridge[c] /\ td[c] \notin {"ports", "done"}

AllFound == \A c \in Channels : FoundAt(c)

Live == {c \in Channels : bridge[c] /\ td[c] # "done"}
GaugeOK == IsFiniteSet(Live) /\ gauge = Cardinality(Live)

DoneGone == \A ch \in Dialed : done[ch] # "none" => chan[ch] = "gone"

\* An externalMedia leg whose StasisStart is on its way is awaited, or gone.
MediaLegsOK ==
    faults = 0 => /\ \A x \in ExtIds : ~Started(x)
                  /\ \A x \in ExtIds : Has(queue, "start", x) => chan[x] = "gone" \/ pending[x] # None
                  /\ \A x \in ExtIds : loop.pc = "start" /\ loop.ch = x => chan[x] = "gone"

SettleOK == Undisturbed => BridgesOK /\ AllFound /\ EndsKept /\ GaugeOK /\ DoneGone /\ MediaLegsOK

Inv == TypeOK /\ LoopOK /\ StartsOnce /\ CallOK /\ ExtOnce /\ MapsOK /\ PurgeOK

\* With what the ports and the settling of calls rest on.
FullInv == Inv /\ SteadyOK /\ PortsOK /\ DialOK /\ UsedHeld /\ SettleOK

-----------------------------------------------------------------------------
\* Queues of events.

\* What the tail of a queue still has.
LEMMA HeadTail ==
    ASSUME NEW q \in Seq(Events), q # <<>>
    PROVE  /\ Head(q) \in Events /\ Tail(q) \in Seq(Events)
           /\ \A type, ch : Has(Tail(q), type, ch) => Has(q, type, ch)
           /\ \A type, ch : Has(q, type, ch) => \/ Has(Tail(q), type, ch)
                                                \/ Head(q).type = type /\ Head(q).ch = ch
           /\ Has(q, Head(q).type, Head(q).ch)
           /\ StartsUnique(q) => StartsUnique(Tail(q))
           /\ StartsUnique(q) /\ Head(q).type = "start" => ~Has(Tail(q), "start", Head(q).ch)
           /\ EndsLast(q) => EndsLast(Tail(q))
           /\ EndsLast(q) /\ Head(q).type = "end" => ~Has(Tail(q), "start", Head(q).ch)
<1>1. /\ Head(q) \in Events /\ Head(q) = q[1]
      /\ Tail(q) \in Seq(Events)
      /\ Len(q) \in Nat /\ Len(q) >= 1
      /\ DOMAIN q = 1 .. Len(q) /\ DOMAIN Tail(q) = 1 .. Len(q) - 1
      /\ \A i \in 1 .. Len(q) - 1 : Tail(q)[i] = q[i + 1]
  OBVIOUS
<1>2. \A type, ch : Has(Tail(q), type, ch) => Has(q, type, ch)
  BY <1>1 DEF Has
<1>3. \A type, ch : Has(q, type, ch) => Has(Tail(q), type, ch) \/ (Head(q).type = type /\ Head(q).ch = ch)
  <2>. SUFFICES ASSUME NEW type, NEW ch, Has(q, type, ch), ~(Head(q).type = type /\ Head(q).ch = ch)
                PROVE  Has(Tail(q), type, ch)
    OBVIOUS
  <2>1. PICK i \in DOMAIN q : q[i].type = type /\ q[i].ch = ch
    BY DEF Has
  <2>2. i # 1
    BY <1>1, <2>1
  <2>3. i - 1 \in 1 .. Len(q) - 1 /\ Tail(q)[i - 1] = q[i]
    BY <1>1, <2>2
  <2>. QED
    BY <1>1, <2>1, <2>3 DEF Has
<1>4. Has(q, Head(q).type, Head(q).ch)
  <2>1. 1 \in DOMAIN q
    BY <1>1
  <2>. QED
    BY <1>1, <2>1 DEF Has
<1>5. StartsUnique(q) => StartsUnique(Tail(q))
  BY <1>1 DEF StartsUnique
<1>6. StartsUnique(q) /\ Head(q).type = "start" => ~Has(Tail(q), "start", Head(q).ch)
  BY <1>1 DEF StartsUnique, Has
<1>7. EndsLast(q) => EndsLast(Tail(q))
  BY <1>1 DEF EndsLast
<1>8. EndsLast(q) /\ Head(q).type = "end" => ~Has(Tail(q), "start", Head(q).ch)
  BY <1>1 DEF EndsLast, Has
<1>. QED
  BY <1>1, <1>2, <1>3, <1>4, <1>5, <1>6, <1>7, <1>8

\* What joining two queues keeps.
LEMMA Joined ==
    ASSUME NEW q \in Seq(Events), NEW events \in Seq(Events)
    PROVE  /\ q \o events \in Seq(Events)
           /\ \A type, ch : Has(q, type, ch) \/ Has(events, type, ch) => Has(q \o events, type, ch)
           /\ \A type, ch : Has(q \o events, type, ch) => Has(q, type, ch) \/ Has(events, type, ch)
           /\ /\ StartsUnique(q) /\ StartsUnique(events)
              /\ \A ch : Has(events, "start", ch) => ~Has(q, "start", ch)
              => StartsUnique(q \o events)
           /\ /\ EndsLast(q) /\ EndsLast(events)
              /\ \A ch : Has(events, "start", ch) => ~Has(q, "end", ch)
              => EndsLast(q \o events)
<1>. DEFINE all == q \o events
<1>1. /\ all \in Seq(Events) /\ Len(q) \in Nat /\ Len(events) \in Nat
      /\ DOMAIN q = 1 .. Len(q) /\ DOMAIN events = 1 .. Len(events)
      /\ DOMAIN all = 1 .. Len(q) + Len(events)
      /\ \A i \in 1 .. Len(q) + Len(events) : all[i] = IF i <= Len(q) THEN q[i] ELSE events[i - Len(q)]
  BY ConcatProperties, LenProperties
<1>. HIDE DEF all
<1>3. \A type, ch : Has(q, type, ch) => Has(all, type, ch)
  BY <1>1 DEF Has
<1>4. \A type, ch : Has(all, type, ch) => Has(q, type, ch) \/ Has(events, type, ch)
  <2>. SUFFICES ASSUME NEW type, NEW ch, Has(all, type, ch)
                PROVE  Has(q, type, ch) \/ Has(events, type, ch)
    OBVIOUS
  <2>1. PICK i \in DOMAIN all : all[i].type = type /\ all[i].ch = ch
    BY DEF Has
  <2>2. CASE i <= Len(q)
    BY <1>1, <2>1, <2>2 DEF Has
  <2>3. CASE ~(i <= Len(q))
    <3>1. i - Len(q) \in DOMAIN events /\ all[i] = events[i - Len(q)]
      BY <1>1, <2>3
    <3>. QED
      BY <2>1, <3>1 DEF Has
  <2>. QED
    BY <2>2, <2>3
<1>5. \A type, ch : Has(events, type, ch) => Has(all, type, ch)
  <2>. SUFFICES ASSUME NEW type, NEW ch, Has(events, type, ch)
                PROVE  Has(all, type, ch)
    OBVIOUS
  <2>1. PICK i \in DOMAIN events : events[i].type = type /\ events[i].ch = ch
    BY DEF Has
  <2>2. i + Len(q) \in DOMAIN all /\ all[i + Len(q)] = events[i]
    BY <1>1
  <2>. QED
    BY <2>1, <2>2 DEF Has
<1>6. ASSUME StartsUnique(q), StartsUnique(events), \A ch : Has(events, "start", ch) => ~Has(q, "start", ch)
      PROVE  StartsUnique(all)
  <2>. SUFFICES ASSUME NEW i \in DOMAIN all, NEW j \in DOMAIN all,
                       all[i].type = "start", all[j].type = "start", all[i].ch = all[j].ch
                PROVE  i = j
    BY DEF StartsUnique
  <2>1. CASE i <= Len(q) /\ j <= Len(q)
    BY <1>1, <1>6, <2>1 DEF StartsUnique
  <2>2. CASE i <= Len(q) /\ ~(j <= Len(q))
    <3>1. j - Len(q) \in DOMAIN events /\ all[j] = events[j - Len(q)] /\ i \in DOMAIN q /\ all[i] = q[i]
      BY <1>1, <2>2
    <3>. QED
      BY <1>6, <3>1 DEF Has
  <2>3. CASE ~(i <= Len(q)) /\ j <= Len(q)
    <3>1. i - Len(q) \in DOMAIN events /\ all[i] = events[i - Len(q)] /\ j \in DOMAIN q /\ all[j] = q[j]
      BY <1>1, <2>3
    <3>. QED
      BY <1>6, <3>1 DEF Has
  <2>4. CASE ~(i <= Len(q)) /\ ~(j <= Len(q))
    <3>1. /\ i - Len(q) \in DOMAIN events /\ all[i] = events[i - Len(q)]
          /\ j - Len(q) \in DOMAIN events /\ all[j] = events[j - Len(q)]
      BY <1>1, <2>4
    <3>2. i - Len(q) = j - Len(q)
      BY <1>6, <3>1 DEF StartsUnique
    <3>. QED
      BY <1>1, <3>2
  <2>. QED
    BY <2>1, <2>2, <2>3, <2>4
<1>7. ASSUME EndsLast(q), EndsLast(events), \A ch : Has(events, "start", ch) => ~Has(q, "end", ch)
      PROVE  EndsLast(all)
  <2>. SUFFICES ASSUME NEW i \in DOMAIN all, NEW j \in DOMAIN all,
                       all[i].type = "end", all[j].type = "start", all[i].ch = all[j].ch
                PROVE  j < i
    BY DEF EndsLast
  <2>1. CASE i <= Len(q) /\ j <= Len(q)
    BY <1>1, <1>7, <2>1 DEF EndsLast
  <2>2. CASE i <= Len(q) /\ ~(j <= Len(q))
    <3>1. j - Len(q) \in DOMAIN events /\ all[j] = events[j - Len(q)] /\ i \in DOMAIN q /\ all[i] = q[i]
      BY <1>1, <2>2
    <3>. QED
      BY <1>7, <3>1 DEF Has
  <2>3. CASE ~(i <= Len(q)) /\ j <= Len(q)
    BY <1>1, <2>3
  <2>4. CASE ~(i <= Len(q)) /\ ~(j <= Len(q))
    <3>1. /\ i - Len(q) \in DOMAIN events /\ all[i] = events[i - Len(q)]
          /\ j - Len(q) \in DOMAIN events /\ all[j] = events[j - Len(q)]
      BY <1>1, <2>4
    <3>2. j - Len(q) < i - Len(q)
      BY <1>7, <3>1 DEF EndsLast
    <3>. QED
      BY <1>1, <3>2
  <2>. QED
    BY <2>1, <2>2, <2>3, <2>4
<1>8. /\ all \in Seq(Events)
      /\ \A type, ch : Has(q, type, ch) \/ Has(events, type, ch) => Has(all, type, ch)
  BY <1>1, <1>3, <1>5
<1>. QED
  BY <1>4, <1>6, <1>7, <1>8 DEF all

\* What Deliver adds to a queue.
LEMMA Delivered ==
    ASSUME NEW q \in Seq(Events), NEW events \in Seq(Events), connected \in BOOLEAN
    PROVE  /\ Deliver(q, events) \in Seq(Events)
           /\ \A type, ch : Has(q, type, ch) => Has(Deliver(q, events), type, ch)
           /\ \A type, ch : Has(Deliver(q, events), type, ch) => Has(q, type, ch) \/ Has(events, type, ch)
           /\ \A type, ch : connected /\ Has(events, type, ch) => Has(Deliver(q, events), type, ch)
           /\ /\ StartsUnique(q) /\ StartsUnique(events)
              /\ \A ch : Has(events, "start", ch) => ~Has(q, "start", ch)
              => StartsUnique(Deliver(q, events))
           /\ /\ EndsLast(q) /\ EndsLast(events)
              /\ \A ch : Has(events, "start", ch) => ~Has(q, "end", ch)
              => EndsLast(Deliver(q, events))
<1>1. CASE ~connected
  BY <1>1 DEF Deliver
<1>2. CASE connected
  <2>1. Deliver(q, events) = q \o events
    BY <1>2 DEF Deliver
  <2>. QED
    BY <2>1, Joined
<1>. QED
  BY <1>1, <1>2

\* The StasisStart of a channel.
LEMMA OneStart ==
    ASSUME NEW ch \in Channels
    PROVE  /\ <<Event("start", ch)>> \in Seq(Events)
           /\ \A type, k : Has(<<Event("start", ch)>>, type, k) <=> type = "start" /\ k = ch
           /\ StartsUnique(<<Event("start", ch)>>) /\ EndsLast(<<Event("start", ch)>>)
<1>1. Event("start", ch) \in Events /\ Event("start", ch).type = "start" /\ Event("start", ch).ch = ch
  BY DEF Event, Events
<1>2. /\ <<Event("start", ch)>> \in Seq(Events)
      /\ DOMAIN <<Event("start", ch)>> = {1} /\ <<Event("start", ch)>>[1] = Event("start", ch)
  BY <1>1
<1>. QED
  BY <1>1, <1>2 DEF Has, StartsUnique, EndsLast

\* The events of a channel's end.
LEMMA Ending ==
    ASSUME NEW ch \in Channels
    PROVE  /\ EndEvents(ch) \in Seq(Events)
           /\ \A k : ~Has(EndEvents(ch), "start", k)
           /\ StartsUnique(EndEvents(ch)) /\ EndsLast(EndEvents(ch))
           /\ \A k : Has(EndEvents(ch), "end", k) <=> k = ch /\ chan[ch] = "stasis"
           /\ \A k : Has(EndEvents(ch), "destroyed", k) => k = ch /\ chan[ch] \in {"stasis", "ringing"}
<1>. DEFINE destroyed == IF ch \in Dialed THEN <<Event("destroyed", ch)>> ELSE <<>>
<1>1. /\ Event("end", ch) \in Events /\ Event("end", ch).type = "end" /\ Event("end", ch).ch = ch
      /\ Event("destroyed", ch) \in Events
      /\ Event("destroyed", ch).type = "destroyed" /\ Event("destroyed", ch).ch = ch
  BY DEF Event, Events
<1>2. /\ destroyed \in Seq(Events)
      /\ Len(destroyed) \in {0, 1} /\ DOMAIN destroyed = 1 .. Len(destroyed)
      /\ \A i \in DOMAIN destroyed : destroyed[i] = Event("destroyed", ch)
  <2>1. CASE ch \in Dialed
    BY <1>1, <2>1
  <2>2. CASE ch \notin Dialed
    BY <2>2
  <2>. QED
    BY <2>1, <2>2
<1>3. chan[ch] = "stasis" =>
        /\ EndEvents(ch) = <<Event("end", ch)>> \o destroyed
        /\ EndEvents(ch) \in Seq(Events)
        /\ 1 \in DOMAIN EndEvents(ch) /\ EndEvents(ch)[1] = Event("end", ch)
        /\ \A i \in DOMAIN EndEvents(ch) : i # 1 => EndEvents(ch)[i] = Event("destroyed", ch)
  <2>. HAVE chan[ch] = "stasis"
  <2>1. EndEvents(ch) = <<Event("end", ch)>> \o destroyed
    BY DEF EndEvents
  <2>. HIDE DEF destroyed
  <2>2. /\ <<Event("end", ch)>> \in Seq(Events) /\ Len(<<Event("end", ch)>>) = 1
        /\ <<Event("end", ch)>>[1] = Event("end", ch)
    BY <1>1
  <2>3. /\ EndEvents(ch) \in Seq(Events) /\ Len(EndEvents(ch)) = 1 + Len(destroyed)
        /\ DOMAIN EndEvents(ch) = 1 .. 1 + Len(destroyed)
        /\ \A i \in 1 .. 1 + Len(destroyed) :
               EndEvents(ch)[i] = IF i <= 1 THEN <<Event("end", ch)>>[i] ELSE destroyed[i - 1]
    BY <1>2, <2>1, <2>2, ConcatProperties, LenProperties
  <2>. QED
    BY <1>2, <2>1, <2>2, <2>3
<1>4. chan[ch] = "ringing" => EndEvents(ch) = destroyed
  BY DEF EndEvents
<1>5. chan[ch] \notin {"stasis", "ringing"} => EndEvents(ch) = <<>>
  BY DEF EndEvents
<1>. HIDE DEF destroyed
<1>6. CASE chan[ch] = "stasis"
  BY <1>1, <1>3, <1>6 DEF Has, StartsUnique, EndsLast
<1>7. CASE chan[ch] = "ringing"
  BY <1>1, <1>2, <1>4, <1>7 DEF Has, StartsUnique, EndsLast
<1>8. CASE chan[ch] \notin {"stasis", "ringing"}
  <2>1. <<>> \in Seq(Events) /\ DOMAIN <<>> = {}
    OBVIOUS
  <2>. QED
    BY <1>5, <1>8, <2>1 DEF Has, StartsUnique, EndsLast
<1>. QED
  BY <1>6, <1>7, <1>8

\* What a step does to Asterisk that only ends channels, the events left of the
\* queue being q: what ends is reported at the end of the queue.
EndsOnly(q) ==
    /\ chan' \in [Channels -> {"none", "ringing", "stasis", "gone"}]
    /\ queue' \in Seq(Events)
    /\ \A k \in Channels : chan'[k] = chan[k] \/ (chan[k] \in {"stasis", "ringing"} /\ chan'[k] = "gone")
    /\ \A k : Has(queue', "start", k) => Has(q, "start", k)
    /\ StartsUnique(q) => StartsUnique(queue')
    /\ EndsLast(q) => EndsLast(queue')
    /\ \A k \in Channels : \A type \in {"end", "destroyed"} :
           Has(queue', type, k) => Has(q, type, k) \/ chan'[k] = "gone"
    /\ \A k : Has(q, "end", k) => Has(queue', "end", k)
    /\ \A k \in Channels : connected /\ chan[k] = "stasis" /\ chan'[k] = "gone" => Has(queue', "end", k)

ChanType == chan \in [Channels -> {"none", "ringing", "stasis", "gone"}] /\ connected \in BOOLEAN

\* hangupChannel on one channel.
LEMMA HangupEnds ==
    ASSUME NEW q \in Seq(Events), NEW ch \in Channels, ChanType,
           chan' = EndChannel(chan, ch), queue' = Deliver(q, EndEvents(ch))
    PROVE  EndsOnly(q) /\ chan'[ch] \notin {"stasis", "ringing"} /\ (chan[ch] # "none" => chan'[ch] = "gone")
<1>1. /\ chan' \in [Channels -> {"none", "ringing", "stasis", "gone"}]
      /\ \A k \in Channels : k # ch => chan'[k] = chan[k]
      /\ chan[ch] \in {"stasis", "ringing"} => chan'[ch] = "gone"
      /\ chan[ch] \notin {"stasis", "ringing"} => chan'[ch] = chan[ch]
  BY DEF ChanType, EndChannel
<1>2. EndEvents(ch) \in Seq(Events)
  BY Ending
<1>3. /\ queue' \in Seq(Events)
      /\ \A type, k : Has(q, type, k) => Has(queue', type, k)
      /\ \A type, k : Has(queue', type, k) => Has(q, type, k) \/ Has(EndEvents(ch), type, k)
      /\ \A type, k : connected /\ Has(EndEvents(ch), type, k) => Has(queue', type, k)
      /\ StartsUnique(q) => StartsUnique(queue')
      /\ EndsLast(q) => EndsLast(queue')
  <2>1. \A k : ~Has(EndEvents(ch), "start", k)
    BY Ending
  <2>2. StartsUnique(EndEvents(ch)) /\ EndsLast(EndEvents(ch))
    BY Ending
  <2>. QED
    BY <1>2, <2>1, <2>2, Delivered DEF ChanType
<1>4. \A k : ~Has(EndEvents(ch), "start", k)
  BY Ending
<1>5. \A k : Has(EndEvents(ch), "end", k) <=> k = ch /\ chan[ch] = "stasis"
  BY Ending
<1>6. \A k : Has(EndEvents(ch), "destroyed", k) => k = ch /\ chan[ch] \in {"stasis", "ringing"}
  BY Ending
<1>7. \A k \in Channels : \A type \in {"end", "destroyed"} :
        Has(queue', type, k) => Has(q, type, k) \/ chan'[k] = "gone"
  BY <1>1, <1>3, <1>5, <1>6
<1>. QED
  BY <1>1, <1>3, <1>4, <1>5, <1>7 DEF EndsOnly, ChanType

\* hangupChannel on both legs of a call.
LEMMA HangupBothEnds ==
    ASSUME NEW q \in Seq(Events), NEW c \in Channels, extOf[c] \in Channels, c # extOf[c], ChanType,
           HangupBoth(c, q)
    PROVE  /\ EndsOnly(q)
           /\ \A ch \in {c, extOf[c]} : /\ chan'[ch] \notin {"stasis", "ringing"}
                                        /\ chan[ch] # "none" => chan'[ch] = "gone"
<1>. DEFINE e == extOf[c]
            events == EndEvents(c) \o EndEvents(e)
<1>1. /\ chan' \in [Channels -> {"none", "ringing", "stasis", "gone"}]
      /\ \A k \in Channels : k \notin {c, e} => chan'[k] = chan[k]
      /\ \A ch \in {c, e} : /\ chan[ch] \in {"stasis", "ringing"} => chan'[ch] = "gone"
                            /\ chan[ch] \notin {"stasis", "ringing"} => chan'[ch] = chan[ch]
  BY DEF ChanType, EndChannel, HangupBoth
<1>2. EndEvents(c) \in Seq(Events) /\ EndEvents(e) \in Seq(Events)
  BY Ending
<1>3. \A k : ~Has(EndEvents(c), "start", k) /\ ~Has(EndEvents(e), "start", k)
  BY Ending
<1>4. StartsUnique(EndEvents(c)) /\ EndsLast(EndEvents(c)) /\ StartsUnique(EndEvents(e)) /\ EndsLast(EndEvents(e))
  BY Ending
<1>5. /\ \A k : Has(EndEvents(c), "end", k) <=> k = c /\ chan[c] = "stasis"
      /\ \A k : Has(EndEvents(e), "end", k) <=> k = e /\ chan[e] = "stasis"
  BY Ending
<1>6. /\ \A k : Has(EndEvents(c), "destroyed", k) => k = c /\ chan[c] \in {"stasis", "ringing"}
      /\ \A k : Has(EndEvents(e), "destroyed", k) => k = e /\ chan[e] \in {"stasis", "ringing"}
  BY Ending
<1>7. /\ events \in Seq(Events)
      /\ \A type, k : Has(events, type, k) <=> Has(EndEvents(c), type, k) \/ Has(EndEvents(e), type, k)
      /\ StartsUnique(events) /\ EndsLast(events)
  BY <1>2, <1>3, <1>4, Joined
<1>8. queue' = Deliver(q, events)
  BY DEF HangupBoth
<1>. HIDE DEF e, events
<1>9. /\ queue' \in Seq(Events)
      /\ \A type, k : Has(q, type, k) => Has(queue', type, k)
      /\ \A type, k : Has(queue', type, k) => Has(q, type, k) \/ Has(events, type, k)
      /\ \A type, k : connected /\ Has(events, type, k) => Has(queue', type, k)
      /\ StartsUnique(q) => StartsUnique(queue')
      /\ EndsLast(q) => EndsLast(queue')
  <2>1. \A k : ~Has(events, "start", k)
    BY <1>3, <1>7
  <2>. QED
    BY <1>7, <1>8, <2>1, Delivered DEF ChanType
<1>10. \A k \in Channels : \A type \in {"end", "destroyed"} :
         Has(queue', type, k) => Has(q, type, k) \/ chan'[k] = "gone"
  BY <1>1, <1>5, <1>6, <1>7, <1>9
<1>11. EndsOnly(q)
  BY <1>1, <1>3, <1>5, <1>7, <1>9, <1>10 DEF EndsOnly, ChanType
<1>. QED
  BY <1>1, <1>11 DEF e, ChanType

-----------------------------------------------------------------------------
\* What any step does to the channels and the queue: a channel begins, enters
\* Stasis and ends in that order, each once, and the queue reports it.
Moves ==
    /\ chan' \in [Channels -> {"none", "ringing", "stasis", "gone"}]
    /\ queue' \in Seq(Events)
    /\ \A k \in Channels : \/ chan'[k] = chan[k]
                           \/ chan[k] = "none" /\ chan'[k] \in {"ringing", "stasis"}
                           \/ chan[k] = "ringing" /\ chan'[k] \in {"stasis", "gone"}
                           \/ chan[k] = "stasis" /\ chan'[k] = "gone"
    /\ \A k \in Channels : chan'[k] = "ringing" => k \in Dialed
    /\ \A x \in ExtIds : chan[x] = "none" /\ chan'[x] # "none" =>
           loop.pc = "ext" /\ x = extOf[loop.ch] /\ loop'.pc = "idle" /\ extOf' = extOf
    /\ StartsUnique(queue') /\ EndsLast(queue')
    /\ \A k \in Channels : Has(queue', "start", k) =>
           Has(queue, "start", k) \/ (chan[k] \in {"none", "ringing"} /\ chan'[k] = "stasis")
    /\ \A k \in Channels : Has(queue', "end", k) \/ Has(queue', "destroyed", k) => chan'[k] = "gone"
    /\ \A k \in Channels : Has(queue, "end", k) =>
           Has(queue', "end", k) \/ (Takes("end") /\ Head(queue).ch = k)
    /\ \A k \in Channels : connected /\ chan[k] = "stasis" /\ chan'[k] = "gone" => Has(queue', "end", k)

ChanOK == ChanType /\ queue \in Seq(Events) /\ StartsOnce /\ ExtOnce

\* What the invariant says of the channels.
LEMMA InvChanOK == Inv => ChanOK
  BY DEF Inv, ChanOK, ChanType, TypeOK

\* A step that only ends channels, or takes an event and only ends channels.
LEMMA MovesByEnding ==
    ASSUME ChanOK, EndsOnly(queue) \/ (queue # <<>> /\ loop.pc = "idle" /\ EndsOnly(Tail(queue)))
    PROVE  Moves
<1>1. \A k : /\ Has(queue', "start", k) => Has(queue, "start", k)
             /\ Has(queue, "end", k) => Has(queue', "end", k) \/ (Takes("end") /\ Head(queue).ch = k)
  BY HeadTail DEF ChanOK, EndsOnly, Takes
<1>2. StartsUnique(queue') /\ EndsLast(queue')
  BY HeadTail DEF ChanOK, EndsOnly, StartsOnce
<1>3. \A k \in Channels : Has(queue', "end", k) \/ Has(queue', "destroyed", k) => chan'[k] = "gone"
  <2>1. \A k \in Channels : \A type \in {"end", "destroyed"} :
          Has(queue', type, k) => Has(queue, type, k) \/ chan'[k] = "gone"
    BY HeadTail DEF ChanOK, EndsOnly
  <2>2. \A k \in Channels : chan[k] = "gone" => chan'[k] = "gone"
    BY DEF EndsOnly
  <2>. QED
    BY <2>1, <2>2 DEF ChanOK, StartsOnce
<1>4. /\ chan' \in [Channels -> {"none", "ringing", "stasis", "gone"}]
      /\ queue' \in Seq(Events)
      /\ \A k \in Channels : chan'[k] = chan[k] \/ (chan[k] \in {"stasis", "ringing"} /\ chan'[k] = "gone")
      /\ \A k \in Channels : connected /\ chan[k] = "stasis" /\ chan'[k] = "gone" => Has(queue', "end", k)
  BY DEF EndsOnly
<1>5. \A k \in Channels : chan'[k] = "ringing" => k \in Dialed
  BY <1>4 DEF ChanOK, ExtOnce
<1>6. \A x \in ExtIds : chan[x] = "none" => chan'[x] = "none"
  BY <1>4 DEF Channels
<1>. QED
  BY <1>1, <1>2, <1>3, <1>4, <1>5, <1>6 DEF Moves

\* A step in which a channel enters Stasis.
LEMMA MovesByStart ==
    ASSUME ChanOK, NEW ch \in Channels, chan[ch] \in {"none", "ringing"},
           ch \in ExtIds => loop.pc = "ext" /\ ch = extOf[loop.ch] /\ loop'.pc = "idle" /\ extOf' = extOf,
           chan' = [chan EXCEPT ![ch] = "stasis"],
           queue' = Deliver(queue, <<Event("start", ch)>>)
    PROVE  Moves
<1>. DEFINE events == <<Event("start", ch)>>
<1>1. /\ events \in Seq(Events)
      /\ \A type, k : Has(events, type, k) <=> type = "start" /\ k = ch
      /\ StartsUnique(events) /\ EndsLast(events)
  BY OneStart
<1>. HIDE DEF events
<1>2. ~Has(queue, "start", ch) /\ ~Has(queue, "end", ch)
  BY DEF ChanOK, StartsOnce
<1>3. /\ queue' \in Seq(Events)
      /\ StartsUnique(queue') /\ EndsLast(queue')
      /\ \A type, k : Has(queue, type, k) => Has(queue', type, k)
      /\ \A type, k : Has(queue', type, k) => Has(queue, type, k) \/ (type = "start" /\ k = ch)
  <2>1. queue' = Deliver(queue, events)
    BY DEF events
  <2>2. /\ \A k : Has(events, "start", k) => ~Has(queue, "start", k) /\ ~Has(queue, "end", k)
        /\ connected \in BOOLEAN /\ queue \in Seq(Events) /\ StartsUnique(queue) /\ EndsLast(queue)
    BY <1>1, <1>2 DEF ChanOK, ChanType, StartsOnce
  <2>3. queue' \in Seq(Events) /\ StartsUnique(queue') /\ EndsLast(queue')
    BY <1>1, <2>1, <2>2, Delivered
  <2>4. events \in Seq(Events) /\ connected \in BOOLEAN /\ queue \in Seq(Events)
    BY <1>1, <2>2
  <2>5. /\ \A type, k : Has(queue, type, k) => Has(Deliver(queue, events), type, k)
        /\ \A type, k : Has(Deliver(queue, events), type, k) => Has(queue, type, k) \/ Has(events, type, k)
    BY <2>4, Delivered, Zenon
  <2>. QED
    BY <1>1, <2>1, <2>3, <2>5
<1>4. /\ chan' \in [Channels -> {"none", "ringing", "stasis", "gone"}]
      /\ \A k \in Channels : chan'[k] = IF k = ch THEN "stasis" ELSE chan[k]
  BY DEF ChanOK, ChanType
<1>5. \A k \in Channels : Has(queue', "end", k) \/ Has(queue', "destroyed", k) => chan'[k] = "gone"
  BY <1>2, <1>3, <1>4 DEF ChanOK, StartsOnce
<1>. QED
  BY <1>3, <1>4, <1>5 DEF Moves, ChanOK, ExtOnce

\* CreateExt's failure after which the channel exists all the same.
LEMMA MovesByLostExt ==
    ASSUME ChanOK, NEW c \in Channels, extOf[c] \in ExtIds, c # extOf[c], chan[extOf[c]] = "none",
           loop.pc = "ext", loop.ch = c, loop'.pc = "idle", extOf' = extOf,
           chan' = [EndChannel(chan, c) EXCEPT ![extOf[c]] = "stasis"],
           queue' = Deliver(queue, <<Event("start", extOf[c])>> \o EndEvents(c))
    PROVE  Moves /\ chan'[c] \notin {"stasis", "ringing"} /\ (chan[c] # "none" => chan'[c] = "gone")
<1>. DEFINE x == extOf[c]
            events == <<Event("start", x)>> \o EndEvents(c)
<1>0. x \in Channels
  BY DEF Channels
<1>1. /\ <<Event("start", x)>> \in Seq(Events)
      /\ \A type, k : Has(<<Event("start", x)>>, type, k) <=> type = "start" /\ k = x
      /\ StartsUnique(<<Event("start", x)>>) /\ EndsLast(<<Event("start", x)>>)
  BY <1>0, OneStart
<1>2. /\ EndEvents(c) \in Seq(Events)
      /\ \A k : ~Has(EndEvents(c), "start", k)
      /\ StartsUnique(EndEvents(c)) /\ EndsLast(EndEvents(c))
      /\ \A k : Has(EndEvents(c), "end", k) <=> k = c /\ chan[c] = "stasis"
      /\ \A k : Has(EndEvents(c), "destroyed", k) => k = c /\ chan[c] \in {"stasis", "ringing"}
  BY Ending
<1>3. /\ events \in Seq(Events)
      /\ \A type, k : Has(events, type, k) <=> (type = "start" /\ k = x) \/ Has(EndEvents(c), type, k)
      /\ StartsUnique(events) /\ EndsLast(events)
  BY <1>1, <1>2, Joined
<1>4. queue' = Deliver(queue, events) /\ x # c
  OBVIOUS
<1>5. chan[x] = "none" /\ chan' = [EndChannel(chan, c) EXCEPT ![x] = "stasis"]
  OBVIOUS
<1>. HIDE DEF events, x
<1>6. ~Has(queue, "start", x) /\ ~Has(queue, "end", x)
  BY <1>0, <1>5 DEF ChanOK, StartsOnce
<1>7. /\ queue' \in Seq(Events)
      /\ StartsUnique(queue') /\ EndsLast(queue')
      /\ \A type, k : Has(queue, type, k) => Has(queue', type, k)
      /\ \A type, k : Has(queue', type, k) => Has(queue, type, k) \/ Has(events, type, k)
      /\ \A type, k : connected /\ Has(events, type, k) => Has(queue', type, k)
  <2>1. \A k : Has(events, "start", k) => ~Has(queue, "start", k) /\ ~Has(queue, "end", k)
    BY <1>2, <1>3, <1>6
  <2>2. connected \in BOOLEAN /\ queue \in Seq(Events) /\ StartsUnique(queue) /\ EndsLast(queue)
    BY DEF ChanOK, ChanType, StartsOnce
  <2>3. queue' \in Seq(Events) /\ StartsUnique(queue') /\ EndsLast(queue')
    BY <1>3, <1>4, <2>1, <2>2, Delivered
  <2>. QED
    BY <1>3, <1>4, <2>2, <2>3, Delivered
<1>8. /\ chan' \in [Channels -> {"none", "ringing", "stasis", "gone"}]
      /\ \A k \in Channels : k \notin {c, x} => chan'[k] = chan[k]
      /\ chan'[x] = "stasis"
      /\ chan[c] \in {"stasis", "ringing"} => chan'[c] = "gone"
      /\ chan[c] \notin {"stasis", "ringing"} => chan'[c] = chan[c]
  BY <1>0, <1>4, <1>5 DEF EndChannel, ChanOK, ChanType
<1>9. \A k \in Channels : Has(queue', "end", k) \/ Has(queue', "destroyed", k) => chan'[k] = "gone"
  <2>1. \A k \in Channels : \A type \in {"end", "destroyed"} :
          Has(queue', type, k) => Has(queue, type, k) \/ (k = c /\ chan[c] \in {"stasis", "ringing"})
    BY <1>2, <1>3, <1>7
  <2>2. \A k \in Channels : Has(queue, "end", k) \/ Has(queue, "destroyed", k) => chan[k] = "gone"
    BY DEF ChanOK, StartsOnce
  <2>. QED
    BY <1>5, <1>8, <2>1, <2>2
<1>10. \A k \in Channels : Has(queue', "start", k) =>
         Has(queue, "start", k) \/ (chan[k] \in {"none", "ringing"} /\ chan'[k] = "stasis")
  BY <1>2, <1>3, <1>5, <1>7, <1>8
<1>11. \A k \in Channels : connected /\ chan[k] = "stasis" /\ chan'[k] = "gone" => Has(queue', "end", k)
  BY <1>2, <1>3, <1>5, <1>7, <1>8
<1>12. \A y \in ExtIds : chan[y] = "none" /\ chan'[y] # "none" => y = x
  BY <1>8 DEF Channels
<1>. QED
  BY <1>0, <1>5, <1>7, <1>8, <1>9, <1>10, <1>11, <1>12 DEF Moves, ChanOK, ChanType, ExtOnce, x

\* Asterisk begins to dial.
LEMMA MovesByRinging ==
    ASSUME ChanOK, NEW ch \in Dialed, chan[ch] = "none", chan' = [chan EXCEPT ![ch] = "ringing"],
           UNCHANGED queue
    PROVE  Moves
  BY ManagerAssumption DEF Moves, ChanOK, ChanType, StartsOnce, ExtOnce, Channels

\* Nothing ends.
LEMMA NothingEnds ==
    ASSUME ChanOK, UNCHANGED chan, NEW q \in Seq(Events), queue' = q
    PROVE  EndsOnly(q)
  BY DEF EndsOnly, ChanOK, ChanType

\* The legs of a call that has begun are two channels.
LEMMA TwoLegs ==
    ASSUME Inv, NEW c \in Channels, Started(c)
    PROVE  extOf[c] \in ExtIds /\ extOf[c] \in Channels /\ c # extOf[c]
  BY DEF Inv, TypeOK, ExtOnce, Started, Channels

\* The event at the head of the queue, and the call a map leads to from it.
LEMMA HeadOf ==
    ASSUME Inv, NEW type, Takes(type)
    PROVE  /\ queue \in Seq(Events) /\ queue # <<>> /\ Tail(queue) \in Seq(Events)
           /\ Head(queue).ch \in Channels
           /\ Has(queue, type, Head(queue).ch)
           /\ loop.pc = "idle" /\ loop.ch = None
  BY HeadTail DEF Takes, Inv, TypeOK, Events, LoopOK

\* The loop's channel while it works.
LEMMA LoopChannel ==
    ASSUME Inv, loop.pc \notin {"idle", "stopped"}
    PROVE  loop.ch \in Channels
  BY DEF Inv, TypeOK, LoopOK

\* abort ends both legs or nothing.
LEMMA AbortEnds ==
    ASSUME Inv, NEW c \in Channels, Started(c), NEW q \in Seq(Events), Abort(c, q)
    PROVE  EndsOnly(q)
<1>1. ChanOK /\ ChanType
  BY InvChanOK DEF ChanOK
<1>2. CASE HangupBoth(c, q)
  BY <1>1, <1>2, TwoLegs, HangupBothEnds
<1>3. CASE queue' = q /\ chan' = chan
  BY <1>1, <1>3, NothingEnds
<1>. QED
  BY <1>2, <1>3 DEF Abort, AbortCleanup

\* How channels and events move in a step.
LEMMA StepMoves == Inv /\ [Next]_vars => Moves /\ connected' \in BOOLEAN
<1>. SUFFICES ASSUME Inv, [Next]_vars PROVE Moves /\ connected' \in BOOLEAN
  OBVIOUS
<1>. USE ManagerAssumption DEF asteriskVars, managerVars, callVars, dialVars, boundVars
<1>0. ChanOK /\ ChanType /\ queue \in Seq(Events) /\ connected \in BOOLEAN
  BY InvChanOK DEF ChanOK, ChanType
<1>a. ASSUME UNCHANGED <<chan, queue>> PROVE Moves
  BY <1>0, <1>a, NothingEnds, MovesByEnding
<1>b. ASSUME NEW type, Takes(type), chan' = chan, queue' = Tail(queue) PROVE Moves
  BY <1>0, <1>b, HeadOf, NothingEnds, MovesByEnding
<1>c. ASSUME NEW ch \in Channels, Hangup(ch) PROVE Moves
  BY <1>0, <1>c, HangupEnds, MovesByEnding DEF Hangup
<1>1. CASE WebSocketDrops \/ WebSocketReturns
  BY <1>0, <1>1, <1>a DEF WebSocketDrops, WebSocketReturns
<1>2. ASSUME NEW ch \in Channels, CallerArrives(ch) PROVE Moves /\ UNCHANGED connected
  BY <1>0, <1>2, MovesByStart DEF CallerArrives, Channels
<1>3. ASSUME NEW ch \in Channels, CalleeAnswers(ch) PROVE Moves /\ UNCHANGED connected
  <2>1. ch \notin ExtIds
    BY <1>0, <1>3 DEF CalleeAnswers, ChanOK, ExtOnce
  <2>. QED
    BY <1>0, <1>3, <2>1, MovesByStart DEF CalleeAnswers
<1>4. ASSUME NEW ch \in Channels, ChannelEnds(ch) PROVE Moves /\ UNCHANGED connected
  BY <1>4, <1>c DEF ChannelEnds
<1>5. ASSUME OnExternalStart \/ OnCallerStart PROVE Moves
  BY <1>5, <1>b DEF OnExternalStart, OnCallerStart
<1>6. ASSUME OnOutboundAnswered PROVE Moves
  <2>1. Takes("start") /\ Head(queue).ch \in Channels /\ Tail(queue) \in Seq(Events)
    BY <1>6, HeadOf DEF OnOutboundAnswered
  <2>2. CASE chan' = chan /\ queue' = Tail(queue)
    BY <2>1, <2>2, <1>b
  <2>3. CASE /\ chan' = EndChannel(chan, Head(queue).ch)
             /\ queue' = Deliver(Tail(queue), EndEvents(Head(queue).ch))
    BY <1>0, <2>1, <2>3, HangupEnds, MovesByEnding DEF Takes
  <2>. QED
    BY <1>6, <2>2, <2>3 DEF OnOutboundAnswered
<1>7. ASSUME StartCall PROVE Moves
  <2>1. loop.ch \in Channels
    BY <1>7, LoopChannel DEF StartCall
  <2>2. Hangup(loop.ch) \/ UNCHANGED <<chan, queue>>
    BY <1>7 DEF StartCall
  <2>. QED
    BY <2>1, <2>2, <1>a, <1>c
<1>8. ASSUME CreateExt PROVE Moves
  <2>. DEFINE c == loop.ch
  <2>1. loop.pc = "ext" /\ loop'.pc = "idle" /\ extOf' = extOf
    BY <1>8 DEF CreateExt, LoopIdle, Idle, Doing
  <2>2. c \in Channels /\ Started(c)
    BY <2>1, LoopChannel DEF Inv, LoopOK
  <2>3. extOf[c] \in ExtIds /\ extOf[c] \in Channels /\ c # extOf[c]
    BY <2>2, TwoLegs
  <2>4. chan[extOf[c]] = "none"
    BY <2>1, <2>2, <2>3 DEF Inv, ExtOnce, Started
  <2>5. CASE /\ chan' = [chan EXCEPT ![extOf[c]] = "stasis"]
             /\ queue' = Deliver(queue, <<Event("start", extOf[c])>>)
    BY <1>0, <2>1, <2>3, <2>4, <2>5, MovesByStart
  <2>6. CASE Hangup(c)
    BY <2>2, <2>6, <1>c
  <2>7. CASE /\ chan' = [EndChannel(chan, c) EXCEPT ![extOf[c]] = "stasis"]
             /\ queue' = Deliver(queue, <<Event("start", extOf[c])>> \o EndEvents(c))
    BY <1>0, <2>1, <2>2, <2>3, <2>4, <2>7, MovesByLostExt
  <2>. QED
    BY <1>8, <2>5, <2>6, <2>7 DEF CreateExt
<1>9. ASSUME BridgeCall PROVE Moves
  <2>1. loop.ch \in Channels /\ Started(loop.ch)
    BY <1>9, LoopChannel DEF BridgeCall, Inv, LoopOK
  <2>2. UNCHANGED <<chan, queue>> \/ Abort(loop.ch, queue)
    BY <1>9 DEF BridgeCall
  <2>. QED
    BY <1>0, <2>1, <2>2, <1>a, AbortEnds, MovesByEnding
<1>10. ASSUME Activate \/ LoopTeardown PROVE Moves
  BY <1>10, <1>a DEF Activate, LoopTeardown
<1>11. ASSUME OnActiveEnd \/ OnOtherEnd PROVE Moves
  BY <1>11, <1>b DEF OnActiveEnd, OnOtherEnd
<1>12. ASSUME OnStagedEnd PROVE Moves
  <2>. DEFINE c == pending[Head(queue).ch]
  <2>1. Takes("end") /\ Head(queue).ch \in Channels /\ c # None /\ Abort(c, Tail(queue))
    BY <1>12, HeadOf DEF OnStagedEnd
  <2>2. c \in Channels /\ Started(c)
    BY <2>1 DEF Inv, TypeOK, MapsOK
  <2>. QED
    BY <1>0, <2>1, <2>2, HeadOf, AbortEnds, MovesByEnding
<1>13. ASSUME OnOutboundDestroyed PROVE Moves
  BY <1>13, <1>b DEF OnOutboundDestroyed
<1>14. ASSUME NEW c \in Channels, TeardownStep(c) PROVE Moves /\ UNCHANGED connected
  <2>1. CASE TdMaps(c) \/ TdPorts(c)
    BY <2>1, <1>a DEF TdMaps, TdPorts, FreesPort
  <2>2. CASE TdLegs(c)
    <3>1. Started(c) /\ HangupBoth(c, queue) /\ UNCHANGED connected
      BY <2>2 DEF TdLegs, Inv, CallOK, CallAt
    <3>. QED
      BY <1>0, <3>1, TwoLegs, HangupBothEnds, MovesByEnding
  <2>. QED
    BY <1>14, <2>1, <2>2 DEF TeardownStep
<1>15. ASSUME NEW c \in Channels, MediaStep(c) \/ MediaDead(c) \/ TimerFires(c)
       PROVE  Moves /\ UNCHANGED connected
  BY <1>15, <1>a DEF MediaStep, MediaAccept, MediaBuild, MediaAssign, MediaSetState, MediaEnds, MediaDead, TimerFires
<1>16. ASSUME Poll \/ Shutdown PROVE Moves
  BY <1>16, <1>a DEF Poll, Shutdown
<1>17. ASSUME NEW who \in Purgers, PurgeStep(who) PROVE Moves /\ UNCHANGED connected
  <2>1. CASE PurgeCollect(who) \/ PurgeCall(who) \/ PurgeNext(who)
    BY <2>1, <1>a DEF PurgeCollect, PurgeCall, PurgeNext
  <2>2. CASE PurgeRinging(who)
    <3>1. PICK ch \in purge[who].todo : Hangup(ch) \/ UNCHANGED <<chan, queue>>
      BY <2>2 DEF PurgeRinging
    <3>2. ch \in Channels /\ UNCHANGED connected
      BY <2>2, <3>1 DEF PurgeRinging, Inv, TypeOK
    <3>. QED
      BY <3>1, <3>2, <1>a, <1>c
  <2>. QED
    BY <1>17, <2>1, <2>2 DEF PurgeStep
<1>18. ASSUME NEW ch \in Dialed, DialStart(ch) \/ DialOk(ch) \/ DialErr(ch) PROVE Moves /\ UNCHANGED connected
  BY <1>18, <1>a DEF DialStart, DialOk, DialErr
<1>19. ASSUME NEW ch \in Dialed, Originate(ch) PROVE Moves /\ UNCHANGED connected
  BY <1>0, <1>19, MovesByRinging DEF Originate
<1>20. ASSUME NEW ch \in Dialed, WatchdogFires(ch) PROVE Moves /\ UNCHANGED connected
  BY <1>20, <1>c DEF WatchdogFires, Channels
<1>21. CASE UNCHANGED vars
  BY <1>0, <1>21, <1>a DEF vars
<1>22. CASE LoopStep
  <2>1. LoopStep => UNCHANGED connected
    BY DEF LoopStep, OnExternalStart, OnCallerStart, OnOutboundAnswered, StartCall, CreateExt, BridgeCall,
           Activate, OnActiveEnd, LoopTeardown, OnStagedEnd, OnOtherEnd, OnOutboundDestroyed, Hangup
  <2>. QED
    BY <1>0, <1>5, <1>6, <1>7, <1>8, <1>9, <1>10, <1>11, <1>12, <1>13, <1>22, <2>1 DEF LoopStep
<1>23. CASE Poll \/ Shutdown
  BY <1>0, <1>16, <1>23 DEF Poll, Shutdown
<1>. QED
  BY <1>0, <1>1, <1>2, <1>3, <1>4, <1>14, <1>15, <1>17, <1>18, <1>19, <1>20, <1>21, <1>22, <1>23 DEF Next

\* A set of numbers has a least one.
LEMMA LeastNat ==
    ASSUME NEW S, S \subseteq Nat, S # {}
    PROVE  \E p \in S : \A x \in S : p <= x
<1>. DEFINE R == OpToRel(<, Nat)
<1>1. R = {ss \in Nat \X Nat : ss[1] < ss[2]}
  BY Zenon DEF OpToRel
<1>2. IsWellFoundedOn(R, Nat)
  BY NatLessThanWellFounded, Zenon
<1>. HIDE DEF R
<1>3. PICK p \in S : \A x \in S : <<x, p>> \notin R
  BY <1>2, WFMin
<1>4. \A x \in S : x \in Nat /\ p \in Nat /\ ~(x < p)
  <2>. SUFFICES ASSUME NEW x \in S, x < p PROVE FALSE
    OBVIOUS
  <2>1. <<x, p>> \in Nat \X Nat /\ <<x, p>>[1] < <<x, p>>[2]
    OBVIOUS
  <2>2. <<x, p>> \in R
    BY <1>1, <2>1
  <2>. QED
    BY <1>3, <2>2
<1>. QED
  BY <1>4

\* The lowest free port is a free port.
LEMMA LowestFreePort ==
    ASSUME TypeOK, FreePorts # {}
    PROVE  LowestFree \in FreePorts
<1>1. FreePorts \subseteq Nat
  BY ManagerAssumption DEF FreePorts
<1>2. \E p \in FreePorts : \A x \in FreePorts : p <= x
  BY <1>1, LeastNat
<1>. QED
  BY <1>2 DEF LowestFree

\* A fresh ExternalID is nobody's.
LEMMA FreshId ==
    ASSUME \E x \in ExtIds : \A c \in Channels : extOf[c] # x
    PROVE  FreshExt \in ExtIds /\ \A c \in Channels : extOf[c] # FreshExt
  BY DEF FreshExt

\* The types of all but the channels and the queue.
ManagerTypes ==
    /\ bridgeUp \subseteq Channels
    /\ pending \in [Channels -> Channels \cup {None}] /\ active \in [Channels -> Channels \cup {None}]
    /\ used \subseteq Ports /\ gauge \in Int
    /\ loop \in [pc : LoopPcs, ch : Channels \cup {None}]
    /\ sawUp \in BOOLEAN
    /\ purge \in [Purgers -> [pc : {"off", "ringing", "teardown"}, todo : SUBSET Channels,
                               cur : Channels \cup {None}]]
    /\ faults \in 0..MaxFaults /\ drops \in 0..MaxDrops
CallTypes ==
    /\ sess \in [Channels -> {"none", "staged", "bridged", "mediaactive", "torndown"}]
    /\ extOf \in [Channels -> ExtIds \cup {None}] /\ port \in [Channels -> Ports \cup {None}]
    /\ held \in [Channels -> BOOLEAN] /\ sock \in [Channels -> BOOLEAN]
    /\ bridge \in [Channels -> BOOLEAN] /\ withOut \in [Channels -> BOOLEAN]
    /\ timer \in [Channels -> BOOLEAN]
    /\ td \in [Channels -> TdPcs] /\ media \in [Channels -> MediaPcs]
DialTypes ==
    /\ outbound \subseteq Dialed
    /\ dial \in [Dialed -> {"none", "originating", "placed", "error"}]
    /\ watchdog \in [Dialed -> BOOLEAN] /\ answered \in [Dialed -> BOOLEAN]
    /\ agentStarted \in [Dialed -> BOOLEAN] /\ done \in [Dialed -> {"none", "notconnected", "connected"}]


\* The types of the manager's variables.
LEMMA ManagerTypesStep == Inv /\ [Next]_vars => ManagerTypes'
<1>. SUFFICES ASSUME Inv, ManagerTypes, [Next]_vars PROVE ManagerTypes'
  BY DEF Inv, TypeOK, ManagerTypes
<1>. USE ManagerAssumption DEF asteriskVars, managerVars, callVars, dialVars, boundVars, ManagerTypes, Purgers, LoopPcs
<1>0. TypeOK
  BY DEF Inv
<1>1. ASSUME NEW ch \in Channels, CallerArrives(ch) PROVE ManagerTypes'
  BY <1>1 DEF CallerArrives
<1>2. ASSUME NEW ch \in Channels, CalleeAnswers(ch) PROVE ManagerTypes'
  BY <1>2 DEF CalleeAnswers
<1>3. ASSUME NEW ch \in Channels, ChannelEnds(ch) PROVE ManagerTypes'
  BY <1>3 DEF ChannelEnds
<1>4. ASSUME WebSocketDrops PROVE ManagerTypes'
  BY <1>4 DEF WebSocketDrops
<1>5. ASSUME WebSocketReturns PROVE ManagerTypes'
  BY <1>5 DEF WebSocketReturns
<1>6. ASSUME OnExternalStart PROVE ManagerTypes'
  BY <1>6, HeadOf DEF OnExternalStart, Takes, LoopTo, Doing, IsExternal, WithoutLegs
<1>7. ASSUME OnCallerStart PROVE ManagerTypes'
  BY <1>7, HeadOf DEF OnCallerStart, Takes, LoopTo, Doing, IsExternal
<1>8. ASSUME OnOutboundAnswered PROVE ManagerTypes'
  BY <1>8, HeadOf DEF OnOutboundAnswered, Takes, LoopTo, Doing
<1>9. ASSUME StartCall PROVE ManagerTypes'
  <2>1. loop.ch \in Channels
    BY <1>9, LoopChannel DEF StartCall
  <2>2. used' \subseteq Ports
    <3>1. used' = used \/ (FreePorts # {} /\ used' = used \cup {LowestFree})
      BY <1>9 DEF StartCall
    <3>2. FreePorts # {} => LowestFree \in Ports
      BY <1>0, LowestFreePort DEF FreePorts
    <3>. QED
      BY <3>1, <3>2
  <2>3. pending' \in [Channels -> Channels \cup {None}]
    BY <1>9, <2>1, FreshId DEF StartCall
  <2>4. loop' \in [pc : LoopPcs, ch : Channels \cup {None}]
    BY <1>9, <2>1 DEF StartCall, LoopTo, LoopIdle, Idle, Doing
  <2>5. faults' \in 0..MaxFaults
    BY <1>9 DEF StartCall, Fault, NoFault
  <2>. QED
    BY <1>9, <2>2, <2>3, <2>4, <2>5 DEF StartCall
<1>10. ASSUME CreateExt PROVE ManagerTypes'
  <2>1. loop.ch \in Channels
    BY <1>10, LoopChannel DEF CreateExt
  <2>2. pending' \in [Channels -> Channels \cup {None}]
    BY <1>10 DEF CreateExt, WithoutLegs
  <2>3. faults' \in 0..MaxFaults
    BY <1>10 DEF CreateExt, Fault, NoFault
  <2>4. used' \subseteq Ports
    BY <1>10 DEF CreateExt
  <2>5. loop' \in [pc : LoopPcs, ch : Channels \cup {None}]
    BY <1>10 DEF CreateExt, LoopIdle, Idle, Doing
  <2>. QED
    BY <1>10, <2>2, <2>3, <2>4, <2>5 DEF CreateExt
<1>11. ASSUME BridgeCall PROVE ManagerTypes'
  <2>1. loop.ch \in Channels
    BY <1>11, LoopChannel DEF BridgeCall
  <2>2. bridgeUp' \subseteq Channels
    BY <1>11, <2>1 DEF BridgeCall
  <2>3. faults' \in 0..MaxFaults
    BY <1>11 DEF BridgeCall, Fault, NoFault
  <2>4. used' \subseteq Ports
    BY <1>11 DEF BridgeCall, Abort, AbortCleanup
  <2>5. loop' \in [pc : LoopPcs, ch : Channels \cup {None}]
    BY <1>11, <2>1 DEF BridgeCall, Abort, LoopTo, LoopIdle, Idle, Doing
  <2>. QED
    BY <1>11, <2>2, <2>3, <2>4, <2>5 DEF BridgeCall
<1>12. ASSUME Activate PROVE ManagerTypes'
  <2>1. loop.ch \in Channels
    BY <1>12, LoopChannel DEF Activate
  <2>2. active' \in [Channels -> Channels \cup {None}]
    BY <1>12, <2>1 DEF Activate
  <2>3. gauge' \in Int
    BY <1>12 DEF Activate
  <2>5. loop' \in [pc : LoopPcs, ch : Channels \cup {None}]
    BY <1>12 DEF Activate, LoopIdle, Idle, Doing
  <2>. QED
    BY <1>12, <2>2, <2>3, <2>5 DEF Activate
<1>13. ASSUME OnActiveEnd PROVE ManagerTypes'
  BY <1>13, HeadOf DEF OnActiveEnd, Takes, StartTeardown, LoopTo, Doing, WithoutLegs
<1>14. ASSUME LoopTeardown PROVE ManagerTypes'
  BY <1>14 DEF LoopTeardown, LoopIdle, Idle, Doing
<1>15. ASSUME OnStagedEnd PROVE ManagerTypes'
  <2>1. pending[Head(queue).ch] \in Channels
    BY <1>15, HeadOf DEF OnStagedEnd
  <2>2. pending' \in [Channels -> Channels \cup {None}]
    BY <1>15 DEF OnStagedEnd, WithoutLegs
  <2>4. used' \subseteq Ports
    BY <1>15 DEF OnStagedEnd, Abort, AbortCleanup
  <2>5. loop' \in [pc : LoopPcs, ch : Channels \cup {None}]
    BY <1>15, <2>1 DEF OnStagedEnd, Abort, LoopTo, LoopIdle, Idle, Doing
  <2>. QED
    BY <1>15, <2>2, <2>4, <2>5 DEF OnStagedEnd
<1>16. ASSUME OnOtherEnd PROVE ManagerTypes'
  BY <1>16 DEF OnOtherEnd, Takes
<1>17. ASSUME OnOutboundDestroyed PROVE ManagerTypes'
  BY <1>17, HeadOf DEF OnOutboundDestroyed, Takes
<1>18. ASSUME NEW c \in Channels, TdMaps(c) PROVE ManagerTypes'
  BY <1>18 DEF TdMaps, WithoutLegs
<1>19. ASSUME NEW c \in Channels, TdLegs(c) PROVE ManagerTypes'
  BY <1>19 DEF TdLegs
<1>20. ASSUME NEW c \in Channels, TdPorts(c) PROVE ManagerTypes'
  <2>1. used' = used \ {port[c]} /\ gauge' = gauge - 1
    BY <1>20 DEF TdPorts, FreesPort
  <2>2. used' \subseteq Ports
    BY <2>1
  <2>3. gauge' \in Int
    BY <2>1
  <2>. QED
    BY <1>20, <2>2, <2>3 DEF TdPorts, FreesPort
<1>21. ASSUME NEW c \in Channels, MediaAccept(c) PROVE ManagerTypes'
  BY <1>21 DEF MediaAccept, StartTeardown
<1>22. ASSUME NEW c \in Channels, MediaBuild(c) PROVE ManagerTypes'
  BY <1>22 DEF MediaBuild
<1>23. ASSUME NEW c \in Channels, MediaAssign(c) PROVE ManagerTypes'
  BY <1>23 DEF MediaAssign
<1>24. ASSUME NEW c \in Channels, MediaSetState(c) PROVE ManagerTypes'
  BY <1>24 DEF MediaSetState
<1>25. ASSUME NEW c \in Channels, MediaEnds(c) PROVE ManagerTypes'
  BY <1>25 DEF MediaEnds
<1>26. ASSUME NEW c \in Channels, MediaDead(c) PROVE ManagerTypes'
  BY <1>26 DEF MediaDead, StartTeardown
<1>27. ASSUME NEW c \in Channels, TimerFires(c) PROVE ManagerTypes'
  BY <1>27 DEF TimerFires, StartTeardown
<1>28. ASSUME Poll PROVE ManagerTypes'
  <2>1. sawUp' \in BOOLEAN
    BY <1>28 DEF Poll, Inv, TypeOK
  <2>2. purge' \in [Purgers -> [pc : {"off", "ringing", "teardown"}, todo : SUBSET Channels,
                             cur : Channels \cup {None}]]
    BY <1>28 DEF Poll, StartPurge, Channels
  <2>. QED
    BY <1>28, <2>1, <2>2 DEF Poll
<1>29. ASSUME Shutdown PROVE ManagerTypes'
  BY <1>29 DEF Shutdown, StartPurge, LoopTo, Doing, NoPurge, Channels
<1>30. ASSUME NEW who \in Purgers, PurgeRinging(who) PROVE ManagerTypes'
  BY <1>30 DEF PurgeRinging
<1>31. ASSUME NEW who \in Purgers, PurgeCollect(who) PROVE ManagerTypes'
  BY <1>31 DEF PurgeCollect, WithoutLegs
<1>32. ASSUME NEW who \in Purgers, PurgeCall(who) PROVE ManagerTypes'
  BY <1>32 DEF PurgeCall, StartTeardown
<1>33. ASSUME NEW who \in Purgers, PurgeNext(who) PROVE ManagerTypes'
  BY <1>33 DEF PurgeNext, NoPurge
<1>34. ASSUME NEW ch \in Dialed, DialStart(ch) PROVE ManagerTypes'
  BY <1>34 DEF DialStart
<1>35. ASSUME NEW ch \in Dialed, Originate(ch) PROVE ManagerTypes'
  BY <1>35 DEF Originate
<1>36. ASSUME NEW ch \in Dialed, DialOk(ch) PROVE ManagerTypes'
  BY <1>36 DEF DialOk
<1>37. ASSUME NEW ch \in Dialed, DialErr(ch) PROVE ManagerTypes'
  BY <1>37 DEF DialErr, Fault, NoFault
<1>38. ASSUME NEW ch \in Dialed, WatchdogFires(ch) PROVE ManagerTypes'
  BY <1>38 DEF WatchdogFires
<1>39. CASE UNCHANGED vars
  BY <1>39 DEF vars
<1>. QED
  BY <1>1, <1>2, <1>3, <1>4, <1>5, <1>6, <1>7, <1>8, <1>9, <1>10, <1>11, <1>12, <1>13, <1>14, <1>15,
     <1>16, <1>17, <1>18, <1>19, <1>20, <1>21, <1>22, <1>23, <1>24, <1>25, <1>26, <1>27, <1>28, <1>29,
     <1>30, <1>31, <1>32, <1>33, <1>34, <1>35, <1>36, <1>37, <1>38, <1>39
     DEF Next, LoopStep, TeardownStep, MediaStep, PurgeStep

\* The types of the calls' variables.
LEMMA CallTypesStep == Inv /\ [Next]_vars => CallTypes'
<1>. SUFFICES ASSUME Inv, CallTypes, [Next]_vars PROVE CallTypes'
  BY DEF Inv, TypeOK, CallTypes
<1>. USE ManagerAssumption DEF asteriskVars, managerVars, callVars, dialVars, boundVars, CallTypes, TdPcs, MediaPcs
<1>0. TypeOK
  BY DEF Inv
<1>1. ASSUME NEW ch \in Channels, CallerArrives(ch) PROVE CallTypes'
  BY <1>1 DEF CallerArrives
<1>2. ASSUME NEW ch \in Channels, CalleeAnswers(ch) PROVE CallTypes'
  BY <1>2 DEF CalleeAnswers
<1>3. ASSUME NEW ch \in Channels, ChannelEnds(ch) PROVE CallTypes'
  BY <1>3 DEF ChannelEnds
<1>4. ASSUME WebSocketDrops PROVE CallTypes'
  BY <1>4 DEF WebSocketDrops
<1>5. ASSUME WebSocketReturns PROVE CallTypes'
  BY <1>5 DEF WebSocketReturns
<1>6. ASSUME OnExternalStart PROVE CallTypes'
  BY <1>6, HeadOf DEF OnExternalStart, IsExternal
<1>7. ASSUME OnCallerStart PROVE CallTypes'
  BY <1>7, HeadOf DEF OnCallerStart, IsExternal
<1>8. ASSUME OnOutboundAnswered PROVE CallTypes'
  BY <1>8, HeadOf DEF OnOutboundAnswered
<1>9. ASSUME StartCall PROVE CallTypes'
  <2>1. loop.ch \in Channels
    BY <1>9, LoopChannel DEF StartCall
  <2>2. port' \in [Channels -> Ports \cup {None}]
    BY <1>9, <1>0, LowestFreePort DEF StartCall, FreePorts
  <2>3. extOf' \in [Channels -> ExtIds \cup {None}]
    BY <1>9, FreshId DEF StartCall
  <2>4. withOut' \in [Channels -> BOOLEAN]
    <3>1. (loop.ch \in outbound) \in BOOLEAN
      OBVIOUS
    <3>. QED
      BY <1>9, <3>1, Zenon DEF StartCall
  <2>5. timer' \in [Channels -> BOOLEAN]
    <3>1. (loop.ch \in Limited) \in BOOLEAN
      OBVIOUS
    <3>. QED
      BY <1>9, <3>1, Zenon DEF StartCall
  <2>. QED
    BY <1>9, <2>2, <2>3, <2>4, <2>5 DEF StartCall
<1>10. ASSUME CreateExt PROVE CallTypes'
  BY <1>10, LoopChannel DEF CreateExt
<1>11. ASSUME BridgeCall PROVE CallTypes'
  BY <1>11, LoopChannel DEF BridgeCall, Abort, AbortCleanup
<1>12. ASSUME Activate PROVE CallTypes'
  BY <1>12, LoopChannel DEF Activate
<1>13. ASSUME OnActiveEnd PROVE CallTypes'
  BY <1>13, HeadOf DEF OnActiveEnd, StartTeardown
<1>14. ASSUME LoopTeardown PROVE CallTypes'
  BY <1>14 DEF LoopTeardown
<1>15. ASSUME OnStagedEnd PROVE CallTypes'
  BY <1>15, HeadOf DEF OnStagedEnd, Abort, AbortCleanup
<1>16. ASSUME OnOtherEnd PROVE CallTypes'
  BY <1>16 DEF OnOtherEnd
<1>17. ASSUME OnOutboundDestroyed PROVE CallTypes'
  BY <1>17, HeadOf DEF OnOutboundDestroyed
<1>18. ASSUME NEW c \in Channels, TdMaps(c) PROVE CallTypes'
  BY <1>18 DEF TdMaps
<1>19. ASSUME NEW c \in Channels, TdLegs(c) PROVE CallTypes'
  BY <1>19 DEF TdLegs
<1>20. ASSUME NEW c \in Channels, TdPorts(c) PROVE CallTypes'
  BY <1>20 DEF TdPorts, FreesPort
<1>21. ASSUME NEW c \in Channels, MediaAccept(c) PROVE CallTypes'
  <2>1. sock' \in [Channels -> BOOLEAN] /\ media' \in [Channels -> MediaPcs]
    BY <1>21 DEF MediaAccept
  <2>2. td' \in [Channels -> TdPcs] /\ sess' \in [Channels -> {"none", "staged", "bridged", "mediaactive", "torndown"}]
    BY <1>21 DEF MediaAccept, StartTeardown
  <2>. QED
    BY <1>21, <2>1, <2>2 DEF MediaAccept
<1>22. ASSUME NEW c \in Channels, MediaBuild(c) PROVE CallTypes'
  BY <1>22 DEF MediaBuild
<1>23. ASSUME NEW c \in Channels, MediaAssign(c) PROVE CallTypes'
  BY <1>23 DEF MediaAssign
<1>24. ASSUME NEW c \in Channels, MediaSetState(c) PROVE CallTypes'
  BY <1>24 DEF MediaSetState
<1>25. ASSUME NEW c \in Channels, MediaEnds(c) PROVE CallTypes'
  BY <1>25 DEF MediaEnds
<1>26. ASSUME NEW c \in Channels, MediaDead(c) PROVE CallTypes'
  BY <1>26 DEF MediaDead, StartTeardown
<1>27. ASSUME NEW c \in Channels, TimerFires(c) PROVE CallTypes'
  BY <1>27 DEF TimerFires, StartTeardown
<1>28. ASSUME Poll PROVE CallTypes'
  BY <1>28 DEF Poll, StartPurge
<1>29. ASSUME Shutdown PROVE CallTypes'
  BY <1>29 DEF Shutdown, StartPurge
<1>30. ASSUME NEW who \in Purgers, PurgeRinging(who) PROVE CallTypes'
  BY <1>30 DEF PurgeRinging
<1>31. ASSUME NEW who \in Purgers, PurgeCollect(who) PROVE CallTypes'
  BY <1>31 DEF PurgeCollect
<1>32. ASSUME NEW who \in Purgers, PurgeCall(who) PROVE CallTypes'
  BY <1>32 DEF PurgeCall, StartTeardown
<1>33. ASSUME NEW who \in Purgers, PurgeNext(who) PROVE CallTypes'
  BY <1>33 DEF PurgeNext
<1>34. ASSUME NEW ch \in Dialed, DialStart(ch) PROVE CallTypes'
  BY <1>34 DEF DialStart
<1>35. ASSUME NEW ch \in Dialed, Originate(ch) PROVE CallTypes'
  BY <1>35 DEF Originate
<1>36. ASSUME NEW ch \in Dialed, DialOk(ch) PROVE CallTypes'
  BY <1>36 DEF DialOk
<1>37. ASSUME NEW ch \in Dialed, DialErr(ch) PROVE CallTypes'
  BY <1>37 DEF DialErr
<1>38. ASSUME NEW ch \in Dialed, WatchdogFires(ch) PROVE CallTypes'
  BY <1>38 DEF WatchdogFires
<1>39. CASE UNCHANGED vars
  BY <1>39 DEF vars
<1>. QED
  BY <1>1, <1>2, <1>3, <1>4, <1>5, <1>6, <1>7, <1>8, <1>9, <1>10, <1>11, <1>12, <1>13, <1>14, <1>15,
     <1>16, <1>17, <1>18, <1>19, <1>20, <1>21, <1>22, <1>23, <1>24, <1>25, <1>26, <1>27, <1>28, <1>29,
     <1>30, <1>31, <1>32, <1>33, <1>34, <1>35, <1>36, <1>37, <1>38, <1>39
     DEF Next, LoopStep, TeardownStep, MediaStep, PurgeStep

\* The types of the dialed calls' variables.
LEMMA DialTypesStep == Inv /\ [Next]_vars => DialTypes'
<1>. SUFFICES ASSUME Inv, DialTypes, [Next]_vars PROVE DialTypes'
  BY DEF Inv, TypeOK, DialTypes
<1>. USE ManagerAssumption DEF asteriskVars, managerVars, callVars, dialVars, boundVars, DialTypes
<1>1. ASSUME NEW ch \in Channels, CallerArrives(ch) PROVE DialTypes'
  BY <1>1 DEF CallerArrives
<1>2. ASSUME NEW ch \in Channels, CalleeAnswers(ch) PROVE DialTypes'
  BY <1>2 DEF CalleeAnswers
<1>3. ASSUME NEW ch \in Channels, ChannelEnds(ch) PROVE DialTypes'
  BY <1>3 DEF ChannelEnds
<1>4. ASSUME WebSocketDrops PROVE DialTypes'
  BY <1>4 DEF WebSocketDrops
<1>5. ASSUME WebSocketReturns PROVE DialTypes'
  BY <1>5 DEF WebSocketReturns
<1>6. ASSUME OnExternalStart PROVE DialTypes'
  BY <1>6 DEF OnExternalStart, IsExternal
<1>7. ASSUME OnCallerStart PROVE DialTypes'
  BY <1>7 DEF OnCallerStart, IsExternal
<1>8. ASSUME OnOutboundAnswered PROVE DialTypes'
  BY <1>8 DEF OnOutboundAnswered
<1>9. ASSUME StartCall PROVE DialTypes'
  BY <1>9 DEF StartCall, SetupFailed, Finish
<1>10. ASSUME CreateExt PROVE DialTypes'
  BY <1>10 DEF CreateExt, SetupFailed, Finish
<1>11. ASSUME BridgeCall PROVE DialTypes'
  BY <1>11, LoopChannel DEF BridgeCall, Abort, AbortCleanup, FinishOutbound, Finish
<1>12. ASSUME Activate PROVE DialTypes'
  BY <1>12 DEF Activate
<1>13. ASSUME OnActiveEnd PROVE DialTypes'
  BY <1>13 DEF OnActiveEnd, StartTeardown
<1>14. ASSUME LoopTeardown PROVE DialTypes'
  BY <1>14 DEF LoopTeardown
<1>15. ASSUME OnStagedEnd PROVE DialTypes'
  BY <1>15 DEF OnStagedEnd, Abort, AbortCleanup, FinishOutbound, Finish
<1>16. ASSUME OnOtherEnd PROVE DialTypes'
  BY <1>16 DEF OnOtherEnd
<1>17. ASSUME OnOutboundDestroyed PROVE DialTypes'
  BY <1>17 DEF OnOutboundDestroyed, TakeRinging, Finish, Ringing
<1>18. ASSUME NEW c \in Channels, TdMaps(c) PROVE DialTypes'
  BY <1>18 DEF TdMaps
<1>19. ASSUME NEW c \in Channels, TdLegs(c) PROVE DialTypes'
  BY <1>19 DEF TdLegs
<1>20. ASSUME NEW c \in Channels, TdPorts(c) PROVE DialTypes'
  BY <1>20 DEF TdPorts, FreesPort, FinishOutbound, Finish
<1>21. ASSUME NEW c \in Channels, MediaAccept(c) PROVE DialTypes'
  BY <1>21 DEF MediaAccept, StartTeardown
<1>22. ASSUME NEW c \in Channels, MediaBuild(c) PROVE DialTypes'
  BY <1>22 DEF MediaBuild
<1>23. ASSUME NEW c \in Channels, MediaAssign(c) PROVE DialTypes'
  BY <1>23 DEF MediaAssign
<1>24. ASSUME NEW c \in Channels, MediaSetState(c) PROVE DialTypes'
  BY <1>24 DEF MediaSetState
<1>25. ASSUME NEW c \in Channels, MediaEnds(c) PROVE DialTypes'
  BY <1>25 DEF MediaEnds
<1>26. ASSUME NEW c \in Channels, MediaDead(c) PROVE DialTypes'
  BY <1>26 DEF MediaDead, StartTeardown
<1>27. ASSUME NEW c \in Channels, TimerFires(c) PROVE DialTypes'
  BY <1>27 DEF TimerFires, StartTeardown
<1>28. ASSUME Poll PROVE DialTypes'
  BY <1>28 DEF Poll, StartPurge
<1>29. ASSUME Shutdown PROVE DialTypes'
  BY <1>29 DEF Shutdown, StartPurge
<1>30. ASSUME NEW who \in Purgers, PurgeRinging(who) PROVE DialTypes'
  BY <1>30 DEF PurgeRinging, TakeRinging, Finish, Ringing
<1>31. ASSUME NEW who \in Purgers, PurgeCollect(who) PROVE DialTypes'
  BY <1>31 DEF PurgeCollect
<1>32. ASSUME NEW who \in Purgers, PurgeCall(who) PROVE DialTypes'
  BY <1>32 DEF PurgeCall, StartTeardown
<1>33. ASSUME NEW who \in Purgers, PurgeNext(who) PROVE DialTypes'
  BY <1>33 DEF PurgeNext
<1>34. ASSUME NEW ch \in Dialed, DialStart(ch) PROVE DialTypes'
  BY <1>34 DEF DialStart
<1>35. ASSUME NEW ch \in Dialed, Originate(ch) PROVE DialTypes'
  BY <1>35 DEF Originate
<1>36. ASSUME NEW ch \in Dialed, DialOk(ch) PROVE DialTypes'
  <2>1. Ringing(ch) \in BOOLEAN
    BY DEF Ringing
  <2>. QED
    BY <1>36, <2>1, Zenon DEF DialOk
<1>37. ASSUME NEW ch \in Dialed, DialErr(ch) PROVE DialTypes'
  BY <1>37 DEF DialErr
<1>38. ASSUME NEW ch \in Dialed, WatchdogFires(ch) PROVE DialTypes'
  BY <1>38 DEF WatchdogFires, TakeRinging, Finish, Ringing
<1>39. CASE UNCHANGED vars
  BY <1>39 DEF vars
<1>. QED
  BY <1>1, <1>2, <1>3, <1>4, <1>5, <1>6, <1>7, <1>8, <1>9, <1>10, <1>11, <1>12, <1>13, <1>14, <1>15,
     <1>16, <1>17, <1>18, <1>19, <1>20, <1>21, <1>22, <1>23, <1>24, <1>25, <1>26, <1>27, <1>28, <1>29,
     <1>30, <1>31, <1>32, <1>33, <1>34, <1>35, <1>36, <1>37, <1>38, <1>39
     DEF Next, LoopStep, TeardownStep, MediaStep, PurgeStep

\* The type invariant, along a step.
LEMMA TypeStep == Inv /\ [Next]_vars => TypeOK'
  BY StepMoves, ManagerTypesStep, CallTypesStep, DialTypesStep
     DEF TypeOK, Moves, ManagerTypes, CallTypes, DialTypes

-----------------------------------------------------------------------------
\* Which steps can change what.


\* Of what a call is and holds.
LEMMA CallWriters ==
    ASSUME [Next]_vars
    PROVE  /\ \/ UNCHANGED <<extOf, port, withOut>> \/ StartCall
           /\ \/ UNCHANGED bridge \/ Activate
           /\ \/ UNCHANGED td \/ BridgeCall \/ OnActiveEnd \/ OnStagedEnd
              \/ \E c \in Channels : TdMaps(c) \/ TdLegs(c) \/ TdPorts(c) \/ MediaAccept(c) \/ MediaDead(c) \/ TimerFires(c)
              \/ \E who \in Purgers : PurgeCall(who)
           /\ \/ UNCHANGED <<held, used>> \/ StartCall \/ CreateExt \/ BridgeCall \/ OnStagedEnd
              \/ \E c \in Channels : TdPorts(c)
           /\ \/ UNCHANGED sock \/ StartCall \/ CreateExt \/ BridgeCall \/ OnStagedEnd
              \/ \E c \in Channels : TdLegs(c) \/ MediaAccept(c)
           /\ \/ UNCHANGED media \/ Activate
              \/ \E c \in Channels : MediaAccept(c) \/ MediaBuild(c) \/ MediaAssign(c) \/ MediaSetState(c) \/ MediaEnds(c) \/ MediaDead(c)
           /\ \/ UNCHANGED timer \/ StartCall
              \/ \E c \in Channels : TdMaps(c) \/ TimerFires(c)
           /\ \/ UNCHANGED sess \/ StartCall \/ BridgeCall \/ Activate \/ OnActiveEnd \/ OnStagedEnd
              \/ \E c \in Channels : MediaAccept(c) \/ MediaSetState(c) \/ MediaDead(c) \/ TimerFires(c)
              \/ \E who \in Purgers : PurgeCall(who)
<1>. USE ManagerAssumption DEF asteriskVars, managerVars, callVars, dialVars, boundVars
<1>1. ASSUME NEW ch \in Channels, CallerArrives(ch) \/ CalleeAnswers(ch) \/ ChannelEnds(ch)
       PROVE  UNCHANGED <<extOf, port, withOut, bridge, td, held, used, sock, media, timer, sess>>
  BY <1>1 DEF CallerArrives, CalleeAnswers, ChannelEnds, Hangup
<1>2. ASSUME WebSocketDrops \/ WebSocketReturns \/ OnExternalStart \/ OnCallerStart \/
              OnOutboundAnswered \/ LoopTeardown \/ OnOtherEnd \/ OnOutboundDestroyed \/ Poll \/
              Shutdown
       PROVE  UNCHANGED <<extOf, port, withOut, bridge, td, held, used, sock, media, timer, sess>>
  BY <1>2 DEF WebSocketDrops, WebSocketReturns, OnExternalStart, OnCallerStart, OnOutboundAnswered,
     LoopTeardown, OnOtherEnd, OnOutboundDestroyed, Poll, Shutdown, Takes, LoopTo, IsExternal, LoopIdle,
     TakeRinging, StartPurge
<1>3. ASSUME StartCall
       PROVE  UNCHANGED <<bridge, td, media>>
  BY <1>3 DEF StartCall, SetupFailed, LoopIdle, LoopTo, Fault, NoFault, Hangup
<1>4. ASSUME CreateExt
       PROVE  UNCHANGED <<extOf, port, withOut, bridge, td, media, timer, sess>>
  BY <1>4 DEF CreateExt, SetupFailed, LoopIdle, Fault, NoFault, Hangup
<1>5. ASSUME BridgeCall \/ OnStagedEnd
       PROVE  UNCHANGED <<extOf, port, withOut, bridge, media, timer>>
  BY <1>5 DEF BridgeCall, OnStagedEnd, Abort, AbortCleanup, FinishOutbound, LoopTo, LoopIdle, Fault,
     NoFault, Takes
<1>6. ASSUME Activate
       PROVE  UNCHANGED <<extOf, port, withOut, td, held, used, sock, timer>>
  BY <1>6 DEF Activate, LoopIdle
<1>7. ASSUME OnActiveEnd
       PROVE  UNCHANGED <<extOf, port, withOut, bridge, held, used, sock, media, timer>>
  BY <1>7 DEF OnActiveEnd, Takes, StartTeardown, LoopTo
<1>8. ASSUME NEW c \in Channels, TdMaps(c)
       PROVE  UNCHANGED <<extOf, port, withOut, bridge, held, used, sock, media, sess>>
  BY <1>8 DEF TdMaps
<1>9. ASSUME NEW c \in Channels, TdLegs(c)
       PROVE  UNCHANGED <<extOf, port, withOut, bridge, held, used, media, timer, sess>>
  BY <1>9 DEF TdLegs
<1>10. ASSUME NEW c \in Channels, TdPorts(c)
       PROVE  UNCHANGED <<extOf, port, withOut, bridge, sock, media, timer, sess>>
  BY <1>10 DEF TdPorts, FreesPort, FinishOutbound
<1>11. ASSUME NEW c \in Channels, MediaAccept(c)
       PROVE  UNCHANGED <<extOf, port, withOut, bridge, held, used, timer>>
  BY <1>11 DEF MediaAccept, StartTeardown
<1>12. ASSUME NEW c \in Channels, MediaBuild(c) \/ MediaAssign(c) \/ MediaEnds(c)
       PROVE  UNCHANGED <<extOf, port, withOut, bridge, td, held, used, sock, timer, sess>>
  BY <1>12 DEF MediaBuild, MediaAssign, MediaEnds
<1>13. ASSUME NEW c \in Channels, MediaSetState(c)
       PROVE  UNCHANGED <<extOf, port, withOut, bridge, td, held, used, sock, timer>>
  BY <1>13 DEF MediaSetState
<1>14. ASSUME NEW c \in Channels, MediaDead(c)
       PROVE  UNCHANGED <<extOf, port, withOut, bridge, held, used, sock, timer>>
  BY <1>14 DEF MediaDead, StartTeardown
<1>15. ASSUME NEW c \in Channels, TimerFires(c)
       PROVE  UNCHANGED <<extOf, port, withOut, bridge, held, used, sock, media>>
  BY <1>15 DEF TimerFires, StartTeardown
<1>16. ASSUME NEW who \in Purgers, PurgeRinging(who) \/ PurgeCollect(who) \/ PurgeNext(who)
       PROVE  UNCHANGED <<extOf, port, withOut, bridge, td, held, used, sock, media, timer, sess>>
  BY <1>16 DEF PurgeRinging, PurgeCollect, PurgeNext, TakeRinging, Hangup
<1>17. ASSUME NEW who \in Purgers, PurgeCall(who)
       PROVE  UNCHANGED <<extOf, port, withOut, bridge, held, used, sock, media, timer>>
  BY <1>17 DEF PurgeCall, StartTeardown
<1>18. ASSUME NEW ch \in Dialed, DialStart(ch) \/ Originate(ch) \/ DialOk(ch) \/ DialErr(ch) \/
              WatchdogFires(ch)
       PROVE  UNCHANGED <<extOf, port, withOut, bridge, td, held, used, sock, media, timer, sess>>
  BY <1>18 DEF DialStart, Originate, DialOk, DialErr, WatchdogFires, Fault, NoFault, TakeRinging, Hangup
<1>19. CASE UNCHANGED vars
  BY <1>19 DEF vars
<1>. QED
  BY <1>1, <1>2, <1>3, <1>4, <1>5, <1>6, <1>7, <1>8, <1>9, <1>10, <1>11, <1>12, <1>13, <1>14, <1>15,
     <1>16, <1>17, <1>18, <1>19 DEF Next, LoopStep, TeardownStep, MediaStep, PurgeStep

\* Of the maps, the purges and the loop.
LEMMA MapWriters ==
    ASSUME [Next]_vars
    PROVE  /\ \/ UNCHANGED pending \/ OnExternalStart \/ StartCall \/ CreateExt \/ OnStagedEnd
              \/ \E c \in Channels : TdMaps(c)
              \/ \E who \in Purgers : PurgeCollect(who)
           /\ \/ UNCHANGED active \/ Activate \/ OnActiveEnd
              \/ \E c \in Channels : TdMaps(c)
              \/ \E who \in Purgers : PurgeCollect(who)
           /\ \/ UNCHANGED loop \/ OnExternalStart \/ OnCallerStart \/ OnOutboundAnswered \/ StartCall
              \/ CreateExt \/ BridgeCall \/ Activate \/ OnActiveEnd \/ LoopTeardown \/ OnStagedEnd
              \/ Shutdown
           /\ \/ UNCHANGED purge \/ Poll \/ Shutdown
              \/ \E who \in Purgers : PurgeRinging(who) \/ PurgeCollect(who) \/ PurgeCall(who) \/ PurgeNext(who)
           /\ \/ UNCHANGED bridgeUp \/ BridgeCall
              \/ \E c \in Channels : TdLegs(c)
           /\ \/ UNCHANGED gauge \/ Activate
              \/ \E c \in Channels : TdPorts(c)
<1>. USE ManagerAssumption DEF asteriskVars, managerVars, callVars, dialVars, boundVars
<1>1. ASSUME NEW ch \in Channels, CallerArrives(ch) \/ CalleeAnswers(ch) \/ ChannelEnds(ch)
       PROVE  UNCHANGED <<pending, active, loop, purge, bridgeUp, gauge>>
  BY <1>1 DEF CallerArrives, CalleeAnswers, ChannelEnds, Hangup
<1>2. ASSUME WebSocketDrops \/ WebSocketReturns \/ OnOtherEnd \/ OnOutboundDestroyed
       PROVE  UNCHANGED <<pending, active, loop, purge, bridgeUp, gauge>>
  BY <1>2 DEF WebSocketDrops, WebSocketReturns, OnOtherEnd, OnOutboundDestroyed, Takes, TakeRinging
<1>3. ASSUME OnExternalStart \/ StartCall \/ CreateExt \/ OnStagedEnd
       PROVE  UNCHANGED <<active, purge, bridgeUp, gauge>>
  BY <1>3 DEF OnExternalStart, StartCall, CreateExt, OnStagedEnd, Takes, LoopTo, IsExternal, SetupFailed,
     LoopIdle, Fault, NoFault, Hangup, Abort, AbortCleanup, FinishOutbound
<1>4. ASSUME OnCallerStart \/ OnOutboundAnswered \/ LoopTeardown
       PROVE  UNCHANGED <<pending, active, purge, bridgeUp, gauge>>
  BY <1>4 DEF OnCallerStart, OnOutboundAnswered, LoopTeardown, Takes, LoopTo, IsExternal, LoopIdle
<1>5. ASSUME BridgeCall
       PROVE  UNCHANGED <<pending, active, purge, gauge>>
  BY <1>5 DEF BridgeCall, Abort, AbortCleanup, FinishOutbound, LoopTo, LoopIdle, Fault, NoFault
<1>6. ASSUME Activate
       PROVE  UNCHANGED <<pending, purge, bridgeUp>>
  BY <1>6 DEF Activate, LoopIdle
<1>7. ASSUME OnActiveEnd
       PROVE  UNCHANGED <<pending, purge, bridgeUp, gauge>>
  BY <1>7 DEF OnActiveEnd, Takes, StartTeardown, LoopTo
<1>8. ASSUME NEW c \in Channels, TdMaps(c)
       PROVE  UNCHANGED <<loop, purge, bridgeUp, gauge>>
  BY <1>8 DEF TdMaps
<1>9. ASSUME NEW c \in Channels, TdLegs(c)
       PROVE  UNCHANGED <<pending, active, loop, purge, gauge>>
  BY <1>9 DEF TdLegs
<1>10. ASSUME NEW c \in Channels, TdPorts(c)
       PROVE  UNCHANGED <<pending, active, loop, purge, bridgeUp>>
  BY <1>10 DEF TdPorts, FreesPort, FinishOutbound
<1>11. ASSUME NEW c \in Channels, MediaAccept(c) \/ MediaBuild(c) \/ MediaAssign(c) \/ MediaSetState(c) \/
              MediaEnds(c) \/ MediaDead(c) \/ TimerFires(c)
       PROVE  UNCHANGED <<pending, active, loop, purge, bridgeUp, gauge>>
  BY <1>11 DEF MediaAccept, MediaBuild, MediaAssign, MediaSetState, MediaEnds, MediaDead, TimerFires,
     StartTeardown
<1>12. ASSUME Poll
       PROVE  UNCHANGED <<pending, active, loop, bridgeUp, gauge>>
  BY <1>12 DEF Poll, StartPurge
<1>13. ASSUME Shutdown
       PROVE  UNCHANGED <<pending, active, bridgeUp, gauge>>
  BY <1>13 DEF Shutdown, StartPurge, LoopTo
<1>14. ASSUME NEW who \in Purgers, PurgeRinging(who) \/ PurgeCall(who) \/ PurgeNext(who)
       PROVE  UNCHANGED <<pending, active, loop, bridgeUp, gauge>>
  BY <1>14 DEF PurgeRinging, PurgeCall, PurgeNext, TakeRinging, Hangup, StartTeardown
<1>15. ASSUME NEW who \in Purgers, PurgeCollect(who)
       PROVE  UNCHANGED <<loop, bridgeUp, gauge>>
  BY <1>15 DEF PurgeCollect
<1>16. ASSUME NEW ch \in Dialed, DialStart(ch) \/ Originate(ch) \/ DialOk(ch) \/ DialErr(ch) \/
              WatchdogFires(ch)
       PROVE  UNCHANGED <<pending, active, loop, purge, bridgeUp, gauge>>
  BY <1>16 DEF DialStart, Originate, DialOk, DialErr, WatchdogFires, Fault, NoFault, TakeRinging, Hangup
<1>17. CASE UNCHANGED vars
  BY <1>17 DEF vars
<1>. QED
  BY <1>1, <1>2, <1>3, <1>4, <1>5, <1>6, <1>7, <1>8, <1>9, <1>10, <1>11, <1>12, <1>13, <1>14, <1>15,
     <1>16, <1>17 DEF Next, LoopStep, TeardownStep, MediaStep, PurgeStep

\* Of the dialed calls and the bounds.
LEMMA DialWriters ==
    ASSUME [Next]_vars
    PROVE  /\ \/ UNCHANGED outbound \/ StartCall \/ CreateExt \/ BridgeCall \/ OnStagedEnd
              \/ OnOutboundDestroyed
              \/ \E c \in Channels : TdPorts(c)
              \/ \E who \in Purgers : PurgeRinging(who)
              \/ \E ch \in Dialed : DialStart(ch) \/ DialErr(ch) \/ WatchdogFires(ch)
           /\ \/ UNCHANGED done \/ StartCall \/ CreateExt \/ BridgeCall \/ OnStagedEnd
              \/ OnOutboundDestroyed
              \/ \E c \in Channels : TdPorts(c)
              \/ \E who \in Purgers : PurgeRinging(who)
              \/ \E ch \in Dialed : WatchdogFires(ch)
           /\ \/ UNCHANGED answered \/ OnOutboundAnswered
           /\ \/ UNCHANGED watchdog \/ OnOutboundAnswered \/ OnOutboundDestroyed
              \/ \E who \in Purgers : PurgeRinging(who)
              \/ \E ch \in Dialed : DialOk(ch) \/ WatchdogFires(ch)
           /\ \/ UNCHANGED dial
              \/ \E ch \in Dialed : DialStart(ch) \/ DialOk(ch) \/ DialErr(ch)
           /\ \/ UNCHANGED faults \/ StartCall \/ CreateExt \/ BridgeCall
              \/ \E ch \in Dialed : DialErr(ch)
           /\ \/ UNCHANGED drops \/ WebSocketDrops
           /\ \/ UNCHANGED connected \/ WebSocketDrops \/ WebSocketReturns
           /\ \/ UNCHANGED sawUp \/ Poll
<1>. USE ManagerAssumption DEF asteriskVars, managerVars, callVars, dialVars, boundVars
<1>1. ASSUME NEW ch \in Channels, CallerArrives(ch) \/ CalleeAnswers(ch) \/ ChannelEnds(ch)
       PROVE  UNCHANGED <<outbound, done, answered, watchdog, dial, faults, drops, connected, sawUp>>
  BY <1>1 DEF CallerArrives, CalleeAnswers, ChannelEnds, Hangup
<1>2. ASSUME WebSocketDrops
       PROVE  UNCHANGED <<outbound, done, answered, watchdog, dial, faults, sawUp>>
  BY <1>2 DEF WebSocketDrops
<1>3. ASSUME WebSocketReturns
       PROVE  UNCHANGED <<outbound, done, answered, watchdog, dial, faults, drops, sawUp>>
  BY <1>3 DEF WebSocketReturns
<1>4. ASSUME OnExternalStart \/ OnCallerStart \/ Activate \/ OnActiveEnd \/ LoopTeardown \/ OnOtherEnd \/
              Shutdown
       PROVE  UNCHANGED <<outbound, done, answered, watchdog, dial, faults, drops, connected, sawUp>>
  BY <1>4 DEF OnExternalStart, OnCallerStart, Activate, OnActiveEnd, LoopTeardown, OnOtherEnd, Shutdown,
     Takes, LoopTo, IsExternal, LoopIdle, StartTeardown, StartPurge
<1>5. ASSUME OnOutboundAnswered
       PROVE  UNCHANGED <<outbound, done, dial, faults, drops, connected, sawUp>>
  BY <1>5 DEF OnOutboundAnswered, Takes, LoopTo
<1>6. ASSUME StartCall \/ CreateExt \/ BridgeCall
       PROVE  UNCHANGED <<answered, watchdog, dial, drops, connected, sawUp>>
  BY <1>6 DEF StartCall, CreateExt, BridgeCall, SetupFailed, LoopIdle, LoopTo, Fault, NoFault, Hangup,
     Abort, AbortCleanup, FinishOutbound
<1>7. ASSUME OnStagedEnd
       PROVE  UNCHANGED <<answered, watchdog, dial, faults, drops, connected, sawUp>>
  BY <1>7 DEF OnStagedEnd, Takes, Abort, AbortCleanup, FinishOutbound, LoopTo, LoopIdle
<1>8. ASSUME OnOutboundDestroyed
       PROVE  UNCHANGED <<answered, dial, faults, drops, connected, sawUp>>
  BY <1>8 DEF OnOutboundDestroyed, Takes, TakeRinging
<1>9. ASSUME NEW c \in Channels, TdMaps(c) \/ TdLegs(c) \/ MediaAccept(c) \/ MediaBuild(c) \/
              MediaAssign(c) \/ MediaSetState(c) \/ MediaEnds(c) \/ MediaDead(c) \/ TimerFires(c)
       PROVE  UNCHANGED <<outbound, done, answered, watchdog, dial, faults, drops, connected, sawUp>>
  BY <1>9 DEF TdMaps, TdLegs, MediaAccept, MediaBuild, MediaAssign, MediaSetState, MediaEnds, MediaDead,
     TimerFires, StartTeardown
<1>10. ASSUME NEW c \in Channels, TdPorts(c)
       PROVE  UNCHANGED <<answered, watchdog, dial, faults, drops, connected, sawUp>>
  BY <1>10 DEF TdPorts, FreesPort, FinishOutbound
<1>11. ASSUME Poll
       PROVE  UNCHANGED <<outbound, done, answered, watchdog, dial, faults, drops, connected>>
  BY <1>11 DEF Poll, StartPurge
<1>12. ASSUME NEW who \in Purgers, PurgeRinging(who)
       PROVE  UNCHANGED <<answered, dial, faults, drops, connected, sawUp>>
  BY <1>12 DEF PurgeRinging, TakeRinging, Hangup
<1>13. ASSUME NEW who \in Purgers, PurgeCollect(who) \/ PurgeCall(who) \/ PurgeNext(who)
       PROVE  UNCHANGED <<outbound, done, answered, watchdog, dial, faults, drops, connected, sawUp>>
  BY <1>13 DEF PurgeCollect, PurgeCall, PurgeNext, StartTeardown
<1>14. ASSUME NEW ch \in Dialed, DialStart(ch)
       PROVE  UNCHANGED <<done, answered, watchdog, faults, drops, connected, sawUp>>
  BY <1>14 DEF DialStart
<1>15. ASSUME NEW ch \in Dialed, Originate(ch)
       PROVE  UNCHANGED <<outbound, done, answered, watchdog, dial, faults, drops, connected, sawUp>>
  BY <1>15 DEF Originate
<1>16. ASSUME NEW ch \in Dialed, DialOk(ch)
       PROVE  UNCHANGED <<outbound, done, answered, faults, drops, connected, sawUp>>
  BY <1>16 DEF DialOk
<1>17. ASSUME NEW ch \in Dialed, DialErr(ch)
       PROVE  UNCHANGED <<done, answered, watchdog, drops, connected, sawUp>>
  BY <1>17 DEF DialErr, Fault, NoFault
<1>18. ASSUME NEW ch \in Dialed, WatchdogFires(ch)
       PROVE  UNCHANGED <<answered, dial, faults, drops, connected, sawUp>>
  BY <1>18 DEF WatchdogFires, TakeRinging, Hangup
<1>19. CASE UNCHANGED vars
  BY <1>19 DEF vars
<1>. QED
  BY <1>1, <1>2, <1>3, <1>4, <1>5, <1>6, <1>7, <1>8, <1>9, <1>10, <1>11, <1>12, <1>13, <1>14, <1>15,
     <1>16, <1>17, <1>18, <1>19 DEF Next, LoopStep, TeardownStep, MediaStep, PurgeStep

-----------------------------------------------------------------------------
\* What a call has been through stays so.

\* startCall fails, or begins a call with a fresh ExternalID and a free port.
LEMMA StartCases ==
    ASSUME Inv, StartCall
    PROVE  /\ loop.pc = "start" /\ loop.ch \in Channels /\ ~Started(loop.ch)
           /\ chan[loop.ch] \in {"stasis", "gone"}
           /\ \/ /\ loop' = Idle /\ Hangup(loop.ch)
                 /\ (loop.ch \notin outbound /\ UNCHANGED <<outbound, done>>) \/ SetupFailed(loop.ch)
                 /\ UNCHANGED <<pending, used, sess, extOf, port, held, sock, withOut, timer>>
              \/ /\ loop' = Doing("ext", loop.ch)
                 /\ chan[loop.ch] = "stasis" \/ loop.ch \in outbound
                 /\ \E x \in ExtIds, p \in Ports :
                       /\ p \notin used /\ chan[x] = "none" /\ \A c \in Channels : extOf[c] # x
                       /\ used' = used \cup {p}
                       /\ port' = [port EXCEPT ![loop.ch] = p]
                       /\ extOf' = [extOf EXCEPT ![loop.ch] = x]
                       /\ pending' = [pending EXCEPT ![loop.ch] = loop.ch, ![x] = loop.ch]
                 /\ held' = [held EXCEPT ![loop.ch] = TRUE]
                 /\ sock' = [sock EXCEPT ![loop.ch] = TRUE]
                 /\ withOut' = [withOut EXCEPT ![loop.ch] = loop.ch \in outbound]
                 /\ timer' = [timer EXCEPT ![loop.ch] = loop.ch \in Limited]
                 /\ sess' = [sess EXCEPT ![loop.ch] = "staged"]
                 /\ UNCHANGED <<chan, queue, outbound, done, faults>>
<1>1. loop.pc = "start" /\ loop.ch \in Channels /\ ~Started(loop.ch) /\ chan[loop.ch] \in {"stasis", "gone"}
  BY LoopChannel DEF StartCall, Inv, LoopOK
<1>2. ASSUME \E x \in ExtIds : \A c \in Channels : extOf[c] # x
      PROVE  FreshExt \in ExtIds /\ chan[FreshExt] = "none" /\ \A c \in Channels : extOf[c] # FreshExt
  BY <1>2, FreshId DEF Inv, ExtOnce
<1>3. FreePorts # {} => LowestFree \in Ports /\ LowestFree \notin used
  BY LowestFreePort DEF Inv, FreePorts
<1>4. \/ /\ loop' = Idle /\ Hangup(loop.ch)
         /\ (loop.ch \notin outbound /\ UNCHANGED <<outbound, done>>) \/ SetupFailed(loop.ch)
         /\ UNCHANGED <<pending, used, sess, extOf, port, held, sock, withOut, timer>>
      \/ /\ loop' = Doing("ext", loop.ch)
         /\ chan[loop.ch] = "stasis" \/ loop.ch \in outbound
         /\ FreePorts # {} /\ \E x \in ExtIds : \A c \in Channels : extOf[c] # x
         /\ used' = used \cup {LowestFree}
         /\ port' = [port EXCEPT ![loop.ch] = LowestFree]
         /\ extOf' = [extOf EXCEPT ![loop.ch] = FreshExt]
         /\ pending' = [pending EXCEPT ![loop.ch] = loop.ch, ![FreshExt] = loop.ch]
         /\ held' = [held EXCEPT ![loop.ch] = TRUE]
         /\ sock' = [sock EXCEPT ![loop.ch] = TRUE]
         /\ withOut' = [withOut EXCEPT ![loop.ch] = loop.ch \in outbound]
         /\ timer' = [timer EXCEPT ![loop.ch] = loop.ch \in Limited]
         /\ sess' = [sess EXCEPT ![loop.ch] = "staged"]
         /\ UNCHANGED <<chan, queue, outbound, done, faults>>
  BY DEF StartCall, LoopIdle, LoopTo, NoFault
<1>5. CASE loop' = Idle /\ Hangup(loop.ch)
  <2>1. loop' # Doing("ext", loop.ch)
    BY <1>5 DEF Idle, Doing
  <2>. QED
    BY <1>1, <1>4, <2>1
<1>6. CASE ~(loop' = Idle /\ Hangup(loop.ch))
  BY <1>1, <1>2, <1>3, <1>4, <1>6
<1>. QED
  BY <1>5, <1>6

\* A call keeps its ExternalID, port and link to the dialed call.
LEMMA ExtGrows ==
    ASSUME Inv, [Next]_vars
    PROVE  /\ \A c \in Channels : Started(c) => extOf'[c] = extOf[c] /\ port'[c] = port[c] /\ withOut'[c] = withOut[c]
           /\ \A c \in Channels : Started(c)' => Started(c) \/ (StartCall /\ c = loop.ch /\ loop' = Doing("ext", c))
           /\ \A c \in Channels : Started(c) => Started(c)'
<1>1. CASE UNCHANGED <<extOf, port, withOut>>
  BY <1>1 DEF Started
<1>2. CASE StartCall
  BY <1>2, StartCases, ManagerAssumption DEF Started, Inv, TypeOK, Channels
<1>. QED
  BY <1>1, <1>2, CallWriters

\* A cleanup that has begun goes on, and a call's cleanup begins from the loop,
\* its own goroutines or a purge.
LEMMA TdGrows ==
    ASSUME Inv, [Next]_vars
    PROVE  \A c \in Channels : td[c] # "none" => td'[c] # "none" /\ (td[c] = "done" => td'[c] = "done")
<1>. USE DEF Inv, TypeOK, TdPcs
<1>1. CASE BridgeCall
  BY <1>1 DEF BridgeCall, Abort, AbortCleanup
<1>2. CASE OnActiveEnd
  BY <1>2 DEF OnActiveEnd, StartTeardown
<1>3. CASE OnStagedEnd
  BY <1>3 DEF OnStagedEnd, Abort, AbortCleanup
<1>4. ASSUME NEW c \in Channels, TdMaps(c) \/ TdLegs(c) \/ TdPorts(c)
      PROVE  \A e \in Channels : td[e] # "none" => td'[e] # "none" /\ (td[e] = "done" => td'[e] = "done")
  BY <1>4 DEF TdMaps, TdLegs, TdPorts, FreesPort
<1>5. ASSUME NEW c \in Channels, MediaAccept(c) \/ MediaDead(c) \/ TimerFires(c)
      PROVE  \A e \in Channels : td[e] # "none" => td'[e] # "none" /\ (td[e] = "done" => td'[e] = "done")
  BY <1>5 DEF MediaAccept, MediaDead, TimerFires, StartTeardown
<1>6. ASSUME NEW who \in Purgers, PurgeCall(who)
      PROVE  \A e \in Channels : td[e] # "none" => td'[e] # "none" /\ (td[e] = "done" => td'[e] = "done")
  BY <1>6 DEF PurgeCall, StartTeardown
<1>. QED
  BY <1>1, <1>2, <1>3, <1>4, <1>5, <1>6, CallWriters

\* Only completeBridge sets a bridge, and nothing takes it back.
LEMMA BridgeGrows ==
    ASSUME Inv, [Next]_vars
    PROVE  \A c \in Channels : bridge'[c] = bridge[c] \/ (Activate /\ c = loop.ch /\ bridge'[c])
  BY CallWriters DEF Activate, Inv, TypeOK

\* A channel that was in Stasis stays there or is gone.
LEMMA ChanStays ==
    ASSUME Inv, [Next]_vars
    PROVE  \A k \in Channels : /\ chan[k] \in {"stasis", "gone"} => chan'[k] \in {"stasis", "gone"}
                               /\ chan[k] = "gone" => chan'[k] = "gone"
                               /\ chan[k] # "none" => chan'[k] # "none"
  BY StepMoves DEF Moves

-----------------------------------------------------------------------------
\* The loop.
LEMMA LoopOKStep == Inv /\ [Next]_vars => LoopOK'
<1>. SUFFICES ASSUME Inv, [Next]_vars PROVE LoopOK'
  OBVIOUS
<1>0. TypeOK /\ LoopOK /\ StartsOnce /\ CallOK /\ MapsOK
  BY DEF Inv
<1>1. /\ loop' = loop
      /\ loop.pc \in {"idle", "stopped"} \/ (loop.ch \in Channels /\ extOf'[loop.ch] = extOf[loop.ch])
      => LoopOK'
  <2>. SUFFICES ASSUME loop' = loop,
                       loop.pc \in {"idle", "stopped"} \/ (loop.ch \in Channels /\ extOf'[loop.ch] = extOf[loop.ch])
                PROVE  LoopOK'
    OBVIOUS
  <2>1. CASE loop.pc \in {"idle", "stopped"}
    BY <1>0, <2>1 DEF LoopOK
  <2>2. CASE loop.pc \notin {"idle", "stopped"}
    <3>1. loop.pc = "activate" => ~Activate
      BY DEF Activate, LoopIdle, Idle, Doing
    <3>2. bridge'[loop.ch] = bridge[loop.ch]
      BY <2>2, BridgeGrows DEF Activate, LoopIdle, Idle, Doing
    <3>. QED
      BY <1>0, <2>2, <3>2, ChanStays, TdGrows DEF LoopOK, Started
  <2>. QED
    BY <2>1, <2>2
<1>2. loop' = loop => LoopOK'
  <2>1. loop' = loop => ~StartCall
    BY DEF StartCall, LoopIdle, LoopTo, Idle, Doing
  <2>. QED
    BY <1>1, <2>1, CallWriters, LoopChannel
<1>3. loop' = Idle => LoopOK'
  BY DEF LoopOK, Idle, Doing
<1>4. ASSUME OnExternalStart PROVE LoopOK'
  <2>1. /\ loop' = Doing("bridge", pending[Head(queue).ch])
        /\ pending[Head(queue).ch] \in Channels
        /\ UNCHANGED <<extOf, bridge>>
    BY <1>0, <1>4, HeadOf DEF OnExternalStart, IsExternal, LoopTo, callVars, TypeOK
  <2>2. Started(pending[Head(queue).ch]) /\ ~bridge[pending[Head(queue).ch]]
    BY <1>0, <1>4, <2>1, HeadOf DEF OnExternalStart, MapsOK
  <2>. QED
    BY <1>0, <2>1, <2>2, ManagerAssumption DEF LoopOK, Doing, Started
<1>5. ASSUME OnCallerStart \/ OnOutboundAnswered, loop' = Doing("start", Head(queue).ch) PROVE LoopOK'
  <2>1. Head(queue).ch \in Channels /\ Has(queue, "start", Head(queue).ch)
    BY <1>5, HeadOf DEF OnCallerStart, OnOutboundAnswered
  <2>2. ~Started(Head(queue).ch) /\ chan[Head(queue).ch] \in {"stasis", "gone"} /\ UNCHANGED extOf
    BY <1>0, <1>5, <2>1 DEF StartsOnce, TakenAsCaller, OnCallerStart, OnOutboundAnswered, callVars
  <2>. QED
    BY <1>5, <2>1, <2>2, ChanStays, ManagerAssumption DEF LoopOK, Doing, Started
<1>6. ASSUME StartCall, loop' # Idle PROVE LoopOK'
  <2>1. loop' = Doing("ext", loop.ch) /\ loop.ch \in Channels /\ UNCHANGED bridge
    BY <1>6, StartCases DEF StartCall
  <2>3. extOf'[loop.ch] # None /\ loop'.ch = loop.ch
    <3>1. PICK x \in ExtIds : extOf' = [extOf EXCEPT ![loop.ch] = x]
      BY <1>6, StartCases
    <3>. QED
      BY <1>0, <2>1, <3>1, ManagerAssumption DEF TypeOK, Channels, Doing
  <2>2. ~bridge'[loop.ch]
    BY <1>0, <1>6, <2>1, StartCases DEF CallOK, CallAt
  <2>. QED
    BY <2>1, <2>2, <2>3, ManagerAssumption DEF LoopOK, Doing, Started
<1>7. ASSUME BridgeCall, loop' = Doing("activate", loop.ch) PROVE LoopOK'
  BY <1>0, <1>7, LoopChannel, ManagerAssumption DEF BridgeCall, LoopOK, Doing, Started
<1>8. ASSUME NEW c \in Channels, NEW q, Abort(c, q), Started(c), loop' # Idle, UNCHANGED extOf PROVE LoopOK'
  BY <1>0, <1>8, ManagerAssumption DEF Abort, LoopIdle, LoopTo, LoopOK, Doing, Started, TypeOK
<1>9. ASSUME OnActiveEnd PROVE LoopOK'
  <2>. DEFINE c == active[Head(queue).ch]
  <2>1. c \in Channels /\ Started(c) /\ loop' = Doing("teardown", c) /\ UNCHANGED extOf /\ StartTeardown(c)
    BY <1>0, <1>9, HeadOf DEF OnActiveEnd, LoopTo, TypeOK, MapsOK
  <2>2. td'[c] # "none"
    BY <1>0, <2>1 DEF StartTeardown, TypeOK
  <2>. QED
    BY <2>1, <2>2, ManagerAssumption DEF LoopOK, Doing, Started
<1>10. ASSUME Shutdown PROVE LoopOK'
  BY <1>10 DEF Shutdown, LoopTo, LoopOK, Doing
<1>11. ASSUME BridgeCall PROVE LoopOK'
  <2>1. loop.ch \in Channels /\ Started(loop.ch) /\ UNCHANGED extOf
    BY <1>0, <1>11, LoopChannel DEF BridgeCall, LoopOK
  <2>. QED
    BY <1>3, <1>7, <1>8, <1>11, <2>1 DEF BridgeCall, LoopTo
<1>12. ASSUME OnStagedEnd PROVE LoopOK'
  <2>1. /\ pending[Head(queue).ch] \in Channels /\ Started(pending[Head(queue).ch]) /\ UNCHANGED extOf
        /\ Abort(pending[Head(queue).ch], Tail(queue))
    BY <1>0, <1>12, HeadOf DEF OnStagedEnd, TypeOK, MapsOK
  <2>. QED
    BY <1>3, <1>8, <2>1
<1>13. CreateExt \/ Activate \/ LoopTeardown => loop' = Idle
  BY DEF CreateExt, Activate, LoopTeardown, LoopIdle
<1>14. OnOutboundAnswered => loop' = loop \/ loop' = Doing("start", Head(queue).ch)
  BY DEF OnOutboundAnswered, LoopTo
<1>15. OnCallerStart => loop' = Doing("start", Head(queue).ch)
  BY DEF OnCallerStart, LoopTo
<1>. QED
  BY <1>2, <1>3, <1>4, <1>5, <1>6, <1>9, <1>10, <1>11, <1>12, <1>13, <1>14, <1>15, MapWriters

-----------------------------------------------------------------------------
\* What the loop goes on to.
LEMMA LoopMoves ==
    ASSUME Inv, [Next]_vars
    PROVE  \/ loop' = loop \/ loop' = Idle
           \/ loop' = Doing("start", Head(queue).ch) /\ (OnCallerStart \/ OnOutboundAnswered)
           \/ loop' = Doing("ext", loop.ch) /\ StartCall
           \/ loop' = Doing("bridge", pending[Head(queue).ch]) /\ OnExternalStart
           \/ loop' = Doing("activate", loop.ch) /\ BridgeCall
           \/ loop'.pc = "teardown"
           \/ loop'.pc = "stopped" /\ Shutdown
<1>. USE DEF LoopTo, LoopIdle, Doing
<1>1. OnCallerStart => loop' = Doing("start", Head(queue).ch)
  BY DEF OnCallerStart
<1>2. OnOutboundAnswered => loop' = loop \/ loop' = Doing("start", Head(queue).ch)
  BY DEF OnOutboundAnswered
<1>3. StartCall => loop' = Idle \/ loop' = Doing("ext", loop.ch)
  BY DEF StartCall
<1>4. CreateExt \/ Activate \/ LoopTeardown => loop' = Idle
  BY DEF CreateExt, Activate, LoopTeardown
<1>5. OnExternalStart => loop' = Doing("bridge", pending[Head(queue).ch])
  BY DEF OnExternalStart
<1>6. BridgeCall => loop' = Doing("activate", loop.ch) \/ loop' = Idle \/ loop'.pc = "teardown"
  BY DEF BridgeCall, Abort
<1>7. OnActiveEnd => loop'.pc = "teardown"
  BY DEF OnActiveEnd
<1>8. OnStagedEnd => loop' = Idle \/ loop'.pc = "teardown"
  BY DEF OnStagedEnd, Abort
<1>9. Shutdown => loop'.pc = "stopped"
  BY DEF Shutdown
<1>. QED
  BY <1>1, <1>2, <1>3, <1>4, <1>5, <1>6, <1>7, <1>8, <1>9, MapWriters

\* A channel's StasisStart is handled once.
LEMMA TakenGrows ==
    ASSUME Inv, [Next]_vars, NEW ch \in Channels, TakenAsCaller(ch)'
    PROVE  \/ TakenAsCaller(ch)
           \/ /\ OnCallerStart \/ OnOutboundAnswered
              /\ Takes("start") /\ ch = Head(queue).ch /\ queue' = Tail(queue)
<1>1. CASE Started(ch)'
  BY <1>1, ExtGrows DEF TakenAsCaller, StartCall
<1>2. CASE ~Started(ch)' /\ loop'.pc = "start" /\ loop'.ch = ch
  <2>1. CASE loop' = loop
    BY <1>2, <2>1 DEF TakenAsCaller
  <2>2. CASE OnCallerStart
    BY <1>2, <2>2 DEF OnCallerStart, LoopTo, Doing
  <2>3. CASE OnOutboundAnswered
    BY <1>2, <2>1, <2>3 DEF OnOutboundAnswered, LoopTo, Doing
  <2>. QED
    BY <1>2, <2>1, <2>2, <2>3, LoopMoves DEF Idle, Doing
<1>. QED
  BY <1>1, <1>2 DEF TakenAsCaller

\* StasisStarts stay handled once, along a step.
LEMMA StartsOnceStep == Inv /\ [Next]_vars => StartsOnce'
<1>. SUFFICES ASSUME Inv, [Next]_vars PROVE StartsOnce'
  OBVIOUS
<1>0. StartsOnce /\ CallOK /\ LoopOK
  BY DEF Inv
<1>1. StartsUnique(queue') /\ EndsLast(queue')
  BY StepMoves DEF Moves
<1>2. \A ch \in Channels : Has(queue', "end", ch) \/ Has(queue', "destroyed", ch) => chan'[ch] = "gone"
  BY StepMoves DEF Moves
<1>3. ASSUME NEW ch \in Channels, Has(queue', "start", ch)
      PROVE  chan'[ch] \in {"stasis", "gone"} /\ ~TakenAsCaller(ch)'
  <2>1. Has(queue, "start", ch) \/ (chan[ch] \in {"none", "ringing"} /\ chan'[ch] = "stasis")
    BY <1>3, StepMoves DEF Moves
  <2>2. chan'[ch] \in {"stasis", "gone"}
    BY <1>0, <2>1, ChanStays DEF StartsOnce
  <2>3. ~TakenAsCaller(ch)
    BY <1>0, <2>1 DEF StartsOnce, CallOK, CallAt, LoopOK, TakenAsCaller
  <2>4. ~(Takes("start") /\ ch = Head(queue).ch /\ queue' = Tail(queue))
    BY <1>0, <1>3, HeadOf, HeadTail DEF StartsOnce, Takes
  <2>. QED
    BY <2>2, <2>3, <2>4, TakenGrows
<1>. QED
  BY <1>1, <1>2, <1>3 DEF StartsOnce

-----------------------------------------------------------------------------
\* A call's own state.

\* A call nothing happens to is as consistent as it was.
LEMMA CallFrame ==
    ASSUME Inv, [Next]_vars, NEW c \in Channels,
           sess'[c] = sess[c], td'[c] = td[c], media'[c] = media[c], held'[c] = held[c],
           bridge'[c] = bridge[c], timer'[c] = timer[c], sock'[c] = sock[c],
           Started(c)' => Started(c)
    PROVE  CallAt(c)'
<1>1. CallAt(c)
  BY DEF Inv, CallOK
<1>. QED
  BY <1>1, ChanStays, ExtGrows DEF CallAt

\* Whoever may begin a call's cleanup has a call that exists.
LEMMA ActorsStarted ==
    ASSUME Inv
    PROVE  /\ \A c \in Channels : td[c] # "none" \/ media[c] # "none" \/ timer[c] => Started(c)
           /\ \A k, c \in Channels : active[k] = c \/ pending[k] = c => Started(c)
           /\ \A who \in Purgers : purge[who].pc = "teardown" => \A c \in purge[who].todo : Started(c)
  BY DEF Inv, CallOK, CallAt, MapsOK, PurgeOK

\* What beginning a teardown changes.
LEMMA TeardownStarts ==
    ASSUME Inv, NEW c \in Channels, Started(c), StartTeardown(c)
    PROVE  /\ \A e \in Channels : e # c => td'[e] = td[e] /\ sess'[e] = sess[e]
           /\ sess'[c] # "none"
           /\ td'[c] = IF td[c] = "none" THEN "maps" ELSE td[c]
  BY DEF StartTeardown, Inv, TypeOK, CallOK, CallAt

\* abort: another goroutine's cleanup goes on, or the loop's own is done.
LEMMA AbortCases ==
    ASSUME Inv, [Next]_vars, NEW c \in Channels, Started(c), NEW q \in Seq(Events), Abort(c, q)
    PROVE  \/ /\ td[c] # "none" /\ loop' = Doing("teardown", c)
              /\ queue' = q /\ UNCHANGED <<td, sess, sock, used, held, chan, outbound, done>>
           \/ /\ td[c] = "none" /\ loop' = Idle /\ td'[c] = "done"
              /\ sess'[c] = "torndown" /\ ~sock'[c] /\ ~held'[c]
              /\ chan'[c] = "gone" /\ chan'[extOf[c]] \notin {"stasis", "ringing"}
              /\ chan[extOf[c]] # "none" => chan'[extOf[c]] = "gone"
              /\ used' = used \ {port[c]}
              /\ FinishOutbound(c)
              /\ \A e \in Channels : e # c => td'[e] = td[e] /\ sess'[e] = sess[e] /\ sock'[e] = sock[e]
                                              /\ held'[e] = held[e]
<1>1. ChanType /\ chan[c] \in {"stasis", "gone"}
  BY InvChanOK DEF ChanOK, Inv, CallOK, CallAt
<1>2. CASE td[c] # "none"
  BY <1>2 DEF Abort, LoopTo
<1>3. CASE td[c] = "none"
  <2>1. AbortCleanup(c, q) /\ loop' = Idle
    BY <1>3 DEF Abort, LoopIdle
  <2>2. HangupBoth(c, q)
    BY <2>1 DEF AbortCleanup
  <2>3. /\ chan'[c] = "gone" /\ chan'[extOf[c]] \notin {"stasis", "ringing"}
        /\ chan[extOf[c]] # "none" => chan'[extOf[c]] = "gone"
    BY <1>1, <2>2, TwoLegs, HangupBothEnds
  <2>. QED
    BY <1>3, <2>1, <2>3 DEF AbortCleanup, Inv, TypeOK
<1>. QED
  BY <1>2, <1>3

\* Which call the loop's step is about, and that it exists.
LEMMA LoopCall ==
    ASSUME Inv
    PROVE  /\ loop.pc \in {"ext", "bridge", "activate", "teardown"} => loop.ch \in Channels /\ Started(loop.ch)
           /\ OnStagedEnd => /\ pending[Head(queue).ch] \in Channels /\ Started(pending[Head(queue).ch])
                             /\ Tail(queue) \in Seq(Events)
                             /\ Abort(pending[Head(queue).ch], Tail(queue))
           /\ OnActiveEnd => /\ active[Head(queue).ch] \in Channels /\ Started(active[Head(queue).ch])
                             /\ StartTeardown(active[Head(queue).ch])
           /\ OnExternalStart => /\ pending[Head(queue).ch] \in Channels /\ Started(pending[Head(queue).ch])
                                 /\ Head(queue).ch = extOf[pending[Head(queue).ch]]
<1>1. loop.pc \in {"ext", "bridge", "activate", "teardown"} => loop.ch \in Channels /\ Started(loop.ch)
  BY LoopChannel DEF Inv, LoopOK
<1>2. \A k \in Channels : /\ pending[k] # None => pending[k] \in Channels /\ Started(pending[k])
                          /\ active[k] # None => active[k] \in Channels /\ Started(active[k])
  BY DEF Inv, TypeOK, MapsOK
<1>. QED
  BY <1>1, <1>2, HeadOf DEF OnStagedEnd, OnActiveEnd, OnExternalStart, IsExternal

\* Calls stay consistent, along a step.
LEMMA CallOKStep == Inv /\ [Next]_vars => CallOK'
<1>. SUFFICES ASSUME Inv, [Next]_vars PROVE CallOK'
  OBVIOUS
<1>0. TypeOK /\ CallOK /\ LoopOK
  BY DEF Inv
<1>1. ASSUME StartCall PROVE CallOK'
  <2>1. PICK c \in Channels : c = loop.ch /\ UNCHANGED <<td, media, bridge>>
    BY <1>1, StartCases DEF StartCall
  <2>2. CASE UNCHANGED <<sess, extOf, held, sock, timer>>
    BY <2>1, <2>2, CallFrame DEF CallOK, Started
  <2>3. CASE ~UNCHANGED <<sess, extOf, held, sock, timer>>
    <3>1. PICK x \in ExtIds : extOf' = [extOf EXCEPT ![c] = x]
      BY <1>1, <2>1, <2>3, StartCases
    <3>2. /\ held' = [held EXCEPT ![c] = TRUE] /\ sock' = [sock EXCEPT ![c] = TRUE]
          /\ timer' = [timer EXCEPT ![c] = c \in Limited]
          /\ sess' = [sess EXCEPT ![c] = "staged"]
      BY <1>1, <2>1, <2>3, StartCases
    <3>3. ASSUME NEW e \in Channels, e # c PROVE CallAt(e)'
      BY <1>0, <2>1, <3>1, <3>2, <3>3, CallFrame DEF TypeOK, Started
    <3>4. CallAt(c)'
      <4>1. /\ td[c] = "none" /\ media[c] = "none" /\ ~bridge[c]
        BY <1>0, <1>1, <2>1, StartCases DEF CallOK, CallAt
      <4>2. chan'[c] \in {"stasis", "gone"}
        BY <1>1, <2>1, StartCases, ChanStays
      <4>3. held'[c] /\ sess'[c] = "staged" /\ extOf'[c] # None
        BY <1>0, <2>1, <3>1, <3>2, ManagerAssumption DEF TypeOK, Channels
      <4>4. timer'[c] => c \in Limited
        BY <1>0, <2>1, <3>2, Zenon DEF TypeOK
      <4>. QED
        BY <2>1, <4>1, <4>2, <4>3, <4>4 DEF CallAt, Started
    <3>. QED
      BY <3>3, <3>4 DEF CallOK
  <2>. QED
    BY <2>2, <2>3
<1>2. ASSUME CreateExt PROVE CallOK'
  <2>1. PICK c \in Channels : c = loop.ch /\ UNCHANGED <<sess, extOf, td, media, bridge, timer>>
    BY <1>2, LoopCall DEF CreateExt
  <2>2. \/ UNCHANGED <<sock, held>>
        \/ sock' = [sock EXCEPT ![c] = FALSE] /\ held' = [held EXCEPT ![c] = FALSE]
    BY <1>2, <2>1 DEF CreateExt
  <2>3. \A e \in Channels : e # c => CallAt(e)'
    BY <1>0, <2>1, <2>2, CallFrame DEF TypeOK, Started
  <2>4. CallAt(c)'
    <3>1. CASE UNCHANGED <<sock, held>>
      BY <2>1, <3>1, CallFrame DEF Started
    <3>2. CASE ~sock'[c] /\ ~held'[c]
      BY <1>0, <2>1, <3>2, ChanStays DEF CallOK, CallAt, Started
    <3>. QED
      BY <1>0, <2>1, <2>2, <3>1, <3>2 DEF TypeOK
  <2>. QED
    BY <2>3, <2>4 DEF CallOK
<1>3. ASSUME NEW c \in Channels, Started(c), NEW q \in Seq(Events), Abort(c, q), UNCHANGED <<extOf, media, bridge, timer>>
      PROVE  CallOK'
  <2>1. \A e \in Channels : e # c => CallAt(e)'
    BY <1>3, AbortCases, CallFrame DEF Started
  <2>2. CallAt(c)'
    <3>1. CASE UNCHANGED <<td, sess, sock, held>>
      BY <1>3, <3>1, CallFrame DEF Started
    <3>2. CASE td'[c] = "done" /\ sess'[c] = "torndown" /\ ~sock'[c] /\ ~held'[c] /\ chan'[c] = "gone"
      BY <1>0, <1>3, <3>2 DEF CallOK, CallAt, Started
    <3>. QED
      BY <1>3, <3>1, <3>2, AbortCases
  <2>. QED
    BY <2>1, <2>2 DEF CallOK
<1>4. ASSUME BridgeCall PROVE CallOK'
  <2>1. CASE Abort(loop.ch, queue)
    BY <1>0, <1>3, <1>4, <2>1, LoopCall DEF BridgeCall, TypeOK
  <2>2. CASE UNCHANGED <<td, sess, sock, held>>
    BY <1>4, <2>2, CallFrame DEF BridgeCall, CallOK, Started
  <2>. QED
    BY <1>4, <2>1, <2>2 DEF BridgeCall
<1>5. ASSUME OnStagedEnd PROVE CallOK'
  BY <1>3, <1>5, LoopCall DEF OnStagedEnd
<1>6. ASSUME Activate PROVE CallOK'
  <2>1. PICK c \in Channels : c = loop.ch /\ Started(c) /\ UNCHANGED <<extOf, held, sock, timer, td, chan>>
    BY <1>6, LoopCall DEF Activate, asteriskVars
  <2>2. \A e \in Channels : e # c => CallAt(e)'
    BY <1>0, <1>6, <2>1, CallFrame DEF Activate, TypeOK, Started
  <2>3. bridge'[c] /\ sess'[c] = "bridged"
    BY <1>0, <1>6, <2>1 DEF Activate, TypeOK
  <2>4. CallAt(c)'
    BY <1>0, <2>1, <2>3 DEF CallOK, CallAt, Started
  <2>. QED
    BY <2>2, <2>4 DEF CallOK
<1>7. ASSUME NEW c \in Channels, Started(c), StartTeardown(c),
             UNCHANGED <<extOf, held, sock, bridge>>,
             \A e \in Channels : e # c => timer'[e] = timer[e] /\ media'[e] = media[e],
             timer'[c] => timer[c], media'[c] # "none" => media[c] # "none"
      PROVE  CallOK'
  <2>1. \A e \in Channels : e # c => CallAt(e)'
    BY <1>7, TeardownStarts, CallFrame DEF Started
  <2>2. CallAt(c)'
    BY <1>0, <1>7, TeardownStarts, ChanStays DEF CallOK, CallAt, Started
  <2>. QED
    BY <2>1, <2>2 DEF CallOK
<1>8. ASSUME OnActiveEnd PROVE CallOK'
  BY <1>7, <1>8, LoopCall DEF OnActiveEnd
<1>9. ASSUME NEW c \in Channels, MediaAccept(c) \/ MediaDead(c) \/ TimerFires(c) PROVE CallOK'
  <2>1. Started(c)
    BY <1>9, ActorsStarted DEF MediaAccept, MediaDead, TimerFires
  <2>2. CASE StartTeardown(c) /\ UNCHANGED sock
    <3>1. UNCHANGED <<extOf, held, sock, bridge>>
      BY <1>9, <2>2 DEF MediaAccept, MediaDead, TimerFires
    <3>2. /\ \A e \in Channels : e # c => timer'[e] = timer[e] /\ media'[e] = media[e]
          /\ timer'[c] => timer[c]
          /\ media'[c] # "none" => media[c] # "none"
      BY <1>0, <1>9 DEF MediaAccept, MediaDead, TimerFires, TypeOK
    <3>. QED
      BY <1>7, <2>1, <2>2, <3>1, <3>2
  <2>3. CASE MediaAccept(c) /\ UNCHANGED <<td, sess>> /\ sock' = [sock EXCEPT ![c] = FALSE]
    <3>1. \A e \in Channels : e # c => CallAt(e)'
      BY <1>0, <2>3, CallFrame DEF MediaAccept, TypeOK, Started
    <3>2. UNCHANGED <<extOf, held, bridge, timer, chan>> /\ media[c] = "accept"
      BY <2>3 DEF MediaAccept, asteriskVars
    <3>3. ~sock'[c]
      BY <1>0, <2>3 DEF TypeOK
    <3>4. CallAt(c)'
      BY <1>0, <2>1, <2>3, <3>2, <3>3 DEF CallOK, CallAt, Started
    <3>. QED
      BY <3>1, <3>4 DEF CallOK
  <2>. QED
    BY <1>9, <2>2, <2>3 DEF MediaAccept, MediaDead, TimerFires
<1>10. ASSUME NEW who \in Purgers, PurgeCall(who) PROVE CallOK'
  <2>1. PICK c \in purge[who].todo : StartTeardown(c)
    BY <1>10 DEF PurgeCall
  <2>2. c \in Channels /\ Started(c)
    BY <1>0, <1>10, <2>1, ActorsStarted DEF PurgeCall, TypeOK
  <2>. QED
    BY <1>7, <1>10, <2>1, <2>2 DEF PurgeCall
<1>11. ASSUME NEW c \in Channels, MediaBuild(c) \/ MediaAssign(c) \/ MediaSetState(c) \/ MediaEnds(c) PROVE CallOK'
  <2>1. Started(c) /\ media[c] # "none"
    BY <1>11, ActorsStarted DEF MediaBuild, MediaAssign, MediaSetState, MediaEnds
  <2>2. UNCHANGED <<extOf, held, sock, bridge, timer, td, chan>>
    BY <1>11 DEF MediaBuild, MediaAssign, MediaSetState, MediaEnds, asteriskVars
  <2>3. \A e \in Channels : e # c => media'[e] = media[e] /\ sess'[e] = sess[e]
    BY <1>0, <1>11 DEF MediaBuild, MediaAssign, MediaSetState, MediaEnds, TypeOK
  <2>4. sess'[c] \in {sess[c], "mediaactive"}
    BY <1>0, <1>11 DEF MediaBuild, MediaAssign, MediaSetState, MediaEnds, TypeOK
  <2>5. \A e \in Channels : e # c => CallAt(e)'
    BY <2>2, <2>3, CallFrame DEF Started
  <2>6. CallAt(c)'
    BY <1>0, <2>1, <2>2, <2>4 DEF CallOK, CallAt, Started
  <2>. QED
    BY <2>5, <2>6 DEF CallOK
<1>12. ASSUME NEW c \in Channels, TdMaps(c) \/ TdLegs(c) \/ TdPorts(c) PROVE CallOK'
  <2>1. Started(c) /\ UNCHANGED <<extOf, sess, media, bridge>>
    BY <1>12, ActorsStarted DEF TdMaps, TdLegs, TdPorts, FreesPort
  <2>2. \A e \in Channels : e # c => td'[e] = td[e] /\ timer'[e] = timer[e] /\ sock'[e] = sock[e] /\ held'[e] = held[e]
    BY <1>0, <1>12 DEF TdMaps, TdLegs, TdPorts, FreesPort, TypeOK
  <2>3. \A e \in Channels : e # c => CallAt(e)'
    BY <2>1, <2>2, CallFrame DEF Started
  <2>4. CASE TdMaps(c)
    <3>1. td'[c] = "legs" /\ ~timer'[c] /\ UNCHANGED <<held, sock, chan>> /\ td[c] = "maps"
      BY <1>0, <2>4 DEF TdMaps, TypeOK, asteriskVars
    <3>. QED
      BY <1>0, <2>1, <2>3, <3>1 DEF CallOK, CallAt, Started
  <2>5. CASE TdLegs(c)
    <3>1. td'[c] = "ports" /\ ~sock'[c] /\ UNCHANGED <<held, timer>> /\ HangupBoth(c, queue)
      BY <1>0, <2>5 DEF TdLegs, TypeOK
    <3>2. chan'[c] = "gone"
      <4>1. ChanType /\ chan[c] # "none" /\ queue \in Seq(Events)
        BY <1>0, <2>1 DEF ChanType, TypeOK, CallOK, CallAt
      <4>. QED
        BY <2>1, <3>1, <4>1, TwoLegs, HangupBothEnds
    <3>. QED
      BY <1>0, <2>1, <2>3, <3>1, <3>2 DEF CallOK, CallAt, Started
  <2>6. CASE TdPorts(c)
    <3>1. td'[c] = "done" /\ ~held'[c] /\ UNCHANGED <<sock, timer, chan>> /\ td[c] = "ports"
      BY <1>0, <2>6 DEF TdPorts, FreesPort, TypeOK, asteriskVars
    <3>. QED
      BY <1>0, <2>1, <2>3, <3>1 DEF CallOK, CallAt, Started
  <2>. QED
    BY <1>12, <2>4, <2>5, <2>6
<1>13. CASE UNCHANGED <<extOf, sess, td, media, held, bridge, timer, sock>>
  BY <1>13, CallFrame DEF CallOK, Started
<1>. QED
  BY <1>1, <1>2, <1>4, <1>5, <1>6, <1>8, <1>9, <1>10, <1>11, <1>12, <1>13, CallWriters

-----------------------------------------------------------------------------
\* ExternalIDs.
LEMMA ExtOnceStep == Inv /\ [Next]_vars => ExtOnce'
<1>. SUFFICES ASSUME Inv, [Next]_vars PROVE ExtOnce'
  OBVIOUS
<1>0. TypeOK /\ ExtOnce /\ CallOK
  BY DEF Inv
<1>1. /\ \A c, e \in Channels : Started(c)' /\ extOf'[c] = extOf'[e] => c = e
      /\ \A c \in Channels : Started(c)' => extOf'[c] # c
  <2>1. CASE UNCHANGED extOf
    BY <1>0, <2>1 DEF ExtOnce, Started
  <2>2. CASE StartCall /\ ~UNCHANGED extOf
    <3>1. loop.ch \in Channels /\ ~Started(loop.ch) /\ chan[loop.ch] # "none"
      BY <2>2, StartCases
    <3>2. PICK x \in ExtIds : /\ chan[x] = "none" /\ \A c \in Channels : extOf[c] # x
                              /\ extOf' = [extOf EXCEPT ![loop.ch] = x]
      BY <2>2, StartCases
    <3>. QED
      BY <1>0, <3>1, <3>2, ManagerAssumption DEF TypeOK, ExtOnce, Started, Channels
  <2>. QED
    BY <2>1, <2>2, CallWriters
<1>2. ASSUME NEW x \in ExtIds, chan'[x] # "none"
      PROVE  \E c \in Channels : extOf'[c] = x /\ ~(loop'.pc = "ext" /\ loop'.ch = c)
  <2>1. CASE chan[x] = "none"
    <3>1. loop.pc = "ext" /\ x = extOf[loop.ch] /\ loop'.pc = "idle" /\ extOf' = extOf
      BY <1>2, <2>1, StepMoves DEF Moves
    <3>. QED
      BY <3>1, LoopChannel
  <2>2. CASE chan[x] # "none"
    <3>1. PICK c \in Channels : extOf[c] = x /\ ~(loop.pc = "ext" /\ loop.ch = c)
      BY <1>0, <2>2 DEF ExtOnce
    <3>2. Started(c) /\ extOf'[c] = x
      BY <3>1, ExtGrows, ManagerAssumption DEF Started, Channels
    <3>3. ~(loop'.pc = "ext" /\ loop'.ch = c)
      BY <3>1, <3>2, LoopMoves, StartCases DEF Idle, Doing
    <3>. QED
      BY <3>2, <3>3
  <2>. QED
    BY <2>1, <2>2
<1>3. \A ch \in Channels : chan'[ch] = "ringing" => ch \in Dialed
  BY StepMoves DEF Moves
<1>. QED
  BY <1>1, <1>2, <1>3 DEF ExtOnce

-----------------------------------------------------------------------------
\* The maps.

\* A map only loses entries, but for the call that begins or becomes active.
LEMMA MapsMove ==
    ASSUME Inv, [Next]_vars
    PROVE  /\ \/ \A k \in Channels : pending'[k] \in {pending[k], None}
              \/ /\ StartCall /\ loop' = Doing("ext", loop.ch) /\ UNCHANGED <<chan, queue>>
                 /\ \A k \in Channels : pending'[k] = IF k \in {loop.ch, extOf'[loop.ch]} THEN loop.ch ELSE pending[k]
                 /\ extOf'[loop.ch] \in ExtIds /\ chan[extOf'[loop.ch]] = "none"
           /\ \/ \A k \in Channels : active'[k] \in {active[k], None}
              \/ /\ Activate
                 /\ \A k \in Channels : active'[k] = IF k \in {loop.ch, extOf[loop.ch]} THEN loop.ch ELSE active[k]
<1>0. TypeOK
  BY DEF Inv
<1>1. OnExternalStart \/ CreateExt \/ OnStagedEnd => \A k \in Channels : pending'[k] \in {pending[k], None}
  <2>1. \A c : pending' = WithoutLegs(pending, c) => \A k \in Channels : pending'[k] \in {pending[k], None}
    BY DEF WithoutLegs
  <2>. QED
    BY <2>1 DEF OnExternalStart, CreateExt, OnStagedEnd
<1>2. ASSUME NEW c \in Channels, TdMaps(c)
      PROVE  \A k \in Channels : pending'[k] \in {pending[k], None} /\ active'[k] \in {active[k], None}
  BY <1>2 DEF TdMaps, WithoutLegs
<1>3. ASSUME NEW who \in Purgers, PurgeCollect(who)
      PROVE  \A k \in Channels : pending'[k] \in {pending[k], None} /\ active'[k] \in {active[k], None}
  BY <1>3 DEF PurgeCollect
<1>4. OnActiveEnd => \A k \in Channels : active'[k] \in {active[k], None}
  BY DEF OnActiveEnd, WithoutLegs
<1>5. ASSUME StartCall, ~UNCHANGED pending
      PROVE  /\ loop' = Doing("ext", loop.ch) /\ UNCHANGED <<chan, queue>>
             /\ \A k \in Channels : pending'[k] = IF k \in {loop.ch, extOf'[loop.ch]} THEN loop.ch ELSE pending[k]
             /\ extOf'[loop.ch] \in ExtIds /\ chan[extOf'[loop.ch]] = "none"
  <2>1. loop.ch \in Channels /\ loop' = Doing("ext", loop.ch) /\ UNCHANGED <<chan, queue>>
    BY <1>5, StartCases
  <2>2. PICK x \in ExtIds : /\ chan[x] = "none"
                            /\ extOf' = [extOf EXCEPT ![loop.ch] = x]
                            /\ pending' = [pending EXCEPT ![loop.ch] = loop.ch, ![x] = loop.ch]
    BY <1>5, StartCases
  <2>3. x \in Channels /\ extOf'[loop.ch] = x
    BY <1>0, <2>1, <2>2 DEF TypeOK, Channels
  <2>. QED
    BY <1>0, <2>1, <2>2, <2>3 DEF TypeOK
<1>6. ASSUME Activate
      PROVE  \A k \in Channels : active'[k] = IF k \in {loop.ch, extOf[loop.ch]} THEN loop.ch ELSE active[k]
  <2>1. /\ active' = [active EXCEPT ![loop.ch] = loop.ch, ![extOf[loop.ch]] = loop.ch]
        /\ loop.ch \in Channels /\ extOf[loop.ch] \in Channels
    BY <1>6, LoopCall, TwoLegs DEF Activate
  <2>. QED
    BY <1>0, <2>1 DEF TypeOK
<1>7. UNCHANGED pending => \A k \in Channels : pending'[k] \in {pending[k], None}
  OBVIOUS
<1>8. UNCHANGED active => \A k \in Channels : active'[k] \in {active[k], None}
  OBVIOUS
<1>9. \/ \A k \in Channels : pending'[k] \in {pending[k], None}
      \/ StartCall /\ ~UNCHANGED pending
  BY <1>1, <1>2, <1>3, <1>7, MapWriters
<1>10. \/ \A k \in Channels : active'[k] \in {active[k], None}
       \/ Activate
  BY <1>2, <1>3, <1>4, <1>8, MapWriters
<1>. QED
  BY <1>5, <1>6, <1>9, <1>10

\* The maps stay consistent, along a step.
LEMMA MapsOKStep == Inv /\ [Next]_vars => MapsOK'
<1>. SUFFICES ASSUME Inv, [Next]_vars PROVE MapsOK'
  OBVIOUS
<1>0. TypeOK /\ MapsOK /\ StartsOnce /\ CallOK /\ ExtOnce /\ LoopOK
  BY DEF Inv
<1>1. ASSUME NEW c \in Channels, Bridging(c)' PROVE Bridging(c) \/ (OnExternalStart /\ c = pending[Head(queue).ch])
  BY <1>1, LoopMoves DEF Bridging, Idle, Doing, BridgeCall
<1>2. ASSUME NEW c \in Channels, bridge'[c] PROVE bridge[c] \/ (Activate /\ Bridging(c))
  BY <1>2, BridgeGrows DEF Bridging, Activate
<1>3. ASSUME NEW k \in Channels, NEW c \in Channels, pending'[k] = c
      PROVE  Started(c)' /\ k \in {c, extOf'[c]} /\ ~bridge'[c] /\ ~Bridging(c)'
  <2>1. CASE pending[k] = c
    <3>1. Started(c) /\ k \in {c, extOf[c]} /\ ~bridge[c] /\ ~Bridging(c)
      BY <1>0, <2>1 DEF MapsOK
    <3>2. ~(OnExternalStart /\ c = pending[Head(queue).ch])
      BY <1>3, <3>1, ManagerAssumption DEF OnExternalStart, WithoutLegs, Channels
    <3>. QED
      BY <1>1, <1>2, <3>1, <3>2, ExtGrows
  <2>2. CASE pending[k] # c
    <3>1. /\ StartCall /\ loop' = Doing("ext", c) /\ c = loop.ch /\ k \in {c, extOf'[c]}
          /\ extOf'[c] \in ExtIds
      BY <1>3, <2>2, MapsMove, ManagerAssumption DEF Channels
    <3>2. Started(c)' /\ ~bridge[c] /\ ~Bridging(c)'
      BY <1>0, <3>1, StartCases, ManagerAssumption DEF Started, Channels, Bridging, Doing, CallOK, CallAt
    <3>3. UNCHANGED bridge
      BY <3>1 DEF StartCall
    <3>. QED
      BY <3>1, <3>2, <3>3
  <2>. QED
    BY <2>1, <2>2
<1>4. ASSUME NEW k \in Channels, NEW c \in Channels, active'[k] = c
      PROVE  Started(c)' /\ k \in {c, extOf'[c]} /\ bridge'[c]
  <2>1. CASE active[k] = c
    BY <1>0, <2>1, ExtGrows, BridgeGrows DEF MapsOK
  <2>2. CASE active[k] # c
    <3>1. Activate /\ c = loop.ch /\ k \in {c, extOf[c]}
      BY <1>4, <2>2, MapsMove, ManagerAssumption DEF Channels
    <3>2. Started(c) /\ bridge'[c]
      BY <1>0, <3>1, LoopCall DEF Activate, TypeOK
    <3>. QED
      BY <3>1, <3>2, ExtGrows
  <2>. QED
    BY <2>1, <2>2
<1>5. ASSUME NEW c \in Channels, NEW x \in Channels, x = extOf[c], pending[x] = c
      PROVE  ~TakenAsCaller(x)'
  <2>1. x \in ExtIds /\ ~TakenAsCaller(x)
    <3>1. Started(c)
      BY <1>0, <1>5 DEF MapsOK
    <3>. QED
      BY <1>0, <1>5, <3>1, TwoLegs DEF MapsOK
  <2>2. ~(OnCallerStart /\ x = Head(queue).ch)
    BY <1>5, ManagerAssumption DEF OnCallerStart, IsExternal, Channels
  <2>3. ~(OnOutboundAnswered /\ x = Head(queue).ch)
    BY <2>1, ManagerAssumption DEF OnOutboundAnswered
  <2>. QED
    BY <2>1, <2>2, <2>3, TakenGrows
<1>6. ASSUME NEW c \in Channels, NEW x \in Channels, Started(c)', x = extOf'[c], pending'[x] = c
      PROVE  ~TakenAsCaller(x)'
  <2>1. CASE pending[x] = c
    <3>1. Started(c)
      BY <1>0, <2>1 DEF MapsOK
    <3>2. x = extOf[c]
      BY <1>6, <3>1, ExtGrows
    <3>. QED
      BY <1>5, <2>1, <3>2
  <2>2. CASE pending[x] # c
    <3>1. /\ StartCall /\ c = loop.ch /\ loop' = Doing("ext", c) /\ chan[x] = "none"
      BY <1>6, <2>2, MapsMove, ManagerAssumption DEF Channels
    <3>2. ~Started(x) /\ x # loop.ch
      BY <1>0, <3>1, StartCases DEF CallOK, CallAt
    <3>3. ~Started(x)'
      BY <3>1, <3>2, ExtGrows
    <3>. QED
      BY <3>1, <3>3 DEF TakenAsCaller, Doing
  <2>. QED
    BY <2>1, <2>2
<1>7. ASSUME NEW c \in Channels, NEW x \in Channels, x = extOf'[c], Bridging(c)' \/ bridge'[c]
      PROVE  chan'[x] # "none" /\ ~Has(queue', "start", x) /\ ~TakenAsCaller(x)'
  <2>1. Started(c) /\ extOf[c] = x /\ x \in ExtIds
    <3>1. Started(c)
      <4>1. CASE Bridging(c)
        BY <4>1, LoopCall DEF Bridging
      <4>2. CASE bridge[c]
        BY <1>0, <4>2 DEF CallOK, CallAt
      <4>3. CASE OnExternalStart /\ c = pending[Head(queue).ch]
        BY <4>3, LoopCall
      <4>. QED
        BY <1>1, <1>2, <1>7, <4>1, <4>2, <4>3
    <3>2. extOf'[c] = extOf[c]
      BY <3>1, ExtGrows
    <3>. QED
      BY <1>7, <3>1, <3>2, TwoLegs
  <2>2. CASE Bridging(c) \/ bridge[c]
    <3>1. chan[x] # "none" /\ ~Has(queue, "start", x) /\ ~TakenAsCaller(x)
      BY <1>0, <2>1, <2>2 DEF MapsOK
    <3>2. chan[x] # "ringing"
      BY <1>0, <2>1, ManagerAssumption DEF ExtOnce
    <3>3. ~Has(queue', "start", x)
      BY <2>1, <3>1, <3>2, StepMoves DEF Moves
    <3>4. ~TakenAsCaller(x)'
      BY <2>1, <3>1, TakenGrows, HeadOf
    <3>. QED
      BY <3>1, <3>3, <3>4, ChanStays
  <2>3. CASE OnExternalStart /\ c = pending[Head(queue).ch]
    <3>1. Takes("start") /\ Head(queue).ch = x /\ queue' = Tail(queue)
      BY <2>1, <2>3, LoopCall DEF OnExternalStart
    <3>2. Has(queue, "start", x) /\ ~Has(queue', "start", x)
      <4>1. Has(queue, "start", x)
        BY <3>1, HeadOf
      <4>2. StartsUnique(queue) /\ Head(queue).type = "start"
        BY <1>0, <3>1 DEF StartsOnce, Takes
      <4>3. ~Has(Tail(queue), "start", Head(queue).ch)
        BY <3>1, <4>2, HeadOf, HeadTail
      <4>. QED
        BY <3>1, <4>1, <4>3
    <3>3. chan[x] # "none" /\ ~TakenAsCaller(x)
      BY <1>0, <2>1, <3>2 DEF StartsOnce
    <3>4. ~TakenAsCaller(x)'
      BY <1>5, <2>1, <2>3, <3>1
    <3>. QED
      BY <3>2, <3>3, <3>4, ChanStays
  <2>. QED
    BY <1>1, <1>2, <1>7, <2>2, <2>3
<1>8. ASSUME NEW c \in Channels, Started(c)'
      PROVE  extOf'[c] \in Channels
  BY <1>8, TypeStep, ManagerAssumption DEF TypeOK, Started, Channels
<1>9. ASSUME NEW c \in Channels, Started(c)', pending'[extOf'[c]] = c
      PROVE  extOf'[extOf'[c]] = None /\ ~(loop'.pc = "start" /\ loop'.ch = extOf'[c])
  <2>1. PICK x \in Channels : x = extOf'[c]
    BY <1>8, <1>9
  <2>2. ~TakenAsCaller(x)'
    BY <1>6, <1>9, <2>1
  <2>. QED
    BY <2>1, <2>2 DEF TakenAsCaller, Started
<1>10. ASSUME NEW c \in Channels, Bridging(c)' \/ bridge'[c]
       PROVE  /\ chan'[extOf'[c]] # "none"
              /\ ~\E i \in DOMAIN queue' : queue'[i].type = "start" /\ queue'[i].ch = extOf'[c]
              /\ extOf'[extOf'[c]] = None /\ ~(loop'.pc = "start" /\ loop'.ch = extOf'[c])
  <2>1. Started(c)'
    <3>1. CASE Bridging(c)
      BY <3>1, LoopCall, ExtGrows DEF Bridging
    <3>2. CASE bridge[c]
      BY <1>0, <3>2, ExtGrows DEF CallOK, CallAt
    <3>3. CASE OnExternalStart /\ c = pending[Head(queue).ch]
      BY <3>3, LoopCall, ExtGrows
    <3>. QED
      BY <1>1, <1>2, <1>10, <3>1, <3>2, <3>3
  <2>2. PICK x \in Channels : x = extOf'[c]
    BY <1>8, <2>1
  <2>3. chan'[x] # "none" /\ ~Has(queue', "start", x) /\ ~TakenAsCaller(x)'
    BY <1>7, <1>10, <2>2
  <2>. QED
    BY <2>2, <2>3 DEF TakenAsCaller, Started, Has
<1>. QED
  BY <1>3, <1>4, <1>9, <1>10 DEF MapsOK, TakenAsCaller, Started, Has

-----------------------------------------------------------------------------
\* The purges.
LEMMA PurgeOKStep == Inv /\ [Next]_vars => PurgeOK'
<1>. SUFFICES ASSUME Inv, [Next]_vars PROVE PurgeOK'
  OBVIOUS
<1>0. TypeOK /\ PurgeOK /\ MapsOK
  BY DEF Inv
<1>1. ASSUME NEW who \in Purgers
      PROVE  /\ purge'[who].pc = "ringing" => purge'[who].todo \subseteq Dialed
             /\ purge'[who].pc = "teardown" => \A c \in purge'[who].todo : Started(c)'
             /\ \A c \in Channels : purge'[who].cur = c =>
                    purge'[who].pc = "teardown" /\ Started(c)' /\ td'[c] # "none"
  <2>0. /\ purge[who].pc = "ringing" => purge[who].todo \subseteq Dialed
        /\ purge[who].pc = "teardown" => \A c \in purge[who].todo : c \in Channels /\ Started(c) /\ Started(c)'
        /\ \A c \in Channels : purge[who].cur = c =>
               purge[who].pc = "teardown" /\ Started(c)' /\ td'[c] # "none"
    <3>1. /\ purge[who].pc = "ringing" => purge[who].todo \subseteq Dialed
          /\ purge[who].pc = "teardown" => \A c \in purge[who].todo : c \in Channels /\ Started(c)
      BY <1>0, ActorsStarted DEF PurgeOK, TypeOK
    <3>2. ASSUME NEW c \in Channels, purge[who].cur = c
          PROVE  purge[who].pc = "teardown" /\ Started(c) /\ td[c] # "none"
      BY <1>0, <3>2, ManagerAssumption DEF PurgeOK, Channels
    <3>. QED
      BY <3>1, <3>2, ExtGrows, TdGrows
  <2>1. CASE purge'[who] = purge[who]
    BY <2>0, <2>1
  <2>2. CASE purge'[who].pc = "ringing" /\ purge'[who].todo \subseteq Dialed /\ purge'[who].cur = None
    BY <2>2, ManagerAssumption DEF Channels
  <2>3. CASE purge'[who] = NoPurge
    BY <2>3, ManagerAssumption DEF NoPurge, Channels
  <2>4. CASE PurgeCollect(who)
    <3>1. /\ purge'[who].pc = "teardown" /\ purge'[who].cur = None
          /\ \A c \in purge'[who].todo : c \in Channels /\ Started(c)
      <4>1. purge'[who] = [pc |-> "teardown", cur |-> None,
                           todo |-> {c \in Channels : \E k \in Channels : pending[k] = c \/ active[k] = c}]
        BY <1>0, <2>4 DEF PurgeCollect, TypeOK
      <4>. QED
        BY <4>1, ActorsStarted
    <3>. QED
      BY <3>1, ExtGrows, ManagerAssumption DEF Channels
  <2>5. CASE PurgeCall(who)
    <3>1. PICK c \in purge[who].todo : /\ purge' = [purge EXCEPT ![who].todo = @ \ {c}, ![who].cur = c]
                                       /\ StartTeardown(c)
      BY <2>5 DEF PurgeCall
    <3>2. c \in Channels /\ purge[who].pc = "teardown"
      BY <1>0, <2>5, <3>1 DEF PurgeCall, TypeOK
    <3>3. td'[c] # "none"
      BY <1>0, <3>1, <3>2 DEF StartTeardown, TypeOK
    <3>4. /\ purge'[who].pc = "teardown" /\ purge'[who].todo \subseteq purge[who].todo
          /\ purge'[who].cur = c
      BY <1>0, <3>1, <3>2 DEF TypeOK
    <3>. QED
      BY <2>0, <3>1, <3>2, <3>3, <3>4
  <2>6. CASE PurgeNext(who)
    <3>1. \/ purge'[who] = NoPurge
          \/ purge'[who].pc = "teardown" /\ purge'[who].todo = purge[who].todo /\ purge'[who].cur = None
      BY <1>0, <2>6 DEF PurgeNext, TypeOK
    <3>2. purge[who].pc = "teardown"
      BY <2>6 DEF PurgeNext
    <3>. QED
      BY <2>0, <2>3, <3>1, <3>2, ManagerAssumption DEF Channels
  <2>7. CASE PurgeRinging(who)
    <3>1. /\ purge'[who].pc = "ringing" /\ purge'[who].todo \subseteq purge[who].todo
          /\ purge'[who].cur = purge[who].cur /\ purge[who].pc = "ringing"
      BY <1>0, <2>7 DEF PurgeRinging, TypeOK
    <3>. QED
      BY <2>0, <3>1
  <2>8. ASSUME Poll \/ Shutdown
        PROVE  \/ purge'[who] = purge[who]
               \/ purge'[who].pc = "ringing" /\ purge'[who].todo \subseteq Dialed /\ purge'[who].cur = None
    <3>1. purge' = purge \/ \E w \in Purgers : StartPurge(w)
      BY <2>8 DEF Poll, Shutdown, Purgers
    <3>. QED
      BY <1>0, <3>1 DEF StartPurge, TypeOK
  <2>9. ASSUME NEW w \in Purgers, w # who, PurgeStep(w) PROVE purge'[who] = purge[who]
    <3>1. \E r : purge' = [purge EXCEPT ![w] = r]
      <4>1. PurgeRinging(w) => \E r : purge' = [purge EXCEPT ![w] = r]
        BY DEF PurgeRinging
      <4>2. PurgeCollect(w) => \E r : purge' = [purge EXCEPT ![w] = r]
        BY DEF PurgeCollect
      <4>3. PurgeCall(w) => \E r : purge' = [purge EXCEPT ![w] = r]
        BY DEF PurgeCall
      <4>4. PurgeNext(w) => \E r : purge' = [purge EXCEPT ![w] = r]
        BY DEF PurgeNext
      <4>. QED
        BY <2>9, <4>1, <4>2, <4>3, <4>4 DEF PurgeStep
    <3>. QED
      BY <1>0, <2>9, <3>1 DEF TypeOK
  <2>10. purge' = purge \/ Poll \/ Shutdown \/ \E w \in Purgers : PurgeStep(w)
    BY MapWriters DEF PurgeStep
  <2>. QED
    BY <2>1, <2>2, <2>4, <2>5, <2>6, <2>7, <2>8, <2>9, <2>10 DEF PurgeStep
<1>2. ASSUME drops' = 0 PROVE connected' /\ sawUp' /\ purge'["watcher"] = NoPurge
  <2>1. drops = 0 /\ ~WebSocketDrops
    <3>1. drops \in Nat /\ (drops' = drops \/ (WebSocketDrops /\ drops' = drops + 1))
      <4>1. drops \in Nat
        BY <1>0, ManagerAssumption DEF TypeOK
      <4>2. drops' = drops \/ WebSocketDrops
        BY DialWriters
      <4>. QED
        BY <4>1, <4>2 DEF WebSocketDrops
    <3>2. ~WebSocketDrops
      BY <1>2, <3>1 DEF WebSocketDrops
    <3>. QED
      BY <1>2, <3>1, <3>2
  <2>2. connected /\ sawUp /\ purge["watcher"] = NoPurge /\ "watcher" \in Purgers
    BY <1>0, <2>1 DEF PurgeOK, Purgers
  <2>3. connected' = connected
    BY <2>1, <2>2, DialWriters DEF WebSocketReturns
  <2>4. ~Poll /\ ~PurgeStep("watcher")
    BY <2>2 DEF Poll, PurgeStep, PurgeRinging, PurgeCollect, PurgeCall, PurgeNext, NoPurge
  <2>5. purge'["watcher"] = purge["watcher"]
    <3>1. ASSUME NEW who \in Purgers, who # "watcher", PurgeStep(who) PROVE purge'["watcher"] = purge["watcher"]
      BY <1>0, <2>2, <3>1 DEF PurgeStep, PurgeRinging, PurgeCollect, PurgeCall, PurgeNext, TypeOK
    <3>2. Shutdown => purge'["watcher"] = purge["watcher"]
      BY <1>0, <2>2 DEF Shutdown, StartPurge, TypeOK
    <3>. QED
      BY <2>4, <3>1, <3>2, MapWriters DEF PurgeStep
  <2>. QED
    BY <2>2, <2>3, <2>4, <2>5, DialWriters
<1>3. ASSUME loop'.pc # "stopped" PROVE purge'["loop"] = NoPurge
  <2>1. loop.pc # "stopped" /\ ~Shutdown
    <3>1. loop.pc = "stopped" => loop' = loop
      BY MapWriters DEF OnExternalStart, OnCallerStart, OnOutboundAnswered, StartCall, CreateExt, BridgeCall, Activate,
           OnActiveEnd, LoopTeardown, OnStagedEnd, Shutdown, Takes
    <3>. QED
      BY <1>3, <3>1 DEF Shutdown, LoopTo, Doing
  <2>2. purge["loop"] = NoPurge /\ "loop" \in Purgers
    BY <1>0, <2>1 DEF PurgeOK, Purgers
  <2>3. ~PurgeStep("loop")
    BY <2>2 DEF PurgeStep, PurgeRinging, PurgeCollect, PurgeCall, PurgeNext, NoPurge
  <2>4. ASSUME NEW who \in Purgers, who # "loop", PurgeStep(who) PROVE purge'["loop"] = purge["loop"]
    BY <1>0, <2>2, <2>4 DEF PurgeStep, PurgeRinging, PurgeCollect, PurgeCall, PurgeNext, TypeOK
  <2>5. Poll => purge'["loop"] = purge["loop"]
    BY <1>0, <2>2 DEF Poll, StartPurge, TypeOK
  <2>. QED
    BY <2>1, <2>2, <2>3, <2>4, <2>5, MapWriters DEF PurgeStep
<1>4. ASSUME purge'["loop"].pc = "teardown" PROVE \A k \in Channels : pending'[k] = None
  <2>1. loop'.pc = "stopped"
    BY <1>3, <1>4 DEF NoPurge
  <2>2. ~StartCall
    BY <2>1 DEF StartCall, LoopIdle, LoopTo, Idle, Doing
  <2>3. CASE purge["loop"].pc = "teardown"
    BY <1>0, <2>2, <2>3, MapsMove DEF PurgeOK
  <2>4. CASE PurgeCollect("loop")
    BY <2>4 DEF PurgeCollect
  <2>5. CASE purge["loop"].pc # "teardown" /\ ~PurgeCollect("loop")
    <3>1. "loop" \in Purgers
      BY DEF Purgers
    <3>2. ASSUME NEW who \in Purgers, PurgeRinging(who) PROVE purge'["loop"].pc = purge["loop"].pc
      BY <1>0, <3>1, <3>2 DEF PurgeRinging, TypeOK
    <3>3. ASSUME NEW who \in Purgers, PurgeCollect(who) PROVE purge'["loop"].pc # "teardown"
      BY <1>0, <2>5, <3>1, <3>3 DEF PurgeCollect, TypeOK
    <3>5. ASSUME NEW who \in Purgers, PurgeCall(who) PROVE purge'["loop"].pc = purge["loop"].pc
      BY <1>0, <3>1, <3>5 DEF PurgeCall, TypeOK
    <3>6. ASSUME NEW who \in Purgers, PurgeNext(who) PROVE purge'["loop"].pc \in {purge["loop"].pc, "off"}
      BY <1>0, <3>1, <3>6 DEF PurgeNext, NoPurge, TypeOK
    <3>4. Poll \/ Shutdown => purge'["loop"].pc # "teardown"
      BY <1>0, <2>5, <3>1 DEF Poll, Shutdown, StartPurge, TypeOK
    <3>. QED
      BY <1>4, <2>5, <3>2, <3>3, <3>4, <3>5, <3>6, MapWriters
  <2>. QED
    BY <2>3, <2>4, <2>5
<1>5. ASSUME NEW who \in Purgers, purge'[who].cur # None
      PROVE  purge'[who].pc = "teardown" /\ extOf'[purge'[who].cur] # None /\ td'[purge'[who].cur] # "none"
  <2>1. PICK c \in Channels : c = purge'[who].cur
    BY <1>5, TypeStep DEF TypeOK
  <2>. QED
    BY <1>1, <2>1 DEF Started
<1>. QED
  BY <1>1, <1>2, <1>3, <1>4, <1>5 DEF PurgeOK, Started

-----------------------------------------------------------------------------
\* The invariant.
LEMMA InvInit == Init => Inv
<1>. SUFFICES ASSUME Init PROVE Inv
  OBVIOUS
<1>. USE ManagerAssumption DEF Init
<1>1. TypeOK
  BY DEF TypeOK, Idle, Doing, LoopPcs, TdPcs, MediaPcs, NoPurge, Purgers, Channels
<1>2. \A ch, type : ~Has(queue, type, ch)
  BY DEF Has
<1>3. LoopOK
  BY DEF LoopOK, Idle, Doing
<1>4. StartsOnce
  BY <1>2 DEF StartsOnce, StartsUnique, EndsLast
<1>5. CallOK
  BY DEF CallOK, CallAt, Started
<1>6. ExtOnce
  BY DEF ExtOnce, Started, Channels
<1>7. MapsOK
  BY <1>2 DEF MapsOK, Started, Bridging, Idle, Doing, TakenAsCaller, Channels
<1>8. PurgeOK
  BY DEF PurgeOK, NoPurge, Purgers, Channels
<1>. QED
  BY <1>1, <1>3, <1>4, <1>5, <1>6, <1>7, <1>8 DEF Inv

\* The invariant that holds whatever happens is inductive.
LEMMA InvStep == Inv /\ [Next]_vars => Inv'
  BY TypeStep, LoopOKStep, StartsOnceStep, CallOKStep, ExtOnceStep, MapsOKStep, PurgeOKStep DEF Inv

\* The type of every variable of the manager.
THEOREM TypeCorrect == Spec => []TypeOK
<1>1. Inv => TypeOK
  BY DEF Inv
<1>. QED
  BY <1>1, InvInit, InvStep, PTL DEF Spec

-----------------------------------------------------------------------------
\* A call that no cleanup has begun on is found.

\* Who writes the maps, and how.
LEMMA MapsChange ==
    ASSUME Inv, [Next]_vars
    PROVE  /\ \/ UNCHANGED pending
              \/ \E e \in Channels : Started(e) /\ PendingOut(e)
              \/ \E who \in Purgers : PurgeCollect(who)
              \/ StartCall /\ loop' = Doing("ext", loop.ch)
           /\ \/ UNCHANGED active
              \/ \E e \in Channels : Started(e) /\ ActiveOut(e)
              \/ \E who \in Purgers : PurgeCollect(who)
              \/ Activate
<1>1. OnExternalStart \/ OnStagedEnd => \E e \in Channels : Started(e) /\ PendingOut(e)
  BY LoopCall DEF OnExternalStart, OnStagedEnd, PendingOut
<1>2. CreateExt => UNCHANGED pending \/ \E e \in Channels : Started(e) /\ PendingOut(e)
  <2>1. CreateExt => loop.ch \in Channels /\ Started(loop.ch)
    BY LoopCall DEF CreateExt
  <2>2. CreateExt => UNCHANGED pending \/ pending' = WithoutLegs(pending, loop.ch)
    BY DEF CreateExt
  <2>. QED
    BY <2>1, <2>2 DEF PendingOut
<1>3. ASSUME NEW c \in Channels, TdMaps(c) PROVE Started(c) /\ PendingOut(c) /\ ActiveOut(c)
  BY <1>3, ActorsStarted DEF TdMaps, PendingOut, ActiveOut
<1>4. OnActiveEnd => \E e \in Channels : Started(e) /\ ActiveOut(e)
  BY LoopCall DEF OnActiveEnd, ActiveOut
<1>5. StartCall => UNCHANGED pending \/ loop' = Doing("ext", loop.ch)
  BY StartCases
<1>. QED
  BY <1>1, <1>2, <1>3, <1>4, <1>5, MapWriters

\* Taking another call's legs out of a map leaves a call's own.
LEMMA LegsApart ==
    ASSUME Inv, NEW c \in Channels, NEW e \in Channels, c # e, Started(c), Started(e),
           extOf[e] # c, ~TakenAsCaller(extOf[c])
    PROVE  /\ \A m : m[c] = c => WithoutLegs(m, e)[c] = c
           /\ \A m : m[extOf[c]] = c => WithoutLegs(m, e)[extOf[c]] = c
<1>1. extOf[c] # extOf[e] /\ extOf[c] # e /\ extOf[c] \in Channels
  BY TwoLegs DEF Inv, ExtOnce, TakenAsCaller
<1>. QED
  BY <1>1 DEF WithoutLegs

\* A staged call stays staged unless it is taken out itself.
LEMMA PendingKept ==
    ASSUME Inv, [Next]_vars, NEW c \in Channels, PendingBoth(c),
           \A e \in Channels : PendingOut(e) /\ e # c => extOf[e] # c
    PROVE  PendingBoth(c)' \/ PendingOut(c) \/ \E who \in Purgers : PurgeCollect(who)
<1>1. Started(c) /\ extOf[c] \in Channels /\ ~TakenAsCaller(extOf[c])
  BY TwoLegs DEF Inv, MapsOK, PendingBoth
<1>2. extOf'[c] = extOf[c]
  BY <1>1, ExtGrows
<1>3. CASE UNCHANGED pending
  BY <1>2, <1>3 DEF PendingBoth
<1>4. ASSUME NEW e \in Channels, Started(e), PendingOut(e), e # c PROVE PendingBoth(c)'
  <2>1. pending' = WithoutLegs(pending, e) /\ extOf[e] # c
    BY <1>4 DEF PendingOut
  <2>2. pending'[c] = c /\ pending'[extOf[c]] = c
    BY <1>1, <1>4, <2>1, LegsApart DEF PendingBoth
  <2>. QED
    BY <1>2, <2>2 DEF PendingBoth
<1>5. CASE StartCall /\ loop' = Doing("ext", loop.ch)
  <2>1. /\ loop.pc = "start" /\ loop.ch \in Channels /\ ~Started(loop.ch)
        /\ \E x \in ExtIds : /\ chan[x] = "none" /\ \A e \in Channels : extOf[e] # x
                             /\ pending' = [pending EXCEPT ![loop.ch] = loop.ch, ![x] = loop.ch]
    BY <1>5, StartCases DEF Idle, Doing
  <2>2. c # loop.ch /\ extOf[c] # loop.ch
    BY <1>1, <2>1 DEF TakenAsCaller
  <2>3. chan[c] # "none"
    BY <1>1 DEF Inv, CallOK, CallAt
  <2>4. pending'[c] = c /\ pending'[extOf[c]] = c
    BY <1>1, <2>1, <2>2, <2>3 DEF PendingBoth, Inv, TypeOK
  <2>. QED
    BY <1>2, <2>4 DEF PendingBoth
<1>. QED
  BY <1>3, <1>4, <1>5, MapsChange

\* An active call stays active unless it is taken out itself.
LEMMA ActiveKept ==
    ASSUME Inv, [Next]_vars, NEW c \in Channels, ActiveBoth(c),
           \A e \in Channels : ActiveOut(e) /\ e # c => extOf[e] # c
    PROVE  ActiveBoth(c)' \/ ActiveOut(c) \/ \E who \in Purgers : PurgeCollect(who)
<1>1. Started(c) /\ bridge[c]
  BY DEF Inv, MapsOK, ActiveBoth
<1>2. extOf'[c] = extOf[c] /\ extOf[c] \in Channels /\ ~TakenAsCaller(extOf[c])
  BY <1>1, ExtGrows, TwoLegs DEF Inv, MapsOK
<1>3. CASE UNCHANGED active
  BY <1>2, <1>3 DEF ActiveBoth
<1>4. ASSUME NEW e \in Channels, Started(e), ActiveOut(e), e # c PROVE ActiveBoth(c)'
  <2>1. active' = WithoutLegs(active, e) /\ extOf[e] # c
    BY <1>4 DEF ActiveOut
  <2>2. active'[c] = c /\ active'[extOf[c]] = c
    BY <1>1, <1>2, <1>4, <2>1, LegsApart DEF ActiveBoth
  <2>. QED
    BY <1>2, <2>2 DEF ActiveBoth
<1>5. CASE Activate
  <2>1. /\ loop.ch \in Channels /\ Started(loop.ch) /\ Bridging(loop.ch)
        /\ active' = [active EXCEPT ![loop.ch] = loop.ch, ![extOf[loop.ch]] = loop.ch]
    BY <1>5, LoopCall DEF Activate, Bridging
  <2>2. ~bridge[loop.ch] /\ ~TakenAsCaller(extOf[loop.ch])
    BY <1>5, <2>1 DEF Inv, LoopOK, MapsOK, Activate
  <2>3. c # loop.ch /\ extOf[loop.ch] # c /\ extOf[c] # loop.ch /\ extOf[c] # extOf[loop.ch]
    BY <1>1, <1>2, <2>1, <2>2 DEF TakenAsCaller, Inv, ExtOnce
  <2>4. active'[c] = c /\ active'[extOf[c]] = c
    BY <1>2, <2>1, <2>3 DEF ActiveBoth, Inv, TypeOK
  <2>. QED
    BY <1>2, <2>4 DEF ActiveBoth
<1>. QED
  BY <1>3, <1>4, <1>5, MapsChange

\* A purge's calls stay on its list until it tears them down.
LEMMA PurgedKept ==
    ASSUME Inv, [Next]_vars, NEW c \in Channels, Purged(c)
    PROVE  Purged(c)' \/ td'[c] # "none"
<1>. USE DEF Inv
<1>1. PICK who \in Purgers : purge[who].pc = "teardown" /\ c \in purge[who].todo
  BY DEF Purged
<1>2. CASE purge'[who] = purge[who]
  BY <1>1, <1>2 DEF Purged
<1>3. CASE PurgeCall(who)
  <2>1. PICK e \in purge[who].todo : /\ purge' = [purge EXCEPT ![who].todo = @ \ {e}, ![who].cur = e]
                                     /\ StartTeardown(e)
    BY <1>3 DEF PurgeCall
  <2>2. CASE e = c
    BY <2>1, <2>2 DEF StartTeardown, TypeOK
  <2>3. CASE e # c
    <3>1. purge'[who].pc = "teardown" /\ c \in purge'[who].todo
      BY <1>1, <2>1, <2>3 DEF TypeOK
    <3>. QED
      BY <3>1 DEF Purged
  <2>. QED
    BY <2>2, <2>3
<1>4. CASE PurgeNext(who)
  <2>1. purge'[who].pc = "teardown" /\ c \in purge'[who].todo
    BY <1>1, <1>4 DEF PurgeNext, TypeOK
  <2>. QED
    BY <2>1 DEF Purged
<1>5. ~PurgeRinging(who) /\ ~PurgeCollect(who)
  BY <1>1 DEF PurgeRinging, PurgeCollect
<1>6. Poll => purge'[who] = purge[who]
  BY <1>1 DEF Poll, StartPurge, TypeOK
<1>7. Shutdown => purge'[who] = purge[who]
  <2>1. Shutdown => who # "loop"
    BY <1>1 DEF Shutdown, PurgeOK, NoPurge
  <2>. QED
    BY <1>1, <2>1 DEF Shutdown, StartPurge, TypeOK
<1>8. ASSUME NEW w \in Purgers, w # who, PurgeRinging(w) \/ PurgeCollect(w) \/ PurgeCall(w) \/ PurgeNext(w)
      PROVE  purge'[who] = purge[who]
  <2>1. \E r : purge' = [purge EXCEPT ![w] = r]
    <3>1. PurgeRinging(w) => \E r : purge' = [purge EXCEPT ![w] = r]
      BY DEF PurgeRinging
    <3>2. PurgeCollect(w) => \E r : purge' = [purge EXCEPT ![w] = r]
      BY DEF PurgeCollect
    <3>3. PurgeCall(w) => \E r : purge' = [purge EXCEPT ![w] = r]
      BY DEF PurgeCall
    <3>4. PurgeNext(w) => \E r : purge' = [purge EXCEPT ![w] = r]
      BY DEF PurgeNext
    <3>. QED
      BY <1>8, <3>1, <3>2, <3>3, <3>4
  <2>. QED
    BY <1>8, <2>1 DEF TypeOK
<1>. QED
  BY <1>2, <1>3, <1>4, <1>5, <1>6, <1>7, <1>8, MapWriters

\* No call grows a port but a new one.
LEMMA HeldGrows ==
    ASSUME Inv, [Next]_vars, NEW c \in Channels, held'[c]
    PROVE  held[c] \/ (StartCall /\ c = loop.ch /\ loop' = Doing("ext", c) /\ ~Started(c) /\ Started(c)')
<1>. USE DEF Inv
<1>1. CASE UNCHANGED held
  BY <1>1
<1>2. CASE StartCall /\ ~UNCHANGED held
  <2>1. /\ loop.ch \in Channels /\ loop' = Doing("ext", loop.ch) /\ ~Started(loop.ch)
        /\ held' = [held EXCEPT ![loop.ch] = TRUE]
        /\ \E x \in ExtIds : extOf' = [extOf EXCEPT ![loop.ch] = x]
    BY <1>2, StartCases
  <2>2. CASE c = loop.ch
    <3>1. extOf'[c] \in ExtIds
      BY <2>1, <2>2 DEF TypeOK
    <3>2. Started(c)'
      BY <3>1, ManagerAssumption DEF Started, Channels
    <3>. QED
      BY <1>2, <2>1, <2>2, <3>2
  <2>3. CASE c # loop.ch
    BY <2>1, <2>3 DEF TypeOK
  <2>. QED
    BY <2>2, <2>3
<1>3. CASE CreateExt
  <2>1. loop.ch \in Channels
    BY <1>3, LoopCall DEF CreateExt
  <2>2. UNCHANGED held \/ held' = [held EXCEPT ![loop.ch] = FALSE]
    BY <1>3 DEF CreateExt
  <2>. QED
    BY <2>1, <2>2 DEF TypeOK
<1>4. ASSUME NEW e \in Channels, NEW q, Abort(e, q) PROVE held[c]
  <2>1. UNCHANGED held \/ held' = [held EXCEPT ![e] = FALSE]
    BY <1>4 DEF Abort, AbortCleanup
  <2>. QED
    BY <2>1 DEF TypeOK
<1>5. BridgeCall \/ OnStagedEnd => UNCHANGED held \/ \E e \in Channels : \E q : Abort(e, q)
  BY LoopCall DEF BridgeCall
<1>6. ASSUME NEW e \in Channels, TdPorts(e) PROVE held[c]
  BY <1>6 DEF TdPorts, FreesPort, TypeOK
<1>. QED
  BY <1>1, <1>2, <1>3, <1>4, <1>5, <1>6, CallWriters

\* A call that is found stays found, along a step.
LEMMA FoundStep ==
    ASSUME Inv, [Next]_vars, NEW c \in Channels, FoundAt(c),
           \A e \in Channels : PendingOut(e) \/ ActiveOut(e) => e = c \/ extOf[e] # c
    PROVE  FoundAt(c)'
<1>0. c # None /\ TypeOK /\ MapsOK
  BY ManagerAssumption DEF Inv, Channels
<1>1. ASSUME StartCall, c = loop.ch, loop' = Doing("ext", c)
      PROVE  PendingBoth(c)'
  <2>1. PICK x \in ExtIds : /\ chan[x] = "none"
                            /\ extOf' = [extOf EXCEPT ![c] = x]
                            /\ pending' = [pending EXCEPT ![c] = c, ![x] = c]
    BY <1>1, StartCases DEF Idle, Doing
  <2>2. x \in Channels /\ extOf'[c] = x /\ pending'[c] = c /\ pending'[x] = c
    BY <1>0, <2>1 DEF TypeOK, Channels
  <2>. QED
    BY <2>2 DEF PendingBoth
<1>2. ASSUME NEW k \in Channels, pending'[k] = c PROVE PendingBoth(c)'
  <2>1. CASE pending[k] = c
    <3>1. PendingBoth(c)
      BY <2>1 DEF FoundAt
    <3>2. ~PendingOut(c)
      BY <1>0, <1>2, <2>1 DEF PendingOut, WithoutLegs, MapsOK
    <3>3. ASSUME NEW who \in Purgers PROVE ~PurgeCollect(who)
      BY <1>0, <1>2 DEF PurgeCollect
    <3>. QED
      BY <3>1, <3>2, <3>3, PendingKept
  <2>2. CASE pending[k] # c
    BY <1>0, <1>1, <1>2, <2>2, MapsMove
  <2>. QED
    BY <2>1, <2>2
<1>3. ASSUME Activate, c = loop.ch PROVE ActiveBoth(c)'
  <2>1. /\ active' = [active EXCEPT ![c] = c, ![extOf[c]] = c] /\ extOf' = extOf
        /\ extOf[c] \in Channels
    BY <1>3, LoopCall, TwoLegs DEF Activate
  <2>. QED
    BY <1>0, <2>1 DEF ActiveBoth, TypeOK
<1>4. ASSUME NEW k \in Channels, active'[k] = c PROVE ActiveBoth(c)'
  <2>1. CASE active[k] = c
    <3>1. ActiveBoth(c)
      BY <2>1 DEF FoundAt
    <3>2. ~ActiveOut(c)
      BY <1>0, <1>4, <2>1 DEF ActiveOut, WithoutLegs, MapsOK
    <3>3. ASSUME NEW who \in Purgers PROVE ~PurgeCollect(who)
      BY <1>0, <1>4 DEF PurgeCollect
    <3>. QED
      BY <3>1, <3>2, <3>3, ActiveKept
  <2>2. CASE active[k] # c
    BY <1>0, <1>3, <1>4, <2>2, MapsMove
  <2>. QED
    BY <2>1, <2>2
<1>5. ASSUME NEW who \in Purgers, PurgeCollect(who), PendingBoth(c) \/ ActiveBoth(c) PROVE Purged(c)'
  <2>1. purge' = [purge EXCEPT ![who] =
                      [pc |-> "teardown", cur |-> None,
                       todo |-> {e \in Channels : \E k \in Channels : pending[k] = e \/ active[k] = e}]]
    BY <1>5 DEF PurgeCollect
  <2>2. purge'[who].pc = "teardown" /\ c \in purge'[who].todo
    BY <1>0, <1>5, <2>1 DEF TypeOK, PendingBoth, ActiveBoth
  <2>. QED
    BY <2>2 DEF Purged
<1>6. ASSUME held'[c], td'[c] = "none", td[c] = "none", Bridging(c)
      PROVE  Bridging(c)' \/ ActiveBoth(c)'
  <2>1. loop.pc \in {"bridge", "activate"} /\ loop.ch = c
    BY <1>6 DEF Bridging
  <2>2. CASE Activate
    BY <1>3, <2>1, <2>2
  <2>3. CASE BridgeCall
    <3>1. loop' = Doing("activate", c) \/ Abort(c, queue)
      BY <2>1, <2>3 DEF BridgeCall, LoopTo
    <3>2. Abort(c, queue) => td'[c] # "none"
      BY <1>0, <1>6 DEF Abort, AbortCleanup, TypeOK
    <3>. QED
      BY <1>6, <3>1, <3>2 DEF Bridging, Doing
  <2>4. CASE loop' = loop
    BY <1>6, <2>4 DEF Bridging
  <2>. QED
    BY <2>1, <2>2, <2>3, <2>4, MapWriters
       DEF OnExternalStart, OnCallerStart, OnOutboundAnswered, StartCall, CreateExt, OnActiveEnd, LoopTeardown,
           OnStagedEnd, Shutdown, Takes
<1>7. ASSUME held'[c], td'[c] = "none", td[c] = "none", PendingBoth(c)
      PROVE  Bridging(c)' \/ PendingBoth(c)' \/ Purged(c)'
  <2>1. CASE OnExternalStart /\ c = pending[Head(queue).ch]
    BY <2>1 DEF OnExternalStart, LoopTo, Doing, Bridging
  <2>2. CASE OnStagedEnd /\ c = pending[Head(queue).ch]
    <3>1. Abort(c, Tail(queue))
      BY <2>2, LoopCall
    <3>. QED
      BY <1>0, <1>7, <3>1 DEF Abort, AbortCleanup, TypeOK
  <2>3. CASE CreateExt /\ c = loop.ch /\ pending' # pending
    <3>1. held' = [held EXCEPT ![c] = FALSE]
      BY <2>3 DEF CreateExt
    <3>. QED
      BY <1>0, <1>7, <3>1 DEF TypeOK
  <2>4. pending' = WithoutLegs(pending, c) => pending' # pending
    BY <1>0, <1>7 DEF PendingBoth, WithoutLegs
  <2>5. ~TdMaps(c)
    BY <1>7 DEF TdMaps
  <2>. QED
    BY <1>5, <1>7, <2>1, <2>2, <2>3, <2>4, <2>5, PendingKept DEF PendingOut
<1>8. ASSUME held'[c], td'[c] = "none", td[c] = "none", ActiveBoth(c)
      PROVE  ActiveBoth(c)' \/ Purged(c)'
  <2>1. ASSUME OnActiveEnd, c = active[Head(queue).ch] PROVE FALSE
    <3>1. StartTeardown(c)
      BY <2>1, LoopCall
    <3>. QED
      BY <1>0, <1>8, <3>1 DEF StartTeardown, TypeOK
  <2>2. ~TdMaps(c)
    BY <1>8 DEF TdMaps
  <2>. QED
    BY <1>5, <1>8, <2>1, <2>2, ActiveKept DEF ActiveOut
<1>9. ASSUME held'[c], td'[c] = "none"
      PROVE  Bridging(c)' \/ PendingBoth(c)' \/ ActiveBoth(c)' \/ Purged(c)'
  <2>1. td[c] = "none"
    BY <1>9, TdGrows
  <2>2. CASE held[c]
    BY <1>6, <1>7, <1>8, <1>9, <2>1, <2>2, PurgedKept DEF FoundAt
  <2>. QED
    BY <1>1, <1>9, <2>2, HeldGrows
<1>. QED
  BY <1>2, <1>4, <1>9 DEF FoundAt

\* CallsFindable: a caller's call that holds a port and no cleanup has begun on
\* is in the loop's hands, in the maps under both legs, or on a purge's list.
THEOREM AlwaysFindable == Spec => []CallsFindable
<1>. DEFINE Found == \A c \in Inbound \cup Dialed : FoundAt(c)
<1>1. Init => Found
  BY ManagerAssumption DEF Init, FoundAt, Channels
<1>2. Inv /\ Found /\ [Next]_vars => Found'
  <2>. SUFFICES ASSUME Inv, Found, [Next]_vars, NEW c \in Inbound \cup Dialed PROVE FoundAt(c)'
    OBVIOUS
  <2>1. \A e \in Channels : extOf[e] # c
    BY ManagerAssumption DEF Inv, TypeOK, Channels
  <2>. QED
    BY <2>1, FoundStep DEF Channels
<1>3. Found => CallsFindable
  BY DEF FoundAt, CallsFindable, Tracked, PendingBoth, ActiveBoth, Bridging, Purged
<1>. HIDE DEF Found
<1>. QED
  BY <1>1, <1>2, <1>3, InvInit, InvStep, PTL DEF Spec

-----------------------------------------------------------------------------
\* The ports.

\* Who begins a cleanup.
LEMMA TdStarts ==
    ASSUME Inv, [Next]_vars, NEW c \in Channels, td[c] = "none", td'[c] # "none"
    PROVE  \/ BridgeCall /\ c = loop.ch /\ loop' = Idle /\ td'[c] = "done"
           \/ OnStagedEnd /\ c = pending[Head(queue).ch] /\ loop' = Idle /\ td'[c] = "done"
           \/ /\ td'[c] = "maps"
              /\ \/ OnActiveEnd /\ c = active[Head(queue).ch]
                 \/ MediaAccept(c) \/ MediaDead(c) \/ TimerFires(c)
                 \/ \E who \in Purgers : PurgeCall(who) /\ purge[who].pc = "teardown" /\ c \in purge[who].todo
<1>0. TypeOK
  BY DEF Inv
<1>1. ASSUME NEW e, NEW q, Abort(e, q), ~UNCHANGED td
      PROVE  e = c /\ loop' = Idle /\ td'[c] = "done"
  <2>1. td' = [td EXCEPT ![e] = "done"] /\ loop' = Idle
    BY <1>1 DEF Abort, AbortCleanup, LoopIdle
  <2>2. e = c
    BY <1>0, <2>1 DEF TypeOK
  <2>. QED
    BY <1>0, <2>1, <2>2 DEF TypeOK
<1>2. ASSUME NEW e, StartTeardown(e) PROVE e = c /\ td'[c] = "maps"
  BY <1>0, <1>2 DEF StartTeardown, TypeOK
<1>3. CASE BridgeCall
  <2>1. UNCHANGED td \/ Abort(loop.ch, queue)
    BY <1>3 DEF BridgeCall
  <2>. QED
    BY <1>1, <1>3, <2>1
<1>4. CASE OnStagedEnd
  <2>1. Abort(pending[Head(queue).ch], Tail(queue))
    BY <1>4, LoopCall
  <2>. QED
    BY <1>1, <1>4, <2>1
<1>5. CASE OnActiveEnd
  BY <1>2, <1>5, LoopCall
<1>6. ASSUME NEW e \in Channels, TdMaps(e) \/ TdLegs(e) \/ TdPorts(e) PROVE FALSE
  <2>1. \E s : td' = [td EXCEPT ![e] = s]
    BY <1>6 DEF TdMaps, TdLegs, TdPorts, FreesPort
  <2>2. td[e] # "none"
    BY <1>6 DEF TdMaps, TdLegs, TdPorts, FreesPort
  <2>. QED
    BY <1>0, <2>1, <2>2 DEF TypeOK
<1>7. ASSUME NEW e \in Channels, MediaAccept(e) \/ MediaDead(e) \/ TimerFires(e)
      PROVE  td'[c] = "maps" /\ (MediaAccept(c) \/ MediaDead(c) \/ TimerFires(c))
  <2>1. UNCHANGED td \/ StartTeardown(e)
    BY <1>7 DEF MediaAccept, MediaDead, TimerFires
  <2>. QED
    BY <1>2, <1>7, <2>1
<1>8. ASSUME NEW who \in Purgers, PurgeCall(who)
      PROVE  td'[c] = "maps" /\ purge[who].pc = "teardown" /\ c \in purge[who].todo
  BY <1>2, <1>8 DEF PurgeCall
<1>. QED
  BY <1>3, <1>4, <1>5, <1>6, <1>7, <1>8, CallWriters

\* What holds from now on without drops and limits has held so far.
LEMMA SteadyBack ==
    ASSUME Inv, [Next]_vars
    PROVE  /\ Steady' => Steady
           /\ Safe' => Safe
           /\ Steady' => ~WebSocketDrops
<1>0. drops \in Nat /\ faults \in Nat
  BY ManagerAssumption DEF Inv, TypeOK
<1>1. drops' = 0 => drops = 0 /\ ~WebSocketDrops
  <2>1. WebSocketDrops => drops' = drops + 1
    BY DEF WebSocketDrops
  <2>2. drops' = drops \/ WebSocketDrops
    BY DialWriters
  <2>. QED
    BY <1>0, <2>1, <2>2
<1>2. faults' = 0 => faults = 0
  <2>1. StartCall \/ CreateExt \/ BridgeCall => faults' = faults \/ faults' = faults + 1
    BY DEF StartCall, CreateExt, BridgeCall, Fault, NoFault
  <2>2. ASSUME NEW ch \in Dialed, DialErr(ch) PROVE faults' = faults \/ faults' = faults + 1
    BY <2>2 DEF DialErr, Fault, NoFault
  <2>3. faults' = faults \/ faults' = faults + 1
    BY <2>1, <2>2, DialWriters
  <2>. QED
    BY <1>0, <2>3
<1>3. \A c \in Channels : Started(c) => Started(c)'
  BY ExtGrows
<1>4. Limited \subseteq Channels
  BY ManagerAssumption DEF Channels
<1>5. Steady' => Steady
  BY <1>1, <1>3, <1>4 DEF Steady
<1>. QED
  BY <1>1, <1>2, <1>5 DEF Safe, Steady

\* Nobody but the loop, the media goroutine of a bridged call and a shutdown's
\* purge begins a cleanup.
LEMMA SteadyTdStarts ==
    ASSUME Inv, [Next]_vars, Steady, NEW c \in Channels, td[c] = "none", td'[c] # "none"
    PROVE  \/ BridgeCall /\ c = loop.ch /\ loop' = Idle
           \/ OnStagedEnd /\ c = pending[Head(queue).ch] /\ loop' = Idle
           \/ bridge[c]
           \/ loop.pc = "stopped" /\ \A k \in Channels : pending[k] = None
<1>1. MediaAccept(c) \/ MediaDead(c) => bridge[c]
  BY DEF Inv, CallOK, CallAt, MediaAccept, MediaDead
<1>2. ~TimerFires(c)
  BY ActorsStarted DEF Inv, CallOK, CallAt, TimerFires, Steady
<1>3. ASSUME OnActiveEnd, c = active[Head(queue).ch] PROVE bridge[c]
  <2>1. Head(queue).ch \in Channels
    BY <1>3, HeadOf DEF OnActiveEnd
  <2>. QED
    BY <1>3, <2>1 DEF Inv, MapsOK
<1>4. ASSUME NEW who \in Purgers, purge[who].pc = "teardown"
      PROVE  loop.pc = "stopped" /\ \A k \in Channels : pending[k] = None
  BY <1>4 DEF Inv, PurgeOK, Steady, Purgers, NoPurge
<1>. QED
  BY <1>1, <1>2, <1>3, <1>4, TdStarts

\* Without drops and limits, nobody tears down a call that is not bridged.
LEMMA SteadyOKStep == Inv /\ SteadyOK /\ [Next]_vars => SteadyOK'
<1>. SUFFICES ASSUME Inv, SteadyOK, [Next]_vars, Steady'
     PROVE  /\ loop'.pc \in {"ext", "bridge", "activate"} => td'[loop'.ch] = "none"
            /\ \A k, c \in Channels : pending'[k] = c => td'[c] = "none"
  BY DEF SteadyOK
<1>0. Steady /\ TypeOK /\ MapsOK
  BY SteadyBack DEF Inv
<1>1. ASSUME NEW k \in Channels, NEW c \in Channels, pending'[k] = c PROVE td'[c] = "none"
  <2>1. td[c] = "none"
    <3>1. CASE pending[k] = c
      BY <1>0, <3>1 DEF SteadyOK
    <3>2. CASE pending[k] # c
      <4>1. StartCall /\ c = loop.ch
        BY <1>1, <3>2, MapsMove, ManagerAssumption DEF Channels
      <4>. QED
        BY <4>1, StartCases DEF Inv, CallOK, CallAt
    <3>. QED
      BY <3>1, <3>2
  <2>2. ~bridge[c]
    <3>1. ~bridge'[c]
      BY <1>1, MapsOKStep DEF MapsOK
    <3>. QED
      BY <3>1, BridgeGrows
  <2>3. ~(BridgeCall /\ c = loop.ch)
    <3>1. BridgeCall => pending'[k] = pending[k] /\ loop.pc = "bridge"
      BY DEF BridgeCall
    <3>. QED
      BY <1>0, <1>1, <3>1 DEF MapsOK, Bridging
  <2>4. ~(OnStagedEnd /\ c = pending[Head(queue).ch])
    <3>1. ASSUME OnStagedEnd, c = pending[Head(queue).ch] PROVE FALSE
      <4>1. pending' = WithoutLegs(pending, c) /\ c # None
        BY <3>1, ManagerAssumption DEF OnStagedEnd, Channels
      <4>. QED
        BY <1>0, <1>1, <4>1 DEF WithoutLegs, MapsOK
    <3>. QED
      BY <3>1
  <2>5. ASSUME loop.pc = "stopped", \A e \in Channels : pending[e] = None PROVE FALSE
    <3>1. ~StartCall
      BY <2>5 DEF StartCall
    <3>. QED
      BY <1>1, <2>5, <3>1, MapsMove, ManagerAssumption DEF Channels
  <2>. QED
    BY <1>0, <2>1, <2>2, <2>3, <2>4, <2>5, SteadyTdStarts
<1>2. ASSUME loop'.pc \in {"ext", "bridge", "activate"}, NEW c \in Channels, c = loop'.ch
      PROVE  td'[c] = "none"
  <2>1. \/ StartCall /\ c = loop.ch
        \/ OnExternalStart /\ c = pending[Head(queue).ch]
        \/ BridgeCall /\ c = loop.ch /\ loop'.pc = "activate"
        \/ loop' = loop
    BY <1>2, LoopMoves DEF Idle, Doing
  <2>2. td[c] = "none"
    <3>1. StartCall /\ c = loop.ch => td[c] = "none"
      BY StartCases DEF Inv, CallOK, CallAt
    <3>2. ASSUME OnExternalStart, c = pending[Head(queue).ch] PROVE td[c] = "none"
      <4>1. Head(queue).ch \in Channels
        BY <3>2, HeadOf DEF OnExternalStart
      <4>. QED
        BY <1>0, <3>2, <4>1 DEF SteadyOK
    <3>3. BridgeCall /\ c = loop.ch => td[c] = "none"
      BY <1>0 DEF SteadyOK, BridgeCall
    <3>4. loop' = loop => td[c] = "none"
      BY <1>0, <1>2 DEF SteadyOK
    <3>. QED
      BY <2>1, <3>1, <3>2, <3>3, <3>4
  <2>3. ~bridge[c]
    <3>1. ~bridge'[c]
      BY <1>2, LoopOKStep DEF LoopOK
    <3>. QED
      BY <3>1, BridgeGrows
  <2>4. loop'.pc # "idle" /\ loop'.pc # "stopped"
    BY <1>2
  <2>5. loop.pc # "stopped"
    BY <2>1, <2>4 DEF StartCall, OnExternalStart, Takes, BridgeCall
  <2>. QED
    BY <1>0, <2>2, <2>3, <2>4, <2>5, SteadyTdStarts DEF Idle, Doing
<1>3. loop'.pc \in {"ext", "bridge", "activate"} => loop'.ch \in Channels
  BY TypeStep, LoopOKStep DEF LoopOK, TypeOK
<1>. QED
  BY <1>1, <1>2, <1>3

\* How a port is taken and given back.
LEMMA PortMoves ==
    ASSUME Inv, [Next]_vars
    PROVE  \/ UNCHANGED <<used, held>>
           \/ /\ StartCall /\ loop.ch \in Channels /\ ~Started(loop.ch)
              /\ held' = [held EXCEPT ![loop.ch] = TRUE]
              /\ \E p \in Ports : /\ p \notin used /\ used' = used \cup {p}
                                  /\ port' = [port EXCEPT ![loop.ch] = p]
           \/ \E c \in Channels :
                 /\ Started(c) /\ used' = used \ {port[c]} /\ held' = [held EXCEPT ![c] = FALSE]
                 /\ \/ /\ CreateExt /\ c = loop.ch /\ loop' = Idle /\ pending' = WithoutLegs(pending, c)
                       /\ AudioSocket \/ faults' # 0
                    \/ td[c] = "none" /\ td'[c] = "done" /\ (Bridging(c) \/ \E k \in Channels : pending[k] = c)
                    \/ td[c] = "ports" /\ td'[c] = "done"
<1>0. TypeOK /\ faults \in Nat
  BY ManagerAssumption DEF Inv, TypeOK
<1>1. CASE StartCall
  BY <1>1, StartCases
<1>2. CASE CreateExt /\ ~UNCHANGED <<used, held>>
  <2>1. /\ loop' = Idle /\ pending' = WithoutLegs(pending, loop.ch)
        /\ used' = used \ {port[loop.ch]} /\ held' = [held EXCEPT ![loop.ch] = FALSE]
        /\ AudioSocket \/ faults' = faults + 1
    BY <1>2 DEF CreateExt, LoopIdle, Fault
  <2>2. loop.ch \in Channels /\ Started(loop.ch)
    BY <1>2, LoopCall DEF CreateExt
  <2>3. AudioSocket \/ faults' # 0
    BY <1>0, <2>1
  <2>. QED
    BY <1>2, <2>1, <2>2, <2>3
<1>3. ASSUME NEW c \in Channels, NEW q, Started(c), Abort(c, q), ~UNCHANGED <<used, held>>
      PROVE  /\ used' = used \ {port[c]} /\ held' = [held EXCEPT ![c] = FALSE]
             /\ td[c] = "none" /\ td'[c] = "done"
  BY <1>0, <1>3 DEF Abort, AbortCleanup, TypeOK
<1>4. CASE BridgeCall /\ ~UNCHANGED <<used, held>>
  <2>1. Bridging(loop.ch) /\ Abort(loop.ch, queue)
    BY <1>4 DEF BridgeCall, Bridging
  <2>2. loop.ch \in Channels /\ Started(loop.ch)
    BY <1>4, LoopCall DEF BridgeCall
  <2>. QED
    BY <1>3, <1>4, <2>1, <2>2
<1>5. CASE OnStagedEnd /\ ~UNCHANGED <<used, held>>
  <2>1. Head(queue).ch \in Channels
    BY <1>5, HeadOf DEF OnStagedEnd
  <2>. QED
    BY <1>3, <1>5, <2>1, LoopCall
<1>6. ASSUME NEW c \in Channels, TdPorts(c)
      PROVE  /\ Started(c) /\ used' = used \ {port[c]} /\ held' = [held EXCEPT ![c] = FALSE]
             /\ td[c] = "ports" /\ td'[c] = "done"
  BY <1>0, <1>6, ActorsStarted DEF TdPorts, FreesPort, TypeOK
<1>. QED
  BY <1>1, <1>2, <1>4, <1>5, <1>6, CallWriters

\* Nothing leads to a dropped call again.
LEMMA DroppedStays ==
    ASSUME Inv, [Next]_vars, NEW c \in Channels, Started(c), Dropped(c)
    PROVE  Dropped(c)'
<1>0. TypeOK /\ CallAt(c) /\ c # None
  BY ManagerAssumption DEF Inv, CallOK, Channels
<1>1. td'[c] = "none"
  <2>1. ASSUME OnStagedEnd \/ OnActiveEnd PROVE Head(queue).ch \in Channels
    BY <2>1, HeadOf DEF OnStagedEnd, OnActiveEnd
  <2>. QED
    BY <1>0, <2>1, TdStarts DEF Dropped, Purged, CallAt, MediaAccept, MediaDead, TimerFires
<1>2. ~timer'[c]
  <2>1. StartCall => timer' = timer \/ timer' = [timer EXCEPT ![loop.ch] = loop.ch \in Limited]
    BY StartCases
  <2>2. \A e \in Channels : TdMaps(e) \/ TimerFires(e) => timer' = [timer EXCEPT ![e] = FALSE]
    BY DEF TdMaps, TimerFires
  <2>3. ~timer[c] /\ c # loop.ch
    BY DEF Dropped
  <2>. QED
    BY <1>0, <2>1, <2>2, <2>3, CallWriters DEF TypeOK
<1>3. ~bridge'[c]
  BY BridgeGrows DEF Dropped
<1>4. loop'.ch # c
  <2>1. CASE loop' = Doing("start", Head(queue).ch) /\ (OnCallerStart \/ OnOutboundAnswered)
    <3>1. Has(queue, "start", Head(queue).ch) /\ Head(queue).ch \in Channels
      BY <2>1, HeadOf DEF OnCallerStart, OnOutboundAnswered
    <3>2. ~Started(Head(queue).ch)
      BY <3>1 DEF Inv, StartsOnce, TakenAsCaller
    <3>. QED
      BY <2>1, <3>2 DEF Doing
  <2>2. CASE loop' = Doing("bridge", pending[Head(queue).ch]) /\ OnExternalStart
    <3>1. Head(queue).ch \in Channels
      BY <2>2, HeadOf DEF OnExternalStart
    <3>. QED
      BY <2>2, <3>1 DEF Doing, Dropped
  <2>3. CASE loop'.pc = "teardown"
    <3>1. ASSUME OnActiveEnd PROVE loop'.ch # c
      <4>1. Head(queue).ch \in Channels /\ loop' = Doing("teardown", active[Head(queue).ch])
        BY <3>1, HeadOf DEF OnActiveEnd, LoopTo
      <4>. QED
        BY <4>1 DEF Doing, Dropped
    <3>2. ASSUME NEW e, NEW q, Abort(e, q) PROVE loop'.ch = e
      BY <2>3, <3>2 DEF Abort, LoopIdle, LoopTo, Idle, Doing
    <3>3. ASSUME OnStagedEnd PROVE loop'.ch # c
      <4>1. Head(queue).ch \in Channels /\ Abort(pending[Head(queue).ch], Tail(queue))
        BY <3>3, HeadOf, LoopCall DEF OnStagedEnd
      <4>. QED
        BY <3>2, <4>1 DEF Dropped
    <3>4. ASSUME BridgeCall PROVE loop'.ch # c
      <4>1. Abort(loop.ch, queue)
        BY <2>3, <3>4 DEF BridgeCall, LoopTo, Doing
      <4>. QED
        BY <3>2, <4>1 DEF Dropped
    <3>5. loop' = loop => loop'.ch # c
      BY DEF Dropped
    <3>. QED
      BY <2>3, <3>1, <3>3, <3>4, <3>5, MapWriters
         DEF OnExternalStart, OnCallerStart, OnOutboundAnswered, StartCall, CreateExt, Activate, LoopTeardown,
             Shutdown, LoopTo, LoopIdle, Idle, Doing
  <2>4. CASE loop'.pc = "stopped" /\ Shutdown
    BY <1>0, <2>4 DEF Shutdown, LoopTo, Doing
  <2>. QED
    BY <1>0, <2>1, <2>2, <2>3, <2>4, LoopMoves DEF Dropped, Idle, Doing
<1>5. ASSUME NEW k \in Channels PROVE pending'[k] # c /\ active'[k] # c
  BY <1>0, MapsMove DEF Dropped
<1>6. ~Purged(c)'
  <2>1. ASSUME NEW who \in Purgers, purge'[who].pc = "teardown", c \in purge'[who].todo PROVE FALSE
    <3>1. ~(purge[who].pc = "teardown" /\ c \in purge[who].todo)
      BY DEF Dropped, Purged
    <3>2. ~PurgeCollect(who)
      BY <1>0, <2>1 DEF PurgeCollect, TypeOK, Dropped
    <3>3. ~PurgeRinging(who)
      BY <1>0, <2>1 DEF PurgeRinging, TypeOK
    <3>4. ASSUME PurgeCall(who) PROVE FALSE
      <4>1. PICK e \in purge[who].todo : purge' = [purge EXCEPT ![who].todo = @ \ {e}, ![who].cur = e]
        BY <3>4 DEF PurgeCall
      <4>2. purge'[who].todo \subseteq purge[who].todo
        BY <1>0, <4>1 DEF TypeOK
      <4>. QED
        BY <2>1, <3>1, <3>4, <4>2 DEF PurgeCall
    <3>5. ~PurgeNext(who)
      BY <1>0, <2>1, <3>1 DEF PurgeNext, TypeOK, NoPurge
    <3>6. ~Poll /\ ~Shutdown
      BY <1>0, <2>1, <3>1 DEF Poll, Shutdown, StartPurge, TypeOK
    <3>7. ASSUME NEW w \in Purgers, w # who, PurgeRinging(w) \/ PurgeCollect(w) \/ PurgeCall(w) \/ PurgeNext(w)
          PROVE  purge'[who] = purge[who]
      <4>1. PurgeRinging(w) => \E r : purge' = [purge EXCEPT ![w] = r]
        BY DEF PurgeRinging
      <4>2. PurgeCollect(w) => \E r : purge' = [purge EXCEPT ![w] = r]
        BY DEF PurgeCollect
      <4>3. PurgeCall(w) => \E r : purge' = [purge EXCEPT ![w] = r]
        BY DEF PurgeCall
      <4>4. PurgeNext(w) => \E r : purge' = [purge EXCEPT ![w] = r]
        BY DEF PurgeNext
      <4>5. \E r : purge' = [purge EXCEPT ![w] = r]
        BY <3>7, <4>1, <4>2, <4>3, <4>4
      <4>. QED
        BY <1>0, <3>7, <4>5 DEF TypeOK
    <3>8. purge' # purge
      BY <2>1, <3>1
    <3>. QED
      BY <2>1, <3>1, <3>2, <3>3, <3>4, <3>5, <3>6, <3>7, <3>8, MapWriters
  <2>. QED
    BY <2>1 DEF Purged
<1>. QED
  BY <1>1, <1>2, <1>3, <1>4, <1>5, <1>6 DEF Dropped

\* Ports stay one call's each, along a step.
LEMMA PortsOKStep == Inv /\ SteadyOK /\ PortsOK /\ [Next]_vars => PortsOK'
<1>. SUFFICES ASSUME Inv, SteadyOK, PortsOK, [Next]_vars, Safe'
     PROVE  /\ \A c \in Channels : held'[c] => port'[c] \in used'
            /\ \A c, e \in Channels : held'[c] /\ held'[e] /\ port'[c] = port'[e] => c = e
            /\ \A c \in Channels : Started(c)' /\ ~held'[c] => td'[c] = "done" \/ Dropped(c)'
  BY DEF PortsOK
<1>0. Safe /\ TypeOK /\ CallOK
  BY SteadyBack DEF Inv
<1>1. /\ \A c \in Channels : held[c] => port[c] \in used
      /\ \A c, e \in Channels : held[c] /\ held[e] /\ port[c] = port[e] => c = e
      /\ \A c \in Channels : Started(c) /\ ~held[c] => td[c] = "done" \/ Dropped(c)
  BY <1>0 DEF PortsOK
<1>2. \A c \in Channels : held[c] => port'[c] = port[c]
  BY <1>0, ExtGrows DEF CallOK, CallAt
<1>3. ASSUME NEW c \in Channels, Started(c), ~held[c] PROVE td'[c] = "done" \/ Dropped(c)'
  BY <1>1, <1>3, TdGrows, DroppedStays
<1>4. CASE UNCHANGED <<used, held>>
  <2>1. ASSUME NEW c \in Channels, Started(c)', ~held'[c] PROVE Started(c)
    <3>1. CASE StartCall /\ c = loop.ch /\ loop' = Doing("ext", c)
      <4>1. held' = [held EXCEPT ![c] = TRUE]
        BY <3>1, StartCases DEF Idle, Doing
      <4>. QED
        BY <1>0, <2>1, <4>1 DEF TypeOK
    <3>. QED
      BY <2>1, <3>1, ExtGrows
  <2>. QED
    BY <1>1, <1>2, <1>3, <1>4, <2>1
<1>5. CASE /\ StartCall /\ loop.ch \in Channels /\ ~Started(loop.ch)
           /\ held' = [held EXCEPT ![loop.ch] = TRUE]
           /\ \E p \in Ports : /\ p \notin used /\ used' = used \cup {p}
                               /\ port' = [port EXCEPT ![loop.ch] = p]
  <2>1. PICK p \in Ports : /\ p \notin used /\ used' = used \cup {p}
                           /\ port' = [port EXCEPT ![loop.ch] = p]
    BY <1>5
  <2>2. port'[loop.ch] = p /\ held'[loop.ch]
    BY <1>0, <1>5, <2>1 DEF TypeOK
  <2>3. \A c \in Channels : c # loop.ch => port'[c] = port[c] /\ held'[c] = held[c]
    BY <1>0, <1>5, <2>1 DEF TypeOK
  <2>4. \A c \in Channels : c # loop.ch /\ Started(c)' => Started(c)
    BY ExtGrows
  <2>. QED
    BY <1>1, <1>3, <2>1, <2>2, <2>3, <2>4
<1>6. ASSUME NEW c \in Channels, Started(c), used' = used \ {port[c]}, held' = [held EXCEPT ![c] = FALSE],
             held[c], td'[c] = "done" \/ Dropped(c)'
      PROVE  /\ \A e \in Channels : held'[e] => port'[e] \in used'
             /\ \A b, e \in Channels : held'[b] /\ held'[e] /\ port'[b] = port'[e] => b = e
             /\ \A e \in Channels : Started(e)' /\ ~held'[e] => td'[e] = "done" \/ Dropped(e)'
  <2>1. \A e \in Channels : e # c => held'[e] = held[e]
    BY <1>0, <1>6 DEF TypeOK
  <2>2. ~held'[c]
    BY <1>0, <1>6 DEF TypeOK
  <2>3. \A e \in Channels : Started(e)' => Started(e) \/ held'[e]
    <3>1. ASSUME NEW e \in Channels, StartCall, e = loop.ch, loop' = Doing("ext", e) PROVE held'[e]
      <4>1. held' = [held EXCEPT ![e] = TRUE]
        BY <3>1, StartCases DEF Idle, Doing
      <4>. QED
        BY <1>0, <4>1 DEF TypeOK
    <3>. QED
      BY <3>1, ExtGrows
  <2>. QED
    BY <1>1, <1>2, <1>3, <1>6, <2>1, <2>2, <2>3
<1>7. ASSUME NEW c \in Channels, Started(c), CreateExt, c = loop.ch, loop' = Idle,
             pending' = WithoutLegs(pending, c), AudioSocket \/ faults' # 0
      PROVE  held[c] /\ Dropped(c)'
  <2>1. Steady' /\ Steady
    BY <1>7, SteadyBack DEF Safe
  <2>2. loop.pc = "ext" /\ td[c] = "none"
    BY <1>7, <2>1 DEF CreateExt, SteadyOK
  <2>3. held[c]
    BY <1>1, <1>7, <2>2 DEF Dropped
  <2>4. ~timer[c] /\ ~bridge[c]
    BY <1>0, <1>7, <2>1, <2>2 DEF CallOK, CallAt, Steady, Inv, LoopOK
  <2>5. \A k \in Channels : active[k] # c
    BY <2>4 DEF Inv, MapsOK
  <2>6. \A k \in Channels : pending'[k] # c
    BY <1>7, ManagerAssumption DEF Inv, MapsOK, WithoutLegs, Channels
  <2>7. ~Purged(c)
    BY <2>1, <2>2 DEF Purged, Inv, PurgeOK, Steady, Purgers, NoPurge
  <2>8. UNCHANGED <<td, timer, bridge, active, purge>>
    BY <1>7 DEF CreateExt
  <2>9. loop'.ch # c
    BY <1>7, ManagerAssumption DEF Idle, Doing, Channels
  <2>. QED
    BY <2>2, <2>3, <2>4, <2>5, <2>6, <2>7, <2>8, <2>9 DEF Dropped, Purged
<1>8. ASSUME NEW c \in Channels, Started(c), td[c] = "none", Bridging(c) \/ \E k \in Channels : pending[k] = c
      PROVE  held[c]
  BY <1>1, <1>8 DEF Dropped, Bridging
<1>9. ASSUME NEW c \in Channels, Started(c), td[c] = "ports" PROVE held[c]
  BY <1>1, <1>9 DEF Dropped
<1>. QED
  BY <1>4, <1>5, <1>6, <1>7, <1>8, <1>9, PortMoves

\* PortsExclusive: two calls that have not given their port back never have the
\* same one, as long as either no WebSocket drop and no duration limit lets
\* another goroutine tear a staged call down, or no externalMedia request fails:
\* CreateExt's failure gives the port back outside the once-guard.
THEOREM PortsNeverShared == Spec => [](Safe => PortsExclusive)
<1>1. Init => SteadyOK /\ PortsOK
  BY ManagerAssumption DEF Init, SteadyOK, PortsOK, Idle, Doing, Started, Channels
<1>2. SteadyOK /\ PortsOK => (Safe => PortsExclusive)
  BY DEF PortsOK, PortsExclusive
<1>. QED
  BY <1>1, <1>2, InvInit, InvStep, SteadyOKStep, PortsOKStep, PTL DEF Spec

\* The same for a configuration in which that is so all along.
COROLLARY PortsExclusiveWhenSafe ==
    ASSUME (Limited = {} /\ MaxDrops = 0) \/ (MaxFaults = 0 /\ ~AudioSocket)
    PROVE  Spec => []PortsExclusive
<1>1. TypeOK => Safe
  BY ManagerAssumption DEF TypeOK, Safe, Steady
<1>. QED
  BY <1>1, TypeCorrect, PortsNeverShared, PTL

-----------------------------------------------------------------------------
\* Ports in use, and the dialed calls.
LEMMA UsedHeldStep == Inv /\ UsedHeld /\ [Next]_vars => UsedHeld'
<1>. SUFFICES ASSUME Inv, UsedHeld, [Next]_vars, NEW p \in used'
     PROVE  \E c \in Channels : held'[c] /\ port'[c] = p
  BY DEF UsedHeld
<1>0. TypeOK /\ CallOK
  BY DEF Inv
<1>1. \A c \in Channels : held[c] => port'[c] = port[c]
  BY <1>0, ExtGrows DEF CallOK, CallAt
<1>2. CASE UNCHANGED <<used, held>>
  BY <1>1, <1>2 DEF UsedHeld
<1>3. ASSUME NEW c \in Channels, used' = used \ {port[c]}, held' = [held EXCEPT ![c] = FALSE]
      PROVE  \E e \in Channels : held'[e] /\ port'[e] = p
  <2>1. PICK e \in Channels : held[e] /\ port[e] = p
    BY <1>3 DEF UsedHeld
  <2>2. e # c
    BY <1>3, <2>1
  <2>. QED
    BY <1>0, <1>1, <1>3, <2>1, <2>2 DEF TypeOK
<1>4. CASE /\ StartCall /\ loop.ch \in Channels /\ ~Started(loop.ch)
           /\ held' = [held EXCEPT ![loop.ch] = TRUE]
           /\ \E q \in Ports : /\ q \notin used /\ used' = used \cup {q}
                               /\ port' = [port EXCEPT ![loop.ch] = q]
  <2>1. PICK q \in Ports : used' = used \cup {q} /\ port' = [port EXCEPT ![loop.ch] = q]
    BY <1>4
  <2>2. held'[loop.ch] /\ port'[loop.ch] = q
    BY <1>0, <1>4, <2>1 DEF TypeOK
  <2>3. \A e \in Channels : held[e] => held'[e]
    BY <1>0, <1>4 DEF TypeOK
  <2>. QED
    BY <1>1, <1>4, <2>1, <2>2, <2>3 DEF UsedHeld
<1>. QED
  BY <1>2, <1>3, <1>4, PortMoves

\* A dialed channel rings when Asterisk carries the request out.
LEMMA RingStarts ==
    ASSUME Inv, [Next]_vars, NEW ch \in Dialed, chan[ch] = "none", chan'[ch] # "none"
    PROVE  Originate(ch)
<1>0. TypeOK /\ ch \in Channels /\ ch \notin Inbound /\ ch \notin ExtIds
  BY ManagerAssumption DEF Inv, Channels
<1>1. \A k : EndChannel(chan, k)[ch] = "none"
  BY <1>0 DEF EndChannel, TypeOK
<1>2. ASSUME NEW e, NEW q, HangupBoth(e, q) PROVE FALSE
  BY <1>0, <1>1, <1>2 DEF HangupBoth, EndChannel, TypeOK
<1>3. ASSUME NEW e, NEW q, Abort(e, q) PROVE FALSE
  BY <1>2, <1>3 DEF Abort, AbortCleanup
<1>4. ~BridgeCall /\ ~OnStagedEnd
  BY <1>3, LoopCall DEF BridgeCall
<1>5. \A c \in Channels : ~TdLegs(c)
  BY <1>2 DEF TdLegs
<1>6. ~CreateExt
  <2>1. ASSUME CreateExt PROVE FALSE
    <3>1. extOf[loop.ch] # ch
      BY <1>0, <2>1, LoopCall, TwoLegs DEF CreateExt
    <3>2. \/ UNCHANGED chan \/ chan' = EndChannel(chan, loop.ch)
          \/ chan' = [chan EXCEPT ![extOf[loop.ch]] = "stasis"]
          \/ chan' = [EndChannel(chan, loop.ch) EXCEPT ![extOf[loop.ch]] = "stasis"]
      BY <2>1 DEF CreateExt, Hangup
    <3>. QED
      BY <1>0, <1>1, <3>1, <3>2 DEF TypeOK, EndChannel
  <2>. QED
    BY <2>1
<1>7. ~StartCall
  <2>1. StartCall => UNCHANGED chan \/ chan' = EndChannel(chan, loop.ch)
    BY StartCases DEF Hangup
  <2>. QED
    BY <1>1, <2>1
<1>8. ~OnOutboundAnswered
  BY <1>1 DEF OnOutboundAnswered
<1>9. \A k \in Channels : ~CallerArrives(k) /\ ~CalleeAnswers(k) /\ ~ChannelEnds(k)
  BY <1>0, <1>1 DEF CallerArrives, CalleeAnswers, ChannelEnds, Hangup, TypeOK
<1>10. \A who \in Purgers : ~PurgeRinging(who)
  BY <1>1 DEF PurgeRinging, Hangup
<1>11. \A k \in Dialed : ~WatchdogFires(k)
  BY <1>1 DEF WatchdogFires, Hangup
<1>12. ASSUME NEW k \in Dialed, Originate(k) PROVE k = ch
  BY <1>0, <1>12 DEF Originate, TypeOK
<1>13. \/ UNCHANGED chan
       \/ StartCall \/ CreateExt \/ BridgeCall \/ OnStagedEnd \/ OnOutboundAnswered
       \/ \E k \in Channels : CallerArrives(k) \/ CalleeAnswers(k) \/ ChannelEnds(k) \/ TdLegs(k)
       \/ \E who \in Purgers : PurgeRinging(who)
       \/ \E k \in Dialed : Originate(k) \/ WatchdogFires(k)
  <2>. USE DEF asteriskVars, managerVars, callVars, dialVars, boundVars
  <2>1. WebSocketDrops \/ WebSocketReturns \/ OnExternalStart \/ OnCallerStart \/ Activate
       \/ OnActiveEnd \/ LoopTeardown \/ OnOtherEnd \/ OnOutboundDestroyed \/ Poll
       \/ Shutdown => UNCHANGED chan
    BY DEF WebSocketDrops, WebSocketReturns, OnExternalStart, OnCallerStart, Activate, OnActiveEnd,
     LoopTeardown, OnOtherEnd, OnOutboundDestroyed, Poll, Shutdown
  <2>2. ASSUME NEW c \in Channels, TdMaps(c) \/ TdPorts(c) PROVE UNCHANGED chan
    BY <2>2 DEF TdMaps, TdPorts, FreesPort
  <2>3. ASSUME NEW c \in Channels, MediaAccept(c) \/ MediaBuild(c) \/ MediaAssign(c)
       \/ MediaSetState(c) \/ MediaEnds(c) \/ MediaDead(c) PROVE UNCHANGED chan
    BY <2>3 DEF MediaAccept, MediaBuild, MediaAssign, MediaSetState, MediaEnds, MediaDead
  <2>4. ASSUME NEW c \in Channels, TimerFires(c) PROVE UNCHANGED chan
    BY <2>4 DEF TimerFires
  <2>5. ASSUME NEW who \in Purgers, PurgeCollect(who) \/ PurgeCall(who) \/ PurgeNext(who) PROVE UNCHANGED chan
    BY <2>5 DEF PurgeCollect, PurgeCall, PurgeNext
  <2>6. ASSUME NEW k \in Dialed, DialStart(k) \/ DialOk(k) \/ DialErr(k) PROVE UNCHANGED chan
    BY <2>6 DEF DialStart, DialOk, DialErr
  <2>. QED
    BY <2>1, <2>2, <2>3, <2>4, <2>5, <2>6 DEF Next, LoopStep, TeardownStep, MediaStep, PurgeStep, vars
<1>. QED
  BY <1>4, <1>5, <1>6, <1>7, <1>8, <1>9, <1>10, <1>11, <1>12, <1>13

\* What keeps a dialed call as it should be.
LEMMA DialKept ==
    ASSUME Inv, [Next]_vars, NEW ch \in Dialed, DialAt(ch),
           dial'[ch] = dial[ch], answered'[ch] = answered[ch],
           watchdog'[ch] => watchdog[ch], done[ch] # "none" => done'[ch] # "none",
           ch \in outbound' => /\ ch \in outbound /\ watchdog'[ch] = watchdog[ch]
                               /\ withOut[ch] /\ held[ch] => held'[ch],
           ch \in outbound /\ ch \notin outbound' => done'[ch] # "none",
           StartCall /\ ch = loop.ch /\ ch \in outbound' => Started(ch)' /\ withOut'[ch] /\ held'[ch]
    PROVE  DialAt(ch)'
<1>0. ch \in Channels
  BY DEF Channels
<1>1. dial'[ch] = "none" => chan'[ch] = "none"
  BY RingStarts DEF DialAt, Originate
<1>2. dial'[ch] = "placed" => chan'[ch] # "none"
  BY <1>0, ChanStays DEF DialAt
<1>3. loop.pc = "start" /\ ~StartCall => loop' = loop
  BY MapWriters DEF OnExternalStart, OnCallerStart, OnOutboundAnswered, CreateExt, BridgeCall, Activate,
     OnActiveEnd, LoopTeardown, OnStagedEnd, Shutdown, Takes
<1>4. Started(ch) => Started(ch)' /\ withOut'[ch] = withOut[ch]
  BY <1>0, ExtGrows
<1>5. ch \in outbound' /\ answered'[ch]
      => (loop'.pc = "start" /\ loop'.ch = ch) \/ (Started(ch)' /\ withOut'[ch] /\ held'[ch])
  BY <1>3, <1>4 DEF DialAt
<1>. QED
  BY <1>1, <1>2, <1>5 DEF DialAt

\* Dialed calls stay accounted for, along a step.
LEMMA DialOKStep == Inv /\ DialOK /\ [Next]_vars => DialOK'
<1>. SUFFICES ASSUME Inv, DialOK, [Next]_vars, NEW ch \in Dialed PROVE DialAt(ch)'
  BY DEF DialOK
<1>0. TypeOK /\ DialAt(ch) /\ ch \in Channels /\ ch # None
  BY ManagerAssumption DEF Inv, DialOK, Channels
<1>1. ASSUME NEW e, TakeRinging(e), UNCHANGED <<dial, answered, held>>, ~StartCall PROVE DialAt(ch)'
  <2>1. ch = e => ch \notin outbound' /\ ~watchdog'[ch] /\ done'[ch] # "none"
    BY <1>0, <1>1 DEF TakeRinging, Finish, TypeOK
  <2>2. ch # e => (ch \in outbound' <=> ch \in outbound) /\ watchdog'[ch] = watchdog[ch] /\ done'[ch] = done[ch]
    BY <1>0, <1>1 DEF TakeRinging, Finish, TypeOK
  <2>. QED
    BY <1>0, <1>1, <2>1, <2>2, DialKept
<1>2. ASSUME NEW e, SetupFailed(e), UNCHANGED <<dial, answered, watchdog>>, ch # e => held'[ch] = held[ch],
             StartCall => e = loop.ch
      PROVE  DialAt(ch)'
  <2>1. ch = e => ch \notin outbound' /\ (ch \in outbound \/ done[ch] # "none" => done'[ch] # "none")
    BY <1>0, <1>2 DEF SetupFailed, Finish, TypeOK
  <2>2. ch # e => (ch \in outbound' <=> ch \in outbound) /\ done'[ch] = done[ch]
    BY <1>0, <1>2 DEF SetupFailed, Finish, TypeOK
  <2>. QED
    BY <1>0, <1>2, <2>1, <2>2, DialKept
<1>3. ASSUME NEW e, FinishOutbound(e), UNCHANGED <<dial, answered, watchdog>>, ch # e => held'[ch] = held[ch],
             ~StartCall
      PROVE  DialAt(ch)'
  <2>1. ch = e /\ withOut[ch] => ch \notin outbound' /\ done'[ch] # "none"
    BY <1>0, <1>3 DEF FinishOutbound, Finish, TypeOK
  <2>2. ch = e /\ ~withOut[ch] => outbound' = outbound /\ done' = done
    BY <1>3 DEF FinishOutbound
  <2>3. ch # e => (ch \in outbound' <=> ch \in outbound) /\ done'[ch] = done[ch]
    BY <1>0, <1>3 DEF FinishOutbound, Finish, TypeOK
  <2>. QED
    BY <1>0, <1>3, <2>1, <2>2, <2>3, DialKept
<1>4. ASSUME UNCHANGED <<outbound, done, dial, answered, watchdog>>, held[ch] => held'[ch], ~StartCall
      PROVE  DialAt(ch)'
  BY <1>0, <1>4, DialKept
<1>5. ASSUME NEW e, NEW q, Abort(e, q), UNCHANGED <<dial, answered, watchdog>>, ~StartCall PROVE DialAt(ch)'
  <2>1. CASE AbortCleanup(e, q)
    <3>1. ch # e => held'[ch] = held[ch]
      BY <1>0, <2>1 DEF AbortCleanup, TypeOK
    <3>. QED
      BY <1>3, <1>5, <2>1, <3>1 DEF AbortCleanup
  <2>2. CASE UNCHANGED <<outbound, done, held>>
    BY <1>4, <1>5, <2>2
  <2>. QED
    BY <1>5, <2>1, <2>2 DEF Abort
<1>6. CASE StartCall
  <2>1. UNCHANGED <<dial, answered, watchdog>>
    BY <1>6 DEF StartCall
  <2>2. CASE loop.ch \notin outbound /\ UNCHANGED <<outbound, done, held>>
    BY <1>0, <2>1, <2>2, DialKept
  <2>3. CASE SetupFailed(loop.ch) /\ UNCHANGED held
    BY <1>2, <2>1, <2>3
  <2>4. CASE loop' = Doing("ext", loop.ch)
    <3>1. /\ UNCHANGED <<outbound, done>> /\ loop.ch \in Channels
          /\ held' = [held EXCEPT ![loop.ch] = TRUE]
          /\ withOut' = [withOut EXCEPT ![loop.ch] = loop.ch \in outbound]
          /\ \E x \in ExtIds : extOf' = [extOf EXCEPT ![loop.ch] = x]
      BY <1>6, <2>4, StartCases DEF Idle, Doing
    <3>2. held[ch] => held'[ch]
      BY <1>0, <3>1 DEF TypeOK
    <3>3. ch = loop.ch /\ ch \in outbound => Started(ch)' /\ withOut'[ch] /\ held'[ch]
      <4>1. ch = loop.ch => extOf'[ch] \in ExtIds
        BY <1>0, <3>1 DEF TypeOK
      <4>2. ch = loop.ch => Started(ch)'
        BY <4>1, ManagerAssumption DEF Started, Channels
      <4>3. ch = loop.ch => held'[ch] /\ withOut'[ch] = (ch \in outbound)
        BY <1>0, <3>1 DEF TypeOK
      <4>. QED
        BY <4>2, <4>3
    <3>. QED
      BY <1>0, <2>1, <3>1, <3>2, <3>3, DialKept
  <2>. QED
    BY <1>6, <2>2, <2>3, <2>4, StartCases
<1>7. CASE CreateExt
  <2>1. UNCHANGED <<dial, answered, watchdog>> /\ loop.pc = "ext"
    BY <1>7 DEF CreateExt
  <2>2. ~StartCall
    BY <2>1 DEF StartCall
  <2>3. CASE UNCHANGED <<outbound, done, held>>
    BY <1>4, <2>1, <2>2, <2>3
  <2>4. CASE SetupFailed(loop.ch) /\ held' = [held EXCEPT ![loop.ch] = FALSE]
    <3>1. ch # loop.ch => held'[ch] = held[ch]
      BY <1>0, <2>4 DEF TypeOK
    <3>. QED
      BY <1>2, <2>1, <2>2, <2>4, <3>1
  <2>. QED
    BY <1>7, <2>3, <2>4 DEF CreateExt
<1>8. CASE BridgeCall
  <2>1. UNCHANGED <<dial, answered, watchdog>> /\ ~StartCall
    BY <1>8 DEF BridgeCall, StartCall
  <2>2. UNCHANGED <<outbound, done, held>> \/ Abort(loop.ch, queue)
    BY <1>8 DEF BridgeCall
  <2>. QED
    BY <1>4, <1>5, <2>1, <2>2
<1>9. CASE OnStagedEnd
  <2>1. UNCHANGED <<dial, answered, watchdog>> /\ ~StartCall
    BY <1>9 DEF OnStagedEnd, StartCall, Takes
  <2>. QED
    BY <1>5, <1>9, <2>1, LoopCall
<1>10. CASE OnOutboundDestroyed
  <2>1. UNCHANGED <<dial, answered, held>> /\ ~StartCall
    BY <1>10 DEF OnOutboundDestroyed, StartCall, Takes, callVars
  <2>2. TakeRinging(Head(queue).ch) \/ UNCHANGED <<outbound, watchdog, done>>
    BY <1>10 DEF OnOutboundDestroyed
  <2>. QED
    BY <1>1, <1>4, <2>1, <2>2
<1>11. ASSUME NEW c \in Channels, TdPorts(c) PROVE DialAt(ch)'
  <2>1. UNCHANGED <<dial, answered, watchdog, loop>> /\ FinishOutbound(c)
    BY <1>11 DEF TdPorts, FreesPort
  <2>2. ~StartCall
    BY <2>1, StartCases DEF Idle, Doing
  <2>3. ch # c => held'[ch] = held[ch]
    BY <1>0, <1>11 DEF TdPorts, FreesPort, TypeOK
  <2>. QED
    BY <1>3, <2>1, <2>2, <2>3
<1>12. ASSUME NEW who \in Purgers, PurgeRinging(who) PROVE DialAt(ch)'
  <2>1. UNCHANGED <<dial, answered, held, loop>>
    BY <1>12 DEF PurgeRinging, callVars
  <2>2. ~StartCall
    BY <2>1, StartCases DEF Idle, Doing
  <2>3. UNCHANGED <<outbound, watchdog, done>> \/ \E e : TakeRinging(e)
    BY <1>12 DEF PurgeRinging
  <2>. QED
    BY <1>1, <1>4, <2>1, <2>2, <2>3
<1>13. ASSUME NEW e \in Dialed, WatchdogFires(e) PROVE DialAt(ch)'
  <2>1. UNCHANGED <<dial, answered, held, loop>> /\ TakeRinging(e)
    BY <1>13 DEF WatchdogFires, callVars
  <2>2. ~StartCall
    BY <2>1, StartCases DEF Idle, Doing
  <2>. QED
    BY <1>1, <2>1, <2>2
<1>14. ASSUME NEW e \in Dialed, DialStart(e) \/ DialOk(e) \/ DialErr(e) PROVE DialAt(ch)'
  <2>1. UNCHANGED <<held, loop, chan, answered, done, extOf, withOut>>
    BY <1>14 DEF DialStart, DialOk, DialErr, callVars, asteriskVars, managerVars
  <2>2. ~StartCall
    BY <2>1, StartCases DEF Idle, Doing
  <2>3. CASE ch # e
    <3>1. dial'[ch] = dial[ch] /\ watchdog'[ch] = watchdog[ch] /\ (ch \in outbound' <=> ch \in outbound)
      BY <1>0, <1>14, <2>3 DEF DialStart, DialOk, DialErr, managerVars, TypeOK
    <3>. QED
      BY <1>0, <2>1, <2>2, <3>1, DialKept
  <2>4. CASE DialStart(ch)
    BY <1>0, <2>1, <2>4 DEF DialStart, DialAt, Started, TypeOK
  <2>5. CASE DialOk(ch)
    <3>1. /\ dial'[ch] = "placed" /\ dial[ch] = "originating" /\ chan[ch] # "none"
          /\ watchdog'[ch] = (ch \in outbound /\ ~answered[ch]) /\ outbound' = outbound
      BY <1>0, <2>5 DEF DialOk, Ringing, managerVars, TypeOK
    <3>. QED
      BY <1>0, <2>1, <3>1 DEF DialAt, Started
  <2>6. CASE DialErr(ch)
    BY <1>0, <2>1, <2>6 DEF DialErr, DialAt, Started, TypeOK
  <2>. QED
    BY <1>14, <2>3, <2>4, <2>5, <2>6
<1>15. CASE OnOutboundAnswered
  <2>1. UNCHANGED <<dial, outbound, done, held, extOf, withOut>> /\ Takes("start")
    BY <1>15 DEF OnOutboundAnswered, callVars
  <2>2. ~StartCall
    BY <2>1 DEF StartCall, Takes
  <2>3. CASE UNCHANGED <<answered, watchdog, loop>>
    BY <1>4, <2>1, <2>2, <2>3
  <2>4. CASE /\ answered' = [answered EXCEPT ![Head(queue).ch] = TRUE]
             /\ watchdog' = [watchdog EXCEPT ![Head(queue).ch] = FALSE]
             /\ LoopTo("start", Head(queue).ch)
             /\ chan' = chan /\ Head(queue).ch \in outbound
    <3>1. CASE ch = Head(queue).ch
      <4>1. answered'[ch] /\ ~watchdog'[ch] /\ loop'.pc = "start" /\ loop'.ch = ch
        BY <1>0, <2>4, <3>1 DEF TypeOK, LoopTo, Doing
      <4>. QED
        BY <1>0, <2>1, <2>4, <3>1, <4>1 DEF DialAt
    <3>2. CASE ch # Head(queue).ch
      <4>1. answered'[ch] = answered[ch] /\ watchdog'[ch] = watchdog[ch]
        BY <1>0, <2>4, <3>2 DEF TypeOK
      <4>. QED
        BY <1>0, <2>1, <2>2, <4>1, DialKept
    <3>. QED
      BY <3>1, <3>2
  <2>. QED
    BY <1>15, <2>3, <2>4 DEF OnOutboundAnswered
<1>16. CASE UNCHANGED <<outbound, done, answered, watchdog, dial, held>> /\ ~StartCall
  BY <1>4, <1>16
<1>. QED
  BY <1>6, <1>7, <1>8, <1>9, <1>10, <1>11, <1>12, <1>13, <1>14, <1>15, <1>16, DialWriters, CallWriters

-----------------------------------------------------------------------------
\* The manager, undisturbed.

\* No purge, no timer, and the event WebSocket is up.
LEMMA Calm ==
    ASSUME Inv, [Next]_vars, Undisturbed'
    PROVE  /\ Undisturbed /\ Steady /\ Steady' /\ connected
           /\ \A who \in Purgers : purge[who] = NoPurge
           /\ \A who \in Purgers : ~PurgeRinging(who) /\ ~PurgeCollect(who) /\ ~PurgeCall(who)
           /\ \A c \in Channels : ~timer[c] /\ ~TimerFires(c) /\ ~Purged(c)
<1>1. Steady' /\ Steady
  BY SteadyBack DEF Undisturbed, Steady, Started
<1>2. loop.pc # "stopped"
  <2>1. loop'.pc # "stopped"
    BY DEF Undisturbed
  <2>2. loop.pc = "stopped" => loop' = loop
    BY MapWriters DEF OnExternalStart, OnCallerStart, OnOutboundAnswered, StartCall, CreateExt, BridgeCall, Activate,
         OnActiveEnd, LoopTeardown, OnStagedEnd, Shutdown, Takes
  <2>. QED
    BY <2>1, <2>2
<1>3. Undisturbed
  BY <1>1, <1>2 DEF Undisturbed, Steady, Started
<1>4. connected /\ \A who \in Purgers : purge[who] = NoPurge
  BY <1>1, <1>2 DEF Inv, PurgeOK, Steady, Purgers
<1>5. ASSUME NEW who \in Purgers PROVE ~PurgeRinging(who) /\ ~PurgeCollect(who) /\ ~PurgeCall(who)
  <2>1. purge[who].pc = "off"
    BY <1>4 DEF NoPurge
  <2>. QED
    BY <2>1 DEF PurgeRinging, PurgeCollect, PurgeCall
<1>6. \A c \in Channels : ~timer[c] /\ ~TimerFires(c) /\ ~Purged(c)
  BY <1>1, <1>4, ActorsStarted DEF Inv, CallOK, CallAt, Steady, TimerFires, Purged, NoPurge
<1>. QED
  BY <1>1, <1>3, <1>4, <1>5, <1>6

\* How a cleanup that has begun goes on.
LEMMA TdMoves ==
    ASSUME Inv, [Next]_vars, NEW c \in Channels, td[c] # "none", td'[c] # td[c]
    PROVE  \/ TdMaps(c) /\ td'[c] = "legs"
           \/ TdLegs(c) /\ td'[c] = "ports"
           \/ TdPorts(c) /\ td'[c] = "done"
<1>0. TypeOK
  BY DEF Inv
<1>1. ASSUME NEW e, StartTeardown(e) PROVE FALSE
  BY <1>0, <1>1 DEF StartTeardown, TypeOK
<1>2. ASSUME NEW e, NEW q, Abort(e, q) PROVE FALSE
  BY <1>0, <1>2 DEF Abort, AbortCleanup, TypeOK
<1>3. ~BridgeCall /\ ~OnStagedEnd /\ ~OnActiveEnd
  BY <1>1, <1>2, LoopCall DEF BridgeCall
<1>4. \A e \in Channels : ~MediaAccept(e) /\ ~MediaDead(e) /\ ~TimerFires(e)
  BY <1>1 DEF MediaAccept, MediaDead, TimerFires
<1>5. \A who \in Purgers : ~PurgeCall(who)
  BY <1>1 DEF PurgeCall
<1>6. ASSUME NEW e \in Channels, TdMaps(e) PROVE e = c /\ td'[c] = "legs"
  BY <1>0, <1>6 DEF TdMaps, TypeOK
<1>7. ASSUME NEW e \in Channels, TdLegs(e) PROVE e = c /\ td'[c] = "ports"
  BY <1>0, <1>7 DEF TdLegs, TypeOK
<1>8. ASSUME NEW e \in Channels, TdPorts(e) PROVE e = c /\ td'[c] = "done"
  BY <1>0, <1>8 DEF TdPorts, FreesPort, TypeOK
<1>. QED
  BY <1>3, <1>4, <1>5, <1>6, <1>7, <1>8, CallWriters

\* A cleanup that begins is a bridged call's, or over at once.
LEMMA CalmTdStarts ==
    ASSUME Inv, [Next]_vars, Undisturbed', NEW c \in Channels, td[c] = "none", td'[c] # "none"
    PROVE  \/ bridge[c] /\ td'[c] = "maps"
           \/ ~bridge[c] /\ td'[c] = "done"
<1>1. ASSUME OnActiveEnd \/ OnStagedEnd PROVE Head(queue).ch \in Channels
  BY <1>1, HeadOf DEF OnActiveEnd, OnStagedEnd
<1>2. OnActiveEnd /\ c = active[Head(queue).ch] => bridge[c]
  BY <1>1 DEF Inv, MapsOK
<1>3. MediaAccept(c) \/ MediaDead(c) => bridge[c]
  BY DEF Inv, CallOK, CallAt, MediaAccept, MediaDead
<1>4. BridgeCall /\ c = loop.ch => ~bridge[c]
  BY DEF Inv, LoopOK, BridgeCall
<1>5. OnStagedEnd /\ c = pending[Head(queue).ch] => ~bridge[c]
  BY <1>1 DEF Inv, MapsOK
<1>6. ~TimerFires(c) /\ \A who \in Purgers : ~PurgeCall(who)
  BY Calm
<1>7. \/ BridgeCall /\ c = loop.ch /\ td'[c] = "done"
      \/ OnStagedEnd /\ c = pending[Head(queue).ch] /\ td'[c] = "done"
      \/ /\ td'[c] = "maps"
         /\ (OnActiveEnd /\ c = active[Head(queue).ch]) \/ MediaAccept(c) \/ MediaDead(c)
  BY <1>6, TdStarts
<1>. QED
  BY <1>2, <1>3, <1>4, <1>5, <1>7

\* Bridges stay with their calls, along a step.
LEMMA BridgesOKStep ==
    ASSUME Inv, SteadyOK, BridgesOK, [Next]_vars, Undisturbed'
    PROVE  BridgesOK'
<1>0. TypeOK
  BY DEF Inv
<1>1. ASSUME NEW c \in Channels, td'[c] \notin {"none", "done"} PROVE bridge'[c]
  <2>1. CASE td[c] = "none"
    BY <1>1, <2>1, CalmTdStarts, BridgeGrows
  <2>2. CASE td[c] # "none"
    BY <1>1, <2>2, TdGrows, BridgeGrows DEF BridgesOK
  <2>. QED
    BY <2>1, <2>2
<1>2. ASSUME NEW c \in bridgeUp'
      PROVE  \/ loop'.pc = "activate" /\ loop'.ch = c
             \/ bridge'[c] /\ td'[c] \notin {"ports", "done"}
  <2>1. CASE c \notin bridgeUp
    <3>1. BridgeCall
      BY <1>2, <2>1, MapWriters DEF TdLegs
    <3>2. c = loop.ch /\ loop' = Doing("activate", loop.ch)
      BY <1>2, <2>1, <3>1 DEF BridgeCall, LoopTo
    <3>. QED
      BY <3>2 DEF Doing
  <2>2. CASE c \in bridgeUp /\ loop.pc = "activate" /\ loop.ch = c
    <3>1. c \in Channels /\ td[c] = "none"
      BY <2>2, Calm, LoopChannel DEF SteadyOK
    <3>2. CASE Activate
      BY <1>0, <2>2, <3>1, <3>2 DEF Activate, TypeOK
    <3>3. CASE loop' = loop
      BY <2>2, <3>3
    <3>. QED
      BY <2>2, <3>2, <3>3, MapWriters
         DEF OnExternalStart, OnCallerStart, OnOutboundAnswered, StartCall, CreateExt, BridgeCall, OnActiveEnd,
             LoopTeardown, OnStagedEnd, Shutdown, Takes
  <2>3. CASE c \in bridgeUp /\ bridge[c] /\ td[c] \notin {"ports", "done"}
    <3>1. c \in Channels /\ bridge'[c]
      BY <1>0, <2>3, BridgeGrows DEF TypeOK
    <3>2. ~TdLegs(c)
      BY <1>2, <2>3 DEF TdLegs
    <3>3. ~TdPorts(c)
      BY <2>3 DEF TdPorts, FreesPort
    <3>4. td'[c] \notin {"ports", "done"}
      BY <2>3, <3>1, <3>2, <3>3, TdMoves, CalmTdStarts
    <3>. QED
      BY <3>1, <3>4
  <2>. QED
    BY <2>1, <2>2, <2>3 DEF BridgesOK
<1>. QED
  BY <1>1, <1>2 DEF BridgesOK

\* Nobody's legs are in the maps under another call while one of them is taken
\* out: an externalMedia leg that was taken for a caller is in no map any more.
LEMMA CalmOut ==
    ASSUME Inv, BridgesOK, AllFound, [Next]_vars, NEW c \in Channels, NEW e \in Channels,
           Started(c), PendingOut(e) \/ ActiveOut(e), extOf[e] = c
    PROVE  FALSE
<1>0. c # None /\ TypeOK /\ MapsOK /\ TakenAsCaller(c)
  BY ManagerAssumption DEF Inv, Channels, TakenAsCaller
<1>1. Started(e)
  BY <1>0 DEF Started
<1>2. pending[c] # e
  BY <1>0, <1>1 DEF MapsOK
<1>3. ~bridge[e]
  BY <1>0 DEF MapsOK
<1>4. ASSUME OnExternalStart, e = pending[Head(queue).ch] PROVE FALSE
  BY <1>2, <1>4, LoopCall
<1>5. ASSUME OnStagedEnd, e = pending[Head(queue).ch] PROVE FALSE
  <2>1. Head(queue).ch \in Channels
    BY <1>5, HeadOf DEF OnStagedEnd
  <2>2. PendingBoth(e)
    BY <1>5, <2>1 DEF AllFound, FoundAt
  <2>. QED
    BY <1>2, <2>2 DEF PendingBoth
<1>6. ASSUME CreateExt, e = loop.ch PROVE FALSE
  <2>1. chan[c] # "none" /\ c \in ExtIds /\ loop.pc = "ext"
    BY <1>1, <1>6, TwoLegs DEF Inv, CallOK, CallAt, CreateExt
  <2>2. PICK b \in Channels : extOf[b] = c /\ b # e
    BY <1>6, <2>1 DEF Inv, ExtOnce
  <2>. QED
    BY <1>1, <2>2 DEF Inv, ExtOnce
<1>7. ASSUME TdMaps(e) PROVE FALSE
  BY <1>3, <1>7 DEF TdMaps, BridgesOK
<1>8. ASSUME OnActiveEnd, e = active[Head(queue).ch] PROVE FALSE
  <2>1. Head(queue).ch \in Channels
    BY <1>8, HeadOf DEF OnActiveEnd
  <2>. QED
    BY <1>0, <1>3, <1>8, <2>1 DEF MapsOK
<1>. QED
  BY <1>4, <1>5, <1>6, <1>7, <1>8 DEF PendingOut, ActiveOut

\* Every call stays found, along a step.
LEMMA AllFoundStep ==
    ASSUME Inv, BridgesOK, AllFound, [Next]_vars
    PROVE  AllFound'
<1>. SUFFICES ASSUME NEW c \in Channels PROVE FoundAt(c)'
  BY DEF AllFound
<1>1. CASE Started(c)
  BY <1>1, CalmOut, FoundStep DEF AllFound
<1>2. CASE ~Started(c)'
  <2>1. \A k \in Channels : pending'[k] # c /\ active'[k] # c
    BY <1>2, MapsOKStep DEF MapsOK
  <2>2. ~held'[c]
    BY <1>2, CallOKStep DEF CallOK, CallAt
  <2>. QED
    BY <2>1, <2>2 DEF FoundAt
<1>3. CASE ~Started(c) /\ Started(c)'
  <2>1. StartCall /\ loop.pc = "start" /\ loop'.pc = "ext"
    BY <1>3, ExtGrows, StartCases DEF Doing
  <2>2. \A e \in Channels : ~PendingOut(e) /\ ~ActiveOut(e)
    BY <2>1 DEF PendingOut, ActiveOut, OnExternalStart, OnStagedEnd, OnActiveEnd, CreateExt, TdMaps, Takes
  <2>. QED
    BY <2>2, FoundStep DEF AllFound
<1>. QED
  BY <1>1, <1>2, <1>3

\* CallsActive counts the bridged calls, along a step.
LEMMA GaugeOKStep ==
    ASSUME Inv, SteadyOK, BridgesOK, GaugeOK, [Next]_vars, Undisturbed'
    PROVE  GaugeOK'
<1>0. TypeOK
  BY DEF Inv
<1>1. ASSUME Activate PROVE GaugeOK'
  <2>1. loop.ch \in Channels /\ td[loop.ch] = "none" /\ ~bridge[loop.ch]
    BY <1>1, Calm, LoopChannel DEF Activate, SteadyOK, Inv, LoopOK
  <2>2. bridge' = [bridge EXCEPT ![loop.ch] = TRUE] /\ td' = td /\ gauge' = gauge + 1
    BY <1>1 DEF Activate
  <2>3. Live' = Live \cup {loop.ch} /\ loop.ch \notin Live
    BY <1>0, <2>1, <2>2 DEF Live, TypeOK
  <2>4. IsFiniteSet(Live') /\ Cardinality(Live') = Cardinality(Live) + 1
    BY <2>3, FS_AddElement DEF GaugeOK
  <2>. QED
    BY <2>2, <2>4 DEF GaugeOK
<1>2. ASSUME NEW c \in Channels, TdPorts(c) PROVE GaugeOK'
  <2>1. td[c] = "ports" /\ td' = [td EXCEPT ![c] = "done"] /\ bridge' = bridge /\ gauge' = gauge - 1
    BY <1>2 DEF TdPorts, FreesPort
  <2>2. bridge[c]
    BY <2>1 DEF BridgesOK
  <2>3. Live' = Live \ {c} /\ c \in Live
    BY <1>0, <2>1, <2>2 DEF Live, TypeOK
  <2>4. IsFiniteSet(Live') /\ Cardinality(Live') = Cardinality(Live) - 1
    BY <2>3, FS_RemoveElement DEF GaugeOK
  <2>. QED
    BY <2>1, <2>4 DEF GaugeOK
<1>3. ASSUME ~Activate, \A c \in Channels : ~TdPorts(c) PROVE GaugeOK'
  <2>1. gauge' = gauge
    BY <1>3, MapWriters
  <2>2. ASSUME NEW c \in Channels PROVE c \in Live' <=> c \in Live
    <3>1. bridge'[c] = bridge[c]
      BY <1>3, CallWriters
    <3>2. bridge[c] /\ td[c] = "none" => td'[c] # "done"
      BY CalmTdStarts
    <3>3. td[c] # "none" => td'[c] = td[c] \/ td'[c] # "done"
      BY <1>3, TdMoves
    <3>4. td[c] = "done" => td'[c] = "done"
      BY TdGrows
    <3>. QED
      BY <3>1, <3>2, <3>3, <3>4 DEF Live
  <2>3. Live' = Live
    BY <2>2 DEF Live
  <2>. QED
    BY <2>1, <2>3 DEF GaugeOK
<1>. QED
  BY <1>1, <1>2, <1>3

\* The events.

\* An active call's legs are in no other map.
LEMMA OneMap ==
    ASSUME Inv, NEW k \in Channels, active[k] # None
    PROVE  pending[k] = None
<1>. SUFFICES ASSUME pending[k] # None PROVE FALSE
  OBVIOUS
<1>0. MapsOK /\ ExtOnce /\ TypeOK
  BY DEF Inv
<1>1. PICK c \in Channels : active[k] = c
  BY <1>0 DEF TypeOK
<1>2. PICK e \in Channels : pending[k] = e
  BY <1>0 DEF TypeOK
<1>3. Started(c) /\ k \in {c, extOf[c]} /\ bridge[c] /\ ~TakenAsCaller(extOf[c])
  BY <1>0, <1>1 DEF MapsOK
<1>4. Started(e) /\ k \in {e, extOf[e]} /\ ~bridge[e]
  BY <1>0, <1>2 DEF MapsOK
<1>5. k = extOf[e] => ~TakenAsCaller(k)
  BY <1>0, <1>2, <1>4 DEF MapsOK
<1>. QED
  BY <1>0, <1>3, <1>4, <1>5 DEF TakenAsCaller, ExtOnce

\* A channel somebody acts on no longer rings.
LEMMA AwaitedUp ==
    ASSUME Inv, NEW k \in Channels, Awaited(k)
    PROVE  chan[k] # "ringing"
<1>0. MapsOK /\ ExtOnce /\ TypeOK /\ CallOK /\ LoopOK /\ StartsOnce
  BY DEF Inv
<1>1. ASSUME NEW c \in Channels, Started(c), k \in {c, extOf[c]} PROVE chan[k] # "ringing"
  <2>1. CASE k = c
    BY <1>0, <1>1, <2>1 DEF CallOK, CallAt
  <2>2. CASE k = extOf[c]
    BY <1>0, <1>1, <2>2, TwoLegs, ManagerAssumption DEF ExtOnce
  <2>. QED
    BY <1>1, <2>1, <2>2
<1>2. pending[k] # None => chan[k] # "ringing"
  <2>1. pending[k] # None => pending[k] \in Channels
    BY <1>0 DEF TypeOK
  <2>. QED
    BY <1>0, <1>1, <2>1 DEF MapsOK
<1>3. active[k] # None => chan[k] # "ringing"
  <2>1. active[k] # None => active[k] \in Channels
    BY <1>0 DEF TypeOK
  <2>. QED
    BY <1>0, <1>1, <2>1 DEF MapsOK
<1>4. Has(queue, "start", k) => chan[k] # "ringing"
  BY <1>0 DEF StartsOnce
<1>5. loop.ch = k /\ loop.pc \in {"start", "ext", "bridge", "activate"} => chan[k] # "ringing"
  BY <1>0, <1>1 DEF LoopOK
<1>6. ASSUME NEW c \in Channels, Bridging(c), extOf[c] = k PROVE chan[k] # "ringing"
  BY <1>1, <1>6, LoopCall DEF Bridging
<1>. QED
  BY <1>2, <1>3, <1>4, <1>5, <1>6 DEF Awaited

\* Nobody begins to act on a channel that is gone.
LEMMA AwaitedBack ==
    ASSUME Inv, AllFound, [Next]_vars, NEW k \in Channels, Awaited(k)', chan'[k] = "gone"
    PROVE  Awaited(k)
<1>0. MapsOK /\ TypeOK
  BY DEF Inv
<1>1. CASE Has(queue', "start", k)
  BY <1>1, StepMoves DEF Moves, Awaited
<1>2. CASE pending'[k] # None
  <2>1. CASE pending[k] # None
    BY <2>1 DEF Awaited
  <2>2. CASE pending[k] = None
    <3>1. StartCall /\ UNCHANGED chan /\ (k = loop.ch \/ chan[k] = "none")
      BY <1>2, <2>2, MapsMove
    <3>. QED
      BY <3>1 DEF Awaited, StartCall
  <2>. QED
    BY <2>1, <2>2
<1>3. CASE active'[k] # None
  <2>1. CASE active[k] # None
    BY <2>1 DEF Awaited
  <2>2. CASE active[k] = None
    <3>1. Activate /\ k \in {loop.ch, extOf[loop.ch]}
      BY <1>3, <2>2, MapsMove
    <3>2. loop.ch \in Channels /\ Bridging(loop.ch) /\ loop.pc = "activate"
      BY <3>1, LoopCall DEF Activate, Bridging
    <3>. QED
      BY <3>1, <3>2 DEF Awaited
  <2>. QED
    BY <2>1, <2>2
<1>4. CASE loop'.ch = k /\ loop'.pc \in {"start", "ext", "bridge", "activate"}
  <2>1. CASE loop' = loop
    BY <1>4, <2>1 DEF Awaited
  <2>2. CASE loop' = Doing("start", Head(queue).ch) /\ (OnCallerStart \/ OnOutboundAnswered)
    <3>1. Has(queue, "start", Head(queue).ch)
      BY <2>2, HeadOf DEF OnCallerStart, OnOutboundAnswered
    <3>. QED
      BY <1>4, <2>2, <3>1 DEF Awaited, Doing
  <2>3. CASE loop' = Doing("ext", loop.ch) /\ StartCall
    BY <1>4, <2>3 DEF Awaited, Doing, StartCall
  <2>4. CASE loop' = Doing("bridge", pending[Head(queue).ch]) /\ OnExternalStart
    <3>1. Head(queue).ch \in Channels /\ pending[Head(queue).ch] = k
      BY <1>4, <2>4, HeadOf DEF OnExternalStart, Doing
    <3>2. PendingBoth(k)
      BY <3>1 DEF AllFound, FoundAt
    <3>. QED
      BY <3>2, ManagerAssumption DEF PendingBoth, Awaited, Channels
  <2>5. CASE loop' = Doing("activate", loop.ch) /\ BridgeCall
    BY <1>4, <2>5 DEF Awaited, Doing, BridgeCall
  <2>. QED
    BY <1>4, <2>1, <2>2, <2>3, <2>4, <2>5, LoopMoves DEF Idle, Doing
<1>5. ASSUME NEW c \in Channels, Bridging(c)', extOf'[c] = k PROVE Awaited(k)
  <2>1. CASE Bridging(c)
    <3>1. extOf[c] = k
      BY <1>5, <2>1, LoopCall, ExtGrows DEF Bridging
    <3>. QED
      BY <2>1, <3>1 DEF Awaited
  <2>2. CASE OnExternalStart /\ c = pending[Head(queue).ch]
    <3>1. Started(c) /\ Head(queue).ch = extOf[c]
      BY <2>2, LoopCall
    <3>2. extOf[c] = k
      BY <1>5, <3>1, ExtGrows
    <3>. QED
      BY <2>2, <3>1, <3>2, ManagerAssumption DEF Awaited, Channels
  <2>. QED
    BY <1>5, <2>1, <2>2, LoopMoves DEF Bridging, Idle, Doing, BridgeCall
<1>6. \/ Has(queue', "start", k) \/ pending'[k] # None \/ active'[k] # None
      \/ loop'.ch = k /\ loop'.pc \in {"start", "ext", "bridge", "activate"}
      \/ \E c \in Channels : Bridging(c)' /\ extOf'[c] = k
  BY DEF Awaited, Has, Bridging
<1>. QED
  BY <1>1, <1>2, <1>3, <1>4, <1>5, <1>6

\* A StasisEnd leaves the queue when the loop handles it.
LEMMA EndTaken ==
    ASSUME Inv, [Next]_vars, NEW k \in Channels, Has(queue, "end", k), ~Has(queue', "end", k)
    PROVE  Takes("end") /\ Head(queue).ch = k /\ (OnActiveEnd \/ OnStagedEnd \/ OnOtherEnd)
<1>0. queue \in Seq(Events) /\ connected \in BOOLEAN
  BY DEF Inv, TypeOK
<1>1. Takes("end") /\ Head(queue).ch = k
  BY StepMoves DEF Moves
<1>2. ~Takes("start") /\ ~Takes("destroyed") /\ loop.pc = "idle"
  BY <1>1 DEF Takes
<1>3. \A ch \in Channels : EndEvents(ch) \in Seq(Events)
  BY Ending
<1>4. ASSUME NEW events \in Seq(Events) PROVE queue' # Deliver(queue, events)
  BY <1>0, <1>4, Delivered
<1>5. ASSUME NEW ch \in Channels, CallerArrives(ch) \/ CalleeAnswers(ch) \/ ChannelEnds(ch) PROVE FALSE
  BY <1>3, <1>4, <1>5, OneStart DEF CallerArrives, CalleeAnswers, ChannelEnds, Hangup
<1>6. ASSUME NEW c \in Channels, TdLegs(c) PROVE FALSE
  <2>1. extOf[c] \in Channels
    BY <1>6, ActorsStarted, TwoLegs DEF TdLegs
  <2>2. EndEvents(c) \o EndEvents(extOf[c]) \in Seq(Events)
    BY <1>3, <2>1, Joined
  <2>. QED
    BY <1>4, <1>6, <2>2 DEF TdLegs, HangupBoth
<1>7. ASSUME NEW who \in Purgers, PurgeRinging(who) PROVE FALSE
  <2>1. UNCHANGED queue \/ \E ch \in purge[who].todo : queue' = Deliver(queue, EndEvents(ch))
    BY <1>7 DEF PurgeRinging, Hangup
  <2>2. purge[who].todo \subseteq Channels
    BY DEF Inv, TypeOK
  <2>. QED
    BY <1>3, <1>4, <2>1, <2>2
<1>8. ASSUME NEW ch \in Dialed, WatchdogFires(ch) PROVE FALSE
  BY <1>3, <1>4, <1>8 DEF WatchdogFires, Hangup, Channels
<1>9. queue' # queue
  OBVIOUS
<1>. USE DEF asteriskVars, managerVars, callVars, dialVars, boundVars

<1>10. ~OnExternalStart /\ ~OnCallerStart /\ ~OnOutboundAnswered /\ ~OnOutboundDestroyed /\ ~StartCall /\ ~CreateExt /\ ~BridgeCall
  BY <1>2 DEF OnExternalStart, OnCallerStart, OnOutboundAnswered, OnOutboundDestroyed, StartCall, CreateExt, BridgeCall
<1>11. ~WebSocketDrops /\ ~WebSocketReturns /\ ~Activate /\ ~LoopTeardown /\ ~Poll /\ ~Shutdown
  BY <1>9 DEF WebSocketDrops, WebSocketReturns, Activate, LoopTeardown, Poll, Shutdown
<1>12. ASSUME NEW e \in Channels, TdMaps(e) \/ TdPorts(e) PROVE FALSE
  BY <1>9, <1>12 DEF TdMaps, TdPorts, FreesPort
<1>13. ASSUME NEW e \in Channels, MediaAccept(e) \/ MediaBuild(e) \/ MediaAssign(e)
       \/ MediaSetState(e) \/ MediaEnds(e) \/ MediaDead(e) PROVE FALSE
  BY <1>9, <1>13 DEF MediaAccept, MediaBuild, MediaAssign, MediaSetState, MediaEnds, MediaDead
<1>14. ASSUME NEW e \in Channels, TimerFires(e) PROVE FALSE
  BY <1>9, <1>14 DEF TimerFires
<1>15. ASSUME NEW e \in Purgers, PurgeCollect(e) \/ PurgeCall(e) \/ PurgeNext(e) PROVE FALSE
  BY <1>9, <1>15 DEF PurgeCollect, PurgeCall, PurgeNext
<1>16. ASSUME NEW e \in Dialed, DialStart(e) \/ Originate(e) \/ DialOk(e) \/ DialErr(e) PROVE FALSE
  BY <1>9, <1>16 DEF DialStart, Originate, DialOk, DialErr
<1>. QED
  BY <1>1, <1>5, <1>6, <1>7, <1>8, <1>9, <1>10, <1>11, <1>12, <1>13, <1>14, <1>15, <1>16
     DEF Next, LoopStep, TeardownStep, MediaStep, PurgeStep, vars

\* The StasisEnd of a channel somebody acts on is not lost, along a step.
LEMMA EndsKeptStep ==
    ASSUME Inv, AllFound, EndsKept, [Next]_vars, Undisturbed'
    PROVE  EndsKept'
<1>. SUFFICES ASSUME NEW k \in Channels, chan'[k] = "gone", Awaited(k)' PROVE Has(queue', "end", k)
  BY DEF EndsKept, Has
<1>0. Awaited(k) /\ chan[k] # "ringing"
  BY AwaitedBack, AwaitedUp
<1>1. CASE chan[k] # "gone"
  BY <1>0, <1>1, StepMoves, Calm DEF Moves
<1>2. CASE chan[k] = "gone"
  <2>. SUFFICES ASSUME ~Has(queue', "end", k) PROVE FALSE
    OBVIOUS
  <2>1. /\ Has(queue, "end", k) /\ Takes("end") /\ Head(queue).ch = k
        /\ OnActiveEnd \/ OnStagedEnd \/ OnOtherEnd
    BY <1>0, <1>2, EndTaken DEF EndsKept
  <2>2. queue \in Seq(Events) /\ queue # <<>> /\ EndsLast(queue) /\ Head(queue).type = "end"
    BY <2>1 DEF Takes, Inv, TypeOK, StartsOnce
  <2>3. ~Has(Tail(queue), "start", k) /\ Tail(queue) \in Seq(Events)
    BY <2>1, <2>2, HeadTail
  <2>4. CASE OnActiveEnd
    <3>1. /\ active' = WithoutLegs(active, active[k]) /\ active[k] # None /\ pending' = pending
          /\ loop'.pc = "teardown" /\ queue' = Tail(queue)
      BY <2>1, <2>4 DEF OnActiveEnd, LoopTo, Doing
    <3>2. k \in {active[k], extOf[active[k]]}
      BY <3>1 DEF Inv, MapsOK, TypeOK
    <3>3. active'[k] = None /\ pending'[k] = None
      BY <3>1, <3>2, OneMap DEF WithoutLegs
    <3>. QED
      BY <2>3, <3>1, <3>3 DEF Awaited, Bridging, Has
  <2>5. CASE OnStagedEnd
    <3>1. /\ pending' = WithoutLegs(pending, pending[k]) /\ pending[k] # None /\ active' = active /\ active[k] = None
          /\ pending[k] \in Channels /\ Started(pending[k]) /\ Abort(pending[k], Tail(queue))
      BY <2>1, <2>5, LoopCall DEF OnStagedEnd
    <3>2. k \in {pending[k], extOf[pending[k]]}
      BY <3>1 DEF Inv, MapsOK
    <3>3. active'[k] = None /\ pending'[k] = None
      BY <3>1, <3>2 DEF WithoutLegs
    <3>4. loop'.pc \in {"idle", "teardown"}
      BY <3>1 DEF Abort, LoopIdle, LoopTo, Idle, Doing
    <3>5. ~Has(queue', "start", k)
      BY <2>3, <3>1, AbortEnds DEF EndsOnly
    <3>. QED
      BY <3>3, <3>4, <3>5 DEF Awaited, Bridging, Has
  <2>6. CASE OnOtherEnd
    <3>1. active'[k] = None /\ pending'[k] = None /\ loop'.pc = "idle" /\ queue' = Tail(queue)
      BY <2>1, <2>6 DEF OnOtherEnd, Takes, managerVars
    <3>. QED
      BY <2>3, <3>1 DEF Awaited, Bridging, Has
  <2>. QED
    BY <2>1, <2>4, <2>5, <2>6
<1>. QED
  BY <1>1, <1>2

\* Whoever calls Done ends the channel first, or saw it end.
LEMMA DoneMoves ==
    ASSUME Inv, DialOK, [Next]_vars, \A who \in Purgers : ~PurgeRinging(who),
           NEW ch \in Dialed, done'[ch] # done[ch]
    PROVE  chan'[ch] = "gone"
<1>. USE ManagerAssumption DEF callVars, managerVars, dialVars, boundVars, asteriskVars
<1>0. TypeOK /\ CallOK /\ LoopOK /\ StartsOnce /\ ChanOK /\ ChanType /\ queue \in Seq(Events) /\ ch \in Channels
  BY InvChanOK DEF Inv, ChanOK, Channels
<1>1. ASSUME NEW c \in Channels, done' = Finish(done, c, "notconnected") \/ done' = Finish(done, c, "connected")
      PROVE  ch = c
  BY <1>0, <1>1 DEF TypeOK, Finish
<1>2. ASSUME NEW c \in Channels, FinishOutbound(c) PROVE ch = c
  BY <1>1, <1>2 DEF FinishOutbound
<1>3. ASSUME NEW c \in Channels, SetupFailed(c) PROVE ch = c
  BY <1>1, <1>3 DEF SetupFailed
<1>4. CASE StartCall
  <2>1. Hangup(loop.ch) /\ SetupFailed(loop.ch) /\ loop.ch \in Channels /\ chan[loop.ch] \in {"stasis", "gone"}
    BY <1>4, StartCases
  <2>. QED
    BY <1>0, <1>3, <2>1, HangupEnds DEF Hangup
<1>5. CASE CreateExt
  <2>1. loop.ch \in Channels /\ Started(loop.ch) /\ chan[loop.ch] \in {"stasis", "gone"} /\ SetupFailed(loop.ch)
    <3>1. loop.ch \in Channels /\ Started(loop.ch) /\ SetupFailed(loop.ch)
      BY <1>5, LoopCall DEF CreateExt
    <3>. QED
      BY <1>0, <3>1 DEF CallOK, CallAt
  <2>2. ch = loop.ch /\ loop.ch # extOf[loop.ch]
    BY <1>3, <2>1, TwoLegs
  <2>3. Hangup(loop.ch) \/ chan' = [EndChannel(chan, loop.ch) EXCEPT ![extOf[loop.ch]] = "stasis"]
    BY <1>5 DEF CreateExt
  <2>4. chan \in [Channels -> {"none", "ringing", "stasis", "gone"}]
    BY <1>0 DEF TypeOK
  <2>. QED
    BY <1>0, <2>1, <2>2, <2>3, <2>4, HangupEnds DEF Hangup, EndChannel
<1>6. ASSUME NEW c \in Channels, Started(c), NEW q \in Seq(Events), Abort(c, q) PROVE chan'[ch] = "gone"
  BY <1>2, <1>6, AbortCases
<1>7. CASE BridgeCall
  <2>1. loop.ch \in Channels /\ Started(loop.ch) /\ Abort(loop.ch, queue)
    BY <1>7, LoopCall DEF BridgeCall
  <2>. QED
    BY <1>0, <1>6, <2>1
<1>8. CASE OnStagedEnd
  BY <1>6, <1>8, LoopCall
<1>9. CASE OnOutboundDestroyed
  <2>1. Has(queue, "destroyed", Head(queue).ch) /\ Head(queue).ch \in Channels /\ UNCHANGED chan
    BY <1>9, HeadOf DEF OnOutboundDestroyed
  <2>2. ch = Head(queue).ch
    BY <1>0, <1>1, <1>9, <2>1 DEF OnOutboundDestroyed, TakeRinging
  <2>. QED
    BY <1>0, <2>1, <2>2 DEF StartsOnce
<1>10. ASSUME NEW c \in Channels, TdPorts(c) PROVE chan'[ch] = "gone"
  <2>1. FinishOutbound(c) /\ td[c] = "ports" /\ UNCHANGED chan
    BY <1>10 DEF TdPorts, FreesPort
  <2>. QED
    BY <1>0, <1>2, <2>1 DEF CallOK, CallAt
<1>11. ASSUME NEW e \in Dialed, WatchdogFires(e) PROVE chan'[ch] = "gone"
  <2>1. e \in Channels /\ Hangup(e) /\ done' = Finish(done, e, "notconnected") /\ watchdog[e]
    BY <1>11 DEF WatchdogFires, TakeRinging, Channels
  <2>2. chan[e] # "none"
    BY <2>1 DEF DialOK, DialAt
  <2>. QED
    BY <1>0, <1>1, <2>1, <2>2, HangupEnds DEF Hangup
<1>. QED
  BY <1>4, <1>5, <1>7, <1>8, <1>9, <1>10, <1>11, DialWriters

\* A dialed call reported done is gone, along a step.
LEMMA DoneGoneStep ==
    ASSUME Inv, DialOK, DoneGone, [Next]_vars, Undisturbed'
    PROVE  DoneGone'
<1>. SUFFICES ASSUME NEW ch \in Dialed, done'[ch] # "none" PROVE chan'[ch] = "gone"
  BY DEF DoneGone
<1>1. CASE done'[ch] # done[ch]
  BY <1>1, Calm, DoneMoves
<1>2. CASE done'[ch] = done[ch]
  BY <1>2, ChanStays DEF DoneGone, Channels
<1>. QED
  BY <1>1, <1>2

\* Faults are only counted up.
LEMMA FaultsGrow ==
    ASSUME Inv, [Next]_vars, faults' = 0
    PROVE  faults = 0
<1>1. faults' = faults \/ faults' = faults + 1
  BY DialWriters DEF StartCall, CreateExt, BridgeCall, DialErr, Fault, NoFault
<1>2. faults \in Nat
  BY ManagerAssumption DEF Inv, TypeOK
<1>. QED
  BY <1>1, <1>2

\* The call an externalMedia channel is requested for is staged.
LEMMA ExtRequested ==
    ASSUME Inv, SteadyOK, PortsOK, AllFound, Steady, \A c \in Channels : ~Purged(c), loop.pc = "ext"
    PROVE  pending[extOf[loop.ch]] = loop.ch /\ chan[extOf[loop.ch]] = "none"
<1>. DEFINE c == loop.ch
<1>0. LoopOK /\ MapsOK /\ ExtOnce /\ TypeOK
  BY DEF Inv
<1>1. c \in Channels /\ Started(c) /\ extOf[c] \in ExtIds /\ ~bridge[c]
  BY <1>0, LoopCall, TwoLegs DEF LoopOK
<1>2. td[c] = "none" /\ held[c] \in BOOLEAN
  BY <1>0, <1>1 DEF SteadyOK, TypeOK
<1>3. held[c]
  BY <1>1, <1>2 DEF PortsOK, Safe, Dropped
<1>4. PendingBoth(c) \/ ActiveBoth(c)
  BY <1>1, <1>2, <1>3 DEF AllFound, FoundAt, Bridging
<1>5. ~ActiveBoth(c)
  BY <1>0, <1>1 DEF ActiveBoth, MapsOK
<1>6. chan[extOf[c]] = "none"
  BY <1>0, <1>1 DEF ExtOnce, Started
<1>. QED
  BY <1>4, <1>5, <1>6 DEF PendingBoth

\* An externalMedia leg whose start is not handled yet stays awaited.
LEMMA LegStaysAwaited ==
    ASSUME Inv, SteadyOK, BridgesOK, [Next]_vars, Undisturbed', NEW x \in ExtIds, ~Started(x),
           Has(queue, "start", x), Has(queue', "start", x), pending[x] # None, pending'[x] = None
    PROVE  chan'[x] = "gone"
<1>. USE ManagerAssumption
<1>0. TypeOK /\ StartsOnce /\ ExtOnce /\ MapsOK /\ Steady /\ x \in Channels
      /\ \A who \in Purgers : ~PurgeCollect(who)
  BY Calm DEF Inv, Channels
<1>1. chan[x] \in {"stasis", "gone"} /\ StartsUnique(queue)
  BY <1>0 DEF StartsOnce
<1>2. ~(StartCall /\ loop' = Doing("ext", loop.ch))
  <2>1. SUFFICES ASSUME StartCall, loop' = Doing("ext", loop.ch) PROVE FALSE
    OBVIOUS
  <2>2. PICK y \in ExtIds : pending' = [pending EXCEPT ![loop.ch] = loop.ch, ![y] = loop.ch]
    BY <2>1, StartCases DEF Idle, Doing
  <2>3. loop.ch # None /\ pending \in [Channels -> Channels \cup {None}]
    BY <1>0, <2>1, StartCases DEF TypeOK
  <2>. QED
    BY <1>0, <2>2, <2>3
<1>3. PICK e \in Channels : Started(e) /\ PendingOut(e)
  BY <1>0, <1>2, MapsChange
<1>4. x = extOf[e]
  BY <1>0, <1>3 DEF PendingOut, WithoutLegs
<1>5. CASE OnExternalStart /\ e = pending[Head(queue).ch]
  <2>1. Head(queue).ch = x /\ Head(queue).type = "start" /\ queue' = Tail(queue)
    BY <1>4, <1>5, LoopCall DEF OnExternalStart, Takes
  <2>2. queue \in Seq(Events) /\ queue # <<>>
    BY <1>5, HeadOf DEF OnExternalStart
  <2>. QED
    BY <1>1, <2>1, <2>2, HeadTail
<1>6. CASE OnStagedEnd /\ e = pending[Head(queue).ch]
  <2>1. Abort(e, Tail(queue)) /\ Tail(queue) \in Seq(Events) /\ Head(queue).ch \in Channels
    BY <1>6, LoopCall, HeadOf DEF OnStagedEnd
  <2>2. td[e] = "none"
    BY <1>0, <1>6, <2>1 DEF SteadyOK
  <2>. QED
    BY <1>1, <1>3, <1>4, <2>1, <2>2, AbortCases
<1>7. CASE CreateExt /\ e = loop.ch
  BY <1>0, <1>1, <1>3, <1>4, <1>7 DEF CreateExt, ExtOnce, Started
<1>8. CASE TdMaps(e)
  BY <1>0, <1>4, <1>8 DEF TdMaps, BridgesOK, MapsOK
<1>. QED
  BY <1>3, <1>5, <1>6, <1>7, <1>8 DEF PendingOut

\* No externalMedia leg is taken for a caller, along a step.
LEMMA MediaLegsStep ==
    ASSUME Inv, SteadyOK, PortsOK, BridgesOK, AllFound, MediaLegsOK, [Next]_vars, Undisturbed'
    PROVE  MediaLegsOK'
<1>. USE ManagerAssumption
<1>. SUFFICES ASSUME faults' = 0, NEW x \in ExtIds
              PROVE  /\ ~Started(x)'
                     /\ Has(queue', "start", x) => chan'[x] = "gone" \/ pending'[x] # None
                     /\ loop'.pc = "start" /\ loop'.ch = x => chan'[x] = "gone"
  BY DEF MediaLegsOK, Has
<1>0. /\ TypeOK /\ MapsOK /\ ExtOnce /\ x \in Channels /\ faults = 0 /\ Moves /\ Steady
      /\ \A c \in Channels : ~Purged(c)
  BY Calm, FaultsGrow, StepMoves DEF Inv, Channels
<1>1. /\ \A y \in ExtIds : ~Started(y)
      /\ Has(queue, "start", x) => chan[x] = "gone" \/ pending[x] # None
      /\ loop.pc = "start" /\ loop.ch = x => chan[x] = "gone"
  BY <1>0 DEF MediaLegsOK
<1>2. chan[x] = "gone" => chan'[x] = "gone"
  BY <1>0, ChanStays
<1>3. ~Started(x)'
  <2>1. SUFFICES ASSUME StartCall, x = loop.ch, loop' = Doing("ext", x) PROVE FALSE
    BY <1>0, <1>1, ExtGrows
  <2>2. loop.pc = "start" /\ (chan[x] = "stasis" \/ x \in outbound)
    BY <2>1, StartCases DEF Doing, Idle
  <2>. QED
    BY <1>0, <1>1, <2>1, <2>2 DEF TypeOK
<1>4. ASSUME Has(queue', "start", x) PROVE chan'[x] = "gone" \/ pending'[x] # None
  <2>1. CASE Has(queue, "start", x)
    BY <1>1, <1>2, <1>4, <2>1, LegStaysAwaited
  <2>2. CASE ~Has(queue, "start", x)
    <3>1. chan[x] = "none" /\ chan'[x] = "stasis"
      BY <1>0, <1>4, <2>2 DEF Moves, ExtOnce
    <3>2. loop.pc = "ext" /\ x = extOf[loop.ch] /\ loop'.pc = "idle"
      BY <1>0, <3>1 DEF Moves
    <3>3. CreateExt
      BY <3>2, MapWriters DEF OnExternalStart, OnCallerStart, OnOutboundAnswered, StartCall, BridgeCall,
         Activate, OnActiveEnd, LoopTeardown, OnStagedEnd, Shutdown, Takes
    <3>4. pending[x] # None
      BY <1>0, <3>2, ExtRequested, LoopCall
    <3>5. CASE UNCHANGED pending
      BY <3>4, <3>5
    <3>6. CASE AudioSocket /\ ~sock[loop.ch] /\ Hangup(loop.ch)
      BY <1>0, <3>1, <3>6 DEF Hangup, EndChannel, TypeOK
    <3>7. faults' # faults + 1
      BY <1>0
    <3>. QED
      BY <3>3, <3>5, <3>6, <3>7 DEF CreateExt, Fault
  <2>. QED
    BY <2>1, <2>2
<1>5. ASSUME loop'.pc = "start", loop'.ch = x PROVE chan'[x] = "gone"
  <2>1. CASE loop' = loop
    BY <1>1, <1>2, <1>5, <2>1
  <2>2. CASE loop' = Doing("start", Head(queue).ch) /\ OnCallerStart
    <3>1. x = Head(queue).ch /\ Has(queue, "start", x) /\ ~IsExternal(x)
      BY <1>5, <2>2, HeadOf DEF Doing, OnCallerStart
    <3>2. CASE chan[x] = "gone"
      BY <1>2, <3>2
    <3>3. CASE pending[x] # None
      <4>1. PICK c \in Channels : pending[x] = c
        BY <1>0, <3>3 DEF TypeOK
      <4>2. Started(c) /\ x \in {c, extOf[c]}
        BY <1>0, <4>1 DEF MapsOK
      <4>. QED
        BY <1>1, <3>1, <3>3, <4>1, <4>2 DEF IsExternal
    <3>. QED
      BY <1>1, <3>1, <3>2, <3>3
  <2>3. CASE loop' = Doing("start", Head(queue).ch) /\ OnOutboundAnswered
    <3>1. x \in Dialed
      BY <1>5, <2>3 DEF Doing, OnOutboundAnswered
    <3>. QED
      BY <3>1
  <2>. QED
    BY <1>5, <2>1, <2>2, <2>3, LoopMoves DEF Doing, Idle
<1>. QED
  BY <1>3, <1>4, <1>5

-----------------------------------------------------------------------------
\* Everything is settled, once nothing is under way.

\* What holds while undisturbed, along a step.
LEMMA SettleOKStep == Inv /\ SteadyOK /\ PortsOK /\ DialOK /\ SettleOK /\ [Next]_vars => SettleOK'
<1>. SUFFICES ASSUME Inv, SteadyOK, PortsOK, DialOK, SettleOK, [Next]_vars, Undisturbed'
     PROVE  (BridgesOK /\ AllFound /\ EndsKept /\ GaugeOK /\ DoneGone /\ MediaLegsOK)'
  BY DEF SettleOK
<1>1. BridgesOK /\ AllFound /\ EndsKept /\ GaugeOK /\ DoneGone /\ MediaLegsOK
  BY Calm DEF SettleOK
<1>. QED
  BY <1>1, BridgesOKStep, AllFoundStep, EndsKeptStep, GaugeOKStep, DoneGoneStep, MediaLegsStep

\* The inductive invariant.
LEMMA FullInvariant == Spec => []FullInv
<1>1. Init => FullInv
  <2>. SUFFICES ASSUME Init PROVE FullInv
    OBVIOUS
  <2>. USE ManagerAssumption DEF Init
  <2>1. SteadyOK /\ PortsOK /\ DialOK /\ UsedHeld
    BY DEF SteadyOK, PortsOK, DialOK, DialAt, UsedHeld, Idle, Doing, Started, Channels
  <2>2. \A k \in Channels : ~Awaited(k)
    BY DEF Awaited, Has, Bridging, Idle, Doing
  <2>3. BridgesOK /\ AllFound /\ EndsKept /\ DoneGone
    BY <2>2 DEF BridgesOK, AllFound, FoundAt, EndsKept, DoneGone, Channels
  <2>4. MediaLegsOK
    BY DEF MediaLegsOK, Has, Idle, Doing, Started, Channels
  <2>5. Live = {}
    BY DEF Live
  <2>6. GaugeOK
    BY <2>5, FS_EmptySet DEF GaugeOK
  <2>. QED
    BY <2>1, <2>3, <2>4, <2>6, InvInit DEF FullInv, SettleOK
<1>2. FullInv /\ [Next]_vars => FullInv'
  BY InvStep, SteadyOKStep, PortsOKStep, DialOKStep, UsedHeldStep, SettleOKStep DEF FullInv
<1>. QED
  BY <1>1, <1>2, PTL DEF Spec

\* A manager that is quiet has no call left.
LEMMA QuietIsEmpty == FullInv /\ Undisturbed => NothingLeaks
<1>. SUFFICES ASSUME FullInv, Undisturbed, Quiet
     PROVE  /\ used = {} /\ bridgeUp = {}
            /\ \A k \in Channels : pending[k] = None /\ active[k] = None /\ ~sock[k]
            /\ outbound = {}
            /\ \A ch \in Dialed : dial[ch] = "placed" => done[ch] # "none"
  BY DEF NothingLeaks
<1>. USE ManagerAssumption
<1>0. /\ TypeOK /\ CallOK /\ MapsOK /\ BridgesOK /\ AllFound /\ EndsKept /\ DialOK /\ UsedHeld /\ PortsOK
      /\ loop.pc = "idle" /\ Safe
  BY DEF FullInv, Inv, SettleOK, Undisturbed, Quiet, Safe, Steady, Started
<1>1. \A k \in Channels : Awaited(k) => chan[k] = "none"
  BY <1>0 DEF Quiet, EndsKept, Has
<1>2. ASSUME NEW c \in Channels, Started(c) PROVE pending[c] = None /\ active[c] = None
  <2>1. chan[c] # "none"
    BY <1>0, <1>2 DEF CallOK, CallAt
  <2>. QED
    BY <1>1, <2>1 DEF Awaited
<1>3. ASSUME NEW k \in Channels PROVE pending[k] = None /\ active[k] = None
  <2>1. ASSUME NEW c \in Channels, pending[k] = c PROVE FALSE
    <3>1. Started(c) /\ pending[c] = c
      BY <1>0, <2>1 DEF MapsOK, AllFound, FoundAt, PendingBoth
    <3>. QED
      BY <1>2, <3>1 DEF Channels
  <2>2. ASSUME NEW c \in Channels, active[k] = c PROVE FALSE
    <3>1. Started(c) /\ active[c] = c
      BY <1>0, <2>2 DEF MapsOK, AllFound, FoundAt, ActiveBoth
    <3>. QED
      BY <1>2, <3>1 DEF Channels
  <2>. QED
    BY <1>0, <2>1, <2>2 DEF TypeOK
<1>4. ASSUME NEW c \in Channels, held[c] PROVE FALSE
  <2>1. td[c] = "none"
    BY <1>0, <1>4 DEF Quiet, CallOK, CallAt
  <2>2. ~Purged(c) /\ ~Bridging(c)
    BY <1>0 DEF Quiet, Purged, Bridging
  <2>3. pending[c] = c \/ active[c] = c
    BY <1>0, <1>4, <2>1, <2>2 DEF AllFound, FoundAt, PendingBoth, ActiveBoth
  <2>. QED
    BY <1>3, <2>3 DEF Channels
<1>5. used = {} /\ \A k \in Channels : ~sock[k]
  BY <1>0, <1>4 DEF UsedHeld, CallOK, CallAt
<1>6. ASSUME NEW c \in bridgeUp PROVE FALSE
  <2>1. c \in Channels /\ bridge[c] /\ td[c] = "none"
    BY <1>0 DEF BridgesOK, TypeOK, Quiet
  <2>2. Started(c)
    BY <1>0, <2>1 DEF CallOK, CallAt
  <2>. QED
    BY <1>0, <1>4, <2>1, <2>2 DEF PortsOK, Dropped
<1>7. ASSUME NEW ch \in outbound PROVE FALSE
  <2>1. ch \in Dialed /\ ch \in Channels
    BY <1>0 DEF TypeOK, Channels
  <2>2. dial[ch] = "placed" /\ answered[ch]
    BY <1>0, <2>1 DEF DialOK, DialAt, Quiet, Ringing
  <2>. QED
    BY <1>0, <1>4, <2>1, <2>2 DEF DialOK, DialAt
<1>8. \A ch \in Dialed : dial[ch] = "placed" => done[ch] # "none"
  BY <1>0, <1>7 DEF DialOK, DialAt
<1>. QED
  BY <1>3, <1>5, <1>6, <1>7, <1>8

\* While no WebSocket drop, shutdown or duration limit has disturbed the manager,
\* its calls settle: abort and teardown leave no port, socket, bridge or map entry
\* behind, whichever requests failed; CallsActive counts the bridged calls; no
\* externalMedia leg is taken for a caller; a dialed call reported done is over.
THEOREM UndisturbedSettles == Spec => []FaultsSettle
<1>1. FullInv => FaultsSettle
  <2>. SUFFICES ASSUME FullInv PROVE FaultsSettle
    OBVIOUS
  <2>1. TypeOK /\ CallOK
    BY DEF FullInv, Inv
  <2>2. ASSUME Undisturbed PROVE GaugeCountsCalls /\ MediaLegNeverACaller /\ DoneMeansOver
    <3>1. GaugeOK /\ MediaLegsOK /\ DoneGone
      BY <2>2 DEF FullInv, SettleOK
    <3>2. GaugeCountsCalls
      BY <3>1 DEF GaugeOK, GaugeCountsCalls, Live
    <3>3. MediaLegNeverACaller
      BY <2>1, <3>1 DEF MediaLegsOK, MediaLegNeverACaller, CallOK, CallAt, Channels
    <3>. QED
      BY <3>1, <3>2, <3>3 DEF DoneGone, DoneMeansOver
  <2>. QED
    BY <2>1, <2>2, QuietIsEmpty DEF FaultsSettle
<1>. QED
  BY <1>1, FullInvariant, PTL

-----------------------------------------------------------------------------
\* The manager implements CallLife.

\* Asterisk's channels move as CallLife lets them.
LEMMA LifeChannels ==
    ASSUME Inv, [Next]_vars
    PROVE  Life!ChannelsMove
<1>1. \A k \in Channels : \/ chan'[k] = chan[k]
                          \/ chan[k] = "none" /\ chan'[k] \in {"ringing", "stasis"}
                          \/ chan[k] = "ringing" /\ chan'[k] \in {"stasis", "gone"}
                          \/ chan[k] = "stasis" /\ chan'[k] = "gone"
  BY StepMoves DEF Moves
<1>. QED
  BY <1>1 DEF Life!ChannelsMove, ChannelOf

\* A step that changes neither the bridges nor which cleanups are done.
LEMMA LifeStays ==
    ASSUME Inv, SteadyOK, BridgesOK, [Next]_vars, Undisturbed', ~Activate, \A c \in Channels : ~TdPorts(c)
    PROVE  UNCHANGED Life!callVars
<1>1. UNCHANGED gauge /\ UNCHANGED bridge
  BY MapWriters, CallWriters
<1>2. ASSUME NEW c \in Channels PROVE LifeOf(c)' = LifeOf(c)
  <2>1. td'[c] = td[c] \/ ~bridge[c] \/ (td[c] # "done" /\ td'[c] # "done")
    <3>1. CASE td[c] = "none" /\ td'[c] # "none"
      BY <3>1, CalmTdStarts
    <3>2. CASE td[c] # "none" /\ td'[c] # td[c]
      <4>1. (TdMaps(c) /\ td'[c] = "legs") \/ (TdLegs(c) /\ td'[c] = "ports")
        BY <3>2, TdMoves
      <4>. QED
        BY <4>1 DEF TdMaps, TdLegs
    <3>. QED
      BY <3>1, <3>2
  <2>. QED
    BY <1>1, <2>1 DEF LifeOf
<1>. QED
  BY <1>1, <1>2 DEF Life!callVars

\* Every step of an undisturbed manager is a step of CallLife or a stutter.
LEMMA LifeStep == FullInv /\ Undisturbed' /\ [Next]_vars => [Life!Next]_Life!vars
<1>. SUFFICES ASSUME FullInv, Undisturbed', [Next]_vars PROVE Life!Next
  OBVIOUS
<1>0. /\ Inv /\ TypeOK /\ CallOK /\ LoopOK /\ SteadyOK /\ Undisturbed /\ Steady /\ BridgesOK
      /\ Life!ChannelsMove
  BY Calm, LifeChannels DEF FullInv, SettleOK, Inv
<1>1. CASE Activate
  <2>0. PICK k \in Channels : k = loop.ch
    BY <1>0, <1>1, LoopCall DEF Activate
  <2>1. k \in Channels /\ Started(k) /\ ~bridge[k] /\ td[k] = "none" /\ chan[k] # "none"
    <3>1. k \in Channels /\ Started(k) /\ ~bridge[k] /\ td[k] = "none"
      BY <1>0, <1>1, <2>0, LoopCall DEF Activate, LoopOK, SteadyOK
    <3>. QED
      BY <1>0, <3>1 DEF CallOK, CallAt
  <2>2. bridge' = [bridge EXCEPT ![k] = TRUE] /\ td' = td /\ gauge' = gauge + 1
    BY <1>1, <2>0 DEF Activate, callVars
  <2>3. LifeOf(k) = "none" /\ LifeOf(k)' = "live"
    BY <1>0, <2>1, <2>2 DEF LifeOf, TypeOK
  <2>4. \A c \in Channels : c # k => LifeOf(c)' = LifeOf(c)
    BY <1>0, <2>1, <2>2 DEF LifeOf, TypeOK
  <2>5. ChannelOf(k) # "none"
    BY <1>0, <2>1 DEF ChannelOf
  <2>6. Life!Begin(k)
    BY <2>1, <2>2, <2>3, <2>4, <2>5 DEF Life!Begin
  <2>. QED
    BY <1>0, <2>1, <2>6 DEF Life!Next
<1>2. ASSUME NEW c \in Channels, TdPorts(c) PROVE Life!Next
  <2>1. td[c] = "ports" /\ td' = [td EXCEPT ![c] = "done"] /\ gauge' = gauge - 1 /\ UNCHANGED bridge
    BY <1>2 DEF TdPorts, FreesPort
  <2>2. bridge[c]
    BY <1>0, <2>1 DEF BridgesOK
  <2>3. LifeOf(c) = "live" /\ LifeOf(c)' = "over"
    BY <1>0, <2>1, <2>2 DEF LifeOf, TypeOK
  <2>4. \A e \in Channels : e # c => LifeOf(e)' = LifeOf(e)
    BY <1>0, <2>1 DEF LifeOf, TypeOK
  <2>5. Life!End(c)
    BY <2>1, <2>3, <2>4 DEF Life!End
  <2>. QED
    BY <1>0, <2>5 DEF Life!Next
<1>3. CASE ~Activate /\ \A c \in Channels : ~TdPorts(c)
  BY <1>0, <1>3, LifeStays DEF Life!Next
<1>. QED
  BY <1>1, <1>2, <1>3

\* Where nothing can disturb it (no drops, no duration limit, no shutdown), the
\* Asterisk manager implements the safety part of CallLife, whichever requests
\* fail: a call begins once, on a channel Asterisk had, ends once, and CallsActive
\* counts exactly the calls in between.
THEOREM ImplementsLife ==
    ASSUME Limited = {}, MaxDrops = 0, ~AllowShutdown
    PROVE  Spec => Life!Spec
<1>. DEFINE Runs == loop.pc # "stopped"
<1>1. Init => Runs /\ Life!Init
  <2>1. Init => Runs
    BY DEF Init, Idle, Doing
  <2>2. Init => Life!Init
    BY DEF Init, Life!Init, LifeOf, ChannelOf
  <2>. QED
    BY <2>1, <2>2
<1>2. FullInv /\ Runs /\ [Next]_vars => Runs'
  BY LoopMoves DEF FullInv, Inv, Idle, Doing, Shutdown, OnExternalStart, Takes
<1>3. FullInv /\ Runs => Undisturbed
  BY ManagerAssumption DEF FullInv, Inv, TypeOK, Undisturbed
<1>. HIDE DEF Runs
<1>. QED
  BY <1>1, <1>2, <1>3, FullInvariant, LifeStep, PTL DEF Spec, Life!Spec

=============================================================================
