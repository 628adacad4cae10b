---------------------------- MODULE JitterBuffer ----------------------------
(***************************************************************************)
(* The jitter buffer of an RTP call: internal/media/jitterbuffer.go, fed by*)
(* the readLoop and emptied by the releaseLoop of loopback.go.             *)
(*                                                                         *)
(* A packet is its sequence number and its SSRC; sequence numbers wrap at  *)
(* SeqModulus (2^16 in the code) and are compared as int16 does, in half   *)
(* that range.  Push and Release each hold the buffer's mutex throughout.  *)
(*                                                                         *)
(* Asterisk sends and the release ticker fires once every 20 ms: the two   *)
(* alternate.  Everything else spends one unit of trouble: a packet lost,  *)
(* delayed, duplicated or restarted under another SSRC, a tick of either   *)
(* clock without one of the other.                                         *)
(***************************************************************************)
EXTENDS Integers, FiniteSets

CONSTANTS
    JitterSize,         \* JITTER_BUFFER_PACKETS: window and priming depth
    SeqModulus,         \* sequence numbers are 0 .. SeqModulus - 1
    MaxNetTrouble,      \* bound: departures from the steady stream
    MaxDelay            \* bound: packets sent while an earlier one is delayed

ASSUME JitterAssumption ==
    /\ JitterSize \in Nat \ {0} /\ MaxNetTrouble \in Nat /\ MaxDelay \in Nat
    /\ SeqModulus \in Nat /\ JitterSize + MaxDelay < SeqModulus \div 2

VARIABLES
    nextSeq, nextSsrc,  \* Asterisk's next packet
    sentAhead,          \* packets sent less ticks fired: 0 or 1
    delayed,            \* packets on their way
    netTrouble,
    jb,                 \* the buffer's fields
    heard,              \* the frame Release returns in this step
    lastHeard           \* the last packet heard since the buffer took its SSRC

netVars == <<nextSeq, nextSsrc, sentAhead, delayed, netTrouble>>
jitterVars == <<netVars, jb, heard, lastHeard>>

StarveFreezeThreshold == 3
MaxPrimingTicks == 2 * JitterSize

Seqs == 0 .. SeqModulus - 1
Packet(seq, ssrc) == [seq |-> seq, ssrc |-> ssrc]
Silence == [seq |-> -1, ssrc |-> -1]
SlotIdx == 0 .. JitterSize - 1
NoFrames == [i \in SlotIdx |-> Silence]

\* int16(a - b): the signed circular distance from b to a.
Distance(a, b) ==
    LET d == (a - b) % SeqModulus IN IF d < SeqModulus \div 2 THEN d ELSE d - SeqModulus

Slot(seq) == seq % JitterSize
DepthLocked == Cardinality({i \in SlotIdx : jb.slots[i] # Silence})

-----------------------------------------------------------------------------
\* resetLocked and reanchorLocked: the window is emptied and primed again from p.
Anchor(p) == [started |-> TRUE, state |-> "waiting", misses |-> 0, primingTicks |-> 0,
              expected |-> p.seq, ssrc |-> p.ssrc, slots |-> NoFrames]

\* The first packet: NewJitterBuffer's zero values are already those of Anchor.
Begin(p) == Anchor(p)

\* Mutant: a frozen buffer counts every packet late.
StaleWhileFrozenAlways(p) == jb.state = "frozen"
StaleWhileFrozen(p) == jb.state = "frozen" /\ Distance(p.seq, jb.expected) < 0

\* The window Push places p in, before it looks at p's distance.
Window(p) ==
    IF ~jb.started THEN Begin(p)
    ELSE IF \/ p.ssrc # jb.ssrc
            \/ jb.state = "frozen"
            \/ jb.state = "waiting" /\ Distance(p.seq, jb.expected) >= JitterSize
         THEN Anchor(p) ELSE jb

\* Mutant: the last place of the window is not used.
FitsShort(w, p) ==
    /\ Distance(p.seq, w.expected) >= 0 /\ Distance(p.seq, w.expected) < JitterSize - 1
    /\ w.slots[Slot(p.seq)] = Silence
\* Not late, not out of the window, not a duplicate.
Fits(w, p) ==
    /\ Distance(p.seq, w.expected) >= 0 /\ Distance(p.seq, w.expected) < JitterSize
    /\ w.slots[Slot(p.seq)] = Silence

Push(p) ==
    jb' = LET w == Window(p) IN
          IF jb.started /\ p.ssrc = jb.ssrc /\ StaleWhileFrozen(p) THEN jb
          ELSE IF Fits(w, p) THEN [w EXCEPT !.slots[Slot(p.seq)] = p] ELSE w

-----------------------------------------------------------------------------
\* Release, priming: silence until the window is full or the wait is over.
Priming == jb.state = "waiting" /\ DepthLocked < JitterSize
Primes == Priming /\ jb.primingTicks + 1 < MaxPrimingTicks

\* The buffer once Release has seen to the priming.
Activated ==
    LET ticked == IF Priming THEN [jb EXCEPT !.primingTicks = @ + 1] ELSE jb IN
    IF jb.state = "waiting" THEN [ticked EXCEPT !.state = "active", !.misses = 0] ELSE ticked

\* The frame of the expected packet, and the window moved past it.
Pop(b) == [b EXCEPT !.slots[Slot(b.expected)] = Silence,
                    !.expected = (@ + 1) % SeqModulus, !.misses = 0]

\* The frame is missing: the window moves on, and freezes at the third miss.
Miss(b) ==
    IF b.state = "frozen" THEN b
    ELSE [b EXCEPT !.misses = @ + 1, !.expected = (@ + 1) % SeqModulus,
                   !.state = IF b.misses + 1 >= StarveFreezeThreshold THEN "frozen" ELSE @]

Hear(p) ==
    /\ heard' = p
    /\ lastHeard' = IF p = Silence THEN lastHeard ELSE p

Release ==
    IF ~jb.started THEN UNCHANGED jb /\ Hear(Silence)
    ELSE IF Primes THEN jb' = [jb EXCEPT !.primingTicks = @ + 1] /\ Hear(Silence)
    ELSE LET f == Activated.slots[Slot(jb.expected)] IN
         /\ jb' = IF f # Silence THEN Pop(Activated) ELSE Miss(Activated)
         /\ Hear(f)

-----------------------------------------------------------------------------
\* Asterisk (external) and the network.

NetTrouble == netTrouble < MaxNetTrouble /\ netTrouble' = netTrouble + 1
NotHeard == heard' = Silence /\ lastHeard' = IF jb'.ssrc # jb.ssrc THEN Silence ELSE lastHeard
NextPacket == Packet(nextSeq, nextSsrc)
InTime == \A p \in delayed : p.ssrc = nextSsrc => Distance(nextSeq, p.seq) < MaxDelay

Sends ==
    /\ sentAhead = 0 /\ InTime
    /\ nextSeq' = (nextSeq + 1) % SeqModulus
    /\ sentAhead' = 1
    /\ UNCHANGED nextSsrc

\* readLoop: a packet that is there is pushed at once.
Arrives == Sends /\ Push(NextPacket) /\ NotHeard /\ UNCHANGED <<delayed, netTrouble>>
Lost == Sends /\ NetTrouble /\ UNCHANGED <<delayed, jb>> /\ NotHeard
Delayed ==
    /\ Sends /\ NetTrouble
    /\ delayed' = delayed \cup {NextPacket}
    /\ UNCHANGED jb /\ NotHeard
Duplicated ==
    /\ Sends /\ NetTrouble
    /\ delayed' = delayed \cup {NextPacket}
    /\ Push(NextPacket) /\ NotHeard

\* A delayed packet, pushed behind later ones.
ArrivesLate(p) ==
    /\ p \in delayed
    /\ delayed' = delayed \ {p}
    /\ Push(p) /\ NotHeard
    /\ UNCHANGED <<nextSeq, nextSsrc, sentAhead, netTrouble>>

\* Asterisk restarts the stream: another SSRC, and a sequence number of its own.
Restarts(seq) ==
    /\ NetTrouble
    /\ nextSeq' = seq /\ nextSsrc' = nextSsrc + 1
    /\ UNCHANGED <<sentAhead, delayed, jb>> /\ NotHeard

ReleaseTick ==
    /\ sentAhead = 1 /\ sentAhead' = 0
    /\ Release
    /\ UNCHANGED <<nextSeq, nextSsrc, delayed, netTrouble>>

\* The clocks drift: a tick without a packet, and a packet without a tick.
ExtraTick ==
    /\ sentAhead = 0 /\ NetTrouble
    /\ Release
    /\ UNCHANGED <<nextSeq, nextSsrc, sentAhead, delayed>>
SkippedTick ==
    /\ sentAhead = 1 /\ sentAhead' = 0 /\ NetTrouble
    /\ UNCHANGED <<nextSeq, nextSsrc, delayed, jb>> /\ NotHeard

JitterInit ==
    /\ nextSeq = 0 /\ nextSsrc = 0 /\ sentAhead = 0 /\ delayed = {} /\ netTrouble = 0
    /\ jb = [Anchor(Packet(0, 0)) EXCEPT !.started = FALSE]
    /\ heard = Silence /\ lastHeard = Silence

JitterNext ==
    \/ Arrives \/ Lost \/ Delayed \/ Duplicated \/ ReleaseTick \/ ExtraTick \/ SkippedTick
    \/ \E p \in delayed : ArrivesLate(p)
    \/ \E seq \in {0, SeqModulus - 1} : Restarts(seq)

JitterSpec == JitterInit /\ [][JitterNext]_jitterVars

\* Packets keep coming and the ticker keeps firing; a delayed packet arrives.
LateSteps == \E p \in delayed : ArrivesLate(p)
JitterFairness ==
    WF_jitterVars(Arrives) /\ WF_jitterVars(ReleaseTick) /\ WF_jitterVars(LateSteps)
FairJitterSpec == JitterSpec /\ JitterFairness

-----------------------------------------------------------------------------
\* Every field is one the code can hold.
JitterTypeOK ==
    /\ nextSeq \in Seqs /\ sentAhead \in {0, 1} /\ netTrouble \in 0..MaxNetTrouble
    /\ jb.started \in BOOLEAN /\ jb.state \in {"waiting", "active", "frozen"}
    /\ jb.misses \in 0..StarveFreezeThreshold /\ jb.primingTicks \in 0..MaxPrimingTicks
    /\ jb.expected \in Seqs
    /\ jb.slots \in [SlotIdx -> {Silence} \cup [seq : Seqs, ssrc : 0..nextSsrc]]

\* No frame is left behind the window: whatever was lost, late or skipped, a
\* stored frame is one of the SSRC being played and still to be released, in
\* the slot Release will look for it in.
NothingStale ==
    \A i \in SlotIdx : jb.slots[i] # Silence =>
        /\ jb.slots[i].ssrc = jb.ssrc
        /\ Slot(jb.slots[i].seq) = i
        /\ Distance(jb.slots[i].seq, jb.expected) \in 0 .. JitterSize - 1

\* Numbers on either side of the wrap that share a slot of their window with one of
\* the other side: none if JitterSize divides SeqModulus, one with the code's default
\* of 3 and 2^16.
Unaligned == SeqModulus % JitterSize
NearWrap(seq) == seq < Unaligned \/ seq >= SeqModulus - Unaligned

\* How long before its turn a frame may be played: in the slot of a missing packet
\* from before the wrap, one from after it, Unaligned further on.
Early(p) == IF p.seq < Unaligned THEN Unaligned ELSE 0

\* jitterbuffer.go:49 "releasing exactly one frame per call in sequence order":
\* of one SSRC, what Release returns is ahead of what it returned before, unless
\* that was played too early at the wrap; and then at most by so much behind it.
HeardInOrder ==
    [][heard' # Silence /\ lastHeard # Silence
         => Distance(heard'.seq, lastHeard.seq) > 0 - Early(lastHeard)]_jitterVars

\* jitterbuffer.go:104 "immediately returned to the pool if discarded (late,
\* duplicate, or outside the reorder window)": the first copy of a packet that
\* arrives within the window is kept; only at the wrap may it find its slot taken by
\* another packet of the window, and is counted a duplicate.
DiscardedForCause ==
    [][Arrives /\ ~(jb.started /\ NextPacket.ssrc = jb.ssrc /\ StaleWhileFrozen(NextPacket))
          /\ Distance(nextSeq, Window(NextPacket).expected) \in 0 .. JitterSize - 1
         => LET kept == jb'.slots[Slot(nextSeq)] IN
            kept = NextPacket \/ (NearWrap(nextSeq) /\ kept # Silence)]_jitterVars

\* The buffer cannot wedge into silence: once the stream is steady again the
\* caller is heard after every packet, whatever was lost while priming, however
\* the clocks drifted and wherever the window froze.
CallerIsHeard == nextSeq # 0 ~> heard # Silence

\* Every packet in its turn, whatever the window's size: stored for its own tick,
\* released in order, discarded only for a reason, with nothing amiss but at the
\* wrap of a size that does not divide 2^16.
PacketsInTurn == [](JitterTypeOK /\ NothingStale) /\ HeardInOrder /\ DiscardedForCause
=============================================================================
