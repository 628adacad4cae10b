----------------------------- MODULE SpeechGate -----------------------------
(***************************************************************************)
(* Which frames the speech-to-text gets: internal/ai/agent/sttgate.go.     *)
(* Frames are numbered, a frame's number is also its time (20 ms each).    *)
(* The ring buffer is kept as the code keeps it, with head and count.      *)
(* Why a frame counts as speech (VAD or loudness) is the environment's     *)
(* choice.                                                                 *)
(***************************************************************************)
EXTENDS Integers, Sequences

CONSTANTS
    Preroll,        \* frames of pre-roll, at least one
    Hangover,       \* frames the gate stays open after the last speech
    Keepalive,      \* frames without anything sent until a silent chunk goes out
    MaxGateFrames   \* bound: frames of the call

ASSUME GateAssumption ==
    /\ Preroll \in Nat \ {0} /\ Hangover \in Nat /\ Keepalive \in Nat \ {0}
    /\ MaxGateFrames \in Nat

VARIABLES
    frameNo,            \* frames taken so far
    ring, head, count,  \* the frames kept while closed
    gateOpen, lastVoiced, lastSent,
    fed,                \* what was sent: frame numbers, 0 for the silent chunk
    wanted              \* frames that must reach the STT: speech and its pre-roll

gateVars == <<frameNo, ring, head, count, gateOpen, lastVoiced, lastSent, fed, wanted>>

Never == -(Hangover + 1)    \* the zero time.Time
Smaller(a, b) == IF a < b THEN a ELSE b

\* push: the newest frame over the oldest.
PushFrame(f) ==
    /\ ring' = [ring EXCEPT ![head] = f]
    /\ head' = (head + 1) % Preroll
    /\ count' = Smaller(count + 1, Preroll)

\* sendPreroll: the frames kept, oldest first.
PrerollFrames == [i \in 1 .. count |-> ring[(head - count + i - 1 + Preroll) % Preroll]]

\* Speech, or no longer than the hangover since.
StillOpen(f, voiced) == gateOpen /\ (voiced \/ f - lastVoiced <= Hangover)

\* Mutant: the buffer is not emptied.
EmptiedNot == count
Emptied == 0

Send(frames, f) ==
    /\ fed' = fed \o frames
    /\ lastSent' = f

KeepaliveDue(f) == f - lastSent >= Keepalive

\* frame: one 20 ms frame.
GateFrame(voiced) ==
    /\ frameNo < MaxGateFrames
    /\ frameNo' = frameNo + 1
    /\ lastVoiced' = IF voiced THEN frameNo' ELSE lastVoiced
    /\ wanted' = IF voiced /\ ~gateOpen
                 THEN wanted \cup {n \in 1 .. frameNo' : n >= frameNo' - Preroll}
                 ELSE IF voiced THEN wanted \cup {frameNo'} ELSE wanted
    /\ \/ /\ StillOpen(frameNo', voiced)
          /\ gateOpen' = TRUE
          /\ Send(<<frameNo'>>, frameNo')
          /\ UNCHANGED <<ring, head, count>>
       \/ /\ ~StillOpen(frameNo', voiced) /\ voiced
          /\ gateOpen' = TRUE
          /\ Send(Append(PrerollFrames, frameNo'), frameNo')
          /\ count' = Emptied
          /\ UNCHANGED <<ring, head>>
       \/ /\ ~StillOpen(frameNo', voiced) /\ ~voiced
          /\ gateOpen' = FALSE
          /\ PushFrame(frameNo')
          /\ IF KeepaliveDue(frameNo') THEN Send(<<0>>, frameNo') ELSE UNCHANGED <<fed, lastSent>>

GateInit ==
    /\ frameNo = 0 /\ ring = [i \in 0 .. Preroll - 1 |-> 0] /\ head = 0 /\ count = 0
    /\ gateOpen = FALSE /\ lastVoiced = Never /\ lastSent = 0 /\ fed = <<>> /\ wanted = {}

GateNext == \E voiced \in BOOLEAN : GateFrame(voiced)
GateSpec == GateInit /\ [][GateNext]_gateVars

-----------------------------------------------------------------------------
\* What the STT hears is the caller's audio in order, no frame twice: the
\* pre-roll goes out ahead of the live frames and not again at the next opening.
FedInOrder == \A i, j \in DOMAIN fed : i < j /\ 0 \notin {fed[i], fed[j]} => fed[i] < fed[j]

\* "so the first syllable still arrives": every frame of speech, and the
\* pre-roll before the frame that opened the gate, was sent.
SpeechIsFed == \A n \in wanted : \E i \in DOMAIN fed : fed[i] = n

\* "but a short silent chunk goes out every gateKeepalive": the connection is
\* never left idle for longer.
KeptAlive == frameNo - lastSent < Keepalive

\* The STT gets all of the caller's speech, as it was spoken, on a live connection.
GateFeeds == SpeechIsFed /\ FedInOrder /\ KeptAlive
=============================================================================
