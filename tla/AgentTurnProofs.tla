--------------------------- MODULE AgentTurnProofs --------------------------
(***************************************************************************)
(* What holds of one call's conversation for any number of utterances,     *)
(* interruptions, sentences, tool rounds and connections.                  *)
(*                                                                         *)
(* Four arguments, each on top of the types.  CutFrames follows a cut      *)
(* reply: nothing of it is waiting to be played or replayed (CutIsFinal).  *)
(* PausedIsChecked, inductive by itself, follows a pause                   *)
(* (PauseIsLookedAfter).  TurnInv says, while there is no trouble, where   *)
(* the current reply is: in its LLM turn, at its client, in the queue, or  *)
(* delivered, and in only one of these states can it be finished.  From it *)
(* follow one turn at a time, the end of the call and the silence clock.   *)
(* HistInv, on top of that, follows the requests of the current reply from *)
(* the provider to the caller's ear: they are heard in order, so what      *)
(* recordReply writes is what was heard (HistoryIsHeard).                  *)
(***************************************************************************)
EXTENDS AgentTurn, SequenceTheorems, FiniteSetTheorems, TLAPS

SentenceSet == [gen : Nat, req : Nat]
Event ==
    [type : {"audio"}, gen : Nat, req : Nat] \cup [type : {"done"}, gen : Nat]
    \cup [type : {"closed"}, conn : Nat] \cup [type : PlainEvents]
    \cup [type : {"llmDone"}, gen : Nat, endCall : BOOLEAN]
    \cup [type : {"speech"}, started : BOOLEAN] \cup [type : {"transcript"}, kind : Kinds]
Client == [open : BOOLEAN, up : BOOLEAN, next : Nat, pending : Seq(SentenceSet), ended : SUBSET Nat]
Turn == [pc : TurnPcs, cancelled : BOOLEAN, said : Nat, round : Nat, endCall : BOOLEAN,
         conn : Nat, node : {"start", "end"}]

\* The types of TypeOK, without the bounds that the environment's limits give.
TypedStates ==
    /\ state \in {"Listening", "Transcribing", "Thinking", "Speaking"}
    /\ node \in {"start", "end"} /\ tick \in {"idle", "speaking", "empty"}
    /\ sigs \subseteq {"bargeIn", "playbackDone", "drainTimeout"}
    /\ run \in {"idle", "confirm", "unpause", "cut", "over"}
    /\ idleTimer \in {"off", "armed", "fired"} /\ resume \in {"off", "armed", "posted"}

TypedBits ==
    /\ paused \in BOOLEAN /\ silence \in BOOLEAN /\ ttsDeliveryDone \in BOOLEAN
    /\ closing \in BOOLEAN /\ hangupAfterTurn \in BOOLEAN /\ ending \in BOOLEAN
    /\ hungUp \in BOOLEAN /\ idleArmed \in BOOLEAN /\ callerSpeaking \in BOOLEAN

TypedNumbers ==
    /\ playing \in Nat /\ replay \in Nat /\ curGen \in Nat /\ tts \in Nat /\ ttsConn \in Nat
    /\ turnChunks \subseteq Nat /\ voiced \in Nat /\ idleCount \in Nat

TypedFrames ==
    /\ outbound \in Seq(SentenceSet) /\ sent \in SentenceSet
    /\ heard \subseteq [turn : Nat, gen : Nat, req : Nat] /\ recorded \subseteq SentenceSet
    /\ cut \subseteq Nat

Typed ==
    /\ TypedStates /\ TypedBits /\ TypedNumbers /\ TypedFrames
    /\ events \in Seq(Event) /\ conn \in [Conns -> Client] /\ turn \in [Gens -> Turn]

-----------------------------------------------------------------------------
\* The operators the model is built from.

\* Generations, requests and connections are numbers.
LEMMA Numbers ==
    /\ Gens \subseteq Nat /\ Conns \subseteq Nat \ {0}
    /\ MaxFaults \in Nat /\ MaxAsks \in Nat
BY AgentAssumption DEF AgentAssumption, Gens, Conns

\* What an event of each type carries.
LEMMA EventFields ==
    ASSUME NEW e \in Event
    PROVE  /\ e.type = "audio" => e.gen \in Nat /\ e.req \in Nat
           /\ e.type = "done" => e.gen \in Nat
           /\ e.type = "closed" => e.conn \in Nat
           /\ e.type = "llmDone" => e.gen \in Nat /\ e.endCall \in BOOLEAN
           /\ e.type = "speech" => e.started \in BOOLEAN
           /\ e.type = "idle" => e = Plain("idle")
           /\ e.type = "resume" => e = Plain("resume")
BY DEF Event, PlainEvents, Plain

\* The events that are posted are events.
LEMMA EventsAre ==
    /\ \A g, r \in Nat : Audio(g, r) \in Event
    /\ \A g \in Nat : Done(g) \in Event
    /\ \A c \in Nat : Closed(c) \in Event
    /\ \A g \in Nat, e \in BOOLEAN : LLMDone(g, e) \in Event
    /\ \A on \in BOOLEAN : Speech(on) \in Event
    /\ \A k \in Kinds : Transcript(k) \in Event
    /\ \A t \in PlainEvents : Plain(t) \in Event
BY DEF Event, Audio, Done, Closed, LLMDone, Speech, Transcript, Plain

\* Removing one element from a queue keeps the others, in their order.
LEMMA RemoveAtKeeps ==
    ASSUME NEW S, NEW q \in Seq(S), NEW k \in 1 .. Len(q)
    PROVE  /\ RemoveAt(q, k) \in Seq(S) /\ Len(RemoveAt(q, k)) = Len(q) - 1
           /\ \A i \in 1 .. Len(q) - 1 : RemoveAt(q, k)[i] = IF i < k THEN q[i] ELSE q[i + 1]
<1>1. Len(q) \in Nat /\ \A i \in 1 .. Len(q) : q[i] \in S
  BY LenProperties, ElementOfSeq
<1>. DEFINE a == SubSeq(q, 1, k - 1)
            b == SubSeq(q, k + 1, Len(q))
<1>2. a \in Seq(S) /\ Len(a) = k - 1 /\ \A i \in 1 .. k - 1 : a[i] = q[i]
  BY <1>1, SubSeqProperties, Z3
<1>3. b \in Seq(S) /\ Len(b) = Len(q) - k /\ \A i \in 1 .. Len(q) - k : b[i] = q[k + i]
  BY <1>1, SubSeqProperties, Z3
<1>4. RemoveAt(q, k) = a \o b
  BY DEF RemoveAt
<1>. HIDE DEF a, b
<1>5. /\ a \o b \in Seq(S) /\ Len(a \o b) = Len(a) + Len(b)
      /\ \A i \in 1 .. Len(a) + Len(b) : (a \o b)[i] = IF i <= Len(a) THEN a[i] ELSE b[i - Len(a)]
  BY <1>2, <1>3, ConcatProperties
<1>6. Len(a) + Len(b) = Len(q) - 1
  BY <1>1, <1>2, <1>3
<1>7. ASSUME NEW i \in 1 .. Len(q) - 1
      PROVE  (a \o b)[i] = IF i < k THEN q[i] ELSE q[i + 1]
  <2>1. CASE i < k
    BY <1>1, <1>2, <1>5, <1>6, <1>7, <2>1
  <2>2. CASE ~(i < k)
    <3>1. (a \o b)[i] = b[i - (k - 1)] /\ i - (k - 1) \in 1 .. Len(q) - k
      BY <1>1, <1>2, <1>5, <1>6, <1>7, <2>2
    <3>2. k + (i - (k - 1)) = i + 1
      BY <1>1, <1>7
    <3>. QED
      BY <1>3, <2>2, <3>1, <3>2
  <2>. QED
    BY <2>1, <2>2
<1>. QED
  BY <1>4, <1>5, <1>6, <1>7

\* How many places of a queue an element moves up when one is taken out, or put
\* in: the queue a is the queue b with elements left out.
Shorter(a, b) ==
    \E f \in [1 .. Len(a) -> 1 .. Len(b)] :
        /\ \A i \in 1 .. Len(a) : a[i] = b[f[i]]
        /\ \A i, j \in 1 .. Len(a) : i < j => f[i] < f[j]

\* A queue is itself with nothing left out.
LEMMA ShorterSame ==
    ASSUME NEW S, NEW q \in Seq(S)
    PROVE  Shorter(q, q)
<1>. DEFINE f == [i \in 1 .. Len(q) |-> i]
<1>1. f \in [1 .. Len(q) -> 1 .. Len(q)] /\ \A i \in 1 .. Len(q) : f[i] = i
  OBVIOUS
<1>. QED
  BY <1>1 DEF Shorter

\* Leaving elements out, and then more.
LEMMA ShorterTrans ==
    ASSUME NEW a, NEW b, NEW c, Shorter(a, b), Shorter(b, c)
    PROVE  Shorter(a, c)
<1>1. PICK f \in [1 .. Len(a) -> 1 .. Len(b)] :
        /\ \A i \in 1 .. Len(a) : a[i] = b[f[i]]
        /\ \A i, j \in 1 .. Len(a) : i < j => f[i] < f[j]
  BY DEF Shorter
<1>2. PICK g \in [1 .. Len(b) -> 1 .. Len(c)] :
        /\ \A i \in 1 .. Len(b) : b[i] = c[g[i]]
        /\ \A i, j \in 1 .. Len(b) : i < j => g[i] < g[j]
  BY DEF Shorter
<1>. DEFINE h == [i \in 1 .. Len(a) |-> g[f[i]]]
<1>3. h \in [1 .. Len(a) -> 1 .. Len(c)] /\ \A i \in 1 .. Len(a) : h[i] = g[f[i]]
  BY <1>1, <1>2
<1>. HIDE DEF h
<1>4. \A i \in 1 .. Len(a) : f[i] \in 1 .. Len(b)
  BY <1>1
<1>5. \A i \in 1 .. Len(a) : a[i] = c[h[i]]
  BY <1>1, <1>2, <1>3, <1>4
<1>6. \A i, j \in 1 .. Len(a) : i < j => h[i] < h[j]
  BY <1>1, <1>2, <1>3, <1>4
<1>. QED
  BY <1>3, <1>5, <1>6 DEF Shorter

\* Taking the first element off a queue.
LEMMA TailShorter ==
    ASSUME NEW S, NEW q \in Seq(S), q # <<>>
    PROVE  Tail(q) \in Seq(S) /\ Shorter(Tail(q), q) /\ Head(q) = q[1] /\ Head(q) \in Range(q)
<1>1. /\ Len(q) \in Nat \ {0} /\ Tail(q) \in Seq(S) /\ Len(Tail(q)) = Len(q) - 1 /\ Head(q) = q[1]
      /\ \A i \in 1 .. Len(Tail(q)) : Tail(q)[i] = q[i + 1]
  BY EmptySeq, HeadTailProperties
<1>. DEFINE f == [i \in 1 .. Len(q) - 1 |-> i + 1]
<1>2. f \in [1 .. Len(q) - 1 -> 1 .. Len(q)] /\ \A i \in 1 .. Len(q) - 1 : f[i] = i + 1
  BY <1>1
<1>. HIDE DEF f
<1>3. Shorter(Tail(q), q)
  <2>1. \A i \in 1 .. Len(Tail(q)) : Tail(q)[i] = q[f[i]]
    BY <1>1, <1>2
  <2>2. \A i, j \in 1 .. Len(Tail(q)) : i < j => f[i] < f[j]
    BY <1>1, <1>2
  <2>. QED
    BY <1>1, <1>2, <2>1, <2>2 DEF Shorter
<1>4. DOMAIN q = 1 .. Len(q)
  BY LenProperties
<1>. QED
  BY <1>1, <1>3, <1>4 DEF Range

\* Taking the event of one type out of a queue.
LEMMA WithoutShorter ==
    ASSUME NEW S, NEW q \in Seq(S), NEW type
    PROVE  Without(q, type) \in Seq(S) /\ Shorter(Without(q, type), q)
<1>1. CASE ~\E i \in 1 .. Len(q) : q[i].type = type
  BY <1>1, ShorterSame DEF Without
<1>2. CASE \E i \in 1 .. Len(q) : q[i].type = type
  <2>. DEFINE k == CHOOSE i \in 1 .. Len(q) : q[i].type = type
  <2>1. k \in 1 .. Len(q) /\ Without(q, type) = RemoveAt(q, k)
    BY <1>2 DEF Without
  <2>. HIDE DEF k
  <2>2. Len(q) \in Nat
    BY LenProperties
  <2>3. /\ RemoveAt(q, k) \in Seq(S) /\ Len(RemoveAt(q, k)) = Len(q) - 1
        /\ \A i \in 1 .. Len(q) - 1 : RemoveAt(q, k)[i] = IF i < k THEN q[i] ELSE q[i + 1]
    BY <2>1, RemoveAtKeeps
  <2>. DEFINE f == [i \in 1 .. Len(q) - 1 |-> IF i < k THEN i ELSE i + 1]
  <2>4. /\ f \in [1 .. Len(q) - 1 -> 1 .. Len(q)]
        /\ \A i \in 1 .. Len(q) - 1 : f[i] = IF i < k THEN i ELSE i + 1
    BY <2>1, <2>2
  <2>. HIDE DEF f
  <2>5. \A i \in 1 .. Len(q) - 1 : RemoveAt(q, k)[i] = q[f[i]]
    BY <2>3, <2>4
  <2>6. \A i, j \in 1 .. Len(q) - 1 : i < j => f[i] < f[j]
    BY <2>1, <2>2, <2>4
  <2>. QED
    BY <2>1, <2>3, <2>4, <2>5, <2>6 DEF Shorter
<1>. QED
  BY <1>1, <1>2

\* What the elements of a queue are once it has been shortened.
LEMMA ShorterRange ==
    ASSUME NEW S, NEW a \in Seq(S), NEW b \in Seq(S), Shorter(a, b)
    PROVE  Range(a) \subseteq Range(b)
<1>1. DOMAIN a = 1 .. Len(a) /\ DOMAIN b = 1 .. Len(b)
  BY LenProperties
<1>2. PICK f \in [1 .. Len(a) -> 1 .. Len(b)] : \A i \in 1 .. Len(a) : a[i] = b[f[i]]
  BY DEF Shorter
<1>. QED
  BY <1>1, <1>2 DEF Range

\* The elements of a queue of frames, or of events, are frames, or events.
LEMMA RangeTyped ==
    ASSUME NEW S, NEW q \in Seq(S)
    PROVE  Range(q) \subseteq S
BY LenProperties, ElementOfSeq DEF Range

\* What the elements of a queue are once one has been appended.
LEMMA AppendRange ==
    ASSUME NEW S, NEW q \in Seq(S), NEW e \in S
    PROVE  Append(q, e) \in Seq(S) /\ Range(Append(q, e)) = Range(q) \cup {e}
<1>1. /\ Append(q, e) \in Seq(S) /\ Len(Append(q, e)) = Len(q) + 1 /\ Append(q, e)[Len(q) + 1] = e
      /\ \A i \in 1 .. Len(q) : Append(q, e)[i] = q[i]
  BY AppendProperties
<1>2. DOMAIN q = 1 .. Len(q) /\ Len(q) \in Nat /\ DOMAIN Append(q, e) = 1 .. Len(q) + 1
  BY <1>1, LenProperties
<1>. QED
  BY <1>1, <1>2 DEF Range

\* The queue when readTTS has put d before its last event.
Overtaken(q, d) == SubSeq(q, 1, Len(q) - 1) \o <<d, q[Len(q)]>>

\* Its last two places have been swapped in, the others are as before.
LEMMA OvertakenShape ==
    ASSUME NEW S, NEW q \in Seq(S), q # <<>>, NEW d \in S
    PROVE  /\ Overtaken(q, d) \in Seq(S) /\ Len(Overtaken(q, d)) = Len(q) + 1
           /\ Overtaken(q, d)[Len(q)] = d /\ Overtaken(q, d)[Len(q) + 1] = q[Len(q)]
           /\ \A i \in 1 .. Len(q) : i # Len(q) => Overtaken(q, d)[i] = q[i]
<1>. DEFINE n == Len(q)
            a == SubSeq(q, 1, n - 1)
            b == <<d, q[n]>>
<1>1. n \in Nat \ {0} /\ \A i \in 1 .. n : q[i] \in S
  BY EmptySeq, LenProperties, ElementOfSeq
<1>2. a \in Seq(S) /\ Len(a) = n - 1 /\ \A i \in 1 .. n - 1 : a[i] = q[i]
  <2>. HIDE DEF n
  <2>1. n - 1 \in Int /\ \A i \in 1 .. n - 1 : q[i] \in S
    BY <1>1
  <2>2. a \in Seq(S) /\ Len(a) = (IF 1 <= n - 1 THEN (n - 1) - 1 + 1 ELSE 0)
        /\ \A i \in 1 .. (n - 1) - 1 + 1 : a[i] = q[1 + i - 1]
    BY <2>1, SubSeqProperties
  <2>. QED
    BY <1>1, <2>2
<1>3. b \in Seq(S) /\ Len(b) = 2 /\ b[1] = d /\ b[2] = q[n]
  BY <1>1
<1>. HIDE DEF a, b
<1>4. /\ a \o b \in Seq(S) /\ Len(a \o b) = Len(a) + Len(b)
      /\ \A i \in 1 .. Len(a) + Len(b) : (a \o b)[i] = IF i <= Len(a) THEN a[i] ELSE b[i - Len(a)]
  BY <1>2, <1>3, ConcatProperties
<1>. HIDE DEF n
<1>5. Len(a) + Len(b) = n + 1
  BY <1>1, <1>2, <1>3
<1>6. (a \o b)[n] = d /\ (a \o b)[n + 1] = q[n]
  BY <1>1, <1>2, <1>3, <1>4, <1>5
<1>7. \A i \in 1 .. n - 1 : (a \o b)[i] = q[i]
  BY <1>1, <1>2, <1>4, <1>5
<1>8. ASSUME NEW i \in 1 .. n, i # n
      PROVE  (a \o b)[i] = q[i]
  <2>1. i \in 1 .. n - 1
    BY <1>1, <1>8
  <2>. QED
    BY <1>7, <2>1
<1>. QED
  BY <1>4, <1>5, <1>6, <1>8 DEF a, b, n, Overtaken

\* Its elements are those of the queue, and d.
LEMMA OvertakenRange ==
    ASSUME NEW S, NEW q \in Seq(S), q # <<>>, NEW d \in S
    PROVE  Range(Overtaken(q, d)) = Range(q) \cup {d}
<1>. DEFINE r == Overtaken(q, d)
            n == Len(q)
<1>1. /\ r \in Seq(S) /\ Len(r) = n + 1 /\ r[n] = d /\ r[n + 1] = q[n]
      /\ \A i \in 1 .. n : i # n => r[i] = q[i]
  BY OvertakenShape
<1>2. n \in Nat /\ n # 0 /\ DOMAIN q = 1 .. n /\ DOMAIN r = 1 .. n + 1
  BY <1>1, LenProperties, EmptySeq
<1>. HIDE DEF n, r
<1>3. \A i \in 1 .. n : \E j \in 1 .. n + 1 : r[j] = q[i]
  BY <1>1, <1>2
<1>4. \A i \in 1 .. n + 1 : r[i] = d \/ \E j \in 1 .. n : q[j] = r[i]
  <2>. SUFFICES ASSUME NEW i \in 1 .. n + 1
                PROVE  r[i] = d \/ \E j \in 1 .. n : q[j] = r[i]
    OBVIOUS
  <2>1. (i \in 1 .. n /\ i # n) \/ i = n \/ i = n + 1
    BY <1>2
  <2>2. n \in 1 .. n
    BY <1>2
  <2>. QED
    BY <1>1, <2>1, <2>2
<1>5. \E j \in 1 .. n + 1 : r[j] = d
  BY <1>1, <1>2
<1>6. Range(q) = {q[i] : i \in 1 .. n} /\ Range(r) = {r[i] : i \in 1 .. n + 1}
  BY <1>2 DEF Range
<1>7. Range(r) = Range(q) \cup {d}
  BY <1>3, <1>4, <1>5, <1>6
<1>. QED
  BY <1>7 DEF r

\* What readTTS may forward for a generation: the queue with one Done more.
LEMMA ForwardRange ==
    ASSUME NEW q \in Seq(Event), NEW c, NEW g \in Nat, NEW r \in Forward(q, c, g)
    PROVE  r \in Seq(Event) /\ Range(q) \subseteq Range(r) /\ Range(r) \subseteq Range(q) \cup {Done(g)}
<1>1. PICK d \in Event : d = Done(g)
  BY EventsAre
<1>2. r = q \/ r = Append(q, d) \/ (q # <<>> /\ r = Overtaken(q, d))
  BY <1>1 DEF Forward, ForwardDone, Overtaken
<1>3. CASE r = Append(q, d)
  BY <1>1, <1>3, AppendRange
<1>4. CASE q # <<>> /\ r = Overtaken(q, d)
  <2>1. Overtaken(q, d) \in Seq(Event)
    BY <1>1, <1>4, OvertakenShape
  <2>2. Range(Overtaken(q, d)) = Range(q) \cup {d}
    BY <1>1, <1>4, OvertakenRange
  <2>. QED
    BY <1>1, <1>4, <2>1, <2>2
<1>. QED
  BY <1>2, <1>3, <1>4

\* The clients stay clients.
LEMMA ClientsTyped ==
    /\ NoConn \in Client /\ NewClient \in Client
    /\ \A c \in Client, g \in Nat : Speak(c, g) \in Client /\ Ended(c, g) \in Client
<1>1. NoConn \in Client /\ NewClient \in Client
  BY EmptySeq DEF NoConn, NewClient, Client
<1>2. ASSUME NEW c \in Client, NEW g \in Nat
      PROVE  Speak(c, g) \in Client
  <2>1. c.next \in Nat /\ c.pending \in Seq(SentenceSet)
    BY DEF Client
  <2>2. Sentence(g, c.next + 1) \in SentenceSet
    BY <2>1 DEF Sentence, SentenceSet
  <2>3. Append(c.pending, Sentence(g, c.next + 1)) \in Seq(SentenceSet)
    BY <2>1, <2>2, AppendProperties
  <2>. PICK p \in Seq(SentenceSet) : p = Append(c.pending, Sentence(g, c.next + 1))
    BY <2>3
  <2>. PICK n \in Nat : n = c.next + 1
    BY <2>1
  <2>4. [c EXCEPT !.next = n, !.pending = p] \in Client
    BY DEF Client
  <2>. QED
    BY <2>4 DEF Speak
<1>3. ASSUME NEW c \in Client, NEW g \in Nat
      PROVE  Ended(c, g) \in Client
  BY DEF Ended, Client
<1>. QED
  BY <1>1, <1>2, <1>3

\* cancelTurn marks at most one turn, the last one begun.
LEMMA CancelMarks ==
    ASSUME NEW t \in [Gens -> Turn]
    PROVE  /\ CancelTurn(t) \in [Gens -> Turn]
           /\ \A g \in Gens : CancelTurn(t)[g] = t[g] \/ CancelTurn(t)[g] = [t[g] EXCEPT !.cancelled = TRUE]
<1>. DEFINE m == Max({g \in Gens : t[g].pc # "none"})
<1>1. CancelTurn(t) = t \/ CancelTurn(t) = [t EXCEPT ![m].cancelled = TRUE]
  BY DEF CancelTurn
<1>. HIDE DEF m
<1>2. \A g \in Gens : [t[g] EXCEPT !.cancelled = TRUE] \in Turn
  <2>. SUFFICES ASSUME NEW g \in Gens
                PROVE  [t[g] EXCEPT !.cancelled = TRUE] \in Turn
    OBVIOUS
  <2>1. t[g] \in Turn
    OBVIOUS
  <2>. QED
    BY <2>1 DEF Turn
<1>3. CASE CancelTurn(t) = [t EXCEPT ![m].cancelled = TRUE]
  <2>1. \A g \in Gens : CancelTurn(t)[g] = IF g = m THEN [t[g] EXCEPT !.cancelled = TRUE] ELSE t[g]
    BY <1>3
  <2>. QED
    BY <1>2, <1>3, <2>1
<1>. QED
  BY <1>1, <1>3

\* A turn that begins.
LEMMA NewTurnTyped ==
    ASSUME Typed, NEW c \in Nat
    PROVE  NewTurn(c) \in Turn /\ OverTurn \in Turn /\ NoTurn \in Turn
BY DEF NewTurn, OverTurn, NoTurn, Turn, TurnPcs, Typed, TypedStates, TypedBits

\* What startTurn leaves, whether or not the connection can be opened.
LEMMA StartTurnTyped ==
    ASSUME Typed, NEW g \in Nat, NEW q \in Seq(Event), NEW c \in Nat, NEW cs \in [Conns -> Client],
           NEW t \in [Gens -> Turn], StartTurn(g, q, c, cs, t)
    PROVE  /\ idleTimer' = "off" /\ events' = Without(q, "idle") /\ events' \in Seq(Event)
           /\ curGen' = g /\ turnChunks' = {} /\ hangupAfterTurn' = FALSE /\ playing' = 0
           /\ state' \in {"Thinking", "Listening"}
           /\ tts' \in Nat /\ ttsConn' \in Nat /\ conn' \in [Conns -> Client] /\ turn' \in [Gens -> Turn]
<1>1. ttsConn \in Nat
  BY DEF Typed, TypedNumbers
<1>2. events' \in Seq(Event)
  BY WithoutShorter DEF StartTurn, StopIdleTimer
<1>3. /\ tts' \in Nat /\ ttsConn' \in Nat /\ state' \in {"Thinking", "Listening"}
      /\ conn' \in [Conns -> Client]
  <2>1. CASE OpenFails(c, cs, 0)
    BY <1>1, <2>1 DEF OpenFails
  <2>2. CASE OpenSucceeds(c, cs, NewClient)
    <3>. PICK f \in Client : f = NewClient
      BY ClientsTyped
    <3>1. [cs EXCEPT ![ttsConn + 1] = f] \in [Conns -> Client]
      OBVIOUS
    <3>. QED
      BY <1>1, <2>2, <3>1 DEF OpenSucceeds
  <2>. QED
    BY <2>1, <2>2 DEF StartTurn, OpenTTS
<1>4. turn' \in [Gens -> Turn]
  BY <1>3, NewTurnTyped DEF StartTurn
<1>. QED
  BY <1>2, <1>3, <1>4 DEF StartTurn, StopIdleTimer

\* What finishTurn leaves.
LEMMA FinishTurnTyped ==
    ASSUME Typed, NEW q \in Seq(Event), NEW c \in Nat, NEW t \in [Gens -> Turn], FinishTurn(q, c, t)
    PROVE  /\ idleTimer' \in {"off", "armed", "fired"} /\ events' \in Seq(Event)
           /\ curGen' \in Nat /\ turnChunks' = {} /\ hangupAfterTurn' \in BOOLEAN /\ playing' \in Nat
           /\ state' \in {"Listening", "Transcribing", "Thinking"} /\ idleArmed' \in BOOLEAN
           /\ hungUp' \in BOOLEAN /\ idleCount' \in Nat /\ recorded' = Recorded(TRUE)
           /\ tts' \in Nat /\ ttsConn' \in Nat /\ conn' \in [Conns -> Client] /\ turn' \in [Gens -> Turn]
<1>. USE DEF Typed, TypedStates, TypedBits, TypedNumbers
<1>1. CASE hangupAfterTurn \/ ending
  BY <1>1 DEF FinishTurn, idleVars
<1>2. CASE StartTurn(curGen + 1, q, c, conn, t) /\ idleCount' = 0 /\ UNCHANGED <<hungUp, idleArmed>>
  <2>1. curGen + 1 \in Nat /\ conn \in [Conns -> Client]
    OBVIOUS
  <2>2. /\ idleTimer' = "off" /\ events' \in Seq(Event)
        /\ curGen' = curGen + 1 /\ turnChunks' = {} /\ hangupAfterTurn' = FALSE /\ playing' = 0
        /\ state' \in {"Thinking", "Listening"}
        /\ tts' \in Nat /\ ttsConn' \in Nat /\ conn' \in [Conns -> Client] /\ turn' \in [Gens -> Turn]
    BY <1>2, <2>1, StartTurnTyped
  <2>3. recorded' = Recorded(TRUE)
    BY DEF FinishTurn
  <2>. QED
    BY <1>2, <2>1, <2>2, <2>3
<1>3. CASE /\ StartIdleTimer(q) /\ idleArmed' = TRUE
           /\ state' = IF state \in {"Speaking", "Thinking"} THEN "Listening" ELSE state
           /\ turnChunks' = {} /\ tts' = c /\ turn' = t
           /\ UNCHANGED <<curGen, playing, hangupAfterTurn, hungUp, idleCount, ttsConn, conn, faults>>
  <2>1. events' \in Seq(Event)
    BY <1>3, WithoutShorter DEF StartIdleTimer
  <2>. QED
    BY <1>3, <2>1 DEF FinishTurn, StartIdleTimer
<1>. QED
  BY <1>1, <1>2, <1>3 DEF FinishTurn

-----------------------------------------------------------------------------
\* Types.

\* The frame taken from the queue is a frame.
LEMMA FrameTaken ==
    ASSUME Typed
    PROVE  /\ outbound # <<>> => Head(outbound) \in SentenceSet /\ Tail(outbound) \in Seq(SentenceSet)
           /\ events # <<>> => Head(events) \in Event /\ Tail(events) \in Seq(Event)
BY HeadTailProperties DEF Typed, TypedFrames

\* ProcessFrame keeps the types.
LEMMA TypedFrame ==
    ASSUME Typed, Frame
    PROVE  Typed'
<1>. USE DEF TickOnly, endVars, idleVars, ttsVars, llmVars, runVars
<1>1. CASE ReadState
  <2>1. TypedStates' /\ TypedBits'
    BY <1>1 DEF ReadState, Typed, TypedStates, TypedBits
  <2>2. TypedNumbers'
    BY <1>1 DEF ReadState, Typed, TypedNumbers
  <2>3. TypedFrames'
    BY <1>1 DEF ReadState, Typed, TypedNumbers, TypedFrames, SentenceSet
  <2>. QED
    BY <1>1, <2>1, <2>2, <2>3 DEF ReadState, Typed
<1>2. CASE TickEnds
  <2>1. TypedStates' /\ TypedBits'
    BY <1>2 DEF TickEnds, Typed, TypedStates, TypedBits
  <2>2. TypedNumbers'
    BY <1>2 DEF TickEnds, Typed, TypedNumbers
  <2>3. TypedFrames'
    BY <1>2 DEF TickEnds, Typed, TypedNumbers, TypedFrames, SentenceSet
  <2>. QED
    BY <1>2, <2>1, <2>2, <2>3 DEF TickEnds, Typed
<1>3. CASE DetectBargeIn
  <2>1. TypedStates' /\ TypedBits'
    BY <1>3 DEF DetectBargeIn, Typed, TypedStates, TypedBits
  <2>2. TypedNumbers'
    BY <1>3 DEF DetectBargeIn, Typed, TypedNumbers
  <2>3. TypedFrames'
    BY <1>3 DEF DetectBargeIn, Typed, TypedNumbers, TypedFrames, SentenceSet
  <2>. QED
    BY <1>3, <2>1, <2>2, <2>3 DEF DetectBargeIn, Typed
<1>4. CASE ReplaySentence
  <2>1. TypedStates' /\ TypedBits'
    BY <1>4 DEF ReplaySentence, Typed, TypedStates, TypedBits
  <2>2. TypedNumbers'
    BY <1>4 DEF ReplaySentence, Typed, TypedNumbers
  <2>3. TypedFrames'
    BY <1>4 DEF ReplaySentence, Typed, TypedNumbers, TypedFrames, SentenceSet
  <2>. QED
    BY <1>4, <2>1, <2>2, <2>3 DEF ReplaySentence, Typed
<1>5. CASE PlayFrame
  <2>1. TypedStates' /\ TypedBits'
    BY <1>5 DEF PlayFrame, Typed, TypedStates, TypedBits
  <2>2. TypedNumbers'
    BY <1>5, FrameTaken DEF PlayFrame, Typed, TypedNumbers, SentenceSet
  <2>3. TypedFrames'
    <3>1. PICK f \in SentenceSet : f = Head(outbound) /\ Tail(outbound) \in Seq(SentenceSet)
      BY <1>5, FrameTaken DEF PlayFrame
    <3>2. [turn |-> curGen, gen |-> f.gen, req |-> f.req] \in [turn : Nat, gen : Nat, req : Nat]
      BY DEF SentenceSet, Typed, TypedNumbers
    <3>3. heard' = heard \cup {[turn |-> curGen, gen |-> f.gen, req |-> f.req]} /\ sent' = f
          /\ outbound' = Tail(outbound)
      BY <1>5, <3>1 DEF PlayFrame
    <3>. QED
      BY <1>5, <3>1, <3>2, <3>3 DEF PlayFrame, Typed, TypedFrames
  <2>. QED
    BY <1>5, <2>1, <2>2, <2>3 DEF PlayFrame, Typed
<1>6. CASE FindEmpty
  <2>1. TypedStates' /\ TypedBits'
    BY <1>6 DEF FindEmpty, Typed, TypedStates, TypedBits
  <2>2. TypedNumbers'
    BY <1>6 DEF FindEmpty, Typed, TypedNumbers
  <2>3. TypedFrames'
    BY <1>6 DEF FindEmpty, Typed, TypedNumbers, TypedFrames, SentenceSet
  <2>. QED
    BY <1>6, <2>1, <2>2, <2>3 DEF FindEmpty, Typed
<1>7. CASE PlaybackDone
  <2>4. ttsDeliveryDone' \in BOOLEAN /\ sigs' = sigs \cup {"playbackDone"} /\ tick' = "idle"
    BY <1>7 DEF PlaybackDone
  <2>5. UNCHANGED <<state, paused, silence, endVars, idleVars, node, resume, callerSpeaking, run>>
    BY <1>7 DEF PlaybackDone
  <2>1. TypedStates' /\ TypedBits'
    BY <2>4, <2>5 DEF Typed, TypedStates, TypedBits
  <2>2. TypedNumbers'
    BY <1>7 DEF PlaybackDone, Typed, TypedNumbers
  <2>3. TypedFrames'
    BY <1>7 DEF PlaybackDone, Typed, TypedNumbers, TypedFrames, SentenceSet
  <2>. QED
    BY <1>7, <2>1, <2>2, <2>3 DEF PlaybackDone, Typed
<1>8. CASE DrainTimeout
  <2>1. TypedStates' /\ TypedBits'
    BY <1>8 DEF DrainTimeout, Typed, TypedStates, TypedBits
  <2>2. TypedNumbers'
    BY <1>8 DEF DrainTimeout, Typed, TypedNumbers
  <2>3. TypedFrames'
    BY <1>8 DEF DrainTimeout, Typed, TypedNumbers, TypedFrames, SentenceSet
  <2>. QED
    BY <1>8, <2>1, <2>2, <2>3 DEF DrainTimeout, Typed
<1>. QED
  BY <1>1, <1>2, <1>3, <1>4, <1>5, <1>6, <1>7, <1>8 DEF Frame

\* The caller and the timers keep the types.
LEMMA TypedCaller ==
    ASSUME Typed, Caller
    PROVE  Typed'
<1>. USE DEF CallerOnly, frameVars, endVars, ttsVars, llmVars, ghostVars, runVars
<1>0. \A e \in Event : Append(events, e) \in Seq(Event)
  BY AppendRange DEF Typed
<1>1. CASE CallerStarts
  <2>1. TypedStates' /\ TypedBits' /\ TypedNumbers' /\ TypedFrames'
    BY <1>1 DEF CallerStarts, Typed, TypedStates, TypedBits, TypedNumbers, TypedFrames
  <2>2. events' \in Seq(Event)
    BY <1>0, <1>1, EventsAre DEF CallerStarts, Typed, PlainEvents
  <2>. QED
    BY <1>1, <2>1, <2>2 DEF CallerStarts, Typed
<1>2. CASE CallerStops
  <2>1. TypedStates' /\ TypedBits' /\ TypedNumbers' /\ TypedFrames'
    BY <1>2 DEF CallerStops, Typed, TypedStates, TypedBits, TypedNumbers, TypedFrames
  <2>2. events' \in Seq(Event)
    BY <1>0, <1>2, EventsAre DEF CallerStops, Typed, PlainEvents
  <2>. QED
    BY <1>2, <2>1, <2>2 DEF CallerStops, Typed
<1>3. ASSUME NEW k \in Kinds, CallerSaid(k)
      PROVE  Typed'
  <2>1. TypedStates' /\ TypedBits' /\ TypedNumbers' /\ TypedFrames'
    BY <1>3 DEF CallerSaid, Typed, TypedStates, TypedBits, TypedNumbers, TypedFrames
  <2>2. events' \in Seq(Event)
    BY <1>0, <1>3, EventsAre DEF CallerSaid, Typed, PlainEvents
  <2>. QED
    BY <1>3, <2>1, <2>2 DEF CallerSaid, Typed
<1>4. CASE CallerMadeNoise
  <2>1. TypedStates' /\ TypedBits' /\ TypedNumbers' /\ TypedFrames'
    BY <1>4 DEF CallerMadeNoise, Typed, TypedStates, TypedBits, TypedNumbers, TypedFrames
  <2>2. events' \in Seq(Event)
    BY <1>0, <1>4, EventsAre DEF CallerMadeNoise, Typed, PlainEvents
  <2>. QED
    BY <1>4, <2>1, <2>2 DEF CallerMadeNoise, Typed
<1>5. CASE SilenceOver
  <2>4. silence' \in BOOLEAN
    BY <1>5 DEF SilenceOver
  <2>5. /\ UNCHANGED <<state, paused, ttsDeliveryDone, closing, node, outbound, playing, replay, sigs>>
        /\ UNCHANGED <<sent, tick, run, curGen, turnChunks, voiced, hangupAfterTurn, ending, hungUp>>
        /\ UNCHANGED <<tts, ttsConn, idleTimer, idleArmed, idleCount, resume, callerSpeaking, ghostVars>>
    BY <1>5 DEF SilenceOver
  <2>1. TypedStates' /\ TypedBits' /\ TypedNumbers' /\ TypedFrames'
    BY <2>4, <2>5 DEF Typed, TypedStates, TypedBits, TypedNumbers, TypedFrames
  <2>2. events' \in Seq(Event)
    BY <1>0, <1>5, EventsAre DEF SilenceOver, Typed, PlainEvents
  <2>. QED
    BY <1>5, <2>1, <2>2 DEF SilenceOver, Typed
<1>6. CASE IdleFires
  <2>1. TypedStates' /\ TypedBits' /\ TypedNumbers' /\ TypedFrames'
    BY <1>6 DEF IdleFires, Typed, TypedStates, TypedBits, TypedNumbers, TypedFrames
  <2>2. events' \in Seq(Event)
    BY <1>0, <1>6, EventsAre DEF IdleFires, Typed, PlainEvents
  <2>. QED
    BY <1>6, <2>1, <2>2 DEF IdleFires, Typed
<1>7. CASE ResumeFires
  <2>1. TypedStates' /\ TypedBits' /\ TypedNumbers' /\ TypedFrames'
    BY <1>7 DEF ResumeFires, Typed, TypedStates, TypedBits, TypedNumbers, TypedFrames
  <2>2. events' \in Seq(Event)
    BY <1>0, <1>7, EventsAre DEF ResumeFires, Typed, PlainEvents
  <2>. QED
    BY <1>7, <2>1, <2>2 DEF ResumeFires, Typed
<1>8. CASE MaxDurationFires
  <2>1. TypedStates' /\ TypedBits' /\ TypedNumbers' /\ TypedFrames'
    BY <1>8 DEF MaxDurationFires, Typed, TypedStates, TypedBits, TypedNumbers, TypedFrames
  <2>2. events' \in Seq(Event)
    BY <1>0, <1>8, EventsAre DEF MaxDurationFires, Typed, PlainEvents
  <2>. QED
    BY <1>8, <2>1, <2>2 DEF MaxDurationFires, Typed
<1>. QED
  BY <1>1, <1>2, <1>3, <1>4, <1>5, <1>6, <1>7, <1>8 DEF Caller

\* The LLM's turns keep the types.
LEMMA TypedLLM ==
    ASSUME Typed, NEW g \in Gens, LLM(g)
    PROVE  Typed'
<1>. USE DEF LLMOnly, frameVars, endVars, idleVars, pauseVars, ghostVars, runVars
<1>0. g \in Nat /\ turn[g] \in Turn /\ \A x \in Event : Append(events, x) \in Seq(Event)
  BY Numbers, AppendRange DEF Typed
<1>10. SendToTTS(g) => conn' \in [Conns -> Client]
  <2>1. \A c \in Conns : Speak(conn[c], g) \in Client
    BY <1>0, ClientsTyped DEF Typed
  <2>. QED
    BY <2>1 DEF SendToTTS, Typed
<1>11. \A t \in Turn : [turn EXCEPT ![g] = t] \in [Gens -> Turn]
  BY DEF Typed
<1>12. OverTurn \in Turn
  BY NewTurnTyped
<1>1. CASE LLMSays(g)
  <2>1. TypedStates' /\ TypedBits' /\ TypedNumbers' /\ TypedFrames'
    BY <1>1 DEF LLMSays, Typed, TypedStates, TypedBits, TypedNumbers, TypedFrames
  <2>2. events' \in Seq(Event)
    BY <1>0, <1>1, EventsAre DEF LLMSays, Typed, PlainEvents, Turn
  <2>3. conn' \in [Conns -> Client]
    BY <1>10, <1>1 DEF LLMSays, Typed
  <2>4. turn' \in [Gens -> Turn]
    <3>. PICK n \in Nat : n = turn[g].said + 1
      BY <1>0 DEF Turn
    <3>1. [turn[g] EXCEPT !.said = n] \in Turn
      BY <1>0 DEF Turn
    <3>. QED
      BY <1>1, <1>11, <3>1 DEF LLMSays, Typed
  <2>. QED
    BY <2>1, <2>2, <2>3, <2>4 DEF Typed
<1>2. CASE LLMCancelled(g)
  <2>1. TypedStates' /\ TypedBits' /\ TypedNumbers' /\ TypedFrames'
    BY <1>2 DEF LLMCancelled, Typed, TypedStates, TypedBits, TypedNumbers, TypedFrames
  <2>2. events' \in Seq(Event)
    BY <1>0, <1>2, EventsAre DEF LLMCancelled, Typed, PlainEvents, Turn
  <2>3. conn' \in [Conns -> Client]
    BY <1>10, <1>2 DEF LLMCancelled, Typed
  <2>4. turn' \in [Gens -> Turn]
    BY <1>0, <1>11, <1>12, <1>2 DEF LLMCancelled, Typed, Turn, TurnPcs
  <2>. QED
    BY <2>1, <2>2, <2>3, <2>4 DEF Typed
<1>3. CASE LLMCompletes(g)
  <2>1. TypedStates' /\ TypedBits' /\ TypedNumbers' /\ TypedFrames'
    BY <1>3 DEF LLMCompletes, Typed, TypedStates, TypedBits, TypedNumbers, TypedFrames
  <2>2. events' \in Seq(Event)
    BY <1>0, <1>3, EventsAre DEF LLMCompletes, Typed, PlainEvents, Turn
  <2>3. conn' \in [Conns -> Client]
    BY <1>10, <1>3 DEF LLMCompletes, Typed
  <2>4. turn' \in [Gens -> Turn]
    BY <1>0, <1>11, <1>12, <1>3 DEF LLMCompletes, Typed, Turn, TurnPcs
  <2>. QED
    BY <2>1, <2>2, <2>3, <2>4 DEF Typed
<1>4. CASE LLMFails(g)
  <2>1. TypedStates' /\ TypedBits' /\ TypedNumbers' /\ TypedFrames'
    BY <1>4 DEF LLMFails, Typed, TypedStates, TypedBits, TypedNumbers, TypedFrames
  <2>2. events' \in Seq(Event)
    BY <1>0, <1>4, EventsAre DEF LLMFails, Typed, PlainEvents, Turn
  <2>3. conn' \in [Conns -> Client]
    BY <1>10, <1>4 DEF LLMFails, Typed
  <2>4. turn' \in [Gens -> Turn]
    <3>1. PICK b \in BOOLEAN : turn' = [turn EXCEPT ![g] = [turn[g] EXCEPT !.pc = "post", !.endCall = b]]
      <4>1. turn[g].endCall \in BOOLEAN /\ (turn[g].endCall \/ (MaxFailedTurns > 0 /\ failures' >= MaxFailedTurns)) \in BOOLEAN
        BY <1>0 DEF Turn
      <4>3. \/ turn' = [turn EXCEPT ![g] = [turn[g] EXCEPT !.pc = "post", !.endCall =
                            turn[g].endCall \/ (MaxFailedTurns > 0 /\ failures' >= MaxFailedTurns)]]
            \/ turn' = [turn EXCEPT ![g] = [turn[g] EXCEPT !.pc = "post"]]
        BY <1>4 DEF LLMFails, Typed
      <4>4. [turn[g] EXCEPT !.pc = "post"] = [turn[g] EXCEPT !.pc = "post", !.endCall = turn[g].endCall]
        BY <1>0 DEF Turn
      <4>. QED
        BY <4>1, <4>3, <4>4
    <3>2. [turn[g] EXCEPT !.pc = "post", !.endCall = b] \in Turn
      BY <1>0 DEF Turn, TurnPcs
    <3>. QED
      BY <1>11, <3>1, <3>2
  <2>. QED
    BY <2>1, <2>2, <2>3, <2>4 DEF Typed
<1>5. ASSUME NEW tool \in Tools, LLMCalls(g, tool)
      PROVE  Typed'
  <2>1. TypedStates' /\ TypedBits' /\ TypedNumbers' /\ TypedFrames'
    BY <1>5 DEF LLMCalls, Typed, TypedStates, TypedBits, TypedNumbers, TypedFrames
  <2>2. events' \in Seq(Event)
    BY <1>0, <1>5, EventsAre DEF LLMCalls, Typed, PlainEvents, Turn
  <2>3. conn' \in [Conns -> Client]
    BY <1>10, <1>5 DEF LLMCalls, Typed
  <2>4. turn' \in [Gens -> Turn]
    <3>. PICK n \in Nat : n = turn[g].round + 1
      BY <1>0 DEF Turn
    <3>0. tool \in TurnPcs
      BY AgentAssumption DEF AgentAssumption, TurnPcs
    <3>1. [turn[g] EXCEPT !.round = n, !.pc = tool] \in Turn
      BY <1>0, <3>0 DEF Turn
    <3>2. turn' = [turn EXCEPT ![g] = [turn[g] EXCEPT !.round = n, !.pc = tool]]
      BY <1>5 DEF LLMCalls, Typed
    <3>. QED
      BY <1>11, <3>1, <3>2
  <2>. QED
    BY <2>1, <2>2, <2>3, <2>4 DEF Typed
<1>6. CASE CallReturns(g)
  <2>1. TypedStates' /\ TypedBits' /\ TypedNumbers' /\ TypedFrames'
    BY <1>6 DEF CallReturns, Typed, TypedStates, TypedBits, TypedNumbers, TypedFrames
  <2>2. events' \in Seq(Event)
    BY <1>0, <1>6, EventsAre DEF CallReturns, Typed, PlainEvents, Turn
  <2>3. conn' \in [Conns -> Client]
    BY <1>10, <1>6 DEF CallReturns, Typed
  <2>4. turn' \in [Gens -> Turn]
    BY <1>0, <1>11, <1>12, <1>6 DEF CallReturns, Typed, Turn, TurnPcs
  <2>. QED
    BY <2>1, <2>2, <2>3, <2>4 DEF Typed
<1>7. CASE AfterCalls(g)
  <2>1. TypedStates' /\ TypedBits' /\ TypedNumbers' /\ TypedFrames'
    BY <1>7 DEF AfterCalls, Typed, TypedStates, TypedBits, TypedNumbers, TypedFrames
  <2>2. events' \in Seq(Event)
    BY <1>0, <1>7, EventsAre DEF AfterCalls, Typed, PlainEvents, Turn
  <2>3. conn' \in [Conns -> Client]
    BY <1>10, <1>7 DEF AfterCalls, Typed
  <2>4. turn' \in [Gens -> Turn]
    <3>1. \A p \in TurnPcs : [turn[g] EXCEPT !.pc = p] \in Turn
      BY <1>0 DEF Turn
    <3>2. "post" \in TurnPcs /\ "stream" \in TurnPcs
      BY DEF TurnPcs
    <3>3. CASE turn[g].cancelled
      BY <1>7, <1>11, <1>12, <3>3 DEF AfterCalls
    <3>4. CASE ~turn[g].cancelled /\ turn[g].endCall
      BY <1>7, <1>11, <3>1, <3>2, <3>4 DEF AfterCalls, Typed
    <3>5. CASE ~turn[g].cancelled /\ ~turn[g].endCall
      BY <1>7, <1>11, <3>1, <3>2, <3>5 DEF AfterCalls, Typed
    <3>. QED
      BY <3>3, <3>4, <3>5
  <2>. QED
    BY <2>1, <2>2, <2>3, <2>4 DEF Typed
<1>8. CASE LLMPosts(g)
  <2>1. TypedStates' /\ TypedBits' /\ TypedNumbers' /\ TypedFrames'
    BY <1>8 DEF LLMPosts, Typed, TypedStates, TypedBits, TypedNumbers, TypedFrames
  <2>2. events' \in Seq(Event)
    BY <1>0, <1>8, EventsAre DEF LLMPosts, Typed, PlainEvents, Turn
  <2>3. conn' \in [Conns -> Client]
    BY <1>10, <1>8 DEF LLMPosts, Typed
  <2>4. turn' \in [Gens -> Turn]
    BY <1>0, <1>11, <1>12, <1>8 DEF LLMPosts, Typed, Turn, TurnPcs
  <2>. QED
    BY <2>1, <2>2, <2>3, <2>4 DEF Typed
<1>9. CASE LLMEndsGeneration(g)
  <2>1. TypedStates' /\ TypedBits' /\ TypedNumbers' /\ TypedFrames'
    BY <1>9 DEF LLMEndsGeneration, Typed, TypedStates, TypedBits, TypedNumbers, TypedFrames
  <2>2. events' \in Seq(Event)
    BY <1>0, <1>9, ForwardRange DEF LLMEndsGeneration, Typed
  <2>3. conn' \in [Conns -> Client]
    <3>1. \A c \in Conns : Ended(conn[c], g) \in Client
      BY <1>0, ClientsTyped DEF Typed
    <3>. QED
      BY <1>9, <3>1 DEF LLMEndsGeneration, Typed
  <2>4. turn' \in [Gens -> Turn]
    BY <1>0, <1>11, <1>12, <1>9 DEF LLMEndsGeneration, Typed, Turn, TurnPcs
  <2>. QED
    BY <2>1, <2>2, <2>3, <2>4 DEF Typed
<1>. QED
  BY <1>1, <1>2, <1>3, <1>4, <1>5, <1>6, <1>7, <1>8, <1>9 DEF LLM

\* The provider keeps the types.
LEMMA TypedProvider ==
    ASSUME Typed, NEW c \in Conns, Provider(c)
    PROVE  Typed'
<1>. USE DEF pauseVars, frameVars, endVars, idleVars, llmVars, ghostVars, runVars
<1>0. conn[c] \in Client /\ c \in Nat /\ NoConn \in Client /\ \A x \in Event : Append(events, x) \in Seq(Event)
  BY Numbers, ClientsTyped, AppendRange DEF Typed
<1>1. ASSUME NEW audio \in BOOLEAN, Synthesize(c, audio)
      PROVE  Typed'
  <2>1. TypedStates' /\ TypedBits' /\ TypedNumbers' /\ TypedFrames'
    BY <1>1 DEF Synthesize, Typed, TypedStates, TypedBits, TypedNumbers, TypedFrames
  <2>2. conn[c].pending \in Seq(SentenceSet) /\ conn[c].pending # <<>>
    BY <1>0, <1>1 DEF Synthesize, Client
  <2>3. PICK p \in SentenceSet, rest \in Seq(SentenceSet) :
          p = Head(conn[c].pending) /\ rest = Tail(conn[c].pending)
    BY <2>2, HeadTailProperties
  <2>4. p.gen \in Nat /\ p.req \in Nat
    BY DEF SentenceSet
  <2>5. [conn[c] EXCEPT !.pending = rest] \in Client
    BY <1>0 DEF Client
  <2>6. conn' \in [Conns -> Client]
    BY <1>1, <2>3, <2>5 DEF Synthesize, Typed
  <2>7. \E q \in Seq(Event) : \E x : events' \in Forward(q, x, p.gen)
    <3>1. Append(events, Audio(p.gen, p.req)) \in Seq(Event) /\ events \in Seq(Event)
      BY <1>0, <2>4, EventsAre DEF Typed
    <3>. QED
      BY <1>1, <2>3, <3>1 DEF Synthesize
  <2>8. events' \in Seq(Event)
    BY <2>4, <2>7, ForwardRange
  <2>9. turn' = turn
    BY <1>1 DEF Synthesize
  <2>. QED
    BY <2>1, <2>6, <2>8, <2>9 DEF Typed
<1>2. CASE ConnectionGone(c)
  <2>1. TypedStates' /\ TypedBits' /\ TypedNumbers' /\ TypedFrames'
    BY <1>2 DEF ConnectionGone, Typed, TypedStates, TypedBits, TypedNumbers, TypedFrames
  <2>2. events' \in Seq(Event)
    BY <1>0, <1>2, EventsAre DEF ConnectionGone
  <2>. QED
    BY <1>0, <1>2, <2>1, <2>2 DEF ConnectionGone, Typed
<1>. QED
  BY <1>1, <1>2 DEF Provider

\* What history holds after recordReply are sentences.
LEMMA RecordedTyped ==
    ASSUME Typed, NEW whole \in BOOLEAN
    PROVE  Recorded(whole) \subseteq SentenceSet
BY DEF Recorded, Typed, TypedNumbers, TypedFrames, SentenceSet, Sentence

\* The handlers of run() keep the types.
LEMMA TypedHandler ==
    ASSUME Typed, Handler
    PROVE  Typed'
<1>. USE DEF pauseVars, frameVars, endVars, idleVars, ttsVars, llmVars, envVars, ghostVars, runVars,
             HandlerUnchanged, TranscriptUnchanged, ResumeUnchanged, Transcribed, Next1
<1>100. /\ events \in Seq(Event) /\ \A type : Without(events, type) \in Seq(Event)
        /\ events # <<>> => Head(events) \in Event /\ q1 \in Seq(Event)
        /\ events # <<>> => \A type : Without(q1, type) \in Seq(Event)
  BY FrameTaken, WithoutShorter DEF Typed, q1
<1>101. curGen + 1 \in Nat /\ curGen + 2 \in Nat /\ tts \in Nat
  BY DEF Typed, TypedNumbers
<1>102. CancelTurn(turn) \in [Gens -> Turn] /\ turn \in [Gens -> Turn] /\ conn \in [Conns -> Client]
  BY CancelMarks DEF Typed
<1>1. CASE HandleGreeting
  <2>1. /\ tts' \in Nat /\ ttsConn' \in Nat /\ conn' \in [Conns -> Client] /\ state' \in {"Thinking", "Listening"}
    <3>1. PICK x \in Client : x = Ended(Speak(NewClient, curGen + 1), curGen + 1)
      BY <1>101, ClientsTyped
    <3>2. [conn EXCEPT ![ttsConn + 1] = x] \in [Conns -> Client] /\ ttsConn \in Nat
      BY <1>102 DEF Typed, TypedNumbers
    <3>. QED
      BY <1>1, <1>101, <1>102, <3>1, <3>2 DEF HandleGreeting, OpenTTS, OpenSucceeds, OpenFails
  <2>3. TypedStates'
    BY <1>1, <2>1 DEF HandleGreeting, Typed, TypedStates
  <2>4. TypedBits'
    BY <1>1, <2>1 DEF HandleGreeting, Typed, TypedBits
  <2>5. TypedNumbers'
    BY <1>101, <1>1, <2>1 DEF HandleGreeting, Typed, TypedNumbers
  <2>6. TypedFrames'
    BY <1>1, <2>1 DEF HandleGreeting, Typed, TypedFrames
  <2>7. events' \in Seq(Event)
    BY <1>100, <1>1, <2>1 DEF HandleGreeting
  <2>8. conn' \in [Conns -> Client] /\ turn' \in [Gens -> Turn]
    BY <1>102, <1>1, <2>1 DEF HandleGreeting, Typed
  <2>. QED
    BY <2>3, <2>4, <2>5, <2>6, <2>7, <2>8 DEF Typed
<1>2. CASE HandleOpening
  <2>1. /\ idleTimer' = "off" /\ events' \in Seq(Event)
        /\ curGen' \in Nat /\ turnChunks' = {} /\ hangupAfterTurn' = FALSE /\ playing' = 0
        /\ state' \in {"Thinking", "Listening"}
        /\ tts' \in Nat /\ ttsConn' \in Nat /\ conn' \in [Conns -> Client] /\ turn' \in [Gens -> Turn]
    BY <1>100, <1>101, <1>102, <1>2, StartTurnTyped DEF HandleOpening
  <2>3. TypedStates'
    BY <1>2, <2>1 DEF HandleOpening, Typed, TypedStates
  <2>4. TypedBits'
    BY <1>2, <2>1 DEF HandleOpening, Typed, TypedBits
  <2>5. TypedNumbers'
    BY <1>101, <1>2, <2>1 DEF HandleOpening, Typed, TypedNumbers
  <2>6. TypedFrames'
    BY <1>2, <2>1 DEF HandleOpening, Typed, TypedFrames
  <2>7. events' \in Seq(Event)
    BY <1>100, <1>2, <2>1 DEF HandleOpening
  <2>8. conn' \in [Conns -> Client] /\ turn' \in [Gens -> Turn]
    BY <1>102, <1>2, <2>1 DEF HandleOpening, Typed
  <2>. QED
    BY <2>3, <2>4, <2>5, <2>6, <2>7, <2>8 DEF Typed
<1>3. CASE HandleCallerSpeech
  <2>3. TypedStates'
    BY <1>3 DEF HandleCallerSpeech, StartIdleTimer, StopIdleTimer, Typed, TypedStates
  <2>4. TypedBits'
    BY <1>100, <1>3, EventFields DEF HandleCallerSpeech, StartIdleTimer, StopIdleTimer, Typed, TypedBits
  <2>5. TypedNumbers'
    BY <1>101, <1>3 DEF HandleCallerSpeech, StartIdleTimer, StopIdleTimer, Typed, TypedNumbers
  <2>6. TypedFrames'
    BY <1>3 DEF HandleCallerSpeech, StartIdleTimer, StopIdleTimer, Typed, TypedFrames
  <2>7. events' \in Seq(Event)
    BY <1>100, <1>3 DEF HandleCallerSpeech, StartIdleTimer, StopIdleTimer
  <2>8. conn' \in [Conns -> Client] /\ turn' \in [Gens -> Turn]
    BY <1>102, <1>3 DEF HandleCallerSpeech, StartIdleTimer, StopIdleTimer, Typed
  <2>. QED
    BY <2>3, <2>4, <2>5, <2>6, <2>7, <2>8 DEF Typed
<1>4. CASE IgnoreTranscript
  <2>3. TypedStates'
    BY <1>4 DEF IgnoreTranscript, Typed, TypedStates
  <2>4. TypedBits'
    BY <1>4 DEF IgnoreTranscript, Typed, TypedBits
  <2>5. TypedNumbers'
    BY <1>101, <1>4 DEF IgnoreTranscript, Typed, TypedNumbers
  <2>6. TypedFrames'
    BY <1>4 DEF IgnoreTranscript, Typed, TypedFrames
  <2>7. events' \in Seq(Event)
    BY <1>100, <1>4 DEF IgnoreTranscript
  <2>8. conn' \in [Conns -> Client] /\ turn' \in [Gens -> Turn]
    BY <1>102, <1>4 DEF IgnoreTranscript, Typed
  <2>. QED
    BY <2>3, <2>4, <2>5, <2>6, <2>7, <2>8 DEF Typed
<1>5. CASE HoldTranscript
  <2>3. TypedStates'
    BY <1>5 DEF HoldTranscript, Typed, TypedStates
  <2>4. TypedBits'
    BY <1>5 DEF HoldTranscript, Typed, TypedBits
  <2>5. TypedNumbers'
    BY <1>101, <1>5 DEF HoldTranscript, Typed, TypedNumbers
  <2>6. TypedFrames'
    BY <1>5 DEF HoldTranscript, Typed, TypedFrames
  <2>7. events' \in Seq(Event)
    BY <1>100, <1>5 DEF HoldTranscript
  <2>8. conn' \in [Conns -> Client] /\ turn' \in [Gens -> Turn]
    BY <1>102, <1>5 DEF HoldTranscript, Typed
  <2>. QED
    BY <2>3, <2>4, <2>5, <2>6, <2>7, <2>8 DEF Typed
<1>6. CASE TranscriptWhileClosing
  <2>3. TypedStates'
    BY <1>6 DEF TranscriptWhileClosing, ResumeReply, Typed, TypedStates
  <2>4. TypedBits'
    BY <1>6 DEF TranscriptWhileClosing, ResumeReply, Typed, TypedBits
  <2>5. TypedNumbers'
    BY <1>101, <1>6 DEF TranscriptWhileClosing, ResumeReply, Typed, TypedNumbers
  <2>6. TypedFrames'
    BY <1>6 DEF TranscriptWhileClosing, ResumeReply, Typed, TypedFrames
  <2>7. events' \in Seq(Event)
    BY <1>100, <1>6 DEF TranscriptWhileClosing, ResumeReply
  <2>8. conn' \in [Conns -> Client] /\ turn' \in [Gens -> Turn]
    BY <1>102, <1>6 DEF TranscriptWhileClosing, ResumeReply, Typed
  <2>. QED
    BY <2>3, <2>4, <2>5, <2>6, <2>7, <2>8 DEF Typed
<1>7. CASE Acknowledged
  <2>3. TypedStates'
    BY <1>7 DEF Acknowledged, ResumeReply, Typed, TypedStates
  <2>4. TypedBits'
    BY <1>7 DEF Acknowledged, ResumeReply, Typed, TypedBits
  <2>5. TypedNumbers'
    BY <1>101, <1>7 DEF Acknowledged, ResumeReply, Typed, TypedNumbers
  <2>6. TypedFrames'
    BY <1>7 DEF Acknowledged, ResumeReply, Typed, TypedFrames
  <2>7. events' \in Seq(Event)
    BY <1>100, <1>7 DEF Acknowledged, ResumeReply
  <2>8. conn' \in [Conns -> Client] /\ turn' \in [Gens -> Turn]
    BY <1>102, <1>7 DEF Acknowledged, ResumeReply, Typed
  <2>. QED
    BY <2>3, <2>4, <2>5, <2>6, <2>7, <2>8 DEF Typed
<1>8. CASE Interrupted
  <2>3. TypedStates'
    BY <1>8 DEF Interrupted, Typed, TypedStates
  <2>4. TypedBits'
    BY <1>8 DEF Interrupted, Typed, TypedBits
  <2>5. TypedNumbers'
    BY <1>101, <1>8 DEF Interrupted, Typed, TypedNumbers
  <2>6. TypedFrames'
    BY <1>8 DEF Interrupted, Typed, TypedFrames
  <2>7. events' \in Seq(Event)
    BY <1>100, <1>8 DEF Interrupted
  <2>8. conn' \in [Conns -> Client] /\ turn' \in [Gens -> Turn]
    BY <1>102, <1>8 DEF Interrupted, Typed
  <2>. QED
    BY <2>3, <2>4, <2>5, <2>6, <2>7, <2>8 DEF Typed
<1>9. CASE AcceptTranscript
  <2>1. /\ idleTimer' = "off" /\ events' \in Seq(Event)
        /\ curGen' \in Nat /\ turnChunks' = {} /\ hangupAfterTurn' = FALSE /\ playing' = 0
        /\ state' \in {"Thinking", "Listening"}
        /\ tts' \in Nat /\ ttsConn' \in Nat /\ conn' \in [Conns -> Client] /\ turn' \in [Gens -> Turn]
    BY <1>100, <1>101, <1>102, <1>9, StartTurnTyped DEF AcceptTranscript
  <2>3. TypedStates'
    BY <1>9, <2>1 DEF AcceptTranscript, Typed, TypedStates
  <2>4. TypedBits'
    BY <1>9, <2>1 DEF AcceptTranscript, Typed, TypedBits
  <2>5. TypedNumbers'
    BY <1>101, <1>9, <2>1 DEF AcceptTranscript, Typed, TypedNumbers
  <2>6. TypedFrames'
    BY <1>9, <2>1 DEF AcceptTranscript, Typed, TypedFrames
  <2>7. events' \in Seq(Event)
    BY <1>100, <1>9, <2>1 DEF AcceptTranscript
  <2>8. conn' \in [Conns -> Client] /\ turn' \in [Gens -> Turn]
    BY <1>102, <1>9, <2>1 DEF AcceptTranscript, Typed
  <2>. QED
    BY <2>3, <2>4, <2>5, <2>6, <2>7, <2>8 DEF Typed
<1>10. CASE ConfirmInterruption
  <2>3. TypedStates'
    BY <1>10 DEF ConfirmInterruption, Typed, TypedStates
  <2>4. TypedBits'
    BY <1>10 DEF ConfirmInterruption, Typed, TypedBits
  <2>5. TypedNumbers'
    BY <1>101, <1>10 DEF ConfirmInterruption, Typed, TypedNumbers
  <2>6. TypedFrames'
    BY <1>10 DEF ConfirmInterruption, Typed, TypedFrames
  <2>7. events' \in Seq(Event)
    BY <1>100, <1>10 DEF ConfirmInterruption
  <2>8. conn' \in [Conns -> Client] /\ turn' \in [Gens -> Turn]
    BY <1>102, <1>10 DEF ConfirmInterruption, Typed
  <2>. QED
    BY <2>3, <2>4, <2>5, <2>6, <2>7, <2>8 DEF Typed
<1>11. CASE Unpause
  <2>3. TypedStates'
    BY <1>11 DEF Unpause, Typed, TypedStates
  <2>4. TypedBits'
    BY <1>11 DEF Unpause, Typed, TypedBits
  <2>5. TypedNumbers'
    BY <1>101, <1>11 DEF Unpause, Typed, TypedNumbers
  <2>6. TypedFrames'
    BY <1>11 DEF Unpause, Typed, TypedFrames
  <2>7. events' \in Seq(Event)
    BY <1>100, <1>11 DEF Unpause
  <2>8. conn' \in [Conns -> Client] /\ turn' \in [Gens -> Turn]
    BY <1>102, <1>11 DEF Unpause, Typed
  <2>. QED
    BY <2>3, <2>4, <2>5, <2>6, <2>7, <2>8 DEF Typed
<1>12. CASE CutReply
  <2>0. [c \in Conns |-> IF c = tts THEN [conn[c] EXCEPT !.open = FALSE] ELSE conn[c]] \in [Conns -> Client]
    BY <1>102 DEF Client
  <2>1. /\ idleTimer' = "off" /\ events' \in Seq(Event)
        /\ curGen' \in Nat /\ turnChunks' = {} /\ hangupAfterTurn' = FALSE /\ playing' = 0
        /\ state' \in {"Thinking", "Listening"}
        /\ tts' \in Nat /\ ttsConn' \in Nat /\ conn' \in [Conns -> Client] /\ turn' \in [Gens -> Turn]
    BY <2>0, <1>100, <1>101, <1>102, <1>12, StartTurnTyped DEF CutReply, CutWith
  <2>3. TypedStates'
    BY <1>12, <2>1 DEF CutReply, CutWith, Typed, TypedStates
  <2>4. TypedBits'
    BY <1>12, <2>1 DEF CutReply, CutWith, Typed, TypedBits
  <2>5. TypedNumbers'
    BY <1>101, <1>12, <2>1 DEF CutReply, CutWith, Typed, TypedNumbers
  <2>6. TypedFrames'
    BY <1>12, <2>1, RecordedTyped, EmptySeq DEF CutReply, CutWith, Typed, TypedNumbers, TypedFrames
  <2>7. events' \in Seq(Event)
    BY <1>100, <1>12, <2>1 DEF CutReply, CutWith
  <2>8. conn' \in [Conns -> Client] /\ turn' \in [Gens -> Turn]
    BY <1>102, <1>12, <2>1 DEF CutReply, CutWith, Typed
  <2>. QED
    BY <2>3, <2>4, <2>5, <2>6, <2>7, <2>8 DEF Typed
<1>13. CASE HandleTTSAudio
  <2>3. TypedStates'
    BY <1>13 DEF HandleTTSAudio, AudioOf, Typed, TypedStates
  <2>4. TypedBits'
    BY <1>13 DEF HandleTTSAudio, AudioOf, Typed, TypedBits
  <2>5. TypedNumbers'
    <3>1. Head(events).req \in Nat
      BY <1>13, <1>100, EventFields DEF HandleTTSAudio, AudioOf
    <3>. QED
      BY <1>13, <3>1 DEF HandleTTSAudio, AudioOf, Typed, TypedNumbers
  <2>6. TypedFrames'
    <3>1. Head(events).req \in Nat
      BY <1>13, <1>100, EventFields DEF HandleTTSAudio, AudioOf
    <3>2. Sentence(curGen, Head(events).req) \in SentenceSet
      BY <1>101, <3>1 DEF Sentence, SentenceSet, Typed, TypedNumbers
    <3>. QED
      BY <1>13, <3>2, AppendProperties DEF HandleTTSAudio, AudioOf, Typed, TypedFrames
  <2>7. events' \in Seq(Event)
    BY <1>100, <1>13 DEF HandleTTSAudio, AudioOf
  <2>8. conn' \in [Conns -> Client] /\ turn' \in [Gens -> Turn]
    BY <1>102, <1>13 DEF HandleTTSAudio, AudioOf, Typed
  <2>. QED
    BY <2>3, <2>4, <2>5, <2>6, <2>7, <2>8 DEF Typed
<1>14. CASE DeliveryDone
  <2>3. TypedStates'
    BY <1>14 DEF DeliveryDone, Typed, TypedStates
  <2>4. TypedBits'
    BY <1>14 DEF DeliveryDone, Typed, TypedBits
  <2>5. TypedNumbers'
    BY <1>101, <1>14 DEF DeliveryDone, Typed, TypedNumbers
  <2>6. TypedFrames'
    BY <1>14 DEF DeliveryDone, Typed, TypedFrames
  <2>7. events' \in Seq(Event)
    BY <1>100, <1>14 DEF DeliveryDone
  <2>8. conn' \in [Conns -> Client] /\ turn' \in [Gens -> Turn]
    BY <1>102, <1>14 DEF DeliveryDone, Typed
  <2>. QED
    BY <2>3, <2>4, <2>5, <2>6, <2>7, <2>8 DEF Typed
<1>15. CASE NothingToPlay
  <2>1. /\ idleTimer' \in {"off", "armed", "fired"} /\ events' \in Seq(Event)
        /\ curGen' \in Nat /\ turnChunks' = {} /\ hangupAfterTurn' \in BOOLEAN /\ playing' \in Nat
        /\ state' \in {"Listening", "Transcribing", "Thinking"} /\ idleArmed' \in BOOLEAN
        /\ hungUp' \in BOOLEAN /\ idleCount' \in Nat /\ recorded' = Recorded(TRUE)
        /\ tts' \in Nat /\ ttsConn' \in Nat /\ conn' \in [Conns -> Client] /\ turn' \in [Gens -> Turn]
    BY <1>100, <1>101, <1>102, <1>15, FinishTurnTyped DEF NothingToPlay
  <2>2. recorded' \subseteq SentenceSet
    BY <2>1, RecordedTyped
  <2>3. TypedStates'
    BY <1>15, <2>1, <2>2 DEF NothingToPlay, Typed, TypedStates
  <2>4. TypedBits'
    BY <1>15, <2>1, <2>2 DEF NothingToPlay, Typed, TypedBits
  <2>5. TypedNumbers'
    BY <1>101, <1>15, <2>1, <2>2 DEF NothingToPlay, Typed, TypedNumbers
  <2>6. TypedFrames'
    BY <1>15, <2>1, <2>2 DEF NothingToPlay, Typed, TypedFrames
  <2>7. events' \in Seq(Event)
    BY <1>100, <1>15, <2>1, <2>2 DEF NothingToPlay
  <2>8. conn' \in [Conns -> Client] /\ turn' \in [Gens -> Turn]
    BY <1>102, <1>15, <2>1, <2>2 DEF NothingToPlay, Typed
  <2>. QED
    BY <2>3, <2>4, <2>5, <2>6, <2>7, <2>8 DEF Typed
<1>16. CASE ConnectionLostThinking
  <2>1. /\ idleTimer' \in {"off", "armed", "fired"} /\ events' \in Seq(Event)
        /\ curGen' \in Nat /\ turnChunks' = {} /\ hangupAfterTurn' \in BOOLEAN /\ playing' \in Nat
        /\ state' \in {"Listening", "Transcribing", "Thinking"} /\ idleArmed' \in BOOLEAN
        /\ hungUp' \in BOOLEAN /\ idleCount' \in Nat /\ recorded' = Recorded(TRUE)
        /\ tts' \in Nat /\ ttsConn' \in Nat /\ conn' \in [Conns -> Client] /\ turn' \in [Gens -> Turn]
    BY <1>100, <1>101, <1>102, <1>16, FinishTurnTyped DEF ConnectionLostThinking
  <2>2. recorded' \subseteq SentenceSet
    BY <2>1, RecordedTyped
  <2>3. TypedStates'
    BY <1>16, <2>1, <2>2 DEF ConnectionLostThinking, Typed, TypedStates
  <2>4. TypedBits'
    BY <1>16, <2>1, <2>2 DEF ConnectionLostThinking, Typed, TypedBits
  <2>5. TypedNumbers'
    BY <1>101, <1>16, <2>1, <2>2 DEF ConnectionLostThinking, Typed, TypedNumbers
  <2>6. TypedFrames'
    BY <1>16, <2>1, <2>2 DEF ConnectionLostThinking, Typed, TypedFrames
  <2>7. events' \in Seq(Event)
    BY <1>100, <1>16, <2>1, <2>2 DEF ConnectionLostThinking
  <2>8. conn' \in [Conns -> Client] /\ turn' \in [Gens -> Turn]
    BY <1>102, <1>16, <2>1, <2>2 DEF ConnectionLostThinking, Typed
  <2>. QED
    BY <2>3, <2>4, <2>5, <2>6, <2>7, <2>8 DEF Typed
<1>17. CASE ConnectionLost
  <2>3. TypedStates'
    BY <1>17 DEF ConnectionLost, Typed, TypedStates
  <2>4. TypedBits'
    BY <1>17 DEF ConnectionLost, Typed, TypedBits
  <2>5. TypedNumbers'
    BY <1>101, <1>17 DEF ConnectionLost, Typed, TypedNumbers
  <2>6. TypedFrames'
    BY <1>17 DEF ConnectionLost, Typed, TypedFrames
  <2>7. events' \in Seq(Event)
    BY <1>100, <1>17 DEF ConnectionLost
  <2>8. conn' \in [Conns -> Client] /\ turn' \in [Gens -> Turn]
    BY <1>102, <1>17 DEF ConnectionLost, Typed
  <2>. QED
    BY <2>3, <2>4, <2>5, <2>6, <2>7, <2>8 DEF Typed
<1>18. CASE HandleLLMDone
  <2>3. TypedStates'
    BY <1>18 DEF HandleLLMDone, Typed, TypedStates
  <2>4. TypedBits'
    BY <1>100, <1>18, EventFields DEF HandleLLMDone, Typed, TypedBits
  <2>5. TypedNumbers'
    BY <1>101, <1>18 DEF HandleLLMDone, Typed, TypedNumbers
  <2>6. TypedFrames'
    BY <1>18 DEF HandleLLMDone, Typed, TypedFrames
  <2>7. events' \in Seq(Event)
    BY <1>100, <1>18 DEF HandleLLMDone
  <2>8. conn' \in [Conns -> Client] /\ turn' \in [Gens -> Turn]
    BY <1>102, <1>18 DEF HandleLLMDone, Typed
  <2>. QED
    BY <2>3, <2>4, <2>5, <2>6, <2>7, <2>8 DEF Typed
<1>19. CASE HandleEndCall
  <2>3. TypedStates'
    BY <1>19 DEF HandleEndCall, EndCall, StopIdleTimer, Typed, TypedStates
  <2>4. TypedBits'
    BY <1>19 DEF HandleEndCall, EndCall, StopIdleTimer, Typed, TypedBits
  <2>5. TypedNumbers'
    BY <1>101, <1>19 DEF HandleEndCall, EndCall, StopIdleTimer, Typed, TypedNumbers
  <2>6. TypedFrames'
    BY <1>19 DEF HandleEndCall, EndCall, StopIdleTimer, Typed, TypedFrames
  <2>7. events' \in Seq(Event)
    BY <1>100, <1>19 DEF HandleEndCall, EndCall, StopIdleTimer
  <2>8. conn' \in [Conns -> Client] /\ turn' \in [Gens -> Turn]
    BY <1>102, <1>19 DEF HandleEndCall, EndCall, StopIdleTimer, Typed
  <2>. QED
    BY <2>3, <2>4, <2>5, <2>6, <2>7, <2>8 DEF Typed
<1>20. CASE HandleIdle
  <2>1. /\ idleTimer' = "off" /\ events' \in Seq(Event)
        /\ curGen' \in Nat /\ turnChunks' = {} /\ hangupAfterTurn' = FALSE /\ playing' = 0
        /\ state' \in {"Thinking", "Listening"}
        /\ tts' \in Nat /\ ttsConn' \in Nat /\ conn' \in [Conns -> Client] /\ turn' \in [Gens -> Turn]
    BY <1>100, <1>101, <1>102, <1>20, StartTurnTyped DEF HandleIdle
  <2>3. TypedStates'
    BY <1>20, <2>1 DEF HandleIdle, Typed, TypedStates
  <2>4. TypedBits'
    <3>1. ending' \in BOOLEAN /\ closing' \in BOOLEAN
      BY <1>20 DEF HandleIdle
    <3>2. UNCHANGED <<paused, silence, ttsDeliveryDone, hungUp, idleArmed, callerSpeaking>>
      BY <1>20 DEF HandleIdle
    <3>. QED
      BY <2>1, <3>1, <3>2 DEF Typed, TypedBits
  <2>5. TypedNumbers'
    BY <1>101, <1>20, <2>1 DEF HandleIdle, Typed, TypedNumbers
  <2>6. TypedFrames'
    BY <1>20, <2>1 DEF HandleIdle, Typed, TypedFrames
  <2>7. events' \in Seq(Event)
    BY <1>100, <1>20, <2>1 DEF HandleIdle
  <2>8. conn' \in [Conns -> Client] /\ turn' \in [Gens -> Turn]
    BY <1>102, <1>20, <2>1 DEF HandleIdle, Typed
  <2>. QED
    BY <2>3, <2>4, <2>5, <2>6, <2>7, <2>8 DEF Typed
<1>21. CASE KeepWaiting
  <2>3. TypedStates'
    BY <1>21 DEF KeepWaiting, Typed, TypedStates
  <2>4. TypedBits'
    BY <1>21 DEF KeepWaiting, Typed, TypedBits
  <2>5. TypedNumbers'
    BY <1>101, <1>21 DEF KeepWaiting, Typed, TypedNumbers
  <2>6. TypedFrames'
    BY <1>21 DEF KeepWaiting, Typed, TypedFrames
  <2>7. events' \in Seq(Event)
    BY <1>100, <1>21 DEF KeepWaiting
  <2>8. conn' \in [Conns -> Client] /\ turn' \in [Gens -> Turn]
    BY <1>102, <1>21 DEF KeepWaiting, Typed
  <2>. QED
    BY <2>3, <2>4, <2>5, <2>6, <2>7, <2>8 DEF Typed
<1>22. CASE FalseInterruption
  <2>3. TypedStates'
    BY <1>22 DEF FalseInterruption, ResumeReply, Typed, TypedStates
  <2>4. TypedBits'
    BY <1>22 DEF FalseInterruption, ResumeReply, Typed, TypedBits
  <2>5. TypedNumbers'
    BY <1>101, <1>22 DEF FalseInterruption, ResumeReply, Typed, TypedNumbers
  <2>6. TypedFrames'
    BY <1>22 DEF FalseInterruption, ResumeReply, Typed, TypedFrames
  <2>7. events' \in Seq(Event)
    BY <1>100, <1>22 DEF FalseInterruption, ResumeReply
  <2>8. conn' \in [Conns -> Client] /\ turn' \in [Gens -> Turn]
    BY <1>102, <1>22 DEF FalseInterruption, ResumeReply, Typed
  <2>. QED
    BY <2>3, <2>4, <2>5, <2>6, <2>7, <2>8 DEF Typed
<1>23. CASE HandleBargeIn
  <2>3. TypedStates'
    BY <1>23 DEF HandleBargeIn, Typed, TypedStates
  <2>4. TypedBits'
    BY <1>23 DEF HandleBargeIn, Typed, TypedBits
  <2>5. TypedNumbers'
    BY <1>101, <1>23 DEF HandleBargeIn, Typed, TypedNumbers
  <2>6. TypedFrames'
    BY <1>23 DEF HandleBargeIn, Typed, TypedFrames
  <2>7. events' \in Seq(Event)
    BY <1>100, <1>23 DEF HandleBargeIn
  <2>8. conn' \in [Conns -> Client] /\ turn' \in [Gens -> Turn]
    BY <1>102, <1>23 DEF HandleBargeIn, Typed
  <2>. QED
    BY <2>3, <2>4, <2>5, <2>6, <2>7, <2>8 DEF Typed
<1>24. CASE HandlePlaybackDone
  <2>1. /\ idleTimer' \in {"off", "armed", "fired"} /\ events' \in Seq(Event)
        /\ curGen' \in Nat /\ turnChunks' = {} /\ hangupAfterTurn' \in BOOLEAN /\ playing' \in Nat
        /\ state' \in {"Listening", "Transcribing", "Thinking"} /\ idleArmed' \in BOOLEAN
        /\ hungUp' \in BOOLEAN /\ idleCount' \in Nat /\ recorded' = Recorded(TRUE)
        /\ tts' \in Nat /\ ttsConn' \in Nat /\ conn' \in [Conns -> Client] /\ turn' \in [Gens -> Turn]
    BY <1>100, <1>101, <1>102, <1>24, FinishTurnTyped DEF HandlePlaybackDone
  <2>2. recorded' \subseteq SentenceSet
    BY <2>1, RecordedTyped
  <2>3. TypedStates'
    BY <1>24, <2>1, <2>2 DEF HandlePlaybackDone, Typed, TypedStates
  <2>4. TypedBits'
    BY <1>24, <2>1, <2>2 DEF HandlePlaybackDone, Typed, TypedBits
  <2>5. TypedNumbers'
    BY <1>101, <1>24, <2>1, <2>2 DEF HandlePlaybackDone, Typed, TypedNumbers
  <2>6. TypedFrames'
    BY <1>24, <2>1, <2>2 DEF HandlePlaybackDone, Typed, TypedFrames
  <2>7. events' \in Seq(Event)
    BY <1>100, <1>24, <2>1, <2>2 DEF HandlePlaybackDone
  <2>8. conn' \in [Conns -> Client] /\ turn' \in [Gens -> Turn]
    BY <1>102, <1>24, <2>1, <2>2 DEF HandlePlaybackDone, Typed
  <2>. QED
    BY <2>3, <2>4, <2>5, <2>6, <2>7, <2>8 DEF Typed
<1>25. CASE HandleDrainTimeout
  <2>3. TypedStates'
    BY <1>25 DEF HandleDrainTimeout, Typed, TypedStates
  <2>4. TypedBits'
    BY <1>25 DEF HandleDrainTimeout, Typed, TypedBits
  <2>5. TypedNumbers'
    BY <1>101, <1>25 DEF HandleDrainTimeout, Typed, TypedNumbers
  <2>6. TypedFrames'
    BY <1>25, RecordedTyped, EmptySeq DEF HandleDrainTimeout, Typed, TypedNumbers, TypedFrames
  <2>7. events' \in Seq(Event)
    BY <1>100, <1>25 DEF HandleDrainTimeout
  <2>8. conn' \in [Conns -> Client] /\ turn' \in [Gens -> Turn]
    BY <1>102, <1>25 DEF HandleDrainTimeout, Typed
  <2>. QED
    BY <2>3, <2>4, <2>5, <2>6, <2>7, <2>8 DEF Typed
<1>. QED
  BY <1>1, <1>2, <1>3, <1>4, <1>5, <1>6, <1>7, <1>8, <1>9, <1>10, <1>11, <1>12, <1>13, <1>14, <1>15, <1>16, <1>17, <1>18, <1>19, <1>20, <1>21, <1>22, <1>23, <1>24, <1>25 DEF Handler

\* The end of the call keeps the types.
LEMMA TypedEnds ==
    ASSUME Typed, CallEnds
    PROVE  Typed'
<1>1. TypedStates' /\ TypedBits' /\ TypedNumbers'
  BY DEF CallEnds, Typed, TypedStates, TypedBits, TypedNumbers, endVars
<1>2. TypedFrames' /\ events' \in Seq(Event)
  BY RecordedTyped, EmptySeq DEF CallEnds, Typed, TypedNumbers, TypedFrames, NoSentence, Sentence, SentenceSet
<1>3. conn' \in [Conns -> Client] /\ turn' \in [Gens -> Turn]
  BY ClientsTyped, NewTurnTyped DEF CallEnds
<1>. QED
  BY <1>1, <1>2, <1>3 DEF Typed

\* The call begins with them.
LEMMA TypedInit ==
    ASSUME Init
    PROVE  Typed
<1>. PICK first \in {"greeting", "opening"} : InitWith(first)
  BY DEF Init
<1>1. TypedStates /\ TypedBits /\ TypedNumbers
  BY DEF InitWith, TypedStates, TypedBits, TypedNumbers
<1>2. TypedFrames
  BY EmptySeq DEF InitWith, TypedFrames, NoSentence, Sentence, SentenceSet
<1>3. events \in Seq(Event)
  <2>1. Plain(first) \in Event
    BY EventsAre DEF PlainEvents
  <2>. QED
    BY <2>1 DEF InitWith
<1>4. conn \in [Conns -> Client]
  BY ClientsTyped DEF InitWith
<1>5. turn \in [Gens -> Turn]
  BY DEF InitWith, NoTurn, Turn, TurnPcs
<1>. QED
  BY <1>1, <1>2, <1>3, <1>4, <1>5 DEF Typed

\* Every variable keeps its type, whatever the bounds.
THEOREM TypesKept == Spec => []Typed
<1>1. Init => Typed
  BY TypedInit
<1>2. Typed /\ [Next]_vars => Typed'
  <2>. SUFFICES ASSUME Typed, [Next]_vars
                PROVE  Typed'
    OBVIOUS
  <2>1. CASE UNCHANGED vars
    BY <2>1 DEF vars, pauseVars, frameVars, endVars, idleVars, ttsVars, llmVars, envVars, ghostVars,
                runVars, Typed, TypedStates, TypedBits, TypedNumbers, TypedFrames
  <2>. QED
    BY <2>1, TypedFrame, TypedCaller, TypedLLM, TypedProvider, TypedHandler, TypedEnds DEF Next
<1>. QED
  BY <1>1, <1>2, PTL DEF Spec

-----------------------------------------------------------------------------
\* A cut reply is not heard again.

\* The strengthening of CutStaysCut: what is queued, or will be replayed, is of
\* a reply that has not been cut, and while a reply stands still or is being cut
\* nothing will be replayed.
HeardOK == \A h \in heard : h.gen <= h.turn /\ h.turn <= curGen /\ (h.gen \in cut => h.turn = h.gen)
CutOK == \A g \in cut : g <= curGen /\ (run # "over" => g < curGen)
OutboundOK == \A f \in Range(outbound) : f.gen <= curGen /\ f.gen \notin cut
ReplayOK ==
    /\ paused \/ run \in {"confirm", "unpause", "cut"} => replay = 0
    /\ replay # 0 => replay <= curGen /\ replay \notin cut

CutFrames == HeardOK /\ CutOK /\ OutboundOK /\ ReplayOK

\* A new turn, and every step that leaves the frames and the pause alone.
LEMMA CutFramesKept ==
    ASSUME Typed, CutFrames, Typed', curGen' >= curGen,
           UNCHANGED <<heard, cut, outbound, replay, paused, run>>
    PROVE  CutFrames'
<1>. USE DEF Typed, TypedNumbers, TypedFrames
<1>1. HeardOK'
  BY DEF CutFrames, HeardOK
<1>2. CutOK'
  BY DEF CutFrames, CutOK
<1>3. OutboundOK'
  <2>. SUFFICES ASSUME NEW f \in Range(outbound)
                PROVE  f.gen <= curGen' /\ f.gen \notin cut
    BY DEF OutboundOK
  <2>1. f \in SentenceSet
    BY RangeTyped
  <2>2. f.gen \in Nat
    BY <2>1 DEF SentenceSet
  <2>. QED
    BY <2>2 DEF CutFrames, OutboundOK
<1>4. ReplayOK'
  BY DEF CutFrames, ReplayOK
<1>. QED
  BY <1>1, <1>2, <1>3, <1>4 DEF CutFrames

\* What every step of the caller, the LLM and the provider leaves alone.
LEMMA OutsideRun ==
    ASSUME Caller \/ (\E g \in Gens : LLM(g)) \/ (\E c \in Conns : Provider(c))
    PROVE  /\ UNCHANGED <<state, paused, replay, outbound, playing, sent, tick, sigs, run, curGen, turnChunks>>
           /\ UNCHANGED <<voiced, hangupAfterTurn, ending, hungUp, tts, ttsConn, ttsDeliveryDone>>
           /\ UNCHANGED <<heard, recorded, cut, idleArmed, idleCount, callerSpeaking, held>>
<1>1. ASSUME NEW g \in Gens, LLM(g)
      PROVE  LLMOnly
  BY <1>1 DEF LLM, LLMSays, LLMCancelled, LLMCompletes, LLMFails, LLMCalls, CallReturns, AfterCalls, LLMPosts,
              LLMEndsGeneration
<1>2. Caller => CallerOnly
  BY DEF Caller, CallerStarts, CallerStops, CallerSaid, CallerMadeNoise, SilenceOver, IdleFires, ResumeFires,
         MaxDurationFires
<1>. USE DEF pauseVars, frameVars, endVars, idleVars, ttsVars, llmVars, ghostVars, runVars
<1>3. CASE Caller
  BY <1>2, <1>3 DEF CallerOnly
<1>4. CASE \E g \in Gens : LLM(g)
  BY <1>1, <1>4 DEF LLMOnly
<1>5. CASE \E c \in Conns : Provider(c)
  BY <1>5 DEF Provider, Synthesize, ConnectionGone
<1>. QED
  BY <1>3, <1>4, <1>5

\* What a handler that starts or finishes a turn does to the generation.
LEMMA TurnsCount ==
    ASSUME Typed, HandleGreeting \/ HandleOpening \/ AcceptTranscript \/ NothingToPlay \/ ConnectionLostThinking
                  \/ HandleIdle \/ HandlePlaybackDone
    PROVE  /\ curGen' \in {curGen, curGen + 1} /\ run = "idle"
           /\ UNCHANGED <<heard, cut, outbound, replay, paused, run, ttsDeliveryDone, resume, silence, tick, sent>>
<1>. USE DEF StartTurn, HandlerUnchanged, idleVars
<1>1. ASSUME NEW q, NEW c, NEW t, FinishTurn(q, c, t)
      PROVE  curGen' \in {curGen, curGen + 1}
  BY <1>1 DEF FinishTurn
<1>. USE DEF Next1, Transcribed
<1>2. CASE HandleGreeting
  BY <1>2 DEF HandleGreeting
<1>3. CASE HandleOpening
  BY <1>3 DEF HandleOpening
<1>4. CASE AcceptTranscript
  BY <1>4 DEF AcceptTranscript
<1>5. CASE NothingToPlay
  BY <1>1, <1>5 DEF NothingToPlay
<1>6. CASE ConnectionLostThinking
  BY <1>1, <1>6 DEF ConnectionLostThinking
<1>7. CASE HandleIdle
  BY <1>7 DEF HandleIdle
<1>8. CASE HandlePlaybackDone
  BY <1>1, <1>8 DEF HandlePlaybackDone
<1>. QED
  BY <1>2, <1>3, <1>4, <1>5, <1>6, <1>7, <1>8

\* Nothing has been cut when the call begins.
LEMMA CutFramesInit ==
    ASSUME Init
    PROVE  CutFrames
<1>. PICK first : InitWith(first)
  BY DEF Init
<1>. QED
  BY DEF InitWith, CutFrames, HeardOK, CutOK, OutboundOK, ReplayOK, Range

\* Every step keeps the invariant of the cuts.
LEMMA CutFramesStep ==
    ASSUME MinSpeech, Typed, Typed', CutFrames, [Next]_vars
    PROVE  CutFrames'
<1>. USE DEF pauseVars, frameVars, endVars, idleVars, ttsVars, llmVars, envVars, ghostVars, runVars,
             TickOnly, TranscriptUnchanged, ResumeUnchanged, Transcribed, Next1
<1>. DEFINE Still == UNCHANGED <<heard, cut, outbound, replay, paused, run, curGen>>
<1>0. curGen \in Nat /\ curGen' \in Nat
  BY DEF Typed, TypedNumbers
<1>1. Still => CutFrames'
  BY <1>0, CutFramesKept
<1>2. CASE UNCHANGED vars
  BY <1>1, <1>2 DEF vars
<1>3. CASE Caller \/ (\E g \in Gens : LLM(g)) \/ (\E c \in Conns : Provider(c))
  BY <1>1, <1>3, OutsideRun
<1>4. CASE HandleGreeting \/ HandleOpening \/ AcceptTranscript \/ NothingToPlay
        \/ ConnectionLostThinking \/ HandleIdle \/ HandlePlaybackDone
  BY <1>0, <1>4, TurnsCount, CutFramesKept
<1>5. CASE HandleCallerSpeech
  BY <1>1, <1>5 DEF HandleCallerSpeech
<1>6. CASE IgnoreTranscript
  BY <1>1, <1>6 DEF IgnoreTranscript
<1>7. CASE HoldTranscript
  BY <1>1, <1>7 DEF HoldTranscript
<1>8. CASE DeliveryDone
  BY <1>1, <1>8 DEF DeliveryDone
<1>9. CASE ConnectionLost
  BY <1>1, <1>9 DEF ConnectionLost
<1>10. CASE HandleLLMDone
  BY <1>1, <1>10 DEF HandleLLMDone
<1>11. CASE HandleEndCall
  BY <1>1, <1>11 DEF HandleEndCall
<1>12. CASE KeepWaiting
  BY <1>1, <1>12 DEF KeepWaiting
<1>13. CASE HandleBargeIn
  BY <1>1, <1>13 DEF HandleBargeIn
<1>14. CASE HandleDrainTimeout
  BY <1>1, <1>14 DEF HandleDrainTimeout
<1>15. CASE ReadState
  BY <1>1, <1>15 DEF ReadState
<1>16. CASE TickEnds
  BY <1>1, <1>16 DEF TickEnds
<1>17. CASE FindEmpty \/ PlaybackDone \/ DrainTimeout
  <2>1. UNCHANGED <<heard, cut, outbound, paused, run, curGen>> /\ replay' = 0
    BY <1>17 DEF FindEmpty, PlaybackDone, DrainTimeout
  <2>. QED
    BY <2>1 DEF CutFrames, HeardOK, CutOK, OutboundOK, ReplayOK
<1>18. CASE DetectBargeIn
  <2>1. UNCHANGED <<heard, cut, outbound, replay, run, curGen>> /\ replay = 0
    BY <1>18 DEF DetectBargeIn
  <2>. QED
    BY <2>1 DEF CutFrames, HeardOK, CutOK, OutboundOK, ReplayOK
<1>19. CASE ReplaySentence
  <2>1. /\ UNCHANGED <<cut, outbound, paused, run, curGen>> /\ replay' = 0 /\ replay # 0 /\ sent.gen = replay
        /\ heard' = heard \cup {[turn |-> curGen, gen |-> sent.gen, req |-> sent.req]}
    BY <1>19 DEF ReplaySentence, Replays
  <2>2. replay <= curGen /\ replay \notin cut
    BY <2>1 DEF CutFrames, ReplayOK
  <2>3. HeardOK'
    BY <1>0, <2>1, <2>2 DEF CutFrames, HeardOK
  <2>. QED
    BY <2>1, <2>3 DEF CutFrames, CutOK, OutboundOK, ReplayOK
<1>20. CASE PlayFrame
  <2>1. PICK f : /\ f = Head(outbound) /\ outbound # <<>> /\ outbound' = Tail(outbound) /\ replay' = 0
                 /\ heard' = heard \cup {[turn |-> curGen, gen |-> f.gen, req |-> f.req]}
                 /\ UNCHANGED <<cut, paused, run, curGen>>
    BY <1>20 DEF PlayFrame
  <2>2. f \in Range(outbound) /\ Range(outbound') \subseteq Range(outbound)
    BY <2>1, TailShorter, ShorterRange DEF Typed, TypedFrames
  <2>3. f.gen <= curGen /\ f.gen \notin cut
    BY <2>2 DEF CutFrames, OutboundOK
  <2>4. HeardOK'
    BY <1>0, <2>1, <2>3 DEF CutFrames, HeardOK
  <2>5. OutboundOK'
    BY <2>1, <2>2 DEF CutFrames, OutboundOK
  <2>. QED
    BY <2>1, <2>4, <2>5 DEF CutFrames, CutOK, ReplayOK
<1>21. CASE TranscriptWhileClosing \/ Acknowledged \/ FalseInterruption
  <2>1. UNCHANGED <<heard, cut, outbound, run, curGen>> /\ replay' = curGen /\ paused' = FALSE /\ run = "idle"
    BY <1>21 DEF TranscriptWhileClosing, Acknowledged, FalseInterruption, ResumeReply
  <2>2. curGen \notin cut
    BY <1>0, <2>1 DEF CutFrames, CutOK
  <2>. QED
    BY <1>0, <2>1, <2>2 DEF CutFrames, HeardOK, CutOK, OutboundOK, ReplayOK
<1>22. CASE Interrupted
  <2>1. UNCHANGED <<heard, cut, outbound, curGen, replay, paused>> /\ paused /\ run' = "confirm" /\ run = "idle"
    BY <1>22 DEF Interrupted
  <2>. QED
    BY <2>1 DEF CutFrames, HeardOK, CutOK, OutboundOK, ReplayOK
<1>23. CASE ConfirmInterruption
  <2>1. UNCHANGED <<heard, cut, outbound, curGen, replay, paused>> /\ run = "confirm" /\ run' = "unpause"
    BY <1>23 DEF ConfirmInterruption
  <2>. QED
    BY <2>1 DEF CutFrames, HeardOK, CutOK, OutboundOK, ReplayOK
<1>24. CASE Unpause
  <2>1. UNCHANGED <<heard, cut, outbound, curGen, replay>> /\ run = "unpause" /\ run' = "cut" /\ paused' = FALSE
    BY <1>24 DEF Unpause
  <2>. QED
    BY <2>1 DEF CutFrames, HeardOK, CutOK, OutboundOK, ReplayOK
<1>25. CASE CutReply \/ CallEnds
  <2>1. /\ UNCHANGED heard /\ cut' = cut \cup {curGen} /\ outbound' = <<>> /\ replay' = 0
        /\ (run' = "over" /\ curGen' = curGen) \/ curGen' = curGen + 2
    BY <1>25 DEF CutReply, CutWith, StartTurn, CallEnds, CutFrames, ReplayOK
  <2>2. heard \subseteq [turn : Nat, gen : Nat, req : Nat] /\ cut \subseteq Nat
    BY DEF Typed, TypedFrames
  <2>3. HeardOK'
    BY <1>0, <2>1, <2>2 DEF CutFrames, HeardOK
  <2>4. CutOK'
    BY <1>0, <2>1, <2>2 DEF CutFrames, CutOK
  <2>. QED
    BY <2>1, <2>3, <2>4 DEF CutFrames, OutboundOK, ReplayOK, Range
<1>26. CASE HandleTTSAudio
  <2>1. UNCHANGED <<heard, cut, replay, paused, run, curGen>> /\ run = "idle"
    BY <1>26 DEF HandleTTSAudio, AudioOf
  <2>2. curGen \notin cut
    BY <1>0, <2>1 DEF CutFrames, CutOK
  <2>3. \/ outbound' = outbound
        \/ \E r \in Nat : outbound' = Append(outbound, Sentence(curGen, r))
    <3>1. Head(events) \in Event /\ Head(events).type = "audio"
      BY <1>26, FrameTaken DEF HandleTTSAudio, AudioOf
    <3>. QED
      BY <1>26, <3>1, EventFields DEF HandleTTSAudio, AudioOf
  <2>4. \A f \in Range(outbound') : f \in Range(outbound) \/ f.gen = curGen
    <3>1. CASE outbound' = outbound
      BY <3>1
    <3>2. ASSUME NEW r \in Nat, outbound' = Append(outbound, Sentence(curGen, r))
          PROVE  Range(outbound') = Range(outbound) \cup {Sentence(curGen, r)}
      <4>1. Sentence(curGen, r) \in SentenceSet
        BY <1>0 DEF Sentence, SentenceSet
      <4>. QED
        BY <3>2, <4>1, AppendRange DEF Typed, TypedFrames
    <3>3. \A r \in Nat : Sentence(curGen, r).gen = curGen
      BY DEF Sentence
    <3>. QED
      BY <2>3, <3>1, <3>2, <3>3
  <2>5. OutboundOK'
    BY <1>0, <2>1, <2>2, <2>4 DEF CutFrames, OutboundOK
  <2>. QED
    BY <2>1, <2>5 DEF CutFrames, HeardOK, CutOK, ReplayOK
<1>. QED
  BY <1>2, <1>3, <1>4, <1>5, <1>6, <1>7, <1>8, <1>9, <1>10, <1>11, <1>12, <1>13, <1>14, <1>15, <1>16, <1>17, <1>18, <1>19, <1>20, <1>21, <1>22, <1>23, <1>24, <1>25, <1>26 DEF Next, Frame, Handler

\* CutStaysCut: once an interruption has cut a reply the caller never hears
\* another frame of it, provided that the first tick after a resumed reply
\* cannot detect the next interruption (BARGE_IN_MIN_SPEECH_MS).
THEOREM CutIsFinal ==
    ASSUME MinSpeech
    PROVE  Spec => []CutStaysCut
<1>1. CutFrames => CutStaysCut
  BY DEF CutFrames, HeardOK, CutStaysCut
<1>2. CutFrames /\ Typed /\ Typed' /\ [Next]_vars => CutFrames'
  BY CutFramesStep
<1>. QED
  BY <1>1, <1>2, CutFramesInit, TypesKept, PTL DEF Spec

-----------------------------------------------------------------------------
\* A paused reply is looked after.

\* Every step leaves someone to look after a paused reply.
LEMMA PauseStep ==
    ASSUME PausedIsChecked, Typed, [Next]_vars
    PROVE  PausedIsChecked'
<1>. USE DEF pauseVars, frameVars, endVars, idleVars, ttsVars, llmVars, envVars, ghostVars, runVars,
             TickOnly, TranscriptUnchanged, ResumeUnchanged, Transcribed, Next1, PausedIsChecked
<1>1. CASE UNCHANGED vars
  BY <1>1 DEF vars
<1>2. CASE \E g \in Gens : LLM(g)
  BY <1>2, OutsideRun DEF LLM, LLMOnly, LLMSays, LLMCancelled, LLMCompletes, LLMFails, LLMCalls, CallReturns,
                          AfterCalls, LLMPosts, LLMEndsGeneration
<1>3. CASE \E c \in Conns : Provider(c)
  BY <1>3 DEF Provider, Synthesize, ConnectionGone
<1>4. CASE Caller
  <2>1. resume' = resume \/ resume' = "posted"
    BY <1>4 DEF Caller, CallerStarts, CallerStops, CallerSaid, CallerMadeNoise, SilenceOver, IdleFires,
                ResumeFires, MaxDurationFires
  <2>. QED
    BY <1>4, <2>1, OutsideRun
<1>5. CASE HandleGreeting \/ HandleOpening \/ AcceptTranscript \/ NothingToPlay \/ ConnectionLostThinking
           \/ HandleIdle \/ HandlePlaybackDone
  <2>1. sigs' = sigs \/ sigs' = sigs \ {"playbackDone"}
    BY <1>5 DEF HandleGreeting, HandleOpening, AcceptTranscript, NothingToPlay, ConnectionLostThinking,
                HandleIdle, HandlePlaybackDone
  <2>. QED
    BY <1>5, <2>1, TurnsCount
<1>6. CASE CutReply
  <2>1. UNCHANGED <<paused, sigs, resume>> /\ run = "cut"
    BY <1>6 DEF CutReply, CutWith
  <2>. QED
    BY <2>1
<1>7. CASE HandleCallerSpeech
  BY <1>7 DEF HandleCallerSpeech
<1>8. CASE IgnoreTranscript
  BY <1>8 DEF IgnoreTranscript
<1>9. CASE HoldTranscript
  BY <1>9 DEF HoldTranscript
<1>10. CASE DeliveryDone
  BY <1>10 DEF DeliveryDone
<1>11. CASE ConnectionLost
  BY <1>11 DEF ConnectionLost
<1>12. CASE HandleLLMDone
  BY <1>12 DEF HandleLLMDone
<1>13. CASE HandleEndCall
  BY <1>13 DEF HandleEndCall
<1>14. CASE HandleDrainTimeout
  BY <1>14 DEF HandleDrainTimeout
<1>15. CASE HandleTTSAudio
  BY <1>15 DEF HandleTTSAudio, AudioOf
<1>16. CASE ReadState
  BY <1>16 DEF ReadState
<1>17. CASE TickEnds
  BY <1>17 DEF TickEnds
<1>18. CASE ReplaySentence
  BY <1>18 DEF ReplaySentence
<1>19. CASE PlayFrame
  BY <1>19 DEF PlayFrame
<1>20. CASE FindEmpty
  BY <1>20 DEF FindEmpty
<1>21. CASE PlaybackDone
  BY <1>21 DEF PlaybackDone
<1>22. CASE DrainTimeout
  BY <1>22 DEF DrainTimeout
<1>23. CASE DetectBargeIn
  BY <1>23 DEF DetectBargeIn
<1>24. CASE KeepWaiting
  BY <1>24 DEF KeepWaiting
<1>25. CASE HandleBargeIn
  BY <1>25 DEF HandleBargeIn
<1>26. CASE TranscriptWhileClosing
  BY <1>26 DEF TranscriptWhileClosing, ResumeReply
<1>27. CASE Acknowledged
  BY <1>27 DEF Acknowledged, ResumeReply
<1>28. CASE FalseInterruption
  BY <1>28 DEF FalseInterruption, ResumeReply
<1>29. CASE Interrupted
  BY <1>29 DEF Interrupted
<1>30. CASE ConfirmInterruption
  BY <1>30 DEF ConfirmInterruption
<1>31. CASE Unpause
  BY <1>31 DEF Unpause
<1>32. CASE CallEnds
  BY <1>32 DEF CallEnds
<1>. QED
  BY <1>1, <1>2, <1>3, <1>4, <1>5, <1>6, <1>7, <1>8, <1>9, <1>10, <1>11, <1>12, <1>13, <1>14, <1>15, <1>16, <1>17, <1>18, <1>19, <1>20, <1>21, <1>22, <1>23, <1>24, <1>25, <1>26, <1>27, <1>28, <1>29, <1>30, <1>31, <1>32 DEF Next, Frame, Handler

\* PausedIsChecked, the safety part of ReplyEnds: a reply never stands still
\* with no signal raised, no resume check pending and no cut under way.
THEOREM PauseIsLookedAfter == Spec => []PausedIsChecked
<1>1. Init => PausedIsChecked
  BY DEF Init, InitWith, PausedIsChecked
<1>2. PausedIsChecked /\ Typed /\ [Next]_vars => PausedIsChecked'
  BY PauseStep
<1>. QED
  BY <1>1, <1>2, TypesKept, PTL DEF Spec

-----------------------------------------------------------------------------
\* The order of the events.

Opens(e) == e.type \in {"greeting", "opening"}

\* What may stand behind what: the event that opens the call is the first; the
\* end of an LLM turn comes before the Done of its speech, which comes once; and
\* so does the firing of the silence clock.
PairOK(a, b) ==
    /\ ~Opens(b)
    /\ a.type = "done" => ~(b.type \in {"done", "llmDone"} /\ b.gen = a.gen)
    /\ a.type = "idle" => b.type # "idle"

Ordered(q) == \A i, j \in 1 .. Len(q) : i < j => PairOK(q[i], q[j])

\* A queue in order stays so when events are left out.
LEMMA OrderedShorter ==
    ASSUME NEW S, NEW a \in Seq(S), NEW b \in Seq(S), Shorter(a, b), Ordered(b)
    PROVE  Ordered(a)
<1>1. PICK f \in [1 .. Len(a) -> 1 .. Len(b)] :
        /\ \A i \in 1 .. Len(a) : a[i] = b[f[i]]
        /\ \A i, j \in 1 .. Len(a) : i < j => f[i] < f[j]
  BY DEF Shorter
<1>2. SUFFICES ASSUME NEW i \in 1 .. Len(a), NEW j \in 1 .. Len(a), i < j
               PROVE  PairOK(a[i], a[j])
  BY DEF Ordered
<1>3. f[i] \in 1 .. Len(b) /\ f[j] \in 1 .. Len(b) /\ f[i] < f[j]
  BY <1>1, <1>2
<1>4. PairOK(b[f[i]], b[f[j]])
  BY <1>3 DEF Ordered
<1>. QED
  BY <1>1, <1>4

\* An event that fits behind all others can be appended.
LEMMA OrderedAppend ==
    ASSUME NEW S, NEW q \in Seq(S), NEW e \in S, Ordered(q), \A a \in Range(q) : PairOK(a, e)
    PROVE  Ordered(Append(q, e))
<1>1. /\ Len(Append(q, e)) = Len(q) + 1 /\ Append(q, e)[Len(q) + 1] = e
      /\ \A i \in 1 .. Len(q) : Append(q, e)[i] = q[i]
  BY AppendProperties
<1>2. Len(q) \in Nat /\ DOMAIN q = 1 .. Len(q)
  BY LenProperties
<1>3. SUFFICES ASSUME NEW i \in 1 .. Len(q) + 1, NEW j \in 1 .. Len(q) + 1, i < j
               PROVE  PairOK(Append(q, e)[i], Append(q, e)[j])
  BY <1>1 DEF Ordered
<1>4. CASE j \in 1 .. Len(q)
  BY <1>1, <1>2, <1>3, <1>4 DEF Ordered
<1>5. CASE j = Len(q) + 1
  <2>1. i \in 1 .. Len(q) /\ q[i] \in Range(q)
    BY <1>2, <1>3, <1>5 DEF Range
  <2>. QED
    BY <1>1, <1>5, <2>1
<1>. QED
  BY <1>2, <1>4, <1>5

\* An element before the last one.
LEMMA OrderedOvertaken ==
    ASSUME NEW S, NEW q \in Seq(S), q # <<>>, NEW d \in S, Ordered(q), \A a \in Range(q) : PairOK(a, d),
           PairOK(d, q[Len(q)])
    PROVE  Ordered(Overtaken(q, d))
<1>. DEFINE n == Len(q)
            r == Overtaken(q, d)
<1>1. /\ Len(r) = n + 1 /\ r[n] = d /\ r[n + 1] = q[n]
      /\ \A i \in 1 .. n : i # n => r[i] = q[i]
  BY OvertakenShape
<1>2. n \in Nat /\ n # 0 /\ DOMAIN q = 1 .. n
  BY LenProperties, EmptySeq
<1>3. PairOK(d, q[n]) /\ \A i \in 1 .. n : PairOK(q[i], d)
  BY <1>2 DEF Range
<1>4. \A i, j \in 1 .. n : i < j => PairOK(q[i], q[j])
  BY DEF Ordered
<1>. HIDE DEF n, r
<1>5. SUFFICES ASSUME NEW i \in 1 .. n + 1, NEW j \in 1 .. n + 1, i < j
               PROVE  PairOK(r[i], r[j])
  BY <1>1 DEF Ordered, r
<1>6. i \in 1 .. n
  BY <1>2, <1>5
<1>7. CASE j = n + 1
  <2>1. n \in 1 .. n /\ (i = n \/ (i # n /\ i < n))
    BY <1>2, <1>6
  <2>. QED
    BY <1>1, <1>3, <1>4, <1>6, <1>7, <2>1
<1>8. CASE j = n
  <2>1. i # n
    BY <1>5, <1>8, <1>2
  <2>. QED
    BY <1>1, <1>3, <1>6, <1>8, <2>1
<1>9. CASE j \in 1 .. n /\ j # n
  <2>1. i # n
    BY <1>5, <1>9, <1>2
  <2>. QED
    BY <1>1, <1>4, <1>5, <1>6, <1>9, <2>1
<1>. QED
  BY <1>2, <1>7, <1>8, <1>9

\* A Done may be put in wherever no other event of its reply's end is queued.
LEMMA OrderedForward ==
    ASSUME NEW q \in Seq(Event), Ordered(q), NEW c, NEW g \in Nat, NEW r \in Forward(q, c, g),
           r = q \/ \A a \in Range(q) : PairOK(a, Done(g))
    PROVE  Ordered(r)
<1>1. PICK d \in Event : d = Done(g)
  BY EventsAre
<1>2. r = q \/ r = Append(q, d) \/ (q # <<>> /\ q[Len(q)].type = "audio" /\ r = Overtaken(q, d))
  BY <1>1 DEF Forward, ForwardDone, Overtaken
<1>3. CASE r = q
  BY <1>3
<1>4. CASE r # q /\ r = Append(q, d)
  BY <1>1, <1>4, OrderedAppend
<1>5. CASE r # q /\ q # <<>> /\ q[Len(q)].type = "audio" /\ r = Overtaken(q, d)
  <2>1. PairOK(d, q[Len(q)])
    BY <1>1, <1>5 DEF PairOK, Opens, Done
  <2>. QED
    BY <1>1, <1>5, <2>1, OrderedOvertaken
<1>. QED
  BY <1>2, <1>3, <1>4, <1>5

\* The first event and the others.
LEMMA HeadFirst ==
    ASSUME NEW S, NEW q \in Seq(S), q # <<>>, Ordered(q)
    PROVE  /\ \A e \in Range(Tail(q)) : PairOK(Head(q), e)
           /\ Range(q) = {Head(q)} \cup Range(Tail(q))
<1>1. /\ Len(q) \in Nat \ {0} /\ Tail(q) \in Seq(S) /\ Len(Tail(q)) = Len(q) - 1 /\ Head(q) = q[1]
      /\ \A i \in 1 .. Len(Tail(q)) : Tail(q)[i] = q[i + 1]
  BY EmptySeq, HeadTailProperties
<1>2. DOMAIN q = 1 .. Len(q) /\ DOMAIN Tail(q) = 1 .. Len(q) - 1
  BY <1>1, LenProperties
<1>3. ASSUME NEW i \in 1 .. Len(q) - 1
      PROVE  PairOK(Head(q), Tail(q)[i]) /\ Tail(q)[i] \in Range(q)
  <2>1. 1 \in 1 .. Len(q) /\ i + 1 \in 1 .. Len(q) /\ 1 < i + 1
    BY <1>1
  <2>. QED
    BY <1>1, <1>2, <1>3, <2>1 DEF Ordered, Range
<1>4. ASSUME NEW i \in 1 .. Len(q)
      PROVE  q[i] = Head(q) \/ q[i] \in Range(Tail(q))
  <2>1. i = 1 \/ (i - 1 \in 1 .. Len(q) - 1 /\ i = (i - 1) + 1)
    BY <1>1
  <2>. QED
    BY <1>1, <1>2, <2>1 DEF Range
<1>5. Head(q) \in Range(q)
  BY TailShorter
<1>6. Range(q) = {q[i] : i \in 1 .. Len(q)} /\ Range(Tail(q)) = {Tail(q)[i] : i \in 1 .. Len(q) - 1}
  BY <1>2 DEF Range
<1>. QED
  BY <1>3, <1>4, <1>5, <1>6

\* Taking out the event of a type leaves every event of another type, and, of the
\* silence clock's, none.
LEMMA WithoutLeaves ==
    ASSUME NEW S, NEW q \in Seq(S), NEW type
    PROVE  /\ Range(Without(q, type)) \subseteq Range(q)
           /\ \A e \in Range(q) : e.type # type => e \in Range(Without(q, type))
           /\ type = "idle" /\ Ordered(q) => \A e \in Range(Without(q, type)) : e.type # "idle"
<1>0. Range(Without(q, type)) \subseteq Range(q)
  BY WithoutShorter, ShorterRange
<1>1. CASE ~\E i \in 1 .. Len(q) : q[i].type = type
  <2>1. Without(q, type) = q /\ DOMAIN q = 1 .. Len(q)
    BY <1>1, LenProperties DEF Without
  <2>. QED
    BY <1>1, <2>1 DEF Range
<1>2. CASE \E i \in 1 .. Len(q) : q[i].type = type
  <2>. DEFINE k == CHOOSE i \in 1 .. Len(q) : q[i].type = type
              r == RemoveAt(q, k)
  <2>1. k \in 1 .. Len(q) /\ q[k].type = type /\ Without(q, type) = r
    BY <1>2 DEF Without
  <2>. HIDE DEF k
  <2>2. /\ r \in Seq(S) /\ Len(r) = Len(q) - 1
        /\ \A i \in 1 .. Len(q) - 1 : r[i] = IF i < k THEN q[i] ELSE q[i + 1]
    BY <2>1, RemoveAtKeeps
  <2>3. Len(q) \in Nat /\ DOMAIN q = 1 .. Len(q) /\ DOMAIN r = 1 .. Len(q) - 1
    BY <2>2, LenProperties
  <2>. HIDE DEF r
  <2>4. ASSUME NEW i \in 1 .. Len(q), i # k
        PROVE  q[i] \in Range(r)
    <3>1. CASE i < k
      <4>1. i \in 1 .. Len(q) - 1 /\ r[i] = q[i]
        BY <2>1, <2>2, <2>3, <3>1
      <4>. QED
        BY <2>3, <4>1 DEF Range
    <3>2. CASE ~(i < k)
      <4>1. i - 1 \in 1 .. Len(q) - 1 /\ ~(i - 1 < k) /\ (i - 1) + 1 = i
        BY <2>1, <2>3, <2>4, <3>2
      <4>2. r[i - 1] = q[i]
        BY <2>2, <4>1
      <4>. QED
        BY <2>3, <4>1, <4>2 DEF Range
    <3>. QED
      BY <3>1, <3>2
  <2>5. \A e \in Range(q) : e.type # type => e \in Range(r)
    BY <2>1, <2>3, <2>4 DEF Range
  <2>6. ASSUME type = "idle", Ordered(q), NEW i \in 1 .. Len(q) - 1
        PROVE  r[i].type # "idle"
    <3>1. CASE i < k
      <4>1. i \in 1 .. Len(q) /\ r[i] = q[i]
        BY <2>1, <2>2, <2>3, <3>1
      <4>2. PairOK(q[i], q[k])
        BY <2>1, <2>6, <3>1, <4>1 DEF Ordered
      <4>. QED
        BY <2>1, <2>6, <4>1, <4>2 DEF PairOK
    <3>2. CASE ~(i < k)
      <4>1. i + 1 \in 1 .. Len(q) /\ k < i + 1 /\ r[i] = q[i + 1]
        BY <2>1, <2>2, <2>3, <3>2
      <4>2. PairOK(q[k], q[i + 1])
        BY <2>1, <2>6, <4>1 DEF Ordered
      <4>. QED
        BY <2>1, <2>6, <4>1, <4>2 DEF PairOK
    <3>. QED
      BY <3>1, <3>2
  <2>7. type = "idle" /\ Ordered(q) => \A e \in Range(r) : e.type # "idle"
    BY <2>3, <2>6 DEF Range
  <2>. QED
    BY <1>0, <2>1, <2>5, <2>7
<1>. QED
  BY <1>1, <1>2

-----------------------------------------------------------------------------
\* One turn at a time, the silence clock, and the end of the call: while no
\* connection or request fails, no reply is given up, and a tick of ProcessFrame
\* is not held up.

Untroubled == ~Stalls /\ MaxFaults = 0 /\ "tick" \notin Preempt

Live(g) == Running(g) /\ ~turn[g].cancelled
Pending(g) == \E c \in Conns : HasPending(conn[c], g)
\* A reply is in progress, or is being cut.
Busy == state \in {"Thinking", "Speaking"} \/ run \in {"unpause", "cut"}
\* The end of delivery is known and finishTurn still to come.
Delivered == ttsDeliveryDone \/ "playbackDone" \in sigs

NoTrouble == tick = "idle" /\ faults = 0 /\ "drainTimeout" \notin sigs

\* The signals of a pause are handled before silenceUntil passes, so none is
\* raised while a reply is being cut.
PauseOK ==
    /\ paused /\ ~silence => sigs = {}
    /\ run \in {"confirm", "unpause"} => paused /\ ~silence
    /\ state = "Transcribing" <=> run \in {"unpause", "cut"}
    /\ run = "cut" => sigs = {}

\* A turn that has not been cancelled is the current one, whose reply is in
\* progress.
TurnsOK == \A g \in Gens :
    /\ turn[g].pc # "none" => g <= curGen
    /\ Live(g) => g = curGen /\ Busy
    /\ Running(g) /\ turn[g].cancelled => g < curGen

\* Requests are those of one connection, to which their turn speaks; only a
\* connection that has been replaced is closed.
ClientsOK ==
    /\ tts <= ttsConn
    /\ \A c \in Conns :
        /\ c > ttsConn => conn[c] = NoConn
        /\ conn[c].up /\ ~conn[c].open => c # tts
        /\ \A g \in Nat : HasPending(conn[c], g) =>
             /\ g <= curGen
             /\ g \in Gens /\ Running(g) => turn[g].conn = c
             /\ \A d \in Conns : HasPending(conn[d], g) => d = c
        /\ \A g \in conn[c].ended : g <= curGen /\ ~(g \in Gens /\ Running(g))

\* What an event in the queue says is still so when its turn comes.
QueueOK ==
    /\ Ordered(events)
    /\ \A e \in Range(events) :
        /\ Opens(e) => state = "Listening" /\ run = "idle" /\ idleTimer = "off"
        /\ e.type = "done" => e.gen <= curGen /\ ~(e.gen \in Gens /\ Running(e.gen)) /\ ~Pending(e.gen)
        /\ e.type = "llmDone" => e.gen <= curGen /\ (e.gen = curGen => Busy)
        /\ e.type = "closed" => e.conn <= ttsConn /\ e.conn # tts
        /\ e.type = "idle" => idleTimer = "fired"

\* Once the delivery of the current reply has ended nothing more comes of it.
DeliveryOK ==
    /\ Delivered =>
        /\ state = "Speaking" \/ run \in {"unpause", "cut"}
        /\ curGen \in Gens => ~Running(curGen)
        /\ ~Pending(curGen)
        /\ \A e \in Range(events) : e.type \in {"done", "llmDone"} => e.gen # curGen
    /\ "playbackDone" \in sigs => ~ttsDeliveryDone

EndOK ==
    /\ ending => closing /\ run \in {"idle", "over"}
    /\ ending /\ ~Busy /\ run # "over" => hungUp
    /\ hangupAfterTurn => Busy \/ run = "over"

ClockOK ==
    /\ idleTimer = "fired" => Plain("idle") \in Range(events)
    /\ idleTimer # "off" => ~ending /\ (state = "Listening" \/ run \in {"unpause", "cut"})
    /\ state = "Listening" /\ run \in {"idle", "confirm"} /\ idleArmed /\ IdleTimeout
          /\ ~ending /\ ~hungUp /\ ~callerSpeaking => idleTimer # "off"

TurnInv ==
    NoTrouble /\ PauseOK /\ TurnsOK /\ ClientsOK /\ QueueOK /\ DeliveryOK /\ EndOK /\ ClockOK

\* While the handler is idle a reply is in progress exactly when the agent does
\* not listen, and after its delivery the agent speaks.
LEMMA IdleStates ==
    ASSUME Typed, TurnInv, run = "idle"
    PROVE  /\ state \in {"Listening", "Thinking", "Speaking"}
           /\ state = "Listening" => ~Busy /\ ~Delivered /\ \A g \in Gens : ~Live(g)
           /\ state = "Thinking" => ~Delivered
<1>1. state \in {"Listening", "Thinking", "Speaking"}
  BY DEF Typed, TypedStates, TurnInv, PauseOK
<1>2. state = "Listening" => ~Busy
  BY DEF Busy
<1>. QED
  BY <1>1, <1>2 DEF TurnInv, TurnsOK, DeliveryOK

\* What does not happen while there is no trouble.
LEMMA NoTroubleSteps ==
    ASSUME Untroubled, Typed, TurnInv
    PROVE  /\ ~ReadState /\ ~TickEnds /\ ~FindEmpty /\ ~DrainTimeout /\ ~HandleDrainTimeout
           /\ ~ConnectionLostThinking
           /\ ConnectionLost => UNCHANGED <<tts, turn, ttsDeliveryDone>>
           /\ \A g \in Gens : ~LLMFails(g)
           /\ \A c \in Conns : ConnectionGone(c) => ~conn[c].open
           /\ \A c \in Conns : ~Synthesize(c, FALSE)
<1>. USE DEF Untroubled, TurnInv, NoTrouble
<1>1. ~ReadState /\ ~TickEnds /\ ~FindEmpty /\ ~DrainTimeout /\ ~HandleDrainTimeout
  BY DEF ReadState, TickEnds, FindEmpty, DrainTimeout, HandleDrainTimeout
<1>2. events # <<>> /\ Head(events).type = "closed" => Head(events).conn # tts
  BY TailShorter DEF QueueOK, Typed
<1>3. ~ConnectionLostThinking /\ (ConnectionLost => UNCHANGED <<tts, turn, ttsDeliveryDone>>)
  BY <1>2 DEF ConnectionLostThinking, ConnectionLost, Next1
<1>4. \A g \in Gens : ~LLMFails(g)
  BY DEF LLMFails
<1>5. \A c \in Conns : (ConnectionGone(c) => ~conn[c].open) /\ ~Synthesize(c, FALSE)
  BY DEF ConnectionGone, Synthesize
<1>. QED
  BY <1>1, <1>3, <1>4, <1>5

\* The connection c in use stays, or a new client takes its place, among those cs.
Opened(c, cs) ==
    \/ c # 0 /\ tts' = c /\ ttsConn' = ttsConn /\ conn' = cs
    \/ /\ c = 0 /\ tts' = ttsConn + 1 /\ ttsConn' = ttsConn + 1
       /\ \A d \in Conns : conn'[d] = IF d = ttsConn + 1 THEN NewClient ELSE cs[d]

\* startTurn with a connection that opens.
LEMMA TurnBegins ==
    ASSUME Untroubled, Typed, TurnInv, NEW g \in Nat, NEW q \in Seq(Event), NEW c \in Nat,
           NEW cs \in [Conns -> Client], NEW t \in [Gens -> Turn], StartTurn(g, q, c, cs, t)
    PROVE  /\ state' = "Thinking" /\ curGen' = g /\ turnChunks' = {} /\ hangupAfterTurn' = FALSE
           /\ playing' = 0 /\ idleTimer' = "off" /\ events' = Without(q, "idle") /\ faults' = faults
           /\ \A h \in Gens : turn'[h] = IF h = g THEN NewTurn(tts') ELSE t[h]
           /\ Opened(c, cs)
<1>1. OpenSucceeds(c, cs, NewClient)
  BY DEF StartTurn, OpenTTS, OpenFails, Untroubled, TurnInv, NoTrouble
<1>2. state' = "Thinking" /\ faults' = faults
  BY <1>1 DEF OpenSucceeds
<1>3. turn' = [t EXCEPT ![g] = NewTurn(tts')]
  BY <1>2 DEF StartTurn
<1>4. \A h \in Gens : turn'[h] = IF h = g THEN NewTurn(tts') ELSE t[h]
  BY <1>3
<1>5. CASE c # 0
  BY <1>1, <1>2, <1>4, <1>5 DEF OpenSucceeds, StartTurn, StopIdleTimer, Opened
<1>6. CASE c = 0
  <2>1. conn' = [cs EXCEPT ![ttsConn + 1] = NewClient] /\ tts' = ttsConn + 1 /\ ttsConn' = ttsConn + 1
    BY <1>1, <1>6 DEF OpenSucceeds
  <2>2. \A d \in Conns : conn'[d] = IF d = ttsConn + 1 THEN NewClient ELSE cs[d]
    BY <2>1
  <2>. QED
    BY <1>2, <1>4, <1>6, <2>1, <2>2 DEF StartTurn, StopIdleTimer, Opened
<1>. QED
  BY <1>5, <1>6

\* finishTurn without a next turn.
Listens(q, c, t) ==
    /\ state' = (IF state \in {"Speaking", "Thinking"} THEN "Listening" ELSE state)
    /\ turnChunks' = {} /\ tts' = c /\ turn' = t
    /\ UNCHANGED <<curGen, playing, ttsConn, conn, faults>>
    /\ \/ /\ hangupAfterTurn \/ ending
          /\ hangupAfterTurn' = FALSE /\ hungUp' = TRUE /\ events' = q
          /\ UNCHANGED <<idleTimer, idleArmed, idleCount>>
       \/ /\ ~hangupAfterTurn /\ ~ending
          /\ idleTimer' = (IF IdleTimeout /\ ~ending THEN "armed" ELSE "off")
          /\ events' = Without(q, "idle") /\ idleArmed' = TRUE
          /\ UNCHANGED <<hangupAfterTurn, hungUp, idleCount>>

\* finishTurn records the reply and either listens or answers held speech.
LEMMA TurnFinishes ==
    ASSUME NEW q, NEW c, NEW t, FinishTurn(q, c, t)
    PROVE  /\ recorded' = Recorded(TRUE) /\ held' = {}
           /\ \/ Listens(q, c, t)
              \/ /\ StartTurn(curGen + 1, q, c, conn, t) /\ ~hangupAfterTurn /\ ~ending
                 /\ idleCount' = 0 /\ UNCHANGED <<hungUp, idleArmed>>
BY DEF FinishTurn, Listens, StartIdleTimer, idleVars

\* A new reply: the turn before it is over or cancelled, and what is left of the
\* queue is of older replies.  Greets: the greeting, which has no turn.
Begins ==
    /\ run \in {"idle", "cut"} /\ run' = "idle" /\ state' = "Thinking" /\ curGen' > curGen
    /\ hangupAfterTurn' = FALSE /\ idleTimer' = "off" /\ ~ttsDeliveryDone'
    /\ sigs' \subseteq sigs /\ "playbackDone" \notin sigs'
    /\ UNCHANGED <<tick, faults, paused, silence>> /\ (ending' => closing')
    /\ events' \in Seq(Event) /\ Ordered(events')
    /\ \A e \in Range(events') : e \in Range(events) /\ ~Opens(e) /\ e.type # "idle"
    /\ \A g \in Gens \ {curGen'} : turn'[g].pc = turn[g].pc /\ turn'[g].conn = turn[g].conn
                                   /\ (Running(g) => turn'[g].cancelled)
    /\ tts' <= ttsConn' /\ ttsConn' >= ttsConn /\ (tts' = tts \/ tts' > ttsConn)

\* Of the connections, the new one, if there is one, has only the greeting.
SameQueue(c, d) == c.pending = d.pending /\ c.ended = d.ended /\ c.up = d.up
Connected(c) ==
    \/ /\ SameQueue(conn'[c], conn[c]) /\ (c > ttsConn => conn'[c] = conn[c])
       /\ conn'[c].open = conn[c].open \/ c # tts'
    \/ /\ c = tts' /\ conn'[c].open /\ c > ttsConn /\ c <= ttsConn'
       /\ \A g \in Nat : HasPending(conn'[c], g) => g = curGen' /\ turn'= turn
       /\ \A g \in conn'[c].ended : g = curGen' /\ turn' = turn
Connects == \A c \in Conns : Connected(c)
NewOrNone == curGen' \in Gens => turn'[curGen'] = NewTurn(tts') \/ turn' = turn

\* A client that is new, or gone, has no request.
LEMMA NoPending ==
    /\ \A g : ~HasPending(NewClient, g) /\ ~HasPending(NoConn, g)
    /\ NewClient.ended = {} /\ NewClient.open
BY DEF HasPending, NewClient, NoConn

\* A queue of events without those of one type.
LEMMA QueueShrinks ==
    ASSUME NEW q \in Seq(Event), NEW type
    PROVE  /\ Without(q, type) \in Seq(Event) /\ Range(Without(q, type)) \subseteq Range(q)
           /\ \A e \in Range(q) : e.type # type => e \in Range(Without(q, type))
           /\ Ordered(q) => Ordered(Without(q, type))
           /\ Ordered(q) /\ type = "idle" => \A e \in Range(Without(q, type)) : e.type # "idle"
<1>1. Without(q, type) \in Seq(Event) /\ (Ordered(q) => Ordered(Without(q, type)))
  BY WithoutShorter, OrderedShorter
<1>. QED
  BY <1>1, WithoutLeaves

\* What is left of the events when the first has been handled.
LEMMA QueueLeft ==
    ASSUME Typed, TurnInv
    PROVE  /\ events \in Seq(Event) /\ Ordered(events)
           /\ events # <<>> => /\ q1 \in Seq(Event) /\ Head(events) \in Range(events) /\ Head(events) \in Event
                               /\ Ordered(q1) /\ Range(q1) \subseteq Range(events)
                               /\ Range(events) = {Head(events)} \cup Range(q1)
                               /\ \A e \in Range(q1) : PairOK(Head(events), e) /\ ~Opens(e)
<1>1. events \in Seq(Event) /\ Ordered(events)
  BY DEF Typed, TurnInv, QueueOK
<1>2. ASSUME events # <<>>
      PROVE  /\ q1 \in Seq(Event) /\ Head(events) \in Range(events) /\ Head(events) \in Event
             /\ Ordered(q1) /\ Range(q1) \subseteq Range(events)
             /\ Range(events) = {Head(events)} \cup Range(q1)
             /\ \A e \in Range(q1) : PairOK(Head(events), e) /\ ~Opens(e)
  <2>1. q1 \in Seq(Event) /\ Shorter(q1, events) /\ Head(events) \in Range(events)
    BY <1>1, <1>2, TailShorter DEF q1
  <2>2. Ordered(q1) /\ Range(q1) \subseteq Range(events)
    BY <1>1, <2>1, OrderedShorter, ShorterRange
  <2>3. (\A e \in Range(q1) : PairOK(Head(events), e)) /\ Range(events) = {Head(events)} \cup Range(q1)
    BY <1>1, <1>2, HeadFirst DEF q1
  <2>4. Head(events) \in Event
    BY <1>1, <2>1, RangeTyped
  <2>. QED
    BY <2>1, <2>2, <2>3, <2>4 DEF PairOK
<1>. QED
  BY <1>1, <1>2

\* startTurn from the handler's own connection and turns, or after a cut.
LEMMA StartBegins ==
    ASSUME Untroubled, Typed, TurnInv, NEW g \in Nat, g > curGen, NEW q \in Seq(Event), Ordered(q),
           NEW c \in {0, tts},
           NEW cs \in [Conns -> Client], NEW t \in [Gens -> Turn], StartTurn(g, q, c, cs, t),
           run \in {"idle", "cut"}, run' = "idle", ~ttsDeliveryDone', sigs' \subseteq sigs,
           "playbackDone" \notin sigs', UNCHANGED <<tick, paused, silence>>, ending' => closing',
           \A e \in Range(q) : e \in Range(events) /\ ~Opens(e),
           \A h \in Gens : t[h].pc = turn[h].pc /\ t[h].conn = turn[h].conn /\ (Running(h) => t[h].cancelled),
           \A d \in Conns : SameQueue(cs[d], conn[d]) /\ (d > ttsConn => cs[d] = conn[d])
                            /\ (cs[d].open = conn[d].open \/ (c = 0 /\ d <= ttsConn))
    PROVE  Begins /\ Connects /\ NewOrNone
<1>0. tts \in Nat /\ ttsConn \in Nat /\ tts <= ttsConn /\ curGen \in Nat /\ Conns \subseteq Nat \ {0}
  BY Numbers DEF Typed, TypedNumbers, TurnInv, ClientsOK
<1>1. /\ state' = "Thinking" /\ curGen' = g /\ hangupAfterTurn' = FALSE
      /\ idleTimer' = "off" /\ events' = Without(q, "idle") /\ faults' = faults
      /\ \A h \in Gens : turn'[h] = IF h = g THEN NewTurn(tts') ELSE t[h]
      /\ Opened(c, cs)
  <2>1. /\ Untroubled /\ Typed /\ TurnInv /\ g \in Nat /\ q \in Seq(Event) /\ c \in Nat
        /\ cs \in [Conns -> Client] /\ t \in [Gens -> Turn] /\ StartTurn(g, q, c, cs, t)
    BY <1>0
  <2>. QED
    BY ONLY <2>1, TurnBegins
<1>2. /\ events' \in Seq(Event) /\ Ordered(events')
      /\ \A e \in Range(events') : e \in Range(events) /\ ~Opens(e) /\ e.type # "idle"
  <2>1. /\ Without(q, "idle") \in Seq(Event) /\ Range(Without(q, "idle")) \subseteq Range(q)
        /\ Ordered(Without(q, "idle")) /\ \A e \in Range(Without(q, "idle")) : e.type # "idle"
    BY QueueShrinks
  <2>. QED
    BY <1>1, <2>1
<1>3. tts' <= ttsConn' /\ ttsConn' >= ttsConn /\ (tts' = tts \/ tts' > ttsConn)
  BY <1>0, <1>1 DEF Opened
<1>4. Begins
  BY <1>1, <1>2, <1>3 DEF Begins
<1>5. NewOrNone
  BY <1>1 DEF NewOrNone
<1>6. ASSUME NEW d \in Conns
      PROVE  Connected(d)
  <2>0. /\ SameQueue(cs[d], conn[d]) /\ (d > ttsConn => cs[d] = conn[d])
        /\ cs[d].open = conn[d].open \/ (c = 0 /\ d <= ttsConn)
    OBVIOUS
  <2>1. CASE c # 0
    BY <1>1, <2>0, <2>1 DEF Connected, Opened
  <2>2. CASE c = 0 /\ d = ttsConn + 1
    <3>1. conn'[d] = NewClient /\ d = tts' /\ d > ttsConn /\ d <= ttsConn'
      BY <1>0, <1>1, <2>2 DEF Opened
    <3>. QED
      BY <3>1, NoPending DEF Connected, Opened
  <2>3. CASE c = 0 /\ d # ttsConn + 1
    BY <1>0, <1>1, <2>0, <2>3 DEF Connected, Opened
  <2>. QED
    BY <2>1, <2>2, <2>3
<1>. QED
  BY <1>4, <1>5, <1>6 DEF Connects

\* Cancelling: after it no turn is live, and nothing else of a turn has changed.
LEMMA CancelEnds ==
    ASSUME Typed, TurnInv
    PROVE  /\ CancelTurn(turn) \in [Gens -> Turn]
           /\ \A h \in Gens : /\ CancelTurn(turn)[h].pc = turn[h].pc /\ CancelTurn(turn)[h].conn = turn[h].conn
                              /\ Running(h) => CancelTurn(turn)[h].cancelled
<1>. DEFINE started == {g \in Gens : turn[g].pc # "none"}
            m == Max(started)
<1>1. turn \in [Gens -> Turn] /\ curGen \in Nat /\ Gens \subseteq Nat
  BY Numbers DEF Typed, TypedNumbers
<1>2. \/ CancelTurn(turn) = turn /\ (started = {} \/ turn[m].pc = "over")
      \/ CancelTurn(turn) = [turn EXCEPT ![m].cancelled = TRUE]
  BY DEF CancelTurn
<1>3. ASSUME NEW h \in Gens, Live(h)
      PROVE  h \in started /\ m = h
  <2>1. h \in started /\ h = curGen /\ \A y \in started : y <= curGen
    BY <1>3 DEF TurnInv, TurnsOK, Live, Running
  <2>. HIDE DEF started
  <2>2. h \in Nat /\ \A y \in started : y \in Nat /\ y <= h
    BY <1>1, <2>1 DEF started
  <2>3. \E x \in started : \A y \in started : x >= y
    BY <2>1, <2>2
  <2>4. m \in started /\ \A y \in started : m >= y
    BY <2>3 DEF Max
  <2>5. m >= h /\ m <= h /\ m \in Nat
    BY <2>1, <2>2, <2>4
  <2>. QED
    BY <2>1, <2>2, <2>5
<1>. HIDE DEF m, started
<1>4. ASSUME NEW h \in Gens
      PROVE  /\ CancelTurn(turn)[h].pc = turn[h].pc /\ CancelTurn(turn)[h].conn = turn[h].conn
             /\ turn[h].cancelled => CancelTurn(turn)[h].cancelled
  <2>1. turn[h] \in Turn /\ (CancelTurn(turn)[h] = turn[h] \/ CancelTurn(turn)[h] = [turn[h] EXCEPT !.cancelled = TRUE])
    BY <1>1, CancelMarks
  <2>. QED
    BY <2>1 DEF Turn
<1>5. ASSUME NEW h \in Gens, Live(h)
      PROVE  CancelTurn(turn)[h].cancelled
  <2>1. h \in started /\ m = h /\ turn[h].pc # "over"
    BY <1>3, <1>5 DEF Live, Running
  <2>2. CancelTurn(turn) = [turn EXCEPT ![h].cancelled = TRUE]
    BY <1>2, <2>1
  <2>. QED
    BY <1>1, <2>2 DEF Turn
<1>. QED
  BY <1>1, <1>4, <1>5, CancelMarks DEF Live

\* A turn is over and no other begins: the agent listens.
Ends ==
    /\ run = "idle" /\ run' = "idle" /\ state \in {"Thinking", "Speaking"} /\ state' = "Listening"
    /\ UNCHANGED <<turn, conn, curGen, tts, ttsConn, tick, faults, paused, silence, ending, closing,
                   callerSpeaking>>
    /\ sigs' \subseteq sigs /\ "playbackDone" \notin sigs' /\ ~ttsDeliveryDone'
    /\ \A g \in Gens : ~Live(g)
    /\ events' \in Seq(Event) /\ Ordered(events') /\ Range(events') \subseteq Range(events)
    /\ \A e \in Range(events') : ~Opens(e) /\ ~(e.type = "llmDone" /\ e.gen = curGen)
    /\ \/ hungUp' = TRUE /\ hangupAfterTurn' = FALSE /\ UNCHANGED <<idleTimer, idleArmed>>
       \/ /\ ~hangupAfterTurn' /\ ~ending /\ idleTimer' = (IF IdleTimeout THEN "armed" ELSE "off")
          /\ \A e \in Range(events') : e.type # "idle"

\* Every handler that ends a turn: another one begins, or the agent listens.
LEMMA FinishKinds ==
    ASSUME Untroubled, Typed, TurnInv, NEW q \in Seq(Event), FinishTurn(q, tts, turn),
           run = "idle", run' = "idle", ~ttsDeliveryDone', sigs' \subseteq sigs, "playbackDone" \notin sigs',
           UNCHANGED <<tick, paused, silence, ending, closing, callerSpeaking>>,
           state \in {"Thinking", "Speaking"}, \A g \in Gens : ~Live(g), Ordered(q),
           \A e \in Range(q) : e \in Range(events) /\ ~(e.type = "llmDone" /\ e.gen = curGen)
    PROVE  (Begins /\ Connects /\ NewOrNone) \/ Ends
<1>1. \A e \in Range(q) : ~Opens(e)
  BY DEF TurnInv, QueueOK
<1>2. curGen \in Nat /\ tts \in Nat /\ ending \in BOOLEAN /\ closing \in BOOLEAN /\ (ending => closing)
  BY DEF Typed, TypedNumbers, TypedBits, TurnInv, EndOK
<1>3. CASE Listens(q, tts, turn)
  <2>1. /\ Without(q, "idle") \in Seq(Event) /\ Range(Without(q, "idle")) \subseteq Range(q)
        /\ Ordered(Without(q, "idle")) /\ \A e \in Range(Without(q, "idle")) : e.type # "idle"
    BY QueueShrinks
  <2>2. events' \in {q, Without(q, "idle")} /\ state' = "Listening"
    BY <1>3 DEF Listens
  <2>3. /\ events' \in Seq(Event) /\ Ordered(events') /\ Range(events') \subseteq Range(events)
        /\ \A e \in Range(events') : ~Opens(e) /\ ~(e.type = "llmDone" /\ e.gen = curGen)
    BY <1>1, <2>1, <2>2
  <2>4. \/ hungUp' = TRUE /\ hangupAfterTurn' = FALSE /\ UNCHANGED <<idleTimer, idleArmed>>
        \/ /\ ~hangupAfterTurn' /\ ~ending /\ idleTimer' = (IF IdleTimeout THEN "armed" ELSE "off")
           /\ \A e \in Range(events') : e.type # "idle"
    BY <1>3, <2>1 DEF Listens
  <2>5. UNCHANGED <<turn, conn, curGen, tts, ttsConn, faults>>
    BY <1>3 DEF Listens
  <2>. QED
    BY <2>2, <2>3, <2>4, <2>5 DEF Ends
<1>4. CASE StartTurn(curGen + 1, q, tts, conn, turn)
  <2>1. \A h \in Gens : turn[h].pc = turn[h].pc /\ turn[h].conn = turn[h].conn /\ (Running(h) => turn[h].cancelled)
    BY DEF Live
  <2>2. \A d \in Conns : SameQueue(conn[d], conn[d]) /\ (d > ttsConn => conn[d] = conn[d])
                         /\ (conn[d].open = conn[d].open \/ (tts = 0 /\ d <= ttsConn))
    BY DEF SameQueue
  <2>3. curGen + 1 \in Nat /\ curGen + 1 > curGen /\ tts \in {0, tts}
    BY <1>2
  <2>4. conn \in [Conns -> Client] /\ turn \in [Gens -> Turn] /\ (ending' => closing') /\ run \in {"idle", "cut"}
    BY <1>2 DEF Typed
  <2>. QED
    BY <1>1, <1>4, <2>1, <2>2, <2>3, <2>4, StartBegins
<1>. QED
  BY <1>3, <1>4, TurnFinishes

\* handleGreeting begins a reply that has no turn.
LEMMA GreetingBegins ==
    ASSUME Untroubled, Typed, TurnInv, HandleGreeting
    PROVE  Begins /\ Connects /\ NewOrNone
<1>. DEFINE x == Ended(Speak(NewClient, curGen + 1), curGen + 1)
<1>0. tts \in Nat /\ ttsConn \in Nat /\ tts <= ttsConn /\ curGen \in Nat /\ Conns \subseteq Nat \ {0}
  BY Numbers DEF Typed, TypedNumbers, TurnInv, ClientsOK
<1>1. /\ run = "idle" /\ events # <<>> /\ Opens(Head(events)) /\ events' = q1 /\ curGen' = curGen + 1
      /\ hangupAfterTurn' = FALSE /\ turn' = turn /\ run' = run
      /\ UNCHANGED <<ttsDeliveryDone, sigs, paused, silence, closing, ending, idleTimer, tick>>
  BY DEF HandleGreeting, Next1, Opens, HandlerUnchanged, idleVars
<1>2. OpenSucceeds(tts, conn, x)
  BY DEF HandleGreeting, OpenTTS, OpenFails, Untroubled, TurnInv, NoTrouble
<1>3. state' = "Thinking" /\ faults' = faults /\ tts' <= ttsConn' /\ ttsConn' >= ttsConn /\ (tts' = tts \/ tts' > ttsConn)
  BY <1>0, <1>2 DEF OpenSucceeds
<1>4. q1 \in Seq(Event) /\ Ordered(q1) /\ \A e \in Range(q1) : e \in Range(events) /\ ~Opens(e)
  BY <1>1, QueueLeft
<1>5. state = "Listening" /\ idleTimer = "off" /\ ~Delivered /\ \A g \in Gens : ~Live(g)
  BY <1>1, QueueLeft, IdleStates DEF TurnInv, QueueOK
<1>6. \A e \in Range(q1) : e.type # "idle"
  BY <1>4, <1>5 DEF TurnInv, QueueOK
<1>7. Begins
  <2>1. \A g \in Gens \ {curGen'} : turn'[g].pc = turn[g].pc /\ turn'[g].conn = turn[g].conn
                                    /\ (Running(g) => turn'[g].cancelled)
    BY <1>1, <1>5 DEF Live
  <2>2. ending' => closing'
    BY <1>1 DEF TurnInv, EndOK
  <2>3. run \in {"idle", "cut"} /\ run' = "idle" /\ curGen' > curGen /\ idleTimer' = "off" /\ ~ttsDeliveryDone'
        /\ sigs' \subseteq sigs /\ "playbackDone" \notin sigs'
    BY <1>0, <1>1, <1>5 DEF Delivered
  <2>. QED
    BY <1>1, <1>3, <1>4, <1>6, <2>1, <2>2, <2>3 DEF Begins
<1>8. (\A g : HasPending(x, g) => g = curGen + 1) /\ (\A g \in x.ended : g = curGen + 1) /\ x.open
  BY <1>0 DEF NewClient, NoConn, Speak, Ended, HasPending, Sentence
<1>9. ASSUME NEW c \in Conns
      PROVE  Connected(c)
  <2>1. CASE tts # 0
    BY <1>2, <2>1 DEF OpenSucceeds, Connected, SameQueue
  <2>2. CASE tts = 0 /\ c = ttsConn + 1
    <3>1. conn'[c] = x /\ c = tts' /\ c > ttsConn /\ c <= ttsConn'
      BY <1>0, <1>2, <2>2 DEF OpenSucceeds, Typed
    <3>. QED
      BY <1>1, <1>8, <3>1 DEF Connected
  <2>3. CASE tts = 0 /\ c # ttsConn + 1
    <3>1. conn'[c] = conn[c]
      BY <1>2, <2>3 DEF OpenSucceeds, Typed
    <3>. QED
      BY <3>1 DEF Connected, SameQueue
  <2>. QED
    BY <2>1, <2>2, <2>3
<1>. QED
  BY <1>1, <1>7, <1>9 DEF Connects, NewOrNone

\* The handlers that start a turn while the agent listens begin a reply.
LEMMA HandlerBegins ==
    ASSUME Untroubled, Typed, TurnInv, HandleOpening \/ AcceptTranscript \/ HandleIdle
    PROVE  Begins /\ Connects /\ NewOrNone
<1>. USE DEF Next1, Transcribed
<1>1. /\ run = "idle" /\ events # <<>> /\ state = "Listening" /\ run' = run
      /\ StartTurn(curGen + 1, q1, tts, conn, turn)
      /\ UNCHANGED <<ttsDeliveryDone, sigs, paused, silence, tick>>
  <2>1. CASE HandleOpening
    <3>1. Opens(Head(events)) /\ run = "idle" /\ events # <<>>
      BY <2>1 DEF HandleOpening, Opens
    <3>2. state = "Listening"
      BY <3>1, QueueLeft DEF TurnInv, QueueOK
    <3>. QED
      BY <2>1, <3>1, <3>2 DEF HandleOpening, HandlerUnchanged
  <2>2. CASE AcceptTranscript
    <3>1. run = "idle" /\ state \in {"Listening", "Transcribing"}
      BY <2>2 DEF AcceptTranscript
    <3>2. state = "Listening"
      BY <3>1, IdleStates
    <3>. QED
      BY <2>2, <3>2 DEF AcceptTranscript, HandlerUnchanged
  <2>3. CASE HandleIdle
    BY <2>3 DEF HandleIdle, HandlerUnchanged
  <2>. QED
    BY <2>1, <2>2, <2>3
<1>2. ending' => closing'
  <2>1. ending => closing
    BY DEF TurnInv, EndOK
  <2>2. CASE HandleOpening \/ AcceptTranscript
    BY <2>1, <2>2 DEF HandleOpening, AcceptTranscript
  <2>3. CASE HandleIdle
    BY <2>3 DEF HandleIdle
  <2>. QED
    BY <2>2, <2>3
<1>3. q1 \in Seq(Event) /\ Ordered(q1) /\ \A e \in Range(q1) : e \in Range(events) /\ ~Opens(e)
  BY <1>1, QueueLeft
<1>4. ~Delivered /\ \A g \in Gens : ~Live(g)
  BY <1>1, IdleStates
<1>5. curGen + 1 \in Nat /\ curGen + 1 > curGen /\ tts \in {0, tts}
  BY DEF Typed, TypedNumbers
<1>6. \A h \in Gens : turn[h].pc = turn[h].pc /\ turn[h].conn = turn[h].conn /\ (Running(h) => turn[h].cancelled)
  BY <1>4 DEF Live
<1>7. \A d \in Conns : SameQueue(conn[d], conn[d]) /\ (d > ttsConn => conn[d] = conn[d])
                       /\ (conn[d].open = conn[d].open \/ (tts = 0 /\ d <= ttsConn))
  BY DEF SameQueue
<1>8. conn \in [Conns -> Client] /\ turn \in [Gens -> Turn] /\ run \in {"idle", "cut"} /\ run' = "idle"
  BY <1>1 DEF Typed
<1>9. ~ttsDeliveryDone' /\ sigs' \subseteq sigs /\ "playbackDone" \notin sigs'
  BY <1>1, <1>4 DEF Delivered
<1>. QED
  BY <1>1, <1>2, <1>3, <1>5, <1>6, <1>7, <1>8, <1>9, StartBegins

\* The caller's words begin a reply once the one before has been cut.
LEMMA CutBegins ==
    ASSUME Untroubled, Typed, TurnInv, CutReply
    PROVE  Begins /\ Connects /\ NewOrNone
<1>. DEFINE cs == [c \in Conns |-> IF c = tts THEN [conn[c] EXCEPT !.open = FALSE] ELSE conn[c]]
            t == CancelTurn(turn)
<1>0. /\ tts \in Nat /\ ttsConn \in Nat /\ tts <= ttsConn /\ curGen \in Nat /\ Conns \subseteq Nat \ {0}
      /\ conn \in [Conns -> Client]
  BY Numbers DEF Typed, TypedNumbers, TurnInv, ClientsOK
<1>1. /\ run = "cut" /\ run' = "idle" /\ ttsDeliveryDone' = FALSE /\ StartTurn(curGen + 2, events, 0, cs, t)
      /\ UNCHANGED <<sigs, paused, silence, tick, ending, closing>>
  BY DEF CutReply, CutWith
<1>2. sigs = {} /\ ~ending
  BY <1>1 DEF TurnInv, PauseOK, EndOK
<1>3. events \in Seq(Event) /\ Ordered(events) /\ \A e \in Range(events) : ~Opens(e)
  BY <1>1 DEF Typed, TurnInv, QueueOK
<1>4. /\ t \in [Gens -> Turn]
      /\ \A h \in Gens : t[h].pc = turn[h].pc /\ t[h].conn = turn[h].conn /\ (Running(h) => t[h].cancelled)
  BY CancelEnds
<1>5. \A d \in Conns : cs[d] \in Client /\ SameQueue(cs[d], conn[d]) /\ (d > ttsConn => cs[d] = conn[d])
                       /\ (cs[d].open = conn[d].open \/ (0 = 0 /\ d <= ttsConn))
  <2>. SUFFICES ASSUME NEW d \in Conns
                PROVE  cs[d] \in Client /\ SameQueue(cs[d], conn[d]) /\ (d > ttsConn => cs[d] = conn[d])
                       /\ (cs[d].open = conn[d].open \/ (0 = 0 /\ d <= ttsConn))
    OBVIOUS
  <2>1. conn[d] \in Client /\ d \in Nat
    BY <1>0
  <2>2. CASE d = tts
    <3>. PICK x \in Client : x = conn[d]
      BY <2>1
    <3>1. cs[d] = [x EXCEPT !.open = FALSE]
      BY <2>2
    <3>2. cs[d] \in Client /\ SameQueue(cs[d], x)
      BY <3>1 DEF SameQueue, Client
    <3>. QED
      BY <1>0, <2>1, <2>2, <3>2
  <2>3. CASE d # tts
    BY <2>1, <2>3 DEF SameQueue
  <2>. QED
    BY <2>2, <2>3
<1>6. cs \in [Conns -> Client]
  BY <1>5
<1>7. curGen + 2 \in Nat /\ curGen + 2 > curGen /\ 0 \in {0, tts} /\ run \in {"idle", "cut"}
  BY <1>0, <1>1
<1>8. ~ttsDeliveryDone' /\ sigs' \subseteq sigs /\ "playbackDone" \notin sigs' /\ (ending' => closing')
  BY <1>1, <1>2
<1>. HIDE DEF cs, t
<1>. QED
  BY <1>1, <1>3, <1>4, <1>5, <1>6, <1>7, <1>8, StartBegins

\* The handlers that finish a turn.
LEMMA HandlerFinishes ==
    ASSUME Untroubled, Typed, TurnInv, NothingToPlay \/ HandlePlaybackDone
    PROVE  (Begins /\ Connects /\ NewOrNone) \/ Ends
<1>0. events \in Seq(Event) /\ Ordered(events)
  BY QueueLeft
<1>1. CASE NothingToPlay
  <2>1. /\ run = "idle" /\ run' = "idle" /\ events # <<>> /\ Head(events).type = "done" /\ Head(events).gen = curGen
        /\ state = "Thinking" /\ FinishTurn(q1, tts, turn)
        /\ UNCHANGED <<ttsDeliveryDone, sigs, tick, paused, silence, ending, closing, callerSpeaking>>
    BY <1>1 DEF NothingToPlay, Next1, HandlerUnchanged
  <2>2. /\ q1 \in Seq(Event) /\ Ordered(q1)
        /\ \A e \in Range(q1) : e \in Range(events) /\ PairOK(Head(events), e)
    BY <2>1, QueueLeft
  <2>3. \A e \in Range(q1) : ~(e.type = "llmDone" /\ e.gen = curGen)
    BY <2>1, <2>2 DEF PairOK
  <2>4. ~(curGen \in Gens /\ Running(curGen)) /\ ~Delivered
    BY <2>1, QueueLeft, IdleStates DEF TurnInv, QueueOK
  <2>5. \A g \in Gens : ~Live(g)
    BY <2>4 DEF TurnInv, TurnsOK, Live
  <2>6. ~ttsDeliveryDone' /\ sigs' \subseteq sigs /\ "playbackDone" \notin sigs'
    BY <2>1, <2>4 DEF Delivered
  <2>. QED
    BY <2>1, <2>2, <2>3, <2>5, <2>6, FinishKinds
<1>2. CASE HandlePlaybackDone
  <2>1. /\ run = "idle" /\ run' = "idle" /\ "playbackDone" \in sigs /\ sigs' = sigs \ {"playbackDone"}
        /\ FinishTurn(events, tts, turn)
        /\ UNCHANGED <<ttsDeliveryDone, tick, paused, silence, ending, closing, callerSpeaking>>
    BY <1>2 DEF HandlePlaybackDone, HandlerUnchanged
  <2>2. Delivered /\ ~ttsDeliveryDone /\ state = "Speaking"
    BY <2>1 DEF Delivered, TurnInv, DeliveryOK
  <2>3. \A g \in Gens : ~Live(g)
    BY <2>2 DEF TurnInv, DeliveryOK, TurnsOK, Live
  <2>4. \A e \in Range(events) : ~(e.type = "llmDone" /\ e.gen = curGen)
    BY <2>2 DEF TurnInv, DeliveryOK
  <2>5. ~ttsDeliveryDone' /\ sigs' \subseteq sigs /\ "playbackDone" \notin sigs'
    BY <2>1, <2>2
  <2>. QED
    BY <1>0, <2>1, <2>2, <2>3, <2>4, <2>5, FinishKinds
<1>. QED
  BY <1>1, <1>2

\* The beginning of a reply keeps the invariant.
LEMMA BeginsKeeps ==
    ASSUME Typed, Typed', TurnInv, Begins, Connects, NewOrNone
    PROVE  TurnInv'
<1>0. /\ curGen \in Nat /\ curGen' \in Nat /\ tts \in Nat /\ ttsConn \in Nat /\ tts' \in Nat /\ ttsConn' \in Nat
      /\ Gens \subseteq Nat /\ Conns \subseteq Nat /\ events \in Seq(Event)
  BY Numbers DEF Typed, TypedNumbers
<1>1. /\ run' = "idle" /\ state' = "Thinking" /\ curGen' > curGen
      /\ tts' <= ttsConn' /\ ttsConn' >= ttsConn /\ (tts' = tts \/ tts' > ttsConn)
      /\ \A g \in Gens : g # curGen' => /\ turn'[g].pc = turn[g].pc /\ turn'[g].conn = turn[g].conn
                                        /\ Running(g) => turn'[g].cancelled
  BY DEF Begins
<1>2. \A c \in Conns : Connected(c)
  BY DEF Connects
<1>3. curGen' \in Gens => turn[curGen'].pc = "none"
  BY <1>0, <1>1 DEF TurnInv, TurnsOK
<1>4. NoTrouble' /\ PauseOK' /\ DeliveryOK' /\ EndOK' /\ ClockOK'
  BY DEF Begins, TurnInv, NoTrouble, PauseOK, DeliveryOK, Delivered, EndOK, ClockOK, Busy
<1>5. TurnsOK'
  <2>1. ASSUME NEW g \in Gens, g # curGen'
        PROVE  /\ turn'[g].pc # "none" => g <= curGen'
               /\ ~Live(g)'
               /\ Running(g)' /\ turn'[g].cancelled => g < curGen'
    <3>1. turn'[g].pc = turn[g].pc /\ (Running(g) => turn'[g].cancelled)
      BY <1>1, <2>1
    <3>2. turn[g].pc # "none" => g <= curGen
      BY DEF TurnInv, TurnsOK
    <3>3. g <= curGen => g <= curGen' /\ g < curGen'
      BY <1>0, <1>1
    <3>. QED
      BY <3>1, <3>2, <3>3 DEF Running, Live
  <2>2. ASSUME NEW g \in Gens, g = curGen'
        PROVE  g <= curGen' /\ ~(Running(g)' /\ turn'[g].cancelled)
    <3>1. turn'[g] = NewTurn(tts') \/ turn'[g].pc = "none"
      BY <1>3, <2>2 DEF NewOrNone
    <3>2. ~NewTurn(tts').cancelled
      BY DEF NewTurn, NoTurn
    <3>3. g <= curGen'
      BY <1>0, <2>2
    <3>. QED
      BY <3>1, <3>2, <3>3 DEF Running
  <2>3. Busy'
    BY <1>1 DEF Busy
  <2>. QED
    BY <2>1, <2>2, <2>3 DEF TurnsOK, Live
<1>6. ASSUME NEW c \in Conns, NEW g \in Nat, HasPending(conn'[c], g)
      PROVE  \/ g <= curGen /\ HasPending(conn[c], g)
             \/ g = curGen' /\ turn' = turn /\ c = tts'
  BY <1>2, <1>6 DEF Connected, SameQueue, HasPending, TurnInv, ClientsOK
<1>7. ClientsOK'
  <2>1. ASSUME NEW c \in Conns
        PROVE  /\ c > ttsConn' => conn'[c] = NoConn
               /\ conn'[c].up /\ ~conn'[c].open => c # tts'
    <3>1. c > ttsConn => conn[c] = NoConn
      BY DEF TurnInv, ClientsOK
    <3>2. conn[c].up => c <= ttsConn
      BY <1>0, <3>1 DEF NoConn
    <3>3. conn[c].up /\ ~conn[c].open => c # tts
      BY DEF TurnInv, ClientsOK
    <3>. QED
      BY <1>0, <1>1, <1>2, <3>1, <3>2, <3>3 DEF Connected, SameQueue
  <2>2. ASSUME NEW c \in Conns, NEW g \in Nat, HasPending(conn'[c], g)
        PROVE  /\ g <= curGen'
               /\ g \in Gens /\ Running(g)' => turn'[g].conn = c
               /\ \A d \in Conns : HasPending(conn'[d], g) => d = c
    <3>1. CASE g <= curGen /\ HasPending(conn[c], g)
      <4>1. /\ g \in Gens /\ Running(g) => turn[g].conn = c
            /\ \A d \in Conns : HasPending(conn[d], g) => d = c
        BY <3>1 DEF TurnInv, ClientsOK
      <4>2. g # curGen' /\ g <= curGen'
        BY <1>0, <1>1, <3>1
      <4>. QED
        BY <1>1, <1>6, <4>1, <4>2 DEF Running
    <3>2. CASE g = curGen' /\ turn' = turn /\ c = tts'
      BY <1>0, <1>1, <1>3, <1>6, <3>2 DEF Running
    <3>. QED
      BY <1>6, <2>2, <3>1, <3>2
  <2>3. ASSUME NEW c \in Conns, NEW g \in conn'[c].ended
        PROVE  g <= curGen' /\ ~(g \in Gens /\ Running(g)')
    <3>1. \/ g \in conn[c].ended /\ g # curGen' /\ g <= curGen /\ ~(g \in Gens /\ Running(g))
          \/ g = curGen' /\ turn' = turn
      <4>1. g \in conn[c].ended => g \in Nat
        BY DEF Typed, Client
      <4>. QED
        BY <1>0, <1>1, <1>2, <4>1 DEF Connected, SameQueue, TurnInv, ClientsOK
    <3>2. g \in Nat
      BY DEF Typed, Client
    <3>. QED
      BY <1>0, <1>1, <1>3, <3>1, <3>2 DEF Running
  <2>. QED
    BY <1>1, <2>1, <2>2, <2>3 DEF ClientsOK
<1>8. QueueOK'
  <2>1. Ordered(events')
    BY DEF Begins
  <2>2. ASSUME NEW e \in Range(events')
        PROVE  /\ ~Opens(e) /\ e.type # "idle"
               /\ e.type = "done" => e.gen <= curGen' /\ ~(e.gen \in Gens /\ Running(e.gen)') /\ ~Pending(e.gen)'
               /\ e.type = "llmDone" => e.gen <= curGen' /\ (e.gen = curGen' => Busy')
               /\ e.type = "closed" => e.conn <= ttsConn' /\ e.conn # tts'
    <3>1. e \in Range(events) /\ ~Opens(e) /\ e.type # "idle"
      BY DEF Begins
    <3>2. e \in Event
      BY <1>0, <3>1, RangeTyped
    <3>3. CASE e.type = "done"
      <4>. DEFINE g == e.gen
      <4>1. g \in Nat /\ g <= curGen /\ ~(g \in Gens /\ Running(g)) /\ ~Pending(g)
        BY <3>1, <3>2, <3>3, EventFields DEF TurnInv, QueueOK
      <4>2. g # curGen' /\ g <= curGen'
        BY <1>0, <1>1, <4>1
      <4>3. ~(g \in Gens /\ Running(g)')
        BY <1>1, <4>1, <4>2 DEF Running
      <4>4. \A c \in Conns : ~HasPending(conn'[c], g)
        BY <1>6, <4>1, <4>2 DEF Pending
      <4>. QED
        BY <3>1, <3>3, <4>2, <4>3, <4>4 DEF Pending
    <3>4. CASE e.type = "llmDone"
      BY <1>0, <1>1, <3>1, <3>2, <3>4, EventFields DEF TurnInv, QueueOK
    <3>5. CASE e.type = "closed"
      BY <1>0, <1>1, <3>1, <3>2, <3>5, EventFields DEF TurnInv, QueueOK
    <3>. QED
      BY <3>1, <3>3, <3>4, <3>5
  <2>. QED
    BY <2>1, <2>2 DEF QueueOK
<1>. QED
  BY <1>4, <1>5, <1>7, <1>8 DEF TurnInv

\* The end of a reply keeps the invariant.
LEMMA EndsKeeps ==
    ASSUME Typed, Typed', TurnInv, Ends
    PROVE  TurnInv'
<1>1. run' = "idle" /\ state' = "Listening" /\ idleTimer = "off" /\ run = "idle"
  BY DEF Ends, TurnInv, ClockOK, Typed, TypedStates
<1>2. NoTrouble' /\ PauseOK' /\ DeliveryOK'
  BY DEF Ends, TurnInv, NoTrouble, PauseOK, DeliveryOK, Delivered
<1>3. EndOK' /\ ClockOK'
  BY <1>1 DEF Ends, TurnInv, EndOK, ClockOK, Busy
<1>4. TurnsOK' /\ ClientsOK'
  BY DEF Ends, TurnInv, TurnsOK, ClientsOK, Live, Running
<1>5. QueueOK'
  <2>1. ASSUME NEW e \in Range(events')
        PROVE  e \in Range(events) /\ ~Opens(e) /\ ~(e.type = "llmDone" /\ e.gen = curGen) /\ e.type # "idle"
    BY <1>1 DEF Ends, TurnInv, QueueOK
  <2>2. Ordered(events') /\ UNCHANGED <<turn, conn, curGen, tts, ttsConn>>
    BY DEF Ends
  <2>. QED
    BY <2>1, <2>2 DEF TurnInv, QueueOK, Pending, Running
<1>. QED
  BY <1>2, <1>3, <1>4, <1>5 DEF TurnInv

\* The handlers that neither begin nor end a reply.
Handles ==
    \/ HandleCallerSpeech \/ IgnoreTranscript \/ HoldTranscript \/ TranscriptWhileClosing \/ Acknowledged
    \/ Interrupted \/ ConfirmInterruption \/ Unpause \/ HandleTTSAudio \/ DeliveryDone \/ ConnectionLost
    \/ HandleLLMDone \/ HandleEndCall \/ KeepWaiting \/ FalseInterruption \/ HandleBargeIn

\* What they leave alone, and what they leave of the queue.
LeavesTurns == UNCHANGED <<turn, conn, curGen, tts, ttsConn, tick, faults>> /\ (Busy => Busy')

LeavesQueue ==
    /\ events' \in Seq(Event) /\ Ordered(events') /\ Range(events') \subseteq Range(events)
    /\ \A e \in Range(events') : /\ Opens(e) => UNCHANGED <<state, run, idleTimer>>
                                 /\ e.type = "idle" => idleTimer' = idleTimer
LeavesClock ==
    /\ idleTimer' = idleTimer
    /\ \A e \in Range(events) : e.type = "idle" => e \in Range(events')

\* These handlers leave the turns and the connections alone.
LEMMA HandlesTurns ==
    ASSUME Untroubled, Typed, TurnInv, Handles
    PROVE  LeavesTurns /\ sigs' \subseteq sigs
<1>. USE DEF LeavesTurns, Busy, frameVars, envVars, ttsVars, llmVars, runVars, TranscriptUnchanged,
             ResumeUnchanged, Next1, Transcribed
<1>1. state = "Transcribing" <=> run \in {"unpause", "cut"}
  BY DEF TurnInv, PauseOK
<1>2. CASE ConnectionLost
  BY <1>2, NoTroubleSteps DEF ConnectionLost
<1>3. CASE HandleTTSAudio
  BY <1>3 DEF HandleTTSAudio, AudioOf
<1>4. CASE HandleCallerSpeech \/ DeliveryDone \/ HandleLLMDone \/ HandleEndCall
  BY <1>4 DEF HandleCallerSpeech, DeliveryDone, HandleLLMDone, HandleEndCall
<1>5. CASE IgnoreTranscript \/ HoldTranscript \/ TranscriptWhileClosing \/ Acknowledged
  BY <1>5 DEF IgnoreTranscript, HoldTranscript, TranscriptWhileClosing, Acknowledged, pauseVars, ResumeReply
<1>6. CASE Interrupted \/ ConfirmInterruption \/ Unpause
  BY <1>1, <1>6 DEF Interrupted, ConfirmInterruption, Unpause
<1>7. CASE KeepWaiting \/ FalseInterruption \/ HandleBargeIn
  BY <1>7 DEF KeepWaiting, FalseInterruption, HandleBargeIn, ResumeReply
<1>. QED
  BY <1>2, <1>3, <1>4, <1>5, <1>6, <1>7 DEF Handles

\* Handlers of an event: the rest of the queue, or that without one event more.
LEMMA HandlesQueue ==
    ASSUME Untroubled, Typed, TurnInv, Handles
    PROVE  LeavesQueue /\ (HandleCallerSpeech \/ HandleEndCall \/ LeavesClock)
<1>. USE DEF idleVars, TranscriptUnchanged, ResumeUnchanged, Next1, Transcribed
<1>1. events \in Seq(Event) /\ Ordered(events)
  BY QueueLeft
<1>2. ASSUME events # <<>>
      PROVE  /\ q1 \in Seq(Event) /\ Ordered(q1) /\ Range(events) = {Head(events)} \cup Range(q1)
             /\ \A e \in Range(q1) : ~Opens(e)
  BY <1>2, QueueLeft
<1>3. ASSUME NEW q \in Seq(Event), Ordered(q)
      PROVE  /\ Without(q, "resume") \in Seq(Event) /\ Ordered(Without(q, "resume"))
             /\ Without(q, "idle") \in Seq(Event) /\ Ordered(Without(q, "idle"))
             /\ Range(Without(q, "resume")) \subseteq Range(q) /\ Range(Without(q, "idle")) \subseteq Range(q)
             /\ \A e \in Range(Without(q, "idle")) : e.type # "idle"
             /\ \A e \in Range(q) : e.type = "idle" => e \in Range(Without(q, "resume"))
  BY <1>3, QueueShrinks
<1>4. CASE HandleCallerSpeech \/ HandleEndCall
  <2>1. events # <<>> /\ (events' = Without(q1, "idle") \/ (events' = q1 /\ UNCHANGED idleTimer))
    BY <1>4 DEF HandleCallerSpeech, HandleEndCall, EndCall, StopIdleTimer, StartIdleTimer
  <2>. QED
    BY <1>2, <1>3, <1>4, <2>1 DEF LeavesQueue
<1>5. CASE IgnoreTranscript \/ HoldTranscript \/ Interrupted \/ HandleTTSAudio \/ DeliveryDone \/ ConnectionLost
           \/ HandleLLMDone \/ KeepWaiting
  <2>1. events # <<>> /\ events' = q1 /\ UNCHANGED idleTimer /\ Head(events).type # "idle"
    BY <1>5 DEF IgnoreTranscript, HoldTranscript, Interrupted, HandleTTSAudio, AudioOf, DeliveryDone,
                ConnectionLost, HandleLLMDone, KeepWaiting
  <2>. QED
    BY <1>2, <2>1 DEF LeavesQueue, LeavesClock
<1>6. CASE TranscriptWhileClosing \/ Acknowledged \/ FalseInterruption
  <2>1. events # <<>> /\ events' = Without(q1, "resume") /\ UNCHANGED idleTimer /\ Head(events).type # "idle"
    BY <1>6 DEF TranscriptWhileClosing, Acknowledged, FalseInterruption, ResumeReply
  <2>2. q1 \in Seq(Event) /\ Ordered(q1) /\ Range(events) = {Head(events)} \cup Range(q1)
        /\ \A e \in Range(q1) : ~Opens(e)
    BY <1>2, <2>1
  <2>. QED
    BY <1>3, <2>1, <2>2 DEF LeavesQueue, LeavesClock
<1>7. CASE ConfirmInterruption \/ Unpause
  <2>1. events' \in {events, Without(events, "resume")} /\ UNCHANGED idleTimer /\ run # "idle"
    BY <1>7 DEF ConfirmInterruption, Unpause
  <2>2. \A e \in Range(events) : ~Opens(e)
    BY <2>1 DEF TurnInv, QueueOK
  <2>. QED
    BY <1>1, <1>3, <2>1, <2>2 DEF LeavesQueue, LeavesClock
<1>8. CASE HandleBargeIn
  <2>1. events' \in {events, Without(events, "resume")} /\ UNCHANGED <<state, run, idleTimer>>
    BY <1>8 DEF HandleBargeIn, runVars
  <2>. QED
    BY <1>1, <1>3, <2>1 DEF LeavesQueue, LeavesClock
<1>. QED
  BY <1>4, <1>5, <1>6, <1>7, <1>8 DEF Handles

\* What is left of the queue keeps its invariant while the turns stay.
LEMMA QueueStays ==
    ASSUME Typed, TurnInv, LeavesTurns, LeavesQueue
    PROVE  TurnsOK' /\ ClientsOK' /\ QueueOK'
<1>1. UNCHANGED <<turn, conn, curGen, tts, ttsConn>> /\ (Busy => Busy')
  BY DEF LeavesTurns
<1>2. TurnsOK' /\ ClientsOK'
  BY <1>1 DEF TurnInv, TurnsOK, ClientsOK, Live, Running
<1>3. ASSUME NEW e \in Range(events')
      PROVE  /\ e \in Range(events) /\ (Opens(e) => UNCHANGED <<state, run, idleTimer>>)
             /\ e.type = "idle" => idleTimer' = idleTimer
  BY DEF LeavesQueue
<1>4. ASSUME NEW e \in Range(events')
      PROVE  /\ Opens(e) => state' = "Listening" /\ run' = "idle" /\ idleTimer' = "off"
             /\ e.type = "idle" => idleTimer' = "fired"
  BY <1>3 DEF TurnInv, QueueOK
<1>5. ASSUME NEW e \in Range(events')
      PROVE  /\ e.type = "done" => e.gen <= curGen' /\ ~(e.gen \in Gens /\ Running(e.gen)') /\ ~Pending(e.gen)'
             /\ e.type = "llmDone" => e.gen <= curGen' /\ (e.gen = curGen' => Busy')
             /\ e.type = "closed" => e.conn <= ttsConn' /\ e.conn # tts'
  BY <1>1, <1>3 DEF TurnInv, QueueOK, Running, Pending
<1>6. Ordered(events')
  BY DEF LeavesQueue
<1>. QED
  BY <1>2, <1>4, <1>5, <1>6 DEF QueueOK

\* The handlers that neither begin nor end a reply keep the invariant.
LEMMA HandlesKeeps ==
    ASSUME Untroubled, Typed, Typed', TurnInv, Handles
    PROVE  TurnInv'
<1>. USE DEF Next1, Transcribed
<1>1. LeavesTurns /\ sigs' \subseteq sigs /\ LeavesQueue /\ (HandleCallerSpeech \/ HandleEndCall \/ LeavesClock)
  BY HandlesTurns, HandlesQueue
<1>2. NoTrouble' /\ TurnsOK' /\ ClientsOK' /\ QueueOK'
  BY <1>1, QueueStays DEF TurnInv, NoTrouble, LeavesTurns
<1>3. run = "idle" => state \in {"Listening", "Thinking", "Speaking"}
  BY IdleStates
<1>4. PauseOK'
  <2>1. CASE Interrupted
    BY <1>1, <1>3, <2>1 DEF Interrupted, TranscriptUnchanged, TurnInv, PauseOK
  <2>2. CASE ConfirmInterruption
    BY <1>1, <2>2 DEF ConfirmInterruption, TurnInv, PauseOK
  <2>3. CASE Unpause
    BY <1>1, <2>3 DEF Unpause, TurnInv, PauseOK
  <2>4. CASE HandleTTSAudio
    BY <1>1, <1>3, <2>4 DEF HandleTTSAudio, AudioOf, TurnInv, PauseOK, pauseVars
  <2>5. ASSUME ~Interrupted, ~ConfirmInterruption, ~Unpause, ~HandleTTSAudio
        PROVE  UNCHANGED <<state, run, silence>> /\ paused' \in {paused, FALSE} /\ run = "idle"
    <3>1. CASE HandleCallerSpeech \/ DeliveryDone \/ ConnectionLost \/ HandleLLMDone \/ HandleEndCall
      BY <3>1 DEF HandleCallerSpeech, DeliveryDone, ConnectionLost, HandleLLMDone, HandleEndCall, pauseVars, runVars
    <3>2. CASE IgnoreTranscript \/ HoldTranscript \/ TranscriptWhileClosing \/ Acknowledged
      BY <3>2 DEF IgnoreTranscript, HoldTranscript, TranscriptWhileClosing, Acknowledged, ResumeReply,
                  TranscriptUnchanged
    <3>3. CASE KeepWaiting \/ FalseInterruption \/ HandleBargeIn
      BY <3>3 DEF KeepWaiting, FalseInterruption, HandleBargeIn, ResumeReply, ResumeUnchanged, runVars
    <3>. QED
      BY <2>5, <3>1, <3>2, <3>3 DEF Handles
  <2>6. ASSUME UNCHANGED <<state, run, silence>>, paused' \in {paused, FALSE}, run = "idle"
        PROVE  PauseOK'
    <3>1. (sigs = {} => sigs' = {}) /\ (paused' => paused) /\ (silence' <=> silence)
      BY <1>1, <2>6 DEF Typed, TypedBits
    <3>. QED
      BY <2>6, <3>1 DEF TurnInv, PauseOK
  <2>. QED
    BY <2>1, <2>2, <2>3, <2>4, <2>5, <2>6
<1>5. DeliveryOK'
  <2>1. CASE DeliveryDone
    <3>1. /\ run = "idle" /\ events # <<>> /\ Head(events).type = "done" /\ events' = q1
          /\ ttsDeliveryDone' = (ttsDeliveryDone \/ (Head(events).gen = curGen /\ state = "Speaking"))
          /\ UNCHANGED <<state, run, sigs, curGen, turn, conn>>
      BY <2>1 DEF DeliveryDone, runVars, ttsVars, llmVars
    <3>2. Head(events) \in Range(events) /\ Range(q1) \subseteq Range(events)
          /\ \A e \in Range(q1) : PairOK(Head(events), e)
      BY <3>1, QueueLeft
    <3>3. CASE Head(events).gen = curGen /\ state = "Speaking"
      <4>1. ~(curGen \in Gens /\ Running(curGen)) /\ ~Pending(curGen)
        BY <3>1, <3>2, <3>3 DEF TurnInv, QueueOK
      <4>2. \A e \in Range(q1) : e.type \in {"done", "llmDone"} => e.gen # curGen
        BY <3>1, <3>2, <3>3 DEF PairOK
      <4>3. ~Delivered
        BY <3>1, <3>2, <3>3 DEF TurnInv, DeliveryOK
      <4>. QED
        BY <3>1, <3>3, <4>1, <4>2, <4>3 DEF DeliveryOK, Delivered, Pending, Running
    <3>4. CASE ~(Head(events).gen = curGen /\ state = "Speaking")
      <4>1. ttsDeliveryDone' = ttsDeliveryDone
        BY <3>1, <3>4 DEF Typed, TypedBits
      <4>. QED
        BY <3>1, <3>2, <4>1 DEF TurnInv, DeliveryOK, Delivered, Pending, Running
    <3>. QED
      BY <3>3, <3>4
  <2>2. ASSUME ~DeliveryDone
        PROVE  /\ UNCHANGED ttsDeliveryDone
               /\ state = "Speaking" \/ run \in {"unpause", "cut"} => state' = "Speaking" \/ run' \in {"unpause", "cut"}
    <3>1. CASE HandleCallerSpeech \/ HandleLLMDone \/ HandleEndCall
      BY <3>1 DEF HandleCallerSpeech, HandleLLMDone, HandleEndCall, runVars
    <3>2. CASE ConnectionLost
      BY <3>2, NoTroubleSteps DEF ConnectionLost, runVars
    <3>3. CASE IgnoreTranscript \/ HoldTranscript \/ TranscriptWhileClosing \/ Acknowledged
      BY <3>3 DEF IgnoreTranscript, HoldTranscript, TranscriptWhileClosing, Acknowledged, TranscriptUnchanged
    <3>4. CASE Interrupted \/ HandleTTSAudio
      BY <3>4 DEF Interrupted, HandleTTSAudio, AudioOf, TranscriptUnchanged
    <3>5. CASE ConfirmInterruption \/ Unpause
      BY <3>5 DEF ConfirmInterruption, Unpause
    <3>6. CASE KeepWaiting \/ FalseInterruption \/ HandleBargeIn
      BY <3>6 DEF KeepWaiting, FalseInterruption, HandleBargeIn, ResumeUnchanged, runVars
    <3>. QED
      BY <2>2, <3>1, <3>2, <3>3, <3>4, <3>5, <3>6 DEF Handles
  <2>3. ASSUME ~DeliveryDone
        PROVE  DeliveryOK'
    <3>1. UNCHANGED <<curGen, turn, conn, ttsDeliveryDone>> /\ Range(events') \subseteq Range(events)
          /\ (Delivered' => Delivered)
      BY <1>1, <2>2, <2>3 DEF LeavesTurns, LeavesQueue, Delivered
    <3>. QED
      BY <1>1, <2>2, <2>3, <3>1 DEF TurnInv, DeliveryOK, Pending, Running
  <2>. QED
    BY <2>1, <2>3
<1>6. EndOK'
  <2>1. CASE HandleEndCall
    <3>1. run = "idle" /\ run' = "idle" /\ ending' /\ closing' /\ state' = state
          /\ hungUp' = (hungUp \/ state \in {"Listening", "Transcribing"}) /\ UNCHANGED hangupAfterTurn
      BY <2>1 DEF HandleEndCall, EndCall, runVars
    <3>. QED
      BY <1>1, <1>3, <3>1 DEF TurnInv, EndOK, Busy, LeavesTurns
  <2>2. CASE HandleLLMDone
    <3>1. /\ run = "idle" /\ events # <<>> /\ Head(events).type = "llmDone" /\ UNCHANGED <<state, run, ending, closing, hungUp>>
          /\ hangupAfterTurn' = IF Head(events).gen = curGen THEN Head(events).endCall ELSE hangupAfterTurn
      BY <2>2 DEF HandleLLMDone, runVars
    <3>2. Head(events).gen = curGen => Busy
      BY <3>1, QueueLeft DEF TurnInv, QueueOK
    <3>. QED
      BY <3>1, <3>2 DEF TurnInv, EndOK, Busy
  <2>3. CASE Interrupted \/ ConfirmInterruption \/ Unpause
    <3>1. /\ run \in {"idle", "confirm", "unpause"} /\ run' \in {"confirm", "unpause", "cut"} /\ (run = "idle" => ~closing)
          /\ UNCHANGED <<ending, closing, hungUp, hangupAfterTurn>>
      BY <2>3 DEF Interrupted, ConfirmInterruption, Unpause, TranscriptUnchanged, endVars
    <3>. QED
      BY <1>1, <3>1 DEF TurnInv, EndOK, LeavesTurns
  <2>4. ASSUME ~HandleEndCall, ~HandleLLMDone, ~Interrupted, ~ConfirmInterruption, ~Unpause
        PROVE  UNCHANGED <<ending, closing, hungUp, hangupAfterTurn>> /\ run = "idle" /\ run' = "idle" /\ (Busy' => Busy)
    <3>1. CASE HandleCallerSpeech \/ DeliveryDone
      BY <3>1 DEF HandleCallerSpeech, DeliveryDone, endVars, runVars, Busy
    <3>2. CASE ConnectionLost
      BY <3>2 DEF ConnectionLost, endVars, runVars, Busy
    <3>3. CASE IgnoreTranscript \/ HoldTranscript \/ TranscriptWhileClosing \/ Acknowledged
      BY <3>3 DEF IgnoreTranscript, HoldTranscript, TranscriptWhileClosing, Acknowledged, TranscriptUnchanged, endVars, Busy
    <3>4. CASE HandleTTSAudio
      BY <1>3, <3>4 DEF HandleTTSAudio, AudioOf, endVars, Busy
    <3>5. CASE KeepWaiting \/ FalseInterruption \/ HandleBargeIn
      BY <3>5 DEF KeepWaiting, FalseInterruption, HandleBargeIn, ResumeUnchanged, endVars, runVars, Busy
    <3>. QED
      BY <2>4, <3>1, <3>2, <3>3, <3>4, <3>5 DEF Handles
  <2>5. ASSUME UNCHANGED <<ending, closing, hungUp, hangupAfterTurn>>, run = "idle", run' = "idle", Busy' => Busy
        PROVE  EndOK'
    BY <1>1, <2>5 DEF TurnInv, EndOK, LeavesTurns
  <2>. QED
    BY <2>1, <2>2, <2>3, <2>4, <2>5
<1>7. ClockOK'
  <2>1. CASE HandleEndCall
    BY <2>1 DEF HandleEndCall, EndCall, StopIdleTimer, ClockOK
  <2>2. CASE HandleCallerSpeech
    <3>1. /\ run = "idle" /\ run' = "idle" /\ events # <<>> /\ Head(events).type = "speech"
          /\ callerSpeaking' = Head(events).started /\ UNCHANGED <<state, ending, hungUp, idleArmed>>
          /\ \/ Head(events).started /\ idleTimer' = "off"
             \/ /\ ~Head(events).started /\ idleArmed /\ state = "Listening"
                /\ idleTimer' = IF IdleTimeout /\ ~ending THEN "armed" ELSE "off"
             \/ ~(idleArmed /\ state = "Listening") /\ events' = q1 /\ UNCHANGED idleTimer
      BY <2>2 DEF HandleCallerSpeech, StopIdleTimer, StartIdleTimer, endVars
    <3>2. Range(events) = {Head(events)} \cup Range(q1)
      BY <3>1, QueueLeft
    <3>3. Head(events).type # "idle" /\ Plain("idle").type = "idle"
      BY <3>1 DEF Plain
    <3>4. CASE ~(idleArmed /\ state = "Listening") /\ events' = q1 /\ UNCHANGED idleTimer
      BY <3>1, <3>2, <3>3, <3>4 DEF TurnInv, ClockOK
    <3>. QED
      BY <3>1, <3>4 DEF ClockOK
  <2>3. ASSUME ~HandleEndCall, ~HandleCallerSpeech
        PROVE  /\ UNCHANGED <<idleArmed, ending, hungUp, callerSpeaking>>
               /\ state' = "Listening" => state = "Listening"
               /\ state = "Listening" => state' = "Listening" \/ run' = "unpause"
               /\ run' \in {"idle", "confirm"} => run \in {"idle", "confirm"}
               /\ run \in {"unpause", "cut"} => run' \in {"unpause", "cut"}
    <3>1. CASE DeliveryDone \/ HandleLLMDone
      BY <3>1 DEF DeliveryDone, HandleLLMDone, endVars, runVars, idleVars
    <3>2. CASE ConnectionLost
      BY <3>2 DEF ConnectionLost, endVars, runVars, idleVars
    <3>3. CASE IgnoreTranscript \/ HoldTranscript \/ TranscriptWhileClosing \/ Acknowledged
      BY <3>3 DEF IgnoreTranscript, HoldTranscript, TranscriptWhileClosing, Acknowledged, TranscriptUnchanged, endVars,
                  idleVars
    <3>4. CASE HandleTTSAudio
      BY <1>3, <3>4 DEF HandleTTSAudio, AudioOf, endVars, idleVars
    <3>5. CASE KeepWaiting \/ FalseInterruption \/ HandleBargeIn
      BY <3>5 DEF KeepWaiting, FalseInterruption, HandleBargeIn, ResumeUnchanged, endVars, runVars, idleVars
    <3>6. CASE Interrupted \/ ConfirmInterruption \/ Unpause
      BY <3>6 DEF Interrupted, ConfirmInterruption, Unpause, TranscriptUnchanged, endVars, idleVars
    <3>. QED
      BY <2>3, <3>1, <3>2, <3>3, <3>4, <3>5, <3>6 DEF Handles
  <2>4. ASSUME ~HandleEndCall, ~HandleCallerSpeech
        PROVE  ClockOK'
    <3>1. UNCHANGED idleTimer /\ (Plain("idle") \in Range(events) => Plain("idle") \in Range(events'))
      BY <1>1, <2>4 DEF LeavesClock, Plain
    <3>. QED
      BY <2>3, <2>4, <3>1 DEF TurnInv, ClockOK
  <2>. QED
    BY <2>1, <2>2, <2>4
<1>. QED
  BY <1>2, <1>4, <1>5, <1>6, <1>7 DEF TurnInv

\* ProcessFrame keeps the invariant.
LEMMA FrameKeeps ==
    ASSUME Untroubled, Typed, Typed', TurnInv, Frame
    PROVE  TurnInv'
<1>. USE DEF TickOnly, ttsVars, llmVars, runVars, endVars, idleVars
<1>0. UNCHANGED <<events, turn, conn, curGen, tts, ttsConn, faults, run, idleTimer, ending, closing, hungUp,
                  hangupAfterTurn, idleArmed, callerSpeaking>>
  BY NoTroubleSteps DEF Frame, DetectBargeIn, ReplaySentence, PlayFrame, PlaybackDone
<1>1. /\ UNCHANGED state /\ state = "Speaking" /\ ~paused /\ tick' = "idle"
      /\ \/ UNCHANGED <<sigs, paused, ttsDeliveryDone>>
         \/ sigs' = sigs \cup {"bargeIn"} /\ paused' /\ silence' /\ UNCHANGED ttsDeliveryDone
         \/ sigs' = sigs \cup {"playbackDone"} /\ UNCHANGED paused /\ ttsDeliveryDone /\ ~ttsDeliveryDone'
  BY NoTroubleSteps DEF Frame, DetectBargeIn, ReplaySentence, PlayFrame, PlaybackDone, Speaking, FoundEmpty,
                        Untroubled
<1>2. NoTrouble' /\ TurnsOK' /\ ClientsOK' /\ EndOK' /\ ClockOK'
  BY <1>0, <1>1 DEF TurnInv, NoTrouble, TurnsOK, ClientsOK, EndOK, ClockOK, Live, Running, Busy
<1>3. PauseOK'
  BY <1>0, <1>1 DEF TurnInv, PauseOK
<1>4. QueueOK'
  BY <1>0, <1>1 DEF TurnInv, QueueOK, Pending, Running, Busy
<1>5. DeliveryOK'
  <2>1. Delivered' => Delivered
    BY <1>1 DEF Delivered
  <2>2. "playbackDone" \in sigs' => ~ttsDeliveryDone'
    BY <1>1 DEF TurnInv, DeliveryOK
  <2>. QED
    BY <1>0, <1>1, <2>1, <2>2 DEF TurnInv, DeliveryOK, Pending, Running
<1>. QED
  BY <1>2, <1>3, <1>4, <1>5 DEF TurnInv

\* The caller and the timers keep the invariant.
LEMMA CallerKeeps ==
    ASSUME Untroubled, Typed, Typed', TurnInv, Caller
    PROVE  TurnInv'
<1>. USE DEF CallerOnly
<1>0. UNCHANGED <<turn, conn, curGen, tts, ttsConn, faults, run, state, sigs, tick, paused, ttsDeliveryDone, ending,
                  closing, hungUp, hangupAfterTurn, idleArmed, callerSpeaking>>
  BY DEF Caller, CallerStarts, CallerStops, CallerSaid, CallerMadeNoise, SilenceOver, IdleFires, ResumeFires,
         MaxDurationFires, ttsVars, llmVars, runVars, endVars, frameVars
<1>1. events \in Seq(Event) /\ Ordered(events)
  BY QueueLeft
<1>2. \/ UNCHANGED <<events, idleTimer>> /\ (silence' = silence \/ (sigs = {} /\ ~silence'))
      \/ /\ UNCHANGED <<idleTimer, silence>>
         /\ \E e \in Event : e.type \in {"speech", "transcript", "resume", "maxDuration"} /\ events' = Append(events, e)
      \/ UNCHANGED silence /\ idleTimer = "armed" /\ idleTimer' = "fired" /\ events' = Append(events, Plain("idle"))
  <2>1. CASE CallerStarts \/ CallerStops
    BY <2>1, EventsAre DEF CallerStarts, CallerStops, Speech
  <2>2. CASE \E k \in Kinds : CallerSaid(k)
    BY <2>2, EventsAre DEF CallerSaid, Transcript
  <2>3. CASE ResumeFires \/ MaxDurationFires
    BY <2>3, EventsAre DEF ResumeFires, MaxDurationFires, Plain, PlainEvents
  <2>4. CASE CallerMadeNoise \/ SilenceOver \/ IdleFires
    BY <2>4 DEF CallerMadeNoise, SilenceOver, IdleFires
  <2>. QED
    BY <2>1, <2>2, <2>3, <2>4 DEF Caller
<1>3. ASSUME NEW e \in Event, events' = Append(events, e)
      PROVE  /\ Range(events') = Range(events) \cup {e}
             /\ (\A a \in Range(events) : PairOK(a, e)) => Ordered(events')
  BY <1>1, <1>3, AppendRange, OrderedAppend
<1>4. /\ Ordered(events') /\ Range(events) \subseteq Range(events')
      /\ \A e \in Range(events') \ Range(events) :
            e.type \in {"speech", "transcript", "resume", "maxDuration"} \/ e = Plain("idle")
      /\ \/ UNCHANGED idleTimer /\ \A e \in Range(events') \ Range(events) : e.type # "idle"
         \/ idleTimer = "armed" /\ idleTimer' = "fired" /\ Plain("idle") \in Range(events')
  <2>1. CASE UNCHANGED <<events, idleTimer>>
    BY <1>1, <2>1
  <2>2. CASE /\ UNCHANGED idleTimer
             /\ \E e \in Event : e.type \in {"speech", "transcript", "resume", "maxDuration"} /\ events' = Append(events, e)
    <3>1. PICK e \in Event : e.type \in {"speech", "transcript", "resume", "maxDuration"} /\ events' = Append(events, e)
      BY <2>2
    <3>2. \A a \in Range(events) : PairOK(a, e)
      BY <3>1 DEF PairOK, Opens
    <3>. QED
      BY <1>3, <2>2, <3>1, <3>2
  <2>3. CASE idleTimer = "armed" /\ idleTimer' = "fired" /\ events' = Append(events, Plain("idle"))
    <3>1. PICK e \in Event : e = Plain("idle") /\ e.type = "idle"
      BY EventsAre DEF PlainEvents, Plain
    <3>2. \A a \in Range(events) : PairOK(a, e)
      BY <2>3, <3>1 DEF PairOK, Opens, TurnInv, QueueOK
    <3>. QED
      BY <1>3, <2>3, <3>1, <3>2
  <2>. QED
    BY <1>2, <2>1, <2>2, <2>3
<1>5. \A e \in Range(events') \ Range(events) : ~Opens(e) /\ e.type \notin {"done", "llmDone", "closed"}
  BY <1>4 DEF Opens, Plain
<1>6. NoTrouble' /\ TurnsOK' /\ ClientsOK' /\ EndOK'
  BY <1>0 DEF TurnInv, NoTrouble, TurnsOK, ClientsOK, EndOK, Live, Running, Busy
<1>7. PauseOK'
  <2>1. silence' = silence \/ sigs = {}
    BY <1>2
  <2>2. UNCHANGED <<sigs, state, run, paused>> /\ (run \in {"confirm", "unpause"} /\ ~silence => ~silence')
    BY <1>0, <1>2
  <2>. QED
    BY <2>1, <2>2 DEF TurnInv, PauseOK, Typed, TypedBits
<1>8. DeliveryOK'
  BY <1>0, <1>5 DEF TurnInv, DeliveryOK, Delivered, Pending, Running
<1>9. ClockOK'
  BY <1>0, <1>4 DEF TurnInv, ClockOK
<1>10. QueueOK'
  <2>1. ASSUME NEW e \in Range(events')
        PROVE  /\ Opens(e) => state' = "Listening" /\ run' = "idle" /\ idleTimer' = "off"
               /\ e.type = "idle" => idleTimer' = "fired"
    BY <1>0, <1>4, <1>5 DEF TurnInv, QueueOK
  <2>2. ASSUME NEW e \in Range(events'), e.type \in {"done", "llmDone", "closed"}
        PROVE  /\ e.type = "done" => e.gen <= curGen' /\ ~(e.gen \in Gens /\ Running(e.gen)') /\ ~Pending(e.gen)'
               /\ e.type = "llmDone" => e.gen <= curGen' /\ (e.gen = curGen' => Busy')
               /\ e.type = "closed" => e.conn <= ttsConn' /\ e.conn # tts'
    BY <1>0, <1>5, <2>2 DEF TurnInv, QueueOK, Pending, Running, Busy
  <2>. QED
    BY <1>4, <2>1, <2>2 DEF QueueOK
<1>. QED
  BY <1>6, <1>7, <1>8, <1>9, <1>10 DEF TurnInv

\* What the LLM's turns and the provider do: turns go on or end, requests are
\* made by a turn that is live, and the events they post are true.
TurnsGo ==
    /\ UNCHANGED <<curGen, tts, ttsConn, faults, run, state, sigs, tick, paused, silence, ttsDeliveryDone, ending,
                   hungUp, hangupAfterTurn, idleTimer, idleArmed, callerSpeaking>>
    /\ closing => closing'
    /\ \A g \in Gens : /\ turn'[g].pc # "none" => turn[g].pc # "none"
                       /\ Running(g)' => /\ Running(g) /\ turn'[g].conn = turn[g].conn
                                         /\ turn'[g].cancelled <=> turn[g].cancelled

ClientGoes(c) ==
    /\ c > ttsConn => conn'[c] = conn[c]
    /\ conn'[c].up /\ ~conn'[c].open => conn[c].up /\ ~conn[c].open
    /\ \A g \in Nat : HasPending(conn'[c], g) =>
         HasPending(conn[c], g) \/ (g \in Gens /\ Live(g) /\ turn[g].conn = c)
    /\ \A g \in conn'[c].ended : g \in conn[c].ended \/ (g \in Gens /\ Running(g) /\ ~Running(g)')
ClientsGo == \A c \in Conns : ClientGoes(c)

IsTrue(e) ==
    /\ ~Opens(e) /\ e.type # "idle"
    /\ e.type = "done" => e.gen <= curGen /\ ~(e.gen \in Gens /\ Running(e.gen)') /\ ~Pending(e.gen)'
                          /\ (Delivered => e.gen # curGen)
    /\ e.type = "llmDone" => e.gen <= curGen /\ (e.gen = curGen => Busy /\ ~Delivered)
    /\ e.type = "closed" => e.conn <= ttsConn /\ e.conn # tts
EventsGo ==
    /\ Ordered(events') /\ Range(events) \subseteq Range(events')
    /\ \A e \in Range(events') : e \in Range(events) \/ IsTrue(e)

\* Whatever goes on in this way keeps the invariant.
LEMMA GoingKeeps ==
    ASSUME Typed, Typed', TurnInv, TurnsGo, ClientsGo, EventsGo
    PROVE  TurnInv'
<1>0. /\ UNCHANGED <<curGen, tts, ttsConn, faults, run, state, sigs, tick, paused, silence, ttsDeliveryDone, ending,
                     hungUp, hangupAfterTurn, idleTimer, idleArmed, callerSpeaking>>
      /\ closing => closing'
  BY DEF TurnsGo
<1>1. ASSUME NEW g \in Gens
      PROVE  /\ turn'[g].pc # "none" => turn[g].pc # "none"
             /\ Running(g)' => /\ Running(g) /\ turn'[g].conn = turn[g].conn
                               /\ turn'[g].cancelled <=> turn[g].cancelled
  BY DEF TurnsGo
<1>2. Gens \subseteq Nat /\ curGen \in Nat /\ events \in Seq(Event)
  BY Numbers DEF Typed, TypedNumbers
<1>3. NoTrouble' /\ PauseOK' /\ EndOK'
  BY <1>0 DEF TurnInv, NoTrouble, PauseOK, EndOK, Busy
<1>4. TurnsOK'
  BY <1>0, <1>1 DEF TurnInv, TurnsOK, Live, Busy
<1>5. ASSUME NEW g \in Nat, g \in Gens => ~Running(g), ~Pending(g)
      PROVE  ~Pending(g)'
  BY <1>5 DEF ClientsGo, ClientGoes, Pending, Live
<1>6. ClientsOK'
  <2>1. ASSUME NEW c \in Conns
        PROVE  /\ c > ttsConn' => conn'[c] = NoConn
               /\ conn'[c].up /\ ~conn'[c].open => c # tts'
    BY <1>0 DEF ClientsGo, ClientGoes, TurnInv, ClientsOK
  <2>2. ASSUME NEW c \in Conns, NEW g \in Nat, HasPending(conn'[c], g)
        PROVE  /\ g <= curGen /\ (g \in Gens /\ Running(g) => turn[g].conn = c)
               /\ HasPending(conn[c], g) \/ (g \in Gens /\ Running(g) /\ turn[g].conn = c)
    <3>1. HasPending(conn[c], g) \/ (g \in Gens /\ Live(g) /\ turn[g].conn = c)
      BY <2>2 DEF ClientsGo, ClientGoes
    <3>. QED
      BY <1>2, <3>1 DEF TurnInv, TurnsOK, ClientsOK, Live
  <2>3. ASSUME NEW c \in Conns, NEW g \in Nat, HasPending(conn'[c], g)
        PROVE  /\ g <= curGen' /\ (g \in Gens /\ Running(g)' => turn'[g].conn = c)
               /\ \A d \in Conns : HasPending(conn'[d], g) => d = c
    <3>1. g <= curGen' /\ (g \in Gens /\ Running(g)' => turn'[g].conn = c)
      BY <1>0, <1>1, <2>2, <2>3
    <3>2. ASSUME NEW d \in Conns, HasPending(conn'[d], g)
          PROVE  d = c
      <4>1. /\ g \in Gens /\ Running(g) => turn[g].conn = c
            /\ HasPending(conn[c], g) \/ (g \in Gens /\ Running(g) /\ turn[g].conn = c)
        BY <2>2, <2>3
      <4>2. /\ g \in Gens /\ Running(g) => turn[g].conn = d
            /\ HasPending(conn[d], g) \/ (g \in Gens /\ Running(g) /\ turn[g].conn = d)
        BY <2>2, <3>2
      <4>3. HasPending(conn[c], g) /\ HasPending(conn[d], g) => d = c
        BY DEF TurnInv, ClientsOK
      <4>. QED
        BY <4>1, <4>2, <4>3
    <3>. QED
      BY <3>1, <3>2
  <2>4. ASSUME NEW c \in Conns, NEW g \in conn'[c].ended
        PROVE  g <= curGen' /\ ~(g \in Gens /\ Running(g)')
    <3>1. g \in conn[c].ended \/ (g \in Gens /\ Running(g) /\ ~Running(g)')
      BY DEF ClientsGo, ClientGoes
    <3>2. g \in conn[c].ended => g <= curGen /\ ~(g \in Gens /\ Running(g))
      BY DEF TurnInv, ClientsOK
    <3>3. g \in Gens /\ Running(g) => g <= curGen
      BY DEF TurnInv, TurnsOK, Running
    <3>. QED
      BY <1>0, <1>1, <3>1, <3>2, <3>3
  <2>5. tts' <= ttsConn'
    BY <1>0 DEF TurnInv, ClientsOK
  <2>. QED
    BY <2>1, <2>3, <2>4, <2>5 DEF ClientsOK
<1>7. QueueOK'
  <2>1. ASSUME NEW e \in Range(events')
        PROVE  /\ Opens(e) => state' = "Listening" /\ run' = "idle" /\ idleTimer' = "off"
               /\ e.type = "done" => e.gen <= curGen' /\ ~(e.gen \in Gens /\ Running(e.gen)') /\ ~Pending(e.gen)'
               /\ e.type = "llmDone" => e.gen <= curGen' /\ (e.gen = curGen' => Busy')
               /\ e.type = "closed" => e.conn <= ttsConn' /\ e.conn # tts'
               /\ e.type = "idle" => idleTimer' = "fired"
    <3>1. CASE IsTrue(e)
      BY <1>0, <3>1 DEF IsTrue, Busy
    <3>2. CASE e \in Range(events)
      <4>1. e \in Event
        BY <1>2, <3>2, RangeTyped
      <4>2. CASE e.type = "done"
        <5>1. e.gen \in Nat /\ e.gen <= curGen /\ ~(e.gen \in Gens /\ Running(e.gen)) /\ ~Pending(e.gen)
          BY <3>2, <4>1, <4>2, EventFields DEF TurnInv, QueueOK
        <5>2. ~Pending(e.gen)'
          BY <1>5, <5>1
        <5>3. ~(e.gen \in Gens /\ Running(e.gen)')
          BY <1>1, <5>1
        <5>. QED
          BY <1>0, <4>2, <5>1, <5>2, <5>3 DEF Opens
      <4>3. CASE e.type # "done"
        BY <1>0, <3>2, <4>3 DEF TurnInv, QueueOK, Busy
      <4>. QED
        BY <4>2, <4>3
    <3>. QED
      BY <3>1, <3>2 DEF EventsGo
  <2>. QED
    BY <2>1 DEF QueueOK, EventsGo
<1>8. DeliveryOK'
  <2>. PICK m \in Nat : m = curGen
    BY <1>2
  <2>1. ASSUME Delivered
        PROVE  /\ state = "Speaking" \/ run \in {"unpause", "cut"}
               /\ m \in Gens => ~Running(m)'
               /\ ~Pending(m)'
               /\ \A e \in Range(events') : e.type \in {"done", "llmDone"} => e.gen # m
    <3>1. /\ state = "Speaking" \/ run \in {"unpause", "cut"}
          /\ (m \in Gens => ~Running(m)) /\ ~Pending(m)
          /\ \A e \in Range(events) : e.type \in {"done", "llmDone"} => e.gen # m
      BY <2>1 DEF TurnInv, DeliveryOK
    <3>2. ~Pending(m)'
      BY <1>5, <3>1
    <3>3. m \in Gens => ~Running(m)'
      BY <1>1, <3>1
    <3>4. \A e \in Range(events') : e.type \in {"done", "llmDone"} => e.gen # m
      BY <2>1, <3>1 DEF EventsGo, IsTrue
    <3>. QED
      BY <3>1, <3>2, <3>3, <3>4
  <2>2. m = curGen' /\ (Delivered' => Delivered) /\ UNCHANGED <<state, run>>
    BY <1>0 DEF Delivered
  <2>3. "playbackDone" \in sigs' => ~ttsDeliveryDone'
    BY <1>0 DEF TurnInv, DeliveryOK
  <2>. QED
    BY <2>1, <2>2, <2>3 DEF DeliveryOK, Pending, Running
<1>9. ClockOK'
  BY <1>0 DEF TurnInv, ClockOK, EventsGo
<1>. QED
  BY <1>3, <1>4, <1>6, <1>7, <1>8, <1>9 DEF TurnInv

\* Forwarding a true Done, of which there is none yet.
LEMMA ForwardGoes ==
    ASSUME NEW q \in Seq(Event), Ordered(q), Range(events) \subseteq Range(q),
           \A e \in Range(q) : e \in Range(events) \/ (e.type = "audio" /\ IsTrue(e)),
           NEW c, NEW g \in Nat, events' \in Forward(q, c, g),
           EmitsDone(c, g) => IsTrue(Done(g)) /\ \A e \in Range(events) : e.type = "done" => e.gen # g
    PROVE  EventsGo
<1>1. Range(q) \subseteq Range(events') /\ Range(events') \subseteq Range(q) \cup {Done(g)}
  BY ForwardRange
<1>2. EmitsDone(c, g) \/ events' = q
  BY DEF Forward
<1>3. EmitsDone(c, g) => \A e \in Range(q) : PairOK(e, Done(g))
  BY DEF PairOK, Opens, Done
<1>4. Ordered(events')
  BY <1>2, <1>3, OrderedForward
<1>. QED
  BY <1>1, <1>2, <1>4 DEF EventsGo

\* Appending a true event.
LEMMA AppendGoes ==
    ASSUME Typed, TurnInv, NEW e \in Event, events' = Append(events, e), IsTrue(e),
           e.type \in {"done", "llmDone"} => \A a \in Range(events) : a.type = "done" => a.gen # e.gen
    PROVE  EventsGo
<1>1. events \in Seq(Event) /\ Ordered(events)
  BY QueueLeft
<1>2. \A a \in Range(events) : PairOK(a, e)
  BY DEF PairOK, IsTrue
<1>. QED
  BY <1>1, <1>2, AppendRange, OrderedAppend DEF EventsGo

\* A client whose oldest request has been answered.
LEMMA Answered ==
    ASSUME NEW x \in Client, x.pending # <<>>
    PROVE  /\ Head(x.pending) \in SentenceSet /\ HasPending(x, Head(x.pending).gen)
           /\ \A g : HasPending([x EXCEPT !.pending = Tail(@)], g) => HasPending(x, g)
<1>. PICK s \in Seq(SentenceSet) : s = x.pending
  BY DEF Client
<1>1. s # <<>> /\ Len(s) \in Nat \ {0} /\ Head(s) = s[1] /\ s[1] \in SentenceSet
  BY EmptySeq, LenProperties, HeadTailProperties, ElementOfSeq
<1>2. Len(Tail(s)) = Len(s) - 1 /\ \A i \in 1 .. Len(Tail(s)) : Tail(s)[i] = s[i + 1]
  BY <1>1, HeadTailProperties
<1>3. [x EXCEPT !.pending = Tail(@)].pending = Tail(s)
  BY DEF Client
<1>4. \A i \in 1 .. Len(Tail(s)) : i + 1 \in 1 .. Len(s) /\ Tail(s)[i] = s[i + 1]
  BY <1>1, <1>2
<1>. QED
  BY <1>1, <1>3, <1>4 DEF HasPending

\* The provider keeps the invariant.
LEMMA ProviderKeeps ==
    ASSUME Untroubled, Typed, Typed', TurnInv, NEW c \in Conns, Provider(c)
    PROVE  TurnInv'
<1>0. /\ events \in Seq(Event) /\ Ordered(events) /\ conn \in [Conns -> Client] /\ c \in Nat
      /\ conn[c] \in Client
  BY QueueLeft, Numbers DEF Typed
<1>1. faults' = faults /\ faults = 0
  BY NoTroubleSteps DEF Provider, Synthesize, ConnectionGone, TurnInv, NoTrouble
<1>2. TurnsGo /\ UNCHANGED <<turn, curGen>>
  <2>1. UNCHANGED turn
    BY DEF Provider, Synthesize, ConnectionGone, llmVars
  <2>. QED
    BY <1>1, <2>1 DEF TurnsGo, Provider, Synthesize, ConnectionGone, pauseVars, frameVars, endVars, idleVars, llmVars,
                      runVars, Running
<1>3. CASE Synthesize(c, TRUE)
  <2>. PICK x \in Client : x = conn[c]
    BY <1>0
  <2>. DEFINE after == [x EXCEPT !.pending = Tail(@)]
              g == Head(x.pending).gen
              r == Head(x.pending).req
  <2>1. /\ x.pending # <<>> /\ conn' = [conn EXCEPT ![c] = after]
        /\ events' \in Forward(Append(events, Audio(g, r)), after, g)
    BY <1>3 DEF Synthesize
  <2>2. g \in Nat /\ r \in Nat /\ HasPending(x, g) /\ \A h : HasPending(after, h) => HasPending(x, h)
    BY <2>1, Answered DEF SentenceSet
  <2>3. after.up = x.up /\ after.open = x.open /\ after.ended = x.ended
    OBVIOUS
  <2>. HIDE DEF after
  <2>4. \A d \in Conns : conn'[d] = IF d = c THEN after ELSE conn[d]
    BY <1>0, <2>1
  <2>5. c <= ttsConn /\ \A d \in Conns : d > ttsConn => conn'[d] = conn[d]
    <3>1. x # NoConn
      BY <2>1 DEF NoConn
    <3>2. c <= ttsConn
      BY <1>0, <3>1 DEF TurnInv, ClientsOK, Typed, TypedNumbers
    <3>. QED
      BY <1>0, <2>4, <3>2, Numbers DEF Typed, TypedNumbers
  <2>6. ClientsGo
    BY <2>2, <2>3, <2>4, <2>5 DEF ClientsGo, ClientGoes
  <2>7. Pending(g) /\ \A h : Pending(h)' => Pending(h)
    BY <2>2, <2>4 DEF Pending
  <2>8. g <= curGen /\ (Delivered => g # curGen) /\ \A e \in Range(events) : e.type = "done" => e.gen # g
    BY <2>2, <2>7 DEF TurnInv, ClientsOK, DeliveryOK, QueueOK
  <2>9. EmitsDone(after, g) => IsTrue(Done(g))
    <3>. SUFFICES ASSUME EmitsDone(after, g)
                  PROVE  IsTrue(Done(g))
      OBVIOUS
    <3>1. g \in x.ended /\ ~HasPending(after, g)
      BY <2>3 DEF EmitsDone
    <3>2. ~(g \in Gens /\ Running(g)')
      BY <1>2, <3>1 DEF TurnInv, ClientsOK, Running
    <3>3. \A d \in Conns : HasPending(conn[d], g) => d = c
      BY <2>2 DEF TurnInv, ClientsOK
    <3>4. ~Pending(g)'
      BY <2>4, <3>1, <3>3 DEF Pending
    <3>. QED
      BY <2>8, <3>2, <3>4 DEF IsTrue, Done, Opens
  <2>10. PICK e \in Event : e = Audio(g, r)
    BY <2>2, EventsAre
  <2>11. e.type = "audio" /\ IsTrue(e) /\ \A a \in Range(events) : PairOK(a, e)
    BY <2>10 DEF Audio, IsTrue, PairOK, Opens
  <2>12. /\ Append(events, e) \in Seq(Event) /\ Range(Append(events, e)) = Range(events) \cup {e}
         /\ Ordered(Append(events, e))
    BY <1>0, <2>11, AppendRange, OrderedAppend
  <2>. HIDE DEF g, r
  <2>13. EventsGo
    BY <2>1, <2>2, <2>8, <2>9, <2>10, <2>11, <2>12, ForwardGoes
  <2>. QED
    BY <1>2, <2>6, <2>13, GoingKeeps
<1>4. CASE ConnectionGone(c)
  <2>1. conn[c].up /\ ~conn[c].open /\ conn' = [conn EXCEPT ![c] = NoConn] /\ events' = Append(events, Closed(c))
    BY <1>4, NoTroubleSteps DEF ConnectionGone
  <2>2. c <= ttsConn /\ c # tts
    <3>1. conn[c] # NoConn
      BY <2>1 DEF NoConn
    <3>. QED
      BY <1>0, <2>1, <3>1 DEF TurnInv, ClientsOK, Typed, TypedNumbers
  <2>3. \A d \in Conns : conn'[d] = IF d = c THEN NoConn ELSE conn[d]
    BY <1>0, <2>1
  <2>4. ClientsGo
    <3>1. ~NoConn.up /\ NoConn.ended = {} /\ \A g : ~HasPending(NoConn, g)
      BY NoPending DEF NoConn
    <3>. QED
      BY <1>0, <2>2, <2>3, <3>1 DEF ClientsGo, ClientGoes, Typed, TypedNumbers
  <2>5. PICK e \in Event : e = Closed(c)
    BY <1>0, EventsAre
  <2>6. e.type = "closed" /\ e.conn = c
    BY <2>5 DEF Closed
  <2>7. IsTrue(e)
    BY <2>2, <2>6 DEF IsTrue, Opens
  <2>8. EventsGo
    BY <2>1, <2>5, <2>6, <2>7, AppendGoes
  <2>. QED
    BY <1>2, <2>4, <2>8, GoingKeeps
<1>. QED
  BY <1>3, <1>4, NoTroubleSteps DEF Provider

\* What an LLM's turn changes of the turns.
LEMMA LLMTurns ==
    ASSUME Untroubled, Typed, TurnInv, NEW g \in Gens, LLM(g)
    PROVE  /\ Running(g) /\ TurnsGo
           /\ LLMSays(g) => ~turn[g].cancelled
           /\ LLMEndsGeneration(g) => ~Running(g)'
<1>0. PICK x \in Turn : x = turn[g]
  BY DEF Typed
<1>1. faults' = faults /\ faults = 0 /\ ~LLMFails(g)
  BY NoTroubleSteps DEF LLM, LLMSays, LLMCancelled, LLMCompletes, LLMCalls, CallReturns, AfterCalls, LLMPosts,
                        LLMEndsGeneration, TurnInv, NoTrouble
<1>2. Running(g)
  BY <1>1 DEF LLM, LLMSays, LLMCancelled, LLMCompletes, LLMCalls, CallReturns, AfterCalls, LLMPosts,
              LLMEndsGeneration, Running
<1>3. /\ \A h \in Gens : h # g => turn'[h] = turn[h]
      /\ turn'[g].pc = "over" \/ (turn'[g].conn = x.conn /\ turn'[g].cancelled = x.cancelled)
  <2>1. ASSUME NEW y, turn' = [turn EXCEPT ![g] = y], y.pc = "over" \/ (y.conn = x.conn /\ y.cancelled = x.cancelled)
        PROVE  /\ \A h \in Gens : h # g => turn'[h] = turn[h]
               /\ turn'[g].pc = "over" \/ (turn'[g].conn = x.conn /\ turn'[g].cancelled = x.cancelled)
    BY <2>1 DEF Typed
  <2>2. CASE LLMSays(g)
    BY <1>0, <2>1, <2>2 DEF LLMSays, Turn
  <2>3. CASE LLMCancelled(g) \/ LLMEndsGeneration(g)
    BY <2>1, <2>3 DEF LLMCancelled, LLMEndsGeneration, OverTurn, NoTurn
  <2>4. CASE LLMCompletes(g) \/ LLMPosts(g)
    BY <1>0, <2>1, <2>4 DEF LLMCompletes, LLMPosts, Turn
  <2>5. ASSUME NEW tool \in Tools, LLMCalls(g, tool)
        PROVE  turn' = [turn EXCEPT ![g] = [x EXCEPT !.round = @ + 1, !.pc = tool]]
    BY <1>0, <2>5 DEF LLMCalls, Typed
  <2>6. CASE \E tool \in Tools : LLMCalls(g, tool)
    BY <2>1, <2>5, <2>6 DEF Turn
  <2>7. CASE CallReturns(g)
    <3>1. \A h \in Gens : h # g => turn'[h] = turn[h]
      BY <2>7 DEF CallReturns, Typed
    <3>2. turn'[g].conn = x.conn /\ turn'[g].cancelled = x.cancelled
      BY <1>0, <2>7 DEF CallReturns, Typed, Turn
    <3>. QED
      BY <3>1, <3>2
  <2>8. CASE AfterCalls(g)
    BY <1>0, <2>1, <2>8 DEF AfterCalls, OverTurn, NoTurn, Turn
  <2>. QED
    BY <1>1, <2>2, <2>3, <2>4, <2>6, <2>7, <2>8 DEF LLM
<1>4. /\ UNCHANGED <<curGen, tts, ttsConn, run, state, sigs, tick, paused, silence, ttsDeliveryDone, ending,
                     hungUp, hangupAfterTurn, idleTimer, idleArmed, callerSpeaking>>
      /\ closing => closing'
  <2>1. LLMOnly
    BY <1>1 DEF LLM, LLMSays, LLMCancelled, LLMCompletes, LLMCalls, CallReturns, AfterCalls, LLMPosts, LLMEndsGeneration
  <2>2. closing => closing'
    <3>1. CASE CallReturns(g)
      BY <3>1 DEF CallReturns
    <3>2. CASE ~CallReturns(g)
      BY <1>1, <3>2 DEF LLM, LLMSays, LLMCancelled, LLMCompletes, LLMCalls, AfterCalls, LLMPosts, LLMEndsGeneration
    <3>. QED
      BY <3>1, <3>2
  <2>. QED
    BY <2>1, <2>2 DEF LLMOnly, pauseVars, frameVars, idleVars, runVars
<1>5. LLMSays(g) => ~turn[g].cancelled
  BY DEF LLMSays
<1>6. LLMEndsGeneration(g) => ~Running(g)'
  BY DEF LLMEndsGeneration, Typed, OverTurn, NoTurn, Running
<1>7. TurnsGo
  BY <1>0, <1>1, <1>2, <1>3, <1>4 DEF TurnsGo, Running
<1>. QED
  BY <1>2, <1>5, <1>6, <1>7

\* A client with one request more, and one whose generation has been ended.
LEMMA ClientSpeaks ==
    ASSUME NEW x \in Client, NEW g \in Nat
    PROVE  /\ Speak(x, g).up = x.up /\ Speak(x, g).open = x.open /\ Speak(x, g).ended = x.ended
           /\ \A h : HasPending(Speak(x, g), h) => HasPending(x, h) \/ h = g
           /\ Ended(x, g).up = x.up /\ Ended(x, g).open = x.open /\ Ended(x, g).pending = x.pending
           /\ Ended(x, g).ended \subseteq x.ended \cup {g}
           /\ x = NoConn => Speak(x, g) = x /\ Ended(x, g) = x
<1>1. x = NoConn => Speak(x, g) = x /\ Ended(x, g) = x
  BY DEF NoConn, Speak, Ended
<1>2. /\ Ended(x, g).up = x.up /\ Ended(x, g).open = x.open /\ Ended(x, g).pending = x.pending
      /\ Ended(x, g).ended \subseteq x.ended \cup {g}
  BY DEF Ended, Client
<1>3. CASE ~(x.open /\ x.up)
  BY <1>1, <1>2, <1>3 DEF Speak
<1>4. CASE x.open /\ x.up
  <2>. PICK s \in Seq(SentenceSet) : s = x.pending
    BY DEF Client
  <2>. DEFINE p == Sentence(g, x.next + 1)
  <2>1. p \in SentenceSet /\ p.gen = g
    BY DEF Sentence, SentenceSet, Client
  <2>2. Speak(x, g) = [x EXCEPT !.next = @ + 1, !.pending = Append(@, p)]
    BY <1>4 DEF Speak
  <2>. HIDE DEF p
  <2>3. /\ Speak(x, g).up = x.up /\ Speak(x, g).open = x.open /\ Speak(x, g).ended = x.ended
        /\ Speak(x, g).pending = Append(s, p)
    BY <2>2 DEF Client
  <2>4. Len(Append(s, p)) = Len(s) + 1 /\ Append(s, p)[Len(s) + 1] = p /\ \A i \in 1 .. Len(s) : Append(s, p)[i] = s[i]
    BY <2>1, AppendProperties
  <2>5. ASSUME NEW i \in 1 .. Len(Append(s, p))
        PROVE  (i \in 1 .. Len(s) /\ Append(s, p)[i] = s[i]) \/ Append(s, p)[i] = p
    <3>1. Len(s) \in Nat
      BY LenProperties
    <3>2. i \in 1 .. Len(s) \/ i = Len(s) + 1
      BY <2>4, <3>1
    <3>. QED
      BY <2>4, <3>2
  <2>6. ASSUME NEW h, HasPending(Speak(x, g), h)
        PROVE  HasPending(x, h) \/ h = g
    <3>1. PICK i \in 1 .. Len(Append(s, p)) : Append(s, p)[i].gen = h
      BY <2>3, <2>6 DEF HasPending
    <3>. QED
      BY <2>1, <2>5, <3>1 DEF HasPending
  <2>. QED
    BY <1>1, <1>2, <2>3, <2>6
<1>. QED
  BY <1>3, <1>4

\* An LLM's turn keeps the invariant.
LEMMA LLMKeeps ==
    ASSUME Untroubled, Typed, Typed', TurnInv, NEW g \in Gens, LLM(g)
    PROVE  TurnInv'
<1>. DEFINE k == turn[g].conn
<1>0. /\ events \in Seq(Event) /\ Ordered(events) /\ conn \in [Conns -> Client] /\ g \in Nat /\ k \in Nat
      /\ turn[g].endCall \in BOOLEAN /\ Conns \subseteq Nat /\ ttsConn \in Nat
  BY QueueLeft, Numbers DEF Typed, TypedNumbers, Turn
<1>1. Running(g) /\ TurnsGo /\ ~LLMFails(g)
  BY LLMTurns, NoTroubleSteps
<1>2. /\ g <= curGen /\ (Live(g) => g = curGen /\ Busy) /\ (turn[g].cancelled => g < curGen)
      /\ Delivered => g # curGen
      /\ \A e \in Range(events) : e.type = "done" => e.gen # g
      /\ \A c \in Conns : HasPending(conn[c], g) => c = k
  <2>1. g <= curGen /\ (Live(g) => g = curGen /\ Busy) /\ (turn[g].cancelled => g < curGen)
    BY <1>1 DEF TurnInv, TurnsOK, Running
  <2>2. Delivered => g # curGen
    BY <1>1 DEF TurnInv, DeliveryOK
  <2>3. \A e \in Range(events) : e.type = "done" => e.gen # g
    BY <1>1 DEF TurnInv, QueueOK
  <2>4. \A c \in Conns : HasPending(conn[c], g) => c = k
    BY <1>0, <1>1 DEF TurnInv, ClientsOK
  <2>. QED
    BY <2>1, <2>2, <2>3, <2>4
<1>. HIDE DEF k
<1>3. UNCHANGED conn => ClientsGo
  BY DEF ClientsGo, ClientGoes
<1>4. UNCHANGED events => EventsGo
  BY <1>0 DEF EventsGo
<1>5. CASE LLMCancelled(g) \/ LLMCompletes(g) \/ (\E tool \in Tools : LLMCalls(g, tool)) \/ CallReturns(g)
  <2>1. UNCHANGED <<conn, events>>
    BY <1>5 DEF LLMCancelled, LLMCompletes, LLMCalls, CallReturns
  <2>. QED
    BY <1>1, <1>3, <1>4, <2>1, GoingKeeps
<1>6. CASE LLMSays(g)
  <2>1. UNCHANGED events /\ ~turn[g].cancelled /\ conn' = [conn EXCEPT ![k] = Speak(@, g)]
    BY <1>6 DEF LLMSays, SendToTTS, k
  <2>2. \A c \in Conns : conn'[c] = IF c = k THEN Speak(conn[c], g) ELSE conn[c]
    BY <1>0, <2>1
  <2>3. Live(g)
    BY <1>1, <2>1 DEF Live
  <2>4. ASSUME NEW c \in Conns
        PROVE  ClientGoes(c)
    <3>1. CASE c = k
      <4>. PICK x \in Client : x = conn[c]
        BY <1>0
      <4>1. conn'[c] = Speak(x, g) /\ turn[g].conn = c
        BY <2>2, <3>1 DEF k
      <4>2. c > ttsConn => x = NoConn
        BY DEF TurnInv, ClientsOK
      <4>. QED
        BY <1>0, <2>3, <4>1, <4>2, ClientSpeaks DEF ClientGoes
    <3>2. CASE c # k
      BY <2>2, <3>2 DEF ClientGoes
    <3>. QED
      BY <3>1, <3>2
  <2>. QED
    BY <1>1, <1>4, <2>1, <2>4, GoingKeeps DEF ClientsGo
<1>7. CASE AfterCalls(g)
  <2>1. UNCHANGED conn /\ (events' = events \/ events' = Append(events, Plain("endCallTool")))
    BY <1>7 DEF AfterCalls
  <2>2. PICK e \in Event : e = Plain("endCallTool") /\ e.type = "endCallTool"
    BY EventsAre DEF Plain, PlainEvents
  <2>3. IsTrue(e)
    BY <2>2 DEF IsTrue, Opens
  <2>4. events' = Append(events, e) => EventsGo
    BY <2>2, <2>3, AppendGoes
  <2>. QED
    BY <1>1, <1>3, <1>4, <2>1, <2>2, <2>4, GoingKeeps
<1>8. CASE LLMPosts(g)
  <2>1. UNCHANGED conn /\ events' = Append(events, LLMDone(g, turn[g].endCall \/ turn[g].node = "end"))
    BY <1>8 DEF LLMPosts
  <2>2. PICK e \in Event : e = LLMDone(g, turn[g].endCall \/ turn[g].node = "end")
    BY <1>0, EventsAre
  <2>3. e.type = "llmDone" /\ e.gen = g
    BY <2>2 DEF LLMDone
  <2>4. g = curGen => Busy /\ ~Delivered
    BY <1>0, <1>1, <1>2 DEF Live, Typed, TypedNumbers
  <2>5. IsTrue(e)
    BY <1>2, <2>3, <2>4 DEF IsTrue, Opens
  <2>6. EventsGo
    BY <1>2, <2>1, <2>2, <2>3, <2>5, AppendGoes
  <2>. QED
    BY <1>1, <1>3, <2>1, <2>6, GoingKeeps
<1>9. CASE LLMEndsGeneration(g)
  <2>. DEFINE x == Ended(conn[k], g)
  <2>1. conn' = [conn EXCEPT ![k] = x] /\ events' \in Forward(events, x, g) /\ ~Running(g)'
    BY <1>9, LLMTurns DEF LLMEndsGeneration, k
  <2>2. \A c \in Conns : conn'[c] = IF c = k THEN x ELSE conn[c]
    BY <1>0, <2>1
  <2>3. ASSUME k \in Conns
        PROVE  /\ x.up = conn[k].up /\ x.open = conn[k].open /\ x.pending = conn[k].pending
               /\ x.ended \subseteq conn[k].ended \cup {g}
               /\ k > ttsConn => x = conn[k]
    <3>1. k > ttsConn => conn[k] = NoConn
      BY <2>3 DEF TurnInv, ClientsOK
    <3>. QED
      BY <1>0, <2>3, <3>1, ClientSpeaks
  <2>. HIDE DEF x
  <2>4. ClientsGo
    BY <1>1, <2>1, <2>2, <2>3 DEF ClientsGo, ClientGoes, HasPending
  <2>5. EmitsDone(x, g) => IsTrue(Done(g))
    <3>. SUFFICES ASSUME EmitsDone(x, g)
                  PROVE  IsTrue(Done(g))
      OBVIOUS
    <3>1. ~HasPending(x, g)
      BY DEF EmitsDone
    <3>2. ASSUME NEW c \in Conns
          PROVE  ~HasPending(conn'[c], g)
      <4>1. CASE c = k
        BY <2>2, <3>1, <4>1
      <4>2. CASE c # k
        BY <1>2, <2>2, <4>2
      <4>. QED
        BY <4>1, <4>2
    <3>3. ~Pending(g)'
      BY <3>2 DEF Pending
    <3>. QED
      BY <1>2, <2>1, <3>3 DEF IsTrue, Done, Opens
  <2>6. \A e \in Range(events) : e \in Range(events) \/ (e.type = "audio" /\ IsTrue(e))
    OBVIOUS
  <2>7. EventsGo
    BY <1>0, <1>2, <2>1, <2>5, <2>6, ForwardGoes
  <2>. QED
    BY <1>1, <2>4, <2>7, GoingKeeps
<1>. QED
  BY <1>1, <1>5, <1>6, <1>7, <1>8, <1>9 DEF LLM

\* The end of the call leaves nothing to be said of it.
LEMMA CallEndsKeeps ==
    ASSUME Typed, TurnInv, CallEnds
    PROVE  TurnInv'
<1>1. /\ run' = "over" /\ state' = "Listening" /\ sigs' = {} /\ ~paused' /\ ~ttsDeliveryDone' /\ tick' = "idle"
      /\ events' = <<>> /\ tts' = 0 /\ idleTimer' = "off" /\ UNCHANGED <<faults, closing, ending, ttsConn>>
      /\ \A c \in Conns : conn'[c] = NoConn
      /\ \A g \in Gens : turn'[g].pc = "none"
  BY DEF CallEnds, endVars, NoTurn
<1>2. Range(events') = {} /\ Ordered(events')
  BY <1>1 DEF Range, Ordered
<1>3. NoTrouble' /\ PauseOK' /\ DeliveryOK' /\ EndOK' /\ ClockOK'
  <2>1. NoTrouble' /\ PauseOK'
    BY <1>1 DEF TurnInv, NoTrouble, PauseOK
  <2>2. DeliveryOK'
    BY <1>1 DEF DeliveryOK, Delivered
  <2>3. EndOK' /\ ClockOK'
    BY <1>1 DEF TurnInv, EndOK, ClockOK
  <2>. QED
    BY <2>1, <2>2, <2>3
<1>4. TurnsOK' /\ QueueOK'
  BY <1>1, <1>2 DEF TurnsOK, QueueOK, Live, Running
<1>5. ClientsOK'
  <2>1. 0 <= ttsConn /\ ~NoConn.up /\ NoConn.ended = {} /\ \A g : ~HasPending(NoConn, g)
    BY NoPending DEF NoConn, Typed, TypedNumbers
  <2>. QED
    BY <1>1, <2>1 DEF ClientsOK
<1>. QED
  BY <1>3, <1>4, <1>5 DEF TurnInv

\* The call begins with nothing but its first event.
LEMMA TurnInit ==
    ASSUME Untroubled, Init
    PROVE  TurnInv
<1>. PICK first \in {"greeting", "opening"} : InitWith(first)
  BY DEF Init
<1>. USE DEF InitWith
<1>1. PICK e : e = Plain(first) /\ Opens(e) /\ e.type = first
  BY DEF Plain, Opens
<1>2. Range(events) = {e} /\ Ordered(events)
  <2>1. events = <<e>> /\ DOMAIN <<e>> = {1} /\ Len(<<e>>) = 1
    BY <1>1
  <2>2. Range(events) = {e}
    BY <2>1 DEF Range
  <2>3. \A i, j \in 1 .. Len(events) : ~(i < j)
    BY <2>1
  <2>. QED
    BY <2>2, <2>3 DEF Ordered
<1>3. NoTrouble /\ PauseOK /\ DeliveryOK /\ EndOK /\ ClockOK
  BY DEF NoTrouble, PauseOK, DeliveryOK, Delivered, EndOK, ClockOK
<1>4. TurnsOK
  BY DEF TurnsOK, Live, Running, NoTurn
<1>5. QueueOK
  BY <1>1, <1>2 DEF QueueOK
<1>6. ClientsOK
  <2>1. ~NoConn.up /\ NoConn.ended = {} /\ \A g : ~HasPending(NoConn, g)
    BY NoPending DEF NoConn
  <2>. QED
    BY <2>1 DEF ClientsOK
<1>. QED
  BY <1>3, <1>4, <1>5, <1>6 DEF TurnInv

\* Every step keeps the invariant.
LEMMA TurnStep ==
    ASSUME Untroubled, Typed, Typed', TurnInv, [Next]_vars
    PROVE  TurnInv'
<1>1. CASE UNCHANGED vars
  BY <1>1 DEF vars, pauseVars, frameVars, endVars, idleVars, ttsVars, llmVars, envVars, ghostVars, runVars, TurnInv,
              NoTrouble, PauseOK, TurnsOK, ClientsOK, QueueOK, DeliveryOK, EndOK, ClockOK, Live, Running, Busy,
              Pending, Delivered
<1>2. CASE Handler
  <2>1. CASE HandleGreeting \/ HandleOpening \/ AcceptTranscript \/ HandleIdle \/ CutReply
    BY <2>1, GreetingBegins, HandlerBegins, CutBegins, BeginsKeeps
  <2>2. CASE NothingToPlay \/ HandlePlaybackDone
    BY <2>2, HandlerFinishes, BeginsKeeps, EndsKeeps
  <2>3. CASE Handles
    BY <2>3, HandlesKeeps
  <2>. QED
    BY <1>2, <2>1, <2>2, <2>3, NoTroubleSteps DEF Handler, Handles
<1>3. CASE Frame \/ Caller \/ CallEnds
  BY <1>3, FrameKeeps, CallerKeeps, CallEndsKeeps
<1>4. CASE (\E g \in Gens : LLM(g)) \/ (\E c \in Conns : Provider(c))
  BY <1>4, LLMKeeps, ProviderKeeps
<1>. QED
  BY <1>1, <1>2, <1>3, <1>4 DEF Next

\* Its invariant.
LEMMA TurnInvariant ==
    ASSUME Untroubled
    PROVE  Spec => [](Typed /\ TurnInv)
<1>1. Init => TurnInv
  BY TurnInit
<1>2. Typed /\ Typed' /\ TurnInv /\ [Next]_vars => TurnInv'
  BY TurnStep
<1>. QED
  BY <1>1, <1>2, TypesKept, PTL DEF Spec

\* Of the LLM's turns at most one is at work that has not been cancelled, though
\* turns are cancelled, cut and begun over each other (startTurn, cancelTurn,
\* finishTurn): while nothing fails and no tick is held up.
THEOREM OneAtATime ==
    ASSUME Untroubled
    PROVE  Spec => []OneTurnAtATime
<1>1. Typed /\ TurnInv => OneTurnAtATime
  <2>. SUFFICES ASSUME Typed, TurnInv
                PROVE  OneTurnAtATime
    OBVIOUS
  <2>. DEFINE L == {g \in Gens : Running(g) /\ ~turn[g].cancelled}
  <2>1. L \subseteq {curGen}
    BY DEF TurnInv, TurnsOK, Live
  <2>2. IsFiniteSet({curGen}) /\ Cardinality({curGen}) = 1
    BY FS_Singleton
  <2>3. Cardinality(L) <= 1
    <3>. HIDE DEF L
    <3>. QED
      BY <2>1, <2>2, FS_Subset
  <2>. QED
    BY <2>3 DEF OneTurnAtATime
<1>. QED
  BY <1>1, TurnInvariant, PTL

\* A call that run() has decided to end is hung up before the agent listens again,
\* whatever reply, interruption or end of delivery comes between (endCall,
\* finishTurn): while nothing fails and no tick is held up.
THEOREM EndedIsHungUp ==
    ASSUME Untroubled
    PROVE  Spec => []EndingHangsUp
<1>1. TurnInv => EndingHangsUp
  BY DEF TurnInv, EndOK, EndingHangsUp, Quiet, Busy
<1>. QED
  BY <1>1, TurnInvariant, PTL

\* The silence clock runs whenever nothing is left to do but wait for the caller,
\* and once it has run out run() finds the agent listening and the call not
\* ending (startIdleTimer, stopIdleTimer, idleSeq): while nothing fails and no
\* tick is held up.
THEOREM ClockRuns ==
    ASSUME Untroubled
    PROVE  Spec => []SilenceClockRuns
<1>1. Typed /\ TurnInv => SilenceClockRuns
  <2>. SUFFICES ASSUME Typed, TurnInv
                PROVE  SilenceClockRuns
    OBVIOUS
  <2>1. Quiet => idleTimer # "fired"
    <3>1. events = <<>> => Range(events) = {}
      BY DEF Range
    <3>. QED
      BY <3>1 DEF Quiet, TurnInv, ClockOK
  <2>2. Quiet /\ IdleTimeout /\ idleArmed /\ ~ending /\ ~hungUp /\ ~callerSpeaking => idleTimer = "armed"
    BY <2>1 DEF Quiet, TurnInv, ClockOK, Typed, TypedStates
  <2>3. idleTimer = "fired" /\ run = "idle" => state = "Listening" /\ ~ending
    BY DEF TurnInv, ClockOK
  <2>. QED
    BY <2>2, <2>3 DEF SilenceClockRuns
<1>. QED
  BY <1>1, TurnInvariant, PTL

-----------------------------------------------------------------------------
\* What history holds of the replies: while nothing fails and no goroutine is
\* held up between two instructions.

Undisturbed == Untroubled /\ "reader" \notin Preempt

Heard(g, r) == \E h \in heard : h.gen = g /\ h.req = r
Noted(g, r) == Sentence(g, r) \in recorded

\* Audio of generation g comes in the order of its requests and before its Done.
IsAudio(e, g) == e.type = "audio" /\ e.gen = g
SoundPair(g, a, b) ==
    IsAudio(b, g) => ~(a.type = "done" /\ a.gen = g) /\ (IsAudio(a, g) => a.req < b.req)
Sounds(g, q) == \A i, j \in 1 .. Len(q) : i < j => SoundPair(g, q[i], q[j])

\* A sentence of the current reply has come from the provider.
Came(r) == r \in turnChunks \/ \E e \in Range(events) : IsAudio(e, curGen) /\ e.req = r

\* The requests of a queue of sentences are in order.
Increasing(q) == \A i, j \in 1 .. Len(q) : i < j => q[i].req < q[j].req

\* A client numbers its requests, and they are answered in that order.
Numbered(x) ==
    /\ \A i \in 1 .. Len(x.pending) : 0 < x.pending[i].req /\ x.pending[i].req <= x.next
    /\ Increasing(x.pending)

RequestsOK ==
    /\ Sounds(curGen, events)
    /\ \A e \in Range(events) : e.type = "audio" => e.gen <= curGen
    /\ \A e \in Range(events) : IsAudio(e, curGen) => 0 < e.req /\ \A r \in turnChunks : r < e.req
    /\ \A c \in Conns :
        /\ Numbered(conn[c])
        /\ \A i \in 1 .. Len(conn[c].pending) :
             conn[c].pending[i].gen = curGen => \A r \in Nat : Came(r) => r < conn[c].pending[i].req
        /\ \A g \in Gens : Live(g) /\ turn[g].conn = c /\ conn[c].up =>
             \A r \in Nat : Came(r) => r <= conn[c].next

\* Nothing more comes of the current reply.
NoMoreAudio ==
    /\ ~Pending(curGen) /\ (curGen \in Gens => ~Running(curGen))
    /\ \A e \in Range(events) : ~IsAudio(e, curGen)

\* The current reply is being played, in order, and nothing of it is written yet;
\* or it has been written as it was heard.
InProgress ==
    /\ \A r \in Nat : /\ ~Noted(curGen, r)
                      /\ Heard(curGen, r) => r \in turnChunks /\ r <= playing /\ playing # 0
    /\ \A r \in turnChunks : Heard(curGen, r) \/ \E f \in Range(outbound) : f.req = r
    /\ \A f \in Range(outbound) : f.gen = curGen /\ f.req \in turnChunks /\ playing < f.req
    /\ playing # 0 => playing \in turnChunks
    /\ Increasing(outbound)
Settled ==
    /\ turnChunks = {} /\ outbound = <<>> /\ NoMoreAudio
    /\ \A r \in Nat : Heard(curGen, r) <=> Noted(curGen, r)

ReplyOK ==
    /\ InProgress \/ Settled
    /\ state = "Listening" => Settled
    /\ state = "Thinking" => voiced # curGen /\ turnChunks = {}
    /\ voiced <= curGen
    /\ Delivered => NoMoreAudio
    /\ "playbackDone" \in sigs => outbound = <<>>
    /\ run = "over" => state = "Listening"

\* Of every other reply history holds what was heard.
PastOK ==
    /\ \A h \in heard : h.gen <= curGen
    /\ \A s \in recorded : s.gen <= curGen
    /\ CutOK
    /\ \A g, r \in Nat : g # curGen => (Heard(g, r) <=> Noted(g, r))
    /\ sent # NoSentence => Heard(sent.gen, sent.req)

HistInv == RequestsOK /\ ReplyOK /\ PastOK

\* A queue whose audio is in order stays so when events are left out.
LEMMA SoundsShorter ==
    ASSUME NEW S, NEW a \in Seq(S), NEW b \in Seq(S), Shorter(a, b), NEW g, Sounds(g, b)
    PROVE  Sounds(g, a)
<1>1. PICK f \in [1 .. Len(a) -> 1 .. Len(b)] :
        /\ \A i \in 1 .. Len(a) : a[i] = b[f[i]]
        /\ \A i, j \in 1 .. Len(a) : i < j => f[i] < f[j]
  BY DEF Shorter
<1>2. SUFFICES ASSUME NEW i \in 1 .. Len(a), NEW j \in 1 .. Len(a), i < j
               PROVE  SoundPair(g, a[i], a[j])
  BY DEF Sounds
<1>3. f[i] \in 1 .. Len(b) /\ f[j] \in 1 .. Len(b) /\ f[i] < f[j]
  BY <1>1, <1>2
<1>4. SoundPair(g, b[f[i]], b[f[j]])
  BY <1>3 DEF Sounds
<1>. QED
  BY <1>1, <1>4

\* An event that may stand behind all others can be appended.
LEMMA SoundsAppend ==
    ASSUME NEW S, NEW q \in Seq(S), NEW e \in S, NEW g, Sounds(g, q), \A a \in Range(q) : SoundPair(g, a, e)
    PROVE  Sounds(g, Append(q, e))
<1>1. /\ Len(Append(q, e)) = Len(q) + 1 /\ Append(q, e)[Len(q) + 1] = e
      /\ \A i \in 1 .. Len(q) : Append(q, e)[i] = q[i]
  BY AppendProperties
<1>2. Len(q) \in Nat /\ DOMAIN q = 1 .. Len(q)
  BY LenProperties
<1>3. SUFFICES ASSUME NEW i \in 1 .. Len(q) + 1, NEW j \in 1 .. Len(q) + 1, i < j
               PROVE  SoundPair(g, Append(q, e)[i], Append(q, e)[j])
  BY <1>1 DEF Sounds
<1>4. CASE j \in 1 .. Len(q)
  BY <1>1, <1>2, <1>3, <1>4 DEF Sounds
<1>5. CASE j = Len(q) + 1
  <2>1. i \in 1 .. Len(q) /\ q[i] \in Range(q)
    BY <1>2, <1>3, <1>5 DEF Range
  <2>. QED
    BY <1>1, <1>5, <2>1
<1>. QED
  BY <1>2, <1>4, <1>5

\* The first event may stand before all others.
LEMMA SoundsHead ==
    ASSUME NEW S, NEW q \in Seq(S), q # <<>>, NEW g, Sounds(g, q)
    PROVE  \A e \in Range(Tail(q)) : SoundPair(g, Head(q), e)
<1>1. /\ Len(q) \in Nat \ {0} /\ Tail(q) \in Seq(S) /\ Len(Tail(q)) = Len(q) - 1 /\ Head(q) = q[1]
      /\ \A i \in 1 .. Len(Tail(q)) : Tail(q)[i] = q[i + 1]
  BY EmptySeq, HeadTailProperties
<1>2. DOMAIN Tail(q) = 1 .. Len(q) - 1
  BY <1>1, LenProperties
<1>3. ASSUME NEW i \in 1 .. Len(q) - 1
      PROVE  SoundPair(g, Head(q), Tail(q)[i])
  <2>1. 1 \in 1 .. Len(q) /\ i + 1 \in 1 .. Len(q) /\ 1 < i + 1
    BY <1>1
  <2>2. SoundPair(g, q[1], q[i + 1])
    BY <2>1 DEF Sounds
  <2>. QED
    BY <1>1, <2>2
<1>. QED
  BY <1>2, <1>3 DEF Range

\* The first sentence of a queue in order comes before the others.
LEMMA IncreasingTail ==
    ASSUME NEW q \in Seq(SentenceSet), q # <<>>, Increasing(q)
    PROVE  /\ Tail(q) \in Seq(SentenceSet) /\ Increasing(Tail(q)) /\ Head(q) \in SentenceSet
           /\ Range(q) = {Head(q)} \cup Range(Tail(q))
           /\ \A f \in Range(Tail(q)) : Head(q).req < f.req
           /\ Len(Tail(q)) = Len(q) - 1 /\ \A i \in 1 .. Len(Tail(q)) : i + 1 \in 1 .. Len(q) /\ Tail(q)[i] = q[i + 1]
<1>1. /\ Len(q) \in Nat \ {0} /\ Tail(q) \in Seq(SentenceSet) /\ Len(Tail(q)) = Len(q) - 1 /\ Head(q) = q[1]
      /\ \A i \in 1 .. Len(Tail(q)) : Tail(q)[i] = q[i + 1]
  BY EmptySeq, HeadTailProperties
<1>2. DOMAIN q = 1 .. Len(q) /\ DOMAIN Tail(q) = 1 .. Len(q) - 1
  BY <1>1, LenProperties
<1>3. \A i \in 1 .. Len(q) - 1 : i + 1 \in 1 .. Len(q) /\ Tail(q)[i] = q[i + 1]
  BY <1>1
<1>4. Increasing(Tail(q))
  <2>. SUFFICES ASSUME NEW i \in 1 .. Len(q) - 1, NEW j \in 1 .. Len(q) - 1, i < j
                PROVE  Tail(q)[i].req < Tail(q)[j].req
    BY <1>1 DEF Increasing
  <2>1. i + 1 < j + 1
    BY <1>1
  <2>2. q[i + 1].req < q[j + 1].req
    BY <1>3, <2>1 DEF Increasing
  <2>. QED
    BY <1>3, <2>2
<1>5. ASSUME NEW i \in 1 .. Len(q) - 1
      PROVE  Head(q).req < Tail(q)[i].req
  <2>1. 1 \in 1 .. Len(q) /\ 1 < i + 1
    BY <1>1
  <2>. QED
    BY <1>1, <1>3, <2>1 DEF Increasing
<1>6. Head(q) \in SentenceSet
  BY <1>1, ElementOfSeq
<1>7. ASSUME NEW i \in 1 .. Len(q)
      PROVE  q[i] = Head(q) \/ q[i] \in Range(Tail(q))
  <2>1. i = 1 \/ (i - 1 \in 1 .. Len(q) - 1 /\ i = (i - 1) + 1)
    BY <1>1
  <2>. QED
    BY <1>1, <1>2, <2>1 DEF Range
<1>8. Head(q) \in Range(q) /\ Range(Tail(q)) \subseteq Range(q)
  BY <1>1, <1>2, <1>3 DEF Range
<1>9. Range(q) \subseteq {Head(q)} \cup Range(Tail(q))
  BY <1>2, <1>7 DEF Range
<1>. QED
  BY <1>1, <1>2, <1>3, <1>4, <1>5, <1>6, <1>8, <1>9 DEF Range

\* A sentence that comes after all others can be appended.
LEMMA IncreasingAppend ==
    ASSUME NEW q \in Seq(SentenceSet), Increasing(q), NEW s \in SentenceSet, \A f \in Range(q) : f.req < s.req
    PROVE  Increasing(Append(q, s))
<1>1. /\ Len(Append(q, s)) = Len(q) + 1 /\ Append(q, s)[Len(q) + 1] = s
      /\ \A i \in 1 .. Len(q) : Append(q, s)[i] = q[i]
  BY AppendProperties
<1>2. Len(q) \in Nat /\ DOMAIN q = 1 .. Len(q)
  BY LenProperties
<1>3. SUFFICES ASSUME NEW i \in 1 .. Len(q) + 1, NEW j \in 1 .. Len(q) + 1, i < j
               PROVE  Append(q, s)[i].req < Append(q, s)[j].req
  BY <1>1 DEF Increasing
<1>4. i \in 1 .. Len(q) /\ (j \in 1 .. Len(q) \/ j = Len(q) + 1)
  BY <1>2, <1>3
<1>5. CASE j \in 1 .. Len(q)
  BY <1>1, <1>3, <1>4, <1>5 DEF Increasing
<1>6. CASE j = Len(q) + 1
  BY <1>1, <1>2, <1>4, <1>6 DEF Range
<1>. QED
  BY <1>4, <1>5, <1>6

\* A client is numbered when it is new, when its oldest request has been answered,
\* and when it has one request more.
LEMMA ClientsNumbered ==
    /\ Numbered(NoConn) /\ Numbered(NewClient)
    /\ \A g \in Nat : Numbered(Ended(Speak(NewClient, g), g))
    /\ \A x \in Client : Numbered(x) /\ x.pending # <<>> =>
         /\ Numbered([x EXCEPT !.pending = Tail(@)])
         /\ 0 < Head(x.pending).req /\ Head(x.pending).req <= x.next
         /\ \A f \in Range(Tail(x.pending)) : Head(x.pending).req < f.req
    /\ \A x \in Client, g \in Nat : Numbered(x) => Numbered(Speak(x, g))
<1>1. Numbered(NoConn) /\ Numbered(NewClient)
  BY DEF Numbered, Increasing, NoConn, NewClient
<1>2. ASSUME NEW x \in Client, NEW g \in Nat, Numbered(x)
      PROVE  Numbered(Speak(x, g))
  <2>1. CASE ~(x.open /\ x.up)
    BY <1>2, <2>1 DEF Speak
  <2>2. CASE x.open /\ x.up
    <3>. DEFINE p == Sentence(g, x.next + 1)
                y == Speak(x, g)
    <3>1. p \in SentenceSet /\ p.req = x.next + 1 /\ x.next \in Nat /\ x.pending \in Seq(SentenceSet)
      BY DEF Sentence, SentenceSet, Client
    <3>2. y = [x EXCEPT !.next = @ + 1, !.pending = Append(@, p)]
      BY <2>2 DEF Speak
    <3>3. y.next = x.next + 1 /\ y.pending = Append(x.pending, p)
      BY <3>2 DEF Client
    <3>. HIDE DEF p, y
    <3>4. /\ Len(Append(x.pending, p)) = Len(x.pending) + 1 /\ Append(x.pending, p)[Len(x.pending) + 1] = p
          /\ \A i \in 1 .. Len(x.pending) : Append(x.pending, p)[i] = x.pending[i]
      BY <3>1, AppendProperties
    <3>5. Len(x.pending) \in Nat /\ DOMAIN x.pending = 1 .. Len(x.pending)
          /\ \A i \in 1 .. Len(x.pending) : x.pending[i] \in SentenceSet
      BY <3>1, LenProperties, ElementOfSeq
    <3>6. \A i \in 1 .. Len(x.pending) : 0 < x.pending[i].req /\ x.pending[i].req <= x.next /\ x.pending[i].req \in Nat
      BY <1>2, <3>5 DEF Numbered, SentenceSet
    <3>7. Increasing(y.pending)
      <4>1. \A f \in Range(x.pending) : f.req < p.req
        BY <3>1, <3>5, <3>6 DEF Range
      <4>. QED
        BY <1>2, <3>1, <3>3, <4>1, IncreasingAppend DEF Numbered
    <3>8. ASSUME NEW i \in 1 .. Len(y.pending)
          PROVE  0 < y.pending[i].req /\ y.pending[i].req <= y.next
      <4>1. i \in 1 .. Len(x.pending) \/ i = Len(x.pending) + 1
        BY <3>3, <3>4, <3>5
      <4>. QED
        BY <3>1, <3>3, <3>4, <3>6, <4>1
    <3>. QED
      BY <3>7, <3>8 DEF Numbered, y
  <2>. QED
    BY <2>1, <2>2
<1>3. ASSUME NEW g \in Nat
      PROVE  Numbered(Ended(Speak(NewClient, g), g))
  <2>. PICK x \in Client : x = NewClient
    BY ClientsTyped
  <2>1. Numbered(Speak(x, g))
    BY <1>1, <1>2
  <2>2. Speak(x, g) \in Client
    BY ClientsTyped
  <2>3. \A y \in Client : Ended(y, g).pending = y.pending /\ Ended(y, g).next = y.next
    BY DEF Ended, Client
  <2>. QED
    BY <2>1, <2>2, <2>3 DEF Numbered
<1>4. ASSUME NEW x \in Client, Numbered(x), x.pending # <<>>
      PROVE  /\ Numbered([x EXCEPT !.pending = Tail(@)])
             /\ 0 < Head(x.pending).req /\ Head(x.pending).req <= x.next
             /\ \A f \in Range(Tail(x.pending)) : Head(x.pending).req < f.req
  <2>. PICK s \in Seq(SentenceSet) : s = x.pending
    BY DEF Client
  <2>. DEFINE y == [x EXCEPT !.pending = Tail(@)]
  <2>1. y.pending = Tail(s) /\ y.next = x.next
    BY DEF Client
  <2>2. Increasing(s) /\ \A i \in 1 .. Len(s) : 0 < s[i].req /\ s[i].req <= x.next
    BY <1>4 DEF Numbered
  <2>3. s # <<>>
    BY <1>4
  <2>4. /\ Increasing(Tail(s)) /\ \A f \in Range(Tail(s)) : Head(s).req < f.req
        /\ \A i \in 1 .. Len(Tail(s)) : i + 1 \in 1 .. Len(s) /\ Tail(s)[i] = s[i + 1]
    BY <2>2, <2>3, IncreasingTail
  <2>5. Head(s) = s[1] /\ 1 \in 1 .. Len(s)
    BY <2>3, EmptySeq, LenProperties, HeadTailProperties
  <2>. HIDE DEF y
  <2>6. Numbered(y)
    BY <2>1, <2>2, <2>4 DEF Numbered
  <2>. QED
    BY <2>2, <2>4, <2>5, <2>6 DEF y
<1>. QED
  BY <1>1, <1>2, <1>3, <1>4

\* What most steps do to the current reply: nothing; at most they find that
\* nothing more comes of it.
LeavesReply ==
    /\ UNCHANGED <<curGen, turnChunks, outbound, playing, heard, recorded, voiced, sent, cut>>
    /\ state' = state \/ (state' = "Transcribing" /\ run' # "over")
    /\ run' = "over" <=> run = "over"
    /\ Delivered' => Delivered \/ NoMoreAudio
    /\ "playbackDone" \in sigs' => "playbackDone" \in sigs \/ outbound = <<>>

NoNewAudio ==
    /\ Sounds(curGen, events')
    /\ \A e \in Range(events') : e.type = "audio" => e \in Range(events)

SameRequests(c) ==
    \/ conn'[c].pending = conn[c].pending /\ conn'[c].next = conn[c].next /\ (conn'[c].up => conn[c].up)
    \/ conn'[c] = NoConn
NoNewRequest ==
    /\ \A c \in Conns : SameRequests(c)
    /\ \A g \in Gens : Running(g)' => /\ Running(g) /\ turn'[g].conn = turn[g].conn
                                      /\ turn[g].cancelled => turn'[g].cancelled

\* A reply that is left alone stays as it is.
LEMMA ReplyStays ==
    ASSUME ReplyOK, LeavesReply, NoMoreAudio => NoMoreAudio'
    PROVE  ReplyOK'
<1>1. UNCHANGED <<curGen, turnChunks, outbound, playing, heard, recorded, voiced>>
  BY DEF LeavesReply
<1>2. InProgress => InProgress'
  BY <1>1 DEF InProgress, Heard, Noted
<1>3. Settled => Settled'
  BY <1>1 DEF Settled, Heard, Noted
<1>4. (Delivered' => NoMoreAudio') /\ ("playbackDone" \in sigs' => outbound' = <<>>)
  BY <1>1 DEF LeavesReply, ReplyOK
<1>5. (state' = "Listening" => state = "Listening") /\ (state' = "Thinking" => state = "Thinking")
      /\ (run' = "over" => state' = "Listening")
  BY DEF LeavesReply, ReplyOK
<1>. QED
  BY <1>1, <1>2, <1>3, <1>4, <1>5 DEF ReplyOK

\* So does what is said of the others.
LEMMA PastStays ==
    ASSUME PastOK, LeavesReply
    PROVE  PastOK'
BY DEF PastOK, LeavesReply, CutOK, Heard, Noted

\* Without new audio and new requests nothing more comes of a reply than before.
LEMMA RequestsStay ==
    ASSUME Typed, RequestsOK, UNCHANGED curGen, turnChunks' \subseteq turnChunks, NoNewAudio, NoNewRequest
    PROVE  RequestsOK' /\ (NoMoreAudio => NoMoreAudio')
<1>. DEFINE p(c) == conn[c].pending
<1>1. \A e \in Range(events') : e.type = "audio" => e \in Range(events)
  BY DEF NoNewAudio
<1>2. \A r : Came(r)' => Came(r)
  BY <1>1 DEF Came, IsAudio
<1>3. ASSUME NEW c \in Conns
      PROVE  \/ conn'[c].pending = conn[c].pending /\ conn'[c].next = conn[c].next /\ (conn'[c].up => conn[c].up)
             \/ conn'[c] = NoConn
  BY DEF NoNewRequest, SameRequests
<1>4. Numbered(NoConn) /\ Len(NoConn.pending) = 0 /\ ~NoConn.up
  BY ClientsNumbered DEF NoConn
<1>5. ASSUME NEW c \in Conns
      PROVE  /\ Numbered(conn'[c])
             /\ \A i \in 1 .. Len(conn'[c].pending) :
                  conn'[c].pending[i].gen = curGen => \A r \in Nat : Came(r)' => r < conn'[c].pending[i].req
             /\ \A g \in Gens : Live(g)' /\ turn'[g].conn = c /\ conn'[c].up =>
                  \A r \in Nat : Came(r)' => r <= conn'[c].next
  <2>1. CASE conn'[c] = NoConn
    BY <1>4, <2>1
  <2>2. CASE conn'[c].pending = conn[c].pending /\ conn'[c].next = conn[c].next /\ (conn'[c].up => conn[c].up)
    <3>1. Numbered(conn'[c])
      BY <2>2 DEF RequestsOK, Numbered
    <3>2. \A i \in 1 .. Len(conn'[c].pending) :
             conn'[c].pending[i].gen = curGen => \A r \in Nat : Came(r)' => r < conn'[c].pending[i].req
      BY <1>2, <2>2 DEF RequestsOK
    <3>3. ASSUME NEW g \in Gens, Live(g)', turn'[g].conn = c, conn'[c].up, NEW r \in Nat, Came(r)'
          PROVE  r <= conn'[c].next
      <4>1. Live(g) /\ turn[g].conn = c
        BY <3>3 DEF NoNewRequest, Live
      <4>. QED
        BY <1>2, <2>2, <3>3, <4>1 DEF RequestsOK
    <3>. QED
      BY <3>1, <3>2, <3>3
  <2>. QED
    BY <1>3, <2>1, <2>2
<1>6. RequestsOK'
  <2>1. Sounds(curGen, events)'
    BY DEF NoNewAudio
  <2>2. /\ \A e \in Range(events') : e.type = "audio" => e.gen <= curGen'
        /\ \A e \in Range(events') : IsAudio(e, curGen') => 0 < e.req /\ \A r \in turnChunks' : r < e.req
    BY <1>1 DEF RequestsOK, IsAudio
  <2>. QED
    BY <1>5, <2>1, <2>2 DEF RequestsOK
<1>7. NoMoreAudio => NoMoreAudio'
  <2>1. Pending(curGen)' => Pending(curGen)
    BY <1>3, <1>4 DEF Pending, HasPending
  <2>2. curGen \in Gens /\ Running(curGen)' => Running(curGen)
    BY DEF NoNewRequest
  <2>. QED
    BY <1>1, <2>1, <2>2 DEF NoMoreAudio, IsAudio
<1>. QED
  BY <1>6, <1>7

\* A step that leaves the reply alone and brings nothing keeps the invariant.
LEMMA HistStays ==
    ASSUME Typed, HistInv, LeavesReply, NoNewAudio, NoNewRequest
    PROVE  HistInv'
<1>1. UNCHANGED curGen /\ turnChunks' \subseteq turnChunks
  BY DEF LeavesReply
<1>. QED
  BY <1>1, RequestsStay, ReplyStays, PastStays DEF HistInv

\* What is left of the queue has no audio that was not there.
LEMMA QuietQueue ==
    ASSUME Typed, RequestsOK,
           \/ events' = events \/ \E type : events' = Without(events, type)
           \/ events # <<>> /\ (events' = q1 \/ \E type : events' = Without(q1, type))
    PROVE  NoNewAudio
<1>1. events \in Seq(Event) /\ Sounds(curGen, events)
  BY DEF Typed, RequestsOK
<1>2. ASSUME NEW q \in Seq(Event), Shorter(q, events)
      PROVE  Sounds(curGen, q) /\ Range(q) \subseteq Range(events)
  BY <1>1, <1>2, SoundsShorter, ShorterRange
<1>3. ASSUME events # <<>>
      PROVE  q1 \in Seq(Event) /\ Shorter(q1, events)
  BY <1>1, <1>3, TailShorter DEF q1
<1>4. ASSUME NEW type
      PROVE  /\ Without(events, type) \in Seq(Event) /\ Shorter(Without(events, type), events)
             /\ events # <<>> => Without(q1, type) \in Seq(Event) /\ Shorter(Without(q1, type), events)
  <2>1. Without(events, type) \in Seq(Event) /\ Shorter(Without(events, type), events)
    BY <1>1, WithoutShorter
  <2>2. ASSUME events # <<>>
        PROVE  Without(q1, type) \in Seq(Event) /\ Shorter(Without(q1, type), events)
    <3>1. q1 \in Seq(Event) /\ Shorter(q1, events)
      BY <1>3, <2>2
    <3>2. Without(q1, type) \in Seq(Event) /\ Shorter(Without(q1, type), q1)
      BY <3>1, WithoutShorter
    <3>. QED
      BY <3>1, <3>2, ShorterTrans
  <2>. QED
    BY <2>1, <2>2
<1>5. events' \in Seq(Event) /\ Shorter(events', events)
  BY <1>1, <1>3, <1>4, ShorterSame
<1>. QED
  BY <1>2, <1>5 DEF NoNewAudio

\* An event that is no audio brings none.
LEMMA QuietAppend ==
    ASSUME Typed, RequestsOK, NEW e \in Event, e.type # "audio", events' = Append(events, e)
    PROVE  NoNewAudio
<1>1. events \in Seq(Event) /\ Sounds(curGen, events)
  BY DEF Typed, RequestsOK
<1>2. \A a : SoundPair(curGen, a, e)
  BY DEF SoundPair, IsAudio
<1>3. Sounds(curGen, events') /\ Range(events') = Range(events) \cup {e}
  BY <1>1, <1>2, SoundsAppend, AppendRange
<1>. QED
  BY <1>3 DEF NoNewAudio

\* The handlers that neither begin nor end a reply and bring no audio.
LEMMA HandlesHist ==
    ASSUME Undisturbed, Typed, TurnInv, HistInv, Handles, ~HandleTTSAudio
    PROVE  HistInv'
<1>. USE DEF pauseVars, frameVars, endVars, idleVars, ttsVars, llmVars, envVars, ghostVars, runVars,
             TranscriptUnchanged, ResumeUnchanged, Next1, Transcribed
<1>0. Untroubled
  BY DEF Undisturbed
<1>1. UNCHANGED <<turn, conn>> /\ sigs' \subseteq sigs
  BY <1>0, HandlesTurns DEF LeavesTurns
<1>2. NoNewRequest
  BY <1>1 DEF NoNewRequest, SameRequests, Running
<1>3. NoNewAudio
  <2>. SUFFICES \/ events' = events \/ \E type : events' = Without(events, type)
                \/ events # <<>> /\ (events' = q1 \/ \E type : events' = Without(q1, type))
    BY QuietQueue DEF HistInv
  <2>1. CASE HandleCallerSpeech \/ HandleEndCall
    BY <2>1 DEF HandleCallerSpeech, HandleEndCall, EndCall, StopIdleTimer, StartIdleTimer
  <2>2. CASE IgnoreTranscript \/ HoldTranscript \/ Interrupted \/ DeliveryDone \/ ConnectionLost \/ HandleLLMDone
             \/ KeepWaiting
    BY <2>2 DEF IgnoreTranscript, HoldTranscript, Interrupted, DeliveryDone, ConnectionLost, HandleLLMDone, KeepWaiting
  <2>3. CASE TranscriptWhileClosing \/ Acknowledged \/ FalseInterruption
    BY <2>3 DEF TranscriptWhileClosing, Acknowledged, FalseInterruption, ResumeReply
  <2>4. CASE ConfirmInterruption \/ Unpause \/ HandleBargeIn
    BY <2>4 DEF ConfirmInterruption, Unpause, HandleBargeIn
  <2>. QED
    BY <2>1, <2>2, <2>3, <2>4 DEF Handles
<1>4. /\ UNCHANGED <<curGen, turnChunks, outbound, playing, heard, recorded, voiced, sent, cut>>
      /\ state' = state \/ (state' = "Transcribing" /\ run' # "over")
      /\ run # "over" /\ run' # "over"
      /\ ttsDeliveryDone' => ttsDeliveryDone \/ DeliveryDone
  <2>1. CASE HandleCallerSpeech \/ HandleLLMDone \/ HandleEndCall
    BY <2>1 DEF HandleCallerSpeech, HandleLLMDone, HandleEndCall
  <2>2. CASE ConnectionLost
    BY <1>0, <2>2, NoTroubleSteps DEF ConnectionLost
  <2>3. CASE DeliveryDone
    BY <2>3 DEF DeliveryDone
  <2>4. CASE IgnoreTranscript \/ HoldTranscript \/ TranscriptWhileClosing \/ Acknowledged
    BY <2>4 DEF IgnoreTranscript, HoldTranscript, TranscriptWhileClosing, Acknowledged
  <2>5. CASE Interrupted \/ ConfirmInterruption \/ Unpause
    BY <2>5 DEF Interrupted, ConfirmInterruption, Unpause
  <2>6. CASE KeepWaiting \/ FalseInterruption \/ HandleBargeIn
    BY <2>6 DEF KeepWaiting, FalseInterruption, HandleBargeIn
  <2>. QED
    BY <2>1, <2>2, <2>3, <2>4, <2>5, <2>6 DEF Handles
<1>5. DeliveryDone /\ ttsDeliveryDone' => ttsDeliveryDone \/ NoMoreAudio
  <2>. SUFFICES ASSUME DeliveryDone, ttsDeliveryDone', ~ttsDeliveryDone
                PROVE  NoMoreAudio
    OBVIOUS
  <2>1. events # <<>> /\ Head(events).type = "done" /\ Head(events).gen = curGen
    BY DEF DeliveryDone
  <2>2. Head(events) \in Range(events) /\ Range(events) = {Head(events)} \cup Range(q1)
    BY <2>1, QueueLeft
  <2>3. ~Pending(curGen) /\ (curGen \in Gens => ~Running(curGen))
    BY <2>1, <2>2 DEF TurnInv, QueueOK
  <2>4. \A e \in Range(q1) : SoundPair(curGen, Head(events), e)
    <3>1. events \in Seq(Event) /\ Sounds(curGen, events)
      BY DEF Typed, HistInv, RequestsOK
    <3>. QED
      BY <2>1, <3>1, SoundsHead DEF q1
  <2>. QED
    BY <2>1, <2>2, <2>3, <2>4 DEF NoMoreAudio, SoundPair, IsAudio
<1>6. LeavesReply
  BY <1>1, <1>4, <1>5 DEF LeavesReply, Delivered
<1>. QED
  BY <1>2, <1>3, <1>6, HistStays

\* The caller and the timers.
LEMMA CallerHist ==
    ASSUME Typed, HistInv, Caller
    PROVE  HistInv'
<1>1. LeavesReply
  BY OutsideRun DEF LeavesReply, Delivered
<1>2. UNCHANGED <<conn, turn>>
  BY DEF Caller, CallerStarts, CallerStops, CallerSaid, CallerMadeNoise, SilenceOver, IdleFires, ResumeFires,
         MaxDurationFires, CallerOnly, ttsVars, llmVars
<1>3. NoNewRequest
  BY <1>2 DEF NoNewRequest, SameRequests, Running
<1>4. UNCHANGED events \/ \E e \in Event : e.type # "audio" /\ events' = Append(events, e)
  <2>1. CASE CallerStarts \/ CallerStops
    BY <2>1, EventsAre DEF CallerStarts, CallerStops, Speech
  <2>2. CASE \E k \in Kinds : CallerSaid(k)
    BY <2>2, EventsAre DEF CallerSaid, Transcript
  <2>3. CASE ResumeFires \/ MaxDurationFires \/ IdleFires
    BY <2>3, EventsAre DEF ResumeFires, MaxDurationFires, IdleFires, Plain, PlainEvents
  <2>4. CASE CallerMadeNoise \/ SilenceOver
    BY <2>4 DEF CallerMadeNoise, SilenceOver
  <2>. QED
    BY <2>1, <2>2, <2>3, <2>4 DEF Caller
<1>5. NoNewAudio
  BY <1>4, QuietQueue, QuietAppend DEF HistInv
<1>. QED
  BY <1>1, <1>3, <1>5, HistStays

\* Forwarding Done where readTTS is not held up: it comes behind all audio.
LEMMA ForwardBehind ==
    ASSUME Undisturbed, NEW q, NEW c, NEW g, NEW r \in Forward(q, c, g)
    PROVE  r = q \/ r = Append(q, Done(g))
BY DEF Undisturbed, Forward, ForwardDone

\* An LLM's turn that says nothing.
LEMMA LLMHist ==
    ASSUME Undisturbed, Typed, TurnInv, HistInv, NEW g \in Gens, LLM(g), ~LLMSays(g)
    PROVE  HistInv'
<1>0. Untroubled /\ g \in Nat
  BY Numbers DEF Undisturbed
<1>1. TurnsGo /\ ~LLMFails(g)
  BY <1>0, LLMTurns, NoTroubleSteps
<1>2. LeavesReply
  BY OutsideRun DEF LeavesReply, Delivered
<1>3. UNCHANGED events \/ \E e \in Event : e.type # "audio" /\ events' = Append(events, e)
  <2>1. CASE LLMCancelled(g) \/ LLMCompletes(g) \/ (\E tool \in Tools : LLMCalls(g, tool)) \/ CallReturns(g)
    BY <2>1 DEF LLMCancelled, LLMCompletes, LLMCalls, CallReturns
  <2>2. CASE AfterCalls(g)
    BY <2>2, EventsAre DEF AfterCalls, Plain, PlainEvents
  <2>3. CASE LLMPosts(g)
    <3>1. turn[g].endCall \in BOOLEAN
      BY DEF Typed, Turn
    <3>2. PICK e \in Event : e = LLMDone(g, turn[g].endCall \/ turn[g].node = "end")
      BY <1>0, <3>1, EventsAre
    <3>3. e.type = "llmDone" /\ events' = Append(events, e)
      BY <2>3, <3>2 DEF LLMPosts, LLMDone
    <3>. QED
      BY <3>3
  <2>4. CASE LLMEndsGeneration(g)
    <3>1. events' = events \/ events' = Append(events, Done(g))
      BY <2>4, ForwardBehind DEF LLMEndsGeneration
    <3>2. PICK e \in Event : e = Done(g) /\ e.type = "done"
      BY <1>0, EventsAre DEF Done
    <3>. QED
      BY <3>1, <3>2
  <2>. QED
    BY <1>1, <2>1, <2>2, <2>3, <2>4 DEF LLM
<1>4. NoNewAudio
  BY <1>3, QuietQueue, QuietAppend DEF HistInv
<1>5. \A c \in Conns : SameRequests(c)
  <2>1. CASE UNCHANGED conn
    BY <2>1 DEF SameRequests
  <2>2. CASE LLMEndsGeneration(g)
    <3>. DEFINE k == turn[g].conn
    <3>1. conn \in [Conns -> Client] /\ conn' = [conn EXCEPT ![k] = Ended(conn[k], g)]
      BY <2>2 DEF LLMEndsGeneration, Typed
    <3>2. \A c \in Conns : conn'[c] = conn[c] \/ conn'[c] = Ended(conn[c], g)
      BY <3>1
    <3>3. \A x \in Client : Ended(x, g).pending = x.pending /\ Ended(x, g).next = x.next /\ Ended(x, g).up = x.up
      BY DEF Ended, Client
    <3>. QED
      BY <3>1, <3>2, <3>3 DEF SameRequests
  <2>3. LLMEndsGeneration(g) \/ UNCHANGED conn
    BY <1>1 DEF LLM, LLMCancelled, LLMCompletes, LLMCalls, CallReturns, AfterCalls, LLMPosts
  <2>. QED
    BY <2>1, <2>2, <2>3
<1>6. NoNewRequest
  BY <1>1, <1>5 DEF NoNewRequest, TurnsGo
<1>. QED
  BY <1>2, <1>4, <1>6, HistStays

\* A client that is spoken to has one request more, its next.
LEMMA SpeakShape ==
    ASSUME NEW x \in Client, NEW g \in Nat
    PROVE  /\ Speak(x, g).up = x.up /\ x.next <= Speak(x, g).next
           /\ \A i \in 1 .. Len(Speak(x, g).pending) :
                \/ i \in 1 .. Len(x.pending) /\ Speak(x, g).pending[i] = x.pending[i]
                \/ x.up /\ Speak(x, g).pending[i].req = x.next + 1
<1>0. x.next \in Nat /\ x.pending \in Seq(SentenceSet)
  BY DEF Client
<1>1. CASE ~(x.open /\ x.up)
  BY <1>0, <1>1 DEF Speak
<1>2. CASE x.open /\ x.up
  <2>. DEFINE p == Sentence(g, x.next + 1)
              y == Speak(x, g)
  <2>1. p \in SentenceSet /\ p.req = x.next + 1
    BY <1>0 DEF Sentence, SentenceSet
  <2>2. y = [x EXCEPT !.next = @ + 1, !.pending = Append(@, p)]
    BY <1>2 DEF Speak
  <2>3. y.next = x.next + 1 /\ y.pending = Append(x.pending, p) /\ y.up = x.up
    BY <2>2 DEF Client
  <2>. HIDE DEF p, y
  <2>4. /\ Len(Append(x.pending, p)) = Len(x.pending) + 1 /\ Append(x.pending, p)[Len(x.pending) + 1] = p
        /\ \A i \in 1 .. Len(x.pending) : Append(x.pending, p)[i] = x.pending[i]
    BY <1>0, <2>1, AppendProperties
  <2>5. Len(x.pending) \in Nat
    BY <1>0, LenProperties
  <2>6. ASSUME NEW i \in 1 .. Len(y.pending)
        PROVE  \/ i \in 1 .. Len(x.pending) /\ y.pending[i] = x.pending[i]
               \/ x.up /\ y.pending[i].req = x.next + 1
    <3>1. i \in 1 .. Len(x.pending) \/ i = Len(x.pending) + 1
      BY <2>3, <2>4, <2>5
    <3>. QED
      BY <1>2, <2>1, <2>3, <2>4, <3>1
  <2>. QED
    BY <1>0, <2>3, <2>6 DEF y
<1>. QED
  BY <1>1, <1>2

\* A turn that goes on is live only if it was, at the same client.
LEMMA LiveGoes ==
    ASSUME TurnsGo, NEW g \in Gens, Live(g)'
    PROVE  Live(g) /\ turn'[g].conn = turn[g].conn
BY DEF TurnsGo, Live

\* The model's next sentence: a request of the current reply, after all that came.
LEMMA SaysHist ==
    ASSUME Undisturbed, Typed, TurnInv, HistInv, NEW g \in Gens, LLMSays(g)
    PROVE  HistInv'
<1>. DEFINE k == turn[g].conn
<1>0. /\ Untroubled /\ g \in Nat /\ curGen \in Nat /\ conn \in [Conns -> Client] /\ LLM(g)
      /\ \A c \in Conns : conn[c].next \in Nat
  BY Numbers DEF Undisturbed, Typed, TypedNumbers, LLM, Client
<1>1. TurnsGo /\ Live(g)
  <2>1. TurnsGo /\ Running(g) /\ ~turn[g].cancelled
    BY <1>0, LLMTurns
  <2>. QED
    BY <2>1 DEF Live
<1>2. g = curGen
  BY <1>1 DEF TurnInv, TurnsOK
<1>3. LeavesReply
  BY <1>0, OutsideRun DEF LeavesReply, Delivered
<1>4. UNCHANGED events /\ conn' = [conn EXCEPT ![k] = Speak(@, g)]
  BY <1>1 DEF LLMSays, SendToTTS, Live
<1>5. \A c \in Conns : conn'[c] = IF c = k THEN Speak(conn[c], g) ELSE conn[c]
  BY <1>0, <1>4
<1>6. UNCHANGED <<curGen, turnChunks>>
  BY <1>3 DEF LeavesReply
<1>7. ~NoMoreAudio
  BY <1>1, <1>2 DEF NoMoreAudio, Live
<1>8. \A r : Came(r)' <=> Came(r)
  BY <1>4, <1>6 DEF Came, IsAudio
<1>. HIDE DEF k
<1>9. ASSUME NEW c \in Conns
      PROVE  /\ Numbered(conn'[c])
             /\ \A i \in 1 .. Len(conn'[c].pending) :
                  conn'[c].pending[i].gen = curGen => \A r \in Nat : Came(r)' => r < conn'[c].pending[i].req
             /\ \A h \in Gens : Live(h)' /\ turn'[h].conn = c /\ conn'[c].up =>
                  \A r \in Nat : Came(r)' => r <= conn'[c].next
  <2>. PICK x \in Client : x = conn[c]
    BY <1>0
  <2>1. /\ Numbered(x)
        /\ \A i \in 1 .. Len(x.pending) : x.pending[i].gen = curGen => \A r \in Nat : Came(r) => r < x.pending[i].req
        /\ \A h \in Gens : Live(h) /\ turn[h].conn = c /\ x.up => \A r \in Nat : Came(r) => r <= x.next
    BY DEF HistInv, RequestsOK
  <2>2. CASE c # k
    <3>1. conn'[c] = x
      BY <1>5, <2>2
    <3>. QED
      BY <1>1, <1>8, <2>1, <3>1, LiveGoes
  <2>3. CASE c = k
    <3>1. conn'[c] = Speak(x, g)
      BY <1>5, <2>3
    <3>2. /\ Speak(x, g).up = x.up /\ x.next <= Speak(x, g).next
          /\ \A i \in 1 .. Len(Speak(x, g).pending) :
                \/ i \in 1 .. Len(x.pending) /\ Speak(x, g).pending[i] = x.pending[i]
                \/ x.up /\ Speak(x, g).pending[i].req = x.next + 1
      BY <1>0, SpeakShape
    <3>3. x.next \in Nat /\ Speak(x, g).next \in Nat
      BY <1>0, ClientsTyped DEF Client
    <3>4. x.up => \A r \in Nat : Came(r) => r <= x.next
      BY <1>1, <2>1, <2>3 DEF k
    <3>5. Numbered(Speak(x, g))
      BY <1>0, <2>1, ClientsNumbered
    <3>6. ASSUME NEW i \in 1 .. Len(Speak(x, g).pending), Speak(x, g).pending[i].gen = curGen, NEW r \in Nat, Came(r)
          PROVE  r < Speak(x, g).pending[i].req
      BY <2>1, <3>2, <3>3, <3>4, <3>6
    <3>7. ASSUME NEW h \in Gens, Live(h)', turn'[h].conn = c, Speak(x, g).up, NEW r \in Nat, Came(r)
          PROVE  r <= Speak(x, g).next
      BY <3>2, <3>3, <3>4, <3>7
    <3>. QED
      BY <1>8, <3>1, <3>5, <3>6, <3>7
  <2>. QED
    BY <2>2, <2>3
<1>10. RequestsOK'
  BY <1>4, <1>6, <1>9 DEF HistInv, RequestsOK, Sounds, SoundPair, IsAudio
<1>. QED
  BY <1>3, <1>7, <1>10, ReplyStays, PastStays DEF HistInv

\* The provider: audio comes in the order of the requests and before Done.
LEMMA ProviderHist ==
    ASSUME Undisturbed, Typed, TurnInv, HistInv, NEW c \in Conns, Provider(c)
    PROVE  HistInv'
<1>0. /\ Untroubled /\ events \in Seq(Event) /\ conn \in [Conns -> Client] /\ conn[c] \in Client /\ curGen \in Nat
  BY DEF Undisturbed, Typed, TypedNumbers
<1>1. LeavesReply /\ UNCHANGED <<curGen, turnChunks>>
  BY OutsideRun DEF LeavesReply, Delivered
<1>2. UNCHANGED turn
  BY DEF Provider, Synthesize, ConnectionGone, llmVars
<1>3. CASE ConnectionGone(c)
  <2>1. conn' = [conn EXCEPT ![c] = NoConn] /\ events' = Append(events, Closed(c))
    BY <1>3 DEF ConnectionGone
  <2>2. NoNewRequest
    BY <1>0, <1>2, <2>1 DEF NoNewRequest, SameRequests, Running
  <2>3. PICK e \in Event : e = Closed(c) /\ e.type = "closed"
    BY EventsAre, Numbers DEF Closed
  <2>4. NoNewAudio
    BY <2>1, <2>3, QuietAppend DEF HistInv
  <2>. QED
    BY <1>1, <2>2, <2>4, HistStays
<1>4. CASE Synthesize(c, TRUE)
  <2>. PICK x \in Client : x = conn[c]
    BY <1>0
  <2>. DEFINE after == [x EXCEPT !.pending = Tail(@)]
              g == Head(x.pending).gen
              r == Head(x.pending).req
  <2>1. /\ x.pending # <<>> /\ conn' = [conn EXCEPT ![c] = after]
        /\ events' \in Forward(Append(events, Audio(g, r)), after, g)
    BY <1>4 DEF Synthesize
  <2>2. g \in Nat /\ r \in Nat /\ HasPending(x, g)
    BY <2>1, Answered DEF SentenceSet
  <2>3. /\ Numbered(after) /\ 0 < r /\ r <= x.next /\ \A f \in Range(Tail(x.pending)) : r < f.req
    <3>1. Numbered(x)
      BY DEF HistInv, RequestsOK
    <3>. QED
      BY <2>1, <3>1, ClientsNumbered
  <2>4. after.up = x.up /\ after.next = x.next /\ after.pending = Tail(x.pending)
    BY DEF Client
  <2>5. /\ Head(x.pending) = x.pending[1] /\ 1 \in 1 .. Len(x.pending) /\ Range(Tail(x.pending)) = {Tail(x.pending)[i] : i \in 1 .. Len(Tail(x.pending))}
        /\ \A i \in 1 .. Len(Tail(x.pending)) : i + 1 \in 1 .. Len(x.pending) /\ Tail(x.pending)[i] = x.pending[i + 1]
    <3>. PICK s \in Seq(SentenceSet) : s = x.pending
      BY DEF Client
    <3>1. /\ s # <<>> /\ Len(s) \in Nat \ {0} /\ Head(s) = s[1] /\ Len(Tail(s)) = Len(s) - 1
          /\ \A i \in 1 .. Len(Tail(s)) : Tail(s)[i] = s[i + 1]
      BY <2>1, EmptySeq, LenProperties, HeadTailProperties
    <3>2. Tail(s) \in Seq(SentenceSet)
      BY <3>1, HeadTailProperties
    <3>3. DOMAIN Tail(s) = 1 .. Len(Tail(s))
      BY <3>2, LenProperties
    <3>4. 1 \in 1 .. Len(s) /\ \A i \in 1 .. Len(Tail(s)) : i + 1 \in 1 .. Len(s)
      BY <3>1
    <3>. QED
      BY <3>1, <3>3, <3>4 DEF Range
  <2>6. \A q \in Conns : conn'[q] = IF q = c THEN after ELSE conn[q]
    BY <1>0, <2>1
  <2>. HIDE DEF after
  <2>7. g = curGen => \A n \in Nat : Came(n) => n < r
    BY <2>5 DEF HistInv, RequestsOK
  <2>8. /\ g <= curGen /\ (g \in Gens /\ Running(g) => turn[g].conn = c)
        /\ \A q \in Conns : HasPending(conn[q], g) => q = c
    BY <2>2 DEF TurnInv, ClientsOK
  <2>. HIDE DEF g, r
  <2>9. PICK e \in Event : e = Audio(g, r)
    BY <2>2, EventsAre
  <2>10. e.type = "audio" /\ e.gen = g /\ e.req = r
    BY <2>9 DEF Audio
  <2>11. ASSUME NEW a \in Range(events)
         PROVE  SoundPair(curGen, a, e)
    <3>. SUFFICES ASSUME g = curGen
                  PROVE  ~(a.type = "done" /\ a.gen = curGen) /\ (IsAudio(a, curGen) => a.req < e.req)
      BY <2>10 DEF SoundPair, IsAudio
    <3>1. ~(a.type = "done" /\ a.gen = curGen)
      BY <2>2 DEF TurnInv, QueueOK, Pending
    <3>2. IsAudio(a, curGen) => a.req \in Nat
      BY <1>0, RangeTyped, EventFields DEF IsAudio
    <3>3. IsAudio(a, curGen) => Came(a.req)
      BY DEF Came
    <3>. QED
      BY <2>7, <2>10, <3>1, <3>2, <3>3
  <2>. DEFINE q == Append(events, e)
  <2>12. q \in Seq(Event) /\ Range(q) = Range(events) \cup {e} /\ Sounds(curGen, q)
    <3>1. Sounds(curGen, events)
      BY DEF HistInv, RequestsOK
    <3>. QED
      BY <1>0, <2>11, <3>1, AppendRange, SoundsAppend
  <2>. HIDE DEF q
  <2>13. /\ Sounds(curGen, events')
         /\ \A a \in Range(events') : a.type = "audio" => a \in Range(events) \/ a = e
         /\ Range(events) \subseteq Range(events')
    <3>1. events' = q \/ events' = Append(q, Done(g))
      BY <2>1, <2>9, ForwardBehind DEF q
    <3>2. PICK d \in Event : d = Done(g) /\ d.type = "done"
      BY <2>2, EventsAre DEF Done
    <3>3. \A a : SoundPair(curGen, a, d)
      BY <3>2 DEF SoundPair, IsAudio
    <3>4. Sounds(curGen, Append(q, d)) /\ Range(Append(q, d)) = Range(q) \cup {d}
      BY <2>12, <3>3, SoundsAppend, AppendRange
    <3>. QED
      BY <2>12, <3>1, <3>2, <3>4
  <2>14. \A n : Came(n)' => Came(n) \/ (g = curGen /\ n = r)
    BY <1>1, <2>10, <2>13 DEF Came, IsAudio
  <2>15. ASSUME NEW d \in Conns
         PROVE  /\ Numbered(conn'[d])
                /\ \A i \in 1 .. Len(conn'[d].pending) :
                     conn'[d].pending[i].gen = curGen => \A n \in Nat : Came(n)' => n < conn'[d].pending[i].req
                /\ \A h \in Gens : Live(h)' /\ turn'[h].conn = d /\ conn'[d].up =>
                     \A n \in Nat : Came(n)' => n <= conn'[d].next
    <3>0. /\ Numbered(conn[d])
          /\ \A i \in 1 .. Len(conn[d].pending) :
                 conn[d].pending[i].gen = curGen => \A n \in Nat : Came(n) => n < conn[d].pending[i].req
          /\ \A h \in Gens : Live(h) /\ turn[h].conn = d /\ conn[d].up => \A n \in Nat : Came(n) => n <= conn[d].next
      BY DEF HistInv, RequestsOK
    <3>1. ASSUME NEW h \in Gens, Live(h)'
          PROVE  h = curGen /\ Live(h) /\ (g = curGen => turn[h].conn = c)
      BY <1>2, <2>8, <3>1 DEF TurnInv, TurnsOK, Live, Running
    <3>2. CASE d # c
      <4>1. conn'[d] = conn[d]
        BY <2>6, <3>2
      <4>2. ASSUME NEW i \in 1 .. Len(conn[d].pending), conn[d].pending[i].gen = curGen, NEW n \in Nat, Came(n)'
            PROVE  n < conn[d].pending[i].req
        <5>1. g # curGen
          BY <2>8, <3>2, <4>2 DEF HasPending
        <5>. QED
          BY <2>14, <3>0, <4>2, <5>1
      <4>3. ASSUME NEW h \in Gens, Live(h)', turn'[h].conn = d, conn[d].up, NEW n \in Nat, Came(n)'
            PROVE  n <= conn[d].next
        BY <1>2, <2>14, <3>0, <3>1, <3>2, <4>3
      <4>. QED
        BY <3>0, <4>1, <4>2, <4>3
    <3>3. CASE d = c
      <4>1. conn'[d] = after /\ conn[d] = x
        BY <2>6, <3>3
      <4>2. ASSUME NEW i \in 1 .. Len(after.pending), after.pending[i].gen = curGen, NEW n \in Nat, Came(n)'
            PROVE  n < after.pending[i].req
        <5>1. after.pending[i] \in Range(Tail(x.pending)) /\ i + 1 \in 1 .. Len(x.pending)
              /\ after.pending[i] = x.pending[i + 1]
          BY <2>4, <2>5, <4>2
        <5>2. Came(n) => n < after.pending[i].req
          BY <3>0, <3>3, <4>2, <5>1
        <5>3. r < after.pending[i].req
          BY <2>3, <5>1 DEF r
        <5>. QED
          BY <2>14, <4>2, <5>2, <5>3
      <4>3. ASSUME NEW h \in Gens, Live(h)', turn'[h].conn = d, after.up, NEW n \in Nat, Came(n)'
            PROVE  n <= after.next
        <5>1. Came(n) => n <= x.next
          BY <1>2, <2>4, <3>0, <3>1, <3>3, <4>3
        <5>. QED
          BY <2>3, <2>4, <2>14, <4>3, <5>1 DEF r
      <4>. QED
        BY <2>3, <4>1, <4>2, <4>3
    <3>. QED
      BY <3>2, <3>3
  <2>16. RequestsOK'
    <3>1. Sounds(curGen, events)'
      BY <1>1, <2>13
    <3>2. ASSUME NEW a \in Range(events'), a.type = "audio"
          PROVE  a.gen <= curGen /\ (IsAudio(a, curGen) => 0 < a.req /\ \A n \in turnChunks : n < a.req)
      <4>1. CASE a \in Range(events)
        BY <3>2, <4>1 DEF HistInv, RequestsOK
      <4>2. CASE a = e
        <5>1. \A n \in turnChunks : n \in Nat /\ Came(n)
          BY DEF Came, Typed, TypedNumbers
        <5>. QED
          BY <2>3, <2>7, <2>8, <2>10, <4>2, <5>1 DEF IsAudio, r
      <4>. QED
        BY <2>13, <3>2, <4>1, <4>2
    <3>. QED
      BY <1>1, <2>15, <3>1, <3>2 DEF RequestsOK, IsAudio
  <2>17. NoMoreAudio => NoMoreAudio'
    <3>. SUFFICES ASSUME NoMoreAudio
                  PROVE  NoMoreAudio'
      OBVIOUS
    <3>1. g # curGen
      BY <2>2 DEF NoMoreAudio, Pending
    <3>2. \A d \in Conns : ~HasPending(conn'[d], curGen)
      <4>1. ~HasPending(x, curGen)
        BY DEF NoMoreAudio, Pending
      <4>2. ~HasPending(after, curGen)
        BY <2>4, <2>5, <4>1 DEF HasPending
      <4>. QED
        BY <2>6, <4>2 DEF NoMoreAudio, Pending
    <3>3. \A a \in Range(events') : ~IsAudio(a, curGen)
      BY <2>10, <2>13, <3>1 DEF NoMoreAudio, IsAudio
    <3>. QED
      BY <1>1, <1>2, <3>2, <3>3 DEF NoMoreAudio, Pending, Running
  <2>. QED
    BY <1>1, <2>16, <2>17, ReplyStays, PastStays DEF HistInv
<1>. QED
  BY <1>0, <1>3, <1>4, NoTroubleSteps DEF Provider

\* A frame that is played is of the current reply, and the next of its sentences.
LEMMA PlayHist ==
    ASSUME Undisturbed, Typed, HistInv, PlayFrame
    PROVE  HistInv'
<1>. USE DEF TickOnly, ttsVars, llmVars, runVars, endVars, idleVars
<1>. DEFINE f == Head(outbound)
            h == [turn |-> curGen, gen |-> f.gen, req |-> f.req]
<1>1. /\ outbound # <<>> /\ outbound' = Tail(outbound) /\ heard' = heard \cup {h} /\ sent' = f /\ playing' = f.req
      /\ UNCHANGED <<curGen, turnChunks, recorded, voiced, cut, run, events, conn, turn, state, sigs, ttsDeliveryDone>>
  BY DEF PlayFrame
<1>2. InProgress /\ Increasing(outbound) /\ outbound \in Seq(SentenceSet)
  BY <1>1 DEF HistInv, ReplyOK, Settled, InProgress, Typed, TypedFrames
<1>3. /\ f \in SentenceSet /\ Range(outbound) = {f} \cup Range(outbound') /\ Increasing(outbound')
      /\ \A x \in Range(outbound') : f.req < x.req
  BY <1>1, <1>2, IncreasingTail
<1>4. f.gen = curGen /\ f.req \in turnChunks /\ playing < f.req /\ f.req \in Nat /\ playing \in Nat
  BY <1>2, <1>3 DEF InProgress, SentenceSet, Typed, TypedNumbers
<1>. HIDE DEF f
<1>5. h.gen = curGen /\ h.req = f.req
  BY <1>4
<1>. HIDE DEF h
<1>. DEFINE Then(g, r) == \E x \in heard' : x.gen = g /\ x.req = r
<1>6. /\ \A g, r : Then(g, r) <=> Heard(g, r) \/ (g = curGen /\ r = f.req)
      /\ \A r : Heard(curGen, r)' <=> Then(curGen, r)
      /\ \A g, r : Heard(g, r)' <=> Then(g, r)
      /\ Heard(sent.gen, sent.req)' <=> Then(f.gen, f.req)
  <2>1. \A g, r : Then(g, r) <=> Heard(g, r) \/ (g = curGen /\ r = f.req)
    BY <1>1, <1>5 DEF Heard
  <2>2. \A r : Heard(curGen, r)' <=> Then(curGen, r)
    BY <1>1 DEF Heard
  <2>3. Heard(sent.gen, sent.req)' <=> Then(f.gen, f.req)
    BY <1>1 DEF Heard
  <2>4. \A g, r : Heard(g, r)' <=> Then(g, r)
    BY DEF Heard
  <2>. QED
    BY <2>1, <2>2, <2>3, <2>4
<1>. HIDE DEF Then
<1>7. InProgress'
  <2>1. ASSUME NEW r \in Nat
        PROVE  /\ ~Noted(curGen, r)
               /\ Then(curGen, r) => r \in turnChunks /\ r <= f.req /\ f.req # 0
    BY <1>2, <1>4, <1>6 DEF InProgress
  <2>2. ASSUME NEW r \in turnChunks
        PROVE  Then(curGen, r) \/ \E x \in Range(outbound') : x.req = r
    BY <1>2, <1>3, <1>6 DEF InProgress
  <2>3. \A x \in Range(outbound') : x.gen = curGen /\ x.req \in turnChunks /\ f.req < x.req
    BY <1>2, <1>3 DEF InProgress
  <2>. QED
    BY <1>1, <1>3, <1>4, <1>6, <2>1, <2>2, <2>3 DEF InProgress, Noted
<1>8. NoNewAudio /\ NoNewRequest
  BY <1>1, QuietQueue DEF HistInv, NoNewRequest, SameRequests, Running
<1>9. RequestsOK' /\ (NoMoreAudio => NoMoreAudio')
  BY <1>1, <1>8, RequestsStay DEF HistInv
<1>10. ReplyOK'
  <2>1. ~Settled /\ "playbackDone" \notin sigs
    BY <1>1 DEF HistInv, ReplyOK, Settled
  <2>. QED
    BY <1>1, <1>7, <1>9, <2>1 DEF HistInv, ReplyOK, Delivered
<1>11. PastOK'
  <2>1. \A x \in heard' : x.gen <= curGen'
    <3>1. curGen <= curGen
      BY DEF Typed, TypedNumbers
    <3>. QED
      BY <1>1, <1>5, <3>1 DEF HistInv, PastOK
  <2>2. \A g, r \in Nat : g # curGen' => (Heard(g, r)' <=> Noted(g, r)')
    BY <1>1, <1>6 DEF HistInv, PastOK, Noted
  <2>3. Heard(sent.gen, sent.req)'
    BY <1>4, <1>6
  <2>. QED
    BY <1>1, <2>1, <2>2, <2>3 DEF HistInv, PastOK, CutOK
<1>. QED
  BY <1>9, <1>10, <1>11 DEF HistInv

\* A sentence that is replayed has been heard before.
LEMMA ReplayHist ==
    ASSUME Typed, HistInv, ReplaySentence
    PROVE  HistInv'
<1>. USE DEF TickOnly, ttsVars, llmVars, runVars, endVars, idleVars
<1>. DEFINE h == [turn |-> curGen, gen |-> sent.gen, req |-> sent.req]
<1>1. /\ heard' = heard \cup {h} /\ sent # NoSentence
      /\ UNCHANGED <<curGen, turnChunks, recorded, voiced, cut, run, events, conn, turn, state, sigs, ttsDeliveryDone,
                     outbound, playing, sent>>
  BY DEF ReplaySentence, Replays
<1>2. Heard(sent.gen, sent.req)
  BY <1>1 DEF HistInv, PastOK
<1>3. h.gen = sent.gen /\ h.req = sent.req
  OBVIOUS
<1>. HIDE DEF h
<1>4. \A g, r : Heard(g, r)' <=> Heard(g, r)
  BY <1>1, <1>2, <1>3 DEF Heard
<1>5. NoNewAudio /\ NoNewRequest
  BY <1>1, QuietQueue DEF HistInv, NoNewRequest, SameRequests, Running
<1>6. RequestsOK' /\ (NoMoreAudio => NoMoreAudio')
  BY <1>1, <1>5, RequestsStay DEF HistInv
<1>7. (InProgress => InProgress') /\ (Settled => Settled')
  <2>1. \A r : Heard(curGen, r)' <=> \E x \in heard' : x.gen = curGen /\ x.req = r
    BY <1>1 DEF Heard
  <2>2. \A r : Heard(curGen, r)' <=> Heard(curGen, r)
    BY <1>1, <1>2, <1>3, <2>1 DEF Heard
  <2>3. \A r : Noted(curGen, r)' <=> Noted(curGen, r)
    BY <1>1 DEF Noted
  <2>. QED
    BY <1>1, <1>6, <2>2, <2>3 DEF InProgress, Settled
<1>8. ReplyOK'
  BY <1>1, <1>6, <1>7 DEF HistInv, ReplyOK, Delivered
<1>9. PastOK'
  <2>1. \A x \in heard' : x.gen <= curGen'
    BY <1>1, <1>2, <1>3 DEF HistInv, PastOK, Heard
  <2>2. \A g, r \in Nat : g # curGen' => (Heard(g, r)' <=> Noted(g, r)')
    BY <1>1, <1>4 DEF HistInv, PastOK, Noted
  <2>3. Heard(sent.gen, sent.req)'
    BY <1>1, <1>2 DEF Heard
  <2>. QED
    BY <1>1, <2>1, <2>2, <2>3 DEF HistInv, PastOK, CutOK
<1>. QED
  BY <1>6, <1>8, <1>9 DEF HistInv

\* ProcessFrame.
LEMMA FrameHist ==
    ASSUME Undisturbed, Typed, TurnInv, HistInv, Frame
    PROVE  HistInv'
<1>. USE DEF TickOnly, ttsVars, llmVars, runVars, endVars, idleVars
<1>0. Untroubled
  BY DEF Undisturbed
<1>1. CASE PlayFrame
  BY <1>1, PlayHist
<1>2. CASE ReplaySentence
  BY <1>2, ReplayHist
<1>3. CASE DetectBargeIn \/ PlaybackDone
  <2>1. UNCHANGED <<events, conn, turn, curGen, turnChunks, outbound, playing, heard, recorded, voiced, sent, cut, state, run>>
    BY <1>3 DEF DetectBargeIn, PlaybackDone
  <2>2. \/ sigs' = sigs \cup {"bargeIn"} /\ UNCHANGED ttsDeliveryDone
        \/ ttsDeliveryDone /\ sigs' = sigs \cup {"playbackDone"} /\ ~ttsDeliveryDone' /\ outbound = <<>>
    BY <1>0, <1>3 DEF DetectBargeIn, PlaybackDone, FoundEmpty, Untroubled
  <2>3. NoNewAudio /\ NoNewRequest
    BY <2>1, QuietQueue DEF HistInv, NoNewRequest, SameRequests, Running
  <2>4. LeavesReply
    BY <2>1, <2>2 DEF LeavesReply, Delivered
  <2>. QED
    BY <2>3, <2>4, HistStays
<1>. QED
  BY <1>0, <1>1, <1>2, <1>3, NoTroubleSteps DEF Frame

\* Audio of the current reply is queued behind what is queued; other is dropped.
LEMMA AudioHist ==
    ASSUME Typed, TurnInv, HistInv, HandleTTSAudio
    PROVE  HistInv'
<1>. USE DEF ttsVars, llmVars, endVars, idleVars, ghostVars, Next1
<1>. DEFINE e == Head(events)
<1>1. /\ events # <<>> /\ e.type = "audio" /\ events' = q1 /\ run = "idle"
      /\ UNCHANGED <<curGen, playing, heard, recorded, sent, cut, run, conn, turn, sigs, ttsDeliveryDone>>
      /\ \/ e.gen # curGen /\ UNCHANGED <<state, turnChunks, voiced, outbound>>
         \/ /\ e.gen = curGen /\ turnChunks' = turnChunks \cup {e.req} /\ voiced' = curGen
            /\ state' = IF voiced # curGen /\ state = "Thinking" THEN "Speaking" ELSE state
            /\ outbound' = Append(outbound, Sentence(e.gen, e.req))
  BY DEF HandleTTSAudio, AudioOf
<1>2. e \in Range(events) /\ e \in Event /\ Range(events) = {e} \cup Range(q1) /\ events \in Seq(Event)
  BY <1>1, QueueLeft
<1>3. e.gen \in Nat /\ e.req \in Nat /\ curGen \in Nat /\ playing \in Nat /\ turnChunks \subseteq Nat
  BY <1>1, <1>2, EventFields DEF Typed, TypedNumbers
<1>4. NoNewRequest
  BY <1>1 DEF NoNewRequest, SameRequests, Running
<1>5. NoNewAudio
  BY <1>1, QuietQueue DEF HistInv
<1>6. CASE e.gen # curGen
  <2>1. LeavesReply
    BY <1>1, <1>6 DEF LeavesReply, Delivered
  <2>. QED
    BY <1>4, <1>5, <2>1, HistStays
<1>7. CASE e.gen = curGen
  <2>. DEFINE s == Sentence(curGen, e.req)
  <2>1. IsAudio(e, curGen) /\ ~NoMoreAudio
    BY <1>1, <1>2, <1>7 DEF IsAudio, NoMoreAudio
  <2>2. InProgress /\ ~Settled /\ ~Delivered /\ state # "Listening" /\ "playbackDone" \notin sigs
    BY <2>1 DEF HistInv, ReplyOK, Settled, Delivered
  <2>3. 0 < e.req /\ \A r \in turnChunks : r < e.req
    BY <1>2, <2>1 DEF HistInv, RequestsOK
  <2>4. \A a \in Range(q1) : IsAudio(a, curGen) => e.req < a.req
    <3>1. Sounds(curGen, events)
      BY DEF HistInv, RequestsOK
    <3>2. \A a \in Range(q1) : SoundPair(curGen, e, a)
      BY <1>1, <1>2, <3>1, SoundsHead DEF q1
    <3>. QED
      BY <2>1, <3>2 DEF SoundPair
  <2>5. s \in SentenceSet /\ s.gen = curGen /\ s.req = e.req /\ outbound' = Append(outbound, s)
    BY <1>1, <1>3, <1>7 DEF Sentence, SentenceSet
  <2>. HIDE DEF s, e
  <2>6. \A r : Came(r)' => Came(r)
    BY <1>1, <1>2, <1>7, <2>1 DEF Came, IsAudio
  <2>7. RequestsOK'
    <3>1. Sounds(curGen, events)'
      BY <1>1, <1>5 DEF NoNewAudio
    <3>2. ASSUME NEW a \in Range(events'), a.type = "audio"
          PROVE  a.gen <= curGen' /\ (IsAudio(a, curGen') => 0 < a.req /\ \A r \in turnChunks' : r < a.req)
      BY <1>1, <1>2, <1>7, <2>4, <3>2 DEF HistInv, RequestsOK, IsAudio
    <3>3. ASSUME NEW c \in Conns
          PROVE  /\ Numbered(conn'[c])
                 /\ \A i \in 1 .. Len(conn'[c].pending) :
                      conn'[c].pending[i].gen = curGen' => \A r \in Nat : Came(r)' => r < conn'[c].pending[i].req
                 /\ \A g \in Gens : Live(g)' /\ turn'[g].conn = c /\ conn'[c].up =>
                      \A r \in Nat : Came(r)' => r <= conn'[c].next
      <4>1. \A g \in Gens : Live(g)' => Live(g)
        BY <1>1 DEF Live, Running
      <4>. QED
        BY <1>1, <2>6, <4>1 DEF HistInv, RequestsOK
    <3>. QED
      BY <3>1, <3>2, <3>3 DEF RequestsOK, IsAudio
  <2>8. outbound \in Seq(SentenceSet) /\ Range(outbound') = Range(outbound) \cup {s} /\ Increasing(outbound')
    <3>1. outbound \in Seq(SentenceSet) /\ Increasing(outbound)
      BY <2>2 DEF InProgress, Typed, TypedFrames
    <3>2. \A f \in Range(outbound) : f.req < s.req
      BY <2>2, <2>3, <2>5 DEF InProgress
    <3>. QED
      BY <2>5, <3>1, <3>2, AppendRange, IncreasingAppend
  <2>9. InProgress'
    <3>1. playing < e.req
      BY <1>3, <2>2, <2>3 DEF InProgress
    <3>2. \A f \in Range(outbound') : f.gen = curGen /\ f.req \in turnChunks' /\ playing < f.req
      BY <1>1, <1>7, <2>2, <2>5, <2>8, <3>1 DEF InProgress
    <3>3. \A r \in turnChunks' : Heard(curGen, r) \/ \E f \in Range(outbound') : f.req = r
      BY <1>1, <1>7, <2>2, <2>5, <2>8 DEF InProgress
    <3>4. ASSUME NEW r \in Nat
          PROVE  ~Noted(curGen, r) /\ (Heard(curGen, r) => r \in turnChunks' /\ r <= playing /\ playing # 0)
      BY <1>1, <1>7, <2>2 DEF InProgress
    <3>5. playing # 0 => playing \in turnChunks'
      BY <1>1, <1>7, <2>2 DEF InProgress
    <3>. QED
      BY <1>1, <2>8, <3>2, <3>3, <3>4, <3>5 DEF InProgress, Heard, Noted
  <2>10. ReplyOK'
    <3>1. state' # "Listening" /\ state' # "Thinking" /\ voiced' <= curGen'
      BY <1>1, <1>3, <1>7, <2>2 DEF HistInv, ReplyOK
    <3>. QED
      BY <1>1, <2>2, <2>9, <3>1 DEF ReplyOK, Delivered
  <2>11. PastOK'
    BY <1>1 DEF HistInv, PastOK, CutOK, Heard, Noted
  <2>. QED
    BY <2>7, <2>10, <2>11 DEF HistInv
<1>. QED
  BY <1>6, <1>7

\* What recordReply adds: the sentences of the current reply that have come, all
\* of them or up to the one being played.
LEMMA RecordedShape ==
    ASSUME NEW whole \in BOOLEAN
    PROVE  \A g, r : Sentence(g, r) \in Recorded(whole) <=>
             \/ Noted(g, r)
             \/ g = curGen /\ r \in turnChunks /\ (whole \/ (playing # 0 /\ r <= playing))
<1>1. \A g, r, x : Sentence(g, r) = Sentence(curGen, x) <=> g = curGen /\ r = x
  BY DEF Sentence
<1>2. \A g, r : Sentence(g, r) \in Recorded(whole) <=>
        \/ Noted(g, r)
        \/ \E x \in turnChunks : (whole \/ (playing # 0 /\ x <= playing)) /\ Sentence(g, r) = Sentence(curGen, x)
  BY DEF Recorded, Noted
<1>. QED
  BY <1>1, <1>2

\* What is recorded of a reply that is cut is what was heard of it: its sentences
\* are played in order, and those still queued come after the one being played.
LEMMA CutSettles ==
    ASSUME Typed, ReplyOK
    PROVE  \A r \in Nat : Heard(curGen, r) <=> Sentence(curGen, r) \in Recorded(FALSE)
<1>1. turnChunks \subseteq Nat /\ playing \in Nat
  BY DEF Typed, TypedNumbers
<1>2. \A r : Sentence(curGen, r) \in Recorded(FALSE) <=>
        Noted(curGen, r) \/ (r \in turnChunks /\ playing # 0 /\ r <= playing)
  BY RecordedShape
<1>3. CASE Settled
  BY <1>2, <1>3 DEF Settled
<1>4. CASE InProgress
  <2>. SUFFICES ASSUME NEW r \in Nat
                PROVE  Heard(curGen, r) <=> r \in turnChunks /\ playing # 0 /\ r <= playing
    BY <1>2, <1>4 DEF InProgress
  <2>1. Heard(curGen, r) => r \in turnChunks /\ playing # 0 /\ r <= playing
    BY <1>4 DEF InProgress
  <2>2. ASSUME r \in turnChunks, r <= playing, ~Heard(curGen, r)
        PROVE  FALSE
    <3>1. PICK f \in Range(outbound) : f.req = r
      BY <1>4, <2>2 DEF InProgress
    <3>2. playing < f.req
      BY <1>4 DEF InProgress
    <3>. QED
      BY <1>1, <2>2, <3>1, <3>2
  <2>. QED
    BY <2>1, <2>2
<1>. QED
  BY <1>3, <1>4 DEF ReplyOK

\* With nothing left to play the whole of it has been heard.
LEMMA WholeSettles ==
    ASSUME ReplyOK, outbound = <<>>
    PROVE  \A r \in Nat : Heard(curGen, r) <=> Sentence(curGen, r) \in Recorded(TRUE)
<1>1. \A r : Sentence(curGen, r) \in Recorded(TRUE) <=> Noted(curGen, r) \/ r \in turnChunks
  BY RecordedShape
<1>2. Range(outbound) = {}
  BY DEF Range
<1>. QED
  BY <1>1, <1>2 DEF ReplyOK, InProgress, Settled

\* Once the current reply is recorded as it was heard, all replies are.
LEMMA RecordedPast ==
    ASSUME Typed, PastOK, NEW whole \in BOOLEAN,
           \A r \in Nat : Heard(curGen, r) <=> Sentence(curGen, r) \in Recorded(whole)
    PROVE  /\ \A g, r \in Nat : Sentence(g, r) \in Recorded(whole) <=> Heard(g, r)
           /\ \A s \in Recorded(whole) : s.gen <= curGen
<1>1. \A g, r \in Nat : g # curGen => (Sentence(g, r) \in Recorded(whole) <=> Heard(g, r))
  BY RecordedShape DEF PastOK
<1>2. ASSUME NEW s \in Recorded(whole)
      PROVE  s.gen <= curGen
  <2>1. s \in recorded \/ s.gen = curGen
    BY DEF Recorded, Sentence
  <2>. QED
    BY <2>1 DEF PastOK, Typed, TypedNumbers
<1>. QED
  BY <1>1, <1>2

\* A new reply has nothing of its own yet, and the one before is written.
Fresh ==
    /\ turnChunks' = {} /\ playing' = 0 /\ outbound' = <<>> /\ UNCHANGED <<heard, sent, voiced>>
    /\ \A c \in Conns : Numbered(conn'[c])
    /\ cut' \subseteq cut \cup {curGen}
    /\ \A s \in recorded' : s.gen <= curGen
    /\ \A g, r \in Nat : Sentence(g, r) \in recorded' <=> Heard(g, r)

\* The beginning of a reply keeps the invariant.
LEMMA BeginHist ==
    ASSUME Typed, Typed', HistInv, Begins, Fresh
    PROVE  HistInv'
<1>1. /\ curGen \in Nat /\ curGen' \in Nat /\ curGen < curGen' /\ voiced \in Nat /\ state' = "Thinking" /\ run' = "idle"
      /\ \A e \in Range(events') : e \in Range(events)
  BY DEF Typed, TypedNumbers, Begins
<1>2. \A e \in Range(events') : e.type = "audio" => e.gen < curGen' /\ e.gen <= curGen' /\ ~IsAudio(e, curGen')
  <2>1. ASSUME NEW e \in Range(events'), e.type = "audio"
        PROVE  e.gen < curGen' /\ e.gen <= curGen'
    <3>1. e \in Range(events) /\ e.gen <= curGen
      BY <1>1, <2>1 DEF HistInv, RequestsOK
    <3>2. e \in Event
      BY <3>1, RangeTyped DEF Typed
    <3>3. e.gen \in Nat
      BY <2>1, <3>2, EventFields
    <3>. QED
      BY <1>1, <3>1, <3>3
  <2>2. \A e : e.gen < curGen' /\ curGen' \in Nat => e.gen # curGen'
    OBVIOUS
  <2>. QED
    BY <1>1, <2>1, <2>2 DEF IsAudio
<1>3. \A e \in Range(events') : ~IsAudio(e, curGen')
  BY <1>2 DEF IsAudio
<1>4. \A r : ~Came(r)'
  BY <1>3 DEF Came, Fresh, IsAudio
<1>5. RequestsOK'
  <2>1. Sounds(curGen, events)'
    <3>1. events' \in Seq(Event)
      BY DEF Typed
    <3>2. \A j \in 1 .. Len(events') : events'[j] \in Range(events')
      BY <3>1, LenProperties DEF Range
    <3>. QED
      BY <1>3, <3>2 DEF Sounds, SoundPair, IsAudio
  <2>2. \A e \in Range(events') : e.type = "audio" => e.gen <= curGen'
    BY <1>2
  <2>3. \A e \in Range(events') : IsAudio(e, curGen') => 0 < e.req /\ \A r \in turnChunks' : r < e.req
    BY <1>3
  <2>4. \A c \in Conns : Numbered(conn'[c])
    BY DEF Fresh
  <2>. QED
    BY <1>4, <2>1, <2>2, <2>3, <2>4 DEF RequestsOK, IsAudio
<1>6. \A h \in heard : h.gen \in Nat /\ h.gen <= curGen
  BY DEF Typed, TypedFrames, HistInv, PastOK
<1>7. \A s \in recorded' : s.gen \in Nat /\ s.gen <= curGen
  BY DEF Typed, TypedFrames, SentenceSet, Fresh
<1>8. \A r : ~Heard(curGen', r) /\ Sentence(curGen', r) \notin recorded'
  BY <1>1, <1>6, <1>7 DEF Heard, Sentence
<1>9. ReplyOK'
  <2>1. InProgress'
    <3>1. Range(outbound') = {} /\ \A i \in 1 .. Len(outbound') : FALSE
      BY DEF Fresh, Range
    <3>2. \A r \in Nat : ~Noted(curGen, r)' /\ ~Heard(curGen, r)'
      BY <1>8 DEF Noted, Heard, Fresh
    <3>. QED
      BY <3>1, <3>2 DEF InProgress, Increasing, Fresh
  <2>2. voiced' # curGen' /\ voiced' <= curGen'
    BY <1>1 DEF Fresh, HistInv, ReplyOK
  <2>3. ~Delivered' /\ "playbackDone" \notin sigs'
    BY DEF Begins, Delivered
  <2>. QED
    BY <1>1, <2>1, <2>2, <2>3 DEF ReplyOK, Fresh
<1>10. PastOK'
  <2>1. (\A h \in heard' : h.gen <= curGen') /\ (\A s \in recorded' : s.gen <= curGen')
    BY <1>1, <1>6, <1>7 DEF Fresh
  <2>2. CutOK'
    <3>1. \A g \in cut' : g \in Nat /\ g <= curGen
      BY <1>1 DEF Fresh, HistInv, PastOK, CutOK, Typed, TypedFrames
    <3>. QED
      BY <1>1, <3>1 DEF CutOK
  <2>3. \A g, r \in Nat : g # curGen' => (Heard(g, r)' <=> Noted(g, r)')
    BY DEF Fresh, Heard, Noted
  <2>4. sent' # NoSentence => Heard(sent.gen, sent.req)'
    BY DEF Fresh, HistInv, PastOK, Heard
  <2>. QED
    BY <2>1, <2>2, <2>3, <2>4 DEF PastOK
<1>. QED
  BY <1>5, <1>9, <1>10 DEF HistInv

\* The end of a reply keeps it: the reply is written as it was heard.
LEMMA EndHist ==
    ASSUME Typed, Typed', HistInv, Ends, NoMoreAudio, outbound = <<>>, turnChunks' = {}, recorded' = Recorded(TRUE),
           UNCHANGED <<outbound, heard, sent, voiced, cut>>
    PROVE  HistInv'
<1>1. /\ UNCHANGED <<curGen, turn, conn>> /\ state' = "Listening" /\ run' = "idle" /\ run = "idle"
      /\ Range(events') \subseteq Range(events) /\ events' \in Seq(Event)
  BY DEF Ends
<1>2. \A e \in Range(events') : ~IsAudio(e, curGen)
  BY <1>1 DEF NoMoreAudio
<1>3. NoNewAudio
  <2>1. \A j \in 1 .. Len(events') : events'[j] \in Range(events')
    BY <1>1, LenProperties DEF Range
  <2>. QED
    BY <1>1, <1>2, <2>1 DEF NoNewAudio, Sounds, SoundPair
<1>4. NoNewRequest /\ turnChunks' \subseteq turnChunks
  BY <1>1 DEF NoNewRequest, SameRequests, Running
<1>5. RequestsOK' /\ NoMoreAudio'
  BY <1>1, <1>3, <1>4, RequestsStay DEF HistInv
<1>6. /\ \A g, r \in Nat : Sentence(g, r) \in Recorded(TRUE) <=> Heard(g, r)
      /\ \A s \in Recorded(TRUE) : s.gen <= curGen
  BY WholeSettles, RecordedPast DEF HistInv
<1>7. \A g, r \in Nat : Noted(g, r)' <=> Heard(g, r)'
  BY <1>6 DEF Noted, Heard
<1>8. Settled'
  <2>1. \A r \in Nat : Heard(curGen, r)' <=> Noted(curGen, r)'
    <3>. SUFFICES ASSUME NEW r \in Nat
                  PROVE  Heard(curGen, r)' <=> Noted(curGen, r)'
      OBVIOUS
    <3>1. Heard(curGen, r)' <=> Heard(curGen, r)
      BY <1>1 DEF Heard
    <3>2. Noted(curGen, r)' <=> Sentence(curGen, r) \in Recorded(TRUE)
      BY <1>1 DEF Noted
    <3>. QED
      BY <1>6, <3>1, <3>2 DEF Typed, TypedNumbers
  <2>. QED
    BY <1>5, <2>1 DEF Settled
<1>9. ReplyOK'
  BY <1>1, <1>5, <1>8 DEF ReplyOK, HistInv
<1>10. PastOK'
  <2>1. (\A h \in heard' : h.gen <= curGen') /\ (\A s \in recorded' : s.gen <= curGen')
    BY <1>1, <1>6 DEF HistInv, PastOK
  <2>2. CutOK'
    BY <1>1 DEF HistInv, PastOK, CutOK
  <2>3. sent' # NoSentence => Heard(sent.gen, sent.req)'
    BY DEF HistInv, PastOK, Heard
  <2>. QED
    BY <1>7, <2>1, <2>2, <2>3 DEF PastOK
<1>. QED
  BY <1>5, <1>9, <1>10 DEF HistInv

\* Opening a connection gives a client that is numbered, and changes no other.
LEMMA OpenNumbered ==
    ASSUME NEW c \in Nat, NEW cs \in [Conns -> Client], NEW x, Numbered(x), \A d \in Conns : Numbered(cs[d]),
           OpenSucceeds(c, cs, x)
    PROVE  \A d \in Conns : Numbered(conn'[d])
<1>1. conn' = cs \/ conn' = [cs EXCEPT ![ttsConn + 1] = x]
  BY DEF OpenSucceeds
<1>2. \A d \in Conns : conn'[d] = cs[d] \/ conn'[d] = x
  BY <1>1
<1>. QED
  BY <1>2

\* While nothing fails every connection that is needed opens.
LEMMA Opening ==
    ASSUME Untroubled, TurnInv, NEW c, NEW cs, NEW x, OpenTTS(c, cs, x)
    PROVE  OpenSucceeds(c, cs, x)
BY DEF OpenTTS, OpenFails, Untroubled, TurnInv, NoTrouble

\* The handlers that begin a reply while the agent listens.
LEMMA ListenHist ==
    ASSUME Undisturbed, Typed, Typed', TurnInv, HistInv,
           HandleGreeting \/ HandleOpening \/ AcceptTranscript \/ HandleIdle
    PROVE  HistInv'
<1>0. Untroubled /\ tts \in Nat /\ curGen \in Nat /\ conn \in [Conns -> Client] /\ \A d \in Conns : Numbered(conn[d])
  BY DEF Undisturbed, Typed, TypedNumbers, HistInv, RequestsOK
<1>1. Begins
  BY <1>0, GreetingBegins, HandlerBegins
<1>2. state = "Listening"
  <2>1. CASE HandleGreeting \/ HandleOpening
    <3>1. events # <<>> /\ Opens(Head(events))
      BY <2>1 DEF HandleGreeting, HandleOpening, Next1, Opens
    <3>. QED
      BY <3>1, QueueLeft DEF TurnInv, QueueOK
  <2>2. CASE AcceptTranscript \/ HandleIdle
    <3>1. run = "idle" /\ state \in {"Listening", "Transcribing"}
      BY <2>2 DEF AcceptTranscript, HandleIdle, Transcribed, Next1
    <3>. QED
      BY <3>1, IdleStates
  <2>. QED
    BY <2>1, <2>2
<1>3. Settled
  BY <1>2 DEF HistInv, ReplyOK
<1>4. /\ turnChunks' = {} /\ playing' = 0 /\ UNCHANGED <<outbound, heard, sent, voiced, cut, recorded>>
      /\ \E x : Numbered(x) /\ OpenTTS(tts, conn, x)
  <2>. USE DEF HandlerUnchanged, StartTurn
  <2>1. CASE HandleGreeting
    <3>1. Numbered(Ended(Speak(NewClient, curGen + 1), curGen + 1))
      BY <1>0, ClientsNumbered
    <3>. QED
      BY <2>1, <3>1 DEF HandleGreeting
  <2>2. CASE HandleOpening \/ AcceptTranscript \/ HandleIdle
    BY <2>2, ClientsNumbered DEF HandleOpening, AcceptTranscript, HandleIdle
  <2>. QED
    BY <2>1, <2>2
<1>5. \A d \in Conns : Numbered(conn'[d])
  BY <1>0, <1>4, Opening, OpenNumbered
<1>6. /\ \A g, r \in Nat : Sentence(g, r) \in recorded' <=> Heard(g, r)
      /\ \A s \in recorded' : s.gen <= curGen
  BY <1>0, <1>3, <1>4 DEF Settled, HistInv, PastOK, Noted
<1>7. Fresh
  BY <1>3, <1>4, <1>5, <1>6 DEF Fresh, Settled
<1>. QED
  BY <1>1, <1>7, BeginHist

\* A reply that is cut is recorded as it was heard, and the next begins.
LEMMA CutHist ==
    ASSUME Undisturbed, Typed, Typed', TurnInv, HistInv, CutReply
    PROVE  HistInv'
<1>. DEFINE cs == [c \in Conns |-> IF c = tts THEN [conn[c] EXCEPT !.open = FALSE] ELSE conn[c]]
<1>0. Untroubled /\ conn \in [Conns -> Client] /\ \A d \in Conns : Numbered(conn[d])
  BY DEF Undisturbed, Typed, HistInv, RequestsOK
<1>1. Begins
  BY <1>0, CutBegins
<1>2. /\ recorded' = Recorded(FALSE) /\ cut' = cut \cup {curGen} /\ outbound' = <<>>
      /\ turnChunks' = {} /\ playing' = 0 /\ UNCHANGED <<heard, sent, voiced>>
      /\ OpenTTS(0, cs, NewClient)
  BY DEF CutReply, CutWith, StartTurn
<1>3. ASSUME NEW d \in Conns
      PROVE  cs[d] \in Client /\ Numbered(cs[d])
  <2>. PICK x \in Client : x = conn[d]
    BY <1>0
  <2>1. cs[d] = x \/ cs[d] = [x EXCEPT !.open = FALSE]
    OBVIOUS
  <2>2. cs[d] \in Client /\ cs[d].pending = x.pending /\ cs[d].next = x.next
    BY <2>1 DEF Client
  <2>. QED
    BY <1>0, <2>2 DEF Numbered
<1>4. cs \in [Conns -> Client]
  BY <1>3
<1>. HIDE DEF cs
<1>5. \A d \in Conns : Numbered(conn'[d])
  BY <1>0, <1>2, <1>3, <1>4, Opening, OpenNumbered, ClientsNumbered
<1>6. /\ \A g, r \in Nat : Sentence(g, r) \in recorded' <=> Heard(g, r)
      /\ \A s \in recorded' : s.gen <= curGen
  BY <1>2, CutSettles, RecordedPast DEF HistInv
<1>7. Fresh
  BY <1>2, <1>5, <1>6 DEF Fresh
<1>. QED
  BY <1>1, <1>7, BeginHist

\* Without a sentence that has come there is nothing to play.
LEMMA NothingQueued ==
    ASSUME ReplyOK, turnChunks = {}
    PROVE  outbound = <<>> \/ Range(outbound) = {}
BY DEF ReplyOK, InProgress, Settled

\* A reply that is finished has been heard to its end, and nothing more comes.
LEMMA FinishHist ==
    ASSUME Undisturbed, Typed, Typed', TurnInv, HistInv, NothingToPlay \/ HandlePlaybackDone
    PROVE  HistInv'
<1>0. /\ Untroubled /\ tts \in Nat /\ conn \in [Conns -> Client] /\ \A d \in Conns : Numbered(conn[d])
      /\ events \in Seq(Event) /\ outbound \in Seq(SentenceSet)
  BY DEF Undisturbed, Typed, TypedNumbers, TypedFrames, HistInv, RequestsOK
<1>1. \/ Begins
      \/ Ends
  BY <1>0, HandlerFinishes
<1>2. NoMoreAudio /\ outbound = <<>>
  <2>1. CASE NothingToPlay
    <3>1. events # <<>> /\ Head(events).type = "done" /\ Head(events).gen = curGen /\ state = "Thinking"
      BY <2>1 DEF NothingToPlay, Next1
    <3>2. Head(events) \in Range(events) /\ Range(events) = {Head(events)} \cup Range(q1)
      BY <3>1, QueueLeft
    <3>3. ~Pending(curGen) /\ (curGen \in Gens => ~Running(curGen))
      BY <3>1, <3>2 DEF TurnInv, QueueOK
    <3>4. \A e \in Range(q1) : SoundPair(curGen, Head(events), e)
      <4>1. Sounds(curGen, events)
        BY DEF HistInv, RequestsOK
      <4>. QED
        BY <1>0, <3>1, <4>1, SoundsHead DEF q1
    <3>5. NoMoreAudio
      BY <3>1, <3>2, <3>3, <3>4 DEF NoMoreAudio, SoundPair, IsAudio
    <3>6. outbound = <<>> \/ Range(outbound) = {}
      BY <3>1, NothingQueued DEF HistInv, ReplyOK
    <3>7. outbound # <<>> => outbound[1] \in Range(outbound)
      BY <1>0, EmptySeq, LenProperties DEF Range
    <3>. QED
      BY <3>5, <3>6, <3>7
  <2>2. CASE HandlePlaybackDone
    BY <2>2 DEF HandlePlaybackDone, HistInv, ReplyOK, Delivered
  <2>. QED
    BY <2>1, <2>2
<1>3. /\ UNCHANGED <<outbound, heard, sent, voiced, cut>>
      /\ recorded' = Recorded(TRUE)
      /\ \E q : FinishTurn(q, tts, turn)
  <2>1. CASE NothingToPlay
    BY <2>1 DEF NothingToPlay, HandlerUnchanged, FinishTurn
  <2>2. CASE HandlePlaybackDone
    BY <2>2 DEF HandlePlaybackDone, HandlerUnchanged, FinishTurn
  <2>. QED
    BY <2>1, <2>2
<1>4. PICK q : FinishTurn(q, tts, turn)
  BY <1>3
<1>5. /\ turnChunks' = {}
      /\ state' = "Thinking" => playing' = 0 /\ OpenTTS(tts, conn, NewClient)
  <2>1. CASE Listens(q, tts, turn)
    <3>1. state' # "Thinking"
      BY <2>1 DEF Listens
    <3>. QED
      BY <2>1, <3>1 DEF Listens
  <2>2. CASE StartTurn(curGen + 1, q, tts, conn, turn)
    BY <2>2 DEF StartTurn
  <2>. QED
    BY <1>4, <2>1, <2>2, TurnFinishes
<1>6. CASE Begins
  <2>1. playing' = 0 /\ OpenTTS(tts, conn, NewClient)
    BY <1>5, <1>6 DEF Begins
  <2>2. \A d \in Conns : Numbered(conn'[d])
    BY <1>0, <2>1, Opening, OpenNumbered, ClientsNumbered
  <2>3. /\ \A g, r \in Nat : Sentence(g, r) \in recorded' <=> Heard(g, r)
        /\ \A s \in recorded' : s.gen <= curGen
    BY <1>2, <1>3, WholeSettles, RecordedPast DEF HistInv
  <2>4. Fresh
    BY <1>2, <1>3, <1>5, <2>1, <2>2, <2>3 DEF Fresh
  <2>. QED
    BY <1>6, <2>4, BeginHist
<1>7. CASE Ends
  <2>1. UNCHANGED <<outbound, heard, sent, voiced, cut>> /\ turnChunks' = {} /\ recorded' = Recorded(TRUE)
    BY <1>3, <1>5
  <2>. QED
    BY <1>2, <1>7, <2>1, EndHist
<1>. QED
  BY <1>1, <1>6, <1>7

\* At the end of the call the reply is recorded as far as it was heard.
LEMMA CallEndsHist ==
    ASSUME Typed, Typed', TurnInv, HistInv, CallEnds
    PROVE  HistInv'
<1>1. /\ run' = "over" /\ state' = "Listening" /\ sigs' = {} /\ ~ttsDeliveryDone' /\ events' = <<>>
      /\ outbound' = <<>> /\ turnChunks' = {} /\ sent' = NoSentence
      /\ recorded' = Recorded(FALSE) /\ cut' = cut \cup {curGen} /\ UNCHANGED <<heard, curGen, voiced>>
      /\ \A c \in Conns : conn'[c] = NoConn
      /\ \A g \in Gens : turn'[g].pc = "none"
  BY DEF CallEnds, NoTurn
<1>2. Range(events') = {} /\ Len(events') = 0
  BY <1>1 DEF Range
<1>3. Numbered(NoConn) /\ Len(NoConn.pending) = 0 /\ ~NoConn.up /\ \A g : ~HasPending(NoConn, g)
  BY ClientsNumbered, NoPending DEF NoConn
<1>4. RequestsOK'
  BY <1>1, <1>2, <1>3 DEF RequestsOK, Sounds
<1>5. NoMoreAudio'
  BY <1>1, <1>2, <1>3 DEF NoMoreAudio, Pending, Running
<1>6. /\ \A g, r \in Nat : Sentence(g, r) \in Recorded(FALSE) <=> Heard(g, r)
      /\ \A s \in Recorded(FALSE) : s.gen <= curGen
  BY CutSettles, RecordedPast DEF HistInv
<1>7. /\ \A g, r \in Nat : Noted(g, r)' <=> Heard(g, r)'
      /\ \A r \in Nat : Noted(curGen, r)' <=> Heard(curGen, r)'
  <2>1. \A g, r : (Noted(g, r)' <=> Sentence(g, r) \in Recorded(FALSE)) /\ (Heard(g, r)' <=> Heard(g, r))
    BY <1>1 DEF Noted, Heard
  <2>2. \A r : /\ Noted(curGen, r)' <=> Sentence(curGen, r) \in Recorded(FALSE)
               /\ Heard(curGen, r)' <=> Heard(curGen, r)
    BY <1>1 DEF Noted, Heard
  <2>. QED
    BY <1>6, <2>1, <2>2 DEF Typed, TypedNumbers
<1>8. ReplyOK'
  <2>1. Settled'
    BY <1>1, <1>5, <1>7 DEF Settled
  <2>. QED
    BY <1>1, <1>5, <2>1 DEF ReplyOK, HistInv
<1>9. PastOK'
  <2>1. curGen \in Nat /\ curGen <= curGen
    BY DEF Typed, TypedNumbers
  <2>2. (\A h \in heard' : h.gen <= curGen') /\ (\A s \in recorded' : s.gen <= curGen')
    BY <1>1, <1>6 DEF HistInv, PastOK
  <2>3. CutOK'
    BY <1>1, <2>1 DEF HistInv, PastOK, CutOK
  <2>. QED
    BY <1>1, <1>7, <2>2, <2>3 DEF PastOK
<1>. QED
  BY <1>4, <1>8, <1>9 DEF HistInv

\* Nothing has been heard or written when the call begins.
LEMMA HistInit ==
    ASSUME Init
    PROVE  HistInv
<1>. PICK first \in {"greeting", "opening"} : InitWith(first)
  BY DEF Init
<1>. USE DEF InitWith
<1>1. PICK e : e = Plain(first) /\ e.type # "audio"
  BY DEF Plain
<1>2. Len(events) = 1 /\ events[1] = e /\ Range(events) = {e}
  <2>1. events = <<e>> /\ DOMAIN <<e>> = {1} /\ Len(<<e>>) = 1
    BY <1>1
  <2>. QED
    BY <2>1 DEF Range
<1>3. Numbered(NoConn) /\ Len(NoConn.pending) = 0 /\ ~NoConn.up /\ \A g : ~HasPending(NoConn, g)
  BY ClientsNumbered, NoPending DEF NoConn
<1>4. RequestsOK
  <2>1. \A i, j \in 1 .. Len(events) : ~(i < j)
    BY <1>2
  <2>2. Sounds(curGen, events)
    BY <2>1 DEF Sounds
  <2>3. \A d \in Conns : conn[d] = NoConn
    OBVIOUS
  <2>. QED
    BY <1>1, <1>2, <1>3, <2>2, <2>3 DEF RequestsOK, IsAudio
<1>5. NoMoreAudio
  BY <1>1, <1>2, <1>3 DEF NoMoreAudio, Pending, Running, NoTurn, IsAudio
<1>6. ReplyOK
  BY <1>5 DEF ReplyOK, Settled, Heard, Noted
<1>7. PastOK
  BY DEF PastOK, CutOK, Heard, Noted
<1>. QED
  BY <1>4, <1>6, <1>7 DEF HistInv

\* Every step keeps the invariant.
LEMMA HistStep ==
    ASSUME Undisturbed, Typed, Typed', TurnInv, HistInv, [Next]_vars
    PROVE  HistInv'
<1>0. Untroubled
  BY DEF Undisturbed
<1>1. CASE UNCHANGED vars
  <2>1. UNCHANGED <<events, conn, turn, curGen, turnChunks, outbound, playing, heard, recorded, voiced, sent, cut,
                    state, run, sigs, ttsDeliveryDone>>
    BY <1>1 DEF vars, pauseVars, frameVars, endVars, idleVars, ttsVars, llmVars, envVars, ghostVars, runVars
  <2>2. NoNewAudio /\ NoNewRequest
    BY <2>1, QuietQueue DEF HistInv, NoNewRequest, SameRequests, Running
  <2>3. LeavesReply
    BY <2>1 DEF LeavesReply, Delivered
  <2>. QED
    BY <2>2, <2>3, HistStays
<1>2. CASE Handler
  <2>1. CASE HandleGreeting \/ HandleOpening \/ AcceptTranscript \/ HandleIdle \/ CutReply
    BY <2>1, ListenHist, CutHist
  <2>2. CASE NothingToPlay \/ HandlePlaybackDone
    BY <2>2, FinishHist
  <2>3. CASE Handles
    BY <2>3, HandlesHist, AudioHist
  <2>. QED
    BY <1>0, <1>2, <2>1, <2>2, <2>3, NoTroubleSteps DEF Handler, Handles
<1>3. CASE Frame \/ Caller \/ CallEnds
  BY <1>3, FrameHist, CallerHist, CallEndsHist
<1>4. CASE (\E g \in Gens : LLM(g)) \/ (\E c \in Conns : Provider(c))
  BY <1>4, SaysHist, LLMHist, ProviderHist
<1>. QED
  BY <1>1, <1>2, <1>3, <1>4 DEF Next

\* HistoryIsWhatWasHeard: of a reply that was cut, and between turns of every
\* reply, history holds exactly the sentences the caller heard of it (recordReply,
\* playingReq, turnChunks), whatever interruptions, tools and utterances come:
\* while nothing fails and neither a tick nor readTTS is held up.  Held up,
\* readTTS could put Done before the last audio of a reply.
THEOREM HistoryIsHeard ==
    ASSUME Undisturbed
    PROVE  Spec => []HistoryIsWhatWasHeard
<1>1. Typed /\ HistInv => HistoryIsWhatWasHeard
  <2>. SUFFICES ASSUME Typed, HistInv
                PROVE  HistoryIsWhatWasHeard
    OBVIOUS
  <2>1. ASSUME NEW g \in Nat, g # curGen \/ Settled
        PROVE  HeardOf(g) = RecordedOf(g)
    <3>1. \A r \in Nat : Heard(g, r) <=> Noted(g, r)
      BY <2>1 DEF HistInv, PastOK, Settled
    <3>2. \A r : (r \in HeardOf(g) <=> Heard(g, r)) /\ (Heard(g, r) => r \in Nat)
      BY DEF HeardOf, Heard, Typed, TypedFrames
    <3>3. \A r : (r \in RecordedOf(g) <=> Noted(g, r)) /\ (Noted(g, r) => r \in Nat)
      <4>1. \A s \in recorded : s = Sentence(s.gen, s.req) /\ s.req \in Nat
        BY DEF Typed, TypedFrames, SentenceSet, Sentence
      <4>2. \A r : Sentence(g, r).gen = g /\ Sentence(g, r).req = r
        BY DEF Sentence
      <4>. QED
        BY <4>1, <4>2 DEF RecordedOf, Noted
    <3>. QED
      BY <3>1, <3>2, <3>3
  <2>2. CutRecordsHeard
    <3>. SUFFICES ASSUME NEW g \in cut
                  PROVE  HeardOf(g) = RecordedOf(g)
      BY DEF CutRecordsHeard
    <3>1. g \in Nat /\ curGen \in Nat /\ (run # "over" => g < curGen)
      BY DEF Typed, TypedNumbers, TypedFrames, HistInv, PastOK, CutOK
    <3>2. run = "over" => Settled
      BY DEF HistInv, ReplyOK
    <3>. QED
      BY <2>1, <3>1, <3>2
  <2>3. ASSUME Quiet, NEW g \in Gens
        PROVE  HeardOf(g) = RecordedOf(g)
    <3>1. Settled /\ g \in Nat
      BY <2>3, Numbers DEF Quiet, HistInv, ReplyOK
    <3>. QED
      BY <2>1, <3>1
  <2>. QED
    BY <2>2, <2>3 DEF HistoryIsWhatWasHeard
<1>2. Init => HistInv
  BY HistInit
<1>3. Typed /\ TurnInv /\ Typed' /\ HistInv /\ [Next]_vars => HistInv'
  BY HistStep
<1>4. Spec => [](Typed /\ TurnInv)
  BY TurnInvariant DEF Undisturbed
<1>. QED
  BY <1>1, <1>2, <1>3, <1>4, PTL DEF Spec
=============================================================================
