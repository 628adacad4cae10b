-------------------------- MODULE SentenceChunker --------------------------
(***************************************************************************)
(* Cutting the LLM's streamed text into chunks for the TTS:                *)
(* internal/ai/agent/chunker.go.                                           *)
(*                                                                         *)
(* A rune is its class: what nextCut looks at.  The thresholds are scaled  *)
(* down (80 and 160 in the code), the hard limit staying twice the first.  *)
(***************************************************************************)
EXTENDS Naturals, Sequences, FiniteSets, FiniteSetsExt, SequencesExt

CONSTANTS
    RuneThreshold,  \* chunkerRuneThreshold
    MaxRunes,       \* bound: length of a reply
    MaxOdd          \* bound: runes of a reply that are not letters

ASSUME ChunkerAssumption == RuneThreshold \in Nat \ {0} /\ MaxRunes \in Nat /\ MaxOdd \in Nat

\* "stop" is every other sentence delimiter, "comma" every mark of a pause,
\* "sign" a combining mark, "virama" the one that joins two consonants.
RuneClasses == {"letter", "digit", "space", "dot", "stop", "comma", "sign", "virama"}
HardLimit == 2 * RuneThreshold

VARIABLES
    written,    \* what the LLM has written
    chunkBuf,   \* SentenceChunker.buf
    feeding,    \* Feed is in its loop
    chunks,     \* the chunks handed to the TTS
    ends,       \* history: where in the text each chunk ends
    flushed     \* the turn's text is over

chunkVars == <<written, chunkBuf, feeding, chunks, ends, flushed>>

Speaks(r) == r \in {"letter", "digit"}
HasContent(b, i) == \E j \in 1..(i - 1) : Speaks(b[j])
\* hasLetterOrDigit
HasLetterOrDigit(b) == \E j \in DOMAIN b : Speaks(b[j])

LastSpaces(b, i) == {j \in 1..i : b[j] = "space" /\ HasContent(b, j)}
LastPauses(b, i) ==
    {j \in LastSpaces(b, i) : b[j - 1] = "comma" /\ j >= RuneThreshold \div 2}

Delimits(b, i) == b[i] \in {"dot", "stop"} /\ HasContent(b, i)

\* The hard limit, never before a combining mark nor after a virama.
MayBreakWord(b, i) ==
    i >= HardLimit /\ i < Len(b) /\ b[i + 1] \notin {"sign", "virama"} /\ b[i] # "virama"

\* Past the threshold: after the last pause, else the last space, else in the word.
CutsLong(b, i) ==
    /\ i >= RuneThreshold /\ ~Delimits(b, i)
    /\ LastSpaces(b, i) # {} \/ MayBreakWord(b, i)

LongCut(b, i) ==
    IF LastPauses(b, i) # {} THEN Max(LastPauses(b, i))
    ELSE IF LastSpaces(b, i) # {} THEN Max(LastSpaces(b, i))
    ELSE i

\* Mutant: the dot of a number cuts like any other.
CutsNumbers(b, i) == Delimits(b, i)
\* A delimiter after some content, but not the dot of a number.
CutsSentence(b, i) == Delimits(b, i) /\ ~(b[i] = "dot" /\ b[i - 1] = "digit")

\* nextCut: where the first trigger cuts, 0 = none has fired.
NextCut(b) ==
    LET fired == {i \in DOMAIN b : CutsLong(b, i) \/ CutsSentence(b, i)} IN
    IF fired = {} THEN 0
    ELSE IF CutsLong(b, Min(fired)) THEN LongCut(b, Min(fired)) ELSE Min(fired)

ChunkerInit ==
    /\ written = <<>> /\ chunkBuf = <<>> /\ feeding = FALSE
    /\ chunks = <<>> /\ ends = <<>> /\ flushed = FALSE

\* Where in the text chunk i starts: after the one before.
StartOf(i) == IF i = 1 THEN 0 ELSE ends[i - 1]
\* How much of the text is in chunks.
Cut == StartOf(Len(chunks) + 1)

\* Replies of at most MaxRunes runes, MaxOdd of them not letters.
Writable(t) ==
    /\ Len(written) + Len(t) <= MaxRunes
    /\ Cardinality({i \in DOMAIN (written \o t) : (written \o t)[i] # "letter"}) <= MaxOdd

\* A token is one rune, or a short word with the rune after it.
Tokens == {<<r>> : r \in RuneClasses} \cup {<<"letter", "letter", r>> : r \in RuneClasses}

\* Feed appends the token, then cuts while a trigger fires, one chunk a step.
Feed(t) ==
    /\ ~flushed /\ ~feeding /\ Writable(t)
    /\ written' = written \o t /\ chunkBuf' = chunkBuf \o t
    /\ feeding' = TRUE
    /\ UNCHANGED <<chunks, ends, flushed>>

HandOver(n) ==
    /\ chunks' = Append(chunks, SubSeq(chunkBuf, 1, n))
    /\ ends' = Append(ends, Cut + n)

CutChunk ==
    /\ feeding /\ NextCut(chunkBuf) # 0
    /\ HandOver(NextCut(chunkBuf))
    /\ chunkBuf' = SubSeq(chunkBuf, NextCut(chunkBuf) + 1, Len(chunkBuf))
    /\ UNCHANGED <<written, feeding, flushed>>

FeedReturns ==
    /\ feeding /\ NextCut(chunkBuf) = 0
    /\ feeding' = FALSE
    /\ UNCHANGED <<written, chunkBuf, chunks, ends, flushed>>

\* Flush at the end of the turn; a remainder without content is dropped.
Flush ==
    /\ ~flushed /\ ~feeding /\ flushed' = TRUE
    /\ IF HasLetterOrDigit(chunkBuf) THEN HandOver(Len(chunkBuf)) ELSE UNCHANGED <<chunks, ends>>
    /\ chunkBuf' = <<>>
    /\ UNCHANGED <<written, feeding>>

ChunkerNext == Flush \/ CutChunk \/ FeedReturns \/ \E t \in Tokens : Feed(t)
ChunkerSpec == ChunkerInit /\ [][ChunkerNext]_chunkVars
-----------------------------------------------------------------------------
\* The text from rune n + 1 on.
TextAfter(n) == SubSeq(written, n + 1, Len(written))

\* Every letter and digit of the reply is spoken, once and in order: each chunk
\* is the text from where the one before it ended, and at the end all that is
\* in none is a tail of bare punctuation.
EverythingSpoken ==
    /\ Len(ends) = Len(chunks)
    /\ \A i \in DOMAIN chunks :
           /\ StartOf(i) < ends[i] /\ ends[i] <= Len(written)
           /\ chunks[i] = SubSeq(written, StartOf(i) + 1, ends[i])
    /\ flushed => ~HasLetterOrDigit(TextAfter(Cut))

HasLetter(b) == \E j \in DOMAIN b : b[j] = "letter"

\* Where nextCut and Flush do let a number go out alone: at the end of the reply,
\* before a delimiter other than its own dot, or for want of a later space.
NumberGoesAlone(i) ==
    LET c == chunks[i] IN
    \/ flushed /\ i = Len(chunks)
    \/ Last(c) = "stop"
    \/ Last(c) = "dot" /\ c[Len(c) - 1] # "digit"
    \/ Last(c) = "space" /\ Len(TextAfter(StartOf(i))) >= RuneThreshold

\* The TTS refuses a request without a letter ("must contain at least one
\* character from the allowed languages"; digits alone do not do either).  None
\* is of bare punctuation, and none a number split from its text by its own dot
\* (a list's marker, a decimal point), but for one the hard limit cut: nextCut
\* asks for no content there.
EveryChunkSpeaks ==
    \A i \in DOMAIN chunks :
        \/ HasLetter(chunks[i])
        \/ HasLetterOrDigit(chunks[i]) /\ NumberGoesAlone(i)
        \/ Len(chunks[i]) >= HardLimit

\* A chunk that another follows ends a word: at a space or a delimiter that
\* is not the dot inside a number; only a word past the hard limit is broken,
\* and never inside a written syllable.
WordsStayWhole ==
    \A i \in 1..(Len(chunks) - 1) :
        LET c == chunks[i] IN
        \/ Last(c) \in {"space", "stop"}
        \/ Last(c) = "dot" /\ c[Len(c) - 1] # "digit"
        \/ Len(c) >= HardLimit /\ Last(c) # "virama" /\ Head(chunks[i + 1]) \notin {"sign", "virama"}

\* How the text was split into tokens on the wire does not matter: each chunk
\* is the one nextCut takes with all the text from there on before it, and
\* between tokens nothing that could be cut is held back.
TokensDontMatter ==
    ~flushed =>
        /\ \A i \in DOMAIN chunks : Len(chunks[i]) = NextCut(TextAfter(StartOf(i)))
        /\ ~feeding => NextCut(TextAfter(Cut)) = 0

\* The chunks are the text: all of it, in chunks of words but for the numbers that
\* go alone, which a listener follows, the same however the LLM's tokens fell.
ChunksAreTheText == EverythingSpoken /\ EveryChunkSpeaks /\ WordsStayWhole /\ TokensDontMatter
=============================================================================
