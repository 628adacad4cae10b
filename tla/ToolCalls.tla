----------------------------- MODULE ToolCalls -----------------------------
(***************************************************************************)
(* Joining the streamed fragments of the LLM's tool calls:                 *)
(* toolCallAssembler (internal/ai/llm/client.go).                          *)
(*                                                                         *)
(* The provider means some calls and sends their fragments in one of the   *)
(* styles the code names: "indexed" (OpenAI: the index on every fragment,  *)
(* the id and name on the first, calls possibly interleaved), "whole"      *)
(* (Gemini: one delta per call, index absent or always the first), "byid"  *)
(* (no index, the id on every fragment) and "tail" (no index, the id on    *)
(* the first fragment, one call after the other).                          *)
(* Arguments are the list of the fragments they are made of.               *)
(***************************************************************************)
EXTENDS Naturals, Sequences, FiniteSets

CONSTANTS
    MeantCalls,     \* calls the model means, numbered 1..MeantCalls
    Pieces          \* fragments per call where a style splits them

ASSUME ToolCallsAssumption == MeantCalls \in Nat /\ Pieces \in Nat \ {0}

Styles == {"indexed", "whole", "byid", "tail"}
NoIndex == 0        \* Index == nil; an index is the number of its call
NoId == 0           \* ID == "", Function.Name == ""

VARIABLES
    style,      \* the provider's
    sentOf,     \* fragments sent of each call
    assembled   \* toolCallAssembler.calls

toolVars == <<style, sentOf, assembled>>

PiecesOf(k) == IF style = "whole" THEN 1 ELSE Pieces
EmptyCall == [id |-> NoId, args |-> <<>>]

ToolInit ==
    /\ style \in Styles
    /\ sentOf = [k \in 1..MeantCalls |-> 0]
    /\ assembled = <<>>

\* The deltas the provider may send as the next fragment of call k.
Deltas(k) ==
    LET first == sentOf[k] = 0
        piece == <<k, sentOf[k] + 1>>
        id == IF first \/ style = "byid" THEN k ELSE NoId
    IN {[index |-> i, id |-> id, piece |-> piece] :
            i \in IF style = "indexed" THEN {k} ELSE IF style = "whole" THEN {1, NoIndex} ELSE {NoIndex}}

\* Which call may be next: a later one begins after an earlier one has, and
\* only an index or an id lets two be interleaved.
MaySend(k) ==
    /\ sentOf[k] < PiecesOf(k)
    /\ \A j \in 1..(k - 1) : IF style \in {"indexed", "byid"} THEN sentOf[j] > 0 ELSE sentOf[j] = PiecesOf(j)

HasId(id) == \E i \in DOMAIN assembled : assembled[i].id = id

\* Mutant: the index decides, whatever the id.
ByIndexOnly(d) == d.index # NoIndex

\* The index decides unless its slot holds a call with another id.
ByIndex(d) ==
    /\ d.index # NoIndex
    /\ d.index <= Len(assembled) => NoId \in {d.id, assembled[d.index].id} \/ assembled[d.index].id = d.id

\* slot: where the fragment goes; past the end means calls are appended.
CallSlot(d) ==
    IF ByIndex(d) THEN d.index
    ELSE IF d.id # NoId
           THEN IF HasId(d.id) THEN CHOOSE i \in DOMAIN assembled : assembled[i].id = d.id
                               ELSE Len(assembled) + 1
    ELSE IF assembled = <<>> THEN 1 ELSE Len(assembled)

Grown(n) == [i \in 1..(IF n > Len(assembled) THEN n ELSE Len(assembled)) |->
                IF i <= Len(assembled) THEN assembled[i] ELSE EmptyCall]

\* add
AddDelta(d) ==
    assembled' = [Grown(CallSlot(d)) EXCEPT ![CallSlot(d)] =
                    [id |-> IF d.id # NoId THEN d.id ELSE @.id, args |-> Append(@.args, d.piece)]]

SendDelta(k) ==
    /\ MaySend(k)
    /\ sentOf' = [sentOf EXCEPT ![k] = @ + 1]
    /\ \E d \in Deltas(k) : AddDelta(d)
    /\ UNCHANGED style

ToolNext == \E k \in 1..MeantCalls : SendDelta(k)
ToolSpec == ToolInit /\ [][ToolNext]_toolVars
-----------------------------------------------------------------------------
\* done returns the calls with a name: at every point they are the calls the
\* model began, each with exactly its own arguments so far, none merged, split
\* or given another's, whatever the provider's style.
CallsKeepTheirArguments ==
    {assembled[i] : i \in DOMAIN assembled} =
        {[id |-> k, args |-> [n \in 1..sentOf[k] |-> <<k, n>>]] : k \in {j \in 1..MeantCalls : sentOf[j] > 0}}
=============================================================================
