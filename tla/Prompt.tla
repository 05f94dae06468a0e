------------------------------- MODULE Prompt --------------------------------
(***************************************************************************)
(* The prompt of an ask and the citations of its answer                    *)
(* (pg_raggraph_core/src/llm/prompt.rs).  A prompt is its numbered blocks, *)
(* an answer the numbers it cites: the model sees no chunk ids.            *)
(***************************************************************************)
EXTENDS Integers, Sequences, SequencesExt

CONSTANT TokenCount     \* of every chunk

ASSUME PromptAssumption == TokenCount \in [DOMAIN TokenCount -> Nat]

Tokens(chunks) == FoldLeft(LAMBDA n, c : n + TokenCount[c], 0, chunks)

Refused(chunks, budget) ==
    \/ budget <= 0
    \/ chunks = <<>>
    \/ TokenCount[chunks[1]] > budget

\* Mutation: the first chunk that does not fit ends the prompt.
build_ask_prompt_prefix(chunks, budget) ==
    LET fits == {n \in 0..Len(chunks) : Tokens(SubSeq(chunks, 1, n)) <= budget}
    IN  SubSeq(chunks, 1, CHOOSE n \in fits : \A m \in fits : m <= n)

\* Greedy in the order of the chunks: what does not fit is dropped, what
\* comes later may still fit.
build_ask_prompt(chunks, budget) ==
    FoldLeft(LAMBDA included, c :
                IF Tokens(included) + TokenCount[c] <= budget THEN Append(included, c) ELSE included,
             <<>>, chunks)

\* The blocks are in the order of the chunks.
KeepsOrder(blocks, chunks) ==
    \A i, j \in 1..Len(blocks) : i < j =>
        \E k, l \in 1..Len(chunks) : k < l /\ chunks[k] = blocks[i] /\ chunks[l] = blocks[j]

\* A chunk left out would not have fitted behind the blocks before it.
LeavesNoRoom(blocks, chunks, budget) ==
    \A i \in 1..Len(chunks) : ~Contains(blocks, chunks[i]) =>
        \E n \in 0..Len(blocks) :
            /\ ToSet(SubSeq(blocks, 1, n)) \subseteq ToSet(SubSeq(chunks, 1, i - 1))
            /\ Tokens(SubSeq(blocks, 1, n)) + TokenCount[chunks[i]] > budget

\* Numbers of no block are dropped, repeated ones too; the order is that of
\* the answer.
Seen(numbers, blocks) ==
    FoldLeft(LAMBDA seen, n : IF n \in 1..Len(blocks) /\ ~Contains(seen, n) THEN Append(seen, n) ELSE seen,
             <<>>, numbers)

\* Mutation: a number is looked up among all the chunks that were found.
extract_citations_found(numbers, blocks, chunks) ==
    LET seen == Seen(numbers, chunks) IN [i \in 1..Len(seen) |-> chunks[seen[i]]]

\* A chunk that is in two blocks is cited under either number.  The chunks
\* that were found play no part.
extract_citations(numbers, blocks, chunks) ==
    LET seen == Seen(numbers, blocks) IN [i \in 1..Len(seen) |-> blocks[seen[i]]]
=============================================================================
