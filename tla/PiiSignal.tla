------------------------------ MODULE PiiSignal ------------------------------
(***************************************************************************)
(* PiiSignal of src/core/src/signals/safety.rs: the text is cut into       *)
(* chunks, the detector chain is asked for each, and the answers are folded *)
(* into one result.                                                        *)
(*                                                                         *)
(* A text is its UTF-8 bytes, told apart as chunk_text tells them apart:   *)
(* bytes of words, one-byte whitespace, and the lead and continuation      *)
(* bytes of two-byte word and whitespace characters.  An offset o is a     *)
(* position between bytes: Byte(o) is the byte after it.                   *)
(***************************************************************************)
EXTENDS Integers, Sequences, FiniteSets

CONSTANTS
    MaxSize,    \* max_chunk_size, in bytes
    MaxText,    \* bound: bytes of a text
    Tiers,      \* bound: tiers of the chain
    DenyLists   \* the deny lists a signal is built with

ASSUME MaxSizeAssumption == MaxSize \in Nat
ASSUME MaxTextAssumption == MaxText \in Nat
ASSUME TiersAssumption == Tiers \in Nat \ {0}

VARIABLES
    deny,      \* self.deny_list: the entity types to report; {} reports all
    pc,        \* "idle", "cutting", "asking", "done", "failed" or "panicked"
    text,      \* ctx.text
    start,     \* chunk_text: where the next chunk starts
    chunks,    \* the chunks, as pairs of offsets
    next,      \* evaluate: the chunk to ask about
    found,     \* all_entities
    prov,      \* provenance
    result     \* the SignalResult
vars == <<deny, pc, text, start, chunks, next, found, prov, result>>

Types == {"email", "phone"}        \* entity types: that of a word is its first byte
Leads == {"wide", "wideSpace"}     \* lead bytes of two-byte characters
Bytes == Types \cup {"space", "cont"} \cup Leads

Byte(t, o) == t[o + 1]

\* A continuation byte follows a lead byte, and only there.
WellFormed(t) ==
    \A i \in DOMAIN t :
        /\ t[i] = "cont" <=> i > 1 /\ t[i - 1] \in Leads
        /\ t[i] \in Leads => i < Len(t)

Texts == {t \in UNION {[1..n -> Bytes] : n \in 0..MaxText} : WellFormed(t)}

\* str::is_char_boundary
Boundary(t, o) == o < Len(t) => Byte(t, o) # "cont"

\* Whether a whitespace character starts at o, and whether the byte at o is of one.
SpaceStarts(t, o) == Byte(t, o) \in {"space", "wideSpace"}
InSpace(t, o) ==
    SpaceStarts(t, o) \/ (Byte(t, o) = "cont" /\ Byte(t, o - 1) = "wideSpace")

Least(S) == CHOOSE x \in S : \A y \in S : x <= y
Greatest(S) == CHOOSE x \in S : \A y \in S : y <= x

-----------------------------------------------------------------------------
(* chunk_text *)

\* `(start + max_size).min(text.len())`
End(t, s) == IF s + MaxSize < Len(t) THEN s + MaxSize ELSE Len(t)

\* Mutant: a cut at the end of the window, in the middle of a word.
ActualEndHard(t, s) == End(t, s)

\* rfind(char::is_whitespace) in text[start..end], or the whole window.
ActualEnd(t, s) ==
    LET e == End(t, s)
        spaces == {p \in s..(e - 1) : SpaceStarts(t, p)}
    IN  IF e < Len(t) /\ spaces # {} THEN Greatest(spaces) ELSE e

\* Mutant: one byte is skipped, whatever it is.
SkipOne(t, o) == IF o < Len(t) THEN o + 1 ELSE o

\* Where the loop that skips whitespace, one byte at a time, stops.
SkipSpace(t, o) == Least({p \in o..Len(t) : p < Len(t) => ~SpaceStarts(t, p)})

\* Slicing a str inside a character panics: the window's end, or the end of the skip.
CutPanics(t, s) ==
    \/ ~Boundary(t, End(t, s))
    \/ ~Boundary(t, SkipSpace(t, ActualEnd(t, s)))

-----------------------------------------------------------------------------
(* The chain: detect_entities, see TierChain.  The detector finds words.   *)

\* The words of the bytes lo..hi, as pairs of offsets.
Words(t, lo, hi) ==
    {w \in (lo..hi) \X (lo..hi) :
        /\ w[1] < w[2]
        /\ \A o \in w[1]..(w[2] - 1) : ~InSpace(t, o)
        /\ w[1] = lo \/ InSpace(t, w[1] - 1)
        /\ w[2] = hi \/ InSpace(t, w[2])}

\* The entities of a chunk, with offsets into the chunk.
Entities(t, chunk) ==
    {[type |-> Byte(t, w[1]), start |-> w[1] - chunk[1], end |-> w[2] - chunk[1]] :
        w \in Words(t, chunk[1], chunk[2])}

\* What a chain says of its tiers; winner 0 is None.
Provenances ==
    {p \in [tiers : SUBSET (1..Tiers), errors : SUBSET (1..Tiers), winner : 0..Tiers] :
        /\ p.errors \subseteq p.tiers
        /\ p.winner \in {0} \cup (p.tiers \ p.errors)}

NoProvenance == [tiers |-> {}, errors |-> {}, winner |-> 0]
NoResult == [flagged |-> {}, suppressed |-> {}]

-----------------------------------------------------------------------------
(* evaluate *)

Init ==
    /\ deny \in DenyLists
    /\ pc = "idle"
    /\ text = <<>>
    /\ start = 0
    /\ chunks = <<>>
    /\ next = 1
    /\ found = {}
    /\ prov = NoProvenance
    /\ result = NoResult

\* A text that fits is one chunk, an empty one too.
Begin ==
    /\ pc = "idle"
    /\ text' \in Texts
    /\ IF Len(text') <= MaxSize
       THEN pc' = "asking" /\ chunks' = <<<<0, Len(text')>>>>
       ELSE pc' = "cutting" /\ UNCHANGED chunks
    /\ UNCHANGED <<deny, start, next, found, prov, result>>

\* One turn of chunk_text's loop.
Cut ==
    /\ pc = "cutting"
    /\ start < Len(text)
    /\ ~CutPanics(text, start)
    /\ LET e == ActualEnd(text, start)
       IN  /\ chunks' = Append(chunks, <<start, e>>)
           /\ start' = SkipSpace(text, e)
    /\ UNCHANGED <<deny, pc, text, next, found, prov, result>>

CutPanicked ==
    /\ pc = "cutting"
    /\ start < Len(text)
    /\ CutPanics(text, start)
    /\ pc' = "panicked"
    /\ UNCHANGED <<deny, text, start, chunks, next, found, prov, result>>

CutDone ==
    /\ pc = "cutting"
    /\ start >= Len(text)
    /\ pc' = "asking"
    /\ UNCHANGED <<deny, text, start, chunks, next, found, prov, result>>

\* Mutant: the offsets stay those of the chunk.
PlacedRaw(chunk, entities) == entities

\* The entities at their place in the text.
Placed(chunk, entities) ==
    {[e EXCEPT !.start = @ + chunk[1], !.end = @ + chunk[1]] : e \in entities}

\* Per-chunk provenances are folded: the tiers touched, the deepest winner.
Folded(p, q) ==
    [tiers  |-> p.tiers \cup q.tiers,
     errors |-> p.errors \cup q.errors,
     winner |-> IF p.winner > q.winner THEN p.winner ELSE q.winner]

Ask ==
    /\ pc = "asking"
    /\ next <= Len(chunks)
    /\ \E p \in Provenances : prov' = Folded(prov, p)
    /\ found' = found \cup Placed(chunks[next], Entities(text, chunks[next]))
    /\ next' = next + 1
    /\ UNCHANGED <<deny, pc, text, start, chunks, result>>

\* An error for one chunk is the error of the evaluation.
AskFails ==
    /\ pc = "asking"
    /\ next <= Len(chunks)
    /\ pc' = "failed"
    /\ UNCHANGED <<deny, text, start, chunks, next, found, prov, result>>

\* is_flagged
IsFlagged(type) == deny = {} \/ type \in deny

Finish ==
    /\ pc = "asking"
    /\ next > Len(chunks)
    /\ result' = [flagged    |-> {e \in found : IsFlagged(e.type)},
                  suppressed |-> {e \in found : ~IsFlagged(e.type)}]
    /\ pc' = "done"
    /\ UNCHANGED <<deny, text, start, chunks, next, found, prov>>

Next == Begin \/ Cut \/ CutPanicked \/ CutDone \/ Ask \/ AskFails \/ Finish

Spec == Init /\ [][Next]_vars

-----------------------------------------------------------------------------
(* Properties *)

\* The state is of its types: chunks are pairs of offsets into the text, and the
\* provenance folded over the chunks names no winner and no error of a tier that no
\* chunk attempted.
TypeOK ==
    /\ pc \in {"idle", "cutting", "asking", "done", "failed", "panicked"}
    /\ deny \in DenyLists
    /\ text \in Texts
    /\ start \in 0..Len(text)
    /\ chunks \in Seq((0..Len(text)) \X (0..Len(text)))
    /\ next \in 1..(Len(chunks) + 1)
    /\ prov \in [tiers : SUBSET (1..Tiers), errors : SUBSET (1..Tiers), winner : 0..Tiers]
    /\ prov.errors \subseteq prov.tiers
    /\ prov.winner \in {0} \cup prov.tiers

Covered(o) == \E k \in DOMAIN chunks : chunks[k][1] <= o /\ o < chunks[k][2]

\* The chunks are in the text's order and do not overlap, none is longer than
\* max_chunk_size, and every byte chunk_text has passed is in one of them or is
\* whitespace: no part of a word escapes the detector.
ChunksSound ==
    /\ \A k \in DOMAIN chunks :
        /\ chunks[k][1] <= chunks[k][2]
        /\ chunks[k][2] - chunks[k][1] <= MaxSize
    /\ \A j, k \in DOMAIN chunks : j < k => chunks[j][2] <= chunks[k][1]
    /\ pc = "cutting" => \A o \in 0..(start - 1) : InSpace(text, o) \/ Covered(o)
    /\ pc \in {"asking", "done"} => \A o \in 0..(Len(text) - 1) : InSpace(text, o) \/ Covered(o)

\* A word that fits into a chunk is never cut: where one chunk ends inside a word,
\* the MaxSize bytes before the cut are all of that word.
WordsKept ==
    \A k \in DOMAIN chunks :
        LET e == chunks[k][2]
        IN  (0 < e /\ e < Len(text) /\ ~InSpace(text, e) /\ ~InSpace(text, e - 1))
                => /\ e >= MaxSize
                   /\ \A o \in (e - MaxSize)..(e - 1) : ~InSpace(text, o)

\* Cutting the text is invisible to a detector of words that fit into a chunk: the
\* entities reported, with their places, are those of the whole text, and the deny
\* list reports or suppresses each of them; an empty list suppresses none.
ChunkingInvisible ==
    (pc = "done" /\ \A w \in Words(text, 0, Len(text)) : w[2] - w[1] <= MaxSize)
        => /\ result.flagged \cup result.suppressed = Entities(text, <<0, Len(text)>>)
           /\ deny = {} => result.suppressed = {}

\* Every turn of chunk_text's loop gets further, so it ends.
CutAdvances == [][Cut => start' > start]_vars

\* "Split text into non-overlapping chunks at word boundaries": no text makes a cut
\* inside a character, where the slice panics.
CutsBetweenCharacters == pc # "panicked"
=============================================================================
