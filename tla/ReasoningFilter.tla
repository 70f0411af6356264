--------------------------- MODULE ReasoningFilter ---------------------------
(***************************************************************************)
(* The filter that takes a model's scratchpad out of its streamed answer   *)
(* (app/providers.py, class ReasoningFilter, and _stream_litellm, which    *)
(* feeds it).  The stream may be cut into chunks at any place.             *)
(* A text is a sequence of letters; the two tags are short ones of the     *)
(* same shape as "<think>" and "</think>".                                 *)
(* The names of this module are its own, for Kernel_proofs extends it      *)
(* together with the other small modules.                                  *)
(***************************************************************************)
EXTENDS Integers, Sequences

CONSTANTS
    Alphabet,
    OPEN, CLOSE,   \* the tags
    MaxChunk,      \* bound: letters in a chunk
    MaxText        \* bound: letters in an answer

ASSUME FilterAssumption ==
    /\ OPEN \in Seq(Alphabet) /\ CLOSE \in Seq(Alphabet)
    /\ Len(OPEN) > 1 /\ Len(CLOSE) > 1 /\ OPEN # CLOSE
    /\ MaxChunk \in Nat \ {0} /\ MaxText \in Nat

VARIABLES
    held,     \* self._held
    inside,   \* self._inside
    shown,    \* what was emitted and kept: content_parts
    ended,    \* the stream is over and flushed
    text      \* history: everything the model has sent

filterVars == <<held, inside, shown, ended, text>>

FilterInit == held = <<>> /\ inside = FALSE /\ shown = <<>> /\ ended = FALSE /\ text = <<>>

-----------------------------------------------------------------------------
From(s, i) == SubSeq(s, i, Len(s))
Ending(s, n) == IF n >= Len(s) THEN s ELSE From(s, Len(s) - n + 1)
ButEnding(s, n) == SubSeq(s, 1, Len(s) - n)

\* str.find, counted from one; 0 when the tag is not in s.
Find(tag, s) ==
    LET places == {i \in 1..Len(s) - Len(tag) + 1 : SubSeq(s, i, i + Len(tag) - 1) = tag}
    IN  IF places = {} THEN 0 ELSE CHOOSE i \in places : \A j \in places : i <= j

\* Fault: the prefixes are tried from the shortest.
ShortestTagPrefix(s) ==
    LET fits == {n \in 1..Len(OPEN) - 1 : n <= Len(s) /\ Ending(s, n) = SubSeq(OPEN, 1, n)}
    IN  IF fits = {} THEN 0 ELSE 1

\* _maior_prefixo_de_tag
LongestTagPrefix(s) ==
    LET fits == {n \in 1..Len(OPEN) - 1 : n <= Len(s) /\ Ending(s, n) = SubSeq(OPEN, 1, n)}
    IN  IF fits = {} THEN 0 ELSE CHOOSE n \in fits : \A k \in fits : k <= n

(* The loop of feed on [held, inside, out], where out is what is safe to show. *)
States == [held : Seq(Alphabet), inside : BOOLEAN, out : Seq(Alphabet)]

\* The tag that the loop looks for.
Sought(st) == IF st.inside THEN CLOSE ELSE OPEN

\* It is not there: keep only what could still be its beginning.
KeepBack(st) ==
    LET seguro == LongestTagPrefix(st.held)
    IN  IF st.inside
        THEN [held |-> Ending(st.held, Len(CLOSE) - 1), inside |-> TRUE, out |-> st.out]
        ELSE [held |-> Ending(st.held, seguro), inside |-> FALSE,
              out |-> st.out \o ButEnding(st.held, seguro)]

\* It begins at `place`: go on after it.
Pass(st, place) ==
    IF st.inside
    THEN [held |-> From(st.held, place + Len(CLOSE)), inside |-> FALSE, out |-> st.out]
    ELSE [held |-> From(st.held, place + Len(OPEN)), inside |-> TRUE,
          out |-> st.out \o SubSeq(st.held, 1, place - 1)]

Loop[st \in States] ==
    LET place == Find(Sought(st), st.held)
    IN  IF st.held = <<>> THEN st
        ELSE IF place = 0 THEN KeepBack(st) ELSE Loop[Pass(st, place)]

Drain(start) == Loop[start]

\* A chunk with content arrives: feed, emit, keep.
Feed(chunk) ==
    /\ ~ended /\ Len(text) + Len(chunk) <= MaxText
    /\ text' = text \o chunk
    /\ LET st == Drain([held |-> held \o chunk, inside |-> inside, out |-> <<>>])
       IN  held' = st.held /\ inside' = st.inside /\ shown' = shown \o st.out
    /\ UNCHANGED ended

\* The stream ends: what is held back was no tag, or is a block never closed.
Flush ==
    /\ ~ended
    /\ ended' = TRUE
    /\ shown' = IF inside THEN shown ELSE shown \o held
    /\ held' = <<>>
    /\ UNCHANGED <<inside, text>>

-----------------------------------------------------------------------------
Chunks == UNION {[1..n -> Alphabet] : n \in 1..MaxChunk}

FilterNext == (\E chunk \in Chunks : Feed(chunk)) \/ Flush

FilterSpec == FilterInit /\ [][FilterNext]_filterVars

-----------------------------------------------------------------------------
(* Reference: the text without its blocks, a block going from the first opening
   tag to the first closing tag after it, or to the end. *)
Visible[s \in Seq(Alphabet)] ==
    LET inicio == Find(OPEN, s)
        block == From(s, inicio + Len(OPEN))
        fim == Find(CLOSE, block)
    IN  IF inicio = 0 THEN s
        ELSE SubSeq(s, 1, inicio - 1)
             \o (IF fim = 0 THEN <<>> ELSE Visible[From(block, fim + Len(CLOSE))])

(* However the answer is cut into chunks: what was shown and what is held back
   are the answer without its scratchpads so far, and no more is held back than
   could still turn out to be a tag. *)
StripsAnyChunking ==
    /\ shown \o (IF inside THEN <<>> ELSE held) = Visible[text]
    /\ (~ended /\ inside) => Len(held) < Len(CLOSE)
    /\ (~ended /\ ~inside) => \E n \in 0..Len(OPEN) - 1 : held = SubSeq(OPEN, 1, n)
=============================================================================
