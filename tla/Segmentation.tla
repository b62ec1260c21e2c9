---------------------------- MODULE Segmentation ----------------------------
(***************************************************************************)
(* How a long recording is cut into segments and their transcripts are put *)
(* together again: cuts are looked for in the silences around a target     *)
(* length, the pieces overlap, and the merger keeps of each piece what     *)
(* starts in its own part.                                                 *)
(*                                                                         *)
(* One turn of plan_segments is one step.  A sentence is the time at which *)
(* it starts, and a piece hears it at that time if the piece covers it.    *)
(***************************************************************************)
EXTENDS Integers, Sequences, FiniteSets, FiniteSetsExt, SequencesExt

CONSTANTS
    MinLength, TargetLength, MaxLength,  \* settings.segment_*_duration_sec
    Overlap, SearchStep, Rounds,         \* segment_overlap_ms, _search_step_sec, _search_max_rounds
    LongSilence, ShortSilence,           \* segment_silence_min_duration, _fallback_silence_sec
    Lengths, Silences                    \* recordings, and the silences one may have

ASSUME SegmentationAssumption ==
    /\ {MinLength, TargetLength, MaxLength, SearchStep, Rounds, LongSilence, ShortSilence} \subseteq Nat \ {0}
    /\ MinLength <= TargetLength /\ TargetLength <= MaxLength
    /\ Overlap \in Nat
    /\ Lengths \subseteq Nat \ {0}
    /\ Silences \subseteq [from: Nat, to: Nat \cup {-1}]   \* an open silence ends at -1

VARIABLES
    doing,        \* "none", "cutting", "split", "merged"
    total, quiet, \* the recording's length and silences
    cuts, pos,    \* cut_points, and the last of them
    sentences,    \* when the speech's sentences start
    text, exact   \* the merged transcript, and merge_status = OK

segmentationVars == <<doing, total, quiet, cuts, pos, sentences, text, exact>>

SegmentationInit ==
    /\ doing = "none" /\ total = 0 /\ quiet = {} /\ cuts = << >> /\ pos = 0
    /\ sentences = {} /\ text = << >> /\ exact = TRUE

Recording ==
    /\ doing = "none"
    /\ total' \in Lengths
    /\ quiet' \in {q \in SUBSET Silences : Cardinality(q) <= 2}
    /\ doing' = "cutting"
    /\ UNCHANGED <<cuts, pos, sentences, text, exact>>

-----------------------------------------------------------------------------
(* _find_best_cut. *)

Middle(q)   == (q.from + q.to) \div 2
Length(q)   == q.to - q.from
Floor       == pos + MinLength
Ceiling     == pos + MaxLength

(* The windows go forward and backward of the target in turn. *)
Window(r) ==
    LET k == r \div 2 IN
    IF r % 2 = 0
    THEN LET lo == pos + TargetLength + k * SearchStep IN <<lo, Min({lo + SearchStep, Ceiling})>>
    ELSE LET hi == pos + TargetLength - k * SearchStep IN <<Max({hi - SearchStep, Floor}), hi>>

WideWindow == <<Max({pos + TargetLength - (Rounds \div 2) * SearchStep, Floor}), Ceiling>>

(* Mutant: the windows are not clamped to the shortest and longest piece. *)
AnySilence(w, least) == {q \in quiet : Length(q) >= least /\ Middle(q) <= w[2]}

SilencesIn(w, least) == {q \in quiet : w[1] <= Middle(q) /\ Middle(q) <= w[2] /\ Length(q) >= least}

(* The first of the longest (one at most). *)
Longest(Q) == {q \in Q : \A p \in Q : Length(q) > Length(p) \/ (Length(q) = Length(p) /\ q.from <= p.from)}

RoundsWithCut == {r \in 0 .. Rounds - 1 :
                    Window(r)[1] < Window(r)[2] /\ SilencesIn(Window(r), LongSilence) # {}}
FirstRound    == {r \in RoundsWithCut : \A k \in RoundsWithCut : r <= k}

(* The cut _find_best_cut returns, as a set of one. *)
BestCut ==
    CASE RoundsWithCut # {} ->
            {Middle(q) : q \in UNION {Longest(SilencesIn(Window(r), LongSilence)) : r \in FirstRound}}
      [] RoundsWithCut = {} /\ SilencesIn(WideWindow, ShortSilence) # {} ->
            {Middle(q) : q \in Longest(SilencesIn(WideWindow, ShortSilence))}
      [] OTHER -> {Ceiling}

(* A short rest is left to the last piece. *)
Cut ==
    /\ doing = "cutting"
    /\ total - pos > MaxLength
    /\ \E cut \in BestCut : /\ total - cut >= MinLength
                           /\ cuts' = Append(cuts, cut) /\ pos' = cut
    /\ UNCHANGED <<doing, total, quiet, sentences, text, exact>>

Split ==
    /\ doing = "cutting"
    /\ total - pos <= MaxLength \/ \E cut \in BestCut : total - cut < MinLength
    /\ doing' = "split"
    /\ UNCHANGED <<total, quiet, cuts, pos, sentences, text, exact>>

-----------------------------------------------------------------------------
(* The pieces, and merge_segment_results. *)

Bounds   == <<0>> \o cuts \o <<total>>
Pieces   == 1 .. Len(Bounds) - 1
Keep(p)  == Bounds[p] .. Bounds[p + 1] - 1
Source(p) == Max({0, Bounds[p] - Overlap}) .. Min({total, Bounds[p + 1] + Overlap}) - 1

Sorted(S) == CHOOSE s \in SetToSeqs(S) : IsSorted(s, <)
Heard(p)  == sentences' \cap Source(p)

(* Mutant: what a piece hears in its overlap is kept. *)
KeepAll(p, timed) == Heard(p)

(* Without timestamps the whole text of a piece is taken. *)
Kept(p, timed) == IF timed THEN Heard(p) \cap Keep(p) ELSE Heard(p)

Merge ==
    /\ doing = "split"
    /\ \E a, b \in 0 .. total - 1 : sentences' = {a, b}
    /\ \E timed \in [Pieces -> BOOLEAN] :
         /\ text' = FlattenSeq([p \in Pieces |-> Sorted(Kept(p, timed[p]))])
         /\ exact' = \A p \in Pieces : timed[p] \/ Heard(p) = {}
    /\ doing' = "merged"
    /\ UNCHANGED <<total, quiet, cuts, pos>>

SegmentationNext == Recording \/ Cut \/ Split \/ Merge
SegmentationSpec == SegmentationInit /\ [][SegmentationNext]_segmentationVars

-----------------------------------------------------------------------------
(* Properties. *)

(* Every piece but the last is between the least and the greatest length,   *)
(* and the last is shorter than both together: so the search ends, whatever *)
(* silences there are, and no segment outlasts the recognizer's time.       *)
PiecesBounded ==
    /\ \A k \in 1 .. Len(cuts) :
         Bounds[k + 1] - Bounds[k] \in MinLength .. MaxLength
    /\ cuts # << >> => pos = cuts[Len(cuts)] /\ total - pos >= MinLength
    /\ doing \in {"split", "merged"} => total - pos < MaxLength + MinLength

(* _filter_and_offset: a merged transcript whose status is OK has every       *)
(* sentence once and in order, though neighbours hear their overlap twice, and *)
(* one with a piece without timestamps loses none.                             *)
SentencesOnce ==
    doing = "merged" => /\ exact => text = Sorted(sentences)
                        /\ ToSet(text) = sentences

=============================================================================
