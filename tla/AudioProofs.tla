------------------------------ MODULE AudioProofs ------------------------------
(***************************************************************************)
(* What TLAPS proves of the way of the audio, from the file to segments in *)
(* the queue: that no call is given half a file, that a recording is cut   *)
(* into pieces of the lengths that are set, and that a long one is queued  *)
(* only as segments; for all tasks, recordings, silences and settings, and *)
(* any number of calls, runners and crashes.                               *)
(***************************************************************************)
EXTENDS Conversion, Segmentation, Preprocessing, FiniteLemmas, SequenceTheorems

-----------------------------------------------------------------------------
(* Conversion.  The file at its place was whole when it was moved there, since *)
(* only ffmpeg's success leads to the move.                                   *)

(* A lock's number is of no matter. *)
CallsShaped ==
    /\ call = [c \in Request |-> [pc |-> call[c].pc, lock |-> call[c].lock]]
    /\ \A c \in Request : call[c].pc \in {"unasked", "wait", "look", "ffmpeg", "move", "found", "failed"}

(* What a call has written follows from where it stands. *)
ConversionInv ==
    /\ temp \in [Request -> {"none", "part", "whole"}]
    /\ CallsShaped
    /\ audio \in {"none", "whole"}
    /\ \A c \in Request : /\ call[c].pc = "move" => temp[c] = "whole"
                          /\ call[c].pc \notin {"ffmpeg", "move"} => temp[c] = "none"
                          /\ call[c].pc = "found" => audio = "whole"

LEMMA StepFrom == \A c, from, to : Step(c, from, to) => call[c].pc = from
  BY DEF Step

(* A call that goes on writes under its own name only. *)
LEMMA StepKeeps ==
    ASSUME ConversionInv, NEW c \in Request, NEW from, NEW to, Step(c, from, to),
           to \in {"look", "ffmpeg", "move", "found", "failed"},
           temp' \in [Request -> {"none", "part", "whole"}], audio' \in {"none", "whole"},
           audio = "whole" => audio' = "whole",
           \A d \in Request : d # c => temp'[d] = temp[d],
           to = "move" => temp'[c] = "whole",
           to \notin {"ffmpeg", "move"} => temp'[c] = "none",
           to = "found" => audio' = "whole"
    PROVE  ConversionInv'
<1>1. PICK l : call' = [call EXCEPT ![c] = [pc |-> to, lock |-> l]]
  BY DEF Step
<1>2. CallsShaped' /\ call'[c].pc = to /\ \A d \in Request : d # c => call'[d] = call[d]
  BY <1>1 DEF ConversionInv, CallsShaped
<1> QED
  BY <1>2 DEF ConversionInv

LEMMA InitConversion == ConversionInit => ConversionInv
  BY DEF ConversionInit, ConversionInv, CallsShaped, Unasked

LEMMA NextConversion == ConversionInv /\ [ConversionNext]_conversionVars => ConversionInv'
<1> SUFFICES ASSUME ConversionInv, [ConversionNext]_conversionVars PROVE ConversionInv'
  OBVIOUS
<1>1. CASE DropLock
  BY <1>1 DEF DropLock, CallsShaped, ConversionInv
<1>2. CASE ProcessExits
  BY <1>2 DEF ProcessExits, Unasked, CallsShaped, ConversionInv
<1>3. ASSUME NEW c \in Request, AskForRecording(c) PROVE ConversionInv'
  <2>1. PICK l : call' = [call EXCEPT ![c] = [pc |-> "wait", lock |-> l]]
    BY <1>3 DEF AskForRecording
  <2> QED
    BY <1>3, <2>1 DEF AskForRecording, CallsShaped, ConversionInv
<1>4. ASSUME NEW c \in Request, AskForPiece(c) PROVE ConversionInv'
  BY <1>4, StepKeeps, StepFrom DEF AskForPiece, ConversionInv
<1>5. ASSUME NEW c \in Request, TakeLock(c) PROVE ConversionInv'
  BY <1>5, StepKeeps, StepFrom DEF TakeLock, ConversionInv
<1>6. ASSUME NEW c \in Request, FindFile(c) PROVE ConversionInv'
  BY <1>6, StepKeeps, StepFrom DEF FindFile, ConversionInv
<1>7. ASSUME NEW c \in Request, BeginConvert(c) PROVE ConversionInv'
  BY <1>7, StepKeeps, StepFrom DEF BeginConvert, ConversionInv
<1>8. ASSUME NEW c \in Request, FfmpegSucceeds(c) PROVE ConversionInv'
  BY <1>8, StepKeeps, StepFrom DEF FfmpegSucceeds, ConversionInv
<1>9. ASSUME NEW c \in Request, FfmpegFails(c) PROVE ConversionInv'
  BY <1>9, StepKeeps, StepFrom DEF FfmpegFails, ConversionInv
<1>10. ASSUME NEW c \in Request, MoveFile(c) PROVE ConversionInv'
  BY <1>10, StepKeeps, StepFrom DEF MoveFile, ConversionInv
<1>11. CASE UNCHANGED conversionVars
  BY <1>11 DEF conversionVars, CallsShaped, ConversionInv
<1> QED
  BY <1>1, <1>2, <1>3, <1>4, <1>5, <1>6, <1>7, <1>8, <1>9, <1>10, <1>11 DEF ConversionNext

(* ensure_wav, ensure_canonical_wav and split_wav_segments: what they return  *)
(* is a whole file, whatever becomes of the lock, of ffmpeg, of the other     *)
(* calls and of the process.                                                  *)
THEOREM WholeAlways == ConversionSpec => []FilesWhole
<1>1. ConversionInv => FilesWhole
  BY DEF ConversionInv, FilesWhole
<1> QED
  BY <1>1, InitConversion, NextConversion, PTL DEF ConversionSpec

-----------------------------------------------------------------------------
(* Segmentation.  A cut lies between the shortest and the longest piece from *)
(* the one before, in whichever window it is found.                         *)

LEMMA MinOfTwo ==
    ASSUME NEW a \in Int, NEW b \in Int
    PROVE  Min({a, b}) \in Int /\ Min({a, b}) <= a /\ Min({a, b}) <= b
<1>1. \E x \in {a, b} : \A y \in {a, b} : x <= y
  <2>1. CASE a <= b
    BY <2>1
  <2>2. CASE b <= a
    BY <2>2
  <2> QED
    BY <2>1, <2>2
<1> QED
  BY <1>1 DEF Min

LEMMA MaxOfTwo ==
    ASSUME NEW a \in Int, NEW b \in Int
    PROVE  Max({a, b}) \in Int /\ Max({a, b}) >= a /\ Max({a, b}) >= b
<1>1. \E x \in {a, b} : \A y \in {a, b} : x >= y
  <2>1. CASE a >= b
    BY <2>1
  <2>2. CASE b >= a
    BY <2>2
  <2> QED
    BY <2>1, <2>2
<1> QED
  BY <1>1 DEF Max

LEMMA ProductNat == \A a, b \in Nat : a * b \in Nat
  OBVIOUS

-----------------------------------------------------------------------------
CutsTypeOK ==
    /\ doing \in {"none", "cutting", "split", "merged"}
    /\ total \in Nat /\ pos \in Nat /\ cuts \in Seq(Nat)
    /\ quiet \subseteq Silences

Previous(k) == IF k = 1 THEN 0 ELSE cuts[k - 1]

CutsInv ==
    /\ CutsTypeOK
    /\ \A k \in 1 .. Len(cuts) : cuts[k] - Previous(k) \in MinLength .. MaxLength
    /\ pos = IF cuts = << >> THEN 0 ELSE cuts[Len(cuts)]
    /\ cuts # << >> => total - pos >= MinLength
    /\ doing \in {"split", "merged"} => total - pos < MaxLength + MinLength
    /\ doing = "none" => cuts = << >>

(* _find_best_cut keeps its windows between the two lengths. *)
LEMMA WindowsWithin ==
    ASSUME CutsTypeOK, NEW r \in 0 .. Rounds - 1
    PROVE  /\ Window(r)[1] \in Int /\ Window(r)[2] \in Int
           /\ Window(r)[1] < Window(r)[2] => Floor <= Window(r)[1] /\ Window(r)[2] <= Ceiling
<1> DEFINE k == r \div 2
<1>0. {MinLength, TargetLength, MaxLength, SearchStep, Rounds} \subseteq Nat
  BY SegmentationAssumption DEF SegmentationAssumption
<1>1. k \in Nat /\ k * SearchStep \in Nat
  BY <1>0, ProductNat
<1> DEFINE m == k * SearchStep
<1>2. m \in Nat /\ pos \in Nat
  BY <1>1 DEF CutsTypeOK
<1>3. CASE r % 2 = 0
  <2> DEFINE lo == pos + TargetLength + m
             hi == Min({lo + SearchStep, Ceiling})
  <2>1. Window(r) = <<lo, hi>>
    BY <1>3 DEF Window
  <2>2. lo \in Int /\ lo + SearchStep \in Int /\ Ceiling \in Int
    BY <1>0, <1>2 DEF Ceiling
  <2>3. hi \in Int /\ hi <= Ceiling
    BY <2>2, MinOfTwo
  <2>4. Floor <= lo
    BY <1>0, <1>2, SegmentationAssumption DEF Floor, SegmentationAssumption
  <2> QED
    BY <2>1, <2>2, <2>3, <2>4
<1>4. CASE r % 2 # 0
  <2> DEFINE hi == pos + TargetLength - m
             lo == Max({hi - SearchStep, Floor})
  <2>1. Window(r) = <<lo, hi>>
    BY <1>4 DEF Window
  <2>2. hi \in Int /\ hi - SearchStep \in Int /\ Floor \in Int
    BY <1>0, <1>2 DEF Floor
  <2>3. lo \in Int /\ Floor <= lo
    BY <2>2, MaxOfTwo
  <2>4. hi <= Ceiling
    BY <1>0, <1>2, SegmentationAssumption DEF Ceiling, SegmentationAssumption
  <2> QED
    BY <2>1, <2>2, <2>3, <2>4
<1> QED
  BY <1>3, <1>4

LEMMA WideWithin ==
    ASSUME CutsTypeOK
    PROVE  WideWindow[1] \in Int /\ Floor <= WideWindow[1] /\ WideWindow[2] = Ceiling /\ Ceiling \in Int
<1>0. /\ {MinLength, TargetLength, MaxLength, SearchStep, Rounds} \subseteq Nat
      /\ pos \in Nat
  BY SegmentationAssumption DEF SegmentationAssumption, CutsTypeOK
<1> DEFINE m == (Rounds \div 2) * SearchStep
<1>1. Rounds \div 2 \in Nat /\ m \in Nat
  BY <1>0, ProductNat
<1> DEFINE lo == pos + TargetLength - m
<1>2. lo \in Int /\ Floor \in Int /\ Ceiling \in Int
  BY <1>0, <1>1 DEF Floor, Ceiling
<1>3. Max({lo, Floor}) \in Int /\ Floor <= Max({lo, Floor})
  BY <1>2, MaxOfTwo
<1>4. WideWindow = <<Max({lo, Floor}), Ceiling>>
  BY DEF WideWindow
<1> QED
  BY <1>2, <1>3, <1>4

LEMMA MiddleInt == \A q \in Silences : Middle(q) \in Int
  BY SegmentationAssumption DEF SegmentationAssumption, Middle

(* The cut is one of a piece neither too short nor too long. *)
LEMMA BestCutWithin ==
    ASSUME CutsTypeOK, NEW cut \in BestCut
    PROVE  cut \in Int /\ Floor <= cut /\ cut <= Ceiling
<1>0. /\ {MinLength, TargetLength, MaxLength} \subseteq Nat /\ MinLength <= MaxLength
      /\ pos \in Nat /\ Floor \in Int /\ Ceiling \in Int /\ Floor <= Ceiling
  BY SegmentationAssumption DEF SegmentationAssumption, CutsTypeOK, Floor, Ceiling
<1>1. CASE RoundsWithCut # {}
  <2>1. PICK r \in FirstRound : \E q \in Longest(SilencesIn(Window(r), LongSilence)) : cut = Middle(q)
    BY <1>1 DEF BestCut
  <2>2. PICK q \in Longest(SilencesIn(Window(r), LongSilence)) : cut = Middle(q)
    BY <2>1
  <2>3. r \in 0 .. Rounds - 1 /\ Window(r)[1] < Window(r)[2]
    BY <2>1 DEF FirstRound, RoundsWithCut
  <2>4. q \in quiet /\ Window(r)[1] <= Middle(q) /\ Middle(q) <= Window(r)[2]
    BY <2>2 DEF Longest, SilencesIn
  <2>5. Middle(q) \in Int
    BY <2>4, MiddleInt DEF CutsTypeOK
  <2> QED
    BY <1>0, <2>2, <2>3, <2>4, <2>5, WindowsWithin
<1>2. CASE RoundsWithCut = {} /\ SilencesIn(WideWindow, ShortSilence) # {}
  <2>1. PICK q \in Longest(SilencesIn(WideWindow, ShortSilence)) : cut = Middle(q)
    BY <1>2 DEF BestCut
  <2>2. q \in quiet /\ WideWindow[1] <= Middle(q) /\ Middle(q) <= WideWindow[2]
    BY <2>1 DEF Longest, SilencesIn
  <2>3. Middle(q) \in Int
    BY <2>2, MiddleInt DEF CutsTypeOK
  <2> QED
    BY <1>0, <2>1, <2>2, <2>3, WideWithin
<1>3. CASE RoundsWithCut = {} /\ SilencesIn(WideWindow, ShortSilence) = {}
  BY <1>0, <1>3 DEF BestCut
<1> QED
  BY <1>1, <1>2, <1>3

-----------------------------------------------------------------------------
LEMMA InitCuts == SegmentationInit => CutsInv
  BY DEF SegmentationInit, CutsInv, CutsTypeOK

LEMMA NextCuts == CutsInv /\ [SegmentationNext]_segmentationVars => CutsInv'
<1> SUFFICES ASSUME CutsInv, [SegmentationNext]_segmentationVars PROVE CutsInv'
  OBVIOUS
<1>0. /\ CutsTypeOK /\ {MinLength, MaxLength} \subseteq Nat \ {0}
      /\ Lengths \subseteq Nat
  BY SegmentationAssumption DEF SegmentationAssumption, CutsInv
<1>1. CASE Recording
  <2>1. quiet' \subseteq Silences /\ total' \in Nat
    BY <1>0, <1>1 DEF Recording
  <2> QED
    BY <1>0, <1>1, <2>1 DEF Recording, CutsInv, CutsTypeOK, Previous
<1>2. CASE Cut
  <2>1. PICK cut \in BestCut : total - cut >= MinLength /\ cuts' = Append(cuts, cut) /\ pos' = cut
    BY <1>2 DEF Cut
  <2>2. cut \in Int /\ pos + MinLength <= cut /\ cut <= pos + MaxLength
    BY <1>0, <2>1, BestCutWithin DEF Floor, Ceiling
  <2>3. cut \in Nat
    BY <1>0, <2>2 DEF CutsTypeOK
  <2>4. CutsTypeOK'
    BY <1>0, <1>2, <2>1, <2>3 DEF Cut, CutsTypeOK
  <2>5. Len(cuts') = Len(cuts) + 1 /\ cuts' # << >> /\ cuts'[Len(cuts')] = cut
        /\ \A k \in 1 .. Len(cuts) : cuts'[k] = cuts[k]
    BY <1>0, <2>1, <2>3 DEF CutsTypeOK
  <2>6. ASSUME NEW k \in 1 .. Len(cuts') PROVE cuts'[k] - Previous(k)' \in MinLength .. MaxLength
    <3>1. CASE k = Len(cuts')
      <4>1. Previous(k)' = pos
        <5>1. CASE cuts = << >>
          BY <2>5, <3>1, <5>1 DEF Previous, CutsInv
        <5>2. CASE cuts # << >>
          <6>1. Len(cuts) \in 1 .. Len(cuts) /\ k # 1 /\ k - 1 = Len(cuts)
            BY <1>0, <2>5, <3>1, <5>2 DEF CutsTypeOK
          <6> QED
            BY <2>5, <5>2, <6>1 DEF Previous, CutsInv
        <5> QED
          BY <5>1, <5>2
      <4> QED
        BY <1>0, <2>2, <2>5, <3>1, <4>1 DEF CutsTypeOK
    <3>2. CASE k # Len(cuts')
      <4>1. k \in 1 .. Len(cuts) /\ cuts'[k] = cuts[k] /\ Previous(k)' = Previous(k)
        BY <1>0, <2>5, <3>2 DEF Previous, CutsTypeOK
      <4> QED
        BY <4>1 DEF CutsInv
    <3> QED
      BY <3>1, <3>2
  <2> QED
    BY <1>0, <1>2, <2>1, <2>4, <2>5, <2>6 DEF Cut, CutsInv, CutsTypeOK
<1>3. CASE Split
  <2>1. total - pos < MaxLength + MinLength
    <3>1. CASE total - pos <= MaxLength
      BY <1>0, <3>1 DEF CutsTypeOK
    <3>2. ASSUME NEW cut \in BestCut, total - cut < MinLength PROVE total - pos < MaxLength + MinLength
      <4>1. cut \in Int /\ cut <= pos + MaxLength
        BY <1>0, <3>2, BestCutWithin DEF Ceiling
      <4> QED
        BY <1>0, <3>2, <4>1 DEF CutsTypeOK
    <3> QED
      BY <1>3, <3>1, <3>2 DEF Split
  <2> QED
    BY <1>0, <1>3, <2>1 DEF Split, CutsInv, CutsTypeOK, Previous
<1>4. CASE Merge
  BY <1>0, <1>4 DEF Merge, CutsInv, CutsTypeOK, Previous
<1>5. CASE UNCHANGED segmentationVars
  BY <1>0, <1>5 DEF segmentationVars, CutsInv, CutsTypeOK, Previous
<1> QED
  BY <1>1, <1>2, <1>3, <1>4, <1>5 DEF SegmentationNext

(* plan_segments: whatever the recording and its silences, every piece but   *)
(* the last is between the least and the greatest length, and the last is    *)
(* shorter than both together.                                               *)
THEOREM PiecesAlways == SegmentationSpec => []PiecesBounded
<1>1. CutsInv => PiecesBounded
  <2> SUFFICES ASSUME CutsInv PROVE PiecesBounded
    OBVIOUS
  <2>1. cuts \in Seq(Nat) /\ total \in Nat
    BY DEF CutsInv, CutsTypeOK
  <2>2. ASSUME NEW k \in 1 .. Len(cuts) PROVE Bounds[k + 1] = cuts[k] /\ Bounds[k] = Previous(k)
    BY <2>1 DEF Bounds, Previous
  <2>3. \A k \in 1 .. Len(cuts) : Bounds[k + 1] - Bounds[k] \in MinLength .. MaxLength
    BY <2>2 DEF CutsInv
  <2> QED
    BY <2>3 DEF PiecesBounded, CutsInv
<1> QED
  BY <1>1, InitCuts, NextCuts, PTL DEF SegmentationSpec

-----------------------------------------------------------------------------
(* Segmentation: the transcripts of the pieces are put together. *)

Increasing(s) == s \in Seq(Nat) /\ \A i, j \in DOMAIN s : i < j => s[i] < s[j]

LEMMA SeqIs ==
    ASSUME NEW s \in Seq(Nat)
    PROVE  /\ Len(s) \in Nat /\ DOMAIN s = 1 .. Len(s) /\ \A i \in 1 .. Len(s) : s[i] \in Nat
           /\ ToSet(s) = {s[i] : i \in 1 .. Len(s)} /\ ToSet(s) \subseteq Nat
  BY DEF ToSet

(* In an increasing sequence the members stand at their ranks. *)
LEMMA RankInOrder ==
    ASSUME NEW s, Increasing(s)
    PROVE  /\ IsFiniteSet(ToSet(s)) /\ Cardinality(ToSet(s)) = Len(s)
           /\ \A i \in 1 .. Len(s) : Cardinality(Below(ToSet(s), s[i])) = i - 1
<1> DEFINE n == Len(s)
           S == ToSet(s)
<1>1. /\ n \in Nat /\ DOMAIN s = 1 .. n /\ \A i \in 1 .. n : s[i] \in Nat
      /\ S = {s[i] : i \in 1 .. n}
  BY SeqIs DEF Increasing
<1>2. \A i, j \in 1 .. n : i < j => s[i] < s[j]
  BY <1>1 DEF Increasing
<1>3. \A i, j \in 1 .. n : s[i] = s[j] => i = j
  <2> SUFFICES ASSUME NEW i \in 1 .. n, NEW j \in 1 .. n, i # j PROVE s[i] # s[j]
    OBVIOUS
  <2>1. i < j \/ j < i
    BY <1>1
  <2>2. s[i] \in Nat /\ s[j] \in Nat /\ (s[i] < s[j] \/ s[j] < s[i])
    BY <1>1, <1>2, <2>1
  <2> QED
    BY <2>2
<1> HIDE DEF n, S
<1>4. IsFiniteSet(S) /\ Cardinality(S) = n
  <2> DEFINE a == 1
             f == [i \in 1 .. n |-> s[i]]
  <2>1. a \in Int /\ n \in Int /\ f \in [a .. n -> S] /\ (\A i, j \in a .. n : f[i] = f[j] => i = j)
        /\ \A x \in S : \E i \in a .. n : f[i] = x
    BY <1>1, <1>3
  <2>2. IsFiniteSet(S) /\ Cardinality(S) = IF a > n THEN 0 ELSE n - a + 1
    <3> HIDE DEF a, f
    <3> QED
      BY <2>1, Listed
  <2> QED
    BY <1>1, <2>2
<1>5. ASSUME NEW i \in 1 .. n PROVE Cardinality(Below(S, s[i])) = i - 1
  <2> DEFINE a == 1
             b == i - 1
             T == Below(S, s[i])
             f == [k \in 1 .. b |-> s[k]]
  <2>1. T = {s[k] : k \in 1 .. b}
    <3>1. ASSUME NEW k \in 1 .. n PROVE s[k] < s[i] <=> k < i
      <4>1. k < i \/ k = i \/ i < k
        BY <1>1
      <4>2. s[k] \in Nat /\ s[i] \in Nat
        BY <1>1
      <4> QED
        BY <1>2, <4>1, <4>2
    <3> QED
      BY <1>1, <3>1 DEF Below
  <2>2. a \in Int /\ b \in Int /\ f \in [a .. b -> T] /\ (\A k, l \in a .. b : f[k] = f[l] => k = l)
        /\ \A x \in T : \E k \in a .. b : f[k] = x
    BY <1>1, <1>3, <2>1
  <2>3. Cardinality(T) = IF a > b THEN 0 ELSE b - a + 1
    <3> HIDE DEF a, b, f, T
    <3> QED
      BY <2>2, Listed
  <2> QED
    BY <1>1, <2>3
<1> QED
  BY <1>4, <1>5 DEF n, S

(* There is one increasing sequence of given members. *)
LEMMA OneOrder ==
    ASSUME NEW s, NEW t, Increasing(s), Increasing(t), ToSet(s) = ToSet(t)
    PROVE  s = t
<1> DEFINE S == ToSet(s)
<1>1. IsFiniteSet(S) /\ S \in SUBSET Nat /\ Len(s) = Len(t)
  BY RankInOrder, SeqIs DEF Increasing
<1>2. ASSUME NEW i \in 1 .. Len(s) PROVE s[i] = t[i]
  <2>1. s[i] \in S /\ t[i] \in S
    BY <1>1, SeqIs DEF Increasing
  <2>2. Cardinality(Below(S, s[i])) = Cardinality(Below(S, t[i]))
    BY <1>1, RankInOrder
  <2> HIDE DEF S
  <2>3. \A k, l \in S : Cardinality(Below(S, k)) = Cardinality(Below(S, l)) => k = l
    BY <1>1, RanksTaken
  <2> QED
    BY <2>1, <2>2, <2>3
<1> QED
  BY <1>1, <1>2 DEF Increasing

(* Sorted gives every member of a finite set of numbers once, in order. *)
LEMMA SortedIs ==
    ASSUME NEW S \in SUBSET Nat, IsFiniteSet(S)
    PROVE  Increasing(Sorted(S)) /\ ToSet(Sorted(S)) = S
<1> DEFINE n == Cardinality(S)
           at == [i \in 1 .. n |-> CHOOSE k \in S : Cardinality(Below(S, k)) = i - 1]
<1>1. n \in Nat /\ \A k \in S : Cardinality(Below(S, k)) \in 0 .. n - 1
  BY Ranks
<1>2. ASSUME NEW i \in 1 .. n PROVE at[i] \in S /\ Cardinality(Below(S, at[i])) = i - 1
  <2>1. i - 1 \in 0 .. n - 1
    BY <1>1
  <2>2. \E k \in S : Cardinality(Below(S, k)) = i - 1
    BY <2>1, RanksTaken
  <2> QED
    BY <2>2
<1> HIDE DEF at
<1>3. ASSUME NEW i \in 1 .. n, NEW j \in 1 .. n, i < j PROVE at[i] < at[j]
  <2>1. at[i] \in Nat /\ at[j] \in Nat
    BY <1>2
  <2>2. ~ (at[j] < at[i])
    <3> SUFFICES ASSUME at[j] < at[i] PROVE FALSE
      OBVIOUS
    <3>1. Cardinality(Below(S, at[j])) < Cardinality(Below(S, at[i]))
      BY <1>2, Ranks
    <3>2. j - 1 < i - 1
      BY <1>2, <3>1
    <3> QED
      BY <1>3, <3>2
  <2>3. at[i] # at[j]
    <3> SUFFICES ASSUME at[i] = at[j] PROVE FALSE
      OBVIOUS
    <3>1. i - 1 = j - 1
      BY <1>2
    <3> QED
      BY <1>3, <3>1
  <2> QED
    BY <2>1, <2>2, <2>3
<1>4. at \in [1 .. n -> S] /\ \A i, j \in 1 .. n : i # j => at[i] # at[j]
  <2>1. at \in [1 .. n -> S]
    BY <1>2 DEF at
  <2> SUFFICES ASSUME NEW i \in 1 .. n, NEW j \in 1 .. n, i # j PROVE at[i] # at[j]
    BY <2>1
  <2>2. i < j \/ j < i
    OBVIOUS
  <2>3. at[i] \in Nat /\ at[j] \in Nat /\ (at[i] < at[j] \/ at[j] < at[i])
    BY <1>2, <1>3, <2>2
  <2> QED
    BY <2>3
<1>5. at \in SetToSeqs(S) /\ IsSorted(at, <)
  <2>1. Len(at) = n
    <3> HIDE DEF n
    <3> QED
      BY <1>1, <1>4
  <2>2. at \in SetToSeqs(S)
    BY <1>4 DEF SetToSeqs
  <2> QED
    BY <1>3, <2>1, <2>2 DEF IsSorted
<1> DEFINE s == Sorted(S)
<1>6. s \in SetToSeqs(S) /\ IsSorted(s, <)
  BY <1>5 DEF Sorted
<1> HIDE DEF s
<1>7. s \in [1 .. n -> S] /\ DOMAIN s = 1 .. n /\ \A i, j \in 1 .. n : i # j => s[i] # s[j]
  BY <1>6 DEF SetToSeqs
<1>8. s \in Seq(Nat)
  <2> HIDE DEF n
  <2>1. s \in [1 .. n -> Nat]
    BY <1>7
  <2> QED
    BY <1>1, <2>1
<1>9. Increasing(s)
  BY <1>6, <1>8 DEF Increasing, IsSorted
<1>10. ToSet(s) \in SUBSET S /\ Len(s) = n
  BY <1>1, <1>7 DEF ToSet
<1>11. Cardinality(ToSet(s)) = n
  BY <1>9, <1>10, RankInOrder
<1>12. ToSet(s) = S
  BY <1>10, <1>11, FS_Subset
<1> QED
  BY <1>9, <1>12 DEF s

-----------------------------------------------------------------------------
(* FlattenSeq, unfolded. *)

IsFlat(seqs, m, g) == g = [i \in 1 .. m |-> IF i = 1 THEN seqs[i] ELSE g[i - 1] \o seqs[i]]

LEMMA FlattenIs ==
    \A seqs : FlattenSeq(seqs) = IF Len(seqs) = 0 THEN seqs ELSE (CHOOSE g : IsFlat(seqs, Len(seqs), g))[Len(seqs)]
  BY Zenon DEF FlattenSeq, IsFlat

LEMMA FlatExists ==
    ASSUME NEW seqs, NEW n \in Nat
    PROVE  \E g : IsFlat(seqs, n, g)
<1> DEFINE Bad == {m \in Nat : ~ \E g : IsFlat(seqs, m, g)}
<1> SUFFICES ASSUME Bad # {} PROVE FALSE
  OBVIOUS
<1> DEFINE m == Min(Bad)
<1>1. m \in Bad /\ \A k \in Bad : m <= k
  <2>1. Bad \in SUBSET Nat
    OBVIOUS
  <2> HIDE DEF Bad
  <2> QED
    BY <2>1, LeastNumber
<1> HIDE DEF m
<1>2. m # 0
  <2>1. IsFlat(seqs, 0, [i \in 1 .. 0 |-> 0])
    BY DEF IsFlat
  <2> QED
    BY <1>1, <2>1
<1>3. m - 1 \in Nat /\ m - 1 \notin Bad
  BY <1>1, <1>2
<1>4. PICK g : IsFlat(seqs, m - 1, g)
  BY <1>3
<1> DEFINE h == [i \in 1 .. m |-> IF i < m THEN g[i] ELSE IF i = 1 THEN seqs[i] ELSE g[i - 1] \o seqs[i]]
<1>5. IsFlat(seqs, m, h)
  <2>1. ASSUME NEW i \in 1 .. m PROVE h[i] = IF i = 1 THEN seqs[i] ELSE h[i - 1] \o seqs[i]
    <3>1. i # 1 => i - 1 \in 1 .. m /\ i - 1 < m /\ h[i - 1] = g[i - 1]
      BY <1>1
    <3>2. CASE i < m
      <4>1. i \in 1 .. m - 1 /\ h[i] = g[i]
        BY <1>1, <3>2
      <4>2. g[i] = IF i = 1 THEN seqs[i] ELSE g[i - 1] \o seqs[i]
        BY <1>4, <4>1 DEF IsFlat
      <4> HIDE DEF h
      <4> QED
        BY <3>1, <4>1, <4>2
    <3>3. CASE ~ (i < m)
      <4>1. h[i] = IF i = 1 THEN seqs[i] ELSE g[i - 1] \o seqs[i]
        BY <3>3
      <4> HIDE DEF h
      <4> QED
        BY <3>1, <4>1
    <3> QED
      BY <3>2, <3>3
  <2>2. h = [i \in 1 .. m |-> h[i]]
    OBVIOUS
  <2> HIDE DEF h
  <2> QED
    BY <2>1, <2>2 DEF IsFlat
<1> QED
  BY <1>1, <1>5

LEMMA FlatUnfolds ==
    ASSUME NEW seqs, NEW n \in Nat \ {0}, Len(seqs) = n
    PROVE  \E g : /\ FlattenSeq(seqs) = g[n]
                  /\ \A i \in 1 .. n : g[i] = IF i = 1 THEN seqs[i] ELSE g[i - 1] \o seqs[i]
<1> DEFINE g == CHOOSE h : IsFlat(seqs, n, h)
<1>1. IsFlat(seqs, n, g)
  BY FlatExists
<1>2. FlattenSeq(seqs) = g[n]
  BY FlattenIs
<1> HIDE DEF g
<1>3. \A i \in 1 .. n : g[i] = IF i = 1 THEN seqs[i] ELSE g[i - 1] \o seqs[i]
  <2> SUFFICES ASSUME NEW i \in 1 .. n PROVE g[i] = IF i = 1 THEN seqs[i] ELSE g[i - 1] \o seqs[i]
    OBVIOUS
  <2>1. g = [k \in 1 .. n |-> IF k = 1 THEN seqs[k] ELSE g[k - 1] \o seqs[k]]
    BY <1>1 DEF IsFlat
  <2> QED
    BY <2>1
<1> QED
  BY <1>2, <1>3

(* Two increasing sequences, one after the other. *)
LEMMA Joined ==
    ASSUME NEW s \in Seq(Nat), NEW t \in Seq(Nat)
    PROVE  /\ s \o t \in Seq(Nat) /\ ToSet(s \o t) = ToSet(s) \cup ToSet(t)
           /\ (Increasing(s) /\ Increasing(t) /\ \A x \in ToSet(s), y \in ToSet(t) : x < y) => Increasing(s \o t)
<1> DEFINE m == Len(s)
           n == Len(t)
           u == s \o t
<1>1. /\ m \in Nat /\ DOMAIN s = 1 .. m /\ n \in Nat /\ DOMAIN t = 1 .. n
      /\ ToSet(s) = {s[i] : i \in 1 .. m} /\ ToSet(t) = {t[i] : i \in 1 .. n}
  BY SeqIs
<1>2. /\ u \in Seq(Nat) /\ Len(u) = m + n /\ DOMAIN u = 1 .. m + n
      /\ \A i \in 1 .. m + n : u[i] = IF i <= m THEN s[i] ELSE t[i - m]
  OBVIOUS
<1>3. ToSet(u) = {u[i] : i \in 1 .. m + n}
  BY <1>2 DEF ToSet
<1> HIDE DEF u, m, n
<1>4. ASSUME NEW x PROVE x \in ToSet(u) <=> x \in ToSet(s) \/ x \in ToSet(t)
  <2>1. ASSUME NEW i \in 1 .. m + n PROVE u[i] \in ToSet(s) \/ u[i] \in ToSet(t)
    <3>1. i <= m => i \in 1 .. m
      BY <1>1
    <3>2. ~ (i <= m) => i - m \in 1 .. n
      BY <1>1
    <3> QED
      BY <1>1, <1>2, <3>1, <3>2
  <2>2. ASSUME NEW i \in 1 .. m PROVE s[i] \in ToSet(u)
    <3>1. i \in 1 .. m + n /\ i <= m
      BY <1>1
    <3> QED
      BY <1>2, <1>3, <3>1
  <2>3. ASSUME NEW i \in 1 .. n PROVE t[i] \in ToSet(u)
    <3> DEFINE k == i + m
    <3>1. k \in 1 .. m + n /\ ~ (k <= m) /\ k - m = i
      BY <1>1
    <3> HIDE DEF k
    <3>2. u[k] = t[i] /\ u[k] \in ToSet(u)
      BY <1>2, <1>3, <3>1
    <3> QED
      BY <3>2
  <2> QED
    BY <1>1, <1>3, <2>1, <2>2, <2>3
<1>5. ASSUME Increasing(s), Increasing(t), \A x \in ToSet(s), y \in ToSet(t) : x < y
      PROVE  Increasing(u)
  <2> SUFFICES ASSUME NEW i \in 1 .. m + n, NEW j \in 1 .. m + n, i < j PROVE u[i] < u[j]
    BY <1>2 DEF Increasing
  <2>1. CASE j <= m
    <3>1. i \in 1 .. m /\ j \in 1 .. m /\ i <= m
      BY <1>1, <2>1
    <3> QED
      BY <1>1, <1>2, <1>5, <2>1, <3>1 DEF Increasing
  <2>2. CASE ~ (j <= m) /\ i <= m
    <3>1. i \in 1 .. m /\ j - m \in 1 .. n
      BY <1>1, <2>2
    <3> QED
      BY <1>1, <1>2, <1>5, <2>2, <3>1
  <2>3. CASE ~ (i <= m)
    <3>1. i - m \in 1 .. n /\ j - m \in 1 .. n /\ i - m < j - m /\ ~ (j <= m)
      BY <1>1, <2>3
    <3> QED
      BY <1>1, <1>2, <1>5, <2>3, <3>1 DEF Increasing
  <2> QED
    BY <2>1, <2>2, <2>3
<1> QED
  BY <1>2, <1>4, <1>5 DEF u

(* What FlattenSeq does to sequences of numbers. *)
LEMMA Flattened ==
    ASSUME NEW n \in Nat \ {0}, NEW seqs \in [1 .. n -> Seq(Nat)]
    PROVE  LET flat == FlattenSeq(seqs)
               ordered == /\ \A p \in 1 .. n : Increasing(seqs[p])
                          /\ \A p, q \in 1 .. n : p < q => \A x \in ToSet(seqs[p]), y \in ToSet(seqs[q]) : x < y
           IN  /\ ToSet(flat) = UNION {ToSet(seqs[p]) : p \in 1 .. n}
               /\ ordered => Increasing(flat)
<1> DEFINE ordered == /\ \A p \in 1 .. n : Increasing(seqs[p])
                      /\ \A p, q \in 1 .. n : p < q => \A x \in ToSet(seqs[p]), y \in ToSet(seqs[q]) : x < y
<1>1. Len(seqs) = n
  OBVIOUS
<1>2. PICK g : /\ FlattenSeq(seqs) = g[n]
               /\ \A i \in 1 .. n : g[i] = IF i = 1 THEN seqs[i] ELSE g[i - 1] \o seqs[i]
  BY <1>1, FlatUnfolds
<1> DEFINE Right(i) == /\ g[i] \in Seq(Nat) /\ ToSet(g[i]) = UNION {ToSet(seqs[p]) : p \in 1 .. i}
                       /\ ordered => Increasing(g[i])
           Bad == {i \in 1 .. n : ~ Right(i)}
<1>3. Bad = {}
  <2> SUFFICES ASSUME Bad # {} PROVE FALSE
    OBVIOUS
  <2> DEFINE m == Min(Bad)
  <2>1. m \in Bad /\ \A k \in Bad : m <= k
    <3>1. Bad \in SUBSET Nat
      OBVIOUS
    <3> HIDE DEF Bad
    <3> QED
      BY <3>1, LeastNumber
  <2> HIDE DEF m
  <2>2. m \in 1 .. n /\ ~ Right(m)
    BY <2>1
  <2>3. m # 1
    <3>0. 1 \in 1 .. n
      OBVIOUS
    <3>1. g[1] = seqs[1] /\ 1 \in 1 .. n
      BY <1>2, <3>0
    <3>2. g[1] \in Seq(Nat) /\ (ordered => Increasing(g[1]))
      BY <3>1
    <3>3. ToSet(g[1]) = UNION {ToSet(seqs[p]) : p \in 1 .. 1}
      BY <3>1
    <3>4. Right(1)
      BY <3>2, <3>3
    <3> HIDE DEF Right
    <3> QED
      BY <2>2, <3>4
  <2> DEFINE k == m - 1
  <2>4. k \in 1 .. n /\ ~ (m <= k) /\ m = k + 1
    BY <2>2, <2>3
  <2>5. Right(k)
    BY <2>1, <2>4
  <2>6. g[m] = g[k] \o seqs[m] /\ seqs[m] \in Seq(Nat)
    BY <1>2, <2>2, <2>3
  <2>7. g[k] \in Seq(Nat) /\ ToSet(g[k]) = UNION {ToSet(seqs[p]) : p \in 1 .. k}
    BY <2>5
  <2>8. g[m] \in Seq(Nat) /\ ToSet(g[m]) = ToSet(g[k]) \cup ToSet(seqs[m])
    BY <2>6, <2>7, Joined
  <2>9. ToSet(g[m]) = UNION {ToSet(seqs[p]) : p \in 1 .. m}
    <3>1. \A p : p \in 1 .. m <=> p \in 1 .. k \/ p = m
      BY <2>2, <2>4
    <3> HIDE DEF k
    <3> QED
      BY <2>7, <2>8, <3>1
  <2>10. ASSUME ordered PROVE Increasing(g[m])
    <3>1. Increasing(g[k]) /\ Increasing(seqs[m])
      BY <2>2, <2>5, <2>10
    <3>2. ASSUME NEW x \in ToSet(g[k]), NEW y \in ToSet(seqs[m]) PROVE x < y
      <4>1. PICK p \in 1 .. k : x \in ToSet(seqs[p])
        BY <2>7
      <4>2. p \in 1 .. n /\ p < m
        BY <2>2, <2>4, <4>1
      <4> QED
        BY <2>2, <2>10, <4>1, <4>2
    <3> QED
      BY <2>6, <2>7, <3>1, <3>2, Joined
  <2> QED
    BY <2>2, <2>8, <2>9, <2>10
<1>4. Right(n)
  <2>1. n \in 1 .. n
    OBVIOUS
  <2> HIDE DEF Right
  <2> QED
    BY <1>3, <2>1
<1> QED
  BY <1>2, <1>4

-----------------------------------------------------------------------------
(* The pieces follow each other without a gap. *)

LEMMA BoundsAre ==
    ASSUME CutsInv, total > 0, doing = "split"
    PROVE  /\ Len(cuts) + 1 \in Nat \ {0} /\ Pieces = 1 .. Len(cuts) + 1
           /\ Bounds[1] = 0 /\ Bounds[Len(cuts) + 2] = total
           /\ \A p \in 1 .. Len(cuts) + 2 : Bounds[p] \in Nat
           /\ \A p \in Pieces : Bounds[p] <= Bounds[p + 1]
<1> DEFINE m == Len(cuts)
<1>1. m \in Nat /\ cuts \in Seq(Nat) /\ total \in Nat /\ {MinLength, MaxLength} \subseteq Nat \ {0}
  BY SegmentationAssumption DEF SegmentationAssumption, CutsInv, CutsTypeOK
<1>2. /\ Bounds \in Seq(Nat) /\ Len(Bounds) = m + 2 /\ Bounds[1] = 0 /\ Bounds[m + 2] = total
      /\ \A k \in 1 .. m : Bounds[k + 1] = cuts[k]
  BY <1>1 DEF Bounds
<1>3. Pieces = 1 .. m + 1
  BY <1>1, <1>2 DEF Pieces
<1>4. ASSUME NEW p \in 1 .. m + 1 PROVE Bounds[p] <= Bounds[p + 1]
  <2>1. CASE p = m + 1
    <3>1. CASE m = 0
      BY <1>1, <1>2, <2>1, <3>1
    <3>2. CASE m # 0
      <4>1. cuts # << >> /\ pos = cuts[m] /\ total - pos >= MinLength /\ m \in 1 .. m
        BY <1>1, <3>2 DEF CutsInv
      <4>2. Bounds[m + 1] = cuts[m] /\ cuts[m] \in Nat
        <5>1. \A k \in 1 .. m : Bounds[k + 1] = cuts[k]
          BY <1>2
        <5>2. \A k \in 1 .. m : cuts[k] \in Nat
          BY <1>1
        <5> HIDE DEF m
        <5> QED
          BY <4>1, <5>1, <5>2
      <4>3. p + 1 = m + 2
        BY <1>1, <2>1
      <4>4. Bounds[p] = pos /\ Bounds[p + 1] = total /\ pos \in Nat
        BY <1>2, <2>1, <4>1, <4>2, <4>3
      <4> QED
        BY <1>1, <4>1, <4>4
    <3> QED
      BY <3>1, <3>2
  <2>2. CASE p # m + 1
    <3>1. p \in 1 .. m
      BY <1>1, <2>2
    <3>2. Bounds[p + 1] = cuts[p] /\ Bounds[p] = Previous(p)
      <4>1. Bounds[p + 1] = cuts[p]
        BY <1>2, <3>1
      <4>2. CASE p = 1
        BY <1>2, <4>1, <4>2 DEF Previous
      <4>3. CASE p # 1
        <5> DEFINE k == p - 1
        <5>1. k \in 1 .. m /\ k + 1 = p
          BY <1>1, <3>1, <4>3
        <5>2. Previous(p) = cuts[k]
          BY <4>3 DEF Previous
        <5> HIDE DEF k
        <5>3. Bounds[k + 1] = cuts[k]
          BY <1>2, <5>1
        <5> QED
          BY <4>1, <5>1, <5>2, <5>3
      <4> QED
        BY <4>2, <4>3
    <3>3. cuts[p] - Previous(p) \in MinLength .. MaxLength
      BY <3>1 DEF CutsInv
    <3>4. cuts[p] \in Nat /\ Previous(p) \in Nat
      BY <1>1, <3>1 DEF Previous
    <3> QED
      BY <1>1, <3>2, <3>3, <3>4
  <2> QED
    BY <2>1, <2>2
<1>5. \A p \in 1 .. m + 2 : Bounds[p] \in Nat
  BY <1>1, <1>2
<1> QED
  BY <1>1, <1>2, <1>3, <1>4, <1>5

(* What lies in a piece comes before what lies in a later one. *)
LEMMA BoundsRise ==
    ASSUME CutsInv, total > 0, doing = "split", NEW p \in Pieces, NEW q \in Pieces, p < q
    PROVE  Bounds[p + 1] <= Bounds[q]
<1> DEFINE n == Len(cuts) + 1
           Bad == {r \in 1 .. n : p < r /\ ~ (Bounds[p + 1] <= Bounds[r])}
<1>1. n \in Nat /\ Pieces = 1 .. n /\ (\A r \in 1 .. n : Bounds[r] \in Nat /\ Bounds[r] <= Bounds[r + 1])
  BY BoundsAre
<1>2. Bad = {}
  <2> SUFFICES ASSUME Bad # {} PROVE FALSE
    OBVIOUS
  <2> DEFINE r == Min(Bad)
  <2>1. r \in Bad /\ \A k \in Bad : r <= k
    <3>1. Bad \in SUBSET Nat
      OBVIOUS
    <3> HIDE DEF Bad
    <3> QED
      BY <3>1, LeastNumber
  <2> HIDE DEF r
  <2> DEFINE k == r - 1
  <2>2. r \in 1 .. n /\ p < r /\ ~ (Bounds[p + 1] <= Bounds[r]) /\ p \in 1 .. n
    BY <1>1, <2>1
  <2>3. r # p + 1
    BY <1>1, <2>2
  <2>4. k \in 1 .. n /\ p < k /\ k + 1 = r /\ ~ (r <= k)
    BY <1>1, <2>2, <2>3
  <2>5. Bounds[p + 1] <= Bounds[k]
    BY <2>1, <2>4
  <2>6. Bounds[k] <= Bounds[r] /\ Bounds[k] \in Nat /\ Bounds[r] \in Nat
    BY <1>1, <2>2, <2>4
  <2>7. Bounds[p + 1] \in Nat
    <3>1. p + 1 \in 1 .. n
      BY <1>1, <2>2
    <3> QED
      BY <1>1, <3>1
  <2> QED
    BY <2>2, <2>5, <2>6, <2>7
<1> QED
  BY <1>1, <1>2

(* Every moment is in a piece. *)
LEMMA PieceOf ==
    ASSUME CutsInv, total > 0, doing = "split", NEW x \in 0 .. total - 1
    PROVE  \E p \in Pieces : x \in Keep(p)
<1> DEFINE n == Len(cuts) + 1
           Above == {q \in 1 .. n + 1 : x < Bounds[q]}
           q == Min(Above)
<1>1. /\ n \in Nat /\ Pieces = 1 .. n /\ Bounds[1] = 0 /\ Bounds[n + 1] = total
      /\ \A r \in 1 .. n + 1 : Bounds[r] \in Nat
  <2>1. n + 1 = Len(cuts) + 2 /\ n \in Nat
    BY BoundsAre
  <2> QED
    BY <2>1, BoundsAre
<1>2. total \in Nat
  BY DEF CutsInv, CutsTypeOK
<1>3. n + 1 \in Above
  BY <1>1, <1>2
<1>4. q \in Above /\ \A k \in Above : q <= k
  <2>1. Above \in SUBSET Nat /\ Above # {}
    BY <1>1, <1>3
  <2> HIDE DEF Above
  <2> QED
    BY <2>1, LeastNumber
<1> HIDE DEF q
<1> DEFINE p == q - 1
<1>5. q # 1
  BY <1>1, <1>4
<1>6. p \in 1 .. n /\ p \in 1 .. n + 1 /\ ~ (q <= p) /\ p + 1 = q
  BY <1>1, <1>4, <1>5
<1>7. ~ (x < Bounds[p]) /\ x < Bounds[p + 1]
  BY <1>4, <1>6
<1> HIDE DEF p
<1>8. x \in Bounds[p] .. Bounds[p + 1] - 1
  <2>1. Bounds[p] \in Nat /\ Bounds[p + 1] \in Nat
    BY <1>1, <1>4, <1>6
  <2> QED
    BY <1>7, <2>1
<1> QED
  BY <1>1, <1>6, <1>8 DEF Keep

(* A piece hears all of its own part. *)
LEMMA KeepInSource ==
    ASSUME CutsInv, total > 0, doing = "split", NEW p \in Pieces
    PROVE  Keep(p) \subseteq Source(p) /\ Source(p) \subseteq Int
<1> DEFINE a == Bounds[p]
           b == Bounds[p + 1]
           c == a - Overlap
           d == b + Overlap
           lo == Max({0, c})
           hi == Min({total, d})
<1>1. a \in Nat /\ b \in Nat /\ b <= total /\ total \in Nat /\ Overlap \in Nat
  <2>1. total \in Nat /\ Overlap \in Nat
    BY SegmentationAssumption DEF SegmentationAssumption, CutsInv, CutsTypeOK
  <2> DEFINE n == Len(cuts) + 1
  <2>2. /\ n \in Nat /\ Pieces = 1 .. n /\ Bounds[n + 1] = total /\ n + 1 = Len(cuts) + 2
        /\ (\A r \in 1 .. n + 1 : Bounds[r] \in Nat) /\ \A r \in 1 .. n : Bounds[r] <= Bounds[r + 1]
    <3>1. n + 1 = Len(cuts) + 2 /\ n \in Nat
      BY BoundsAre
    <3> QED
      BY <3>1, BoundsAre
  <2> HIDE DEF n
  <2>3. p \in 1 .. n + 1 /\ p + 1 \in 1 .. n + 1
    BY <2>2
  <2>4. CASE p = n
    BY <2>1, <2>2, <2>3, <2>4
  <2>5. CASE p # n
    <3>1. n \in Pieces /\ p < n
      BY <2>2, <2>5
    <3>2. Bounds[p + 1] <= Bounds[n] /\ Bounds[n] <= Bounds[n + 1]
      BY <2>2, <3>1, BoundsRise
    <3>3. Bounds[n] \in Nat /\ Bounds[n + 1] \in Nat
      BY <2>2, <3>1
    <3> QED
      BY <2>1, <2>2, <2>3, <3>2, <3>3
  <2> QED
    BY <2>4, <2>5
<1> HIDE DEF a, b
<1>2. c \in Int /\ d \in Int /\ c <= a /\ b <= d
  BY <1>1
<1>3. lo \in Int /\ lo <= a
  <2> DEFINE z == 0
  <2>1. z \in Int /\ lo = Max({z, c})
    OBVIOUS
  <2> HIDE DEF z, c, lo
  <2>2. Max({z, c}) = IF z >= c THEN z ELSE c
    BY <1>2, <2>1, TwoCompared
  <2> QED
    BY <1>1, <1>2, <2>1, <2>2 DEF z
<1>4. hi \in Int /\ b <= hi
  <2> HIDE DEF d
  <2>1. total \in Int
    BY <1>1
  <2>2. hi = IF total <= d THEN total ELSE d
    BY <1>2, <2>1, TwoCompared
  <2> HIDE DEF hi
  <2> QED
    BY <1>1, <1>2, <2>2
<1>5. Keep(p) = a .. b - 1 /\ Source(p) = lo .. hi - 1
  BY DEF Keep, Source, a, b
<1> HIDE DEF lo, hi
<1> QED
  BY <1>1, <1>3, <1>4, <1>5

LEMMA MergeOnce ==
    ASSUME CutsInv, Merge
    PROVE  SentencesOnce'
<1>1. PICK a \in 0 .. total - 1, b \in 0 .. total - 1 : sentences' = {a, b}
  BY DEF Merge
<1>2. PICK timed \in [Pieces -> BOOLEAN] :
         /\ text' = FlattenSeq([p \in Pieces |-> Sorted(Kept(p, timed[p]))])
         /\ exact' = \A p \in Pieces : timed[p] \/ Heard(p) = {}
  BY DEF Merge
<1>3. total \in Nat /\ total > 0 /\ doing = "split"
  BY <1>1 DEF CutsInv, CutsTypeOK, Merge
<1> DEFINE n == Len(cuts) + 1
           S == sentences'
           K(p) == Kept(p, timed[p])
           seqs == [p \in Pieces |-> Sorted(K(p))]
<1>4. n \in Nat \ {0} /\ Pieces = 1 .. n
  BY <1>3, BoundsAre
<1>5. S \in SUBSET Nat /\ IsFiniteSet(S) /\ S \subseteq 0 .. total - 1
  <2>1. IsFiniteSet({a, b})
    <3>1. IsFiniteSet({})
      BY FS_EmptySet
    <3>2. IsFiniteSet({} \cup {a})
      BY <3>1, FS_AddElement
    <3>3. IsFiniteSet(({} \cup {a}) \cup {b})
      BY <3>2, FS_AddElement
    <3>4. {a, b} = ({} \cup {a}) \cup {b}
      OBVIOUS
    <3> QED
      BY <3>3, <3>4
  <2> QED
    BY <1>1, <1>3, <2>1
<1>6. ASSUME NEW p \in Pieces
      PROVE  /\ K(p) \in SUBSET S /\ S \cap Keep(p) \subseteq K(p)
             /\ timed[p] \/ Heard(p) = {} => K(p) \subseteq Keep(p)
  BY <1>3, KeepInSource DEF Kept, Heard
<1> HIDE DEF K, S, n
<1>7. ASSUME NEW p \in Pieces PROVE Increasing(Sorted(K(p))) /\ ToSet(Sorted(K(p))) = K(p)
  <2>1. K(p) \in SUBSET Nat /\ IsFiniteSet(K(p))
    BY <1>5, <1>6, FS_Subset
  <2> QED
    BY <2>1, SortedIs
<1>8. seqs \in [1 .. n -> Seq(Nat)] /\ \A p \in 1 .. n : Increasing(seqs[p]) /\ ToSet(seqs[p]) = K(p)
  BY <1>4, <1>7 DEF Increasing
<1>9. text' = FlattenSeq(seqs)
  BY <1>2 DEF K
<1> HIDE DEF seqs
<1>10. ToSet(text') = S
  <2>1. ToSet(text') = UNION {ToSet(seqs[p]) : p \in 1 .. n}
    BY <1>4, <1>8, <1>9, Flattened
  <2>2. \A x \in S : \E p \in 1 .. n : x \in K(p)
    <3> SUFFICES ASSUME NEW x \in S PROVE \E p \in 1 .. n : x \in K(p)
      OBVIOUS
    <3>1. PICK p \in Pieces : x \in Keep(p)
      BY <1>3, <1>5, PieceOf
    <3> QED
      BY <1>4, <1>6, <3>1
  <2> QED
    BY <1>4, <1>6, <1>8, <2>1, <2>2
<1>11. ASSUME exact' PROVE text' = Sorted(S)
  <2>1. \A p \in Pieces : K(p) \subseteq Keep(p)
    BY <1>2, <1>6, <1>11
  <2>2. ASSUME NEW p \in 1 .. n, NEW q \in 1 .. n, p < q, NEW x \in ToSet(seqs[p]), NEW y \in ToSet(seqs[q])
        PROVE  x < y
    <3>1. x \in Keep(p) /\ y \in Keep(q)
      BY <1>4, <1>8, <2>1
    <3>2. Bounds[p + 1] <= Bounds[q] /\ Bounds[p + 1] \in Nat /\ Bounds[q] \in Nat /\ Bounds[p] \in Nat
          /\ Bounds[q + 1] \in Nat
      <4>1. \A r \in 1 .. n + 1 : Bounds[r] \in Nat
        <5>1. n + 1 = Len(cuts) + 2
          BY <1>3, BoundsAre DEF n
        <5> QED
          BY <1>3, <5>1, BoundsAre
      <4>2. p \in 1 .. n + 1 /\ p + 1 \in 1 .. n + 1 /\ q \in 1 .. n + 1 /\ q + 1 \in 1 .. n + 1
        BY <1>4
      <4>3. Bounds[p + 1] <= Bounds[q]
        BY <1>3, <1>4, <2>2, BoundsRise
      <4> QED
        BY <4>1, <4>2, <4>3
    <3> QED
      BY <3>1, <3>2 DEF Keep
  <2>3. Increasing(text')
    BY <1>4, <1>8, <1>9, <2>2, Flattened
  <2>4. Increasing(Sorted(S)) /\ ToSet(Sorted(S)) = S
    BY <1>5, SortedIs
  <2> QED
    BY <1>10, <2>3, <2>4, OneOrder
<1> QED
  BY <1>10, <1>11 DEF SentencesOnce, S

(* merge_segment_results: a transcript whose status is OK has every sentence *)
(* once and in order, and one with a piece without timestamps loses none;    *)
(* for all recordings, silences, settings and pieces without timestamps.     *)
THEOREM OnceAlways == SegmentationSpec => []SentencesOnce
<1>1. SegmentationInit => SentencesOnce
  BY DEF SegmentationInit, SentencesOnce
<1>2. CutsInv /\ SentencesOnce /\ [SegmentationNext]_segmentationVars => SentencesOnce'
  <2> SUFFICES ASSUME CutsInv, SentencesOnce, [SegmentationNext]_segmentationVars PROVE SentencesOnce'
    OBVIOUS
  <2>1. CASE Recording \/ Cut \/ Split
    BY <2>1 DEF Recording, Cut, Split, SentencesOnce
  <2>2. CASE UNCHANGED segmentationVars
    BY <2>2 DEF segmentationVars, SentencesOnce
  <2> QED
    BY <2>1, <2>2, MergeOnce DEF SegmentationNext
<1> QED
  BY <1>1, <1>2, InitCuts, NextCuts, PTL DEF SegmentationSpec

-----------------------------------------------------------------------------
(* Preprocessing. *)

JobRow == [st: {"PENDING", "PREPROCESSING", "QUEUED", "FAILED", "CANCELED", "GONE"},
           claim: {"none", "fresh", "old"}, retry: 0 .. MaxSplitRetry]

RunnerState == [pc: {"rest", "next", "split", "clear", "publish", "insert",
                     "promote", "failed", "down"},
                todo: SUBSET Jobs, at: SUBSET Jobs]

LEMMA InitType == PrepInit => PrepTypeOK
  BY PreprocessingAssumption DEF PrepInit, PrepTypeOK, Rest

LEMMA RunnerType ==
    ASSUME PrepTypeOK, NEW r \in Runners, NEW pc \in {"rest", "next", "split", "clear", "publish",
                                                      "insert", "promote", "failed", "down"}, Goes(r, pc)
    PROVE  /\ runner' \in [Runners -> RunnerState]
           /\ runner'[r].pc = pc /\ runner'[r].at = runner[r].at
           /\ \A q \in Runners : q # r => runner'[q] = runner[q]
  BY DEF Goes, PrepTypeOK, RunnerState

LEMMA RestType == Rest \in RunnerState /\ [Rest EXCEPT !.pc = "down"] \in RunnerState
  BY DEF Rest, RunnerState

LEMMA NextType == PrepTypeOK /\ [PrepNext]_prepVars => PrepTypeOK'
<1> SUFFICES ASSUME PrepTypeOK, [PrepNext]_prepVars PROVE PrepTypeOK'
  OBVIOUS
<1> USE PreprocessingAssumption
<1>1. ASSUME NEW r \in Runners, ReleaseOldClaims(r) PROVE PrepTypeOK'
  BY <1>1 DEF ReleaseOldClaims, PrepTypeOK
<1>2. ASSUME NEW r \in Runners, Claim(r) PROVE PrepTypeOK'
  BY <1>2 DEF Claim, Claimable, PrepTypeOK
<1>3. ASSUME NEW r \in Runners, PassDone(r) PROVE PrepTypeOK'
  BY <1>3, RestType DEF PassDone, PrepTypeOK, RunnerState
<1>4. ASSUME NEW r \in Runners, NEW j \in Jobs, TakeNext(r, j) PROVE PrepTypeOK'
  BY <1>4 DEF TakeNext, PrepTypeOK
<1>5. ASSUME NEW r \in Runners, NEW j \in Jobs,
             SplitAudio(r, j) \/ ClearStale(r, j) \/ Publish(r, j) \/ InsertRows(r, j)
      PROVE  PrepTypeOK'
  <2>1. /\ UNCHANGED job /\ rows' \subseteq Jobs /\ files' \subseteq Jobs
        /\ \E pc \in {"clear", "publish", "insert", "promote", "failed"} : Goes(r, pc)
    BY <1>5 DEF SplitAudio, ClearStale, Publish, InsertRows, PrepTypeOK
  <2> QED
    BY <2>1, RunnerType DEF PrepTypeOK, RunnerState
<1>6. ASSUME NEW r \in Runners, NEW j \in Jobs, Promote(r, j) PROVE PrepTypeOK'
  <2>1. job' \in [Jobs -> JobRow]
    BY <1>6 DEF Promote, PrepTypeOK, JobRow
  <2> QED
    BY <1>6, <2>1, RunnerType DEF Promote, PrepTypeOK, RunnerState, JobRow
<1>7. ASSUME NEW r \in Runners, NEW j \in Jobs, GiveUpOrRetry(r, j) PROVE PrepTypeOK'
  <2>1. job' \in [Jobs -> JobRow]
    BY <1>7 DEF GiveUpOrRetry, PrepTypeOK, JobRow
  <2> QED
    BY <1>7, <2>1, RunnerType DEF GiveUpOrRetry, PrepTypeOK, RunnerState, JobRow
<1>8. ASSUME NEW r \in Runners, Crash(r) PROVE PrepTypeOK'
  BY <1>8, RestType DEF Crash, PrepTypeOK, RunnerState
<1>9. ASSUME NEW r \in Runners, StartUp(r) PROVE PrepTypeOK'
  BY <1>9, RestType DEF StartUp, PrepTypeOK, RunnerState
<1>10. ASSUME NEW j \in Jobs, Submit(j) \/ ClaimGrowsOld(j) PROVE PrepTypeOK'
  BY <1>10 DEF Submit, ClaimGrowsOld, PrepTypeOK
<1>11. ASSUME NEW j \in Jobs, NEW st \in {"CANCELED", "GONE"}, CancelOrDelete(j, st) PROVE PrepTypeOK'
  BY <1>11 DEF CancelOrDelete, PrepTypeOK
<1>12. CASE UNCHANGED prepVars
  BY <1>12 DEF prepVars, PrepTypeOK
<1> QED
  BY <1>1, <1>2, <1>3, <1>4, <1>5, <1>6, <1>7, <1>8, <1>9, <1>10, <1>11, <1>12 DEF PrepNext, PassStep

(* Rows, claims and runners keep their shape, and no task is tried again more *)
(* often than max_retry_count allows.                                         *)
THEOREM TypeCorrect == PrepSpec => []PrepTypeOK
  BY InitType, NextType, PTL DEF PrepSpec

-----------------------------------------------------------------------------
(* A runner remembers a task it is about to promote, and the rows it has seen *)
(* are taken away only by a deletion, after which the task is never promoted. *)

Segmented == PrepTypeOK /\ LongOnlyAsSegments /\ PromotedWithRows

LEMMA InitSegmented == PrepInit => Segmented
  BY InitType DEF PrepInit, Segmented, LongOnlyAsSegments, PromotedWithRows, Works, Rest

(* A step of one runner that is not a promotion. *)
LEMMA RunnerStep ==
    ASSUME Segmented, PrepTypeOK', NEW r \in Runners, rows \subseteq rows',
           \A j \in Jobs :
              /\ job'[j].st = "QUEUED" => job[j].st = "QUEUED"
              /\ job[j].st = "GONE" => job'[j].st = "GONE"
              /\ Works(r, "promote", j)' => j \in rows',
           \A q \in Runners : q # r => runner'[q] = runner[q]
    PROVE  Segmented'
<1>1. LongOnlyAsSegments'
  BY DEF Segmented, LongOnlyAsSegments
<1>2. ASSUME NEW q \in Runners, NEW j \in Jobs, Works(q, "promote", j)'
      PROVE  j \in rows' \/ job'[j].st = "GONE"
  <2>1. CASE q = r
    BY <1>2, <2>1
  <2>2. CASE q # r
    <3>1. Works(q, "promote", j)
      BY <1>2, <2>2 DEF Works
    <3> QED
      BY <3>1 DEF Segmented, PromotedWithRows
  <2> QED
    BY <2>1, <2>2
<1>3. PromotedWithRows'
  BY <1>2 DEF PromotedWithRows
<1> QED
  BY <1>1, <1>3 DEF Segmented

LEMMA NextSegmented == Segmented /\ [PrepNext]_prepVars => Segmented'
<1> SUFFICES ASSUME Segmented, [PrepNext]_prepVars PROVE Segmented'
  OBVIOUS
<1>0. PrepTypeOK /\ PrepTypeOK'
  BY NextType DEF Segmented
<1>1. ASSUME NEW r \in Runners, ReleaseOldClaims(r) \/ Claim(r) \/ PassDone(r) \/ Crash(r) \/ StartUp(r)
      PROVE  Segmented'
  <2>1. /\ UNCHANGED rows /\ \A j \in Jobs : job'[j].st = job[j].st
    <3>1. CASE UNCHANGED <<job, rows>>
      BY <3>1
    <3>2. CASE ReleaseOldClaims(r)
      BY <1>0, <3>2 DEF ReleaseOldClaims, PrepTypeOK
    <3>3. CASE Claim(r)
      BY <1>0, <3>3 DEF Claim, PrepTypeOK
    <3>4. CASE StartUp(r)
      BY <1>0, <3>4 DEF StartUp, PrepTypeOK
    <3> QED
      BY <1>1, <3>1, <3>2, <3>3, <3>4 DEF PassDone, Crash
  <2>2. /\ \A q \in Runners : q # r => runner'[q] = runner[q]
        /\ runner'[r].pc # "promote"
    BY <1>0, <1>1 DEF ReleaseOldClaims, Claim, PassDone, Crash, StartUp, PrepTypeOK, Rest
  <2> QED
    BY <1>0, <2>1, <2>2, RunnerStep DEF Works
<1>2. ASSUME NEW r \in Runners, NEW j \in Jobs, TakeNext(r, j) PROVE Segmented'
  <2>1. /\ UNCHANGED <<job, rows>> /\ \A q \in Runners : q # r => runner'[q] = runner[q]
        /\ runner'[r].at = {j} /\ runner'[r].pc = (IF j \in rows THEN "promote" ELSE "split")
    BY <1>0, <1>2 DEF TakeNext, PrepTypeOK
  <2> QED
    BY <1>0, <2>1, RunnerStep DEF Works
<1>3. ASSUME NEW r \in Runners, NEW j \in Jobs, SplitAudio(r, j) \/ ClearStale(r, j) \/ Publish(r, j)
      PROVE  Segmented'
  <2>1. UNCHANGED <<job, rows>> /\ \E pc \in {"clear", "publish", "insert", "failed"} : Goes(r, pc)
    BY <1>3 DEF SplitAudio, ClearStale, Publish
  <2> QED
    BY <1>0, <2>1, RunnerType, RunnerStep DEF Works
<1>4. ASSUME NEW r \in Runners, NEW j \in Jobs, InsertRows(r, j) PROVE Segmented'
  <2>1. runner[r].at = {j} /\ UNCHANGED job
    BY <1>4 DEF InsertRows, Works
  <2>2. CASE Goes(r, "promote") /\ rows' = rows \cup {j}
    BY <1>0, <2>1, <2>2, RunnerType, RunnerStep DEF Works
  <2>3. CASE Goes(r, "failed") /\ UNCHANGED rows
    BY <1>0, <2>1, <2>3, RunnerType, RunnerStep DEF Works
  <2> QED
    BY <1>4, <2>2, <2>3 DEF InsertRows
<1>5. ASSUME NEW r \in Runners, NEW j \in Jobs, Promote(r, j) PROVE Segmented'
  <2>1. /\ UNCHANGED rows /\ Goes(r, "next")
        /\ j \in rows \/ job[j].st = "GONE"
    BY <1>5 DEF Promote, Segmented, PromotedWithRows
  <2>2. /\ job[j].st = "GONE" => UNCHANGED job
        /\ \A k \in Jobs : job[k].st = "GONE" => job'[k].st = "GONE"
        /\ \A k \in Jobs : k # j => job'[k] = job[k]
    BY <1>0, <1>5 DEF Promote, Promotable, PrepTypeOK
  <2>3. LongOnlyAsSegments'
    BY <2>1, <2>2 DEF Segmented, LongOnlyAsSegments
  <2>4. PromotedWithRows'
    BY <1>0, <2>1, <2>2, RunnerType DEF Segmented, PromotedWithRows, Works
  <2> QED
    BY <1>0, <2>3, <2>4 DEF Segmented
<1>6. ASSUME NEW r \in Runners, NEW j \in Jobs, GiveUpOrRetry(r, j) PROVE Segmented'
  <2>1. /\ UNCHANGED rows /\ Goes(r, "next")
        /\ \A k \in Jobs : job'[k].st = job[k].st \/ (job'[k].st = "FAILED" /\ job[k].st # "GONE")
    <3>1. /\ UNCHANGED rows /\ Goes(r, "next")
          /\ \A k \in Jobs : k # j => job'[k] = job[k]
      BY <1>0, <1>6 DEF GiveUpOrRetry, PrepTypeOK
    <3>2. job'[j].st = job[j].st \/ (job'[j].st = "FAILED" /\ job[j].st # "GONE")
      BY <1>0, <1>6 DEF GiveUpOrRetry, PrepTypeOK
    <3> QED
      BY <3>1, <3>2
  <2> QED
    BY <1>0, <2>1, RunnerType, RunnerStep DEF Works
<1>7. ASSUME NEW j \in Jobs, Submit(j) \/ ClaimGrowsOld(j) PROVE Segmented'
  <2>1. /\ UNCHANGED <<rows, runner>>
        /\ \A k \in Jobs : job'[k].st = job[k].st \/ (job'[k].st = "PREPROCESSING" /\ job[k].st # "GONE")
    BY <1>0, <1>7 DEF Submit, ClaimGrowsOld, PrepTypeOK
  <2> QED
    BY <1>0, <2>1 DEF Segmented, LongOnlyAsSegments, PromotedWithRows, Works
<1>8. ASSUME NEW j \in Jobs, NEW st \in {"CANCELED", "GONE"}, CancelOrDelete(j, st) PROVE Segmented'
  <2>1. /\ UNCHANGED runner /\ job[j].st # "GONE" /\ job'[j].st = st
        /\ \A k \in Jobs : k # j => job'[k] = job[k]
        /\ rows' = (IF st = "GONE" THEN rows \ {j} ELSE rows)
    BY <1>0, <1>8 DEF CancelOrDelete, PrepTypeOK
  <2>2. LongOnlyAsSegments'
    BY <2>1 DEF Segmented, LongOnlyAsSegments
  <2>3. PromotedWithRows'
    BY <2>1 DEF Segmented, PromotedWithRows, Works
  <2> QED
    BY <1>0, <2>2, <2>3 DEF Segmented
<1>9. CASE UNCHANGED prepVars
  BY <1>0, <1>9 DEF prepVars, Segmented, LongOnlyAsSegments, PromotedWithRows, Works
<1> QED
  BY <1>1, <1>2, <1>3, <1>4, <1>5, <1>6, <1>7, <1>8, <1>9 DEF PrepNext, PassStep

(* No long recording is queued without its segments, with any number of      *)
(* runners that hold claims on it at once, crash, and are started again.     *)
THEOREM QueuedAsSegments == PrepSpec => []LongOnlyAsSegments
<1>1. Segmented => LongOnlyAsSegments
  BY DEF Segmented
<1> QED
  BY <1>1, InitSegmented, NextSegmented, PTL DEF PrepSpec

=============================================================================
