----------------------------- MODULE GranulePos -----------------------------
(***************************************************************************)
(* Granule positions, as opusfile computes with them: integers of 64 bits  *)
(* of which -1 is no position and the negative ones come after the largest *)
(* positive one, so that a position may wrap around once and the order of  *)
(* the integers is not that of the positions.  The functions are of C,     *)
(* where a sum that does not fit is undefined.                             *)
(*                                                                         *)
(* OpusFile takes positions for integers; what is here says when it may.   *)
(***************************************************************************)
EXTENDS Integers

CONSTANTS
    Int64Max,           \* OP_INT64_MAX: 2^63 - 1
    Int32Max            \* the largest opus_int32: 2^31 - 1

GranulePosAssumption == Int64Max \in Nat /\ Int32Max \in Nat /\ Int32Max <= Int64Max

Int64Min == -Int64Max - 1
Int64    == Int64Min .. Int64Max
Granule  == Int64 \ {-1}

(* The most negative opus_int32 is left out: op_granpos_add negates its    *)
(* delta.                                                                  *)
Delta == -Int32Max .. Int32Max

-----------------------------------------------------------------------------
(* op_granpos_add: does it fail, *)
AddFails(src, delta) ==
    \/ delta > 0 /\ src < 0 /\ src >= -1 - delta
    \/ delta < 0 /\ src >= 0 /\ src < -delta

(* are its operands changed before they are added, *)
WrapsUp(src, delta)   == delta > 0 /\ src > Int64Max - delta
WrapsDown(src, delta) == delta < 0 /\ src < Int64Min - delta

(* and what it returns.                                                    *)
Added(src, delta) ==
    IF WrapsUp(src, delta) THEN Int64Min + (delta - ((Int64Max - src) + 1))
    ELSE IF WrapsDown(src, delta) THEN Int64Max + (delta + ((src - Int64Min) + 1))
    ELSE src + delta

(* op_granpos_diff, likewise; da and db are its variables.                 *)
AWrapped(a, b) == a < 0 /\ b >= 0
BWrapped(a, b) == a >= 0 /\ b < 0

Da(a, b) == IF AWrapped(a, b) THEN (Int64Min - a) - 1 ELSE a + Int64Min
Db(a, b) == IF AWrapped(a, b) THEN Int64Max - b ELSE Int64Min - b

DiffFails(a, b) ==
    \/ AWrapped(a, b) /\ Int64Max + Da(a, b) < Db(a, b)
    \/ BWrapped(a, b) /\ Da(a, b) < Int64Min - Db(a, b)

Diff(a, b) ==
    IF AWrapped(a, b) THEN Db(a, b) - Da(a, b)
    ELSE IF BWrapped(a, b) THEN Da(a, b) + Db(a, b)
    ELSE a - b

(* op_granpos_cmp *)
Cmp(a, b) ==
    IF AWrapped(a, b) THEN 1
    ELSE IF BWrapped(a, b) THEN -1
    ELSE IF a > b THEN 1 ELSE IF b > a THEN -1 ELSE 0

(* opus_granule_sample *)
GranuleSample(gp, preSkip) ==
    IF gp # -1 /\ AddFails(gp, -preSkip) THEN -1
    ELSE IF gp # -1 THEN Added(gp, -preSkip)
    ELSE gp

-----------------------------------------------------------------------------
(* A link of a file: where its sound begins and ends.  What                *)
(* op_find_final_pcm_offset lets pass has a duration.                      *)
LinkType == [pcmStart : Granule, pcmEnd : Granule, preSkip : 0 .. Int32Max]

GoodLink(l) == ~DiffFails(l.pcmEnd, l.pcmStart) /\ Diff(l.pcmEnd, l.pcmStart) >= l.preSkip

Duration(l) == Diff(l.pcmEnd, l.pcmStart) - l.preSkip

(* op_get_granulepos, in the only link: the position of a sample.          *)
GetGranulePos(l, sample) ==
    LET offset == sample + l.preSkip
    IN  IF l.pcmStart > Int64Max - offset
        THEN Int64Min + (offset - ((Int64Max - l.pcmStart) + 1))
        ELSE l.pcmStart + offset

(* op_get_pcm_offset: the sample at a position, of a file that is sought.  *)
GetPcmOffset(l, gp) ==
    LET at    == IF Cmp(gp, l.pcmEnd) > 0 THEN l.pcmEnd ELSE gp
        delta == Diff(at, l.pcmStart)
    IN  IF Cmp(at, l.pcmStart) > 0
        THEN IF delta < l.preSkip THEN 0 ELSE delta - l.preSkip
        ELSE 0

-----------------------------------------------------------------------------
(* What the functions are to compute: positions in their order from 0 on.  *)
LastPlace == 2 * Int64Max

Place(gp) == IF gp >= 0 THEN gp ELSE gp + 2 * Int64Max + 2

(* A sum is the position so many samples later or earlier, and fails       *)
(* exactly when there is none.                                             *)
AddIsRight ==
    \A src \in Granule, delta \in Delta :
        /\ AddFails(src, delta) <=> Place(src) + delta \notin 0 .. LastPlace
        /\ ~AddFails(src, delta) =>
            /\ Added(src, delta) \in Granule
            /\ Place(Added(src, delta)) = Place(src) + delta

(* Nothing that C computes for it is too large or too small for its type:  *)
(* each part of it is listed.                                              *)
AddFits ==
    \A src \in Granule, delta \in Delta :
        /\ delta > 0 => -1 - delta \in -Int32Max - 1 .. Int32Max /\ Int64Max - delta \in Int64
        /\ delta < 0 => -delta \in Delta /\ Int64Min - delta \in Int64
        /\ WrapsUp(src, delta) => Int64Max - src \in Delta /\ (Int64Max - src) + 1 \in Delta
        /\ WrapsUp(src, delta) => delta - ((Int64Max - src) + 1) \in Delta
        /\ WrapsDown(src, delta) => src - Int64Min \in Delta /\ (src - Int64Min) + 1 \in Delta
        /\ WrapsDown(src, delta) => delta + ((src - Int64Min) + 1) \in Delta

(* A difference is that of the places, and fails exactly when it does not  *)
(* fit.                                                                    *)
DiffIsRight ==
    \A a, b \in Granule :
        /\ DiffFails(a, b) <=> Place(a) - Place(b) \notin Int64
        /\ ~DiffFails(a, b) => Diff(a, b) = Place(a) - Place(b)

(* Neither is anything too large that C computes on the way.               *)
DiffFits ==
    \A a, b \in Granule :
        /\ AWrapped(a, b) => /\ Int64Min - a \in Int64 /\ Da(a, b) \in Int64
                             /\ Db(a, b) \in Int64 /\ Int64Max + Da(a, b) \in Int64
        /\ BWrapped(a, b) => /\ Da(a, b) \in Int64 /\ Db(a, b) \in Int64
                             /\ Int64Min - Db(a, b) \in Int64

(* The comparison is that of the places.                                   *)
CmpIsRight ==
    \A a, b \in Granule :
        /\ Cmp(a, b) > 0 <=> Place(a) > Place(b)
        /\ Cmp(a, b) = 0 <=> a = b
        /\ Cmp(a, b) < 0 <=> Place(a) < Place(b)

(* The sample of a position that the position of a sample has is the sample*)
(* itself, wherever the sound begins: what op_pcm_seek is asked for is what*)
(* op_pcm_tell says afterwards.                                            *)
SeekTells ==
    \A l \in LinkType : GoodLink(l) =>
        \A sample \in 0 .. Duration(l) - 1 :
            /\ GetGranulePos(l, sample) \in Granule
            /\ GetPcmOffset(l, GetGranulePos(l, sample)) = sample

(* And nothing computed for a position is too large.                       *)
SeekFits ==
    \A l \in LinkType : GoodLink(l) =>
        \A sample \in 0 .. Duration(l) - 1 :
            LET offset == sample + l.preSkip
            IN  /\ offset \in Int64 /\ Int64Max - offset \in Int64
                /\ l.pcmStart > Int64Max - offset =>
                    /\ (Int64Max - l.pcmStart) + 1 \in Int64
                    /\ offset - ((Int64Max - l.pcmStart) + 1) \in Int64

=============================================================================
