------------------------------ MODULE MCVoice ------------------------------
(* A voice message for TLC: AudioPlayer, the Ogg stream a message is kept  *)
(* in, and the search for a place in it.  The first takes from the last    *)
(* that a seek goes where it is told, the last from the second that a page *)
(* that is there is read; they share no variable, and so a behaviour here  *)
(* is one of any of them, chosen at the beginning, with the others at rest.*)
EXTENDS AudioPlayer, SequencesExt

CONSTANTS
    SegmentSize, PageSegments, Gather, NominalFill, PacketSizes, MaxPackets, MaxDamaged,
    OpusFiles, DataOffset, PreRoll, Near, Second, CurTimeThresh, ChunkSize, ChunkSizeMax,
    ReadSize

VARIABLES
    part,                                       \* which of the three moves
    in, os, pages, next, unsynced, damaged, rs, out,
    opus, of, pc, s, goal, rushed

Stream == INSTANCE OggStream WITH file <- pages

Search == INSTANCE OpusFile

(* The positions of four bits, with deltas that may be large for them.     *)
Granules == INSTANCE GranulePos WITH Int64Max <- 7, Int32Max <- 5

ASSUME PositionsAreRight ==
    /\ Granules!GranulePosAssumption
    /\ Granules!AddIsRight /\ Granules!AddFits
    /\ Granules!DiffIsRight /\ Granules!DiffFits
    /\ Granules!CmpIsRight
    /\ Granules!SeekTells /\ Granules!SeekFits

ASSUME StreamAssumption == Stream!OggAssumption
ASSUME SearchAssumption == Search!OpusFileAssumption

stream == <<in, os, pages, next, unsynced, damaged, rs, out>>
search == <<opus, of, pc, s, goal, rushed>>
MCvars == <<part, vars, stream, search>>

MCInit ==
    /\ part \in {"player", "stream", "search"}
    /\ Init /\ Stream!Init /\ Search!Init
    /\ part # "player" => \A m \in Messages : total[m] = CHOOSE t \in Totals : TRUE
    /\ part # "search" => opus = CHOOSE f \in OpusFiles : TRUE

OnlyPlayer == part = "player" /\ UNCHANGED <<part, stream, search>>
OnlyStream == part = "stream" /\ UNCHANGED <<part, vars, search>>
OnlySearch == part = "search" /\ UNCHANGED <<part, vars, stream>>

PlayerStep == OnlyPlayer /\ Next
StreamStep == OnlyStream /\ Stream!Next
SearchStep == OnlySearch /\ Search!Next
MCNext == PlayerStep \/ StreamStep \/ SearchStep
MCSpec == MCInit /\ [][MCNext]_MCvars

(* The three threads run what is posted to them, and the track plays.      *)
MCFairSpec ==
    /\ MCSpec
    /\ WF_vars(OnlyPlayer /\ Decodes) /\ WF_vars(OnlyPlayer /\ Plays)
    /\ WF_vars(OnlyPlayer /\ UIRuns) /\ WF_vars(OnlyPlayer /\ MarkerReached)

-----------------------------------------------------------------------------
(* A packet that comes out of the pages is one that went in, whole, and has*)
(* its own position or none.                                               *)
Whole == Stream!Whole /\ Stream!Positions

(* They come in order, and of a missing one the decoder was told.          *)
HolesTold == Stream!HolesTold

(* With no page missing, no packet is.                                     *)
NothingLost == Stream!NothingLost

(* After a seek what is read begins at the place asked for.                *)
Exact == Search!Exact

(* The decoder had 80 ms to settle.                                        *)
Converged == Search!Converged

(* Each round of a search leaves less to search.                           *)
Narrows == Search!Narrows

(* What a seek promises, without the exception that Exact makes.           *)
BeginsExactly == Search!BeginsExactly

-----------------------------------------------------------------------------
(* Files of up to six pages: small ones of one packet, large ones of two,  *)
(* and ones of three packets in few bytes.                                 *)
Small == [size |-> 1, durations |-> <<2>>]
Large == [size |-> 3, durations |-> <<1, 3>>]
Dense == [size |-> 2, durations |-> <<2, 2, 1>>]

Sum(q) == FoldSeq(LAMBDA d, acc : d + acc, 0, q)

(* The pages one after the other, from sample start on; the last of them   *)
(* ends trim samples before its last packet does.                          *)
Laid(shapes, start, preSkip, trim) ==
    LET n      == Len(shapes)
        at(k)  == DataOffset + Sum([i \in 1 .. k - 1 |-> shapes[i].size])
        pcm(k) == start + Sum([i \in 1 .. k - 1 |-> Sum(shapes[i].durations)])
    IN  [preSkip |-> preSkip,
         pages |-> [k \in 1 .. n |->
            [offset |-> at(k), size |-> shapes[k].size, pcm |-> pcm(k),
             ends |-> [i \in 1 .. Len(shapes[k].durations) |->
                        pcm(k) + Sum(SubSeq(shapes[k].durations, 1, i))],
             granulepos |-> pcm(k + 1) - IF k = n THEN trim ELSE 0]]]

MCFiles ==
    {Laid(<<Small, Large, Dense, Small, Large>>, 0, 1, 1),
     Laid(<<Dense, Dense, Small, Large>>, 2, 3, 0),
     Laid(<<Large, Small, Small, Small, Dense, Small>>, 0, 0, 1),
     Laid(<<Dense>>, 0, 1, 2)}
=============================================================================
