------------------------------ MODULE OpusFile ------------------------------
(***************************************************************************)
(* Reading and seeking in a voice message: opusfile's op_read and          *)
(* op_pcm_seek, which audio.c calls.  A seek finds, by bisection over the  *)
(* bytes of the file, the page before the place it looks for, decodes from *)
(* 80 ms before that place, for the decoder to settle, and throws away what*)
(* it was not asked for; unless the place is near, or on the page that is  *)
(* already there.                                                          *)
(*                                                                         *)
(* Bytes and samples are units.  The file is one link of one stream, each  *)
(* packet of it on one page, as audio.c writes it; the headers are before  *)
(* DataOffset.  Reading the file never fails.  Positions are small: that   *)
(* they are 64 bits wide, with a sign that means nothing, is left out.     *)
(***************************************************************************)
EXTENDS Integers, Sequences, SequencesExt

CONSTANTS
    OpusFiles,          \* the files, see OpusFileAssumption
    DataOffset,         \* where their first page of sound is
    PreRoll,            \* 80 ms
    Near,               \* 90 ms: a seek that is nearer decodes forward
    Second,             \* 48000: a page that is nearer is scanned for
    CurTimeThresh,      \* OP_CUR_TIME_THRESH
    ChunkSize,          \* OP_CHUNK_SIZE
    ChunkSizeMax,       \* OP_CHUNK_SIZE_MAX
    ReadSize            \* OP_READ_SIZE

Lesser(a, b)  == IF a < b THEN a ELSE b
Greater(a, b) == IF a < b THEN b ELSE a

(* A page is at offset and has so many bytes; its first sample is number   *)
(* pcm, ends is where its packets end, and granulepos is where the last of *)
(* them does, or on the last page earlier, if the recording ends there.    *)
PageType == [offset : Nat, size : Nat, pcm : Int, ends : Seq(Int), granulepos : Int]

OpusFileAssumption ==
    /\ OpusFiles \subseteq [preSkip : Nat, pages : Seq(PageType)]
    /\ \A f \in OpusFiles :
        LET n == Len(f.pages)
        IN  /\ f.preSkip \in Nat /\ n > 0
            /\ f.pages[1].offset = DataOffset
            /\ f.preSkip <= f.pages[n].granulepos - f.pages[1].pcm
            /\ n = 1 => f.pages[1].pcm = 0
            /\ \A k \in 1 .. n :
                LET p == f.pages[k]
                    m == Len(p.ends)
                IN  /\ p.size > 0 /\ m > 0 /\ p.ends[1] > p.pcm
                    /\ \A i \in 2 .. m : p.ends[i] > p.ends[i - 1]
                    /\ IF k < n
                       THEN /\ p.granulepos = p.ends[m]
                            /\ f.pages[k + 1].offset = p.offset + p.size
                            /\ f.pages[k + 1].pcm = p.granulepos
                       ELSE p.granulepos \in p.pcm .. p.ends[m]
    /\ DataOffset \in Nat \ {0} /\ ReadSize \in Nat \ {0}
    /\ ChunkSize \in Nat \ {0} /\ ChunkSizeMax \in Nat \ {0}
    /\ PreRoll \in Nat \ {0} /\ Near \in Nat /\ Near >= PreRoll
    /\ Second \in Nat /\ CurTimeThresh \in Nat

VARIABLES
    opus,               \* the file
    of,                 \* the OggOpusFile: offset, the file's position, the packets
                        \* op of the page read last, op_pos, prev_packet_gp,
                        \* cur_discard_count, the samples in od_buffer from
                        \* od_buffer_pos on, and what the decoder has decoded
                        \* since it was reset
    pc,                 \* where op_pcm_seek or op_read is
    s,                  \* the locals of op_pcm_seek and op_pcm_seek_page
    goal,               \* the sample a caller expects next (history)
    rushed              \* a seek that decodes forward shortened what another had
                        \* yet to throw away (history)

ovars == <<opus, of, pc, s, goal, rushed>>

Pages     == opus.pages
LastPage  == Len(Pages)
PcmStart  == Pages[1].pcm
PcmEnd    == Pages[LastPage].granulepos
EndOffset == Pages[LastPage].offset     \* the link's end_offset
End       == Pages[LastPage].offset + Pages[LastPage].size

Nothing == [from |-> -1, to |-> -1]     \* a decoder that was reset
Idle    == [goal |-> -1]

---------------------------------------------------------------------------
(* Pages *)

(* op_get_next_page, up to boundary: the page that begins at offset or is  *)
(* the next one after it, if all of it can be read before the boundary; the*)
(* file is read in pieces of ReadSize.                                     *)
GetNextPage(f, boundary) ==
    LET next  == {k \in 1 .. LastPage : Pages[k].offset >= f.offset}
        k     == Min(next)
        last  == Pages[k].offset + Pages[k].size
        reads == (last - f.position + ReadSize - 1) \div ReadSize
        read  == IF last <= f.position THEN f.position
                 ELSE Greater(f.position, Lesser(boundary, f.position + reads * ReadSize))
    IN  IF f.offset >= boundary \/ next = {}
        THEN [page |-> 0, of |-> f]
        ELSE IF last <= read
        THEN [page |-> k, of |-> [f EXCEPT !.offset = last, !.position = read]]
        ELSE [page |-> 0, of |-> [f EXCEPT !.offset = Lesser(Pages[k].offset, read),
                                           !.position = read]]

(* op_seek_helper *)
SeekHelper(f, offset) ==
    IF offset = f.offset THEN f ELSE [f EXCEPT !.offset = offset, !.position = offset]

(* op_collect_audio_packets and the positions op_fetch_and_process_page    *)
(* gives to the packets of page k, backward from the page's; on the last   *)
(* page forward, up to the page's.                                         *)
ProcessPage(f, k) ==
    LET p       == Pages[k]
        n       == Len(p.ends)
        trimmed == k = LastPage /\ p.granulepos - f.prevGp < p.ends[n] - p.pcm
        prev    == IF trimmed THEN f.prevGp ELSE p.granulepos - (p.ends[n] - p.pcm)
    IN  [f EXCEPT
          !.op = [i \in 1 .. n |->
                   LET begin == IF i = 1 THEN p.pcm ELSE p.ends[i - 1]
                       gp    == prev + p.ends[i] - p.pcm
                   IN  [granulepos |-> IF trimmed THEN Lesser(gp, p.granulepos) ELSE gp,
                        duration |-> p.ends[i] - begin, pcm |-> begin,
                        eos |-> k = LastPage /\ (i = n \/ gp > p.granulepos)]],
          !.opPos = 0,
          !.prevGp = prev]

(* op_make_decode_ready, where it resets the decoder.                      *)
MakeDecodeReady(f) == [f EXCEPT !.ready = TRUE, !.decoded = Nothing]

(* op_decode_clear *)
DecodeClear(f) == [f EXCEPT !.op = <<>>, !.buffer = <<>>, !.prevGp = -1, !.ready = FALSE]

PcmTell(f) == Lesser(f.prevGp - Len(f.buffer) + f.discard, PcmEnd)

(* op_open_file: the headers are read, and the first page of sound.        *)
Opened ==
    LET p    == Pages[1]
        last == p.offset + p.size
    IN  [offset |-> last,
         position |-> Lesser(End, ((last + ReadSize - 1) \div ReadSize) * ReadSize),
         ready |-> TRUE, op |-> <<>>, opPos |-> 0,
         prevGp |-> PcmStart, discard |-> opus.preSkip,
         buffer |-> <<>>, decoded |-> Nothing]

Init ==
    /\ opus \in OpusFiles
    /\ of = ProcessPage(Opened, 1)
    /\ pc = "idle" /\ s = Idle
    /\ goal = PcmStart + opus.preSkip
    /\ rushed = FALSE

---------------------------------------------------------------------------
(* Reading *)

Read ==
    /\ pc = "idle"
    /\ pc' = "read"
    /\ UNCHANGED <<opus, of, s, goal, rushed>>

(* op_read_native with a packet that is not decoded yet: it goes to the    *)
(* decoder and to the buffer, its end trimmed, its beginning discarded.    *)
Decode ==
    /\ pc = "read" /\ of.buffer = <<>> /\ of.opPos < Len(of.op)
    /\ LET p       == of.op[of.opPos + 1]
           trimmed == IF p.eos
                      THEN Lesser(Greater(p.granulepos - of.prevGp, 0), p.duration)
                      ELSE p.duration
           skipped == Lesser(trimmed, of.discard)
       IN  of' = [of EXCEPT
                   !.opPos = @ + 1,
                   !.prevGp = p.granulepos,
                   !.discard = @ - skipped,
                   !.buffer = [i \in 1 .. trimmed - skipped |-> p.pcm + skipped + i - 1],
                   !.decoded = [from |-> IF p.pcm = @.to THEN @.from ELSE p.pcm,
                                to   |-> p.pcm + p.duration]]
    /\ UNCHANGED <<opus, pc, s, goal, rushed>>

(* op_read_native without: op_fetch_and_process_page, or the end.          *)
NextPage ==
    /\ pc = "read" /\ of.buffer = <<>> /\ of.opPos = Len(of.op)
    /\ LET g == GetNextPage(of, End)
       IN  IF g.page = 0
           THEN of' = g.of /\ pc' = "idle"
           ELSE of' = ProcessPage(g.of, g.page) /\ UNCHANGED pc
    /\ UNCHANGED <<opus, s, goal, rushed>>

(* op_filter_read_native: as many samples as fit where they are to go.     *)
Give ==
    /\ pc = "read" /\ of.buffer # <<>>
    /\ \E n \in 1 .. Len(of.buffer) :
        /\ of' = [of EXCEPT !.buffer = SubSeq(@, n + 1, Len(@))]
        /\ goal' = goal + n
    /\ pc' = "idle"
    /\ UNCHANGED <<opus, s, rushed>>

---------------------------------------------------------------------------
(* Seeking *)

(* The range op_pcm_seek_page searches for the page before target.         *)
Interval(target) ==
    LET begin == DataOffset
        all   == [begin |-> begin, end |-> EndOffset, boundary |-> EndOffset, best |-> begin,
                  bestGp |-> PcmStart, pcmStart |-> PcmStart, pcmEnd |-> PcmEnd]
        gp    == Last(of.op).granulepos
        half  == (EndOffset - begin) \div 2
    IN  IF target < PcmStart + opus.preSkip
        THEN [all EXCEPT !.end = begin, !.boundary = begin]
        ELSE IF \/ ~of.ready \/ of.op = <<>> \/ of.offset > EndOffset
                \/ gp <= PcmStart \/ gp >= PcmEnd
        THEN all
        ELSE IF gp < target /\ (of.offset - begin >= half \/ gp - target > -CurTimeThresh)
        THEN [all EXCEPT !.begin = of.offset, !.best = of.offset, !.bestGp = gp,
                         !.pcmStart = gp]
        ELSE IF gp >= target /\ (of.offset - begin <= half \/ gp - target < CurTimeThresh)
        THEN [all EXCEPT !.end = of.offset, !.boundary = of.offset, !.pcmEnd = gp]
        ELSE all

(* The page that is there already has the place.                           *)
Buffered(target) ==
    /\ target >= PcmStart + opus.preSkip
    /\ of.ready /\ of.op # <<>> /\ of.offset <= EndOffset
    /\ LET gp == Last(of.op).granulepos
       IN  PcmStart < gp /\ gp < PcmEnd /\ target <= gp
    /\ of.op[1].granulepos + of.op[1].duration <= target

(* Mutant: no 80 ms.                                                       *)
SkipTarget_Late(offset) == IF offset <= opus.preSkip THEN 0 ELSE offset

(* How much is skipped without decoding it.                                *)
SkipTarget(offset) == IF offset <= opus.preSkip THEN 0 ELSE Greater(offset - PreRoll, 0)

(* op_pcm_seek to a sample of the file.                                    *)
PcmSeek ==
    /\ pc = "idle"
    /\ \E sample \in 0 .. PcmEnd - PcmStart - opus.preSkip - 1 :
        LET gp      == PcmStart + opus.preSkip + sample     \* op_get_granulepos
            offset  == gp - PcmStart
            forward == gp - (of.prevGp - Len(of.buffer))
            target  == Greater(gp - PreRoll, PcmStart)
            skip    == SkipTarget(offset)
        IN  IF of.ready /\ 0 <= forward /\ forward < Near
            THEN /\ of' = [of EXCEPT !.discard = forward]
                 /\ goal' = gp
                 /\ rushed' = (rushed \/ forward < of.discard)
                 /\ UNCHANGED <<pc, s>>
            ELSE IF Buffered(target)
            THEN /\ of' = MakeDecodeReady([of EXCEPT
                            !.opPos = 0, !.buffer = <<>>,
                            !.prevGp = of.op[1].granulepos + of.op[1].duration])
                 /\ pc' = "skip"
                 /\ s' = [goal |-> gp, target |-> target, offset |-> offset, skip |-> skip]
                 /\ UNCHANGED <<goal, rushed>>
            ELSE LET i == Interval(target)
                     n == i.end - i.begin
                 IN  /\ of' = DecodeClear(of)
                     /\ pc' = "bisect"
                     /\ s' = [goal |-> gp, target |-> target, offset |-> offset, skip |-> skip,
                               begin |-> i.begin, end |-> i.end, boundary |-> i.boundary,
                               best |-> i.best, bestGp |-> i.bestGp,
                               pcmStart |-> i.pcmStart, pcmEnd |-> i.pcmEnd,
                               d0 |-> n, d1 |-> n, d2 |-> n, force |-> FALSE,
                               bisect |-> 0, chunk |-> 0, nextBoundary |-> 0, page |-> 0]
                     /\ UNCHANGED <<goal, rushed>>
    /\ UNCHANGED opus

(* A guess between begin and end (op_rescale64), where the place would be  *)
(* if samples were spread evenly; here anywhere, but for the ends.         *)
Guesses ==
    LET diff  == s.target - s.pcmStart
        diff2 == s.pcmEnd - s.pcmStart
    IN  IF diff >= diff2 THEN {s.end - s.begin}
        ELSE IF diff <= 0 THEN {0}
        ELSE 0 .. s.end - s.begin

(* The outer loop of op_pcm_seek_page: where to look next.                 *)
Bisect ==
    /\ pc = "bisect" /\ s.begin < s.end
    /\ LET n     == s.end - s.begin
           looks == IF n < ChunkSize THEN {s.begin}
                    ELSE {IF b - ChunkSize < s.begin THEN s.begin ELSE b :
                            b \in IF s.force THEN {s.begin + n \div 2}
                                  ELSE {s.begin + g - ChunkSize : g \in Guesses}}
       IN  \E b \in looks :
            /\ of' = SeekHelper(of, b)
            /\ s' = [s EXCEPT
                      !.bisect = b, !.chunk = ChunkSize, !.nextBoundary = s.boundary,
                      !.page = IF b = of.offset THEN @ ELSE 0,
                      !.d0 = IF n < ChunkSize THEN @ ELSE s.d1 \div 2,
                      !.d1 = IF n < ChunkSize THEN @ ELSE s.d2 \div 2,
                      !.d2 = IF n < ChunkSize THEN @ ELSE n \div 2,
                      !.force = IF n < ChunkSize THEN @ ELSE FALSE]
    /\ pc' = "scan"
    /\ UNCHANGED <<opus, goal, rushed>>

(* No page from bisect on, up to the boundary: done, or back by a chunk.   *)
ScannedAll(f) ==
    IF s.bisect <= s.begin + 1
    THEN of' = f /\ s' = [s EXCEPT !.end = s.begin, !.page = 0]
    ELSE LET back == Greater(s.bisect - s.chunk, s.begin)
         IN  /\ of' = SeekHelper(f, back)
             /\ s' = [s EXCEPT !.bisect = back, !.boundary = s.nextBoundary, !.page = 0,
                               !.chunk = Lesser(2 * s.chunk, ChunkSizeMax)]

(* Mutant: from its own beginning on.                                      *)
FoundBefore_ItsBegin(k, f) ==
    LET gp    == Pages[k].granulepos
        valid == s.pcmStart <= gp /\ gp <= s.pcmEnd
        far   == ~valid \/ s.target - gp > Second
    IN  /\ s' = [s EXCEPT
                  !.begin = Pages[k].offset, !.page = k,
                  !.nextBoundary = Lesser(Pages[k].offset, @),
                  !.best     = IF valid THEN f.offset ELSE @,
                  !.bestGp   = IF valid THEN gp ELSE @,
                  !.pcmStart = IF valid THEN gp ELSE @,
                  !.bisect   = IF far THEN @ ELSE f.offset]
        /\ pc' = IF far THEN "bisect" ELSE "scan"

(* A page that ends before the target: from its end on.  When it is far    *)
(* from it, or its position cannot be, another place is guessed.           *)
FoundBefore(k, f) ==
    LET gp    == Pages[k].granulepos
        valid == s.pcmStart <= gp /\ gp <= s.pcmEnd
        far   == ~valid \/ s.target - gp > Second
    IN  /\ s' = [s EXCEPT
                  !.begin = f.offset, !.page = k,
                  !.nextBoundary = Lesser(Pages[k].offset, @),
                  !.best     = IF valid THEN f.offset ELSE @,
                  !.bestGp   = IF valid THEN gp ELSE @,
                  !.pcmStart = IF valid THEN gp ELSE @,
                  !.bisect   = IF far THEN @ ELSE f.offset]
        /\ pc' = IF far THEN "bisect" ELSE "scan"

(* A page that ends after it: done, or before bisect, and no further than  *)
(* the page found.                                                         *)
FoundAfter(k) ==
    LET gp       == Pages[k].granulepos
        boundary == Lesser(Pages[k].offset, s.nextBoundary)
    IN  IF s.bisect <= s.begin + 1
        THEN /\ s' = [s EXCEPT !.end = s.begin, !.page = k, !.nextBoundary = boundary]
             /\ UNCHANGED pc
        ELSE /\ s' = [s EXCEPT
                       !.end = s.bisect, !.page = k,
                       !.nextBoundary = boundary, !.boundary = boundary,
                       !.force = s.bisect - s.begin > s.d0 * 2,
                       !.pcmEnd = IF s.pcmEnd > gp /\ s.pcmStart <= gp THEN gp ELSE @]
             /\ pc' = "bisect"

(* A round of the inner loop.                                              *)
Scan ==
    /\ pc = "scan"
    /\ IF s.begin >= s.end
       THEN pc' = "bisect" /\ UNCHANGED <<of, s>>
       ELSE LET g == GetNextPage(of, s.boundary)
            IN  IF g.page = 0
                THEN ScannedAll(g.of) /\ UNCHANGED pc
                ELSE /\ of' = g.of
                     /\ IF Pages[g.page].granulepos < s.target
                        THEN FoundBefore(g.page, g.of)
                        ELSE FoundAfter(g.page)
    /\ UNCHANGED <<opus, goal, rushed>>

(* The page after the best one is fetched, from where the file stands when *)
(* it is the one found last.                                               *)
Found ==
    /\ pc = "bisect" /\ s.begin >= s.end
    /\ LET there == s.page # 0 /\ Pages[s.page].offset = s.best
           g     == IF there THEN [page |-> s.page, of |-> of]
                    ELSE GetNextPage(SeekHelper(of, s.best), End)
           f     == [g.of EXCEPT !.prevGp = s.bestGp]
       IN  IF g.page = 0
           THEN of' = f /\ pc' = "badlink"
           ELSE /\ of' = ProcessPage(MakeDecodeReady(f), g.page)
                /\ pc' = IF of'.prevGp > s.target THEN "badlink" ELSE "skip"
    /\ UNCHANGED <<opus, s, goal, rushed>>

(* Mutant: 80 ms, wherever the packet begins.                              *)
Discarded_PreRoll(prev) == s.offset - s.skip

(* What the packets after prev begin with and the caller did not ask for.  *)
Discarded(prev) == s.offset - (prev - PcmStart)

(* The loop of op_pcm_seek: to the packet with the first sample needed.    *)
Skip ==
    /\ pc = "skip"
    /\ LET left == {i \in of.opPos + 1 .. Len(of.op) :
                        of.op[i].granulepos - PcmStart > s.skip}
           n    == IF left = {} THEN Len(of.op) ELSE Min(left) - 1
           prev == IF n > of.opPos THEN of.op[n].granulepos ELSE of.prevGp
           f    == [of EXCEPT !.prevGp = prev, !.opPos = n]
           g    == GetNextPage(f, End)
       IN  IF left # {}
           THEN /\ pc' = IF prev - PcmStart > s.skip THEN "badlink" ELSE "idle"
                /\ of' = [f EXCEPT !.discard = Discarded(prev)]
                /\ s' = Idle /\ goal' = s.goal /\ rushed' = FALSE
           ELSE /\ of' = IF g.page = 0 THEN g.of ELSE ProcessPage(g.of, g.page)
                /\ pc' = IF g.page = 0 THEN "badlink" ELSE pc
                /\ UNCHANGED <<s, goal, rushed>>
    /\ UNCHANGED opus

Next == Read \/ Decode \/ NextPage \/ Give \/ PcmSeek \/ Bisect \/ Scan \/ Found \/ Skip

Spec == Init /\ [][Next]_ovars

---------------------------------------------------------------------------
(* Properties *)

(* opusfile.h:1627: "decoding will begin at exactly the requested position"*)
(* and from there goes on without a hole, to the end.                      *)
BeginsExactly == pc = "read" /\ of.buffer # <<>> => Head(of.buffer) = goal

(* The same but for a seek forward while samples are left in the buffer:   *)
(* those are given though they are before the place (cur_discard_count is  *)
(* about packets that are still to be decoded).  Each seek to a sample of  *)
(* the file finds it, and op_pcm_tell always says what is expected: the    *)
(* end, when so many were given too early that as many are missing there.  *)
Exact ==
    /\ pc # "badlink"
    /\ pc = "idle" => PcmTell(of) = Lesser(goal, PcmEnd)
    /\ pc = "read" /\ of.buffer # <<>> /\ of.discard = 0 => Head(of.buffer) = goal

(* The decoder has decoded 80 ms before a sample it gives after a seek, or *)
(* everything from the beginning (opusfile.h:1601), unless a second seek   *)
(* came before those were read and went back among them.                   *)
Converged ==
    pc = "read" /\ of.buffer # <<>> /\ of.discard = 0 /\ ~rushed =>
        \/ of.decoded.from = PcmStart
        \/ Head(of.buffer) - of.decoded.from >= PreRoll

(* Every round of the search leaves less to search: fewer bytes between    *)
(* begin and end, or as many and a place nearer to begin, in which case it *)
(* goes on from there.  So it comes to an end, wherever it guesses.        *)
Narrows ==
    [][pc = "scan" /\ s.begin < s.end =>
        \/ s'.end - s'.begin < s.end - s.begin
        \/ s'.end - s'.begin = s.end - s.begin /\ s'.bisect < s.bisect /\ pc' = "scan"]_ovars
=============================================================================
