----------------------------- MODULE OggStream -----------------------------
(***************************************************************************)
(* The container of a voice message: libogg's framing.c, as audio.c uses   *)
(* it to write a recording and opusfile.c to read one.  Packets are cut    *)
(* into segments, the segments are gathered into pages; on the other side  *)
(* pages may be missing (a page with a wrong checksum is passed over), and *)
(* packets are put together again.                                         *)
(*                                                                         *)
(* Bytes are pairs of a packet and a place in it, so that what comes out   *)
(* can be told from what went in; nothing in the code looks at them.  A    *)
(* recording is one stream: the serial number and the version of a page    *)
(* always fit.                                                             *)
(***************************************************************************)
EXTENDS Integers, Sequences, FiniteSets, SequencesExt

CONSTANTS
    SegmentSize,        \* the full lacing value: 255
    PageSegments,       \* the most segments a page has: 255
    Gather,             \* packets gathered before a page is cut: 4
    NominalFill,        \* nfill, in bytes: 4096, or audio.c's 255 * 255
    PacketSizes,        \* the sizes of packets, in bytes (the packet of none that
                        \* ends a recording with an empty frame is left out)
    MaxPackets,         \* bound on the packets of a recording
    MaxDamaged          \* bound on the damaged pages of a file

OggAssumption ==
    /\ SegmentSize \in Nat \ {0} /\ PageSegments \in Nat \ {0}
    /\ Gather \in Nat /\ NominalFill \in Nat
    /\ PacketSizes \subseteq Nat \ {0}
    /\ MaxPackets \in Nat /\ MaxDamaged \in Nat

VARIABLES
    in,                 \* the sizes of the packets submitted (history)
    os,                 \* the writer's ogg_stream_state
    file,               \* the pages written
    next,               \* the page ogg_sync_pageseek comes to next
    unsynced,           \* ogg_sync_state.unsynced
    damaged,            \* how many pages were passed over
    rs,                 \* the reader's ogg_stream_state
    out                 \* what ogg_stream_packetout returned: packets and holes

vars == <<in, os, file, next, unsynced, damaged, rs, out>>

NoPosition == -1

Bytes(k, size) == [i \in 1 .. size |-> <<k, i>>]
Lesser(a, b)   == IF a < b THEN a ELSE b

(* The sum of lacing values.                                               *)
Total(vals) ==
    LET upTo[i \in 0 .. Len(vals)] == IF i = 0 THEN 0 ELSE upTo[i - 1] + vals[i]
    IN  upTo[Len(vals)]

(* A lacing value that ends a packet.                                      *)
Ends(val) == val < SegmentSize

Writer == [lacing |-> <<>>, body |-> <<>>, granulepos |-> 0, eos |-> FALSE,
           bos |-> FALSE, pageno |-> 0]
Reader == [lacing |-> <<>>, body |-> <<>>, lacingPacket |-> 0, pageno |-> -1]

Init ==
    /\ in = <<>> /\ os = Writer /\ file = <<>>
    /\ next = 1 /\ unsynced = FALSE /\ damaged = 0
    /\ rs = Reader /\ out = <<>>

---------------------------------------------------------------------------
(* Writing *)

(* ogg_stream_iovecin: the lacing values of a packet, the first of them    *)
(* flagged, the last with its position.  (A packet's number is its own     *)
(* position here: audio.c's grow with each frame, and the header's is 0.)  *)
PacketIn(s, k, size, eos) ==
    LET full    == size \div SegmentSize
        lacing  == [i \in 1 .. full + 1 |->
                     [val     |-> IF i <= full THEN SegmentSize ELSE size % SegmentSize,
                      first   |-> i = 1,
                      granule |-> IF i <= full THEN s.granulepos ELSE k]]
    IN  [s EXCEPT !.lacing = @ \o lacing, !.body = @ \o Bytes(k, size),
                  !.granulepos = k, !.eos = @ \/ eos]

Vals(s, n) == [i \in 1 .. n |-> s.lacing[i].val]

(* packets_done, and packet_just_done, after n values.                     *)
PacketsDone(s, n) == Cardinality({i \in 1 .. n : Ends(s.lacing[i].val)})
JustDone(s, n)    == IF n > 0 /\ Ends(s.lacing[n].val) THEN PacketsDone(s, n) ELSE 0

(* How many segments the next page has, and whether it is full.  The first *)
(* page holds the header packet alone; a later one is cut after a packet,  *)
(* once there is enough on it.                                             *)
Cut(s, nfill) ==
    LET most  == Lesser(PageSegments, Len(s.lacing))
        first == {n \in 1 .. most : Ends(s.lacing[n].val)}
        cuts  == {n \in 0 .. most - 1 : /\ Total(Vals(s, n)) > nfill
                                        /\ JustDone(s, n) >= Gather}
    IN  IF ~s.bos
        THEN [vals |-> IF first # {} THEN Min(first) ELSE most, full |-> FALSE]
        ELSE IF cuts # {}
        THEN [vals |-> Min(cuts), full |-> TRUE]
        ELSE [vals |-> most, full |-> most = PageSegments]

(* The position a page has: that of the last packet that ends on it.       *)
PagePosition(s, n) ==
    LET ends == {i \in 1 .. n : Ends(s.lacing[i].val)}
    IN  IF ~s.bos THEN 0
        ELSE IF ends = {} THEN NoPosition
        ELSE s.lacing[Max(ends)].granule

(* Mutant: each page after the last packet was submitted is the last.      *)
PageOf_EarlyEnd(s, n) ==
    LET bytes == Total(Vals(s, n))
    IN  [continued |-> ~s.lacing[1].first,
         bos       |-> ~s.bos,
         eos       |-> s.eos,
         granule   |-> PagePosition(s, n),
         pageno    |-> s.pageno,
         segments  |-> Vals(s, n),
         body      |-> SubSeq(s.body, 1, bytes)]

(* ogg_stream_flush_i, once it is to construct a page of n segments.       *)
PageOf(s, n) ==
    LET bytes == Total(Vals(s, n))
    IN  [continued |-> ~s.lacing[1].first,
         bos       |-> ~s.bos,
         eos       |-> s.eos /\ Len(s.lacing) = n,
         granule   |-> PagePosition(s, n),
         pageno    |-> s.pageno,
         segments  |-> Vals(s, n),
         body      |-> SubSeq(s.body, 1, bytes)]

Submit ==
    /\ Len(in) < MaxPackets
    /\ ~os.eos
    /\ \E size \in PacketSizes, eos \in BOOLEAN :
        /\ in' = Append(in, size)
        /\ os' = PacketIn(os, Len(in), size, eos)
    /\ UNCHANGED <<file, next, unsynced, damaged, rs, out>>

(* ogg_stream_flush and ogg_stream_pageout: the one forces a page, the     *)
(* other does so at the beginning and at the end.                          *)
WritePage(force) ==
    /\ os.lacing # <<>>
    /\ LET cut == Cut(os, NominalFill)
       IN  /\ force \/ cut.full
           /\ file' = Append(file, PageOf(os, cut.vals))
           /\ os' = [os EXCEPT
                !.lacing = SubSeq(@, cut.vals + 1, Len(@)),
                !.body = SubSeq(@, Total(Vals(os, cut.vals)) + 1, Len(@)),
                !.bos = TRUE, !.pageno = @ + 1]
    /\ UNCHANGED <<in, next, unsynced, damaged, rs, out>>

Flush   == WritePage(TRUE)
PageOut == WritePage(os.eos \/ ~os.bos)

---------------------------------------------------------------------------
(* Reading *)

Hole == [val |-> 0, hole |-> TRUE, bos |-> FALSE, eos |-> FALSE, granule |-> NoPosition]

Segment(val) == [Hole EXCEPT !.val = val, !.hole = FALSE]

(* Mutant: the hole is not noted.                                          *)
Unrolled_Untold(s, pageno) ==
    IF pageno = s.pageno THEN s
    ELSE LET kept  == SubSeq(s.lacing, 1, s.lacingPacket)
             given == SubSeq(s.lacing, s.lacingPacket + 1, Len(s.lacing))
             lost  == Total([i \in 1 .. Len(given) |-> given[i].val])
         IN  [s EXCEPT !.lacing = kept, !.body = SubSeq(@, 1, Len(@) - lost)]

(* A page that does not follow the one before: the packet that was not yet *)
(* whole is given up, and the hole is noted.                               *)
Unrolled(s, pageno) ==
    IF pageno = s.pageno THEN s
    ELSE LET kept  == SubSeq(s.lacing, 1, s.lacingPacket)
             given == SubSeq(s.lacing, s.lacingPacket + 1, Len(s.lacing))
             lost  == Total([i \in 1 .. Len(given) |-> given[i].val])
             told  == IF s.pageno # -1 THEN <<Hole>> ELSE <<>>
         IN  [s EXCEPT !.lacing = kept \o told, !.lacingPacket = @ + Len(told),
                       !.body = SubSeq(@, 1, Len(@) - lost)]

(* Mutant: the rest of a packet is taken for a packet.                     *)
Skipped_None(s, page) == 0

(* How many segments of a page are the rest of a packet whose beginning is *)
(* not there.                                                              *)
Skipped(s, page) ==
    IF /\ page.continued
       /\ s.lacing = <<>> \/ (Last(s.lacing).hole /\ ~Last(s.lacing).eos)
    THEN LET n    == Len(page.segments)
             ends == {i \in 1 .. n : Ends(page.segments[i])}
         IN  IF ends = {} THEN n ELSE Min(ends)
    ELSE 0

(* ogg_stream_pagein *)
PageIn(r, page) ==
    LET s     == Unrolled(r, page.pageno)
        skip  == Skipped(s, page)
        segs  == SubSeq(page.segments, skip + 1, Len(page.segments))
        ends  == {i \in 1 .. Len(segs) : Ends(segs[i])}
        saved == IF ends = {} THEN 0 ELSE Max(ends)
        new   == [i \in 1 .. Len(segs) |->
                   [Segment(segs[i]) EXCEPT
                     !.bos = page.bos /\ i = 1,
                     !.granule = IF i = saved THEN page.granule ELSE NoPosition]]
        all   == s.lacing \o new
    IN  [s EXCEPT
          !.body = @ \o SubSeq(page.body,
                               Total(SubSeq(page.segments, 1, skip)) + 1, Len(page.body)),
          !.lacing = IF page.eos /\ all # <<>>
                     THEN [all EXCEPT ![Len(all)].eos = TRUE] ELSE all,
          !.lacingPacket = IF saved = 0 THEN @ ELSE Len(s.lacing) + saved,
          !.pageno = page.pageno + 1]

(* ogg_sync_pageout and ogg_stream_pagein, when all packets were collected.*)
ReadPage ==
    /\ next <= Len(file)
    /\ rs.lacingPacket = 0
    /\ rs' = PageIn(rs, file[next])
    /\ next' = next + 1 /\ unsynced' = FALSE
    /\ UNCHANGED <<in, os, file, damaged, out>>

(* A page whose checksum is wrong; the first of a row is reported.         *)
PassOver ==
    /\ next <= Len(file) /\ damaged < MaxDamaged
    /\ rs.lacingPacket = 0
    /\ damaged' = damaged + 1
    /\ next' = next + 1 /\ unsynced' = TRUE
    /\ UNCHANGED <<in, os, file, rs, out>>

(* _packetout with adv: a hole, or the segments up to the one that ends.   *)
PacketOut ==
    /\ rs.lacingPacket > 0
    /\ LET ends == {i \in 1 .. Len(rs.lacing) : Ends(rs.lacing[i].val)}
           ptr  == IF rs.lacing[1].hole THEN 1
                   ELSE Min(ends)
           segs == SubSeq(rs.lacing, 1, ptr)
           size == Total([i \in 1 .. ptr |-> segs[i].val])
       IN  /\ out' = Append(out,
                IF rs.lacing[1].hole
                THEN [hole |-> TRUE, body |-> <<>>, granule |-> NoPosition,
                      bos |-> FALSE, eos |-> FALSE]
                ELSE [hole |-> FALSE, body |-> SubSeq(rs.body, 1, size),
                      granule |-> segs[ptr].granule, bos |-> segs[1].bos,
                      eos |-> \E i \in 1 .. ptr : segs[i].eos])
           /\ rs' = [rs EXCEPT
                !.lacing = SubSeq(@, ptr + 1, Len(@)), !.lacingPacket = @ - ptr,
                !.body = SubSeq(@, size + 1, Len(@))]
    /\ UNCHANGED <<in, os, file, next, unsynced, damaged>>

Next == Submit \/ Flush \/ PageOut \/ ReadPage \/ PassOver \/ PacketOut

Spec == Init /\ [][Next]_vars

---------------------------------------------------------------------------
(* Properties *)

Packet(o)  == ~o.hole
Number(o)  == o.body[1][1]

(* A packet that comes out is one that went in, whole: every byte of it,   *)
(* none of another, whatever pages it was spread over and whichever of     *)
(* them are missing.                                                       *)
Whole ==
    \A i \in 1 .. Len(out) :
        Packet(out[i]) => LET k == Number(out[i])
                          IN  out[i].body = Bytes(k, in[k + 1])

(* They come in order, and when one is missing between two of them the     *)
(* decoder was told: it has state of the packet before (framing.c:964-965).*)
HolesTold ==
    \A i, j \in 1 .. Len(out) :
        /\ i < j /\ Packet(out[i]) /\ Packet(out[j])
        /\ \A k \in i + 1 .. j - 1 : Packet(out[k])
        => Number(out[j]) = Number(out[i]) + (j - i)

(* A packet has its own position or none; the last of a page has one.  The *)
(* bounds of the message and every seek in it rest on this.                *)
Positions ==
    \A i \in 1 .. Len(out) :
        Packet(out[i]) => out[i].granule \in {NoPosition, Number(out[i])}

(* With no page missing, nothing is: once all was written and read, the    *)
(* packets that came out are those that went in, the first and the last of *)
(* them flagged, and no hole was told.                                     *)
NothingLost ==
    damaged = 0 /\ os.eos /\ os.lacing = <<>> /\ next > Len(file) /\ rs.lacingPacket = 0
        => /\ Len(out) = Len(in)
           /\ \A i \in 1 .. Len(out) :
                /\ Packet(out[i]) /\ Number(out[i]) = i - 1
                /\ out[i].bos = (i = 1) /\ out[i].eos = (i = Len(out))
=============================================================================
