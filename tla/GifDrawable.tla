--------------------------- MODULE GifDrawable ----------------------------
(***************************************************************************)
(* The animated pictures of a chat: GifDrawable.java draws them, gif.c     *)
(* reads them frame by frame out of the file, and giflib's DGifGetImageDesc*)
(* and DGifGetLine leave the file where the next frame begins.  Each frame *)
(* is drawn over what the frames before it left on the one canvas, with a  *)
(* second buffer for frames that are to be put back, and the only index    *)
(* into the file is how far it was read.                                   *)
(*                                                                         *)
(* Everything runs on the UI thread.  A seek reads several frames in one   *)
(* go; each of them is a step here, and nothing else moves meanwhile.      *)
(* Time is what getRealTime() makes of it: the next frame is due or not    *)
(* yet due.                                                                *)
(***************************************************************************)
EXTENDS Integers, Sequences

CONSTANTS
    Width, Height,      \* the screen of the picture
    Pictures,           \* the pictures, each a sequence of frames,
    MaxFrames,          \* of which it has no more than so many
    LoopCounts,         \* what its NETSCAPE2.0 extension says (0: for ever)
    MaxCalls            \* bound on start, stop, reset and the seeks

Pixels == (0 .. Width - 1) \X (0 .. Height - 1)

(* A frame: where it lies, what becomes of it, whether it has a transparent*)
(* index, and which pixels of the screen have that index.  Each frame here *)
(* has its graphics control extension: gif.c reads infos[] of it.          *)
ImageType == [left: 0 .. Width - 1, top: 0 .. Height - 1, width: 1 .. Width,
              height: 1 .. Height, disposal: 0 .. 3, transparent: BOOLEAN,
              holes: SUBSET Pixels]

PicturesAssumption ==
    /\ \A p \in Pictures : p \in Seq(ImageType) /\ Len(p) \in 1 .. MaxFrames
    /\ MaxFrames \in Nat
    /\ LoopCounts \subseteq Nat
    /\ MaxCalls \in Nat

(* Only the transparent index, where a frame has one, leaves pixels out.   *)
HolesAssumption ==
    \A p \in Pictures : \A k \in 1 .. Len(p) : ~p[k].transparent => p[k].holes = {}

VARIABLES
    images,             \* the frames in the file
    loopCount,          \* its loop count
    whole,              \* is the last frame's data all there
    filePos,            \* the frame whose records are read next
    currentIndex,       \* GifInfo.currentIndex
    currentLoop,        \* GifInfo.currentLoop
    saved,              \* is GifInfo.lastFrameReaminder set
    due,                \* getRealTime() >= GifInfo.nextStartTime
    target,             \* the index a seek is on its way to, or NoTarget
    canvas, backup,     \* mColors and GifInfo.backupPtr
    drawn, screen,      \* the last frame drawn, and what the rules of the
                        \* format make of the screen (history)
    mIsRunning, delay,  \* delay: mMetaData[4], -1 or at least 0
    posted,             \* an mInvalidateTask waits on UI_HANDLER
    dirty,              \* the view is to be drawn
    calls               \* of start, stop, reset and the seeks so far

file   == <<images, loopCount, whole>>
native == <<filePos, currentIndex, currentLoop>>
times  == <<saved, due>>
view   == <<mIsRunning, delay, posted, dirty>>
picture == <<canvas, backup, drawn, screen>>
vars   == <<file, native, times, target, picture, view, calls>>

Clear      == 0         \* packARGB32(&color, 0, 0, 0, 0)
Background == -1        \* getColorFromTable(SBackGroundColor)
NoTarget   == -1
ImageCount == Len(images)

---------------------------------------------------------------------------
(* The picture *)

(* What getAddr, copyWidth and copyHeight leave of a frame's rectangle: the*)
(* part that lies on the screen.                                           *)
Area(f) == {p \in Pixels : /\ f.left <= p[1] /\ p[1] < f.left + f.width
                           /\ f.top <= p[2] /\ p[2] < f.top + f.height}

(* checkIfCover: on the rectangles as they are, clipped or not.            *)
CheckIfCover(f, covered) ==
    /\ f.left <= covered.left
    /\ covered.left + covered.width <= f.left + f.width
    /\ f.top <= covered.top
    /\ covered.top + covered.height <= f.top + f.height

EraseColor(colour) == [p \in Pixels |-> colour]

(* drawFrame, blitNormal and copyLine.  The colours are those of the frame *)
(* the raster was decoded from, the place is that of the frame shown.      *)
DrawFrame(bm, f, raster) ==
    [p \in Pixels |-> IF p \in Area(f) /\ p \notin images[raster].holes
                      THEN raster ELSE bm[p]]

FillRect(bm, f, colour) ==
    [p \in Pixels |-> IF p \in Area(f) THEN colour ELSE bm[p]]

(* Mutant: an opaque cover is taken for granted.                           *)
DisposeFrameIfNeeded_TrustsCover(i) ==
    LET cleared == IF images[i].disposal = 2 /\ ~CheckIfCover(images[i + 1], images[i])
                   THEN FillRect(canvas, images[i], Clear)
                   ELSE canvas
    IN  [bm |-> cleared, backup |-> IF images[i + 1].disposal = 3 THEN cleared ELSE backup]

(* What is done with frame i before frame i + 1 is drawn.  Disposal 3 swaps*)
(* two local pointers: the caller goes on to draw on the canvas as it is,  *)
(* unless the next frame has disposal 3 as well, when what is copied for   *)
(* it goes the other way, from the backup to the canvas.                   *)
DisposeFrameIfNeeded(i) ==
    LET cur     == images[i]
        next    == images[i + 1]
        seen    == next.transparent \/ ~CheckIfCover(next, cur)
        cleared == IF cur.disposal = 2 /\ seen THEN FillRect(canvas, cur, Clear) ELSE canvas
    IN  CASE next.disposal # 3
                -> [bm |-> cleared, backup |-> backup]
          [] next.disposal = 3 /\ cur.disposal = 3 /\ seen
                -> [bm |-> backup, backup |-> backup]
          [] OTHER
                -> [bm |-> cleared, backup |-> cleared]

(* getBitmap once a frame is decoded: i counts from 0 as in the code.      *)
Blank(f) == EraseColor(IF f.transparent THEN Clear ELSE Background)

Bitmap(i, raster) ==
    LET base == IF i = 0
                THEN [bm |-> Blank(images[1]), backup |-> backup]
                ELSE DisposeFrameIfNeeded(i)
    IN  [base EXCEPT !.bm = DrawFrame(@, images[i + 1], raster)]

(* What the screen shows by the rules of the format (gif_lib.h, lines 111  *)
(* to 114): each frame over what the one before it left, which was kept,   *)
(* cleared, or put back to what it was drawn over.                         *)
Shown(k) ==
    LET under == CASE k = 1
                        -> Blank(images[1])
                   [] k # 1 /\ images[drawn].disposal = 2
                        -> FillRect(screen.over, images[drawn], Clear)
                   [] k # 1 /\ images[drawn].disposal = 3
                        -> screen.under
                   [] OTHER
                        -> screen.over
    IN  [under |-> under, over |-> DrawFrame(under, images[k], k)]

---------------------------------------------------------------------------
(* Reading the file *)

Readable(p) == p < ImageCount \/ (p = ImageCount /\ whole)

(* DDGifSlurp with shouldDecode, called by getBitmap for index i, and what *)
(* getBitmap draws.  When the data of a frame ends too soon the file is at *)
(* its end: that read and each one after it fails, and nothing is drawn.   *)
GetBitmap(i) ==
    IF Readable(filePos)
    THEN /\ LET b == Bitmap(i, filePos) IN canvas' = b.bm /\ backup' = b.backup
         /\ drawn' = i + 1 /\ screen' = Shown(i + 1)
         /\ IF i >= ImageCount - 1
            THEN /\ currentLoop' = currentLoop + (IF loopCount > 0 THEN 1 ELSE 0)
                 /\ filePos' = 1
            ELSE /\ filePos' = filePos + 1
                 /\ UNCHANGED currentLoop
    ELSE /\ filePos' = ImageCount + 1
         /\ UNCHANGED <<picture, currentLoop>>

(* setupBackupBmp, for the first frame with disposal 3 (where there is none*)
(* there is no backup, and it is never read).                              *)
IsBackup(b) ==
    \/ \E k \in 1 .. ImageCount : /\ images[k].disposal = 3
                                  /\ \A j \in 1 .. k - 1 : images[j].disposal # 3
                                  /\ b = Blank(images[k])
    \/ b = EraseColor(Clear) /\ \A k \in 1 .. ImageCount : images[k].disposal # 3

(* open: the file is scanned to its end for the frames, and rewound.  A    *)
(* frame whose data is cut off is counted.                                 *)
Init ==
    /\ images \in Pictures
    /\ loopCount \in LoopCounts
    /\ whole \in BOOLEAN
    /\ filePos = 1 /\ currentIndex = -1 /\ currentLoop = -1
    /\ saved = FALSE /\ due = TRUE
    /\ target = NoTarget
    /\ canvas = EraseColor(Clear) /\ drawn = 0
    /\ backup \in {EraseColor(Clear), EraseColor(Background)} /\ IsBackup(backup)
    /\ screen = [under |-> canvas, over |-> canvas]
    /\ mIsRunning = TRUE /\ delay = 0
    /\ posted = FALSE /\ dirty = TRUE
    /\ calls = 0

(* draw: renderFrame when it runs, and a task for the next frame.          *)
Redraws == due /\ currentLoop < loopCount

RenderFrame ==
    IF Redraws
    THEN LET i == IF currentIndex + 1 >= ImageCount THEN 0 ELSE currentIndex + 1
         IN  /\ currentIndex' = i
             /\ GetBitmap(i)
             /\ due' = FALSE
             /\ delay' = 0
    ELSE /\ delay' \in (IF due THEN {-1, 0} ELSE {0})   \* nextStartTime - rt
         /\ UNCHANGED <<native, picture, due>>

Draw ==
    /\ target = NoTarget
    /\ IF mIsRunning
       THEN RenderFrame
       ELSE delay' = -1 /\ UNCHANGED <<native, picture, due>>
    /\ posted' = (posted \/ (delay' >= 0 /\ ImageCount > 1))
    /\ dirty' = FALSE
    /\ UNCHANGED <<file, saved, target, mIsRunning, calls>>

(* mInvalidateTask *)
Invalidate ==
    /\ target = NoTarget
    /\ posted
    /\ posted' = FALSE
    /\ dirty' = TRUE
    /\ UNCHANGED <<file, native, times, target, picture, mIsRunning, delay, calls>>

TimePasses ==
    /\ ~due
    /\ due' = TRUE
    /\ UNCHANGED <<file, native, saved, target, picture, view, calls>>

---------------------------------------------------------------------------
(* The calls *)

Call == target = NoTarget /\ calls < MaxCalls /\ calls' = calls + 1

(* Mutant: the view is not asked to draw.                                  *)
Start_NoInvalidate ==
    /\ Call
    /\ ~mIsRunning
    /\ mIsRunning' = TRUE
    /\ IF saved THEN due' \in BOOLEAN ELSE UNCHANGED due
    /\ saved' = FALSE
    /\ delay' = 0
    /\ UNCHANGED <<file, native, target, picture, posted, dirty>>

(* start and mStartTask.  restoreRemainder adds what saveRemainder took:   *)
(* whatever the clock said then, the frame may be due now or later.        *)
Start ==
    /\ Call
    /\ ~mIsRunning
    /\ mIsRunning' = TRUE
    /\ IF saved THEN due' \in BOOLEAN ELSE UNCHANGED due
    /\ saved' = FALSE
    /\ dirty' = TRUE
    /\ delay' = 0
    /\ UNCHANGED <<file, native, target, picture, posted>>

(* stop and mSaveRemainderTask.  A remainder of -1 is ULONG_MAX, which is  *)
(* taken for none.                                                         *)
Stop ==
    /\ Call
    /\ mIsRunning' = FALSE
    /\ saved' \in (IF due THEN {TRUE} ELSE BOOLEAN)
    /\ UNCHANGED <<file, native, due, target, picture, delay, posted, dirty>>

(* Mutant: the file is not rewound.                                        *)
Reset_NotRewound ==
    /\ Call
    /\ currentIndex' = -1 /\ currentLoop' = -1
    /\ due' = TRUE
    /\ UNCHANGED <<file, filePos, saved, target, picture, view>>

Reset ==
    /\ Call
    /\ filePos' = 1
    /\ currentIndex' = -1 /\ currentLoop' = -1
    /\ due' = TRUE
    /\ UNCHANGED <<file, saved, target, picture, view>>

(* seekToFrame goes forward only.  It also asks for the view to be drawn.  *)
SeekToFrame ==
    /\ Call
    /\ \E desired \in 0 .. ImageCount :
        IF desired <= currentIndex \/ ImageCount <= 1
        THEN UNCHANGED <<times, target>>
        ELSE /\ LET last == IF desired >= ImageCount THEN ImageCount - 1 ELSE desired
                IN  target' = (IF currentIndex < last THEN last ELSE NoTarget)
             /\ saved' = TRUE               \* lastFrameReaminder = 0
             /\ due' = FALSE
    /\ dirty' = TRUE
    /\ UNCHANGED <<file, native, picture, mIsRunning, delay, posted>>

(* seekToTime to a place within frame i.  Its loop goes on while           *)
(* currentIndex <= i: it draws one frame more.  The last frame is left out:*)
(* there the loop asks for a frame behind the last.                        *)
SeekToTime ==
    /\ Call
    /\ ImageCount > 1
    /\ \E i \in 0 .. ImageCount - 2 :
        IF i < currentIndex
        THEN UNCHANGED <<times, target>>
        ELSE /\ target' = (IF i > currentIndex THEN i + 1 ELSE NoTarget)
             /\ saved' = TRUE
             /\ due' \in BOOLEAN            \* no time may be left of frame i
    /\ dirty' = TRUE
    /\ UNCHANGED <<file, native, picture, mIsRunning, delay, posted>>

(* The loops of both: one frame at a time.                                 *)
Seeking ==
    /\ target # NoTarget
    /\ currentIndex' = currentIndex + 1
    /\ GetBitmap(currentIndex + 1)
    /\ target' = (IF currentIndex + 1 = target THEN NoTarget ELSE target)
    /\ UNCHANGED <<file, times, view, calls>>

Next == Draw \/ Invalidate \/ TimePasses \/ Start \/ Stop \/ Reset
        \/ SeekToFrame \/ SeekToTime \/ Seeking

Spec == Init /\ [][Next]_vars

(* The looper runs what is posted and draws what is invalid; the clock goes*)
(* on; a call of C returns.                                                *)
FairSpec == /\ Spec
            /\ WF_vars(dirty /\ Draw) /\ WF_vars(Invalidate)
            /\ WF_vars(TimePasses) /\ WF_vars(Seeking)

---------------------------------------------------------------------------
(* Properties *)

(* The whole state is well typed.                                          *)
TypeOK ==
    /\ images \in Seq(ImageType) /\ ImageCount \in 1 .. MaxFrames
    /\ loopCount \in LoopCounts /\ whole \in BOOLEAN
    /\ filePos \in 1 .. ImageCount + 1
    /\ currentIndex \in -1 .. ImageCount - 1
    /\ currentLoop \in Int /\ currentLoop >= -1
    /\ saved \in BOOLEAN /\ due \in BOOLEAN
    /\ target \in NoTarget .. ImageCount - 1
    /\ {canvas, backup} \subseteq [Pixels -> Background .. ImageCount]
    /\ drawn \in 0 .. ImageCount
    /\ screen \in [under : [Pixels -> Background .. ImageCount],
                   over : [Pixels -> Background .. ImageCount]]
    /\ mIsRunning \in BOOLEAN /\ delay \in {-1, 0}
    /\ posted \in BOOLEAN /\ dirty \in BOOLEAN
    /\ calls \in 0 .. MaxCalls

(* The file stands where the frame after currentIndex begins: a frame is   *)
(* decoded by whoever reads the file next, so an index that got ahead of   *)
(* the file, or a rewind without a reset, would show every later frame in  *)
(* the place, and with the colours, of another.                            *)
InStep ==
    whole => filePos = (IF currentIndex = ImageCount - 1 THEN 1 ELSE currentIndex + 2)

(* Whatever was drawn, left out, sought, reset or could not be read, the   *)
(* canvas shows the picture as it is after the last frame drawn.  gif.c    *)
(* does not clear a frame that the next one covers; and it does not always *)
(* put back what was under a frame: pictures that ask for this are left    *)
(* out.                                                                    *)
CanvasRight ==
    (\A k \in 1 .. ImageCount : images[k].disposal # 3) => canvas = screen.over

(* gif_lib.h:114: disposal 3 is to "Restore to previous content".  It does *)
(* not after a frame of disposal 3 that one of another disposal follows.   *)
RestoresPrevious == canvas = screen.over

(* A picture without end that runs goes on to the next frame: each draw has*)
(* another one follow, start has the first, and no pause, seek or reset    *)
(* between them loses the thread.  (One whose loops are over asks for no   *)
(* more draws, and its reset does not either: it stays as it is.)          *)
KeepsPlaying ==
    \A k \in -1 .. MaxFrames - 1 :
        (mIsRunning /\ currentIndex = k /\ ImageCount > 1 /\ loopCount = 0)
            ~> (~mIsRunning \/ currentIndex # k)
=============================================================================
