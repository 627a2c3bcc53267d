--------------------------- MODULE MCGifDrawable ---------------------------
(* GifDrawable for TLC: frames on a screen of two by two pixels that cover *)
(* it, half of it, one pixel, or stick out of it, opaque or with some of   *)
(* their pixels transparent.                                               *)
EXTENDS Integers, Sequences

CONSTANTS
    Width, Height, Pictures, MaxFrames, LoopCounts, MaxGifCalls,
    Disposals                                   \* the disposals of the pictures

VARIABLES
    images, loopCount, gifWhole, filePos, currentIndex, currentLoop, saved, due, gifTarget,
    canvas, backup, drawn, screen, mIsRunning, delay, gifPosted, dirty, gifCalls

Gif == INSTANCE GifDrawable
    WITH MaxCalls <- MaxGifCalls, whole <- gifWhole, target <- gifTarget, posted <- gifPosted,
         calls <- gifCalls

ASSUME GifAssumption == Gif!PicturesAssumption /\ Gif!HolesAssumption

GifSpec     == Gif!Spec
GifFairSpec == Gif!FairSpec

Cover  == [left |-> 0, top |-> 0, width |-> 2, height |-> 2]
Half   == [left |-> 0, top |-> 0, width |-> 1, height |-> 2]
Corner == [left |-> 1, top |-> 1, width |-> 1, height |-> 1]
Beyond == [left |-> 1, top |-> 0, width |-> 2, height |-> 1]
Rects  == {Cover, Half, Corner, Beyond}

Image(r, d, t, h) ==
    [left |-> r.left, top |-> r.top, width |-> r.width, height |-> r.height,
     disposal |-> d, transparent |-> t, holes |-> h]

Frames(R, D) ==
    {Image(r, d, FALSE, {}) : r \in R, d \in D}
        \cup {Image(r, d, TRUE, {<<1, 1>>}) : r \in R, d \in D}

(* One frame; any two; and three of which the first covers the screen and  *)
(* is kept or, where disposal 3 is one of the disposals, to be put back.   *)
(* What is to become of the last frame makes no difference.                *)
MCPictures ==
    {<<f>> : f \in Frames({Cover}, {0})}
        \cup {<<f, g>> : f \in Frames(Rects, Disposals), g \in Frames(Rects, {0})}
        \cup {<<f, g, h>> : f \in Frames({Cover}, Disposals \ {2}),
                            g \in Frames(Rects, Disposals),
                            h \in Frames({Cover, Corner}, {0})}

-----------------------------------------------------------------------------
(* The file stands where the frame after currentIndex begins.              *)
InStep == Gif!InStep

(* The canvas shows the picture as it is after the last frame drawn.       *)
CanvasRight == Gif!CanvasRight

(* A picture without end that runs goes on to the next frame.              *)
KeepsPlaying == Gif!KeepsPlaying

(* gif_lib.h:114: disposal 3 is to "Restore to previous content".          *)
RestoresPrevious == Gif!RestoresPrevious

=============================================================================
