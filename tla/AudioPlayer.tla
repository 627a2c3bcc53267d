---------------------------- MODULE AudioPlayer ----------------------------
(***************************************************************************)
(* Voice messages being played: MediaController.java's three threads (the  *)
(* UI, fileDecodingQueue and playerQueue) around the one open file of      *)
(* audio.c.  The decoder fills a few buffers with the pieces of the file,  *)
(* the player writes them to an AudioTrack, and both keep posting each     *)
(* other.  The user plays, pauses, seeks and stops meanwhile.              *)
(*                                                                         *)
(* A place in a file is a number of samples; a sample is two bytes.        *)
(* The progress that is shown (lastPlayPcm and its timer), files that are  *)
(* not Opus (MediaPlayer) and files that do not open are left out.         *)
(***************************************************************************)
EXTENDS Integers, Sequences

CONSTANTS
    Messages, NoMessage,
    Totals,             \* the lengths a file may have, in samples
    Capacity,           \* playerBufferSize, in samples
    Buffers,            \* how many there are: 3 in the code
    MaxCalls            \* bound on the user's calls

ASSUME AudioAssumption ==
    /\ NoMessage \notin Messages
    /\ Totals \subseteq Nat \ {0}
    /\ Capacity \in Nat \ {0} /\ Buffers \in Nat \ {0} /\ MaxCalls \in Nat

VARIABLES
    total,              \* the length of each message's file
    playing,            \* playingMessageObject
    isPaused,
    track,              \* audioTrackPlayer, or NoTrack
    opening,            \* the playAudio under way, or NoOpening
    uiQueue,            \* runnables posted to the UI thread
    opusFile,           \* audio.c: the open file, where it is read next,
                        \* and _finished
    decodeQueue,        \* fileDecodingQueue: its tasks, the first one running
    was,                \* checkDecoderQueue's local, once its loop goes
    decodingFinished,
    free, used,         \* how many free buffers; the filled ones
    playerTasks,        \* checkPlayerQueue's runnables in playerQueue
    hand,               \* the buffer the player thread has, or NoBuffer
    from, clean, cut,   \* history: where the playing began, whether nothing
                        \* else was under way then, a write fell short since
    calls

ui      == <<playing, isPaused, track, opening>>
decoder == <<opusFile, was, decodingFinished>>
player  == <<playerTasks, hand>>
history == <<from, clean, cut>>
vars    == <<total, ui, uiQueue, decodeQueue, decoder, free, used, player,
             history, calls>>

NoTrack   == [state |-> "none", marker |-> FALSE, written |-> <<>>]
NoOpening == [message |-> NoMessage, at |-> 0, locked |-> FALSE]
NoBuffer  == [pcmOffset |-> -1, size |-> 0, finished |-> FALSE, done |-> FALSE]
Looping   == {"looping", "loopingWas"}

Shorter(a, b) == IF a < b THEN a ELSE b

Check       == [kind |-> "check", message |-> NoMessage, at |-> 0]
Open(m)     == [kind |-> "open", message |-> m, at |-> 0]
Restart(s)  == [kind |-> "restart", message |-> NoMessage, at |-> s]
Seek(s)     == [kind |-> "seek", message |-> NoMessage, at |-> s]

Init ==
    /\ total \in [Messages -> Totals]
    /\ playing = NoMessage /\ isPaused = FALSE
    /\ track = NoTrack /\ opening = NoOpening /\ uiQueue = <<>>
    /\ opusFile = [message |-> NoMessage, pos |-> 0, finished |-> FALSE]
    /\ decodeQueue = <<>> /\ was = "idle" /\ decodingFinished = FALSE
    /\ free = Buffers /\ used = <<>>
    /\ playerTasks = 0 /\ hand = NoBuffer
    /\ from = 0 /\ clean = FALSE /\ cut = FALSE
    /\ calls = 0

---------------------------------------------------------------------------
(* audio.c *)

(* Mutant: the second test takes any end behind the file's for its end.    *)
FillBuffer_Beyond ==
    LET t == total[opusFile.message]
        n == Shorter(Capacity, t - opusFile.pos)
    IN  IF opusFile.finished
        THEN [pcmOffset |-> 0, size |-> 0, finished |-> TRUE, done |-> FALSE]
        ELSE [pcmOffset |-> opusFile.pos, size |-> n, done |-> FALSE,
              finished |-> n < Capacity \/ opusFile.pos + 2 * n >= t]

(* fillBuffer: what is read, and whether it is the end.  The offset of the *)
(* second test is a number of samples, what was written one of bytes.      *)
FillBuffer ==
    LET t == total[opusFile.message]
        n == Shorter(Capacity, t - opusFile.pos)
    IN  IF opusFile.finished
        THEN [pcmOffset |-> 0, size |-> 0, finished |-> TRUE, done |-> FALSE]
        ELSE [pcmOffset |-> opusFile.pos, size |-> n, done |-> FALSE,
              finished |-> n < Capacity \/ opusFile.pos + 2 * n = t]

(* initPlayer *)
InitPlayer(m) == [message |-> m, pos |-> 0, finished |-> FALSE]

---------------------------------------------------------------------------
(* fileDecodingQueue *)

(* checkDecoderQueue *)
CheckDecoderQueue ==
    /\ decodeQueue # <<>> /\ Head(decodeQueue).kind = "check"
    /\ was = "idle"
    /\ IF decodingFinished
       THEN /\ decodeQueue' = Tail(decodeQueue)
            /\ playerTasks' = playerTasks + 1
            /\ UNCHANGED was
       ELSE was' = "looping" /\ UNCHANGED <<decodeQueue, playerTasks>>
    /\ UNCHANGED <<total, ui, uiQueue, opusFile, decodingFinished, free, used,
                   hand, history, calls>>

(* How its loop ends: with something to play, the player is told.          *)
LoopEnds(sawUsed) ==
    /\ was' = "idle"
    /\ decodeQueue' = Tail(decodeQueue)
    /\ playerTasks' = playerTasks + (IF sawUsed THEN 1 ELSE 0)

(* Mutant: an empty buffer is dropped.                                     *)
DecoderLoop_Leaks ==
    /\ was \in Looping
    /\ LET sawUsed == was = "loopingWas" \/ used # <<>>
           b == FillBuffer
       IN  IF free = 0
           THEN LoopEnds(sawUsed) /\ UNCHANGED <<opusFile, decodingFinished, free, used>>
           ELSE /\ opusFile' = [opusFile EXCEPT !.pos = @ + b.size,
                                                !.finished = @ \/ b.finished]
                /\ decodingFinished' = (decodingFinished \/ b.finished)
                /\ free' = free - 1
                /\ IF b.size # 0
                   THEN /\ used' = Append(used, b)
                        /\ was' = "loopingWas"
                        /\ UNCHANGED <<decodeQueue, playerTasks>>
                   ELSE LoopEnds(sawUsed) /\ UNCHANGED used
    /\ UNCHANGED <<total, ui, uiQueue, hand, history, calls>>

(* One turn of its loop: a free buffer is filled and handed to the player. *)
DecoderLoop ==
    /\ was \in Looping
    /\ LET sawUsed == was = "loopingWas" \/ used # <<>>
           b == FillBuffer
       IN  IF free = 0
           THEN LoopEnds(sawUsed) /\ UNCHANGED <<opusFile, decodingFinished, free, used>>
           ELSE /\ opusFile' = [opusFile EXCEPT !.pos = @ + b.size,
                                                !.finished = @ \/ b.finished]
                /\ decodingFinished' = (decodingFinished \/ b.finished)
                /\ IF b.size # 0
                   THEN /\ used' = Append(used, b) /\ free' = free - 1
                        /\ was' = "loopingWas"
                        /\ UNCHANGED <<decodeQueue, playerTasks>>
                   ELSE LoopEnds(sawUsed) /\ UNCHANGED <<free, used>>
    /\ UNCHANGED <<total, ui, uiQueue, hand, history, calls>>

(* openOpusFile, for which playAudio waits.                                *)
OpenFile ==
    /\ decodeQueue # <<>> /\ Head(decodeQueue).kind = "open"
    /\ opusFile' = InitPlayer(Head(decodeQueue).message)
    /\ decodeQueue' = Tail(decodeQueue)
    /\ UNCHANGED <<total, ui, uiQueue, was, decodingFinished, free, used,
                   player, history, calls>>

(* Nothing else is under way: no buffer on its way to the track, nothing   *)
(* written to it, no marker about to be set, no seek that follows at once, *)
(* and the file is where it was put.                                       *)
Undisturbed(pos) ==
    /\ hand = NoBuffer /\ track.written = <<>> /\ ~track.marker
    /\ uiQueue = <<>> /\ ~opusFile.finished
    /\ \A i \in 2 .. Len(decodeQueue) : decodeQueue[i].kind # "seek"
    /\ opusFile'.pos = pos

(* A message begins where it was stopped, if it is not stopped again.      *)
StartsAt == IF playing = NoMessage THEN 0 ELSE Head(decodeQueue).at

(* Mutant: the buffers of before are kept.                                 *)
RestartFile_KeepsUsed ==
    /\ decodeQueue # <<>> /\ Head(decodeQueue).kind = "restart"
    /\ LET s == StartsAt
       IN  /\ opusFile' = [opusFile EXCEPT !.pos = IF s # 0 THEN s ELSE @]
           /\ from' = s /\ cut' = FALSE
           /\ clean' = (track # NoTrack /\ Undisturbed(s))
    /\ decodingFinished' = FALSE
    /\ playerTasks' = playerTasks + 1
    /\ decodeQueue' = Tail(decodeQueue)
    /\ UNCHANGED <<total, ui, uiQueue, was, free, used, hand, calls>>

(* The last part of playAudio.                                             *)
RestartFile ==
    /\ decodeQueue # <<>> /\ Head(decodeQueue).kind = "restart"
    /\ LET s == StartsAt
       IN  /\ opusFile' = [opusFile EXCEPT !.pos = IF s # 0 THEN s ELSE @]
           /\ from' = s /\ cut' = FALSE
           /\ clean' = (track # NoTrack /\ Undisturbed(s))
    /\ free' = free + Len(used) /\ used' = <<>>
    /\ decodingFinished' = FALSE
    /\ playerTasks' = playerTasks + 1
    /\ decodeQueue' = Tail(decodeQueue)
    /\ UNCHANGED <<total, ui, uiQueue, was, hand, calls>>

(* The task of seekOpusPlayer.  Neither _finished nor decodingFinished is  *)
(* taken back.                                                             *)
SeekFile ==
    /\ decodeQueue # <<>> /\ Head(decodeQueue).kind = "seek"
    /\ LET s == Head(decodeQueue).at
       IN  /\ opusFile' = [opusFile EXCEPT !.pos = s]
           /\ from' = s /\ cut' = FALSE
           /\ clean' = (track # NoTrack /\ Undisturbed(s) /\ ~decodingFinished)
    /\ free' = free + Len(used) /\ used' = <<>>
    /\ uiQueue' = Append(uiQueue, "sought")
    /\ decodeQueue' = Tail(decodeQueue)
    /\ UNCHANGED <<total, ui, was, decodingFinished, player, calls>>

---------------------------------------------------------------------------
(* playerQueue *)

(* checkPlayerQueue, up to the buffer it takes.                            *)
CheckPlayerQueue ==
    /\ playerTasks > 0 /\ hand = NoBuffer
    /\ ~opening.locked                      \* playerObjectSync
    /\ IF track.state # "playing"
       THEN playerTasks' = playerTasks - 1 /\ UNCHANGED <<decodeQueue, used, hand>>
       ELSE IF used # <<>>
       THEN hand' = Head(used) /\ used' = Tail(used) /\ UNCHANGED <<decodeQueue, playerTasks>>
       ELSE /\ playerTasks' = playerTasks - 1
            /\ decodeQueue' = Append(decodeQueue, Check)
            /\ UNCHANGED <<used, hand>>
    /\ UNCHANGED <<total, ui, uiQueue, decoder, free, history, calls>>

(* How much of a buffer the track takes.  It waits for room as long as it  *)
(* plays; a write to a paused one may be cut short; without one it throws. *)
Count(b) ==
    CASE track.state = "playing" -> {b.size}
      [] track.state = "paused"  -> 0 .. b.size
      [] OTHER                   -> {0}

(* What it does with the buffer: the write, to whatever track there is by  *)
(* then, and what it posts.                                                *)
WriteTrack ==
    /\ hand # NoBuffer /\ ~hand.done
    /\ \E count \in Count(hand) :
        /\ track' = IF count = 0 THEN track
                    ELSE [track EXCEPT !.written =
                            Append(@, [pcmOffset |-> hand.pcmOffset, size |-> count])]
        /\ cut' = (cut \/ count < hand.size)
        /\ uiQueue' = IF count > 0 /\ hand.finished THEN Append(uiQueue, "marker") ELSE uiQueue
    /\ IF hand.finished
       THEN playerTasks' = playerTasks - 1 /\ UNCHANGED decodeQueue
       ELSE decodeQueue' = Append(decodeQueue, Check) /\ UNCHANGED playerTasks
    /\ hand' = [hand EXCEPT !.done = TRUE]
    /\ UNCHANGED <<total, playing, isPaused, opening, decoder, free, used,
                   from, clean, calls>>

ReturnBuffer ==
    /\ hand.done
    /\ hand' = NoBuffer
    /\ free' = free + 1
    /\ UNCHANGED <<total, ui, uiQueue, decodeQueue, decoder, used, playerTasks,
                   history, calls>>

---------------------------------------------------------------------------
(* The UI thread: what was posted to it *)

Idle == opening = NoOpening

(* The end of the last piece: the track is to tell when it plays.          *)
SetMarker ==
    /\ Idle /\ uiQueue # <<>> /\ Head(uiQueue) = "marker"
    /\ uiQueue' = Tail(uiQueue)
    /\ track' = IF track = NoTrack THEN track ELSE [track EXCEPT !.marker = TRUE]
    /\ UNCHANGED <<total, playing, isPaused, opening, decodeQueue, decoder, free,
                   used, player, history, calls>>

(* The runnable of seekOpusPlayer's task.                                  *)
Sought ==
    /\ Idle /\ uiQueue # <<>> /\ Head(uiQueue) = "sought"
    /\ uiQueue' = Tail(uiQueue)
    /\ IF isPaused
       THEN UNCHANGED <<track, playerTasks>>
       ELSE /\ track' = IF track = NoTrack THEN track ELSE [track EXCEPT !.state = "playing"]
            /\ playerTasks' = playerTasks + 1
    /\ UNCHANGED <<total, playing, isPaused, opening, decodeQueue, decoder, free,
                   used, hand, history, calls>>

(* clenupPlayer and stopAudio *)
CleanupPlayer == playing' = NoMessage /\ isPaused' = FALSE /\ track' = NoTrack

(* onMarkerReached: the head of the track has passed its first frame.      *)
MarkerReached ==
    /\ Idle /\ track.marker /\ track.state = "playing" /\ track.written # <<>>
    /\ CleanupPlayer
    /\ clean' = FALSE
    /\ UNCHANGED <<total, opening, uiQueue, decodeQueue, decoder, free, used,
                   player, from, cut, calls>>

---------------------------------------------------------------------------
(* The UI thread: the user's calls *)

Call == Idle /\ calls < MaxCalls /\ calls' = calls + 1

(* playAudio: the message before is cleaned up, ...                        *)
PlayAudio(m, s) ==
    /\ Call
    /\ m # playing
    /\ CleanupPlayer
    /\ opening' = [message |-> m, at |-> s, locked |-> FALSE]
    /\ clean' = FALSE
    /\ UNCHANGED <<total, uiQueue, decodeQueue, decoder, free, used, player, from, cut>>

(* ... the file is opened by the decoder's thread, under playerObjectSync, *)
PlayAudioOpens ==
    /\ opening # NoOpening /\ ~opening.locked
    /\ opening' = [opening EXCEPT !.locked = TRUE]
    /\ decodeQueue' = Append(decodeQueue, Open(opening.message))
    /\ UNCHANGED <<total, playing, isPaused, track, uiQueue, decoder, free, used,
                   player, history, calls>>

(* ... and when that is done there is a track, and it plays.               *)
PlayAudioStarts ==
    /\ opening.locked
    /\ \A i \in 1 .. Len(decodeQueue) : decodeQueue[i].kind # "open"
    /\ playing' = opening.message /\ isPaused' = FALSE
    /\ track' = [NoTrack EXCEPT !.state = "playing"]
    /\ decodeQueue' = Append(decodeQueue, Restart(opening.at))
    /\ opening' = NoOpening
    /\ UNCHANGED <<total, uiQueue, decoder, free, used, player, history, calls>>

StopAudio ==
    /\ Call
    /\ playing # NoMessage
    /\ CleanupPlayer
    /\ clean' = FALSE
    /\ UNCHANGED <<total, opening, uiQueue, decodeQueue, decoder, free, used,
                   player, from, cut>>

PauseAudio ==
    /\ Call
    /\ playing # NoMessage /\ ~isPaused
    /\ track' = [track EXCEPT !.state = "paused"]
    /\ isPaused' = TRUE
    /\ UNCHANGED <<total, playing, opening, uiQueue, decodeQueue, decoder, free,
                   used, player, history>>

(* Mutant: the player is not woken.                                        *)
ResumeAudio_NoCheck ==
    /\ Call
    /\ playing # NoMessage /\ isPaused
    /\ track' = [track EXCEPT !.state = "playing"]
    /\ isPaused' = FALSE
    /\ UNCHANGED <<total, playing, opening, uiQueue, decodeQueue, decoder, free,
                   used, player, history>>

ResumeAudio ==
    /\ Call
    /\ playing # NoMessage /\ isPaused
    /\ track' = [track EXCEPT !.state = "playing"]
    /\ isPaused' = FALSE
    /\ playerTasks' = playerTasks + 1
    /\ UNCHANGED <<total, playing, opening, uiQueue, decodeQueue, decoder, free,
                   used, hand, history>>

(* seekOpusPlayer.  To the very end it does not go.                        *)
SeekToProgress(s) ==
    /\ Call
    /\ playing # NoMessage /\ s < total[playing]
    /\ track' = [track EXCEPT !.state = "paused", !.written = <<>>]
    /\ decodeQueue' = Append(decodeQueue, Seek(s))
    /\ clean' = FALSE
    /\ UNCHANGED <<total, playing, isPaused, opening, uiQueue, decoder, free,
                   used, player, from, cut>>

User ==
    \/ \E m \in Messages : \E s \in 0 .. total[m] - 1 : PlayAudio(m, s)
    \/ StopAudio \/ PauseAudio \/ ResumeAudio
    \/ \E m \in Messages : \E s \in 0 .. total[m] - 1 : m = playing /\ SeekToProgress(s)

Decodes == CheckDecoderQueue \/ DecoderLoop \/ OpenFile \/ RestartFile \/ SeekFile
Plays   == CheckPlayerQueue \/ WriteTrack \/ ReturnBuffer
UIRuns  == SetMarker \/ Sought \/ PlayAudioOpens \/ PlayAudioStarts

Next == Decodes \/ Plays \/ UIRuns \/ MarkerReached \/ User

Spec == Init /\ [][Next]_vars

(* The three threads run what is posted to them, and the track plays.      *)
FairSpec == /\ Spec
            /\ WF_vars(Decodes) /\ WF_vars(Plays) /\ WF_vars(UIRuns)
            /\ WF_vars(MarkerReached)

---------------------------------------------------------------------------
(* Properties *)

(* Every buffer is free, filled, or in the player's hand: whatever is      *)
(* sought, stopped or started while the threads pass them on, none is lost *)
(* (the decoder would starve) and none is there twice (a piece would be    *)
(* overwritten while it is played).                                        *)
BuffersKept == free + Len(used) + (IF hand = NoBuffer THEN 0 ELSE 1) = Buffers

(* What is heard of a message is the file, from where it was begun or      *)
(* sought, without a hole or a repetition, through all pauses: if nothing  *)
(* of another message or place was under way when it began, and no write   *)
(* was cut short by a pause.                                               *)
Gapless ==
    clean /\ ~cut =>
        \A i \in 1 .. Len(track.written) :
            track.written[i].pcmOffset =
                IF i = 1 THEN from
                ELSE track.written[i - 1].pcmOffset + track.written[i - 1].size

(* Where the pieces from a place on do not come out even.                  *)
Uneven == (total[playing] - from) % Capacity # 0

(* The track is told to stop only when the file was written to its end.    *)
WholeHeard ==
    clean /\ ~cut /\ track.marker /\ Uneven =>
        LET last == track.written[Len(track.written)]
        IN  last.pcmOffset + last.size = total[playing]

(* A message that is not paused for good comes to its end and is put away: *)
(* the two queues never stop posting each other before its last piece.     *)
Finishes ==
    \A m \in Messages :
        (playing = m /\ clean /\ Uneven) ~> (playing # m \/ ~clean \/ isPaused \/ cut)

(* opusfile.h: op_read returns "The number of samples read per channel"    *)
(* (line 1836), and op_pcm_total the "number of samples at 48 kHz" (line   *)
(* 1471): a buffer is the last one when its samples end where the file     *)
(* does.                                                                   *)
FinishedIsTheEnd ==
    \A i \in 1 .. Len(used) :
        used[i].finished /\ clean =>
            used[i].pcmOffset + used[i].size = total[opusFile.message]
=============================================================================
