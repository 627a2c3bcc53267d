----------------------------- MODULE MediaProofs ----------------------------
(***************************************************************************)
(* The proofs about what MCVoice puts together, and about the pictures of  *)
(* MCGifDrawable.                                                          *)
(*                                                                         *)
(* The player of voice messages.  For any number of buffers, of any        *)
(* capacity, for all messages and any number of calls: the three threads   *)
(* lose no buffer and have none twice, the file is not read before one was *)
(* opened, and what is heard is the file without a gap, to its end.        *)
(*                                                                         *)
(* Positions.  For integers of every width: opusfile's arithmetic on       *)
(* positions that wrap around is that of the places they stand for, it     *)
(* fails only when there is no result, and nothing it computes overflows.  *)
(*                                                                         *)
(* The search.  For files of any pages: a seek finds its place, what is    *)
(* read begins there, the decoder had time to settle, and no search goes   *)
(* on for ever.                                                            *)
(*                                                                         *)
(* The container.  For packets and pages of any sizes, and whatever pages  *)
(* are missing: the packets that come out are those that went in, whole    *)
(* and in order, with a hole told of where some are missing, and none is   *)
(* missing when no page is.                                                *)
(*                                                                         *)
(* The animated pictures.  For every picture: the file and the index stay  *)
(* in step, and the canvas is what the format makes of the frames drawn.   *)
(***************************************************************************)
EXTENDS MCVoice, MCGifDrawable, ListsProofs, SequenceTheorems, WellFoundedInduction, TLAPS

MaybeMessage == Messages \cup {NoMessage}

(* A filled buffer has something in it. *)
Piece == [pcmOffset : Int, size : Int \ {0}, finished : BOOLEAN, done : BOOLEAN]

Task ==
    {t \in [kind : {"check", "open", "restart", "seek"}, message : MaybeMessage, at : Int] :
        t.kind = "open" => t.message \in Messages}

(* What the buffers depend on is well typed. *)
Typed ==
    /\ total \in [Messages -> Totals]
    /\ playing \in MaybeMessage
    /\ opening \in [message : MaybeMessage, at : Int, locked : BOOLEAN]
    /\ opening # NoOpening => opening.message \in Messages
    /\ uiQueue \in Seq({"marker", "sought"})
    /\ opusFile \in [message : MaybeMessage, pos : Int, finished : BOOLEAN]
    /\ decodeQueue \in Seq(Task)
    /\ was \in {"idle"} \cup Looping
    /\ decodingFinished \in BOOLEAN
    /\ free \in Nat /\ used \in Seq(Piece)
    /\ playerTasks \in Int
    /\ hand \in Piece \cup {NoBuffer}

(* Before the first file is open nobody reads: nothing is posted to the *)
(* decoder but to open one, and nothing to the player and to the UI. *)
NothingRead ==
    opusFile.message = NoMessage =>
        /\ playing = NoMessage /\ playerTasks = 0 /\ uiQueue = <<>>
        /\ was = "idle" /\ hand = NoBuffer
        /\ \A i \in 1 .. Len(decodeQueue) : decodeQueue[i].kind = "open"
        /\ opening.locked => decodeQueue # <<>>

(* While the decoder's loop goes, its task is the first one in the queue. *)
AtWork == was # "idle" => decodeQueue # <<>> /\ Head(decodeQueue).kind = "check"

IInv == Typed /\ NothingRead /\ AtWork /\ BuffersKept

USE AudioAssumption

-----------------------------------------------------------------------------
(* A buffer is not NoBuffer, nor is it when the player is done with it. *)
LEMMA PieceIsOne ==
    ASSUME NEW p \in Piece
    PROVE  p # NoBuffer /\ [p EXCEPT !.done = TRUE] \in Piece
<1>1. p.size # 0 /\ NoBuffer.size = 0 BY DEF Piece, NoBuffer
<1> QED BY <1>1 DEF Piece

(* The first of a queue is one of it, and so are the others. *)
LEMMA TailOf ==
    ASSUME NEW S, NEW q \in Seq(S), q # <<>>
    PROVE  /\ Head(q) \in S /\ Tail(q) \in Seq(S) /\ Len(Tail(q)) = Len(q) - 1
           /\ Head(q) = q[1] /\ Len(q) \in Nat \ {0}
           /\ \A i \in 1 .. Len(Tail(q)) : Tail(q)[i] = q[i + 1]
OBVIOUS

(* What is read of an open file is a buffer, if it is anything. *)
LEMMA FillBufferType ==
    ASSUME Typed, opusFile.message # NoMessage
    PROVE  /\ FillBuffer.size \in Int /\ FillBuffer.finished \in BOOLEAN
           /\ FillBuffer.size # 0 => FillBuffer \in Piece
<1>1. total[opusFile.message] \in Int /\ Capacity \in Int /\ opusFile.pos \in Int
  <2>1. total \in [Messages -> Totals] /\ opusFile.message \in Messages /\ opusFile.pos \in Int
    BY DEF Typed, MaybeMessage
  <2>2. Totals \subseteq Int /\ Capacity \in Int BY AudioAssumption
  <2> QED BY <2>1, <2>2
<1> DEFINE n == Shorter(Capacity, total[opusFile.message] - opusFile.pos)
           last == n < Capacity \/ opusFile.pos + 2 * n = total[opusFile.message]
<1>2. n \in Int BY <1>1 DEF Shorter
<1>3. last \in BOOLEAN OBVIOUS
<1>4. FillBuffer = IF opusFile.finished
                   THEN [pcmOffset |-> 0, size |-> 0, finished |-> TRUE, done |-> FALSE]
                   ELSE [pcmOffset |-> opusFile.pos, size |-> n, done |-> FALSE,
                         finished |-> last]
  BY DEF FillBuffer
<1> HIDE DEF n, last
<1>5. CASE opusFile.finished
  <2>1. FillBuffer = [pcmOffset |-> 0, size |-> 0, finished |-> TRUE, done |-> FALSE]
    BY <1>4, <1>5
  <2> QED BY <2>1
<1>6. CASE ~opusFile.finished
  <2>1. FillBuffer = [pcmOffset |-> opusFile.pos, size |-> n, done |-> FALSE,
                      finished |-> last]
    BY <1>4, <1>6
  <2> QED BY <1>1, <1>2, <1>3, <2>1 DEF Piece
<1> QED BY <1>5, <1>6

LEMMA InitKeeps == Init => IInv
<1> SUFFICES ASSUME Init PROVE IInv
  OBVIOUS
<1>1. Typed
  <2>1. /\ opening \in [message : MaybeMessage, at : Int, locked : BOOLEAN]
        /\ opening = NoOpening
        /\ opusFile \in [message : MaybeMessage, pos : Int, finished : BOOLEAN]
    BY DEF Init, NoOpening, MaybeMessage
  <2>2. /\ uiQueue \in Seq({"marker", "sought"}) /\ decodeQueue \in Seq(Task)
        /\ used \in Seq(Piece)
    BY EmptySeq DEF Init
  <2>3. /\ total \in [Messages -> Totals] /\ playing \in MaybeMessage
        /\ was \in {"idle"} \cup Looping /\ hand \in Piece \cup {NoBuffer}
    BY DEF Init, MaybeMessage
  <2>4. decodingFinished \in BOOLEAN BY DEF Init
  <2>5. free \in Nat /\ playerTasks \in Int
    <3>1. free = Buffers /\ playerTasks = 0 BY DEF Init
    <3> QED BY <3>1, AudioAssumption
  <2> QED BY <2>1, <2>2, <2>3, <2>4, <2>5 DEF Typed
<1>2. NothingRead /\ AtWork /\ BuffersKept
  BY AudioAssumption, EmptySeq DEF Init, NothingRead, AtWork, BuffersKept, NoOpening
<1> QED BY <1>1, <1>2 DEF IInv

-----------------------------------------------------------------------------
(* What is appended does not change which is the first. *)
LEMMA Appended ==
    ASSUME NEW S, NEW q \in Seq(S), NEW t \in S
    PROVE  /\ Append(q, t) \in Seq(S) /\ Append(q, t) # <<>>
           /\ q # <<>> => Head(Append(q, t)) = Head(q)
           /\ \A i \in 1 .. Len(Append(q, t)) :
                Append(q, t)[i] = t \/ (i \in 1 .. Len(q) /\ Append(q, t)[i] = q[i])
OBVIOUS

(* A task that is not about opening means that a file was opened. *)
LEMMA SomethingPosted ==
    ASSUME Typed, NothingRead, decodeQueue # <<>>, Head(decodeQueue).kind # "open"
    PROVE  opusFile.message # NoMessage
BY TailOf DEF Typed, NothingRead

(* The decoder's thread. *)
LEMMA CheckDecoderQueueKeeps == IInv /\ CheckDecoderQueue => IInv'
<1> SUFFICES ASSUME IInv, CheckDecoderQueue PROVE IInv'
  OBVIOUS
<1>1. /\ Typed /\ NothingRead /\ AtWork /\ BuffersKept
      /\ decodeQueue \in Seq(Task) /\ decodeQueue # <<>> /\ playerTasks \in Int
      /\ Head(decodeQueue).kind = "check"
  BY DEF IInv, Typed, CheckDecoderQueue
<1>2. Tail(decodeQueue) \in Seq(Task) BY <1>1, TailOf
<1>3. /\ UNCHANGED <<total, playing, opening, uiQueue, opusFile, decodingFinished, free, used,
                     hand>>
      /\ decodeQueue' \in Seq(Task) /\ was' \in {"idle"} \cup Looping /\ playerTasks' \in Int
  BY <1>1, <1>2 DEF CheckDecoderQueue, ui, Looping
<1>4. opusFile'.message # NoMessage BY <1>1, <1>3, SomethingPosted
<1>5. Typed' BY <1>1, <1>3 DEF Typed, NoOpening
<1>6. BuffersKept' BY <1>1, <1>3 DEF BuffersKept, NoBuffer
<1>7. was' # "idle" => UNCHANGED decodeQueue BY <1>1 DEF CheckDecoderQueue
<1> QED BY <1>1, <1>4, <1>5, <1>6, <1>7 DEF IInv, NothingRead, AtWork

LEMMA DecoderLoopKeeps == IInv /\ DecoderLoop => IInv'
<1> SUFFICES ASSUME IInv, DecoderLoop PROVE IInv'
  OBVIOUS
<1>1. /\ Typed /\ NothingRead /\ AtWork /\ BuffersKept
      /\ decodeQueue \in Seq(Task) /\ playerTasks \in Int
      /\ used \in Seq(Piece) /\ free \in Nat /\ hand \in Piece \cup {NoBuffer}
      /\ UNCHANGED <<total, playing, opening, uiQueue, hand>>
  BY DEF IInv, Typed, DecoderLoop, ui
<1>2. opusFile.message # NoMessage BY <1>1 DEF DecoderLoop, Looping, NothingRead
<1>3. /\ FillBuffer.size \in Int /\ FillBuffer.finished \in BOOLEAN
      /\ FillBuffer.size # 0 => FillBuffer \in Piece
  BY <1>1, <1>2, FillBufferType
<1>4. opusFile' \in [message : MaybeMessage, pos : Int, finished : BOOLEAN]
      /\ opusFile'.message = opusFile.message /\ decodingFinished' \in BOOLEAN
  <2>1. opusFile \in [message : MaybeMessage, pos : Int, finished : BOOLEAN]
        /\ decodingFinished \in BOOLEAN
    BY <1>1 DEF Typed
  <2>2. \/ UNCHANGED <<opusFile, decodingFinished>>
        \/ /\ opusFile' = [opusFile EXCEPT !.pos = @ + FillBuffer.size,
                                           !.finished = @ \/ FillBuffer.finished]
           /\ decodingFinished' = (decodingFinished \/ FillBuffer.finished)
    BY DEF DecoderLoop
  <2> DEFINE pos == opusFile.pos + FillBuffer.size
             fin == opusFile.finished \/ FillBuffer.finished
  <2>3. pos \in Int /\ fin \in BOOLEAN BY <1>3, <2>1
  <2>4. /\ [opusFile EXCEPT !.pos = pos, !.finished = fin]
               \in [message : MaybeMessage, pos : Int, finished : BOOLEAN]
        /\ [opusFile EXCEPT !.pos = pos, !.finished = fin].message = opusFile.message
    <3> HIDE DEF pos, fin
    <3> QED BY <2>1, <2>3
  <2>5. CASE UNCHANGED <<opusFile, decodingFinished>> BY <2>1, <2>5
  <2>6. CASE /\ opusFile' = [opusFile EXCEPT !.pos = pos, !.finished = fin]
             /\ decodingFinished' = (decodingFinished \/ FillBuffer.finished)
    <3>1. decodingFinished' \in BOOLEAN BY <1>3, <2>1, <2>6
    <3> HIDE DEF pos, fin
    <3> QED BY <2>4, <2>6, <3>1
  <2> QED BY <2>2, <2>5, <2>6
<1>5. /\ decodeQueue' \in Seq(Task) /\ was' \in {"idle"} \cup Looping /\ playerTasks' \in Int
      /\ was' = "idle" \/ UNCHANGED decodeQueue
      /\ decodeQueue # <<>> /\ Head(decodeQueue).kind = "check"
  <2>1. decodeQueue # <<>> /\ Head(decodeQueue).kind = "check"
    BY <1>1 DEF DecoderLoop, Looping, AtWork
  <2>2. Tail(decodeQueue) \in Seq(Task) BY <1>1, <2>1, TailOf
  <2>3. \/ /\ was' = "idle" /\ decodeQueue' = Tail(decodeQueue)
           /\ playerTasks' = playerTasks + (IF was = "loopingWas" \/ used # <<>> THEN 1 ELSE 0)
        \/ was' = "loopingWas" /\ UNCHANGED <<decodeQueue, playerTasks>>
    BY DEF DecoderLoop, LoopEnds
  <2> QED BY <1>1, <2>1, <2>2, <2>3, SMTT(60) DEF Looping
<1>6. \/ UNCHANGED <<free, used>>
      \/ /\ free # 0 /\ FillBuffer \in Piece
         /\ free' = free - 1 /\ used' = Append(used, FillBuffer)
  BY <1>3 DEF DecoderLoop
<1>7. free' \in Nat /\ used' \in Seq(Piece) /\ free' + Len(used') = free + Len(used)
  <2>1. CASE UNCHANGED <<free, used>> BY <1>1, <2>1
  <2>2. CASE /\ free # 0 /\ FillBuffer \in Piece
             /\ free' = free - 1 /\ used' = Append(used, FillBuffer)
    <3>1. used' \in Seq(Piece) /\ Len(used') = Len(used) + 1 /\ Len(used) \in Nat
      BY <1>1, <2>2
    <3> QED BY <1>1, <2>2, <3>1
  <2> QED BY <1>6, <2>1, <2>2
<1>8. Typed' BY <1>1, <1>4, <1>5, <1>7 DEF Typed, NoOpening
<1>9. BuffersKept' BY <1>1, <1>7 DEF BuffersKept, NoBuffer
<1> QED BY <1>2, <1>4, <1>5, <1>8, <1>9 DEF IInv, NothingRead, AtWork

LEMMA OpenFileKeeps == IInv /\ OpenFile => IInv'
<1> SUFFICES ASSUME IInv, OpenFile PROVE IInv'
  OBVIOUS
<1>1. /\ Typed /\ NothingRead /\ AtWork /\ BuffersKept
      /\ decodeQueue \in Seq(Task) /\ decodeQueue # <<>>
      /\ UNCHANGED <<total, playing, opening, uiQueue, was, decodingFinished, free, used,
                     playerTasks, hand>>
  BY DEF IInv, Typed, OpenFile, ui, player
<1>2. Head(decodeQueue) \in Task /\ decodeQueue' \in Seq(Task)
  BY <1>1, TailOf DEF OpenFile
<1>3. Head(decodeQueue).message \in Messages BY <1>2 DEF OpenFile, Task
<1>4. /\ opusFile' \in [message : MaybeMessage, pos : Int, finished : BOOLEAN]
      /\ opusFile'.message # NoMessage
  BY <1>3 DEF OpenFile, InitPlayer, MaybeMessage
<1>5. Typed' BY <1>1, <1>2, <1>4 DEF Typed, NoOpening
<1>6. BuffersKept' BY <1>1 DEF BuffersKept, NoBuffer
<1>7. was' = "idle" BY <1>1 DEF AtWork, OpenFile
<1> QED BY <1>4, <1>5, <1>6, <1>7 DEF IInv, NothingRead, AtWork

(* A message that begins anew, or a seek: the filled buffers are free. *)
LEMMA Emptied ==
    ASSUME Typed, BuffersKept, free' = free + Len(used), used' = <<>>, UNCHANGED hand
    PROVE  free' \in Nat /\ used' \in Seq(Piece) /\ BuffersKept'
<1>1. Len(used) \in Nat /\ free \in Nat /\ Len(used') = 0 /\ used' \in Seq(Piece)
  BY DEF Typed
<1> QED BY <1>1 DEF BuffersKept, NoBuffer

LEMMA MovesFileKeeps == IInv /\ (RestartFile \/ SeekFile) => IInv'
<1> SUFFICES ASSUME IInv, RestartFile \/ SeekFile PROVE IInv'
  OBVIOUS
<1>1. /\ Typed /\ NothingRead /\ AtWork /\ BuffersKept
      /\ decodeQueue \in Seq(Task) /\ decodeQueue # <<>> /\ Head(decodeQueue).kind # "open"
      /\ UNCHANGED <<total, playing, opening, was, hand>>
      /\ free' = free + Len(used) /\ used' = <<>>
      /\ decodeQueue' = Tail(decodeQueue) /\ Head(decodeQueue).kind \in {"restart", "seek"}
  BY DEF IInv, Typed, RestartFile, SeekFile, ui, player
<1>2. Head(decodeQueue).at \in Int /\ decodeQueue' \in Seq(Task)
  <2>1. Head(decodeQueue) \in Task BY <1>1, TailOf
  <2> QED BY <1>1, <2>1, TailOf DEF Task
<1>3. free' \in Nat /\ used' \in Seq(Piece) /\ BuffersKept' BY <1>1, Emptied
<1>4. opusFile.message # NoMessage BY <1>1, SomethingPosted
<1>5. /\ opusFile' \in [message : MaybeMessage, pos : Int, finished : BOOLEAN]
      /\ opusFile'.message = opusFile.message
  <2>1. opusFile \in [message : MaybeMessage, pos : Int, finished : BOOLEAN]
    BY <1>1 DEF Typed
  <2>2. StartsAt \in Int BY <1>2 DEF StartsAt
  <2>3. \E p \in Int : opusFile' = [opusFile EXCEPT !.pos = p]
    <3>1. CASE RestartFile
      <4>1. opusFile' = [opusFile EXCEPT !.pos = IF StartsAt # 0 THEN StartsAt ELSE @]
        BY <3>1 DEF RestartFile
      <4>2. (IF StartsAt # 0 THEN StartsAt ELSE opusFile.pos) \in Int
        BY <2>1, <2>2
      <4> QED BY <4>1, <4>2
    <3>2. CASE SeekFile BY <1>2, <3>2 DEF SeekFile
    <3> QED BY <3>1, <3>2
  <2> QED BY <2>1, <2>3
<1>6. /\ uiQueue' \in Seq({"marker", "sought"}) /\ decodingFinished' \in BOOLEAN
      /\ playerTasks' \in Int
  <2>1. /\ uiQueue \in Seq({"marker", "sought"}) /\ decodingFinished \in BOOLEAN
        /\ playerTasks \in Int
    BY <1>1 DEF Typed
  <2>2. CASE RestartFile
    <3>1. UNCHANGED uiQueue /\ playerTasks' = playerTasks + 1
      BY <2>2 DEF RestartFile
    <3>2. decodingFinished' \in BOOLEAN BY <2>2, Zenon DEF RestartFile
    <3> QED BY <2>1, <3>1, <3>2
  <2>3. CASE SeekFile
    <3>1. /\ uiQueue' = Append(uiQueue, "sought")
          /\ UNCHANGED <<decodingFinished, playerTasks>>
      BY <2>3 DEF SeekFile, player
    <3> QED BY <2>1, <3>1
  <2> QED BY <2>2, <2>3
<1>7. Typed' BY <1>1, <1>2, <1>3, <1>5, <1>6 DEF Typed, NoOpening
<1>8. was' = "idle" BY <1>1 DEF AtWork
<1> QED BY <1>3, <1>4, <1>5, <1>7, <1>8 DEF IInv, NothingRead, AtWork

LEMMA DecodesKeeps == IInv /\ Decodes => IInv'
BY CheckDecoderQueueKeeps, DecoderLoopKeeps, OpenFileKeeps, MovesFileKeeps DEF Decodes

-----------------------------------------------------------------------------
(* The player's thread. *)
LEMMA CheckPlayerQueueKeeps == IInv /\ CheckPlayerQueue => IInv'
<1> SUFFICES ASSUME IInv, CheckPlayerQueue PROVE IInv'
  OBVIOUS
<1>1. /\ Typed /\ NothingRead /\ AtWork /\ BuffersKept
      /\ decodeQueue \in Seq(Task) /\ playerTasks \in Int /\ playerTasks > 0
      /\ used \in Seq(Piece) /\ free \in Nat /\ hand = NoBuffer
      /\ UNCHANGED <<total, playing, opening, uiQueue, opusFile, was, decodingFinished, free>>
  BY DEF IInv, Typed, CheckPlayerQueue, ui, decoder
<1>2. opusFile'.message # NoMessage BY <1>1 DEF NothingRead
<1>3. decodeQueue' \in Seq(Task) /\ playerTasks' \in Int /\ AtWork'
  <2>1. Check \in Task BY DEF Check, Task, MaybeMessage
  <2>2. /\ Append(decodeQueue, Check) \in Seq(Task) /\ Append(decodeQueue, Check) # <<>>
        /\ decodeQueue # <<>> => Head(Append(decodeQueue, Check)) = Head(decodeQueue)
    BY <1>1, <2>1, Appended
  <2>3. decodeQueue' \in {decodeQueue, Append(decodeQueue, Check)} /\ playerTasks' \in Int
    BY <1>1 DEF CheckPlayerQueue
  <2> QED BY <1>1, <2>2, <2>3 DEF AtWork
<1>4. \/ UNCHANGED <<used, hand>>
      \/ used # <<>> /\ hand' = Head(used) /\ used' = Tail(used)
  BY DEF CheckPlayerQueue
<1>5. used' \in Seq(Piece) /\ hand' \in Piece \cup {NoBuffer} /\ BuffersKept'
  <2>1. CASE UNCHANGED <<used, hand>> BY <1>1, <2>1 DEF BuffersKept, NoBuffer
  <2>2. CASE used # <<>> /\ hand' = Head(used) /\ used' = Tail(used)
    <3>1. /\ hand' \in Piece /\ used' \in Seq(Piece)
          /\ Len(used') = Len(used) - 1 /\ Len(used) \in Nat
      BY <1>1, <2>2, TailOf
    <3>2. hand' # NoBuffer BY <3>1, PieceIsOne
    <3>3. free + Len(used) + 0 = Buffers BY <1>1 DEF BuffersKept
    <3>4. free' + Len(used') + 1 = Buffers BY <1>1, <3>1, <3>3
    <3> QED BY <3>1, <3>2, <3>4 DEF BuffersKept, NoBuffer
  <2> QED BY <1>4, <2>1, <2>2
<1>6. Typed' BY <1>1, <1>3, <1>5 DEF Typed, NoOpening
<1> QED BY <1>2, <1>3, <1>5, <1>6 DEF IInv, NothingRead

LEMMA WriteTrackKeeps == IInv /\ WriteTrack => IInv'
<1> SUFFICES ASSUME IInv, WriteTrack PROVE IInv'
  OBVIOUS
<1>1. /\ Typed /\ NothingRead /\ AtWork /\ BuffersKept
      /\ decodeQueue \in Seq(Task) /\ playerTasks \in Int
      /\ uiQueue \in Seq({"marker", "sought"})
      /\ hand \in Piece /\ hand # NoBuffer
      /\ UNCHANGED <<total, playing, opening, opusFile, was, decodingFinished, free, used>>
      /\ hand' = [hand EXCEPT !.done = TRUE]
  BY DEF IInv, Typed, WriteTrack, decoder
<1>2. opusFile'.message # NoMessage BY <1>1 DEF NothingRead
<1>3. hand' \in Piece /\ hand' # NoBuffer BY <1>1, PieceIsOne
<1>4. decodeQueue' \in Seq(Task) /\ playerTasks' \in Int /\ AtWork'
  <2>1. Check \in Task BY DEF Check, Task, MaybeMessage
  <2>2. /\ Append(decodeQueue, Check) \in Seq(Task) /\ Append(decodeQueue, Check) # <<>>
        /\ decodeQueue # <<>> => Head(Append(decodeQueue, Check)) = Head(decodeQueue)
    BY <1>1, <2>1, Appended
  <2>3. decodeQueue' \in {decodeQueue, Append(decodeQueue, Check)} /\ playerTasks' \in Int
    BY <1>1 DEF WriteTrack
  <2> QED BY <1>1, <2>2, <2>3 DEF AtWork
<1>5. uiQueue' \in Seq({"marker", "sought"})
  <2>1. Append(uiQueue, "marker") \in Seq({"marker", "sought"}) BY <1>1
  <2>2. uiQueue' \in {uiQueue, Append(uiQueue, "marker")} BY DEF WriteTrack
  <2> QED BY <1>1, <2>1, <2>2
<1>6. Typed' BY <1>1, <1>3, <1>4, <1>5 DEF Typed, NoOpening
<1>7. BuffersKept' BY <1>1, <1>3 DEF BuffersKept, NoBuffer
<1> QED BY <1>2, <1>4, <1>6, <1>7 DEF IInv, NothingRead

LEMMA ReturnBufferKeeps == IInv /\ ReturnBuffer => IInv'
<1> SUFFICES ASSUME IInv, ReturnBuffer PROVE IInv'
  OBVIOUS
<1>1. /\ Typed /\ NothingRead /\ AtWork /\ BuffersKept
      /\ free \in Nat /\ hand # NoBuffer /\ hand' = NoBuffer /\ free' = free + 1
      /\ used \in Seq(Piece)
      /\ UNCHANGED <<total, playing, opening, uiQueue, opusFile, was, decodingFinished, used,
                     decodeQueue, playerTasks>>
  BY DEF IInv, Typed, ReturnBuffer, ui, decoder, NoBuffer
<1>2. Typed' BY <1>1 DEF Typed, NoOpening
<1>3. BuffersKept'
  <2>1. Len(used) \in Nat /\ free + Len(used) + 1 = Buffers
    BY <1>1 DEF BuffersKept
  <2> QED BY <1>1, <2>1 DEF BuffersKept, NoBuffer
<1>4. NothingRead' /\ AtWork' BY <1>1 DEF NothingRead, AtWork
<1> QED BY <1>2, <1>3, <1>4 DEF IInv

LEMMA PlaysKeeps == IInv /\ Plays => IInv'
BY CheckPlayerQueueKeeps, WriteTrackKeeps, ReturnBufferKeeps DEF Plays

-----------------------------------------------------------------------------
(* The UI thread. *)
Buffered == <<total, opusFile, was, decodingFinished, free, used, hand>>

LEMMA BuffersUntouched ==
    ASSUME BuffersKept, UNCHANGED Buffered
    PROVE  BuffersKept'
BY DEF BuffersKept, Buffered, NoBuffer

LEMMA PostedKeeps == IInv /\ (SetMarker \/ Sought) => IInv'
<1> SUFFICES ASSUME IInv, SetMarker \/ Sought PROVE IInv'
  OBVIOUS
<1>1. /\ Typed /\ NothingRead /\ AtWork /\ BuffersKept
      /\ uiQueue \in Seq({"marker", "sought"}) /\ uiQueue # <<>> /\ playerTasks \in Int
      /\ uiQueue' = Tail(uiQueue) /\ UNCHANGED <<playing, opening, decodeQueue>>
      /\ UNCHANGED Buffered
  BY DEF IInv, Typed, SetMarker, Sought, Buffered, decoder, player
<1>2. uiQueue' \in Seq({"marker", "sought"}) BY <1>1, TailOf
<1>3. playerTasks' \in Int BY <1>1 DEF SetMarker, Sought, player
<1>4. opusFile'.message # NoMessage BY <1>1 DEF NothingRead, Buffered
<1>5. Typed' BY <1>1, <1>2, <1>3 DEF Typed, NoOpening, Buffered
<1> QED BY <1>1, <1>4, <1>5, BuffersUntouched DEF IInv, NothingRead, AtWork, Buffered

(* Stopping, in whatever way, is about the track only. *)
LEMMA StopsKeeps == IInv /\ (MarkerReached \/ StopAudio \/ PauseAudio) => IInv'
<1> SUFFICES ASSUME IInv, MarkerReached \/ StopAudio \/ PauseAudio PROVE IInv'
  OBVIOUS
<1>1. /\ Typed /\ NothingRead /\ AtWork /\ BuffersKept
      /\ UNCHANGED <<opening, uiQueue, decodeQueue, playerTasks>> /\ UNCHANGED Buffered
      /\ playing' \in {playing, NoMessage}
  BY DEF IInv, MarkerReached, StopAudio, PauseAudio, CleanupPlayer, Buffered, decoder, player
<1>2. Typed' BY <1>1 DEF Typed, NoOpening, Buffered, MaybeMessage
<1> QED BY <1>1, <1>2, BuffersUntouched DEF IInv, NothingRead, AtWork, Buffered

LEMMA ResumeAudioKeeps == IInv /\ ResumeAudio => IInv'
<1> SUFFICES ASSUME IInv, ResumeAudio PROVE IInv'
  OBVIOUS
<1>1. /\ Typed /\ NothingRead /\ AtWork /\ BuffersKept /\ playerTasks \in Int
      /\ UNCHANGED <<playing, opening, uiQueue, decodeQueue>> /\ UNCHANGED Buffered
      /\ playing # NoMessage /\ playerTasks' = playerTasks + 1
  BY DEF IInv, Typed, ResumeAudio, Buffered, decoder
<1>2. Typed' BY <1>1 DEF Typed, NoOpening, Buffered
<1> QED BY <1>1, <1>2, BuffersUntouched DEF IInv, NothingRead, AtWork, Buffered

LEMMA SeekToProgressKeeps ==
    ASSUME NEW m \in Messages, NEW q \in 0 .. total[m] - 1
    PROVE  IInv /\ m = playing /\ SeekToProgress(q) => IInv'
<1> SUFFICES ASSUME IInv, m = playing, SeekToProgress(q) PROVE IInv'
  OBVIOUS
<1>1. /\ Typed /\ NothingRead /\ AtWork /\ BuffersKept /\ decodeQueue \in Seq(Task)
      /\ UNCHANGED <<playing, opening, uiQueue, playerTasks>> /\ UNCHANGED Buffered
      /\ playing # NoMessage /\ decodeQueue' = Append(decodeQueue, Seek(q))
  BY DEF IInv, Typed, SeekToProgress, Buffered, decoder, player
<1>2. Seek(q) \in Task BY DEF Seek, Task, MaybeMessage
<1>3. /\ decodeQueue' \in Seq(Task) /\ decodeQueue' # <<>>
      /\ decodeQueue # <<>> => Head(decodeQueue') = Head(decodeQueue)
  BY <1>1, <1>2, Appended
<1>4. Typed' BY <1>1, <1>3 DEF Typed, NoOpening, Buffered
<1>5. NothingRead' /\ AtWork' BY <1>1, <1>3 DEF NothingRead, AtWork, Buffered
<1> QED BY <1>1, <1>4, <1>5, BuffersUntouched DEF IInv

LEMMA PlayAudioKeeps ==
    ASSUME NEW m \in Messages, NEW q \in 0 .. total[m] - 1
    PROVE  IInv /\ PlayAudio(m, q) => IInv'
<1> SUFFICES ASSUME IInv, PlayAudio(m, q) PROVE IInv'
  OBVIOUS
<1>1. /\ Typed /\ NothingRead /\ AtWork /\ BuffersKept
      /\ UNCHANGED <<uiQueue, decodeQueue, playerTasks>> /\ UNCHANGED Buffered
      /\ playing' = NoMessage /\ opening' = [message |-> m, at |-> q, locked |-> FALSE]
  BY DEF IInv, PlayAudio, CleanupPlayer, Buffered, decoder, player
<1>2. /\ opening' \in [message : MaybeMessage, at : Int, locked : BOOLEAN]
      /\ opening'.message \in Messages /\ ~opening'.locked
  BY <1>1 DEF MaybeMessage
<1>3. Typed' BY <1>1, <1>2 DEF Typed, Buffered, MaybeMessage
<1>4. NothingRead' /\ AtWork' BY <1>1, <1>2 DEF NothingRead, AtWork, Buffered
<1> QED BY <1>1, <1>3, <1>4, BuffersUntouched DEF IInv

LEMMA PlayAudioOpensKeeps == IInv /\ PlayAudioOpens => IInv'
<1> SUFFICES ASSUME IInv, PlayAudioOpens PROVE IInv'
  OBVIOUS
<1>1. /\ Typed /\ NothingRead /\ AtWork /\ BuffersKept /\ decodeQueue \in Seq(Task)
      /\ opening \in [message : MaybeMessage, at : Int, locked : BOOLEAN]
      /\ opening.message \in Messages
      /\ UNCHANGED <<playing, uiQueue, playerTasks>> /\ UNCHANGED Buffered
      /\ opening' = [opening EXCEPT !.locked = TRUE]
      /\ decodeQueue' = Append(decodeQueue, Open(opening.message))
  BY DEF IInv, Typed, PlayAudioOpens, Buffered, decoder, player
<1>2. Open(opening.message) \in Task /\ Open(opening.message).kind = "open"
  BY <1>1 DEF Open, Task, MaybeMessage
<1>3. /\ decodeQueue' \in Seq(Task) /\ decodeQueue' # <<>>
      /\ decodeQueue # <<>> => Head(decodeQueue') = Head(decodeQueue)
      /\ \A i \in 1 .. Len(decodeQueue') :
            \/ decodeQueue'[i] = Open(opening.message)
            \/ i \in 1 .. Len(decodeQueue) /\ decodeQueue'[i] = decodeQueue[i]
  BY <1>1, <1>2, Appended
<1>4. /\ opening' \in [message : MaybeMessage, at : Int, locked : BOOLEAN]
      /\ opening'.message \in Messages
  BY <1>1
<1>5. Typed' BY <1>1, <1>3, <1>4 DEF Typed, Buffered
<1>6. NothingRead' /\ AtWork'
  BY <1>1, <1>2, <1>3 DEF NothingRead, AtWork, Buffered
<1> QED BY <1>1, <1>5, <1>6, BuffersUntouched DEF IInv

LEMMA PlayAudioStartsKeeps == IInv /\ PlayAudioStarts => IInv'
<1> SUFFICES ASSUME IInv, PlayAudioStarts PROVE IInv'
  OBVIOUS
<1>1. /\ Typed /\ NothingRead /\ AtWork /\ BuffersKept /\ decodeQueue \in Seq(Task)
      /\ opening \in [message : MaybeMessage, at : Int, locked : BOOLEAN]
      /\ UNCHANGED <<uiQueue, playerTasks>> /\ UNCHANGED Buffered
      /\ opening.locked /\ opening' = NoOpening /\ playing' = opening.message
      /\ decodeQueue' = Append(decodeQueue, Restart(opening.at))
      /\ \A i \in 1 .. Len(decodeQueue) : decodeQueue[i].kind # "open"
  BY DEF IInv, Typed, PlayAudioStarts, Buffered, decoder, player
<1>2. Restart(opening.at) \in Task BY <1>1 DEF Restart, Task, MaybeMessage
<1>3. /\ decodeQueue' \in Seq(Task) /\ decodeQueue' # <<>>
      /\ decodeQueue # <<>> => Head(decodeQueue') = Head(decodeQueue)
  BY <1>1, <1>2, Appended
<1>4. opusFile'.message # NoMessage
  <2>1. SUFFICES ASSUME opusFile.message = NoMessage PROVE FALSE
    BY <1>1 DEF Buffered
  <2>2. /\ decodeQueue # <<>>
        /\ \A i \in 1 .. Len(decodeQueue) : decodeQueue[i].kind = "open"
    BY <1>1, <2>1 DEF NothingRead
  <2>3. 1 \in 1 .. Len(decodeQueue) BY <1>1, <2>2, TailOf
  <2> QED BY <1>1, <2>2, <2>3
<1>5. NoOpening \in [message : MaybeMessage, at : Int, locked : BOOLEAN]
  BY DEF NoOpening, MaybeMessage
<1>6. opening.message \in MaybeMessage BY <1>1
<1>7. Typed' BY <1>1, <1>3, <1>5, <1>6 DEF Typed, Buffered
<1>8. NothingRead' /\ AtWork'
  BY <1>1, <1>3, <1>4 DEF NothingRead, AtWork, Buffered
<1> QED BY <1>1, <1>7, <1>8, BuffersUntouched DEF IInv

LEMMA IdleKeeps == IInv /\ UNCHANGED vars => IInv'
BY DEF IInv, Typed, NothingRead, AtWork, BuffersKept, vars, ui, decoder, player, NoOpening,
       NoBuffer

LEMMA NextKeeps == IInv /\ [Next]_vars => IInv'
<1> SUFFICES ASSUME IInv, [Next]_vars PROVE IInv'
  OBVIOUS
<1>1. CASE Decodes BY <1>1, DecodesKeeps
<1>2. CASE Plays BY <1>2, PlaysKeeps
<1>3. CASE UIRuns
  BY <1>3, PostedKeeps, PlayAudioOpensKeeps, PlayAudioStartsKeeps DEF UIRuns
<1>4. CASE MarkerReached \/ StopAudio \/ PauseAudio BY <1>4, StopsKeeps
<1>5. CASE ResumeAudio BY <1>5, ResumeAudioKeeps
<1>6. CASE \E m \in Messages : \E q \in 0 .. total[m] - 1 : PlayAudio(m, q)
  BY <1>6, PlayAudioKeeps
<1>7. CASE \E m \in Messages : \E q \in 0 .. total[m] - 1 : m = playing /\ SeekToProgress(q)
  BY <1>7, SeekToProgressKeeps
<1>8. CASE UNCHANGED vars BY <1>8, IdleKeeps
<1> QED BY <1>1, <1>2, <1>3, <1>4, <1>5, <1>6, <1>7, <1>8 DEF Next, User

LEMMA AlwaysIInv == Spec => []IInv
<1>1. Init => IInv BY InitKeeps
<1>2. IInv /\ [Next]_vars => IInv' BY NextKeeps
<1> QED BY <1>1, <1>2, PTL DEF Spec

-----------------------------------------------------------------------------
(* Whatever the user does and in whichever order the threads come, every *)
(* buffer is free, filled or with the player, and in one of these places. *)
THEOREM NoBufferLost == Spec => []BuffersKept
<1>1. IInv => BuffersKept BY DEF IInv
<1> QED BY <1>1, AlwaysIInv, PTL

(* fillBuffer is never called without an open file (it would play silence *)
(* for ever): neither queue is at work before the first one was opened. *)
THEOREM ReadsOpenFile == Spec => [](was # "idle" => opusFile.message \in Messages)
<1>1. IInv => (was # "idle" => opusFile.message \in Messages)
  BY DEF IInv, Typed, NothingRead, MaybeMessage
<1> QED BY <1>1, AlwaysIInv, PTL

-----------------------------------------------------------------------------
(* What is heard.  The track is what the user sees of the message that *)
(* plays, and there is none while another one is opened. *)
Within(at, m) == at \in 0 .. total[m] - 1

TrackRight ==
    /\ DOMAIN track = {"state", "marker", "written"}
    /\ track.state \in {"none", "playing", "paused"}
    /\ track.written \in Seq([pcmOffset : Int, size : Int])
    /\ track = [state |-> track.state, marker |-> track.marker, written |-> track.written]
    /\ track.state = "none" => track = NoTrack
    /\ playing = NoMessage <=> track = NoTrack
    /\ opening # NoOpening => track = NoTrack /\ Within(opening.at, opening.message)
    /\ clean => track # NoTrack
    /\ from \in Int

(* The decoder's queue opens only the file that playAudio waits for, and *)
(* puts the file only in places of the message that plays: what was posted *)
(* for the messages before it comes first. *)
IsOpen(t) == t.kind = "open"
Puts(t)   == t.kind \in {"restart", "seek"}

QueueRight ==
    /\ \A i \in 1 .. Len(decodeQueue) : IsOpen(decodeQueue[i]) =>
          opening.locked /\ decodeQueue[i].message = opening.message
    /\ opening.locked => \A i \in 1 .. Len(decodeQueue) : Puts(decodeQueue[i]) =>
          \E j \in i + 1 .. Len(decodeQueue) : IsOpen(decodeQueue[j])
    /\ playing # NoMessage => \A i \in 1 .. Len(decodeQueue) : Puts(decodeQueue[i]) =>
          Within(decodeQueue[i].at, playing)
    /\ opening.locked =>
          \/ opusFile.message = opening.message
          \/ \E i \in 1 .. Len(decodeQueue) : IsOpen(decodeQueue[i])
    /\ playing # NoMessage => opusFile.message = playing

(* Pieces that follow one another from a place on, and where they end. *)
Linked(q, b) ==
    \A i \in 1 .. Len(q) :
        q[i].pcmOffset = IF i = 1 THEN b ELSE q[i - 1].pcmOffset + q[i - 1].size

EndOf(q, b) == IF q = <<>> THEN b ELSE q[Len(q)].pcmOffset + q[Len(q)].size

(* The piece in the player's hand is still to be written. *)
Pending == hand # NoBuffer /\ ~hand.done

HandEnd == IF Pending THEN hand.pcmOffset + hand.size ELSE EndOf(track.written, from)

(* What was written, the piece in the player's hand and the filled buffers *)
(* follow one another up to where the file is read next. *)
Chain ==
    clean /\ ~cut =>
        /\ Linked(track.written, from)
        /\ Pending => hand.pcmOffset = EndOf(track.written, from)
        /\ Linked(used, HandEnd)
        /\ opusFile.pos = EndOf(used, HandEnd)
        /\ \A i \in 1 .. Len(used) : ~used[i].done

(* A piece is in the file, and the last one ends where the file does. *)
Sound(p) ==
    /\ p.size > 0 /\ p.pcmOffset + p.size <= total[playing]
    /\ p.finished => p.pcmOffset + p.size = total[playing]

Told == track.marker \/ \E i \in 1 .. Len(uiQueue) : uiQueue[i] = "marker"

(* Up to the end, whole buffers are read; once the track is told of the *)
(* end, or is about to be, it was given the file up to there. *)
AtEnd ==
    clean /\ ~cut /\ Uneven =>
        /\ opusFile.pos <= total[playing]
        /\ opusFile.finished => opusFile.pos = total[playing]
        /\ ~opusFile.finished => \E j \in Nat : opusFile.pos = from + j * Capacity
        /\ Pending => Sound(hand)
        /\ \A i \in 1 .. Len(used) : Sound(used[i])
        /\ Told => track.written # <<>> /\ EndOf(track.written, from) = total[playing]

HeardInv == TrackRight /\ QueueRight /\ Chain /\ AtEnd

(* Pieces that are appended, and taken away. *)
LEMMA LinkedAppend ==
    ASSUME NEW S, NEW q \in Seq(S), NEW p \in S, NEW b, Linked(q, b),
           p.pcmOffset = EndOf(q, b)
    PROVE  /\ Linked(Append(q, p), b) /\ EndOf(Append(q, p), b) = p.pcmOffset + p.size
           /\ Append(q, p) # <<>>
<1> DEFINE t == Append(q, p)
<1>1. /\ t \in Seq(S) /\ Len(t) = Len(q) + 1 /\ Len(q) \in Nat /\ t # <<>> /\ t[Len(t)] = p
      /\ \A i \in 1 .. Len(q) : t[i] = q[i]
      /\ q = <<>> <=> Len(q) = 0
  BY EmptySeq
<1> HIDE DEF t
<1>2. ASSUME NEW i \in 1 .. Len(t)
      PROVE  t[i].pcmOffset = IF i = 1 THEN b ELSE t[i - 1].pcmOffset + t[i - 1].size
  <2>1. CASE i \in 1 .. Len(q)
    <3>1. q[i].pcmOffset = IF i = 1 THEN b ELSE q[i - 1].pcmOffset + q[i - 1].size
      BY <2>1 DEF Linked
    <3>2. t[i] = q[i] /\ (i # 1 => t[i - 1] = q[i - 1]) BY <1>1, <2>1
    <3> QED BY <3>1, <3>2
  <2>2. CASE i = Len(q) + 1
    <3>1. t[i] = p /\ (i # 1 => q # <<>> /\ t[i - 1] = q[Len(q)]) /\ (i = 1 => q = <<>>)
      BY <1>1, <2>2
    <3> QED BY <3>1 DEF EndOf
  <2> QED BY <1>1, <2>1, <2>2
<1>3. Linked(t, b) BY <1>2 DEF Linked
<1>4. EndOf(t, b) = p.pcmOffset + p.size BY <1>1 DEF EndOf
<1> QED BY <1>1, <1>3, <1>4 DEF t

LEMMA LinkedTail ==
    ASSUME NEW S, NEW q \in Seq(S), NEW b, Linked(q, b), q # <<>>
    PROVE  /\ Head(q).pcmOffset = b
           /\ Linked(Tail(q), Head(q).pcmOffset + Head(q).size)
           /\ EndOf(Tail(q), Head(q).pcmOffset + Head(q).size) = EndOf(q, b)
<1>1. /\ Tail(q) \in Seq(S) /\ Len(Tail(q)) = Len(q) - 1 /\ Head(q) = q[1]
      /\ Len(q) \in Nat \ {0} /\ \A i \in 1 .. Len(Tail(q)) : Tail(q)[i] = q[i + 1]
  BY TailOf
<1>2. q[1].pcmOffset = b BY <1>1 DEF Linked
<1>3. ASSUME NEW i \in 1 .. Len(Tail(q))
      PROVE  Tail(q)[i].pcmOffset = IF i = 1 THEN Head(q).pcmOffset + Head(q).size
                                    ELSE Tail(q)[i - 1].pcmOffset + Tail(q)[i - 1].size
  <2>1. i + 1 \in 1 .. Len(q) /\ i + 1 # 1 /\ (i + 1) - 1 = i BY <1>1
  <2>2. q[i + 1].pcmOffset = q[i].pcmOffset + q[i].size BY <2>1 DEF Linked
  <2>3. i # 1 => i - 1 \in 1 .. Len(Tail(q)) /\ Tail(q)[i - 1] = q[(i - 1) + 1] /\ (i - 1) + 1 = i
    BY <1>1
  <2> QED BY <1>1, <2>2, <2>3
<1>4. Tail(q) = <<>> <=> Len(q) = 1
  <2>1. \A t \in Seq(S) : t = <<>> <=> Len(t) = 0 BY EmptySeq
  <2>2. Tail(q) = <<>> <=> Len(Tail(q)) = 0 BY <1>1, <2>1, Zenon
  <2> QED BY <1>1, <2>2
<1>5. EndOf(Tail(q), Head(q).pcmOffset + Head(q).size) = EndOf(q, b)
  BY <1>1, <1>4 DEF EndOf
<1> QED BY <1>1, <1>2, <1>3, <1>5 DEF Linked

(* A number of whole buffers comes out even. *)
LEMMA Even == ASSUME NEW j \in Int PROVE (j * Capacity) % Capacity = 0
OBVIOUS

-----------------------------------------------------------------------------
LEMMA InitHeard == Init => HeardInv
<1> SUFFICES ASSUME Init PROVE HeardInv
  OBVIOUS
<1>1. TrackRight
  <2>1. track = NoTrack /\ playing = NoMessage /\ opening = NoOpening /\ ~clean
    BY DEF Init
  <2>2. NoTrack.written \in Seq([pcmOffset : Int, size : Int])
    BY EmptySeq DEF NoTrack
  <2>3. DOMAIN NoTrack = {"state", "marker", "written"} BY DEF NoTrack
  <2>4. from \in Int BY DEF Init
  <2> QED BY <2>1, <2>2, <2>3, <2>4 DEF TrackRight, NoTrack
<1>2. QueueRight BY EmptySeq DEF Init, QueueRight, NoOpening
<1>3. Chain /\ AtEnd BY DEF Init, Chain, AtEnd
<1> QED BY <1>1, <1>2, <1>3 DEF HeardInv

(* The decoder's queue: its first task is done, or a check is posted. *)
LEMMA QueueKept ==
    ASSUME Typed, QueueRight, UNCHANGED <<total, opening>>, opusFile'.message = opusFile.message,
           playing' \in {playing, NoMessage},
           \/ UNCHANGED decodeQueue
           \/ decodeQueue # <<>> /\ ~IsOpen(Head(decodeQueue)) /\ decodeQueue' = Tail(decodeQueue)
           \/ decodeQueue' = Append(decodeQueue, Check)
    PROVE  QueueRight'
<1>1. decodeQueue \in Seq(Task) /\ Check \in Task
  BY DEF Typed, Check, Task, MaybeMessage
<1>2. CASE UNCHANGED decodeQueue BY <1>2 DEF QueueRight, Within
<1>3. CASE decodeQueue # <<>> /\ ~IsOpen(Head(decodeQueue)) /\ decodeQueue' = Tail(decodeQueue)
  <2>1. /\ Len(decodeQueue) \in Nat \ {0} /\ Len(decodeQueue') = Len(decodeQueue) - 1
        /\ ~IsOpen(decodeQueue[1])
        /\ \A i \in 1 .. Len(decodeQueue') :
              i + 1 \in 1 .. Len(decodeQueue) /\ decodeQueue'[i] = decodeQueue[i + 1]
        /\ \A j \in 1 .. Len(decodeQueue) :
              j # 1 => j - 1 \in 1 .. Len(decodeQueue') /\ decodeQueue'[j - 1] = decodeQueue[j]
    BY <1>1, <1>3, TailOf
  <2>2. \A i \in 1 .. Len(decodeQueue') : IsOpen(decodeQueue'[i]) =>
            opening'.locked /\ decodeQueue'[i].message = opening'.message
    BY <2>1 DEF QueueRight
  <2>3. ASSUME opening'.locked, NEW i \in 1 .. Len(decodeQueue'), Puts(decodeQueue'[i])
        PROVE  \E j \in i + 1 .. Len(decodeQueue') : IsOpen(decodeQueue'[j])
    <3>1. PICK j \in (i + 1) + 1 .. Len(decodeQueue) : IsOpen(decodeQueue[j])
      BY <2>1, <2>3 DEF QueueRight
    <3>2. j \in 1 .. Len(decodeQueue) /\ j # 1 /\ j - 1 \in i + 1 .. Len(decodeQueue')
      BY <2>1, <3>1
    <3> QED BY <2>1, <3>1, <3>2
  <2>4. playing' # NoMessage => \A i \in 1 .. Len(decodeQueue') : Puts(decodeQueue'[i]) =>
            decodeQueue'[i].at \in 0 .. total'[playing'] - 1
    BY <2>1 DEF QueueRight, Within
  <2>5. opening'.locked => \/ opusFile'.message = opening'.message
                           \/ \E i \in 1 .. Len(decodeQueue') : IsOpen(decodeQueue'[i])
    <3>1. SUFFICES ASSUME opening.locked, opusFile.message # opening.message
                   PROVE  \E i \in 1 .. Len(decodeQueue') : IsOpen(decodeQueue'[i])
      OBVIOUS
    <3>2. PICK i \in 1 .. Len(decodeQueue) : IsOpen(decodeQueue[i])
      BY <3>1 DEF QueueRight
    <3> QED BY <2>1, <3>2
  <2> QED BY <2>2, <2>3, <2>4, <2>5 DEF QueueRight, Within
<1>4. CASE decodeQueue' = Append(decodeQueue, Check)
  <2>1. /\ Len(decodeQueue) \in Nat /\ Len(decodeQueue') = Len(decodeQueue) + 1
        /\ \A i \in 1 .. Len(decodeQueue) :
              i \in 1 .. Len(decodeQueue') /\ decodeQueue'[i] = decodeQueue[i]
        /\ \A i \in 1 .. Len(decodeQueue') : IsOpen(decodeQueue'[i]) \/ Puts(decodeQueue'[i]) =>
              i \in 1 .. Len(decodeQueue)
    BY <1>1, <1>4 DEF Check, IsOpen, Puts
  <2>2. \A i \in 1 .. Len(decodeQueue') : IsOpen(decodeQueue'[i]) =>
            opening'.locked /\ decodeQueue'[i].message = opening'.message
    BY <2>1 DEF QueueRight
  <2>3. ASSUME opening'.locked, NEW i \in 1 .. Len(decodeQueue'), Puts(decodeQueue'[i])
        PROVE  \E j \in i + 1 .. Len(decodeQueue') : IsOpen(decodeQueue'[j])
    <3>1. PICK j \in i + 1 .. Len(decodeQueue) : IsOpen(decodeQueue[j])
      BY <2>1, <2>3 DEF QueueRight
    <3> QED BY <2>1, <3>1
  <2>4. playing' # NoMessage => \A i \in 1 .. Len(decodeQueue') : Puts(decodeQueue'[i]) =>
            decodeQueue'[i].at \in 0 .. total'[playing'] - 1
    BY <2>1 DEF QueueRight, Within
  <2>5. opening'.locked => \/ opusFile'.message = opening'.message
                           \/ \E i \in 1 .. Len(decodeQueue') : IsOpen(decodeQueue'[i])
    BY <2>1 DEF QueueRight
  <2> QED BY <2>2, <2>3, <2>4, <2>5 DEF QueueRight, Within
<1> QED BY <1>2, <1>3, <1>4

(* What is heard, and what comes next, is not touched. *)
Heard == <<total, playing, opusFile, used, hand, from, clean, cut, track.written>>

LEMMA Unheard ==
    ASSUME Chain, AtEnd, UNCHANGED Heard, Told' => Told
    PROVE  Chain' /\ AtEnd'
<1>1. /\ Uneven' = Uneven /\ Pending' = Pending /\ HandEnd' = HandEnd
      /\ EndOf(used, HandEnd)' = EndOf(used, HandEnd)
      /\ EndOf(track.written, from)' = EndOf(track.written, from)
  BY DEF Heard, Uneven, Pending, HandEnd, NoBuffer, EndOf
<1>2. Chain' BY <1>1 DEF Chain, Heard, Linked
<1>3. AtEnd' BY <1>1 DEF AtEnd, Heard, Sound
<1> QED BY <1>2, <1>3

LEMMA NotClean == ~clean' => Chain' /\ AtEnd'
BY DEF Chain, AtEnd

(* The decoder's thread. *)
LEMMA CheckDecoderQueueHeard == IInv /\ HeardInv /\ CheckDecoderQueue => HeardInv'
<1> SUFFICES ASSUME IInv, HeardInv, CheckDecoderQueue PROVE HeardInv'
  OBVIOUS
<1>1. /\ Typed /\ TrackRight /\ QueueRight /\ Chain /\ AtEnd
      /\ UNCHANGED <<total, playing, track, opening, uiQueue, opusFile, used, hand, from, clean,
                     cut>>
      /\ \/ UNCHANGED decodeQueue
         \/ /\ decodeQueue # <<>> /\ ~IsOpen(Head(decodeQueue))
            /\ decodeQueue' = Tail(decodeQueue)
  BY DEF IInv, HeardInv, CheckDecoderQueue, ui, history, IsOpen
<1>2. QueueRight' BY <1>1, QueueKept
<1>3. Chain' /\ AtEnd' BY <1>1, Unheard DEF Heard, Told
<1>4. TrackRight' BY <1>1 DEF TrackRight, NoTrack, NoOpening, Within
<1> QED BY <1>2, <1>3, <1>4 DEF HeardInv

(* What is read of the file follows what was read before, and is whole *)
(* buffers up to the end. *)
LEMMA ReadsOn ==
    ASSUME Typed, TrackRight, QueueRight, Chain, AtEnd, clean, ~cut, ~opusFile.finished
    PROVE  /\ FillBuffer.pcmOffset = opusFile.pos /\ FillBuffer.size \in Int /\ ~FillBuffer.done
           /\ Uneven =>
                /\ Sound(FillBuffer)
                /\ ~FillBuffer.finished =>
                      \E j \in Nat : opusFile.pos + FillBuffer.size = from + j * Capacity
<1>1. /\ total[playing] \in Int /\ Capacity \in Nat \ {0} /\ opusFile.pos \in Int /\ from \in Int
      /\ opusFile.message = playing
  <2>1. playing \in Messages /\ opusFile.message = playing
    BY DEF Typed, TrackRight, QueueRight, MaybeMessage
  <2>2. total \in [Messages -> Totals] /\ opusFile.pos \in Int /\ from \in Int
    BY DEF Typed, TrackRight
  <2>3. Totals \subseteq Int /\ Capacity \in Nat \ {0} BY AudioAssumption
  <2> QED BY <2>1, <2>2, <2>3
<1> DEFINE t == total[playing]
           n == Shorter(Capacity, t - opusFile.pos)
           last == n < Capacity \/ opusFile.pos + 2 * n = t
<1>2. FillBuffer = [pcmOffset |-> opusFile.pos, size |-> n, done |-> FALSE, finished |-> last]
  BY <1>1 DEF FillBuffer
<1>3. /\ FillBuffer.pcmOffset = opusFile.pos /\ FillBuffer.size = n /\ ~FillBuffer.done
      /\ FillBuffer.finished = last
  <2> HIDE DEF n, last
  <2> QED BY <1>2
<1>4. n \in Int BY <1>1 DEF Shorter
<1>5. ASSUME Uneven
      PROVE  /\ Sound(FillBuffer)
             /\ ~FillBuffer.finished => \E j \in Nat : opusFile.pos + n = from + j * Capacity
  <2>1. PICK j \in Nat : opusFile.pos = from + j * Capacity BY <1>5 DEF AtEnd
  <2>2. opusFile.pos <= t BY <1>5 DEF AtEnd
  <2>3. ASSUME NEW i \in Int, t = from + i * Capacity PROVE FALSE
    <3>1. t - from = i * Capacity BY <1>1, <2>3
    <3>2. (t - from) % Capacity = 0 BY <3>1, Even
    <3> QED BY <1>5, <3>2 DEF Uneven
  <2>4. opusFile.pos # t BY <2>1, <2>3
  <2>5. n > 0 /\ n <= Capacity /\ opusFile.pos + n <= t
        /\ (n < Capacity => opusFile.pos + n = t)
    BY <1>1, <2>2, <2>4 DEF Shorter
  <2>6. ASSUME n = Capacity PROVE opusFile.pos + 2 * n # t
    <3>1. opusFile.pos + 2 * n = from + (j + 2) * Capacity BY <1>1, <2>1, <2>6
    <3> QED BY <2>3, <3>1, j + 2 \in Int
  <2>7. last <=> n < Capacity BY <1>1, <1>4, <2>5, <2>6
  <2>8. Sound(FillBuffer)
    <3> HIDE DEF n, last
    <3> QED BY <1>3, <2>5, <2>7 DEF Sound
  <2>9. ASSUME ~last PROVE opusFile.pos + n = from + (j + 1) * Capacity
    BY <1>1, <1>4, <2>1, <2>5, <2>7, <2>9
  <2> HIDE DEF n, last
  <2> QED BY <1>3, <2>8, <2>9, j + 1 \in Nat
<1> HIDE DEF n, last
<1> QED BY <1>3, <1>4, <1>5

LEMMA DecoderLoopHeard == IInv /\ HeardInv /\ DecoderLoop => HeardInv'
<1> SUFFICES ASSUME IInv, HeardInv, DecoderLoop PROVE HeardInv'
  OBVIOUS
<1>1. /\ Typed /\ NothingRead /\ AtWork /\ TrackRight /\ QueueRight /\ Chain /\ AtEnd
      /\ UNCHANGED <<total, playing, track, opening, uiQueue, hand, from, clean, cut>>
      /\ used \in Seq(Piece)
  BY DEF IInv, Typed, HeardInv, DecoderLoop, ui, history
<1>2. /\ decodeQueue # <<>> /\ ~IsOpen(Head(decodeQueue))
      /\ UNCHANGED decodeQueue \/ decodeQueue' = Tail(decodeQueue)
      /\ opusFile.message # NoMessage
  BY <1>1 DEF DecoderLoop, LoopEnds, AtWork, Looping, IsOpen, NothingRead
<1>3. /\ FillBuffer.size \in Int /\ FillBuffer.finished \in BOOLEAN
      /\ FillBuffer.size # 0 => FillBuffer \in Piece
  BY <1>1, <1>2, FillBufferType
<1>4. opusFile \in [message : MaybeMessage, pos : Int, finished : BOOLEAN]
  BY <1>1 DEF Typed
<1>5. \/ UNCHANGED <<opusFile, used>>
      \/ /\ opusFile'.pos = opusFile.pos + FillBuffer.size
         /\ opusFile'.finished = (opusFile.finished \/ FillBuffer.finished)
         /\ opusFile'.message = opusFile.message
         /\ FillBuffer.size # 0 => used' = Append(used, FillBuffer)
         /\ FillBuffer.size = 0 => used' = used
  BY <1>3, <1>4 DEF DecoderLoop
<1>6. QueueRight' BY <1>1, <1>2, <1>5, QueueKept
<1>7. TrackRight' BY <1>1 DEF TrackRight, NoTrack, NoOpening, Within
<1>8. CASE UNCHANGED <<opusFile, used>>
  BY <1>1, <1>6, <1>7, <1>8, Unheard DEF Heard, Told, HeardInv
<1>9. CASE opusFile.finished /\ ~UNCHANGED <<opusFile, used>>
  <2>1. FillBuffer.size = 0 BY <1>9 DEF FillBuffer
  <2>2. UNCHANGED used /\ opusFile'.pos = opusFile.pos /\ opusFile'.finished
    BY <1>4, <1>5, <1>9, <2>1
  <2>3. /\ Uneven' = Uneven /\ Pending' = Pending /\ HandEnd' = HandEnd /\ Told' = Told
        /\ EndOf(used, HandEnd)' = EndOf(used, HandEnd)
    BY <1>1, <2>2 DEF Uneven, Pending, HandEnd, NoBuffer, EndOf, Told
  <2>4. Chain' BY <1>1, <2>2, <2>3 DEF Chain, Linked, EndOf
  <2>5. AtEnd' BY <1>1, <1>9, <2>2, <2>3 DEF AtEnd, Sound, EndOf
  <2> QED BY <1>6, <1>7, <2>4, <2>5 DEF HeardInv
<1>10. CASE ~opusFile.finished /\ ~UNCHANGED <<opusFile, used>>
  <2>1. SUFFICES ASSUME clean, ~cut PROVE Chain' /\ AtEnd'
    BY <1>1, <1>6, <1>7 DEF Chain, AtEnd, HeardInv
  <2>2. /\ FillBuffer.pcmOffset = opusFile.pos /\ ~FillBuffer.done
        /\ Uneven => /\ Sound(FillBuffer)
                     /\ ~FillBuffer.finished =>
                           \E j \in Nat : opusFile.pos + FillBuffer.size = from + j * Capacity
    BY <1>1, <1>10, <2>1, ReadsOn
  <2>3. /\ Linked(track.written, from) /\ (Pending => hand.pcmOffset = EndOf(track.written, from))
        /\ Linked(used, HandEnd) /\ opusFile.pos = EndOf(used, HandEnd)
        /\ \A i \in 1 .. Len(used) : ~used[i].done
    BY <1>1, <2>1 DEF Chain
  <2>4. /\ Linked(used', HandEnd) /\ EndOf(used', HandEnd) = opusFile'.pos
        /\ \A i \in 1 .. Len(used') : ~used'[i].done
    <3>1. CASE FillBuffer.size = 0 BY <1>4, <1>5, <1>10, <2>3, <3>1
    <3>2. CASE FillBuffer.size # 0
      <4>1. used' = Append(used, FillBuffer) /\ FillBuffer \in Piece
        BY <1>3, <1>5, <1>10, <3>2
      <4>2. Linked(used', HandEnd) /\ EndOf(used', HandEnd) = FillBuffer.pcmOffset + FillBuffer.size
        BY <1>1, <2>2, <2>3, <4>1, LinkedAppend
      <4>3. \A i \in 1 .. Len(used') : ~used'[i].done
        <5>1. \A i \in 1 .. Len(Append(used, FillBuffer)) :
                 \/ Append(used, FillBuffer)[i] = FillBuffer
                 \/ i \in 1 .. Len(used) /\ Append(used, FillBuffer)[i] = used[i]
          BY <1>1, <4>1, Appended
        <5> QED BY <2>2, <2>3, <4>1, <5>1
      <4> QED BY <1>5, <1>10, <2>2, <4>2, <4>3
    <3> QED BY <3>1, <3>2
  <2>5. /\ (Uneven' <=> Uneven) /\ Pending' = Pending /\ HandEnd' = HandEnd /\ Told' = Told
        /\ EndOf(used, HandEnd)' = EndOf(used', HandEnd)
        /\ EndOf(track.written, from)' = EndOf(track.written, from)
    BY <1>1 DEF Uneven, Pending, HandEnd, NoBuffer, EndOf, Told
  <2>6. Chain' BY <1>1, <2>3, <2>4, <2>5 DEF Chain, Linked
  <2>7. ASSUME Uneven PROVE AtEnd'
    <3>1. /\ opusFile'.pos = opusFile.pos + FillBuffer.size
          /\ opusFile'.finished = FillBuffer.finished
      BY <1>3, <1>5, <1>10
    <3>2. /\ Sound(FillBuffer)
          /\ opusFile'.pos <= total[playing] /\ (opusFile'.finished => opusFile'.pos = total[playing])
          /\ ~opusFile'.finished => \E j \in Nat : opusFile'.pos = from + j * Capacity
      BY <2>2, <2>7, <3>1 DEF Sound
    <3>3. used' = Append(used, FillBuffer) BY <1>3, <1>5, <1>10, <3>2 DEF Sound
    <3>4. \A i \in 1 .. Len(used') : Sound(used'[i])
      <4>1. FillBuffer \in Piece BY <1>3, <3>2 DEF Sound
      <4>2. \A i \in 1 .. Len(used) : Sound(used[i])
        BY <1>1, <2>1, <2>7 DEF AtEnd
      <4>3. \A i \in 1 .. Len(used') : used'[i] = FillBuffer \/ (i \in 1 .. Len(used) /\ used'[i] = used[i])
        <5>1. \A i \in 1 .. Len(Append(used, FillBuffer)) :
                 \/ Append(used, FillBuffer)[i] = FillBuffer
                 \/ i \in 1 .. Len(used) /\ Append(used, FillBuffer)[i] = used[i]
          BY <1>1, <4>1, Appended
        <5> QED BY <3>3, <5>1
      <4> QED BY <3>2, <4>2, <4>3
    <3>5. \A p : Sound(p)' <=> Sound(p) BY <1>1 DEF Sound
    <3>6. /\ Pending' => Sound(hand)
          /\ Told' => track.written # <<>> /\ EndOf(track.written, from) = total[playing]
      BY <1>1, <2>1, <2>5, <2>7 DEF AtEnd
    <3> QED BY <1>1, <2>5, <3>2, <3>4, <3>5, <3>6 DEF AtEnd, Sound
  <2>8. ASSUME ~Uneven PROVE AtEnd' BY <2>5, <2>8 DEF AtEnd
  <2> QED BY <2>6, <2>7, <2>8
<1> QED BY <1>8, <1>9, <1>10

LEMMA OpenFileHeard == IInv /\ HeardInv /\ OpenFile => HeardInv'
<1> SUFFICES ASSUME IInv, HeardInv, OpenFile PROVE HeardInv'
  OBVIOUS
<1>1. /\ Typed /\ TrackRight /\ QueueRight /\ decodeQueue \in Seq(Task) /\ decodeQueue # <<>>
      /\ UNCHANGED <<total, playing, track, opening, uiQueue, from, clean, cut>>
      /\ decodeQueue' = Tail(decodeQueue) /\ IsOpen(Head(decodeQueue))
      /\ opusFile' = InitPlayer(Head(decodeQueue).message)
  BY DEF IInv, Typed, HeardInv, OpenFile, ui, history, IsOpen
<1>2. /\ Len(decodeQueue) \in Nat \ {0} /\ Len(decodeQueue') = Len(decodeQueue) - 1
      /\ Head(decodeQueue) = decodeQueue[1] /\ 1 \in 1 .. Len(decodeQueue)
      /\ \A i \in 1 .. Len(decodeQueue') :
            i + 1 \in 1 .. Len(decodeQueue) /\ decodeQueue'[i] = decodeQueue[i + 1]
      /\ \A j \in 1 .. Len(decodeQueue) :
            j # 1 => j - 1 \in 1 .. Len(decodeQueue') /\ decodeQueue'[j - 1] = decodeQueue[j]
  BY <1>1, TailOf
<1>3. opening.locked /\ Head(decodeQueue).message = opening.message
  BY <1>1, <1>2 DEF QueueRight
<1>4. track = NoTrack /\ playing = NoMessage /\ ~clean
  BY <1>1, <1>3 DEF TrackRight, NoOpening
<1>5. opusFile'.message = opening'.message BY <1>1, <1>3 DEF InitPlayer
<1>6. \A i \in 1 .. Len(decodeQueue') : IsOpen(decodeQueue'[i]) =>
          opening'.locked /\ decodeQueue'[i].message = opening'.message
  BY <1>1, <1>2 DEF QueueRight
<1>7. ASSUME NEW i \in 1 .. Len(decodeQueue'), Puts(decodeQueue'[i])
      PROVE  \E j \in i + 1 .. Len(decodeQueue') : IsOpen(decodeQueue'[j])
  <2>1. PICK j \in (i + 1) + 1 .. Len(decodeQueue) : IsOpen(decodeQueue[j])
    BY <1>1, <1>2, <1>3, <1>7 DEF QueueRight
  <2>2. j \in 1 .. Len(decodeQueue) /\ j # 1 /\ j - 1 \in i + 1 .. Len(decodeQueue')
    BY <1>2, <2>1
  <2> QED BY <1>2, <2>1, <2>2
<1>8. QueueRight' BY <1>1, <1>4, <1>5, <1>6, <1>7 DEF QueueRight
<1>9. TrackRight' BY <1>1 DEF TrackRight, NoTrack, NoOpening, Within
<1> QED BY <1>1, <1>4, <1>8, <1>9, NotClean DEF HeardInv

(* The file is put somewhere: when nothing else is under way, what is *)
(* heard begins there. *)
LEMMA BeginsAnew ==
    ASSUME Typed, UNCHANGED <<total, playing, track, hand>>, used' = <<>>, ~Told',
           from' \in Int, opusFile'.finished = opusFile.finished, from' < total[playing],
           playing \in Messages, Undisturbed(from')
    PROVE  Chain' /\ AtEnd'
<1>1. /\ hand' = NoBuffer /\ track'.written = <<>> /\ ~opusFile'.finished
      /\ opusFile'.pos = from' /\ ~Pending'
  BY DEF Undisturbed, Pending, NoBuffer
<1>2. HandEnd' = from' /\ EndOf(used, HandEnd)' = from' /\ EndOf(track.written, from)' = from'
  BY <1>1 DEF HandEnd, EndOf
<1>3. \A b : Linked(<<>>, b) BY DEF Linked
<1>4. Chain' BY <1>1, <1>2, <1>3 DEF Chain, Linked
<1>5. from' = from' + 0 * Capacity
  <2>1. ASSUME NEW x \in Int PROVE x = x + 0 * Capacity OBVIOUS
  <2> QED BY <2>1
<1>6. total[playing] \in Int
  <2>1. total \in [Messages -> Totals] /\ Totals \subseteq Int
    BY AudioAssumption DEF Typed
  <2> QED BY <2>1
<1>7. opusFile'.pos <= total'[playing'] BY <1>1, <1>6
<1>8. \E j \in Nat : opusFile'.pos = from' + j * Capacity BY <1>1, <1>5
<1>9. \A i \in 1 .. Len(used') : FALSE OBVIOUS
<1> QED BY <1>1, <1>4, <1>7, <1>8, <1>9 DEF AtEnd

LEMMA MovesFileHeard == IInv /\ HeardInv /\ (RestartFile \/ SeekFile) => HeardInv'
<1> SUFFICES ASSUME IInv, HeardInv, RestartFile \/ SeekFile PROVE HeardInv'
  OBVIOUS
<1>1. /\ Typed /\ TrackRight /\ QueueRight /\ decodeQueue \in Seq(Task) /\ decodeQueue # <<>>
      /\ UNCHANGED <<total, playing, track, opening, hand>>
      /\ decodeQueue' = Tail(decodeQueue) /\ Puts(Head(decodeQueue)) /\ used' = <<>>
      /\ uiQueue \in Seq({"marker", "sought"})
  BY DEF IInv, Typed, HeardInv, RestartFile, SeekFile, ui, player, Puts
<1>2. Head(decodeQueue) \in Task /\ Head(decodeQueue) = decodeQueue[1] /\ 1 \in 1 .. Len(decodeQueue)
  BY <1>1, TailOf
<1>3. Head(decodeQueue).at \in Int /\ ~IsOpen(Head(decodeQueue))
  BY <1>1, <1>2 DEF Task, IsOpen, Puts
<1>4. playing # NoMessage => Within(Head(decodeQueue).at, playing)
  BY <1>1, <1>2 DEF QueueRight
<1>5. /\ from' \in Int /\ (playing # NoMessage => Within(from', playing))
      /\ clean' => track # NoTrack /\ Undisturbed(from')
      /\ opusFile'.message = opusFile.message /\ opusFile'.finished = opusFile.finished
  <2>1. opusFile \in [message : MaybeMessage, pos : Int, finished : BOOLEAN]
    BY <1>1 DEF Typed
  <2>2. CASE RestartFile
    <3>1. /\ opusFile' = [opusFile EXCEPT !.pos = IF StartsAt # 0 THEN StartsAt ELSE @]
          /\ from' = StartsAt /\ clean' = (track # NoTrack /\ Undisturbed(StartsAt))
      BY <2>2, Zenon DEF RestartFile
    <3>2. StartsAt = IF playing = NoMessage THEN 0 ELSE Head(decodeQueue).at
      BY DEF StartsAt
    <3>3. from' \in Int /\ (playing # NoMessage => Within(from', playing))
      BY <1>3, <1>4, <3>1, <3>2
    <3>4. clean' => track # NoTrack /\ Undisturbed(from') BY <3>1, Zenon
    <3> QED BY <2>1, <3>1, <3>3, <3>4
  <2>3. CASE SeekFile
    <3>1. /\ opusFile' = [opusFile EXCEPT !.pos = Head(decodeQueue).at]
          /\ from' = Head(decodeQueue).at
          /\ clean' = (track # NoTrack /\ Undisturbed(Head(decodeQueue).at) /\ ~decodingFinished)
      BY <2>3, Zenon DEF SeekFile
    <3>2. clean' => track # NoTrack /\ Undisturbed(from') BY <3>1, Zenon
    <3> QED BY <1>3, <1>4, <2>1, <3>1, <3>2
  <2> QED BY <2>2, <2>3
<1>6. QueueRight' BY <1>1, <1>3, <1>5, QueueKept
<1>7. TrackRight' BY <1>1, <1>5 DEF TrackRight, NoTrack, NoOpening, Within
<1>8. ASSUME clean' PROVE Chain' /\ AtEnd'
  <2>1. track # NoTrack /\ Undisturbed(from') BY <1>5, <1>8
  <2>2. playing \in Messages /\ from' < total[playing]
    <3>1. playing \in Messages BY <1>1, <2>1 DEF TrackRight, Typed, MaybeMessage
    <3>2. total[playing] \in Int
      <4>1. total \in [Messages -> Totals] /\ Totals \subseteq Int
        BY <1>1, AudioAssumption DEF Typed
      <4> QED BY <3>1, <4>1
    <3> QED BY <1>5, <3>1, <3>2, AudioAssumption DEF Within
  <2>3. ~Told'
    <3>1. ~track'.marker /\ uiQueue = <<>> BY <1>1, <2>1 DEF Undisturbed
    <3>2. uiQueue' = <<>> \/ uiQueue' = <<"sought">>
      BY <3>1 DEF RestartFile, SeekFile
    <3> QED BY <3>1, <3>2 DEF Told
  <2> QED BY <1>1, <1>5, <2>1, <2>2, <2>3, BeginsAnew
<1> QED BY <1>6, <1>7, <1>8, NotClean DEF HeardInv

LEMMA DecodesHeard == IInv /\ HeardInv /\ Decodes => HeardInv'
BY CheckDecoderQueueHeard, DecoderLoopHeard, OpenFileHeard, MovesFileHeard DEF Decodes

-----------------------------------------------------------------------------
(* The player's thread. *)
LEMMA CheckPlayerQueueHeard == IInv /\ HeardInv /\ CheckPlayerQueue => HeardInv'
<1> SUFFICES ASSUME IInv, HeardInv, CheckPlayerQueue PROVE HeardInv'
  OBVIOUS
<1>1. /\ Typed /\ TrackRight /\ QueueRight /\ Chain /\ AtEnd
      /\ UNCHANGED <<total, playing, track, opening, uiQueue, opusFile, from, clean, cut>>
      /\ decodeQueue' \in {decodeQueue, Append(decodeQueue, Check)}
      /\ used \in Seq(Piece) /\ hand = NoBuffer
      /\ \/ UNCHANGED <<used, hand>>
         \/ used # <<>> /\ hand' = Head(used) /\ used' = Tail(used)
  BY DEF IInv, Typed, HeardInv, CheckPlayerQueue, ui, decoder, history
<1>2. QueueRight' BY <1>1, QueueKept
<1>3. TrackRight' BY <1>1 DEF TrackRight, NoTrack, NoOpening, Within
<1>4. CASE UNCHANGED <<used, hand>>
  BY <1>1, <1>2, <1>3, <1>4, Unheard DEF Heard, Told, HeardInv
<1>5. CASE used # <<>> /\ hand' = Head(used) /\ used' = Tail(used)
  <2>1. ~Pending /\ HandEnd = EndOf(track.written, from)
    BY <1>1 DEF Pending, HandEnd
  <2>2. /\ \A p : Sound(p)' <=> Sound(p)
        /\ (Uneven' <=> Uneven) /\ (Told' <=> Told)
        /\ EndOf(track.written, from)' = EndOf(track.written, from)
    BY <1>1 DEF Sound, Uneven, Told, EndOf
  <2>3. ASSUME clean, ~cut PROVE Chain'
    <3>1. /\ Linked(track.written, from) /\ Linked(used, HandEnd)
          /\ opusFile.pos = EndOf(used, HandEnd)
          /\ \A i \in 1 .. Len(used) : ~used[i].done
      BY <1>1, <2>3 DEF Chain
    <3>2. /\ hand'.pcmOffset = EndOf(track.written, from)
          /\ Linked(used', hand'.pcmOffset + hand'.size)
          /\ EndOf(used', hand'.pcmOffset + hand'.size) = opusFile.pos
      BY <1>1, <1>5, <2>1, <3>1, LinkedTail
    <3>3. hand' # NoBuffer BY <1>1, <1>5, TailOf, PieceIsOne
    <3>4. ~hand'.done /\ \A i \in 1 .. Len(used') : ~used'[i].done
      <4>1. /\ hand' = used[1] /\ 1 \in 1 .. Len(used)
            /\ \A i \in 1 .. Len(used') : i + 1 \in 1 .. Len(used) /\ used'[i] = used[i + 1]
        BY <1>1, <1>5, TailOf
      <4> QED BY <3>1, <4>1
    <3>5. HandEnd' = hand'.pcmOffset + hand'.size
      BY <3>3, <3>4 DEF HandEnd, Pending, NoBuffer
    <3> QED BY <1>1, <2>2, <3>1, <3>2, <3>4, <3>5 DEF Chain, Linked, EndOf
  <2>4. ASSUME clean, ~cut, Uneven PROVE AtEnd'
    <3>1. /\ \A i \in 1 .. Len(used) : Sound(used[i])
          /\ opusFile.pos <= total[playing] /\ (opusFile.finished => opusFile.pos = total[playing])
          /\ ~opusFile.finished => \E j \in Nat : opusFile.pos = from + j * Capacity
          /\ Told => track.written # <<>> /\ EndOf(track.written, from) = total[playing]
      BY <1>1, <2>4 DEF AtEnd
    <3>2. Sound(hand') /\ \A i \in 1 .. Len(used') : Sound(used'[i])
      <4>1. /\ hand' = used[1] /\ 1 \in 1 .. Len(used)
            /\ \A i \in 1 .. Len(used') : i + 1 \in 1 .. Len(used) /\ used'[i] = used[i + 1]
        BY <1>1, <1>5, TailOf
      <4> QED BY <3>1, <4>1
    <3> QED BY <1>1, <2>2, <3>1, <3>2 DEF AtEnd, EndOf, Sound
  <2>5. ASSUME ~(clean /\ ~cut) PROVE Chain' /\ AtEnd'
    BY <1>1, <2>5 DEF Chain, AtEnd
  <2>6. ASSUME ~Uneven PROVE AtEnd' BY <2>2, <2>6 DEF AtEnd
  <2> QED BY <1>2, <1>3, <2>3, <2>4, <2>5, <2>6 DEF HeardInv
<1> QED BY <1>1, <1>4, <1>5

LEMMA WriteTrackHeard == IInv /\ HeardInv /\ WriteTrack => HeardInv'
<1> SUFFICES ASSUME IInv, HeardInv, WriteTrack PROVE HeardInv'
  OBVIOUS
<1> DEFINE piece(count) == [pcmOffset |-> hand.pcmOffset, size |-> count]
<1>1. /\ Typed /\ TrackRight /\ QueueRight /\ Chain /\ AtEnd
      /\ UNCHANGED <<total, playing, opening, opusFile, used, from, clean>>
      /\ decodeQueue' \in {decodeQueue, Append(decodeQueue, Check)}
      /\ hand \in Piece /\ hand # NoBuffer /\ ~hand.done /\ hand' = [hand EXCEPT !.done = TRUE]
      /\ uiQueue \in Seq({"marker", "sought"})
  BY DEF IInv, Typed, HeardInv, WriteTrack, decoder
<1>2. PICK count \in Count(hand) :
        /\ track' = IF count = 0 THEN track
                    ELSE [track EXCEPT !.written = Append(@, piece(count))]
        /\ cut' = (cut \/ count < hand.size)
        /\ uiQueue' = IF count > 0 /\ hand.finished THEN Append(uiQueue, "marker") ELSE uiQueue
  BY DEF WriteTrack
<1>3. count \in Int /\ hand.size \in Int \ {0} /\ hand.pcmOffset \in Int
      /\ (track = NoTrack => count = 0)
      /\ (track.state \in {"playing", "paused"} => count <= hand.size)
  BY <1>1 DEF Count, Piece, NoTrack
<1>4. QueueRight' BY <1>1, QueueKept
<1>5. /\ track.written \in Seq([pcmOffset : Int, size : Int])
      /\ track = [state |-> track.state, marker |-> track.marker, written |-> track.written]
      /\ piece(count) \in [pcmOffset : Int, size : Int]
  BY <1>1, <1>3 DEF TrackRight
<1> HIDE DEF piece
<1>6. /\ track'.state = track.state /\ track'.marker = track.marker
      /\ track'.written = IF count = 0 THEN track.written ELSE Append(track.written, piece(count))
      /\ track' = [state |-> track'.state, marker |-> track'.marker, written |-> track'.written]
      /\ DOMAIN track' = {"state", "marker", "written"}
      /\ track'.written \in Seq([pcmOffset : Int, size : Int])
  <2>1. CASE count = 0 BY <1>1, <1>2, <1>5, <2>1 DEF TrackRight
  <2>2. CASE count # 0
    <3> DEFINE w == Append(track.written, piece(count))
    <3>1. track' = [track EXCEPT !.written = w] /\ w \in Seq([pcmOffset : Int, size : Int])
      BY <1>2, <1>5, <2>2
    <3> HIDE DEF w
    <3>2. [track EXCEPT !.written = w] = [state |-> track.state, marker |-> track.marker, written |-> w]
      BY <1>5
    <3>3. track' = [state |-> track.state, marker |-> track.marker, written |-> w]
      BY <3>1, <3>2
    <3>4. /\ track'.state = track.state /\ track'.marker = track.marker /\ track'.written = w
          /\ DOMAIN track' = {"state", "marker", "written"}
      BY <3>3
    <3> QED BY <2>2, <3>1, <3>3, <3>4 DEF w
  <2> QED BY <2>1, <2>2
<1>7. track = NoTrack <=> track' = NoTrack
  <2>1. CASE count = 0 BY <1>2, <2>1
  <2>2. CASE count # 0
    <3>1. track # NoTrack /\ track.state # "none"
      BY <1>1, <1>3, <2>2 DEF TrackRight, NoTrack
    <3>2. track'.state # "none" BY <1>6, <3>1
    <3> QED BY <3>1, <3>2 DEF NoTrack
  <2> QED BY <2>1, <2>2
<1>8. TrackRight' BY <1>1, <1>6, <1>7 DEF TrackRight, NoTrack, NoOpening, Within
<1>9. CASE clean /\ ~cut'
  <2>1. ~cut /\ ~(count < hand.size) BY <1>2, <1>9
  <2>2. track # NoTrack /\ track.state \in {"playing", "paused"}
    BY <1>1, <1>9 DEF TrackRight
  <2>3. count = hand.size /\ count # 0 BY <1>3, <2>1, <2>2
  <2>4. /\ Linked(track.written, from) /\ hand.pcmOffset = EndOf(track.written, from)
        /\ Linked(used, hand.pcmOffset + hand.size)
        /\ opusFile.pos = EndOf(used, hand.pcmOffset + hand.size)
        /\ \A i \in 1 .. Len(used) : ~used[i].done
    BY <1>1, <1>9, <2>1 DEF Chain, Pending, HandEnd
  <2>5. piece(count).pcmOffset = hand.pcmOffset /\ piece(count).size = hand.size
    BY <2>3 DEF piece
  <2>6. /\ Linked(track'.written, from) /\ track'.written # <<>>
        /\ EndOf(track'.written, from) = hand.pcmOffset + hand.size
    <3>1. track'.written = Append(track.written, piece(count)) BY <1>6, <2>3
    <3>2. piece(count).pcmOffset = EndOf(track.written, from) BY <2>4, <2>5
    <3>3. /\ Linked(Append(track.written, piece(count)), from)
          /\ Append(track.written, piece(count)) # <<>>
          /\ EndOf(Append(track.written, piece(count)), from) = piece(count).pcmOffset + piece(count).size
      BY <1>5, <2>4, <3>2, LinkedAppend, ZenonT(90)
    <3> QED BY <2>5, <3>1, <3>3
  <2>7. ~Pending' /\ HandEnd' = EndOf(track'.written, from')
    BY <1>1 DEF Pending, HandEnd, Piece, EndOf
  <2>8. Chain' BY <1>1, <2>4, <2>6, <2>7 DEF Chain, Linked, EndOf
  <2>9. /\ (Uneven' <=> Uneven) /\ EndOf(track.written, from)' = EndOf(track'.written, from)
        /\ \A p : Sound(p)' <=> Sound(p)
    BY <1>1 DEF Uneven, EndOf, Sound
  <2>10. ASSUME Uneven PROVE AtEnd'
    <3>1. /\ Sound(hand) /\ \A i \in 1 .. Len(used) : Sound(used[i])
          /\ opusFile.pos <= total[playing] /\ (opusFile.finished => opusFile.pos = total[playing])
          /\ ~opusFile.finished => \E j \in Nat : opusFile.pos = from + j * Capacity
          /\ Told => EndOf(track.written, from) = total[playing]
      BY <1>1, <1>9, <2>1, <2>10 DEF AtEnd, Pending
    <3>2. total[playing] \in Int
      <4>1. total \in [Messages -> Totals] /\ Totals \subseteq Int /\ playing \in Messages
        BY <1>1, <2>2, AudioAssumption DEF Typed, TrackRight, MaybeMessage
      <4> QED BY <4>1
    <3>3. ~Told BY <1>3, <2>4, <3>1, <3>2 DEF Sound
    <3>4. Told' => hand.finished
      <4>1. CASE hand.finished BY <4>1
      <4>2. CASE ~hand.finished
        <5>1. uiQueue' = uiQueue BY <1>2, <4>2
        <5> QED BY <1>6, <3>3, <5>1 DEF Told
      <4> QED BY <4>1, <4>2
    <3>5. Told' => EndOf(track'.written, from) = total[playing]
      BY <2>6, <3>1, <3>4 DEF Sound
    <3> QED BY <1>1, <2>6, <2>7, <2>9, <3>1, <3>5 DEF AtEnd, EndOf, Sound
  <2>11. ASSUME ~Uneven PROVE AtEnd' BY <2>9, <2>11 DEF AtEnd
  <2> QED BY <1>4, <1>8, <2>8, <2>10, <2>11 DEF HeardInv
<1>10. CASE ~(clean /\ ~cut')
  BY <1>1, <1>4, <1>8, <1>10 DEF Chain, AtEnd, HeardInv
<1> QED BY <1>9, <1>10

LEMMA ReturnBufferHeard == IInv /\ HeardInv /\ ReturnBuffer => HeardInv'
<1> SUFFICES ASSUME IInv, HeardInv, ReturnBuffer PROVE HeardInv'
  OBVIOUS
<1>1. /\ Typed /\ TrackRight /\ QueueRight /\ Chain /\ AtEnd
      /\ UNCHANGED <<total, playing, track, opening, uiQueue, opusFile, decodeQueue, used, from,
                     clean, cut>>
      /\ hand.done /\ hand' = NoBuffer
  BY DEF IInv, HeardInv, ReturnBuffer, ui, decoder, history
<1>2. QueueRight' BY <1>1, QueueKept
<1>3. TrackRight' BY <1>1 DEF TrackRight, NoTrack, NoOpening, Within
<1>4. /\ ~Pending /\ ~Pending' /\ (Uneven' <=> Uneven) /\ (Told' <=> Told)
      /\ EndOf(track.written, from)' = EndOf(track.written, from) /\ HandEnd' = HandEnd
      /\ EndOf(used, HandEnd)' = EndOf(used, HandEnd)
  BY <1>1 DEF Pending, Uneven, Told, EndOf, HandEnd, NoBuffer
<1>5. Chain' BY <1>1, <1>4 DEF Chain, Linked
<1>6. AtEnd' BY <1>1, <1>4 DEF AtEnd, Sound
<1> QED BY <1>2, <1>3, <1>5, <1>6 DEF HeardInv

LEMMA PlaysHeard == IInv /\ HeardInv /\ Plays => HeardInv'
BY CheckPlayerQueueHeard, WriteTrackHeard, ReturnBufferHeard DEF Plays

-----------------------------------------------------------------------------
(* The UI thread. *)
LEMMA PostedHeard == IInv /\ HeardInv /\ (SetMarker \/ Sought) => HeardInv'
<1> SUFFICES ASSUME IInv, HeardInv, SetMarker \/ Sought PROVE HeardInv'
  OBVIOUS
<1>1. /\ Typed /\ TrackRight /\ QueueRight /\ Chain /\ AtEnd
      /\ UNCHANGED <<total, playing, opening, opusFile, decodeQueue, used, hand, from, clean, cut>>
      /\ uiQueue \in Seq({"marker", "sought"}) /\ uiQueue # <<>> /\ uiQueue' = Tail(uiQueue)
  BY DEF IInv, Typed, HeardInv, SetMarker, Sought, decoder, player, history
<1>2. QueueRight' BY <1>1, QueueKept
<1>3. \/ UNCHANGED track
      \/ track # NoTrack /\ SetMarker /\ track' = [track EXCEPT !.marker = TRUE]
      \/ track # NoTrack /\ Sought /\ track' = [track EXCEPT !.state = "playing"]
  BY DEF SetMarker, Sought
<1>4. /\ UNCHANGED track.written /\ (track' = NoTrack <=> track = NoTrack)
      /\ TrackRight' /\ (track'.marker => track.marker \/ SetMarker)
  <2>1. /\ track = [state |-> track.state, marker |-> track.marker, written |-> track.written]
        /\ track # NoTrack => track.state # "none"
    BY <1>1 DEF TrackRight
  <2>2. CASE UNCHANGED track
    BY <1>1, <2>2 DEF TrackRight, NoTrack, NoOpening, Within
  <2>3. CASE track # NoTrack /\ SetMarker /\ track' = [track EXCEPT !.marker = TRUE]
    <3>1. track' = [state |-> track.state, marker |-> TRUE, written |-> track.written]
      BY <2>1, <2>3
    <3>2. track' # NoTrack /\ track.state # "none"
      BY <2>1, <2>3, <3>1 DEF NoTrack
    <3> QED BY <1>1, <2>3, <3>1, <3>2 DEF TrackRight, NoOpening, Within
  <2>4. CASE track # NoTrack /\ Sought /\ track' = [track EXCEPT !.state = "playing"]
    <3>1. track' = [state |-> "playing", marker |-> track.marker, written |-> track.written]
      BY <2>1, <2>4
    <3>2. track' # NoTrack BY <3>1 DEF NoTrack
    <3> QED BY <1>1, <2>4, <3>1, <3>2 DEF TrackRight, NoOpening, Within
  <2> QED BY <1>3, <2>2, <2>3, <2>4
<1>5. Told' => Told
  <2>1. /\ uiQueue[1] = Head(uiQueue) /\ 1 \in 1 .. Len(uiQueue)
        /\ \A i \in 1 .. Len(uiQueue') :
              i + 1 \in 1 .. Len(uiQueue) /\ uiQueue'[i] = uiQueue[i + 1]
    BY <1>1, TailOf
  <2>2. SetMarker => uiQueue[1] = "marker" BY <2>1 DEF SetMarker
  <2> QED BY <1>4, <2>1, <2>2 DEF Told
<1>6. Chain' /\ AtEnd' BY <1>1, <1>4, <1>5, Unheard DEF Heard
<1> QED BY <1>2, <1>4, <1>6 DEF HeardInv

(* Whatever puts the track away, begins or seeks is not heard as the same. *)
LEMMA StopsHeard == IInv /\ HeardInv /\ (MarkerReached \/ StopAudio) => HeardInv'
<1> SUFFICES ASSUME IInv, HeardInv, MarkerReached \/ StopAudio PROVE HeardInv'
  OBVIOUS
<1>1. /\ Typed /\ TrackRight /\ QueueRight /\ UNCHANGED <<total, opening, opusFile, decodeQueue, from>>
      /\ playing' = NoMessage /\ track' = NoTrack /\ ~clean'
  BY DEF IInv, HeardInv, MarkerReached, StopAudio, CleanupPlayer, decoder
<1>2. QueueRight' BY <1>1, QueueKept
<1>3. NoTrack.written \in Seq([pcmOffset : Int, size : Int])
  BY EmptySeq DEF NoTrack
<1>4. TrackRight' BY <1>1, <1>3 DEF TrackRight, NoTrack, NoOpening, Within
<1> QED BY <1>1, <1>2, <1>4, NotClean DEF HeardInv

LEMMA PauseHeard == IInv /\ HeardInv /\ (PauseAudio \/ ResumeAudio) => HeardInv'
<1> SUFFICES ASSUME IInv, HeardInv, PauseAudio \/ ResumeAudio PROVE HeardInv'
  OBVIOUS
<1>1. /\ Typed /\ TrackRight /\ QueueRight /\ Chain /\ AtEnd
      /\ UNCHANGED <<total, playing, opening, uiQueue, opusFile, decodeQueue, used, hand, from,
                     clean, cut>>
      /\ playing # NoMessage
      /\ track' \in {[track EXCEPT !.state = "paused"], [track EXCEPT !.state = "playing"]}
  BY DEF IInv, HeardInv, PauseAudio, ResumeAudio, decoder, player, history
<1>2. QueueRight' BY <1>1, QueueKept
<1>3. track = [state |-> track.state, marker |-> track.marker, written |-> track.written]
      /\ track # NoTrack
  BY <1>1 DEF TrackRight
<1>4. PICK st \in {"paused", "playing"} :
        track' = [state |-> st, marker |-> track.marker, written |-> track.written]
  BY <1>1, <1>3
<1>5. track' # NoTrack BY <1>4 DEF NoTrack
<1>6. TrackRight' BY <1>1, <1>3, <1>4, <1>5 DEF TrackRight, NoOpening, Within
<1>7. Chain' /\ AtEnd' BY <1>1, <1>4, Unheard DEF Heard, Told
<1> QED BY <1>2, <1>6, <1>7 DEF HeardInv

(* A task that opens or puts the file comes last. *)
LEMMA LastOf ==
    ASSUME NEW S, NEW q \in Seq(S), NEW t \in S
    PROVE  /\ Len(q) \in Nat /\ Len(Append(q, t)) = Len(q) + 1 /\ Append(q, t)[Len(q) + 1] = t
           /\ \A i \in 1 .. Len(q) : i \in 1 .. Len(q) + 1 /\ i # Len(q) + 1 /\ Append(q, t)[i] = q[i]
           /\ \A i \in 1 .. Len(q) + 1 : i = Len(q) + 1 \/ i \in 1 .. Len(q)
OBVIOUS

LEMMA SeekHeard ==
    ASSUME NEW m \in Messages, NEW at \in 0 .. total[m] - 1
    PROVE  IInv /\ HeardInv /\ m = playing /\ SeekToProgress(at) => HeardInv'
<1> SUFFICES ASSUME IInv, HeardInv, m = playing, SeekToProgress(at) PROVE HeardInv'
  OBVIOUS
<1>1. /\ Typed /\ TrackRight /\ QueueRight /\ decodeQueue \in Seq(Task)
      /\ UNCHANGED <<total, playing, opening, opusFile, from>> /\ opening = NoOpening
      /\ playing # NoMessage /\ decodeQueue' = Append(decodeQueue, Seek(at)) /\ ~clean'
      /\ track' = [track EXCEPT !.state = "paused", !.written = <<>>]
  BY DEF IInv, Typed, HeardInv, SeekToProgress, Call, Idle, decoder
<1>2. Seek(at) \in Task /\ Seek(at).kind = "seek" /\ Seek(at).at = at
  BY DEF Seek, Task, MaybeMessage
<1>3. /\ Len(decodeQueue) \in Nat /\ Len(decodeQueue') = Len(decodeQueue) + 1
      /\ decodeQueue'[Len(decodeQueue) + 1] = Seek(at)
      /\ \A i \in 1 .. Len(decodeQueue) : decodeQueue'[i] = decodeQueue[i]
      /\ \A i \in 1 .. Len(decodeQueue') : i = Len(decodeQueue) + 1 \/ i \in 1 .. Len(decodeQueue)
  BY <1>1, <1>2, LastOf
<1>4. ~opening'.locked BY <1>1 DEF NoOpening
<1>5. \A i \in 1 .. Len(decodeQueue') : ~IsOpen(decodeQueue'[i])
  BY <1>1, <1>2, <1>3, <1>4 DEF QueueRight, IsOpen
<1>6. \A i \in 1 .. Len(decodeQueue') : Puts(decodeQueue'[i]) =>
          decodeQueue'[i].at \in 0 .. total'[playing'] - 1
  BY <1>1, <1>2, <1>3 DEF QueueRight, Within
<1>7. QueueRight' BY <1>1, <1>4, <1>5, <1>6 DEF QueueRight, Within
<1>8. TrackRight'
  <2>1. track = [state |-> track.state, marker |-> track.marker, written |-> track.written]
        /\ track # NoTrack
    BY <1>1 DEF TrackRight
  <2>2. track' = [state |-> "paused", marker |-> track.marker, written |-> <<>>]
    BY <1>1, <2>1
  <2>3. track' # NoTrack BY <2>2 DEF NoTrack
  <2>4. <<>> \in Seq([pcmOffset : Int, size : Int]) BY EmptySeq
  <2> QED BY <1>1, <2>1, <2>2, <2>3, <2>4 DEF TrackRight, NoOpening, Within
<1> QED BY <1>1, <1>7, <1>8, NotClean DEF HeardInv

LEMMA PlayHeard ==
    ASSUME NEW m \in Messages, NEW at \in 0 .. total[m] - 1
    PROVE  IInv /\ HeardInv /\ PlayAudio(m, at) => HeardInv'
<1> SUFFICES ASSUME IInv, HeardInv, PlayAudio(m, at) PROVE HeardInv'
  OBVIOUS
<1>1. /\ Typed /\ TrackRight /\ QueueRight /\ UNCHANGED <<total, opusFile, decodeQueue, from>>
      /\ opening = NoOpening /\ opening' = [message |-> m, at |-> at, locked |-> FALSE]
      /\ playing' = NoMessage /\ track' = NoTrack /\ ~clean'
  BY DEF IInv, HeardInv, PlayAudio, Call, Idle, CleanupPlayer, decoder
<1>2. ~opening.locked /\ ~opening'.locked BY <1>1 DEF NoOpening
<1>3. QueueRight' BY <1>1, <1>2 DEF QueueRight
<1>4. opening'.at \in 0 .. total'[opening'.message] - 1 BY <1>1
<1>5. NoTrack.written \in Seq([pcmOffset : Int, size : Int])
  BY EmptySeq DEF NoTrack
<1>6. TrackRight' BY <1>1, <1>4, <1>5 DEF TrackRight, NoTrack, Within
<1> QED BY <1>1, <1>3, <1>6, NotClean DEF HeardInv

LEMMA PlayOpensHeard == IInv /\ HeardInv /\ PlayAudioOpens => HeardInv'
<1> SUFFICES ASSUME IInv, HeardInv, PlayAudioOpens PROVE HeardInv'
  OBVIOUS
<1>1. /\ Typed /\ TrackRight /\ QueueRight /\ decodeQueue \in Seq(Task)
      /\ opening \in [message : MaybeMessage, at : Int, locked : BOOLEAN] /\ opening # NoOpening
      /\ UNCHANGED <<total, playing, track, opusFile, from, clean>>
      /\ ~opening.locked /\ opening' = [opening EXCEPT !.locked = TRUE]
      /\ decodeQueue' = Append(decodeQueue, Open(opening.message))
  BY DEF IInv, Typed, HeardInv, PlayAudioOpens, decoder, history
<1>2. /\ Open(opening.message) \in Task /\ IsOpen(Open(opening.message))
      /\ Open(opening.message).message = opening.message
      /\ ~Puts(Open(opening.message))
  BY <1>1 DEF Open, Task, IsOpen, Puts, Typed
<1>3. opening'.locked /\ opening'.message = opening.message /\ opening'.at = opening.at
  BY <1>1
<1>4. /\ Len(decodeQueue) \in Nat /\ Len(decodeQueue') = Len(decodeQueue) + 1
      /\ decodeQueue'[Len(decodeQueue) + 1] = Open(opening.message)
      /\ \A i \in 1 .. Len(decodeQueue) : decodeQueue'[i] = decodeQueue[i]
      /\ \A i \in 1 .. Len(decodeQueue') : i = Len(decodeQueue) + 1 \/ i \in 1 .. Len(decodeQueue)
  BY <1>1, <1>2, LastOf
<1>5. playing' = NoMessage /\ track' = NoTrack /\ ~clean' BY <1>1 DEF TrackRight
<1>6. \A i \in 1 .. Len(decodeQueue') : IsOpen(decodeQueue'[i]) =>
          decodeQueue'[i].message = opening'.message
  BY <1>1, <1>2, <1>3, <1>4 DEF QueueRight
<1>7. \A i \in 1 .. Len(decodeQueue') : Puts(decodeQueue'[i]) =>
          \E j \in i + 1 .. Len(decodeQueue') : IsOpen(decodeQueue'[j])
  <2>1. ASSUME NEW i \in 1 .. Len(decodeQueue'), Puts(decodeQueue'[i])
        PROVE  Len(decodeQueue) + 1 \in i + 1 .. Len(decodeQueue')
    BY <1>2, <1>4, <2>1
  <2>2. IsOpen(decodeQueue'[Len(decodeQueue) + 1]) BY <1>2, <1>4
  <2> QED BY <2>1, <2>2
<1>8. \E i \in 1 .. Len(decodeQueue') : IsOpen(decodeQueue'[i]) BY <1>2, <1>4
<1>9. QueueRight' BY <1>3, <1>5, <1>6, <1>7, <1>8 DEF QueueRight
<1>10. TrackRight' BY <1>1, <1>3, <1>5 DEF TrackRight, NoTrack, Within
<1> QED BY <1>5, <1>9, <1>10, NotClean DEF HeardInv

LEMMA PlayStartsHeard == IInv /\ HeardInv /\ PlayAudioStarts => HeardInv'
<1> SUFFICES ASSUME IInv, HeardInv, PlayAudioStarts PROVE HeardInv'
  OBVIOUS
<1>1. /\ Typed /\ TrackRight /\ QueueRight /\ decodeQueue \in Seq(Task)
      /\ opening \in [message : MaybeMessage, at : Int, locked : BOOLEAN] /\ opening.locked
      /\ opening' = NoOpening /\ playing' = opening.message
      /\ UNCHANGED <<total, opusFile, from, clean>>
      /\ track' = [NoTrack EXCEPT !.state = "playing"]
      /\ decodeQueue' = Append(decodeQueue, Restart(opening.at))
      /\ \A i \in 1 .. Len(decodeQueue) : ~IsOpen(decodeQueue[i])
  BY DEF IInv, Typed, HeardInv, PlayAudioStarts, decoder, history, IsOpen
<1>2. opening # NoOpening /\ opening.message \in Messages /\ Within(opening.at, opening.message) /\ ~clean
  BY <1>1 DEF NoOpening, Typed, TrackRight
<1>3. Restart(opening.at) \in Task /\ ~IsOpen(Restart(opening.at)) /\ Restart(opening.at).at = opening.at
  BY <1>1 DEF Restart, Task, IsOpen, MaybeMessage
<1>4. /\ Len(decodeQueue) \in Nat /\ Len(decodeQueue') = Len(decodeQueue) + 1
      /\ decodeQueue'[Len(decodeQueue) + 1] = Restart(opening.at)
      /\ \A i \in 1 .. Len(decodeQueue) : decodeQueue'[i] = decodeQueue[i]
      /\ \A i \in 1 .. Len(decodeQueue') : i = Len(decodeQueue) + 1 \/ i \in 1 .. Len(decodeQueue)
  BY <1>1, <1>3, LastOf
<1>5. ~opening'.locked BY <1>1 DEF NoOpening
<1>6. opusFile.message = opening.message BY <1>1 DEF QueueRight
<1>7. \A i \in 1 .. Len(decodeQueue) : ~Puts(decodeQueue[i])
  <2>1. ASSUME NEW i \in 1 .. Len(decodeQueue), Puts(decodeQueue[i]) PROVE FALSE
    <3>1. PICK j \in i + 1 .. Len(decodeQueue) : IsOpen(decodeQueue[j])
      BY <1>1, <2>1 DEF QueueRight
    <3>2. j \in 1 .. Len(decodeQueue) BY <1>4, <3>1
    <3> QED BY <1>1, <3>1, <3>2
  <2> QED BY <2>1
<1>8. \A i \in 1 .. Len(decodeQueue') : ~IsOpen(decodeQueue'[i])
  BY <1>1, <1>3, <1>4
<1>9. \A i \in 1 .. Len(decodeQueue') : Puts(decodeQueue'[i]) =>
          decodeQueue'[i].at \in 0 .. total'[playing'] - 1
  BY <1>1, <1>2, <1>3, <1>4, <1>7 DEF Within
<1>10. QueueRight' BY <1>1, <1>5, <1>6, <1>8, <1>9 DEF QueueRight, Within
<1>11. TrackRight'
  <2>1. track' = [state |-> "playing", marker |-> FALSE, written |-> <<>>]
    BY <1>1 DEF NoTrack
  <2>2. track' # NoTrack BY <2>1 DEF NoTrack
  <2>3. <<>> \in Seq([pcmOffset : Int, size : Int]) BY EmptySeq
  <2>4. playing' # NoMessage /\ from' \in Int
    BY <1>1, <1>2, AudioAssumption DEF TrackRight
  <2> QED BY <1>1, <1>2, <2>1, <2>2, <2>3, <2>4 DEF TrackRight
<1> QED BY <1>1, <1>2, <1>10, <1>11, NotClean DEF HeardInv

LEMMA IdleHeard == IInv /\ HeardInv /\ UNCHANGED vars => HeardInv'
<1> SUFFICES ASSUME IInv, HeardInv, UNCHANGED vars PROVE HeardInv'
  OBVIOUS
<1>1. /\ Typed /\ TrackRight /\ QueueRight /\ Chain /\ AtEnd
      /\ UNCHANGED <<total, playing, track, opening, uiQueue, opusFile, decodeQueue, used, hand, from,
                     clean, cut>>
  BY DEF IInv, HeardInv, vars, ui, decoder, player, history
<1>2. QueueRight' BY <1>1, QueueKept
<1>3. TrackRight' BY <1>1 DEF TrackRight, NoTrack, NoOpening, Within
<1> QED BY <1>1, <1>2, <1>3, Unheard DEF Heard, Told, HeardInv

LEMMA NextHeard == IInv /\ HeardInv /\ [Next]_vars => HeardInv'
<1> SUFFICES ASSUME IInv, HeardInv, [Next]_vars PROVE HeardInv'
  OBVIOUS
<1>1. CASE Decodes BY <1>1, DecodesHeard
<1>2. CASE Plays BY <1>2, PlaysHeard
<1>3. CASE UIRuns
  BY <1>3, PostedHeard, PlayOpensHeard, PlayStartsHeard DEF UIRuns
<1>4. CASE MarkerReached \/ StopAudio BY <1>4, StopsHeard
<1>5. CASE PauseAudio \/ ResumeAudio BY <1>5, PauseHeard
<1>6. CASE \E m \in Messages : \E q \in 0 .. total[m] - 1 : PlayAudio(m, q)
  BY <1>6, PlayHeard
<1>7. CASE \E m \in Messages : \E q \in 0 .. total[m] - 1 : m = playing /\ SeekToProgress(q)
  BY <1>7, SeekHeard
<1>8. CASE UNCHANGED vars BY <1>8, IdleHeard
<1> QED BY <1>1, <1>2, <1>3, <1>4, <1>5, <1>6, <1>7, <1>8 DEF Next, User

LEMMA AlwaysHeard == Spec => []HeardInv
<1>1. Init => HeardInv BY InitHeard
<1>2. IInv /\ HeardInv /\ [Next]_vars => HeardInv' BY NextHeard
<1> QED BY <1>1, <1>2, AlwaysIInv, PTL DEF Spec

-----------------------------------------------------------------------------
(* For all files, places and sizes of buffers: what is written to the track *)
(* is the file from where it was begun or sought, without hole or repetition,*)
(* if nothing was under way then (clean) and no pause cut a write short. *)
THEOREM HeardWithoutGap == Spec => []Gapless
<1>1. HeardInv => Gapless BY DEF HeardInv, Chain, Linked, Gapless
<1> QED BY <1>1, AlwaysHeard, PTL

(* With that, the track is told of the end only when it was given the whole*)
(* file, of pieces that do not come out even (Uneven). *)
THEOREM HeardToTheEnd == Spec => []WholeHeard
<1>1. HeardInv => WholeHeard
  <2> SUFFICES ASSUME HeardInv, clean, ~cut, track.marker, Uneven
               PROVE  track.written[Len(track.written)].pcmOffset
                        + track.written[Len(track.written)].size = total[playing]
    BY DEF WholeHeard
  <2> QED BY DEF HeardInv, AtEnd, Told, EndOf
<1> QED BY <1>1, AlwaysHeard, PTL

-----------------------------------------------------------------------------
(* Positions of any width. *)
CONSTANTS Int64Max, Int32Max

Pos == INSTANCE GranulePos

USE DEF Pos!GranulePosAssumption

(* Places are the numbers from 0 on, in the order of the positions, and *)
(* each has one position. *)
LEMMA PlaceType ==
    ASSUME Pos!GranulePosAssumption, NEW gp \in Pos!Granule
    PROVE  Pos!Place(gp) \in 0 .. Pos!LastPlace
BY DEF Pos!Granule, Pos!Int64, Pos!Int64Min, Pos!Place, Pos!LastPlace

LEMMA PlaceInjective ==
    ASSUME Pos!GranulePosAssumption, NEW a \in Pos!Granule, NEW b \in Pos!Granule, Pos!Place(a) = Pos!Place(b)
    PROVE  a = b
BY DEF Pos!Granule, Pos!Int64, Pos!Int64Min, Pos!Place

-----------------------------------------------------------------------------
(* op_granpos_add gives the position so many samples on, or fails exactly *)
(* when that would be past the first or the last one. *)
THEOREM AddCorrect == Pos!GranulePosAssumption => Pos!AddIsRight
<1> SUFFICES ASSUME Pos!GranulePosAssumption, NEW src \in Pos!Granule, NEW delta \in Pos!Delta
             PROVE  /\ Pos!AddFails(src, delta) <=> Pos!Place(src) + delta \notin 0 .. Pos!LastPlace
                    /\ ~Pos!AddFails(src, delta) =>
                        /\ Pos!Added(src, delta) \in Pos!Granule
                        /\ Pos!Place(Pos!Added(src, delta)) = Pos!Place(src) + delta
  BY DEF Pos!AddIsRight
<1> USE DEF Pos!Granule, Pos!Int64, Pos!Int64Min, Pos!Delta
<1>1. Pos!AddFails(src, delta) <=> Pos!Place(src) + delta \notin 0 .. Pos!LastPlace
  BY DEF Pos!AddFails, Pos!Place, Pos!LastPlace
<1>2. ASSUME ~Pos!AddFails(src, delta)
      PROVE  Pos!Added(src, delta) \in Pos!Granule /\ Pos!Place(Pos!Added(src, delta)) = Pos!Place(src) + delta
  <2>1. CASE Pos!WrapsUp(src, delta)
    <3>1. Pos!Added(src, delta) = Pos!Int64Min + (delta - ((Int64Max - src) + 1))
      BY <2>1 DEF Pos!Added
    <3> QED BY <2>1, <3>1 DEF Pos!WrapsUp, Pos!Place
  <2>2. CASE Pos!WrapsDown(src, delta)
    <3>1. Pos!Added(src, delta) = Int64Max + (delta + ((src - Pos!Int64Min) + 1))
      BY <2>2 DEF Pos!Added, Pos!WrapsUp, Pos!WrapsDown
    <3> QED BY <2>2, <3>1 DEF Pos!WrapsDown, Pos!Place
  <2>3. CASE ~Pos!WrapsUp(src, delta) /\ ~Pos!WrapsDown(src, delta)
    <3>1. Pos!Added(src, delta) = src + delta BY <2>3 DEF Pos!Added
    <3> QED BY <1>2, <2>3, <3>1 DEF Pos!AddFails, Pos!WrapsUp, Pos!WrapsDown, Pos!Place
  <2> QED BY <2>1, <2>2, <2>3
<1> QED BY <1>1, <1>2

(* Nothing it computes on the way is too large for its type. *)
THEOREM AddNeverOverflows == Pos!GranulePosAssumption => Pos!AddFits
BY DEF Pos!AddFits, Pos!Granule, Pos!Int64, Pos!Int64Min, Pos!Delta, Pos!WrapsUp, Pos!WrapsDown

(* op_granpos_diff gives how far two positions are apart, though one has *)
(* wrapped around, or fails exactly when that is too far for an integer. *)
THEOREM DiffCorrect == Pos!GranulePosAssumption => Pos!DiffIsRight
<1> SUFFICES ASSUME Pos!GranulePosAssumption, NEW a \in Pos!Granule, NEW b \in Pos!Granule
             PROVE  /\ Pos!DiffFails(a, b) <=> Pos!Place(a) - Pos!Place(b) \notin Pos!Int64
                    /\ ~Pos!DiffFails(a, b) => Pos!Diff(a, b) = Pos!Place(a) - Pos!Place(b)
  BY DEF Pos!DiffIsRight
<1> USE DEF Pos!Granule, Pos!Int64, Pos!Int64Min, Pos!AWrapped, Pos!BWrapped
<1>1. CASE Pos!AWrapped(a, b)
  BY <1>1 DEF Pos!DiffFails, Pos!Diff, Pos!Da, Pos!Db, Pos!Place
<1>2. CASE Pos!BWrapped(a, b)
  BY <1>2 DEF Pos!DiffFails, Pos!Diff, Pos!Da, Pos!Db, Pos!Place
<1>3. CASE ~Pos!AWrapped(a, b) /\ ~Pos!BWrapped(a, b)
  BY <1>3 DEF Pos!DiffFails, Pos!Diff, Pos!Place
<1> QED BY <1>1, <1>2, <1>3

(* Nothing it computes on the way is too large. *)
THEOREM DiffNeverOverflows == Pos!GranulePosAssumption => Pos!DiffFits
BY DEF Pos!DiffFits, Pos!Granule, Pos!Int64, Pos!Int64Min, Pos!AWrapped, Pos!BWrapped, Pos!Da, Pos!Db

(* op_granpos_cmp orders positions by their places. *)
THEOREM CmpCorrect == Pos!GranulePosAssumption => Pos!CmpIsRight
BY DEF Pos!CmpIsRight, Pos!Cmp, Pos!Granule, Pos!Int64, Pos!Int64Min, Pos!AWrapped, Pos!BWrapped, Pos!Place

-----------------------------------------------------------------------------
(* The places of a link's two ends are as far apart as its duration says. *)
LEMMA LinkPlaces ==
    ASSUME Pos!GranulePosAssumption, NEW l \in Pos!LinkType, Pos!GoodLink(l)
    PROVE  /\ l.pcmStart \in Pos!Granule /\ l.pcmEnd \in Pos!Granule /\ l.preSkip \in 0 .. Int32Max
           /\ Pos!Duration(l) = Pos!Place(l.pcmEnd) - Pos!Place(l.pcmStart) - l.preSkip
           /\ Pos!Place(l.pcmEnd) - Pos!Place(l.pcmStart) \in l.preSkip .. Int64Max
<1>1. l.pcmStart \in Pos!Granule /\ l.pcmEnd \in Pos!Granule /\ l.preSkip \in 0 .. Int32Max
  BY DEF Pos!LinkType
<1>2. /\ Pos!Diff(l.pcmEnd, l.pcmStart) = Pos!Place(l.pcmEnd) - Pos!Place(l.pcmStart)
      /\ Pos!Place(l.pcmEnd) - Pos!Place(l.pcmStart) \in Pos!Int64
  BY <1>1, DiffCorrect DEF Pos!DiffIsRight, Pos!GoodLink
<1>3. Pos!Diff(l.pcmEnd, l.pcmStart) >= l.preSkip BY DEF Pos!GoodLink
<1> QED BY <1>1, <1>2, <1>3 DEF Pos!Duration, Pos!Int64

(* The position of a sample is so far behind the beginning. *)
LEMMA SamplePlace ==
    ASSUME Pos!GranulePosAssumption, NEW l \in Pos!LinkType, Pos!GoodLink(l),
           NEW sample \in 0 .. Pos!Duration(l) - 1
    PROVE  /\ Pos!GetGranulePos(l, sample) \in Pos!Granule
           /\ Pos!Place(Pos!GetGranulePos(l, sample)) = Pos!Place(l.pcmStart) + sample + l.preSkip
<1> DEFINE offset == sample + l.preSkip
<1>1. /\ l.pcmStart \in Pos!Granule /\ l.preSkip \in 0 .. Int32Max
      /\ offset \in 0 .. Int64Max /\ Pos!Place(l.pcmStart) + offset < Pos!Place(l.pcmEnd)
      /\ Pos!Place(l.pcmEnd) \in 0 .. Pos!LastPlace
  <2>1. /\ l.pcmStart \in Pos!Granule /\ l.pcmEnd \in Pos!Granule /\ l.preSkip \in 0 .. Int32Max
        /\ Pos!Duration(l) = Pos!Place(l.pcmEnd) - Pos!Place(l.pcmStart) - l.preSkip
        /\ Pos!Place(l.pcmEnd) - Pos!Place(l.pcmStart) \in l.preSkip .. Int64Max
    BY LinkPlaces
  <2>2. Pos!Place(l.pcmStart) \in 0 .. Pos!LastPlace /\ Pos!Place(l.pcmEnd) \in 0 .. Pos!LastPlace
    BY <2>1, PlaceType
  <2> QED BY <2>1, <2>2 DEF Pos!LastPlace
<1>2. CASE l.pcmStart > Int64Max - offset
  <2>1. Pos!GetGranulePos(l, sample) = Pos!Int64Min + (offset - ((Int64Max - l.pcmStart) + 1))
    BY <1>2 DEF Pos!GetGranulePos
  <2> HIDE DEF offset
  <2>2. /\ Pos!GetGranulePos(l, sample) \in Pos!Granule
        /\ Pos!Place(Pos!GetGranulePos(l, sample)) = Pos!Place(l.pcmStart) + offset
    BY <1>1, <1>2, <2>1 DEF Pos!Granule, Pos!Int64, Pos!Int64Min, Pos!Place, Pos!LastPlace
  <2> QED BY <1>1, <2>2 DEF offset, Pos!Place, Pos!Granule, Pos!Int64, Pos!Int64Min
<1>3. CASE ~(l.pcmStart > Int64Max - offset)
  <2>1. Pos!GetGranulePos(l, sample) = l.pcmStart + offset
    BY <1>3 DEF Pos!GetGranulePos
  <2> HIDE DEF offset
  <2>2. /\ Pos!GetGranulePos(l, sample) \in Pos!Granule
        /\ Pos!Place(Pos!GetGranulePos(l, sample)) = Pos!Place(l.pcmStart) + offset
    BY <1>1, <1>3, <2>1 DEF Pos!Granule, Pos!Int64, Pos!Int64Min, Pos!Place, Pos!LastPlace
  <2> QED BY <1>1, <2>2 DEF offset, Pos!Place, Pos!Granule, Pos!Int64, Pos!Int64Min
<1> QED BY <1>2, <1>3

(* What op_pcm_seek looks for, when it is asked for a sample of the file, *)
(* is what op_pcm_tell makes that sample of again, though the positions of *)
(* the file wrap around somewhere between its beginning and its end. *)
THEOREM TellInvertsSeek == Pos!GranulePosAssumption => Pos!SeekTells
<1> SUFFICES ASSUME Pos!GranulePosAssumption, NEW l \in Pos!LinkType, Pos!GoodLink(l),
                    NEW sample \in 0 .. Pos!Duration(l) - 1
             PROVE  /\ Pos!GetGranulePos(l, sample) \in Pos!Granule
                    /\ Pos!GetPcmOffset(l, Pos!GetGranulePos(l, sample)) = sample
  BY DEF Pos!SeekTells
<1> DEFINE gp == Pos!GetGranulePos(l, sample)
<1>1. gp \in Pos!Granule /\ Pos!Place(gp) = Pos!Place(l.pcmStart) + sample + l.preSkip
  BY SamplePlace
<1>2. /\ l.pcmStart \in Pos!Granule /\ l.pcmEnd \in Pos!Granule /\ l.preSkip \in 0 .. Int32Max
      /\ Pos!Duration(l) = Pos!Place(l.pcmEnd) - Pos!Place(l.pcmStart) - l.preSkip
      /\ Pos!Place(l.pcmEnd) - Pos!Place(l.pcmStart) \in l.preSkip .. Int64Max
  BY LinkPlaces
<1>3. /\ Pos!Place(l.pcmStart) \in 0 .. Pos!LastPlace /\ Pos!Place(l.pcmEnd) \in 0 .. Pos!LastPlace
      /\ Pos!LastPlace \in Int /\ sample \in Int
  BY <1>2, PlaceType DEF Pos!LastPlace
<1> HIDE DEF gp
<1>4. ~(Pos!Cmp(gp, l.pcmEnd) > 0)
  <2>1. ~(Pos!Place(gp) > Pos!Place(l.pcmEnd)) BY <1>1, <1>2, <1>3
  <2> QED BY <1>1, <1>2, <2>1, CmpCorrect DEF Pos!CmpIsRight
<1>5. ~Pos!DiffFails(gp, l.pcmStart) /\ Pos!Diff(gp, l.pcmStart) = sample + l.preSkip
  <2>1. Pos!Place(gp) - Pos!Place(l.pcmStart) = sample + l.preSkip /\ sample + l.preSkip \in Pos!Int64
    BY <1>1, <1>2, <1>3 DEF Pos!Int64, Pos!Int64Min
  <2> QED BY <1>1, <1>2, <2>1, DiffCorrect DEF Pos!DiffIsRight
<1>6. Pos!Cmp(gp, l.pcmStart) > 0 <=> sample + l.preSkip > 0
  <2>1. Pos!Place(gp) > Pos!Place(l.pcmStart) <=> sample + l.preSkip > 0
    BY <1>1, <1>2, <1>3
  <2> QED BY <1>1, <1>2, <2>1, CmpCorrect DEF Pos!CmpIsRight
<1>7. Pos!GetPcmOffset(l, gp) = IF Pos!Cmp(gp, l.pcmStart) > 0
                            THEN IF Pos!Diff(gp, l.pcmStart) < l.preSkip THEN 0
                                 ELSE Pos!Diff(gp, l.pcmStart) - l.preSkip
                            ELSE 0
  BY <1>4 DEF Pos!GetPcmOffset
<1>8. Pos!GetPcmOffset(l, gp) = sample BY <1>2, <1>3, <1>5, <1>6, <1>7
<1> QED BY <1>1, <1>8 DEF gp

(* Nothing that is computed for the position of a sample is too large. *)
THEOREM SeekNeverOverflows == Pos!GranulePosAssumption => Pos!SeekFits
<1> SUFFICES ASSUME Pos!GranulePosAssumption, NEW l \in Pos!LinkType, Pos!GoodLink(l),
                    NEW sample \in 0 .. Pos!Duration(l) - 1
             PROVE  LET offset == sample + l.preSkip
                    IN  /\ offset \in Pos!Int64 /\ Int64Max - offset \in Pos!Int64
                        /\ l.pcmStart > Int64Max - offset =>
                            /\ (Int64Max - l.pcmStart) + 1 \in Pos!Int64
                            /\ offset - ((Int64Max - l.pcmStart) + 1) \in Pos!Int64
  BY DEF Pos!SeekFits
<1>1. /\ l.pcmStart \in Pos!Granule /\ l.preSkip \in 0 .. Int32Max
      /\ Pos!Duration(l) = Pos!Place(l.pcmEnd) - Pos!Place(l.pcmStart) - l.preSkip
      /\ Pos!Place(l.pcmEnd) - Pos!Place(l.pcmStart) \in l.preSkip .. Int64Max
      /\ l.pcmEnd \in Pos!Granule
  BY LinkPlaces
<1>2. Pos!Place(l.pcmStart) \in Int /\ Pos!Place(l.pcmEnd) \in Int
  BY <1>1, PlaceType DEF Pos!LastPlace
<1>3. sample + l.preSkip \in 0 .. Int64Max BY <1>1, <1>2
<1> QED BY <1>1, <1>3 DEF Pos!Granule, Pos!Int64, Pos!Int64Min

-----------------------------------------------------------------------------
(* Reading and seeking.  What the packets of page k become when the page *)
(* is read: packet i ends with sample ends[i], or with the recording. *)
Page(k) == Search!Pages[k]
PageEnd(k) == Page(k).offset + Page(k).size
StartOf(k, i) == IF i = 1 THEN Page(k).pcm ELSE Page(k).ends[i - 1]
PacketOf(k, i) ==
    [granulepos |-> Search!Lesser(Page(k).ends[i], Page(k).granulepos),
     duration |-> Page(k).ends[i] - StartOf(k, i), pcm |-> StartOf(k, i),
     eos |-> k = Search!LastPage /\ (i = Len(Page(k).ends) \/ Page(k).ends[i] > Page(k).granulepos)]
PacketsOf(k) == [i \in 1 .. Len(Page(k).ends) |-> PacketOf(k, i)]

(* The position behind i packets of page k. *)
PlaceOf(k, i) == IF i = 0 THEN Page(k).pcm ELSE Search!Lesser(Page(k).ends[i], Page(k).granulepos)

PacketSet == [granulepos : Int, duration : Int, pcm : Int, eos : BOOLEAN]
OfSet ==
    [offset : Int, position : Int, ready : BOOLEAN, op : Seq(PacketSet), opPos : Nat,
     prevGp : Int, discard : Nat, buffer : Seq(Int), decoded : [from : Int, to : Int]]
RoundSet ==
    [goal : Int, target : Int, offset : Int, skip : Int, begin : Int, end : Int, boundary : Int,
     best : Int, bestGp : Int, pcmStart : Int, pcmEnd : Int, d0 : Int, d1 : Int, d2 : Int,
     force : BOOLEAN, bisect : Int, chunk : Int, nextBoundary : Int, page : Int]

(* Page k was read last, and i of its packets are decoded. *)
HasRead(f, k, i) ==
    /\ f.op = PacketsOf(k) /\ f.offset = PageEnd(k) /\ f.opPos = i /\ f.ready

(* What is in the buffer, and what was decoded, ends where the packets *)
(* that are decoded do. *)
InPlace(f, k, i) ==
    /\ f.prevGp = PlaceOf(k, i)
    /\ \A n \in 1 .. Len(f.buffer) : f.buffer[n] = f.prevGp - Len(f.buffer) + n - 1
    /\ \/ f.decoded = Search!Nothing /\ f.buffer = <<>> /\ i < Len(Page(k).ends) /\ StartOf(k, i + 1) = f.prevGp
       \/ f.decoded.from < f.decoded.to /\ f.decoded.to = StartOf(k, i + 1)

(* What the decoder begins with, or will; so early that it has settled by *)
(* sample g. *)
FirstOf(f) == IF f.decoded = Search!Nothing THEN f.prevGp ELSE f.decoded.from
Settles(f, g) == FirstOf(f) = Search!PcmStart \/ g - FirstOf(f) >= PreRoll

Reads(f, g, r) ==
    /\ \E k \in 1 .. Search!LastPage : \E i \in 0 .. Len(Page(k).ends) : HasRead(f, k, i) /\ InPlace(f, k, i)
    /\ f.prevGp - Len(f.buffer) + f.discard = g
    /\ r \/ Settles(f, g)

(* A seek to r.goal. *)
AskedFor(r) ==
    /\ r.goal \in Int /\ r.offset = r.goal - Search!PcmStart
    /\ Search!PcmStart + opus.preSkip <= r.goal /\ r.goal < Search!PcmEnd
    /\ r.skip \in Nat /\ r.target \in Int
    /\ Search!PcmStart + r.skip <= r.target /\ r.target <= r.goal
    /\ r.skip = 0 \/ Search!PcmStart + r.skip <= r.goal - PreRoll

(* The packets before place are passed over. *)
Skips(f, r) ==
    /\ AskedFor(r) /\ f.buffer = <<>> /\ f.decoded = Search!Nothing
    /\ \E k \in 1 .. Search!LastPage :
        /\ HasRead(f, k, 0)
        /\ \/ f.prevGp = Page(k).pcm /\ f.prevGp <= Search!PcmStart + r.skip
           \/ PlaceOf(k, 1) <= Search!PcmStart + r.skip

(* The best page ends before what is looked for. *)
Looks(f, r) ==
    /\ AskedFor(r) /\ r \in RoundSet /\ f.buffer = <<>> /\ f.op = <<>>
    /\ r.page \in 0 .. Search!LastPage /\ (r.page # 0 => f.offset = PageEnd(r.page))
    /\ \E k \in 1 .. Search!LastPage :
        r.best = Page(k).offset /\ r.bestGp = Page(k).pcm /\ Page(k).pcm <= Search!PcmStart + r.skip
    /\ r.begin < r.end => r.target = Search!PcmStart + r.skip

(* Where a round looks is between begin and end. *)
Narrowed(f, r) ==
    /\ r.begin <= r.bisect /\ r.chunk > 0
    /\ r.begin < r.end => r.bisect < r.end /\ r.begin <= f.offset

SearchInv ==
    /\ opus \in OpusFiles /\ of \in OfSet /\ goal \in Int /\ rushed \in BOOLEAN
    /\ pc \in {"idle", "read", "skip", "bisect", "scan"}
    /\ pc \in {"idle", "read"} => Reads(of, goal, rushed)
    /\ pc = "skip" => Skips(of, s)
    /\ pc \in {"bisect", "scan"} => Looks(of, s)
    /\ pc = "scan" => Narrowed(of, s)

(* What the assumption says of the file that is open. *)
PagesRight ==
    /\ Search!LastPage \in Nat /\ Search!LastPage > 0 /\ opus.preSkip \in Nat
    /\ Page(1).offset = DataOffset
    /\ opus.preSkip <= Search!PcmEnd - Search!PcmStart
    /\ \A k \in 1 .. Search!LastPage :
        /\ Page(k).offset \in Nat /\ Page(k).size \in Nat /\ Page(k).size > 0
        /\ Page(k).pcm \in Int /\ Page(k).granulepos \in Int
        /\ Len(Page(k).ends) \in Nat /\ Len(Page(k).ends) > 0
        /\ \A i \in 1 .. Len(Page(k).ends) : Page(k).ends[i] \in Int
        /\ Page(k).ends[1] > Page(k).pcm
        /\ \A i \in 2 .. Len(Page(k).ends) : Page(k).ends[i] > Page(k).ends[i - 1]
        /\ k < Search!LastPage => /\ Page(k).granulepos = Page(k).ends[Len(Page(k).ends)]
                                  /\ Page(k + 1).offset = PageEnd(k)
                                  /\ Page(k + 1).pcm = Page(k).granulepos
        /\ k = Search!LastPage => /\ Page(k).pcm <= Page(k).granulepos
                                  /\ Page(k).granulepos <= Page(k).ends[Len(Page(k).ends)]

LEMMA FileIsRight ==
  ASSUME opus \in OpusFiles
  PROVE  PagesRight
  <1>. DEFINE n == Len(opus.pages)
  <1>1. /\ OpusFiles \subseteq [preSkip : Nat, pages : Seq(Search!PageType)]
        /\ n > 0 /\ opus.pages[1].offset = DataOffset
        /\ opus.preSkip <= opus.pages[n].granulepos - opus.pages[1].pcm
        /\ \A k \in 1 .. n :
             LET p == opus.pages[k]
                 m == Len(p.ends)
             IN  /\ p.size > 0 /\ m > 0 /\ p.ends[1] > p.pcm
                 /\ \A i \in 2 .. m : p.ends[i] > p.ends[i - 1]
                 /\ IF k < n
                    THEN /\ p.granulepos = p.ends[m]
                         /\ opus.pages[k + 1].offset = p.offset + p.size
                         /\ opus.pages[k + 1].pcm = p.granulepos
                    ELSE p.granulepos \in p.pcm .. p.ends[m]
    BY SearchAssumption DEF Search!OpusFileAssumption
  <1>2. opus \in [preSkip : Nat, pages : Seq(Search!PageType)] BY <1>1
  <1>3. opus.preSkip \in Nat /\ opus.pages \in Seq(Search!PageType) BY <1>2
  <1>4. n \in Nat /\ \A k \in 1 .. n : opus.pages[k] \in Search!PageType BY <1>3
  <1>5. ASSUME NEW p \in Search!PageType
        PROVE  /\ p.offset \in Nat /\ p.size \in Nat /\ p.pcm \in Int /\ p.granulepos \in Int
               /\ Len(p.ends) \in Nat /\ \A i \in 1 .. Len(p.ends) : p.ends[i] \in Int
    <2>1. p \in [offset : Nat, size : Nat, pcm : Int, ends : Seq(Int), granulepos : Int]
      BY DEF Search!PageType
    <2>2. p.offset \in Nat /\ p.size \in Nat /\ p.pcm \in Int /\ p.granulepos \in Int /\ p.ends \in Seq(Int)
      BY <2>1
    <2>. QED  BY <2>2
  <1>6. /\ Search!LastPage = n /\ Search!PcmEnd = opus.pages[n].granulepos /\ Search!PcmStart = opus.pages[1].pcm
        /\ \A k : Page(k) = opus.pages[k] /\ PageEnd(k) = opus.pages[k].offset + opus.pages[k].size
    BY DEF Search!LastPage, Search!PcmEnd, Search!PcmStart, Search!Pages, Page, PageEnd
  <1>. HIDE DEF n
  <1>7. ASSUME NEW k \in 1 .. n
        PROVE  /\ Page(k).offset \in Nat /\ Page(k).size \in Nat /\ Page(k).size > 0
               /\ Page(k).pcm \in Int /\ Page(k).granulepos \in Int
               /\ Len(Page(k).ends) \in Nat /\ Len(Page(k).ends) > 0
               /\ \A i \in 1 .. Len(Page(k).ends) : Page(k).ends[i] \in Int
               /\ Page(k).ends[1] > Page(k).pcm
               /\ \A i \in 2 .. Len(Page(k).ends) : Page(k).ends[i] > Page(k).ends[i - 1]
               /\ k < n => /\ Page(k).granulepos = Page(k).ends[Len(Page(k).ends)]
                           /\ Page(k + 1).offset = PageEnd(k)
                           /\ Page(k + 1).pcm = Page(k).granulepos
               /\ k = n => /\ Page(k).pcm <= Page(k).granulepos
                           /\ Page(k).granulepos <= Page(k).ends[Len(Page(k).ends)]
    <2>. DEFINE p == opus.pages[k]
                m == Len(p.ends)
    <2>1. /\ p.offset \in Nat /\ p.size \in Nat /\ p.pcm \in Int /\ p.granulepos \in Int
          /\ m \in Nat /\ \A i \in 1 .. m : p.ends[i] \in Int
      BY <1>4, <1>5
    <2>2. /\ p.size > 0 /\ m > 0 /\ p.ends[1] > p.pcm
          /\ \A i \in 2 .. m : p.ends[i] > p.ends[i - 1]
          /\ k < n => /\ p.granulepos = p.ends[m]
                      /\ opus.pages[k + 1].offset = p.offset + p.size
                      /\ opus.pages[k + 1].pcm = p.granulepos
          /\ ~(k < n) => p.granulepos \in p.pcm .. p.ends[m]
      BY <1>1
    <2>3. Page(k) = p /\ Page(k + 1) = opus.pages[k + 1] /\ PageEnd(k) = p.offset + p.size
      BY <1>6
    <2>. HIDE DEF p
    <2>4. k = n => p.granulepos \in p.pcm .. p.ends[m] BY <1>4, <2>2
    <2>5. m \in 1 .. m BY <2>1, <2>2
    <2>6. k = n => p.pcm <= p.granulepos /\ p.granulepos <= p.ends[m]
      BY <2>1, <2>4, <2>5
    <2>. QED  BY <2>1, <2>2, <2>3, <2>6
  <1>8. Page(1) = opus.pages[1] BY <1>6
  <1>. QED  BY <1>1, <1>3, <1>4, <1>6, <1>7, <1>8 DEF PagesRight

(* The least element of a set, as the model takes it. *)
LEMMA MinIs ==
  ASSUME NEW S, S \subseteq Nat, S # {}
  PROVE  Search!Min(S) \in S /\ \A x \in S : Search!Min(S) <= x
  <1>1. \E x \in S : \A y \in S : x <= y BY LeastOf
  <1>. QED  BY <1>1 DEF Search!Min

(* The packets of a page end one after the other. *)
LEMMA EndsGrow ==
  ASSUME PagesRight, NEW k \in 1 .. Search!LastPage
  PROVE  /\ \A i, j \in 1 .. Len(Page(k).ends) : i < j => Page(k).ends[i] < Page(k).ends[j]
         /\ \A i \in 1 .. Len(Page(k).ends) : Page(k).pcm < Page(k).ends[i]
  <1>. DEFINE e == Page(k).ends
              m == Len(e)
  <1>1. /\ m \in Nat /\ m > 0 /\ \A i \in 1 .. m : e[i] \in Int
        /\ e[1] > Page(k).pcm /\ Page(k).pcm \in Int
        /\ \A i \in 2 .. m : e[i] > e[i - 1]
    BY DEF PagesRight
  <1>. HIDE DEF e, m
  <1>2. ASSUME NEW i \in 1 .. m PROVE \A j \in 1 .. m : i < j => e[i] < e[j]
    <2>. DEFINE bad == {j \in 1 .. m : i < j /\ ~(e[i] < e[j])}
    <2>1. SUFFICES bad = {} OBVIOUS
    <2>2. SUFFICES ASSUME bad # {} PROVE FALSE OBVIOUS
    <2>3. bad \subseteq Nat OBVIOUS
    <2>4. PICK j \in bad : \A l \in bad : j <= l BY <2>2, <2>3, LeastOf
    <2>5. j \in 2 .. m /\ j - 1 \in 1 .. m /\ j - 1 < j /\ i <= j - 1
      BY <2>4, <1>1
    <2>6. j - 1 \notin bad BY <2>4, <2>5
    <2>7. e[i] <= e[j - 1]
      <3>1. CASE i = j - 1 BY <3>1, <1>1, <2>5
      <3>2. CASE i < j - 1 BY <3>2, <2>5, <2>6, <1>1
      <3>. QED  BY <2>5, <3>1, <3>2
    <2>8. e[j - 1] < e[j] /\ e[j - 1] \in Int /\ e[j] \in Int /\ e[i] \in Int
      BY <1>1, <2>4, <2>5
    <2>9. e[i] < e[j] BY <2>7, <2>8
    <2>. QED  BY <2>4, <2>9
  <1>3. ASSUME NEW i \in 1 .. m PROVE Page(k).pcm < e[i]
    <2>1. CASE i = 1 BY <2>1, <1>1
    <2>2. CASE i # 1
      <3>1. e[1] < e[i] /\ e[1] \in Int /\ e[i] \in Int BY <1>1, <1>2, <2>2
      <3>. QED  BY <3>1, <1>1
    <2>. QED  BY <2>1, <2>2
  <1>. QED  BY <1>2, <1>3 DEF e, m

(* And so do the pages. *)
LEMMA PagesGrow ==
  ASSUME PagesRight, NEW j \in 1 .. Search!LastPage, NEW k \in 1 .. Search!LastPage, j < k
  PROVE  PageEnd(j) <= Page(k).offset /\ Page(j).granulepos <= Page(k).pcm
  <1>. DEFINE n == Search!LastPage
  <1>1. /\ n \in Nat
        /\ \A l \in 1 .. n :
            /\ Page(l).offset \in Nat /\ Page(l).size \in Nat /\ Page(l).size > 0
            /\ Page(l).pcm \in Int /\ Page(l).granulepos \in Int
            /\ l < n => Page(l + 1).offset = PageEnd(l) /\ Page(l + 1).pcm = Page(l).granulepos
    BY DEF PagesRight
  <1>2. \A l \in 1 .. n : PageEnd(l) = Page(l).offset + Page(l).size
    BY DEF PageEnd
  <1>3. \A l \in 1 .. n : Page(l).pcm <= Page(l).granulepos
    <2>. SUFFICES ASSUME NEW l \in 1 .. n PROVE Page(l).pcm <= Page(l).granulepos
      OBVIOUS
    <2>. DEFINE m == Len(Page(l).ends)
    <2>1. CASE l = n BY <2>1 DEF PagesRight
    <2>2. CASE l # n
      <3>1. l < n /\ m \in 1 .. m BY <2>2, <1>1 DEF PagesRight
      <3>2. Page(l).granulepos = Page(l).ends[m] BY <3>1 DEF PagesRight
      <3>3. Page(l).pcm < Page(l).ends[m] /\ Page(l).pcm \in Int /\ Page(l).ends[m] \in Int
        BY <3>1, EndsGrow DEF PagesRight
      <3>. QED  BY <3>2, <3>3
    <2>. QED  BY <2>1, <2>2
  <1>. HIDE DEF n
  <1>4. j \in 1 .. n /\ k \in 1 .. n BY DEF n
  <1>. DEFINE bad == {l \in 1 .. n : j < l /\ ~(PageEnd(j) <= Page(l).offset /\ Page(j).granulepos <= Page(l).pcm)}
  <1>5. SUFFICES ASSUME bad # {} PROVE FALSE BY <1>4
  <1>6. bad \subseteq Nat BY <1>1
  <1>7. PICK l \in bad : \A x \in bad : l <= x BY <1>5, <1>6, LeastOf
  <1>8. l \in 1 .. n /\ l - 1 \in 1 .. n /\ l - 1 < n /\ (l - 1) + 1 = l /\ j <= l - 1
    BY <1>1, <1>4, <1>7
  <1>9. Page(l).offset = PageEnd(l - 1) /\ Page(l).pcm = Page(l - 1).granulepos
    BY <1>1, <1>8
  <1>10. l - 1 \notin bad BY <1>7, <1>8
  <1>11. CASE j = l - 1
    <2>1. PageEnd(j) \in Int /\ Page(j).granulepos \in Int BY <1>1, <1>2, <1>4
    <2>. QED  BY <1>7, <1>9, <1>11, <2>1
  <1>12. CASE j # l - 1
    <2>1. j < l - 1 BY <1>8, <1>12, <1>4
    <2>2. PageEnd(j) <= Page(l - 1).offset /\ Page(j).granulepos <= Page(l - 1).pcm
      BY <1>8, <1>10, <2>1
    <2>3. Page(l - 1).offset <= PageEnd(l - 1) /\ Page(l - 1).pcm <= Page(l - 1).granulepos
      BY <1>1, <1>2, <1>3, <1>8
    <2>4. PageEnd(j) \in Int /\ PageEnd(l - 1) \in Int BY <1>1, <1>2, <1>4, <1>8
    <2>5. PageEnd(j) <= Page(l).offset /\ Page(j).granulepos <= Page(l).pcm
      BY <1>1, <1>4, <1>8, <1>9, <2>2, <2>3, <2>4
    <2>. QED  BY <1>7, <2>5
  <1>. QED  BY <1>11, <1>12

(* What a page begins with and ends with, among all. *)
LEMMA PagesAre ==
  ASSUME PagesRight, NEW k \in 1 .. Search!LastPage
  PROVE  /\ Search!LastPage \in Nat /\ k \in Nat
         /\ Page(k).offset \in Int /\ PageEnd(k) \in Int /\ Page(k).offset < PageEnd(k)
         /\ Page(k).pcm \in Int /\ Page(k).granulepos \in Int /\ Page(k).pcm <= Page(k).granulepos
         /\ Len(Page(k).ends) \in Nat /\ Len(Page(k).ends) > 0
         /\ Search!PcmStart \in Int /\ Search!PcmEnd \in Int /\ Search!End \in Int /\ Search!EndOffset \in Int
         /\ Search!PcmStart <= Page(k).pcm /\ Page(k).granulepos <= Search!PcmEnd
         /\ PageEnd(k) <= Search!End /\ Page(k).offset < Search!End
         /\ k = Search!LastPage => Page(k).granulepos = Search!PcmEnd /\ PageEnd(k) = Search!End /\ Page(k).offset = Search!EndOffset
         /\ k < Search!LastPage => /\ k + 1 \in 1 .. Search!LastPage
                                   /\ Page(k + 1).offset = PageEnd(k) /\ Page(k + 1).pcm = Page(k).granulepos
                                   /\ Page(k).granulepos = Page(k).ends[Len(Page(k).ends)]
                                   /\ PageEnd(k) <= Search!EndOffset
  <1>. DEFINE n == Search!LastPage
  <1>1. n \in Nat /\ n > 0 /\ k \in 1 .. n /\ 1 \in 1 .. n /\ n \in 1 .. n
    BY DEF PagesRight
  <1>2. ASSUME NEW l \in 1 .. n
        PROVE  /\ Page(l).offset \in Int /\ PageEnd(l) \in Int /\ Page(l).offset < PageEnd(l)
               /\ Page(l).pcm \in Int /\ Page(l).granulepos \in Int /\ Page(l).pcm <= Page(l).granulepos
               /\ Len(Page(l).ends) \in Nat /\ Len(Page(l).ends) > 0
               /\ l < n => /\ Page(l + 1).offset = PageEnd(l) /\ Page(l + 1).pcm = Page(l).granulepos
                           /\ Page(l).granulepos = Page(l).ends[Len(Page(l).ends)]
    <2>. DEFINE m == Len(Page(l).ends)
    <2>1. /\ Page(l).offset \in Nat /\ Page(l).size \in Nat /\ Page(l).size > 0
          /\ Page(l).pcm \in Int /\ Page(l).granulepos \in Int
          /\ m \in Nat /\ m > 0 /\ (\A i \in 1 .. m : Page(l).ends[i] \in Int)
          /\ l < n => /\ Page(l).granulepos = Page(l).ends[m]
                      /\ Page(l + 1).offset = PageEnd(l) /\ Page(l + 1).pcm = Page(l).granulepos
          /\ l = n => Page(l).pcm <= Page(l).granulepos
      BY DEF PagesRight
    <2>2. Page(l).pcm < Page(l).ends[m] BY <2>1, EndsGrow
    <2>3. PageEnd(l) = Page(l).offset + Page(l).size BY DEF PageEnd
    <2>4. Page(l).pcm <= Page(l).granulepos
      <3>1. l < n \/ l = n BY <1>1
      <3>. QED  BY <2>1, <2>2, <3>1
    <2>. QED  BY <2>1, <2>3, <2>4
  <1>3. /\ Search!PcmStart = Page(1).pcm /\ Search!PcmEnd = Page(n).granulepos
        /\ Search!EndOffset = Page(n).offset /\ Search!End = PageEnd(n)
    BY DEF Search!PcmStart, Search!PcmEnd, Search!EndOffset, Search!End, Page, PageEnd
  <1>4. Search!PcmStart <= Page(k).pcm
    <2>1. CASE k = 1 BY <1>1, <1>2, <1>3, <2>1
    <2>2. CASE k # 1
      <3>1. Page(1).granulepos <= Page(k).pcm BY <1>1, <2>2, PagesGrow
      <3>. QED  BY <1>1, <1>2, <1>3, <3>1
    <2>. QED  BY <2>1, <2>2
  <1>5. Page(k).granulepos <= Search!PcmEnd /\ PageEnd(k) <= Search!End /\ Page(k).offset < Search!End
        /\ (k < n => PageEnd(k) <= Search!EndOffset)
    <2>1. CASE k = n BY <1>1, <1>2, <1>3, <2>1
    <2>2. CASE k # n
      <3>1. PageEnd(k) <= Page(n).offset /\ Page(k).granulepos <= Page(n).pcm
        BY <1>1, <2>2, PagesGrow
      <3>2. /\ Page(n).offset < PageEnd(n) /\ Page(n).pcm <= Page(n).granulepos /\ Page(k).offset < PageEnd(k)
            /\ Page(n).offset \in Int /\ PageEnd(n) \in Int /\ Page(n).pcm \in Int /\ Page(n).granulepos \in Int
            /\ Page(k).offset \in Int /\ PageEnd(k) \in Int /\ Page(k).granulepos \in Int
        BY <1>1, <1>2
      <3>. QED  BY <1>3, <3>1, <3>2
    <2>. QED  BY <2>1, <2>2
  <1>6. k < n => k + 1 \in 1 .. n BY <1>1
  <1>7. Search!PcmStart \in Int /\ Search!PcmEnd \in Int /\ Search!End \in Int /\ Search!EndOffset \in Int
    BY <1>1, <1>2, <1>3
  <1>8. k = n => Page(k).granulepos = Search!PcmEnd /\ PageEnd(k) = Search!End /\ Page(k).offset = Search!EndOffset
    BY <1>3
  <1>. QED  BY <1>1, <1>2, <1>4, <1>5, <1>6, <1>7, <1>8

(* The places between the packets of a page. *)
LEMMA PlacesAre ==
  ASSUME PagesRight, NEW k \in 1 .. Search!LastPage, NEW i \in 1 .. Len(Page(k).ends)
  PROVE  /\ PlaceOf(k, i) \in Int /\ PlaceOf(k, i - 1) \in Int
         /\ PacketOf(k, i) \in PacketSet /\ PacketOf(k, i).granulepos = PlaceOf(k, i)
         /\ PacketOf(k, i).duration \in Int /\ PacketOf(k, i).duration > 0
         /\ PacketOf(k, i).pcm = StartOf(k, i) /\ StartOf(k, i) \in Int
         /\ PacketOf(k, i).eos \in BOOLEAN
         /\ StartOf(k, i) + PacketOf(k, i).duration = StartOf(k, i + 1)
         /\ PlaceOf(k, i - 1) <= PlaceOf(k, i)
         /\ PlaceOf(k, i) <= PlaceOf(k, i - 1) + PacketOf(k, i).duration
         /\ ~PacketOf(k, i).eos => PlaceOf(k, i) = PlaceOf(k, i - 1) + PacketOf(k, i).duration
         /\ PlaceOf(k, i - 1) < PlaceOf(k, i) => PlaceOf(k, i - 1) = StartOf(k, i)
         /\ PlaceOf(k, i) <= Page(k).granulepos
         /\ i = Len(Page(k).ends) => PlaceOf(k, i) = Page(k).granulepos
  <1>. DEFINE e == Page(k).ends
              m == Len(e)
              g == Page(k).granulepos
              b == Page(k).pcm
              n == Search!LastPage
              from1 == StartOf(k, i)
              d == e[i] - from1
              p == PlaceOf(k, i - 1)
              q == PlaceOf(k, i)
              last == k = n /\ (i = m \/ e[i] > g)
  <1>1. /\ m \in Nat /\ m > 0 /\ i \in 1 .. m /\ k \in 1 .. n /\ n \in Nat /\ b \in Int /\ g \in Int /\ b <= g
        /\ k < n => g = e[m]
    BY PagesAre
  <1>2. /\ (\A j \in 1 .. m : e[j] \in Int) /\ (k = n => g <= e[m])
    BY DEF PagesRight
  <1>3. /\ (\A j \in 1 .. m : b < e[j]) /\ \A j, l \in 1 .. m : j < l => e[j] < e[l]
    BY EndsGrow
  <1>4. /\ from1 = IF i = 1 THEN b ELSE e[i - 1]
        /\ StartOf(k, i + 1) = IF i + 1 = 1 THEN b ELSE e[i + 1 - 1]
        /\ p = IF i - 1 = 0 THEN b ELSE IF e[i - 1] < g THEN e[i - 1] ELSE g
        /\ q = IF i = 0 THEN b ELSE IF e[i] < g THEN e[i] ELSE g
    BY DEF StartOf, PlaceOf, Search!Lesser
  <1>5. PacketOf(k, i) = [granulepos |-> IF e[i] < g THEN e[i] ELSE g, duration |-> d, pcm |-> from1, eos |-> last]
    BY DEF PacketOf, Search!Lesser
  <1>. HIDE DEF e, m, g, b, n, from1, p, q
  <1>6. i + 1 - 1 = i /\ i + 1 # 1 /\ i # 0 /\ (i = 1 <=> i - 1 = 0) /\ (i # 1 => i - 1 \in 1 .. m /\ i - 1 < i)
    BY <1>1
  <1>7. StartOf(k, i + 1) = e[i] /\ e[i] \in Int /\ b < e[i]
    BY <1>1, <1>2, <1>3, <1>4, <1>6
  <1>8. from1 \in Int /\ from1 < e[i] /\ b <= from1
    <2>1. CASE i = 1 BY <1>1, <1>4, <1>7, <2>1
    <2>2. CASE i # 1
      <3>1. from1 = e[i - 1] /\ i - 1 \in 1 .. m /\ i - 1 < i
        BY <1>4, <1>6, <2>2
      <3>2. e[i - 1] \in Int /\ b < e[i - 1] /\ e[i - 1] < e[i]
        BY <1>1, <1>2, <1>3, <3>1
      <3>. QED  BY <1>1, <3>1, <3>2
    <2>. QED  BY <2>1, <2>2
  <1>9. p = IF from1 < g THEN from1 ELSE g
    <2>1. CASE i = 1 BY <1>1, <1>4, <1>6, <2>1
    <2>2. CASE i # 1 BY <1>4, <1>6, <2>2
    <2>. QED  BY <2>1, <2>2
  <1>10. q = IF e[i] < g THEN e[i] ELSE g BY <1>4, <1>6
  <1>11. e[i] <= e[m] /\ e[m] \in Int
    <2>1. m \in 1 .. m /\ (i = m \/ i < m) BY <1>1
    <2>. QED  BY <1>1, <1>2, <1>3, <2>1
  <1>12. (k = n \/ k < n) /\ g <= e[m] BY <1>1, <1>2, <1>11
  <1>13. ~last => e[i] <= g BY <1>1, <1>7, <1>11, <1>12
  <1>14. i = m => q = g BY <1>1, <1>10, <1>11, <1>12
  <1>15. d \in Int /\ d > 0 /\ from1 + d = e[i] BY <1>7, <1>8
  <1>16. p \in Int /\ q \in Int /\ p <= q /\ q <= p + d /\ q <= g /\ (p < q => p = from1) /\ (e[i] <= g => q = p + d)
    BY <1>1, <1>7, <1>8, <1>9, <1>10, <1>15
  <1>. DEFINE x == PacketOf(k, i)
  <1>17. x.granulepos = q /\ x.duration = d /\ x.pcm = from1 /\ x.eos = last
    BY <1>5, <1>10
  <1>18. x \in PacketSet
    <2>1. last \in BOOLEAN OBVIOUS
    <2>. HIDE DEF last, d
    <2>. QED  BY <1>5, <1>8, <1>15, <1>16, <1>10, <2>1 DEF PacketSet
  <1>19. last \in BOOLEAN OBVIOUS
  <1>. HIDE DEF last, d, x
  <1>. QED  BY <1>7, <1>8, <1>13, <1>14, <1>15, <1>16, <1>17, <1>18, <1>19 DEF x, p, q, from1, g, m, e

(* The packets of a page. *)
LEMMA PacketsAre ==
  ASSUME PagesRight, NEW k \in 1 .. Search!LastPage
  PROVE  /\ PacketsOf(k) \in Seq(PacketSet) /\ Len(PacketsOf(k)) = Len(Page(k).ends)
         /\ PacketsOf(k) # <<>>
         /\ \A i \in 1 .. Len(Page(k).ends) : PacketsOf(k)[i] = PacketOf(k, i)
  <1>. DEFINE m == Len(Page(k).ends)
  <1>1. m \in Nat /\ m > 0 /\ \A i \in 1 .. m : PacketOf(k, i) \in PacketSet
    BY PagesAre, PlacesAre
  <1>2. PacketsOf(k) = [i \in 1 .. m |-> PacketOf(k, i)] BY DEF PacketsOf
  <1>. HIDE DEF m
  <1>3. /\ PacketsOf(k) \in Seq(PacketSet) /\ Len(PacketsOf(k)) = m
        /\ \A i \in 1 .. m : PacketsOf(k)[i] = PacketOf(k, i)
    BY <1>1, <1>2
  <1>4. PacketsOf(k) # <<>> BY <1>1, <1>3
  <1>. QED  BY <1>3, <1>4 DEF m

(* Looking for a page changes where the file stands, and nothing else. *)
Moved(f, g) ==
    g = [f EXCEPT !.offset = g.offset, !.position = g.position] /\ g \in OfSet

MoveTo(f, x, y) == [f EXCEPT !.offset = x, !.position = y]

LEMMA MovedTo ==
  ASSUME NEW f \in OfSet, NEW x \in Int, NEW y \in Int
  PROVE  Moved(f, MoveTo(f, x, y)) /\ MoveTo(f, x, y).offset = x
  <1>. DEFINE g == [f EXCEPT !.offset = x, !.position = y]
  <1>1. g \in OfSet /\ g.offset = x /\ g.position = y BY DEF OfSet
  <1>2. g = [f EXCEPT !.offset = g.offset, !.position = g.position] BY <1>1
  <1>. QED  BY <1>1, <1>2 DEF Moved, MoveTo

(* What is left alone. *)
LEMMA MovedKeeps ==
  ASSUME NEW f \in OfSet, NEW g, Moved(f, g)
  PROVE  /\ g \in OfSet /\ g.ready = f.ready /\ g.op = f.op /\ g.opPos = f.opPos /\ g.prevGp = f.prevGp
         /\ g.discard = f.discard /\ g.buffer = f.buffer /\ g.decoded = f.decoded
  BY DEF Moved, OfSet

LEMMA NotMoved ==
  ASSUME NEW f \in OfSet
  PROVE  Moved(f, f)
  BY DEF Moved, OfSet

LEMMA MovedOn ==
  ASSUME NEW f \in OfSet, NEW g, NEW h, Moved(f, g), Moved(g, h)
  PROVE  Moved(f, h)
  BY DEF Moved, OfSet

(* Reading in pieces gets at least as far as is asked for. *)
LEMMA PiecesReach ==
  ASSUME NEW r \in Nat, r > 0, NEW x \in Int
  PROVE  ((x + r - 1) \div r) * r \in Int /\ ((x + r - 1) \div r) * r >= x
  <1>. DEFINE y == x + r - 1
              q == y \div r
  <1>1. y \in Int /\ q \in Int /\ y % r \in Int /\ y = (q * r) + (y % r) /\ y % r < r
    OBVIOUS
  <1>2. q * r \in Int BY <1>1
  <1>. DEFINE z == q * r
  <1>. HIDE DEF z, q
  <1>3. z \in Int /\ y = z + (y % r) BY <1>1, <1>2 DEF z
  <1>4. z >= x BY <1>1, <1>3
  <1>. QED  BY <1>3, <1>4 DEF z, q

(* Whatever is found, the file stands behind it. *)
LEMMA NextPageIs ==
  ASSUME PagesRight, ReadSize \in Nat \ {0}, NEW f \in OfSet, NEW boundary \in Int
  PROVE  LET g == Search!GetNextPage(f, boundary)
         IN  /\ Moved(f, g.of)
             /\ g.page \in 0 .. Search!LastPage
             /\ g.page # 0 => f.offset <= Page(g.page).offset /\ g.of.offset = PageEnd(g.page)
             /\ f.offset >= boundary => g.page = 0 /\ g.of = f
             /\ \A k \in 1 .. Search!LastPage :
                    f.offset = Page(k).offset /\ boundary = Search!End => g.page = k
  <1>. DEFINE ahead == {k \in 1 .. Search!LastPage : Search!Pages[k].offset >= f.offset}
              k == Search!Min(ahead)
              last == PageEnd(k)
              reads == (last - f.position + ReadSize - 1) \div ReadSize
              rest == f.position + reads * ReadSize
              least == IF boundary < rest THEN boundary ELSE rest
              read == IF last <= f.position THEN f.position
                      ELSE IF f.position < least THEN least ELSE f.position
              nearer == IF Page(k).offset < read THEN Page(k).offset ELSE read
              g == Search!GetNextPage(f, boundary)
  <1>1. g = IF f.offset >= boundary \/ ahead = {}
            THEN [page |-> 0, of |-> f]
            ELSE IF last <= read
            THEN [page |-> k, of |-> [f EXCEPT !.offset = last, !.position = read]]
            ELSE [page |-> 0, of |-> [f EXCEPT !.offset = nearer, !.position = read]]
    BY DEF Search!GetNextPage, Search!Lesser, Search!Greater, Page, PageEnd
  <1>2. f.offset \in Int /\ f.position \in Int /\ Search!LastPage \in Nat
    BY DEF OfSet, PagesRight
  <1>3. ahead # {} => k \in ahead /\ \A x \in ahead : k <= x
    <2>1. ahead \subseteq Nat OBVIOUS
    <2>. QED  BY <2>1, MinIs
  <1>4. CASE f.offset >= boundary \/ ahead = {}
    <2>1. g = [page |-> 0, of |-> f] BY <1>1, <1>4
    <2>2. ASSUME NEW x \in 1 .. Search!LastPage, f.offset = Page(x).offset, boundary = Search!End PROVE FALSE
      <3>1. Page(x).offset < Search!End /\ Page(x).offset \in Int /\ Search!End \in Int
        BY PagesAre
      <3>2. x \in ahead BY <2>2, <3>1 DEF Page
      <3>. QED  BY <1>4, <2>2, <3>1, <3>2
    <2>. QED  BY <1>2, <2>1, <2>2, NotMoved
  <1>5. CASE ~(f.offset >= boundary) /\ ahead # {}
    <2>1. k \in 1 .. Search!LastPage /\ Page(k).offset >= f.offset
      BY <1>3, <1>5 DEF Page
    <2>2. last \in Int /\ Page(k).offset \in Int /\ Page(k).offset < last /\ last <= Search!End /\ Search!End \in Int
      BY <2>1, PagesAre
    <2>3. rest \in Int /\ rest >= last
      <3>1. last - f.position \in Int BY <1>2, <2>2
      <3>2. reads * ReadSize \in Int /\ reads * ReadSize >= last - f.position
        <4>. DEFINE w == last - f.position
        <4>1. ReadSize \in Nat /\ ReadSize > 0 /\ w \in Int BY <3>1
        <4>. HIDE DEF w
        <4>2. ((w + ReadSize - 1) \div ReadSize) * ReadSize \in Int /\ ((w + ReadSize - 1) \div ReadSize) * ReadSize >= w
          BY <4>1, PiecesReach
        <4>. QED  BY <4>2 DEF w
      <3>. DEFINE y == reads * ReadSize
      <3>3. y \in Int /\ y >= last - f.position BY <3>2
      <3>. HIDE DEF y, last
      <3>4. f.position + y \in Int /\ f.position + y >= last BY <1>2, <2>2, <3>3
      <3>. QED  BY <3>4 DEF y, last
    <2>. HIDE DEF rest, k, ahead
    <2>4. read \in Int /\ nearer \in Int
      <3>. HIDE DEF last
      <3>. QED  BY <1>2, <2>2, <2>3
    <2>5. boundary = Search!End => last <= read
      <3>. HIDE DEF last
      <3>. QED  BY <1>2, <2>2, <2>3
    <2>. HIDE DEF read, nearer, last
    <2>6. CASE last <= read
      <3>. HIDE DEF g
      <3>1. g.page = k /\ g.of = MoveTo(f, last, read)
        BY <1>1, <1>5, <2>6 DEF MoveTo
      <3>2. Moved(f, g.of) /\ g.of.offset = last BY <2>2, <2>4, <3>1, MovedTo
      <3>3. ASSUME NEW x \in 1 .. Search!LastPage, f.offset = Page(x).offset PROVE k = x
        <4>1. x \in ahead
          <5>1. Page(x).offset \in Int BY PagesAre
          <5>. QED  BY <3>3, <5>1 DEF ahead, Page
        <4>2. k <= x /\ k \in Nat /\ x \in Nat BY <1>2, <1>3, <2>1, <4>1
        <4>3. CASE k < x
          <5>1. PageEnd(k) <= Page(x).offset BY <2>1, <4>3, PagesGrow
          <5>. QED  BY <1>2, <2>1, <2>2, <3>3, <5>1 DEF last
        <4>. QED  BY <4>2, <4>3
      <3>. QED  BY <1>5, <2>1, <3>1, <3>2, <3>3 DEF g, last
    <2>7. CASE ~(last <= read)
      <3>. HIDE DEF g
      <3>1. g.page = 0 /\ g.of = MoveTo(f, nearer, read)
        BY <1>1, <1>5, <2>7 DEF MoveTo
      <3>2. Moved(f, g.of) BY <2>4, <3>1, MovedTo
      <3>. QED  BY <1>2, <1>5, <2>5, <2>7, <3>1, <3>2 DEF g
    <2>. QED  BY <2>6, <2>7
  <1>. QED  BY <1>4, <1>5

(* A page that begins where the one before ended gives its packets the *)
(* places they have. *)
LEMMA PageIsProcessed ==
  ASSUME PagesRight, NEW f \in OfSet, NEW k \in 1 .. Search!LastPage, f.prevGp = Page(k).pcm
  PROVE  LET g == Search!ProcessPage(f, k)
         IN  /\ g \in OfSet /\ g.op = PacketsOf(k) /\ g.opPos = 0 /\ g.prevGp = Page(k).pcm
             /\ g.offset = f.offset /\ g.position = f.position /\ g.ready = f.ready
             /\ g.discard = f.discard /\ g.buffer = f.buffer /\ g.decoded = f.decoded
  <1>. DEFINE p == Page(k)
              n == Len(p.ends)
              trimmed == k = Search!LastPage /\ p.granulepos - f.prevGp < p.ends[n] - p.pcm
              prev == IF trimmed THEN f.prevGp ELSE p.granulepos - (p.ends[n] - p.pcm)
              gp(i) == prev + p.ends[i] - p.pcm
              made == [i \in 1 .. n |->
                        [granulepos |-> IF trimmed THEN IF gp(i) < p.granulepos THEN gp(i) ELSE p.granulepos ELSE gp(i),
                         duration |-> p.ends[i] - IF i = 1 THEN p.pcm ELSE p.ends[i - 1],
                         pcm |-> IF i = 1 THEN p.pcm ELSE p.ends[i - 1],
                         eos |-> k = Search!LastPage /\ (i = n \/ gp(i) > p.granulepos)]]
              g == Search!ProcessPage(f, k)
  <1>1. g = [f EXCEPT !.op = made, !.opPos = 0, !.prevGp = prev]
    BY DEF Search!ProcessPage, Search!Lesser, Page
  <1>2. /\ n \in Nat /\ n > 0 /\ p.pcm \in Int /\ p.granulepos \in Int /\ (k < Search!LastPage => p.granulepos = p.ends[n])
        /\ Search!LastPage \in Nat
    BY PagesAre
  <1>3. (\A i \in 1 .. n : p.ends[i] \in Int) /\ (k = Search!LastPage => p.granulepos <= p.ends[n]) /\ n \in 1 .. n
    BY <1>2 DEF PagesRight
  <1>4. \A i \in 1 .. n : p.ends[i] <= p.ends[n] BY <1>2, <1>3, EndsGrow
  <1>. HIDE DEF p, n
  <1>5. f.prevGp = p.pcm BY DEF p
  <1>6. prev = p.pcm /\ (~trimmed => p.granulepos = p.ends[n])
    BY <1>2, <1>3, <1>5
  <1>7. ASSUME NEW i \in 1 .. n
        PROVE  made[i] = PacketOf(k, i)
    <2>1. gp(i) = p.ends[i] /\ p.ends[i] \in Int /\ p.ends[i] <= p.ends[n]
      BY <1>2, <1>3, <1>4, <1>6
    <2>2. (IF trimmed THEN IF gp(i) < p.granulepos THEN gp(i) ELSE p.granulepos ELSE gp(i))
              = IF p.ends[i] < p.granulepos THEN p.ends[i] ELSE p.granulepos
      BY <1>2, <1>3, <1>6, <2>1
    <2>. DEFINE gr == IF trimmed THEN IF gp(i) < p.granulepos THEN gp(i) ELSE p.granulepos ELSE gp(i)
                du == p.ends[i] - IF i = 1 THEN p.pcm ELSE p.ends[i - 1]
                st == IF i = 1 THEN p.pcm ELSE p.ends[i - 1]
                eo == k = Search!LastPage /\ (i = n \/ gp(i) > p.granulepos)
    <2>3. made[i] = [granulepos |-> gr, duration |-> du, pcm |-> st, eos |-> eo]
      OBVIOUS
    <2>4. PacketOf(k, i) = [granulepos |-> IF p.ends[i] < p.granulepos THEN p.ends[i] ELSE p.granulepos,
                            duration |-> du, pcm |-> st,
                            eos |-> k = Search!LastPage /\ (i = n \/ p.ends[i] > p.granulepos)]
      BY DEF PacketOf, StartOf, Search!Lesser, p, n
    <2>. QED  BY <2>1, <2>2, <2>3, <2>4
  <1>8. made = PacketsOf(k)
    <2>1. PacketsOf(k) = [i \in 1 .. n |-> PacketOf(k, i)]
      BY DEF PacketsOf, n, p
    <2>2. made = [i \in 1 .. n |-> made[i]] OBVIOUS
    <2>. HIDE DEF made
    <2>. QED  BY <1>7, <2>1, <2>2
  <1>. HIDE DEF made, prev
  <1>9. PacketsOf(k) \in Seq(PacketSet) /\ prev \in Int
    BY <1>2, <1>6, PacketsAre
  <1>. HIDE DEF g
  <1>10. /\ g \in OfSet /\ g.op = made /\ g.opPos = 0 /\ g.prevGp = prev
         /\ g.offset = f.offset /\ g.position = f.position /\ g.ready = f.ready
         /\ g.discard = f.discard /\ g.buffer = f.buffer /\ g.decoded = f.decoded
    <2>1. made \in Seq(PacketSet) /\ 0 \in Nat BY <1>8, <1>9
    <2>. QED  BY <1>1, <1>9, <2>1 DEF OfSet
  <1>. QED  BY <1>6, <1>8, <1>10 DEF p, g

LEMMA SearchConstants ==
  /\ ReadSize \in Nat \ {0} /\ ChunkSize \in Nat \ {0} /\ ChunkSizeMax \in Nat \ {0}
  /\ PreRoll \in Nat \ {0} /\ Near \in Nat /\ Near >= PreRoll /\ Second \in Nat /\ CurTimeThresh \in Nat
  /\ DataOffset \in Nat
  BY SearchAssumption DEF Search!OpusFileAssumption

(* Nothing but a new file changes what is said of its pages. *)
LEMMA SameFile ==
  ASSUME opus' = opus
  PROVE  /\ Reads(of, goal, rushed)' <=> Reads(of', goal', rushed')
         /\ Skips(of, s)' <=> Skips(of', s')
         /\ Looks(of, s)' <=> Looks(of', s')
  <1>1. (\A k : Page(k)' = Page(k)) /\ Search!LastPage' = Search!LastPage
    BY DEF Page, Search!Pages, Search!LastPage
  <1>2. /\ \A k : PageEnd(k)' = PageEnd(k) /\ Search!PcmStart' = Search!PcmStart /\ Search!PcmEnd' = Search!PcmEnd
        /\ \A k, i : StartOf(k, i)' = StartOf(k, i) /\ PlaceOf(k, i)' = PlaceOf(k, i)
    BY <1>1 DEF PageEnd, Search!PcmStart, Search!PcmEnd, Search!Pages, Search!LastPage, StartOf, PlaceOf
  <1>3. \A k, i : PacketOf(k, i)' = PacketOf(k, i) BY <1>1, <1>2 DEF PacketOf
  <1>4. \A k : PacketsOf(k)' = PacketsOf(k) BY <1>1, <1>3 DEF PacketsOf
  <1>5. \A k, i : HasRead(of, k, i)' <=> HasRead(of', k, i)
    BY <1>2, <1>4 DEF HasRead
  <1>6. \A k, i : InPlace(of, k, i)' <=> InPlace(of', k, i)
    BY <1>1, <1>2 DEF InPlace
  <1>7. Settles(of, goal)' <=> Settles(of', goal') BY <1>2 DEF Settles, FirstOf
  <1>8. AskedFor(s)' <=> AskedFor(s') BY <1>2 DEF AskedFor
  <1>9. Reads(of, goal, rushed)' <=> Reads(of', goal', rushed')
    BY <1>1, <1>5, <1>6, <1>7 DEF Reads
  <1>10. Skips(of, s)' <=> Skips(of', s') BY <1>1, <1>2, <1>5, <1>8 DEF Skips
  <1>11. Looks(of, s)' <=> Looks(of', s') BY <1>1, <1>2, <1>8 DEF Looks
  <1>. QED  BY <1>9, <1>10, <1>11

(* A file is opened. *)
LEMMA OpenedReads ==
  ASSUME opus \in OpusFiles
  PROVE  LET f == Search!ProcessPage(Search!Opened, 1)
         IN  f \in OfSet /\ Reads(f, Search!PcmStart + opus.preSkip, FALSE)
  <1>. DEFINE o == Search!Opened
              f == Search!ProcessPage(o, 1)
  <1>1. PagesRight /\ opus.preSkip \in Nat BY FileIsRight DEF PagesRight
  <1>2. 1 \in 1 .. Search!LastPage BY <1>1 DEF PagesRight
  <1>3. /\ PageEnd(1) \in Int /\ Search!End \in Int /\ Search!PcmStart \in Int /\ Page(1).pcm = Search!PcmStart
        /\ Len(Page(1).ends) \in Nat /\ Len(Page(1).ends) > 0
    BY <1>1, <1>2, PagesAre DEF Page, Search!PcmStart
  <1>4. o \in OfSet /\ o.offset = PageEnd(1) /\ o.ready /\ o.prevGp = Page(1).pcm /\ o.discard = opus.preSkip
        /\ o.buffer = <<>> /\ o.decoded = Search!Nothing
    <2>. DEFINE q == ((PageEnd(1) + ReadSize - 1) \div ReadSize) * ReadSize
                y == IF Search!End < q THEN Search!End ELSE q
    <2>1. o = [offset |-> PageEnd(1), position |-> y, ready |-> TRUE, op |-> <<>>, opPos |-> 0,
               prevGp |-> Search!PcmStart, discard |-> opus.preSkip, buffer |-> <<>>,
               decoded |-> Search!Nothing]
      BY DEF Search!Opened, Search!Lesser, PageEnd, Page
    <2>2. q \in Int BY <1>3, SearchConstants, PiecesReach
    <2>. HIDE DEF q
    <2>3. y \in Int BY <1>3, <2>2
    <2>. HIDE DEF y
    <2>4. Search!Nothing \in [from : Int, to : Int] BY DEF Search!Nothing
    <2>5. <<>> \in Seq(PacketSet) /\ <<>> \in Seq(Int) OBVIOUS
    <2>. HIDE DEF o
    <2>6. o \in OfSet BY <1>1, <1>3, <2>1, <2>3, <2>4, <2>5 DEF OfSet
    <2>. QED  BY <1>3, <2>1, <2>6
  <1>. HIDE DEF o
  <1>5. /\ f \in OfSet /\ f.op = PacketsOf(1) /\ f.opPos = 0 /\ f.prevGp = Page(1).pcm
        /\ f.offset = PageEnd(1) /\ f.ready
        /\ f.discard = opus.preSkip /\ f.buffer = <<>> /\ f.decoded = Search!Nothing
    BY <1>1, <1>2, <1>4, PageIsProcessed
  <1>. HIDE DEF f
  <1>6. HasRead(f, 1, 0) BY <1>5 DEF HasRead
  <1>7. InPlace(f, 1, 0)
    <2>1. Len(<<>>) = 0 /\ 0 + 1 = 1 /\ 1 .. 0 = {} OBVIOUS
    <2>. QED  BY <1>3, <1>5, <2>1 DEF InPlace, PlaceOf, StartOf
  <1>8. 0 \in 0 .. Len(Page(1).ends) BY <1>3
  <1>9. f.prevGp - Len(f.buffer) + f.discard = Search!PcmStart + opus.preSkip
    <2>1. Len(<<>>) = 0 OBVIOUS
    <2>. QED  BY <1>1, <1>3, <1>5, <2>1
  <1>10. Settles(f, Search!PcmStart + opus.preSkip)
    BY <1>3, <1>5 DEF Settles, FirstOf
  <1>11. Reads(f, Search!PcmStart + opus.preSkip, FALSE)
    BY <1>2, <1>6, <1>7, <1>8, <1>9, <1>10 DEF Reads
  <1>. QED  BY <1>5, <1>11 DEF f, o

LEMMA SearchInit == Search!Init => SearchInv
  <1>. SUFFICES ASSUME Search!Init PROVE SearchInv
    OBVIOUS
  <1>1. /\ opus \in OpusFiles /\ of = Search!ProcessPage(Search!Opened, 1)
        /\ pc = "idle" /\ goal = Search!PcmStart + opus.preSkip /\ rushed = FALSE
    BY DEF Search!Init
  <1>2. of \in OfSet /\ Reads(of, goal, rushed) BY <1>1, OpenedReads
  <1>3. goal \in Int
    <2>1. PagesRight /\ 1 \in 1 .. Search!LastPage /\ opus.preSkip \in Nat
      BY <1>1, FileIsRight DEF PagesRight
    <2>2. Search!PcmStart \in Int BY <2>1, PagesAre
    <2>. QED  BY <1>1, <2>1, <2>2
  <1>. QED  BY <1>1, <1>2, <1>3 DEF SearchInv

-----------------------------------------------------------------------------
(* A packet is decoded: the place where reading goes on stays, and so does *)
(* the one where the decoder began. *)
LEMMA DecodeKeeps == SearchInv /\ Search!Decode => SearchInv'
  <1>. SUFFICES ASSUME SearchInv, Search!Decode PROVE SearchInv'
    OBVIOUS
  <1>. DEFINE f == of
              g == of'
  <1>1. /\ opus \in OpusFiles /\ f \in OfSet /\ goal \in Int /\ rushed \in BOOLEAN /\ PagesRight
        /\ Reads(f, goal, rushed) /\ pc = "read" /\ f.buffer = <<>> /\ f.opPos < Len(f.op)
        /\ opus' = opus /\ pc' = pc /\ s' = s /\ goal' = goal /\ rushed' = rushed
    BY FileIsRight DEF SearchInv, Search!Decode
  <1>. DEFINE p == f.op[f.opPos + 1]
              most == IF p.granulepos - f.prevGp < 0 THEN 0 ELSE p.granulepos - f.prevGp
              trimmed == IF p.eos THEN IF most < p.duration THEN most ELSE p.duration ELSE p.duration
              skipped == IF trimmed < f.discard THEN trimmed ELSE f.discard
              buf == [n \in 1 .. trimmed - skipped |-> p.pcm + skipped + n - 1]
              dec == [from |-> IF p.pcm = f.decoded.to THEN f.decoded.from ELSE p.pcm, to |-> p.pcm + p.duration]
  <1>2. g = [f EXCEPT !.opPos = f.opPos + 1, !.prevGp = p.granulepos, !.discard = f.discard - skipped,
                      !.buffer = buf, !.decoded = dec]
    BY DEF Search!Decode, Search!Lesser, Search!Greater
  <1>. HIDE DEF f, g
  <1>3. PICK k \in 1 .. Search!LastPage : \E n \in 0 .. Len(Page(k).ends) : HasRead(f, k, n) /\ InPlace(f, k, n)
    BY <1>1 DEF Reads
  <1>31. PICK i \in 0 .. Len(Page(k).ends) : HasRead(f, k, i) /\ InPlace(f, k, i)
    BY <1>3
  <1>4. /\ f.op = PacketsOf(k) /\ f.offset = PageEnd(k) /\ f.opPos = i /\ f.ready
    BY <1>31 DEF HasRead
  <1>. DEFINE j == i + 1
              q == PlaceOf(k, j)
              b == PlaceOf(k, i)
              d == PacketOf(k, j).duration
              t == StartOf(k, j)
  <1>5. /\ j \in 1 .. Len(Page(k).ends) /\ j - 1 = i /\ i \in Nat /\ j \in Nat /\ j # 1 - 1
        /\ j \in 0 .. Len(Page(k).ends) /\ Len(Page(k).ends) \in Nat
    <2>1. Len(Page(k).ends) \in Nat /\ Len(f.op) = Len(Page(k).ends)
      BY <1>1, <1>4, PagesAre, PacketsAre
    <2>. QED  BY <1>1, <1>4, <2>1
  <1>6. p = PacketOf(k, j) BY <1>1, <1>4, <1>5, PacketsAre
  <1>. HIDE DEF j
  <1>7. /\ q \in Int /\ b \in Int /\ d \in Int /\ d > 0 /\ t \in Int /\ t + d = StartOf(k, j + 1)
        /\ b <= q /\ q <= b + d /\ (b < q => b = t)
        /\ p.granulepos = q /\ p.duration = d /\ p.pcm = t /\ p.eos \in BOOLEAN
        /\ (~p.eos => q = b + d)
    BY <1>1, <1>5, <1>6, PlacesAre
  <1>8. /\ f.prevGp = b
        /\ \/ f.decoded = Search!Nothing /\ t = b
           \/ f.decoded.from < f.decoded.to /\ f.decoded.to = t
    <2>1. i + 1 = j BY DEF j
    <2>. QED  BY <1>31, <2>1 DEF InPlace
  <1>9. f.discard \in Nat /\ f.decoded \in [from : Int, to : Int] /\ f.opPos \in Nat
    BY <1>1 DEF OfSet
  <1>. HIDE DEF p, q, b, d, t
  <1>10. trimmed = q - b BY <1>7, <1>8
  <1>. HIDE DEF trimmed
  <1>11. skipped \in Nat /\ skipped <= q - b /\ skipped <= f.discard /\ (skipped < q - b => skipped = f.discard)
    BY <1>7, <1>9, <1>10
  <1>. HIDE DEF skipped
  <1>12. trimmed - skipped \in Nat /\ \A n \in 1 .. trimmed - skipped : p.pcm + skipped + n - 1 \in Int
    BY <1>7, <1>10, <1>11
  <1>13. buf \in Seq(Int) /\ Len(buf) = trimmed - skipped /\ \A n \in 1 .. Len(buf) : buf[n] = t + skipped + n - 1
    <2>. DEFINE l == trimmed - skipped
    <2>1. buf = [n \in 1 .. l |-> p.pcm + skipped + n - 1] OBVIOUS
    <2>. HIDE DEF l, buf
    <2>2. l \in Nat /\ \A n \in 1 .. l : p.pcm + skipped + n - 1 \in Int
      BY <1>12 DEF l
    <2>3. buf \in Seq(Int) /\ Len(buf) = l /\ \A n \in 1 .. l : buf[n] = p.pcm + skipped + n - 1
      BY <2>1, <2>2
    <2>. QED  BY <1>7, <2>3 DEF l
  <1>14. dec \in [from : Int, to : Int] /\ dec.from < dec.to /\ dec.to = t + d
         /\ dec.from = FirstOf(f)
    <2>1. f.decoded.from \in Int /\ f.decoded.to \in Int BY <1>9
    <2>2. CASE f.decoded = Search!Nothing
      <3>1. f.decoded.from = -1 /\ f.decoded.to = -1 BY <2>2 DEF Search!Nothing
      <3>2. t = b \/ t = -1 BY <1>8, <3>1
      <3>3. t = b BY <1>8, <3>1
      <3>. QED  BY <1>7, <1>8, <2>1, <2>2, <3>1, <3>3 DEF FirstOf
    <2>3. CASE f.decoded # Search!Nothing BY <1>7, <1>8, <2>1, <2>3 DEF FirstOf
    <2>. QED  BY <2>2, <2>3
  <1>. HIDE DEF dec, buf
  <1>15. /\ g \in OfSet /\ g.op = f.op /\ g.offset = f.offset /\ g.opPos = j /\ g.ready = f.ready
         /\ g.prevGp = q /\ g.discard = f.discard - skipped /\ g.buffer = buf /\ g.decoded = dec
    <2>1. f.discard - skipped \in Nat /\ f.opPos + 1 \in Nat /\ f.opPos + 1 = j
      BY <1>4, <1>9, <1>11 DEF j
    <2>. QED  BY <1>1, <1>2, <1>7, <1>13, <1>14, <2>1 DEF OfSet
  <1>16. HasRead(g, k, j) BY <1>4, <1>15 DEF HasRead
  <1>17. InPlace(g, k, j)
    <2>1. \A n \in 1 .. Len(buf) : buf[n] = q - Len(buf) + n - 1
      <3>1. SUFFICES ASSUME NEW n \in 1 .. Len(buf) PROVE buf[n] = q - Len(buf) + n - 1
        OBVIOUS
      <3>2. Len(buf) = q - b - skipped /\ n \in Int /\ Len(buf) > 0
        BY <1>7, <1>10, <1>11, <1>13
      <3>3. b = t BY <1>7, <1>11, <3>2
      <3>4. buf[n] = t + skipped + n - 1 BY <1>13
      <3>. DEFINE l == Len(buf)
      <3>. HIDE DEF l
      <3>5. l = q - b - skipped BY <3>2 DEF l
      <3>6. buf[n] = q - l + n - 1 BY <1>7, <1>11, <3>2, <3>3, <3>4, <3>5
      <3>. QED  BY <3>6 DEF l
    <2>2. dec.to = StartOf(k, j + 1) BY <1>7, <1>14
    <2>3. q = PlaceOf(k, j) BY DEF q
    <2>. QED  BY <1>14, <1>15, <2>1, <2>2, <2>3 DEF InPlace
  <1>18. f.prevGp - Len(f.buffer) + f.discard = goal /\ (rushed \/ Settles(f, goal))
    BY <1>1 DEF Reads
  <1>19. g.prevGp - Len(g.buffer) + g.discard = goal
    <2>1. b + f.discard = goal /\ f.discard \in Int BY <1>1, <1>7, <1>8, <1>9, <1>18
    <2>2. g.prevGp = q /\ g.discard = f.discard - skipped /\ Len(g.buffer) = q - b - skipped
      BY <1>10, <1>13, <1>15
    <2>. QED  BY <1>7, <1>11, <2>1, <2>2
  <1>20. FirstOf(g) = FirstOf(f)
    <2>1. dec # Search!Nothing BY <1>14 DEF Search!Nothing
    <2>. QED  BY <1>14, <1>15, <2>1 DEF FirstOf
  <1>21. rushed \/ Settles(g, goal) BY <1>18, <1>20 DEF Settles
  <1>22. Reads(g, goal, rushed) BY <1>5, <1>16, <1>17, <1>19, <1>21 DEF Reads
  <1>23. Reads(of, goal, rushed)' BY <1>1, <1>22, SameFile DEF g
  <1>. QED  BY <1>1, <1>15, <1>23 DEF SearchInv, g

(* Reading begins. *)
LEMMA ReadKeepsPlace == SearchInv /\ Search!Read => SearchInv'
  <1>. SUFFICES ASSUME SearchInv, Search!Read PROVE SearchInv'
    OBVIOUS
  <1>1. /\ opus \in OpusFiles /\ of \in OfSet /\ goal \in Int /\ rushed \in BOOLEAN /\ Reads(of, goal, rushed)
        /\ pc' = "read" /\ opus' = opus /\ of' = of /\ s' = s /\ goal' = goal /\ rushed' = rushed
    BY DEF SearchInv, Search!Read
  <1>2. Reads(of', goal', rushed') BY <1>1
  <1>3. Reads(of, goal, rushed)' BY <1>1, <1>2, SameFile
  <1>. QED  BY <1>1, <1>3 DEF SearchInv

(* The next page goes on where the one before ended. *)
LEMMA NextPageKeeps == SearchInv /\ Search!NextPage => SearchInv'
  <1>. SUFFICES ASSUME SearchInv, Search!NextPage PROVE SearchInv'
    OBVIOUS
  <1>. DEFINE f == of
              g == of'
              x == Search!GetNextPage(f, Search!End)
  <1>1. /\ opus \in OpusFiles /\ f \in OfSet /\ goal \in Int /\ rushed \in BOOLEAN /\ PagesRight
        /\ Reads(f, goal, rushed) /\ pc = "read" /\ f.buffer = <<>> /\ f.opPos = Len(f.op)
        /\ opus' = opus /\ s' = s /\ goal' = goal /\ rushed' = rushed
    BY FileIsRight DEF SearchInv, Search!NextPage
  <1>2. \/ x.page = 0 /\ g = x.of /\ pc' = "idle"
        \/ x.page # 0 /\ g = Search!ProcessPage(x.of, x.page) /\ pc' = pc
    BY DEF Search!NextPage
  <1>. HIDE DEF f, g
  <1>3. PICK k \in 1 .. Search!LastPage : \E n \in 0 .. Len(Page(k).ends) : HasRead(f, k, n) /\ InPlace(f, k, n)
    BY <1>1 DEF Reads
  <1>4. PICK i \in 0 .. Len(Page(k).ends) : HasRead(f, k, i) /\ InPlace(f, k, i)
    BY <1>3
  <1>5. /\ f.op = PacketsOf(k) /\ f.offset = PageEnd(k) /\ f.opPos = i /\ f.ready
    BY <1>4 DEF HasRead
  <1>. DEFINE m == Len(Page(k).ends)
  <1>6. /\ m \in Nat /\ m > 0 /\ i = m /\ m \in 1 .. m
        /\ Search!LastPage \in Nat /\ Search!End \in Int
        /\ (k = Search!LastPage => PageEnd(k) = Search!End) /\ PageEnd(k) \in Int
    BY <1>1, <1>5, PagesAre, PacketsAre
  <1>7. CASE k = Search!LastPage
    <2>1. x.page = 0 /\ x.of = f
      BY <1>1, <1>5, <1>6, <1>7, SearchConstants, NextPageIs
    <2>2. g = f /\ pc' = "idle" BY <1>2, <2>1
    <2>3. Reads(of, goal, rushed)' BY <1>1, <2>2, SameFile DEF f, g
    <2>. QED  BY <1>1, <2>2, <2>3 DEF SearchInv, f, g
  <1>8. CASE k # Search!LastPage
    <2>. DEFINE l == k + 1
    <2>1. /\ l \in 1 .. Search!LastPage /\ Page(l).offset = PageEnd(k) /\ Page(l).pcm = Page(k).granulepos
          /\ Page(k).granulepos = Page(k).ends[m]
      BY <1>1, <1>6, <1>8, PagesAre
    <2>. HIDE DEF l
    <2>2. /\ x.page = l /\ Moved(f, x.of) /\ x.of.offset = PageEnd(l) /\ l # 0
      BY <1>1, <1>5, <1>6, <2>1, SearchConstants, NextPageIs
    <2>. DEFINE h == x.of
    <2>. HIDE DEF x
    <2>3. g = Search!ProcessPage(h, l) /\ pc' = "read" BY <1>1, <1>2, <2>2
    <2>4. /\ h \in OfSet /\ h.ready = f.ready /\ h.prevGp = f.prevGp /\ h.offset = PageEnd(l)
          /\ h.discard = f.discard /\ h.buffer = f.buffer /\ h.decoded = f.decoded
      BY <1>1, <2>2, MovedKeeps
    <2>. HIDE DEF h
    <2>5. f.prevGp = Page(l).pcm
      <3>1. f.prevGp = PlaceOf(k, m) BY <1>4, <1>6 DEF InPlace
      <3>2. PlaceOf(k, m) = Page(k).granulepos BY <1>1, <1>6, PlacesAre
      <3>. QED  BY <2>1, <3>1, <3>2
    <2>6. /\ g \in OfSet /\ g.op = PacketsOf(l) /\ g.opPos = 0 /\ g.prevGp = Page(l).pcm
          /\ g.offset = PageEnd(l) /\ g.ready
          /\ g.discard = f.discard /\ g.buffer = <<>> /\ g.decoded = f.decoded
      BY <1>1, <1>5, <2>1, <2>3, <2>4, <2>5, PageIsProcessed, ZenonT(90)
    <2>7. HasRead(g, l, 0) BY <2>6 DEF HasRead
    <2>8. f.decoded.from < f.decoded.to /\ f.decoded.to = StartOf(k, i + 1)
      BY <1>4, <1>6 DEF InPlace
    <2>9. StartOf(k, i + 1) = StartOf(l, 0 + 1)
      <3>1. i + 1 # 1 /\ i + 1 - 1 = m /\ 0 + 1 = 1 BY <1>6
      <3>. QED  BY <2>1, <3>1 DEF StartOf
    <2>10. InPlace(g, l, 0)
      <3>1. Len(<<>>) = 0 /\ 1 .. 0 = {} OBVIOUS
      <3>. QED  BY <2>6, <2>8, <2>9, <3>1 DEF InPlace, PlaceOf
    <2>11. 0 \in 0 .. Len(Page(l).ends) BY <1>1, <2>1, PagesAre
    <2>12. f.prevGp - Len(f.buffer) + f.discard = goal /\ (rushed \/ Settles(f, goal))
      BY <1>1 DEF Reads
    <2>13. FirstOf(g) = FirstOf(f) BY <2>5, <2>6 DEF FirstOf
    <2>14. Reads(g, goal, rushed)
      BY <1>1, <2>1, <2>5, <2>6, <2>7, <2>10, <2>11, <2>12, <2>13 DEF Reads, Settles
    <2>15. Reads(of, goal, rushed)' BY <1>1, <2>14, SameFile DEF g
    <2>. QED  BY <1>1, <2>3, <2>6, <2>15 DEF SearchInv, g
  <1>. QED  BY <1>7, <1>8

(* What is given is taken from the front of the buffer. *)
LEMMA GiveKeeps == SearchInv /\ Search!Give => SearchInv'
  <1>. SUFFICES ASSUME SearchInv, Search!Give PROVE SearchInv'
    OBVIOUS
  <1>. DEFINE f == of
              g == of'
              l == Len(f.buffer)
  <1>1. /\ opus \in OpusFiles /\ f \in OfSet /\ goal \in Int /\ rushed \in BOOLEAN /\ PagesRight
        /\ Reads(f, goal, rushed) /\ pc' = "idle" /\ f.buffer # <<>>
        /\ opus' = opus /\ s' = s /\ rushed' = rushed
    BY FileIsRight DEF SearchInv, Search!Give
  <1>2. PICK n \in 1 .. l : g = [f EXCEPT !.buffer = SubSeq(@, n + 1, Len(@))] /\ goal' = goal + n
    BY DEF Search!Give
  <1>. HIDE DEF f, g
  <1>3. f.buffer \in Seq(Int) /\ l \in Nat /\ f.discard \in Nat /\ f.prevGp \in Int
    BY <1>1 DEF OfSet
  <1>. DEFINE rest == SubSeq(f.buffer, n + 1, l)
  <1>4. /\ rest \in Seq(Int) /\ Len(rest) = l - n
        /\ \A i \in 1 .. l - n : rest[i] = f.buffer[n + i]
    BY <1>3
  <1>. HIDE DEF rest
  <1>5. /\ g \in OfSet /\ g.op = f.op /\ g.offset = f.offset /\ g.opPos = f.opPos /\ g.ready = f.ready
        /\ g.prevGp = f.prevGp /\ g.discard = f.discard /\ g.buffer = rest /\ g.decoded = f.decoded
    <2>1. g = [f EXCEPT !.buffer = rest] BY <1>2 DEF rest
    <2>. QED  BY <1>1, <1>4, <2>1 DEF OfSet
  <1>6. PICK k \in 1 .. Search!LastPage : \E i \in 0 .. Len(Page(k).ends) : HasRead(f, k, i) /\ InPlace(f, k, i)
    BY <1>1 DEF Reads
  <1>7. PICK i \in 0 .. Len(Page(k).ends) : HasRead(f, k, i) /\ InPlace(f, k, i)
    BY <1>6
  <1>8. HasRead(g, k, i) BY <1>5, <1>7 DEF HasRead
  <1>9. InPlace(g, k, i)
    <2>1. \A j \in 1 .. Len(rest) : rest[j] = f.prevGp - Len(rest) + j - 1
      <3>. SUFFICES ASSUME NEW j \in 1 .. Len(rest) PROVE rest[j] = f.prevGp - Len(rest) + j - 1
        OBVIOUS
      <3>1. j \in 1 .. l - n /\ n + j \in 1 .. l /\ Len(rest) = l - n
        BY <1>3, <1>4
      <3>2. rest[j] = f.buffer[n + j] BY <1>4, <3>1
      <3>3. f.buffer[n + j] = f.prevGp - l + (n + j) - 1
        BY <1>7, <3>1 DEF InPlace
      <3>. HIDE DEF l
      <3>. QED  BY <1>3, <3>1, <3>2, <3>3
    <2>. QED  BY <1>1, <1>5, <1>7, <2>1 DEF InPlace
  <1>10. f.prevGp - l + f.discard = goal /\ (rushed \/ Settles(f, goal))
    BY <1>1 DEF Reads
  <1>11. g.prevGp - Len(g.buffer) + g.discard = goal + n
    <2>. HIDE DEF l
    <2>. QED  BY <1>3, <1>4, <1>5, <1>10
  <1>12. rushed \/ Settles(g, goal + n)
    <2>1. FirstOf(g) = FirstOf(f) BY <1>5 DEF FirstOf
    <2>2. FirstOf(f) \in Int BY <1>1 DEF FirstOf, OfSet
    <2>3. goal - FirstOf(f) >= PreRoll => (goal + n) - FirstOf(f) >= PreRoll
      BY <1>1, <1>3, <2>2, SearchConstants
    <2>4. Settles(f, goal) => Settles(g, goal + n)
      <3>. SUFFICES ASSUME Settles(f, goal) PROVE Settles(g, goal + n)
        OBVIOUS
      <3>1. FirstOf(f) = Search!PcmStart \/ goal - FirstOf(f) >= PreRoll
        BY DEF Settles
      <3>2. FirstOf(g) = Search!PcmStart \/ (goal + n) - FirstOf(g) >= PreRoll
        BY <2>1, <2>3, <3>1
      <3>. QED  BY <3>2 DEF Settles
    <2>. QED  BY <1>10, <2>4
  <1>13. Reads(g, goal + n, rushed) BY <1>8, <1>9, <1>11, <1>12 DEF Reads
  <1>14. Reads(of, goal, rushed)' BY <1>1, <1>2, <1>13, SameFile DEF g
  <1>15. goal + n \in Int BY <1>1, <1>3
  <1>. QED  BY <1>1, <1>2, <1>5, <1>14, <1>15 DEF SearchInv, g

-----------------------------------------------------------------------------
(* Where a seek looks for the page, and from where on it skips, is before *)
(* the sample; and the same, unless both are before the first sample. *)
LEMMA SampleIsAskedFor ==
  ASSUME PagesRight, NEW sample \in 0 .. Search!PcmEnd - Search!PcmStart - opus.preSkip - 1,
         NEW r, r.goal = Search!PcmStart + opus.preSkip + sample,
         r.offset = r.goal - Search!PcmStart,
         r.target = Search!Greater(r.goal - PreRoll, Search!PcmStart),
         r.skip = Search!SkipTarget(r.offset)
  PROVE  /\ AskedFor(r)
         /\ r.target >= Search!PcmStart + opus.preSkip => r.target = Search!PcmStart + r.skip
  <1>. DEFINE a == Search!PcmStart
              z == Search!PcmEnd
              b == opus.preSkip
  <1>1. a \in Int /\ z \in Int /\ b \in Nat
    <2>1. 1 \in 1 .. Search!LastPage /\ b \in Nat BY DEF PagesRight
    <2>. QED  BY <2>1, PagesAre
  <1>2. /\ r.goal = a + b + sample /\ r.offset = r.goal - a
        /\ r.target = IF r.goal - PreRoll < a THEN a ELSE r.goal - PreRoll
        /\ r.skip = IF r.offset <= b THEN 0 ELSE IF r.offset - PreRoll < 0 THEN 0 ELSE r.offset - PreRoll
        /\ sample \in 0 .. z - a - b - 1
    BY DEF Search!Greater, Search!SkipTarget
  <1>3. PreRoll \in Nat /\ PreRoll > 0 BY SearchConstants
  <1>. HIDE DEF a, z, b
  <1>. DEFINE g == r.goal
              t == r.target
              k == r.skip
              o == r.offset
  <1>4. /\ g = a + b + sample /\ o = g - a
        /\ t = IF g - PreRoll < a THEN a ELSE g - PreRoll
        /\ k = IF o <= b THEN 0 ELSE IF o - PreRoll < 0 THEN 0 ELSE o - PreRoll
        /\ sample \in 0 .. z - a - b - 1
    BY <1>2
  <1>. HIDE DEF g, t, k, o
  <1>5. /\ g \in Int /\ o \in Int /\ a + b <= g /\ g < z BY <1>1, <1>3, <1>4
  <1>6. /\ k \in Nat /\ t \in Int
        /\ a + k <= t /\ t <= g
        /\ k = 0 \/ a + k <= g - PreRoll
    BY <1>1, <1>3, <1>4, <1>5
  <1>7. t >= a + b => t = a + k BY <1>1, <1>3, <1>4, <1>5
  <1>. QED  BY <1>4, <1>5, <1>6, <1>7 DEF AskedFor, a, z, b, g, t, k, o

(* The range that is searched begins with a page that ends before. *)
LEMMA IntervalIs ==
  ASSUME PagesRight, of \in OfSet, NEW r, AskedFor(r),
         r.target >= Search!PcmStart + opus.preSkip => r.target = Search!PcmStart + r.skip,
         NEW k \in 1 .. Search!LastPage, of.op = PacketsOf(k), of.offset = PageEnd(k)
  PROVE  LET i == Search!Interval(r.target)
         IN  /\ i.begin \in Int /\ i.end \in Int /\ i.boundary \in Int /\ i.best \in Int
             /\ i.bestGp \in Int /\ i.pcmStart \in Int /\ i.pcmEnd \in Int
             /\ i.begin < i.end => r.target = Search!PcmStart + r.skip
             /\ \E l \in 1 .. Search!LastPage :
                    i.best = Page(l).offset /\ i.bestGp = Page(l).pcm /\ Page(l).pcm <= Search!PcmStart + r.skip
  <1>. DEFINE i == Search!Interval(r.target)
              a == Search!PcmStart
              z == Search!PcmEnd
              e == Search!EndOffset
              gp == Page(k).granulepos
              all == [begin |-> DataOffset, end |-> e, boundary |-> e, best |-> DataOffset,
                      bestGp |-> a, pcmStart |-> a, pcmEnd |-> z]
  <1>1. /\ a \in Int /\ z \in Int /\ e \in Int /\ gp \in Int /\ DataOffset \in Int /\ opus.preSkip \in Nat
        /\ Search!LastPage \in Nat
        /\ k = Search!LastPage => PageEnd(k) = Search!End /\ Page(k).offset = e
        /\ Page(k).offset < PageEnd(k) /\ PageEnd(k) \in Int
        /\ k < Search!LastPage => k + 1 \in 1 .. Search!LastPage /\ Page(k + 1).offset = PageEnd(k) /\ Page(k + 1).pcm = gp
    <2>1. opus.preSkip \in Nat /\ DataOffset \in Nat
      BY SearchConstants DEF PagesRight
    <2>. QED  BY <2>1, PagesAre
  <1>2. 1 \in 1 .. Search!LastPage /\ Page(1).offset = DataOffset /\ Page(1).pcm = a
    BY DEF PagesRight, Page, Search!PcmStart
  <1>3. Search!Last(of.op).granulepos = gp
    <2>. DEFINE m == Len(Page(k).ends)
    <2>1. m \in 1 .. m /\ Len(of.op) = m BY PagesAre, PacketsAre
    <2>. HIDE DEF m
    <2>2. of.op[m] = PacketOf(k, m) BY <2>1, PacketsAre DEF m
    <2>3. PacketOf(k, m).granulepos = PlaceOf(k, m) /\ PlaceOf(k, m) = gp
      BY <2>1, PlacesAre DEF m
    <2>. QED  BY <2>1, <2>2, <2>3 DEF Search!Last
  <1>4. \/ i = [all EXCEPT !.end = DataOffset, !.boundary = DataOffset] /\ r.target < a + opus.preSkip
        \/ /\ r.target >= a + opus.preSkip
           /\ \/ i = all
              \/ /\ i = [all EXCEPT !.begin = of.offset, !.best = of.offset, !.bestGp = gp, !.pcmStart = gp]
                 /\ of.offset <= e /\ gp < r.target
              \/ i = [all EXCEPT !.end = of.offset, !.boundary = of.offset, !.pcmEnd = gp]
    <2>1. of.offset \in Int /\ r.target \in Int BY DEF OfSet, AskedFor
    <2>. DEFINE half == (e - DataOffset) \div 2
                empty == ~of.ready \/ of.op = <<>> \/ of.offset > e \/ gp <= a \/ gp >= z
                before == gp < r.target /\ (of.offset - DataOffset >= half \/ gp - r.target > -CurTimeThresh)
                after == gp >= r.target /\ (of.offset - DataOffset <= half \/ gp - r.target < CurTimeThresh)
    <2>2. i = IF r.target < a + opus.preSkip
              THEN [all EXCEPT !.end = DataOffset, !.boundary = DataOffset]
              ELSE IF empty THEN all
              ELSE IF before
              THEN [all EXCEPT !.begin = of.offset, !.best = of.offset, !.bestGp = gp, !.pcmStart = gp]
              ELSE IF after
              THEN [all EXCEPT !.end = of.offset, !.boundary = of.offset, !.pcmEnd = gp]
              ELSE all
      BY <1>3 DEF Search!Interval
    <2>3. ~empty => of.offset <= e BY <1>1, <2>1
    <2>4. before => gp < r.target OBVIOUS
    <2>5. ~(r.target < a + opus.preSkip) => r.target >= a + opus.preSkip
      BY <1>1, <2>1
    <2>. HIDE DEF empty, before, after, all, i, a, e, gp
    <2>. QED  BY <2>2, <2>3, <2>4, <2>5
  <1>5. r.skip \in Nat /\ r.target \in Int /\ of.offset \in Int
    BY DEF AskedFor, OfSet
  <1>6. CASE i = [all EXCEPT !.end = DataOffset, !.boundary = DataOffset] /\ r.target < a + opus.preSkip
    <2>1. i = [begin |-> DataOffset, end |-> DataOffset, boundary |-> DataOffset, best |-> DataOffset,
               bestGp |-> a, pcmStart |-> a, pcmEnd |-> z]
      BY <1>6
    <2>. HIDE DEF i, all, a, z
    <2>. QED  BY <1>1, <1>2, <1>5, <2>1 DEF i, a, z
  <1>7. CASE i = all /\ r.target >= a + opus.preSkip
    <2>1. i = [begin |-> DataOffset, end |-> e, boundary |-> e, best |-> DataOffset,
               bestGp |-> a, pcmStart |-> a, pcmEnd |-> z]
      BY <1>7
    <2>. HIDE DEF i, all, a, z, e
    <2>. QED  BY <1>1, <1>2, <1>5, <1>7, <2>1 DEF i, a, z, e
  <1>8. CASE /\ i = [all EXCEPT !.begin = of.offset, !.best = of.offset, !.bestGp = gp, !.pcmStart = gp]
             /\ of.offset <= e /\ gp < r.target /\ r.target >= a + opus.preSkip
    <2>1. i = [begin |-> of.offset, end |-> e, boundary |-> e, best |-> of.offset,
               bestGp |-> gp, pcmStart |-> gp, pcmEnd |-> z]
      BY <1>8
    <2>2. k < Search!LastPage
      <3>1. k # Search!LastPage BY <1>1, <1>8
      <3>. QED  BY <1>1, <3>1
    <2>. DEFINE l == k + 1
    <2>3. l \in 1 .. Search!LastPage /\ Page(l).offset = of.offset /\ Page(l).pcm = gp
      BY <1>1, <2>2
    <2>4. gp <= a + r.skip BY <1>1, <1>5, <1>8
    <2>. HIDE DEF i, all, a, z, e, gp, l
    <2>5. Page(l).pcm <= a + r.skip /\ i.best = Page(l).offset /\ i.bestGp = Page(l).pcm
      BY <2>1, <2>3, <2>4
    <2>6. i.begin < i.end => r.target = a + r.skip BY <1>8 DEF a
    <2>7. /\ i.begin \in Int /\ i.end \in Int /\ i.boundary \in Int /\ i.best \in Int
          /\ i.bestGp \in Int /\ i.pcmStart \in Int /\ i.pcmEnd \in Int
      BY <1>1, <1>5, <2>1
    <2>. QED  BY <2>3, <2>5, <2>6, <2>7 DEF i, a
  <1>9. CASE i = [all EXCEPT !.end = of.offset, !.boundary = of.offset, !.pcmEnd = gp] /\ r.target >= a + opus.preSkip
    <2>1. i = [begin |-> DataOffset, end |-> of.offset, boundary |-> of.offset, best |-> DataOffset,
               bestGp |-> a, pcmStart |-> a, pcmEnd |-> gp]
      BY <1>9
    <2>. HIDE DEF i, all, a, z, e, gp
    <2>2. /\ i.begin \in Int /\ i.end \in Int /\ i.boundary \in Int /\ i.best \in Int
          /\ i.bestGp \in Int /\ i.pcmStart \in Int /\ i.pcmEnd \in Int
      BY <1>1, <1>5, <2>1
    <2>3. r.target = a + r.skip BY <1>9 DEF a
    <2>4. i.best = Page(1).offset /\ i.bestGp = Page(1).pcm /\ Page(1).pcm <= a + r.skip
      BY <1>1, <1>2, <1>5, <2>1 DEF a
    <2>. QED  BY <1>2, <2>2, <2>3, <2>4 DEF i, a
  <1>. HIDE DEF i, all, a, z, e, gp
  <1>. QED  BY <1>4, <1>6, <1>7, <1>8, <1>9 DEF i, a

(* A seek begins: forward from the place where reading is, on the page *)
(* that is there, or with a search. *)
LEMMA PcmSeekKeeps == SearchInv /\ Search!PcmSeek => SearchInv'
  <1>. SUFFICES ASSUME SearchInv, Search!PcmSeek PROVE SearchInv'
    OBVIOUS
  <1>. DEFINE f == of
              g == of'
              a == Search!PcmStart
  <1>1. /\ opus \in OpusFiles /\ f \in OfSet /\ goal \in Int /\ rushed \in BOOLEAN /\ PagesRight
        /\ Reads(f, goal, rushed) /\ pc = "idle" /\ opus' = opus
    BY FileIsRight DEF SearchInv, Search!PcmSeek
  <1>. DEFINE gp(x) == a + opus.preSkip + x
              off(x) == gp(x) - a
              fwd(x) == gp(x) - (f.prevGp - Len(f.buffer))
              tgt(x) == Search!Greater(gp(x) - PreRoll, a)
              skp(x) == Search!SkipTarget(off(x))
              begun(x, i) == [goal |-> gp(x), target |-> tgt(x), offset |-> off(x), skip |-> skp(x),
                              begin |-> i.begin, end |-> i.end, boundary |-> i.boundary,
                              best |-> i.best, bestGp |-> i.bestGp,
                              pcmStart |-> i.pcmStart, pcmEnd |-> i.pcmEnd,
                              d0 |-> i.end - i.begin, d1 |-> i.end - i.begin, d2 |-> i.end - i.begin, force |-> FALSE,
                              bisect |-> 0, chunk |-> 0, nextBoundary |-> 0, page |-> 0]
  <1>2. PICK x \in 0 .. Search!PcmEnd - Search!PcmStart - opus.preSkip - 1 :
          \/ /\ 0 <= fwd(x) /\ g = [f EXCEPT !.discard = fwd(x)] /\ goal' = gp(x)
             /\ rushed' = (rushed \/ fwd(x) < f.discard) /\ pc' = pc /\ s' = s
          \/ /\ Search!Buffered(tgt(x))
             /\ g = Search!MakeDecodeReady([f EXCEPT !.opPos = 0, !.buffer = <<>>,
                                              !.prevGp = f.op[1].granulepos + f.op[1].duration])
             /\ pc' = "skip" /\ s' = [goal |-> gp(x), target |-> tgt(x), offset |-> off(x), skip |-> skp(x)]
             /\ goal' = goal /\ rushed' = rushed
          \/ /\ g = Search!DecodeClear(f) /\ pc' = "bisect" /\ s' = begun(x, Search!Interval(tgt(x)))
             /\ goal' = goal /\ rushed' = rushed
    BY DEF Search!PcmSeek
  <1>. HIDE DEF f, g
  <1>3. PICK k \in 1 .. Search!LastPage : \E n \in 0 .. Len(Page(k).ends) : HasRead(f, k, n) /\ InPlace(f, k, n)
    BY <1>1 DEF Reads
  <1>4. PICK i \in 0 .. Len(Page(k).ends) : HasRead(f, k, i) /\ InPlace(f, k, i)
    BY <1>3
  <1>5. /\ f.op = PacketsOf(k) /\ f.offset = PageEnd(k) /\ f.opPos = i /\ f.ready
    BY <1>4 DEF HasRead
  <1>6. a \in Int /\ opus.preSkip \in Nat /\ gp(x) \in Int /\ Len(Page(k).ends) \in Nat /\ Len(Page(k).ends) > 0
    <2>1. a \in Int /\ Search!PcmEnd \in Int /\ opus.preSkip \in Nat
      BY <1>1, PagesAre DEF PagesRight
    <2>. HIDE DEF a
    <2>2. gp(x) \in Int BY <2>1
    <2>. QED  BY <1>1, <2>1, <2>2, PagesAre
  <1>. DEFINE r == [goal |-> gp(x), target |-> tgt(x), offset |-> off(x), skip |-> skp(x)]
  <1>7. AskedFor(r) /\ (r.target >= a + opus.preSkip => r.target = a + r.skip)
    BY <1>1, SampleIsAskedFor
  <1>8. /\ f.prevGp \in Int /\ f.discard \in Nat /\ f.buffer \in Seq(Int) /\ Len(f.buffer) \in Nat
        /\ f.decoded \in [from : Int, to : Int]
    BY <1>1 DEF OfSet
  <1>9. CASE /\ 0 <= fwd(x) /\ g = [f EXCEPT !.discard = fwd(x)] /\ goal' = gp(x)
             /\ rushed' = (rushed \/ fwd(x) < f.discard) /\ pc' = pc /\ s' = s
    <2>. DEFINE w == fwd(x)
                h == gp(x)
    <2>1. w = h - (f.prevGp - Len(f.buffer)) /\ w \in Nat BY <1>6, <1>8, <1>9, SMTT(60)
    <2>2. /\ 0 <= w /\ g = [f EXCEPT !.discard = w] /\ goal' = h
          /\ rushed' = (rushed \/ w < f.discard) /\ pc' = pc
      BY <1>9
    <2>3. h \in Int BY <1>6
    <2>. HIDE DEF w, h, a
    <2>4. /\ g \in OfSet /\ g.op = f.op /\ g.offset = f.offset /\ g.opPos = f.opPos /\ g.ready = f.ready
          /\ g.prevGp = f.prevGp /\ g.discard = w /\ g.buffer = f.buffer /\ g.decoded = f.decoded
      BY <1>1, <2>1, <2>2 DEF OfSet
    <2>5. HasRead(g, k, i) BY <1>4, <2>4 DEF HasRead
    <2>6. InPlace(g, k, i) BY <1>4, <2>4 DEF InPlace
    <2>7. f.prevGp - Len(f.buffer) + f.discard = goal /\ (rushed \/ Settles(f, goal))
      BY <1>1 DEF Reads
    <2>8. g.prevGp - Len(g.buffer) + g.discard = h BY <1>8, <2>1, <2>3, <2>4
    <2>9. Settles(f, goal) /\ ~(w < f.discard) => Settles(g, h)
      <3>1. FirstOf(g) = FirstOf(f) BY <2>4 DEF FirstOf
      <3>2. FirstOf(f) \in Int BY <1>8 DEF FirstOf
      <3>3. ~(w < f.discard) => h >= goal BY <1>1, <1>8, <2>1, <2>3, <2>7
      <3>4. ~(w < f.discard) /\ goal - FirstOf(f) >= PreRoll => h - FirstOf(f) >= PreRoll
        BY <1>1, <2>3, <3>2, <3>3, SearchConstants
      <3>. QED  BY <3>1, <3>4 DEF Settles
    <2>10. rushed' \/ Settles(g, h) BY <2>2, <2>7, <2>9, Zenon
    <2>11. Reads(g, h, rushed') BY <2>5, <2>6, <2>8, <2>10 DEF Reads
    <2>12. Reads(of, goal, rushed)' BY <1>1, <2>2, <2>11, SameFile DEF g
    <2>13. rushed' \in BOOLEAN BY <2>2
    <2>. QED  BY <1>1, <2>2, <2>3, <2>4, <2>12, <2>13 DEF SearchInv, g
  <1>10. CASE /\ Search!Buffered(tgt(x))
              /\ g = Search!MakeDecodeReady([f EXCEPT !.opPos = 0, !.buffer = <<>>,
                                              !.prevGp = f.op[1].granulepos + f.op[1].duration])
              /\ pc' = "skip" /\ s' = [goal |-> gp(x), target |-> tgt(x), offset |-> off(x), skip |-> skp(x)]
              /\ goal' = goal /\ rushed' = rushed
    <2>1. /\ tgt(x) >= a + opus.preSkip
          /\ f.op[1].granulepos + f.op[1].duration <= tgt(x)
      BY <1>10 DEF Search!Buffered, f
    <2>2. r.target = a + r.skip /\ s' = r /\ r.target = tgt(x)
      BY <1>7, <1>10, <2>1
    <2>3. f.op[1] = PacketOf(k, 1) /\ 1 \in 1 .. Len(Page(k).ends)
      BY <1>1, <1>5, <1>6, PacketsAre
    <2>. HIDE DEF r, a
    <2>4. /\ PacketOf(k, 1).granulepos = PlaceOf(k, 1) /\ PlaceOf(k, 1) \in Int
          /\ PacketOf(k, 1).duration \in Int /\ PacketOf(k, 1).duration > 0
      BY <1>1, <2>3, PlacesAre
    <2>5. r.skip \in Nat BY <1>7 DEF AskedFor
    <2>6. PlaceOf(k, 1) <= a + r.skip
      <3>1. PlaceOf(k, 1) + PacketOf(k, 1).duration <= a + r.skip
        BY <2>1, <2>2, <2>3, <2>4
      <3>. QED  BY <1>6, <2>4, <2>5, <3>1
    <2>. DEFINE v == f.op[1].granulepos + f.op[1].duration
    <2>7. v \in Int BY <2>3, <2>4
    <2>8. g = [[f EXCEPT !.opPos = 0, !.buffer = <<>>, !.prevGp = v] EXCEPT !.ready = TRUE, !.decoded = Search!Nothing]
      BY <1>10 DEF Search!MakeDecodeReady
    <2>. HIDE DEF v
    <2>9. /\ g \in OfSet /\ g.op = f.op /\ g.offset = f.offset /\ g.opPos = 0 /\ g.ready = TRUE
          /\ g.buffer = <<>> /\ g.decoded = Search!Nothing
      <3>1. Search!Nothing \in [from : Int, to : Int] /\ 0 \in Nat /\ <<>> \in Seq(Int)
        BY DEF Search!Nothing
      <3>. HIDE DEF v
      <3>. QED  BY <1>1, <2>7, <2>8, <3>1 DEF OfSet
    <2>10. HasRead(g, k, 0) BY <1>5, <2>9 DEF HasRead
    <2>11. Skips(g, r) BY <1>7, <2>6, <2>9, <2>10 DEF Skips, a
    <2>12. Skips(of, s)' BY <1>1, <2>2, <2>11, SameFile DEF g
    <2>. QED  BY <1>1, <1>10, <2>9, <2>12 DEF SearchInv, g
  <1>11. CASE /\ g = Search!DecodeClear(f) /\ pc' = "bisect" /\ s' = begun(x, Search!Interval(tgt(x)))
              /\ goal' = goal /\ rushed' = rushed
    <2>. DEFINE j == Search!Interval(tgt(x))
    <2>1. r.target = tgt(x) /\ r.goal = gp(x) /\ r.offset = off(x) /\ r.skip = skp(x)
      OBVIOUS
    <2>2. /\ j.begin \in Int /\ j.end \in Int /\ j.boundary \in Int /\ j.best \in Int
          /\ j.bestGp \in Int /\ j.pcmStart \in Int /\ j.pcmEnd \in Int
          /\ j.begin < j.end => r.target = a + r.skip
          /\ \E l \in 1 .. Search!LastPage :
                 j.best = Page(l).offset /\ j.bestGp = Page(l).pcm /\ Page(l).pcm <= a + r.skip
      <3>. HIDE DEF r
      <3>. QED  BY <1>1, <1>5, <1>7, <2>1, IntervalIs DEF f
    <2>3. s' = begun(x, j) BY <1>11
    <2>. HIDE DEF j
    <2>4. /\ s'.goal = gp(x) /\ s'.target = tgt(x) /\ s'.offset = off(x) /\ s'.skip = skp(x)
          /\ s'.begin = j.begin /\ s'.end = j.end /\ s'.boundary = j.boundary
          /\ s'.best = j.best /\ s'.bestGp = j.bestGp
          /\ s'.pcmStart = j.pcmStart /\ s'.pcmEnd = j.pcmEnd /\ s'.page = 0
      <3>. HIDE DEF gp, tgt, off, skp
      <3>. QED  BY <2>3
    <2>5. AskedFor(s') BY <1>7, <2>1, <2>4 DEF AskedFor
    <2>6. s' \in RoundSet
      <3>1. gp(x) \in Int /\ tgt(x) \in Int /\ off(x) \in Int /\ skp(x) \in Int /\ j.end - j.begin \in Int /\ 0 \in Int
        <4>1. r.goal \in Int /\ r.target \in Int /\ r.skip \in Int
          BY <1>7 DEF AskedFor
        <4>. HIDE DEF r, a, gp, tgt, skp
        <4>. QED  BY <1>6, <2>1, <2>2, <4>1, SMTT(60)
      <3>. HIDE DEF gp, tgt, off, skp
      <3>. QED  BY <2>2, <2>3, <3>1 DEF RoundSet
    <2>7. g \in OfSet /\ g.buffer = <<>> /\ g.op = <<>>
      <3>1. g = [f EXCEPT !.op = <<>>, !.buffer = <<>>, !.prevGp = -1, !.ready = FALSE]
        BY <1>11 DEF Search!DecodeClear
      <3>2. <<>> \in Seq(PacketSet) /\ <<>> \in Seq(Int) /\ -1 \in Int OBVIOUS
      <3>. QED  BY <1>1, <3>1, <3>2 DEF OfSet
    <2>8. Looks(g, s')
      <3>1. s'.page \in 0 .. Search!LastPage /\ ~(s'.page # 0)
        BY <1>1, <2>4 DEF PagesRight
      <3>2. s'.begin < s'.end => s'.target = a + s'.skip BY <2>1, <2>2, <2>4
      <3>3. \E l \in 1 .. Search!LastPage :
                 s'.best = Page(l).offset /\ s'.bestGp = Page(l).pcm /\ Page(l).pcm <= a + s'.skip
        BY <2>1, <2>2, <2>4
      <3>. HIDE DEF gp, tgt, off, skp, begun, r
      <3>. QED  BY <2>5, <2>6, <2>7, <3>1, <3>2, <3>3 DEF Looks
    <2>9. Looks(of, s)' BY <1>1, <2>8, SameFile DEF g
    <2>. QED  BY <1>1, <1>11, <2>7, <2>9 DEF SearchInv, g
  <1>. QED  BY <1>2, <1>9, <1>10, <1>11

-----------------------------------------------------------------------------
(* To another place in the file. *)
LEMMA SoughtIs ==
  ASSUME NEW f \in OfSet, NEW x \in Int
  PROVE  Moved(f, Search!SeekHelper(f, x)) /\ Search!SeekHelper(f, x).offset = x
  <1>1. CASE x = f.offset BY <1>1, NotMoved DEF Search!SeekHelper
  <1>2. CASE x # f.offset
    <2>1. Search!SeekHelper(f, x) = MoveTo(f, x, x)
      BY <1>2 DEF Search!SeekHelper, MoveTo
    <2>. QED  BY <2>1, MovedTo
  <1>. QED  BY <1>1, <1>2

(* What a round of the search may change, and still look for the same. *)
SameSeek(q, r) == q.goal = r.goal /\ q.target = r.target /\ q.offset = r.offset /\ q.skip = r.skip

(* It still looks for the same when the file has only moved. *)
LEMMA LooksOn ==
  ASSUME NEW f \in OfSet, NEW r, Looks(f, r), NEW g, Moved(f, g), NEW q \in RoundSet, SameSeek(q, r),
         q.page \in 0 .. Search!LastPage, q.page # 0 => g.offset = PageEnd(q.page),
         q.begin < q.end => r.begin < r.end,
         \/ q.best = r.best /\ q.bestGp = r.bestGp
         \/ \E k \in 1 .. Search!LastPage :
              q.best = Page(k).offset /\ q.bestGp = Page(k).pcm /\ Page(k).pcm <= Search!PcmStart + r.skip
  PROVE  Looks(g, q) /\ g \in OfSet
  <1>1. g.buffer = <<>> /\ g.op = <<>> /\ g \in OfSet BY MovedKeeps DEF Looks
  <1>2. AskedFor(q) BY DEF Looks, AskedFor, SameSeek
  <1>3. q.begin < q.end => q.target = Search!PcmStart + q.skip
    BY DEF Looks, SameSeek
  <1>4. \E k \in 1 .. Search!LastPage :
          q.best = Page(k).offset /\ q.bestGp = Page(k).pcm /\ Page(k).pcm <= Search!PcmStart + q.skip
    BY DEF Looks, SameSeek
  <1>. QED  BY <1>1, <1>2, <1>3, <1>4 DEF Looks

(* A guess is between begin and end. *)
LEMMA BisectKeeps == SearchInv /\ Search!Bisect => SearchInv'
  <1>. SUFFICES ASSUME SearchInv, Search!Bisect PROVE SearchInv'
    OBVIOUS
  <1>. DEFINE f == of
              g == of'
              r == s
              q == s'
              n == r.end - r.begin
              base == IF r.force THEN {r.begin + n \div 2} ELSE {r.begin + x - ChunkSize : x \in Search!Guesses}
              looks == IF n < ChunkSize THEN {r.begin}
                       ELSE {IF b - ChunkSize < r.begin THEN r.begin ELSE b : b \in base}
  <1>1. /\ opus \in OpusFiles /\ f \in OfSet /\ goal \in Int /\ rushed \in BOOLEAN /\ PagesRight
        /\ Looks(f, r) /\ r.begin < r.end /\ pc' = "scan"
        /\ opus' = opus /\ goal' = goal /\ rushed' = rushed
    BY FileIsRight DEF SearchInv, Search!Bisect
  <1>2. PICK b \in looks :
          /\ g = Search!SeekHelper(f, b)
          /\ q = [r EXCEPT
                    !.bisect = b, !.chunk = ChunkSize, !.nextBoundary = r.boundary,
                    !.page = IF b = f.offset THEN r.page ELSE 0,
                    !.d0 = IF n < ChunkSize THEN r.d0 ELSE r.d1 \div 2,
                    !.d1 = IF n < ChunkSize THEN r.d1 ELSE r.d2 \div 2,
                    !.d2 = IF n < ChunkSize THEN r.d2 ELSE n \div 2,
                    !.force = IF n < ChunkSize THEN r.force ELSE FALSE]
    BY DEF Search!Bisect
  <1>3. \A x \in Search!Guesses : x \in 0 .. n
    <2>1. n \in Int /\ n > 0
      <3>1. r \in RoundSet BY <1>1 DEF Looks
      <3>2. r.begin \in Int /\ r.end \in Int BY <3>1 DEF RoundSet
      <3>. QED  BY <1>1, <3>2
    <2>2. Search!Guesses = {n} \/ Search!Guesses = {0} \/ Search!Guesses = 0 .. n
      BY DEF Search!Guesses
    <2>. HIDE DEF n
    <2>. QED  BY <2>1, <2>2
  <1>. HIDE DEF f, g, r, q
  <1>4. /\ r \in RoundSet /\ r.begin \in Int /\ r.end \in Int /\ r.boundary \in Int
        /\ r.d0 \in Int /\ r.d1 \in Int /\ r.d2 \in Int /\ r.force \in BOOLEAN /\ r.page \in 0 .. Search!LastPage
        /\ Search!LastPage \in Nat
    BY <1>1 DEF Looks, RoundSet, PagesRight
  <1>5. ChunkSize \in Nat /\ ChunkSize > 0 BY SearchConstants
  <1>6. n \in Int /\ n > 0 BY <1>1, <1>4
  <1>7. \A x \in base : x \in Int /\ x < r.end
    <2>1. CASE r.force
      <3>1. n \div 2 \in Int /\ n \div 2 < n
        <4>. HIDE DEF n
        <4>. QED  BY <1>6
      <3>. QED  BY <1>4, <2>1, <3>1
    <2>2. CASE ~r.force BY <1>3, <1>4, <1>5, <2>2
    <2>. QED  BY <2>1, <2>2
  <1>. HIDE DEF base
  <1>8. b \in Int /\ r.begin <= b /\ b < r.end
    <2>1. CASE n < ChunkSize BY <1>1, <1>2, <1>4, <2>1
    <2>2. CASE ~(n < ChunkSize)
      <3>1. PICK x \in base : b = IF x - ChunkSize < r.begin THEN r.begin ELSE x
        BY <1>2, <2>2
      <3>2. x \in Int /\ x < r.end BY <1>7
      <3>. QED  BY <1>1, <1>4, <1>5, <3>1, <3>2
    <2>. QED  BY <2>1, <2>2
  <1>. HIDE DEF looks
  <1>. DEFINE p == IF b = f.offset THEN r.page ELSE 0
              d0 == IF n < ChunkSize THEN r.d0 ELSE r.d1 \div 2
              d1 == IF n < ChunkSize THEN r.d1 ELSE r.d2 \div 2
              d2 == IF n < ChunkSize THEN r.d2 ELSE n \div 2
              force == IF n < ChunkSize THEN r.force ELSE FALSE
  <1>9. d0 \in Int /\ d1 \in Int /\ d2 \in Int /\ force \in BOOLEAN /\ p \in Int /\ p \in 0 .. Search!LastPage
    <2>1. r.d1 \div 2 \in Int /\ r.d2 \div 2 \in Int /\ n \div 2 \in Int /\ FALSE \in BOOLEAN
      <3>. HIDE DEF n
      <3>. QED  BY <1>4, <1>6
    <2>2. d0 \in Int /\ d1 \in Int /\ d2 \in Int
      <3>. HIDE DEF n
      <3>. QED  BY <1>4, <1>6, <2>1
    <2>3. force \in BOOLEAN BY <1>4, <2>1, Zenon
    <2>4. p \in Int /\ p \in 0 .. Search!LastPage BY <1>4
    <2>. QED  BY <2>2, <2>3, <2>4
  <1>. DEFINE half == [r EXCEPT !.bisect = b, !.chunk = ChunkSize, !.nextBoundary = r.boundary, !.page = p]
  <1>10. q = [half EXCEPT !.d0 = d0, !.d1 = d1, !.d2 = d2, !.force = force]
    BY <1>2
  <1>11. (b = f.offset => p = r.page) /\ (b # f.offset => p = 0) OBVIOUS
  <1>. HIDE DEF n, p, d0, d1, d2, force
  <1>12. /\ q \in RoundSet /\ SameSeek(q, r) /\ q.page = p /\ q.begin = r.begin /\ q.end = r.end
         /\ q.best = r.best /\ q.bestGp = r.bestGp /\ q.bisect = b /\ q.chunk = ChunkSize
    <2>1. /\ half \in RoundSet /\ half.page = p /\ half.bisect = b /\ half.chunk = ChunkSize
          /\ half.goal = r.goal /\ half.target = r.target /\ half.offset = r.offset /\ half.skip = r.skip
          /\ half.begin = r.begin /\ half.end = r.end /\ half.best = r.best /\ half.bestGp = r.bestGp
      <3>1. half = [r EXCEPT !.bisect = b, !.chunk = ChunkSize, !.nextBoundary = r.boundary, !.page = p]
        OBVIOUS
      <3>. HIDE DEF half
      <3>2. r \in RoundSet /\ r.boundary \in Int /\ b \in Int /\ p \in Int /\ ChunkSize \in Int
        BY <1>4, <1>5, <1>8, <1>9
      <3>3. half \in RoundSet BY <3>1, <3>2 DEF RoundSet
      <3>. QED  BY <3>1, <3>2, <3>3 DEF RoundSet
    <2>. HIDE DEF half
    <2>. QED  BY <1>9, <1>10, <2>1 DEF RoundSet, SameSeek
  <1>13. Moved(f, g) /\ g.offset = b BY <1>1, <1>2, <1>8, SoughtIs
  <1>14. q.page # 0 => g.offset = PageEnd(q.page)
    BY <1>1, <1>11, <1>12, <1>13 DEF Looks
  <1>15. Looks(g, q) /\ g \in OfSet BY <1>1, <1>9, <1>12, <1>13, <1>14, LooksOn
  <1>16. Narrowed(g, q) BY <1>4, <1>5, <1>8, <1>12, <1>13 DEF Narrowed
  <1>17. Looks(of, s)' BY <1>1, <1>15, SameFile DEF g, q
  <1>18. Narrowed(of, s)' BY <1>16 DEF Narrowed, g, q
  <1>. QED  BY <1>1, <1>15, <1>17, <1>18 DEF SearchInv, g

(* A round leaves less, wherever it finds a page, or none. *)
Less(r, q) ==
    \/ q.end - q.begin < r.end - r.begin
    \/ q.end - q.begin = r.end - r.begin /\ q.bisect < r.bisect /\ pc' = "scan"

(* No page was found: the search is over, or it goes back. *)
FoundNone(r, h, g, q) ==
    IF r.bisect <= r.begin + 1
    THEN g = h /\ q = [r EXCEPT !.end = r.begin, !.page = 0]
    ELSE LET back == Search!Greater(r.bisect - r.chunk, r.begin)
         IN  /\ g = Search!SeekHelper(h, back)
             /\ q = [r EXCEPT !.bisect = back, !.boundary = r.nextBoundary, !.page = 0,
                              !.chunk = Search!Lesser(2 * r.chunk, ChunkSizeMax)]

LEMMA ScannedAllKeeps ==
  ASSUME NEW f \in OfSet, NEW r, Looks(f, r), Narrowed(f, r), r.begin < r.end,
         NEW h, Moved(f, h), NEW g, NEW q, pc' = "scan",
         FoundNone(r, h, g, q),
         PagesRight
  PROVE  Looks(g, q) /\ g \in OfSet /\ Narrowed(g, q) /\ Less(r, q)
  <1>1. /\ r \in RoundSet /\ r.begin \in Int /\ r.end \in Int /\ r.bisect \in Int /\ r.chunk \in Int
        /\ r.nextBoundary \in Int
        /\ r.begin <= r.bisect /\ r.bisect < r.end /\ r.chunk > 0
    BY DEF Looks, RoundSet, Narrowed
  <1>2. 0 \in 0 .. Search!LastPage /\ ChunkSizeMax \in Int /\ ChunkSizeMax > 0 /\ h \in OfSet
    BY SearchConstants, MovedKeeps DEF PagesRight
  <1>3. CASE r.bisect <= r.begin + 1
    <2>1. g = h /\ q = [r EXCEPT !.end = r.begin, !.page = 0]
      BY <1>3 DEF FoundNone
    <2>2. q \in RoundSet
      <3>1. r \in RoundSet /\ r.begin \in Int /\ 0 \in Int BY <1>1
      <3>. QED  BY <2>1, <3>1 DEF RoundSet
    <2>3. /\ SameSeek(q, r) /\ q.page = 0 /\ q.begin = r.begin /\ q.end = r.begin
          /\ q.best = r.best /\ q.bestGp = r.bestGp /\ q.bisect = r.bisect /\ q.chunk = r.chunk
      BY <1>1, <2>1 DEF RoundSet, SameSeek
    <2>4. Looks(g, q) /\ g \in OfSet BY <1>1, <1>2, <2>1, <2>2, <2>3, LooksOn
    <2>5. Narrowed(g, q) BY <1>1, <2>3 DEF Narrowed
    <2>6. Less(r, q) BY <1>1, <2>3 DEF Less
    <2>. QED  BY <2>4, <2>5, <2>6
  <1>4. CASE ~(r.bisect <= r.begin + 1)
    <2>. DEFINE back == IF r.bisect - r.chunk < r.begin THEN r.begin ELSE r.bisect - r.chunk
                wide == IF 2 * r.chunk < ChunkSizeMax THEN 2 * r.chunk ELSE ChunkSizeMax
    <2>1. /\ g = Search!SeekHelper(h, back)
          /\ q = [r EXCEPT !.bisect = back, !.boundary = r.nextBoundary, !.page = 0, !.chunk = wide]
      BY <1>4 DEF FoundNone, Search!Greater, Search!Lesser
    <2>2. back \in Int /\ wide \in Int /\ r.begin <= back /\ back < r.bisect /\ wide > 0
      BY <1>1, <1>2, <1>4
    <2>. HIDE DEF back, wide
    <2>3. q \in RoundSet
      <3>1. r \in RoundSet /\ r.nextBoundary \in Int /\ back \in Int /\ wide \in Int /\ 0 \in Int
        BY <1>1, <2>2
      <3>. QED  BY <2>1, <3>1 DEF RoundSet
    <2>4. /\ SameSeek(q, r) /\ q.page = 0 /\ q.begin = r.begin /\ q.end = r.end
          /\ q.best = r.best /\ q.bestGp = r.bestGp /\ q.bisect = back /\ q.chunk = wide
      BY <1>1, <2>1 DEF RoundSet, SameSeek
    <2>5. Moved(h, g) /\ g.offset = back BY <1>2, <2>1, <2>2, SoughtIs
    <2>6. Moved(f, g) BY <2>5, MovedOn
    <2>7. Looks(g, q) /\ g \in OfSet BY <1>2, <2>3, <2>4, <2>6, LooksOn
    <2>8. Narrowed(g, q) BY <1>1, <2>2, <2>4, <2>5 DEF Narrowed
    <2>9. Less(r, q) BY <1>1, <2>2, <2>4 DEF Less
    <2>. QED  BY <2>7, <2>8, <2>9
  <1>. QED  BY <1>3, <1>4

(* What a round becomes that found page k, which ends before the target, *)
(* and that ends at e; or one that ends after it. *)
AfterBefore(r, k, e, boundary, valid, far) ==
    [r EXCEPT
      !.begin = e, !.page = k, !.nextBoundary = boundary,
      !.best     = IF valid THEN e ELSE r.best,
      !.bestGp   = IF valid THEN Page(k).granulepos ELSE r.bestGp,
      !.pcmStart = IF valid THEN Page(k).granulepos ELSE r.pcmStart,
      !.bisect   = IF far THEN r.bisect ELSE e]
AfterDone(r, k, boundary) == [r EXCEPT !.end = r.begin, !.page = k, !.nextBoundary = boundary]
AfterAfter(r, k, boundary, force, most) ==
    [r EXCEPT !.end = r.bisect, !.page = k, !.nextBoundary = boundary, !.boundary = boundary,
              !.force = force, !.pcmEnd = most]

(* The page after it is the best one, and begins before the place. *)
LEMMA FoundBeforeKeeps ==
  ASSUME PagesRight, NEW f \in OfSet, NEW r, Looks(f, r), Narrowed(f, r), r.begin < r.end,
         NEW g, Moved(f, g), NEW q, NEW k \in 1 .. Search!LastPage,
         f.offset <= Page(k).offset, g.offset = PageEnd(k), Page(k).granulepos < r.target,
         NEW valid \in BOOLEAN, NEW far \in BOOLEAN, NEW boundary \in Int,
         q = AfterBefore(r, k, g.offset, boundary, valid, far)
  PROVE  Looks(g, q) /\ g \in OfSet /\ (~far => Narrowed(g, q)) /\ Less(r, q)
  <1>. DEFINE gp == Page(k).granulepos
              e == g.offset
              best == IF valid THEN e ELSE r.best
              bestGp == IF valid THEN gp ELSE r.bestGp
              start == IF valid THEN gp ELSE r.pcmStart
              look == IF far THEN r.bisect ELSE e
  <1>1. /\ r \in RoundSet /\ r.begin \in Int /\ r.end \in Int /\ r.bisect \in Int /\ r.chunk \in Int
        /\ r.best \in Int /\ r.bestGp \in Int /\ r.pcmStart \in Int
        /\ r.chunk > 0 /\ f.offset \in Int /\ r.begin <= f.offset
    BY DEF Looks, RoundSet, Narrowed, OfSet
  <1>2. /\ Search!LastPage \in Nat /\ Page(k).offset \in Int /\ PageEnd(k) \in Int /\ Page(k).offset < PageEnd(k)
        /\ gp \in Int /\ Search!PcmEnd \in Int /\ Search!PcmStart \in Int
        /\ k = Search!LastPage => gp = Search!PcmEnd
        /\ k < Search!LastPage => k + 1 \in 1 .. Search!LastPage /\ Page(k + 1).offset = PageEnd(k) /\ Page(k + 1).pcm = gp
    BY PagesAre
  <1>3. e = PageEnd(k) /\ e \in Int /\ r.begin < e BY <1>1, <1>2
  <1>4. /\ r.target = Search!PcmStart + r.skip /\ r.target <= r.goal /\ r.goal < Search!PcmEnd
        /\ r.target \in Int /\ r.goal \in Int /\ r.skip \in Nat
    BY DEF Looks, AskedFor
  <1>5. k < Search!LastPage
    <2>1. gp < r.target OBVIOUS
    <2>. HIDE DEF gp
    <2>2. k # Search!LastPage BY <1>2, <1>4, <2>1
    <2>. QED  BY <1>2, <2>2
  <1>6. best \in Int /\ bestGp \in Int /\ start \in Int /\ look \in Int /\ k \in Int
    BY <1>1, <1>2, <1>3
  <1>7. q = [r EXCEPT !.begin = e, !.page = k, !.nextBoundary = boundary, !.best = best,
                      !.bestGp = bestGp, !.pcmStart = start, !.bisect = look]
    BY DEF AfterBefore
  <1>8. \/ best = r.best /\ bestGp = r.bestGp
        \/ best = e /\ bestGp = gp
    BY Zenon
  <1>9. ~far => look = e OBVIOUS
  <1>. DEFINE l == k + 1
  <1>10. l \in 1 .. Search!LastPage /\ Page(l).offset = e /\ Page(l).pcm = gp
    BY <1>2, <1>3, <1>5
  <1>11. gp <= Search!PcmStart + r.skip BY <1>2, <1>4
  <1>. HIDE DEF best, bestGp, start, look, gp, e, l
  <1>. DEFINE half == [r EXCEPT !.begin = e, !.page = k, !.nextBoundary = boundary, !.best = best]
  <1>12. q = [half EXCEPT !.bestGp = bestGp, !.pcmStart = start, !.bisect = look]
    BY <1>7
  <1>13. /\ q \in RoundSet /\ SameSeek(q, r) /\ q.page = k /\ q.begin = e /\ q.end = r.end
         /\ q.best = best /\ q.bestGp = bestGp /\ q.bisect = look /\ q.chunk = r.chunk
    <2>1. /\ half \in RoundSet /\ half.page = k /\ half.bisect = r.bisect /\ half.chunk = r.chunk
          /\ half.goal = r.goal /\ half.target = r.target /\ half.offset = r.offset /\ half.skip = r.skip
          /\ half.begin = e /\ half.end = r.end /\ half.best = best
      <3>1. half = [r EXCEPT !.begin = e, !.page = k, !.nextBoundary = boundary, !.best = best]
        OBVIOUS
      <3>. HIDE DEF half
      <3>2. r \in RoundSet /\ boundary \in Int /\ e \in Int /\ best \in Int /\ k \in Int
        BY <1>1, <1>3, <1>6
      <3>3. half \in RoundSet BY <3>1, <3>2 DEF RoundSet
      <3>. QED  BY <3>1, <3>2, <3>3 DEF RoundSet
    <2>. HIDE DEF half
    <2>2. bestGp \in Int /\ start \in Int /\ look \in Int BY <1>6
    <2>3. q \in RoundSet BY <1>12, <2>1, <2>2 DEF RoundSet
    <2>. QED  BY <1>12, <2>1, <2>3 DEF RoundSet, SameSeek
  <1>14. q.page \in 0 .. Search!LastPage /\ (q.page # 0 => g.offset = PageEnd(q.page)) /\ (q.begin < q.end => r.begin < r.end)
    BY <1>2, <1>13
  <1>15. \/ q.best = r.best /\ q.bestGp = r.bestGp
         \/ \E x \in 1 .. Search!LastPage :
              q.best = Page(x).offset /\ q.bestGp = Page(x).pcm /\ Page(x).pcm <= Search!PcmStart + r.skip
    <2>1. CASE best = r.best /\ bestGp = r.bestGp BY <1>13, <2>1
    <2>2. CASE best = e /\ bestGp = gp BY <1>10, <1>11, <1>13, <2>2
    <2>. QED  BY <1>8, <2>1, <2>2
  <1>16. Looks(g, q) /\ g \in OfSet BY <1>13, <1>14, <1>15, LooksOn
  <1>17. ASSUME ~far PROVE Narrowed(g, q)
    <2>1. look = e /\ g.offset = e BY <1>9, <1>17 DEF e
    <2>. QED  BY <1>1, <1>3, <1>13, <2>1 DEF Narrowed
  <1>18. Less(r, q) BY <1>1, <1>3, <1>13 DEF Less
  <1>. QED  BY <1>16, <1>17, <1>18

(* The best page stays, and less is left before the one that was found. *)
LEMMA FoundAfterKeeps ==
  ASSUME PagesRight, NEW f \in OfSet, NEW r, Looks(f, r), Narrowed(f, r), r.begin < r.end,
         NEW g, Moved(f, g), NEW q, NEW k \in 1 .. Search!LastPage, g.offset = PageEnd(k),
         NEW boundary \in Int, NEW force \in BOOLEAN, NEW most \in Int,
         q = AfterDone(r, k, boundary) \/ q = AfterAfter(r, k, boundary, force, most)
  PROVE  Looks(g, q) /\ g \in OfSet /\ (q = AfterDone(r, k, boundary) => Narrowed(g, q)) /\ Less(r, q)
  <1>1. /\ r \in RoundSet /\ r.begin \in Int /\ r.end \in Int /\ r.bisect \in Int /\ r.chunk \in Int
        /\ r.begin <= r.bisect /\ r.bisect < r.end /\ r.chunk > 0
    BY DEF Looks, RoundSet, Narrowed
  <1>2. k \in Int /\ k \in 0 .. Search!LastPage BY DEF PagesRight
  <1>3. /\ q \in RoundSet /\ SameSeek(q, r) /\ q.page = k /\ q.begin = r.begin /\ (q.end = r.begin \/ q.end = r.bisect)
        /\ q.best = r.best /\ q.bestGp = r.bestGp /\ q.bisect = r.bisect /\ q.chunk = r.chunk
    <2>1. CASE q = AfterDone(r, k, boundary)
      <3>0. q = [r EXCEPT !.end = r.begin, !.page = k, !.nextBoundary = boundary]
        BY <2>1 DEF AfterDone
      <3>1. q \in RoundSet BY <1>1, <1>2, <3>0 DEF RoundSet
      <3>. QED  BY <1>1, <3>0, <3>1 DEF RoundSet, SameSeek
    <2>2. CASE q = AfterAfter(r, k, boundary, force, most)
      <3>0. q = [r EXCEPT !.end = r.bisect, !.page = k, !.nextBoundary = boundary, !.boundary = boundary,
                          !.force = force, !.pcmEnd = most]
        BY <2>2 DEF AfterAfter
      <3>1. q \in RoundSet BY <1>1, <1>2, <3>0 DEF RoundSet
      <3>. QED  BY <1>1, <3>0, <3>1 DEF RoundSet, SameSeek
    <2>. QED  BY <2>1, <2>2
  <1>4. Looks(g, q) /\ g \in OfSet BY <1>2, <1>3, LooksOn
  <1>5. q = AfterDone(r, k, boundary) => Narrowed(g, q)
    <2>1. q = AfterDone(r, k, boundary) => q.end = r.begin
      BY <1>1 DEF AfterDone, RoundSet
    <2>. QED  BY <1>1, <1>3, <2>1 DEF Narrowed
  <1>6. Less(r, q) BY <1>1, <1>3 DEF Less
  <1>. QED  BY <1>3, <1>4, <1>5, <1>6

(* A round of the scan. *)
LEMMA ScanKeeps == SearchInv /\ Search!Scan => SearchInv' /\ (s.begin < s.end => Less(s, s'))
  <1>. SUFFICES ASSUME SearchInv, Search!Scan
                PROVE  SearchInv' /\ (s.begin < s.end => Less(s, s'))
    OBVIOUS
  <1>. DEFINE f == of
              g == of'
              r == s
              q == s'
              x == Search!GetNextPage(f, r.boundary)
              k == x.page
              h == x.of
              gp == Page(k).granulepos
              valid == r.pcmStart <= gp /\ gp <= r.pcmEnd
              far == ~valid \/ r.target - gp > Second
              bounded == Search!Lesser(Page(k).offset, r.nextBoundary)
              force == r.bisect - r.begin > r.d0 * 2
              most == IF r.pcmEnd > gp /\ r.pcmStart <= gp THEN gp ELSE r.pcmEnd
  <1>1. /\ opus \in OpusFiles /\ f \in OfSet /\ goal \in Int /\ rushed \in BOOLEAN /\ PagesRight
        /\ Looks(f, r) /\ Narrowed(f, r) /\ pc = "scan"
        /\ opus' = opus /\ goal' = goal /\ rushed' = rushed
    BY FileIsRight DEF SearchInv, Search!Scan
  <1>2. SUFFICES /\ Looks(g, q) /\ g \in OfSet /\ (pc' = "scan" => Narrowed(g, q))
                 /\ pc' \in {"bisect", "scan"}
                 /\ r.begin < r.end => Less(r, q)
    <2>1. Looks(of, s)' <=> Looks(g, q) BY <1>1, SameFile
    <2>2. Narrowed(of, s)' <=> Narrowed(g, q) BY DEF Narrowed
    <2>. QED  BY <1>1, <2>1, <2>2 DEF SearchInv
  <1>3. \/ r.begin >= r.end /\ pc' = "bisect" /\ g = f /\ q = r
        \/ ~(r.begin >= r.end) /\ k = 0 /\ FoundNone(r, h, g, q) /\ pc' = pc
        \/ /\ ~(r.begin >= r.end) /\ k # 0 /\ g = h
           /\ \/ /\ gp < r.target /\ q = AfterBefore(r, k, h.offset, bounded, valid, far)
                 /\ pc' = IF far THEN "bisect" ELSE "scan"
              \/ q = AfterDone(r, k, bounded) /\ pc' = pc
              \/ q = AfterAfter(r, k, bounded, force, most) /\ pc' = "bisect"
    BY DEF Search!Scan, Search!ScannedAll, Search!FoundBefore, Search!FoundAfter, FoundNone, Page,
          AfterBefore, AfterDone, AfterAfter
  <1>4. /\ r \in RoundSet /\ r.begin \in Int /\ r.end \in Int /\ r.boundary \in Int /\ r.nextBoundary \in Int
        /\ r.pcmEnd \in Int
    BY <1>1 DEF Looks, RoundSet
  <1>5. /\ Moved(f, h) /\ k \in 0 .. Search!LastPage
        /\ k # 0 => f.offset <= Page(k).offset /\ h.offset = PageEnd(k)
    BY <1>1, <1>4, SearchConstants, NextPageIs
  <1>6. k # 0 => k \in 1 .. Search!LastPage BY <1>1, <1>5 DEF PagesRight
  <1>7. k # 0 => Page(k).offset \in Int /\ gp \in Int BY <1>1, <1>6, PagesAre
  <1>8. k # 0 => bounded \in Int BY <1>4, <1>7 DEF Search!Lesser
  <1>. HIDE DEF f, g, r, q, x
  <1>9. valid \in BOOLEAN /\ far \in BOOLEAN OBVIOUS
  <1>. HIDE DEF k, h, bounded, valid, far
  <1>10. CASE r.begin >= r.end /\ pc' = "bisect" /\ g = f /\ q = r
    BY <1>1, <1>4, <1>10
  <1>11. CASE ~(r.begin >= r.end) /\ k = 0 /\ FoundNone(r, h, g, q) /\ pc' = pc
    <2>1. r.begin < r.end /\ pc' = "scan" BY <1>1, <1>4, <1>11
    <2>2. Looks(g, q) /\ g \in OfSet /\ Narrowed(g, q) /\ Less(r, q)
      BY <1>1, <1>5, <1>11, <2>1, ScannedAllKeeps
    <2>. QED  BY <2>1, <2>2
  <1>12. ASSUME ~(r.begin >= r.end), k # 0, g = h, gp < r.target,
                q = AfterBefore(r, k, h.offset, bounded, valid, far),
                pc' = IF far THEN "bisect" ELSE "scan"
         PROVE  /\ Looks(g, q) /\ g \in OfSet /\ (pc' = "scan" => Narrowed(g, q))
                /\ pc' \in {"bisect", "scan"} /\ Less(r, q)
    <2>1. r.begin < r.end BY <1>4, <1>12
    <2>2. Looks(g, q) /\ g \in OfSet /\ (~far => Narrowed(g, q)) /\ Less(r, q)
      BY <1>1, <1>5, <1>6, <1>8, <1>9, <1>12, <2>1, FoundBeforeKeeps
    <2>. QED  BY <1>12, <2>2
  <1>13. ASSUME ~(r.begin >= r.end), k # 0, g = h, pc' = pc, q = AfterDone(r, k, bounded)
         PROVE  /\ Looks(g, q) /\ g \in OfSet /\ (pc' = "scan" => Narrowed(g, q))
                /\ pc' \in {"bisect", "scan"} /\ Less(r, q)
    <2>1. r.begin < r.end BY <1>4, <1>13
    <2>2. Looks(g, q) /\ g \in OfSet /\ Narrowed(g, q) /\ Less(r, q)
      <3>1. TRUE \in BOOLEAN OBVIOUS
      <3>. QED  BY <1>1, <1>4, <1>5, <1>6, <1>8, <1>13, <2>1, <3>1, FoundAfterKeeps
    <2>. QED  BY <1>1, <1>13, <2>2
  <1>14. ASSUME ~(r.begin >= r.end), k # 0, g = h, pc' = "bisect",
                q = AfterAfter(r, k, bounded, force, most)
         PROVE  /\ Looks(g, q) /\ g \in OfSet /\ (pc' = "scan" => Narrowed(g, q))
                /\ pc' \in {"bisect", "scan"} /\ Less(r, q)
    <2>1. r.begin < r.end BY <1>4, <1>14
    <2>2. force \in BOOLEAN /\ most \in Int BY <1>4, <1>7, <1>14
    <2>3. Looks(g, q) /\ g \in OfSet /\ Less(r, q)
      <3>. HIDE DEF force, most
      <3>. QED  BY <1>1, <1>5, <1>6, <1>8, <1>14, <2>1, <2>2, FoundAfterKeeps
    <2>. QED  BY <1>14, <2>3
  <1>. HIDE DEF gp
  <1>. QED  BY <1>3, <1>10, <1>11, <1>12, <1>13, <1>14

(* Two pages do not begin at the same place. *)
LEMMA OffsetsDiffer ==
  ASSUME PagesRight, NEW j \in 1 .. Search!LastPage, NEW k \in 1 .. Search!LastPage,
         Page(j).offset = Page(k).offset
  PROVE  j = k
  <1>1. \A x \in {j, k} : /\ Page(x).offset \in Int /\ PageEnd(x) \in Int /\ Page(x).offset < PageEnd(x)
                          /\ x \in Nat
    BY PagesAre
  <1>2. CASE j < k
    <2>1. PageEnd(j) <= Page(k).offset BY <1>2, PagesGrow
    <2>. QED  BY <1>1, <2>1
  <1>3. CASE k < j
    <2>1. PageEnd(k) <= Page(j).offset BY <1>3, PagesGrow
    <2>. QED  BY <1>1, <2>1
  <1>. QED  BY <1>1, <1>2, <1>3

(* The search ends with the page after the best one. *)
LEMMA FoundKeeps == SearchInv /\ Search!Found => SearchInv'
  <1>. SUFFICES ASSUME SearchInv, Search!Found PROVE SearchInv'
    OBVIOUS
  <1>. DEFINE f == of
              g == of'
              r == s
              there == r.page # 0 /\ Search!Pages[r.page].offset = r.best
              sought == Search!GetNextPage(Search!SeekHelper(f, r.best), Search!End)
              x == IF there THEN [page |-> r.page, of |-> f] ELSE sought
              h == [x.of EXCEPT !.prevGp = r.bestGp]
  <1>1. /\ opus \in OpusFiles /\ f \in OfSet /\ goal \in Int /\ rushed \in BOOLEAN /\ PagesRight
        /\ Looks(f, r) /\ s' = r
        /\ opus' = opus /\ goal' = goal /\ rushed' = rushed
    BY FileIsRight DEF SearchInv, Search!Found
  <1>2. x.page # 0 => /\ g = Search!ProcessPage(Search!MakeDecodeReady(h), x.page)
                      /\ pc' = IF g.prevGp > r.target THEN "badlink" ELSE "skip"
    BY DEF Search!Found
  <1>. HIDE DEF f, g, r
  <1>3. PICK k \in 1 .. Search!LastPage :
          r.best = Page(k).offset /\ r.bestGp = Page(k).pcm /\ Page(k).pcm <= Search!PcmStart + r.skip
    BY <1>1 DEF Looks
  <1>4. /\ k # 0 /\ Page(k).offset \in Int /\ Page(k).pcm \in Int /\ Search!End \in Int /\ Search!PcmStart \in Int
        /\ Len(Page(k).ends) \in Nat
    BY <1>1, PagesAre
  <1>5. x.page = k /\ Moved(f, x.of) /\ x.of.offset = PageEnd(k)
    <2>1. CASE there
      <3>1. r.page \in 1 .. Search!LastPage /\ Page(r.page).offset = Page(k).offset
        BY <1>1, <1>3, <2>1 DEF Looks, PagesRight, Page
      <3>2. r.page = k BY <1>1, <3>1, OffsetsDiffer
      <3>3. f.offset = PageEnd(k) BY <1>1, <1>4, <3>2 DEF Looks
      <3>. QED  BY <1>1, <2>1, <3>2, <3>3, NotMoved
    <2>2. CASE ~there
      <3>. DEFINE m == Search!SeekHelper(f, r.best)
      <3>1. Moved(f, m) /\ m.offset = Page(k).offset
        BY <1>1, <1>3, <1>4, SoughtIs
      <3>2. m \in OfSet BY <1>1, <3>1, MovedKeeps
      <3>. HIDE DEF m
      <3>3. sought = Search!GetNextPage(m, Search!End) BY DEF m
      <3>4. sought.page = k /\ Moved(m, sought.of) /\ sought.of.offset = PageEnd(k)
        <4>. HIDE DEF sought
        <4>. QED  BY <1>1, <1>4, <3>1, <3>2, <3>3, SearchConstants, NextPageIs
      <3>5. Moved(f, sought.of) BY <1>1, <3>1, <3>4, MovedOn
      <3>. QED  BY <2>2, <3>4, <3>5
    <2>. QED  BY <2>1, <2>2
  <1>. DEFINE y == x.of
  <1>. HIDE DEF there, sought, x
  <1>6. y \in OfSet /\ y.buffer = <<>> BY <1>1, <1>5, MovedKeeps DEF Looks
  <1>. DEFINE z == Search!MakeDecodeReady(h)
  <1>7. /\ z \in OfSet /\ z.prevGp = Page(k).pcm /\ z.offset = PageEnd(k) /\ z.ready = TRUE
        /\ z.buffer = <<>> /\ z.decoded = Search!Nothing
    <2>1. z = [[y EXCEPT !.prevGp = r.bestGp] EXCEPT !.ready = TRUE, !.decoded = Search!Nothing]
      BY DEF Search!MakeDecodeReady
    <2>2. Search!Nothing \in [from : Int, to : Int] /\ r.bestGp \in Int
      BY <1>3, <1>4 DEF Search!Nothing
    <2>3. y.offset = PageEnd(k) BY <1>5
    <2>. HIDE DEF y, z
    <2>. QED  BY <1>3, <1>6, <2>1, <2>2, <2>3 DEF OfSet
  <1>. HIDE DEF y, h, z
  <1>8. /\ g = Search!ProcessPage(z, k) /\ pc' = IF g.prevGp > r.target THEN "badlink" ELSE "skip"
    BY <1>2, <1>4, <1>5 DEF z
  <1>9. /\ g \in OfSet /\ g.op = PacketsOf(k) /\ g.opPos = 0 /\ g.prevGp = Page(k).pcm
        /\ g.offset = PageEnd(k) /\ g.ready
        /\ g.buffer = <<>> /\ g.decoded = Search!Nothing
    BY <1>1, <1>7, <1>8, PageIsProcessed
  <1>10. pc' = "skip"
    <2>1. r.target \in Int /\ r.skip \in Nat /\ Search!PcmStart + r.skip <= r.target
      BY <1>1 DEF Looks, AskedFor
    <2>2. ~(g.prevGp > r.target) BY <1>3, <1>4, <1>9, <2>1
    <2>. QED  BY <1>8, <2>2
  <1>11. HasRead(g, k, 0) BY <1>9 DEF HasRead
  <1>12. Skips(g, r) BY <1>1, <1>3, <1>9, <1>11 DEF Skips, Looks
  <1>13. Skips(of, s)' BY <1>1, <1>12, SameFile DEF g
  <1>. QED  BY <1>1, <1>9, <1>10, <1>13 DEF SearchInv, g

(* The packets that end before the place are passed over, to the next page *)
(* or to the packet with the place. *)
LEMMA SkipKeeps == SearchInv /\ Search!Skip => SearchInv'
  <1>. SUFFICES ASSUME SearchInv, Search!Skip PROVE SearchInv'
    OBVIOUS
  <1>. DEFINE f == of
              g == of'
              r == s
              a == Search!PcmStart
  <1>1. /\ opus \in OpusFiles /\ f \in OfSet /\ goal \in Int /\ rushed \in BOOLEAN /\ PagesRight
        /\ Skips(f, r) /\ opus' = opus /\ pc = "skip"
    BY FileIsRight DEF SearchInv, Search!Skip
  <1>. DEFINE left == {i \in f.opPos + 1 .. Len(f.op) : f.op[i].granulepos - a > r.skip}
              n == IF left = {} THEN Len(f.op) ELSE Search!Min(left) - 1
              prev == IF n > f.opPos THEN f.op[n].granulepos ELSE f.prevGp
              h == [f EXCEPT !.prevGp = prev, !.opPos = n]
              x == Search!GetNextPage(h, Search!End)
  <1>2. IF left # {}
        THEN /\ pc' = IF prev - a > r.skip THEN "badlink" ELSE "idle"
             /\ g = [h EXCEPT !.discard = r.offset - (prev - a)]
             /\ goal' = r.goal /\ rushed' = FALSE
        ELSE /\ g = IF x.page = 0 THEN x.of ELSE Search!ProcessPage(x.of, x.page)
             /\ pc' = IF x.page = 0 THEN "badlink" ELSE pc
             /\ s' = r /\ goal' = goal /\ rushed' = rushed
    BY DEF Search!Skip, Search!Discarded
  <1>. HIDE DEF f, g, r, a
  <1>3. AskedFor(r) /\ f.buffer = <<>> /\ f.decoded = Search!Nothing
    BY <1>1 DEF Skips
  <1>4. PICK k \in 1 .. Search!LastPage :
          /\ HasRead(f, k, 0)
          /\ \/ f.prevGp = Page(k).pcm /\ f.prevGp <= a + r.skip
             \/ PlaceOf(k, 1) <= a + r.skip
    BY <1>1 DEF Skips, a
  <1>5. f.op = PacketsOf(k) /\ f.offset = PageEnd(k) /\ f.opPos = 0 /\ f.ready
    BY <1>4 DEF HasRead
  <1>. DEFINE m == Len(Page(k).ends)
              place == a + r.skip
  <1>6. /\ m \in Nat /\ m > 0 /\ Len(f.op) = m /\ a \in Int /\ f.prevGp \in Int
        /\ Page(k).pcm \in Int /\ a <= Page(k).pcm
        /\ Search!LastPage \in Nat /\ Search!PcmEnd \in Int /\ Search!End \in Int
        /\ k = Search!LastPage => Page(k).granulepos = Search!PcmEnd
        /\ k < Search!LastPage => /\ k + 1 \in 1 .. Search!LastPage
                                  /\ Page(k + 1).offset = PageEnd(k) /\ Page(k + 1).pcm = Page(k).granulepos
    BY <1>1, <1>5, PagesAre, PacketsAre DEF OfSet, a
  <1>7. /\ r.goal \in Int /\ r.offset = r.goal - a /\ r.skip \in Nat /\ place \in Int
        /\ place <= r.goal /\ r.goal < Search!PcmEnd
        /\ r.skip = 0 \/ place <= r.goal - PreRoll
    <2>1. /\ r.goal \in Int /\ r.offset = r.goal - a /\ r.skip \in Nat /\ r.target \in Int
          /\ place <= r.target /\ r.target <= r.goal /\ r.goal < Search!PcmEnd
          /\ r.skip = 0 \/ place <= r.goal - PreRoll
      BY <1>3 DEF AskedFor, a
    <2>2. place \in Int BY <1>6, <2>1
    <2>. HIDE DEF place
    <2>. QED  BY <1>6, <2>1, <2>2
  <1>8. \A i \in 1 .. m : f.op[i].granulepos = PlaceOf(k, i) /\ PlaceOf(k, i) \in Int
    <2>. SUFFICES ASSUME NEW i \in 1 .. m PROVE f.op[i].granulepos = PlaceOf(k, i) /\ PlaceOf(k, i) \in Int
      OBVIOUS
    <2>1. f.op[i] = PacketOf(k, i) BY <1>1, <1>5, PacketsAre
    <2>2. PacketOf(k, i).granulepos = PlaceOf(k, i) /\ PlaceOf(k, i) \in Int
      BY <1>1, PlacesAre
    <2>. QED  BY <2>1, <2>2
  <1>9. left = {i \in 1 .. m : PlaceOf(k, i) > place}
    <2>. HIDE DEF m
    <2>1. f.opPos + 1 = 1 /\ Len(f.op) = m BY <1>5, <1>6
    <2>2. \A i \in 1 .. m : f.op[i].granulepos - a > r.skip <=> PlaceOf(k, i) > a + r.skip
      <3>. SUFFICES ASSUME NEW i \in 1 .. m
                    PROVE  f.op[i].granulepos - a > r.skip <=> PlaceOf(k, i) > a + r.skip
        OBVIOUS
      <3>. DEFINE v == PlaceOf(k, i)
                  w == r.skip
      <3>1. f.op[i].granulepos = v /\ v \in Int /\ a \in Int /\ w \in Int
        BY <1>6, <1>7, <1>8
      <3>. HIDE DEF v, w
      <3>2. v - a > w <=> v > a + w BY <3>1
      <3>. QED  BY <3>1, <3>2 DEF v, w
    <2>. QED  BY <2>1, <2>2
  <1>. HIDE DEF left, place
  <1>10. CASE left = {}
    <2>1. m \in 1 .. m /\ n = m /\ prev = PlaceOf(k, m)
      <3>1. m \in 1 .. m /\ n = m /\ n > f.opPos BY <1>5, <1>6, <1>10
      <3>. QED  BY <1>8, <3>1
    <2>2. PlaceOf(k, m) = Page(k).granulepos /\ PlaceOf(k, m) \in Int
      BY <1>1, <2>1, PlacesAre
    <2>3. PlaceOf(k, m) <= place BY <1>7, <1>9, <1>10, <2>1, <2>2
    <2>4. k # Search!LastPage /\ k < Search!LastPage BY <1>6, <1>7, <2>2, <2>3
    <2>. DEFINE l == k + 1
    <2>5. l \in 1 .. Search!LastPage /\ Page(l).offset = PageEnd(k) /\ Page(l).pcm = prev /\ l # 0
      BY <1>6, <2>1, <2>2, <2>4
    <2>. HIDE DEF l
    <2>6. /\ h \in OfSet /\ h.offset = Page(l).offset /\ h.prevGp = Page(l).pcm
          /\ h.ready = f.ready /\ h.buffer = <<>> /\ h.decoded = Search!Nothing
      <3>1. h = [f EXCEPT !.prevGp = prev, !.opPos = n] OBVIOUS
      <3>2. prev \in Int /\ n \in Nat BY <1>6, <2>1, <2>2
      <3>. HIDE DEF h, prev, n
      <3>. QED  BY <1>1, <1>3, <1>5, <2>5, <3>1, <3>2 DEF OfSet
    <2>. HIDE DEF h, prev, n
    <2>7. x.page = l /\ Moved(h, x.of) /\ x.of.offset = PageEnd(l)
      BY <1>1, <1>6, <2>5, <2>6, SearchConstants, NextPageIs
    <2>. DEFINE y == x.of
    <2>8. g = Search!ProcessPage(y, l) /\ pc' = "skip" /\ s' = r /\ goal' = goal /\ rushed' = rushed
      BY <1>1, <1>2, <1>10, <2>5, <2>7
    <2>9. /\ y \in OfSet /\ y.prevGp = Page(l).pcm /\ y.offset = PageEnd(l) /\ y.ready = f.ready
          /\ y.buffer = <<>> /\ y.decoded = Search!Nothing
      BY <2>6, <2>7, MovedKeeps
    <2>. HIDE DEF y, x
    <2>10. /\ g \in OfSet /\ g.op = PacketsOf(l) /\ g.opPos = 0 /\ g.prevGp = Page(l).pcm
           /\ g.offset = PageEnd(l) /\ g.ready
           /\ g.buffer = <<>> /\ g.decoded = Search!Nothing
      BY <1>1, <1>5, <2>5, <2>8, <2>9, PageIsProcessed
    <2>11. HasRead(g, l, 0) BY <2>10 DEF HasRead
    <2>12. g.prevGp <= a + r.skip BY <2>1, <2>3, <2>5, <2>10 DEF place
    <2>13. Skips(g, r) BY <1>3, <2>5, <2>10, <2>11, <2>12 DEF Skips, a
    <2>14. Skips(of, s)' BY <1>1, <2>8, <2>13, SameFile DEF g
    <2>. QED  BY <1>1, <2>8, <2>10, <2>14 DEF SearchInv, g
  <1>11. CASE left # {}
    <2>. DEFINE j == Search!Min(left)
    <2>1. j \in left /\ \A i \in left : j <= i
      <3>1. left \subseteq Nat BY <1>9
      <3>. HIDE DEF j
      <3>. QED  BY <1>11, <3>1, MinIs DEF j
    <2>2. n = j - 1 BY <1>11
    <2>. HIDE DEF j, n
    <2>3. /\ j \in 1 .. m /\ PlaceOf(k, j) > place /\ n \in Nat /\ n \in 0 .. m /\ n < m /\ n + 1 = j
          /\ \A i \in 1 .. n : PlaceOf(k, i) <= place
      <3>1. j \in 1 .. m /\ PlaceOf(k, j) > place BY <1>9, <2>1
      <3>2. n \in Nat /\ n \in 0 .. m /\ n < m /\ n + 1 = j BY <1>6, <2>2, <3>1
      <3>3. ASSUME NEW i \in 1 .. n PROVE PlaceOf(k, i) <= place
        <4>1. i \in 1 .. m /\ ~(j <= i) BY <3>1, <3>2
        <4>2. ~(PlaceOf(k, i) > place) BY <1>9, <2>1, <4>1
        <4>. QED  BY <1>7, <1>8, <4>1, <4>2
      <3>. QED  BY <3>1, <3>2, <3>3
    <2>4. prev = PlaceOf(k, n) /\ prev <= place
      <3>1. CASE n = 0
        <4>1. ~(PlaceOf(k, 1) <= place)
          <5>1. j = 1 BY <2>3, <3>1
          <5>. QED  BY <1>7, <1>8, <2>3, <5>1
        <4>2. f.prevGp = Page(k).pcm /\ f.prevGp <= place
          BY <1>4, <4>1 DEF place
        <4>3. prev = f.prevGp BY <1>5, <3>1
        <4>. QED  BY <3>1, <4>2, <4>3 DEF PlaceOf
      <3>2. CASE n # 0
        <4>1. n \in 1 .. n /\ n \in 1 .. m /\ n > f.opPos
          BY <1>5, <1>6, <2>3, <3>2
        <4>2. prev = f.op[n].granulepos BY <4>1
        <4>. QED  BY <1>8, <2>3, <4>1, <4>2
      <3>. QED  BY <3>1, <3>2
    <2>5. /\ prev \in Int /\ prev = StartOf(k, j) /\ j - 1 = n
      <3>. HIDE DEF m, prev
      <3>1. j - 1 = n BY <2>3
      <3>2. /\ PlaceOf(k, j - 1) \in Int /\ PlaceOf(k, j) \in Int
            /\ PlaceOf(k, j - 1) < PlaceOf(k, j) => PlaceOf(k, j - 1) = StartOf(k, j)
        BY <1>1, <2>3, PlacesAre DEF m
      <3>3. PlaceOf(k, n) < PlaceOf(k, j) BY <1>7, <2>3, <2>4, <3>1, <3>2
      <3>. QED  BY <2>4, <3>1, <3>2, <3>3
    <2>6. a <= prev
      <3>1. CASE j = 1 BY <1>6, <2>5, <3>1 DEF StartOf
      <3>2. CASE j # 1
        <4>1. j - 1 \in 1 .. m BY <2>3, <3>2
        <4>2. Page(k).pcm < Page(k).ends[j - 1] /\ prev = Page(k).ends[j - 1]
          BY <1>1, <2>5, <3>2, <4>1, EndsGrow DEF StartOf
        <4>. QED  BY <1>6, <2>5, <4>2
      <3>. QED  BY <3>1, <3>2
    <2>. DEFINE d == r.offset - (prev - a)
    <2>7. /\ g = [h EXCEPT !.discard = d] /\ goal' = r.goal /\ rushed' = FALSE
          /\ pc' = IF prev - a > r.skip THEN "badlink" ELSE "idle"
      BY <1>2, <1>11
    <2>8. h = [f EXCEPT !.prevGp = prev, !.opPos = n] OBVIOUS
    <2>. HIDE DEF h, prev
    <2>9. d \in Nat /\ d = r.goal - prev BY <1>6, <1>7, <2>4, <2>5
    <2>10. pc' = "idle"
      <3>1. ~(prev - a > r.skip) BY <1>6, <1>7, <2>4, <2>5 DEF place
      <3>. QED  BY <2>7, <3>1
    <2>. HIDE DEF d
    <2>11. /\ g \in OfSet /\ g.op = f.op /\ g.offset = f.offset /\ g.opPos = n /\ g.ready = f.ready
           /\ g.prevGp = prev /\ g.discard = d /\ g.buffer = <<>> /\ g.decoded = Search!Nothing
      <3>1. h \in OfSet BY <1>1, <2>3, <2>5, <2>8 DEF OfSet
      <3>. QED  BY <1>1, <1>3, <2>3, <2>5, <2>7, <2>8, <2>9, <3>1 DEF OfSet
    <2>12. HasRead(g, k, n) BY <1>5, <2>11 DEF HasRead
    <2>13. InPlace(g, k, n)
      <3>1. Len(<<>>) = 0 /\ 1 .. 0 = {} OBVIOUS
      <3>. QED  BY <2>3, <2>4, <2>5, <2>11, <3>1 DEF InPlace
    <2>14. g.prevGp - Len(g.buffer) + g.discard = r.goal
      <3>1. Len(<<>>) = 0 OBVIOUS
      <3>. QED  BY <1>7, <2>5, <2>9, <2>11, <3>1
    <2>15. Settles(g, r.goal)
      <3>1. FirstOf(g) = prev BY <2>11 DEF FirstOf
      <3>2. CASE r.skip = 0
        <4>1. prev = a BY <1>6, <2>4, <2>5, <2>6, <3>2 DEF place
        <4>. QED  BY <3>1, <4>1 DEF Settles, a
      <3>3. CASE place <= r.goal - PreRoll
        <4>1. r.goal - prev >= PreRoll
          BY <1>7, <2>4, <2>5, <3>3, SearchConstants
        <4>. QED  BY <3>1, <4>1 DEF Settles
      <3>. QED  BY <1>7, <3>2, <3>3
    <2>16. Reads(g, r.goal, FALSE) BY <2>3, <2>12, <2>13, <2>14, <2>15 DEF Reads
    <2>17. Reads(of, goal, rushed)' BY <1>1, <2>7, <2>16, SameFile DEF g
    <2>18. goal' \in Int /\ rushed' \in BOOLEAN BY <1>7, <2>7
    <2>. QED  BY <1>1, <2>10, <2>11, <2>17, <2>18 DEF SearchInv, g
  <1>. QED  BY <1>10, <1>11

-----------------------------------------------------------------------------
(* The initial states, and every step of reading and seeking. *)
LEMMA SearchNext ==
  SearchInv /\ [Search!Next]_search => SearchInv' /\ (pc = "scan" /\ s.begin < s.end /\ search' # search => Less(s, s'))
  <1>. SUFFICES ASSUME SearchInv, [Search!Next]_search
                PROVE  SearchInv' /\ (pc = "scan" /\ s.begin < s.end /\ search' # search => Less(s, s'))
    OBVIOUS
  <1>1. ASSUME search' = search PROVE SearchInv'
    <2>1. /\ opus' = opus /\ of' = of /\ pc' = pc /\ s' = s /\ goal' = goal /\ rushed' = rushed
      BY <1>1 DEF search
    <2>2. Reads(of, goal, rushed)' <=> Reads(of, goal, rushed) BY <2>1, SameFile
    <2>3. (Skips(of, s)' <=> Skips(of, s)) /\ (Looks(of, s)' <=> Looks(of, s))
      BY <2>1, SameFile
    <2>4. Narrowed(of, s)' <=> Narrowed(of, s) BY <2>1 DEF Narrowed
    <2>. QED  BY <2>1, <2>2, <2>3, <2>4 DEF SearchInv
  <1>2. CASE Search!Read BY <1>2, ReadKeepsPlace DEF Search!Read
  <1>3. CASE Search!Decode BY <1>3, DecodeKeeps DEF Search!Decode
  <1>4. CASE Search!NextPage BY <1>4, NextPageKeeps DEF Search!NextPage
  <1>5. CASE Search!Give BY <1>5, GiveKeeps DEF Search!Give
  <1>6. CASE Search!PcmSeek BY <1>6, PcmSeekKeeps DEF Search!PcmSeek
  <1>7. CASE Search!Bisect BY <1>7, BisectKeeps DEF Search!Bisect
  <1>8. CASE Search!Scan BY <1>8, ScanKeeps
  <1>9. CASE Search!Found BY <1>9, FoundKeeps DEF Search!Found
  <1>10. CASE Search!Skip BY <1>10, SkipKeeps DEF Search!Skip
  <1>. QED  BY <1>1, <1>2, <1>3, <1>4, <1>5, <1>6, <1>7, <1>8, <1>9, <1>10 DEF Search!Next

(* In every reachable state. *)
LEMMA SearchStepInv ==
  SearchInv /\ [MCNext]_MCvars => SearchInv' /\ (pc = "scan" /\ s.begin < s.end /\ search' # search => Less(s, s'))
  <1>1. [MCNext]_MCvars => [Search!Next]_search
    BY DEF MCNext, PlayerStep, StreamStep, SearchStep, OnlyPlayer, OnlyStream, MCvars
  <1>. QED  BY <1>1, SearchNext

LEMMA AlwaysSearchInv == MCSpec => []SearchInv
  <1>1. MCInit => SearchInv BY SearchInit DEF MCInit
  <1>2. SearchInv /\ [MCNext]_MCvars => SearchInv' BY SearchStepInv
  <1>. QED  BY <1>1, <1>2, PTL DEF MCSpec

(* Every seek to a sample of the file finds it; op_pcm_tell gives between *)
(* two reads the sample that comes next, or the end; and what is read *)
(* begins with it, but for samples given while a discard is left: for any *)
(* pages and packets, any guesses of the search and any seeks. *)
THEOREM SeeksFindTheirPlace == MCSpec => []Exact
  <1>1. SearchInv => Exact
    <2>. SUFFICES ASSUME SearchInv PROVE Exact
      OBVIOUS
    <2>1. pc # "badlink" BY DEF SearchInv
    <2>2. ASSUME pc \in {"idle", "read"}
          PROVE  /\ of.prevGp - Len(of.buffer) + of.discard = goal
                 /\ \A n \in 1 .. Len(of.buffer) : of.buffer[n] = of.prevGp - Len(of.buffer) + n - 1
      <3>1. Reads(of, goal, rushed) BY <2>2 DEF SearchInv
      <3>. QED  BY <3>1 DEF Reads, InPlace
    <2>3. pc = "idle" => Search!PcmTell(of) = Search!Lesser(goal, Search!PcmEnd)
      BY <2>2 DEF Search!PcmTell
    <2>4. ASSUME pc = "read", of.buffer # <<>>, of.discard = 0 PROVE Head(of.buffer) = goal
      <3>1. of.buffer \in Seq(Int) /\ of.prevGp \in Int /\ goal \in Int
        BY DEF SearchInv, OfSet
      <3>. DEFINE l == Len(of.buffer)
      <3>2. 1 \in 1 .. l /\ Head(of.buffer) = of.buffer[1] /\ l \in Nat
        BY <2>4, <3>1
      <3>3. of.buffer[1] = of.prevGp - l + 1 - 1 /\ of.prevGp - l + of.discard = goal
        BY <2>2, <2>4, <3>2
      <3>. HIDE DEF l
      <3>. QED  BY <2>4, <3>1, <3>2, <3>3
    <2>. QED  BY <2>1, <2>3, <2>4 DEF Exact, Search!Exact
  <1>. QED  BY <1>1, AlwaysSearchInv, PTL

(* When a sample is given that was asked for, the decoder has decoded 80 ms*)
(* before it since it was reset, or everything from the beginning on; but *)
(* for a second seek that comes before the samples are read. *)
THEOREM DecoderSettles == MCSpec => []Converged
  <1>1. SearchInv => Converged
    <2>. SUFFICES ASSUME SearchInv, pc = "read", of.buffer # <<>>, of.discard = 0, ~rushed
                  PROVE  \/ of.decoded.from = Search!PcmStart
                         \/ Head(of.buffer) - of.decoded.from >= PreRoll
      BY DEF Converged, Search!Converged
    <2>1. Reads(of, goal, rushed) BY DEF SearchInv
    <2>2. Settles(of, goal) BY <2>1 DEF Reads
    <2>3. of.decoded.from < of.decoded.to BY <2>1 DEF Reads, InPlace
    <2>4. FirstOf(of) = of.decoded.from
      <3>1. of.decoded # Search!Nothing BY <2>3 DEF Search!Nothing
      <3>. QED  BY <3>1 DEF FirstOf
    <2>5. Head(of.buffer) = goal
      <3>1. of.buffer \in Seq(Int) /\ of.prevGp \in Int /\ goal \in Int
        BY DEF SearchInv, OfSet
      <3>. DEFINE l == Len(of.buffer)
      <3>2. 1 \in 1 .. l /\ Head(of.buffer) = of.buffer[1] /\ l \in Nat BY <3>1
      <3>3. of.buffer[1] = of.prevGp - l + 1 - 1 /\ of.prevGp - l + of.discard = goal
        BY <2>1, <3>2 DEF Reads, InPlace
      <3>. HIDE DEF l
      <3>. QED  BY <3>1, <3>2, <3>3
    <2>. QED  BY <2>2, <2>4, <2>5 DEF Settles
  <1>. QED  BY <1>1, AlwaysSearchInv, PTL

(* Every round of a search leaves less to search, so that no file and no *)
(* sequence of guesses makes a search go on for ever. *)
THEOREM SearchNarrows == MCSpec => Narrows
  <1>. DEFINE A == pc = "scan" /\ s.begin < s.end =>
                     \/ s'.end - s'.begin < s.end - s.begin
                     \/ s'.end - s'.begin = s.end - s.begin /\ s'.bisect < s.bisect /\ pc' = "scan"
  <1>1. SearchInv /\ [MCNext]_MCvars => [A]_search BY SearchStepInv DEF Less
  <1>2. MCSpec => [][A]_search BY <1>1, AlwaysSearchInv, PTL DEF MCSpec
  <1>3. Narrows <=> [][A]_search
    BY DEF Narrows, Search!Narrows, search, Search!ovars
  <1>. QED  BY <1>2, <1>3, PTL

-----------------------------------------------------------------------------
(***************************************************************************)
(* The container.  What the bytes say is hidden in sequences: a recording *)
(* is a row of segments, each named by its packet and its place in it, and *)
(* the invariant names those that every part of the stream holds: F on the *)
(* pages, W with the writer, R with the reader.  F and W are the whole row,*)
(* without a gap; R may have a gap, where there is a hole; and what came *)
(* out is whole packets, each followed by the next one, by a hole, or by *)
(* what R begins with. *)
(***************************************************************************)

(* The sum of the first i values. *)
UpTo(V, i) == Stream!Total(SubSeq(V, 1, i))

(* The b-th byte of a segment of v bytes after p others, of l. *)
LEMMA ByteAt ==
  ASSUME NEW e \in Nat, NEW p \in Nat, NEW v \in Nat, NEW l \in Nat, p + v <= l, NEW b \in 1 .. v
  PROVE  p + b \in 1 .. l /\ e + (p + b) = (e + p) + b
  OBVIOUS

(* Each sum is the one before and a value. *)
LEMMA SumsUp ==
  ASSUME NEW V \in Seq(Nat)
  PROVE  /\ UpTo(V, 0) = 0 /\ \A i \in 1 .. Len(V) : UpTo(V, i) = UpTo(V, i - 1) + V[i]
         /\ \A i \in 0 .. Len(V) : UpTo(V, i) \in Nat
         /\ Stream!Total(V) = UpTo(V, Len(V))
  <1>0. Len(V) \in Nat OBVIOUS
  <1>1. PICK f : Summing(V, Len(V), f) BY <1>0, SummingExists
  <1>2. \A i \in 0 .. Len(V) : UpTo(V, i) = f[i]
    <2> TAKE i \in 0 .. Len(V)
    <2> DEFINE W == SubSeq(V, 1, i)
               g == CHOOSE g : Summing(W, i, g)
    <2>1. W \in Seq(Nat) /\ Len(W) = i /\ \A j \in 1 .. i : W[j] = V[j] BY CutAt
    <2> HIDE DEF W
    <2>2. Stream!Total(W) = g[i] BY <2>1 DEF Stream!Total, Summing
    <2>3. Summing(W, i, g)
      <3>1. i \in Nat BY <1>0
      <3>2. \E h : Summing(W, i, h) BY <3>1, SummingExists
      <3>. QED  BY <3>2
    <2> HIDE DEF g
    <2>4. g[i] = f[i] BY <2>1, <2>3, <1>1, SummingAgrees
    <2>. QED  BY <2>2, <2>4 DEF UpTo, W
  <1>3. /\ f[0] = 0 /\ \A i \in 1 .. Len(V) : f[i] = f[i - 1] + V[i]
        /\ \A i \in 0 .. Len(V) : f[i] \in Nat
    BY <1>1, SummingIs
  <1>4. SubSeq(V, 1, Len(V)) = V BY SubSeqFull
  <1>5. Stream!Total(V) = UpTo(V, Len(V)) BY <1>4 DEF UpTo
  <1>6. UpTo(V, 0) = 0 /\ \A i \in 0 .. Len(V) : UpTo(V, i) \in Nat
    <2>1. 0 \in 0 .. Len(V) BY <1>0
    <2>2. UpTo(V, 0) = f[0] BY <2>1, <1>2
    <2>3. \A i \in 0 .. Len(V) : UpTo(V, i) = f[i] BY <1>2
    <2>. QED  BY <2>2, <2>3, <1>3
  <1>7. ASSUME NEW i \in 1 .. Len(V) PROVE UpTo(V, i) = UpTo(V, i - 1) + V[i]
    <2>1. i \in 0 .. Len(V) /\ i - 1 \in 0 .. Len(V) BY <1>0
    <2>. QED  BY <2>1, <1>2, <1>3
  <1>. QED  BY <1>5, <1>6, <1>7

(* The sums of a part of a sequence, and that they grow. *)
LEMMA SumsShift ==
  ASSUME NEW V \in Seq(Nat), NEW W \in Seq(Nat), NEW d \in Nat, d + Len(W) <= Len(V),
         \A i \in 1 .. Len(W) : W[i] = V[d + i]
  PROVE  \A i \in 0 .. Len(W) : UpTo(V, d + i) = UpTo(V, d) + UpTo(W, i)
  <1>1. /\ UpTo(V, 0) = 0 /\ \A i \in 1 .. Len(V) : UpTo(V, i) = UpTo(V, i - 1) + V[i]
        /\ \A i \in 0 .. Len(V) : UpTo(V, i) \in Nat
    BY SumsUp
  <1>2. /\ UpTo(W, 0) = 0 /\ \A i \in 1 .. Len(W) : UpTo(W, i) = UpTo(W, i - 1) + W[i]
        /\ \A i \in 0 .. Len(W) : UpTo(W, i) \in Nat
    BY SumsUp
  <1>3. Len(W) \in Nat /\ Len(V) \in Nat /\ \A i \in 1 .. Len(W) : W[i] \in Nat
    OBVIOUS
  <1> DEFINE Bad == {k \in Nat : k <= Len(W) /\ UpTo(V, d + k) # UpTo(V, d) + UpTo(W, k)}
  <1>4. Bad = {}
    <2> SUFFICES ASSUME Bad # {} PROVE FALSE
      OBVIOUS
    <2>1. PICK m \in Bad : \A k \in Bad : m <= k BY LeastOf
    <2>2. m \in 0 .. Len(W) /\ UpTo(V, d + m) # UpTo(V, d) + UpTo(W, m) OBVIOUS
    <2>3. m # 0
      <3>1. UpTo(V, d) \in Nat /\ d + 0 = d BY <1>1, <1>3
      <3>2. UpTo(V, d + 0) = UpTo(V, d) + UpTo(W, 0) BY <3>1, <1>2
      <3>. QED  BY <2>2, <3>2
    <2>4. m - 1 \in 0 .. Len(W) /\ m - 1 \notin Bad BY <2>1, <2>2, <2>3, SMTT(60)
    <2>5. UpTo(V, d + (m - 1)) = UpTo(V, d) + UpTo(W, m - 1) BY <2>4
    <2> HIDE DEF Bad
    <2>6. m \in 1 .. Len(W) /\ d + m \in 1 .. Len(V) /\ (d + m) - 1 = d + (m - 1)
      BY <2>2, <2>3, <1>3
    <2>7. /\ UpTo(V, d + m) = UpTo(V, d + (m - 1)) + W[m]
          /\ UpTo(W, m) = UpTo(W, m - 1) + W[m]
      BY <2>6, <1>1, <1>2
    <2>8. UpTo(V, d) \in Nat /\ UpTo(W, m - 1) \in Nat /\ W[m] \in Nat
      <3>1. d \in 0 .. Len(V) /\ m - 1 \in 0 .. Len(W) BY <2>2, <2>6, <1>3
      <3>. QED  BY <3>1, <2>6, <1>1, <1>2, <1>3
    <2>. QED  BY <2>2, <2>5, <2>7, <2>8
  <1>5. \A k \in 0 .. Len(W) : k \in Nat /\ k <= Len(W) BY <1>3
  <1>. QED  BY <1>4, <1>5

(* The sums of the first of the values. *)
LEMMA SumsBegin ==
  ASSUME NEW V \in Seq(Nat), NEW W \in Seq(Nat), Len(W) <= Len(V), \A i \in 1 .. Len(W) : W[i] = V[i]
  PROVE  \A i \in 0 .. Len(W) : UpTo(V, i) = UpTo(W, i) /\ UpTo(W, i) \in Nat
  <1>1. Len(W) \in Nat /\ Len(V) \in Nat OBVIOUS
  <1>2. 0 + Len(W) <= Len(V) /\ \A i \in 1 .. Len(W) : W[i] = V[0 + i] BY <1>1
  <1>3. \A i \in 0 .. Len(W) : UpTo(V, 0 + i) = UpTo(V, 0) + UpTo(W, i)
    BY <1>2, SumsShift
  <1>4. UpTo(V, 0) = 0 /\ \A i \in 0 .. Len(W) : UpTo(W, i) \in Nat BY SumsUp
  <1>. QED  BY <1>1, <1>3, <1>4

(* More values have no smaller sum. *)
LEMMA SumsGrow ==
  ASSUME NEW V \in Seq(Nat), NEW i \in 0 .. Len(V), NEW j \in i .. Len(V)
  PROVE  UpTo(V, i) <= UpTo(V, j)
  <1> DEFINE W == SubSeq(V, i + 1, Len(V))
  <1>1. W \in Seq(Nat) /\ Len(W) = Len(V) - i /\ \A k \in 1 .. Len(W) : W[k] = V[i + k]
    BY CutAt, SMTT(60)
  <1> HIDE DEF W
  <1>2. Len(V) \in Nat /\ j - i \in 0 .. Len(W) /\ i + Len(W) <= Len(V) /\ i + (j - i) = j
    BY <1>1
  <1>3. UpTo(V, j) = UpTo(V, i) + UpTo(W, j - i)
    <2>1. \A k \in 0 .. Len(W) : UpTo(V, i + k) = UpTo(V, i) + UpTo(W, k)
      <3>1. i \in Nat BY <1>2
      <3>. QED  BY <3>1, <1>1, <1>2, SumsShift
    <2>. QED  BY <2>1, <1>2
  <1>4. UpTo(W, j - i) \in Nat /\ UpTo(V, i) \in Nat BY <1>1, <1>2, SumsUp
  <1>. QED  BY <1>3, <1>4

(* A segment is named by the packet it is of and its place in it, and so is*)
(* a byte. *)
Pairs == Nat \X Nat

(* The bytes B are those of the segments T, which have the lacing values V.*)
Spelt(T, V, B) ==
    /\ T \in Seq(Pairs) /\ V \in Seq(Nat) /\ B \in Seq(Pairs)
    /\ Len(T) = Len(V) /\ Len(B) = UpTo(V, Len(V))
    /\ \A i \in 1 .. Len(V) : \A b \in 1 .. V[i] :
          B[UpTo(V, i - 1) + b] = <<T[i][1], T[i][2] * SegmentSize + b>>

(* So are those of the first n segments, and those of the others. *)
LEMMA SpeltInTwo ==
  ASSUME NEW T, NEW V, NEW B, Spelt(T, V, B), NEW n \in 0 .. Len(V)
  PROVE  /\ UpTo(V, n) \in 0 .. Len(B)
         /\ Spelt(SubSeq(T, 1, n), SubSeq(V, 1, n), SubSeq(B, 1, UpTo(V, n)))
         /\ Spelt(SubSeq(T, n + 1, Len(T)), SubSeq(V, n + 1, Len(V)),
                  SubSeq(B, UpTo(V, n) + 1, Len(B)))
  <1> DEFINE e == UpTo(V, n)
             T1 == SubSeq(T, 1, n)
             V1 == SubSeq(V, 1, n)
             B1 == SubSeq(B, 1, e)
             T2 == SubSeq(T, n + 1, Len(T))
             V2 == SubSeq(V, n + 1, Len(V))
             B2 == SubSeq(B, e + 1, Len(B))
  <1>1. /\ T \in Seq(Pairs) /\ V \in Seq(Nat) /\ B \in Seq(Pairs)
        /\ Len(T) = Len(V) /\ Len(B) = UpTo(V, Len(V))
        /\ Len(V) \in Nat /\ Len(B) \in Nat /\ \A i \in 1 .. Len(V) : V[i] \in Nat
    BY DEF Spelt
  <1>2. e \in 0 .. Len(B)
    <2>1. e \in Nat /\ Len(V) \in n .. Len(V) BY <1>1, SumsUp
    <2>2. e <= Len(B) BY <1>1, <2>1, SumsGrow
    <2>. QED  BY <2>1, <2>2, <1>1
  <1>3. /\ V1 \in Seq(Nat) /\ Len(V1) = n /\ \A i \in 1 .. n : V1[i] = V[i]
        /\ V2 \in Seq(Nat) /\ Len(V2) = Len(V) - n /\ \A i \in 1 .. Len(V) - n : V2[i] = V[n + i]
    BY <1>1, CutAt, SMTT(60)
  <1>4. /\ T1 \in Seq(Pairs) /\ Len(T1) = n /\ \A i \in 1 .. n : T1[i] = T[i]
        /\ T2 \in Seq(Pairs) /\ Len(T2) = Len(T) - n /\ \A i \in 1 .. Len(T) - n : T2[i] = T[n + i]
    BY <1>1, CutAt
  <1>5. /\ B1 \in Seq(Pairs) /\ Len(B1) = e /\ \A i \in 1 .. e : B1[i] = B[i]
        /\ B2 \in Seq(Pairs) /\ Len(B2) = Len(B) - e /\ \A i \in 1 .. Len(B) - e : B2[i] = B[e + i]
    BY <1>1, <1>2, CutAt, ZenonT(90)
  <1> HIDE DEF T1, V1, B1, T2, V2, B2, e
  <1>6. \A i \in 0 .. n : UpTo(V, i) = UpTo(V1, i) /\ UpTo(V1, i) \in Nat
    <2>1. Len(V1) <= Len(V) /\ \A i \in 1 .. Len(V1) : V1[i] = V[i]
      BY <1>1, <1>3
    <2>. QED  BY <2>1, <1>1, <1>3, SumsBegin
  <1>7. \A i \in 0 .. Len(V2) : UpTo(V, n + i) = e + UpTo(V2, i)
    <2>1. n \in Nat /\ n + Len(V2) <= Len(V) /\ \A i \in 1 .. Len(V2) : V2[i] = V[n + i]
      BY <1>1, <1>3
    <2>. QED  BY <2>1, <1>1, <1>3, SumsShift DEF e
  <1>8. \A i \in 1 .. Len(V) : \A b \in 1 .. V[i] :
           /\ B[UpTo(V, i - 1) + b] = <<T[i][1], T[i][2] * SegmentSize + b>>
           /\ UpTo(V, i - 1) \in Nat /\ UpTo(V, i) = UpTo(V, i - 1) + V[i]
    BY <1>1, SumsUp DEF Spelt
  <1>9. Spelt(T1, V1, B1)
    <2>1. Len(B1) = UpTo(V1, Len(V1)) BY <1>3, <1>5, <1>6, <1>1 DEF e
    <2>2. ASSUME NEW i \in 1 .. n, NEW b \in 1 .. V1[i]
          PROVE  B1[UpTo(V1, i - 1) + b] = <<T1[i][1], T1[i][2] * SegmentSize + b>>
      <3>1. i \in 1 .. Len(V) /\ i - 1 \in 0 .. n /\ V1[i] = V[i] /\ T1[i] = T[i] /\ b \in 1 .. V[i]
        BY <1>1, <1>3, <1>4
      <3>2. /\ B[UpTo(V, i - 1) + b] = <<T[i][1], T[i][2] * SegmentSize + b>>
            /\ UpTo(V, i - 1) \in Nat /\ UpTo(V, i) = UpTo(V, i - 1) + V[i]
        BY <3>1, <1>8
      <3>3. UpTo(V, i) <= e
        <4>1. i \in 0 .. Len(V) /\ n \in i .. Len(V) BY <3>1, <1>1
        <4>. QED  BY <4>1, <1>1, SumsGrow DEF e
      <3>4. UpTo(V, i - 1) + b \in 1 .. e BY <3>1, <3>2, <3>3, <1>1, <1>2
      <3>. QED  BY <3>1, <3>2, <3>4, <1>5, <1>6
    <2>. QED  BY <2>1, <2>2, <1>3, <1>4, <1>5 DEF Spelt
  <1>10. Spelt(T2, V2, B2)
    <2>1. Len(B2) = UpTo(V2, Len(V2))
      <3>1. n + Len(V2) = Len(V) /\ Len(V2) \in 0 .. Len(V2) /\ UpTo(V2, Len(V2)) \in Nat
        BY <1>1, <1>3, SumsUp
      <3>2. UpTo(V, n + Len(V2)) = e + UpTo(V2, Len(V2)) BY <3>1, <1>7
      <3> DEFINE l == UpTo(V2, Len(V2))
      <3>3. Len(B) = e + l /\ l \in Nat BY <3>1, <3>2, <1>1
      <3> HIDE DEF l
      <3>4. Len(B2) = l BY <3>3, <1>1, <1>2, <1>5
      <3>. QED  BY <3>4 DEF l
    <2>2. ASSUME NEW i \in 1 .. Len(V2), NEW b \in 1 .. V2[i]
          PROVE  B2[UpTo(V2, i - 1) + b] = <<T2[i][1], T2[i][2] * SegmentSize + b>>
      <3>1. /\ n + i \in 1 .. Len(V) /\ i - 1 \in 0 .. Len(V2) /\ (n + i) - 1 = n + (i - 1)
            /\ V2[i] = V[n + i] /\ T2[i] = T[n + i] /\ b \in 1 .. V[n + i] /\ V[n + i] \in Nat
        <4>1. n \in Nat /\ i \in 1 .. Len(V) - n /\ Len(V2) = Len(V) - n
          BY <1>1, <1>3
        <4>2. V2[i] = V[n + i] /\ T2[i] = T[n + i] BY <4>1, <1>1, <1>3, <1>4
        <4>3. n + i \in 1 .. Len(V) /\ i - 1 \in 0 .. Len(V2) /\ (n + i) - 1 = n + (i - 1)
          BY <4>1, <1>1
        <4>. QED  BY <4>2, <4>3, <1>1
      <3>2. /\ B[UpTo(V, n + (i - 1)) + b] = <<T[n + i][1], T[n + i][2] * SegmentSize + b>>
            /\ UpTo(V, n + (i - 1)) \in Nat /\ UpTo(V, n + i) = UpTo(V, n + (i - 1)) + V[n + i]
        BY <3>1, <1>8
      <3>3. UpTo(V, n + i) <= Len(B)
        <4>1. n + i \in 0 .. Len(V) /\ Len(V) \in n + i .. Len(V) BY <3>1, <1>1
        <4>. QED  BY <4>1, <1>1, SumsGrow
      <3>4. UpTo(V, n + (i - 1)) = e + UpTo(V2, i - 1) /\ UpTo(V2, i - 1) \in Nat
        BY <3>1, <1>3, <1>7, SumsUp
      <3>5. /\ UpTo(V2, i - 1) + b \in 1 .. Len(B) - e
            /\ e + (UpTo(V2, i - 1) + b) = UpTo(V, n + (i - 1)) + b
        <4> DEFINE p == UpTo(V2, i - 1)
                   v == V[n + i]
                   l == Len(B) - e
        <4>1. e \in Nat /\ p \in Nat /\ v \in Nat /\ l \in Nat /\ b \in 1 .. v
          BY <3>1, <3>4, <1>1, <1>2
        <4>2. UpTo(V, n + (i - 1)) = e + p /\ (e + p) + v <= Len(B)
          BY <3>2, <3>3, <3>4
        <4> HIDE DEF p, v
        <4>3. p + v <= l BY <4>1, <4>2, <1>1
        <4> HIDE DEF l
        <4>4. p + b \in 1 .. l /\ e + (p + b) = (e + p) + b
          BY <4>1, <4>3, ByteAt
        <4>. QED  BY <4>2, <4>4 DEF p, l
      <3>. QED  BY <3>1, <3>2, <3>5, <1>5
    <2>. QED  BY <2>1, <2>2, <1>1, <1>3, <1>4, <1>5 DEF Spelt
  <1>. QED  BY <1>2, <1>9, <1>10 DEF T1, V1, B1, T2, V2, B2, e

(* Segments, or bytes, one after the other. *)
LEMMA PairsJoined ==
  ASSUME NEW V, V \in Seq(Pairs), NEW W, W \in Seq(Pairs)
  PROVE  /\ V \o W \in Seq(Pairs) /\ Len(V \o W) = Len(V) + Len(W)
         /\ \A i \in 1 .. Len(V) : (V \o W)[i] = V[i]
         /\ \A i \in 1 .. Len(W) : (V \o W)[Len(V) + i] = W[i]
  <1>1. V \o W \in Seq(Pairs) /\ Len(V \o W) = Len(V) + Len(W) OBVIOUS
  <1>2. \A i \in 1 .. Len(V) : (V \o W)[i] = V[i] OBVIOUS
  <1>3. \A i \in 1 .. Len(W) : (V \o W)[Len(V) + i] = W[i] OBVIOUS
  <1>. QED  BY <1>1, <1>2, <1>3

(* And those of two runs of segments, one after the other. *)
LEMMA SpeltTogether ==
  ASSUME NEW T1, NEW V1, NEW B1, Spelt(T1, V1, B1), NEW T2, NEW V2, NEW B2, Spelt(T2, V2, B2)
  PROVE  Spelt(T1 \o T2, V1 \o V2, B1 \o B2)
  <1> DEFINE T == T1 \o T2
             V == V1 \o V2
             B == B1 \o B2
             n == Len(V1)
             e == Len(B1)
  <1>1. /\ T1 \in Seq(Pairs) /\ V1 \in Seq(Nat) /\ B1 \in Seq(Pairs)
        /\ Len(T1) = n /\ e = UpTo(V1, n) /\ n \in Nat /\ e \in Nat
        /\ \A i \in 1 .. n : V1[i] \in Nat
    BY DEF Spelt
  <1>2. /\ T2 \in Seq(Pairs) /\ V2 \in Seq(Nat) /\ B2 \in Seq(Pairs)
        /\ Len(T2) = Len(V2) /\ Len(B2) = UpTo(V2, Len(V2)) /\ Len(V2) \in Nat /\ Len(B2) \in Nat
        /\ \A i \in 1 .. Len(V2) : V2[i] \in Nat
    BY DEF Spelt
  <1>3. /\ V \in Seq(Nat) /\ Len(V) = n + Len(V2)
        /\ (\A i \in 1 .. n : V[i] = V1[i]) /\ \A i \in 1 .. Len(V2) : V[n + i] = V2[i]
    BY <1>1, <1>2
  <1>4. /\ T \in Seq(Pairs) /\ Len(T) = n + Len(V2)
        /\ (\A i \in 1 .. n : T[i] = T1[i]) /\ \A i \in 1 .. Len(V2) : T[n + i] = T2[i]
    <2>1. /\ T \in Seq(Pairs) /\ Len(T) = Len(T1) + Len(T2)
          /\ (\A i \in 1 .. Len(T1) : T[i] = T1[i]) /\ \A i \in 1 .. Len(T2) : T[Len(T1) + i] = T2[i]
      <3>1. T1 \in Seq(Pairs) /\ T2 \in Seq(Pairs) BY <1>1, <1>2
      <3>. QED  BY <3>1, PairsJoined
    <2> HIDE DEF T
    <2>. QED  BY <2>1, <1>1, <1>2
  <1>5. /\ B \in Seq(Pairs) /\ Len(B) = e + Len(B2)
        /\ (\A i \in 1 .. e : B[i] = B1[i]) /\ \A i \in 1 .. Len(B2) : B[e + i] = B2[i]
    <2>1. /\ B \in Seq(Pairs) /\ Len(B) = Len(B1) + Len(B2)
          /\ (\A i \in 1 .. Len(B1) : B[i] = B1[i]) /\ \A i \in 1 .. Len(B2) : B[Len(B1) + i] = B2[i]
      <3>1. B1 \in Seq(Pairs) /\ B2 \in Seq(Pairs) BY <1>1, <1>2
      <3>. QED  BY <3>1, PairsJoined
    <2> HIDE DEF B
    <2>. QED  BY <2>1
  <1> HIDE DEF T, V, B, n, e
  <1>6. \A i \in 0 .. n : UpTo(V, i) = UpTo(V1, i) /\ UpTo(V1, i) \in Nat
    <2>1. Len(V1) <= Len(V) /\ \A i \in 1 .. Len(V1) : V1[i] = V[i]
      BY <1>1, <1>2, <1>3 DEF n
    <2>2. \A i \in 0 .. Len(V1) : UpTo(V, i) = UpTo(V1, i) /\ UpTo(V1, i) \in Nat
      BY <2>1, <1>1, <1>3, SumsBegin
    <2>. QED  BY <2>2 DEF n
  <1>7. \A i \in 0 .. Len(V2) : UpTo(V, n + i) = e + UpTo(V2, i) /\ UpTo(V2, i) \in Nat
    <2>1. \A i \in 0 .. Len(V2) : UpTo(V, n + i) = UpTo(V, n) + UpTo(V2, i)
      <3>1. n + Len(V2) <= Len(V) /\ \A i \in 1 .. Len(V2) : V2[i] = V[n + i]
        BY <1>1, <1>2, <1>3
      <3>. QED  BY <3>1, <1>1, <1>2, <1>3, SumsShift
    <2>2. UpTo(V, n) = e BY <1>1, <1>6
    <2>. QED  BY <2>1, <2>2, <1>2, SumsUp
  <1>8. Len(B) = UpTo(V, Len(V))
    <2>1. Len(V2) \in 0 .. Len(V2) BY <1>2
    <2>2. UpTo(V, n + Len(V2)) = e + UpTo(V2, Len(V2)) BY <2>1, <1>7
    <2>. QED  BY <2>2, <1>2, <1>3, <1>5
  <1>9. ASSUME NEW i \in 1 .. Len(V), NEW b \in 1 .. V[i]
        PROVE  B[UpTo(V, i - 1) + b] = <<T[i][1], T[i][2] * SegmentSize + b>>
    <2>1. CASE i <= n
      <3>1. i \in 1 .. n /\ i - 1 \in 0 .. n /\ V[i] = V1[i] /\ T[i] = T1[i] /\ b \in 1 .. V1[i]
        BY <2>1, <1>1, <1>3, <1>4
      <3>2. B1[UpTo(V1, i - 1) + b] = <<T1[i][1], T1[i][2] * SegmentSize + b>>
        BY <3>1 DEF Spelt, n
      <3>3. UpTo(V1, i) <= e /\ UpTo(V1, i) = UpTo(V1, i - 1) + V1[i]
        <4>1. i \in 0 .. Len(V1) /\ n \in i .. Len(V1) /\ i \in 1 .. Len(V1)
          BY <3>1, <1>1 DEF n
        <4>. QED  BY <4>1, <1>1, SumsGrow, SumsUp
      <3>4. UpTo(V1, i - 1) + b \in 1 .. e
        <4>1. UpTo(V1, i - 1) \in Nat /\ V1[i] \in Nat BY <3>1, <1>1, <1>6
        <4>. QED  BY <4>1, <3>1, <3>3, <1>1, SMTT(60)
      <3>. QED  BY <3>1, <3>2, <3>4, <1>5, <1>6
    <2>2. CASE i > n
      <3> DEFINE k == i - n
      <3>1. /\ k \in 1 .. Len(V2) /\ i = n + k /\ i - 1 = n + (k - 1) /\ k - 1 \in 0 .. Len(V2)
        BY <2>2, <1>1, <1>2, <1>3
      <3> HIDE DEF k
      <3>2. V[i] = V2[k] /\ T[i] = T2[k] /\ b \in 1 .. V2[k] /\ V2[k] \in Nat
        BY <3>1, <1>2, <1>3, <1>4
      <3>3. B2[UpTo(V2, k - 1) + b] = <<T2[k][1], T2[k][2] * SegmentSize + b>>
        BY <3>1, <3>2 DEF Spelt
      <3>4. UpTo(V2, k) <= Len(B2) /\ UpTo(V2, k) = UpTo(V2, k - 1) + V2[k]
        <4>1. k \in 0 .. Len(V2) /\ Len(V2) \in k .. Len(V2) BY <3>1, <1>2
        <4>. QED  BY <4>1, <3>1, <1>2, SumsGrow, SumsUp, SMTT(60)
      <3>5. UpTo(V, i - 1) = e + UpTo(V2, k - 1) /\ UpTo(V2, k - 1) \in Nat
        BY <3>1, <1>7
      <3>6. UpTo(V2, k - 1) + b \in 1 .. Len(B2) /\ UpTo(V, i - 1) + b = e + (UpTo(V2, k - 1) + b)
        <4> DEFINE p == UpTo(V2, k - 1)
                   v == V2[k]
                   l == Len(B2)
        <4>1. e \in Nat /\ p \in Nat /\ v \in Nat /\ l \in Nat /\ b \in 1 .. v /\ p + v <= l
          BY <3>2, <3>4, <3>5, <1>1, <1>2
        <4> HIDE DEF p, v, l
        <4>2. p + b \in 1 .. l /\ e + (p + b) = (e + p) + b BY <4>1, ByteAt
        <4>. QED  BY <4>2, <3>5 DEF p, l
      <3>. QED  BY <3>2, <3>3, <3>6, <1>5
    <2>. QED  BY <2>1, <2>2, <1>1, <1>3
  <1>. QED  BY <1>2, <1>3, <1>4, <1>5, <1>8, <1>9 DEF Spelt, T, V, B

(* A segment is named by the packet it is of and its place in it; q has the*)
(* sizes of the packets. *)
FullOnes(q, k)  == q[k + 1] \div SegmentSize
OneOf(q, t)     == t \in Pairs /\ t[1] < Len(q) /\ t[2] <= FullOnes(q, t[1])
IsEnd(q, t)     == t[2] = FullOnes(q, t[1])
ValueOf(q, t)   == IF IsEnd(q, t) THEN q[t[1] + 1] % SegmentSize ELSE SegmentSize
FollowerOf(q, t) == IF IsEnd(q, t) THEN <<t[1] + 1, 0>> ELSE <<t[1], t[2] + 1>>
IsLast(q, t)    == t[1] = Len(q) - 1 /\ IsEnd(q, t)

(* The sizes of the packets submitted. *)
Sizes(q) == q \in Seq(Nat \ {0})

(* A size is its full segments and a rest. *)
LEMMA Divided ==
  ASSUME NEW a \in Nat
  PROVE  /\ SegmentSize \in Nat /\ SegmentSize > 0
         /\ a \div SegmentSize \in Nat /\ a % SegmentSize \in Nat
         /\ a % SegmentSize < SegmentSize
         /\ a = ((a \div SegmentSize) * SegmentSize) + (a % SegmentSize)
  <1>1. SegmentSize \in Nat /\ SegmentSize > 0
    BY StreamAssumption DEF Stream!OggAssumption
  <1>2. a \div SegmentSize \in Nat /\ a % SegmentSize \in Nat /\ a % SegmentSize < SegmentSize
    BY <1>1
  <1>3. a = ((a \div SegmentSize) * SegmentSize) + (a % SegmentSize) BY <1>1
  <1>. QED  BY <1>1, <1>2, <1>3

(* The numbers of a segment; its value ends a packet when it is the last of*)
(* it; the one that follows. *)
LEMMA Segments ==
  ASSUME NEW q, Sizes(q), NEW t, OneOf(q, t)
  PROVE  /\ t[1] \in Nat /\ t[2] \in Nat /\ t = <<t[1], t[2]>>
         /\ q[t[1] + 1] \in Nat \ {0}
         /\ FullOnes(q, t[1]) \in Nat /\ ValueOf(q, t) \in Nat
         /\ Stream!Ends(ValueOf(q, t)) <=> IsEnd(q, t)
         /\ FollowerOf(q, t) \in Pairs /\ FollowerOf(q, t) # <<0, 0>>
         /\ ~IsEnd(q, t) => OneOf(q, FollowerOf(q, t)) /\ FollowerOf(q, t) = <<t[1], t[2] + 1>>
         /\ IsEnd(q, t) => FollowerOf(q, t) = <<t[1] + 1, 0>>
         /\ OneOf(q, FollowerOf(q, t)) => ~IsLast(q, t)
  <1>1. t[1] \in Nat /\ t[2] \in Nat /\ t = <<t[1], t[2]>> /\ t[1] < Len(q) /\ t[2] <= FullOnes(q, t[1])
    BY DEF OneOf, Pairs
  <1>2. Len(q) \in Nat /\ q[t[1] + 1] \in Nat \ {0} BY <1>1 DEF Sizes
  <1>3. /\ SegmentSize \in Nat /\ SegmentSize > 0
        /\ FullOnes(q, t[1]) \in Nat /\ q[t[1] + 1] % SegmentSize \in Nat
        /\ q[t[1] + 1] % SegmentSize < SegmentSize
    BY <1>2, Divided DEF FullOnes
  <1>4. ValueOf(q, t) \in Nat /\ (Stream!Ends(ValueOf(q, t)) <=> IsEnd(q, t))
    BY <1>3 DEF ValueOf, Stream!Ends
  <1>5. CASE IsEnd(q, t)
    <2>1. FollowerOf(q, t) = <<t[1] + 1, 0>> BY <1>5 DEF FollowerOf
    <2>2. OneOf(q, FollowerOf(q, t)) => t[1] + 1 < Len(q) BY <2>1 DEF OneOf
    <2>3. FollowerOf(q, t) \in Pairs /\ FollowerOf(q, t) # <<0, 0>>
      BY <2>1, <1>1 DEF Pairs
    <2>4. OneOf(q, FollowerOf(q, t)) => ~IsLast(q, t)
      BY <2>2, <1>1, <1>2 DEF IsLast
    <2>. QED  BY <2>1, <2>3, <2>4, <1>1, <1>2, <1>3, <1>4, <1>5
  <1>6. CASE ~IsEnd(q, t)
    <2>1. FollowerOf(q, t) = <<t[1], t[2] + 1>> BY <1>6 DEF FollowerOf
    <2>2. FollowerOf(q, t) \in Pairs /\ FollowerOf(q, t) # <<0, 0>>
      BY <2>1, <1>1 DEF Pairs
    <2>3. t[2] + 1 <= FullOnes(q, t[1]) BY <1>1, <1>3, <1>6 DEF IsEnd
    <2>4. OneOf(q, FollowerOf(q, t)) BY <2>1, <2>2, <2>3, <1>1 DEF OneOf
    <2>5. ~IsLast(q, t) BY <1>6 DEF IsLast
    <2>. QED  BY <2>1, <2>2, <2>4, <2>5, <1>1, <1>2, <1>3, <1>4, <1>6
  <1>. QED  BY <1>5, <1>6

(* One more packet changes nothing for those before it. *)
LEMMA SegmentsStay ==
  ASSUME NEW q, Sizes(q), NEW size \in Nat \ {0}
  PROVE  /\ Sizes(Append(q, size)) /\ Len(Append(q, size)) = Len(q) + 1
         /\ \A k \in 0 .. Len(q) - 1 : Append(q, size)[k + 1] = q[k + 1]
         /\ Append(q, size)[Len(q) + 1] = size
         /\ \A t : OneOf(q, t) =>
              /\ OneOf(Append(q, size), t) /\ ~IsLast(Append(q, size), t)
              /\ FullOnes(Append(q, size), t[1]) = FullOnes(q, t[1])
              /\ IsEnd(Append(q, size), t) = IsEnd(q, t)
              /\ ValueOf(Append(q, size), t) = ValueOf(q, t)
              /\ FollowerOf(Append(q, size), t) = FollowerOf(q, t)
  <1> DEFINE p == Append(q, size)
  <1>1. /\ Len(q) \in Nat /\ Sizes(p) /\ Len(p) = Len(q) + 1
        /\ (\A i \in 1 .. Len(q) : p[i] = q[i]) /\ p[Len(q) + 1] = size
    BY DEF Sizes
  <1> HIDE DEF p
  <1>2. ASSUME NEW k \in 0 .. Len(q) - 1 PROVE p[k + 1] = q[k + 1]
    <2>1. k + 1 \in 1 .. Len(q) BY <1>1
    <2>. QED  BY <2>1, <1>1
  <1>3. ASSUME NEW t, OneOf(q, t)
        PROVE  /\ OneOf(p, t) /\ ~IsLast(p, t)
               /\ FullOnes(p, t[1]) = FullOnes(q, t[1])
               /\ IsEnd(p, t) = IsEnd(q, t)
               /\ ValueOf(p, t) = ValueOf(q, t)
               /\ FollowerOf(p, t) = FollowerOf(q, t)
    <2>1. t[1] \in Nat /\ t[1] < Len(q) /\ t[1] \in 0 .. Len(q) - 1
      BY <1>1, <1>3 DEF OneOf, Pairs
    <2>2. p[t[1] + 1] = q[t[1] + 1] BY <2>1, <1>2
    <2>3. FullOnes(p, t[1]) = FullOnes(q, t[1]) BY <2>2 DEF FullOnes
    <2>4. IsEnd(p, t) = IsEnd(q, t) BY <2>3 DEF IsEnd
    <2>5. ValueOf(p, t) = ValueOf(q, t) /\ FollowerOf(p, t) = FollowerOf(q, t)
      BY <2>2, <2>4 DEF ValueOf, FollowerOf
    <2>6. OneOf(p, t) BY <2>1, <2>3, <1>1, <1>3 DEF OneOf
    <2>7. ~IsLast(p, t) BY <2>1, <1>1 DEF IsLast
    <2>. QED  BY <2>3, <2>4, <2>5, <2>6, <2>7
  <1>. QED  BY <1>1, <1>2, <1>3 DEF p

(* Segments one after the other. *)
Row(q, T) ==
    /\ \A i \in 1 .. Len(T) : OneOf(q, T[i])
    /\ \A i \in 1 .. Len(T) - 1 : T[i + 1] = FollowerOf(q, T[i])

(* Up to the end of a packet they are those of one packet. *)
LEMMA OnePacket ==
  ASSUME NEW q, Sizes(q), NEW T, T \in Seq(Pairs), Row(q, T), NEW n \in 1 .. Len(T),
         \A i \in 1 .. n - 1 : ~IsEnd(q, T[i])
  PROVE  \A i \in 1 .. n : T[i] = <<T[1][1], T[1][2] + (i - 1)>>
  <1>3. /\ n \in Nat /\ n >= 1 /\ \A i \in 1 .. n : OneOf(q, T[i])
        /\ \A i \in 1 .. n - 1 : T[i + 1] = FollowerOf(q, T[i])
    <2>1. Len(T) \in Nat OBVIOUS
    <2>. QED  BY <2>1 DEF Row
  <1> DEFINE Bad == {i \in Nat : i \in 1 .. n /\ T[i] # <<T[1][1], T[1][2] + (i - 1)>>}
  <1>1. Bad = {}
    <2> SUFFICES ASSUME Bad # {} PROVE FALSE
      OBVIOUS
    <2>1. PICK m \in Bad : \A k \in Bad : m <= k BY LeastOf
    <2>2. m \in 1 .. n /\ T[m] # <<T[1][1], T[1][2] + (m - 1)>> /\ m \in Nat
      BY <1>3
    <2>3. m # 1
      <3>1. T[1][1] \in Nat /\ T[1][2] \in Nat /\ T[1] = <<T[1][1], T[1][2]>>
        <4>1. OneOf(q, T[1]) BY <1>3
        <4>. QED  BY <4>1, Segments
      <3>2. 1 - 1 = 0 /\ T[1][2] + 0 = T[1][2] BY <3>1
      <3>. QED  BY <3>1, <3>2, <2>2
    <2>4. m - 1 \in 1 .. n - 1 /\ m - 1 \in 1 .. n /\ m - 1 \notin Bad /\ (m - 1) + 1 = m
      BY <2>1, <2>2, <2>3
    <2> DEFINE t == T[m - 1]
    <2>5. t = <<T[1][1], T[1][2] + ((m - 1) - 1)>> BY <2>4
    <2>6. OneOf(q, t) /\ T[m] = FollowerOf(q, t) /\ ~IsEnd(q, t) /\ OneOf(q, T[1])
      <3>1. T[(m - 1) + 1] = FollowerOf(q, t) /\ ~IsEnd(q, t) BY <2>4, <1>3
      <3>. QED  BY <3>1, <2>4, <2>2, <1>3
    <2> HIDE DEF Bad, t
    <2>7. T[m] = <<t[1], t[2] + 1>> /\ T[1][2] \in Nat BY <2>6, Segments
    <2>8. t[1] = T[1][1] /\ t[2] = T[1][2] + ((m - 1) - 1) BY <2>5
    <2>9. t[2] + 1 = T[1][2] + (m - 1)
      <3> DEFINE a == T[1][2]
                 b == t[2]
      <3>1. a \in Nat /\ m \in Nat /\ b = a + ((m - 1) - 1)
        BY <2>2, <2>7, <2>8, <1>3
      <3> HIDE DEF a, b
      <3>2. b + 1 = a + (m - 1) BY <3>1
      <3>. QED  BY <3>2 DEF a, b
    <2>. QED  BY <2>2, <2>7, <2>8, <2>9
  <1>2. \A i \in 1 .. n : i \in Nat OBVIOUS
  <1>. QED  BY <1>1, <1>2

(* More full values are no fewer bytes. *)
LEMMA TimesGrow ==
  ASSUME NEW a \in Nat, NEW b \in Nat, NEW c \in Nat, a <= b
  PROVE  a * c \in Nat /\ b * c \in Nat /\ a * c <= b * c
  <1> DEFINE d == b - a
  <1>1. d \in Nat /\ b = a + d OBVIOUS
  <1> HIDE DEF d
  <1>2. b * c = a * c + d * c BY <1>1
  <1>3. d * c \in Nat /\ a * c \in Nat /\ b * c \in Nat BY <1>1
  <1>. QED  BY <1>2, <1>3

(* The lacing values of a packet of f full segments and r bytes more. *)
LEMMA FullSums ==
  ASSUME NEW V, V \in Seq(Nat), NEW f \in Nat, Len(V) = f + 1, NEW c \in Nat, \A i \in 1 .. f : V[i] = c
  PROVE  (\A i \in 0 .. f : UpTo(V, i) = i * c) /\ UpTo(V, f + 1) = f * c + V[f + 1]
  <1>1. /\ UpTo(V, 0) = 0 /\ \A i \in 1 .. Len(V) : UpTo(V, i) = UpTo(V, i - 1) + V[i]
    BY SumsUp
  <1> DEFINE Bad == {i \in Nat : i <= f /\ UpTo(V, i) # i * c}
  <1>2. Bad = {}
    <2> SUFFICES ASSUME Bad # {} PROVE FALSE
      OBVIOUS
    <2>1. PICK m \in Bad : \A k \in Bad : m <= k BY LeastOf
    <2>2. m \in Nat /\ m <= f /\ UpTo(V, m) # m * c OBVIOUS
    <2>3. m # 0
      <3>1. 0 * c = 0 OBVIOUS
      <3>. QED  BY <3>1, <2>2, <1>1
    <2>4. m - 1 \in Nat /\ m - 1 <= f /\ m - 1 \notin Bad /\ m \in 1 .. f /\ m \in 1 .. Len(V)
      BY <2>1, <2>2, <2>3
    <2>5. UpTo(V, m - 1) = (m - 1) * c /\ UpTo(V, m) = UpTo(V, m - 1) + c
      BY <2>4, <1>1
    <2>6. (m - 1) * c + c = m * c BY <2>2
    <2>. QED  BY <2>2, <2>5, <2>6
  <1> HIDE DEF Bad
  <1>3. \A i \in 0 .. f : UpTo(V, i) = i * c
    <2> TAKE i \in 0 .. f
    <2>1. i \in Nat /\ i <= f OBVIOUS
    <2>. QED  BY <2>1, <1>2 DEF Bad
  <1>4. f + 1 \in 1 .. Len(V) /\ (f + 1) - 1 = f /\ f \in 0 .. f OBVIOUS
  <1>5. UpTo(V, f + 1) = UpTo(V, f) + V[f + 1]
    <2>1. UpTo(V, f + 1) = UpTo(V, (f + 1) - 1) + V[f + 1] BY <1>1, <1>4
    <2>. QED  BY <2>1, <1>4
  <1>. QED  BY <1>3, <1>4, <1>5

(* The segments of a packet, and its bytes. *)
LEMMA PacketSpelt ==
  ASSUME NEW k \in Nat, NEW z \in Nat, NEW V, V \in Seq(Nat), Len(V) = (z \div SegmentSize) + 1,
         \A i \in 1 .. z \div SegmentSize : V[i] = SegmentSize,
         V[(z \div SegmentSize) + 1] = z % SegmentSize,
         NEW T, T \in Seq(Pairs), Len(T) = Len(V), \A i \in 1 .. Len(V) : T[i] = <<k, i - 1>>
  PROVE  UpTo(V, Len(V)) = z /\ \A B : Spelt(T, V, B) <=> B = Stream!Bytes(k, z)
  <1> DEFINE f == z \div SegmentSize
             r == z % SegmentSize
             c == SegmentSize
  <1>1. f \in Nat /\ r \in Nat /\ c \in Nat /\ c > 0 /\ r < c /\ z = f * c + r /\ f * c \in Nat
    <2>1. /\ SegmentSize \in Nat /\ SegmentSize > 0 /\ f \in Nat /\ r \in Nat /\ r < SegmentSize
          /\ z = f * SegmentSize + r
      BY Divided
    <2> HIDE DEF f, r
    <2>2. f * c \in Nat BY <2>1
    <2>. QED  BY <2>1, <2>2
  <1> HIDE DEF f, r, c
  <1>2. /\ Len(V) = f + 1 /\ (\A i \in 1 .. f : V[i] = c) /\ V[f + 1] = r
        /\ \A i \in 1 .. f + 1 : T[i] = <<k, i - 1>>
    BY DEF f, r, c
  <1>3. (\A i \in 0 .. f : UpTo(V, i) = i * c) /\ UpTo(V, f + 1) = z
    <2>1. (\A i \in 0 .. f : UpTo(V, i) = i * c) /\ UpTo(V, f + 1) = f * c + V[f + 1]
      <3>1. V \in Seq(Nat) /\ f \in Nat /\ Len(V) = f + 1 /\ c \in Nat /\ \A i \in 1 .. f : V[i] = c
        BY <1>1, <1>2
      <3>. QED  BY ONLY <3>1, FullSums
    <2>. QED  BY <2>1, <1>1, <1>2
  <1>4. \A i \in 1 .. f + 1 : UpTo(V, i - 1) = (i - 1) * c /\ (i - 1) * c \in Nat
    <2> TAKE i \in 1 .. f + 1
    <2>1. i - 1 \in 0 .. f /\ i - 1 \in Nat BY <1>1
    <2>. QED  BY <2>1, <1>1, <1>3, TimesGrow
  <1>5. Spelt(T, V, Stream!Bytes(k, z))
    <2> DEFINE B == Stream!Bytes(k, z)
    <2>1. B \in Seq(Pairs) /\ Len(B) = z /\ \A i \in 1 .. z : B[i] = <<k, i>>
      BY DEF Stream!Bytes, Pairs
    <2> HIDE DEF B
    <2>2. ASSUME NEW i \in 1 .. f + 1, NEW b \in 1 .. V[i]
          PROVE  B[UpTo(V, i - 1) + b] = <<T[i][1], T[i][2] * c + b>>
      <3> DEFINE p == (i - 1) * c
      <3>1. UpTo(V, i - 1) = p /\ p \in Nat BY <1>4
      <3>2. p + b \in 1 .. z
        <4>1. CASE i = f + 1
          <5>1. p = f * c /\ b \in 1 .. r BY <4>1, <1>1, <1>2
          <5> HIDE DEF p
          <5>2. z = p + r /\ b \in 1 .. r /\ r \in Nat /\ p \in Nat
            BY <5>1, <3>1, <1>1
          <5>. QED  BY <5>2
        <4>2. CASE i # f + 1
          <5>1. i \in 1 .. f /\ i \in Nat /\ i <= f BY <4>2, <1>1
          <5>2. i * c \in Nat /\ i * c <= f * c /\ b \in 1 .. c
            BY <5>1, <1>1, <1>2, TimesGrow
          <5>3. i * c = p + c BY <5>1, <1>1
          <5> DEFINE u == i * c
                     d == f * c
          <5>4. u = p + c /\ u <= d /\ z = d + r /\ p \in Nat /\ u \in Nat /\ d \in Nat
            BY <5>2, <5>3, <3>1, <1>1
          <5> HIDE DEF p, u, d
          <5>5. b \in Nat /\ b >= 1 /\ b <= c /\ c \in Nat /\ r \in Nat
            BY <5>2, <1>1
          <5>. QED  BY <5>4, <5>5
        <4>. QED  BY <4>1, <4>2
      <3>3. T[i][1] = k /\ T[i][2] * c + b = p + b
        <4>1. T[i] = <<k, i - 1>> BY <1>2
        <4>. QED  BY <4>1
      <3> HIDE DEF p
      <3>. QED  BY <3>1, <3>2, <3>3, <2>1
    <2>. QED  BY <2>1, <2>2, <1>2, <1>3 DEF Spelt, B, c
  <1>6. ASSUME NEW B, Spelt(T, V, B) PROVE B = Stream!Bytes(k, z)
    <2>1. /\ B \in Seq(Pairs) /\ Len(B) = z
          /\ \A i \in 1 .. f + 1 : \A b \in 1 .. V[i] :
                B[UpTo(V, i - 1) + b] = <<T[i][1], T[i][2] * c + b>>
      BY <1>2, <1>3, <1>6 DEF Spelt, c
    <2>2. ASSUME NEW x \in 1 .. z PROVE B[x] = <<k, x>>
      <3> DEFINE y == x - 1
                 g == y \div SegmentSize
                 h == y % SegmentSize
      <3>1. y \in Nat /\ x = y + 1 BY <1>1
      <3> HIDE DEF y
      <3>2. g \in Nat /\ h \in Nat /\ h < c /\ y = g * c + h /\ g * c \in Nat
        BY <3>1, <1>1, Divided, TimesGrow DEF c
      <3> HIDE DEF g, h
      <3>3. g <= f
        <4> SUFFICES ASSUME ~(g <= f) PROVE FALSE
          OBVIOUS
        <4>1. f + 1 \in Nat /\ f + 1 <= g BY <3>2, <1>1
        <4>2. (f + 1) * c <= g * c BY <4>1, <3>2, <1>1, TimesGrow
        <4>3. (f + 1) * c = f * c + c BY <1>1
        <4> DEFINE a == f * c
                   d == g * c
        <4>4. a + c <= d /\ y = d + h /\ z = a + r /\ a \in Nat /\ d \in Nat
          BY <4>2, <4>3, <3>2, <1>1
        <4> HIDE DEF a, d
        <4>5. x \in Nat /\ x <= z BY <1>1
        <4>. QED  BY <4>4, <4>5, <3>1, <3>2, <1>1
      <3>4. g + 1 \in 1 .. f + 1 /\ (g + 1) - 1 = g BY <3>2, <3>3, <1>1
      <3>5. h + 1 \in 1 .. V[g + 1]
        <4>1. CASE g = f
          <5> DEFINE a == f * c
          <5>1. a \in Nat /\ z = a + r /\ y = a + h /\ V[g + 1] = r
            BY <4>1, <3>2, <1>1, <1>2
          <5> HIDE DEF a
          <5>. QED  BY <5>1, <3>1, <3>2, <1>1
        <4>2. CASE g # f
          <5>1. g + 1 \in 1 .. f BY <4>2, <3>2, <3>3, <1>1
          <5>2. V[g + 1] = c BY <5>1, <1>2
          <5>3. h \in Nat /\ c \in Nat /\ h < c BY <3>2, <1>1
          <5>4. h + 1 \in 1 .. c BY ONLY <5>3
          <5>. QED  BY <5>2, <5>4
        <4>. QED  BY <4>1, <4>2
      <3>6. B[UpTo(V, (g + 1) - 1) + (h + 1)] = <<T[g + 1][1], T[g + 1][2] * c + (h + 1)>>
        BY <2>1, <3>4, <3>5
      <3>7. UpTo(V, (g + 1) - 1) = g * c /\ T[g + 1] = <<k, g>>
        BY <3>4, <1>2, <1>4
      <3>8. g * c + (h + 1) = x
        <4> DEFINE d == g * c
        <4>1. d \in Nat /\ y = d + h BY <3>2
        <4> HIDE DEF d
        <4>2. d + (h + 1) = x BY <4>1, <3>1, <3>2
        <4>. QED  BY <4>2 DEF d
      <3>. QED  BY <3>6, <3>7, <3>8
    <2>3. B = [i \in 1 .. z |-> <<k, i>>]
      <3> DEFINE C == [i \in 1 .. z |-> <<k, i>>]
      <3>1. B \in [1 .. z -> Pairs] BY <2>1
      <3>2. \A i \in 1 .. z : B[i] = C[i] BY <2>2
      <3>3. B = [i \in 1 .. z |-> B[i]] BY <3>1
      <3>. QED  BY <3>2, <3>3
    <2>. QED  BY <2>3 DEF Stream!Bytes
  <1>. QED  BY <1>2, <1>3, <1>5, <1>6

Final(T) == T[Len(T)]

(* What the writer, the pages, the reader and what came out are. *)
LacingsOut == [val : Nat, first : BOOLEAN, granule : Nat]
LacingsIn  == [val : Nat, hole : BOOLEAN, bos : BOOLEAN, eos : BOOLEAN, granule : Int]

Written  == [lacing : Seq(LacingsOut), body : Seq(Pairs), granulepos : Nat, eos : BOOLEAN, bos : BOOLEAN, pageno : Nat]
OggPages == [continued : BOOLEAN, bos : BOOLEAN, eos : BOOLEAN, granule : Int, pageno : Nat,
             segments : Seq(Nat), body : Seq(Pairs)]
Read     == [lacing : Seq(LacingsIn), body : Seq(Pairs), lacingPacket : Nat, pageno : Int]
OggPackets == [hole : BOOLEAN, body : Seq(Pairs), granule : Int, bos : BOOLEAN, eos : BOOLEAN]

(* What the writer w holds are the segments W. *)
WriterHas(q, w, W) ==
    /\ w \in Written
    /\ Row(q, W) /\ Spelt(W, Values(w.lacing), w.body)
    /\ \A i \in 1 .. Len(W) :
          /\ w.lacing[i].val = ValueOf(q, W[i])
          /\ w.lacing[i].first = (W[i][2] = 0)
          /\ IsEnd(q, W[i]) => w.lacing[i].granule = W[i][1]

(* The segments of the pages F, and the W that are on none yet, are those *)
(* of the recording. *)
Joined(q, F, W) ==
    /\ F \in Seq(Seq(Pairs)) /\ W \in Seq(Pairs)
    /\ \A m \in 1 .. Len(F) : Len(F[m]) > 0
    /\ Len(F) > 0 => F[1][1] = <<0, 0>>
    /\ \A m \in 1 .. Len(F) - 1 : F[m + 1][1] = FollowerOf(q, Final(F[m]))
    /\ Len(W) > 0 => /\ IsLast(q, Final(W))
                     /\ W[1] = IF Len(F) = 0 THEN <<0, 0>> ELSE FollowerOf(q, Final(Final(F)))
    /\ Len(W) = 0 => IF Len(F) = 0 THEN Len(q) = 0 ELSE IsLast(q, Final(Final(F)))

(* The m-th page has the segments T; e is whether the last packet came. *)
PageHas(q, e, p, T, m) ==
    /\ p \in OggPages /\ Len(T) > 0
    /\ Row(q, T) /\ Spelt(T, p.segments, p.body)
    /\ \A i \in 1 .. Len(T) : p.segments[i] = ValueOf(q, T[i])
    /\ p.continued = (T[1][2] # 0) /\ p.bos = (m = 1) /\ p.pageno = m - 1
    /\ p.eos = (e /\ IsLast(q, Final(T)))
    /\ \A i \in 1 .. Len(T) :
          /\ IsEnd(q, T[i]) /\ \A j \in i + 1 .. Len(T) : ~IsEnd(q, T[j])
          => p.granule = T[i][1]

PagesHave(q, e, f, F) ==
    /\ f \in Seq(OggPages) /\ Len(F) = Len(f)
    /\ \A m \in 1 .. Len(f) : PageHas(q, e, f[m], F[m], m)

(* A lacing value of the reader is that of the segment t. *)
SegmentIs(q, e, x, t) ==
    /\ OneOf(q, t)
    /\ x.val = ValueOf(q, t) /\ x.bos = (t = <<0, 0>>)
    /\ x.eos = (e /\ IsLast(q, t)) /\ x.granule \in {Stream!NoPosition, t[1]}

(* What the reader r holds are the segments R, in the place of the first *)
(* of them a hole, maybe. *)
ReaderHas(q, e, r, R) ==
    /\ r \in Read /\ Spelt(R, Values(r.lacing), r.body)
    /\ \A i \in 1 .. Len(R) :
          /\ r.lacing[i].hole => i = 1 /\ r.lacing[i].val = 0
          /\ ~r.lacing[i].hole => /\ SegmentIs(q, e, r.lacing[i], R[i])
                                  /\ i < Len(R) => R[i + 1] = FollowerOf(q, R[i])
                                  /\ i = 1 \/ r.lacing[i - 1].hole => R[i][2] = 0

(* The first lacingPacket of its values are those of whole packets, and the*)
(* others of one that is not. *)
WholeUpTo(r) ==
    /\ r.lacingPacket <= Len(r.lacing)
    /\ r.lacingPacket > 0 => Stream!Ends(r.lacing[r.lacingPacket].val)
    /\ \A i \in r.lacingPacket + 1 .. Len(r.lacing) : ~Stream!Ends(r.lacing[i].val)

HoleFirst(r) == Len(r.lacing) > 0 /\ r.lacing[1].hole

(* What the reader holds ends where the last page that it was given does. *)
ReaderAt(r, R, F, given, m) ==
    /\ given \in 1 .. Len(F) + 1
    /\ IF r.pageno = -1 THEN Len(r.lacing) = 0 ELSE r.pageno \in 1 .. given - 1
    /\ Len(R) > 0 /\ ~Final(r.lacing).hole => Final(R) = Final(F[r.pageno])
    /\ m = 0 => /\ ~HoleFirst(r)
                /\ r.pageno = IF given = 1 THEN -1 ELSE given - 1

(* A packet that came out. *)
PacketIs(q, e, o) ==
    \E k \in 0 .. Len(q) - 1 :
        /\ o.body = Stream!Bytes(k, q[k + 1]) /\ Stream!Number(o) = k
        /\ o.granule \in {Stream!NoPosition, k}
        /\ o.bos = (k = 0) /\ o.eos = (e /\ k = Len(q) - 1)

OutHas(q, e, o) ==
    /\ o \in Seq(OggPackets)
    /\ \A i \in 1 .. Len(o) : Stream!Packet(o[i]) => PacketIs(q, e, o[i])

(* The packets come out one after the other, but for a hole. *)
InTurn(o, m) ==
    /\ \A i \in 1 .. Len(o) - 1 :
          Stream!Packet(o[i]) /\ Stream!Packet(o[i + 1]) =>
            Stream!Number(o[i + 1]) = Stream!Number(o[i]) + 1
    /\ m = 0 => \A i \in 1 .. Len(o) : Stream!Packet(o[i]) /\ Stream!Number(o[i]) = i - 1

(* What the reader holds goes on where the last packet that came out ends. *)
GoesOn(q, o, r, R, F, given, m) ==
    /\ r.pageno = -1 => Len(o) = 0
    /\ Len(o) > 0 /\ Stream!Packet(Final(o)) /\ ~HoleFirst(r) =>
          IF Len(R) > 0 THEN R[1][1] = Stream!Number(Final(o)) + 1
          ELSE /\ IsEnd(q, Final(F[r.pageno]))
               /\ Final(F[r.pageno])[1] = Stream!Number(Final(o))
    /\ m = 0 /\ Len(o) = 0 => IF Len(R) > 0 THEN R[1] = <<0, 0>> ELSE given = 1

StreamIs(F, W, R) ==
    /\ Sizes(in) /\ damaged \in Nat
    /\ WriterHas(in, os, W) /\ Joined(in, F, W)
    /\ (os.bos <=> Len(pages) > 0) /\ os.pageno = Len(pages) /\ (os.eos => Len(in) > 0)
    /\ PagesHave(in, os.eos, pages, F)
    /\ ReaderHas(in, os.eos, rs, R) /\ WholeUpTo(rs)
    /\ ReaderAt(rs, R, F, next, damaged)
    /\ OutHas(in, os.eos, out) /\ InTurn(out, damaged)
    /\ GoesOn(in, out, rs, R, F, next, damaged)

StreamInv == \E F, W, R : StreamIs(F, W, R)

(* What the writer has, by its type. *)
LEMMA WrittenIs ==
  ASSUME NEW w, w \in Written
  PROVE  /\ w.lacing \in Seq(LacingsOut) /\ Len(w.lacing) \in Nat /\ w.body \in Seq(Pairs)
         /\ Values(w.lacing) \in Seq(Nat) /\ Len(Values(w.lacing)) = Len(w.lacing)
         /\ \A i \in 1 .. Len(w.lacing) : /\ w.lacing[i] \in LacingsOut
                                         /\ Values(w.lacing)[i] = w.lacing[i].val
                                         /\ w.lacing[i].val \in Nat
  <1>1. w.lacing \in Seq(LacingsOut) /\ w.body \in Seq(Pairs) BY DEF Written
  <1>2. Len(w.lacing) \in Nat /\ \A i \in 1 .. Len(w.lacing) : w.lacing[i] \in LacingsOut
    BY <1>1
  <1>3. \A x \in LacingsOut : x.val \in Nat BY DEF LacingsOut
  <1>. QED  BY <1>1, <1>2, <1>3, ValuesAre

(* What the reader has, by its type. *)
LEMMA ReadIs ==
  ASSUME NEW r, r \in Read
  PROVE  /\ r.lacing \in Seq(LacingsIn) /\ Len(r.lacing) \in Nat /\ r.body \in Seq(Pairs)
         /\ r.lacingPacket \in Nat /\ r.pageno \in Int
         /\ Values(r.lacing) \in Seq(Nat) /\ Len(Values(r.lacing)) = Len(r.lacing)
         /\ \A i \in 1 .. Len(r.lacing) : /\ r.lacing[i] \in LacingsIn
                                         /\ Values(r.lacing)[i] = r.lacing[i].val
                                         /\ r.lacing[i].val \in Nat
                                         /\ r.lacing[i].hole \in BOOLEAN
                                         /\ r.lacing[i].bos \in BOOLEAN
                                         /\ r.lacing[i].eos \in BOOLEAN
                                         /\ r.lacing[i].granule \in Int
  <1>1. /\ r.lacing \in Seq(LacingsIn) /\ r.body \in Seq(Pairs)
        /\ r.lacingPacket \in Nat /\ r.pageno \in Int
    BY DEF Read
  <1>2. Len(r.lacing) \in Nat /\ \A i \in 1 .. Len(r.lacing) : r.lacing[i] \in LacingsIn
    BY <1>1
  <1>3. \A x \in LacingsIn : /\ x.val \in Nat /\ x.hole \in BOOLEAN /\ x.bos \in BOOLEAN
                             /\ x.eos \in BOOLEAN /\ x.granule \in Int
    BY DEF LacingsIn
  <1>. QED  BY <1>1, <1>2, <1>3, ValuesAre

(* No segments have no bytes. *)
LEMMA NothingSpelt ==
  Spelt(<<>>, <<>>, <<>>)
  <1>1. <<>> \in Seq(Nat) /\ <<>> \in Seq(Pairs) /\ Len(<<>>) = 0 OBVIOUS
  <1>2. UpTo(<<>>, 0) = 0 BY <1>1, SumsUp
  <1>. QED  BY <1>1, <1>2 DEF Spelt

(* In the beginning there is nothing. *)
LEMMA InitStream ==
  Stream!Init => StreamInv
  <1> SUFFICES ASSUME Stream!Init PROVE StreamIs(<<>>, <<>>, <<>>)
    BY DEF StreamInv
  <1> USE DEF Stream!Init, Stream!Writer, Stream!Reader
  <1>1. Values(<<>>) = <<>> BY DEF Values
  <1>2. Sizes(in) /\ damaged \in Nat /\ Len(in) = 0 BY DEF Sizes
  <1>3. WriterHas(in, os, <<>>)
    <2>1. os \in Written BY DEF Written
    <2>. QED  BY <2>1, <1>1, NothingSpelt DEF WriterHas, Row
  <1>4. Joined(in, <<>>, <<>>) BY <1>2 DEF Joined
  <1>5. (os.bos <=> Len(pages) > 0) /\ os.pageno = Len(pages) /\ (os.eos => Len(in) > 0)
    <2>1. Len(pages) = 0 /\ os.bos = FALSE /\ os.pageno = 0 /\ os.eos = FALSE
      OBVIOUS
    <2>. QED  BY <2>1
  <1>6. PagesHave(in, os.eos, pages, <<>>) BY DEF PagesHave
  <1>7. ReaderHas(in, os.eos, rs, <<>>)
    <2>1. rs \in Read BY DEF Read
    <2>. QED  BY <2>1, <1>1, NothingSpelt DEF ReaderHas
  <1>8. WholeUpTo(rs) BY DEF WholeUpTo
  <1>9. ReaderAt(rs, <<>>, <<>>, next, damaged) BY DEF ReaderAt, HoleFirst
  <1>10. OutHas(in, os.eos, out) /\ InTurn(out, damaged) BY DEF OutHas, InTurn
  <1>11. GoesOn(in, out, rs, <<>>, <<>>, next, damaged) BY DEF GoesOn
  <1>. QED  BY <1>2, <1>3, <1>4, <1>5, <1>6, <1>7, <1>8, <1>9, <1>10, <1>11 DEF StreamIs

(* What the pages and the reader have stays when one more packet comes. *)
LEMMA RowStays ==
  ASSUME NEW q, Sizes(q), NEW size \in Nat \ {0}, NEW T, T \in Seq(Pairs), Row(q, T)
  PROVE  Row(Append(q, size), T)
  <1> DEFINE p == Append(q, size)
  <1>1. \A t : OneOf(q, t) => OneOf(p, t) /\ FollowerOf(p, t) = FollowerOf(q, t)
    BY SegmentsStay
  <1> HIDE DEF p
  <1>2. Len(T) \in Nat OBVIOUS
  <1>. QED  BY <1>1, <1>2 DEF Row, p

(* So do the pages; the last packet is on none of them yet. *)
LEMMA PagesStay ==
  ASSUME NEW q, Sizes(q), NEW size \in Nat \ {0}, NEW e \in BOOLEAN, NEW f, NEW F, PagesHave(q, FALSE, f, F)
  PROVE  PagesHave(Append(q, size), e, f, F)
  <1> DEFINE p == Append(q, size)
  <1>1. \A t : OneOf(q, t) => /\ ~IsLast(p, t) /\ IsEnd(p, t) = IsEnd(q, t)
                              /\ ValueOf(p, t) = ValueOf(q, t)
    BY SegmentsStay
  <1>2. ASSUME NEW m \in 1 .. Len(f) PROVE PageHas(p, e, f[m], F[m], m)
    <2> DEFINE T == F[m]
    <2>1. PageHas(q, FALSE, f[m], T, m) BY DEF PagesHave
    <2>2. T \in Seq(Pairs) /\ Row(q, T) /\ Len(T) \in Nat /\ Len(T) > 0
      BY <2>1 DEF PageHas, Spelt
    <2>3. Row(p, T) BY <2>2, RowStays
    <2> HIDE DEF T, p
    <2>4. \A i \in 1 .. Len(T) : OneOf(q, T[i]) BY <2>2 DEF Row
    <2>5. OneOf(q, Final(T)) BY <2>2, <2>4 DEF Final
    <2>6. ~f[m].eos /\ ~IsLast(p, Final(T)) /\ f[m].eos \in BOOLEAN
      BY <2>1, <2>5, <1>1 DEF PageHas, OggPages
    <2>7. \A i \in 1 .. Len(T) : ValueOf(p, T[i]) = ValueOf(q, T[i]) /\ IsEnd(p, T[i]) = IsEnd(q, T[i])
      BY <2>4, <1>1
    <2>8. \A i \in 1 .. Len(T) : f[m].segments[i] = ValueOf(p, T[i])
      BY <2>1, <2>7 DEF PageHas
    <2>9. ASSUME NEW i \in 1 .. Len(T), IsEnd(p, T[i]), \A j \in i + 1 .. Len(T) : ~IsEnd(p, T[j])
          PROVE  f[m].granule = T[i][1]
      <3>1. \A j \in i + 1 .. Len(T) : j \in 1 .. Len(T) BY <2>2
      <3>2. IsEnd(q, T[i]) /\ \A j \in i + 1 .. Len(T) : ~IsEnd(q, T[j])
        BY <3>1, <2>7, <2>9
      <3>. QED  BY <3>2, <2>1 DEF PageHas
    <2>. QED  BY <2>1, <2>3, <2>6, <2>8, <2>9 DEF PageHas, T
  <1>. QED  BY <1>2 DEF PagesHave

(* So does what the reader holds. *)
LEMMA ReaderStays ==
  ASSUME NEW q, Sizes(q), NEW size \in Nat \ {0}, NEW e \in BOOLEAN, NEW r, NEW R, ReaderHas(q, FALSE, r, R)
  PROVE  ReaderHas(Append(q, size), e, r, R)
  <1> DEFINE p == Append(q, size)
  <1>1. \A t : OneOf(q, t) => /\ OneOf(p, t) /\ ~IsLast(p, t) /\ FollowerOf(p, t) = FollowerOf(q, t)
                              /\ ValueOf(p, t) = ValueOf(q, t)
    BY SegmentsStay
  <1> HIDE DEF p
  <1>2. Len(r.lacing) = Len(R) BY ReadIs DEF ReaderHas, Spelt
  <1>3. \A i \in 1 .. Len(R) : r.lacing[i].eos \in BOOLEAN
    BY <1>2, ReadIs DEF ReaderHas
  <1>4. \A i \in 1 .. Len(R) : ~r.lacing[i].hole =>
           SegmentIs(p, e, r.lacing[i], R[i]) /\ FollowerOf(p, R[i]) = FollowerOf(q, R[i])
    BY <1>1, <1>3 DEF ReaderHas, SegmentIs
  <1>. QED  BY <1>4 DEF ReaderHas, p

(* So do the packets that came out. *)
LEMMA OutStays ==
  ASSUME NEW q, Sizes(q), NEW size \in Nat \ {0}, NEW e \in BOOLEAN, NEW o, OutHas(q, FALSE, o)
  PROVE  OutHas(Append(q, size), e, o)
  <1> DEFINE p == Append(q, size)
  <1>1. Len(p) = Len(q) + 1 /\ Len(q) \in Nat /\ \A k \in 0 .. Len(q) - 1 : p[k + 1] = q[k + 1]
    BY SegmentsStay DEF Sizes
  <1> HIDE DEF p
  <1>2. ASSUME NEW i \in 1 .. Len(o), Stream!Packet(o[i]) PROVE PacketIs(p, e, o[i])
    <2>1. PacketIs(q, FALSE, o[i]) /\ o[i].eos \in BOOLEAN
      <3>1. o[i] \in OggPackets BY DEF OutHas
      <3>. QED  BY <3>1, <1>2 DEF OutHas, OggPackets
    <2>2. PICK k \in 0 .. Len(q) - 1 :
            /\ o[i].body = Stream!Bytes(k, q[k + 1]) /\ Stream!Number(o[i]) = k
            /\ o[i].granule \in {Stream!NoPosition, k}
            /\ o[i].bos = (k = 0) /\ o[i].eos = (FALSE /\ k = Len(q) - 1)
      BY <2>1 DEF PacketIs
    <2>3. k \in 0 .. Len(p) - 1 /\ p[k + 1] = q[k + 1] /\ k # Len(p) - 1 BY <1>1
    <2>4. o[i].eos = (e /\ k = Len(p) - 1) BY <2>1, <2>2, <2>3
    <2>. QED  BY <2>2, <2>3, <2>4 DEF PacketIs
  <1>. QED  BY <1>2 DEF OutHas, p

(* Two rows make one when the second follows the first. *)
LEMMA RowTogether ==
  ASSUME NEW q, NEW T1, T1 \in Seq(Pairs), Row(q, T1), NEW T2, T2 \in Seq(Pairs), Row(q, T2),
         Len(T1) > 0 /\ Len(T2) > 0 => T2[1] = FollowerOf(q, Final(T1))
  PROVE  /\ Row(q, T1 \o T2) /\ T1 \o T2 \in Seq(Pairs) /\ Len(T1 \o T2) = Len(T1) + Len(T2)
         /\ (\A i \in 1 .. Len(T1) : (T1 \o T2)[i] = T1[i])
         /\ (\A i \in 1 .. Len(T2) : (T1 \o T2)[Len(T1) + i] = T2[i])
         /\ Len(T2) > 0 => Final(T1 \o T2) = Final(T2)
  <1> DEFINE T == T1 \o T2
  <1>1. /\ T \in Seq(Pairs) /\ Len(T) = Len(T1) + Len(T2)
        /\ (\A i \in 1 .. Len(T1) : T[i] = T1[i])
        /\ (\A i \in 1 .. Len(T2) : T[Len(T1) + i] = T2[i])
    BY PairsJoined
  <1>2. Len(T1) \in Nat /\ Len(T2) \in Nat OBVIOUS
  <1> HIDE DEF T
  <1>3. ASSUME NEW i \in 1 .. Len(T) PROVE OneOf(q, T[i])
    <2>1. CASE i <= Len(T1)
      <3>1. i \in 1 .. Len(T1) BY <2>1, <1>2
      <3>. QED  BY <3>1, <1>1 DEF Row
    <2>2. CASE i > Len(T1)
      <3>1. i - Len(T1) \in 1 .. Len(T2) /\ i = Len(T1) + (i - Len(T1))
        BY <2>2, <1>1, <1>2
      <3>. QED  BY <3>1, <1>1 DEF Row
    <2>. QED  BY <2>1, <2>2, <1>1, <1>2
  <1>4. ASSUME NEW i \in 1 .. Len(T) - 1 PROVE T[i + 1] = FollowerOf(q, T[i])
    <2>1. CASE i < Len(T1)
      <3>1. i \in 1 .. Len(T1) - 1 /\ i \in 1 .. Len(T1) /\ i + 1 \in 1 .. Len(T1)
        BY <2>1, <1>2
      <3>. QED  BY <3>1, <1>1 DEF Row
    <2>2. CASE i = Len(T1)
      <3>1. i \in 1 .. Len(T1) /\ i + 1 = Len(T1) + 1 /\ 1 \in 1 .. Len(T2) /\ Len(T1) > 0 /\ Len(T2) > 0
        BY <2>2, <1>1, <1>2
      <3>. QED  BY <3>1, <2>2, <1>1 DEF Final
    <2>3. CASE i > Len(T1)
      <3> DEFINE k == i - Len(T1)
      <3>1. k \in 1 .. Len(T2) - 1 /\ k \in 1 .. Len(T2) /\ k + 1 \in 1 .. Len(T2)
            /\ i = Len(T1) + k /\ i + 1 = Len(T1) + (k + 1)
        <4>1. Len(T) = Len(T1) + Len(T2) /\ i \in Nat /\ i <= Len(T) - 1
          BY <1>1, <1>2
        <4>. QED  BY <4>1, <2>3, <1>2
      <3> HIDE DEF k
      <3>. QED  BY <3>1, <1>1 DEF Row
    <2>. QED  BY <2>1, <2>2, <2>3, <1>1, <1>2
  <1>5. Len(T2) > 0 => Final(T) = Final(T2)
    <2> HAVE Len(T2) > 0
    <2>1. Len(T2) \in 1 .. Len(T2) BY <1>2
    <2>. QED  BY <2>1, <1>1 DEF Final
  <1>. QED  BY <1>1, <1>3, <1>4, <1>5 DEF Row, T

(* A row that is cut in two. *)
LEMMA RowInTwo ==
  ASSUME NEW q, NEW T, T \in Seq(Pairs), Row(q, T), NEW n \in 0 .. Len(T)
  PROVE  /\ SubSeq(T, 1, n) \in Seq(Pairs) /\ Len(SubSeq(T, 1, n)) = n /\ Row(q, SubSeq(T, 1, n))
         /\ \A i \in 1 .. n : SubSeq(T, 1, n)[i] = T[i]
         /\ SubSeq(T, n + 1, Len(T)) \in Seq(Pairs) /\ Len(SubSeq(T, n + 1, Len(T))) = Len(T) - n
         /\ Row(q, SubSeq(T, n + 1, Len(T)))
         /\ \A i \in 1 .. Len(T) - n : SubSeq(T, n + 1, Len(T))[i] = T[n + i]
         /\ n > 0 => Final(SubSeq(T, 1, n)) = T[n]
         /\ n < Len(T) => /\ Final(SubSeq(T, n + 1, Len(T))) = Final(T)
                          /\ SubSeq(T, n + 1, Len(T))[1] = T[n + 1]
                          /\ n > 0 => T[n + 1] = FollowerOf(q, T[n])
  <1> DEFINE T1 == SubSeq(T, 1, n)
             T2 == SubSeq(T, n + 1, Len(T))
  <1>1. /\ T1 \in Seq(Pairs) /\ Len(T1) = n /\ (\A i \in 1 .. n : T1[i] = T[i])
        /\ T2 \in Seq(Pairs) /\ Len(T2) = Len(T) - n /\ \A i \in 1 .. Len(T) - n : T2[i] = T[n + i]
    BY CutAt
  <1> HIDE DEF T1, T2
  <1>2. Len(T) \in Nat /\ n \in Nat OBVIOUS
  <1>3. Row(q, T1)
    <2>1. \A i \in 1 .. n : i \in 1 .. Len(T) BY <1>2
    <2>2. \A i \in 1 .. n - 1 : i \in 1 .. Len(T) - 1 /\ i \in 1 .. n /\ i + 1 \in 1 .. n
      BY <1>2
    <2>. QED  BY <2>1, <2>2, <1>1 DEF Row
  <1>4. Row(q, T2)
    <2>1. \A i \in 1 .. Len(T) - n : n + i \in 1 .. Len(T) BY <1>2
    <2>2. \A i \in 1 .. (Len(T) - n) - 1 : /\ n + i \in 1 .. Len(T) - 1 /\ i \in 1 .. Len(T) - n
                                          /\ i + 1 \in 1 .. Len(T) - n /\ n + (i + 1) = (n + i) + 1
      BY <1>2
    <2>3. ASSUME NEW i \in 1 .. Len(T2) - 1 PROVE T2[i + 1] = FollowerOf(q, T2[i])
      <3>1. i \in 1 .. (Len(T) - n) - 1 BY <1>1
      <3>2. T2[i + 1] = T[(n + i) + 1] /\ T2[i] = T[n + i] BY <3>1, <2>2, <1>1
      <3>3. T[(n + i) + 1] = FollowerOf(q, T[n + i]) BY <3>1, <2>2 DEF Row
      <3>. QED  BY <3>2, <3>3
    <2>. QED  BY <2>1, <2>3, <1>1 DEF Row
  <1>5. n > 0 => Final(T1) = T[n]
    <2>1. n > 0 => n \in 1 .. n BY <1>2
    <2>. QED  BY <2>1, <1>1 DEF Final
  <1>6. ASSUME n < Len(T)
        PROVE  Final(T2) = Final(T) /\ T2[1] = T[n + 1] /\ (n > 0 => T[n + 1] = FollowerOf(q, T[n]))
    <2>1. /\ Len(T) - n \in 1 .. Len(T) - n /\ 1 \in 1 .. Len(T) - n /\ n + (Len(T) - n) = Len(T)
          /\ n > 0 => n \in 1 .. Len(T) - 1
      BY <1>2, <1>6
    <2>. QED  BY <2>1, <1>1 DEF Final, Row
  <1>. QED  BY <1>1, <1>3, <1>4, <1>5, <1>6 DEF T1, T2

(* ogg_stream_iovecin gives the writer the segments of one packet more. *)
LEMMA PacketComes ==
  ASSUME NEW q, Sizes(q), NEW w, NEW W, WriterHas(q, w, W), NEW size \in Nat \ {0}, NEW e \in BOOLEAN,
         Len(W) > 0 => IsLast(q, Final(W))
  PROVE  \E D : /\ D \in Seq(Pairs) /\ Len(D) > 0 /\ D[1] = <<Len(q), 0>>
                /\ IsLast(Append(q, size), Final(D))
                /\ WriterHas(Append(q, size), Stream!PacketIn(w, Len(q), size, e), W \o D)
  <1> DEFINE p == Append(q, size)
             k == Len(q)
             f == size \div SegmentSize
             D == [i \in 1 .. f + 1 |-> <<k, i - 1>>]
             L == [i \in 1 .. f + 1 |->
                    [val     |-> IF i <= f THEN SegmentSize ELSE size % SegmentSize,
                     first   |-> i = 1,
                     granule |-> IF i <= f THEN w.granulepos ELSE k]]
             v == Stream!PacketIn(w, k, size, e)
  <1>1. /\ k \in Nat /\ f \in Nat /\ size \in Nat /\ size % SegmentSize \in Nat /\ SegmentSize \in Nat
        /\ w \in Written /\ W \in Seq(Pairs) /\ Row(q, W) /\ Len(W) = Len(w.lacing)
        /\ Spelt(W, Values(w.lacing), w.body)
    <2>1. k \in Nat /\ size \in Nat /\ w \in Written /\ Row(q, W) /\ Spelt(W, Values(w.lacing), w.body)
      BY DEF Sizes, WriterHas
    <2>2. W \in Seq(Pairs) /\ Len(W) = Len(Values(w.lacing)) /\ Len(Values(w.lacing)) = Len(w.lacing)
      BY <2>1, WrittenIs DEF Spelt
    <2>3. f \in Nat /\ size % SegmentSize \in Nat /\ SegmentSize \in Nat
      BY <2>1, Divided
    <2>. QED  BY <2>1, <2>2, <2>3
  <1>2. /\ Sizes(p) /\ Len(p) = k + 1 /\ p[k + 1] = size
        /\ \A t : OneOf(q, t) =>
              /\ OneOf(p, t) /\ IsEnd(p, t) = IsEnd(q, t) /\ ValueOf(p, t) = ValueOf(q, t)
              /\ FollowerOf(p, t) = FollowerOf(q, t)
    BY SegmentsStay
  <1>3. /\ D \in Seq(Pairs) /\ Len(D) = f + 1 /\ \A i \in 1 .. f + 1 : D[i] = <<k, i - 1>>
    <2>1. \A i \in 1 .. f + 1 : <<k, i - 1>> \in Pairs BY <1>1 DEF Pairs
    <2>. QED  BY <2>1, <1>1
  <1>4. /\ L \in Seq(LacingsOut) /\ Len(L) = f + 1
        /\ \A i \in 1 .. f + 1 :
              /\ L[i].val = IF i <= f THEN SegmentSize ELSE size % SegmentSize
              /\ L[i].first = (i = 1) /\ L[i].granule = IF i <= f THEN w.granulepos ELSE k
    <2>1. w.granulepos \in Nat BY <1>1 DEF Written
    <2>2. \A i \in 1 .. f + 1 :
             [val |-> IF i <= f THEN SegmentSize ELSE size % SegmentSize, first |-> i = 1,
              granule |-> IF i <= f THEN w.granulepos ELSE k] \in LacingsOut
      BY <2>1, <1>1 DEF LacingsOut
    <2>. QED  BY <2>2, <1>1
  <1>5. v = [w EXCEPT !.lacing = w.lacing \o L, !.body = w.body \o Stream!Bytes(k, size),
                      !.granulepos = k, !.eos = w.eos \/ e]
    BY DEF Stream!PacketIn
  <1> HIDE DEF p, v, L, D
  <1>6. /\ Values(L) \in Seq(Nat) /\ Len(Values(L)) = f + 1
        /\ \A i \in 1 .. f + 1 : Values(L)[i] = IF i <= f THEN SegmentSize ELSE size % SegmentSize
    <2>1. \A x \in LacingsOut : x.val \in Nat BY DEF LacingsOut
    <2>2. Values(L) \in Seq(Nat) /\ Len(Values(L)) = Len(L) /\ \A i \in 1 .. Len(L) : Values(L)[i] = L[i].val
      BY <2>1, <1>4, ValuesAre
    <2>. QED  BY <2>2, <1>4
  <1>7. Spelt(D, Values(L), Stream!Bytes(k, size))
    <2>1. /\ Len(Values(L)) = (size \div SegmentSize) + 1
          /\ \A i \in 1 .. size \div SegmentSize : Values(L)[i] = SegmentSize
          /\ Values(L)[(size \div SegmentSize) + 1] = size % SegmentSize
      <3> HIDE DEF f
      <3>1. \A i \in 1 .. f : i \in 1 .. f + 1 /\ i <= f BY <1>1
      <3>2. f + 1 \in 1 .. f + 1 /\ ~(f + 1 <= f) BY <1>1
      <3>3. Len(Values(L)) = f + 1 /\ (\A i \in 1 .. f : Values(L)[i] = SegmentSize)
            /\ Values(L)[f + 1] = size % SegmentSize
        BY <3>1, <3>2, <1>6
      <3>. QED  BY <3>3 DEF f
    <2>2. Len(D) = Len(Values(L)) /\ \A i \in 1 .. Len(Values(L)) : D[i] = <<k, i - 1>>
      BY <1>3, <1>6
    <2> HIDE DEF k, f
    <2>. QED  BY <2>1, <2>2, <1>1, <1>3, <1>6, PacketSpelt
  <1>8. FullOnes(p, k) = f BY <1>2 DEF FullOnes
  <1> HIDE DEF f, k
  <1>9. \A i \in 1 .. f + 1 : OneOf(p, D[i]) /\ D[i][1] = k /\ D[i][2] = i - 1 /\ (IsEnd(p, D[i]) <=> i = f + 1)
    <2> TAKE i \in 1 .. f + 1
    <2>1. D[i] = <<k, i - 1>> /\ D[i] \in Pairs BY <1>1, <1>3, SMTT(60) DEF Pairs
    <2>2. k < Len(p) /\ i - 1 <= f BY <1>1, <1>2
    <2>3. D[i][1] = k /\ D[i][2] = i - 1 BY <2>1
    <2>4. OneOf(p, D[i]) BY <2>1, <2>2, <2>3, <1>8 DEF OneOf
    <2>5. IsEnd(p, D[i]) <=> i - 1 = f BY <2>3, <1>8 DEF IsEnd
    <2>. QED  BY <2>3, <2>4, <2>5, <1>1
  <1>10. Row(p, D)
    <2>1. ASSUME NEW i \in 1 .. Len(D) - 1 PROVE D[i + 1] = FollowerOf(p, D[i])
      <3>1. i \in 1 .. f + 1 /\ i + 1 \in 1 .. f + 1 /\ i # f + 1 /\ (i + 1) - 1 = (i - 1) + 1
        BY <1>1, <1>3
      <3>2. D[i + 1] = <<k, (i - 1) + 1>> BY <3>1, <1>3
      <3>3. FollowerOf(p, D[i]) = <<k, (i - 1) + 1>>
        BY <3>1, <1>9 DEF FollowerOf
      <3>. QED  BY <3>2, <3>3
    <2>. QED  BY <2>1, <1>3, <1>9 DEF Row
  <1>11. f + 1 \in 1 .. f + 1 /\ 1 \in 1 .. f + 1 /\ Len(D) > 0 /\ D[1] = <<k, 0>> /\ Final(D) = D[f + 1]
    BY <1>1, <1>3 DEF Final
  <1>12. IsLast(p, Final(D))
    <2>1. D[f + 1][1] = k /\ IsEnd(p, D[f + 1]) BY <1>9, <1>11
    <2>2. Len(p) - 1 = k BY <1>1, <1>2
    <2>. QED  BY <2>1, <2>2, <1>11 DEF IsLast
  <1>13. Row(p, W) BY <1>1, RowStays DEF p
  <1>14. Len(W) > 0 /\ Len(D) > 0 => D[1] = FollowerOf(p, Final(W))
    <2> HAVE Len(W) > 0 /\ Len(D) > 0
    <2>1. Len(W) \in 1 .. Len(W) BY <1>1
    <2>2. OneOf(q, Final(W)) /\ IsLast(q, Final(W)) /\ Final(W)[1] = k - 1
      BY <2>1, <1>1 DEF Row, Final, IsLast, k
    <2>3. FollowerOf(q, Final(W)) = <<(k - 1) + 1, 0>>
      BY <2>2 DEF FollowerOf, IsLast
    <2>. QED  BY <2>2, <2>3, <1>1, <1>2, <1>11
  <1> DEFINE X == W \o D
  <1>15. /\ Row(p, X) /\ Len(X) = Len(W) + (f + 1)
         /\ (\A i \in 1 .. Len(W) : X[i] = W[i])
         /\ (\A i \in 1 .. f + 1 : X[Len(W) + i] = D[i])
    <2>1. /\ Row(p, X) /\ X \in Seq(Pairs) /\ Len(X) = Len(W) + Len(D)
          /\ (\A i \in 1 .. Len(W) : X[i] = W[i])
          /\ (\A i \in 1 .. Len(D) : X[Len(W) + i] = D[i])
          /\ Len(D) > 0 => Final(X) = Final(D)
      <3>1. W \in Seq(Pairs) /\ D \in Seq(Pairs) BY <1>1, <1>3
      <3>. QED  BY <3>1, <1>10, <1>13, <1>14, RowTogether, Zenon, SMTT(60)
    <2> HIDE DEF X
    <2>. QED  BY <2>1, <1>3
  <1>26. f \in Nat /\ Len(W) \in Nat /\ Len(X) = Len(W) + (f + 1)
    <2>1. W \in Seq(Pairs) /\ f \in Nat BY <1>1
    <2>. QED  BY <2>1, <1>15
  <1>27. Spelt(X, Values(w.lacing) \o Values(L), w.body \o Stream!Bytes(k, size))
    BY <1>1, <1>7, SpeltTogether
  <1> HIDE DEF X
  <1> DEFINE l == w.lacing \o L
  <1>16. /\ l \in Seq(LacingsOut) /\ Len(l) = Len(W) + (f + 1)
         /\ (\A i \in 1 .. Len(W) : l[i] = w.lacing[i])
         /\ (\A i \in 1 .. f + 1 : l[Len(W) + i] = L[i])
    <2>1. w.lacing \in Seq(LacingsOut) BY <1>1, WrittenIs
    <2>2. /\ l \in Seq(LacingsOut) /\ Len(l) = Len(w.lacing) + Len(L)
          /\ (\A i \in 1 .. Len(w.lacing) : l[i] = w.lacing[i])
          /\ (\A i \in 1 .. Len(L) : l[Len(w.lacing) + i] = L[i])
      BY <2>1, <1>4
    <2>. QED  BY <2>2, <1>1, <1>4
  <1>17. Spelt(X, Values(l), w.body \o Stream!Bytes(k, size))
    <2>1. Values(l) = Values(w.lacing) \o Values(L)
      <3>1. \A x \in LacingsOut : x.val \in Nat BY DEF LacingsOut
      <3>2. w.lacing \in Seq(LacingsOut) BY <1>1, WrittenIs
      <3>. QED  BY <3>1, <3>2, <1>4, ValuesJoined
    <2>. QED  BY <2>1, <1>27
  <1>18. v \in Written /\ v.lacing = l /\ v.body = w.body \o Stream!Bytes(k, size)
    <2>1. w.body \o Stream!Bytes(k, size) \in Seq(Pairs) BY <1>17 DEF Spelt
    <2> HIDE DEF l
    <2>. QED  BY <2>1, <1>1, <1>5, <1>16 DEF Written, l
  <1> HIDE DEF l
  <1>19. ASSUME NEW i \in 1 .. Len(X)
         PROVE  /\ l[i].val = ValueOf(p, X[i]) /\ l[i].first = (X[i][2] = 0)
                /\ IsEnd(p, X[i]) => l[i].granule = X[i][1]
    <2>1. CASE i <= Len(W)
      <3>1. i \in 1 .. Len(W) /\ X[i] = W[i] /\ l[i] = w.lacing[i]
        BY <2>1, <1>1, <1>15, <1>16
      <3>2. OneOf(q, W[i]) BY <3>1, <1>1 DEF Row
      <3>. QED  BY <3>1, <3>2, <1>2 DEF WriterHas
    <2>2. CASE i > Len(W)
      <3> DEFINE j == i - Len(W)
      <3>1. j \in 1 .. f + 1 /\ i = Len(W) + j
        <4>1. i \in Nat /\ i <= Len(W) + (f + 1) BY <1>26
        <4>. QED  BY <4>1, <2>2, <1>26
      <3> HIDE DEF j
      <3>2. X[i] = D[j] /\ l[i] = L[j] BY <3>1, <1>15, <1>16
      <3>3. D[j][2] = j - 1 /\ D[j][1] = k /\ (IsEnd(p, D[j]) <=> j = f + 1)
        BY <3>1, <1>9
      <3>4. (j <= f <=> j # f + 1) /\ (j = 1 <=> j - 1 = 0) BY <3>1, <1>1
      <3>5. ValueOf(p, D[j]) = IF j = f + 1 THEN size % SegmentSize ELSE SegmentSize
        BY <3>3, <1>2 DEF ValueOf
      <3>. QED  BY <3>1, <3>2, <3>3, <3>4, <3>5, <1>4
    <2>. QED  BY <2>1, <2>2, <1>1, <1>15
  <1>20. WriterHas(p, v, X) BY <1>15, <1>17, <1>18, <1>19 DEF WriterHas
  <1>. QED  BY <1>3, <1>11, <1>12, <1>20 DEF p, v, k, X

(* The least of a set of numbers, as the container takes it. *)
LEMMA MinOf ==
  ASSUME NEW S, S \subseteq Nat, S # {}
  PROVE  Stream!Min(S) \in S /\ \A x \in S : Stream!Min(S) <= x
  <1>1. \E x \in S : \A y \in S : x <= y BY LeastOf
  <1>. QED  BY <1>1 DEF Stream!Min

(* The greatest. *)
LEMMA MaxOf ==
  ASSUME NEW n \in Nat, NEW S, S \subseteq 0 .. n, S # {}
  PROVE  Stream!Max(S) \in S /\ \A x \in S : x <= Stream!Max(S)
  <1> DEFINE D == {d \in Nat : d <= n /\ n - d \in S}
  <1>1. D # {}
    <2>1. PICK x \in S : TRUE OBVIOUS
    <2>2. x \in 0 .. n /\ n - x \in Nat /\ n - x <= n /\ n - (n - x) = x BY <2>1
    <2>. QED  BY <2>1, <2>2
  <1>2. PICK m \in D : \A d \in D : m <= d BY <1>1, LeastOf
  <1>3. m \in Nat /\ m <= n /\ n - m \in S OBVIOUS
  <1>4. \A x \in S : x <= n - m
    <2> TAKE x \in S
    <2>1. x \in 0 .. n /\ n - x \in Nat /\ n - x <= n /\ n - (n - x) = x OBVIOUS
    <2>2. n - x \in D BY <2>1
    <2>3. m <= n - x BY <2>2, <1>2
    <2>. QED  BY <2>1, <2>3, <1>3
  <1>5. \E x \in S : \A y \in S : y <= x BY <1>3, <1>4
  <1>6. Stream!Max(S) = CHOOSE x \in S : \A y \in S : x >= y BY DEF Stream!Max
  <1>7. \E x \in S : \A y \in S : x >= y
    <2>1. \A x, y \in S : y <= x <=> x >= y OBVIOUS
    <2>. QED  BY <2>1, <1>5
  <1>8. Stream!Max(S) \in S /\ \A y \in S : Stream!Max(S) >= y BY <1>6, <1>7
  <1>9. S \subseteq Int OBVIOUS
  <1>. QED  BY <1>8, <1>9

(* How many segments a page takes: one at least; the first page no more *)
(* than a packet. *)
LEMMA CutIs ==
  ASSUME NEW w, w \in Written, Len(w.lacing) > 0
  PROVE  /\ Stream!Cut(w, NominalFill).vals \in 1 .. Len(w.lacing)
         /\ ~w.bos => \A i \in 1 .. Stream!Cut(w, NominalFill).vals - 1 : ~Stream!Ends(w.lacing[i].val)
  <1> DEFINE most  == Stream!Lesser(PageSegments, Len(w.lacing))
             first == {n \in 1 .. most : Stream!Ends(w.lacing[n].val)}
             cuts  == {n \in 0 .. most - 1 : /\ Stream!Total(Stream!Vals(w, n)) > NominalFill
                                             /\ Stream!JustDone(w, n) >= Gather}
             chosen   == Stream!Cut(w, NominalFill)
  <1>1. chosen = IF ~w.bos
              THEN [vals |-> IF first # {} THEN Stream!Min(first) ELSE most, full |-> FALSE]
              ELSE IF cuts # {} THEN [vals |-> Stream!Min(cuts), full |-> TRUE]
              ELSE [vals |-> most, full |-> most = PageSegments]
    BY DEF Stream!Cut
  <1>2. most \in 1 .. Len(w.lacing) /\ Len(w.lacing) \in Nat
    <2>1. PageSegments \in Nat \ {0} /\ Len(w.lacing) \in Nat
      BY WrittenIs, StreamAssumption DEF Stream!OggAssumption
    <2>. QED  BY <2>1 DEF Stream!Lesser
  <1>3. first # {} => Stream!Min(first) \in first /\ \A i \in first : Stream!Min(first) <= i
    <2>1. first \subseteq Nat OBVIOUS
    <2> HIDE DEF first
    <2>. QED  BY <2>1, MinOf
  <1>4. cuts # {} => Stream!Min(cuts) \in cuts
    <2>1. cuts \subseteq Nat OBVIOUS
    <2> HIDE DEF cuts
    <2>. QED  BY <2>1, MinOf
  <1>5. 0 \notin cuts
    <2>1. Stream!Total(Stream!Vals(w, 0)) = 0
      <3>1. Stream!Vals(w, 0) = <<>> BY DEF Stream!Vals
      <3>2. <<>> \in Seq(Nat) /\ Len(<<>>) = 0 OBVIOUS
      <3>3. Stream!Total(<<>>) = 0 BY <3>2, SumsUp
      <3>. QED  BY <3>1, <3>3
    <2>2. NominalFill \in Nat BY StreamAssumption DEF Stream!OggAssumption
    <2>. QED  BY <2>1, <2>2
  <1>6. first \subseteq 1 .. most /\ cuts \subseteq 0 .. most - 1 /\ \A i \in 1 .. most : i \notin first => ~Stream!Ends(w.lacing[i].val)
    OBVIOUS
  <1> HIDE DEF most, first, cuts, chosen
  <1>7. CASE ~w.bos
    <2>1. chosen.vals = IF first # {} THEN Stream!Min(first) ELSE most
      BY <1>1, <1>7
    <2>2. chosen.vals \in 1 .. most
      <3>1. first # {} => Stream!Min(first) \in 1 .. most BY <1>3, <1>6
      <3>2. most \in 1 .. most BY <1>2
      <3>. QED  BY <2>1, <3>1, <3>2
    <2>3. ASSUME NEW i \in 1 .. chosen.vals - 1 PROVE ~Stream!Ends(w.lacing[i].val)
      <3>1. i \in 1 .. most /\ ~(chosen.vals <= i) BY <2>2, <1>2
      <3>2. i \notin first BY <3>1, <2>1, <1>3
      <3>. QED  BY <3>1, <3>2, <1>6
    <2>4. chosen.vals \in 1 .. Len(w.lacing) BY <2>2, <1>2
    <2>. QED  BY <2>3, <2>4 DEF chosen
  <1>8. CASE w.bos
    <2>1. chosen.vals = IF cuts # {} THEN Stream!Min(cuts) ELSE most
      BY <1>1, <1>8
    <2>2. cuts # {} => Stream!Min(cuts) \in 1 .. most
      <3> HAVE cuts # {}
      <3>1. Stream!Min(cuts) \in 0 .. most - 1 /\ Stream!Min(cuts) # 0
        BY <1>4, <1>5, <1>6
      <3>. QED  BY <3>1, <1>2
    <2>3. chosen.vals \in 1 .. Len(w.lacing) BY <2>1, <2>2, <1>2
    <2>. QED  BY <2>3, <1>8 DEF chosen
  <1>. QED  BY <1>7, <1>8

(* A page, and what is left to write. *)
LEMMA PageIsCut ==
  ASSUME NEW q, Sizes(q), NEW w, NEW W, WriterHas(q, w, W), NEW m \in Nat \ {0},
         w.bos <=> m > 1, w.pageno = m - 1, m = 1 => W[1] = <<0, 0>>,
         NEW n \in 1 .. Len(w.lacing), IsLast(q, Final(W)),
         ~w.bos => \A i \in 1 .. n - 1 : ~Stream!Ends(w.lacing[i].val)
  PROVE  /\ PageHas(q, w.eos, Stream!PageOf(w, n), SubSeq(W, 1, n), m)
         /\ WriterHas(q, [w EXCEPT !.lacing = SubSeq(w.lacing, n + 1, Len(w.lacing)),
                                   !.body = SubSeq(w.body, Stream!Total(Stream!Vals(w, n)) + 1, Len(w.body)),
                                   !.bos = TRUE, !.pageno = w.pageno + 1],
                      SubSeq(W, n + 1, Len(W)))
  <1> DEFINE V  == Values(w.lacing)
             e  == UpTo(V, n)
             T  == SubSeq(W, 1, n)
             X  == SubSeq(W, n + 1, Len(W))
             V1 == SubSeq(V, 1, n)
             V2 == SubSeq(V, n + 1, Len(V))
             B1 == SubSeq(w.body, 1, e)
             B2 == SubSeq(w.body, e + 1, Len(w.body))
             l  == SubSeq(w.lacing, n + 1, Len(w.lacing))
             p  == Stream!PageOf(w, n)
             v  == [w EXCEPT !.lacing = l, !.body = SubSeq(w.body, Stream!Total(Stream!Vals(w, n)) + 1, Len(w.body)),
                             !.bos = TRUE, !.pageno = w.pageno + 1]
  <1>1. /\ w \in Written /\ Row(q, W) /\ Spelt(W, V, w.body)
        /\ W \in Seq(Pairs) /\ Len(W) = Len(w.lacing) /\ Len(V) = Len(w.lacing) /\ Len(w.lacing) \in Nat
        /\ w.lacing \in Seq(LacingsOut) /\ w.body \in Seq(Pairs)
    <2>1. w \in Written /\ Row(q, W) /\ Spelt(W, V, w.body) BY DEF WriterHas
    <2>2. W \in Seq(Pairs) /\ Len(W) = Len(V) BY <2>1 DEF Spelt
    <2>. QED  BY <2>1, <2>2, WrittenIs
  <1>2. n \in 0 .. Len(V) /\ n \in 0 .. Len(W) /\ n \in Nat /\ n > 0 /\ n \in 0 .. Len(w.lacing)
    BY <1>1
  <1>3. Stream!Vals(w, n) = V1 /\ Values(l) = V2
    <2>1. \A x \in LacingsOut : x.val \in Nat BY DEF LacingsOut
    <2>2. /\ Values(SubSeq(w.lacing, n + 1, Len(w.lacing))) = SubSeq(Values(w.lacing), n + 1, Len(w.lacing))
          /\ [i \in 1 .. n |-> w.lacing[i].val] = SubSeq(Values(w.lacing), 1, n)
      BY <2>1, <1>1, <1>2, ValuesInTwo, SMTT(60)
    <2>. QED  BY <2>2, <1>1 DEF Stream!Vals
  <1>4. Stream!Total(Stream!Vals(w, n)) = e BY <1>3 DEF UpTo
  <1>5. e \in 0 .. Len(w.body) /\ Spelt(T, V1, B1) /\ Spelt(X, V2, B2)
    <2> HIDE DEF V
    <2>. QED  BY <1>1, <1>2, SpeltInTwo
  <1>6. /\ T \in Seq(Pairs) /\ Len(T) = n /\ Row(q, T) /\ (\A i \in 1 .. n : T[i] = W[i]) /\ Final(T) = W[n]
        /\ X \in Seq(Pairs) /\ Len(X) = Len(W) - n /\ Row(q, X)
        /\ (\A i \in 1 .. Len(W) - n : X[i] = W[n + i])
        /\ n < Len(W) => W[n + 1] = FollowerOf(q, W[n])
    BY <1>1, <1>2, RowInTwo
  <1>7. /\ l \in Seq(LacingsOut) /\ Len(l) = Len(W) - n
        /\ \A i \in 1 .. Len(W) - n : l[i] = w.lacing[n + i]
    <2>1. /\ l \in Seq(LacingsOut) /\ Len(l) = Len(w.lacing) - n
          /\ \A i \in 1 .. Len(w.lacing) - n : l[i] = w.lacing[n + i]
      <3> DEFINE L == w.lacing
      <3>1. L \in Seq(LacingsOut) /\ n \in 0 .. Len(L) BY <1>1, <1>2
      <3> HIDE DEF L
      <3>2. /\ SubSeq(L, n + 1, Len(L)) \in Seq(LacingsOut) /\ Len(SubSeq(L, n + 1, Len(L))) = Len(L) - n
            /\ \A i \in 1 .. Len(L) - n : SubSeq(L, n + 1, Len(L))[i] = L[n + i]
        BY <3>1, CutAt
      <3>. QED  BY <3>2 DEF L
    <2>. QED  BY <2>1, <1>1
  <1>8. p = [continued |-> ~w.lacing[1].first, bos |-> ~w.bos,
             eos |-> w.eos /\ Len(w.lacing) = n, granule |-> Stream!PagePosition(w, n),
             pageno |-> w.pageno, segments |-> V1, body |-> B1]
    BY <1>3, <1>4 DEF Stream!PageOf
  <1>9. v = [w EXCEPT !.lacing = l, !.body = B2, !.bos = TRUE, !.pageno = w.pageno + 1]
    BY <1>4
  <1>10. \A i \in 1 .. Len(W) :
            /\ OneOf(q, W[i]) /\ w.lacing[i].val = ValueOf(q, W[i])
            /\ w.lacing[i].first = (W[i][2] = 0)
            /\ IsEnd(q, W[i]) => w.lacing[i].granule = W[i][1]
            /\ Stream!Ends(w.lacing[i].val) <=> IsEnd(q, W[i])
    <2> TAKE i \in 1 .. Len(W)
    <2>1. OneOf(q, W[i]) /\ w.lacing[i].val = ValueOf(q, W[i])
      BY <1>1 DEF WriterHas, Row
    <2>2. Stream!Ends(ValueOf(q, W[i])) <=> IsEnd(q, W[i]) BY <2>1, Segments
    <2>. QED  BY <2>1, <2>2 DEF WriterHas
  <1>11. /\ V1 \in Seq(Nat) /\ \A i \in 1 .. n : V1[i] = w.lacing[i].val
    <2>1. V \in Seq(Nat) /\ \A i \in 1 .. Len(w.lacing) : V[i] = w.lacing[i].val
      BY <1>1, WrittenIs
    <2>2. V1 \in Seq(Nat) /\ \A i \in 1 .. n : V1[i] = V[i] BY <2>1, <1>2, CutAt
    <2>3. \A i \in 1 .. n : i \in 1 .. Len(w.lacing) BY <1>1
    <2>. QED  BY <2>1, <2>2, <2>3
  <1>12. B1 \in Seq(Pairs) /\ B2 \in Seq(Pairs) BY <1>5 DEF Spelt
  <1> DEFINE ends == {i \in 1 .. n : Stream!Ends(w.lacing[i].val)}
             g == Stream!PagePosition(w, n)
  <1>13. g = IF ~w.bos THEN 0 ELSE IF ends = {} THEN Stream!NoPosition ELSE w.lacing[Stream!Max(ends)].granule
    BY DEF Stream!PagePosition
  <1>14. ends # {} => Stream!Max(ends) \in ends /\ \A i \in ends : i <= Stream!Max(ends)
    <2>1. ends \subseteq 0 .. n OBVIOUS
    <2> HIDE DEF ends
    <2>. QED  BY <2>1, <1>2, MaxOf
  <1>15. \A i \in 1 .. n : i \in 1 .. Len(W) /\ (i \in ends <=> IsEnd(q, T[i]))
    <2> TAKE i \in 1 .. n
    <2>1. i \in 1 .. Len(W) BY <1>1, <1>2
    <2>. QED  BY <2>1, <1>6, <1>10
  <1>16. ends \subseteq 1 .. n OBVIOUS
  <1> HIDE DEF V, e, T, X, V1, V2, B1, B2, l, p, v, ends, g
  <1>17. g \in Int
    <2>1. ASSUME ends # {} PROVE w.lacing[Stream!Max(ends)].granule \in Int
      <3>1. Stream!Max(ends) \in 1 .. Len(w.lacing)
        BY <2>1, <1>14, <1>15, <1>16, <1>1
      <3>2. w.lacing[Stream!Max(ends)] \in LacingsOut BY <3>1, <1>1
      <3>. QED  BY <3>2 DEF LacingsOut
    <2>. QED  BY <2>1, <1>13 DEF Stream!NoPosition
  <1>18. ASSUME NEW i \in 1 .. n, IsEnd(q, T[i]), \A j \in i + 1 .. n : ~IsEnd(q, T[j])
         PROVE  g = T[i][1]
    <2>1. i \in ends BY <1>15, <1>18
    <2>2. CASE w.bos
      <3>1. Stream!Max(ends) \in 1 .. n /\ i <= Stream!Max(ends) /\ IsEnd(q, T[Stream!Max(ends)])
        BY <2>1, <1>14, <1>15, <1>16
      <3>2. Stream!Max(ends) \notin i + 1 .. n BY <3>1, <1>18
      <3>3. Stream!Max(ends) = i BY <3>1, <3>2, <1>2
      <3>4. g = w.lacing[i].granule BY <2>1, <2>2, <3>3, <1>13
      <3>5. i \in 1 .. Len(W) /\ T[i] = W[i] BY <1>6, <1>15
      <3>. QED  BY <3>4, <3>5, <1>10, <1>18
    <2>3. CASE ~w.bos
      <3>1. m = 1 /\ W[1] = <<0, 0>> BY <2>3
      <3>2. i \in 1 .. Len(W) /\ i >= 1 BY <1>15, <1>2
      <3>3. \A j \in 1 .. i - 1 : ~IsEnd(q, W[j])
        <4> TAKE j \in 1 .. i - 1
        <4>1. j \in 1 .. n - 1 /\ j \in 1 .. Len(W) BY <1>1, <1>2
        <4>2. ~Stream!Ends(w.lacing[j].val) BY <4>1, <2>3
        <4>. QED  BY <4>1, <4>2, <1>10
      <3>4. \A j \in 1 .. i : W[j] = <<W[1][1], W[1][2] + (j - 1)>>
        <4>1. Sizes(q) /\ W \in Seq(Pairs) /\ Row(q, W) BY <1>1
        <4>. QED  BY ONLY <4>1, <3>2, <3>3, OnePacket
      <3>5. W[i][1] = 0
        <4>1. i \in 1 .. i /\ W[1][1] = 0 BY <3>1, <3>2
        <4>2. W[i] = <<W[1][1], W[1][2] + (i - 1)>> BY <4>1, <3>4
        <4>. QED  BY <4>1, <4>2
      <3>. QED  BY <3>5, <2>3, <1>6, <1>13
    <2>. QED  BY <2>2, <2>3
  <1>19. (w.eos /\ Len(w.lacing) = n) = (w.eos /\ IsLast(q, Final(T)))
    <2>1. CASE n = Len(W)
      <3>1. Final(T) = Final(W) BY <2>1, <1>6 DEF Final
      <3>. QED  BY <3>1, <2>1, <1>1
    <2>2. CASE n # Len(W)
      <3>1. n < Len(W) /\ n \in 1 .. Len(W) /\ n + 1 \in 1 .. Len(W)
        BY <2>2, <1>1, <1>2
      <3>2. OneOf(q, W[n]) /\ OneOf(q, FollowerOf(q, W[n])) BY <3>1, <1>6, <1>10
      <3>3. ~IsLast(q, W[n]) BY <3>2, Segments
      <3>. QED  BY <3>3, <2>2, <1>1, <1>6
    <2>. QED  BY <2>1, <2>2
  <1>20. 1 \in 1 .. n /\ 1 \in 1 .. Len(W) /\ w.pageno \in Nat /\ w.eos \in BOOLEAN /\ w.bos \in BOOLEAN
         /\ w.lacing[1].first = (T[1][2] = 0)
    <2>1. 1 \in 1 .. n /\ 1 \in 1 .. Len(W) BY <1>1, <1>2
    <2>2. w.pageno \in Nat /\ w.eos \in BOOLEAN /\ w.bos \in BOOLEAN
      BY <1>1 DEF Written
    <2>. QED  BY <2>1, <2>2, <1>6, <1>10
  <1>21. p \in OggPages BY <1>8, <1>11, <1>12, <1>17, <1>20 DEF OggPages, g
  <1>22. PageHas(q, w.eos, p, T, m)
    <2>1. /\ p.continued = (T[1][2] # 0) /\ p.bos = (m = 1) /\ p.pageno = m - 1
          /\ p.eos = (w.eos /\ IsLast(q, Final(T))) /\ p.segments = V1 /\ p.body = B1 /\ p.granule = g
      <3>1. p.continued = ~w.lacing[1].first /\ p.bos = ~w.bos /\ p.pageno = w.pageno
            /\ p.eos = (w.eos /\ Len(w.lacing) = n) /\ p.segments = V1 /\ p.body = B1 /\ p.granule = g
        BY <1>8 DEF g
      <3>2. (~w.lacing[1].first) = (T[1][2] # 0) BY <1>20
      <3>3. (~w.bos) = (m = 1) BY <1>20
      <3>. QED  BY <3>1, <3>2, <3>3, <1>19
    <2>2. \A i \in 1 .. n : V1[i] = ValueOf(q, T[i])
      BY <1>6, <1>10, <1>11, <1>15
    <2>. QED  BY <2>1, <2>2, <1>2, <1>5, <1>6, <1>18, <1>21 DEF PageHas
  <1>23. v \in Written /\ v.lacing = l /\ v.body = B2
    <2>1. w \in Written /\ l \in Seq(LacingsOut) /\ B2 \in Seq(Pairs) /\ w.pageno + 1 \in Nat
      BY <1>1, <1>7, <1>12, <1>20
    <2> DEFINE k == w.pageno + 1
    <2> HIDE DEF k
    <2>2. v = [w EXCEPT !.lacing = l, !.body = B2, !.bos = TRUE, !.pageno = k]
      BY <1>9 DEF k
    <2>3. k \in Nat BY <2>1 DEF k
    <2>. QED  BY <2>1, <2>2, <2>3 DEF Written
  <1>24. WriterHas(q, v, X)
    <2>1. \A i \in 1 .. Len(W) - n : n + i \in 1 .. Len(W) BY <1>1, <1>2
    <2>2. ASSUME NEW i \in 1 .. Len(X)
          PROVE  /\ l[i].val = ValueOf(q, X[i]) /\ l[i].first = (X[i][2] = 0)
                 /\ IsEnd(q, X[i]) => l[i].granule = X[i][1]
      <3>1. i \in 1 .. Len(W) - n BY <1>6
      <3>2. n + i \in 1 .. Len(W) /\ X[i] = W[n + i] /\ l[i] = w.lacing[n + i]
        BY <3>1, <2>1, <1>6, <1>7
      <3>. QED  BY <3>2, <1>10
    <2>. QED  BY <2>2, <1>3, <1>5, <1>6, <1>23 DEF WriterHas
  <1>. QED  BY <1>22, <1>24 DEF p, v, T, X, l

(* A packet is submitted. *)
LEMMA SubmitStream ==
  ASSUME StreamInv, Stream!Submit
  PROVE  StreamInv'
  <1>1. PICK F, W, R : StreamIs(F, W, R) BY DEF StreamInv
  <1>2. PICK size \in PacketSizes, e \in BOOLEAN :
          /\ in' = Append(in, size) /\ os' = Stream!PacketIn(os, Len(in), size, e)
          /\ ~os.eos /\ UNCHANGED <<pages, next, unsynced, damaged, rs, out>>
    BY DEF Stream!Submit
  <1>3. size \in Nat \ {0} /\ Sizes(in) /\ WriterHas(in, os, W) /\ Joined(in, F, W) /\ os \in Written
    BY <1>1, StreamAssumption DEF StreamIs, Stream!OggAssumption, WriterHas
  <1>4. PICK D : /\ D \in Seq(Pairs) /\ Len(D) > 0 /\ D[1] = <<Len(in), 0>>
                 /\ IsLast(in', Final(D)) /\ WriterHas(in', os', W \o D)
    <2>1. Len(W) > 0 => IsLast(in, Final(W)) BY <1>3 DEF Joined
    <2>2. \E D : /\ D \in Seq(Pairs) /\ Len(D) > 0 /\ D[1] = <<Len(in), 0>>
                 /\ IsLast(Append(in, size), Final(D))
                 /\ WriterHas(Append(in, size), Stream!PacketIn(os, Len(in), size, e), W \o D)
      BY <1>3, <2>1, PacketComes
    <2>. QED  BY <2>2, <1>2
  <1> DEFINE X == W \o D
  <1>5. /\ X \in Seq(Pairs) /\ Len(X) = Len(W) + Len(D) /\ Len(W) \in Nat /\ Len(D) \in Nat
        /\ (\A i \in 1 .. Len(W) : X[i] = W[i])
        /\ (\A i \in 1 .. Len(D) : X[Len(W) + i] = D[i])
    <2>1. W \in Seq(Pairs) /\ D \in Seq(Pairs)
      BY <1>3, <1>4 DEF WriterHas, Spelt
    <2>2. Len(W) \in Nat /\ Len(D) \in Nat BY <2>1
    <2>. QED  BY <2>1, <2>2, PairsJoined
  <1> HIDE DEF X
  <1>6. Len(X) > 0 /\ Final(X) = Final(D) /\ X[1] = IF Len(W) > 0 THEN W[1] ELSE <<Len(in), 0>>
    <2>1. Len(D) \in 1 .. Len(D) /\ 1 \in 1 .. Len(D) /\ (Len(W) > 0 => 1 \in 1 .. Len(W)) /\ (~(Len(W) > 0) => Len(W) + 1 = 1)
      BY <1>4, <1>5
    <2>2. Len(X) > 0 BY <1>4, <1>5
    <2>. QED  BY <2>1, <2>2, <1>4, <1>5 DEF Final
  <1>7. /\ Sizes(in') /\ Len(in') = Len(in) + 1 /\ Len(in) \in Nat
        /\ \A t : OneOf(in, t) => /\ OneOf(in', t) /\ FollowerOf(in', t) = FollowerOf(in, t)
                                  /\ IsEnd(in', t) = IsEnd(in, t)
    BY <1>2, <1>3, SegmentsStay DEF Sizes
  <1>8. PagesHave(in, FALSE, pages, F) /\ os.eos = FALSE
    <2>1. os.eos = FALSE BY <1>2, <1>3 DEF Written
    <2>. QED  BY <2>1, <1>1 DEF StreamIs
  <1>9. \A m \in 1 .. Len(F) : OneOf(in, Final(F[m]))
    <2> TAKE m \in 1 .. Len(F)
    <2>1. PageHas(in, FALSE, pages[m], F[m], m) BY <1>8 DEF PagesHave
    <2>2. Row(in, F[m]) /\ Len(F[m]) > 0 /\ F[m] \in Seq(Pairs)
      BY <2>1 DEF PageHas, Spelt
    <2>3. Len(F[m]) \in 1 .. Len(F[m]) BY <2>2
    <2>. QED  BY <2>2, <2>3 DEF Row, Final
  <1>10. Joined(in', F, X)
    <2>1. F \in Seq(Seq(Pairs)) /\ Len(F) \in Nat BY <1>3 DEF Joined
    <2>2. \A m \in 1 .. Len(F) - 1 : F[m + 1][1] = FollowerOf(in', Final(F[m]))
      <3>1. \A m \in 1 .. Len(F) - 1 : m \in 1 .. Len(F) BY <2>1
      <3>. QED  BY <3>1, <1>3, <1>7, <1>9 DEF Joined
    <2>3. X[1] = IF Len(F) = 0 THEN <<0, 0>> ELSE FollowerOf(in', Final(Final(F)))
      <3>1. CASE Len(F) = 0
        <4>1. Len(W) = 0 => Len(in) = 0 BY <3>1, <1>3 DEF Joined
        <4>2. Len(W) > 0 => W[1] = <<0, 0>> BY <3>1, <1>3 DEF Joined
        <4>. QED  BY <4>1, <4>2, <3>1, <1>5, <1>6
      <3>2. CASE Len(F) # 0
        <4> DEFINE t == Final(Final(F))
        <4>1. OneOf(in, t)
          <5>1. Len(F) \in 1 .. Len(F) BY <3>2, <2>1
          <5>. QED  BY <5>1, <1>9 DEF Final
        <4>2. Len(W) > 0 => W[1] = FollowerOf(in, t) BY <3>2, <1>3 DEF Joined
        <4>3. Len(W) = 0 => IsLast(in, t) BY <3>2, <1>3 DEF Joined
        <4> HIDE DEF t
        <4>4. FollowerOf(in', t) = FollowerOf(in, t) BY <4>1, <1>7
        <4>5. IsLast(in, t) => FollowerOf(in, t) = <<Len(in), 0>>
          BY <4>1, <1>7 DEF IsLast, FollowerOf, OneOf, Pairs
        <4>6. X[1] = FollowerOf(in', t) BY <4>2, <4>3, <4>4, <4>5, <1>5, <1>6
        <4>. QED  BY <4>6, <3>2 DEF t
      <3>. QED  BY <3>1, <3>2
    <2>4. /\ \A m \in 1 .. Len(F) : Len(F[m]) > 0
          /\ Len(F) > 0 => F[1][1] = <<0, 0>>
      BY <1>3 DEF Joined
    <2>5. ~(Len(X) = 0) BY <1>6
    <2>. QED  BY <2>1, <2>2, <2>3, <2>4, <2>5, <1>4, <1>5, <1>6 DEF Joined
  <1>11. os'.eos \in BOOLEAN /\ os'.bos = os.bos /\ os'.pageno = os.pageno
    <2>1. os' \in Written BY <1>4 DEF WriterHas
    <2>2. os'.bos = os.bos /\ os'.pageno = os.pageno
      BY <1>2, <1>3 DEF Stream!PacketIn, Written
    <2>. QED  BY <2>1, <2>2 DEF Written
  <1>12. PagesHave(in', os'.eos, pages', F)
    BY <1>2, <1>3, <1>8, <1>11, PagesStay
  <1>13. ReaderHas(in', os'.eos, rs', R)
    <2>1. ReaderHas(in, FALSE, rs, R) BY <1>1, <1>8 DEF StreamIs
    <2>. QED  BY <2>1, <1>2, <1>3, <1>11, ReaderStays
  <1>14. OutHas(in', os'.eos, out')
    <2>1. OutHas(in, FALSE, out) BY <1>1, <1>8 DEF StreamIs
    <2>. QED  BY <2>1, <1>2, <1>3, <1>11, OutStays
  <1>15. /\ damaged' \in Nat /\ (os'.bos <=> Len(pages') > 0) /\ os'.pageno = Len(pages')
         /\ WholeUpTo(rs') /\ ReaderAt(rs', R, F, next', damaged') /\ InTurn(out', damaged')
    BY <1>1, <1>2, <1>11 DEF StreamIs
  <1>16. GoesOn(in', out', rs', R, F, next', damaged')
    <2>1. GoesOn(in, out, rs, R, F, next, damaged) /\ ReaderAt(rs, R, F, next, damaged)
      BY <1>1 DEF StreamIs
    <2>2. rs.pageno # -1 => IsEnd(in', Final(F[rs.pageno])) = IsEnd(in, Final(F[rs.pageno]))
      <3> HAVE rs.pageno # -1
      <3>1. rs.pageno \in 1 .. Len(F)
        <4>1. Len(F) \in Nat BY <1>3 DEF Joined
        <4>. QED  BY <4>1, <2>1 DEF ReaderAt
      <3>. QED  BY <3>1, <1>7, <1>9
    <2>. QED  BY <2>1, <2>2, <1>2 DEF GoesOn
  <1>17. os'.eos => Len(in') > 0 BY <1>7
  <1>18. StreamIs(F, X, R)'
    BY <1>4, <1>7, <1>10, <1>12, <1>13, <1>14, <1>15, <1>16, <1>17 DEF StreamIs, X
  <1>. QED  BY <1>18 DEF StreamInv

(* A page is written, forced or full: what the writer held is cut in two. *)
LEMMA WriteStream ==
  ASSUME StreamInv, NEW force, Stream!WritePage(force)
  PROVE  StreamInv'
  <1>1. PICK F, W, R : StreamIs(F, W, R) BY DEF StreamInv
  <1> DEFINE n == Stream!Cut(os, NominalFill).vals
             v == [os EXCEPT !.lacing = SubSeq(os.lacing, n + 1, Len(os.lacing)),
                             !.body = SubSeq(os.body, Stream!Total(Stream!Vals(os, n)) + 1, Len(os.body)),
                             !.bos = TRUE, !.pageno = os.pageno + 1]
             p == Stream!PageOf(os, n)
             T == SubSeq(W, 1, n)
             X == SubSeq(W, n + 1, Len(W))
             G == Append(F, T)
  <1>2. /\ os.lacing # <<>> /\ pages' = Append(pages, p) /\ os' = v
        /\ UNCHANGED <<in, next, unsynced, damaged, rs, out>>
    BY DEF Stream!WritePage
  <1>3. /\ Sizes(in) /\ WriterHas(in, os, W) /\ Joined(in, F, W) /\ PagesHave(in, os.eos, pages, F)
        /\ (os.bos <=> Len(pages) > 0) /\ os.pageno = Len(pages)
    BY <1>1 DEF StreamIs
  <1>4. /\ os \in Written /\ W \in Seq(Pairs) /\ Row(in, W) /\ Len(W) = Len(os.lacing) /\ Len(os.lacing) \in Nat
        /\ os.lacing \in Seq(LacingsOut)
    <2>1. os \in Written /\ W \in Seq(Pairs) /\ Row(in, W) /\ Len(W) = Len(Values(os.lacing))
      BY <1>3 DEF WriterHas, Spelt
    <2>. QED  BY <2>1, WrittenIs
  <1>5. Len(os.lacing) > 0
    <2> DEFINE l == os.lacing
    <2>1. l # <<>> /\ l \in Seq(LacingsOut) BY <1>2, <1>4
    <2> HIDE DEF l
    <2>2. Len(l) > 0 BY <2>1
    <2>. QED  BY <2>2 DEF l
  <1>6. n \in 1 .. Len(os.lacing) /\ (~os.bos => \A i \in 1 .. n - 1 : ~Stream!Ends(os.lacing[i].val))
    BY <1>4, <1>5, CutIs
  <1> HIDE DEF n
  <1>7. /\ Len(pages) \in Nat /\ Len(F) = Len(pages) /\ F \in Seq(Seq(Pairs)) /\ pages \in Seq(OggPages)
    <2>1. pages \in Seq(OggPages) /\ Len(F) = Len(pages) /\ F \in Seq(Seq(Pairs))
      BY <1>3 DEF PagesHave, Joined
    <2>. QED  BY <2>1
  <1> DEFINE m == Len(pages) + 1
  <1>8. m \in Nat \ {0} /\ (os.bos <=> m > 1) /\ os.pageno = m - 1 /\ (m = 1 => W[1] = <<0, 0>>)
    <2>1. m = 1 => Len(F) = 0 BY <1>7
    <2>2. Len(F) = 0 => W[1] = <<0, 0>> BY <1>3, <1>4, <1>5 DEF Joined
    <2>. QED  BY <2>1, <2>2, <1>3, <1>7
  <1>9. IsLast(in, Final(W)) BY <1>3, <1>4, <1>5 DEF Joined
  <1>10. PageHas(in, os.eos, p, T, m) /\ WriterHas(in, v, X)
    <2> HIDE DEF m
    <2>. QED  BY <1>3, <1>6, <1>8, <1>9, PageIsCut
  <1>11. /\ T \in Seq(Pairs) /\ Len(T) = n /\ (\A i \in 1 .. n : T[i] = W[i]) /\ Final(T) = W[n]
         /\ X \in Seq(Pairs) /\ Len(X) = Len(W) - n
         /\ n < Len(W) => /\ Final(X) = Final(W) /\ X[1] = W[n + 1] /\ W[n + 1] = FollowerOf(in, W[n])
         /\ n \in Nat /\ n > 0
    <2>1. n \in 0 .. Len(W) /\ n \in Nat /\ n > 0 BY <1>4, <1>6
    <2>2. /\ T \in Seq(Pairs) /\ Len(T) = n /\ Row(in, T)
          /\ \A i \in 1 .. n : T[i] = W[i]
          /\ X \in Seq(Pairs) /\ Len(X) = Len(W) - n /\ Row(in, X)
          /\ \A i \in 1 .. Len(W) - n : X[i] = W[n + i]
          /\ n > 0 => Final(T) = W[n]
          /\ n < Len(W) => /\ Final(X) = Final(W) /\ X[1] = W[n + 1]
                           /\ n > 0 => W[n + 1] = FollowerOf(in, W[n])
      BY <2>1, <1>4, RowInTwo
    <2>. QED  BY <2>1, <2>2
  <1>12. v.eos = os.eos /\ v.bos = TRUE /\ v.pageno = os.pageno + 1 /\ p \in OggPages
    <2>1. v.eos = os.eos /\ v.bos = TRUE /\ v.pageno = os.pageno + 1
      BY <1>4 DEF Written
    <2>. QED  BY <2>1, <1>10 DEF PageHas
  <1> HIDE DEF v, p, T, X
  <1>13. /\ G \in Seq(Seq(Pairs)) /\ Len(G) = m /\ G[m] = T /\ (\A k \in 1 .. m - 1 : G[k] = F[k])
         /\ pages' \in Seq(OggPages) /\ Len(pages') = m /\ pages'[m] = p
         /\ (\A k \in 1 .. m - 1 : pages'[k] = pages[k])
    <2>1. G \in Seq(Seq(Pairs)) /\ Len(G) = m /\ G[m] = T /\ \A k \in 1 .. m - 1 : G[k] = F[k]
      BY <1>7, <1>11
    <2>2. /\ pages' \in Seq(OggPages) /\ Len(pages') = m /\ pages'[m] = p
          /\ (\A k \in 1 .. m - 1 : pages'[k] = pages[k])
      BY <1>2, <1>7, <1>12
    <2>. QED  BY <2>1, <2>2
  <1> HIDE DEF G
  <1>14. PagesHave(in, os.eos, pages', G)
    <2>1. ASSUME NEW k \in 1 .. Len(pages') PROVE PageHas(in, os.eos, pages'[k], G[k], k)
      <3>1. CASE k = m BY <3>1, <1>10, <1>13
      <3>2. CASE k # m
        <4>1. k \in 1 .. m - 1 /\ k \in 1 .. Len(pages) BY <3>2, <1>7, <1>13
        <4>. QED  BY <4>1, <1>3, <1>13 DEF PagesHave
      <3>. QED  BY <3>1, <3>2
    <2>. QED  BY <2>1, <1>13 DEF PagesHave
  <1>15. Joined(in, G, X)
    <2>1. /\ \A k \in 1 .. Len(F) : Len(F[k]) > 0
          /\ Len(F) > 0 => F[1][1] = <<0, 0>>
          /\ \A k \in 1 .. Len(F) - 1 : F[k + 1][1] = FollowerOf(in, Final(F[k]))
          /\ W[1] = IF Len(F) = 0 THEN <<0, 0>> ELSE FollowerOf(in, Final(Final(F)))
      BY <1>3, <1>4, <1>5 DEF Joined
    <2>2. \A k \in 1 .. m : Len(G[k]) > 0
      <3> TAKE k \in 1 .. m
      <3>1. CASE k = m BY <3>1, <1>11, <1>13
      <3>2. CASE k # m
        <4>1. k \in 1 .. m - 1 /\ k \in 1 .. Len(F) BY <3>2, <1>7
        <4>. QED  BY <4>1, <2>1, <1>13
      <3>. QED  BY <3>1, <3>2
    <2>3. T[1] = W[1]
      <3>1. 1 \in 1 .. n BY <1>11
      <3>. QED  BY <3>1, <1>11
    <2>4. G[1][1] = <<0, 0>>
      <3>1. CASE Len(F) = 0
        <4>1. m = 1 BY <3>1, <1>7
        <4>. QED  BY <4>1, <3>1, <2>1, <2>3, <1>13
      <3>2. CASE Len(F) # 0
        <4>1. 1 \in 1 .. m - 1 /\ Len(F) > 0 BY <3>2, <1>7
        <4>. QED  BY <4>1, <2>1, <1>13
      <3>. QED  BY <3>1, <3>2
    <2>5. ASSUME NEW k \in 1 .. m - 1 PROVE G[k + 1][1] = FollowerOf(in, Final(G[k]))
      <3>1. CASE k = m - 1
        <4>1. k + 1 = m /\ k = Len(F) /\ Len(F) # 0 BY <3>1, <1>7
        <4>2. G[k] = Final(F) BY <4>1, <1>13 DEF Final
        <4>. QED  BY <4>1, <4>2, <2>1, <2>3, <1>13
      <3>2. CASE k # m - 1
        <4>1. k + 1 \in 1 .. m - 1 /\ k \in 1 .. Len(F) - 1 BY <3>2, <1>7
        <4>. QED  BY <4>1, <2>1, <1>13
      <3>. QED  BY <3>1, <3>2
    <2>6. Final(G) = T BY <1>13 DEF Final
    <2>7. Len(X) > 0 => IsLast(in, Final(X)) /\ X[1] = FollowerOf(in, Final(Final(G)))
      <3> HAVE Len(X) > 0
      <3>1. n < Len(W) BY <1>4, <1>11
      <3>. QED  BY <3>1, <2>6, <1>9, <1>11
    <2>8. Len(X) = 0 => IsLast(in, Final(Final(G)))
      <3> HAVE Len(X) = 0
      <3>1. n = Len(W) BY <1>4, <1>11
      <3>2. Final(T) = Final(W) BY <3>1, <1>11 DEF Final
      <3>. QED  BY <3>2, <2>6, <1>9
    <2>9. m # 0 BY <1>7
    <2>. QED  BY <2>2, <2>4, <2>5, <2>7, <2>8, <2>9, <1>11, <1>13 DEF Joined
  <1>16. ReaderAt(rs, R, F, next, damaged) /\ GoesOn(in, out, rs, R, F, next, damaged)
    BY <1>1 DEF StreamIs
  <1>17. rs.pageno # -1 => G[rs.pageno] = F[rs.pageno]
    <2> HAVE rs.pageno # -1
    <2>1. rs.pageno \in 1 .. m - 1 BY <1>7, <1>16 DEF ReaderAt
    <2>. QED  BY <2>1, <1>13
  <1>18. ReaderAt(rs, R, G, next, damaged)
    <2>1. next \in 1 .. Len(G) + 1 BY <1>7, <1>13, <1>16 DEF ReaderAt
    <2>2. Len(R) > 0 /\ ~Final(rs.lacing).hole => rs.pageno # -1
      <3>1. Len(R) = Len(Values(rs.lacing)) /\ rs \in Read
        BY <1>1 DEF StreamIs, ReaderHas, Spelt
      <3>2. Len(R) = Len(rs.lacing) BY <3>1, ReadIs
      <3>. QED  BY <3>2, <1>16 DEF ReaderAt
    <2>. QED  BY <2>1, <2>2, <1>16, <1>17 DEF ReaderAt
  <1>19. GoesOn(in, out, rs, R, G, next, damaged) BY <1>16, <1>17 DEF GoesOn
  <1>20. PICK g, x : g = G /\ x = X OBVIOUS
  <1>21. StreamIs(g, x, R)'
    <2>1. /\ in' = in /\ damaged' = damaged /\ rs' = rs /\ out' = out /\ next' = next
          /\ os'.eos = os.eos /\ os'.bos = TRUE /\ os'.pageno = Len(pages')
          /\ Len(pages') > 0 /\ os' = v
      BY <1>2, <1>3, <1>7, <1>12, <1>13
    <2>2. /\ Sizes(in') /\ damaged' \in Nat /\ (os'.eos => Len(in') > 0)
          /\ WholeUpTo(rs') /\ InTurn(out', damaged')
          /\ ReaderHas(in', os'.eos, rs', R) /\ OutHas(in', os'.eos, out')
      BY <2>1, <1>1 DEF StreamIs
    <2>3. WriterHas(in', os', x) /\ Joined(in', g, x) /\ PagesHave(in', os'.eos, pages', g)
      BY <1>20, <2>1, <1>10, <1>14, <1>15
    <2>4. ReaderAt(rs', R, g, next', damaged') /\ GoesOn(in', out', rs', R, g, next', damaged')
      BY <1>20, <2>1, <1>18, <1>19
    <2>5. (os'.bos <=> Len(pages') > 0) /\ os'.pageno = Len(pages') BY <2>1
    <2>. QED  BY <2>2, <2>3, <2>4, <2>5 DEF StreamIs
  <1>. QED  BY <1>21 DEF StreamInv

(* How many of the lacing values of a page are of packets that end on it. *)
Saved(V) ==
    LET ends == {i \in 1 .. Len(V) : Stream!Ends(V[i])}
    IN  IF ends = {} THEN 0 ELSE Stream!Max(ends)

(* What the reader notes of the lacing values V of a page. *)
NewOf(V, page) ==
    [i \in 1 .. Len(V) |->
        [val |-> V[i], hole |-> FALSE, bos |-> page.bos /\ i = 1, eos |-> FALSE,
         granule |-> IF i = Saved(V) THEN page.granule ELSE Stream!NoPosition]]

(* The last value is that of the last packet of the stream. *)
Marked(l, mark) == IF mark /\ l # <<>> THEN [l EXCEPT ![Len(l)].eos = TRUE] ELSE l

(* PageIn, once it has unrolled to r and is to skip so many segments. *)
Joining(r, page, skip) ==
    LET V == SubSeq(page.segments, skip + 1, Len(page.segments))
    IN  [r EXCEPT
          !.body = r.body \o SubSeq(page.body, UpTo(page.segments, skip) + 1, Len(page.body)),
          !.lacing = Marked(r.lacing \o NewOf(V, page), page.eos),
          !.lacingPacket = IF Saved(V) = 0 THEN r.lacingPacket ELSE Len(r.lacing) + Saved(V),
          !.pageno = page.pageno + 1]

(* The last value that ends a packet. *)
LEMMA SavedIs ==
  ASSUME NEW V, V \in Seq(Nat)
  PROVE  /\ Saved(V) \in 0 .. Len(V) /\ Len(V) \in Nat
         /\ Saved(V) > 0 => Stream!Ends(V[Saved(V)])
         /\ \A i \in 1 .. Len(V) : Stream!Ends(V[i]) => i <= Saved(V)
  <1> DEFINE ends == {i \in 1 .. Len(V) : Stream!Ends(V[i])}
  <1>1. Len(V) \in Nat OBVIOUS
  <1>2. ends # {} => Stream!Max(ends) \in ends /\ \A i \in ends : i <= Stream!Max(ends)
    <2>1. ends \subseteq 0 .. Len(V) OBVIOUS
    <2> HIDE DEF ends
    <2>. QED  BY <2>1, <1>1, MaxOf
  <1>3. Saved(V) = IF ends = {} THEN 0 ELSE Stream!Max(ends) BY DEF Saved
  <1>4. ends \subseteq 1 .. Len(V) /\ \A i \in 1 .. Len(V) : i \in ends <=> Stream!Ends(V[i])
    OBVIOUS
  <1> HIDE DEF ends
  <1>5. CASE ends = {} BY <1>1, <1>3, <1>4, <1>5
  <1>6. CASE ends # {}
    <2>1. Saved(V) \in ends /\ \A i \in ends : i <= Saved(V) BY <1>2, <1>3, <1>6
    <2>2. Saved(V) \in 1 .. Len(V) BY <2>1, <1>4
    <2>. QED  BY <2>1, <2>2, <1>1, <1>4
  <1>. QED  BY <1>5, <1>6

(* The values noted, one by one. *)
AreNew(N, V, page) ==
    /\ N \in Seq(LacingsIn) /\ Len(N) = Len(V) /\ Len(V) \in Nat /\ Values(N) = V
    /\ \A i \in 1 .. Len(V) :
          /\ N[i].val = V[i] /\ N[i].hole = FALSE /\ N[i].eos = FALSE
          /\ N[i].bos = (page.bos /\ i = 1)
          /\ N[i].granule = IF i = Saved(V) THEN page.granule ELSE Stream!NoPosition

(* k is l, the last value marked. *)
AreMarked(k, l, mark) ==
    /\ k \in Seq(LacingsIn) /\ Len(k) = Len(l) /\ Values(k) = Values(l)
    /\ \A i \in 1 .. Len(l) :
          /\ k[i].val = l[i].val /\ k[i].hole = l[i].hole
          /\ k[i].bos = l[i].bos /\ k[i].granule = l[i].granule
          /\ ~(mark /\ i = Len(l)) => k[i].eos = l[i].eos
          /\ mark /\ i = Len(l) => k[i].eos = TRUE

(* c is a and b. *)
AreJoined(c, a, b) ==
    /\ Len(c) = Len(a) + Len(b)
    /\ \A i \in 1 .. Len(a) : c[i] = a[i]
    /\ \A i \in 1 .. Len(b) : c[Len(a) + i] = b[i]

(* What is noted is of those values. *)
LEMMA NewIs ==
  ASSUME NEW V, V \in Seq(Nat), NEW page, page \in OggPages
  PROVE  AreNew(NewOf(V, page), V, page)
  <1> DEFINE g(i) == IF i = Saved(V) THEN page.granule ELSE Stream!NoPosition
             x(i) == [val |-> V[i], hole |-> FALSE, bos |-> page.bos /\ i = 1, eos |-> FALSE, granule |-> g(i)]
             N == NewOf(V, page)
  <1>1. Len(V) \in Nat /\ (\A i \in 1 .. Len(V) : V[i] \in Nat) /\ page.bos \in BOOLEAN /\ page.granule \in Int
    BY DEF OggPages
  <1>2. \A i \in 1 .. Len(V) : g(i) \in Int BY <1>1 DEF Stream!NoPosition
  <1>3. N = [i \in 1 .. Len(V) |-> x(i)] BY DEF NewOf
  <1> HIDE DEF g, N
  <1>4. \A i \in 1 .. Len(V) : x(i) \in LacingsIn BY <1>1, <1>2 DEF LacingsIn
  <1>5. \A i \in 1 .. Len(V) : /\ x(i).val = V[i] /\ x(i).hole = FALSE /\ x(i).eos = FALSE
                               /\ x(i).bos = (page.bos /\ i = 1) /\ x(i).granule = g(i)
    OBVIOUS
  <1> HIDE DEF x
  <1>6. N \in Seq(LacingsIn) /\ Len(N) = Len(V) /\ \A i \in 1 .. Len(V) : N[i] = x(i)
    BY <1>1, <1>3, <1>4
  <1>7. Values(N) = V
    <2>1. \A y \in LacingsIn : y.val \in Nat BY DEF LacingsIn
    <2>2. Values(N) \in Seq(Nat) /\ Len(Values(N)) = Len(N) /\ \A i \in 1 .. Len(N) : Values(N)[i] = N[i].val
      BY <2>1, <1>6, ValuesAre
    <2>3. \A i \in 1 .. Len(Values(N)) : Values(N)[i] = V[i] BY <2>2, <1>5, <1>6
    <2>4. Len(Values(N)) = Len(V) /\ Values(N) \in Seq(Nat) BY <2>2, <1>6
    <2>. QED  BY <2>3, <2>4, SameSequence
  <1>8. \A i \in 1 .. Len(V) : /\ N[i].val = V[i] /\ N[i].hole = FALSE /\ N[i].eos = FALSE
                               /\ N[i].bos = (page.bos /\ i = 1) /\ N[i].granule = g(i)
    BY <1>5, <1>6
  <1>. QED  BY <1>1, <1>6, <1>7, <1>8 DEF g, N, AreNew

(* Only the flag of the last value is set. *)
LEMMA MarkedIs ==
  ASSUME NEW l, l \in Seq(LacingsIn), NEW mark \in BOOLEAN
  PROVE  AreMarked(Marked(l, mark), l, mark)
  <1> DEFINE k == Marked(l, mark)
  <1>1. Len(l) \in Nat /\ \A i \in 1 .. Len(l) : l[i] \in LacingsIn OBVIOUS
  <1>2. /\ k \in Seq(LacingsIn) /\ Len(k) = Len(l)
        /\ \A i \in 1 .. Len(l) :
              /\ k[i].val = l[i].val /\ k[i].hole = l[i].hole
              /\ k[i].bos = l[i].bos /\ k[i].granule = l[i].granule
              /\ ~(mark /\ i = Len(l)) => k[i].eos = l[i].eos
              /\ mark /\ i = Len(l) => k[i].eos = TRUE
    <2>1. CASE mark /\ l # <<>>
      <3> DEFINE z == Len(l)
      <3>1. z \in 1 .. Len(l) BY <2>1
      <3> DEFINE x == [l[z] EXCEPT !.eos = TRUE]
      <3>2. l[z] \in LacingsIn BY <3>1, <1>1
      <3>3. /\ x \in LacingsIn /\ x.val = l[z].val /\ x.hole = l[z].hole /\ x.eos = TRUE
            /\ x.bos = l[z].bos /\ x.granule = l[z].granule
        BY <3>2 DEF LacingsIn
      <3>4. k = [l EXCEPT ![z] = x] BY <2>1 DEF Marked
      <3> HIDE DEF x, k
      <3>5. k \in Seq(LacingsIn) /\ Len(k) = Len(l) /\ \A i \in 1 .. Len(l) : k[i] = IF i = z THEN x ELSE l[i]
        BY <3>1, <3>3, <3>4
      <3>. QED  BY <3>3, <3>5, <2>1
    <2>2. CASE ~mark
      <3>1. k = l BY <2>2 DEF Marked
      <3> HIDE DEF k
      <3>. QED  BY <3>1, <2>2, <1>1
    <2>3. CASE l = <<>>
      <3>1. k = l /\ Len(l) = 0 BY <2>3 DEF Marked
      <3> HIDE DEF k
      <3>. QED  BY <3>1, <1>1
    <2>. QED  BY <2>1, <2>2, <2>3
  <1> HIDE DEF k
  <1>3. Values(k) = Values(l)
    <2>1. \A x \in LacingsIn : x.val \in Nat BY DEF LacingsIn
    <2>2. Values(k) \in Seq(Nat) /\ Len(Values(k)) = Len(k) /\ \A i \in 1 .. Len(k) : Values(k)[i] = k[i].val
      BY <2>1, <1>2, ValuesAre
    <2>3. Values(l) \in Seq(Nat) /\ Len(Values(l)) = Len(l) /\ \A i \in 1 .. Len(l) : Values(l)[i] = l[i].val
      BY <2>1, ValuesAre
    <2>4. \A i \in 1 .. Len(Values(k)) : Values(k)[i] = Values(l)[i]
      <3>1. \A i \in 1 .. Len(l) : k[i].val = l[i].val BY <1>2
      <3>. QED  BY <3>1, <2>2, <2>3, <1>2
    <2>5. Len(Values(k)) = Len(Values(l)) /\ Values(k) \in Seq(Nat) /\ Values(l) \in Seq(Nat)
      BY <2>2, <2>3, <1>2
    <2>. QED  BY <2>4, <2>5, SameSequence
  <1>. QED  BY <1>2, <1>3 DEF k, AreMarked

(* Lacing values one after the other. *)
LEMMA LacingsJoined ==
  ASSUME NEW a, a \in Seq(LacingsIn), NEW b, b \in Seq(LacingsIn)
  PROVE  a \o b \in Seq(LacingsIn) /\ Values(a \o b) = Values(a) \o Values(b) /\ AreJoined(a \o b, a, b)
  <1>1. a \o b \in Seq(LacingsIn) /\ Len(a \o b) = Len(a) + Len(b) OBVIOUS
  <1>2. \A i \in 1 .. Len(a) : (a \o b)[i] = a[i] OBVIOUS
  <1>3. \A i \in 1 .. Len(b) : (a \o b)[Len(a) + i] = b[i] OBVIOUS
  <1>4. Values(a \o b) = Values(a) \o Values(b)
    <2>1. \A x \in LacingsIn : x.val \in Nat BY DEF LacingsIn
    <2>. QED  BY <2>1, ValuesJoined
  <1>. QED  BY <1>1, <1>2, <1>3, <1>4 DEF AreJoined

(* So with segments and bytes. *)
LEMMA PairsAreJoined ==
  ASSUME NEW a, a \in Seq(Pairs), NEW b, b \in Seq(Pairs)
  PROVE  a \o b \in Seq(Pairs) /\ AreJoined(a \o b, a, b)
  BY PairsJoined DEF AreJoined

(* The reader begins a packet with what comes next. *)
Fresh(r) == Len(r.lacing) = 0 \/ Final(r.lacing).hole

(* The reader r, of the segments R, is v, of the segments X, once it was *)
(* given the segments P of the m-th page, some skipped. *)
Added(q, e, P, m, r, R, skip, v, X) ==
    /\ ReaderHas(q, e, v, X) /\ WholeUpTo(v) /\ v.pageno = m
    /\ X \in Seq(Pairs) /\ Len(v.lacing) = Len(X) /\ Len(X) = Len(R) + (Len(P) - skip)
    /\ Len(R) > 0 => X[1] = R[1] /\ v.lacing[1].hole = r.lacing[1].hole
    /\ Len(R) = 0 /\ skip < Len(P) => X[1] = P[skip + 1] /\ ~v.lacing[1].hole
    /\ skip < Len(P) => Final(X) = Final(P) /\ ~Final(v.lacing).hole
    /\ skip = Len(P) => X = R /\ Fresh(v)

(* The segments of a page that are not skipped follow those that the reader*)
(* has. *)
LEMMA PageAdds ==
  ASSUME NEW q, Sizes(q), NEW e \in BOOLEAN, NEW page, NEW P, NEW m \in Nat \ {0}, PageHas(q, e, page, P, m),
         NEW r, NEW R, ReaderHas(q, e, r, R), WholeUpTo(r), NEW skip \in 0 .. Len(P),
         m = 1 => P[1] = <<0, 0>> /\ skip = 0, m > 1 => P[1] # <<0, 0>>,
         ~Fresh(r) => skip = 0 /\ P[1] = FollowerOf(q, Final(R)),
         Fresh(r) /\ skip < Len(P) => P[skip + 1][2] = 0
  PROVE  Added(q, e, P, m, r, R, skip, Joining(r, page, skip), R \o SubSeq(P, skip + 1, Len(P)))
  <1> DEFINE S == page.segments
             T == SubSeq(P, skip + 1, Len(P))
             V == SubSeq(S, skip + 1, Len(S))
             B == SubSeq(page.body, UpTo(S, skip) + 1, Len(page.body))
             new == NewOf(V, page)
             all == r.lacing \o new
             l == Marked(all, page.eos)
             v == Joining(r, page, skip)
             X == R \o T
             n == Len(P) - skip
  <1>1. /\ page \in OggPages /\ Len(P) > 0 /\ Row(q, P) /\ Spelt(P, S, page.body)
        /\ P \in Seq(Pairs) /\ S \in Seq(Nat) /\ Len(S) = Len(P) /\ Len(P) \in Nat
        /\ (\A i \in 1 .. Len(P) : S[i] = ValueOf(q, P[i]))
        /\ page.bos = (m = 1) /\ page.pageno = m - 1 /\ page.eos = (e /\ IsLast(q, Final(P)))
        /\ page.granule \in Int /\ page.eos \in BOOLEAN /\ page.bos \in BOOLEAN
    <2>1. page \in OggPages /\ Len(P) > 0 /\ Row(q, P) /\ Spelt(P, S, page.body)
          /\ (\A i \in 1 .. Len(P) : S[i] = ValueOf(q, P[i]))
          /\ page.bos = (m = 1) /\ page.pageno = m - 1 /\ page.eos = (e /\ IsLast(q, Final(P)))
      BY DEF PageHas
    <2>2. P \in Seq(Pairs) /\ S \in Seq(Nat) /\ Len(S) = Len(P)
      BY <2>1 DEF Spelt
    <2>3. page.granule \in Int /\ page.eos \in BOOLEAN /\ page.bos \in BOOLEAN
      BY <2>1 DEF OggPages
    <2>4. Len(P) \in Nat BY <2>2
    <2>. QED  BY <2>1, <2>2, <2>3, <2>4
  <1>2. /\ r \in Read /\ Spelt(R, Values(r.lacing), r.body) /\ R \in Seq(Pairs) /\ Len(R) = Len(r.lacing)
        /\ Len(R) \in Nat /\ r.lacing \in Seq(LacingsIn) /\ r.body \in Seq(Pairs) /\ r.lacingPacket \in Nat
    <2>1. r \in Read /\ Spelt(R, Values(r.lacing), r.body) BY DEF ReaderHas
    <2>2. R \in Seq(Pairs) /\ Len(R) = Len(Values(r.lacing)) BY <2>1 DEF Spelt
    <2>. QED  BY <2>1, <2>2, ReadIs
  <1> HIDE DEF S
  <1>3. /\ T \in Seq(Pairs) /\ Len(T) = n /\ Row(q, T)
        /\ (\A i \in 1 .. n : T[i] = P[skip + i])
        /\ skip < Len(P) => Final(T) = Final(P) /\ T[1] = P[skip + 1]
    BY <1>1, RowInTwo
  <1>4. /\ V \in Seq(Nat) /\ Len(V) = n /\ (\A i \in 1 .. n : V[i] = S[skip + i])
    <2>1. skip \in 0 .. Len(S) /\ S \in Seq(Nat) BY <1>1
    <2>2. /\ V \in Seq(Nat) /\ Len(V) = Len(S) - skip /\ (\A i \in 1 .. Len(S) - skip : V[i] = S[skip + i])
      BY ONLY <2>1, CutAt
    <2>. QED  BY <2>2, <1>1
  <1>5. Spelt(T, V, B) /\ B \in Seq(Pairs)
    <2>1. skip \in 0 .. Len(S) BY <1>1
    <2>2. Spelt(T, V, B) BY <2>1, <1>1, SpeltInTwo
    <2>. QED  BY <2>2 DEF Spelt
  <1>6. v = [r EXCEPT !.body = r.body \o B, !.lacing = l,
                      !.lacingPacket = IF Saved(V) = 0 THEN r.lacingPacket ELSE Len(r.lacing) + Saved(V),
                      !.pageno = page.pageno + 1]
    BY DEF Joining, S
  <1>7. n \in Nat /\ skip \in Nat /\ (n > 0 <=> skip < Len(P)) /\ (n = 0 <=> skip = Len(P))
    BY <1>1
  <1> HIDE DEF T, V, B, new, v, l, n
  <1>8. new \in Seq(LacingsIn) /\ Len(new) = n /\ Values(new) = V
        /\ \A i \in 1 .. n :
              /\ new[i].val = V[i] /\ new[i].hole = FALSE /\ new[i].eos = FALSE
              /\ new[i].bos = (page.bos /\ i = 1)
              /\ new[i].granule = IF i = Saved(V) THEN page.granule ELSE Stream!NoPosition
    <2>1. V \in Seq(Nat) /\ page \in OggPages /\ Len(V) = n BY <1>1, <1>4
    <2>2. AreNew(new, V, page) BY <2>1, NewIs DEF new
    <2>. QED  BY <2>1, <2>2 DEF AreNew
  <1>9. /\ all \in Seq(LacingsIn) /\ Len(all) = Len(R) + n /\ Values(all) = Values(r.lacing) \o V
        /\ (\A i \in 1 .. Len(R) : all[i] = r.lacing[i])
        /\ (\A i \in 1 .. n : all[Len(R) + i] = new[i])
    <2>1. r.lacing \in Seq(LacingsIn) /\ new \in Seq(LacingsIn) /\ Len(r.lacing) = Len(R) /\ Len(new) = n /\ Values(new) = V
      BY <1>2, <1>8
    <2> DEFINE a == r.lacing
    <2>2. a \in Seq(LacingsIn) /\ all = a \o new BY <2>1
    <2> HIDE DEF a, all
    <2>3. all \in Seq(LacingsIn) /\ Values(all) = Values(a) \o Values(new) /\ AreJoined(all, a, new)
      BY <2>1, <2>2, LacingsJoined
    <2>. QED  BY <2>1, <2>3 DEF AreJoined, a
  <1>10. /\ X \in Seq(Pairs) /\ Len(X) = Len(R) + n
         /\ (\A i \in 1 .. Len(R) : X[i] = R[i])
         /\ (\A i \in 1 .. n : X[Len(R) + i] = T[i])
    <2>1. R \in Seq(Pairs) /\ T \in Seq(Pairs) /\ Len(T) = n BY <1>2, <1>3
    <2>2. X \in Seq(Pairs) /\ AreJoined(X, R, T) BY <2>1, PairsAreJoined
    <2> HIDE DEF X
    <2>. QED  BY <2>1, <2>2 DEF AreJoined
  <1>11. Spelt(X, Values(all), r.body \o B) BY <1>2, <1>5, <1>9, SpeltTogether
  <1> HIDE DEF all, X
  <1>12. /\ l \in Seq(LacingsIn) /\ Len(l) = Len(R) + n /\ Values(l) = Values(all)
         /\ \A i \in 1 .. Len(R) + n :
               /\ l[i].val = all[i].val /\ l[i].hole = all[i].hole /\ l[i].bos = all[i].bos
               /\ l[i].granule = all[i].granule
               /\ ~(page.eos /\ i = Len(R) + n) => l[i].eos = all[i].eos
               /\ page.eos /\ i = Len(R) + n => l[i].eos = TRUE
    <2>1. all \in Seq(LacingsIn) /\ page.eos \in BOOLEAN /\ Len(all) = Len(R) + n
      BY <1>1, <1>9
    <2>2. AreMarked(l, all, page.eos) BY <2>1, MarkedIs DEF l
    <2>. QED  BY <2>1, <2>2 DEF AreMarked
  <1>13. Spelt(X, Values(l), r.body \o B) BY <1>11, <1>12
  <1>14. /\ Saved(V) \in 0 .. n /\ (Saved(V) > 0 => Stream!Ends(V[Saved(V)]))
         /\ \A i \in 1 .. n : Stream!Ends(V[i]) => i <= Saved(V)
    BY <1>4, SavedIs
  <1>15. /\ v \in Read /\ v.lacing = l /\ v.body = r.body \o B /\ v.pageno = m
         /\ v.lacingPacket = IF Saved(V) = 0 THEN r.lacingPacket ELSE Len(R) + Saved(V)
    <2> DEFINE b == r.body \o B
               c == IF Saved(V) = 0 THEN r.lacingPacket ELSE Len(R) + Saved(V)
    <2>1. b \in Seq(Pairs) BY <1>13 DEF Spelt
    <2>2. c \in Nat
      <3>1. Saved(V) \in Nat /\ Len(R) \in Nat /\ r.lacingPacket \in Nat
        BY <1>2, <1>7, <1>14
      <3>. QED  BY <3>1
    <2>3. page.pageno + 1 = m /\ m \in Int BY <1>1
    <2>4. v = [r EXCEPT !.body = b, !.lacing = l, !.lacingPacket = c, !.pageno = m]
      BY <2>3, <1>2, <1>6
    <2> HIDE DEF b, c
    <2>5. r \in Read /\ l \in Seq(LacingsIn) BY <1>2, <1>12
    <2>6. v \in Read /\ v.lacing = l /\ v.body = b /\ v.pageno = m /\ v.lacingPacket = c
      BY <2>1, <2>2, <2>3, <2>4, <2>5 DEF Read
    <2>. QED  BY <2>6 DEF b, c
  <1> DEFINE a == r.lacing
             u == Len(R)
  <1>16. /\ u \in Nat /\ a \in Seq(LacingsIn) /\ Len(a) = u /\ r.lacingPacket \in Nat
         /\ Len(X) = u + n /\ Len(l) = u + n /\ u + n \in Nat
    BY <1>2, <1>7, <1>10, <1>12
  <1>17. \A i \in 1 .. u :
            /\ l[i].val = a[i].val /\ l[i].hole = a[i].hole /\ l[i].bos = a[i].bos
            /\ l[i].granule = a[i].granule /\ X[i] = R[i]
            /\ ~(page.eos /\ i = u + n) => l[i].eos = a[i].eos
    <2>1. \A i \in 1 .. u : i \in 1 .. u + n BY <1>7, <1>16
    <2>2. \A i \in 1 .. u : all[i] = a[i] /\ X[i] = R[i] BY <1>9, <1>10
    <2> HIDE DEF u, a
    <2>3. \A i \in 1 .. u + n :
               /\ l[i].val = all[i].val /\ l[i].hole = all[i].hole /\ l[i].bos = all[i].bos
               /\ l[i].granule = all[i].granule
               /\ ~(page.eos /\ i = u + n) => l[i].eos = all[i].eos
      BY <1>12 DEF u
    <2>. QED  BY <2>1, <2>2, <2>3
  <1>18. \A j \in 1 .. n :
            /\ u + j \in 1 .. u + n /\ X[u + j] = T[j]
            /\ l[u + j].val = V[j] /\ l[u + j].hole = FALSE
            /\ l[u + j].bos = (page.bos /\ j = 1)
            /\ l[u + j].granule = (IF j = Saved(V) THEN page.granule ELSE Stream!NoPosition)
            /\ l[u + j].eos = (page.eos /\ j = n)
    <2> SUFFICES ASSUME NEW j \in 1 .. n
                 PROVE  /\ u + j \in 1 .. u + n /\ X[u + j] = T[j]
                        /\ l[u + j].val = V[j] /\ l[u + j].hole = FALSE
                        /\ l[u + j].bos = (page.bos /\ j = 1)
                        /\ l[u + j].granule = (IF j = Saved(V) THEN page.granule ELSE Stream!NoPosition)
                        /\ l[u + j].eos = (page.eos /\ j = n)
      OBVIOUS
    <2>1. u + j \in 1 .. u + n /\ (u + j = u + n <=> j = n)
      <3> HIDE DEF u
      <3>. QED  BY <1>7, <1>16
    <2>2. all[u + j] = new[j] /\ X[u + j] = T[j] BY <1>9, <1>10
    <2>3. /\ new[j].val = V[j] /\ new[j].hole = FALSE /\ new[j].eos = FALSE
          /\ new[j].bos = (page.bos /\ j = 1)
          /\ new[j].granule = IF j = Saved(V) THEN page.granule ELSE Stream!NoPosition
      BY <1>8
    <2> DEFINE z == u + j
    <2> HIDE DEF z
    <2>4. /\ l[z].val = all[z].val /\ l[z].hole = all[z].hole /\ l[z].bos = all[z].bos
          /\ l[z].granule = all[z].granule
          /\ ~(page.eos /\ z = u + n) => l[z].eos = all[z].eos
          /\ page.eos /\ z = u + n => l[z].eos = TRUE
      BY <2>1, <1>12 DEF z
    <2>5. all[z] = new[j] /\ X[z] = T[j] /\ z \in 1 .. u + n /\ (z = u + n <=> j = n)
      BY <2>1, <2>2 DEF z
    <2>6. /\ l[z].val = V[j] /\ l[z].hole = FALSE
          /\ l[z].bos = (page.bos /\ j = 1)
          /\ l[z].granule = (IF j = Saved(V) THEN page.granule ELSE Stream!NoPosition)
      BY <2>3, <2>4, <2>5
    <2>7. l[z].eos = (page.eos /\ j = n) BY <2>3, <2>4, <2>5, <1>1
    <2>. QED  BY <2>5, <2>6, <2>7 DEF z
  <1> HIDE DEF a, u
  <1>19. \A i \in 1 .. u : a[i].hole \in BOOLEAN /\ a[i].eos \in BOOLEAN
    <2>1. \A i \in 1 .. u : a[i] \in LacingsIn BY <1>16
    <2>. QED  BY <2>1 DEF LacingsIn
  (* What the reader held is as it was, but for a hole that is the last.   *)
  <1>20. n = 0 => Fresh(r) /\ (u = 0 \/ a[u].hole)
    <2>1. n = 0 => Fresh(r) BY <1>1, <1>7
    <2>2. Fresh(r) => Len(a) = 0 \/ a[Len(a)].hole BY DEF Fresh, Final, a
    <2>. QED  BY <2>1, <2>2, <1>16
  <1>21. Fresh(r) <=> u = 0 \/ a[u].hole BY <1>16 DEF Fresh, Final, a
  <1>22. \A i \in 1 .. u : a[i].hole \/ l[i].eos = a[i].eos
    <2> SUFFICES ASSUME NEW i \in 1 .. u, ~a[i].hole PROVE l[i].eos = a[i].eos
      OBVIOUS
    <2>1. ~(i = u + n) BY <1>7, <1>16, <1>20
    <2>. QED  BY <2>1, <1>17
  <1>23. \A i \in 1 .. u :
            /\ a[i].hole => i = 1 /\ a[i].val = 0
            /\ ~a[i].hole => /\ SegmentIs(q, e, a[i], R[i])
                             /\ i < u => R[i + 1] = FollowerOf(q, R[i])
                             /\ i = 1 \/ a[i - 1].hole => R[i][2] = 0
    BY DEF ReaderHas, a, u
  <1>24. \A i \in 1 .. u : ~l[i].hole => SegmentIs(q, e, l[i], X[i])
    <2> SUFFICES ASSUME NEW i \in 1 .. u, ~l[i].hole PROVE SegmentIs(q, e, l[i], X[i])
      OBVIOUS
    <2>1. SegmentIs(q, e, a[i], R[i]) /\ l[i].eos = a[i].eos
      BY <1>17, <1>22, <1>23
    <2>. QED  BY <2>1, <1>17 DEF SegmentIs
  <1>25. \A k \in 1 .. Len(P) : /\ OneOf(q, P[k]) /\ (P[k] = <<0, 0>> <=> m = 1 /\ k = 1)
                                /\ k < Len(P) => P[k + 1] = FollowerOf(q, P[k]) /\ ~IsLast(q, P[k])
    <2>1. \A k \in 1 .. Len(P) : OneOf(q, P[k]) BY <1>1 DEF Row
    <2>2. \A k \in 1 .. Len(P) : k < Len(P) => k \in 1 .. Len(P) - 1 /\ k + 1 \in 1 .. Len(P)
      BY <1>1
    <2>3. \A k \in 1 .. Len(P) - 1 : P[k + 1] = FollowerOf(q, P[k])
      BY <1>1 DEF Row
    <2>4. \A t : OneOf(q, t) => FollowerOf(q, t) # <<0, 0>> /\ (OneOf(q, FollowerOf(q, t)) => ~IsLast(q, t))
      BY Segments
    <2>5. \A k \in 1 .. Len(P) : k < Len(P) => P[k + 1] = FollowerOf(q, P[k]) /\ ~IsLast(q, P[k]) /\ P[k + 1] # <<0, 0>>
      BY <2>1, <2>2, <2>3, <2>4
    <2>6. \A k \in 1 .. Len(P) : k # 1 => P[k] # <<0, 0>>
      <3> SUFFICES ASSUME NEW k \in 1 .. Len(P), k # 1 PROVE P[k] # <<0, 0>>
        OBVIOUS
      <3>1. k - 1 \in 1 .. Len(P) /\ k - 1 < Len(P) /\ (k - 1) + 1 = k BY <1>1
      <3>2. P[(k - 1) + 1] # <<0, 0>> BY <3>1, <2>5
      <3>. QED  BY <3>1, <3>2
    <2>7. P[1] = <<0, 0>> <=> m = 1
      <3>1. m = 1 \/ m > 1 OBVIOUS
      <3>. QED  BY <3>1
    <2>. QED  BY <2>1, <2>5, <2>6, <2>7
  <1>26. \A j \in 1 .. n : SegmentIs(q, e, l[u + j], T[j])
    <2> SUFFICES ASSUME NEW j \in 1 .. n PROVE SegmentIs(q, e, l[u + j], T[j])
      OBVIOUS
    <2> DEFINE k == skip + j
    <2>1. /\ k \in 1 .. Len(P) /\ T[j] = P[k] /\ V[j] = S[k] /\ (k = Len(P) <=> j = n)
          /\ k < Len(P) <=> j < n
      <3>1. n = Len(P) - skip BY DEF n
      <3>2. k \in 1 .. Len(P) /\ (k = Len(P) <=> j = n) /\ (k < Len(P) <=> j < n)
        BY <3>1, <1>1, <1>7
      <3>. QED  BY <3>2, <1>3, <1>4
    <2>2. OneOf(q, T[j]) /\ V[j] = ValueOf(q, T[j]) BY <2>1, <1>1, <1>25
    <2>3. l[u + j].bos = (T[j] = <<0, 0>>)
      <3>1. m = 1 => skip = 0 OBVIOUS
      <3>2. (m = 1 /\ j = 1) <=> (m = 1 /\ k = 1) BY <3>1
      <3> HIDE DEF k
      <3>3. P[k] = <<0, 0>> <=> m = 1 /\ k = 1 BY <2>1, <1>25
      <3>4. l[u + j].bos = (m = 1 /\ j = 1) BY <1>1, <1>18
      <3>. QED  BY <3>2, <3>3, <3>4, <2>1
    <2> HIDE DEF k
    <2>4. l[u + j].eos = (e /\ IsLast(q, T[j]))
      <3>1. l[u + j].eos = (page.eos /\ j = n) BY <1>18
      <3>2. CASE j = n
        <4>1. T[j] = Final(P) BY <3>2, <2>1 DEF Final
        <4>. QED  BY <3>1, <3>2, <4>1, <1>1
      <3>3. CASE j # n
        <4>1. ~IsLast(q, T[j]) BY <3>3, <2>1, <1>1, <1>25
        <4>. QED  BY <3>1, <3>3, <4>1
      <3>. QED  BY <3>2, <3>3
    <2>5. l[u + j].granule \in {Stream!NoPosition, T[j][1]}
      <3>1. CASE j # Saved(V) BY <3>1, <1>18
      <3>2. CASE j = Saved(V)
        <4>1. Stream!Ends(V[j]) BY <3>2, <1>14
        <4>2. IsEnd(q, P[k]) BY <4>1, <2>1, <2>2, Segments
        <4>3. ASSUME NEW h \in k + 1 .. Len(P) PROVE ~IsEnd(q, P[h])
          <5>1. h \in Int /\ h > k /\ h <= Len(P) /\ k \in Int /\ skip \in Nat /\ k = skip + j /\ j >= 1 /\ n = Len(P) - skip /\ Len(P) \in Nat
            BY <2>1, <1>1, <1>7 DEF k, n
          <5>2. h - skip \in 1 .. n /\ skip + (h - skip) = h /\ h - skip > j /\ h \in 1 .. Len(P)
            BY <5>1
          <5>3. ~Stream!Ends(V[h - skip]) BY <5>2, <3>2, <1>14
          <5>4. V[h - skip] = S[h] BY <5>2, <1>4
          <5>5. S[h] = ValueOf(q, P[h]) /\ OneOf(q, P[h]) BY <5>2, <1>1, <1>25
          <5>. QED  BY <5>3, <5>4, <5>5, Segments
        <4>4. page.granule = P[k][1] BY <4>2, <4>3, <2>1 DEF PageHas
        <4>. QED  BY <4>4, <3>2, <2>1, <1>18
      <3>. QED  BY <3>1, <3>2
    <2>. QED  BY <2>2, <2>3, <2>4, <2>5, <1>18 DEF SegmentIs
  <1>27. \A i \in 1 .. u : l[i].hole = a[i].hole /\ X[i] = R[i] BY <1>17
  <1>28. \A j \in 1 .. n : l[u + j].hole = FALSE /\ X[u + j] = T[j] /\ T[j] = P[skip + j]
    BY <1>18, <1>3
  <1>29. ASSUME NEW i \in 1 .. u + n, ~l[i].hole
         PROVE  /\ SegmentIs(q, e, l[i], X[i])
                /\ i < u + n => X[i + 1] = FollowerOf(q, X[i])
                /\ i = 1 \/ l[i - 1].hole => X[i][2] = 0
    <2>1. CASE i < u
      <3>1. i \in 1 .. u /\ i + 1 \in 1 .. u /\ (i # 1 => i - 1 \in 1 .. u)
        BY <2>1, <1>7, <1>16
      <3>2. /\ SegmentIs(q, e, l[i], X[i]) /\ X[i + 1] = R[i + 1] /\ X[i] = R[i]
            /\ R[i + 1] = FollowerOf(q, R[i])
        BY <3>1, <2>1, <1>23, <1>24, <1>27, <1>29
      <3>3. i = 1 \/ l[i - 1].hole => X[i][2] = 0 BY <3>1, <1>23, <1>27, <1>29
      <3>. QED  BY <3>2, <3>3
    <2>2. CASE i = u
      <3>1. i \in 1 .. u /\ u \in 1 .. u /\ (i # 1 => i - 1 \in 1 .. u)
        BY <2>2, <1>7, <1>16
      <3>2. ~a[u].hole /\ ~Fresh(r) BY <3>1, <2>2, <1>21, <1>27, <1>29
      <3>3. SegmentIs(q, e, l[i], X[i]) BY <3>1, <1>24, <1>29
      <3>4. i < u + n => X[i + 1] = FollowerOf(q, X[i])
        <4> SUFFICES ASSUME i < u + n PROVE X[i + 1] = FollowerOf(q, X[i])
          OBVIOUS
        <4>1. 1 \in 1 .. n /\ i + 1 = u + 1 BY <2>2, <1>7, <1>16
        <4>2. skip = 0 /\ P[1] = FollowerOf(q, Final(R)) /\ skip + 1 = 1 BY <3>2
        <4>3. X[u + 1] = P[1] BY <4>1, <4>2, <1>28
        <4>4. Final(R) = R[u] BY DEF Final, u
        <4>. QED  BY <4>1, <4>2, <4>3, <4>4, <2>2, <3>1, <1>27
      <3>5. i = 1 \/ l[i - 1].hole => X[i][2] = 0 BY <3>1, <1>23, <1>27, <1>29
      <3>. QED  BY <3>3, <3>4, <3>5
    <2>3. CASE i > u
      <3> DEFINE j == i - u
      <3>1. j \in 1 .. n /\ u + j = i /\ (j < n <=> i < u + n) /\ j \in Nat /\ (i = 1 => u = 0 /\ j = 1)
        BY <2>3, <1>7, <1>16
      <3> HIDE DEF j
      <3>2. SegmentIs(q, e, l[u + j], T[j]) /\ X[u + j] = T[j]
        BY <3>1, <1>26, <1>28
      <3>3. i < u + n => X[i + 1] = FollowerOf(q, X[i])
        <4> SUFFICES ASSUME i < u + n PROVE X[i + 1] = FollowerOf(q, X[i])
          OBVIOUS
        <4>1. j \in 1 .. n - 1 /\ j + 1 \in 1 .. n /\ u + (j + 1) = i + 1
          BY <3>1, <1>7, <1>16
        <4>2. T[j + 1] = FollowerOf(q, T[j]) BY <4>1, <1>3 DEF Row
        <4>. QED  BY <4>1, <4>2, <3>1, <3>2, <1>28
      <3>4. i = 1 \/ l[i - 1].hole => X[i][2] = 0
        <4> SUFFICES ASSUME i = 1 \/ l[i - 1].hole PROVE X[i][2] = 0
          OBVIOUS
        <4>1. j = 1 /\ (u = 0 \/ l[u].hole)
          <5>1. CASE i = 1 BY <5>1, <3>1
          <5>2. CASE i # 1
            <6>1. l[i - 1].hole BY <5>2
            <6>2. CASE j = 1 BY <6>1, <6>2, <3>1, <1>16
            <6>3. CASE j # 1
              <7>1. j - 1 \in 1 .. n /\ u + (j - 1) = i - 1
                <8>1. j \in Nat /\ u \in Nat /\ n \in Nat /\ j >= 1 /\ j <= n /\ i = u + j
                  BY <3>1, <1>7, <1>16
                <8>2. j > 1 BY <8>1, <6>3
                <8>. QED  BY <8>1, <8>2
              <7>. QED  BY <7>1, <6>1, <1>28
            <6>. QED  BY <6>2, <6>3
          <5>. QED  BY <5>1, <5>2
        <4>2. Fresh(r)
          <5>1. u = 0 \/ u \in 1 .. u BY <1>16
          <5>. QED  BY <4>1, <5>1, <1>21, <1>27
        <4>3. skip < Len(P) BY <3>1, <1>7
        <4>4. P[skip + 1][2] = 0 BY <4>2, <4>3
        <4>5. X[i] = P[skip + 1] BY <4>1, <3>1, <1>28
        <4>. QED  BY <4>4, <4>5
      <3>. QED  BY <3>1, <3>2, <3>3, <3>4
    <2>. QED  BY <2>1, <2>2, <2>3, <1>16
  <1>30. ASSUME NEW i \in 1 .. u + n, l[i].hole
         PROVE  i = 1 /\ l[i].val = 0
    <2>1. i \in 1 .. u \/ (i - u \in 1 .. n /\ u + (i - u) = i) BY <1>7, <1>16
    <2>2. i \in 1 .. u BY <2>1, <1>28, <1>30
    <2>. QED  BY <2>2, <1>17, <1>23, <1>30
  <1>31. ReaderHas(q, e, v, X)
    <2>1. v \in Read /\ v.lacing = l /\ v.body = r.body \o B /\ Len(X) = u + n
      BY <1>15, <1>16
    <2>. QED  BY <2>1, <1>13, <1>29, <1>30 DEF ReaderHas
  <1>32. WholeUpTo(v)
    <2>1. /\ r.lacingPacket <= u
          /\ r.lacingPacket > 0 => Stream!Ends(a[r.lacingPacket].val)
          /\ \A i \in r.lacingPacket + 1 .. u : ~Stream!Ends(a[i].val)
      BY <1>16 DEF WholeUpTo, a
    <2> DEFINE c == IF Saved(V) = 0 THEN r.lacingPacket ELSE u + Saved(V)
    <2>2. v.lacing = l /\ v.lacingPacket = c BY <1>15 DEF u
    <2>3. \A i \in 1 .. u : l[i].val = a[i].val BY <1>17
    <2>4. \A j \in 1 .. n : l[u + j].val = V[j] BY <1>18
    <2>5. c <= u + n /\ c \in Nat /\ r.lacingPacket \in Nat /\ Saved(V) \in 0 .. n
      BY <2>1, <1>7, <1>14, <1>16
    <2>6. c > 0 => Stream!Ends(l[c].val)
      <3>1. CASE Saved(V) = 0
        <4>1. c = r.lacingPacket /\ (c > 0 => c \in 1 .. u)
          BY <3>1, <2>1, <2>5, <1>16
        <4>. QED  BY <4>1, <2>1, <2>3
      <3>2. CASE Saved(V) # 0
        <4>1. c = u + Saved(V) /\ Saved(V) \in 1 .. n /\ Saved(V) > 0
          BY <3>2, <2>5, <1>7
        <4> HIDE DEF c
        <4>. QED  BY <4>1, <2>4, <1>14
      <3>. QED  BY <3>1, <3>2
    <2>7. ASSUME NEW i \in c + 1 .. u + n PROVE ~Stream!Ends(l[i].val)
      <3>1. i \in Int /\ i > c /\ i <= u + n BY <2>5, <1>16
      <3>2. CASE i <= u
        <4>1. c = r.lacingPacket /\ i \in r.lacingPacket + 1 .. u /\ i \in 1 .. u
          BY <3>1, <3>2, <2>5, <1>16
        <4>. QED  BY <4>1, <2>1, <2>3
      <3>3. CASE i > u
        <4>1. i - u \in 1 .. n /\ u + (i - u) = i /\ i - u > Saved(V)
          BY <3>1, <3>3, <2>5, <1>7, <1>16
        <4>2. ~Stream!Ends(V[i - u]) BY <4>1, <2>5, <1>14
        <4>. QED  BY <4>1, <4>2, <2>4
      <3>. QED  BY <3>1, <3>2, <3>3, <1>16
    <2> HIDE DEF c
    <2>8. c > 0 => c \in 1 .. u + n BY <2>5
    <2>. QED  BY <2>2, <2>5, <2>6, <2>7, <1>16 DEF WholeUpTo
  <1>33. u > 0 => X[1] = R[1] /\ l[1].hole = a[1].hole
    <2>1. u > 0 => 1 \in 1 .. u BY <1>16
    <2>. QED  BY <2>1, <1>27
  <1>34. u = 0 /\ skip < Len(P) => X[1] = P[skip + 1] /\ ~l[1].hole
    <2>1. u = 0 /\ skip < Len(P) => 1 \in 1 .. n /\ u + 1 = 1 BY <1>7
    <2>. QED  BY <2>1, <1>28
  <1>35. skip < Len(P) => Final(X) = Final(P) /\ ~Final(l).hole
    <2> SUFFICES ASSUME skip < Len(P) PROVE Final(X) = Final(P) /\ ~Final(l).hole
      OBVIOUS
    <2>1. n \in 1 .. n /\ Len(X) = u + n /\ Len(l) = u + n /\ skip + n = Len(P)
      <3>1. n = Len(P) - skip /\ n > 0 BY <1>7 DEF n
      <3>. QED  BY <3>1, <1>1, <1>7, <1>16
    <2>. QED  BY <2>1, <1>28 DEF Final
  <1>36. skip = Len(P) => X = R /\ Fresh(v)
    <2> SUFFICES ASSUME skip = Len(P) PROVE X = R /\ Fresh(v)
      OBVIOUS
    <2>1. n = 0 /\ Len(X) = u /\ Len(l) = u BY <1>7, <1>16
    <2>2. X \in Seq(Pairs) /\ R \in Seq(Pairs) /\ Len(X) = Len(R) /\ \A i \in 1 .. Len(X) : X[i] = R[i]
      BY <2>1, <1>2, <1>10
    <2>3. X = R BY <2>2, SameSequence
    <2>4. u = 0 \/ l[u].hole
      <3>1. u = 0 \/ u \in 1 .. u BY <1>16
      <3>. QED  BY <3>1, <2>1, <1>20, <1>27
    <2>5. v.lacing = l BY <1>15
    <2>. QED  BY <2>1, <2>3, <2>4, <2>5 DEF Fresh, Final
  <1>37. /\ v.lacing = l /\ v.pageno = m /\ Len(R) = u /\ Len(v.lacing) = Len(X) /\ a = r.lacing
         /\ X \in Seq(Pairs) /\ Len(X) = u + (Len(P) - skip)
    BY <1>10, <1>15, <1>16 DEF u, a, n
  <1>38. X = R \o SubSeq(P, skip + 1, Len(P)) /\ v = Joining(r, page, skip)
    BY DEF X, T, v
  <1>39. Added(q, e, P, m, r, R, skip, v, X)
    BY <1>31, <1>32, <1>33, <1>34, <1>35, <1>36, <1>37 DEF Added
  <1>. QED  BY <1>38, <1>39

(* A hole is a lacing value of 0. *)
LEMMA HoleIs ==
  /\ Stream!Hole \in LacingsIn /\ Stream!Hole.val = 0 /\ Stream!Hole.hole = TRUE
  /\ Stream!Hole.bos = FALSE /\ Stream!Hole.eos = FALSE /\ Stream!Ends(0)
  <1>1. Stream!Ends(0) BY StreamAssumption DEF Stream!OggAssumption, Stream!Ends
  <1>. QED  BY <1>1 DEF Stream!Hole, Stream!NoPosition, LacingsIn

(* What a reader that unrolls holds, when it has no packet to give. *)
LEMMA UnrolledIs ==
  ASSUME NEW r, r \in Read, NEW R, Spelt(R, Values(r.lacing), r.body), r.lacingPacket = 0, NEW pageno
  PROVE  /\ pageno = r.pageno => Stream!Unrolled(r, pageno) = r
         /\ pageno # r.pageno /\ r.pageno = -1 /\ Len(r.lacing) = 0 => Stream!Unrolled(r, pageno) = r
         /\ pageno # r.pageno /\ r.pageno # -1 =>
              /\ Stream!Unrolled(r, pageno) \in Read
              /\ Stream!Unrolled(r, pageno).lacing = <<Stream!Hole>>
              /\ Stream!Unrolled(r, pageno).lacingPacket = 1
              /\ Stream!Unrolled(r, pageno).body = <<>>
              /\ Stream!Unrolled(r, pageno).pageno = r.pageno
  <1> DEFINE a == r.lacing
             kept  == SubSeq(a, 1, r.lacingPacket)
             given == SubSeq(a, r.lacingPacket + 1, Len(a))
             lost  == Stream!Total([i \in 1 .. Len(given) |-> given[i].val])
             told  == IF r.pageno # -1 THEN <<Stream!Hole>> ELSE <<>>
             body  == SubSeq(r.body, 1, Len(r.body) - lost)
  <1>1. /\ a \in Seq(LacingsIn) /\ r.body \in Seq(Pairs) /\ Len(a) \in Nat /\ Len(r.body) \in Nat
        /\ r.pageno \in Int /\ Values(a) \in Seq(Nat) /\ Len(Values(a)) = Len(a)
    BY ReadIs
  <1>2. pageno = r.pageno => Stream!Unrolled(r, pageno) = r
    BY DEF Stream!Unrolled
  <1>3. kept = <<>> /\ given = a
    <2>1. kept = SubSeq(a, 1, 0) /\ given = SubSeq(a, 1, Len(a)) OBVIOUS
    <2> HIDE DEF a, kept, given
    <2>. QED  BY <2>1, <1>1
  <1>4. lost = Len(r.body)
    <2>1. Len(r.body) = UpTo(Values(a), Len(Values(a))) BY DEF Spelt
    <2>2. Stream!Total(Values(a)) = Len(r.body) BY <2>1, <1>1, SumsUp
    <2> HIDE DEF a, given
    <2>. QED  BY <2>2, <1>3 DEF Values
  <1>5. SubSeq(r.body, 1, Len(r.body) - lost) = <<>>
    <2> HIDE DEF lost
    <2>. QED  BY <1>1, <1>4
  <1>6. pageno # r.pageno =>
          Stream!Unrolled(r, pageno) =
            [r EXCEPT !.lacing = kept \o told, !.lacingPacket = r.lacingPacket + Len(told), !.body = body]
    BY DEF Stream!Unrolled
  <1>7. r.pageno = -1 => told = <<>> OBVIOUS
  <1>8. r.pageno # -1 => told = <<Stream!Hole>> OBVIOUS
  <1>9. body = <<>> BY <1>5
  <1> HIDE DEF kept, given, lost, told, body
  <1>10. ASSUME pageno # r.pageno, r.pageno = -1, Len(r.lacing) = 0 PROVE Stream!Unrolled(r, pageno) = r
    <2>1. r.lacing = <<>> /\ r.body = <<>>
      <3>1. a = <<>>
        <4> HIDE DEF a
        <4>1. Len(a) = 0 BY <1>10 DEF a
        <4>. QED  BY <4>1, <1>1
      <3>2. Values(a) = <<>> BY <3>1 DEF Values
      <3>3. Len(r.body) = 0
        <4>1. <<>> \in Seq(Nat) /\ Len(<<>>) = 0 OBVIOUS
        <4>. QED  BY <4>1, <3>2, SumsUp DEF Spelt
      <3> DEFINE b == r.body
      <3>4. b \in Seq(Pairs) /\ Len(b) = 0 BY <3>3, <1>1
      <3> HIDE DEF b
      <3>5. b = <<>> BY <3>4
      <3>. QED  BY <3>1, <3>5 DEF b
    <2>2. Stream!Unrolled(r, pageno) = [r EXCEPT !.lacing = <<>>, !.lacingPacket = 0, !.body = <<>>]
      BY <1>3, <1>6, <1>7, <1>9, <1>10
    <2>. QED  BY <2>1, <2>2 DEF Read
  <1>11. ASSUME pageno # r.pageno, r.pageno # -1
         PROVE  /\ Stream!Unrolled(r, pageno) \in Read
                /\ Stream!Unrolled(r, pageno).lacing = <<Stream!Hole>>
                /\ Stream!Unrolled(r, pageno).lacingPacket = 1
                /\ Stream!Unrolled(r, pageno).body = <<>>
                /\ Stream!Unrolled(r, pageno).pageno = r.pageno
    <2> DEFINE h == <<Stream!Hole>>
    <2>1. h \in Seq(LacingsIn) /\ Len(h) = 1 /\ <<>> \o h = h /\ <<>> \in Seq(Pairs)
      BY HoleIs
    <2> HIDE DEF h
    <2>2. told = h /\ kept \o told = h /\ r.lacingPacket + Len(told) = 1
      BY <2>1, <1>3, <1>8, <1>11 DEF h
    <2> DEFINE w == Stream!Unrolled(r, pageno)
               b == <<>>
    <2>3. w = [r EXCEPT !.lacing = h, !.lacingPacket = 1, !.body = b]
      BY <2>2, <1>6, <1>9, <1>11
    <2>4. b \in Seq(Pairs) BY <2>1
    <2> HIDE DEF w, b
    <2>5. w \in Read /\ w.lacing = h /\ w.lacingPacket = 1 /\ w.body = b /\ w.pageno = r.pageno
      BY <2>1, <2>3, <2>4 DEF Read
    <2>. QED  BY <2>5 DEF w, b, h
  <1>. QED  BY <1>2, <1>10, <1>11

(* ogg_stream_pagein is to unroll, to skip and to join. *)
LEMMA PageInIs ==
  ASSUME NEW r, NEW page, page \in OggPages,
         Stream!Skipped(Stream!Unrolled(r, page.pageno), page) \in 0 .. Len(page.segments)
  PROVE  LET w == Stream!Unrolled(r, page.pageno)
         IN  Stream!PageIn(r, page) = Joining(w, page, Stream!Skipped(w, page))
  <1> DEFINE w == Stream!Unrolled(r, page.pageno)
             k == Stream!Skipped(w, page)
             V == SubSeq(page.segments, k + 1, Len(page.segments))
             new == [i \in 1 .. Len(V) |->
                      [Stream!Segment(V[i]) EXCEPT
                        !.bos = page.bos /\ i = 1,
                        !.granule = IF i = Saved(V) THEN page.granule ELSE Stream!NoPosition]]
             all == w.lacing \o new
  <1> DEFINE B == w.body \o SubSeq(page.body, UpTo(page.segments, k) + 1, Len(page.body))
             l == Marked(all, page.eos)
             c == IF Saved(V) = 0 THEN w.lacingPacket ELSE Len(w.lacing) + Saved(V)
  <1>0. V \in Seq(Nat) /\ page.granule \in Int /\ page.bos \in BOOLEAN
    <2>1. page.segments \in Seq(Nat) /\ page.granule \in Int /\ page.bos \in BOOLEAN
      BY DEF OggPages
    <2>. QED  BY <2>1, CutAt
  <1>1. new = NewOf(V, page)
    <2> HIDE DEF V
    <2> DEFINE g(i) == IF i = Saved(V) THEN page.granule ELSE Stream!NoPosition
               b(i) == page.bos /\ i = 1
    <2>1. ASSUME NEW x \in Nat, NEW y \in BOOLEAN, NEW z \in Int
          PROVE  [Stream!Segment(x) EXCEPT !.bos = y, !.granule = z]
                        = [val |-> x, hole |-> FALSE, bos |-> y, eos |-> FALSE, granule |-> z]
      <3> DEFINE h == Stream!Segment(x)
                 a == [h EXCEPT !.bos = y, !.granule = z]
                 b2 == [val |-> x, hole |-> FALSE, bos |-> y, eos |-> FALSE, granule |-> z]
      <3>1. h \in LacingsIn /\ h.val = x /\ h.hole = FALSE /\ h.eos = FALSE
        <4>1. Stream!Hole \in LacingsIn /\ Stream!Hole.eos = FALSE BY HoleIs
        <4>2. h = [Stream!Hole EXCEPT !.val = x, !.hole = FALSE]
          BY DEF Stream!Segment
        <4> HIDE DEF h
        <4>. QED  BY <4>1, <4>2 DEF LacingsIn
      <3> HIDE DEF h
      <3>2. a \in LacingsIn /\ a.val = x /\ a.hole = FALSE /\ a.eos = FALSE /\ a.bos = y /\ a.granule = z
        BY <3>1 DEF LacingsIn
      <3>3. b2 \in LacingsIn /\ b2.val = x /\ b2.hole = FALSE /\ b2.eos = FALSE /\ b2.bos = y /\ b2.granule = z
        BY DEF LacingsIn
      <3> HIDE DEF a, b2
      <3>4. a = b2 BY <3>2, <3>3 DEF LacingsIn
      <3>. QED  BY <3>4 DEF a, b2, h
    <2>2. new = [i \in 1 .. Len(V) |-> [Stream!Segment(V[i]) EXCEPT !.bos = b(i), !.granule = g(i)]]
      OBVIOUS
    <2>3. NewOf(V, page) = [i \in 1 .. Len(V) |-> [val |-> V[i], hole |-> FALSE, bos |-> b(i), eos |-> FALSE, granule |-> g(i)]]
      BY DEF NewOf
    <2>5. \A i \in 1 .. Len(V) : V[i] \in Nat /\ g(i) \in Int /\ b(i) \in BOOLEAN
      BY <1>0 DEF Stream!NoPosition
    <2> HIDE DEF g, b, new
    <2>4. \A i \in 1 .. Len(V) : [Stream!Segment(V[i]) EXCEPT !.bos = b(i), !.granule = g(i)]
                  = [val |-> V[i], hole |-> FALSE, bos |-> b(i), eos |-> FALSE, granule |-> g(i)]
      BY <2>1, <2>5
    <2>. QED  BY <2>2, <2>3, <2>4
  <1>2. Stream!PageIn(r, page) =
          [w EXCEPT !.body = B,
            !.lacing = IF page.eos /\ all # <<>> THEN [all EXCEPT ![Len(all)].eos = TRUE] ELSE all,
            !.lacingPacket = c, !.pageno = page.pageno + 1]
    BY DEF Stream!PageIn, Saved, UpTo
  <1>3. l = IF page.eos /\ all # <<>> THEN [all EXCEPT ![Len(all)].eos = TRUE] ELSE all
    BY DEF Marked
  <1>4. Joining(w, page, k) =
          [w EXCEPT !.body = B, !.lacing = Marked(w.lacing \o NewOf(V, page), page.eos),
            !.lacingPacket = c, !.pageno = page.pageno + 1]
    BY DEF Joining
  <1> HIDE DEF w, k, V, new, B, c
  <1>5. all = w.lacing \o NewOf(V, page) BY <1>1
  <1> HIDE DEF all
  <1>6. l = Marked(w.lacing \o NewOf(V, page), page.eos) BY <1>5
  <1>7. Stream!PageIn(r, page) = [w EXCEPT !.body = B, !.lacing = l, !.lacingPacket = c, !.pageno = page.pageno + 1]
    BY <1>2, <1>3, Zenon
  <1> HIDE DEF l
  <1>. QED  BY <1>4, <1>6, <1>7, Zenon DEF w, k

(* What is skipped of a page is the rest of a packet. *)
LEMMA SkippedIs ==
  ASSUME NEW q, Sizes(q), NEW e \in BOOLEAN, NEW page, NEW P, NEW m \in Nat \ {0}, PageHas(q, e, page, P, m),
         NEW w, w \in Read, Len(w.lacing) > 0 => ~Final(w.lacing).eos \/ ~Final(w.lacing).hole
  PROVE  LET k == Stream!Skipped(w, page)
         IN  /\ k \in 0 .. Len(P) /\ Len(P) = Len(page.segments)
             /\ P[1][2] = 0 \/ ~Fresh(w) => k = 0
             /\ Fresh(w) /\ k < Len(P) => P[k + 1][2] = 0
  <1> DEFINE n    == Len(page.segments)
             S    == page.segments
             ends == {i \in 1 .. n : Stream!Ends(S[i])}
             k    == Stream!Skipped(w, page)
             some == w.lacing = <<>> \/ (Stream!Last(w.lacing).hole /\ ~Stream!Last(w.lacing).eos)
  <1>1. /\ Len(P) > 0 /\ Row(q, P) /\ P \in Seq(Pairs) /\ Len(P) = n /\ n \in Nat
        /\ (\A i \in 1 .. n : S[i] = ValueOf(q, P[i]))
        /\ page.continued = (P[1][2] # 0)
    <2>1. /\ Len(P) > 0 /\ Row(q, P) /\ Spelt(P, S, page.body)
          /\ (\A i \in 1 .. Len(P) : S[i] = ValueOf(q, P[i]))
          /\ page.continued = (P[1][2] # 0)
      BY DEF PageHas
    <2>2. P \in Seq(Pairs) /\ Len(P) = n BY <2>1 DEF Spelt
    <2>3. n \in Nat BY <2>2
    <2>. QED  BY <2>1, <2>2, <2>3
  <1>2. some <=> Fresh(w)
    <2> DEFINE l == w.lacing
    <2>1. l \in Seq(LacingsIn) /\ Len(l) \in Nat BY ReadIs
    <2>2. Len(l) > 0 => (~l[Len(l)].eos \/ ~l[Len(l)].hole) /\ l[Len(l)].eos \in BOOLEAN /\ l[Len(l)].hole \in BOOLEAN
      <3>1. Len(l) > 0 => Len(l) \in 1 .. Len(l) BY <2>1
      <3>. QED  BY <3>1, ReadIs DEF Final
    <2>3. Stream!Last(l) = l[Len(l)] BY DEF Stream!Last
    <2> HIDE DEF l
    <2>4. l = <<>> <=> Len(l) = 0 BY <2>1
    <2>5. (l = <<>> \/ (Stream!Last(l).hole /\ ~Stream!Last(l).eos)) <=> (Len(l) = 0 \/ l[Len(l)].hole)
      BY <2>1, <2>2, <2>3, <2>4
    <2>. QED  BY <2>5 DEF l, Fresh, Final
  <1>3. k = IF page.continued /\ some THEN (IF ends = {} THEN n ELSE Stream!Min(ends)) ELSE 0
    BY DEF Stream!Skipped
  <1>4. ends \subseteq Nat /\ \A i \in ends : i \in 1 .. n /\ Stream!Ends(S[i])
    OBVIOUS
  <1>5. ends # {} => Stream!Min(ends) \in ends
    <2> HIDE DEF ends
    <2>. QED  BY <1>4, MinOf
  <1> HIDE DEF ends, k, some, S, n
  <1>6. k \in 0 .. n BY <1>1, <1>3, <1>4, <1>5
  <1>7. P[1][2] = 0 \/ ~Fresh(w) => k = 0 BY <1>1, <1>2, <1>3
  <1>8. ASSUME Fresh(w), k < n PROVE P[k + 1][2] = 0
    <2>1. CASE page.continued
      <3>1. k \in ends BY <2>1, <1>1, <1>2, <1>3, <1>5, <1>8
      <3>2. k \in 1 .. n /\ k \in 1 .. Len(P) /\ k \in 1 .. Len(P) - 1 /\ Stream!Ends(S[k])
        BY <3>1, <1>1, <1>4, <1>8
      <3>3. OneOf(q, P[k]) /\ P[k + 1] = FollowerOf(q, P[k]) /\ S[k] = ValueOf(q, P[k])
        BY <3>2, <1>1 DEF Row
      <3>4. FollowerOf(q, P[k]) = <<P[k][1] + 1, 0>> BY <3>2, <3>3, Segments
      <3>. QED  BY <3>3, <3>4
    <2>2. CASE ~page.continued
      <3>1. k = 0 /\ P[1][2] = 0 BY <2>2, <1>1, <1>3
      <3>. QED  BY <3>1
    <2>. QED  BY <2>1, <2>2
  <1>. QED  BY <1>1, <1>6, <1>7, <1>8 DEF k, n

(* Before a page the reader has no hole to tell. *)
LEMMA NoHoles ==
  ASSUME NEW q, NEW e, NEW r, NEW R, ReaderHas(q, e, r, R), WholeUpTo(r), r.lacingPacket = 0
  PROVE  /\ ~HoleFirst(r) /\ (Fresh(r) => Len(r.lacing) = 0)
         /\ Len(r.lacing) = Len(R) /\ Len(R) \in Nat /\ R \in Seq(Pairs)
         /\ \A i \in 1 .. Len(R) : ~r.lacing[i].hole
  <1>1. /\ Len(r.lacing) = Len(R) /\ Len(R) \in Nat /\ R \in Seq(Pairs)
    <2>1. r \in Read /\ R \in Seq(Pairs) /\ Len(R) = Len(Values(r.lacing))
      BY DEF ReaderHas, Spelt
    <2>. QED  BY <2>1, ReadIs
  <1>2. \A i \in 1 .. Len(R) : ~r.lacing[i].hole
    <2> SUFFICES ASSUME NEW i \in 1 .. Len(R), r.lacing[i].hole PROVE FALSE
      OBVIOUS
    <2>1. r.lacing[i].val = 0 BY DEF ReaderHas
    <2>2. i \in r.lacingPacket + 1 .. Len(r.lacing) BY <1>1
    <2>. QED  BY <2>1, <2>2, HoleIs DEF WholeUpTo
  <1>3. Len(R) > 0 => 1 \in 1 .. Len(R) /\ Len(R) \in 1 .. Len(R) BY <1>1
  <1>. QED  BY <1>1, <1>2, <1>3 DEF HoleFirst, Fresh, Final

(* The reader w is r when a page comes: the page follows, or it is the *)
(* first, or there is a hole. *)
Unrolls(q, e, r, w, given, d) ==
    \/ w = r /\ r.pageno = given - 1 /\ given > 1
    \/ w = r /\ r.pageno = -1 /\ Len(r.lacing) = 0
    \/ /\ d # 0 /\ r.pageno # -1 /\ w \in Read /\ w.lacing = <<Stream!Hole>>
       /\ \E Z : ReaderHas(q, e, w, Z) /\ WholeUpTo(w) /\ Len(Z) = 1

(* What it has when a page comes, that follows or does not. *)
LEMMA UnrolledHas ==
  ASSUME NEW q, Sizes(q), NEW e \in BOOLEAN, NEW r, NEW R, ReaderHas(q, e, r, R), WholeUpTo(r),
         r.lacingPacket = 0, NEW F, NEW given \in Nat \ {0}, NEW d \in Nat, ReaderAt(r, R, F, given, d)
  PROVE  Unrolls(q, e, r, Stream!Unrolled(r, given - 1), given, d)
  <1> DEFINE w == Stream!Unrolled(r, given - 1)
  <1>1. r \in Read /\ Spelt(R, Values(r.lacing), r.body) BY DEF ReaderHas
  <1>2. CASE given - 1 = r.pageno
    <2>1. w = r BY <1>1, <1>2, UnrolledIs
    <2>2. given > 1 BY <1>2 DEF ReaderAt
    <2>. QED  BY <2>1, <2>2, <1>2 DEF Unrolls
  <1>3. CASE given - 1 # r.pageno /\ r.pageno = -1
    <2>1. Len(r.lacing) = 0 BY <1>3 DEF ReaderAt
    <2>2. w = r BY <2>1, <1>1, <1>3, UnrolledIs
    <2>. QED  BY <2>1, <2>2, <1>3 DEF Unrolls
  <1>4. CASE given - 1 # r.pageno /\ r.pageno # -1
    <2>1. d # 0 BY <1>4 DEF ReaderAt
    <2>2. w \in Read /\ w.lacing = <<Stream!Hole>> /\ w.lacingPacket = 1 /\ w.body = <<>>
      BY <1>1, <1>4, UnrolledIs
    <2> HIDE DEF w
    <2> DEFINE Z == << <<0, 0>> >>
               h == Stream!Hole
               l == <<h>>
               V == <<0>>
    <2>3. h \in LacingsIn /\ h.val = 0 /\ h.hole /\ Stream!Ends(0) BY HoleIs
    <2> HIDE DEF h
    <2>4. l \in Seq(LacingsIn) /\ Len(l) = 1 /\ l[1] = h /\ l[1].val = 0 /\ l[1].hole
      BY <2>3
    <2>5. Z \in Seq(Pairs) /\ Len(Z) = 1 /\ V \in Seq(Nat) /\ Len(V) = 1 /\ V[1] = 0
      BY DEF Pairs
    <2> HIDE DEF l, Z, V
    <2>6. Values(l) = V
      <3>1. Values(l) \in Seq(Nat) /\ Len(Values(l)) = 1 /\ \A i \in 1 .. 1 : Values(l)[i] = l[i].val
        <4>1. \A x \in LacingsIn : x.val \in Nat BY DEF LacingsIn
        <4>. QED  BY <4>1, <2>4, ValuesAre
      <3>2. \A i \in 1 .. Len(V) : Values(l)[i] = V[i] BY <3>1, <2>4, <2>5
      <3>. QED  BY <3>1, <3>2, <2>5, SameSequence
    <2>7. Spelt(Z, V, <<>>)
      <3>1. UpTo(V, 1) = 0 /\ UpTo(V, 0) = 0
        <4>1. UpTo(V, 0) = 0 /\ \A i \in 1 .. Len(V) : UpTo(V, i) = UpTo(V, i - 1) + V[i]
          BY <2>5, SumsUp
        <4>2. 1 \in 1 .. Len(V) /\ 1 - 1 = 0 BY <2>5
        <4>3. UpTo(V, 1) = UpTo(V, 0) + V[1] BY <4>1, <4>2
        <4>. QED  BY <4>1, <4>3, <2>5
      <3>2. <<>> \in Seq(Pairs) /\ Len(<<>>) = 0 OBVIOUS
      <3>3. \A i \in 1 .. Len(V) : V[i] = 0 BY <2>5
      <3>4. \A i \in 1 .. Len(V) : 1 .. V[i] = {} BY <3>3
      <3>. QED  BY <3>1, <3>2, <3>4, <2>5 DEF Spelt
    <2>8. w.lacing = l BY <2>2 DEF l, h
    <2>9. ReaderHas(q, e, w, Z)
      <3>1. Spelt(Z, Values(w.lacing), w.body) BY <2>2, <2>6, <2>7, <2>8
      <3>2. \A i \in 1 .. Len(Z) : i = 1 /\ w.lacing[i].hole /\ w.lacing[i].val = 0
        BY <2>4, <2>5, <2>8
      <3>. QED  BY <3>1, <3>2, <2>2 DEF ReaderHas
    <2>10. WholeUpTo(w) BY <2>2, <2>3, <2>4, <2>8 DEF WholeUpTo
    <2>. QED  BY <2>1, <2>2, <2>5, <2>9, <2>10, <1>4 DEF w, Unrolls
  <1>. QED  BY <1>2, <1>3, <1>4

(* A page that is given. *)
LEMMA PageReaches ==
  ASSUME NEW q, Sizes(q), NEW e \in BOOLEAN, NEW f, NEW F, PagesHave(q, e, f, F),
         F[1][1] = <<0, 0>>, \A m \in 1 .. Len(F) - 1 : F[m + 1][1] = FollowerOf(q, Final(F[m])),
         NEW r, NEW R, ReaderHas(q, e, r, R), WholeUpTo(r), r.lacingPacket = 0,
         NEW d \in Nat, NEW given \in Nat \ {0}, given <= Len(f), ReaderAt(r, R, F, given, d),
         NEW o, o \in Seq(OggPackets), d = 0 => \A i \in 1 .. Len(o) : Stream!Packet(o[i]),
         GoesOn(q, o, r, R, F, given, d)
  PROVE  \E X : LET v == Stream!PageIn(r, f[given])
                IN  /\ ReaderHas(q, e, v, X) /\ WholeUpTo(v)
                    /\ ReaderAt(v, X, F, given + 1, d) /\ GoesOn(q, o, v, X, F, given + 1, d)
  <1> DEFINE page == f[given]
             P == F[given]
             w == Stream!Unrolled(r, page.pageno)
             k == Stream!Skipped(w, page)
             v == Stream!PageIn(r, page)
  <1>1. /\ Len(f) \in Nat /\ Len(F) = Len(f) /\ given \in 1 .. Len(f) /\ PageHas(q, e, page, P, given)
        /\ \A m \in 1 .. Len(f) : PageHas(q, e, f[m], F[m], m)
    <2>1. f \in Seq(OggPages) BY DEF PagesHave
    <2>2. Len(f) \in Nat BY <2>1
    <2>3. given \in 1 .. Len(f) BY <2>2
    <2>. QED  BY <2>2, <2>3 DEF PagesHave
  <1>2. /\ page \in OggPages /\ Len(P) > 0 /\ Row(q, P) /\ P \in Seq(Pairs) /\ Len(P) \in Nat
        /\ page.pageno = given - 1
    <2>1. page \in OggPages /\ Len(P) > 0 /\ Row(q, P) /\ P \in Seq(Pairs) /\ page.pageno = given - 1
      BY <1>1 DEF PageHas, Spelt
    <2>. QED  BY <2>1
  <1>3. /\ given = 1 => P[1] = <<0, 0>>
        /\ given > 1 => P[1] = FollowerOf(q, Final(F[given - 1])) /\ P[1] # <<0, 0>>
                        /\ OneOf(q, Final(F[given - 1]))
    <2>1. given = 1 => P[1] = <<0, 0>> OBVIOUS
    <2>2. ASSUME given > 1
          PROVE  P[1] = FollowerOf(q, Final(F[given - 1])) /\ P[1] # <<0, 0>> /\ OneOf(q, Final(F[given - 1]))
      <3> DEFINE m == given - 1
      <3>1. m \in 1 .. Len(F) - 1 /\ m \in 1 .. Len(f) /\ m + 1 = given
        BY <2>2, <1>1
      <3> HIDE DEF m
      <3>2. P[1] = FollowerOf(q, Final(F[m])) BY <3>1
      <3>3. Len(F[m]) > 0 /\ Row(q, F[m]) /\ F[m] \in Seq(Pairs)
        BY <3>1, <1>1 DEF PageHas, Spelt
      <3>4. OneOf(q, Final(F[m]))
        <4>1. Len(F[m]) \in 1 .. Len(F[m]) BY <3>3
        <4>. QED  BY <4>1, <3>3 DEF Row, Final
      <3>. QED  BY <3>2, <3>4, Segments DEF m
    <2>. QED  BY <2>1, <2>2
  <1>4. /\ ~HoleFirst(r) /\ (Fresh(r) => Len(r.lacing) = 0)
        /\ Len(r.lacing) = Len(R) /\ Len(R) \in Nat /\ R \in Seq(Pairs)
        /\ \A i \in 1 .. Len(R) : ~r.lacing[i].hole
    BY NoHoles
  <1> HIDE DEF page, P, w, k, v
  (* Either it follows, or it is the first, or there is a hole.            *)
  <1>5. Unrolls(q, e, r, w, given, d) BY <1>2, UnrolledHas DEF w
  <1>6. PICK Z : /\ ReaderHas(q, e, w, Z) /\ WholeUpTo(w)
                 /\ \/ w = r /\ Z = R /\ ((r.pageno = given - 1 /\ given > 1) \/ (r.pageno = -1 /\ Len(r.lacing) = 0))
                    \/ d # 0 /\ r.pageno # -1 /\ w.lacing = <<Stream!Hole>> /\ Len(Z) = 1
    BY <1>5 DEF Unrolls
  <1>7. /\ w \in Read /\ Len(w.lacing) = Len(Z) /\ Z \in Seq(Pairs) /\ Len(Z) \in Nat
    <2>1. w \in Read /\ Z \in Seq(Pairs) /\ Len(Z) = Len(Values(w.lacing))
      BY <1>6 DEF ReaderHas, Spelt
    <2>. QED  BY <2>1, ReadIs
  <1>8. Len(w.lacing) > 0 => ~Final(w.lacing).eos \/ ~Final(w.lacing).hole
    <2>1. CASE w = r
      <3>1. Len(R) > 0 => Len(R) \in 1 .. Len(R) BY <1>4
      <3>. QED  BY <2>1, <3>1, <1>4 DEF Final
    <2>2. CASE w.lacing = <<Stream!Hole>>
      <3>1. Len(w.lacing) = 1 /\ w.lacing[1] = Stream!Hole BY <2>2
      <3>. QED  BY <3>1, HoleIs DEF Final
    <2>. QED  BY <2>1, <2>2, <1>6
  <1>9. /\ k \in 0 .. Len(P) /\ Len(P) = Len(page.segments)
        /\ P[1][2] = 0 \/ ~Fresh(w) => k = 0
        /\ Fresh(w) /\ k < Len(P) => P[k + 1][2] = 0
    BY <1>1, <1>7, <1>8, SkippedIs DEF k
  <1>10. v = Joining(w, page, k) BY <1>2, <1>9, PageInIs DEF v, w, k
  <1>11. ~Fresh(w) => /\ k = 0 /\ w = r /\ Z = R /\ r.pageno = given - 1 /\ given > 1
                      /\ P[1] = FollowerOf(q, Final(Z))
    <2> HAVE ~Fresh(w)
    <2>1. w = r /\ Z = R /\ r.pageno = given - 1 /\ given > 1
      <3>1. CASE w.lacing = <<Stream!Hole>>
        <4>1. Len(w.lacing) = 1 /\ w.lacing[1] = Stream!Hole BY <3>1
        <4>. QED  BY <4>1, HoleIs DEF Final, Fresh
      <3>2. CASE w = r /\ Len(r.lacing) = 0 BY <3>2 DEF Fresh
      <3>. QED  BY <3>1, <3>2, <1>6
    <2>2. Len(R) > 0 /\ ~Final(r.lacing).hole BY <2>1, <1>4 DEF Fresh
    <2>3. Final(R) = Final(F[r.pageno]) BY <2>2 DEF ReaderAt
    <2>. QED  BY <2>1, <2>3, <1>3, <1>9
  <1> DEFINE X == Z \o SubSeq(P, k + 1, Len(P))
  <1>12. Added(q, e, P, given, w, Z, k, v, X)
    <2>1. given = 1 => P[1] = <<0, 0>> /\ k = 0
      <3>1. P[1] = <<0, 0>> => P[1][2] = 0 OBVIOUS
      <3>. QED  BY <3>1, <1>3, <1>9
    <2>2. given > 1 => P[1] # <<0, 0>> BY <1>3
    <2>3. ~Fresh(w) => k = 0 /\ P[1] = FollowerOf(q, Final(Z)) BY <1>11
    <2>4. Fresh(w) /\ k < Len(P) => P[k + 1][2] = 0 /\ k \in 0 .. Len(P) BY <1>9
    <2>5. k \in 0 .. Len(P) BY <1>9
    <2> HIDE DEF X
    <2>6. Added(q, e, P, given, w, Z, k, Joining(w, page, k), Z \o SubSeq(P, k + 1, Len(P)))
      BY <2>1, <2>2, <2>3, <2>4, <2>5, <1>1, <1>6, PageAdds
    <2>. QED  BY <2>6, <1>10 DEF X
  <1> HIDE DEF X
  <1>13. /\ ReaderHas(q, e, v, X) /\ WholeUpTo(v) /\ v.pageno = given
         /\ Len(v.lacing) = Len(X) /\ Len(X) = Len(Z) + (Len(P) - k)
         /\ Len(Z) > 0 => X[1] = Z[1] /\ (v.lacing[1].hole <=> w.lacing[1].hole)
         /\ Len(Z) = 0 /\ k < Len(P) => X[1] = P[k + 1] /\ ~v.lacing[1].hole
         /\ k < Len(P) => Final(X) = Final(P)
         /\ k = Len(P) => X = Z /\ Fresh(v)
         /\ k \in 0 .. Len(P) /\ Len(P) \in Nat /\ Len(Z) \in Nat
    BY <1>2, <1>7, <1>9, <1>12 DEF Added
  (* What follows the last packet that came out, if the page follows.      *)
  <1>14. ASSUME w = r, Z = R, r.pageno = given - 1, given > 1, Len(R) = 0,
                IsEnd(q, Final(F[r.pageno]))
         PROVE  k = 0 /\ P[1] = <<Final(F[r.pageno])[1] + 1, 0>>
    <2>1. P[1] = <<Final(F[r.pageno])[1] + 1, 0>> BY <1>3, <1>14, Segments
    <2>2. P[1][2] = 0 BY <2>1
    <2>. QED  BY <2>1, <2>2, <1>9
  <1>15. HoleFirst(v) => Len(Z) > 0 /\ w.lacing[1].hole
    <2> HAVE HoleFirst(v)
    <2>1. Len(X) > 0 /\ v.lacing[1].hole BY <1>13 DEF HoleFirst
    <2>2. CASE k = Len(P)
      <3>1. Len(Z) > 0 BY <2>1, <2>2, <1>13
      <3>. QED  BY <2>1, <3>1, <1>13
    <2>3. CASE k < Len(P)
      <3>1. Len(Z) = 0 \/ Len(Z) > 0 BY <1>13
      <3>. QED  BY <2>1, <2>3, <3>1, <1>13
    <2>. QED  BY <2>2, <2>3, <1>13
  <1>16. HoleFirst(v) => d # 0
    <2> HAVE HoleFirst(v)
    <2>1. ~(w = r /\ Z = R)
      <3>1. Len(R) > 0 => 1 \in 1 .. Len(R) BY <1>4
      <3>. QED  BY <3>1, <1>4, <1>15
    <2>. QED  BY <2>1, <1>6
  <1>17. ReaderAt(v, X, F, given + 1, d)
    <2>1. given + 1 \in 1 .. Len(F) + 1 /\ given # -1 /\ given \in 1 .. (given + 1) - 1 /\ (given + 1) - 1 = given /\ given + 1 # 1
      BY <1>1
    <2>2. Len(X) > 0 /\ ~Final(v.lacing).hole => Final(X) = Final(F[given])
      <3> HAVE Len(X) > 0 /\ ~Final(v.lacing).hole
      <3>1. CASE k = Len(P) BY <3>1, <1>13 DEF Fresh
      <3>2. CASE k < Len(P) BY <3>2, <1>13 DEF P
      <3>. QED  BY <3>1, <3>2, <1>13
    <2>. QED  BY <2>1, <2>2, <1>13, <1>16 DEF ReaderAt
  <1>18. GoesOn(q, o, v, X, F, given + 1, d)
    <2>1. v.pageno # -1 BY <1>13
    <2>2. ASSUME Len(o) > 0, Stream!Packet(Final(o)), ~HoleFirst(v)
          PROVE  Len(X) > 0 /\ X[1][1] = Stream!Number(Final(o)) + 1
      <3>1. r.pageno # -1 BY <2>2 DEF GoesOn
      <3>2. w.lacing # <<Stream!Hole>>
        <4> SUFFICES ASSUME w.lacing = <<Stream!Hole>> PROVE FALSE
          OBVIOUS
        <4>1. Len(w.lacing) = 1 /\ w.lacing[1].hole BY HoleIs
        <4>2. Len(Z) > 0 /\ Len(X) > 0
          <5>1. Len(Z) = 1 BY <4>1, <1>7
          <5>2. Len(X) = Len(Z) + (Len(P) - k) /\ k \in 0 .. Len(P) /\ Len(P) \in Nat
            BY <1>13
          <5>3. Len(X) > 0 BY <5>1, <5>2, SMT
          <5>. QED  BY <5>1, <5>3
        <4>3. v.lacing[1].hole BY <4>1, <4>2, <1>13
        <4>. QED  BY <4>2, <4>3, <2>2, <1>13 DEF HoleFirst
      <3>3. w = r /\ Z = R /\ r.pageno = given - 1 /\ given > 1
        BY <3>1, <3>2, <1>6
      <3>4. IF Len(R) > 0 THEN R[1][1] = Stream!Number(Final(o)) + 1
            ELSE /\ IsEnd(q, Final(F[r.pageno])) /\ Final(F[r.pageno])[1] = Stream!Number(Final(o))
        BY <2>2, <1>4 DEF GoesOn
      <3>5. CASE Len(R) > 0 BY <3>3, <3>4, <3>5, <1>13
      <3>6. CASE Len(R) = 0
        <4>1. k = 0 /\ P[1] = <<Stream!Number(Final(o)) + 1, 0>>
          BY <3>3, <3>4, <3>6, <1>14
        <4>2. k < Len(P) /\ k + 1 = 1 BY <4>1, <1>2
        <4>3. X[1] = P[1] /\ Len(X) > 0 BY <4>1, <4>2, <3>3, <3>6, <1>13
        <4>. QED  BY <4>1, <4>3
      <3>. QED  BY <3>5, <3>6, <1>4
    <2>3. ASSUME d = 0, Len(o) = 0
          PROVE  Len(X) > 0 /\ X[1] = <<0, 0>>
      <3>1. IF Len(R) > 0 THEN R[1] = <<0, 0>> ELSE given = 1 BY <2>3 DEF GoesOn
      <3>2. w = r /\ Z = R BY <2>3, <1>6
      <3>3. CASE Len(R) > 0 BY <3>1, <3>2, <3>3, <1>13
      <3>4. CASE Len(R) = 0
        <4>1. P[1] = <<0, 0>> BY <3>1, <3>4, <1>3
        <4>2. P[1][2] = 0 BY <4>1
        <4>3. k = 0 /\ k < Len(P) /\ k + 1 = 1 BY <4>2, <1>2, <1>9
        <4>. QED  BY <4>1, <4>3, <3>2, <3>4, <1>13
      <3>. QED  BY <3>3, <3>4, <1>4
    <2>. QED  BY <2>1, <2>2, <2>3 DEF GoesOn
  <1>. QED  BY <1>13, <1>17, <1>18 DEF v, page

(* A page is read. *)
LEMMA ReadStream ==
  ASSUME StreamInv, Stream!ReadPage
  PROVE  StreamInv'
  <1>1. PICK F, W, R : StreamIs(F, W, R) BY DEF StreamInv
  <1>2. /\ next <= Len(pages) /\ rs.lacingPacket = 0
        /\ rs' = Stream!PageIn(rs, pages[next]) /\ next' = next + 1
        /\ UNCHANGED <<in, os, pages, damaged, out>>
    BY DEF Stream!ReadPage
  <1>3. /\ Sizes(in) /\ os.eos \in BOOLEAN /\ PagesHave(in, os.eos, pages, F) /\ Joined(in, F, W)
        /\ ReaderHas(in, os.eos, rs, R) /\ WholeUpTo(rs) /\ damaged \in Nat
        /\ ReaderAt(rs, R, F, next, damaged) /\ GoesOn(in, out, rs, R, F, next, damaged)
        /\ out \in Seq(OggPackets) /\ (damaged = 0 => \A i \in 1 .. Len(out) : Stream!Packet(out[i]))
    <2>1. os \in Written BY <1>1 DEF StreamIs, WriterHas
    <2>2. os.eos \in BOOLEAN BY <2>1 DEF Written
    <2>. QED  BY <2>2, <1>1 DEF StreamIs, OutHas, InTurn
  <1>4. next \in Nat \ {0} /\ Len(F) = Len(pages) /\ Len(F) > 0 /\ Len(pages) \in Nat
    <2>1. Len(F) = Len(pages) /\ pages \in Seq(OggPages) /\ next \in 1 .. Len(F) + 1
      BY <1>3 DEF PagesHave, ReaderAt
    <2>2. Len(pages) \in Nat BY <2>1
    <2>. QED  BY <2>1, <2>2, <1>2
  <1>5. F[1][1] = <<0, 0>> /\ \A m \in 1 .. Len(F) - 1 : F[m + 1][1] = FollowerOf(in, Final(F[m]))
    BY <1>3, <1>4 DEF Joined
  <1>6. PICK X : LET v == Stream!PageIn(rs, pages[next])
                 IN  /\ ReaderHas(in, os.eos, v, X) /\ WholeUpTo(v)
                     /\ ReaderAt(v, X, F, next + 1, damaged)
                     /\ GoesOn(in, out, v, X, F, next + 1, damaged)
    BY <1>2, <1>3, <1>4, <1>5, PageReaches
  <1>7. StreamIs(F, W, X)'
    <2>1. in' = in /\ os' = os /\ pages' = pages /\ damaged' = damaged /\ out' = out
      BY <1>2
    <2>2. /\ ReaderHas(in', os'.eos, rs', X) /\ WholeUpTo(rs')
          /\ ReaderAt(rs', X, F, next', damaged') /\ GoesOn(in', out', rs', X, F, next', damaged')
      BY <2>1, <1>2, <1>6
    <2>3. /\ Sizes(in') /\ damaged' \in Nat /\ WriterHas(in', os', W) /\ Joined(in', F, W)
          /\ (os'.bos <=> Len(pages') > 0) /\ os'.pageno = Len(pages') /\ (os'.eos => Len(in') > 0)
          /\ PagesHave(in', os'.eos, pages', F) /\ OutHas(in', os'.eos, out') /\ InTurn(out', damaged')
      BY <2>1, <1>1 DEF StreamIs
    <2>. QED  BY <2>2, <2>3 DEF StreamIs
  <1>. QED  BY <1>7 DEF StreamInv

(* A page is passed over. *)
LEMMA PassStream ==
  ASSUME StreamInv, Stream!PassOver
  PROVE  StreamInv'
  <1>1. PICK F, W, R : StreamIs(F, W, R) BY DEF StreamInv
  <1>2. /\ next <= Len(pages) /\ damaged' = damaged + 1 /\ next' = next + 1
        /\ UNCHANGED <<in, os, pages, rs, out>>
    BY DEF Stream!PassOver
  <1>3. damaged \in Nat /\ ReaderAt(rs, R, F, next, damaged) /\ GoesOn(in, out, rs, R, F, next, damaged)
        /\ PagesHave(in, os.eos, pages, F) /\ OutHas(in, os.eos, out) /\ InTurn(out, damaged)
    BY <1>1 DEF StreamIs
  <1>4. damaged' \in Nat /\ damaged' # 0 BY <1>2, <1>3
  <1>5. /\ next \in 1 .. Len(F) + 1 /\ Len(F) = Len(pages) /\ Len(pages) \in Nat
    <2>1. Len(F) = Len(pages) /\ pages \in Seq(OggPages) /\ next \in 1 .. Len(F) + 1
      BY <1>3 DEF PagesHave, ReaderAt
    <2>. QED  BY <2>1
  <1>6. next + 1 \in 1 .. Len(F) + 1 /\ \A x \in 1 .. next - 1 : x \in 1 .. (next + 1) - 1
    BY <1>2, <1>5
  <1>7. ReaderAt(rs, R, F, next + 1, damaged') BY <1>3, <1>4, <1>6 DEF ReaderAt
  <1>8. GoesOn(in, out, rs, R, F, next + 1, damaged') /\ InTurn(out, damaged')
    BY <1>3, <1>4 DEF GoesOn, InTurn
  <1>9. StreamIs(F, W, R)'
    <2>1. in' = in /\ os' = os /\ pages' = pages /\ rs' = rs /\ out' = out /\ next' = next + 1
      BY <1>2
    <2>2. /\ ReaderAt(rs', R, F, next', damaged') /\ GoesOn(in', out', rs', R, F, next', damaged')
          /\ InTurn(out', damaged')
      BY <2>1, <1>7, <1>8
    <2>3. /\ Sizes(in') /\ WriterHas(in', os', W) /\ Joined(in', F, W)
          /\ (os'.bos <=> Len(pages') > 0) /\ os'.pageno = Len(pages') /\ (os'.eos => Len(in') > 0)
          /\ PagesHave(in', os'.eos, pages', F) /\ OutHas(in', os'.eos, out')
          /\ ReaderHas(in', os'.eos, rs', R) /\ WholeUpTo(rs')
      BY <2>1, <1>1 DEF StreamIs
    <2>. QED  BY <2>2, <2>3, <1>4 DEF StreamIs
  <1>. QED  BY <1>9 DEF StreamInv

(* The first n values are given away: those of a packet, or a hole. *)
GivenAway(r, n) ==
    [r EXCEPT !.lacing = SubSeq(r.lacing, n + 1, Len(r.lacing)), !.lacingPacket = r.lacingPacket - n,
              !.body = SubSeq(r.body, UpTo(Values(r.lacing), n) + 1, Len(r.body))]

(* What is left. *)
Left(q, e, r, R, n, v, X) ==
    /\ ReaderHas(q, e, v, X) /\ WholeUpTo(v) /\ v.pageno = r.pageno
    /\ Len(X) = Len(R) - n /\ Len(v.lacing) = Len(X)
    /\ \A i \in 1 .. Len(X) : ~v.lacing[i].hole
    /\ Len(X) > 0 => X[1] = R[n + 1] /\ Final(X) = Final(R) /\ ~Final(r.lacing).hole

(* What is left when a packet, or a hole, is given away. *)
LEMMA Leaves ==
  ASSUME NEW q, Sizes(q), NEW e \in BOOLEAN, NEW r, NEW R, ReaderHas(q, e, r, R), WholeUpTo(r),
         NEW n \in 1 .. Len(R), n <= r.lacingPacket,
         r.lacing[n].hole \/ (~r.lacing[n].hole /\ IsEnd(q, R[n]))
  PROVE  Left(q, e, r, R, n, GivenAway(r, n), SubSeq(R, n + 1, Len(R)))
  <1> DEFINE a == r.lacing
             c == r.lacingPacket
             u == Len(R)
             V == Values(a)
             l == SubSeq(a, n + 1, Len(a))
             B == SubSeq(r.body, UpTo(V, n) + 1, Len(r.body))
             X == SubSeq(R, n + 1, Len(R))
             v == GivenAway(r, n)
             z == u - n
  <1>1. /\ r \in Read /\ Spelt(R, V, r.body) /\ R \in Seq(Pairs) /\ Len(a) = u /\ u \in Nat
        /\ a \in Seq(LacingsIn) /\ c \in Nat /\ n \in Nat /\ n >= 1 /\ n <= u /\ Len(V) = u
    <2>1. r \in Read /\ Spelt(R, V, r.body) BY DEF ReaderHas
    <2>2. R \in Seq(Pairs) /\ u = Len(V) BY <2>1 DEF Spelt
    <2>3. u \in Nat BY <2>2
    <2>4. n \in Nat /\ n >= 1 /\ n <= u BY <2>3
    <2>. QED  BY <2>1, <2>2, <2>3, <2>4, ReadIs
  <1>2. z \in Nat /\ n \in 0 .. u /\ (\A i \in 1 .. z : n + i \in 1 .. u /\ n + i > 1)
    BY <1>1
  <1>3. /\ c <= u /\ Stream!Ends(a[c].val) /\ c >= n
        /\ \A i \in c + 1 .. u : ~Stream!Ends(a[i].val)
    <2>1. c > 0 BY <1>1
    <2>. QED  BY <2>1, <1>1 DEF WholeUpTo
  <1>4. \A i \in 1 .. u :
            /\ a[i].hole => i = 1 /\ a[i].val = 0
            /\ ~a[i].hole => /\ SegmentIs(q, e, a[i], R[i])
                             /\ i < u => R[i + 1] = FollowerOf(q, R[i])
                             /\ i = 1 \/ a[i - 1].hole => R[i][2] = 0
    BY DEF ReaderHas
  <1>5. Spelt(X, SubSeq(V, n + 1, Len(V)), B)
    <2>1. n \in 0 .. Len(V) BY <1>1, <1>2
    <2>. QED  BY <2>1, <1>1, SpeltInTwo
  <1>6. /\ X \in Seq(Pairs) /\ Len(X) = z /\ \A i \in 1 .. z : X[i] = R[n + i]
    <2>1. R \in Seq(Pairs) /\ n \in 0 .. Len(R) BY <1>1
    <2>. QED  BY ONLY <2>1, CutAt
  <1>7. /\ l \in Seq(LacingsIn) /\ Len(l) = z /\ \A i \in 1 .. z : l[i] = a[n + i]
    <2> HIDE DEF a
    <2>1. n \in 0 .. Len(a) BY <1>1, <1>2
    <2>2. /\ l \in Seq(LacingsIn) /\ Len(l) = Len(a) - n
          /\ \A i \in 1 .. Len(a) - n : l[i] = a[n + i]
      BY <2>1, <1>1, CutAt
    <2>. QED  BY <2>2, <1>1
  <1>8. Values(l) = SubSeq(V, n + 1, Len(V))
    <2>1. \A x \in LacingsIn : x.val \in Nat BY DEF LacingsIn
    <2> HIDE DEF a
    <2>2. n \in 0 .. Len(a) BY <1>1, <1>2
    <2>3. Values(l) = SubSeq(Values(a), n + 1, Len(a))
      BY <2>1, <2>2, <1>1, ValuesInTwo
    <2>. QED  BY <2>3, <1>1
  <1> HIDE DEF X, l, B, V
  <1>9. v \in Read /\ v.lacing = l /\ v.lacingPacket = c - n /\ v.body = B /\ v.pageno = r.pageno
    <2>1. B \in Seq(Pairs) BY <1>5 DEF Spelt
    <2>2. c - n \in Nat BY <1>1, <1>3
    <2> DEFINE w == c - n
    <2>3. v = [r EXCEPT !.lacing = l, !.lacingPacket = w, !.body = B]
      BY DEF GivenAway, l, B, V
    <2> HIDE DEF w, v
    <2>4. v \in Read /\ v.lacing = l /\ v.lacingPacket = w /\ v.body = B /\ v.pageno = r.pageno
      BY <2>1, <2>2, <2>3, <1>1, <1>7 DEF Read, w
    <2>. QED  BY <2>4 DEF w
  <1> HIDE DEF v, a, c, u
  <1>10. \A i \in 1 .. z : ~l[i].hole
    <2> SUFFICES ASSUME NEW i \in 1 .. z PROVE ~l[i].hole
      OBVIOUS
    <2>1. n + i \in 1 .. u /\ n + i # 1 BY <1>1, <1>2
    <2>. QED  BY <2>1, <1>4, <1>7
  <1>11. ASSUME NEW i \in 1 .. z
         PROVE  /\ SegmentIs(q, e, l[i], X[i])
                /\ i < z => X[i + 1] = FollowerOf(q, X[i])
                /\ i = 1 => X[i][2] = 0
    <2>1. /\ n + i \in 1 .. u /\ n + i # 1 /\ ~a[n + i].hole /\ X[i] = R[n + i] /\ l[i] = a[n + i]
      BY <1>1, <1>2, <1>6, <1>7, <1>10
    <2>2. SegmentIs(q, e, l[i], X[i]) BY <2>1, <1>4
    <2>3. i < z => X[i + 1] = FollowerOf(q, X[i])
      <3> HAVE i < z
      <3>1. n + i < u /\ i + 1 \in 1 .. z /\ n + (i + 1) = (n + i) + 1
        <4>1. i \in Nat /\ i >= 1 /\ i < u - n /\ u \in Nat /\ n \in Nat
          BY <1>1, <1>2 DEF z
        <4>. QED  BY <4>1 DEF z
      <3>. QED  BY <3>1, <2>1, <1>4, <1>6
    <2>4. i = 1 => X[i][2] = 0
      <3> HAVE i = 1
      <3>1. CASE a[n].hole
        <4>1. (n + i) - 1 = n BY <1>1
        <4>. QED  BY <4>1, <3>1, <2>1, <1>4
      <3>2. CASE ~a[n].hole /\ IsEnd(q, R[n])
        <4>1. n \in 1 .. u /\ n < u BY <1>1, <1>2 DEF z
        <4>2. OneOf(q, R[n]) /\ R[n + 1] = FollowerOf(q, R[n])
          BY <4>1, <3>2, <1>4 DEF SegmentIs
        <4>3. X[i] = <<R[n][1] + 1, 0>> BY <4>2, <3>2, <2>1, Segments
        <4>. QED  BY <4>3
      <3>. QED  BY <3>1, <3>2 DEF a
    <2>. QED  BY <2>2, <2>3, <2>4
  <1>12. ReaderHas(q, e, v, X)
    <2>1. Spelt(X, Values(v.lacing), v.body) BY <1>5, <1>8, <1>9
    <2>2. \A i \in 1 .. z : i # 1 => i - 1 \in 1 .. z BY <1>2
    <2>3. \A i \in 1 .. z : i = 1 \/ l[i - 1].hole => i = 1 BY <2>2, <1>10
    <2>. QED  BY <2>1, <2>3, <1>6, <1>9, <1>10, <1>11 DEF ReaderHas
  <1>13. WholeUpTo(v)
    <2>1. v.lacing = l /\ v.lacingPacket = c - n /\ Len(l) = z /\ c - n \in Nat /\ c - n <= z
      BY <1>1, <1>3, <1>7, <1>9 DEF z
    <2>2. ASSUME c - n > 0 PROVE Stream!Ends(l[c - n].val)
      <3>1. c - n \in 1 .. z /\ n + (c - n) = c BY <2>1, <2>2, <1>1
      <3>. QED  BY <3>1, <1>3, <1>7
    <2>3. ASSUME NEW i \in (c - n) + 1 .. z PROVE ~Stream!Ends(l[i].val)
      <3>1. i \in 1 .. z /\ n + i \in c + 1 .. u BY <2>1, <1>1, <1>2 DEF z
      <3>. QED  BY <3>1, <1>3, <1>7
    <2>. QED  BY <2>1, <2>2, <2>3 DEF WholeUpTo
  <1>14. z > 0 => X[1] = R[n + 1] /\ Final(X) = Final(R) /\ ~Final(a).hole
    <2> HAVE z > 0
    <2>1. 1 \in 1 .. z /\ z \in 1 .. z /\ n + z = u BY <1>1, <1>2 DEF z
    <2>. QED  BY <2>1, <1>1, <1>6, <1>7, <1>10 DEF Final, u
  <1>15. Left(q, e, r, R, n, v, X)
    <2>1. Len(X) = Len(R) - n /\ Len(X) = z /\ v.lacing = l /\ Len(l) = z
      BY <1>6, <1>7, <1>9 DEF z, u
    <2>. QED  BY <2>1, <1>9, <1>10, <1>12, <1>13, <1>14 DEF Left, a
  <1>. QED  BY <1>15 DEF v, X

(* The first n values are those of the packet k. *)
PacketGiven(q, e, r, R, n, k) ==
    /\ k \in 0 .. Len(q) - 1 /\ R[1] = <<k, 0>> /\ R[n][1] = k /\ IsEnd(q, R[n]) /\ OneOf(q, R[n])
    /\ SubSeq(r.body, 1, UpTo(Values(r.lacing), n)) = Stream!Bytes(k, q[k + 1])
    /\ q[k + 1] \in Nat \ {0}
    /\ r.lacing[n].granule \in {Stream!NoPosition, k}
    /\ r.lacing[1].bos = (k = 0)
    /\ (\E i \in 1 .. n : r.lacing[i].eos) <=> (e /\ k = Len(q) - 1)
    /\ ~r.lacing[n].hole

(* The bytes up to the first value that ends a packet are those of one *)
(* packet. *)
LEMMA ComesOut ==
  ASSUME NEW q, Sizes(q), NEW e \in BOOLEAN, NEW r, NEW R, ReaderHas(q, e, r, R),
         NEW n \in 1 .. Len(R), ~r.lacing[1].hole, Stream!Ends(r.lacing[n].val),
         \A i \in 1 .. n - 1 : ~Stream!Ends(r.lacing[i].val)
  PROVE  PacketGiven(q, e, r, R, n, R[1][1])
  <1> DEFINE a == r.lacing
             u == Len(R)
             V == Values(a)
             k == R[1][1]
             z == q[k + 1]
             f == z \div SegmentSize
             V1 == SubSeq(V, 1, n)
             R1 == SubSeq(R, 1, n)
             B1 == SubSeq(r.body, 1, UpTo(V, n))
  <1>1. /\ r \in Read /\ Spelt(R, V, r.body) /\ R \in Seq(Pairs) /\ Len(a) = u /\ u \in Nat
        /\ n \in Nat /\ n >= 1 /\ n <= u /\ Len(V) = u /\ V \in Seq(Nat)
        /\ 1 \in 1 .. n /\ 1 \in 1 .. u /\ n \in 0 .. u /\ n \in 1 .. n
        /\ \A i \in 1 .. u : V[i] = a[i].val /\ a[i].eos \in BOOLEAN
    <2>1. r \in Read /\ Spelt(R, V, r.body) BY DEF ReaderHas
    <2>2. R \in Seq(Pairs) /\ u = Len(V) BY <2>1 DEF Spelt
    <2>3. u \in Nat BY <2>2
    <2>4. n \in Nat /\ n >= 1 /\ n <= u /\ 1 \in 1 .. n /\ 1 \in 1 .. u /\ n \in 0 .. u /\ n \in 1 .. n
      BY <2>3
    <2>5. /\ Len(V) = Len(a) /\ V \in Seq(Nat) /\ \A i \in 1 .. Len(a) : V[i] = a[i].val /\ a[i].eos \in BOOLEAN
      BY <2>1, ReadIs
    <2>. QED  BY <2>1, <2>2, <2>3, <2>4, <2>5
  <1>2. \A i \in 1 .. u : /\ ~a[i].hole /\ SegmentIs(q, e, a[i], R[i])
                          /\ i < u => R[i + 1] = FollowerOf(q, R[i])
    <2>1. \A i \in 1 .. u : a[i].hole => i = 1 BY DEF ReaderHas
    <2>2. \A i \in 1 .. u : ~a[i].hole BY <2>1
    <2>. QED  BY <2>2 DEF ReaderHas
  <1>3. R[1][2] = 0 BY <1>1, <1>2 DEF ReaderHas
  <1> HIDE DEF a, u, V, k, z, f, V1, R1, B1
  <1>4. \A i \in 1 .. u : OneOf(q, R[i]) /\ V[i] = ValueOf(q, R[i]) /\ (Stream!Ends(V[i]) <=> IsEnd(q, R[i]))
    <2>1. \A i \in 1 .. u : OneOf(q, R[i]) /\ V[i] = ValueOf(q, R[i])
      BY <1>1, <1>2 DEF SegmentIs
    <2>. QED  BY <2>1, Segments
  <1>5. Row(q, R)
    <2>1. \A i \in 1 .. u - 1 : i \in 1 .. u /\ i < u BY <1>1
    <2>. QED  BY <2>1, <1>2, <1>4 DEF Row, u
  <1>6. \A i \in 1 .. n - 1 : ~IsEnd(q, R[i])
    <2>1. \A i \in 1 .. n - 1 : i \in 1 .. u BY <1>1
    <2>. QED  BY <2>1, <1>1, <1>4 DEF a
  <1>7. IsEnd(q, R[n])
    <2>1. n \in 1 .. u BY <1>1
    <2>. QED  BY <2>1, <1>1, <1>4 DEF a
  <1>8. \A i \in 1 .. n : R[i] = <<k, i - 1>>
    <2>1. \A i \in 1 .. n : R[i] = <<R[1][1], R[1][2] + (i - 1)>>
      BY <1>1, <1>5, <1>6, OnePacket
    <2>2. \A i \in 1 .. n : 0 + (i - 1) = i - 1 BY <1>1
    <2>. QED  BY <2>1, <2>2, <1>3 DEF k
  <1>9. R[1] = <<k, 0>> /\ R[n] = <<k, n - 1>> /\ R[n][1] = k /\ R[n][2] = n - 1
    <2>1. 1 - 1 = 0 OBVIOUS
    <2>. QED  BY <2>1, <1>1, <1>8
  <1>10. k \in Nat /\ k < Len(q) /\ k \in 0 .. Len(q) - 1 /\ z \in Nat \ {0} /\ Len(q) \in Nat
    <2>1. OneOf(q, R[1]) BY <1>1, <1>4
    <2>2. R[1][1] \in Nat /\ q[R[1][1] + 1] \in Nat \ {0} BY <2>1, Segments
    <2>3. Len(q) \in Nat BY DEF Sizes
    <2>4. k < Len(q) BY <2>1 DEF OneOf, k
    <2>. QED  BY <2>2, <2>3, <2>4 DEF k, z
  <1>11. n = f + 1 /\ f \in Nat
    <2>1. n - 1 = FullOnes(q, k) BY <1>7, <1>9 DEF IsEnd
    <2>2. f = FullOnes(q, k) BY DEF FullOnes, f, z
    <2>3. f \in Nat BY <1>10, Divided DEF f
    <2>. QED  BY <2>1, <2>2, <2>3, <1>1
  <1>12. \A i \in 1 .. n : V[i] = IF i = n THEN z % SegmentSize ELSE SegmentSize
    <2> TAKE i \in 1 .. n
    <2>1. i \in 1 .. u /\ R[i] = <<k, i - 1>> /\ R[i][1] = k BY <1>1, <1>8
    <2>2. V[i] = ValueOf(q, R[i]) BY <2>1, <1>4
    <2>3. CASE i = n BY <2>1, <2>2, <2>3, <1>7 DEF ValueOf, z
    <2>4. CASE i # n
      <3>1. i \in 1 .. n - 1 BY <2>4, <1>1
      <3>2. ~IsEnd(q, R[i]) BY <3>1, <1>6
      <3>. QED  BY <2>2, <2>4, <3>2 DEF ValueOf
    <2>. QED  BY <2>3, <2>4
  <1>13. /\ V1 \in Seq(Nat) /\ Len(V1) = n /\ (\A i \in 1 .. n : V1[i] = V[i])
         /\ R1 \in Seq(Pairs) /\ Len(R1) = n /\ (\A i \in 1 .. n : R1[i] = R[i])
    <2>1. n \in 0 .. Len(V) /\ n \in 0 .. Len(R) BY <1>1 DEF u
    <2>2. V1 \in Seq(Nat) /\ Len(V1) = n /\ (\A i \in 1 .. n : V1[i] = V[i])
      BY <2>1, <1>1, CutAt DEF V1
    <2>3. R1 \in Seq(Pairs) /\ Len(R1) = n /\ (\A i \in 1 .. n : R1[i] = R[i])
      BY <2>1, <1>1, CutAt DEF R1
    <2>. QED  BY <2>2, <2>3
  <1>14. Spelt(R1, V1, B1)
    <2>1. n \in 0 .. Len(V) BY <1>1
    <2>. QED  BY <2>1, <1>1, SpeltInTwo DEF R1, V1, B1
  <1>15. B1 = Stream!Bytes(k, z)
    <2>1. \A i \in 1 .. f : V1[i] = SegmentSize
      <3>1. \A i \in 1 .. f : i \in 1 .. n /\ i # n BY <1>11
      <3>. QED  BY <3>1, <1>12, <1>13
    <2>2. V1[f + 1] = z % SegmentSize BY <1>1, <1>11, <1>12, <1>13
    <2>3. Len(V1) = f + 1 /\ Len(R1) = Len(V1) /\ \A i \in 1 .. Len(V1) : R1[i] = <<k, i - 1>>
      BY <1>8, <1>11, <1>13
    <2>4. k \in Nat /\ z \in Nat /\ V1 \in Seq(Nat) /\ R1 \in Seq(Pairs)
      BY <1>10, <1>13
    <2>5. Spelt(R1, V1, B1) <=> B1 = Stream!Bytes(k, z)
      <3>1. /\ Len(V1) = (z \div SegmentSize) + 1 /\ (\A i \in 1 .. z \div SegmentSize : V1[i] = SegmentSize)
            /\ V1[(z \div SegmentSize) + 1] = z % SegmentSize
        BY <2>1, <2>2, <2>3 DEF f
      <3>. QED  BY <3>1, <2>3, <2>4, PacketSpelt
    <2>. QED  BY <2>5, <1>14
  <1>16. a[n].granule \in {Stream!NoPosition, k} /\ ~a[n].hole
    <2>1. n \in 1 .. u BY <1>1
    <2>. QED  BY <2>1, <1>2, <1>9 DEF SegmentIs
  <1>17. a[1].bos = (k = 0)
    <2>1. a[1].bos = (R[1] = <<0, 0>>) BY <1>1, <1>2 DEF SegmentIs
    <2>2. (R[1] = <<0, 0>>) <=> k = 0 BY <1>9
    <2>. QED  BY <2>1, <2>2
  <1>18. (\E i \in 1 .. n : a[i].eos) <=> (e /\ k = Len(q) - 1)
    <2>1. \A i \in 1 .. n : i \in 1 .. u /\ a[i].eos = (e /\ IsLast(q, R[i])) /\ R[i][1] = k
                            /\ (i # n => ~IsEnd(q, R[i]))
      <3> TAKE i \in 1 .. n
      <3>1. i \in 1 .. u /\ (i # n => i \in 1 .. n - 1) BY <1>1
      <3>. QED  BY <3>1, <1>2, <1>6, <1>8 DEF SegmentIs
    <2>2. \A i \in 1 .. n : a[i].eos <=> (e /\ k = Len(q) - 1 /\ i = n)
      <3> TAKE i \in 1 .. n
      <3>1. IsLast(q, R[i]) <=> (k = Len(q) - 1 /\ i = n)
        BY <2>1, <1>7 DEF IsLast
      <3>. QED  BY <2>1, <3>1
    <2>. QED  BY <2>2, <1>1
  <1>19. OneOf(q, R[n])
    <2>1. n \in 1 .. u BY <1>1
    <2>. QED  BY <2>1, <1>4
  <1>. QED  BY <1>7, <1>9, <1>10, <1>15, <1>16, <1>17, <1>18, <1>19 DEF PacketGiven, a, V, B1, z, k

(* How many values are given at once, and as what. *)
Pointer(r) ==
    IF r.lacing[1].hole THEN 1
    ELSE Stream!Min({i \in 1 .. Len(r.lacing) : Stream!Ends(r.lacing[i].val)})

(* What comes out for a hole. *)
HoleOut == [hole |-> TRUE, body |-> <<>>, granule |-> Stream!NoPosition, bos |-> FALSE, eos |-> FALSE]

(* What comes out for a packet of the first n values. *)
PacketFrom(r, n) ==
    [hole |-> FALSE, body |-> SubSeq(r.body, 1, UpTo(Values(r.lacing), n)),
     granule |-> r.lacing[n].granule, bos |-> r.lacing[1].bos, eos |-> \E i \in 1 .. n : r.lacing[i].eos]

(* _packetout in these terms. *)
LEMMA PacketOutIs ==
  ASSUME Stream!PacketOut, rs \in Read, Pointer(rs) \in 1 .. Len(rs.lacing)
  PROVE  /\ out' = Append(out, IF rs.lacing[1].hole THEN HoleOut ELSE PacketFrom(rs, Pointer(rs)))
         /\ rs' = GivenAway(rs, Pointer(rs))
  <1> DEFINE a == rs.lacing
             n == Pointer(rs)
             segs == SubSeq(a, 1, n)
             size == Stream!Total([i \in 1 .. n |-> segs[i].val])
             x == \E i \in 1 .. n : segs[i].eos
  <1>1. /\ out' = Append(out, IF rs.lacing[1].hole THEN HoleOut
                              ELSE [hole |-> FALSE, body |-> SubSeq(rs.body, 1, size),
                                    granule |-> segs[n].granule, bos |-> segs[1].bos, eos |-> x])
        /\ rs' = [rs EXCEPT !.lacing = SubSeq(a, n + 1, Len(a)), !.lacingPacket = rs.lacingPacket - n,
                            !.body = SubSeq(rs.body, size + 1, Len(rs.body))]
    BY DEF Stream!PacketOut, Pointer, HoleOut
  <1>2. a \in Seq(LacingsIn) /\ Len(a) \in Nat BY ReadIs
  <1> HIDE DEF n
  <1>3. n \in 0 .. Len(a) /\ n \in 1 .. n /\ 1 \in 1 .. n /\ n \in Nat
    BY <1>2 DEF n
  <1>4. \A i \in 1 .. n : segs[i] = a[i]
    <2> HIDE DEF a
    <2>. QED  BY <1>2, <1>3, CutAt
  <1>5. segs[n] = a[n] /\ segs[1] = a[1] BY <1>3, <1>4
  <1> HIDE DEF segs
  <1>6. size = UpTo(Values(a), n)
    <2>1. [i \in 1 .. n |-> segs[i].val] = [i \in 1 .. n |-> a[i].val] BY <1>4
    <2>2. \A y \in LacingsIn : y.val \in Nat BY DEF LacingsIn
    <2>3. [i \in 1 .. n |-> a[i].val] = SubSeq(Values(a), 1, n)
      <3> HIDE DEF a
      <3>. QED  BY <2>2, <1>2, <1>3, ValuesInTwo
    <2>. QED  BY <2>1, <2>3 DEF UpTo
  <1> DEFINE y == \E i \in 1 .. n : a[i].eos
  <1>7. x = y BY <1>4
  <1> HIDE DEF size, x, y
  <1>8. [hole |-> FALSE, body |-> SubSeq(rs.body, 1, size),
         granule |-> segs[n].granule, bos |-> segs[1].bos, eos |-> x] = PacketFrom(rs, n)
    <2>1. PacketFrom(rs, n) = [hole |-> FALSE, body |-> SubSeq(rs.body, 1, UpTo(Values(a), n)),
                               granule |-> a[n].granule, bos |-> a[1].bos, eos |-> y]
      BY DEF PacketFrom, y
    <2> HIDE DEF a
    <2>. QED  BY <2>1, <1>5, <1>6, <1>7, Zenon
  <1>9. rs' = GivenAway(rs, n) BY <1>1, <1>6 DEF GivenAway
  <1>. QED  BY <1>1, <1>8, <1>9 DEF n

(* What it gives is a packet that went in. *)
LEMMA PacketFromIs ==
  ASSUME NEW q, NEW e \in BOOLEAN, NEW r, NEW R, NEW n \in Nat \ {0}, NEW k, PacketGiven(q, e, r, R, n, k)
  PROVE  /\ PacketFrom(r, n) \in OggPackets /\ PacketIs(q, e, PacketFrom(r, n))
         /\ Stream!Packet(PacketFrom(r, n)) /\ Stream!Number(PacketFrom(r, n)) = k
  <1> DEFINE o == PacketFrom(r, n)
             z == q[k + 1]
             B == Stream!Bytes(k, z)
             b == r.lacing[1].bos
             g == r.lacing[n].granule
             y == \E i \in 1 .. n : r.lacing[i].eos
  <1>1. /\ k \in 0 .. Len(q) - 1 /\ z \in Nat \ {0} /\ g \in {Stream!NoPosition, k} /\ b = (k = 0)
        /\ y <=> (e /\ k = Len(q) - 1)
        /\ SubSeq(r.body, 1, UpTo(Values(r.lacing), n)) = B
    BY DEF PacketGiven
  <1>2. o = [hole |-> FALSE, body |-> B, granule |-> g, bos |-> b, eos |-> y]
    BY <1>1 DEF PacketFrom
  <1>3. y \in BOOLEAN OBVIOUS
  <1> HIDE DEF o, z, b, g, y
  <1>4. B \in Seq(Pairs) /\ B[1] = <<k, 1>>
    <2>1. 1 \in 1 .. z /\ z \in Nat /\ k \in Nat BY <1>1
    <2>. QED  BY <2>1 DEF Stream!Bytes, Pairs
  <1> HIDE DEF B
  <1>5. b \in BOOLEAN /\ g \in Int BY <1>1 DEF Stream!NoPosition
  <1>6. o.hole = FALSE /\ o.body = B /\ o.granule = g /\ o.bos = b /\ o.eos = y
    BY <1>2
  <1>7. o \in OggPackets BY <1>2, <1>3, <1>4, <1>5 DEF OggPackets
  <1>8. Stream!Number(o) = k /\ Stream!Packet(o)
    BY <1>4, <1>6 DEF Stream!Number, Stream!Packet
  <1>9. o.eos = (e /\ k = Len(q) - 1) BY <1>1, <1>3, <1>6
  <1>10. PacketIs(q, e, o) BY <1>1, <1>6, <1>8, <1>9 DEF PacketIs, B, z
  <1>. QED  BY <1>7, <1>8, <1>10 DEF o

(* Or it is a hole. *)
LEMMA HoleOutIs ==
  HoleOut \in OggPackets /\ ~Stream!Packet(HoleOut)
  <1>1. <<>> \in Seq(Pairs) OBVIOUS
  <1>. QED  BY <1>1 DEF HoleOut, OggPackets, Stream!Packet, Stream!NoPosition

(* What is pointed at is within what the reader has whole. *)
LEMMA PointerIs ==
  ASSUME NEW r, r \in Read, WholeUpTo(r), r.lacingPacket > 0
  PROVE  /\ Pointer(r) \in 1 .. Len(r.lacing) /\ Pointer(r) <= r.lacingPacket
         /\ r.lacing[1].hole => Pointer(r) = 1
         /\ ~r.lacing[1].hole => /\ Stream!Ends(r.lacing[Pointer(r)].val)
                                 /\ \A i \in 1 .. Pointer(r) - 1 : ~Stream!Ends(r.lacing[i].val)
  <1> DEFINE a == r.lacing
             c == r.lacingPacket
             ends == {i \in 1 .. Len(a) : Stream!Ends(a[i].val)}
             n == Pointer(r)
  <1>1. /\ Len(a) \in Nat /\ c \in Nat /\ c <= Len(a) /\ Stream!Ends(a[c].val)
    BY ReadIs DEF WholeUpTo
  <1>2. 1 \in 1 .. Len(a) /\ c \in 1 .. Len(a) /\ 1 <= c BY <1>1
  <1>3. c \in ends BY <1>1, <1>2
  <1>4. ends \subseteq Nat /\ \A i : i \in ends <=> (i \in 1 .. Len(a) /\ Stream!Ends(a[i].val))
    OBVIOUS
  <1>5. n = IF a[1].hole THEN 1 ELSE Stream!Min(ends) BY DEF Pointer
  <1> HIDE DEF ends, n, a, c
  <1>6. Stream!Min(ends) \in ends /\ \A i \in ends : Stream!Min(ends) <= i
    BY <1>3, <1>4, MinOf
  <1>7. CASE a[1].hole BY <1>2, <1>5, <1>7 DEF a, c, n
  <1>8. CASE ~a[1].hole
    <2>1. n \in ends /\ (\A i \in ends : n <= i) /\ n <= c
      BY <1>3, <1>5, <1>6, <1>8
    <2>2. n \in 1 .. Len(a) /\ Stream!Ends(a[n].val) BY <2>1, <1>4
    <2>3. ASSUME NEW i \in 1 .. n - 1, Stream!Ends(a[i].val) PROVE FALSE
      <3>1. i \in 1 .. Len(a) /\ ~(n <= i) BY <2>2, <1>1
      <3>. QED  BY <3>1, <2>1, <2>3, <1>4
    <2>. QED  BY <2>1, <2>2, <2>3, <1>8 DEF a, c, n
  <1>. QED  BY <1>7, <1>8

(* A packet comes out, or a hole. *)
LEMMA PacketOutStream ==
  ASSUME StreamInv, Stream!PacketOut
  PROVE  StreamInv'
  <1>1. PICK F, W, R : StreamIs(F, W, R) BY DEF StreamInv
  <1>2. /\ Sizes(in) /\ os.eos \in BOOLEAN /\ damaged \in Nat
        /\ ReaderHas(in, os.eos, rs, R) /\ WholeUpTo(rs)
        /\ ReaderAt(rs, R, F, next, damaged) /\ GoesOn(in, out, rs, R, F, next, damaged)
        /\ OutHas(in, os.eos, out) /\ InTurn(out, damaged) /\ out \in Seq(OggPackets) /\ Len(out) \in Nat
    <2>1. os \in Written BY <1>1 DEF StreamIs, WriterHas
    <2>2. os.eos \in BOOLEAN BY <2>1 DEF Written
    <2>3. out \in Seq(OggPackets) BY <1>1 DEF StreamIs, OutHas
    <2>4. Len(out) \in Nat BY <2>3
    <2>. QED  BY <2>2, <2>3, <2>4, <1>1 DEF StreamIs
  <1>3. /\ rs \in Read /\ rs.lacingPacket > 0 /\ Len(rs.lacing) = Len(R) /\ Len(R) \in Nat /\ R \in Seq(Pairs)
    <2>1. rs \in Read /\ R \in Seq(Pairs) /\ Len(R) = Len(Values(rs.lacing))
      BY <1>2 DEF ReaderHas, Spelt
    <2>2. rs.lacingPacket > 0 BY DEF Stream!PacketOut
    <2>. QED  BY <2>1, <2>2, ReadIs
  <1>4. PICK n, o, X : /\ n = Pointer(rs) /\ o = (IF rs.lacing[1].hole THEN HoleOut ELSE PacketFrom(rs, n))
                       /\ X = SubSeq(R, n + 1, Len(R))
    OBVIOUS
  <1>5. PICK e : e = os.eos OBVIOUS
  <1>6. /\ n \in 1 .. Len(R) /\ n <= rs.lacingPacket /\ n \in Nat \ {0}
        /\ rs.lacing[1].hole => n = 1
        /\ ~rs.lacing[1].hole => /\ Stream!Ends(rs.lacing[n].val)
                                 /\ \A i \in 1 .. n - 1 : ~Stream!Ends(rs.lacing[i].val)
    BY <1>2, <1>3, <1>4, PointerIs
  <1>7. out' = Append(out, o) /\ rs' = GivenAway(rs, n)
    BY <1>3, <1>4, <1>6, PacketOutIs
  <1>8. UNCHANGED <<in, os, pages, next, unsynced, damaged>>
    BY DEF Stream!PacketOut
  <1>9. ~rs.lacing[1].hole => PacketGiven(in, e, rs, R, n, R[1][1])
    BY <1>2, <1>5, <1>6, ComesOut
  <1>10. Left(in, e, rs, R, n, rs', X)
    <2>1. rs.lacing[n].hole \/ (~rs.lacing[n].hole /\ IsEnd(in, R[n]))
      <3>1. CASE rs.lacing[1].hole BY <3>1, <1>6
      <3>2. CASE ~rs.lacing[1].hole BY <3>2, <1>9 DEF PacketGiven
      <3>. QED  BY <3>1, <3>2
    <2>2. Left(in, e, rs, R, n, GivenAway(rs, n), SubSeq(R, n + 1, Len(R)))
      BY <2>1, <1>2, <1>5, <1>6, Leaves
    <2>. QED  BY <2>2, <1>4, <1>7
  <1>11. /\ ReaderHas(in, e, rs', X) /\ WholeUpTo(rs') /\ rs'.pageno = rs.pageno
         /\ Len(X) = Len(R) - n /\ Len(rs'.lacing) = Len(X)
         /\ \A i \in 1 .. Len(X) : ~rs'.lacing[i].hole
         /\ Len(X) > 0 => X[1] = R[n + 1] /\ Final(X) = Final(R) /\ ~Final(rs.lacing).hole
    BY <1>10 DEF Left
  <1>12. ~HoleFirst(rs')
    <2>1. Len(X) > 0 => 1 \in 1 .. Len(X) BY <1>3, <1>6, <1>11
    <2>. QED  BY <2>1, <1>11 DEF HoleFirst
  <1>13. /\ rs.lacing[1].hole => o = HoleOut /\ ~Stream!Packet(o)
         /\ ~rs.lacing[1].hole => PacketIs(in, e, o) /\ Stream!Packet(o) /\ Stream!Number(o) = R[1][1]
         /\ o \in OggPackets
    <2>1. CASE rs.lacing[1].hole BY <2>1, <1>4, HoleOutIs
    <2>2. CASE ~rs.lacing[1].hole
      <3>1. o = PacketFrom(rs, n) BY <2>2, <1>4
      <3>2. e \in BOOLEAN BY <1>2, <1>5
      <3>. QED  BY <2>2, <3>1, <3>2, <1>6, <1>9, PacketFromIs
    <2>. QED  BY <2>1, <2>2
  <1>14. HoleFirst(rs) <=> rs.lacing[1].hole BY <1>3, <1>6 DEF HoleFirst
  <1>15. rs.pageno # -1 /\ rs.pageno \in 1 .. next - 1
    BY <1>2, <1>3, <1>6 DEF ReaderAt
  <1> DEFINE O == Append(out, o)
             u == Len(out)
  <1>16. O \in Seq(OggPackets) /\ Len(O) = u + 1 /\ O[u + 1] = o /\ (\A i \in 1 .. u : O[i] = out[i]) /\ Final(O) = o
    BY <1>2, <1>13 DEF Final
  <1> HIDE DEF O
  <1>17. OutHas(in, e, O)
    <2> SUFFICES ASSUME NEW i \in 1 .. Len(O), Stream!Packet(O[i]) PROVE PacketIs(in, e, O[i])
      BY <1>16 DEF OutHas
    <2>1. CASE i = u + 1 BY <2>1, <1>13, <1>16
    <2>2. CASE i # u + 1
      <3>1. i \in 1 .. u BY <2>2, <1>2, <1>16
      <3>. QED  BY <3>1, <1>2, <1>5, <1>16 DEF OutHas
    <2>. QED  BY <2>1, <2>2
  (* A packet goes on where the last one ended.                            *)
  <1>18. u > 0 /\ Stream!Packet(out[u]) /\ ~rs.lacing[1].hole => R[1][1] = Stream!Number(out[u]) + 1
    <2>1. Len(R) > 0 BY <1>3, <1>6
    <2>. QED  BY <2>1, <1>2, <1>14 DEF GoesOn, Final
  <1>19. InTurn(O, damaged)
    <2>1. ASSUME NEW i \in 1 .. Len(O) - 1, Stream!Packet(O[i]), Stream!Packet(O[i + 1])
          PROVE  Stream!Number(O[i + 1]) = Stream!Number(O[i]) + 1
      <3>1. i \in 1 .. u /\ O[i] = out[i] BY <1>2, <1>16
      <3>2. CASE i = u
        <4>1. O[i + 1] = o /\ u > 0 /\ Stream!Packet(o)
          BY <2>1, <3>1, <3>2, <1>2, <1>16
        <4>. QED  BY <4>1, <2>1, <3>1, <3>2, <1>13, <1>18
      <3>3. CASE i # u
        <4>1. i \in 1 .. u - 1 /\ i + 1 \in 1 .. u BY <3>1, <3>3, <1>2
        <4>. QED  BY <4>1, <2>1, <3>1, <1>2, <1>16 DEF InTurn
      <3>. QED  BY <3>2, <3>3
    <2>2. ASSUME damaged = 0, NEW i \in 1 .. Len(O)
          PROVE  Stream!Packet(O[i]) /\ Stream!Number(O[i]) = i - 1
      <3>1. CASE i # u + 1
        <4>1. i \in 1 .. u BY <3>1, <1>2, <1>16
        <4>. QED  BY <4>1, <2>2, <1>2, <1>16 DEF InTurn
      <3>2. CASE i = u + 1
        <4>1. ~rs.lacing[1].hole BY <2>2, <1>2, <1>14 DEF ReaderAt
        <4>2. Stream!Packet(o) /\ Stream!Number(o) = R[1][1] BY <4>1, <1>13
        <4>3. R[1][1] = u
          <5>1. CASE u = 0
            <6>1. R[1] = <<0, 0>> BY <5>1, <2>2, <1>2, <1>3, <1>6 DEF GoesOn
            <6>. QED  BY <5>1, <6>1
          <5>2. CASE u # 0
            <6>1. u \in 1 .. u /\ u > 0 BY <5>2, <1>2
            <6>2. Stream!Packet(out[u]) /\ Stream!Number(out[u]) = u - 1
              BY <6>1, <2>2, <1>2 DEF InTurn
            <6>3. R[1][1] = (u - 1) + 1 BY <6>1, <6>2, <4>1, <1>18
            <6>. QED  BY <6>3, <1>2
          <5>. QED  BY <5>1, <5>2
        <4>4. i - 1 = u BY <3>2, <1>2
        <4>. QED  BY <4>2, <4>3, <4>4, <3>2, <1>16
      <3>. QED  BY <3>1, <3>2
    <2>. QED  BY <2>1, <2>2 DEF InTurn
  <1>20. ReaderAt(rs', X, F, next, damaged)
    <2>1. Len(X) > 0 => Final(X) = Final(F[rs.pageno])
      <3> HAVE Len(X) > 0
      <3>1. Len(R) > 0 /\ ~Final(rs.lacing).hole /\ Final(X) = Final(R)
        BY <1>3, <1>6, <1>11
      <3>. QED  BY <3>1, <1>2 DEF ReaderAt
    <2>. QED  BY <2>1, <1>2, <1>11, <1>12, <1>15 DEF ReaderAt
  <1>21. GoesOn(in, O, rs', X, F, next, damaged)
    <2>1. Len(O) > 0 /\ Len(O) # 0 /\ rs'.pageno # -1
      BY <1>2, <1>11, <1>15, <1>16
    <2>2. ASSUME Stream!Packet(o)
          PROVE  IF Len(X) > 0 THEN X[1][1] = Stream!Number(o) + 1
                 ELSE /\ IsEnd(in, Final(F[rs.pageno])) /\ Final(F[rs.pageno])[1] = Stream!Number(o)
      <3>1. ~rs.lacing[1].hole /\ Stream!Number(o) = R[1][1] BY <2>2, <1>13
      <3>2. R[n][1] = R[1][1] /\ IsEnd(in, R[n]) /\ OneOf(in, R[n]) /\ ~rs.lacing[n].hole
        BY <3>1, <1>9 DEF PacketGiven
      <3>3. CASE Len(X) > 0
        <4>1. n < Len(R) BY <3>3, <1>3, <1>6, <1>11
        <4>2. R[n + 1] = FollowerOf(in, R[n])
          BY <4>1, <3>2, <1>2, <1>6 DEF ReaderHas
        <4>3. R[n + 1] = <<R[n][1] + 1, 0>> BY <4>2, <3>2, <1>2, Segments
        <4>. QED  BY <4>3, <3>1, <3>2, <3>3, <1>11
      <3>4. CASE ~(Len(X) > 0)
        <4>1. n = Len(R) /\ Len(R) > 0 BY <3>4, <1>3, <1>6, <1>11
        <4>2. Final(R) = R[n] /\ ~Final(rs.lacing).hole
          BY <4>1, <3>2, <1>3 DEF Final
        <4>3. Final(R) = Final(F[rs.pageno]) BY <4>1, <4>2, <1>2 DEF ReaderAt
        <4>. QED  BY <4>2, <4>3, <3>1, <3>2, <3>4
      <3>. QED  BY <3>3, <3>4
    <2>. QED  BY <2>1, <2>2, <1>11, <1>16 DEF GoesOn
  <1>22. StreamIs(F, W, X)'
    <2>1. /\ in' = in /\ os' = os /\ pages' = pages /\ damaged' = damaged /\ next' = next
          /\ out' = O /\ os'.eos = e
      BY <1>5, <1>7, <1>8 DEF O
    <2>2. /\ ReaderHas(in', os'.eos, rs', X) /\ WholeUpTo(rs')
          /\ ReaderAt(rs', X, F, next', damaged') /\ GoesOn(in', out', rs', X, F, next', damaged')
          /\ OutHas(in', os'.eos, out') /\ InTurn(out', damaged')
      BY <2>1, <1>11, <1>17, <1>19, <1>20, <1>21
    <2>3. /\ Sizes(in') /\ damaged' \in Nat /\ WriterHas(in', os', W) /\ Joined(in', F, W)
          /\ (os'.bos <=> Len(pages') > 0) /\ os'.pageno = Len(pages') /\ (os'.eos => Len(in') > 0)
          /\ PagesHave(in', os'.eos, pages', F)
      BY <2>1, <1>1 DEF StreamIs
    <2>. QED  BY <2>2, <2>3 DEF StreamIs
  <1>. QED  BY <1>22 DEF StreamInv

(* The others move nothing of it. *)
LEMMA StreamRests ==
  StreamInv /\ stream' = stream => StreamInv'
  <1> SUFFICES ASSUME StreamInv, stream' = stream PROVE StreamInv'
    OBVIOUS
  <1>1. PICK F, W, R : StreamIs(F, W, R) BY DEF StreamInv
  <1>2. /\ in' = in /\ os' = os /\ pages' = pages /\ next' = next
        /\ damaged' = damaged /\ rs' = rs /\ out' = out
    BY DEF stream
  <1>3. StreamIs(F, W, R)' BY <1>1, <1>2 DEF StreamIs
  <1>. QED  BY <1>3 DEF StreamInv

(* In every reachable state the pages and the reader have what they should.*)
LEMMA AlwaysStreamInv == MCSpec => []StreamInv
  <1>1. MCInit => StreamInv BY InitStream DEF MCInit
  <1>2. StreamInv /\ [MCNext]_MCvars => StreamInv'
    <2> SUFFICES ASSUME StreamInv, [MCNext]_MCvars PROVE StreamInv'
      OBVIOUS
    <2>1. CASE stream' = stream BY <2>1, StreamRests
    <2>2. CASE Stream!Next
      <3>1. CASE Stream!Submit BY <3>1, SubmitStream
      <3>2. CASE Stream!Flush BY <3>2, WriteStream DEF Stream!Flush
      <3>3. CASE Stream!PageOut BY <3>3, WriteStream DEF Stream!PageOut
      <3>4. CASE Stream!ReadPage BY <3>4, ReadStream
      <3>5. CASE Stream!PassOver BY <3>5, PassStream
      <3>6. CASE Stream!PacketOut BY <3>6, PacketOutStream
      <3>. QED  BY <2>2, <3>1, <3>2, <3>3, <3>4, <3>5, <3>6 DEF Stream!Next
    <2>. QED  BY <2>1, <2>2 DEF MCNext, PlayerStep, StreamStep, SearchStep, OnlyPlayer, OnlySearch, MCvars
  <1>. QED  BY <1>1, <1>2, PTL DEF MCSpec

(* Whatever pages are missing and however the packets were spread over *)
(* them, a packet that comes out is one that went in, every byte of it and *)
(* none of another, and has its own position or none (ogg_stream_pagein, *)
(* ogg_stream_packetout). *)
THEOREM PacketsAreWhole == MCSpec => []Whole
  <1>1. StreamInv => Whole
    <2> SUFFICES ASSUME StreamInv, NEW i \in 1 .. Len(out), Stream!Packet(out[i])
                 PROVE  /\ out[i].body = Stream!Bytes(Stream!Number(out[i]), in[Stream!Number(out[i]) + 1])
                        /\ out[i].granule \in {Stream!NoPosition, Stream!Number(out[i])}
      BY DEF Whole, Stream!Whole, Stream!Positions
    <2>1. OutHas(in, os.eos, out) BY DEF StreamInv, StreamIs
    <2>2. PacketIs(in, os.eos, out[i]) BY <2>1 DEF OutHas
    <2>. QED  BY <2>2 DEF PacketIs
  <1>. QED  BY <1>1, AlwaysStreamInv, PTL

(* Of packets one after the other each follows the one before. *)
LEMMA InARow ==
  ASSUME NEW e, NEW o, OutHas(in, e, o), NEW d, InTurn(o, d),
         NEW i \in 1 .. Len(o), NEW j \in i + 1 .. Len(o), \A k \in i .. j : Stream!Packet(o[k])
  PROVE  Stream!Number(o[j]) = Stream!Number(o[i]) + (j - i)
  <1>1. Len(o) \in Nat BY DEF OutHas
  <1>2. ASSUME NEW k \in i .. j PROVE Stream!Number(o[k]) \in Int
    <2>1. k \in 1 .. Len(o) /\ Stream!Packet(o[k]) BY <1>1
    <2>2. PacketIs(in, e, o[k]) BY <2>1 DEF OutHas
    <2>. QED  BY <2>2 DEF PacketIs
  <1> DEFINE Bad == {n \in Nat : i + n <= j /\ Stream!Number(o[i + n]) # Stream!Number(o[i]) + n}
  <1>3. ASSUME Bad # {} PROVE FALSE
    <2>1. PICK n \in Bad : \A k \in Bad : n <= k BY <1>3, LeastOf
    <2>2. n \in Nat /\ i + n <= j /\ Stream!Number(o[i + n]) # Stream!Number(o[i]) + n
      OBVIOUS
    <2>3. CASE n = 0
      <3>1. i + n = i /\ i \in i .. j BY <2>3
      <3>. QED  BY <2>2, <2>3, <3>1, <1>2
    <2>4. CASE n # 0
      <3>1. n - 1 \in Nat /\ n - 1 \notin Bad BY <2>1, <2>2, <2>4
      <3>2. i + (n - 1) <= j /\ i + (n - 1) \in i .. j /\ i + (n - 1) \in 1 .. Len(o) - 1
            /\ i + n \in i .. j /\ (i + (n - 1)) + 1 = i + n
        BY <2>2, <2>4, <1>1
      <3>3. Stream!Number(o[i + (n - 1)]) = Stream!Number(o[i]) + (n - 1)
        BY <3>1, <3>2
      <3>4. Stream!Number(o[i + n]) = Stream!Number(o[i + (n - 1)]) + 1
        BY <3>2 DEF InTurn
      <3>5. i \in i .. j OBVIOUS
      <3>6. Stream!Number(o[i]) \in Int BY <3>5, <1>2
      <3>. QED  BY <2>2, <3>3, <3>4, <3>6
    <2>. QED  BY <2>3, <2>4
  <1>4. j - i \in Nat /\ i + (j - i) = j BY <1>1
  <1>. QED  BY <1>3, <1>4

(* When a packet is missing between two that come out the decoder was told *)
(* of it: they come in order, and without a hole in between none is missing*)
(* (framing.c:964-965). *)
THEOREM DecoderIsTold == MCSpec => []HolesTold
  <1>1. StreamInv => HolesTold
    <2> SUFFICES ASSUME StreamInv, NEW i \in 1 .. Len(out), NEW j \in 1 .. Len(out),
                        i < j, Stream!Packet(out[i]), Stream!Packet(out[j]),
                        \A k \in i + 1 .. j - 1 : Stream!Packet(out[k])
                 PROVE  Stream!Number(out[j]) = Stream!Number(out[i]) + (j - i)
      BY DEF HolesTold, Stream!HolesTold
    <2>1. OutHas(in, os.eos, out) /\ InTurn(out, damaged)
      BY DEF StreamInv, StreamIs
    <2>2. Len(out) \in Nat BY <2>1 DEF OutHas
    <2>3. j \in i + 1 .. Len(out) /\ \A k \in i .. j : k = i \/ k = j \/ k \in i + 1 .. j - 1
      BY <2>2
    <2>4. \A k \in i .. j : Stream!Packet(out[k]) BY <2>3
    <2>. QED  BY <2>1, <2>3, <2>4, InARow
  <1>. QED  BY <1>1, AlwaysStreamInv, PTL

(* When all was written, read and given and no page is missing, the reader *)
(* holds nothing and the last packet that came out is the last that went *)
(* in. *)
LEMMA AllCame ==
  ASSUME StreamInv, damaged = 0, os.eos, os.lacing = <<>>, next > Len(pages), rs.lacingPacket = 0
  PROVE  Len(out) = Len(in) /\ Len(out) \in Nat
  <1>1. PICK F, W, R : StreamIs(F, W, R) BY DEF StreamInv
  <1>2. /\ Sizes(in) /\ WriterHas(in, os, W) /\ Joined(in, F, W) /\ Len(in) > 0
        /\ PagesHave(in, os.eos, pages, F)
        /\ ReaderHas(in, os.eos, rs, R) /\ WholeUpTo(rs)
        /\ ReaderAt(rs, R, F, next, damaged)
        /\ OutHas(in, os.eos, out) /\ InTurn(out, damaged)
        /\ GoesOn(in, out, rs, R, F, next, damaged)
    BY <1>1 DEF StreamIs
  <1>3. Len(in) \in Nat /\ Len(out) \in Nat /\ Len(F) \in Nat /\ Len(F) = Len(pages)
    BY <1>2 DEF Sizes, OutHas, Joined, PagesHave
  <1>4. Len(W) = 0
    <2>1. Len(Values(os.lacing)) = 0 BY DEF Values
    <2>. QED  BY <2>1, <1>2 DEF WriterHas, Spelt
  <1>5. Len(F) > 0 /\ IsLast(in, Final(Final(F))) BY <1>2, <1>3, <1>4 DEF Joined
  <1>6. next = Len(F) + 1 /\ rs.pageno = Len(F)
    <2>1. next \in 1 .. Len(F) + 1 BY <1>2 DEF ReaderAt
    <2>2. next = Len(F) + 1 /\ next # 1 BY <2>1, <1>3, <1>5
    <2>. QED  BY <2>2, <1>2, <1>3 DEF ReaderAt
  <1>7. F[rs.pageno] = Final(F) BY <1>6 DEF Final
  <1>8. /\ ~HoleFirst(rs) /\ Len(rs.lacing) = Len(R) /\ Len(R) \in Nat
        /\ \A i \in 1 .. Len(R) : ~rs.lacing[i].hole
    BY <1>2, NoHoles
  <1>9. Len(R) = 0
    <2> SUFFICES ASSUME Len(R) > 0 PROVE FALSE
      BY <1>8
    <2>1. Len(R) \in 1 .. Len(R) BY <1>8
    <2>2. ~rs.lacing[Len(R)].hole /\ ~Final(rs.lacing).hole
      BY <2>1, <1>8 DEF Final
    <2>3. Final(R) = Final(Final(F)) BY <2>2, <1>2, <1>7 DEF ReaderAt
    <2>4. SegmentIs(in, os.eos, rs.lacing[Len(R)], R[Len(R)])
      BY <2>1, <2>2, <1>2 DEF ReaderHas
    <2>5. OneOf(in, R[Len(R)]) /\ rs.lacing[Len(R)].val = ValueOf(in, R[Len(R)])
      BY <2>4 DEF SegmentIs
    <2>6. IsEnd(in, R[Len(R)]) BY <2>3, <1>5 DEF Final, IsLast
    <2>7. Stream!Ends(rs.lacing[Len(R)].val) BY <2>5, <2>6, <1>2, Segments
    <2>8. Len(R) \in rs.lacingPacket + 1 .. Len(rs.lacing) BY <2>1, <1>8
    <2>. QED  BY <2>7, <2>8, <1>2 DEF WholeUpTo
  <1>10. Len(out) > 0
    <2>1. next # 1 BY <1>3, <1>5, <1>6
    <2>. QED  BY <2>1, <1>2, <1>3, <1>8, <1>9 DEF GoesOn
  <1>11. Len(out) \in 1 .. Len(out) BY <1>3, <1>10
  <1>12. Stream!Packet(Final(out)) /\ Stream!Number(Final(out)) = Len(out) - 1
    BY <1>2, <1>11 DEF InTurn, Final
  <1>13. Final(Final(F))[1] = Stream!Number(Final(out))
    BY <1>2, <1>7, <1>8, <1>9, <1>10, <1>12 DEF GoesOn
  <1>14. Final(Final(F))[1] = Len(in) - 1 BY <1>5 DEF IsLast
  <1>. QED  BY <1>3, <1>12, <1>13, <1>14

(* With no page missing no packet is: those that came out are those that *)
(* went in, in order, the first flagged as the beginning and the last as *)
(* the end, and no hole was told of. *)
THEOREM NoPacketLost == MCSpec => []NothingLost
  <1>1. StreamInv => NothingLost
    <2> SUFFICES ASSUME StreamInv, damaged = 0, os.eos, os.lacing = <<>>, next > Len(pages),
                        rs.lacingPacket = 0
                 PROVE  /\ Len(out) = Len(in)
                        /\ \A i \in 1 .. Len(out) :
                              /\ Stream!Packet(out[i]) /\ Stream!Number(out[i]) = i - 1
                              /\ out[i].bos = (i = 1) /\ out[i].eos = (i = Len(out))
      BY DEF NothingLost, Stream!NothingLost
    <2>1. OutHas(in, os.eos, out) /\ InTurn(out, damaged)
      BY DEF StreamInv, StreamIs
    <2>2. Len(out) = Len(in) /\ Len(out) \in Nat BY AllCame
    <2>3. ASSUME NEW i \in 1 .. Len(out)
          PROVE  /\ Stream!Packet(out[i]) /\ Stream!Number(out[i]) = i - 1
                 /\ out[i].bos = (i = 1) /\ out[i].eos = (i = Len(out))
      <3>1. Stream!Packet(out[i]) /\ Stream!Number(out[i]) = i - 1
        BY <2>1 DEF InTurn
      <3>2. PacketIs(in, os.eos, out[i]) BY <2>1, <3>1 DEF OutHas
      <3>3. out[i].bos = (i - 1 = 0) /\ out[i].eos = (os.eos /\ i - 1 = Len(in) - 1)
        BY <3>1, <3>2 DEF PacketIs
      <3>4. (i - 1 = 0 <=> i = 1) /\ (i - 1 = Len(in) - 1 <=> i = Len(out))
        BY <2>2
      <3>. QED  BY <3>1, <3>3, <3>4
    <2>. QED  BY <2>2, <2>3
  <1>. QED  BY <1>1, AlwaysStreamInv, PTL

-----------------------------------------------------------------------------
(***************************************************************************)
(* The animated pictures.  For every picture, of any size and any number   *)
(* of frames: the file and the index stay in step, and the canvas is what  *)
(* the format's rules make of the frames drawn.                            *)
(***************************************************************************)

NoRestore == \A k \in 1 .. Gif!ImageCount : images[k].disposal # 3

(* The frame that follows currentIndex.                                    *)
Following == IF currentIndex = Gif!ImageCount - 1 THEN 1 ELSE currentIndex + 2

(* Once the file was found cut off it stays at its end until a reset; as   *)
(* long as it was not, it is in step, and the frame before the one to come *)
(* is the last one drawn.                                                  *)
FileEnded == filePos = Gif!ImageCount + 1

PictureInv ==
    /\ images \in Pictures
    /\ images \in Seq(Gif!ImageType) /\ Gif!ImageCount \in Nat \ {0}
    /\ currentIndex \in -1 .. Gif!ImageCount - 1
    /\ gifTarget \in Int /\ gifTarget < Gif!ImageCount
    /\ gifTarget # Gif!NoTarget => currentIndex < gifTarget
    /\ gifWhole => ~FileEnded
    /\ ~FileEnded => filePos = Following
    /\ ~FileEnded /\ currentIndex >= 0 => drawn = currentIndex + 1
    /\ {canvas, backup} \subseteq [Gif!Pixels -> Int]
    /\ NoRestore => canvas = screen.over

-----------------------------------------------------------------------------
(* The step that is left out is one that no eye would see: a frame need not*)
(* be cleared when the next one covers it and has no transparent pixels.   *)
LEMMA CoverHides ==
    ASSUME NEW bm \in [Gif!Pixels -> Int], NEW cur \in Gif!ImageType, NEW over \in Gif!ImageType,
           NEW raster, over.holes = {}, Gif!CheckIfCover(over, cur),
           images[raster] = over
    PROVE  Gif!DrawFrame(Gif!FillRect(bm, cur, Gif!Clear), over, raster)
               = Gif!DrawFrame(bm, over, raster)
<1>1. Gif!Area(cur) \subseteq Gif!Area(over)
  BY DEF Gif!Area, Gif!CheckIfCover, Gif!Pixels, Gif!ImageType
<1>2. \A p \in Gif!Pixels : p \notin Gif!Area(over) => Gif!FillRect(bm, cur, Gif!Clear)[p] = bm[p]
  BY <1>1 DEF Gif!FillRect
<1> QED
  BY <1>2 DEF Gif!DrawFrame

-----------------------------------------------------------------------------
(* The canvas of a frame drawn by the code's rules and by the format's.    *)
LEMMA BitmapIsShown ==
    ASSUME PictureInv, NEW i \in 0 .. Gif!ImageCount - 1,
           Gif!Readable(filePos), ~FileEnded, i = 0 \/ drawn = i, filePos = i + 1, NoRestore
    PROVE  Gif!Bitmap(i, filePos).bm = Gif!Shown(i + 1).over
<1>1. /\ images[i + 1] \in Gif!ImageType
      /\ images[1] \in Gif!ImageType
  BY DEF PictureInv, Gif!ImageCount
<1>2. CASE i = 0
  BY <1>1, <1>2 DEF Gif!Bitmap, Gif!Shown
<1>3. CASE i # 0
  <2>1. /\ drawn = i /\ i \in 1 .. Gif!ImageCount - 1
        /\ images[i] \in Gif!ImageType /\ images[i].disposal # 3 /\ images[i + 1].disposal # 3
    BY <1>3 DEF PictureInv, NoRestore, Gif!ImageCount
  <2> DEFINE Bm == Gif!DisposeFrameIfNeeded(i).bm
  <2>2. Gif!Bitmap(i, filePos).bm = Gif!DrawFrame(Bm, images[i + 1], i + 1)
    BY <2>1, <1>3 DEF Gif!Bitmap, Gif!DisposeFrameIfNeeded
  <2>3. canvas \in [Gif!Pixels -> Int] /\ canvas = screen.over
    BY DEF PictureInv
  <2>4. CASE images[i].disposal # 2
    <3>1. Bm = canvas
      BY <2>1, <2>4 DEF Gif!DisposeFrameIfNeeded
    <3>2. Gif!Shown(i + 1).over = Gif!DrawFrame(screen.over, images[i + 1], i + 1)
      BY <2>1, <2>4, <1>3 DEF Gif!Shown
    <3> QED BY <2>2, <2>3, <3>1, <3>2
  <2>5. CASE images[i].disposal = 2
    <3>1. Gif!Shown(i + 1).over
              = Gif!DrawFrame(Gif!FillRect(canvas, images[i], Gif!Clear), images[i + 1], i + 1)
      BY <2>1, <2>3, <2>5, <1>3 DEF Gif!Shown
    <3>2. CASE images[i + 1].transparent \/ ~Gif!CheckIfCover(images[i + 1], images[i])
      BY <2>1, <2>2, <2>5, <3>1, <3>2 DEF Gif!DisposeFrameIfNeeded
    <3>3. CASE ~images[i + 1].transparent /\ Gif!CheckIfCover(images[i + 1], images[i])
      <4>1. Bm = canvas
        BY <2>1, <2>5, <3>3 DEF Gif!DisposeFrameIfNeeded
      <4>2. images[i + 1].holes = {}
        BY <1>1, <3>3, GifAssumption DEF PictureInv, Gif!HolesAssumption, Gif!ImageCount
      <4>3. Gif!DrawFrame(Gif!FillRect(canvas, images[i], Gif!Clear), images[i + 1], i + 1)
                = Gif!DrawFrame(canvas, images[i + 1], i + 1)
        BY <1>1, <2>1, <2>3, <3>3, <4>2, CoverHides
      <4> QED BY <2>2, <3>1, <4>1, <4>3
    <3> QED BY <3>2, <3>3
  <2> QED BY <2>4, <2>5
<1> QED BY <1>2, <1>3

-----------------------------------------------------------------------------
(* A canvas stays a canvas, and a backup.                                  *)
LEMMA BitmapType ==
    ASSUME PictureInv, NEW i \in 0 .. Gif!ImageCount - 1, filePos \in Int
    PROVE  {Gif!Bitmap(i, filePos).bm, Gif!Bitmap(i, filePos).backup} \subseteq [Gif!Pixels -> Int]
<1> DEFINE C == [Gif!Pixels -> Int]
<1>1. \A bm \in C : \A f, r : r \in Int => Gif!DrawFrame(bm, f, r) \in C
  BY DEF Gif!DrawFrame
<1>2. Gif!Blank(images[1]) \in C
  BY DEF Gif!Blank, Gif!EraseColor, Gif!Clear, Gif!Background
<1>3. canvas \in C /\ backup \in C /\ Gif!FillRect(canvas, images[i], Gif!Clear) \in C
  BY DEF PictureInv, Gif!FillRect, Gif!Clear
<1> DEFINE d == Gif!DisposeFrameIfNeeded(i)
<1>4. \E x, y \in C : d = [bm |-> x, backup |-> y]
  BY <1>3 DEF Gif!DisposeFrameIfNeeded
<1>5. PICK x, y \in C : (IF i = 0 THEN [bm |-> Gif!Blank(images[1]), backup |-> backup] ELSE d) = [bm |-> x, backup |-> y]
  BY <1>2, <1>3, <1>4
<1>6. Gif!Bitmap(i, filePos) = [bm |-> Gif!DrawFrame(x, images[i + 1], filePos), backup |-> y]
  BY <1>5 DEF Gif!Bitmap
<1> QED
  BY <1>1, <1>5, <1>6

(* Reading a frame: what is drawn, and where the file stands then.  It is  *)
(* the same for a frame that is due and for one on the way of a seek.      *)
LEMMA GetBitmapKeeps ==
    ASSUME PictureInv, NEW i \in 0 .. Gif!ImageCount - 1, Gif!GetBitmap(i),
           i = (IF currentIndex + 1 >= Gif!ImageCount THEN 0 ELSE currentIndex + 1),
           currentIndex' = i, UNCHANGED Gif!file,
           gifTarget' \in Int, gifTarget' < Gif!ImageCount,
           gifTarget' # Gif!NoTarget => i < gifTarget'
    PROVE  PictureInv'
<1>0. Gif!ImageCount' = Gif!ImageCount /\ Gif!ImageCount \in Nat \ {0} /\ NoRestore' = NoRestore
  BY DEF PictureInv, Gif!file, Gif!ImageCount, NoRestore
<1>1. CASE Gif!Readable(filePos)
  <2>1. ~FileEnded /\ filePos \in Int /\ filePos = i + 1 /\ (i = 0 \/ drawn = i)
    BY <1>1, <1>0 DEF Gif!Readable, FileEnded, PictureInv, Following
  <2>2. /\ canvas' = Gif!Bitmap(i, filePos).bm /\ backup' = Gif!Bitmap(i, filePos).backup
        /\ drawn' = i + 1 /\ screen' = Gif!Shown(i + 1)
        /\ filePos' = (IF i >= Gif!ImageCount - 1 THEN 1 ELSE filePos + 1)
    BY <1>1 DEF Gif!GetBitmap
  <2>3. {canvas, backup}' \subseteq [Gif!Pixels -> Int]
    BY <2>1, <2>2, BitmapType
  <2>4. NoRestore => canvas' = screen'.over
    BY <1>1, <2>1, <2>2, BitmapIsShown
  <2>5. filePos' = Following' /\ ~FileEnded'
    BY <1>0, <2>1, <2>2 DEF Following, FileEnded
  <2> QED
    BY <1>0, <2>2, <2>3, <2>4, <2>5 DEF PictureInv, Gif!file, Gif!Pixels
<1>2. CASE ~Gif!Readable(filePos)
  <2>1. filePos' = Gif!ImageCount + 1 /\ UNCHANGED <<canvas, backup, drawn, screen>>
    BY <1>2 DEF Gif!GetBitmap, Gif!picture
  <2>2. ~gifWhole
    BY <1>2, <1>0 DEF PictureInv, Gif!Readable, FileEnded, Following
  <2> QED
    BY <1>0, <2>1, <2>2 DEF PictureInv, Gif!file, FileEnded, Gif!Pixels
<1> QED BY <1>1, <1>2

-----------------------------------------------------------------------------
LEMMA InitPicture == Gif!Init => PictureInv
  BY GifAssumption DEF Gif!PicturesAssumption, Gif!Init, PictureInv, FileEnded, Following, Gif!ImageCount, Gif!NoTarget, Gif!EraseColor, Gif!Clear, Gif!Background

(* Steps that draw nothing and read nothing.                               *)
LEMMA QuietPicture ==
    ASSUME PictureInv, UNCHANGED <<Gif!file, Gif!native, gifTarget, Gif!picture>>
    PROVE  PictureInv'
  BY DEF PictureInv, Gif!file, Gif!native, Gif!picture, FileEnded, Following, Gif!ImageCount, NoRestore

LEMMA NextPicture == PictureInv /\ [Gif!Next]_(Gif!vars) => PictureInv'
<1> SUFFICES ASSUME PictureInv, [Gif!Next]_(Gif!vars) PROVE PictureInv'
  OBVIOUS
<1>t. Gif!ImageCount \in Nat \ {0} /\ currentIndex \in -1 .. Gif!ImageCount - 1 /\ gifTarget \in Int
  BY DEF PictureInv
<1>1. CASE Gif!Draw
  <2>1. CASE mIsRunning /\ Gif!Redraws
    <3>1. PICK i : /\ i = (IF currentIndex + 1 >= Gif!ImageCount THEN 0 ELSE currentIndex + 1)
                   /\ currentIndex' = i
                   /\ Gif!GetBitmap(i)
      BY <1>1, <2>1 DEF Gif!Draw, Gif!RenderFrame
    <3>2. i \in 0 .. Gif!ImageCount - 1 /\ gifTarget' = Gif!NoTarget /\ UNCHANGED Gif!file
      BY <1>1, <1>t, <3>1 DEF Gif!Draw
    <3> QED
      BY <1>t, <3>1, <3>2, GetBitmapKeeps DEF Gif!NoTarget
  <2>2. CASE ~(mIsRunning /\ Gif!Redraws)
    BY <1>1, <2>2, QuietPicture DEF Gif!Draw, Gif!RenderFrame
  <2> QED BY <2>1, <2>2
<1>2. CASE Gif!Invalidate
  BY <1>2, QuietPicture DEF Gif!Invalidate
<1>3. CASE Gif!TimePasses
  BY <1>3, QuietPicture DEF Gif!TimePasses
<1>4. CASE Gif!Start
  BY <1>4, QuietPicture DEF Gif!Start
<1>5. CASE Gif!Stop
  BY <1>5, QuietPicture DEF Gif!Stop
<1>6. CASE Gif!Reset
  <2>1. /\ UNCHANGED <<images, gifWhole, canvas, backup, screen>> /\ filePos' = 1
        /\ currentIndex' = -1 /\ gifTarget' = Gif!NoTarget
    BY <1>6 DEF Gif!Reset, Gif!Call, Gif!file, Gif!picture
  <2>2. Gif!ImageCount' = Gif!ImageCount /\ NoRestore' = NoRestore /\ Following' = 1 /\ ~FileEnded'
    BY <1>t, <2>1 DEF Gif!ImageCount, NoRestore, Following, FileEnded
  <2> QED BY <1>t, <2>1, <2>2 DEF PictureInv, Gif!NoTarget, Gif!Pixels
<1>7. CASE Gif!SeekToFrame
  <2>1. /\ UNCHANGED <<Gif!file, Gif!native, Gif!picture>>
        /\ gifTarget' \in Int /\ gifTarget' < Gif!ImageCount
        /\ gifTarget' # Gif!NoTarget => currentIndex < gifTarget'
    BY <1>7, <1>t DEF Gif!SeekToFrame, Gif!Call, Gif!NoTarget, Gif!times
  <2> QED
    BY <2>1 DEF PictureInv, Gif!file, Gif!native, Gif!picture, FileEnded, Following, Gif!ImageCount, NoRestore
<1>8. CASE Gif!SeekToTime
  <2>1. /\ UNCHANGED <<Gif!file, Gif!native, Gif!picture>>
        /\ gifTarget' \in Int /\ gifTarget' < Gif!ImageCount
        /\ gifTarget' # Gif!NoTarget => currentIndex < gifTarget'
    BY <1>8, <1>t DEF Gif!SeekToTime, Gif!Call, Gif!NoTarget, Gif!times
  <2> QED
    BY <2>1 DEF PictureInv, Gif!file, Gif!native, Gif!picture, FileEnded, Following, Gif!ImageCount, NoRestore
<1>9. CASE Gif!Seeking
  <2>1. /\ currentIndex < gifTarget /\ gifTarget < Gif!ImageCount
        /\ Gif!GetBitmap(currentIndex + 1) /\ currentIndex' = currentIndex + 1
        /\ UNCHANGED Gif!file
        /\ gifTarget' = (IF currentIndex + 1 = gifTarget THEN Gif!NoTarget ELSE gifTarget)
    BY <1>9 DEF Gif!Seeking, PictureInv
  <2>2. currentIndex + 1 \in 0 .. Gif!ImageCount - 1
    BY <1>t, <2>1
  <2>3. currentIndex + 1
            = (IF currentIndex + 1 >= Gif!ImageCount THEN 0 ELSE currentIndex + 1)
    BY <1>t, <2>2
  <2>4. /\ gifTarget' \in Int /\ gifTarget' < Gif!ImageCount
        /\ gifTarget' # Gif!NoTarget => currentIndex + 1 < gifTarget'
    BY <1>t, <2>1 DEF Gif!NoTarget
  <2> QED
    BY <2>1, <2>2, <2>3, <2>4, GetBitmapKeeps
<1>10. CASE UNCHANGED Gif!vars
  BY <1>10, QuietPicture DEF Gif!vars
<1> QED
  BY <1>1, <1>2, <1>3, <1>4, <1>5, <1>6, <1>7, <1>8, <1>9, <1>10 DEF Gif!Next

LEMMA AlwaysPicture == GifSpec => []PictureInv
<1>1. Gif!Init => PictureInv
  BY InitPicture
<1>2. PictureInv /\ [Gif!Next]_(Gif!vars) => PictureInv'
  BY NextPicture
<1> QED BY <1>1, <1>2, PTL DEF GifSpec, Gif!Spec

(* However many frames the picture has, and whatever is sought, stopped or *)
(* reset: the file stands where the frame after currentIndex begins.       *)
THEOREM FileInStep == GifSpec => []InStep
<1>1. PictureInv => InStep
  BY DEF PictureInv, InStep, Gif!InStep, Following
<1> QED BY <1>1, AlwaysPicture, PTL

(* For every screen and every picture that does not ask for what was under *)
(* a frame, the canvas is what the format makes of the frames drawn.       *)
THEOREM CanvasIsRight == GifSpec => []CanvasRight
<1>1. PictureInv => CanvasRight
  BY DEF PictureInv, CanvasRight, Gif!CanvasRight, NoRestore
<1> QED BY <1>1, AlwaysPicture, PTL

=============================================================================
