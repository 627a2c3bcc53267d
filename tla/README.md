# Formal models of StartChat

StartChat is a Telegram client for Android (a fork of early 2015). This
directory holds TLA+ models of the parts of it whose correctness depends on the
order in which things happen, configurations that check them with TLC on small
instances, and theorems about them that TLAPS has checked for every value of
the constants.

Every definition is a translation of the source: of the Java under
`src/TMessagesProj/src/main/java/org/telegram/`, and of the C under
`src/TMessagesProj/jni/` that the Java calls for animated pictures and voice
messages. `PROJECT.json` gives, for each definition, the file and the lines it
stands for.

## The system

### Threads

The client is a set of singletons that share a few threads, each of which is an
Android `Handler` loop (`DispatchQueue`): it runs the runnables posted to it one
at a time, in order.

* `stageQueue`: the network and protocol logic. `ConnectionsManager`,
  `TcpConnection`, the update handlers, the callbacks of RPCs.
* `storageQueue`: the SQLite database. Every method of `MessagesStorage`
  posts its work there, and goes back to the other threads with the result.
* `fileLoaderQueue`: `FileLoader` and the load and upload operations.
* the UI thread: views, `NotificationCenter`, most in-memory dictionaries.
* `fileDecodingQueue` and `playerQueue`: a voice message that is played. The
  queue of a recording is another.
* smaller queues: search, photo book, images.

There are few locks. What keeps the program correct is which thread a piece of
state belongs to and in which order runnables are posted, and what makes it hard
is that a decision taken on one thread is carried out later on another, that the
network loses, repeats and reorders, and that Android kills the process at any
moment.

### Components

| Component | State it keeps | Operations | Talks to |
|---|---|---|---|
| Update counters and difference (`MessagesController`, `MessagesStorage`) | `lastSeqValue`, `lastPtsValue`, `lastQtsValue`, `lastDateValue`, `updatesQueue`, `updatesStartWaitTime`, `gettingDifference`, `updatingState`; the params table | `processUpdates`, `processUpdatesQueue`, `getDifference`, `loadCurrentState`, `processNewDifferenceParams`, `updateTimerProc`, `saveDiffParams`, `putMessages` | server pushes, RPCs, the storage thread |
| Secret chats (`SecretChatHelper`) | per chat: `seq_in`, `seq_out`, `layer`, key, future key and exchange id, out-of-order messages held back | `performSendEncryptedRequest`, `decryptMessage`, `checkSecretHoles`, `processDecryptedObject`, `requestNewSecretChatKey`, accept, abort, decline | the other device, storage |
| File loading (`FileLoader`, `FileLoadOperation`) | per datacenter queues of operations and counts of running ones, the map of paths; per operation the requested offset, the written offset, delayed chunks | `loadFile`, `cancelLoadFile`, `checkDownloadQueue`, `start`, `startDownloadRequest`, `processRequestResult` | RPCs, disk |
| File upload (`FileLoader`, `FileUploadOperation`) | upload queues, part counters, resume record in preferences | `uploadFile`, `cancelUploadFile`, `startUploadRequest` | RPCs, disk |
| RPC layer (`ConnectionsManager`) | request queue, running requests, sessions, acknowledgements, datacenters | `performRpc`, `cancelRpc`, `processRequestQueue`, `processMessage`, `rpcCompleted`, `moveToDatacenter` | `TcpConnection`, all callers |
| Connection (`TcpConnection`, pyronet) | socket state, reconnect timer, ports and addresses tried | `connect`, `reconnect`, `sendData`, `onRead`, `onClose` | sockets |
| Authorization (`HandshakeAction`, `ExportAuthorizationAction`, `Datacenter`) | handshake nonces and keys, salts, the queue of actions | `beginHandshake`, `processMessage`, `enqueueAction`, `dequeueActor` | RPC layer |
| Sending messages (`SendMessagesHelper`) | delayed messages by file location, unsent messages, sending messages | `sendMessage`, `performSendDelayedMessage`, `performSendMessageRequest`, `processUnsentMessages` | uploads, RPCs, storage |
| Events (`NotificationCenter`) | observers by id, pending additions and removals, animation deferral | `addObserver`, `removeObserver`, `postNotificationName`, `setAnimationInProgress` | all of the UI |
| Byte buffers (`BuffersStorage`) | pools of free buffers by size | `getFreeBuffer`, `reuseFreeBuffer` | RPC layer, files |
| Runnable queues (`DispatchQueue`) | the handler and its start-up flag | `postRunnable`, `cancelRunnable`, `cleanupQueue` | everyone |
| Caches (`LruCache`, `ImageLoader`) | images by key, their sizes, the tasks loading them | `get`, `put`, `loadImage`, cancel | file loading, UI |
| Animated pictures (`GifDrawable`, `gif.c`, giflib) | the canvas and its backup, the index of the frame, the place in the file, loops, the times | `draw`, `start`, `stop`, `reset`, `seekTo`, `seekToFrame`, `renderFrame` | the UI's looper, the file |
| Playing voice messages (`MediaController`, `audio.c`) | the message, paused or not, the track; the open file; free and used buffers, what is posted on three threads | `playAudio`, `stopAudio`, `pauseAudio`, `resumeAudio`, `seekToProgress`, `checkDecoderQueue`, `checkPlayerQueue`, `fillBuffer` | `AudioTrack`, opusfile |
| The container of a voice message (libogg's `framing.c`) | the writer's and the reader's stream: bytes, lacing values, page and packet numbers | `ogg_stream_packetin`, `_flush`, `_pageout`, `_pagein`, `_packetout` | the recorder, opusfile |
| Reading and seeking in it (`opusfile.c`) | the place in the file, the packets of a page, decoded samples, how many to discard | `op_read`, `op_pcm_seek`, `op_pcm_tell` | `audio.c`, libogg, the codec |
| Notifications, contacts, recording, dialogs, user interface | unread counters, contact lists, the recorder's flags, views | many | UI, storage |

### What is hard, component by component

* **Updates.** Every event has a place in one server sequence; pushes get lost,
  repeated and reordered, the difference is asked by other counters (`pts`,
  `qts`) than the sequence number the pushes are ordered by, and an answer can be
  applied long after it was asked for, with pushes applied in between. Correct
  means: no message is ever skipped, neither by the counters in memory nor, after
  the process has died, by those in the database; a hole is noticed, waited
  for, and filled.
* **Secret chats.** Each side numbers its messages, holds back those that come
  too early and asks for those that do not come; keys are replaced by a
  four-message exchange while messages are in flight under either key. Correct
  means: messages are shown in the order they were sent, none twice; neither side
  throws away a key the other still uses.
* **Files.** A limited number of operations run at a time per datacenter, and
  chunks of a file come in any order, over several connections, with errors,
  cancellations and a move to another datacenter in between. Correct means: the
  file on disk is the file on the server, every operation ends in exactly one of
  finished, failed and cancelled, and the places in the queue are given back.
* **RPCs.** A request is sent until it is answered, over connections that come
  and go, on sessions the server may forget. Correct means: its callback is called
  once, and an answer that comes twice is acknowledged and ignored.
* **Sending.** A message waits for its upload and for the answer to its request;
  both can fail, be cancelled, or be cut short by the death of the process.
* **Authorization.** The handshake is a conversation of six messages over a
  connection that may be lost between any two, on two threads (a third one
  factorizes a number). Correct means: the key that is kept is one the server has
  confirmed, and the handshake ends.
* **Events.** Observers are added and removed by observers, during a broadcast
  that may be inside another. Correct means: a broadcast tells those who were
  there when it began, and afterwards the lists are what the calls asked for.
* **Animated pictures.** A frame is drawn over what the frames before it left,
  and which frame that is follows only from how far the file was read. Correct
  means: whatever is sought, reset, stopped or cut off, the index and the place in
  the file do not part, and the canvas is what the rules of the format make of the
  frames so far, though the code leaves out clearing what it thinks is covered.
* **Playing.** Three threads pass a few buffers around and post each other; the
  user stops, seeks and begins another message in between, with one open file for
  all of them. Correct means: no buffer is lost or in use twice, what is heard is
  the file without a hole, to its end, and the end is noticed.
* **The container.** Packets are cut into segments and these gathered into pages,
  independently of where a packet ends; pages may be damaged. Correct means: what
  comes out is a packet that went in, whole and in order, and of a missing one the
  decoder is told.
* **Seeking.** A place is sought by bisection over bytes in which pages begin
  anywhere, with guesses that may be wrong, and some positions are found without
  a search. Correct means: the search ends, what is read begins at the sample that
  was asked for, and the decoder has had 80 ms to settle before it.

## The modules

A name with an underscore (`Ignored_OtherSessions`) is a wrong variant of the
definition after it, the way a mistake in the code would be; with it in place a
property must fail. `PROJECT.json` says which ("mutants"). Some variables exist
for the properties only; they are marked as history where they are declared.

Some `MC` modules compose modules that share no variable (`MCFileOperations`,
`MCQueues`, `MCConnections`, `MCVoice`): there `part` is chosen in the initial state,
only that part moves, and the others rest in one of their initial states. Their
interleavings would multiply the states and tell no property anything, since no
part reads what another writes; what one relies on of another is said where it
is relied on. The state graph is the union of those of the parts.

### Updates

`Updates` models the part of `MessagesController` that keeps up with the server,
and the part of `MessagesStorage` that it relies on. `log` is the server's log of
events. `last` is `lastSeqValue`, `lastPtsValue`, `lastQtsValue` and whether the
date is set; `updatesQueue`, `waitTime` (`updatesStartWaitTime`: zero, running or
expired), `gettingDifference` are the fields of those names; `difference` and
`stateRpc` are the two requests, with the server's answer on its way through the
storage thread; `drain` is where the loop of `processUpdatesQueue` stands, and
what its caller does next. `storageQueue` is what was posted to the storage
thread, `stored` and `params` are the tables that survive a death of the process,
`acked` is what `receivedQueue` told the server.

A push is received in one of the ways `processUpdates` deals with it:
`ReceiveInSequence`, `ReceiveMissingData` (a message names somebody unknown, the update
or container is given up), `ReceiveRepeated`, `ReceiveOutOfSequence` (held back, or
refetched), `ReceiveTooLong` and `ReceiveUnnumbered` (`updateShort` and its like).
`ReceiveOwnAnswer` is `processNewDifferenceParams`; `DrainApply`, `DrainDrop`,
`DrainHole` and `DrainEnd` are a round of `processUpdatesQueue`; `UpdateTimer` with
`Expire` is the timer, `Reconnect` a call of `getDifference` by somebody else. Then there are
`ReceiveDifference`, `ApplyDifference`, `DifferenceFails`, `ReceiveState` and `StateFails`
for the two requests, `StorageStep` and `StorageSkip` (a runnable of the storage
thread), and `Crash`. The server's steps are external. A push may be lost (it is
never received), repeated (it is received again) and overtaken, as any package is
received that the log can make up.

Secret messages go through `decryptMessage` on their way to the storage thread. What
it makes of one is decided by numbers and keys that `SecretChat` has; here it is a choice
(`Storable`, `Decrypt`): the message is brought, with others that waited for it, or held
back in `secretHolesQueue` in memory (`held`), or nothing comes of it. When a container
is given up, the secret messages in it have been through `decryptMessage` and come again,
perhaps with numbers that are past by then (`GiveUp`). `apart` (history) has every message that
`decryptMessage` held back or made nothing of.

### Secret chats

`SecretChat` models the two ends of one chat and the server between them. `chat[s]`
has the numbers, the present key, `future_auth_key` and the exchange; `holes[s]`
the messages held back, each with the `new_key_used` it came with; `busy[s]` says
that `checkSecretHoles` is at work, which starts from the beginning after each
message it takes; `posted[s]` what the UI thread will send (a service message is
sent from a runnable posted to it). `net[s]` is a set: messages arrive in any
order. `SendText`, `SendPosted`, `SendFails`, `SendAgain`, `KeyGrowsOld`, `Receive`,
`CheckHole`, `CheckEnds` and `Discard` are the handlers.

`InOrderChannel` is what a direction of a chat promises: messages are numbered as
they are sent, and taken one after the other, none left out. There are two
exceptions: the last one taken may be taken again (`decryptMessage` drops numbers that are
less than that of the last, and takes the same once more), and as long as that number is 0,
which is the first number and also stands for none, the first may be left out. `SecretChat`
implements it twice, once in each direction, by the mapping `sent <- chat[s].out`,
`last <- chat[Other(s)].in`. `MCSecretChat` runs it under two sets of bounds, chosen
at the beginning: a chat that works with two exchanges of keys, and one in which
messages come twice, requests fail, and the queue of held messages is short
(`faulty`).

### RPC layer

`ConnectionsManager` models `performRpc`, `cancelRpc`, `processRequestQueue` and
`processMessage`, and the move to another datacenter, which calls all of these
from callbacks. The handlers call each other, and so the fields of the class are
one record `c`, and a method is an operator from such a record to the next;
`ProcessRequestQueue(before, forced, d)` is the method of that name, `forced` and `d`
its arguments. `queue` and `running` are the two lists, `req` the requests in them
(`mid` is `runningMessageId`, `on` says over which connection that is still up the
request was sent, which the code finds out with a token, `due` says that the times
it waits for are over). `completing` holds the runnables of `rpcCompleted`,
`posted` those of `performRpc`, `down[d]` those of the network thread, in order.
`authorized` are the datacenters besides the current one that requests may be sent to
without `RPCRequestClassEnableUnauthorized` (`Authorized`): `ExportAuthorizationAction`
authorizes them, which is not modelled, so that each is authorized from the beginning or never.
`known`, `open` and `home` are the server's: the messages it has taken in each
session, the sessions it remembers, and where the account lives.

The server answers in any order but for `invokeAfterMsg`; a message that names one
that failed or is not known fails, and so does one of two that name each other,
which is an assumption.

### Authorization

`HandshakeAction` models the class, the part of `TcpConnection` under it, and what
`ConnectionsManager` does at the end. Nonces and keys are numbers; the server
answers with what it got, and a retry, a refusal or a failure is a choice of its
own. `stage` is what is posted to `stageQueue`, `tasks` to the network thread,
`out` and `in` are what is on the connection, `threads` the factorizations that
run. `times` counts the disturbances, each of its own kind, with a bound for each
and one for all of them (`MayBe`). `read` are the answers that were read, and
`doubled` says that one was read to a request that had been answered already
(history). `MCConnections` runs it beside `ConnectionsManager`, which begins where
it ends.

### Files

`FileLoadOperation` is one download: bytes are units, a file is a sequence of
them, an iv is a number that must be that of the place it is used at, `temp` and
`ivFile` are what is on disk. `Renew` is another operation that goes on from there,
`DieInWrite` a process that dies between two writes. `FileLoader` is the queue
of downloads with its count and its map of names; an operation in it is only idle,
working or over. `FileUploadOperation` and `FileUploads` are the same for uploads:
`length` is how much of a video is written by now, `saved` the notes in the
preferences. `MCFileOperations` runs the two operations, `MCQueues` the two queues. An `MC`
module extends the one of its modules that there are theorems about and takes
instances of the others, so that its run checks the definitions that the
theorems name.
`Lists` has what `FileLoader` and `NotificationCenter` do with a Java list: taking
the first occurrence out (`Removed`), and what it is to hold nothing twice.

### NotificationCenter

`NotificationCenter` models the class with its broadcasts as a stack: between two
observers of the innermost one anything may be called. `MCFileOperations` runs it
beside the operations whose ends it tells.

### Animated pictures

`GifDrawable` models `GifDrawable.java`, `gif.c` and how giflib moves through the
file. `filePos` is the frame that is read next, `currentIndex` the index that the
code has of it; `canvas` has, for each pixel, which frame's it is, and `backup` the same for the second
buffer, which there is from the first frame with disposal 3 on. `Bitmap` is
`getBitmap`, with `DisposeFrameIfNeeded`, `CheckIfCover` and `DrawFrame` as in the
code; `Shown` is what the format asks for, and `screen` keeps it (history). `Draw`,
`Invalidate`, `Start`, `Stop`, `Reset`, `SeekToFrame` and `SeekToTime` are the methods,
`Seeking` a round of the loops of a seek, `TimePasses` the clock. The last frame may
be cut off (`whole`). `MCGifDrawable` takes an instance of it and has the frames.

### Voice messages

`AudioPlayer` models the methods of `MediaController` that play a message and the
player of `audio.c`. `uiQueue`, `decodeQueue` and `playerTasks` are what is posted to
the three threads, `opusFile` the one open file with its place and `_finished`,
`free`, `used` and `hand` where the buffers are, `track` the `AudioTrack` with what
was written to it. `checkDecoderQueue` is a task that begins (`CheckDecoderQueue`)
and has a step for each buffer it fills (`DecoderLoop`); `checkPlayerQueue` has one
for the buffer it takes, the write and the way back. `from`, `clean` and `cut` are
history.

`OggStream` models the writer and the reader of pages: `os` and `rs` are the two
`ogg_stream_state`s, `file` the pages, `out` what `ogg_stream_packetout` returned. A byte is
a pair of its packet and its place, so that a packet can be told from another.

`OpusFile` models `op_read` and `op_pcm_seek`. `of` is the `OggOpusFile`, `s` the locals
of `op_pcm_seek` and `op_pcm_seek_page`, `pc` where they are. Files are given as the
sizes, samples and positions of their pages; a sample is its number, so that
what is read can be told. A guess of the bisection is any place between its ends,
as the arithmetic can make it.

`OpusFile` takes positions for integers. The code keeps the position of a page
in 64 bits, taken for unsigned, and -1 for none. `GranulePos` has the functions that compute with them
(`op_granpos_add`, `op_granpos_diff`, `op_granpos_cmp`, `opus_granule_sample`, and
`op_get_granulepos` and `op_get_pcm_offset` for a file of one stream), each as the
branches of the code on numbers of the width, with what would be undefined, an
overflow of a signed number, as a condition of its own (`Fits`). It is the place
that says when positions may be taken for integers. Left out is the most negative
of the 32-bit differences, which no caller passes.

`MCVoice` runs the three, and evaluates what is claimed of `GranulePos`. `AudioPlayer` takes from `OpusFile` that a seek goes where
it is told, and `OpusFile` from `OggStream` that the packets of a page come out of it.

## What is checked

| Run | States | What it asks, and shows |
|---|---|---|
| `updates_safety` | 3 769 778 | Two events, pushed in every type of update, lost, repeated and reordered, with messages of unknown users and a death of the process at any point: messages with a failing request, messages and the client's own events, or messages and secret ones, alone or in one container, brought, held back or dropped by `decryptMessage`, in containers that are given up. No message is skipped: not by the counters in memory (`NoGap`), not by those in the database (`CrashSafe`). No secret one is acknowledged before `decryptMessage` had it, and what that brought is stored or on its way (`AckedIsHanded`). While an update is held back the timer's clock runs (`HoleHasTimer`). |
| `updates_live` | 185 201 | Three events. A difference that is asked for ends, no update is held back for ever, and a hole is filled. |
| `secret_keys` | 1 273 151 | Two exchanges of keys, begun by either side or both, with texts in flight that arrive in any order: no key is thrown away that a message needs (`Readable`), none is missing (`NoneMissing`), both sides end with the same key (`KeysSettle`), and all is processed (`AllArrives`). And with a message that comes twice, a request that fails, and a queue of held messages that overflows and closes the chat: what is processed is in order (`InOrderBothWays`, the refinement), and nothing is held without a hole before it (`HeldForAReason`). |
| `secret_mismatch` | 117 754 | A finding: `NoMismatch` is violated. |
| `file_operations` | 1 858 840 | Downloads of files of every shape, plain and encrypted, with failures, migrations, cancel, deaths in the middle of a write, going on from what is there. Uploads up to five parts, small and big, plain and encrypted, complete or still written, with a failing request and two deaths. The file that is finished is whole, here or at the server (`WholeFile`), what is noted of an upload was sent (`NotedIsSent`), and both end (`Ends`). Broadcasts within broadcasts, with observers that add and remove observers: the lists are what was asked for afterwards (`Settled`), and each broadcast tells exactly those who were there when it began (`TellsAll`). |
| `queues` | 512 511 | Three operations in the queue of downloads and in that of uploads, cancelled, failing, asked for again: the count is right (`CountIsRight`), what works or waits can be found by its name (`Findable`), one upload works at a time and names become free (`UploadsInTurn`), and what waits starts (`Starts`). |
| `connections` | 656 324 | A handshake of up to three attempts with any two disturbances: connections lost at any point, refusals, an answer that comes twice, a message that does not belong to it. The key is one the server confirmed (`KeyAgreed`), and the handshake ends and leaves the connection to `ConnectionsManager` (`Completes`). Two messages and an account that moves, to a datacenter that was authorized before or not, with connections lost, sessions forgotten, packets refused, errors, and requests cancelled. No callback is called twice (`Once`), messages are sent on in order but for those a caller has lost or another one goes past (`InOrder`), a datacenter is always chosen (`CurrentKnown`), and every request is answered or cancelled in the end (`Answered`). |
| `gif_frames` | 464 360 | Pictures of one to three frames that cover the screen, half of it, a pixel, or stick out, opaque or not, cleared or not, whole or cut off; drawn, started, stopped, reset and sought. The file and the index stay in step (`InStep`), the canvas is right (`CanvasRight`), and a picture that runs goes on (`KeepsPlaying`). |
| `gif_restore` | 20 827 | A finding: `RestoresPrevious` is violated. |
| `voice_play` | 2 093 730 | Two messages, three calls of the user at any time: no buffer is lost (`BuffersKept`), what is heard has no hole (`Gapless`), goes to the end (`WholeHeard`), and the end is noticed (`Finishes`). Five packets on pages, two pages damaged: packets are whole, at their positions (`Whole`), in order or the decoder was told (`HolesTold`), and all there when no page is missing (`NothingLost`). Four files, read and sought in any order, wherever the search guesses: reading goes on at the place asked for (`Exact`), the decoder has settled (`Converged`), and each round of a search leaves less to search (`Narrows`). Before that TLC evaluates, for every position, sample and difference of a width of four bits, that the functions of `GranulePos` are right and do not overflow (an `ASSUME` of `MCVoice`). |
| `voice_seek` | 6 000 | A finding: `BeginsExactly` is violated. |
| `voice_end` | 180 | A finding: `FinishedIsTheEnd` is violated. |

The numbers of distinct states are those of the complete state graphs, but for the
four findings, which stop at the violation.

### Findings

* `secret_mismatch`: a message under the old key that is held over a commit makes the
  side that commits forget the old key, and the next message under it cannot be
  read (`SecretChatHelper.java:1267`).
* `gif_restore`: for a frame with disposal 3 (`gif_lib.h:114`: "Restore to previous
  content") the code swaps two local pointers (`gif.c:471-473`), which its caller
  does not see. When the next frame has another disposal, the frame stays. When it
  has disposal 3 as well, the copy that is to be made for it (`gif.c:478-480`) goes from
  the backup to the canvas, by the same swap, and the frame is put back.
* `voice_end`: `fillBuffer` takes a piece for the last one when its offset in samples
  plus its length in bytes is the number of samples of the file (`audio.c:607`).
  A piece in the middle, after which as many samples follow as it has, is taken
  for the end: what follows is not heard. That needs a length that happens to fit;
  otherwise the end is noticed by a read that returns nothing.
* `voice_seek`: `opusfile.h:1627` says "decoding will begin at exactly the requested
  position". After a seek forward by less than 90 ms the samples that are still in
  the buffer are returned first, although they are before the position, and as
  many after it are thrown away (`opusfile.c:2445`).

### Why the bounds are enough

* `updates_safety`: two events are the least for a hole, and every type of push and of
  answer occurs with them. With everything on top of each other there would be too many
  states, and `MCUpdates` bounds what goes together: a log has secret messages or own events,
  not both; a request fails only with a log of messages; and with a secret message in the log
  an update that is held back is a container, and a `getState` was answered before the
  first event, if at all (what comes before a state is left out anyway, as `base`). One task at rest in the storage queue keeps puts
  and saves apart from the handlers that posted them, and the process dies once, at any
  point. `updates_live` has three events, so that a
  hole can be in front of two, and the simplest push: which type it is makes
  no difference to who waits for whom. It has no errors, because after one the
  code asks for nothing until the next push comes, and none need come.
* `secret_keys`: two exchanges are the least for one to begin while the key of
  the one before is kept, and for both sides to begin at once; texts and service
  messages share the numbers up to `MaxSent`. The chat with faults has a limit of
  two held messages instead of ten, so that it is reached, and one repetition and
  one failure.
* `file_operations`: the window of a download is three parts in the code, too; the
  sizes are less than a part, whole parts, more with a short last part, and more
  than a window. Uploads have up to five parts and notes every two parts, so
  that notes are at, before and behind the last part. A broadcast in another, with
  two observers: one that does something and one that it is done to.
* `queues`: two downloads may work at once, the third waits; three uploads of two
  files, so that a name is used again.
* `connections`: three attempts and any two disturbances (two losses, two refusals,
  one of them and a repetition, ...), which is enough for an answer to one attempt
  to meet the next and for that one to be disturbed again. The properties hold
  with three disturbances, too (5.6 million states, too many for a regular run).
  Three events out of requests, troubles and the account's move: two requests and
  one trouble, or one request and two; three requests may run instead of 60, so
  that both messages and one request of a move fit.
* `gif_frames`: `checkIfCover` and the drawing compare left, top, right and bottom;
  each of them is met from inside, at the same place and outside on two by two
  pixels. Without disposal 3 nothing looks further back than one frame, so that the
  third one shows what the second left (`gif_restore` has two frames of disposal 3 in a row,
  behind which the backup is read); two calls of the user at any time.
* `voice_play`, playing: five samples in buffers of two, so that the last piece is
  short; two buffers, so that both queues run empty and full; three calls are
  enough for a seek, a stop and another message while pieces are passed on. The
  container: a full lacing value of 2, pages of 4 segments instead of 255: packets of
  less than a segment, of exactly one (which ends with an empty segment) and of
  several, which is where lacing has its cases; a packet
  of seven fills a page and is continued; two damaged pages, next to each other
  or not. Seeking: files of one to six pages whose sizes, durations and trimmed
  ends differ, in which a chunk of the search is less than a page, as much, or
  more, and 80 ms reach back over one page or more.

`CHECK_DEADLOCK FALSE` is set where the system may stop: the events of the bounds
are over and everything is at rest.

### Fairness

Every fairness condition is weak but for three of `Updates`. What is assumed is
that a `Handler` thread runs what was posted to it, that a timer goes off, that a
server answers what it got and the network delivers what it has taken. Nothing
that a user does is fair, nor is anything that goes wrong. In `Updates`,
`UpdateTimer` and the receipt of an answer are strongly fair: they are disabled
now and then, while `processUpdatesQueue` runs, and the code has them run after it.
In `ConnectionsManager` a single condition says that something is done as long as
something can be done, which is less than the code gives. In `GifDrawable` the
looper draws what is invalid and runs what is posted, the clock goes on, and a
call of C returns. In `AudioPlayer` the two queues and the UI thread run, and a
track that plays reaches its marker. Of `OggStream` and `OpusFile` only safety is
claimed: `Narrows` says of each round of a search that less is left, which needs no
fairness.

### What the properties leave out

Several properties hold only outside cases in which the code does not do what
it should. Each case has a variable or a condition of its own, the comment at the
property names it, and `PROJECT.json` has it among the hazards, at its line. They
are the places to look at first when this code is changed.

* `Updates`: `base` are the events that a client without a state skips, and `lost`
  the secret messages that were acknowledged and not in the database when the
  process died (`receivedQueue` is sent first). `apart` are the secret messages that
  `decryptMessage` held back in memory or made nothing of: the counters move past them, they
  are acknowledged, and they are not in the database. A message of a container that
  is given up behind it is one of them, when its number is past as it comes again. `HoleFilled` is not claimed with
  requests that fail.
* `SecretChat`, `misjudged`: `checkSecretHoles` passes on the `new_key_used` that was
  noted when the message came. This is the finding of `secret_mismatch`: a message
  under the old key is held, the commit comes before it, the message
  then counts as one under the new key, the old one is dropped, and the next
  message of the peer, still under the old key, cannot be read ("fingerprint
  mismatch"). `overlapped`: an exchange begins while the old key of the exchange
  before is kept, and overwrites it. `fails`: a service message whose request
  fails is not sent again, and its number is missing for good.
* `FileLoadOperation`, `torn`: the part is written and then the iv; a process that
  dies in between goes on with an iv that does not fit. `migrations`: every part
  that gets FILE_MIGRATE makes the operation begin anew. `errors`: an operation
  that has failed still acts on FILE_MIGRATE, its stream closed, and counts as
  written what is not.
* `FileLoader`, `unstarted` and `twice`: the end of an operation that never began,
  and a second end, are counted down. `hasty`: a file asked for again before the
  end of its cancelled operation is handled is taken off the map by that end.
* `FileUploadOperation`, `strayed`: two parts go out under one number, when data
  comes between `start()` and its runnable, or after a failure, which does not
  change the state. `FileUploads`, `stuck`: an upload that is cancelled while it
  waits keeps its name for good; `twice`: an answer that is being handled while
  the upload is cancelled ends it a second time.
* `NotificationCenter`, `clashed`: the lists of what waits for the end of a
  broadcast have room for one observer of each notification.
* `HandshakeAction`, `doubled`: a request that is sent again on the connection it is
  already on gets two answers; when the second one is read, the handshake may
  begin anew, and so on for ever. The same is true of an answer that the network
  repeats and of a message that is not an answer (`Undisturbed`).
* `GifDrawable`: a picture with a frame of disposal 3 is left out of `CanvasRight` (such a
  frame is put back only when the next one has disposal 3, too, the finding of `gif_restore`), and one whose last frame is cut off out of `InStep`: the
  file stays at its end until a reset. `seekTo` into the last frame is not
  modelled: its loop asks for the frame behind the last one.
* `AudioPlayer`, `clean`: a message that was begun or sought while pieces of another
  place were still under way, in a buffer or on a thread, is heard with those
  pieces. `cut`: `AudioTrack.write` writes less than it was given when it is paused
  meanwhile, and nobody looks at what it returns. `Uneven`: of a file of just so
  many whole pieces the last piece is not marked as the last, and the end is
  never noticed (unless the wrong test of `voice_end` marks one).
* `OpusFile`: `Exact` does not speak of samples that come out of the buffer while
  there is still something to discard (the finding of `voice_seek`). When so many of
  them are given that as many are missing at the end, `op_pcm_tell` tells the end, and
  not the sample a caller would expect next: `Exact` compares with the lesser of the two.
  `rushed`: a
  second seek, near to the first one and before what that had to discard was
  read, shortens it, and the decoder gives samples before it has settled.
* `OggStream`: a packet of no bytes is left out.
* `ConnectionsManager`, `revived`: a request that is answered loses the id by
  which `rpcCompleted` would take it from the running ones, when a session or a
  move clears it first: it is sent again, and called back again. `spoiled`: the
  same happens to the request of a move, and the move ends twice; no datacenter is
  left then, and the model goes no further from the clearing on (`Running`).
  `HeldBack`: the import of a move goes to a datacenter that was not authorized before, without
  `RPCRequestClassEnableUnauthorized`; `processRequestQueue` passes it over for good
  (`ConnectionsManager.java:1055`, `1263`), and the move never ends.
  `stuck`: after an error to the export or the import of an authorization
  `moveToDatacenter` is called again and returns at once; and the export waits for
  one of the running requests to end when they are as many as may run, while they
  wait for the move. `delayed`: a message that the server had an error of its own
  with is sent again later than those after it; one that ended with an error for its
  caller may still wait at the server, and be sent on there after later ones; and some
  are gone past (`Passed`): a message is told to follow its neighbour in the packet, or
  the largest id that runs, and neither needs to be of the message that was given before it.

## What is proved

The theorems hold for every number of events, messages, errors, crashes and keys,
and every limit, not only for the bounds of the runs. TLAPS has checked all of
them without a step taken on trust.

`UpdatesProofs`, from `Updates` and its assumptions about the constants:

* `AlwaysInductive`, `Spec => []Inductive`, by induction over the steps: one lemma
  for each handler (`ReceiveKeeps`, `DrainKeeps`, `ApplyDifferenceKeeps`,
  `StorageKeeps`, `CrashKeeps`, ...), which share `HandlerKeeps`: what the end of
  `processUpdates` does to the counters and the storage queue.
* From it `TypeCorrect`, `NothingSkipped` (`NoGap`), `RestartIsSafe` (`CrashSafe`) and
  `AckAfterDecrypt` (`AckedIsHanded`), which are parts of `Inductive`. They leave out what the
  properties do: `base`, `lost` and, of the secret messages, `apart`. None is inductive
  by itself. `CrashSafe` speaks of the counters in the database, and a save in the
  storage queue would write others: `SavesCovered` says that the puts before a save
  bring what its counters need. `NoGap` speaks of counters that an answer
  replaces: `DifferenceCovered` says that the answer brings what they need, and
  that the counters it was asked from needed no more, and `StateFresh` says the
  like of a state. That a counter can be compared with an event's at all takes
  `LogOrdered` and `CountersKnown`.
* `HoleIsTimed` (`HoleHasTimer`), which is inductive with `TypeOK`.

`SecretChatProofs`, from `MCSecretChat`, `SecretChat` and the assumptions of the two:

* `AlwaysTypeOK` and `AlwaysHeldForAReason`, from `Inv`: the types, that a number in
  use is known (`Known`: nothing on its way or held has a number that was not yet
  given), and that what is held is ahead of what is processed, in order, without
  repetition (`HeldAhead`).
* `KeepsOrder`: every step is a step of `InOrderChannel` in both directions or
  leaves its variables alone, so that each message is taken right after the one before it,
  with the two exceptions of the channel: the last one taken may be taken again, and with the
  number 0 the first may be left out (`NumbersStep` says what a step may do to the
  numbers), and `ImplementsChannel`: with the initial states, each direction
  implements the specification of the channel.
* `AlwaysReadable` (`Readable`), `AlwaysNoneMissing` (`NoneMissing`) and `AlwaysKeysSettle`
  (`KeysSettle`), for any number of exchanges and texts, from `ChatInv`. Where an
  exchange stands is a relation between the two chats and what is on its way between
  them (`Between`): idle; asked for by one side; by both, until the ids decide; accepted;
  committed; and switching, when the side that committed waits for the noop of the other, or
  for a message under the new key. Each stage says which keys and which
  exchange each side has, which service messages are on their way or held, each in one place
  (`Single`), and under which keys the texts may be (`Linked`). `NoneMissing` comes
  first: that a service message is at the one place where the stage has it is
  so because no number that was given is lost. An abort or a request of an exchange that
  lost may still be on its way in the next stages (`Older`); that it is not taken for one
  of the present exchange is so because exchanges and keys are told apart, and none is used
  that was not made (`KeysKnown`). All of it is claimed as in the run, while every message
  arrives once, no request fails and none of the two cases of `NoMismatch` and of
  overlapping exchanges has happened (`AsPlanned`).
  `AlwaysKeysSettle` has `Started = 1`, the numbers of a chat that was begun with the
  notice of the layer: with 0 the first message may be passed over.

`MediaProofs`, first from `AudioPlayer` and its assumption:

* `NoBufferLost` (`BuffersKept`), for any number of buffers, samples and messages.
  The inductive invariant is `BuffersKept` with the types (`Typed`), and two facts
  about who is at work: nothing is read or on its way to the track before a file was
  opened (`NothingRead`), and what the steps of a loop hold in hand is there
  as long as the loop is under way (`AtWork`).
* `ReadsOpenFile`: the decoder's loop runs on an open file only.
* `HeardWithoutGap` (`Gapless`) and `HeardToTheEnd` (`WholeHeard`). Both speak of what the
  track was given, the last thing to happen to a piece; the invariant follows the
  pieces from the file on. What was written, the piece in the player's hand and the
  filled buffers follow one another, up to where the file is read next (`Chain`,
  `Linked`); whole buffers are read until the end, and the track is told of the end only
  when it was given the file up to there (`AtEnd`).

and from `GranulePos`, for every width of a position and of a
difference, so for the 64 and 32 bits of the code:

* `AddCorrect`, `DiffCorrect`, `CmpCorrect`: the branches of the functions compute
  the sum, the difference and the order of the positions, each taken as a place in
  their order (`Place`), and fail just when the result is not one.
* `AddNeverOverflows`, `DiffNeverOverflows`, `SeekNeverOverflows`: no signed
  number on the way leaves its range, which in C would be undefined.
* `TellInvertsSeek`: in a file of one stream, the position that is sought for a
  sample is one at which that sample is told.

and from `OpusFile`, for files of any number of pages, of any size, each with any number of
packets of any length, for every size of a piece that is read, every size of the search's
chunks, every distance that is near, and any 80 ms:

* `SeeksFindTheirPlace` (`Exact`) and `DecoderSettles` (`Converged`), of MCVoice's specification.
  The inductive invariant (`SearchInv`) follows a seek from its beginning to the next one.
  While it is read (`Reads`), the packets of the page that is there have their places
  (`HasRead`), what is in the buffer and what was decoded end where the packets that were
  decoded do (`InPlace`), and the decoder began early enough (`Settles`). While the search goes
  on (`Looks`), nothing about its guesses needs to be known, nor about `boundary`, beyond which it
  does not look: only that the best page it has begins, in samples, no later than the place it looks
  for, and that the page it remembers is the one the file stands behind. That is why it
  finds the place however badly it guesses. While packets are passed over
  (`Skips`), none of them reaches beyond that place. The lemmas `PagesAre`, `PlacesAre` and
  `NextPageIs` say what the pages of a file, their packets and the search for the next page
  are; the last page, which the recording may end within, is the hard case of each.
* `SearchNarrows` (`Narrows`), which needs that a round looks between `begin` and `end`
  (`Narrowed`).

from `OggStream`, for packets of any sizes, any full lacing value, pages of any number of segments,
any fill of a page and any number of damaged pages:

* `PacketsAreWhole` (`Whole`), `DecoderIsTold` (`HolesTold`) and `NoPacketLost` (`NothingLost`), of
  MCVoice's specification. A recording is a row of segments, each named by its packet and its place
  in it, and the invariant (`StreamInv`) names those that each part of the stream holds: on the
  pages, with the writer, and with the reader. What each holds in lacing values and bytes
  spells its segments (`Spelt`). Pages and writer have the whole row (`Joined`); the reader's
  has a gap where a page was missing and a hole stands for the packet that was
  given up, or nothing does when it had none and skipped the rest of one (`ReaderHas`);
  it ends where the last page that was read does (`ReaderAt`); and what comes out goes on where the
  last packet did, but behind a hole (`GoesOn`). That the reader is given a page only when it has
  no packet left is what the lemmas about `ogg_stream_pagein` rest on (`NoHoles`, `UnrolledHas`,
  `PageAdds`): what is unrolled is one unfinished packet, and a hole is the first of all.
  `NothingLost` comes last: with no page missing the reader stands at the end of the last
  page, what it held there would be the end of a packet, and so it holds nothing. The sums of
  lacing values are a recursive function (`Total`); that it exists, and what its values
  are, is proved by the least counterexample (`SummingExists`, `SumsUp`).

and of the animated pictures, from `GifDrawable` and its two assumptions, that
frames are frames and that only a transparent index leaves pixels out:

* `FileInStep` (`InStep`) and `CanvasIsRight` (`CanvasRight`), for every size of the
  screen, every picture and any number of calls, from `PictureInv`. `InStep` is not
  inductive because of the file that is cut off: `PictureInv` says that only then the
  file stays at its end. `CanvasRight` needs that the frame drawn last is the one
  before the next (`drawn`), which follows from the file being in step, and that
  the loop of a seek begins behind the present frame (`target`).
* `CoverHides` is why `gif.c` may leave out clearing a frame: when the next one covers
  it and has no transparent pixels, nobody sees the difference. `BitmapIsShown`
  compares the code's rules with the format's, and `GetBitmapKeeps` is shared by
  the frames that are due and those on the way of a seek.

The attempt to prove `Exact` showed that it was stated wrongly: `op_pcm_tell` was to tell the sample
that is expected next, also behind the end. The run had not met the case, which needs a packet
of three samples at the end of a file; its files have such packets now.

`FileLoaderProofs`, from `FileLoader` and its assumption:

* `CountsWhatWorks` (`CountIsRight`) and `DownloadsAreFound` (`Findable`), for any number
  of files, operations and failures, and every limit. The first
  also needs that a start is never counted twice, which is so because what waits
  was not started and is in the queue only once (`Waiting`). For the second,
  `Found` says that no end is on its way under the name of another operation that
  lives, which is what would take it off the map; `Named` says that the map has
  each operation under its own name.

* `UploadsTakeTurns` (`UploadsInTurn`, of `FileUploads`), which has the same shape: the
  count is that of the uploads that work and whose end is not handled yet, what waits
  is in one of the two queues once, and every name that is taken is that of an
  upload that lives, so that the end of the living one gives it back.

`FileOperationsProofs`, from the modules of `MCFileOperations` and their assumptions. Of
the observers of `NotificationCenter`:

* `ListsSettle` (`Settled`): `Settled` speaks of the time between broadcasts only. The
  invariant says what must hold in one: what waits, carried out as `End` does,
  would make each list what was asked for (`WillSettle`), no observer is in a list
  or waits twice (`EachOnce`), and nothing waits when no broadcast goes on
  (`NoneWaits`).
* `BroadcastsTellAll` (`TellsAll`): the lists that are walked are those that were there when
  their walk began (`Unchanged`).

Of a download, for every size of a file and of a part, and any number of parts at a
time, of errors, migrations, cancellations, deaths and operations that go on:

* `FilesAreWhole` (`WholeFile`, with uploads). `WholeFile` leaves out a failure with a
  migration and a write that was cut off, where the iv is what decides or the size is
  not known; the counts of these never fall, so that the
  invariant may be conditional on the same (`Clean => Kept`). What is kept is that the
  temporary file is the beginning of the file, and the iv noted the one for its end
  (`OnDisk`); that the next part is written where the file is right up to
  there, though it may be longer, when a death cut the counting off (`AtEndOf`); with an
  unknown size, that one part is asked for at a time (`OneAsked`), for then a short
  part is the last one. An operation that has failed still takes answers and
  counts as written what is not. That the count never reaches the size then is what
  `Missing` and `Stuck` say: a part before the end is missing that nobody asks for
  again, namely the one that failed. That it was asked for once only holds as long as
  there was no migration: till then, what is on its way and what is delayed are parts that
  come next, none twice (`InRows`).

Of an upload, for every size, part, and distance between notes:

* `NotesAreRight` (`NotedIsSent`), and the half of `FilesAreWhole` that is about uploads. What
  is noted are whole parts that the server has, and the iv is that of the part behind them
  (`NotesRight`); where an upload that is about to read stands is where the number
  of its parts says, also when it went on from the notes (`InStep`); one part is on
  its way, and it is the one of the number it has (`OneOnItsWay`), which is what `strayed`
  is the exception to; the server has the parts that are counted, and all of them at
  the end (`Arrived`).

And of the three together:

* `TogetherAsAlone`: in the specification that the run checks, in which they move beside each
  other, each of the four invariants holds as it does where one of them is alone.

These proofs need no induction but that over the steps of a behaviour. Where one would expect
another, `Least` (a set of naturals has a least element) picks the first part that is
missing, and `Numbered` counts a set by giving its elements the numbers from 1 on.

`ConnectionsProofs`, from `MCConnections` and the assumptions of its two modules:

* `KeyIsConfirmed` (`KeyAgreed`), for any number of attempts, of lost connections, refusals,
  encrypted messages and answers that come twice. Between the confirmation and the end of the
  action, which is posted, other events are handled, and one that begins the action anew
  or takes another `dh_gen_ok` for its own would leave the datacenter with a key nobody
  confirmed. The invariant (`HandshakeInv`) says why none does. All that is on its way, from
  the tasks of the network thread to the server and back to the end of `stageQueue`, is one line
  (`InLine`), in which nothing of an older new nonce comes behind a request to confirm a key or
  its answer, and no encrypted message behind a confirmation (`Follows`). A request that may be
  sent again would break the line, but as long as `req_DH_params` is kept nothing that comes
  after it is on its way (`KeptIsLast`). So what is handled before the end is harmless
  (`Completing`, `Harmless`): an answer of an older exchange, or one that was read before;
  the latter is where `doubled` comes in (`WasRead`). TLC has checked the invariant with
  `MaxTrouble` 3 too.
* `CallbacksOnce` (`Once`) and `AlwaysADatacenter` (`CurrentKnown`), for all requests and
  datacenters, and any number of lost connections, refused packets, forgotten sessions, errors
  and answers that come again. Neither is inductive, and they hang together: the callback
  of an export or an import moves the client, and that it is called once is what keeps the
  current datacenter known. The invariant (`RpcInv`) has these parts (`RpcGood`):
  * a request runs under an id of its own, which is of no other request, and what is on
    its way to a datacenter or back under this id is for that datacenter (`Numbers`); so an
    answer finds its own request or none;
  * a completed request is taken for completed only as long as its id is among those that its
    datacenter's session has processed (`Settled`), so that its answer is ignored when it comes
    again; when the ids of the session are forgotten, the requests are cleared with them, which
    is what `revived` and `spoiled` are the exceptions to;
  * a request whose record is not completed has had no callback (`Callbacks`), and it is in the
    queue or runs, never both (`Listed`);
  * at most one export or import is posted or unfinished, while a move is under way only,
    and of the datacenter the account lives in (`OneMove`, `Places`); the class's own
    requests are told apart by their number (`Made`).

  The proof goes along the code: a lemma for each method says which fields it leaves alone
  (`ClearRequestsIs`, `SendAllIs`, ...), one that it preserves `RpcGood` (`SendAllGood`,
  `ProcessRequestQueueGood`, ...), one for each handler, and one for each action. While a
  callback runs its request is not completed yet: `RpcGood` has the message whose answer is handled
  and the move whose callback runs as parameters, and is the invariant when there are
  none. What is left of a list (`KeptOf`) is an induction over its length, done as a search for
  the least counterexample (`Least`). TLC has checked the invariant on the run's instance first.

`ConnectionsOrderProofs`, from the same:

* `SentOnInOrder` (`InOrder`), for all requests and datacenters and any number of events. What is
  sent on is decided at the server, from what each message names; what it names was chosen
  when the packet was made, from lists that have changed since, in sessions that may be
  gone. The invariant (`LineInv`) ties these together:
  * the lists hold the requests as they were given, those that run before those that wait
    (`InLists`), what is in neither is over (`Present`), and the ids of those that run rise
    (`Increasing`); one that runs without an id is sent as soon as others are (`Waits`);
  * an id was given to one request and to nothing else, in what is on its way and at the
    servers too (`Ids`, `Owner`), and `rpcCompleted` looks for requests that are over
    (`Finished`);
  * a message on its way or at a server comes after one behind which all that was given before
    it is over (`Covers`, `Covered`), where over is sent on, or `delayed`; so it is in
    turn when what it names was answered (`Done`, `InTurn`), and an answer that
    takes a request off the lists takes one that was sent on (`Told`).

  As for `RpcInv` there is a lemma for each method and each action. The heart is that of the packet
  (`SendAll`): whatever runs and is neither in the packet nor what its messages follow
  is over or one that the packet goes past.

  The attempt showed that `InOrder` was stated wrongly. The run has three events, and with
  a fourth TLC finds a request whose caller was told an error, and which is then sent on
  after a later one: its repeat was answered, with an error, and its first message was still
  unanswered at the server. With three requests there are two more ways,
  of a packet that leaves out a request between two of its own, and of a request that got a
  larger id than a later one, when the others were cleared. `InOrder` leaves these out now, by
  name (`delayed`, `Passed`). TLC has checked the parts of the invariant on one datacenter with
  two requests and four events, 5 195 472 states, and by simulation on three
  requests and six events, with one datacenter and with two.

`ListsProofs` has the lemmas about lists that the queues and the observers need: what is in
a list, and that nothing is in it twice, after something was taken out, put at
either end, or the first was taken; and those that the container needs, how a list is cut
and joined, and the sums of its first values.

## What is only model-checked

Liveness (`DifferenceEnds`, `HoleFilled`, `AllArrives`, `Ends`, `Starts`, `Completes`,
`Answered`, `KeepsPlaying`, `Finishes`), which is out of the reach of these provers. Every
invariant and every action property of the passing runs is stated by a theorem.

## What is not modelled

`PROJECT.json` lists the components with what of each is modelled. Not modelled,
and why:

* of the RPC layer: media requests (they have a retry limit and need an
  authorization that `ExportAuthorizationAction` brings), push, server salts,
  acknowledgements, `msg_detailed_info`, `help.getConfig` with the choice of another
  datacenter, pause and sleep, `cleanUp`. Two things seen there: `rpcCompleted`
  calls `removeRequestInClass` for every running request (line 1783), so that
  `cancelRpcsForClassGuid` misses them afterwards; and an answer to
  `help.getConfig` begins a move anew that is under way (line 769), which can then
  end twice.
* how a secret chat is started, accepted and discarded, and what of it is in the
  database;
* of pictures and voice messages: LZW, the codec, checksums and the search for the
  sync word of a page, chained streams, `op_raw_seek`, errors of the file. The files
  of `OpusFile` are of one stream with no packet over two pages, as the recorder
  writes them;
* recording: three threads with a flag or two between them, around Android's
  `AudioRecord`;
* dialogs, history and contacts: mostly data;
* the user interface and the network library: Android's or vendored;
* nearly all of the C code. The 155 000 lines under `jni/` are SQLite, the Opus codec,
  libyuv, libjpeg, libwebp and AES: libraries of others, which compute samples,
  pixels and rows, one call at a time, in the thread of the caller. What matters
  about them is what a function computes, over arithmetic on long arrays, which
  neither a state machine nor a bounded run says anything useful about. Modelled
  is the C that has states and an order of calls: `gif.c`, `audio.c`, `framing.c` and
  the reading and seeking of `opusfile.c`. Measured against the C code alone, the
  models cover a small share of it; measured against the files they are about,
  Java and C, about three lines in ten.

## Plan

In this order; the first extends what is here.

1. `SecretChat`: start, accept and discard, and a death of the process.
2. `SendMessagesHelper`: a message, its upload, its request and its row in the
   database, with a restart; abstractly, each message is sent, failed or waiting.
   It composes `FileUploads` and `ConnectionsManager` by what they promise: an
   upload ends once, a request is called back once.
3. `ConnectionsManager`: media requests and authorizations, salts, `cleanUp`.
4. `BuffersStorage`, `LruCache` with `ImageLoader`, recording, and logging out.
