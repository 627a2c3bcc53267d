------------------------------ MODULE Updates ------------------------------
(***************************************************************************)
(* How the client keeps up with the server's event log: the update         *)
(* handlers of MessagesController, which all run on stageQueue, and the    *)
(* part of MessagesStorage they rely on, which runs on storageQueue and    *)
(* survives the death of the process.                                      *)
(*                                                                         *)
(* Every event has a place in one sequence (seq); events with a message    *)
(* also advance pts, events with a secret message advance qts.  Updates    *)
(* are pushed and may be lost, repeated or reordered; the client applies   *)
(* what is next in sequence, holds back what is not, and asks for the      *)
(* difference from its pts and qts when a hole does not close.             *)
(*                                                                         *)
(* A name with an underscore is a wrong variant of the definition after    *)
(* it: with it in place a property must fail.                              *)
(***************************************************************************)
EXTENDS Integers, Sequences

CONSTANTS
    MaxEvents,   \* how many events the server's log may reach
    MaxTasks,    \* a handler runs only while storageQueue is no longer than this
    MaxCrashes,  \* how often the process may die
    MaxErrors,   \* how many requests may be answered by an error
    Kinds,       \* the kinds of events that happen
    Types,       \* the types of updates the server pushes
    MayMiss      \* may a message name a user or chat the client has not loaded?

ASSUME UpdatesAssumption ==
    /\ {MaxEvents, MaxTasks, MaxCrashes, MaxErrors} \subseteq Nat
    /\ Kinds \subseteq {"msg", "enc", "own"}
    /\ Types \subseteq {"updateShortMessage", "updateShortChatMessage", "updates",
                       "updatesCombined", "userAction"}
    /\ MayMiss \in BOOLEAN

(* A "msg" event has a message and moves pts, an "enc" event a secret      *)
(* message and moves qts.  An "own" event is the client's own request: it  *)
(* is local already, and the answer brings its seq and pts.                *)

VARIABLES
    log,            \* server: the events so far, with the counters after each
    acked,          \* server: the highest qts acknowledged by receivedQueue
    last,           \* MessagesStorage.lastSeqValue, lastPtsValue, ..., as a record
    updatesQueue,   \* the updates held back until the hole before them closes
    waitTime,       \* updatesStartWaitTime: zero, running, or 1500 ms old
    difference,     \* the getDifference request and how far its answer has come
    stateRpc,       \* the getState request (updatingState: its phase is not "none")
    drain,          \* the loop of processUpdatesQueue, when it is running
    storageQueue,   \* the runnables posted to the storage thread
    stored,         \* the events whose messages are in the database
    params,         \* row 1 of the params table
    lastSaved,      \* lastSavedSeq, lastSavedPts and lastSavedDate
    held,           \* the secret messages in secretHolesQueue, in memory
    apart,          \* history: those decryptMessage held back or made nothing of
    base,           \* history: the events up to here were never promised
    lost,           \* history: acknowledged events a crash kept out of the database
    crashes, errors \* how often the bounded failures have happened

server == <<log, acked>>
client == <<last, updatesQueue, waitTime, difference, stateRpc, drain>>
disk   == <<stored, params>>
secrets == <<held, apart>>
vars   == <<server, client, secrets, storageQueue, disk, lastSaved, base, lost, crashes, errors>>

-----------------------------------------------------------------------------
NoParams == [seq |-> 0, pts |-> 0, qts |-> 0, dated |-> FALSE]
NoDrain  == [run |-> FALSE, any |-> FALSE, save |-> FALSE, ack |-> FALSE]
NoAnswer == [kind |-> "empty", events |-> {}, params |-> NoParams]
NoDifference == [phase |-> "none", pts |-> 0, qts |-> 0, answer |-> NoAnswer]
Asked(l) == [NoDifference EXCEPT !.phase = "asked", !.pts = l.pts, !.qts = l.qts]
NoState  == [phase |-> "none", params |-> NoParams]

PtsAt(n) == IF n = 0 THEN 0 ELSE log[n].pts
QtsAt(n) == IF n = 0 THEN 0 ELSE log[n].qts
Larger(a, b) == IF a < b THEN b ELSE a

(***************************************************************************)
(* What the server may push.  A container names the first and the last     *)
(* event it stands for; only updatesCombined holds more than one, and      *)
(* never the client's own, whose seq and pts come with their answers.      *)
(***************************************************************************)
Package(t, i, j) == [type |-> t, lo |-> i, hi |-> j]

CanCarry(p) ==
    CASE p.type \in {"updateShortMessage", "updateShortChatMessage"} ->
             p.lo = p.hi /\ log[p.lo].kind = "msg"
      [] p.type = "updates" -> p.lo = p.hi /\ log[p.lo].kind # "own"
      [] p.type = "updatesCombined" ->
             p.lo < p.hi /\ \A i \in p.lo .. p.hi : log[i].kind # "own"
      [] p.type = "userAction" -> p.lo = p.hi /\ log[p.lo].kind = "own"

Packages == {p \in [type : Types, lo : DOMAIN log, hi : DOMAIN log] : CanCarry(p)}

IsShort(p)     == p.type \in {"updateShortMessage", "updateShortChatMessage"}
IsContainer(p) == p.type \in {"updates", "updatesCombined"}
Events(p)      == IF p.type = "userAction" THEN {} ELSE p.lo .. p.hi
Holds(p, kind) == \E i \in Events(p) : log[i].kind = kind

-----------------------------------------------------------------------------
Init ==
    /\ log = <<>> /\ acked = 0
    /\ last = NoParams /\ updatesQueue = {} /\ waitTime = "zero"
    /\ difference = NoDifference /\ stateRpc = NoState /\ drain = NoDrain
    /\ storageQueue = <<>> /\ stored = {} /\ params = NoParams /\ lastSaved = NoParams
    /\ held = {} /\ apart = {}
    /\ base = 0 /\ lost = {} /\ crashes = 0 /\ errors = 0

(* stageQueue runs one runnable at a time: none starts inside the loop of  *)
(* processUpdatesQueue.                                                    *)
StageFree == ~drain.run /\ Len(storageQueue) <= MaxTasks

gettingDifference == difference.phase # "none"

(* The runnables that storing the messages of the events S, and then       *)
(* saving the counters l, post to the storage thread.                      *)
Task(op, S, l) == [op |-> op, events |-> S, params |-> l]
Put(S)  == IF S = {} THEN <<>> ELSE <<Task("put", S, NoParams)>>
Save(l) == <<Task("save", {}, l)>>

LoadCurrentState ==
    stateRpc' = IF stateRpc.phase = "none" THEN [stateRpc EXCEPT !.phase = "asked"]
                                           ELSE stateRpc

(* getDifference, called when the counters are l.                          *)
GetDifference_Never(l) == UNCHANGED <<difference, stateRpc>>
GetDifference(l) ==
    IF ~l.dated
    THEN LoadCurrentState /\ UNCHANGED difference
    ELSE /\ difference' = IF gettingDifference THEN difference ELSE Asked(l)
         /\ UNCHANGED stateRpc

NoRequest == UNCHANGED <<difference, stateRpc>>

(* Whether an update out of sequence is held back or refetched, and what   *)
(* holding it back does to the clock.                                      *)
MayWait == gettingDifference \/ waitTime # "expired"
StartWaiting_Never == waitTime' = waitTime
StartWaiting == waitTime' = IF waitTime = "zero" THEN "running" ELSE waitTime

-----------------------------------------------------------------------------
(* The server's side.                                                      *)

ServerEvent(kind) ==
    /\ Len(log) < MaxEvents
    /\ log' = Append(log,
           [kind |-> kind,
            pts  |-> PtsAt(Len(log)) + (IF kind = "enc" THEN 0 ELSE 1),
            qts  |-> QtsAt(Len(log)) + (IF kind = "enc" THEN 1 ELSE 0)])
    /\ UNCHANGED <<acked, client, storageQueue, disk, lastSaved, secrets,
                   base, lost, crashes, errors>>

(* The events up to the cut that a client at r has not seen; a secret      *)
(* message the client has acknowledged is no longer kept.                  *)
Missed(cut, r) ==
    {i \in 1 .. cut : IF log[i].kind = "enc"
                      THEN log[i].qts > r.qts /\ log[i].qts > acked
                      ELSE log[i].pts > r.pts}

Answered(kind, cut, S) ==
    [difference EXCEPT !.phase = "answered",
        !.answer = [kind |-> kind, events |-> S,
                    params |-> [seq |-> cut,
                                pts |-> Larger(PtsAt(cut), difference.pts),
                                qts |-> Larger(QtsAt(cut), difference.qts),
                                dated |-> TRUE]]]

ServerAnswersDifference ==
    /\ difference.phase = "asked"
    /\ \E cut \in 0 .. Len(log) :
         LET S == Missed(cut, difference) IN
         \/ cut = Len(log) /\ S = {} /\ difference' = Answered("empty", cut, S)
         \/ cut = Len(log) /\ S # {} /\ difference' = Answered("difference", cut, S)
         \/ cut < Len(log) /\ S # {} /\ difference' = Answered("slice", cut, S)
    /\ UNCHANGED <<server, last, updatesQueue, waitTime, stateRpc, drain,
                   storageQueue, disk, lastSaved, secrets, base, lost, crashes, errors>>

ServerAnswersState ==
    /\ stateRpc.phase = "asked"
    /\ stateRpc' = [phase |-> "answered",
                    params |-> [seq |-> Len(log), pts |-> PtsAt(Len(log)),
                                qts |-> QtsAt(Len(log)), dated |-> TRUE]]
    /\ UNCHANGED <<server, last, updatesQueue, waitTime, difference, drain,
                   storageQueue, disk, lastSaved, secrets, base, lost, crashes, errors>>

-----------------------------------------------------------------------------
(* processUpdates, for an update that comes from the network.              *)

(* The counters once p is applied.  TL_updateShortChatMessage is the one   *)
(* that leaves the date alone, and an own action taken from the queue      *)
(* brings its seq only.                                                    *)
Advanced(p) ==
    [seq   |-> p.hi,
     pts   |-> IF Holds(p, "msg") THEN log[p.hi].pts ELSE last.pts,
     qts   |-> IF Holds(p, "enc") THEN log[p.hi].qts ELSE last.qts,
     dated |-> last.dated \/ p.type = "updateShortMessage" \/ IsContainer(p)]

InSequence_Newer(p) == last.seq < p.lo
InSequence(p) == last.seq + 1 = p.lo \/ (IsContainer(p) /\ last.seq = p.lo)
Repeated(p)   == IsShort(p) /\ last.seq = p.hi
AcksQueue(p)  == IsContainer(p) /\ Advanced(p).qts # last.qts

(* A message from an unknown user or chat makes processUpdates give up on  *)
(* the update; a short one is looked at before its seq is.                 *)
MissingData(p) == MayMiss /\ Holds(p, "msg")

-----------------------------------------------------------------------------
(***************************************************************************)
(* decryptMessage, which each secret message of an update or a difference  *)
(* goes through.  It may bring the message and ones that waited for it; it *)
(* may hold it back in memory until the one before it comes; or it brings  *)
(* nothing: the number is past, no key fits, the chat is discarded (with   *)
(* all it held), the message is only an action.  The module SecretChat has *)
(* the numbers and the keys that decide; here any outcome is possible.     *)
(***************************************************************************)
Secret(E) == {i \in E : log[i].kind = "enc"}

(* What may come of the events E to be stored.                             *)
Storable(E) ==
    IF Secret(E) = {} THEN {E}
    ELSE {S \in SUBSET (E \cup held) : E \ Secret(E) \subseteq S}

(* S of it is to be stored.                                                *)
Decrypt(E, S) ==
    IF Secret(E) = {} THEN UNCHANGED secrets
    ELSE /\ held' \in SUBSET ((Secret(E) \cup held) \ S)
         /\ apart' = apart \cup (Secret(E) \ S)

(* A container is given up at a message m with missing data.  The secret   *)
(* messages before m have been through decryptMessage, and what that       *)
(* brought is forgotten.  The counters go back, so they come again, and    *)
(* decryptMessage may find their numbers past; messages that had waited    *)
(* for them do not.                                                        *)
GiveUp(p) ==
    \E m \in Events(p) :
        /\ log[m].kind = "msg"
        /\ LET E == Secret({i \in Events(p) : i < m}) IN
           IF E = {} THEN UNCHANGED secrets
           ELSE /\ held' \in SUBSET (E \cup held)
                /\ apart' = apart \cup held'

-----------------------------------------------------------------------------

Acknowledge_Early(yes, l) ==
    acked' = IF updatesQueue # {} \/ difference.phase = "answered"
             THEN Larger(acked, Larger(l.qts, difference.answer.params.qts)) ELSE acked
Acknowledge(yes, l) == acked' = IF yes THEN Larger(acked, l.qts) ELSE acked

(* The end of processUpdates: S is to be stored and the counters are l.    *)
Conclude(l, S, queue, needGetDiff, needReceivedQueue) ==
    /\ last' = l
    /\ updatesQueue' = queue
    /\ IF needGetDiff THEN GetDifference(l) ELSE NoRequest
    /\ IF ~needGetDiff /\ queue # {}
       THEN /\ drain' = [run |-> TRUE, any |-> FALSE, save |-> TRUE,
                         ack |-> needReceivedQueue]
            /\ storageQueue' = storageQueue \o Put(S)
            /\ UNCHANGED acked
       ELSE /\ Acknowledge(needReceivedQueue, l)
            /\ storageQueue' = storageQueue \o Put(S) \o Save(l)
            /\ UNCHANGED drain
    /\ UNCHANGED <<log, disk, lastSaved, base, lost, crashes, errors>>

Pushed(p) == p \in Packages /\ p.type # "userAction"

ReceiveInSequence(p) ==
    /\ StageFree /\ Pushed(p) /\ InSequence(p)
    /\ \E S \in Storable(Events(p)) :
         /\ Decrypt(Events(p), S)
         /\ Conclude(Advanced(p), S, updatesQueue, FALSE, AcksQueue(p))
    /\ UNCHANGED waitTime

ReceiveMissingData(p) ==
    /\ StageFree /\ Pushed(p) /\ MissingData(p)
    /\ IsShort(p) \/ InSequence(p)
    /\ GiveUp(p)
    /\ Conclude(last, {}, updatesQueue, TRUE, FALSE)
    /\ UNCHANGED waitTime

ReceiveRepeated(p) ==
    /\ StageFree /\ Pushed(p) /\ Repeated(p)
    /\ Conclude(last, {}, updatesQueue, FALSE, FALSE)
    /\ UNCHANGED <<waitTime, secrets>>

ReceiveOutOfSequence(p) ==
    /\ StageFree /\ Pushed(p) /\ ~InSequence(p) /\ ~Repeated(p)
    /\ \/ /\ MayWait
          /\ StartWaiting
          /\ Conclude(last, {}, updatesQueue \cup {p}, FALSE, FALSE)
       \/ /\ ~MayWait
          /\ Conclude(last, {}, updatesQueue, TRUE, FALSE)
          /\ UNCHANGED waitTime
    /\ UNCHANGED secrets

ReceiveTooLong ==
    /\ StageFree
    /\ Conclude(last, {}, updatesQueue, TRUE, FALSE)
    /\ UNCHANGED <<waitTime, secrets>>

(* TL_updateShort, and TL_updates with seq 0: status, typing and the like. *)
ReceiveUnnumbered ==
    /\ StageFree
    /\ \E dated \in {last.dated, TRUE} :
         Conclude([last EXCEPT !.dated = dated], {}, updatesQueue, FALSE, FALSE)
    /\ UNCHANGED <<waitTime, secrets>>

(* processNewDifferenceParams: the answer to a request of the client's own. *)
ReceiveOwnAnswer(p) ==
    /\ StageFree /\ p \in Packages /\ p.type = "userAction"
    /\ \/ /\ last.seq + 1 = p.hi
          /\ \E dated \in {last.dated, TRUE} :
               last' = [last EXCEPT !.seq = p.hi, !.pts = log[p.hi].pts, !.dated = dated]
          /\ storageQueue' = storageQueue \o Save(last')
          /\ NoRequest
          /\ UNCHANGED <<updatesQueue, waitTime>>
       \/ /\ last.seq + 1 # p.hi /\ last.seq # p.hi
          /\ \/ /\ MayWait /\ StartWaiting /\ NoRequest
                /\ updatesQueue' = updatesQueue \cup {p}
             \/ ~MayWait /\ GetDifference(last) /\ UNCHANGED <<updatesQueue, waitTime>>
          /\ UNCHANGED <<last, storageQueue>>
    /\ UNCHANGED <<server, drain, disk, lastSaved, secrets, base, lost, crashes, errors>>

-----------------------------------------------------------------------------
(* The loop of processUpdatesQueue.  It runs inside one runnable of        *)
(* stageQueue; its rounds are steps of their own because the storage       *)
(* thread and the death of the process do not wait for it.  The queue is   *)
(* sorted, so a round looks at one of the lowest seq.                      *)

First(p) == p \in updatesQueue /\ \A q \in updatesQueue : p.lo <= q.lo

(* processUpdatesQueue is entered with something to return to: a save.     *)
StartDrain(l) ==
    IF updatesQueue # {}
    THEN /\ drain' = [run |-> TRUE, any |-> FALSE, save |-> TRUE, ack |-> FALSE]
         /\ storageQueue' = storageQueue
    ELSE /\ storageQueue' = storageQueue \o Save(l)
         /\ UNCHANGED drain

(* What is left to do for the caller when the loop is over.                *)
Return ==
    /\ drain' = NoDrain
    /\ storageQueue' = storageQueue \o (IF drain.save THEN Save(last) ELSE <<>>)
    /\ Acknowledge(drain.ack, last)

(* processUpdates(p, true) ends with a save, and starts neither            *)
(* getDifference nor another loop: an update whose data is missing, or     *)
(* that repeats the last one, is only taken off the queue.                 *)
DrainApply(p) ==
    /\ drain.run /\ First(p) /\ p.lo \in {last.seq, last.seq + 1}
    /\ \/ /\ InSequence(p)
          /\ last' = Advanced(p)
          /\ \E S \in Storable(Events(p)) :
               /\ Decrypt(Events(p), S)
               /\ storageQueue' = storageQueue \o Put(S) \o Save(Advanced(p))
          /\ Acknowledge(AcksQueue(p), Advanced(p))
       \/ /\ \/ MissingData(p) /\ GiveUp(p)
             \/ Repeated(p) /\ UNCHANGED secrets
             \/ p.type = "userAction" /\ last.seq = p.hi /\ UNCHANGED secrets
          /\ storageQueue' = storageQueue \o Save(last)
          /\ UNCHANGED <<last, acked>>
    /\ updatesQueue' = updatesQueue \ {p}
    /\ drain' = [drain EXCEPT !.any = TRUE]
    /\ UNCHANGED <<log, waitTime, difference, stateRpc, disk, lastSaved,
                   base, lost, crashes, errors>>

DrainDrop(p) ==
    /\ drain.run /\ First(p) /\ p.lo < last.seq
    /\ updatesQueue' = updatesQueue \ {p}
    /\ UNCHANGED <<server, last, waitTime, difference, stateRpc, drain, storageQueue,
                   disk, lastSaved, secrets, base, lost, crashes, errors>>

DrainHole(p) ==
    /\ drain.run /\ First(p) /\ last.seq + 1 < p.lo
    /\ \/ /\ waitTime # "zero" /\ (drain.any \/ waitTime = "running")
          /\ waitTime' = IF drain.any THEN "running" ELSE waitTime
          /\ NoRequest
          /\ UNCHANGED updatesQueue
       \/ /\ ~(waitTime # "zero" /\ (drain.any \/ waitTime = "running"))
          /\ waitTime' = "zero" /\ updatesQueue' = {}
          /\ GetDifference(last)
    /\ Return
    /\ UNCHANGED <<log, last, disk, lastSaved, secrets, base, lost, crashes, errors>>

DrainEnd ==
    /\ drain.run /\ updatesQueue = {}
    /\ waitTime' = "zero"
    /\ Return
    /\ UNCHANGED <<log, last, updatesQueue, difference, stateRpc, disk, lastSaved,
                   secrets, base, lost, crashes, errors>>

(* updateTimerProc, once 1500 ms have passed since the clock was started.  *)
Expire ==
    /\ waitTime = "running"
    /\ waitTime' = "expired"
    /\ UNCHANGED <<server, last, updatesQueue, difference, stateRpc, drain,
                   storageQueue, disk, lastSaved, secrets, base, lost, crashes, errors>>

UpdateTimer ==
    /\ StageFree /\ waitTime = "expired"
    /\ IF updatesQueue # {}
       THEN drain' = [NoDrain EXCEPT !.run = TRUE] /\ UNCHANGED waitTime
       ELSE waitTime' = "zero" /\ UNCHANGED drain
    /\ UNCHANGED <<server, last, updatesQueue, difference, stateRpc,
                   storageQueue, disk, lastSaved, secrets, base, lost, crashes, errors>>

-----------------------------------------------------------------------------
(* getDifference and loadCurrentState.                                     *)

(* ConnectionsManager and MessagesStorage call getDifference for a new     *)
(* session and after a login.                                              *)
Reconnect ==
    /\ StageFree
    /\ GetDifference(last)
    /\ UNCHANGED <<server, last, updatesQueue, waitTime, drain, storageQueue,
                   disk, lastSaved, secrets, base, lost, crashes, errors>>

ReceiveDifference_NotPosted ==
    /\ StageFree /\ difference.phase = "answered"
    /\ difference' = [difference EXCEPT !.phase = "hop"]
    /\ UNCHANGED <<server, last, updatesQueue, waitTime, stateRpc, drain, storageQueue,
                   disk, lastSaved, secrets, base, lost, crashes, errors>>

(* The answer goes to the storage thread, which sets the ids of messages   *)
(* the client sent, and from there back to stageQueue.                     *)
ReceiveDifference ==
    /\ StageFree /\ difference.phase = "answered"
    /\ difference' = [difference EXCEPT !.phase = "hop"]
    /\ storageQueue' = Append(storageQueue, Task("hop", {}, NoParams))
    /\ UNCHANGED <<server, last, updatesQueue, waitTime, stateRpc, drain,
                   disk, lastSaved, secrets, base, lost, crashes, errors>>

ApplyDifference ==
    /\ StageFree /\ difference.phase = "ready"
    /\ \E S \in Storable(difference.answer.events) :
         LET res == difference.answer.params IN
         /\ Decrypt(difference.answer.events, S)
         /\ \/ /\ difference.answer.kind = "difference"
               /\ last' = res
               /\ difference' = NoDifference
               /\ IF updatesQueue # {}
                  THEN /\ drain' = [run |-> TRUE, any |-> FALSE, save |-> TRUE, ack |-> FALSE]
                       /\ storageQueue' = storageQueue \o Put(S)
                  ELSE /\ storageQueue' = storageQueue \o Put(S) \o Save(res)
                       /\ UNCHANGED drain
            \/ /\ difference.answer.kind = "slice"
               /\ last' = [res EXCEPT !.seq = last.seq]
               /\ difference' = Asked(res)
               /\ storageQueue' = storageQueue \o Put(S) \o Save(last')
               /\ UNCHANGED drain
            \/ /\ difference.answer.kind = "empty"
               /\ last' = [last EXCEPT !.seq = res.seq, !.dated = TRUE]
               /\ difference' = NoDifference
               /\ StartDrain(last')
    /\ UNCHANGED <<server, updatesQueue, waitTime, stateRpc, disk, lastSaved,
                   base, lost, crashes, errors>>

DifferenceFails ==
    /\ StageFree /\ difference.phase = "asked" /\ errors < MaxErrors
    /\ difference' = NoDifference
    /\ errors' = errors + 1
    /\ UNCHANGED <<server, last, updatesQueue, waitTime, stateRpc, drain,
                   storageQueue, disk, lastSaved, secrets, base, lost, crashes>>

(* processUpdatesQueue(2) starts from the first update held back, not from *)
(* the state: what is before it is left to the list of dialogs.            *)
ReceiveState ==
    /\ StageFree /\ stateRpc.phase = "answered"
    /\ stateRpc' = NoState
    /\ IF updatesQueue # {}
       THEN \E p \in updatesQueue :
              /\ First(p)
              /\ last' = [stateRpc.params EXCEPT !.seq = p.lo]
              /\ base' = Larger(base, Larger(stateRpc.params.seq, p.lo))
              /\ UNCHANGED waitTime
       ELSE /\ last' = stateRpc.params
            /\ base' = Larger(base, stateRpc.params.seq)
            /\ waitTime' = "zero"
    /\ StartDrain(last')
    /\ UNCHANGED <<server, updatesQueue, difference, disk, lastSaved, secrets,
                   lost, crashes, errors>>

(* Only error 401 ends the request: any other makes the client ask again.  *)
StateFails ==
    /\ StageFree /\ stateRpc.phase = "asked" /\ errors < MaxErrors
    /\ stateRpc' = NoState
    /\ errors' = errors + 1
    /\ UNCHANGED <<server, last, updatesQueue, waitTime, difference, drain,
                   storageQueue, disk, lastSaved, secrets, base, lost, crashes>>

-----------------------------------------------------------------------------
(* The storage thread, and the death of the process.                       *)

(* A save writes the counters it was posted with, not the current ones.    *)
Saved_Current(task) == last
Saved(task) == task.params

(* putMessagesInternal: the messages replace those with the same ids.      *)
Stored(task) == stored \cup task.events

StorageStep ==
    /\ storageQueue # <<>>
    /\ storageQueue' = Tail(storageQueue)
    /\ LET task == Head(storageQueue) IN
       \/ /\ task.op = "put"
          /\ stored' = Stored(task)
          /\ UNCHANGED <<params, lastSaved, difference>>
       \/ /\ task.op = "save"
          /\ params' = Saved(task)
          /\ lastSaved' = Saved(task)
          /\ UNCHANGED <<stored, difference>>
       \/ /\ task.op = "hop"
          /\ difference' = [difference EXCEPT !.phase = "ready"]
          /\ UNCHANGED <<stored, params, lastSaved>>
    /\ UNCHANGED <<server, last, updatesQueue, waitTime, stateRpc, drain,
                   secrets, base, lost, crashes, errors>>

(* saveDiffParams skips a save whose seq, pts and date are the last saved  *)
(* ones and whose qts is the current one.  Two dates that are both set may *)
(* differ, so the task may be skipped or executed.                         *)
StorageSkip ==
    /\ storageQueue # <<>>
    /\ Head(storageQueue).op = "save"
    /\ [Head(storageQueue).params EXCEPT !.qts = lastSaved.qts] = lastSaved
    /\ Head(storageQueue).params.qts = last.qts
    /\ storageQueue' = Tail(storageQueue)
    /\ UNCHANGED <<server, client, disk, lastSaved, secrets, base, lost, crashes, errors>>

(* A new process reads the params table, and not into lastSaved.           *)
Crash ==
    /\ crashes < MaxCrashes
    /\ crashes' = crashes + 1
    /\ last' = params /\ lastSaved' = NoParams
    /\ updatesQueue' = {} /\ waitTime' = "zero"
    /\ difference' = NoDifference /\ stateRpc' = NoState /\ drain' = NoDrain
    /\ storageQueue' = <<>>
    /\ held' = {}
    /\ lost' = lost \cup {i \in DOMAIN log : /\ log[i].kind = "enc"
                                            /\ log[i].qts <= acked
                                            /\ i \notin stored}
    /\ UNCHANGED <<server, disk, apart, base, errors>>

-----------------------------------------------------------------------------
StageStep ==
    \/ \E p \in Packages : \/ ReceiveInSequence(p)
                            \/ ReceiveMissingData(p)
                            \/ ReceiveRepeated(p)
                            \/ ReceiveOutOfSequence(p)
                            \/ ReceiveOwnAnswer(p)
    \/ ReceiveTooLong \/ ReceiveUnnumbered
    \/ UpdateTimer \/ Reconnect
    \/ ReceiveDifference \/ ApplyDifference \/ DifferenceFails
    \/ ReceiveState \/ StateFails

DrainStep ==
    \/ \E p \in updatesQueue : DrainApply(p) \/ DrainDrop(p) \/ DrainHole(p)
    \/ DrainEnd

Next ==
    \/ \E kind \in Kinds : ServerEvent(kind)
    \/ ServerAnswersDifference \/ ServerAnswersState
    \/ StageStep \/ DrainStep \/ Expire
    \/ StorageStep \/ StorageSkip \/ Crash

Spec == Init /\ [][Next]_vars

(***************************************************************************)
(* Fairness.  Each thread's Handler loop runs what is posted to it, the    *)
(* update timer is called again and again, and a request is sent until it  *)
(* is answered (RPCs without a failure flag are retried by                 *)
(* ConnectionsManager).  Nothing makes the server push, or anyone else     *)
(* call getDifference.                                                     *)
(***************************************************************************)
Fairness ==
    /\ WF_vars(StorageStep \/ StorageSkip)
    /\ WF_vars(DrainStep)
    /\ WF_vars(Expire) /\ SF_vars(UpdateTimer)
    /\ WF_vars(ServerAnswersDifference) /\ WF_vars(ServerAnswersState)
    /\ SF_vars(ReceiveDifference) /\ SF_vars(ApplyDifference) /\ SF_vars(ReceiveState)

FairSpec == Spec /\ Fairness

-----------------------------------------------------------------------------
Params == [seq : Nat, pts : Nat, qts : Nat, dated : BOOLEAN]
PackageSet == [type : Types, lo : Nat, hi : Nat]
AnswerSet == [kind : {"empty", "difference", "slice"}, events : SUBSET Nat, params : Params]
TaskSet == {t \in [op : {"put", "save", "hop"}, events : SUBSET Nat, params : Params] :
              t.op # "put" => t.events = {}}

(* The type of every variable, and that a package held back is one that    *)
(* the log's events can make up.                                           *)
TypeOK ==
    /\ log \in Seq([kind : Kinds, pts : Nat, qts : Nat])
    /\ acked \in Nat
    /\ last \in Params
    /\ updatesQueue \subseteq Packages
    /\ waitTime \in {"zero", "running", "expired"}
    /\ difference \in [phase : {"none", "asked", "answered", "hop", "ready"},
                       pts : Nat, qts : Nat, answer : AnswerSet]
    /\ stateRpc \in [phase : {"none", "asked", "answered"}, params : Params]
    /\ drain \in [run : BOOLEAN, any : BOOLEAN, save : BOOLEAN, ack : BOOLEAN]
    /\ storageQueue \in Seq(TaskSet)
    /\ stored \subseteq Nat
    /\ params \in Params /\ lastSaved \in Params
    /\ held \subseteq apart /\ apart \subseteq Nat
    /\ base \in Nat /\ lost \subseteq Nat
    /\ crashes \in Nat /\ errors \in Nat

(* The events whose messages the runnables of queue store, and those the   *)
(* runnables before the k-th store.                                        *)
PutsOf(queue)        == UNION {queue[j].events : j \in DOMAIN queue}
PutsBefore(queue, k) == UNION {queue[j].events : j \in 1 .. k - 1}

(* What is stored or on its way there, and the secret messages             *)
(* decryptMessage did not bring when it had them: what became of those is  *)
(* no longer a question of the counters.                                   *)
Handed == stored \cup PutsOf(storageQueue) \cup apart

(* The events whose messages a client with the counters l must have: it    *)
(* will not ask for them again.                                            *)
Reached(l, i) ==
    \/ log[i].kind # "own" /\ i <= l.seq
    \/ log[i].kind = "msg" /\ log[i].pts <= l.pts
    \/ log[i].kind = "enc" /\ log[i].qts <= l.qts

Needed(l) == {i \in DOMAIN log : i > base /\ i \notin lost /\ Reached(l, i)}

(* The counters in memory never get past an event whose message was not    *)
(* at least handed to the storage thread, or a secret one to               *)
(* decryptMessage: whatever is lost, repeated, reordered, refetched or     *)
(* given up on, no handler of processUpdates or getDifference skips it.    *)
(* (Secret messages that decryptMessage did not bring are in apart.)       *)
NoGap == Needed(last) \subseteq Handed

(* The counters in the database never get past an event whose message is   *)
(* not in the database: after a crash the difference is asked from a point *)
(* that misses nothing (putMessages is posted before saveDiffParams).      *)
(* Except for secret messages that decryptMessage held back in memory, or  *)
(* made nothing of (apart): the counters are saved without them.           *)
CrashSafe == Needed(params) \subseteq stored \cup apart

(* A secret message is acknowledged, and dropped by the server, only after *)
(* decryptMessage had it (needReceivedQueue).  What decryptMessage brought *)
(* is stored or on its way there, and only the death of the process can    *)
(* still take it; what decryptMessage held back in memory, or made nothing *)
(* of, is acknowledged all the same (apart).                               *)
Acknowledged == {i \in DOMAIN log : /\ log[i].kind = "enc" /\ log[i].qts <= acked
                                   /\ i > base /\ i \notin lost}
AckedIsHanded == Acknowledged \subseteq Handed

(* While an update is held back the clock runs: updateTimerProc looks at   *)
(* the queue only when updatesStartWaitTime is not zero.                   *)
HoleHasTimer == updatesQueue # {} => waitTime # "zero"

-----------------------------------------------------------------------------
(* The difference that is asked for is applied or given up, and the next   *)
(* one can be asked: gettingDifference does not stay set.                  *)
DifferenceEnds == gettingDifference ~> ~gettingDifference

(* A hole that is noticed while no difference is on its way is filled: the *)
(* counters reach the update that was held back.                           *)
HoleFilled ==
    \A n \in 1 .. MaxEvents :
        (~gettingDifference /\ last.dated /\ \E p \in updatesQueue : p.hi = n)
            ~> (last.seq >= n)

-----------------------------------------------------------------------------
(***************************************************************************)
(* The inductive invariant behind NoGap, CrashSafe and AckedIsHanded.      *)
(***************************************************************************)

(* An event that moves a counter is above zero and above every earlier     *)
(* event on it.                                                            *)
LogOrdered ==
    \A j \in DOMAIN log :
        /\ IF log[j].kind = "enc" THEN log[j].qts > 0 ELSE log[j].pts > 0
        /\ \A i \in 1 .. j - 1 :
              /\ log[i].pts <= log[j].pts /\ log[i].qts <= log[j].qts
              /\ log[j].kind # "enc" => log[i].pts < log[j].pts
              /\ log[j].kind = "enc" => log[i].qts < log[j].qts

(* No counter is ahead of the server's.                                    *)
Known(l) == l.seq <= Len(log) /\ l.pts <= PtsAt(Len(log)) /\ l.qts <= QtsAt(Len(log))

CountersKnown ==
    /\ Known(last) /\ Known(params)
    /\ Known(difference.answer.params) /\ Known(stateRpc.params)
    /\ difference.pts <= PtsAt(Len(log)) /\ difference.qts <= QtsAt(Len(log))
    /\ acked <= QtsAt(Len(log))
    /\ \A k \in DOMAIN storageQueue : Known(storageQueue[k].params)

(* By the time a save is executed, the puts before it have been; only      *)
(* secret messages it needs may be in none of them.                        *)
SavesCovered ==
    \A k \in DOMAIN storageQueue :
        storageQueue[k].op = "save" =>
            Needed(storageQueue[k].params)
                \subseteq stored \cup apart \cup PutsBefore(storageQueue, k)

(* A difference is asked from counters that miss nothing, and its answer   *)
(* brings everything up to the counters it sets.  Without a request, or    *)
(* without an answer, the counters are zero and need nothing.              *)
Request == [seq |-> 0, pts |-> difference.pts, qts |-> difference.qts, dated |-> TRUE]
DifferenceCovered ==
    /\ Needed(Request) \subseteq Handed
    /\ Needed(difference.answer.params) \subseteq Handed \cup difference.answer.events
    /\ difference.answer.kind = "empty" => difference.answer.events = {}

(* The state the server sends reaches no event that is not in it.          *)
StateFresh ==
    stateRpc.phase = "answered" =>
        \A i \in DOMAIN log : i > stateRpc.params.seq => ~Reached(stateRpc.params, i)

Inductive ==
    /\ TypeOK /\ LogOrdered /\ CountersKnown
    /\ NoGap /\ CrashSafe /\ AckedIsHanded
    /\ SavesCovered /\ DifferenceCovered /\ StateFresh

=============================================================================
