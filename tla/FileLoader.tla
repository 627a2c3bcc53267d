----------------------------- MODULE FileLoader -----------------------------
(***************************************************************************)
(* How FileLoader keeps the downloads of one kind (photos, audio, or the   *)
(* rest: the code is the same three times, with a queue and a count each). *)
(*                                                                         *)
(* Everything here runs on fileLoaderQueue, one runnable at a time, except *)
(* that an operation works and ends on stageQueue.  An operation is        *)
(* modelled by how it starts and ends, which module FileLoadOperation      *)
(* shows in detail: a failing operation may report that several times, and *)
(* never finishes after it.                                                *)
(*                                                                         *)
(* A name with an underscore is a wrong variant of the definition after    *)
(* it: with it in place a property must fail.                              *)
(***************************************************************************)
EXTENDS Integers, Sequences, FiniteSets, SequencesExt, Lists

CONSTANTS
    Names,       \* the file names
    MaxForced,   \* how many operations may work when another that is forced starts: 3
    MaxOps,      \* how many operations are made
    MaxPosted,   \* how many ends wait to be handled by fileLoaderQueue at once
    MaxRepeats   \* how many failures are reported by operations that have reported one
                 \* before (each of its three requests may fail)

FileLoaderAssumption == {MaxForced, MaxOps, MaxPosted, MaxRepeats} \subseteq Nat /\ MaxForced >= 1

VARIABLES
    ops,       \* the operations made so far: name, state, isForceRequest, a failure was reported
    paths,     \* loadOperationPaths: of each name its operation, or None
    queue,     \* the queue of operations
    count,     \* the current...LoadOperationsCount
    cancels,   \* the operations whose cancel() is posted to stageQueue
    checks,    \* the names whose checkDownloadQueue is posted to fileLoaderQueue
    unstarted, \* history: the end of an operation that never started was counted
    twice,     \* history: an operation has reported a second end
    hasty,     \* history: a file was asked for while the end of an operation of that name
               \* was not yet handled
    repeats    \* how many failures were reported after another one of the operation

vars == <<ops, paths, queue, count, cancels, checks, unstarted, twice, hasty, repeats>>

None == 0

Ids == DOMAIN ops

Operation(name, state) == [name |-> name, state |-> state, force |-> FALSE, failed |-> FALSE]

Init ==
    /\ ops = <<>>
    /\ paths = [n \in Names |-> None]
    /\ queue = <<>> /\ count = 0
    /\ cancels = {} /\ checks = <<>>
    /\ unstarted = FALSE /\ twice = FALSE /\ hasty = FALSE /\ repeats = 0

MaxCount(force) == IF force THEN MaxForced ELSE 1

(* An operation that works and has reported nothing.                       *)
Working(o) == ops[o].state = "downloading" /\ ~ops[o].failed

(* The end of an operation named n is on its way.                          *)
Ending(n) ==
    \/ \E o \in cancels : ops[o].name = n
    \/ n \in ToSet(checks)

-----------------------------------------------------------------------------
(* loadFile of a file that is asked for already: if it waits and is forced *)
(* now, it moves to the front.                                             *)
LoadAgain(n) ==
    LET o == paths[n] IN
    /\ o # None /\ o \in ToSet(queue)
    /\ queue' = <<o>> \o Removed(queue, o)
    /\ ops' = [ops EXCEPT ![o].force = TRUE]
    /\ UNCHANGED <<paths, count, cancels, checks, unstarted, twice, hasty, repeats>>

(* loadFile of another file.  A forced one that has to wait goes to the    *)
(* front, but is not marked as forced.                                     *)
LoadFile_NotCounted(n, force) ==
    LET o == Len(ops) + 1 IN
    /\ paths[n] = None /\ o <= MaxOps
    /\ paths' = [paths EXCEPT ![n] = o]
    /\ IF count < MaxCount(force)
       THEN /\ ops' = Append(ops, Operation(n, "downloading"))
            /\ count' = count /\ queue' = queue
       ELSE /\ ops' = Append(ops, Operation(n, "idle"))
            /\ queue' = IF force THEN <<o>> \o queue ELSE Append(queue, o)
            /\ count' = count
    /\ hasty' = (hasty \/ Ending(n))
    /\ UNCHANGED <<cancels, checks, unstarted, twice, repeats>>

LoadFile(n, force) ==
    LET o == Len(ops) + 1 IN
    /\ paths[n] = None /\ o <= MaxOps
    /\ paths' = [paths EXCEPT ![n] = o]
    /\ IF count < MaxCount(force)
       THEN /\ ops' = Append(ops, Operation(n, "downloading"))
            /\ count' = count + 1 /\ queue' = queue
       ELSE /\ ops' = Append(ops, Operation(n, "idle"))
            /\ queue' = IF force THEN <<o>> \o queue ELSE Append(queue, o)
            /\ count' = count
    /\ hasty' = (hasty \/ Ending(n))
    /\ UNCHANGED <<cancels, checks, unstarted, twice, repeats>>

(* cancelLoadFile.                                                         *)
CancelLoadFile_StaysQueued(n) ==
    LET o == paths[n] IN
    /\ o # None
    /\ paths' = [paths EXCEPT ![n] = None]
    /\ cancels' = cancels \cup {o}
    /\ UNCHANGED <<ops, queue, count, checks, unstarted, twice, hasty, repeats>>

CancelLoadFile(n) ==
    LET o == paths[n] IN
    /\ o # None
    /\ paths' = [paths EXCEPT ![n] = None]
    /\ queue' = Removed(queue, o)
    /\ cancels' = cancels \cup {o}
    /\ UNCHANGED <<ops, count, checks, unstarted, twice, hasty, repeats>>

(* start(), which does nothing unless the operation is idle.               *)
StartOperation(o) ==
    [ops EXCEPT ![o].state = IF @ = "idle" THEN "downloading" ELSE @]

(* checkDownloadQueue: the name is forgotten, whichever operation has it   *)
(* now, and at most one of the waiting operations starts.                  *)
CheckDownloadQueue_CountsLate ==
    /\ checks # <<>> /\ checks' = Tail(checks)
    /\ paths' = [paths EXCEPT ![Head(checks)] = None]
    /\ IF queue # <<>> /\ count < MaxCount(ops[Head(queue)].force)
       THEN /\ ops' = StartOperation(Head(queue))
            /\ queue' = Tail(queue) /\ count' = count
       ELSE /\ count' = count - 1
            /\ UNCHANGED <<ops, queue>>
    /\ UNCHANGED <<cancels, unstarted, twice, hasty, repeats>>

CheckDownloadQueue ==
    /\ checks # <<>> /\ checks' = Tail(checks)
    /\ paths' = [paths EXCEPT ![Head(checks)] = None]
    /\ IF queue # <<>> /\ count - 1 < MaxCount(ops[Head(queue)].force)
       THEN /\ ops' = StartOperation(Head(queue))
            /\ queue' = Tail(queue) /\ count' = count
       ELSE /\ count' = count - 1
            /\ UNCHANGED <<ops, queue>>
    /\ UNCHANGED <<cancels, unstarted, twice, hasty, repeats>>

-----------------------------------------------------------------------------
(* On stageQueue: an operation is cancelled, finishes or fails, and posts  *)
(* checkDownloadQueue each time.                                           *)
Cancelled(o) ==
    /\ Len(checks) < MaxPosted
    /\ o \in cancels /\ cancels' = cancels \ {o}
    /\ IF ops[o].state = "over"
       THEN UNCHANGED <<ops, checks, unstarted, twice, repeats>>
       ELSE /\ ops' = [ops EXCEPT ![o].state = "over"]
            /\ checks' = Append(checks, ops[o].name)
            /\ unstarted' = (unstarted \/ ops[o].state = "idle")
            /\ twice' = (twice \/ ops[o].failed)
    /\ UNCHANGED <<paths, queue, count, hasty, repeats>>

Finish(o) ==
    /\ Working(o) /\ Len(checks) < MaxPosted
    /\ ops' = [ops EXCEPT ![o].state = "over"]
    /\ checks' = Append(checks, ops[o].name)
    /\ UNCHANGED <<paths, queue, count, cancels, unstarted, twice, hasty, repeats>>

Fail(o) ==
    /\ ops[o].state = "downloading" /\ Len(checks) < MaxPosted
    /\ ops[o].failed => repeats < MaxRepeats
    /\ repeats' = IF ops[o].failed THEN repeats + 1 ELSE repeats
    /\ ops' = [ops EXCEPT ![o].failed = TRUE]
    /\ checks' = Append(checks, ops[o].name)
    /\ twice' = (twice \/ ops[o].failed)
    /\ UNCHANGED <<paths, queue, count, cancels, unstarted, hasty>>

-----------------------------------------------------------------------------
Next ==
    \/ \E n \in Names :
         \/ LoadAgain(n) \/ CancelLoadFile(n)
         \/ \E force \in BOOLEAN : LoadFile(n, force)
    \/ CheckDownloadQueue
    \/ \E o \in Ids : Cancelled(o) \/ Finish(o) \/ Fail(o)

Spec == Init /\ [][Next]_vars

Ended(o) == o \in Ids /\ Cancelled(o)
Works(o) == o \in Ids /\ Working(o) /\ (Finish(o) \/ Fail(o))

(* The two queues run what is posted to them, and an operation that works  *)
(* comes to an end.                                                        *)
FairSpec ==
    /\ Spec
    /\ WF_vars(CheckDownloadQueue)
    /\ \A o \in 1..MaxOps :
         WF_vars(Ended(o)) /\ WF_vars(Works(o))

-----------------------------------------------------------------------------
Started == {o \in Ids : Working(o)}

(* The count is the number of operations that work or whose end is not yet *)
(* handled, and so not more than MaxForced work at once.  Left out: the end*)
(* of an operation that is cancelled while it waits, and the second end    *)
(* that an operation reports, are counted too, and then more of them work. *)
CountIsRight ==
    ~unstarted /\ ~twice =>
        count = Cardinality(Started) + Len(checks) /\ Cardinality(Started) <= MaxForced

(* An operation that works or waits is the one that its name is known to   *)
(* have: it can be cancelled, and no other downloads the same file.  Left  *)
(* out: a file asked for again before the end of its cancelled operation   *)
(* was handled, or before the second end of one that failed, which makes   *)
(* the new operation be forgotten.                                         *)
Findable ==
    ~hasty /\ ~twice => \A o \in Ids :
       (Working(o) \/ o \in ToSet(queue)) /\ o \notin cancels => paths[ops[o].name] = o

=============================================================================
