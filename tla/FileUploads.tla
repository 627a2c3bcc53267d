---------------------------- MODULE FileUploads ----------------------------
(***************************************************************************)
(* How FileLoader keeps the uploads of one kind (small files, or the rest: *)
(* the code is the same twice): one works, the others wait.                *)
(*                                                                         *)
(* Everything here runs on fileLoaderQueue, one runnable at a time, except *)
(* that an operation finishes and fails on stageQueue.  An operation is    *)
(* modelled by how it starts and ends; module FileUploadOperation has the  *)
(* rest: it may fail and be cancelled after that, and it may finish after  *)
(* it was cancelled, when an answer was being handled.                     *)
(*                                                                         *)
(* A name with an underscore is a wrong variant of the definition after    *)
(* it: with it in place a property must fail.                              *)
(***************************************************************************)
EXTENDS Integers, Sequences, FiniteSets, SequencesExt, Lists

CONSTANTS
    Names,     \* the files
    MaxOps     \* how many operations are made

FileUploadsAssumption == MaxOps \in Nat

VARIABLES
    ops,       \* the operations made so far: the file, the state, whether a failure was reported
    paths,     \* uploadOperationPaths: of each file its operation, or None
    queue,     \* uploadOperationQueue
    count,     \* currentUploadOperationsCount
    ends,      \* the files whose end is posted to fileLoaderQueue
    twice,     \* history: an operation has reported a second end
    stuck      \* history: the files whose upload was cancelled while it waited

vars == <<ops, paths, queue, count, ends, twice, stuck>>

None == 0
Ids == DOMAIN ops

Init ==
    /\ ops = <<>> /\ paths = [n \in Names |-> None]
    /\ queue = <<>> /\ count = 0 /\ ends = <<>>
    /\ twice = FALSE /\ stuck = {}

(* An operation that works and has reported nothing.                       *)
Working(o) == ops[o].state = "uploading" /\ ~ops[o].failed
Reported(o) == ops[o].state = "over" \/ ops[o].failed

-----------------------------------------------------------------------------
(* uploadFile.                                                             *)
Operation(n, state) == [name |-> n, state |-> state, failed |-> FALSE]

UploadFile(n) ==
    LET o == Len(ops) + 1 IN
    /\ paths[n] = None /\ o <= MaxOps
    /\ paths' = [paths EXCEPT ![n] = o]
    /\ IF count < 1
       THEN ops' = Append(ops, Operation(n, "uploading")) /\ count' = count + 1 /\ queue' = queue
       ELSE ops' = Append(ops, Operation(n, "idle")) /\ queue' = Append(queue, o) /\ count' = count
    /\ UNCHANGED <<ends, twice, stuck>>

(* cancelUploadFile: the operation reports its end, if it works.  One that *)
(* waits does not, and keeps its name.                                     *)
CancelUploadFile(n) ==
    LET o == paths[n] IN
    /\ o # None
    /\ queue' = Removed(queue, o)
    /\ IF ops[o].state = "uploading"
       THEN /\ ops' = [ops EXCEPT ![o].state = "over"] /\ ends' = Append(ends, n)
            /\ twice' = (twice \/ Reported(o)) /\ stuck' = stuck
       ELSE /\ stuck' = IF ops[o].state = "idle" THEN stuck \cup {n} ELSE stuck
            /\ UNCHANGED <<ops, ends, twice>>
    /\ UNCHANGED <<paths, count>>

-----------------------------------------------------------------------------
(* On stageQueue: the operation finishes, also when it was just cancelled, *)
(* or fails; its state stays what it was then.                             *)
Finish(o) ==
    /\ ops[o].state = "uploading" /\ ~ops[o].failed
    /\ ops' = [ops EXCEPT ![o].state = "over"]
    /\ ends' = Append(ends, ops[o].name) /\ UNCHANGED <<paths, queue, count, twice, stuck>>

FinishCancelled(o) ==
    /\ ops[o].state = "over" /\ ~twice
    /\ ends' = Append(ends, ops[o].name) /\ twice' = TRUE
    /\ UNCHANGED <<ops, paths, queue, count, stuck>>

Fail(o) ==
    /\ Working(o)
    /\ ops' = [ops EXCEPT ![o].failed = TRUE]
    /\ ends' = Append(ends, ops[o].name) /\ UNCHANGED <<paths, queue, count, twice, stuck>>

(* didFinishUploadingFile and didFailedUploadingFile, on fileLoaderQueue:  *)
(* the name is free again, and the first of those that wait starts.        *)
End_KeepsName ==
    /\ ends # <<>> /\ ends' = Tail(ends)
    /\ IF count - 1 < 1 /\ queue # <<>>
       THEN /\ ops' = [ops EXCEPT ![Head(queue)].state = "uploading"]
            /\ queue' = Tail(queue) /\ count' = count
       ELSE count' = count - 1 /\ UNCHANGED <<ops, queue>>
    /\ UNCHANGED <<paths, twice, stuck>>

End ==
    /\ ends # <<>> /\ ends' = Tail(ends)
    /\ paths' = [paths EXCEPT ![Head(ends)] = None]
    /\ IF count - 1 < 1 /\ queue # <<>>
       THEN /\ ops' = [ops EXCEPT ![Head(queue)].state = "uploading"]
            /\ queue' = Tail(queue) /\ count' = count
       ELSE count' = count - 1 /\ UNCHANGED <<ops, queue>>
    /\ UNCHANGED <<twice, stuck>>

-----------------------------------------------------------------------------
Next ==
    \/ \E n \in Names : UploadFile(n) \/ CancelUploadFile(n)
    \/ \E o \in Ids : Finish(o) \/ FinishCancelled(o) \/ Fail(o)
    \/ End

Spec == Init /\ [][Next]_vars

Works(o) == o \in Ids /\ (Finish(o) \/ Fail(o))

(* The queues run what is posted, and an upload that works ends.           *)
FairSpec ==
    /\ Spec /\ WF_vars(End)
    /\ \A o \in 1..MaxOps : WF_vars(Works(o))

-----------------------------------------------------------------------------
(* One upload works at a time, and the count says whether one works or its *)
(* end is not yet handled.  Left out: two ends of one operation count      *)
(* down twice, and then two uploads work at once.                          *)
OneAtATime ==
    ~twice => LET working == Cardinality({o \in Ids : Working(o)})
              IN  working + Len(ends) = count /\ count <= 1

(* A file whose name is taken is being uploaded, waits, or its end is      *)
(* about to be handled: it can be uploaded again.  Left out: an upload     *)
(* that is cancelled while it waits keeps the name for good; and the       *)
(* second end of an operation frees the name of the next one.              *)
NamesAreFreed ==
    ~twice => \A n \in Names \ stuck :
       /\ paths[n] # None => \/ Working(paths[n]) \/ paths[n] \in ToSet(queue)
                             \/ n \in ToSet(ends)
       /\ \A o \in Ids : ops[o].name = n /\ Working(o) => paths[n] = o

=============================================================================
