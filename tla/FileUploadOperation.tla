------------------------ MODULE FileUploadOperation ------------------------
(***************************************************************************)
(* The upload of one file, as FileUploadOperation does it: part after      *)
(* part, each sent when the one before is confirmed.  What was confirmed   *)
(* is noted from time to time, and an upload that was broken off goes on   *)
(* from there.  A video may be uploaded while it is being written: then    *)
(* its size is only estimated.                                             *)
(*                                                                         *)
(* A file is a sequence of units; a part is known by the place it was read *)
(* from and, in an encrypted file, by the number of parts that its iv has  *)
(* seen.  The runnables of stageQueue run one at a time, but start() and   *)
(* cancel() are called by fileLoaderQueue and come between any two steps.  *)
(*                                                                         *)
(* A name with an underscore is a wrong variant of the definition after    *)
(* it: with it in place a property must fail.                              *)
(***************************************************************************)
EXTENDS Integers, Sequences

CONSTANTS
    Sizes,       \* the sizes of files
    Chunk,       \* uploadChunkSize
    SaveEvery,   \* of a small file every so many parts are noted: 4
    SaveUnits,   \* of a big file the multiples of so many units: 1024 * 1024
    MaxPosted,   \* how many runnables wait on stageQueue
    MaxErrors,   \* how many requests fail
    MaxDeaths    \* how often the process dies

FileUploadOperationAssumption ==
    /\ Sizes \subseteq Nat \ {0}
    /\ {Chunk, SaveEvery, SaveUnits} \subseteq Nat \ {0}
    /\ {MaxPosted, MaxErrors, MaxDeaths} \subseteq Nat

VARIABLES
    file,      \* its size when it is complete, whether it is big, whether it is encrypted
    length,    \* how much of it is written
    told,      \* the final size was passed on (or was known from the beginning)
    op,        \* the operation
    posted,    \* its runnables on stageQueue
    handling,  \* startUploadRequest has looked at the state and goes on
    requests,  \* the parts on their way
    saved,     \* the preferences of this file: id (0 when there are none), uploaded, ivChange
    server,    \* the parts that the server has
    reports,   \* what the delegate was told
    ids,       \* how many ids (with their keys) were drawn
    errors, deaths,    \* how often each has happened
    strayed    \* history: news of data set off a part while another was on its way, or after
               \* a failure; or a part was made of nothing

vars == <<file, length, told, op, posted, handling, requests, saved, server, reports, ids,
          errors, deaths, strayed>>

Nothing == [id |-> 0, uploaded |-> 0, iv |-> 0]

Fresh(estimated) ==
    [state |-> 0, estimated |-> estimated, open |-> FALSE, id |-> 0, part |-> 0, uploaded |-> 0,
     iv |-> 0, last |-> FALSE, times |-> 0, token |-> FALSE]

Init ==
    /\ file \in [size : Sizes, big : BOOLEAN, key : BOOLEAN]
    /\ told \in BOOLEAN /\ length = (IF told THEN file.size ELSE 0)
    /\ op = Fresh(~told) /\ posted = <<>> /\ handling = FALSE
    /\ requests = {} /\ saved = Nothing /\ server = {} /\ reports = <<>>
    /\ ids = 0 /\ errors = 0 /\ deaths = 0 /\ strayed = FALSE

TotalParts == (file.size + Chunk - 1) \div Chunk

-----------------------------------------------------------------------------
(* startUploadRequest: the first call opens the file and goes on from what *)
(* was noted.  Notes that are too old leave the id and the key.            *)
Opened(o, expired) ==
    IF o.estimated \/ saved.id = 0 \/ (saved.uploaded = 0 /\ ~expired)
    THEN [o EXCEPT !.open = TRUE, !.id = ids + 1]
    ELSE [o EXCEPT !.open = TRUE, !.id = saved.id,
                   !.uploaded = IF expired THEN 0 ELSE saved.uploaded,
                   !.part = IF expired THEN 0 ELSE saved.uploaded \div Chunk,
                   !.iv = IF expired \/ ~file.key THEN 0
                          ELSE IF file.big THEN saved.iv ELSE saved.uploaded \div Chunk]

Read(o) == IF o.uploaded + Chunk <= length THEN Chunk ELSE length - o.uploaded

(* A later call notes what was sent so far.  Notes that cancel() has       *)
(* removed do not come back: they would lack the size.                     *)
Due(o) == IF file.big THEN o.uploaded % SaveUnits = 0 ELSE o.times % SaveEvery = 0
Noted_Ahead(o, notes) ==
    IF ~o.estimated /\ Due(o) /\ notes.id # 0
    THEN [notes EXCEPT !.uploaded = o.uploaded + Read(o), !.iv = o.iv] ELSE notes
Noted(o, notes) ==
    IF ~o.estimated /\ Due(o) /\ notes.id # 0
    THEN [notes EXCEPT !.uploaded = o.uploaded, !.iv = o.iv] ELSE notes

StartUploadRequest(o, notes) ==
    /\ handling' = (o.state = 1)
    /\ IF o.state # 1
       THEN op' = o /\ saved' = notes /\ UNCHANGED <<ids, strayed>>
       ELSE /\ strayed' = (strayed \/ requests' # {} \/ reports # <<>>)
            /\ IF o.open
               THEN /\ op' = IF o.estimated THEN o ELSE [o EXCEPT !.times = (@ % SaveEvery) + 1]
                    /\ saved' = Noted(o, notes) /\ ids' = ids
               ELSE /\ \E expired \in BOOLEAN : op' = Opened(o, expired)
                    /\ IF op'.id = ids + 1
                       THEN /\ ids' = ids + 1
                            /\ saved' = IF o.estimated THEN notes ELSE [Nothing EXCEPT !.id = ids + 1]
                       ELSE ids' = ids /\ saved' = notes

(* ... and goes on: it waits for a whole part while the size is only       *)
(* estimated, else reads a part and sends it.                              *)
WaitForData ==
    /\ handling /\ handling' = FALSE
    /\ op.estimated /\ op.uploaded + Chunk > length
    /\ UNCHANGED <<file, length, told, op, posted, requests, saved, server, reports, ids, errors,
                   deaths, strayed>>

IsLast(o) == Read(o) # Chunk \/ (~o.estimated /\ TotalParts = o.part + 1)

SendPart ==
    /\ handling /\ handling' = FALSE
    /\ op.estimated => op.uploaded + Chunk <= length
    /\ Read(op) > 0
    /\ requests' = requests \cup {[id |-> op.id, part |-> op.part, from |-> op.uploaded, iv |-> op.iv]}
    /\ op' = [op EXCEPT !.uploaded = @ + Read(op), !.iv = IF file.key THEN @ + 1 ELSE 0,
                        !.last = (@ \/ IsLast(op)), !.token = TRUE]
    /\ UNCHANGED <<file, length, told, posted, saved, server, reports, ids, errors, deaths, strayed>>

(* The size became known when the last whole part had been sent: read is   *)
(* -1.  There is no buffer of that length, which is an exception; but in   *)
(* an encrypted file the padding makes 16 bytes of it, and a part of       *)
(* nothing is sent.                                                        *)
ReadFails ==
    /\ handling /\ handling' = FALSE
    /\ ~op.estimated /\ Read(op) <= 0 /\ ~file.key
    /\ op' = [op EXCEPT !.last = TRUE]
    /\ reports' = Append(reports, "failed") /\ saved' = Nothing
    /\ UNCHANGED <<file, length, told, posted, requests, server, ids, errors, deaths, strayed>>

SendPadding ==
    /\ handling /\ handling' = FALSE
    /\ ~op.estimated /\ Read(op) <= 0 /\ file.key
    /\ requests' = requests \cup {[id |-> op.id, part |-> op.part, from |-> op.uploaded, iv |-> op.iv]}
    /\ op' = [op EXCEPT !.iv = @ + 1, !.last = TRUE, !.token = TRUE]
    /\ strayed' = TRUE
    /\ UNCHANGED <<file, length, told, posted, saved, server, reports, ids, errors, deaths>>

-----------------------------------------------------------------------------
(* The answer to a part.  The server puts a part in the place of one with  *)
(* its number.                                                             *)
Holds(parts, got) == {p \in parts : \A r \in got : p.id # r.id \/ p.part # r.part} \cup got

Confirmed(r) ==
    [op EXCEPT !.token = FALSE, !.part = @ + 1, !.state = IF op.last THEN 3 ELSE @]

AnswerOk(r) ==
    /\ ~handling /\ r \in requests /\ requests' = requests \ {r}
    /\ server' = Holds(server, {r})
    /\ IF op.last
       THEN /\ op' = Confirmed(r) /\ saved' = Nothing
            /\ reports' = Append(reports, "finished")
            /\ UNCHANGED <<handling, ids, strayed>>
       ELSE StartUploadRequest(Confirmed(r), saved) /\ UNCHANGED reports
    /\ UNCHANGED <<file, length, told, posted, errors, deaths>>

(* The state stays what it was.                                            *)
AnswerFails(r) ==
    /\ ~handling /\ r \in requests /\ requests' = requests \ {r}
    /\ errors < MaxErrors /\ errors' = errors + 1
    /\ op' = [op EXCEPT !.token = FALSE]
    /\ reports' = Append(reports, "failed") /\ saved' = Nothing
    /\ UNCHANGED <<file, length, told, posted, handling, server, ids, deaths, strayed>>

-----------------------------------------------------------------------------
(* The runnables that are posted to stageQueue.                            *)
RunStart ==
    /\ ~handling /\ posted # <<>> /\ Head(posted) = "start" /\ posted' = Tail(posted)
    /\ UNCHANGED <<file, length, told, requests, server, reports, errors, deaths>>
    /\ StartUploadRequest(op, saved)

(* checkNewDataAvailable.  With the final size the notes are made anew, if *)
(* the file is open.                                                       *)
Sized(o) == [o EXCEPT !.estimated = FALSE]

RunData ==
    /\ ~handling /\ posted # <<>> /\ Head(posted) \in {"data", "final"} /\ posted' = Tail(posted)
    /\ UNCHANGED <<file, length, told, requests, server, reports, errors, deaths>>
    /\ LET final == Head(posted) = "final" /\ op.estimated
           o == IF final THEN Sized(op) ELSE op
           notes == IF final /\ op.open THEN [id |-> op.id, uploaded |-> 0, iv |-> op.iv] ELSE saved
       IN  IF op.token
           THEN op' = o /\ saved' = notes /\ UNCHANGED <<handling, ids, strayed>>
           ELSE StartUploadRequest(o, notes)

-----------------------------------------------------------------------------
(* On fileLoaderQueue.                                                     *)
Start ==
    /\ op.state = 0 /\ Len(posted) < MaxPosted
    /\ op' = [op EXCEPT !.state = 1] /\ posted' = Append(posted, "start")
    /\ UNCHANGED <<file, length, told, handling, requests, saved, server, reports, ids, errors,
                   deaths, strayed>>

Cancel ==
    /\ op.state = 1 /\ op' = [op EXCEPT !.state = 2]
    /\ reports' = Append(reports, "cancelled") /\ saved' = Nothing
    /\ UNCHANGED <<file, length, told, posted, handling, requests, server, ids, errors, deaths, strayed>>

(* The video grows, or is complete; the operation is told.                 *)
Write ==
    /\ ~told /\ Len(posted) < MaxPosted
    /\ \/ /\ length' \in length + 1..file.size - 1 /\ posted' = Append(posted, "data")
          /\ told' = FALSE
       \/ /\ length' = file.size /\ posted' = Append(posted, "final") /\ told' = TRUE
    /\ UNCHANGED <<file, op, handling, requests, saved, server, reports, ids, errors, deaths, strayed>>

(* The process dies, with parts on their way that the server may get (of   *)
(* two with the same number it keeps the later); the complete file is      *)
(* uploaded again.                                                         *)
Die ==
    /\ deaths < MaxDeaths /\ deaths' = deaths + 1 /\ told
    /\ op' = Fresh(FALSE) /\ posted' = <<>> /\ handling' = FALSE /\ requests' = {}
    /\ \E got \in SUBSET requests :
         /\ \A p, r \in got : p.id = r.id /\ p.part = r.part => p = r
         /\ server' = Holds(server, got)
    /\ reports' = <<>>
    /\ UNCHANGED <<file, length, told, saved, ids, errors, strayed>>

-----------------------------------------------------------------------------
Next ==
    \/ WaitForData \/ SendPart \/ ReadFails \/ SendPadding
    \/ \E r \in requests : AnswerOk(r) \/ AnswerFails(r)
    \/ RunStart \/ RunData
    \/ Start \/ Cancel \/ Write \/ Die

Spec == Init /\ [][Next]_vars

Goes     == WaitForData \/ SendPart \/ ReadFails \/ SendPadding
Runs     == RunStart \/ RunData
Answered == op.state = 1 /\ \E r \in requests : AnswerOk(r) \/ AnswerFails(r)

(* stageQueue runs what it is given, requests are answered while the       *)
(* upload is not cancelled, and the video gets complete.                   *)
FairSpec ==
    /\ Spec
    /\ WF_vars(Goes) /\ WF_vars(Runs)
    /\ WF_vars(Answered)
    /\ WF_vars(length' = file.size /\ Write)

-----------------------------------------------------------------------------
(* The part with number k as it should be.                                 *)
RightPart(id, k) == [id |-> id, part |-> k, from |-> k * Chunk, iv |-> IF file.key THEN k ELSE 0]

(* A finished upload: the server has every part of the file under one id,  *)
(* each read at its place and encrypted in its turn, and as many parts are *)
(* declared as there are.  Left out (strayed): news of data sets off a     *)
(* part while another is on its way, when it comes to stageQueue before    *)
(* the runnable that start() posts; or after a failure, as the state stays *)
(* what it was.  And an encrypted video of just so many whole parts, whose *)
(* size becomes known last, is finished with a part too many.              *)
WholeFile ==
    op.state = 3 /\ ~strayed =>
        op.part = TotalParts /\ \A k \in 0..op.part - 1 : RightPart(op.id, k) \in server

(* What is noted was confirmed: the server has the parts up to there, so   *)
(* that an upload that goes on from the notes leaves no gap and encrypts   *)
(* with the iv that belongs there, whatever failed in between.  (Not when  *)
(* the upload has strayed: after a failure the notes come back and count   *)
(* the part that failed.)                                                  *)
NotedIsSent ==
    saved.id # 0 /\ saved.uploaded > 0 /\ ~strayed =>
        /\ \A k \in 0..(saved.uploaded \div Chunk) - 1 : RightPart(saved.id, k) \in server
        /\ file.key => saved.iv = saved.uploaded \div Chunk

(* An upload that was started ends.                                        *)
Ends == op.state = 1 ~> (reports # <<>> \/ op.state = 0)

=============================================================================
