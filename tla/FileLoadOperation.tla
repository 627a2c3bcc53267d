------------------------- MODULE FileLoadOperation -------------------------
(***************************************************************************)
(* The download of one file, as FileLoadOperation does it: up to three     *)
(* parts are asked for at a time, the answers come in any order, and the   *)
(* parts are appended to a temporary file that gets its final name when it *)
(* is complete.  An operation may fail, be cancelled, or die with the      *)
(* process; the next one goes on from what is on disk.                     *)
(*                                                                         *)
(* A file is a sequence of units, and the unit at position i of the right  *)
(* content is i.  For an encrypted file the initialization vector is given *)
(* by the position whose part it decrypts.  Everything after start() runs  *)
(* on stageQueue, one runnable at a time.                                  *)
(*                                                                         *)
(* A name with an underscore is a wrong variant of the definition after    *)
(* it: with it in place a property must fail.                              *)
(***************************************************************************)
EXTENDS Integers, Sequences, FiniteSets

CONSTANTS
    Sizes,         \* the sizes of files
    Block,         \* what the length of a temporary file is rounded down to: 1024
    Chunk,         \* downloadChunkSize: 32 * 1024
    MaxRequests,   \* maxDownloadRequests: 3
    MaxErrors,     \* how many requests fail, files do not open or writes fail
    MaxMigrations, \* how many requests are answered by FILE_MIGRATE
    MaxTorn,       \* how often the process dies while it saves a part
    MaxRenewals    \* how many operations follow the first for the same file

FileLoadOperationAssumption ==
    /\ Sizes \subseteq Nat \ {0}
    /\ {Block, Chunk, MaxRequests} \subseteq Nat \ {0} /\ Chunk % Block = 0
    /\ {MaxErrors, MaxMigrations, MaxTorn, MaxRenewals} \subseteq Nat

VARIABLES
    file,       \* its size, totalBytesCount (0 when it is not known), whether it is encrypted
    op,         \* the operation: state, downloadedBytes, nextDownloadOffset, the stream, iv
    begun,      \* the runnable that start() posts has run
    requests,   \* requestInfos
    delayed,    \* delayedRequestInfos
    temp,       \* the temporary file
    ivFile,     \* the file that keeps iv; 0 when it is empty
    final,      \* the file under its final name: the empty set or the set of its content
    reports,    \* what the operation has told its delegate
    errors, migrations, torn, renewals    \* how often each has happened

vars == <<file, op, begun, requests, delayed, temp, ivFile, final, reports, errors,
          migrations, torn, renewals>>

Broken == -1    \* an iv that decrypts nothing, and what it makes of a unit

Smaller(x, y) == IF x < y THEN x ELSE y
Larger(x, y) == IF x < y THEN y ELSE x

Idle == [state |-> "idle", downloaded |-> 0, next |-> 0, open |-> FALSE, iv |-> 0]

Init ==
    /\ file \in UNION {[size : {s}, total : {0, s}, key : BOOLEAN] : s \in Sizes}
    /\ op = Idle /\ begun = FALSE
    /\ requests = {} /\ delayed = {}
    /\ temp = <<>> /\ ivFile = 0 /\ final = {}
    /\ reports = <<>>
    /\ errors = 0 /\ migrations = 0 /\ torn = 0 /\ renewals = 0

-----------------------------------------------------------------------------
(* The parts of the handlers.  An operation is passed on as a value, and   *)
(* the action that uses it says which of the variables it sets.            *)

(* The offsets that startDownloadRequest asks for.  A request is told from *)
(* another of the same offset by the number of migrations before it.       *)
Asked(o, rs, ds) ==
    LET room == MaxRequests - Cardinality(rs) - Cardinality(ds)
        count == IF file.total > 0 THEN room ELSE 1
    IN  IF o.state # "downloading" \/ room <= 0 THEN {}
        ELSE {x \in {o.next + i * Chunk : i \in 0..count - 1} : file.total > 0 => x < file.total}

(* startDownloadRequest, in epoch m of the datacenter.                     *)
StartDownloadRequest(o, rs, ds, m) ==
    LET asked == Asked(o, rs, ds) IN
    /\ op' = [o EXCEPT !.next = @ + Chunk * Cardinality(asked)]
    /\ requests' = rs \cup [offset : asked, epoch : {m}]
    /\ delayed' = ds

Closed(o) == [o EXCEPT !.open = FALSE]

(* cleanup and the report of a failure.  The state stays what it was.      *)
Fail(o, rs) ==
    /\ op' = Closed(o) /\ requests' = rs /\ delayed' = {}
    /\ reports' = Append(reports, "failed")

(* onFinishLoadingFile: the temporary file, if this operation opened one,  *)
(* gets the final name.                                                    *)
OnFinishLoadingFile(o, rs, ds, content) ==
    /\ requests' = rs
    /\ IF o.state # "downloading"
       THEN /\ op' = o /\ delayed' = ds /\ temp' = content
            /\ ivFile' = IF file.key /\ o.open THEN o.iv ELSE ivFile
            /\ UNCHANGED <<final, reports>>
       ELSE /\ op' = [Closed(o) EXCEPT !.state = "finished"] /\ delayed' = {}
            /\ final' = {content} /\ temp' = <<>> /\ ivFile' = 0
            /\ reports' = Append(reports, "finished")

-----------------------------------------------------------------------------
(* start() when the file is there under its final name: one of another     *)
(* size is deleted and the file is loaded again.                           *)
Fits(content) == file.total = 0 \/ Len(content) = file.total

StartWithFile ==
    /\ op.state = "idle" /\ \E content \in final : Fits(content)
    /\ op' = [op EXCEPT !.state = "finished"]
    /\ reports' = Append(reports, "finished")
    /\ UNCHANGED <<file, begun, requests, delayed, temp, ivFile, final, errors, migrations,
                   torn, renewals>>

(* What start() finds on disk.  An encrypted file whose iv was not saved   *)
(* starts again, but nextDownloadOffset stays.                             *)
Resumed_KeepsIv ==
    LET length == (Len(temp) \div Block) * Block IN
    [state |-> "downloading", downloaded |-> length, next |-> length, open |-> TRUE, iv |-> 0]
Resumed ==
    LET length == (Len(temp) \div Block) * Block IN
    [state |-> "downloading",
     downloaded |-> IF file.key /\ ivFile = 0 THEN 0 ELSE length,
     next |-> length, open |-> TRUE, iv |-> IF file.key THEN ivFile ELSE 0]

Start ==
    /\ op.state = "idle" /\ \A content \in final : ~Fits(content)
    /\ op' = Resumed /\ final' = {}
    /\ UNCHANGED <<file, begun, requests, delayed, temp, ivFile, reports, errors, migrations,
                   torn, renewals>>

(* start() when the temporary file cannot be opened: the failure is posted *)
(* to stageQueue.                                                          *)
StartFails ==
    /\ op.state = "idle" /\ errors < MaxErrors /\ \A content \in final : ~Fits(content)
    /\ op' = Closed(Resumed) /\ final' = {} /\ begun' = TRUE
    /\ reports' = Append(reports, "failed") /\ errors' = errors + 1
    /\ UNCHANGED <<file, requests, delayed, temp, ivFile, migrations, torn, renewals>>

(* The runnable that start() posts.                                        *)
Begin ==
    /\ op.state = "downloading" /\ ~begun /\ begun' = TRUE
    /\ IF file.total # 0 /\ op.downloaded = file.total
       THEN OnFinishLoadingFile(op, requests, delayed, temp)
       ELSE /\ StartDownloadRequest(op, requests, delayed, migrations)
            /\ UNCHANGED <<temp, ivFile, final, reports>>
    /\ UNCHANGED <<file, errors, migrations, torn, renewals>>

-----------------------------------------------------------------------------
(* processRequestResult.                                                   *)

(* The part at offset x as the server sends it: no units past the end.     *)
EndOfPart(x) == Smaller(x + Chunk, file.size)

(* A part that is not the next one is kept until it is.                    *)
AnswerOutOfTurn_Drops(r) ==
    /\ r.offset # op.downloaded
    /\ requests' = requests \ {r}
    /\ UNCHANGED <<file, op, begun, delayed, temp, ivFile, final, reports, errors, migrations,
                   torn, renewals>>

AnswerOutOfTurn(r) ==
    /\ r.offset # op.downloaded
    /\ requests' = requests \ {r}
    /\ delayed' = IF op.state = "downloading" THEN delayed \cup {r} ELSE delayed
    /\ UNCHANGED <<file, op, begun, temp, ivFile, final, reports, errors, migrations, torn,
                   renewals>>

(* The delayed parts that follow the one at x without a gap.               *)
Following(x) ==
    {d \in delayed : /\ d.offset > x
                     /\ \A y \in x + 1..d.offset : (y - x) % Chunk = 0 => \E e \in delayed : e.offset = y
                     /\ (d.offset - x) % Chunk = 0
                     /\ \A e \in delayed : e.offset = d.offset => d.epoch <= e.epoch}

EndOfRun(x) == EndOfPart(x + Chunk * Cardinality(Following(x)))

(* The units up to end, written at the place where the file is.            *)
Written(end, good) ==
    [i \in 1..Larger(Len(temp), end) |->
        IF i \in op.downloaded + 1..end THEN IF good THEN i ELSE Broken ELSE temp[i]]

(* The next part has come: it and the delayed ones that follow are         *)
(* decrypted and written, then more is asked for or the file is complete.  *)
(* A stream that was closed by a failure takes nothing, but the count goes *)
(* on.                                                                     *)
More(end) ==
    \/ file.total # end /\ end % Chunk = 0
    \/ file.total > 0 /\ file.total > end

AnswerNext(r) ==
    LET end == EndOfRun(op.downloaded)
        good == ~file.key \/ op.iv = op.downloaded
        o == [op EXCEPT !.downloaded = end,
                        !.iv = IF ~file.key THEN 0 ELSE IF good THEN end ELSE Broken]
        content == IF op.open THEN Written(end, good) ELSE temp
        rs == requests \ {r}
        ds == delayed \ Following(r.offset)
    IN  /\ r.offset = op.downloaded /\ r.offset < file.size
        /\ IF More(end)
           THEN /\ StartDownloadRequest(o, rs, ds, migrations)
                /\ temp' = content
                /\ ivFile' = IF file.key /\ op.open THEN o.iv ELSE ivFile
                /\ UNCHANGED <<final, reports>>
           ELSE OnFinishLoadingFile(o, rs, ds, content)
        /\ UNCHANGED <<file, begun, errors, migrations, torn, renewals>>

(* Nothing is left at the offset: the server answers with an empty part,   *)
(* or with OFFSET_INVALID, which does not look at the offset.              *)
AnswerPastEnd(r) ==
    /\ r.offset >= file.size
    /\ \/ /\ r.offset = op.downloaded
          /\ OnFinishLoadingFile(op, requests \ {r}, delayed, temp)
       \/ /\ op.downloaded % Chunk = 0
          /\ OnFinishLoadingFile(op, requests \ {r}, delayed, temp)
       \/ /\ op.downloaded % Chunk # 0
          /\ Fail(op, requests \ {r})
          /\ UNCHANGED <<temp, ivFile, final>>
    /\ UNCHANGED <<file, begun, errors, migrations, torn, renewals>>

(* The request fails, or writing its part does.                            *)
AnswerFails(r) ==
    /\ errors < MaxErrors /\ errors' = errors + 1
    /\ \/ Fail(op, requests \ {r})
       \/ /\ r.offset = op.downloaded /\ r.offset < file.size /\ op.open
          /\ Fail([op EXCEPT !.iv = IF ~file.key THEN 0 ELSE IF @ = op.downloaded THEN EndOfPart(@) ELSE Broken],
                  requests \ {r})
    /\ UNCHANGED <<file, begun, temp, ivFile, final, migrations, torn, renewals>>

(* FILE_MIGRATE: the file is asked for again, from the beginning, in the   *)
(* other datacenter.                                                       *)
AnswerMigrate(r) ==
    /\ migrations < MaxMigrations /\ migrations' = migrations + 1
    /\ StartDownloadRequest([op EXCEPT !.next = 0], requests \ {r}, delayed, migrations + 1)
    /\ UNCHANGED <<file, begun, temp, ivFile, final, reports, errors, torn, renewals>>

Answer ==
    \E r \in requests : \/ AnswerOutOfTurn(r) \/ AnswerNext(r) \/ AnswerPastEnd(r)
                        \/ AnswerFails(r) \/ AnswerMigrate(r)

-----------------------------------------------------------------------------
(* cancel(), of an operation that was started or still waits.  Requests    *)
(* that were answered before cancelRpc ran still reach it.                 *)
Cancel ==
    /\ op.state \in {"idle", "downloading"} /\ (begun \/ op.state = "idle")
    /\ op' = [Closed(op) EXCEPT !.state = "failed"] /\ delayed' = {}
    /\ reports' = Append(reports, "cancelled")
    /\ UNCHANGED <<file, begun, requests, temp, ivFile, final, errors, migrations, torn, renewals>>

(* A new operation for the file: the process died, or the one before is    *)
(* over and the file is asked for again.                                   *)
Renew ==
    /\ renewals < MaxRenewals /\ renewals' = renewals + 1
    /\ op' = Idle /\ begun' = FALSE /\ requests' = {} /\ delayed' = {} /\ reports' = <<>>
    /\ UNCHANGED <<file, temp, ivFile, final, errors, migrations, torn>>

(* The process dies while parts are being written: some of the last one is *)
(* in the temporary file, and iv is not saved with it.                     *)
DieInWrite ==
    /\ torn < MaxTorn /\ torn' = torn + 1
    /\ op.open /\ \E r \in requests : r.offset = op.downloaded /\ r.offset < file.size
    /\ \E end \in op.downloaded + 1..EndOfRun(op.downloaded) :
         LET saved == ((end - op.downloaded - 1) \div Chunk) * Chunk
             good == ~file.key \/ op.iv = op.downloaded
         IN  /\ temp' = Written(end, good)
             /\ ivFile' = IF ~file.key \/ saved = 0 THEN ivFile
                          ELSE IF good THEN op.downloaded + saved ELSE Broken
    /\ op' = Idle /\ begun' = FALSE /\ requests' = {} /\ delayed' = {} /\ reports' = <<>>
    /\ UNCHANGED <<file, final, errors, migrations, renewals>>

-----------------------------------------------------------------------------
Next ==
    \/ StartWithFile \/ Start \/ StartFails \/ Begin
    \/ Answer
    \/ Cancel \/ Renew \/ DieInWrite

Spec == Init /\ [][Next]_vars

(* The network answers every request that is not cancelled, and stageQueue *)
(* runs what was posted to it.  FileLoader need not start the operation,   *)
(* the user need not cancel it.                                            *)
FairSpec ==
    /\ Spec
    /\ WF_vars(Begin)
    /\ WF_vars(op.state = "downloading" /\ Answer)

-----------------------------------------------------------------------------
(* A file that is there under its final name is whole and every unit of it *)
(* is right, however the answers were ordered, also after a migration and  *)
(* when the operation went on from what another one had left.  Left out:   *)
(* a migration of an operation that has failed (its stream is closed, yet  *)
(* the file is asked for again and counted as written); a process that     *)
(* died in the middle of saving a part of an encrypted file (iv is not     *)
(* saved with it) or of one whose size is not known.                       *)
WholeFile ==
    \A content \in final :
       ~(errors > 0 /\ migrations > 0) /\ ~(torn > 0 /\ (file.key \/ file.total = 0))
          => content = [i \in 1..file.size |-> i]

(* A download that has begun comes to an end that the delegate hears of.   *)
(* Left out: migrations (the parts asked for before one fill the window    *)
(* for good when the operation had gone on from a file), and a process     *)
(* that dies between writing the first part and its iv (the operation that *)
(* goes on asks for the parts after the one it waits for).                 *)
Ends ==
    op.state = "downloading"
       ~> (reports # <<>> \/ op.state = "idle" \/ migrations > 0 \/ torn > 0)

=============================================================================
