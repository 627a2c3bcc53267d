-------------------------- MODULE MCFileOperations --------------------------
(* A download, an upload, and the observers of notifications, who are told *)
(* how they go, for TLC.  None of the three reads or writes what another   *)
(* one does, so that a behaviour here is one of any of them, chosen at the *)
(* beginning, with the others at rest.                                     *)
EXTENDS NotificationCenter

CONSTANTS
    LoadSizes, Block, LoadChunk, MaxRequests, LoadErrors, MaxMigrations, MaxTorn, MaxRenewals,
    UploadSizes, UploadChunk, SaveEvery, SaveUnits, MaxPosted, UploadErrors, MaxDeaths

VARIABLES
    part,                                       \* which of the three moves
    file, op, begun, requests, delayed, temp, ivFile, final, reports,
    errors, migrations, torn, renewals,         \* of the download
    uFile, length, told, uOp, posted, handling, uRequests, saved, server, uReports, ids,
    uErrors, deaths, strayed                    \* of the upload

Download == INSTANCE FileLoadOperation
    WITH Sizes <- LoadSizes, Chunk <- LoadChunk, MaxErrors <- LoadErrors
Upload == INSTANCE FileUploadOperation
    WITH Sizes <- UploadSizes, Chunk <- UploadChunk, MaxErrors <- UploadErrors,
         file <- uFile, op <- uOp, requests <- uRequests, reports <- uReports, errors <- uErrors

ASSUME NotificationsAssumption == NotificationCenterAssumption
ASSUME DownloadAssumption      == Download!FileLoadOperationAssumption
ASSUME UploadAssumption        == Upload!FileUploadOperationAssumption

download  == <<file, op, begun, requests, delayed, temp, ivFile, final, reports, errors,
               migrations, torn, renewals>>
upload    == <<uFile, length, told, uOp, posted, handling, uRequests, saved, server, uReports,
               ids, uErrors, deaths, strayed>>
MCvars    == <<part, vars, download, upload>>

MCInit ==
    /\ part \in {"notifications", "download", "upload"}
    /\ Init /\ Download!Init /\ Upload!Init
    /\ part # "download" =>
          file = [size |-> CHOOSE s \in LoadSizes : TRUE, total |-> 0, key |-> FALSE]
    /\ part # "upload" =>
          told /\ uFile = [size |-> CHOOSE s \in UploadSizes : TRUE, big |-> FALSE, key |-> FALSE]

OnlyNotifications == part = "notifications" /\ UNCHANGED <<part, download, upload>>
OnlyDownload      == part = "download" /\ UNCHANGED <<part, vars, upload>>
OnlyUpload        == part = "upload" /\ UNCHANGED <<part, vars, download>>

NotificationsStep == OnlyNotifications /\ Next
DownloadStep      == OnlyDownload /\ Download!Next
UploadStep        == OnlyUpload /\ Upload!Next

MCNext == NotificationsStep \/ DownloadStep \/ UploadStep

(* The fairness of the operations; a broadcast is a call, and takes none.  *)
MCFairSpec ==
    /\ MCInit /\ [][MCNext]_MCvars
    /\ WF_download(OnlyDownload /\ Download!Begin)
    /\ WF_download(OnlyDownload /\ op.state = "downloading" /\ Download!Answer)
    /\ WF_upload(OnlyUpload /\ Upload!Goes)
    /\ WF_upload(OnlyUpload /\ Upload!Runs)
    /\ WF_upload(OnlyUpload /\ Upload!Answered)
    /\ WF_upload(OnlyUpload /\ length' = uFile.size /\ Upload!Write)

-----------------------------------------------------------------------------
(* A file that is there under its final name is whole, and so is one that  *)
(* the server was told is uploaded.                                        *)
WholeFile == Download!WholeFile /\ Upload!WholeFile

(* What is noted of an upload was confirmed by the server.                 *)
NotedIsSent == Upload!NotedIsSent

(* A download that has begun, or an upload that was started, ends.         *)
Ends == Download!Ends /\ Upload!Ends

=============================================================================
