------------------------------ MODULE MCQueues ------------------------------
(* The queue of downloads and that of uploads, for TLC.  Neither reads or  *)
(* writes what the other one does, so that a behaviour here is one of      *)
(* either, chosen at the beginning, with the other at rest.                *)
EXTENDS FileLoader

CONSTANTS
    UploadNames, MaxUploads

VARIABLES
    part,                                       \* which of the two moves
    uOps, uPaths, uQueue, uCount, ends, uTwice, stuck

Uploads == INSTANCE FileUploads
    WITH Names <- UploadNames, MaxOps <- MaxUploads, ops <- uOps, paths <- uPaths, queue <- uQueue,
         count <- uCount, twice <- uTwice

ASSUME DownloadsAssumption == FileLoaderAssumption
ASSUME UploadsAssumption   == Uploads!FileUploadsAssumption /\ MaxUploads <= MaxOps

uploads == <<uOps, uPaths, uQueue, uCount, ends, uTwice, stuck>>
MCvars  == <<part, vars, uploads>>

MCInit == part \in {"downloads", "uploads"} /\ Init /\ Uploads!Init

OnlyDownloads == part = "downloads" /\ UNCHANGED <<part, uploads>>
OnlyUploads   == part = "uploads" /\ UNCHANGED <<part, vars>>

DownloadsStep == OnlyDownloads /\ Next
UploadsStep   == OnlyUploads /\ Uploads!Next

MCNext == DownloadsStep \/ UploadsStep

(* The fairness of the queues.                                             *)
MCFairSpec ==
    /\ MCInit /\ [][MCNext]_MCvars
    /\ WF_vars(OnlyDownloads /\ CheckDownloadQueue)
    /\ \A o \in 1..MaxOps :
         WF_vars(OnlyDownloads /\ Ended(o)) /\ WF_vars(OnlyDownloads /\ Works(o))
    /\ WF_uploads(OnlyUploads /\ Uploads!End)
    /\ \A o \in 1..MaxUploads : WF_uploads(OnlyUploads /\ Uploads!Works(o))

-----------------------------------------------------------------------------
(* One upload works at a time and is counted, and a name that is taken is  *)
(* that of an upload that works, waits or has just ended.                  *)
UploadsInTurn == Uploads!OneAtATime /\ Uploads!NamesAreFreed

(* An operation does not wait for ever, in either queue: one works or an   *)
(* end is about to be handled as long as one waits, though ends may be     *)
(* counted that were none, and an operation may report two ends.           *)
Waits(o) == o \in ToSet(queue) \cup ToSet(uQueue)
Starts == \A o \in 1..MaxOps : Waits(o) ~> ~Waits(o)

=============================================================================
