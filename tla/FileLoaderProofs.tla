-------------------------- MODULE FileLoaderProofs --------------------------
(***************************************************************************)
(* For any number of files, downloads, uploads and reports of failures:    *)
(* what is counted is what works, a download can be found by its name, and *)
(* the name of an upload is free again when it has ended.                  *)
(***************************************************************************)
EXTENDS MCQueues, ListsProofs, FiniteSetTheorems, TLAPS

Download ==
    [name : Names, state : {"idle", "downloading", "over"}, force : BOOLEAN, failed : BOOLEAN]

Typed ==
    /\ ops \in Seq(Download)
    /\ paths \in [Names -> 0 .. Len(ops)]
    /\ queue \in Seq(1 .. Len(ops))
    /\ count \in Int
    /\ cancels \subseteq 1 .. Len(ops)
    /\ checks \in Seq(Names)
    /\ unstarted \in BOOLEAN /\ twice \in BOOLEAN /\ hasty \in BOOLEAN

(* An operation is kept under its own name.                                *)
Named == \A n \in Names : paths[n] # None => ops[paths[n]].name = n

(* What waits was not started, and is not being cancelled.                 *)
Waiting ==
    /\ Distinct(queue)
    /\ \A o \in ToSet(queue) : ops[o].state = "idle" /\ ~ops[o].failed /\ o \notin cancels

(* CountIsRight, with the ends that are not handled yet below the limit.   *)
Counted ==
    ~unstarted /\ ~twice =>
        count = Cardinality(Started) + Len(checks) /\ count <= MaxForced

(* Findable, and no end of an operation is on its way under the name of    *)
(* another one that lives.                                                 *)
Lives(o) == (Working(o) \/ o \in ToSet(queue)) /\ o \notin cancels

Found ==
    ~hasty /\ ~twice => \A o \in 1 .. Len(ops) :
        Lives(o) => paths[ops[o].name] = o /\ ~Ending(ops[o].name)

IInv == FileLoaderAssumption /\ Typed /\ Named /\ Waiting /\ Counted /\ Found

-----------------------------------------------------------------------------
LEMMA IdsAre == Typed => Ids = 1 .. Len(ops) /\ Len(ops) \in Nat
BY DEF Typed, Ids

(* What works are finitely many; one more or one less is counted so.       *)
LEMMA StartedFinite == Typed => IsFiniteSet(Started) /\ Cardinality(Started) \in Nat
<1> SUFFICES ASSUME Typed
             PROVE  IsFiniteSet(Started) /\ Cardinality(Started) \in Nat
  OBVIOUS
<1>1. Started \in SUBSET (1 .. Len(ops)) /\ Len(ops) \in Nat
  BY IdsAre DEF Started
<1>2. IsFiniteSet(1 .. Len(ops))
  BY <1>1, FS_Interval
<1> QED BY <1>1, <1>2, FS_Subset, FS_CardinalityType

(* An operation of which something changes that is not its name.           *)
LEMMA OneChanges ==
    ASSUME NEW d \in Seq(Download), NEW o \in 1 .. Len(d), NEW r \in Download, r.name = d[o].name
    PROVE  /\ [d EXCEPT ![o] = r] \in Seq(Download)
           /\ Len([d EXCEPT ![o] = r]) = Len(d)
           /\ \A p \in 1 .. Len(d) :
                /\ [d EXCEPT ![o] = r][p] = IF p = o THEN r ELSE d[p]
                /\ [d EXCEPT ![o] = r][p].name = d[p].name
OBVIOUS

LEMMA NameOf ==
    ASSUME Typed, NEW o \in 1 .. Len(ops)
    PROVE  ops[o].name \in Names
<1>1. ops[o] \in Download
  BY DEF Typed
<1> QED BY <1>1 DEF Download

LEMMA DownloadChanges ==
    ASSUME NEW d \in Download
    PROVE  /\ [d EXCEPT !.force = TRUE] \in Download
           /\ [d EXCEPT !.force = TRUE].name = d.name
           /\ [d EXCEPT !.force = TRUE].state = d.state
           /\ [d EXCEPT !.force = TRUE].failed = d.failed
           /\ [d EXCEPT !.failed = TRUE] \in Download
           /\ [d EXCEPT !.failed = TRUE].name = d.name
           /\ [d EXCEPT !.failed = TRUE].state = d.state
           /\ [d EXCEPT !.failed = TRUE].failed
           /\ \A st \in {"idle", "downloading", "over"} :
                /\ [d EXCEPT !.state = st] \in Download
                /\ [d EXCEPT !.state = st].name = d.name
                /\ [d EXCEPT !.state = st].state = st
                /\ [d EXCEPT !.state = st].failed = d.failed
<1>1. d = [name |-> d.name, state |-> d.state, force |-> d.force, failed |-> d.failed]
      /\ d.name \in Names /\ d.state \in {"idle", "downloading", "over"}
      /\ d.force \in BOOLEAN /\ d.failed \in BOOLEAN
  BY DEF Download
<1> QED BY <1>1 DEF Download

LEMMA InitHolds == FileLoaderAssumption /\ Init => IInv
<1> SUFFICES ASSUME FileLoaderAssumption, Init
             PROVE  IInv
  OBVIOUS
<1>1. /\ Len(ops) = 0 /\ 1 .. 0 = {} /\ ToSet(queue) = {} /\ checks = <<>> /\ count = 0
      /\ \A n \in Names : paths[n] = None
  BY DEF Init, ToSet
<1>2. <<>> \in Seq(Download) /\ <<>> \in Seq(1 .. Len(ops)) /\ <<>> \in Seq(Names)
  OBVIOUS
<1>3. Typed
  <2>1. paths \in [Names -> 0 .. Len(ops)]
    BY <1>1 DEF Init, None
  <2>2. ops \in Seq(Download) /\ queue \in Seq(1 .. Len(ops)) /\ checks \in Seq(Names)
    BY <1>2 DEF Init
  <2>3. count \in Int /\ cancels \subseteq 1 .. Len(ops)
    BY DEF Init
  <2> QED BY <2>1, <2>2, <2>3 DEF Init, Typed
<1>4. Named /\ Waiting /\ Found
  BY <1>1 DEF Init, Named, Waiting, Found, Distinct
<1>5. Started = {}
  BY <1>1, <1>3, IdsAre DEF Started
<1>6. Counted
  BY <1>1, <1>5, FS_EmptySet DEF Counted, FileLoaderAssumption
<1> QED BY <1>3, <1>4, <1>6 DEF IInv

-----------------------------------------------------------------------------
(* loadFile, of a file that waits: only its place changes.                 *)
LEMMA LoadAgainKeeps ==
    ASSUME IInv, NEW n \in Names, LoadAgain(n)
    PROVE  IInv'
<1> DEFINE o == paths[n]
           r == [ops[o] EXCEPT !.force = TRUE]
<1>1. /\ o # None /\ o \in ToSet(queue)
      /\ queue' = <<o>> \o Removed(queue, o)
      /\ ops' = [ops EXCEPT ![o] = r]
      /\ UNCHANGED <<paths, count, cancels, checks, unstarted, twice, hasty>>
  BY DEF LoadAgain
<1>2. o \in 1 .. Len(ops) /\ Len(ops) \in Nat /\ ops \in Seq(Download)
  BY <1>1, IdsAre DEF IInv, Typed, None
<1>3. /\ r \in Download /\ r.name = ops[o].name
      /\ r.state = ops[o].state /\ r.failed = ops[o].failed
  <2>1. ops[o] \in Download
    BY <1>2
  <2> HIDE DEF o
  <2> QED BY <2>1, DownloadChanges
<1> HIDE DEF o, r
<1>4. /\ ops' \in Seq(Download) /\ Len(ops') = Len(ops)
      /\ \A p \in 1 .. Len(ops) :
            /\ ops'[p].name = ops[p].name /\ ops'[p].state = ops[p].state
            /\ ops'[p].failed = ops[p].failed
  BY <1>1, <1>2, <1>3, OneChanges
<1>5. queue' \in Seq(1 .. Len(ops)) /\ Distinct(queue') /\ ToSet(queue') = ToSet(queue)
  <2>1. /\ Removed(queue, o) \in Seq(1 .. Len(ops)) /\ Distinct(Removed(queue, o))
        /\ ToSet(Removed(queue, o)) = ToSet(queue) \ {o}
    BY <1>2, RemovedFrom DEF IInv, Typed, Waiting
  <2> DEFINE rest == Removed(queue, o)
  <2>2. o \notin ToSet(rest)
    BY <2>1
  <2> HIDE DEF rest
  <2>3. /\ <<o>> \o rest \in Seq(1 .. Len(ops)) /\ Distinct(<<o>> \o rest)
        /\ ToSet(<<o>> \o rest) = ToSet(rest) \cup {o}
    <3>1. rest \in Seq(1 .. Len(ops)) /\ Distinct(rest)
      BY <2>1 DEF rest
    <3> QED BY <1>2, <2>2, <3>1, PutInFront
  <2> QED BY <1>1, <2>1, <2>3 DEF rest
<1>6. Typed'
  BY <1>1, <1>4, <1>5 DEF IInv, Typed
<1>7. Named'
  BY <1>1, <1>2, <1>4 DEF IInv, Named, Typed, None
<1>8. Waiting'
  <2>1. ToSet(queue) \subseteq 1 .. Len(ops)
    BY DEF IInv, Typed, ToSet
  <2> QED BY <1>1, <1>4, <1>5, <2>1 DEF IInv, Waiting
<1>9. Started' = Started
  <2>1. Ids' = Ids /\ Ids = 1 .. Len(ops)
    BY <1>4, <1>6, IdsAre DEF IInv, Typed, Ids
  <2> QED BY <1>4, <2>1 DEF Started, Working
<1>10. Counted'
  BY <1>1, <1>9 DEF IInv, Counted
<1>11. Found'
  <2> SUFFICES ASSUME ~hasty, ~twice, NEW p \in 1 .. Len(ops), Lives(p)'
               PROVE  paths[ops[p].name] = p /\ ~Ending(ops[p].name)'
    BY <1>1, <1>4 DEF Found
  <2>1. Lives(p)
    BY <1>1, <1>4, <1>5 DEF Lives, Working
  <2>2. Ending(ops[p].name)' => Ending(ops[p].name)
    BY <1>1, <1>4 DEF Ending, IInv, Typed
  <2> QED BY <2>1, <2>2 DEF IInv, Found
<1> QED BY <1>6, <1>7, <1>8, <1>10, <1>11 DEF IInv

-----------------------------------------------------------------------------
(* loadFile of another file: it works at once or waits.                    *)
LEMMA LoadFileKeeps ==
    ASSUME IInv, NEW n \in Names, NEW force \in BOOLEAN, LoadFile(n, force)
    PROVE  IInv'
<1> PICK o : o = Len(ops) + 1
  OBVIOUS
<1> DEFINE starts == count < MaxCount(force)
           d == Operation(n, IF starts THEN "downloading" ELSE "idle")
<1>1. /\ paths[n] = None
      /\ paths' = [paths EXCEPT ![n] = o]
      /\ ops' = Append(ops, d)
      /\ starts => count' = count + 1 /\ queue' = queue
      /\ ~starts => count' = count
                    /\ queue' = IF force THEN <<o>> \o queue ELSE Append(queue, o)
      /\ hasty' = (hasty \/ Ending(n))
      /\ UNCHANGED <<cancels, checks, unstarted, twice>>
  BY DEF LoadFile
<1>2. /\ d \in Download /\ d.name = n /\ ~d.failed
      /\ d.state = IF starts THEN "downloading" ELSE "idle"
  BY DEF Operation, Download
<1> HIDE DEF d, starts
<1>3. /\ ops \in Seq(Download) /\ Len(ops) \in Nat /\ o \in 1 .. o /\ o \notin 1 .. Len(ops)
      /\ 1 .. o = (1 .. Len(ops)) \cup {o}
  BY DEF IInv, Typed
<1>4. /\ ops' \in Seq(Download) /\ Len(ops') = o /\ ops'[o] = d
      /\ \A p \in 1 .. Len(ops) : ops'[p] = ops[p]
  BY <1>1, <1>2, <1>3
<1>5. Ids = 1 .. Len(ops) /\ Ids' = 1 .. o
  BY <1>3, <1>4 DEF Ids
<1>6. ToSet(queue) \subseteq 1 .. Len(ops) /\ cancels \subseteq 1 .. Len(ops)
  BY DEF IInv, Typed, ToSet
<1>7. /\ queue' \in Seq(1 .. o) /\ Distinct(queue')
      /\ ToSet(queue') = IF starts THEN ToSet(queue) ELSE ToSet(queue) \cup {o}
  <2>1. queue \in Seq(1 .. o) /\ Distinct(queue) /\ o \notin ToSet(queue)
    BY <1>3, <1>6 DEF IInv, Typed, Waiting
  <2>2. CASE starts
    BY <1>1, <2>1, <2>2
  <2>3. CASE ~starts /\ force
    <3>1. /\ <<o>> \o queue \in Seq(1 .. o) /\ Distinct(<<o>> \o queue)
          /\ ToSet(<<o>> \o queue) = ToSet(queue) \cup {o}
      BY <1>3, <2>1, PutInFront
    <3> QED BY <1>1, <2>3, <3>1
  <2>4. CASE ~starts /\ ~force
    <3>1. /\ Append(queue, o) \in Seq(1 .. o) /\ Distinct(Append(queue, o))
          /\ ToSet(Append(queue, o)) = ToSet(queue) \cup {o}
      BY <1>3, <2>1, AppendedTo
    <3> QED BY <1>1, <2>4, <3>1
  <2> QED BY <2>2, <2>3, <2>4
<1>8. Typed'
  <2>1. \A x \in Names : paths[x] \in 0 .. o
    BY <1>3 DEF IInv, Typed
  <2>2. paths' \in [Names -> 0 .. o] /\ count' \in Int /\ cancels \subseteq 1 .. o
    BY <1>1, <1>3, <1>6, <2>1 DEF IInv, Typed
  <2> QED BY <1>1, <1>4, <1>7, <2>2 DEF IInv, Typed, Ending
<1>9. \A x \in Names : paths'[x] = IF x = n THEN o ELSE paths[x]
  BY <1>1 DEF IInv, Typed
<1>10. Named'
  <2> SUFFICES ASSUME NEW x \in Names, paths'[x] # None
               PROVE  ops'[paths'[x]].name = x
    BY DEF Named
  <2>1. CASE x = n
    BY <1>2, <1>4, <1>9, <2>1
  <2>2. CASE x # n
    <3>1. paths[x] # None /\ paths[x] \in 1 .. Len(ops)
      BY <1>3, <1>9, <2>2 DEF IInv, Typed, None
    <3> QED BY <1>4, <1>9, <2>2, <3>1 DEF IInv, Named
  <2> QED BY <2>1, <2>2
<1>11. Waiting'
  BY <1>1, <1>2, <1>3, <1>4, <1>6, <1>7 DEF IInv, Waiting
<1>12. /\ Started' = IF starts THEN Started \cup {o} ELSE Started
       /\ o \notin Started
  <2>1. \A p \in 1 .. Len(ops) : Working(p)' <=> Working(p)
    BY <1>4 DEF Working
  <2>2. Working(o)' <=> starts
    BY <1>2, <1>4 DEF Working
  <2> QED BY <1>3, <1>5, <2>1, <2>2 DEF Started
<1>13. Counted'
  <2> SUFFICES ASSUME ~unstarted, ~twice
               PROVE  count' = Cardinality(Started') + Len(checks) /\ count' <= MaxForced
    BY <1>1 DEF Counted
  <2>1. count = Cardinality(Started) + Len(checks) /\ count <= MaxForced
    BY DEF IInv, Counted
  <2>2. starts => count + 1 <= MaxForced
    BY DEF starts, MaxCount, IInv, FileLoaderAssumption, Typed
  <2>3. /\ IsFiniteSet(Started) /\ Cardinality(Started) \in Nat
        /\ Cardinality(Started \cup {o}) = Cardinality(Started) + 1
    BY <1>12, StartedFinite, FS_AddElement DEF IInv
  <2>4. Len(checks) \in Nat
    BY DEF IInv, Typed
  <2> QED BY <1>1, <1>12, <2>1, <2>2, <2>3, <2>4
<1>14. Found'
  <2> SUFFICES ASSUME ~hasty', ~twice, NEW p \in 1 .. o, Lives(p)'
               PROVE  paths'[ops'[p].name] = p /\ ~Ending(ops[p].name)'
    BY <1>1, <1>4 DEF Found, Ending
  <2>1. ~hasty /\ ~Ending(n)
    BY <1>1 DEF IInv, Typed
  <2>2. \A x : Ending(x)' <=> Ending(x)
    BY <1>1, <1>4, <1>6 DEF Ending
  <2>3. CASE p = o
    <3>1. ops'[p].name = n /\ paths'[n] = p
      BY <1>2, <1>4, <1>9, <2>3
    <3>2. Ending(ops[p].name)' <=> Ending(n)'
      BY <3>1 DEF Ending
    <3> QED BY <2>1, <2>2, <3>1, <3>2
  <2>4. CASE p # o
    <3>1. p \in 1 .. Len(ops)
      BY <1>3, <2>4
    <3>2. Lives(p)
      BY <1>1, <1>4, <1>7, <2>4, <3>1 DEF Lives, Working
    <3>3. paths[ops[p].name] = p /\ ~Ending(ops[p].name) /\ ops[p].name \in Names
      BY <2>1, <3>1, <3>2, NameOf DEF IInv, Found
    <3>4. ops[p].name # n
      BY <1>1, <3>1, <3>3 DEF None
    <3>5. ops'[p].name = ops[p].name /\ paths'[ops[p].name] = p
      BY <1>4, <1>9, <3>1, <3>3, <3>4
    <3>6. Ending(ops[p].name)' <=> Ending(ops[p].name)
      BY <1>1, <1>4, <1>6, <3>5 DEF Ending
    <3> QED BY <3>3, <3>5, <3>6
  <2> QED BY <2>3, <2>4
<1> QED BY <1>8, <1>10, <1>11, <1>13, <1>14 DEF IInv

(* cancelLoadFile.                                                         *)
LEMMA CancelLoadFileKeeps ==
    ASSUME IInv, NEW n \in Names, CancelLoadFile(n)
    PROVE  IInv'
<1> DEFINE o == paths[n]
<1>1. /\ o # None
      /\ paths' = [paths EXCEPT ![n] = None]
      /\ queue' = Removed(queue, o)
      /\ cancels' = cancels \cup {o}
      /\ UNCHANGED <<ops, count, checks, unstarted, twice, hasty>>
  BY DEF CancelLoadFile
<1>2. /\ o \in 1 .. Len(ops) /\ ops[o].name = n
      /\ \A x \in Names : paths'[x] = IF x = n THEN None ELSE paths[x]
  BY <1>1 DEF IInv, Typed, Named, None
<1> HIDE DEF o
<1>3. /\ queue' \in Seq(1 .. Len(ops)) /\ Distinct(queue')
      /\ ToSet(queue') = ToSet(queue) \ {o}
  BY <1>1, RemovedFrom DEF IInv, Typed, Waiting
<1>4. Typed'
  <2>1. paths' \in [Names -> 0 .. Len(ops)]
    BY <1>1 DEF IInv, Typed, None
  <2> QED BY <1>1, <1>2, <1>3, <2>1 DEF IInv, Typed
<1>5. Named'
  BY <1>1, <1>2 DEF IInv, Named
<1>6. Waiting'
  BY <1>1, <1>3 DEF IInv, Waiting
<1>7. Counted'
  BY <1>1 DEF IInv, Counted, Started, Ids, Working
<1>8. Found'
  <2> SUFFICES ASSUME ~hasty, ~twice, NEW p \in 1 .. Len(ops), Lives(p)'
               PROVE  paths'[ops[p].name] = p /\ ~Ending(ops[p].name)'
    BY <1>1 DEF Found
  <2>1. Lives(p) /\ p # o
    BY <1>1, <1>3 DEF Lives, Working
  <2>2. paths[ops[p].name] = p /\ ~Ending(ops[p].name) /\ ops[p].name \in Names
    BY <2>1, NameOf DEF IInv, Found
  <2>3. ops[p].name # n
    BY <2>1, <2>2 DEF o
  <2>4. ~Ending(ops[p].name)'
    BY <1>1, <1>2, <2>2, <2>3 DEF Ending
  <2> QED BY <1>2, <2>2, <2>3, <2>4
<1> QED BY <1>1, <1>4, <1>5, <1>6, <1>7, <1>8 DEF IInv

(* checkDownloadQueue: one end is handled, and the first that waits may    *)
(* start.                                                                  *)
LEMMA CheckDownloadQueueKeeps ==
    ASSUME IInv, CheckDownloadQueue
    PROVE  IInv'
<1> PICK n : n = Head(checks)
  OBVIOUS
<1> DEFINE starts == queue # <<>> /\ count - 1 < MaxCount(ops[Head(queue)].force)
<1>1. /\ checks # <<>> /\ checks' = Tail(checks)
      /\ paths' = [paths EXCEPT ![n] = None]
      /\ UNCHANGED <<cancels, unstarted, twice, hasty>>
  BY DEF CheckDownloadQueue
<1>2. /\ n \in Names /\ checks' \in Seq(Names) /\ Len(checks') = Len(checks) - 1
      /\ Len(checks) \in Nat /\ n \in ToSet(checks) /\ ToSet(checks') \subseteq ToSet(checks)
  <2>1. checks \in Seq(Names)
    BY DEF IInv, Typed
  <2>2. /\ checks' \in Seq(Names) /\ Len(checks') = Len(checks) - 1 /\ Len(checks) \in Nat
        /\ \A i \in 1 .. Len(checks) - 1 : checks'[i] = checks[i + 1] /\ i + 1 \in 1 .. Len(checks)
        /\ n = checks[1] /\ 1 \in 1 .. Len(checks) /\ DOMAIN checks = 1 .. Len(checks)
    BY <1>1, <2>1
  <2>3. DOMAIN checks' = 1 .. Len(checks) - 1
    BY <2>2
  <2> QED BY <2>1, <2>2, <2>3 DEF ToSet
<1>3. \A x \in Names : paths'[x] = IF x = n THEN None ELSE paths[x]
  BY <1>1, <1>2 DEF IInv, Typed
<1>4. paths' \in [Names -> 0 .. Len(ops)]
  BY <1>1 DEF IInv, Typed, None
<1>5. ~hasty /\ ~twice => \A p \in 1 .. Len(ops) :
         Lives(p) => paths'[ops[p].name] = p /\ ~Ending(ops[p].name)
  <2> SUFFICES ASSUME ~hasty, ~twice, NEW p \in 1 .. Len(ops), Lives(p)
               PROVE  paths'[ops[p].name] = p /\ ~Ending(ops[p].name)
    OBVIOUS
  <2>1. paths[ops[p].name] = p /\ ~Ending(ops[p].name) /\ ops[p].name \in Names
    BY NameOf DEF IInv, Found
  <2>2. ops[p].name # n
    BY <1>2, <2>1 DEF Ending
  <2> QED BY <1>3, <2>1, <2>2
<1>6. CASE ~starts
  <2>1. count' = count - 1 /\ UNCHANGED <<ops, queue>>
    BY <1>6 DEF CheckDownloadQueue
  <2>2. Typed'
    BY <1>1, <1>2, <1>4, <2>1 DEF IInv, Typed
  <2>3. Named' /\ Waiting'
    BY <1>1, <1>3, <2>1 DEF IInv, Named, Waiting
  <2>4. Counted'
    <3>1. Started' = Started
      BY <2>1 DEF Started, Ids, Working
    <3>2. Cardinality(Started) \in Nat
      BY StartedFinite DEF IInv
    <3>3. MaxForced \in Nat
      BY DEF IInv, FileLoaderAssumption
    <3> QED BY <1>1, <1>2, <2>1, <3>1, <3>2, <3>3 DEF IInv, Counted
  <2>5. Found'
    <3> SUFFICES ASSUME ~hasty, ~twice, NEW p \in 1 .. Len(ops), Lives(p)'
                 PROVE  paths'[ops[p].name] = p /\ ~Ending(ops[p].name)'
      BY <1>1, <2>1 DEF Found
    <3>1. Lives(p)
      BY <1>1, <2>1 DEF Lives, Working
    <3>2. Ending(ops[p].name)' => Ending(ops[p].name)
      BY <1>1, <1>2, <2>1 DEF Ending
    <3> QED BY <1>5, <3>1, <3>2
  <2> QED BY <2>2, <2>3, <2>4, <2>5 DEF IInv
<1>7. CASE starts
  <2> PICK o : o = Head(queue)
    OBVIOUS
  <2> DEFINE r == [ops[o] EXCEPT !.state = "downloading"]
  <2>1. /\ o \in 1 .. Len(ops) /\ o \in ToSet(queue)
        /\ Tail(queue) \in Seq(1 .. Len(ops)) /\ Distinct(Tail(queue))
        /\ ToSet(Tail(queue)) = ToSet(queue) \ {o}
    BY <1>7, FirstTaken DEF IInv, Typed, Waiting
  <2>2. ops[o].state = "idle" /\ ~ops[o].failed /\ o \notin cancels /\ ops[o] \in Download
    BY <2>1 DEF IInv, Waiting, Typed
  <2>3. queue' = Tail(queue) /\ count' = count /\ ops' = [ops EXCEPT ![o] = r]
    BY <1>7, <2>2 DEF CheckDownloadQueue, StartOperation
  <2>4. r \in Download /\ r.name = ops[o].name /\ r.state = "downloading" /\ ~r.failed
    BY <2>2, DownloadChanges
  <2> HIDE DEF r
  <2>5. /\ ops' \in Seq(Download) /\ Len(ops') = Len(ops)
        /\ \A p \in 1 .. Len(ops) :
              ops'[p] = (IF p = o THEN r ELSE ops[p]) /\ ops'[p].name = ops[p].name
    BY <2>1, <2>3, <2>4, OneChanges DEF IInv, Typed
  <2>6. Typed'
    BY <1>1, <1>2, <1>4, <2>1, <2>3, <2>5 DEF IInv, Typed
  <2>7. Named'
    <3> SUFFICES ASSUME NEW x \in Names, paths'[x] # None
                 PROVE  ops'[paths'[x]].name = x
      BY DEF Named
    <3>1. paths'[x] = paths[x] /\ paths[x] \in 1 .. Len(ops) /\ paths[x] # None
      BY <1>3 DEF IInv, Typed, None
    <3> QED BY <2>5, <3>1 DEF IInv, Named
  <2>8. Waiting'
    <3>1. ToSet(queue) \subseteq 1 .. Len(ops)
      BY DEF IInv, Typed, ToSet
    <3> QED BY <1>1, <2>1, <2>3, <2>5, <3>1 DEF IInv, Waiting
  <2>9. Started' = Started \cup {o} /\ o \notin Started
    <3>1. Ids = 1 .. Len(ops) /\ Ids' = 1 .. Len(ops)
      BY <2>5, <2>6, IdsAre DEF IInv, Typed, Ids
    <3>2. \A p \in 1 .. Len(ops) : Working(p)' <=> (Working(p) \/ p = o)
      BY <2>4, <2>5 DEF Working
    <3>3. ~Working(o)
      BY <2>2 DEF Working
    <3> QED BY <2>1, <3>1, <3>2, <3>3 DEF Started
  <2>10. Counted'
    <3>1. /\ Cardinality(Started) \in Nat
          /\ Cardinality(Started') = Cardinality(Started) + 1
      BY <2>9, StartedFinite, FS_AddElement DEF IInv
    <3> QED BY <1>1, <1>2, <2>3, <3>1 DEF IInv, Counted
  <2>11. Found'
    <3> SUFFICES ASSUME ~hasty, ~twice, NEW p \in 1 .. Len(ops), Lives(p)'
                 PROVE  paths'[ops[p].name] = p /\ ~Ending(ops[p].name)'
      BY <1>1, <2>5 DEF Found
    <3>1. Lives(p)
      BY <1>1, <2>1, <2>3, <2>5 DEF Lives, Working
    <3>2. Ending(ops[p].name)' => Ending(ops[p].name)
      BY <1>1, <1>2, <2>5 DEF Ending, IInv, Typed
    <3> QED BY <1>5, <3>1, <3>2
  <2> QED BY <2>6, <2>7, <2>8, <2>10, <2>11 DEF IInv
<1> QED BY <1>6, <1>7

-----------------------------------------------------------------------------
(* An operation that worked reports an end; it does not live on, and none  *)
(* else lives under its name.                                              *)
Ends(o, r) ==
    /\ r.name = ops[o].name /\ (r.state = "over" \/ r.failed)
    /\ ops[o].state # "over" /\ (ops[o].state = "idle" => o \in cancels)
    /\ ops' = [ops EXCEPT ![o] = r]
    /\ checks' = Append(checks, ops[o].name)
    /\ cancels' = cancels \/ (cancels' = cancels \ {o} /\ o \in cancels)
    /\ unstarted' = (unstarted \/ ops[o].state = "idle")
    /\ twice' = (twice \/ ops[o].failed)
    /\ paths' = paths /\ queue' = queue /\ count' = count /\ hasty' = hasty

LEMMA EndKeeps ==
    ASSUME IInv, NEW o \in 1 .. Len(ops), NEW r \in Download, Ends(o, r)
    PROVE  IInv'
<1> USE DEF Ends
<1>1. /\ ops' \in Seq(Download) /\ Len(ops') = Len(ops)
      /\ \A p \in 1 .. Len(ops) :
            ops'[p] = (IF p = o THEN r ELSE ops[p]) /\ ops'[p].name = ops[p].name
  BY OneChanges DEF IInv, Typed
<1>2. /\ ops[o].name \in Names /\ checks' \in Seq(Names) /\ Len(checks') = Len(checks) + 1
      /\ Len(checks) \in Nat /\ ToSet(checks') = ToSet(checks) \cup {ops[o].name}
  <2>1. ops[o].name \in Names /\ checks \in Seq(Names)
    BY NameOf DEF IInv, Typed
  <2>2. /\ checks' \in Seq(Names) /\ Len(checks') = Len(checks) + 1 /\ Len(checks) \in Nat
        /\ \A i \in 1 .. Len(checks) : checks'[i] = checks[i]
        /\ checks'[Len(checks) + 1] = ops[o].name
    BY <2>1
  <2>3. DOMAIN checks = 1 .. Len(checks) /\ DOMAIN checks' = (1 .. Len(checks)) \cup {Len(checks) + 1}
    BY <2>1, <2>2
  <2> QED BY <2>1, <2>2, <2>3 DEF ToSet
<1>3. o \notin ToSet(queue) /\ ToSet(queue) \subseteq 1 .. Len(ops)
  BY DEF IInv, Waiting, Typed, ToSet
<1>4. Typed'
  <2>1. ops[o] \in Download
    BY DEF IInv, Typed
  <2>2. twice' \in BOOLEAN /\ unstarted' \in BOOLEAN
    BY <2>1 DEF IInv, Typed, Download
  <2> QED BY <1>1, <1>2, <2>2 DEF IInv, Typed
<1>5. Named'
  BY <1>1 DEF IInv, Named, Typed, None
<1>6. Waiting'
  BY <1>1, <1>3 DEF IInv, Waiting
<1>7. Counted'
  <2> SUFFICES ASSUME ~unstarted, ~twice, ~ops[o].failed, ops[o].state # "idle"
               PROVE  count = Cardinality(Started') + Len(checks') /\ count <= MaxForced
    BY DEF Counted, IInv, Typed
  <2>1. Ids = 1 .. Len(ops) /\ Ids' = 1 .. Len(ops)
    BY <1>1, <1>4, IdsAre DEF IInv, Typed, Ids
  <2>2. \A p \in 1 .. Len(ops) : Working(p)' <=> (Working(p) /\ p # o)
    BY <1>1 DEF Working
  <2>3. Working(o)
    <3>1. ops[o] \in Download
      BY DEF IInv, Typed
    <3> QED BY <3>1 DEF Working, Download
  <2>4. Started' = Started \ {o} /\ o \in Started
    BY <2>1, <2>2, <2>3 DEF Started
  <2>5. Cardinality(Started) \in Nat /\ Cardinality(Started') = Cardinality(Started) - 1
    BY <2>4, StartedFinite, FS_RemoveElement DEF IInv
  <2> QED BY <1>2, <2>5 DEF IInv, Counted
<1>8. Found'
  <2> SUFFICES ASSUME ~hasty, ~twice, ~ops[o].failed, NEW p \in 1 .. Len(ops), Lives(p)'
               PROVE  paths[ops[p].name] = p /\ ~Ending(ops[p].name)'
    BY <1>1 DEF Found, IInv, Typed
  <2>1. p # o
    BY <1>1, <1>3 DEF Lives, Working
  <2>2. Lives(p)
    BY <1>1, <2>1 DEF Lives, Working
  <2>3. paths[ops[p].name] = p /\ ~Ending(ops[p].name)
    BY <2>2 DEF IInv, Found
  <2>4. ops[p].name # ops[o].name
    <3>2. CASE o \in cancels
      BY <2>3, <3>2 DEF Ending
    <3>3. CASE o \notin cancels
      <4>1. ops[o] \in Download
        BY DEF IInv, Typed
      <4>2. Working(o)
        BY <3>3, <4>1 DEF Working, Download
      <4>3. paths[ops[o].name] = o
        BY <3>3, <4>2 DEF IInv, Found, Lives
      <4> QED BY <2>1, <2>3, <4>3
    <3> QED BY <3>2, <3>3
  <2>5. ~Ending(ops[p].name)'
    BY <1>1, <1>2, <2>3, <2>4 DEF Ending, IInv, Typed
  <2> QED BY <2>3, <2>5
<1> QED BY <1>4, <1>5, <1>6, <1>7, <1>8 DEF IInv

LEMMA FinishKeeps ==
    ASSUME IInv, NEW o \in Ids, Finish(o)
    PROVE  IInv'
<1> DEFINE r == [ops[o] EXCEPT !.state = "over"]
<1>1. o \in 1 .. Len(ops) /\ ops[o] \in Download
  BY IdsAre DEF IInv, Typed
<1>2. r \in Download /\ r.name = ops[o].name /\ r.state = "over"
  BY <1>1, DownloadChanges
<1>3. /\ ops[o].state = "downloading" /\ ~ops[o].failed
      /\ ops' = [ops EXCEPT ![o] = r]
      /\ checks' = Append(checks, ops[o].name)
      /\ UNCHANGED <<paths, queue, count, cancels, unstarted, twice, hasty>>
  BY DEF Finish, Working
<1>4. twice' = (twice \/ ops[o].failed) /\ unstarted' = (unstarted \/ ops[o].state = "idle")
  BY <1>3 DEF IInv, Typed
<1> HIDE DEF r
<1>5. Ends(o, r)
  BY <1>2, <1>3, <1>4 DEF Ends
<1> QED BY <1>1, <1>2, <1>5, EndKeeps

LEMMA FailKeeps ==
    ASSUME IInv, NEW o \in Ids, Fail(o)
    PROVE  IInv'
<1> DEFINE r == [ops[o] EXCEPT !.failed = TRUE]
<1>1. o \in 1 .. Len(ops) /\ ops[o] \in Download
  BY IdsAre DEF IInv, Typed
<1>2. r \in Download /\ r.name = ops[o].name /\ r.failed
  BY <1>1, DownloadChanges
<1>3. /\ ops[o].state = "downloading"
      /\ ops' = [ops EXCEPT ![o] = r]
      /\ checks' = Append(checks, ops[o].name)
      /\ twice' = (twice \/ ops[o].failed)
      /\ UNCHANGED <<paths, queue, count, cancels, unstarted, hasty>>
  BY DEF Fail
<1>4. unstarted' = (unstarted \/ ops[o].state = "idle")
  BY <1>3 DEF IInv, Typed
<1> HIDE DEF r
<1>5. Ends(o, r)
  BY <1>2, <1>3, <1>4 DEF Ends
<1> QED BY <1>1, <1>2, <1>5, EndKeeps

LEMMA CancelledKeeps ==
    ASSUME IInv, NEW o \in Ids, Cancelled(o)
    PROVE  IInv'
<1> DEFINE r == [ops[o] EXCEPT !.state = "over"]
<1>1. /\ o \in 1 .. Len(ops) /\ ops[o] \in Download
      /\ o \in cancels /\ cancels' = cancels \ {o}
      /\ UNCHANGED <<paths, queue, count, hasty>>
  BY IdsAre DEF IInv, Typed, Cancelled
<1>2. CASE ops[o].state = "over"
  <2>1. UNCHANGED <<ops, checks, unstarted, twice>>
    BY <1>2 DEF Cancelled
  <2>2. Typed' /\ Named' /\ Waiting'
    BY <1>1, <2>1 DEF IInv, Typed, Named, Waiting
  <2>3. Counted'
    BY <1>1, <2>1 DEF IInv, Counted, Started, Ids, Working
  <2>4. Found'
    <3> SUFFICES ASSUME ~hasty, ~twice, NEW p \in 1 .. Len(ops), Lives(p)'
                 PROVE  paths[ops[p].name] = p /\ ~Ending(ops[p].name)'
      BY <1>1, <2>1 DEF Found
    <3>1. p # o
      BY <1>1, <1>2, <2>1 DEF Lives, Working, IInv, Waiting
    <3>2. Lives(p)
      BY <1>1, <2>1, <3>1 DEF Lives, Working
    <3>3. Ending(ops[p].name)' => Ending(ops[p].name)
      BY <1>1, <2>1 DEF Ending
    <3> QED BY <3>2, <3>3 DEF IInv, Found
  <2> QED BY <2>2, <2>3, <2>4 DEF IInv
<1>3. CASE ops[o].state # "over"
  <2>1. r \in Download /\ r.name = ops[o].name /\ r.state = "over"
    BY <1>1, DownloadChanges
  <2>2. /\ ops' = [ops EXCEPT ![o] = r]
        /\ checks' = Append(checks, ops[o].name)
        /\ unstarted' = (unstarted \/ ops[o].state = "idle")
        /\ twice' = (twice \/ ops[o].failed)
    BY <1>3 DEF Cancelled
  <2> HIDE DEF r
  <2> QED BY <1>1, <1>3, <2>1, <2>2, EndKeeps DEF Ends
<1> QED BY <1>2, <1>3

-----------------------------------------------------------------------------
LEMMA NextKeeps == IInv /\ [Next]_vars => IInv'
<1> SUFFICES ASSUME IInv, [Next]_vars
             PROVE  IInv'
  OBVIOUS
<1>1. ASSUME NEW n \in Names, LoadAgain(n) \/ CancelLoadFile(n)
      PROVE  IInv'
  BY <1>1, LoadAgainKeeps, CancelLoadFileKeeps
<1>2. ASSUME NEW n \in Names, NEW force \in BOOLEAN, LoadFile(n, force)
      PROVE  IInv'
  BY <1>2, LoadFileKeeps
<1>3. CASE CheckDownloadQueue
  BY <1>3, CheckDownloadQueueKeeps
<1>4. ASSUME NEW o \in Ids, Cancelled(o) \/ Finish(o) \/ Fail(o)
      PROVE  IInv'
  BY <1>4, CancelledKeeps, FinishKeeps, FailKeeps
<1>5. CASE UNCHANGED vars
  BY <1>5 DEF vars, IInv, Typed, Named, Waiting, Counted, Started, Ids, Found, Lives, Working,
              Ending
<1> QED BY <1>1, <1>2, <1>3, <1>4, <1>5 DEF Next

LEMMA AlwaysIInv == FileLoaderAssumption => (Spec => []IInv)
<1>1. FileLoaderAssumption /\ Init => IInv
  BY InitHolds
<1>2. IInv /\ [Next]_vars => IInv'
  BY NextKeeps
<1> QED BY <1>1, <1>2, PTL DEF Spec

(* The count is the number of operations that work or whose end is not yet *)
(* handled, and no more work at once than the limit says.                  *)
THEOREM CountsWhatWorks == FileLoaderAssumption => (Spec => []CountIsRight)
<1>1. IInv => CountIsRight
  <2> SUFFICES ASSUME IInv, ~unstarted, ~twice
               PROVE  count = Cardinality(Started) + Len(checks)
                      /\ Cardinality(Started) <= MaxForced
    BY DEF CountIsRight
  <2>1. Cardinality(Started) \in Nat /\ Len(checks) \in Nat /\ MaxForced \in Nat
    BY StartedFinite DEF IInv, Typed, FileLoaderAssumption
  <2> QED BY <2>1 DEF IInv, Counted
<1> QED BY <1>1, AlwaysIInv, PTL

(* An operation that works or waits can be cancelled by its name, and no   *)
(* other downloads the same file.                                          *)
THEOREM DownloadsAreFound == FileLoaderAssumption => (Spec => []Findable)
<1>1. IInv => Findable
  BY IdsAre DEF IInv, Findable, Found, Lives
<1> QED BY <1>1, AlwaysIInv, PTL

-----------------------------------------------------------------------------
(* The uploads.                                                            *)
UploadOp == [name : UploadNames, state : {"idle", "uploading", "over"}, failed : BOOLEAN]

UploadsTyped ==
    /\ uOps \in Seq(UploadOp)
    /\ uPaths \in [UploadNames -> 0 .. Len(uOps)]
    /\ uQueue \in Seq(1 .. Len(uOps))
    /\ uCount \in Int
    /\ ends \in Seq(UploadNames)

(* An upload is kept under its own name.                                   *)
UploadsNamed == \A n \in UploadNames : uPaths[n] # 0 => uOps[uPaths[n]].name = n

(* What waits was not started.                                             *)
UploadsWaiting ==
    /\ Distinct(uQueue)
    /\ \A o \in ToSet(uQueue) : uOps[o].state = "idle" /\ ~uOps[o].failed

(* What works is counted, and so is an end that is not handled yet.        *)
Uploading == {o \in Uploads!Ids : Uploads!Working(o)}

UploadsCounted ==
    ~uTwice => Cardinality(Uploading) + Len(ends) = uCount /\ uCount <= 1

(* NamesAreFreed; and what works or waits is found by its name, and no end *)
(* of an upload is on its way under the name of another one that waits.    *)
Living == Uploading \cup ToSet(uQueue)

UploadsFreed ==
    ~uTwice => \A n \in UploadNames \ stuck :
        /\ uPaths[n] # 0 => uPaths[n] \in Living \/ n \in ToSet(ends)
        /\ n \in ToSet(ends) => uPaths[n] # 0
        /\ \A o \in Living : uOps[o].name = n => uPaths[n] = o
        /\ \A o \in ToSet(uQueue) : uOps[o].name = n => n \notin ToSet(ends)

UploadsInv == UploadsTyped /\ UploadsNamed /\ UploadsWaiting /\ UploadsCounted /\ UploadsFreed

LEMMA UploadIds == UploadsTyped => Uploads!Ids = 1 .. Len(uOps) /\ Len(uOps) \in Nat
BY DEF UploadsTyped, Uploads!Ids

LEMMA UploadingFinite == UploadsTyped => IsFiniteSet(Uploading) /\ Cardinality(Uploading) \in Nat
<1> SUFFICES ASSUME UploadsTyped
             PROVE  IsFiniteSet(Uploading) /\ Cardinality(Uploading) \in Nat
  OBVIOUS
<1>1. Uploading \in SUBSET (1 .. Len(uOps)) /\ Len(uOps) \in Nat
  BY UploadIds DEF Uploading
<1>2. IsFiniteSet(1 .. Len(uOps))
  BY <1>1, FS_Interval
<1> QED BY <1>1, <1>2, FS_Subset, FS_CardinalityType

(* An upload of which something changes that is not its name.              *)
LEMMA OneUploadChanges ==
    ASSUME NEW d \in Seq(UploadOp), NEW o \in 1 .. Len(d), NEW r \in UploadOp, r.name = d[o].name
    PROVE  /\ [d EXCEPT ![o] = r] \in Seq(UploadOp)
           /\ Len([d EXCEPT ![o] = r]) = Len(d)
           /\ \A p \in 1 .. Len(d) :
                /\ [d EXCEPT ![o] = r][p] = IF p = o THEN r ELSE d[p]
                /\ [d EXCEPT ![o] = r][p].name = d[p].name
OBVIOUS

LEMMA UploadChanges ==
    ASSUME NEW d \in UploadOp
    PROVE  /\ [d EXCEPT !.failed = TRUE] \in UploadOp
           /\ [d EXCEPT !.failed = TRUE].name = d.name
           /\ [d EXCEPT !.failed = TRUE].state = d.state
           /\ [d EXCEPT !.failed = TRUE].failed
           /\ \A st \in {"idle", "uploading", "over"} :
                /\ [d EXCEPT !.state = st] \in UploadOp
                /\ [d EXCEPT !.state = st].name = d.name
                /\ [d EXCEPT !.state = st].state = st
                /\ [d EXCEPT !.state = st].failed = d.failed
<1>1. d = [name |-> d.name, state |-> d.state, failed |-> d.failed]
      /\ d.name \in UploadNames /\ d.state \in {"idle", "uploading", "over"} /\ d.failed \in BOOLEAN
  BY DEF UploadOp
<1> QED BY <1>1 DEF UploadOp

LEMMA UploadsInit == Uploads!Init => UploadsInv
<1> SUFFICES ASSUME Uploads!Init PROVE UploadsInv
  OBVIOUS
<1>1. /\ uOps = <<>> /\ Len(uOps) = 0 /\ 1 .. 0 = {} /\ uQueue = <<>> /\ ToSet(uQueue) = {}
      /\ ends = <<>> /\ Len(ends) = 0 /\ ToSet(ends) = {} /\ uCount = 0
      /\ uPaths \in [UploadNames -> {0}]
  BY DEF Uploads!Init, Uploads!None, ToSet
<1>2. UploadsTyped
  <2>1. uOps \in Seq(UploadOp) /\ uQueue \in Seq(1 .. Len(uOps)) /\ ends \in Seq(UploadNames)
    BY <1>1
  <2>2. uPaths \in [UploadNames -> 0 .. Len(uOps)] /\ uCount \in Int
    BY <1>1
  <2> QED BY <2>1, <2>2 DEF UploadsTyped
<1>3. Uploading = {}
  BY <1>1, <1>2, UploadIds DEF Uploading
<1>4. UploadsNamed /\ UploadsWaiting /\ UploadsFreed
  BY <1>1, <1>3 DEF UploadsNamed, UploadsWaiting, UploadsFreed, Distinct, Living
<1>5. UploadsCounted
  BY <1>1, <1>3, FS_EmptySet DEF UploadsCounted
<1> QED BY <1>2, <1>4, <1>5 DEF UploadsInv

(* uploadFile: it works at once or waits.                                  *)
LEMMA UploadFileKeeps ==
    ASSUME UploadsInv, NEW n \in UploadNames, Uploads!UploadFile(n)
    PROVE  UploadsInv'
<1> PICK o : o = Len(uOps) + 1
  OBVIOUS
<1> DEFINE starts == uCount < 1
           d == Uploads!Operation(n, IF starts THEN "uploading" ELSE "idle")
<1>1. /\ uPaths[n] = 0
      /\ uPaths' = [uPaths EXCEPT ![n] = o]
      /\ uOps' = Append(uOps, d)
      /\ starts => uCount' = uCount + 1 /\ uQueue' = uQueue
      /\ ~starts => uCount' = uCount /\ uQueue' = Append(uQueue, o)
      /\ UNCHANGED <<ends, uTwice, stuck>>
  BY DEF Uploads!UploadFile, Uploads!None
<1>2. /\ d \in UploadOp /\ d.name = n /\ ~d.failed
      /\ d.state = IF starts THEN "uploading" ELSE "idle"
  BY DEF Uploads!Operation, UploadOp
<1> HIDE DEF d, starts
<1>3. /\ uOps \in Seq(UploadOp) /\ Len(uOps) \in Nat /\ o \in 1 .. o /\ o \notin 1 .. Len(uOps)
      /\ 1 .. o = (1 .. Len(uOps)) \cup {o} /\ o # 0
  BY DEF UploadsInv, UploadsTyped
<1>4. /\ uOps' \in Seq(UploadOp) /\ Len(uOps') = o /\ uOps'[o] = d
      /\ \A p \in 1 .. Len(uOps) : uOps'[p] = uOps[p]
  BY <1>1, <1>2, <1>3
<1>5. Uploads!Ids = 1 .. Len(uOps) /\ Uploads!Ids' = 1 .. o
  BY <1>3, <1>4 DEF Uploads!Ids
<1>6. ToSet(uQueue) \subseteq 1 .. Len(uOps)
  BY DEF UploadsInv, UploadsTyped, ToSet
<1>7. /\ uQueue' \in Seq(1 .. o) /\ Distinct(uQueue')
      /\ ToSet(uQueue') = IF starts THEN ToSet(uQueue) ELSE ToSet(uQueue) \cup {o}
  <2>1. uQueue \in Seq(1 .. o) /\ Distinct(uQueue) /\ o \notin ToSet(uQueue)
    BY <1>3, <1>6 DEF UploadsInv, UploadsTyped, UploadsWaiting
  <2>2. CASE starts
    BY <1>1, <2>1, <2>2
  <2>3. CASE ~starts
    <3>1. /\ Append(uQueue, o) \in Seq(1 .. o) /\ Distinct(Append(uQueue, o))
          /\ ToSet(Append(uQueue, o)) = ToSet(uQueue) \cup {o}
      BY <1>3, <2>1, AppendedTo
    <3> QED BY <1>1, <2>3, <3>1
  <2> QED BY <2>2, <2>3
<1>8. \A x \in UploadNames : uPaths'[x] = IF x = n THEN o ELSE uPaths[x]
  BY <1>1 DEF UploadsInv, UploadsTyped
<1>9. UploadsTyped'
  <2>1. \A x \in UploadNames : uPaths[x] \in 0 .. o
    BY <1>3 DEF UploadsInv, UploadsTyped
  <2>2. uPaths' \in [UploadNames -> 0 .. o] /\ uCount' \in Int /\ ends' \in Seq(UploadNames)
    BY <1>1, <1>3, <2>1 DEF UploadsInv, UploadsTyped
  <2> QED BY <1>4, <1>7, <2>2 DEF UploadsTyped
<1>10. UploadsNamed'
  <2> SUFFICES ASSUME NEW x \in UploadNames, uPaths'[x] # 0
               PROVE  uOps'[uPaths'[x]].name = x
    BY DEF UploadsNamed
  <2>1. CASE x = n
    BY <1>2, <1>4, <1>8, <2>1
  <2>2. CASE x # n
    <3>1. uPaths[x] # 0 /\ uPaths[x] \in 1 .. Len(uOps)
      BY <1>3, <1>8, <2>2 DEF UploadsInv, UploadsTyped
    <3> QED BY <1>4, <1>8, <2>2, <3>1 DEF UploadsInv, UploadsNamed
  <2> QED BY <2>1, <2>2
<1>11. UploadsWaiting'
  BY <1>2, <1>3, <1>4, <1>6, <1>7 DEF UploadsInv, UploadsWaiting
<1>12. /\ \A p \in 1 .. Len(uOps) : Uploads!Working(p)' <=> Uploads!Working(p)
       /\ Uploads!Working(o)' <=> starts
  BY <1>2, <1>4 DEF Uploads!Working
<1>13. Uploading' = (IF starts THEN Uploading \cup {o} ELSE Uploading) /\ o \notin Uploading
  BY <1>3, <1>5, <1>12 DEF Uploading
<1>14. UploadsCounted'
  <2> SUFFICES ASSUME ~uTwice
               PROVE  Cardinality(Uploading') + Len(ends) = uCount' /\ uCount' <= 1
    BY <1>1 DEF UploadsCounted
  <2>1. Cardinality(Uploading) + Len(ends) = uCount /\ uCount <= 1 /\ Len(ends) \in Nat
    BY DEF UploadsInv, UploadsCounted, UploadsTyped
  <2>2. /\ IsFiniteSet(Uploading) /\ Cardinality(Uploading) \in Nat
        /\ Cardinality(Uploading \cup {o}) = Cardinality(Uploading) + 1
    BY <1>13, UploadingFinite, FS_AddElement DEF UploadsInv
  <2> QED BY <1>1, <1>13, <2>1, <2>2 DEF starts
<1>15. Living' = Living \cup {o} /\ Living \subseteq 1 .. Len(uOps)
  BY <1>5, <1>6, <1>7, <1>13 DEF Living, Uploading
<1>16. UploadsFreed'
  <2> SUFFICES ASSUME ~uTwice, NEW x \in UploadNames \ stuck
               PROVE  /\ uPaths'[x] # 0 => uPaths'[x] \in Living' \/ x \in ToSet(ends)
                      /\ x \in ToSet(ends) => uPaths'[x] # 0
                      /\ \A p \in Living' : uOps'[p].name = x => uPaths'[x] = p
                      /\ \A p \in ToSet(uQueue') : uOps'[p].name = x => x \notin ToSet(ends)
    BY <1>1 DEF UploadsFreed
  <2>1. /\ uPaths[x] # 0 => uPaths[x] \in Living \/ x \in ToSet(ends)
        /\ x \in ToSet(ends) => uPaths[x] # 0
        /\ \A p \in Living : uOps[p].name = x => uPaths[x] = p
        /\ \A p \in ToSet(uQueue) : uOps[p].name = x => x \notin ToSet(ends)
    BY DEF UploadsInv, UploadsFreed
  <2>2. \A p \in Living : p # 0
    BY <1>3, <1>15
  <2>3. CASE x = n
    <3>1. x \notin ToSet(ends) /\ uPaths'[x] = o
      BY <1>1, <1>8, <2>1, <2>3
    <3>2. \A p \in Living : uOps[p].name # x
      BY <1>1, <2>1, <2>2, <2>3
    <3> QED BY <1>3, <1>4, <1>15, <3>1, <3>2
  <2>4. CASE x # n
    <3>1. uPaths'[x] = uPaths[x]
      BY <1>8, <2>4
    <3>2. uOps'[o].name # x
      BY <1>2, <1>4, <2>4
    <3> QED BY <1>4, <1>6, <1>7, <1>15, <2>1, <3>1, <3>2, SMTT(60)
  <2> QED BY <2>3, <2>4
<1> QED BY <1>9, <1>10, <1>11, <1>14, <1>16 DEF UploadsInv

(* An upload that works stops working, and its end is posted: it finishes, *)
(* fails or is cancelled.                                                  *)
UploadEnds(o, r) ==
    /\ uOps[o].state = "uploading"
    /\ r \in UploadOp /\ r.name = uOps[o].name /\ (r.state = "over" \/ r.failed)
    /\ uOps' = [uOps EXCEPT ![o] = r]
    /\ ends' = Append(ends, uOps[o].name)
    /\ ~uTwice' => ~uTwice /\ ~uOps[o].failed
    /\ UNCHANGED <<uPaths, uQueue, uCount, stuck>>

LEMMA UploadEndKeeps ==
    ASSUME UploadsInv, NEW o \in 1 .. Len(uOps), NEW r, UploadEnds(o, r)
    PROVE  UploadsInv'
<1> DEFINE n == uOps[o].name
<1>1. /\ uOps \in Seq(UploadOp) /\ Len(uOps) \in Nat /\ n \in UploadNames /\ ends \in Seq(UploadNames)
      /\ uOps[o].state # "idle"
  <2>1. uOps \in Seq(UploadOp) /\ ends \in Seq(UploadNames)
    BY DEF UploadsInv, UploadsTyped
  <2>2. uOps[o] \in UploadOp
    BY <2>1
  <2> QED BY <2>1, <2>2 DEF UploadOp, UploadEnds
<1>2. /\ uOps' \in Seq(UploadOp) /\ Len(uOps') = Len(uOps)
      /\ \A p \in 1 .. Len(uOps) :
            /\ uOps'[p] = IF p = o THEN r ELSE uOps[p]
            /\ uOps'[p].name = uOps[p].name
  BY <1>1, OneUploadChanges DEF UploadEnds
<1>3. /\ UNCHANGED <<uPaths, uQueue, uCount, stuck>>
      /\ ~uTwice' => ~uTwice /\ Uploads!Working(o)
      /\ ends' = Append(ends, n)
  BY DEF UploadEnds, Uploads!Working
<1> HIDE DEF n
<1>4. /\ ends' \in Seq(UploadNames) /\ Len(ends') = Len(ends) + 1
      /\ ToSet(ends') = ToSet(ends) \cup {n}
  <2>1. /\ Append(ends, n) \in Seq(UploadNames) /\ Len(Append(ends, n)) = Len(ends) + 1
        /\ Append(ends, n)[Len(ends) + 1] = n /\ Len(ends) \in Nat
        /\ \A i \in 1 .. Len(ends) : Append(ends, n)[i] = ends[i]
    BY <1>1
  <2> DEFINE longer == Append(ends, n)
  <2>2. DOMAIN ends = 1 .. Len(ends) /\ DOMAIN longer = 1 .. Len(ends) + 1
    BY <1>1, <2>1
  <2> HIDE DEF longer
  <2>3. ToSet(longer) = ToSet(ends) \cup {n}
    BY <2>1, <2>2 DEF ToSet, longer
  <2> QED BY <1>3, <2>1, <2>3 DEF longer
<1>5. /\ o \notin ToSet(uQueue) /\ ToSet(uQueue) \subseteq 1 .. Len(uOps)
  BY <1>1 DEF UploadsInv, UploadsWaiting, UploadsTyped, ToSet
<1>6. UploadsTyped'
  BY <1>2, <1>3, <1>4 DEF UploadsInv, UploadsTyped
<1>7. UploadsNamed'
  BY <1>2, <1>3 DEF UploadsInv, UploadsNamed, UploadsTyped
<1>8. UploadsWaiting'
  BY <1>2, <1>3, <1>5 DEF UploadsInv, UploadsWaiting
<1>9. ~uTwice' => o \in Uploading
  BY <1>3, UploadIds DEF Uploading, UploadsInv
<1>10. Uploading' = Uploading \ {o}
  <2>1. Uploads!Ids' = Uploads!Ids /\ Uploads!Ids = 1 .. Len(uOps)
    BY <1>2, <1>6, UploadIds DEF UploadsInv, UploadsTyped, Uploads!Ids
  <2>2. \A p \in 1 .. Len(uOps) : p # o => (Uploads!Working(p)' <=> Uploads!Working(p))
    BY <1>2 DEF Uploads!Working
  <2>3. ~Uploads!Working(o)'
    <3>1. uOps'[o] = r
      BY <1>2
    <3> QED BY <3>1 DEF Uploads!Working, UploadEnds
  <2> QED BY <2>1, <2>2, <2>3 DEF Uploading
<1>11. UploadsCounted'
  <2> SUFFICES ASSUME ~uTwice'
               PROVE  Cardinality(Uploading') + Len(ends') = uCount' /\ uCount' <= 1
    BY DEF UploadsCounted
  <2>1. Cardinality(Uploading) + Len(ends) = uCount /\ uCount <= 1 /\ Len(ends) \in Nat
    BY <1>3 DEF UploadsInv, UploadsCounted, UploadsTyped
  <2>2. /\ IsFiniteSet(Uploading) /\ Cardinality(Uploading) \in Nat
        /\ Cardinality(Uploading \ {o}) = Cardinality(Uploading) - 1
    BY <1>9, UploadingFinite, FS_RemoveElement DEF UploadsInv
  <2> QED BY <1>3, <1>4, <1>10, <2>1, <2>2
<1>12. UploadsFreed'
  <2> SUFFICES ASSUME ~uTwice', NEW x \in UploadNames \ stuck
               PROVE  /\ uPaths[x] # 0 => uPaths[x] \in Living' \/ x \in ToSet(ends')
                      /\ x \in ToSet(ends') => uPaths[x] # 0
                      /\ \A p \in Living' : uOps'[p].name = x => uPaths[x] = p
                      /\ \A p \in ToSet(uQueue) : uOps'[p].name = x => x \notin ToSet(ends')
    BY <1>3 DEF UploadsFreed
  <2>1. /\ uPaths[x] # 0 => uPaths[x] \in Living \/ x \in ToSet(ends)
        /\ x \in ToSet(ends) => uPaths[x] # 0
        /\ \A p \in Living : uOps[p].name = x => uPaths[x] = p
        /\ \A p \in ToSet(uQueue) : uOps[p].name = x => x \notin ToSet(ends)
    BY <1>3 DEF UploadsInv, UploadsFreed
  <2>2. /\ Living' = Living \ {o} /\ o \in Living /\ ToSet(uQueue) \subseteq Living
        /\ Living \subseteq 1 .. Len(uOps) /\ o # 0
    BY <1>1, <1>3, <1>5, <1>9, <1>10, UploadIds DEF Living, Uploading, UploadsInv
  <2>3. x = n => uPaths[x] = o
    BY <2>1, <2>2 DEF n
  <2>4. x # n => (x \in ToSet(ends') <=> x \in ToSet(ends)) /\ uPaths[x] # o
    <3>1. uPaths[x] = o => uOps[o].name = x
      BY <1>1 DEF UploadsInv, UploadsNamed
    <3> QED BY <1>4, <3>1 DEF n
  <2>5. \A p \in Living : uOps'[p].name = uOps[p].name
    BY <1>2, <2>2
  <2>6. CASE x = n
    BY <1>4, <1>5, <2>1, <2>2, <2>3, <2>5, <2>6
  <2>7. CASE x # n
    BY <2>1, <2>2, <2>4, <2>5, <2>7
  <2> QED BY <2>6, <2>7
<1> QED BY <1>6, <1>7, <1>8, <1>11, <1>12 DEF UploadsInv

LEMMA UploadFinishKeeps ==
    ASSUME UploadsInv, NEW o \in Uploads!Ids, Uploads!Finish(o) \/ Uploads!Fail(o)
    PROVE  UploadsInv'
<1>1. o \in 1 .. Len(uOps) /\ uOps[o] \in UploadOp
  BY UploadIds DEF UploadsInv, UploadsTyped
<1>2. PICK r \in {[uOps[o] EXCEPT !.state = "over"], [uOps[o] EXCEPT !.failed = TRUE]} :
        uOps' = [uOps EXCEPT ![o] = r]
  BY DEF Uploads!Finish, Uploads!Fail
<1>3. r \in UploadOp /\ r.name = uOps[o].name /\ (r.state = "over" \/ r.failed)
  <2>1. CASE r = [uOps[o] EXCEPT !.state = "over"]
    BY <1>1, <2>1, UploadChanges
  <2>2. CASE r = [uOps[o] EXCEPT !.failed = TRUE]
    BY <1>1, <2>2, UploadChanges
  <2> QED BY <1>2, <2>1, <2>2
<1>4. /\ uOps[o].state = "uploading" /\ ~uOps[o].failed
      /\ ends' = Append(ends, uOps[o].name)
      /\ UNCHANGED <<uPaths, uQueue, uCount, uTwice, stuck>>
  BY DEF Uploads!Finish, Uploads!Fail, Uploads!Working
<1>5. UploadEnds(o, r)
  BY <1>2, <1>3, <1>4 DEF UploadEnds
<1> QED BY <1>1, <1>5, UploadEndKeeps

(* An end is reported a second time: what is counted is of no account then.*)
LEMMA FinishCancelledKeeps ==
    ASSUME UploadsInv, NEW o \in Uploads!Ids, Uploads!FinishCancelled(o)
    PROVE  UploadsInv'
<1>1. /\ UNCHANGED <<uOps, uPaths, uQueue, uCount, stuck>> /\ uTwice'
      /\ ends' = Append(ends, uOps[o].name) /\ ends \in Seq(UploadNames)
      /\ o \in 1 .. Len(uOps) /\ uOps[o] \in UploadOp
  BY UploadIds DEF Uploads!FinishCancelled, UploadsInv, UploadsTyped
<1>2. ends' \in Seq(UploadNames)
  <2>1. uOps[o].name \in UploadNames
    BY <1>1 DEF UploadOp
  <2> QED BY <1>1, <2>1
<1>3. UploadsTyped' /\ UploadsNamed' /\ UploadsWaiting'
  BY <1>1, <1>2 DEF UploadsInv, UploadsTyped, UploadsNamed, UploadsWaiting
<1>4. UploadsCounted' /\ UploadsFreed'
  BY <1>1 DEF UploadsCounted, UploadsFreed
<1> QED BY <1>3, <1>4 DEF UploadsInv

LEMMA RemovedIsRemoved == \A list, o : Uploads!Removed(list, o) = Removed(list, o)
BY DEF Uploads!Removed, Uploads!ToSet, Uploads!RemoveAt, Removed, ToSet, RemoveAt

(* cancelUploadFile: one that works ends; one that waits keeps its name.   *)
LEMMA CancelUploadFileKeeps ==
    ASSUME UploadsInv, NEW n \in UploadNames, Uploads!CancelUploadFile(n)
    PROVE  UploadsInv'
<1> DEFINE o == uPaths[n]
<1>1. /\ o # 0 /\ uQueue' = Removed(uQueue, o) /\ UNCHANGED <<uPaths, uCount>>
      /\ \/ /\ uOps[o].state = "uploading"
            /\ uOps' = [uOps EXCEPT ![o].state = "over"] /\ ends' = Append(ends, n)
            /\ uTwice' = (uTwice \/ Uploads!Reported(o)) /\ stuck' = stuck
         \/ /\ uOps[o].state # "uploading"
            /\ stuck' = IF uOps[o].state = "idle" THEN stuck \cup {n} ELSE stuck
            /\ UNCHANGED <<uOps, ends, uTwice>>
  BY RemovedIsRemoved DEF Uploads!CancelUploadFile, Uploads!None
<1>2. /\ o \in 1 .. Len(uOps) /\ uOps[o].name = n /\ Len(uOps) \in Nat
      /\ uOps \in Seq(UploadOp) /\ uOps[o] \in UploadOp
  BY <1>1 DEF UploadsInv, UploadsTyped, UploadsNamed
<1> HIDE DEF o
<1>3. /\ uQueue' \in Seq(1 .. Len(uOps)) /\ Distinct(uQueue')
      /\ ToSet(uQueue') = ToSet(uQueue) \ {o}
      /\ ToSet(uQueue) \subseteq 1 .. Len(uOps)
  <2>1. uQueue \in Seq(1 .. Len(uOps)) /\ Distinct(uQueue)
    BY DEF UploadsInv, UploadsTyped, UploadsWaiting
  <2>2. ToSet(uQueue) \subseteq 1 .. Len(uOps)
    BY <2>1 DEF ToSet
  <2> QED BY <1>1, <2>1, <2>2, RemovedFrom
<1>4. CASE uOps[o].state = "uploading"
  <2> DEFINE r == [uOps[o] EXCEPT !.state = "over"]
  <2>1. r \in UploadOp /\ r.name = uOps[o].name /\ r.state = "over"
    BY <1>2, UploadChanges
  <2>2. uOps' = [uOps EXCEPT ![o] = r] /\ ends' = Append(ends, uOps[o].name) /\ stuck' = stuck
    BY <1>1, <1>2, <1>4
  <2>3. uQueue' = uQueue
    <3>1. o \notin ToSet(uQueue)
      BY <1>4 DEF UploadsInv, UploadsWaiting
    <3> QED BY <1>1, <3>1 DEF Removed
  <2>4. ~uTwice' => ~uTwice /\ ~uOps[o].failed
    BY <1>1, <1>4, Zenon DEF Uploads!Reported
  <2> HIDE DEF r
  <2>5. UploadEnds(o, r)
    BY <1>1, <1>4, <2>1, <2>2, <2>3, <2>4 DEF UploadEnds
  <2> QED BY <1>2, <2>5, UploadEndKeeps
<1>5. CASE uOps[o].state # "uploading"
  <2>1. /\ UNCHANGED <<uOps, uPaths, uCount, ends, uTwice>>
        /\ stuck' = IF uOps[o].state = "idle" THEN stuck \cup {n} ELSE stuck
    BY <1>1, <1>5
  <2>2. UploadsTyped' /\ UploadsNamed' /\ UploadsWaiting'
    BY <1>3, <2>1 DEF UploadsInv, UploadsTyped, UploadsNamed, UploadsWaiting
  <2>3. Uploading' = Uploading
    BY <2>1 DEF Uploading, Uploads!Ids, Uploads!Working
  <2>4. UploadsCounted'
    BY <2>1, <2>3 DEF UploadsInv, UploadsCounted
  <2>5. UploadsFreed'
    <3> SUFFICES ASSUME ~uTwice, NEW x \in UploadNames \ stuck'
                 PROVE  /\ uPaths[x] # 0 => uPaths[x] \in Living' \/ x \in ToSet(ends)
                        /\ x \in ToSet(ends) => uPaths[x] # 0
                        /\ \A p \in Living' : uOps[p].name = x => uPaths[x] = p
                        /\ \A p \in ToSet(uQueue') : uOps[p].name = x => x \notin ToSet(ends)
      BY <2>1 DEF UploadsFreed
    <3>1. x \notin stuck /\ (uOps[o].state = "idle" => x # n)
      BY <2>1
    <3>2. /\ uPaths[x] # 0 => uPaths[x] \in Living \/ x \in ToSet(ends)
          /\ x \in ToSet(ends) => uPaths[x] # 0
          /\ \A p \in Living : uOps[p].name = x => uPaths[x] = p
          /\ \A p \in ToSet(uQueue) : uOps[p].name = x => x \notin ToSet(ends)
      BY <3>1 DEF UploadsInv, UploadsFreed
    <3>3. Living' \subseteq Living /\ Living \ {o} \subseteq Living'
      BY <1>3, <2>3 DEF Living
    <3>4. uPaths[x] = o => uPaths[x] \notin Living
      <4>1. uPaths[x] = o => x = n
        BY <1>1, <1>2 DEF UploadsInv, UploadsNamed
      <4>2. o \in Living => uOps[o].state = "idle"
        BY <1>5 DEF Living, Uploading, Uploads!Working, UploadsInv, UploadsWaiting
      <4> QED BY <3>1, <4>1, <4>2
    <3> QED BY <1>3, <3>2, <3>3, <3>4
  <2> QED BY <2>2, <2>4, <2>5 DEF UploadsInv
<1> QED BY <1>4, <1>5

(* The end of an upload is handled: its name is free, the next one starts. *)
LEMMA UploadEndHandled ==
    ASSUME UploadsInv, Uploads!End
    PROVE  UploadsInv'
<1> PICK n : n = Head(ends)
  OBVIOUS
<1> DEFINE starts == uCount - 1 < 1 /\ uQueue # <<>>
<1>1. /\ ends # <<>> /\ ends' = Tail(ends) /\ uPaths' = [uPaths EXCEPT ![n] = 0]
      /\ UNCHANGED <<uTwice, stuck>>
  BY DEF Uploads!End, Uploads!None
<1>2. /\ n \in UploadNames /\ Len(ends) \in Nat \ {0} /\ ends' \in Seq(UploadNames)
      /\ Len(ends') = Len(ends) - 1
      /\ ToSet(ends) = ToSet(ends') \cup {n}
      /\ Len(ends) = 1 => ToSet(ends') = {}
  <2>1. /\ ends \in Seq(UploadNames) /\ ends # <<>> /\ Len(ends) \in Nat \ {0} /\ n = ends[1]
        /\ n \in UploadNames /\ ends' \in Seq(UploadNames) /\ Len(ends') = Len(ends) - 1
        /\ \A i \in 1 .. Len(ends) - 1 : ends'[i] = ends[i + 1]
    BY <1>1 DEF UploadsInv, UploadsTyped
  <2>2. DOMAIN ends = 1 .. Len(ends) /\ DOMAIN ends' = 1 .. Len(ends) - 1
    BY <2>1
  <2>3. ToSet(ends') \cup {n} \subseteq ToSet(ends)
    <3>1. 1 \in 1 .. Len(ends) /\ \A i \in 1 .. Len(ends) - 1 : i + 1 \in 1 .. Len(ends)
      BY <2>1
    <3> QED BY <2>1, <2>2, <3>1 DEF ToSet
  <2>4. ASSUME NEW i \in 1 .. Len(ends) PROVE ends[i] \in ToSet(ends') \cup {n}
    <3>1. i # 1 => i - 1 \in 1 .. Len(ends) - 1 /\ (i - 1) + 1 = i
      BY <2>1
    <3> QED BY <2>1, <2>2, <3>1 DEF ToSet
  <2>5. ToSet(ends) \subseteq ToSet(ends') \cup {n}
    BY <2>2, <2>4 DEF ToSet
  <2>6. Len(ends) = 1 => 1 .. Len(ends) - 1 = {}
    BY <2>1
  <2> QED BY <2>1, <2>2, <2>3, <2>5, <2>6 DEF ToSet
<1>3. \A x \in UploadNames : uPaths'[x] = IF x = n THEN 0 ELSE uPaths[x]
  BY <1>1 DEF UploadsInv, UploadsTyped
<1>4. uPaths' \in [UploadNames -> 0 .. Len(uOps)] /\ Len(uOps) \in Nat
  BY <1>1, <1>3 DEF UploadsInv, UploadsTyped
(* As long as no end was counted twice, it was the only one that worked.   *)
<1>5. ~uTwice => Uploading = {} /\ uCount = 1 /\ Len(ends) = 1 /\ ToSet(ends') = {}
  <2> SUFFICES ASSUME ~uTwice
               PROVE  Uploading = {} /\ uCount = 1 /\ Len(ends) = 1 /\ ToSet(ends') = {}
    OBVIOUS
  <2>1. Cardinality(Uploading) + Len(ends) = uCount /\ uCount <= 1 /\ uCount \in Int
    BY DEF UploadsInv, UploadsCounted, UploadsTyped
  <2>2. IsFiniteSet(Uploading) /\ Cardinality(Uploading) \in Nat
    BY UploadingFinite DEF UploadsInv
  <2>3. Cardinality(Uploading) = 0 /\ uCount = 1 /\ Len(ends) = 1
    BY <1>2, <2>1, <2>2
  <2> QED BY <1>2, <2>2, <2>3, FS_EmptySet
<1>6. ~uTwice => Living = ToSet(uQueue)
  BY <1>5 DEF Living
<1>7. CASE ~starts
  <2>1. UNCHANGED <<uOps, uQueue>> /\ uCount' = uCount - 1
    BY <1>7 DEF Uploads!End
  <2>2. UploadsTyped'
    BY <1>2, <1>4, <2>1 DEF UploadsInv, UploadsTyped
  <2>3. UploadsNamed' /\ UploadsWaiting'
    BY <1>3, <2>1 DEF UploadsInv, UploadsNamed, UploadsWaiting
  <2>4. Uploading' = Uploading /\ Living' = Living
    BY <2>1 DEF Uploading, Uploads!Ids, Uploads!Working, Living
  <2>5. UploadsCounted'
    <3> SUFFICES ASSUME ~uTwice
                 PROVE  Cardinality(Uploading') + Len(ends') = uCount' /\ uCount' <= 1
      BY <1>1 DEF UploadsCounted
    <3>1. Cardinality(Uploading') = 0
      BY <1>5, <2>4, FS_EmptySet
    <3>2. Len(ends') = 0 /\ uCount' = 0
      <4>1. uCount = 1 /\ Len(ends) = 1
        BY <1>5, Zenon
      <4> QED BY <1>2, <2>1, <4>1
    <3> QED BY <3>1, <3>2
  <2>6. UploadsFreed'
    <3> SUFFICES ASSUME ~uTwice, NEW x \in UploadNames \ stuck
                 PROVE  /\ uPaths'[x] # 0 => uPaths'[x] \in Living
                        /\ \A p \in Living : uOps[p].name = x => uPaths'[x] = p
      BY <1>1, <1>5, <2>1, <2>4 DEF UploadsFreed
    <3>1. /\ uPaths[x] # 0 => uPaths[x] \in Living \/ x \in ToSet(ends)
          /\ \A p \in Living : uOps[p].name = x => uPaths[x] = p
          /\ \A p \in ToSet(uQueue) : uOps[p].name = x => x \notin ToSet(ends)
      BY DEF UploadsInv, UploadsFreed
    <3> QED BY <1>2, <1>3, <1>5, <1>6, <3>1
  <2> QED BY <2>2, <2>3, <2>5, <2>6 DEF UploadsInv
<1>8. CASE starts
  <2> PICK o : o = Head(uQueue)
    OBVIOUS
  <2> DEFINE r == [uOps[o] EXCEPT !.state = "uploading"]
  <2>1. /\ o \in 1 .. Len(uOps) /\ o \in ToSet(uQueue)
        /\ Tail(uQueue) \in Seq(1 .. Len(uOps)) /\ Distinct(Tail(uQueue))
        /\ ToSet(Tail(uQueue)) = ToSet(uQueue) \ {o}
    BY <1>8, FirstTaken DEF UploadsInv, UploadsTyped, UploadsWaiting
  <2>2. uOps[o].state = "idle" /\ ~uOps[o].failed /\ uOps[o] \in UploadOp
    BY <2>1 DEF UploadsInv, UploadsWaiting, UploadsTyped
  <2>3. uQueue' = Tail(uQueue) /\ uCount' = uCount /\ uOps' = [uOps EXCEPT ![o] = r]
    BY <1>8, <2>2 DEF Uploads!End
  <2>4. r \in UploadOp /\ r.name = uOps[o].name /\ r.state = "uploading" /\ ~r.failed
    BY <2>2, UploadChanges
  <2> HIDE DEF r
  <2>5. /\ uOps' \in Seq(UploadOp) /\ Len(uOps') = Len(uOps)
        /\ \A p \in 1 .. Len(uOps) :
              uOps'[p] = (IF p = o THEN r ELSE uOps[p]) /\ uOps'[p].name = uOps[p].name
    BY <2>1, <2>3, <2>4, OneUploadChanges DEF UploadsInv, UploadsTyped
  <2>6. UploadsTyped'
    BY <1>2, <1>4, <2>1, <2>3, <2>5 DEF UploadsInv, UploadsTyped
  <2>7. UploadsNamed'
    <3> SUFFICES ASSUME NEW x \in UploadNames, uPaths'[x] # 0
                 PROVE  uOps'[uPaths'[x]].name = x
      BY DEF UploadsNamed
    <3>1. uPaths'[x] = uPaths[x] /\ uPaths[x] \in 1 .. Len(uOps) /\ uPaths[x] # 0
      BY <1>3 DEF UploadsInv, UploadsTyped
    <3> QED BY <2>5, <3>1 DEF UploadsInv, UploadsNamed
  <2>8. ToSet(uQueue) \subseteq 1 .. Len(uOps)
    BY DEF UploadsInv, UploadsTyped, ToSet
  <2>9. UploadsWaiting'
    BY <2>1, <2>3, <2>5, <2>8 DEF UploadsInv, UploadsWaiting
  <2>10. Uploading' = Uploading \cup {o} /\ o \notin Uploading
    <3>1. Uploads!Ids = 1 .. Len(uOps) /\ Uploads!Ids' = 1 .. Len(uOps)
      BY <2>5, <2>6, UploadIds DEF UploadsInv, UploadsTyped, Uploads!Ids
    <3>2. \A p \in 1 .. Len(uOps) : Uploads!Working(p)' <=> (Uploads!Working(p) \/ p = o)
      BY <2>4, <2>5 DEF Uploads!Working
    <3>3. ~Uploads!Working(o)
      BY <2>2 DEF Uploads!Working
    <3> QED BY <2>1, <3>1, <3>2, <3>3 DEF Uploading
  <2>11. Living' = Uploading \cup ToSet(uQueue)
    BY <2>1, <2>3, <2>10 DEF Living
  <2>12. UploadsCounted'
    <3> SUFFICES ASSUME ~uTwice
                 PROVE  Cardinality(Uploading') + Len(ends') = uCount' /\ uCount' <= 1
      BY <1>1 DEF UploadsCounted
    <3>1. Uploading' = {o}
      BY <1>5, <2>10
    <3>2. Cardinality(Uploading') = 1
      BY <3>1, FS_Singleton
    <3>3. Len(ends') = 0 /\ uCount' = 1
      <4>1. uCount = 1 /\ Len(ends) = 1
        BY <1>5, Zenon
      <4> QED BY <1>2, <2>3, <4>1
    <3> QED BY <3>2, <3>3
  <2>13. UploadsFreed'
    <3> SUFFICES ASSUME ~uTwice, NEW x \in UploadNames \ stuck
                 PROVE  /\ uPaths'[x] # 0 => uPaths'[x] \in ToSet(uQueue)
                        /\ \A p \in ToSet(uQueue) : uOps'[p].name = x => uPaths'[x] = p
      BY <1>1, <1>5, <2>11 DEF UploadsFreed
    <3>1. /\ uPaths[x] # 0 => uPaths[x] \in ToSet(uQueue) \/ x \in ToSet(ends)
          /\ \A p \in ToSet(uQueue) : uOps[p].name = x => uPaths[x] = p
          /\ \A p \in ToSet(uQueue) : uOps[p].name = x => x \notin ToSet(ends)
      BY <1>6 DEF UploadsInv, UploadsFreed
    <3>2. \A p \in ToSet(uQueue) : uOps'[p].name = uOps[p].name
      BY <2>5, <2>8
    <3> QED BY <1>2, <1>3, <1>5, <3>1, <3>2
  <2> QED BY <2>6, <2>7, <2>9, <2>12, <2>13 DEF UploadsInv
<1> QED BY <1>7, <1>8

LEMMA UploadsNextKeeps == UploadsInv /\ [Uploads!Next]_(Uploads!vars) => UploadsInv'
<1> SUFFICES ASSUME UploadsInv, [Uploads!Next]_(Uploads!vars)
             PROVE  UploadsInv'
  OBVIOUS
<1>1. ASSUME NEW n \in UploadNames, Uploads!UploadFile(n) \/ Uploads!CancelUploadFile(n)
      PROVE  UploadsInv'
  BY <1>1, UploadFileKeeps, CancelUploadFileKeeps
<1>2. ASSUME NEW o \in Uploads!Ids,
             Uploads!Finish(o) \/ Uploads!FinishCancelled(o) \/ Uploads!Fail(o)
      PROVE  UploadsInv'
  BY <1>2, UploadFinishKeeps, FinishCancelledKeeps
<1>3. CASE Uploads!End
  BY <1>3, UploadEndHandled
<1>4. CASE UNCHANGED Uploads!vars
  BY <1>4 DEF Uploads!vars, UploadsInv, UploadsTyped, UploadsNamed, UploadsWaiting,
              UploadsCounted, UploadsFreed, Living, Uploading, Uploads!Ids, Uploads!Working
<1> QED BY <1>1, <1>2, <1>3, <1>4 DEF Uploads!Next

(* As long as no upload has reported two ends: one works at a time and is  *)
(* counted until its end is handled; and a name that is taken is that of   *)
(* an upload that works, waits or has just ended, unless it was cancelled  *)
(* while it waited.                                                        *)
THEOREM UploadsTakeTurns == Uploads!Spec => []UploadsInTurn
<1>1. Uploads!Init => UploadsInv
  BY UploadsInit
<1>2. UploadsInv /\ [Uploads!Next]_(Uploads!vars) => UploadsInv'
  BY UploadsNextKeeps
<1>3. UploadsInv => UploadsInTurn
  <2> SUFFICES ASSUME UploadsInv PROVE Uploads!OneAtATime /\ Uploads!NamesAreFreed
    BY DEF UploadsInTurn
  <2>1. Uploads!OneAtATime
    <3>1. Uploads!Cardinality(Uploading) = Cardinality(Uploading)
      BY DEF Uploads!Cardinality, Cardinality
    <3> QED BY <3>1 DEF UploadsInv, UploadsCounted, Uploading, Uploads!OneAtATime
  <2>2. \A list : Uploads!ToSet(list) = ToSet(list)
    BY DEF Uploads!ToSet, ToSet
  <2>3. Uploads!NamesAreFreed
    BY <2>2, UploadIds DEF UploadsInv, UploadsFreed, Living, Uploading, Uploads!NamesAreFreed, Uploads!None
  <2> QED BY <2>1, <2>3
<1> QED BY <1>1, <1>2, <1>3, PTL DEF Uploads!Spec

=============================================================================
