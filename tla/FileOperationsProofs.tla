------------------------ MODULE FileOperationsProofs -----------------------
(***************************************************************************)
(* The proofs about what MCFileOperations puts together, each for every    *)
(* value of the constants: the lists of observers are what was asked for   *)
(* and every broadcast tells those who were there when it began; a         *)
(* downloaded file is whole when it gets its final name; what is noted of  *)
(* an upload was confirmed, and a finished upload is whole.                *)
(***************************************************************************)
EXTENDS MCFileOperations, ListsProofs, FiniteSetTheorems, WellFoundedInduction, TLAPS

(* A set of natural numbers has a least element.                           *)
LEMMA Least ==
    ASSUME NEW S, S \subseteq Nat, S # {}
    PROVE  \E m \in S : \A k \in S : m <= k
<1>1. PICK m \in S : \A k \in S : ~(<<k, m>> \in OpToRel(<, Nat))
  BY NatLessThanWellFounded, WFMin
<1>2. \A k \in S : ~(k < m)
  BY <1>1 DEF OpToRel
<1> QED BY <1>2

(* What can be numbered from 1 to n has n elements.                        *)
LEMMA Numbered ==
    ASSUME NEW S, NEW n \in Nat, NEW f \in [1 .. n -> S],
           \A i, j \in 1 .. n : f[i] = f[j] => i = j,
           \A x \in S : \E i \in 1 .. n : f[i] = x
    PROVE  Cardinality(S) = n /\ IsFiniteSet(S)
<1>1. f \in Bijection(1 .. n, S)
  BY DEF Bijection, Injection, Surjection, IsInjective
<1>2. ExistsBijection(1 .. n, S)
  BY <1>1 DEF ExistsBijection
<1> QED BY <1>2, FS_CountingElements, FS_NatBijection

-----------------------------------------------------------------------------
(* The observers of notifications.                                         *)
MaybeObserver == Observers \cup {None}

Broadcast == [id : Ids, told : Seq(Observers), list : Seq(Observers)]

Typed ==
    /\ observers \in [Ids -> Seq(Observers)]
    /\ removeAfterBroadcast \in [Ids -> MaybeObserver]
    /\ addAfterBroadcast \in [Ids -> MaybeObserver]
    /\ broadcasts \in Seq(Broadcast)
    /\ wanted \in [Ids -> SUBSET Observers]
    /\ clashed \in BOOLEAN

(* No observer is in a list twice.                                         *)
EachOnce == \A id \in Ids : Distinct(observers[id])

(* Between broadcasts no call waits.                                       *)
NoneWaits ==
    ~Broadcasting =>
        \A id \in Ids : removeAfterBroadcast[id] = None /\ addAfterBroadcast[id] = None

(* Those who will be in the list when what waits is done are those wanted. *)
WillSettle ==
    ~clashed => \A id \in Ids :
        wanted[id] = (ToSet(observers[id]) \ {removeAfterBroadcast[id]})
                        \cup ({addAfterBroadcast[id]} \ {None})

(* The lists stay as they were when the broadcasts that run began, and who *)
(* was told is a beginning of them.                                        *)
Beginning(heard, list) ==
    Len(heard) <= Len(list) /\ \A i \in 1 .. Len(heard) : heard[i] = list[i]

OnItsWay(b) == b.list = observers[b.id] /\ Beginning(b.told, b.list)

Unchanged == \A n \in 1 .. Len(broadcasts) : OnItsWay(broadcasts[n])

IInv == NotificationCenterAssumption /\ Typed /\ EachOnce /\ NoneWaits /\ WillSettle /\ Unchanged

-----------------------------------------------------------------------------
(* Adding to a list adds to the set of its observers, and to no more.      *)
LEMMA AddedTo ==
    ASSUME NEW list \in Seq(Observers), NEW o \in Observers, Distinct(list)
    PROVE  /\ Added(list, o) \in Seq(Observers)
           /\ Distinct(Added(list, o))
           /\ ToSet(Added(list, o)) = ToSet(list) \cup {o}
<1>1. CASE o \in ToSet(list)
  BY <1>1 DEF Added
<1>2. CASE o \notin ToSet(list)
  BY <1>2, AppendedTo DEF Added
<1> QED BY <1>1, <1>2

(* What is in a list is an observer.                                       *)
LEMMA InList ==
    ASSUME NEW list \in Seq(Observers)
    PROVE  ToSet(list) \subseteq Observers
BY DEF ToSet

LEMMA InitHolds == NotificationCenterAssumption /\ Init => IInv
<1> SUFFICES ASSUME NotificationCenterAssumption, Init
             PROVE  IInv
  OBVIOUS
<1> USE DEF Init
<1>1. Typed
  <2>1. <<>> \in Seq(Observers) /\ <<>> \in Seq(Broadcast)
    OBVIOUS
  <2> QED BY <2>1 DEF Typed, MaybeObserver
<1>2. EachOnce
  BY DEF EachOnce, Distinct
<1>3. NoneWaits
  BY DEF NoneWaits
<1>4. WillSettle
  BY DEF WillSettle, ToSet
<1>5. Unchanged
  BY DEF Unchanged
<1> QED BY <1>1, <1>2, <1>3, <1>4, <1>5 DEF IInv

-----------------------------------------------------------------------------
(* Each call keeps the invariant.                                          *)
LEMMA AddObserverKeeps ==
    ASSUME IInv,
           NEW o \in Observers, NEW id \in Ids, AddObserver(o, id)
    PROVE  IInv'
<1> o # None
  BY DEF IInv, NotificationCenterAssumption
<1>1. CASE Broadcasting
  <2>1. /\ wanted' = [wanted EXCEPT ![id] = @ \cup {o}]
        /\ addAfterBroadcast' = [addAfterBroadcast EXCEPT ![id] = o]
        /\ clashed' = (clashed \/ Forgets(addAfterBroadcast[id], o))
        /\ UNCHANGED <<observers, removeAfterBroadcast, broadcasts>>
    BY <1>1 DEF AddObserver
  <2>2. Typed'
    BY <2>1 DEF IInv, Typed, MaybeObserver, Forgets
  <2>3. EachOnce' /\ NoneWaits' /\ Unchanged'
    BY <1>1, <2>1 DEF IInv, EachOnce, NoneWaits, Unchanged, OnItsWay, Broadcasting
  <2>4. WillSettle'
    <3> SUFFICES ASSUME ~clashed', NEW x \in Ids
                 PROVE  wanted'[x] = (ToSet(observers'[x]) \ {removeAfterBroadcast'[x]})
                                        \cup ({addAfterBroadcast'[x]} \ {None})
      BY DEF WillSettle
    <3>1. ~clashed /\ addAfterBroadcast[id] \in {None, o}
      BY <2>1 DEF Forgets, IInv, Typed
    <3>2. wanted[x] = (ToSet(observers[x]) \ {removeAfterBroadcast[x]})
                        \cup ({addAfterBroadcast[x]} \ {None})
      BY <3>1 DEF IInv, WillSettle
    <3>3. /\ wanted'[x] = IF x = id THEN wanted[x] \cup {o} ELSE wanted[x]
          /\ addAfterBroadcast'[x] = IF x = id THEN o ELSE addAfterBroadcast[x]
      BY <2>1 DEF IInv, Typed
    <3> QED BY <2>1, <3>1, <3>2, <3>3
  <2> QED BY <2>2, <2>3, <2>4 DEF IInv
<1>2. CASE ~Broadcasting
  <2>1. /\ wanted' = [wanted EXCEPT ![id] = @ \cup {o}]
        /\ observers' = [observers EXCEPT ![id] = Added(@, o)]
        /\ UNCHANGED <<addAfterBroadcast, clashed, removeAfterBroadcast, broadcasts>>
    BY <1>2 DEF AddObserver
  <2>2. /\ observers[id] \in Seq(Observers) /\ Distinct(observers[id])
        /\ observers'[id] = Added(observers[id], o)
        /\ \A x \in Ids : x # id => observers'[x] = observers[x]
    BY <2>1 DEF IInv, Typed, EachOnce
  <2>3. /\ observers'[id] \in Seq(Observers) /\ Distinct(observers'[id])
        /\ ToSet(observers'[id]) = ToSet(observers[id]) \cup {o}
    BY <2>2, AddedTo
  <2>4. Typed'
    BY <2>1, <2>2, <2>3 DEF IInv, Typed
  <2>5. EachOnce'
    BY <2>2, <2>3 DEF IInv, EachOnce
  <2>6. NoneWaits' /\ Unchanged'
    BY <1>2, <2>1 DEF IInv, NoneWaits, Unchanged, Broadcasting
  <2>7. WillSettle'
    <3> SUFFICES ASSUME ~clashed', NEW x \in Ids
                 PROVE  wanted'[x] = (ToSet(observers'[x]) \ {removeAfterBroadcast'[x]})
                                        \cup ({addAfterBroadcast'[x]} \ {None})
      BY DEF WillSettle
    <3>1. /\ wanted[x] = (ToSet(observers[x]) \ {removeAfterBroadcast[x]})
                        \cup ({addAfterBroadcast[x]} \ {None})
          /\ removeAfterBroadcast'[x] = None /\ addAfterBroadcast'[x] = None
          /\ removeAfterBroadcast[x] = None /\ addAfterBroadcast[x] = None
      BY <1>2, <2>1 DEF IInv, WillSettle, NoneWaits
    <3>2. wanted'[x] = IF x = id THEN wanted[x] \cup {o} ELSE wanted[x]
      BY <2>1 DEF IInv, Typed
    <3> QED BY <2>2, <2>3, <3>1, <3>2
  <2> QED BY <2>4, <2>5, <2>6, <2>7 DEF IInv
<1> QED BY <1>1, <1>2

LEMMA RemoveObserverKeeps ==
    ASSUME IInv,
           NEW o \in Observers, NEW id \in Ids, RemoveObserver(o, id)
    PROVE  IInv'
<1> o # None
  BY DEF IInv, NotificationCenterAssumption
<1>1. CASE Broadcasting
  <2>1. /\ wanted' = [wanted EXCEPT ![id] = @ \ {o}]
        /\ removeAfterBroadcast' = [removeAfterBroadcast EXCEPT ![id] = o]
        /\ clashed' = (\/ clashed \/ Forgets(removeAfterBroadcast[id], o)
                       \/ addAfterBroadcast[id] = o)
        /\ UNCHANGED <<observers, addAfterBroadcast, broadcasts>>
    BY <1>1 DEF RemoveObserver
  <2>2. Typed'
    BY <2>1 DEF IInv, Typed, MaybeObserver, Forgets
  <2>3. EachOnce' /\ NoneWaits' /\ Unchanged'
    BY <1>1, <2>1 DEF IInv, EachOnce, NoneWaits, Unchanged, OnItsWay, Broadcasting
  <2>4. WillSettle'
    <3> SUFFICES ASSUME ~clashed', NEW x \in Ids
                 PROVE  wanted'[x] = (ToSet(observers'[x]) \ {removeAfterBroadcast'[x]})
                                        \cup ({addAfterBroadcast'[x]} \ {None})
      BY DEF WillSettle
    <3>1. ~clashed /\ removeAfterBroadcast[id] \in {None, o} /\ addAfterBroadcast[id] # o
      BY <2>1 DEF Forgets, IInv, Typed
    <3>2. wanted[x] = (ToSet(observers[x]) \ {removeAfterBroadcast[x]})
                        \cup ({addAfterBroadcast[x]} \ {None})
      BY <3>1 DEF IInv, WillSettle
    <3>3. /\ wanted'[x] = IF x = id THEN wanted[x] \ {o} ELSE wanted[x]
          /\ removeAfterBroadcast'[x] = IF x = id THEN o ELSE removeAfterBroadcast[x]
      BY <2>1 DEF IInv, Typed
    <3>4. ToSet(observers[x]) \subseteq Observers
      BY InList DEF IInv, Typed
    <3> QED BY <2>1, <3>1, <3>2, <3>3, <3>4 DEF IInv, NotificationCenterAssumption
  <2> QED BY <2>2, <2>3, <2>4 DEF IInv
<1>2. CASE ~Broadcasting
  <2>1. /\ wanted' = [wanted EXCEPT ![id] = @ \ {o}]
        /\ observers' = [observers EXCEPT ![id] = Removed(@, o)]
        /\ UNCHANGED <<addAfterBroadcast, clashed, removeAfterBroadcast, broadcasts>>
    BY <1>2 DEF RemoveObserver
  <2>2. /\ observers[id] \in Seq(Observers) /\ Distinct(observers[id])
        /\ observers'[id] = Removed(observers[id], o)
        /\ \A x \in Ids : x # id => observers'[x] = observers[x]
    BY <2>1 DEF IInv, Typed, EachOnce
  <2>3. /\ observers'[id] \in Seq(Observers) /\ Distinct(observers'[id])
        /\ ToSet(observers'[id]) = ToSet(observers[id]) \ {o}
    BY <2>2, RemovedFrom
  <2>4. Typed'
    BY <2>1, <2>2, <2>3 DEF IInv, Typed
  <2>5. EachOnce'
    BY <2>2, <2>3 DEF IInv, EachOnce
  <2>6. NoneWaits' /\ Unchanged'
    BY <1>2, <2>1 DEF IInv, NoneWaits, Unchanged, Broadcasting
  <2>7. WillSettle'
    <3> SUFFICES ASSUME ~clashed', NEW x \in Ids
                 PROVE  wanted'[x] = (ToSet(observers'[x]) \ {removeAfterBroadcast'[x]})
                                        \cup ({addAfterBroadcast'[x]} \ {None})
      BY DEF WillSettle
    <3>1. /\ wanted[x] = (ToSet(observers[x]) \ {removeAfterBroadcast[x]})
                        \cup ({addAfterBroadcast[x]} \ {None})
          /\ removeAfterBroadcast'[x] = None /\ addAfterBroadcast'[x] = None
          /\ removeAfterBroadcast[x] = None /\ addAfterBroadcast[x] = None
      BY <1>2, <2>1 DEF IInv, WillSettle, NoneWaits
    <3>2. wanted'[x] = IF x = id THEN wanted[x] \ {o} ELSE wanted[x]
      BY <2>1 DEF IInv, Typed
    <3>3. None \notin ToSet(observers[x])
      BY InList DEF IInv, Typed, NotificationCenterAssumption
    <3> QED BY <2>2, <2>3, <3>1, <3>2, <3>3
  <2> QED BY <2>4, <2>5, <2>6, <2>7 DEF IInv
<1> QED BY <1>1, <1>2

-----------------------------------------------------------------------------
(* A broadcast begins with nobody told.                                    *)
LEMMA PostKeeps ==
    ASSUME IInv, NEW id \in Ids, Post(id)
    PROVE  IInv'
<1> DEFINE b == [id |-> id, told |-> <<>>, list |-> observers[id]]
<1>1. /\ broadcasts' = Append(broadcasts, b)
      /\ UNCHANGED <<observers, removeAfterBroadcast, addAfterBroadcast, wanted, clashed>>
  BY DEF Post
<1>2. b \in Broadcast /\ b.id = id /\ b.told = <<>> /\ b.list = observers[id]
  BY DEF Broadcast, IInv, Typed
<1> HIDE DEF b
<1>3. /\ broadcasts \in Seq(Broadcast) /\ broadcasts' \in Seq(Broadcast)
      /\ Len(broadcasts') = Len(broadcasts) + 1 /\ Len(broadcasts) \in Nat
      /\ \A n \in 1 .. Len(broadcasts) : broadcasts'[n] = broadcasts[n]
      /\ broadcasts'[Len(broadcasts) + 1] = b
  BY <1>1, <1>2 DEF IInv, Typed
<1>4. Typed' /\ EachOnce' /\ WillSettle'
  BY <1>1, <1>3 DEF IInv, Typed, EachOnce, WillSettle
<1>5. NoneWaits'
  BY <1>3 DEF NoneWaits, Broadcasting
<1>6. Unchanged'
  <2> SUFFICES ASSUME NEW n \in 1 .. Len(broadcasts) + 1
               PROVE  OnItsWay(broadcasts[n])'
    BY <1>3 DEF Unchanged
  <2>1. CASE n = Len(broadcasts) + 1
    <3>1. observers[id] \in Seq(Observers)
      BY DEF IInv, Typed
    <3> QED BY <1>1, <1>2, <1>3, <2>1, <3>1 DEF OnItsWay, Beginning
  <2>2. CASE n \in 1 .. Len(broadcasts)
    BY <1>1, <1>3, <2>2 DEF IInv, Unchanged, OnItsWay
  <2> QED BY <1>3, <2>1, <2>2
<1> QED BY <1>4, <1>5, <1>6 DEF IInv

(* The next in the list is told.                                           *)
LEMMA TellKeeps ==
    ASSUME IInv, Tell
    PROVE  IInv'
<1> DEFINE m == Len(broadcasts)
           b == broadcasts[m]
           heard == Append(b.told, List[Told + 1])
<1>1. /\ Broadcasting /\ Told < Len(List)
      /\ broadcasts' = [broadcasts EXCEPT ![m].told = heard]
      /\ UNCHANGED <<observers, removeAfterBroadcast, addAfterBroadcast, wanted, clashed>>
  BY DEF Tell
<1>2. /\ broadcasts \in Seq(Broadcast) /\ m \in Nat /\ m \in 1 .. m
      /\ DOMAIN broadcasts = 1 .. m
  BY <1>1 DEF IInv, Typed, Broadcasting
<1>3. b \in Broadcast /\ OnItsWay(b)
  BY <1>2 DEF IInv, Typed, Unchanged
<1>4. List = b.list /\ Told = Len(b.told) /\ b.list \in Seq(Observers) /\ b.told \in Seq(Observers)
  BY <1>3 DEF List, Told, Current, Last, OnItsWay, Broadcast
<1>5. heard \in Seq(Observers) /\ Beginning(heard, b.list)
  <2>1. Len(b.told) \in Nat /\ Len(b.list) \in Nat /\ Len(b.told) < Len(b.list)
    BY <1>1, <1>4
  <2>2. List[Told + 1] = b.list[Len(b.told) + 1] /\ b.list[Len(b.told) + 1] \in Observers
    BY <1>4, <2>1
  <2>3. /\ heard \in Seq(Observers) /\ Len(heard) = Len(b.told) + 1
        /\ \A i \in 1 .. Len(b.told) : heard[i] = b.told[i]
        /\ heard[Len(b.told) + 1] = b.list[Len(b.told) + 1]
    BY <1>4, <2>2
  <2> HIDE DEF heard, b
  <2> QED BY <1>3, <2>1, <2>3 DEF OnItsWay, Beginning
<1> HIDE DEF heard
<1>6. /\ broadcasts' \in Seq(Broadcast) /\ Len(broadcasts') = m
      /\ broadcasts'[m] = [b EXCEPT !.told = heard]
      /\ \A n \in 1 .. m : n # m => broadcasts'[n] = broadcasts[n]
  <2>1. [b EXCEPT !.told = heard] \in Broadcast
    BY <1>3, <1>5 DEF Broadcast
  <2>2. broadcasts' = [broadcasts EXCEPT ![m] = [b EXCEPT !.told = heard]]
    BY <1>1
  <2> QED BY <1>2, <2>1, <2>2
<1>7. Typed' /\ EachOnce' /\ WillSettle'
  BY <1>1, <1>6 DEF IInv, Typed, EachOnce, WillSettle
<1>8. NoneWaits'
  BY <1>2, <1>6 DEF NoneWaits, Broadcasting
<1>9. Unchanged'
  <2> SUFFICES ASSUME NEW n \in 1 .. m
               PROVE  OnItsWay(broadcasts[n])'
    BY <1>6 DEF Unchanged
  <2>1. CASE n = m
    <3>1. /\ broadcasts'[n].list = b.list /\ broadcasts'[n].id = b.id
          /\ broadcasts'[n].told = heard
      BY <1>3, <1>6, <2>1 DEF Broadcast
    <3> QED BY <1>1, <1>3, <1>5, <3>1 DEF OnItsWay
  <2>2. CASE n # m
    BY <1>1, <1>6, <2>2 DEF IInv, Unchanged, OnItsWay
  <2> QED BY <2>1, <2>2
<1> QED BY <1>7, <1>8, <1>9 DEF IInv

-----------------------------------------------------------------------------
(* A broadcast that ends has told its list; the outermost one makes up for *)
(* the calls that waited.                                                  *)
LEMMA HasTold ==
    ASSUME IInv, Broadcasting, Told >= Len(List)
    PROVE  Current.told = Current.list
<1> DEFINE m == Len(broadcasts)
           b == broadcasts[m]
<1>1. broadcasts \in Seq(Broadcast) /\ m \in Nat /\ m \in 1 .. m
  BY DEF IInv, Typed, Broadcasting
<1>2. b \in Broadcast /\ OnItsWay(b) /\ Current = b
  BY <1>1 DEF IInv, Typed, Unchanged, Current, Last
<1>3. List = b.list /\ Told = Len(b.told) /\ b.list \in Seq(Observers) /\ b.told \in Seq(Observers)
  BY <1>2 DEF List, Told, OnItsWay, Broadcast
<1> HIDE DEF b
<1>4. Len(b.told) = Len(b.list) /\ \A i \in 1 .. Len(b.told) : b.told[i] = b.list[i]
  BY <1>2, <1>3 DEF OnItsWay, Beginning
<1> QED BY <1>2, <1>3, <1>4

(* What End makes of the list of a notification.                           *)
Settling(id) ==
    LET r == removeAfterBroadcast[id]
        a == addAfterBroadcast[id]
        list == IF r = None THEN observers[id] ELSE Removed(observers[id], r)
    IN  IF a = None THEN list ELSE Added(list, a)

LEMMA SettlingIsRight ==
    ASSUME IInv, NEW id \in Ids
    PROVE  /\ Settling(id) \in Seq(Observers)
           /\ Distinct(Settling(id))
           /\ ToSet(Settling(id)) = (ToSet(observers[id]) \ {removeAfterBroadcast[id]})
                                        \cup ({addAfterBroadcast[id]} \ {None})
<1> DEFINE r == removeAfterBroadcast[id]
           a == addAfterBroadcast[id]
           list == IF r = None THEN observers[id] ELSE Removed(observers[id], r)
<1>1. /\ observers[id] \in Seq(Observers) /\ Distinct(observers[id])
      /\ r \in MaybeObserver /\ a \in MaybeObserver
  BY DEF IInv, Typed, EachOnce
<1>2. None \notin ToSet(observers[id])
  BY <1>1, InList DEF IInv, NotificationCenterAssumption
<1>3. /\ list \in Seq(Observers) /\ Distinct(list)
      /\ ToSet(list) = ToSet(observers[id]) \ {r}
  <2>1. CASE r = None
    BY <1>1, <1>2, <2>1
  <2>2. CASE r # None
    BY <1>1, <2>2, RemovedFrom
  <2> QED BY <2>1, <2>2
<1>4. Settling(id) = IF a = None THEN list ELSE Added(list, a)
  BY DEF Settling
<1> HIDE DEF list, r, a
<1>5. CASE a = None
  BY <1>3, <1>4, <1>5 DEF r, a
<1>6. CASE a # None
  <2>1. a \in Observers
    BY <1>1, <1>6 DEF MaybeObserver
  <2> QED BY <1>3, <1>4, <1>6, <2>1, AddedTo DEF r, a
<1> QED BY <1>5, <1>6

LEMMA EndKeeps ==
    ASSUME IInv, End
    PROVE  IInv'
<1> DEFINE m == Len(broadcasts)
<1>1. /\ broadcasts \in Seq(Broadcast) /\ m \in Nat /\ m >= 1
      /\ broadcasts' = Front(broadcasts)
      /\ UNCHANGED <<wanted, clashed>>
  BY DEF End, IInv, Typed, Broadcasting
<1>2. /\ broadcasts' \in Seq(Broadcast) /\ Len(broadcasts') = m - 1
      /\ \A n \in 1 .. m - 1 : broadcasts'[n] = broadcasts[n]
  <2>1. \A n \in 1 .. m - 1 : broadcasts[n] \in Broadcast
    BY <1>1
  <2> HIDE DEF m
  <2>2. /\ (IF 1 <= m - 1 THEN (m - 1) - 1 + 1 = m - 1 ELSE 0 = m - 1)
        /\ \A n \in 1 .. m - 1 : 1 + n - 1 = n /\ n \in 1 .. (m - 1) - 1 + 1
    BY <1>1
  <2>3. broadcasts' = SubSeq(broadcasts, 1, m - 1)
    BY <1>1 DEF Front, m
  <2> QED BY <1>1, <2>1, <2>2, <2>3, SubSeqProperties
<1>3. CASE m = 1
  <2>1. /\ observers' = [id \in Ids |-> Settling(id)]
        /\ removeAfterBroadcast' = [id \in Ids |-> None]
        /\ addAfterBroadcast' = [id \in Ids |-> None]
    BY <1>3 DEF End, Settling
  <2>2. Typed' /\ EachOnce'
    BY <1>1, <1>2, <2>1, SettlingIsRight DEF IInv, Typed, EachOnce, MaybeObserver
  <2>3. NoneWaits' /\ Unchanged'
    BY <1>2, <1>3, <2>1 DEF NoneWaits, Unchanged
  <2>4. WillSettle'
    <3> SUFFICES ASSUME ~clashed', NEW x \in Ids
                 PROVE  wanted'[x] = (ToSet(observers'[x]) \ {removeAfterBroadcast'[x]})
                                        \cup ({addAfterBroadcast'[x]} \ {None})
      BY DEF WillSettle
    <3>1. wanted'[x] = ToSet(observers'[x])
      BY <1>1, <2>1, SettlingIsRight DEF IInv, WillSettle
    <3>2. None \notin ToSet(observers'[x])
      BY <2>2, InList DEF IInv, Typed, NotificationCenterAssumption
    <3> QED BY <2>1, <3>1, <3>2
  <2> QED BY <2>2, <2>3, <2>4 DEF IInv
<1>4. CASE m # 1
  <2>1. UNCHANGED <<observers, removeAfterBroadcast, addAfterBroadcast>>
    BY <1>4 DEF End
  <2>2. Typed' /\ EachOnce' /\ WillSettle'
    BY <1>1, <1>2, <2>1 DEF IInv, Typed, EachOnce, WillSettle
  <2>3. NoneWaits'
    BY <1>1, <1>2, <1>4 DEF NoneWaits, Broadcasting
  <2>4. Unchanged'
    <3> SUFFICES ASSUME NEW n \in 1 .. m - 1
                 PROVE  OnItsWay(broadcasts[n])'
      BY <1>2 DEF Unchanged
    <3>1. n \in 1 .. m
      BY <1>1
    <3> QED BY <1>2, <2>1, <3>1 DEF IInv, Unchanged, OnItsWay
  <2> QED BY <2>2, <2>3, <2>4 DEF IInv
<1> QED BY <1>3, <1>4

-----------------------------------------------------------------------------
LEMMA Keeps == IInv /\ [Next]_vars => IInv'
<1> SUFFICES ASSUME IInv, [Next]_vars
             PROVE  IInv'
  OBVIOUS
<1>1. CASE \E o \in Observers, id \in Ids : AddObserver(o, id) \/ RemoveObserver(o, id)
  BY <1>1, AddObserverKeeps, RemoveObserverKeeps
<1>2. CASE \E id \in Ids : Post(id)
  BY <1>2, PostKeeps
<1>3. CASE Tell
  BY <1>3, TellKeeps
<1>4. CASE End
  BY <1>4, EndKeeps
<1>5. CASE UNCHANGED vars
  BY <1>5 DEF vars, IInv, Typed, EachOnce, NoneWaits, Broadcasting, WillSettle, Unchanged,
              OnItsWay, Beginning
<1> QED BY <1>1, <1>2, <1>3, <1>4, <1>5 DEF Next

LEMMA AlwaysIInv == NotificationCenterAssumption => (Spec => []IInv)
<1>1. NotificationCenterAssumption /\ Init => IInv
  BY InitHolds
<1>2. IInv /\ [Next]_vars => IInv'
  BY Keeps
<1> QED BY <1>1, <1>2, PTL DEF Spec

(* When no broadcast runs, the lists hold exactly those who were added and *)
(* not removed since, though calls waited for broadcasts to end.           *)
THEOREM ListsSettle == NotificationCenterAssumption => (Spec => []Settled)
<1>1. IInv => Settled
  <2> SUFFICES ASSUME IInv, ~Broadcasting, ~clashed, NEW id \in Ids
               PROVE  ToSet(observers[id]) = wanted[id]
    BY DEF Settled
  <2>1. /\ wanted[id] = (ToSet(observers[id]) \ {removeAfterBroadcast[id]})
                            \cup ({addAfterBroadcast[id]} \ {None})
        /\ removeAfterBroadcast[id] = None /\ addAfterBroadcast[id] = None
    BY DEF IInv, WillSettle, NoneWaits
  <2>2. ToSet(observers[id]) \subseteq Observers
    BY InList DEF IInv, Typed
  <2> QED BY <2>1, <2>2 DEF IInv, NotificationCenterAssumption
<1> QED BY <1>1, AlwaysIInv, PTL

(* Every broadcast, also one inside another, tells exactly the observers   *)
(* that were there when it began, in the order of the list.                *)
THEOREM BroadcastsTellAll == NotificationCenterAssumption => (Spec => TellsAll)
<1>1. IInv /\ [Next]_vars =>
          [Len(broadcasts') < Len(broadcasts) => Current.told = Current.list]_vars
  <2> SUFFICES ASSUME IInv, Next, Len(broadcasts') < Len(broadcasts)
               PROVE  Current.told = Current.list
    OBVIOUS
  <2>1. broadcasts \in Seq(Broadcast) /\ Len(broadcasts) \in Nat
    BY DEF IInv, Typed
  <2>2. ASSUME NEW o \in Observers, NEW id \in Ids, AddObserver(o, id) \/ RemoveObserver(o, id)
        PROVE  FALSE
    <3>1. broadcasts' = broadcasts
      BY <2>2 DEF AddObserver, RemoveObserver
    <3> QED BY <2>1, <3>1
  <2>3. ASSUME NEW id \in Ids, Post(id)
        PROVE  FALSE
    <3>1. [id |-> id, told |-> <<>>, list |-> observers[id]] \in Broadcast
      BY DEF IInv, Typed, Broadcast
    <3> QED BY <2>1, <2>3, <3>1 DEF Post
  <2>4. CASE Tell
    <3>1. Len(broadcasts') = Len(broadcasts)
      BY <2>1, <2>4 DEF Tell
    <3> QED BY <2>1, <3>1
  <2>5. CASE End
    BY <2>5, HasTold DEF End
  <2> QED BY <2>2, <2>3, <2>4, <2>5 DEF Next
<1> QED BY <1>1, AlwaysIInv, PTL DEF Spec, TellsAll

-----------------------------------------------------------------------------
(* The upload.  What its invariant says of the operation is said of an     *)
(* operation o with its notes, the parts on their way, what was reported,  *)
(* the parts the server has, and whether a part is about to be read: the   *)
(* handlers pass these on as values.                                       *)
UploadOps ==
    [state : {0, 1, 2, 3}, estimated : BOOLEAN, open : BOOLEAN, id : Nat, part : Int,
     uploaded : Int, iv : Int, last : BOOLEAN, times : Int, token : BOOLEAN]

UploadNotes == [id : Nat, uploaded : Int, iv : Int]

HasParts(parts, id, n) == \A k \in 0 .. n - 1 : Upload!RightPart(id, k) \in parts

IvOf(n) == IF uFile.key THEN n ELSE 0

(* What is noted are whole parts, and the server has them.                 *)
NotesRight(notes, parts) ==
    \E n \in Nat :
        /\ notes.uploaded = n * UploadChunk
        /\ notes.id # 0 => HasParts(parts, notes.id, n)
        /\ notes.id # 0 /\ n > 0 => notes.iv = IvOf(n)

(* Before the file is opened nothing has happened.                         *)
NotBegun(o, rs, going) ==
    /\ ~o.open => /\ ~o.last /\ ~going /\ rs = {} /\ o.state # 3
                  /\ o.uploaded = 0 /\ o.part = 0 /\ o.iv = 0
    /\ o.open => o.state # 0

(* Where the next part is read is where the number of parts says.          *)
InStep(o, rs, told_, going) ==
    going \/ (o.open /\ o.state = 1 /\ told_ = <<>> /\ rs = {}) =>
        /\ rs = {} /\ ~o.last
        /\ o.uploaded = o.part * UploadChunk /\ o.iv = IvOf(o.part)

(* One part at a time is on its way, and it is the right one.              *)
OneOnItsWay(o, rs, going) ==
    rs # {} =>
        /\ rs = {Upload!RightPart(o.id, o.part)} /\ ~going /\ o.state # 3
        /\ o.last => o.part + 1 = Upload!TotalParts
        /\ ~o.last => o.uploaded = (o.part + 1) * UploadChunk /\ o.iv = IvOf(o.part + 1)

(* The server has the parts that are counted, all of them in the end.      *)
Arrived(o, rs, parts, going) ==
    /\ o.part \in Nat /\ HasParts(parts, o.id, o.part)
    /\ o.state = 3 => o.part = Upload!TotalParts /\ rs = {} /\ ~going

Goes(o, notes, rs, told_, parts, going) ==
    /\ NotesRight(notes, parts) /\ NotBegun(o, rs, going) /\ InStep(o, rs, told_, going)
    /\ OneOnItsWay(o, rs, going) /\ Arrived(o, rs, parts, going)

(* The notes are those of the operation.                                   *)
OwnNotes(o, notes) ==
    /\ o.open => o.id # 0 /\ notes.id \in {0, o.id}
    /\ o.estimated => notes = Upload!Nothing

UploadTyped ==
    /\ uFile \in [size : UploadSizes, big : BOOLEAN, key : BOOLEAN]
    /\ uOp \in UploadOps /\ saved \in UploadNotes
    /\ posted \in Seq({"start", "data", "final"})
    /\ length \in Int /\ ids \in Nat

(* When the size is known the file is complete.                            *)
SizeKnown ==
    /\ told => length = uFile.size
    /\ ~uOp.estimated \/ (\E i \in 1 .. Len(posted) : posted[i] = "final") => told

UploadInv ==
    /\ Upload!FileUploadOperationAssumption /\ UploadTyped /\ SizeKnown /\ OwnNotes(uOp, saved)
    /\ ~strayed => Goes(uOp, saved, uRequests, uReports, server, handling)

-----------------------------------------------------------------------------
(* Products and quotients.                                                 *)
LEMMA WholeParts == \A n \in Nat, c \in Nat \ {0} : (n * c) \div c = n /\ n * c \in Nat
OBVIOUS

LEMMA OneMorePart == \A n \in Nat, c \in Nat \ {0} : (n + 1) * c = n * c + c
OBVIOUS

LEMMA LastPart ==
    \A n, s \in Nat, c \in Nat \ {0} :
        n * c < s /\ s <= n * c + c => (s + c - 1) \div c = n + 1
OBVIOUS

LEMMA UploadFileFacts ==
    ASSUME UploadInv
    PROVE  /\ UploadChunk \in Nat \ {0} /\ uFile.size \in Nat \ {0} /\ uFile.key \in BOOLEAN
           /\ uOp \in UploadOps /\ saved \in UploadNotes /\ ids \in Nat /\ length \in Int
           /\ posted \in Seq({"start", "data", "final"})
BY DEF UploadInv, UploadTyped, Upload!FileUploadOperationAssumption

(* A server that has more has no fewer of the right parts.                 *)
LEMMA PartsStay ==
    ASSUME NEW p, NEW q, NEW id, NEW n, HasParts(p, id, n),
           \A k \in 0 .. n - 1 : Upload!RightPart(id, k) \in p => Upload!RightPart(id, k) \in q
    PROVE  HasParts(q, id, n)
BY DEF HasParts

(* Right parts do not push out right parts.                                *)
LEMMA HeldParts ==
    ASSUME NEW parts, NEW id, NEW n, NEW got \in SUBSET {Upload!RightPart(id, n)}
    PROVE  /\ \A i, k : Upload!RightPart(i, k) \in parts => Upload!RightPart(i, k) \in Upload!Holds(parts, got)
           /\ got \subseteq Upload!Holds(parts, got)
BY DEF Upload!Holds, Upload!RightPart

-----------------------------------------------------------------------------
LEMMA UploadInitHolds == Upload!Init => UploadInv
<1> SUFFICES ASSUME Upload!Init PROVE UploadInv
  OBVIOUS
<1> USE UploadAssumption DEF Upload!Init
<1>1. UploadTyped
  <2>1. uOp \in UploadOps
    BY DEF Upload!Fresh, UploadOps
  <2>2. saved \in UploadNotes
    BY DEF Upload!Nothing, UploadNotes
  <2>3. uFile.size \in Nat /\ uFile \in [size : UploadSizes, big : BOOLEAN, key : BOOLEAN]
    BY DEF Upload!FileUploadOperationAssumption
  <2> QED BY <2>1, <2>2, <2>3 DEF UploadTyped
<1>2. SizeKnown
  <2>1. (uOp.estimated <=> ~told) /\ (told => length = uFile.size)
    BY DEF Upload!Fresh
  <2>2. ~\E i \in 1 .. Len(posted) : posted[i] = "final"
    OBVIOUS
  <2> QED BY <2>1, <2>2 DEF SizeKnown
<1>3. OwnNotes(uOp, saved)
  BY DEF OwnNotes, Upload!Fresh
<1>4. Goes(uOp, saved, uRequests, uReports, server, handling)
  <2>1. NotesRight(saved, server)
    <3>1. UploadChunk \in Nat /\ 0 * UploadChunk = 0
      BY DEF Upload!FileUploadOperationAssumption
    <3> QED BY <3>1 DEF NotesRight, Upload!Nothing
  <2>2. /\ uOp.state = 0 /\ ~uOp.open /\ ~uOp.last /\ uOp.part = 0 /\ uOp.uploaded = 0 /\ uOp.iv = 0
        /\ ~handling /\ uRequests = {}
    BY DEF Upload!Fresh
  <2> QED BY <2>1, <2>2 DEF Goes, NotBegun, InStep, OneOnItsWay, Arrived, HasParts
<1> QED BY <1>1, <1>2, <1>3, <1>4 DEF UploadInv

(* startUploadRequest.                                                     *)
LEMMA StartUploadRequestKeeps ==
    ASSUME UploadInv, uFile' = uFile, uReports' = uReports,
           NEW o \in UploadOps, NEW notes \in UploadNotes, OwnNotes(o, notes),
           ~o.open => notes = saved,
           ~strayed => Goes(o, notes, uRequests', uReports', server', FALSE),
           Upload!StartUploadRequest(o, notes)
    PROVE  /\ uOp' \in UploadOps /\ saved' \in UploadNotes /\ ids' \in Nat
           /\ OwnNotes(uOp', saved') /\ uOp'.estimated = o.estimated
           /\ ~strayed' => Goes(uOp', saved', uRequests', uReports', server', handling')
<1> USE UploadFileFacts
<1>0. ids \in Nat /\ o.estimated \in BOOLEAN /\ o.part \in Int /\ o.uploaded \in Int /\ o.iv \in Int
  BY DEF UploadInv, UploadTyped, UploadOps
<1>1. CASE o.state # 1
  <2>1. uOp' = o /\ saved' = notes /\ ids' = ids /\ strayed' = strayed /\ handling' = FALSE
    BY <1>1 DEF Upload!StartUploadRequest
  <2> QED BY <1>0, <2>1
<1>2. CASE o.state = 1 /\ o.open
  <2>1. /\ uOp' = (IF o.estimated THEN o ELSE [o EXCEPT !.times = (@ % SaveEvery) + 1])
        /\ saved' = Upload!Noted(o, notes) /\ ids' = ids /\ handling' = TRUE
        /\ strayed' = (strayed \/ uRequests' # {} \/ uReports # <<>>)
    BY <1>2 DEF Upload!StartUploadRequest
  <2>2. /\ uOp' \in UploadOps
        /\ uOp'.state = o.state /\ uOp'.estimated = o.estimated /\ uOp'.open = o.open
        /\ uOp'.id = o.id /\ uOp'.part = o.part /\ uOp'.uploaded = o.uploaded
        /\ uOp'.iv = o.iv /\ uOp'.last = o.last
    <3>1. SaveEvery \in Nat \ {0}
      BY DEF UploadInv, Upload!FileUploadOperationAssumption
    <3>2. (o.times % SaveEvery) + 1 \in Int
      BY <3>1 DEF UploadOps
    <3> QED BY <2>1, <3>2 DEF UploadOps
  <2>3. \/ saved' = notes
        \/ /\ ~o.estimated /\ notes.id # 0
           /\ saved' = [notes EXCEPT !.uploaded = o.uploaded, !.iv = o.iv]
    BY <2>1 DEF Upload!Noted
  <2>4. saved' \in UploadNotes /\ saved'.id = notes.id
    BY <1>0, <2>3 DEF UploadNotes
  <2>5. OwnNotes(uOp', saved')
    BY <2>2, <2>3, <2>4 DEF OwnNotes
  <2>6. ASSUME ~strayed'
        PROVE  Goes(uOp', saved', uRequests', uReports', server', handling')
    <3>1. /\ Goes(o, notes, uRequests', uReports', server', FALSE)
          /\ uRequests' = {} /\ uReports' = <<>>
      BY <2>1, <2>6
    <3>2. ~o.last /\ o.uploaded = o.part * UploadChunk /\ o.iv = IvOf(o.part)
      BY <1>2, <3>1 DEF Goes, InStep
    <3>3. o.part \in Nat /\ HasParts(server', o.id, o.part)
      BY <3>1 DEF Goes, Arrived
    <3>4. NotesRight(saved', server')
      <4>1. CASE saved' = notes
        BY <3>1, <4>1 DEF Goes
      <4>2. CASE notes.id # 0 /\ saved' = [notes EXCEPT !.uploaded = o.uploaded, !.iv = o.iv]
        <5>1. saved'.uploaded = o.uploaded /\ saved'.iv = o.iv /\ saved'.id = o.id
          BY <1>2, <2>4, <4>2 DEF UploadNotes, OwnNotes
        <5> QED BY <3>2, <3>3, <5>1 DEF NotesRight
      <4> QED BY <2>3, <4>1, <4>2
    <3> QED BY <1>2, <2>1, <2>2, <3>1, <3>2, <3>3, <3>4
            DEF Goes, NotBegun, InStep, OneOnItsWay, Arrived
  <2> QED BY <1>0, <2>1, <2>2, <2>4, <2>5, <2>6
<1>3. CASE o.state = 1 /\ ~o.open
  <2>1. PICK expired \in BOOLEAN : uOp' = Upload!Opened(o, expired)
    BY <1>3 DEF Upload!StartUploadRequest
  <2>2. /\ IF uOp'.id = ids + 1
           THEN /\ ids' = ids + 1
                /\ saved' = IF o.estimated THEN notes ELSE [Upload!Nothing EXCEPT !.id = ids + 1]
           ELSE ids' = ids /\ saved' = notes
        /\ handling' = TRUE /\ notes = saved
        /\ strayed' = (strayed \/ uRequests' # {} \/ uReports # <<>>)
    BY <1>3 DEF Upload!StartUploadRequest
  <2>3. ids' \in Nat /\ saved' \in UploadNotes
    BY <1>0, <2>2 DEF UploadNotes, Upload!Nothing
  <2>4. NotesRight(Upload!Nothing, server') /\ NotesRight([Upload!Nothing EXCEPT !.id = ids + 1], server')
    <3>1. 0 * UploadChunk = 0
      OBVIOUS
    <3> QED BY <3>1 DEF NotesRight, Upload!Nothing, HasParts
  <2>5. ASSUME ~strayed' PROVE NotesRight(saved', server')
    BY <2>2, <2>4, <2>5 DEF Goes
  (* It begins anew...                                                     *)
  <2>6. CASE o.estimated \/ saved.id = 0 \/ (saved.uploaded = 0 /\ ~expired)
    <3>1. /\ uOp' \in UploadOps
          /\ uOp'.state = o.state /\ uOp'.estimated = o.estimated /\ uOp'.open
          /\ uOp'.id = ids + 1 /\ uOp'.part = o.part /\ uOp'.uploaded = o.uploaded
          /\ uOp'.iv = o.iv /\ uOp'.last = o.last
      <4>1. uOp' = [o EXCEPT !.open = TRUE, !.id = ids + 1]
        BY <2>1, <2>6 DEF Upload!Opened
      <4>2. ids + 1 \in Nat
        BY <1>0
      <4>3. uOp' \in UploadOps
        BY <4>1, <4>2 DEF UploadOps
      <4> QED BY <4>1, <4>3 DEF UploadOps
    <3>2. OwnNotes(uOp', saved')
      BY <1>0, <2>2, <3>1 DEF OwnNotes, Upload!Nothing
    <3>3. ASSUME ~strayed'
          PROVE  Goes(uOp', saved', uRequests', uReports', server', handling')
      <4>1. /\ Goes(o, notes, uRequests', uReports', server', FALSE)
            /\ uRequests' = {} /\ uReports' = <<>>
        BY <2>2, <3>3
      <4>2. ~o.last /\ o.uploaded = 0 /\ o.part = 0 /\ o.iv = 0 /\ 0 * UploadChunk = 0
        BY <1>3, <4>1 DEF Goes, NotBegun
      <4> QED BY <1>3, <2>2, <2>5, <3>1, <3>3, <4>1, <4>2
              DEF Goes, NotBegun, InStep, OneOnItsWay, Arrived, HasParts, IvOf
    <3> QED BY <2>3, <3>1, <3>2, <3>3
  (* ... or goes on from the notes.                                        *)
  <2>7. CASE ~(o.estimated \/ saved.id = 0 \/ (saved.uploaded = 0 /\ ~expired))
    <3> DEFINE n == saved.uploaded \div UploadChunk
    <3>1. n \in Int
      BY DEF UploadNotes
    <3>2. uOp' = [o EXCEPT !.open = TRUE, !.id = saved.id,
                           !.uploaded = IF expired THEN 0 ELSE saved.uploaded,
                           !.part = IF expired THEN 0 ELSE n,
                           !.iv = IF expired \/ ~uFile.key THEN 0
                                  ELSE IF uFile.big THEN saved.iv ELSE n]
      BY <2>1, <2>7 DEF Upload!Opened
    <3> HIDE DEF n
    <3>3. /\ uOp'.state = o.state /\ uOp'.estimated = o.estimated /\ uOp'.open
          /\ uOp'.id = saved.id /\ uOp'.part = (IF expired THEN 0 ELSE n)
          /\ uOp'.uploaded = (IF expired THEN 0 ELSE saved.uploaded)
          /\ uOp'.iv = (IF expired \/ ~uFile.key THEN 0 ELSE IF uFile.big THEN saved.iv ELSE n)
          /\ uOp'.last = o.last
      BY <3>2 DEF UploadOps
    <3>4. uOp' \in UploadOps
      <4>1. /\ (IF expired THEN 0 ELSE saved.uploaded) \in Int
            /\ (IF expired THEN 0 ELSE n) \in Int
            /\ (IF expired \/ ~uFile.key THEN 0 ELSE IF uFile.big THEN saved.iv ELSE n) \in Int
            /\ saved.id \in Nat
        BY <3>1 DEF UploadNotes
      <4> QED BY <3>2, <4>1 DEF UploadOps
    <3>5. saved.id # 0 /\ (saved' = saved \/ saved' = [Upload!Nothing EXCEPT !.id = saved.id])
      BY <2>2, <2>7, <3>3
    <3>6. OwnNotes(uOp', saved')
      BY <2>7, <3>3, <3>5 DEF OwnNotes, Upload!Nothing
    <3>7. ASSUME ~strayed'
          PROVE  Goes(uOp', saved', uRequests', uReports', server', handling')
      <4>1. /\ Goes(o, notes, uRequests', uReports', server', FALSE)
            /\ uRequests' = {} /\ uReports' = <<>>
        BY <2>2, <3>7
      <4>2. ~o.last /\ 0 * UploadChunk = 0
        BY <1>3, <4>1 DEF Goes, NotBegun
      <4>3. PICK m \in Nat : /\ saved.uploaded = m * UploadChunk
                             /\ HasParts(server', saved.id, m)
                             /\ m > 0 => saved.iv = IvOf(m)
        BY <2>2, <3>5, <4>1 DEF Goes, NotesRight
      <4>4. n = m
        BY <4>3, WholeParts DEF n
      <4>5. ~expired => m > 0
        BY <2>7, <4>2, <4>3
      <4>6. /\ uOp'.part \in Nat /\ HasParts(server', uOp'.id, uOp'.part)
            /\ uOp'.uploaded = uOp'.part * UploadChunk
        BY <3>3, <4>2, <4>3, <4>4 DEF HasParts
      <4>7. uOp'.iv = IvOf(uOp'.part)
        BY <3>3, <4>3, <4>4, <4>5 DEF IvOf
      <4> QED BY <1>3, <2>2, <2>5, <3>3, <3>7, <4>1, <4>2, <4>6, <4>7
              DEF Goes, NotBegun, InStep, OneOnItsWay, Arrived
    <3> QED BY <2>3, <3>3, <3>4, <3>6, <3>7
  <2> QED BY <2>6, <2>7
<1> QED BY <1>1, <1>2, <1>3

-----------------------------------------------------------------------------
(* What there is to show of a step.                                        *)
LEMMA UploadGoesOn ==
    ASSUME UploadInv, uFile' = uFile, ids' \in Nat,
           uOp' \in UploadOps, saved' \in UploadNotes, OwnNotes(uOp', saved'),
           posted' \in Seq({"start", "data", "final"}), length' \in Int, SizeKnown',
           ~strayed' => Goes(uOp', saved', uRequests', uReports', server', handling')
    PROVE  UploadInv'
<1>1. UploadTyped' /\ Upload!FileUploadOperationAssumption
  BY DEF UploadInv, UploadTyped
<1>2. OwnNotes(uOp, saved)'
  BY DEF OwnNotes, Upload!Nothing
<1>3. ASSUME ~strayed' PROVE Goes(uOp, saved, uRequests, uReports, server, handling)'
  BY <1>3 DEF Goes, NotesRight, NotBegun, InStep, OneOnItsWay, Arrived,
              HasParts, IvOf, Upload!RightPart, Upload!TotalParts
<1> QED BY <1>1, <1>2, <1>3 DEF UploadInv

LEMMA WaitForDataKeeps ==
    ASSUME UploadInv, Upload!WaitForData
    PROVE  UploadInv'
<1>1. /\ handling /\ ~handling'
      /\ UNCHANGED <<uFile, length, told, uOp, posted, uRequests, saved, server, uReports, ids, strayed>>
  BY DEF Upload!WaitForData
<1>2. ~strayed' => Goes(uOp', saved', uRequests', uReports', server', handling')
  BY <1>1 DEF UploadInv, Goes, NotBegun, InStep, OneOnItsWay, Arrived
<1>3. SizeKnown' /\ OwnNotes(uOp', saved')
  BY <1>1 DEF UploadInv, SizeKnown
<1> QED BY <1>1, <1>2, <1>3, UploadGoesOn, UploadFileFacts

(* A part is read where it should be, and the last one is known as such.   *)
LEMMA SendPartKeeps ==
    ASSUME UploadInv, Upload!SendPart
    PROVE  UploadInv'
<1> DEFINE r == [id |-> uOp.id, part |-> uOp.part, from |-> uOp.uploaded, iv |-> uOp.iv]
           read == Upload!Read(uOp)
           o == [uOp EXCEPT !.uploaded = uOp.uploaded + read,
                            !.iv = IF uFile.key THEN uOp.iv + 1 ELSE 0,
                            !.last = (uOp.last \/ Upload!IsLast(uOp)), !.token = TRUE]
<1>1. /\ handling /\ ~handling' /\ read > 0 /\ uRequests' = uRequests \cup {r} /\ uOp' = o
      /\ uOp.estimated => uOp.uploaded + UploadChunk <= length
      /\ UNCHANGED <<uFile, length, told, posted, saved, server, uReports, ids, strayed>>
  BY DEF Upload!SendPart
<1>2. /\ UploadChunk \in Nat \ {0} /\ uFile.size \in Nat \ {0} /\ uFile.key \in BOOLEAN
      /\ length \in Int /\ uOp.uploaded \in Int /\ uOp.iv \in Int /\ uOp.estimated \in BOOLEAN
      /\ uOp \in UploadOps /\ uOp.last \in BOOLEAN
  BY UploadFileFacts DEF UploadInv, UploadTyped, UploadOps
<1>3. read = (IF uOp.uploaded + UploadChunk <= length THEN UploadChunk ELSE length - uOp.uploaded)
  BY DEF Upload!Read
<1>4. /\ uOp'.state = uOp.state /\ uOp'.estimated = uOp.estimated /\ uOp'.open = uOp.open
      /\ uOp'.id = uOp.id /\ uOp'.part = uOp.part /\ uOp'.uploaded = uOp.uploaded + read
      /\ uOp'.iv = (IF uFile.key THEN uOp.iv + 1 ELSE 0)
      /\ uOp'.last = (uOp.last \/ Upload!IsLast(uOp))
  BY <1>1, <1>2 DEF UploadOps
<1>5. uOp' \in UploadOps
  <2>1. uOp.uploaded + read \in Int /\ (IF uFile.key THEN uOp.iv + 1 ELSE 0) \in Int
    BY <1>2, <1>3
  <2>2. (uOp.last \/ Upload!IsLast(uOp)) \in BOOLEAN
    OBVIOUS
  <2> HIDE DEF read
  <2> QED BY <1>1, <1>2, <2>1, <2>2 DEF UploadOps
<1> HIDE DEF r, o, read
<1>6. SizeKnown' /\ OwnNotes(uOp', saved')
  BY <1>1, <1>4 DEF UploadInv, SizeKnown, OwnNotes
<1>7. ASSUME ~strayed' PROVE Goes(uOp', saved', uRequests', uReports', server', handling')
  <2>1. Goes(uOp, saved, uRequests, uReports, server, TRUE) /\ NotesRight(saved, server)
    BY <1>1, <1>7 DEF UploadInv, Goes, NotBegun, InStep, OneOnItsWay, Arrived
  <2>2. /\ uRequests = {} /\ ~uOp.last /\ uOp.open /\ uOp.state \notin {0, 3}
        /\ uOp.uploaded = uOp.part * UploadChunk /\ uOp.iv = IvOf(uOp.part)
        /\ uOp.part \in Nat /\ HasParts(server, uOp.id, uOp.part)
    BY <2>1 DEF Goes, NotBegun, InStep, Arrived
  <2>3. r = Upload!RightPart(uOp.id, uOp.part)
    BY <2>2 DEF r, Upload!RightPart, IvOf
  <2>4. uOp'.last <=> read # UploadChunk \/ (~uOp.estimated /\ Upload!TotalParts = uOp.part + 1)
    BY <1>4, <2>2 DEF Upload!IsLast, read
  <2>5. ASSUME uOp'.last PROVE uOp.part + 1 = Upload!TotalParts
    <3>1. ~uOp.estimated
      BY <1>1, <1>3, <2>4, <2>5
    <3>2. CASE read # UploadChunk
      <4>1. length = uFile.size
        BY <3>1 DEF UploadInv, SizeKnown
      <4>2. uOp.uploaded < uFile.size /\ uFile.size <= uOp.uploaded + UploadChunk
        BY <1>1, <1>2, <1>3, <3>2, <4>1
      <4> QED BY <1>2, <2>2, <4>2, LastPart DEF Upload!TotalParts
    <3> QED BY <2>4, <2>5, <3>1, <3>2
  <2>6. ASSUME ~uOp'.last
        PROVE  uOp'.uploaded = (uOp.part + 1) * UploadChunk /\ uOp'.iv = IvOf(uOp.part + 1)
    <3>1. uOp'.uploaded = uOp.part * UploadChunk + UploadChunk
      BY <1>4, <2>2, <2>4, <2>6
    <3>2. uOp'.uploaded = (uOp.part + 1) * UploadChunk
      BY <1>2, <2>2, <3>1, OneMorePart
    <3> QED BY <1>4, <2>2, <3>2 DEF IvOf
  <2>7. OneOnItsWay(uOp', uRequests', handling')
    BY <1>1, <1>4, <2>2, <2>3, <2>5, <2>6 DEF OneOnItsWay
  <2>8. uRequests' # {}
    BY <1>1
  <2> QED BY <1>1, <1>4, <2>1, <2>2, <2>7, <2>8 DEF Goes, NotBegun, InStep, Arrived
<1> QED BY <1>1, <1>5, <1>6, <1>7, UploadGoesOn, UploadFileFacts

(* With nothing to read it fails, or strays.                               *)
LEMMA NothingNoted ==
    ASSUME UploadInv, NEW parts
    PROVE  NotesRight(Upload!Nothing, parts) /\ Upload!Nothing \in UploadNotes
<1>1. UploadChunk \in Nat /\ 0 * UploadChunk = 0
  BY UploadFileFacts
<1> QED BY <1>1 DEF NotesRight, Upload!Nothing, UploadNotes

LEMMA ReadFailsKeeps ==
    ASSUME UploadInv, Upload!ReadFails
    PROVE  UploadInv'
<1>1. /\ handling /\ ~handling' /\ ~uOp.estimated
      /\ uOp' = [uOp EXCEPT !.last = TRUE]
      /\ uReports' = Append(uReports, "failed") /\ saved' = Upload!Nothing
      /\ UNCHANGED <<uFile, length, told, posted, uRequests, server, ids, strayed>>
  BY DEF Upload!ReadFails
<1>2. /\ uOp' \in UploadOps
      /\ uOp'.state = uOp.state /\ uOp'.estimated = uOp.estimated /\ uOp'.open = uOp.open
      /\ uOp'.id = uOp.id /\ uOp'.part = uOp.part
  BY <1>1, UploadFileFacts DEF UploadOps
<1>3. SizeKnown' /\ OwnNotes(uOp', saved')
  BY <1>1, <1>2 DEF UploadInv, SizeKnown, OwnNotes, Upload!Nothing
<1>4. ASSUME ~strayed' PROVE Goes(uOp', saved', uRequests', uReports', server', handling')
  <2>1. Goes(uOp, saved, uRequests, uReports, server, TRUE)
    BY <1>1, <1>4 DEF UploadInv, Goes, NotBegun, InStep, OneOnItsWay, Arrived
  <2>2. uRequests = {} /\ uOp.open /\ uOp.state \notin {0, 3}
    BY <2>1 DEF Goes, NotBegun, InStep, Arrived
  <2>3. uReports' # <<>> /\ NotesRight(saved', server')
    BY <1>1, NothingNoted
  <2> QED BY <1>1, <1>2, <2>1, <2>2, <2>3 DEF Goes, NotBegun, InStep, OneOnItsWay, Arrived
<1> QED BY <1>1, <1>2, <1>3, <1>4, UploadGoesOn, NothingNoted, UploadFileFacts

LEMMA SendPaddingKeeps ==
    ASSUME UploadInv, Upload!SendPadding
    PROVE  UploadInv'
<1>1. /\ strayed' /\ ~uOp.estimated
      /\ uOp' = [uOp EXCEPT !.iv = @ + 1, !.last = TRUE, !.token = TRUE]
      /\ UNCHANGED <<uFile, length, told, posted, saved, ids>>
  BY DEF Upload!SendPadding
<1>2. /\ uOp' \in UploadOps
      /\ uOp'.estimated = uOp.estimated /\ uOp'.open = uOp.open /\ uOp'.id = uOp.id
  <2>1. uOp.iv + 1 \in Int
    BY UploadFileFacts DEF UploadOps
  <2> QED BY <1>1, <2>1, UploadFileFacts DEF UploadOps
<1>3. SizeKnown' /\ OwnNotes(uOp', saved')
  BY <1>1, <1>2 DEF UploadInv, SizeKnown, OwnNotes
<1> QED BY <1>1, <1>2, <1>3, UploadGoesOn, UploadFileFacts

-----------------------------------------------------------------------------
(* The answers.                                                            *)
LEMMA AnswerOkKeeps ==
    ASSUME UploadInv, NEW r \in uRequests, Upload!AnswerOk(r)
    PROVE  UploadInv'
<1> DEFINE o == Upload!Confirmed(r)
<1>1. /\ ~handling /\ uRequests' = uRequests \ {r} /\ server' = Upload!Holds(server, {r})
      /\ UNCHANGED <<uFile, length, told, posted>>
  BY DEF Upload!AnswerOk
<1>2. uOp \in UploadOps /\ uOp.part \in Int /\ uOp.last \in BOOLEAN
  BY UploadFileFacts DEF UploadOps
<1>3. /\ o.state = (IF uOp.last THEN 3 ELSE uOp.state) /\ o.estimated = uOp.estimated
      /\ o.open = uOp.open /\ o.id = uOp.id /\ o.part = uOp.part + 1
      /\ o.uploaded = uOp.uploaded /\ o.iv = uOp.iv /\ o.last = uOp.last
  BY <1>2 DEF Upload!Confirmed, UploadOps
<1>4. o \in UploadOps
  <2>1. uOp.part + 1 \in Int /\ (IF uOp.last THEN 3 ELSE uOp.state) \in {0, 1, 2, 3}
    BY <1>2 DEF UploadOps
  <2> QED BY <1>2, <2>1 DEF Upload!Confirmed, UploadOps
<1> HIDE DEF o
<1>5. OwnNotes(o, saved)
  BY <1>3 DEF UploadInv, OwnNotes
<1>6. ASSUME ~strayed
      PROVE  /\ uRequests' = {} /\ uOp.open /\ uOp.state \notin {0, 3}
             /\ uOp.last => o.part = Upload!TotalParts
             /\ ~uOp.last => o.uploaded = o.part * UploadChunk /\ o.iv = IvOf(o.part)
             /\ NotesRight(saved, server')
             /\ o.part \in Nat /\ HasParts(server', o.id, o.part)
  <2>1. Goes(uOp, saved, uRequests, uReports, server, FALSE)
    BY <1>1, <1>6 DEF UploadInv, Goes, NotBegun, InStep, OneOnItsWay, Arrived
  <2>2. /\ uRequests = {Upload!RightPart(uOp.id, uOp.part)} /\ uOp.state # 3
        /\ uOp.last => uOp.part + 1 = Upload!TotalParts
        /\ ~uOp.last => uOp.uploaded = (uOp.part + 1) * UploadChunk /\ uOp.iv = IvOf(uOp.part + 1)
    BY <2>1 DEF Goes, OneOnItsWay
  <2>3. uOp.open /\ uOp.state # 0 /\ uOp.part \in Nat /\ HasParts(server, uOp.id, uOp.part)
    BY <2>1, <2>2 DEF Goes, NotBegun, Arrived
  <2>4. /\ \A i, k : Upload!RightPart(i, k) \in server => Upload!RightPart(i, k) \in server'
        /\ Upload!RightPart(uOp.id, uOp.part) \in server'
    BY <1>1, <2>2, HeldParts
  <2>5. NotesRight(saved, server')
    BY <2>1, <2>4 DEF Goes, NotesRight, HasParts
  <2>6. HasParts(server', uOp.id, uOp.part + 1)
    BY <2>3, <2>4 DEF HasParts
  <2> QED BY <1>1, <1>3, <2>2, <2>3, <2>5, <2>6
<1>7. CASE uOp.last
  <2>1. /\ uOp' = o /\ saved' = Upload!Nothing
        /\ UNCHANGED <<handling, ids, strayed>>
    BY <1>7 DEF Upload!AnswerOk, o
  <2>2. OwnNotes(uOp', saved') /\ SizeKnown'
    BY <1>1, <1>3, <2>1 DEF UploadInv, OwnNotes, SizeKnown, Upload!Nothing
  <2>3. ~strayed' => Goes(uOp', saved', uRequests', uReports', server', handling')
    BY <1>1, <1>3, <1>6, <1>7, <2>1, NothingNoted
       DEF Goes, NotBegun, InStep, OneOnItsWay, Arrived
  <2> QED BY <1>1, <1>4, <2>1, <2>2, <2>3, UploadGoesOn, NothingNoted, UploadFileFacts
<1>8. CASE ~uOp.last
  <2>1. Upload!StartUploadRequest(o, saved) /\ uReports' = uReports
    BY <1>8 DEF Upload!AnswerOk, o
  <2>2. ~strayed => Goes(o, saved, uRequests', uReports', server', FALSE)
    BY <1>3, <1>6, <1>8 DEF Goes, NotBegun, InStep, OneOnItsWay, Arrived
  <2>3. /\ uOp' \in UploadOps /\ saved' \in UploadNotes /\ ids' \in Nat
        /\ OwnNotes(uOp', saved') /\ uOp'.estimated = o.estimated
        /\ ~strayed' => Goes(uOp', saved', uRequests', uReports', server', handling')
    BY <1>1, <1>4, <1>5, <2>1, <2>2, UploadFileFacts, StartUploadRequestKeeps
  <2>4. SizeKnown'
    BY <1>1, <1>3, <2>3 DEF UploadInv, SizeKnown
  <2> QED BY <1>1, <2>3, <2>4, UploadGoesOn, UploadFileFacts
<1> QED BY <1>7, <1>8

LEMMA UploadAnswerFailsKeeps ==
    ASSUME UploadInv, NEW r \in uRequests, Upload!AnswerFails(r)
    PROVE  UploadInv'
<1>1. /\ ~handling /\ uRequests' = uRequests \ {r}
      /\ uOp' = [uOp EXCEPT !.token = FALSE]
      /\ uReports' = Append(uReports, "failed") /\ saved' = Upload!Nothing
      /\ UNCHANGED <<uFile, length, told, posted, handling, server, ids, strayed>>
  BY DEF Upload!AnswerFails
<1>2. /\ uOp' \in UploadOps
      /\ uOp'.state = uOp.state /\ uOp'.estimated = uOp.estimated /\ uOp'.open = uOp.open
      /\ uOp'.id = uOp.id /\ uOp'.part = uOp.part
  BY <1>1, UploadFileFacts DEF UploadOps
<1>3. SizeKnown' /\ OwnNotes(uOp', saved')
  BY <1>1, <1>2 DEF UploadInv, SizeKnown, OwnNotes, Upload!Nothing
<1>4. ASSUME ~strayed' PROVE Goes(uOp', saved', uRequests', uReports', server', handling')
  <2>1. Goes(uOp, saved, uRequests, uReports, server, FALSE)
    BY <1>1, <1>4 DEF UploadInv, Goes, NotBegun, InStep, OneOnItsWay, Arrived
  <2>2. uRequests' = {} /\ uOp.open /\ uOp.state \notin {0, 3}
    BY <1>1, <2>1 DEF Goes, NotBegun, OneOnItsWay
  <2>3. uReports' # <<>> /\ NotesRight(saved', server')
    BY <1>1, NothingNoted
  <2> QED BY <1>1, <1>2, <2>1, <2>2, <2>3 DEF Goes, NotBegun, InStep, OneOnItsWay, Arrived
<1> QED BY <1>1, <1>2, <1>3, <1>4, UploadGoesOn, NothingNoted, UploadFileFacts

-----------------------------------------------------------------------------
(* The runnables of stageQueue, and what posts them.                       *)
LEMMA TakenFirst ==
    ASSUME UploadInv, posted # <<>>, posted' = Tail(posted)
    PROVE  /\ posted' \in Seq({"start", "data", "final"})
           /\ (\E i \in 1 .. Len(posted') : posted'[i] = "final")
                 => \E i \in 1 .. Len(posted) : posted[i] = "final"
           /\ Head(posted) = posted[1] /\ 1 \in 1 .. Len(posted)
<1>1. posted \in Seq({"start", "data", "final"})
  BY UploadFileFacts
<1>2. /\ Len(posted) \in Nat \ {0} /\ Len(posted') = Len(posted) - 1
      /\ \A i \in 1 .. Len(posted') : posted'[i] = posted[i + 1] /\ i + 1 \in 1 .. Len(posted)
  BY <1>1
<1>3. posted' \in Seq({"start", "data", "final"})
  BY <1>1
<1>4. Head(posted) = posted[1] /\ 1 \in 1 .. Len(posted)
  BY <1>1, <1>2
<1>5. ASSUME NEW i \in 1 .. Len(posted'), posted'[i] = "final"
      PROVE  \E j \in 1 .. Len(posted) : posted[j] = "final"
  BY <1>2, <1>5
<1> QED BY <1>3, <1>4, <1>5

LEMMA PutLast ==
    ASSUME UploadInv, NEW s \in {"start", "data", "final"}, posted' = Append(posted, s)
    PROVE  /\ posted' \in Seq({"start", "data", "final"})
           /\ (\E i \in 1 .. Len(posted') : posted'[i] = "final")
                 => s = "final" \/ \E i \in 1 .. Len(posted) : posted[i] = "final"
<1>1. posted \in Seq({"start", "data", "final"})
  BY UploadFileFacts
<1>2. /\ posted' \in Seq({"start", "data", "final"}) /\ Len(posted) \in Nat
      /\ Len(posted') = Len(posted) + 1 /\ posted'[Len(posted) + 1] = s
      /\ \A i \in 1 .. Len(posted) : posted'[i] = posted[i]
  BY <1>1
<1>3. ASSUME NEW i \in 1 .. Len(posted'), posted'[i] = "final", s # "final"
      PROVE  \E j \in 1 .. Len(posted) : posted[j] = "final"
  BY <1>2, <1>3
<1> QED BY <1>2, <1>3

LEMMA RunStartKeeps ==
    ASSUME UploadInv, Upload!RunStart
    PROVE  UploadInv'
<1>1. /\ ~handling /\ posted # <<>> /\ posted' = Tail(posted)
      /\ UNCHANGED <<uFile, length, told, uRequests, server, uReports>>
      /\ Upload!StartUploadRequest(uOp, saved)
  BY DEF Upload!RunStart
<1>2. OwnNotes(uOp, saved)
  BY DEF UploadInv
<1>3. ~strayed => Goes(uOp, saved, uRequests', uReports', server', FALSE)
  BY <1>1 DEF UploadInv, Goes, NotBegun, InStep, OneOnItsWay, Arrived
<1>4. /\ uOp' \in UploadOps /\ saved' \in UploadNotes /\ ids' \in Nat
      /\ OwnNotes(uOp', saved') /\ uOp'.estimated = uOp.estimated
      /\ ~strayed' => Goes(uOp', saved', uRequests', uReports', server', handling')
  BY <1>1, <1>2, <1>3, UploadFileFacts, StartUploadRequestKeeps
<1>5. SizeKnown'
  BY <1>1, <1>4, TakenFirst DEF UploadInv, SizeKnown
<1> QED BY <1>1, <1>4, <1>5, TakenFirst, UploadGoesOn, UploadFileFacts

LEMMA RunDataKeeps ==
    ASSUME UploadInv, Upload!RunData
    PROVE  UploadInv'
<1> DEFINE final_ == Head(posted) = "final" /\ uOp.estimated
           o == IF final_ THEN Upload!Sized(uOp) ELSE uOp
           notes == IF final_ /\ uOp.open THEN [id |-> uOp.id, uploaded |-> 0, iv |-> uOp.iv] ELSE saved
<1>1. /\ ~handling /\ posted # <<>> /\ posted' = Tail(posted)
      /\ UNCHANGED <<uFile, length, told, uRequests, server, uReports>>
      /\ IF uOp.token
         THEN uOp' = o /\ saved' = notes /\ UNCHANGED <<handling, ids, strayed>>
         ELSE Upload!StartUploadRequest(o, notes)
  BY DEF Upload!RunData
<1>2. uOp \in UploadOps /\ saved \in UploadNotes /\ uOp.estimated \in BOOLEAN
  BY UploadFileFacts DEF UploadOps
<1>3. /\ o \in UploadOps /\ o.state = uOp.state /\ o.open = uOp.open /\ o.id = uOp.id
      /\ o.part = uOp.part /\ o.uploaded = uOp.uploaded /\ o.iv = uOp.iv /\ o.last = uOp.last
      /\ o.estimated => uOp.estimated /\ ~final_
      /\ ~o.estimated => ~uOp.estimated \/ final_
  BY <1>2 DEF Upload!Sized, UploadOps
<1>4. notes \in UploadNotes
  BY <1>2 DEF UploadOps, UploadNotes
<1>5. /\ ~o.open => notes = saved
      /\ \/ notes = saved
         \/ final_ /\ uOp.open /\ notes.id = uOp.id /\ notes.uploaded = 0
  BY <1>3
<1> HIDE DEF o, notes
<1>6. OwnNotes(o, notes)
  BY <1>3, <1>5 DEF UploadInv, OwnNotes
<1>7. ASSUME ~strayed PROVE Goes(o, notes, uRequests', uReports', server', FALSE)
  <2>1. Goes(uOp, saved, uRequests, uReports, server, FALSE)
    BY <1>1, <1>7 DEF UploadInv, Goes, NotBegun, InStep, OneOnItsWay, Arrived
  <2>2. NotesRight(notes, server)
    <3>1. UploadChunk \in Nat /\ 0 * UploadChunk = 0
      BY UploadFileFacts
    <3> QED BY <1>5, <2>1, <3>1 DEF Goes, NotesRight, HasParts
  <2> QED BY <1>1, <1>3, <2>1, <2>2 DEF Goes, NotBegun, InStep, OneOnItsWay, Arrived
<1>8. final_ => \E i \in 1 .. Len(posted) : posted[i] = "final"
  BY <1>1, TakenFirst
<1>9. /\ uOp' \in UploadOps /\ saved' \in UploadNotes /\ ids' \in Nat
      /\ OwnNotes(uOp', saved') /\ uOp'.estimated = o.estimated
      /\ ~strayed' => Goes(uOp', saved', uRequests', uReports', server', handling')
  <2>1. CASE uOp.token
    <3>1. uOp' = o /\ saved' = notes /\ ids' = ids /\ ~handling' /\ strayed' = strayed
      BY <1>1, <2>1
    <3>2. ~strayed' => Goes(uOp', saved', uRequests', uReports', server', handling')
      BY <1>7, <3>1 DEF Goes, NotBegun, InStep, OneOnItsWay, Arrived
    <3> QED BY <1>3, <1>4, <1>6, <3>1, <3>2, UploadFileFacts
  <2>2. CASE ~uOp.token
    <3>1. Upload!StartUploadRequest(o, notes)
      BY <1>1, <2>2
    <3> QED BY <1>1, <1>3, <1>4, <1>5, <1>6, <1>7, <3>1, StartUploadRequestKeeps
  <2> QED BY <2>1, <2>2
<1> HIDE DEF final_
<1>10. SizeKnown'
  BY <1>1, <1>3, <1>8, <1>9, TakenFirst DEF UploadInv, SizeKnown
<1> QED BY <1>1, <1>9, <1>10, TakenFirst, UploadGoesOn, UploadFileFacts

-----------------------------------------------------------------------------
(* The calls of fileLoaderQueue: the state changes, or something is posted.*)
LEMMA UploadStartKeeps ==
    ASSUME UploadInv, Upload!Start
    PROVE  UploadInv'
<1>1. /\ uOp.state = 0 /\ uOp' = [uOp EXCEPT !.state = 1] /\ posted' = Append(posted, "start")
      /\ UNCHANGED <<uFile, length, told, handling, uRequests, saved, server, uReports, ids, strayed>>
  BY DEF Upload!Start
<1>2. /\ uOp' \in UploadOps /\ uOp'.state = 1
      /\ uOp'.estimated = uOp.estimated /\ uOp'.open = uOp.open /\ uOp'.id = uOp.id
      /\ uOp'.part = uOp.part /\ uOp'.uploaded = uOp.uploaded /\ uOp'.iv = uOp.iv
      /\ uOp'.last = uOp.last
  BY <1>1, UploadFileFacts DEF UploadOps
<1>3. SizeKnown' /\ OwnNotes(uOp', saved')
  BY <1>1, <1>2, PutLast DEF UploadInv, SizeKnown, OwnNotes
<1>4. ASSUME ~strayed' PROVE Goes(uOp', saved', uRequests', uReports', server', handling')
  <2>1. Goes(uOp, saved, uRequests, uReports, server, handling)
    BY <1>1, <1>4 DEF UploadInv
  <2> QED BY <1>1, <1>2, <2>1 DEF Goes, NotBegun, InStep, OneOnItsWay, Arrived
<1> QED BY <1>1, <1>2, <1>3, <1>4, PutLast, UploadGoesOn, UploadFileFacts

LEMMA UploadCancelKeeps ==
    ASSUME UploadInv, Upload!Cancel
    PROVE  UploadInv'
<1>1. /\ uOp.state = 1 /\ uOp' = [uOp EXCEPT !.state = 2] /\ saved' = Upload!Nothing
      /\ UNCHANGED <<uFile, length, told, posted, handling, uRequests, server, ids, strayed>>
  BY DEF Upload!Cancel
<1>2. /\ uOp' \in UploadOps /\ uOp'.state = 2
      /\ uOp'.estimated = uOp.estimated /\ uOp'.open = uOp.open /\ uOp'.id = uOp.id
      /\ uOp'.part = uOp.part /\ uOp'.uploaded = uOp.uploaded /\ uOp'.iv = uOp.iv
      /\ uOp'.last = uOp.last
  BY <1>1, UploadFileFacts DEF UploadOps
<1>3. SizeKnown' /\ OwnNotes(uOp', saved')
  BY <1>1, <1>2 DEF UploadInv, SizeKnown, OwnNotes, Upload!Nothing
<1>4. ASSUME ~strayed' PROVE Goes(uOp', saved', uRequests', uReports', server', handling')
  <2>1. Goes(uOp, saved, uRequests, uReports, server, handling)
    BY <1>1, <1>4 DEF UploadInv
  <2> QED BY <1>1, <1>2, <2>1, NothingNoted DEF Goes, NotBegun, InStep, OneOnItsWay, Arrived
<1> QED BY <1>1, <1>2, <1>3, <1>4, NothingNoted, UploadGoesOn, UploadFileFacts

LEMMA WriteKeeps ==
    ASSUME UploadInv, Upload!Write
    PROVE  UploadInv'
<1>1. /\ ~told
      /\ \/ /\ length' \in length + 1 .. uFile.size - 1 /\ posted' = Append(posted, "data") /\ ~told'
         \/ length' = uFile.size /\ posted' = Append(posted, "final") /\ told'
      /\ UNCHANGED <<uFile, uOp, handling, uRequests, saved, server, uReports, ids, strayed>>
  BY DEF Upload!Write
<1>2. length' \in Int /\ posted' \in Seq({"start", "data", "final"})
  BY <1>1, PutLast, UploadFileFacts
<1>3. SizeKnown'
  <2>1. CASE posted' = Append(posted, "data") /\ ~told'
    BY <1>1, <2>1, PutLast DEF UploadInv, SizeKnown
  <2>2. CASE length' = uFile.size /\ told'
    BY <1>1, <2>2 DEF SizeKnown
  <2> QED BY <1>1, <2>1, <2>2
<1>4. ~strayed' => Goes(uOp', saved', uRequests', uReports', server', handling')
  BY <1>1 DEF UploadInv
<1>5. OwnNotes(uOp', saved')
  BY <1>1 DEF UploadInv
<1> QED BY <1>1, <1>2, <1>3, <1>4, <1>5, UploadGoesOn, UploadFileFacts

(* The process dies: the server may still get the part on its way, and it  *)
(* is a right one.                                                         *)
LEMMA DieKeeps ==
    ASSUME UploadInv, Upload!Die
    PROVE  UploadInv'
<1>1. PICK got \in SUBSET uRequests : server' = Upload!Holds(server, got)
  BY DEF Upload!Die
<1>2. /\ told /\ uOp' = Upload!Fresh(FALSE) /\ posted' = <<>> /\ ~handling'
      /\ uRequests' = {} /\ UNCHANGED <<uFile, length, told, saved, ids, strayed>>
  BY DEF Upload!Die
<1>3. /\ uOp' \in UploadOps /\ uOp'.state = 0 /\ ~uOp'.estimated /\ ~uOp'.open
      /\ uOp'.part = 0 /\ uOp'.uploaded = 0 /\ uOp'.iv = 0 /\ ~uOp'.last
  BY <1>2 DEF Upload!Fresh, UploadOps
<1>4. SizeKnown' /\ OwnNotes(uOp', saved')
  BY <1>2, <1>3 DEF UploadInv, SizeKnown, OwnNotes
<1>5. ASSUME ~strayed' PROVE NotesRight(saved', server')
  <2>1. Goes(uOp, saved, uRequests, uReports, server, handling)
    BY <1>2, <1>5 DEF UploadInv
  <2>2. got \in SUBSET {Upload!RightPart(uOp.id, uOp.part)}
    BY <2>1 DEF Goes, OneOnItsWay
  <2>3. \A i, k : Upload!RightPart(i, k) \in server => Upload!RightPart(i, k) \in server'
    BY <1>1, <2>2, HeldParts
  <2> QED BY <1>2, <2>1, <2>3 DEF Goes, NotesRight, HasParts
<1>6. ASSUME ~strayed' PROVE Goes(uOp', saved', uRequests', uReports', server', handling')
  <2>1. HasParts(server', uOp'.id, uOp'.part)
    BY <1>3 DEF HasParts
  <2>2. NotesRight(saved', server')
    BY <1>5, <1>6, Zenon
  <2>3. uRequests' = {} /\ ~uOp'.open /\ ~handling'
    BY <1>2, <1>3
  <2>4. NotBegun(uOp', uRequests', handling')
    BY <1>3, <2>3 DEF NotBegun
  <2>5. InStep(uOp', uRequests', uReports', handling')
    BY <2>3, Zenon DEF InStep
  <2>6. OneOnItsWay(uOp', uRequests', handling')
    BY <2>3, Zenon DEF OneOnItsWay
  <2>7. Arrived(uOp', uRequests', server', handling')
    BY <1>3, <2>1 DEF Arrived
  <2> QED BY <2>2, <2>4, <2>5, <2>6, <2>7, Zenon DEF Goes
<1>7. posted' \in Seq({"start", "data", "final"})
  BY <1>2
<1> QED BY <1>2, <1>3, <1>4, <1>6, <1>7, UploadGoesOn, UploadFileFacts

LEMMA UploadNextKeeps == UploadInv /\ [Upload!Next]_(Upload!vars) => UploadInv'
<1> SUFFICES ASSUME UploadInv, [Upload!Next]_(Upload!vars)
             PROVE  UploadInv'
  OBVIOUS
<1>1. CASE Upload!WaitForData \/ Upload!SendPart \/ Upload!ReadFails \/ Upload!SendPadding
  BY <1>1, WaitForDataKeeps, SendPartKeeps, ReadFailsKeeps, SendPaddingKeeps
<1>2. ASSUME NEW r \in uRequests, Upload!AnswerOk(r) \/ Upload!AnswerFails(r)
      PROVE  UploadInv'
  BY <1>2, AnswerOkKeeps, UploadAnswerFailsKeeps
<1>3. CASE Upload!RunStart \/ Upload!RunData
  BY <1>3, RunStartKeeps, RunDataKeeps
<1>4. CASE Upload!Start \/ Upload!Cancel \/ Upload!Write \/ Upload!Die
  BY <1>4, UploadStartKeeps, UploadCancelKeeps, WriteKeeps, DieKeeps
<1>5. CASE UNCHANGED Upload!vars
  <2>1. /\ UNCHANGED <<uFile, length, told, uOp, posted, handling, uRequests, saved, server>>
        /\ UNCHANGED <<uReports, ids, strayed>>
    BY <1>5 DEF Upload!vars
  <2>2. SizeKnown' /\ OwnNotes(uOp', saved')
    BY <2>1 DEF UploadInv, SizeKnown
  <2>3. ~strayed' => Goes(uOp', saved', uRequests', uReports', server', handling')
    BY <2>1 DEF UploadInv
  <2> QED BY <2>1, <2>2, <2>3, UploadGoesOn, UploadFileFacts
<1> QED BY <1>1, <1>2, <1>3, <1>4, <1>5 DEF Upload!Next

LEMMA UploadIsWhole == UploadInv => Upload!WholeFile
<1> SUFFICES ASSUME UploadInv, uOp.state = 3, ~strayed
             PROVE  uOp.part = Upload!TotalParts
                    /\ \A k \in 0 .. uOp.part - 1 : Upload!RightPart(uOp.id, k) \in server
  BY DEF Upload!WholeFile
<1>1. Arrived(uOp, uRequests, server, handling)
  BY DEF UploadInv, Goes
<1> QED BY <1>1 DEF Arrived, HasParts

(* What is noted of an upload was confirmed: whatever fails and whenever   *)
(* the process dies, an upload that goes on from the notes leaves no gap.  *)
THEOREM NotesAreRight == Upload!Spec => []NotedIsSent
<1>1. Upload!Init => UploadInv
  BY UploadInitHolds
<1>2. UploadInv /\ [Upload!Next]_(Upload!vars) => UploadInv'
  BY UploadNextKeeps
<1>3. UploadInv => NotedIsSent
  <2> SUFFICES ASSUME UploadInv, saved.id # 0, saved.uploaded > 0, ~strayed
               PROVE  /\ \A k \in 0 .. (saved.uploaded \div UploadChunk) - 1 :
                            Upload!RightPart(saved.id, k) \in server
                      /\ uFile.key => saved.iv = saved.uploaded \div UploadChunk
    BY DEF NotedIsSent, Upload!NotedIsSent
  <2>1. PICK n \in Nat : /\ saved.uploaded = n * UploadChunk
                         /\ HasParts(server, saved.id, n) /\ (n > 0 => saved.iv = IvOf(n))
    BY DEF UploadInv, Goes, NotesRight
  <2>2. saved.uploaded \div UploadChunk = n /\ n > 0
    <3>1. 0 * UploadChunk = 0
      BY UploadFileFacts
    <3> QED BY <2>1, <3>1, WholeParts, UploadFileFacts
  <2> QED BY <2>1, <2>2 DEF HasParts, IvOf
<1> QED BY <1>1, <1>2, <1>3, PTL DEF Upload!Spec

-----------------------------------------------------------------------------
(* The download.                                                           *)
DownloadRequests == [offset : Nat, epoch : Nat]

LEMMA SameCount == \A S : Download!Cardinality(S) = Cardinality(S)
BY DEF Download!Cardinality, Cardinality

LEMMA Multiples ==
    ASSUME NEW c \in Nat \ {0}
    PROVE  /\ \A i, j \in Nat : i * c = j * c => i = j
           /\ \A i, j \in Nat : i <= j => i * c <= j * c
           /\ \A i \in Nat : i * c \in Nat /\ i <= i * c /\ (i * c) % c = 0
           /\ \A i, j \in Nat : (i + j) * c = i * c + j * c
OBVIOUS

LEMMA Divided ==
    ASSUME NEW c \in Nat \ {0}, NEW z \in Nat, z % c = 0
    PROVE  \E k \in Nat : z = k * c /\ (z > 0 => k > 0)
<1>1. z \div c \in Nat /\ z = (z \div c) * c + (z % c)
  OBVIOUS
<1>2. z = (z \div c) * c
  BY <1>1
<1>3. z > 0 => z \div c > 0
  BY <1>1, <1>2
<1> QED BY <1>1, <1>2, <1>3

(* The delayed parts that follow the one at x are those at the next places,*)
(* up to the first place where there is none.                              *)
LEMMA RunOfParts ==
    ASSUME LoadChunk \in Nat \ {0}, delayed \subseteq DownloadRequests,
           NEW x \in Nat, NEW b \in Nat, \A d \in delayed : d.offset < b
    PROVE  \E m \in Nat :
              /\ Download!Cardinality(Download!Following(x)) = m
              /\ \A i \in 1 .. m : \E d \in Download!Following(x) : d.offset = x + i * LoadChunk
              /\ \A d \in Download!Following(x) : \E i \in 1 .. m : d.offset = x + i * LoadChunk
              /\ \A d \in delayed : d.offset # x + (m + 1) * LoadChunk
<1> DEFINE c == LoadChunk
           at(i) == x + i * c
           D == {i \in Nat : \A d \in delayed : d.offset # at(i + 1)}
           F == Download!Following(x)
<1>1. c \in Nat \ {0} /\ \A i \in Nat : at(i) \in Nat /\ i <= at(i) /\ x <= at(i)
  BY Multiples
<1>2. b \in D
  <2>1. b + 1 \in Nat /\ b + 1 <= at(b + 1)
    BY <1>1
  <2> QED BY <2>1
<1>3. PICK m \in D : \A k \in D : m <= k
  <2>1. D \subseteq Nat /\ D # {}
    BY <1>2
  <2> HIDE DEF D
  <2> QED BY <2>1, Least
<1>4. m \in Nat /\ \A d \in delayed : d.offset # at(m + 1)
  BY <1>3
<1>5. ASSUME NEW i \in 1 .. m PROVE \E d \in delayed : d.offset = at(i)
  <2>1. i - 1 \in Nat /\ (i - 1) + 1 = i /\ ~(m <= i - 1)
    BY <1>4
  <2>2. i - 1 \notin D
    BY <1>3, <2>1, Zenon
  <2> QED BY <2>1, <2>2
<1> HIDE DEF D
<1>6. \A i, j \in Nat : (at(i) = at(j) => i = j) /\ (i < j => at(i) < at(j)) /\ (i > 0 => at(i) > x)
  <2>1. ASSUME NEW i \in Nat, NEW j \in Nat
        PROVE  (i * c = j * c => i = j) /\ (i < j => i * c < j * c) /\ (i > 0 => i * c > 0)
    BY <1>1
  <2>2. \A i \in Nat : i * c \in Nat
    BY <1>1
  <2> QED BY <2>1, <2>2
<1>7. ASSUME NEW i \in 1 .. m PROVE \E d \in F : d.offset = at(i)
  <2> DEFINE E == {e \in Nat : \E d \in delayed : d.offset = at(i) /\ d.epoch = e}
  <2>1. PICK e \in E : \A k \in E : e <= k
    <3>1. E \subseteq Nat
      OBVIOUS
    <3>2. E # {}
      BY <1>5, <1>7 DEF DownloadRequests
    <3> HIDE DEF E
    <3> QED BY <3>1, <3>2, Least
  <2>2. PICK d \in delayed : d.offset = at(i) /\ d.epoch = e
    BY <2>1
  <2>3. \A k \in delayed : k.offset = d.offset => d.epoch <= k.epoch
    BY <2>1, <2>2 DEF DownloadRequests
  <2>4. d.offset > x /\ (d.offset - x) % c = 0
    <3>1. d.offset - x = i * c /\ i \in Nat /\ i > 0
      BY <1>1, <1>4, <2>2
    <3> QED BY <1>1, <1>6, <2>2, <3>1, Multiples
  <2>5. ASSUME NEW y \in x + 1 .. d.offset, (y - x) % c = 0
        PROVE  \E k \in delayed : k.offset = y
    <3>1. PICK k \in Nat : y - x = k * c /\ k > 0
      <4>1. y - x \in Nat /\ y - x > 0
        BY <2>5
      <4> QED BY <1>1, <2>5, <4>1, Divided
    <3>2. y = at(k) /\ i \in Nat
      BY <1>1, <1>4, <3>1
    <3>3. ~(i < k)
      BY <1>1, <1>6, <2>2, <2>5, <3>2
    <3>4. k \in 1 .. m
      BY <1>4, <3>1, <3>2, <3>3
    <3> QED BY <1>5, <3>2, <3>4
  <2>6. d \in F
    BY <2>2, <2>3, <2>4, <2>5 DEF Download!Following
  <2> QED BY <2>2, <2>6
<1>8. ASSUME NEW d \in F PROVE \E i \in 1 .. m : d.offset = at(i)
  <2>1. /\ d \in delayed /\ d.offset \in Nat /\ d.offset > x /\ (d.offset - x) % c = 0
        /\ \A y \in x + 1 .. d.offset : (y - x) % c = 0 => \E k \in delayed : k.offset = y
    BY DEF Download!Following, DownloadRequests
  <2>2. PICK i \in Nat : d.offset - x = i * c /\ i > 0
    <3>1. d.offset - x \in Nat /\ d.offset - x > 0
      BY <2>1
    <3> QED BY <1>1, <2>1, <3>1, Divided
  <2>3. d.offset = at(i)
    BY <1>1, <2>1, <2>2
  <2>4. i <= m
    <3> SUFFICES ASSUME m + 1 <= i PROVE FALSE
      BY <1>4
    <3>1. at(m + 1) \in x + 1 .. d.offset
      <4>1. m + 1 = i \/ m + 1 < i
        BY <1>4
      <4>2. at(m + 1) <= at(i)
        BY <1>1, <1>4, <1>6, <4>1
      <4>3. at(m + 1) > x /\ at(m + 1) \in Nat
        BY <1>1, <1>4, <1>6
      <4> QED BY <2>1, <2>3, <4>2, <4>3
    <3>2. at(m + 1) - x = (m + 1) * c /\ ((m + 1) * c) % c = 0
      BY <1>1, <1>4, Multiples
    <3> QED BY <1>4, <2>1, <3>1, <3>2
  <2> QED BY <2>2, <2>3, <2>4
<1>9. Cardinality(F) = m
  <2> DEFINE f == [i \in 1 .. m |-> CHOOSE d \in F : d.offset = at(i)]
  <2>1. \A i \in 1 .. m : f[i] \in F /\ f[i].offset = at(i)
    BY <1>7
  <2>2. \A d, e \in F : d.offset = e.offset => d = e
    <3> SUFFICES ASSUME NEW d \in F, NEW e \in F, d.offset = e.offset PROVE d = e
      OBVIOUS
    <3>1. d \in DownloadRequests /\ e \in DownloadRequests /\ d.epoch <= e.epoch /\ e.epoch <= d.epoch
      BY DEF Download!Following
    <3> QED BY <3>1 DEF DownloadRequests
  <2>3. f \in [1 .. m -> F]
    BY <2>1
  <2> HIDE DEF f
  <2>4. \A i, j \in 1 .. m : f[i] = f[j] => i = j
    BY <1>4, <1>6, <2>1
  <2>5. \A d \in F : \E i \in 1 .. m : f[i] = d
    BY <1>8, <2>1, <2>2
  <2> HIDE DEF F
  <2> QED BY <1>4, <2>3, <2>4, <2>5, Numbered
<1> QED BY <1>4, <1>7, <1>8, <1>9, SameCount

(* What is asked for are the next places, of which there is one at a time  *)
(* when the size is not known.                                             *)
LEMMA AskedFor ==
    ASSUME LoadChunk \in Nat \ {0}, MaxRequests \in Nat \ {0}, file.total \in Nat,
           NEW o, o.next \in Nat, NEW rs, NEW ds, IsFiniteSet(rs), IsFiniteSet(ds)
    PROVE  \E k \in Nat :
              /\ Download!Cardinality(Download!Asked(o, rs, ds)) = k
              /\ Download!Asked(o, rs, ds) = {o.next + i * LoadChunk : i \in 0 .. k - 1}
              /\ file.total > 0 => \A x \in Download!Asked(o, rs, ds) : x < file.total
              /\ o.state # "downloading" => k = 0
              /\ o.state = "downloading" /\ file.total = 0 /\ rs = {} /\ ds = {} => k = 1
<1> DEFINE c == LoadChunk
           room == MaxRequests - Cardinality(rs) - Cardinality(ds)
           count == IF file.total > 0 THEN room ELSE 1
           at(i) == o.next + i * c
           A == Download!Asked(o, rs, ds)
<1>1. room \in Int /\ Cardinality(rs) \in Nat /\ Cardinality(ds) \in Nat
  BY FS_CardinalityType
<1>2. A = IF o.state # "downloading" \/ room <= 0 THEN {}
          ELSE {x \in {at(i) : i \in 0 .. count - 1} : file.total > 0 => x < file.total}
  BY SameCount DEF Download!Asked
<1>3. \A i \in Nat : i * c \in Nat /\ at(i) \in Nat
  BY Multiples
<1>4. \A i, j \in Nat : (at(i) = at(j) => i = j) /\ (i <= j => at(i) <= at(j))
  BY <1>3, Multiples
<1>5. CASE o.state # "downloading" \/ room <= 0
  <2>1. A = {} /\ Cardinality(A) = 0 /\ A = {at(i) : i \in 0 .. 0 - 1}
    BY <1>2, <1>5, FS_EmptySet
  <2>2. rs = {} /\ ds = {} => room > 0
    BY FS_EmptySet
  <2>3. Download!Cardinality(A) = 0
    BY <2>1, SameCount
  <2>4. o.state = "downloading" => ~(rs = {} /\ ds = {})
    BY <1>1, <1>5, <2>2
  <2> HIDE DEF room
  <2> WITNESS 0 \in Nat
  <2> QED BY <2>1, <2>3, <2>4
<1>6. CASE o.state = "downloading" /\ room > 0
  <2> DEFINE D == {i \in Nat : i >= count \/ (file.total > 0 /\ at(i) >= file.total)}
  <2>1. count \in Nat /\ count > 0 /\ (file.total = 0 => count = 1) /\ ~(room <= 0)
    BY <1>1, <1>6
  <2> HIDE DEF count, room
  <2>2. PICK k \in D : \A i \in D : k <= i
    <3>1. D \subseteq Nat /\ count \in D
      BY <2>1
    <3> HIDE DEF D
    <3> QED BY <3>1, Least
  <2>3. k \in Nat /\ k <= count
    BY <2>1, <2>2
  <2>4. ASSUME NEW i \in 0 .. k - 1 PROVE i < count /\ (file.total > 0 => at(i) < file.total)
    <3>1. i \in Nat /\ ~(k <= i)
      BY <2>3
    <3>2. i \notin D
      BY <2>2, <3>1, Zenon
    <3> QED BY <1>3, <2>1, <3>1, <3>2
  <2>5. ASSUME NEW i \in 0 .. count - 1, file.total > 0 => at(i) < file.total
        PROVE  i \in 0 .. k - 1
    <3> SUFFICES ASSUME k <= i PROVE FALSE
      BY <2>1, <2>3
    <3>1. i \in Nat /\ i < count /\ at(k) <= at(i) /\ at(k) \in Nat /\ at(i) \in Nat
      BY <1>3, <1>4, <2>1, <2>3
    <3>2. k >= count \/ (file.total > 0 /\ at(k) >= file.total)
      BY <2>2
    <3> QED BY <2>1, <2>3, <2>5, <3>1, <3>2
  <2>6. A = {at(i) : i \in 0 .. k - 1}
    <3>1. A = {x \in {at(i) : i \in 0 .. count - 1} : file.total > 0 => x < file.total}
      BY <1>2, <1>6, <2>1, Zenon
    <3>2. \A i \in 0 .. k - 1 : i \in 0 .. count - 1
      BY <2>1, <2>3
    <3> HIDE DEF A, at
    <3> QED BY <2>4, <2>5, <3>1, <3>2
  <2>7. Cardinality(A) = k
    <3> DEFINE f == [i \in 1 .. k |-> at(i - 1)]
    <3>1. \A i \in 1 .. k : i - 1 \in 0 .. k - 1 /\ i - 1 \in Nat
      BY <2>3
    <3>2. f \in [1 .. k -> A]
      BY <2>6, <3>1
    <3>3. \A i, j \in 1 .. k : f[i] = f[j] => i = j
      <4> SUFFICES ASSUME NEW i \in 1 .. k, NEW j \in 1 .. k, f[i] = f[j] PROVE i = j
        OBVIOUS
      <4>1. i - 1 = j - 1
        BY <1>4, <3>1
      <4> QED BY <2>3, <4>1
    <3>4. \A x \in A : \E i \in 1 .. k : f[i] = x
      <4> SUFFICES ASSUME NEW j \in 0 .. k - 1 PROVE \E i \in 1 .. k : f[i] = at(j)
        BY <2>6, ZenonT(90)
      <4>1. j + 1 \in 1 .. k /\ (j + 1) - 1 = j
        BY <2>3
      <4> QED BY <4>1
    <3> HIDE DEF f, A
    <3> QED BY <2>3, <3>2, <3>3, <3>4, Numbered
  <2>8. file.total = 0 => k = 1
    <3>1. file.total = 0 => k >= count
      BY <2>2
    <3> QED BY <2>1, <2>3, <3>1
  <2>9. file.total > 0 => \A x \in A : x < file.total
    BY <2>4, <2>6
  <2> HIDE DEF A, D
  <2> QED BY <1>6, <2>3, <2>6, <2>7, <2>8, <2>9, SameCount DEF A
<1>7. room <= 0 \/ room > 0
  BY <1>1
<1> HIDE DEF room
<1> QED BY <1>5, <1>6, <1>7, Zenon

-----------------------------------------------------------------------------
DownloadOps ==
    [state : {"idle", "downloading", "finished", "failed"}, downloaded : Nat, next : Nat,
     open : BOOLEAN, iv : Int]

(* The cases that WholeFile speaks of.                                     *)
Clean == ~(errors > 0 /\ migrations > 0) /\ ~(torn > 0 /\ (file.key \/ file.total = 0))

Bounded(rs) == \E b \in Nat : \A r \in rs : r.offset < b

RequestSet(rs) == rs \subseteq DownloadRequests /\ IsFiniteSet(rs) /\ Bounded(rs)

DownloadTyped ==
    /\ file \in [size : LoadSizes, total : Nat, key : BOOLEAN] /\ file.total \in {0, file.size}
    /\ op \in DownloadOps /\ RequestSet(requests) /\ RequestSet(delayed)
    /\ ivFile \in Int /\ begun \in BOOLEAN

AtRest ==
    /\ ~begun => requests = {} /\ delayed = {}
    /\ op.open => op.state = "downloading"
    /\ op.state = "idle" => ~begun
    /\ op.state = "downloading" /\ ~begun => op.open
    /\ op.open /\ ~begun => op.next = op.downloaded

WholeContent(c) == c = [i \in 1 .. file.size |-> i]

(* What is in the temporary file is right, and the iv that is kept is the  *)
(* one for its end.                                                        *)
RightContent(c) == c \in Seq(Int) /\ Len(c) <= file.size /\ \A i \in 1 .. Len(c) : c[i] = i

OnDisk(c, iv) ==
    /\ RightContent(c)
    /\ file.key => iv = Len(c) /\ \E a \in Nat : Len(c) = a * Block
    /\ file.total = 0 => \E a \in Nat : Len(c) = a * LoadChunk

(* The next part is written where the file is right up to there.           *)
AtEndOf(o, c) ==
    o.open => /\ o.downloaded <= Len(c)
              /\ file.key \/ file.total = 0 => o.downloaded = Len(c)
              /\ file.key => o.iv = o.downloaded

WithinFile(rs) == file.total > 0 => \A r \in rs : r.offset < file.size

(* While the size is not known one part is asked for at a time.            *)
OneAsked(o, rs, ds) ==
    file.total = 0 /\ o.state = "downloading" /\ rs # {} =>
        /\ o.open /\ ds = {}
        /\ \E r \in DownloadRequests :
              /\ rs = {r}
              /\ \/ r.offset = o.downloaded /\ o.next = o.downloaded + LoadChunk
                 \/ r.offset = 0 /\ o.downloaded # 0

Place(o, x) == \E j \in Nat : x = o.downloaded + j * LoadChunk

(* Before a migration, what is on its way and what is delayed are parts    *)
(* that come next, and none of them twice.                                 *)
InRows(o, rs, ds, m) ==
    file.total > 0 /\ m = 0 /\ o.open =>
        /\ \A r \in rs \cup ds : r.epoch = 0 /\ r.offset < o.next /\ Place(o, r.offset)
        /\ rs \cap ds = {}
        /\ Place(o, o.next)

(* After a failure a part is missing that is never asked for again, so     *)
(* that the file is not taken for complete.                                *)
Missing(o, rs, ds, x) ==
    /\ x < o.next /\ x < file.size /\ Place(o, x)
    /\ \A r \in rs \cup ds : r.offset # x

Stuck(o, rs, ds) ==
    file.total > 0 /\ o.state = "downloading" /\ ~o.open =>
        \E x \in Nat : Missing(o, rs, ds, x)

Kept ==
    /\ DownloadTyped /\ AtRest
    /\ \A c \in final : WholeContent(c)
    /\ OnDisk(temp, ivFile) /\ AtEndOf(op, temp)
    /\ WithinFile(requests) /\ OneAsked(op, requests, delayed)
    /\ InRows(op, requests, delayed, migrations)
    /\ (requests = {} /\ delayed = {}) \/ Stuck(op, requests, delayed)
    /\ file.total > 0 /\ op.state = "downloading" /\ ~op.open => errors > 0

DownloadInv ==
    /\ errors \in Nat /\ migrations \in Nat /\ torn \in Nat
    /\ Clean => Kept

-----------------------------------------------------------------------------
LEMMA LoadFacts ==
    ASSUME DownloadTyped
    PROVE  /\ LoadChunk \in Nat \ {0} /\ Block \in Nat \ {0} /\ MaxRequests \in Nat \ {0}
           /\ LoadChunk % Block = 0
           /\ file.size \in Nat \ {0} /\ file.total \in {0, file.size} /\ file.key \in BOOLEAN
           /\ op \in DownloadOps
           /\ op.downloaded \in Nat /\ op.next \in Nat /\ op.open \in BOOLEAN /\ op.iv \in Int
BY DownloadAssumption DEF DownloadTyped, Download!FileLoadOperationAssumption, DownloadOps

LEMMA OneRequest ==
    ASSUME NEW x, NEW e
    PROVE  [offset : {x}, epoch : {e}] = {[offset |-> x, epoch |-> e]}
<1>1. ASSUME NEW r \in [offset : {x}, epoch : {e}] PROVE r = [offset |-> x, epoch |-> e]
  OBVIOUS
<1>2. [offset |-> x, epoch |-> e] \in [offset : {x}, epoch : {e}]
  OBVIOUS
<1> QED BY <1>1, <1>2, Zenon

LEMMA SomeRequests ==
    ASSUME NEW rs, RequestSet(rs), NEW qs \in SUBSET rs
    PROVE  RequestSet(qs)
BY FS_Subset DEF RequestSet, Bounded

(* The parts that are asked for are a set of requests too.                 *)
LEMMA RequestsFor ==
    ASSUME LoadChunk \in Nat \ {0}, NEW n \in Nat, NEW k \in Nat, NEW m \in Nat, NEW rs, RequestSet(rs)
    PROVE  RequestSet(rs \cup [offset : {n + i * LoadChunk : i \in 0 .. k - 1}, epoch : {m}])
<1> DEFINE at(i) == n + i * LoadChunk
           new == [offset : {at(i) : i \in 0 .. k - 1}, epoch : {m}]
           f == [i \in 1 .. k |-> [offset |-> at(i - 1), epoch |-> m]]
<1>1. \A i \in Nat : at(i) \in Nat
  BY Multiples
<1>2. \A i, j \in Nat : (at(i) = at(j) => i = j) /\ (i <= j => at(i) <= at(j))
  BY <1>1, Multiples
<1>3. new \subseteq DownloadRequests
  BY <1>1 DEF DownloadRequests
<1>4. IsFiniteSet(new)
  <2>1. \A i \in 1 .. k : i - 1 \in 0 .. k - 1 /\ i - 1 \in Nat
    OBVIOUS
  <2>2. f \in [1 .. k -> new]
    BY <2>1
  <2>3. \A i, j \in 1 .. k : f[i] = f[j] => i = j
    <3> SUFFICES ASSUME NEW i \in 1 .. k, NEW j \in 1 .. k, f[i] = f[j] PROVE i = j
      OBVIOUS
    <3>1. f[i].offset = at(i - 1) /\ f[j].offset = at(j - 1)
      OBVIOUS
    <3>2. i - 1 = j - 1
      BY <1>2, <2>1, <3>1
    <3> QED BY <3>2
  <2>4. \A x \in new : \E i \in 1 .. k : f[i] = x
    <3> SUFFICES ASSUME NEW x \in new PROVE \E i \in 1 .. k : f[i] = x
      OBVIOUS
    <3>1. PICK j \in 0 .. k - 1 : x = [offset |-> at(j), epoch |-> m]
      OBVIOUS
    <3>2. j + 1 \in 1 .. k /\ (j + 1) - 1 = j
      OBVIOUS
    <3> QED BY <3>1, <3>2
  <2> HIDE DEF f, new
  <2> QED BY <2>2, <2>3, <2>4, Numbered
<1>5. PICK b \in Nat : \A r \in rs : r.offset < b
  BY DEF RequestSet, Bounded
<1>6. \A r \in rs \cup new : r.offset < b + at(k) + 1
  <2>1. ASSUME NEW r \in new PROVE r.offset <= at(k) /\ r.offset \in Nat
    <3>1. PICK j \in 0 .. k - 1 : r.offset = at(j)
      OBVIOUS
    <3>2. j \in Nat /\ j <= k
      OBVIOUS
    <3> HIDE DEF at
    <3> QED BY <1>1, <1>2, <3>1, <3>2
  <2>2. \A r \in rs : r.offset \in Nat
    BY DEF RequestSet, DownloadRequests
  <2>3. at(k) \in Nat
    BY <1>1
  <2> HIDE DEF at, new
  <2> QED BY <1>5, <2>1, <2>2, <2>3
<1>7. b + at(k) + 1 \in Nat
  BY <1>1
<1> HIDE DEF new, at
<1>8. Bounded(rs \cup new)
  BY <1>6, <1>7 DEF Bounded
<1>9. IsFiniteSet(rs \cup new)
  BY <1>4, FS_Union DEF RequestSet
<1>10. RequestSet(rs \cup new)
  BY <1>3, <1>8, <1>9 DEF RequestSet
<1> QED BY <1>10 DEF new, at

LEMMA StartDownloadRequestKeeps ==
    ASSUME DownloadTyped, NEW o \in DownloadOps, NEW rs, NEW ds, RequestSet(rs), RequestSet(ds),
           NEW m \in Nat, Download!StartDownloadRequest(o, rs, ds, m),
           WithinFile(rs), InRows(o, rs, ds, m), Stuck(o, rs, ds),
           file.total = 0 /\ o.state = "downloading" =>
              /\ o.open /\ rs = {} /\ ds = {}
              /\ o.next = o.downloaded \/ (o.next = 0 /\ o.downloaded # 0)
    PROVE  /\ op' \in DownloadOps /\ op'.state = o.state /\ op'.downloaded = o.downloaded
           /\ op'.open = o.open /\ op'.iv = o.iv
           /\ RequestSet(requests') /\ delayed' = ds /\ WithinFile(requests')
           /\ OneAsked(op', requests', delayed') /\ InRows(op', requests', delayed', m)
           /\ Stuck(op', requests', delayed')
<1> DEFINE c == LoadChunk
<1>1. /\ c \in Nat \ {0} /\ MaxRequests \in Nat \ {0} /\ file.total \in Nat
      /\ file.size \in Nat \ {0} /\ file.total \in {0, file.size}
  BY LoadFacts
<1>2. o.next \in Nat /\ o.downloaded \in Nat /\ IsFiniteSet(rs) /\ IsFiniteSet(ds)
  BY DEF DownloadOps, RequestSet
<1>3. PICK k \in Nat :
         /\ Download!Cardinality(Download!Asked(o, rs, ds)) = k
         /\ Download!Asked(o, rs, ds) = {o.next + i * c : i \in 0 .. k - 1}
         /\ file.total > 0 => \A x \in Download!Asked(o, rs, ds) : x < file.total
         /\ o.state # "downloading" => k = 0
         /\ o.state = "downloading" /\ file.total = 0 /\ rs = {} /\ ds = {} => k = 1
  BY <1>1, <1>2, AskedFor
<1> DEFINE new == [offset : {o.next + i * c : i \in 0 .. k - 1}, epoch : {m}]
<1>4. /\ op' = [o EXCEPT !.next = o.next + c * k] /\ requests' = rs \cup new /\ delayed' = ds
  BY <1>3 DEF Download!StartDownloadRequest
<1>5. c * k = k * c /\ k * c \in Nat /\ o.next + k * c \in Nat
  BY <1>1, <1>2
<1>6. /\ op'.state = o.state /\ op'.downloaded = o.downloaded /\ op'.open = o.open
      /\ op'.iv = o.iv /\ op'.next = o.next + k * c
  BY <1>4, <1>5 DEF DownloadOps
<1>7. op' \in DownloadOps
  BY <1>4, <1>5 DEF DownloadOps
<1>8. RequestSet(requests')
  BY <1>1, <1>2, <1>4, RequestsFor
<1>9. \A r \in new : /\ r.epoch = m /\ (file.total > 0 => r.offset < file.size)
                     /\ \E i \in 0 .. k - 1 : r.offset = o.next + i * c
  <2> TAKE r \in new
  <2>1. r.epoch = m /\ r.offset \in {o.next + i * c : i \in 0 .. k - 1}
    OBVIOUS
  <2>2. file.total > 0 => file.total = file.size
    BY <1>1
  <2>3. file.total > 0 => r.offset < file.total
    BY <1>3, <2>1, Zenon
  <2>4. file.total > 0 => r.offset < file.size
    BY <2>2, <2>3
  <2> QED BY <2>1, <2>4
<1> HIDE DEF new
<1>10. WithinFile(requests')
  BY <1>4, <1>9 DEF WithinFile
<1>11. ASSUME NEW r \in new PROVE r.offset \in Nat /\ o.next <= r.offset /\ r.offset < op'.next
  <2>1. PICK i \in 0 .. k - 1 : r.offset = o.next + i * c
    BY <1>9
  <2>2. i \in Nat /\ i + 1 \in Nat /\ i + 1 <= k
    OBVIOUS
  <2>3. i * c \in Nat /\ (i + 1) * c <= k * c /\ (i + 1) * c = i * c + c
    BY <1>1, <2>2, Multiples
  <2> QED BY <1>1, <1>2, <1>5, <1>6, <2>1, <2>3
<1>12. OneAsked(op', requests', delayed')
  <2> SUFFICES ASSUME file.total = 0, o.state = "downloading"
               PROVE  /\ o.open /\ ds = {}
                      /\ \E r \in DownloadRequests :
                            /\ requests' = {r}
                            /\ \/ r.offset = o.downloaded /\ op'.next = o.downloaded + LoadChunk
                               \/ r.offset = 0 /\ o.downloaded # 0
    BY <1>4, <1>6 DEF OneAsked
  <2>1. k = 1 /\ rs = {} /\ ds = {} /\ o.open
    BY <1>3
  <2>2. {o.next + i * c : i \in 0 .. k - 1} = {o.next}
    <3>1. 0 .. k - 1 = {0} /\ 0 * c = 0
      BY <1>1, <2>1
    <3> QED BY <1>2, <3>1
  <2>3. requests' = {[offset |-> o.next, epoch |-> m]}
    <3>1. new = [offset : {o.next}, epoch : {m}]
      BY <2>2, Zenon DEF new
    <3>2. [offset : {o.next}, epoch : {m}] = {[offset |-> o.next, epoch |-> m]}
      BY OneRequest
    <3> QED BY <1>4, <2>1, <3>1, <3>2
  <2>4. [offset |-> o.next, epoch |-> m] \in DownloadRequests
    BY <1>2 DEF DownloadRequests
  <2>5. op'.next = o.next + LoadChunk
    BY <1>1, <1>6, <2>1
  <2> QED BY <2>1, <2>3, <2>4, <2>5
<1>13. InRows(op', requests', delayed', m)
  <2> SUFFICES ASSUME file.total > 0, m = 0, o.open
               PROVE  /\ \A r \in requests' \cup ds :
                            r.epoch = 0 /\ r.offset < op'.next /\ Place(op', r.offset)
                      /\ requests' \cap ds = {}
                      /\ Place(op', op'.next)
    BY <1>4, <1>6 DEF InRows
  <2>1. /\ \A r \in rs \cup ds : r.epoch = 0 /\ r.offset < o.next /\ Place(o, r.offset)
        /\ rs \cap ds = {} /\ Place(o, o.next)
    BY DEF InRows
  <2>2. \A r \in rs \cup ds : r.offset \in Nat
    BY DEF RequestSet, DownloadRequests
  <2>3. PICK n \in Nat : o.next = o.downloaded + n * c
    BY <2>1 DEF Place
  <2>4. ASSUME NEW i \in Nat PROVE Place(op', o.next + i * c)
    <3>1. (n + i) * c = n * c + i * c /\ n * c \in Nat /\ i * c \in Nat /\ n + i \in Nat
      BY <1>1, Multiples
    <3>2. o.next + i * c = o.downloaded + (n + i) * c
      BY <1>2, <2>3, <3>1
    <3> QED BY <1>6, <3>1, <3>2 DEF Place
  <2>5. \A x : Place(o, x) => Place(op', x)
    BY <1>6 DEF Place
  <2>6. ASSUME NEW r \in requests' \cup ds
        PROVE  r.epoch = 0 /\ r.offset < op'.next /\ Place(op', r.offset)
    <3>1. CASE r \in rs \cup ds
      BY <1>2, <1>5, <1>6, <2>1, <2>2, <2>5, <3>1
    <3>2. CASE r \in new
      BY <1>9, <1>11, <2>4, <3>2
    <3> QED BY <1>4, <3>1, <3>2
  <2>7. requests' \cap ds = {}
    <3>1. \A r \in new : r \notin ds
      BY <1>2, <1>11, <2>1, <2>2
    <3> QED BY <1>4, <2>1, <3>1
  <2> QED BY <1>6, <2>4, <2>6, <2>7
<1>14. Stuck(op', requests', delayed')
  <2> SUFFICES ASSUME file.total > 0, o.state = "downloading", ~o.open
               PROVE  \E x \in Nat : Missing(op', requests', delayed', x)
    BY <1>6 DEF Stuck
  <2>1. PICK x \in Nat : Missing(o, rs, ds, x)
    BY DEF Stuck
  <2>2. x < o.next /\ x < file.size /\ Place(o, x) /\ \A r \in rs \cup ds : r.offset # x
    BY <2>1 DEF Missing
  <2>3. x < op'.next /\ Place(op', x)
    BY <1>2, <1>5, <1>6, <2>2 DEF Place
  <2>4. \A r \in new : r.offset # x
    BY <1>2, <1>11, <2>2
  <2> QED BY <1>4, <2>2, <2>3, <2>4 DEF Missing
<1> QED BY <1>4, <1>6, <1>7, <1>8, <1>10, <1>12, <1>13, <1>14

-----------------------------------------------------------------------------
(* The next state, part by part.                                           *)
LEMMA DownloadGoesOn ==
    ASSUME file' = file, file \in [size : LoadSizes, total : Nat, key : BOOLEAN],
           file.total \in {0, file.size}, op' \in DownloadOps,
           RequestSet(requests'), RequestSet(delayed'), ivFile' \in Int, begun' \in BOOLEAN,
           AtRest', \A c \in final' : WholeContent(c),
           OnDisk(temp', ivFile'), AtEndOf(op', temp'),
           WithinFile(requests'), OneAsked(op', requests', delayed'),
           InRows(op', requests', delayed', migrations'),
           (requests' = {} /\ delayed' = {}) \/ Stuck(op', requests', delayed'),
           file.total > 0 /\ op'.state = "downloading" /\ ~op'.open => errors' > 0
    PROVE  Kept'
<1>1. DownloadTyped'
  BY DEF DownloadTyped
<1>2. (\A c \in final : WholeContent(c))'
  BY DEF WholeContent
<1>3. OnDisk(temp, ivFile)'
  BY DEF OnDisk, RightContent
<1>4. AtEndOf(op, temp)'
  BY DEF AtEndOf
<1>5. WithinFile(requests)' /\ OneAsked(op, requests, delayed)'
  BY DEF WithinFile, OneAsked
<1>6. InRows(op, requests, delayed, migrations)'
  BY DEF InRows, Place
<1>7. ((requests = {} /\ delayed = {}) \/ Stuck(op, requests, delayed))'
  BY DEF Stuck, Missing, Place
<1> QED BY <1>1, <1>2, <1>3, <1>4, <1>5, <1>6, <1>7 DEF Kept

(* An operation whose stream is closed has little to keep when it is over  *)
(* or nothing is on its way.                                               *)
LEMMA ClosedIsKept ==
    ASSUME NEW o, NEW rs, NEW ds, NEW c, NEW m, ~o.open,
           o.state # "downloading" \/ (rs = {} /\ ds = {})
    PROVE  /\ AtEndOf(o, c) /\ OneAsked(o, rs, ds) /\ InRows(o, rs, ds, m)
           /\ (rs = {} /\ ds = {}) \/ Stuck(o, rs, ds)
BY DEF AtEndOf, OneAsked, InRows, Stuck

LEMMA NoRequests ==
    /\ RequestSet({}) /\ WithinFile({})
    /\ \A rs, qs : WithinFile(rs) /\ qs \subseteq rs => WithinFile(qs)
<1>1. IsFiniteSet({}) /\ Bounded({})
  <2>1. \E b \in Nat : \A r \in {} : r.offset < b
    OBVIOUS
  <2> QED BY <2>1, FS_EmptySet DEF Bounded
<1> QED BY <1>1 DEF RequestSet, WithinFile

LEMMA KeptFacts ==
    ASSUME Kept
    PROVE  /\ DownloadTyped /\ AtRest /\ (\A c \in final : WholeContent(c))
           /\ OnDisk(temp, ivFile) /\ AtEndOf(op, temp) /\ RightContent(temp)
           /\ WithinFile(requests) /\ OneAsked(op, requests, delayed)
           /\ InRows(op, requests, delayed, migrations)
           /\ (requests = {} /\ delayed = {}) \/ Stuck(op, requests, delayed)
           /\ file.total > 0 /\ op.state = "downloading" /\ ~op.open => errors > 0
           /\ file \in [size : LoadSizes, total : Nat, key : BOOLEAN]
           /\ file.total \in {0, file.size} /\ file.size \in Nat \ {0} /\ file.key \in BOOLEAN
           /\ op \in DownloadOps /\ op.downloaded \in Nat /\ op.next \in Nat /\ op.open \in BOOLEAN
           /\ RequestSet(requests) /\ RequestSet(delayed) /\ ivFile \in Int /\ begun \in BOOLEAN
           /\ LoadChunk \in Nat \ {0} /\ Block \in Nat \ {0} /\ LoadChunk % Block = 0
           /\ Len(temp) \in Nat /\ Len(temp) <= file.size
<1>1. DownloadTyped
  BY DEF Kept
<1>2. RightContent(temp)
  BY DEF Kept, OnDisk
<1>3. Len(temp) \in Nat /\ Len(temp) <= file.size
  BY <1>2 DEF RightContent
<1> QED BY <1>1, <1>2, <1>3, LoadFacts DEF Kept, DownloadTyped

(* What is whole, and an empty temporary file.                             *)
LEMMA WholeOrEmpty ==
    /\ file.size \in Nat => \A c : RightContent(c) /\ Len(c) = file.size => WholeContent(c)
    /\ file.size \in Nat /\ Block \in Nat /\ LoadChunk \in Nat => OnDisk(<<>>, 0)
<1>1. ASSUME file.size \in Nat, NEW c, RightContent(c), Len(c) = file.size PROVE WholeContent(c)
  <2>1. c = [i \in 1 .. Len(c) |-> c[i]]
    BY <1>1 DEF RightContent
  <2> QED BY <1>1, <2>1 DEF RightContent, WholeContent
<1>2. ASSUME file.size \in Nat, Block \in Nat, LoadChunk \in Nat PROVE OnDisk(<<>>, 0)
  <2>1. 0 * Block = 0 /\ 0 * LoadChunk = 0 /\ Len(<<>>) = 0 /\ <<>> \in Seq(Int)
    BY <1>2
  <2> QED BY <1>2, <2>1 DEF OnDisk, RightContent
<1> QED BY <1>1, <1>2

(* Parts that are written where the file is right up to there.             *)
LEMMA WrittenIsRight ==
    ASSUME RightContent(temp), file.size \in Nat, op.downloaded \in Nat, op.downloaded <= Len(temp),
           NEW end \in Nat, end <= file.size, op.downloaded <= end
    PROVE  /\ RightContent(Download!Written(end, TRUE))
           /\ Len(Download!Written(end, TRUE)) = IF Len(temp) < end THEN end ELSE Len(temp)
<1> DEFINE n == IF Len(temp) < end THEN end ELSE Len(temp)
           w == [i \in 1 .. n |-> IF i \in op.downloaded + 1 .. end THEN i ELSE temp[i]]
<1>1. Download!Written(end, TRUE) = w
  BY DEF Download!Written, Download!Larger
<1>2. Len(temp) \in Nat /\ Len(temp) <= file.size /\ \A i \in 1 .. Len(temp) : temp[i] = i
  BY DEF RightContent
<1>3. n \in Nat /\ n <= file.size /\ Len(temp) <= n
  BY <1>2
<1>4. ASSUME NEW i \in 1 .. n PROVE w[i] = i
  <2>1. i \in op.downloaded + 1 .. end \/ i \in 1 .. Len(temp)
    BY <1>2, <1>3
  <2> QED BY <1>2, <2>1
<1> HIDE DEF n
<1>5. w = [i \in 1 .. n |-> w[i]]
  OBVIOUS
<1> HIDE DEF w
<1>6. w \in Seq(Int) /\ Len(w) = n
  <2>1. w \in [1 .. n -> Int]
    BY <1>3, <1>4, <1>5
  <2> QED BY <1>3, <2>1
<1> QED BY <1>1, <1>3, <1>4, <1>6 DEF RightContent, n

-----------------------------------------------------------------------------
(* start().                                                                *)
LEMMA DownloadStartsKeep ==
    ASSUME Kept, errors \in Nat,
           Download!StartWithFile \/ Download!Start \/ Download!StartFails
    PROVE  Kept'
<1>1. /\ op.state = "idle" /\ ~op.open /\ ~begun /\ requests = {} /\ delayed = {}
      /\ requests' = {} /\ delayed' = {} /\ file' = file /\ temp' = temp /\ ivFile' = ivFile
      /\ errors' >= errors
  <2>1. op.state = "idle"
    BY DEF Download!StartWithFile, Download!Start, Download!StartFails
  <2>2. ~op.open /\ ~begun /\ requests = {} /\ delayed = {}
    BY <2>1, KeptFacts DEF AtRest
  <2> QED BY <2>1, <2>2 DEF Download!StartWithFile, Download!Start, Download!StartFails
<1>2. OnDisk(temp', ivFile')
  BY <1>1, KeptFacts
<1>3. RequestSet({}) /\ WithinFile({})
  BY NoRequests
<1>4. CASE Download!StartWithFile
  <2>1. op' = [op EXCEPT !.state = "finished"] /\ begun' = begun /\ final' = final
    BY <1>4 DEF Download!StartWithFile
  <2>2. op' \in DownloadOps /\ op'.state = "finished" /\ ~op'.open
    BY <1>1, <2>1, KeptFacts DEF DownloadOps
  <2>3. AtRest'
    BY <1>1, <2>1, <2>2 DEF AtRest
  <2>4. /\ AtEndOf(op', temp') /\ OneAsked(op', requests', delayed')
        /\ InRows(op', requests', delayed', migrations')
    BY <2>2, ClosedIsKept
  <2> QED BY <1>1, <1>2, <1>3, <2>1, <2>2, <2>3, <2>4, KeptFacts, DownloadGoesOn
<1> DEFINE reached == (Len(temp) \div Block) * Block
           o == Download!Resumed
<1>5. reached \in Nat /\ reached <= Len(temp)
  <2>1. Len(temp) \in Nat /\ Block \in Nat \ {0}
    BY KeptFacts
  <2> QED BY <2>1
<1>6. o.state = "downloading" /\ o.open /\ o.next = reached
      /\ o.downloaded = (IF file.key /\ ivFile = 0 THEN 0 ELSE reached)
      /\ o.iv = (IF file.key THEN ivFile ELSE 0) /\ o \in DownloadOps
  <2>1. file.key \in BOOLEAN /\ ivFile \in Int
    BY KeptFacts
  <2> QED BY <1>5, <2>1 DEF Download!Resumed, DownloadOps
<1>7. file.key \/ file.total = 0 => reached = Len(temp)
  <2>1. file.key => \E a \in Nat : Len(temp) = a * Block
    BY KeptFacts DEF OnDisk
  <2>2. file.total = 0 => \E a \in Nat : Len(temp) = a * LoadChunk
    BY KeptFacts DEF OnDisk
  <2>3. \A a \in Nat : \E b \in Nat : a * LoadChunk = b * Block
    <3>1. PICK b \in Nat : LoadChunk = b * Block
      BY Divided, KeptFacts
    <3>2. \A a \in Nat : a * (b * Block) = (a * b) * Block /\ a * b \in Nat
      BY KeptFacts
    <3> QED BY <3>1, <3>2
  <2>4. \A a \in Nat : (a * Block) \div Block = a
    BY KeptFacts
  <2>5. (file.key \/ file.total = 0) => \E a \in Nat : Len(temp) = a * Block
    BY <2>1, <2>2, <2>3
  <2> QED BY <2>4, <2>5
<1>8. AtEndOf(o, temp) /\ o.next = o.downloaded
  <2>1. file.key => ivFile = Len(temp)
    BY KeptFacts DEF OnDisk
  <2>2. Len(temp) \in Nat
    BY KeptFacts
  <2> QED BY <1>5, <1>6, <1>7, <2>1, <2>2 DEF AtEndOf
<1> HIDE DEF reached, o
<1>9. CASE Download!Start
  <2>1. op' = o /\ final' = {} /\ begun' = begun
    BY <1>9 DEF Download!Start, o
  <2>2. AtRest'
    BY <1>1, <1>6, <1>8, <2>1 DEF AtRest
  <2>3. OneAsked(op', requests', delayed')
    BY <1>1 DEF OneAsked
  <2>4. InRows(op', requests', delayed', migrations')
    <3>1. op'.next = op'.downloaded + 0 * LoadChunk /\ 0 \in Nat
      BY <1>5, <1>6, <1>8, <2>1, KeptFacts DEF DownloadOps
    <3> QED BY <1>1, <3>1 DEF InRows, Place
  <2> QED BY <1>1, <1>2, <1>3, <1>6, <1>8, <2>1, <2>2, <2>3, <2>4, KeptFacts, DownloadGoesOn
<1>10. CASE Download!StartFails
  <2>1. op' = Download!Closed(o) /\ final' = {} /\ begun' = TRUE /\ errors' = errors + 1
    BY <1>10 DEF Download!StartFails, o
  <2>2. op' \in DownloadOps /\ op'.state = "downloading" /\ ~op'.open
    BY <1>6, <2>1 DEF DownloadOps, Download!Closed
  <2>3. AtRest'
    BY <1>1, <2>1, <2>2 DEF AtRest
  <2>4. /\ AtEndOf(op', temp') /\ OneAsked(op', requests', delayed')
        /\ InRows(op', requests', delayed', migrations')
    BY <1>1, <2>2, ClosedIsKept
  <2>5. errors' > 0
    BY <2>1
  <2> QED BY <1>1, <1>2, <1>3, <2>1, <2>2, <2>3, <2>4, <2>5, KeptFacts, DownloadGoesOn
<1> QED BY <1>4, <1>9, <1>10

(* What is over keeps little.                                              *)
LEMMA OverKeeps ==
    ASSUME Kept, errors' = errors, file' = file, op' \in DownloadOps, ~op'.open,
           op'.state \in {"finished", "failed", "idle"}, op'.state = "idle" => ~begun',
           RequestSet(requests'), WithinFile(requests'), RequestSet(delayed'),
           begun' \in BOOLEAN, ~begun' => requests' = {} /\ delayed' = {},
           \A c \in final' : WholeContent(c), OnDisk(temp', ivFile'), ivFile' \in Int
    PROVE  Kept'
<1>1. AtRest'
  BY DEF AtRest
<1>2. /\ AtEndOf(op', temp') /\ OneAsked(op', requests', delayed')
      /\ InRows(op', requests', delayed', migrations')
      /\ (requests' = {} /\ delayed' = {}) \/ Stuck(op', requests', delayed')
  BY ClosedIsKept
<1> QED BY <1>1, <1>2, KeptFacts, DownloadGoesOn

(* The file is complete: what is to get the final name is whole.           *)
LEMMA OnFinishKeeps ==
    ASSUME Kept, errors' = errors, file' = file, begun' = begun,
           NEW o \in DownloadOps, NEW rs \in SUBSET requests, NEW ds \in SUBSET delayed, NEW c,
           o.state = op.state, o.open = op.open,
           Download!OnFinishLoadingFile(o, rs, ds, c),
           o.state = "downloading" => WholeContent(c), o.state # "downloading" => c = temp
    PROVE  Kept'
<1>1. RequestSet(rs) /\ RequestSet(ds) /\ WithinFile(rs)
  BY KeptFacts, SomeRequests, NoRequests
<1>2. ~begun => rs = {} /\ ds = {}
  BY KeptFacts DEF AtRest
<1>3. CASE o.state = "downloading"
  <2>1. /\ op' = [Download!Closed(o) EXCEPT !.state = "finished"] /\ requests' = rs /\ delayed' = {}
        /\ final' = {c} /\ temp' = <<>> /\ ivFile' = 0
    BY <1>3 DEF Download!OnFinishLoadingFile
  <2>2. op' \in DownloadOps /\ ~op'.open /\ op'.state = "finished"
    BY <2>1 DEF DownloadOps, Download!Closed
  <2>3. OnDisk(temp', ivFile')
    BY <2>1, WholeOrEmpty, KeptFacts
  <2> QED BY <1>1, <1>2, <1>3, <2>1, <2>2, <2>3, NoRequests, KeptFacts, OverKeeps
<1>4. CASE o.state # "downloading"
  <2>1. ~op.open /\ op.state \in {"idle", "finished", "failed"} /\ (op.state = "idle" => ~begun)
    BY <1>4, KeptFacts DEF AtRest, DownloadOps
  <2>2. /\ op' = o /\ requests' = rs /\ delayed' = ds /\ temp' = temp /\ final' = final
        /\ ivFile' = ivFile
    BY <1>4, <2>1 DEF Download!OnFinishLoadingFile
  <2>3. OnDisk(temp', ivFile')
    BY <2>2, KeptFacts
  <2> QED BY <1>1, <1>2, <1>4, <2>1, <2>2, <2>3, KeptFacts, OverKeeps
<1> QED BY <1>3, <1>4

LEMMA CancelKeepsTheFile ==
    ASSUME Kept, Download!Cancel
    PROVE  Kept'
<1>1. /\ op' = [Download!Closed(op) EXCEPT !.state = "failed"] /\ delayed' = {}
      /\ file' = file /\ begun' = begun /\ requests' = requests /\ temp' = temp
      /\ ivFile' = ivFile /\ final' = final /\ errors' = errors
  BY DEF Download!Cancel
<1>2. op' \in DownloadOps /\ ~op'.open /\ op'.state = "failed"
  BY <1>1, KeptFacts DEF DownloadOps, Download!Closed
<1>3. ~begun => requests = {}
  BY KeptFacts DEF AtRest
<1>4. OnDisk(temp', ivFile')
  BY <1>1, KeptFacts
<1> QED BY <1>1, <1>2, <1>3, <1>4, NoRequests, KeptFacts, OverKeeps

LEMMA IdleAgain == Download!Idle \in DownloadOps /\ ~Download!Idle.open /\ Download!Idle.state = "idle"
BY DEF Download!Idle, DownloadOps

LEMMA RenewKeeps ==
    ASSUME Kept, Download!Renew
    PROVE  Kept'
<1>1. /\ op' = Download!Idle /\ ~begun' /\ begun' \in BOOLEAN /\ requests' = {} /\ delayed' = {}
      /\ file' = file /\ temp' = temp /\ ivFile' = ivFile /\ final' = final /\ errors' = errors
  BY DEF Download!Renew
<1>2. OnDisk(temp', ivFile')
  BY <1>1, KeptFacts
<1> QED BY <1>1, <1>2, IdleAgain, NoRequests, KeptFacts, OverKeeps

(* The runnable that start() posts.                                        *)
LEMMA BeginKeeps ==
    ASSUME Kept, migrations \in Nat, Download!Begin
    PROVE  Kept'
<1>1. /\ op.state = "downloading" /\ ~begun /\ begun' = TRUE /\ file' = file
      /\ errors' = errors /\ migrations' = migrations
  BY DEF Download!Begin
<1>2. op.open /\ requests = {} /\ delayed = {} /\ op.next = op.downloaded
  BY <1>1, KeptFacts DEF AtRest
<1>3. CASE file.total # 0 /\ op.downloaded = file.total
  <2>1. Download!OnFinishLoadingFile(op, requests, delayed, temp)
    BY <1>3 DEF Download!Begin
  <2>2. op.downloaded = file.size /\ op.downloaded <= Len(temp)
    BY <1>2, <1>3, KeptFacts DEF AtEndOf
  <2>3. WholeContent(temp)
    BY <2>2, KeptFacts, WholeOrEmpty
  <2>4. /\ op' = [Download!Closed(op) EXCEPT !.state = "finished"] /\ requests' = {} /\ delayed' = {}
        /\ final' = {temp} /\ temp' = <<>> /\ ivFile' = 0
    BY <1>1, <1>2, <2>1 DEF Download!OnFinishLoadingFile
  <2>5. op' \in DownloadOps /\ ~op'.open /\ op'.state = "finished"
    BY <2>4, KeptFacts DEF DownloadOps, Download!Closed
  <2>6. OnDisk(temp', ivFile')
    BY <2>4, WholeOrEmpty, KeptFacts
  <2> QED BY <1>1, <2>3, <2>4, <2>5, <2>6, NoRequests, KeptFacts, OverKeeps
<1>4. CASE ~(file.total # 0 /\ op.downloaded = file.total)
  <2>1. /\ Download!StartDownloadRequest(op, requests, delayed, migrations)
        /\ UNCHANGED <<temp, ivFile, final, reports>>
    BY <1>4 DEF Download!Begin
  <2>2. Stuck(op, requests, delayed)
    BY <1>2 DEF Stuck
  <2>3. /\ op' \in DownloadOps /\ op'.state = op.state /\ op'.downloaded = op.downloaded
        /\ op'.open = op.open /\ op'.iv = op.iv
        /\ RequestSet(requests') /\ delayed' = delayed /\ WithinFile(requests')
        /\ OneAsked(op', requests', delayed') /\ InRows(op', requests', delayed', migrations)
        /\ Stuck(op', requests', delayed')
    BY <1>2, <2>1, <2>2, KeptFacts, StartDownloadRequestKeeps
  <2>4. AtRest'
    BY <1>1, <2>3 DEF AtRest
  <2>5. AtEndOf(op', temp') /\ OnDisk(temp', ivFile')
    BY <2>1, <2>3, KeptFacts DEF AtEndOf
  <2> QED BY <1>1, <1>2, <2>1, <2>3, <2>4, <2>5, KeptFacts, DownloadGoesOn
<1> QED BY <1>3, <1>4

-----------------------------------------------------------------------------
(* The answers.  A request is on its way, so the operation has begun.      *)
LEMMA RequestIsOut ==
    ASSUME Kept, NEW r \in requests
    PROVE  /\ begun /\ op.state # "idle" /\ r \in DownloadRequests
           /\ RequestSet(requests \ {r}) /\ WithinFile(requests \ {r})
           /\ Stuck(op, requests, delayed)
           /\ file.total = 0 /\ op.state = "downloading" =>
                /\ op.open /\ delayed = {} /\ requests \ {r} = {}
                /\ \/ r.offset = op.downloaded /\ op.next = op.downloaded + LoadChunk
                   \/ r.offset = 0 /\ op.downloaded # 0
<1>1. begun /\ op.state # "idle"
  BY KeptFacts DEF AtRest
<1>2. r \in DownloadRequests /\ RequestSet(requests \ {r}) /\ WithinFile(requests \ {r})
  <2>1. requests \ {r} \in SUBSET requests
    OBVIOUS
  <2> QED BY <2>1, KeptFacts, SomeRequests, NoRequests DEF RequestSet
<1>3. Stuck(op, requests, delayed)
  BY KeptFacts
<1>4. ASSUME file.total = 0, op.state = "downloading"
      PROVE  /\ op.open /\ delayed = {} /\ requests \ {r} = {}
             /\ \/ r.offset = op.downloaded /\ op.next = op.downloaded + LoadChunk
                \/ r.offset = 0 /\ op.downloaded # 0
  BY <1>4, KeptFacts DEF OneAsked
<1> QED BY <1>1, <1>2, <1>3, <1>4

LEMMA AnswerOutOfTurnKeeps ==
    ASSUME Kept, NEW r \in requests, Download!AnswerOutOfTurn(r)
    PROVE  Kept'
<1>1. /\ requests' = requests \ {r}
      /\ delayed' = IF op.state = "downloading" THEN delayed \cup {r} ELSE delayed
      /\ file' = file /\ op' = op /\ begun' = begun /\ temp' = temp /\ ivFile' = ivFile
      /\ final' = final /\ errors' = errors /\ migrations' = migrations
  BY DEF Download!AnswerOutOfTurn
<1>2. RequestSet(delayed')
  <2>1. RequestSet(delayed \cup {r})
    <3>1. IsFiniteSet(delayed \cup {r})
      BY KeptFacts, FS_AddElement DEF RequestSet
    <3>2. PICK b \in Nat : \A d \in delayed : d.offset < b
      BY KeptFacts DEF RequestSet, Bounded
    <3>3. r.offset \in Nat /\ \A d \in delayed : d.offset \in Nat
      BY RequestIsOut, KeptFacts DEF RequestSet, DownloadRequests
    <3>4. \A d \in delayed \cup {r} : d.offset < b + r.offset + 1
      BY <3>2, <3>3
    <3>5. b + r.offset + 1 \in Nat
      BY <3>3
    <3>6. Bounded(delayed \cup {r})
      BY <3>4, <3>5 DEF Bounded
    <3> QED BY <3>1, <3>6, RequestIsOut, KeptFacts DEF RequestSet
  <2> QED BY <1>1, <2>1, KeptFacts
<1>3. AtRest'
  BY <1>1, RequestIsOut, KeptFacts DEF AtRest
<1>4. AtEndOf(op', temp') /\ OnDisk(temp', ivFile')
  BY <1>1, KeptFacts
<1>5. OneAsked(op', requests', delayed')
  BY <1>1, RequestIsOut DEF OneAsked
<1>6. InRows(op', requests', delayed', migrations')
  <2>1. requests' \cup delayed' \subseteq requests \cup delayed
    BY <1>1
  <2>2. requests \cap delayed = {} => requests' \cap delayed' = {}
    BY <1>1
  <2> QED BY <1>1, <2>1, <2>2, KeptFacts DEF InRows
<1>7. Stuck(op', requests', delayed')
  BY <1>1, RequestIsOut DEF Stuck, Missing
<1> QED BY <1>1, <1>2, <1>3, <1>4, <1>5, <1>6, <1>7, RequestIsOut, KeptFacts, DownloadGoesOn

(* A failure: the stream is closed, and of a file whose size is known a    *)
(* part is missing from now on.                                            *)
LEMMA FailKeeps ==
    ASSUME Kept, NEW r \in requests, NEW o \in DownloadOps,
           o.state = op.state, o.downloaded = op.downloaded, o.next = op.next,
           Download!Fail(o, requests \ {r}),
           UNCHANGED <<file, begun, temp, ivFile, final>>,
           file.total > 0 => errors' > 0 /\ migrations = 0
    PROVE  Kept'
<1>1. /\ op' = Download!Closed(o) /\ requests' = requests \ {r} /\ delayed' = {}
  BY DEF Download!Fail
<1>2. op' \in DownloadOps /\ ~op'.open /\ op'.state = op.state /\ op'.downloaded = op.downloaded
      /\ op'.next = op.next
  BY <1>1, KeptFacts DEF DownloadOps, Download!Closed
<1>3. AtRest'
  BY <1>1, <1>2, RequestIsOut DEF AtRest
<1>4. AtEndOf(op', temp') /\ InRows(op', requests', delayed', migrations')
  BY <1>2 DEF AtEndOf, InRows
<1>5. OneAsked(op', requests', delayed')
  BY <1>1, <1>2, RequestIsOut DEF OneAsked
<1>6. Stuck(op', requests', delayed')
  <2> SUFFICES ASSUME file.total > 0, op.state = "downloading"
               PROVE  \E x \in Nat : Missing(op', requests', delayed', x)
    BY <1>2 DEF Stuck
  <2>1. \A x : Place(op, x) => Place(op', x)
    BY <1>2 DEF Place
  <2>2. CASE op.open
    <3>1. /\ \A q \in requests \cup delayed : q.epoch = 0 /\ q.offset < op.next /\ Place(op, q.offset)
      BY <2>2, KeptFacts DEF InRows
    <3>2. r.offset < file.size
      BY KeptFacts DEF WithinFile
    <3>3. \A q \in requests \ {r} : q.offset # r.offset
      <4>1. \A q \in requests : q \in DownloadRequests
        BY KeptFacts DEF RequestSet
      <4> QED BY <3>1, <4>1 DEF DownloadRequests
    <3>4. r.offset \in Nat
      BY RequestIsOut DEF DownloadRequests
    <3>5. Missing(op', requests', delayed', r.offset)
      BY <1>1, <1>2, <2>1, <3>1, <3>2, <3>3 DEF Missing
    <3> QED BY <3>4, <3>5
  <2>3. CASE ~op.open
    <3>1. PICK x \in Nat : Missing(op, requests, delayed, x)
      BY <2>3, RequestIsOut DEF Stuck
    <3>2. Missing(op', requests', delayed', x)
      BY <1>1, <1>2, <2>1, <3>1 DEF Missing
    <3> QED BY <3>2
  <2> QED BY <2>2, <2>3, KeptFacts
<1>7. OnDisk(temp', ivFile')
  BY KeptFacts
<1> QED BY <1>1, <1>2, <1>3, <1>4, <1>5, <1>6, <1>7, NoRequests, RequestIsOut, KeptFacts, DownloadGoesOn

LEMMA AnswerFailsKeeps ==
    ASSUME Kept, NEW r \in requests, errors \in Nat, migrations \in Nat, Clean',
           Download!AnswerFails(r)
    PROVE  Kept'
<1>1. /\ errors' = errors + 1 /\ UNCHANGED <<file, begun, temp, ivFile, final, migrations, torn>>
  BY DEF Download!AnswerFails
<1>2. errors' > 0 /\ migrations = 0
  BY <1>1 DEF Clean
<1>3. CASE Download!Fail(op, requests \ {r})
  BY <1>1, <1>2, <1>3, KeptFacts, FailKeeps
<1>4. ASSUME NEW iv \in Int, Download!Fail([op EXCEPT !.iv = iv], requests \ {r})
      PROVE  Kept'
  <2>1. [op EXCEPT !.iv = iv] \in DownloadOps
    BY KeptFacts DEF DownloadOps
  <2>2. /\ [op EXCEPT !.iv = iv].state = op.state
        /\ [op EXCEPT !.iv = iv].downloaded = op.downloaded /\ [op EXCEPT !.iv = iv].next = op.next
    BY KeptFacts DEF DownloadOps
  <2> QED BY <1>1, <1>2, <1>4, <2>1, <2>2, FailKeeps
<1>5. CASE Download!Fail([op EXCEPT !.iv = IF ~file.key THEN 0
                                          ELSE IF @ = op.downloaded THEN Download!EndOfPart(@)
                                          ELSE Download!Broken], requests \ {r})
  <2> DEFINE iv == IF ~file.key THEN 0
                   ELSE IF op.iv = op.downloaded THEN Download!EndOfPart(op.iv) ELSE Download!Broken
  <2>1. iv \in Int
    BY KeptFacts DEF Download!EndOfPart, Download!Smaller, Download!Broken, DownloadOps
  <2>2. Download!Fail([op EXCEPT !.iv = iv], requests \ {r})
    BY <1>5
  <2> HIDE DEF iv
  <2> QED BY <1>4, <2>1, <2>2
<1> QED BY <1>3, <1>5 DEF Download!AnswerFails

LEMMA AnswerMigrateKeeps ==
    ASSUME Kept, NEW r \in requests, errors \in Nat, migrations \in Nat, Clean',
           Download!AnswerMigrate(r)
    PROVE  Kept'
<1> DEFINE o == [op EXCEPT !.next = 0]
           m == migrations + 1
<1>1. /\ migrations' = m /\ Download!StartDownloadRequest(o, requests \ {r}, delayed, m)
      /\ UNCHANGED <<file, begun, temp, ivFile, final, errors, torn>>
  BY DEF Download!AnswerMigrate
<1>2. errors = 0 /\ m \in Nat /\ m # 0
  BY <1>1 DEF Clean
<1>3. o \in DownloadOps /\ o.state = op.state /\ o.downloaded = op.downloaded /\ o.open = op.open
      /\ o.iv = op.iv /\ o.next = 0
  BY KeptFacts DEF DownloadOps
<1> HIDE DEF o, m
<1>4. file.total > 0 /\ op.state = "downloading" => op.open
  BY <1>2, KeptFacts
<1>5. InRows(o, requests \ {r}, delayed, m) /\ Stuck(o, requests \ {r}, delayed)
  BY <1>2, <1>3, <1>4 DEF InRows, Stuck
<1>6. file.total = 0 /\ o.state = "downloading" =>
         /\ o.open /\ requests \ {r} = {} /\ delayed = {}
         /\ o.next = o.downloaded \/ (o.next = 0 /\ o.downloaded # 0)
  BY <1>3, RequestIsOut
<1>7. /\ op' \in DownloadOps /\ op'.state = o.state /\ op'.downloaded = o.downloaded
      /\ op'.open = o.open /\ op'.iv = o.iv
      /\ RequestSet(requests') /\ delayed' = delayed /\ WithinFile(requests')
      /\ OneAsked(op', requests', delayed') /\ InRows(op', requests', delayed', m)
      /\ Stuck(op', requests', delayed')
  BY <1>1, <1>2, <1>3, <1>5, <1>6, RequestIsOut, KeptFacts, StartDownloadRequestKeeps
<1>8. AtRest'
  BY <1>1, <1>3, <1>7, RequestIsOut, KeptFacts DEF AtRest
<1>9. AtEndOf(op', temp') /\ OnDisk(temp', ivFile')
  BY <1>1, <1>3, <1>7, KeptFacts DEF AtEndOf
<1> QED BY <1>1, <1>3, <1>4, <1>7, <1>8, <1>9, KeptFacts, DownloadGoesOn

LEMMA AnswerPastEndKeeps ==
    ASSUME Kept, NEW r \in requests, Download!AnswerPastEnd(r)
    PROVE  Kept'
<1>1. r.offset >= file.size /\ UNCHANGED <<file, begun, errors, migrations>> /\ r.offset \in Nat
  BY RequestIsOut DEF Download!AnswerPastEnd, DownloadRequests
<1>2. file.total = 0
  <2>1. file.total > 0 => r.offset < file.size
    BY KeptFacts DEF WithinFile
  <2> QED BY <1>1, <2>1, KeptFacts
<1>3. op.state = "downloading" => WholeContent(temp)
  <2> SUFFICES ASSUME op.state = "downloading" PROVE WholeContent(temp)
    OBVIOUS
  <2>1. op.open /\ (r.offset = op.downloaded \/ r.offset = 0)
    BY <1>2, RequestIsOut
  <2>2. r.offset = op.downloaded /\ op.downloaded = Len(temp)
    BY <1>1, <1>2, <2>1, KeptFacts DEF AtEndOf
  <2> QED BY <1>1, <2>2, KeptFacts, WholeOrEmpty
<1>4. CASE Download!OnFinishLoadingFile(op, requests \ {r}, delayed, temp)
  <2>1. requests \ {r} \in SUBSET requests /\ delayed \in SUBSET delayed
    OBVIOUS
  <2> QED BY <1>1, <1>3, <1>4, <2>1, KeptFacts, OnFinishKeeps
<1>5. CASE Download!Fail(op, requests \ {r}) /\ UNCHANGED <<temp, ivFile, final>>
  BY <1>1, <1>2, <1>5, KeptFacts, FailKeeps
<1> QED BY <1>4, <1>5 DEF Download!AnswerPastEnd

(* The part at x and the delayed ones that follow it: where they end.      *)
LEMMA RunEnds ==
    ASSUME Kept, NEW x \in Nat, x < file.size
    PROVE  \E m \in Nat :
              /\ \A i \in 1 .. m : \E d \in Download!Following(x) : d.offset = x + i * LoadChunk
              /\ \A d \in Download!Following(x) : \E i \in 1 .. m : d.offset = x + i * LoadChunk
              /\ \A d \in delayed : d.offset # x + (m + 1) * LoadChunk
              /\ Download!EndOfRun(x) = IF x + (m + 1) * LoadChunk < file.size
                                        THEN x + (m + 1) * LoadChunk ELSE file.size
              /\ Download!EndOfRun(x) \in Nat /\ x < Download!EndOfRun(x)
              /\ Download!EndOfRun(x) <= file.size
<1> DEFINE c == LoadChunk
<1>1. c \in Nat \ {0} /\ file.size \in Nat /\ delayed \subseteq DownloadRequests /\ Bounded(delayed)
  BY KeptFacts DEF RequestSet
<1>2. PICK m \in Nat :
         /\ Download!Cardinality(Download!Following(x)) = m
         /\ \A i \in 1 .. m : \E d \in Download!Following(x) : d.offset = x + i * c
         /\ \A d \in Download!Following(x) : \E i \in 1 .. m : d.offset = x + i * c
         /\ \A d \in delayed : d.offset # x + (m + 1) * c
  BY <1>1, RunOfParts DEF Bounded
<1>3. (m + 1) * c = c * m + c /\ (m + 1) * c \in Nat /\ (m + 1) * c > 0
  BY <1>1
<1>4. x + c * m + c = x + (m + 1) * c
  BY <1>1, <1>3
<1>5. Download!EndOfRun(x) = IF x + (m + 1) * c < file.size THEN x + (m + 1) * c ELSE file.size
  BY <1>2, <1>4 DEF Download!EndOfRun, Download!EndOfPart, Download!Smaller
<1>6. Download!EndOfRun(x) \in Nat /\ x < Download!EndOfRun(x) /\ Download!EndOfRun(x) <= file.size
  BY <1>1, <1>3, <1>5
<1> QED BY <1>2, <1>5, <1>6

(* A part at a later place than the run is at a place after its end.       *)
LEMMA LaterPlace ==
    ASSUME LoadChunk \in Nat \ {0}, NEW o, NEW p, NEW x \in Nat, NEW m \in Nat, NEW y \in Nat,
           o.downloaded = x, p.downloaded = x + (m + 1) * LoadChunk,
           Place(o, y), \A i \in 0 .. m : y # x + i * LoadChunk
    PROVE  Place(p, y)
<1> DEFINE c == LoadChunk
<1>1. PICK j \in Nat : y = x + j * c
  BY DEF Place
<1>2. j >= m + 1
  <2> SUFFICES ASSUME j <= m PROVE FALSE
    OBVIOUS
  <2>1. j \in 0 .. m
    OBVIOUS
  <2> QED BY <1>1, <2>1
<1>3. PICK k \in Nat : j = (m + 1) + k
  <2>1. j - (m + 1) \in Nat /\ j = (m + 1) + (j - (m + 1))
    BY <1>2
  <2> QED BY <2>1
<1>4. j * c = (m + 1) * c + k * c /\ (m + 1) * c \in Nat /\ k * c \in Nat
  <2>1. m + 1 \in Nat
    OBVIOUS
  <2> QED BY <1>3, <2>1, Multiples
<1>5. y = (x + (m + 1) * c) + k * c
  BY <1>1, <1>4
<1> QED BY <1>5 DEF Place

(* The next part, and those that follow it, while the stream is open.      *)
LEMMA NextPartWritten ==
    ASSUME Kept, migrations \in Nat, NEW r \in requests, Download!AnswerNext(r), op.open
    PROVE  Kept'
<1> DEFINE x == op.downloaded
           end == Download!EndOfRun(x)
           c == LoadChunk
           iv == IF ~file.key THEN 0 ELSE end
           o == [op EXCEPT !.downloaded = end, !.iv = iv]
           content == Download!Written(end, TRUE)
           rs == requests \ {r}
           ds == delayed \ Download!Following(x)
<1>1. r.offset = x /\ x < file.size /\ x \in Nat /\ UNCHANGED <<file, begun, errors, migrations, torn>>
  BY KeptFacts DEF Download!AnswerNext
<1>2. PICK m \in Nat :
         /\ \A i \in 1 .. m : \E d \in Download!Following(x) : d.offset = x + i * c
         /\ \A d \in Download!Following(x) : \E i \in 1 .. m : d.offset = x + i * c
         /\ \A d \in delayed : d.offset # x + (m + 1) * c
         /\ end = IF x + (m + 1) * c < file.size THEN x + (m + 1) * c ELSE file.size
         /\ end \in Nat /\ x < end /\ end <= file.size
  BY <1>1, RunEnds, Zenon
<1>3. file.key => op.iv = x
  BY KeptFacts DEF AtEndOf
<1>4. IF Download!More(end)
      THEN /\ Download!StartDownloadRequest(o, rs, ds, migrations) /\ temp' = content
           /\ ivFile' = IF file.key THEN o.iv ELSE ivFile
           /\ UNCHANGED <<final, reports>>
      ELSE Download!OnFinishLoadingFile(o, rs, ds, content)
  <2>1. ~file.key \/ op.iv = op.downloaded
    BY <1>3
  <2>2. o = [op EXCEPT !.downloaded = end,
                       !.iv = IF ~file.key THEN 0
                              ELSE IF ~file.key \/ op.iv = op.downloaded THEN end ELSE Download!Broken]
    BY <2>1
  <2>3. (~file.key \/ op.iv = op.downloaded) = TRUE
    BY <2>1, KeptFacts
  <2> QED BY <1>1, <2>2, <2>3 DEF Download!AnswerNext
<1> HIDE DEF end
<1>5. o \in DownloadOps /\ o.state = op.state /\ o.downloaded = end /\ o.open /\ o.iv = iv
      /\ o.next = op.next
  <2>1. op \in DownloadOps /\ file.key \in BOOLEAN
    BY KeptFacts
  <2>2. end \in Nat /\ iv \in Int
    <3>1. end \in Nat
      BY <1>2, Zenon
    <3> QED BY <3>1
  <2> HIDE DEF iv
  <2>3. o \in DownloadOps
    BY <2>1, <2>2 DEF DownloadOps
  <2>4. /\ o.state = op.state /\ o.downloaded = end /\ (o.open <=> op.open) /\ o.iv = iv
        /\ o.next = op.next
    BY <2>1 DEF DownloadOps
  <2> QED BY <2>3, <2>4
<1>6. op.state = "downloading"
  BY KeptFacts DEF AtRest
<1>7. RightContent(content) /\ Len(content) = IF Len(temp) < end THEN end ELSE Len(temp)
  <2>1. x <= Len(temp) /\ x <= end
    BY <1>1, <1>2, KeptFacts DEF AtEndOf
  <2> QED BY <1>1, <1>2, <2>1, KeptFacts, WrittenIsRight
<1>8. file.key \/ file.total = 0 => x = Len(temp) /\ Len(content) = end
  <2>1. file.key \/ file.total = 0 => x = Len(temp)
    BY KeptFacts DEF AtEndOf
  <2> QED BY <1>2, <1>7, <2>1
<1>9. end < file.size => end = x + (m + 1) * c
  BY <1>2
<1>10. rs \in SUBSET requests /\ ds \in SUBSET delayed /\ RequestSet(ds)
  <2>1. ds \in SUBSET delayed
    OBVIOUS
  <2> QED BY <2>1, KeptFacts, SomeRequests
<1> HIDE DEF o, content, iv, rs, ds
<1>11. CASE ~Download!More(end)
  <2>1. end = file.size
    <3> SUFFICES ASSUME end < file.size PROVE FALSE
      BY <1>2, KeptFacts
    <3>1. file.total = 0 /\ end % c # 0
      BY <1>2, <1>11, KeptFacts DEF Download!More
    <3>2. PICK a \in Nat : x = a * c
      BY <1>8, <3>1, KeptFacts DEF OnDisk
    <3>3. end = (a + (m + 1)) * c /\ a + (m + 1) \in Nat
      <4>1. m + 1 \in Nat
        OBVIOUS
      <4> QED BY <1>9, <3>2, <4>1, KeptFacts, Multiples
    <3> QED BY <3>1, <3>3, KeptFacts, Multiples
  <2>2. WholeContent(content)
    <3>1. Len(content) = file.size
      BY <1>7, <2>1, KeptFacts
    <3> QED BY <1>7, <3>1, KeptFacts, WholeOrEmpty
  <2> QED BY <1>1, <1>4, <1>5, <1>6, <1>10, <1>11, <2>2, OnFinishKeeps
<1>12. CASE Download!More(end)
  <2>1. /\ Download!StartDownloadRequest(o, rs, ds, migrations) /\ temp' = content
        /\ ivFile' = IF file.key THEN o.iv ELSE ivFile
        /\ final' = final
    BY <1>4, <1>12
  <2>2. file.total > 0 => end < file.size
    BY <1>2, <1>12, KeptFacts DEF Download!More
  <2>3. file.total = 0 => end % c = 0
    BY <1>2, <1>12, KeptFacts DEF Download!More
  <2>4. file.total = 0 =>
           /\ o.open /\ rs = {} /\ ds = {}
           /\ o.next = o.downloaded \/ (o.next = 0 /\ o.downloaded # 0)
    <3> SUFFICES ASSUME file.total = 0
                 PROVE  rs = {} /\ ds = {} /\ o.next = o.downloaded
      BY <1>5
    <3>1. rs = {} /\ delayed = {} /\ op.next = x + c
      BY <1>1, <1>6, RequestIsOut DEF rs
    <3>2. m = 0
      <4>1. Download!Following(x) = {}
        BY <3>1 DEF Download!Following
      <4>2. 1 \notin 1 .. m
        BY <1>2, <4>1
      <4> QED BY <4>2
    <3>3. end = x + c
      <4>1. PICK a \in Nat : x = a * c
        BY <1>8, KeptFacts DEF OnDisk
      <4>2. PICK b \in Nat : end = b * c
        BY <1>2, <2>3, KeptFacts, Divided
      <4>3. (m + 1) * c = c /\ (a + 1) * c = a * c + c /\ c \in Nat \ {0}
        BY <3>2, KeptFacts
      <4>4. end <= x + c /\ a * c < b * c
        BY <1>1, <1>2, <4>1, <4>2, <4>3
      <4>5. a + 1 <= b
        <5> SUFFICES ASSUME b <= a PROVE FALSE
          OBVIOUS
        <5>1. b * c <= a * c
          BY <4>3, Multiples
        <5>2. a * c \in Nat /\ b * c \in Nat
          BY <4>3, Multiples
        <5> QED BY <4>4, <5>1, <5>2
      <4>6. (a + 1) * c <= b * c
        <5>1. a + 1 \in Nat
          OBVIOUS
        <5> QED BY <4>3, <4>5, <5>1, Multiples
      <4> QED BY <1>1, <1>2, <4>1, <4>2, <4>3, <4>4, <4>6
    <3> QED BY <1>5, <3>1, <3>3 DEF ds
  <2>5. InRows(o, rs, ds, migrations)
    <3> SUFFICES ASSUME file.total > 0, migrations = 0
                 PROVE  /\ \A q \in rs \cup ds : q.epoch = 0 /\ q.offset < o.next /\ Place(o, q.offset)
                        /\ rs \cap ds = {} /\ Place(o, o.next)
      BY DEF InRows
    <3>1. /\ \A q \in requests \cup delayed : q.epoch = 0 /\ q.offset < op.next /\ Place(op, q.offset)
          /\ requests \cap delayed = {} /\ Place(op, op.next)
      BY KeptFacts DEF InRows
    <3>2. o.downloaded = x + (m + 1) * c
      BY <1>5, <1>9, <2>2
    <3>3. \A q \in requests \cup delayed : q \in DownloadRequests
      BY KeptFacts DEF RequestSet
    <3>4. ASSUME NEW i \in 0 .. m
          PROVE  \E q \in {r} \cup Download!Following(x) : q.offset = x + i * c
      <4>1. CASE i = 0
        <5>1. r.offset = x + i * c
          BY <1>1, <4>1, KeptFacts
        <5> QED BY <5>1
      <4>2. CASE i # 0
        <5>1. i \in 1 .. m
          BY <4>2
        <5> QED BY <1>2, <5>1
      <4> QED BY <4>1, <4>2
    <3>5. Download!Following(x) \subseteq delayed
      BY DEF Download!Following
    <3>6. ASSUME NEW q \in rs \cup ds PROVE Place(o, q.offset)
      <4>1. q \in requests \cup delayed /\ q.offset \in Nat /\ q \notin {r} \cup Download!Following(x)
        BY <1>10, <3>1, <3>3, <3>5 DEF rs, ds, DownloadRequests
      <4>2. ASSUME NEW i \in 0 .. m PROVE q.offset # x + i * c
        <5>1. PICK d \in {r} \cup Download!Following(x) : d.offset = x + i * c
          BY <3>4
        <5>2. d \in DownloadRequests /\ q \in DownloadRequests /\ d.epoch = 0 /\ q.epoch = 0
          BY <3>1, <3>3, <3>5, <4>1, <5>1
        <5> QED BY <4>1, <5>1, <5>2 DEF DownloadRequests
      <4> QED BY <1>1, <3>1, <3>2, <4>1, <4>2, LaterPlace, KeptFacts
    <3>7. Place(o, o.next)
      <4>1. \A i \in 0 .. m : op.next # x + i * c
        <5> TAKE i \in 0 .. m
        <5>1. PICK d \in {r} \cup Download!Following(x) : d.offset = x + i * c
          BY <3>4
        <5>2. d.offset < op.next /\ d.offset \in Nat
          BY <3>1, <3>3, <3>5, <5>1 DEF DownloadRequests
        <5> QED BY <5>1, <5>2, KeptFacts
      <4> QED BY <1>1, <1>5, <3>1, <3>2, <4>1, LaterPlace, KeptFacts
    <3> QED BY <1>5, <1>10, <3>1, <3>6, <3>7
  <2>6. Stuck(o, rs, ds)
    BY <1>5 DEF Stuck
  <2>7. /\ op' \in DownloadOps /\ op'.state = o.state /\ op'.downloaded = o.downloaded
        /\ op'.open = o.open /\ op'.iv = o.iv
        /\ RequestSet(requests') /\ delayed' = ds /\ WithinFile(requests')
        /\ OneAsked(op', requests', delayed') /\ InRows(op', requests', delayed', migrations)
        /\ Stuck(op', requests', delayed')
    BY <1>5, <1>10, <2>1, <2>4, <2>5, <2>6, RequestIsOut, KeptFacts, StartDownloadRequestKeeps DEF rs
  <2>8. AtRest'
    BY <1>1, <1>5, <1>6, <2>7, RequestIsOut DEF AtRest
  <2>9. AtEndOf(op', temp')
    <3>1. end <= Len(content) /\ (file.key => iv = end)
      BY <1>2, <1>7, KeptFacts DEF iv
    <3> QED BY <1>5, <1>8, <2>1, <2>7, <3>1 DEF AtEndOf
  <2>10. OnDisk(temp', ivFile')
    <3>1. file.total = 0 => \E a \in Nat : Len(content) = a * c
      <4>1. c \in Nat \ {0} /\ end \in Nat
        BY <1>2, KeptFacts
      <4>2. end % c = 0 => \E a \in Nat : end = a * c
        BY <4>1, Divided
      <4> QED BY <1>8, <2>3, <4>2, Zenon
    <3>2. PICK b \in Nat : c = b * Block
      BY Divided, KeptFacts
    <3>3. \A a \in Nat : a * c = (a * b) * Block /\ a * b \in Nat
      BY <3>2, KeptFacts
    <3>4. file.key => \E a \in Nat : Len(content) = a * Block
      <4>1. CASE file.total = 0
        BY <3>1, <3>3, <4>1
      <4>2. ASSUME file.key, file.total > 0 PROVE \E a \in Nat : Len(content) = a * Block
        <5>1. PICK a \in Nat : x = a * Block
          BY <1>8, <4>2, KeptFacts DEF OnDisk
        <5>2. end = a * Block + ((m + 1) * b) * Block /\ (m + 1) * b \in Nat
          <6>1. m + 1 \in Nat
            OBVIOUS
          <6> QED BY <1>9, <2>2, <3>3, <4>2, <5>1, <6>1
        <5>3. end = (a + (m + 1) * b) * Block /\ a + (m + 1) * b \in Nat
          BY <5>2, KeptFacts, Multiples
        <5> QED BY <1>8, <4>2, <5>3
      <4> QED BY <4>1, <4>2, KeptFacts
    <3>5. file.key => ivFile' = Len(content)
      BY <1>5, <1>8, <2>1 DEF iv
    <3> QED BY <1>7, <2>1, <3>1, <3>4, <3>5 DEF OnDisk
  <2>11. ivFile' \in Int
    BY <1>5, <2>1, KeptFacts DEF DownloadOps
  <2>12. /\ file' = file /\ begun' = begun /\ final' = final
         /\ InRows(op', requests', delayed', migrations')
    BY <1>1, <2>1, <2>7
  <2>13. op'.open
    BY <1>5, <2>7
  <2> QED BY <1>10, <2>7, <2>8, <2>9, <2>10, <2>11, <2>12, <2>13, KeptFacts, DownloadGoesOn
<1> QED BY <1>11, <1>12

(* After a failure or a cancellation the count goes on, but nothing is     *)
(* written, and where a part is missing the count does not reach the end.  *)
LEMMA NextPartCounted ==
    ASSUME Kept, migrations \in Nat, NEW r \in requests, Download!AnswerNext(r), ~op.open
    PROVE  Kept'
<1> DEFINE x == op.downloaded
           end == Download!EndOfRun(x)
           c == LoadChunk
           iv == IF ~file.key THEN 0
                 ELSE IF ~file.key \/ op.iv = op.downloaded THEN end ELSE Download!Broken
           o == [op EXCEPT !.downloaded = end, !.iv = iv]
           rs == requests \ {r}
           ds == delayed \ Download!Following(x)
<1>1. r.offset = x /\ x < file.size /\ x \in Nat /\ UNCHANGED <<file, begun, errors, migrations, torn>>
  BY KeptFacts DEF Download!AnswerNext
<1>2. PICK m \in Nat :
         /\ \A i \in 1 .. m : \E d \in Download!Following(x) : d.offset = x + i * c
         /\ \A d \in Download!Following(x) : \E i \in 1 .. m : d.offset = x + i * c
         /\ \A d \in delayed : d.offset # x + (m + 1) * c
         /\ end = IF x + (m + 1) * c < file.size THEN x + (m + 1) * c ELSE file.size
         /\ end \in Nat /\ x < end /\ end <= file.size
  BY <1>1, RunEnds, Zenon
<1>3. IF Download!More(end)
      THEN /\ Download!StartDownloadRequest(o, rs, ds, migrations) /\ temp' = temp
           /\ ivFile' = ivFile /\ final' = final
      ELSE Download!OnFinishLoadingFile(o, rs, ds, temp)
  BY <1>1 DEF Download!AnswerNext
<1> HIDE DEF end
<1>4. o \in DownloadOps /\ o.state = op.state /\ o.downloaded = end /\ ~o.open /\ o.open = op.open
      /\ o.next = op.next
  <2>1. op \in DownloadOps /\ file.key \in BOOLEAN
    BY KeptFacts
  <2>2. end \in Nat /\ iv \in Int
    <3>1. end \in Nat
      BY <1>2, Zenon
    <3> QED BY <3>1 DEF Download!Broken
  <2> HIDE DEF iv
  <2>3. o \in DownloadOps
    BY <2>1, <2>2 DEF DownloadOps
  <2>4. /\ o.state = op.state /\ o.downloaded = end /\ (o.open <=> op.open) /\ o.next = op.next
    BY <2>1 DEF DownloadOps
  <2> QED BY <2>1, <2>3, <2>4 DEF DownloadOps
<1>5. rs \in SUBSET requests /\ ds \in SUBSET delayed /\ RequestSet(ds)
  <2>1. ds \in SUBSET delayed
    OBVIOUS
  <2> QED BY <2>1, KeptFacts, SomeRequests
<1> HIDE DEF o, rs, ds
<1>6. op.state = "downloading" => file.total > 0
  <2>1. op.state = "downloading" => file.total # 0
    BY RequestIsOut
  <2> QED BY <2>1, KeptFacts
<1>7. ASSUME op.state = "downloading" PROVE Download!More(end) /\ Stuck(o, rs, ds)
  <2>1. PICK y \in Nat : Missing(op, requests, delayed, y)
    BY <1>6, <1>7, RequestIsOut DEF Stuck
  <2>2. y < op.next /\ y < file.size /\ Place(op, y) /\ \A q \in requests \cup delayed : q.offset # y
    BY <2>1 DEF Missing
  <2>3. ASSUME NEW i \in 0 .. m PROVE y # x + i * c
    <3>1. CASE i = 0
      <4>1. y # r.offset /\ x + i * c = x
        BY <1>1, <2>2, <3>1, KeptFacts
      <4> QED BY <1>1, <4>1
    <3>2. CASE i # 0
      <4>1. PICK d \in Download!Following(x) : d.offset = x + i * c
        <5>1. i \in 1 .. m
          BY <3>2
        <5> QED BY <1>2, <5>1
      <4> QED BY <2>2, <4>1 DEF Download!Following
    <3> QED BY <3>1, <3>2
  <2>4. x + (m + 1) * c <= y
    <3>1. PICK j \in Nat : y = x + j * c
      BY <2>2 DEF Place
    <3>2. m + 1 <= j
      <4> SUFFICES ASSUME j <= m PROVE FALSE
        OBVIOUS
      <4>1. j \in 0 .. m
        OBVIOUS
      <4> QED BY <2>3, <3>1, <4>1
    <3>3. (m + 1) * c <= j * c /\ (m + 1) * c \in Nat /\ j * c \in Nat
      <4>1. m + 1 \in Nat
        OBVIOUS
      <4> QED BY <3>2, <4>1, KeptFacts, Multiples
    <3> QED BY <1>1, <3>1, <3>3
  <2>5. end = x + (m + 1) * c /\ end < file.size
    <3>1. (m + 1) * c \in Nat
      BY KeptFacts
    <3> QED BY <1>1, <1>2, <2>2, <2>4, <3>1, KeptFacts
  <2>6. file.total = file.size
    BY <1>6, <1>7, KeptFacts
  <2>7. Place(o, y)
    BY <1>1, <1>4, <2>2, <2>3, <2>5, LaterPlace, KeptFacts
  <2>8. Missing(o, rs, ds, y)
    BY <1>4, <1>5, <2>2, <2>7 DEF Missing
  <2> QED BY <1>2, <2>5, <2>6, <2>8, KeptFacts DEF Stuck, Download!More
<1>8. CASE ~Download!More(end)
  <2>1. op.state # "downloading"
    BY <1>7, <1>8
  <2> QED BY <1>1, <1>3, <1>4, <1>5, <1>8, <2>1, OnFinishKeeps
<1>9. CASE Download!More(end)
  <2>1. /\ Download!StartDownloadRequest(o, rs, ds, migrations) /\ temp' = temp
        /\ ivFile' = ivFile /\ final' = final
    BY <1>3, <1>9
  <2>2. InRows(o, rs, ds, migrations) /\ Stuck(o, rs, ds)
    BY <1>4, <1>7 DEF InRows, Stuck
  <2>3. file.total = 0 => o.state # "downloading"
    BY <1>4, <1>6
  <2>4. /\ op' \in DownloadOps /\ op'.state = o.state /\ op'.downloaded = o.downloaded
        /\ op'.open = o.open /\ op'.iv = o.iv
        /\ RequestSet(requests') /\ delayed' = ds /\ WithinFile(requests')
        /\ OneAsked(op', requests', delayed') /\ InRows(op', requests', delayed', migrations)
        /\ Stuck(op', requests', delayed')
    BY <1>4, <1>5, <2>1, <2>2, <2>3, RequestIsOut, KeptFacts, StartDownloadRequestKeeps DEF rs
  <2>5. ~op'.open /\ op'.state = op.state /\ begun /\ op.state # "idle"
    BY <1>4, <2>4, RequestIsOut
  <2>6. AtRest'
    BY <1>1, <2>5 DEF AtRest
  <2>7. AtEndOf(op', temp') /\ OnDisk(temp', ivFile')
    BY <2>1, <2>5, KeptFacts DEF AtEndOf
  <2>8. file.total > 0 /\ op'.state = "downloading" /\ ~op'.open => errors' > 0
    BY <1>1, <2>5, KeptFacts
  <2>9. /\ file' = file /\ begun' = begun /\ final' = final /\ ivFile' = ivFile
        /\ InRows(op', requests', delayed', migrations')
    BY <1>1, <2>1, <2>4
  <2> QED BY <1>5, <2>4, <2>6, <2>7, <2>8, <2>9, KeptFacts, DownloadGoesOn
<1> QED BY <1>8, <1>9

(* The process dies while it writes: what is written is right, and nothing *)
(* of it is taken on trust (of a file that is not encrypted, whose size is *)
(* known).                                                                 *)
LEMMA DieInWriteKeeps ==
    ASSUME Kept, torn \in Nat, Clean', Download!DieInWrite
    PROVE  Kept'
<1> DEFINE x == op.downloaded
<1>1. /\ torn' = torn + 1 /\ op.open /\ x < file.size /\ x \in Nat
      /\ op' = Download!Idle /\ ~begun' /\ begun' \in BOOLEAN /\ requests' = {} /\ delayed' = {}
      /\ UNCHANGED <<file, final, errors, migrations>>
  BY KeptFacts DEF Download!DieInWrite
<1>2. ~file.key /\ file.total # 0
  BY <1>1 DEF Clean
<1>3. PICK end \in x + 1 .. Download!EndOfRun(x) :
         /\ temp' = Download!Written(end, ~file.key \/ op.iv = op.downloaded)
         /\ ivFile' = IF ~file.key \/ ((end - op.downloaded - 1) \div LoadChunk) * LoadChunk = 0
                      THEN ivFile
                      ELSE IF ~file.key \/ op.iv = op.downloaded
                           THEN op.downloaded + ((end - op.downloaded - 1) \div LoadChunk) * LoadChunk
                           ELSE Download!Broken
  BY DEF Download!DieInWrite
<1>4. (~file.key \/ op.iv = op.downloaded) = TRUE /\ ivFile' = ivFile
  BY <1>2, <1>3
<1>5. RightContent(temp')
  <2>1. end \in Nat /\ end <= file.size /\ x <= end
    <3>1. Download!EndOfRun(x) \in Nat /\ Download!EndOfRun(x) <= file.size
      BY <1>1, RunEnds
    <3> QED BY <1>1, <3>1, KeptFacts
  <2>2. x <= Len(temp)
    BY <1>1, KeptFacts DEF AtEndOf
  <2>3. temp' = Download!Written(end, TRUE)
    BY <1>3, <1>4
  <2> QED BY <1>1, <2>1, <2>2, <2>3, KeptFacts, WrittenIsRight
<1>6. OnDisk(temp', ivFile')
  BY <1>2, <1>5 DEF OnDisk
<1> QED BY <1>1, <1>4, <1>6, IdleAgain, NoRequests, KeptFacts, OverKeeps

-----------------------------------------------------------------------------
LEMMA DownloadInitHolds == Download!Init => DownloadInv
<1> SUFFICES ASSUME Download!Init PROVE DownloadInv
  OBVIOUS
<1>1. /\ op = Download!Idle /\ ~begun /\ begun \in BOOLEAN /\ requests = {} /\ delayed = {} /\ temp = <<>>
      /\ ivFile = 0 /\ final = {} /\ errors = 0 /\ migrations = 0 /\ torn = 0
  BY DEF Download!Init
<1>2. file \in [size : LoadSizes, total : Nat, key : BOOLEAN] /\ file.total \in {0, file.size}
  <2>1. PICK s \in LoadSizes : file \in [size : {s}, total : {0, s}, key : BOOLEAN]
    BY DEF Download!Init
  <2>2. s \in Nat
    BY DownloadAssumption DEF Download!FileLoadOperationAssumption
  <2> QED BY <2>1, <2>2
<1>3. DownloadTyped
  <2>1. op \in DownloadOps
    BY <1>1, IdleAgain
  <2>2. RequestSet(requests) /\ RequestSet(delayed)
    BY <1>1, NoRequests
  <2>3. ivFile \in Int /\ begun \in BOOLEAN
    BY <1>1
  <2> QED BY <1>2, <2>1, <2>2, <2>3 DEF DownloadTyped
<1>4. AtRest
  BY <1>1, IdleAgain DEF AtRest
<1>5. OnDisk(temp, ivFile)
  BY <1>1, <1>3, LoadFacts, WholeOrEmpty
<1>6. /\ AtEndOf(op, temp) /\ OneAsked(op, requests, delayed)
      /\ InRows(op, requests, delayed, migrations)
  BY <1>1, IdleAgain, ClosedIsKept
<1>7. op.state # "downloading"
  BY <1>1, IdleAgain
<1>8. Kept
  BY <1>1, <1>3, <1>4, <1>5, <1>6, <1>7, NoRequests DEF Kept
<1> QED BY <1>1, <1>8 DEF DownloadInv

(* What is counted is counted up, so that what was left out stays so.      *)
LEMMA CountsGoUp ==
    ASSUME errors \in Nat, migrations \in Nat, torn \in Nat, [Download!Next]_(Download!vars)
    PROVE  /\ errors' \in Nat /\ errors <= errors' /\ migrations' \in Nat /\ migrations <= migrations'
           /\ torn' \in Nat /\ torn <= torn' /\ file' = file
<1> USE DEF Download!StartWithFile, Download!Start, Download!StartFails, Download!Begin,
            Download!Answer, Download!AnswerOutOfTurn, Download!AnswerNext, Download!AnswerPastEnd,
            Download!AnswerFails, Download!AnswerMigrate, Download!Cancel, Download!Renew,
            Download!DieInWrite
<1>1. CASE Download!StartWithFile \/ Download!Start \/ Download!StartFails \/ Download!Begin
  BY <1>1
<1>2. CASE Download!Answer
  BY <1>2
<1>3. CASE Download!Cancel \/ Download!Renew \/ Download!DieInWrite
  BY <1>3
<1>4. CASE UNCHANGED Download!vars
  BY <1>4 DEF Download!vars
<1> QED BY <1>1, <1>2, <1>3, <1>4 DEF Download!Next

LEMMA DownloadNextKeeps == DownloadInv /\ [Download!Next]_(Download!vars) => DownloadInv'
<1> SUFFICES ASSUME DownloadInv, [Download!Next]_(Download!vars) PROVE DownloadInv'
  OBVIOUS
<1>1. errors \in Nat /\ migrations \in Nat /\ torn \in Nat
  BY DEF DownloadInv
<1>2. /\ errors' \in Nat /\ errors <= errors' /\ migrations' \in Nat /\ migrations <= migrations'
      /\ torn' \in Nat /\ torn <= torn' /\ file' = file
  BY <1>1, CountsGoUp
<1>3. ASSUME Clean' PROVE Kept'
  <2>1. Clean
    BY <1>1, <1>2, <1>3 DEF Clean
  <2>2. Kept
    BY <2>1 DEF DownloadInv
  <2>3. CASE Download!StartWithFile \/ Download!Start \/ Download!StartFails
    BY <1>1, <2>2, <2>3, DownloadStartsKeep
  <2>4. CASE Download!Begin
    BY <1>1, <2>2, <2>4, BeginKeeps
  <2>5. CASE Download!Answer
    <3>1. PICK r \in requests :
             \/ Download!AnswerOutOfTurn(r) \/ Download!AnswerNext(r) \/ Download!AnswerPastEnd(r)
             \/ Download!AnswerFails(r) \/ Download!AnswerMigrate(r)
      BY <2>5 DEF Download!Answer
    <3>2. CASE Download!AnswerOutOfTurn(r)
      BY <2>2, <3>2, AnswerOutOfTurnKeeps
    <3>3. CASE Download!AnswerNext(r)
      BY <1>1, <2>2, <3>3, NextPartWritten, NextPartCounted
    <3>4. CASE Download!AnswerPastEnd(r)
      BY <2>2, <3>4, AnswerPastEndKeeps
    <3>5. CASE Download!AnswerFails(r)
      BY <1>1, <1>3, <2>2, <3>5, AnswerFailsKeeps
    <3>6. CASE Download!AnswerMigrate(r)
      BY <1>1, <1>3, <2>2, <3>6, AnswerMigrateKeeps
    <3> QED BY <3>1, <3>2, <3>3, <3>4, <3>5, <3>6
  <2>6. CASE Download!Cancel
    BY <2>2, <2>6, CancelKeepsTheFile
  <2>7. CASE Download!Renew
    BY <2>2, <2>7, RenewKeeps
  <2>8. CASE Download!DieInWrite
    BY <1>1, <1>3, <2>2, <2>8, DieInWriteKeeps
  <2>9. CASE UNCHANGED Download!vars
    <3>1. /\ file' = file /\ op' = op /\ begun' = begun /\ requests' = requests /\ delayed' = delayed
          /\ temp' = temp /\ ivFile' = ivFile /\ final' = final /\ errors' = errors
          /\ migrations' = migrations
      BY <2>9 DEF Download!vars
    <3>2. AtRest'
      BY <2>2, <3>1, KeptFacts DEF AtRest
    <3>3. /\ OnDisk(temp', ivFile') /\ AtEndOf(op', temp') /\ WithinFile(requests')
          /\ OneAsked(op', requests', delayed') /\ InRows(op', requests', delayed', migrations')
          /\ (requests' = {} /\ delayed' = {}) \/ Stuck(op', requests', delayed')
      BY <2>2, <3>1, KeptFacts
    <3> QED BY <2>2, <3>1, <3>2, <3>3, KeptFacts, DownloadGoesOn
  <2> QED BY <2>3, <2>4, <2>5, <2>6, <2>7, <2>8, <2>9 DEF Download!Next
<1> QED BY <1>2, <1>3 DEF DownloadInv

LEMMA DownloadIsWhole == DownloadInv => Download!WholeFile
<1> SUFFICES ASSUME DownloadInv, NEW c \in final, Clean
             PROVE  c = [i \in 1 .. file.size |-> i]
  BY DEF Download!WholeFile, Clean
<1>1. Kept
  BY DEF DownloadInv
<1> QED BY <1>1, KeptFacts DEF WholeContent

(* A file that gets its final name is whole and every unit of it is right, *)
(* in whatever order the answers come, whatever fails and however often    *)
(* the operation goes on from what is on disk (with what WholeFile leaves  *)
(* out); and so is a file that the server was told is uploaded.            *)
THEOREM FilesAreWhole == Download!Spec /\ Upload!Spec => []WholeFile
<1>1. Download!Spec => []Download!WholeFile
  <2>1. Download!Init => DownloadInv
    BY DownloadInitHolds
  <2>2. DownloadInv /\ [Download!Next]_(Download!vars) => DownloadInv'
    BY DownloadNextKeeps
  <2>3. DownloadInv => Download!WholeFile
    BY DownloadIsWhole
  <2> QED BY <2>1, <2>2, <2>3, PTL DEF Download!Spec
<1>2. Upload!Spec => []Upload!WholeFile
  <2>1. Upload!Init => UploadInv
    BY UploadInitHolds
  <2>2. UploadInv /\ [Upload!Next]_(Upload!vars) => UploadInv'
    BY UploadNextKeeps
  <2>3. UploadInv => Upload!WholeFile
    BY UploadIsWhole
  <2> QED BY <2>1, <2>2, <2>3, PTL DEF Upload!Spec
<1>3. Download!WholeFile /\ Upload!WholeFile => WholeFile
  BY DEF WholeFile
<1> QED BY <1>1, <1>2, <1>3, PTL

(* What moves together is each of the three for itself, so that all of     *)
(* this holds of the system that the runs check.                           *)
THEOREM TogetherAsAlone ==
    MCInit /\ [][MCNext]_MCvars => [](Settled /\ WholeFile /\ NotedIsSent)
<1>1. MCInit => Init /\ Download!Init /\ Upload!Init
  BY DEF MCInit
<1>2. [MCNext]_MCvars =>
         [Next]_vars /\ [Download!Next]_(Download!vars) /\ [Upload!Next]_(Upload!vars)
  <2> SUFFICES ASSUME [MCNext]_MCvars
               PROVE  [Next]_vars /\ [Download!Next]_(Download!vars) /\ [Upload!Next]_(Upload!vars)
    OBVIOUS
  <2>1. UNCHANGED download => UNCHANGED Download!vars
    BY DEF download, Download!vars
  <2>2. UNCHANGED upload => UNCHANGED Upload!vars
    BY DEF upload, Upload!vars
  <2>3. CASE NotificationsStep
    BY <2>1, <2>2, <2>3 DEF NotificationsStep, OnlyNotifications
  <2>4. CASE DownloadStep
    BY <2>2, <2>4 DEF DownloadStep, OnlyDownload
  <2>5. CASE UploadStep
    BY <2>1, <2>5 DEF UploadStep, OnlyUpload
  <2>6. CASE UNCHANGED MCvars
    BY <2>1, <2>2, <2>6 DEF MCvars
  <2> QED BY <2>3, <2>4, <2>5, <2>6 DEF MCNext
<1>3. MCInit /\ [][MCNext]_MCvars => Spec /\ Download!Spec /\ Upload!Spec
  BY <1>1, <1>2, PTL DEF Spec, Download!Spec, Upload!Spec
<1>4. Spec => []Settled
  BY NotificationsAssumption, ListsSettle
<1> QED BY <1>3, <1>4, FilesAreWhole, NotesAreRight, PTL
=============================================================================
