------------------------- MODULE NotificationCenter -------------------------
(***************************************************************************)
(* The list of observers of each notification, as NotificationCenter keeps *)
(* it.  An observer that is told of a notification may post another one,   *)
(* and may add and remove observers: these calls wait until the outermost  *)
(* broadcast is over, one of each kind for each notification.              *)
(*                                                                         *)
(* The lock on the observers lets one thread in, so that all calls that    *)
(* come while a broadcast runs are made by the observers it tells.         *)
(*                                                                         *)
(* A name with an underscore is a wrong variant of the definition after    *)
(* it: with it in place a property must fail.                              *)
(***************************************************************************)
EXTENDS Integers, Sequences, SequencesExt, Lists

CONSTANTS
    Ids,         \* the notifications
    Observers,
    None,        \* no observer
    MaxDepth     \* how many broadcasts run inside one another

NotificationCenterAssumption == None \notin Observers /\ MaxDepth \in Nat

VARIABLES
    observers,             \* of each notification
    removeAfterBroadcast,  \* of each notification the observer that waits to be removed
    addAfterBroadcast,     \* ... and added
    broadcasts,            \* those that run, outermost first: the notification, the observers
                           \* told so far, and (history) the list when it began
    wanted,                \* history: the observers of each notification, had every call
                           \* been carried out at once
    clashed                \* history: a call was forgotten or two changed places

vars == <<observers, removeAfterBroadcast, addAfterBroadcast, broadcasts, wanted, clashed>>

Init ==
    /\ observers = [id \in Ids |-> <<>>]
    /\ removeAfterBroadcast = [id \in Ids |-> None]
    /\ addAfterBroadcast = [id \in Ids |-> None]
    /\ broadcasts = <<>>
    /\ wanted = [id \in Ids |-> {}] /\ clashed = FALSE

Broadcasting == broadcasts # <<>>

-----------------------------------------------------------------------------
(* What addObserver does to a list; removeObserver does Removed, of Lists. *)
Added(list, o) == IF o \in ToSet(list) THEN list ELSE Append(list, o)

(* Another observer waits already: it is forgotten.                        *)
Forgets(waiting, o) == waiting \notin {None, o}

AddObserver(o, id) ==
    /\ wanted' = [wanted EXCEPT ![id] = @ \cup {o}]
    /\ IF Broadcasting
       THEN /\ addAfterBroadcast' = [addAfterBroadcast EXCEPT ![id] = o]
            /\ clashed' = (clashed \/ Forgets(addAfterBroadcast[id], o))
            /\ UNCHANGED observers
       ELSE /\ observers' = [observers EXCEPT ![id] = Added(@, o)]
            /\ UNCHANGED <<addAfterBroadcast, clashed>>
    /\ UNCHANGED <<removeAfterBroadcast, broadcasts>>

(* One that is removed after it was added, both during one broadcast, will *)
(* be added last.                                                          *)
RemoveObserver_AtOnce(o, id) ==
    /\ wanted' = [wanted EXCEPT ![id] = @ \ {o}]
    /\ observers' = [observers EXCEPT ![id] = Removed(@, o)]
    /\ UNCHANGED <<removeAfterBroadcast, clashed>>
    /\ UNCHANGED <<addAfterBroadcast, broadcasts>>

RemoveObserver(o, id) ==
    /\ wanted' = [wanted EXCEPT ![id] = @ \ {o}]
    /\ IF Broadcasting
       THEN /\ removeAfterBroadcast' = [removeAfterBroadcast EXCEPT ![id] = o]
            /\ clashed' = (\/ clashed \/ Forgets(removeAfterBroadcast[id], o)
                           \/ addAfterBroadcast[id] = o)
            /\ UNCHANGED observers
       ELSE /\ observers' = [observers EXCEPT ![id] = Removed(@, o)]
            /\ UNCHANGED <<removeAfterBroadcast, clashed>>
    /\ UNCHANGED <<addAfterBroadcast, broadcasts>>

-----------------------------------------------------------------------------
(* postNotificationName: it begins, tells one observer after the other,    *)
(* and ends.                                                               *)
Post(id) ==
    /\ Len(broadcasts) < MaxDepth
    /\ broadcasts' = Append(broadcasts, [id |-> id, told |-> <<>>, list |-> observers[id]])
    /\ UNCHANGED <<observers, removeAfterBroadcast, addAfterBroadcast, wanted, clashed>>

(* The list of the innermost broadcast, and how many of it were told.      *)
Current == Last(broadcasts)
List == observers[Current.id]
Told == Len(Current.told)

Tell ==
    /\ Broadcasting /\ Told < Len(List)
    /\ broadcasts' = [broadcasts EXCEPT ![Len(broadcasts)].told = Append(@, List[Told + 1])]
    /\ UNCHANGED <<observers, removeAfterBroadcast, addAfterBroadcast, wanted, clashed>>

End_AddsFirst ==
    /\ Broadcasting /\ Told >= Len(List)
    /\ broadcasts' = Front(broadcasts)
    /\ IF Len(broadcasts) = 1
       THEN /\ observers' = [id \in Ids |->
                  LET r == removeAfterBroadcast[id]
                      a == addAfterBroadcast[id]
                      list == IF a = None THEN observers[id] ELSE Added(observers[id], a)
                  IN  IF r = None THEN list ELSE Removed(list, r)]
            /\ removeAfterBroadcast' = [id \in Ids |-> None]
            /\ addAfterBroadcast' = [id \in Ids |-> None]
       ELSE UNCHANGED <<observers, removeAfterBroadcast, addAfterBroadcast>>
    /\ UNCHANGED <<wanted, clashed>>

End ==
    /\ Broadcasting /\ Told >= Len(List)
    /\ broadcasts' = Front(broadcasts)
    /\ IF Len(broadcasts) = 1
       THEN /\ observers' = [id \in Ids |->
                  LET r == removeAfterBroadcast[id]
                      a == addAfterBroadcast[id]
                      list == IF r = None THEN observers[id] ELSE Removed(observers[id], r)
                  IN  IF a = None THEN list ELSE Added(list, a)]
            /\ removeAfterBroadcast' = [id \in Ids |-> None]
            /\ addAfterBroadcast' = [id \in Ids |-> None]
       ELSE UNCHANGED <<observers, removeAfterBroadcast, addAfterBroadcast>>
    /\ UNCHANGED <<wanted, clashed>>

-----------------------------------------------------------------------------
Next ==
    \/ \E o \in Observers, id \in Ids : AddObserver(o, id) \/ RemoveObserver(o, id)
    \/ \E id \in Ids : Post(id)
    \/ Tell \/ End

Spec == Init /\ [][Next]_vars

-----------------------------------------------------------------------------
(* When no broadcast runs, the lists hold exactly those who were added and *)
(* not removed since, though calls waited.  Left out: calls that clash in  *)
(* one broadcast (a second observer for the same notification takes the    *)
(* place of the first, and an added observer that is removed is added      *)
(* again).                                                                 *)
Settled ==
    ~Broadcasting /\ ~clashed => \A id \in Ids : ToSet(observers[id]) = wanted[id]

(* Every broadcast, also one inside another, tells exactly the observers   *)
(* that were there when it began, each once and in the order of the list,  *)
(* whatever the observers add and remove meanwhile.                        *)
TellsAll ==
    [][Len(broadcasts') < Len(broadcasts) => Current.told = Current.list]_vars

=============================================================================
