-------------------------- MODULE InOrderChannel --------------------------
(***************************************************************************)
(* What the numbers of a secret chat promise in one direction: messages    *)
(* are processed in the order in which they were sent and none is passed   *)
(* over.  Only the first may be, and the last one processed may come       *)
(* again: the number 0 stands for "the first" and for "none" alike.        *)
(***************************************************************************)
EXTENDS Naturals

VARIABLES
    sent,  \* how many messages were sent: they have the numbers 0 .. sent - 1
    last   \* the number of the last message processed, 0 if there is none

Init == sent \in {0, 1} /\ last = 0

Send == sent' = sent + 1 /\ UNCHANGED last

Show == last' = last + 1 /\ last' < sent /\ UNCHANGED sent

Next == Send \/ Show

Spec == Init /\ [][Next]_<<sent, last>>

=============================================================================
