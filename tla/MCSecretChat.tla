---------------------------- MODULE MCSecretChat ----------------------------
(* SecretChat for TLC, under two sets of bounds.  In one a chat that works *)
(* has two exchanges of keys; in the other messages come twice, requests   *)
(* fail, and the chat is given up early.  The constants have the values of *)
(* the first.                                                              *)
EXTENDS SecretChat

CONSTANTS
    FaultLimit,  \* HolesLimit of the second
    FaultSent    \* MaxSent of the second

VARIABLE faulty  \* which of the two a behaviour is about

Faulty == INSTANCE SecretChat
    WITH Started <- 0, HolesLimit <- FaultLimit, ExchangeIds <- {1}, MaxSent <- FaultSent,
         MaxRepeats <- 1, MaxFails <- 1

MCInit == faulty \in BOOLEAN /\ IF faulty THEN Faulty!Init ELSE Init

FaultyStep == faulty /\ UNCHANGED faulty /\ Faulty!Next
UsualStep  == ~faulty /\ UNCHANGED faulty /\ Next

MCNext == FaultyStep \/ UsualStep

MCvars == <<faulty, vars>>

(* stageQueue and the UI thread go on, and the server delivers what it was *)
(* given, for the chat that works.                                         *)
Usually(A) == ~faulty /\ UNCHANGED faulty /\ A
MCFairSpec ==
    /\ MCInit /\ [][MCNext]_MCvars
    /\ \A s \in Sides :
          /\ WF_vars(Usually(SendPosted(s))) /\ WF_vars(Usually(Receive(s)))
          /\ WF_vars(Usually(CheckHole(s))) /\ WF_vars(Usually(CheckEnds(s)))
          /\ WF_vars(Usually(Discard(s)))

(* When everything has arrived both sides of the chat that works have the  *)
(* same key, and no exchange is left half done.  (In the other, the first  *)
(* message of all may be passed over when it is overtaken.)                *)
KeysSettle == ~faulty => KeysAgree

(* Every message of the chat that works is processed, unless the chat is   *)
(* given up.                                                               *)
AllArrives ==
    \A s \in Sides : \A n \in 1 .. MaxSent - 1 :
        ~faulty /\ chat[s].out > n ~>
            \/ chat[Other(s)].in >= n \/ ~AsPlanned
            \/ \E t \in Sides : open[t] # "open"

=============================================================================
