--------------------------- MODULE MCConnections ---------------------------
(* How a datacenter gets its key, and the requests that go to datacenters, *)
(* for TLC.  The first ends where the second begins (HandshakeDidFinish),  *)
(* and neither reads what the other one writes, so that a behaviour here   *)
(* is one of either, chosen at the beginning, with the other at rest.      *)
EXTENDS Integers, Sequences, FiniteSets, SequencesExt

CONSTANTS
    MaxAttempts, MaxLost, MaxRefusals, MaxEncrypted, MaxRepeats, MaxTrouble,
    Dcs, First, Requests, None, MaxGeneric, MaxEvents

VARIABLES
    part,                                       \* which of the two moves
    hs, threads, dc, stage, conn, tasks, caught, out, in, agreed, drawn, times, read,
    doubled, dead,
    c, down, known, open, home, faults, executed

Handshake == INSTANCE HandshakeAction
Rpc       == INSTANCE ConnectionsManager

ASSUME HandshakeAssumption == Handshake!HandshakeActionAssumption
ASSUME RpcAssumption       == Rpc!DcsAssumption /\ Rpc!RequestsAssumption

handshake == <<hs, threads, dc, stage, conn, tasks, caught, out, in, agreed, drawn, times,
               read, doubled, dead>>
rpc       == <<c, down, known, open, home, faults, executed>>
vars      == <<part, handshake, rpc>>

Init ==
    /\ part \in {"handshake", "rpc"}
    /\ Handshake!Init /\ Rpc!Init /\ (part = "handshake" => c.activated /\ c.authorized = {})

OnlyHandshake == part = "handshake" /\ UNCHANGED <<part, rpc>>
OnlyRpc       == part = "rpc" /\ UNCHANGED <<part, handshake>>

Next ==
    \/ OnlyHandshake /\ Handshake!Next
    \/ OnlyRpc /\ Rpc!Next

(* The fairness of both.                                                   *)
FairSpec ==
    /\ Init /\ [][Next]_vars
    /\ WF_handshake(OnlyHandshake /\ Handshake!NetworkStep)
    /\ WF_handshake(OnlyHandshake /\ Handshake!StageStep)
    /\ WF_handshake(OnlyHandshake /\ Handshake!Factorized)
    /\ WF_handshake(OnlyHandshake /\ Handshake!Timer)
    /\ WF_handshake(OnlyHandshake /\ Handshake!ServerAnswers)
    /\ WF_rpc(OnlyRpc /\ Rpc!Progress)

-----------------------------------------------------------------------------
(* The key that the datacenter gets is one that the server has confirmed.  *)
KeyAgreed == Handshake!KeyAgreed

(* The action ends, with the connection in the hands of the RPC layer.     *)
Completes == part = "handshake" => Handshake!Completes

(* The callback of a request is called once at most.                       *)
Once == Rpc!Once

(* Messages are sent on in the order in which they were given, but for     *)
(* those that are over, or that another one goes past.                     *)
InOrder == Rpc!InOrder

(* However a move ends, there is a current datacenter.                     *)
CurrentKnown == Rpc!CurrentKnown

(* Every request is answered in the end, or cancelled.                     *)
Answered == Rpc!Answered

=============================================================================
