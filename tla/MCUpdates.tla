------------------------------ MODULE MCUpdates ------------------------------
(***************************************************************************)
(* Updates with a bound that depends on what is in the log: with every     *)
(* kind of event, in every type of update, and an error on top, there are  *)
(* too many states.                                                        *)
(***************************************************************************)
EXTENDS Updates

(* A log has secret messages or the client's own events, not both, and     *)
(* with either no request fails.  With a secret message in the log only    *)
(* containers are held back (a short message is received in sequence,      *)
(* repeated or given up), and a getState was answered before the first     *)
(* event, if at all.                                                       *)
Has(kind) == \E i \in DOMAIN log : log[i].kind = kind

StateIsOld == base = 0 /\ stateRpc.phase # "asked" /\ stateRpc.params.seq = 0

Bound ==
    /\ Has("enc") \/ Has("own") => errors = 0
    /\ Has("enc") => ~Has("own") /\ StateIsOld /\ \A p \in updatesQueue : IsContainer(p)

=============================================================================
