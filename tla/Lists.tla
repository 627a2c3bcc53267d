-------------------------------- MODULE Lists --------------------------------
(***************************************************************************)
(* Lists without repetitions, as ArrayList and LinkedList are used for     *)
(* observers and operations: what is added is not there yet, and of what is*)
(* removed there is one.                                                   *)
(***************************************************************************)
EXTENDS Integers, Sequences, SequencesExt

(* No element is there twice.                                              *)
Distinct(list) == \A i, j \in DOMAIN list : list[i] = list[j] => i = j

(* remove(o), of the first that there is.                                  *)
Removed(list, o) ==
    IF o \in ToSet(list) THEN RemoveAt(list, CHOOSE i \in DOMAIN list : list[i] = o) ELSE list

=============================================================================
