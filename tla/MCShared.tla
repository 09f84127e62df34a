------------------------------ MODULE MCShared ------------------------------
(***************************************************************************)
(* What the threads of a program share: the re-entrant mutex of the        *)
(* library, the dictionaries, and the list that parser contexts keep their *)
(* error deduplication in.  They do not touch each other's state, so a     *)
(* behaviour exercises the one that `part` names and the others stay idle. *)
(***************************************************************************)
EXTENDS RMutex, Dict, MCErrorRing

VARIABLE part

MCInit ==
  part \in {"rmutex", "dict", "errors"} /\ Init /\ DictInit /\ RingInit

MCNext ==
  \/ part = "rmutex" /\ Next /\ UNCHANGED <<part, dictVars, ringVars>>
  \/ part = "dict" /\ DictNext /\ UNCHANGED <<part, vars, ringVars>>
  \/ part = "errors" /\ RingNext /\ UNCHANGED <<part, vars, dictVars>>

MCSpec == MCInit /\ [][MCNext]_<<part, vars, dictVars, ringVars>> /\ Fairness /\ DictFairness
=============================================================================
