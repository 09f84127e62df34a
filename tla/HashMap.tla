------------------------------ MODULE HashMap ------------------------------
(***************************************************************************)
(* What an xmlHashTable promises (hash.h): a finite map from keys to       *)
(* payloads.  A call fails without an effect when memory is short.         *)
(***************************************************************************)
CONSTANTS Keys, Payloads

VARIABLE map

Init == map = <<>>

Put(k, v) == map' = [j \in DOMAIN map \cup {k} |-> IF j = k THEN v ELSE map[j]]

Add(k, v) == k \notin DOMAIN map /\ Put(k, v)
Update(k, v) == Put(k, v)
Remove(k) == k \in DOMAIN map /\ map' = [j \in DOMAIN map \ {k} |-> map[j]]
Free == map' = <<>>

Next ==
  \/ \E k \in Keys, v \in Payloads : Add(k, v) \/ Update(k, v)
  \/ \E k \in Keys : Remove(k)
  \/ Free

Spec == Init /\ [][Next]_map
=============================================================================
