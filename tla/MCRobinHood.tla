---------------------------- MODULE MCRobinHood ----------------------------
(* A small table.                                                          *)
EXTENDS RobinHood, TLC

(* The keys are numbers, and their hash values ascend: a table with others *)
(* is one of these with its keys renamed.                                  *)
MCSortedHash == \A k, l \in Keys : k <= l => hash[k] <= hash[l]

(* A copy may have the same hash values, others, or all keys in one place. *)
MCReseeds == {[v \in HashValues |-> v], [v \in HashValues |-> 7 - v],
              [v \in HashValues |-> 3]}

(* A copier copies a payload, and has no copy of NULL.                     *)
MCCopiers == {[v \in Payloads |-> v]}
=============================================================================
