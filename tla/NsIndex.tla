------------------------------ MODULE NsIndex ------------------------------
(***************************************************************************)
(* What the namespace database of the parser promises: a stack of bindings *)
(* and, for every prefix, the position of the binding in scope.  A binding *)
(* remembers the position it shadows, so that popping restores the index.  *)
(* NsDb implements this index with a hash table (parser.c).                *)
(***************************************************************************)
EXTENDS Naturals, Sequences

CONSTANTS NsPrefixes, NsUris

VARIABLES bindings,  \* the stack: prefix, URI and shadowed position (0: none)
          scope      \* per prefix: position of the binding in scope, or 0

indexVars == <<bindings, scope>>

IndexInit == bindings = <<>> /\ scope = [p \in NsPrefixes |-> 0]

Declare(p, u) ==
  /\ bindings' = Append(bindings, [prefix |-> p, uri |-> u, old |-> scope[p]])
  /\ scope' = [scope EXCEPT ![p] = Len(bindings) + 1]

(* The lowest binding of p above position n.                               *)
LowestAbove(p, n) ==
  CHOOSE i \in (n + 1)..Len(bindings) :
    bindings[i].prefix = p /\ \A j \in (n + 1)..(i - 1) : bindings[j].prefix # p

(* The bindings above position n go; a prefix bound among them gets back   *)
(* what the lowest of its bindings above n shadowed.                       *)
Close(n) ==
  /\ n < Len(bindings)
  /\ bindings' = SubSeq(bindings, 1, n)
  /\ scope' = [p \in NsPrefixes |->
       IF \E i \in (n + 1)..Len(bindings) : bindings[i].prefix = p
       THEN bindings[LowestAbove(p, n)].old
       ELSE scope[p]]

IndexReset == bindings' = <<>> /\ scope' = [p \in NsPrefixes |-> 0]

IndexNext ==
  \/ \E p \in NsPrefixes, u \in NsUris : Declare(p, u)
  \/ \E n \in 0..Len(bindings) : Close(n)
  \/ IndexReset

IndexSpec == IndexInit /\ [][IndexNext]_indexVars

-----------------------------------------------------------------------------
(* k is the position of the last binding of p among the first n, or 0.     *)
IsLast(p, n, k) ==
  /\ k \in 0..n
  /\ k > 0 => bindings[k].prefix = p
  /\ \A j \in (k + 1)..n : bindings[j].prefix # p

(* A prefix resolves to its innermost declaration: the index points to the *)
(* last binding of the prefix, whatever was declared, redeclared and       *)
(* closed before (xmlParserNsPush, xmlParserNsPop).                        *)
Innermost == \A p \in NsPrefixes : IsLast(p, Len(bindings), scope[p])

(* Each binding remembers the binding it shadows.                          *)
Shadowed ==
  \A i \in 1..Len(bindings) : IsLast(bindings[i].prefix, i - 1, bindings[i].old)

IndexType ==
  /\ bindings \in Seq([prefix : NsPrefixes, uri : NsUris, old : Nat])
  /\ scope \in [NsPrefixes -> Nat]

IndexInv == IndexType /\ Innermost /\ Shadowed
=============================================================================
