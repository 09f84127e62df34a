-------------------------------- MODULE Dict --------------------------------
(***************************************************************************)
(* Dictionaries (dict.c): interned strings, shared by reference counting   *)
(* between parser contexts, documents and hash tables of several threads,  *)
(* and chained: a dictionary may inherit the strings of another.           *)
(*                                                                         *)
(* The reference counter changes under xmlDictMutex, so that a change is   *)
(* one step.  The rest of xmlDictFree runs without the mutex: it is a      *)
(* stack of calls per thread, since xmlDictFree frees the inherited        *)
(* dictionary with a recursive call.  Lookups are single steps: the code   *)
(* leaves it to the application to serialise those of one dictionary.      *)
(***************************************************************************)
EXTENDS Integers, Sequences, FiniteSets

CONSTANTS
  Dicts,    \* addresses of dictionaries (reused after a free)
  Handles,  \* objects that can hold a reference: contexts, documents...
  DictThreads,
  Strings,  \* strings looked up
  NoDict      \* NULL

ASSUME DictAssumption ==
  /\ IsFiniteSet(Dicts) /\ IsFiniteSet(Handles)
  /\ NoDict \notin Dicts

VARIABLES
  alive,    \* allocated dictionaries
  ref,      \* ref_counter
  sub,      \* subdict
  strings,  \* the strings in the dictionary's own table
  dictOf,   \* the dictionary an object refers to
  freeing   \* per thread: calls of xmlDictFree past the decrement, innermost last

dictVars == <<alive, ref, sub, strings, dictOf, freeing>>

DictInit ==
  /\ alive = {}
  /\ ref = [d \in Dicts |-> 0]
  /\ sub = [d \in Dicts |-> NoDict]
  /\ strings = [d \in Dicts |-> {}]
  /\ dictOf = [h \in Handles |-> NoDict]
  /\ freeing = [t \in DictThreads |-> <<>>]

-----------------------------------------------------------------------------
(* xmlDictCreate, by the owner of h.                                       *)
xmlDictCreate(h, d) ==
  /\ dictOf[h] = NoDict
  /\ d \in Dicts \ alive
  /\ alive' = alive \cup {d}
  /\ ref' = [ref EXCEPT ![d] = 1]
  /\ sub' = [sub EXCEPT ![d] = NoDict]
  /\ strings' = [strings EXCEPT ![d] = {}]
  /\ dictOf' = [dictOf EXCEPT ![h] = d]
  /\ UNCHANGED freeing

(* Mutant: the inherited dictionary is not referenced.                     *)
CreateSubUnreferenced(h, d, g) ==
  /\ dictOf[h] = NoDict /\ dictOf[g] # NoDict
  /\ d \in Dicts \ alive
  /\ alive' = alive \cup {d}
  /\ ref' = [ref EXCEPT ![d] = 1]
  /\ sub' = [sub EXCEPT ![d] = dictOf[g]]
  /\ strings' = [strings EXCEPT ![d] = {}]
  /\ dictOf' = [dictOf EXCEPT ![h] = d]
  /\ UNCHANGED freeing

(* xmlDictCreateSub, from a dictionary that g refers to.                   *)
xmlDictCreateSub(h, d, g) ==
  /\ dictOf[h] = NoDict /\ dictOf[g] # NoDict
  /\ d \in Dicts \ alive
  /\ alive' = alive \cup {d}
  /\ ref' = [ref EXCEPT ![d] = 1, ![dictOf[g]] = @ + 1]
  /\ sub' = [sub EXCEPT ![d] = dictOf[g]]
  /\ strings' = [strings EXCEPT ![d] = {}]
  /\ dictOf' = [dictOf EXCEPT ![h] = d]
  /\ UNCHANGED freeing

(* xmlDictReference: h shares the dictionary of g.                         *)
xmlDictReference(h, g) ==
  /\ dictOf[h] = NoDict /\ dictOf[g] # NoDict
  /\ ref' = [ref EXCEPT ![dictOf[g]] = @ + 1]
  /\ dictOf' = [dictOf EXCEPT ![h] = dictOf[g]]
  /\ UNCHANGED <<alive, sub, strings, freeing>>

-----------------------------------------------------------------------------
(* Mutants: the counter is tested off by one, either way.                  *)
FreeDecrementEarly(t, h) ==
  LET d == dictOf[h]
  IN  /\ d # NoDict
      /\ freeing[t] = <<>>
      /\ dictOf' = [dictOf EXCEPT ![h] = NoDict]
      /\ ref' = [ref EXCEPT ![d] = @ - 1]
      /\ freeing' = [freeing EXCEPT ![t] = IF ref[d] - 1 > 1 THEN <<>> ELSE <<d>>]
      /\ UNCHANGED <<alive, sub, strings>>

FreeDecrementLate(t, h) ==
  LET d == dictOf[h]
  IN  /\ d # NoDict
      /\ freeing[t] = <<>>
      /\ dictOf' = [dictOf EXCEPT ![h] = NoDict]
      /\ ref' = [ref EXCEPT ![d] = @ - 1]
      /\ freeing' = [freeing EXCEPT ![t] = IF ref[d] > 0 THEN <<>> ELSE <<d>>]
      /\ UNCHANGED <<alive, sub, strings>>

(* xmlDictFree up to the unlock: the decrement and the test of the counter *)
(* are one critical section.                                               *)
FreeDecrement(t, h) ==
  LET d == dictOf[h]
  IN  /\ d # NoDict
      /\ freeing[t] = <<>>
      /\ dictOf' = [dictOf EXCEPT ![h] = NoDict]
      /\ ref' = [ref EXCEPT ![d] = @ - 1]
      /\ freeing' = [freeing EXCEPT ![t] = IF ref[d] - 1 > 0 THEN <<>> ELSE <<d>>]
      /\ UNCHANGED <<alive, sub, strings>>

(* The dictionary of the innermost call.                                   *)
TopCall(t) == freeing[t][Len(freeing[t])]

(* Mutant: the pointer to the inherited dictionary stays behind.           *)
FreeSubAgain(t) ==
  LET s == sub[TopCall(t)]
  IN  /\ freeing[t] # <<>> /\ s # NoDict
      /\ ref' = [ref EXCEPT ![s] = @ - 1]
      /\ UNCHANGED <<alive, sub, strings, dictOf, freeing>>

(* The recursive call for the inherited dictionary, up to its unlock.  The *)
(* field is cleared here to record that the call was made.                 *)
FreeSub(t) ==
  LET s == sub[TopCall(t)]
  IN  /\ freeing[t] # <<>> /\ s # NoDict
      /\ sub' = [sub EXCEPT ![TopCall(t)] = NoDict]
      /\ ref' = [ref EXCEPT ![s] = @ - 1]
      /\ freeing' = [freeing EXCEPT ![t] = IF ref[s] - 1 > 0 THEN @ ELSE Append(@, s)]
      /\ UNCHANGED <<alive, strings, dictOf>>

(* Table, pools and the dictionary itself are freed.                       *)
FreeMemory(t) ==
  /\ freeing[t] # <<>> /\ sub[TopCall(t)] = NoDict
  /\ alive' = alive \ {TopCall(t)}
  /\ freeing' = [freeing EXCEPT ![t] = SubSeq(@, 1, Len(@) - 1)]
  /\ UNCHANGED <<ref, sub, strings, dictOf>>

-----------------------------------------------------------------------------
(* Mutant: the inherited strings are searched first.                       *)
OwnerSubFirst(d, s) ==
  IF sub[d] # NoDict /\ s \in strings[sub[d]] THEN sub[d]
  ELSE IF s \in strings[d] THEN d ELSE NoDict

(* The dictionary whose copy of the string a lookup returns: its own, then *)
(* the inherited one's, one level deep.                                    *)
Owner(d, s) ==
  IF s \in strings[d] THEN d
  ELSE IF sub[d] # NoDict /\ s \in strings[sub[d]] THEN sub[d] ELSE NoDict

(* xmlDictLookup: a string that is not found is added.  A failed           *)
(* allocation or the size limit changes nothing.                           *)
xmlDictLookup(h, s) ==
  LET d == dictOf[h]
  IN  /\ d # NoDict
      /\ Owner(d, s) = NoDict
      /\ strings' = [strings EXCEPT ![d] = @ \cup {s}]
      /\ UNCHANGED <<alive, ref, sub, dictOf, freeing>>

DictNext ==
  \/ \E h \in Handles, d \in Dicts : xmlDictCreate(h, d)
  \/ \E h, g \in Handles, d \in Dicts : xmlDictCreateSub(h, d, g)
  \/ \E h, g \in Handles : xmlDictReference(h, g)
  \/ \E h \in Handles, s \in Strings : xmlDictLookup(h, s)
  \/ \E t \in DictThreads, h \in Handles : FreeDecrement(t, h)
  \/ \E t \in DictThreads : FreeSub(t) \/ FreeMemory(t)

(* A call of xmlDictFree runs to its end.                                  *)
DictFairness == \A t \in DictThreads : WF_dictVars(FreeSub(t) \/ FreeMemory(t))

DictSpec == DictInit /\ [][DictNext]_dictVars /\ DictFairness

-----------------------------------------------------------------------------
(* The fields have their types.                                            *)
DictTypeOK ==
  /\ alive \subseteq Dicts
  /\ ref \in [Dicts -> Nat]
  /\ sub \in [Dicts -> Dicts \cup {NoDict}]
  /\ strings \in [Dicts -> SUBSET Strings]
  /\ dictOf \in [Handles -> Dicts \cup {NoDict}]
  /\ freeing \in [DictThreads -> Seq(Dicts)]

HandlesOf(d) == {h \in Handles : dictOf[h] = d}
Heirs(d) == {c \in alive : sub[c] = d}

(* The reference counter is the number of objects and of dictionaries that *)
(* refer to the dictionary (dict.c:252-349).                               *)
RefCountExact ==
  \A d \in alive : ref[d] = Cardinality(HandlesOf(d)) + Cardinality(Heirs(d))

(* Nobody can reach freed memory: what an object, a dictionary or a        *)
(* running xmlDictFree refers to is allocated (dict.c:319-349).            *)
NoDangling ==
  /\ \A h \in Handles : dictOf[h] \in alive \cup {NoDict}
  /\ \A d \in alive : sub[d] \in alive \cup {NoDict}
  /\ \A t \in DictThreads : \A i \in 1..Len(freeing[t]) : freeing[t][i] \in alive

(* A dictionary is freed by one call only, and nothing refers to it then   *)
(* (dict.c:319-349).                                                       *)
FreedOnce ==
  \A t, u \in DictThreads :
    \A i \in 1..Len(freeing[t]), j \in 1..Len(freeing[u]) :
      /\ freeing[t][i] = freeing[u][j] => t = u /\ i = j
      /\ ref[freeing[t][i]] = 0

(* Interning: once a lookup of a string in a dictionary gave a copy, it    *)
(* gives the same copy as long as the dictionary is in use, whatever is    *)
(* added to the inherited one; the code compares such strings by address   *)
(* (dict.c:666-802).                                                       *)
InternStable ==
  [][\A d \in alive : \A s \in Strings :
       (\E h \in Handles : dictOf[h] = d /\ dictOf'[h] = d) /\ Owner(d, s) # NoDict
         => Owner(d, s)' = Owner(d, s)]_dictVars

(* When no object refers to a dictionary any more, all of them are freed,  *)
(* chains of inherited ones too.                                           *)
NoLeak ==
  (\A h \in Handles : dictOf[h] = NoDict)
    ~> (alive = {} \/ \E h \in Handles : dictOf[h] # NoDict)

=============================================================================
