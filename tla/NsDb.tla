------------------------------- MODULE NsDb --------------------------------
(***************************************************************************)
(* The namespace database of the parser (xmlParserNs*, parser.c) as the    *)
(* start tags, end tags and entities of a document use it: a stack of      *)
(* bindings, an open-addressing hash table from prefixes to the binding in *)
(* scope, and the element counter that tells redeclarations on one element *)
(* from shadowing.                                                         *)
(*                                                                         *)
(* Positions in the stack count from 1; 0 stands for INT_MAX, "none".  The *)
(* prefix "xml" never enters the database and is left out.                 *)
(***************************************************************************)
EXTENDS Integers, Sequences, FiniteSets

CONSTANTS
  NsPrefixes,      \* prefixes, the default namespace included
  NsDefault,       \* the default namespace: prefix NULL
  NsUris,          \* namespace names
  NsDecls,         \* the declarations documents make: pairs <<prefix, URI>>
  NsHashes,        \* hash functions: [NsPrefixes -> positive numbers]
  NsInitSize,      \* first size of the hash table (16)
  NsMaxElementId,  \* UINT_MAX
  NsMaxDepth       \* bound on open elements and entities

ASSUME NsAssumption ==
  /\ NsDefault \in NsPrefixes /\ NsDecls \subseteq NsPrefixes \X NsUris
  /\ NsInitSize \in Nat \ {0, 1} /\ NsMaxElementId \in Nat /\ NsMaxDepth \in Nat
  /\ \A h \in NsHashes : h \in [NsPrefixes -> Nat \ {0}]

VARIABLES
  nsTab,      \* ctxt->nsTab and nsdb->extra: the stack of bindings
  nsHash,     \* nsdb->hash: [0..hashSize-1 -> hashValue, index]
  nsElems,    \* nsdb->hashElems
  nsDefault,  \* nsdb->defaultNsIndex
  nsElement,  \* nsdb->elementId
  nsMin,      \* nsdb->minNsIndex
  nsOpen,     \* open elements (with their nsNr) and entities, innermost last
  nsTag,      \* the start tag being parsed: its nbNs, or -1 between tags
  nsFailed,   \* an allocation failed: the parser only cleans up
  nsClean,    \* XML_PARSE_NSCLEAN
  nsHashOf    \* the hash values of the prefixes

nsVars == <<nsTab, nsHash, nsElems, nsDefault, nsElement, nsMin, nsOpen, nsTag,
            nsFailed, nsClean, nsHashOf>>

nsConfig == <<nsClean, nsHashOf>>

-----------------------------------------------------------------------------
(* The hash table.                                                         *)

EmptyBucket == [hashValue |-> 0, index |-> 0]
HashSize == Cardinality(DOMAIN nsHash)
Probe(size, hv, k) == (hv + k) % size

Smallest(S) == CHOOSE k \in S : \A j \in S : k <= j

(* The bucket holds the binding of p that is in scope.                     *)
Holds(bucket, p) ==
  /\ bucket.hashValue = nsHashOf[p]
  /\ bucket.index # 0
  /\ nsTab[bucket.index].prefix = p

(* xmlParserNsLookup for a prefix that is not NULL: position in scope (0   *)
(* for INT_MAX) and bucket; the first tombstone or else the empty bucket   *)
(* when the prefix is not found.                                           *)
HashLookup(table, p) ==
  LET size == Cardinality(DOMAIN table)
      at(k) == Probe(size, nsHashOf[p], k)
      stop == Smallest({k \in 0..(size - 1) :
                table[at(k)].hashValue = 0 \/ Holds(table[at(k)], p)})
      tombstones == {k \in 0..(stop - 1) : table[at(k)].index = 0}
  IN  IF size = 0 THEN [index |-> 0, bucket |-> 0]
      ELSE [index |-> table[at(stop)].index,
            bucket |-> IF table[at(stop)].hashValue # 0 \/ tombstones = {}
                       THEN at(stop) ELSE at(Smallest(tombstones))]

xmlParserNsLookup(p) ==
  IF p = NsDefault THEN nsDefault ELSE HashLookup(nsHash, p).index

(* The first empty bucket of a table without tombstones.                   *)
FreeBucket(table, size, hv) ==
  Probe(size, hv, Smallest({k \in 0..(size - 1) :
                              table[Probe(size, hv, k)].hashValue = 0}))

(* The table of twice the size, without the tombstones.                    *)
Rehashed ==
  LET size == IF HashSize = 0 THEN NsInitSize ELSE 2 * HashSize
      empty == [i \in 0..(size - 1) |-> EmptyBucket]
      put(table, b) ==
        IF b.hashValue = 0 \/ b.index = 0 THEN table
        ELSE [table EXCEPT ![FreeBucket(table, size, b.hashValue)] = b]
      first[n \in 0..HashSize] ==
        IF n = 0 THEN empty ELSE put(first[n - 1], nsHash[n - 1])
  IN  first[HashSize]

(* Mutant: the table grows only when it is full.                           *)
NeedsGrowLate == nsElems + 1 > HashSize

NeedsGrow == nsElems + 1 > HashSize \div 2

-----------------------------------------------------------------------------
(* Start tags.                                                             *)

NsInit ==
  /\ nsTab = <<>> /\ nsHash = <<>> /\ nsElems = 0 /\ nsDefault = 0
  /\ nsElement = 0 /\ nsMin = 0 /\ nsOpen = <<>> /\ nsTag = -1
  /\ nsFailed = FALSE
  /\ nsClean \in BOOLEAN /\ nsHashOf \in NsHashes

Parsing == ~nsFailed /\ nsTag = -1 /\ Len(nsOpen) < NsMaxDepth

(* xmlParserNsStartElement, called first by xmlParseStartTag2.             *)
xmlParserNsStartElement ==
  /\ Parsing
  /\ IF nsElement = NsMaxElementId
     THEN nsFailed' = TRUE /\ UNCHANGED <<nsElement, nsTag>>
     ELSE nsElement' = nsElement + 1 /\ nsTag' = 0 /\ UNCHANGED nsFailed
  /\ UNCHANGED <<nsTab, nsHash, nsElems, nsDefault, nsMin, nsOpen, nsConfig>>

(* xmlParserNsReset with nsNr = 0, as xmlCtxtReset does; the hash table    *)
(* keeps its size.                                                         *)
Cleared ==
  /\ nsTab' = <<>> /\ nsElems' = 0 /\ nsElement' = 0 /\ nsDefault' = 0
  /\ nsHash' = [i \in DOMAIN nsHash |-> EmptyBucket]
  /\ nsOpen' = <<>> /\ nsFailed' = FALSE

AtTopLevel == nsTag = -1 /\ \A i \in 1..Len(nsOpen) : ~nsOpen[i].entity

(* Between two documents, or in the middle of a pushed one.                *)
xmlParserNsReset == AtTopLevel /\ Cleared /\ UNCHANGED <<nsMin, nsTag, nsConfig>>

(* xmlCtxtParseContent resets the context and declares the namespaces of   *)
(* the ancestors of a node, innermost first, all before the first element. *)
NsContext == AtTopLevel /\ Cleared /\ nsTag' = 0 /\ UNCHANGED <<nsMin, nsConfig>>

Binding(p, u, old) ==
  [prefix |-> p, uri |-> u, elementId |-> nsElement, old |-> old]

(* Mutant: a binding that shadows another does not remember it.            *)
PushedForgetful(p, u, old, moved) ==
  /\ nsTab' = Append(nsTab, Binding(p, u, 0))
  /\ nsTag' = nsTag + 1
  /\ nsDefault' = IF p = NsDefault THEN Len(nsTab) + 1 ELSE nsDefault
  /\ nsHash' = moved

(* populate_entry                                                          *)
Pushed(p, u, old, moved) ==
  /\ nsTab' = Append(nsTab, Binding(p, u, old))
  /\ nsTag' = nsTag + 1
  /\ nsDefault' = IF p = NsDefault THEN Len(nsTab) + 1 ELSE nsDefault
  /\ nsHash' = moved

Repeated(old) == old # 0 /\ nsTab[old].elementId = nsElement
Redundant(old, u) == old # 0 /\ nsClean /\ nsTab[old].uri = u

(* xmlParserNsPush: a declaration of the start tag.  It is ignored when    *)
(* the element has declared the prefix already (reported unless it comes   *)
(* from a default attribute), and under NSCLEAN when the binding in scope  *)
(* is the same.                                                            *)
PushIgnored(p, u) ==
  LET old == xmlParserNsLookup(p) IN
  /\ nsTag >= 0 /\ ~nsFailed
  /\ Repeated(old) \/ Redundant(old, u)
  /\ UNCHANGED <<nsTab, nsHash, nsElems, nsDefault, nsElement, nsMin, nsOpen,
                 nsTag, nsFailed, nsConfig>>

(* The prefix has a binding, which the new one shadows.                    *)
PushShadow(p, u) ==
  LET old == xmlParserNsLookup(p) IN
  /\ nsTag >= 0 /\ ~nsFailed
  /\ old # 0 \/ p = NsDefault
  /\ ~Repeated(old) /\ ~Redundant(old, u)
  /\ Pushed(p, u, old,
            IF p = NsDefault THEN nsHash
            ELSE [nsHash EXCEPT ![HashLookup(nsHash, p).bucket].index = Len(nsTab) + 1])
  /\ UNCHANGED <<nsElems, nsElement, nsMin, nsOpen, nsFailed, nsConfig>>

(* A new bucket, or the first tombstone of the probe sequence.  The table  *)
(* grows at 50% and is searched again.                                     *)
Inserted(p, table, bucket) ==
  LET b == IF table # nsHash
           THEN FreeBucket(table, Cardinality(DOMAIN table), nsHashOf[p])
           ELSE bucket
  IN  [table EXCEPT ![b] = [hashValue |-> nsHashOf[p], index |-> Len(nsTab) + 1]]

PushNew(p, u) ==
  /\ nsTag >= 0 /\ ~nsFailed
  /\ p # NsDefault /\ xmlParserNsLookup(p) = 0
  /\ Pushed(p, u, 0,
            Inserted(p, IF NeedsGrow THEN Rehashed ELSE nsHash, HashLookup(nsHash, p).bucket))
  /\ nsElems' = nsElems + 1
  /\ UNCHANGED <<nsElement, nsMin, nsOpen, nsFailed, nsConfig>>

(* An allocation of the tag fails.  Its bindings stay on the stack, as     *)
(* xmlParseElementStart returns without popping them.                      *)
NsTagFails ==
  /\ nsTag >= 0
  /\ nsTag' = -1 /\ nsFailed' = TRUE
  /\ UNCHANGED <<nsTab, nsHash, nsElems, nsDefault, nsElement, nsMin, nsOpen,
                 nsConfig>>

-----------------------------------------------------------------------------
(* xmlParserNsPop.                                                         *)

(* The table and the default after restoring the top nr bindings, topmost  *)
(* first.                                                                  *)
Restored(nr) ==
  LET step(st, b) ==
        IF b.prefix = NsDefault THEN [st EXCEPT !.default = b.old]
        ELSE [st EXCEPT !.hash[HashLookup(st.hash, b.prefix).bucket].index = b.old]
      undo[n \in 0..nr] ==
        IF n = 0 THEN [hash |-> nsHash, default |-> nsDefault]
        ELSE step(undo[n - 1], nsTab[Len(nsTab) - n + 1])
  IN  undo[nr]

xmlParserNsPop(nr) ==
  /\ nsHash' = Restored(nr).hash
  /\ nsDefault' = Restored(nr).default
  /\ nsTab' = SubSeq(nsTab, 1, Len(nsTab) - nr)

(* The start tag ends: the element is open, or it is empty or malformed    *)
(* and its bindings go at once.                                            *)
NsTagOpen ==
  /\ nsTag >= 0 /\ ~nsFailed
  /\ nsOpen' = Append(nsOpen, [entity |-> FALSE, n |-> nsTag])
  /\ nsTag' = -1
  /\ UNCHANGED <<nsTab, nsHash, nsElems, nsDefault, nsElement, nsMin, nsFailed,
                 nsConfig>>

NsTagEmpty ==
  /\ nsTag >= 0 /\ ~nsFailed
  /\ xmlParserNsPop(nsTag)
  /\ nsTag' = -1
  /\ UNCHANGED <<nsElems, nsElement, nsMin, nsOpen, nsFailed, nsConfig>>

Innermost == nsOpen[Len(nsOpen)]

(* xmlParseEndTag2, and the cleanup of xmlParseContentInternal.            *)
NsEndTag ==
  /\ nsTag = -1 /\ nsOpen # <<>> /\ ~Innermost.entity
  /\ xmlParserNsPop(Innermost.n)
  /\ nsOpen' = SubSeq(nsOpen, 1, Len(nsOpen) - 1)
  /\ UNCHANGED <<nsElems, nsElement, nsMin, nsTag, nsFailed, nsConfig>>

(* xmlCtxtParseEntity, when it builds a tree, hides the bindings outside   *)
(* of the entity.                                                          *)
NsEnterEntity ==
  /\ Parsing /\ nsOpen # <<>>
  /\ nsOpen' = Append(nsOpen, [entity |-> TRUE, n |-> nsMin])
  /\ nsMin' = Len(nsTab)
  /\ UNCHANGED <<nsTab, nsHash, nsElems, nsDefault, nsElement, nsTag, nsFailed,
                 nsConfig>>

NsLeaveEntity ==
  /\ nsTag = -1 /\ nsOpen # <<>> /\ Innermost.entity
  /\ nsMin' = Innermost.n
  /\ nsOpen' = SubSeq(nsOpen, 1, Len(nsOpen) - 1)
  /\ UNCHANGED <<nsTab, nsHash, nsElems, nsDefault, nsElement, nsTag, nsFailed,
                 nsConfig>>

NsNext ==
  \/ xmlParserNsStartElement \/ NsContext
  \/ \E d \in NsDecls :
       PushIgnored(d[1], d[2]) \/ PushShadow(d[1], d[2]) \/ PushNew(d[1], d[2])
  \/ NsTagFails \/ NsTagOpen \/ NsTagEmpty \/ NsEndTag
  \/ NsEnterEntity \/ NsLeaveEntity \/ xmlParserNsReset

NsSpec == NsInit /\ [][NsNext]_nsVars

-----------------------------------------------------------------------------
(* The hash table implements the index of bindings in scope.               *)
Index == INSTANCE NsIndex WITH
  bindings <- [i \in 1..Len(nsTab) |->
     [prefix |-> nsTab[i].prefix, uri |-> nsTab[i].uri, old |-> nsTab[i].old]],
  scope <- [p \in NsPrefixes |-> xmlParserNsLookup(p)]

(* Every declaration, redeclaration, end of a tag and reset changes the    *)
(* visible bindings exactly as on the abstract index, over growth, reused  *)
(* tombstones and probe sequences that wrap around (parser.c:1487-1845).   *)
ImplementsNsIndex == Index!IndexSpec

(* A lookup always meets an empty bucket: the buckets in use, tombstones   *)
(* included, are at most half of the table (parser.c:1737).                *)
NsProbesEnd ==
  LET used == {i \in DOMAIN nsHash : nsHash[i].hashValue # 0}
  IN  Cardinality(used) <= nsElems /\ 2 * nsElems <= HashSize
=============================================================================
