--------------------------- MODULE Content_proofs ---------------------------
(***************************************************************************)
(* Proofs about elements on their way into the tree and out of the writer. *)
(*                                                                         *)
(* The start tag, for any attributes, defaults and namespaces in scope:    *)
(* when all prefixes are declared, the search by expanded name, followed   *)
(* by one by qualified name when two attributes or more collided, finds    *)
(* every name that is specified twice, and what is delivered without an    *)
(* error has different expanded names.                                     *)
(*                                                                         *)
(* The tree builder, for any entities, text and nesting: the cache that    *)
(* text is appended through is right whenever the last child of the        *)
(* current node is a text.  The values saved for an entity are right for   *)
(* the node with the reference, whose last child nobody changes meanwhile, *)
(* and every other open node ends in an element.                           *)
(*                                                                         *)
(* The namespaces, for any prefixes, names and nesting: the index of the   *)
(* bindings resolves every prefix to its innermost declaration.            *)
(*                                                                         *)
(* The writer, for any names, prefixes, URIs and sequences of calls: the   *)
(* invariant relates the stack of nodes to the output through WrOpened, a  *)
(* recursive function over the stack.  Each call is taken apart into       *)
(* operations on the front node, for which At describes the writer field   *)
(* by field; the loops over declarations and over the nodes of a DTD are   *)
(* recursive functions and are followed by induction.                      *)
(***************************************************************************)
EXTENDS NsIndex, StartTag, Sax2, Writer, Induction, FiniteSetTheorems, SequenceTheorems, TLAPS

-----------------------------------------------------------------------------
(* The tag does not change; what is reported was computed from it.         *)
TagInv ==
  /\ stTag \in StTags
  /\ stStep = "reported" =>
       /\ stErrors = TagErrors
       /\ stAtts = IF "redefined" \in TagErrors THEN <<>> ELSE Specified \o AddedSeq

(* The attributes and the defaults of a tag are sequences.                 *)
LEMMA TagSequences ==
  ASSUME stTag \in StTags
  PROVE  /\ Len(Specified) \in Nat /\ DOMAIN Specified = 1..Len(Specified)
         /\ Len(Defaults) \in Nat /\ DOMAIN Defaults = 1..Len(Defaults)
         /\ Specified \in Seq({Specified[i] : i \in DOMAIN Specified})
<1> DEFINE A == {Specified[i] : i \in DOMAIN Specified}
           D == {Defaults[k] : k \in DOMAIN Defaults}
<1>1. Specified \in Seq(A) /\ Defaults \in Seq(D)
  BY StAssumption DEF Specified, Defaults
<1> HIDE DEF A, D
<1>2. /\ Len(Specified) \in Nat /\ DOMAIN Specified = 1..Len(Specified)
      /\ Len(Defaults) \in Nat /\ DOMAIN Defaults = 1..Len(Defaults)
  BY <1>1
<1> QED BY <1>1, <1>2 DEF A

(* The attribute that is found is the one inserted first.                  *)
LEMMA FirstIs ==
  ASSUME NEW S, S \subseteq Nat, S # {}
  PROVE  First(S) \in S /\ \A j \in S : First(S) <= j
BY LeastNat DEF First

(* Without undeclared prefixes, the table holds all attributes.            *)
LEMMA AllHashed ==
  ASSUME stTag \in StTags, AllDeclared
  PROVE  /\ Hashed = 1..Len(Specified)
         /\ \A i \in 1..Len(Specified) :
              Earlier(i) = {j \in 1..Len(Specified) : j < i /\ SameName(Specified[i], Specified[j])}
         /\ \A i \in 1..Len(Specified) : Earlier(i) \subseteq Nat
<1>1. Len(Specified) \in Nat
  BY TagSequences
<1>2. Hashed = 1..Len(Specified)
  BY DEF Hashed, AllDeclared
<1> QED BY <1>1, <1>2 DEF Earlier

(* A qualified name has one expanded name.                                 *)
LEMMA SameQNameSame ==
  ASSUME NEW a, NEW b, SameQName(a, b)
  PROVE  SameName(a, b) /\ SameName(b, a)
BY DEF SameQName, SameName, Uri

(* A finite set with two members has a cardinality above 1.                *)
LEMMA TwoElements ==
  ASSUME NEW S, IsFiniteSet(S), NEW i \in S, NEW j \in S, i # j
  PROVE  Cardinality(S) > 1
<1>1. IsFiniteSet({i}) /\ Cardinality({i}) = 1
  BY FS_Singleton
<1>2. Cardinality({i} \cup {j}) = 2 /\ IsFiniteSet({i} \cup {j})
  BY <1>1, FS_AddElement
<1>3. Cardinality({i} \cup {j}) <= Cardinality(S)
  BY FS_Subset
<1>4. Cardinality(S) \in Nat
  BY FS_CardinalityType
<1> QED BY <1>2, <1>3, <1>4

(* A name that is specified twice is found: in the table, or, when the     *)
(* first attribute there is another one with that expanded name, by the    *)
(* search for qualified names.                                             *)
LEMMA TwiceFound ==
  ASSUME stTag \in StTags, AllDeclared,
         NEW i \in 1..Len(Specified), NEW j \in 1..Len(Specified), i < j,
         SameQName(Specified[i], Specified[j])
  PROVE  Duplicates \cup QNameDuplicates # {}
<1>0. Len(Specified) \in Nat
  BY TagSequences
<1>1. i \in Earlier(j)
  BY AllHashed, SameQNameSame
<1>2. j \in Collisions
  BY <1>1, AllHashed DEF Collisions
<1> DEFINE k == First(Earlier(j))
<1>3. k \in Earlier(j) /\ k <= i
  BY <1>1, AllHashed, FirstIs
<1>4. k \in 1..Len(Specified) /\ SameName(Specified[j], Specified[k])
  BY <1>3, AllHashed
<1>5. CASE Specified[k].prefix = Specified[j].prefix
  <2>1. j \in Duplicates
    BY <1>2, <1>5 DEF Duplicates
  <2> QED BY <2>1
<1>6. CASE Specified[k].prefix # Specified[j].prefix
  <2> HIDE DEF k
  <2>0. Specified[i].prefix = Specified[j].prefix /\ Specified[i].name = Specified[j].name
    BY DEF SameQName
  <2>1. k # i /\ k < i
    BY <1>0, <1>3, <1>4, <1>6, <2>0
  <2>2. SameName(Specified[i], Specified[k])
    BY <1>4, <2>0 DEF SameName, Uri
  <2>3. i \in Collisions
    BY <1>4, <2>1, <2>2, AllHashed DEF Collisions
  <2>4. Collisions \subseteq 1..Len(Specified)
    BY AllHashed DEF Collisions
  <2>5. IsFiniteSet(Collisions)
    <3>1. IsFiniteSet(1..Len(Specified))
      BY <1>0, FS_Interval
    <3> QED BY <2>4, <3>1, FS_Subset
  <2>6. Cardinality(Collisions) > 1
    <3>1. i # j
      BY <1>0
    <3> QED BY <1>2, <2>3, <2>5, <3>1, TwoElements
  <2>7. Specified[j].prefix # StNoPrefix
    <3> SUFFICES ASSUME Specified[j].prefix = StNoPrefix PROVE FALSE
      OBVIOUS
    <3>1. Uri(Specified[k]) = StNoUri
      BY <1>4 DEF SameName, Uri
    <3>2. Undeclared(Specified[k])
      BY <1>6, <3>1 DEF Undeclared
    <3> QED BY <1>4, <3>2 DEF AllDeclared
  <2>8. i \in 1..(j - 1) /\ SameQName(Specified[j], Specified[i])
    BY <1>0, <2>0 DEF SameQName
  <2>9. CASE Duplicates # {}
    BY <2>9
  <2>10. CASE Duplicates = {}
    <3>1. j \in QNameDuplicates
      BY <2>6, <2>7, <2>8, <2>10 DEF QNameDuplicates
    <3> QED BY <3>1
  <2> QED BY <2>9, <2>10
<1> QED BY <1>5, <1>6

(* What the searches find is specified twice.                              *)
LEMMA FoundTwice ==
  ASSUME stTag \in StTags, AllDeclared, NEW i \in Duplicates \cup QNameDuplicates
  PROVE  ~Unique(Specified)
<1>0. Len(Specified) \in Nat
  BY TagSequences
<1> SUFFICES \E m, j \in 1..Len(Specified) : SameQName(Specified[m], Specified[j]) /\ m # j
  BY DEF Unique
<1>1. CASE i \in Duplicates
  <2>1. i \in 1..Len(Specified) /\ Earlier(i) # {}
        /\ Specified[First(Earlier(i))].prefix = Specified[i].prefix
    BY <1>1, AllHashed DEF Duplicates, Collisions
  <2>2. First(Earlier(i)) \in Earlier(i)
    BY <2>1, AllHashed, FirstIs
  <2>3. PICK j \in 1..Len(Specified) : j = First(Earlier(i)) /\ j < i
                                       /\ SameName(Specified[i], Specified[j])
    BY <2>1, <2>2, AllHashed
  <2>4. SameQName(Specified[i], Specified[j]) /\ i # j
    BY <1>0, <2>1, <2>3 DEF SameName, SameQName
  <2> QED BY <2>1, <2>4
<1>2. CASE i \in QNameDuplicates
  <2>1. i \in 1..Len(Specified) /\ \E j \in 1..(i - 1) : SameQName(Specified[i], Specified[j])
    BY <1>2 DEF QNameDuplicates
  <2>2. PICK j \in 1..(i - 1) : SameQName(Specified[i], Specified[j])
    BY <2>1
  <2>3. j \in 1..Len(Specified) /\ i # j
    BY <1>0, <2>1
  <2> QED BY <2>1, <2>2, <2>3
<1> QED BY <1>1, <1>2

(* The tag is refused exactly if a qualified name is specified twice.      *)
LEMMA RefusedIffTwice ==
  ASSUME stTag \in StTags, AllDeclared
  PROVE  ("redefined" \in TagErrors) = ~Unique(Specified)
<1>0. Len(Specified) \in Nat
  BY TagSequences
<1>1. "redefined" \in TagErrors <=> Duplicates \cup QNameDuplicates # {}
  BY DEF TagErrors
<1>2. ASSUME ~Unique(Specified) PROVE Duplicates \cup QNameDuplicates # {}
  <2>1. PICK i \in 1..Len(Specified), j \in 1..Len(Specified) :
          SameQName(Specified[i], Specified[j]) /\ i # j
    BY <1>2 DEF Unique
  <2>2. SameQName(Specified[j], Specified[i])
    BY <2>1 DEF SameQName
  <2>3. i < j \/ j < i
    BY <1>0, <2>1
  <2> QED BY <2>1, <2>2, <2>3, TwiceFound
<1>3. ASSUME Duplicates \cup QNameDuplicates # {} PROVE ~Unique(Specified)
  BY <1>3, FoundTwice
<1>4. ("redefined" \in TagErrors) \in BOOLEAN /\ Unique(Specified) \in BOOLEAN
  BY DEF Unique, TagErrors
<1> QED BY <1>1, <1>2, <1>3, <1>4

(* The place of k in the order of S.                                       *)
Rank(S, k) == Cardinality({j \in S : j <= k})

(* Every rank up to the cardinality belongs to a member.                   *)
LEMMA RankTaken ==
  ASSUME NEW N \in Nat, NEW S \in SUBSET (1..N), NEW r \in 1..Cardinality(S)
  PROVE  \E k \in S : Rank(S, k) = r
<1> DEFINE Upto(m) == {j \in S : j <= m}
           P == {m \in Nat : \A n \in 1..Cardinality(Upto(m)) : \E k \in S : Rank(S, k) = n}
<1>0. \A j \in S : j \in Nat /\ 1 <= j /\ j <= N
  OBVIOUS
<1>1. \A m \in Nat : IsFiniteSet(Upto(m)) /\ Cardinality(Upto(m)) \in Nat
  <2>1. IsFiniteSet(S)
    <3>1. IsFiniteSet(1..N)
      BY FS_Interval
    <3> QED BY <3>1, FS_Subset
  <2> QED BY <2>1, FS_Subset, FS_CardinalityType
<1>2. 0 \in P
  <2>1. Upto(0) = {}
    <3>1. \A j \in S : ~(j <= 0)
      BY <1>0
    <3> QED BY <3>1, Zenon
  <2>2. Cardinality(Upto(0)) = 0
    BY <2>1, FS_EmptySet
  <2> QED BY <2>2
<1>3. ASSUME NEW m \in Nat, m \in P PROVE m + 1 \in P
  <2>1. CASE m + 1 \notin S
    <3>1. Upto(m + 1) = Upto(m)
      <4>1. \A j \in S : j # m + 1
        BY <2>1
      <4>2. \A j \in S : j <= m + 1 <=> j <= m
        BY <1>0, <4>1
      <4> QED BY <4>2, Zenon
    <3> QED BY <1>3, <3>1
  <2>2. CASE m + 1 \in S
    <3>1. Upto(m + 1) = Upto(m) \cup {m + 1} /\ m + 1 \notin Upto(m)
      <4>1. \A j \in S : j <= m + 1 <=> (j <= m \/ j = m + 1)
        BY <1>0
      <4>2. ~(m + 1 <= m)
        OBVIOUS
      <4> QED BY <2>2, <4>1, <4>2, Zenon
    <3> HIDE DEF Upto
    <3>2. Cardinality(Upto(m + 1)) = Cardinality(Upto(m)) + 1
      BY <1>1, <3>1, FS_AddElement
    <3>3. Rank(S, m + 1) = Cardinality(Upto(m + 1))
      BY DEF Rank, Upto
    <3>4. ASSUME NEW n \in 1..Cardinality(Upto(m + 1)) PROVE \E k \in S : Rank(S, k) = n
      <4>1. CASE n = Cardinality(Upto(m + 1))
        BY <2>2, <3>3, <4>1
      <4>2. CASE n # Cardinality(Upto(m + 1))
        <5>1. n \in 1..Cardinality(Upto(m))
          BY <1>1, <3>2, <4>2
        <5> QED BY <1>3, <5>1
      <4> QED BY <4>1, <4>2
    <3> QED BY <3>4
  <2> QED BY <2>1, <2>2
<1>4. N \in P
  <2> HIDE DEF P
  <2> QED BY <1>2, <1>3, Induct
<1>5. Upto(N) = S
  BY <1>0
<1> QED BY <1>4, <1>5

(* The defaults added are taken from different places.                     *)
LEMMA AddedPlaces ==
  ASSUME stTag \in StTags
  PROVE  /\ Cardinality(Added) \in Nat
         /\ Len(AddedSeq) = Cardinality(Added) /\ DOMAIN AddedSeq = 1..Len(AddedSeq)
         /\ \A n \in 1..Len(AddedSeq) :
              \E k \in Added : AddedSeq[n] = Defaults[k] /\ Rank(Added, k) = n
<1>0. Len(Defaults) \in Nat
  BY TagSequences
<1>1. Added \in SUBSET (1..Len(Defaults))
  BY DEF Added
<1>2. IsFiniteSet(1..Len(Defaults))
  BY <1>0, FS_Interval
<1>3. IsFiniteSet(Added)
  BY <1>1, <1>2, FS_Subset
<1>4. Cardinality(Added) \in Nat
  BY <1>3, FS_CardinalityType
<1>5. Len(AddedSeq) = Cardinality(Added) /\ DOMAIN AddedSeq = 1..Cardinality(Added)
  <2> DEFINE N == Cardinality(Added)
             At(n) == Defaults[CHOOSE k \in Added : Cardinality({j \in Added : j <= k}) = n]
  <2>1. N \in Nat /\ AddedSeq = [n \in 1..N |-> At(n)]
    BY <1>4 DEF AddedSeq
  <2> HIDE DEF N, At
  <2>2. DOMAIN AddedSeq = 1..N
    BY <2>1
  <2>3. Len(AddedSeq) = N
    BY <2>1
  <2> QED BY <2>2, <2>3 DEF N
<1>6. ASSUME NEW n \in 1..Cardinality(Added)
      PROVE \E k \in Added : AddedSeq[n] = Defaults[k] /\ Rank(Added, k) = n
  <2> DEFINE k == CHOOSE x \in Added : Rank(Added, x) = n
  <2>1. AddedSeq[n] = Defaults[k]
    BY DEF AddedSeq, Rank
  <2>2. k \in Added /\ Rank(Added, k) = n
    BY <1>0, <1>1, RankTaken
  <2> QED BY <2>1, <2>2
<1> QED BY <1>4, <1>5, <1>6

(* Without an error, no expanded name is taken twice: not by two of the    *)
(* attributes specified, not by one of them and a default, ...             *)
LEMMA SpecifiedDiffer ==
  ASSUME stTag \in StTags, AllDeclared, TagErrors = {},
         NEW i \in 1..Len(Specified), NEW j \in 1..Len(Specified), i < j
  PROVE  ~SameName(Specified[i], Specified[j]) /\ ~SameName(Specified[j], Specified[i])
<1>1. Duplicates \cup QNameDuplicates = {} /\ Collisions \ Duplicates = {}
  BY Zenon DEF TagErrors
<1>2. j \notin Collisions
  BY <1>1
<1>3. Earlier(j) = {}
  BY <1>2, AllHashed DEF Collisions
<1>4. ~SameName(Specified[j], Specified[i])
  BY <1>3, AllHashed
<1> QED BY <1>4 DEF SameName

(* Without an error, a default that is added was not found in the table.   *)
LEMMA NoneRedefined ==
  ASSUME TagErrors = {}, NEW k \in Added, Searched
  PROVE  SameAs(k) = {} /\ SameDefault(k) = {}
<1>1. ~Redefined(k)
  BY Zenon DEF TagErrors
<1> QED BY <1>1 DEF Redefined, Added

(* An attribute that is specified and a default that is added have         *)
(* different expanded names.                                               *)
LEMMA DefaultsDiffer ==
  ASSUME stTag \in StTags, AllDeclared, TagErrors = {},
         NEW i \in 1..Len(Specified), NEW k \in Added
  PROVE  ~SameName(Specified[i], Defaults[k]) /\ ~SameName(Defaults[k], Specified[i])
<1>0. Len(Specified) \in Nat /\ Len(Defaults) \in Nat /\ k \in 1..Len(Defaults)
  BY TagSequences DEF Added
<1>1. Searched
  BY <1>0 DEF Searched
<1>2. i \notin SameAs(k)
  BY <1>1, NoneRedefined
<1>3. ~SameName(Specified[i], Defaults[k])
  BY <1>2, AllHashed DEF SameAs
<1> QED BY <1>3 DEF SameName

(* ... and not by two defaults.                                            *)
LEMMA AddedDiffer ==
  ASSUME stTag \in StTags, TagErrors = {}, NEW k \in Added, NEW l \in Added, l < k
  PROVE  ~SameName(Defaults[l], Defaults[k]) /\ ~SameName(Defaults[k], Defaults[l])
<1>0. /\ Len(Specified) \in Nat /\ Len(Defaults) \in Nat
      /\ k \in 1..Len(Defaults) /\ l \in 1..Len(Defaults)
  BY TagSequences DEF Added
<1>1. Searched
  BY <1>0 DEF Searched
<1>2. l \notin SameDefault(k)
  BY <1>1, NoneRedefined
<1>3. ~SameName(Defaults[l], Defaults[k])
  BY <1>0, <1>2 DEF SameDefault
<1> QED BY <1>3 DEF SameName

(* All attributes that are delivered have different expanded names.        *)
LEMMA DeliveredDiffer ==
  ASSUME stTag \in StTags, AllDeclared, TagErrors = {}
  PROVE  LET atts == Specified \o AddedSeq IN
         \A i, j \in 1..Len(atts) : SameName(atts[i], atts[j]) => i = j
<1> DEFINE m == Len(Specified)
           a == Len(AddedSeq)
           atts == Specified \o AddedSeq
<1>0. m \in Nat /\ a \in Nat
  BY TagSequences, AddedPlaces
<1>1. /\ Len(atts) = m + a
      /\ \A i \in 1..m : atts[i] = Specified[i]
      /\ \A i \in (m + 1)..(m + a) : i - m \in 1..a /\ atts[i] = AddedSeq[i - m]
  <2>1. Len(atts) = m + a
    BY <1>0
  <2>2. \A i \in 1..m : atts[i] = Specified[i]
    BY <1>0
  <2>3. \A i \in (m + 1)..(m + a) : i - m \in 1..a
    BY <1>0
  <2>4. \A i \in (m + 1)..(m + a) : atts[i] = AddedSeq[i - m]
    BY <1>0
  <2> QED BY <2>1, <2>2, <2>3, <2>4
<1> HIDE DEF atts
<1>2. ASSUME NEW i \in 1..Len(atts), NEW j \in 1..Len(atts), i < j
      PROVE  ~SameName(atts[i], atts[j]) /\ ~SameName(atts[j], atts[i])
  <2>1. CASE j <= m
    <3>1. i \in 1..m /\ j \in 1..m
      BY <1>0, <1>1, <1>2, <2>1
    <3> QED BY <1>1, <1>2, <3>1, SpecifiedDiffer
  <2>2. CASE i <= m /\ j > m
    <3>1. i \in 1..m /\ j \in (m + 1)..(m + a)
      BY <1>0, <1>1, <2>2
    <3>2. PICK k \in Added : atts[j] = Defaults[k]
      BY <1>1, <3>1, AddedPlaces, SMTT(60)
    <3>3. atts[i] = Specified[i]
      BY <1>1, <3>1
    <3> QED BY <3>1, <3>2, <3>3, DefaultsDiffer
  <2>3. CASE i > m
    <3>1. i \in (m + 1)..(m + a) /\ j \in (m + 1)..(m + a)
      BY <1>0, <1>1, <1>2, <2>3
    <3>2. PICK l \in Added : atts[i] = Defaults[l] /\ Rank(Added, l) = i - m
      BY <1>1, <3>1, AddedPlaces
    <3>3. PICK k \in Added : atts[j] = Defaults[k] /\ Rank(Added, k) = j - m
      BY <1>1, <3>1, AddedPlaces
    <3>4. l # k
      <4>1. i - m # j - m
        BY <1>0, <1>1, <1>2
      <4> QED BY <3>2, <3>3, <4>1
    <3>5. l \in Nat /\ k \in Nat
      BY TagSequences DEF Added
    <3>6. l < k \/ k < l
      BY <3>4, <3>5
    <3> QED BY <3>2, <3>3, <3>6, AddedDiffer
  <2> QED BY <1>0, <1>1, <2>1, <2>2, <2>3
<1>3. \A i, j \in 1..Len(atts) : SameName(atts[i], atts[j]) => i = j
  <2>1. \A i, j \in 1..Len(atts) : i < j \/ j < i \/ i = j
    BY <1>0, <1>1
  <2> QED BY <1>2, <2>1
<1> QED BY <1>3 DEF atts

(***************************************************************************)
(* One step parses the tag.                                                *)
(***************************************************************************)
LEMMA SameTag ==
  ASSUME UNCHANGED stTag
  PROVE  UNCHANGED <<TagErrors, Specified, AddedSeq>>
<1>1. Specified' = Specified /\ Defaults' = Defaults
  BY DEF Specified, Defaults
<1>2. \A a : Uri(a)' = Uri(a)
  BY DEF Uri
<1>3. \A a : Undeclared(a)' = Undeclared(a)
  BY <1>2 DEF Undeclared
<1>4. \A a, b : SameName(a, b)' = SameName(a, b)
  BY <1>2 DEF SameName
<1>5. Hashed' = Hashed
  BY <1>1, <1>3 DEF Hashed
<1>6. \A i : Earlier(i)' = Earlier(i)
  BY <1>1, <1>4, <1>5 DEF Earlier
<1>7. Collisions' = Collisions
  BY <1>5, <1>6 DEF Collisions
<1>8. Duplicates' = Duplicates
  BY <1>1, <1>6, <1>7 DEF Duplicates
<1>9. QNameDuplicates' = QNameDuplicates
  BY <1>1, <1>7, <1>8 DEF QNameDuplicates
<1>10. \A k : SameAs(k)' = SameAs(k) /\ SameDefault(k)' = SameDefault(k)
  BY <1>1, <1>4, <1>5 DEF SameAs, SameDefault
<1>11. Searched' = Searched
  BY <1>1 DEF Searched
<1>12. \A k : Overridden(k)' = Overridden(k)
  BY <1>1, <1>10, <1>11 DEF Overridden
<1>13. \A k : Redefined(k)' = Redefined(k)
  BY <1>10, <1>11, <1>12 DEF Redefined
<1>14. Added' = Added
  BY <1>1, <1>12 DEF Added
<1>15. AddedSeq' = AddedSeq
  BY <1>1, <1>14 DEF AddedSeq
<1>16. TagErrors' = TagErrors
  BY <1>1, <1>3, <1>7, <1>8, <1>9, <1>13, <1>14 DEF TagErrors
<1> QED BY <1>1, <1>15, <1>16

(* The step keeps the invariant.                                           *)
LEMMA TagStep == TagInv /\ [StNext]_stVars => TagInv'
<1> SUFFICES ASSUME TagInv, [StNext]_stVars PROVE TagInv'
  OBVIOUS
<1>1. UNCHANGED stTag
  BY DEF StNext, xmlParseStartTag2, stVars
<1>2. UNCHANGED <<TagErrors, Specified, AddedSeq>>
  BY <1>1, SameTag
<1>3. CASE UNCHANGED stVars
  BY <1>2, <1>3 DEF stVars, TagInv
<1>4. CASE StNext
  BY <1>2, <1>4 DEF StNext, xmlParseStartTag2, TagInv
<1> QED BY <1>3, <1>4

(* What is reported is what the property asks for.                         *)
LEMMA TagReported == TagInv => AttributesUnique
<1> SUFFICES ASSUME TagInv, stStep = "reported", AllDeclared
             PROVE  /\ ("redefined" \in stErrors) = ~Unique(Specified)
                    /\ stErrors = {} =>
                         \A i, j \in 1..Len(stAtts) : SameName(stAtts[i], stAtts[j]) => i = j
  BY DEF AttributesUnique
<1>1. stTag \in StTags /\ stErrors = TagErrors
  BY DEF TagInv
<1>2. ("redefined" \in stErrors) = ~Unique(Specified)
  BY <1>1, RefusedIffTwice
<1>3. ASSUME stErrors = {}
      PROVE  \A i, j \in 1..Len(stAtts) : SameName(stAtts[i], stAtts[j]) => i = j
  <2>1. stAtts = Specified \o AddedSeq
    BY <1>1, <1>3 DEF TagInv
  <2> QED BY <1>1, <1>3, <2>1, DeliveredDiffer
<1> QED BY <1>2, <1>3

(* For every tag whose prefixes are declared, xmlParseStartTag2 refuses it *)
(* exactly if it specifies a qualified name twice, and hands over          *)
(* attributes with different expanded names if it raised no error.         *)
THEOREM TagAttributesUnique == StSpec => []AttributesUnique
<1>1. StInit => TagInv
  BY DEF StInit, TagInv
<1> QED BY <1>1, TagStep, TagReported, PTL DEF StSpec

-----------------------------------------------------------------------------
(***************************************************************************)
(* Nodes and their lists.  A text node has text, and a buffer that it does *)
(* not own is just large enough.                                           *)
(***************************************************************************)
SxKinds == {"elem", "text", "cdata", "other"}

SxNodes ==
  {n \in [kind : SxKinds, len : Nat, cap : Nat, own : BOOLEAN] :
     n.kind = "text" => n.len > 0 /\ n.cap > n.len /\ (n.own = TRUE \/ n.cap = n.len + 1)}

(* No text follows another.                                                *)
Apart(kids) ==
  \A i \in 1..(Len(kids) - 1) : ~(kids[i].kind = "text" /\ kids[i + 1].kind = "text")

SxKids == {kids \in Seq(SxNodes) : Apart(kids)}

(* The children of an entity, without their buffers.                       *)
SxListNodes ==
  {n \in [kind : SxKinds, len : Nat, cap : Nat, own : BOOLEAN] : n.kind = "text" => n.len > 0}

SxLists == {list \in Seq(SxListNodes) : Apart(list)}

(* The last child.                                                         *)
LastOf(kids) == IF kids = <<>> THEN SxNode("none") ELSE Last(kids)

(* The cache is right for a node, if that is a text.                       *)
Fits(node, len, mem) == node.kind = "text" => len = node.len /\ mem = node.cap

(***************************************************************************)
(* The invariant.                                                          *)
(***************************************************************************)
SxTypes ==
  /\ nodeTab \in Seq(SxKids) /\ nodeTab # <<>>
  /\ nodelen \in Int /\ nodemem \in Int
  /\ stopped \in BOOLEAN /\ clobbered \in BOOLEAN
  /\ \A e \in DOMAIN entChildren : entChildren[e] \in SxLists
  /\ calls \in Seq([ent : SxEnts, depth : Nat, nodelen : Int, nodemem : Int])

(* The roots of the entities being parsed lie one above the other.         *)
SxDepths ==
  /\ \A j \in 1..Len(calls) : calls[j].depth \in 2..Len(nodeTab)
  /\ \A i, j \in 1..Len(calls) : i < j => calls[i].depth < calls[j].depth

(* What an entity saved is right for the node with the reference.          *)
SxSaved ==
  \A j \in 1..Len(calls) :
    Fits(LastOf(nodeTab[calls[j].depth - 1]), calls[j].nodelen, calls[j].nodemem)

(* A node that another is open in has a reference to an entity being       *)
(* parsed, or does not end in a text.                                      *)
SxUnder ==
  \A k \in 1..(Len(nodeTab) - 1) :
    \/ \E j \in 1..Len(calls) : calls[j].depth = k + 1
    \/ LastOf(nodeTab[k]).kind # "text"

(* The cache is right for the current node.                                *)
SxCached == stopped = FALSE => Fits(LastOf(Last(nodeTab)), nodelen, nodemem)

SxInv == SxTypes /\ SxDepths /\ SxSaved /\ SxUnder /\ SxCached /\ clobbered = FALSE

(***************************************************************************)
(* Lists of nodes.                                                         *)
(***************************************************************************)
LEMMA KidsAppended ==
  ASSUME NEW kids \in SxKids, NEW child \in SxNodes,
         child.kind = "text" => LastOf(kids).kind # "text"
  PROVE  Append(kids, child) \in SxKids /\ LastOf(Append(kids, child)) = child
<1> DEFINE n == Len(kids)
           r == Append(kids, child)
<1>1. kids \in Seq(SxNodes) /\ n \in Nat /\ Apart(kids)
  BY DEF SxKids
<1>2. r \in Seq(SxNodes) /\ Len(r) = n + 1 /\ r[n + 1] = child /\ \A i \in 1..n : r[i] = kids[i]
  BY <1>1
<1>3. LastOf(kids) = IF n = 0 THEN SxNode("none") ELSE kids[n]
  BY <1>1 DEF LastOf, Last
<1> HIDE DEF n, r
<1>4. ASSUME NEW i \in 1..(Len(r) - 1), r[i].kind = "text", r[i + 1].kind = "text" PROVE FALSE
  <2>1. i \in 1..n
    BY <1>1, <1>2
  <2>2. CASE i = n
    BY <1>2, <1>3, <1>4, <2>1, <2>2
  <2>3. CASE i # n
    <3>1. i \in 1..(n - 1) /\ i + 1 \in 1..n
      BY <1>1, <2>1, <2>3
    <3>2. r[i] = kids[i] /\ r[i + 1] = kids[i + 1]
      BY <1>2, <2>1, <3>1
    <3> QED BY <1>1, <1>4, <3>1, <3>2 DEF Apart, n
  <2> QED BY <2>2, <2>3
<1>5. Apart(r)
  BY <1>4 DEF Apart
<1>6. LastOf(r) = child
  <2>1. r # <<>>
    BY <1>1, <1>2
  <2> QED BY <1>2, <2>1 DEF LastOf, Last
<1> QED BY <1>2, <1>5, <1>6 DEF SxKids, r

(* A single node is a list of children, and so is none.                    *)
LEMMA KidsSingle ==
  ASSUME NEW child \in SxNodes
  PROVE  <<child>> \in SxKids /\ LastOf(<<child>>) = child /\ <<>> \in SxKids
BY DEF SxKids, Apart, LastOf, Last

(* The first elements of a sequence.                                       *)
LEMMA Prefix ==
  ASSUME NEW S, NEW s \in Seq(S), NEW m \in 0..Len(s)
  PROVE  /\ SubSeq(s, 1, m) \in Seq(S) /\ Len(SubSeq(s, 1, m)) = m
         /\ \A i \in 1..m : SubSeq(s, 1, m)[i] = s[i]
<1>1. m \in Nat /\ \A i \in 1..m : s[i] \in S
  OBVIOUS
<1>2. /\ SubSeq(s, 1, m) \in Seq(S) /\ Len(SubSeq(s, 1, m)) = IF 1 <= m THEN m - 1 + 1 ELSE 0
      /\ \A i \in 1..(m - 1 + 1) : SubSeq(s, 1, m)[i] = s[1 + i - 1]
  BY <1>1, SubSeqProperties
<1>3. m - 1 + 1 = m /\ \A i \in 1..m : 1 + i - 1 = i
  BY <1>1
<1> QED BY <1>1, <1>2, <1>3

(* The last child is replaced by one of the same kind.                     *)
LEMMA KidsReplaced ==
  ASSUME NEW kids \in SxKids, kids # <<>>, NEW child \in SxNodes, child.kind = Last(kids).kind
  PROVE  Append(Front(kids), child) \in SxKids /\ LastOf(Append(Front(kids), child)) = child
<1> DEFINE n == Len(kids)
           front == Front(kids)
           r == Append(front, child)
<1>1. kids \in Seq(SxNodes) /\ n \in Nat \ {0} /\ Apart(kids) /\ Last(kids) = kids[n]
  BY EmptySeq DEF SxKids, Last
<1>2. front \in Seq(SxNodes) /\ Len(front) = n - 1 /\ \A i \in 1..(n - 1) : front[i] = kids[i]
  <2>1. n - 1 \in 0..Len(kids)
    BY <1>1
  <2> QED BY <1>1, <2>1, Prefix DEF Front
<1> HIDE DEF n, front
<1>3. /\ r \in Seq(SxNodes) /\ Len(r) = n /\ r[n] = child
      /\ \A i \in 1..(n - 1) : r[i] = kids[i]
  BY <1>1, <1>2
<1> HIDE DEF r
<1>4. \A i \in 1..n : r[i].kind = kids[i].kind
  <2> SUFFICES ASSUME NEW i \in 1..n PROVE r[i].kind = kids[i].kind
    OBVIOUS
  <2>1. CASE i = n
    BY <1>1, <1>3, <2>1
  <2>2. CASE i # n
    <3>1. i \in 1..(n - 1)
      BY <1>1, <2>2
    <3> QED BY <1>3, <3>1
  <2> QED BY <2>1, <2>2
<1>5. \A i \in 1..(n - 1) : i \in 1..n /\ i + 1 \in 1..n
  BY <1>1
<1>6. Apart(r)
  BY <1>1, <1>3, <1>4, <1>5 DEF Apart, n
<1>7. LastOf(r) = child
  <2>1. r # <<>>
    BY <1>1, <1>3
  <2> QED BY <1>3, <2>1 DEF LastOf, Last
<1> QED BY <1>3, <1>6, <1>7 DEF SxKids, r, front

(***************************************************************************)
(* The builder.                                                            *)
(***************************************************************************)
Weak(b) ==
  /\ b \in [tab : Seq(SxKids), base : Nat, nodelen : Int, nodemem : Int,
            stopped : BOOLEAN, clobbered : BOOLEAN]
  /\ b.tab # <<>> /\ b.clobbered = FALSE

(* What a callback leaves alone.                                           *)
Same(b, c) ==
  /\ c.base = b.base /\ Len(c.tab) = Len(b.tab)
  /\ \A k \in 1..(Len(b.tab) - 1) : c.tab[k] = b.tab[k]

Cached(b) == b.stopped = FALSE => Fits(LastOf(Last(b.tab)), b.nodelen, b.nodemem)

(* The last child of the current node.                                     *)
LEMMA LastChildIs ==
  ASSUME NEW b
  PROVE  SxLastChild(b) = LastOf(Last(b.tab))
BY DEF SxLastChild, LastOf

(* The children of the current node are replaced.                          *)
LEMMA TabSet ==
  ASSUME NEW b, Weak(b), NEW kids \in SxKids
  PROVE  LET c == [b EXCEPT !.tab = [b.tab EXCEPT ![Len(b.tab)] = kids]] IN
         /\ Weak(c) /\ Same(b, c) /\ Last(c.tab) = kids
         /\ c.nodelen = b.nodelen /\ c.nodemem = b.nodemem /\ c.stopped = b.stopped
<1> DEFINE n == Len(b.tab)
           tab == [b.tab EXCEPT ![n] = kids]
           c == [b EXCEPT !.tab = tab]
<1>1. b.tab \in Seq(SxKids) /\ b.tab # <<>>
  BY DEF Weak
<1>2. n \in Nat \ {0} /\ n \in DOMAIN b.tab
  BY <1>1, EmptySeq
<1>3. /\ tab \in Seq(SxKids) /\ Len(tab) = n /\ tab[n] = kids
      /\ \A k \in 1..(n - 1) : tab[k] = b.tab[k]
  <2>1. tab \in Seq(SxKids) /\ Len(tab) = n
    BY <1>1, <1>2
  <2>2. tab[n] = kids
    BY <1>2
  <2>3. \A k \in 1..(n - 1) : tab[k] = b.tab[k]
    BY <1>1, <1>2
  <2> QED BY <2>1, <2>2, <2>3
<1> HIDE DEF n, tab
<1>4. tab # <<>>
  BY <1>2, <1>3
<1>5. /\ c.tab = tab /\ c.nodelen = b.nodelen /\ c.nodemem = b.nodemem
      /\ c.stopped = b.stopped /\ c.base = b.base /\ c.clobbered = b.clobbered
  BY DEF Weak
<1>6. Weak(c)
  BY <1>3, <1>4 DEF Weak
<1> HIDE DEF c
<1>7. Same(b, c)
  BY <1>3, <1>5 DEF Same, n
<1>8. Last(c.tab) = kids
  BY <1>3, <1>5 DEF Last
<1> QED BY <1>5, <1>6, <1>7, <1>8 DEF c, tab, n

WithCache(b, len, mem) == [b EXCEPT !.nodelen = len, !.nodemem = mem]

(* The cache is set, nothing else changes.                                 *)
LEMMA CacheSet ==
  ASSUME NEW b, Weak(b), NEW len \in Int, NEW mem \in Int
  PROVE  LET c == WithCache(b, len, mem) IN
         /\ Weak(c) /\ c.tab = b.tab /\ c.base = b.base
         /\ c.nodelen = len /\ c.nodemem = mem /\ c.stopped = b.stopped
BY DEF Weak, WithCache

(* The children of the current node are a list of children.                *)
LEMMA LastKids ==
  ASSUME NEW b, Weak(b)
  PROVE  Last(b.tab) \in SxKids /\ Last(b.tab) = b.tab[Len(b.tab)]
BY EmptySeq DEF Weak, Last

(* xmlSAX2AppendChild adds a node that does not follow another text as a   *)
(* text.                                                                   *)
LEMMA Appended ==
  ASSUME NEW b, Weak(b), NEW child \in SxNodes,
         child.kind = "text" => SxLastChild(b).kind # "text"
  PROVE  LET c == SAX2AppendChild(b, child) IN
         /\ Weak(c) /\ Same(b, c) /\ LastOf(Last(c.tab)) = child
         /\ c.nodelen = b.nodelen /\ c.nodemem = b.nodemem /\ c.stopped = b.stopped
<1> DEFINE old == b.tab[Len(b.tab)]
           kids == IF Len(b.tab) = b.base THEN Append(old, child) ELSE <<child>>
<1>1. old \in SxKids /\ LastOf(old) = SxLastChild(b)
  BY LastKids, LastChildIs
<1>2. kids \in SxKids /\ LastOf(kids) = child
  BY <1>1, KidsAppended, KidsSingle
<1>3. SAX2AppendChild(b, child) = [b EXCEPT !.tab = [b.tab EXCEPT ![Len(b.tab)] = kids]]
  BY DEF SAX2AppendChild
<1> HIDE DEF kids
<1> QED BY <1>2, <1>3, TabSet

(* Text that is put into the buffer of the last child: the buffer grows    *)
(* when it is shared or full, and the cache follows.                       *)
LEMMA TextAppended ==
  ASSUME NEW b, Weak(b), NEW len \in Nat \ {0}, b.stopped = FALSE,
         SxLastChild(b).kind = "text", Cached(b)
  PROVE  LET c == SxAppendText(b, len) IN
         /\ Weak(c) /\ Same(b, c) /\ Cached(c)
         /\ c.stopped = FALSE => LastOf(Last(c.tab)).kind = "text"
<1> DEFINE last == SxLastChild(b)
           newSize == b.nodelen + len
           grows == newSize >= b.nodemem
           capacity == IF 2 * newSize <= SxMinCap THEN SxMinCap ELSE 2 * newSize
           shared == ~last.own /\ b.nodemem = b.nodelen + 1
           node == [last EXCEPT !.len = newSize, !.cap = IF grows THEN capacity ELSE @,
                                !.own = @ \/ grows]
           lost == \/ b.clobbered
                   \/ newSize >= last.cap /\ ~grows
                   \/ ~last.own /\ ~(grows /\ shared)
           mem == IF grows THEN capacity ELSE b.nodemem
           d == SxSetLast(b, node)
           kids == Last(b.tab)
<1>1. kids \in SxKids /\ kids = b.tab[Len(b.tab)] /\ last = LastOf(kids)
  BY LastKids, LastChildIs
<1>2. kids # <<>> /\ last = Last(kids)
  BY <1>1 DEF LastOf, SxNode
<1>3. last \in SxNodes
  <2>1. kids \in Seq(SxNodes)
    BY <1>1 DEF SxKids
  <2> QED BY <1>2, <2>1, EmptySeq DEF Last
<1>4. b.nodelen = last.len /\ b.nodemem = last.cap
  BY <1>1 DEF Cached, Fits
<1>5. /\ last.kind = "text" /\ last.len \in Nat /\ last.cap \in Nat /\ last.own \in BOOLEAN
      /\ last.len > 0 /\ last.cap > last.len /\ (last.own = TRUE \/ last.cap = last.len + 1)
      /\ last \in [kind : SxKinds, len : Nat, cap : Nat, own : BOOLEAN]
  BY <1>3 DEF SxNodes
<1> HIDE DEF last, kids
<1>6. newSize \in Nat /\ newSize > 0 /\ capacity \in Nat /\ capacity > newSize /\ mem \in Nat
  BY <1>4, <1>5, SxAssumption
<1>7. mem > newSize /\ mem = IF grows THEN capacity ELSE last.cap
  BY <1>4, <1>5, <1>6
<1>8. last.own = FALSE => grows /\ shared
  BY <1>4, <1>5
<1>9. lost = FALSE
  <2>1. b.clobbered = FALSE
    BY DEF Weak
  <2>2. ~(newSize >= last.cap /\ ~grows)
    BY <1>4
  <2> HIDE DEF grows, shared, newSize
  <2> QED BY <1>5, <1>8, <2>1, <2>2, Zenon
<1>10. node \in SxNodes /\ node.kind = "text" /\ node.len = newSize /\ node.cap = mem
  <2>1. (last.own \/ grows) = TRUE
    <3>1. grows \in BOOLEAN
      OBVIOUS
    <3> HIDE DEF grows, shared
    <3> QED BY <1>5, <1>8, <3>1, Zenon
  <2>2. node = [last EXCEPT !.len = newSize, !.cap = mem, !.own = TRUE]
    BY <1>5, <1>7, <2>1
  <2> HIDE DEF newSize, mem, grows, capacity
  <2>3. /\ node \in [kind : SxKinds, len : Nat, cap : Nat, own : BOOLEAN]
        /\ node.kind = "text" /\ node.len = newSize /\ node.cap = mem /\ node.own = TRUE
    BY <1>5, <1>6, <2>2
  <2> HIDE DEF node
  <2> QED BY <1>6, <1>7, <2>3 DEF SxNodes
<1> HIDE DEF node
<1>11. /\ Weak(d) /\ Same(b, d) /\ LastOf(Last(d.tab)) = node /\ d.stopped = b.stopped
  <2> DEFINE new == Append(Front(kids), node)
  <2>1. new \in SxKids /\ LastOf(new) = node
    BY <1>1, <1>2, <1>5, <1>10, KidsReplaced
  <2>2. d = [b EXCEPT !.tab = [b.tab EXCEPT ![Len(b.tab)] = new]]
    BY <1>1 DEF SxSetLast
  <2> HIDE DEF new, d
  <2> QED BY <2>1, <2>2, TabSet
<1> HIDE DEF d, newSize, mem, grows, capacity, shared
<1>12. CASE b.nodemem <= 0 \/ len > SxMaxText \/ b.nodelen > SxMaxText - len
  <2> DEFINE c == [b EXCEPT !.stopped = TRUE]
  <2>1. SxAppendText(b, len) = c
    BY <1>12 DEF SxAppendText
  <2>2. Weak(c) /\ c.tab = b.tab /\ c.base = b.base /\ c.stopped = TRUE
    BY DEF Weak
  <2> HIDE DEF c
  <2> QED BY <2>1, <2>2 DEF Same, Cached
<1>13. CASE ~(b.nodemem <= 0 \/ len > SxMaxText \/ b.nodelen > SxMaxText - len)
  <2> DEFINE c == [d EXCEPT !.nodelen = newSize, !.nodemem = mem, !.clobbered = FALSE]
  <2>1. SxAppendText(b, len) = c
    <3>1. d.nodemem = b.nodemem /\ d.clobbered = b.clobbered
      BY DEF d, SxSetLast, Weak
    <3> HIDE DEF lost
    <3>2. SxAppendText(b, len) = [d EXCEPT !.nodelen = newSize, !.nodemem = mem, !.clobbered = lost]
      BY <1>13, <3>1, Zenon DEF SxAppendText, d, node, newSize, mem, grows, capacity, shared, last, lost
    <3> QED BY <1>9, <3>2
  <2>2. /\ Weak(c) /\ c.tab = d.tab /\ c.base = d.base /\ c.stopped = FALSE
        /\ c.nodelen = newSize /\ c.nodemem = mem
    <3>1. newSize \in Int /\ mem \in Int
      BY <1>6
    <3>2. /\ d \in [tab : Seq(SxKids), base : Nat, nodelen : Int, nodemem : Int,
                    stopped : BOOLEAN, clobbered : BOOLEAN]
          /\ d.tab # <<>> /\ d.stopped = FALSE
      BY <1>11 DEF Weak
    <3>3. c \in [tab : Seq(SxKids), base : Nat, nodelen : Int, nodemem : Int,
                stopped : BOOLEAN, clobbered : BOOLEAN]
      BY <3>1, <3>2
    <3>4. /\ c.tab = d.tab /\ c.base = d.base /\ c.stopped = d.stopped
          /\ c.nodelen = newSize /\ c.nodemem = mem /\ c.clobbered = FALSE
      BY <3>2
    <3> HIDE DEF c
    <3> QED BY <3>2, <3>3, <3>4 DEF Weak
  <2> HIDE DEF c
  <2>3. Same(b, c)
    BY <1>11, <2>2 DEF Same
  <2>4. LastOf(Last(c.tab)) = node
    BY <1>11, <2>2
  <2>5. Cached(c)
    BY <1>10, <2>2, <2>4 DEF Cached, Fits
  <2> QED BY <1>10, <2>1, <2>2, <2>3, <2>4, <2>5
<1> QED BY <1>12, <1>13

(* Text and CDATA sections, wherever the cache is right for a last text.   *)
CanText(b, kind, len) ==
  /\ Weak(b) /\ b.stopped = FALSE /\ kind \in {"text", "cdata"}
  /\ len \in Nat /\ (kind = "text" => len > 0)
  /\ kind = "text" /\ SxLastChild(b).kind = "text" => Cached(b)

(* xmlSAX2Text adds a node or extends the last one, and leaves the cache   *)
(* right.                                                                  *)
LEMMA TextAdded ==
  ASSUME NEW b, NEW kind, NEW len, NEW own \in BOOLEAN, CanText(b, kind, len)
  PROVE  LET c == SAX2Text(b, kind, len, own) IN
         /\ Weak(c) /\ Same(b, c) /\ Cached(c)
         /\ c.stopped = FALSE => LastOf(Last(c.tab)).kind = kind
<1>0. /\ Weak(b) /\ b.stopped = FALSE /\ kind \in {"text", "cdata"} /\ len \in Nat
      /\ (kind = "text" => len > 0)
  BY DEF CanText
<1>1. CASE SxLastChild(b).kind # kind \/ kind # "text"
  <2> DEFINE node == SAX2TextNode(kind, len, own)
             d == SAX2AppendChild(b, node)
             c == WithCache(d, len, len + 1)
  <2>1. node \in SxNodes /\ node.kind = kind /\ node.len = len /\ node.cap = len + 1
    BY <1>0 DEF SAX2TextNode, SxNodes, SxKinds
  <2> HIDE DEF node
  <2>2. node.kind = "text" => SxLastChild(b).kind # "text"
    BY <1>1, <2>1
  <2>3. Weak(d) /\ Same(b, d) /\ LastOf(Last(d.tab)) = node
    BY <1>0, <2>1, <2>2, Appended
  <2> HIDE DEF d
  <2>4. /\ Weak(c) /\ c.tab = d.tab /\ c.base = d.base
        /\ c.nodelen = len /\ c.nodemem = len + 1
    <3>1. len \in Int /\ len + 1 \in Int
      BY <1>0
    <3> QED BY <2>3, <3>1, CacheSet
  <2>5. SAX2Text(b, kind, len, own) = c
    BY <1>0, <1>1 DEF SAX2Text, d, node, WithCache
  <2> HIDE DEF c
  <2>6. Same(b, c)
    BY <2>3, <2>4 DEF Same
  <2>7. Cached(c) /\ LastOf(Last(c.tab)).kind = kind
    BY <2>1, <2>3, <2>4 DEF Cached, Fits
  <2> QED BY <2>4, <2>5, <2>6, <2>7
<1>2. CASE ~(SxLastChild(b).kind # kind \/ kind # "text")
  <2>1. kind = "text" /\ SxLastChild(b).kind = "text" /\ Cached(b) /\ len \in Nat \ {0}
    BY <1>0, <1>2 DEF CanText
  <2>2. SAX2Text(b, kind, len, own) = SxAppendText(b, len)
    BY <1>0, <1>2 DEF SAX2Text
  <2> QED BY <1>0, <2>1, <2>2, TextAppended
<1> QED BY <1>1, <1>2

(***************************************************************************)
(* Copies of the children of an entity.  Between them, the cache need not  *)
(* be right for a text in the middle: no text follows it.                  *)
(***************************************************************************)
LEMMA SameTrans ==
  ASSUME NEW b, NEW c, NEW d, Same(b, c), Same(c, d)
  PROVE  Same(b, d)
BY DEF Same

Copied(b, c, list, i) ==
  /\ Weak(c) /\ Same(b, c)
  /\ c.stopped = FALSE =>
       /\ Cached(c) \/ (i > 0 /\ i < Len(list) /\ list[i].kind = "text")
       /\ i > 0 => LastOf(Last(c.tab)).kind = list[i].kind

(* The copy of one more child.                                             *)
LEMMA CopiedNode ==
  ASSUME NEW b, NEW c, NEW list \in SxLists, NEW i \in 0..(Len(list) - 1),
         Copied(b, c, list, i)
  PROVE  Copied(b, SxCopyNode(c, list, i + 1), list, i + 1)
<1> DEFINE n == Len(list)
           x == list[i + 1]
           r == SxCopyNode(c, list, i + 1)
<1>0. /\ list \in Seq(SxListNodes) /\ n \in Nat /\ Apart(list)
      /\ i \in Nat /\ i + 1 \in 1..n /\ Weak(c) /\ Same(b, c)
  BY DEF SxLists, Copied
<1>1. /\ x \in [kind : SxKinds, len : Nat, cap : Nat, own : BOOLEAN]
      /\ x.kind = "text" => x.len > 0
  BY <1>0 DEF SxListNodes
<1>2. ASSUME i > 0, c.stopped = FALSE, x.kind = "text"
      PROVE  LastOf(Last(c.tab)).kind # "text"
  <2>1. i \in 1..(n - 1)
    BY <1>0, <1>2
  <2>2. list[i].kind # "text"
    BY <1>0, <1>2, <2>1 DEF Apart
  <2> QED BY <1>2, <2>2 DEF Copied
<1> HIDE DEF x
<1>3. CASE c.stopped = TRUE
  <2>1. r = c
    BY <1>3 DEF SxCopyNode
  <2> QED BY <1>0, <1>3, <2>1 DEF Copied
<1>4. CASE c.stopped = FALSE /\ x.kind \in {"text", "cdata"} /\ (i + 1 = 1 \/ i + 1 = n)
  <2>1. r = SAX2Text(c, x.kind, x.len, FALSE)
    BY <1>4 DEF SxCopyNode, x
  <2>2. x.kind = "text" /\ SxLastChild(c).kind = "text" => Cached(c)
    <3>1. CASE i = 0
      BY <1>4, <3>1 DEF Copied
    <3>2. CASE i # 0
      <4>1. i > 0
        BY <1>0, <3>2
      <4>2. x.kind = "text" => LastOf(Last(c.tab)).kind # "text"
        BY <1>2, <1>4, <4>1
      <4> QED BY <4>2, LastChildIs
    <3> QED BY <3>1, <3>2
  <2>3. CanText(c, x.kind, x.len)
    BY <1>0, <1>1, <1>4, <2>2 DEF CanText
  <2>4. /\ Weak(r) /\ Same(c, r) /\ Cached(r)
        /\ r.stopped = FALSE => LastOf(Last(r.tab)).kind = x.kind
    BY <2>1, <2>3, TextAdded
  <2> HIDE DEF r
  <2>5. Same(b, r)
    BY <1>0, <2>4, SameTrans
  <2> QED BY <1>0, <2>4, <2>5 DEF Copied, x, r
<1>5. CASE c.stopped = FALSE /\ ~(x.kind \in {"text", "cdata"} /\ (i + 1 = 1 \/ i + 1 = n))
  <2> DEFINE d == WithCache(c, 0, 0)
             node == [x EXCEPT !.cap = x.len + 1, !.own = TRUE]
  <2>0. r = SAX2AppendChild(d, node)
    <3>1. [c EXCEPT !.nodemem = 0, !.nodelen = 0] = d
      BY <1>0 DEF Weak, WithCache
    <3> QED BY <1>5, <3>1 DEF SxCopyNode, x
  <2>1. Weak(d) /\ d.tab = c.tab /\ d.base = c.base
    BY <1>0, CacheSet
  <2>2. node \in SxNodes /\ node.kind = x.kind
    <3>1. /\ node \in [kind : SxKinds, len : Nat, cap : Nat, own : BOOLEAN]
          /\ node.kind = x.kind /\ node.len = x.len /\ node.cap = x.len + 1 /\ node.own = TRUE
      <4>1. x \in [kind : SxKinds, len : Nat, cap : Nat, own : BOOLEAN] /\ x.len + 1 \in Nat
        BY <1>1
      <4>2. DOMAIN x = {"kind", "len", "cap", "own"}
        BY <4>1
      <4>3. node.kind = x.kind /\ node.len = x.len /\ node.cap = x.len + 1 /\ node.own = TRUE
        BY <4>2
      <4>4. node \in [kind : SxKinds, len : Nat, cap : Nat, own : BOOLEAN]
        BY <4>1
      <4> QED BY <4>3, <4>4
    <3> HIDE DEF node
    <3>2. x.len + 1 > x.len
      BY <1>1
    <3> QED BY <1>1, <3>1, <3>2 DEF SxNodes
  <2> HIDE DEF d, node
  <2>3. node.kind = "text" => SxLastChild(d).kind # "text"
    <3> SUFFICES ASSUME x.kind = "text" PROVE LastOf(Last(c.tab)).kind # "text"
      BY <2>1, <2>2, LastChildIs
    <3>1. i > 0
      BY <1>0, <1>5
    <3> QED BY <1>2, <1>5, <3>1
  <2>4. Weak(r) /\ Same(d, r) /\ LastOf(Last(r.tab)) = node
    BY <2>0, <2>1, <2>2, <2>3, Appended
  <2>5. Same(c, r)
    BY <2>1, <2>4 DEF Same
  <2> HIDE DEF r
  <2>6. Same(b, r)
    BY <1>0, <2>5, SameTrans
  <2>7. CASE x.kind = "text"
    <3>1. i + 1 < n /\ i + 1 > 0
      BY <1>0, <1>5, <2>7
    <3> QED BY <2>2, <2>4, <2>6, <2>7, <3>1 DEF Copied, x, n, r
  <2>8. CASE x.kind # "text"
    <3>1. Cached(r)
      BY <2>2, <2>4, <2>8 DEF Cached, Fits
    <3> QED BY <2>2, <2>4, <2>6, <3>1 DEF Copied, x, r
  <2> QED BY <2>7, <2>8
<1>6. c.stopped \in BOOLEAN
  BY <1>0 DEF Weak
<1> QED BY <1>3, <1>4, <1>5, <1>6

(* The recursive function of SxCopy.                                       *)
IsCopy(f, b, list, N) ==
  f = [i \in 0..N |-> IF i = 0 THEN b ELSE SxCopyNode(f[i - 1], list, i)]

(* The function exists, by induction over the number of children.          *)
LEMMA CopyExists ==
  ASSUME NEW b, NEW list, NEW N \in Nat
  PROVE  \E f : IsCopy(f, b, list, N)
<1> DEFINE P == {n \in Nat : \E f : IsCopy(f, b, list, n)}
<1>1. 0 \in P
  <2>1. IsCopy([i \in 0..0 |-> b], b, list, 0)
    BY DEF IsCopy
  <2> QED BY <2>1
<1>2. ASSUME NEW n \in Nat, n \in P PROVE n + 1 \in P
  <2>1. PICK f : IsCopy(f, b, list, n)
    BY <1>2
  <2> DEFINE g == [i \in 0..(n + 1) |-> IF i = n + 1 THEN SxCopyNode(f[n], list, n + 1) ELSE f[i]]
  <2>2. \A i \in 0..(n + 1) : i # 0 => i - 1 \in 0..n /\ g[i - 1] = f[i - 1]
    OBVIOUS
  <2>3. \A i \in 0..n : f[i] = IF i = 0 THEN b ELSE SxCopyNode(f[i - 1], list, i)
    BY <2>1, Zenon DEF IsCopy
  <2>4. \A i \in 0..(n + 1) : g[i] = IF i = 0 THEN b ELSE SxCopyNode(g[i - 1], list, i)
    BY <2>2, <2>3
  <2>5. IsCopy(g, b, list, n + 1)
    BY <2>4, Zenon DEF IsCopy
  <2> HIDE DEF g
  <2>6. \E h : IsCopy(h, b, list, n + 1)
    BY <2>5
  <2> QED BY <2>6
<1> HIDE DEF P
<1>3. N \in P
  BY <1>1, <1>2, Induct
<1> QED BY <1>3 DEF P

(* A reference that is replaced leaves the cache right.                    *)
LEMMA CopyRight ==
  ASSUME NEW b, Weak(b), Cached(b), NEW list \in SxLists
  PROVE  LET c == SxCopy(b, list) IN Weak(c) /\ Same(b, c) /\ Cached(c)
<1> DEFINE N == Len(list)
<1>1. N \in Nat
  BY DEF SxLists
<1>2. PICK f : IsCopy(f, b, list, N) /\ SxCopy(b, list) = f[N]
  <2>1. \E f : IsCopy(f, b, list, Len(list))
    BY <1>1, CopyExists
  <2> QED BY <2>1, Zenon DEF IsCopy, SxCopy
<1>3. f[0] = b /\ \A i \in 0..(N - 1) : f[i + 1] = SxCopyNode(f[i], list, i + 1)
  BY <1>1, <1>2 DEF IsCopy
<1> DEFINE P == {i \in Nat : i <= N => Copied(b, f[i], list, i)}
<1>4. 0 \in P
  BY <1>3 DEF Copied, Same
<1>5. ASSUME NEW i \in Nat, i \in P PROVE i + 1 \in P
  <2> SUFFICES ASSUME i + 1 <= N PROVE Copied(b, f[i + 1], list, i + 1)
    OBVIOUS
  <2>1. i \in 0..(N - 1) /\ Copied(b, f[i], list, i)
    BY <1>1, <1>5
  <2> QED BY <1>3, <2>1, CopiedNode
<1>6. N \in P
  <2> HIDE DEF P
  <2> QED BY <1>1, <1>4, <1>5, Induct
<1>7. Copied(b, f[N], list, N)
  BY <1>1, <1>6
<1>8. ~(N < N)
  BY <1>1
<1> QED BY <1>2, <1>7, <1>8 DEF Copied, Cached

(***************************************************************************)
(* The actions.                                                            *)
(***************************************************************************)
LEMMA CallsAre ==
  ASSUME SxInv
  PROVE  /\ Len(calls) \in Nat /\ DOMAIN calls = 1..Len(calls)
         /\ Len(nodeTab) \in Nat \ {0}
         /\ \A j \in 1..Len(calls) :
              /\ calls[j].depth \in 2..Len(nodeTab) /\ calls[j].depth \in Nat
              /\ calls[j].nodelen \in Int /\ calls[j].nodemem \in Int
              /\ calls[j].depth - 1 \in 1..(Len(nodeTab) - 1)
<1>1. Len(nodeTab) \in Nat \ {0}
  BY EmptySeq DEF SxInv, SxTypes
<1>2. Len(calls) \in Nat /\ DOMAIN calls = 1..Len(calls)
  BY DEF SxInv, SxTypes
<1>3. \A j \in 1..Len(calls) :
        calls[j] \in [ent : SxEnts, depth : Nat, nodelen : Int, nodemem : Int]
  <2>1. calls \in Seq([ent : SxEnts, depth : Nat, nodelen : Int, nodemem : Int])
    BY DEF SxInv, SxTypes
  <2> QED BY <2>1, ElementOfSeq
<1>4. \A j \in 1..Len(calls) : calls[j].depth \in 2..Len(nodeTab)
  BY DEF SxInv, SxDepths
<1>5. \A d \in 2..Len(nodeTab) : d - 1 \in 1..(Len(nodeTab) - 1)
  BY <1>1
<1> QED BY <1>1, <1>2, <1>3, <1>4, <1>5

(* The root of the entity being parsed is the deepest root.                *)
LEMMA BaseIs ==
  ASSUME SxInv
  PROVE  SxBase \in Nat /\ SxBase <= Len(nodeTab)
         /\ \A j \in 1..Len(calls) : calls[j].depth <= SxBase
<1> DEFINE n == Len(calls)
<1>1. n \in Nat
  BY CallsAre
<1>2. CASE calls = <<>>
  <2>1. SxBase = 0 /\ Len(calls) = 0
    BY <1>2 DEF SxBase
  <2> QED BY <2>1, CallsAre
<1>3. CASE calls # <<>>
  <2>1. n # 0
    BY <1>3, EmptySeq DEF SxInv, SxTypes
  <2>2. SxBase = calls[n].depth
    BY <1>3 DEF SxBase, Last
  <2>3. n \in 1..n
    BY <1>1, <2>1
  <2>4. SxBase \in Nat /\ SxBase <= Len(nodeTab)
    BY <2>2, <2>3, CallsAre
  <2>5. ASSUME NEW j \in 1..n PROVE calls[j].depth <= SxBase
    <3>1. j = n \/ j < n
      BY <1>1
    <3>2. CASE j = n
      BY <2>2, <2>4, <3>2
    <3>3. CASE j < n
      <4>1. calls[j].depth < calls[n].depth
        BY <2>3, <3>3 DEF SxInv, SxDepths
      <4>2. calls[j].depth \in Nat /\ calls[n].depth \in Nat
        BY <2>3, CallsAre
      <4> QED BY <2>2, <4>1, <4>2
    <3> QED BY <3>1, <3>2, <3>3
  <2> QED BY <2>4, <2>5
<1> QED BY <1>2, <1>3

(* The builder as the invariant describes it.                              *)
LEMMA BuilderWeak ==
  ASSUME SxInv
  PROVE  /\ Weak(SxBuilder) /\ Cached(SxBuilder)
         /\ SxBuilder.tab = nodeTab /\ SxBuilder.stopped = stopped /\ SxBuilder.base = SxBase
         /\ SxBuilder.nodelen = nodelen /\ SxBuilder.nodemem = nodemem
<1>1. SxBase \in Nat
  BY BaseIs
<1> QED BY <1>1 DEF SxInv, SxTypes, SxCached, SxBuilder, Weak, Cached

(* A callback that only adds to the current node.                          *)
LEMMA CallbackStep ==
  ASSUME SxInv, NEW c, Weak(c), Same(SxBuilder, c), Cached(c), SxBecomes(c),
         UNCHANGED <<entChildren, calls>>
  PROVE  SxInv'
<1> DEFINE n == Len(nodeTab)
<1>0. n \in Nat \ {0}
  BY CallsAre
<1>1. nodeTab' = c.tab /\ nodelen' = c.nodelen /\ nodemem' = c.nodemem
      /\ stopped' = c.stopped /\ clobbered' = c.clobbered
  BY DEF SxBecomes
<1>2. Len(c.tab) = n /\ \A k \in 1..(n - 1) : c.tab[k] = nodeTab[k]
  BY BuilderWeak DEF Same
<1>3. SxTypes'
  BY <1>1 DEF SxInv, SxTypes, Weak
<1>4. SxDepths'
  BY <1>1, <1>2 DEF SxInv, SxDepths
<1>5. SxSaved'
  <2>1. \A j \in 1..Len(calls) : nodeTab'[calls[j].depth - 1] = nodeTab[calls[j].depth - 1]
    BY <1>1, <1>2, CallsAre
  <2> QED BY <2>1 DEF SxInv, SxSaved
<1>6. SxUnder'
  BY <1>1, <1>2 DEF SxInv, SxUnder
<1>7. SxCached' /\ clobbered' = FALSE
  BY <1>1 DEF SxCached, Cached, Weak
<1> QED BY <1>3, <1>4, <1>5, <1>6, <1>7 DEF SxInv

(* Characters and CDATA sections.                                          *)
LEMMA CharactersStep ==
  ASSUME SxInv, SAX2Characters \/ SAX2CDataBlock
  PROVE  SxInv'
<1>1. PICK kind \in {"text", "cdata"}, len \in SxLens, own \in BOOLEAN :
        SxBecomes(SAX2Text(SxBuilder, kind, len, own))
  BY DEF SAX2Characters, SAX2CDataBlock
<1>2. ~stopped /\ UNCHANGED <<entChildren, calls>>
  BY DEF SAX2Characters, SAX2CDataBlock
<1>3. CanText(SxBuilder, kind, len)
  <2>1. stopped = FALSE
    BY <1>2 DEF SxInv, SxTypes
  <2>2. len \in Nat /\ len > 0
    BY SxAssumption
  <2> QED BY <2>1, <2>2, BuilderWeak DEF CanText
<1>4. LET c == SAX2Text(SxBuilder, kind, len, own) IN Weak(c) /\ Same(SxBuilder, c) /\ Cached(c)
  BY <1>3, TextAdded
<1> QED BY <1>1, <1>2, <1>4, CallbackStep

(* Comments, processing instructions and references.                       *)
LEMMA OtherStep ==
  ASSUME SxInv, SAX2OtherNode
  PROVE  SxInv'
<1> DEFINE node == SxNode("other")
           c == SAX2AppendChild(SxBuilder, node)
<1>1. node \in SxNodes /\ node.kind # "text"
  BY DEF SxNode, SxNodes, SxKinds
<1> HIDE DEF node
<1>2. Weak(c) /\ Same(SxBuilder, c) /\ LastOf(Last(c.tab)) = node
  BY <1>1, BuilderWeak, Appended
<1>3. SxBecomes(c) /\ UNCHANGED <<entChildren, calls>>
  BY DEF SAX2OtherNode, node
<1> HIDE DEF c
<1>4. Cached(c)
  BY <1>1, <1>2 DEF Cached, Fits
<1> QED BY <1>2, <1>3, <1>4, CallbackStep

(* A reference to an entity that has been parsed.                          *)
LEMMA ReferenceStep ==
  ASSUME SxInv, NEW e \in SxEnts, SxReferenceParsed(e)
  PROVE  SxInv'
<1>1. entChildren[e] \in SxLists
  BY DEF SxReferenceParsed, SxInv, SxTypes
<1> DEFINE c == SxCopy(SxBuilder, entChildren[e])
<1>2. Weak(c) /\ Same(SxBuilder, c) /\ Cached(c)
  BY <1>1, BuilderWeak, CopyRight
<1>3. SxBecomes(c) /\ UNCHANGED <<entChildren, calls>>
  BY DEF SxReferenceParsed
<1> HIDE DEF c
<1> QED BY <1>2, <1>3, CallbackStep

(* A node is opened below the last one.                                    *)
LEMMA Pushed ==
  ASSUME NEW tab \in Seq(SxKids), tab # <<>>
  PROVE  LET r == Append(tab, <<>>) IN
         /\ r \in Seq(SxKids) /\ r # <<>> /\ Len(r) = Len(tab) + 1 /\ Last(r) = <<>>
         /\ \A k \in 1..Len(tab) : r[k] = tab[k]
<1>1. <<>> \in SxKids
  BY DEF SxKids, Apart
<1> QED BY <1>1 DEF Last

(* An element is opened: its parent ends in it.                            *)
LEMMA StartStep ==
  ASSUME SxInv, SAX2StartElementNs
  PROVE  SxInv'
<1> DEFINE node == SxNode("elem")
           b == WithCache(SxBuilder, nodelen, -1)
           c == SAX2AppendChild(b, node)
           n == Len(nodeTab)
<1>0. n \in Nat \ {0} /\ nodelen \in Int /\ -1 \in Int
  BY CallsAre DEF SxInv, SxTypes
<1>1. node \in SxNodes /\ node.kind = "elem"
  BY DEF SxNode, SxNodes, SxKinds
<1>2. Weak(b) /\ b.tab = nodeTab /\ b.stopped = stopped
  BY <1>0, BuilderWeak, CacheSet
<1>3. [SxBuilder EXCEPT !.nodemem = -1] = b
  BY BuilderWeak DEF WithCache, Weak
<1> HIDE DEF node, b
<1>4. Weak(c) /\ Same(b, c) /\ LastOf(Last(c.tab)) = node
  BY <1>1, <1>2, Appended
<1>5. SxBecomes([c EXCEPT !.tab = Append(@, <<>>)]) /\ UNCHANGED <<entChildren, calls>>
  BY <1>3 DEF SAX2StartElementNs, node
<1> HIDE DEF c
<1>6. /\ c.tab \in Seq(SxKids) /\ c.tab # <<>> /\ Len(c.tab) = n
      /\ \A k \in 1..(n - 1) : c.tab[k] = nodeTab[k]
      /\ c.tab[n] = Last(c.tab)
  BY <1>2, <1>4 DEF Weak, Same, Last
<1>7. /\ nodeTab' = Append(c.tab, <<>>) /\ nodelen' = c.nodelen /\ nodemem' = c.nodemem
      /\ stopped' = c.stopped /\ clobbered' = FALSE
  BY <1>4, <1>5 DEF SxBecomes, Weak
<1> HIDE DEF n
<1>8. /\ nodeTab' \in Seq(SxKids) /\ nodeTab' # <<>> /\ Len(nodeTab') = n + 1
      /\ Last(nodeTab') = <<>>
      /\ \A k \in 1..n : nodeTab'[k] = c.tab[k]
  BY <1>6, <1>7, Pushed
<1>9. \A k \in 1..(n - 1) : nodeTab'[k] = nodeTab[k]
  BY <1>0, <1>6, <1>8
<1>10. SxTypes'
  <2>1. nodelen' \in Int /\ nodemem' \in Int /\ stopped' \in BOOLEAN
    BY <1>4, <1>7 DEF Weak
  <2> QED BY <1>5, <1>7, <1>8, <2>1 DEF SxInv, SxTypes
<1>11. SxDepths'
  <2>1. \A j \in 1..Len(calls) : calls[j].depth \in 2..(n + 1)
    BY <1>0, CallsAre DEF n
  <2> QED BY <1>5, <1>8, <2>1 DEF SxInv, SxDepths
<1>12. SxSaved'
  <2>1. \A j \in 1..Len(calls) : nodeTab'[calls[j].depth - 1] = nodeTab[calls[j].depth - 1]
    BY <1>9, CallsAre DEF n
  <2> QED BY <1>5, <2>1 DEF SxInv, SxSaved
<1>13. SxUnder'
  <2> SUFFICES ASSUME NEW k \in 1..n
               PROVE  \/ \E j \in 1..Len(calls) : calls[j].depth = k + 1
                      \/ LastOf(nodeTab'[k]).kind # "text"
    BY <1>0, <1>5, <1>8 DEF SxUnder
  <2>1. CASE k = n
    <3>1. LastOf(nodeTab'[k]) = node
      BY <1>4, <1>6, <1>8, <2>1
    <3> QED BY <1>1, <3>1
  <2>2. CASE k # n
    <3>1. k \in 1..(n - 1)
      BY <1>0, <2>2
    <3> QED BY <1>9, <3>1 DEF SxInv, SxUnder, n
  <2> QED BY <2>1, <2>2
<1>14. SxCached'
  BY <1>8 DEF SxCached, Fits, LastOf, SxNode
<1> QED BY <1>7, <1>10, <1>11, <1>12, <1>13, <1>14 DEF SxInv

(* An entity begins: what is saved is right for the node with the          *)
(* reference.                                                              *)
LEMMA EntityStartStep ==
  ASSUME SxInv, NEW e \in SxEnts, CtxtParseEntityStart(e)
  PROVE  SxInv'
<1> DEFINE n == Len(nodeTab)
           m == Len(calls)
           call == [ent |-> e, depth |-> n + 1, nodelen |-> nodelen, nodemem |-> nodemem]
<1>0. n \in Nat \ {0} /\ m \in Nat /\ nodelen \in Int /\ nodemem \in Int /\ stopped = FALSE
  BY CallsAre DEF SxInv, SxTypes, CtxtParseEntityStart
<1>1. /\ calls' = Append(calls, call) /\ nodeTab' = Append(nodeTab, <<>>)
      /\ nodelen' = 0 /\ nodemem' = 0 /\ UNCHANGED <<entChildren, stopped, clobbered>>
  BY DEF CtxtParseEntityStart
<1>2. /\ nodeTab' \in Seq(SxKids) /\ nodeTab' # <<>> /\ Len(nodeTab') = n + 1
      /\ Last(nodeTab') = <<>>
      /\ \A k \in 1..n : nodeTab'[k] = nodeTab[k]
  BY <1>1, Pushed DEF SxInv, SxTypes
<1>3. /\ calls' \in Seq([ent : SxEnts, depth : Nat, nodelen : Int, nodemem : Int])
      /\ Len(calls') = m + 1 /\ calls'[m + 1] = call
      /\ \A j \in 1..m : calls'[j] = calls[j]
  <2>1. call \in [ent : SxEnts, depth : Nat, nodelen : Int, nodemem : Int]
    BY <1>0
  <2> HIDE DEF call
  <2>2. calls \in Seq([ent : SxEnts, depth : Nat, nodelen : Int, nodemem : Int])
    BY DEF SxInv, SxTypes
  <2> QED BY <1>1, <2>1, <2>2, AppendProperties
<1>4. call.depth = n + 1 /\ call.nodelen = nodelen /\ call.nodemem = nodemem
  OBVIOUS
<1> HIDE DEF call
<1>c. \A j \in 1..m : calls[j].depth \in 2..n /\ calls[j].depth - 1 \in 1..n
  BY <1>0, CallsAre DEF n, m
<1>t. nodeTab[n] = Last(nodeTab)
  BY DEF Last
<1> HIDE DEF n, m
<1>i. \A j \in 1..(m + 1) : j = m + 1 \/ j \in 1..m
  BY <1>0
<1>5. SxTypes'
  BY <1>1, <1>2, <1>3 DEF SxInv, SxTypes
<1>6. SxDepths'
  <2>1. \A j \in 1..(m + 1) : calls'[j].depth \in 2..(n + 1)
    <3>1. n + 1 \in 2..(n + 1) /\ \A d \in 2..n : d \in 2..(n + 1)
      BY <1>0
    <3> QED BY <1>3, <1>4, <1>c, <1>i, <3>1
  <2>2. ASSUME NEW i \in 1..(m + 1), NEW j \in 1..(m + 1), i < j
        PROVE  calls'[i].depth < calls'[j].depth
    <3>1. i \in 1..m
      BY <1>0, <2>2
    <3>2. CASE j = m + 1
      <4>1. calls'[i].depth \in 2..n
        BY <1>3, <1>c, <3>1
      <4> QED BY <1>0, <1>3, <1>4, <3>2, <4>1, SMTT(60)
    <3>3. CASE j \in 1..m
      BY <1>3, <2>2, <3>1, <3>3 DEF SxInv, SxDepths, m
    <3> QED BY <1>i, <3>2, <3>3
  <2> QED BY <1>2, <1>3, <2>1, <2>2 DEF SxDepths
<1>7. SxSaved'
  <2> SUFFICES ASSUME NEW j \in 1..(m + 1)
               PROVE  Fits(LastOf(nodeTab'[calls'[j].depth - 1]), calls'[j].nodelen, calls'[j].nodemem)
    BY <1>3 DEF SxSaved
  <2>1. CASE j = m + 1
    <3>1. calls'[j].depth - 1 = n /\ n \in 1..n
      BY <1>0, <1>3, <1>4, <2>1
    <3>2. nodeTab'[calls'[j].depth - 1] = Last(nodeTab)
      BY <1>2, <1>t, <3>1
    <3> QED BY <1>0, <1>3, <1>4, <2>1, <3>2 DEF SxInv, SxCached
  <2>2. CASE j \in 1..m
    <3>1. nodeTab'[calls'[j].depth - 1] = nodeTab[calls[j].depth - 1] /\ calls'[j] = calls[j]
      BY <1>2, <1>3, <1>c, <2>2
    <3> QED BY <2>2, <3>1 DEF SxInv, SxSaved, m
  <2> QED BY <1>i, <2>1, <2>2
<1>8. SxUnder'
  <2> SUFFICES ASSUME NEW k \in 1..n
               PROVE  \/ \E j \in 1..(m + 1) : calls'[j].depth = k + 1
                      \/ LastOf(nodeTab'[k]).kind # "text"
    <3>1. 1..(Len(nodeTab') - 1) = 1..n
      BY <1>0, <1>2
    <3> QED BY <1>3, <3>1 DEF SxUnder
  <2>1. CASE k = n
    <3>1. m + 1 \in 1..(m + 1)
      BY <1>0
    <3> QED BY <1>3, <1>4, <2>1, <3>1
  <2>2. CASE k # n
    <3>1. k \in 1..(n - 1)
      BY <1>0, <2>2
    <3>2. \/ \E j \in 1..m : calls[j].depth = k + 1
          \/ LastOf(nodeTab[k]).kind # "text"
      BY <3>1 DEF SxInv, SxUnder, n, m
    <3>3. \A j \in 1..m : j \in 1..(m + 1)
      BY <1>0
    <3> QED BY <1>2, <1>3, <3>2, <3>3
  <2> QED BY <2>1, <2>2
<1>9. SxCached' /\ clobbered' = FALSE
  BY <1>1, <1>2 DEF SxCached, Fits, LastOf, SxNode, SxInv
<1> QED BY <1>5, <1>6, <1>7, <1>8, <1>9 DEF SxInv

(* An element is closed: its parent still ends in it, and not in a text.   *)
LEMMA EndStep ==
  ASSUME SxInv, SAX2EndElementNs
  PROVE  SxInv'
<1> DEFINE N == Len(nodeTab)
           n == N - 1
           b == [SxBuilder EXCEPT !.nodemem = -1, !.tab = Front(@)]
<1>0. N \in Nat \ {0} /\ N > SxBase /\ N > 1 /\ Len(calls) \in Nat
  BY CallsAre DEF SAX2EndElementNs
<1>1. SxBecomes(b) /\ UNCHANGED <<entChildren, calls>>
  BY DEF SAX2EndElementNs
<1>2. /\ b.tab = SubSeq(nodeTab, 1, n) /\ b.nodelen = nodelen /\ b.nodemem = -1
      /\ b.stopped = stopped /\ b.clobbered = clobbered
  BY DEF SxBuilder, Front
<1> HIDE DEF b
<1>3. /\ nodeTab' = SubSeq(nodeTab, 1, n) /\ nodelen' = nodelen /\ nodemem' = -1
      /\ stopped' = stopped /\ clobbered' = clobbered
  BY <1>1, <1>2 DEF SxBecomes
<1>4. n \in 1..(N - 1) /\ n \in Nat /\ n \in 0..Len(nodeTab) /\ n + 1 = N /\ n \in 1..n
  BY <1>0
<1>5. \A j \in 1..Len(calls) : calls[j].depth \in 2..n
  BY <1>0, <1>4, BaseIs, CallsAre
<1>6. /\ nodeTab' \in Seq(SxKids) /\ Len(nodeTab') = n
      /\ \A k \in 1..n : nodeTab'[k] = nodeTab[k]
  BY <1>3, <1>4, Prefix DEF SxInv, SxTypes
<1>7. nodeTab' # <<>> /\ Last(nodeTab') = nodeTab[n]
  BY <1>4, <1>6 DEF Last
<1> HIDE DEF n
<1>8. SxTypes'
  BY <1>1, <1>3, <1>6, <1>7 DEF SxInv, SxTypes
<1>9. SxDepths'
  BY <1>1, <1>5, <1>6 DEF SxInv, SxDepths
<1>10. SxSaved'
  <2>1. \A d \in 2..n : d - 1 \in 1..n
    BY <1>4
  <2>2. \A j \in 1..Len(calls) : nodeTab'[calls[j].depth - 1] = nodeTab[calls[j].depth - 1]
    BY <1>5, <1>6, <2>1
  <2> QED BY <1>1, <2>2 DEF SxInv, SxSaved
<1>11. SxUnder'
  <2>1. \A k \in 1..(n - 1) : k \in 1..(N - 1) /\ k \in 1..n
    BY <1>4
  <2> QED BY <1>1, <1>6, <2>1 DEF SxInv, SxUnder
<1>12. SxCached'
  <2>1. ~\E j \in 1..Len(calls) : calls[j].depth = n + 1
    <3>1. \A d \in 2..n : d # n + 1
      BY <1>4
    <3> QED BY <1>5, <3>1
  <2>2. LastOf(nodeTab[n]).kind # "text"
    BY <1>4, <2>1 DEF SxInv, SxUnder
  <2> QED BY <1>7, <2>2 DEF SxCached, Fits
<1> QED BY <1>3, <1>8, <1>9, <1>10, <1>11, <1>12 DEF SxInv

(* The children that an entity keeps.                                      *)
LEMMA ListKept ==
  ASSUME NEW kids \in SxKids
  PROVE  [i \in DOMAIN kids |-> [kids[i] EXCEPT !.cap = 0, !.own = TRUE]] \in SxLists
<1> DEFINE Bare(x) == [x EXCEPT !.cap = 0, !.own = TRUE]
           n == Len(kids)
           list == [i \in 1..n |-> Bare(kids[i])]
<1>1. kids \in Seq(SxNodes) /\ n \in Nat /\ DOMAIN kids = 1..n /\ Apart(kids)
  BY DEF SxKids
<1>2. \A x \in SxNodes : Bare(x) \in SxListNodes /\ Bare(x).kind = x.kind
  BY DEF SxNodes, SxListNodes
<1> HIDE DEF Bare
<1>3. \A i \in 1..n : kids[i] \in SxNodes
  BY <1>1, ElementOfSeq
<1> HIDE DEF n
<1>4. list \in Seq(SxListNodes) /\ Len(list) = n /\ \A i \in 1..n : list[i].kind = kids[i].kind
  <2>1. list \in [1..n -> SxListNodes]
    BY <1>2, <1>3
  <2>2. list \in Seq(SxListNodes) /\ Len(list) = n
    <3> HIDE DEF list
    <3> QED BY <1>1, <2>1
  <2>3. \A i \in 1..n : list[i].kind = kids[i].kind
    BY <1>2, <1>3
  <2> QED BY <2>2, <2>3
<1> HIDE DEF list
<1>5. \A i \in 1..(n - 1) : i \in 1..n /\ i + 1 \in 1..n
  BY <1>1
<1>6. Apart(list)
  BY <1>1, <1>4, <1>5 DEF Apart, n
<1>7. list \in SxLists
  BY <1>4, <1>6 DEF SxLists
<1> QED BY <1>1, <1>7 DEF list, Bare

(* An entity gets its children.                                            *)
LEMMA ChildrenKept ==
  ASSUME SxTypes, NEW e, NEW list \in SxLists
  PROVE  LET f == SxWithChildren(e, list) IN \A x \in DOMAIN f : f[x] \in SxLists
BY DEF SxTypes, SxWithChildren

(* The builder goes back to the node with the reference.                   *)
Resumed(b, tab, base, len, mem) ==
  [b EXCEPT !.tab = tab, !.base = base, !.nodelen = len, !.nodemem = mem]

(* The builder that goes on after an entity.                               *)
LEMMA ResumedWeak ==
  ASSUME NEW b, Weak(b), NEW tab \in Seq(SxKids), tab # <<>>, NEW base \in Nat,
         NEW len \in Int, NEW mem \in Int
  PROVE  LET c == Resumed(b, tab, base, len, mem) IN
         /\ Weak(c) /\ c.tab = tab /\ c.base = base /\ c.nodelen = len /\ c.nodemem = mem
         /\ c.stopped = b.stopped
BY DEF Weak, Resumed

(* An entity ends, whatever is still open in it: the saved cache is right  *)
(* for the node with the reference, and the copy starts from it.           *)
LEMMA EntityEndStep ==
  ASSUME SxInv, CtxtParseEntityEnd
  PROVE  SxInv'
<1> DEFINE M == Len(calls)
           m == M - 1
           call == calls[M]
           D == call.depth
           n == D - 1
           list == [i \in DOMAIN nodeTab[D] |-> [nodeTab[D][i] EXCEPT !.cap = 0, !.own = TRUE]]
           outer == IF M = 1 THEN 0 ELSE calls[M - 1].depth
           cache == SxRestored(call)
           tab == SubSeq(nodeTab, 1, n)
           b == Resumed(SxBuilder, tab, outer, cache.nodelen, cache.nodemem)
           c == SxCopy(b, list)
<1>0. stopped = FALSE /\ calls # <<>>
  BY DEF CtxtParseEntityEnd, SxInv, SxTypes
<1>t. nodeTab \in Seq(SxKids)
      /\ calls \in Seq([ent : SxEnts, depth : Nat, nodelen : Int, nodemem : Int])
  BY DEF SxInv, SxTypes
<1>1. M \in Nat \ {0} /\ m \in Nat /\ M \in 1..M /\ m \in 0..M
  BY <1>0, <1>t, CallsAre, EmptySeq
<1>2. cache.nodelen = call.nodelen /\ cache.nodemem = call.nodemem
  BY DEF SxRestored
<1>3. /\ SxBecomes(c) /\ calls' = SubSeq(calls, 1, m)
      /\ entChildren' = SxWithChildren(call.ent, list)
  BY Zenon DEF CtxtParseEntityEnd, Front, Last, Resumed
<1>4. /\ D \in 2..Len(nodeTab) /\ n \in 1..(Len(nodeTab) - 1) /\ D = n + 1 /\ n \in 1..n
      /\ n \in Nat \ {0} /\ n \in 0..Len(nodeTab) /\ Len(nodeTab) \in Nat
      /\ call.nodelen \in Int /\ call.nodemem \in Int
  BY <1>1, CallsAre
<1>5. list \in SxLists
  <2>1. D \in 1..Len(nodeTab)
    BY <1>4
  <2>2. nodeTab[D] \in SxKids
    BY <1>t, <2>1, ElementOfSeq
  <2> QED BY <2>2, ListKept
<1>6. outer \in Nat
  <2>1. M # 1 => M - 1 \in 1..M
    BY <1>1
  <2> QED BY <2>1, CallsAre
<1>7. tab \in Seq(SxKids) /\ Len(tab) = n /\ \A k \in 1..n : tab[k] = nodeTab[k]
  BY <1>t, <1>4, Prefix
<1> HIDE DEF tab
<1>8. tab # <<>> /\ Last(tab) = nodeTab[n]
  BY <1>4, <1>7 DEF Last
<1> HIDE DEF outer, cache, call
<1>9. /\ Weak(b) /\ b.tab = tab /\ b.nodelen = call.nodelen /\ b.nodemem = call.nodemem
  BY <1>2, <1>4, <1>6, <1>7, <1>8, BuilderWeak, ResumedWeak
<1> HIDE DEF list, b
<1>11. Cached(b)
  BY <1>1, <1>8, <1>9 DEF SxInv, SxSaved, Cached, call
<1>12. Weak(c) /\ Same(b, c) /\ Cached(c)
  BY <1>5, <1>9, <1>11, CopyRight
<1> HIDE DEF c
<1>13. /\ nodeTab' = c.tab /\ nodelen' = c.nodelen /\ nodemem' = c.nodemem
       /\ stopped' = c.stopped /\ clobbered' = FALSE
  BY <1>3, <1>12 DEF SxBecomes, Weak
<1>14. Len(nodeTab') = n /\ \A k \in 1..(n - 1) : nodeTab'[k] = nodeTab[k]
  <2>1. \A k \in 1..(n - 1) : k \in 1..n
    BY <1>4
  <2> QED BY <1>7, <1>9, <1>12, <1>13, <2>1 DEF Same
<1>15. /\ calls' \in Seq([ent : SxEnts, depth : Nat, nodelen : Int, nodemem : Int])
       /\ Len(calls') = m /\ \A j \in 1..m : calls'[j] = calls[j]
  BY <1>t, <1>1, <1>3, Prefix
<1>16. \A j \in 1..m : j \in 1..M /\ j < M
  BY <1>1
<1>17. \A j \in 1..m : calls[j].depth \in 2..n
  <2> SUFFICES ASSUME NEW j \in 1..m PROVE calls[j].depth \in 2..n
    OBVIOUS
  <2>1. calls[j].depth < D
    BY <1>1, <1>16 DEF SxInv, SxDepths, call
  <2>2. calls[j].depth \in 2..Len(nodeTab)
    BY <1>16, CallsAre
  <2> HIDE DEF n, D
  <2> QED BY <1>4, <2>1, <2>2
<1> HIDE DEF n, m, D
<1>18. SxTypes'
  <2>1. \A e \in DOMAIN entChildren' : entChildren'[e] \in SxLists
    BY <1>3, <1>5, ChildrenKept DEF SxInv
  <2>2. /\ nodeTab' \in Seq(SxKids) /\ nodeTab' # <<>> /\ nodelen' \in Int /\ nodemem' \in Int
        /\ stopped' \in BOOLEAN
    BY <1>12, <1>13 DEF Weak
  <2> QED BY <1>13, <1>15, <2>1, <2>2 DEF SxTypes
<1>19. SxDepths'
  <2>1. \A i, j \in 1..m : i < j => calls'[i].depth < calls'[j].depth
    BY <1>15, <1>16 DEF SxInv, SxDepths
  <2> QED BY <1>14, <1>15, <1>17, <2>1 DEF SxDepths
<1>20. SxSaved'
  <2>1. \A d \in 2..n : d - 1 \in 1..(n - 1)
    BY <1>4
  <2>2. \A j \in 1..m : nodeTab'[calls[j].depth - 1] = nodeTab[calls[j].depth - 1]
    BY <1>14, <1>17, <2>1
  <2>3. \A j \in 1..m : Fits(LastOf(nodeTab[calls[j].depth - 1]), calls[j].nodelen, calls[j].nodemem)
    BY <1>16 DEF SxInv, SxSaved
  <2> QED BY <1>15, <2>2, <2>3 DEF SxSaved
<1>21. SxUnder'
  <2> SUFFICES ASSUME NEW k \in 1..(n - 1)
               PROVE  \/ \E j \in 1..m : calls[j].depth = k + 1
                      \/ LastOf(nodeTab[k]).kind # "text"
    BY <1>14, <1>15 DEF SxUnder
  <2>1. k \in 1..(Len(nodeTab) - 1) /\ k + 1 # D
    BY <1>4
  <2>2. CASE LastOf(nodeTab[k]).kind # "text"
    BY <2>2
  <2>3. CASE \E j \in 1..M : calls[j].depth = k + 1
    <3>1. PICK j \in 1..M : calls[j].depth = k + 1
      BY <2>3
    <3>2. j # M
      BY <2>1, <3>1 DEF D, call
    <3>3. j \in 1..m
      BY <1>1, <3>2 DEF m
    <3> QED BY <3>1, <3>3
  <2> QED BY <2>1, <2>2, <2>3 DEF SxInv, SxUnder
<1>22. SxCached'
  BY <1>12, <1>13 DEF SxCached, Cached
<1> QED BY <1>13, <1>18, <1>19, <1>20, <1>21, <1>22 DEF SxInv

(***************************************************************************)
(* The theorem.                                                            *)
(***************************************************************************)
LEMMA SxInitially == SxInit => SxInv
<1> SUFFICES ASSUME SxInit PROVE SxInv
  OBVIOUS
<1>1. <<>> \in SxKids
  BY DEF SxKids, Apart
<1>2. nodeTab \in Seq(SxKids) /\ nodeTab # <<>> /\ Len(nodeTab) = 1 /\ Last(nodeTab) = <<>>
  BY <1>1 DEF SxInit, Last
<1>3. /\ calls = <<>> /\ Len(calls) = 0
      /\ calls \in Seq([ent : SxEnts, depth : Nat, nodelen : Int, nodemem : Int])
  BY DEF SxInit
<1>4. SxTypes
  <2>1. DOMAIN entChildren = {}
    BY DEF SxInit
  <2>2. \A e \in DOMAIN entChildren : entChildren[e] \in SxLists
    BY <2>1
  <2>3. nodelen \in Int /\ nodemem \in Int /\ stopped \in BOOLEAN /\ clobbered \in BOOLEAN
    <3>1. nodelen = 0 /\ nodemem = 0
      BY Zenon DEF SxInit
    <3>2. stopped \in BOOLEAN /\ clobbered \in BOOLEAN
      BY Zenon DEF SxInit
    <3>3. nodelen \in Int /\ nodemem \in Int
      BY <3>1
    <3> QED BY <3>2, <3>3, Zenon
  <2> QED BY <1>2, <1>3, <2>2, <2>3, Zenon DEF SxTypes
<1>5. SxDepths /\ SxSaved /\ SxUnder
  BY <1>2, <1>3 DEF SxDepths, SxSaved, SxUnder
<1>6. SxCached
  BY <1>2 DEF SxCached, Fits, LastOf, SxNode
<1> QED BY <1>4, <1>5, <1>6 DEF SxInit, SxInv

(* Every step keeps the invariant.                                         *)
LEMMA SxStep == SxInv /\ [SxNext]_sxVars => SxInv'
<1> SUFFICES ASSUME SxInv, [SxNext]_sxVars PROVE SxInv'
  OBVIOUS
<1>1. CASE UNCHANGED sxVars
  BY <1>1 DEF sxVars, SxInv, SxTypes, SxDepths, SxSaved, SxUnder, SxCached
<1>2. CASE SAX2StartElementNs
  BY <1>2, StartStep
<1>3. CASE SAX2EndElementNs
  BY <1>3, EndStep
<1>4. CASE SAX2Characters \/ SAX2CDataBlock
  BY <1>4, CharactersStep
<1>5. CASE SAX2OtherNode
  BY <1>5, OtherStep
<1>6. ASSUME NEW e \in SxEnts, SxReferenceParsed(e) PROVE SxInv'
  BY <1>6, ReferenceStep
<1>7. ASSUME NEW e \in SxEnts, CtxtParseEntityStart(e) PROVE SxInv'
  BY <1>7, EntityStartStep
<1>8. CASE CtxtParseEntityEnd
  BY <1>8, EntityEndStep
<1> QED BY <1>1, <1>2, <1>3, <1>4, <1>5, <1>6, <1>7, <1>8 DEF SxNext

(* Text is always appended behind what the last text node holds, into a    *)
(* buffer of its own that is large enough: nodelen and nodemem are about   *)
(* the last child of the current node whenever that is a text, for all     *)
(* nestings of elements and entities.                                      *)
THEOREM TextCacheRight == SxSpec => []SxCacheRight
<1>1. SxInv => SxCacheRight
  <2> SUFFICES ASSUME SxInv PROVE SxCacheRight
    OBVIOUS
  <2>1. SxLastChild(SxBuilder) = LastOf(Last(nodeTab))
    BY BuilderWeak, LastChildIs
  <2>2. ~clobbered
    BY DEF SxInv
  <2>3. ASSUME ~stopped, LastOf(Last(nodeTab)).kind = "text"
        PROVE  nodelen = LastOf(Last(nodeTab)).len /\ nodemem = LastOf(Last(nodeTab)).cap
    <3>1. stopped = FALSE
      BY <2>3 DEF SxInv, SxTypes
    <3> QED BY <2>3, <3>1 DEF SxInv, SxCached, Fits
  <2> QED BY <2>1, <2>2, <2>3 DEF SxCacheRight
<1> QED BY <1>1, SxInitially, SxStep, PTL DEF SxSpec

-----------------------------------------------------------------------------
(* If a prefix is bound above a position, there is a lowest such binding.  *)
LEMMA LowestExists ==
  ASSUME NEW p, NEW n \in Nat, IndexType,
         \E i \in (n + 1)..Len(bindings) : bindings[i].prefix = p
  PROVE  LET i == LowestAbove(p, n)
         IN  /\ i \in (n + 1)..Len(bindings)
             /\ bindings[i].prefix = p
             /\ \A j \in (n + 1)..(i - 1) : bindings[j].prefix # p
<1> DEFINE T == {i \in (n + 1)..Len(bindings) : bindings[i].prefix = p}
<1>1. Len(bindings) \in Nat
  BY LenProperties DEF IndexType
<1>2. PICK i \in T : \A j \in T : i <= j
  <2>1. T \subseteq Nat /\ T # {}
    BY <1>1
  <2> HIDE DEF T
  <2> QED BY <2>1, LeastNat
<1>3. \A j \in (n + 1)..(i - 1) : bindings[j].prefix # p
  <2> SUFFICES ASSUME NEW j \in (n + 1)..(i - 1), bindings[j].prefix = p PROVE FALSE
    OBVIOUS
  <2>1. j \in T
    BY <1>1
  <2> QED BY <2>1, <1>1, <1>2
<1>4. i \in (n + 1)..Len(bindings) /\ bindings[i].prefix = p
  OBVIOUS
<1> HIDE DEF T
<1> QED BY <1>3, <1>4 DEF LowestAbove

(* Positions up to n stay the last ones when the stack keeps those.        *)
LEMMA IsLastKept ==
  ASSUME NEW p, NEW n \in Nat, NEW k, IsLast(p, n, k),
         \A j \in 1..n : bindings'[j] = bindings[j]
  PROVE  /\ k \in 0..n
         /\ k > 0 => bindings'[k].prefix = p
         /\ \A j \in (k + 1)..n : bindings'[j].prefix # p
<1>1. /\ k \in 0..n
      /\ k > 0 => bindings[k].prefix = p
      /\ \A j \in (k + 1)..n : bindings[j].prefix # p
  BY DEF IsLast
<1>2. k > 0 => bindings'[k].prefix = p
  BY <1>1
<1>3. ASSUME NEW j \in (k + 1)..n PROVE bindings'[j].prefix # p
  <2>1. j \in 1..n
    BY <1>1
  <2> QED BY <1>1, <2>1
<1> QED BY <1>1, <1>2, <1>3

LEMMA DeclareInv ==
  ASSUME IndexInv, NEW p \in NsPrefixes, NEW u \in NsUris, Declare(p, u)
  PROVE  IndexInv'
<1> DEFINE b == [prefix |-> p, uri |-> u, old |-> scope[p]]
           L == Len(bindings)
<1>1. /\ b \in [prefix : NsPrefixes, uri : NsUris, old : Nat]
      /\ bindings \in Seq([prefix : NsPrefixes, uri : NsUris, old : Nat])
      /\ L \in Nat
  BY LenProperties DEF IndexInv, IndexType
<1>2. /\ bindings' = Append(bindings, b)
      /\ scope' = [scope EXCEPT ![p] = L + 1]
      /\ scope \in [NsPrefixes -> Nat]
      /\ Innermost /\ Shadowed
  BY DEF Declare, IndexInv, IndexType
<1>3. /\ Len(bindings') = L + 1
      /\ \A i \in 1..L : bindings'[i] = bindings[i]
      /\ bindings'[L + 1] = b
      /\ bindings' \in Seq([prefix : NsPrefixes, uri : NsUris, old : Nat])
  BY <1>1, <1>2, AppendProperties
<1> HIDE DEF b
<1>4. b.prefix = p /\ b.old = scope[p]
  BY DEF b
<1> HIDE DEF L
<1>5. IndexType'
  BY <1>1, <1>2, <1>3 DEF IndexType
<1>6. Innermost'
  <2> SUFFICES ASSUME NEW q \in NsPrefixes
               PROVE  IsLast(q, Len(bindings), scope[q])'
    BY DEF Innermost
  <2>1. IsLast(q, L, scope[q])
    BY <1>2 DEF Innermost, L
  <2>2. CASE q = p
    BY <2>2, <1>1, <1>2, <1>3, <1>4 DEF IsLast
  <2>3. CASE q # p
    <3>1. scope'[q] = scope[q] /\ scope[q] \in 0..L
      BY <2>1, <2>3, <1>2 DEF IsLast
    <3>2. scope[q] > 0 => bindings'[scope[q]].prefix = q
      BY <2>1, <3>1, <1>1, <1>3, SMTT(60) DEF IsLast
    <3>3. \A j \in (scope[q] + 1)..(L + 1) : bindings'[j].prefix # q
      <4> TAKE j \in (scope[q] + 1)..(L + 1)
      <4>1. CASE j = L + 1
        BY <4>1, <2>3, <1>3, <1>4
      <4>2. CASE j # L + 1
        <5>1. j \in (scope[q] + 1)..L /\ j \in 1..L
          BY <4>2, <3>1, <1>1
        <5> QED BY <5>1, <2>1, <1>3 DEF IsLast
      <4> QED BY <4>1, <4>2
    <3> QED BY <3>1, <3>2, <3>3, <1>1, <1>3 DEF IsLast
  <2> QED BY <2>2, <2>3
<1>7. Shadowed'
  <2> SUFFICES ASSUME NEW i \in 1..(L + 1)
               PROVE  IsLast(bindings[i].prefix, i - 1, bindings[i].old)'
    BY <1>3 DEF Shadowed
  <2>1. CASE i = L + 1
    <3>1. IsLast(p, L, scope[p])
      BY <1>2 DEF Innermost, L
    <3>2. i - 1 = L /\ bindings'[i].prefix = p /\ bindings'[i].old = scope[p]
      BY <2>1, <1>1, <1>3, <1>4
    <3>3. /\ scope[p] \in 0..L
          /\ scope[p] > 0 => bindings'[scope[p]].prefix = p
          /\ \A j \in (scope[p] + 1)..L : bindings'[j].prefix # p
      BY <3>1, <1>1, <1>3, IsLastKept
    <3> QED BY <3>2, <3>3 DEF IsLast
  <2>2. CASE i # L + 1
    <3>1. i \in 1..L /\ bindings'[i] = bindings[i]
      BY <2>2, <1>1, <1>3
    <3>2. IsLast(bindings[i].prefix, i - 1, bindings[i].old)
      BY <3>1, <1>2 DEF Shadowed, L
    <3>3. \A j \in 1..(i - 1) : bindings'[j] = bindings[j]
      BY <3>1, <1>1, <1>3
    <3> DEFINE q == bindings[i].prefix
               k == bindings[i].old
    <3>4. i - 1 \in Nat
      BY <3>1
    <3>5. /\ k \in 0..(i - 1)
          /\ k > 0 => bindings'[k].prefix = q
          /\ \A j \in (k + 1)..(i - 1) : bindings'[j].prefix # q
      BY <3>2, <3>3, <3>4, IsLastKept, ZenonT(60)
    <3> QED BY <3>1, <3>5 DEF IsLast
  <2> QED BY <2>1, <2>2
<1> QED BY <1>5, <1>6, <1>7 DEF IndexInv

LEMMA CloseInv ==
  ASSUME IndexInv, NEW n \in 0..Len(bindings), Close(n)
  PROVE  IndexInv'
<1> DEFINE L == Len(bindings)
           B == [prefix : NsPrefixes, uri : NsUris, old : Nat]
<1>1. /\ bindings \in Seq(B) /\ L \in Nat /\ n \in Nat /\ n < L
      /\ IndexType /\ Innermost /\ Shadowed
  BY LenProperties DEF IndexInv, IndexType, Close
<1>2. /\ Len(bindings') = n
      /\ \A i \in 1..n : bindings'[i] = bindings[i]
      /\ bindings' \in Seq(B)
  <2> DEFINE c == SubSeq(bindings, 1, n)
  <2>1. bindings' = c
    BY DEF Close
  <2>2. \A i \in 1..n : bindings[i] \in B
    <3>1. bindings \in [1..L -> B]
      BY <1>1, LenProperties
    <3> QED BY <3>1, <1>1
  <2>3. /\ c \in Seq(B)
        /\ Len(c) = IF 1 <= n THEN n - 1 + 1 ELSE 0
        /\ \A i \in 1..(n - 1 + 1) : c[i] = bindings[1 + i - 1]
    <3> HIDE DEF B
    <3> QED BY <1>1, <2>2, SubSeqProperties
  <2> HIDE DEF c, B
  <2>4. n \in Nat /\ 0 <= n
    BY <1>1
  <2>5. Len(c) = n
    BY <2>3, <2>4
  <2>6. \A i \in 1..n : c[i] = bindings[i]
    BY <2>3, <2>4
  <2> QED BY <2>1, <2>3, <2>5, <2>6
<1>3. \A i \in 1..L : bindings[i] \in B
  BY <1>1, LenProperties
<1>4. scope' = [p \in NsPrefixes |->
                  IF \E i \in (n + 1)..L : bindings[i].prefix = p
                  THEN bindings[LowestAbove(p, n)].old
                  ELSE scope[p]]
  BY DEF Close
<1> HIDE DEF L
(* What a prefix gets back is its last binding at or below n.              *)
<1>5. ASSUME NEW p \in NsPrefixes PROVE scope'[p] \in Nat /\ IsLast(p, n, scope'[p])
  <2>1. CASE \E i \in (n + 1)..L : bindings[i].prefix = p
    <3> DEFINE i == LowestAbove(p, n)
               k == bindings[i].old
    <3>1. /\ i \in (n + 1)..L /\ bindings[i].prefix = p
          /\ \A j \in (n + 1)..(i - 1) : bindings[j].prefix # p
      BY <2>1, <1>1, LowestExists DEF L
    <3>2. scope'[p] = k
      BY <1>4, <2>1
    <3> HIDE DEF i
    <3>3. i \in 1..L /\ i \in Nat
      BY <3>1, <1>1
    <3>4. k \in Nat /\ IsLast(p, i - 1, k)
      BY <3>1, <3>3, <1>1, <1>3 DEF Shadowed, L
    <3> HIDE DEF k
    <3>5. k <= n
      BY <3>1, <3>3, <3>4, <1>1 DEF IsLast
    <3> QED BY <3>1, <3>2, <3>3, <3>4, <3>5, <1>1 DEF IsLast
  <2>2. CASE ~ \E i \in (n + 1)..L : bindings[i].prefix = p
    <3>1. scope'[p] = scope[p]
      BY <1>4, <2>2
    <3>2. scope[p] \in Nat /\ IsLast(p, L, scope[p])
      BY <1>1 DEF Innermost, IndexType, L
    <3> QED BY <3>1, <3>2, <2>2, <1>1 DEF IsLast
  <2> QED BY <2>1, <2>2
<1>6. IndexType'
  <2>1. scope' \in [NsPrefixes -> Nat]
    BY <1>4, <1>5
  <2> QED BY <2>1, <1>2 DEF IndexType
<1>7. Innermost'
  <2> SUFFICES ASSUME NEW p \in NsPrefixes
               PROVE  IsLast(p, Len(bindings), scope[p])'
    BY DEF Innermost
  <2>1. PICK k : k = scope'[p]
    OBVIOUS
  <2>2. /\ k \in 0..n
        /\ k > 0 => bindings[k].prefix = p
        /\ \A j \in (k + 1)..n : bindings[j].prefix # p
    BY <1>5, <2>1 DEF IsLast
  <2>3. k > 0 => bindings'[k].prefix = p
    BY <2>2, <1>1, <1>2
  <2>4. ASSUME NEW j \in (k + 1)..n PROVE bindings'[j].prefix # p
    BY <2>2, <1>1, <1>2, SMTT(60)
  <2> QED BY <2>1, <2>2, <2>3, <2>4, <1>2 DEF IsLast
<1>8. Shadowed'
  <2> SUFFICES ASSUME NEW i \in 1..n
               PROVE  IsLast(bindings[i].prefix, i - 1, bindings[i].old)'
    BY <1>2 DEF Shadowed
  <2>1. i \in 1..L /\ bindings'[i] = bindings[i]
    BY <1>1, <1>2
  <2>2. IsLast(bindings[i].prefix, i - 1, bindings[i].old)
    BY <2>1, <1>1 DEF Shadowed, L
  <2>3. \A j \in 1..(i - 1) : bindings'[j] = bindings[j]
    BY <1>1, <1>2
  <2>4. i - 1 \in Nat
    BY <1>1
  <2> DEFINE q == bindings[i].prefix
             k == bindings[i].old
  <2>5. /\ k \in 0..(i - 1)
        /\ k > 0 => bindings'[k].prefix = q
        /\ \A j \in (k + 1)..(i - 1) : bindings'[j].prefix # q
    BY <2>2, <2>3, <2>4, IsLastKept
  <2> QED BY <2>1, <2>5 DEF IsLast
<1> QED BY <1>6, <1>7, <1>8 DEF IndexInv

LEMMA ResetInv ==
  ASSUME bindings = <<>>, scope = [p \in NsPrefixes |-> 0]
  PROVE  IndexInv
BY DEF IndexInv, IndexType, Innermost, Shadowed, IsLast

(* The index is always right, and so is what each binding remembers:       *)
(* xmlParserNsPush and xmlParserNsPop (parser.c:1665-1845) keep both,      *)
(* without ever searching the stack.                                       *)
THEOREM NsIndexInvariant == IndexSpec => []IndexInv
<1>1. IndexInit => IndexInv
  BY ResetInv DEF IndexInit
<1>2. IndexInv /\ [IndexNext]_indexVars => IndexInv'
  <2> SUFFICES ASSUME IndexInv, [IndexNext]_indexVars PROVE IndexInv'
    OBVIOUS
  <2>1. ASSUME NEW p \in NsPrefixes, NEW u \in NsUris, Declare(p, u) PROVE IndexInv'
    BY <2>1, DeclareInv
  <2>2. ASSUME NEW n \in 0..Len(bindings), Close(n) PROVE IndexInv'
    BY <2>2, CloseInv
  <2>3. CASE IndexReset
    BY <2>3 DEF IndexReset, IndexInv, IndexType, Innermost, Shadowed, IsLast
  <2>4. CASE UNCHANGED indexVars
    BY <2>4 DEF indexVars, IndexInv, IndexType, Innermost, Shadowed, IsLast
  <2> QED BY <2>1, <2>2, <2>3, <2>4 DEF IndexNext
<1> QED BY <1>1, <1>2, PTL DEF IndexSpec

(* A prefix resolves to its innermost declaration in scope.                *)
THEOREM NsInnermost == IndexSpec => []Innermost
<1>1. IndexInv => Innermost
  BY DEF IndexInv
<1> QED BY <1>1, NsIndexInvariant, PTL

-----------------------------------------------------------------------------
(* The constructs open after the first n nodes.                            *)
IsOpen(f, nodes, N) ==
  f = [n \in 0..N |-> IF n = 0 THEN <<>> ELSE f[n - 1] \o WrOpenOf(nodes[n])]

(* The recursive function of WrOpened exists.                              *)
LEMMA OpenExists ==
  ASSUME NEW nodes, NEW N \in Nat
  PROVE  \E f : IsOpen(f, nodes, N)
<1> DEFINE P == {n \in Nat : \E f : IsOpen(f, nodes, n)}
<1>1. 0 \in P
  <2>1. IsOpen([n \in 0..0 |-> <<>>], nodes, 0)
    BY DEF IsOpen
  <2> QED BY <2>1
<1>2. ASSUME NEW n \in Nat, n \in P PROVE n + 1 \in P
  <2>1. PICK f : IsOpen(f, nodes, n)
    BY <1>2
  <2> DEFINE g == [i \in 0..(n + 1) |-> IF i = n + 1 THEN f[n] \o WrOpenOf(nodes[i]) ELSE f[i]]
  <2>2. \A i \in 0..(n + 1) : i # 0 => i - 1 \in 0..n /\ g[i - 1] = f[i - 1]
    OBVIOUS
  <2>3. \A i \in 0..n : f[i] = IF i = 0 THEN <<>> ELSE f[i - 1] \o WrOpenOf(nodes[i])
    BY <2>1, Zenon DEF IsOpen
  <2>4. \A i \in 0..(n + 1) : g[i] = IF i = 0 THEN <<>> ELSE g[i - 1] \o WrOpenOf(nodes[i])
    BY <2>2, <2>3
  <2>5. IsOpen(g, nodes, n + 1)
    BY <2>4, Zenon DEF IsOpen
  <2> HIDE DEF g
  <2>6. \E h : IsOpen(h, nodes, n + 1)
    BY <2>5
  <2> QED BY <2>6
<1> HIDE DEF P
<1>3. N \in P
  BY <1>1, <1>2, Induct
<1> QED BY <1>3 DEF P

(* WrOpened is its last value.                                             *)
LEMMA OpenedDef ==
  ASSUME NEW nodes, Len(nodes) \in Nat
  PROVE  \E f : IsOpen(f, nodes, Len(nodes)) /\ WrOpened(nodes) = f[Len(nodes)]
<1>1. \E f : IsOpen(f, nodes, Len(nodes))
  BY OpenExists
<1> QED BY <1>1, Zenon DEF IsOpen, WrOpened

(* Without nodes nothing is open.                                          *)
LEMMA OpenedEmpty == WrOpened(<<>>) = <<>>
<1>1. PICK f : IsOpen(f, <<>>, 0) /\ WrOpened(<<>>) = f[0]
  BY OpenedDef
<1> QED BY <1>1 DEF IsOpen

(* A node on top adds what it leaves open.                                 *)
LEMMA OpenedAppend ==
  ASSUME NEW S, NEW nodes \in Seq(S), NEW x \in S
  PROVE  WrOpened(Append(nodes, x)) = WrOpened(nodes) \o WrOpenOf(x)
<1> DEFINE all == Append(nodes, x)
           N == Len(nodes)
<1>1. Len(all) = N + 1 /\ all[N + 1] = x /\ N \in Nat /\ \A i \in 1..N : all[i] = nodes[i]
  OBVIOUS
<1> HIDE DEF all
<1>2. PICK f : IsOpen(f, nodes, N) /\ WrOpened(nodes) = f[N]
  BY OpenedDef
<1>3. PICK g : IsOpen(g, all, N + 1) /\ WrOpened(all) = g[N + 1]
  BY <1>1, OpenedDef
<1>4. \A i \in 0..N : f[i] = IF i = 0 THEN <<>> ELSE f[i - 1] \o WrOpenOf(nodes[i])
  BY <1>2, Zenon DEF IsOpen
<1>5. \A i \in 0..(N + 1) : g[i] = IF i = 0 THEN <<>> ELSE g[i - 1] \o WrOpenOf(all[i])
  BY <1>3, Zenon DEF IsOpen
<1> DEFINE P == {n \in Nat : n <= N => f[n] = g[n]}
<1>6. 0 \in P
  BY <1>1, <1>4, <1>5
<1>7. ASSUME NEW n \in Nat, n \in P PROVE n + 1 \in P
  BY <1>1, <1>4, <1>5, <1>7
<1>8. N \in P
  <2> HIDE DEF P, N
  <2> QED BY <1>1, <1>6, <1>7, Induct
<1>9. g[N + 1] = g[N] \o WrOpenOf(x)
  <2>1. N + 1 \in 0..(N + 1) /\ N + 1 # 0 /\ (N + 1) - 1 = N
    BY <1>1
  <2>2. g[N + 1] = g[(N + 1) - 1] \o WrOpenOf(all[N + 1])
    BY <1>5, <2>1, Zenon
  <2> QED BY <1>1, <2>1, <2>2, Zenon
<1>10. f[N] = g[N]
  BY <1>1, <1>8
<1> QED BY <1>2, <1>3, <1>9, <1>10, Zenon DEF all

-----------------------------------------------------------------------------
(* The values a writer takes, written out.                                 *)
WrKinds == {"tag", "value", "elem", "comment", "pi", "cdata", "doctype", "subset", "decl"}
WrAnyName == WrNames \cup {""}
WrPairs == WrKinds \X WrAnyName
WrNodes == [state : WrStates, name : WrAnyName, link : WrLinks]
WrDecls == [prefix : WrPrefixes, uri : WrUris, elem : WrLinks \cup {0}]

(* A node.                                                                 *)
Nd(st, nm, lk) == [state |-> st, name |-> nm, link |-> lk]

WrFields == {"nodes", "nsstack", "nsAlive", "out", "nsLeft", "ok"}

(* A writer, field by field.                                               *)
Is(w, n, d, a, o, l, k) ==
  /\ DOMAIN w = WrFields
  /\ w.nodes = n /\ w.nsstack = d /\ w.nsAlive = a /\ w.out = o /\ w.nsLeft = l /\ w.ok = k

(* A writer whose front node is known.                                     *)
Top(w, base, st, nm, lk, d, a, o, l, k) ==
  /\ base \in Seq(WrNodes) /\ st \in WrStates /\ nm \in WrAnyName /\ lk \in WrLinks
  /\ Is(w, Append(base, Nd(st, nm, lk)), d, a, o, l, k)

(* The empty name is one.                                                  *)
LEMMA NoName == "" \in WrAnyName
BY DEF WrAnyName

(* The end of a sequence that an element was appended to.                  *)
LEMMA SeqEnds ==
  ASSUME NEW S, NEW s \in Seq(S), NEW x \in S
  PROVE  /\ Append(s, x) # <<>> /\ Last(Append(s, x)) = x /\ Front(Append(s, x)) = s
         /\ Append(s, x) \in Seq(S) /\ Len(Append(s, x)) = Len(s) + 1
<1> DEFINE t == Append(s, x)
<1>1. t \in Seq(S) /\ Len(t) = Len(s) + 1 /\ t[Len(s) + 1] = x /\ \A i \in 1..Len(s) : t[i] = s[i]
  OBVIOUS
<1> HIDE DEF t
<1>2. t # <<>> /\ Last(t) = x
  BY <1>1 DEF Last
<1>3. Front(t) = s
  BY <1>1 DEF Front
<1> QED BY <1>1, <1>2, <1>3 DEF t

(* A node is one.                                                          *)
LEMMA NdType ==
  ASSUME NEW st \in WrStates, NEW nm \in WrAnyName, NEW lk \in WrLinks
  PROVE  Nd(st, nm, lk) \in WrNodes
BY DEF Nd, WrNodes

(* Its fields.                                                             *)
LEMMA NdFields ==
  ASSUME NEW st, NEW nm, NEW lk
  PROVE  Nd(st, nm, lk).state = st /\ Nd(st, nm, lk).name = nm /\ Nd(st, nm, lk).link = lk
BY DEF Nd

(* A node in another state.                                                *)
LEMMA NdSet ==
  ASSUME NEW st, NEW nm, NEW lk, NEW s
  PROVE  [Nd(st, nm, lk) EXCEPT !.state = s] = Nd(s, nm, lk)
BY SMT DEF Nd

(* The basic operations on such a writer.                                  *)
LEMMA TopState ==
  ASSUME NEW w, NEW base, NEW st, NEW nm, NEW lk, NEW d, NEW a, NEW o, NEW l, NEW k,
         Top(w, base, st, nm, lk, d, a, o, l, k)
  PROVE  WrState(w) = st /\ WrName(w) = nm /\ w.nodes # <<>> /\ Last(w.nodes).link = lk
<1> DEFINE x == Nd(st, nm, lk)
<1>0. x.state = st /\ x.name = nm /\ x.link = lk
  BY NdFields
<1>1. x \in WrNodes
  BY NdType DEF Top
<1>2. base \in Seq(WrNodes) /\ w.nodes = Append(base, x)
  BY DEF Top, Is
<1> HIDE DEF x
<1>3. w.nodes # <<>> /\ Last(w.nodes) = x
  BY <1>1, <1>2, SeqEnds
<1> QED BY <1>0, <1>3 DEF WrState, WrName

(* Its state is set.                                                       *)
LEMMA SetTop ==
  ASSUME NEW w, NEW base, NEW st, NEW nm, NEW lk, NEW d, NEW a, NEW o, NEW l, NEW k,
         Top(w, base, st, nm, lk, d, a, o, l, k), NEW s \in WrStates
  PROVE  Top(WrSet(w, s), base, s, nm, lk, d, a, o, l, k)
<1> DEFINE n == Append(base, Nd(st, nm, lk))
           m == Append(base, Nd(s, nm, lk))
           x == Nd(st, nm, lk)
           y == Nd(s, nm, lk)
<1>1. x \in WrNodes /\ y \in WrNodes /\ base \in Seq(WrNodes)
  BY NdType DEF Top
<1>2. [x EXCEPT !.state = s] = y
  BY NdSet
<1> HIDE DEF x, y
<1>3. n \in Seq(WrNodes) /\ m \in Seq(WrNodes) /\ Len(n) = Len(base) + 1 /\ Len(m) = Len(n)
      /\ Len(base) \in Nat /\ n[Len(n)] = x /\ m[Len(n)] = y
      /\ \A i \in 1..Len(base) : n[i] = m[i]
  BY <1>1 DEF x, y
<1> HIDE DEF n, m
<1>4. [n EXCEPT ![Len(n)].state = s] = m
  <2>1. [n EXCEPT ![Len(n)].state = s] = [n EXCEPT ![Len(n)] = y]
    BY <1>2, <1>3
  <2>2. [n EXCEPT ![Len(n)] = y] = m
    BY <1>1, <1>3
  <2> QED BY <2>1, <2>2
<1>5. Is(w, n, d, a, o, l, k)
  BY DEF Top, n
<1>6. Is(WrSet(w, s), [n EXCEPT ![Len(n)].state = s], d, a, o, l, k)
  BY <1>5 DEF WrSet, Is, WrFields
<1> QED BY <1>4, <1>6 DEF Top, m

(* Output is opened.                                                       *)
LEMMA OpensTop ==
  ASSUME NEW w, NEW base, NEW st, NEW nm, NEW lk, NEW d, NEW a, NEW o, NEW l, NEW k,
         Top(w, base, st, nm, lk, d, a, o, l, k), NEW kind, NEW name
  PROVE  Top(WrOpens(w, kind, name), base, st, nm, lk, d, a, Append(o, <<kind, name>>), l, k)
<1> DEFINE n == Append(base, Nd(st, nm, lk))
<1>1. Is(w, n, d, a, o, l, k)
  BY DEF Top
<1> HIDE DEF n
<1>2. Is(WrOpens(w, kind, name), n, d, a, Append(o, <<kind, name>>), l, k)
  BY <1>1 DEF WrOpens, Is, WrFields
<1> QED BY <1>2 DEF Top, n

(* The innermost output is closed.                                         *)
LEMMA ClosesTop ==
  ASSUME NEW w, NEW base, NEW st, NEW nm, NEW lk, NEW d, NEW a, NEW o \in Seq(WrPairs),
         NEW l, NEW k, NEW kind \in WrKinds, NEW name \in WrAnyName,
         Top(w, base, st, nm, lk, d, a, Append(o, <<kind, name>>), l, k)
  PROVE  Top(WrCloses(w, kind, name), base, st, nm, lk, d, a, o, l, k)
<1> DEFINE n == Append(base, Nd(st, nm, lk))
           p == Append(o, <<kind, name>>)
           x == <<kind, name>>
<1>1. Is(w, n, d, a, p, l, k)
  BY DEF Top
<1>2. x \in WrPairs
  BY DEF WrPairs
<1>3. p # <<>> /\ Last(p) = x /\ Front(p) = o
  <2> HIDE DEF x
  <2>1. Append(o, x) # <<>> /\ Last(Append(o, x)) = x /\ Front(Append(o, x)) = o
    BY <1>2, SeqEnds
  <2> QED BY <2>1 DEF x
<1> HIDE DEF n, p
<1>4. Is(WrCloses(w, kind, name), n, d, a, o, l, k)
  BY <1>1, <1>3 DEF WrCloses, Is, WrFields
<1> QED BY <1>4 DEF Top, n

(* The front node goes.                                                    *)
LEMMA PopTop ==
  ASSUME NEW w, NEW base, NEW st, NEW nm, NEW lk, NEW d, NEW a, NEW o, NEW l, NEW k,
         Top(w, base, st, nm, lk, d, a, o, l, k)
  PROVE  Is(WrPop(w), base, d, a, o, l, k)
<1> DEFINE x == Nd(st, nm, lk)
           n == Append(base, x)
<1>1. x \in WrNodes /\ base \in Seq(WrNodes) /\ Is(w, n, d, a, o, l, k)
  BY NdType DEF Top
<1> HIDE DEF x
<1>2. Front(n) = base
  BY <1>1, SeqEnds
<1> HIDE DEF n
<1> QED BY <1>1, <1>2 DEF WrPop, Is, WrFields

(* A node comes to the front.                                              *)
LEMMA PushIs ==
  ASSUME NEW w, NEW n \in Seq(WrNodes), NEW d, NEW a, NEW o, NEW l, NEW k,
         Is(w, n, d, a, o, l, k),
         NEW st \in WrStates, NEW nm \in WrAnyName, NEW lk \in WrLinks
  PROVE  Top(WrPush(w, st, nm, lk), n, st, nm, lk, d, a, o, l, k)
<1>1. Is(WrPush(w, st, nm, lk), Append(n, Nd(st, nm, lk)), d, a, o, l, k)
  <2> DEFINE x == Nd(st, nm, lk)
  <2>1. WrPush(w, st, nm, lk) = [w EXCEPT !.nodes = Append(w.nodes, x)]
    BY DEF WrPush, Nd
  <2> HIDE DEF x
  <2>2. Is(WrPush(w, st, nm, lk), Append(n, x), d, a, o, l, k)
    BY <2>1 DEF Is, WrFields
  <2> QED BY <2>2 DEF x
<1> QED BY <1>1 DEF Top

(* The call fails.                                                         *)
LEMMA FailIs ==
  ASSUME NEW w, NEW n, NEW d, NEW a, NEW o, NEW l, NEW k, Is(w, n, d, a, o, l, k)
  PROVE  Is(WrFail(w), n, d, a, o, l, FALSE)
BY DEF WrFail, Is, WrFields

-----------------------------------------------------------------------------
(* Attributes and the namespace declarations.                              *)

(* The output in a start tag, and in an attribute of it.                   *)
TagOut(B, nm) == Append(B, <<"tag", nm>>)
ValueOut(B, nm) == Append(TagOut(B, nm), <<"value", "">>)

(* These are outputs.                                                      *)
LEMMA OutTypes ==
  ASSUME NEW B \in Seq(WrPairs), NEW nm \in WrAnyName
  PROVE  TagOut(B, nm) \in Seq(WrPairs) /\ ValueOut(B, nm) \in Seq(WrPairs)
<1> DEFINE x == <<"tag", nm>>
           y == <<"value", "">>
<1>1. x \in WrPairs /\ y \in WrPairs
  BY NoName DEF WrPairs, WrKinds
<1> HIDE DEF x, y
<1>2. Append(B, x) \in Seq(WrPairs)
  BY <1>1, SeqEnds
<1>3. Append(Append(B, x), y) \in Seq(WrPairs)
  BY <1>1, <1>2, SeqEnds
<1> QED BY <1>2, <1>3 DEF TagOut, ValueOut, x, y

(* xmlTextWriterEndAttribute closes the value.                             *)
LEMMA EndAttribute ==
  ASSUME NEW w, NEW base, NEW nm, NEW lk, NEW d, NEW a, NEW B \in Seq(WrPairs), NEW l, NEW k,
         Top(w, base, "ATTRIBUTE", nm, lk, d, a, ValueOut(B, nm), l, k)
  PROVE  Top(TextWriterEndAttribute(w), base, "NAME", nm, lk, d, a, TagOut(B, nm), l, k)
<1>1. WrState(w) = "ATTRIBUTE"
  BY TopState
<1>2. Top(WrSet(w, "NAME"), base, "NAME", nm, lk, d, a, ValueOut(B, nm), l, k)
  BY SetTop DEF WrStates
<1>3. TagOut(B, nm) \in Seq(WrPairs) /\ "value" \in WrKinds /\ "" \in WrAnyName
  BY NoName, OutTypes DEF Top, WrKinds
<1>4. Top(WrCloses(WrSet(w, "NAME"), "value", ""), base, "NAME", nm, lk, d, a, TagOut(B, nm), l, k)
  BY <1>2, <1>3, ClosesTop DEF ValueOut
<1> QED BY <1>1, <1>4 DEF TextWriterEndAttribute

(* xmlTextWriterStartAttribute closes an attribute that is open and opens  *)
(* one.                                                                    *)
LEMMA StartAttribute ==
  ASSUME NEW w, NEW base, NEW nm, NEW lk, NEW d, NEW a, NEW B \in Seq(WrPairs), NEW l, NEW k,
         \/ Top(w, base, "ATTRIBUTE", nm, lk, d, a, ValueOut(B, nm), l, k)
         \/ Top(w, base, "NAME", nm, lk, d, a, TagOut(B, nm), l, k)
  PROVE  Top(TextWriterStartAttribute(w), base, "ATTRIBUTE", nm, lk, d, a, ValueOut(B, nm), l, k)
<1> DEFINE v == IF WrState(w) = "ATTRIBUTE" THEN TextWriterEndAttribute(w) ELSE w
<1>1. WrState(w) \in {"ATTRIBUTE", "NAME"}
  BY TopState
<1>2. Top(v, base, "NAME", nm, lk, d, a, TagOut(B, nm), l, k)
  BY TopState, EndAttribute
<1>3. TextWriterStartAttribute(w) = WrSet(WrOpens(v, "value", ""), "ATTRIBUTE")
  BY <1>1 DEF TextWriterStartAttribute
<1> HIDE DEF v
<1>4. Top(WrOpens(v, "value", ""), base, "NAME", nm, lk, d, a, ValueOut(B, nm), l, k)
  BY <1>2, OpensTop DEF ValueOut
<1> QED BY <1>3, <1>4, SetTop DEF WrStates

(* xmlTextWriterWriteAttribute leaves the tag as it was.                   *)
LEMMA WriteAttribute ==
  ASSUME NEW w, NEW base, NEW nm, NEW lk, NEW d, NEW a, NEW B \in Seq(WrPairs), NEW l,
         Top(w, base, "NAME", nm, lk, d, a, TagOut(B, nm), l, TRUE)
  PROVE  Top(TextWriterWriteAttribute(w), base, "NAME", nm, lk, d, a, TagOut(B, nm), l, TRUE)
<1> DEFINE s == TextWriterStartAttribute(w)
<1>1. Top(s, base, "ATTRIBUTE", nm, lk, d, a, ValueOut(B, nm), l, TRUE)
  BY StartAttribute
<1> HIDE DEF s
<1>2. s.ok = TRUE
  BY <1>1 DEF Top, Is
<1> QED BY <1>1, <1>2, EndAttribute DEF TextWriterWriteAttribute, s

(* A declaration is written and taken off the list.                        *)
LEMMA WriteDecl ==
  ASSUME NEW w, NEW base, NEW nm, NEW lk, NEW d, NEW a, NEW B \in Seq(WrPairs), NEW l,
         Top(w, base, "NAME", nm, lk, d, a, TagOut(B, nm), l, TRUE)
  PROVE  Top(WrWriteDecl(w), base, "NAME", nm, lk, Front(d), a, TagOut(B, nm), l, TRUE)
<1> DEFINE v == [w EXCEPT !.nsstack = Front(@)]
           r == TextWriterWriteAttribute(v)
<1>1. Top(v, base, "NAME", nm, lk, Front(d), a, TagOut(B, nm), l, TRUE)
  <2> DEFINE n == Append(base, Nd("NAME", nm, lk))
  <2>1. Is(w, n, d, a, TagOut(B, nm), l, TRUE)
    BY DEF Top
  <2> HIDE DEF n
  <2>2. Is(v, n, Front(d), a, TagOut(B, nm), l, TRUE)
    BY <2>1 DEF Is, WrFields
  <2> HIDE DEF v
  <2> QED BY <2>2 DEF Top, n
<1> HIDE DEF v
<1>2. Top(r, base, "NAME", nm, lk, Front(d), a, TagOut(B, nm), l, TRUE)
  BY <1>1, WriteAttribute
<1>3. WrWriteDecl(w) = IF r.ok THEN r ELSE [r EXCEPT !.nsstack = <<>>, !.nsAlive = FALSE]
  BY DEF WrWriteDecl, v
<1> HIDE DEF r
<1>4. r.ok = TRUE
  BY <1>2 DEF Top, Is
<1> QED BY <1>2, <1>3, <1>4

(* The declarations written up to the nth one.                             *)
IsWritten(f, w, N) ==
  f = [n \in 0..N |-> IF n = 0 THEN w
                      ELSE IF f[n - 1].ok THEN WrWriteDecl(f[n - 1]) ELSE f[n - 1]]

(* The recursive function of TextWriterOutputNSDecl exists.                *)
LEMMA WrittenExists ==
  ASSUME NEW w, NEW N \in Nat
  PROVE  \E f : IsWritten(f, w, N)
<1> DEFINE Nxt(v) == IF v.ok THEN WrWriteDecl(v) ELSE v
           P == {n \in Nat : \E f : IsWritten(f, w, n)}
<1>1. 0 \in P
  <2>1. IsWritten([n \in 0..0 |-> w], w, 0)
    BY DEF IsWritten
  <2> QED BY <2>1
<1>2. ASSUME NEW n \in Nat, n \in P PROVE n + 1 \in P
  <2>1. PICK f : IsWritten(f, w, n)
    BY <1>2
  <2> HIDE DEF Nxt
  <2> DEFINE g == [i \in 0..(n + 1) |-> IF i = n + 1 THEN Nxt(f[n]) ELSE f[i]]
  <2>2. \A i \in 0..(n + 1) : i # 0 => i - 1 \in 0..n /\ g[i - 1] = f[i - 1]
    OBVIOUS
  <2>3. \A i \in 0..n : f[i] = IF i = 0 THEN w ELSE Nxt(f[i - 1])
    BY <2>1, Zenon DEF IsWritten, Nxt
  <2>4. \A i \in 0..(n + 1) : g[i] = IF i = 0 THEN w ELSE Nxt(g[i - 1])
    BY <2>2, <2>3
  <2>5. IsWritten(g, w, n + 1)
    BY <2>4, Zenon DEF IsWritten, Nxt
  <2> HIDE DEF g
  <2>6. \E h : IsWritten(h, w, n + 1)
    BY <2>5
  <2> QED BY <2>6
<1> HIDE DEF P
<1>3. N \in P
  BY <1>1, <1>2, Induct
<1> QED BY <1>3 DEF P

(* m declarations are left to write.                                       *)
Left(v, base, nm, lk, a, B, l, e, m) ==
  /\ e \in Seq(WrDecls) /\ Len(e) = m
  /\ Top(v, base, "NAME", nm, lk, e, a, TagOut(B, nm), l, TRUE)

(* xmlTextWriterOutputNSDecl writes all declarations and stays in the tag, *)
(* or fails without its list.                                              *)
LEMMA OutputNSDecl ==
  ASSUME NEW w, NEW base, NEW nm, NEW lk, NEW d \in Seq(WrDecls), NEW a \in BOOLEAN,
         NEW B \in Seq(WrPairs), NEW l,
         Top(w, base, "NAME", nm, lk, d, a, TagOut(B, nm), l, TRUE)
  PROVE  LET r == TextWriterOutputNSDecl(w) IN
         \/ a = TRUE /\ Top(r, base, "NAME", nm, lk, <<>>, a, TagOut(B, nm), l, TRUE)
         \/ a = FALSE /\ Top(r, base, "NAME", nm, lk, d, a, TagOut(B, nm), l, FALSE)
<1>0. w.nsstack = d /\ w.nsAlive = a
  BY DEF Top, Is
<1>1. CASE a = FALSE
  <2>1. TextWriterOutputNSDecl(w) = WrFail(w)
    BY <1>0, <1>1 DEF TextWriterOutputNSDecl
  <2>2. Top(WrFail(w), base, "NAME", nm, lk, d, a, TagOut(B, nm), l, FALSE)
    BY FailIs DEF Top
  <2> QED BY <1>1, <2>1, <2>2
<1>2. CASE a = TRUE
  <2> DEFINE N == Len(d)
  <2>1. N \in Nat
    OBVIOUS
  <2>2. PICK f : IsWritten(f, w, N) /\ TextWriterOutputNSDecl(w) = f[N]
    <3>1. \E f : IsWritten(f, w, Len(w.nsstack))
      BY <1>0, <2>1, WrittenExists
    <3>2. ~(~w.nsAlive)
      BY <1>0, <1>2
    <3>3. \E f : IsWritten(f, w, Len(w.nsstack)) /\ TextWriterOutputNSDecl(w) = f[Len(w.nsstack)]
      BY <3>1, <3>2, Zenon DEF IsWritten, TextWriterOutputNSDecl
    <3> QED BY <1>0, <3>3
  <2>3. f[0] = w
    BY <2>1, <2>2 DEF IsWritten
  <2>4. ASSUME NEW n \in 1..N, f[n - 1].ok PROVE f[n] = WrWriteDecl(f[n - 1])
    BY <2>1, <2>2, <2>4 DEF IsWritten
  <2> HIDE DEF N
  <2>d. Len(d) = N
    BY DEF N
  <2> HIDE DEF N
  <2> DEFINE Good(n) == \E e : Left(f[n], base, nm, lk, a, B, l, e, N - n)
             P == {n \in Nat : n <= N => Good(n)}
  <2>5. 0 \in P
    <3>0. N - 0 = N
      BY <2>1
    <3>1. Left(f[0], base, nm, lk, a, B, l, d, N - 0)
      BY <3>0, <2>3, <2>d DEF Left
    <3>2. Good(0)
      BY <3>1
    <3> HIDE DEF Good
    <3> QED BY <3>2
  <2>6. ASSUME NEW n \in Nat, n \in P PROVE n + 1 \in P
    <3>0. SUFFICES ASSUME n + 1 <= N PROVE Good(n + 1)
      <4> HIDE DEF Good
      <4> QED OBVIOUS
    <3>a. Good(n)
      <4> HIDE DEF Good
      <4> QED BY <2>1, <2>6, <3>0
    <3>1. PICK e : Left(f[n], base, nm, lk, a, B, l, e, N - n)
      BY <3>a
    <3>2. f[n].ok = TRUE /\ e \in Seq(WrDecls) /\ Len(e) = N - n
      BY <3>1 DEF Left, Top, Is
    <3>3. f[n + 1] = WrWriteDecl(f[n])
      <4>1. n + 1 \in 1..N /\ (n + 1) - 1 = n
        BY <2>1, <3>0
      <4>2. f[(n + 1) - 1].ok
        BY <3>2, <4>1
      <4> QED BY <2>4, <4>1, <4>2
    <3>4. Top(f[n + 1], base, "NAME", nm, lk, Front(e), a, TagOut(B, nm), l, TRUE)
      BY <3>1, <3>3, WriteDecl DEF Left
    <3>5. Front(e) \in Seq(WrDecls) /\ Len(Front(e)) = N - (n + 1)
      BY <2>1, <3>0, <3>2 DEF Front
    <3>6. Left(f[n + 1], base, nm, lk, a, B, l, Front(e), N - (n + 1))
      BY <3>4, <3>5 DEF Left
    <3> QED BY <3>6
  <2>7. N \in P
    <3> HIDE DEF P
    <3> QED BY <2>1, <2>5, <2>6, Induct
  <2>8. Good(N)
    <3> HIDE DEF Good
    <3> QED BY <2>1, <2>7
  <2>9. PICK e : Left(f[N], base, nm, lk, a, B, l, e, N - N)
    BY <2>8
  <2>10. e = <<>>
    BY <2>1, <2>9 DEF Left
  <2>11. Top(f[N], base, "NAME", nm, lk, <<>>, a, TagOut(B, nm), l, TRUE)
    BY <2>9, <2>10 DEF Left
  <2> QED BY <1>2, <2>2, <2>11
<1> QED BY <1>1, <1>2

-----------------------------------------------------------------------------
(* The writer and its output in step.                                      *)

(* The kind of output that a node leaves open.                             *)
WrKindOf(st) ==
  IF st = "TEXT" THEN "elem" ELSE IF st = "COMMENT" THEN "comment"
  ELSE IF st \in {"PI", "PI_TEXT"} THEN "pi" ELSE IF st = "CDATA" THEN "cdata"
  ELSE IF st = "DTD" THEN "doctype" ELSE "decl"

(* The output when B is open below a node.                                 *)
OutOf(B, st, nm) ==
  IF st = "NAME" THEN TagOut(B, nm)
  ELSE IF st = "ATTRIBUTE" THEN ValueOut(B, nm)
  ELSE IF st = "DTD_TEXT" THEN Append(Append(B, <<"doctype", "">>), <<"subset", "">>)
  ELSE IF st = "DTD_ENTY_TEXT" THEN Append(Append(B, <<"decl", "">>), <<"value", "">>)
  ELSE Append(B, <<WrKindOf(st), IF st = "TEXT" THEN nm ELSE "">>)

(* One construct more.                                                     *)
LEMMA ConcatOne ==
  ASSUME NEW S, NEW B \in Seq(S), NEW x \in S
  PROVE  B \o <<x>> = Append(B, x) /\ <<x>> \in Seq(S)
OBVIOUS

(* Two constructs more.                                                    *)
LEMMA ConcatTwo ==
  ASSUME NEW S, NEW B \in Seq(S), NEW x \in S, NEW y \in S
  PROVE  B \o <<x, y>> = Append(Append(B, x), y) /\ <<x, y>> \in Seq(S)
OBVIOUS

(* This is what WrOpenOf adds.                                             *)
LEMMA OutOfIs ==
  ASSUME NEW B \in Seq(WrPairs), NEW st \in WrStates, NEW nm \in WrAnyName, NEW lk
  PROVE  /\ OutOf(B, st, nm) = B \o WrOpenOf(Nd(st, nm, lk))
         /\ OutOf(B, st, nm) \in Seq(WrPairs)
         /\ WrOpenOf(Nd(st, nm, lk)) \in Seq(WrPairs)
<1> DEFINE x == Nd(st, nm, lk)
<1>1. x.state = st /\ x.name = nm
  BY DEF Nd
<1> HIDE DEF x
<1>2. \A k1 \in WrKinds, n1 \in WrAnyName : <<k1, n1>> \in WrPairs
  BY DEF WrPairs
<1>3. \A k1 \in WrKinds, n1 \in WrAnyName :
        /\ B \o <<<<k1, n1>>>> = Append(B, <<k1, n1>>)
        /\ Append(B, <<k1, n1>>) \in Seq(WrPairs)
        /\ <<<<k1, n1>>>> \in Seq(WrPairs)
  <2> TAKE k1 \in WrKinds, n1 \in WrAnyName
  <2> DEFINE p == <<k1, n1>>
  <2>1. p \in WrPairs
    BY <1>2
  <2> HIDE DEF p
  <2>2. B \o <<p>> = Append(B, p) /\ Append(B, p) \in Seq(WrPairs) /\ <<p>> \in Seq(WrPairs)
    BY <2>1, ConcatOne, SeqEnds
  <2> QED BY <2>2 DEF p
<1>4. \A k1, k2 \in WrKinds, n1 \in WrAnyName :
        /\ B \o <<<<k1, n1>>, <<k2, "">>>> = Append(Append(B, <<k1, n1>>), <<k2, "">>)
        /\ Append(Append(B, <<k1, n1>>), <<k2, "">>) \in Seq(WrPairs)
        /\ <<<<k1, n1>>, <<k2, "">>>> \in Seq(WrPairs)
  <2> TAKE k1, k2 \in WrKinds, n1 \in WrAnyName
  <2> DEFINE p == <<k1, n1>>
             q == <<k2, "">>
  <2>1. p \in WrPairs /\ q \in WrPairs
    BY NoName, <1>2
  <2> HIDE DEF p, q
  <2>2. B \o <<p, q>> = Append(Append(B, p), q) /\ <<p, q>> \in Seq(WrPairs)
    BY <2>1, ConcatTwo, Zenon
  <2>3. Append(Append(B, p), q) \in Seq(WrPairs)
    <3>1. Append(B, p) \in Seq(WrPairs)
      BY <2>1, SeqEnds
    <3> QED BY <2>1, <3>1, SeqEnds
  <2> QED BY <2>2, <2>3 DEF p, q
<1>5. CASE st = "NAME"
  BY <1>1, <1>3, <1>5 DEF OutOf, WrOpenOf, TagOut, WrKinds, x
<1>6. CASE st = "ATTRIBUTE"
  BY <1>1, <1>4, <1>6, ZenonT(60) DEF OutOf, WrOpenOf, TagOut, ValueOut, WrKinds, x
<1>7. CASE st = "DTD_TEXT"
  BY NoName, <1>1, <1>4, <1>7 DEF OutOf, WrOpenOf, WrKinds, x
<1>8. CASE st = "DTD_ENTY_TEXT"
  BY NoName, <1>1, <1>4, <1>8 DEF OutOf, WrOpenOf, WrKinds, x
<1>9. CASE st \notin {"NAME", "ATTRIBUTE", "DTD_TEXT", "DTD_ENTY_TEXT"}
  <2> DEFINE nn == IF st = "TEXT" THEN nm ELSE ""
  <2>1. WrKindOf(st) \in WrKinds /\ nn \in WrAnyName
    BY NoName DEF WrKindOf, WrKinds
  <2>2. OutOf(B, st, nm) = Append(B, <<WrKindOf(st), nn>>)
    BY <1>9 DEF OutOf
  <2>3. WrOpenOf(x) = <<<<WrKindOf(st), nn>>>>
    BY <1>1, <1>9 DEF WrOpenOf, WrKindOf, WrStates
  <2> HIDE DEF nn
  <2> QED BY <1>3, <2>1, <2>2, <2>3 DEF x
<1> QED BY <1>5, <1>6, <1>7, <1>8, <1>9

(* A node by its fields.                                                   *)
LEMMA WrNodeIs ==
  ASSUME NEW x \in WrNodes
  PROVE  /\ x = Nd(x.state, x.name, x.link)
         /\ x.state \in WrStates /\ x.name \in WrAnyName /\ x.link \in WrLinks
BY DEF Nd, WrNodes

(* What a node leaves open is output.                                      *)
LEMMA OpenOfType ==
  ASSUME NEW x \in WrNodes
  PROVE  WrOpenOf(x) \in Seq(WrPairs)
<1>1. <<>> \in Seq(WrPairs)
  OBVIOUS
<1>2. WrOpenOf(Nd(x.state, x.name, x.link)) \in Seq(WrPairs)
  BY <1>1, WrNodeIs, OutOfIs, Zenon
<1> QED BY <1>2, WrNodeIs

(* And so is what all nodes leave open.                                    *)
LEMMA OpenedType ==
  ASSUME NEW nodes \in Seq(WrNodes)
  PROVE  WrOpened(nodes) \in Seq(WrPairs)
<1> DEFINE N == Len(nodes)
<1>1. N \in Nat /\ \A i \in 1..N : nodes[i] \in WrNodes
  OBVIOUS
<1>2. PICK f : IsOpen(f, nodes, N) /\ WrOpened(nodes) = f[N]
  BY OpenedDef
<1>3. \A i \in 0..N : f[i] = IF i = 0 THEN <<>> ELSE f[i - 1] \o WrOpenOf(nodes[i])
  BY <1>2, Zenon DEF IsOpen
<1> HIDE DEF N
<1> DEFINE P == {n \in Nat : n <= N => f[n] \in Seq(WrPairs)}
<1>4. 0 \in P
  <2>1. f[0] = <<>>
    BY <1>1, <1>3
  <2>2. <<>> \in Seq(WrPairs)
    OBVIOUS
  <2> QED BY <2>1, <2>2
<1>5. ASSUME NEW n \in Nat, n \in P PROVE n + 1 \in P
  <2> SUFFICES ASSUME n + 1 <= N PROVE f[n + 1] \in Seq(WrPairs)
    OBVIOUS
  <2>1. n + 1 \in 1..N /\ n + 1 \in 0..N /\ n + 1 # 0 /\ (n + 1) - 1 = n
    BY <1>1
  <2>2. f[n + 1] = f[n] \o WrOpenOf(nodes[n + 1])
    BY <1>3, <2>1
  <2>3. WrOpenOf(nodes[n + 1]) \in Seq(WrPairs)
    BY <1>1, <2>1, OpenOfType
  <2>4. f[n] \in Seq(WrPairs)
    BY <1>5, <1>1
  <2> DEFINE u == f[n]
             v == WrOpenOf(nodes[n + 1])
  <2> HIDE DEF u, v
  <2>5. u \in Seq(WrPairs) /\ v \in Seq(WrPairs)
    BY <2>3, <2>4 DEF u, v
  <2>6. u \o v \in Seq(WrPairs)
    BY <2>5
  <2> QED BY <2>2, <2>6 DEF u, v
<1>6. N \in P
  <2> HIDE DEF P
  <2> QED BY <1>1, <1>4, <1>5, Induct
<1> QED BY <1>1, <1>2, <1>6

(* What the waiting declarations belong to.                                *)
NsFor(st, lk, d, l) ==
  l = FALSE =>
    /\ d # <<>> => st \in {"NAME", "ATTRIBUTE"}
    /\ \A i \in 1..Len(d) : d[i].elem = lk
    /\ \A i, j \in 1..Len(d) : d[i].prefix = d[j].prefix => i = j

(* State and link of the front node.                                       *)
FrontState(n) == IF n = <<>> THEN "none" ELSE Last(n).state
FrontLink(n) == IF n = <<>> THEN 0 ELSE Last(n).link

(* The output is what the nodes leave open, and declarations wait only in  *)
(* the start tag they belong to, unless a failed call has left one behind. *)
InStep(w) ==
  /\ DOMAIN w = WrFields
  /\ w.nodes \in Seq(WrNodes) /\ w.nsstack \in Seq(WrDecls)
  /\ w.nsAlive \in BOOLEAN /\ w.nsLeft \in BOOLEAN
  /\ w.out = WrOpened(w.nodes)
  /\ NsFor(FrontState(w.nodes), FrontLink(w.nodes), w.nsstack, w.nsLeft)

(* The same of a writer whose front node is known.                         *)
At(w, base, st, nm, lk, d, a, l, k) ==
  /\ d \in Seq(WrDecls) /\ a \in BOOLEAN /\ l \in BOOLEAN
  /\ NsFor(st, lk, d, l)
  /\ Top(w, base, st, nm, lk, d, a, OutOf(WrOpened(base), st, nm), l, k)

(* The output below the front node.                                        *)
LEMMA OpenedTop ==
  ASSUME NEW base \in Seq(WrNodes), NEW st \in WrStates, NEW nm \in WrAnyName,
         NEW lk \in WrLinks
  PROVE  WrOpened(Append(base, Nd(st, nm, lk))) = OutOf(WrOpened(base), st, nm)
<1>1. WrOpened(base) \in Seq(WrPairs)
  BY OpenedType
<1>2. Nd(st, nm, lk) \in WrNodes
  BY NdType
<1>3. WrOpened(Append(base, Nd(st, nm, lk))) = WrOpened(base) \o WrOpenOf(Nd(st, nm, lk))
  BY <1>2, OpenedAppend
<1> QED BY <1>1, <1>3, OutOfIs, Zenon

(* A writer with such a front node is in step.                             *)
LEMMA AtInStep ==
  ASSUME NEW w, NEW base, NEW st, NEW nm, NEW lk, NEW d, NEW a, NEW l, NEW k,
         At(w, base, st, nm, lk, d, a, l, k)
  PROVE  InStep(w)
<1> DEFINE x == Nd(st, nm, lk)
           n == Append(base, x)
<1>1. x \in WrNodes /\ base \in Seq(WrNodes)
  BY NdType DEF At, Top
<1>2. n \in Seq(WrNodes)
  <2> HIDE DEF x
  <2> QED BY <1>1, SeqEnds
<1>3. WrOpened(n) = OutOf(WrOpened(base), st, nm)
  BY OpenedTop DEF At, Top
<1>4. Is(w, n, d, a, WrOpened(n), l, k)
  BY <1>3 DEF At, Top
<1>5. WrState(w) = st /\ w.nodes # <<>> /\ Last(w.nodes).link = lk
  BY TopState DEF At
<1>6. FrontState(n) = st /\ FrontLink(n) = lk
  BY <1>4, <1>5 DEF WrState, FrontState, FrontLink, Is
<1> HIDE DEF n
<1> QED BY <1>2, <1>4, <1>6 DEF InStep, At, Is

(* A writer in step that has nodes has such a front node.                  *)
LEMMA InStepAt ==
  ASSUME NEW w, InStep(w), w.nodes # <<>>
  PROVE  \E base, st, nm, lk : At(w, base, st, nm, lk, w.nsstack, w.nsAlive, w.nsLeft, w.ok)
<1> DEFINE n == w.nodes
           base == Front(n)
           x == Last(n)
<1>1. n \in Seq(WrNodes) /\ n # <<>>
  BY DEF InStep
<1>2. base \in Seq(WrNodes) /\ x \in WrNodes /\ n = Append(base, x)
  <2> HIDE DEF n
  <2> QED BY <1>1 DEF Front, Last
<1>3. FrontState(n) = x.state /\ FrontLink(n) = x.link
  BY <1>1 DEF FrontState, FrontLink
<1> HIDE DEF base, x
<1> DEFINE st == x.state
           nm == x.name
           lk == x.link
<1>4. st \in WrStates /\ nm \in WrAnyName /\ lk \in WrLinks /\ x = Nd(st, nm, lk)
  BY <1>2, WrNodeIs
<1> HIDE DEF st, nm, lk
<1>5. WrOpened(n) = OutOf(WrOpened(base), st, nm)
  BY <1>2, <1>4, OpenedTop
<1>6. Is(w, n, w.nsstack, w.nsAlive, OutOf(WrOpened(base), st, nm), w.nsLeft, w.ok)
  BY <1>5 DEF InStep, Is
<1>7. Top(w, base, st, nm, lk, w.nsstack, w.nsAlive, OutOf(WrOpened(base), st, nm), w.nsLeft, w.ok)
  BY <1>2, <1>4, <1>6 DEF Top
<1>8. NsFor(st, lk, w.nsstack, w.nsLeft)
  BY <1>3 DEF InStep, st, lk
<1>9. At(w, base, st, nm, lk, w.nsstack, w.nsAlive, w.nsLeft, w.ok)
  BY <1>7, <1>8 DEF At, InStep
<1> QED BY <1>9

(* A node popped, or a call that leaves the stack alone.                   *)
LEMMA IsInStep ==
  ASSUME NEW w, NEW n \in Seq(WrNodes), NEW d \in Seq(WrDecls), NEW a \in BOOLEAN,
         NEW l \in BOOLEAN, NEW k, l = TRUE \/ d = <<>>,
         Is(w, n, d, a, WrOpened(n), l, k)
  PROVE  InStep(w)
<1>1. NsFor(FrontState(n), FrontLink(n), d, l)
  BY DEF NsFor
<1> QED BY <1>1 DEF InStep, Is

-----------------------------------------------------------------------------
(* The calls on a writer in step.                                          *)

(* What the calls read of it.                                              *)
LEMMA AtState ==
  ASSUME NEW w, NEW base, NEW st, NEW nm, NEW lk, NEW d, NEW a, NEW l, NEW k,
         At(w, base, st, nm, lk, d, a, l, k)
  PROVE  /\ WrState(w) = st /\ WrName(w) = nm /\ w.nodes # <<>> /\ Last(w.nodes).link = lk
         /\ w.nsstack = d /\ w.nsAlive = a /\ w.nsLeft = l /\ w.ok = k
         /\ base \in Seq(WrNodes) /\ Len(w.nodes) = Len(base) + 1
         /\ WrOpened(base) \in Seq(WrPairs)
         /\ st \in WrStates /\ nm \in WrAnyName /\ lk \in WrLinks
<1> DEFINE x == Nd(st, nm, lk)
<1>1. Top(w, base, st, nm, lk, d, a, OutOf(WrOpened(base), st, nm), l, k)
  BY DEF At
<1>2. x \in WrNodes /\ base \in Seq(WrNodes) /\ w.nodes = Append(base, x)
      /\ st \in WrStates /\ nm \in WrAnyName /\ lk \in WrLinks
  BY <1>1, NdType DEF Top, Is
<1> HIDE DEF x
<1>3. Len(Append(base, x)) = Len(base) + 1
  BY <1>2, SeqEnds
<1>4. w.nsstack = d /\ w.nsAlive = a /\ w.nsLeft = l /\ w.ok = k
  BY <1>1 DEF Top, Is
<1>5. WrState(w) = st /\ WrName(w) = nm /\ w.nodes # <<>> /\ Last(w.nodes).link = lk
  BY <1>1, TopState
<1>6. WrOpened(base) \in Seq(WrPairs)
  BY <1>2, OpenedType
<1> QED BY <1>2, <1>3, <1>4, <1>5, <1>6

(* A call fails.                                                           *)
LEMMA AtFail ==
  ASSUME NEW w, NEW base, NEW st, NEW nm, NEW lk, NEW d, NEW a, NEW l, NEW k,
         At(w, base, st, nm, lk, d, a, l, k)
  PROVE  At(WrFail(w), base, st, nm, lk, d, a, l, FALSE)
BY FailIs DEF At, Top

(* The end of an attribute.                                                *)
LEMMA AtEndAttribute ==
  ASSUME NEW w, NEW base, NEW nm, NEW lk, NEW d, NEW a, NEW l, NEW k,
         At(w, base, "ATTRIBUTE", nm, lk, d, a, l, k)
  PROVE  At(TextWriterEndAttribute(w), base, "NAME", nm, lk, d, a, l, k)
<1> DEFINE B == WrOpened(base)
           v == TextWriterEndAttribute(w)
<1>1. B \in Seq(WrPairs)
  BY AtState
<1>2. Top(w, base, "ATTRIBUTE", nm, lk, d, a, ValueOut(B, nm), l, k)
  BY DEF At, OutOf
<1> HIDE DEF B
<1>3. Top(v, base, "NAME", nm, lk, d, a, TagOut(B, nm), l, k)
  BY <1>1, <1>2, EndAttribute
<1>4. Top(v, base, "NAME", nm, lk, d, a, OutOf(B, "NAME", nm), l, k)
  BY <1>3 DEF OutOf
<1>5. NsFor("NAME", lk, d, l)
  BY DEF At, NsFor
<1> HIDE DEF v
<1>6. At(v, base, "NAME", nm, lk, d, a, l, k)
  BY <1>4, <1>5 DEF At, B
<1> QED BY <1>6 DEF v

(* The start of one.                                                       *)
LEMMA AtStartAttribute ==
  ASSUME NEW w, NEW base, NEW st \in {"NAME", "ATTRIBUTE"}, NEW nm, NEW lk, NEW d, NEW a,
         NEW l, NEW k, At(w, base, st, nm, lk, d, a, l, k)
  PROVE  At(TextWriterStartAttribute(w), base, "ATTRIBUTE", nm, lk, d, a, l, k)
<1> DEFINE B == WrOpened(base)
           v == TextWriterStartAttribute(w)
<1>1. B \in Seq(WrPairs)
  BY AtState
<1>2. \/ Top(w, base, "ATTRIBUTE", nm, lk, d, a, ValueOut(B, nm), l, k)
      \/ Top(w, base, "NAME", nm, lk, d, a, TagOut(B, nm), l, k)
  BY DEF At, OutOf
<1> HIDE DEF B
<1>3. Top(v, base, "ATTRIBUTE", nm, lk, d, a, ValueOut(B, nm), l, k)
  BY <1>1, <1>2, StartAttribute
<1>4. Top(v, base, "ATTRIBUTE", nm, lk, d, a, OutOf(B, "ATTRIBUTE", nm), l, k)
  BY <1>3 DEF OutOf
<1>5. NsFor("ATTRIBUTE", lk, d, l)
  BY DEF At, NsFor
<1> HIDE DEF v
<1>6. At(v, base, "ATTRIBUTE", nm, lk, d, a, l, k)
  BY <1>4, <1>5 DEF At, B
<1> QED BY <1>6 DEF v

(* The declarations of a tag.                                              *)
LEMMA AtOutputNSDecl ==
  ASSUME NEW w, NEW base, NEW nm, NEW lk, NEW d, NEW a, NEW l,
         At(w, base, "NAME", nm, lk, d, a, l, TRUE)
  PROVE  \/ a = TRUE /\ At(TextWriterOutputNSDecl(w), base, "NAME", nm, lk, <<>>, a, l, TRUE)
         \/ a = FALSE /\ At(TextWriterOutputNSDecl(w), base, "NAME", nm, lk, d, a, l, FALSE)
<1> DEFINE B == WrOpened(base)
           v == TextWriterOutputNSDecl(w)
<1>1. B \in Seq(WrPairs) /\ d \in Seq(WrDecls) /\ a \in BOOLEAN /\ l \in BOOLEAN
  BY AtState DEF At
<1>2. Top(w, base, "NAME", nm, lk, d, a, TagOut(B, nm), l, TRUE)
  BY DEF At, OutOf
<1> HIDE DEF B
<1>3. \/ a = TRUE /\ Top(v, base, "NAME", nm, lk, <<>>, a, TagOut(B, nm), l, TRUE)
      \/ a = FALSE /\ Top(v, base, "NAME", nm, lk, d, a, TagOut(B, nm), l, FALSE)
  BY <1>1, <1>2, OutputNSDecl
<1>4. OutOf(B, "NAME", nm) = TagOut(B, nm)
  BY DEF OutOf
<1>5. NsFor("NAME", lk, <<>>, l) /\ NsFor("NAME", lk, d, l) /\ <<>> \in Seq(WrDecls)
  BY DEF At, NsFor
<1> HIDE DEF v
<1>6. \/ a = TRUE /\ At(v, base, "NAME", nm, lk, <<>>, a, l, TRUE)
      \/ a = FALSE /\ At(v, base, "NAME", nm, lk, d, a, l, FALSE)
  BY <1>1, <1>3, <1>4, <1>5 DEF At, B
<1> QED BY <1>6 DEF v

(* The tag is finished: its declarations and the closing bracket.          *)
LEMMA AtFinishTag ==
  ASSUME NEW w, NEW base, NEW nm, NEW lk, NEW d, NEW a, NEW l,
         At(w, base, "NAME", nm, lk, d, a, l, TRUE)
  PROVE  \/ a = TRUE /\ At(WrFinishTag(w), base, "TEXT", nm, lk, <<>>, a, l, TRUE)
         \/ a = FALSE /\ At(WrFinishTag(w), base, "NAME", nm, lk, d, a, l, FALSE)
<1> DEFINE B == WrOpened(base)
           v == TextWriterOutputNSDecl(w)
<1>0. WrFinishTag(w) = IF ~v.ok THEN v
        ELSE WrSet(WrOpens(WrCloses(v, "tag", WrName(v)), "elem", WrName(v)), "TEXT")
  BY DEF WrFinishTag
<1> HIDE DEF v
<1>1. \/ a = TRUE /\ At(v, base, "NAME", nm, lk, <<>>, a, l, TRUE)
      \/ a = FALSE /\ At(v, base, "NAME", nm, lk, d, a, l, FALSE)
  BY AtOutputNSDecl DEF v
<1>2. CASE a = FALSE
  <2>0. At(v, base, "NAME", nm, lk, d, a, l, FALSE)
    BY <1>1, <1>2
  <2>1. v.ok = FALSE
    BY <2>0, AtState
  <2> QED BY <1>0, <1>1, <1>2, <2>1
<1>3. CASE a = TRUE
  <2>0. At(v, base, "NAME", nm, lk, <<>>, a, l, TRUE)
    BY <1>1, <1>3
  <2>1. v.ok = TRUE /\ WrName(v) = nm /\ B \in Seq(WrPairs) /\ nm \in WrAnyName
    <3> DEFINE e == <<>>
               k == TRUE
    <3>1. At(v, base, "NAME", nm, lk, e, a, l, k)
      BY <2>0
    <3> HIDE DEF e, k
    <3>2. v.ok = k /\ WrName(v) = nm /\ WrOpened(base) \in Seq(WrPairs)
          /\ nm \in WrAnyName
      BY <3>1, AtState
    <3> QED BY <3>2 DEF k
  <2>2. Top(v, base, "NAME", nm, lk, <<>>, a, Append(B, <<"tag", nm>>), l, TRUE)
    BY <1>1, <1>3 DEF At, OutOf, TagOut
  <2> HIDE DEF B
  <2>3. Top(WrCloses(v, "tag", nm), base, "NAME", nm, lk, <<>>, a, B, l, TRUE)
    BY <2>1, <2>2, ClosesTop DEF WrKinds
  <2>4. Top(WrOpens(WrCloses(v, "tag", nm), "elem", nm), base, "NAME", nm, lk, <<>>, a,
            Append(B, <<"elem", nm>>), l, TRUE)
    BY <2>3, OpensTop
  <2>5. Top(WrFinishTag(w), base, "TEXT", nm, lk, <<>>, a, Append(B, <<"elem", nm>>), l, TRUE)
    BY <1>0, <2>1, <2>4, SetTop DEF WrStates
  <2>6. OutOf(B, "TEXT", nm) = Append(B, <<"elem", nm>>)
    BY DEF OutOf, WrKindOf
  <2>7. NsFor("TEXT", lk, <<>>, l) /\ <<>> \in Seq(WrDecls) /\ l \in BOOLEAN
    BY DEF NsFor, At
  <2> QED BY <1>3, <2>5, <2>6, <2>7 DEF At, B
<1>4. a \in BOOLEAN
  BY DEF At
<1> QED BY <1>2, <1>3, <1>4

(* The same with an attribute open.                                        *)
LEMMA AtFinishTagAfterAttribute ==
  ASSUME NEW w, NEW base, NEW st \in {"NAME", "ATTRIBUTE"}, NEW nm, NEW lk, NEW d, NEW a,
         NEW l, At(w, base, st, nm, lk, d, a, l, TRUE)
  PROVE  LET r == WrFinishTagAfterAttribute(w) IN
         \/ a = TRUE /\ At(r, base, "TEXT", nm, lk, <<>>, a, l, TRUE)
         \/ a = FALSE /\ At(r, base, "NAME", nm, lk, d, a, l, FALSE)
<1> DEFINE v == IF WrState(w) = "ATTRIBUTE" THEN TextWriterEndAttribute(w) ELSE w
<1>0. WrState(w) = st
  BY AtState
<1>1. At(v, base, "NAME", nm, lk, d, a, l, TRUE)
  <2>1. CASE st = "ATTRIBUTE"
    <3>1. At(TextWriterEndAttribute(w), base, "NAME", nm, lk, d, a, l, TRUE)
      BY <2>1, AtEndAttribute
    <3> QED BY <1>0, <2>1, <3>1
  <2>2. CASE st = "NAME"
    BY <1>0, <2>2
  <2> QED BY <2>1, <2>2
<1>2. WrFinishTagAfterAttribute(w) = WrFinishTag(v)
  BY DEF WrFinishTagAfterAttribute
<1> HIDE DEF v
<1>3. \/ a = TRUE /\ At(WrFinishTag(v), base, "TEXT", nm, lk, <<>>, a, l, TRUE)
      \/ a = FALSE /\ At(WrFinishTag(v), base, "NAME", nm, lk, d, a, l, FALSE)
  BY <1>1, AtFinishTag
<1> QED BY <1>2, <1>3

(* Nothing to ask of the declarations.                                     *)
LEMMA NsForFree ==
  ASSUME NEW st, NEW lk, NEW d \in Seq(WrDecls), NEW l \in BOOLEAN, l = TRUE \/ d = <<>>
  PROVE  NsFor(st, lk, d, l)
BY DEF NsFor

(* No declaration waits, or a failed call has left one behind.             *)
Free(w) == w.nsLeft = TRUE \/ w.nsstack = <<>>

(* A node may be opened.                                                   *)
Ready(w) == InStep(w) /\ (w.ok = FALSE \/ Free(w))

(* No declaration waits outside of start tags.                             *)
LEMMA FreeOutsideTags ==
  ASSUME NEW w, InStep(w), WrState(w) \notin {"NAME", "ATTRIBUTE"}
  PROVE  Free(w)
<1>1. FrontState(w.nodes) = WrState(w)
  BY DEF WrState, FrontState
<1>2. NsFor(WrState(w), FrontLink(w.nodes), w.nsstack, w.nsLeft) /\ w.nsLeft \in BOOLEAN
  BY <1>1 DEF InStep
<1>3. CASE w.nsLeft = TRUE
  BY <1>3 DEF Free
<1>4. CASE w.nsLeft = FALSE
  BY <1>2, <1>4 DEF Free, NsFor
<1> QED BY <1>2, <1>3, <1>4

(* A writer in step by its fields.                                         *)
LEMMA InStepIs ==
  ASSUME NEW w, InStep(w)
  PROVE  Is(w, w.nodes, w.nsstack, w.nsAlive, WrOpened(w.nodes), w.nsLeft, w.ok)
BY DEF InStep, Is

(* A failed call keeps the writer in step.                                 *)
LEMMA InStepFail ==
  ASSUME NEW w, InStep(w)
  PROVE  InStep(WrFail(w)) /\ WrFail(w).ok = FALSE
<1> DEFINE n == w.nodes
           d == w.nsstack
           a == w.nsAlive
           l == w.nsLeft
           v == WrFail(w)
<1>1. Is(v, n, d, a, WrOpened(n), l, FALSE)
  BY InStepIs, FailIs
<1> HIDE DEF v
<1>2. v.nodes = n /\ v.nsstack = d /\ v.nsAlive = a /\ v.out = WrOpened(n) /\ v.nsLeft = l
      /\ v.ok = FALSE /\ DOMAIN v = WrFields
  BY <1>1 DEF Is
<1>3. InStep(v)
  BY <1>2 DEF InStep
<1> QED BY <1>2, <1>3 DEF v

(* So does the next call.                                                  *)
LEMMA InStepOk ==
  ASSUME NEW w, InStep(w)
  PROVE  InStep([w EXCEPT !.ok = TRUE]) /\ [w EXCEPT !.ok = TRUE].ok = TRUE
<1> DEFINE v == [w EXCEPT !.ok = TRUE]
<1>1. v.nodes = w.nodes /\ v.nsstack = w.nsstack /\ v.nsAlive = w.nsAlive /\ v.out = w.out
      /\ v.nsLeft = w.nsLeft /\ v.ok = TRUE /\ DOMAIN v = WrFields
  BY DEF InStep, WrFields
<1> HIDE DEF v
<1>2. InStep(v)
  BY <1>1 DEF InStep
<1> QED BY <1>1, <1>2 DEF v

(* A node in state st leaves one construct open.                           *)
OpensAs(st, nm, kind, name) == \A B : OutOf(B, st, nm) = Append(B, <<kind, name>>)

(* A node is opened.                                                       *)
LEMMA StartNode ==
  ASSUME NEW w, InStep(w), Free(w), NEW st \in WrStates, NEW nm \in WrAnyName,
         NEW lk \in WrLinks, NEW kind, NEW name,
         OpensAs(st, nm, kind, name)
  PROVE  At(WrOpens(WrPush(w, st, nm, lk), kind, name),
            w.nodes, st, nm, lk, w.nsstack, w.nsAlive, w.nsLeft, w.ok)
<1> DEFINE n == w.nodes
           d == w.nsstack
           a == w.nsAlive
           l == w.nsLeft
           k == w.ok
           B == WrOpened(n)
           v == WrPush(w, st, nm, lk)
<1>1. n \in Seq(WrNodes) /\ d \in Seq(WrDecls) /\ a \in BOOLEAN /\ l \in BOOLEAN
      /\ Is(w, n, d, a, B, l, k)
  BY InStepIs DEF InStep
<1>2. NsFor(st, lk, d, l)
  <2>0. l = TRUE \/ d = <<>>
    BY Zenon DEF Free
  <2> HIDE DEF l, d
  <2> QED BY <1>1, <2>0, NsForFree
<1> HIDE DEF n, d, a, l, k
<1>3. Top(v, n, st, nm, lk, d, a, B, l, k)
  BY <1>1, PushIs
<1> HIDE DEF v
<1>4. Top(WrOpens(v, kind, name), n, st, nm, lk, d, a, Append(B, <<kind, name>>), l, k)
  BY <1>3, OpensTop
<1>5. At(WrOpens(v, kind, name), n, st, nm, lk, d, a, l, k)
  <2>1. OutOf(B, st, nm) = Append(B, <<kind, name>>)
    BY Zenon DEF OpensAs
  <2> HIDE DEF B
  <2>2. Top(WrOpens(v, kind, name), n, st, nm, lk, d, a, OutOf(B, st, nm), l, k)
    BY <1>4, <2>1
  <2> QED BY <1>1, <1>2, <2>2 DEF At, B
<1> QED BY <1>5 DEF n, d, a, l, k, v

(* A nameless construct is opened.                                         *)
LEMMA WrStartStep ==
  ASSUME NEW r, Ready(r), NEW st \in WrStates, NEW kind, NEW lk \in WrLinks,
         OpensAs(st, "", kind, "")
  PROVE  InStep(WrStart(r, st, kind, lk))
<1>1. CASE r.ok = FALSE
  BY <1>1 DEF WrStart, Ready
<1>2. CASE r.ok # FALSE
  <2>1. InStep(r) /\ Free(r) /\ "" \in WrAnyName
    BY NoName, <1>2 DEF Ready
  <2>2. InStep(WrOpens(WrPush(r, st, "", lk), kind, ""))
    BY <2>1, StartNode, AtInStep
  <2> QED BY <2>1, <2>2 DEF WrStart
<1> QED BY <1>1, <1>2

(* Outside of start tags a node may be opened at once,                     *)
LEMMA ReadyAsIs ==
  ASSUME NEW w, InStep(w), WrState(w) \notin {"NAME", "ATTRIBUTE"}
  PROVE  Ready(w)
BY FreeOutsideTags DEF Ready

(* or the call has failed,                                                 *)
LEMMA ReadyFail ==
  ASSUME NEW w, InStep(w)
  PROVE  Ready(WrFail(w))
BY InStepFail DEF Ready

(* or the tag was finished first,                                          *)
LEMMA AtReady ==
  ASSUME NEW w, NEW base, NEW nm, NEW lk, NEW d, NEW a, NEW l, NEW r,
         \/ a = TRUE /\ At(r, base, "TEXT", nm, lk, <<>>, a, l, TRUE)
         \/ a = FALSE /\ At(r, base, "NAME", nm, lk, d, a, l, FALSE)
  PROVE  Ready(r)
<1>1. CASE At(r, base, "TEXT", nm, lk, <<>>, a, l, TRUE)
  <2>1. r.nsstack = <<>> /\ InStep(r)
    BY <1>1, AtState, AtInStep
  <2> QED BY <2>1 DEF Ready, Free
<1>2. CASE At(r, base, "NAME", nm, lk, d, a, l, FALSE)
  <2>1. r.ok = FALSE /\ InStep(r)
    BY <1>2, AtState, AtInStep, ZenonT(60)
  <2> QED BY <2>1 DEF Ready
<1> QED BY <1>1, <1>2

(* which the calls do.                                                     *)
LEMMA ReadyAfterTag ==
  ASSUME NEW w, InStep(w), w.ok = TRUE
  PROVE  /\ WrState(w) \in {"NAME", "ATTRIBUTE"} => Ready(WrFinishTagAfterAttribute(w))
         /\ WrState(w) = "NAME" => Ready(WrFinishTag(w))
<1> SUFFICES ASSUME WrState(w) \in {"NAME", "ATTRIBUTE"}
             PROVE  /\ Ready(WrFinishTagAfterAttribute(w))
                    /\ WrState(w) = "NAME" => Ready(WrFinishTag(w))
  OBVIOUS
<1>1. w.nodes # <<>>
  BY DEF WrState
<1>2. PICK base, st, nm, lk : At(w, base, st, nm, lk, w.nsstack, w.nsAlive, w.nsLeft, w.ok)
  BY <1>1, InStepAt
<1> DEFINE d == w.nsstack
           a == w.nsAlive
           l == w.nsLeft
<1>3. At(w, base, st, nm, lk, d, a, l, TRUE)
  BY <1>2
<1> HIDE DEF d, a, l
<1>4. st = WrState(w)
  BY <1>3, AtState
<1>5. Ready(WrFinishTagAfterAttribute(w))
  <2>1. LET r == WrFinishTagAfterAttribute(w) IN
        \/ a = TRUE /\ At(r, base, "TEXT", nm, lk, <<>>, a, l, TRUE)
        \/ a = FALSE /\ At(r, base, "NAME", nm, lk, d, a, l, FALSE)
    BY <1>3, <1>4, AtFinishTagAfterAttribute
  <2> QED BY <2>1, AtReady
<1>6. ASSUME WrState(w) = "NAME" PROVE Ready(WrFinishTag(w))
  <2>1. \/ a = TRUE /\ At(WrFinishTag(w), base, "TEXT", nm, lk, <<>>, a, l, TRUE)
        \/ a = FALSE /\ At(WrFinishTag(w), base, "NAME", nm, lk, d, a, l, FALSE)
    BY <1>3, <1>4, <1>6, AtFinishTag
  <2> QED BY <2>1, AtReady
<1> QED BY <1>5, <1>6

-----------------------------------------------------------------------------
(* Closing the front node.                                                 *)

(* The call has closed the front node.                                     *)
Closed(w, r) == InStep(r) /\ r.ok = w.ok /\ Len(r.nodes) < Len(w.nodes)

(* No declaration waits.                                                   *)
Spent(l, d) == l = TRUE \/ d = <<>>

(* The front node goes when its output is closed.                          *)
LEMMA PopStep ==
  ASSUME NEW w, NEW base, NEW st, NEW nm, NEW lk, NEW d \in Seq(WrDecls), NEW a \in BOOLEAN,
         NEW l \in BOOLEAN, NEW k, Spent(l, d),
         Top(w, base, st, nm, lk, d, a, WrOpened(base), l, k)
  PROVE  InStep(WrPop(w)) /\ WrPop(w).ok = k /\ WrPop(w).nodes = base
<1> DEFINE r == WrPop(w)
<1>1. base \in Seq(WrNodes) /\ Is(r, base, d, a, WrOpened(base), l, k)
  BY PopTop DEF Top
<1> HIDE DEF r
<1>2. InStep(r)
  BY <1>1, IsInStep DEF Spent
<1>3. r.ok = k /\ r.nodes = base
  BY <1>1 DEF Is
<1> QED BY <1>2, <1>3 DEF r

(* A node with one construct open is closed.                               *)
LEMMA CloseNode ==
  ASSUME NEW w, NEW base, NEW st, NEW nm, NEW lk, NEW d, NEW a, NEW l, NEW k,
         At(w, base, st, nm, lk, d, a, l, k), Spent(l, d),
         NEW kind \in WrKinds, NEW name \in WrAnyName, OpensAs(st, nm, kind, name)
  PROVE  Closed(w, WrPop(WrCloses(w, kind, name)))
<1> DEFINE B == WrOpened(base)
           v == WrCloses(w, kind, name)
           r == WrPop(v)
<1>1. OutOf(B, st, nm) = Append(B, <<kind, name>>)
  BY Zenon DEF OpensAs
<1>0. w.ok = k
  BY AtState, Zenon
<1>2. B \in Seq(WrPairs) /\ Len(w.nodes) = Len(base) + 1 /\ Len(base) \in Nat
  <2>1. base \in Seq(WrNodes) /\ B \in Seq(WrPairs) /\ Len(w.nodes) = Len(base) + 1
    BY AtState, Zenon
  <2> QED BY <2>1
<1>3. Top(w, base, st, nm, lk, d, a, OutOf(B, st, nm), l, k)
      /\ d \in Seq(WrDecls) /\ a \in BOOLEAN /\ l \in BOOLEAN
  BY DEF At
<1> HIDE DEF B
<1>4. Top(w, base, st, nm, lk, d, a, Append(B, <<kind, name>>), l, k)
  BY <1>1, <1>3
<1>5. Top(v, base, st, nm, lk, d, a, B, l, k)
  BY <1>2, <1>4, ClosesTop
<1> HIDE DEF v
<1>6. InStep(r) /\ r.ok = k /\ r.nodes = base
  BY <1>3, <1>5, PopStep DEF B
<1> HIDE DEF r
<1>7. Closed(w, r)
  <2>1. Len(r.nodes) < Len(w.nodes)
    BY <1>2, <1>6
  <2> QED BY <1>0, <1>6, <2>1, Zenon DEF Closed
<1> QED BY <1>7 DEF r, v

(* A node that leaves two constructs open.                                 *)
OpensTwo(st, nm, k1, k2) ==
  \A B : OutOf(B, st, nm) = Append(Append(B, <<k1, "">>), <<k2, "">>)

(* It is closed.                                                           *)
LEMMA CloseTwo ==
  ASSUME NEW w, NEW base, NEW st, NEW nm, NEW lk, NEW d, NEW a, NEW l, NEW k,
         At(w, base, st, nm, lk, d, a, l, k), Spent(l, d),
         NEW k1 \in WrKinds, NEW k2 \in WrKinds,
         OpensTwo(st, nm, k1, k2)
  PROVE  /\ Closed(w, WrPop(WrCloses(WrCloses(w, k2, ""), k1, "")))
         /\ WrState(WrCloses(w, k2, "")) = st
<1> DEFINE B == WrOpened(base)
           C == Append(B, <<k1, "">>)
           u == WrCloses(w, k2, "")
           v == WrCloses(u, k1, "")
           r == WrPop(v)
<1>1. OutOf(B, st, nm) = Append(C, <<k2, "">>)
  BY Zenon DEF OpensTwo
<1>0. w.ok = k
  BY AtState, Zenon
<1>2. B \in Seq(WrPairs) /\ Len(w.nodes) = Len(base) + 1 /\ Len(base) \in Nat
  <2>1. base \in Seq(WrNodes) /\ B \in Seq(WrPairs) /\ Len(w.nodes) = Len(base) + 1
    BY AtState, Zenon
  <2> QED BY <2>1
<1>a. C \in Seq(WrPairs)
  <2> DEFINE p == <<k1, "">>
  <2>1. p \in WrPairs
    BY NoName DEF WrPairs
  <2> HIDE DEF p, B
  <2>2. Append(B, p) \in Seq(WrPairs)
    BY <1>2, <2>1, SeqEnds
  <2> QED BY <2>2 DEF p
<1>3. Top(w, base, st, nm, lk, d, a, OutOf(B, st, nm), l, k)
      /\ d \in Seq(WrDecls) /\ a \in BOOLEAN /\ l \in BOOLEAN /\ "" \in WrAnyName
  BY NoName DEF At
<1> HIDE DEF B, C
<1>4. Top(w, base, st, nm, lk, d, a, Append(C, <<k2, "">>), l, k)
  BY <1>1, <1>3
<1>5. Top(u, base, st, nm, lk, d, a, C, l, k)
  BY <1>a, <1>3, <1>4, ClosesTop
<1>b. WrState(u) = st
  BY <1>5, TopState
<1> HIDE DEF u
<1>c. Top(u, base, st, nm, lk, d, a, Append(B, <<k1, "">>), l, k)
  BY <1>5 DEF C
<1>d. Top(v, base, st, nm, lk, d, a, B, l, k)
  BY <1>2, <1>3, <1>c, ClosesTop
<1> HIDE DEF v
<1>6. InStep(r) /\ r.ok = k /\ r.nodes = base
  BY <1>3, <1>d, PopStep DEF B
<1> HIDE DEF r
<1>7. Closed(w, r)
  <2>1. Len(r.nodes) < Len(w.nodes)
    BY <1>2, <1>6
  <2> QED BY <1>0, <1>6, <2>1, Zenon DEF Closed
<1> QED BY <1>7, <1>b DEF r, v, u

(* What a state leaves open.                                               *)
LEMMA OpensAsOf ==
  ASSUME NEW nm
  PROVE  /\ OpensAs("NAME", nm, "tag", nm) /\ OpensAs("TEXT", nm, "elem", nm)
         /\ OpensAs("COMMENT", nm, "comment", "")
         /\ OpensAs("PI", nm, "pi", "") /\ OpensAs("PI_TEXT", nm, "pi", "")
         /\ OpensAs("CDATA", nm, "cdata", "") /\ OpensAs("DTD", nm, "doctype", "")
         /\ \A st \in {"DTD_ELEM", "DTD_ELEM_TEXT", "DTD_ATTL", "DTD_ATTL_TEXT", "DTD_ENTY",
                        "DTD_PENT"} : OpensAs(st, nm, "decl", "")
BY ZenonT(60) DEF OpensAs, OutOf, TagOut, WrKindOf

(* The front node of a writer in step, and nothing about its declarations  *)
(* outside of a start tag.                                                 *)
LEMMA FrontAt ==
  ASSUME NEW w, InStep(w), w.nodes # <<>>
  PROVE  \E base, nm, lk, d, a, l :
           /\ At(w, base, WrState(w), nm, lk, d, a, l, w.ok)
           /\ WrState(w) \notin {"NAME", "ATTRIBUTE"} => Spent(l, d)
<1>1. PICK base, st, nm, lk : At(w, base, st, nm, lk, w.nsstack, w.nsAlive, w.nsLeft, w.ok)
  BY InStepAt
<1>2. WrState(w) = st
  BY <1>1, AtState
<1>3. WrState(w) \notin {"NAME", "ATTRIBUTE"} => Spent(w.nsLeft, w.nsstack)
  BY FreeOutsideTags, Zenon DEF Free, Spent
<1> QED BY <1>1, <1>2, <1>3

(* A node that is no element.                                              *)
LEMMA CloseNameless ==
  ASSUME NEW w, InStep(w), NEW st, WrState(w) = st, st \notin {"none", "NAME", "ATTRIBUTE"},
         NEW kind \in WrKinds, \A nm : OpensAs(st, nm, kind, "")
  PROVE  Closed(w, WrPop(WrCloses(w, kind, "")))
<1>1. w.nodes # <<>>
  BY DEF WrState
<1>2. PICK base, nm, lk, d, a, l : At(w, base, WrState(w), nm, lk, d, a, l, w.ok)
        /\ (WrState(w) \notin {"NAME", "ATTRIBUTE"} => Spent(l, d))
  BY <1>1, FrontAt, Zenon
<1>3. At(w, base, st, nm, lk, d, a, l, w.ok) /\ Spent(l, d) /\ OpensAs(st, nm, kind, "")
  BY <1>2
<1> QED BY <1>3, NoName, CloseNode

(* An element.                                                             *)
LEMMA CloseText ==
  ASSUME NEW w, InStep(w), WrState(w) = "TEXT"
  PROVE  Closed(w, WrPop(WrCloses(w, "elem", WrName(w))))
<1>1. w.nodes # <<>>
  BY DEF WrState
<1>2. PICK base, nm, lk, d, a, l : At(w, base, WrState(w), nm, lk, d, a, l, w.ok)
        /\ (WrState(w) \notin {"NAME", "ATTRIBUTE"} => Spent(l, d))
  BY <1>1, FrontAt, Zenon
<1>3. At(w, base, "TEXT", nm, lk, d, a, l, w.ok) /\ Spent(l, d) /\ OpensAs("TEXT", nm, "elem", nm)
  BY <1>2, OpensAsOf
<1>4. WrName(w) = nm /\ nm \in WrAnyName /\ "elem" \in WrKinds
  BY <1>3, AtState DEF WrKinds
<1> QED BY <1>3, <1>4, CloseNode

(* A node with two constructs open.                                        *)
LEMMA CloseTwoNameless ==
  ASSUME NEW w, InStep(w), NEW st, WrState(w) = st, st \notin {"none", "NAME", "ATTRIBUTE"},
         NEW k1 \in WrKinds, NEW k2 \in WrKinds, \A nm : OpensTwo(st, nm, k1, k2)
  PROVE  /\ Closed(w, WrPop(WrCloses(WrCloses(w, k2, ""), k1, "")))
         /\ WrState(WrCloses(w, k2, "")) = st
<1>1. w.nodes # <<>>
  BY DEF WrState
<1>2. PICK base, nm, lk, d, a, l : At(w, base, WrState(w), nm, lk, d, a, l, w.ok)
        /\ (WrState(w) \notin {"NAME", "ATTRIBUTE"} => Spent(l, d))
  BY <1>1, FrontAt, Zenon
<1>3. At(w, base, st, nm, lk, d, a, l, w.ok) /\ Spent(l, d) /\ OpensTwo(st, nm, k1, k2)
  BY <1>2
<1> DEFINE k == w.ok
<1>4. At(w, base, st, nm, lk, d, a, l, k)
  BY <1>3
<1> HIDE DEF k
<1>5. Closed(w, WrPop(WrCloses(WrCloses(w, k2, ""), k1, "")))
  BY <1>3, <1>4, CloseTwo
<1>6. WrState(WrCloses(w, k2, "")) = st
  <2>1. WrCloses(w, k2, "").nodes = w.nodes
    BY DEF WrCloses, InStep, WrFields
  <2> QED BY <2>1 DEF WrState
<1> QED BY <1>5, <1>6

(* Either the front node is closed, or the call fails and closes nothing.  *)
Ends(w, r) == Closed(w, r) \/ (InStep(r) /\ r.ok = FALSE)

(* A call fails.                                                           *)
LEMMA EndsFail ==
  ASSUME NEW w, InStep(w)
  PROVE  Ends(w, WrFail(w))
BY InStepFail DEF Ends

(* xmlTextWriterEndComment.                                                *)
LEMMA EndComment ==
  ASSUME NEW w, InStep(w)
  PROVE  /\ Ends(w, TextWriterEndComment(w))
         /\ WrState(w) = "COMMENT" => Closed(w, TextWriterEndComment(w))
<1>1. CASE WrState(w) = "COMMENT"
  <2>1. Closed(w, WrPop(WrCloses(w, "comment", "")))
    BY <1>1, CloseNameless, OpensAsOf DEF WrKinds
  <2> QED BY <1>1, <2>1 DEF TextWriterEndComment, Ends
<1>2. CASE WrState(w) # "COMMENT"
  BY <1>2, EndsFail DEF TextWriterEndComment
<1> QED BY <1>1, <1>2

(* xmlTextWriterEndCDATA.                                                  *)
LEMMA EndCDATA ==
  ASSUME NEW w, InStep(w)
  PROVE  /\ Ends(w, TextWriterEndCDATA(w))
         /\ WrState(w) = "CDATA" => Closed(w, TextWriterEndCDATA(w))
<1>1. CASE WrState(w) = "CDATA"
  <2>1. Closed(w, WrPop(WrCloses(w, "cdata", "")))
    BY <1>1, CloseNameless, OpensAsOf DEF WrKinds
  <2> QED BY <1>1, <2>1 DEF TextWriterEndCDATA, Ends
<1>2. CASE WrState(w) # "CDATA"
  BY <1>2, EndsFail DEF TextWriterEndCDATA
<1> QED BY <1>1, <1>2

(* xmlTextWriterEndPI.                                                     *)
LEMMA EndPI ==
  ASSUME NEW w, InStep(w)
  PROVE  /\ InStep(TextWriterEndPI(w))
         /\ WrState(w) \in {"PI", "PI_TEXT"} => Closed(w, TextWriterEndPI(w))
<1>1. CASE WrState(w) \in {"PI", "PI_TEXT"}
  <2>1. Closed(w, WrPop(WrCloses(w, "pi", "")))
    BY <1>1, CloseNameless, OpensAsOf DEF WrKinds
  <2>2. TextWriterEndPI(w) = WrPop(WrCloses(w, "pi", ""))
    BY <1>1 DEF TextWriterEndPI
  <2> QED BY <2>1, <2>2 DEF Closed
<1>2. CASE WrState(w) = "none"
  BY <1>2 DEF TextWriterEndPI
<1>3. CASE WrState(w) \notin {"PI", "PI_TEXT", "none"}
  <2>1. TextWriterEndPI(w) = WrFail(w)
    BY <1>3 DEF TextWriterEndPI
  <2> QED BY <1>3, <2>1, InStepFail
<1> QED BY <1>1, <1>2, <1>3

(* The ends of DTD declarations.                                           *)
LEMMA EndDecl ==
  ASSUME NEW w, InStep(w),
         NEW states \in SUBSET {"DTD_ELEM", "DTD_ELEM_TEXT", "DTD_ATTL", "DTD_ATTL_TEXT",
                                "DTD_ENTY", "DTD_PENT"}
  PROVE  /\ Ends(w, WrEndDecl(w, states))
         /\ WrState(w) \in states => Closed(w, WrEndDecl(w, states))
<1>1. CASE WrState(w) \in states
  <2> DEFINE st == WrState(w)
  <2>1. st \notin {"none", "NAME", "ATTRIBUTE"} /\ "decl" \in WrKinds
    BY <1>1 DEF WrKinds
  <2>2. \A nm : OpensAs(st, nm, "decl", "")
    BY <1>1, OpensAsOf
  <2>3. Closed(w, WrPop(WrCloses(w, "decl", "")))
    BY <2>1, <2>2, CloseNameless
  <2> QED BY <1>1, <2>3 DEF WrEndDecl, Ends
<1>2. CASE WrState(w) \notin states
  BY <1>2, EndsFail DEF WrEndDecl
<1> QED BY <1>1, <1>2

(* xmlTextWriterEndDTDEntity, with or without a value.                     *)
LEMMA EndDTDEntity ==
  ASSUME NEW w, InStep(w)
  PROVE  /\ Ends(w, TextWriterEndDTDEntity(w))
         /\ WrState(w) \in {"DTD_ENTY", "DTD_ENTY_TEXT", "DTD_PENT"}
              => Closed(w, TextWriterEndDTDEntity(w))
<1> DEFINE S == {"DTD_ENTY", "DTD_ENTY_TEXT", "DTD_PENT"}
<1>1. CASE WrState(w) = "DTD_ENTY_TEXT"
  <2>1. \A nm : OpensTwo("DTD_ENTY_TEXT", nm, "decl", "value")
    BY DEF OpensTwo, OutOf
  <2>2. Closed(w, WrPop(WrCloses(WrCloses(w, "value", ""), "decl", "")))
        /\ WrState(WrCloses(w, "value", "")) = "DTD_ENTY_TEXT"
    BY <1>1, <2>1, CloseTwoNameless DEF WrKinds
  <2> DEFINE v == WrCloses(w, "value", "")
  <2>3. TextWriterEndDTDEntity(w) = WrEndDecl(v, S)
    BY <1>1 DEF TextWriterEndDTDEntity
  <2>4. WrEndDecl(v, S) = WrPop(WrCloses(v, "decl", ""))
    BY <2>2 DEF WrEndDecl
  <2> QED BY <2>2, <2>3, <2>4 DEF Ends
<1>2. CASE WrState(w) # "DTD_ENTY_TEXT"
  <2>1. TextWriterEndDTDEntity(w) = WrEndDecl(w, S)
    BY <1>2 DEF TextWriterEndDTDEntity
  <2>2. WrEndDecl(w, S) = WrEndDecl(w, {"DTD_ENTY", "DTD_PENT"})
    BY <1>2 DEF WrEndDecl
  <2>3. /\ Ends(w, WrEndDecl(w, {"DTD_ENTY", "DTD_PENT"}))
        /\ WrState(w) \in {"DTD_ENTY", "DTD_PENT"}
             => Closed(w, WrEndDecl(w, {"DTD_ENTY", "DTD_PENT"}))
    BY EndDecl
  <2> QED BY <1>2, <2>1, <2>2, <2>3
<1> QED BY <1>1, <1>2

(* A turn of the loop closes a node.                                       *)
LEMMA EndDTDTurn ==
  ASSUME NEW w, InStep(w)
  PROVE  /\ InStep(WrEndDTDTurn(w))
         /\ WrState(w) \in {"DTD", "DTD_TEXT", "DTD_ELEM", "DTD_ELEM_TEXT", "DTD_ATTL",
                            "DTD_ATTL_TEXT", "DTD_ENTY", "DTD_ENTY_TEXT", "DTD_PENT"}
              => Closed(w, WrEndDTDTurn(w))
<1> DEFINE r == WrEndDTDTurn(w)
           st == WrState(w)
<1>0. \A v : (Ends(w, v) => InStep(v)) /\ (Closed(w, v) => InStep(v))
  BY DEF Ends, Closed
<1>1. CASE st = "DTD_TEXT"
  <2>1. \A nm : OpensTwo("DTD_TEXT", nm, "doctype", "subset")
    BY DEF OpensTwo, OutOf
  <2>2. Closed(w, WrPop(WrCloses(WrCloses(w, "subset", ""), "doctype", "")))
    BY <1>1, <2>1, CloseTwoNameless DEF WrKinds
  <2>3. r = WrPop(WrCloses(WrCloses(w, "subset", ""), "doctype", ""))
    BY <1>1 DEF WrEndDTDTurn
  <2> QED BY <1>0, <2>2, <2>3
<1>2. CASE st = "DTD"
  <2>1. Closed(w, WrPop(WrCloses(w, "doctype", "")))
    BY <1>2, CloseNameless, OpensAsOf DEF WrKinds
  <2>2. r = WrPop(WrCloses(w, "doctype", ""))
    BY <1>2 DEF WrEndDTDTurn
  <2> QED BY <1>0, <2>1, <2>2
<1>3. CASE st \in {"DTD_ELEM", "DTD_ELEM_TEXT"}
  <2>1. r = WrEndDecl(w, {"DTD_ELEM", "DTD_ELEM_TEXT"})
    BY <1>3 DEF WrEndDTDTurn, TextWriterEndDTDElement
  <2>2. Closed(w, WrEndDecl(w, {"DTD_ELEM", "DTD_ELEM_TEXT"}))
    BY <1>3, EndDecl
  <2> QED BY <1>0, <2>1, <2>2
<1>4. CASE st \in {"DTD_ATTL", "DTD_ATTL_TEXT"}
  <2>1. r = WrEndDecl(w, {"DTD_ATTL", "DTD_ATTL_TEXT"})
    BY <1>4 DEF WrEndDTDTurn, TextWriterEndDTDAttlist
  <2>2. Closed(w, WrEndDecl(w, {"DTD_ATTL", "DTD_ATTL_TEXT"}))
    BY <1>4, EndDecl
  <2> QED BY <1>0, <2>1, <2>2
<1>5. CASE st \in {"DTD_ENTY", "DTD_PENT", "DTD_ENTY_TEXT"}
  <2>1. r = TextWriterEndDTDEntity(w)
    BY <1>5 DEF WrEndDTDTurn
  <2>2. Closed(w, TextWriterEndDTDEntity(w))
    BY <1>5, EndDTDEntity
  <2> QED BY <1>0, <2>1, <2>2
<1>6. CASE st = "COMMENT"
  <2>1. r = TextWriterEndComment(w)
    BY <1>6 DEF WrEndDTDTurn
  <2>2. Closed(w, TextWriterEndComment(w))
    BY <1>6, EndComment
  <2> QED BY <1>0, <2>1, <2>2
<1>7. CASE st \notin {"DTD", "DTD_TEXT", "DTD_ELEM", "DTD_ELEM_TEXT", "DTD_ATTL",
                      "DTD_ATTL_TEXT", "DTD_ENTY", "DTD_ENTY_TEXT", "DTD_PENT", "COMMENT"}
  <2>1. r = w
    BY <1>7 DEF WrEndDTDTurn
  <2> QED BY <1>7, <2>1
<1> QED BY <1>1, <1>2, <1>3, <1>4, <1>5, <1>6, <1>7

(* The turns of the loop of xmlTextWriterEndDTD.                           *)
IsTurn(f, w, N) ==
  f = [n \in 0..N |-> IF n = 0 THEN w
                      ELSE IF f[n - 1].ok THEN WrEndDTDTurn(f[n - 1]) ELSE f[n - 1]]

(* The recursive function of TextWriterEndDTD exists.                      *)
LEMMA TurnExists ==
  ASSUME NEW w, NEW N \in Nat
  PROVE  \E f : IsTurn(f, w, N)
<1> DEFINE Nxt(v) == IF v.ok THEN WrEndDTDTurn(v) ELSE v
           P == {n \in Nat : \E f : IsTurn(f, w, n)}
<1>1. 0 \in P
  <2>1. IsTurn([n \in 0..0 |-> w], w, 0)
    BY DEF IsTurn
  <2> QED BY <2>1
<1>2. ASSUME NEW n \in Nat, n \in P PROVE n + 1 \in P
  <2>1. PICK f : IsTurn(f, w, n)
    BY <1>2
  <2> HIDE DEF Nxt
  <2> DEFINE g == [i \in 0..(n + 1) |-> IF i = n + 1 THEN Nxt(f[n]) ELSE f[i]]
  <2>2. \A i \in 0..(n + 1) : i # 0 => i - 1 \in 0..n /\ g[i - 1] = f[i - 1]
    OBVIOUS
  <2>3. \A i \in 0..n : f[i] = IF i = 0 THEN w ELSE Nxt(f[i - 1])
    BY <2>1, Zenon DEF IsTurn, Nxt
  <2>4. \A i \in 0..(n + 1) : g[i] = IF i = 0 THEN w ELSE Nxt(g[i - 1])
    BY <2>2, <2>3
  <2>5. IsTurn(g, w, n + 1)
    BY <2>4, Zenon DEF IsTurn, Nxt
  <2> HIDE DEF g
  <2>6. \E h : IsTurn(h, w, n + 1)
    BY <2>5
  <2> QED BY <2>6
<1> HIDE DEF P
<1>3. N \in P
  BY <1>1, <1>2, Induct
<1> QED BY <1>3 DEF P

(* xmlTextWriterEndDTD.                                                    *)
LEMMA EndDTD ==
  ASSUME NEW w, InStep(w)
  PROVE  InStep(TextWriterEndDTD(w))
<1> DEFINE N == Len(w.nodes)
<1>1. N \in Nat
  BY DEF InStep
<1>2. PICK f : IsTurn(f, w, N) /\ TextWriterEndDTD(w) = f[N]
  <2>1. \E f : IsTurn(f, w, Len(w.nodes))
    BY <1>1, TurnExists
  <2> QED BY <2>1, Zenon DEF IsTurn, TextWriterEndDTD
<1>3. \A n \in 0..N : f[n] = IF n = 0 THEN w
                      ELSE IF f[n - 1].ok THEN WrEndDTDTurn(f[n - 1]) ELSE f[n - 1]
  BY <1>2, Zenon DEF IsTurn
<1> HIDE DEF N
<1> DEFINE P == {n \in Nat : n <= N => InStep(f[n])}
<1>4. 0 \in P
  <2>1. f[0] = w
    BY <1>1, <1>3
  <2> QED BY <2>1
<1>5. ASSUME NEW n \in Nat, n \in P PROVE n + 1 \in P
  <2> SUFFICES ASSUME n + 1 <= N PROVE InStep(f[n + 1])
    OBVIOUS
  <2>1. n + 1 \in 0..N /\ n + 1 # 0 /\ (n + 1) - 1 = n /\ InStep(f[n])
    BY <1>1, <1>5
  <2>2. f[n + 1] = WrEndDTDTurn(f[n]) \/ f[n + 1] = f[n]
    BY <1>3, <2>1
  <2> QED BY <2>1, <2>2, EndDTDTurn
<1>6. N \in P
  <2> HIDE DEF P
  <2> QED BY <1>1, <1>4, <1>5, Induct
<1> QED BY <1>1, <1>2, <1>6

(* xmlTextWriterEndElement in the start tag, which it makes an empty one.  *)
LEMMA EndElementInTag ==
  ASSUME NEW w, InStep(w), w.ok = TRUE, WrState(w) \in {"ATTRIBUTE", "NAME"}
  PROVE  \/ Closed(w, TextWriterEndElement(w))
         \/ /\ w.nsAlive = FALSE /\ InStep(TextWriterEndElement(w))
            /\ TextWriterEndElement(w).ok = FALSE
<1> DEFINE v == IF WrState(w) = "ATTRIBUTE" THEN TextWriterEndAttribute(w) ELSE w
           e == TextWriterOutputNSDecl(v)
<1>1. w.nodes # <<>>
  BY DEF WrState
<1>2. PICK base, st, nm, lk : At(w, base, st, nm, lk, w.nsstack, w.nsAlive, w.nsLeft, w.ok)
  BY <1>1, InStepAt
<1>3. st = WrState(w)
  BY <1>2, AtState
<1> DEFINE d == w.nsstack
           a == w.nsAlive
           l == w.nsLeft
<1>4. At(w, base, st, nm, lk, d, a, l, TRUE)
  BY <1>2
<1>5. TextWriterEndElement(w) = IF e.ok THEN WrPop(WrCloses(e, "tag", WrName(e))) ELSE e
  BY DEF TextWriterEndElement
<1> HIDE DEF d, a, l
<1>6. At(v, base, "NAME", nm, lk, d, a, l, TRUE)
  <2>1. CASE st = "ATTRIBUTE"
    <3>1. At(TextWriterEndAttribute(w), base, "NAME", nm, lk, d, a, l, TRUE)
      BY <1>4, <2>1, AtEndAttribute
    <3> QED BY <1>3, <2>1, <3>1
  <2>2. CASE st = "NAME"
    BY <1>3, <1>4, <2>2
  <2> QED BY <1>3, <2>1, <2>2
<1> HIDE DEF v
<1>7. \/ a = TRUE /\ At(e, base, "NAME", nm, lk, <<>>, a, l, TRUE)
      \/ a = FALSE /\ At(e, base, "NAME", nm, lk, d, a, l, FALSE)
  BY <1>6, AtOutputNSDecl
<1> HIDE DEF e
<1>8. CASE a = FALSE /\ At(e, base, "NAME", nm, lk, d, a, l, FALSE)
  <2>1. e.ok = FALSE /\ InStep(e)
    BY <1>8, AtState, AtInStep
  <2>2. TextWriterEndElement(w) = e
    BY <1>5, <2>1
  <2> QED BY <1>8, <2>1, <2>2 DEF a
<1>9. CASE At(e, base, "NAME", nm, lk, <<>>, a, l, TRUE)
  <2> DEFINE z == <<>>
             k == TRUE
             r == WrPop(WrCloses(e, "tag", WrName(e)))
  <2>1. At(e, base, "NAME", nm, lk, z, a, l, k)
    BY <1>9
  <2>2. Spent(l, z)
    BY DEF Spent
  <2>3. w.ok = k
    BY Zenon
  <2> HIDE DEF z, k
  <2>4. WrName(e) = nm /\ nm \in WrAnyName /\ "tag" \in WrKinds
    BY <2>1, AtState DEF WrKinds
  <2>5. e.ok = k /\ Len(e.nodes) = Len(base) + 1
    BY <2>1, AtState, Zenon
  <2>6. Len(w.nodes) = Len(base) + 1
    BY <1>4, AtState, Zenon
  <2>7. Closed(e, r)
    BY <2>1, <2>2, <2>4, CloseNode, OpensAsOf
  <2>8. Closed(w, r)
    BY <2>3, <2>5, <2>6, <2>7, Zenon DEF Closed
  <2>9. TextWriterEndElement(w) = r
    BY <1>5, <2>5 DEF k
  <2> HIDE DEF r
  <2> QED BY <2>8, <2>9
<1> QED BY <1>7, <1>8, <1>9

(* xmlTextWriterEndElement.                                                *)
LEMMA EndElement ==
  ASSUME NEW w, InStep(w), w.ok = TRUE
  PROVE  /\ InStep(TextWriterEndElement(w))
         /\ WrState(w) \in {"NAME", "ATTRIBUTE", "TEXT"} =>
              \/ Closed(w, TextWriterEndElement(w))
              \/ w.nsAlive = FALSE /\ TextWriterEndElement(w).ok = FALSE
<1> DEFINE r == TextWriterEndElement(w)
<1>1. CASE WrState(w) = "none"
  <2> DEFINE v == [w EXCEPT !.nsstack = <<>>, !.nsAlive = FALSE]
  <2>1. DOMAIN v = WrFields /\ v.nodes = w.nodes /\ v.nsstack = <<>> /\ v.nsAlive = FALSE
        /\ v.out = w.out /\ v.nsLeft = w.nsLeft
    BY DEF InStep, WrFields
  <2>2. r = WrFail(v)
    BY <1>1 DEF TextWriterEndElement
  <2> HIDE DEF v
  <2> DEFINE n == w.nodes
             z == <<>>
             l == w.nsLeft
             k == w.ok
             a == FALSE
  <2>a. v.ok = k
    BY DEF v, InStep, WrFields
  <2>b. Is(v, n, z, a, WrOpened(n), l, k)
    BY <2>1, <2>a DEF Is, InStep
  <2>c. n \in Seq(WrNodes) /\ z \in Seq(WrDecls) /\ l \in BOOLEAN /\ a \in BOOLEAN /\ z = <<>>
    BY DEF InStep
  <2> HIDE DEF n, z, l, k, a
  <2>4. InStep(v)
    BY <2>b, <2>c, IsInStep
  <2> QED BY <1>1, <2>2, <2>4, InStepFail
<1>2. CASE WrState(w) \in {"ATTRIBUTE", "NAME"}
  <2>1. \/ Closed(w, r)
        \/ w.nsAlive = FALSE /\ InStep(r) /\ r.ok = FALSE
    BY <1>2, EndElementInTag
  <2> HIDE DEF r
  <2>2. InStep(r)
    BY <2>1 DEF Closed
  <2> QED BY <2>1, <2>2 DEF r
<1>3. CASE WrState(w) = "TEXT"
  <2>1. r = WrPop(WrCloses(w, "elem", WrName(w)))
    BY <1>3 DEF TextWriterEndElement
  <2>2. Closed(w, r)
    BY <1>3, <2>1, CloseText
  <2> HIDE DEF r
  <2>3. InStep(r)
    BY <2>2 DEF Closed
  <2> QED BY <2>2, <2>3 DEF r
<1>4. CASE WrState(w) \notin {"none", "ATTRIBUTE", "NAME", "TEXT"}
  <2>1. r = WrFail(w)
    BY <1>4 DEF TextWriterEndElement
  <2> QED BY <1>4, <2>1, InStepFail
<1> QED BY <1>1, <1>2, <1>3, <1>4

(* xmlTextWriterFullEndElement.                                            *)
LEMMA FullEndElement ==
  ASSUME NEW w, InStep(w), w.ok = TRUE
  PROVE  InStep(TextWriterFullEndElement(w))
<1> DEFINE r == TextWriterFullEndElement(w)
<1>1. CASE WrState(w) \in {"ATTRIBUTE", "NAME"}
  <2> DEFINE v == WrFinishTagAfterAttribute(w)
  <2>1. w.nodes # <<>>
    BY <1>1 DEF WrState
  <2>2. PICK base, st, nm, lk : At(w, base, st, nm, lk, w.nsstack, w.nsAlive, w.nsLeft, w.ok)
    BY <2>1, InStepAt
  <2>3. st = WrState(w)
    BY <2>2, AtState
  <2> DEFINE d == w.nsstack
             a == w.nsAlive
             l == w.nsLeft
  <2>4. At(w, base, st, nm, lk, d, a, l, TRUE)
    BY <2>2
  <2>5. r = IF v.ok THEN WrPop(WrCloses(v, "elem", WrName(v))) ELSE v
    BY <1>1 DEF TextWriterFullEndElement
  <2> HIDE DEF d, a, l
  <2>6. \/ a = TRUE /\ At(v, base, "TEXT", nm, lk, <<>>, a, l, TRUE)
        \/ a = FALSE /\ At(v, base, "NAME", nm, lk, d, a, l, FALSE)
    BY <1>1, <2>3, <2>4, AtFinishTagAfterAttribute
  <2> HIDE DEF v
  <2>7. CASE At(v, base, "NAME", nm, lk, d, a, l, FALSE)
    <3>1. v.ok = FALSE /\ InStep(v)
      BY <2>7, AtState, AtInStep
    <3> QED BY <2>5, <3>1
  <2>8. CASE At(v, base, "TEXT", nm, lk, <<>>, a, l, TRUE)
    <3>1. InStep(v) /\ WrState(v) = "TEXT"
      BY <2>8, AtInStep, AtState
    <3>2. InStep(WrPop(WrCloses(v, "elem", WrName(v))))
      BY <3>1, CloseText DEF Closed
    <3> QED BY <2>5, <3>1, <3>2
  <2> QED BY <2>6, <2>7, <2>8
<1>2. CASE WrState(w) = "TEXT"
  <2>1. r = IF w.ok THEN WrPop(WrCloses(w, "elem", WrName(w))) ELSE w
    BY <1>2 DEF TextWriterFullEndElement
  <2>2. InStep(WrPop(WrCloses(w, "elem", WrName(w))))
    BY <1>2, CloseText DEF Closed
  <2> QED BY <2>1, <2>2
<1>3. CASE WrState(w) \notin {"ATTRIBUTE", "NAME", "TEXT"}
  <2>1. r = WrFail(w)
    BY <1>3 DEF TextWriterFullEndElement
  <2> QED BY <2>1, InStepFail
<1> QED BY <1>1, <1>2, <1>3

(* A turn of xmlTextWriterEndDocument.                                     *)
LEMMA CloseFront ==
  ASSUME NEW w, InStep(w), w.ok = TRUE
  PROVE  /\ InStep(WrCloseFront(w))
         /\ w.nodes # <<>> =>
              \/ Closed(w, WrCloseFront(w))
              \/ w.nsAlive = FALSE /\ WrCloseFront(w).ok = FALSE
<1> DEFINE r == WrCloseFront(w)
           st == WrState(w)
           D == {"DTD", "DTD_TEXT", "DTD_ELEM", "DTD_ELEM_TEXT", "DTD_ATTL",
                 "DTD_ATTL_TEXT", "DTD_ENTY", "DTD_ENTY_TEXT", "DTD_PENT"}
<1>0. \A v : Closed(w, v) => InStep(v)
  BY DEF Closed
<1>1. CASE st \in {"NAME", "ATTRIBUTE", "TEXT"}
  <2>1. r = TextWriterEndElement(w)
    BY <1>1 DEF WrCloseFront
  <2> QED BY <1>1, <2>1, EndElement
<1>2. CASE st \in {"PI", "PI_TEXT"}
  <2>1. r = TextWriterEndPI(w)
    BY <1>2 DEF WrCloseFront
  <2> QED BY <1>2, <2>1, EndPI
<1>3. CASE st = "CDATA"
  <2>1. r = TextWriterEndCDATA(w)
    BY <1>3 DEF WrCloseFront
  <2> QED BY <1>0, <1>3, <2>1, EndCDATA
<1>4. CASE st \in D
  <2>1. r = WrEndDTDTurn(w)
    BY <1>4 DEF WrCloseFront
  <2> QED BY <1>4, <2>1, EndDTDTurn
<1>5. CASE st = "COMMENT"
  <2>1. r = TextWriterEndComment(w)
    BY <1>5 DEF WrCloseFront
  <2> QED BY <1>0, <1>5, <2>1, EndComment
<1>6. CASE w.nodes = <<>>
  <2>1. st = "none"
    BY <1>6 DEF WrState
  <2>2. r = w
    BY <2>1 DEF WrCloseFront
  <2> QED BY <1>6, <2>2
<1>7. w.nodes = <<>> \/ st \in WrStates
  <2>1. CASE w.nodes # <<>>
    <3>1. PICK base, nm, lk, d, a, l : At(w, base, st, nm, lk, d, a, l, w.ok)
            /\ (st \notin {"NAME", "ATTRIBUTE"} => Spent(l, d))
      BY <2>1, FrontAt, Zenon
    <3> HIDE DEF st
    <3> QED BY <3>1, AtState
  <2> QED BY <2>1
<1> HIDE DEF st
<1> QED BY <1>1, <1>2, <1>3, <1>4, <1>5, <1>6, <1>7 DEF WrStates

-----------------------------------------------------------------------------
(* Calls that change the state of the front node.                          *)

(* States that leave the same output open, or one construct more.          *)
SameOut(st, s) == \A B, nm : OutOf(B, s, nm) = OutOf(B, st, nm)
MoreOut(st, s, kind) == \A B, nm : OutOf(B, s, nm) = Append(OutOf(B, st, nm), <<kind, "">>)

(* The state of the front node changes with its output.                    *)
LEMMA SetState ==
  ASSUME NEW w, InStep(w), NEW st, WrState(w) = st, st \notin {"none", "NAME", "ATTRIBUTE"},
         NEW s \in WrStates, s \notin {"NAME", "ATTRIBUTE"}, NEW kind,
         NEW v, \/ v = WrSet(w, s) /\ SameOut(st, s)
                \/ v = WrSet(WrOpens(w, kind, ""), s) /\ MoreOut(st, s, kind)
  PROVE  Ready(v)
<1>1. w.nodes # <<>>
  BY DEF WrState
<1>2. PICK base, nm, lk, d, a, l : At(w, base, WrState(w), nm, lk, d, a, l, w.ok)
        /\ (WrState(w) \notin {"NAME", "ATTRIBUTE"} => Spent(l, d))
  BY <1>1, FrontAt, Zenon
<1> DEFINE k == w.ok
           B == WrOpened(base)
<1>3. At(w, base, st, nm, lk, d, a, l, k) /\ Spent(l, d)
  BY <1>2
<1> HIDE DEF k, B
<1>4. d \in Seq(WrDecls) /\ a \in BOOLEAN /\ l \in BOOLEAN
      /\ Top(w, base, st, nm, lk, d, a, OutOf(B, st, nm), l, k)
  BY <1>3 DEF At, B
<1>5. NsFor(s, lk, d, l)
  BY <1>3, <1>4, NsForFree DEF Spent
<1>6. Top(v, base, s, nm, lk, d, a, OutOf(B, s, nm), l, k)
  <2>1. CASE v = WrSet(w, s) /\ SameOut(st, s)
    <3>1. OutOf(B, s, nm) = OutOf(B, st, nm)
      BY <2>1, Zenon DEF SameOut
    <3>2. Top(w, base, st, nm, lk, d, a, OutOf(B, s, nm), l, k)
      BY <1>4, <3>1
    <3> QED BY <2>1, <3>2, SetTop
  <2>2. CASE v = WrSet(WrOpens(w, kind, ""), s) /\ MoreOut(st, s, kind)
    <3>1. OutOf(B, s, nm) = Append(OutOf(B, st, nm), <<kind, "">>)
      BY <2>2, Zenon DEF MoreOut
    <3>2. Top(WrOpens(w, kind, ""), base, st, nm, lk, d, a,
              Append(OutOf(B, st, nm), <<kind, "">>), l, k)
      BY <1>4, OpensTop
    <3>3. Top(WrOpens(w, kind, ""), base, st, nm, lk, d, a, OutOf(B, s, nm), l, k)
      BY <3>1, <3>2
    <3> QED BY <2>2, <3>3, SetTop
  <2> QED BY <2>1, <2>2
<1>7. At(v, base, s, nm, lk, d, a, l, k)
  BY <1>4, <1>5, <1>6 DEF At, B
<1>8. InStep(v) /\ v.nsLeft = l /\ v.nsstack = d
  BY <1>7, AtInStep, AtState
<1> QED BY <1>3, <1>8, Zenon DEF Ready, Free, Spent

(* The first such states.                                                  *)
LEMMA OutsSame ==
  SameOut("PI", "PI_TEXT") /\ SameOut("DTD_ELEM", "DTD_ELEM_TEXT")
  /\ SameOut("DTD_ATTL", "DTD_ATTL_TEXT")
BY ZenonT(60) DEF SameOut, OutOf, WrKindOf

(* The others.                                                             *)
LEMMA OutsMore ==
  MoreOut("DTD", "DTD_TEXT", "subset") /\ MoreOut("DTD_ENTY", "DTD_ENTY_TEXT", "value")
  /\ MoreOut("DTD_PENT", "DTD_ENTY_TEXT", "value")
BY DEF MoreOut, OutOf, WrKindOf

(* The internal subset is entered.                                         *)
LEMMA EnterSubset ==
  ASSUME NEW w, InStep(w)
  PROVE  Ready(WrEnterSubset(w))
<1>1. CASE WrState(w) = "DTD"
  <2>1. Ready(WrSet(WrOpens(w, "subset", ""), "DTD_TEXT"))
    BY <1>1, SetState, OutsMore DEF WrStates
  <2> QED BY <1>1, <2>1 DEF WrEnterSubset
<1>2. CASE WrState(w) = "DTD_TEXT"
  <2>1. WrEnterSubset(w) = w
    BY <1>2 DEF WrEnterSubset
  <2> QED BY <1>2, <2>1, ReadyAsIs
<1>3. CASE WrState(w) \notin {"DTD", "DTD_TEXT"}
  <2>1. WrEnterSubset(w) = WrFail(w)
    BY <1>3 DEF WrEnterSubset
  <2> QED BY <2>1, ReadyFail
<1> QED BY <1>1, <1>2, <1>3

(* xmlTextWriterHandleStateDependencies.                                   *)
LEMMA HandleStateDependencies ==
  ASSUME NEW w, InStep(w), w.ok = TRUE
  PROVE  InStep(TextWriterHandleStateDependencies(w))
<1> DEFINE r == TextWriterHandleStateDependencies(w)
<1>0. \A v : Ready(v) => InStep(v)
  BY DEF Ready
<1>1. CASE WrState(w) = "NAME"
  <2>1. r = WrFinishTag(w)
    BY <1>1 DEF TextWriterHandleStateDependencies
  <2> QED BY <1>0, <1>1, <2>1, ReadyAfterTag
<1>2. CASE WrState(w) = "PI"
  <2>1. r = WrSet(w, "PI_TEXT")
    BY <1>2 DEF TextWriterHandleStateDependencies
  <2>2. Ready(WrSet(w, "PI_TEXT"))
    BY <1>2, SetState, OutsSame DEF WrStates
  <2> QED BY <1>0, <2>1, <2>2
<1>3. CASE WrState(w) = "DTD"
  <2>1. r = WrSet(WrOpens(w, "subset", ""), "DTD_TEXT")
    BY <1>3 DEF TextWriterHandleStateDependencies
  <2>2. Ready(WrSet(WrOpens(w, "subset", ""), "DTD_TEXT"))
    BY <1>3, SetState, OutsMore DEF WrStates
  <2> QED BY <1>0, <2>1, <2>2
<1>4. CASE WrState(w) = "DTD_ELEM"
  <2>1. r = WrSet(w, "DTD_ELEM_TEXT")
    BY <1>4 DEF TextWriterHandleStateDependencies
  <2>2. Ready(WrSet(w, "DTD_ELEM_TEXT"))
    BY <1>4, SetState, OutsSame DEF WrStates
  <2> QED BY <1>0, <2>1, <2>2
<1>5. CASE WrState(w) = "DTD_ATTL"
  <2>1. r = WrSet(w, "DTD_ATTL_TEXT")
    BY <1>5 DEF TextWriterHandleStateDependencies
  <2>2. Ready(WrSet(w, "DTD_ATTL_TEXT"))
    BY <1>5, SetState, OutsSame DEF WrStates
  <2> QED BY <1>0, <2>1, <2>2
<1>6. CASE WrState(w) \in {"DTD_ENTY", "DTD_PENT"}
  <2>1. r = WrSet(WrOpens(w, "value", ""), "DTD_ENTY_TEXT")
    BY <1>6 DEF TextWriterHandleStateDependencies
  <2>2. Ready(WrSet(WrOpens(w, "value", ""), "DTD_ENTY_TEXT"))
    BY <1>6, SetState, OutsMore DEF WrStates
  <2> QED BY <1>0, <2>1, <2>2
<1>7. CASE WrState(w) \notin {"NAME", "PI", "DTD", "DTD_ELEM", "DTD_ATTL", "DTD_ENTY", "DTD_PENT"}
  BY <1>7 DEF TextWriterHandleStateDependencies
<1> QED BY <1>1, <1>2, <1>3, <1>4, <1>5, <1>6, <1>7

(* xmlTextWriterWriteString.                                               *)
LEMMA WriteString ==
  ASSUME NEW w, InStep(w), w.ok = TRUE
  PROVE  InStep(TextWriterWriteString(w))
BY HandleStateDependencies DEF TextWriterWriteString

-----------------------------------------------------------------------------
(* Calls that open a node.                                                 *)

(* xmlTextWriterStartElement is in the new start tag, or has failed.       *)
LEMMA StartElement ==
  ASSUME NEW w, InStep(w), w.ok = TRUE, NEW name \in WrNames, NEW link \in WrLinks
  PROVE  LET r == TextWriterStartElement(w, name, link) IN
         \/ InStep(r) /\ ~r.ok
         \/ \E n, d, a, l : At(r, n, "NAME", name, link, d, a, l, r.ok) /\ Spent(l, d)
<1> DEFINE s == CASE WrState(w) \in {"PI", "PI_TEXT"} -> WrFail(w)
                  [] WrState(w) \in {"ATTRIBUTE", "NAME"} -> WrFinishTagAfterAttribute(w)
                  [] OTHER -> w
<1>1. Ready(s)
  <2>1. CASE WrState(w) \in {"PI", "PI_TEXT"}
    <3>1. s = WrFail(w)
      BY <2>1
    <3> QED BY <3>1, ReadyFail
  <2>2. CASE WrState(w) \in {"ATTRIBUTE", "NAME"}
    <3>1. s = WrFinishTagAfterAttribute(w)
      BY <2>2
    <3> QED BY <2>2, <3>1, ReadyAfterTag
  <2>3. CASE WrState(w) \notin {"PI", "PI_TEXT", "ATTRIBUTE", "NAME"}
    <3>1. s = w
      BY <2>3
    <3> QED BY <2>3, <3>1, ReadyAsIs
  <2> QED BY <2>1, <2>2, <2>3
<1> DEFINE r == TextWriterStartElement(w, name, link)
<1>2. r = IF s.ok THEN WrOpens(WrPush(s, "NAME", name, link), "tag", name) ELSE s
  BY DEF TextWriterStartElement
<1> HIDE DEF s
<1>3. CASE ~s.ok
  <2>1. r = s
    BY <1>2, <1>3, Zenon
  <2> QED BY <1>1, <1>3, <2>1, Zenon DEF Ready
<1>4. CASE s.ok
  <2>1. InStep(s) /\ Free(s) /\ Spent(s.nsLeft, s.nsstack) /\ name \in WrAnyName
        /\ "NAME" \in WrStates
    BY <1>1, <1>4, Zenon DEF Ready, Free, Spent, WrAnyName, WrStates
  <2> DEFINE v == WrOpens(WrPush(s, "NAME", name, link), "tag", name)
  <2>2. At(v, s.nodes, "NAME", name, link, s.nsstack, s.nsAlive, s.nsLeft, s.ok)
    BY <2>1, StartNode, OpensAsOf
  <2> HIDE DEF v
  <2>3. v.ok = s.ok
    BY <2>2 DEF At, Top, Is
  <2>4. At(v, s.nodes, "NAME", name, link, s.nsstack, s.nsAlive, s.nsLeft, v.ok)
    BY <2>2, <2>3
  <2>5. CASE r = v
    <3> HIDE DEF r
    <3>1. At(r, s.nodes, "NAME", name, link, s.nsstack, s.nsAlive, s.nsLeft, r.ok)
          /\ Spent(s.nsLeft, s.nsstack)
      BY <2>1, <2>4, <2>5
    <3> QED BY <3>1 DEF r
  <2>6. r = v
    BY <1>2, <1>4, Zenon DEF v
  <2> QED BY <2>5, <2>6
<1> QED BY <1>3, <1>4

(* It keeps the writer in step.                                            *)
LEMMA StartElementInStep ==
  ASSUME NEW w, InStep(w), w.ok = TRUE, NEW name \in WrNames, NEW link \in WrLinks
  PROVE  InStep(TextWriterStartElement(w, name, link))
BY StartElement, AtInStep

(* xmlTextWriterStartElementNS, which queues a declaration.                *)
LEMMA StartElementNS ==
  ASSUME NEW w, InStep(w), w.ok = TRUE, NEW prefix \in WrPrefixes, NEW name \in WrNames,
         NEW uri \in WrUris, NEW link \in WrLinks
  PROVE  InStep(TextWriterStartElementNS(w, prefix, name, uri, link))
<1> DEFINE r == TextWriterStartElement(w, name, link)
           e == [prefix |-> prefix, uri |-> uri, elem |-> link]
           v == [r EXCEPT !.nsstack = Append(@, e)]
           s == TextWriterStartElementNS(w, prefix, name, uri, link)
<1>1. s = CASE ~w.nsAlive -> WrFail(w) [] w.nsAlive /\ ~r.ok -> r [] w.nsAlive /\ r.ok -> v
  BY DEF TextWriterStartElementNS
<1>2. \/ InStep(r) /\ ~r.ok
      \/ \E n, d, a, l : At(r, n, "NAME", name, link, d, a, l, r.ok) /\ Spent(l, d)
  BY StartElement
<1> HIDE DEF r
<1>3. InStep(r)
  BY <1>2, AtInStep
<1>4. CASE ~w.nsAlive
  <2>1. s = WrFail(w)
    BY <1>1, <1>4
  <2> QED BY <2>1, InStepFail
<1>5. CASE w.nsAlive /\ ~r.ok
  <2>1. s = r
    BY <1>1, <1>5
  <2> QED BY <1>3, <2>1
<1>6. CASE w.nsAlive /\ r.ok
  <2>1. s = v
    BY <1>1, <1>6
  <2>2. PICK n, d, a, l : At(r, n, "NAME", name, link, d, a, l, r.ok) /\ Spent(l, d)
    BY <1>2, <1>6
  <2> DEFINE o == OutOf(WrOpened(n), "NAME", name)
             k == r.ok
             m == Append(n, Nd("NAME", name, link))
             D == Append(d, e)
  <2>3. Is(r, m, d, a, o, l, k) /\ d \in Seq(WrDecls) /\ l \in BOOLEAN /\ a \in BOOLEAN
    BY <2>2 DEF At, Top
  <2>4. e \in WrDecls /\ e.elem = link
    BY DEF WrDecls
  <2> HIDE DEF e, o, k, m
  <2>5. Is(v, m, D, a, o, l, k)
    BY <2>3 DEF Is, WrFields
  <2>6. D \in Seq(WrDecls)
    BY <2>3, <2>4, SeqEnds
  <2>7. NsFor("NAME", link, D, l)
    <3>1. CASE l = TRUE
      BY <2>3, <3>1 DEF NsFor
    <3>2. CASE d = <<>>
      <4>1. Len(D) = 1 /\ D[1] = e
        BY <3>2
      <4> HIDE DEF D
      <4> QED BY <2>4, <4>1 DEF NsFor
    <3> QED BY <2>2, <3>1, <3>2, Zenon DEF Spent
  <2> HIDE DEF v, D
  <2>8. Top(v, n, "NAME", name, link, D, a, o, l, k)
    BY <2>2, <2>5 DEF At, Top, m
  <2>9. At(v, n, "NAME", name, link, D, a, l, k)
    BY <2>3, <2>6, <2>7, <2>8 DEF At, o
  <2> QED BY <2>1, <2>9, AtInStep
<1> QED BY <1>4, <1>5, <1>6

(* xmlTextWriterStartComment.                                              *)
LEMMA StartComment ==
  ASSUME NEW w, InStep(w), w.ok = TRUE, NEW link \in WrLinks
  PROVE  InStep(TextWriterStartComment(w, link))
<1> DEFINE s == CASE WrState(w) \in {"none", "TEXT"} -> w
                  [] WrState(w) = "NAME" -> WrFinishTag(w)
                  [] OTHER -> WrFail(w)
<1>1. Ready(s)
  BY ReadyAsIs, ReadyAfterTag, ReadyFail
<1>2. TextWriterStartComment(w, link) = WrStart(s, "COMMENT", "comment", link)
  BY DEF TextWriterStartComment
<1> HIDE DEF s
<1> QED BY <1>1, <1>2, WrStartStep, OpensAsOf DEF WrStates

(* xmlTextWriterStartPI.                                                   *)
LEMMA StartPI ==
  ASSUME NEW w, InStep(w), w.ok = TRUE, NEW link \in WrLinks
  PROVE  InStep(TextWriterStartPI(w, link))
<1> DEFINE s == CASE WrState(w) \in {"none", "TEXT", "DTD"} -> w
                  [] WrState(w) \in {"ATTRIBUTE", "NAME"} -> WrFinishTagAfterAttribute(w)
                  [] OTHER -> WrFail(w)
<1>1. Ready(s)
  BY ReadyAsIs, ReadyAfterTag, ReadyFail
<1>2. TextWriterStartPI(w, link) = WrStart(s, "PI", "pi", link)
  BY DEF TextWriterStartPI
<1> HIDE DEF s
<1> QED BY <1>1, <1>2, WrStartStep, OpensAsOf DEF WrStates

(* xmlTextWriterStartCDATA.                                                *)
LEMMA StartCDATA ==
  ASSUME NEW w, InStep(w), w.ok = TRUE, NEW link \in WrLinks
  PROVE  InStep(TextWriterStartCDATA(w, link))
<1> DEFINE s == CASE WrState(w) \in {"none", "TEXT", "PI", "PI_TEXT"} -> w
                  [] WrState(w) \in {"ATTRIBUTE", "NAME"} -> WrFinishTagAfterAttribute(w)
                  [] OTHER -> WrFail(w)
<1>1. Ready(s)
  BY ReadyAsIs, ReadyAfterTag, ReadyFail
<1>2. TextWriterStartCDATA(w, link) = WrStart(s, "CDATA", "cdata", link)
  BY DEF TextWriterStartCDATA
<1> HIDE DEF s
<1> QED BY <1>1, <1>2, WrStartStep, OpensAsOf DEF WrStates

(* xmlTextWriterStartDTD.                                                  *)
LEMMA StartDTD ==
  ASSUME NEW w, InStep(w), NEW pubid, NEW sysid, NEW link \in WrLinks
  PROVE  InStep(TextWriterStartDTD(w, pubid, sysid, link))
<1> DEFINE r == WrOpens(WrPush(w, "DTD", "", link), "doctype", "")
<1>1. CASE w.nodes # <<>>
  BY <1>1, InStepFail DEF TextWriterStartDTD
<1>2. CASE w.nodes = <<>>
  <2>1. WrState(w) = "none"
    BY <1>2 DEF WrState
  <2>2. Free(w)
    BY <2>1, FreeOutsideTags
  <2>3. "DTD" \in WrStates
    BY DEF WrStates
  <2>4. InStep(r)
    BY <2>2, <2>3, NoName, OpensAsOf, StartNode, AtInStep
  <2>5. TextWriterStartDTD(w, pubid, sysid, link) = IF pubid /\ ~sysid THEN WrFail(r) ELSE r
    BY <1>2 DEF TextWriterStartDTD
  <2> HIDE DEF r
  <2> QED BY <2>4, <2>5, InStepFail
<1> QED BY <1>1, <1>2

(* The starts of DTD declarations.                                         *)
LEMMA StartDTDDecl ==
  ASSUME NEW w, InStep(w), NEW link \in WrLinks
  PROVE  /\ InStep(TextWriterStartDTDElement(w, link))
         /\ InStep(TextWriterStartDTDAttlist(w, link))
         /\ \A pe \in BOOLEAN : InStep(TextWriterStartDTDEntity(w, pe, link))
<1>1. Ready(WrEnterSubset(w))
  BY EnterSubset
<1>2. InStep(TextWriterStartDTDElement(w, link))
  BY <1>1, WrStartStep, OpensAsOf DEF TextWriterStartDTDElement, WrStates
<1>3. InStep(TextWriterStartDTDAttlist(w, link))
  BY <1>1, WrStartStep, OpensAsOf DEF TextWriterStartDTDAttlist, WrStates
<1>4. ASSUME NEW pe \in BOOLEAN PROVE InStep(TextWriterStartDTDEntity(w, pe, link))
  <2> DEFINE s == IF WrState(w) = "none" THEN w ELSE WrEnterSubset(w)
             st == IF pe THEN "DTD_PENT" ELSE "DTD_ENTY"
  <2>1. Ready(s)
    BY <1>1, ReadyAsIs
  <2>2. TextWriterStartDTDEntity(w, pe, link) = WrStart(s, st, "decl", link)
    BY DEF TextWriterStartDTDEntity
  <2>3. st \in WrStates /\ OpensAs(st, "", "decl", "")
    BY OpensAsOf DEF WrStates
  <2> HIDE DEF s, st
  <2> QED BY <2>1, <2>2, <2>3, WrStartStep
<1> QED BY <1>2, <1>3, <1>4

-----------------------------------------------------------------------------
(* Attributes.                                                             *)

(* xmlTextWriterEndAttribute.                                              *)
LEMMA EndAttributeInStep ==
  ASSUME NEW w, InStep(w)
  PROVE  InStep(TextWriterEndAttribute(w))
<1>1. CASE WrState(w) = "ATTRIBUTE"
  <2>1. w.nodes # <<>>
    BY <1>1 DEF WrState
  <2>2. PICK base, st, nm, lk : At(w, base, st, nm, lk, w.nsstack, w.nsAlive, w.nsLeft, w.ok)
    BY <2>1, InStepAt
  <2>3. st = "ATTRIBUTE"
    BY <1>1, <2>2, AtState
  <2> QED BY <2>2, <2>3, AtEndAttribute, AtInStep
<1>2. CASE WrState(w) # "ATTRIBUTE"
  BY <1>2, InStepFail DEF TextWriterEndAttribute
<1> QED BY <1>1, <1>2

(* A start tag is open and the call succeeds, or it changes nothing.       *)
LEMMA StartAttributeInStep ==
  ASSUME NEW w, InStep(w)
  PROVE  /\ InStep(TextWriterStartAttribute(w))
         /\ WrState(w) \in {"NAME", "ATTRIBUTE"} =>
              TextWriterStartAttribute(w).ok = w.ok
         /\ WrState(w) \notin {"NAME", "ATTRIBUTE"} =>
              TextWriterStartAttribute(w) = WrFail(w)
<1>1. CASE WrState(w) \in {"NAME", "ATTRIBUTE"}
  <2>1. w.nodes # <<>>
    BY <1>1 DEF WrState
  <2>2. PICK base, st, nm, lk : At(w, base, st, nm, lk, w.nsstack, w.nsAlive, w.nsLeft, w.ok)
    BY <2>1, InStepAt
  <2>3. st \in {"NAME", "ATTRIBUTE"}
    BY <1>1, <2>2, AtState
  <2> DEFINE r == TextWriterStartAttribute(w)
  <2>4. At(r, base, "ATTRIBUTE", nm, lk, w.nsstack, w.nsAlive, w.nsLeft, w.ok)
    BY <2>2, <2>3, AtStartAttribute
  <2> HIDE DEF r
  <2>5. InStep(r)
    BY <2>4, AtInStep
  <2>6. r.ok = w.ok
    BY <2>4 DEF At, Top, Is
  <2> QED BY <1>1, <2>5, <2>6 DEF r
<1>2. CASE WrState(w) \notin {"NAME", "ATTRIBUTE"}
  <2>1. TextWriterStartAttribute(w) = WrFail(w)
    BY <1>2 DEF TextWriterStartAttribute
  <2> QED BY <1>2, <2>1, InStepFail
<1> QED BY <1>1, <1>2

(* The record updated in nsLeft.                                           *)
LEMMA LeftInStep ==
  ASSUME NEW w, InStep(w), NEW m \in BOOLEAN, m = w.nsLeft \/ m = TRUE
  PROVE  InStep([w EXCEPT !.nsLeft = m])
<1> DEFINE v == [w EXCEPT !.nsLeft = m]
           d == w.nsstack
           l == w.nsLeft
           st == FrontState(w.nodes)
           lk == FrontLink(w.nodes)
<1>1. DOMAIN v = WrFields /\ v.nodes = w.nodes /\ v.nsstack = d /\ v.nsAlive = w.nsAlive
      /\ v.out = w.out /\ v.nsLeft = m
  BY DEF InStep, WrFields
<1>2. NsFor(st, lk, d, l) /\ d \in Seq(WrDecls) /\ (m = l \/ m = TRUE)
  BY DEF InStep
<1> HIDE DEF v, d, l, st, lk
<1>3. NsFor(st, lk, d, m)
  <2>1. CASE m = l
    BY <1>2, <2>1, Zenon
  <2>2. CASE m = TRUE
    BY <1>2, <2>2, NsForFree
  <2> QED BY <1>2, <2>1, <2>2
<1>4. NsFor(FrontState(v.nodes), FrontLink(v.nodes), v.nsstack, v.nsLeft)
  BY <1>1, <1>3 DEF st, lk
<1>5. InStep(v)
  BY <1>1, <1>2, <1>4 DEF InStep, d
<1> QED BY <1>5 DEF v

(* A declaration added for a prefix the front element does not have.       *)
LEMMA AddDecl ==
  ASSUME NEW w, InStep(w), NEW e \in WrDecls, e.elem = FrontLink(w.nodes),
         WrState(w) \in {"NAME", "ATTRIBUTE"},
         \A i \in 1..Len(w.nsstack) : ~(w.nsstack[i].prefix = e.prefix /\ w.nsstack[i].elem = e.elem)
  PROVE  InStep([w EXCEPT !.nsstack = Append(@, e)])
<1> DEFINE v == [w EXCEPT !.nsstack = Append(@, e)]
           d == w.nsstack
           l == w.nsLeft
           st == FrontState(w.nodes)
           lk == FrontLink(w.nodes)
           D == Append(d, e)
<1>1. DOMAIN v = WrFields /\ v.nodes = w.nodes /\ v.nsstack = D /\ v.nsAlive = w.nsAlive
      /\ v.out = w.out /\ v.nsLeft = l
  BY DEF InStep, WrFields
<1>2. NsFor(st, lk, d, l) /\ d \in Seq(WrDecls) /\ l \in BOOLEAN
      /\ st \in {"NAME", "ATTRIBUTE"} /\ e.elem = lk
      /\ \A i \in 1..Len(d) : ~(d[i].prefix = e.prefix /\ d[i].elem = lk)
  BY DEF InStep, WrState, FrontState
<1> HIDE DEF v, d, l, st, lk
<1>3. D \in Seq(WrDecls) /\ Len(D) = Len(d) + 1 /\ D[Len(d) + 1] = e /\ Len(d) \in Nat
      /\ \A i \in 1..Len(d) : D[i] = d[i]
  BY <1>2
<1> HIDE DEF D
<1>4. NsFor(st, lk, D, l)
  <2>1. SUFFICES ASSUME l = FALSE
                 PROVE  /\ \A i \in 1..Len(D) : D[i].elem = lk
                        /\ \A i, j \in 1..Len(D) : D[i].prefix = D[j].prefix => i = j
    BY <1>2 DEF NsFor
  <2>2. /\ \A i \in 1..Len(d) : d[i].elem = lk
        /\ \A i, j \in 1..Len(d) : d[i].prefix = d[j].prefix => i = j
    BY <1>2, <2>1 DEF NsFor
  <2>3. \A i \in 1..Len(D) : i \in 1..Len(d) \/ i = Len(d) + 1
    BY <1>3
  <2>4. \A i \in 1..Len(D) : D[i].elem = lk
    BY <1>2, <1>3, <2>2, <2>3
  <2>5. \A i, j \in 1..Len(D) : D[i].prefix = D[j].prefix => i = j
    BY <1>2, <1>3, <2>2, <2>3
  <2> QED BY <2>4, <2>5
<1>5. NsFor(FrontState(v.nodes), FrontLink(v.nodes), v.nsstack, v.nsLeft)
  BY <1>1, <1>4 DEF st, lk
<1>6. InStep(v)
  BY <1>1, <1>2, <1>3, <1>5 DEF InStep, l
<1> QED BY <1>6 DEF v

(* xmlTextWriterStartAttributeNS, which queues the declaration before the  *)
(* attribute is started and may fail then.                                 *)
LEMMA StartAttributeNS ==
  ASSUME NEW w, InStep(w), w.ok = TRUE, NEW prefix \in WrPrefixes, NEW uri \in WrUris
  PROVE  InStep(TextWriterStartAttributeNS(w, prefix, uri))
<1> DEFINE front == IF w.nodes = <<>> THEN 0 ELSE Last(w.nodes).link
           cur == {i \in DOMAIN w.nsstack : /\ w.nsstack[i].prefix = prefix
                                            /\ w.nsstack[i].elem = front}
           first == CHOOSE i \in cur : \A j \in cur : j <= i
           e == [prefix |-> prefix, uri |-> uri, elem |-> front]
           add == [w EXCEPT !.nsstack = Append(@, e)]
           Start(v, added) == LET r == TextWriterStartAttribute(v)
                              IN  [r EXCEPT !.nsLeft = @ \/ (added /\ ~r.ok)]
           R == TextWriterStartAttributeNS(w, prefix, uri)
<1>1. R = CASE ~w.nsAlive -> WrFail(w)
            [] w.nsAlive /\ cur = {} -> Start(add, TRUE)
            [] w.nsAlive /\ cur # {} ->
                 IF w.nsstack[first].uri = uri THEN Start(w, FALSE) ELSE WrFail(w)
  BY DEF TextWriterStartAttributeNS
<1>2. front \in WrLinks \cup {0} /\ front = FrontLink(w.nodes)
  <2>1. front = FrontLink(w.nodes)
    BY DEF FrontLink
  <2>2. CASE w.nodes # <<>>
    <3>1. PICK base, st, nm, lk : At(w, base, st, nm, lk, w.nsstack, w.nsAlive, w.nsLeft, w.ok)
      BY <2>2, InStepAt
    <3>2. lk \in WrLinks /\ Last(w.nodes).link = lk
      BY <3>1, AtState
    <3> QED BY <2>1, <2>2, <3>2
  <2> QED BY <2>1, <2>2
<1>3. e \in WrDecls /\ e.prefix = prefix /\ e.elem = front
  BY <1>2 DEF WrDecls
<1>4. InStep(Start(w, FALSE))
  <2> DEFINE r == TextWriterStartAttribute(w)
             m == r.nsLeft \/ (FALSE /\ ~r.ok)
  <2>1. InStep(r)
    BY StartAttributeInStep
  <2> HIDE DEF r
  <2>2. m \in BOOLEAN /\ m = r.nsLeft
    BY <2>1 DEF InStep
  <2> HIDE DEF m
  <2>3. InStep([r EXCEPT !.nsLeft = m])
    BY <2>1, <2>2, LeftInStep
  <2> QED BY <2>3 DEF r, m
<1>5. ASSUME cur = {} PROVE InStep(Start(add, TRUE))
  <2> DEFINE r == TextWriterStartAttribute(add)
             m == r.nsLeft \/ (TRUE /\ ~r.ok)
  <2>1. \A i \in 1..Len(w.nsstack) :
          ~(w.nsstack[i].prefix = e.prefix /\ w.nsstack[i].elem = e.elem)
    <3>1. DOMAIN w.nsstack = 1..Len(w.nsstack)
      BY DEF InStep
    <3> HIDE DEF e
    <3> QED BY <1>3, <1>5, <3>1
  <2>2. add.nodes = w.nodes /\ WrState(add) = WrState(w)
    BY DEF InStep, WrFields, WrState
  <2>3. CASE WrState(w) \in {"NAME", "ATTRIBUTE"}
    <3>1. InStep(add)
      <4> HIDE DEF e
      <4> QED BY <1>2, <1>3, <2>1, <2>3, AddDecl
    <3> HIDE DEF add
    <3>2. InStep(r)
      BY <3>1, StartAttributeInStep
    <3> HIDE DEF r
    <3>3. m \in BOOLEAN /\ (m = r.nsLeft \/ m = TRUE)
      BY <3>2 DEF InStep
    <3> HIDE DEF m
    <3>4. InStep([r EXCEPT !.nsLeft = m])
      BY <3>2, <3>3, LeftInStep
    <3> QED BY <3>4 DEF r, m
  <2>4. CASE WrState(w) \notin {"NAME", "ATTRIBUTE"}
    <3> DEFINE n == w.nodes
               D == Append(w.nsstack, e)
               a == w.nsAlive
               l == w.nsLeft
               b == TRUE
               k == FALSE
    <3>1. r = WrFail(add)
      BY <2>2, <2>4 DEF TextWriterStartAttribute
    <3>2. D \in Seq(WrDecls)
      <4> HIDE DEF e
      <4> QED BY <1>3, SeqEnds DEF InStep
    <3>3. Is(add, n, D, a, WrOpened(n), l, w.ok)
      <4> HIDE DEF e
      <4> QED BY DEF Is, InStep, WrFields
    <3> HIDE DEF add, D
    <3>4. Is(r, n, D, a, WrOpened(n), l, k)
      BY <3>1, <3>3, FailIs
    <3> HIDE DEF r
    <3>5. r.ok = FALSE
      BY <3>4 DEF Is
    <3>6. m = b
      BY <3>5
    <3> HIDE DEF m
    <3>7. Is([r EXCEPT !.nsLeft = m], n, D, a, WrOpened(n), b, k)
      BY <3>4, <3>6 DEF Is, WrFields
    <3>8. n \in Seq(WrNodes) /\ a \in BOOLEAN /\ b \in BOOLEAN /\ b = TRUE
      BY DEF InStep
    <3> HIDE DEF n, a, b, k
    <3>9. InStep([r EXCEPT !.nsLeft = m])
      BY <3>2, <3>7, <3>8, IsInStep
    <3> QED BY <3>9 DEF r, m
  <2> QED BY <2>3, <2>4
<1> HIDE DEF Start, add, cur, first
<1>6. R = WrFail(w) \/ (cur = {} /\ R = Start(add, TRUE)) \/ R = Start(w, FALSE)
  BY <1>1, Zenon
<1> QED BY <1>4, <1>5, <1>6, InStepFail

-----------------------------------------------------------------------------
(* The invariant and what follows from it.                                 *)

(* The inductive invariant.                                                *)
WrInv == InStep(writer) /\ writer.ok = TRUE

(* A new writer is in step.                                                *)
LEMMA WrInitInv == WrInit => WrInv
<1> SUFFICES ASSUME WrInit PROVE WrInv
  OBVIOUS
<1> DEFINE n == <<>>
           d == <<>>
<1>1. Is(writer, n, d, TRUE, n, FALSE, TRUE)
  BY DEF WrInit, Is, WrFields
<1>2. n = WrOpened(n) /\ n \in Seq(WrNodes) /\ d \in Seq(WrDecls) /\ d = <<>>
  BY OpenedEmpty
<1> HIDE DEF n, d
<1>3. Is(writer, n, d, TRUE, WrOpened(n), FALSE, TRUE)
  BY <1>1, <1>2
<1>4. InStep(writer)
  BY <1>2, <1>3, IsInStep
<1>5. writer.ok = TRUE
  BY DEF WrInit
<1> QED BY <1>4, <1>5 DEF WrInv

(* A call that leaves the writer in step.                                  *)
LEMMA CallInv ==
  ASSUME NEW r, InStep(r), WrCall(r)
  PROVE  WrInv'
<1>1. writer' = [r EXCEPT !.ok = TRUE]
  BY DEF WrCall
<1>2. InStep([r EXCEPT !.ok = TRUE]) /\ [r EXCEPT !.ok = TRUE].ok = TRUE
  BY InStepOk
<1>3. InStep(writer') /\ (writer').ok = TRUE
  BY <1>1, <1>2
<1> QED BY <1>3 DEF WrInv

(* Every call does.                                                        *)
LEMMA WrNextInv == WrInv /\ [WrNext]_wrVars => WrInv'
<1> SUFFICES ASSUME WrInv, [WrNext]_wrVars PROVE WrInv'
  OBVIOUS
<1>0. InStep(writer) /\ writer.ok = TRUE
  BY DEF WrInv
<1>1. CASE WrOpenCalls
  <2>1. PICK link \in WrLinks \ WrLive(writer) :
    \/ \E name \in WrNames : WrCall(TextWriterStartElement(writer, name, link))
    \/ \E name \in WrNames, prefix \in WrPrefixes, uri \in WrUris :
         /\ Len(writer.nsstack) < WrMaxDecls
         /\ WrCall(TextWriterStartElementNS(writer, prefix, name, uri, link))
    \/ WrCall(TextWriterStartComment(writer, link))
    \/ WrCall(TextWriterStartPI(writer, link))
    \/ WrCall(TextWriterStartCDATA(writer, link))
    \/ \E pubid, sysid \in BOOLEAN :
         WrCall(TextWriterStartDTD(writer, pubid, sysid, link))
    \/ WrCall(TextWriterStartDTDElement(writer, link))
    \/ WrCall(TextWriterStartDTDAttlist(writer, link))
    \/ \E pe \in BOOLEAN : WrCall(TextWriterStartDTDEntity(writer, pe, link))
    BY <1>1, Zenon DEF WrOpenCalls
  <2>2. link \in WrLinks
    OBVIOUS
  <2>3. CASE \E name \in WrNames : WrCall(TextWriterStartElement(writer, name, link))
    BY <1>0, <2>2, <2>3, StartElementInStep, CallInv
  <2>4. CASE \E name \in WrNames, prefix \in WrPrefixes, uri \in WrUris :
                WrCall(TextWriterStartElementNS(writer, prefix, name, uri, link))
    BY <1>0, <2>2, <2>4, StartElementNS, CallInv
  <2>5. CASE WrCall(TextWriterStartComment(writer, link))
    BY <1>0, <2>2, <2>5, StartComment, CallInv
  <2>6. CASE WrCall(TextWriterStartPI(writer, link))
    BY <1>0, <2>2, <2>6, StartPI, CallInv
  <2>7. CASE WrCall(TextWriterStartCDATA(writer, link))
    BY <1>0, <2>2, <2>7, StartCDATA, CallInv
  <2>8. CASE \E pubid, sysid \in BOOLEAN : WrCall(TextWriterStartDTD(writer, pubid, sysid, link))
    <3>1. PICK pubid, sysid \in BOOLEAN : WrCall(TextWriterStartDTD(writer, pubid, sysid, link))
      BY <2>8
    <3>2. InStep(TextWriterStartDTD(writer, pubid, sysid, link))
      BY <1>0, <2>2, StartDTD, Zenon
    <3> QED BY <3>1, <3>2, CallInv, Zenon
  <2>9. CASE WrCall(TextWriterStartDTDElement(writer, link))
    BY <1>0, <2>2, <2>9, StartDTDDecl, CallInv
  <2>10. CASE WrCall(TextWriterStartDTDAttlist(writer, link))
    BY <1>0, <2>2, <2>10, StartDTDDecl, CallInv
  <2>11. CASE \E pe \in BOOLEAN : WrCall(TextWriterStartDTDEntity(writer, pe, link))
    <3>1. PICK pe \in BOOLEAN : WrCall(TextWriterStartDTDEntity(writer, pe, link))
      BY <2>11
    <3>2. InStep(TextWriterStartDTDEntity(writer, pe, link))
      BY <1>0, <2>2, StartDTDDecl, Zenon
    <3> QED BY <3>1, <3>2, CallInv, Zenon
  <2> QED BY <2>1, <2>3, <2>4, <2>5, <2>6, <2>7, <2>8, <2>9, <2>10, <2>11, Zenon
<1>2. CASE WrOtherCalls
  <2>1. CASE WrCall(TextWriterStartAttribute(writer))
    BY <1>0, <2>1, StartAttributeInStep, CallInv
  <2>2. CASE \E prefix \in WrPrefixes, uri \in WrUris :
               WrCall(TextWriterStartAttributeNS(writer, prefix, uri))
    BY <1>0, <2>2, StartAttributeNS, CallInv
  <2>3. CASE WrCall(TextWriterWriteString(writer))
    BY <1>0, <2>3, WriteString, CallInv
  <2>4. CASE WrCall(TextWriterHandleStateDependencies(writer))
    BY <1>0, <2>4, HandleStateDependencies, CallInv
  <2>5. CASE WrCall(TextWriterWriteDTDNotation(writer))
    BY <1>0, <2>5, EnterSubset, CallInv DEF TextWriterWriteDTDNotation, Ready
  <2> QED BY <1>2, <2>1, <2>2, <2>3, <2>4, <2>5, Zenon DEF WrOtherCalls
<1>3. CASE WrCloseCalls
  <2>0. \A r : Ends(writer, r) => InStep(r)
    BY DEF Ends, Closed
  <2>1. CASE WrCall(TextWriterEndAttribute(writer))
    BY <1>0, <2>1, EndAttributeInStep, CallInv
  <2>2. CASE WrCall(TextWriterEndElement(writer))
    BY <1>0, <2>2, EndElement, CallInv
  <2>3. CASE WrCall(TextWriterFullEndElement(writer))
    BY <1>0, <2>3, FullEndElement, CallInv
  <2>4. CASE WrCall(TextWriterEndComment(writer))
    BY <1>0, <2>0, <2>4, EndComment, CallInv
  <2>5. CASE WrCall(TextWriterEndPI(writer))
    BY <1>0, <2>5, EndPI, CallInv
  <2>6. CASE WrCall(TextWriterEndCDATA(writer))
    BY <1>0, <2>0, <2>6, EndCDATA, CallInv
  <2>7. CASE WrCall(TextWriterEndDTDElement(writer))
    BY <1>0, <2>0, <2>7, EndDecl, CallInv DEF TextWriterEndDTDElement
  <2>8. CASE WrCall(TextWriterEndDTDAttlist(writer))
    BY <1>0, <2>0, <2>8, EndDecl, CallInv DEF TextWriterEndDTDAttlist
  <2>9. CASE WrCall(TextWriterEndDTDEntity(writer))
    BY <1>0, <2>0, <2>9, EndDTDEntity, CallInv
  <2>10. CASE WrCall(TextWriterEndDTD(writer))
    BY <1>0, <2>10, EndDTD, CallInv
  <2> QED BY <1>3, <2>1, <2>2, <2>3, <2>4, <2>5, <2>6, <2>7, <2>8, <2>9, <2>10, Zenon
          DEF WrCloseCalls
<1>4. CASE TextWriterEndDocument
  <2>1. writer' = writer
    BY <1>4 DEF TextWriterEndDocument
  <2> QED BY <1>0, <2>1 DEF WrInv
<1>5. CASE TextWriterEndDocumentStep
  <2> DEFINE r == WrCloseFront(writer)
  <2>1. writer' = [r EXCEPT !.ok = TRUE]
    BY <1>5 DEF TextWriterEndDocumentStep
  <2>2. InStep(r)
    BY <1>0, CloseFront
  <2> HIDE DEF r
  <2>3. InStep(writer') /\ (writer').ok = TRUE
    BY <2>1, <2>2, InStepOk
  <2> QED BY <2>3 DEF WrInv
<1>6. CASE UNCHANGED wrVars
  BY <1>0, <1>6 DEF wrVars, WrInv
<1> QED BY <1>1, <1>2, <1>3, <1>4, <1>5, <1>6 DEF WrNext

(* The invariant holds throughout.                                         *)
LEMMA WrInvariant == WrSpec => []WrInv
BY WrInitInv, WrNextInv, PTL DEF WrSpec

(* For any sequence of calls, failed ones included, the output has open    *)
(* exactly the constructs that the nodes on the stack stand for, and       *)
(* declarations wait for the front element (xmlwriter.c:46-64, 1758).      *)
THEOREM OutputInStep == WrSpec => []WrOutputInStep
<1>1. ASSUME WrInv PROVE WrOutputInStep
  <2>1. InStep(writer)
    BY <1>1 DEF WrInv
  <2> DEFINE d == writer.nsstack
             l == writer.nsLeft
             n == writer.nodes
  <2>2. /\ writer.out = WrOpened(n) /\ l \in BOOLEAN /\ d \in Seq(WrDecls)
        /\ NsFor(FrontState(n), FrontLink(n), d, l)
    BY <2>1 DEF InStep
  <2>3. FrontState(n) = WrState(writer)
    BY DEF FrontState, WrState
  <2>4. DOMAIN d = 1..Len(d) /\ (d = <<>> => DOMAIN d = {})
    BY <2>2
  <2>5. ASSUME l = FALSE
        PROVE  /\ \A i \in DOMAIN d : WrState(writer) \in {"NAME", "ATTRIBUTE"}
                                        /\ d[i].elem = Last(n).link
               /\ \A i, j \in DOMAIN d : d[i].prefix = d[j].prefix => i = j
    <3>1. /\ d # <<>> => WrState(writer) \in {"NAME", "ATTRIBUTE"}
          /\ \A i \in DOMAIN d : d[i].elem = FrontLink(n)
          /\ \A i, j \in DOMAIN d : d[i].prefix = d[j].prefix => i = j
      BY <2>2, <2>3, <2>4, <2>5 DEF NsFor
    <3>2. WrState(writer) \in {"NAME", "ATTRIBUTE"} => FrontLink(n) = Last(n).link
      BY DEF WrState, FrontLink
    <3> HIDE DEF d, n
    <3> QED BY <2>4, <3>1, <3>2
  <2> QED BY <2>2, <2>5, Zenon DEF WrOutputInStep
<1> QED BY <1>1, WrInvariant, PTL

(* xmlTextWriterEndDocument ends: every turn of its loop closes the front  *)
(* node or makes the call fail (xmlwriter.c:605).                          *)
THEOREM EndDocumentEnds == WrSpec => []WrEndDocumentEnds
<1>1. ASSUME WrInv PROVE WrEndDocumentEnds
  <2> DEFINE r == WrCloseFront(writer)
  <2>1. writer.nodes # <<>> =>
          \/ Closed(writer, r)
          \/ writer.nsAlive = FALSE /\ r.ok = FALSE
    BY <1>1, CloseFront DEF WrInv
  <2> HIDE DEF r
  <2>2. writer.nodes # <<>> =>
          IF r.ok THEN Len(r.nodes) < Len(writer.nodes) ELSE ~writer.nsAlive
    <3> SUFFICES ASSUME writer.nodes # <<>>
                 PROVE  IF r.ok THEN Len(r.nodes) < Len(writer.nodes) ELSE ~writer.nsAlive
      OBVIOUS
    <3>1. CASE Closed(writer, r)
      <4>1. r.ok = TRUE /\ Len(r.nodes) < Len(writer.nodes)
        BY <1>1, <3>1 DEF WrInv, Closed
      <4> QED BY <4>1, Zenon
    <3>2. CASE writer.nsAlive = FALSE /\ r.ok = FALSE
      BY <3>2, Zenon
    <3> QED BY <2>1, <3>1, <3>2
  <2> QED BY <2>2 DEF WrEndDocumentEnds, r
<1> QED BY <1>1, WrInvariant, PTL
====
