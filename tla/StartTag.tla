------------------------------ MODULE StartTag ------------------------------
(***************************************************************************)
(* The attributes of a start tag (xmlParseStartTag2, parser.c): namespace  *)
(* resolution, the search for duplicates through a hash table of expanded  *)
(* names, defaulted attributes, and the second search for duplicates by    *)
(* qualified name.                                                         *)
(*                                                                         *)
(* The hash table is taken by what it returns: the attribute inserted      *)
(* first among those with the same local name and namespace name.  It has  *)
(* room for twice the attributes.                                          *)
(***************************************************************************)
EXTENDS Naturals, Sequences, FiniteSets

CONSTANTS
  StTags,      \* inputs: attributes, defaulted attributes, namespaces in scope
  StNoPrefix,  \* prefix NULL
  StNoUri      \* NS_INDEX_EMPTY: no namespace

ASSUME StAssumption ==
  \A tag \in StTags :
    /\ tag.atts \in Seq({tag.atts[i] : i \in DOMAIN tag.atts})
    /\ tag.defaults \in Seq({tag.defaults[k] : k \in DOMAIN tag.defaults})

VARIABLES
  stTag,       \* the start tag
  stStep,      \* "parse", "reported"
  stErrors,    \* errors raised
  stAtts       \* attributes handed to startElementNs

stVars == <<stTag, stStep, stErrors, stAtts>>

StInit == stTag \in StTags /\ stStep = "parse" /\ stErrors = {} /\ stAtts = <<>>

Uri(a) == IF a.prefix = StNoPrefix THEN StNoUri ELSE stTag.scope[a.prefix]
Undeclared(a) == a.prefix # StNoPrefix /\ Uri(a) = StNoUri
SameName(a, b) == a.name = b.name /\ Uri(a) = Uri(b)
SameQName(a, b) == a.name = b.name /\ a.prefix = b.prefix

Specified == stTag.atts
First(S) == CHOOSE i \in S : \A j \in S : i <= j

(* Attributes with an undeclared prefix have been reported and stay out of *)
(* the hash table.                                                         *)
Hashed == {i \in 1..Len(Specified) : ~Undeclared(Specified[i])}

(* xmlAttrHashInsert: earlier attributes with the same expanded name.      *)
Earlier(i) == {j \in Hashed : j < i /\ SameName(Specified[i], Specified[j])}

Collisions == {i \in Hashed : Earlier(i) # {}}

(* The attribute found decides which error it is.                          *)
Duplicates ==
  {i \in Collisions : Specified[First(Earlier(i))].prefix = Specified[i].prefix}

(* Mutant: qualified names are not searched again.                         *)
QNameDuplicatesNone == {}

(* xmlAttrHashInsertQName: only when two attributes or more collided and   *)
(* no duplicate was seen.                                                  *)
QNameDuplicates ==
  IF Duplicates = {} /\ Cardinality(Collisions) > 1
  THEN {i \in 1..Len(Specified) :
          /\ Specified[i].prefix # StNoPrefix
          /\ \E j \in 1..(i - 1) : SameQName(Specified[i], Specified[j])}
  ELSE {}

-----------------------------------------------------------------------------
(* Defaulted attributes.  The table now also holds the defaults that were  *)
(* inserted before, those with an undeclared prefix under no namespace.    *)

Defaults == stTag.defaults

SameAs(k) == {i \in Hashed : SameName(Specified[i], Defaults[k])}

(* Defaults are declared once per qualified name; two may still share an   *)
(* expanded name.                                                          *)
SameDefault(k) == {j \in 1..(k - 1) : SameName(Defaults[j], Defaults[k])}

Searched == Len(Specified) + Len(Defaults) > 1

(* The default is dropped: the attribute found has the same prefix.        *)
Overridden(k) ==
  /\ Searched /\ SameAs(k) # {}
  /\ Specified[First(SameAs(k))].prefix = Defaults[k].prefix

Redefined(k) ==
  /\ Searched /\ ~Overridden(k)
  /\ SameAs(k) # {} \/ SameDefault(k) # {}

Added == {k \in 1..Len(Defaults) : ~Overridden(k)}

(* The defaults that are added, in their order.                            *)
AddedSeq ==
  [n \in 1..Cardinality(Added) |->
     Defaults[CHOOSE k \in Added : Cardinality({j \in Added : j <= k}) = n]]

TagErrors ==
  (IF Duplicates \cup QNameDuplicates # {} THEN {"redefined"} ELSE {})
  \cup (IF Collisions \ Duplicates # {} \/ \E k \in Added : Redefined(k)
        THEN {"ns-redefined"} ELSE {})
  \cup (IF \/ \E i \in 1..Len(Specified) : Undeclared(Specified[i])
           \/ \E k \in 1..Len(Defaults) : Undeclared(Defaults[k])
        THEN {"ns-undeclared"} ELSE {})

(* A fatal error keeps the tag from the application.                       *)
xmlParseStartTag2 ==
  /\ stStep = "parse"
  /\ stStep' = "reported"
  /\ stErrors' = TagErrors
  /\ stAtts' = IF "redefined" \in TagErrors THEN <<>> ELSE Specified \o AddedSeq
  /\ UNCHANGED stTag

StNext == xmlParseStartTag2

StSpec == StInit /\ [][StNext]_stVars

-----------------------------------------------------------------------------
Unique(atts) ==
  \A i, j \in 1..Len(atts) : SameQName(atts[i], atts[j]) => i = j

AllDeclared ==
  /\ \A i \in 1..Len(Specified) : ~Undeclared(Specified[i])
  /\ \A k \in 1..Len(Defaults) : ~Undeclared(Defaults[k])

(* When all prefixes are declared, the tag is refused exactly if it        *)
(* specifies a qualified name twice, and a tag without any error delivers  *)
(* specified and defaulted attributes with different expanded names,       *)
(* although one table serves both searches (parser.c:9269).                *)
AttributesUnique ==
  stStep = "reported" /\ AllDeclared =>
    /\ ("redefined" \in stErrors) = ~Unique(Specified)
    /\ stErrors = {} =>
         \A i, j \in 1..Len(stAtts) : SameName(stAtts[i], stAtts[j]) => i = j

(* "No attribute name may appear more than once in the same start-tag":    *)
(* the attributes delivered have different qualified names.                *)
UniqueAttSpec == stStep = "reported" => Unique(stAtts)
=============================================================================
