---------------------------- MODULE MCStartTag ----------------------------
(* Start tags with few attributes.                                         *)
EXTENDS StartTag, SequencesExt

(* Up to three attributes and two defaulted ones; two prefixes, which may  *)
(* be undeclared or bound to one name or to two.  Names being              *)
(* interchangeable, the first attribute is an x.                           *)
MCPrefixes == {"none", "a", "b"}
MCNames == [name : {"x", "y"}, prefix : MCPrefixes]
MCScopes ==
  {[n \in MCPrefixes |-> CASE n = "none" -> "-" [] n = "a" -> x [] n = "b" -> y] :
     x \in {"u", "-"}, y \in {"u", "v"}}
MCTags ==
  [atts : {s \in SeqOf(MCNames, 3) : s # <<>> => s[1].name = "x"},
   defaults : {<<>>} \cup {<<m>> : m \in MCNames}
                \cup {s \in MCNames \X MCNames : s[1] # s[2]},
   scope : MCScopes]

(* Without defaulted attributes, which come with a rescan of their own.    *)
MCPlainTags == {t \in MCTags : t.defaults = <<>>}
=============================================================================
