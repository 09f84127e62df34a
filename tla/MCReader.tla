------------------------------ MODULE MCReader ------------------------------
(* Documents of up to five tokens: one root element, with comments around  *)
(* it and, inside, elements, comments and text in up to three pieces.      *)
EXTENDS Reader, SequencesExt

MCTokens == {"start", "empty", "end", "text", "misc"}

MCOpenAfter(s, n) ==
  Cardinality({i \in 1..n : s[i] = "start"}) - Cardinality({i \in 1..n : s[i] = "end"})

MCDocument(s) ==
  /\ \A i \in 1..Len(s) : MCOpenAfter(s, i) >= (IF s[i] = "text" THEN 1 ELSE 0)
  /\ MCOpenAfter(s, Len(s)) = 0
  /\ Cardinality({i \in 1..Len(s) : s[i] \in RdElements /\ MCOpenAfter(s, i - 1) = 0}) = 1

MCDocuments == {s \in SeqOf(MCTokens, 5) : MCDocument(s)}
=============================================================================
