------------------------------- MODULE MCTree -------------------------------
(* Small trees.                                                            *)
EXTENDS Tree

(* Two documents, and trees of elements; of text; with attributes; of      *)
(* elements and text; with general entities.                               *)
MCTrees == {1, 2}
MCQuota(elem, chars, attr, gent, pent) ==
  [elem |-> elem, text |-> chars, attr |-> attr, gent |-> gent, pent |-> pent]
MCQuotas ==
  {MCQuota(3, 0, 0, 0, 0), MCQuota(1, 3, 0, 0, 0), MCQuota(2, 0, 2, 0, 0),
   MCQuota(2, 1, 0, 0, 0), MCQuota(0, 0, 0, 2, 0)}

(* Parameter entities, for the run about their table.                      *)
MCParameter == {MCQuota(0, 0, 0, 1, 1)}
=============================================================================
