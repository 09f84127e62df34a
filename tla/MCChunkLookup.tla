---------------------------- MODULE MCChunkLookup ----------------------------
(* Inputs for ChunkLookup: all sequences of a few pieces of markup, cut    *)
(* anywhere.                                                               *)
EXTENDS ChunkLookup, SequencesExt

CONSTANT MaxPieces

Pieces(ps, n) == {FlattenSeq(s) : s \in SeqOf(ps, n)}

CommentOpen == <<"<", "!", "-", "-">>
CommentEnd == <<"-", "-", ">">>
PiOpen == <<"<", "?">>
PiEnd == <<"?", ">">>

(* Tags with quoted '>', comments, PIs, CDATA sections, references and     *)
(* text longer than a big buffer, one after the other.                     *)
MCTexts ==
  Pieces({<<"<">>, <<"x">>, <<">">>, <<"apos">>, <<"quot">>, <<"<", "/">>}, MaxPieces)
    \cup Pieces({CommentOpen, <<"-">>, CommentEnd, <<"x", "x">>, <<"&">>, <<"semi">>}, MaxPieces)
    \cup Pieces({PiOpen, PiEnd, <<"<", "!", "[">>, <<"]">>, <<">">>, <<"x">>}, MaxPieces)

(* Internal subsets with comments, quotes and brackets.                    *)
MCSubsets ==
  {<<"[">> \o s : s \in
     Pieces({CommentOpen, CommentEnd, <<"-">>, <<"<", "!">>, <<"apos">>, <<"]">>, <<"sp">>, <<">">>},
            MaxPieces)
       \cup Pieces({<<"apos">>, <<"quot">>, <<"]">>, <<">">>}, MaxPieces + 1)}

(* Internal subsets that are one processing instruction, with text that    *)
(* looks like the end of a conditional section.                            *)
MCPiSubsets ==
  {<<"[">> \o PiOpen \o s \o PiEnd \o <<"]", ">">> :
     s \in Pieces({<<"x">>, <<"apos">>, <<"]", "]", ">">>}, MaxPieces)}
=============================================================================
