---------------------------- MODULE ChunkLookup ----------------------------
(***************************************************************************)
(* The look-ahead of the push parser: before xmlParseTryOrFinish parses a  *)
(* construct it asks whether the buffer holds all of it.  A search that    *)
(* fails is resumed with the next chunk, at ctxt->checkIndex and with the  *)
(* quote or comment state ctxt->endCheckState, two fields that all the     *)
(* searches share.                                                         *)
(*                                                                         *)
(* The text is a sequence of characters, those that a search looks for,    *)
(* "sp" for white space and "x" for any other.  checkIndex counts from the *)
(* cursor, as in the code.                                                 *)
(* The guards "index > LONG_MAX" are out of reach and left out.            *)
(***************************************************************************)
EXTENDS Integers, Sequences

CONSTANTS
  Texts,      \* what follows the cursor in element content
  Subsets,    \* internal subsets, from their "[" on, with what follows them
  BigBuffer   \* XML_PARSER_BIG_BUFFER_SIZE

Quotes == {"apos", "quot"}
Chars == {"<", "/", "?", "!", "-", "[", "]", ">", "&", "semi", "sp", "x"} \cup Quotes

ASSUME TextsAssumption ==
  /\ Texts \cup Subsets \subseteq Seq(Chars)
  /\ BigBuffer \in Nat /\ BigBuffer > 2

VARIABLES
  text,           \* the input
  dtd,            \* instate = XML_PARSER_DTD, otherwise XML_PARSER_CONTENT
  cur,            \* characters consumed: input->cur
  end,            \* characters in the buffer: input->end
  checkIndex,
  endCheckState,  \* "0" for none
  phase           \* "wait" for a chunk, "look" ahead, "parse" a construct

chunkVars == <<text, dtd, cur, end, checkIndex, endCheckState, phase>>

ChunkInit ==
  /\ \/ text \in Texts /\ dtd = FALSE
     \/ text \in Subsets /\ dtd = TRUE
  /\ cur = 0
  /\ end = 0
  /\ checkIndex = 0
  /\ endCheckState = "0"
  /\ phase = "wait"

-----------------------------------------------------------------------------
Avail == end - cur

(* The buffer is terminated by a NUL.                                      *)
At(i) == IF i <= end THEN text[i] ELSE "NUL"

(* The i-th character from the cursor, from 0.                             *)
Ahead(i) == At(cur + 1 + i)

MatchAt(i, str) == \A k \in 1..Len(str) : At(i + k - 1) = str[k]

(* Which construct starts at the cursor: the dispatch on its first         *)
(* characters.  "[CDATA[" is shortened to "[".                             *)
Markup ==
  CASE Ahead(1) = "/" -> "etag"
    [] Ahead(1) = "?" -> "pi"
    [] Ahead(1) = "!" /\ Ahead(2) = "-" /\ Ahead(3) = "-" -> "comment"
    [] Ahead(1) = "!" /\ Ahead(2) = "[" -> "cdata"
    [] OTHER -> "stag"

Kind ==
  IF dtd THEN "subset"
  ELSE CASE Ahead(0) = "&" -> "ref"
         [] Ahead(0) = "<" -> Markup
         [] OTHER -> "text"

(* The tests of avail: enough of the construct to dispatch on.             *)
Recognised ==
  /\ Avail >= 1
  /\ ~dtd /\ Ahead(0) = "<" =>
       /\ Avail >= 2
       /\ Ahead(1) = "!" =>
            /\ Avail >= 3
            /\ Ahead(2) = "-" => Avail >= 4

Terminator == [pi |-> <<"?", ">">>, comment |-> <<"-", "-", ">">>,
               cdata |-> <<"]", "]", ">">>]
StartDelta == [pi |-> 2, comment |-> 4, cdata |-> 3]

-----------------------------------------------------------------------------
(* The searches.  Each yields whether it succeeded and the two fields.     *)

Found(st) == [found |-> TRUE, index |-> 0, state |-> st]
NotFound(pos, st) == [found |-> FALSE, index |-> pos - 1 - cur, state |-> st]

(* Where a search starts: d characters from the cursor, or at checkIndex.  *)
From(d) == cur + 1 + (IF checkIndex = 0 THEN d ELSE checkIndex)

xmlParseLookupChar(c) ==
  IF \E i \in From(1)..end : text[i] = c THEN Found(endCheckState)
  ELSE NotFound(end + 1, endCheckState)

(* Mutant: nothing is searched again, a split terminator is missed.        *)
LookupStringNoRescan(delta, str) ==
  IF \E i \in From(delta)..end : MatchAt(i, str) THEN Found(endCheckState)
  ELSE NotFound(end + 1, endCheckState)

(* The last strLen - 1 characters are searched again.                      *)
xmlParseLookupString(delta, str) ==
  LET start == From(delta)
      left == end + 1 - start
  IN  IF \E i \in start..end : MatchAt(i, str) THEN Found(endCheckState)
      ELSE NotFound(IF left < Len(str) THEN start ELSE end + 2 - Len(str), endCheckState)

xmlParseLookupCharData ==
  IF \E i \in From(0)..end : text[i] \in {"<", "&"} THEN Found(endCheckState)
  ELSE NotFound(end + 1, endCheckState)

(* The loop over the rest of a tag: s.state is the open quote.             *)
GtStep(s, c) ==
  IF s.found THEN s
  ELSE IF s.state # "0" THEN [s EXCEPT !.state = IF c = @ THEN "0" ELSE @]
  ELSE IF c \in Quotes THEN [s EXCEPT !.state = c]
  ELSE IF c = ">" THEN [s EXCEPT !.found = TRUE]
  ELSE s

(* The loop after n characters.                                            *)
GtScan(n) ==
  LET s[i \in Nat] == IF i = 0 THEN [found |-> FALSE, state |-> endCheckState]
                      ELSE GtStep(s[i - 1], text[From(1) + i - 1])
  IN  s[n]

xmlParseLookupGt ==
  LET r == GtScan(end + 1 - From(1))
  IN  IF r.found THEN Found("0") ELSE NotFound(end + 1, r.state)

(* The loop over the internal subset: start is where the state last became *)
(* 0 or "-".                                                               *)
Scan(found, pos, start, state) ==
  [found |-> found, pos |-> pos, start |-> start, state |-> state]

(* One iteration.                                                          *)
SubsetStep(s) ==
  LET c == At(s.pos)
      on(st) == Scan(FALSE, s.pos + 1, s.start, st)
      again == Scan(FALSE, s.pos, s.pos, "0")
      skip(n, st) == Scan(FALSE, s.pos + n, s.pos + n, st)
  IN  IF s.found \/ s.pos > end THEN s
      ELSE CASE s.state = "-" ->
                  IF MatchAt(s.pos, <<"-", "-", ">">>) THEN skip(3, "0") ELSE on("-")
             [] s.state \in {"]", "sp"} ->
                  IF c = ">" THEN Scan(TRUE, s.pos, s.start, s.state)
                  ELSE IF c = "sp" THEN on("sp")
                  ELSE IF c = "]" /\ s.state = "]" THEN on("]")
                  ELSE again
             [] s.state \in Quotes -> IF c = s.state THEN skip(1, "0") ELSE on(s.state)
             [] OTHER ->
                  IF MatchAt(s.pos, <<"<", "!", "-", "-">>) THEN skip(4, "-")
                  ELSE on(IF c \in Quotes \cup {"]"} THEN c ELSE "0")

(* No two iterations in a row leave the position unchanged.                *)
SubsetScan ==
  LET s[i \in Nat] == IF i = 0 THEN Scan(FALSE, From(1), From(1), endCheckState)
                      ELSE SubsetStep(s[i - 1])
  IN  s[2 * Avail]

(* Mutant: the search resumes where the state last changed.                *)
LookupSubsetFromStart ==
  LET r == SubsetScan
  IN  IF r.found THEN Found("0")
      ELSE NotFound(IF r.state \in {"0", "-"} THEN r.start ELSE r.pos, r.state)

(* The last three characters are searched again, so that "<!--" and "-->"  *)
(* split across chunks are detected.                                       *)
xmlParseLookupInternalSubset ==
  LET r == SubsetScan
      back == IF r.pos - r.start < 3 THEN r.start ELSE r.pos - 3
  IN  IF r.found THEN Found("0")
      ELSE NotFound(IF r.state \in {"0", "-"} THEN back ELSE r.pos, r.state)

Search ==
  CASE Kind = "ref" -> xmlParseLookupChar("semi")
    [] Kind = "etag" -> xmlParseLookupChar(">")
    [] Kind \in {"pi", "comment", "cdata"} ->
         xmlParseLookupString(StartDelta[Kind], Terminator[Kind])
    [] Kind = "stag" -> xmlParseLookupGt
    [] Kind = "subset" -> xmlParseLookupInternalSubset
    [] OTHER -> xmlParseLookupCharData

-----------------------------------------------------------------------------
(* The reference: where the construct at the cursor ends, from the whole   *)
(* text, whatever is in the buffer.  The quote or comment that encloses a  *)
(* character of a tag or of the internal subset is computed by an          *)
(* automaton that reads every character once.  For the internal subset it  *)
(* is the grammar's, with comments, quotes and processing instructions,    *)
(* and with the end as the comment at parser.c:10723 has it: "']' S? '>'"  *)
(* in an unescaped section, and not in a ']]>' sequence.                   *)

TextStops == {i \in (cur + 1)..Len(text) : text[i] \in {"<", "&"}}

StringEnds(delta, str) ==
  {i \in (cur + delta + Len(str))..Len(text) :
     \A k \in 1..Len(str) : text[i - Len(str) + k] = str[k]}

TagStep(q, c) == IF q = "0" THEN IF c \in Quotes THEN c ELSE "0"
                 ELSE IF c = q THEN "0" ELSE q

(* The quote that is open after n characters of the tag.                   *)
TagState(n) ==
  LET q[i \in Nat] == IF i = 0 THEN "0" ELSE TagStep(q[i - 1], text[cur + 1 + i])
  IN  q[n]

TagEnds ==
  {i \in (cur + 2)..Len(text) : text[i] = ">" /\ TagState(i - cur - 2) = "0"}

SubsetNext(q, c) ==
  CASE q \in Quotes -> IF c = q THEN "0" ELSE q
    [] q = "<" /\ c = "!" -> "<!"
    [] q = "<" /\ c = "?" -> "<?"
    [] q = "<!" /\ c = "-" -> "<!-"
    [] q = "<!-" /\ c = "-" -> "<!--"
    [] q \in {"<!--", "<!--.."} -> IF c = "-" THEN "<!--.-" ELSE "<!--.."
    [] q = "<!--.-" -> IF c = "-" THEN "<!--.--" ELSE "<!--.."
    [] q = "<!--.--" -> IF c = ">" THEN "0" ELSE IF c = "-" THEN q ELSE "<!--.."
    [] q = "<?" -> IF c = "?" THEN "<?.?" ELSE q
    [] q = "<?.?" -> IF c = ">" THEN "0" ELSE IF c = "?" THEN q ELSE "<?"
    [] q \in {"]", "]]"} /\ c = "]" -> "]]"
    [] q = "]]" /\ c = ">" -> "]]>"
    [] q \in {"]", "]sp"} /\ c = ">" -> "]>"
    [] q \in {"]", "]]", "]sp"} /\ c = "sp" -> "]sp"
    [] q = "]>" -> "]>"
    [] OTHER -> IF c \in Quotes \cup {"<", "]"} THEN c ELSE "0"

(* The state after n characters; "]>" is final.                            *)
SubsetState(n) ==
  LET q[i \in Nat] == IF i = 0 THEN "0" ELSE SubsetNext(q[i - 1], text[cur + 1 + i])
  IN  q[n]

SubsetEnds == {i \in (cur + 2)..Len(text) : SubsetState(i - cur - 1) = "]>"}

(* What the buffer holds of the subset opens a processing instruction, or  *)
(* has a ']]>' sequence: the two cases where the search and the reference  *)
(* disagree.                                                               *)
Disputed == dtd /\ \E n \in 0..(Avail - 1) : SubsetState(n) \in {"<?", "]]>"}

(* Positions at which the construct is complete.                           *)
Ends ==
  CASE Kind = "ref" -> StringEnds(1, <<"semi">>)
    [] Kind = "etag" -> StringEnds(1, <<">">>)
    [] Kind \in {"pi", "comment", "cdata"} -> StringEnds(StartDelta[Kind], Terminator[Kind])
    [] Kind = "stag" -> TagEnds
    [] Kind = "subset" -> SubsetEnds
    [] OTHER -> TextStops

FirstEnd == CHOOSE i \in Ends : \A j \in Ends : i <= j
Whole == \E i \in Ends : i <= end

-----------------------------------------------------------------------------
(* A chunk of n characters arrives.                                        *)
Feed(n) ==
  /\ phase = "wait"
  /\ end' = end + n
  /\ phase' = "look"
  /\ UNCHANGED <<text, dtd, cur, checkIndex, endCheckState>>

(* The construct cannot be told from its first characters: "goto done".    *)
NotRecognised ==
  /\ phase = "look"
  /\ ~Recognised
  /\ phase' = "wait"
  /\ UNCHANGED <<text, dtd, cur, end, checkIndex, endCheckState>>

LongText == Kind = "text" /\ Avail >= BigBuffer

(* A lot of character data is parsed without a search, and checkIndex is   *)
(* reset whatever an earlier search left there.                            *)
SkipLookup ==
  /\ phase = "look"
  /\ Recognised
  /\ LongText
  /\ checkIndex' = 0
  /\ phase' = "parse"
  /\ UNCHANGED <<text, dtd, cur, end, endCheckState>>

Lookup ==
  /\ phase = "look"
  /\ Recognised
  /\ ~LongText
  /\ LET r == Search
     IN  /\ checkIndex' = r.index
         /\ endCheckState' = r.state
         /\ phase' = IF r.found THEN "parse" ELSE "wait"
  /\ UNCHANGED <<text, dtd, cur, end>>

(* xmlParseCharDataInternal leaves up to two ']' at the end of the buffer. *)
Brackets == IF At(end) # "]" THEN 0 ELSE IF At(end - 1) # "]" THEN 1 ELSE 2

(* The construct is consumed: text up to the markup that follows it, in    *)
(* the buffer; anything else with its terminator.                          *)
ConsumedBy ==
  IF Kind # "text" THEN FirstEnd
  ELSE IF Whole THEN FirstEnd - 1
  ELSE end - Brackets

Parse ==
  /\ phase = "parse"
  /\ ~dtd
  /\ cur' = ConsumedBy
  /\ phase' = "look"
  /\ UNCHANGED <<text, dtd, end, checkIndex, endCheckState>>

(* A construct with an error ends the parsing; so does the internal subset *)
(* here.                                                                   *)
StopLooking ==
  /\ phase = "parse"
  /\ phase' = "stopped"
  /\ UNCHANGED <<text, dtd, cur, end, checkIndex, endCheckState>>

ChunkNext ==
  \/ \E n \in 1..(Len(text) - end) : Feed(n)
  \/ NotRecognised \/ SkipLookup \/ Lookup \/ Parse \/ StopLooking

ChunkSpec == ChunkInit /\ [][ChunkNext]_chunkVars

-----------------------------------------------------------------------------
(* However the input is cut into chunks, a search succeeds exactly when    *)
(* the buffer holds the whole construct: nothing split across chunks is    *)
(* missed and no state of an earlier search leaks into a later one, also   *)
(* for another construct (parser.c:10574-10815).  Internal subsets with a  *)
(* processing instruction or a ']]>' sequence are left out, since there    *)
(* the search is wrong (SubsetAvailable).                                  *)
LookupExact ==
  ~Disputed =>
    /\ phase = "wait" /\ Recognised => ~Whole
    /\ phase = "parse" => Whole \/ LongText

(* A search that failed is resumed at most three characters before the end *)
(* of what it has seen, so the cost of a construct that arrives in many    *)
(* chunks is linear (parser.c:10622-10628, 10795-10805).                   *)
ResumesNearEnd == phase = "wait" => Avail - checkIndex <= 3

(* xmlParseLookupInternalSubset: "We first check that the full content of  *)
(* the internal subset is available and parsing is launched only at that   *)
(* point."                                                                 *)
SubsetAvailable ==
  dtd /\ phase = "parse" => Whole

=============================================================================
