------------------------------- MODULE Reader -------------------------------
(***************************************************************************)
(* The pull interface of xmlreader.c: xmlTextReaderRead walks the tree     *)
(* that the push parser builds under it, asks for more input when the tree *)
(* ends where it stands, and frees the nodes it leaves behind unless the   *)
(* application preserves them.                                             *)
(*                                                                         *)
(* A document is a sequence of tokens and a node is the position of the    *)
(* token that starts it, text being one node over adjacent text tokens.    *)
(* How the input is cut into chunks is open: a chunk ends anywhere.  Links *)
(* between nodes follow from the positions of the live ones.  Left out:    *)
(* attributes, validation, XInclude, walking a finished document, and      *)
(* entity references, which the parser has replaced or leaves alone.       *)
(***************************************************************************)
EXTENDS Integers, Sequences, FiniteSets

CONSTANTS RdDocs,     \* the documents: sequences of tokens, complete ones
          RdMaxExtra  \* bound on the calls of Expand and of Preserve

VARIABLES rdDoc,      \* the document
          rdPos,      \* tokens the parser has delivered
          rdLive,     \* nodes of the tree
          rdSKept,    \* nodes with NODE_IS_SPRESERVED
          reader,     \* node (0: NULL), state, mode, depth, preserves
          rdCall,     \* the running call: where it is, and its local variables
          rdSeen,     \* history: events of the document reported so far
          rdMissed,   \* history: events that should have been reported before
          rdExpanded, \* history: an Expand of the application met the end of input
          rdHeld,     \* history: nodes preserved before their content was read
          rdExtra     \* calls of Expand and of Preserve left

rdVars == <<rdDoc, rdPos, rdLive, rdSKept, reader, rdCall, rdSeen,
            rdMissed, rdExpanded, rdHeld, rdExtra>>

-----------------------------------------------------------------------------
(* The document, as the SAX callbacks deliver it.                          *)

RdElements == {"start", "empty"}

\* The elements of d open after n tokens, innermost last.
RdOpenIn(d, n) ==
  LET open[i \in 0..n] ==
        IF i = 0 THEN <<>>
        ELSE CASE d[i] = "start" -> Append(open[i - 1], i)
               [] d[i] = "end" -> SubSeq(open[i - 1], 1, Len(open[i - 1]) - 1)
               [] OTHER -> open[i - 1]
  IN  open[n]

(* Documents have nodes, every end tag closes an element and all are       *)
(* closed, and there is text in elements only, as the parser drops white   *)
(* space elsewhere; a document that is not well-formed ends in RdError.    *)
ASSUME RdDocsAssumption ==
  \A d \in RdDocs :
    /\ d \in Seq(RdElements \cup {"end", "text", "misc"}) /\ d # <<>>
    /\ \A i \in 1..Len(d) : d[i] \in {"end", "text"} => RdOpenIn(d, i - 1) # <<>>
    /\ RdOpenIn(d, Len(d)) = <<>>

RdOpen(n) == RdOpenIn(rdDoc, n)

RdTop(stack) == IF stack = <<>> THEN 0 ELSE stack[Len(stack)]

RdNodeAt(i) == /\ rdDoc[i] \in {"start", "empty", "text", "misc"}
               /\ ~(rdDoc[i] = "text" /\ i > 1 /\ rdDoc[i - 1] = "text")

RdParent(n) == RdTop(RdOpen(n - 1))
RdAncestors(n) == {RdOpen(n - 1)[k] : k \in 1..Len(RdOpen(n - 1))}
RdBelow(n) == {m \in 1..Len(rdDoc) : RdNodeAt(m) /\ n \in RdAncestors(m)}

\* The tokens of a run of text that starts at n, among the first pos.
RdPieces(n, pos) ==
  Cardinality({i \in n..pos : \A j \in n..i : rdDoc[j] = "text"})

\* What a reader reports: the node, whether it is its end, depth and text.
RdEventAt(i) ==
  LET n == IF rdDoc[i] = "end" THEN RdTop(RdOpen(i - 1)) ELSE i
  IN  <<n, rdDoc[i] = "end", Len(RdOpen(n - 1)),
        IF rdDoc[n] = "text" THEN RdPieces(n, Len(rdDoc)) ELSE 0>>

RdEvents ==
  LET all[i \in 0..Len(rdDoc)] ==
        IF i = 0 THEN <<>>
        ELSE IF RdNodeAt(i) \/ rdDoc[i] = "end" THEN Append(all[i - 1], RdEventAt(i))
        ELSE all[i - 1]
  IN  all[Len(rdDoc)]

-----------------------------------------------------------------------------
(* The tree and the parser, as the reader sees them.                       *)

RdSiblings(n) == {m \in rdLive : RdParent(m) = RdParent(n)}
RdChildren(n) == {m \in rdLive : RdParent(m) = n}

RdFirst(S) == IF S = {} THEN 0 ELSE CHOOSE n \in S : \A m \in S : n <= m
RdLast(S) == IF S = {} THEN 0 ELSE CHOOSE n \in S : \A m \in S : n >= m

RdNext(n) == RdFirst({m \in RdSiblings(n) : m > n})
RdPrev(n) == RdLast({m \in RdSiblings(n) : m < n})

nodeNr == Len(RdOpen(rdPos))
ctxtNode == RdTop(RdOpen(rdPos))

\* xmlTextReaderGetSuccessor(n) # NULL
RdHasSuccessor(n) == \E m \in {n} \cup RdAncestors(n) : RdNext(m) # 0

\* Nodes with NODE_IS_PRESERVED.
rdKept == rdSKept \cup UNION {RdAncestors(n) : n \in rdSKept}

\* xmlTextReaderFreeNode, after xmlUnlinkNode.
RdFreed(live, n) == live \ ({n} \cup RdBelow(n))

-----------------------------------------------------------------------------
(* xmlTextReaderPushData.                                                  *)

\* The parser delivers the tokens up to pos; a chunk may complete none.
RdDelivered(pos) ==
  /\ rdPos' = pos
  /\ rdLive' = rdLive \cup {n \in (rdPos + 1)..pos : RdNodeAt(n)}
  /\ UNCHANGED <<rdDoc, rdSKept>>

RdFails == [reader EXCEPT !.mode = "ERROR", !.state = "ERROR"]

\* It returns with input left to read, or comes to the end of the input,
\* which it looks for only until a start tag is delivered, and terminates
\* the parser.
PushData ==
  \/ \E pos \in rdPos..Len(rdDoc) : RdDelivered(pos) /\ UNCHANGED reader
  \/ /\ \A i \in (rdPos + 1)..Len(rdDoc) : rdDoc[i] \notin RdElements
     /\ RdDelivered(Len(rdDoc))
     /\ reader' = [reader EXCEPT !.mode = "EOF", !.state = "DONE"]

RdIdle == [at |-> "idle", oldstate |-> "", olddepth |-> 0, oldnode |-> 0, next |-> 0]

RdReturn == rdCall' = RdIdle
RdAt(where) == rdCall' = [rdCall EXCEPT !.at = where]
RdHistory == <<rdSeen, rdMissed, rdExpanded, rdHeld, rdExtra>>
RdTree == <<rdDoc, rdPos, rdLive, rdSKept>>

\* Input that cannot be read or is not well-formed ends the call; what came
\* before it is of no interest any more.
RdError ==
  /\ rdCall.at \in {"initial", "fill", "text", "expand"}
  /\ reader' = RdFails
  /\ UNCHANGED RdTree
  /\ RdReturn
  /\ UNCHANGED RdHistory

-----------------------------------------------------------------------------
(* xmlTextReaderRead: the first call looks for a node.                     *)

ReadFirst ==
  /\ rdCall.at \in {"idle", "read"} /\ reader.mode = "INITIAL"
  /\ reader' = [reader EXCEPT !.mode = "INTERACTIVE"]
  /\ RdAt("initial")
  /\ UNCHANGED <<RdTree, RdHistory>>

\* The loop ends when an element is open, or the input has ended.
RdFirstNode ==
  IF ctxtNode' = 0 /\ reader'.mode # "EOF" THEN RdAt("initial") ELSE RdAt("begin")

InitialPush ==
  /\ rdCall.at = "initial"
  /\ PushData
  /\ RdFirstNode
  /\ UNCHANGED RdHistory

InitialFound ==
  /\ rdCall.at = "begin"
  /\ reader' = [reader EXCEPT !.node = RdFirst(RdChildren(0)), !.state = "ELEMENT",
                              !.depth = 0]
  /\ RdAt("found")
  /\ UNCHANGED <<RdTree, RdHistory>>

-----------------------------------------------------------------------------
(* The next node.                                                          *)

\* After an error, or at the end.
ReadNothing ==
  /\ rdCall.at \in {"idle", "read"} /\ reader.mode # "INITIAL"
  /\ reader.state = "ERROR" \/ reader.node = 0
  /\ reader' = IF reader.mode = "EOF" THEN reader ELSE RdFails
  /\ RdReturn
  /\ UNCHANGED <<RdTree, RdHistory>>

ReadOn ==
  /\ rdCall.at \in {"idle", "read"} /\ reader.mode # "INITIAL"
  /\ reader.state # "ERROR" /\ reader.node # 0
  /\ rdCall' = [rdCall EXCEPT !.at = "fill", !.oldstate = reader.state,
                              !.olddepth = nodeNr, !.oldnode = reader.node]
  /\ UNCHANGED <<RdTree, reader, RdHistory>>

\* Nothing follows the node yet, and the parser has not left its parent.
FillMore ==
  LET node == reader.node
      kids == RdChildren(node)
  IN  /\ RdNext(node) = 0
      /\ nodeNr = rdCall.olddepth
      /\ \/ rdCall.oldstate = "BACKTRACK"
         \/ kids = {}
         \/ Cardinality(kids) = 1 /\ \A n \in kids : rdDoc[n] = "text"
      /\ ctxtNode \in {0, node, RdParent(node)}
      /\ reader.mode # "EOF"

FillPush ==
  /\ rdCall.at = "fill" /\ FillMore
  /\ PushData
  /\ UNCHANGED <<rdCall, RdHistory>>

\* <a></a> gets an end of its own.
RdNeedsEnd ==
  /\ rdCall.oldstate = "ELEMENT"
  /\ rdDoc[reader.node] = "start" /\ RdChildren(reader.node) = {}

RdDescends == rdCall.oldstate # "BACKTRACK" /\ RdChildren(reader.node) # {}

ReadChild ==
  /\ RdDescends
  /\ reader' = [reader EXCEPT !.node = RdFirst(RdChildren(@)), !.depth = @ + 1,
                              !.state = "ELEMENT"]
  /\ RdAt("found")
  /\ UNCHANGED rdLive

ReadEmptyEnd ==
  /\ ~RdDescends /\ RdNeedsEnd
  /\ reader' = [reader EXCEPT !.state = "END"]
  /\ RdAt("found")
  /\ UNCHANGED rdLive

\* The level of preserves after the reader has left the node.
RdPreserves ==
  IF reader.preserves > 0 /\ reader.node \in rdSKept THEN reader.preserves - 1
  ELSE reader.preserves

ReadSibling ==
  /\ ~RdDescends /\ ~RdNeedsEnd
  /\ RdNext(reader.node) # 0
  /\ LET node == RdNext(reader.node)
         prev == RdPrev(node)
     IN  /\ reader' = [reader EXCEPT !.node = node, !.state = "ELEMENT",
                                     !.preserves = RdPreserves]
         /\ rdLive' = IF RdPreserves = 0 /\ prev \notin rdKept THEN RdFreed(rdLive, prev)
                      ELSE rdLive
  /\ RdAt("found")

\* Mutant: the level of preserves is not looked at on the way up.
ReadParentFrees ==
  /\ ~RdDescends /\ ~RdNeedsEnd
  /\ RdNext(reader.node) = 0 /\ RdParent(reader.node) # 0
  /\ LET node == RdParent(reader.node)
         last == RdLast(RdChildren(node))
     IN  /\ reader' = [reader EXCEPT !.node = node, !.depth = @ - 1,
                                     !.state = "BACKTRACK", !.preserves = RdPreserves]
         /\ rdLive' = IF last \notin rdKept THEN RdFreed(rdLive, last) ELSE rdLive
  /\ RdAt("found")

ReadParent ==
  /\ ~RdDescends /\ ~RdNeedsEnd
  /\ RdNext(reader.node) = 0 /\ RdParent(reader.node) # 0
  /\ LET node == RdParent(reader.node)
         last == RdLast(RdChildren(node))
     IN  /\ reader' = [reader EXCEPT !.node = node, !.depth = @ - 1,
                                     !.state = "BACKTRACK", !.preserves = RdPreserves]
         /\ rdLive' = IF RdPreserves = 0 /\ last \notin rdKept THEN RdFreed(rdLive, last)
                      ELSE rdLive
  /\ RdAt("found")

ReadStep ==
  /\ rdCall.at = "fill" /\ ~FillMore
  /\ ReadChild \/ ReadEmptyEnd \/ ReadSibling \/ ReadParent
  /\ UNCHANGED <<rdDoc, rdPos, rdSKept, RdHistory>>

\* The document node: the parser is terminated unless it was, and the last
\* node goes.
ReadEnd ==
  /\ rdCall.at = "fill" /\ ~FillMore
  /\ ~RdDescends /\ ~RdNeedsEnd
  /\ RdNext(reader.node) = 0 /\ RdParent(reader.node) = 0
  /\ \/ reader' = [reader EXCEPT !.node = 0, !.depth = -1, !.state = "DONE",
                                  !.preserves = RdPreserves]
     \/ reader.mode # "EOF" /\ reader' = RdFails
  /\ rdLive' = IF /\ reader'.state = "DONE" /\ RdPreserves = 0
                  /\ rdCall.oldnode \notin rdKept
               THEN RdFreed(rdLive, rdCall.oldnode) ELSE rdLive
  /\ rdMissed' = IF reader'.state = "DONE"
                 THEN rdMissed \cup {RdEvents[i] : i \in (rdSeen + 1)..Len(RdEvents)}
                 ELSE rdMissed
  /\ RdReturn
  /\ UNCHANGED <<rdDoc, rdPos, rdSKept, rdSeen, rdExpanded, rdHeld, rdExtra>>

-----------------------------------------------------------------------------
(* A node was found.  Text that ends the tree is completed first.          *)

\* Mutant: the parser is still inside of the text's parent.
ExpandDoneEarly ==
  RdHasSuccessor(reader.node) \/ nodeNr <= reader.depth \/ reader.mode = "EOF"

\* xmlTextReaderDoExpand needs nothing more.
ExpandDone == RdHasSuccessor(reader.node) \/ nodeNr < reader.depth \/ reader.mode = "EOF"

RdReported ==
  <<reader.node,
    rdDoc[reader.node] \in RdElements /\ reader.state \in {"END", "BACKTRACK"},
    reader.depth,
    IF rdDoc[reader.node] = "text" THEN RdPieces(reader.node, rdPos) ELSE 0>>

\* Read returns 1; within xmlTextReaderNext, it is called again until the
\* node comes back, and once more.
ReadFound ==
  LET text == rdDoc[reader.node] = "text" /\ RdNext(reader.node) = 0
      later == {i \in (rdSeen + 1)..Len(RdEvents) : RdEvents[i] = RdReported}
  IN  /\ rdCall.at \in {"found", "text"}
      /\ rdCall.at = "text" => ExpandDone
      /\ IF text /\ rdCall.at = "found" THEN RdAt("text") /\ UNCHANGED RdHistory
         ELSE /\ rdSeen' = IF later = {} THEN rdSeen ELSE RdFirst(later)
              /\ rdMissed' = IF later = {} THEN rdMissed \cup {<<"unexpected">>}
                             ELSE rdMissed \cup {RdEvents[i] : i \in (rdSeen + 1)..(rdSeen' - 1)}
              /\ rdCall' = CASE rdCall.next = 0 -> RdIdle
                             [] rdCall.next = reader.node -> [RdIdle EXCEPT !.at = "read"]
                             [] OTHER -> [RdIdle EXCEPT !.at = "read", !.next = rdCall.next]
              /\ UNCHANGED <<rdExpanded, rdHeld, rdExtra>>
      /\ UNCHANGED <<RdTree, reader>>

ExpandPush ==
  /\ rdCall.at \in {"text", "expand"} /\ ~ExpandDone
  /\ PushData
  /\ rdExpanded' = (rdExpanded \/ (rdCall.at = "expand" /\ reader'.mode = "EOF"))
  /\ UNCHANGED <<rdCall, rdSeen, rdMissed, rdHeld, rdExtra>>

-----------------------------------------------------------------------------
(* What the application calls besides; it does not go on after an error.   *)

xmlTextReaderNext ==
  /\ rdCall.at = "idle"
  /\ reader.node # 0 /\ reader.state # "ERROR"
  /\ rdDoc[reader.node] = "start" /\ reader.state \notin {"END", "BACKTRACK"}
  /\ rdCall' = [RdIdle EXCEPT !.at = "read", !.next = reader.node]
  /\ UNCHANGED <<RdTree, reader, RdHistory>>

RdExtraCall ==
  rdCall.at = "idle" /\ reader.node # 0 /\ reader.state # "ERROR" /\ rdExtra > 0

xmlTextReaderExpand ==
  /\ RdExtraCall
  /\ rdCall' = [RdIdle EXCEPT !.at = "expand"]
  /\ rdExtra' = rdExtra - 1
  /\ UNCHANGED <<RdTree, reader, rdSeen, rdMissed, rdExpanded, rdHeld>>

ExpandReturns ==
  /\ rdCall.at = "expand" /\ ExpandDone
  /\ RdReturn
  /\ UNCHANGED <<RdTree, reader, RdHistory>>

xmlTextReaderPreserve ==
  /\ RdExtraCall
  /\ rdSKept' = rdSKept \cup {reader.node}
  /\ reader' = [reader EXCEPT !.preserves = @ + 1]
  /\ rdHeld' = IF reader.state = "ELEMENT" THEN rdHeld \cup {reader.node} ELSE rdHeld
  /\ rdExtra' = rdExtra - 1
  /\ UNCHANGED <<rdDoc, rdPos, rdLive, rdCall, rdSeen, rdMissed, rdExpanded>>

RdInit ==
  /\ rdDoc \in RdDocs
  /\ rdPos = 0 /\ rdLive = {} /\ rdSKept = {}
  /\ reader = [node |-> 0, state |-> "NONE", mode |-> "INITIAL", depth |-> 0, preserves |-> 0]
  /\ rdCall = RdIdle
  /\ rdSeen = 0 /\ rdMissed = {} /\ rdExpanded = FALSE /\ rdHeld = {}
  /\ rdExtra = RdMaxExtra

RdNextStep ==
  \/ xmlTextReaderNext \/ xmlTextReaderExpand \/ xmlTextReaderPreserve
  \/ ReadFirst \/ InitialPush \/ InitialFound \/ ReadNothing \/ ReadOn
  \/ FillPush \/ ReadStep \/ ReadEnd \/ ReadFound \/ ExpandPush \/ ExpandReturns
  \/ RdError

RdSpec == RdInit /\ [][RdNextStep]_rdVars

-----------------------------------------------------------------------------
(* Properties.                                                             *)

(* The nodes come in document order, each once, elements with their end,   *)
(* at their depth and with all of their text, however the input is cut and *)
(* whatever is preserved or skipped (xmlTextReaderRead, xmlreader.c:1200), *)
(* until the application expands a node and that meets the end of input.   *)
RdInOrder == rdMissed = {} \/ rdExpanded

(* "Moves the position of the current instance to the next node in the     *)
(* stream" (xmlreader.c:1192), and xmlTextReaderNext to "the node          *)
(* following the current one in document order" (1585): no event of the    *)
(* document is left out.                                                   *)
RdAllReported == rdMissed = {}

(* The nodes in use are never freed: the reader's own, the open elements   *)
(* and the unfinished text of the parser, and the trees that were          *)
(* preserved.  The nodes left behind are, once preserved trees have been   *)
(* left as well (xmlreader.c:1334-1350, 1388-1413), until the application  *)
(* expands a node and that meets the end of input: then an element may be  *)
(* visited again, and its preserved children are left twice.               *)
RdMemory ==
  /\ reader.node # 0 => reader.node \in rdLive
  /\ RdAncestors(rdPos + 1) \subseteq rdLive
  /\ rdPos > 0 /\ rdDoc[rdPos] = "text" => RdLast({n \in 1..rdPos : RdNodeAt(n)}) \in rdLive
  /\ rdKept \subseteq rdLive
  /\ rdExpanded \/ \A n \in rdHeld : {m \in RdBelow(n) : m <= rdPos} \subseteq rdLive
  /\ (rdCall.at = "idle" /\ reader.node # 0 /\ reader.preserves = 0) =>
       rdExpanded \/ \A n \in rdLive : n >= reader.node \/ n \in RdAncestors(reader.node)
                           \/ n \in rdKept \/ RdAncestors(n) \cap rdSKept # {}
=============================================================================
