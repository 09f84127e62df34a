------------------------------- MODULE Writer -------------------------------
(***************************************************************************)
(* The streaming writer of xmlwriter.c: a stack of open nodes with a state *)
(* each (writer->nodes), the namespace declarations collected for the      *)
(* start tag being written (writer->nsstack), and the bytes sent to the    *)
(* output buffer.  The output is kept as what a reader of these bytes      *)
(* knows after the last of them: the constructs that are open, outermost   *)
(* first.  Each call is a function from the writer's record to its next    *)
(* value, ok being FALSE when it returned -1, so that calls compose the    *)
(* way the C functions call each other.                                    *)
(*                                                                         *)
(* Left out: indentation, the text written, failures of the output buffer  *)
(* and of malloc, and the calls that only put the modelled ones one after  *)
(* the other (xmlTextWriterWriteElement and the like).                     *)
(***************************************************************************)
EXTENDS Naturals, Sequences, SequencesExt

CONSTANTS WrNames,      \* element names
          WrPrefixes,   \* namespace prefixes
          WrUris,       \* namespace URIs
          WrMaxDepth,   \* bound on the number of open nodes
          WrMaxDecls    \* bound on the declarations waiting to be written

VARIABLES writer,       \* [nodes, nsstack, nsAlive, out, nsLeft, ok]
          ending        \* progress of xmlTextWriterEndDocument

wrVars == <<writer, ending>>

\* The addresses of the links of the node stack; a freed one may be reused.
WrLinks == 1..WrMaxDepth

WrStates == {"NAME", "ATTRIBUTE", "TEXT", "COMMENT", "PI", "PI_TEXT", "CDATA",
             "DTD", "DTD_TEXT", "DTD_ELEM", "DTD_ELEM_TEXT", "DTD_ATTL",
             "DTD_ATTL_TEXT", "DTD_ENTY", "DTD_ENTY_TEXT", "DTD_PENT"}

(***************************************************************************)
(* What a reader of the output knows.                                      *)
(***************************************************************************)
\* No reader gets past a closing delimiter that closes nothing.
WrGarbled == <<<<"garbled", "">>>>

WrOpens(w, kind, name) == [w EXCEPT !.out = Append(@, <<kind, name>>)]

WrCloses(w, kind, name) ==
  [w EXCEPT !.out = IF @ # <<>> /\ Last(@) = <<kind, name>>
                    THEN Front(@) ELSE WrGarbled]

(***************************************************************************)
(* The node stack; its front is the last element of the sequence.          *)
(***************************************************************************)
WrState(w) == IF w.nodes = <<>> THEN "none" ELSE Last(w.nodes).state

WrName(w) == Last(w.nodes).name

WrSet(w, state) == [w EXCEPT !.nodes[Len(w.nodes)].state = state]

WrFail(w) == [w EXCEPT !.ok = FALSE]

WrLive(w) == {w.nodes[i].link : i \in DOMAIN w.nodes}

WrPush(w, state, name, link) ==
  [w EXCEPT !.nodes = Append(@, [state |-> state, name |-> name, link |-> link])]

WrPop(w) == [w EXCEPT !.nodes = Front(@)]

(***************************************************************************)
(* Attributes.                                                             *)
(***************************************************************************)
TextWriterEndAttribute(w) ==
  IF WrState(w) = "ATTRIBUTE"
  THEN WrCloses(WrSet(w, "NAME"), "value", "")
  ELSE WrFail(w)

TextWriterStartAttribute(w) ==
  CASE WrState(w) = "ATTRIBUTE" ->
         WrSet(WrOpens(TextWriterEndAttribute(w), "value", ""), "ATTRIBUTE")
    [] WrState(w) = "NAME" -> WrSet(WrOpens(w, "value", ""), "ATTRIBUTE")
    [] OTHER -> WrFail(w)

TextWriterWriteAttribute(w) ==
  LET s == TextWriterStartAttribute(w)
  IN  IF s.ok THEN TextWriterEndAttribute(s) ELSE s

\* One of the collected declarations; a failure deletes their list.
WrWriteDecl(w) ==
  LET r == TextWriterWriteAttribute([w EXCEPT !.nsstack = Front(@)])
  IN  IF r.ok THEN r ELSE [r EXCEPT !.nsstack = <<>>, !.nsAlive = FALSE]

\* The collected declarations are written one by one, whatever element they
\* were collected for.
TextWriterOutputNSDecl(w) ==
  LET written[n \in 0..Len(w.nsstack)] ==
        IF n = 0 THEN w
        ELSE IF written[n - 1].ok THEN WrWriteDecl(written[n - 1]) ELSE written[n - 1]
  IN  IF ~w.nsAlive THEN WrFail(w) ELSE written[Len(w.nsstack)]

\* A bug: the tag is closed and the node stays in the NAME state.
FinishTagStale(w) ==
  LET d == TextWriterOutputNSDecl(w)
  IN  IF ~d.ok THEN d
      ELSE WrOpens(WrCloses(d, "tag", WrName(d)), "elem", WrName(d))

\* The end of a start tag, from the NAME state: declarations, then ">".
WrFinishTag(w) ==
  LET d == TextWriterOutputNSDecl(w)
  IN  IF ~d.ok THEN d
      ELSE WrSet(WrOpens(WrCloses(d, "tag", WrName(d)), "elem", WrName(d)), "TEXT")

\* The same from the ATTRIBUTE state, whose case falls through.
WrFinishTagAfterAttribute(w) ==
  WrFinishTag(IF WrState(w) = "ATTRIBUTE" THEN TextWriterEndAttribute(w) ELSE w)

(***************************************************************************)
(* Text.                                                                   *)
(***************************************************************************)
TextWriterHandleStateDependencies(w) ==
  CASE WrState(w) = "NAME" -> WrFinishTag(w)
    [] WrState(w) = "PI" -> WrSet(w, "PI_TEXT")
    [] WrState(w) = "DTD" -> WrSet(WrOpens(w, "subset", ""), "DTD_TEXT")
    [] WrState(w) = "DTD_ELEM" -> WrSet(w, "DTD_ELEM_TEXT")
    [] WrState(w) = "DTD_ATTL" -> WrSet(w, "DTD_ATTL_TEXT")
    [] WrState(w) \in {"DTD_ENTY", "DTD_PENT"} ->
         WrSet(WrOpens(w, "value", ""), "DTD_ENTY_TEXT")
    [] OTHER -> w

\* An attribute value is written straight to the buffer, all else as raw text.
TextWriterWriteString(w) ==
  IF WrState(w) = "ATTRIBUTE" THEN w ELSE TextWriterHandleStateDependencies(w)

(***************************************************************************)
(* Elements.                                                               *)
(***************************************************************************)
TextWriterStartElement(w, name, link) ==
  LET r == CASE WrState(w) \in {"PI", "PI_TEXT"} -> WrFail(w)
             [] WrState(w) \in {"ATTRIBUTE", "NAME"} -> WrFinishTagAfterAttribute(w)
             [] OTHER -> w
  IN  IF r.ok THEN WrOpens(WrPush(r, "NAME", name, link), "tag", name) ELSE r

\* A declaration is added after the element, and belongs to its link.
TextWriterStartElementNS(w, prefix, name, uri, link) ==
  LET r == TextWriterStartElement(w, name, link)
  IN  CASE ~w.nsAlive -> WrFail(w)
        [] w.nsAlive /\ ~r.ok -> r
        [] w.nsAlive /\ r.ok -> [r EXCEPT !.nsstack =
                       Append(@, [prefix |-> prefix, uri |-> uri, elem |-> link])]

\* A declaration is added before the attribute is started.
TextWriterStartAttributeNS(w, prefix, uri) ==
  LET front == IF w.nodes = <<>> THEN 0 ELSE Last(w.nodes).link
      cur == {i \in DOMAIN w.nsstack : /\ w.nsstack[i].prefix = prefix
                                       /\ w.nsstack[i].elem = front}
      first == CHOOSE i \in cur : \A j \in cur : j <= i
      add == [w EXCEPT !.nsstack =
                Append(@, [prefix |-> prefix, uri |-> uri, elem |-> front])]
      Start(v, added) == LET r == TextWriterStartAttribute(v)
                         IN  [r EXCEPT !.nsLeft = @ \/ (added /\ ~r.ok)]
  IN  CASE ~w.nsAlive -> WrFail(w)
        [] w.nsAlive /\ cur = {} -> Start(add, TRUE)
        [] w.nsAlive /\ cur # {} ->
             IF w.nsstack[first].uri = uri THEN Start(w, FALSE) ELSE WrFail(w)

\* Without an open node the list of declarations is deleted for good.
TextWriterEndElement(w) ==
  CASE WrState(w) = "none" -> WrFail([w EXCEPT !.nsstack = <<>>, !.nsAlive = FALSE])
    [] WrState(w) \in {"ATTRIBUTE", "NAME"} ->
         LET d == TextWriterOutputNSDecl(IF WrState(w) = "ATTRIBUTE"
                                         THEN TextWriterEndAttribute(w) ELSE w)
         IN  IF d.ok THEN WrPop(WrCloses(d, "tag", WrName(d))) ELSE d
    [] WrState(w) = "TEXT" -> WrPop(WrCloses(w, "elem", WrName(w)))
    [] OTHER -> WrFail(w)

TextWriterFullEndElement(w) ==
  LET r == IF WrState(w) \in {"ATTRIBUTE", "NAME"}
           THEN WrFinishTagAfterAttribute(w) ELSE w
  IN  IF WrState(w) \in {"ATTRIBUTE", "NAME", "TEXT"}
      THEN IF r.ok THEN WrPop(WrCloses(r, "elem", WrName(r))) ELSE r
      ELSE WrFail(w)

(***************************************************************************)
(* Comments, processing instructions and CDATA sections.                   *)
(***************************************************************************)
WrStart(r, state, kind, link) ==
  IF r.ok THEN WrOpens(WrPush(r, state, "", link), kind, "") ELSE r

TextWriterStartComment(w, link) ==
  WrStart(CASE WrState(w) \in {"none", "TEXT"} -> w
            [] WrState(w) = "NAME" -> WrFinishTag(w)
            [] OTHER -> WrFail(w),
          "COMMENT", "comment", link)

TextWriterStartPI(w, link) ==
  WrStart(CASE WrState(w) \in {"none", "TEXT", "DTD"} -> w
            [] WrState(w) \in {"ATTRIBUTE", "NAME"} -> WrFinishTagAfterAttribute(w)
            [] OTHER -> WrFail(w),
          "PI", "pi", link)

TextWriterStartCDATA(w, link) ==
  WrStart(CASE WrState(w) \in {"none", "TEXT", "PI", "PI_TEXT"} -> w
            [] WrState(w) \in {"ATTRIBUTE", "NAME"} -> WrFinishTagAfterAttribute(w)
            [] OTHER -> WrFail(w),
          "CDATA", "cdata", link)

TextWriterEndComment(w) ==
  IF WrState(w) = "COMMENT" THEN WrPop(WrCloses(w, "comment", "")) ELSE WrFail(w)

\* The call does nothing, and succeeds, when no node is open.
TextWriterEndPI(w) ==
  CASE WrState(w) = "none" -> w
    [] WrState(w) \in {"PI", "PI_TEXT"} -> WrPop(WrCloses(w, "pi", ""))
    [] OTHER -> WrFail(w)

TextWriterEndCDATA(w) ==
  IF WrState(w) = "CDATA" THEN WrPop(WrCloses(w, "cdata", "")) ELSE WrFail(w)

(***************************************************************************)
(* The document type declaration.                                          *)
(***************************************************************************)
\* The node is pushed before the identifiers are looked at: without a system
\* identifier a public one makes the call fail with the declaration open.
TextWriterStartDTD(w, pubid, sysid, link) ==
  IF w.nodes # <<>> THEN WrFail(w)
  ELSE LET r == WrOpens(WrPush(w, "DTD", "", link), "doctype", "")
       IN  IF pubid /\ ~sysid THEN WrFail(r) ELSE r

\* A declaration opens the internal subset if need be.
WrEnterSubset(w) ==
  CASE WrState(w) = "DTD" -> WrSet(WrOpens(w, "subset", ""), "DTD_TEXT")
    [] WrState(w) = "DTD_TEXT" -> w
    [] OTHER -> WrFail(w)

TextWriterStartDTDElement(w, link) == WrStart(WrEnterSubset(w), "DTD_ELEM", "decl", link)

TextWriterStartDTDAttlist(w, link) == WrStart(WrEnterSubset(w), "DTD_ATTL", "decl", link)

\* Unlike the other declarations, an entity may be declared with no DTD open.
TextWriterStartDTDEntity(w, pe, link) ==
  WrStart(IF WrState(w) = "none" THEN w ELSE WrEnterSubset(w),
          IF pe THEN "DTD_PENT" ELSE "DTD_ENTY", "decl", link)

\* A notation is written at once.
TextWriterWriteDTDNotation(w) == WrEnterSubset(w)

WrEndDecl(w, states) ==
  IF WrState(w) \in states THEN WrPop(WrCloses(w, "decl", "")) ELSE WrFail(w)

TextWriterEndDTDElement(w) == WrEndDecl(w, {"DTD_ELEM", "DTD_ELEM_TEXT"})

TextWriterEndDTDAttlist(w) == WrEndDecl(w, {"DTD_ATTL", "DTD_ATTL_TEXT"})

TextWriterEndDTDEntity(w) ==
  WrEndDecl(IF WrState(w) = "DTD_ENTY_TEXT" THEN WrCloses(w, "value", "") ELSE w,
            {"DTD_ENTY", "DTD_ENTY_TEXT", "DTD_PENT"})

\* One turn of the loop of xmlTextWriterEndDTD.
WrEndDTDTurn(w) ==
  CASE WrState(w) = "DTD_TEXT" ->
         WrPop(WrCloses(WrCloses(w, "subset", ""), "doctype", ""))
    [] WrState(w) = "DTD" -> WrPop(WrCloses(w, "doctype", ""))
    [] WrState(w) \in {"DTD_ELEM", "DTD_ELEM_TEXT"} -> TextWriterEndDTDElement(w)
    [] WrState(w) \in {"DTD_ATTL", "DTD_ATTL_TEXT"} -> TextWriterEndDTDAttlist(w)
    [] WrState(w) \in {"DTD_ENTY", "DTD_PENT", "DTD_ENTY_TEXT"} ->
         TextWriterEndDTDEntity(w)
    [] WrState(w) = "COMMENT" -> TextWriterEndComment(w)
    [] OTHER -> w

\* The loop ends with the first turn that fails or finds nothing to close;
\* each of the others pops a node, so there are at most as many as nodes.
TextWriterEndDTD(w) ==
  LET turn[n \in 0..Len(w.nodes)] ==
        IF n = 0 THEN w
        ELSE IF turn[n - 1].ok THEN WrEndDTDTurn(turn[n - 1]) ELSE turn[n - 1]
  IN  turn[Len(w.nodes)]

(***************************************************************************)
(* The end of the document: a loop that closes the front node, whatever it *)
(* is, until none is left or a call fails.  A turn of the inner loop of    *)
(* xmlTextWriterEndDTD is a step of its own.                               *)
(***************************************************************************)
\* A bug: comments are forgotten, and the loop turns on them for ever.
CloseFrontNoComment(w) ==
  CASE WrState(w) \in {"NAME", "ATTRIBUTE", "TEXT"} -> TextWriterEndElement(w)
    [] WrState(w) \in {"PI", "PI_TEXT"} -> TextWriterEndPI(w)
    [] WrState(w) = "CDATA" -> TextWriterEndCDATA(w)
    [] WrState(w) = "COMMENT" -> w
    [] OTHER -> WrEndDTDTurn(w)

WrCloseFront(w) ==
  CASE WrState(w) \in {"NAME", "ATTRIBUTE", "TEXT"} -> TextWriterEndElement(w)
    [] WrState(w) \in {"PI", "PI_TEXT"} -> TextWriterEndPI(w)
    [] WrState(w) = "CDATA" -> TextWriterEndCDATA(w)
    [] WrState(w) \in {"DTD", "DTD_TEXT", "DTD_ELEM", "DTD_ELEM_TEXT", "DTD_ATTL",
                       "DTD_ATTL_TEXT", "DTD_ENTY", "DTD_ENTY_TEXT", "DTD_PENT"} ->
         WrEndDTDTurn(w)
    [] WrState(w) = "COMMENT" -> TextWriterEndComment(w)
    [] OTHER -> w

TextWriterEndDocumentStep ==
  /\ ending = "running"
  /\ LET r == WrCloseFront(writer)
     IN  /\ writer' = [r EXCEPT !.ok = TRUE]
         /\ ending' = IF writer.nodes = <<>> THEN "no"
                      ELSE IF r.ok THEN "running" ELSE "failed"

TextWriterEndDocument ==
  /\ ending # "running"
  /\ ending' = "running"
  /\ UNCHANGED writer

(***************************************************************************)
(* The program: any call at any time.                                      *)
(***************************************************************************)
WrCall(w) == /\ writer' = [w EXCEPT !.ok = TRUE]
             /\ ending' = "no"

WrOpenCalls ==
  \E link \in WrLinks \ WrLive(writer) :
    \/ \E name \in WrNames : WrCall(TextWriterStartElement(writer, name, link))
    \/ \E name \in WrNames, prefix \in WrPrefixes, uri \in WrUris :
         /\ Len(writer.nsstack) < WrMaxDecls
         /\ WrCall(TextWriterStartElementNS(writer, prefix, name, uri, link))
    \/ WrCall(TextWriterStartComment(writer, link))
    \/ WrCall(TextWriterStartPI(writer, link))
    \/ WrCall(TextWriterStartCDATA(writer, link))
    \/ \E pubid, sysid \in BOOLEAN :
         WrCall(TextWriterStartDTD(writer, pubid, sysid, link))
    \/ WrCall(TextWriterStartDTDElement(writer, link))
    \/ WrCall(TextWriterStartDTDAttlist(writer, link))
    \/ \E pe \in BOOLEAN : WrCall(TextWriterStartDTDEntity(writer, pe, link))

WrOtherCalls ==
  \/ WrCall(TextWriterStartAttribute(writer))
  \/ \E prefix \in WrPrefixes, uri \in WrUris :
       /\ Len(writer.nsstack) < WrMaxDecls
       /\ WrCall(TextWriterStartAttributeNS(writer, prefix, uri))
  \/ WrCall(TextWriterWriteString(writer))
  \/ WrCall(TextWriterHandleStateDependencies(writer))
  \/ WrCall(TextWriterWriteDTDNotation(writer))

WrCloseCalls ==
  \/ WrCall(TextWriterEndAttribute(writer))
  \/ WrCall(TextWriterEndElement(writer))
  \/ WrCall(TextWriterFullEndElement(writer))
  \/ WrCall(TextWriterEndComment(writer))
  \/ WrCall(TextWriterEndPI(writer))
  \/ WrCall(TextWriterEndCDATA(writer))
  \/ WrCall(TextWriterEndDTDElement(writer))
  \/ WrCall(TextWriterEndDTDAttlist(writer))
  \/ WrCall(TextWriterEndDTDEntity(writer))
  \/ WrCall(TextWriterEndDTD(writer))

WrInit ==
  /\ writer = [nodes |-> <<>>, nsstack |-> <<>>, nsAlive |-> TRUE,
               out |-> <<>>, nsLeft |-> FALSE, ok |-> TRUE]
  /\ ending = "no"

WrNext ==
  \/ ending # "running" /\ (WrOpenCalls \/ WrOtherCalls \/ WrCloseCalls)
  \/ TextWriterEndDocument
  \/ TextWriterEndDocumentStep

WrSpec == WrInit /\ [][WrNext]_wrVars

(***************************************************************************)
(* Properties.                                                             *)
(***************************************************************************)
\* The constructs a node of the stack leaves open in the output.
WrOpenOf(node) ==
  CASE node.state = "NAME" -> <<<<"tag", node.name>>>>
    [] node.state = "ATTRIBUTE" -> <<<<"tag", node.name>>, <<"value", "">>>>
    [] node.state = "TEXT" -> <<<<"elem", node.name>>>>
    [] node.state = "COMMENT" -> <<<<"comment", "">>>>
    [] node.state \in {"PI", "PI_TEXT"} -> <<<<"pi", "">>>>
    [] node.state = "CDATA" -> <<<<"cdata", "">>>>
    [] node.state = "DTD" -> <<<<"doctype", "">>>>
    [] node.state = "DTD_TEXT" -> <<<<"doctype", "">>, <<"subset", "">>>>
    [] node.state = "DTD_ENTY_TEXT" -> <<<<"decl", "">>, <<"value", "">>>>
    [] OTHER -> <<<<"decl", "">>>>

\* What the nodes of a stack leave open, the outermost first.
WrOpened(nodes) ==
  LET open[n \in 0..Len(nodes)] ==
        IF n = 0 THEN <<>> ELSE open[n - 1] \o WrOpenOf(nodes[n])
  IN  open[Len(nodes)]

(***************************************************************************)
(* Whatever calls are made in whatever order, and however many of them     *)
(* fail, the delimiters written to the output nest, and the constructs     *)
(* they leave open are those of the writer's node stack (the states of     *)
(* xmlwriter.c:46-64).  The namespace declarations waiting to be written   *)
(* belong to the start tag being written and no prefix is declared twice   *)
(* in it, as long as no xmlTextWriterStartAttributeNS call                 *)
(* (xmlwriter.c:1758) has failed after adding one.                         *)
(***************************************************************************)
WrOutputInStep ==
  /\ writer.out = WrOpened(writer.nodes)
  /\ ~writer.nsLeft =>
       /\ \A i \in DOMAIN writer.nsstack :
            /\ WrState(writer) \in {"NAME", "ATTRIBUTE"}
            /\ writer.nsstack[i].elem = Last(writer.nodes).link
       /\ \A i, j \in DOMAIN writer.nsstack :
            writer.nsstack[i].prefix = writer.nsstack[j].prefix => i = j

(***************************************************************************)
(* xmlTextWriterEndDocument (xmlwriter.c:605) returns: in every state its  *)
(* loop may start in, a turn of it leaves fewer nodes open, or fails.  It  *)
(* fails only after a call of xmlTextWriterEndElement that had no element  *)
(* to end, which has deleted the list of declarations.                     *)
(***************************************************************************)
WrEndDocumentEnds ==
  writer.nodes # <<>> =>
    LET r == WrCloseFront(writer)
    IN  IF r.ok THEN Len(r.nodes) < Len(writer.nodes) ELSE ~writer.nsAlive
=============================================================================
