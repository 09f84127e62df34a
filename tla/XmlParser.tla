----------------------------- MODULE XmlParser -----------------------------
(***************************************************************************)
(* The handlers of parser.c that the pull and the push parser share: they  *)
(* consume one construct of the input, raise errors and call the SAX       *)
(* handler.                                                                *)
(*                                                                         *)
(* The input is a sequence of units.  A construct of markup has width w    *)
(* units with the same kind: the first stands for its '<', the second for  *)
(* the characters that tell which construct it is, the last for its        *)
(* terminator.  Character data has one unit per character: "x", ']' (rb),  *)
(* '>' (gt), CR and LF.  Recovery mode is off: the first fatal error       *)
(* disables SAX.                                                           *)
(***************************************************************************)
EXTENDS Integers, Sequences

TextKinds == {"x", "rb", "gt", "cr", "lf"}
Blanks == {"cr", "lf"}
TagKinds == {"open", "empty", "broken"}

(* A unit: kind, element name, width of the construct, and whether a start *)
(* tag has a namespace error.                                              *)
Unit(k, n, w, ns) == [k |-> k, n |-> n, w |-> w, nsErr |-> ns]

InStates == {"START", "XML_DECL", "MISC", "PROLOG", "DTD", "START_TAG",
             "CONTENT", "END_TAG", "EPILOG", "EOF"}

(* A parser context before the first byte.  stopAt is the number of the    *)
(* event in which the application calls xmlStopParser, 0 for never.        *)
NewCtxt(stopAt) ==
  [cur |-> 0, instate |-> "START", names |-> <<>>, disableSAX |-> 0,
   errNo |-> FALSE, wellFormed |-> TRUE, events |-> <<>>, stopAt |-> stopAt]

-----------------------------------------------------------------------------
(* Errors and events.                                                      *)

(* xmlFatalErr: nothing more once the parser was stopped.                  *)
Fatal(q) ==
  IF q.disableSAX > 1 THEN q
  ELSE [q EXCEPT !.errNo = TRUE, !.wellFormed = FALSE, !.disableSAX = 1]

(* xmlNsErr: an error that is not fatal.                                   *)
NsErr(q) == IF q.disableSAX > 1 THEN q ELSE [q EXCEPT !.errNo = TRUE]

StopParser(q) ==
  [q EXCEPT !.disableSAX = 2, !.errNo = TRUE, !.wellFormed = @ /\ q.errNo]

(* A call of the SAX handler, which delivers a sequence of events at once. *)
Call(q, evs) ==
  LET r == [q EXCEPT !.events = @ \o evs]
  IN  IF q.disableSAX # 0 THEN q
      ELSE IF q.stopAt \in (Len(q.events) + 1)..Len(r.events) THEN StopParser(r)
      ELSE r

Emit(q, ev, name) == Call(q, <<[ev |-> ev, n |-> name]>>)

(* xmlFinishDocument: endDocument is called even after an error.           *)
xmlFinishDocument(q) ==
  [q EXCEPT !.instate = "EOF",
            !.events = Append(@, [ev |-> "endDocument", n |-> ""])]

-----------------------------------------------------------------------------
(* Reading the buffer, the first `end` units of `in`.                      *)

Avail(q, end) == end - q.cur
Here(q, in) == in[q.cur + 1]

Complete(q, in, end) == Avail(q, end) >= Here(q, in).w

(* What the code can tell of the construct at the cursor: a lone '<' says  *)
(* nothing, and is no text either.                                         *)
KindAt(q, in, end) ==
  LET u == Here(q, in)
  IN  IF u.k \notin TextKinds \cup {"ref", "subset"} /\ Avail(q, end) < 2
      THEN "lt" ELSE u.k

(* Past the construct, or at the end of a truncated one.                   *)
Past(q, in, end) ==
  [q EXCEPT !.cur = IF Complete(q, in, end) THEN @ + Here(q, in).w ELSE end]

SkipBlanks(q, in, end) ==
  LET stops == {i \in (q.cur + 1)..end : in[i].k \notin Blanks}
  IN  [q EXCEPT !.cur = IF stops = {} THEN end
                        ELSE (CHOOSE i \in stops : \A j \in stops : i <= j) - 1]

-----------------------------------------------------------------------------
(* xmlParsePI, xmlParseComment, xmlParseCDSect: one event when terminated. *)
(* An XML declaration anywhere but at the start is an error.               *)
Simple(q, in, end) ==
  LET r == Past(q, in, end)
  IN  IF Here(q, in).k = "decl" \/ ~Complete(q, in, end) THEN Fatal(r)
      ELSE Emit(r, Here(q, in).k, "")

(* xmlParseReference, of a character reference or a predefined entity.     *)
xmlParseReference(q, in, end) ==
  IF ~Complete(q, in, end) THEN Fatal(Past(q, in, end))
  ELSE Emit(Past(q, in, end), "char", "ref")

(* Does xmlParseStartTag2 return a name?                                   *)
HasName(q, in, end) == KindAt(q, in, end) \in TagKinds

(* A start tag up to and with its '>' or '/>': the start event comes       *)
(* before the check of the terminator.                                     *)
StartTag(q, in, end) ==
  LET u == Here(q, in)
      s == Emit(IF u.nsErr THEN NsErr(q) ELSE q, "start", u.n)
      r == Past(s, in, end)
  IN  IF u.k = "broken" \/ ~Complete(q, in, end) THEN Fatal(r)
      ELSE IF u.k = "empty" THEN Emit(r, "end", u.n)
      ELSE [r EXCEPT !.names = Append(@, u.n)]

(* xmlParseEndTag2 against the innermost open element, and nameNsPop.      *)
EndTag(q, in, end) ==
  LET u == Here(q, in)
      top == q.names[Len(q.names)]
      r == IF u.n # top \/ ~Complete(q, in, end) THEN Fatal(q) ELSE q
  IN  [Emit(Past(r, in, end), "end", top)
         EXCEPT !.names = SubSeq(@, 1, Len(@) - 1)]

(* xmlParseDocTypeDecl: the event comes before the check that '[' or '>'   *)
(* follows.                                                                *)
xmlParseDocTypeDecl(q, in, end) ==
  LET r == Past(Emit(q, "internalSubset", ""), in, end)
      open == Here(q, in).k = "dtdopen"
  IN  IF ~Complete(q, in, end) \/ (open /\ Avail(r, end) < 1) THEN Fatal(r) ELSE r

(* xmlParseInternalSubset, with no reference to an external entity.        *)
xmlParseInternalSubset(q, in, end) ==
  IF ~Complete(q, in, end) THEN Fatal(Past(q, in, end)) ELSE Past(q, in, end)

-----------------------------------------------------------------------------
(* Character data.                                                         *)

(* The end of the run of text units that starts at the cursor.             *)
RunEnd(q, in, end) ==
  LET stops == {i \in (q.cur + 1)..end : in[i].k \notin TextKinds}
  IN  IF stops = {} THEN end
      ELSE (CHOOSE i \in stops : \A j \in stops : i <= j) - 1

(* Mutants: no ']' is held back, or every one is.                          *)
UndecidedNever(i, in, end) == FALSE
UndecidedAny(i, in, end) == in[i].k = "rb"

(* A ']' that may turn out to start "]]>" once more input is there.        *)
Undecided(i, in, end) ==
  /\ in[i].k = "rb"
  /\ \/ end - i < 1
     \/ in[i + 1].k = "rb" /\ end - i < 2

CDEndAt(i, in, last) ==
  i + 2 <= last /\ in[i].k = "rb" /\ in[i + 1].k = "rb" /\ in[i + 2].k = "gt"

(* The characters of in[from..to] with line ends normalised.  The CR of a  *)
(* CR LF is dropped; a lone CR becomes LF.                                 *)
Characters(in, from, to, end) ==
  LET kept == SelectSeq([i \in 1..(to - from + 1) |-> from + i - 1],
                LAMBDA i : ~(in[i].k = "cr" /\ i < end /\ in[i + 1].k = "lf"))
  IN  [j \in 1..Len(kept) |->
         [ev |-> "char",
          n |-> IF in[kept[j]].k = "cr" THEN "lf" ELSE in[kept[j]].k]]

(* xmlParseCharDataInternal.  With partial set, it stops before a ']' it   *)
(* cannot judge.  Text with a misplaced "]]>" is not delivered (the code   *)
(* may have delivered the part before a line end; no property compares     *)
(* the text right before an error).                                        *)
xmlParseCharDataInternal(q, in, end, partial) ==
  LET last == RunEnd(q, in, end)
      open == {i \in (q.cur + 1)..last : partial /\ Undecided(i, in, end)}
      to == IF open = {} THEN last
            ELSE (CHOOSE i \in open : \A j \in open : i <= j) - 1
      r == IF \E i \in (q.cur + 1)..to : CDEndAt(i, in, last) THEN Fatal(q) ELSE q
  IN  [Call(r, Characters(in, q.cur + 1, to, end)) EXCEPT !.cur = to]

-----------------------------------------------------------------------------
(* xmlParserCheckEOF: "errNo != XML_ERR_OK" returns early.                 *)
xmlParserCheckEOF(q, end) == IF ~q.errNo /\ q.cur < end THEN Fatal(q) ELSE q

=============================================================================
