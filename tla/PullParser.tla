----------------------------- MODULE PullParser -----------------------------
(***************************************************************************)
(* xmlParseDocument on a complete input in memory, as a function of the    *)
(* input: the reference for the push parser.  A fold over the input, one   *)
(* construct at a time; instate names the part of xmlParseDocument that is *)
(* being executed.  After an error no event but endDocument follows, so    *)
(* the rest of the input is not looked at.                                 *)
(***************************************************************************)
EXTENDS XmlParser, SequencesExt

(* xmlParseMisc: comments and PIs.                                         *)
IsMisc(q, in) == KindAt(q, in, Len(in)) \in {"pi", "decl", "comment"}

(* One construct of the prolog, before (MISC) or after (PROLOG) the        *)
(* document type declaration, or the start of the root element.            *)
PullProlog(r, in) ==
  LET end == Len(in)
      k == KindAt(r, in, end)
      doctype == xmlParseDocTypeDecl(r, in, end)
      subset == IF k = "dtdopen" /\ doctype.cur < end
                THEN xmlParseInternalSubset(doctype, in, end) ELSE doctype
  IN  IF r.cur >= end THEN Fatal(r)
      ELSE IF IsMisc(r, in) THEN Simple(r, in, end)
      ELSE IF r.instate = "MISC" /\ k \in {"dtd", "dtdopen"}
      THEN [Emit(subset, "externalSubset", "") EXCEPT !.instate = "PROLOG"]
      ELSE IF ~HasName(r, in, end) THEN Fatal(r)
      ELSE LET s == StartTag(r, in, end)
           IN  [s EXCEPT !.instate = IF s.names = <<>> THEN "EPILOG" ELSE "CONTENT"]

(* xmlParseContentInternal.                                                *)
PullContent(q, in) ==
  LET end == Len(in)
      k == KindAt(q, in, end)
      r == CASE k \in TextKinds -> xmlParseCharDataInternal(q, in, end, FALSE)
             [] k = "ref" -> xmlParseReference(q, in, end)
             [] k \in {"pi", "decl", "comment", "cdata"} -> Simple(q, in, end)
             [] k = "etag" -> EndTag(q, in, end)
             [] OTHER -> IF HasName(q, in, end) THEN StartTag(q, in, end) ELSE Fatal(q)
  IN  IF q.cur >= end THEN Fatal(q)
      ELSE [r EXCEPT !.instate = IF r.names = <<>> THEN "EPILOG" ELSE "CONTENT"]

(* The Misc part at the end, and the end of the document.                  *)
PullEpilog(r, in) ==
  IF r.cur < Len(in) /\ IsMisc(r, in) THEN Simple(r, in, Len(in))
  ELSE xmlFinishDocument(xmlParserCheckEOF(r, Len(in)))

PullStart(q, in) ==
  IF Len(in) = 0 THEN [Fatal(q) EXCEPT !.instate = "EOF"]
  ELSE LET k == KindAt(q, in, Len(in))
           r == IF k # "decl" THEN q
                ELSE IF Complete(q, in, Len(in)) THEN Past(q, in, Len(in))
                ELSE Fatal(Past(q, in, Len(in)))
       IN  [Emit(r, "startDocument", "") EXCEPT !.instate = "MISC"]

PullStep(q, in) ==
  LET r == SkipBlanks(q, in, Len(in))
  IN  IF q.instate = "EOF" THEN q
      ELSE IF q.disableSAX # 0 THEN xmlFinishDocument(q)
      ELSE CASE q.instate = "START" -> PullStart(q, in)
             [] q.instate \in {"MISC", "PROLOG"} -> PullProlog(r, in)
             [] q.instate = "CONTENT" -> PullContent(q, in)
             [] q.instate = "EPILOG" -> PullEpilog(r, in)

(* The context after xmlParseDocument: every step consumes input or is one *)
(* of the three that start, fail and finish.                               *)
xmlParseDocument(in, stopAt) ==
  FoldLeft(LAMBDA q, i : PullStep(q, in), NewCtxt(stopAt),
           [i \in 1..(Len(in) + 4) |-> i])

=============================================================================
