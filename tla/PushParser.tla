----------------------------- MODULE PushParser -----------------------------
(***************************************************************************)
(* The push parser: xmlParseChunk appends a chunk to the input buffer and  *)
(* runs xmlParseTryOrFinish, a state machine over ctxt->instate that stops *)
(* ("goto done") when the construct at the cursor is not complete yet.     *)
(* One action per case of its switch; the application chooses where the    *)
(* chunks end and when it terminates the document.                         *)
(*                                                                         *)
(* The look-ahead functions are taken to find the end of a construct       *)
(* exactly when it is in the buffer; module ChunkLookup checks them.       *)
(***************************************************************************)
EXTENDS PullParser

CONSTANTS
  Docs,         \* the inputs: sequences of units
  StopAts,      \* events in which the application calls xmlStopParser
  StartSize,    \* units needed to detect the encoding (4 bytes in the code)
  BigBuffer,    \* XML_PARSER_BIG_BUFFER_SIZE
  EmptyChunks   \* may a chunk that is not the last be empty?

(* A "]]" at the end of the buffer must be shorter than a big buffer.      *)
ASSUME SizesAssumption ==
  /\ StartSize \in Nat /\ StopAts \subseteq Nat
  /\ BigBuffer \in Nat /\ BigBuffer > 2
  /\ EmptyChunks \in BOOLEAN

VARIABLES
  doc,        \* what the application has to parse
  p,          \* the parser context
  end,        \* how much of doc is in the input buffer
  heldCr,     \* end_in_lf: a CR at the end of the chunk is held back
  mode,       \* "idle" between calls, "parsing" inside xmlParseTryOrFinish
  terminate,  \* argument of the current call
  total       \* size of the document when its parsing ended, -1 before

pushVars == <<doc, p, end, heldCr, mode, terminate, total>>

PushInit ==
  /\ doc \in Docs
  /\ p \in {NewCtxt(s) : s \in StopAts}
  /\ end = 0
  /\ heldCr = FALSE
  /\ mode = "idle"
  /\ terminate = FALSE
  /\ total = -1

-----------------------------------------------------------------------------
(* Mutant: a CR at the end of a chunk is parsed at once.                   *)
ChunkNoHold(n, last) ==
  /\ mode = "idle"
  /\ p.disableSAX = 0
  /\ n > 0 \/ last \/ EmptyChunks
  /\ mode' = "parsing"
  /\ terminate' = last
  /\ heldCr' = FALSE
  /\ end' = end + n
  /\ UNCHANGED <<doc, p, total>>

(* xmlParseChunk up to the call of xmlParseTryOrFinish: refused once SAX   *)
(* is disabled; a CR at the end of a chunk waits for the next character.   *)
xmlParseChunk(n, last) ==
  LET cr == n > 0 /\ ~last /\ doc[end + n].k = "cr"
  IN  /\ mode = "idle"
      /\ p.disableSAX = 0
      /\ n > 0 \/ last \/ EmptyChunks
      /\ mode' = "parsing"
      /\ terminate' = last
      /\ heldCr' = cr
      /\ end' = end + n - (IF cr THEN 1 ELSE 0)
      /\ UNCHANGED <<doc, p, total>>

(* Nothing to look at: the conditions of "goto done" that do not depend on *)
(* the state.                                                              *)
Exhausted(q) == q.disableSAX # 0 \/ Avail(q, end) < 1

(* A construct of markup must be complete, unless this is the last chunk.  *)
Ready(q) == terminate \/ Complete(q, doc, end)

(* A document type declaration with an internal subset is looked at when a *)
(* '>' was seen: the first is in the subset.                               *)
DocTypeReady(q) ==
  \/ terminate
  \/ Here(q, doc).k = "dtd" /\ Complete(q, doc, end)
  \/ Here(q, doc).k = "dtdopen" /\ Avail(q, end) > Here(q, doc).w

Try(state) == mode = "parsing" /\ ~Exhausted(p) /\ p.instate = state

Goto(q, state) ==
  /\ p' = [q EXCEPT !.instate = state]
  /\ UNCHANGED <<doc, end, heldCr, mode, terminate, total>>

(* An error that ends the document at once.                                *)
Abort(q) ==
  /\ p' = xmlFinishDocument(Fatal(q))
  /\ UNCHANGED <<doc, end, heldCr, mode, terminate, total>>

ContentOrEpilog(q) == IF q.names = <<>> THEN "EPILOG" ELSE "CONTENT"

TryStart ==
  /\ Try("START")
  /\ terminate \/ Avail(p, end) >= StartSize
  /\ Goto(p, "XML_DECL")

(* The XML declaration, and startDocument.                                 *)
DeclReady == \/ terminate
             \/ /\ Avail(p, end) >= 2
                /\ Here(p, doc).k \in {"decl", "pi"} => Complete(p, doc, end)

TryXmlDecl ==
  /\ Try("XML_DECL")
  /\ DeclReady
  /\ LET r == IF KindAt(p, doc, end) # "decl" THEN p
              ELSE IF Complete(p, doc, end) THEN Past(p, doc, end)
              ELSE Fatal(Past(p, doc, end))
     IN  Goto(Emit(r, "startDocument", ""), "MISC")

(* MISC, PROLOG and EPILOG, after SKIP_BLANKS.                             *)
Misc(q) ==
  LET k == KindAt(q, doc, end)
  IN  \/ /\ k \in {"pi", "decl", "comment"}
         /\ Ready(q)
         /\ Goto(Simple(q, doc, end), q.instate)
      \/ /\ k \in {"dtd", "dtdopen"} /\ q.instate = "MISC"
         /\ DocTypeReady(q)
         /\ LET r == xmlParseDocTypeDecl(q, doc, end)
            IN  IF k = "dtdopen" /\ Avail(r, end) > 0 THEN Goto(r, "DTD")
                ELSE Goto(Emit(r, "externalSubset", ""), "PROLOG")
      \/ /\ k \notin {"pi", "decl", "comment"}
         /\ k \in {"dtd", "dtdopen"} => q.instate # "MISC"
         /\ k = "lt" => terminate
         /\ IF q.instate # "EPILOG" THEN Goto(q, "START_TAG")
            ELSE /\ p' = xmlFinishDocument(IF q.errNo THEN q ELSE Fatal(q))
                 /\ UNCHANGED <<doc, end, heldCr, mode, terminate, total>>

TryMisc ==
  /\ \E s \in {"MISC", "PROLOG", "EPILOG"} : Try(s)
  /\ ~Exhausted(SkipBlanks(p, doc, end))
  /\ Misc(SkipBlanks(p, doc, end))

TryDtd ==
  /\ Try("DTD")
  /\ Ready(p)
  /\ Goto(Emit(xmlParseInternalSubset(p, doc, end), "externalSubset", ""), "PROLOG")

IsMarkup(q) == Here(q, doc).k \notin TextKinds \cup {"ref", "subset"}

StartTagReady(q) ==
  terminate \/ (Avail(q, end) >= 2 /\ (IsMarkup(q) => Complete(q, doc, end)))

TryStartTag ==
  /\ Try("START_TAG")
  /\ StartTagReady(p)
  /\ IF ~IsMarkup(p) \/ ~HasName(p, doc, end) THEN Abort(p)
     ELSE LET r == StartTag(p, doc, end) IN Goto(r, ContentOrEpilog(r))

(* Character data without a following '<' or '&' waits until the buffer    *)
(* holds a lot of it.                                                      *)
TextReady(q) ==
  terminate \/ Avail(q, end) >= BigBuffer \/ RunEnd(q, doc, end) < end

TryContent ==
  LET k == KindAt(p, doc, end)
  IN  /\ Try("CONTENT")
      /\ \/ /\ k \in TextKinds
            /\ TextReady(p)
            /\ Goto(xmlParseCharDataInternal(p, doc, end, ~terminate), "CONTENT")
         \/ /\ k = "ref"
            /\ Ready(p)
            /\ Goto(xmlParseReference(p, doc, end), "CONTENT")
         \/ /\ k \in {"pi", "decl", "comment", "cdata"}
            /\ Ready(p)
            /\ Goto(Simple(p, doc, end), "CONTENT")
         \/ k = "etag" /\ Goto(p, "END_TAG")
         \/ /\ k \notin TextKinds \cup {"ref", "pi", "decl", "comment", "cdata", "etag"}
            /\ k = "lt" => terminate
            /\ Goto(p, "START_TAG")

TryEndTag ==
  /\ Try("END_TAG")
  /\ Ready(p)
  /\ LET r == EndTag(p, doc, end) IN Goto(r, ContentOrEpilog(r))

(* One iteration of the loop of xmlParseTryOrFinish.                       *)
TryOrFinish ==
  \/ TryStart \/ TryXmlDecl \/ TryMisc \/ TryDtd
  \/ TryStartTag \/ TryContent \/ TryEndTag

-----------------------------------------------------------------------------
(* The other conditions of "goto done".                                    *)
Starved(q) ==
  \/ q.instate = "EOF"
  \/ q.instate = "START" /\ ~terminate /\ Avail(q, end) < StartSize
  \/ q.instate = "XML_DECL" /\ ~DeclReady
  \/ q.instate \in {"DTD", "END_TAG"} /\ ~Ready(q)
  \/ q.instate = "START_TAG" /\ ~StartTagReady(q)
  \/ /\ q.instate \in {"MISC", "PROLOG", "EPILOG", "CONTENT"}
     /\ ~terminate
     /\ LET k == KindAt(q, doc, end)
        IN  \/ k = "lt"
            \/ k \in {"pi", "decl", "comment"} /\ ~Ready(q)
            \/ k \in {"dtd", "dtdopen"} /\ q.instate = "MISC" /\ ~DocTypeReady(q)
            \/ k \in {"cdata", "ref"} /\ q.instate = "CONTENT" /\ ~Ready(q)
            \/ k \in TextKinds /\ q.instate = "CONTENT" /\ ~TextReady(q)

(* The termination of the document at the end of xmlParseChunk.            *)
Terminated(q, size) ==
  LET r == IF q.instate \in {"EOF", "EPILOG"} THEN xmlParserCheckEOF(q, size) ELSE Fatal(q)
  IN  IF q.instate = "EOF" THEN r ELSE xmlFinishDocument(r)

(* The rest of xmlParseChunk.  After an error it returns early: the        *)
(* document is not finished.                                               *)
xmlParseChunkEnd ==
  LET q == IF p.instate \in {"MISC", "PROLOG", "EPILOG"} /\ ~Exhausted(p)
           THEN SkipBlanks(p, doc, end) ELSE p
      size == IF heldCr THEN end + 1 ELSE end
  IN  /\ mode = "parsing"
      /\ ~Exhausted(q) => Starved(q)
      /\ mode' = "idle"
      /\ heldCr' = FALSE
      /\ IF q.errNo /\ q.disableSAX # 0
         THEN p' = q /\ UNCHANGED end
         ELSE /\ end' = size
              /\ p' = IF terminate THEN Terminated(q, size) ELSE q
      /\ total' = IF total = -1 /\ (terminate \/ q.disableSAX # 0) THEN end' ELSE total
      /\ UNCHANGED <<doc, terminate>>

PushNext ==
  \/ \E n \in 0..(Len(doc) - end) : \E last \in BOOLEAN : xmlParseChunk(n, last)
  \/ TryOrFinish
  \/ xmlParseChunkEnd

(* A call of xmlParseChunk runs to its end; nothing obliges the            *)
(* application to make one.                                                *)
PushSpec == PushInit /\ [][PushNext]_pushVars /\ WF_pushVars(TryOrFinish \/ xmlParseChunkEnd)

-----------------------------------------------------------------------------
Events(q) == SelectSeq(q.events, LAMBDA e : e.ev # "endDocument")

(* The events without the character data at their end.                     *)
Trimmed(evs) ==
  LET marks == {i \in 1..Len(evs) : evs[i].ev # "char"}
  IN  IF marks = {} THEN <<>>
      ELSE SubSeq(evs, 1, CHOOSE i \in marks : \A j \in marks : j <= i)

Finished == mode = "idle" /\ total = end

(* However the input is cut into chunks, also inside a tag, a "]]>" or a   *)
(* CR LF, and wherever it is truncated, the push parser delivers the       *)
(* events of the pull parser and the same verdict; for a document that is  *)
(* not well-formed up to the character data before the error               *)
(* (parser.c:10828-11326 against parser.c:9538-9686, 10379-10487).         *)
PushMatchesPull ==
  Finished =>
    LET ref == xmlParseDocument(SubSeq(doc, 1, total), p.stopAt)
    IN  /\ p.wellFormed = ref.wellFormed
        /\ IF p.disableSAX = 0 THEN Events(p) = Events(ref)
           ELSE Trimmed(Events(p)) = Trimmed(Events(ref))

(* The parser reports nothing it could have to take back: at any time the  *)
(* events are a prefix of those of the whole document, when that is        *)
(* well-formed (parser.c:10828-11206).  And endDocument is called at most  *)
(* once and last, over errors, termination and calls of xmlParseChunk      *)
(* after termination (parser.c:11235-11326).                               *)
NothingPremature ==
  LET ref == xmlParseDocument(doc, p.stopAt)
  IN  /\ ref.wellFormed /\ total = -1 /\ ~terminate => IsPrefix(p.events, ref.events)
      /\ \A i \in 1..Len(p.events) :
           p.events[i].ev = "endDocument" => i = Len(p.events) /\ p.instate = "EOF"

(* Every call of xmlParseChunk returns.                                    *)
ChunkReturns == (mode = "parsing") ~> (mode = "idle")

(* parser.h: "is the document well formed?"  A document that is reported   *)
(* well-formed was read to its end.                                        *)
WellFormedIsWhole == Finished /\ p.wellFormed => p.cur = total

(* parserInternals.c: for "#xD#xA" the parser "must pass to the            *)
(* application the single character #xA", however the input is cut.        *)
NewlinesNormalised ==
  LET lfs(q) == Len(SelectSeq(q.events, LAMBDA e : e.n = "lf"))
  IN  Finished /\ p.wellFormed =>
        lfs(p) = lfs(xmlParseDocument(SubSeq(doc, 1, total), p.stopAt))

=============================================================================
