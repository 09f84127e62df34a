-------------------------------- MODULE Sax2 --------------------------------
(***************************************************************************)
(* The tree builder of SAX2.c, as the content of a document with entities  *)
(* drives it: elements are linked below ctxt->node, and text is appended   *)
(* to a preceding text node through a cache in the parser context, nodelen *)
(* and nodemem, of the size and the capacity of that node's buffer.  The   *)
(* cache does not name its node: it is about the last child of ctxt->node, *)
(* and every callback that changes either must leave it right.             *)
(*                                                                         *)
(* The parser is in recovery mode, so that content may end with elements   *)
(* still open.  Attributes, names and the HTML builder are left out.       *)
(***************************************************************************)
EXTENDS Integers, Sequences, SequencesExt

CONSTANTS SxEnts,      \* entities, <<"e", i>> may refer to those with smaller i
          SxLens,      \* lengths of the runs of text a callback gets
          SxMaxText,   \* XML_MAX_TEXT_LENGTH
          SxMinCap,    \* smallest capacity of a buffer that has grown (40)
          SxMaxKids,   \* bound on the children of an entity
          SxMaxDepth   \* bound on the node stack

\* The callbacks for text are not called without any.
ASSUME SxAssumption ==
  SxLens \subseteq Nat \ {0} /\ SxMaxText \in Nat /\ SxMinCap \in Nat

VARIABLES nodeTab,     \* open nodes, innermost last: their children so far for
                       \* the root of an entity, the last child for the others
          nodelen, nodemem,
          entChildren, \* the entities that are parsed, with their children
          calls,       \* the entities being parsed, with what they saved
          stopped,     \* a limit was exceeded
          clobbered    \* a buffer was written that is not the node's own

sxVars == <<nodeTab, nodelen, nodemem, entChildren, calls, stopped, clobbered>>

SxNode(kind) == [kind |-> kind, len |-> 0, cap |-> 0, own |-> TRUE]

(***************************************************************************)
(* The builder's own state, as a record that callbacks map to the next.    *)
(***************************************************************************)
\* The depth of the root of the entity being parsed.
SxBase == IF calls = <<>> THEN 0 ELSE Last(calls).depth

SxBuilder == [tab |-> nodeTab, base |-> SxBase, nodelen |-> nodelen, nodemem |-> nodemem,
              stopped |-> stopped, clobbered |-> clobbered]

SxLastChild(b) == LET kids == Last(b.tab)
                  IN  IF kids = <<>> THEN SxNode("none") ELSE Last(kids)

SxSetLast(b, child) == [b EXCEPT !.tab[Len(b.tab)] = Append(Front(@), child)]

SAX2AppendChild(b, child) ==
  [b EXCEPT !.tab[Len(b.tab)] = IF Len(b.tab) = b.base THEN Append(@, child) ELSE <<child>>]

\* The content of a new node is short and shared with the dictionary or the
\* node's own memory, or a buffer of just its size.
SAX2TextNode(kind, len, own) ==
  [kind |-> kind, len |-> len, cap |-> len + 1, own |-> own]

\* What follows an existing text node is put into its buffer.
SxAppendText(b, len) ==
  LET last == SxLastChild(b)
      newSize == b.nodelen + len
      grows == newSize >= b.nodemem
      capacity == IF 2 * newSize <= SxMinCap THEN SxMinCap ELSE 2 * newSize
      shared == ~last.own /\ b.nodemem = b.nodelen + 1
  IN  IF b.nodemem <= 0 \/ len > SxMaxText \/ b.nodelen > SxMaxText - len
      THEN [b EXCEPT !.stopped = TRUE]
      ELSE [SxSetLast(b, [last EXCEPT !.len = newSize,
                                      !.cap = IF grows THEN capacity ELSE @,
                                      !.own = @ \/ grows])
            EXCEPT !.nodelen = newSize,
                   !.nodemem = IF grows THEN capacity ELSE @,
                   !.clobbered = \/ @
                                 \/ newSize >= last.cap /\ ~grows
                                 \/ ~last.own /\ ~(grows /\ shared)]

SAX2Text(b, kind, len, own) ==
  IF b.stopped THEN b
  ELSE IF SxLastChild(b).kind # kind \/ kind # "text"
       THEN [SAX2AppendChild(b, SAX2TextNode(kind, len, own))
             EXCEPT !.nodelen = len, !.nodemem = len + 1]
       ELSE SxAppendText(b, len)

(***************************************************************************)
(* A reference that is replaced: the entity's children are copied, except  *)
(* that a first and a last text go through the callbacks.                  *)
(***************************************************************************)
SxCopyNode(b, list, i) ==
  IF b.stopped THEN b
  ELSE IF list[i].kind \in {"text", "cdata"} /\ (i = 1 \/ i = Len(list))
       THEN SAX2Text(b, list[i].kind, list[i].len, FALSE)
       ELSE SAX2AppendChild([b EXCEPT !.nodemem = 0, !.nodelen = 0],
                            [list[i] EXCEPT !.cap = list[i].len + 1, !.own = TRUE])

SxCopy(b, list) ==
  LET copied[i \in 0..Len(list)] ==
        IF i = 0 THEN b ELSE SxCopyNode(copied[i - 1], list, i)
  IN  copied[Len(list)]

(***************************************************************************)
(* Actions.                                                                *)
(***************************************************************************)
SxBecomes(b) ==
  /\ nodeTab' = b.tab /\ nodelen' = b.nodelen /\ nodemem' = b.nodemem
  /\ stopped' = b.stopped /\ clobbered' = b.clobbered

SxRoom(n) == Len(nodeTab) = SxBase => Len(Last(nodeTab)) + n <= SxMaxKids

SAX2StartElementNs ==
  /\ ~stopped /\ SxRoom(1) /\ Len(nodeTab) < SxMaxDepth
  /\ LET b == SAX2AppendChild([SxBuilder EXCEPT !.nodemem = -1], SxNode("elem"))
     IN  SxBecomes([b EXCEPT !.tab = Append(@, <<>>)])
  /\ UNCHANGED <<entChildren, calls>>

SAX2EndElementNs ==
  /\ ~stopped /\ Len(nodeTab) > SxBase /\ Len(nodeTab) > 1
  /\ SxBecomes([SxBuilder EXCEPT !.nodemem = -1, !.tab = Front(@)])
  /\ UNCHANGED <<entChildren, calls>>

SAX2Characters ==
  /\ ~stopped /\ SxRoom(1)
  /\ \E len \in SxLens, own \in BOOLEAN : SxBecomes(SAX2Text(SxBuilder, "text", len, own))
  /\ UNCHANGED <<entChildren, calls>>

SAX2CDataBlock ==
  /\ ~stopped /\ SxRoom(1)
  /\ \E len \in SxLens : SxBecomes(SAX2Text(SxBuilder, "cdata", len, TRUE))
  /\ UNCHANGED <<entChildren, calls>>

\* Comments, processing instructions and references that stay references.
SAX2OtherNode ==
  /\ ~stopped /\ SxRoom(1)
  /\ SxBecomes(SAX2AppendChild(SxBuilder, SxNode("other")))
  /\ UNCHANGED <<entChildren, calls>>

\* The reference to an entity that is parsed already, and has children.
SxReferenceParsed(e) ==
  /\ ~stopped
  /\ e \in DOMAIN entChildren /\ entChildren[e] # <<>>
  /\ calls # <<>> => Last(calls).ent[2] > e[2]
  /\ SxRoom(Len(entChildren[e]))
  /\ SxBecomes(SxCopy(SxBuilder, entChildren[e]))
  /\ UNCHANGED <<entChildren, calls>>

\* The content of an entity is parsed below a root of its own.
CtxtParseEntityStart(e) ==
  /\ ~stopped
  /\ e \notin DOMAIN entChildren
  /\ calls # <<>> => Last(calls).ent[2] > e[2]
  /\ Len(nodeTab) < SxMaxDepth
  /\ calls' = Append(calls, [ent |-> e, depth |-> Len(nodeTab) + 1,
                             nodelen |-> nodelen, nodemem |-> nodemem])
  /\ nodeTab' = Append(nodeTab, <<>>)
  /\ nodelen' = 0 /\ nodemem' = 0
  /\ UNCHANGED <<entChildren, stopped, clobbered>>

\* A bug: the cache is left as the content of the entity left it.
SxKept(call) == [nodelen |-> nodelen, nodemem |-> nodemem]

\* What xmlCtxtParseEntity puts back for the content around the reference.
SxRestored(call) == [nodelen |-> call.nodelen, nodemem |-> call.nodemem]

\* The entity has been parsed.
SxWithChildren(e, list) ==
  [x \in DOMAIN entChildren \cup {e} |-> IF x = e THEN list ELSE entChildren[x]]

\* The end of the content: elements still open are popped, the children of
\* the root become the entity's, and the reference is replaced by them.
CtxtParseEntityEnd ==
  /\ ~stopped /\ calls # <<>>
  /\ LET call == Last(calls)
         list == [i \in DOMAIN nodeTab[call.depth] |->
                    [nodeTab[call.depth][i] EXCEPT !.cap = 0, !.own = TRUE]]
         outer == IF Len(calls) = 1 THEN 0 ELSE calls[Len(calls) - 1].depth
         cache == SxRestored(call)
         b == [SxBuilder EXCEPT !.tab = SubSeq(nodeTab, 1, call.depth - 1),
                                !.base = outer,
                                !.nodelen = cache.nodelen, !.nodemem = cache.nodemem]
     IN  /\ Len(b.tab) = outer => Len(Last(b.tab)) + Len(list) <= SxMaxKids
         /\ entChildren' = SxWithChildren(call.ent, list)
         /\ SxBecomes(SxCopy(b, list))
  /\ calls' = Front(calls)

SxInit ==
  /\ nodeTab = <<<<>>>>
  /\ nodelen = 0 /\ nodemem = 0
  /\ entChildren = <<>>
  /\ calls = <<>>
  /\ stopped = FALSE /\ clobbered = FALSE

SxNext ==
  \/ SAX2StartElementNs \/ SAX2EndElementNs \/ SAX2Characters \/ SAX2CDataBlock
  \/ SAX2OtherNode
  \/ \E e \in SxEnts : SxReferenceParsed(e) \/ CtxtParseEntityStart(e)
  \/ CtxtParseEntityEnd

SxSpec == SxInit /\ [][SxNext]_sxVars

(***************************************************************************)
(* Properties.                                                             *)
(***************************************************************************)
(***************************************************************************)
(* Text that follows a text node is written behind what the node holds,    *)
(* into a buffer that is the node's own and large enough: the cache is     *)
(* about the last child of the current node whenever that is a text node,  *)
(* also after elements, entities parsed in between and copies of their     *)
(* content, and the case SAX2.c:2528 calls "Shouldn't happen" does not.     *)
(***************************************************************************)
SxCacheRight ==
  /\ ~clobbered
  /\ (~stopped /\ SxLastChild(SxBuilder).kind = "text") =>
       /\ nodelen = SxLastChild(SxBuilder).len
       /\ nodemem = SxLastChild(SxBuilder).cap
=============================================================================
