-------------------------------- MODULE Tree --------------------------------
(***************************************************************************)
(* The document tree of tree.c: nodes on a heap, linked by the six         *)
(* pointers parent, children, last, next, prev and properties, and the     *)
(* operations that link, move, merge, replace and free them.  An operation *)
(* is a function from heap to heap, so that they compose the way the C     *)
(* functions call each other and every pointer assignment keeps its place. *)
(*                                                                         *)
(* A program may call an operation with any live nodes that meet what the  *)
(* notes on xmlAddChild ask of it: a node is never put below itself, and   *)
(* parents get children of a kind they can hold.  Allocation does not      *)
(* fail.  Identifiers (xmlID), namespaces and the strings of a dictionary  *)
(* are left out.                                                           *)
(***************************************************************************)
EXTENDS Naturals, Sequences, FiniteSets

CONSTANTS TrHeap,     \* number of nodes the heap has room for
          TrDocs,     \* the documents, a set 1..d of nodes
          TrNames,    \* attribute and entity names
          TrQuotas    \* how many nodes of each kind a program creates: the
                      \* alternatives, functions from TrKinds to Nat

VARIABLES heap,       \* the nodes
          quota,      \* what is left to create
          entities,   \* the hash tables of the internal subset of document 1,
          pentities   \* from names to nodes

trVars == <<heap, quota, entities, pentities>>

Nil == 0
TrNodes == 1..TrHeap
TrKinds == {"elem", "text", "attr", "gent", "pent"}

TrFree == [kind |-> "free", name |-> "", content |-> <<>>, doc |-> Nil,
           parent |-> Nil, children |-> Nil, last |-> Nil,
           next |-> Nil, prev |-> Nil, properties |-> Nil]

\* An assignment through a pointer that may be NULL, guarded in the code.
TrSet(h, n, field, value) ==
  IF n = Nil THEN h ELSE [h EXCEPT ![n][field] = value]

TrSetIf(cond, h, n, field, value) == IF cond THEN TrSet(h, n, field, value) ELSE h

(***************************************************************************)
(* What hangs below a node.                                                *)
(***************************************************************************)
TrLive(h) == {n \in DOMAIN h : h[n].kind # "free"}

\* A list of siblings, from its first node on; a broken list has no value.
TrList(h, first) ==
  LET from[k \in Nat, n \in TrNodes \cup {Nil}] ==
        IF n = Nil \/ k = 0 THEN <<>> ELSE <<n>> \o from[k - 1, h[n].next]
  IN  from[TrHeap, first]

\* A node and its ancestors.
TrAbove(h, n) ==
  LET up[k \in Nat, m \in TrNodes \cup {Nil}] ==
        IF m = Nil \/ k = 0 THEN {} ELSE {m} \cup up[k - 1, h[m].parent]
  IN  up[TrHeap, n]

TrBelow(h, n) == {m \in TrNodes : n \in TrAbove(h, m)}

(***************************************************************************)
(* Unlinking.                                                              *)
(***************************************************************************)
UnlinkNodeInternal(h, cur) ==
  LET c == h[cur]
      p == c.parent
      attr == c.kind = "attr"
      h1 == TrSetIf(p # Nil /\ attr /\ h[p].properties = cur, h, p, "properties", c.next)
      h2 == TrSetIf(p # Nil /\ ~attr /\ h[p].children = cur, h1, p, "children", c.next)
      h3 == TrSetIf(p # Nil /\ ~attr /\ h[p].last = cur, h2, p, "last", c.prev)
      h4 == TrSet(TrSet(h3, c.next, "prev", c.prev), c.prev, "next", c.next)
  IN  [h4 EXCEPT ![cur].parent = Nil, ![cur].next = Nil, ![cur].prev = Nil]

\* Freeing a node frees all below it and unlinks nothing.
FreeNode(h, cur) ==
  LET gone == TrBelow(h, cur)
  IN  [n \in TrNodes |-> IF n \in gone THEN TrFree ELSE h[n]]

(***************************************************************************)
(* A node brought into a document takes along what hangs below it, down to *)
(* nodes that are in that document already.                                *)
(***************************************************************************)
SetTreeDoc(h, tree, doc) ==
  LET moved[k \in Nat, n \in TrNodes \cup {Nil}] ==
        \/ n = tree
        \/ n # Nil /\ k # 0 /\ h[n].doc # doc /\ moved[k - 1, h[n].parent]
  IN  IF h[tree].doc = doc THEN h
      ELSE [n \in TrNodes |->
              IF moved[TrHeap, n] THEN [h[n] EXCEPT !.doc = doc] ELSE h[n]]

(***************************************************************************)
(* Insertion.                                                              *)
(***************************************************************************)
GetPropNode(h, parent, name) ==
  IF parent = Nil THEN Nil
  ELSE LET list == TrList(h, h[parent].properties)
           same == {i \in DOMAIN list : h[list[i]].name = name}
       IN  IF same = {} THEN Nil
           ELSE list[CHOOSE i \in same : \A j \in same : i <= j]

RemoveProp(h, cur) ==
  LET p == h[cur].parent
      nx == h[cur].next
      h1 == IF h[p].properties = cur
            THEN TrSet(TrSet(h, p, "properties", nx), nx, "prev", Nil)
            ELSE LET pre == CHOOSE n \in TrNodes : h[n].next = cur
                 IN  TrSet(TrSet(h, pre, "next", nx), nx, "prev", pre)
  IN  FreeNode(h1, cur)

InsertProp(h, doc, cur, parent, prev, next) ==
  IF \/ prev # Nil /\ h[prev].kind # "attr"
     \/ next # Nil /\ h[next].kind # "attr"
  THEN h
  ELSE LET attr == GetPropNode(h, parent, h[cur].name)
           h1 == UnlinkNodeInternal(h, cur)
           h2 == SetTreeDoc(h1, cur, doc)
           h3 == [h2 EXCEPT ![cur].parent = parent, ![cur].prev = prev,
                            ![cur].next = next]
           h4 == IF prev = Nil THEN TrSet(h3, parent, "properties", cur)
                 ELSE TrSet(h3, prev, "next", cur)
           h5 == TrSet(h4, next, "prev", cur)
       IN  IF attr # Nil /\ attr # cur THEN RemoveProp(h5, attr) ELSE h5

\* A bug: the node is freed before its content is read.
TrMergeLost(h, prev, cur) == FreeNode(UnlinkNodeInternal(h, cur), cur)

\* A text node whose content is appended to prev is unlinked and freed.
TrMergeInto(h, prev, cur) ==
  FreeNode(UnlinkNodeInternal([h EXCEPT ![prev].content = @ \o h[cur].content], cur),
           cur)

\* A bug: the neighbours of a node that moves keep their pointers to it.
InsertNodeLinked(h, doc, cur, parent, prev, next, coalesce) ==
  LET h1 == [h EXCEPT ![cur].parent = parent, ![cur].prev = prev, ![cur].next = next]
      h2 == IF prev = Nil THEN TrSet(h1, parent, "children", cur)
            ELSE TrSet(h1, prev, "next", cur)
  IN  IF next = Nil THEN TrSet(h2, parent, "last", cur)
      ELSE TrSet(h2, next, "prev", cur)

\* prev and next were read before cur is unlinked here.  No caller asks for
\* coalescing and passes a next, so text is only ever merged into prev.
InsertNode(h, doc, cur, parent, prev, next, coalesce) ==
  LET h1 == UnlinkNodeInternal(h, cur)
      h2 == SetTreeDoc(h1, cur, doc)
      h3 == [h2 EXCEPT ![cur].parent = parent, ![cur].prev = prev, ![cur].next = next]
      h4 == IF prev = Nil THEN TrSet(h3, parent, "children", cur)
            ELSE TrSet(h3, prev, "next", cur)
  IN  CASE h[cur].kind = "attr" -> InsertProp(h, doc, cur, parent, prev, next)
        [] /\ h[cur].kind = "text"
           /\ coalesce /\ prev # Nil /\ h[prev].kind = "text" ->
             TrMergeInto(h, prev, cur)
        [] OTHER -> IF next = Nil THEN TrSet(h4, parent, "last", cur)
                    ELSE TrSet(h4, next, "prev", cur)

AddNextSibling(h, prev, cur) ==
  IF cur = prev \/ cur = h[prev].next THEN h
  ELSE InsertNode(h, h[prev].doc, cur, h[prev].parent, prev, h[prev].next, FALSE)

AddPrevSibling(h, next, cur) ==
  IF cur = next \/ cur = h[next].prev THEN h
  ELSE InsertNode(h, h[next].doc, cur, h[next].parent, h[next].prev, next, FALSE)

AddSibling(h, node, cur) ==
  LET list == TrList(h, node)
      last == IF /\ h[node].kind # "attr" /\ h[node].parent # Nil
                 /\ h[h[node].parent].last # Nil
              THEN h[h[node].parent].last ELSE list[Len(list)]
  IN  IF cur = node \/ cur = last THEN h
      ELSE InsertNode(h, h[last].doc, cur, h[last].parent, last, Nil, TRUE)

\* A text node as parent takes over the content and frees the node.
AddChild(h, parent, cur) ==
  LET attrs == TrList(h, h[parent].properties)
      prev == IF h[cur].kind # "attr" THEN h[parent].last
              ELSE IF attrs = <<>> THEN Nil ELSE attrs[Len(attrs)]
  IN  CASE parent = cur -> h
        [] parent # cur /\ h[parent].kind = "text" ->
             FreeNode([h EXCEPT ![parent].content = @ \o h[cur].content], cur)
        [] parent # cur /\ h[parent].kind # "text" /\ cur = prev -> h
        [] OTHER -> InsertNode(h, h[parent].doc, cur, parent, prev, Nil, TRUE)

\* A list whose first text may be merged; the rest is linked as it is.
LinkChildList(h, parent, cur, list) ==
  LET prev == h[parent].last
      merge == /\ h[parent].children # Nil
               /\ h[cur].kind = "text" /\ h[prev].kind = "text"
      next == h[cur].next
      first == IF merge THEN next ELSE cur
      h1 == IF merge
            THEN FreeNode([h EXCEPT ![prev].content = @ \o h[cur].content], cur)
            ELSE h
      h2 == IF h[parent].children = Nil THEN TrSet(h1, parent, "children", cur)
            ELSE TrSet(TrSet(h1, prev, "next", first), first, "prev", prev)
      h3 == [n \in TrNodes |->
               IF \E i \in DOMAIN list : list[i] = n /\ (merge => i > 1)
               THEN [h2[n] EXCEPT !.parent = parent] ELSE h2[n]]
  IN  IF merge /\ next = Nil THEN h1
      ELSE TrSet(h3, parent, "last", list[Len(list)])

AddChildList(h, parent, cur) ==
  LET list == TrList(h, cur)
      doc[k \in Nat] == IF k = 0 THEN h
                        ELSE SetTreeDoc(doc[k - 1], list[k], h[parent].doc)
  IN  LinkChildList(doc[Len(list)], parent, cur, list)

(***************************************************************************)
(* Replacement, roots and text.                                            *)
(***************************************************************************)
TakePlace(h, old, cur, attr) ==
  LET o == h[old]
      h1 == [h EXCEPT ![cur].parent = o.parent, ![cur].next = o.next, ![cur].prev = o.prev]
      h2 == TrSet(TrSet(h1, o.next, "prev", cur), o.prev, "next", cur)
      h3 == TrSetIf(attr /\ h[o.parent].properties = old, h2, o.parent, "properties", cur)
      h4 == TrSetIf(~attr /\ h[o.parent].children = old, h3, o.parent, "children", cur)
      h5 == TrSetIf(~attr /\ h[o.parent].last = old, h4, o.parent, "last", cur)
  IN  [h5 EXCEPT ![old].next = Nil, ![old].prev = Nil, ![old].parent = Nil]

ReplaceNode(h, old, cur) ==
  LET attr == h[cur].kind = "attr"
  IN  IF old = cur \/ h[old].parent = Nil \/ (h[old].kind = "attr") # attr
      THEN h
      ELSE TakePlace(SetTreeDoc(UnlinkNodeInternal(h, cur), cur, h[old].doc), old, cur, attr)

LinkRoot(h, doc, old, root) ==
  CASE old = Nil /\ h[doc].children = Nil ->
         TrSet(TrSet(h, doc, "children", root), doc, "last", root)
    [] old = Nil /\ h[doc].children # Nil -> AddSibling(h, h[doc].children, root)
    [] OTHER -> ReplaceNode(h, old, root)

DocSetRootElement(h, doc, root) ==
  LET list == TrList(h, h[doc].children)
      elems == {i \in DOMAIN list : h[list[i]].kind = "elem"}
      old == IF elems = {} THEN Nil
             ELSE list[CHOOSE i \in elems : \A j \in elems : i <= j]
  IN  IF old = root THEN h
      ELSE LinkRoot(TrSet(SetTreeDoc(UnlinkNodeInternal(h, root), root, doc),
                          root, "parent", doc),
                    doc, old, root)

TextMerge(h, first, second) ==
  IF first = second THEN h ELSE TrMergeInto(h, first, second)

(***************************************************************************)
(* Entity declarations: children of the DTD that a hash table finds.  Node *)
(* 1 stands for the internal subset of document 1 as well.                 *)
(***************************************************************************)
\* A declaration that goes is looked up in the table of its kind; either way
\* it is the table of general entities that loses the name.
RemoveEntity(cur) ==
  LET name == heap[cur].name
      found == IF heap[cur].kind = "gent" THEN entities[name] = cur
               ELSE pentities[name] = cur
  IN  /\ entities' = IF found THEN [entities EXCEPT ![name] = Nil] ELSE entities
      /\ UNCHANGED pentities

\* The hash table decides whether the name is new; the first one wins.
AddEntity(kind, name) ==
  LET table == IF kind = "gent" THEN entities ELSE pentities
      new == CHOOSE n \in TrNodes \ TrLive(heap) :
               \A m \in TrNodes \ TrLive(heap) : n <= m
      last == heap[1].last
      h1 == [heap EXCEPT ![new] = [TrFree EXCEPT !.kind = kind, !.name = name,
                                                 !.doc = 1, !.parent = 1, !.prev = last]]
      h2 == IF last = Nil THEN TrSet(h1, 1, "children", new)
            ELSE TrSet(h1, last, "next", new)
  IN  /\ quota[kind] > 0
      /\ TrLive(heap) # TrNodes
      /\ quota' = [quota EXCEPT ![kind] = @ - 1]
      /\ IF table[name] # Nil THEN UNCHANGED <<heap, entities, pentities>>
         ELSE /\ heap' = TrSet(h2, 1, "last", new)
              /\ entities' = IF kind = "gent" THEN [entities EXCEPT ![name] = new]
                             ELSE entities
              /\ pentities' = IF kind = "pent" THEN [pentities EXCEPT ![name] = new]
                              ELSE pentities

(***************************************************************************)
(* The program.                                                            *)
(***************************************************************************)
TrContent == {"elem", "text"}

TrOf(kinds) == {n \in DOMAIN heap : heap[n].kind \in kinds}

\* What the notes on xmlAddChild leave to the caller.
TrMayHold(parent, cur) ==
  /\ cur \notin TrAbove(heap, parent)
  /\ CASE heap[parent].kind = "doc" -> heap[cur].kind = "elem"
       [] heap[parent].kind = "elem" -> heap[cur].kind \in {"elem", "text", "attr"}
       [] OTHER -> FALSE

TrMayFollow(node, cur) ==
  /\ cur \notin TrAbove(heap, node)
  /\ (heap[node].kind = "attr") = (heap[cur].kind = "attr")
  /\ heap[node].parent # Nil => TrMayHold(heap[node].parent, cur)

TrDo(h) == /\ heap' = h
           /\ UNCHANGED <<quota, entities, pentities>>

NewNode(kind, name, doc) ==
  LET new == CHOOSE n \in TrNodes \ TrLive(heap) :
               \A m \in TrNodes \ TrLive(heap) : n <= m
  IN  /\ quota[kind] > 0
      /\ TrLive(heap) # TrNodes
      /\ heap' = [heap EXCEPT ![new] =
                    [TrFree EXCEPT !.kind = kind, !.name = name, !.doc = doc,
                       !.content = IF kind = "text" THEN <<quota[kind]>> ELSE <<>>]]
      /\ quota' = [quota EXCEPT ![kind] = @ - 1]
      /\ UNCHANGED <<entities, pentities>>

TrNew ==
  \/ \E kind \in {"elem", "text"}, doc \in TrDocs : NewNode(kind, "", doc)
  \/ \E name \in TrNames, doc \in TrDocs : NewNode("attr", name, doc)
  \/ \E kind \in {"gent", "pent"}, name \in TrNames : AddEntity(kind, name)

TrAddChild == \E parent \in TrOf({"doc", "elem"}), cur \in TrOf({"elem", "text", "attr"}) :
                /\ TrMayHold(parent, cur)
                /\ TrDo(AddChild(heap, parent, cur))

\* A linked node would be freed with the links to it left in place.
TrAddToText == \E parent \in TrOf({"text"}), cur \in TrOf({"text"}) :
                 /\ parent # cur
                 /\ heap[cur].parent = Nil /\ heap[cur].next = Nil /\ heap[cur].prev = Nil
                 /\ TrDo(AddChild(heap, parent, cur))

TrAddSibling == \E node, cur \in TrOf({"elem", "text", "attr"}) :
                  /\ TrMayFollow(node, cur)
                  /\ \/ TrDo(AddNextSibling(heap, node, cur))
                     \/ TrDo(AddPrevSibling(heap, node, cur))
                     \/ TrDo(AddSibling(heap, node, cur))

TrAddChildList == \E parent \in TrOf({"elem"}), cur \in TrOf(TrContent) :
                    /\ heap[cur].parent = Nil /\ heap[cur].prev = Nil
                    /\ LET list == TrList(heap, cur)
                       IN  \A i \in DOMAIN list : list[i] \notin TrAbove(heap, parent)
                    /\ TrDo(AddChildList(heap, parent, cur))

\* An attribute that replaces another keeps names unique only if the caller does.
TrReplace == \E old, cur \in TrOf({"elem", "text", "attr"}) :
               /\ old # cur /\ heap[old].parent # Nil
               /\ TrMayFollow(old, cur)
               /\ heap[cur].kind = "attr" => heap[cur].name = heap[old].name
               /\ TrDo(ReplaceNode(heap, old, cur))

TrSetRoot == \E doc \in TrDocs, root \in TrOf({"elem"}) :
               TrDo(DocSetRootElement(heap, doc, root))

TrMergeTexts == \E first, second \in TrOf({"text"}) : TrDo(TextMerge(heap, first, second))

UnlinkNode == \E cur \in TrOf({"elem", "text", "attr", "gent", "pent"}) :
                /\ heap' = UnlinkNodeInternal(heap, cur)
                /\ IF heap[cur].kind \in {"gent", "pent"} THEN RemoveEntity(cur)
                   ELSE UNCHANGED <<entities, pentities>>
                /\ UNCHANGED quota

TrFreeNode == \E cur \in TrOf({"elem", "text", "attr", "gent", "pent"}) :
                /\ heap[cur].parent = Nil /\ heap[cur].next = Nil /\ heap[cur].prev = Nil
                /\ TrDo(FreeNode(heap, cur))

TrInit ==
  /\ heap = [n \in TrNodes |-> IF n \in TrDocs
                               THEN [TrFree EXCEPT !.kind = "doc", !.doc = n] ELSE TrFree]
  /\ quota \in TrQuotas
  /\ entities = [name \in TrNames |-> Nil]
  /\ pentities = [name \in TrNames |-> Nil]

TrNext == \/ TrNew \/ TrAddChild \/ TrAddToText \/ TrAddSibling \/ TrAddChildList
          \/ TrReplace \/ TrSetRoot \/ TrMergeTexts \/ UnlinkNode \/ TrFreeNode

TrSpec == TrInit /\ [][TrNext]_trVars

(***************************************************************************)
(* Properties.                                                             *)
(***************************************************************************)
(***************************************************************************)
(* The six pointers agree, whatever was moved where: no pointer leads to a *)
(* freed node, the neighbour's neighbour is the node itself, and the nodes *)
(* that name a parent are those its two lists hold, the last one last      *)
(* (tree.c:2790 links with neighbours read before the node was unlinked).  *)
(* A tree belongs to one document, and the attributes of an element have   *)
(* distinct names (xmlSetTreeDoc, tree.c:2587; xmlInsertProp,              *)
(* tree.c:2748).                                                           *)
(***************************************************************************)
TrLinked ==
  /\ \A n \in TrLive(heap) :
       \A f \in {"doc", "parent", "children", "last", "next", "prev", "properties"} :
         heap[n][f] # Nil => heap[heap[n][f]].kind # "free"
  /\ \A n \in TrLive(heap) :
       /\ heap[n].next # Nil => /\ heap[heap[n].next].prev = n
                                /\ heap[heap[n].next].parent = heap[n].parent
       /\ heap[n].prev # Nil => heap[heap[n].prev].next = n
  /\ \A n \in TrLive(heap) :
       LET kids == TrList(heap, heap[n].children)
           attrs == TrList(heap, heap[n].properties)
       IN  /\ {m \in TrLive(heap) : heap[m].parent = n}
                = {kids[i] : i \in DOMAIN kids} \cup {attrs[i] : i \in DOMAIN attrs}
           /\ \A i \in DOMAIN kids : heap[kids[i]].kind # "attr"
           /\ \A i \in DOMAIN attrs : heap[attrs[i]].kind = "attr"
           /\ heap[n].last = IF kids = <<>> THEN Nil ELSE kids[Len(kids)]
  /\ \A n \in TrLive(heap) :
       heap[n].parent # Nil => heap[n].doc = heap[heap[n].parent].doc
  /\ \A m, n \in TrOf({"attr"}) :
       (heap[m].parent # Nil /\ heap[m].parent = heap[n].parent
        /\ heap[m].name = heap[n].name) => m = n

\* Where each letter of text is.
TrLetters(h) == UNION {{<<h[n].content[i], n, i>> : i \in DOMAIN h[n].content} : n \in DOMAIN h}

(***************************************************************************)
(* Text nodes may be merged with one another, into either neighbour or     *)
(* list, but no operation except xmlFreeNode loses text, and none doubles  *)
(* any (the node merged from is freed, tree.c:2790, 3031 and 5475).        *)
(***************************************************************************)
TrTextKept ==
  [][ LET before == {l[1] : l \in TrLetters(heap)}
          after == TrLetters(heap')
      IN  /\ before \subseteq {l[1] : l \in after} \/ TrFreeNode
          /\ \A k, l \in after : k[1] = l[1] => k = l ]_trVars

(***************************************************************************)
(* The entity tables find exactly the declarations that are in the DTD, so *)
(* that a declaration that was unlinked may be freed, as xmlUnlinkNode     *)
(* says it must be (tree.c:3511); it is xmlRemoveEntity, tree.c:2424, that *)
(* keeps the tables.                                                       *)
(***************************************************************************)
TrEntityTables ==
  /\ \A n \in TrLive(heap) :
       heap[n].kind = "gent" => (heap[n].parent # Nil) = (entities[heap[n].name] = n)
  /\ \A n \in TrLive(heap) :
       heap[n].kind = "pent" => (heap[n].parent # Nil) = (pentities[heap[n].name] = n)
  /\ \A name \in TrNames :
       /\ entities[name] # Nil => heap[entities[name]].kind = "gent"
       /\ pentities[name] # Nil => heap[pentities[name]].kind = "pent"
=============================================================================
