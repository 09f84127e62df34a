----------------------------- MODULE CatalogRef -----------------------------
(***************************************************************************)
(* What a catalog should answer, read off its files, and that the search   *)
(* of Catalog, which loads them on demand, answers just that.              *)
(***************************************************************************)
EXTENDS Catalog

(***************************************************************************)
(* The answer that the files give: the entries in scope, read as           *)
(* definitions.  `out` are delegate entries that are passed over.          *)
(***************************************************************************)
CatFirst(answers) ==
  LET known == {i \in DOMAIN answers : answers[i] # CatNone}
  IN  IF known = {} THEN CatNone ELSE answers[Min(known)]

RECURSIVE CatRef(_, _, _, _, _)
CatRef(kind, f, pub, sys, out) ==
  LET entries == SelectSeq(catSetup.content[f], LAMBDA x : <<f, x>> \notin out)
      named(type, id) == SelectSeq(entries, LAMBDA x : x.type = type /\ x.name = id)
      prefixed(types, id) ==
        SelectSeq(entries, LAMBDA x : x.type \in types /\ IsPrefix(x.name, id))
      direct(exact, rewrite, id) ==
        LET rules == {x \in Range(prefixed({rewrite}, id)) : x.name # <<>>}
            rule == CHOOSE x \in rules : \A y \in rules : Len(y.name) <= Len(x.name)
        IN  IF named(exact, id) # <<>> THEN CatUrl(named(exact, id)[1], <<>>)
            ELSE IF rules = {} THEN CatNone
            ELSE CatUrl(rule, SubSeq(id, Len(rule.name) + 1, Len(id)))
      ask(seq, p, s) ==
        CatFirst([i \in DOMAIN seq |-> CatRef(kind, seq[i].url, p, s, out)])
      cut(answer) == IF answer = CatNone THEN CatBreak ELSE answer
      delegates(types, id) == id # CatNone /\ prefixed(types, id) # <<>>
      isPublic == SelectSeq(prefixed({"delegatePublic"}, pub), LAMBDA x : x.public)
      found == IF kind = "uri" THEN direct("uri", "rewriteURI", sys)
               ELSE IF sys # CatNone THEN direct("system", "rewriteSystem", sys) ELSE CatNone
  IN  IF catSetup.content[f] = CatUnreadable THEN CatNone
      ELSE IF found # CatNone THEN found
      ELSE IF kind = "uri" /\ delegates({"delegateURI"}, sys)
        THEN cut(ask(prefixed({"delegateSystem", "delegateURI"}, sys), CatNone, sys))
      ELSE IF kind = "ext" /\ delegates({"delegateSystem"}, sys)
        THEN cut(ask(prefixed({"delegateSystem"}, sys), CatNone, sys))
      ELSE IF pub # CatNone /\ named("public", pub) # <<>>
        THEN CatUrl(named("public", pub)[1], <<>>)
      ELSE IF pub # CatNone /\ isPublic # <<>> THEN cut(ask(isPublic, pub, CatNone))
      ELSE ask(SelectSeq(entries, LAMBDA x : x.type = "next"), pub, sys)

CatAnswer(q, out) ==
  LET answer == CatFirst([i \in DOMAIN catSetup.roots |->
                            CatRef(q.kind, catSetup.roots[i], q.pub, q.sys, out)])
  IN  IF answer = CatBreak THEN CatNone ELSE answer

(* Entries that delegate to a file that cannot be read.                    *)
CatLost ==
  UNION {{<<f, x>> : x \in {y \in Range(catSetup.content[f]) :
             /\ y.type \in {"delegateSystem", "delegatePublic", "delegateURI"}
             /\ catSetup.content[y.url] = CatUnreadable}} : f \in DOMAIN catSetup.content}

(* A call returns what the catalog files say, whichever files this or      *)
(* another thread has loaded before or is loading, and however the changes *)
(* of the depth counters interleave, unless it is cut off.  Two things     *)
(* depend on the past.  An entry that delegates to an unreadable file cuts *)
(* the search off when it is first tried and is passed over later.  And    *)
(* when two threads decrement a counter at the same time one decrement can *)
(* be lost: after enough of that, calls are cut off as if the catalogs     *)
(* referred to each other in a circle, and this property says nothing of   *)
(* their answer (catalog.c:1382-1450, 1594-2106; 1604-1610).               *)
CatResolveExact ==
  CatAcyclic =>
    \A t \in CatThreads \ catCutOff :
      catStack[t] = <<>> /\ catCalls[t] > 0
        => \E out \in SUBSET CatLost : catRet[t] = CatAnswer(catReq[t], out)
=============================================================================
