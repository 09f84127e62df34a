------------------------------ MODULE Catalog ------------------------------
(***************************************************************************)
(* XML catalogs (catalog.c): identifiers are resolved by walking a list of *)
(* catalogs and, for delegate and nextCatalog entries, further catalogs,   *)
(* which are parsed when they are first needed.  Threads resolve at the    *)
(* same time: only the parsing of a file holds xmlCatalogMutex, the        *)
(* pointers and types of entries are read, and the depth counters that     *)
(* protect against loops are changed, without it.                          *)
(*                                                                         *)
(* A catalog file is a sequence of entries.  An identifier is a sequence   *)
(* of characters, so that prefixes are prefixes; an answer is the          *)
(* replacement and the part of the identifier that a rewrite rule keeps.   *)
(* An increment is a read and a write, since it is not atomic.  Left out:  *)
(* groups, normalisation of public identifiers and "urn:publicid:" (no     *)
(* identifier of the model has that form), SGML catalogs, changes of a     *)
(* catalog by xmlCatalogAdd and xmlCatalogRemove, and empty files.         *)
(***************************************************************************)
EXTENDS Integers, Sequences, FiniteSets, SequencesExt

CONSTANTS
  CatThreads,
  CatSetups,       \* [content, roots, calls, requests]: the files, the list of
                   \* root catalogs, bound: how often each thread asks for what
  CatUnreadable,   \* the content of a file that cannot be parsed
  CatMaxDepth,     \* MAX_CATAL_DEPTH
  CatMaxDelegate   \* MAX_DELEGATE

(* The types of the entries that lead to a further catalog.                *)
CatLeads == {"next", "delegateSystem", "delegatePublic", "delegateURI"}

(* MAX_CATAL_DEPTH is 50.  What a setup refers to as a catalog is one of   *)
(* its files, which may be unreadable.                                     *)
ASSUME CatAssumption ==
  /\ CatMaxDepth \in Nat \ {0}
  /\ \A s \in CatSetups :
       /\ \A i \in DOMAIN s.roots : s.roots[i] \in DOMAIN s.content
       /\ \A f \in DOMAIN s.content : \A i \in DOMAIN s.content[f] :
            s.content[f][i].type \in CatLeads => s.content[f][i].url \in DOMAIN s.content

VARIABLES
  catSetup,   \* the catalog files, the list of root catalogs, the calls
  catLoaded,  \* nodes whose children are set
  catBroken,  \* nodes of type XML_CATA_BROKEN_CATALOG
  catFiles,   \* xmlCatalogXMLFiles: the files parsed so far
  catParses,  \* history: how often a file was parsed with success
  catDepth,   \* depth of the list heads and of the first entries of files
  catStack,   \* per thread: the active calls, innermost first
  catRet,     \* per thread: the value of the last call that returned
  catReq,     \* per thread: what it asked for, [kind, pub, sys]; kind is "ext" or "uri"
  catCalls,   \* per thread: how many times it called
  catCutOff   \* history: threads whose last call was taken for a loop

catVars == <<catSetup, catLoaded, catBroken, catFiles, catParses, catDepth,
             catStack, catRet, catReq, catCalls, catCutOff>>

-----------------------------------------------------------------------------
(* Lists of entries: the roots, the entries of a file, or the entry that   *)
(* xmlParseXMLCatalogFile returns for a file.                              *)
CatRoot == <<"root", 0>>
CatDoc(f) == <<"doc", f>>
CatIn(f) == <<"in", f>>

CatOfFile(f) == [type |-> "catalog", name |-> <<>>, url |-> f, public |-> FALSE]

CatList(list) ==
  CASE list = CatRoot -> [i \in DOMAIN catSetup.roots |-> CatOfFile(catSetup.roots[i])]
    [] list[1] = "doc" -> <<CatOfFile(list[2])>>
    [] OTHER -> catSetup.content[list[2]]

(* A node is named by its list and its position.                           *)
CatHasChildren(list, i) == list[1] = "doc" \/ <<list, i>> \in catLoaded
CatIsBroken(list, i) == <<list, i>> \in catBroken

CatNone == <<>>                \* NULL: as an identifier and as an answer
CatBreak == <<"break">>        \* XML_CATAL_BREAK
CatUrl(entry, rest) == <<entry.url, rest>>

-----------------------------------------------------------------------------
(* What the scan of a file finds for an identifier.                        *)

CatOf(list, types) ==
  {i \in DOMAIN CatList(list) : CatList(list)[i].type \in types /\ ~CatIsBroken(list, i)}

CatMatching(list, types, id) ==
  {i \in CatOf(list, types) : IsPrefix(CatList(list)[i].name, id)}

CatExact(list, type, id) == {i \in CatOf(list, {type}) : CatList(list)[i].name = id}

(* The first of the longest rewrite rules.                                 *)
CatLongest(list, S) ==
  CHOOSE i \in S : \A j \in S \ {i} :
    \/ Len(CatList(list)[j].name) < Len(CatList(list)[i].name)
    \/ Len(CatList(list)[j].name) = Len(CatList(list)[i].name) /\ i < j

(* An exact entry, or the longest rewrite rule.                            *)
CatDirect(list, exact, rewrite, id) ==
  LET found == CatExact(list, exact, id)
      rules == {i \in CatMatching(list, {rewrite}, id) : CatList(list)[i].name # <<>>}
      rule == CatList(list)[CatLongest(list, rules)]
  IN  IF found # {} THEN CatUrl(CatList(list)[Min(found)], <<>>)
      ELSE IF rules # {} THEN CatUrl(rule, SubSeq(id, Len(rule.name) + 1, Len(id)))
      ELSE CatNone

CatPublic(list, id) ==
  IF CatExact(list, "public", id) = {} THEN CatNone
  ELSE CatUrl(CatList(list)[Min(CatExact(list, "public", id))], <<>>)

CatPublicDelegates(list, id) ==
  {i \in CatMatching(list, {"delegatePublic"}, id) : CatList(list)[i].public}

-----------------------------------------------------------------------------
(* Calls.  A frame is a call of xmlCatalogListXMLResolve[URI], fn = "list",*)
(* or of xmlCatalogXMLResolve[URI]; after its scan fn says which entries   *)
(* the second one tries.                                                   *)
CatFrame(fn, list, pub, sys) ==
  [fn |-> fn, list |-> list, pub |-> pub, sys |-> sys, at |-> "enter",
   i |-> 1, tried |-> {}, d |-> 0, ret |-> CatNone]

CatTop(t) == catStack[t][1]
CatAt(t, at) == catStack[t] # <<>> /\ CatTop(t).at = at
CatKind(t) == catReq[t].kind

CatInit ==
  /\ catSetup \in CatSetups
  /\ catLoaded = {} /\ catBroken = {} /\ catFiles = {}
  /\ catParses = [f \in DOMAIN catSetup.content |-> 0]
  /\ catDepth = [l \in {CatRoot} \cup {CatDoc(f) : f \in DOMAIN catSetup.content}
                         \cup {CatIn(f) : f \in DOMAIN catSetup.content} |-> 0]
  /\ catStack = [t \in CatThreads |-> <<>>]
  /\ catRet = [t \in CatThreads |-> CatNone]
  /\ catReq = [t \in CatThreads |-> [kind |-> "none", pub |-> CatNone, sys |-> CatNone]]
  /\ catCalls = [t \in CatThreads |-> 0]
  /\ catCutOff = {}

CatLoadVars == <<catLoaded, catBroken, catFiles, catParses>>
CatCallVars == <<catSetup, catReq, catCalls>>

CatGoTo(t, frame) == catStack' = [catStack EXCEPT ![t][1] = frame]
CatReturn(t, ret) ==
  /\ catStack' = [catStack EXCEPT ![t] = Tail(@)]
  /\ catRet' = [catRet EXCEPT ![t] = IF Len(catStack[t]) = 1 /\ ret = CatBreak
                                      THEN CatNone ELSE ret]

(* xmlACatalogResolve, xmlACatalogResolveURI.                              *)
CatCall(t, request) ==
  /\ catStack[t] = <<>> /\ catCalls[t] < catSetup.calls[t]
  /\ catCalls' = [catCalls EXCEPT ![t] = @ + 1]
  /\ catReq' = [catReq EXCEPT ![t] = request]
  /\ catRet' = [catRet EXCEPT ![t] = CatNone]
  /\ catCutOff' = catCutOff \ {t}
  /\ catStack' =
       [catStack EXCEPT ![t] = <<CatFrame("list", CatRoot, request.pub, request.sys)>>]
  /\ UNCHANGED <<catSetup, catDepth>> /\ UNCHANGED CatLoadVars

(* External identifiers count the calls for a file at its first entry,     *)
(* URIs those for a list at its head; for the entries of a file they only  *)
(* look at the counter.                                                    *)
CatCounts(kind, frame) == (frame.fn = "list") = (kind = "uri")

(* Mutant: catalogs that refer to themselves are followed for ever.        *)
CatTooDeepNever(d) == FALSE

CatTooDeep(d) == d > CatMaxDepth

CatEnter(t) ==
  LET fr == CatTop(t)
      d == catDepth[fr.list]
      counts == CatCounts(CatKind(t), fr)
  IN  /\ CatAt(t, "enter")
      /\ \/ /\ ~counts /\ fr.fn = "list"
            /\ CatGoTo(t, [fr EXCEPT !.at = "look"])
            /\ UNCHANGED <<catRet, catCutOff>>
         \/ /\ counts \/ fr.fn # "list"
            /\ CatTooDeep(d)
            /\ CatReturn(t, CatNone)
            /\ catCutOff' = catCutOff \cup {t}
         \/ /\ counts \/ fr.fn # "list"
            /\ ~CatTooDeep(d)
            /\ CatGoTo(t, [fr EXCEPT !.at = IF counts THEN "count" ELSE "scan", !.d = d])
            /\ UNCHANGED <<catRet, catCutOff>>
      /\ UNCHANGED catDepth /\ UNCHANGED CatLoadVars /\ UNCHANGED CatCallVars

CatCount(t) ==
  LET fr == CatTop(t)
  IN  /\ CatAt(t, "count")
      /\ catDepth' = [catDepth EXCEPT ![fr.list] = fr.d + 1]
      /\ CatGoTo(t, [fr EXCEPT !.at = IF fr.fn = "list" THEN "look" ELSE "scan"])
      /\ UNCHANGED <<catRet, catCutOff>> /\ UNCHANGED CatLoadVars /\ UNCHANGED CatCallVars

(* The scans of xmlCatalogXMLResolve: system, then public.                 *)
CatScanExt(fr) ==
  LET sys == IF fr.sys = CatNone THEN CatNone
             ELSE CatDirect(fr.list, "system", "rewriteSystem", fr.sys)
      delegatesSys == fr.sys # CatNone
                        /\ CatMatching(fr.list, {"delegateSystem"}, fr.sys) # {}
      pub == IF fr.pub = CatNone THEN CatNone ELSE CatPublic(fr.list, fr.pub)
      delegatesPub == fr.pub # CatNone /\ CatPublicDelegates(fr.list, fr.pub) # {}
      look(fn) == [fr EXCEPT !.fn = fn, !.at = "look"]
      leave(ret) == [fr EXCEPT !.ret = ret, !.at = "leave"]
  IN  IF sys # CatNone THEN leave(sys)
      ELSE IF delegatesSys THEN look("system")
      ELSE IF pub # CatNone THEN leave(pub)
      ELSE IF delegatesPub THEN look("public")
      ELSE IF CatOf(fr.list, {"next"}) # {} THEN look("next")
      ELSE leave(CatNone)

(* The scan of xmlCatalogXMLResolveURI.                                    *)
CatScanUri(fr) ==
  LET uri == CatDirect(fr.list, "uri", "rewriteURI", fr.sys)
  IN  IF uri # CatNone THEN [fr EXCEPT !.ret = uri, !.at = "leave"]
      ELSE IF CatMatching(fr.list, {"delegateURI"}, fr.sys) # {}
        THEN [fr EXCEPT !.fn = "uri", !.at = "look"]
      ELSE IF CatOf(fr.list, {"next"}) # {} THEN [fr EXCEPT !.fn = "next", !.at = "look"]
      ELSE [fr EXCEPT !.at = "leave"]

CatScan(t) ==
  LET fr == CatTop(t)
  IN  /\ CatAt(t, "scan")
      /\ CatGoTo(t, IF CatKind(t) = "ext" THEN CatScanExt(fr) ELSE CatScanUri(fr))
      /\ UNCHANGED <<catDepth, catRet, catCutOff>> /\ UNCHANGED CatLoadVars /\ UNCHANGED CatCallVars

(* The entries that a frame tries one after the other.                     *)
CatTries(fr) ==
  CASE fr.fn = "list" -> CatOf(fr.list, {"catalog"})
    [] fr.fn = "next" -> CatOf(fr.list, {"next"})
    [] fr.fn = "system" -> CatMatching(fr.list, {"delegateSystem"}, fr.sys)
    [] fr.fn = "public" -> CatPublicDelegates(fr.list, fr.pub)
    [] OTHER -> CatMatching(fr.list, {"delegateSystem", "delegateURI"}, fr.sys)

CatDelegates(fr) == fr.fn \in {"system", "public", "uri"}

(* The call for the children of entry i.  A delegate is asked for the      *)
(* identifier that matched only.                                           *)
CatInner(fr) ==
  LET file == CatList(fr.list)[fr.i].url
  IN  IF fr.fn = "list" THEN CatFrame("file", CatIn(file), fr.pub, fr.sys)
      ELSE CatFrame("list", CatDoc(file), IF fr.fn = "system" THEN CatNone ELSE fr.pub,
                    IF fr.fn = "public" THEN CatNone ELSE fr.sys)

CatInvoke(t, fr) ==
  catStack' = [catStack EXCEPT ![t] = <<CatInner(fr), [fr EXCEPT !.at = "back"]>> \o Tail(@)]

(* Mutant: the search goes on after delegates that know no answer.         *)
CatExhaustedUncut(fr) == CatNone

(* The value of a frame that has tried all entries: delegates cut off the  *)
(* rest of the search.                                                     *)
CatExhausted(fr) == IF CatDelegates(fr) THEN CatBreak ELSE CatNone

CatLook(t) ==
  LET fr == CatTop(t)
      url == CatList(fr.list)[fr.i].url
      next == [fr EXCEPT !.i = @ + 1]
      now == [fr EXCEPT !.tried = IF CatDelegates(fr) /\ Cardinality(@) < CatMaxDelegate
                                  THEN @ \cup {url} ELSE @]
  IN  /\ CatAt(t, "look")
      /\ IF fr.i > Len(CatList(fr.list))
           THEN CatGoTo(t, [fr EXCEPT !.at = "leave", !.ret = CatExhausted(fr)])
         ELSE IF fr.i \notin CatTries(fr) \/ url \in fr.tried THEN CatGoTo(t, next)
         ELSE IF CatHasChildren(fr.list, fr.i) THEN CatInvoke(t, now)
         ELSE CatGoTo(t, [now EXCEPT !.at = "fetch"])
      /\ UNCHANGED <<catDepth, catRet, catCutOff>> /\ UNCHANGED CatLoadVars /\ UNCHANGED CatCallVars

(* Mutant: a file is parsed again for every entry that refers to it.       *)
CatInHashNever(file) == FALSE

(* xmlHashLookup in xmlCatalogXMLFiles.                                    *)
CatInHash(file) == file \in catFiles

(* xmlFetchXMLCatalogFile, which holds the mutex throughout.               *)
CatFetch(t) ==
  LET fr == CatTop(t)
      node == <<fr.list, fr.i>>
      url == CatList(fr.list)[fr.i].url
      done == node \in catLoaded
      fails == ~done /\ ~CatInHash(url) /\ catSetup.content[url] = CatUnreadable
      parses == ~done /\ ~CatInHash(url) /\ ~fails
  IN  /\ CatAt(t, "fetch")
      /\ catLoaded' = IF fails THEN catLoaded ELSE catLoaded \cup {node}
      /\ catBroken' = IF fails THEN catBroken \cup {node} ELSE catBroken
      /\ catFiles' = IF parses THEN catFiles \cup {url} ELSE catFiles
      /\ catParses' = IF parses THEN [catParses EXCEPT ![url] = @ + 1] ELSE catParses
      /\ IF fails THEN CatGoTo(t, [fr EXCEPT !.at = "look", !.i = @ + 1])
         ELSE CatInvoke(t, fr)
      /\ UNCHANGED <<catDepth, catRet, catCutOff>> /\ UNCHANGED CatCallVars

(* After a call for the children of entry i.  When a loop was found, the   *)
(* search for an external identifier ends in all catalogs on the way, in   *)
(* those that follow nextCatalog without a decrement.                      *)
CatBack(t) ==
  LET fr == CatTop(t)
      ret == catRet[t]
      counter == IF fr.fn = "list" THEN CatIn(CatList(fr.list)[fr.i].url) ELSE fr.list
      loop == /\ CatKind(t) = "ext" /\ fr.fn \in {"list", "next"}
              /\ CatTooDeep(catDepth[counter])
  IN  /\ CatAt(t, "back")
      /\ \/ /\ ret # CatNone
            /\ CatGoTo(t, [fr EXCEPT !.at = "leave", !.ret = ret])
            /\ UNCHANGED <<catRet, catCutOff>>
         \/ /\ ret = CatNone /\ loop
            /\ CatReturn(t, CatNone)
            /\ catCutOff' = catCutOff \cup {t}
         \/ /\ ret = CatNone /\ ~loop
            /\ CatGoTo(t, [fr EXCEPT !.at = "look", !.i = @ + 1])
            /\ UNCHANGED <<catRet, catCutOff>>
      /\ UNCHANGED catDepth /\ UNCHANGED CatLoadVars /\ UNCHANGED CatCallVars

(* The decrement, where there is one, and the return.                      *)
CatLeave(t) ==
  LET fr == CatTop(t)
  IN  /\ CatAt(t, "leave")
      /\ IF CatCounts(CatKind(t), fr)
           THEN /\ CatGoTo(t, [fr EXCEPT !.at = "uncount", !.d = catDepth[fr.list]])
                /\ UNCHANGED catRet
           ELSE CatReturn(t, fr.ret)
      /\ UNCHANGED <<catDepth, catCutOff>> /\ UNCHANGED CatLoadVars /\ UNCHANGED CatCallVars

CatUncount(t) ==
  LET fr == CatTop(t)
  IN  /\ CatAt(t, "uncount")
      /\ catDepth' = [catDepth EXCEPT ![fr.list] = fr.d - 1]
      /\ CatReturn(t, fr.ret)
      /\ UNCHANGED catCutOff /\ UNCHANGED CatLoadVars /\ UNCHANGED CatCallVars

CatNext ==
  \E t \in CatThreads :
    \/ \E request \in catSetup.requests : CatCall(t, request)
    \/ CatEnter(t) \/ CatCount(t) \/ CatScan(t) \/ CatLook(t) \/ CatFetch(t)
    \/ CatBack(t) \/ CatLeave(t) \/ CatUncount(t)

CatSpec == CatInit /\ [][CatNext]_catVars

-----------------------------------------------------------------------------
(* No set of files can only be left from inside.                           *)
CatRefers(f, g) ==
  \E x \in Range(catSetup.content[f]) : x.url = g /\ x.type \in CatLeads
CatAcyclic ==
  \A S \in (SUBSET DOMAIN catSetup.content) \ {{}} :
    \E f \in S : \A g \in S : ~CatRefers(f, g)

(* A file is parsed once, for all entries and threads that refer to it:    *)
(* nodes refer to its entries without owning them, and the counter that    *)
(* protects against loops is one of these (catalog.c:1394-1446).           *)
CatParsedOnce ==
  /\ \A f \in DOMAIN catParses : catParses[f] <= 1
  /\ \A n \in catLoaded : CatList(n[1])[n[2]].url \in catFiles

(* Catalogs that refer to each other in a circle are followed at most      *)
(* MAX_CATAL_DEPTH + 1 times, and without circles the counters of a single *)
(* thread are back at zero after every call, so that its later calls are   *)
(* not taken for a loop (catalog.c:1604-1610, 1799, 2029, 2063-2069).      *)
CatLoopGuard ==
  \A t \in CatThreads :
    (\A u \in CatThreads \ {t} : catSetup.calls[u] = 0) =>
      /\ \A l \in DOMAIN catDepth :
           Cardinality({i \in DOMAIN catStack[t] :
                /\ catStack[t][i].list = l /\ catStack[t][i].at # "enter"
                /\ CatCounts(CatKind(t), catStack[t][i])}) <= CatMaxDepth + 1
      /\ CatAcyclic /\ catStack[t] = <<>> => \A l \in DOMAIN catDepth : catDepth[l] = 0
=============================================================================
