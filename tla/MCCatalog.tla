----------------------------- MODULE MCCatalog -----------------------------
(* Three files, one or two of which are roots.                             *)
EXTENDS CatalogRef

MCEntry(type, name, url) == [type |-> type, name |-> name, url |-> url, public |-> TRUE]
MCTo(file) == MCEntry("next", <<>>, file)
MCDelegate(kind, file) == MCEntry(kind, <<1>>, file)

MCSystem == MCEntry("system", <<1, 2>>, "s")
MCPublic == MCEntry("public", <<1, 2>>, "p")
MCUri == MCEntry("uri", <<1, 2>>, "u")

MCFiles(a, b, c) == [f \in {"a", "b", "c"} |-> IF f = "a" THEN a ELSE IF f = "b" THEN b ELSE c]

MCAsk(kind, pub, sys) == [kind |-> kind, pub |-> pub, sys |-> sys]
MCOne == CHOOSE t \in CatThreads : TRUE
MCOnce == [t \in CatThreads |-> 1]
MCTwice == [t \in CatThreads |-> IF t = MCOne THEN 2 ELSE 0]

MCSetup(content, roots, calls) ==
  [content |-> content, roots |-> roots, calls |-> calls,
   requests |-> {MCAsk("ext", <<>>, <<1, 2>>), MCAsk("uri", <<>>, <<1, 2>>)}
                  \cup IF calls = MCTwice THEN {MCAsk("ext", <<1, 2>>, <<2>>)} ELSE {}]

(* One thread and two roots: an entry that leads on, followed by one of    *)
(* any kind.                                                               *)
MCLeading(f) ==
  {MCTo(f), MCDelegate("delegateSystem", f), MCDelegate("delegatePublic", f),
   MCDelegate("delegateURI", f)}
MCAlone ==
  {MCSetup(MCFiles(<<x, y>>, b, c), <<"a", "c">>, MCTwice) :
     x \in MCLeading("b"),
     y \in MCLeading("c") \cup {MCEntry("rewriteSystem", <<1>>, "r"), MCPublic,
                                MCEntry("rewriteURI", <<1>>, "v")},
     b \in {<<MCSystem>>, <<MCPublic>>, <<MCUri>>, <<MCTo("c")>>, CatUnreadable},
     c \in {<<MCSystem>>, <<MCUri>>, CatUnreadable}}

(* Circles of one to three files.                                          *)
MCCircles ==
  {MCSetup(MCFiles(<<x, MCTo("b")>>, <<y>>, <<z>>), <<"a">>, MCTwice) :
     x \in {MCTo("a"), MCDelegate("delegateSystem", "a"), MCTo("b")},
     y \in {MCTo("a"), MCTo("c"), MCDelegate("delegateURI", "a")},
     z \in {MCTo("a"), MCSystem}}

(* Two threads and two roots, with a file that three entries refer to.     *)
MCTogether ==
  {MCSetup(MCFiles(<<x, MCTo("c")>>, <<MCTo("c")>>, c), <<"b", "a">>, MCOnce) :
     x \in {MCTo("b"), MCDelegate("delegateSystem", "b")},
     c \in {<<MCSystem>>, CatUnreadable}}

(* Two threads that call twice each: after a lost decrement of the first   *)
(* calls, the depth that is left over and the other thread are taken for a *)
(* circle, and what the second root knows is not found.                    *)
MCBothTwice == [t \in CatThreads |-> 2]
MCDrift ==
  {[MCSetup(MCFiles(<<MCTo("b")>>, <<MCPublic>>, <<MCSystem>>), <<"a", "c">>, MCBothTwice)
      EXCEPT !.requests = {MCAsk("ext", <<>>, <<1, 2>>)}]}

MCSetups == MCAlone \cup MCCircles \cup MCTogether \cup MCDrift
=============================================================================
