------------------------------ MODULE Entities ------------------------------
(***************************************************************************)
(* General entities: references in content (xmlParseReference and          *)
(* xmlCtxtParseEntity) and in attribute values (xmlExpandEntityInAttValue  *)
(* with entity substitution, xmlCheckEntityInAttValue without), the        *)
(* detection of loops with XML_ENT_EXPANDING, the depth limit, and the     *)
(* accounting of expanded sizes that limits amplification (parser.c).      *)
(*                                                                         *)
(* The recursion of the code is a stack of frames, the document first.  An *)
(* entity's replacement text is a sequence of items of size one: a         *)
(* character <<"char">>, a reference <<"ref", e>>, or an element whose     *)
(* attribute refers to e, <<"att", e>>.  The document chooses its items as *)
(* it goes.                                                                *)
(*                                                                         *)
(* After a fatal error the calls in progress only return.  Loops and       *)
(* exceeded limits stop the parser (parserInternals.c:1139); for the       *)
(* others the model ends with the document's well-formedness, without      *)
(* which no content is expanded any more (parser.c:7145).  The check that  *)
(* xmlParseReference still makes then adds to totals that are not read     *)
(* again, and is left out.                                                 *)
(***************************************************************************)
EXTENDS Integers, Sequences, FiniteSets

CONSTANTS
  Ents,        \* general entities
  EntDoc,      \* the document: no entity
  EntBodies,   \* replacement texts: functions on Ents
  EntExternal, \* the external ones among Ents
  EntMaxDepth, \* limit on nested inputs (20)
  EntAllowed,  \* XML_PARSER_ALLOWED_EXPANSION
  EntFixed,    \* XML_ENT_FIXED_COST
  EntMaxAmpl,  \* ctxt->maxAmpl
  EntPrologue, \* bytes of the document before its content
  EntDocLen    \* bound on the items of the document

ASSUME EntAssumption ==
  /\ EntDoc \notin Ents /\ EntExternal \subseteq Ents
  /\ EntMaxDepth \in Nat \ {0} /\ EntMaxAmpl \in Nat \ {0}
  /\ EntAllowed \in Nat /\ EntFixed \in Nat /\ EntPrologue \in Nat /\ EntDocLen \in Nat
  /\ \A body \in EntBodies, e \in Ents : Len(body[e]) \in Nat

VARIABLES
  entBody,     \* ent->content
  entReplace,  \* XML_PARSE_NOENT
  entTree,     \* the SAX handler builds a tree
  entFlags,    \* ent->flags
  entSize,     \* ent->expandedSize
  entCopy,     \* ctxt->sizeentcopy
  entLoaded,   \* ctxt->sizeentities
  entStack,    \* calls in progress, the document first
  entError,    \* the fatal error that stopped the parser, or "none"
  entYield     \* history: characters one expansion of the entity delivers

entVars == <<entBody, entReplace, entTree, entFlags, entSize, entCopy, entLoaded,
             entStack, entError, entYield>>
entConfig == <<entBody, entReplace, entTree>>

(* A call: `mode` is the function, `size` the local of                     *)
(* xmlCheckEntityInAttValue, `text` counts delivered characters (history). *)
Frame(e, mode) == [ent |-> e, mode |-> mode, pos |-> 0,
                   size |-> IF mode = "check" THEN Len(entBody[e]) ELSE 0,
                   text |-> 0]

EntInit ==
  /\ entBody \in EntBodies
  /\ entReplace \in BOOLEAN /\ entTree \in BOOLEAN
  /\ entFlags = [e \in Ents |-> {}]
  /\ entSize = [e \in Ents |-> 0] /\ entYield = [e \in Ents |-> 0]
  /\ entCopy = 0 /\ entLoaded = 0 /\ entError = "none"
  /\ entStack = << [ent |-> EntDoc, mode |-> "content", pos |-> 0, size |-> 0,
                    text |-> 0] >>

Depth == Len(entStack)
Top == entStack[Depth]
Running == entError = "none"

(* The item that is next in the innermost call.                            *)
NextItem(item) ==
  /\ Running
  /\ IF Depth = 1
     THEN Top.pos < EntDocLen
     ELSE Top.pos < Len(entBody[Top.ent]) /\ item = entBody[Top.ent][Top.pos + 1]

(* The stack after the innermost call moved on by one item.                *)
Moved(stack, text, size) ==
  [stack EXCEPT ![Len(stack)] =
     [ent |-> @.ent, mode |-> @.mode, pos |-> @.pos + 1, size |-> @.size + size,
      text |-> @.text + text]]

-----------------------------------------------------------------------------
(* xmlParserEntityCheck.                                                   *)

(* ctxt->input: attribute values are expanded inside of their input.       *)
InputOf(stack) ==
  LET inputs == {i \in 1..Len(stack) : stack[i].mode = "content"}
  IN  stack[CHOOSE i \in inputs : \A j \in inputs : j <= i]

Consumed(input, loaded) ==
  input.pos + loaded + IF input.ent = EntDoc THEN EntPrologue ELSE 0

OverLimit(total, consumed) == total > EntAllowed /\ total \div EntMaxAmpl > consumed

(* The counters after a check with `extra`, made by the innermost call of  *)
(* stack when `loaded` bytes of external entities have been read.  Inside  *)
(* of an entity that was checked before nothing is counted: its size is    *)
(* known.                                                                  *)
EntityCheck(stack, flags, extra, loaded) ==
  LET input == InputOf(stack)
      e == input.ent
      known == e # EntDoc /\ "checked" \in flags[e]
      total == (IF e = EntDoc THEN entCopy ELSE entSize[e]) + extra + EntFixed
  IN  [copy |-> IF e = EntDoc THEN total ELSE entCopy,
       size |-> IF e = EntDoc \/ known THEN entSize ELSE [entSize EXCEPT ![e] = total],
       bad |-> ~known /\ OverLimit(total, Consumed(input, loaded))]

-----------------------------------------------------------------------------
(* The innermost call moves on to its next item after a check.             *)
Continue(stack, text, extra, flags) ==
  LET moved == Moved(stack, text, 0)
      check == EntityCheck(moved, flags, extra, entLoaded)
  IN  /\ entStack' = moved
      /\ entCopy' = check.copy /\ entSize' = check.size
      /\ entError' = IF check.bad THEN "amplification" ELSE "none"

Stop(error) ==
  /\ entError' = error
  /\ UNCHANGED <<entStack, entFlags, entSize, entCopy, entLoaded, entYield, entConfig>>

(* What an item of its own adds to the expansion of the entity it is in.   *)
Own(stack) == IF Len(stack) > 1 /\ stack[Len(stack)].mode = "content" THEN 1 ELSE 0

(* A character.                                                            *)
EntText ==
  /\ NextItem(<<"char">>)
  /\ entStack' = Moved(entStack, IF Depth = 1 THEN 0 ELSE 1, 0)
  /\ UNCHANGED <<entFlags, entSize, entCopy, entLoaded, entError, entYield, entConfig>>

-----------------------------------------------------------------------------
(* References in content: xmlParseReference.                               *)

(* External entities are only read when entities are substituted.          *)
Readable(e) == e \notin EntExternal \/ entReplace

(* The content was parsed and its nodes are kept: characters, elements,    *)
(* and the nodes of references that are not replaced.                      *)
HasChildren(e) ==
  /\ "parsed" \in entFlags[e] /\ entTree
  /\ \/ entYield[e] > 0
     \/ ~entReplace /\ \E i \in 1..Len(entBody[e]) : entBody[e][i][1] = "ref"

Delivers(e) == IF entReplace \/ ~entTree THEN entYield[e] ELSE 0

RefKnown(e) ==
  /\ Top.mode = "content" /\ NextItem(<<"ref", e>>)
  /\ ~Readable(e) \/ HasChildren(e)
  /\ Continue(entStack, Delivers(e), entSize[e], entFlags)
  /\ UNCHANGED <<entFlags, entLoaded, entYield, entConfig>>

(* Mutant: the sizes of nested entities get lost at the end of the entity. *)
SizeAfterOwn(e) ==
  IF "checked" \in entFlags[e] THEN entSize[e] ELSE Len(entBody[e])

(* The whole input is accounted for, also after an error.                  *)
SizeAfter(e) ==
  IF "checked" \in entFlags[e] THEN entSize[e] ELSE entSize[e] + Len(entBody[e])

(* xmlCtxtParseEntity returns early: at once for a loop, with the size of  *)
(* the unread input accounted for when it cannot be pushed.                *)
RefRefused(e, error) ==
  LET unread == error = "depth" /\ e \in EntExternal /\ "parsed" \notin entFlags[e]
  IN  /\ entError' = error
      /\ entFlags' = [entFlags EXCEPT ![e] = @ \cup {"parsed", "checked"}]
      /\ entSize' = IF error = "depth" THEN [entSize EXCEPT ![e] = SizeAfter(e)] ELSE entSize
      /\ entLoaded' = entLoaded + IF unread THEN Len(entBody[e]) ELSE 0
      /\ UNCHANGED <<entStack, entCopy, entYield, entConfig>>

(* Mutant: the recursion check of xmlCtxtParseEntity is missing.           *)
RefParseUnchecked(e) ==
  /\ Top.mode = "content" /\ NextItem(<<"ref", e>>)
  /\ Readable(e) /\ ~HasChildren(e)
  /\ IF Depth >= EntMaxDepth THEN RefRefused(e, "depth")
     ELSE /\ entStack' = Append(entStack, Frame(e, "content"))
          /\ entFlags' = [entFlags EXCEPT ![e] = @ \cup {"expanding"}]
          /\ UNCHANGED <<entSize, entCopy, entLoaded, entError, entYield, entConfig>>

(* Mutant: a reference to an entity that is being parsed is skipped.       *)
RefParseSkipped(e) ==
  /\ Top.mode = "content" /\ NextItem(<<"ref", e>>)
  /\ Readable(e) /\ ~HasChildren(e)
  /\ IF "expanding" \in entFlags[e]
     THEN /\ entStack' = Moved(entStack, 0, 0)
          /\ UNCHANGED <<entFlags, entSize, entCopy, entLoaded, entError, entYield,
                         entConfig>>
     ELSE /\ entStack' = Append(entStack, Frame(e, "content"))
          /\ entFlags' = [entFlags EXCEPT ![e] = @ \cup {"expanding"}]
          /\ UNCHANGED <<entSize, entCopy, entLoaded, entError, entYield, entConfig>>

(* The first reference, and every one when no nodes are kept, parses the   *)
(* entity: xmlCtxtParseEntity up to its content.                           *)
RefParse(e) ==
  /\ Top.mode = "content" /\ NextItem(<<"ref", e>>)
  /\ Readable(e) /\ ~HasChildren(e)
  /\ IF "expanding" \in entFlags[e] THEN RefRefused(e, "loop")
     ELSE IF Depth >= EntMaxDepth THEN RefRefused(e, "depth")
     ELSE /\ entStack' = Append(entStack, Frame(e, "content"))
          /\ entFlags' = [entFlags EXCEPT ![e] = @ \cup {"expanding"}]
          /\ UNCHANGED <<entSize, entCopy, entLoaded, entError, entYield, entConfig>>

(* The end of an innermost call, also when the parser was stopped.         *)
AtEnd(mode) ==
  /\ Depth > 1 /\ Top.mode = mode
  /\ Running => Top.pos = Len(entBody[Top.ent])

Below == SubSeq(entStack, 1, Depth - 1)

(* The rest of xmlCtxtParseEntity and of xmlParseReference.                *)
RefParsed ==
  LET e == Top.ent
      flags == [entFlags EXCEPT ![e] = (@ \ {"expanding"}) \cup {"parsed", "checked"}]
      loaded == IF e \in EntExternal /\ "parsed" \notin entFlags[e]
                THEN Len(entBody[e]) ELSE 0
      moved == Moved(Below, IF entReplace \/ ~entTree THEN Top.text ELSE 0, 0)
      check == EntityCheck(moved, flags, SizeAfter(e), entLoaded + loaded)
  IN  /\ AtEnd("content")
      /\ entFlags' = flags
      /\ entLoaded' = entLoaded + loaded
      /\ entYield' = [entYield EXCEPT ![e] = Top.text]
      /\ entStack' = IF Running THEN moved ELSE Below
      /\ entCopy' = IF Running THEN check.copy ELSE entCopy
      /\ entSize' = [(IF Running THEN check.size ELSE entSize) EXCEPT ![e] = SizeAfter(e)]
      /\ entError' = IF Running /\ check.bad THEN "amplification" ELSE entError
      /\ UNCHANGED entConfig

-----------------------------------------------------------------------------
(* References in attribute values.                                         *)

(* xmlLookupGeneralEntity refuses external entities there; the text of an  *)
(* entity with an element contains '<'.                                    *)
AttIllegal ==
  \/ \E e \in Ents : /\ NextItem(<<"att", e>>)
                      /\ IF Top.mode = "content" THEN e \in EntExternal /\ Stop("external")
                         ELSE Stop("lt")
  \/ \E e \in EntExternal : /\ Top.mode # "content" /\ NextItem(<<"ref", e>>)
                             /\ Stop("external")

(* A reference that is expanded or checked: an attribute in content, or a  *)
(* nested reference.  The entity it is nested in is marked meanwhile.      *)
AttReference(e) ==
  /\ e \notin EntExternal
  /\ \/ Top.mode = "content" /\ NextItem(<<"att", e>>)
     \/ Top.mode # "content" /\ NextItem(<<"ref", e>>)

Marked(e) ==
  IF Top.mode = "content" THEN entFlags
  ELSE [entFlags EXCEPT ![Top.ent] = @ \cup {"expanding"}]

(* xmlExpandEntityInAttValue.                                              *)
AttExpand(e) ==
  LET stack == Append(entStack, Frame(e, "expand"))
      check == EntityCheck([entStack EXCEPT ![Depth].pos = @ + 1], entFlags,
                           Len(entBody[e]), entLoaded)
  IN  /\ AttReference(e)
      /\ Top.mode = "expand" \/ (Top.mode = "content" /\ entReplace)
      /\ IF Depth >= EntMaxDepth THEN Stop("depth")
         ELSE IF "expanding" \in Marked(e)[e] THEN Stop("loop")
         ELSE /\ entCopy' = check.copy /\ entSize' = check.size
              /\ entError' = IF check.bad THEN "amplification" ELSE "none"
              /\ entStack' = IF check.bad THEN entStack ELSE stack
              /\ entFlags' = IF check.bad THEN entFlags ELSE Marked(e)
              /\ UNCHANGED <<entLoaded, entYield, entConfig>>

(* Mutant: the mark is only removed when the expansion succeeded.          *)
UnmarkedOnSuccess ==
  IF Depth = 2 \/ entStack[Depth - 1].mode = "content" \/ ~Running THEN entFlags
  ELSE [entFlags EXCEPT ![entStack[Depth - 1].ent] = @ \ {"expanding"}]

(* The mark of the entity the reference is nested in is removed.           *)
Unmarked ==
  IF Depth = 2 \/ entStack[Depth - 1].mode = "content" THEN entFlags
  ELSE [entFlags EXCEPT ![entStack[Depth - 1].ent] = @ \ {"expanding"}]

AttExpanded ==
  /\ AtEnd("expand")
  /\ entStack' = IF Running THEN Moved(Below, Top.text + Own(Below), 0) ELSE Below
  /\ entFlags' = Unmarked
  /\ UNCHANGED <<entSize, entCopy, entLoaded, entError, entYield, entConfig>>

(* xmlCheckEntityInAttValue is called for entities not yet checked; of the *)
(* others, only the size counts.                                           *)
FullyChecked(e) == {"checked", "validated"} \subseteq entFlags[e]

AttCheck(e) ==
  /\ AttReference(e)
  /\ Top.mode = "check" \/ (Top.mode = "content" /\ ~entReplace)
  /\ ~FullyChecked(e)
  /\ IF Depth >= EntMaxDepth THEN Stop("depth")
     ELSE IF "expanding" \in Marked(e)[e] THEN Stop("loop")
     ELSE /\ entStack' = Append(entStack, Frame(e, "check"))
          /\ entFlags' = Marked(e)
          /\ UNCHANGED <<entSize, entCopy, entLoaded, entError, entYield, entConfig>>

(* The innermost call goes on after a nested reference that was checked.   *)
CheckNoted(stack, size, flags) ==
  IF stack[Len(stack)].mode = "check"
  THEN /\ entStack' = Moved(stack, 0, size + EntFixed)
       /\ UNCHANGED <<entCopy, entError>>
  ELSE LET moved == Moved(stack, Own(stack), 0)
           check == EntityCheck(moved, flags, size, entLoaded)
       IN  /\ entStack' = moved
           /\ entCopy' = check.copy
           /\ entError' = IF check.bad THEN "amplification" ELSE "none"

(* The expanded size of the input after that, but for the entity e itself. *)
NotedSize(stack, size, flags) ==
  IF stack[Len(stack)].mode = "check" THEN entSize
  ELSE EntityCheck(Moved(stack, 0, 0), flags, size, entLoaded).size

AttCheckKnown(e) ==
  /\ AttReference(e)
  /\ Top.mode = "check" \/ (Top.mode = "content" /\ ~entReplace)
  /\ FullyChecked(e)
  /\ CheckNoted(entStack, entSize[e], entFlags)
  /\ entSize' = NotedSize(entStack, entSize[e], entFlags)
  /\ UNCHANGED <<entFlags, entLoaded, entYield, entConfig>>

AttChecked ==
  LET e == Top.ent
      flags == [Unmarked EXCEPT ![e] = @ \cup {"checked", "validated"}]
  IN  /\ AtEnd("check")
      /\ entFlags' = flags
      /\ IF Running
         THEN /\ CheckNoted(Below, Top.size, flags)
              /\ entSize' = [NotedSize(Below, Top.size, flags) EXCEPT ![e] = Top.size]
         ELSE /\ entStack' = Below
              /\ entSize' = [entSize EXCEPT ![e] = Top.size]
              /\ UNCHANGED <<entCopy, entError>>
      /\ UNCHANGED <<entLoaded, entYield, entConfig>>

-----------------------------------------------------------------------------
EntNext ==
  \/ EntText \/ AttIllegal
  \/ \E e \in Ents : \/ RefKnown(e) \/ RefParse(e)
                     \/ AttExpand(e) \/ AttCheck(e) \/ AttCheckKnown(e)
  \/ RefParsed \/ AttExpanded \/ AttChecked

EntSpec == EntInit /\ [][EntNext]_entVars

-----------------------------------------------------------------------------
EntFrames ==
  [ent : Ents \cup {EntDoc}, mode : {"content", "expand", "check"},
   pos : Nat, size : Nat, text : Nat]

(* The fields have their types.                                            *)
EntTypeOK ==
  /\ entBody \in EntBodies
  /\ entFlags \in [Ents -> SUBSET {"expanding", "parsed", "checked", "validated"}]
  /\ entSize \in [Ents -> Nat] /\ entYield \in [Ents -> Nat]
  /\ entCopy \in Nat /\ entLoaded \in Nat
  /\ entStack \in Seq(EntFrames) /\ entStack # <<>>

(* The document is at the bottom and nowhere else; content is never parsed *)
(* from within an attribute value.                                         *)
EntStackShape ==
  /\ entStack[1].mode = "content"
  /\ \A i \in 1..Depth : (entStack[i].ent = EntDoc) = (i = 1)
  /\ \A i \in 2..Depth :
       entStack[i].mode = "content" => entStack[i - 1].mode = "content"

(* No entity is expanded inside of itself, whether through content,        *)
(* attribute values or both: the recursion ends (parser.c:3705, 3818,      *)
(* 11773).                                                                 *)
EntNoReentry ==
  \A i, j \in 1..Depth : entStack[i].ent = entStack[j].ent => i = j

(* When control is back in the document, no entity is still marked as      *)
(* being expanded, also after an error in the middle of nested calls: a    *)
(* later use of the same DTD would report a loop.                          *)
EntMarksCleared == Depth = 1 => \A e \in Ents : "expanding" \notin entFlags[e]

(* An entity is marked exactly while its content is parsed, or while a     *)
(* reference in its replacement text is being followed: the part of the    *)
(* invariant that makes EntNoReentry inductive.                            *)
EntMarksExact ==
  \A e \in Ents :
    ("expanding" \in entFlags[e]) <=>
      (\E i \in 2..Depth : /\ entStack[i].ent = e
                           /\ entStack[i].mode = "content" \/ i < Depth)

EntInv == EntTypeOK /\ EntStackShape /\ EntNoReentry /\ EntMarksExact

(* What a document makes the parser deliver is bounded by its size: all    *)
(* characters that come from entities are accounted for, however they are  *)
(* nested, repeated, cached or parsed again (parser.c:433-478).            *)
EntAmplification ==
  Depth = 1 /\ Running =>
    \/ entStack[1].text <= EntAllowed
    \/ entStack[1].text <= EntMaxAmpl * (Consumed(entStack[1], entLoaded) + 1)

(* The entities that the replacement text of e mentions.                   *)
Mentions(e) == {f \in Ents : \E i \in 1..Len(entBody[e]) :
                   entBody[e][i] \in {<<"ref", f>>, <<"att", f>>}}

(* A document that refers to an entity which contains itself, through any  *)
(* chain of contents and attribute values, is rejected: in a document      *)
(* without error the entities that were checked mention each other without *)
(* a cycle (entities.h:13, "checked for loops and amplification").         *)
EntLoopsRejected ==
  Depth = 1 /\ Running =>
    \A S \in SUBSET {e \in Ents : "checked" \in entFlags[e]} :
      S # {} => \E e \in S : Mentions(e) \cap S = {}
=============================================================================
