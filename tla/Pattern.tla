------------------------------ MODULE Pattern ------------------------------
(***************************************************************************)
(* The patterns of pattern.c: the subset of XPath that selects nodes by    *)
(* the path to them.  A pattern is compiled twice, into a list of          *)
(* operations that xmlPatternMatch runs on a node of a tree, from the node *)
(* up, and into a stream that is told of every node when it begins         *)
(* (xmlStreamPush) and ends (xmlStreamPop) and says at once whether it is  *)
(* selected.                                                               *)
(*                                                                         *)
(* A pattern is a sequence of alternatives.  An alternative has a lead and *)
(* steps; a step has a separator, "/" or "//", and a test: <<"ELEM", name, *)
(* namespace>>, <<"NS", namespace, "">> for p:*, <<"ALL", "", "">>,        *)
(* <<"SELF", "", "">> for ".", or <<"ATTR", name or "", "">>.  The reading *)
(* of the characters, the dictionary and failed allocations are left out.  *)
(***************************************************************************)
EXTENDS Integers, Sequences, SequencesExt

CONSTANTS PtPatterns,  \* patterns: [mode, alts]; the mode, from the flags, is
                       \* "pattern", "xpath" or "idc" (XSSEL, XSFIELD)
          PtElements,  \* elements that occur: <<name, namespace>>
          PtMaxDepth   \* how deep they are nested

VARIABLES ptPattern,   \* the pattern
          ptStreams,   \* its stream contexts: level, states, blockLevel; none
                       \* when the pattern cannot be streamed
          ptPath,      \* the nodes that are open, outermost first
          ptRet        \* what the last push returned; -2 after a pop

ptVars == <<ptPattern, ptStreams, ptPath, ptRet>>

PtNull == ""
PtBit(cond) == IF cond THEN 1 ELSE 0
PtNotPattern(mode) == mode \in {"xpath", "idc"}

(***************************************************************************)
(* Compilation to operations.                                              *)
(***************************************************************************)
PtOp(op) == [op |-> op, value |-> PtNull, value2 |-> PtNull]

CompileStepPattern(test) ==
  IF test[1] = "SELF" THEN PtOp("ELEM")
  ELSE [op |-> test[1], value |-> test[2], value2 |-> test[3]]

CompileSteps(steps) ==
  FlattenSeq([i \in DOMAIN steps |->
    (IF i = 1 THEN <<>>
     ELSE <<PtOp(IF steps[i].sep = "//" THEN "ANCESTOR" ELSE "PARENT")>>)
      \o <<CompileStepPattern(steps[i].test)>>])

CompileLead(lead) ==
  CASE lead \in {"//", ".//"} -> <<PtOp("ANCESTOR")>>
    [] lead = "/" -> <<PtOp("ROOT")>>
    [] OTHER -> <<>>

CompilePathPattern(alt) == CompileLead(alt.lead) \o CompileSteps(alt.steps)

\* "./" at the start of a selector or field is not an operation.
CompileIDCXPathPath(alt) ==
  IF alt.lead = "" /\ Len(alt.steps) > 1 /\ alt.steps[1].test[1] = "SELF"
  THEN CompileSteps(Tail(alt.steps))
  ELSE CompilePathPattern(alt)

CompileAlt(alt, mode) ==
  IF mode = "idc" THEN CompileIDCXPathPath(alt) ELSE CompilePathPattern(alt)

\* PAT_FROM_ROOT, PAT_FROM_CUR or neither.
PatFrom(alt, mode) ==
  CASE alt.lead \in {"/", "//"} -> "root"
    [] alt.lead = ".//" \/ PtNotPattern(mode) \/ alt.steps[1].test[1] = "SELF" -> "cur"
    [] OTHER -> "any"

(***************************************************************************)
(* Compilation to a stream: the steps that name a node, each with its      *)
(* flags.                                                                  *)
(***************************************************************************)
StreamStep(step, node, desc) ==
  [name |-> IF step.op = "NS" THEN PtNull ELSE step.value,
   ns |-> IF step.op = "NS" THEN step.value ELSE step.value2,
   node |-> node, desc |-> desc, final |-> FALSE, inSet |-> FALSE, root |-> FALSE]

PtIsSelf(step) == step.op = "ELEM" /\ step.value = PtNull /\ step.value2 = PtNull

\* "." counts only as "//." at the end, which also selects what the step
\* before it selects.
StreamAnyNode(s, step) ==
  [s EXCEPT !.steps = Append(IF s.prevs = 0 THEN @ ELSE [@ EXCEPT ![s.prevs].inSet = TRUE],
                             StreamStep(step, "any", s.pending)),
            !.any = TRUE, !.pending = FALSE, !.prevs = 0]

StreamNode(s, step, node) ==
  [s EXCEPT !.steps = Append(@, StreamStep(step, node, s.pending)),
            !.pending = FALSE,
            !.prevs = IF node = "attr" THEN 0 ELSE Len(s.steps) + 1]

StreamAdd(s, step, last) ==
  CASE step.op = "ROOT" -> [s EXCEPT !.root = TRUE]
    [] step.op = "PARENT" -> s
    [] step.op = "ANCESTOR" -> [s EXCEPT !.pending = TRUE, !.desc = TRUE]
    [] step.op = "ATTR" -> StreamNode(s, step, "attr")
    [] PtIsSelf(step) -> IF last /\ s.pending THEN StreamAnyNode(s, step) ELSE s
    [] OTHER -> StreamNode(s, step, "elem")

NoStream == <<>>

StreamCompile(ops, from, mode) ==
  LET start == [steps |-> <<>>, root |-> FALSE, desc |-> FALSE, any |-> FALSE,
                pending |-> FALSE, prevs |-> 0]
      s == FoldLeft(LAMBDA acc, i : StreamAdd(acc, ops[i], i = Len(ops)),
                    start, [i \in DOMAIN ops |-> i])
      reenter == ~s.root /\ ~PtNotPattern(mode)
      n == Len(s.steps)
  IN  IF Len(ops) = 1 /\ PtIsSelf(ops[1])
      THEN [steps |-> <<>>, desc |-> FALSE, any |-> TRUE, fromRoot |-> FALSE]
      ELSE IF n = 0 THEN NoStream
      ELSE [steps |-> [i \in 1..n |->
                         [s.steps[i] EXCEPT !.desc = @ \/ (i = 1 /\ reenter),
                                            !.final = i = n,
                                            !.root = i = 1 /\ s.root]],
            desc |-> s.desc \/ reenter, any |-> s.any, fromRoot |-> from = "root"]

\* Alternatives from the root and from the current node do not stream together.
PatternCompile(pattern) ==
  LET from == {PatFrom(pattern.alts[i], pattern.mode) : i \in DOMAIN pattern.alts}
      comp == [i \in DOMAIN pattern.alts |->
                 StreamCompile(CompileAlt(pattern.alts[i], pattern.mode),
                               PatFrom(pattern.alts[i], pattern.mode), pattern.mode)]
  IN  IF {"root", "cur"} \subseteq from \/ \E i \in DOMAIN comp : comp[i] = NoStream
      THEN <<>>
      ELSE comp

PatternGetStreamCtxt(pattern) ==
  LET comp == PatternCompile(pattern)
  IN  [i \in DOMAIN comp |-> [comp |-> comp[i], level |-> 0, states |-> <<>>,
                              blockLevel |-> -1, ret |-> 0]]

(***************************************************************************)
(* One stream is told of a node.  A state <<i, level>> waits for step i at *)
(* a level; a state whose step has "//" waits at all deeper ones.          *)
(***************************************************************************)
PtDocument == [node |-> "doc", name |-> PtNull, ns |-> PtNull]

StreamNameMatch(step, node) ==
  \/ step.node = "any"
  \/ step.name = PtNull /\ step.ns \in {PtNull, node.ns}
  \/ step.name # PtNull /\ step.name = node.name /\ step.ns = node.ns

\* For a path from the root that is a lone "//." the document matches as well;
\* otherwise the first step of "/a" waits for the nodes below the document.
StreamReset(s) ==
  LET steps == s.comp.steps
      all == s.comp.fromRoot /\ Len(steps) = 1 /\ steps[1].node = "any" /\ steps[1].desc
      first == s.comp.fromRoot /\ steps # <<>> /\ steps[1].root /\ ~all
  IN  [s EXCEPT !.level = 0, !.blockLevel = -1,
                !.states = IF first THEN << <<1, 0>> >> ELSE <<>>,
                !.ret = PtBit(all)]

\* The step i matches: the node is selected, or step i + 1 waits below it.
StreamMatched(s, i, level) ==
  LET step == s.comp.steps[i]
  IN  [s EXCEPT !.ret = IF step.final \/ step.inSet THEN 1 ELSE @,
                !.states = IF step.final THEN @ ELSE Append(@, <<i + 1, level>>)]

\* Without "//" nothing below this node can match any more.
StreamBlock(s, cond, level) ==
  IF cond /\ ~s.comp.desc THEN [s EXCEPT !.blockLevel = level] ELSE s

StreamEvolve(s, i, node) ==
  LET step == s.comp.steps[i]
      match == StreamNameMatch(step, node)
      next == IF match THEN StreamMatched(s, i, s.level + 1) ELSE s
  IN  IF step.node \notin {node.node, "any"}
      THEN StreamBlock(s, step.node = "attr", s.level + 1)
      ELSE StreamBlock(next, ~match \/ step.final, s.level + 1)

\* Without "//" only the last state is looked at, and it must be of this level.
StreamStates(s, node) ==
  LET m == Len(s.states)
      live == {j \in 1..m : \/ s.states[j][2] = s.level
                            \/ s.states[j][2] < s.level /\ s.comp.steps[s.states[j][1]].desc}
  IN  CASE m = 0 -> s
        [] m > 0 /\ ~s.comp.desc -> IF s.states[m][2] < s.level THEN [s EXCEPT !.ret = -1]
                                    ELSE StreamEvolve(s, s.states[m][1], node)
        [] OTHER -> FoldLeft(LAMBDA acc, j : StreamEvolve(acc, s.states[j][1], node),
                             s, SelectSeq([j \in 1..m |-> j], LAMBDA j : j \in live))

StreamMayEnter(s, mode) ==
  LET step == s.comp.steps[1]
  IN  /\ ~step.root
      /\ PtNotPattern(mode) =>
           IF s.level = 1 THEN mode # "idc"
           ELSE step.desc \/ (s.level = 2 /\ mode = "idc")

StreamEnter(s, node, mode) ==
  LET step == s.comp.steps[1]
      match == StreamNameMatch(step, node)
      next == IF match THEN StreamMatched(s, 1, s.level) ELSE s
  IN  IF /\ StreamMayEnter(s, mode)
         /\ step.node = node.node \/ (step.node = "any" /\ node.node # "attr")
      THEN StreamBlock(next, ~match \/ step.final, s.level)
      ELSE s

StreamDeeper(s) == [s EXCEPT !.level = @ + 1]

\* "." selects the first node that is pushed, or all nodes in a pattern.
StreamPushSelf(s, node, mode) ==
  IF mode = "xpath" THEN s
  ELSE [StreamDeeper(s) EXCEPT
          !.ret = IF node.node # "attr" /\ (~PtNotPattern(mode) \/ s.level = 0)
                  THEN 1 ELSE @]

StreamPushNode(s0, node, mode) ==
  LET s == [s0 EXCEPT !.ret = 0]
      known == StreamStates(s, node)
  IN  CASE node = PtDocument -> StreamReset(s)
        [] node # PtDocument /\ s.comp.steps = <<>> -> StreamPushSelf(s, node, mode)
        [] node # PtDocument /\ s.comp.steps # <<>>
             /\ (s.blockLevel # -1 \/ (node.node = "text" /\ ~s.comp.any)) -> StreamDeeper(s)
        [] OTHER -> IF known.ret = -1 THEN known
                    ELSE StreamEnter(StreamDeeper(known), node, mode)

\* A bug: a stream stays blocked when the node that blocked it ends.
StreamPopBlocked(s) ==
  LET level == IF s.level > 0 THEN s.level - 1 ELSE 0
  IN  [s EXCEPT !.level = level,
                !.states = SelectSeq(@, LAMBDA st : st[2] <= level)]

\* States are in the order of their levels: those to discard are at the end.
StreamPopOne(s) ==
  LET level == IF s.level > 0 THEN s.level - 1 ELSE 0
      kept == {j \in DOMAIN s.states : s.states[j][2] <= level}
      last == IF kept = {} THEN 0 ELSE CHOOSE j \in kept : \A k \in kept : k <= j
  IN  [s EXCEPT !.blockLevel = IF @ = s.level THEN -1 ELSE @,
                !.level = level,
                !.states = SubSeq(@, 1, last)]

(***************************************************************************)
(* Matching in a tree: the operations in reverse, from the node up.  Node  *)
(* n is the n-th of the path, 0 the document; a lower node is tried first  *)
(* as the ancestor of "//" and the next one when what follows fails.       *)
(***************************************************************************)
ReversePattern(ops) ==
  Reverse(IF ops # <<>> /\ ops[1].op = "ANCESTOR" THEN Tail(ops) ELSE ops)

PatElemTest(step, node) ==
  /\ node.node = "elem"
  /\ \/ step.value = PtNull
     \/ step.value = node.name /\ step.value2 = node.ns

\* A bug: only the nearest ancestor is tried.
PatRetryNone(found, retry) == found

PatRetry(found, retry) == IF found # 0 THEN found ELSE retry

RECURSIVE PatMatch(_, _, _, _)
RECURSIVE PatAncestor(_, _, _, _)

PatMatch(ops, i, path, n) ==
  LET step == ops[i]
      node == IF n = 0 THEN PtDocument ELSE path[n]
      Go(cond, m) == IF cond THEN PatMatch(ops, i + 1, path, m) ELSE 0
  IN  IF i > Len(ops) THEN 1
      ELSE CASE step.op = "ROOT" -> Go(n = 1, 0)
             [] step.op = "ELEM" -> Go(PatElemTest(step, node), n)
             [] step.op = "ALL" -> Go(node.node = "elem", n)
             [] step.op = "NS" -> Go(node.node = "elem" /\ node.ns = step.value, n)
             [] step.op = "ATTR" -> Go(node.node = "attr" /\ step.value \in {PtNull, node.name}, n)
             [] step.op = "PARENT" -> Go(n > 0, n - 1)
             [] step.op = "ANCESTOR" ->
                  CASE ops[i + 1].op = "ROOT" -> 1
                    [] ops[i + 1].op = "ELEM" /\ ops[i + 1].value = PtNull -> -1
                    [] ops[i + 1].op = "ELEM" /\ ops[i + 1].value # PtNull ->
                         PatAncestor(ops, i, path, n - 1)
                    [] OTHER -> 0

PatAncestor(ops, i, path, n) ==
  IF n <= 0 THEN 0
  ELSE PatRetry(IF PatElemTest(ops[i + 1], path[n]) THEN PatMatch(ops, i + 2, path, n) ELSE 0,
                PatAncestor(ops, i, path, n - 1))

\* The first alternative that does not fail decides.
PatternMatch(pattern, path) ==
  LET res == [i \in DOMAIN pattern.alts |->
                PatMatch(ReversePattern(CompileAlt(pattern.alts[i], pattern.mode)), 1,
                         path, Len(path))]
      done == {i \in DOMAIN res : res[i] # 0}
  IN  IF done = {} THEN 0 ELSE res[CHOOSE i \in done : \A j \in done : i <= j]

(***************************************************************************)
(* A program: it walks a document, and pushes the nodes it enters.         *)
(***************************************************************************)
PtInit ==
  /\ ptPattern \in PtPatterns
  /\ ptStreams = PatternGetStreamCtxt(ptPattern)
  /\ ptPath = <<>>
  /\ ptRet = -2

\* The list of streams is gone through until one fails.
PtPushed(node) == [i \in DOMAIN ptStreams |-> StreamPushNode(ptStreams[i], node, ptPattern.mode)]

PtReturns(streams) ==
  CASE \E i \in DOMAIN streams : streams[i].ret = -1 -> -1
    [] \A i \in DOMAIN streams : streams[i].ret = 0 -> 0
    [] OTHER -> 1

StreamPush(node) ==
  /\ ptStreams' = PtPushed(node)
  /\ ptRet' = PtReturns(PtPushed(node))
  /\ UNCHANGED ptPattern

PtAtTop == ptPath = <<>> /\ \A i \in DOMAIN ptStreams : ptStreams[i].level = 0

PtFromRoot == \E i \in DOMAIN ptPattern.alts : ptPattern.alts[i].lead \in {"/", "//"}

\* The document is pushed before its nodes, except for identity constraints.
PushDocument ==
  /\ PtAtTop /\ ptPattern.mode # "idc" /\ ptRet = -2
  /\ StreamPush(PtDocument)
  /\ UNCHANGED ptPath

PtOpen == ptPath # <<>> => ptPath[Len(ptPath)].node = "elem"

\* A path from the root needs to know where the root is.
PtReady == PtOpen /\ (ptPath = <<>> /\ PtFromRoot => ptRet # -2)

PushElement(e) ==
  LET node == [node |-> "elem", name |-> e[1], ns |-> e[2]]
  IN  /\ PtReady /\ Len(ptPath) < PtMaxDepth
      /\ StreamPush(node)
      /\ ptPath' = Append(ptPath, node)

\* "//." followed down from a step takes attributes for nodes of the tree, and
\* is not told of them.
PushAttr(name) ==
  LET node == [node |-> "attr", name |-> name, ns |-> PtNull]
  IN  /\ PtReady /\ ptPath # <<>>
      /\ \A i \in DOMAIN ptStreams : ~ptStreams[i].comp.any
      /\ StreamPush(node)
      /\ ptPath' = Append(ptPath, node)

PushText ==
  LET node == [node |-> "text", name |-> PtNull, ns |-> PtNull]
  IN  /\ PtReady /\ ptPath # <<>>
      /\ StreamPush(node)
      /\ ptPath' = Append(ptPath, node)

StreamPop ==
  /\ ptPath # <<>>
  /\ ptStreams' = [i \in DOMAIN ptStreams |-> StreamPopOne(ptStreams[i])]
  /\ ptPath' = Front(ptPath)
  /\ ptRet' = -2
  /\ UNCHANGED ptPattern

PtNext ==
  \/ PushDocument
  \/ \E e \in PtElements : PushElement(e)
  \/ \E e \in PtElements : PushAttr(e[1])
  \/ PushText
  \/ StreamPop

PtSpec == PtInit /\ [][PtNext]_ptVars

(***************************************************************************)
(* What a pattern selects, as XPath defines it: the positions of the path  *)
(* reached from the context nodes, step by step.  Position 0 is the        *)
(* document, or the node whose children are pushed.  A pattern may start   *)
(* from any node.                                                          *)
(***************************************************************************)
PtTree(path) == {0} \cup {j \in DOMAIN path : path[j].node # "attr"}

PtBelow(path, S) == {j \in PtTree(path) : \E i \in S : i <= j}

PtTest(test, node) ==
  CASE test[1] = "ATTR" -> node.node = "attr" /\ test[2] \in {PtNull, node.name}
    [] test[1] = "ALL" -> node.node = "elem"
    [] test[1] = "NS" -> node.node = "elem" /\ test[2] = node.ns
    [] OTHER -> node.node = "elem" /\ <<test[2], test[3]>> = <<node.name, node.ns>>

PtStepTo(path, S, step) ==
  LET from == IF step.sep = "//" THEN PtBelow(path, S) ELSE S
  IN  IF step.test[1] = "SELF" THEN from
      ELSE {j \in DOMAIN path : j - 1 \in from /\ PtTest(step.test, path[j])}

PtReached(alt, mode, path) ==
  LET context == CASE alt.lead \in {"/", "//"} \/ mode = "xpath" -> {0}
                   [] mode = "idc" -> DOMAIN path \cap {1}
                   [] OTHER -> PtTree(path)
      start == IF alt.lead \in {"//", ".//"} THEN PtBelow(path, context) ELSE context
  IN  FoldLeft(LAMBDA S, step : PtStepTo(path, S, step), start, alt.steps)

PtSelected(pattern, path) ==
  \E i \in DOMAIN pattern.alts :
    Len(path) \in PtReached(pattern.alts[i], pattern.mode, path)

(* "/.//." and its like: one step, which is any node and of the root.      *)
PtAllOfRoot(alt) ==
  /\ alt.lead = "/"
  /\ \A i \in DOMAIN alt.steps : alt.steps[i].test[1] = "SELF"
  /\ \E i \in DOMAIN alt.steps : i > 1 /\ alt.steps[i].sep = "//"

(* What a stream can select of it: of all nodes the document alone, since  *)
(* no state waits for those below (pattern.c:1642-1654).                   *)
PtStreamed(pattern, path) ==
  \E i \in DOMAIN pattern.alts :
    /\ Len(path) \in PtReached(pattern.alts[i], pattern.mode, path)
    /\ PtAllOfRoot(pattern.alts[i]) => path = <<>>

(* A stream answers 1 exactly for the nodes that the pattern selects (the  *)
(* promise of pattern.c:1614-1615), after any nodes that were pushed and   *)
(* popped before: the states that are kept for "//", the blocking of paths *)
(* that cannot match any more and its end, and the elimination of "." lose *)
(* and add nothing, except that patterns like "/.//." break the promise    *)
(* for every node but the document, which is reported to paths from the    *)
(* root only (pattern.c:1346-1513, 1618-1920, 2001-2034).                  *)
PtStreamExact ==
  ptStreams # <<>> /\ ptRet # -2 /\ (ptPath # <<>> \/ PtFromRoot)
    => ptRet = PtBit(PtStreamed(ptPattern, ptPath))

(* On a node of a tree xmlPatternMatch finds the same: going up from the   *)
(* node, with the ancestors of "//" tried one after the other, is as good  *)
(* as coming down to it.  It holds for patterns without "." and with names *)
(* before "//": the interpreter fails on others (pattern.c:568-575)        *)
(* (pattern.c:377-422, 459-649).                                           *)
PtPlain(alt) ==
  \A i \in DOMAIN alt.steps :
    /\ alt.steps[i].test[1] # "SELF"
    /\ i > 1 /\ alt.steps[i].sep = "//" => alt.steps[i - 1].test[1] = "ELEM"

PtTreeExact ==
  (/\ ptPattern.mode = "pattern" /\ ptPath # <<>>
   /\ \A i \in DOMAIN ptPattern.alts : PtPlain(ptPattern.alts[i]))
    => PatternMatch(ptPattern, ptPath) = PtBit(PtSelected(ptPattern, ptPath))
=============================================================================
