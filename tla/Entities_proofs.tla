-------------------------- MODULE Entities_proofs --------------------------
(***************************************************************************)
(* Proofs that entity expansion never re-enters an entity and leaves no    *)
(* entity marked, that no cycle of entities is accepted, and that what     *)
(* entities deliver is bounded by what was read, for any entities,         *)
(* replacement texts, limits and documents, over errors at any point of    *)
(* nested calls.                                                           *)
(***************************************************************************)
EXTENDS Entities, Induction, SequenceTheorems, TLAPS

(* The part of the invariant about who is on the stack and who is marked.  *)
EntMarks == EntStackShape /\ EntNoReentry /\ EntMarksExact

Modes == {"content", "expand", "check"}

IsMarked(flags, e) == "expanding" \in flags[e]

-----------------------------------------------------------------------------
(* What the three kinds of steps do to the stack keeps the marks exact.    *)

(* The innermost call moves on, or the parser stops.                       *)
LEMMA StackKept ==
  ASSUME EntMarks, Depth \in Nat \ {0}, Depth' = Depth,
         \A i \in 1..Depth : /\ entStack'[i].ent = entStack[i].ent
                             /\ entStack'[i].mode = entStack[i].mode,
         \A e \in Ents : IsMarked(entFlags', e) <=> IsMarked(entFlags, e)
  PROVE  EntMarks'
<1>1. EntStackShape'
  BY DEF EntMarks, EntStackShape
<1>2. EntNoReentry'
  BY DEF EntMarks, EntNoReentry
<1>3. EntMarksExact'
  BY DEF EntMarks, EntMarksExact, IsMarked
<1> QED BY <1>1, <1>2, <1>3 DEF EntMarks

(* A call for the entity e, which is neither marked nor the one that is    *)
(* being expanded in the innermost call.                                   *)
LEMMA StackPushed ==
  ASSUME EntMarks, Depth \in Nat \ {0}, Depth' = Depth + 1, EntDoc \notin Ents,
         NEW e \in Ents, NEW mode \in Modes,
         mode = "content" => Top.mode = "content",
         \A i \in 1..Depth : entStack'[i] = entStack[i],
         entStack'[Depth + 1].ent = e, entStack'[Depth + 1].mode = mode,
         ~IsMarked(entFlags, e), Top.mode # "content" => Top.ent # e,
         \A x \in Ents : IsMarked(entFlags', x) <=>
            (\/ IsMarked(entFlags, x)
             \/ Top.mode # "content" /\ x = Top.ent
             \/ mode = "content" /\ x = e)
  PROVE  EntMarks'
<1>1. ASSUME NEW i \in 1..Depth PROVE entStack[i].ent # e
  <2>1. CASE i = 1
    BY <2>1 DEF EntMarks, EntStackShape
  <2>2. CASE i # 1 /\ (entStack[i].mode = "content" \/ i < Depth)
    BY <2>2 DEF EntMarks, EntMarksExact, IsMarked
  <2>3. CASE i = Depth /\ entStack[i].mode # "content"
    BY <2>3 DEF Top
  <2> QED BY <2>1, <2>2, <2>3
<1>2. EntStackShape'
  BY <1>1 DEF EntMarks, EntStackShape, Top
<1>3. EntNoReentry'
  <2> SUFFICES ASSUME NEW i \in 1..(Depth + 1), NEW j \in 1..(Depth + 1),
                      entStack'[i].ent = entStack'[j].ent
               PROVE  i = j
    BY DEF EntNoReentry
  <2>1. CASE i \in 1..Depth /\ j \in 1..Depth
    BY <2>1 DEF EntMarks, EntNoReentry
  <2>2. CASE i = Depth + 1 \/ j = Depth + 1
    BY <2>2, <1>1
  <2> QED BY <2>1, <2>2
<1>4. EntMarksExact'
  <2> SUFFICES ASSUME NEW x \in Ents
               PROVE  IsMarked(entFlags', x) <=>
                        (\E i \in 2..(Depth + 1) :
                           /\ entStack'[i].ent = x
                           /\ entStack'[i].mode = "content" \/ i < Depth + 1)
    BY DEF EntMarksExact, IsMarked
  <2>1. Top.mode # "content" => Depth \in 2..Depth
    BY DEF EntMarks, EntStackShape, Top
  <2>2. IsMarked(entFlags, x) <=>
          (\E i \in 2..Depth : /\ entStack[i].ent = x
                               /\ entStack[i].mode = "content" \/ i < Depth)
    BY DEF EntMarks, EntMarksExact, IsMarked
  <2>3. ASSUME IsMarked(entFlags', x)
        PROVE  \E i \in 2..(Depth + 1) :
                 /\ entStack'[i].ent = x
                 /\ entStack'[i].mode = "content" \/ i < Depth + 1
    <3>1. CASE IsMarked(entFlags, x)
      BY <3>1, <2>2
    <3>2. CASE Top.mode # "content" /\ x = Top.ent
      BY <3>2, <2>1 DEF Top
    <3>3. CASE mode = "content" /\ x = e
      BY <3>3
    <3> QED BY <3>1, <3>2, <3>3, <2>3
  <2>4. ASSUME NEW i \in 2..(Depth + 1), entStack'[i].ent = x,
               entStack'[i].mode = "content" \/ i < Depth + 1
        PROVE  IsMarked(entFlags', x)
    <3>1. CASE i = Depth + 1
      BY <3>1, <2>4
    <3>2. CASE i \in 2..Depth /\ (i < Depth \/ entStack[i].mode = "content")
      BY <3>2, <2>2, <2>4
    <3>3. CASE i = Depth /\ entStack[i].mode # "content"
      BY <3>3, <2>4 DEF Top
    <3> QED BY <3>1, <3>2, <3>3
  <2> QED BY <2>3, <2>4
<1> QED BY <1>2, <1>3, <1>4 DEF EntMarks

(* The innermost call returns.                                             *)
LEMMA StackPopped ==
  ASSUME EntMarks, Depth \in Nat, Depth > 1, Depth' = Depth - 1,
         \A i \in 1..(Depth - 1) : /\ entStack'[i].ent = entStack[i].ent
                                   /\ entStack'[i].mode = entStack[i].mode,
         \A x \in Ents : IsMarked(entFlags', x) <=>
            (/\ IsMarked(entFlags, x)
             /\ ~(Top.mode = "content" /\ x = Top.ent)
             /\ ~(entStack[Depth - 1].mode # "content" /\ x = entStack[Depth - 1].ent))
  PROVE  EntMarks'
<1>1. EntStackShape'
  BY DEF EntMarks, EntStackShape
<1>2. EntNoReentry'
  BY DEF EntMarks, EntNoReentry
<1>3. EntMarksExact'
  <2> SUFFICES ASSUME NEW x \in Ents
               PROVE  IsMarked(entFlags', x) <=>
                        (\E i \in 2..(Depth - 1) :
                           /\ entStack'[i].ent = x
                           /\ entStack'[i].mode = "content" \/ i < Depth - 1)
    BY DEF EntMarksExact, IsMarked
  <2>1. IsMarked(entFlags, x) <=>
          (\E i \in 2..Depth : /\ entStack[i].ent = x
                               /\ entStack[i].mode = "content" \/ i < Depth)
    BY DEF EntMarks, EntMarksExact, IsMarked
  <2>2. ASSUME IsMarked(entFlags', x)
        PROVE  \E i \in 2..(Depth - 1) :
                 /\ entStack'[i].ent = x
                 /\ entStack'[i].mode = "content" \/ i < Depth - 1
    <3>1. PICK i \in 2..Depth : /\ entStack[i].ent = x
                                /\ entStack[i].mode = "content" \/ i < Depth
      BY <2>1, <2>2
    <3>2. i # Depth
      BY <2>2, <3>1 DEF Top
    <3>3. i = Depth - 1 => entStack[i].mode = "content"
      BY <2>2, <3>1
    <3> QED BY <3>1, <3>2, <3>3
  <2>3. ASSUME NEW i \in 2..(Depth - 1), entStack'[i].ent = x,
               entStack'[i].mode = "content" \/ i < Depth - 1
        PROVE  IsMarked(entFlags', x)
    <3>1. entStack[i].ent = x /\ i \in 1..Depth /\ i < Depth
      BY <2>3
    <3>2. IsMarked(entFlags, x)
      BY <2>1, <3>1
    <3>3. x # Top.ent
      BY <3>1 DEF EntMarks, EntNoReentry, Top
    <3>4. entStack[Depth - 1].mode # "content" => x # entStack[Depth - 1].ent
      <4> SUFFICES ASSUME entStack[Depth - 1].mode # "content", x = entStack[Depth - 1].ent
                   PROVE  FALSE
        OBVIOUS
      <4>1. i = Depth - 1
        BY <3>1 DEF EntMarks, EntNoReentry
      <4> QED BY <4>1, <2>3
    <3> QED BY <3>2, <3>3, <3>4
  <2> QED BY <2>2, <2>3
<1> QED BY <1>1, <1>2, <1>3 DEF EntMarks

-----------------------------------------------------------------------------
(* The operators on stacks, and the counters.                              *)

LEMMA StackType ==
  ASSUME EntTypeOK
  PROVE  /\ Depth \in Nat \ {0}
         /\ \A i \in 1..Depth : entStack[i] \in EntFrames
         /\ Top \in EntFrames
<1>1. /\ entStack \in Seq(EntFrames) /\ entStack # <<>>
      /\ Len(entStack) \in Nat
      /\ entStack \in [1..Len(entStack) -> EntFrames]
  BY LenProperties DEF EntTypeOK
<1>2. Len(entStack) # 0
  BY <1>1, EmptySeq, SMTT(60)
<1> QED BY <1>1, <1>2 DEF Depth, Top

LEMMA MovedProperties ==
  ASSUME NEW stack \in Seq(EntFrames), stack # <<>>, NEW text \in Nat, NEW size \in Nat
  PROVE  LET m == Moved(stack, text, size)
         IN  /\ m \in Seq(EntFrames) /\ m # <<>> /\ Len(m) = Len(stack)
             /\ \A i \in 1..Len(stack) : m[i].ent = stack[i].ent /\ m[i].mode = stack[i].mode
<1> DEFINE n == Len(stack)
           g == stack[n]
           f == [ent |-> g.ent, mode |-> g.mode, pos |-> g.pos + 1,
                 size |-> g.size + size, text |-> g.text + text]
<1>1. n \in Nat /\ n # 0 /\ stack \in [1..n -> EntFrames]
  BY LenProperties, EmptySeq
<1>2. stack[n] \in EntFrames
  BY <1>1
<1>3. f \in EntFrames /\ f.ent = stack[n].ent /\ f.mode = stack[n].mode
  BY <1>2, SMTT(60) DEF EntFrames
<1>4. Moved(stack, text, size) = [stack EXCEPT ![n] = f]
  BY DEF Moved
<1> HIDE DEF f
<1>5. /\ [stack EXCEPT ![n] = f] \in Seq(EntFrames)
      /\ Len([stack EXCEPT ![n] = f]) = n
      /\ \A i \in 1..n : [stack EXCEPT ![n] = f][i] = IF i = n THEN f ELSE stack[i]
  BY <1>1, <1>3, ExceptSeq
<1>6. [stack EXCEPT ![n] = f] # <<>>
  BY <1>1, <1>5
<1> QED BY <1>3, <1>4, <1>5, <1>6

LEMMA BelowProperties ==
  ASSUME EntTypeOK, Depth > 1
  PROVE  /\ Below \in Seq(EntFrames) /\ Below # <<>> /\ Len(Below) = Depth - 1
         /\ \A i \in 1..(Depth - 1) : Below[i] = entStack[i]
<1>1. Depth \in Nat \ {0} /\ \A i \in 1..Depth : entStack[i] \in EntFrames
  BY StackType
<1>2. Depth - 1 \in Int /\ 1 <= Depth - 1 /\ \A i \in 1..(Depth - 1) : entStack[i] \in EntFrames
  BY <1>1
<1> DEFINE d == Depth - 1
           b == SubSeq(entStack, 1, d)
<1>3. b = Below /\ d \in Int /\ 1 <= d /\ \A i \in 1..d : entStack[i] \in EntFrames
  BY <1>2 DEF Below
<1> HIDE DEF d
<1>4. /\ b \in Seq(EntFrames)
      /\ Len(b) = IF 1 <= d THEN d - 1 + 1 ELSE 0
      /\ \A i \in 1..(d - 1 + 1) : b[i] = entStack[1 + i - 1]
  BY <1>3, SubSeqProperties
<1> HIDE DEF b
<1>5. Len(b) = d /\ \A i \in 1..d : b[i] = entStack[i]
  BY <1>3, <1>4
<1>6. b # <<>>
  BY <1>3, <1>5
<1> QED BY <1>3, <1>4, <1>5, <1>6 DEF d

LEMMA PushedProperties ==
  ASSUME EntTypeOK, NEW e \in Ents, NEW mode \in Modes
  PROVE  LET s == Append(entStack, Frame(e, mode))
         IN  /\ s \in Seq(EntFrames) /\ s # <<>> /\ Len(s) = Depth + 1
             /\ \A i \in 1..Depth : s[i] = entStack[i]
             /\ s[Depth + 1].ent = e /\ s[Depth + 1].mode = mode
<1>1. Len(entBody[e]) \in Nat
  BY EntAssumption DEF EntTypeOK
<1>2. Frame(e, mode) \in EntFrames /\ Frame(e, mode).ent = e /\ Frame(e, mode).mode = mode
  BY <1>1 DEF Frame, EntFrames, Modes
<1>3. entStack \in Seq(EntFrames)
  BY DEF EntTypeOK
<1> QED BY <1>2, <1>3, AppendProperties DEF Depth

LEMMA CheckType ==
  ASSUME EntTypeOK, NEW stack, NEW flags, NEW extra \in Nat, NEW loaded
  PROVE  /\ EntityCheck(stack, flags, extra, loaded).copy \in Nat
         /\ EntityCheck(stack, flags, extra, loaded).size \in [Ents -> Nat]
<1> DEFINE e == InputOf(stack).ent
           total == (IF e = EntDoc THEN entCopy ELSE entSize[e]) + extra + EntFixed
<1>1. EntFixed \in Nat /\ entCopy \in Nat /\ entSize \in [Ents -> Nat]
  BY EntAssumption DEF EntTypeOK
<1>2. e = EntDoc \/ e \in Ents => total \in Nat
  BY <1>1
<1>3. EntityCheck(stack, flags, extra, loaded).copy = IF e = EntDoc THEN total ELSE entCopy
  BY DEF EntityCheck
<1>4. \/ EntityCheck(stack, flags, extra, loaded).size = entSize
      \/ EntityCheck(stack, flags, extra, loaded).size = [entSize EXCEPT ![e] = total] /\ e # EntDoc
  BY DEF EntityCheck
<1> HIDE DEF total, e
<1>5. e # EntDoc => [entSize EXCEPT ![e] = total] \in [Ents -> Nat]
  BY <1>1, <1>2
<1> QED BY <1>1, <1>2, <1>3, <1>4, <1>5

LEMMA StopKeeps ==
  ASSUME EntInv, NEW error, Stop(error)
  PROVE  EntInv'
BY DEF EntInv, Stop, entConfig, EntTypeOK, EntStackShape, EntNoReentry, EntMarksExact, Depth

-----------------------------------------------------------------------------
(* The actions.                                                            *)

(* The innermost call moves on without a change of the marks.              *)
LEMMA MovedKeeps ==
  ASSUME EntInv, NEW text \in Nat, NEW size \in Nat,
         entStack' = Moved(entStack, text, size), UNCHANGED entFlags
  PROVE  entStack' \in Seq(EntFrames) /\ entStack' # <<>> /\ EntMarks'
<1>1. EntTypeOK /\ EntMarks /\ Depth \in Nat \ {0} /\ entStack \in Seq(EntFrames)
      /\ entStack # <<>>
  BY StackType DEF EntInv, EntMarks, EntTypeOK
<1>2. /\ entStack' \in Seq(EntFrames) /\ entStack' # <<>> /\ Len(entStack') = Len(entStack)
      /\ \A i \in 1..Len(entStack) : /\ entStack'[i].ent = entStack[i].ent
                                     /\ entStack'[i].mode = entStack[i].mode
  BY <1>1, MovedProperties
<1>3. EntMarks'
  BY <1>1, <1>2, StackKept DEF Depth, IsMarked
<1> QED BY <1>2, <1>3

(* A call returns: the caller's frame may have moved on.                   *)
LEMMA PoppedKeeps ==
  ASSUME EntInv, Depth > 1, NEW text \in Nat, NEW size \in Nat,
         entStack' = Below \/ entStack' = Moved(Below, text, size),
         \A x \in Ents : IsMarked(entFlags', x) <=>
            (/\ IsMarked(entFlags, x)
             /\ ~(Top.mode = "content" /\ x = Top.ent)
             /\ ~(entStack[Depth - 1].mode # "content" /\ x = entStack[Depth - 1].ent))
  PROVE  entStack' \in Seq(EntFrames) /\ entStack' # <<>> /\ EntMarks'
<1>1. EntTypeOK /\ EntMarks /\ Depth \in Nat
  BY StackType DEF EntInv, EntMarks
<1>2. /\ Below \in Seq(EntFrames) /\ Below # <<>> /\ Len(Below) = Depth - 1
      /\ \A i \in 1..(Depth - 1) : Below[i] = entStack[i]
  BY <1>1, BelowProperties
<1>3. /\ entStack' \in Seq(EntFrames) /\ entStack' # <<>> /\ Len(entStack') = Depth - 1
      /\ \A i \in 1..(Depth - 1) : /\ entStack'[i].ent = entStack[i].ent
                                   /\ entStack'[i].mode = entStack[i].mode
  <2>1. CASE entStack' = Below
    BY <2>1, <1>2
  <2>2. CASE entStack' = Moved(Below, text, size)
    <3>1. LET m == Moved(Below, text, size)
          IN  /\ m \in Seq(EntFrames) /\ m # <<>> /\ Len(m) = Len(Below)
              /\ \A i \in 1..Len(Below) : m[i].ent = Below[i].ent /\ m[i].mode = Below[i].mode
      BY <1>2, MovedProperties
    <3> QED BY <3>1, <2>2, <1>2
  <2> QED BY <2>1, <2>2
<1>4. Depth' = Depth - 1
  BY <1>3 DEF Depth
<1>5. EntMarks'
  BY <1>1, <1>3, <1>4, StackPopped
<1> QED BY <1>3, <1>5

(* Numbers that the actions add up.                                        *)
LEMMA Amounts ==
  ASSUME EntInv
  PROVE  /\ \A e \in Ents : /\ entSize[e] \in Nat /\ entYield[e] \in Nat
                            /\ Delivers(e) \in Nat /\ SizeAfter(e) \in Nat
                            /\ Len(entBody[e]) \in Nat
         /\ Top.text \in Nat /\ Top.size \in Nat /\ EntFixed \in Nat
         /\ \A stack : Own(stack) \in Nat
         /\ Depth > 1 => Top.ent \in Ents
<1>1. Top \in EntFrames /\ EntTypeOK /\ Depth \in Nat \ {0}
  BY StackType DEF EntInv
<1>2. \A e \in Ents : Len(entBody[e]) \in Nat
  BY <1>1, EntAssumption DEF EntTypeOK
<1>3. \A e \in Ents : /\ entSize[e] \in Nat /\ entYield[e] \in Nat
                      /\ Delivers(e) \in Nat /\ SizeAfter(e) \in Nat
  BY <1>1, <1>2 DEF EntTypeOK, Delivers, SizeAfter
<1>4. Depth > 1 => Top.ent \in Ents
  BY <1>1 DEF EntInv, EntStackShape, Top, EntFrames
<1>5. \A stack : Own(stack) \in Nat
  BY DEF Own
<1>6. Top.text \in Nat /\ Top.size \in Nat /\ EntFixed \in Nat
  BY <1>1, EntAssumption DEF EntFrames
<1> QED BY <1>2, <1>3, <1>4, <1>5, <1>6

LEMMA TextInv == ASSUME EntInv, EntText PROVE EntInv'
<1>1. PICK text \in Nat : entStack' = Moved(entStack, text, 0)
  BY DEF EntText
<1>2. entStack' \in Seq(EntFrames) /\ entStack' # <<>> /\ EntMarks'
  BY <1>1, MovedKeeps DEF EntText
<1> QED BY <1>2 DEF EntInv, EntTypeOK, EntMarks, EntText, entConfig

LEMMA RefKnownInv ==
  ASSUME EntInv, NEW e \in Ents, RefKnown(e)
  PROVE  EntInv'
<1>1. entSize[e] \in Nat /\ Delivers(e) \in Nat
  BY Amounts
<1>2. entStack' = Moved(entStack, Delivers(e), 0) /\ UNCHANGED entFlags
  BY DEF RefKnown, Continue
<1>3. entStack' \in Seq(EntFrames) /\ entStack' # <<>> /\ EntMarks'
  BY <1>1, <1>2, MovedKeeps
<1>4. entCopy' \in Nat /\ entSize' \in [Ents -> Nat]
  BY <1>1, CheckType DEF RefKnown, Continue, EntInv
<1> QED BY <1>3, <1>4 DEF EntInv, EntTypeOK, EntMarks, RefKnown, entConfig

(* A refused entity counts as parsed and checked; the marks stay.          *)
LEMMA RefusedKeeps ==
  ASSUME EntInv, NEW e \in Ents, NEW error, RefRefused(e, error)
  PROVE  EntInv'
<1>1. /\ SizeAfter(e) \in Nat /\ Len(entBody[e]) \in Nat
      /\ EntTypeOK /\ EntMarks /\ entLoaded \in Nat
  BY Amounts DEF EntInv, EntMarks, EntTypeOK
<1>2. entLoaded' \in Nat
  <2>1. \/ entLoaded' = entLoaded + Len(entBody[e])
        \/ entLoaded' = entLoaded + 0
    BY DEF RefRefused
  <2> QED BY <1>1, <2>1
<1>3. entSize' \in [Ents -> Nat]
  BY <1>1 DEF RefRefused, EntTypeOK
<1>4. /\ entFlags' \in [Ents -> SUBSET {"expanding", "parsed", "checked", "validated"}]
      /\ \A x \in Ents : ("expanding" \in entFlags'[x]) <=> ("expanding" \in entFlags[x])
  BY <1>1 DEF RefRefused, EntTypeOK
<1>5. UNCHANGED <<entStack, entCopy, entYield, entBody>>
  BY DEF RefRefused, entConfig
<1>6. EntTypeOK'
  BY <1>1, <1>2, <1>3, <1>4, <1>5 DEF EntTypeOK
<1>7. EntMarksExact'
  BY <1>4, <1>5 DEF EntInv, EntMarksExact, Depth
<1> QED BY <1>5, <1>6, <1>7 DEF EntInv, EntStackShape, EntNoReentry, Depth

LEMMA RefParseInv ==
  ASSUME EntInv, NEW e \in Ents, RefParse(e)
  PROVE  EntInv'
<1>1. CASE \E error : RefRefused(e, error)
  BY <1>1, RefusedKeeps
<1>2. CASE /\ "expanding" \notin entFlags[e]
           /\ entStack' = Append(entStack, Frame(e, "content"))
           /\ entFlags' = [entFlags EXCEPT ![e] = @ \cup {"expanding"}]
           /\ UNCHANGED <<entSize, entCopy, entLoaded, entError, entYield, entConfig>>
  <2>1. /\ EntTypeOK /\ EntMarks /\ EntDoc \notin Ents /\ Depth \in Nat \ {0}
        /\ Top.mode = "content"
    BY EntAssumption, StackType DEF EntInv, EntMarks, RefParse
  <2>2. /\ entStack' \in Seq(EntFrames) /\ entStack' # <<>> /\ Len(entStack') = Depth + 1
        /\ \A i \in 1..Depth : entStack'[i] = entStack[i]
        /\ entStack'[Depth + 1].ent = e /\ entStack'[Depth + 1].mode = "content"
    BY <1>2, <2>1, PushedProperties DEF Modes
  <2>3. entFlags' \in [Ents -> SUBSET {"expanding", "parsed", "checked", "validated"}]
    BY <1>2, <2>1 DEF EntTypeOK
  <2>4. \A x \in Ents : IsMarked(entFlags', x) <=> (IsMarked(entFlags, x) \/ x = e)
    BY <1>2, <2>1 DEF EntTypeOK, IsMarked
  <2>5. EntMarks'
    BY <1>2, <2>1, <2>2, <2>4, StackPushed DEF Depth, Modes, IsMarked
  <2> QED BY <1>2, <2>1, <2>2, <2>3, <2>5 DEF EntInv, EntTypeOK, EntMarks, entConfig
<1> QED BY <1>1, <1>2 DEF RefParse

LEMMA RefParsedInv == ASSUME EntInv, RefParsed PROVE EntInv'
<1> DEFINE e == Top.ent
           flags == [entFlags EXCEPT ![e] = (@ \ {"expanding"}) \cup {"parsed", "checked"}]
           text == IF entReplace \/ ~entTree THEN Top.text ELSE 0
           loaded == IF e \in EntExternal /\ "parsed" \notin entFlags[e]
                     THEN Len(entBody[e]) ELSE 0
           check == EntityCheck(Moved(Below, text, 0), flags, SizeAfter(e), entLoaded + loaded)
<1>1. /\ Depth > 1 /\ Top.mode = "content" /\ EntTypeOK /\ EntMarks
      /\ Depth \in Nat \ {0}
  BY StackType DEF RefParsed, AtEnd, EntInv, EntMarks
<1>2. /\ e \in Ents /\ text \in Nat /\ SizeAfter(e) \in Nat /\ Len(entBody[e]) \in Nat
      /\ Top.text \in Nat
  BY <1>1, Amounts
<1>3. /\ entFlags' = flags
      /\ entStack' = Below \/ entStack' = Moved(Below, text, 0)
  BY DEF RefParsed
<1>4. /\ entCopy' = check.copy \/ entCopy' = entCopy
      /\ \/ entSize' = [check.size EXCEPT ![e] = SizeAfter(e)]
         \/ entSize' = [entSize EXCEPT ![e] = SizeAfter(e)]
      /\ entYield' = [entYield EXCEPT ![e] = Top.text]
      /\ entBody' = entBody
  BY DEF RefParsed, entConfig
<1>5. entLoaded' \in Nat
  <2>1. \/ entLoaded' = entLoaded + Len(entBody[e])
        \/ entLoaded' = entLoaded + 0
    BY DEF RefParsed
  <2>2. entLoaded \in Nat
    BY <1>1 DEF EntTypeOK
  <2> QED BY <1>2, <2>1, <2>2
<1>6. check.copy \in Nat /\ check.size \in [Ents -> Nat]
  BY <1>1, <1>2, CheckType
<1> HIDE DEF text, check
<1>7. entCopy' \in Nat /\ entSize' \in [Ents -> Nat] /\ entYield' \in [Ents -> Nat]
  BY <1>1, <1>2, <1>4, <1>6 DEF EntTypeOK
<1>8. /\ entFlags' \in [Ents -> SUBSET {"expanding", "parsed", "checked", "validated"}]
      /\ \A x \in Ents : IsMarked(entFlags', x) <=> (IsMarked(entFlags, x) /\ x # e)
  BY <1>1, <1>2, <1>3 DEF EntTypeOK, IsMarked
<1>9. entStack[Depth - 1].mode = "content"
  BY <1>1 DEF EntMarks, EntStackShape, Top
<1>10. entStack' \in Seq(EntFrames) /\ entStack' # <<>> /\ EntMarks'
  BY <1>1, <1>2, <1>3, <1>8, <1>9, PoppedKeeps
<1> QED BY <1>1, <1>4, <1>5, <1>7, <1>8, <1>10 DEF EntInv, EntTypeOK, EntMarks

-----------------------------------------------------------------------------
(* References in attribute values.                                         *)

(* A nested call from an attribute value marks its caller.                 *)
LEMMA AttPushed ==
  ASSUME EntInv, NEW e \in Ents, NEW mode \in {"expand", "check"},
         "expanding" \notin Marked(e)[e], entFlags' = Marked(e),
         entStack' = Append(entStack, Frame(e, mode))
  PROVE  /\ entFlags' \in [Ents -> SUBSET {"expanding", "parsed", "checked", "validated"}]
         /\ entStack' \in Seq(EntFrames) /\ entStack' # <<>> /\ EntMarks'
<1>1. /\ EntTypeOK /\ EntMarks /\ EntDoc \notin Ents /\ Depth \in Nat \ {0}
      /\ entFlags \in [Ents -> SUBSET {"expanding", "parsed", "checked", "validated"}]
  BY EntAssumption, StackType DEF EntInv, EntMarks, EntTypeOK
<1>2. Top.mode # "content" => Top.ent \in Ents
  <2>1. Top.mode # "content" => Depth > 1
    BY <1>1 DEF EntMarks, EntStackShape, Top
  <2> QED BY <2>1, Amounts
<1>3. /\ entStack' \in Seq(EntFrames) /\ entStack' # <<>> /\ Len(entStack') = Depth + 1
      /\ \A i \in 1..Depth : entStack'[i] = entStack[i]
      /\ entStack'[Depth + 1].ent = e /\ entStack'[Depth + 1].mode = mode
  BY <1>1, PushedProperties DEF Modes
<1>4. /\ entFlags' \in [Ents -> SUBSET {"expanding", "parsed", "checked", "validated"}]
      /\ \A x \in Ents : IsMarked(entFlags', x) <=>
           (IsMarked(entFlags, x) \/ (Top.mode # "content" /\ x = Top.ent))
  BY <1>1, <1>2 DEF Marked, IsMarked
<1>5. ~IsMarked(entFlags, e) /\ (Top.mode # "content" => Top.ent # e)
  <2>1. ~IsMarked(entFlags', e)
    BY DEF IsMarked
  <2> QED BY <2>1, <1>4
<1>6. mode \in Modes /\ mode # "content" /\ Depth' = Depth + 1
  BY <1>3 DEF Modes, Depth
<1>7. EntMarks'
  BY <1>1, <1>3, <1>4, <1>5, <1>6, StackPushed
<1> QED BY <1>3, <1>4, <1>7

LEMMA AttIllegalInv == ASSUME EntInv, AttIllegal PROVE EntInv'
<1>1. \E error : Stop(error)
  BY DEF AttIllegal
<1> QED BY <1>1, StopKeeps

LEMMA AttExpandInv ==
  ASSUME EntInv, NEW e \in Ents, AttExpand(e)
  PROVE  EntInv'
<1> DEFINE check == EntityCheck([entStack EXCEPT ![Depth].pos = @ + 1], entFlags,
                                Len(entBody[e]), entLoaded)
           rest == /\ entCopy' = check.copy /\ entSize' = check.size
                   /\ UNCHANGED <<entLoaded, entYield, entConfig>>
<1>1. CASE \E error : Stop(error)
  BY <1>1, StopKeeps
<1>2. check.copy \in Nat /\ check.size \in [Ents -> Nat]
  BY Amounts, CheckType DEF EntInv
<1> HIDE DEF check
<1>3. CASE rest /\ entStack' = entStack /\ entFlags' = entFlags
  BY <1>2, <1>3 DEF EntInv, EntTypeOK, EntStackShape, EntNoReentry, EntMarksExact, Depth,
                    entConfig
<1>4. CASE /\ rest /\ entStack' = Append(entStack, Frame(e, "expand"))
           /\ entFlags' = Marked(e) /\ "expanding" \notin Marked(e)[e]
  <2>1. /\ entFlags' \in [Ents -> SUBSET {"expanding", "parsed", "checked", "validated"}]
        /\ entStack' \in Seq(EntFrames) /\ entStack' # <<>> /\ EntMarks'
    BY <1>4, AttPushed
  <2> QED BY <1>2, <1>4, <2>1 DEF EntInv, EntTypeOK, EntMarks, entConfig
<1> QED BY <1>1, <1>3, <1>4 DEF AttExpand, check

LEMMA AttCheckInv ==
  ASSUME EntInv, NEW e \in Ents, AttCheck(e)
  PROVE  EntInv'
<1>1. CASE \E error : Stop(error)
  BY <1>1, StopKeeps
<1>2. CASE /\ entStack' = Append(entStack, Frame(e, "check"))
           /\ entFlags' = Marked(e) /\ "expanding" \notin Marked(e)[e]
           /\ UNCHANGED <<entSize, entCopy, entLoaded, entError, entYield, entConfig>>
  <2>1. /\ entFlags' \in [Ents -> SUBSET {"expanding", "parsed", "checked", "validated"}]
        /\ entStack' \in Seq(EntFrames) /\ entStack' # <<>> /\ EntMarks'
    BY <1>2, AttPushed
  <2> QED BY <1>2, <2>1 DEF EntInv, EntTypeOK, EntMarks, entConfig
<1> QED BY <1>1, <1>2 DEF AttCheck

(* Unmarked removes the mark of the caller, if it is an attribute value.   *)
LEMMA UnmarkedProperties ==
  ASSUME EntInv, Depth > 1
  PROVE  /\ Unmarked \in [Ents -> SUBSET {"expanding", "parsed", "checked", "validated"}]
         /\ \A x \in Ents : IsMarked(Unmarked, x) <=>
              (/\ IsMarked(entFlags, x)
               /\ ~(entStack[Depth - 1].mode # "content" /\ x = entStack[Depth - 1].ent))
<1>1. /\ EntTypeOK /\ EntMarks /\ Depth \in Nat \ {0}
      /\ entFlags \in [Ents -> SUBSET {"expanding", "parsed", "checked", "validated"}]
      /\ \A i \in 1..Depth : entStack[i] \in EntFrames
  BY StackType DEF EntInv, EntMarks, EntTypeOK
<1>2. Depth = 2 => entStack[Depth - 1].mode = "content"
  BY <1>1 DEF EntMarks, EntStackShape
<1>3. Depth # 2 => entStack[Depth - 1].ent \in Ents
  BY <1>1 DEF EntMarks, EntStackShape, EntFrames
<1> QED BY <1>1, <1>2, <1>3 DEF Unmarked, IsMarked

LEMMA AttExpandedInv == ASSUME EntInv, AttExpanded PROVE EntInv'
<1>1. Depth > 1 /\ Top.mode = "expand"
  BY DEF AttExpanded, AtEnd
<1>2. Top.text \in Nat /\ Own(Below) \in Nat
  BY Amounts
<1>3. PICK text \in Nat : entStack' = Below \/ entStack' = Moved(Below, text, 0)
  <2>1. Top.text + Own(Below) \in Nat
    BY <1>2
  <2> QED BY <2>1 DEF AttExpanded
<1>4. /\ entFlags' \in [Ents -> SUBSET {"expanding", "parsed", "checked", "validated"}]
      /\ \A x \in Ents : IsMarked(entFlags', x) <=>
           (/\ IsMarked(entFlags, x)
            /\ ~(entStack[Depth - 1].mode # "content" /\ x = entStack[Depth - 1].ent))
  <2>1. entFlags' = Unmarked
    BY DEF AttExpanded
  <2> QED BY <1>1, <2>1, UnmarkedProperties
<1>5. entStack' \in Seq(EntFrames) /\ entStack' # <<>> /\ EntMarks'
  BY <1>1, <1>3, <1>4, PoppedKeeps
<1> QED BY <1>4, <1>5 DEF EntInv, EntTypeOK, EntMarks, AttExpanded, entConfig

LEMMA NotedProperties ==
  ASSUME EntInv, NEW stack, NEW size \in Nat, NEW flags
  PROVE  /\ NotedSize(stack, size, flags) \in [Ents -> Nat]
         /\ CheckNoted(stack, size, flags) =>
              /\ entCopy' \in Nat
              /\ \E t, n \in Nat : entStack' = Moved(stack, t, n)
<1>1. /\ EntTypeOK /\ entSize \in [Ents -> Nat] /\ entCopy \in Nat
      /\ EntFixed \in Nat /\ Own(stack) \in Nat
  BY Amounts DEF EntInv, EntTypeOK
<1>2. NotedSize(stack, size, flags) \in [Ents -> Nat]
  BY <1>1, CheckType DEF NotedSize
<1>3. ASSUME CheckNoted(stack, size, flags)
      PROVE  entCopy' \in Nat /\ \E t, n \in Nat : entStack' = Moved(stack, t, n)
  <2>1. CASE stack[Len(stack)].mode = "check"
    <3>1. entStack' = Moved(stack, 0, size + EntFixed) /\ entCopy' = entCopy
      BY <1>3, <2>1 DEF CheckNoted
    <3>2. size + EntFixed \in Nat
      BY <1>1
    <3> QED BY <1>1, <3>1, <3>2
  <2>2. CASE stack[Len(stack)].mode # "check"
    <3>1. /\ entStack' = Moved(stack, Own(stack), 0)
          /\ entCopy' = EntityCheck(Moved(stack, Own(stack), 0), flags, size, entLoaded).copy
      BY <1>3, <2>2 DEF CheckNoted
    <3>2. EntityCheck(Moved(stack, Own(stack), 0), flags, size, entLoaded).copy \in Nat
      BY <1>1, CheckType
    <3> QED BY <1>1, <3>1, <3>2
  <2> QED BY <2>1, <2>2
<1> QED BY <1>2, <1>3

LEMMA AttCheckKnownInv ==
  ASSUME EntInv, NEW e \in Ents, AttCheckKnown(e)
  PROVE  EntInv'
<1>1. entSize[e] \in Nat
  BY Amounts
<1>2. /\ CheckNoted(entStack, entSize[e], entFlags)
      /\ entSize' = NotedSize(entStack, entSize[e], entFlags)
      /\ UNCHANGED <<entFlags, entLoaded, entYield, entConfig>>
  BY DEF AttCheckKnown
<1>3. /\ entCopy' \in Nat /\ entSize' \in [Ents -> Nat]
      /\ \E t, n \in Nat : entStack' = Moved(entStack, t, n)
  BY <1>1, <1>2, NotedProperties
<1>4. entStack' \in Seq(EntFrames) /\ entStack' # <<>> /\ EntMarks'
  BY <1>2, <1>3, MovedKeeps
<1> QED BY <1>2, <1>3, <1>4 DEF EntInv, EntTypeOK, EntMarks, entConfig

LEMMA AttCheckedInv == ASSUME EntInv, AttChecked PROVE EntInv'
<1> DEFINE e == Top.ent
           flags == [Unmarked EXCEPT ![e] = @ \cup {"checked", "validated"}]
<1>1. /\ Depth > 1 /\ Top.mode = "check" /\ EntTypeOK
      /\ e \in Ents /\ Top.size \in Nat
  BY Amounts DEF AttChecked, AtEnd, EntInv
<1>2. entFlags' = flags /\ UNCHANGED <<entLoaded, entYield, entConfig>>
  BY DEF AttChecked
<1>3. /\ entFlags' \in [Ents -> SUBSET {"expanding", "parsed", "checked", "validated"}]
      /\ \A x \in Ents : IsMarked(entFlags', x) <=>
           (/\ IsMarked(entFlags, x)
            /\ ~(entStack[Depth - 1].mode # "content" /\ x = entStack[Depth - 1].ent))
  <2>1. /\ Unmarked \in [Ents -> SUBSET {"expanding", "parsed", "checked", "validated"}]
        /\ \A x \in Ents : IsMarked(Unmarked, x) <=>
             (/\ IsMarked(entFlags, x)
              /\ ~(entStack[Depth - 1].mode # "content" /\ x = entStack[Depth - 1].ent))
    BY <1>1, UnmarkedProperties
  <2>2. /\ flags \in [Ents -> SUBSET {"expanding", "parsed", "checked", "validated"}]
        /\ \A x \in Ents : IsMarked(flags, x) <=> IsMarked(Unmarked, x)
    BY <1>1, <2>1 DEF IsMarked
  <2> QED BY <1>2, <2>1, <2>2
<1>4. /\ entCopy' \in Nat /\ entSize' \in [Ents -> Nat]
      /\ \E t, n \in Nat : entStack' = Below \/ entStack' = Moved(Below, t, n)
  <2>1. CASE Running
    <3>1. /\ CheckNoted(Below, Top.size, flags)
          /\ entSize' = [NotedSize(Below, Top.size, flags) EXCEPT ![e] = Top.size]
      BY <2>1 DEF AttChecked
    <3> HIDE DEF flags
    <3>2. /\ NotedSize(Below, Top.size, flags) \in [Ents -> Nat] /\ entCopy' \in Nat
          /\ \E t, n \in Nat : entStack' = Moved(Below, t, n)
      BY <1>1, <3>1, NotedProperties
    <3>3. entSize' \in [Ents -> Nat]
      BY <1>1, <3>1, <3>2
    <3> QED BY <3>2, <3>3
  <2>2. CASE ~Running
    <3>1. entStack' = Below /\ entSize' = [entSize EXCEPT ![e] = Top.size] /\ entCopy' = entCopy
      BY <2>2 DEF AttChecked
    <3>2. entSize' \in [Ents -> Nat] /\ entCopy' \in Nat
      BY <1>1, <3>1 DEF EntTypeOK
    <3> QED BY <3>1, <3>2
  <2> QED BY <2>1, <2>2
<1>5. entStack' \in Seq(EntFrames) /\ entStack' # <<>> /\ EntMarks'
  BY <1>1, <1>3, <1>4, PoppedKeeps
<1> QED BY <1>2, <1>3, <1>4, <1>5 DEF EntInv, EntTypeOK, EntMarks, entConfig

-----------------------------------------------------------------------------
LEMMA EntInitInv == EntInit => EntInv
<1> SUFFICES ASSUME EntInit PROVE EntInv
  OBVIOUS
<1> DEFINE f == [ent |-> EntDoc, mode |-> "content", pos |-> 0, size |-> 0, text |-> 0]
<1>1. entStack = <<f>> /\ f \in EntFrames /\ f.ent = EntDoc /\ f.mode = "content"
  BY DEF EntInit, EntFrames
<1> HIDE DEF f
<1>2. entStack \in Seq(EntFrames) /\ entStack # <<>> /\ Depth = 1 /\ entStack[1] = f
  BY <1>1 DEF Depth
<1>3. EntTypeOK
  BY <1>2 DEF EntInit, EntTypeOK
<1>4. EntStackShape /\ EntNoReentry
  BY <1>1, <1>2 DEF EntStackShape, EntNoReentry
<1>5. EntMarksExact
  BY <1>2 DEF EntInit, EntMarksExact
<1> QED BY <1>3, <1>4, <1>5 DEF EntInv

(* The stack of calls and the marks agree in every state, the unwinding    *)
(* after an error included (parser.c:3691-3950, 11757-11864).              *)
THEOREM EntInvariant == EntSpec => []EntInv
<1>1. EntInv /\ [EntNext]_entVars => EntInv'
  <2> SUFFICES ASSUME EntInv, [EntNext]_entVars PROVE EntInv'
    OBVIOUS
  <2>1. CASE EntText \/ AttIllegal
    BY <2>1, TextInv, AttIllegalInv
  <2>2. ASSUME NEW e \in Ents, RefKnown(e) \/ RefParse(e) PROVE EntInv'
    BY <2>2, RefKnownInv, RefParseInv
  <2>3. ASSUME NEW e \in Ents, AttExpand(e) \/ AttCheck(e) \/ AttCheckKnown(e) PROVE EntInv'
    BY <2>3, AttExpandInv, AttCheckInv, AttCheckKnownInv
  <2>4. CASE RefParsed \/ AttExpanded \/ AttChecked
    BY <2>4, RefParsedInv, AttExpandedInv, AttCheckedInv
  <2>5. CASE UNCHANGED entVars
    BY <2>5 DEF entVars, EntInv, EntTypeOK, EntStackShape, EntNoReentry, EntMarksExact, Depth
  <2> QED BY <2>1, <2>2, <2>3, <2>4, <2>5 DEF EntNext
<1> QED BY <1>1, EntInitInv, PTL DEF EntSpec

(* No entity is expanded inside of itself, through content, attribute      *)
(* values or both (parser.c:3705, 3818, 11773).                            *)
THEOREM EntReentry == EntSpec => []EntNoReentry
<1>1. EntInv => EntNoReentry
  BY DEF EntInv
<1> QED BY <1>1, EntInvariant, PTL

(* No mark survives the reference that set it, whatever error ended the    *)
(* expansion (parser.c:3769, 3941, 11820).                                 *)
THEOREM EntMarksGone == EntSpec => []EntMarksCleared
<1>1. EntInv => EntMarksCleared
  BY DEF EntInv, EntMarksExact, EntMarksCleared
<1> QED BY <1>1, EntInvariant, PTL

-----------------------------------------------------------------------------
(* Loops: entities are followed to their end before they count as checked. *)

(* The innermost call moves on by an item.                                 *)
Advanced(s, s2, t, z) ==
  /\ Len(s2) = Len(s)
  /\ \A i \in 1..(Len(s) - 1) : s2[i] = s[i]
  /\ s2[Len(s)].ent = s[Len(s)].ent /\ s2[Len(s)].mode = s[Len(s)].mode
  /\ s2[Len(s)].pos = s[Len(s)].pos + 1
  /\ s2[Len(s)].text = s[Len(s)].text + t /\ s2[Len(s)].size = s[Len(s)].size + z

(* A call of e in a mode begins.                                           *)
Called(s, s2, e, mode) ==
  /\ Len(s2) = Len(s) + 1
  /\ \A i \in 1..Len(s) : s2[i] = s[i]
  /\ s2[Len(s) + 1].ent = e /\ s2[Len(s) + 1].mode = mode
  /\ s2[Len(s) + 1].pos = 0 /\ s2[Len(s) + 1].text = 0
  /\ mode = "check" => s2[Len(s) + 1].size = Len(entBody[e])

(* The innermost call is gone.                                             *)
Returned(s, s2) ==
  /\ Len(s) > 1 /\ Len(s2) = Len(s) - 1
  /\ \A i \in 1..(Len(s) - 1) : s2[i] = s[i]

(* What EntInv says of a stack of calls.                                   *)
WellStack(s) ==
  /\ s \in Seq(EntFrames) /\ s # <<>> /\ Len(s) \in Nat \ {0}
  /\ \A i \in 1..Len(s) : s[i] \in EntFrames
  /\ s[1].mode = "content"
  /\ \A i \in 1..Len(s) : (s[i].ent = EntDoc) = (i = 1)
  /\ \A i \in 2..Len(s) : s[i].mode = "content" => s[i - 1].mode = "content"
  /\ \A i, j \in 1..Len(s) : s[i].ent = s[j].ent => i = j

(* The invariant's stack is such a stack ...                               *)
LEMMA StackWell ==
  ASSUME EntInv
  PROVE  WellStack(entStack)
<1>1. EntTypeOK /\ Depth \in Nat \ {0} /\ \A i \in 1..Depth : entStack[i] \in EntFrames
  BY StackType DEF EntInv
<1> QED BY <1>1 DEF WellStack, EntInv, EntTypeOK, EntStackShape, EntNoReentry, Depth

(* Moved is a move of the innermost call.                                  *)
LEMMA MovedIs ==
  ASSUME NEW stack \in Seq(EntFrames), stack # <<>>, NEW text \in Nat, NEW size \in Nat
  PROVE  Advanced(stack, Moved(stack, text, size), text, size)
<1> DEFINE n == Len(stack)
           g == stack[n]
           f == [ent |-> g.ent, mode |-> g.mode, pos |-> g.pos + 1,
                 size |-> g.size + size, text |-> g.text + text]
<1>1. n \in Nat /\ n # 0 /\ stack \in [1..n -> EntFrames]
  BY LenProperties, EmptySeq
<1>2. stack[n] \in EntFrames
  BY <1>1
<1>3. /\ f \in EntFrames /\ f.ent = stack[n].ent /\ f.mode = stack[n].mode
      /\ f.pos = stack[n].pos + 1 /\ f.text = stack[n].text + text
      /\ f.size = stack[n].size + size
  BY <1>2, SMTT(60) DEF EntFrames
<1>4. Moved(stack, text, size) = [stack EXCEPT ![n] = f]
  BY DEF Moved
<1> HIDE DEF f
<1> DEFINE m == [stack EXCEPT ![n] = f]
<1>5. Len(m) = n /\ \A i \in 1..n : m[i] = IF i = n THEN f ELSE stack[i]
  BY <1>1, <1>3, ExceptSeq
<1> HIDE DEF m
<1>6. Len(m) = n /\ m[n] = f /\ \A i \in 1..(n - 1) : m[i] = stack[i]
  <2>0. n \in Nat \ {0}
    BY <1>1
  <2> HIDE DEF n
  <2>1. n \in 1..n /\ \A i \in 1..(n - 1) : i \in 1..n /\ i # n
    BY <2>0
  <2> QED BY <1>5, <2>1, Zenon
<1>7. Advanced(stack, m, text, size)
  BY <1>1, <1>3, <1>6 DEF Advanced
<1> QED BY <1>4, <1>7 DEF m

(* A pushed frame is a call.                                               *)
LEMMA PushedIs ==
  ASSUME EntTypeOK, NEW e \in Ents, NEW mode \in Modes
  PROVE  Called(entStack, Append(entStack, Frame(e, mode)), e, mode)
<1>1. Len(entBody[e]) \in Nat /\ entStack \in Seq(EntFrames)
  BY EntAssumption DEF EntTypeOK
<1> DEFINE f == Frame(e, mode)
<1>2. /\ f \in EntFrames /\ f.ent = e /\ f.mode = mode /\ f.pos = 0 /\ f.text = 0
      /\ mode = "check" => f.size = Len(entBody[e])
  BY <1>1 DEF Frame, EntFrames, Modes
<1> HIDE DEF f
<1>3. /\ Len(Append(entStack, f)) = Len(entStack) + 1 /\ Len(entStack) \in Nat
      /\ \A i \in 1..Len(entStack) : Append(entStack, f)[i] = entStack[i]
      /\ Append(entStack, f)[Len(entStack) + 1] = f
  BY <1>1, <1>2
<1> QED BY <1>2, <1>3 DEF Called, f

(* Below is the stack after the innermost call returned.                   *)
LEMMA BelowIs ==
  ASSUME EntInv, Depth > 1
  PROVE  Returned(entStack, Below) /\ WellStack(Below)
<1>1. /\ Below \in Seq(EntFrames) /\ Below # <<>> /\ Len(Below) = Depth - 1
      /\ \A i \in 1..(Depth - 1) : Below[i] = entStack[i]
  BY BelowProperties DEF EntInv
<1>2. WellStack(entStack)
  BY StackWell
<1> QED BY <1>1, <1>2, SMTT(60) DEF Returned, WellStack, Depth

-----------------------------------------------------------------------------
(* Entities that are followed to the end.                                  *)
Unread == {e \in Ents : ~Readable(e)}

(* An item that refers to f, in content or from an attribute value.        *)
Names(item, f) == item \in {<<"ref", f>>, <<"att", f>>}

(* D is closed under references and has no cycle.                          *)
Explored(D) ==
  /\ D \in SUBSET (Ents \ Unread)
  /\ \A e \in D : Mentions(e) \subseteq D \cup Unread
  /\ \A S \in SUBSET D : S # {} => \E e \in S : Mentions(e) \cap S = {}

(* What is marked as parsed or checked is in D.                            *)
FlagsDone(flags, D) ==
  \A e \in Ents : /\ "parsed" \in flags[e] => "checked" \in flags[e]
                  /\ "checked" \in flags[e] => e \in D

(* A call has read a part of its text, and what it referred to so far is   *)
(* in D: it was followed to its end, or it is never read.                  *)
FramesRead(s, D) ==
  \A i \in 2..Len(s) :
    /\ s[i].ent \in Ents \ Unread
    /\ s[i].pos <= Len(entBody[s[i].ent])
    /\ \A k \in 1..s[i].pos, f \in Ents :
         Names(entBody[s[i].ent][k], f) => f \in D \cup Unread

(* The item that a call of e from one mode in another follows.             *)
CallItem(from, to, e) ==
  IF from = "content" /\ to # "content" THEN <<"att", e>> ELSE <<"ref", e>>

(* Every call but the innermost one stands at the item it follows.         *)
Calls(s) ==
  \A i \in 2..(Len(s) - 1) :
    /\ s[i].pos < Len(entBody[s[i].ent])
    /\ entBody[s[i].ent][s[i].pos + 1] = CallItem(s[i].mode, s[i + 1].mode, s[i + 1].ent)

(* The loops are excluded: D has none, and the calls are on their way.     *)
LoopFree(s, D) == Explored(D) /\ FramesRead(s, D) /\ Calls(s)

(* An entity whose references are all in D can be added to D: a cycle      *)
(* through it would have to pass through D, which refers to D only.        *)
LEMMA ExploredMore ==
  ASSUME NEW D, Explored(D), NEW e \in Ents \ Unread, Mentions(e) \subseteq D \cup Unread
  PROVE  Explored(D \cup {e})
<1>1. CASE e \in D
  <2>1. D \cup {e} = D
    BY <1>1
  <2> QED BY <2>1
<1>2. CASE e \notin D
  <2>1. \A S \in SUBSET (D \cup {e}) : S # {} => \E g \in S : Mentions(g) \cap S = {}
    <3> SUFFICES ASSUME NEW S \in SUBSET (D \cup {e}), S # {}
                 PROVE  \E g \in S : Mentions(g) \cap S = {}
      OBVIOUS
    <3>1. CASE S \cap D = {}
      <4>1. S = {e}
        BY <3>1
      <4> QED BY <1>2, <4>1
    <3>2. CASE S \cap D # {}
      <4>1. S \cap D \in SUBSET D
        OBVIOUS
      <4>2. PICK g \in S \cap D : Mentions(g) \cap (S \cap D) = {}
        BY <3>2, <4>1 DEF Explored
      <4>3. Mentions(g) \subseteq D \cup Unread
        BY <4>2 DEF Explored
      <4>4. e \notin Mentions(g)
        BY <1>2, <4>3
      <4> QED BY <4>2, <4>4
    <3> QED BY <3>1, <3>2
  <2>2. D \cup {e} \in SUBSET (Ents \ Unread)
    BY DEF Explored
  <2>3. \A g \in D \cup {e} : Mentions(g) \subseteq (D \cup {e}) \cup Unread
    BY DEF Explored
  <2> QED BY <2>1, <2>2, <2>3 DEF Explored
<1> QED BY <1>1, <1>2

(* A move over an item that refers to D keeps this ...                     *)
LEMMA AdvanceRead ==
  ASSUME NEW D, NEW s, WellStack(s), LoopFree(s, D), NEW s2, NEW t, NEW z,
         Advanced(s, s2, t, z),
         Len(s) = 1 \/ /\ s[Len(s)].pos < Len(entBody[s[Len(s)].ent])
                       /\ \A f \in Ents : Names(entBody[s[Len(s)].ent][s[Len(s)].pos + 1], f)
                                            => f \in D \cup Unread,
         \A e \in Ents : Len(entBody[e]) \in Nat
  PROVE  LoopFree(s2, D)
<1>1. Len(s2) = Len(s) /\ Len(s) \in Nat \ {0} /\ \A i \in 1..Len(s) : s[i].pos \in Nat
  BY DEF Advanced, WellStack, EntFrames
<1>2. FramesRead(s2, D)
  <2> SUFFICES ASSUME NEW i \in 2..Len(s)
               PROVE  /\ s2[i].ent \in Ents \ Unread
                      /\ s2[i].pos <= Len(entBody[s2[i].ent])
                      /\ \A k \in 1..s2[i].pos, f \in Ents :
                           Names(entBody[s2[i].ent][k], f) => f \in D \cup Unread
    BY <1>1 DEF FramesRead
  <2>0. /\ s[i].ent \in Ents \ Unread /\ s[i].pos <= Len(entBody[s[i].ent])
        /\ \A k \in 1..s[i].pos, f \in Ents :
             Names(entBody[s[i].ent][k], f) => f \in D \cup Unread
    BY <1>1 DEF LoopFree, FramesRead
  <2>1. CASE i < Len(s)
    <3>1. s2[i] = s[i]
      BY <1>1, <2>1, SMTT(60) DEF Advanced
    <3> QED BY <2>0, <3>1
  <2>2. CASE i = Len(s)
    <3>1. s2[i].ent = s[i].ent /\ s2[i].pos = s[i].pos + 1 /\ s[i].pos \in Nat
      BY <1>1, <2>2 DEF Advanced
    <3>2. /\ s[i].pos < Len(entBody[s[i].ent]) /\ Len(entBody[s[i].ent]) \in Nat
          /\ \A f \in Ents : Names(entBody[s[i].ent][s[i].pos + 1], f) => f \in D \cup Unread
      BY <1>1, <2>0, <2>2
    <3>3. ASSUME NEW k \in 1..(s[i].pos + 1), NEW f \in Ents, Names(entBody[s[i].ent][k], f)
          PROVE  f \in D \cup Unread
      <4>1. k \in 1..s[i].pos \/ k = s[i].pos + 1
        BY <3>1
      <4> QED BY <2>0, <3>2, <3>3, <4>1
    <3> QED BY <2>0, <3>1, <3>2, <3>3
  <2> QED BY <1>1, <2>1, <2>2
<1>3. Calls(s2)
  <2> SUFFICES ASSUME NEW i \in 2..(Len(s) - 1)
               PROVE  /\ s2[i].pos < Len(entBody[s2[i].ent])
                      /\ entBody[s2[i].ent][s2[i].pos + 1]
                           = CallItem(s2[i].mode, s2[i + 1].mode, s2[i + 1].ent)
    BY <1>1 DEF Calls
  <2>1. /\ s2[i] = s[i] /\ s2[i + 1].mode = s[i + 1].mode /\ s2[i + 1].ent = s[i + 1].ent
    <3>1. i \in 1..(Len(s) - 1) /\ (i + 1 \in 1..(Len(s) - 1) \/ i + 1 = Len(s))
      BY <1>1
    <3> QED BY <1>1, <3>1 DEF Advanced
  <2> QED BY <2>1 DEF LoopFree, Calls
<1> QED BY <1>2, <1>3 DEF LoopFree

(* ... a call does ...                                                     *)
LEMMA CallRead ==
  ASSUME NEW D, NEW s, WellStack(s), LoopFree(s, D), NEW s2, NEW e \in Ents \ Unread, NEW mode,
         Called(s, s2, e, mode),
         Len(s) = 1 \/ /\ s[Len(s)].pos < Len(entBody[s[Len(s)].ent])
                       /\ entBody[s[Len(s)].ent][s[Len(s)].pos + 1]
                            = CallItem(s[Len(s)].mode, mode, e),
         \A x \in Ents : Len(entBody[x]) \in Nat
  PROVE  LoopFree(s2, D)
<1>1. Len(s2) = Len(s) + 1 /\ Len(s) \in Nat \ {0} /\ \A i \in 1..Len(s) : s2[i] = s[i]
  BY DEF Called, WellStack
<1>2. /\ s2[Len(s) + 1].ent = e /\ s2[Len(s) + 1].mode = mode /\ s2[Len(s) + 1].pos = 0
      /\ Len(entBody[e]) \in Nat
  BY DEF Called
<1>3. FramesRead(s2, D)
  <2> SUFFICES ASSUME NEW i \in 2..(Len(s) + 1)
               PROVE  /\ s2[i].ent \in Ents \ Unread
                      /\ s2[i].pos <= Len(entBody[s2[i].ent])
                      /\ \A k \in 1..s2[i].pos, f \in Ents :
                           Names(entBody[s2[i].ent][k], f) => f \in D \cup Unread
    BY <1>1 DEF FramesRead
  <2>1. CASE i \in 2..Len(s)
    <3>1. s2[i] = s[i]
      BY <1>1, <2>1
    <3> QED BY <2>1, <3>1 DEF LoopFree, FramesRead
  <2>2. CASE i = Len(s) + 1
    BY <1>1, <1>2, <2>2
  <2> QED BY <1>1, <2>1, <2>2
<1>4. Calls(s2)
  <2> SUFFICES ASSUME NEW i \in 2..Len(s)
               PROVE  /\ s2[i].pos < Len(entBody[s2[i].ent])
                      /\ entBody[s2[i].ent][s2[i].pos + 1]
                           = CallItem(s2[i].mode, s2[i + 1].mode, s2[i + 1].ent)
    BY <1>1 DEF Calls
  <2>1. CASE i = Len(s)
    <3>1. s2[i] = s[i] /\ Len(s) # 1
      BY <1>1, <2>1
    <3> QED BY <1>1, <1>2, <2>1, <3>1
  <2>2. CASE i \in 2..(Len(s) - 1)
    <3>1. s2[i] = s[i] /\ s2[i + 1] = s[i + 1]
      BY <1>1, <2>2
    <3> QED BY <2>2, <3>1 DEF LoopFree, Calls
  <2> QED BY <1>1, <2>1, <2>2
<1> QED BY <1>3, <1>4 DEF LoopFree

(* The call of e ends, and s2 remains.                                     *)
Ends(s, s2, e) ==
  Returned(s, s2) /\ e = s[Len(s)].ent /\ s[Len(s)].pos = Len(entBody[e])

(* ... and a call that ends adds its entity to D.                          *)
LEMMA ReturnRead ==
  ASSUME NEW D, NEW s, WellStack(s), LoopFree(s, D), NEW s2, NEW e, Ends(s, s2, e)
  PROVE  /\ e \in Ents \ Unread /\ LoopFree(s2, D \cup {e})
         /\ Len(s2) # 1 =>
              /\ s[Len(s) - 1].pos < Len(entBody[s[Len(s) - 1].ent])
              /\ entBody[s[Len(s) - 1].ent][s[Len(s) - 1].pos + 1]
                   = CallItem(s[Len(s) - 1].mode, s[Len(s)].mode, e)
<1>1. /\ Len(s2) = Len(s) - 1 /\ Len(s) \in Nat \ {0} /\ Len(s) > 1
      /\ \A i \in 1..(Len(s) - 1) : s2[i] = s[i]
  BY DEF Ends, Returned, WellStack
<1>00. e = s[Len(s)].ent /\ s[Len(s)].pos = Len(entBody[e])
  BY DEF Ends
<1>2. /\ e \in Ents \ Unread
      /\ \A k \in 1..Len(entBody[e]), f \in Ents :
           Names(entBody[e][k], f) => f \in D \cup Unread
  <2>1. Len(s) \in 2..Len(s)
    BY <1>1
  <2> QED BY <1>00, <2>1 DEF LoopFree, FramesRead
<1>3. Mentions(e) \subseteq D \cup Unread
  BY <1>2 DEF Mentions, Names
<1>4. Explored(D \cup {e})
  BY <1>2, <1>3, ExploredMore DEF LoopFree
<1>5. FramesRead(s2, D \cup {e})
  <2> SUFFICES ASSUME NEW i \in 2..(Len(s) - 1)
               PROVE  /\ s2[i].ent \in Ents \ Unread
                      /\ s2[i].pos <= Len(entBody[s2[i].ent])
                      /\ \A k \in 1..s2[i].pos, f \in Ents :
                           Names(entBody[s2[i].ent][k], f) => f \in (D \cup {e}) \cup Unread
    BY <1>1 DEF FramesRead
  <2>1. s2[i] = s[i] /\ i \in 2..Len(s)
    BY <1>1
  <2> QED BY <2>1 DEF LoopFree, FramesRead
<1>6. Calls(s2)
  <2> SUFFICES ASSUME NEW i \in 2..(Len(s) - 2)
               PROVE  /\ s2[i].pos < Len(entBody[s2[i].ent])
                      /\ entBody[s2[i].ent][s2[i].pos + 1]
                           = CallItem(s2[i].mode, s2[i + 1].mode, s2[i + 1].ent)
    BY <1>1 DEF Calls
  <2>1. s2[i] = s[i] /\ s2[i + 1] = s[i + 1] /\ i \in 2..(Len(s) - 1)
    BY <1>1
  <2> QED BY <2>1 DEF LoopFree, Calls
<1>7. ASSUME Len(s2) # 1
      PROVE  /\ s[Len(s) - 1].pos < Len(entBody[s[Len(s) - 1].ent])
             /\ entBody[s[Len(s) - 1].ent][s[Len(s) - 1].pos + 1]
                  = CallItem(s[Len(s) - 1].mode, s[Len(s)].mode, e)
  <2>1. Len(s) - 1 \in 2..(Len(s) - 1) /\ (Len(s) - 1) + 1 = Len(s)
    BY <1>1, <1>7
  <2> QED BY <1>00, <2>1 DEF LoopFree, Calls
<1> QED BY <1>2, <1>4, <1>5, <1>6, <1>7 DEF LoopFree

-----------------------------------------------------------------------------
(* What entities cost: the characters one expansion of them delivers.      *)

(* The price of a whole entity: what one expansion of it delivers.         *)
Whole(P, f) == P[f][Len(entBody[f])]

(* c is the price of an item.  The price of a reference is that of the     *)
(* entity where it is expanded, and an element counts one.                 *)
Charged(P, item, c) ==
  /\ item = <<"char">> => c = 1
  /\ \A f \in Ents : item = <<"ref", f>> =>
       c = IF (entReplace \/ ~entTree) /\ f \notin Unread THEN Whole(P, f) ELSE 0
  /\ \A f \in Ents : item = <<"att", f>> =>
       c = IF entReplace THEN Whole(P, f) + 1 ELSE 1

(* P[e][n] is the price of the first n items of e.                         *)
Prices == [Ents -> [Nat -> Nat]]

(* The first n items of e have their prices.                               *)
Priced(P, e, n) == \A k \in 1..n : Charged(P, entBody[e][k], P[e][k] - P[e][k - 1])

(* Calls have delivered the price of what they read; the size that         *)
(* xmlCheckEntityInAttValue adds up covers the price of the whole text.    *)
Costs(s, D, P) ==
  /\ P \in Prices /\ \A e \in Ents : P[e][0] = 0
  /\ \A e \in D : Priced(P, e, Len(entBody[e]))
  /\ \A i \in 2..Len(s) :
       /\ Priced(P, s[i].ent, s[i].pos)
       /\ s[i].mode # "check" => s[i].text = P[s[i].ent][s[i].pos]
       /\ s[i].mode = "expand" => entReplace
       /\ s[i].mode = "check" =>
            /\ ~entReplace
            /\ P[s[i].ent][s[i].pos] + Len(entBody[s[i].ent]) - s[i].pos <= s[i].size

(* The recorded sizes cover the prices, and what is recorded of a parsed   *)
(* entity is its price.                                                    *)
Known(flags, size, yield, P) ==
  \A e \in Ents : /\ "parsed" \in flags[e] => yield[e] = Whole(P, e)
                  /\ "parsed" \notin flags[e] => yield[e] = 0
                  /\ "checked" \in flags[e] => Whole(P, e) <= size[e]

(* P2 is P with the price of the item after pos in e.                      *)
Extends(P, P2, D, e, pos, c) ==
  /\ P2 \in Prices
  /\ \A f \in Ents : f # e => P2[f] = P[f]
  /\ \A k \in 0..pos : P2[e][k] = P[e][k]
  /\ P2[e][pos + 1] = P[e][pos] + c
  /\ e \in D => P2 = P

(* An item of a replacement text.                                          *)
Usual(item) == item = <<"char">> \/ \E f \in Ents : Names(item, f)

(* The kinds of items differ.                                              *)
LEMMA OneKind ==
  ASSUME NEW f, NEW g
  PROVE  /\ <<"char">> # <<"ref", f>> /\ <<"char">> # <<"att", f>> /\ <<"ref", f>> # <<"att", g>>
         /\ (<<"ref", f>> = <<"ref", g>> => f = g) /\ (<<"att", f>> = <<"att", g>> => f = g)
OBVIOUS

(* An item has one price ...                                               *)
LEMMA ChargedOnce ==
  ASSUME NEW P, NEW item, NEW c, NEW d, Usual(item), Charged(P, item, c), Charged(P, item, d)
  PROVE  c = d
<1>1. CASE item = <<"char">>
  BY <1>1 DEF Charged
<1>2. ASSUME NEW f \in Ents, Names(item, f) PROVE c = d
  <2>1. CASE item = <<"ref", f>>
    BY <2>1 DEF Charged
  <2>2. CASE item = <<"att", f>>
    BY <2>2 DEF Charged
  <2> QED BY <1>2, <2>1, <2>2 DEF Names
<1> QED BY <1>1, <1>2 DEF Usual

(* ... which depends on the entities it refers to only.                    *)
LEMMA ChargedSame ==
  ASSUME NEW P, NEW P2, NEW D, \A f \in D : P2[f] = P[f], NEW item, NEW c, Charged(P, item, c),
         \A f \in Ents : Names(item, f) => f \in D \cup Unread
  PROVE  Charged(P2, item, c)
<1>1. \A f \in D : Whole(P2, f) = Whole(P, f)
  BY DEF Whole
<1>2. \A f \in Unread : ~entReplace
  BY DEF Unread, Readable
<1>3. \A f \in Ents : item = <<"ref", f>> \/ item = <<"att", f>> => f \in D \/ f \in Unread
  BY DEF Names
<1> QED BY <1>1, <1>2, <1>3 DEF Charged

(* The prices can be extended by the item a call moves over; for an entity *)
(* in D it has its price already.                                          *)
LEMMA Extended ==
  ASSUME NEW P \in Prices, NEW D, \A f \in D : Priced(P, f, Len(entBody[f])),
         NEW e \in Ents, NEW pos \in Nat, Len(entBody[e]) \in Nat, pos < Len(entBody[e]),
         NEW c \in Nat, Usual(entBody[e][pos + 1]), Charged(P, entBody[e][pos + 1], c)
  PROVE  \E P2 : Extends(P, P2, D, e, pos, c)
<1> DEFINE q0 == P[e]
<1>00. q0 \in [Nat -> Nat]
  BY DEF Prices
<1> HIDE DEF q0
<1>0. q0[pos] \in Nat /\ q0[pos + 1] \in Nat
  BY <1>00
<1>1. CASE e \in D
  <2>1. pos + 1 \in 1..Len(entBody[e]) /\ (pos + 1) - 1 = pos
    OBVIOUS
  <2>2. Charged(P, entBody[e][pos + 1], P[e][pos + 1] - P[e][pos])
    BY <1>1, <2>1 DEF Priced
  <2>3. c = P[e][pos + 1] - P[e][pos]
    BY <2>2, ChargedOnce
  <2>4. c = q0[pos + 1] - q0[pos]
    BY <2>3 DEF q0
  <2>5. q0[pos + 1] = q0[pos] + c
    BY <1>0, <2>4
  <2> QED BY <2>5 DEF Extends, q0
<1>2. CASE e \notin D
  <2> DEFINE q == [q0 EXCEPT ![pos + 1] = q0[pos] + c]
             P2 == [P EXCEPT ![e] = q]
  <2>1. q \in [Nat -> Nat] /\ q[pos + 1] = q0[pos] + c /\ \A k \in 0..pos : q[k] = q0[k]
    <3>1. q0[pos] + c \in Nat /\ pos + 1 \in Nat
      BY <1>0
    <3>2. q \in [Nat -> Nat] /\ q[pos + 1] = q0[pos] + c
      BY <1>00, <3>1
    <3>3. \A k \in 0..pos : k \in Nat /\ k # pos + 1
      OBVIOUS
    <3> QED BY <1>00, <3>2, <3>3
  <2> HIDE DEF q
  <2>2. P2 \in Prices /\ P2[e] = q /\ \A f \in Ents : f # e => P2[f] = P[f]
    BY <2>1 DEF Prices
  <2> HIDE DEF P2
  <2>3. Extends(P, P2, D, e, pos, c)
    BY <1>2, <2>1, <2>2 DEF Extends, q0
  <2> QED BY <2>3
<1> QED BY <1>1, <1>2

(* The extension leaves the prices of checked entities alone.              *)
LEMMA KnownExtended ==
  ASSUME NEW P, NEW P2, NEW D, NEW e, NEW pos, NEW c, Extends(P, P2, D, e, pos, c),
         NEW flags, NEW size, NEW yield, Known(flags, size, yield, P), FlagsDone(flags, D)
  PROVE  Known(flags, size, yield, P2)
<1>1. ASSUME NEW x \in Ents, "checked" \in flags[x] PROVE Whole(P2, x) = Whole(P, x)
  <2>1. x \in D
    BY <1>1 DEF FlagsDone
  <2>2. P2[x] = P[x]
    BY <2>1 DEF Extends
  <2> QED BY <2>2 DEF Whole
<1>2. \A x \in Ents : "parsed" \in flags[x] => "checked" \in flags[x]
  BY DEF FlagsDone
<1> QED BY <1>1, <1>2 DEF Known

(* The facts that an advance of the innermost call rests on.               *)
CanAdvance(s, D, P, e, pos, c) ==
  /\ WellStack(s) /\ LoopFree(s, D) /\ Costs(s, D, P) /\ Len(s) > 1
  /\ e = s[Len(s)].ent /\ pos = s[Len(s)].pos /\ pos < Len(entBody[e])
  /\ Charged(P, entBody[e][pos + 1], c) /\ c \in Nat
  /\ \A f \in Ents : Names(entBody[e][pos + 1], f) => f \in D \cup Unread

(* The size of a check covers the next item too.                           *)
LEMMA CheckedOn ==
  ASSUME NEW a \in Nat, NEW c \in Nat, NEW len \in Nat, NEW pos \in Nat, NEW size \in Nat,
         NEW z \in Nat, a + len - pos <= size, c <= z + 1
  PROVE  (a + c) + len - (pos + 1) <= size + z
OBVIOUS

(* A move of the innermost call delivers the price of the item.            *)
LEMMA AdvanceCosts ==
  ASSUME NEW D, NEW s, NEW P, NEW P2, NEW e, NEW pos, NEW c, CanAdvance(s, D, P, e, pos, c),
         Extends(P, P2, D, e, pos, c), NEW s2, NEW t, NEW z \in Nat, Advanced(s, s2, t, z),
         s[Len(s)].mode # "check" => t = c, s[Len(s)].mode = "check" => c <= z + 1,
         \A x \in Ents : Len(entBody[x]) \in Nat
  PROVE  Costs(s2, D, P2)
<1>0. /\ Len(s2) = Len(s) /\ Len(s) \in Nat \ {0} /\ Len(s) > 1
      /\ \A i \in 1..Len(s) : s[i] \in EntFrames /\ s[i].pos \in Nat /\ s[i].text \in Nat
                              /\ s[i].size \in Nat
      /\ \A i \in 2..Len(s) : s[i].ent \in Ents
      /\ e \in Ents /\ pos \in Nat /\ c \in Nat /\ P \in Prices
  <2>1. Len(s) \in Nat \ {0} /\ Len(s) > 1 /\ WellStack(s) /\ c \in Nat /\ P \in Prices
    BY DEF CanAdvance, WellStack, Costs
  <2>2. \A i \in 1..Len(s) : s[i] \in EntFrames /\ s[i].pos \in Nat /\ s[i].text \in Nat
                              /\ s[i].size \in Nat
    BY <2>1 DEF WellStack, EntFrames
  <2>3. \A i \in 2..Len(s) : s[i].ent \in Ents
    BY <2>1, SMTT(60) DEF WellStack, EntFrames
  <2>4. e = s[Len(s)].ent /\ pos = s[Len(s)].pos /\ Len(s) \in 2..Len(s)
    BY <2>1 DEF CanAdvance
  <2> QED BY <2>1, <2>2, <2>3, <2>4 DEF Advanced
<1>1. /\ \A i \in 1..(Len(s) - 1) : s2[i] = s[i]
      /\ s2[Len(s)].ent = e /\ s2[Len(s)].mode = s[Len(s)].mode /\ s2[Len(s)].pos = pos + 1
      /\ s2[Len(s)].text = s[Len(s)].text + t /\ s2[Len(s)].size = s[Len(s)].size + z
  BY DEF Advanced, CanAdvance
<1>2. \A f \in D : P2[f] = P[f]
  BY DEF Extends, CanAdvance, LoopFree, Explored
<1>3. ASSUME NEW x \in Ents, NEW n \in Nat, Priced(P, x, n), x # e \/ n <= pos \/ e \in D,
             n <= Len(entBody[x]),
             \A k \in 1..n, f \in Ents : Names(entBody[x][k], f) => f \in D \cup Unread
      PROVE  Priced(P2, x, n)
  <2> SUFFICES ASSUME NEW k \in 1..n
               PROVE  Charged(P2, entBody[x][k], P2[x][k] - P2[x][k - 1])
    BY DEF Priced
  <2>1. Charged(P, entBody[x][k], P[x][k] - P[x][k - 1])
    BY <1>3 DEF Priced
  <2>2. P2[x][k] = P[x][k] /\ P2[x][k - 1] = P[x][k - 1]
    <3>1. CASE x # e \/ e \in D
      BY <3>1 DEF Extends
    <3>2. CASE x = e /\ n <= pos
      <4>1. k \in 0..pos /\ k - 1 \in 0..pos
        BY <1>0, <3>2
      <4> QED BY <3>2, <4>1 DEF Extends
    <3> QED BY <1>3, <3>1, <3>2
  <2> QED BY <1>2, <1>3, <2>1, <2>2, ChargedSame
<1>4. ASSUME NEW x \in D PROVE Priced(P2, x, Len(entBody[x]))
  <2>1. x \in Ents /\ Priced(P, x, Len(entBody[x])) /\ Len(entBody[x]) \in Nat
    BY DEF CanAdvance, LoopFree, Explored, Costs
  <2>2. x # e \/ e \in D
    OBVIOUS
  <2>3. \A k \in 1..Len(entBody[x]), f \in Ents : Names(entBody[x][k], f) => f \in D \cup Unread
    <3>1. Mentions(x) \subseteq D \cup Unread
      BY DEF CanAdvance, LoopFree, Explored
    <3> QED BY <3>1 DEF Mentions, Names
  <2> QED BY <1>3, <2>1, <2>2, <2>3
<1>5. \A x \in Ents : P2[x][0] = 0
  <2>1. \A x \in Ents : P[x][0] = 0
    BY DEF CanAdvance, Costs
  <2>2. 0 \in 0..pos
    BY <1>0
  <2> QED BY <2>1, <2>2 DEF Extends
<1>6. ASSUME NEW i \in 2..Len(s)
      PROVE  /\ Priced(P, s[i].ent, s[i].pos) /\ s[i].pos <= Len(entBody[s[i].ent])
             /\ \A k \in 1..s[i].pos, f \in Ents :
                  Names(entBody[s[i].ent][k], f) => f \in D \cup Unread
  BY DEF CanAdvance, LoopFree, FramesRead, Costs
<1>7. ASSUME NEW i \in 2..Len(s), i # Len(s)
      PROVE  /\ Priced(P2, s2[i].ent, s2[i].pos)
             /\ s2[i].mode # "check" => s2[i].text = P2[s2[i].ent][s2[i].pos]
             /\ s2[i].mode = "expand" => entReplace
             /\ s2[i].mode = "check" =>
                  /\ ~entReplace
                  /\ P2[s2[i].ent][s2[i].pos] + Len(entBody[s2[i].ent]) - s2[i].pos
                       <= s2[i].size
  <2>1. i \in 1..(Len(s) - 1) /\ i \in 1..Len(s) /\ Len(s) \in 1..Len(s)
    BY <1>0, <1>7
  <2>2. s2[i] = s[i] /\ s[i].ent \in Ents /\ s[i].pos \in Nat
    BY <1>0, <1>1, <2>1
  <2>3. s[i].ent # e
    BY <1>7, <2>1 DEF CanAdvance, WellStack
  <2>4. Priced(P2, s[i].ent, s[i].pos) /\ P2[s[i].ent] = P[s[i].ent]
    BY <1>3, <1>6, <2>2, <2>3 DEF Extends
  <2> QED BY <2>2, <2>4 DEF CanAdvance, Costs
<1>8. LET i == Len(s)
      IN  /\ Priced(P2, s2[i].ent, s2[i].pos)
          /\ s2[i].mode # "check" => s2[i].text = P2[s2[i].ent][s2[i].pos]
          /\ s2[i].mode = "expand" => entReplace
          /\ s2[i].mode = "check" =>
               /\ ~entReplace
               /\ P2[s2[i].ent][s2[i].pos] + Len(entBody[s2[i].ent]) - s2[i].pos <= s2[i].size
  <2> DEFINE i == Len(s)
  <2>1. /\ i \in 2..Len(s) /\ s[i].ent = e /\ s[i].pos = pos /\ pos < Len(entBody[e])
        /\ s[i].text \in Nat /\ s[i].size \in Nat /\ Len(entBody[e]) \in Nat
        /\ s2[i].ent = e /\ s2[i].pos = pos + 1 /\ s2[i].mode = s[i].mode
        /\ s2[i].text = s[i].text + t /\ s2[i].size = s[i].size + z
    BY <1>0, <1>1, SMTT(60) DEF CanAdvance
  <2>2. /\ s[i].mode # "check" => s[i].text = P[e][pos]
        /\ s[i].mode = "expand" => entReplace
        /\ s[i].mode = "check" => /\ ~entReplace
                                  /\ P[e][pos] + Len(entBody[e]) - pos <= s[i].size
    BY <2>1 DEF CanAdvance, Costs
  <2>3. s[i].mode # "check" => t = c
    OBVIOUS
  <2>4. s[i].mode = "check" => c <= z + 1
    OBVIOUS
  <2> HIDE DEF i
  <2>5. P2[e][pos + 1] = P[e][pos] + c /\ P[e][pos] \in Nat
    BY <1>0 DEF Extends, Prices
  <2>6. Priced(P2, e, pos + 1)
    <3>1. Priced(P2, e, pos)
      <4>1. /\ Priced(P, e, pos) /\ pos <= Len(entBody[e])
            /\ \A k \in 1..pos, f \in Ents : Names(entBody[e][k], f) => f \in D \cup Unread
        BY <1>6, <2>1
      <4>2. pos <= pos
        BY <1>0
      <4> QED BY <1>0, <1>3, <4>1, <4>2
    <3>2. Charged(P2, entBody[e][pos + 1], P2[e][pos + 1] - P2[e][pos])
      <4>1. P2[e][pos] = P[e][pos]
        BY <1>0 DEF Extends
      <4>2. P2[e][pos + 1] - P2[e][pos] = c
        BY <1>0, <2>5, <4>1
      <4>3. Charged(P2, entBody[e][pos + 1], c)
        <5> DEFINE item == entBody[e][pos + 1]
        <5>1. Charged(P, item, c) /\ \A f \in Ents : Names(item, f) => f \in D \cup Unread
          BY DEF CanAdvance
        <5> HIDE DEF item
        <5>2. Charged(P2, item, c)
          BY <1>2, <5>1, ChargedSame
        <5> QED BY <5>2 DEF item
      <4> QED BY <4>2, <4>3
    <3> SUFFICES ASSUME NEW k \in 1..(pos + 1)
                 PROVE  Charged(P2, entBody[e][k], P2[e][k] - P2[e][k - 1])
      BY DEF Priced
    <3>3. k \in 1..pos \/ (k = pos + 1 /\ k - 1 = pos)
      BY <1>0
    <3> QED BY <3>1, <3>2, <3>3 DEF Priced
  <2>7. s[i].mode # "check" => s2[i].text = P2[e][pos + 1]
    BY <2>1, <2>2, <2>3, <2>5
  <2>8. s[i].mode = "check" => P2[e][pos + 1] + Len(entBody[e]) - (pos + 1) <= s2[i].size
    <3> SUFFICES ASSUME s[i].mode = "check"
                 PROVE  P2[e][pos + 1] + Len(entBody[e]) - (pos + 1) <= s2[i].size
      OBVIOUS
    <3>1. z \in Nat /\ c \in Nat /\ pos \in Nat /\ Len(entBody[e]) \in Nat /\ s[i].size \in Nat
      BY <1>0, <2>1
    <3>2. P[e][pos] + Len(entBody[e]) - pos <= s[i].size /\ c <= z + 1 /\ P[e][pos] \in Nat
      BY <2>2, <2>4, <2>5
    <3>3. (P[e][pos] + c) + Len(entBody[e]) - (pos + 1) <= s[i].size + z
      BY <3>1, <3>2, CheckedOn
    <3>4. P2[e][pos + 1] = P[e][pos] + c /\ s2[i].size = s[i].size + z
      BY <2>1, <2>5
    <3> QED BY <3>3, <3>4
  <2> QED BY <2>1, <2>2, <2>6, <2>7, <2>8 DEF i
<1>9. P2 \in Prices
  BY DEF Extends
<1> QED BY <1>0, <1>4, <1>5, <1>7, <1>8, <1>9 DEF Costs

(* The document's own items have no price.                                 *)
LEMMA DocCosts ==
  ASSUME NEW s, NEW s2, NEW D, NEW P, Costs(s, D, P), Len(s) = 1, Len(s2) = 1
  PROVE  Costs(s2, D, P)
BY DEF Costs

(* A call has delivered nothing yet.                                       *)
LEMMA CallCosts ==
  ASSUME NEW D, NEW s, NEW P, WellStack(s), Costs(s, D, P), NEW s2, NEW e \in Ents, NEW mode,
         Called(s, s2, e, mode), mode = "expand" => entReplace, mode = "check" => ~entReplace,
         \A x \in Ents : Len(entBody[x]) \in Nat
  PROVE  Costs(s2, D, P)
<1>1. Len(s2) = Len(s) + 1 /\ Len(s) \in Nat \ {0} /\ \A i \in 1..Len(s) : s2[i] = s[i]
  BY DEF Called, WellStack
<1>2. /\ s2[Len(s) + 1].ent = e /\ s2[Len(s) + 1].mode = mode /\ s2[Len(s) + 1].pos = 0
      /\ s2[Len(s) + 1].text = 0 /\ (mode = "check" => s2[Len(s) + 1].size = Len(entBody[e]))
      /\ Len(entBody[e]) \in Nat /\ P[e][0] = 0
  BY DEF Called, Costs
<1>3. Priced(P, e, 0)
  BY DEF Priced
<1>4. ASSUME NEW i \in 2..(Len(s) + 1)
      PROVE  /\ Priced(P, s2[i].ent, s2[i].pos)
             /\ s2[i].mode # "check" => s2[i].text = P[s2[i].ent][s2[i].pos]
             /\ s2[i].mode = "expand" => entReplace
             /\ s2[i].mode = "check" =>
                  /\ ~entReplace
                  /\ P[s2[i].ent][s2[i].pos] + Len(entBody[s2[i].ent]) - s2[i].pos
                       <= s2[i].size
  <2>1. CASE i \in 2..Len(s)
    <3>1. s2[i] = s[i]
      BY <1>1, <2>1
    <3> QED BY <2>1, <3>1 DEF Costs
  <2>2. CASE i = Len(s) + 1
    BY <1>2, <1>3, <2>2
  <2> QED BY <1>1, <2>1, <2>2
<1> QED BY <1>1, <1>4 DEF Costs

(* A call that ends has priced its entity.                                 *)
LEMMA ReturnCosts ==
  ASSUME NEW D, NEW s, NEW P, WellStack(s), Costs(s, D, P), NEW s2, Returned(s, s2),
         NEW e, e = s[Len(s)].ent, s[Len(s)].pos = Len(entBody[e])
  PROVE  Costs(s2, D \cup {e}, P)
<1>1. /\ Len(s2) = Len(s) - 1 /\ Len(s) \in Nat \ {0} /\ Len(s) > 1
      /\ \A i \in 1..(Len(s) - 1) : s2[i] = s[i]
  BY DEF Returned, WellStack
<1>2. Priced(P, e, Len(entBody[e]))
  <2>1. Len(s) \in 2..Len(s)
    BY <1>1
  <2> QED BY <2>1 DEF Costs
<1>3. ASSUME NEW i \in 2..(Len(s) - 1) PROVE s2[i] = s[i] /\ i \in 2..Len(s)
  BY <1>1
<1> QED BY <1>1, <1>2, <1>3 DEF Costs

-----------------------------------------------------------------------------
(* The counters: ctxt->sizeentcopy and ent->expandedSize.                  *)

(* The position of ctxt->input on a stack of calls.                        *)
IsInput(s, b) ==
  /\ b \in 1..Len(s) /\ s[b].mode = "content"
  /\ \A i \in 1..Len(s) : s[i].mode = "content" => i <= b

(* There is an input: the document is one.                                 *)
LEMMA InputExists ==
  ASSUME NEW s, WellStack(s)
  PROVE  \E b : IsInput(s, b)
<1> DEFINE Over == {n \in Nat : \A i \in 1..Len(s) : s[i].mode = "content" => i <= n}
<1>1. Len(s) \in Nat \ {0} /\ s[1].mode = "content"
  BY DEF WellStack
<1>2. Len(s) \in Over
  BY <1>1
<1>3. PICK b \in Over : \A n \in Over : b <= n
  <2>1. Over \in SUBSET Nat
    OBVIOUS
  <2> HIDE DEF Over
  <2> QED BY <1>2, <2>1, LeastNat
<1>4. b \in Nat /\ (\A i \in 1..Len(s) : s[i].mode = "content" => i <= b) /\ b >= 1 /\ b <= Len(s)
  BY <1>1, <1>2, <1>3
<1>5. s[b].mode = "content"
  <2> SUFFICES ASSUME s[b].mode # "content" PROVE FALSE
    OBVIOUS
  <2>1. b - 1 \in Over
    BY <1>1, <1>4
  <2> QED BY <1>3, <1>4, <2>1
<1> QED BY <1>1, <1>4, <1>5 DEF IsInput

(* It is the one that the check uses.                                      *)
LEMMA InputIs ==
  ASSUME NEW s, Len(s) \in Nat, NEW b, IsInput(s, b)
  PROVE  InputOf(s) = s[b]
<1> DEFINE inputs == {i \in 1..Len(s) : s[i].mode = "content"}
           k == CHOOSE i \in inputs : \A j \in inputs : j <= i
<1>1. b \in inputs /\ \A j \in inputs : j <= b
  BY DEF IsInput
<1>2. k \in inputs /\ \A j \in inputs : j <= k
  BY <1>1
<1>3. k = b
  <2>1. k \in Nat /\ b \in Nat /\ k <= b /\ b <= k
    BY <1>1, <1>2, SMTT(60)
  <2> HIDE DEF k
  <2> QED BY <2>1
<1>4. InputOf(s) = s[k]
  BY DEF InputOf
<1> HIDE DEF k
<1> QED BY <1>3, <1>4

(* A move does not change which call is the input.                         *)
LEMMA InputAdvanced ==
  ASSUME NEW s, Len(s) \in Nat \ {0}, NEW x, NEW t, NEW z, Advanced(s, x, t, z), NEW b, IsInput(s, b)
  PROVE  /\ IsInput(x, b) /\ x[b].ent = s[b].ent /\ Len(x) \in Nat
         /\ x[b].pos = IF b = Len(s) THEN s[b].pos + 1 ELSE s[b].pos
<1>1. \A i \in 1..Len(s) : x[i].mode = s[i].mode /\ x[i].ent = s[i].ent
  <2> SUFFICES ASSUME NEW i \in 1..Len(s) PROVE x[i].mode = s[i].mode /\ x[i].ent = s[i].ent
    OBVIOUS
  <2>1. CASE i = Len(s)
    BY <2>1 DEF Advanced
  <2>2. CASE i \in 1..(Len(s) - 1)
    BY <2>2 DEF Advanced
  <2> QED BY <2>1, <2>2
<1>2. Len(x) = Len(s) /\ b \in 1..Len(s)
  BY DEF Advanced, IsInput
<1>3. x[b].pos = IF b = Len(s) THEN s[b].pos + 1 ELSE s[b].pos
  <2>1. CASE b = Len(s)
    BY <2>1 DEF Advanced
  <2>2. CASE b \in 1..(Len(s) - 1) /\ b # Len(s)
    BY <2>2 DEF Advanced
  <2> QED BY <1>2, <2>1, <2>2
<1> QED BY <1>1, <1>2, <1>3 DEF IsInput

(* The counters after a check in the input of e.                           *)
Accounted(e, flags, extra, copy, size) ==
  /\ e = EntDoc => copy = entCopy + extra + EntFixed /\ size = entSize
  /\ e # EntDoc => copy = entCopy
  /\ e # EntDoc /\ "checked" \in flags[e] => size = entSize
  /\ e # EntDoc /\ "checked" \notin flags[e] =>
       size = [entSize EXCEPT ![e] = entSize[e] + extra + EntFixed]

(* xmlParserEntityCheck accounts in the input, and it is the limit of the  *)
(* document that it enforces there.                                        *)
LEMMA CheckIs ==
  ASSUME NEW x, Len(x) \in Nat, NEW b, IsInput(x, b), NEW e, e = x[b].ent, NEW flags, NEW extra,
         NEW loaded
  PROVE  LET k == EntityCheck(x, flags, extra, loaded)
         IN  /\ Accounted(e, flags, extra, k.copy, k.size)
             /\ e = EntDoc => (k.bad <=> OverLimit(k.copy, x[b].pos + loaded + EntPrologue))
<1>1. InputOf(x) = x[b]
  BY InputIs
<1>2. CASE e = EntDoc
  BY <1>1, <1>2 DEF EntityCheck, Accounted, Consumed
<1>3. CASE e # EntDoc
  BY <1>1, <1>3 DEF EntityCheck, Accounted
<1> QED BY <1>2, <1>3

-----------------------------------------------------------------------------
(* What expanded values may still deliver.                                 *)
Pend(s, B, i) == IF i < Len(s) /\ s[i + 1].mode = "expand" THEN B[i + 1] ELSE 0

(* What was delivered and what expanded values may still deliver is within *)
(* the counters.  B[i] bounds what the expansion at i will deliver in all: *)
(* the code accounts for its text when it begins (parser.c:3824).          *)
Budget(s, flags, size, copy, B) ==
  /\ B \in [Nat -> Nat]
  /\ s[1].text + Pend(s, B, 1) <= copy
  /\ \A i \in 2..Len(s) :
       /\ s[i].mode = "expand" =>
            s[i].text + (Len(entBody[s[i].ent]) - s[i].pos) + Pend(s, B, i) <= B[i]
       /\ s[i].mode = "content" /\ "checked" \notin flags[s[i].ent] =>
            s[i].text + Pend(s, B, i) <= size[s[i].ent] + s[i].pos

(* The call at d moves on by one item and is the innermost one.            *)
Moves(s, s2, d, t) ==
  /\ d \in Nat \ {0} /\ (d = Len(s) \/ d = Len(s) - 1) /\ Len(s2) = d
  /\ \A i \in 1..(d - 1) : s2[i] = s[i]
  /\ s2[d].ent = s[d].ent /\ s2[d].mode = s[d].mode /\ s2[d].pos = s[d].pos + 1
  /\ s2[d].text = s[d].text + t

(* The delivered text is paid for, by the counters or by what was pending. *)
Paid(s, flags2, size, copy, size2, copy2, d, t, r) ==
  /\ d = 1 => t + copy <= copy2 + r
  /\ d > 1 /\ s[d].mode = "expand" => t <= r + 1
  /\ d > 1 /\ s[d].mode = "content" /\ "checked" \notin flags2[s[d].ent] =>
       t + size[s[d].ent] <= size2[s[d].ent] + 1 + r

(* Sizes of entities that are not checked only grow.                       *)
Grows(flags, flags2, size, size2) ==
  \A x \in Ents : /\ "checked" \in flags[x] => "checked" \in flags2[x]
                  /\ "checked" \notin flags2[x] => size[x] <= size2[x]

(* What is pending is a number.                                            *)
LEMMA PendType ==
  ASSUME NEW s, NEW B \in [Nat -> Nat], NEW i \in Nat
  PROVE  Pend(s, B, i) \in Nat
BY SMTT(60) DEF Pend

(* The text so far, the rest of the value and what is pending fit into b.  *)
Fits(text, len, pos, r, b) == text + (len - pos) + r <= b

(* Moving over an item of an expanded value ...                            *)
LEMMA ExpandOn ==
  ASSUME NEW text \in Nat, NEW len \in Nat, NEW pos \in Nat, NEW r \in Nat, NEW t \in Nat,
         NEW b \in Nat, Fits(text, len, pos, r, b), t <= r + 1,
         NEW text2, text2 = text + t, NEW pos2, pos2 = pos + 1
  PROVE  Fits(text2, len, pos2, 0, b)
BY DEF Fits

(* ... and over an item of parsed content.                                 *)
LEMMA ContentOn ==
  ASSUME NEW text \in Nat, NEW size \in Nat, NEW size2 \in Nat, NEW pos \in Nat, NEW r \in Nat,
         NEW t \in Nat, text + r <= size + pos, t + size <= size2 + 1 + r
  PROVE  (text + t) + 0 <= size2 + (pos + 1)
OBVIOUS

(* A paid move keeps the budget.                                           *)
LEMMA BudgetMoves ==
  ASSUME NEW s, WellStack(s), NEW flags, NEW size \in [Ents -> Nat], NEW copy \in Nat, NEW B,
         Budget(s, flags, size, copy, B), NEW flags2, NEW size2 \in [Ents -> Nat],
         NEW copy2 \in Nat, copy <= copy2, Grows(flags, flags2, size, size2),
         NEW s2, NEW d, NEW t \in Nat, Moves(s, s2, d, t), NEW r, r = Pend(s, B, d),
         Paid(s, flags2, size, copy, size2, copy2, d, t, r),
         \A x \in Ents : Len(entBody[x]) \in Nat
  PROVE  Budget(s2, flags2, size2, copy2, B)
<1>n. Len(s) \in Nat \ {0}
  BY DEF WellStack
<1>d. d \in Nat \ {0} /\ d \in 1..Len(s)
  BY <1>n DEF Moves
<1>b. B \in [Nat -> Nat]
  BY DEF Budget
<1>t. \A i \in 1..Len(s) : s[i].text \in Nat /\ s[i].pos \in Nat
  BY DEF WellStack, EntFrames
<1>e. \A i \in 2..Len(s) : s[i].ent \in Ents
  BY <1>n, SMTT(60) DEF WellStack, EntFrames
<1>1. /\ Len(s2) = d /\ (\A i \in 1..(d - 1) : s2[i] = s[i])
      /\ s2[d].ent = s[d].ent /\ s2[d].mode = s[d].mode /\ s2[d].pos = s[d].pos + 1
      /\ s2[d].text = s[d].text + t
  BY DEF Moves
<1>2. Pend(s2, B, d) = 0 /\ r \in Nat
  BY <1>n, <1>d, <1>b, <1>1, PendType DEF Pend
<1>3. \A i \in 1..(d - 1) : Pend(s2, B, i) = Pend(s, B, i) /\ Pend(s, B, i) \in Nat
  <2> SUFFICES ASSUME NEW i \in 1..(d - 1)
               PROVE  Pend(s2, B, i) = Pend(s, B, i) /\ Pend(s, B, i) \in Nat
    OBVIOUS
  <2>1. i < Len(s2) /\ i < Len(s) /\ s2[i + 1].mode = s[i + 1].mode
    <3>1. i + 1 = d \/ i + 1 \in 1..(d - 1)
      BY <1>d
    <3> QED BY <1>n, <1>d, <1>1, <3>1
  <2>2. i \in Nat
    BY <1>d
  <2> QED BY <1>b, <2>1, <2>2, PendType DEF Pend
<1>4. s2[1].text + Pend(s2, B, 1) <= copy2
  <2>0. s[1].text + Pend(s, B, 1) <= copy
    BY DEF Budget
  <2>00. s[1].text \in Nat
    BY <1>n, <1>t
  <2>1. CASE d = 1
    <3>1. t + copy <= copy2 + r
      BY <2>1 DEF Paid
    <3> QED BY <1>1, <1>2, <2>0, <2>00, <2>1, <3>1, SMTT(60)
  <2>2. CASE d # 1
    <3>1. s2[1] = s[1] /\ Pend(s2, B, 1) = Pend(s, B, 1) /\ Pend(s, B, 1) \in Nat
      BY <1>d, <1>1, <1>3, <2>2
    <3> QED BY <2>0, <2>00, <3>1
  <2> QED BY <2>1, <2>2
<1>5. ASSUME NEW i \in 2..d
      PROVE  /\ s2[i].mode = "expand" =>
                  s2[i].text + (Len(entBody[s2[i].ent]) - s2[i].pos) + Pend(s2, B, i) <= B[i]
             /\ s2[i].mode = "content" /\ "checked" \notin flags2[s2[i].ent] =>
                  s2[i].text + Pend(s2, B, i) <= size2[s2[i].ent] + s2[i].pos
  <2>0. /\ i \in 2..Len(s) /\ i \in Nat /\ B[i] \in Nat
        /\ s[i].text \in Nat /\ s[i].pos \in Nat /\ s[i].ent \in Ents
        /\ Len(entBody[s[i].ent]) \in Nat
        /\ size[s[i].ent] \in Nat /\ size2[s[i].ent] \in Nat
    <3>1. i \in 2..Len(s) /\ i \in 1..Len(s) /\ i \in Nat
      BY <1>n, <1>d
    <3>2. s[i].text \in Nat /\ s[i].pos \in Nat /\ s[i].ent \in Ents
      BY <1>t, <1>e, <3>1
    <3> QED BY <1>b, <3>1, <3>2
  <2>1. /\ s[i].mode = "expand" =>
             s[i].text + (Len(entBody[s[i].ent]) - s[i].pos) + Pend(s, B, i) <= B[i]
        /\ s[i].mode = "content" /\ "checked" \notin flags[s[i].ent] =>
             s[i].text + Pend(s, B, i) <= size[s[i].ent] + s[i].pos
    BY <2>0 DEF Budget
  <2>2. /\ "checked" \notin flags2[s[i].ent] =>
             "checked" \notin flags[s[i].ent] /\ size[s[i].ent] <= size2[s[i].ent]
    BY <2>0 DEF Grows
  <2>3. CASE i < d
    <3>1. s2[i] = s[i] /\ Pend(s2, B, i) = Pend(s, B, i) /\ Pend(s, B, i) \in Nat
      BY <1>d, <1>1, <1>3, <2>3
    <3> QED BY <2>0, <2>1, <2>2, <3>1, SMTT(60)
  <2>4. CASE i = d
    <3>1. /\ s2[i].ent = s[i].ent /\ s2[i].mode = s[i].mode /\ s2[i].pos = s[i].pos + 1
          /\ s2[i].text = s[i].text + t /\ Pend(s2, B, i) = 0 /\ Pend(s, B, i) = r /\ r \in Nat
      BY <1>1, <1>2, <2>4
    <3>2. CASE s[i].mode = "expand"
      <4>1. t <= r + 1
        BY <1>d, <2>4, <3>2 DEF Paid
      <4>2. Fits(s[i].text, Len(entBody[s[i].ent]), s[i].pos, r, B[i])
        BY <2>1, <3>1, <3>2 DEF Fits
      <4>3. Fits(s2[i].text, Len(entBody[s[i].ent]), s2[i].pos, 0, B[i])
        BY <2>0, <3>1, <4>1, <4>2, ExpandOn
      <4> QED BY <3>1, <3>2, <4>3 DEF Fits
    <3>3. CASE s[i].mode = "content" /\ "checked" \notin flags2[s[i].ent]
      <4>1. t + size[s[i].ent] <= size2[s[i].ent] + 1 + r
        BY <1>d, <2>4, <3>3 DEF Paid
      <4>2. s[i].text + r <= size[s[i].ent] + s[i].pos
        BY <2>1, <2>2, <3>1, <3>3
      <4>3. (s[i].text + t) + 0 <= size2[s[i].ent] + (s[i].pos + 1)
        BY <2>0, <3>1, <4>1, <4>2, ContentOn
      <4> QED BY <3>1, <3>3, <4>3
    <3> QED BY <3>1, <3>2, <3>3
  <2> QED BY <1>d, <2>3, <2>4
<1> QED BY <1>b, <1>1, <1>4, <1>5 DEF Budget

(* A call that expands no value keeps it.                                  *)
LEMMA BudgetCalls ==
  ASSUME NEW s, WellStack(s), NEW flags, NEW size \in [Ents -> Nat], NEW copy \in Nat, NEW B,
         Budget(s, flags, size, copy, B), NEW flags2, Grows(flags, flags2, size, size),
         NEW s2, NEW e \in Ents, NEW mode, mode # "expand", Called(s, s2, e, mode)
  PROVE  Budget(s2, flags2, size, copy, B)
<1>0. Len(s) \in Nat \ {0}
  BY DEF WellStack
<1>e. \A i \in 2..Len(s) : s[i].ent \in Ents
  BY <1>0, SMTT(60) DEF WellStack, EntFrames
<1>b. B \in [Nat -> Nat]
  BY DEF Budget
<1>1. /\ Len(s2) = Len(s) + 1 /\ (\A i \in 1..Len(s) : s2[i] = s[i])
      /\ s2[Len(s) + 1].ent = e /\ s2[Len(s) + 1].mode = mode
      /\ s2[Len(s) + 1].pos = 0 /\ s2[Len(s) + 1].text = 0
  BY DEF Called
<1>2. \A i \in 1..Len(s) : Pend(s2, B, i) = Pend(s, B, i)
  <2> SUFFICES ASSUME NEW i \in 1..Len(s) PROVE Pend(s2, B, i) = Pend(s, B, i)
    OBVIOUS
  <2>1. CASE i = Len(s)
    BY <1>0, <1>1, <2>1 DEF Pend
  <2>2. CASE i # Len(s)
    <3>1. i < Len(s) /\ i < Len(s2) /\ s2[i + 1] = s[i + 1]
      BY <1>0, <1>1, <2>2
    <3> QED BY <3>1 DEF Pend
  <2> QED BY <2>1, <2>2
<1>3. Pend(s2, B, Len(s) + 1) = 0
  BY <1>0, <1>1 DEF Pend
<1>4. s2[1].text + Pend(s2, B, 1) <= copy
  <2>1. s2[1] = s[1] /\ Pend(s2, B, 1) = Pend(s, B, 1)
    BY <1>0, <1>1, <1>2
  <2> QED BY <2>1 DEF Budget
<1>5. ASSUME NEW i \in 2..(Len(s) + 1)
      PROVE  /\ s2[i].mode = "expand" =>
                  s2[i].text + (Len(entBody[s2[i].ent]) - s2[i].pos) + Pend(s2, B, i) <= B[i]
             /\ s2[i].mode = "content" /\ "checked" \notin flags2[s2[i].ent] =>
                  s2[i].text + Pend(s2, B, i) <= size[s2[i].ent] + s2[i].pos
  <2>1. CASE i = Len(s) + 1
    <3>1. size[e] \in Nat
      OBVIOUS
    <3> QED BY <1>1, <1>3, <2>1, <3>1
  <2>2. CASE i \in 2..Len(s)
    <3>1. s2[i] = s[i] /\ Pend(s2, B, i) = Pend(s, B, i) /\ s[i].ent \in Ents
      BY <1>0, <1>1, <1>2, <1>e, <2>2
    <3>2. "checked" \notin flags2[s[i].ent] => "checked" \notin flags[s[i].ent]
      BY <3>1 DEF Grows
    <3> QED BY <2>2, <3>1, <3>2 DEF Budget
  <2> QED BY <1>0, <2>1, <2>2
<1> QED BY <1>b, <1>1, <1>4, <1>5 DEF Budget

(* A value of length len is added to what the calls above the input may    *)
(* still deliver.                                                          *)
Raised(B, b, n, len) ==
  [j \in Nat |-> IF j = n THEN len ELSE IF j > b THEN B[j] + len ELSE B[j]]

(* More may be pending when as much is added to the bound ...              *)
LEMMA FitsMore ==
  ASSUME NEW text \in Nat, NEW len \in Nat, NEW pos \in Nat, NEW r \in Nat, NEW b \in Nat,
         NEW more \in Nat, Fits(text, len, pos, r, b), NEW r2, r2 = r + more, NEW b2, b2 = b + more
  PROVE  Fits(text, len, pos, r2, b2)
BY DEF Fits

(* ... or to the size that the check raised.                               *)
LEMMA RaisedOn ==
  ASSUME NEW text \in Nat, NEW p \in Nat, NEW len \in Nat, NEW size \in Nat, NEW pos \in Nat,
         text + p <= size + pos, NEW size2, NEW fixed \in Nat, size2 = size + len + fixed
  PROVE  text + (p + len) <= size2 + pos
OBVIOUS

(* The facts that the expansion of a value rests on.                       *)
CanExpand(s, flags, B, flags2, size, copy, b, e, s2, len) ==
  /\ EntTypeOK /\ WellStack(s) /\ Budget(s, flags, entSize, entCopy, B)
  /\ size \in [Ents -> Nat] /\ copy \in Nat
  /\ IsInput(s, b) /\ (\A i \in (b + 1)..Len(s) : s[i].mode = "expand")
  /\ e \in Ents /\ Called(s, s2, e, "expand") /\ len \in Nat /\ len = Len(entBody[e])
  /\ Accounted(s[b].ent, flags, len, copy, size)
  /\ \A x \in Ents : "checked" \in flags[x] <=> "checked" \in flags2[x]
  /\ \A x \in Ents : Len(entBody[x]) \in Nat

(* The expansion of a value is accounted for when it begins, by a check in *)
(* the input; every call between them may then deliver more.               *)
LEMMA BudgetExpands ==
  ASSUME NEW s, NEW flags, NEW B, NEW flags2, NEW size, NEW copy, NEW b, NEW e, NEW s2, NEW len,
         CanExpand(s, flags, B, flags2, size, copy, b, e, s2, len)
  PROVE  Budget(s2, flags2, size, copy, Raised(B, b, Len(s) + 1, len))
<1> DEFINE n == Len(s)
           C == Raised(B, b, n + 1, len)
<1>w. WellStack(s) /\ EntTypeOK /\ IsInput(s, b)
  BY DEF CanExpand
<1>n. n \in Nat \ {0} /\ s[1].ent = EntDoc
  BY <1>w DEF WellStack
<1>t. \A i \in 1..n : s[i].text \in Nat /\ s[i].pos \in Nat
  BY <1>w DEF WellStack, EntFrames
<1>e. \A i \in 2..n : s[i].ent \in Ents /\ s[i].ent # EntDoc
  <2>1. \A i \in 2..n : i \in 1..n /\ i # 1
    BY <1>n
  <2> QED BY <1>w, <2>1 DEF WellStack, EntFrames
<1>b. b \in 1..n /\ b \in Nat \ {0} /\ s[b].mode = "content"
  BY <1>n, <1>w DEF IsInput
<1>f. EntFixed \in Nat /\ entCopy \in Nat /\ entSize \in [Ents -> Nat]
  BY <1>w, EntAssumption DEF EntTypeOK
<1>l. len \in Nat /\ copy \in Nat /\ e \in Ents
  BY DEF CanExpand
<1>s. size \in [Ents -> Nat]
  BY DEF CanExpand
<1>m. len = Len(entBody[e]) /\ \A x \in Ents : Len(entBody[x]) \in Nat
  BY DEF CanExpand
<1>a. Accounted(s[b].ent, flags, len, copy, size)
  BY DEF CanExpand
<1>c. \A x \in Ents : "checked" \in flags[x] <=> "checked" \in flags2[x]
  BY DEF CanExpand
<1>x. \A i \in (b + 1)..n : s[i].mode = "expand"
  BY DEF CanExpand
<1>B. B \in [Nat -> Nat]
  BY DEF CanExpand, Budget
<1>1. /\ Len(s2) = n + 1 /\ (\A i \in 1..n : s2[i] = s[i])
      /\ s2[n + 1].ent = e /\ s2[n + 1].mode = "expand"
      /\ s2[n + 1].pos = 0 /\ s2[n + 1].text = 0
  BY DEF CanExpand, Called
<1> HIDE DEF n
<1>2. /\ C \in [Nat -> Nat] /\ C[n + 1] = len
      /\ \A j \in Nat : j <= b => C[j] = B[j]
      /\ \A j \in Nat : j > b /\ j <= n => C[j] = B[j] + len
  <2>1. \A j \in Nat : B[j] \in Nat /\ B[j] + len \in Nat
    BY <1>B, <1>l
  <2>2. C \in [Nat -> Nat]
    <3>1. \A j \in Nat : (IF j = n + 1 THEN len ELSE IF j > b THEN B[j] + len ELSE B[j]) \in Nat
      BY <1>l, <2>1
    <3> QED BY <3>1, Zenon DEF C, Raised
  <2>3. n + 1 \in Nat /\ b <= n
    BY <1>n, <1>b
  <2>4. \A j \in Nat : C[j] = IF j = n + 1 THEN len ELSE IF j > b THEN B[j] + len ELSE B[j]
    BY DEF Raised
  <2> HIDE DEF C
  <2> QED BY <1>n, <1>b, <2>2, <2>3, <2>4
<1> HIDE DEF C
<1>3. \A i \in 1..n : Pend(s, B, i) \in Nat
  <2>1. \A i \in 1..n : i \in Nat
    BY <1>n
  <2> QED BY <1>B, <2>1, PendType
<1>4. \A i \in 1..n : i < b => Pend(s2, C, i) = Pend(s, B, i)
  <2> SUFFICES ASSUME NEW i \in 1..n, i < b PROVE Pend(s2, C, i) = Pend(s, B, i)
    OBVIOUS
  <2>1. i < Len(s2) /\ i < Len(s) /\ s2[i + 1] = s[i + 1] /\ i + 1 \in Nat /\ i + 1 <= b
    BY <1>n, <1>b, <1>1 DEF n
  <2>2. C[i + 1] = B[i + 1]
    BY <1>2, <2>1
  <2> QED BY <2>1, <2>2 DEF Pend
<1>5. \A i \in 1..n : i >= b => Pend(s2, C, i) = Pend(s, B, i) + len
  <2> SUFFICES ASSUME NEW i \in 1..n, i >= b PROVE Pend(s2, C, i) = Pend(s, B, i) + len
    OBVIOUS
  <2>1. CASE i = n
    <3>0. n \in Nat /\ Len(s) = n
      BY <1>n DEF n
    <3>1. i < Len(s2) /\ ~(i < Len(s)) /\ s2[i + 1].mode = "expand" /\ C[i + 1] = len
      <4>1. i + 1 = n + 1
        BY <2>1
      <4>2. s2[i + 1].mode = "expand" /\ C[i + 1] = len
        BY <1>1, <1>2, <4>1
      <4>3. n < n + 1 /\ ~(n < n)
        BY <3>0
      <4> QED BY <1>1, <2>1, <3>0, <4>2, <4>3
    <3>2. Pend(s2, C, i) = len /\ Pend(s, B, i) = 0
      BY <3>1 DEF Pend
    <3> QED BY <1>l, <3>2
  <2>2. CASE i # n
    <3>1. /\ i < Len(s2) /\ i < Len(s) /\ s2[i + 1] = s[i + 1] /\ i + 1 \in Nat
          /\ i + 1 > b /\ i + 1 <= n /\ i + 1 \in (b + 1)..n
      BY <1>n, <1>b, <1>1, <2>2 DEF n
    <3>2. C[i + 1] = B[i + 1] + len /\ s[i + 1].mode = "expand"
      BY <1>2, <1>x, <3>1
    <3>3. Pend(s2, C, i) = C[i + 1] /\ Pend(s, B, i) = B[i + 1]
      BY <3>1, <3>2 DEF Pend
    <3> HIDE DEF C
    <3> QED BY ONLY <3>2, <3>3, Zenon
  <2> QED BY <2>1, <2>2
<1>6. s2[1].text + Pend(s2, C, 1) <= copy
  <2>1. s[1].text + Pend(s, B, 1) <= entCopy
    BY DEF CanExpand, Budget
  <2>2. s2[1] = s[1] /\ s[1].text \in Nat /\ Pend(s, B, 1) \in Nat /\ 1 \in 1..n
    BY <1>n, <1>t, <1>1, <1>3
  <2>3. CASE b = 1
    <3>1. copy = entCopy + len + EntFixed
      BY <1>n, <1>a, <2>3 DEF Accounted
    <3>2. Pend(s2, C, 1) = Pend(s, B, 1) + len
      BY <1>5, <2>2, <2>3
    <3> QED BY <1>f, <1>l, <2>1, <2>2, <3>1, <3>2
  <2>4. CASE b # 1
    <3>1. b \in 2..n /\ 1 < b
      BY <1>n, <1>b, <2>4
    <3>2. s[b].ent # EntDoc
      BY <1>e, <3>1
    <3>3. copy = entCopy
      BY <1>a, <3>2 DEF Accounted
    <3>4. Pend(s2, C, 1) = Pend(s, B, 1)
      BY <1>4, <2>2, <3>1
    <3> QED BY <2>1, <2>2, <3>3, <3>4
  <2> QED BY <2>3, <2>4
<1>7. \A x \in Ents : entSize[x] <= size[x]
  <2> SUFFICES ASSUME NEW x \in Ents PROVE entSize[x] <= size[x]
    OBVIOUS
  <2>1. entSize[x] \in Nat
    BY <1>f
  <2>2. CASE size = entSize
    BY <2>1, <2>2
  <2>3. CASE size = [entSize EXCEPT ![s[b].ent] = entSize[s[b].ent] + len + EntFixed]
    BY <1>f, <1>l, <2>1, <2>3
  <2> QED BY <1>a, <2>2, <2>3 DEF Accounted
<1>8. ASSUME NEW i \in 2..(n + 1)
      PROVE  /\ s2[i].mode = "expand" =>
                  s2[i].text + (Len(entBody[s2[i].ent]) - s2[i].pos) + Pend(s2, C, i) <= C[i]
             /\ s2[i].mode = "content" /\ "checked" \notin flags2[s2[i].ent] =>
                  s2[i].text + Pend(s2, C, i) <= size[s2[i].ent] + s2[i].pos
  <2>1. CASE i = n + 1
    <3>1. Pend(s2, C, i) = 0
      BY <1>n, <1>1, <2>1 DEF Pend
    <3>2. Fits(0, len, 0, 0, len)
      BY <1>l DEF Fits
    <3>3. /\ s2[i].mode = "expand" /\ s2[i].text = 0 /\ s2[i].pos = 0 /\ C[i] = len
          /\ Len(entBody[s2[i].ent]) = len
      BY <1>1, <1>2, <1>m, <2>1
    <3>4. Fits(s2[i].text, Len(entBody[s2[i].ent]), s2[i].pos, Pend(s2, C, i), C[i])
      BY <3>1, <3>2, <3>3
    <3> QED BY <3>3, <3>4 DEF Fits
  <2>2. CASE i \in 2..n
    <3>1. /\ i \in 1..n /\ i \in Nat /\ s2[i] = s[i] /\ s[i].ent \in Ents
          /\ s[i].text \in Nat /\ s[i].pos \in Nat
      BY <1>n, <1>t, <1>e, <1>1, <2>2
    <3>2. Pend(s, B, i) \in Nat /\ Len(entBody[s[i].ent]) \in Nat /\ B[i] \in Nat
      BY <1>3, <1>B, <1>m, <3>1
    <3>3. /\ entSize[s[i].ent] \in Nat /\ size[s[i].ent] \in Nat
          /\ entSize[s[i].ent] <= size[s[i].ent]
      BY <1>7, <1>f, <1>s, <3>1
    <3>4. /\ s[i].mode = "expand" =>
               s[i].text + (Len(entBody[s[i].ent]) - s[i].pos) + Pend(s, B, i) <= B[i]
          /\ s[i].mode = "content" /\ "checked" \notin flags[s[i].ent] =>
               s[i].text + Pend(s, B, i) <= entSize[s[i].ent] + s[i].pos
      BY <2>2 DEF CanExpand, Budget, n
    <3>5. "checked" \notin flags2[s[i].ent] => "checked" \notin flags[s[i].ent]
      BY <1>c, <3>1
    <3>6. CASE i < b
      <4>1. Pend(s2, C, i) = Pend(s, B, i) /\ C[i] = B[i]
        BY <1>2, <1>4, <1>b, <3>1, <3>6
      <4> QED BY <3>1, <3>2, <3>3, <3>4, <3>5, <4>1, SMTT(60)
    <3>7. CASE i > b
      <4>1. Pend(s2, C, i) = Pend(s, B, i) + len /\ C[i] = B[i] + len
        BY <1>2, <1>5, <1>b, <3>1, <3>7
      <4>2. s[i].mode = "expand"
        BY <1>b, <1>n, <1>x, <2>2, <3>7
      <4>3. Fits(s[i].text, Len(entBody[s[i].ent]), s[i].pos, Pend(s, B, i), B[i])
        BY <3>4, <4>2 DEF Fits
      <4>4. Fits(s[i].text, Len(entBody[s[i].ent]), s[i].pos, Pend(s2, C, i), C[i])
        BY <1>l, <3>1, <3>2, <4>1, <4>3, FitsMore
      <4> QED BY <3>1, <4>2, <4>4 DEF Fits
    <3>8. CASE i = b
      <4>1. Pend(s2, C, i) = Pend(s, B, i) + len
        BY <1>5, <1>b, <3>1, <3>8
      <4>2. s[i].mode = "content" /\ s[i].ent # EntDoc
        BY <1>b, <1>e, <2>2, <3>8
      <4>3. "checked" \notin flags[s[i].ent] =>
              size[s[i].ent] = entSize[s[i].ent] + len + EntFixed
        BY <1>a, <1>f, <3>1, <3>8, <4>2 DEF Accounted
      <4>4. SUFFICES ASSUME "checked" \notin flags2[s[i].ent]
                     PROVE  s[i].text + (Pend(s, B, i) + len) <= size[s[i].ent] + s[i].pos
        BY <3>1, <4>1, <4>2
      <4>5. s[i].text + Pend(s, B, i) <= entSize[s[i].ent] + s[i].pos
        BY <3>4, <3>5, <4>2, <4>4
      <4>6. size[s[i].ent] = entSize[s[i].ent] + len + EntFixed
        BY <3>5, <4>3, <4>4
      <4> QED BY <1>f, <1>l, <3>1, <3>2, <3>3, <4>5, <4>6, RaisedOn
    <3> QED BY <1>b, <3>1, <3>6, <3>7, <3>8
  <2> QED BY <1>n, <2>1, <2>2
<1> QED BY <1>1, <1>2, <1>6, <1>8 DEF Budget, C, n

-----------------------------------------------------------------------------
(* The limit on what entities deliver into the document.                   *)
Reached(s) == IF Len(s) > 1 THEN s[1].pos + 1 ELSE s[1].pos

Limit(s, copy, loaded) == ~OverLimit(copy, Reached(s) + loaded + EntPrologue)

(* The limit is not exceeded later when it was not before ...              *)
LEMMA LimitLater ==
  ASSUME NEW copy \in Nat, NEW a \in Nat, NEW b \in Nat, a <= b, ~OverLimit(copy, a)
  PROVE  ~OverLimit(copy, b)
<1>1. EntMaxAmpl \in Nat \ {0} /\ EntAllowed \in Nat
  BY EntAssumption
<1>2. copy \div EntMaxAmpl \in Int
  BY <1>1
<1> QED BY <1>1, <1>2 DEF OverLimit

(* ... and it bounds the text.                                             *)
LEMMA LimitText ==
  ASSUME NEW copy \in Nat, NEW a \in Nat, NEW text \in Nat, text <= copy, ~OverLimit(copy, a)
  PROVE  text <= EntAllowed \/ text <= EntMaxAmpl * (a + 1)
<1>1. EntMaxAmpl \in Nat \ {0} /\ EntAllowed \in Nat
  BY EntAssumption
<1> DEFINE q == copy \div EntMaxAmpl
<1>2. q \in Nat /\ copy < EntMaxAmpl * (q + 1)
  <2>1. copy = EntMaxAmpl * q + (copy % EntMaxAmpl) /\ copy % EntMaxAmpl \in 0..(EntMaxAmpl - 1)
        /\ q \in Nat
    BY <1>1
  <2> HIDE DEF q
  <2>2. EntMaxAmpl * (q + 1) = EntMaxAmpl * q + EntMaxAmpl
    BY <1>1, <2>1
  <2> QED BY <1>1, <2>1, <2>2
<1>3. copy <= EntAllowed \/ q <= a
  BY <1>1, <1>2 DEF OverLimit
<1> HIDE DEF q
<1>4. ASSUME q <= a PROVE EntMaxAmpl * (q + 1) <= EntMaxAmpl * (a + 1)
  <2>1. PICK d \in Nat : a = q + d
    BY <1>2, <1>4
  <2>2. EntMaxAmpl * (a + 1) = EntMaxAmpl * (q + 1) + EntMaxAmpl * d /\ EntMaxAmpl * d \in Nat
    BY <1>1, <1>2, <2>1
  <2>3. EntMaxAmpl * (q + 1) \in Nat
    BY <1>1, <1>2
  <2> QED BY <2>2, <2>3
<1>5. EntMaxAmpl * (q + 1) \in Nat /\ EntMaxAmpl * (a + 1) \in Nat
  BY <1>1, <1>2
<1> QED BY <1>1, <1>2, <1>3, <1>4, <1>5

-----------------------------------------------------------------------------
(* The accounts of a state, and what moves do to them.                     *)

(* The accounts of a state.                                                *)
Books(D, P, B, s, flags, size, yield, copy, loaded) ==
  /\ LoopFree(s, D) /\ FlagsDone(flags, D) /\ Costs(s, D, P) /\ Known(flags, size, yield, P)
  /\ Budget(s, flags, size, copy, B) /\ Limit(s, copy, loaded)

(* The item that the innermost call moves over, and what it costs.         *)
Follows(s, D, P, item, c, t, z) ==
  /\ s[Len(s)].pos < Len(entBody[s[Len(s)].ent])
  /\ entBody[s[Len(s)].ent][s[Len(s)].pos + 1] = item
  /\ Usual(item) /\ Charged(P, item, c) /\ c \in Nat
  /\ \A f \in Ents : Names(item, f) => f \in D \cup Unread
  /\ s[Len(s)].mode # "check" => t = c
  /\ s[Len(s)].mode = "check" => c <= z + 1

(* Replacement texts are finite.                                           *)
LEMMA BodyLen ==
  ASSUME EntTypeOK
  PROVE  \A x \in Ents : Len(entBody[x]) \in Nat
BY EntAssumption DEF EntTypeOK

(* The entities of the calls above the document.                           *)
LEMMA FrameEnt ==
  ASSUME NEW s, WellStack(s), NEW i \in 1..Len(s)
  PROVE  s[i] \in EntFrames /\ (i # 1 => s[i].ent \in Ents /\ s[i].ent # EntDoc)
BY DEF WellStack, EntFrames

(* The same for the innermost call.                                        *)
LEMMA LastFrame ==
  ASSUME NEW s, WellStack(s)
  PROVE  /\ s[Len(s)] \in EntFrames /\ (Len(s) # 1 <=> Len(s) > 1)
         /\ Len(s) # 1 => s[Len(s)].ent \in Ents /\ s[Len(s)].ent # EntDoc
<1> DEFINE n == Len(s)
<1>1. n \in Nat \ {0}
  BY DEF WellStack
<1> HIDE DEF n
<1>2. n \in 1..n /\ (n # 1 <=> n > 1)
  BY <1>1
<1> QED BY <1>2, FrameEnt DEF n

(* A move extends the prices and keeps everything but the counters.        *)
LEMMA AdvanceBooks ==
  ASSUME NEW s, WellStack(s), NEW D, LoopFree(s, D), NEW P, Costs(s, D, P), NEW flags,
         FlagsDone(flags, D), NEW size, NEW yield, Known(flags, size, yield, P),
         NEW s2, NEW t, NEW z \in Nat, Advanced(s, s2, t, z), NEW item, NEW c,
         Len(s) = 1 \/ Follows(s, D, P, item, c, t, z),
         \A x \in Ents : Len(entBody[x]) \in Nat
  PROVE  \E P2 : LoopFree(s2, D) /\ Costs(s2, D, P2) /\ Known(flags, size, yield, P2)
<1>1. CASE Len(s) = 1
  <2>1. Len(s2) = 1
    BY <1>1 DEF Advanced
  <2>2. Costs(s2, D, P)
    BY <1>1, <2>1, DocCosts
  <2>3. LoopFree(s2, D)
    BY <1>1, AdvanceRead
  <2> QED BY <2>2, <2>3
<1>2. CASE Len(s) # 1
  <2> DEFINE e == s[Len(s)].ent
             pos == s[Len(s)].pos
  <2>1. Len(s) \in Nat \ {0} /\ Len(s) > 1
    <3> DEFINE n == Len(s)
    <3>1. n \in Nat \ {0} /\ n # 1
      BY <1>2 DEF WellStack
    <3> HIDE DEF n
    <3>2. n \in Nat \ {0} /\ n > 1
      BY <3>1
    <3> QED BY <3>2 DEF n
  <2>2. e \in Ents /\ pos \in Nat
    <3>1. Len(s) \in 1..Len(s) /\ Len(s) # 1
      BY <1>2, <2>1
    <3>2. s[Len(s)] \in EntFrames /\ s[Len(s)].ent # EntDoc
      BY <3>1 DEF WellStack
    <3> QED BY <3>2 DEF EntFrames
  <2>3. /\ pos < Len(entBody[e]) /\ entBody[e][pos + 1] = item /\ Usual(item)
        /\ Charged(P, item, c) /\ c \in Nat
        /\ \A f \in Ents : Names(item, f) => f \in D \cup Unread
        /\ s[Len(s)].mode # "check" => t = c
        /\ s[Len(s)].mode = "check" => c <= z + 1
    BY <1>2 DEF Follows
  <2>4. LoopFree(s2, D)
    BY <2>3, AdvanceRead
  <2>5. CanAdvance(s, D, P, e, pos, c)
    BY <2>1, <2>3 DEF CanAdvance
  <2>6. P \in Prices /\ \A f \in D : Priced(P, f, Len(entBody[f]))
    BY DEF Costs
  <2> HIDE DEF e, pos
  <2>7. PICK P2 : Extends(P, P2, D, e, pos, c)
    BY <2>2, <2>3, <2>6, Extended
  <2>8. Costs(s2, D, P2)
    BY <2>3, <2>5, <2>7, AdvanceCosts
  <2>9. Known(flags, size, yield, P2)
    BY <2>7, KnownExtended
  <2> QED BY <2>4, <2>8, <2>9
<1> QED BY <1>1, <1>2

-----------------------------------------------------------------------------
(* Checks only add to the counters.                                        *)
LEMMA AccountedMore ==
  ASSUME NEW e \in Ents \cup {EntDoc}, NEW flags, NEW extra \in Nat, NEW copy, NEW size,
         entCopy \in Nat, entSize \in [Ents -> Nat], Accounted(e, flags, extra, copy, size)
  PROVE  /\ copy \in Nat /\ entCopy <= copy /\ size \in [Ents -> Nat]
         /\ \A x \in Ents : entSize[x] <= size[x] /\ (x # e => size[x] = entSize[x])
<1>0. EntFixed \in Nat /\ EntDoc \notin Ents
  BY EntAssumption
<1>1. copy \in Nat /\ entCopy <= copy
  BY <1>0 DEF Accounted
<1>2. CASE size = entSize
  BY <1>1, <1>2
<1>3. CASE e \in Ents /\ size = [entSize EXCEPT ![e] = entSize[e] + extra + EntFixed]
  <2>1. entSize[e] \in Nat /\ entSize[e] + extra + EntFixed \in Nat
        /\ entSize[e] <= entSize[e] + extra + EntFixed
    BY <1>0, <1>3
  <2> DEFINE v == entSize[e] + extra + EntFixed
  <2>2. v \in Nat /\ entSize[e] <= v /\ size = [entSize EXCEPT ![e] = v]
    BY <1>3, <2>1
  <2> HIDE DEF v
  <2>3. size \in [Ents -> Nat] /\ size[e] = v /\ \A x \in Ents : x # e => size[x] = entSize[x]
    BY <1>3, <2>2
  <2>4. \A x \in Ents : entSize[x] <= size[x]
    BY <2>2, <2>3
  <2> QED BY <1>1, <2>3, <2>4
<1> QED BY <1>2, <1>3 DEF Accounted

(* Growing sizes cover the prices still.                                   *)
LEMMA KnownMore ==
  ASSUME NEW flags, NEW size \in [Ents -> Nat], NEW yield, NEW P \in Prices,
         Known(flags, size, yield, P), NEW size2 \in [Ents -> Nat],
         \A x \in Ents : size[x] <= size2[x], \A x \in Ents : Len(entBody[x]) \in Nat
  PROVE  Known(flags, size2, yield, P)
<1>1. ASSUME NEW x \in Ents PROVE Whole(P, x) \in Nat
  BY DEF Prices, Whole
<1>2. ASSUME NEW x \in Ents, "checked" \in flags[x] PROVE Whole(P, x) <= size2[x]
  <2>1. Whole(P, x) <= size[x]
    BY <1>2 DEF Known
  <2>2. Whole(P, x) \in Nat /\ size[x] \in Nat /\ size2[x] \in Nat /\ size[x] <= size2[x]
    BY <1>1
  <2> QED BY <2>1, <2>2
<1> QED BY <1>2 DEF Known

(* The limit holds on when the counter stays ...                           *)
LEMMA LimitKept ==
  ASSUME NEW s, NEW s2, NEW copy \in Nat, NEW loaded \in Nat, NEW loaded2 \in Nat,
         Limit(s, copy, loaded), Reached(s) \in Nat, Reached(s2) \in Nat,
         Reached(s) <= Reached(s2), loaded <= loaded2
  PROVE  Limit(s2, copy, loaded2)
<1> DEFINE a == Reached(s) + loaded + EntPrologue
           b == Reached(s2) + loaded2 + EntPrologue
<1>1. a \in Nat /\ b \in Nat /\ a <= b
  BY EntAssumption
<1>2. ~OverLimit(copy, a)
  BY DEF Limit
<1> HIDE DEF a, b
<1>3. ~OverLimit(copy, b)
  BY <1>1, <1>2, LimitLater
<1> QED BY <1>3 DEF Limit, b

(* ... and where a check has just enforced it.                             *)
LEMMA LimitSet ==
  ASSUME NEW s2, NEW pos \in Nat, NEW copy \in Nat, NEW loaded \in Nat, NEW loaded2 \in Nat,
         ~OverLimit(copy, pos + loaded + EntPrologue), Reached(s2) \in Nat,
         pos <= Reached(s2), loaded <= loaded2
  PROVE  Limit(s2, copy, loaded2)
<1> DEFINE a == pos + loaded + EntPrologue
           b == Reached(s2) + loaded2 + EntPrologue
<1>1. a \in Nat /\ b \in Nat /\ a <= b /\ ~OverLimit(copy, a)
  BY EntAssumption
<1> HIDE DEF a, b
<1>3. ~OverLimit(copy, b)
  BY <1>1, LimitLater
<1> QED BY <1>3 DEF Limit, b
-----------------------------------------------------------------------------
(* The innermost call, or the one it returns to, moves on by one item.     *)
Onwards(s, s2) == s = entStack \/ Returned(entStack, s)

(* The document is never read backwards.                                   *)
LEMMA ReachedMoves ==
  ASSUME WellStack(entStack), NEW s, NEW s2, NEW t, NEW z, Advanced(s, s2, t, z), Onwards(s, s2),
         WellStack(s)
  PROVE  /\ Reached(entStack) \in Nat /\ Reached(s2) \in Nat /\ Reached(entStack) <= Reached(s2)
         /\ Len(s) = 1 => Reached(s2) = s2[1].pos
<1>0. /\ Len(entStack) \in Nat \ {0} /\ Len(s) \in Nat \ {0} /\ entStack[1].pos \in Nat
      /\ Len(s2) = Len(s)
  <2>1. Len(entStack) \in Nat \ {0} /\ Len(s) \in Nat \ {0} /\ Len(s2) = Len(s)
    BY DEF WellStack, Advanced
  <2>2. 1 \in 1..Len(entStack)
    BY <2>1
  <2>3. entStack[1] \in EntFrames
    BY <2>2 DEF WellStack
  <2> QED BY <2>1, <2>3 DEF EntFrames
<1>1. s[1] = entStack[1] /\ (Len(s) = Len(entStack) \/ Len(s) = Len(entStack) - 1)
  <2>1. CASE s = entStack
    BY <2>1
  <2>2. CASE Returned(entStack, s)
    BY <1>0, <2>2 DEF Returned
  <2> QED BY <2>1, <2>2 DEF Onwards
<1>2. CASE Len(s) = 1
  <2>1. s2[1].pos = entStack[1].pos + 1
    BY <1>1, <1>2 DEF Advanced
  <2> QED BY <1>0, <1>1, <1>2, <2>1 DEF Reached
<1>3. CASE Len(s) # 1
  <2>1. 1 \in 1..(Len(s) - 1)
    BY <1>0, <1>3
  <2>2. s2[1] = entStack[1]
    BY <1>1, <2>1 DEF Advanced
  <2> QED BY <1>0, <1>1, <1>3, <2>2 DEF Reached
<1> QED BY <1>2, <1>3

(* A move after a return, as one step.                                     *)
LEMMA AdvancedMoves ==
  ASSUME WellStack(entStack), NEW s, NEW s2, NEW t, NEW z, Advanced(s, s2, t, z), Onwards(s, s2),
         WellStack(s)
  PROVE  Moves(entStack, s2, Len(s), t)
<1>0. Len(entStack) \in Nat \ {0} /\ Len(s) \in Nat \ {0} /\ Len(s2) = Len(s)
  BY DEF WellStack, Advanced
<1>1. /\ \A i \in 1..Len(s) : s[i] = entStack[i]
      /\ Len(s) = Len(entStack) \/ Len(s) = Len(entStack) - 1
  <2>1. CASE s = entStack
    BY <2>1
  <2>2. CASE Returned(entStack, s)
    BY <1>0, <2>2 DEF Returned
  <2> QED BY <2>1, <2>2 DEF Onwards
<1>2. s[Len(s)] = entStack[Len(s)] /\ \A i \in 1..(Len(s) - 1) : s[i] = entStack[i]
  BY <1>0, <1>1
<1> QED BY <1>0, <1>1, <1>2 DEF Moves, Advanced

(* The facts that a move rests on.                                         *)
CanMove(s, D, P, B, flags2, size2, yield2, copy2, loaded2, s2, t, z, item, c) ==
  /\ WellStack(s) /\ LoopFree(s, D) /\ Costs(s, D, P)
  /\ FlagsDone(flags2, D) /\ Known(flags2, size2, yield2, P)
  /\ Advanced(s, s2, t, z) /\ Onwards(s, s2) /\ t \in Nat /\ z \in Nat
  /\ Len(s) = 1 \/ Follows(s, D, P, item, c, t, z)
  /\ Budget(entStack, entFlags, entSize, entCopy, B)
  /\ Grows(entFlags, flags2, entSize, size2)
  /\ Paid(entStack, flags2, entSize, entCopy, size2, copy2, Len(s), t,
          Pend(entStack, B, Len(s)))
  /\ Limit(entStack, entCopy, entLoaded)
  /\ copy2 \in Nat /\ entCopy <= copy2 /\ loaded2 \in Nat /\ entLoaded <= loaded2
  /\ copy2 = entCopy \/ ~OverLimit(copy2, Reached(s2) + loaded2 + EntPrologue)

(* The accounts after a move.                                              *)
LEMMA MoveBooks ==
  ASSUME EntInv, NEW s, NEW D, NEW P, NEW B, NEW flags2, NEW size2 \in [Ents -> Nat], NEW yield2,
         NEW copy2, NEW loaded2, NEW s2, NEW t, NEW z, NEW item, NEW c,
         CanMove(s, D, P, B, flags2, size2, yield2, copy2, loaded2, s2, t, z, item, c)
  PROVE  \E P2 : Books(D, P2, B, s2, flags2, size2, yield2, copy2, loaded2)
<1> USE DEF CanMove
<1>0. /\ WellStack(entStack) /\ entCopy \in Nat /\ entLoaded \in Nat
      /\ \A x \in Ents : Len(entBody[x]) \in Nat
  BY StackWell, BodyLen DEF EntInv, EntTypeOK
<1>00. entSize \in [Ents -> Nat]
  BY DEF EntInv, EntTypeOK
<1>1. PICK P2 : LoopFree(s2, D) /\ Costs(s2, D, P2) /\ Known(flags2, size2, yield2, P2)
  BY <1>0, AdvanceBooks
<1>2. Moves(entStack, s2, Len(s), t)
  BY <1>0, AdvancedMoves
<1>3. Budget(s2, flags2, size2, copy2, B)
  BY <1>0, <1>00, <1>2, BudgetMoves
<1> HIDE DEF CanMove
<1>m. /\ WellStack(s) /\ Advanced(s, s2, t, z) /\ Onwards(s, s2)
      /\ Limit(entStack, entCopy, entLoaded)
      /\ copy2 \in Nat /\ entCopy <= copy2 /\ loaded2 \in Nat /\ entLoaded <= loaded2
      /\ copy2 = entCopy \/ ~OverLimit(copy2, Reached(s2) + loaded2 + EntPrologue)
  BY DEF CanMove
<1>4. /\ Reached(entStack) \in Nat /\ Reached(s2) \in Nat /\ Reached(entStack) <= Reached(s2)
  BY <1>0, <1>m, ReachedMoves
<1>5. Limit(s2, copy2, loaded2)
  <2>1. CASE copy2 = entCopy
    BY <1>0, <1>m, <1>4, <2>1, LimitKept
  <2>2. CASE ~OverLimit(copy2, Reached(s2) + loaded2 + EntPrologue)
    BY <1>0, <1>m, <1>4, <2>2, LimitSet
  <2> QED BY <1>m, <2>1, <2>2
<1>6. FlagsDone(flags2, D)
  BY DEF CanMove
<1> QED BY <1>1, <1>3, <1>5, <1>6 DEF Books

(* The check that a move in content makes.                                 *)
LEMMA CheckMoved ==
  ASSUME WellStack(entStack), NEW s, WellStack(s), s[Len(s)].mode = "content", NEW x, NEW t, NEW z,
         Advanced(s, x, t, z), Onwards(s, x), NEW flags, NEW extra, NEW loaded,
         ~EntityCheck(x, flags, extra, loaded).bad
  PROVE  LET k == EntityCheck(x, flags, extra, loaded)
         IN  /\ Accounted(s[Len(s)].ent, flags, extra, k.copy, k.size)
             /\ k.copy = entCopy \/ ~OverLimit(k.copy, Reached(x) + loaded + EntPrologue)
<1> DEFINE k == EntityCheck(x, flags, extra, loaded)
           n == Len(s)
<1>0. Len(s) \in Nat \ {0}
  BY DEF WellStack
<1>1. IsInput(s, Len(s))
  BY <1>0 DEF IsInput
<1>2. IsInput(x, n) /\ x[n].ent = s[n].ent /\ Len(x) \in Nat
  BY <1>0, <1>1, InputAdvanced
<1>3. /\ Accounted(s[n].ent, flags, extra, k.copy, k.size)
      /\ s[n].ent = EntDoc => (k.bad <=> OverLimit(k.copy, x[n].pos + loaded + EntPrologue))
  BY <1>2, CheckIs
<1>4. CASE n = 1
  <2>1. s[n].ent = EntDoc
    BY <1>0, <1>4 DEF WellStack
  <2>2. Reached(x) = x[1].pos
    BY <1>4, ReachedMoves
  <2>3. ~k.bad
    OBVIOUS
  <2> HIDE DEF k
  <2>4. ~OverLimit(k.copy, Reached(x) + loaded + EntPrologue)
    BY <1>3, <1>4, <2>1, <2>2, <2>3
  <2> QED BY <1>3, <2>4 DEF k
<1>5. CASE n # 1
  <2>1. s[n].ent # EntDoc
    <3>1. n \in 1..Len(s) /\ n # 1
      BY <1>0, <1>5
    <3> HIDE DEF n
    <3> QED BY <3>1 DEF WellStack
  <2> HIDE DEF k
  <2>2. k.copy = entCopy
    BY <1>3, <2>1 DEF Accounted
  <2> QED BY <1>3, <2>2 DEF k
<1> QED BY <1>4, <1>5

-----------------------------------------------------------------------------
(* One lemma for each action.                                              *)

(* The accounts of the current state ...                                   *)
Balanced(D, P, B) ==
  Books(D, P, B, entStack, entFlags, entSize, entYield, entCopy, entLoaded)

(* ... and of the next one.                                                *)
BalancedNext ==
  \E D, P, B : Books(D, P, B, entStack', entFlags', entSize', entYield', entCopy', entLoaded')

(* What the accounts and the invariant say of the stack.                   *)
LEMMA Facts ==
  ASSUME EntInv, NEW D, NEW P, NEW B, Balanced(D, P, B)
  PROVE  /\ WellStack(entStack) /\ LoopFree(entStack, D) /\ Costs(entStack, D, P)
         /\ FlagsDone(entFlags, D) /\ Known(entFlags, entSize, entYield, P)
         /\ Budget(entStack, entFlags, entSize, entCopy, B)
         /\ Limit(entStack, entCopy, entLoaded)
         /\ entCopy \in Nat /\ entLoaded \in Nat /\ Len(entStack) \in Nat \ {0}
         /\ entStack \in Seq(EntFrames) /\ entStack # <<>>
         /\ \A x \in Ents : Len(entBody[x]) \in Nat
         /\ Top \in EntFrames /\ (Depth # 1 => Top.ent \in Ents)
<1>1. WellStack(entStack) /\ EntTypeOK /\ Top \in EntFrames /\ Depth \in Nat \ {0}
  BY StackWell, StackType DEF EntInv
<1>2. Depth # 1 => Top.ent \in Ents
  <2>1. Depth \in 1..Depth
    BY <1>1
  <2> QED BY <1>1, <2>1, FrameEnt DEF Depth, Top
<1> QED BY <1>1, <1>2, BodyLen DEF Balanced, Books, WellStack, EntTypeOK

(* A character costs one.                                                  *)
LEMMA CharFollows ==
  ASSUME NEW s, NEW D, NEW P, NEW z \in Nat,
         s[Len(s)].pos < Len(entBody[s[Len(s)].ent]),
         <<"char">> = entBody[s[Len(s)].ent][s[Len(s)].pos + 1]
  PROVE  Follows(s, D, P, <<"char">>, 1, 1, z)
<1>1. Charged(P, <<"char">>, 1) /\ \A f \in Ents : ~Names(<<"char">>, f)
  BY OneKind DEF Charged, Names
<1> QED BY <1>1 DEF Follows, Usual

(* Nothing is pending above the innermost call.                            *)
LEMMA NoPend ==
  ASSUME NEW s, NEW B, Len(s) \in Nat
  PROVE  Pend(s, B, Len(s)) = 0
BY DEF Pend

(* EntText: a character in an entity delivers itself.                      *)
LEMMA TextBooks ==
  ASSUME EntInv, NEW D, NEW P, NEW B, Balanced(D, P, B), EntText
  PROVE  BalancedNext
<1> DEFINE t == IF Depth = 1 THEN 0 ELSE 1
<1>0. /\ WellStack(entStack) /\ LoopFree(entStack, D) /\ Costs(entStack, D, P)
      /\ FlagsDone(entFlags, D) /\ Known(entFlags, entSize, entYield, P)
      /\ Budget(entStack, entFlags, entSize, entCopy, B) /\ Limit(entStack, entCopy, entLoaded)
      /\ entCopy \in Nat /\ entLoaded \in Nat /\ Len(entStack) \in Nat \ {0}
      /\ entStack \in Seq(EntFrames) /\ entStack # <<>>
  BY Facts
<1>s. entSize \in [Ents -> Nat]
  BY DEF EntInv, EntTypeOK
<1>1. t \in Nat /\ t <= 1 /\ (Depth = 1 => t = 0) /\ (Depth # 1 => t = 1)
  OBVIOUS
<1> HIDE DEF t
<1>2. entStack' = Moved(entStack, t, 0)
      /\ entFlags' = entFlags /\ entSize' = entSize /\ entYield' = entYield
      /\ entCopy' = entCopy /\ entLoaded' = entLoaded
  BY DEF EntText, t
<1>3. Advanced(entStack, entStack', t, 0)
  BY <1>0, <1>1, <1>2, MovedIs
<1>4. Len(entStack) = 1 \/ Follows(entStack, D, P, <<"char">>, 1, t, 0)
  <2>1. Depth # 1 => /\ Top.pos < Len(entBody[Top.ent])
                     /\ <<"char">> = entBody[Top.ent][Top.pos + 1]
    BY DEF EntText, NextItem
  <2> QED BY <1>1, <2>1, CharFollows DEF Top, Depth
<1>5. Pend(entStack, B, Len(entStack)) = 0
  BY <1>0, NoPend
<1>6. Grows(entFlags, entFlags, entSize, entSize)
  BY <1>s DEF Grows
<1>7. Paid(entStack, entFlags, entSize, entCopy, entSize, entCopy, Len(entStack), t, 0)
  <2>1. Len(entStack) > 1 => entStack[Len(entStack)].ent \in Ents
    BY <1>0, LastFrame
  <2>2. Len(entStack) > 1 => entSize[entStack[Len(entStack)].ent] \in Nat
    BY <1>s, <2>1
  <2>3. Len(entStack) = 1 => t = 0
    BY <1>1 DEF Depth
  <2> QED BY <1>0, <1>1, <2>2, <2>3 DEF Paid
<1>8. CanMove(entStack, D, P, B, entFlags, entSize, entYield, entCopy, entLoaded,
             entStack', t, 0, <<"char">>, 1)
  BY <1>0, <1>1, <1>3, <1>4, <1>5, <1>6, <1>7 DEF CanMove, Onwards
<1>9. \E P2 : Books(D, P2, B, entStack', entFlags, entSize, entYield, entCopy, entLoaded)
  BY <1>s, <1>8, MoveBooks
<1> QED BY <1>2, <1>9 DEF BalancedNext

-----------------------------------------------------------------------------
(* References in content.                                                  *)
Refers == entReplace \/ ~entTree

(* The price of a reference in content or in a value ...                   *)
LEMMA RefCharged ==
  ASSUME NEW P, NEW e \in Ents, NEW c,
         c = IF Refers /\ e \notin Unread THEN Whole(P, e) ELSE 0
  PROVE  /\ Charged(P, <<"ref", e>>, c) /\ Usual(<<"ref", e>>)
         /\ \A f \in Ents : Names(<<"ref", e>>, f) => f = e
BY OneKind DEF Charged, Usual, Names, Refers

(* ... and of an element with a reference in an attribute.                 *)
LEMMA AttCharged ==
  ASSUME NEW P, NEW e \in Ents, NEW c, c = IF entReplace THEN Whole(P, e) + 1 ELSE 1
  PROVE  /\ Charged(P, <<"att", e>>, c) /\ Usual(<<"att", e>>)
         /\ \A f \in Ents : Names(<<"att", e>>, f) => f = e
BY OneKind DEF Charged, Usual, Names

(* Prices are numbers.                                                     *)
LEMMA WholeNat ==
  ASSUME NEW P \in Prices, NEW e \in Ents, Len(entBody[e]) \in Nat
  PROVE  Whole(P, e) \in Nat
BY DEF Prices, Whole

(* What a known entity delivers is its price and is covered by its size.   *)
LEMMA KnownDelivers ==
  ASSUME EntInv, NEW D, NEW P, NEW B, Balanced(D, P, B), NEW e \in Ents,
         ~Readable(e) \/ HasChildren(e)
  PROVE  /\ Delivers(e) = IF Refers /\ e \notin Unread THEN Whole(P, e) ELSE 0
         /\ Delivers(e) \in Nat /\ Delivers(e) <= entSize[e] /\ e \in D \cup Unread
<1>1. /\ FlagsDone(entFlags, D) /\ Known(entFlags, entSize, entYield, P)
      /\ Len(entBody[e]) \in Nat /\ P \in Prices /\ D \in SUBSET (Ents \ Unread)
      /\ entSize[e] \in Nat
  BY Facts DEF Costs, LoopFree, Explored, EntInv, EntTypeOK
<1>2. CASE ~Readable(e)
  <2>1. e \in Unread /\ ~entReplace
    BY <1>2 DEF Unread, Readable
  <2>2. "parsed" \notin entFlags[e]
    BY <1>1, <2>1 DEF FlagsDone
  <2>3. entYield[e] = 0
    BY <1>1, <2>2 DEF Known
  <2> QED BY <1>1, <2>1, <2>3 DEF Delivers
<1>3. CASE HasChildren(e)
  <2>1. "parsed" \in entFlags[e] /\ entTree
    BY <1>3 DEF HasChildren
  <2>2. "checked" \in entFlags[e] /\ e \in D /\ e \notin Unread
    BY <1>1, <2>1 DEF FlagsDone
  <2>3. entYield[e] = Whole(P, e) /\ Whole(P, e) <= entSize[e] /\ Whole(P, e) \in Nat
    BY <1>1, <2>1, <2>2, WholeNat DEF Known
  <2> QED BY <1>1, <2>1, <2>2, <2>3 DEF Delivers, Refers
<1> QED BY <1>2, <1>3

(* A check in content pays for what is within its size.                    *)
LEMMA CheckPays ==
  ASSUME WellStack(entStack), NEW s, WellStack(s), s[Len(s)] = entStack[Len(s)],
         s[Len(s)].mode = "content", NEW flags, NEW extra \in Nat, NEW copy2, NEW size2,
         Accounted(s[Len(s)].ent, flags, extra, copy2, size2), NEW t \in Nat,
         t <= extra \/ (Len(s) > 1 /\ t <= extra + 1), entCopy \in Nat, entSize \in [Ents -> Nat]
  PROVE  Paid(entStack, flags, entSize, entCopy, size2, copy2, Len(s), t, 0)
<1> DEFINE n == Len(s)
           e == s[n].ent
<1>0. n \in Nat \ {0} /\ EntFixed \in Nat
  BY EntAssumption DEF WellStack
<1>1. e = entStack[n].ent /\ entStack[n].mode = "content"
  OBVIOUS
<1>2. n = 1 => e = EntDoc
  BY <1>0 DEF WellStack
<1>3. n > 1 => e \in Ents /\ e # EntDoc
  <2>1. n \in 1..Len(s) /\ (n > 1 => n # 1)
    BY <1>0
  <2> HIDE DEF n
  <2> QED BY <2>1, FrameEnt
<1>4. Accounted(e, flags, extra, copy2, size2)
  OBVIOUS
<1>5. t <= extra \/ (n > 1 /\ t <= extra + 1)
  OBVIOUS
<1> HIDE DEF e, n
<1>6. n = 1 => t + entCopy <= copy2 + 0
  BY <1>0, <1>2, <1>4, <1>5 DEF Accounted
<1>7. n > 1 /\ "checked" \notin flags[e] => t + entSize[e] <= size2[e] + 1 + 0
  <2> SUFFICES ASSUME n > 1, "checked" \notin flags[e] PROVE t + entSize[e] <= size2[e] + 1 + 0
    OBVIOUS
  <2>1. size2 = [entSize EXCEPT ![e] = entSize[e] + extra + EntFixed]
    BY <1>3, <1>4 DEF Accounted
  <2>2. size2[e] = entSize[e] + extra + EntFixed /\ entSize[e] \in Nat
    BY <1>3, <2>1
  <2>3. t <= extra + 1
    BY <1>5
  <2> QED BY ONLY <1>0, <2>2, <2>3, t \in Nat, extra \in Nat
<1> QED BY <1>0, <1>1, <1>6, <1>7 DEF Paid, n

(* Only marks differ.                                                      *)
SameMarks(flags, flags2) ==
  \A x \in Ents : /\ "parsed" \in flags[x] <=> "parsed" \in flags2[x]
                  /\ "checked" \in flags[x] <=> "checked" \in flags2[x]

(* Marks do not matter to the accounts.                                    *)
LEMMA SameAccounts ==
  ASSUME NEW flags, NEW flags2, SameMarks(flags, flags2), NEW D, FlagsDone(flags, D),
         NEW size, NEW yield, NEW P, Known(flags, size, yield, P)
  PROVE  FlagsDone(flags2, D) /\ Known(flags2, size, yield, P)
<1>1. FlagsDone(flags2, D)
  BY DEF FlagsDone, SameMarks
<1>2. Known(flags2, size, yield, P)
  BY DEF Known, SameMarks
<1> QED BY <1>1, <1>2

(* A call begins: the document has an item in progress.                    *)
LEMMA ReachedCalls ==
  ASSUME NEW s, WellStack(s), NEW s2, NEW e, NEW mode, Called(s, s2, e, mode)
  PROVE  /\ Reached(s) \in Nat /\ Reached(s2) \in Nat /\ Reached(s) <= Reached(s2)
         /\ Reached(s2) = s[1].pos + 1 /\ s[1].pos \in Nat
<1> DEFINE n == Len(s)
<1>1. n \in Nat \ {0} /\ Len(s2) = n + 1 /\ \A i \in 1..n : s2[i] = s[i]
  BY DEF WellStack, Called
<1> HIDE DEF n
<1>2. 1 \in 1..n /\ n + 1 > 1
  BY <1>1
<1>3. s2[1] = s[1] /\ s[1].pos \in Nat
  BY <1>1, <1>2, FrameEnt DEF EntFrames, n
<1> QED BY <1>1, <1>2, <1>3 DEF Reached, n

(* The item that a call follows.                                           *)
CallsItem(s, mode, e) ==
  \/ Len(s) = 1
  \/ /\ s[Len(s)].pos < Len(entBody[s[Len(s)].ent])
     /\ entBody[s[Len(s)].ent][s[Len(s)].pos + 1] = CallItem(s[Len(s)].mode, mode, e)

(* The accounts after a call that expands no value.                        *)
LEMMA CallBooks ==
  ASSUME EntInv, NEW D, NEW P, NEW B, Balanced(D, P, B), NEW e \in Ents \ Unread,
         NEW mode \in {"content", "check"}, mode = "check" => ~entReplace, NEW s2,
         s2 = Append(entStack, Frame(e, mode)), CallsItem(entStack, mode, e), NEW flags2,
         SameMarks(entFlags, flags2)
  PROVE  Books(D, P, B, s2, flags2, entSize, entYield, entCopy, entLoaded)
<1>0. /\ WellStack(entStack) /\ LoopFree(entStack, D) /\ Costs(entStack, D, P)
      /\ FlagsDone(entFlags, D) /\ Known(entFlags, entSize, entYield, P)
      /\ Budget(entStack, entFlags, entSize, entCopy, B) /\ Limit(entStack, entCopy, entLoaded)
      /\ entCopy \in Nat /\ entLoaded \in Nat
      /\ \A x \in Ents : Len(entBody[x]) \in Nat
  BY Facts
<1>s. entSize \in [Ents -> Nat]
  BY DEF EntInv, EntTypeOK
<1>1. Called(entStack, s2, e, mode)
  BY PushedIs DEF EntInv, Modes
<1>2. LoopFree(s2, D)
  BY <1>0, <1>1, CallRead DEF CallsItem
<1>3. Costs(s2, D, P)
  BY <1>0, <1>1, CallCosts
<1>4. FlagsDone(flags2, D) /\ Known(flags2, entSize, entYield, P)
  BY <1>0, SameAccounts
<1>5. Grows(entFlags, flags2, entSize, entSize)
  BY <1>s DEF SameMarks, Grows
<1>6. Budget(s2, flags2, entSize, entCopy, B)
  BY <1>0, <1>s, <1>1, <1>5, BudgetCalls
<1>7. Limit(s2, entCopy, entLoaded)
  <2>1. Reached(entStack) \in Nat /\ Reached(s2) \in Nat /\ Reached(entStack) <= Reached(s2)
    BY <1>0, <1>1, ReachedCalls
  <2> QED BY <1>0, <2>1, LimitKept
<1> QED BY <1>2, <1>3, <1>4, <1>6, <1>7 DEF Books

(* RefParse: the content of an entity is parsed.                           *)
LEMMA RefParseBooks ==
  ASSUME EntInv, NEW D, NEW P, NEW B, Balanced(D, P, B), NEW e \in Ents, RefParse(e), Running'
  PROVE  BalancedNext
<1>1. e \in Ents \ Unread /\ Top.mode = "content" /\ NextItem(<<"ref", e>>)
  BY DEF RefParse, Unread
<1>2. /\ entStack' = Append(entStack, Frame(e, "content"))
      /\ entFlags' = [entFlags EXCEPT ![e] = @ \cup {"expanding"}]
      /\ entSize' = entSize /\ entCopy' = entCopy /\ entLoaded' = entLoaded
      /\ entYield' = entYield
  <2>1. ~RefRefused(e, "loop") /\ ~RefRefused(e, "depth")
    BY DEF Running, RefRefused
  <2> QED BY <2>1 DEF RefParse
<1>3. SameMarks(entFlags, entFlags')
  <2>1. entFlags \in [Ents -> SUBSET {"expanding", "parsed", "checked", "validated"}]
    BY DEF EntInv, EntTypeOK
  <2> QED BY <1>2, <2>1 DEF SameMarks
<1>4. CallsItem(entStack, "content", e)
  BY <1>1 DEF NextItem, CallsItem, CallItem, Top, Depth
<1>5. Books(D, P, B, entStack', entFlags', entSize, entYield, entCopy, entLoaded)
  BY <1>1, <1>2, <1>3, <1>4, CallBooks
<1> QED BY <1>2, <1>5 DEF BalancedNext

(* RefKnown: the nodes of a parsed entity are copied and its size is       *)
(* added.                                                                  *)
LEMMA RefKnownBooks ==
  ASSUME EntInv, NEW D, NEW P, NEW B, Balanced(D, P, B), NEW e \in Ents, RefKnown(e), Running'
  PROVE  BalancedNext
<1> DEFINE s == entStack
           t == Delivers(e)
           k == EntityCheck(entStack', entFlags, entSize[e], entLoaded)
<1>0. /\ WellStack(s) /\ LoopFree(s, D) /\ Costs(s, D, P)
      /\ FlagsDone(entFlags, D) /\ Known(entFlags, entSize, entYield, P)
      /\ Budget(s, entFlags, entSize, entCopy, B) /\ Limit(s, entCopy, entLoaded)
      /\ entCopy \in Nat /\ entLoaded \in Nat /\ Len(s) \in Nat \ {0}
      /\ s \in Seq(EntFrames) /\ s # <<>>
  BY Facts
<1>l. \A x \in Ents : Len(entBody[x]) \in Nat
  BY Facts
<1>s. entSize \in [Ents -> Nat] /\ entSize[e] \in Nat
  BY DEF EntInv, EntTypeOK
<1>1. /\ t = IF Refers /\ e \notin Unread THEN Whole(P, e) ELSE 0
      /\ t \in Nat /\ t <= entSize[e] /\ e \in D \cup Unread
  BY KnownDelivers DEF RefKnown
<1>2. /\ entStack' = Moved(s, t, 0) /\ Top.mode = "content" /\ NextItem(<<"ref", e>>)
      /\ entCopy' = k.copy /\ entSize' = k.size /\ ~k.bad
      /\ entFlags' = entFlags /\ entYield' = entYield /\ entLoaded' = entLoaded
  <2>1. Continue(entStack, Delivers(e), entSize[e], entFlags)
    BY DEF RefKnown
  <2>2. /\ entStack' = Moved(entStack, Delivers(e), 0)
        /\ entCopy' = k.copy /\ entSize' = k.size
        /\ entError' = IF k.bad THEN "amplification" ELSE "none"
    BY <2>1 DEF Continue
  <2>3. ~k.bad
    BY <2>2 DEF Running
  <2> QED BY <2>2, <2>3 DEF RefKnown
<1> HIDE DEF t
<1>3. Advanced(s, entStack', t, 0)
  BY <1>0, <1>1, <1>2, MovedIs
<1>4. s[Len(s)].mode = "content" /\ Onwards(s, entStack')
  BY <1>2 DEF Top, Depth, Onwards
<1>5. /\ Accounted(s[Len(s)].ent, entFlags, entSize[e], k.copy, k.size)
      /\ k.copy = entCopy \/ ~OverLimit(k.copy, Reached(entStack') + entLoaded + EntPrologue)
  BY <1>0, <1>2, <1>3, <1>4, CheckMoved
<1> HIDE DEF k
<1>6. /\ entCopy' \in Nat /\ entCopy <= entCopy' /\ entSize' \in [Ents -> Nat]
      /\ \A x \in Ents : entSize[x] <= entSize'[x]
  <2>1. s[Len(s)].ent \in Ents \cup {EntDoc}
    BY <1>0, LastFrame DEF EntFrames
  <2> QED BY <1>0, <1>s, <1>2, <1>5, <2>1, AccountedMore
<1>7. Paid(s, entFlags, entSize, entCopy, entSize', entCopy', Len(s), t, 0)
  BY <1>0, <1>s, <1>1, <1>2, <1>4, <1>5, CheckPays
<1>8. Len(s) = 1 \/ Follows(s, D, P, <<"ref", e>>, t, t, 0)
  <2>1. Depth # 1 => /\ Top.pos < Len(entBody[Top.ent])
                     /\ <<"ref", e>> = entBody[Top.ent][Top.pos + 1]
    BY <1>2 DEF NextItem
  <2>2. /\ Charged(P, <<"ref", e>>, t) /\ Usual(<<"ref", e>>)
        /\ \A f \in Ents : Names(<<"ref", e>>, f) => f = e
    BY <1>1, RefCharged
  <2> QED BY <1>1, <1>4, <2>1, <2>2 DEF Top, Depth, Follows
<1>9. Known(entFlags, entSize', entYield, P)
  <2>1. P \in Prices
    BY <1>0 DEF Costs
  <2> QED BY <1>0, <1>l, <1>s, <1>6, <2>1, KnownMore
<1>10. Grows(entFlags, entFlags, entSize, entSize')
  BY <1>6 DEF Grows
<1>11. Pend(s, B, Len(s)) = 0
  BY <1>0, NoPend
<1>12. CanMove(s, D, P, B, entFlags, entSize', entYield, entCopy', entLoaded,
              entStack', t, 0, <<"ref", e>>, t)
  BY <1>0, <1>1, <1>2, <1>3, <1>4, <1>5, <1>6, <1>7, <1>8, <1>9, <1>10, <1>11 DEF CanMove
<1>13. \E P2 : Books(D, P2, B, entStack', entFlags, entSize', entYield, entCopy', entLoaded)
  BY <1>6, <1>12, MoveBooks
<1> QED BY <1>2, <1>13 DEF BalancedNext

(* The innermost call ends: what it leaves to the call below.              *)
LEMMA Returns ==
  ASSUME EntInv, NEW D, NEW P, NEW B, Balanced(D, P, B), Running, NEW mode, AtEnd(mode)
  PROVE  /\ Returned(entStack, Below) /\ WellStack(Below) /\ Onwards(Below, entStack')
         /\ Below \in Seq(EntFrames) /\ Below # <<>> /\ Below[Len(Below)] = entStack[Len(Below)]
         /\ Len(Below) \in Nat \ {0} /\ Len(Below) = Depth - 1 /\ Depth \in Nat /\ Depth > 1
         /\ Top.ent \in Ents \ Unread /\ Top.mode = mode
         /\ Top.pos = Len(entBody[Top.ent]) /\ Top.text \in Nat /\ Top.size \in Nat
         /\ LoopFree(Below, D \cup {Top.ent}) /\ Costs(Below, D \cup {Top.ent}, P)
         /\ Len(Below) # 1 =>
              /\ Below[Len(Below)].pos < Len(entBody[Below[Len(Below)].ent])
              /\ entBody[Below[Len(Below)].ent][Below[Len(Below)].pos + 1]
                   = CallItem(Below[Len(Below)].mode, mode, Top.ent)
         /\ Below[Len(Below)].ent # Top.ent
<1>0. /\ WellStack(entStack) /\ LoopFree(entStack, D) /\ Costs(entStack, D, P)
      /\ Len(entStack) \in Nat \ {0} /\ Top \in EntFrames
  BY Facts
<1>1. Depth > 1 /\ Top.mode = mode /\ Top.pos = Len(entBody[Top.ent])
  BY DEF AtEnd
<1>2. Returned(entStack, Below) /\ WellStack(Below)
  BY <1>1, BelowIs
<1>3. Below \in Seq(EntFrames) /\ Below # <<>> /\ Len(Below) \in Nat \ {0}
  BY <1>2 DEF WellStack
<1>4. /\ Depth \in Nat /\ Len(Below) = Depth - 1 /\ Len(Below) = Len(entStack) - 1
      /\ \A i \in 1..(Depth - 1) : Below[i] = entStack[i]
  BY <1>0, <1>2 DEF Returned, Depth
<1>5. Len(Below) \in 1..(Depth - 1)
  BY <1>3, <1>4
<1>6. Below[Len(Below)] = entStack[Len(Below)] /\ Below[Len(Below)] = entStack[Depth - 1]
  BY <1>4, <1>5
<1>7. /\ Top.ent \in Ents \ Unread /\ LoopFree(Below, D \cup {Top.ent})
      /\ Len(Below) # 1 =>
           /\ entStack[Depth - 1].pos < Len(entBody[entStack[Depth - 1].ent])
           /\ entBody[entStack[Depth - 1].ent][entStack[Depth - 1].pos + 1]
                = CallItem(entStack[Depth - 1].mode, Top.mode, Top.ent)
  <2> DEFINE e == Top.ent
             n == Len(entStack)
  <2>1. e = entStack[n].ent /\ entStack[n].pos = Len(entBody[e]) /\ Top.mode = entStack[n].mode
        /\ n = Depth
    BY <1>1 DEF Top, Depth
  <2> HIDE DEF e
  <2>2. /\ e \in Ents \ Unread /\ LoopFree(Below, D \cup {e})
        /\ Len(Below) # 1 =>
             /\ entStack[n - 1].pos < Len(entBody[entStack[n - 1].ent])
             /\ entBody[entStack[n - 1].ent][entStack[n - 1].pos + 1]
                  = CallItem(entStack[n - 1].mode, entStack[n].mode, e)
    <3> DEFINE b == Below
    <3>1. Returned(entStack, b)
      BY <1>2
    <3>2. e = entStack[Len(entStack)].ent /\ entStack[Len(entStack)].pos = Len(entBody[e])
      BY <2>1
    <3>3. WellStack(entStack) /\ LoopFree(entStack, D) /\ Ends(entStack, b, e)
      BY <1>0, <3>1, <3>2 DEF Ends
    <3> HIDE DEF b, n
    <3>4. /\ e \in Ents \ Unread /\ LoopFree(b, D \cup {e})
          /\ Len(b) # 1 =>
               /\ entStack[Len(entStack) - 1].pos < Len(entBody[entStack[Len(entStack) - 1].ent])
               /\ entBody[entStack[Len(entStack) - 1].ent][entStack[Len(entStack) - 1].pos + 1]
                    = CallItem(entStack[Len(entStack) - 1].mode, entStack[Len(entStack)].mode, e)
      BY <3>3, ReturnRead
    <3> QED BY <3>4 DEF b, n
  <2>3. entStack[n].mode = Top.mode
    BY <2>1
  <2> HIDE DEF n
  <2> QED BY <2>1, <2>2, <2>3 DEF e
<1>8. Costs(Below, D \cup {Top.ent}, P)
  BY <1>0, <1>1, <1>2, ReturnCosts DEF Top, Depth
<1>9. entStack[Depth - 1].ent # Top.ent
  <2>1. Depth - 1 \in 1..Len(entStack) /\ Depth \in 1..Len(entStack) /\ Depth - 1 # Depth
    BY <1>0, <1>1 DEF Depth
  <2> QED BY <1>0, <2>1 DEF WellStack, Top
<1>10. Top.text \in Nat /\ Top.size \in Nat
  BY <1>0 DEF EntFrames
<1> QED BY <1>1, <1>2, <1>3, <1>4, <1>6, <1>7, <1>8, <1>9, <1>10 DEF Onwards

(* RefParsed: the text that parsing delivered is at most the size that is  *)
(* now recorded and added, which is what a later RefKnown relies on.       *)
LEMMA RefParsedBooks ==
  ASSUME EntInv, NEW D, NEW P, NEW B, Balanced(D, P, B), Running, RefParsed, Running'
  PROVE  BalancedNext
<1> DEFINE s == Below
           e == Top.ent
           F == D \cup {e}
           t == IF Refers THEN Top.text ELSE 0
           x == SizeAfter(e)
           fl == [entFlags EXCEPT ![e] = (@ \ {"expanding"}) \cup {"parsed", "checked"}]
           k == EntityCheck(entStack', fl, x, entLoaded')
<1>a. AtEnd("content")
  BY DEF RefParsed
<1>0. /\ WellStack(entStack) /\ Costs(entStack, D, P)
      /\ FlagsDone(entFlags, D) /\ Known(entFlags, entSize, entYield, P)
      /\ Budget(entStack, entFlags, entSize, entCopy, B) /\ Limit(entStack, entCopy, entLoaded)
      /\ entCopy \in Nat /\ entLoaded \in Nat /\ Len(entStack) \in Nat \ {0}
  BY Facts
<1>l. \A y \in Ents : Len(entBody[y]) \in Nat
  BY Facts
<1>1. /\ WellStack(s) /\ Onwards(s, entStack') /\ s \in Seq(EntFrames) /\ s # <<>>
      /\ s[Len(s)] = entStack[Len(s)] /\ Len(s) \in Nat \ {0} /\ Len(s) = Depth - 1
      /\ Depth \in Nat /\ Depth > 1 /\ e \in Ents /\ e \notin Unread
      /\ Top.mode = "content" /\ Top.pos = Len(entBody[e]) /\ Top.text \in Nat
      /\ LoopFree(s, F) /\ Costs(s, F, P)
      /\ Len(s) # 1 => /\ s[Len(s)].pos < Len(entBody[s[Len(s)].ent])
                       /\ entBody[s[Len(s)].ent][s[Len(s)].pos + 1]
                            = CallItem(s[Len(s)].mode, "content", e)
      /\ s[Len(s)].ent # e
  BY <1>a, Returns
<1>c. entStack[Depth - 1].mode = "content" /\ s[Len(s)].mode = "content"
  <2>1. Depth \in 2..Len(entStack)
    BY <1>0, <1>1 DEF Depth
  <2> QED BY <1>0, <1>1, <2>1 DEF WellStack, Top
<1>s. entSize \in [Ents -> Nat]
  BY DEF EntInv, EntTypeOK
<1>f. entFlags \in [Ents -> SUBSET {"expanding", "parsed", "checked", "validated"}]
  BY DEF EntInv, EntTypeOK
<1>y. entYield \in [Ents -> Nat]
  BY DEF EntInv, EntTypeOK
<1>2. Top.text = Whole(P, e) /\ P \in Prices /\ Whole(P, e) \in Nat
  <2>1. Depth \in 2..Len(entStack)
    BY <1>0, <1>1 DEF Depth
  <2>2. Top.text = P[e][Top.pos] /\ P \in Prices
    BY <1>0, <1>1, <2>1 DEF Costs, Top
  <2> QED BY <1>1, <1>l, <2>2, WholeNat DEF Whole
<1>3. x \in Nat /\ Top.text <= x
  <2>1. entSize[e] \in Nat /\ Len(entBody[e]) \in Nat
    BY <1>1, <1>l, <1>s
  <2>2. CASE "checked" \in entFlags[e]
    <3>1. Whole(P, e) <= entSize[e]
      BY <1>0, <1>1, <2>2 DEF Known
    <3> QED BY <1>2, <2>1, <2>2, <3>1 DEF SizeAfter
  <2>3. CASE "checked" \notin entFlags[e]
    <3>1. Depth \in 2..Len(entStack)
      BY <1>0, <1>1 DEF Depth
    <3>2. Top.text + Pend(entStack, B, Depth) <= entSize[e] + Top.pos
      BY <1>0, <1>1, <2>3, <3>1 DEF Budget, Top
    <3>3. Pend(entStack, B, Depth) = 0
      BY <1>0, NoPend DEF Depth
    <3> QED BY <1>1, <2>1, <2>3, <3>2, <3>3 DEF SizeAfter
  <2> QED BY <2>2, <2>3
<1>4. t \in Nat /\ t <= x /\ t = IF Refers /\ e \notin Unread THEN Whole(P, e) ELSE 0
  BY <1>1, <1>2, <1>3
<1>5. /\ entStack' = Moved(s, t, 0) /\ entFlags' = fl
      /\ entCopy' = k.copy /\ entSize' = [k.size EXCEPT ![e] = x] /\ ~k.bad
      /\ entYield' = [entYield EXCEPT ![e] = Top.text]
  <2>1. /\ entStack' = Moved(s, t, 0) /\ entFlags' = fl
        /\ entYield' = [entYield EXCEPT ![e] = Top.text]
    BY DEF RefParsed, Refers
  <2>2. /\ entCopy' = k.copy /\ entSize' = [k.size EXCEPT ![e] = x]
        /\ entError' = IF k.bad THEN "amplification" ELSE entError
    BY <2>1 DEF RefParsed, Refers
  <2>3. ~k.bad
    BY <2>2 DEF Running
  <2> QED BY <2>1, <2>2, <2>3
<1>6. entLoaded' \in Nat /\ entLoaded <= entLoaded'
  <2>1. Len(entBody[e]) \in Nat
    BY <1>1, <1>l
  <2>2. entLoaded' = entLoaded \/ entLoaded' = entLoaded + Len(entBody[e])
    <3>1. entLoaded' = entLoaded + IF e \in EntExternal /\ "parsed" \notin entFlags[e]
                                   THEN Len(entBody[e]) ELSE 0
      BY DEF RefParsed
    <3> QED BY <1>0, <3>1
  <2> QED BY <1>0, <2>1, <2>2
<1> HIDE DEF t, x, s, e, F
<1>7. Advanced(s, entStack', t, 0)
  BY <1>1, <1>4, <1>5, MovedIs
<1>8. /\ Accounted(s[Len(s)].ent, fl, x, k.copy, k.size)
      /\ k.copy = entCopy \/ ~OverLimit(k.copy, Reached(entStack') + entLoaded' + EntPrologue)
  BY <1>0, <1>1, <1>c, <1>5, <1>7, CheckMoved
<1> HIDE DEF k
<1>9. /\ k.copy \in Nat /\ entCopy <= k.copy /\ k.size \in [Ents -> Nat]
      /\ \A y \in Ents : entSize[y] <= k.size[y]
  <2>1. s[Len(s)].ent \in Ents \cup {EntDoc}
    BY <1>1, LastFrame DEF EntFrames
  <2> QED BY <1>0, <1>s, <1>3, <1>8, <2>1, AccountedMore
<1>10. /\ entSize' \in [Ents -> Nat] /\ entSize'[e] = x
       /\ \A y \in Ents : y # e => entSize'[y] = k.size[y]
  BY <1>1, <1>3, <1>5, <1>9
<1>11. /\ fl[e] = (entFlags[e] \ {"expanding"}) \cup {"parsed", "checked"}
       /\ \A y \in Ents : y # e => fl[y] = entFlags[y]
  BY <1>1, <1>f
<1> HIDE DEF fl
<1>12. Grows(entFlags, fl, entSize, entSize')
  <2>1. ASSUME NEW y \in Ents
        PROVE  /\ "checked" \in entFlags[y] => "checked" \in fl[y]
               /\ "checked" \notin fl[y] => entSize[y] <= entSize'[y]
    <3>1. CASE y = e
      BY <1>11, <3>1
    <3>2. CASE y # e
      BY <1>9, <1>10, <1>11, <3>2
    <3> QED BY <3>1, <3>2
  <2> QED BY <2>1 DEF Grows
<1>13. FlagsDone(fl, F)
  <2>1. ASSUME NEW y \in Ents
        PROVE  /\ "parsed" \in fl[y] => "checked" \in fl[y]
               /\ "checked" \in fl[y] => y \in F
    <3>1. CASE y = e
      BY <1>11, <3>1 DEF F
    <3>2. CASE y # e
      BY <1>0, <1>11, <3>2 DEF FlagsDone, F
    <3> QED BY <3>1, <3>2
  <2> QED BY <2>1 DEF FlagsDone
<1>14. Known(fl, entSize', entYield', P)
  <2>0. Known(entFlags, k.size, entYield, P)
    BY <1>0, <1>l, <1>s, <1>2, <1>9, KnownMore
  <2>00. entYield'[e] = Top.text /\ \A y \in Ents : y # e => entYield'[y] = entYield[y]
    BY <1>1, <1>5, <1>y
  <2>1. ASSUME NEW y \in Ents
        PROVE  /\ "parsed" \in fl[y] => entYield'[y] = Whole(P, y)
               /\ "parsed" \notin fl[y] => entYield'[y] = 0
               /\ "checked" \in fl[y] => Whole(P, y) <= entSize'[y]
    <3>1. CASE y = e
      <4>1. "parsed" \in fl[y]
        BY <1>11, <3>1
      <4>2. entYield'[y] = Whole(P, y)
        BY <1>2, <2>00, <3>1
      <4>3. Whole(P, y) <= entSize'[y]
        BY <1>2, <1>3, <1>10, <3>1
      <4> QED BY <4>1, <4>2, <4>3
    <3>2. CASE y # e
      BY <1>10, <1>11, <2>0, <2>00, <3>2 DEF Known
    <3> QED BY <3>1, <3>2
  <2> QED BY <2>1 DEF Known
<1>15. Paid(entStack, fl, entSize, entCopy, entSize', entCopy', Len(s), t, 0)
  <2>1. Paid(entStack, fl, entSize, entCopy, k.size, k.copy, Len(s), t, 0)
    BY <1>0, <1>s, <1>1, <1>c, <1>3, <1>4, <1>8, CheckPays
  <2>2. Len(s) > 1 => entSize'[entStack[Len(s)].ent] = k.size[entStack[Len(s)].ent]
    BY <1>1, <1>10, LastFrame
  <2> QED BY <1>5, <2>1, <2>2 DEF Paid
<1>16. Len(s) = 1 \/ Follows(s, F, P, <<"ref", e>>, t, t, 0)
  <2>1. /\ Charged(P, <<"ref", e>>, t) /\ Usual(<<"ref", e>>)
        /\ \A f \in Ents : Names(<<"ref", e>>, f) => f = e
    BY <1>1, <1>4, RefCharged
  <2>2. CallItem(s[Len(s)].mode, "content", e) = <<"ref", e>> /\ e \in F
    BY DEF CallItem, F
  <2> QED BY <1>1, <1>c, <1>4, <2>1, <2>2 DEF Follows
<1>17. Pend(entStack, B, Len(s)) = 0
  <2>1. Len(s) + 1 = Depth
    BY <1>1
  <2> QED BY <1>1, <2>1 DEF Pend, Top
<1>18. CanMove(s, F, P, B, fl, entSize', entYield', entCopy', entLoaded',
              entStack', t, 0, <<"ref", e>>, t)
  <2>1. entCopy' \in Nat /\ entCopy <= entCopy'
    BY <1>5, <1>9
  <2>2. entCopy' = entCopy \/ ~OverLimit(entCopy', Reached(entStack') + entLoaded' + EntPrologue)
    BY <1>5, <1>8
  <2> QED BY <1>0, <1>1, <1>4, <1>6, <1>7, <1>12, <1>13, <1>14, <1>15, <1>16, <1>17,
             <2>1, <2>2 DEF CanMove
<1>19. \E P2 : Books(F, P2, B, entStack', fl, entSize', entYield', entCopy', entLoaded')
  BY <1>10, <1>18, MoveBooks
<1> QED BY <1>5, <1>19 DEF BalancedNext

(* Marking the entity a reference is nested in ...                         *)
LEMMA MarkedSame ==
  ASSUME EntInv, NEW e \in Ents
  PROVE  SameMarks(entFlags, Marked(e))
<1>1. entFlags \in [Ents -> SUBSET {"expanding", "parsed", "checked", "validated"}]
  BY DEF EntInv, EntTypeOK
<1> QED BY <1>1 DEF SameMarks, Marked

(* ... and removing the mark.                                              *)
LEMMA UnmarkedSame ==
  ASSUME EntInv
  PROVE  SameMarks(entFlags, Unmarked)
<1>1. entFlags \in [Ents -> SUBSET {"expanding", "parsed", "checked", "validated"}]
  BY DEF EntInv, EntTypeOK
<1> QED BY <1>1 DEF SameMarks, Unmarked

(* References in attribute values follow an item of their kind.            *)
LEMMA AttCalls ==
  ASSUME NEW e \in Ents, AttReference(e), NEW mode \in {"expand", "check"}
  PROVE  e \in Ents \ Unread /\ CallsItem(entStack, mode, e)
<1>1. e \notin Unread
  BY DEF AttReference, Unread, Readable
<1>2. CASE Top.mode = "content" /\ NextItem(<<"att", e>>)
  BY <1>1, <1>2 DEF NextItem, CallsItem, CallItem, Top, Depth
<1>3. CASE Top.mode # "content" /\ NextItem(<<"ref", e>>)
  BY <1>1, <1>3 DEF NextItem, CallsItem, CallItem, Top, Depth
<1> QED BY <1>2, <1>3 DEF AttReference

(* Values are expanded with entity substitution and checked without.       *)
LEMMA OneMode ==
  ASSUME EntInv, NEW D, NEW P, NEW B, Balanced(D, P, B), NEW i \in 1..Len(entStack)
  PROVE  /\ entStack[i].mode = "expand" => entReplace
         /\ entStack[i].mode = "check" => ~entReplace
         /\ entStack[i].mode \in {"content", "expand", "check"}
<1>1. Costs(entStack, D, P) /\ WellStack(entStack)
  BY Facts
<1>2. CASE i = 1
  BY <1>1, <1>2 DEF WellStack
<1>3. CASE i # 1
  <2>1. i \in 2..Len(entStack) /\ entStack[i] \in EntFrames
    BY <1>1, <1>3, FrameEnt DEF WellStack
  <2> QED BY <1>1, <2>1 DEF Costs, EntFrames
<1> QED BY <1>2, <1>3

(* The same for the innermost call.                                        *)
LEMMA TopMode ==
  ASSUME EntInv, NEW D, NEW P, NEW B, Balanced(D, P, B)
  PROVE  /\ Top.mode = "expand" => entReplace
         /\ Top.mode = "check" => ~entReplace
         /\ Depth \in 1..Len(entStack) /\ (Top.mode # "content" => Depth # 1)
<1>1. Len(entStack) \in Nat \ {0} /\ entStack[1].mode = "content"
  BY Facts DEF WellStack
<1>2. Depth \in 1..Len(entStack)
  BY <1>1 DEF Depth
<1> QED BY <1>1, <1>2, OneMode DEF Top

(* AttCheck: a value begins to be checked.                                 *)
LEMMA AttCheckBooks ==
  ASSUME EntInv, NEW D, NEW P, NEW B, Balanced(D, P, B), NEW e \in Ents, AttCheck(e), Running'
  PROVE  BalancedNext
<1>1. e \in Ents \ Unread /\ CallsItem(entStack, "check", e)
  BY AttCalls DEF AttCheck
<1>2. ~entReplace
  BY TopMode DEF AttCheck
<1>3. /\ entStack' = Append(entStack, Frame(e, "check")) /\ entFlags' = Marked(e)
      /\ entSize' = entSize /\ entCopy' = entCopy /\ entLoaded' = entLoaded
      /\ entYield' = entYield
  <2>1. ~Stop("loop") /\ ~Stop("depth")
    BY DEF Running, Stop
  <2> QED BY <2>1 DEF AttCheck
<1>4. SameMarks(entFlags, entFlags')
  BY <1>3, MarkedSame
<1>5. Books(D, P, B, entStack', entFlags', entSize, entYield, entCopy, entLoaded)
  BY <1>1, <1>2, <1>3, <1>4, CallBooks
<1> QED BY <1>3, <1>5 DEF BalancedNext

(* The position after a reference whose value is expanded.                 *)
LEMMA SteppedIs ==
  ASSUME NEW s \in Seq(EntFrames), s # <<>>
  PROVE  Advanced(s, [s EXCEPT ![Len(s)].pos = @ + 1], 0, 0)
<1> DEFINE n == Len(s)
           g == s[n]
           f == [g EXCEPT !.pos = @ + 1]
<1>1. n \in Nat /\ n # 0 /\ s \in [1..n -> EntFrames]
  BY LenProperties, EmptySeq
<1>2. s[n] \in EntFrames
  BY <1>1
<1>3. /\ f \in EntFrames /\ f.ent = s[n].ent /\ f.mode = s[n].mode
      /\ f.pos = s[n].pos + 1 /\ f.text = s[n].text + 0 /\ f.size = s[n].size + 0
  <2>1. g \in EntFrames
    BY <1>2
  <2>2. f = [ent |-> g.ent, mode |-> g.mode, pos |-> g.pos + 1, size |-> g.size,
             text |-> g.text]
    BY <2>1, SMTT(60) DEF EntFrames
  <2> HIDE DEF f
  <2>3. /\ f \in EntFrames /\ f.ent = g.ent /\ f.mode = g.mode /\ f.pos = g.pos + 1
        /\ f.text = g.text + 0 /\ f.size = g.size + 0
    BY <2>1, <2>2, SMTT(60) DEF EntFrames
  <2> QED BY <2>3
<1>4. [s EXCEPT ![n].pos = @ + 1] = [s EXCEPT ![n] = f]
  OBVIOUS
<1> HIDE DEF f
<1> DEFINE m == [s EXCEPT ![n] = f]
<1>5. Len(m) = n /\ \A i \in 1..n : m[i] = IF i = n THEN f ELSE s[i]
  BY <1>1, <1>3, ExceptSeq
<1> HIDE DEF m
<1>6. Len(m) = n /\ m[n] = f /\ \A i \in 1..(n - 1) : m[i] = s[i]
  <2>0. n \in Nat \ {0}
    BY <1>1
  <2> HIDE DEF n
  <2>1. n \in 1..n /\ \A i \in 1..(n - 1) : i \in 1..n /\ i # n
    BY <2>0
  <2> QED BY <1>5, <2>1, Zenon
<1>7. Advanced(s, m, 0, 0)
  BY <1>1, <1>3, <1>6 DEF Advanced
<1> QED BY <1>4, <1>7 DEF m

(* AttExpand: the text of the value is accounted for in the input.         *)
LEMMA AttExpandBooks ==
  ASSUME EntInv, NEW D, NEW P, NEW B, Balanced(D, P, B), NEW e \in Ents, AttExpand(e), Running'
  PROVE  BalancedNext
<1> DEFINE s == entStack
           x == [entStack EXCEPT ![Depth].pos = @ + 1]
           len == Len(entBody[e])
           k == EntityCheck(x, entFlags, len, entLoaded)
           fl == Marked(e)
           s2 == Append(entStack, Frame(e, "expand"))
<1>0. /\ WellStack(s) /\ LoopFree(s, D) /\ Costs(s, D, P)
      /\ FlagsDone(entFlags, D) /\ Known(entFlags, entSize, entYield, P)
      /\ Budget(s, entFlags, entSize, entCopy, B) /\ Limit(s, entCopy, entLoaded)
      /\ entCopy \in Nat /\ entLoaded \in Nat /\ Len(s) \in Nat \ {0}
      /\ s \in Seq(EntFrames) /\ s # <<>>
  BY Facts
<1>l. len \in Nat /\ \A y \in Ents : Len(entBody[y]) \in Nat
  BY Facts
<1>s. entSize \in [Ents -> Nat] /\ EntTypeOK
  BY DEF EntInv, EntTypeOK
<1>1. e \in Ents \ Unread /\ CallsItem(entStack, "expand", e)
  BY AttCalls DEF AttExpand
<1>2. entReplace
  BY TopMode DEF AttExpand
<1>3. /\ entStack' = s2 /\ entFlags' = fl /\ ~k.bad
      /\ entCopy' = k.copy /\ entSize' = k.size /\ entLoaded' = entLoaded
      /\ entYield' = entYield
  <2>1. ~Stop("loop") /\ ~Stop("depth")
    BY DEF Running, Stop
  <2>2. /\ entCopy' = k.copy /\ entSize' = k.size
        /\ entError' = IF k.bad THEN "amplification" ELSE "none"
        /\ entStack' = IF k.bad THEN entStack ELSE s2
        /\ entFlags' = IF k.bad THEN entFlags ELSE fl
        /\ entLoaded' = entLoaded /\ entYield' = entYield
    BY <2>1 DEF AttExpand
  <2>3. ~k.bad
    BY <2>2 DEF Running
  <2> QED BY <2>2, <2>3
<1>4. Advanced(s, x, 0, 0)
  BY <1>0, SteppedIs DEF Depth
<1>5. Called(s, s2, e, "expand")
  BY <1>s, PushedIs DEF Modes
<1>6. SameMarks(entFlags, fl)
  BY MarkedSame
<1> HIDE DEF x, fl, s2
<1>7. PICK b : IsInput(s, b)
  BY <1>0, InputExists
<1>8. IsInput(x, b) /\ x[b].ent = s[b].ent /\ Len(x) \in Nat
      /\ x[b].pos = IF b = Len(s) THEN s[b].pos + 1 ELSE s[b].pos
  BY <1>0, <1>4, <1>7, InputAdvanced
<1>9. /\ Accounted(s[b].ent, entFlags, len, k.copy, k.size)
      /\ s[b].ent = EntDoc => (k.bad <=> OverLimit(k.copy, x[b].pos + entLoaded + EntPrologue))
  BY <1>8, CheckIs
<1> HIDE DEF k, len
<1>10. b \in 1..Len(s) /\ \A i \in (b + 1)..Len(s) : s[i].mode = "expand"
  <2>1. b \in 1..Len(s) /\ \A i \in 1..Len(s) : s[i].mode = "content" => i <= b
    BY <1>7 DEF IsInput
  <2>2. ASSUME NEW i \in (b + 1)..Len(s) PROVE s[i].mode = "expand"
    <3>1. i \in 1..Len(s) /\ ~(i <= b)
      BY <1>0, <2>1
    <3> QED BY <1>2, <2>1, <3>1, OneMode
  <2> QED BY <2>1, <2>2
<1>11. s[b].ent \in Ents \cup {EntDoc} /\ s[b].pos \in Nat
  BY <1>0, <1>10, FrameEnt DEF EntFrames
<1>12. /\ entCopy' \in Nat /\ entCopy <= entCopy' /\ entSize' \in [Ents -> Nat]
       /\ \A y \in Ents : entSize[y] <= entSize'[y]
  BY <1>0, <1>l, <1>s, <1>3, <1>9, <1>11, AccountedMore
<1>13. CanExpand(s, entFlags, B, fl, entSize', entCopy', b, e, s2, len)
  <2>1. \A y \in Ents : "checked" \in entFlags[y] <=> "checked" \in fl[y]
    BY <1>6 DEF SameMarks
  <2>2. len = Len(entBody[e])
    BY DEF len
  <2> QED BY <1>0, <1>l, <1>s, <1>3, <1>5, <1>7, <1>9, <1>10, <1>12, <2>1, <2>2 DEF CanExpand
<1>14. Budget(s2, fl, entSize', entCopy', Raised(B, b, Len(s) + 1, len))
  BY <1>13, BudgetExpands
<1>15. LoopFree(s2, D)
  BY <1>0, <1>1, <1>l, <1>5, CallRead DEF CallsItem
<1>16. Costs(s2, D, P)
  BY <1>0, <1>2, <1>l, <1>5, CallCosts
<1>17. FlagsDone(fl, D) /\ Known(fl, entSize', entYield, P)
  <2>1. P \in Prices
    BY <1>0 DEF Costs
  <2>2. Known(entFlags, entSize', entYield, P)
    BY <1>0, <1>l, <1>s, <1>12, <2>1, KnownMore
  <2> QED BY <1>0, <1>6, <2>2, SameAccounts
<1>18. Limit(s2, entCopy', entLoaded)
  <2>1. /\ Reached(s) \in Nat /\ Reached(s2) \in Nat /\ Reached(s) <= Reached(s2)
        /\ Reached(s2) = s[1].pos + 1 /\ s[1].pos \in Nat
    BY <1>0, <1>5, ReachedCalls
  <2>2. CASE s[b].ent = EntDoc
    <3>1. b = 1
      BY <1>0, <1>10, <2>2 DEF WellStack
    <3>2. x[b].pos \in Nat /\ x[b].pos <= Reached(s2)
      BY <1>8, <1>11, <2>1, <3>1
    <3>3. ~OverLimit(entCopy', x[b].pos + entLoaded + EntPrologue)
      BY <1>3, <1>9, <2>2
    <3>4. entLoaded <= entLoaded
      BY <1>0
    <3> QED BY <1>0, <1>12, <2>1, <3>2, <3>3, <3>4, LimitSet
  <2>3. CASE s[b].ent # EntDoc
    <3>1. entCopy' = entCopy
      BY <1>3, <1>9, <2>3 DEF Accounted
    <3>2. Limit(s2, entCopy, entLoaded)
      <4>1. entLoaded <= entLoaded
        BY <1>0
      <4> QED BY <1>0, <2>1, <4>1, LimitKept
    <3> QED BY <3>1, <3>2
  <2> QED BY <2>2, <2>3
<1>19. Books(D, P, Raised(B, b, Len(s) + 1, len), s2, fl, entSize', entYield, entCopy', entLoaded)
  BY <1>14, <1>15, <1>16, <1>17, <1>18 DEF Books
<1> QED BY <1>3, <1>19 DEF BalancedNext

(* AttExpanded: what the value delivered was pending.                      *)
LEMMA AttExpandedBooks ==
  ASSUME EntInv, NEW D, NEW P, NEW B, Balanced(D, P, B), Running, AttExpanded, Running'
  PROVE  BalancedNext
<1> DEFINE s == Below
           e == Top.ent
           F == D \cup {e}
           t == Top.text + Own(s)
           item == CallItem(s[Len(s)].mode, "expand", e)
           fl == Unmarked
<1>a. AtEnd("expand")
  BY DEF AttExpanded
<1>0. /\ WellStack(entStack) /\ Costs(entStack, D, P)
      /\ FlagsDone(entFlags, D) /\ Known(entFlags, entSize, entYield, P)
      /\ Budget(entStack, entFlags, entSize, entCopy, B) /\ Limit(entStack, entCopy, entLoaded)
      /\ entCopy \in Nat /\ entLoaded \in Nat /\ Len(entStack) \in Nat \ {0}
  BY Facts
<1>l. \A y \in Ents : Len(entBody[y]) \in Nat
  BY Facts
<1>1. /\ WellStack(s) /\ Onwards(s, entStack') /\ s \in Seq(EntFrames) /\ s # <<>>
      /\ s[Len(s)] = entStack[Len(s)] /\ Len(s) \in Nat \ {0} /\ Len(s) = Depth - 1
      /\ Depth \in Nat /\ Depth > 1 /\ e \in Ents /\ e \notin Unread
      /\ Top.mode = "expand" /\ Top.pos = Len(entBody[e]) /\ Top.text \in Nat
      /\ LoopFree(s, F) /\ Costs(s, F, P)
      /\ Len(s) # 1 => /\ s[Len(s)].pos < Len(entBody[s[Len(s)].ent])
                       /\ entBody[s[Len(s)].ent][s[Len(s)].pos + 1] = item
  BY <1>a, Returns
<1>r. entReplace
  BY <1>1, TopMode
<1>s. entSize \in [Ents -> Nat]
  BY DEF EntInv, EntTypeOK
<1>o. /\ Own(s) \in Nat /\ Own(s) <= 1 /\ (Len(s) = 1 => Own(s) = 0)
      /\ Len(s) > 1 => Own(s) = IF s[Len(s)].mode = "content" THEN 1 ELSE 0
  BY <1>1 DEF Own
<1>2. Top.text = Whole(P, e) /\ P \in Prices
  <2>1. Depth \in 2..Len(entStack)
    BY <1>0, <1>1 DEF Depth
  <2>2. Top.text = P[e][Top.pos] /\ P \in Prices
    BY <1>0, <1>1, <2>1 DEF Costs, Top
  <2> QED BY <1>1, <2>2 DEF Whole
<1>3. Pend(entStack, B, Len(s)) \in Nat /\ Top.text <= Pend(entStack, B, Len(s))
  <2>1. Depth \in 2..Len(entStack) /\ Len(s) + 1 = Depth /\ Len(s) < Len(entStack)
    BY <1>0, <1>1 DEF Depth
  <2>2. Pend(entStack, B, Len(s)) = B[Depth] /\ B[Depth] \in Nat
    <3>1. B \in [Nat -> Nat]
      BY <1>0 DEF Budget
    <3> QED BY <1>1, <2>1, <3>1 DEF Pend, Top
  <2>3. Top.text + (Len(entBody[e]) - Top.pos) + Pend(entStack, B, Depth) <= B[Depth]
    BY <1>0, <1>1, <2>1 DEF Budget, Top
  <2>4. Pend(entStack, B, Depth) = 0 /\ Len(entBody[e]) \in Nat
    BY <1>0, <1>1, <1>l, NoPend DEF Depth
  <2> QED BY <1>1, <2>2, <2>3, <2>4
<1>4. /\ entStack' = Moved(s, t, 0) /\ entFlags' = fl
      /\ entCopy' = entCopy /\ entSize' = entSize /\ entLoaded' = entLoaded
      /\ entYield' = entYield
  BY DEF AttExpanded
<1>5. t \in Nat /\ t = Top.text + Own(s)
  BY <1>1, <1>o
<1>6. SameMarks(entFlags, fl)
  BY UnmarkedSame
<1> HIDE DEF t, s, e, F, item, fl
<1>7. Advanced(s, entStack', t, 0)
  BY <1>1, <1>4, <1>5, MovedIs
<1>8. FlagsDone(fl, F) /\ Known(fl, entSize, entYield, P)
  <2>1. FlagsDone(entFlags, F)
    BY <1>0 DEF FlagsDone, F
  <2> QED BY <1>0, <1>6, <2>1, SameAccounts
<1>9. Grows(entFlags, fl, entSize, entSize)
  BY <1>6, <1>s DEF Grows, SameMarks
<1>10. Paid(entStack, fl, entSize, entCopy, entSize, entCopy, Len(s), t, Pend(entStack, B, Len(s)))
  <2> DEFINE r == Pend(entStack, B, Len(s))
             m == entStack[Len(s)].mode
             y == entStack[Len(s)].ent
             o == Own(s)
  <2>1. r \in Nat /\ t \in Nat /\ t = Top.text + o /\ Top.text <= r /\ Top.text \in Nat /\ o \in Nat
        /\ o <= 1 /\ (Len(s) = 1 => o = 0) /\ (Len(s) > 1 => o = IF m = "content" THEN 1 ELSE 0)
    BY <1>1, <1>3, <1>5, <1>o
  <2>2. Len(s) > 1 => entSize[y] \in Nat
    BY <1>1, <1>s, LastFrame
  <2> HIDE DEF r, m, y, o
  <2>3. t <= r + 1 /\ (Len(s) = 1 => t + entCopy <= entCopy + r)
    BY <1>0, <2>1
  <2>4. Len(s) > 1 => t + entSize[y] <= entSize[y] + 1 + r
    BY <2>1, <2>2, <2>3, SMTT(60)
  <2> QED BY <2>3, <2>4 DEF Paid, r, y
<1>11. Len(s) = 1 \/ Follows(s, F, P, item, t, t, 0)
  <2> SUFFICES ASSUME Len(s) # 1 PROVE Follows(s, F, P, item, t, t, 0)
    OBVIOUS
  <2>0. e \in F /\ Len(s) > 1
    BY <1>1, LastFrame DEF F
  <2>1. CASE s[Len(s)].mode = "content"
    <3>1. item = <<"att", e>> /\ t = Whole(P, e) + 1
      BY <1>2, <1>5, <1>o, <2>0, <2>1 DEF item, CallItem
    <3>2. /\ Charged(P, item, t) /\ Usual(item) /\ \A f \in Ents : Names(item, f) => f = e
      BY <1>1, <1>r, <3>1, AttCharged
    <3> QED BY <1>1, <1>5, <2>0, <2>1, <3>2 DEF Follows
  <2>2. CASE s[Len(s)].mode # "content"
    <3>1. item = <<"ref", e>> /\ t = Whole(P, e)
      BY <1>1, <1>2, <1>5, <1>o, <2>0, <2>2 DEF item, CallItem
    <3>2. /\ Charged(P, item, t) /\ Usual(item) /\ \A f \in Ents : Names(item, f) => f = e
      BY <1>1, <1>r, <3>1, RefCharged DEF Refers
    <3>3. s[Len(s)].mode # "check"
      <4>1. Len(s) \in 1..Len(entStack)
        BY <1>0, <1>1 DEF Depth
      <4> QED BY <1>1, <1>r, <4>1, OneMode
    <3> QED BY <1>1, <1>5, <2>0, <3>2, <3>3 DEF Follows
  <2> QED BY <2>1, <2>2
<1>12. CanMove(s, F, P, B, fl, entSize, entYield, entCopy, entLoaded, entStack', t, 0, item, t)
  BY <1>0, <1>1, <1>5, <1>7, <1>8, <1>9, <1>10, <1>11 DEF CanMove
<1>13. \E P2 : Books(F, P2, B, entStack', fl, entSize, entYield, entCopy, entLoaded)
  BY <1>s, <1>12, MoveBooks
<1> QED BY <1>4, <1>13 DEF BalancedNext

-----------------------------------------------------------------------------
(* The call s, the innermost one or the one below it, moves over the       *)
(* checked reference to e, whose size is v.                                *)
Noting(s, F, P, B, flags2, e, v) ==
  /\ WellStack(s) /\ Onwards(s, entStack') /\ s \in Seq(EntFrames) /\ s # <<>>
  /\ s[Len(s)] = entStack[Len(s)] /\ Len(s) \in Nat \ {0} /\ Len(s) <= Depth
  /\ LoopFree(s, F) /\ Costs(s, F, P) /\ FlagsDone(flags2, F)
  /\ e \in Ents /\ e \notin Unread /\ e \in F /\ v \in Nat /\ Whole(P, e) <= v /\ ~entReplace
  /\ Len(s) # 1 => /\ s[Len(s)].pos < Len(entBody[s[Len(s)].ent])
                   /\ entBody[s[Len(s)].ent][s[Len(s)].pos + 1]
                        = CallItem(s[Len(s)].mode, "check", e)
  /\ Pend(entStack, B, Len(s)) = 0

(* Only e is newly checked.                                                *)
NewlyChecked(flags2, e) ==
  /\ "checked" \in flags2[e]
  /\ \A y \in Ents : /\ "parsed" \in entFlags[y] <=> "parsed" \in flags2[y]
                     /\ "checked" \in entFlags[y] => "checked" \in flags2[y]
                     /\ y # e /\ "checked" \in flags2[y] => "checked" \in entFlags[y]

(* What is left to show of a check of e: the counters have grown, and the  *)
(* stack has moved over its reference.                                     *)
LEMMA NotedMove ==
  ASSUME EntInv, NEW D, NEW P, NEW B, Balanced(D, P, B), NEW s, NEW F, NEW flags2,
         NEW e, NEW v, Noting(s, F, P, B, flags2, e, v), NewlyChecked(flags2, e),
         NEW ns, ns \in [Ents -> Nat], \A y \in Ents : entSize[y] <= ns[y],
         NEW size2, size2 \in [Ents -> Nat], \A y \in Ents : y # e => size2[y] = ns[y],
         Whole(P, e) <= size2[e], NEW copy2 \in Nat, entCopy <= copy2, NEW t \in Nat,
         NEW z \in Nat, Advanced(s, entStack', t, z), NEW item, NEW c,
         Len(s) = 1 \/ Follows(s, F, P, item, c, t, z),
         Paid(entStack, flags2, entSize, entCopy, ns, copy2, Len(s), t, 0),
         copy2 = entCopy \/ ~OverLimit(copy2, Reached(entStack') + entLoaded + EntPrologue)
  PROVE  \E P2 : Books(F, P2, B, entStack', flags2, size2, entYield, copy2, entLoaded)
<1>0. /\ Known(entFlags, entSize, entYield, P) /\ Costs(entStack, D, P)
      /\ Budget(entStack, entFlags, entSize, entCopy, B) /\ Limit(entStack, entCopy, entLoaded)
      /\ entLoaded \in Nat /\ \A y \in Ents : Len(entBody[y]) \in Nat
  BY Facts
<1>s. entSize \in [Ents -> Nat]
  BY DEF EntInv, EntTypeOK
<1>1. /\ WellStack(s) /\ Onwards(s, entStack') /\ LoopFree(s, F) /\ Costs(s, F, P)
      /\ FlagsDone(flags2, F) /\ e \in Ents /\ Pend(entStack, B, Len(s)) = 0
      /\ s[Len(s)] = entStack[Len(s)]
  BY DEF Noting
<1>2. Known(flags2, size2, entYield, P)
  <2>0. P \in Prices
    BY <1>0 DEF Costs
  <2>1. Known(entFlags, ns, entYield, P)
    BY <1>0, <1>s, <2>0, KnownMore
  <2>2. ASSUME NEW y \in Ents
        PROVE  /\ "parsed" \in flags2[y] => entYield[y] = Whole(P, y)
               /\ "parsed" \notin flags2[y] => entYield[y] = 0
               /\ "checked" \in flags2[y] => Whole(P, y) <= size2[y]
    <3>1. /\ "parsed" \in flags2[y] => entYield[y] = Whole(P, y)
          /\ "parsed" \notin flags2[y] => entYield[y] = 0
      BY <2>1 DEF Known, NewlyChecked
    <3>2. "checked" \in flags2[y] => Whole(P, y) <= size2[y]
      <4>1. CASE y = e
        BY <4>1
      <4>2. CASE y # e
        BY <2>1, <4>2 DEF Known, NewlyChecked
      <4> QED BY <4>1, <4>2
    <3> QED BY <3>1, <3>2
  <2> QED BY <2>2 DEF Known
<1>3. \A y \in Ents : "checked" \notin flags2[y] => size2[y] = ns[y]
  BY DEF NewlyChecked
<1>4. Grows(entFlags, flags2, entSize, size2)
  BY <1>3 DEF Grows, NewlyChecked
<1>5. Paid(entStack, flags2, entSize, entCopy, size2, copy2, Len(s), t, 0)
  <2>1. Len(s) > 1 => entStack[Len(s)].ent \in Ents
    BY <1>1, LastFrame
  <2> QED BY <1>3, <2>1 DEF Paid
<1>6. CanMove(s, F, P, B, flags2, size2, entYield, copy2, entLoaded, entStack', t, z, item, c)
  <2>1. entLoaded <= entLoaded
    BY <1>0
  <2> QED BY <1>0, <1>1, <1>2, <1>4, <1>5, <2>1 DEF CanMove
<1> QED BY <1>6, MoveBooks

(* A check accounts in the innermost call when that is content ...         *)
LEMMA CheckSize ==
  ASSUME NEW s, WellStack(s), s[Len(s)].mode = "content", NEW x, NEW t, NEW z,
         Advanced(s, x, t, z), NEW flags, NEW extra
  PROVE  LET k == EntityCheck(x, flags, extra, entLoaded)
         IN  Accounted(s[Len(s)].ent, flags, extra, k.copy, k.size)
<1>0. Len(s) \in Nat \ {0}
  BY DEF WellStack
<1>1. IsInput(s, Len(s))
  BY <1>0 DEF IsInput
<1>2. IsInput(x, Len(s)) /\ x[Len(s)].ent = s[Len(s)].ent /\ Len(x) \in Nat
  BY <1>0, <1>1, InputAdvanced
<1> QED BY <1>2, CheckIs

(* ... with one result for the sizes.                                      *)
LEMMA SameSize ==
  ASSUME NEW e, NEW flags, NEW extra, NEW copy, NEW size, Accounted(e, flags, extra, copy, size),
         NEW copy2, NEW size2, Accounted(e, flags, extra, copy2, size2)
  PROVE  size = size2
BY DEF Accounted

(* The accounts after a checked reference, nested or in content.           *)
LEMMA NotedBooks ==
  ASSUME EntInv, NEW D, NEW P, NEW B, Balanced(D, P, B), Running', NEW s, NEW F, NEW flags2,
         NEW e, NEW v, Noting(s, F, P, B, flags2, e, v), NewlyChecked(flags2, e),
         CheckNoted(s, v, flags2), NEW size2, size2 \in [Ents -> Nat],
         \A y \in Ents : y # e => size2[y] = NotedSize(s, v, flags2)[y],
         Whole(P, e) <= size2[e]
  PROVE  \E P2 : Books(F, P2, B, entStack', flags2, size2, entYield, entCopy', entLoaded)
<1> DEFINE ns == NotedSize(s, v, flags2)
           item == CallItem(s[Len(s)].mode, "check", e)
<1>0. /\ WellStack(entStack) /\ entCopy \in Nat /\ entLoaded \in Nat
      /\ \A y \in Ents : Len(entBody[y]) \in Nat
  BY Facts
<1>s. entSize \in [Ents -> Nat]
  BY DEF EntInv, EntTypeOK
<1>f. EntFixed \in Nat
  BY EntAssumption
<1>1. /\ WellStack(s) /\ Onwards(s, entStack') /\ s \in Seq(EntFrames) /\ s # <<>>
      /\ s[Len(s)] = entStack[Len(s)] /\ Len(s) \in Nat \ {0} /\ Len(s) <= Depth
      /\ e \in Ents /\ e \notin Unread /\ e \in F /\ v \in Nat /\ Whole(P, e) <= v
      /\ ~entReplace /\ P \in Prices
      /\ Len(s) # 1 => /\ s[Len(s)].pos < Len(entBody[s[Len(s)].ent])
                       /\ entBody[s[Len(s)].ent][s[Len(s)].pos + 1] = item
  BY DEF Noting, Costs
<1>w. Whole(P, e) \in Nat
  BY <1>0, <1>1, WholeNat
<1>2. CASE s[Len(s)].mode = "check"
  <2> DEFINE z == v + EntFixed
             c == IF Refers /\ e \notin Unread THEN Whole(P, e) ELSE 0
  <2>1. entStack' = Moved(s, 0, z) /\ entCopy' = entCopy /\ ns = entSize
    BY <1>2 DEF CheckNoted, NotedSize
  <2>2. z \in Nat /\ c \in Nat /\ c <= z + 1
    BY <1>f, <1>1, <1>w
  <2>3. Advanced(s, entStack', 0, z)
    BY <1>1, <2>1, <2>2, MovedIs
  <2>4. Charged(P, <<"ref", e>>, c) /\ Usual(<<"ref", e>>)
        /\ \A f \in Ents : Names(<<"ref", e>>, f) => f = e
    BY <1>1, RefCharged
  <2> HIDE DEF z, c, ns
  <2>5. item = <<"ref", e>>
    BY <1>2 DEF CallItem
  <2> HIDE DEF item
  <2>6. Len(s) = 1 \/ Follows(s, F, P, item, c, 0, z)
    BY <1>1, <1>2, <2>2, <2>4, <2>5 DEF Follows
  <2>7. Len(s) # 1
    BY <1>1, <1>2 DEF WellStack
  <2>8. Paid(entStack, flags2, entSize, entCopy, ns, entCopy', Len(s), 0, 0)
    BY <1>1, <1>2, <2>7 DEF Paid
  <2>9. ns \in [Ents -> Nat] /\ \A y \in Ents : entSize[y] <= ns[y]
    BY <1>s, <2>1
  <2>10. \A y \in Ents : y # e => size2[y] = ns[y]
    BY DEF ns
  <2>11. entCopy' \in Nat /\ entCopy <= entCopy'
    BY <1>0, <2>1
  <2> QED BY <2>1, <2>2, <2>3, <2>6, <2>8, <2>9, <2>10, <2>11, NotedMove
<1>3. CASE s[Len(s)].mode # "check"
  <2> DEFINE t == Own(s)
             k == EntityCheck(entStack', flags2, v, entLoaded)
             j == EntityCheck(Moved(s, 0, 0), flags2, v, entLoaded)
  <2>1. s[Len(s)].mode = "content"
    <3>1. Len(s) \in 1..Len(entStack)
      BY <1>0, <1>1 DEF WellStack, Depth
    <3> QED BY <1>1, <1>3, <3>1, OneMode
  <2>2. t \in Nat /\ (Len(s) = 1 => t = 0) /\ (Len(s) # 1 => t = 1)
    BY <1>1, <2>1, LastFrame DEF Own
  <2>3. /\ entStack' = Moved(s, t, 0) /\ entCopy' = k.copy /\ ~k.bad /\ ns = j.size
    <3>1. /\ entStack' = Moved(s, t, 0) /\ ns = j.size
      BY <1>3 DEF CheckNoted, NotedSize
    <3>2. entCopy' = k.copy /\ entError' = IF k.bad THEN "amplification" ELSE "none"
      BY <1>3, <3>1 DEF CheckNoted
    <3> QED BY <3>1, <3>2 DEF Running
  <2> HIDE DEF t
  <2>4. Advanced(s, entStack', t, 0) /\ Advanced(s, Moved(s, 0, 0), 0, 0)
    BY <1>1, <2>2, <2>3, MovedIs
  <2>5. /\ Accounted(s[Len(s)].ent, flags2, v, k.copy, k.size)
        /\ k.copy = entCopy \/ ~OverLimit(k.copy, Reached(entStack') + entLoaded + EntPrologue)
    BY <1>0, <1>1, <2>1, <2>3, <2>4, CheckMoved
  <2>6. Accounted(s[Len(s)].ent, flags2, v, j.copy, j.size)
    BY <1>1, <2>1, <2>4, CheckSize
  <2> HIDE DEF k, j, ns
  <2>7. k.size = ns
    BY <2>3, <2>5, <2>6, SameSize
  <2>8. Accounted(s[Len(s)].ent, flags2, v, entCopy', ns)
    BY <2>3, <2>5, <2>7
  <2>9. /\ entCopy' \in Nat /\ entCopy <= entCopy' /\ ns \in [Ents -> Nat]
        /\ \A y \in Ents : entSize[y] <= ns[y]
    <3>1. s[Len(s)].ent \in Ents \cup {EntDoc}
      BY <1>1, LastFrame DEF EntFrames
    <3> QED BY <1>0, <1>s, <1>1, <2>8, <3>1, AccountedMore
  <2>10. Paid(entStack, flags2, entSize, entCopy, ns, entCopy', Len(s), t, 0)
    <3>1. t <= v \/ (Len(s) > 1 /\ t <= v + 1)
      BY <1>1, <2>2, LastFrame
    <3> QED BY <1>0, <1>s, <1>1, <2>1, <2>2, <2>8, <3>1, CheckPays, SMTT(60)
  <2>11. Len(s) = 1 \/ Follows(s, F, P, item, t, t, 0)
    <3> SUFFICES ASSUME Len(s) # 1 PROVE Follows(s, F, P, item, t, t, 0)
      OBVIOUS
    <3>1. item = <<"att", e>> /\ t = 1
      BY <2>1, <2>2 DEF CallItem
    <3>2. Charged(P, item, t) /\ Usual(item) /\ \A f \in Ents : Names(item, f) => f = e
      BY <1>1, <3>1, AttCharged, SMTT(60)
    <3> HIDE DEF item
    <3> QED BY <1>1, <2>1, <3>1, <3>2 DEF Follows
  <2>12. \A y \in Ents : y # e => size2[y] = ns[y]
    BY DEF ns
  <2>13. entCopy' = entCopy \/ ~OverLimit(entCopy', Reached(entStack') + entLoaded + EntPrologue)
    BY <2>3, <2>5
  <2> HIDE DEF item
  <2> QED BY <2>2, <2>4, <2>9, <2>10, <2>11, <2>12, <2>13, NotedMove, ZenonT(60)
<1> QED BY <1>2, <1>3

(* AttCheckKnown: the recorded size is added.                              *)
LEMMA AttCheckKnownBooks ==
  ASSUME EntInv, NEW D, NEW P, NEW B, Balanced(D, P, B), NEW e \in Ents, AttCheckKnown(e), Running'
  PROVE  BalancedNext
<1> DEFINE v == entSize[e]
<1>0. /\ WellStack(entStack) /\ LoopFree(entStack, D) /\ Costs(entStack, D, P)
      /\ FlagsDone(entFlags, D) /\ Known(entFlags, entSize, entYield, P)
      /\ Len(entStack) \in Nat \ {0} /\ entStack \in Seq(EntFrames) /\ entStack # <<>>
  BY Facts
<1>s. entSize \in [Ents -> Nat] /\ v \in Nat
  BY DEF EntInv, EntTypeOK
<1>1. e \in Ents \ Unread /\ CallsItem(entStack, "check", e)
  BY AttCalls DEF AttCheckKnown
<1>2. ~entReplace /\ "checked" \in entFlags[e]
  BY TopMode DEF AttCheckKnown, FullyChecked
<1>3. /\ CheckNoted(entStack, v, entFlags) /\ entSize' = NotedSize(entStack, v, entFlags)
      /\ entFlags' = entFlags /\ entLoaded' = entLoaded /\ entYield' = entYield
  BY DEF AttCheckKnown
<1>4. e \in D /\ Whole(P, e) <= v
  BY <1>0, <1>2 DEF FlagsDone, Known
<1>5. Pend(entStack, B, Len(entStack)) = 0
  BY <1>0, NoPend
<1>6. Noting(entStack, D, P, B, entFlags, e, v)
  <2>1. Len(entStack) <= Depth
    BY <1>0 DEF Depth
  <2> QED BY <1>0, <1>s, <1>1, <1>2, <1>4, <1>5, <2>1 DEF Noting, Onwards, CallsItem
<1>7. NewlyChecked(entFlags, e)
  BY <1>2 DEF NewlyChecked
<1>8. entSize' \in [Ents -> Nat]
  BY <1>s, <1>3, NotedProperties
<1>9. Whole(P, e) <= entSize'[e]
  <2>1. CASE Top.mode = "check"
    BY <1>3, <1>4, <2>1 DEF NotedSize, Top, Depth
  <2>2. CASE Top.mode # "check"
    <3> DEFINE j == EntityCheck(Moved(entStack, 0, 0), entFlags, v, entLoaded)
    <3>1. entSize' = j.size
      BY <1>3, <2>2 DEF NotedSize, Top, Depth
    <3>2. entStack[Len(entStack)].mode = "content"
      BY <2>2 DEF AttCheckKnown, Top, Depth
    <3>3. Advanced(entStack, Moved(entStack, 0, 0), 0, 0)
      BY <1>0, MovedIs
    <3>4. Accounted(entStack[Len(entStack)].ent, entFlags, v, j.copy, j.size)
      BY <1>0, <3>2, <3>3, CheckSize
    <3> HIDE DEF j
    <3>5. entStack[Len(entStack)].ent \in Ents \cup {EntDoc} /\ entCopy \in Nat
      BY <1>0, LastFrame DEF EntFrames, EntInv, EntTypeOK
    <3>6. entSize[e] <= entSize'[e]
      BY <1>s, <3>1, <3>4, <3>5, AccountedMore
    <3>7. Whole(P, e) \in Nat /\ entSize'[e] \in Nat
      <4>1. P \in Prices /\ Len(entBody[e]) \in Nat
        BY <1>0, Facts DEF Costs
      <4> QED BY <1>8, <4>1, WholeNat
    <3> QED BY <1>s, <1>4, <3>6, <3>7
  <2> QED BY <2>1, <2>2
<1>10. \A y \in Ents : y # e => entSize'[y] = NotedSize(entStack, v, entFlags)[y]
  BY <1>3
<1> HIDE DEF v
<1>11. \E P2 : Books(D, P2, B, entStack', entFlags, entSize', entYield, entCopy', entLoaded)
  BY <1>3, <1>6, <1>7, <1>8, <1>9, <1>10, NotedBooks
<1> QED BY <1>3, <1>11 DEF BalancedNext

(* AttChecked: the size that was added up is recorded and added.           *)
LEMMA AttCheckedBooks ==
  ASSUME EntInv, NEW D, NEW P, NEW B, Balanced(D, P, B), Running, AttChecked, Running'
  PROVE  BalancedNext
<1> DEFINE s == Below
           e == Top.ent
           F == D \cup {e}
           v == Top.size
           un == Unmarked
           fl == [un EXCEPT ![e] = @ \cup {"checked", "validated"}]
<1>a. AtEnd("check")
  BY DEF AttChecked
<1>0. /\ WellStack(entStack) /\ Costs(entStack, D, P)
      /\ FlagsDone(entFlags, D) /\ Len(entStack) \in Nat \ {0}
      /\ \A y \in Ents : Len(entBody[y]) \in Nat
  BY Facts
<1>1. /\ WellStack(s) /\ Onwards(s, entStack') /\ s \in Seq(EntFrames) /\ s # <<>>
      /\ s[Len(s)] = entStack[Len(s)] /\ Len(s) \in Nat \ {0} /\ Len(s) = Depth - 1
      /\ Depth \in Nat /\ Depth > 1 /\ e \in Ents /\ e \notin Unread
      /\ Top.mode = "check" /\ Top.pos = Len(entBody[e]) /\ v \in Nat
      /\ LoopFree(s, F) /\ Costs(s, F, P)
      /\ Len(s) # 1 => /\ s[Len(s)].pos < Len(entBody[s[Len(s)].ent])
                       /\ entBody[s[Len(s)].ent][s[Len(s)].pos + 1]
                            = CallItem(s[Len(s)].mode, "check", e)
  BY <1>a, Returns
<1>2. P \in Prices /\ Whole(P, e) \in Nat /\ Whole(P, e) <= v /\ ~entReplace
  <2>1. Depth \in 2..Len(entStack)
    BY <1>0, <1>1 DEF Depth
  <2>2. /\ P[e][Top.pos] + Len(entBody[e]) - Top.pos <= v /\ P \in Prices /\ ~entReplace
    BY <1>0, <1>1, <2>1 DEF Costs, Top
  <2>3. Whole(P, e) \in Nat /\ Len(entBody[e]) \in Nat
    BY <1>0, <1>1, <2>2, WholeNat
  <2>4. P[e][Top.pos] = Whole(P, e)
    BY <1>1 DEF Whole
  <2>5. Whole(P, e) + Len(entBody[e]) - Len(entBody[e]) <= v
    BY <1>1, <2>2, <2>4
  <2> QED BY <1>1, <2>2, <2>3, <2>5
<1>3. /\ entFlags' = fl /\ CheckNoted(s, v, fl)
      /\ entSize' = [NotedSize(s, v, fl) EXCEPT ![e] = v]
      /\ entLoaded' = entLoaded /\ entYield' = entYield
  BY DEF AttChecked
<1>4. SameMarks(entFlags, un) /\ un \in [Ents -> SUBSET {"expanding", "parsed", "checked", "validated"}]
  <2>1. entFlags \in [Ents -> SUBSET {"expanding", "parsed", "checked", "validated"}]
    BY DEF EntInv, EntTypeOK
  <2> QED BY <2>1, UnmarkedSame DEF Unmarked
<1> HIDE DEF s, e, F, v, un
<1>5. /\ fl[e] = un[e] \cup {"checked", "validated"} /\ \A y \in Ents : y # e => fl[y] = un[y]
  BY <1>1, <1>4
<1> HIDE DEF fl
<1>6. NewlyChecked(fl, e)
  <2>1. ASSUME NEW y \in Ents
        PROVE  /\ "parsed" \in entFlags[y] <=> "parsed" \in fl[y]
               /\ "checked" \in entFlags[y] => "checked" \in fl[y]
               /\ y # e /\ "checked" \in fl[y] => "checked" \in entFlags[y]
    <3>1. CASE y = e
      BY <1>4, <1>5, <3>1 DEF SameMarks
    <3>2. CASE y # e
      BY <1>4, <1>5, <3>2 DEF SameMarks
    <3> QED BY <3>1, <3>2
  <2> QED BY <1>5, <2>1 DEF NewlyChecked
<1>7. FlagsDone(fl, F)
  BY <1>0, <1>6 DEF FlagsDone, NewlyChecked, F
<1>8. Pend(entStack, B, Len(s)) = 0
  <2>1. Len(s) + 1 = Depth
    BY <1>1
  <2> QED BY <1>1, <2>1 DEF Pend, Top
<1>9. Noting(s, F, P, B, fl, e, v)
  <2>1. Len(s) <= Depth /\ e \in F
    BY <1>1 DEF F
  <2> QED BY <1>1, <1>2, <1>7, <1>8, <2>1 DEF Noting
<1>10. NotedSize(s, v, fl) \in [Ents -> Nat]
  BY <1>1, NotedProperties
<1>11. /\ entSize' \in [Ents -> Nat] /\ entSize'[e] = v
       /\ \A y \in Ents : y # e => entSize'[y] = NotedSize(s, v, fl)[y]
  BY <1>1, <1>3, <1>10
<1>12. \E P2 : Books(F, P2, B, entStack', fl, entSize', entYield, entCopy', entLoaded)
  <2>1. Whole(P, e) <= entSize'[e]
    BY <1>2, <1>11
  <2>2. CheckNoted(s, v, fl)
    BY <1>3
  <2> QED BY <1>6, <1>9, <1>11, <2>1, <2>2, NotedBooks
<1> QED BY <1>3, <1>12 DEF BalancedNext

-----------------------------------------------------------------------------
(* The accounts are invariant, and the properties follow.                  *)

(* The inductive invariant: while the parser runs, its accounts balance.   *)
EntAccounts == Running => \E D, P, B : Balanced(D, P, B)

(* The replacement texts and the options do not change ...                 *)
LEMMA ConfigReads ==
  ASSUME UNCHANGED entConfig
  PROVE  /\ Unread' = Unread
         /\ \A e \in Ents : Mentions(e)' = Mentions(e)
<1>1. entBody' = entBody /\ entReplace' = entReplace
  BY DEF entConfig
<1> QED BY <1>1 DEF Unread, Readable, Mentions

(* ... so that the accounts can be read in the next state.                 *)
LEMMA ConfigBooks ==
  ASSUME UNCHANGED entConfig, NEW D, NEW P, NEW B,
         Books(D, P, B, entStack', entFlags', entSize', entYield', entCopy', entLoaded')
  PROVE  Balanced(D, P, B)'
<1>1. entBody' = entBody /\ entReplace' = entReplace /\ entTree' = entTree
  BY DEF entConfig
<1>2. Unread' = Unread
  BY ConfigReads
<1>3. Explored(D)' <=> Explored(D)
  <2>1. \A e \in Ents : Mentions(e)' = Mentions(e)
    BY ConfigReads
  <2>2. \A e \in D : D \in SUBSET (Ents \ Unread) => e \in Ents
    OBVIOUS
  <2> QED BY <1>2, <2>1, <2>2 DEF Explored
<1>4. LoopFree(entStack, D)' <=> LoopFree(entStack', D)
  BY <1>1, <1>2, <1>3 DEF LoopFree, FramesRead, Calls
<1>5. \A f \in Ents : Whole(P, f)' = Whole(P, f)
  BY <1>1 DEF Whole
<1>6. Costs(entStack, D, P)' <=> Costs(entStack', D, P)
  <2>2. ASSUME NEW e, NEW n PROVE Priced(P, e, n)' <=> Priced(P, e, n)
    <3>1. Priced(P, e, n)'
            <=> \A k \in 1..n : Charged(P, entBody[e][k], P[e][k] - P[e][k - 1])'
      BY DEF Priced
    <3>2. ASSUME NEW k \in 1..n
          PROVE  Charged(P, entBody[e][k], P[e][k] - P[e][k - 1])'
                   <=> Charged(P, entBody[e][k], P[e][k] - P[e][k - 1])
      BY <1>1, <1>2, <1>5 DEF Charged
    <3> QED BY <3>1, <3>2 DEF Priced
  <2> QED BY <1>1, <2>2 DEF Costs
<1>7. Known(entFlags, entSize, entYield, P)' <=> Known(entFlags', entSize', entYield', P)
  BY <1>5 DEF Known
<1>8. Budget(entStack, entFlags, entSize, entCopy, B)'
        <=> Budget(entStack', entFlags', entSize', entCopy', B)
  BY <1>1 DEF Budget, Pend
<1>9. Limit(entStack, entCopy, entLoaded)' <=> Limit(entStack', entCopy', entLoaded')
  BY DEF Limit, Reached, OverLimit
<1>10. FlagsDone(entFlags, D)' <=> FlagsDone(entFlags', D)
  BY DEF FlagsDone
<1> QED BY <1>4, <1>6, <1>7, <1>8, <1>9, <1>10 DEF Balanced, Books

(* Every step that leaves the parser running keeps the accounts.           *)
LEMMA AccountsStep ==
  ASSUME EntInv, EntAccounts, [EntNext]_entVars
  PROVE  EntAccounts'
<1> SUFFICES ASSUME Running' PROVE (\E D, P, B : Balanced(D, P, B))'
  BY DEF EntAccounts
<1>1. CASE UNCHANGED entVars
  <2>1. Running
    BY <1>1 DEF Running, entVars
  <2>2. PICK D, P, B : Balanced(D, P, B)
    BY <2>1 DEF EntAccounts
  <2>3. Books(D, P, B, entStack', entFlags', entSize', entYield', entCopy', entLoaded')
        /\ UNCHANGED entConfig
    BY <1>1, <2>2 DEF Balanced, entVars, entConfig
  <2> QED BY <2>3, ConfigBooks
<1>2. CASE EntNext
  <2>1. Running
    BY <1>2, ZenonT(60) DEF EntNext, EntText, AttIllegal, RefKnown, RefParse, AttExpand, AttCheck,
                AttCheckKnown, AttReference, NextItem, RefParsed, AttExpanded, AttChecked, Running
  <2>2. PICK D, P, B : Balanced(D, P, B)
    BY <2>1 DEF EntAccounts
  <2>3. UNCHANGED entConfig
    <3>1. \A error : Stop(error) => UNCHANGED entConfig
      BY DEF Stop
    <3>2. \A error : \A e \in Ents : RefRefused(e, error) => UNCHANGED entConfig
      BY DEF RefRefused
    <3> QED BY <1>2, <3>1, <3>2 DEF EntNext, EntText, AttIllegal, RefKnown, RefParse, AttExpand,
                AttCheck, AttCheckKnown, RefParsed, AttExpanded, AttChecked
  <2>4. BalancedNext
    <3>1. CASE EntText
      BY <2>2, <3>1, TextBooks
    <3>2. ASSUME AttIllegal PROVE FALSE
      BY <3>2 DEF AttIllegal, Stop, Running
    <3>3. ASSUME NEW e \in Ents, RefKnown(e) PROVE BalancedNext
      BY <2>2, <3>3, RefKnownBooks
    <3>4. ASSUME NEW e \in Ents, RefParse(e) PROVE BalancedNext
      BY <2>2, <3>4, RefParseBooks
    <3>5. ASSUME NEW e \in Ents, AttExpand(e) PROVE BalancedNext
      BY <2>2, <3>5, AttExpandBooks
    <3>6. ASSUME NEW e \in Ents, AttCheck(e) PROVE BalancedNext
      BY <2>2, <3>6, AttCheckBooks
    <3>7. ASSUME NEW e \in Ents, AttCheckKnown(e) PROVE BalancedNext
      BY <2>2, <3>7, AttCheckKnownBooks
    <3>8. CASE RefParsed
      BY <2>1, <2>2, <3>8, RefParsedBooks
    <3>9. CASE AttExpanded
      BY <2>1, <2>2, <3>9, AttExpandedBooks
    <3>10. CASE AttChecked
      BY <2>1, <2>2, <3>10, AttCheckedBooks
    <3> QED BY <1>2, <3>1, <3>2, <3>3, <3>4, <3>5, <3>6, <3>7, <3>8, <3>9, <3>10 DEF EntNext
  <2> QED BY <2>3, <2>4, ConfigBooks, SMTT(60) DEF BalancedNext
<1> QED BY <1>1, <1>2

(* They hold when nothing was read.                                        *)
LEMMA AccountsInit == EntInit => EntAccounts
<1> SUFFICES ASSUME EntInit PROVE \E D, P, B : Balanced(D, P, B)
  BY DEF EntAccounts
<1> DEFINE P == [e \in Ents |-> [n \in Nat |-> 0]]
           B == [n \in Nat |-> 0]
<1>1. Len(entStack) = 1 /\ entStack[1].pos = 0 /\ entStack[1].text = 0
  BY DEF EntInit
<1>2. LoopFree(entStack, {})
  BY <1>1 DEF LoopFree, Explored, FramesRead, Calls
<1>3. FlagsDone(entFlags, {})
  BY DEF EntInit, FlagsDone
<1>4. Costs(entStack, {}, P)
  <2>1. P \in Prices /\ \A e \in Ents : P[e][0] = 0
    BY DEF Prices
  <2> HIDE DEF P
  <2> QED BY <1>1, <2>1 DEF Costs
<1>5. Known(entFlags, entSize, entYield, P)
  BY DEF EntInit, Known
<1>6. Budget(entStack, entFlags, entSize, entCopy, B)
  <2>1. B \in [Nat -> Nat]
    OBVIOUS
  <2>2. Pend(entStack, B, 1) = 0 /\ entCopy = 0
    BY <1>1 DEF Pend, EntInit
  <2> HIDE DEF B
  <2> QED BY <1>1, <2>1, <2>2 DEF Budget
<1>7. Limit(entStack, entCopy, entLoaded)
  <2>1. entCopy = 0 /\ entLoaded = 0 /\ EntAllowed \in Nat
    BY EntAssumption DEF EntInit
  <2> QED BY <2>1 DEF Limit, OverLimit
<1> HIDE DEF P, B
<1> QED BY <1>2, <1>3, <1>4, <1>5, <1>6, <1>7 DEF Balanced, Books

(* The accounts give both properties.                                      *)
LEMMA AccountsLoops ==
  ASSUME EntInv, EntAccounts
  PROVE  EntLoopsRejected
<1> SUFFICES ASSUME Running, NEW S \in SUBSET {e \in Ents : "checked" \in entFlags[e]}, S # {}
             PROVE  \E e \in S : Mentions(e) \cap S = {}
  BY DEF EntLoopsRejected
<1>1. PICK D, P, B : Balanced(D, P, B)
  BY DEF EntAccounts
<1>2. FlagsDone(entFlags, D) /\ Explored(D)
  BY <1>1 DEF Balanced, Books, LoopFree
<1>3. S \in SUBSET D
  BY <1>2 DEF FlagsDone
<1> QED BY <1>2, <1>3 DEF Explored

(* The document has received no more than was counted, and the limit       *)
(* bounds the count.                                                       *)
LEMMA AccountsAmplification ==
  ASSUME EntInv, EntAccounts
  PROVE  EntAmplification
<1> SUFFICES ASSUME Depth = 1, Running
             PROVE  \/ entStack[1].text <= EntAllowed
                    \/ entStack[1].text <= EntMaxAmpl * (Consumed(entStack[1], entLoaded) + 1)
  BY DEF EntAmplification
<1> DEFINE a == Consumed(entStack[1], entLoaded)
           text == entStack[1].text
<1>1. PICK D, P, B : Balanced(D, P, B)
  BY DEF EntAccounts
<1>2. /\ WellStack(entStack) /\ Budget(entStack, entFlags, entSize, entCopy, B)
      /\ Limit(entStack, entCopy, entLoaded) /\ entCopy \in Nat /\ entLoaded \in Nat
      /\ Len(entStack) = 1
  BY <1>1, Facts DEF Depth
<1>3. entStack[1].text \in Nat /\ entStack[1].pos \in Nat /\ entStack[1].ent = EntDoc
  BY <1>2, FrameEnt DEF EntFrames, WellStack
<1>4. Pend(entStack, B, 1) = 0 /\ text + Pend(entStack, B, 1) <= entCopy
  BY <1>2 DEF Pend, Budget
<1>5. text \in Nat /\ text <= entCopy
  BY <1>2, <1>3, <1>4
<1>6. a = entStack[1].pos + entLoaded + EntPrologue /\ a \in Nat
  BY <1>2, <1>3, EntAssumption DEF Consumed
<1>7. ~OverLimit(entCopy, a)
  BY <1>2, <1>6 DEF Limit, Reached
<1> HIDE DEF a, text
<1>8. text <= EntAllowed \/ text <= EntMaxAmpl * (a + 1)
  BY <1>2, <1>5, <1>6, <1>7, LimitText
<1> QED BY <1>8 DEF a, text

(* While the parser runs its accounts balance: what was delivered is what  *)
(* the entities cost, the counters cover it, and entities that were        *)
(* followed to their end refer to each other without a cycle               *)
(* (parser.c:434-477, 3691-3950).                                          *)
THEOREM EntAccountsHold == EntSpec => []EntAccounts
<1>1. EntInv /\ EntAccounts /\ [EntNext]_entVars => EntAccounts'
  BY AccountsStep
<1> QED BY <1>1, AccountsInit, EntInvariant, PTL DEF EntSpec

(* An entity that contains itself through any chain of contents and        *)
(* attribute values is never accepted: the entities checked in a document  *)
(* without error have no cycle (entities.h:13).                            *)
THEOREM EntLoops == EntSpec => []EntLoopsRejected
<1>1. EntInv /\ EntAccounts => EntLoopsRejected
  BY AccountsLoops
<1> QED BY <1>1, EntInvariant, EntAccountsHold, PTL

(* What entities deliver into a document is bounded by its size, however   *)
(* they are nested, repeated, cached or parsed again (parser.c:433-478).   *)
THEOREM EntAmplified == EntSpec => []EntAmplification
<1>1. EntInv /\ EntAccounts => EntAmplification
  BY AccountsAmplification
<1> QED BY <1>1, EntInvariant, EntAccountsHold, PTL
=============================================================================
