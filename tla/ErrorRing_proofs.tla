-------------------------- MODULE ErrorRing_proofs --------------------------
(***************************************************************************)
(* Proofs about error reporting for any contexts, errors, limits and ring  *)
(* sizes: no fatal error is lost, the list of entries and the rings in it  *)
(* stay well formed and implement the log of ErrorLog, and repeated errors *)
(* are suppressed.                                                         *)
(***************************************************************************)
EXTENDS ErrorRing, TLAPS

CtxtType ==
  [alive : BOOLEAN, recovery : BOOLEAN, nbErrors : Nat, nbWarnings : Nat,
   wellFormed : BOOLEAN, disableSAX : 0..2, errNo : BOOLEAN,
   lastError : Storable \cup {NoError}, inHandler : BOOLEAN]

SeenType == [limit : Nat, fatal : BOOLEAN, recorded : BOOLEAN, reports : [Errors -> Nat]]

RingType == ctxt \in [Ctxts -> CtxtType] /\ seen \in [Ctxts -> SeenType]

(* A context is not well-formed because a fatal error was recorded, or it  *)
(* has stopped: this is why the error limit, which cuts off a fatal error  *)
(* only where the document is not well-formed any more, hides none.        *)
IllFormedExplained ==
  \A c \in Ctxts : ctxt[c].alive /\ ~ctxt[c].wellFormed =>
    seen[c].recorded \/ ctxt[c].disableSAX = 2

FatalInv == RingType /\ FatalNeverLost /\ IllFormedExplained

-----------------------------------------------------------------------------
(* Types.                                                                  *)

(* A context that is created or reset.                                     *)
LEMMA FreshType ==
  ASSUME NEW r \in BOOLEAN
  PROVE  /\ FreshCtxt(r) \in CtxtType
         /\ [FreshCtxt(r) EXCEPT !.alive = FALSE] \in CtxtType
         /\ NothingSeen \in SeenType
<1>1. 0 \in Nat /\ 0 \in 0..2
  OBVIOUS
<1>2. FreshCtxt(r) \in CtxtType
  BY <1>1, Zenon DEF FreshCtxt, CtxtType
<1>3. [FreshCtxt(r) EXCEPT !.alive = FALSE] \in CtxtType
  BY <1>2, Zenon DEF CtxtType
<1>4. NothingSeen \in SeenType
  BY <1>1, Zenon DEF NothingSeen, SeenType
<1> QED BY <1>2, <1>3, <1>4

(* A context that takes an error.                                          *)
LEMMA CountedType ==
  ASSUME NEW x \in CtxtType, NEW e \in Errors, NEW s \in BOOLEAN
  PROVE  Counted(x, e, s) \in CtxtType
<1> DEFINE more == IF s THEN 0 ELSE 1
           sax == IF e.kind # "plain" THEN 2
                  ELSE IF e.level = "fatal" /\ ~x.recovery THEN 1 ELSE x.disableSAX
           formed == x.wellFormed /\ e.level # "fatal"
<1>1. x.nbWarnings + more \in Nat /\ x.nbErrors + more \in Nat /\ sax \in 0..2
  BY DEF CtxtType
<1>2. formed \in BOOLEAN
  BY Zenon
<1>3. [x EXCEPT !.nbWarnings = x.nbWarnings + more] \in CtxtType
  BY <1>1, Zenon DEF CtxtType
<1>4. [x EXCEPT !.nbErrors = x.nbErrors + more, !.errNo = TRUE,
               !.wellFormed = formed, !.disableSAX = sax] \in CtxtType
  BY <1>1, <1>2, ZenonT(60) DEF CtxtType
<1> QED BY <1>3, <1>4, Zenon DEF Counted

LEMMA LastType ==
  ASSUME NEW x \in CtxtType, NEW e \in Storable
  PROVE  WithLast(x, e) \in CtxtType
BY Zenon DEF WithLast, CtxtType

LEMMA MemoryType ==
  ASSUME NEW x \in CtxtType
  PROVE  OutOfMemory(x) \in CtxtType
<1>1. 2 \in 0..2 /\ MemoryError \in Storable
  BY DEF Storable
<1> QED BY <1>1, Zenon DEF OutOfMemory, CtxtType

(* The notices of the library can be stored.                               *)
LEMMA NoticeStorable ==
  /\ \A e \in Errors : e \in Storable /\ LimitNotice(e.level) \in Storable
  /\ \A x \in CtxtType : UserStop(LevelOf(x.lastError)) \in Storable
<1>1. \A e \in Errors : e \in Storable /\ LimitNotice(e.level) \in Storable
  BY ErrorsAssumption, Zenon DEF Storable
<1>2. \A x \in CtxtType : UserStop(LevelOf(x.lastError)) \in Storable
  <2> SUFFICES ASSUME NEW x \in CtxtType
               PROVE  LevelOf(x.lastError) \in Levels \cup {"none"}
    BY Zenon DEF Storable
  <2>1. x.lastError \in Storable \cup {NoError}
    BY Zenon DEF CtxtType
  <2>2. \A e \in Storable : e.level \in Levels \cup {"none"}
    BY ErrorsAssumption DEF Storable, LimitNotice, MemoryError, UserStop, Levels
  <2> QED BY <2>1, <2>2, Zenon DEF LevelOf
<1> QED BY <1>1, <1>2

(* Every call keeps the types of contexts and history.                     *)
LEMMA TypeStep ==
  ASSUME RingType, [RingNext]_ringVars
  PROVE  RingType'
<1> USE DEF RingType
<1>1. ASSUME NEW c \in Ctxts, NEW r \in BOOLEAN, xmlNewParserCtxt(c, r) PROVE RingType'
  BY <1>1, FreshType DEF xmlNewParserCtxt
<1>2. ASSUME NEW c \in Ctxts, xmlCtxtReset(c) PROVE RingType'
  <2>1. ctxt[c] \in CtxtType /\ seen[c] \in SeenType /\ ctxt[c].recovery \in BOOLEAN
    BY DEF CtxtType
  <2>2. FreshCtxt(ctxt[c].recovery) \in CtxtType /\ NothingSeen \in SeenType
    BY <2>1, FreshType
  <2>3. [NothingSeen EXCEPT !.limit = seen[c].limit, !.reports = seen[c].reports] \in SeenType
    BY <2>1, <2>2, Zenon DEF SeenType
  <2> QED BY <1>2, <2>2, <2>3, Zenon DEF xmlCtxtReset
<1>3. ASSUME NEW c \in Ctxts, xmlStopParser(c) PROVE RingType'
  <2> DEFINE x == ctxt[c]
             stop == UserStop(LevelOf(x.lastError))
             y == [x EXCEPT !.disableSAX = 2]
             z == [x EXCEPT !.disableSAX = 2, !.errNo = TRUE, !.wellFormed = FALSE,
                            !.lastError = stop]
  <2>1. x \in CtxtType /\ 2 \in 0..2
    OBVIOUS
  <2>2. stop \in Storable
    BY <2>1, NoticeStorable
  <2>3. y \in CtxtType /\ z \in CtxtType
    BY <2>1, <2>2, Zenon DEF CtxtType
  <2>4. ctxt' = [ctxt EXCEPT ![c] = IF x.errNo THEN y ELSE z]
    BY <1>3, Zenon DEF xmlStopParser
  <2> HIDE DEF x, y, z
  <2>5. ctxt' \in [Ctxts -> CtxtType]
    BY <2>3, <2>4, Zenon
  <2> QED BY <1>3, <2>5, Zenon DEF xmlStopParser
<1>4. ASSUME NEW c \in Ctxts, xmlFreeParserCtxt(c) PROVE RingType'
  BY <1>4, FreshType DEF xmlFreeParserCtxt
<1>5. ASSUME NEW c \in Ctxts, NEW e \in Errors, VErrLimited(c, e) PROVE RingType'
  <2> DEFINE x == IF e.level = "warning" THEN [ctxt[c] EXCEPT !.nbWarnings = @ + 1]
                  ELSE [ctxt[c] EXCEPT !.nbErrors = @ + 1]
             n == IF Enters(c, e) THEN 0 ELSE seen[c].reports[e]
             f == seen[c].fatal \/ e.level = "fatal"
  <2>1. x \in CtxtType
    <3>1. ctxt[c].nbWarnings + 1 \in Nat /\ ctxt[c].nbErrors + 1 \in Nat
      BY DEF CtxtType
    <3> QED BY <3>1, ZenonT(60) DEF CtxtType
  <2>2. WithLast(x, LimitNotice(e.level)) \in CtxtType
    BY <2>1, LastType, NoticeStorable, Zenon
  <2>3. n \in Nat /\ f \in BOOLEAN /\ seen[c].recorded \in BOOLEAN
    BY DEF SeenType
  <2>4. [seen[c] EXCEPT !.fatal = f, !.reports[e] = n] \in SeenType
    BY <2>3, Zenon DEF SeenType
  <2> HIDE DEF x, n, f
  <2>5. ctxt' \in [Ctxts -> CtxtType]
    BY <1>5, <2>2, Zenon DEF VErrLimited, x
  <2>6. seen' \in [Ctxts -> SeenType]
    BY <1>5, <2>4 DEF VErrLimited, n, f
  <2> QED BY <2>5, <2>6
<1>6. ASSUME NEW c \in Ctxts, NEW e \in Errors, VErrSuppressed(c, e) PROVE RingType'
  <2> DEFINE x == Counted(ctxt[c], e, TRUE)
             f == seen[c].fatal \/ e.level = "fatal"
             g == seen[c].recorded \/ e.level = "fatal"
  <2>1. WithLast(x, e) \in CtxtType /\ OutOfMemory(x) \in CtxtType
    BY CountedType, LastType, MemoryType, NoticeStorable, Zenon
  <2>2. f \in BOOLEAN /\ g \in BOOLEAN
    BY Zenon
  <2>3. [seen[c] EXCEPT !.fatal = f, !.recorded = g] \in SeenType
    BY <2>2, Zenon DEF SeenType
  <2> HIDE DEF x, f, g
  <2>4. ctxt' \in [Ctxts -> CtxtType]
    BY <1>6, <2>1, Zenon DEF VErrSuppressed, x
  <2>5. seen' \in [Ctxts -> SeenType]
    BY <1>6, <2>3 DEF VErrSuppressed, f, g
  <2> QED BY <2>4, <2>5
<1>7. ASSUME NEW c \in Ctxts, NEW e \in Errors, VErrReport(c, e) PROVE RingType'
  <2> DEFINE x == Counted(ctxt[c], e, FALSE)
             f == seen[c].fatal \/ e.level = "fatal"
             g == seen[c].recorded \/ e.level = "fatal"
             n == IF Enters(c, e) THEN 1
                  ELSE IF DedupOn(c) THEN seen[c].reports[e] + 1 ELSE seen[c].reports[e]
  <2>1. WithLast(x, e) \in CtxtType /\ OutOfMemory(x) \in CtxtType
    BY CountedType, LastType, MemoryType, NoticeStorable, Zenon
  <2>2. [WithLast(x, e) EXCEPT !.inHandler = TRUE] \in CtxtType
    BY <2>1, Zenon DEF CtxtType
  <2>3. f \in BOOLEAN /\ g \in BOOLEAN
    BY Zenon
  <2>4. n \in Nat
    BY DEF SeenType
  <2>5. [seen[c] EXCEPT !.fatal = f, !.recorded = g, !.reports[e] = n] \in SeenType
    BY <2>3, <2>4, ZenonT(60) DEF SeenType
  <2> HIDE DEF x, f, g, n
  <2>6. ctxt' \in [Ctxts -> CtxtType]
    BY <1>7, <2>1, <2>2, Zenon DEF VErrReport, x
  <2>7. seen' \in [Ctxts -> SeenType]
    BY <1>7, <2>5 DEF VErrReport, f, g, n
  <2> QED BY <2>6, <2>7
<1>8. ASSUME NEW c \in Ctxts, StoreErrorRing(c) PROVE RingType'
  <2>1. [ctxt[c] EXCEPT !.inHandler = FALSE] \in CtxtType
    BY Zenon DEF CtxtType
  <2> QED BY <1>8, <2>1 DEF StoreErrorRing
<1>9. ASSUME NEW c \in Ctxts, NEW n \in RingSizes, xmlCtxtSetErrorRingSize(c, n) PROVE RingType'
  BY <1>9 DEF xmlCtxtSetErrorRingSize
<1>10. ASSUME NEW c \in Ctxts, NEW n \in DedupLimits, xmlCtxtSetErrorDedup(c, n)
       PROVE  RingType'
  <2>1. n \in Nat
    BY BoundsAssumption
  <2>2. [seen[c] EXCEPT !.limit = n] \in SeenType
    BY <2>1, Zenon DEF SeenType
  <2> QED BY <1>10, <2>2 DEF xmlCtxtSetErrorDedup
<1>11. ASSUME NEW c \in Ctxts, xmlCtxtResetErrorRing(c) PROVE RingType'
  BY <1>11 DEF xmlCtxtResetErrorRing
<1>12. ASSUME NEW c \in Ctxts, xmlCtxtResetErrorDedup(c) PROVE RingType'
  BY <1>12 DEF xmlCtxtResetErrorDedup
<1>13. CASE UNCHANGED ringVars
  BY <1>13 DEF ringVars
<1> QED
  BY <1>1, <1>2, <1>3, <1>4, <1>5, <1>6, <1>7, <1>8, <1>9, <1>10, <1>11, <1>12, <1>13
  DEF RingNext, Raise

-----------------------------------------------------------------------------
(* No fatal error is lost.                                                 *)

(* The invariant for one context and its history.                          *)
Explained(x, s) ==
  x.alive => /\ s.fatal => ~x.wellFormed /\ s.recorded
             /\ ~x.wellFormed => s.recorded \/ x.disableSAX = 2

(* It is enough to look at the context a call is about.                    *)
LEMMA OneContext ==
  ASSUME RingType, RingType', NEW c \in Ctxts, FatalNeverLost, IllFormedExplained,
         \A d \in Ctxts \ {c} : ctxt'[d] = ctxt[d] /\ seen'[d] = seen[d],
         Explained(ctxt[c], seen[c]) => Explained(ctxt'[c], seen'[c])
  PROVE  FatalNeverLost' /\ IllFormedExplained'
<1>1. \A d \in Ctxts : Explained(ctxt[d], seen[d])
  BY DEF FatalNeverLost, IllFormedExplained, Explained
<1>2. \A d \in Ctxts : Explained(ctxt'[d], seen'[d])
  BY <1>1, Zenon
<1> QED BY <1>2 DEF FatalNeverLost, IllFormedExplained, Explained

(* What the operators on contexts do to the fields it is about.            *)
LEMMA CountedFields ==
  ASSUME NEW x \in CtxtType, NEW e \in Errors, NEW s \in BOOLEAN
  PROVE  LET y == Counted(x, e, s) IN
         /\ y.alive = x.alive
         /\ y.wellFormed <=> x.wellFormed /\ e.level # "fatal"
         /\ x.disableSAX = 2 => y.disableSAX = 2 \/ (e.level = "fatal" /\ e.kind = "plain")
BY ErrorsAssumption DEF Counted, CtxtType, Levels, Kinds

LEMMA LastFields ==
  ASSUME NEW x \in CtxtType, NEW e \in Storable
  PROVE  LET y == WithLast(x, e) IN
         y.alive = x.alive /\ y.wellFormed = x.wellFormed /\ y.disableSAX = x.disableSAX
BY DEF WithLast, CtxtType

LEMMA FatalStep ==
  ASSUME FatalInv, [RingNext]_ringVars
  PROVE  FatalInv'
<1> USE DEF FatalInv
<1>0. RingType'
  BY TypeStep
<1> DEFINE Kept(c) == /\ \A d \in Ctxts \ {c} : ctxt'[d] = ctxt[d] /\ seen'[d] = seen[d]
                      /\ Explained(ctxt[c], seen[c]) => Explained(ctxt'[c], seen'[c])
<1>1. ASSUME NEW c \in Ctxts, NEW r \in BOOLEAN, xmlNewParserCtxt(c, r) PROVE Kept(c)
  BY <1>1 DEF xmlNewParserCtxt, RingType, Explained, FreshCtxt, NothingSeen
<1>2. ASSUME NEW c \in Ctxts, xmlCtxtReset(c) PROVE Kept(c)
  BY <1>2 DEF xmlCtxtReset, RingType, Explained, FreshCtxt, NothingSeen
<1>3. ASSUME NEW c \in Ctxts, xmlStopParser(c) PROVE Kept(c)
  BY <1>3 DEF xmlStopParser, RingType, Explained, CtxtType
<1>4. ASSUME NEW c \in Ctxts, xmlFreeParserCtxt(c) PROVE Kept(c)
  BY <1>4 DEF xmlFreeParserCtxt, RingType, Explained, FreshCtxt, NothingSeen
<1>5. ASSUME NEW c \in Ctxts, NEW e \in Errors, VErrLimited(c, e) PROVE Kept(c)
  <2> DEFINE x == IF e.level = "warning" THEN [ctxt[c] EXCEPT !.nbWarnings = @ + 1]
                  ELSE [ctxt[c] EXCEPT !.nbErrors = @ + 1]
             y == WithLast(x, LimitNotice(e.level))
  <2>1. x \in CtxtType
    <3>1. ctxt[c].nbWarnings + 1 \in Nat /\ ctxt[c].nbErrors + 1 \in Nat
      BY DEF RingType, CtxtType
    <3> QED BY <3>1, ZenonT(60) DEF RingType, CtxtType
  <2>2. /\ x.alive = ctxt[c].alive /\ x.wellFormed = ctxt[c].wellFormed
        /\ x.disableSAX = ctxt[c].disableSAX
    BY DEF RingType, CtxtType
  <2>3. /\ y.alive = x.alive /\ y.wellFormed = x.wellFormed
        /\ y.disableSAX = x.disableSAX
    BY <2>1, LastFields, NoticeStorable
  <2>4. ctxt'[c] \in {y, ctxt[c]} /\ (\A d \in Ctxts \ {c} : ctxt'[d] = ctxt[d])
    BY <1>5, Zenon DEF VErrLimited, RingType
  <2>5. /\ \A d \in Ctxts \ {c} : seen'[d] = seen[d]
        /\ seen'[c].fatal <=> seen[c].fatal \/ e.level = "fatal"
        /\ seen'[c].recorded = seen[c].recorded
    BY <1>5, ZenonT(60) DEF VErrLimited, RingType, SeenType
  <2>6. e.level = "fatal" => ~ctxt[c].wellFormed /\ ctxt[c].disableSAX < 2
    BY <1>5 DEF VErrLimited, CanRaise, CutOff
  <2> HIDE DEF x, y
  <2>7. e.level = "fatal" /\ ctxt[c].alive /\ Explained(ctxt[c], seen[c])
          => ~ctxt[c].wellFormed /\ seen[c].recorded
    BY <2>6 DEF Explained, RingType, CtxtType
  <2>8. Explained(ctxt[c], seen[c]) => Explained(ctxt'[c], seen'[c])
    BY <2>2, <2>3, <2>4, <2>5, <2>7, Zenon DEF Explained
  <2> QED BY <2>4, <2>5, <2>8
<1>6. ASSUME NEW c \in Ctxts, NEW e \in Errors, VErrSuppressed(c, e) PROVE Kept(c)
  <2> DEFINE x == Counted(ctxt[c], e, TRUE)
             w == WithLast(x, e)
             m == OutOfMemory(x)
  <2>1. x \in CtxtType
    BY CountedType DEF RingType
  <2>2. x.alive = ctxt[c].alive /\ (x.wellFormed <=> ctxt[c].wellFormed /\ e.level # "fatal")
    BY CountedFields DEF RingType
  <2>3. w.alive = x.alive /\ w.wellFormed = x.wellFormed /\ w.disableSAX = x.disableSAX
    BY <2>1, LastFields, NoticeStorable
  <2>4. m.alive = x.alive /\ m.wellFormed = FALSE /\ m.disableSAX = 2
    BY <2>1 DEF OutOfMemory, CtxtType
  <2>5. ctxt'[c] \in {w, m} /\ (\A d \in Ctxts \ {c} : ctxt'[d] = ctxt[d])
    BY <1>6, Zenon DEF VErrSuppressed, RingType
  <2>6. /\ \A d \in Ctxts \ {c} : seen'[d] = seen[d]
        /\ seen'[c].fatal <=> seen[c].fatal \/ e.level = "fatal"
        /\ seen'[c].recorded <=> seen[c].recorded \/ e.level = "fatal"
    BY <1>6 DEF VErrSuppressed, RingType, SeenType
  <2>7. ctxt[c].disableSAX # 2
    BY <1>6 DEF VErrSuppressed, CanRaise, RingType, CtxtType
  <2> HIDE DEF x, w, m
  <2>8. Explained(ctxt[c], seen[c]) => Explained(ctxt'[c], seen'[c])
    BY <2>2, <2>3, <2>4, <2>5, <2>6, <2>7, Zenon DEF Explained
  <2> QED BY <2>5, <2>6, <2>8
<1>7. ASSUME NEW c \in Ctxts, NEW e \in Errors, VErrReport(c, e) PROVE Kept(c)
  <2> DEFINE x == Counted(ctxt[c], e, FALSE)
             w == WithLast(x, e)
             z == [WithLast(x, e) EXCEPT !.inHandler = TRUE]
             m == OutOfMemory(x)
  <2>1. x \in CtxtType
    BY CountedType DEF RingType
  <2>2. x.alive = ctxt[c].alive /\ (x.wellFormed <=> ctxt[c].wellFormed /\ e.level # "fatal")
    BY CountedFields DEF RingType
  <2>3. w.alive = x.alive /\ w.wellFormed = x.wellFormed /\ w.disableSAX = x.disableSAX
    BY <2>1, LastFields, NoticeStorable
  <2>9. z.alive = x.alive /\ z.wellFormed = x.wellFormed /\ z.disableSAX = x.disableSAX
    <3>1. WithLast(x, e) \in CtxtType
      BY <2>1, LastType, NoticeStorable
    <3> QED BY <3>1, <2>3 DEF CtxtType
  <2>4. m.alive = x.alive /\ m.wellFormed = FALSE /\ m.disableSAX = 2
    BY <2>1 DEF OutOfMemory, CtxtType
  <2>5. ctxt'[c] \in {z, m} /\ (\A d \in Ctxts \ {c} : ctxt'[d] = ctxt[d])
    BY <1>7, Zenon DEF VErrReport, RingType
  <2>6. /\ \A d \in Ctxts \ {c} : seen'[d] = seen[d]
        /\ seen'[c].fatal <=> seen[c].fatal \/ e.level = "fatal"
        /\ seen'[c].recorded <=> seen[c].recorded \/ e.level = "fatal"
    BY <1>7 DEF VErrReport, RingType, SeenType
  <2>7. ctxt[c].disableSAX # 2
    BY <1>7 DEF VErrReport, CanRaise, RingType, CtxtType
  <2> HIDE DEF x, w, m, z
  <2>8. Explained(ctxt[c], seen[c]) => Explained(ctxt'[c], seen'[c])
    BY <2>2, <2>3, <2>9, <2>4, <2>5, <2>6, <2>7, Zenon DEF Explained
  <2> QED BY <2>5, <2>6, <2>8
<1>8. ASSUME NEW c \in Ctxts, StoreErrorRing(c) PROVE Kept(c)
  BY <1>8 DEF StoreErrorRing, RingType, Explained, CtxtType
<1>10. ASSUME NEW c \in Ctxts, NEW n \in RingSizes, xmlCtxtSetErrorRingSize(c, n) PROVE Kept(c)
  BY <1>10 DEF xmlCtxtSetErrorRingSize
<1>11. ASSUME NEW c \in Ctxts, NEW n \in DedupLimits, xmlCtxtSetErrorDedup(c, n) PROVE Kept(c)
  BY <1>11 DEF xmlCtxtSetErrorDedup, RingType, Explained, SeenType
<1>12. ASSUME NEW c \in Ctxts, xmlCtxtResetErrorRing(c) PROVE Kept(c)
  BY <1>12 DEF xmlCtxtResetErrorRing
<1>13. ASSUME NEW c \in Ctxts, xmlCtxtResetErrorDedup(c) PROVE Kept(c)
  BY <1>13 DEF xmlCtxtResetErrorDedup
<1>14. ASSUME NEW c \in Ctxts, Kept(c) PROVE FatalInv'
  BY <1>0, <1>14, OneContext
<1>15. CASE UNCHANGED ringVars
  BY <1>0, <1>15 DEF ringVars, FatalNeverLost, IllFormedExplained
<1> HIDE DEF Kept
<1> QED
  BY <1>1, <1>2, <1>3, <1>4, <1>5, <1>6, <1>7, <1>8, <1>10, <1>11, <1>12, <1>13, <1>14, <1>15
  DEF RingNext, Raise

(* A document with a fatal error is not well-formed, and a fatal error of  *)
(* it was recorded, whatever the limit on errors and the suppression of    *)
(* repeated ones cut off (xmlCtxtVErr, parserInternals.c:1132-1164).       *)
THEOREM FatalReported == RingSpec => []FatalNeverLost
<1>1. RingInit => FatalInv
  <2> SUFFICES ASSUME RingInit PROVE FatalInv
    OBVIOUS
  <2>1. RingType
    BY FreshType DEF RingInit, RingType
  <2> QED BY <2>1 DEF RingInit, FatalInv, FatalNeverLost, IllFormedExplained, FreshCtxt
<1>2. FatalInv /\ [RingNext]_ringVars => FatalInv'
  BY FatalStep
<1>3. FatalInv => FatalNeverLost
  BY DEF FatalInv
<1> QED BY <1>1, <1>2, <1>3, PTL DEF RingSpec

-----------------------------------------------------------------------------
(* Entries.                                                                *)

Slots == Storable \cup {NoError}
RepeatSlots == [0..(DedupSize - 1) -> [fingerprint : Errors \cup {NoError}, count : Nat]]

EntryType ==
  [ctxt : Ctxts,
   errors : {Null} \cup UNION {[0..(n - 1) -> Slots] : n \in Nat \ {0}},
   size : Nat, count : Nat, next : Nat, dedupLimit : Nat,
   dedup : {Null} \cup RepeatSlots, dedupCount : Nat, dedupNext : Nat]

(* The ring of an entry: RingShape for one entry, with the slots it has.   *)
GoodRing(en) ==
  /\ (en.size > 0) = (en.errors # Null)
  /\ en.size > 0 => en.errors \in [0..(en.size - 1) -> Slots]
  /\ en.count <= en.size
  /\ en.size > 0 =>
       /\ en.next < en.size
       /\ en.count < en.size => en.next = en.count
       /\ \A j \in 0..(en.size - 1) : (en.errors[j] # NoError) = (j < en.count)

(* The table of repeated errors: it holds an error once.                   *)
GoodRepeats(en) ==
  /\ en.dedup # Null => en.dedupCount <= DedupSize /\ en.dedupNext < DedupSize
  /\ \A i, j \in 0..(en.dedupCount - 1) :
       en.dedup # Null /\ en.dedup[i].fingerprint = en.dedup[j].fingerprint => i = j

GoodEntry(en) == en \in EntryType /\ GoodRing(en) /\ GoodRepeats(en)

(* An array with slots is not the NULL array.                              *)
LEMMA NotNull ==
  ASSUME NEW n \in Nat \ {0}, NEW S, NEW f \in [0..(n - 1) -> S]
  PROVE  f # Null
<1>1. 0 \in DOMAIN f
  OBVIOUS
<1>2. 0 \notin DOMAIN Null
  BY DEF Null
<1> QED BY <1>1, <1>2

LEMMA EmptyDedupType == EmptyDedup \in RepeatSlots /\ EmptyDedup # Null
BY BoundsAssumption, NotNull DEF EmptyDedup, RepeatSlots

LEMMA NewEntryGood ==
  ASSUME NEW c \in Ctxts
  PROVE  GoodEntry(NewEntry(c)) /\ NewEntry(c).ctxt = c /\ NewEntry(c).dedup = Null
BY DEF GoodEntry, EntryType, GoodRing, GoodRepeats, NewEntry

(* Each half of an entry is about its own fields.                          *)
LEMMA SameRing ==
  ASSUME NEW x, NEW y, GoodRing(x), x.errors = y.errors, x.size = y.size,
         x.count = y.count, x.next = y.next
  PROVE  GoodRing(y)
BY DEF GoodRing

LEMMA SameRepeats ==
  ASSUME NEW x, NEW y, GoodRepeats(x), x.dedup = y.dedup, x.dedupCount = y.dedupCount,
         x.dedupNext = y.dedupNext
  PROVE  GoodRepeats(y)
BY DEF GoodRepeats

LEMMA DedupResetGood ==
  ASSUME NEW en, GoodEntry(en)
  PROVE  LET x == DedupReset(en) IN
         /\ GoodEntry(x) /\ x.ctxt = en.ctxt /\ x.size = en.size
         /\ x.dedupLimit = en.dedupLimit
<1> DEFINE x == [en EXCEPT !.dedup = EmptyDedup, !.dedupCount = 0, !.dedupNext = 0]
<1>1. /\ x \in EntryType /\ x.ctxt = en.ctxt /\ x.errors = en.errors /\ x.size = en.size
      /\ x.count = en.count /\ x.next = en.next /\ x.dedupLimit = en.dedupLimit
      /\ x.dedup = EmptyDedup /\ x.dedupCount = 0 /\ x.dedupNext = 0
  BY EmptyDedupType DEF GoodEntry, EntryType
<1> HIDE DEF x
<1>2. GoodRepeats(x)
  BY <1>1, BoundsAssumption DEF GoodRepeats
<1>3. GoodRing(x)
  BY <1>1, SameRing DEF GoodEntry
<1> QED BY <1>1, <1>2, <1>3 DEF DedupReset, GoodEntry, x

LEMMA RingClearGood ==
  ASSUME NEW en, GoodEntry(en)
  PROVE  LET x == RingClear(en) IN
         /\ GoodEntry(x) /\ x.ctxt = en.ctxt /\ x.size = en.size
         /\ x.dedupLimit = en.dedupLimit
<1> DEFINE empty == [i \in 0..(en.size - 1) |-> NoError]
           x == [en EXCEPT !.errors = empty, !.count = 0, !.next = 0]
           y == IF en.errors = Null THEN en ELSE x
<1>1. ASSUME en.errors # Null PROVE GoodEntry(x)
  <2>1. en.size \in Nat \ {0}
    BY <1>1 DEF GoodEntry, EntryType, GoodRing
  <2>2. empty \in [0..(en.size - 1) -> Slots] /\ (\A j \in 0..(en.size - 1) : empty[j] = NoError)
    BY DEF Slots
  <2> HIDE DEF empty
  <2>3. empty # Null
    BY <2>1, <2>2, NotNull
  <2>4. x \in EntryType
    BY <2>1, <2>2 DEF GoodEntry, EntryType
  <2>5. /\ x.errors = empty /\ x.size = en.size /\ x.count = 0 /\ x.next = 0
        /\ x.dedup = en.dedup /\ x.dedupCount = en.dedupCount /\ x.dedupNext = en.dedupNext
    BY DEF GoodEntry, EntryType
  <2> HIDE DEF x
  <2>6. GoodRing(x)
    BY <2>1, <2>2, <2>3, <2>5 DEF GoodRing
  <2>7. GoodRepeats(x)
    BY <2>5, SameRepeats DEF GoodEntry
  <2> QED BY <2>4, <2>6, <2>7 DEF GoodEntry
<1>2. y.ctxt = en.ctxt /\ y.size = en.size /\ y.dedupLimit = en.dedupLimit
  BY DEF GoodEntry, EntryType
<1>3. GoodEntry(y)
  BY <1>1
<1>4. RingClear(en) = DedupReset(y)
  BY DEF RingClear
<1> HIDE DEF y
<1> QED BY <1>2, <1>3, <1>4, DedupResetGood

(* The slots of the repeat table that hold an error.                       *)
Holding(en, e) == {i \in 0..(en.dedupCount - 1) : en.dedup[i].fingerprint = e}

(* What the note of an error does to an entry: one slot of the table is    *)
(* written, the slot of the error if there is one and else a new one.      *)
Noted(en, e, x, i, n) ==
  /\ x \in EntryType /\ x.ctxt = en.ctxt /\ x.errors = en.errors /\ x.size = en.size
  /\ x.count = en.count /\ x.next = en.next /\ x.dedupLimit = en.dedupLimit
  /\ i \in 0..(DedupSize - 1) /\ n \in Nat
  /\ x.dedup = [en.dedup EXCEPT ![i] = [fingerprint |-> e, count |-> n]]
  /\ i < x.dedupCount /\ x.dedupNext < DedupSize

LEMMA NoteKnown ==
  ASSUME NEW en, GoodEntry(en), en.dedup # Null, NEW e \in Errors, Holding(en, e) # {}
  PROVE  \E i \in Holding(en, e), n \in Nat :
           /\ Noted(en, e, DedupNote(en, e), i, n)
           /\ DedupNote(en, e).dedupCount = en.dedupCount
           /\ \/ n = en.dedup[i].count + 1
              \/ n = en.dedup[i].count /\ n > en.dedupLimit
<1> DEFINE i == CHOOSE k \in Holding(en, e) : \A j \in Holding(en, e) : k <= j
           n == en.dedup[i].count
           m == IF n > en.dedupLimit THEN n ELSE n + 1
           x == [en EXCEPT !.dedup[i].count = m]
<1>1. en \in EntryType /\ en.dedup \in RepeatSlots
  BY DEF GoodEntry, EntryType
<1>2. /\ en.dedupCount \in Nat /\ en.dedupCount <= DedupSize /\ en.dedupNext < DedupSize
      /\ en.dedupLimit \in Nat
  BY DEF GoodEntry, GoodRepeats, EntryType
<1>3. i \in Holding(en, e)
  <2>1. PICK k \in Holding(en, e) : TRUE
    OBVIOUS
  <2>2. \A j \in Holding(en, e) : j = k /\ k \in Nat
    BY <2>1 DEF Holding, GoodEntry, GoodRepeats
  <2>3. \A j \in Holding(en, e) : k <= j
    BY <2>2
  <2> QED BY <2>1, <2>3
<1> HIDE DEF i
<1>4. i \in 0..(DedupSize - 1) /\ i < en.dedupCount /\ en.dedup[i].fingerprint = e
  BY <1>2, <1>3, BoundsAssumption DEF Holding
<1>5. n \in Nat /\ m \in Nat
  <2>1. n \in Nat
    BY <1>1, <1>4 DEF RepeatSlots
  <2> HIDE DEF n
  <2> QED BY <1>2, <2>1
<1>6. m = n + 1 \/ (m = n /\ m > en.dedupLimit)
  BY <1>2, <1>5
<1>7. DedupNote(en, e) = x
  BY DEF DedupNote, Holding, i
<1> HIDE DEF m, n
<1>8. [en.dedup EXCEPT ![i].count = m] = [en.dedup EXCEPT ![i] = [fingerprint |-> e, count |-> m]]
  BY <1>1, <1>4 DEF RepeatSlots
<1>9. [en.dedup EXCEPT ![i] = [fingerprint |-> e, count |-> m]] \in RepeatSlots
  BY <1>1, <1>4, <1>5 DEF RepeatSlots
<1>10. x = [en EXCEPT !.dedup = [en.dedup EXCEPT ![i] = [fingerprint |-> e, count |-> m]]]
  BY <1>8
<1>11. Noted(en, e, x, i, m) /\ x.dedupCount = en.dedupCount
  BY <1>1, <1>2, <1>4, <1>5, <1>9, <1>10 DEF Noted, EntryType
<1> HIDE DEF x
<1> QED BY <1>3, <1>5, <1>6, <1>7, <1>11 DEF n

LEMMA NoteNew ==
  ASSUME NEW en, GoodEntry(en), en.dedup # Null, NEW e \in Errors, Holding(en, e) = {}
  PROVE  LET x == DedupNote(en, e) IN
         \E i \in 0..(DedupSize - 1) :
           /\ Noted(en, e, x, i, 1)
           /\ \/ x.dedupCount = en.dedupCount
              \/ x.dedupCount = en.dedupCount + 1 /\ i = en.dedupCount
           /\ x.dedupCount <= DedupSize
<1> DEFINE fresh == [fingerprint |-> e, count |-> 1]
           x == [en EXCEPT !.dedup[en.dedupCount] = fresh, !.dedupCount = @ + 1]
           y == [en EXCEPT !.dedup[en.dedupNext] = fresh, !.dedupNext = (@ + 1) % DedupSize]
<1>1. en \in EntryType /\ en.dedup \in RepeatSlots
  BY DEF GoodEntry, EntryType
<1>2. /\ en.dedupCount \in Nat /\ en.dedupCount <= DedupSize
      /\ en.dedupNext \in Nat /\ en.dedupNext < DedupSize /\ DedupSize \in Nat \ {0}
  BY BoundsAssumption DEF GoodEntry, GoodRepeats, EntryType
<1>3. CASE en.dedupCount < DedupSize
  <2>1. en.dedupCount \in 0..(DedupSize - 1) /\ en.dedupCount + 1 \in Nat
    BY <1>2, <1>3
  <2>2. [en.dedup EXCEPT ![en.dedupCount] = fresh] \in RepeatSlots
    BY <1>1, <2>1 DEF RepeatSlots
  <2>3. x \in EntryType
    BY <1>1, <2>1, <2>2 DEF EntryType
  <2>5. /\ x.ctxt = en.ctxt /\ x.errors = en.errors /\ x.size = en.size
        /\ x.count = en.count /\ x.next = en.next /\ x.dedupLimit = en.dedupLimit
        /\ x.dedup = [en.dedup EXCEPT ![en.dedupCount] = fresh]
        /\ x.dedupCount = en.dedupCount + 1 /\ x.dedupNext = en.dedupNext
    BY <1>1 DEF EntryType
  <2>6. Noted(en, e, x, en.dedupCount, 1)
    <3> HIDE DEF x
    <3> QED BY <1>2, <2>1, <2>3, <2>5 DEF Noted
  <2>4. DedupNote(en, e) = x
    BY <1>3 DEF DedupNote, Holding
  <2> HIDE DEF x
  <2> QED BY <1>2, <1>3, <2>1, <2>4, <2>5, <2>6
<1>4. CASE en.dedupCount = DedupSize
  <2>1. en.dedupNext \in 0..(DedupSize - 1) /\ (en.dedupNext + 1) % DedupSize \in 0..(DedupSize - 1)
    BY <1>2
  <2>2. [en.dedup EXCEPT ![en.dedupNext] = fresh] \in RepeatSlots
    BY <1>1, <2>1 DEF RepeatSlots
  <2>3. y \in EntryType
    <3>1. (en.dedupNext + 1) % DedupSize \in Nat
      BY <2>1
    <3> QED BY <1>1, <2>2, <3>1 DEF EntryType
  <2>4. DedupNote(en, e) = y
    <3>1. ~(en.dedupCount < DedupSize)
      BY <1>2, <1>4
    <3> QED BY <3>1, Zenon DEF DedupNote, Holding
  <2>5. /\ y.ctxt = en.ctxt /\ y.errors = en.errors /\ y.size = en.size
        /\ y.count = en.count /\ y.next = en.next /\ y.dedupLimit = en.dedupLimit
        /\ y.dedup = [en.dedup EXCEPT ![en.dedupNext] = fresh]
        /\ y.dedupCount = en.dedupCount /\ y.dedupNext = (en.dedupNext + 1) % DedupSize
    BY <1>1 DEF EntryType
  <2>6. Noted(en, e, y, en.dedupNext, 1)
    <3> HIDE DEF y
    <3> QED BY <1>2, <1>4, <2>1, <2>3, <2>5 DEF Noted
  <2> HIDE DEF y
  <2> QED BY <1>2, <1>4, <2>1, <2>4, <2>5, <2>6
<1> QED BY <1>2, <1>3, <1>4

(* The note keeps the ring, and the table holds every error once.          *)
LEMMA DedupNoteGood ==
  ASSUME NEW en, GoodEntry(en), en.dedup # Null, NEW e \in Errors
  PROVE  LET x == DedupNote(en, e) IN
         /\ GoodEntry(x) /\ x.ctxt = en.ctxt /\ x.size = en.size
         /\ x.dedupLimit = en.dedupLimit
<1> DEFINE x == DedupNote(en, e)
<1>1. PICK i \in 0..(DedupSize - 1), n \in Nat :
        /\ Noted(en, e, x, i, n) /\ x.dedupCount <= DedupSize
        /\ \/ i \in Holding(en, e) /\ x.dedupCount = en.dedupCount
           \/ /\ Holding(en, e) = {}
              /\ \/ x.dedupCount = en.dedupCount
                 \/ x.dedupCount = en.dedupCount + 1 /\ i = en.dedupCount
  <2>1. CASE Holding(en, e) = {}
    BY <2>1, NoteNew
  <2>2. CASE Holding(en, e) # {}
    <3>1. PICK i \in Holding(en, e), n \in Nat :
            Noted(en, e, x, i, n) /\ x.dedupCount = en.dedupCount
      BY <2>2, NoteKnown
    <3>2. x.dedupCount <= DedupSize /\ i \in 0..(DedupSize - 1)
      BY <3>1 DEF Noted, GoodEntry, GoodRepeats
    <3> QED BY <3>1, <3>2
  <2> QED BY <2>1, <2>2
<1> HIDE DEF x
<1>2. GoodRing(x)
  BY <1>1, SameRing DEF Noted, GoodEntry
<1>3. en.dedup \in RepeatSlots /\ en.dedupCount \in Nat /\ x.dedupCount \in Nat
  BY <1>1 DEF GoodEntry, EntryType, Noted
<1>4. GoodRepeats(x)
  <2>1. x.dedupNext < DedupSize
    BY <1>1 DEF Noted
  <2>2. /\ x.dedup[i].fingerprint = e
        /\ \A j \in 0..(DedupSize - 1) : j # i => x.dedup[j] = en.dedup[j]
    <3>1. x.dedup = [en.dedup EXCEPT ![i] = [fingerprint |-> e, count |-> n]]
      BY <1>1 DEF Noted
    <3>2. i \in 0..(DedupSize - 1) /\ DOMAIN en.dedup = 0..(DedupSize - 1)
      BY <1>1, <1>3 DEF RepeatSlots
    <3>3. x.dedup[i] = [fingerprint |-> e, count |-> n]
      BY <3>1, <3>2
    <3>4. \A j \in 0..(DedupSize - 1) : j # i => x.dedup[j] = en.dedup[j]
      BY <3>1, <3>2
    <3> QED BY <3>3, <3>4
  <2>3. \A j \in 0..(x.dedupCount - 1) :
          j # i => /\ j \in 0..(en.dedupCount - 1) /\ x.dedup[j] = en.dedup[j]
                   /\ en.dedup[j].fingerprint # e
    <3> SUFFICES ASSUME NEW j \in 0..(x.dedupCount - 1), j # i
                 PROVE  /\ j \in 0..(en.dedupCount - 1) /\ x.dedup[j] = en.dedup[j]
                        /\ en.dedup[j].fingerprint # e
      OBVIOUS
    <3>1. j \in 0..(en.dedupCount - 1) /\ j \in 0..(DedupSize - 1)
      BY <1>1, <1>3, BoundsAssumption
    <3>2. CASE i \in Holding(en, e)
      BY <3>1, <3>2, <2>2 DEF Holding, GoodEntry, GoodRepeats
    <3>3. CASE Holding(en, e) = {}
      BY <3>1, <3>3, <2>2 DEF Holding
    <3> QED BY <1>1, <3>2, <3>3
  <2>4. \A j, k \in 0..(x.dedupCount - 1) :
          x.dedup[j].fingerprint = x.dedup[k].fingerprint => j = k
    <3> SUFFICES ASSUME NEW j \in 0..(x.dedupCount - 1), NEW k \in 0..(x.dedupCount - 1),
                        x.dedup[j].fingerprint = x.dedup[k].fingerprint, j # k
                 PROVE  FALSE
      OBVIOUS
    <3>1. CASE j = i
      BY <3>1, <2>2, <2>3
    <3>2. CASE k = i
      BY <3>2, <2>2, <2>3
    <3>3. CASE j # i /\ k # i
      BY <3>3, <2>3 DEF GoodEntry, GoodRepeats
    <3> QED BY <3>1, <3>2, <3>3
  <2> QED BY <1>1, <2>1, <2>4 DEF GoodRepeats
<1> QED BY <1>1, <1>2, <1>4 DEF GoodEntry, Noted, x

(* The write position wraps around at the size of the ring.                *)
LEMMA Wraps ==
  ASSUME NEW a \in Nat, NEW n \in Nat \ {0}
  PROVE  a % n \in 0..(n - 1) /\ (a < n => a % n = a)
OBVIOUS

(* An error is stored in the ring of an entry.                             *)
LEMMA StoredGood ==
  ASSUME NEW en, GoodEntry(en), en.size > 0, NEW e \in Storable
  PROVE  LET x == Stored(en, e, TRUE) IN
         /\ GoodEntry(x) /\ x.ctxt = en.ctxt /\ x.size = en.size
         /\ x.dedup = en.dedup /\ x.dedupLimit = en.dedupLimit
         /\ x.dedupCount = en.dedupCount
<1> DEFINE size == en.size
           next == en.next
           slots == [en.errors EXCEPT ![next] = e]
           after == (next + 1) % size
           more == IF en.count < size THEN en.count + 1 ELSE en.count
           x == [en EXCEPT !.errors = slots, !.next = after, !.count = more]
<1>1. /\ size \in Nat \ {0} /\ en.count \in Nat /\ en.count <= size /\ next \in 0..(size - 1)
      /\ en.count < size => next = en.count
      /\ en.errors \in [0..(size - 1) -> Slots]
      /\ \A j \in 0..(size - 1) : (en.errors[j] # NoError) = (j < en.count)
  BY DEF GoodEntry, EntryType, GoodRing
<1>2. /\ slots \in [0..(size - 1) -> Slots] /\ slots[next] = e
      /\ \A j \in 0..(size - 1) : j # next => slots[j] = en.errors[j]
  BY <1>1 DEF Slots
<1>3. after \in 0..(size - 1) /\ after \in Nat /\ (next + 1 < size => after = next + 1)
  <2>1. next + 1 \in Nat
    BY <1>1
  <2>2. size \in Nat \ {0}
    BY <1>1
  <2> HIDE DEF next, size
  <2>3. after \in 0..(size - 1) /\ (next + 1 < size => after = next + 1)
    BY <2>1, <2>2, Wraps, Zenon
  <2> HIDE DEF after
  <2> QED BY <2>2, <2>3
<1>4. more \in Nat /\ more <= size /\ (more < size => en.count < size /\ more = en.count + 1)
  BY <1>1
<1>5. slots # Null
  BY <1>1, <1>2, NotNull, ZenonT(60)
<1>6. e # NoError
  BY ErrorsAssumption
<1>7. \A j \in 0..(size - 1) : (slots[j] # NoError) = (j < more)
  BY <1>1, <1>2, <1>4, <1>6
<1>8. Stored(en, e, TRUE) = x
  BY DEF Stored
<1> HIDE DEF slots, after, more
<1>9. x \in EntryType
  <2>1. slots \in UNION {[0..(n - 1) -> Slots] : n \in Nat \ {0}}
    BY <1>1, <1>2
  <2> QED BY <1>3, <1>4, <2>1 DEF GoodEntry, EntryType
<1>10. /\ x.ctxt = en.ctxt /\ x.errors = slots /\ x.size = size /\ x.count = more
       /\ x.next = after /\ x.dedup = en.dedup /\ x.dedupLimit = en.dedupLimit
       /\ x.dedupCount = en.dedupCount /\ x.dedupNext = en.dedupNext
  BY DEF GoodEntry, EntryType
<1> HIDE DEF x
<1>11. GoodRepeats(x)
  BY <1>10, SameRepeats DEF GoodEntry
<1>12. GoodRing(x)
  <2>1. more < size => after = more
    BY <1>1, <1>3, <1>4
  <2> HIDE DEF size
  <2> QED BY <1>1, <1>2, <1>3, <1>4, <1>5, <1>7, <1>10, <2>1 DEF GoodRing
<1> QED BY <1>8, <1>9, <1>10, <1>11, <1>12 DEF GoodEntry

(* An entry without a ring, as xmlCtxtSetErrorRingSize leaves it.          *)
LEMMA RingOffGood ==
  ASSUME NEW en, GoodEntry(en)
  PROVE  LET y == IF en.errors = Null THEN en ELSE RingClear(en)
             x == [y EXCEPT !.errors = Null, !.size = 0, !.count = 0, !.next = 0]
         IN  /\ GoodEntry(x) /\ x.ctxt = en.ctxt /\ x.dedupLimit = en.dedupLimit
             /\ x.size = 0
<1> DEFINE y == IF en.errors = Null THEN en ELSE RingClear(en)
           x == [y EXCEPT !.errors = Null, !.size = 0, !.count = 0, !.next = 0]
<1>1. GoodEntry(y) /\ y.ctxt = en.ctxt /\ y.dedupLimit = en.dedupLimit
  BY RingClearGood
<1> HIDE DEF y
<1>2. x \in EntryType
  BY <1>1 DEF GoodEntry, EntryType
<1>3. /\ x.ctxt = y.ctxt /\ x.errors = Null /\ x.size = 0 /\ x.count = 0 /\ x.next = 0
      /\ x.dedup = y.dedup /\ x.dedupLimit = y.dedupLimit
      /\ x.dedupCount = y.dedupCount /\ x.dedupNext = y.dedupNext
  BY <1>1 DEF GoodEntry, EntryType
<1> HIDE DEF x
<1>4. GoodRing(x) /\ GoodRepeats(x)
  BY <1>1, <1>3, SameRepeats DEF GoodRing, GoodEntry
<1> QED BY <1>1, <1>2, <1>3, <1>4 DEF GoodEntry, x, y

(* A ring of n empty slots.                                                *)
LEMMA RingNewGood ==
  ASSUME NEW en, GoodEntry(en), NEW n \in Nat \ {0}
  PROVE  LET y == IF en.errors = Null THEN en ELSE [RingClear(en) EXCEPT !.errors = Null]
             x == [y EXCEPT !.errors = [j \in 0..(n - 1) |-> NoError],
                            !.size = n, !.count = 0, !.next = 0]
         IN  /\ GoodEntry(x) /\ x.ctxt = en.ctxt /\ x.dedupLimit = en.dedupLimit
             /\ x.size = n
<1> DEFINE z == IF en.errors = Null THEN en ELSE RingClear(en)
           y == IF en.errors = Null THEN en ELSE [RingClear(en) EXCEPT !.errors = Null]
           empty == [j \in 0..(n - 1) |-> NoError]
           x == [y EXCEPT !.errors = empty, !.size = n, !.count = 0, !.next = 0]
<1>1. GoodEntry(z) /\ z.ctxt = en.ctxt /\ z.dedupLimit = en.dedupLimit
  BY RingClearGood
<1>2. /\ y \in EntryType /\ y.ctxt = z.ctxt /\ y.dedup = z.dedup
      /\ y.dedupLimit = z.dedupLimit /\ y.dedupCount = z.dedupCount
      /\ y.dedupNext = z.dedupNext
  BY <1>1 DEF GoodEntry, EntryType
<1> HIDE DEF y, z
<1>3. empty \in [0..(n - 1) -> Slots] /\ (\A j \in 0..(n - 1) : empty[j] = NoError)
  BY DEF Slots
<1>4. empty # Null
  BY <1>3, NotNull
<1> HIDE DEF empty
<1>5. x \in EntryType
  BY <1>2, <1>3 DEF EntryType
<1>6. /\ x.ctxt = y.ctxt /\ x.errors = empty /\ x.size = n /\ x.count = 0 /\ x.next = 0
      /\ x.dedup = y.dedup /\ x.dedupLimit = y.dedupLimit
      /\ x.dedupCount = y.dedupCount /\ x.dedupNext = y.dedupNext
  BY <1>2 DEF EntryType
<1> HIDE DEF x
<1>7. GoodRing(x)
  BY <1>3, <1>4, <1>6 DEF GoodRing
<1>8. GoodRepeats(x)
  BY <1>1, <1>2, <1>6, SameRepeats DEF GoodEntry
<1> QED BY <1>1, <1>2, <1>5, <1>6, <1>7, <1>8 DEF GoodEntry, x, y, empty

(* Deduplication is switched off and on.                                   *)
LEMMA DedupOffGood ==
  ASSUME NEW en, GoodEntry(en)
  PROVE  LET x == [en EXCEPT !.dedup = Null, !.dedupLimit = 0,
                             !.dedupCount = 0, !.dedupNext = 0]
         IN  GoodEntry(x) /\ x.ctxt = en.ctxt /\ x.size = en.size /\ x.dedupLimit = 0
<1> DEFINE x == [en EXCEPT !.dedup = Null, !.dedupLimit = 0,
                           !.dedupCount = 0, !.dedupNext = 0]
<1>1. /\ x \in EntryType /\ x.ctxt = en.ctxt /\ x.errors = en.errors /\ x.size = en.size
      /\ x.count = en.count /\ x.next = en.next /\ x.dedup = Null /\ x.dedupLimit = 0
      /\ x.dedupCount = 0 /\ x.dedupNext = 0
  BY DEF GoodEntry, EntryType
<1> HIDE DEF x
<1>2. GoodRing(x) /\ GoodRepeats(x)
  BY <1>1, SameRing DEF GoodRepeats, GoodEntry
<1> QED BY <1>1, <1>2 DEF GoodEntry, x

LEMMA DedupOnGood ==
  ASSUME NEW en, GoodEntry(en), NEW limit \in Nat
  PROVE  LET x == [en EXCEPT !.dedup = EmptyDedup, !.dedupLimit = limit,
                             !.dedupCount = 0, !.dedupNext = 0]
         IN  GoodEntry(x) /\ x.ctxt = en.ctxt /\ x.size = en.size /\ x.dedupLimit = limit
<1> DEFINE x == [en EXCEPT !.dedup = EmptyDedup, !.dedupLimit = limit,
                           !.dedupCount = 0, !.dedupNext = 0]
<1>1. /\ x \in EntryType /\ x.ctxt = en.ctxt /\ x.errors = en.errors /\ x.size = en.size
      /\ x.count = en.count /\ x.next = en.next /\ x.dedup = EmptyDedup
      /\ x.dedupLimit = limit /\ x.dedupCount = 0 /\ x.dedupNext = 0
  BY EmptyDedupType DEF GoodEntry, EntryType
<1> HIDE DEF x
<1>2. GoodRing(x) /\ GoodRepeats(x)
  BY <1>1, SameRing, BoundsAssumption DEF GoodRepeats, GoodEntry
<1> QED BY <1>1, <1>2 DEF GoodEntry, x

-----------------------------------------------------------------------------
(* The list of entries.                                                    *)

Useful(en) == en.size > 0 \/ en.dedupLimit > 0

GoodList(list) ==
  /\ list \in Seq(EntryType)
  /\ \A i \in 1..Len(list) : GoodEntry(list[i]) /\ Useful(list[i])
  /\ \A i, j \in 1..Len(list) : list[i].ctxt = list[j].ctxt => i = j

(* The search finds the entry of a context, of which there is one.         *)
LEMMA LookupFinds ==
  ASSUME GoodList(ringList), NEW c, HasEntry(c)
  PROVE  /\ RingLookup(c) \in 1..Len(ringList)
         /\ EntryOf(c) = ringList[RingLookup(c)] /\ EntryOf(c).ctxt = c
         /\ GoodEntry(EntryOf(c)) /\ Useful(EntryOf(c))
<1>1. PICK i \in Positions(c) : TRUE
  BY DEF HasEntry, RingLookup
<1>2. i \in 1..Len(ringList) /\ (\A j \in Positions(c) : j = i)
  BY <1>1 DEF Positions, GoodList
<1>3. \A j \in Positions(c) : i <= j
  BY <1>2
<1>4. RingLookup(c) \in Positions(c)
  BY <1>1, <1>3 DEF RingLookup
<1> QED BY <1>4 DEF EntryOf, Positions, GoodList

LEMMA LookupMisses ==
  ASSUME GoodList(ringList), NEW c, ~HasEntry(c)
  PROVE  \A i \in 1..Len(ringList) : ringList[i].ctxt # c
<1>1. ASSUME Positions(c) # {} PROVE RingLookup(c) # 0
  <2>1. PICK i \in Positions(c) : TRUE
    BY <1>1
  <2>2. i \in 1..Len(ringList) /\ (\A j \in Positions(c) : j = i)
    BY <2>1 DEF Positions, GoodList
  <2>3. \A j \in Positions(c) : i <= j
    BY <2>2
  <2>4. RingLookup(c) \in Positions(c)
    BY <2>1, <2>3 DEF RingLookup
  <2> QED BY <2>4 DEF Positions
<1> QED BY <1>1 DEF HasEntry, Positions

(* An entry takes the place of another one of the same context.            *)
LEMMA ReplacedGood ==
  ASSUME NEW list, GoodList(list), NEW i \in 1..Len(list), NEW en, GoodEntry(en), Useful(en),
         en.ctxt = list[i].ctxt
  PROVE  GoodList([list EXCEPT ![i] = en])
<1> DEFINE new == [list EXCEPT ![i] = en]
<1>1. new \in Seq(EntryType) /\ Len(new) = Len(list)
  BY DEF GoodList, GoodEntry
<1>2. new[i] = en /\ (\A j \in 1..Len(list) : j # i => new[j] = list[j])
  BY DEF GoodList
<1> HIDE DEF new
<1>3. \A j \in 1..Len(new) : GoodEntry(new[j]) /\ Useful(new[j]) /\ new[j].ctxt = list[j].ctxt
  BY <1>1, <1>2 DEF GoodList
<1> QED BY <1>1, <1>3 DEF GoodList, new

LEMMA UnlinkedGood ==
  ASSUME GoodList(ringList), NEW i \in 1..Len(ringList)
  PROVE  GoodList(Unlinked(i))
<1> DEFINE new == Unlinked(i)
           from(j) == IF j < i THEN j ELSE j + 1
<1>1. Len(ringList) \in Nat \ {0} /\ ringList \in Seq(EntryType)
  BY DEF GoodList
<1>2. \A j \in 1..(Len(ringList) - 1) : from(j) \in 1..Len(ringList) /\ new[j] = ringList[from(j)]
  BY <1>1 DEF Unlinked
<1>3. new \in [1..(Len(ringList) - 1) -> EntryType]
  BY <1>1, <1>2 DEF Unlinked
<1>4. new \in Seq(EntryType) /\ Len(new) = Len(ringList) - 1
  BY <1>1, <1>3
<1>5. \A j, k \in 1..(Len(ringList) - 1) : from(j) = from(k) => j = k
  BY <1>1
<1> HIDE DEF new, from
<1>6. \A j \in 1..Len(new) : GoodEntry(new[j]) /\ Useful(new[j])
  BY <1>2, <1>4 DEF GoodList
<1>7. \A j, k \in 1..Len(new) : new[j].ctxt = new[k].ctxt => j = k
  BY <1>2, <1>4, <1>5 DEF GoodList
<1> QED BY <1>4, <1>6, <1>7 DEF GoodList, new

LEMMA PrependedGood ==
  ASSUME NEW list, GoodList(list), NEW old \in EntryType, NEW en, GoodEntry(en), Useful(en),
         \A i \in 1..Len(list) : list[i].ctxt # en.ctxt
  PROVE  GoodList([<<old>> \o list EXCEPT ![1] = en])
<1> DEFINE base == <<old>> \o list
           new == [base EXCEPT ![1] = en]
<1>1. list \in Seq(EntryType) /\ Len(list) \in Nat /\ en \in EntryType
  BY DEF GoodList, GoodEntry
<1>2. /\ base \in Seq(EntryType) /\ Len(base) = Len(list) + 1
      /\ \A j \in 2..(Len(list) + 1) : base[j] = list[j - 1]
  BY <1>1
<1> HIDE DEF base
<1>3. /\ new \in Seq(EntryType) /\ Len(new) = Len(list) + 1 /\ new[1] = en
      /\ \A j \in 2..(Len(list) + 1) : new[j] = list[j - 1]
  BY <1>1, <1>2
<1> HIDE DEF new
<1>4. \A j \in 1..Len(new) : j = 1 \/ (j \in 2..(Len(list) + 1) /\ j - 1 \in 1..Len(list))
  BY <1>1, <1>3
<1>5. \A j \in 1..Len(new) : GoodEntry(new[j]) /\ Useful(new[j])
  BY <1>3, <1>4 DEF GoodList
<1>6. \A j \in 1..Len(new) : j # 1 => new[j].ctxt # new[1].ctxt
  BY <1>3, <1>4
<1>7. ASSUME NEW j \in 1..Len(new), NEW k \in 1..Len(new), j # 1, k # 1,
             new[j].ctxt = new[k].ctxt
      PROVE  j = k
  <2>1. j - 1 \in 1..Len(list) /\ k - 1 \in 1..Len(list)
    BY <1>4, <1>7
  <2>2. new[j] = list[j - 1] /\ new[k] = list[k - 1]
    BY <1>3, <1>4, <1>7
  <2>3. j - 1 = k - 1
    BY <1>7, <2>1, <2>2 DEF GoodList
  <2> QED BY <2>3, <1>3
<1>8. \A j, k \in 1..Len(new) : new[j].ctxt = new[k].ctxt => j = k
  BY <1>6, <1>7
<1> QED BY <1>3, <1>5, <1>8 DEF GoodList, new, base

(* An entry that was found is replaced.                                    *)
LEMMA ReplaceGood ==
  ASSUME GoodList(ringList), NEW c, HasEntry(c), NEW en, GoodEntry(en), Useful(en), en.ctxt = c
  PROVE  GoodList(Replace(c, en))
BY LookupFinds, ReplacedGood DEF Replace

(* What the calls do to the list.                                          *)
LEMMA NoteGood ==
  ASSUME GoodList(ringList), NEW c, NEW e \in Errors
  PROVE  GoodList(ListAfterNote(c, e))
<1>1. CASE DedupOn(c)
  <2>1. HasEntry(c) /\ EntryOf(c).dedup # Null
    BY <1>1 DEF DedupOn
  <2>2. GoodEntry(EntryOf(c)) /\ Useful(EntryOf(c)) /\ EntryOf(c).ctxt = c
    BY <2>1, LookupFinds
  <2> DEFINE x == DedupNote(EntryOf(c), e)
  <2>3. /\ GoodEntry(x) /\ x.ctxt = c /\ x.size = EntryOf(c).size
        /\ x.dedupLimit = EntryOf(c).dedupLimit
    BY <2>1, <2>2, DedupNoteGood
  <2> HIDE DEF x
  <2>4. Useful(x)
    BY <2>2, <2>3 DEF Useful
  <2>5. GoodList(Replace(c, x))
    BY <2>1, <2>3, <2>4, ReplaceGood
  <2> QED BY <1>1, <2>5 DEF ListAfterNote, x
<1>2. CASE ~DedupOn(c)
  BY <1>2 DEF ListAfterNote
<1> QED BY <1>1, <1>2

LEMMA RingDisabledGood ==
  ASSUME GoodList(ringList), NEW c
  PROVE  GoodList(RingDisabled(c))
<1> DEFINE en == EntryOf(c)
           off == [(IF en.errors = Null THEN en ELSE RingClear(en))
                     EXCEPT !.errors = Null, !.size = 0, !.count = 0, !.next = 0]
<1>1. CASE ~HasEntry(c)
  BY <1>1 DEF RingDisabled
<1>2. CASE HasEntry(c)
  <2>1. /\ GoodEntry(en) /\ en.ctxt = c /\ RingLookup(c) \in 1..Len(ringList)
        /\ en.dedupLimit \in Nat
    BY <1>2, LookupFinds DEF GoodEntry, EntryType
  <2>2. GoodEntry(off) /\ off.ctxt = c /\ off.dedupLimit = en.dedupLimit
    BY <2>1, RingOffGood
  <2>3. RingDisabled(c) = IF en.dedupLimit <= 0 THEN Unlinked(RingLookup(c)) ELSE Replace(c, off)
    BY <1>2 DEF RingDisabled
  <2> HIDE DEF off, en
  <2>4. CASE en.dedupLimit <= 0
    BY <2>1, <2>3, <2>4, UnlinkedGood
  <2>5. CASE ~(en.dedupLimit <= 0)
    BY <1>2, <2>1, <2>2, <2>3, <2>5, ReplaceGood DEF Useful
  <2> QED BY <2>4, <2>5
<1> QED BY <1>1, <1>2

LEMMA RingResizedGood ==
  ASSUME GoodList(ringList), NEW c \in Ctxts, NEW n \in Nat \ {0}
  PROVE  GoodList(RingResized(c, n, TRUE))
<1> DEFINE en == IF HasEntry(c) THEN EntryOf(c) ELSE NewEntry(c)
           old == IF en.errors = Null THEN en ELSE [RingClear(en) EXCEPT !.errors = Null]
           new == [old EXCEPT !.errors = [j \in 0..(n - 1) |-> NoError],
                              !.size = n, !.count = 0, !.next = 0]
           x == IF en.size = n THEN en ELSE new
<1>1. GoodEntry(en) /\ en.ctxt = c
  BY LookupFinds, NewEntryGood
<1> HIDE DEF en
<1>2. GoodEntry(new) /\ new.ctxt = c /\ new.size = n
  BY <1>1, RingNewGood
<1> HIDE DEF new
<1>3. GoodEntry(x) /\ x.ctxt = c /\ Useful(x)
  BY <1>1, <1>2 DEF Useful
<1> USE DEF new
<1>4. CASE HasEntry(c)
  <2>1. RingResized(c, n, TRUE) = Replace(c, x)
    BY <1>4, Zenon DEF RingResized, Replace, en, EntryOf
  <2> HIDE DEF x
  <2> QED BY <1>3, <1>4, <2>1, ReplaceGood
<1>5. CASE ~HasEntry(c)
  <2>1. (<<NewEntry(c)>> \o ringList)[1] = NewEntry(c)
    BY DEF GoodList
  <2>2. RingResized(c, n, TRUE) = [<<NewEntry(c)>> \o ringList EXCEPT ![1] = x]
    BY <1>5, <2>1, Zenon DEF RingResized, en
  <2> HIDE DEF x
  <2>3. NewEntry(c) \in EntryType
    BY NewEntryGood DEF GoodEntry
  <2>4. \A i \in 1..Len(ringList) : ringList[i].ctxt # x.ctxt
    BY <1>3, <1>5, LookupMisses
  <2>5. GoodList([<<NewEntry(c)>> \o ringList EXCEPT ![1] = x])
    BY <1>3, <2>3, <2>4, PrependedGood
  <2> QED BY <2>2, <2>5
<1> QED BY <1>4, <1>5

LEMMA DedupDisabledGood ==
  ASSUME GoodList(ringList), NEW c
  PROVE  GoodList(DedupDisabled(c))
<1> DEFINE off == [EntryOf(c) EXCEPT !.dedup = Null, !.dedupLimit = 0,
                                     !.dedupCount = 0, !.dedupNext = 0]
<1>1. CASE ~HasEntry(c)
  BY <1>1 DEF DedupDisabled
<1>2. CASE HasEntry(c)
  <2>1. GoodEntry(EntryOf(c)) /\ EntryOf(c).ctxt = c /\ RingLookup(c) \in 1..Len(ringList)
    BY <1>2, LookupFinds
  <2>2. GoodEntry(off) /\ off.ctxt = c /\ off.size \in Nat
    BY <2>1, DedupOffGood DEF GoodEntry, EntryType
  <2>3. DedupDisabled(c) = IF off.size = 0 THEN Unlinked(RingLookup(c)) ELSE Replace(c, off)
    BY <1>2 DEF DedupDisabled
  <2> HIDE DEF off
  <2>4. CASE off.size = 0
    BY <2>1, <2>3, <2>4, UnlinkedGood
  <2>5. CASE off.size # 0
    BY <1>2, <2>2, <2>3, <2>5, ReplaceGood DEF Useful
  <2> QED BY <2>4, <2>5
<1> QED BY <1>1, <1>2

LEMMA DedupEnabledGood ==
  ASSUME GoodList(ringList), NEW c \in Ctxts, NEW limit \in Nat \ {0}
  PROVE  GoodList(DedupEnabled(c, limit))
<1> DEFINE en == IF HasEntry(c) THEN EntryOf(c) ELSE NewEntry(c)
           x == [en EXCEPT !.dedup = EmptyDedup, !.dedupLimit = limit,
                           !.dedupCount = 0, !.dedupNext = 0]
<1>1. GoodEntry(en) /\ en.ctxt = c
  BY LookupFinds, NewEntryGood
<1> HIDE DEF en
<1>2. GoodEntry(x) /\ x.ctxt = c /\ Useful(x)
  <2>1. limit \in Nat
    OBVIOUS
  <2>2. GoodEntry(x) /\ x.ctxt = c /\ x.dedupLimit = limit
    BY <1>1, <2>1, DedupOnGood
  <2> HIDE DEF x
  <2> QED BY <2>2 DEF Useful
<1>3. CASE HasEntry(c)
  <2>1. DedupEnabled(c, limit) = Replace(c, x)
    BY <1>3, LookupFinds DEF DedupEnabled, Replace, en, EntryOf
  <2> HIDE DEF x
  <2> QED BY <1>2, <1>3, <2>1, ReplaceGood
<1>4. CASE ~HasEntry(c)
  <2> DEFINE list == <<NewEntry(c)>> \o ringList
  <2>1. list[1] = NewEntry(c)
    BY DEF GoodList
  <2>2. DedupEnabled(c, limit) = [list EXCEPT ![1] = x]
    BY <1>4, <2>1 DEF DedupEnabled, en
  <2> HIDE DEF x
  <2>3. NewEntry(c) \in EntryType
    BY NewEntryGood DEF GoodEntry
  <2>4. \A i \in 1..Len(ringList) : ringList[i].ctxt # x.ctxt
    BY <1>2, <1>4, LookupMisses
  <2> QED BY <1>2, <2>2, <2>3, <2>4, PrependedGood
<1> QED BY <1>3, <1>4

ListInv == RingType /\ GoodList(ringList)

(* Every call keeps the list and its rings well formed, given that the     *)
(* allocation of slots and the copy of an error succeed.                   *)
LEMMA ListStep ==
  ASSUME AllocFails \cap {"ring", "copy"} = {}, ListInv, [RingNext]_ringVars
  PROVE  ListInv'
<1> USE DEF ListInv
<1> DEFINE Good == GoodList(ringList)'
<1>1. ASSUME NEW c \in Ctxts, NEW r \in BOOLEAN, xmlNewParserCtxt(c, r) PROVE Good
  BY <1>1 DEF xmlNewParserCtxt
<1>2. ASSUME NEW c \in Ctxts, xmlCtxtReset(c) PROVE Good
  BY <1>2 DEF xmlCtxtReset
<1>3. ASSUME NEW c \in Ctxts, xmlStopParser(c) PROVE Good
  BY <1>3 DEF xmlStopParser
<1>4. ASSUME NEW c \in Ctxts, xmlFreeParserCtxt(c) PROVE Good
  BY <1>4, RingDisabledGood DEF xmlFreeParserCtxt
<1>5. ASSUME NEW c \in Ctxts, NEW e \in Errors, ringList' = ListAfterNote(c, e) PROVE Good
  BY <1>5, NoteGood
<1>6. ASSUME NEW c \in Ctxts, StoreErrorRing(c) PROVE Good
  <2>1. CASE UNCHANGED ringList
    BY <2>1
  <2>2. CASE ~UNCHANGED ringList
    <3>1. /\ ctxt[c].lastError # NoError /\ HasEntry(c) /\ ~(EntryOf(c).size <= 0)
          /\ ringList' = Replace(c, Stored(EntryOf(c), ctxt[c].lastError, TRUE))
      BY <1>6, <2>2 DEF StoreErrorRing
    <3>2. ctxt[c].lastError \in Storable
      BY <3>1 DEF RingType, CtxtType
    <3>3. GoodEntry(EntryOf(c)) /\ EntryOf(c).ctxt = c /\ EntryOf(c).size > 0
      BY <3>1, LookupFinds DEF GoodEntry, EntryType
    <3> DEFINE x == Stored(EntryOf(c), ctxt[c].lastError, TRUE)
    <3>4. GoodEntry(x) /\ x.ctxt = c /\ x.size = EntryOf(c).size
      BY <3>2, <3>3, StoredGood
    <3> HIDE DEF x
    <3>5. Useful(x)
      BY <3>3, <3>4 DEF Useful
    <3>6. GoodList(Replace(c, x))
      BY <3>1, <3>4, <3>5, ReplaceGood
    <3> QED BY <3>1, <3>6 DEF x
  <2> QED BY <2>1, <2>2
<1>7. ASSUME NEW c \in Ctxts, NEW n \in RingSizes, xmlCtxtSetErrorRingSize(c, n) PROVE Good
  <2>1. n \in Nat
    BY BoundsAssumption
  <2>2. \/ ringList' = RingDisabled(c)
        \/ n > 0 /\ ringList' = RingResized(c, n, TRUE)
        \/ UNCHANGED ringList
    BY <1>7 DEF xmlCtxtSetErrorRingSize
  <2>3. CASE ringList' = RingDisabled(c)
    BY <2>3, RingDisabledGood
  <2>4. CASE n > 0 /\ ringList' = RingResized(c, n, TRUE)
    <3>1. n \in Nat \ {0}
      BY <2>1, <2>4
    <3>2. GoodList(RingResized(c, n, TRUE))
      BY <3>1, RingResizedGood
    <3> QED BY <2>4, <3>2
  <2>5. CASE UNCHANGED ringList
    BY <2>5
  <2> QED BY <2>2, <2>3, <2>4, <2>5
<1>8. ASSUME NEW c \in Ctxts, NEW n \in DedupLimits, xmlCtxtSetErrorDedup(c, n) PROVE Good
  <2>1. n \in Nat
    BY BoundsAssumption
  <2>2. \/ n = 0 /\ ringList' = DedupDisabled(c)
        \/ n # 0 /\ ringList' = DedupEnabled(c, n)
        \/ UNCHANGED ringList
    BY <1>8 DEF xmlCtxtSetErrorDedup
  <2> QED BY <2>1, <2>2, DedupDisabledGood, DedupEnabledGood
<1>9. ASSUME NEW c \in Ctxts, xmlCtxtResetErrorRing(c) \/ xmlCtxtResetErrorDedup(c) PROVE Good
  <2>1. HasEntry(c)
    BY <1>9 DEF xmlCtxtResetErrorRing, xmlCtxtResetErrorDedup
  <2> DEFINE x == RingClear(EntryOf(c))
             y == DedupReset(EntryOf(c))
  <2>2. GoodEntry(EntryOf(c)) /\ Useful(EntryOf(c)) /\ EntryOf(c).ctxt = c
    BY <2>1, LookupFinds
  <2>3. /\ GoodEntry(x) /\ x.ctxt = c /\ Useful(x)
        /\ GoodEntry(y) /\ y.ctxt = c /\ Useful(y)
    BY <2>2, RingClearGood, DedupResetGood DEF Useful
  <2>4. ringList' \in {Replace(c, x), Replace(c, y)}
    BY <1>9 DEF xmlCtxtResetErrorRing, xmlCtxtResetErrorDedup
  <2> HIDE DEF x, y
  <2> QED BY <2>1, <2>3, <2>4, ReplaceGood
<1>10. ASSUME UNCHANGED ringVars PROVE Good
  BY <1>10 DEF ringVars
<1>11. ASSUME NEW c \in Ctxts, Raise(c) PROVE Good
  <2>1. PICK e \in Errors : VErrLimited(c, e) \/ VErrSuppressed(c, e) \/ VErrReport(c, e)
    BY <1>11 DEF Raise
  <2>2. ringList' = ListAfterNote(c, e)
    BY <2>1, Zenon DEF VErrLimited, VErrSuppressed, VErrReport
  <2> QED BY <1>5, <2>2
<1>12. Good
  <2> HIDE DEF Good
  <2>1. CASE RingNext
    <3>1. PICK c \in Ctxts :
            \/ \E r \in BOOLEAN : xmlNewParserCtxt(c, r)
            \/ xmlCtxtReset(c) \/ xmlStopParser(c) \/ xmlFreeParserCtxt(c)
            \/ Raise(c) \/ StoreErrorRing(c)
            \/ \E n \in RingSizes : xmlCtxtSetErrorRingSize(c, n)
            \/ \E n \in DedupLimits : xmlCtxtSetErrorDedup(c, n)
            \/ xmlCtxtResetErrorRing(c) \/ xmlCtxtResetErrorDedup(c)
      BY <2>1, Zenon DEF RingNext
    <3> QED BY <1>1, <1>2, <1>3, <1>4, <1>6, <1>7, <1>8, <1>9, <1>11, <3>1, Zenon
  <2> QED BY <1>10, <2>1
<1> QED BY <1>12, TypeStep

LEMMA ListInit == RingInit => ListInv
<1> SUFFICES ASSUME RingInit PROVE ListInv
  OBVIOUS
<1>1. RingType
  BY FreshType DEF RingInit, RingType
<1>2. GoodList(ringList)
  BY DEF RingInit, GoodList
<1> QED BY <1>1, <1>2 DEF ListInv

(* The list holds one entry per context at most, and none that configures  *)
(* nothing, whatever contexts enable, resize and disable in any order, for *)
(* as long as the allocations it depends on succeed                        *)
(* (parserInternals.c:565-585, 749-770).                                   *)
THEOREM RingEntries ==
  ASSUME AllocFails \cap {"ring", "copy"} = {}
  PROVE  RingSpec => []EntriesUseful
<1>1. ListInv => EntriesUseful
  BY DEF ListInv, GoodList, EntriesUseful, Useful
<1> QED BY <1>1, ListInit, ListStep, PTL DEF RingSpec

(* Every ring is backed by its slots, of which exactly the written ones    *)
(* hold an error, and is written in order until it is full, for rings of   *)
(* any size and handlers that call back between report and store           *)
(* (parserInternals.c:164-193, 548-620).                                   *)
THEOREM RingWellFormed ==
  ASSUME AllocFails \cap {"ring", "copy"} = {}
  PROVE  RingSpec => []RingShape
<1>1. ListInv => RingShape
  BY DEF ListInv, GoodList, GoodEntry, GoodRing, RingShape
<1> QED BY <1>1, ListInit, ListStep, PTL DEF RingSpec

-----------------------------------------------------------------------------
(* The rings implement the abstract error log.                             *)

(* The position after a in a ring of n ...                                 *)
LEMMA NextPosition ==
  ASSUME NEW n \in Nat \ {0}, NEW a \in 0..(n - 1)
  PROVE  (a + 1) % n = IF a + 1 < n THEN a + 1 ELSE 0
OBVIOUS

(* ... and of the one i - 1 further on.                                    *)
LEMMA Position ==
  ASSUME NEW n \in Nat \ {0}, NEW a \in 0..(n - 1), NEW i \in 1..n
  PROVE  (a + i - 1) % n = IF a + i - 1 < n THEN a + i - 1 ELSE a + i - 1 - n
OBVIOUS

(* A ring that counts nothing shows nothing.                               *)
LEMMA EmptyContents ==
  ASSUME NEW en, en.count = 0
  PROVE  RingContents(en) = <<>>
BY DEF RingContents

(* Reading a ring from its oldest slot, one step on for every element.     *)
ReadFrom(errors, size, start, count) ==
  [i \in 1..count |-> errors[(start + i - 1) % size]]

(* The slot i - 1 steps after the oldest one.                              *)
SlotAt(size, start, i) ==
  IF start + i - 1 < size THEN start + i - 1 ELSE start + i - 1 - size

(* A ring that can be read: its oldest slot and its count are inside it.   *)
Readable(S, errors, size, start, count) ==
  /\ size \in Nat \ {0} /\ errors \in [0..(size - 1) -> S]
  /\ start \in 0..(size - 1) /\ count \in 0..size

(* Reading a ring gives a sequence of its slots, with the wrap-around of   *)
(* the index taken apart.                                                  *)
LEMMA ReadAt ==
  ASSUME NEW S, NEW errors, NEW size, NEW start, NEW count,
         Readable(S, errors, size, start, count)
  PROVE  /\ ReadFrom(errors, size, start, count) \in Seq(S)
         /\ Len(ReadFrom(errors, size, start, count)) = count
         /\ \A i \in 1..count :
              ReadFrom(errors, size, start, count)[i] = errors[SlotAt(size, start, i)]
<1> DEFINE s == ReadFrom(errors, size, start, count)
           at(i) == SlotAt(size, start, i)
<1> USE DEF Readable
<1>1. ASSUME NEW i \in 1..count PROVE s[i] = errors[at(i)] /\ at(i) \in 0..(size - 1)
  <2>1. i \in 1..size
    OBVIOUS
  <2>2. (start + i - 1) % size = at(i)
    BY <2>1, Position DEF SlotAt
  <2>3. at(i) \in 0..(size - 1)
    BY <2>1 DEF SlotAt
  <2> HIDE DEF at
  <2> QED BY <2>2, <2>3 DEF ReadFrom
<1> HIDE DEF at
<1>2. s \in [1..count -> S]
  BY <1>1 DEF ReadFrom
<1> HIDE DEF s
<1>3. s \in Seq(S) /\ Len(s) = count
  BY <1>2
<1> QED BY <1>1, <1>3 DEF at, s

(* One slot is written.                                                    *)
Written(S, errors, size, k, e, slots) ==
  /\ slots \in [0..(size - 1) -> S] /\ slots[k] = e
  /\ \A j \in 0..(size - 1) : j # k => slots[j] = errors[j]

(* The slot that the next error will take.                                 *)
Follows(size, k, after) == after = IF k + 1 < size THEN k + 1 ELSE 0

(* A ring that is not full.                                                *)
LEMMA StoredShort ==
  ASSUME NEW S, NEW errors, NEW size, NEW count, NEW e, e \in S, NEW slots,
         Readable(S, errors, size, 0, count), count < size,
         Written(S, errors, size, count, e, slots)
  PROVE  ReadFrom(slots, size, 0, count + 1) = Append(ReadFrom(errors, size, 0, count), e)
<1> DEFINE new == ReadFrom(slots, size, 0, count + 1)
           old == ReadFrom(errors, size, 0, count)
<1>0. size \in Nat \ {0} /\ errors \in [0..(size - 1) -> S] /\ count \in 0..(size - 1)
  BY DEF Readable
<1>1. slots \in [0..(size - 1) -> S] /\ slots[count] = e
      /\ \A j \in 0..(size - 1) : j # count => slots[j] = errors[j]
  BY <1>0 DEF Written
<1>2. 0 \in 0..(size - 1) /\ count + 1 \in 0..size /\ count \in 0..size
  BY <1>0
<1>3. new \in Seq(S) /\ Len(new) = count + 1 /\ \A i \in 1..(count + 1) : new[i] = slots[i - 1]
  <2>1. /\ new \in Seq(S) /\ Len(new) = count + 1
        /\ \A i \in 1..(count + 1) : new[i] = slots[SlotAt(size, 0, i)]
    <3>1. Readable(S, slots, size, 0, count + 1)
      BY <1>0, <1>1, <1>2 DEF Readable
    <3> QED BY <3>1, ReadAt
  <2> HIDE DEF new
  <2> QED BY <1>0, <2>1 DEF SlotAt
<1>4. old \in Seq(S) /\ Len(old) = count /\ \A i \in 1..count : old[i] = errors[i - 1]
  <2>1. /\ old \in Seq(S) /\ Len(old) = count
        /\ \A i \in 1..count : old[i] = errors[SlotAt(size, 0, i)]
    BY ReadAt
  <2> HIDE DEF old
  <2> QED BY <1>0, <2>1 DEF SlotAt
<1> HIDE DEF new, old
<1>5. ASSUME NEW i \in 1..(count + 1) PROVE new[i] = Append(old, e)[i]
  <2>1. CASE i = count + 1
    BY <2>1, <1>0, <1>1, <1>3, <1>4
  <2>2. CASE i # count + 1
    BY <2>2, <1>0, <1>1, <1>3, <1>4
  <2> QED BY <2>1, <2>2
<1>6. Append(old, e) \in Seq(S) /\ Len(Append(old, e)) = count + 1
  BY <1>0, <1>4
<1> HIDE DEF new
<1>7. new = Append(old, e)
  BY <1>3, <1>5, <1>6
<1> QED BY <1>7 DEF new, old

(* A full ring: the oldest error gives way.                                *)
LEMMA StoredFull ==
  ASSUME NEW S, NEW errors, NEW size, NEW next, NEW e, e \in S, NEW slots,
         Readable(S, errors, size, next, size),
         Written(S, errors, size, next, e, slots),
         NEW after, Follows(size, next, after)
  PROVE  ReadFrom(slots, size, after, size)
           = Log!LastN(Append(ReadFrom(errors, size, next, size), e), size)
<1> DEFINE new == ReadFrom(slots, size, after, size)
           old == ReadFrom(errors, size, next, size)
           all == Append(old, e)
           last == SubSeq(all, 2, size + 1)
<1> USE DEF Readable, Follows
<1>1. slots \in [0..(size - 1) -> S] /\ slots[next] = e
      /\ \A j \in 0..(size - 1) : j # next => slots[j] = errors[j]
  BY DEF Written
<1>2. after \in 0..(size - 1) /\ size \in 0..size
  OBVIOUS
<1>3. /\ new \in Seq(S) /\ Len(new) = size
      /\ \A i \in 1..size : new[i] = slots[SlotAt(size, after, i)]
  <2>1. Readable(S, slots, size, after, size)
    BY <1>1, <1>2 DEF Readable
  <2> HIDE DEF Readable
  <2> QED BY <2>1, ReadAt
<1>4. /\ old \in Seq(S) /\ Len(old) = size
      /\ \A i \in 1..size : old[i] = errors[SlotAt(size, next, i)]
  <2> HIDE DEF Readable
  <2> QED BY ReadAt
<1> HIDE DEF new, old
<1>5. /\ all \in Seq(S) /\ Len(all) = size + 1 /\ all[size + 1] = e
      /\ \A i \in 1..size : all[i] = old[i]
  BY <1>4
<1> HIDE DEF all
<1>6. last \in Seq(S) /\ Len(last) = size /\ \A i \in 1..size : last[i] = all[i + 1]
  BY <1>5
<1> HIDE DEF last
<1>7. ASSUME NEW i \in 1..size PROVE new[i] = last[i]
  <2>1. CASE i = size
    BY <2>1, <1>1, <1>3, <1>5, <1>6, SMTT(60) DEF SlotAt
  <2>2. CASE i < size
    <3>1. last[i] = old[i + 1] /\ i + 1 \in 1..size
      BY <2>2, <1>5, <1>6
    <3> DEFINE j == IF next + i < size THEN next + i ELSE next + i - size
    <3>2. j \in 0..(size - 1) /\ j # next
      BY <2>2
    <3>3. old[i + 1] = errors[j]
      BY <3>1, <1>4 DEF SlotAt
    <3>4. new[i] = slots[j]
      <4>1. SlotAt(size, after, i) = j
        BY <2>2 DEF SlotAt
      <4> QED BY <1>3, <4>1
    <3> QED BY <1>1, <3>1, <3>2, <3>3, <3>4
  <2> QED BY <2>1, <2>2
<1>8. new = last
  BY <1>3, <1>6, <1>7
<1>9. Log!LastN(all, size) = last
  BY <1>5 DEF Log!LastN, last
<1> QED BY <1>8, <1>9 DEF new, old, all

(* Storing an error appends it to what the ring shows and drops the oldest *)
(* when the ring was full (parserInternals.c:164-193).                     *)
LEMMA StoredContents ==
  ASSUME NEW en, GoodEntry(en), en.size > 0, NEW e \in Storable
  PROVE  LET x == Stored(en, e, TRUE) IN
         /\ RingContents(en) \in Seq(Slots)
         /\ RingContents(x) = Log!LastN(Append(RingContents(en), e), en.size)
<1> DEFINE size == en.size
           count == en.count
           next == en.next
           errors == en.errors
           slots == [errors EXCEPT ![next] = e]
           after == (next + 1) % size
           more == IF count < size THEN count + 1 ELSE count
           x == [en EXCEPT !.errors = slots, !.next = after, !.count = more]
           start == IF count < size THEN 0 ELSE next
           from == IF more < size THEN 0 ELSE after
           old == ReadFrom(errors, size, start, count)
           new == ReadFrom(slots, size, from, more)
<1>1. /\ size \in Nat \ {0} /\ count \in 0..size /\ next \in 0..(size - 1)
      /\ count < size => next = count
      /\ errors \in [0..(size - 1) -> Slots] /\ e \in Slots
  BY DEF GoodEntry, EntryType, GoodRing, Slots
<1>2. x.errors = slots /\ x.size = size /\ x.count = more /\ x.next = after
  BY DEF GoodEntry, EntryType
<1>3. Stored(en, e, TRUE) = x
  BY DEF Stored
<1>4. RingContents(x) = new /\ RingContents(en) = old
  <2> HIDE DEF x, slots, after, more
  <2> QED BY <1>2 DEF RingContents, ReadFrom
<1> HIDE DEF x
<1>5. old \in Seq(Slots) /\ Len(old) = count
  <2>1. start \in 0..(size - 1)
    BY <1>1
  <2> HIDE DEF start, size, count, errors
  <2>2. Readable(Slots, errors, size, start, count)
    BY <1>1, <2>1 DEF Readable
  <2> QED BY <2>2, ReadAt
<1>6. CASE count < size
  <2>0. Written(Slots, errors, size, count, e, slots)
    BY <1>1, <1>6 DEF Written
  <2>1. more = count + 1 /\ start = 0 /\ next = count /\ count \in 0..(size - 1)
    BY <1>1, <1>6
  <2>2. count + 1 = size => after = 0
    <3> HIDE DEF size, count, next
    <3> QED BY <1>1, <2>1, NextPosition
  <2>3. from = 0 /\ count < size
    <3> HIDE DEF after
    <3> QED BY <1>1, <2>1, <2>2
  <2>4. new = Append(old, e)
    <3>1. Readable(Slots, errors, size, 0, count)
      BY <1>1, <2>1 DEF Readable
    <3> HIDE DEF size, count, next, errors, from, more, start, slots
    <3>2. e \in Slots
      BY <1>1
    <3>3. ReadFrom(slots, size, 0, count + 1) = Append(ReadFrom(errors, size, 0, count), e)
      BY <2>3, <2>0, <3>1, <3>2, StoredShort
    <3> QED BY <2>1, <2>3, <3>3
  <2>5. Len(Append(old, e)) = count + 1
    <3> HIDE DEF old
    <3> QED BY <1>5
  <2> HIDE DEF new, old
  <2>6. Log!LastN(Append(old, e), size) = Append(old, e)
    <3>1. Len(Append(old, e)) <= size
      BY <1>1, <1>6, <2>5
    <3> QED BY <3>1 DEF Log!LastN
  <2> QED BY <1>3, <1>4, <1>5, <2>4, <2>6
<1>7. CASE ~(count < size)
  <2>0. Written(Slots, errors, size, next, e, slots)
    BY <1>1 DEF Written
  <2>1. more = size /\ start = next /\ count = size /\ from = after
    BY <1>1, <1>7
  <2>2. new = Log!LastN(Append(old, e), size)
    <3>1. Readable(Slots, errors, size, next, size)
      BY <1>1, <2>1 DEF Readable
    <3> HIDE DEF size, count, next, errors, from, more, start, slots
    <3>2. e \in Slots
      BY <1>1
    <3>4. Follows(size, next, after)
      BY <1>1, NextPosition DEF Follows
    <3> HIDE DEF after
    <3>3. ReadFrom(slots, size, after, size)
            = Log!LastN(Append(ReadFrom(errors, size, next, size), e), size)
      BY <2>0, <3>1, <3>2, <3>4, StoredFull
    <3> QED BY <2>1, <3>3
  <2> HIDE DEF new, old
  <2> QED BY <1>3, <1>4, <1>5, <2>2
<1> QED BY <1>6, <1>7

-----------------------------------------------------------------------------
(* The entry of a context in a list, an unused one if it has none.         *)
RingOf(list, c) ==
  IF \E i \in 1..Len(list) : list[i].ctxt = c
  THEN list[CHOOSE i \in 1..Len(list) : list[i].ctxt = c]
  ELSE NewEntry(c)

(* A context has one entry: any that carries its name is its ring.         *)
LEMMA RingFound ==
  ASSUME NEW list, GoodList(list), NEW i \in 1..Len(list), NEW c, list[i].ctxt = c
  PROVE  RingOf(list, c) = list[i]
<1> DEFINE j == CHOOSE j \in 1..Len(list) : list[j].ctxt = c
<1>1. j \in 1..Len(list) /\ list[j].ctxt = c
  OBVIOUS
<1> HIDE DEF j
<1>2. j = i
  BY <1>1 DEF GoodList
<1> QED BY <1>2 DEF RingOf, j

(* What the log shows of a context is the ring of its entry.               *)
LEMMA LogView ==
  ASSUME GoodList(ringList), NEW c
  PROVE  /\ (IF HasEntry(c) THEN EntryOf(c).size ELSE 0) = RingOf(ringList, c).size
         /\ (IF HasEntry(c) THEN RingContents(EntryOf(c)) ELSE <<>>)
              = RingContents(RingOf(ringList, c))
<1>1. CASE HasEntry(c)
  BY <1>1, LookupFinds, RingFound
<1>2. CASE ~HasEntry(c)
  <2>1. RingOf(ringList, c) = NewEntry(c)
    BY <1>2, LookupMisses DEF RingOf
  <2>2. NewEntry(c).size = 0 /\ NewEntry(c).count = 0
    BY DEF NewEntry
  <2> QED BY <1>2, <2>1, <2>2, EmptyContents
<1> QED BY <1>1, <1>2

(* The same one step later.                                                *)
LEMMA LogViewNext ==
  ASSUME GoodList(ringList'), NEW c
  PROVE  /\ (IF HasEntry(c) THEN EntryOf(c).size ELSE 0)' = RingOf(ringList', c).size
         /\ (IF HasEntry(c) THEN RingContents(EntryOf(c)) ELSE <<>>)'
              = RingContents(RingOf(ringList', c))
<1> DEFINE P == {i \in 1..Len(ringList') : ringList'[i].ctxt = c}
           k == CHOOSE i \in P : \A j \in P : i <= j
<1>1. (Positions(c))' = P
  BY DEF Positions
<1>2. CASE P # {}
  <2>1. PICK i \in P : TRUE
    BY <1>2
  <2>2. i \in 1..Len(ringList') /\ (\A j \in P : j = i) /\ (\A j \in P : i <= j)
    BY <2>1 DEF GoodList
  <2>3. k = i
    BY <2>1, <2>2
  <2>4. (RingLookup(c))' = i /\ i # 0
    BY <1>1, <1>2, <2>2, <2>3 DEF RingLookup
  <2>5. RingOf(ringList', c) = ringList'[i]
    BY <2>1, <2>2, RingFound
  <2> QED BY <2>4, <2>5 DEF HasEntry, EntryOf
<1>3. CASE P = {}
  <2>1. (RingLookup(c))' = 0
    BY <1>1, <1>3 DEF RingLookup
  <2>2. RingOf(ringList', c) = NewEntry(c)
    BY <1>3 DEF RingOf
  <2>3. NewEntry(c).size = 0 /\ NewEntry(c).count = 0
    BY DEF NewEntry
  <2> QED BY <2>1, <2>2, <2>3, EmptyContents DEF HasEntry
<1> QED BY <1>2, <1>3

-----------------------------------------------------------------------------
(* The lists a call can leave behind differ in one context.                *)
OnlyAt(list, new, c, en) ==
  /\ RingOf(new, c) = en
  /\ \A d \in Ctxts : d # c => RingOf(new, d) = RingOf(list, d)

(* Replacing the entry of a context changes its ring only.                 *)
LEMMA ReplacedAt ==
  ASSUME NEW list, GoodList(list), NEW i \in 1..Len(list), NEW en, GoodEntry(en), Useful(en),
         NEW c, en.ctxt = c, list[i].ctxt = c
  PROVE  OnlyAt(list, [list EXCEPT ![i] = en], c, en)
<1> DEFINE new == [list EXCEPT ![i] = en]
<1>1. GoodList(new)
  BY ReplacedGood
<1>2. Len(new) = Len(list) /\ new[i] = en /\ \A j \in 1..Len(list) : j # i => new[j] = list[j]
  BY DEF GoodList
<1> HIDE DEF new
<1>3. RingOf(new, c) = en
  BY <1>1, <1>2, RingFound
<1>4. ASSUME NEW d \in Ctxts, d # c PROVE RingOf(new, d) = RingOf(list, d)
  <2>1. CASE \E j \in 1..Len(list) : list[j].ctxt = d
    <3>1. PICK j \in 1..Len(list) : list[j].ctxt = d
      BY <2>1
    <3>2. j # i /\ new[j] = list[j] /\ j \in 1..Len(new)
      BY <1>2, <1>4, <3>1
    <3> QED BY <1>1, <3>1, <3>2, RingFound
  <2>2. CASE ~\E j \in 1..Len(list) : list[j].ctxt = d
    <3>1. ~\E j \in 1..Len(new) : new[j].ctxt = d
      BY <1>2, <1>4, <2>2
    <3> QED BY <2>2, <3>1 DEF RingOf
  <2> QED BY <2>1, <2>2
<1> QED BY <1>3, <1>4 DEF OnlyAt, new

(* Unlinking the entry of a context takes its ring away and no other.      *)
LEMMA UnlinkedAt ==
  ASSUME GoodList(ringList), NEW i \in 1..Len(ringList), NEW c, ringList[i].ctxt = c
  PROVE  OnlyAt(ringList, Unlinked(i), c, NewEntry(c))
<1> DEFINE new == Unlinked(i)
           from(j) == IF j < i THEN j ELSE j + 1
           to(j) == IF j < i THEN j ELSE j - 1
<1>0. GoodList(new)
  BY UnlinkedGood
<1>1. Len(ringList) \in Nat \ {0} /\ ringList \in Seq(EntryType)
  BY DEF GoodList
<1>2. \A j \in 1..(Len(ringList) - 1) :
        from(j) \in 1..Len(ringList) /\ from(j) # i /\ new[j] = ringList[from(j)]
  BY <1>1 DEF Unlinked
<1>3. new \in [1..(Len(ringList) - 1) -> EntryType]
  BY <1>1, <1>2 DEF Unlinked
<1>4. Len(new) = Len(ringList) - 1
  BY <1>1, <1>3
<1>5. \A j \in 1..Len(ringList) : j # i => to(j) \in 1..Len(new) /\ from(to(j)) = j
  BY <1>1, <1>4
<1> HIDE DEF new, from, to
<1>6. RingOf(new, c) = NewEntry(c)
  <2>1. ~\E j \in 1..Len(new) : new[j].ctxt = c
    BY <1>2, <1>4, ZenonT(60) DEF GoodList
  <2> QED BY <2>1 DEF RingOf
<1>7. ASSUME NEW d \in Ctxts, d # c PROVE RingOf(new, d) = RingOf(ringList, d)
  <2>1. CASE \E j \in 1..Len(ringList) : ringList[j].ctxt = d
    <3>1. PICK j \in 1..Len(ringList) : ringList[j].ctxt = d
      BY <2>1
    <3>2. to(j) \in 1..Len(new) /\ new[to(j)] = ringList[j]
      BY <1>2, <1>4, <1>5, <1>7, <3>1
    <3>3. RingOf(new, d) = new[to(j)]
      BY <1>0, <3>1, <3>2, RingFound
    <3> QED BY <3>1, <3>2, <3>3, RingFound
  <2>2. CASE ~\E j \in 1..Len(ringList) : ringList[j].ctxt = d
    <3>1. ~\E j \in 1..Len(new) : new[j].ctxt = d
      BY <1>2, <1>4, <2>2
    <3> QED BY <2>2, <3>1 DEF RingOf
  <2> QED BY <2>1, <2>2
<1> QED BY <1>6, <1>7 DEF OnlyAt, new

(* A new entry in front of the list is the ring of its context only.       *)
LEMMA PrependedAt ==
  ASSUME NEW list, GoodList(list), NEW old \in EntryType, NEW en, GoodEntry(en), Useful(en),
         NEW c, en.ctxt = c, \A i \in 1..Len(list) : list[i].ctxt # c
  PROVE  OnlyAt(list, [<<old>> \o list EXCEPT ![1] = en], c, en)
<1> DEFINE base == <<old>> \o list
           new == [base EXCEPT ![1] = en]
<1>0. GoodList(new)
  BY PrependedGood
<1>1. list \in Seq(EntryType) /\ Len(list) \in Nat /\ en \in EntryType
  BY DEF GoodList, GoodEntry
<1>2. /\ base \in Seq(EntryType) /\ Len(base) = Len(list) + 1
      /\ \A j \in 2..(Len(list) + 1) : base[j] = list[j - 1]
  BY <1>1
<1> HIDE DEF base
<1>3. /\ Len(new) = Len(list) + 1 /\ new[1] = en
      /\ \A j \in 2..(Len(list) + 1) : new[j] = list[j - 1]
  BY <1>1, <1>2
<1> HIDE DEF new
<1>4. \A j \in 1..Len(list) : j + 1 \in 1..Len(new) /\ new[j + 1] = list[j]
  BY <1>1, <1>3
<1>5. RingOf(new, c) = en
  <2>1. 1 \in 1..Len(new)
    BY <1>1, <1>3
  <2> QED BY <1>0, <1>3, <2>1, RingFound
<1>6. ASSUME NEW d \in Ctxts, d # c PROVE RingOf(new, d) = RingOf(list, d)
  <2>1. CASE \E j \in 1..Len(list) : list[j].ctxt = d
    <3>1. PICK j \in 1..Len(list) : list[j].ctxt = d
      BY <2>1
    <3>2. RingOf(new, d) = new[j + 1]
      BY <1>0, <1>4, <3>1, RingFound
    <3> QED BY <1>4, <3>1, <3>2, RingFound
  <2>2. CASE ~\E j \in 1..Len(list) : list[j].ctxt = d
    <3>1. ~\E j \in 1..Len(new) : new[j].ctxt = d
      <4>1. \A j \in 1..Len(new) : j = 1 \/ (j \in 2..(Len(list) + 1) /\ j - 1 \in 1..Len(list))
        BY <1>1, <1>3
      <4> QED BY <1>3, <1>6, <2>2, <4>1
    <3> QED BY <2>2, <3>1 DEF RingOf
  <2> QED BY <2>1, <2>2
<1> QED BY <1>5, <1>6 DEF OnlyAt, new, base

(* What a call other than a store does to the ring of its context:         *)
(* nothing, or it empties or resizes it.                                   *)
SameView(x, y) ==
  y.size = x.size /\ y.errors = x.errors /\ y.count = x.count /\ y.next = x.next

(* The ring was emptied, and possibly resized or disabled.                 *)
Emptied(x, y) == y.count = 0 /\ (y.size = x.size \/ y.size \in RingSizes \cup {0})

Viewed(x, y) == SameView(x, y) \/ Emptied(x, y)

(* At most one context sees a difference.                                  *)
OneRing(list, new) ==
  \E c \in Ctxts :
    /\ Viewed(RingOf(list, c), RingOf(new, c))
    /\ \A d \in Ctxts : d # c => RingOf(new, d) = RingOf(list, d)

(* No context sees a difference.                                           *)
SameRings(list, new) == \A c \in Ctxts : SameView(RingOf(list, c), RingOf(new, c))

(* The ring of every context is well formed.                               *)
LEMMA RingOfGood ==
  ASSUME NEW list, GoodList(list), NEW c \in Ctxts
  PROVE  GoodEntry(RingOf(list, c)) /\ RingOf(list, c).ctxt = c
<1>1. CASE \E i \in 1..Len(list) : list[i].ctxt = c
  <2>1. PICK i \in 1..Len(list) : list[i].ctxt = c
    BY <1>1
  <2> QED BY <2>1, RingFound DEF GoodList
<1>2. CASE ~\E i \in 1..Len(list) : list[i].ctxt = c
  BY <1>2, NewEntryGood DEF RingOf
<1> QED BY <1>1, <1>2

(* Equal ring fields show equal errors.                                    *)
LEMMA SameContents ==
  ASSUME NEW x, NEW y, SameView(x, y)
  PROVE  RingContents(y) = RingContents(x)
BY DEF SameView, RingContents

(* Resetting the deduplication leaves the ring alone.                      *)
LEMMA DedupResetView ==
  ASSUME NEW en, GoodEntry(en)
  PROVE  SameView(en, DedupReset(en))
<1> DEFINE x == [en EXCEPT !.dedup = EmptyDedup, !.dedupCount = 0, !.dedupNext = 0]
<1>1. SameView(en, x) /\ SameView(en, en)
  BY DEF GoodEntry, EntryType, SameView
<1> HIDE DEF x
<1> QED BY <1>1 DEF DedupReset, x

(* Clearing keeps the size and drops the errors.                           *)
LEMMA RingClearView ==
  ASSUME NEW en, GoodEntry(en)
  PROVE  RingClear(en).count = 0 /\ RingClear(en).size = en.size
<1> DEFINE empty == [i \in 0..(en.size - 1) |-> NoError]
           x == [en EXCEPT !.errors = empty, !.count = 0, !.next = 0]
           y == IF en.errors = Null THEN en ELSE x
           z == [y EXCEPT !.dedup = EmptyDedup, !.dedupCount = 0, !.dedupNext = 0]
<1>1. en.errors = Null => en.count = 0
  BY DEF GoodEntry, GoodRing, EntryType
<1> HIDE DEF empty
<1>2. y.count = 0 /\ y.size = en.size /\ DOMAIN y = DOMAIN en
  BY <1>1 DEF GoodEntry, EntryType
<1>3. "dedup" \in DOMAIN en /\ "size" \in DOMAIN en /\ "count" \in DOMAIN en
  BY DEF GoodEntry, EntryType
<1>4. RingClear(en) = DedupReset(y)
  BY DEF RingClear, empty
<1> HIDE DEF y
<1>5. z.count = 0 /\ z.size = en.size
  BY <1>2, <1>3
<1> HIDE DEF z
<1> QED BY <1>2, <1>4, <1>5 DEF DedupReset, z

(* Noting a hash leaves the ring alone.                                    *)
LEMMA NoteView ==
  ASSUME NEW en, GoodEntry(en), en.dedup # Null, NEW e \in Errors
  PROVE  SameView(en, DedupNote(en, e))
<1>1. CASE Holding(en, e) = {}
  BY <1>1, NoteNew DEF Noted, SameView
<1>2. CASE Holding(en, e) # {}
  BY <1>2, NoteKnown DEF Noted, SameView
<1> QED BY <1>1, <1>2

-----------------------------------------------------------------------------
(* The calls. One that leaves the list alone ...                           *)
LEMMA UnchangedRings ==
  ASSUME NEW list, NEW c \in Ctxts
  PROVE  OneRing(list, list)
BY DEF OneRing, Viewed, SameView

(* The entry that was found is replaced.                                   *)
LEMMA ReplaceRing ==
  ASSUME GoodList(ringList), NEW c \in Ctxts, HasEntry(c), NEW en, GoodEntry(en), Useful(en),
         en.ctxt = c, Viewed(EntryOf(c), en)
  PROVE  OneRing(ringList, Replace(c, en))
<1>1. RingLookup(c) \in 1..Len(ringList) /\ EntryOf(c) = ringList[RingLookup(c)]
      /\ EntryOf(c).ctxt = c
  BY LookupFinds
<1>2. RingOf(ringList, c) = EntryOf(c)
  BY <1>1, RingFound
<1>3. OnlyAt(ringList, Replace(c, en), c, en)
  BY <1>1, ReplacedAt DEF Replace
<1> QED BY <1>2, <1>3 DEF OnlyAt, OneRing

(* The entry that was found is unlinked.                                   *)
LEMMA UnlinkRing ==
  ASSUME GoodList(ringList), NEW c \in Ctxts, HasEntry(c)
  PROVE  OneRing(ringList, Unlinked(RingLookup(c)))
<1>1. RingLookup(c) \in 1..Len(ringList) /\ ringList[RingLookup(c)].ctxt = c
  BY LookupFinds
<1>2. OnlyAt(ringList, Unlinked(RingLookup(c)), c, NewEntry(c))
  BY <1>1, UnlinkedAt
<1>3. NewEntry(c).count = 0 /\ NewEntry(c).size = 0
  BY DEF NewEntry
<1> QED BY <1>2, <1>3 DEF OnlyAt, OneRing, Viewed, Emptied

(* An entry is created.                                                    *)
LEMMA PrependRing ==
  ASSUME GoodList(ringList), NEW c \in Ctxts, ~HasEntry(c), NEW en, GoodEntry(en), Useful(en),
         en.ctxt = c, Viewed(NewEntry(c), en)
  PROVE  OneRing(ringList, [<<NewEntry(c)>> \o ringList EXCEPT ![1] = en])
<1>1. NewEntry(c) \in EntryType /\ \A i \in 1..Len(ringList) : ringList[i].ctxt # c
  BY LookupMisses, NewEntryGood DEF GoodEntry
<1>2. RingOf(ringList, c) = NewEntry(c)
  BY <1>1 DEF RingOf
<1>3. OnlyAt(ringList, [<<NewEntry(c)>> \o ringList EXCEPT ![1] = en], c, en)
  BY <1>1, PrependedAt
<1> QED BY <1>2, <1>3 DEF OnlyAt, OneRing

(* xmlCtxtVErr notes the hash of a new error.                              *)
LEMMA NoteRing ==
  ASSUME GoodList(ringList), NEW c \in Ctxts, NEW e \in Errors
  PROVE  SameRings(ringList, ListAfterNote(c, e))
<1>1. CASE DedupOn(c)
  <2>1. HasEntry(c) /\ EntryOf(c).dedup # Null
    BY <1>1 DEF DedupOn
  <2>2. /\ GoodEntry(EntryOf(c)) /\ Useful(EntryOf(c)) /\ EntryOf(c).ctxt = c
        /\ RingLookup(c) \in 1..Len(ringList) /\ EntryOf(c) = ringList[RingLookup(c)]
    BY <2>1, LookupFinds
  <2> DEFINE x == DedupNote(EntryOf(c), e)
             new == Replace(c, x)
  <2>3. /\ GoodEntry(x) /\ x.ctxt = c /\ x.size = EntryOf(c).size
        /\ x.dedupLimit = EntryOf(c).dedupLimit /\ SameView(EntryOf(c), x)
    BY <2>1, <2>2, DedupNoteGood, NoteView
  <2>4. ListAfterNote(c, e) = new
    BY <1>1 DEF ListAfterNote
  <2> HIDE DEF x
  <2>5. Useful(x)
    BY <2>2, <2>3 DEF Useful
  <2>6. OnlyAt(ringList, new, c, x) /\ RingOf(ringList, c) = EntryOf(c)
    BY <2>2, <2>3, <2>5, ReplacedAt, RingFound DEF Replace
  <2> HIDE DEF new
  <2> QED BY <2>3, <2>4, <2>6 DEF OnlyAt, SameRings, SameView
<1>2. CASE ~DedupOn(c)
  BY <1>2 DEF ListAfterNote, SameRings, SameView
<1> QED BY <1>1, <1>2

(* xmlCtxtSetErrorRingSize with size 0.                                    *)
LEMMA DisableRing ==
  ASSUME GoodList(ringList), NEW c \in Ctxts
  PROVE  OneRing(ringList, RingDisabled(c))
<1> DEFINE en == EntryOf(c)
           y == IF en.errors = Null THEN en ELSE RingClear(en)
           off == [y EXCEPT !.errors = Null, !.size = 0, !.count = 0, !.next = 0]
<1>1. CASE ~HasEntry(c)
  BY <1>1, UnchangedRings DEF RingDisabled
<1>2. CASE HasEntry(c)
  <2>1. /\ GoodEntry(en) /\ en.ctxt = c /\ RingLookup(c) \in 1..Len(ringList)
        /\ en.dedupLimit \in Nat
    BY <1>2, LookupFinds DEF GoodEntry, EntryType
  <2>2. GoodEntry(off) /\ off.ctxt = c /\ off.dedupLimit = en.dedupLimit
    BY <2>1, RingOffGood
  <2>3. off.count = 0 /\ off.size = 0
    <3>1. GoodEntry(y)
      BY <2>1, RingClearGood
    <3> HIDE DEF y
    <3> QED BY <3>1 DEF GoodEntry, EntryType
  <2>4. RingDisabled(c) = IF en.dedupLimit <= 0 THEN Unlinked(RingLookup(c)) ELSE Replace(c, off)
    BY <1>2 DEF RingDisabled
  <2> HIDE DEF off
  <2>5. CASE en.dedupLimit <= 0
    BY <1>2, <2>4, <2>5, UnlinkRing
  <2>6. CASE ~(en.dedupLimit <= 0)
    <3>1. Useful(off) /\ Viewed(en, off)
      BY <2>1, <2>2, <2>3, <2>6 DEF Useful, Viewed, Emptied
    <3> HIDE DEF en
    <3>2. OneRing(ringList, Replace(c, off))
      BY <1>2, <2>2, <3>1, ReplaceRing DEF en
    <3> QED BY <2>4, <2>6, <3>2
  <2> QED BY <2>5, <2>6
<1> QED BY <1>1, <1>2

(* xmlCtxtSetErrorRingSize with a size, its allocation succeeding.         *)
LEMMA ResizeRing ==
  ASSUME GoodList(ringList), NEW c \in Ctxts, NEW n \in RingSizes, n > 0
  PROVE  OneRing(ringList, RingResized(c, n, TRUE))
<1> DEFINE en == IF HasEntry(c) THEN EntryOf(c) ELSE NewEntry(c)
           old == IF en.errors = Null THEN en ELSE [RingClear(en) EXCEPT !.errors = Null]
           new == [old EXCEPT !.errors = [j \in 0..(n - 1) |-> NoError],
                              !.size = n, !.count = 0, !.next = 0]
           x == IF en.size = n THEN en ELSE new
<1>0. n \in Nat \ {0}
  BY BoundsAssumption
<1>1. GoodEntry(en) /\ en.ctxt = c
  BY LookupFinds, NewEntryGood
<1> HIDE DEF en
<1>2. GoodEntry(new) /\ new.ctxt = c /\ new.size = n
  BY <1>0, <1>1, RingNewGood
<1>3. new.count = 0
  <2>1. "count" \in DOMAIN old
    <3>1. GoodEntry(RingClear(en))
      BY <1>1, RingClearGood
    <3> QED BY <1>1, <3>1 DEF GoodEntry, EntryType
  <2> HIDE DEF old
  <2> QED BY <2>1
<1> HIDE DEF new
<1>4. GoodEntry(x) /\ x.ctxt = c /\ Useful(x) /\ Viewed(en, x)
  BY <1>1, <1>2, <1>3 DEF Useful, Viewed, SameView, Emptied
<1> USE DEF new
<1>5. CASE HasEntry(c)
  <2>1. RingResized(c, n, TRUE) = Replace(c, x)
    BY <1>5, Zenon DEF RingResized, Replace, en, EntryOf
  <2>2. en = EntryOf(c)
    BY <1>5 DEF en
  <2> HIDE DEF x
  <2> QED BY <1>4, <1>5, <2>1, <2>2, ReplaceRing
<1>6. CASE ~HasEntry(c)
  <2>1. (<<NewEntry(c)>> \o ringList)[1] = NewEntry(c)
    BY DEF GoodList
  <2>2. RingResized(c, n, TRUE) = [<<NewEntry(c)>> \o ringList EXCEPT ![1] = x]
    BY <1>6, <2>1, Zenon DEF RingResized, en
  <2>3. en = NewEntry(c)
    BY <1>6 DEF en
  <2> HIDE DEF x
  <2>4. OneRing(ringList, [<<NewEntry(c)>> \o ringList EXCEPT ![1] = x])
    BY <1>4, <1>6, <2>3, PrependRing
  <2> QED BY <2>2, <2>4
<1> QED BY <1>5, <1>6

(* xmlCtxtSetErrorDedup with limit 0 ...                                   *)
LEMMA DedupOffRing ==
  ASSUME GoodList(ringList), NEW c \in Ctxts
  PROVE  OneRing(ringList, DedupDisabled(c))
<1> DEFINE off == [EntryOf(c) EXCEPT !.dedup = Null, !.dedupLimit = 0,
                                     !.dedupCount = 0, !.dedupNext = 0]
<1>1. CASE ~HasEntry(c)
  BY <1>1, UnchangedRings DEF DedupDisabled
<1>2. CASE HasEntry(c)
  <2>1. GoodEntry(EntryOf(c)) /\ EntryOf(c).ctxt = c /\ RingLookup(c) \in 1..Len(ringList)
    BY <1>2, LookupFinds
  <2>2. GoodEntry(off) /\ off.ctxt = c /\ off.size \in Nat
    BY <2>1, DedupOffGood DEF GoodEntry, EntryType
  <2>3. DedupDisabled(c) = IF off.size = 0 THEN Unlinked(RingLookup(c)) ELSE Replace(c, off)
    BY <1>2 DEF DedupDisabled
  <2>4. SameView(EntryOf(c), off)
    BY <2>1 DEF SameView, GoodEntry, EntryType
  <2> HIDE DEF off
  <2>5. CASE off.size = 0
    BY <1>2, <2>3, <2>5, UnlinkRing
  <2>6. CASE off.size # 0
    BY <1>2, <2>2, <2>3, <2>4, <2>6, ReplaceRing DEF Useful, Viewed
  <2> QED BY <2>5, <2>6
<1> QED BY <1>1, <1>2

(* ... and with a limit.                                                   *)
LEMMA DedupOnRing ==
  ASSUME GoodList(ringList), NEW c \in Ctxts, NEW limit \in Nat \ {0}
  PROVE  OneRing(ringList, DedupEnabled(c, limit))
<1> DEFINE en == IF HasEntry(c) THEN EntryOf(c) ELSE NewEntry(c)
           x == [en EXCEPT !.dedup = EmptyDedup, !.dedupLimit = limit,
                           !.dedupCount = 0, !.dedupNext = 0]
<1>1. GoodEntry(en) /\ en.ctxt = c
  BY LookupFinds, NewEntryGood
<1> HIDE DEF en
<1>2. GoodEntry(x) /\ x.ctxt = c /\ Useful(x) /\ Viewed(en, x)
  <2>1. limit \in Nat
    OBVIOUS
  <2>2. GoodEntry(x) /\ x.ctxt = c /\ x.dedupLimit = limit
    BY <1>1, <2>1, DedupOnGood
  <2>3. SameView(en, x)
    BY <1>1 DEF SameView, GoodEntry, EntryType
  <2> HIDE DEF x
  <2> QED BY <2>2, <2>3 DEF Useful, Viewed
<1>3. CASE HasEntry(c)
  <2>1. DedupEnabled(c, limit) = Replace(c, x)
    BY <1>3, LookupFinds DEF DedupEnabled, Replace, en, EntryOf
  <2>2. en = EntryOf(c)
    BY <1>3 DEF en
  <2> HIDE DEF x
  <2> QED BY <1>2, <1>3, <2>1, <2>2, ReplaceRing
<1>4. CASE ~HasEntry(c)
  <2> DEFINE list == <<NewEntry(c)>> \o ringList
  <2>1. list[1] = NewEntry(c)
    BY DEF GoodList
  <2>2. DedupEnabled(c, limit) = [list EXCEPT ![1] = x]
    BY <1>4, <2>1 DEF DedupEnabled, en
  <2>3. en = NewEntry(c)
    BY <1>4 DEF en
  <2> HIDE DEF x
  <2> QED BY <1>2, <1>4, <2>2, <2>3, PrependRing
<1> QED BY <1>3, <1>4

(* No warning is muted.                                                    *)
NothingMuted == \A e \in Errors : e.level = "warning" => FALSE \notin WarnDefaults

(* The error a handler runs for is the last error of the context.          *)
Told(x, e) ==
  /\ e = IF x.inHandler THEN x.lastError ELSE NoError
  /\ x.inHandler => x.alive /\ x.lastError # NoError

Reporting ==
  /\ reporting \in [Ctxts -> Slots] /\ warnOn \in WarnDefaults
  /\ \A c \in Ctxts : Told(ctxt[c], reporting[c])

LogInv == ListInv /\ Reporting

(* What an error does to the fields a report is about.                     *)
LEMMA ReportFields ==
  ASSUME NEW x \in CtxtType, NEW e \in Errors, NEW s \in BOOLEAN
  PROVE  LET y == Counted(x, e, s) IN
         /\ y \in CtxtType /\ OutOfMemory(y).inHandler = x.inHandler
         /\ \A f \in Storable : WithLast(y, f).inHandler = x.inHandler /\ WithLast(y, f).alive = x.alive
<1> DEFINE y == Counted(x, e, s)
<1>1. y \in CtxtType
  BY CountedType
<1>2. y.inHandler = x.inHandler /\ y.alive = x.alive
  BY DEF Counted, CtxtType
<1> HIDE DEF y
<1>3. OutOfMemory(y).inHandler = y.inHandler
  BY <1>1 DEF OutOfMemory, CtxtType
<1>4. \A f \in Storable : WithLast(y, f).inHandler = y.inHandler /\ WithLast(y, f).alive = y.alive
  BY <1>1 DEF WithLast, CtxtType
<1> QED BY <1>1, <1>2, <1>3, <1>4 DEF y

(* A step of one context tells no other one anything.                      *)
LEMMA OneReport ==
  ASSUME Reporting, warnOn' = warnOn, NEW c \in Ctxts, NEW x, NEW e \in Slots,
         ctxt \in [Ctxts -> CtxtType],
         ctxt' = [ctxt EXCEPT ![c] = x], reporting' = [reporting EXCEPT ![c] = e],
         Told(x, e)
  PROVE  Reporting'
<1>1. \A d \in Ctxts : ctxt'[d] = (IF d = c THEN x ELSE ctxt[d])
  OBVIOUS
<1>2. \A d \in Ctxts : reporting'[d] = (IF d = c THEN e ELSE reporting[d])
  BY DEF Reporting
<1>3. reporting' \in [Ctxts -> Slots] /\ warnOn' \in WarnDefaults
  BY DEF Reporting
<1>4. \A d \in Ctxts : Told(ctxt'[d], reporting'[d])
  <2> TAKE d \in Ctxts
  <2>1. CASE d = c
    BY <1>1, <1>2, <2>1, Zenon
  <2>2. CASE d # c
    <3>1. ctxt'[d] = ctxt[d] /\ reporting'[d] = reporting[d]
      BY <1>1, <1>2, <2>2
    <3> QED BY <3>1 DEF Reporting
  <2> QED BY <2>1, <2>2
<1>5. (\A d \in Ctxts : Told(ctxt[d], reporting[d]))'
  BY <1>4 DEF Told
<1> QED BY <1>3, <1>5 DEF Reporting

LEMMA ReportStep ==
  ASSUME NothingMuted, LogInv, [RingNext]_ringVars
  PROVE  Reporting'
<1>a. NoError \in Slots /\ NoError \notin Storable /\ Storable \subseteq Slots
  BY ErrorsAssumption DEF Slots
<1>b. ctxt \in [Ctxts -> CtxtType] /\ reporting \in [Ctxts -> Slots] /\ Reporting
  BY DEF LogInv, ListInv, RingType, Reporting
<1>c. \A c \in Ctxts : reporting = [reporting EXCEPT ![c] = reporting[c]]
  BY <1>b
<1>d. \A c \in Ctxts : ~ctxt[c].inHandler \/ ~ctxt[c].alive
        => ~ctxt[c].inHandler /\ reporting[c] = NoError
  BY <1>b DEF Reporting, Told
<1>e. \A e \in Errors : ~Muted(e) /\ e \in Storable
  <2>1. warnOn \in WarnDefaults /\ warnOn \in BOOLEAN
    BY <1>b, BoundsAssumption DEF Reporting
  <2> QED BY <2>1, NoticeStorable DEF NothingMuted, Muted
<1>f. ASSUME NEW c \in Ctxts, NEW x, ctxt' = [ctxt EXCEPT ![c] = x], ~x.inHandler,
             reporting[c] = NoError, UNCHANGED <<reporting, warnOn>>
      PROVE  Reporting'
  <2>1. Told(x, NoError)
    BY <1>f DEF Told
  <2>2. reporting' = [reporting EXCEPT ![c] = NoError] /\ warnOn' = warnOn
    BY <1>c, <1>f
  <2> QED BY <1>a, <1>b, <1>f, <2>1, <2>2, OneReport
<1>1. ASSUME NEW c \in Ctxts, NEW r \in BOOLEAN, xmlNewParserCtxt(c, r) PROVE Reporting'
  <2>1. ctxt' = [ctxt EXCEPT ![c] = FreshCtxt(r)] /\ ~ctxt[c].alive
    BY <1>1 DEF xmlNewParserCtxt
  <2>2. ~FreshCtxt(r).inHandler
    BY DEF FreshCtxt
  <2> QED BY <1>1, <1>d, <1>f, <2>1, <2>2 DEF xmlNewParserCtxt
<1>2. ASSUME NEW c \in Ctxts, xmlCtxtReset(c) PROVE Reporting'
  <2>1. ctxt' = [ctxt EXCEPT ![c] = FreshCtxt(ctxt[c].recovery)] /\ Idle(c)
    BY <1>2, <1>b DEF xmlCtxtReset
  <2>2. ~FreshCtxt(ctxt[c].recovery).inHandler
    BY DEF FreshCtxt
  <2> QED BY <1>2, <1>d, <1>f, <2>1, <2>2 DEF xmlCtxtReset, Idle
<1>3. ASSUME NEW c \in Ctxts, xmlStopParser(c) PROVE Reporting'
  <2> DEFINE x == ctxt[c]
             stop == UserStop(LevelOf(x.lastError))
             y == [x EXCEPT !.disableSAX = 2]
             z == [x EXCEPT !.disableSAX = 2, !.errNo = TRUE, !.wellFormed = FALSE,
                            !.lastError = stop]
             e == IF x.inHandler /\ ~x.errNo THEN stop ELSE reporting[c]
  <2>1. x \in CtxtType /\ stop \in Storable /\ Told(x, reporting[c])
    BY <1>b, NoticeStorable DEF Reporting
  <2>2. ctxt' = [ctxt EXCEPT ![c] = IF x.errNo THEN y ELSE z]
        /\ reporting' = [reporting EXCEPT ![c] = e] /\ warnOn' = warnOn
    BY <1>3, <1>c DEF xmlStopParser
  <2>3. /\ y.inHandler = x.inHandler /\ y.lastError = x.lastError /\ y.alive = x.alive
        /\ z.inHandler = x.inHandler /\ z.lastError = stop /\ z.alive = x.alive
    BY <2>1 DEF CtxtType
  <2>4. x.errNo \in BOOLEAN /\ x.inHandler \in BOOLEAN
    BY <2>1 DEF CtxtType
  <2> HIDE DEF x, stop, y, z
  <2>5. Told(IF x.errNo THEN y ELSE z, e)
    BY <1>a, <2>1, <2>3, <2>4 DEF Told
  <2>6. e \in Slots
    BY <1>a, <1>b, <2>1
  <2> HIDE DEF e
  <2> QED BY <1>b, <2>2, <2>5, <2>6, OneReport
<1>4. ASSUME NEW c \in Ctxts, xmlFreeParserCtxt(c) PROVE Reporting'
  <2> DEFINE x == [FreshCtxt(FALSE) EXCEPT !.alive = FALSE]
  <2>1. ~x.inHandler
    BY DEF FreshCtxt
  <2>2. ctxt' = [ctxt EXCEPT ![c] = x] /\ Idle(c) /\ UNCHANGED <<reporting, warnOn>>
    BY <1>4 DEF xmlFreeParserCtxt
  <2> HIDE DEF x
  <2> QED BY <1>d, <1>f, <2>1, <2>2 DEF Idle
<1>5. ASSUME NEW c \in Ctxts, NEW e \in Errors, VErrLimited(c, e) PROVE Reporting'
  <2> DEFINE x == IF e.level = "warning" THEN [ctxt[c] EXCEPT !.nbWarnings = @ + 1]
                  ELSE [ctxt[c] EXCEPT !.nbErrors = @ + 1]
             y == WithLast(x, LimitNotice(e.level))
  <2>1. ~ctxt[c].inHandler /\ reporting[c] = NoError
    BY <1>5, <1>d DEF VErrLimited, CanRaise, Idle
  <2>2. y.inHandler = ctxt[c].inHandler
    BY <1>b DEF WithLast, CtxtType
  <2>3. (ctxt' = [ctxt EXCEPT ![c] = y] \/ ctxt' = [ctxt EXCEPT ![c] = ctxt[c]])
          /\ UNCHANGED <<reporting, warnOn>>
    BY <1>5, <1>b, Zenon DEF VErrLimited
  <2> HIDE DEF x, y
  <2> QED BY <1>f, <2>1, <2>2, <2>3
<1>6. ASSUME NEW c \in Ctxts, NEW e \in Errors, VErrSuppressed(c, e) PROVE Reporting'
  <2> DEFINE x == Counted(ctxt[c], e, TRUE)
             w == WithLast(x, e)
             m == OutOfMemory(x)
  <2>1. ~ctxt[c].inHandler /\ reporting[c] = NoError
    BY <1>6, <1>d DEF VErrSuppressed, CanRaise, Idle
  <2>2. w.inHandler = ctxt[c].inHandler /\ m.inHandler = ctxt[c].inHandler
    BY <1>b, <1>e, ReportFields
  <2>3. (ctxt' = [ctxt EXCEPT ![c] = w] \/ ctxt' = [ctxt EXCEPT ![c] = m])
          /\ UNCHANGED <<reporting, warnOn>>
    BY <1>6, Zenon DEF VErrSuppressed
  <2> HIDE DEF x, w, m
  <2> QED BY <1>f, <2>1, <2>2, <2>3
<1>7. ASSUME NEW c \in Ctxts, NEW e \in Errors, VErrReport(c, e) PROVE Reporting'
  <2> DEFINE x == Counted(ctxt[c], e, FALSE)
             w == [WithLast(x, e) EXCEPT !.inHandler = TRUE]
             m == OutOfMemory(x)
  <2>1. ctxt[c].alive /\ ~ctxt[c].inHandler /\ reporting[c] = NoError
    BY <1>7, <1>d DEF VErrReport, CanRaise, Idle
  <2>2. x \in CtxtType /\ m.inHandler = ctxt[c].inHandler
    BY <1>b, ReportFields
  <2>3. w.inHandler /\ w.lastError = e /\ w.alive
    <3>1. WithLast(x, e) = [x EXCEPT !.lastError = e]
      BY <1>e DEF WithLast
    <3>2. WithLast(x, e) \in CtxtType /\ WithLast(x, e).alive
      BY <1>b, <1>e, <2>1, <2>2, ReportFields, LastType
    <3>3. WithLast(x, e).lastError = e
      BY <2>2, <3>1 DEF CtxtType
    <3> HIDE DEF x
    <3> QED BY <3>2, <3>3 DEF CtxtType
  <2>4. \/ ctxt' = [ctxt EXCEPT ![c] = w] /\ reporting' = [reporting EXCEPT ![c] = e]
           /\ warnOn' = warnOn
        \/ ctxt' = [ctxt EXCEPT ![c] = m] /\ UNCHANGED <<reporting, warnOn>>
    BY <1>7, <1>e, Zenon DEF VErrReport
  <2> HIDE DEF x, w, m
  <2>5. Told(w, e) /\ e \in Slots
    BY <1>a, <1>e, <2>3 DEF Told
  <2> QED BY <1>b, <1>f, <2>1, <2>2, <2>4, <2>5, OneReport
<1>8. ASSUME NEW c \in Ctxts, StoreErrorRing(c) PROVE Reporting'
  <2> DEFINE x == [ctxt[c] EXCEPT !.inHandler = FALSE]
  <2>1. ~x.inHandler
    BY <1>b DEF CtxtType
  <2>2. /\ ctxt' = [ctxt EXCEPT ![c] = x] /\ reporting' = [reporting EXCEPT ![c] = NoError]
        /\ warnOn' = warnOn
    BY <1>8 DEF StoreErrorRing
  <2>3. Told(x, NoError)
    BY <2>1 DEF Told
  <2> HIDE DEF x
  <2> QED BY <1>a, <1>b, <2>2, <2>3, OneReport
<1>9. ASSUME UNCHANGED <<ctxt, reporting, warnOn>> PROVE Reporting'
  BY <1>b, <1>9 DEF Reporting, Told
<1>10. ASSUME NEW c \in Ctxts, NEW n \in RingSizes, xmlCtxtSetErrorRingSize(c, n) PROVE Reporting'
  BY <1>9, <1>10 DEF xmlCtxtSetErrorRingSize
<1>11. ASSUME NEW c \in Ctxts, NEW n \in DedupLimits, xmlCtxtSetErrorDedup(c, n) PROVE Reporting'
  BY <1>9, <1>11 DEF xmlCtxtSetErrorDedup
<1>12. ASSUME NEW c \in Ctxts, xmlCtxtResetErrorRing(c) \/ xmlCtxtResetErrorDedup(c) PROVE Reporting'
  BY <1>9, <1>12 DEF xmlCtxtResetErrorRing, xmlCtxtResetErrorDedup
<1>13. CASE UNCHANGED ringVars
  BY <1>9, <1>13 DEF ringVars
<1> QED
  BY <1>1, <1>2, <1>3, <1>4, <1>5, <1>6, <1>7, <1>8, <1>10, <1>11, <1>12, <1>13
  DEF RingNext, Raise

-----------------------------------------------------------------------------
(* A step that records nothing: it changes what one ring shows at most, or *)
(* it begins or relabels a report.                                         *)
Recorded == \E c \in Ctxts : StoreErrorRing(c)

Quiet == (UNCHANGED ringList \/ OneRing(ringList, ringList')) /\ UNCHANGED reporting

Stops == {UserStop(l) : l \in Levels \cup {"none"}}

Announced ==
  /\ SameRings(ringList, ringList')
  /\ \/ UNCHANGED reporting
     \/ \E c \in Ctxts : \E e \in IF reporting[c] = NoError THEN Errors ELSE Stops :
          reporting' = [reporting EXCEPT ![c] = e]

LEMMA RingsStep ==
  ASSUME NothingMuted, AllocFails \cap {"ring", "copy"} = {}, LogInv, [RingNext]_ringVars
  PROVE  Recorded \/ Quiet \/ Announced
<1> USE DEF LogInv, ListInv
<1> DEFINE Good == Quiet \/ Announced
<1>a. SameRings(ringList, ringList)
  BY DEF SameRings, SameView
<1>1. ASSUME NEW c \in Ctxts, NEW r \in BOOLEAN, xmlNewParserCtxt(c, r) PROVE Good
  BY <1>1 DEF xmlNewParserCtxt, Quiet
<1>2. ASSUME NEW c \in Ctxts, xmlCtxtReset(c) PROVE Good
  BY <1>2 DEF xmlCtxtReset, Quiet
<1>3. ASSUME NEW c \in Ctxts, xmlStopParser(c) PROVE Good
  <2> DEFINE stop == UserStop(LevelOf(ctxt[c].lastError))
  <2>1. UNCHANGED ringList
    BY <1>3 DEF xmlStopParser
  <2>2. CASE ctxt[c].inHandler /\ ~ctxt[c].errNo
    <3>1. reporting[c] # NoError
      BY <1>3, <2>2 DEF xmlStopParser, Callable
    <3>2. stop \in Stops
      <4>1. ctxt[c].lastError \in Storable \cup {NoError}
        BY DEF RingType, CtxtType
      <4>2. \A e \in Storable : e.level \in Levels \cup {"none"}
        BY ErrorsAssumption DEF Storable, LimitNotice, MemoryError, UserStop, Levels
      <4> QED BY <4>1, <4>2 DEF Stops, LevelOf
    <3>3. reporting' = [reporting EXCEPT ![c] = stop]
      BY <1>3, <2>2 DEF xmlStopParser
    <3> HIDE DEF stop
    <3> QED BY <1>a, <2>1, <3>1, <3>2, <3>3 DEF Announced
  <2>3. CASE ~(ctxt[c].inHandler /\ ~ctxt[c].errNo)
    <3>1. UNCHANGED reporting
      BY <1>3, <2>3 DEF xmlStopParser
    <3> QED BY <2>1, <3>1 DEF Quiet
  <2> QED BY <2>2, <2>3
<1>4. ASSUME NEW c \in Ctxts, xmlFreeParserCtxt(c) PROVE Good
  BY <1>4, DisableRing DEF xmlFreeParserCtxt, Quiet
<1>5. ASSUME NEW c \in Ctxts, Raise(c) PROVE Good
  <2>1. PICK e \in Errors : VErrLimited(c, e) \/ VErrSuppressed(c, e) \/ VErrReport(c, e)
    BY <1>5 DEF Raise
  <2>2. ringList' = ListAfterNote(c, e)
    BY <2>1, Zenon DEF VErrLimited, VErrSuppressed, VErrReport
  <2>3. SameRings(ringList, ringList')
    BY <2>2, NoteRing
  <2>4. UNCHANGED reporting \/ reporting' = [reporting EXCEPT ![c] = e]
    BY <2>1, Zenon DEF VErrLimited, VErrSuppressed, VErrReport
  <2>5. reporting[c] = NoError
    BY <2>1 DEF VErrLimited, VErrSuppressed, VErrReport, CanRaise, Idle, Reporting, Told
  <2> QED BY <2>3, <2>4, <2>5 DEF Announced
<1>7. ASSUME NEW c \in Ctxts, NEW n \in RingSizes, xmlCtxtSetErrorRingSize(c, n) PROVE Good
  <2>1. \/ ringList' = RingDisabled(c)
        \/ n > 0 /\ ringList' = RingResized(c, n, TRUE)
        \/ UNCHANGED ringList
    BY <1>7 DEF xmlCtxtSetErrorRingSize
  <2>2. UNCHANGED reporting
    BY <1>7 DEF xmlCtxtSetErrorRingSize
  <2> QED BY <2>1, <2>2, DisableRing, ResizeRing DEF Quiet
<1>8. ASSUME NEW c \in Ctxts, NEW n \in DedupLimits, xmlCtxtSetErrorDedup(c, n) PROVE Good
  <2>1. n \in Nat
    BY BoundsAssumption
  <2>2. \/ n = 0 /\ ringList' = DedupDisabled(c)
        \/ n # 0 /\ ringList' = DedupEnabled(c, n)
        \/ UNCHANGED ringList
    BY <1>8 DEF xmlCtxtSetErrorDedup
  <2>3. UNCHANGED reporting
    BY <1>8 DEF xmlCtxtSetErrorDedup
  <2> QED BY <2>1, <2>2, <2>3, DedupOffRing, DedupOnRing DEF Quiet
<1>9. ASSUME NEW c \in Ctxts, xmlCtxtResetErrorRing(c) \/ xmlCtxtResetErrorDedup(c) PROVE Good
  <2>1. HasEntry(c)
    BY <1>9 DEF xmlCtxtResetErrorRing, xmlCtxtResetErrorDedup
  <2> DEFINE x == RingClear(EntryOf(c))
             y == DedupReset(EntryOf(c))
  <2>2. GoodEntry(EntryOf(c)) /\ Useful(EntryOf(c)) /\ EntryOf(c).ctxt = c
    BY <2>1, LookupFinds
  <2>3. /\ GoodEntry(x) /\ x.ctxt = c /\ Useful(x)
        /\ GoodEntry(y) /\ y.ctxt = c /\ Useful(y)
    BY <2>2, RingClearGood, DedupResetGood DEF Useful
  <2>4. ringList' \in {Replace(c, x), Replace(c, y)}
    BY <1>9 DEF xmlCtxtResetErrorRing, xmlCtxtResetErrorDedup
  <2>5. Viewed(EntryOf(c), x) /\ Viewed(EntryOf(c), y)
    BY <2>2, RingClearView, DedupResetView DEF Viewed, Emptied
  <2>6. UNCHANGED reporting
    BY <1>9 DEF xmlCtxtResetErrorRing, xmlCtxtResetErrorDedup
  <2> HIDE DEF x, y
  <2> QED BY <2>1, <2>3, <2>4, <2>5, <2>6, ReplaceRing DEF Quiet
<1>10. ASSUME UNCHANGED ringVars PROVE Good
  BY <1>10 DEF ringVars, Quiet
<1>6. ASSUME NEW c \in Ctxts, StoreErrorRing(c) PROVE Recorded
  BY <1>6 DEF Recorded
<1> HIDE DEF Good
<1>11. CASE RingNext
  <2>1. PICK c \in Ctxts :
          \/ \E r \in BOOLEAN : xmlNewParserCtxt(c, r)
          \/ xmlCtxtReset(c) \/ xmlStopParser(c) \/ xmlFreeParserCtxt(c)
          \/ Raise(c) \/ StoreErrorRing(c)
          \/ \E n \in RingSizes : xmlCtxtSetErrorRingSize(c, n)
          \/ \E n \in DedupLimits : xmlCtxtSetErrorDedup(c, n)
          \/ xmlCtxtResetErrorRing(c) \/ xmlCtxtResetErrorDedup(c)
    BY <1>11, Zenon DEF RingNext
  <2>2. Good \/ Recorded
    BY <1>1, <1>2, <1>3, <1>4, <1>5, <1>6, <1>7, <1>8, <1>9, <2>1, Zenon
  <2> QED BY <2>2 DEF Good
<1> QED BY <1>10, <1>11 DEF Good

-----------------------------------------------------------------------------
(* The log as the rings of a list show it.                                 *)
CapView(list) == [c \in Ctxts |-> RingOf(list, c).size]
LogOf(list) == [c \in Ctxts |-> RingContents(RingOf(list, c))]

(* The refinement mapping of ErrorRing is this view ...                    *)
LEMMA LogViews ==
  ASSUME GoodList(ringList)
  PROVE  /\ [c \in Ctxts |-> IF HasEntry(c) THEN EntryOf(c).size ELSE 0] = CapView(ringList)
         /\ [c \in Ctxts |-> IF HasEntry(c) THEN RingContents(EntryOf(c)) ELSE <<>>]
              = LogOf(ringList)
BY LogView, Zenon DEF CapView, LogOf

(* ... also after the step.                                                *)
LEMMA LogViewsNext ==
  ASSUME GoodList(ringList')
  PROVE  /\ [c \in Ctxts |-> IF HasEntry(c) THEN EntryOf(c).size ELSE 0]' = CapView(ringList')
         /\ [c \in Ctxts |-> IF HasEntry(c) THEN RingContents(EntryOf(c)) ELSE <<>>]'
              = LogOf(ringList')
BY LogViewNext, Zenon DEF CapView, LogOf

(* Equal rings show the same logs.                                         *)
LEMMA SameLogs ==
  ASSUME NEW list, NEW new, SameRings(list, new)
  PROVE  CapView(new) = CapView(list) /\ LogOf(new) = LogOf(list)
<1>1. \A c \in Ctxts : /\ RingOf(new, c).size = RingOf(list, c).size
                       /\ RingContents(RingOf(new, c)) = RingContents(RingOf(list, c))
  BY SameContents DEF SameRings, SameView
<1> QED BY <1>1, Zenon DEF CapView, LogOf

(* A quiet step clears or resizes one log at most.                         *)
LEMMA QuietLog ==
  ASSUME GoodList(ringList), OneRing(ringList, ringList')
  PROVE  \/ CapView(ringList') = CapView(ringList) /\ LogOf(ringList') = LogOf(ringList)
         \/ \E c \in Ctxts, n \in RingSizes \cup {0} :
              /\ \/ CapView(ringList') = CapView(ringList)
                 \/ CapView(ringList') = [CapView(ringList) EXCEPT ![c] = n]
              /\ LogOf(ringList') = [LogOf(ringList) EXCEPT ![c] = <<>>]
<1> DEFINE cap0 == CapView(ringList)
           log0 == LogOf(ringList)
           cap1 == CapView(ringList')
           log1 == LogOf(ringList')
<1>1. PICK c \in Ctxts :
        /\ Viewed(RingOf(ringList, c), RingOf(ringList', c))
        /\ \A d \in Ctxts : d # c => RingOf(ringList', d) = RingOf(ringList, d)
  BY DEF OneRing
<1> DEFINE x == RingOf(ringList, c)
           y == RingOf(ringList', c)
<1>2. /\ cap0[c] = x.size /\ log0[c] = RingContents(x)
      /\ cap1 = [cap0 EXCEPT ![c] = y.size]
      /\ log1 = [log0 EXCEPT ![c] = RingContents(y)]
      /\ cap0 = [cap0 EXCEPT ![c] = cap0[c]] /\ log0 = [log0 EXCEPT ![c] = log0[c]]
  BY <1>1 DEF CapView, LogOf
<1> HIDE DEF x, y, cap0, cap1, log0, log1
<1>3. CASE SameView(x, y)
  <2>1. y.size = x.size /\ RingContents(y) = RingContents(x)
    BY <1>3, SameContents DEF SameView
  <2> QED BY <1>2, <2>1 DEF cap0, cap1, log0, log1
<1>4. CASE Emptied(x, y)
  <2>1. RingContents(y) = <<>>
    BY <1>4, EmptyContents DEF Emptied
  <2>2. CASE y.size = x.size
    <3>1. cap1 = cap0 /\ log1 = [log0 EXCEPT ![c] = <<>>]
      BY <1>2, <2>1, <2>2
    <3> QED BY <3>1 DEF cap0, cap1, log0, log1
  <2>3. CASE y.size \in RingSizes \cup {0}
    <3>1. cap1 = [cap0 EXCEPT ![c] = y.size] /\ log1 = [log0 EXCEPT ![c] = <<>>]
      BY <1>2, <2>1
    <3> QED BY <2>3, <3>1 DEF cap0, cap1, log0, log1
  <2> QED BY <1>4, <2>2, <2>3 DEF Emptied
<1> QED BY <1>1, <1>3, <1>4 DEF Viewed, x, y

(* A stored error is the newest one of its log.                            *)
LEMMA RecordedLog ==
  ASSUME AllocFails \cap {"ring", "copy"} = {}, LogInv, NEW c \in Ctxts, StoreErrorRing(c),
         reporting[c] # NoError
  PROVE  /\ CapView(ringList') = CapView(ringList)
         /\ LogOf(ringList') =
              [LogOf(ringList) EXCEPT ![c] = Log!LastN(Append(@, reporting[c]),
                                                       CapView(ringList)[c])]
<1> DEFINE e == reporting[c]
           x == RingOf(ringList, c)
           log0 == LogOf(ringList)
           kept == Log!LastN(Append(RingContents(x), e), x.size)
<1>1. GoodList(ringList) /\ RingType
  BY DEF LogInv, ListInv
<1>2. e = ctxt[c].lastError /\ e \in Storable /\ e # NoError
  <2>1. Told(ctxt[c], reporting[c]) /\ ctxt[c] \in CtxtType
    BY <1>1 DEF LogInv, Reporting, RingType
  <2> QED BY <2>1 DEF Told, StoreErrorRing, CtxtType
<1>3. GoodEntry(x) /\ x.size \in Nat /\ x.count \in Nat
  BY <1>1, RingOfGood DEF GoodEntry, EntryType
<1>4. /\ log0[c] = RingContents(x) /\ CapView(ringList)[c] = x.size
      /\ log0 = [log0 EXCEPT ![c] = log0[c]]
  BY DEF LogOf, CapView
<1>5. CASE ~HasEntry(c) \/ EntryOf(c).size <= 0
  <2>1. ringList' = ringList
    BY <1>5 DEF StoreErrorRing
  <2>2. x.size = 0
    <3>1. (IF HasEntry(c) THEN EntryOf(c).size ELSE 0) = x.size
      BY <1>1, LogView
    <3> QED BY <1>3, <1>5, <3>1
  <2>3. x.count = 0
    BY <1>3, <2>2 DEF GoodEntry, GoodRing
  <2>4. RingContents(x) = <<>>
    BY <2>3, EmptyContents
  <2>5. kept = <<>>
    <3>1. Append(<<>>, e) = <<e>> /\ Len(<<e>>) = 1 /\ SubSeq(<<e>>, 2, 1) = <<>>
      OBVIOUS
    <3> HIDE DEF e, x
    <3> QED BY <2>2, <2>4, <3>1 DEF Log!LastN
  <2> QED BY <1>4, <2>1, <2>4, <2>5
<1>6. CASE HasEntry(c) /\ ~(EntryOf(c).size <= 0)
  <2>1. ringList' = Replace(c, Stored(EntryOf(c), e, TRUE))
    BY <1>2, <1>6 DEF StoreErrorRing
  <2>2. /\ GoodEntry(EntryOf(c)) /\ EntryOf(c).ctxt = c
        /\ RingLookup(c) \in 1..Len(ringList) /\ EntryOf(c) = ringList[RingLookup(c)]
    BY <1>1, <1>6, LookupFinds
  <2>3. x = EntryOf(c) /\ x.size > 0
    BY <1>1, <1>3, <1>6, <2>2, RingFound
  <2> DEFINE y == Stored(x, e, TRUE)
  <2>4. GoodEntry(y) /\ y.ctxt = c /\ y.size = x.size
    BY <1>2, <1>3, <2>2, <2>3, StoredGood
  <2>5. RingContents(y) = kept
    BY <1>2, <1>3, <2>3, StoredContents
  <2>6. ringList' = Replace(c, y)
    BY <2>1, <2>3
  <2> HIDE DEF e, x, y, kept
  <2>7. Useful(y)
    BY <1>3, <2>3, <2>4 DEF Useful
  <2>8. OnlyAt(ringList, ringList', c, y)
    BY <1>1, <2>2, <2>4, <2>6, <2>7, ReplacedAt DEF Replace
  <2>9. CapView(ringList') = CapView(ringList)
    BY <1>4, <2>4, <2>8 DEF OnlyAt, CapView
  <2>10. LogOf(ringList') = [log0 EXCEPT ![c] = kept]
    BY <2>5, <2>8 DEF OnlyAt, LogOf
  <2> QED BY <1>4, <2>9, <2>10 DEF e, kept
<1> QED BY <1>5, <1>6

(* A step of the rings is a step of the log.                               *)
LEMMA LogStep ==
  ASSUME NothingMuted, AllocFails \cap {"ring", "copy"} = {}, LogInv, LogInv',
         [RingNext]_ringVars
  PROVE  [Log!Next]_(Log!lvars)
<1> DEFINE cap0 == CapView(ringList)
           log0 == LogOf(ringList)
           cap1 == CapView(ringList')
           log1 == LogOf(ringList')
<1>0. GoodList(ringList) /\ GoodList(ringList')
  BY DEF LogInv, ListInv
<1>1. /\ [c \in Ctxts |-> IF HasEntry(c) THEN EntryOf(c).size ELSE 0] = cap0
      /\ [c \in Ctxts |-> IF HasEntry(c) THEN RingContents(EntryOf(c)) ELSE <<>>] = log0
  BY <1>0, LogViews
<1>2. /\ [c \in Ctxts |-> IF HasEntry(c) THEN EntryOf(c).size ELSE 0]' = cap1
      /\ [c \in Ctxts |-> IF HasEntry(c) THEN RingContents(EntryOf(c)) ELSE <<>>]' = log1
  BY <1>0, LogViewsNext
<1>3. ASSUME cap1 = cap0, log1 = log0, UNCHANGED reporting PROVE UNCHANGED Log!lvars
  BY <1>1, <1>2, <1>3, Zenon DEF Log!lvars
<1>4. CASE Announced
  <2>1. cap1 = cap0 /\ log1 = log0
    BY <1>4, SameLogs DEF Announced
  <2>2. CASE UNCHANGED reporting
    BY <1>3, <2>1, <2>2
  <2>3. CASE ~UNCHANGED reporting
    <3>1. PICK c \in Ctxts : \E e \in IF reporting[c] = NoError THEN Errors ELSE Stops :
                               reporting' = [reporting EXCEPT ![c] = e]
      BY <1>4, <2>3 DEF Announced
    <3> HIDE DEF cap0, log0, cap1, log1
    <3>2. Log!Report(c) \/ Log!Stop(c)
      <4>1. CASE reporting[c] = NoError
        BY <1>1, <1>2, <2>1, <3>1, <4>1, Zenon DEF Log!Report
      <4>2. CASE reporting[c] # NoError
        BY <1>1, <1>2, <2>1, <3>1, <4>2, Zenon DEF Log!Stop, Stops
      <4> QED BY <4>1, <4>2
    <3> QED BY <3>2, Zenon DEF Log!Next
  <2> QED BY <2>2, <2>3
<1>5. CASE Quiet
  <2>1. CASE UNCHANGED ringList
    BY <1>3, <1>5, <2>1 DEF Quiet
  <2>2. CASE OneRing(ringList, ringList')
    <3>1. CASE cap1 = cap0 /\ log1 = log0
      BY <1>3, <1>5, <3>1 DEF Quiet
    <3>2. CASE ~(cap1 = cap0 /\ log1 = log0)
      <4>1. PICK c \in Ctxts, n \in RingSizes \cup {0} :
              /\ cap1 = cap0 \/ cap1 = [cap0 EXCEPT ![c] = n]
              /\ log1 = [log0 EXCEPT ![c] = <<>>]
        BY <1>0, <2>2, <3>2, QuietLog
      <4>2. UNCHANGED reporting
        BY <1>5 DEF Quiet
      <4> HIDE DEF cap0, log0, cap1, log1
      <4>3. Log!Clear(c) \/ Log!SetCap(c, n)
        BY <1>1, <1>2, <4>1, <4>2, Zenon DEF Log!Clear, Log!SetCap
      <4> QED BY <4>3, Zenon DEF Log!Next
    <3> QED BY <3>1, <3>2
  <2> QED BY <1>5, <2>1, <2>2 DEF Quiet
<1>6. CASE Recorded
  <2>1. PICK c \in Ctxts : StoreErrorRing(c)
    BY <1>6 DEF Recorded
  <2>2. reporting[c] # NoError
    BY <2>1 DEF StoreErrorRing, LogInv, Reporting, Told
  <2>3. /\ cap1 = cap0
        /\ log1 = [log0 EXCEPT ![c] = Log!LastN(Append(@, reporting[c]), cap0[c])]
    BY <2>1, <2>2, RecordedLog
  <2>4. reporting' = [reporting EXCEPT ![c] = NoError]
    BY <2>1 DEF StoreErrorRing
  <2> HIDE DEF cap0, log0, cap1, log1
  <2>5. Log!Record(c)
    BY <1>1, <1>2, <2>2, <2>3, <2>4, Zenon DEF Log!Record
  <2> QED BY <2>5, Zenon DEF Log!Next
<1> QED BY <1>4, <1>5, <1>6, RingsStep

(* The rings implement the log: over resets, frees and handlers that call  *)
(* back, the ring of a context shows the last errors that were reported,   *)
(* each of them once and oldest first, and no call changes what another    *)
(* context sees, for as long as no warning is muted and an error can be    *)
(* copied (parserInternals.c:164-193, 548-640, 1203-1212).                 *)
THEOREM RingIsLog ==
  ASSUME NothingMuted, AllocFails \cap {"ring", "copy"} = {}
  PROVE  RingSpec => ImplementsErrorLog
<1>1. RingInit => Log!Init
  <2> SUFFICES ASSUME RingInit PROVE Log!Init
    OBVIOUS
  <2>1. \A c : ~HasEntry(c)
    BY DEF RingInit, HasEntry, RingLookup, Positions
  <2> QED BY <2>1, Zenon DEF Log!Init, RingInit
<1>2. RingInit => LogInv
  <2> SUFFICES ASSUME RingInit PROVE Reporting
    BY ListInit DEF LogInv
  <2>1. \A c \in Ctxts : ~ctxt[c].inHandler /\ reporting[c] = NoError
    BY DEF RingInit, FreshCtxt
  <2>2. reporting \in [Ctxts -> Slots] /\ warnOn \in WarnDefaults
    BY DEF RingInit, Slots
  <2> QED BY <2>1, <2>2 DEF Reporting, Told
<1>3. LogInv /\ [RingNext]_ringVars => LogInv'
  BY ListStep, ReportStep DEF LogInv
<1>4. LogInv /\ LogInv' /\ [RingNext]_ringVars => [Log!Next]_(Log!lvars)
  BY LogStep
<1> QED BY <1>1, <1>2, <1>3, <1>4, PTL DEF RingSpec, ImplementsErrorLog, Log!Spec

(***************************************************************************)
(* Repeated errors are suppressed, for any size of the repeat table.  The  *)
(* count kept in a slot of the table is never below the number of reports  *)
(* of its error: that is what makes the comparison of the count with the   *)
(* limit sufficient.                                                       *)
(***************************************************************************)
(* The errors in the table of an entry were reported r times.              *)
Within(en, r) ==
  \A j \in 0..(en.dedupCount - 1), e \in Errors :
    en.dedup # Null /\ en.dedup[j].fingerprint = e =>
      r[e] <= en.dedup[j].count /\ r[e] <= en.dedupLimit

TableCounts ==
  \A i \in 1..Len(ringList) : Within(ringList[i], seen[ringList[i].ctxt].reports)

RepeatInv == ListInv /\ TableCounts

(* An entry whose table is the one of another entry, or empty.             *)
SameTable(x, y) ==
  /\ x.ctxt = y.ctxt /\ x.dedup = y.dedup
  /\ x.dedupCount = y.dedupCount /\ x.dedupLimit = y.dedupLimit

Forgets(x, y) == y.dedupCount = 0 \/ SameTable(x, y)

(* A list whose tables are the present ones, or empty.                     *)
Derived(list) ==
  \A i \in 1..Len(list) :
    list[i].dedupCount = 0 \/ \E j \in 1..Len(ringList) : SameTable(ringList[j], list[i])

-----------------------------------------------------------------------------
(* The calls that report nothing.                                          *)

LEMMA SameWithin ==
  ASSUME NEW x, NEW y, NEW r, Within(x, r), SameTable(x, y)
  PROVE  Within(y, r)
BY DEF Within, SameTable

LEMMA EmptyWithin ==
  ASSUME NEW x, NEW r, x.dedupCount = 0
  PROVE  Within(x, r)
BY DEF Within

LEMMA DerivedCounts ==
  ASSUME TableCounts, Derived(ringList'),
         \A i \in 1..Len(ringList) :
           LET c == ringList[i].ctxt IN
             Within(ringList[i], seen[c].reports) => Within(ringList[i], seen'[c].reports)
  PROVE  TableCounts'
<1> SUFFICES ASSUME NEW i \in 1..Len(ringList')
             PROVE  Within(ringList'[i], seen'[ringList'[i].ctxt].reports)
  BY DEF TableCounts
<1>1. CASE ringList'[i].dedupCount = 0
  BY <1>1, EmptyWithin
<1>2. CASE \E j \in 1..Len(ringList) : SameTable(ringList[j], ringList'[i])
  <2>1. PICK j \in 1..Len(ringList) : SameTable(ringList[j], ringList'[i])
    BY <1>2
  <2>2. Within(ringList[j], seen'[ringList[j].ctxt].reports)
    BY DEF TableCounts
  <2>3. Within(ringList'[i], seen'[ringList[j].ctxt].reports)
    BY <2>1, <2>2, SameWithin
  <2>4. ringList[j].ctxt = ringList'[i].ctxt
    BY <2>1 DEF SameTable
  <2> QED BY <2>3, <2>4
<1> QED BY <1>1, <1>2 DEF Derived

LEMMA ReplaceDerived ==
  ASSUME GoodList(ringList), NEW c, HasEntry(c), NEW x, Forgets(EntryOf(c), x)
  PROVE  Derived(Replace(c, x))
<1> DEFINE k == RingLookup(c)
           new == [ringList EXCEPT ![k] = x]
<1>1. k \in 1..Len(ringList) /\ EntryOf(c) = ringList[k]
  BY LookupFinds
<1> HIDE DEF k
<1>2. ringList \in Seq(EntryType)
  BY DEF GoodList
<1>3. Len(new) = Len(ringList)
  BY <1>2
<1>4. new[k] = x /\ (\A j \in 1..Len(ringList) : j # k => new[j] = ringList[j])
  BY <1>1, <1>2
<1> HIDE DEF new
<1>5. \A j \in 1..Len(ringList) : SameTable(ringList[j], ringList[j])
  BY DEF SameTable
<1>6. Derived(new)
  BY <1>1, <1>3, <1>4, <1>5 DEF Derived, Forgets
<1> QED BY <1>6 DEF Replace, new, k

LEMMA UnlinkedDerived ==
  ASSUME GoodList(ringList), NEW i \in 1..Len(ringList)
  PROVE  Derived(Unlinked(i))
<1> DEFINE new == Unlinked(i)
           from(j) == IF j < i THEN j ELSE j + 1
<1>1. Len(ringList) \in Nat \ {0} /\ ringList \in Seq(EntryType)
  BY DEF GoodList
<1>2. \A j \in 1..(Len(ringList) - 1) : from(j) \in 1..Len(ringList) /\ new[j] = ringList[from(j)]
  BY <1>1 DEF Unlinked
<1>3. Len(new) = Len(ringList) - 1
  BY <1>1 DEF Unlinked
<1> HIDE DEF new, from
<1>4. \A j \in 1..Len(ringList) : SameTable(ringList[j], ringList[j])
  BY DEF SameTable
<1> QED BY <1>2, <1>3, <1>4 DEF Derived, new

LEMMA PrependedDerived ==
  ASSUME GoodList(ringList), NEW old \in EntryType, NEW x \in EntryType, x.dedupCount = 0
  PROVE  Derived([<<old>> \o ringList EXCEPT ![1] = x])
<1> DEFINE base == <<old>> \o ringList
           new == [base EXCEPT ![1] = x]
<1>1. ringList \in Seq(EntryType) /\ Len(ringList) \in Nat
  BY DEF GoodList
<1>2. /\ base \in Seq(EntryType) /\ Len(base) = Len(ringList) + 1
      /\ \A j \in 2..(Len(ringList) + 1) : base[j] = ringList[j - 1]
  BY <1>1
<1> HIDE DEF base
<1>3. /\ Len(new) = Len(ringList) + 1 /\ new[1] = x
      /\ \A j \in 2..(Len(ringList) + 1) : new[j] = ringList[j - 1]
  BY <1>1, <1>2
<1> HIDE DEF new
<1>4. \A j \in 1..Len(ringList) : SameTable(ringList[j], ringList[j])
  BY DEF SameTable
<1>5. ASSUME NEW j \in 1..Len(new), j # 1
      PROVE  \E k \in 1..Len(ringList) : SameTable(ringList[k], new[j])
  <2>1. j - 1 \in 1..Len(ringList) /\ new[j] = ringList[j - 1]
    BY <1>1, <1>3, <1>5
  <2> QED BY <1>4, <2>1
<1>6. Derived(new)
  BY <1>3, <1>5 DEF Derived
<1> QED BY <1>6 DEF new, base

(* What the helpers do to the table of an entry.                           *)
LEMMA DedupResetForgets ==
  ASSUME NEW en, GoodEntry(en)
  PROVE  Forgets(en, DedupReset(en))
BY DEF Forgets, SameTable, DedupReset, GoodEntry, EntryType

LEMMA RingClearForgets ==
  ASSUME NEW en, GoodEntry(en)
  PROVE  Forgets(en, RingClear(en))
<1> DEFINE y == IF en.errors = Null THEN en
                ELSE [en EXCEPT !.errors = [i \in 0..(en.size - 1) |-> NoError],
                                !.count = 0, !.next = 0]
<1>1. SameTable(en, y)
  BY DEF SameTable, GoodEntry, EntryType
<1>2. DedupReset(y) = y \/ DedupReset(y) = [y EXCEPT !.dedup = EmptyDedup, !.dedupCount = 0, !.dedupNext = 0]
  BY DEF DedupReset
<1>3. [y EXCEPT !.dedup = EmptyDedup, !.dedupCount = 0, !.dedupNext = 0].dedupCount = 0
  BY DEF GoodEntry, EntryType
<1>4. RingClear(en) = DedupReset(y)
  BY DEF RingClear
<1> HIDE DEF y
<1> QED BY <1>1, <1>2, <1>3, <1>4 DEF Forgets

LEMMA RingOffForgets ==
  ASSUME NEW en, GoodEntry(en)
  PROVE  LET y == IF en.errors = Null THEN en ELSE RingClear(en)
             x == [y EXCEPT !.errors = Null, !.size = 0, !.count = 0, !.next = 0]
         IN  Forgets(en, x)
<1> DEFINE y == IF en.errors = Null THEN en ELSE RingClear(en)
           x == [y EXCEPT !.errors = Null, !.size = 0, !.count = 0, !.next = 0]
<1>1. y \in EntryType
  BY RingClearGood DEF GoodEntry
<1>2. Forgets(en, y)
  BY RingClearForgets DEF Forgets, SameTable
<1> HIDE DEF y
<1>3. SameTable(y, x)
  BY <1>1 DEF SameTable, EntryType
<1> HIDE DEF x
<1>4. Forgets(en, x)
  BY <1>2, <1>3 DEF Forgets, SameTable
<1> QED BY <1>4 DEF x, y

LEMMA RingNewForgets ==
  ASSUME NEW en, GoodEntry(en), NEW n \in Nat \ {0}
  PROVE  LET y == IF en.errors = Null THEN en ELSE [RingClear(en) EXCEPT !.errors = Null]
             x == [y EXCEPT !.errors = [j \in 0..(n - 1) |-> NoError],
                            !.size = n, !.count = 0, !.next = 0]
         IN  Forgets(en, x)
<1> DEFINE z == IF en.errors = Null THEN en ELSE RingClear(en)
           y == IF en.errors = Null THEN en ELSE [RingClear(en) EXCEPT !.errors = Null]
           x == [y EXCEPT !.errors = [j \in 0..(n - 1) |-> NoError],
                          !.size = n, !.count = 0, !.next = 0]
<1>1. z \in EntryType
  BY RingClearGood DEF GoodEntry
<1>2. Forgets(en, z)
  BY RingClearForgets DEF Forgets, SameTable
<1>3. SameTable(z, y) /\ y \in EntryType
  BY <1>1 DEF SameTable, EntryType
<1> HIDE DEF y, z
<1>4. SameTable(y, x)
  BY <1>3 DEF SameTable, EntryType
<1> HIDE DEF x
<1>5. Forgets(en, x)
  BY <1>2, <1>3, <1>4 DEF Forgets, SameTable
<1> QED BY <1>5 DEF x, y

(* What the calls do to the tables of the list.                            *)
LEMMA SameDerived == Derived(ringList)
<1>1. \A j \in 1..Len(ringList) : SameTable(ringList[j], ringList[j])
  BY DEF SameTable
<1> QED BY <1>1 DEF Derived

LEMMA RingDisabledDerived ==
  ASSUME GoodList(ringList), NEW c
  PROVE  Derived(RingDisabled(c))
<1> DEFINE en == EntryOf(c)
           off == [(IF en.errors = Null THEN en ELSE RingClear(en))
                     EXCEPT !.errors = Null, !.size = 0, !.count = 0, !.next = 0]
<1>1. CASE ~HasEntry(c)
  BY <1>1, SameDerived DEF RingDisabled
<1>2. CASE HasEntry(c)
  <2>1. GoodEntry(en) /\ RingLookup(c) \in 1..Len(ringList)
    BY <1>2, LookupFinds
  <2>2. Forgets(en, off)
    BY <2>1, RingOffForgets
  <2>3. RingDisabled(c) \in {Unlinked(RingLookup(c)), Replace(c, off)}
    BY <1>2 DEF RingDisabled
  <2> HIDE DEF off
  <2> QED BY <1>2, <2>1, <2>2, <2>3, UnlinkedDerived, ReplaceDerived
<1> QED BY <1>1, <1>2

LEMMA RingResizedDerived ==
  ASSUME GoodList(ringList), NEW c \in Ctxts, NEW n \in Nat \ {0}
  PROVE  Derived(RingResized(c, n, TRUE))
<1> DEFINE en == IF HasEntry(c) THEN EntryOf(c) ELSE NewEntry(c)
           old == IF en.errors = Null THEN en ELSE [RingClear(en) EXCEPT !.errors = Null]
           new == [old EXCEPT !.errors = [j \in 0..(n - 1) |-> NoError],
                              !.size = n, !.count = 0, !.next = 0]
           x == IF en.size = n THEN en ELSE new
<1>1. GoodEntry(en)
  BY LookupFinds, NewEntryGood
<1> HIDE DEF en
<1>2. Forgets(en, x) /\ x \in EntryType
  <2>1. Forgets(en, new)
    BY <1>1, RingNewForgets
  <2>2. GoodEntry(new)
    BY <1>1, RingNewGood
  <2>3. Forgets(en, en)
    BY DEF Forgets, SameTable
  <2> HIDE DEF new
  <2> QED BY <1>1, <2>1, <2>2, <2>3 DEF GoodEntry
<1>3. CASE HasEntry(c)
  <2>1. RingResized(c, n, TRUE) = Replace(c, x)
    BY <1>3, Zenon DEF RingResized, Replace, en, EntryOf
  <2>2. en = EntryOf(c)
    BY <1>3 DEF en
  <2> HIDE DEF x
  <2> QED BY <1>2, <1>3, <2>1, <2>2, ReplaceDerived
<1>4. CASE ~HasEntry(c)
  <2> DEFINE list == <<NewEntry(c)>> \o ringList
  <2>1. list[1] = NewEntry(c)
    BY DEF GoodList
  <2>2. RingResized(c, n, TRUE) = [list EXCEPT ![1] = x]
    BY <1>4, <2>1, Zenon DEF RingResized, en
  <2>3. NewEntry(c) \in EntryType /\ NewEntry(c).dedupCount = 0 /\ en = NewEntry(c)
    BY <1>4, NewEntryGood DEF GoodEntry, NewEntry, en
  <2> HIDE DEF x
  <2>4. x.dedupCount = 0
    BY <1>2, <2>3 DEF Forgets, SameTable
  <2> QED BY <1>2, <2>2, <2>3, <2>4, PrependedDerived, ZenonT(60)
<1> QED BY <1>3, <1>4

LEMMA DedupDisabledDerived ==
  ASSUME GoodList(ringList), NEW c
  PROVE  Derived(DedupDisabled(c))
<1> DEFINE off == [EntryOf(c) EXCEPT !.dedup = Null, !.dedupLimit = 0,
                                     !.dedupCount = 0, !.dedupNext = 0]
<1>1. CASE ~HasEntry(c)
  BY <1>1, SameDerived DEF DedupDisabled
<1>2. CASE HasEntry(c)
  <2>1. GoodEntry(EntryOf(c)) /\ RingLookup(c) \in 1..Len(ringList)
    BY <1>2, LookupFinds
  <2>2. off.dedupCount = 0
    BY <2>1 DEF GoodEntry, EntryType
  <2>3. DedupDisabled(c) \in {Unlinked(RingLookup(c)), Replace(c, off)}
    BY <1>2 DEF DedupDisabled
  <2> HIDE DEF off
  <2>4. Forgets(EntryOf(c), off)
    BY <2>2 DEF Forgets
  <2> QED BY <1>2, <2>1, <2>3, <2>4, UnlinkedDerived, ReplaceDerived
<1> QED BY <1>1, <1>2

LEMMA DedupEnabledDerived ==
  ASSUME GoodList(ringList), NEW c \in Ctxts, NEW limit \in Nat
  PROVE  Derived(DedupEnabled(c, limit))
<1> DEFINE en == IF HasEntry(c) THEN EntryOf(c) ELSE NewEntry(c)
           x == [en EXCEPT !.dedup = EmptyDedup, !.dedupLimit = limit,
                           !.dedupCount = 0, !.dedupNext = 0]
<1>1. GoodEntry(en)
  BY LookupFinds, NewEntryGood
<1> HIDE DEF en
<1>2. x.dedupCount = 0 /\ x \in EntryType
  BY <1>1, EmptyDedupType DEF GoodEntry, EntryType
<1>3. CASE HasEntry(c)
  <2>1. DedupEnabled(c, limit) = Replace(c, x)
    BY <1>3, LookupFinds DEF DedupEnabled, Replace, en, EntryOf
  <2> HIDE DEF x
  <2>2. Forgets(EntryOf(c), x)
    BY <1>2 DEF Forgets
  <2> QED BY <1>3, <2>1, <2>2, ReplaceDerived
<1>4. CASE ~HasEntry(c)
  <2> DEFINE list == <<NewEntry(c)>> \o ringList
  <2>1. list[1] = NewEntry(c)
    BY DEF GoodList
  <2>2. DedupEnabled(c, limit) = [list EXCEPT ![1] = x]
    BY <1>4, <2>1 DEF DedupEnabled, en
  <2>3. NewEntry(c) \in EntryType
    BY NewEntryGood DEF GoodEntry
  <2> HIDE DEF x
  <2> QED BY <1>2, <2>2, <2>3, PrependedDerived
<1> QED BY <1>3, <1>4

-----------------------------------------------------------------------------
(* The note of an error, reported n times since it entered the table.      *)

LEMMA NoteWithin ==
  ASSUME NEW en, GoodEntry(en), en.dedup # Null, NEW e \in Errors,
         NEW r \in [Errors -> Nat], Within(en, r), NEW n \in Nat,
         \/ Holding(en, e) = {} /\ n <= 1 /\ en.dedupLimit > 0
         \/ Holding(en, e) # {} /\ n = r[e]
         \/ /\ Holding(en, e) # {} /\ n = r[e] + 1
            /\ \A i \in Holding(en, e) : en.dedup[i].count + 1 <= en.dedupLimit
  PROVE  Within(DedupNote(en, e), [r EXCEPT ![e] = n])
<1> DEFINE x == DedupNote(en, e)
           q == [r EXCEPT ![e] = n]
<1>1. GoodEntry(x)
  BY DedupNoteGood
<1>2. q[e] = n /\ (\A f \in Errors : f # e => q[f] = r[f])
  OBVIOUS
<1>3. en.dedup \in RepeatSlots /\ en.dedupCount \in Nat /\ en.dedupLimit \in Nat
  BY DEF GoodEntry, EntryType
<1>4. PICK i \in 0..(DedupSize - 1), m \in Nat :
        /\ Noted(en, e, x, i, m) /\ n <= m /\ n <= en.dedupLimit
        /\ \/ x.dedupCount = en.dedupCount
           \/ x.dedupCount = en.dedupCount + 1 /\ i = en.dedupCount
  <2>1. CASE Holding(en, e) = {}
    <3>1. PICK i \in 0..(DedupSize - 1) :
            /\ Noted(en, e, x, i, 1)
            /\ \/ x.dedupCount = en.dedupCount
               \/ x.dedupCount = en.dedupCount + 1 /\ i = en.dedupCount
      BY <2>1, NoteNew
    <3>2. n <= 1 /\ n <= en.dedupLimit
      BY <1>3, <2>1
    <3> HIDE DEF x
    <3> QED BY <3>1, <3>2
  <2>2. CASE Holding(en, e) # {}
    <3>1. PICK i \in Holding(en, e), m \in Nat :
            /\ Noted(en, e, x, i, m) /\ x.dedupCount = en.dedupCount
            /\ \/ m = en.dedup[i].count + 1
               \/ m = en.dedup[i].count /\ m > en.dedupLimit
      BY <2>2, NoteKnown
    <3>2. i \in 0..(en.dedupCount - 1) /\ en.dedup[i].fingerprint = e
      BY DEF Holding
    <3>3. r[e] <= en.dedup[i].count /\ r[e] <= en.dedupLimit
      BY <3>2 DEF Within
    <3>4. i \in 0..(DedupSize - 1)
      BY <3>1 DEF Noted
    <3>5. en.dedup[i].count \in Nat /\ r[e] \in Nat
      BY <1>3, <3>4 DEF RepeatSlots
    <3>6. n <= m /\ n <= en.dedupLimit
      BY <1>3, <2>2, <3>1, <3>3, <3>5
    <3> QED BY <3>1, <3>4, <3>6
  <2> QED BY <2>1, <2>2
<1> HIDE DEF q
<1>5. /\ x.dedup = [en.dedup EXCEPT ![i] = [fingerprint |-> e, count |-> m]]
      /\ x.dedupLimit = en.dedupLimit /\ x.dedupCount \in Nat
  BY <1>4 DEF Noted, EntryType
<1> HIDE DEF x
<1>6. DOMAIN en.dedup = 0..(DedupSize - 1)
  BY <1>3 DEF RepeatSlots
<1>7. x.dedup[i] = [fingerprint |-> e, count |-> m]
  BY <1>5, <1>6
<1>8. \A j \in 0..(DedupSize - 1) : j # i => x.dedup[j] = en.dedup[j]
  BY <1>5, <1>6
<1>9. x.dedup # Null
  <2>1. 0 \in DOMAIN x.dedup
    BY <1>5, <1>6, BoundsAssumption
  <2>2. 0 \notin DOMAIN Null
    BY DEF Null
  <2> QED BY <2>1, <2>2
<1>10. x.dedupCount <= DedupSize
  BY <1>1, <1>9 DEF GoodEntry, GoodRepeats
<1>11. ASSUME NEW j \in 0..(x.dedupCount - 1), NEW f \in Errors, x.dedup[j].fingerprint = f
      PROVE  q[f] <= x.dedup[j].count /\ q[f] <= x.dedupLimit
  <2>1. CASE j = i
    BY <1>2, <1>4, <1>5, <1>7, <1>11, <2>1
  <2>2. CASE j # i
    <3>1. j \in 0..(en.dedupCount - 1) /\ j \in 0..(DedupSize - 1)
      BY <1>3, <1>4, <1>5, <1>10, <2>2, BoundsAssumption
    <3>2. x.dedup[j] = en.dedup[j]
      BY <1>8, <2>2, <3>1
    <3>3. r[f] <= en.dedup[j].count /\ r[f] <= en.dedupLimit
      BY <1>11, <3>1, <3>2 DEF Within
    <3>4. f # e
      <4>1. i \in 0..(x.dedupCount - 1)
        BY <1>4, <1>5 DEF Noted
      <4>2. x.dedup[j].fingerprint # x.dedup[i].fingerprint
        BY <1>1, <1>9, <2>2, <4>1 DEF GoodEntry, GoodRepeats
      <4> QED BY <1>7, <1>11, <4>2
    <3> QED BY <1>2, <1>5, <3>2, <3>3, <3>4
  <2> QED BY <2>1, <2>2
<1>12. Within(x, q)
  BY <1>11 DEF Within
<1> QED BY <1>12 DEF x, q

LEMMA NoteCounts ==
  ASSUME RepeatInv, NEW c \in Ctxts, NEW e \in Errors, DedupOn(c), NEW n \in Nat,
         ringList' = ListAfterNote(c, e),
         \A d \in Ctxts \ {c} : seen'[d].reports = seen[d].reports,
         seen'[c].reports = [seen[c].reports EXCEPT ![e] = n],
         \/ Known(c, e) = {} /\ n <= 1
         \/ Known(c, e) # {} /\ n = seen[c].reports[e]
         \/ /\ Known(c, e) # {} /\ n = seen[c].reports[e] + 1
            /\ ~ShouldSuppress(c, e)
  PROVE  TableCounts'
<1> DEFINE en == EntryOf(c)
           k == RingLookup(c)
           x == DedupNote(en, e)
           r == seen[c].reports
           new == [ringList EXCEPT ![k] = x]
<1>1. HasEntry(c) /\ en.dedup # Null /\ en.dedupLimit > 0
  BY DEF DedupOn
<1>2. GoodList(ringList) /\ ringList \in Seq(EntryType)
  BY DEF RepeatInv, ListInv, GoodList
<1>3. k \in 1..Len(ringList) /\ en = ringList[k] /\ en.ctxt = c /\ GoodEntry(en)
  BY <1>1, <1>2, LookupFinds
<1>4. r \in [Errors -> Nat]
  BY DEF RepeatInv, ListInv, RingType, SeenType
<1>5. Within(en, r)
  BY <1>3 DEF RepeatInv, TableCounts
<1>6. Known(c, e) = Holding(en, e)
  BY DEF Known, Holding
<1>7. ~ShouldSuppress(c, e) => \A i \in Holding(en, e) : en.dedup[i].count + 1 <= en.dedupLimit
  <2> SUFFICES ASSUME ~ShouldSuppress(c, e), NEW i \in Holding(en, e)
               PROVE  en.dedup[i].count + 1 <= en.dedupLimit
    OBVIOUS
  <2>1. ~(en.dedup[i].count + 1 > en.dedupLimit)
    BY <1>6 DEF ShouldSuppress
  <2>2. i \in 0..(DedupSize - 1)
    BY <1>1, <1>3, BoundsAssumption DEF Holding, GoodEntry, GoodRepeats, EntryType
  <2>3. en.dedup[i].count \in Nat /\ en.dedupLimit \in Nat
    BY <1>1, <1>3, <2>2 DEF GoodEntry, EntryType, RepeatSlots
  <2> QED BY <2>1, <2>3
<1>8. Within(x, [r EXCEPT ![e] = n])
  BY <1>1, <1>3, <1>4, <1>5, <1>6, <1>7, NoteWithin
<1>9. x.ctxt = c
  BY <1>1, <1>3, DedupNoteGood
<1>10. ringList' = new
  BY DEF ListAfterNote, Replace
<1> HIDE DEF x, en, k, r
<1>11. /\ Len(new) = Len(ringList) /\ new[k] = x
       /\ \A j \in 1..Len(ringList) : j # k => new[j] = ringList[j]
  BY <1>2, <1>3
<1> HIDE DEF new
<1> SUFFICES ASSUME NEW i \in 1..Len(ringList')
             PROVE  Within(ringList'[i], seen'[ringList'[i].ctxt].reports)
  BY DEF TableCounts
<1>12. CASE i = k
  BY <1>8, <1>9, <1>10, <1>11, <1>12 DEF r
<1>13. CASE i # k
  <2>1. i \in 1..Len(ringList) /\ ringList'[i] = ringList[i]
    BY <1>10, <1>11, <1>13
  <2>2. ringList[i].ctxt \in Ctxts /\ ringList[i].ctxt # c
    BY <1>2, <1>3, <1>13, <2>1 DEF GoodList, GoodEntry, EntryType
  <2>3. Within(ringList[i], seen[ringList[i].ctxt].reports)
    BY <2>1 DEF RepeatInv, TableCounts
  <2> QED BY <2>1, <2>2, <2>3
<1> QED BY <1>12, <1>13

(* No occurrence counts against a context without a table.                 *)
LEMMA UnnotedCounts ==
  ASSUME RepeatInv, NEW c \in Ctxts, NEW e \in Errors, ~DedupOn(c),
         ringList' = ListAfterNote(c, e),
         \A d \in Ctxts : seen'[d].reports = seen[d].reports
  PROVE  TableCounts'
<1>1. ringList' = ringList
  BY DEF ListAfterNote
<1>2. \A i \in 1..Len(ringList) : ringList[i].ctxt \in Ctxts
  BY DEF RepeatInv, ListInv, GoodList, GoodEntry, EntryType
<1> QED BY <1>1, <1>2 DEF RepeatInv, TableCounts

LEMMA RepeatStep ==
  ASSUME AllocFails \cap {"ring", "copy"} = {}, RepeatInv, [RingNext]_ringVars
  PROVE  RepeatInv'
<1>1. GoodList(ringList) /\ RingType /\ TableCounts /\ ListInv'
  BY ListStep DEF RepeatInv, ListInv
<1>2. \A i \in 1..Len(ringList) : ringList[i].ctxt \in Ctxts
  BY <1>1 DEF GoodList, GoodEntry, EntryType
<1>3. ASSUME Derived(ringList'),
             \A d \in Ctxts : \/ seen'[d].reports = seen[d].reports
                              \/ seen'[d].reports = [e \in Errors |-> 0]
      PROVE  TableCounts'
  <2>1. ASSUME NEW i \in 1..Len(ringList), NEW d \in Ctxts, d = ringList[i].ctxt
        PROVE  Within(ringList[i], seen[d].reports) => Within(ringList[i], seen'[d].reports)
    <3>1. CASE seen'[d].reports = seen[d].reports
      BY <3>1
    <3>2. CASE seen'[d].reports = [e \in Errors |-> 0]
      <4>1. ASSUME NEW j \in 0..(ringList[i].dedupCount - 1), ringList[i].dedup # Null
            PROVE  0 <= ringList[i].dedup[j].count /\ 0 <= ringList[i].dedupLimit
        <5>1. GoodEntry(ringList[i])
          BY <1>1 DEF GoodList
        <5>2. j \in 0..(DedupSize - 1)
          BY <4>1, <5>1, BoundsAssumption DEF GoodEntry, GoodRepeats, EntryType
        <5>3. ringList[i].dedup[j].count \in Nat /\ ringList[i].dedupLimit \in Nat
          BY <4>1, <5>1, <5>2 DEF GoodEntry, EntryType, RepeatSlots
        <5> QED BY <5>3
      <4> QED BY <3>2, <4>1 DEF Within
    <3> QED BY <1>3, <3>1, <3>2
  <2> QED BY <1>1, <1>2, <1>3, <2>1, DerivedCounts
<1>4. ASSUME NEW c \in Ctxts, NEW r \in BOOLEAN, xmlNewParserCtxt(c, r) PROVE TableCounts'
  BY <1>1, <1>3, <1>4, SameDerived DEF xmlNewParserCtxt, RingType, NothingSeen
<1>5. ASSUME NEW c \in Ctxts, xmlCtxtReset(c) PROVE TableCounts'
  BY <1>1, <1>3, <1>5, SameDerived DEF xmlCtxtReset, RingType, NothingSeen
<1>6. ASSUME NEW c \in Ctxts, xmlStopParser(c) PROVE TableCounts'
  BY <1>3, <1>6, SameDerived DEF xmlStopParser
<1>7. ASSUME NEW c \in Ctxts, xmlFreeParserCtxt(c) PROVE TableCounts'
  BY <1>1, <1>3, <1>7, RingDisabledDerived DEF xmlFreeParserCtxt, RingType, NothingSeen
<1>8. ASSUME NEW c \in Ctxts, NEW e \in Errors, VErrLimited(c, e) PROVE TableCounts'
  <2> DEFINE n == IF Enters(c, e) THEN 0 ELSE seen[c].reports[e]
  <2>1. /\ ringList' = ListAfterNote(c, e)
        /\ seen'[c].reports = [seen[c].reports EXCEPT ![e] = n]
        /\ \A d \in Ctxts \ {c} : seen'[d].reports = seen[d].reports
        /\ seen[c].reports \in [Errors -> Nat]
    BY <1>1, <1>8 DEF VErrLimited, RingType, SeenType
  <2>2. CASE DedupOn(c)
    BY <2>1, <2>2, NoteCounts DEF Enters
  <2>3. CASE ~DedupOn(c)
    BY <2>1, <2>3, UnnotedCounts DEF Enters
  <2> QED BY <2>2, <2>3
<1>9. ASSUME NEW c \in Ctxts, NEW e \in Errors, VErrSuppressed(c, e) PROVE TableCounts'
  <2> DEFINE n == seen[c].reports[e]
  <2>1. /\ ringList' = ListAfterNote(c, e)
        /\ \A d \in Ctxts : seen'[d].reports = seen[d].reports
        /\ seen[c].reports \in [Errors -> Nat]
    BY <1>1, <1>9 DEF VErrSuppressed, RingType, SeenType
  <2>2. seen'[c].reports = [seen[c].reports EXCEPT ![e] = n] /\ n \in Nat
    BY <2>1
  <2>3. DedupOn(c) /\ Known(c, e) # {}
    BY <1>9 DEF VErrSuppressed, ShouldSuppress
  <2> HIDE DEF n
  <2> QED BY <2>1, <2>2, <2>3, NoteCounts DEF n
<1>10. ASSUME NEW c \in Ctxts, NEW e \in Errors, VErrReport(c, e) PROVE TableCounts'
  <2> DEFINE old == seen[c].reports[e]
             n == IF Enters(c, e) THEN 1 ELSE IF DedupOn(c) THEN old + 1 ELSE old
  <2>1. /\ ringList' = ListAfterNote(c, e) /\ ~ShouldSuppress(c, e)
        /\ seen'[c].reports = [seen[c].reports EXCEPT ![e] = n]
        /\ \A d \in Ctxts \ {c} : seen'[d].reports = seen[d].reports
        /\ seen[c].reports \in [Errors -> Nat]
    BY <1>1, <1>10 DEF VErrReport, RingType, SeenType
  <2>2. CASE DedupOn(c)
    BY <2>1, <2>2, NoteCounts DEF Enters
  <2>3. CASE ~DedupOn(c)
    BY <2>1, <2>3, UnnotedCounts DEF Enters
  <2> QED BY <2>2, <2>3
<1>11. ASSUME NEW c \in Ctxts, StoreErrorRing(c) PROVE TableCounts'
  <2>1. UNCHANGED seen
    BY <1>11 DEF StoreErrorRing
  <2>2. CASE UNCHANGED ringList
    BY <1>3, <2>1, <2>2, SameDerived
  <2>3. CASE ~UNCHANGED ringList
    <3>1. /\ ctxt[c].lastError # NoError /\ HasEntry(c) /\ ~(EntryOf(c).size <= 0)
          /\ ringList' = Replace(c, Stored(EntryOf(c), ctxt[c].lastError, TRUE))
      BY <1>11, <2>3 DEF StoreErrorRing
    <3>2. ctxt[c].lastError \in Storable
      BY <1>1, <3>1 DEF RingType, CtxtType
    <3>3. GoodEntry(EntryOf(c)) /\ EntryOf(c).ctxt = c /\ EntryOf(c).size > 0
      BY <1>1, <3>1, LookupFinds DEF GoodEntry, EntryType
    <3> DEFINE x == Stored(EntryOf(c), ctxt[c].lastError, TRUE)
    <3>4. SameTable(EntryOf(c), x)
      BY <3>2, <3>3, StoredGood DEF SameTable
    <3> HIDE DEF x
    <3>5. Derived(Replace(c, x))
      BY <1>1, <3>1, <3>4, ReplaceDerived DEF Forgets
    <3> QED BY <1>3, <2>1, <3>1, <3>5 DEF x
  <2> QED BY <2>2, <2>3
<1>12. ASSUME NEW c \in Ctxts, NEW n \in RingSizes, xmlCtxtSetErrorRingSize(c, n)
       PROVE  TableCounts'
  <2>1. n \in Nat /\ UNCHANGED seen
    BY <1>12, BoundsAssumption DEF xmlCtxtSetErrorRingSize
  <2>2. \/ ringList' = RingDisabled(c)
        \/ n > 0 /\ ringList' = RingResized(c, n, TRUE)
        \/ UNCHANGED ringList
    BY <1>12 DEF xmlCtxtSetErrorRingSize
  <2>3. ASSUME n > 0 PROVE Derived(RingResized(c, n, TRUE))
    <3>1. n \in Nat \ {0}
      BY <2>1, <2>3
    <3> QED BY <1>1, <3>1, RingResizedDerived
  <2>4. Derived(ringList')
    BY <1>1, <2>2, <2>3, RingDisabledDerived, SameDerived
  <2> QED BY <1>3, <2>1, <2>4
<1>13. ASSUME NEW c \in Ctxts, NEW n \in DedupLimits, xmlCtxtSetErrorDedup(c, n)
       PROVE  TableCounts'
  <2>1. n \in Nat
    BY BoundsAssumption
  <2>2. \A d \in Ctxts : seen'[d].reports = seen[d].reports
    BY <1>1, <1>13 DEF xmlCtxtSetErrorDedup, RingType, SeenType
  <2>3. ringList' \in {DedupDisabled(c), DedupEnabled(c, n), ringList}
    BY <1>13 DEF xmlCtxtSetErrorDedup
  <2>4. Derived(ringList')
    BY <1>1, <2>1, <2>3, DedupDisabledDerived, DedupEnabledDerived, SameDerived
  <2> QED BY <1>3, <2>2, <2>4
<1>14. ASSUME NEW c \in Ctxts, xmlCtxtResetErrorRing(c) \/ xmlCtxtResetErrorDedup(c)
       PROVE  TableCounts'
  <2>1. HasEntry(c) /\ UNCHANGED seen
    BY <1>14 DEF xmlCtxtResetErrorRing, xmlCtxtResetErrorDedup
  <2>2. GoodEntry(EntryOf(c))
    BY <1>1, <2>1, LookupFinds
  <2>3. Forgets(EntryOf(c), RingClear(EntryOf(c))) /\ Forgets(EntryOf(c), DedupReset(EntryOf(c)))
    BY <2>2, RingClearForgets, DedupResetForgets
  <2>4. \/ ringList' = Replace(c, RingClear(EntryOf(c)))
        \/ ringList' = Replace(c, DedupReset(EntryOf(c)))
    BY <1>14 DEF xmlCtxtResetErrorRing, xmlCtxtResetErrorDedup
  <2>5. Derived(ringList')
    BY <1>1, <2>1, <2>3, <2>4, ReplaceDerived
  <2> QED BY <1>3, <2>1, <2>5
<1>15. ASSUME UNCHANGED ringVars PROVE TableCounts'
  BY <1>3, <1>15, SameDerived DEF ringVars
<1>16. ASSUME NEW c \in Ctxts, Raise(c) PROVE TableCounts'
  BY <1>8, <1>9, <1>10, <1>16 DEF Raise
<1>17. ASSUME RingNext PROVE TableCounts'
  <2>1. PICK c \in Ctxts :
          \/ \E r \in BOOLEAN : xmlNewParserCtxt(c, r)
          \/ xmlCtxtReset(c) \/ xmlStopParser(c) \/ xmlFreeParserCtxt(c)
          \/ Raise(c) \/ StoreErrorRing(c)
          \/ \E n \in RingSizes : xmlCtxtSetErrorRingSize(c, n)
          \/ \E n \in DedupLimits : xmlCtxtSetErrorDedup(c, n)
          \/ xmlCtxtResetErrorRing(c) \/ xmlCtxtResetErrorDedup(c)
    BY <1>17, Zenon DEF RingNext
  <2> QED BY <1>4, <1>5, <1>6, <1>7, <1>11, <1>12, <1>13, <1>14, <1>16, <2>1, Zenon
<1> QED BY <1>1, <1>15, <1>17 DEF RepeatInv

(* An error in the repeat table is reported at most dedupLimit times since *)
(* it entered the table, whatever the handler calls, resets and resizes in *)
(* between, while the allocations of the ring succeed                      *)
(* (xmlCtxtErrorDedupShouldSuppress, parserInternals.c:240-281).           *)
THEOREM RepeatsBounded ==
  ASSUME AllocFails \cap {"ring", "copy"} = {}
  PROVE  RingSpec => []RepeatsSuppressed
<1>1. RingInit => RepeatInv
  BY ListInit DEF RepeatInv, TableCounts, RingInit
<1>2. RepeatInv => RepeatsSuppressed
  <2> SUFFICES ASSUME RepeatInv, NEW c \in Ctxts, DedupOn(c), NEW e \in Errors, Known(c, e) # {}
               PROVE  seen[c].reports[e] <= EntryOf(c).dedupLimit
    BY DEF RepeatsSuppressed
  <2>1. HasEntry(c) /\ EntryOf(c).dedup # Null
    BY DEF DedupOn
  <2>2. /\ RingLookup(c) \in 1..Len(ringList) /\ EntryOf(c) = ringList[RingLookup(c)]
        /\ EntryOf(c).ctxt = c
    BY <2>1, LookupFinds DEF RepeatInv, ListInv
  <2>3. Within(EntryOf(c), seen[c].reports)
    BY <2>2 DEF RepeatInv, TableCounts
  <2>4. PICK i \in 0..(EntryOf(c).dedupCount - 1) : EntryOf(c).dedup[i].fingerprint = e
    BY DEF Known
  <2> QED BY <2>1, <2>3, <2>4 DEF Within
<1> QED BY <1>1, <1>2, RepeatStep, PTL DEF RingSpec
=============================================================================
