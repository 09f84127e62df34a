--------------------------- MODULE Parser_proofs ---------------------------
(***************************************************************************)
(* Proofs about two structures of the parser.                              *)
(*                                                                         *)
(* The look-ahead of the push parser, for any text and any way to cut it   *)
(* into chunks: what it finds is where the construct ends, and a search    *)
(* that failed is resumed near the end of what it has seen.                *)
(*                                                                         *)
(* The namespace database of the parser, for any prefixes, URIs, hash      *)
(* functions and documents: the open-addressing table always has an empty  *)
(* bucket, a lookup finds the innermost binding of a prefix, and the       *)
(* database implements the abstract index of NsIndex.                      *)
(*                                                                         *)
(* The table is sound for a stack when every bucket with an index holds    *)
(* the last binding of its prefix, at a place that a search for the prefix *)
(* reaches over used buckets, and complete when every prefix on the stack  *)
(* has such a bucket.  xmlParserNsPush keeps both in one step; the loops   *)
(* of xmlParserNsPop and of the growth are recursive functions, and keep   *)
(* them by induction over their turns.                                     *)
(***************************************************************************)
EXTENDS ChunkLookup, NsDb, Induction, FiniteSetTheorems, SequenceTheorems, TLAPS

-----------------------------------------------------------------------------
(* The automata that define where constructs end read one character after  *)
(* the other.                                                              *)

TagQuotes == {"0"} \cup Quotes

IsTagRun(q, t, c) ==
  q = [i \in Nat |-> IF i = 0 THEN "0" ELSE TagStep(q[i - 1], t[c + 1 + i])]

LEMMA TagRunExists ==
  ASSUME NEW t, NEW c
  PROVE  \E q : IsTagRun(q, t, c)
<1> DEFINE F == [p \in Nat \X TagQuotes |-> TagStep(p[2], t[c + 1 + p[1]])]
<1>1. \A n \in Nat, s \in TagQuotes : F[<<n, s>>] = TagStep(s, t[c + 1 + n])
  OBVIOUS
<1>2. \A s \in TagQuotes : \A d : TagStep(s, d) \in TagQuotes
  BY DEF TagStep, TagQuotes
<1> HIDE DEF F
<1>3. \A n \in Nat, s \in TagQuotes : F[<<n + 1, s>>] \in TagQuotes
  BY <1>1, <1>2
<1>4. PICK q : IsDefined(q, TagQuotes, "0", F)
  <2>1. "0" \in TagQuotes
    BY DEF TagQuotes
  <2> QED BY <1>3, <2>1, TypedRecursion
<1>5. \A n \in Nat : n # 0 => F[<<n, q[n - 1]>>] = TagStep(q[n - 1], t[c + 1 + n])
  <2> SUFFICES ASSUME NEW n \in Nat, n # 0
               PROVE  F[<<n, q[n - 1]>>] = TagStep(q[n - 1], t[c + 1 + n])
    OBVIOUS
  <2>1. n - 1 \in Nat
    OBVIOUS
  <2>2. q[n - 1] \in TagQuotes
    BY <1>4, <2>1, Zenon DEF IsDefined
  <2> QED BY <1>1, <2>2
<1>6. q = [n \in Nat |-> IF n = 0 THEN "0" ELSE F[<<n, q[n - 1]>>]]
  BY <1>4, Zenon DEF IsDefined
<1>7. q = [n \in Nat |-> IF n = 0 THEN "0" ELSE TagStep(q[n - 1], t[c + 1 + n])]
  BY <1>5, <1>6, Zenon
<1>8. IsTagRun(q, t, c)
  BY <1>7, Zenon DEF IsTagRun
<1> QED BY <1>8

LEMMA TagStates ==
  /\ TagState(0) = "0"
  /\ \A n \in Nat : /\ TagState(n) \in TagQuotes
                    /\ TagState(n + 1) = TagStep(TagState(n), text[cur + 1 + (n + 1)])
<1> DEFINE q == CHOOSE q : IsTagRun(q, text, cur)
<1>1. IsTagRun(q, text, cur)
  BY TagRunExists, Zenon
<1>2. \A n : TagState(n) = q[n]
  BY Zenon DEF TagState, IsTagRun
<1> HIDE DEF q
<1>3. q[0] = "0" /\ \A n \in Nat : q[n + 1] = TagStep(q[n], text[cur + 1 + (n + 1)])
  <2>1. \A n \in Nat : n + 1 \in Nat /\ n + 1 # 0 /\ (n + 1) - 1 = n
    OBVIOUS
  <2>2. \A i \in Nat : q[i] = IF i = 0 THEN "0" ELSE TagStep(q[i - 1], text[cur + 1 + i])
    BY <1>1, Zenon DEF IsTagRun
  <2> QED BY <2>1, <2>2
<1> DEFINE P == {n \in Nat : q[n] \in TagQuotes}
<1>4. \A n \in Nat : n \in P
  <2>1. 0 \in P
    BY <1>3 DEF TagQuotes
  <2>2. ASSUME NEW n \in Nat, n \in P PROVE n + 1 \in P
    <3>1. q[n] \in TagQuotes
      BY <2>2
    <3>2. q[n + 1] \in TagQuotes
      BY <1>3, <3>1 DEF TagStep, TagQuotes
    <3> QED BY <3>2
  <2> HIDE DEF P
  <2> QED BY <2>1, <2>2, Induct
<1> QED BY <1>2, <1>3, <1>4

(* It depends on the text and the cursor only.                             *)
LEMMA TagStateKept ==
  ASSUME text' = text, cur' = cur, NEW n
  PROVE  TagState(n)' = TagState(n)
<1>1. TagState(n) = (CHOOSE q : IsTagRun(q, text, cur))[n]
  BY Zenon DEF TagState, IsTagRun
<1>2. TagState(n)' = (CHOOSE q : IsTagRun(q, text', cur'))[n]
  BY Zenon DEF TagState, IsTagRun
<1> QED BY <1>1, <1>2

(* What the search for the end of the internal subset goes by: comments    *)
(* and quotes, but no processing instructions, and any ']' S? '>'.         *)
ScanNext(q, c) ==
  CASE q \in Quotes -> IF c = q THEN "0" ELSE q
    [] q = "<" /\ c = "!" -> "<!"
    [] q = "<!" /\ c = "-" -> "<!-"
    [] q = "<!-" /\ c = "-" -> "<!--"
    [] q \in {"<!--", "<!--.."} -> IF c = "-" THEN "<!--.-" ELSE "<!--.."
    [] q = "<!--.-" -> IF c = "-" THEN "<!--.--" ELSE "<!--.."
    [] q = "<!--.--" -> IF c = ">" THEN "0" ELSE IF c = "-" THEN q ELSE "<!--.."
    [] q \in {"]", "]sp"} /\ c = ">" -> "]>"
    [] q \in {"]", "]sp"} /\ c = "sp" -> "]sp"
    [] q = "]>" -> "]>"
    [] OTHER -> IF c \in Quotes \cup {"<", "]"} THEN c ELSE "0"

ScanState(n) ==
  LET q[i \in Nat] == IF i = 0 THEN "0" ELSE ScanNext(q[i - 1], text[cur + 1 + i])
  IN  q[n]

ScanEnds == {i \in (cur + 2)..Len(text) : ScanState(i - cur - 1) = "]>"}

(* Where the searches take the construct at the cursor to end.             *)
SeenEnds == IF Kind = "subset" THEN ScanEnds ELSE Ends
SeenWhole == \E i \in SeenEnds : i <= end

ScanQs ==
  {"0", "<", "<!", "<!-", "<!--", "<!--..", "<!--.-", "<!--.--", "]", "]sp", "]>"} \cup Quotes

IsScanRun(q, t, c) ==
  q = [i \in Nat |-> IF i = 0 THEN "0" ELSE ScanNext(q[i - 1], t[c + 1 + i])]

LEMMA ScanNextIn ==
  ASSUME NEW q \in ScanQs, NEW c
  PROVE  ScanNext(q, c) \in ScanQs
BY DEF ScanNext, ScanQs, Quotes

LEMMA ScanRunExists ==
  ASSUME NEW t, NEW c
  PROVE  \E q : IsScanRun(q, t, c)
<1> DEFINE F == [p \in Nat \X ScanQs |-> ScanNext(p[2], t[c + 1 + p[1]])]
<1>1. \A n \in Nat, s \in ScanQs : F[<<n, s>>] = ScanNext(s, t[c + 1 + n])
  OBVIOUS
<1>2. \A s \in ScanQs : \A d : ScanNext(s, d) \in ScanQs
  BY ScanNextIn
<1> HIDE DEF F
<1>3. ASSUME NEW n \in Nat, NEW s \in ScanQs PROVE F[<<n + 1, s>>] \in ScanQs
  <2>1. n + 1 \in Nat
    OBVIOUS
  <2>2. F[<<n + 1, s>>] = ScanNext(s, t[c + 1 + (n + 1)])
    BY <1>1, <2>1, Zenon
  <2> QED BY <1>2, <2>2
<1>4. PICK q : IsDefined(q, ScanQs, "0", F)
  <2>1. "0" \in ScanQs
    BY DEF ScanQs
  <2> QED BY <1>3, <2>1, TypedRecursion
<1>5. \A n \in Nat : n # 0 => F[<<n, q[n - 1]>>] = ScanNext(q[n - 1], t[c + 1 + n])
  <2> SUFFICES ASSUME NEW n \in Nat, n # 0
               PROVE  F[<<n, q[n - 1]>>] = ScanNext(q[n - 1], t[c + 1 + n])
    OBVIOUS
  <2>1. n - 1 \in Nat
    OBVIOUS
  <2>2. q[n - 1] \in ScanQs
    BY <1>4, <2>1, Zenon DEF IsDefined
  <2> QED BY <1>1, <2>2
<1>6. q = [n \in Nat |-> IF n = 0 THEN "0" ELSE F[<<n, q[n - 1]>>]]
  BY <1>4, Zenon DEF IsDefined
<1>7. q = [n \in Nat |-> IF n = 0 THEN "0" ELSE ScanNext(q[n - 1], t[c + 1 + n])]
  BY <1>5, <1>6, Zenon
<1>8. IsScanRun(q, t, c)
  BY <1>7, Zenon DEF IsScanRun
<1> QED BY <1>8

LEMMA ScanStates ==
  /\ ScanState(0) = "0"
  /\ \A n \in Nat : /\ ScanState(n) \in ScanQs
                    /\ ScanState(n + 1) = ScanNext(ScanState(n), text[cur + 1 + (n + 1)])
<1> DEFINE q == CHOOSE q : IsScanRun(q, text, cur)
<1>1. IsScanRun(q, text, cur)
  BY ScanRunExists, Zenon
<1>2. \A n : ScanState(n) = q[n]
  BY Zenon DEF ScanState, IsScanRun
<1> HIDE DEF q
<1>3. q[0] = "0" /\ \A n \in Nat : q[n + 1] = ScanNext(q[n], text[cur + 1 + (n + 1)])
  <2>1. \A n \in Nat : n + 1 \in Nat /\ n + 1 # 0 /\ (n + 1) - 1 = n
    OBVIOUS
  <2>2. \A i \in Nat : q[i] = IF i = 0 THEN "0" ELSE ScanNext(q[i - 1], text[cur + 1 + i])
    BY <1>1, Zenon DEF IsScanRun
  <2> QED BY <2>1, <2>2
<1> DEFINE P == {n \in Nat : q[n] \in ScanQs}
<1>4. \A n \in Nat : n \in P
  <2>1. 0 \in P
    BY <1>3 DEF ScanQs
  <2>2. ASSUME NEW n \in Nat, n \in P PROVE n + 1 \in P
    <3>1. q[n] \in ScanQs
      BY <2>2
    <3>2. q[n + 1] \in ScanQs
      BY <1>3, <3>1, ScanNextIn
    <3> QED BY <3>2
  <2> HIDE DEF P
  <2> QED BY <2>1, <2>2, Induct
<1> QED BY <1>2, <1>3, <1>4

(* It depends on the text and the cursor only.                             *)
LEMMA ScanStateKept ==
  ASSUME text' = text, cur' = cur, NEW n
  PROVE  ScanState(n)' = ScanState(n)
<1>1. ScanState(n) = (CHOOSE q : IsScanRun(q, text, cur))[n]
  BY Zenon DEF ScanState, IsScanRun
<1>2. ScanState(n)' = (CHOOSE q : IsScanRun(q, text', cur'))[n]
  BY Zenon DEF ScanState, IsScanRun
<1> QED BY <1>1, <1>2

-----------------------------------------------------------------------------
(* The automata by the position of the last character read.                *)
TQ(p) == TagState(p - cur - 1)
SQ(p) == ScanState(p - cur - 1)

LEMMA TagPositions ==
  ASSUME cur \in Nat
  PROVE  /\ TQ(cur + 1) = "0"
         /\ \A p \in Nat : p > cur =>
              TQ(p) \in TagQuotes /\ TQ(p + 1) = TagStep(TQ(p), text[p + 1])
<1>1. (cur + 1) - cur - 1 = 0
  OBVIOUS
<1>2. ASSUME NEW p \in Nat, p > cur
      PROVE  TQ(p) \in TagQuotes /\ TQ(p + 1) = TagStep(TQ(p), text[p + 1])
  <2> DEFINE n == p - cur - 1
  <2>1. n \in Nat /\ (p + 1) - cur - 1 = n + 1 /\ cur + 1 + (n + 1) = p + 1
    BY <1>2
  <2>2. TQ(p) = TagState(n) /\ TQ(p + 1) = TagState(n + 1)
    BY <2>1 DEF TQ
  <2> HIDE DEF n
  <2>3. TagState(n) \in TagQuotes
        /\ TagState(n + 1) = TagStep(TagState(n), text[cur + 1 + (n + 1)])
    BY <2>1, TagStates
  <2> QED BY <2>1, <2>2, <2>3
<1>3. TQ(cur + 1) = "0"
  BY <1>1, TagStates DEF TQ
<1> QED BY <1>2, <1>3

LEMMA ScanPositions ==
  ASSUME cur \in Nat
  PROVE  /\ SQ(cur + 1) = "0"
         /\ \A p \in Nat : p > cur =>
              SQ(p) \in ScanQs /\ SQ(p + 1) = ScanNext(SQ(p), text[p + 1])
<1>1. (cur + 1) - cur - 1 = 0
  OBVIOUS
<1>2. ASSUME NEW p \in Nat, p > cur
      PROVE  SQ(p) \in ScanQs /\ SQ(p + 1) = ScanNext(SQ(p), text[p + 1])
  <2> DEFINE n == p - cur - 1
  <2>1. n \in Nat /\ (p + 1) - cur - 1 = n + 1 /\ cur + 1 + (n + 1) = p + 1
    BY <1>2
  <2>2. SQ(p) = ScanState(n) /\ SQ(p + 1) = ScanState(n + 1)
    BY <2>1 DEF SQ
  <2> HIDE DEF n
  <2>3. /\ ScanState(n) \in ScanQs
        /\ ScanState(n + 1)
             = ScanNext(ScanState(n), text[cur + 1 + (n + 1)])
    BY <2>1, ScanStates
  <2> QED BY <2>1, <2>2, <2>3
<1>3. SQ(cur + 1) = "0"
  BY <1>1, ScanStates DEF SQ
<1> QED BY <1>2, <1>3

-----------------------------------------------------------------------------
(* The invariant.                                                          *)
LkInts ==
  /\ cur \in Nat /\ end \in Nat /\ cur <= end
  /\ Len(text) \in Nat /\ end <= Len(text)
  /\ checkIndex \in Nat

SsNames == {"0", "-", "]", "sp"} \cup Quotes

LkTypes ==
  /\ LkInts
  /\ text \in Seq(Chars) /\ dtd \in BOOLEAN
  /\ endCheckState \in SsNames
  /\ phase \in {"wait", "look", "parse", "stopped"}

(* The whole string is at i, in the text.                                  *)
Occurs(i, str) ==
  i + Len(str) - 1 <= Len(text) /\ \A k \in 1..Len(str) : text[i + k - 1] = str[k]

(* What a search that is resumed at p knows of what is before.             *)
CharOk(c, p) == \A i \in (cur + 2)..(p - 1) : text[i] # c

StringOk(d, str, p) ==
  p >= cur + 1 + d /\ \A i \in (cur + 1 + d)..(p - 1) : ~Occurs(i, str)

DataOk(p) == \A i \in (cur + 1)..(p - 1) : text[i] \notin {"<", "&"}

GtOk(p, st) ==
  /\ TQ(p - 1) = st
  /\ \A i \in (cur + 2)..(p - 1) : ~(text[i] = ">" /\ TQ(i - 1) = "0")

(* In the internal subset: a state of the search stands for one of the     *)
(* automaton, except that the search passes over the start of a comment's  *)
(* delimiter that the text does not go on with.                            *)
Outside(p) ==
  \/ SQ(p - 1) = "0"
  \/ SQ(p - 1) \in {"]", "]sp"} /\ (p <= Len(text) => text[p] \notin {">", "sp"})
  \/ SQ(p - 1) = "<" /\ ~Occurs(p, <<"!", "-", "-">>)
  \/ SQ(p - 1) = "<!" /\ ~Occurs(p, <<"-", "-">>)
  \/ SQ(p - 1) = "<!-" /\ ~Occurs(p, <<"-">>)

Inside(p) ==
  \/ SQ(p - 1) \in {"<!--", "<!--.."}
  \/ SQ(p - 1) = "<!--.-" /\ ~Occurs(p, <<"-", ">">>)
  \/ SQ(p - 1) = "<!--.--" /\ ~Occurs(p, <<">">>) /\ ~Occurs(p, <<"-", ">">>)

SubsetOk(p, st) ==
  /\ st = "0" => Outside(p)
  /\ st = "-" => Inside(p)
  /\ st \in Quotes \cup {"]"} => SQ(p - 1) = st
  /\ st = "sp" => SQ(p - 1) = "]sp"
  /\ \A i \in (cur + 1)..(p - 1) : SQ(i) # "]>"

Knows(kind, p, st) ==
  /\ kind = "ref" => CharOk("semi", p)
  /\ kind = "etag" => CharOk(">", p)
  /\ kind \in {"pi", "comment", "cdata"} => StringOk(StartDelta[kind], Terminator[kind], p)
  /\ kind = "stag" => st \in TagQuotes /\ GtOk(p, st)
  /\ kind = "subset" => SubsetOk(p, st)
  /\ kind = "text" => DataOk(p)
  /\ kind \notin {"stag", "subset"} => st = "0"

(* A search is resumed for the construct that it was started for.          *)
Resumed ==
  IF checkIndex = 0 THEN endCheckState = "0"
  ELSE /\ Recognised
       /\ cur + checkIndex <= end
       /\ Knows(Kind, cur + 1 + checkIndex, endCheckState)

(* LookupExact by what the searches go by.                                 *)
SeenExact ==
  /\ phase = "wait" /\ Recognised => ~SeenWhole
  /\ phase = "parse" => SeenWhole \/ LongText

LkInv ==
  /\ LkTypes /\ Resumed /\ SeenExact /\ ResumesNearEnd
  /\ phase = "parse" => Recognised /\ checkIndex = 0

-----------------------------------------------------------------------------
(* The construct at the cursor is the same when more of it has arrived.    *)
LEMMA KindStable ==
  ASSUME LkInts, LkInts', text' = text, dtd' = dtd, cur' = cur, end <= end', Recognised
  PROVE  Recognised' /\ Kind' = Kind
<1>1. \A k \in {0, 1, 2, 3} : k < Avail => Ahead(k)' = Ahead(k)
  BY DEF LkInts, Ahead, At, Avail
<1>2. Avail \in Int /\ Avail' \in Int /\ Avail <= Avail'
  <2>1. \A c, e, f \in Nat : e <= f => e - c \in Int /\ f - c \in Int /\ e - c <= f - c
    OBVIOUS
  <2> QED BY <2>1, Zenon DEF LkInts, Avail
<1>3. Recognised'
  BY <1>1, <1>2 DEF Recognised
<1>4. CASE dtd
  BY <1>3, <1>4 DEF Kind, Markup
<1>5. CASE ~dtd
  <2>1. Avail >= 1 /\ Ahead(0)' = Ahead(0)
    BY <1>1, <1>2 DEF Recognised
  <2>2. Ahead(0) = "<" => Ahead(1)' = Ahead(1)
    BY <1>1, <1>2, <1>5 DEF Recognised
  <2>3. Ahead(0) = "<" /\ Ahead(1) = "!" => Ahead(2)' = Ahead(2)
    BY <1>1, <1>2, <1>5 DEF Recognised
  <2>4. Ahead(0) = "<" /\ Ahead(1) = "!" /\ Ahead(2) = "-" => Ahead(3)' = Ahead(3)
    BY <1>1, <1>2, <1>5 DEF Recognised
  <2> QED BY <1>3, <1>5, <2>1, <2>2, <2>3, <2>4 DEF Kind, Markup
<1> QED BY <1>3, <1>4, <1>5

LEMMA KindIs ==
  /\ Kind \in {"subset", "ref", "etag", "pi", "comment", "cdata", "stag", "text"}
  /\ Recognised /\ LkInts =>
       /\ Avail >= 1
       /\ Kind = "pi" => Avail >= 2
       /\ Kind = "comment" => Avail >= 4
       /\ Kind = "cdata" => Avail >= 3
       /\ Kind \in {"stag", "etag"} => Avail >= 2
<1>1. Kind \in {"subset", "ref", "etag", "pi", "comment", "cdata", "stag", "text"}
  BY DEF Kind, Markup
<1>2. ASSUME Recognised, LkInts, ~dtd
      PROVE  /\ Kind = "pi" => Ahead(0) = "<"
             /\ Kind = "comment" => Ahead(0) = "<" /\ Ahead(1) = "!" /\ Ahead(2) = "-"
             /\ Kind = "cdata" => Ahead(0) = "<" /\ Ahead(1) = "!"
             /\ Kind \in {"stag", "etag"} => Ahead(0) = "<"
  BY <1>2 DEF Kind, Markup
<1>3. dtd => Kind = "subset"
  BY DEF Kind, Markup
<1>4. Recognised /\ LkInts => Avail >= 1
  BY DEF Recognised
<1> QED BY <1>1, <1>2, <1>3, <1>4 DEF Recognised

(* What a search should return.                                            *)
Exact(r, ends) ==
  /\ r.found \in BOOLEAN
  /\ r.found => r.index = 0 /\ r.state = "0" /\ \E i \in ends : i <= end
  /\ ~r.found => /\ r.index \in Nat \ {0} /\ r.index <= Avail /\ Avail - r.index <= 3
                 /\ ~\E i \in ends : i <= end

LEMMA FoundExact ==
  ASSUME NEW ends, \E i \in ends : i <= end
  PROVE  Exact(Found("0"), ends)
BY DEF Exact, Found

LEMMA NotFoundExact ==
  ASSUME LkInts, NEW ends, ~\E i \in ends : i <= end, NEW st,
         NEW p \in Nat, p >= cur + 2, p <= end + 1, end + 1 - p <= 3
  PROVE  /\ Exact(NotFound(p, st), ends) /\ NotFound(p, st).state = st
         /\ ~NotFound(p, st).found /\ cur + 1 + NotFound(p, st).index = p
BY DEF Exact, NotFound, LkInts, Avail

(* References and end tags.                                                *)
LEMMA CharSearch ==
  ASSUME LkInts, Avail >= 1, NEW c \in Chars, endCheckState = "0",
         checkIndex # 0 => cur + checkIndex <= end /\ CharOk(c, cur + 1 + checkIndex)
  PROVE  LET r == xmlParseLookupChar(c)
         IN  /\ Exact(r, StringEnds(1, <<c>>)) /\ r.state = "0"
             /\ ~r.found => CharOk(c, cur + 1 + r.index)
<1> DEFINE from == From(1)
           r == xmlParseLookupChar(c)
           ends == StringEnds(1, <<c>>)
<1>1. from \in Nat /\ from >= cur + 2 /\ from <= end + 2 /\ CharOk(c, from)
  BY DEF LkInts, From, CharOk, Avail
<1>2. \A i : i \in ends <=> i \in (cur + 2)..Len(text) /\ text[i] = c
  BY DEF StringEnds, LkInts
<1>3. CASE \E i \in from..end : text[i] = c
  <2>1. \E i \in ends : i <= end
    BY <1>1, <1>2, <1>3 DEF LkInts
  <2>2. r = Found("0")
    BY <1>3 DEF xmlParseLookupChar
  <2>3. r.found /\ r.state = "0"
    BY <2>2 DEF Found
  <2> QED BY <2>1, <2>2, <2>3, FoundExact
<1>4. CASE ~\E i \in from..end : text[i] = c
  <2>1. CharOk(c, end + 1)
    BY <1>1, <1>4 DEF CharOk, LkInts
  <2>2. ~\E i \in ends : i <= end
    BY <1>2, <2>1 DEF CharOk, LkInts
  <2>3. r = NotFound(end + 1, "0")
    BY <1>4 DEF xmlParseLookupChar
  <2>4. end + 1 \in Nat /\ end + 1 >= cur + 2 /\ (end + 1) - (end + 1) = 0
    BY DEF LkInts, Avail
  <2>5. Exact(r, ends) /\ r.state = "0" /\ cur + 1 + r.index = end + 1
    <3>1. end + 1 <= end + 1 /\ end + 1 - (end + 1) <= 3
      BY DEF LkInts
    <3> HIDE DEF r, ends
    <3> QED BY <2>2, <2>3, <2>4, <3>1, NotFoundExact
  <2> QED BY <2>1, <2>5
<1> QED BY <1>3, <1>4

(* Character data.                                                         *)
LEMMA DataSearch ==
  ASSUME LkInts, Avail >= 1, endCheckState = "0",
         checkIndex # 0 => cur + checkIndex <= end /\ DataOk(cur + 1 + checkIndex)
  PROVE  LET r == xmlParseLookupCharData
         IN  /\ Exact(r, TextStops) /\ r.state = "0"
             /\ ~r.found => DataOk(cur + 1 + r.index)
<1> DEFINE from == From(0)
           r == xmlParseLookupCharData
<1>1. from \in Nat /\ from >= cur + 1 /\ from <= end + 2 /\ DataOk(from)
  BY DEF LkInts, From, DataOk, Avail
<1>3. CASE \E i \in from..end : text[i] \in {"<", "&"}
  <2>1. \E i \in TextStops : i <= end
    BY <1>1, <1>3 DEF LkInts, TextStops
  <2>2. r = Found("0")
    BY <1>3 DEF xmlParseLookupCharData
  <2>3. r.found /\ r.state = "0"
    BY <2>2 DEF Found
  <2> QED BY <2>1, <2>2, <2>3, FoundExact
<1>4. CASE ~\E i \in from..end : text[i] \in {"<", "&"}
  <2>1. DataOk(end + 1)
    BY <1>1, <1>4 DEF DataOk, LkInts
  <2>2. ~\E i \in TextStops : i <= end
    BY <2>1 DEF DataOk, TextStops, LkInts
  <2>3. r = NotFound(end + 1, "0")
    BY <1>4 DEF xmlParseLookupCharData
  <2>4. end + 1 \in Nat /\ end + 1 >= cur + 2 /\ end + 1 <= end + 1 /\ end + 1 - (end + 1) <= 3
    BY DEF LkInts, Avail
  <2>5. Exact(r, TextStops) /\ r.state = "0" /\ cur + 1 + r.index = end + 1
    <3> HIDE DEF r
    <3> QED BY <2>2, <2>3, <2>4, NotFoundExact
  <2> QED BY <2>1, <2>5
<1> QED BY <1>3, <1>4

(* The buffer holds the string exactly when the text does, that far.       *)
LEMMA MatchOccurs ==
  ASSUME LkInts, NEW str, Len(str) \in Nat \ {0}, \A k \in 1..Len(str) : str[k] # "NUL",
         NEW i \in Nat
  PROVE  MatchAt(i, str) <=> Occurs(i, str) /\ i + Len(str) - 1 <= end
<1> DEFINE n == Len(str)
<1>1. n \in Nat /\ n >= 1
  OBVIOUS
<1> HIDE DEF n
<1>2. ASSUME MatchAt(i, str) PROVE Occurs(i, str) /\ i + n - 1 <= end
  <2>1. \A k \in 1..n : At(i + k - 1) = str[k] /\ str[k] # "NUL"
    BY <1>2 DEF MatchAt, n
  <2>2. \A k \in 1..n : i + k - 1 <= end /\ text[i + k - 1] = str[k]
    BY <2>1 DEF At
  <2>3. n \in 1..n
    BY <1>1
  <2>4. i + n - 1 <= end
    BY <2>2, <2>3
  <2>5. i + n - 1 <= Len(text)
    BY <1>1, <2>4 DEF LkInts
  <2> QED BY <2>2, <2>4, <2>5 DEF Occurs, n
<1>3. ASSUME Occurs(i, str), i + n - 1 <= end PROVE MatchAt(i, str)
  <2>1. \A k \in 1..n : text[i + k - 1] = str[k]
    BY <1>3 DEF Occurs, n
  <2>2. \A k \in 1..n : i + k - 1 <= end
    BY <1>1, <1>3 DEF LkInts
  <2> QED BY <2>1, <2>2 DEF MatchAt, At, n
<1> QED BY <1>2, <1>3 DEF n

(* Processing instructions, comments and CDATA sections.                   *)
LEMMA StringSearch ==
  ASSUME LkInts, NEW str, Len(str) \in {2, 3}, \A k \in 1..Len(str) : str[k] # "NUL",
         NEW d \in Nat, d >= 1, Avail >= d, endCheckState = "0",
         checkIndex # 0 => cur + checkIndex <= end /\ StringOk(d, str, cur + 1 + checkIndex)
  PROVE  LET r == xmlParseLookupString(d, str)
         IN  /\ Exact(r, StringEnds(d, str)) /\ r.state = "0"
             /\ ~r.found => StringOk(d, str, cur + 1 + r.index)
<1> DEFINE from == From(d)
           n == Len(str)
           r == xmlParseLookupString(d, str)
           ends == StringEnds(d, str)
<1>1. n \in Nat /\ n >= 2 /\ n <= 3
  <2>1. Len(str) = 2 \/ Len(str) = 3
    OBVIOUS
  <2>2. CASE Len(str) = 2
    BY <2>2
  <2>3. CASE Len(str) = 3
    BY <2>3
  <2> QED BY <2>1, <2>2, <2>3
<1>2. from \in Nat /\ from >= cur + 1 + d /\ from <= end + 1 /\ StringOk(d, str, from)
  BY DEF LkInts, From, StringOk, Avail
<1>3. \A i \in Nat : MatchAt(i, str) <=> Occurs(i, str) /\ i + n - 1 <= end
  BY MatchOccurs
<1> HIDE DEF from, n
<1>4. \A i \in Nat : i >= cur + 1 + d /\ Occurs(i, str) => i + n - 1 \in ends
  <2> SUFFICES ASSUME NEW i \in Nat, i >= cur + 1 + d, Occurs(i, str)
               PROVE  i + n - 1 \in ends
    OBVIOUS
  <2>1. i + n - 1 <= Len(text) /\ \A k \in 1..n : text[i + k - 1] = str[k]
    BY DEF Occurs, n
  <2>2. \A k \in 1..n : (i + n - 1) - n + k = i + k - 1
    BY <1>1
  <2>3. i + n - 1 \in (cur + d + n)..Len(text)
    BY <1>1, <2>1 DEF LkInts
  <2> QED BY <2>1, <2>2, <2>3 DEF StringEnds, n
<1>5. ASSUME NEW e \in ends
      PROVE  e \in Nat /\ e - n + 1 \in Nat /\ e - n + 1 >= cur + 1 + d /\ Occurs(e - n + 1, str)
  <2>1. e \in (cur + d + n)..Len(text) /\ \A k \in 1..n : text[e - n + k] = str[k]
    BY <1>5 DEF StringEnds, n
  <2>2. e \in Nat /\ e - n + 1 \in Nat /\ e - n + 1 >= cur + 1 + d /\ (e - n + 1) + n - 1 <= Len(text)
    BY <1>1, <2>1 DEF LkInts
  <2>3. \A k \in 1..n : (e - n + 1) + k - 1 = e - n + k
    BY <1>1, <2>2
  <2> QED BY <2>1, <2>2, <2>3 DEF Occurs, n
<1>6. CASE \E i \in from..end : MatchAt(i, str)
  <2>1. PICK i \in from..end : MatchAt(i, str)
    BY <1>6
  <2>2. i \in Nat /\ i >= cur + 1 + d
    BY <1>2, <2>1 DEF LkInts
  <2>3. i + n - 1 \in ends /\ i + n - 1 <= end
    BY <1>3, <1>4, <2>1, <2>2
  <2>4. r = Found("0")
    BY <1>6 DEF xmlParseLookupString, from
  <2>5. r.found /\ r.state = "0"
    BY <2>4 DEF Found
  <2>6. Exact(r, ends)
    <3> HIDE DEF r, ends
    <3> QED BY <2>3, <2>4, FoundExact
  <2> QED BY <2>5, <2>6
<1>7. CASE ~\E i \in from..end : MatchAt(i, str)
  <2> DEFINE p == IF end + 1 - from < n THEN from ELSE end + 2 - n
  <2>1. r = NotFound(p, "0")
    BY <1>7 DEF xmlParseLookupString, from, n
  <2>2. p \in Nat /\ p >= cur + 1 + d /\ p <= end + 1 /\ end + 1 - p <= 3 /\ p >= cur + 2
    BY <1>1, <1>2 DEF LkInts
  <2>3. \A i \in Nat : i >= from /\ i + n - 1 <= end => ~Occurs(i, str)
    BY <1>1, <1>2, <1>3, <1>7 DEF LkInts
  <2>4. \A i \in Nat : i >= cur + 1 + d /\ i < from => ~Occurs(i, str)
    BY <1>2 DEF StringOk
  <2>5. \A i \in Nat : i < p => i < from \/ i + n - 1 <= end
    BY <1>1, <1>2 DEF LkInts
  <2>6. \A i \in Nat : i + n - 1 <= end => i < p
    BY <1>1, <1>2 DEF LkInts
  <2> HIDE DEF p
  <2>7. StringOk(d, str, p)
    <3> SUFFICES ASSUME NEW i \in (cur + 1 + d)..(p - 1) PROVE ~Occurs(i, str)
      BY <2>2 DEF StringOk
    <3>1. i \in Nat /\ i >= cur + 1 + d /\ i < p
      BY <2>2 DEF LkInts
    <3>2. i < from \/ (i >= from /\ i + n - 1 <= end)
      BY <1>2, <2>5, <3>1
    <3> QED BY <2>3, <2>4, <3>1, <3>2
  <2>8. ~\E e \in ends : e <= end
    <3> SUFFICES ASSUME NEW e \in ends, e <= end PROVE FALSE
      OBVIOUS
    <3> DEFINE j == e - n + 1
    <3>1. j \in Nat /\ j >= cur + 1 + d /\ Occurs(j, str) /\ j + n - 1 <= end
      BY <1>1, <1>5
    <3> HIDE DEF j
    <3>2. j < from \/ j >= from
      BY <1>2, <3>1
    <3> QED BY <2>3, <2>4, <3>1, <3>2
  <2>9. Exact(r, ends) /\ r.state = "0" /\ cur + 1 + r.index = p
    <3> HIDE DEF r, ends
    <3> QED BY <2>1, <2>2, <2>8, NotFoundExact
  <2> QED BY <2>7, <2>9
<1> QED BY <1>6, <1>7

-----------------------------------------------------------------------------
(* Start tags: the loop computes the open quote as the automaton does.     *)
GtStates == [found : BOOLEAN, state : TagQuotes]

LEMMA GtStepIn ==
  ASSUME NEW s \in GtStates, NEW c
  PROVE  /\ GtStep(s, c) \in GtStates
         /\ s.found => GtStep(s, c) = s
         /\ ~s.found /\ s.state = "0" /\ c = ">" => GtStep(s, c).found
         /\ ~s.found /\ ~(s.state = "0" /\ c = ">") =>
              ~GtStep(s, c).found /\ GtStep(s, c).state = TagStep(s.state, c)
<1>1. s.found \in BOOLEAN /\ s.state \in TagQuotes /\ s = [found |-> s.found, state |-> s.state]
  BY DEF GtStates
<1>2. "0" \notin Quotes /\ ">" \notin Quotes
  BY DEF Quotes
<1>3. CASE s.found
  BY <1>3 DEF GtStep
<1>4. CASE ~s.found /\ s.state # "0"
  <2>1. GtStep(s, c) = [s EXCEPT !.state = IF c = s.state THEN "0" ELSE s.state]
    BY <1>4 DEF GtStep
  <2> QED BY <1>1, <1>4, <2>1 DEF GtStates, TagQuotes, TagStep
<1>5. CASE ~s.found /\ s.state = "0" /\ c \in Quotes
  <2>1. GtStep(s, c) = [s EXCEPT !.state = c]
    BY <1>5 DEF GtStep
  <2>2. c # ">"
    BY <1>2, <1>5
  <2> QED BY <1>1, <1>5, <2>1, <2>2 DEF GtStates, TagQuotes, TagStep
<1>6. CASE ~s.found /\ s.state = "0" /\ c = ">"
  <2>1. GtStep(s, c) = [s EXCEPT !.found = TRUE]
    BY <1>2, <1>6 DEF GtStep
  <2> QED BY <1>1, <1>6, <2>1 DEF GtStates
<1>7. CASE ~s.found /\ s.state = "0" /\ c \notin Quotes /\ c # ">"
  <2>1. GtStep(s, c) = s
    BY <1>7 DEF GtStep
  <2> QED BY <1>1, <1>7, <2>1 DEF TagStep
<1> QED BY <1>3, <1>4, <1>5, <1>6, <1>7

IsGtRun(s, t, from, st) ==
  s = [i \in Nat |-> IF i = 0 THEN [found |-> FALSE, state |-> st]
                     ELSE GtStep(s[i - 1], t[from + i - 1])]

LEMMA GtRunExists ==
  ASSUME NEW t, NEW from, NEW st \in TagQuotes
  PROVE  \E s : IsGtRun(s, t, from, st)
<1> DEFINE F == [p \in Nat \X GtStates |-> GtStep(p[2], t[from + p[1] - 1])]
           a == [found |-> FALSE, state |-> st]
<1>1. \A n \in Nat, s \in GtStates : F[<<n, s>>] = GtStep(s, t[from + n - 1])
  OBVIOUS
<1>2. \A s \in GtStates : \A d : GtStep(s, d) \in GtStates
  BY GtStepIn
<1> HIDE DEF F
<1>3. ASSUME NEW n \in Nat, NEW s \in GtStates PROVE F[<<n + 1, s>>] \in GtStates
  <2>1. n + 1 \in Nat
    OBVIOUS
  <2>2. F[<<n + 1, s>>] = GtStep(s, t[from + (n + 1) - 1])
    BY <1>1, <2>1, Zenon
  <2> QED BY <1>2, <2>2
<1>4. a \in GtStates
  BY DEF GtStates
<1> HIDE DEF a
<1>5. PICK q : IsDefined(q, GtStates, a, F)
  BY <1>3, <1>4, TypedRecursion
<1>6. \A n \in Nat : n # 0 => F[<<n, q[n - 1]>>] = GtStep(q[n - 1], t[from + n - 1])
  <2> SUFFICES ASSUME NEW n \in Nat, n # 0
               PROVE  F[<<n, q[n - 1]>>] = GtStep(q[n - 1], t[from + n - 1])
    OBVIOUS
  <2>1. n - 1 \in Nat
    OBVIOUS
  <2>2. q[n - 1] \in GtStates
    BY <1>5, <2>1, Zenon DEF IsDefined
  <2> QED BY <1>1, <2>2, Zenon
<1>7. q = [n \in Nat |-> IF n = 0 THEN a ELSE F[<<n, q[n - 1]>>]]
  BY <1>5, Zenon DEF IsDefined
<1>8. q = [n \in Nat |-> IF n = 0 THEN a ELSE GtStep(q[n - 1], t[from + n - 1])]
  BY <1>6, <1>7, Zenon
<1>9. IsGtRun(q, t, from, st)
  BY <1>8, Zenon DEF IsGtRun, a
<1> QED BY <1>9

LEMMA GtScans ==
  ASSUME endCheckState \in TagQuotes
  PROVE  /\ GtScan(0) = [found |-> FALSE, state |-> endCheckState]
         /\ \A n \in Nat : /\ GtScan(n) \in GtStates
                            /\ GtScan(n + 1) = GtStep(GtScan(n), text[From(1) + (n + 1) - 1])
<1> DEFINE q == CHOOSE q : IsGtRun(q, text, From(1), endCheckState)
<1>1. IsGtRun(q, text, From(1), endCheckState)
  BY GtRunExists, Zenon
<1>2. \A n : GtScan(n) = q[n]
  BY Zenon DEF GtScan, IsGtRun
<1> HIDE DEF q
<1>3. /\ q[0] = [found |-> FALSE, state |-> endCheckState]
      /\ \A n \in Nat : q[n + 1] = GtStep(q[n], text[From(1) + (n + 1) - 1])
  <2>1. \A n \in Nat : n + 1 \in Nat /\ n + 1 # 0 /\ (n + 1) - 1 = n
    OBVIOUS
  <2>2. \A i \in Nat : q[i] = IF i = 0 THEN [found |-> FALSE, state |-> endCheckState]
                              ELSE GtStep(q[i - 1], text[From(1) + i - 1])
    BY <1>1, Zenon DEF IsGtRun
  <2>3. ASSUME NEW n \in Nat PROVE q[n + 1] = GtStep(q[n], text[From(1) + (n + 1) - 1])
    <3>1. q[n + 1] = GtStep(q[(n + 1) - 1], text[From(1) + (n + 1) - 1])
      BY <2>1, <2>2, Zenon
    <3> QED BY <2>1, <3>1, Zenon
  <2>4. 0 \in Nat
    OBVIOUS
  <2> QED BY <2>2, <2>3, <2>4, Zenon
<1> DEFINE P == {n \in Nat : q[n] \in GtStates}
<1>4. \A n \in Nat : n \in P
  <2>1. 0 \in P
    <3>1. [found |-> FALSE, state |-> endCheckState] \in GtStates
      BY DEF GtStates
    <3>2. q[0] \in GtStates
      BY <1>3, <3>1, Zenon
    <3> QED BY <3>2
  <2>2. ASSUME NEW n \in Nat, n \in P PROVE n + 1 \in P
    <3>1. q[n] \in GtStates
      BY <2>2
    <3>2. \A c : GtStep(q[n], c) \in GtStates
      BY <3>1, GtStepIn
    <3>3. q[n + 1] \in GtStates
      BY <1>3, <3>2, Zenon
    <3> QED BY <3>3
  <2> HIDE DEF P
  <2> QED BY <2>1, <2>2, Induct
<1> QED BY <1>2, <1>3, <1>4

(* After n characters: an end was met, or none and the quote is known.     *)
GtKnown(from, n) ==
  /\ GtScan(n).found =>
       \E i \in from..(from + n - 1) : text[i] = ">" /\ TQ(i - 1) = "0"
  /\ ~GtScan(n).found =>
       /\ GtScan(n).state = TQ(from + n - 1)
       /\ \A i \in from..(from + n - 1) : ~(text[i] = ">" /\ TQ(i - 1) = "0")

LEMMA GtLoop ==
  ASSUME LkInts, endCheckState \in TagQuotes, From(1) \in Nat, From(1) >= cur + 2,
         TQ(From(1) - 1) = endCheckState, NEW n \in Nat
  PROVE  GtKnown(From(1), n)
<1> DEFINE from == From(1)
<1>1. from \in Nat /\ from >= cur + 2 /\ cur \in Nat
  BY DEF LkInts
<1> HIDE DEF from
<1> DEFINE P == {m \in Nat : GtKnown(from, m)}
<1>2. 0 \in P
  <2>1. ~GtScan(0).found /\ GtScan(0).state = endCheckState
    BY GtScans
  <2>2. from + 0 - 1 = from - 1 /\ \A i \in from..(from + 0 - 1) : FALSE
    BY <1>1
  <2>3. GtScan(0).state = TQ(from + 0 - 1)
    BY <2>1, <2>2 DEF from
  <2>4. GtKnown(from, 0)
    BY <2>1, <2>2, <2>3 DEF GtKnown
  <2> QED BY <2>4
<1>3. ASSUME NEW m \in Nat, m \in P PROVE m + 1 \in P
  <2> DEFINE s == GtScan(m)
             u == GtScan(m + 1)
             p == from + m - 1
             c == text[p + 1]
  <2>1. s \in GtStates /\ u = GtStep(s, c)
    <3>1. GtScan(m) \in GtStates /\ GtScan(m + 1) = GtStep(GtScan(m), text[from + (m + 1) - 1])
      BY GtScans DEF from
    <3>2. from + (m + 1) - 1 = p + 1
      BY <1>1
    <3> QED BY <3>1, <3>2
  <2>2. GtKnown(from, m)
    BY <1>3
  <2>3. p \in Nat /\ p > cur /\ from + (m + 1) - 1 = p + 1 /\ (p + 1) - 1 = p
        /\ from..(p + 1) = from..p \cup {p + 1} /\ p + 1 \in from..(p + 1)
    BY <1>1
  <2>4. TQ(p + 1) = TagStep(TQ(p), c)
    BY <1>1, <2>3, TagPositions
  <2>5. CASE s.found
    <3>1. u.found
      BY <2>1, <2>5, GtStepIn
    <3>2. \E i \in from..(p + 1) : text[i] = ">" /\ TQ(i - 1) = "0"
      BY <2>2, <2>3, <2>5 DEF GtKnown
    <3> QED BY <2>3, <3>1, <3>2 DEF GtKnown
  <2>6. CASE ~s.found /\ s.state = "0" /\ c = ">"
    <3>1. u.found
      BY <2>1, <2>6, GtStepIn
    <3>2. TQ(p) = "0"
      BY <2>2, <2>6 DEF GtKnown
    <3>3. \E i \in from..(p + 1) : text[i] = ">" /\ TQ(i - 1) = "0"
      BY <2>3, <2>6, <3>2
    <3> QED BY <2>3, <3>1, <3>3 DEF GtKnown
  <2>7. CASE ~s.found /\ ~(s.state = "0" /\ c = ">")
    <3>1. ~u.found /\ u.state = TagStep(s.state, c)
      BY <2>1, <2>7, GtStepIn
    <3>2. s.state = TQ(p) /\ \A i \in from..p : ~(text[i] = ">" /\ TQ(i - 1) = "0")
      BY <2>2, <2>7 DEF GtKnown
    <3>3. u.state = TQ(p + 1)
      BY <2>4, <3>1, <3>2
    <3>4. \A i \in from..(p + 1) : ~(text[i] = ">" /\ TQ(i - 1) = "0")
      BY <2>3, <2>7, <3>2
    <3> QED BY <2>3, <3>1, <3>3, <3>4 DEF GtKnown
  <2> QED BY <2>5, <2>6, <2>7
<1> HIDE DEF P
<1>4. n \in P
  BY <1>2, <1>3, Induct
<1> QED BY <1>4 DEF P, from

LEMMA GtSearch ==
  ASSUME LkInts, Avail >= 2, endCheckState \in TagQuotes,
         checkIndex = 0 => endCheckState = "0",
         checkIndex # 0 => cur + checkIndex <= end /\ GtOk(cur + 1 + checkIndex, endCheckState)
  PROVE  LET r == xmlParseLookupGt
         IN  /\ Exact(r, TagEnds) /\ r.state \in TagQuotes
             /\ ~r.found => GtOk(cur + 1 + r.index, r.state)
<1> DEFINE from == From(1)
           n == end + 1 - from
           s == GtScan(n)
           r == xmlParseLookupGt
<1>1. from \in Nat /\ from >= cur + 2 /\ from <= end + 1 /\ n \in Nat /\ from + n - 1 = end
  BY DEF LkInts, From, Avail
<1>2. TQ(from - 1) = endCheckState /\ \A i \in (cur + 2)..(from - 1) : ~(text[i] = ">" /\ TQ(i - 1) = "0")
  <2>1. CASE checkIndex = 0
    <3>1. from - 1 = cur + 1 /\ \A i \in (cur + 2)..(from - 1) : FALSE
      BY <2>1 DEF From, LkInts
    <3>2. TQ(cur + 1) = "0"
      BY TagPositions DEF LkInts
    <3> QED BY <2>1, <3>1, <3>2
  <2>2. CASE checkIndex # 0
    BY <2>2 DEF GtOk, From
  <2> QED BY <2>1, <2>2
<1>3. \A i : i \in TagEnds <=> i \in (cur + 2)..Len(text) /\ text[i] = ">" /\ TQ(i - 1) = "0"
  <2>1. \A i \in Int : (i - 1) - cur - 1 = i - cur - 2
    BY DEF LkInts
  <2> QED BY <2>1 DEF TagEnds, TQ, LkInts
<1>4. GtKnown(from, n)
  BY <1>1, <1>2, GtLoop
<1>5. s \in GtStates
  BY <1>1, GtScans
<1> HIDE DEF from, n
<1>6. CASE s.found
  <2>1. r = Found("0")
    BY <1>6 DEF xmlParseLookupGt, n, from
  <2>2. PICK i \in from..end : text[i] = ">" /\ TQ(i - 1) = "0"
    BY <1>1, <1>4, <1>6 DEF GtKnown
  <2>3. i \in TagEnds /\ i <= end
    BY <1>1, <1>3, <2>2 DEF LkInts
  <2>4. r.found /\ r.state = "0"
    BY <2>1 DEF Found
  <2>5. Exact(r, TagEnds)
    <3> HIDE DEF r
    <3> QED BY <2>1, <2>3, FoundExact
  <2> QED BY <2>4, <2>5 DEF TagQuotes
<1>7. CASE ~s.found
  <2>1. r = NotFound(end + 1, s.state)
    BY <1>7 DEF xmlParseLookupGt, n, from
  <2>2. s.state = TQ(end) /\ \A i \in from..end : ~(text[i] = ">" /\ TQ(i - 1) = "0")
    BY <1>1, <1>4, <1>7 DEF GtKnown
  <2>3. \A i \in (cur + 2)..end : ~(text[i] = ">" /\ TQ(i - 1) = "0")
    BY <1>1, <1>2, <2>2 DEF LkInts
  <2>4. (end + 1) - 1 = end
    BY DEF LkInts
  <2>5. GtOk(end + 1, s.state)
    BY <2>2, <2>3, <2>4 DEF GtOk
  <2>6. ~\E i \in TagEnds : i <= end
    BY <1>3, <2>3 DEF LkInts
  <2>7. end + 1 \in Nat /\ end + 1 >= cur + 2 /\ end + 1 <= end + 1 /\ end + 1 - (end + 1) <= 3
    BY DEF LkInts, Avail
  <2>8. Exact(r, TagEnds) /\ r.state = s.state /\ cur + 1 + r.index = end + 1
    <3> HIDE DEF r, s
    <3> QED BY <2>1, <2>6, <2>7, NotFoundExact
  <2>9. s.state \in TagQuotes
    BY <1>5 DEF GtStates
  <2> QED BY <2>5, <2>8, <2>9
<1> QED BY <1>6, <1>7

-----------------------------------------------------------------------------
(* The internal subset: the iterations of the loop.                        *)
SsStates == [found : BOOLEAN, pos : Nat, start : Nat, state : SsNames]

LEMMA SsFields ==
  ASSUME NEW f, NEW p, NEW b, NEW st
  PROVE  /\ Scan(f, p, b, st).found = f /\ Scan(f, p, b, st).pos = p
         /\ Scan(f, p, b, st).start = b /\ Scan(f, p, b, st).state = st
BY DEF Scan

LEMMA SsOf ==
  ASSUME NEW s \in SsStates
  PROVE  /\ s = Scan(s.found, s.pos, s.start, s.state)
         /\ s.found \in BOOLEAN /\ s.pos \in Nat /\ s.start \in Nat /\ s.state \in SsNames
BY DEF SsStates, Scan

LEMMA SsIn ==
  ASSUME NEW f \in BOOLEAN, NEW p \in Nat, NEW b \in Nat, NEW st \in SsNames
  PROVE  Scan(f, p, b, st) \in SsStates
BY DEF SsStates, Scan

LEMMA SsDone ==
  ASSUME NEW s, s.found \/ s.pos > end
  PROVE  SubsetStep(s) = s
BY DEF SubsetStep

(* An iteration in a comment, after brackets, in a quote and elsewhere.    *)
LEMMA SsComment ==
  ASSUME NEW p, NEW b, ~(p > end)
  PROVE  SubsetStep(Scan(FALSE, p, b, "-")) =
           IF MatchAt(p, <<"-", "-", ">">>) THEN Scan(FALSE, p + 3, p + 3, "0")
           ELSE Scan(FALSE, p + 1, b, "-")
<1>1. "-" \notin {"]", "sp"} /\ "-" \notin Quotes
  BY DEF Quotes
<1> QED BY <1>1 DEF SubsetStep, Scan

LEMMA SsBracket ==
  ASSUME NEW p, NEW b, NEW st \in {"]", "sp"}, ~(p > end)
  PROVE  SubsetStep(Scan(FALSE, p, b, st)) =
           IF At(p) = ">" THEN Scan(TRUE, p, b, st)
           ELSE IF At(p) = "sp" THEN Scan(FALSE, p + 1, b, "sp")
           ELSE IF At(p) = "]" /\ st = "]" THEN Scan(FALSE, p + 1, b, "]")
           ELSE Scan(FALSE, p, p, "0")
<1>1. st # "-" /\ st \notin Quotes
  BY DEF Quotes
<1> QED BY <1>1 DEF SubsetStep, Scan

LEMMA SsQuote ==
  ASSUME NEW p, NEW b, NEW st \in Quotes, ~(p > end)
  PROVE  SubsetStep(Scan(FALSE, p, b, st)) =
           IF At(p) = st THEN Scan(FALSE, p + 1, p + 1, "0") ELSE Scan(FALSE, p + 1, b, st)
<1>1. st \in Quotes /\ st # "-" /\ st \notin {"]", "sp"}
  BY DEF Quotes
<1> QED BY <1>1 DEF SubsetStep, Scan

LEMMA SsElse ==
  ASSUME NEW p, NEW b, ~(p > end)
  PROVE  SubsetStep(Scan(FALSE, p, b, "0")) =
           IF MatchAt(p, <<"<", "!", "-", "-">>) THEN Scan(FALSE, p + 4, p + 4, "-")
           ELSE Scan(FALSE, p + 1, b, IF At(p) \in Quotes \cup {"]"} THEN At(p) ELSE "0")
<1>1. "0" \notin Quotes /\ "0" \notin {"]", "sp"} /\ "0" # "-"
  BY DEF Quotes
<1> QED BY <1>1 DEF SubsetStep, Scan

LEMMA SsStepIn ==
  ASSUME NEW s \in SsStates
  PROVE  SubsetStep(s) \in SsStates
<1> DEFINE p == s.pos
           b == s.start
           st == s.state
<1>1. s = Scan(s.found, p, b, st) /\ p \in Nat /\ b \in Nat /\ st \in SsNames /\ s.found \in BOOLEAN
  BY SsOf
<1>2. \A st2 \in SsNames : /\ Scan(FALSE, p + 1, b, st2) \in SsStates
                            /\ Scan(FALSE, p, p, st2) \in SsStates
                            /\ Scan(TRUE, p, b, st2) \in SsStates
                            /\ Scan(FALSE, p + 1, p + 1, st2) \in SsStates
                            /\ Scan(FALSE, p + 3, p + 3, st2) \in SsStates
                            /\ Scan(FALSE, p + 4, p + 4, st2) \in SsStates
  <2>1. p + 1 \in Nat /\ p + 3 \in Nat /\ p + 4 \in Nat
    BY <1>1
  <2> QED BY <1>1, <2>1, SsIn
<1>3. CASE s.found \/ s.pos > end
  BY <1>3, SsDone
<1>4. ASSUME ~s.found, ~(s.pos > end) PROVE SubsetStep(s) \in SsStates
  <2> HIDE DEF p, b, st
  <2>1. s = Scan(FALSE, p, b, st) /\ ~(p > end)
    BY <1>1, <1>4 DEF p
  <2>2. "0" \in SsNames /\ "-" \in SsNames /\ "]" \in SsNames /\ "sp" \in SsNames
        /\ \A c \in Quotes : c \in SsNames
    BY DEF SsNames
  <2>3. CASE st = "-"
    BY <1>2, <2>1, <2>2, <2>3, SsComment
  <2>4. CASE st \in {"]", "sp"}
    BY <1>2, <1>1, <2>1, <2>2, <2>4, SsBracket
  <2>5. CASE st \in Quotes
    <3>1. SubsetStep(s) = IF At(p) = st THEN Scan(FALSE, p + 1, p + 1, "0") ELSE Scan(FALSE, p + 1, b, st)
      BY <2>1, <2>5, SsQuote
    <3>2. Scan(FALSE, p + 1, p + 1, "0") \in SsStates /\ Scan(FALSE, p + 1, b, st) \in SsStates
      BY <1>2, <2>2, <2>5
    <3> QED BY <3>1, <3>2
  <2>6. CASE st = "0"
    <3>1. (IF At(p) \in Quotes \cup {"]"} THEN At(p) ELSE "0") \in SsNames
      BY <2>2
    <3> QED BY <1>2, <2>1, <2>2, <2>6, <3>1, SsElse
  <2> QED BY <1>1, <2>3, <2>4, <2>5, <2>6 DEF SsNames
<1> QED BY <1>1, <1>3, <1>4

IsSsRun(s, a) == s = [i \in Nat |-> IF i = 0 THEN a ELSE SubsetStep(s[i - 1])]

LEMMA SsRunExists ==
  ASSUME NEW a \in SsStates
  PROVE  \E s : IsSsRun(s, a)
<1> DEFINE F == [p \in Nat \X SsStates |-> SubsetStep(p[2])]
<1>1. \A n \in Nat, s \in SsStates : F[<<n, s>>] = SubsetStep(s)
  OBVIOUS
<1> HIDE DEF F
<1>2. ASSUME NEW n \in Nat, NEW s \in SsStates PROVE F[<<n + 1, s>>] \in SsStates
  <2>1. n + 1 \in Nat
    OBVIOUS
  <2>2. F[<<n + 1, s>>] = SubsetStep(s)
    BY <1>1, <2>1, Zenon
  <2> QED BY <2>2, SsStepIn
<1>3. PICK q : IsDefined(q, SsStates, a, F)
  BY <1>2, TypedRecursion
<1>4. \A n \in Nat : n # 0 => F[<<n, q[n - 1]>>] = SubsetStep(q[n - 1])
  <2> SUFFICES ASSUME NEW n \in Nat, n # 0
               PROVE  F[<<n, q[n - 1]>>] = SubsetStep(q[n - 1])
    OBVIOUS
  <2>1. n - 1 \in Nat
    OBVIOUS
  <2>2. q[n - 1] \in SsStates
    BY <1>3, <2>1, Zenon DEF IsDefined
  <2> QED BY <1>1, <2>2, Zenon
<1>5. q = [n \in Nat |-> IF n = 0 THEN a ELSE F[<<n, q[n - 1]>>]]
  BY <1>3, Zenon DEF IsDefined
<1>6. q = [n \in Nat |-> IF n = 0 THEN a ELSE SubsetStep(q[n - 1])]
  BY <1>4, <1>5, Zenon
<1>7. IsSsRun(q, a)
  BY <1>6, Zenon DEF IsSsRun
<1> QED BY <1>7

SsFirst == Scan(FALSE, From(1), From(1), endCheckState)
SsRun == CHOOSE q : IsSsRun(q, SsFirst)

LEMMA SsRuns ==
  ASSUME SsFirst \in SsStates
  PROVE  /\ SubsetScan = SsRun[2 * Avail]
         /\ SsRun[0] = SsFirst
         /\ \A n \in Nat : SsRun[n] \in SsStates /\ SsRun[n + 1] = SubsetStep(SsRun[n])
<1>1. IsSsRun(SsRun, SsFirst)
  BY SsRunExists, Zenon DEF SsRun
<1>2. SubsetScan = SsRun[2 * Avail]
  BY Zenon DEF SubsetScan, SsRun, IsSsRun, SsFirst
<1> DEFINE q == SsRun
<1> HIDE DEF q
<1>3. q[0] = SsFirst /\ \A n \in Nat : q[n + 1] = SubsetStep(q[n])
  <2>1. \A n \in Nat : n + 1 \in Nat /\ n + 1 # 0 /\ (n + 1) - 1 = n
    OBVIOUS
  <2>2. \A i \in Nat : q[i] = IF i = 0 THEN SsFirst ELSE SubsetStep(q[i - 1])
    BY <1>1, Zenon DEF IsSsRun, q
  <2>3. ASSUME NEW n \in Nat PROVE q[n + 1] = SubsetStep(q[n])
    <3>1. q[n + 1] = SubsetStep(q[(n + 1) - 1])
      BY <2>1, <2>2, Zenon
    <3> QED BY <2>1, <3>1, Zenon
  <2>4. 0 \in Nat
    OBVIOUS
  <2> QED BY <2>2, <2>3, <2>4, Zenon
<1> DEFINE P == {n \in Nat : q[n] \in SsStates}
<1>4. \A n \in Nat : n \in P
  <2>1. 0 \in P
    BY <1>3
  <2>2. ASSUME NEW n \in Nat, n \in P PROVE n + 1 \in P
    <3>1. q[n] \in SsStates
      BY <2>2
    <3>2. SubsetStep(q[n]) \in SsStates
      BY <3>1, SsStepIn
    <3>3. q[n + 1] \in SsStates
      BY <1>3, <3>2, Zenon
    <3> QED BY <3>3
  <2> HIDE DEF P
  <2> QED BY <2>1, <2>2, Induct
<1>5. \A n \in Nat : q[n] \in SsStates
  BY <1>4
<1> QED BY <1>2, <1>3, <1>5, Zenon DEF q

-----------------------------------------------------------------------------
(* The automaton, state by state.                                          *)
Fresh(c) == IF c \in Quotes \cup {"<", "]"} THEN c ELSE "0"

LEMMA ScanTable ==
  ASSUME NEW c
  PROVE  /\ ScanNext("0", c) = Fresh(c)
         /\ ScanNext("<", c) = IF c = "!" THEN "<!" ELSE Fresh(c)
         /\ ScanNext("<!", c) = IF c = "-" THEN "<!-" ELSE Fresh(c)
         /\ ScanNext("<!-", c) = IF c = "-" THEN "<!--" ELSE Fresh(c)
         /\ ScanNext("<!--", c) = IF c = "-" THEN "<!--.-" ELSE "<!--.."
         /\ ScanNext("<!--..", c) = IF c = "-" THEN "<!--.-" ELSE "<!--.."
         /\ ScanNext("<!--.-", c) = IF c = "-" THEN "<!--.--" ELSE "<!--.."
         /\ ScanNext("<!--.--", c) =
              IF c = ">" THEN "0" ELSE IF c = "-" THEN "<!--.--" ELSE "<!--.."
<1>1. ScanNext("0", c) = Fresh(c)
  BY DEF ScanNext, Fresh, Quotes
<1>2. ScanNext("<", c) = IF c = "!" THEN "<!" ELSE Fresh(c)
  BY DEF ScanNext, Fresh, Quotes
<1>3. ScanNext("<!", c) = IF c = "-" THEN "<!-" ELSE Fresh(c)
  BY DEF ScanNext, Fresh, Quotes
<1>4. ScanNext("<!-", c) = IF c = "-" THEN "<!--" ELSE Fresh(c)
  BY DEF ScanNext, Fresh, Quotes
<1>5. ScanNext("<!--", c) = IF c = "-" THEN "<!--.-" ELSE "<!--.."
  BY DEF ScanNext, Quotes
<1>6. ScanNext("<!--..", c) = IF c = "-" THEN "<!--.-" ELSE "<!--.."
  BY DEF ScanNext, Quotes
<1>7. ScanNext("<!--.-", c) = IF c = "-" THEN "<!--.--" ELSE "<!--.."
  BY DEF ScanNext, Quotes
<1>8. ScanNext("<!--.--", c) =
        IF c = ">" THEN "0" ELSE IF c = "-" THEN "<!--.--" ELSE "<!--.."
  BY DEF ScanNext, Quotes
<1> QED BY <1>1, <1>2, <1>3, <1>4, <1>5, <1>6, <1>7, <1>8

LEMMA BracketTable ==
  ASSUME NEW c
  PROVE  /\ \A q \in Quotes : ScanNext(q, c) = IF c = q THEN "0" ELSE q
         /\ \A q \in {"]", "]sp"} : ScanNext(q, c) =
              IF c = ">" THEN "]>" ELSE IF c = "sp" THEN "]sp" ELSE Fresh(c)
<1>1. ASSUME NEW q \in Quotes PROVE ScanNext(q, c) = IF c = q THEN "0" ELSE q
  BY DEF ScanNext, Quotes
<1>2. ScanNext("]", c) = IF c = ">" THEN "]>" ELSE IF c = "sp" THEN "]sp" ELSE Fresh(c)
  BY DEF ScanNext, Fresh, Quotes
<1>3. ScanNext("]sp", c) = IF c = ">" THEN "]>" ELSE IF c = "sp" THEN "]sp" ELSE Fresh(c)
  BY DEF ScanNext, Fresh, Quotes
<1> QED BY <1>1, <1>2, <1>3

LEMMA FreshIs ==
  ASSUME NEW c
  PROVE  /\ Fresh(c) # "]>"
         /\ c \in Quotes \cup {"]"} => Fresh(c) = c
         /\ c \notin Quotes \cup {"]"} => Fresh(c) = IF c = "<" THEN "<" ELSE "0"
BY DEF Fresh, Quotes

(* The comparisons with the buffer, character by character.                *)
LEMMA MatchChars ==
  ASSUME LkInts, NEW p \in Nat
  PROVE  /\ \A a : MatchAt(p, <<a>>) <=> At(p) = a
         /\ \A a, b : MatchAt(p, <<a, b>>) <=> At(p) = a /\ At(p + 1) = b
         /\ \A a, b, c : MatchAt(p, <<a, b, c>>) <=> At(p) = a /\ At(p + 1) = b /\ At(p + 2) = c
         /\ \A a, b, c, d : MatchAt(p, <<a, b, c, d>>) <=>
              At(p) = a /\ At(p + 1) = b /\ At(p + 2) = c /\ At(p + 3) = d
<1>0. p + 1 - 1 = p /\ p + 2 - 1 = p + 1 /\ p + 3 - 1 = p + 2 /\ p + 4 - 1 = p + 3
  OBVIOUS
<1>1. ASSUME NEW a PROVE MatchAt(p, <<a>>) <=> At(p) = a
  <2>1. Len(<<a>>) = 1 /\ 1..1 = {1} /\ <<a>>[1] = a
    OBVIOUS
  <2>2. MatchAt(p, <<a>>) <=> \A k \in {1} : At(p + k - 1) = <<a>>[k]
    BY <2>1, Zenon DEF MatchAt
  <2> QED BY <1>0, <2>1, <2>2, Zenon
<1>2. ASSUME NEW a, NEW b PROVE MatchAt(p, <<a, b>>) <=> At(p) = a /\ At(p + 1) = b
  <2> DEFINE t == <<a, b>>
  <2>1. Len(t) = 2 /\ 1..2 = {1, 2} /\ t[1] = a /\ t[2] = b
    OBVIOUS
  <2> HIDE DEF t
  <2>2. MatchAt(p, t) <=> \A k \in {1, 2} : At(p + k - 1) = t[k]
    BY <2>1, Zenon DEF MatchAt
  <2>3. MatchAt(p, t) <=> At(p + 1 - 1) = a /\ At(p + 2 - 1) = b
    BY <2>1, <2>2, Zenon
  <2> QED BY <1>0, <2>3, Zenon DEF t
<1>3. ASSUME NEW a, NEW b, NEW c
      PROVE  MatchAt(p, <<a, b, c>>) <=> At(p) = a /\ At(p + 1) = b /\ At(p + 2) = c
  <2> DEFINE t == <<a, b, c>>
  <2>1. Len(t) = 3 /\ 1..3 = {1, 2, 3} /\ t[1] = a /\ t[2] = b /\ t[3] = c
    OBVIOUS
  <2> HIDE DEF t
  <2>2. MatchAt(p, t) <=> \A k \in {1, 2, 3} : At(p + k - 1) = t[k]
    BY <2>1, Zenon DEF MatchAt
  <2>3. MatchAt(p, t) <=> At(p + 1 - 1) = a /\ At(p + 2 - 1) = b /\ At(p + 3 - 1) = c
    BY <2>1, <2>2, Zenon
  <2> QED BY <1>0, <2>3, Zenon DEF t
<1>4. ASSUME NEW a, NEW b, NEW c, NEW d
      PROVE  MatchAt(p, <<a, b, c, d>>) <=>
               At(p) = a /\ At(p + 1) = b /\ At(p + 2) = c /\ At(p + 3) = d
  <2> DEFINE t == <<a, b, c, d>>
  <2>1. Len(t) = 4 /\ 1..4 = {1, 2, 3, 4} /\ t[1] = a /\ t[2] = b /\ t[3] = c /\ t[4] = d
    OBVIOUS
  <2> HIDE DEF t
  <2>2. MatchAt(p, t) <=> \A k \in {1, 2, 3, 4} : At(p + k - 1) = t[k]
    BY <2>1, Zenon DEF MatchAt
  <2>3. MatchAt(p, t) <=> /\ At(p + 1 - 1) = a /\ At(p + 2 - 1) = b
                          /\ At(p + 3 - 1) = c /\ At(p + 4 - 1) = d
    BY <2>1, <2>2, Zenon
  <2> QED BY <1>0, <2>3, Zenon DEF t
<1> QED BY <1>1, <1>2, <1>3, <1>4, Zenon

(* The next state, from the next character of the buffer.                  *)
LEMMA NextState ==
  ASSUME LkInts, NEW p \in Nat, p >= cur + 2, At(p) # "NUL" \/ p <= end
  PROVE  p <= end /\ At(p) = text[p] /\ SQ(p) = ScanNext(SQ(p - 1), At(p))
<1>1. p <= end /\ At(p) = text[p]
  BY DEF At
<1>2. p - 1 \in Nat /\ p - 1 > cur /\ (p - 1) + 1 = p
  BY DEF LkInts
<1>3. SQ((p - 1) + 1) = ScanNext(SQ(p - 1), text[(p - 1) + 1])
  BY <1>2, ScanPositions DEF LkInts
<1> QED BY <1>1, <1>2, <1>3

(* Outside and Inside as far as the buffer tells.                          *)
BufOutside(p) ==
  \/ SQ(p - 1) = "0"
  \/ SQ(p - 1) \in {"]", "]sp"} /\ At(p) \notin {">", "sp"}
  \/ SQ(p - 1) = "<" /\ ~(At(p) = "!" /\ At(p + 1) = "-" /\ At(p + 2) = "-")
  \/ SQ(p - 1) = "<!" /\ ~(At(p) = "-" /\ At(p + 1) = "-")
  \/ SQ(p - 1) = "<!-" /\ At(p) # "-"

BufInside(p) ==
  \/ SQ(p - 1) \in {"<!--", "<!--.."}
  \/ SQ(p - 1) = "<!--.-" /\ ~(At(p) = "-" /\ At(p + 1) = ">")
  \/ SQ(p - 1) = "<!--.--" /\ At(p) # ">" /\ ~(At(p) = "-" /\ At(p + 1) = ">")

LEMMA OutsideStep ==
  ASSUME LkInts, NEW p \in Nat, p >= cur + 2, p <= end, BufOutside(p),
         ~MatchAt(p, <<"<", "!", "-", "-">>)
  PROVE  /\ SQ(p) # "]>"
         /\ At(p) \in Quotes \cup {"]"} => SQ(p) = At(p)
         /\ At(p) \notin Quotes \cup {"]"} => BufOutside(p + 1)
<1> DEFINE c == At(p)
           d == At(p + 1)
           e == At(p + 2)
<1>1. SQ(p) = ScanNext(SQ(p - 1), c)
  BY NextState
<1>2. ~(c = "<" /\ d = "!" /\ e = "-" /\ At(p + 3) = "-")
  BY MatchChars
<1>3. (p + 1) - 1 = p /\ (p + 1) + 1 = p + 2 /\ (p + 1) + 2 = p + 3
  OBVIOUS
<1> HIDE DEF c, d, e
<1>4. \/ SQ(p) = Fresh(c)
      \/ SQ(p) = "<!" /\ c = "!" /\ ~(d = "-" /\ e = "-")
      \/ SQ(p) = "<!-" /\ c = "-" /\ d # "-"
  <2>1. CASE SQ(p - 1) = "0"
    BY <1>1, <2>1, ScanTable
  <2>2. CASE SQ(p - 1) \in {"]", "]sp"} /\ c \notin {">", "sp"}
    BY <1>1, <2>2, BracketTable
  <2>3. CASE SQ(p - 1) = "<" /\ ~(c = "!" /\ d = "-" /\ e = "-")
    BY <1>1, <2>3, ScanTable
  <2>4. CASE SQ(p - 1) = "<!" /\ ~(c = "-" /\ d = "-")
    BY <1>1, <2>4, ScanTable
  <2>5. CASE SQ(p - 1) = "<!-" /\ c # "-"
    BY <1>1, <2>5, ScanTable
  <2> QED BY <2>1, <2>2, <2>3, <2>4, <2>5 DEF BufOutside, c, d, e
<1>5. "!" \notin Quotes \cup {"]"} /\ "-" \notin Quotes \cup {"]"}
  BY DEF Quotes
<1>6. CASE SQ(p) = Fresh(c)
  <2>1. SQ(p) # "]>" /\ (c \in Quotes \cup {"]"} => SQ(p) = c)
    BY <1>6, FreshIs
  <2>2. ASSUME c \notin Quotes \cup {"]"} PROVE BufOutside(p + 1)
    <3>1. SQ(p) = IF c = "<" THEN "<" ELSE "0"
      BY <1>6, <2>2, FreshIs
    <3> QED BY <1>2, <1>3, <3>1 DEF BufOutside, d, e
  <2> QED BY <2>1, <2>2 DEF c
<1>7. CASE SQ(p) = "<!" /\ c = "!" /\ ~(d = "-" /\ e = "-")
  <2>1. BufOutside(p + 1)
    BY <1>3, <1>7 DEF BufOutside, d, e
  <2> QED BY <1>5, <1>7, <2>1 DEF c
<1>8. CASE SQ(p) = "<!-" /\ c = "-" /\ d # "-"
  <2>1. BufOutside(p + 1)
    BY <1>3, <1>8 DEF BufOutside, d
  <2> QED BY <1>5, <1>8, <2>1 DEF c
<1> QED BY <1>4, <1>6, <1>7, <1>8

LEMMA OutsideComment ==
  ASSUME LkInts, NEW p \in Nat, p >= cur + 2, BufOutside(p), MatchAt(p, <<"<", "!", "-", "-">>)
  PROVE  /\ p + 3 <= end
         /\ SQ(p) = "<" /\ SQ(p + 1) = "<!" /\ SQ(p + 2) = "<!-" /\ SQ(p + 3) = "<!--"
<1>1. At(p) = "<" /\ At(p + 1) = "!" /\ At(p + 2) = "-" /\ At(p + 3) = "-"
  BY MatchChars
<1>2. /\ p + 1 \in Nat /\ p + 2 \in Nat /\ p + 3 \in Nat
      /\ p + 1 >= cur + 2 /\ p + 2 >= cur + 2 /\ p + 3 >= cur + 2
      /\ (p + 1) - 1 = p /\ (p + 2) - 1 = p + 1 /\ (p + 3) - 1 = p + 2
  BY DEF LkInts
<1>3. SQ(p) = ScanNext(SQ(p - 1), "<")
  BY <1>1, NextState
<1>4. SQ(p + 1) = ScanNext(SQ(p), "!")
  BY <1>1, <1>2, NextState
<1>5. SQ(p + 2) = ScanNext(SQ(p + 1), "-")
  BY <1>1, <1>2, NextState
<1>6. SQ(p + 3) = ScanNext(SQ(p + 2), "-") /\ p + 3 <= end
  BY <1>1, <1>2, NextState
<1>7. SQ(p) = "<"
  <2>1. Fresh("<") = "<"
    BY DEF Fresh
  <2>2. SQ(p - 1) \in {"0", "<", "<!", "<!-"} => SQ(p) = "<"
    BY <1>3, <2>1, ScanTable
  <2>3. SQ(p - 1) \in {"]", "]sp"} => SQ(p) = "<"
    BY <1>3, <2>1, BracketTable
  <2> QED BY <2>2, <2>3 DEF BufOutside
<1>8. SQ(p + 1) = "<!"
  BY <1>4, <1>7, ScanTable
<1>9. SQ(p + 2) = "<!-"
  BY <1>5, <1>8, ScanTable
<1>10. SQ(p + 3) = "<!--"
  BY <1>6, <1>9, ScanTable
<1> QED BY <1>6, <1>7, <1>8, <1>9, <1>10

LEMMA InsideStep ==
  ASSUME LkInts, NEW p \in Nat, p >= cur + 2, p <= end, BufInside(p),
         ~MatchAt(p, <<"-", "-", ">">>)
  PROVE  SQ(p) # "]>" /\ BufInside(p + 1)
<1> DEFINE c == At(p)
           d == At(p + 1)
           e == At(p + 2)
<1>1. SQ(p) = ScanNext(SQ(p - 1), c)
  BY NextState
<1>2. ~(c = "-" /\ d = "-" /\ e = ">")
  BY MatchChars
<1>3. (p + 1) - 1 = p /\ (p + 1) + 1 = p + 2
  OBVIOUS
<1> HIDE DEF c, d, e
<1>4. \/ SQ(p) = "<!--.."
      \/ SQ(p) = "<!--.-" /\ c = "-"
      \/ SQ(p) = "<!--.--" /\ c = "-" /\ d # ">"
  <2>0. /\ ScanNext("<!--", c) = IF c = "-" THEN "<!--.-" ELSE "<!--.."
        /\ ScanNext("<!--..", c) = IF c = "-" THEN "<!--.-" ELSE "<!--.."
        /\ ScanNext("<!--.-", c) = IF c = "-" THEN "<!--.--" ELSE "<!--.."
        /\ ScanNext("<!--.--", c) =
             IF c = ">" THEN "0" ELSE IF c = "-" THEN "<!--.--" ELSE "<!--.."
    BY ScanTable, Zenon
  <2>1. CASE SQ(p - 1) \in {"<!--", "<!--.."}
    BY <1>1, <2>0, <2>1
  <2>2. CASE SQ(p - 1) = "<!--.-" /\ ~(c = "-" /\ d = ">")
    BY <1>1, <2>0, <2>2
  <2>3. CASE SQ(p - 1) = "<!--.--" /\ c # ">" /\ ~(c = "-" /\ d = ">")
    BY <1>1, <2>0, <2>3
  <2> QED BY <2>1, <2>2, <2>3 DEF BufInside, c, d
<1>5. SQ(p) # "]>"
  BY <1>4
<1>6. BufInside(p + 1)
  BY <1>2, <1>3, <1>4 DEF BufInside, d, e
<1> QED BY <1>5, <1>6

LEMMA InsideEnd ==
  ASSUME LkInts, NEW p \in Nat, p >= cur + 2, BufInside(p), MatchAt(p, <<"-", "-", ">">>)
  PROVE  p + 2 <= end /\ SQ(p) # "]>" /\ SQ(p + 1) # "]>" /\ SQ(p + 2) = "0"
<1>1. At(p) = "-" /\ At(p + 1) = "-" /\ At(p + 2) = ">"
  BY MatchChars
<1>2. /\ p + 1 \in Nat /\ p + 2 \in Nat /\ p + 1 >= cur + 2 /\ p + 2 >= cur + 2
      /\ (p + 1) - 1 = p /\ (p + 2) - 1 = p + 1
  BY DEF LkInts
<1>3. SQ(p) = ScanNext(SQ(p - 1), "-")
  BY <1>1, NextState
<1>4. SQ(p + 1) = ScanNext(SQ(p), "-")
  BY <1>1, <1>2, NextState
<1>5. SQ(p + 2) = ScanNext(SQ(p + 1), ">") /\ p + 2 <= end
  BY <1>1, <1>2, NextState
<1>6. SQ(p) \in {"<!--.-", "<!--.--"}
  BY <1>3, ScanTable DEF BufInside
<1>7. SQ(p + 1) = "<!--.--"
  BY <1>4, <1>6, ScanTable
<1>8. SQ(p + 2) = "0"
  BY <1>5, <1>7, ScanTable
<1> QED BY <1>5, <1>6, <1>7, <1>8

(* What an iteration knows, and how many iterations are left at most.      *)
SsBounds(p, b) ==
  /\ p \in Nat /\ b \in Nat
  /\ cur + 2 <= b /\ b <= p /\ p <= end + 1

NoEnd(p) == \A i \in (cur + 1)..(p - 1) : SQ(i) # "]>"

SsState(p, b, st) ==
  /\ st = "0" => Outside(b) /\ \A i \in b..p : BufOutside(i)
  /\ st = "-" => Inside(b) /\ \A i \in b..p : BufInside(i)
  /\ st \in Quotes \cup {"]"} => SQ(p - 1) = st
  /\ st = "sp" => SQ(p - 1) = "]sp"

SsKnown(s) ==
  /\ SsBounds(s.pos, s.start) /\ NoEnd(s.pos)
  /\ s.found => s.pos <= end /\ SQ(s.pos) = "]>"
  /\ ~s.found => SsState(s.pos, s.start, s.state)

Left(p, st) == 2 * (end + 1 - p) + (IF st \in {"]", "sp"} THEN 1 ELSE 0)

LEMMA NoEndNext ==
  ASSUME LkInts, NEW p \in Nat, p >= cur + 1, NoEnd(p), SQ(p) # "]>"
  PROVE  NoEnd(p + 1)
<1>1. \A i \in (cur + 1)..((p + 1) - 1) : i = p \/ i \in (cur + 1)..(p - 1)
  BY DEF LkInts
<1> QED BY <1>1 DEF NoEnd

(* The iteration at p leads to t.                                          *)
SsBetter(t, p, st) == SsKnown(t) /\ (t.found \/ Left(t.pos, t.state) < Left(p, st))

LEMMA ScanBetter ==
  ASSUME NEW p, NEW b, NEW st, SsBounds(p, b), NoEnd(p), SsState(p, b, st),
         NEW p0, NEW st0, Left(p, st) < Left(p0, st0)
  PROVE  SsBetter(Scan(FALSE, p, b, st), p0, st0)
<1> DEFINE t == Scan(FALSE, p, b, st)
<1>1. t.found = FALSE /\ t.pos = p /\ t.start = b /\ t.state = st
  BY DEF Scan
<1> HIDE DEF t
<1>2. SsKnown(t)
  BY <1>1, Zenon DEF SsKnown
<1> QED BY <1>1, <1>2, Zenon DEF SsBetter, t

LEMMA LeftLess ==
  ASSUME LkInts, NEW p \in Nat, NEW st, NEW st2, NEW n \in Nat, n >= 1, p <= end
  PROVE  /\ Left(p + n, st2) < Left(p, st)
         /\ st \in {"]", "sp"} /\ st2 \notin {"]", "sp"} => Left(p, st2) < Left(p, st)
<1>1. DEFINE x == IF st \in {"]", "sp"} THEN 1 ELSE 0
             y == IF st2 \in {"]", "sp"} THEN 1 ELSE 0
<1>2. x \in {0, 1} /\ y \in {0, 1} /\ (st \in {"]", "sp"} /\ st2 \notin {"]", "sp"} => x = 1 /\ y = 0)
  OBVIOUS
<1>3. Left(p + n, st2) = 2 * (end + 1 - (p + n)) + y /\ Left(p, st) = 2 * (end + 1 - p) + x
      /\ Left(p, st2) = 2 * (end + 1 - p) + y
  BY DEF Left
<1> HIDE DEF x, y
<1> QED BY <1>2, <1>3 DEF LkInts

LEMMA SsOutsideStep ==
  ASSUME LkInts, NEW p, NEW b, SsBounds(p, b), p <= end, NoEnd(p), SsState(p, b, "0")
  PROVE  SsBetter(SubsetStep(Scan(FALSE, p, b, "0")), p, "0")
<1> DEFINE c == At(p)
           st2 == IF c \in Quotes \cup {"]"} THEN c ELSE "0"
<1>1. /\ p \in Nat /\ b \in Nat /\ cur \in Nat /\ end \in Nat
      /\ cur + 2 <= b /\ b <= p /\ p >= cur + 2 /\ p >= cur + 1 /\ ~(p > end)
  BY DEF SsBounds, LkInts
<1>2. BufOutside(p) /\ Outside(b) /\ \A i \in b..p : BufOutside(i)
  <2>1. p \in b..p
    BY <1>1
  <2> QED BY <2>1 DEF SsState
<1>3. CASE MatchAt(p, <<"<", "!", "-", "-">>)
  <2>1. /\ p + 3 <= end
        /\ SQ(p) = "<" /\ SQ(p + 1) = "<!" /\ SQ(p + 2) = "<!-" /\ SQ(p + 3) = "<!--"
    BY <1>1, <1>2, <1>3, OutsideComment
  <2>2. NoEnd(p + 4)
    <3>1. \A i \in (cur + 1)..((p + 4) - 1) :
            i = p \/ i = p + 1 \/ i = p + 2 \/ i = p + 3 \/ i \in (cur + 1)..(p - 1)
      BY <1>1
    <3> QED BY <2>1, <3>1 DEF NoEnd
  <2>3. SsBounds(p + 4, p + 4) /\ (p + 4) - 1 = p + 3 /\ (p + 4)..(p + 4) = {p + 4}
    BY <1>1, <2>1 DEF SsBounds
  <2>4. SsState(p + 4, p + 4, "-")
    <3>1. Inside(p + 4) /\ BufInside(p + 4)
      BY <2>1, <2>3 DEF Inside, BufInside
    <3>2. "-" \notin Quotes \cup {"]"}
      BY DEF Quotes
    <3> QED BY <2>3, <3>1, <3>2 DEF SsState
  <2>5. SubsetStep(Scan(FALSE, p, b, "0")) = Scan(FALSE, p + 4, p + 4, "-")
    BY <1>1, <1>3, SsElse, Zenon
  <2>6. Left(p + 4, "-") < Left(p, "0")
    BY <1>1, LeftLess
  <2> QED BY <2>2, <2>3, <2>4, <2>5, <2>6, ScanBetter, Zenon
<1>4. CASE ~MatchAt(p, <<"<", "!", "-", "-">>)
  <2>1. /\ SQ(p) # "]>"
        /\ c \in Quotes \cup {"]"} => SQ(p) = c
        /\ c \notin Quotes \cup {"]"} => BufOutside(p + 1)
    BY <1>1, <1>2, <1>4, OutsideStep
  <2>2. NoEnd(p + 1)
    BY <1>1, <2>1, NoEndNext
  <2>3. SsBounds(p + 1, b) /\ (p + 1) - 1 = p /\ \A i \in b..(p + 1) : i = p + 1 \/ i \in b..p
    BY <1>1 DEF SsBounds
  <2>4. SubsetStep(Scan(FALSE, p, b, "0")) = Scan(FALSE, p + 1, b, st2)
    BY <1>1, <1>4, SsElse, Zenon
  <2>5. SsState(p + 1, b, st2)
    <3>1. "0" \notin Quotes \cup {"]"} /\ "-" \notin Quotes \cup {"]"} /\ "sp" \notin Quotes \cup {"]"}
      BY DEF Quotes
    <3> HIDE DEF c
    <3>2. CASE c \in Quotes \cup {"]"}
      <4>1. st2 = c /\ SQ((p + 1) - 1) = c /\ c # "0" /\ c # "-" /\ c # "sp"
        BY <2>1, <2>3, <3>1, <3>2
      <4> HIDE DEF st2
      <4> QED BY <4>1 DEF SsState
    <3>3. CASE c \notin Quotes \cup {"]"}
      <4>1. st2 = "0"
        BY <3>3
      <4>2. \A i \in b..(p + 1) : BufOutside(i)
        BY <1>2, <2>1, <2>3, <3>3
      <4> HIDE DEF st2
      <4> QED BY <1>2, <3>1, <4>1, <4>2 DEF SsState
    <3> QED BY <3>2, <3>3
  <2> HIDE DEF st2
  <2>6. Left(p + 1, st2) < Left(p, "0")
    BY <1>1, LeftLess
  <2> QED BY <2>2, <2>3, <2>5, <2>4, <2>6, ScanBetter, Zenon
<1> QED BY <1>3, <1>4

LEMMA SsInsideStep ==
  ASSUME LkInts, NEW p, NEW b, SsBounds(p, b), p <= end, NoEnd(p), SsState(p, b, "-")
  PROVE  SsBetter(SubsetStep(Scan(FALSE, p, b, "-")), p, "-")
<1>1. /\ p \in Nat /\ b \in Nat /\ cur \in Nat /\ end \in Nat
      /\ cur + 2 <= b /\ b <= p /\ p >= cur + 2 /\ p >= cur + 1 /\ ~(p > end)
  BY DEF SsBounds, LkInts
<1>2. BufInside(p) /\ Inside(b) /\ \A i \in b..p : BufInside(i)
  <2>1. p \in b..p
    BY <1>1
  <2> QED BY <2>1 DEF SsState
<1>3. CASE MatchAt(p, <<"-", "-", ">">>)
  <2>1. p + 2 <= end /\ SQ(p) # "]>" /\ SQ(p + 1) # "]>" /\ SQ(p + 2) = "0"
    BY <1>1, <1>2, <1>3, InsideEnd
  <2>2. NoEnd(p + 3)
    <3>1. \A i \in (cur + 1)..((p + 3) - 1) :
            i = p \/ i = p + 1 \/ i = p + 2 \/ i \in (cur + 1)..(p - 1)
      BY <1>1
    <3> QED BY <2>1, <3>1 DEF NoEnd
  <2>3. SsBounds(p + 3, p + 3) /\ (p + 3) - 1 = p + 2 /\ (p + 3)..(p + 3) = {p + 3}
    BY <1>1, <2>1 DEF SsBounds
  <2>4. SsState(p + 3, p + 3, "0")
    <3>1. Outside(p + 3) /\ BufOutside(p + 3)
      BY <2>1, <2>3 DEF Outside, BufOutside
    <3>2. "0" \notin Quotes \cup {"]"}
      BY DEF Quotes
    <3> QED BY <2>3, <3>1, <3>2 DEF SsState
  <2>5. SubsetStep(Scan(FALSE, p, b, "-")) = Scan(FALSE, p + 3, p + 3, "0")
    BY <1>1, <1>3, SsComment, Zenon
  <2>6. Left(p + 3, "0") < Left(p, "-")
    BY <1>1, LeftLess
  <2> QED BY <2>2, <2>3, <2>4, <2>5, <2>6, ScanBetter, Zenon
<1>4. CASE ~MatchAt(p, <<"-", "-", ">">>)
  <2>1. SQ(p) # "]>" /\ BufInside(p + 1)
    BY <1>1, <1>2, <1>4, InsideStep
  <2>2. NoEnd(p + 1)
    BY <1>1, <2>1, NoEndNext
  <2>3. SsBounds(p + 1, b) /\ \A i \in b..(p + 1) : i = p + 1 \/ i \in b..p
    BY <1>1 DEF SsBounds
  <2>4. SsState(p + 1, b, "-")
    <3>1. "-" \notin Quotes \cup {"]"}
      BY DEF Quotes
    <3>2. \A i \in b..(p + 1) : BufInside(i)
      BY <1>2, <2>1, <2>3
    <3> QED BY <1>2, <3>1, <3>2 DEF SsState
  <2>5. SubsetStep(Scan(FALSE, p, b, "-")) = Scan(FALSE, p + 1, b, "-")
    BY <1>1, <1>4, SsComment, Zenon
  <2>6. Left(p + 1, "-") < Left(p, "-")
    BY <1>1, LeftLess
  <2> QED BY <2>2, <2>3, <2>4, <2>5, <2>6, ScanBetter, Zenon
<1> QED BY <1>3, <1>4

LEMMA SsQuoteStep ==
  ASSUME LkInts, NEW p, NEW b, NEW st \in Quotes, SsBounds(p, b), p <= end, NoEnd(p),
         SsState(p, b, st)
  PROVE  SsBetter(SubsetStep(Scan(FALSE, p, b, st)), p, st)
<1>1. /\ p \in Nat /\ b \in Nat /\ cur \in Nat /\ end \in Nat
      /\ cur + 2 <= b /\ b <= p /\ p >= cur + 2 /\ p >= cur + 1 /\ ~(p > end)
  BY DEF SsBounds, LkInts
<1>2. SQ(p - 1) = st /\ st # "0" /\ st # "-" /\ st # "sp" /\ st # "]>"
  BY DEF SsState, Quotes
<1>3. SQ(p) = IF At(p) = st THEN "0" ELSE st
  <2>1. SQ(p) = ScanNext(st, At(p))
    BY <1>1, <1>2, NextState
  <2> QED BY <2>1, BracketTable
<1>4. NoEnd(p + 1)
  BY <1>1, <1>2, <1>3, NoEndNext
<1>5. (p + 1) - 1 = p /\ SsBounds(p + 1, b) /\ SsBounds(p + 1, p + 1) /\ (p + 1)..(p + 1) = {p + 1}
  BY <1>1 DEF SsBounds
<1>6. \A st2 : Left(p + 1, st2) < Left(p, st)
  BY <1>1, LeftLess
<1>7. CASE At(p) = st
  <2>1. SsState(p + 1, p + 1, "0")
    <3>1. Outside(p + 1) /\ BufOutside(p + 1)
      BY <1>3, <1>5, <1>7 DEF Outside, BufOutside
    <3>2. "0" \notin Quotes \cup {"]"}
      BY DEF Quotes
    <3> QED BY <1>5, <3>1, <3>2 DEF SsState
  <2>2. SubsetStep(Scan(FALSE, p, b, st)) = Scan(FALSE, p + 1, p + 1, "0")
    BY <1>1, <1>7, SsQuote, Zenon
  <2> QED BY <1>4, <1>5, <1>6, <2>1, <2>2, ScanBetter, Zenon
<1>8. CASE At(p) # st
  <2>1. SsState(p + 1, b, st)
    BY <1>2, <1>3, <1>5, <1>8 DEF SsState
  <2>2. SubsetStep(Scan(FALSE, p, b, st)) = Scan(FALSE, p + 1, b, st)
    BY <1>1, <1>8, SsQuote, Zenon
  <2> QED BY <1>4, <1>5, <1>6, <2>1, <2>2, ScanBetter, Zenon
<1> QED BY <1>7, <1>8

LEMMA SsBracketStep ==
  ASSUME LkInts, NEW p, NEW b, NEW st \in {"]", "sp"}, SsBounds(p, b), p <= end, NoEnd(p),
         SsState(p, b, st)
  PROVE  SsBetter(SubsetStep(Scan(FALSE, p, b, st)), p, st)
<1>1. /\ p \in Nat /\ b \in Nat /\ cur \in Nat /\ end \in Nat
      /\ cur + 2 <= b /\ b <= p /\ p >= cur + 2 /\ p >= cur + 1 /\ ~(p > end)
  BY DEF SsBounds, LkInts
<1>2. SQ(p - 1) = (IF st = "]" THEN "]" ELSE "]sp")
  BY DEF SsState
<1>3. SQ(p) = IF At(p) = ">" THEN "]>" ELSE IF At(p) = "sp" THEN "]sp" ELSE Fresh(At(p))
  <2>1. SQ(p) = ScanNext(SQ(p - 1), At(p))
    BY <1>1, NextState
  <2>2. SQ(p - 1) \in {"]", "]sp"}
    BY <1>2
  <2> QED BY <2>1, <2>2, BracketTable
<1>4. (p + 1) - 1 = p /\ SsBounds(p + 1, b) /\ SsBounds(p, p) /\ p..p = {p}
  BY <1>1 DEF SsBounds
<1>5. \A st2 : Left(p + 1, st2) < Left(p, st)
  BY <1>1, LeftLess
<1>6. "]" \notin Quotes /\ "sp" \notin Quotes \cup {"]"} /\ "0" \notin Quotes \cup {"]"}
  BY DEF Quotes
<1>7. CASE At(p) = ">"
  <2> DEFINE t == Scan(TRUE, p, b, st)
  <2>1. t.found = TRUE /\ t.pos = p /\ t.start = b /\ t.state = st
    BY DEF Scan
  <2>2. SubsetStep(Scan(FALSE, p, b, st)) = t
    BY <1>1, <1>7, SsBracket, Zenon
  <2> HIDE DEF t
  <2>3. SQ(p) = "]>"
    BY <1>3, <1>7
  <2>4. SsKnown(t)
    BY <2>1, <2>3, Zenon DEF SsKnown
  <2> QED BY <2>1, <2>2, <2>4, Zenon DEF SsBetter
<1>8. CASE At(p) # ">" /\ At(p) = "sp"
  <2>1. SQ(p) = "]sp"
    BY <1>3, <1>8
  <2>2. SsState(p + 1, b, "sp")
    BY <1>4, <1>6, <2>1 DEF SsState
  <2>3. NoEnd(p + 1)
    BY <1>1, <2>1, NoEndNext
  <2>4. SubsetStep(Scan(FALSE, p, b, st)) = Scan(FALSE, p + 1, b, "sp")
    BY <1>1, <1>8, SsBracket, Zenon
  <2> QED BY <1>4, <1>5, <2>2, <2>3, <2>4, ScanBetter, Zenon
<1>9. CASE At(p) # ">" /\ At(p) # "sp" /\ At(p) = "]" /\ st = "]"
  <2>1. SQ(p) = "]"
    BY <1>3, <1>9, FreshIs
  <2>2. SsState(p + 1, b, "]")
    BY <1>4, <1>6, <2>1 DEF SsState
  <2>3. NoEnd(p + 1)
    BY <1>1, <2>1, NoEndNext
  <2>4. SubsetStep(Scan(FALSE, p, b, st)) = Scan(FALSE, p + 1, b, "]")
    BY <1>1, <1>9, SsBracket, Zenon
  <2> QED BY <1>4, <1>5, <2>2, <2>3, <2>4, ScanBetter, Zenon
<1>10. CASE At(p) # ">" /\ At(p) # "sp" /\ ~(At(p) = "]" /\ st = "]")
  <2>1. Outside(p) /\ BufOutside(p)
    <3>1. At(p) = text[p]
      BY <1>1, NextState
    <3> QED BY <1>2, <1>10, <3>1 DEF Outside, BufOutside
  <2>2. SsState(p, p, "0")
    BY <1>4, <1>6, <2>1 DEF SsState
  <2>3. Left(p, "0") < Left(p, st)
    <3>1. "0" \notin {"]", "sp"} /\ 1 \in Nat /\ 1 >= 1
      OBVIOUS
    <3> QED BY <1>1, <3>1, LeftLess
  <2>4. SubsetStep(Scan(FALSE, p, b, st)) = Scan(FALSE, p, p, "0")
    BY <1>1, <1>10, SsBracket, Zenon
  <2> QED BY <1>4, <2>2, <2>3, <2>4, ScanBetter, Zenon
<1> QED BY <1>7, <1>8, <1>9, <1>10

(* One iteration.                                                          *)
LEMMA SsIteration ==
  ASSUME LkInts, NEW s \in SsStates, SsKnown(s), ~s.found, s.pos <= end
  PROVE  SsBetter(SubsetStep(s), s.pos, s.state)
<1> DEFINE p == s.pos
           b == s.start
           st == s.state
<1>1. s = Scan(s.found, p, b, st) /\ s.found \in BOOLEAN /\ st \in SsNames
  BY SsOf
<1>2. s = Scan(FALSE, p, b, st)
  BY <1>1
<1>3. SsBounds(p, b) /\ NoEnd(p) /\ SsState(p, b, st) /\ p <= end
  BY Zenon DEF SsKnown
<1> HIDE DEF p, b, st
<1>4. SsBetter(SubsetStep(Scan(FALSE, p, b, st)), p, st)
  <2>1. CASE st = "0"
    BY <1>3, <2>1, SsOutsideStep
  <2>2. CASE st = "-"
    BY <1>3, <2>2, SsInsideStep
  <2>3. CASE st \in Quotes
    BY <1>3, <2>3, SsQuoteStep
  <2>4. CASE st \in {"]", "sp"}
    BY <1>3, <2>4, SsBracketStep
  <2> QED BY <1>1, <2>1, <2>2, <2>3, <2>4 DEF SsNames
<1> QED BY <1>2, <1>4, Zenon DEF p, st

(* After n iterations the loop has ended or come n steps nearer to it.     *)
SsAfter(s, n, k) == SsKnown(s) /\ (s.found \/ s.pos > end \/ Left(s.pos, s.state) + n <= k)

LEMMA SsLoop ==
  ASSUME LkInts, SsFirst \in SsStates, SsKnown(SsFirst), NEW n \in Nat
  PROVE  SsAfter(SsRun[n], n, Left(SsFirst.pos, SsFirst.state))
<1> DEFINE k == Left(SsFirst.pos, SsFirst.state)
           P == {m \in Nat : SsAfter(SsRun[m], m, k)}
<1>1. \A q \in SsStates : Left(q.pos, q.state) \in Int
  <2> SUFFICES ASSUME NEW q \in SsStates PROVE Left(q.pos, q.state) \in Int
    OBVIOUS
  <2>1. q.pos \in Nat
    BY SsOf
  <2>2. (IF q.state \in {"]", "sp"} THEN 1 ELSE 0) \in Int
    OBVIOUS
  <2>3. \A x, y \in Int : 2 * (end + 1 - x) + y \in Int
    BY DEF LkInts
  <2>4. q.pos \in Int
    BY <2>1
  <2> QED BY <2>2, <2>3, <2>4, Zenon DEF Left
<1>2. k \in Int
  BY <1>1
<1> HIDE DEF k
<1>3. 0 \in P
  <2>1. SsRun[0] = SsFirst
    BY SsRuns
  <2>2. Left(SsFirst.pos, SsFirst.state) + 0 <= k
    BY <1>2 DEF k
  <2>3. SsAfter(SsRun[0], 0, k)
    BY <2>1, <2>2, Zenon DEF SsAfter
  <2> QED BY <2>3
<1>4. ASSUME NEW m \in Nat, m \in P PROVE m + 1 \in P
  <2> DEFINE s == SsRun[m]
             t == SsRun[m + 1]
  <2>1. s \in SsStates /\ t = SubsetStep(s) /\ t \in SsStates
    <3>1. m + 1 \in Nat
      OBVIOUS
    <3> QED BY <3>1, SsRuns
  <2>2. SsAfter(s, m, k)
    BY <1>4
  <2>3. Left(s.pos, s.state) \in Int /\ Left(t.pos, t.state) \in Int
    BY <1>1, <2>1
  <2> HIDE DEF s, t
  <2>4. CASE s.found \/ s.pos > end
    <3>1. t = s
      BY <2>1, <2>4, SsDone
    <3>2. SsAfter(t, m + 1, k)
      BY <2>2, <2>4, <3>1, Zenon DEF SsAfter
    <3> QED BY <3>2 DEF t
  <2>5. CASE ~s.found /\ ~(s.pos > end)
    <3>1. s.pos \in Nat /\ s.pos <= end
      BY <2>1, <2>5, SsOf DEF LkInts
    <3>2. SsKnown(s) /\ Left(s.pos, s.state) + m <= k
      BY <2>2, <2>5, Zenon DEF SsAfter
    <3>3. SsBetter(t, s.pos, s.state)
      BY <2>1, <2>5, <3>1, <3>2, SsIteration
    <3>4. SsKnown(t) /\ (t.found \/ Left(t.pos, t.state) < Left(s.pos, s.state))
      BY <3>3, Zenon DEF SsBetter
    <3>5. Left(t.pos, t.state) < Left(s.pos, s.state) => Left(t.pos, t.state) + (m + 1) <= k
      BY <1>2, <2>3, <3>2
    <3>6. SsAfter(t, m + 1, k)
      BY <3>4, <3>5, Zenon DEF SsAfter
    <3> QED BY <3>6 DEF t
  <2> QED BY <2>4, <2>5
<1> HIDE DEF P
<1>5. n \in P
  BY <1>3, <1>4, Induct
<1> QED BY <1>5 DEF P, k

(* Three characters before the end of the buffer, what it tells holds of   *)
(* the text.                                                               *)
LEMMA OccursChars ==
  ASSUME LkInts, NEW p \in Nat, p >= 1
  PROVE  /\ \A a : Occurs(p, <<a>>) <=> p <= Len(text) /\ text[p] = a
         /\ \A a, b : Occurs(p, <<a, b>>) <=>
              p + 1 <= Len(text) /\ text[p] = a /\ text[p + 1] = b
         /\ \A a, b, c : Occurs(p, <<a, b, c>>) <=>
              p + 2 <= Len(text) /\ text[p] = a /\ text[p + 1] = b /\ text[p + 2] = c
<1>0. p + 1 - 1 = p /\ p + 2 - 1 = p + 1 /\ p + 3 - 1 = p + 2
  OBVIOUS
<1>1. ASSUME NEW a PROVE Occurs(p, <<a>>) <=> p <= Len(text) /\ text[p] = a
  <2> DEFINE t == <<a>>
  <2>1. Len(t) = 1 /\ 1..1 = {1} /\ t[1] = a
    OBVIOUS
  <2> HIDE DEF t
  <2>2. Occurs(p, t) <=> p + 1 - 1 <= Len(text) /\ \A k \in {1} : text[p + k - 1] = t[k]
    BY <2>1, Zenon DEF Occurs
  <2> QED BY <1>0, <2>1, <2>2, Zenon DEF t
<1>2. ASSUME NEW a, NEW b
      PROVE  Occurs(p, <<a, b>>) <=> p + 1 <= Len(text) /\ text[p] = a /\ text[p + 1] = b
  <2> DEFINE t == <<a, b>>
  <2>1. Len(t) = 2 /\ 1..2 = {1, 2} /\ t[1] = a /\ t[2] = b
    OBVIOUS
  <2> HIDE DEF t
  <2>2. Occurs(p, t) <=> p + 2 - 1 <= Len(text) /\ \A k \in {1, 2} : text[p + k - 1] = t[k]
    BY <2>1, Zenon DEF Occurs
  <2>3. Occurs(p, t) <=> p + 2 - 1 <= Len(text) /\ text[p + 1 - 1] = a /\ text[p + 2 - 1] = b
    BY <2>1, <2>2, Zenon
  <2> QED BY <1>0, <2>3, Zenon DEF t
<1>3. ASSUME NEW a, NEW b, NEW c
      PROVE  Occurs(p, <<a, b, c>>) <=>
               p + 2 <= Len(text) /\ text[p] = a /\ text[p + 1] = b /\ text[p + 2] = c
  <2> DEFINE t == <<a, b, c>>
  <2>1. Len(t) = 3 /\ 1..3 = {1, 2, 3} /\ t[1] = a /\ t[2] = b /\ t[3] = c
    OBVIOUS
  <2> HIDE DEF t
  <2>2. Occurs(p, t) <=> p + 3 - 1 <= Len(text) /\ \A k \in {1, 2, 3} : text[p + k - 1] = t[k]
    BY <2>1, Zenon DEF Occurs
  <2>3. Occurs(p, t) <=> /\ p + 3 - 1 <= Len(text)
                         /\ text[p + 1 - 1] = a /\ text[p + 2 - 1] = b /\ text[p + 3 - 1] = c
    BY <2>1, <2>2, Zenon
  <2> QED BY <1>0, <2>3, Zenon DEF t
<1> QED BY <1>1, <1>2, <1>3, Zenon

LEMMA BufferTells ==
  ASSUME LkInts, NEW p \in Nat, p >= cur + 2
  PROVE  /\ Outside(p) => BufOutside(p)
         /\ Inside(p) => BufInside(p)
         /\ p + 2 <= end /\ BufOutside(p) => Outside(p)
         /\ p + 2 <= end /\ BufInside(p) => Inside(p)
<1> DEFINE o1 == Occurs(p, <<">">>)
           o2 == Occurs(p, <<"-", ">">>)
           o3 == Occurs(p, <<"-">>)
           o4 == Occurs(p, <<"-", "-">>)
           o5 == Occurs(p, <<"!", "-", "-">>)
<1>1. /\ \A a : a # "NUL" /\ At(p) = a => p <= Len(text) /\ text[p] = a
      /\ \A a : a # "NUL" /\ At(p + 1) = a => p + 1 <= Len(text) /\ text[p + 1] = a
      /\ \A a : a # "NUL" /\ At(p + 2) = a => p + 2 <= Len(text) /\ text[p + 2] = a
  BY DEF At, LkInts
<1>2. /\ p + 2 <= end => At(p) = text[p] /\ At(p + 1) = text[p + 1] /\ At(p + 2) = text[p + 2]
      /\ p + 2 <= end => p <= Len(text)
  BY DEF At, LkInts
<1>3. /\ At(p) = ">" => o1
      /\ At(p) = "-" /\ At(p + 1) = ">" => o2
      /\ At(p) = "-" => o3
      /\ At(p) = "-" /\ At(p + 1) = "-" => o4
      /\ At(p) = "!" /\ At(p + 1) = "-" /\ At(p + 2) = "-" => o5
  <2>1. p >= 1
    BY DEF LkInts
  <2> QED BY <1>1, <2>1, OccursChars
<1>4. p + 2 <= end =>
        /\ o1 => At(p) = ">"
        /\ o2 => At(p) = "-" /\ At(p + 1) = ">"
        /\ o3 => At(p) = "-"
        /\ o4 => At(p) = "-" /\ At(p + 1) = "-"
        /\ o5 => At(p) = "!" /\ At(p + 1) = "-" /\ At(p + 2) = "-"
  <2>1. p >= 1
    BY DEF LkInts
  <2> QED BY <1>2, <2>1, OccursChars
<1>5. (p <= Len(text) => text[p] \notin {">", "sp"}) => At(p) \notin {">", "sp"}
  BY <1>1
<1>6. p + 2 <= end /\ At(p) \notin {">", "sp"} => text[p] \notin {">", "sp"}
  BY <1>2
<1>7. /\ Outside(p) <=>
           \/ SQ(p - 1) = "0"
           \/ SQ(p - 1) \in {"]", "]sp"} /\ (p <= Len(text) => text[p] \notin {">", "sp"})
           \/ SQ(p - 1) = "<" /\ ~o5
           \/ SQ(p - 1) = "<!" /\ ~o4
           \/ SQ(p - 1) = "<!-" /\ ~o3
      /\ Inside(p) <=>
           \/ SQ(p - 1) \in {"<!--", "<!--.."}
           \/ SQ(p - 1) = "<!--.-" /\ ~o2
           \/ SQ(p - 1) = "<!--.--" /\ ~o1 /\ ~o2
  BY DEF Outside, Inside
<1> HIDE DEF o1, o2, o3, o4, o5
<1> QED BY <1>3, <1>4, <1>5, <1>6, <1>7 DEF BufOutside, BufInside

LEMMA SsStart ==
  ASSUME LkInts, Avail >= 1, endCheckState \in SsNames,
         checkIndex = 0 => endCheckState = "0",
         checkIndex # 0 => cur + checkIndex <= end /\ SubsetOk(cur + 1 + checkIndex, endCheckState)
  PROVE  /\ SsFirst \in SsStates /\ SsKnown(SsFirst)
         /\ Left(SsFirst.pos, SsFirst.state) < 2 * Avail
<1> DEFINE from == From(1)
           st == endCheckState
<1>1. from \in Nat /\ from >= cur + 2 /\ from <= end + 1 /\ cur \in Nat /\ end \in Nat
  BY DEF LkInts, From, Avail
<1>2. SubsetOk(from, st)
  <2>1. CASE checkIndex = 0
    <3>1. from - 1 = cur + 1 /\ \A i \in (cur + 1)..(from - 1) : i = cur + 1
      BY <2>1 DEF From, LkInts
    <3>2. SQ(cur + 1) = "0"
      BY ScanPositions DEF LkInts
    <3>3. st = "0" /\ "0" \notin Quotes \cup {"]"}
      BY <2>1 DEF Quotes
    <3>4. Outside(from)
      BY <3>1, <3>2 DEF Outside
    <3> HIDE DEF from
    <3> QED BY <3>1, <3>2, <3>3, <3>4 DEF SubsetOk
  <2>2. CASE checkIndex # 0
    BY <2>2 DEF From
  <2> QED BY <2>1, <2>2
<1>3. SsFirst = Scan(FALSE, from, from, st)
  BY DEF SsFirst
<1> HIDE DEF from, st
<1>4. SsFirst.found = FALSE /\ SsFirst.pos = from /\ SsFirst.start = from /\ SsFirst.state = st
  BY <1>3 DEF Scan
<1>5. SsFirst \in SsStates
  BY <1>1, <1>3, SsIn DEF st
<1>6. SsBounds(from, from) /\ from..from = {from}
  BY <1>1 DEF SsBounds
<1>7. SsState(from, from, st) /\ NoEnd(from)
  <2>1. (Outside(from) => BufOutside(from)) /\ (Inside(from) => BufInside(from))
    BY <1>1, BufferTells
  <2> QED BY <1>2, <1>6, <2>1 DEF SubsetOk, SsState, NoEnd
<1>8. SsKnown(SsFirst)
  BY <1>4, <1>6, <1>7, Zenon DEF SsKnown
<1>9. Left(from, st) < 2 * Avail
  <2> DEFINE x == IF st \in {"]", "sp"} THEN 1 ELSE 0
  <2>1. x \in {0, 1} /\ Left(from, st) = 2 * (end + 1 - from) + x
    BY DEF Left
  <2> HIDE DEF x
  <2> QED BY <1>1, <2>1 DEF Avail
<1> QED BY <1>4, <1>5, <1>8, <1>9

LEMMA SubsetSearch ==
  ASSUME LkInts, Avail >= 1, endCheckState \in SsNames,
         checkIndex = 0 => endCheckState = "0",
         checkIndex # 0 => cur + checkIndex <= end /\ SubsetOk(cur + 1 + checkIndex, endCheckState)
  PROVE  LET r == xmlParseLookupInternalSubset
         IN  /\ Exact(r, ScanEnds) /\ r.state \in SsNames
             /\ ~r.found => SubsetOk(cur + 1 + r.index, r.state)
<1> DEFINE s == SubsetScan
           r == xmlParseLookupInternalSubset
           p == s.pos
           b == s.start
           st == s.state
           ends == ScanEnds
<1>1. cur \in Nat /\ end \in Nat /\ end <= Len(text) /\ Len(text) \in Nat /\ Avail = end - cur
  BY DEF LkInts, Avail
<1>2. s \in SsStates /\ SsKnown(s) /\ (s.found \/ p > end)
  <2> DEFINE n == 2 * Avail
             k == Left(SsFirst.pos, SsFirst.state)
  <2>1. n \in Nat
    BY <1>1
  <2>2. SsFirst \in SsStates /\ SsKnown(SsFirst) /\ k < n
    BY SsStart
  <2>3. s = SsRun[n] /\ s \in SsStates
    BY <2>1, <2>2, SsRuns
  <2>4. SsAfter(SsRun[n], n, k)
    BY <2>1, <2>2, SsLoop
  <2>5. k \in Int
    <3>1. SsFirst.pos \in Nat
      BY <2>2, SsOf
    <3> DEFINE x == IF SsFirst.state \in {"]", "sp"} THEN 1 ELSE 0
    <3>2. x \in {0, 1} /\ k = 2 * (end + 1 - SsFirst.pos) + x
      BY DEF Left
    <3> HIDE DEF x, k
    <3> QED BY <1>1, <3>1, <3>2
  <2> HIDE DEF s, n, k
  <2>6. SsKnown(s) /\ (s.found \/ s.pos > end \/ Left(s.pos, s.state) + n <= k)
    BY <2>3, <2>4, Zenon DEF SsAfter
  <2>7. ~(Left(s.pos, s.state) + n <= k)
    <3>1. s.pos \in Nat /\ s.pos <= end + 1
      BY <2>6 DEF SsKnown, SsBounds
    <3> DEFINE x == IF s.state \in {"]", "sp"} THEN 1 ELSE 0
    <3>2. x \in {0, 1} /\ Left(s.pos, s.state) = 2 * (end + 1 - s.pos) + x
      BY DEF Left
    <3> HIDE DEF x
    <3>3. Left(s.pos, s.state) \in Int /\ Left(s.pos, s.state) >= 0
      BY <1>1, <3>1, <3>2
    <3> QED BY <2>1, <2>2, <2>5, <3>3
  <2> QED BY <2>3, <2>6, <2>7
<1>3. \A i : i \in ends <=> i \in (cur + 2)..Len(text) /\ SQ(i) = "]>"
  BY DEF ScanEnds, SQ
<1>4. s.found \in BOOLEAN /\ p \in Nat /\ b \in Nat /\ st \in SsNames
  BY <1>2, SsOf
<1>5. SsBounds(p, b) /\ NoEnd(p)
  BY <1>2, Zenon DEF SsKnown
<1>6. cur + 2 <= b /\ b <= p /\ p <= end + 1
  BY <1>5 DEF SsBounds
<1>7. CASE s.found
  <2>1. r = Found("0")
    BY <1>7 DEF xmlParseLookupInternalSubset
  <2>2. p <= end /\ SQ(p) = "]>"
    BY <1>2, <1>7, Zenon DEF SsKnown
  <2> HIDE DEF p
  <2>3. p \in ends /\ p <= end
    <3>1. p \in (cur + 2)..Len(text)
      BY <1>1, <1>4, <1>6, <2>2
    <3> HIDE DEF ends
    <3> QED BY <1>3, <2>2, <3>1
  <2>4. r.found /\ r.state = "0"
    BY <2>1 DEF Found
  <2>5. Exact(r, ends)
    <3> HIDE DEF r, ends
    <3> QED BY <2>1, <2>3, FoundExact
  <2> QED BY <2>4, <2>5 DEF SsNames
<1>8. CASE ~s.found
  <2> DEFINE back == IF p - b < 3 THEN b ELSE p - 3
             q == IF st \in {"0", "-"} THEN back ELSE p
  <2>1. r = NotFound(q, st)
    BY <1>8 DEF xmlParseLookupInternalSubset
  <2>2. SsState(p, b, st) /\ p = end + 1
    <3>1. SsState(p, b, st)
      BY <1>2, <1>8, Zenon DEF SsKnown
    <3>2. p > end
      BY <1>2, <1>8
    <3> HIDE DEF p
    <3> QED BY <1>1, <1>4, <1>6, <3>1, <3>2
  <2> HIDE DEF s, p, b, st
  <2>3. back \in Nat /\ back >= cur + 2 /\ back <= p /\ p - back <= 3
        /\ (back # b => back \in b..p /\ back + 2 <= end)
    BY <1>1, <1>4, <1>6, <2>2
  <2> HIDE DEF back
  <2>4. q \in Nat /\ q >= cur + 2 /\ q <= end + 1 /\ end + 1 - q <= 3
    BY <1>1, <1>4, <1>6, <2>2, <2>3
  <2>5. st = "0" => Outside(back)
    <3>1. back # b /\ BufOutside(back) => Outside(back)
      BY <2>3, BufferTells
    <3> QED BY <2>2, <2>3, <3>1 DEF SsState
  <2>6. st = "-" => Inside(back)
    <3>1. back # b /\ BufInside(back) => Inside(back)
      BY <2>3, BufferTells
    <3> QED BY <2>2, <2>3, <3>1 DEF SsState
  <2>7. \A i \in (cur + 1)..(q - 1) : SQ(i) # "]>"
    <3>1. \A i \in (cur + 1)..(q - 1) : i \in (cur + 1)..(p - 1)
      BY <1>1, <2>2, <2>4
    <3> QED BY <1>5, <3>1 DEF NoEnd
  <2>8. SubsetOk(q, st)
    <3>1. "0" \notin Quotes \cup {"]"} /\ "-" \notin Quotes \cup {"]"}
      BY DEF Quotes
    <3>2. (st = "0" \/ st = "-") => q = back
      OBVIOUS
    <3>3. st # "0" /\ st # "-" => q = p
      OBVIOUS
    <3> HIDE DEF q
    <3>4. CASE st = "0"
      BY <2>5, <2>7, <3>1, <3>2, <3>4 DEF SubsetOk
    <3>5. CASE st = "-"
      BY <2>6, <2>7, <3>1, <3>2, <3>5 DEF SubsetOk
    <3>6. CASE st # "0" /\ st # "-"
      BY <2>2, <2>7, <3>3, <3>6 DEF SubsetOk, SsState
    <3> QED BY <3>4, <3>5, <3>6
  <2>9. ~\E i \in ends : i <= end
    <3> SUFFICES ASSUME NEW i \in ends, i <= end PROVE FALSE
      OBVIOUS
    <3>1. i \in (cur + 2)..Len(text) /\ SQ(i) = "]>"
      BY <1>3
    <3>2. i \in (cur + 1)..(p - 1)
      BY <1>1, <2>2, <3>1
    <3> QED BY <1>5, <3>1, <3>2 DEF NoEnd
  <2> HIDE DEF q
  <2>10. Exact(r, ends) /\ r.state = st /\ cur + 1 + r.index = q
    <3> HIDE DEF r, ends
    <3> QED BY <2>1, <2>4, <2>9, NotFoundExact
  <2> QED BY <1>4, <2>8, <2>10
<1> QED BY <1>4, <1>7, <1>8

-----------------------------------------------------------------------------
(* The search for the construct at the cursor.                             *)
SearchExact ==
  /\ Exact(Search, SeenEnds) /\ Search.state \in SsNames
  /\ ~Search.found => Knows(Kind, cur + 1 + Search.index, Search.state)

LEMMA SearchIsExact ==
  ASSUME LkInts, endCheckState \in SsNames, Recognised, Resumed
  PROVE  SearchExact
<1>1. /\ Kind \in {"subset", "ref", "etag", "pi", "comment", "cdata", "stag", "text"}
      /\ Avail >= 1
      /\ Kind = "pi" => Avail >= 2
      /\ Kind = "comment" => Avail >= 4
      /\ Kind = "cdata" => Avail >= 3
      /\ Kind \in {"stag", "etag"} => Avail >= 2
  BY KindIs
<1>2. /\ checkIndex = 0 => endCheckState = "0"
      /\ checkIndex # 0 => cur + checkIndex <= end /\ Knows(Kind, cur + 1 + checkIndex, endCheckState)
  BY DEF Resumed
<1>3. "0" \in SsNames /\ TagQuotes \subseteq SsNames
  BY DEF SsNames, TagQuotes
<1>4. "0" \in TagQuotes
  BY DEF TagQuotes
<1>5. CASE Kind \in {"ref", "etag"}
  <2> DEFINE c == IF Kind = "ref" THEN "semi" ELSE ">"
             r == xmlParseLookupChar(c)
  <2>1. c \in Chars
    BY DEF Chars
  <2>2. Search = r /\ SeenEnds = StringEnds(1, <<c>>)
    BY <1>5 DEF Search, SeenEnds, Ends
  <2>3. \A p : \A st : Knows(Kind, p, st) <=> CharOk(c, p) /\ st = "0"
    BY <1>5 DEF Knows
  <2> HIDE DEF c
  <2>4. endCheckState = "0" /\ (checkIndex # 0 => cur + checkIndex <= end /\ CharOk(c, cur + 1 + checkIndex))
    BY <1>2, <2>3
  <2>5. /\ Exact(r, StringEnds(1, <<c>>)) /\ r.state = "0"
        /\ ~r.found => CharOk(c, cur + 1 + r.index)
    BY <1>1, <2>1, <2>4, CharSearch
  <2> HIDE DEF r
  <2> QED BY <1>3, <2>2, <2>3, <2>5 DEF SearchExact
<1>6. CASE Kind \in {"pi", "comment", "cdata"}
  <2> DEFINE d == StartDelta[Kind]
             str == Terminator[Kind]
             r == xmlParseLookupString(d, str)
  <2>1. /\ d \in Nat /\ d >= 1 /\ Avail >= d
        /\ Len(str) \in {2, 3} /\ \A k \in 1..Len(str) : str[k] # "NUL"
    <3>1. CASE Kind = "pi"
      BY <1>1, <3>1 DEF StartDelta, Terminator
    <3>2. CASE Kind = "comment"
      BY <1>1, <3>2 DEF StartDelta, Terminator
    <3>3. CASE Kind = "cdata"
      BY <1>1, <3>3 DEF StartDelta, Terminator
    <3> QED BY <1>6, <3>1, <3>2, <3>3
  <2>2. Search = r /\ SeenEnds = StringEnds(d, str)
    BY <1>6 DEF Search, SeenEnds, Ends
  <2>3. \A p : \A st : Knows(Kind, p, st) <=> StringOk(d, str, p) /\ st = "0"
    BY <1>6 DEF Knows
  <2> HIDE DEF d, str
  <2>4. endCheckState = "0" /\ (checkIndex # 0 => cur + checkIndex <= end /\ StringOk(d, str, cur + 1 + checkIndex))
    BY <1>2, <2>3
  <2>5. /\ Exact(r, StringEnds(d, str)) /\ r.state = "0"
        /\ ~r.found => StringOk(d, str, cur + 1 + r.index)
    BY <2>1, <2>4, StringSearch
  <2> HIDE DEF r
  <2> QED BY <1>3, <2>2, <2>3, <2>5 DEF SearchExact
<1>7. CASE Kind = "stag"
  <2> DEFINE r == xmlParseLookupGt
  <2>1. Search = r /\ SeenEnds = TagEnds
    BY <1>7 DEF Search, SeenEnds, Ends
  <2>2. \A p : \A st : Knows(Kind, p, st) <=> st \in TagQuotes /\ GtOk(p, st)
    BY <1>7 DEF Knows
  <2>3. /\ Exact(r, TagEnds) /\ r.state \in TagQuotes
        /\ ~r.found => GtOk(cur + 1 + r.index, r.state)
    BY <1>1, <1>2, <1>4, <1>7, <2>2, GtSearch
  <2> HIDE DEF r
  <2> QED BY <1>3, <2>1, <2>2, <2>3 DEF SearchExact
<1>8. CASE Kind = "subset"
  <2> DEFINE r == xmlParseLookupInternalSubset
  <2>1. Search = r /\ SeenEnds = ScanEnds
    BY <1>8 DEF Search, SeenEnds, Ends
  <2>2. \A p : \A st : Knows(Kind, p, st) <=> SubsetOk(p, st)
    BY <1>8 DEF Knows
  <2>3. /\ Exact(r, ScanEnds) /\ r.state \in SsNames
        /\ ~r.found => SubsetOk(cur + 1 + r.index, r.state)
    BY <1>1, <1>2, <2>2, SubsetSearch
  <2> HIDE DEF r
  <2> QED BY <2>1, <2>2, <2>3 DEF SearchExact
<1>9. CASE Kind = "text"
  <2> DEFINE r == xmlParseLookupCharData
  <2>1. Search = r /\ SeenEnds = TextStops
    BY <1>9 DEF Search, SeenEnds, Ends
  <2>2. \A p : \A st : Knows(Kind, p, st) <=> DataOk(p) /\ st = "0"
    BY <1>9 DEF Knows
  <2>3. /\ Exact(r, TextStops) /\ r.state = "0"
        /\ ~r.found => DataOk(cur + 1 + r.index)
    BY <1>1, <1>2, <2>2, DataSearch
  <2> HIDE DEF r
  <2> QED BY <1>3, <2>1, <2>2, <2>3 DEF SearchExact
<1> QED BY <1>1, <1>5, <1>6, <1>7, <1>8, <1>9

-----------------------------------------------------------------------------
(* What is known of the text does not depend on the buffer.                *)
LEMMA StatesKept ==
  ASSUME text' = text, cur' = cur, NEW p
  PROVE  TQ(p)' = TQ(p) /\ SQ(p)' = SQ(p)
<1>1. PICK n : n = p - cur - 1
  OBVIOUS
<1>2. n = p - cur' - 1
  BY <1>1
<1>3. TagState(n)' = TagState(n) /\ ScanState(n)' = ScanState(n)
  BY TagStateKept, ScanStateKept
<1> QED BY <1>1, <1>2, <1>3 DEF TQ, SQ

LEMMA KnowsKept ==
  ASSUME text' = text, cur' = cur, NEW k, NEW p, NEW st, Knows(k, p, st)
  PROVE  Knows(k, p, st)'
<1>1. \A i : TQ(i)' = TQ(i) /\ SQ(i)' = SQ(i)
  BY StatesKept
<1>2. \A i : \A str : Occurs(i, str)' <=> Occurs(i, str)
  BY DEF Occurs
<1>3. \A c : CharOk(c, p)' <=> CharOk(c, p)
  BY DEF CharOk
<1>4. \A d : \A str : StringOk(d, str, p)' <=> StringOk(d, str, p)
  BY <1>2 DEF StringOk
<1>5. DataOk(p)' <=> DataOk(p)
  BY DEF DataOk
<1>6. GtOk(p, st)' <=> GtOk(p, st)
  BY <1>1 DEF GtOk
<1>7. (Outside(p)' <=> Outside(p)) /\ (Inside(p)' <=> Inside(p))
  BY <1>1, <1>2 DEF Outside, Inside
<1>8. SubsetOk(p, st)' <=> SubsetOk(p, st)
  BY <1>1, <1>7 DEF SubsetOk
<1> QED BY <1>3, <1>4, <1>5, <1>6, <1>8 DEF Knows

(* Nor does it depend on the fields of the search.                         *)
LEMMA BufferKept ==
  ASSUME text' = text, dtd' = dtd, cur' = cur, end' = end
  PROVE  /\ Avail' = Avail /\ Kind' = Kind /\ (Recognised' <=> Recognised)
         /\ (SeenWhole' <=> SeenWhole) /\ (LongText' <=> LongText)
<1>1. \A i : At(i)' = At(i)
  BY DEF At
<1>2. Ahead(0)' = Ahead(0) /\ Ahead(1)' = Ahead(1) /\ Ahead(2)' = Ahead(2) /\ Ahead(3)' = Ahead(3)
  BY DEF Ahead, At
<1>3. Avail' = Avail
  BY DEF Avail
<1>4. Kind' = Kind
  BY <1>2 DEF Kind, Markup
<1>5. Recognised' <=> Recognised
  BY <1>2, <1>3 DEF Recognised
<1>6. SeenEnds' = SeenEnds
  <2>1. \A d : \A str : StringEnds(d, str)' = StringEnds(d, str)
    BY DEF StringEnds
  <2>2. TextStops' = TextStops
    BY DEF TextStops
  <2>3. TagEnds' = TagEnds
    <3>1. \A i : TagState(i - cur - 2)' = TagState(i - cur - 2)
      <4> SUFFICES ASSUME NEW i PROVE TagState(i - cur - 2)' = TagState(i - cur - 2)
        OBVIOUS
      <4>1. PICK n : n = i - cur - 2
        OBVIOUS
      <4>2. TagState(n)' = TagState(n)
        BY TagStateKept
      <4> QED BY <4>1, <4>2
    <3> QED BY <3>1 DEF TagEnds
  <2>4. ScanEnds' = ScanEnds
    <3>1. \A i : ScanState(i - cur - 1)' = ScanState(i - cur - 1)
      <4> SUFFICES ASSUME NEW i
                   PROVE  ScanState(i - cur - 1)' = ScanState(i - cur - 1)
        OBVIOUS
      <4>1. PICK n : n = i - cur - 1
        OBVIOUS
      <4>2. ScanState(n)' = ScanState(n)
        BY ScanStateKept
      <4> QED BY <4>1, <4>2
    <3> QED BY <3>1 DEF ScanEnds
  <2>5. \A k : StringEnds(StartDelta[k], Terminator[k])' = StringEnds(StartDelta[k], Terminator[k])
    BY <2>1
  <2>6. StringEnds(StartDelta[Kind], Terminator[Kind])' = StringEnds(StartDelta[Kind], Terminator[Kind])
    <3>1. PICK k : k = Kind
      OBVIOUS
    <3> QED BY <1>4, <2>5, <3>1
  <2> QED BY <1>4, <2>1, <2>2, <2>3, <2>4, <2>6 DEF SeenEnds, Ends
<1>7. SeenWhole' <=> SeenWhole
  BY <1>6 DEF SeenWhole
<1>8. LongText' <=> LongText
  BY <1>3, <1>4 DEF LongText
<1> QED BY <1>3, <1>4, <1>5, <1>6, <1>7, <1>8

LEMMA ResumedKept ==
  ASSUME LkInts, LkInts', text' = text, dtd' = dtd, cur' = cur, end <= end',
         checkIndex' = checkIndex, endCheckState' = endCheckState, Resumed
  PROVE  Resumed'
<1>1. CASE checkIndex = 0
  BY <1>1 DEF Resumed
<1>2. CASE checkIndex # 0
  <2>1. Recognised /\ cur + checkIndex <= end /\ Knows(Kind, cur + 1 + checkIndex, endCheckState)
    BY <1>2 DEF Resumed
  <2>2. Recognised' /\ Kind' = Kind
    BY <2>1, KindStable
  <2>3. PICK k : k = Kind
    OBVIOUS
  <2>4. PICK p : p = cur + 1 + checkIndex
    OBVIOUS
  <2>5. PICK st : st = endCheckState
    OBVIOUS
  <2>6. Knows(k, p, st)'
    BY <2>1, <2>3, <2>4, <2>5, KnowsKept
  <2>7. Knows(Kind, cur + 1 + checkIndex, endCheckState)'
    BY <2>2, <2>3, <2>4, <2>5, <2>6
  <2>8. cur' + checkIndex' <= end'
    BY <2>1 DEF LkInts
  <2> QED BY <1>2, <2>2, <2>7, <2>8 DEF Resumed
<1> QED BY <1>1, <1>2

LEMMA EndsNat ==
  ASSUME LkInts, NEW i \in Ends
  PROVE  i \in Nat /\ i >= cur + 1
<1>1. ASSUME NEW d \in Nat, NEW str, Len(str) \in Nat, d + Len(str) >= 1, NEW j \in StringEnds(d, str)
      PROVE  j \in Nat /\ j >= cur + 1
  BY <1>1 DEF StringEnds, LkInts
<1>2. CASE Kind = "ref"
  <2>1. i \in StringEnds(1, <<"semi">>) /\ Len(<<"semi">>) = 1
    BY <1>2 DEF Ends
  <2> QED BY <1>1, <2>1
<1>3. CASE Kind = "etag"
  <2>1. i \in StringEnds(1, <<">">>) /\ Len(<<">">>) = 1
    BY <1>3 DEF Ends
  <2> QED BY <1>1, <2>1
<1>4. CASE Kind \in {"pi", "comment", "cdata"}
  <2>1. i \in StringEnds(StartDelta[Kind], Terminator[Kind])
    BY <1>4 DEF Ends
  <2>2. /\ StartDelta[Kind] \in Nat /\ Len(Terminator[Kind]) \in Nat
        /\ StartDelta[Kind] + Len(Terminator[Kind]) >= 1
    BY <1>4 DEF StartDelta, Terminator
  <2> QED BY <1>1, <2>1, <2>2
<1>5. CASE Kind = "stag"
  BY <1>5 DEF Ends, TagEnds, LkInts
<1>6. CASE Kind = "subset"
  BY <1>6 DEF Ends, SubsetEnds, LkInts
<1>7. CASE Kind = "text"
  BY <1>7 DEF Ends, TextStops, LkInts
<1> QED BY <1>2, <1>3, <1>4, <1>5, <1>6, <1>7, KindIs

LEMMA FirstEndIs ==
  ASSUME LkInts, Whole
  PROVE  FirstEnd \in Nat /\ FirstEnd >= cur + 1 /\ FirstEnd <= end
<1>1. PICK e \in Ends : e <= end
  BY DEF Whole
<1>2. \A i \in Ends : i \in Nat /\ i >= cur + 1
  BY EndsNat
<1>3. Ends \subseteq Nat /\ Ends # {}
  BY <1>1, <1>2
<1>4. \E i \in Ends : \A j \in Ends : i <= j
  BY <1>3, LeastNat
<1>5. FirstEnd \in Ends /\ \A j \in Ends : FirstEnd <= j
  BY <1>4 DEF FirstEnd
<1> QED BY <1>1, <1>2, <1>5 DEF LkInts

-----------------------------------------------------------------------------
(* The invariant holds initially and is kept by every action.              *)
LEMMA LkInitially == ChunkInit => LkInv
<1> SUFFICES ASSUME ChunkInit PROVE LkInv
  OBVIOUS
<1>1. text \in Seq(Chars) /\ dtd \in BOOLEAN
  BY TextsAssumption DEF ChunkInit
<1>2. Len(text) \in Nat
  BY <1>1, LenProperties
<1>3. cur = 0 /\ end = 0 /\ checkIndex = 0 /\ endCheckState = "0" /\ phase = "wait"
  BY DEF ChunkInit
<1>4. LkInts
  BY <1>2, <1>3 DEF LkInts
<1>5. LkTypes
  BY <1>1, <1>3, <1>4 DEF LkTypes, SsNames
<1>6. ~Recognised /\ Avail - checkIndex <= 3
  BY <1>3 DEF Recognised, Avail
<1>7. SeenExact /\ ResumesNearEnd
  BY <1>3, <1>6 DEF SeenExact, ResumesNearEnd
<1> QED BY <1>3, <1>5, <1>7 DEF LkInv, Resumed

LEMMA FeedKeeps ==
  ASSUME LkInv, NEW n \in 1..(Len(text) - end), Feed(n)
  PROVE  LkInv'
<1>1. LkTypes /\ LkInts /\ Resumed
  BY DEF LkInv, LkTypes
<1>2. /\ end' = end + n /\ phase' = "look" /\ text' = text /\ dtd' = dtd /\ cur' = cur
      /\ checkIndex' = checkIndex /\ endCheckState' = endCheckState
  BY DEF Feed
<1>3. LkInts' /\ end <= end'
  BY <1>1, <1>2 DEF LkInts
<1>4. LkTypes'
  BY <1>1, <1>2, <1>3 DEF LkTypes
<1>5. Resumed'
  BY <1>1, <1>2, <1>3, ResumedKept
<1>6. SeenExact' /\ ResumesNearEnd'
  BY <1>2 DEF SeenExact, ResumesNearEnd
<1> QED BY <1>2, <1>4, <1>5, <1>6 DEF LkInv

LEMMA NotRecognisedKeeps ==
  ASSUME LkInv, NotRecognised
  PROVE  LkInv'
<1>1. LkTypes /\ LkInts /\ Resumed
  BY DEF LkInv, LkTypes
<1>2. /\ ~Recognised /\ phase' = "wait" /\ text' = text /\ dtd' = dtd /\ cur' = cur
      /\ end' = end /\ checkIndex' = checkIndex /\ endCheckState' = endCheckState
  BY DEF NotRecognised
<1>3. LkInts' /\ end <= end'
  BY <1>1, <1>2 DEF LkInts
<1>4. LkTypes'
  BY <1>1, <1>2, <1>3 DEF LkTypes
<1>5. Resumed'
  BY <1>1, <1>2, <1>3, ResumedKept
<1>6. Avail' = Avail /\ ~Recognised'
  BY <1>2, BufferKept
<1>7. Avail \in Int /\ Avail <= 3
  <2>1. Avail \in Int
    BY <1>1 DEF Avail, LkInts
  <2> QED BY <1>2, <2>1 DEF Recognised
<1>8. checkIndex' = 0
  BY <1>1, <1>2 DEF Resumed
<1>9. Avail' - checkIndex' <= 3
  BY <1>6, <1>7, <1>8
<1>10. SeenExact' /\ ResumesNearEnd'
  BY <1>2, <1>6, <1>9 DEF SeenExact, ResumesNearEnd
<1> QED BY <1>2, <1>4, <1>5, <1>10 DEF LkInv

LEMMA SkipLookupKeeps ==
  ASSUME LkInv, SkipLookup
  PROVE  LkInv'
<1>1. LkTypes /\ LkInts /\ Resumed
  BY DEF LkInv, LkTypes
<1>2. /\ Recognised /\ LongText /\ phase' = "parse" /\ text' = text /\ dtd' = dtd
      /\ cur' = cur /\ end' = end /\ checkIndex' = 0 /\ endCheckState' = endCheckState
  BY DEF SkipLookup
<1>3. LkInts'
  BY <1>1, <1>2 DEF LkInts
<1>4. LkTypes'
  BY <1>1, <1>2, <1>3 DEF LkTypes
<1>5. endCheckState = "0"
  <2>1. Kind = "text"
    BY <1>2 DEF LongText
  <2> QED BY <1>1, <2>1 DEF Resumed, Knows
<1>6. Resumed'
  BY <1>2, <1>5 DEF Resumed
<1>7. Recognised' /\ LongText'
  BY <1>2, BufferKept
<1>8. SeenExact' /\ ResumesNearEnd'
  BY <1>2, <1>7 DEF SeenExact, ResumesNearEnd
<1> QED BY <1>2, <1>4, <1>6, <1>7, <1>8 DEF LkInv

LEMMA LookupKeeps ==
  ASSUME LkInv, Lookup
  PROVE  LkInv'
<1> DEFINE r == Search
<1>1. LkTypes /\ LkInts /\ Resumed /\ endCheckState \in SsNames
  BY DEF LkInv, LkTypes
<1>2. /\ Recognised /\ checkIndex' = r.index /\ endCheckState' = r.state
      /\ phase' = (IF r.found THEN "parse" ELSE "wait")
      /\ text' = text /\ dtd' = dtd /\ cur' = cur /\ end' = end
  BY DEF Lookup
<1>3. /\ Exact(r, SeenEnds) /\ r.state \in SsNames
      /\ ~r.found => Knows(Kind, cur + 1 + r.index, r.state)
  BY <1>1, <1>2, SearchIsExact DEF SearchExact
<1> HIDE DEF r
<1>4. Avail' = Avail /\ Kind' = Kind /\ Recognised' /\ (SeenWhole' <=> SeenWhole)
  BY <1>2, BufferKept
<1>5. r.index \in Nat /\ r.found \in BOOLEAN
  BY <1>3 DEF Exact
<1>6. LkInts'
  BY <1>1, <1>2, <1>5 DEF LkInts
<1>7. CASE r.found
  <2>1. phase' = "parse" /\ checkIndex' = 0 /\ endCheckState' = "0" /\ SeenWhole
    BY <1>2, <1>3, <1>7 DEF Exact, SeenWhole
  <2>2. LkTypes'
    BY <1>1, <1>2, <1>6, <2>1 DEF LkTypes, SsNames
  <2>3. Resumed' /\ SeenExact' /\ ResumesNearEnd'
    BY <1>4, <2>1 DEF Resumed, SeenExact, ResumesNearEnd
  <2> QED BY <1>4, <2>1, <2>2, <2>3 DEF LkInv
<1>8. CASE ~r.found
  <2>1. phase' = "wait" /\ ~SeenWhole
    BY <1>2, <1>3, <1>8 DEF Exact, SeenWhole
  <2>2. r.index # 0 /\ r.index <= Avail /\ Avail - r.index <= 3
    BY <1>3, <1>8 DEF Exact
  <2>3. LkTypes'
    BY <1>1, <1>2, <1>3, <1>6, <2>1 DEF LkTypes
  <2>4. Resumed'
    <3>1. PICK k : k = Kind
      OBVIOUS
    <3>2. PICK p : p = cur + 1 + r.index
      OBVIOUS
    <3>3. PICK st : st = r.state
      OBVIOUS
    <3>4. Knows(k, p, st)'
      BY <1>2, <1>3, <1>8, <3>1, <3>2, <3>3, KnowsKept
    <3>5. Knows(Kind, cur + 1 + checkIndex, endCheckState)'
      BY <1>2, <1>4, <3>1, <3>2, <3>3, <3>4
    <3>6. cur' + checkIndex' <= end'
      <4>1. cur + r.index <= end
        BY <1>1, <1>5, <2>2 DEF Avail, LkInts
      <4> QED BY <1>2, <4>1
    <3>7. checkIndex' # 0
      BY <1>2, <2>2
    <3> QED BY <1>4, <3>5, <3>6, <3>7 DEF Resumed
  <2>5. SeenExact' /\ ResumesNearEnd'
    <3>1. Avail' - checkIndex' <= 3
      BY <1>2, <1>4, <2>2
    <3> QED BY <1>4, <2>1, <3>1 DEF SeenExact, ResumesNearEnd
  <2> QED BY <2>1, <2>3, <2>4, <2>5 DEF LkInv
<1> QED BY <1>7, <1>8

LEMMA ParseKeeps ==
  ASSUME LkInv, Parse
  PROVE  LkInv'
<1>1. LkTypes /\ LkInts /\ Resumed /\ SeenExact /\ checkIndex = 0 /\ endCheckState = "0"
  BY DEF LkInv, LkTypes, Resumed, Parse
<1>2. /\ phase = "parse" /\ cur' = ConsumedBy /\ phase' = "look" /\ text' = text
      /\ dtd' = dtd /\ end' = end /\ checkIndex' = checkIndex /\ endCheckState' = endCheckState
  BY DEF Parse
<1>3. ConsumedBy \in Nat /\ ConsumedBy <= end
  <2>0. Kind # "subset"
    BY DEF Parse, Kind, Markup
  <2>1. Whole \/ LongText
    BY <1>1, <1>2, <2>0 DEF SeenExact, SeenWhole, SeenEnds, Whole
  <2>2. CASE Whole
    <3>1. FirstEnd \in Nat /\ FirstEnd >= cur + 1 /\ FirstEnd <= end
      BY <1>1, <2>2, FirstEndIs
    <3>2. ConsumedBy = FirstEnd \/ ConsumedBy = FirstEnd - 1
      BY <2>2 DEF ConsumedBy
    <3> QED BY <1>1, <3>1, <3>2 DEF LkInts
  <2>3. CASE ~Whole
    <3>1. Kind = "text" /\ Avail >= BigBuffer
      BY <2>1, <2>3 DEF LongText
    <3>2. ConsumedBy = end - Brackets
      BY <2>3, <3>1 DEF ConsumedBy
    <3>3. Brackets \in {0, 1, 2}
      BY DEF Brackets
    <3>4. BigBuffer \in Nat /\ BigBuffer > 2
      BY TextsAssumption
    <3> QED BY <1>1, <3>1, <3>2, <3>3, <3>4 DEF LkInts, Avail
  <2> QED BY <2>2, <2>3
<1>4. LkInts'
  BY <1>1, <1>2, <1>3 DEF LkInts
<1>5. LkTypes'
  BY <1>1, <1>2, <1>4 DEF LkTypes
<1>6. Resumed' /\ SeenExact' /\ ResumesNearEnd'
  BY <1>1, <1>2 DEF Resumed, SeenExact, ResumesNearEnd
<1> QED BY <1>2, <1>5, <1>6 DEF LkInv

LEMMA StopLookingKeeps ==
  ASSUME LkInv, StopLooking
  PROVE  LkInv'
<1>1. LkTypes /\ LkInts /\ Resumed
  BY DEF LkInv, LkTypes
<1>2. /\ phase' = "stopped" /\ text' = text /\ dtd' = dtd /\ cur' = cur /\ end' = end
      /\ checkIndex' = checkIndex /\ endCheckState' = endCheckState
  BY DEF StopLooking
<1>3. LkInts' /\ end <= end'
  BY <1>1, <1>2 DEF LkInts
<1>4. LkTypes'
  BY <1>1, <1>2, <1>3 DEF LkTypes
<1>5. Resumed'
  BY <1>1, <1>2, <1>3, ResumedKept
<1>6. SeenExact' /\ ResumesNearEnd'
  BY <1>2 DEF SeenExact, ResumesNearEnd
<1> QED BY <1>2, <1>4, <1>5, <1>6 DEF LkInv

LEMMA LkStutters ==
  ASSUME LkInv, UNCHANGED chunkVars
  PROVE  LkInv'
<1>1. /\ text' = text /\ dtd' = dtd /\ cur' = cur /\ end' = end
      /\ checkIndex' = checkIndex /\ endCheckState' = endCheckState /\ phase' = phase
  BY DEF chunkVars
<1>2. LkTypes /\ LkInts /\ Resumed /\ SeenExact /\ ResumesNearEnd
      /\ (phase = "parse" => Recognised /\ checkIndex = 0)
  BY DEF LkInv, LkTypes
<1>3. LkInts' /\ end <= end'
  BY <1>1, <1>2 DEF LkInts
<1>4. LkTypes'
  BY <1>1, <1>2, <1>3 DEF LkTypes
<1>5. Resumed'
  BY <1>1, <1>2, <1>3, ResumedKept
<1>6. /\ Avail' = Avail /\ (Recognised' <=> Recognised)
      /\ (SeenWhole' <=> SeenWhole) /\ (LongText' <=> LongText)
  BY <1>1, BufferKept
<1>7. SeenExact' /\ ResumesNearEnd' /\ (phase' = "parse" => Recognised' /\ checkIndex' = 0)
  BY <1>1, <1>2, <1>6 DEF SeenExact, ResumesNearEnd
<1> QED BY <1>4, <1>5, <1>7 DEF LkInv

(* The look-ahead keeps the invariant, for any text and any chunks.        *)
THEOREM LookupInvariant == ChunkSpec => []LkInv
<1>1. ASSUME LkInv, [ChunkNext]_chunkVars PROVE LkInv'
  <2>1. ASSUME NEW n \in 1..(Len(text) - end), Feed(n) PROVE LkInv'
    BY <1>1, <2>1, FeedKeeps
  <2>2. CASE NotRecognised
    BY <1>1, <2>2, NotRecognisedKeeps
  <2>3. CASE SkipLookup
    BY <1>1, <2>3, SkipLookupKeeps
  <2>4. CASE Lookup
    BY <1>1, <2>4, LookupKeeps
  <2>5. CASE Parse
    BY <1>1, <2>5, ParseKeeps
  <2>6. CASE StopLooking
    BY <1>1, <2>6, StopLookingKeeps
  <2>7. CASE UNCHANGED chunkVars
    BY <1>1, <2>7, LkStutters
  <2> QED BY <1>1, <2>1, <2>2, <2>3, <2>4, <2>5, <2>6, <2>7 DEF ChunkNext
<1> QED BY <1>1, LkInitially, PTL DEF ChunkSpec

(* The grammar's automaton, with processing instructions and ']]>'.        *)
GrammarQs == ScanQs \cup {"<?", "<?.?", "]]", "]]>"}

IsSubsetRun(q, t, c) ==
  q = [i \in Nat |-> IF i = 0 THEN "0" ELSE SubsetNext(q[i - 1], t[c + 1 + i])]

LEMMA SubsetNextIn ==
  ASSUME NEW q \in GrammarQs, NEW c
  PROVE  SubsetNext(q, c) \in GrammarQs
BY DEF SubsetNext, GrammarQs, ScanQs, Quotes

LEMMA SubsetRunExists ==
  ASSUME NEW t, NEW c
  PROVE  \E q : IsSubsetRun(q, t, c)
<1> DEFINE F == [p \in Nat \X GrammarQs |-> SubsetNext(p[2], t[c + 1 + p[1]])]
<1>1. \A n \in Nat, s \in GrammarQs : F[<<n, s>>] = SubsetNext(s, t[c + 1 + n])
  OBVIOUS
<1>2. \A s \in GrammarQs : \A d : SubsetNext(s, d) \in GrammarQs
  BY SubsetNextIn
<1> HIDE DEF F
<1>3. ASSUME NEW n \in Nat, NEW s \in GrammarQs PROVE F[<<n + 1, s>>] \in GrammarQs
  <2>1. n + 1 \in Nat
    OBVIOUS
  <2>2. F[<<n + 1, s>>] = SubsetNext(s, t[c + 1 + (n + 1)])
    BY <1>1, <2>1, Zenon
  <2> QED BY <1>2, <2>2
<1>4. PICK q : IsDefined(q, GrammarQs, "0", F)
  <2>1. "0" \in GrammarQs
    BY DEF GrammarQs, ScanQs
  <2> QED BY <1>3, <2>1, TypedRecursion
<1>5. \A n \in Nat : n # 0 => F[<<n, q[n - 1]>>] = SubsetNext(q[n - 1], t[c + 1 + n])
  <2> SUFFICES ASSUME NEW n \in Nat, n # 0
               PROVE  F[<<n, q[n - 1]>>] = SubsetNext(q[n - 1], t[c + 1 + n])
    OBVIOUS
  <2>1. n - 1 \in Nat
    OBVIOUS
  <2>2. q[n - 1] \in GrammarQs
    BY <1>4, <2>1, Zenon DEF IsDefined
  <2> QED BY <1>1, <2>2
<1>6. q = [n \in Nat |-> IF n = 0 THEN "0" ELSE F[<<n, q[n - 1]>>]]
  BY <1>4, Zenon DEF IsDefined
<1>7. q = [n \in Nat |-> IF n = 0 THEN "0" ELSE SubsetNext(q[n - 1], t[c + 1 + n])]
  BY <1>5, <1>6, Zenon
<1>8. IsSubsetRun(q, t, c)
  BY <1>7, Zenon DEF IsSubsetRun
<1> QED BY <1>8

LEMMA SubsetStates ==
  /\ SubsetState(0) = "0"
  /\ \A n \in Nat : SubsetState(n + 1) = SubsetNext(SubsetState(n), text[cur + 1 + (n + 1)])
<1> DEFINE q == CHOOSE q : IsSubsetRun(q, text, cur)
<1>1. IsSubsetRun(q, text, cur)
  BY SubsetRunExists, Zenon
<1>2. \A n : SubsetState(n) = q[n]
  BY Zenon DEF SubsetState, IsSubsetRun
<1> HIDE DEF q
<1>3. q[0] = "0" /\ \A n \in Nat : q[n + 1] = SubsetNext(q[n], text[cur + 1 + (n + 1)])
  <2>1. \A n \in Nat : n + 1 \in Nat /\ n + 1 # 0 /\ (n + 1) - 1 = n
    OBVIOUS
  <2>2. \A i \in Nat : q[i] = IF i = 0 THEN "0" ELSE SubsetNext(q[i - 1], text[cur + 1 + i])
    BY <1>1, Zenon DEF IsSubsetRun
  <2> QED BY <2>1, <2>2
<1> QED BY <1>2, <1>3

(* Until one of the two disputed states is reached the search goes by the  *)
(* grammar, a second ']' apart.                                            *)
AgreedQs == ScanQs \cup {"]]"}
Collapse(q) == IF q = "]]" THEN "]" ELSE q

LEMMA AgreedStep ==
  ASSUME NEW q \in AgreedQs, NEW c, SubsetNext(q, c) \notin {"<?", "]]>"}
  PROVE  /\ SubsetNext(q, c) \in AgreedQs
         /\ ScanNext(Collapse(q), c) = Collapse(SubsetNext(q, c))
<1>1. CASE q \in Quotes
  BY <1>1 DEF SubsetNext, ScanNext, Collapse, AgreedQs, ScanQs, Quotes
<1>2. CASE q \in {"0", "<", "<!", "<!-"}
  BY <1>2 DEF SubsetNext, ScanNext, Collapse, AgreedQs, ScanQs, Quotes
<1>3. CASE q \in {"<!--", "<!--..", "<!--.-", "<!--.--"}
  BY <1>3 DEF SubsetNext, ScanNext, Collapse, AgreedQs, ScanQs, Quotes
<1>4. CASE q = "]"
  BY <1>4 DEF SubsetNext, ScanNext, Collapse, AgreedQs, ScanQs, Quotes
<1>5. CASE q = "]]"
  BY <1>5 DEF SubsetNext, ScanNext, Collapse, AgreedQs, ScanQs, Quotes
<1>6. CASE q \in {"]sp", "]>"}
  BY <1>6 DEF SubsetNext, ScanNext, Collapse, AgreedQs, ScanQs, Quotes
<1> QED BY <1>1, <1>2, <1>3, <1>4, <1>5, <1>6 DEF AgreedQs, ScanQs

LEMMA AgreedStates ==
  ASSUME LkInts, dtd, ~Disputed
  PROVE  \A n \in Nat : n < Avail => ScanState(n) = Collapse(SubsetState(n))
<1> DEFINE P == {n \in Nat : n < Avail => /\ SubsetState(n) \in AgreedQs
                                          /\ ScanState(n) = Collapse(SubsetState(n))}
<1>1. 0 \in P
  BY SubsetStates, ScanStates DEF AgreedQs, ScanQs, Collapse
<1>2. ASSUME NEW n \in Nat, n \in P PROVE n + 1 \in P
  <2> SUFFICES ASSUME n + 1 < Avail
               PROVE  /\ SubsetState(n + 1) \in AgreedQs
                      /\ ScanState(n + 1) = Collapse(SubsetState(n + 1))
    OBVIOUS
  <2>1. Avail \in Int
    BY DEF Avail, LkInts
  <2>2. SubsetState(n) \in AgreedQs /\ ScanState(n) = Collapse(SubsetState(n))
    BY <1>2, <2>1
  <2>3. SubsetState(n + 1) \notin {"<?", "]]>"}
    <3>1. n + 1 \in 0..(Avail - 1)
      BY <2>1
    <3> QED BY <3>1 DEF Disputed
  <2> DEFINE c == text[cur + 1 + (n + 1)]
  <2>4. /\ SubsetState(n + 1) = SubsetNext(SubsetState(n), c)
        /\ ScanState(n + 1) = ScanNext(ScanState(n), c)
    BY SubsetStates, ScanStates
  <2> HIDE DEF c
  <2> QED BY <2>2, <2>3, <2>4, AgreedStep
<1> HIDE DEF P
<1>3. \A n \in Nat : n \in P
  BY <1>1, <1>2, Induct
<1> QED BY <1>3 DEF P

LEMMA SeenIsWhole ==
  ASSUME LkTypes, ~Disputed
  PROVE  SeenWhole <=> Whole
<1>1. CASE Kind # "subset"
  BY <1>1 DEF SeenWhole, SeenEnds, Whole
<1>2. CASE Kind = "subset"
  <2>1. LkInts /\ dtd
    BY <1>2 DEF LkTypes, Kind, Markup
  <2>2. \A i \in (cur + 2)..Len(text) :
          i <= end => (ScanState(i - cur - 1) = "]>" <=> SubsetState(i - cur - 1) = "]>")
    <3> SUFFICES ASSUME NEW i \in (cur + 2)..Len(text), i <= end
                 PROVE  ScanState(i - cur - 1) = "]>" <=> SubsetState(i - cur - 1) = "]>"
      OBVIOUS
    <3> DEFINE n == i - cur - 1
    <3>1. n \in Nat /\ n < Avail
      BY <2>1 DEF LkInts, Avail
    <3> HIDE DEF n
    <3>2. ScanState(n) = Collapse(SubsetState(n))
      BY <2>1, <3>1, AgreedStates
    <3>3. ScanState(n) = "]>" <=> SubsetState(n) = "]>"
      BY <3>2 DEF Collapse
    <3> QED BY <3>3 DEF n
  <2>3. SeenEnds = ScanEnds /\ Ends = SubsetEnds
    BY <1>2 DEF SeenEnds, Ends
  <2> QED BY <2>2, <2>3 DEF SeenWhole, Whole, ScanEnds, SubsetEnds
<1> QED BY <1>1, <1>2

(* However a text is cut into chunks, the five searches of the push parser *)
(* (xmlParseLookupChar, ...String, ...Gt, ...CharData, ...InternalSubset)  *)
(* succeed exactly when the buffer holds the whole construct, with the     *)
(* state that they share carried from chunk to chunk.  An internal subset  *)
(* is left out as soon as the buffer holds the start of a processing       *)
(* instruction of it, or a ']]>' sequence outside of quotes and comments,  *)
(* where the search may end too early.                                     *)
THEOREM LookupIsExact == ChunkSpec => []LookupExact
<1>1. LkInv => LookupExact
  BY SeenIsWhole DEF LkInv, SeenExact, LookupExact
<1> QED BY <1>1, LookupInvariant, PTL

(* And a search that failed is resumed at most three characters before the *)
(* end of what it has seen.                                                *)
THEOREM LookupResumes == ChunkSpec => []ResumesNearEnd
<1>1. LkInv => ResumesNearEnd
  BY DEF LkInv
<1> QED BY <1>1, LookupInvariant, PTL

-----------------------------------------------------------------------------
(* The namespace database.                                                 *)

(* Probe sequences stay in the table and reach every bucket of it.         *)
LEMMA ProbeIn ==
  ASSUME NEW N \in Nat \ {0}, NEW hv \in Nat, NEW k \in Nat
  PROVE  Probe(N, hv, k) \in 0..(N - 1)
BY DEF Probe

(* A remainder, from the quotient.                                         *)
LEMMA ModShift ==
  ASSUME NEW N \in Nat \ {0}, NEW a \in Nat, NEW r \in 0..(N - 1), NEW q \in Nat, a = q * N + r
  PROVE  a % N = r
OBVIOUS

(* Every bucket is on the probe sequence of every hash value.              *)
LEMMA ProbeOnto ==
  ASSUME NEW N \in Nat \ {0}, NEW hv \in Nat, NEW i \in 0..(N - 1)
  PROVE  \E k \in 0..(N - 1) : Probe(N, hv, k) = i
<1> DEFINE q == hv \div N
           r == hv % N
<1>1. q \in Nat /\ r \in 0..(N - 1) /\ hv = q * N + r
  OBVIOUS
<1> HIDE DEF q, r
<1>2. CASE r <= i
  <2>1. i - r \in 0..(N - 1) /\ hv + (i - r) = q * N + i /\ hv + (i - r) \in Nat
    BY <1>1, <1>2
  <2>2. (hv + (i - r)) % N = i
    BY <1>1, <2>1, ModShift
  <2> QED BY <2>1, <2>2 DEF Probe
<1>3. CASE r > i
  <2>1. N + i - r \in 0..(N - 1) /\ hv + (N + i - r) = (q + 1) * N + i
        /\ hv + (N + i - r) \in Nat /\ q + 1 \in Nat
    BY <1>1, <1>3
  <2>2. (hv + (N + i - r)) % N = i
    BY <1>1, <2>1, ModShift
  <2> QED BY <2>1, <2>2 DEF Probe
<1> QED BY <1>1, <1>2, <1>3

(* A set of naturals that is not empty has its Smallest.                   *)
LEMMA SmallestIs ==
  ASSUME NEW S \in SUBSET Nat, S # {}
  PROVE  Smallest(S) \in S /\ \A j \in S : Smallest(S) <= j
<1>1. \E k \in S : \A j \in S : k <= j
  BY LeastNat
<1> QED BY <1>1 DEF Smallest

-----------------------------------------------------------------------------
(* Tables as values.                                                       *)

Bkt == [hashValue : Nat, index : Nat]
Tables(N) == [0..(N - 1) -> Bkt]

PHolds(tab, h, b, p) == b.hashValue = h[p] /\ b.index # 0 /\ tab[b.index].prefix = p

PStops(tab, h, T, N, p) ==
  {k \in 0..(N - 1) : \/ T[Probe(N, h[p], k)].hashValue = 0
                       \/ PHolds(tab, h, T[Probe(N, h[p], k)], p)}

PLook(tab, h, T, p) ==
  LET size == Cardinality(DOMAIN T)
      at(k) == Probe(size, h[p], k)
      stop == Smallest({k \in 0..(size - 1) :
                T[at(k)].hashValue = 0 \/ PHolds(tab, h, T[at(k)], p)})
      tombstones == {k \in 0..(stop - 1) : T[at(k)].index = 0}
  IN  IF size = 0 THEN [index |-> 0, bucket |-> 0]
      ELSE [index |-> T[at(stop)].index,
            bucket |-> IF T[at(stop)].hashValue # 0 \/ tombstones = {}
                       THEN at(stop) ELSE at(Smallest(tombstones))]

(* HashLookup reads nothing but the stack and the hash values.             *)
LEMMA LookupPure ==
  ASSUME NEW T, NEW p
  PROVE  HashLookup(T, p) = PLook(nsTab, nsHashOf, T, p)
BY Zenon DEF HashLookup, PLook, Holds, PHolds

(* A table of size N has N buckets.                                        *)
LEMMA TableSize ==
  ASSUME NEW N \in Nat, NEW T, T \in Tables(N)
  PROVE  Cardinality(DOMAIN T) = N /\ IsFiniteSet(DOMAIN T) /\ DOMAIN T = 0..(N - 1)
<1>1. DOMAIN T = 0..(N - 1)
  BY DEF Tables
<1>2. IsFiniteSet(0..(N - 1)) /\ Cardinality(0..(N - 1)) = N
  BY FS_Interval
<1> QED BY <1>1, <1>2

(* s is where the search for p ends, and b the bucket it returns.          *)
EndsAt(tab, h, T, N, p, s) ==
  /\ s \in PStops(tab, h, T, N, p)
  /\ \A j \in 0..(s - 1) : j \notin PStops(tab, h, T, N, p)

(* A search with a place to end in ends at the first such place; when that *)
(* is an empty bucket, the bucket returned is that one or a tombstone on   *)
(* the way.                                                                *)
LEMMA LookIs ==
  ASSUME NEW tab, NEW h, NEW N \in Nat \ {0}, NEW T \in Tables(N), NEW p, h[p] \in Nat,
         PStops(tab, h, T, N, p) # {}
  PROVE  \E s : /\ EndsAt(tab, h, T, N, p, s)
                /\ PLook(tab, h, T, p).index = T[Probe(N, h[p], s)].index
                /\ T[Probe(N, h[p], s)].hashValue # 0
                     => PLook(tab, h, T, p).bucket = Probe(N, h[p], s)
                /\ T[Probe(N, h[p], s)].hashValue = 0 =>
                     \E t \in 0..s : /\ PLook(tab, h, T, p).bucket = Probe(N, h[p], t)
                                     /\ t = s \/ T[Probe(N, h[p], t)].index = 0
<1> DEFINE at(k) == Probe(N, h[p], k)
           S == PStops(tab, h, T, N, p)
           s == Smallest(S)
           Z == {k \in 0..(s - 1) : T[at(k)].index = 0}
           r == PLook(tab, h, T, p)
<1>1. Cardinality(DOMAIN T) = N
  BY TableSize, SMTT(60)
<1>2. r = [index |-> T[at(s)].index,
           bucket |-> IF T[at(s)].hashValue # 0 \/ Z = {} THEN at(s) ELSE at(Smallest(Z))]
  BY <1>1 DEF PLook, PStops
<1>3. S \in SUBSET Nat /\ S # {} /\ S \subseteq 0..(N - 1)
  BY DEF PStops
<1>4. s \in S /\ \A j \in S : s <= j
  <2> HIDE DEF S
  <2> QED BY <1>3, SmallestIs
<1>5. s \in Nat
  BY <1>3, <1>4
<1> HIDE DEF S, s
<1>6. EndsAt(tab, h, T, N, p, s)
  BY <1>4, <1>5, <1>3 DEF EndsAt, S
<1>7. Z # {} => Smallest(Z) \in Z
  <2>1. Z \in SUBSET Nat
    BY <1>5
  <2> HIDE DEF Z
  <2> QED BY <2>1, SmallestIs
<1> HIDE DEF r
<1>8. r.index = T[at(s)].index
  BY <1>2
<1>9. r.bucket = IF T[at(s)].hashValue # 0 \/ Z = {} THEN at(s) ELSE at(Smallest(Z))
  BY <1>2
<1>10. T[at(s)].hashValue # 0 => r.bucket = at(s)
  BY <1>9
<1>11. ASSUME T[at(s)].hashValue = 0
       PROVE  \E t \in 0..s : r.bucket = at(t) /\ (t = s \/ T[at(t)].index = 0)
  <2>1. CASE Z = {}
    <3>1. r.bucket = at(s) /\ s \in 0..s
      BY <1>5, <1>9, <2>1
    <3> HIDE DEF at, Z
    <3> QED BY <3>1
  <2>2. CASE Z # {}
    <3> DEFINE t == Smallest(Z)
    <3>1. t \in 0..s /\ T[at(t)].index = 0
      BY <1>5, <1>7, <2>2
    <3>2. r.bucket = at(t)
      BY <1>9, <1>11, <2>2
    <3> HIDE DEF at, t, Z
    <3> QED BY <3>1, <3>2
  <2> QED BY <2>1, <2>2
<1> QED BY <1>6, <1>8, <1>10, <1>11 DEF r

-----------------------------------------------------------------------------
(* A sound table for the lowest m bindings of a stack.                     *)

(* k is the position of the last binding of p among the first m, or 0.     *)
Lst(tab, p, m, k) ==
  /\ k \in 0..m
  /\ k > 0 => tab[k].prefix = p
  /\ \A j \in (k + 1)..m : tab[j].prefix # p

(* A search from hv that passes over used buckets meets bucket i.          *)
PathTo(T, N, hv, i) ==
  \E k \in 0..(N - 1) : /\ Probe(N, hv, k) = i
                        /\ \A j \in 0..(k - 1) : T[Probe(N, hv, j)].hashValue # 0

(* The bucket b at i holds the last binding of its prefix.                 *)
LiveOK(tab, h, T, N, m, b, i) ==
  /\ b.index \in 1..m
  /\ tab[b.index].prefix \in NsPrefixes \ {NsDefault}
  /\ b.hashValue = h[tab[b.index].prefix]
  /\ Lst(tab, tab[b.index].prefix, m, b.index)
  /\ PathTo(T, N, b.hashValue, i)

Sound(tab, h, T, N, m) ==
  /\ T \in Tables(N)
  /\ \A i \in 0..(N - 1) : T[i].index # 0 => LiveOK(tab, h, T, N, m, T[i], i)
  /\ \A i, j \in 0..(N - 1) :
       T[i].index # 0 /\ T[j].index # 0 /\ tab[T[i].index].prefix = tab[T[j].index].prefix => i = j

Complete(tab, T, N, m) ==
  \A k \in 1..m : tab[k].prefix # NsDefault =>
    \E i \in 0..(N - 1) : T[i].index # 0 /\ tab[T[i].index].prefix = tab[k].prefix

HasFree(T, N) == N # 0 => \E i \in 0..(N - 1) : T[i].hashValue = 0

Hashes == [NsPrefixes -> Nat \ {0}]

(* A bucket with a binding in scope has a hash value.                      *)
LEMMA LiveUsed ==
  ASSUME NEW tab, NEW h \in Hashes, NEW T, NEW N \in Nat, NEW m, Sound(tab, h, T, N, m),
         NEW i \in 0..(N - 1), T[i].index # 0
  PROVE  T[i].hashValue # 0 /\ LiveOK(tab, h, T, N, m, T[i], i)
<1>1. LiveOK(tab, h, T, N, m, T[i], i)
  BY DEF Sound
<1>2. T[i].hashValue = h[tab[T[i].index].prefix] /\ tab[T[i].index].prefix \in NsPrefixes
  BY <1>1 DEF LiveOK
<1> QED BY <1>1, <1>2 DEF Hashes

(* What a lookup returns.                                                  *)
LEMMA LookRight ==
  ASSUME NEW tab, NEW h \in Hashes, NEW T, NEW N \in Nat, NEW m \in Nat,
         Sound(tab, h, T, N, m), Complete(tab, T, N, m), HasFree(T, N),
         NEW p \in NsPrefixes, p # NsDefault
  PROVE  /\ Lst(tab, p, m, PLook(tab, h, T, p).index)
         /\ PLook(tab, h, T, p).index # 0 =>
              /\ PLook(tab, h, T, p).bucket \in 0..(N - 1)
              /\ T[PLook(tab, h, T, p).bucket].index = PLook(tab, h, T, p).index
         /\ PLook(tab, h, T, p).index = 0 /\ N # 0 =>
              /\ PLook(tab, h, T, p).bucket \in 0..(N - 1)
              /\ T[PLook(tab, h, T, p).bucket].index = 0
              /\ PathTo(T, N, h[p], PLook(tab, h, T, p).bucket)
<1> DEFINE r == PLook(tab, h, T, p)
           at(k) == Probe(N, h[p], k)
<1>0. T \in Tables(N) /\ h[p] \in Nat
  BY DEF Sound, Hashes
<1>1. ASSUME ~ \E i \in 0..(N - 1) : T[i].index # 0 /\ tab[T[i].index].prefix = p
      PROVE  Lst(tab, p, m, 0)
  BY <1>1 DEF Lst, Complete
<1>2. CASE N = 0
  <2>1. Cardinality(DOMAIN T) = 0
    BY <1>0, <1>2, TableSize
  <2>2. r.index = 0
    BY <2>1 DEF PLook
  <2>3. ~ \E i \in 0..(N - 1) : T[i].index # 0 /\ tab[T[i].index].prefix = p
    BY <1>2
  <2> QED BY <1>1, <1>2, <2>2, <2>3
<1>3. CASE N # 0
  <2>1. PStops(tab, h, T, N, p) # {}
    <3>1. PICK i \in 0..(N - 1) : T[i].hashValue = 0
      BY <1>3 DEF HasFree
    <3>2. PICK k \in 0..(N - 1) : Probe(N, h[p], k) = i
      BY <1>0, <1>3, ProbeOnto, ZenonT(60)
    <3> QED BY <3>1, <3>2 DEF PStops
  <2>2. PICK s : /\ EndsAt(tab, h, T, N, p, s)
                 /\ r.index = T[at(s)].index
                 /\ T[at(s)].hashValue # 0 => r.bucket = at(s)
                 /\ T[at(s)].hashValue = 0 =>
                      \E t \in 0..s : /\ r.bucket = at(t)
                                      /\ t = s \/ T[at(t)].index = 0
    BY <1>0, <1>3, <2>1, LookIs
  <2> HIDE DEF r
  <2>3. s \in 0..(N - 1) /\ (T[at(s)].hashValue = 0 \/ PHolds(tab, h, T[at(s)], p))
        /\ \A j \in 0..(s - 1) : T[at(j)].hashValue # 0 /\ ~PHolds(tab, h, T[at(j)], p)
    BY <2>2 DEF EndsAt, PStops
  <2>4. \A k \in 0..(N - 1) : at(k) \in 0..(N - 1)
    <3> TAKE k \in 0..(N - 1)
    <3>1. N \in Nat \ {0} /\ k \in Nat
      BY <1>3
    <3> QED BY <1>0, <3>1, ProbeIn
  <2> HIDE DEF at
  <2>5. CASE T[at(s)].hashValue # 0
    <3>1. T[at(s)].index # 0 /\ tab[T[at(s)].index].prefix = p
      BY <2>3, <2>5 DEF PHolds
    <3>2. LiveOK(tab, h, T, N, m, T[at(s)], at(s))
      BY <2>3, <2>4, <3>1, LiveUsed
    <3>3. Lst(tab, p, m, T[at(s)].index)
      BY <3>1, <3>2 DEF LiveOK
    <3>4. r.index = T[at(s)].index /\ r.bucket = at(s) /\ at(s) \in 0..(N - 1)
      BY <2>2, <2>3, <2>4, <2>5
    <3>5. r.index # 0
      BY <3>1, <3>4
    <3> QED BY <3>3, <3>4, <3>5 DEF r
  <2>6. CASE T[at(s)].hashValue = 0
    <3>1. T[at(s)].index = 0
      BY <2>3, <2>4, <2>6, LiveUsed
    <3>2. ASSUME NEW i \in 0..(N - 1), T[i].index # 0, tab[T[i].index].prefix = p
          PROVE  FALSE
      <4>1. LiveOK(tab, h, T, N, m, T[i], i)
        BY <3>2, LiveUsed
      <4>2. PHolds(tab, h, T[i], p) /\ PathTo(T, N, h[p], i)
        BY <3>2, <4>1 DEF LiveOK, PHolds
      <4>3. PICK k \in 0..(N - 1) : at(k) = i /\ \A j \in 0..(k - 1) : T[at(j)].hashValue # 0
        BY <4>2 DEF PathTo, at
      <4>4. k >= s
        BY <2>3, <4>2, <4>3
      <4>5. k = s
        BY <2>3, <2>6, <4>3, <4>4
      <4> QED BY <3>1, <3>2, <4>3, <4>5
    <3>3. Lst(tab, p, m, 0)
      BY <1>1, <3>2
    <3>4. PICK t \in 0..s : r.bucket = at(t) /\ (t = s \/ T[at(t)].index = 0)
      BY <2>2, <2>6
    <3>5. T[at(t)].index = 0 /\ t \in 0..(N - 1) /\ at(t) \in 0..(N - 1)
      BY <2>3, <2>4, <3>1, <3>4
    <3>6. PathTo(T, N, h[p], at(t))
      <4>1. \A j \in 0..(t - 1) : T[at(j)].hashValue # 0
        BY <2>3, <3>4
      <4> QED BY <3>5, <4>1 DEF PathTo, at
    <3>7. r.index = 0
      BY <2>2, <3>1
    <3> QED BY <3>3, <3>4, <3>5, <3>6, <3>7 DEF r
  <2> QED BY <2>5, <2>6
<1> QED BY <1>2, <1>3

-----------------------------------------------------------------------------
(* Changing one bucket.                                                    *)

(* The bindings of other prefixes stay the last ones.                      *)
Carries(tab, p, m, m2) ==
  /\ \A q, k : q # p /\ k # 0 /\ Lst(tab, q, m, k) => Lst(tab, q, m2, k)
  /\ \A k \in 1..m2 : k <= m \/ tab[k].prefix = p

(* The only bucket that p may be in is c.                                  *)
Single(tab, T, N, p, c) ==
  /\ \A i \in 0..(N - 1) : T[i].index # 0 /\ tab[T[i].index].prefix = p => i = c
  /\ T[c].index = 0 \/ tab[T[c].index].prefix = p

Changed(T, T2, N, c, hv, x) ==
  /\ T2 \in Tables(N) /\ T2[c].index = x /\ T2[c].hashValue = hv
  /\ \A i \in 0..(N - 1) : i # c => T2[i] = T[i]

(* A search still passes where it passed when no bucket becomes empty.     *)
LEMMA PathKept ==
  ASSUME NEW T, NEW T2, NEW N \in Nat \ {0}, NEW hv \in Nat, NEW i, PathTo(T, N, hv, i),
         \A j \in 0..(N - 1) : T[j].hashValue # 0 => T2[j].hashValue # 0
  PROVE  PathTo(T2, N, hv, i)
<1>1. PICK k \in 0..(N - 1) : /\ Probe(N, hv, k) = i
                              /\ \A j \in 0..(k - 1) : T[Probe(N, hv, j)].hashValue # 0
  BY DEF PathTo
<1>2. \A j \in 0..(k - 1) : T2[Probe(N, hv, j)].hashValue # 0
  <2> TAKE j \in 0..(k - 1)
  <2>0. j \in Nat
    OBVIOUS
  <2>1. Probe(N, hv, j) \in 0..(N - 1)
    BY <2>0, ProbeIn
  <2> QED BY <1>1, <2>1
<1> QED BY <1>1, <1>2 DEF PathTo

(* Giving the bucket of p the last binding of p keeps the table sound.     *)
LEMMA Update ==
  ASSUME NEW tab, NEW h \in Hashes, NEW T, NEW T2, NEW N \in Nat, NEW m \in Nat,
         NEW m2 \in Nat, Sound(tab, h, T, N, m), NEW p \in NsPrefixes, p # NsDefault,
         NEW c \in 0..(N - 1), PathTo(T, N, h[p], c), Single(tab, T, N, p, c),
         Carries(tab, p, m, m2), NEW x, Lst(tab, p, m2, x), Changed(T, T2, N, c, h[p], x)
  PROVE  Sound(tab, h, T2, N, m2)
<1>0. N \in Nat \ {0} /\ h[p] \in Nat \ {0} /\ x \in 0..m2 /\ c \in 0..(N - 1)
      /\ T2[c].index = x /\ T2[c].hashValue = h[p]
  BY DEF Hashes, Lst, Changed
<1>1. \A j \in 0..(N - 1) : T[j].hashValue # 0 => T2[j].hashValue # 0
  BY <1>0 DEF Changed
<1>2. ASSUME NEW i \in 0..(N - 1), T2[i].index # 0
      PROVE  LiveOK(tab, h, T2, N, m2, T2[i], i)
  <2>1. CASE i = c
    <3>1. T2[i].index = x /\ x # 0 /\ T2[i].hashValue = h[p]
      BY <1>0, <1>2, <2>1
    <3>2. x \in 1..m2 /\ tab[x].prefix = p
      BY <1>0, <3>1 DEF Lst
    <3>3. PathTo(T2, N, h[p], c)
      BY <1>0, <1>1, PathKept, SMTT(60)
    <3> QED BY <2>1, <3>1, <3>2, <3>3 DEF LiveOK
  <2>2. CASE i # c
    <3>1. T2[i] = T[i] /\ T[i].index # 0
      BY <1>2, <2>2 DEF Changed
    <3>2. LiveOK(tab, h, T, N, m, T[i], i)
      BY <3>1, LiveUsed
    <3> DEFINE k == T[i].index
               q == tab[k].prefix
               hv == T[i].hashValue
    <3>3. k \in 1..m /\ q \in NsPrefixes \ {NsDefault} /\ hv = h[q] /\ Lst(tab, q, m, k)
          /\ PathTo(T, N, hv, i)
      BY <3>2 DEF LiveOK
    <3>4. q # p
      BY <2>2, <3>1 DEF Single
    <3>5. hv \in Nat
      BY <3>3 DEF Hashes
    <3> HIDE DEF k, q, hv
    <3>6. Lst(tab, q, m2, k)
      BY <3>3, <3>4 DEF Carries
    <3>7. k \in 1..m2
      BY <3>3, <3>6 DEF Lst
    <3>8. PathTo(T2, N, hv, i)
      BY <1>0, <1>1, <3>3, <3>5, PathKept
    <3> QED BY <3>1, <3>3, <3>6, <3>7, <3>8 DEF LiveOK, k, q, hv
  <2> QED BY <2>1, <2>2
<1>3. ASSUME NEW i \in 0..(N - 1), NEW j \in 0..(N - 1), T2[i].index # 0, T2[j].index # 0,
             tab[T2[i].index].prefix = tab[T2[j].index].prefix
      PROVE  i = j
  <2>1. x # 0 => tab[x].prefix = p
    BY <1>0 DEF Lst
  <2>2. CASE i = c /\ j # c
    <3>1. T2[j] = T[j] /\ tab[T[j].index].prefix = p /\ T[j].index # 0
      BY <1>0, <1>3, <2>1, <2>2 DEF Changed
    <3> QED BY <2>2, <3>1 DEF Single
  <2>3. CASE i # c /\ j = c
    <3>1. T2[i] = T[i] /\ tab[T[i].index].prefix = p /\ T[i].index # 0
      BY <1>0, <1>3, <2>1, <2>3 DEF Changed
    <3> QED BY <2>3, <3>1 DEF Single
  <2>4. CASE i # c /\ j # c
    <3>1. T2[i] = T[i] /\ T2[j] = T[j]
      BY <2>4 DEF Changed
    <3> QED BY <1>3, <3>1 DEF Sound
  <2> QED BY <2>2, <2>3, <2>4
<1> QED BY <1>2, <1>3 DEF Sound, Changed

(* And no binding in scope is lost by it.                                  *)
LEMMA UpdateComplete ==
  ASSUME NEW tab, NEW T, NEW T2, NEW N \in Nat, NEW m \in Nat,
         NEW m2 \in Nat, Complete(tab, T, N, m), NEW p \in NsPrefixes, p # NsDefault,
         NEW c \in 0..(N - 1), Single(tab, T, N, p, c),
         Carries(tab, p, m, m2), NEW x, Lst(tab, p, m2, x), NEW hv, Changed(T, T2, N, c, hv, x)
  PROVE  Complete(tab, T2, N, m2)
<1> SUFFICES ASSUME NEW k \in 1..m2, tab[k].prefix # NsDefault
             PROVE  \E i \in 0..(N - 1) :
                      T2[i].index # 0 /\ tab[T2[i].index].prefix = tab[k].prefix
  BY DEF Complete
<1>1. CASE tab[k].prefix = p
  <2>1. x # 0 /\ tab[x].prefix = p
    BY <1>1 DEF Lst
  <2> QED BY <1>1, <2>1 DEF Changed
<1>2. CASE tab[k].prefix # p
  <2>1. k \in 1..m
    BY <1>2 DEF Carries
  <2>2. PICK i \in 0..(N - 1) : T[i].index # 0 /\ tab[T[i].index].prefix = tab[k].prefix
    BY <2>1 DEF Complete
  <2>3. i # c
    BY <1>2, <2>2 DEF Single
  <2>4. T2[i] = T[i]
    BY <2>3 DEF Changed
  <2> QED BY <2>2, <2>4
<1> QED BY <1>1, <1>2

(* A new binding of p on top changes no other prefix.                      *)
LEMMA CarriesUp ==
  ASSUME NEW tab, NEW p, NEW m \in Nat, tab[m + 1].prefix = p
  PROVE  Carries(tab, p, m, m + 1) /\ Lst(tab, p, m + 1, m + 1)
BY DEF Carries, Lst

(* Nor does the topmost binding when it goes.                              *)
LEMMA CarriesDown ==
  ASSUME NEW tab, NEW p, NEW m \in Nat \ {0}, tab[m].prefix = p
  PROVE  Carries(tab, p, m, m - 1)
BY DEF Carries, Lst

(* Nor does leaving the stack alone.                                       *)
LEMMA CarriesSame ==
  ASSUME NEW tab, NEW p, NEW m \in Nat
  PROVE  Carries(tab, p, m, m)
BY DEF Carries, Lst

(* The table does not change with a binding of the default namespace.      *)
LEMMA CarryTable ==
  ASSUME NEW tab, NEW h, NEW T, NEW N \in Nat, NEW m \in Nat, NEW m2 \in Nat,
         Sound(tab, h, T, N, m), Complete(tab, T, N, m), Carries(tab, NsDefault, m, m2)
  PROVE  Sound(tab, h, T, N, m2) /\ Complete(tab, T, N, m2)
<1>1. ASSUME NEW i \in 0..(N - 1), T[i].index # 0
      PROVE  LiveOK(tab, h, T, N, m2, T[i], i)
  <2>1. LiveOK(tab, h, T, N, m, T[i], i)
    BY <1>1 DEF Sound
  <2> DEFINE k == T[i].index
             q == tab[k].prefix
             hv == T[i].hashValue
  <2>2. k \in 1..m /\ q \in NsPrefixes \ {NsDefault} /\ hv = h[q] /\ Lst(tab, q, m, k)
        /\ PathTo(T, N, hv, i)
    BY <2>1 DEF LiveOK
  <2> HIDE DEF k, q, hv
  <2>3. Lst(tab, q, m2, k)
    BY <2>2 DEF Carries
  <2>4. k \in 1..m2
    BY <2>2, <2>3 DEF Lst
  <2> QED BY <2>2, <2>3, <2>4 DEF LiveOK, k, q, hv
<1>2. Complete(tab, T, N, m2)
  <2> SUFFICES ASSUME NEW k \in 1..m2, tab[k].prefix # NsDefault
               PROVE  \E i \in 0..(N - 1) :
                        T[i].index # 0 /\ tab[T[i].index].prefix = tab[k].prefix
    BY DEF Complete
  <2>1. k \in 1..m
    BY DEF Carries
  <2> QED BY <2>1 DEF Complete
<1> QED BY <1>1, <1>2 DEF Sound

(* Only the lowest m bindings matter.                                      *)
LEMMA LstTab ==
  ASSUME NEW tab, NEW tab2, NEW m \in Nat, NEW p, NEW k,
         \A j \in 1..m : tab2[j].prefix = tab[j].prefix, Lst(tab, p, m, k)
  PROVE  Lst(tab2, p, m, k)
BY DEF Lst

(* The same of a table.                                                    *)
LEMMA SoundTab ==
  ASSUME NEW tab, NEW tab2, NEW h, NEW T, NEW N \in Nat, NEW m \in Nat,
         Sound(tab, h, T, N, m), Complete(tab, T, N, m),
         \A j \in 1..m : tab2[j].prefix = tab[j].prefix
  PROVE  Sound(tab2, h, T, N, m) /\ Complete(tab2, T, N, m)
<1>1. ASSUME NEW i \in 0..(N - 1), T[i].index # 0
      PROVE  LiveOK(tab2, h, T, N, m, T[i], i) /\ tab2[T[i].index].prefix = tab[T[i].index].prefix
  <2>1. LiveOK(tab, h, T, N, m, T[i], i)
    BY <1>1 DEF Sound
  <2> DEFINE k == T[i].index
             q == tab[k].prefix
             hv == T[i].hashValue
  <2>2. k \in 1..m /\ q \in NsPrefixes \ {NsDefault} /\ hv = h[q] /\ Lst(tab, q, m, k)
        /\ PathTo(T, N, hv, i)
    BY <2>1 DEF LiveOK
  <2>3. tab2[k].prefix = q
    BY <2>2
  <2> HIDE DEF k, q, hv
  <2>4. Lst(tab2, q, m, k)
    BY <2>2, LstTab
  <2>5. LiveOK(tab2, h, T, N, m, T[i], i)
    BY <2>2, <2>3, <2>4 DEF LiveOK, k, hv
  <2> QED BY <2>3, <2>5 DEF k, q
<1>2. ASSUME NEW i \in 0..(N - 1), NEW j \in 0..(N - 1), T[i].index # 0, T[j].index # 0,
             tab2[T[i].index].prefix = tab2[T[j].index].prefix
      PROVE  i = j
  <2>1. tab[T[i].index].prefix = tab[T[j].index].prefix
    BY <1>1, <1>2
  <2> QED BY <1>2, <2>1 DEF Sound
<1>3. Complete(tab2, T, N, m)
  <2> SUFFICES ASSUME NEW k \in 1..m, tab2[k].prefix # NsDefault
               PROVE  \E i \in 0..(N - 1) :
                        T[i].index # 0 /\ tab2[T[i].index].prefix = tab2[k].prefix
    BY DEF Complete
  <2>1. PICK i \in 0..(N - 1) : T[i].index # 0 /\ tab[T[i].index].prefix = tab[k].prefix
    BY DEF Complete
  <2> QED BY <1>1, <2>1
<1> QED BY <1>1, <1>2, <1>3 DEF Sound

-----------------------------------------------------------------------------
(* The buckets in use.                                                     *)

Used(T) == {i \in DOMAIN T : T[i].hashValue # 0}

(* The buckets in use can be counted.                                      *)
LEMMA UsedFinite ==
  ASSUME NEW N \in Nat, NEW T, T \in Tables(N)
  PROVE  IsFiniteSet(Used(T)) /\ Cardinality(Used(T)) \in Nat
<1>1. IsFiniteSet(DOMAIN T) /\ Used(T) \subseteq DOMAIN T
  BY TableSize DEF Used
<1>2. IsFiniteSet(Used(T))
  BY <1>1, FS_Subset
<1> QED BY <1>2, FS_CardinalityType

(* A table with fewer used buckets than buckets has an empty one.          *)
LEMMA FreeExists ==
  ASSUME NEW N \in Nat, NEW T, T \in Tables(N), N # 0 => Cardinality(Used(T)) < N
  PROVE  HasFree(T, N)
<1> SUFFICES ASSUME N # 0, \A i \in 0..(N - 1) : T[i].hashValue # 0 PROVE FALSE
  BY DEF HasFree
<1>1. Used(T) = DOMAIN T
  BY TableSize DEF Used
<1> QED BY <1>1, TableSize

(* Writing a bucket uses at most one more.                                 *)
LEMMA UsedUpdate ==
  ASSUME NEW N \in Nat, NEW T \in Tables(N), NEW T2, NEW c \in 0..(N - 1), NEW hv \in Nat \ {0},
         NEW x, Changed(T, T2, N, c, hv, x)
  PROVE  /\ Cardinality(Used(T2)) <= Cardinality(Used(T)) + 1
         /\ T[c].hashValue # 0 => Used(T2) = Used(T)
<1>0. T2 \in Tables(N) /\ DOMAIN T2 = 0..(N - 1) /\ DOMAIN T = 0..(N - 1)
  BY TableSize DEF Changed
<1>1. Used(T2) = Used(T) \cup {c}
  BY <1>0 DEF Used, Changed
<1>2. IsFiniteSet(Used(T)) /\ Cardinality(Used(T)) \in Nat
  BY UsedFinite
<1>3. Cardinality(Used(T) \cup {c}) <= Cardinality(Used(T)) + 1
  BY <1>2, FS_AddElement
<1>4. T[c].hashValue # 0 => c \in Used(T)
  BY <1>0 DEF Used
<1> QED BY <1>1, <1>3, <1>4

(* FreeBucket is an empty bucket that a search for the hash value meets.   *)
LEMMA FreeBucketIs ==
  ASSUME NEW N \in Nat \ {0}, NEW T \in Tables(N), NEW hv \in Nat, HasFree(T, N)
  PROVE  /\ FreeBucket(T, N, hv) \in 0..(N - 1)
         /\ T[FreeBucket(T, N, hv)].hashValue = 0
         /\ PathTo(T, N, hv, FreeBucket(T, N, hv))
<1> DEFINE S == {k \in 0..(N - 1) : T[Probe(N, hv, k)].hashValue = 0}
           s == Smallest(S)
<1>1. PICK i \in 0..(N - 1) : T[i].hashValue = 0
  BY DEF HasFree
<1>2. PICK k \in 0..(N - 1) : Probe(N, hv, k) = i
  BY ProbeOnto
<1>3. S \in SUBSET Nat /\ S # {}
  BY <1>1, <1>2
<1>4. s \in S /\ \A j \in S : s <= j
  <2> HIDE DEF S
  <2> QED BY <1>3, SmallestIs
<1>5. FreeBucket(T, N, hv) = Probe(N, hv, s)
  BY Zenon DEF FreeBucket
<1> HIDE DEF s
<1>6. s \in 0..(N - 1) /\ s \in Nat /\ T[Probe(N, hv, s)].hashValue = 0
      /\ \A j \in 0..(s - 1) : T[Probe(N, hv, j)].hashValue # 0
  BY <1>4
<1>7. Probe(N, hv, s) \in 0..(N - 1)
  BY <1>6, ProbeIn
<1>8. PathTo(T, N, hv, Probe(N, hv, s))
  BY <1>6 DEF PathTo
<1> QED BY <1>5, <1>6, <1>7, <1>8

-----------------------------------------------------------------------------
(* Growing the table.                                                      *)

(* The empty table that xmlParserNsPush allocates when the old one is half *)
(* full.                                                                   *)
EmptyTable(size) == [i \in 0..(size - 1) |-> EmptyBucket]

(* A bucket moved to it; tombstones and empty buckets are not.             *)
PutIn(table, size, b) ==
  IF b.hashValue = 0 \/ b.index = 0 THEN table
  ELSE [table EXCEPT ![FreeBucket(table, size, b.hashValue)] = b]

(* The table after each bucket.                                            *)
IsMoved(f, T, N, size) ==
  f = [n \in 0..N |-> IF n = 0 THEN EmptyTable(size) ELSE PutIn(f[n - 1], size, T[n - 1])]

(* The recursive function of Rehashed exists.                              *)
LEMMA MovedExists ==
  ASSUME NEW T, NEW N \in Nat, NEW size
  PROVE  \E f : IsMoved(f, T, N, size)
<1> DEFINE P == {n \in Nat : \E f : IsMoved(f, T, n, size)}
<1>1. 0 \in P
  <2>1. IsMoved([n \in 0..0 |-> EmptyTable(size)], T, 0, size)
    BY DEF IsMoved
  <2> QED BY <2>1
<1>2. ASSUME NEW n \in Nat, n \in P PROVE n + 1 \in P
  <2>1. PICK f : IsMoved(f, T, n, size)
    BY <1>2
  <2> DEFINE g == [i \in 0..(n + 1) |-> IF i = n + 1 THEN PutIn(f[n], size, T[i - 1]) ELSE f[i]]
  <2>2. \A i \in 0..(n + 1) : i # 0 => i - 1 \in 0..n /\ g[i - 1] = f[i - 1]
    OBVIOUS
  <2>3. \A i \in 0..n : f[i] = IF i = 0 THEN EmptyTable(size) ELSE PutIn(f[i - 1], size, T[i - 1])
    BY <2>1, Zenon DEF IsMoved
  <2>4. \A i \in 0..(n + 1) :
          g[i] = IF i = 0 THEN EmptyTable(size) ELSE PutIn(g[i - 1], size, T[i - 1])
    BY <2>2, <2>3
  <2>5. IsMoved(g, T, n + 1, size)
    BY <2>4, Zenon DEF IsMoved
  <2> HIDE DEF g
  <2>6. \E e : IsMoved(e, T, n + 1, size)
    BY <2>5
  <2> QED BY <2>6
<1> HIDE DEF P
<1>3. N \in P
  BY <1>1, <1>2, Induct
<1> QED BY <1>3 DEF P

GrownSize == IF HashSize = 0 THEN NsInitSize ELSE 2 * HashSize

(* Rehashed is the last of those tables.                                   *)
LEMMA RehashedDef ==
  ASSUME HashSize \in Nat
  PROVE  \E f : IsMoved(f, nsHash, HashSize, GrownSize) /\ Rehashed = f[HashSize]
<1>1. \E f : IsMoved(f, nsHash, HashSize, GrownSize)
  BY MovedExists
<1> QED BY <1>1, Zenon DEF IsMoved, Rehashed, GrownSize, EmptyTable, PutIn

(* The first n buckets that hold a binding in scope.                       *)
Live(T, n) == {j \in 0..(n - 1) : T[j].index # 0}

(* They can be counted and are in use.                                     *)
LEMMA LiveCounted ==
  ASSUME NEW tab, NEW h \in Hashes, NEW T, NEW N \in Nat, NEW m, Sound(tab, h, T, N, m),
         NEW n \in 0..N
  PROVE  /\ IsFiniteSet(Live(T, n)) /\ Cardinality(Live(T, n)) \in Nat
         /\ Cardinality(Live(T, n)) <= Cardinality(Used(T))
         /\ Cardinality(Used(T)) <= N
<1>1. T \in Tables(N)
  BY DEF Sound
<1>2. DOMAIN T = 0..(N - 1) /\ IsFiniteSet(DOMAIN T) /\ Cardinality(DOMAIN T) = N
  BY <1>1, TableSize
<1>3. IsFiniteSet(Used(T)) /\ Cardinality(Used(T)) \in Nat
  BY <1>1, UsedFinite
<1>4. Live(T, n) \subseteq Used(T)
  <2> SUFFICES ASSUME NEW j \in Live(T, n) PROVE j \in Used(T)
    OBVIOUS
  <2>1. j \in 0..(N - 1) /\ T[j].index # 0
    BY DEF Live
  <2>2. T[j].hashValue # 0
    BY <2>1, LiveUsed
  <2> QED BY <1>2, <2>1, <2>2 DEF Used
<1>5. Used(T) \subseteq DOMAIN T
  BY DEF Used
<1>6. Cardinality(Used(T)) <= N
  BY <1>2, <1>5, FS_Subset
<1> QED BY <1>3, <1>4, <1>6, FS_Subset, FS_CardinalityType

(* R has the live ones of the first n buckets of T and no others.          *)
Moved(tab, h, T, m, R, size, n) ==
  /\ Sound(tab, h, R, size, m)
  /\ \A i \in 0..(size - 1) : R[i].index # 0 => \E j \in 0..(n - 1) : R[i] = T[j]
  /\ \A j \in 0..(n - 1) : T[j].index # 0 => \E i \in 0..(size - 1) : R[i] = T[j]
  /\ Cardinality(Used(R)) <= Cardinality(Live(T, n))

(* At first nothing is moved.                                              *)
LEMMA MovedNone ==
  ASSUME NEW tab, NEW h, NEW T, NEW m, NEW size \in Nat
  PROVE  Moved(tab, h, T, m, EmptyTable(size), size, 0)
<1> DEFINE R == EmptyTable(size)
<1>1. R \in Tables(size) /\ \A i \in 0..(size - 1) : R[i].index = 0 /\ R[i].hashValue = 0
  BY DEF EmptyTable, EmptyBucket, Tables, Bkt
<1>2. DOMAIN R = 0..(size - 1)
  BY <1>1, TableSize
<1>3. Used(R) = {}
  BY <1>1, <1>2 DEF Used
<1>4. Live(T, 0) = {}
  BY DEF Live
<1> HIDE DEF R
<1>5. Sound(tab, h, R, size, m)
  BY <1>1 DEF Sound
<1>6. Cardinality(Used(R)) <= Cardinality(Live(T, 0))
  BY <1>3, <1>4, FS_EmptySet
<1> QED BY <1>1, <1>5, <1>6 DEF Moved, R

(* Moving one bucket finds an empty one, as the new table is larger than   *)
(* the old one.                                                            *)
LEMMA MovedOne ==
  ASSUME NEW tab, NEW h \in Hashes, NEW T, NEW N \in Nat, NEW m \in Nat, NEW size \in Nat,
         N < size, Sound(tab, h, T, N, m), NEW n \in 0..(N - 1), NEW R,
         Moved(tab, h, T, m, R, size, n)
  PROVE  Moved(tab, h, T, m, PutIn(R, size, T[n]), size, n + 1)
<1> DEFINE b == T[n]
           R2 == PutIn(R, size, b)
<1>0. T \in Tables(N) /\ R \in Tables(size) /\ b \in Bkt
      /\ n \in Nat /\ n \in 0..N /\ n + 1 \in 0..N
      /\ size \in Nat \ {0} /\ Sound(tab, h, R, size, m)
  BY DEF Sound, Tables, Moved
<1>l. /\ IsFiniteSet(Live(T, n)) /\ Cardinality(Live(T, n)) \in Nat
      /\ Cardinality(Live(T, n)) <= Cardinality(Used(T)) /\ Cardinality(Used(T)) <= N
      /\ Cardinality(Used(T)) \in Nat
  <2>1. n \in 0..N
    BY <1>0
  <2> QED BY <1>0, <2>1, LiveCounted, UsedFinite
<1>u. Cardinality(Used(R)) \in Nat /\ Cardinality(Used(R)) <= Cardinality(Live(T, n))
  BY <1>0, UsedFinite DEF Moved
<1>1. CASE b.index = 0
  <2>1. R2 = R
    BY <1>1 DEF PutIn
  <2>2. Live(T, n + 1) = Live(T, n)
    BY <1>0, <1>1 DEF Live
  <2>3. \A j \in 0..((n + 1) - 1) : T[j].index # 0 => j \in 0..(n - 1)
    BY <1>0, <1>1
  <2>4. \A j \in 0..(n - 1) : j \in 0..((n + 1) - 1)
    BY <1>0
  <2> HIDE DEF R2
  <2>5. Moved(tab, h, T, m, R, size, n + 1)
    BY <2>2, <2>3, <2>4, Zenon DEF Moved
  <2> QED BY <2>1, <2>5 DEF R2
<1>2. CASE b.index # 0
  <2>1. LiveOK(tab, h, T, N, m, b, n) /\ b.hashValue # 0
    <3>1. LiveOK(tab, h, T, N, m, T[n], n)
      BY <1>2 DEF Sound
    <3>2. T[n].hashValue # 0
      BY <1>2, LiveUsed, SMTT(60)
    <3> QED BY <3>1, <3>2
  <2> DEFINE p == tab[b.index].prefix
             c == FreeBucket(R, size, b.hashValue)
  <2>2. p \in NsPrefixes /\ p # NsDefault /\ b.hashValue = h[p] /\ Lst(tab, p, m, b.index)
        /\ h[p] \in Nat \ {0}
    BY <2>1 DEF LiveOK, Hashes
  <2>3. HasFree(R, size)
    <3>1. Cardinality(Used(R)) < size
      BY <1>0, <1>l, <1>u, SMTT(60)
    <3> QED BY <1>0, <3>1, FreeExists
  <2>4. c \in 0..(size - 1) /\ R[c].hashValue = 0 /\ PathTo(R, size, h[p], c)
    <3>1. b.hashValue \in Nat
      BY <1>0 DEF Bkt
    <3> QED BY <1>0, <2>2, <2>3, <3>1, FreeBucketIs
  <2>5. R2 = [R EXCEPT ![c] = b]
    BY <1>2, <2>1 DEF PutIn
  <2> HIDE DEF R2, c
  <2>6. Changed(R, R2, size, c, h[p], b.index) /\ R2[c] = b
    BY <1>0, <2>2, <2>4, <2>5 DEF Changed, Tables
  <2>7. R[c].index = 0
    BY <1>0, <2>4, LiveUsed
  <2>8. ASSUME NEW i \in 0..(size - 1), R[i].index # 0, tab[R[i].index].prefix = p PROVE FALSE
    <3>1. PICK j \in 0..(n - 1) : R[i] = T[j]
      BY <2>8 DEF Moved
    <3>2. j \in 0..(N - 1) /\ j # n /\ T[j].index # 0 /\ tab[T[j].index].prefix = tab[T[n].index].prefix
      BY <1>0, <2>8, <3>1
    <3> QED BY <1>2, <3>2 DEF Sound
  <2>9. Single(tab, R, size, p, c)
    BY <2>7, <2>8 DEF Single
  <2>10. Sound(tab, h, R2, size, m)
    <3> DEFINE x == b.index
    <3>1. Lst(tab, p, m, x) /\ Changed(R, R2, size, c, h[p], x)
      BY <2>2, <2>6
    <3>2. Carries(tab, p, m, m)
      BY CarriesSame
    <3>3. p \in NsPrefixes /\ p # NsDefault /\ c \in 0..(size - 1) /\ PathTo(R, size, h[p], c)
      BY <2>2, <2>4
    <3> HIDE DEF p, x
    <3> QED BY <1>0, <2>9, <3>1, <3>2, <3>3, Update
  <2>11. \A i \in 0..(size - 1) : R2[i].index # 0 => \E j \in 0..((n + 1) - 1) : R2[i] = T[j]
    <3> SUFFICES ASSUME NEW i \in 0..(size - 1), R2[i].index # 0
                 PROVE  \E j \in 0..((n + 1) - 1) : R2[i] = T[j]
      OBVIOUS
    <3>1. CASE i = c
      BY <1>0, <2>6, <3>1
    <3>2. CASE i # c
      <4>1. R2[i] = R[i]
        BY <2>6, <3>2 DEF Changed
      <4>2. PICK j \in 0..(n - 1) : R[i] = T[j]
        BY <4>1 DEF Moved
      <4> QED BY <1>0, <4>1, <4>2
    <3> QED BY <3>1, <3>2
  <2>12. \A j \in 0..((n + 1) - 1) : T[j].index # 0 => \E i \in 0..(size - 1) : R2[i] = T[j]
    <3> SUFFICES ASSUME NEW j \in 0..((n + 1) - 1), T[j].index # 0
                 PROVE  \E i \in 0..(size - 1) : R2[i] = T[j]
      OBVIOUS
    <3>1. CASE j = n
      BY <2>4, <2>6, <3>1
    <3>2. CASE j # n
      <4>1. j \in 0..(n - 1)
        BY <1>0, <3>2
      <4>2. PICK i \in 0..(size - 1) : R[i] = T[j]
        BY <4>1 DEF Moved
      <4>3. i # c
        BY <2>7, <4>2
      <4> QED BY <2>6, <4>2, <4>3 DEF Changed
    <3> QED BY <3>1, <3>2
  <2>13. Cardinality(Used(R2)) <= Cardinality(Live(T, n + 1))
    <3>1. Cardinality(Used(R2)) <= Cardinality(Used(R)) + 1
      <4> DEFINE x == b.index
                 hv == h[p]
      <4>1. hv \in Nat \ {0} /\ Changed(R, R2, size, c, hv, x)
        BY <2>2, <2>6
      <4> HIDE DEF hv, x
      <4> QED BY <1>0, <2>4, <4>1, UsedUpdate
    <3>2. Live(T, n + 1) = Live(T, n) \cup {n} /\ n \notin Live(T, n)
      BY <1>0, <1>2 DEF Live
    <3>3. Cardinality(Live(T, n + 1)) = Cardinality(Live(T, n)) + 1
      BY <1>l, <3>2, FS_AddElement
    <3>4. Cardinality(Used(R2)) \in Nat
      BY <1>0, <2>6, UsedFinite DEF Changed
    <3> QED BY <1>l, <1>u, <3>1, <3>3, <3>4
  <2> QED BY <2>10, <2>11, <2>12, <2>13 DEF Moved, R2
<1> QED BY <1>1, <1>2

(* Growing keeps what the table says, drops the tombstones and makes room. *)
LEMMA RehashedSound ==
  ASSUME NEW h \in Hashes, NEW N \in Nat, NEW m \in Nat, NsInitSize \in Nat \ {0, 1},
         Sound(nsTab, h, nsHash, N, m), Complete(nsTab, nsHash, N, m)
  PROVE  /\ GrownSize \in Nat /\ GrownSize >= 2 /\ N < GrownSize /\ 2 * N <= GrownSize
         /\ Sound(nsTab, h, Rehashed, GrownSize, m)
         /\ Complete(nsTab, Rehashed, GrownSize, m)
         /\ Cardinality(Used(Rehashed)) <= Cardinality(Used(nsHash))
<1> DEFINE size == GrownSize
           T == nsHash
           tab == nsTab
<1>1. HashSize = N /\ T \in Tables(N)
  BY TableSize DEF Sound, HashSize
<1>2. size \in Nat /\ size >= 2 /\ N < size /\ 2 * N <= size
  BY <1>1 DEF GrownSize
<1>3. PICK f : IsMoved(f, T, N, size) /\ Rehashed = f[N]
  BY <1>1, RehashedDef
<1>4. f[0] = EmptyTable(size)
  BY <1>3 DEF IsMoved
<1>5. \A n \in 0..(N - 1) : f[n + 1] = PutIn(f[n], size, T[n])
  <2>1. \A i \in 0..N : f[i] = IF i = 0 THEN EmptyTable(size) ELSE PutIn(f[i - 1], size, T[i - 1])
    BY <1>3, Zenon DEF IsMoved
  <2> SUFFICES ASSUME NEW n \in 0..(N - 1) PROVE f[n + 1] = PutIn(f[n], size, T[n])
    OBVIOUS
  <2>2. n + 1 \in 0..N /\ n + 1 # 0 /\ (n + 1) - 1 = n
    OBVIOUS
  <2>3. f[n + 1] = PutIn(f[(n + 1) - 1], size, T[(n + 1) - 1])
    BY <2>1, <2>2, Zenon
  <2> QED BY <2>2, <2>3, Zenon
<1> HIDE DEF size, T, tab
<1> DEFINE P == {n \in Nat : n <= N => Moved(tab, h, T, m, f[n], size, n)}
<1>6. 0 \in P
  BY <1>2, <1>4, MovedNone
<1>7. ASSUME NEW n \in Nat, n \in P PROVE n + 1 \in P
  <2> SUFFICES ASSUME n + 1 <= N PROVE Moved(tab, h, T, m, f[n + 1], size, n + 1)
    OBVIOUS
  <2>1. n \in 0..(N - 1) /\ Moved(tab, h, T, m, f[n], size, n)
    BY <1>7
  <2>2. Sound(tab, h, T, N, m)
    BY DEF tab, T
  <2>3. Moved(tab, h, T, m, PutIn(f[n], size, T[n]), size, n + 1)
    <3> DEFINE R == f[n]
    <3>1. Moved(tab, h, T, m, R, size, n)
      BY <2>1
    <3> HIDE DEF R
    <3>2. Moved(tab, h, T, m, PutIn(R, size, T[n]), size, n + 1)
      BY <1>2, <2>1, <2>2, <3>1, MovedOne
    <3> QED BY <3>2 DEF R
  <2> QED BY <1>5, <2>1, <2>3
<1>8. N \in P
  <2> HIDE DEF P
  <2> QED BY <1>6, <1>7, Induct
<1> DEFINE R == Rehashed
<1>9. Moved(tab, h, T, m, R, size, N)
  BY <1>3, <1>8
<1> HIDE DEF R
<1>10. Complete(tab, R, size, m)
  <2> SUFFICES ASSUME NEW k \in 1..m, tab[k].prefix # NsDefault
               PROVE  \E i \in 0..(size - 1) :
                        R[i].index # 0 /\ tab[R[i].index].prefix = tab[k].prefix
    BY DEF Complete
  <2>1. PICK j \in 0..(N - 1) : T[j].index # 0 /\ tab[T[j].index].prefix = tab[k].prefix
    BY DEF Complete, tab, T
  <2>2. PICK i \in 0..(size - 1) : R[i] = T[j]
    BY <1>9, <2>1 DEF Moved
  <2> QED BY <2>1, <2>2
<1>11. Cardinality(Used(R)) <= Cardinality(Used(T))
  <2>1. N \in 0..N /\ Sound(tab, h, T, N, m) /\ Sound(tab, h, R, size, m)
    BY <1>9 DEF Moved, tab, T
  <2>2. Cardinality(Live(T, N)) <= Cardinality(Used(T)) /\ Cardinality(Live(T, N)) \in Nat
    BY <2>1, LiveCounted
  <2>3. Cardinality(Used(T)) \in Nat /\ Cardinality(Used(R)) \in Nat
    BY <1>2, <2>1, UsedFinite DEF Sound
  <2> QED BY <1>9, <2>2, <2>3 DEF Moved
<1>12. Sound(tab, h, R, size, m)
  BY <1>9 DEF Moved
<1> QED BY <1>2, <1>10, <1>11, <1>12 DEF size, T, tab, R

(* There is only one last binding of a prefix.                             *)
LEMMA LstUnique ==
  ASSUME NEW tab, NEW p, NEW m \in Nat, NEW k, NEW l, Lst(tab, p, m, k), Lst(tab, p, m, l)
  PROVE  k = l
BY DEF Lst

Repointed(T, T2, c, x) == T2 = [T EXCEPT ![c].index = x]

(* The bucket of p gets another binding of it.                             *)
CanRepoint(tab, h, T, T2, N, m, m2, p, c, x) ==
  /\ h \in Hashes /\ N \in Nat /\ m \in Nat /\ m2 \in Nat
  /\ Sound(tab, h, T, N, m) /\ Complete(tab, T, N, m) /\ p \in NsPrefixes /\ p # NsDefault
  /\ c \in 0..(N - 1) /\ T[c].index # 0 /\ tab[T[c].index].prefix = p
  /\ Carries(tab, p, m, m2) /\ Lst(tab, p, m2, x) /\ Repointed(T, T2, c, x)

(* The table stays right when the bucket of p is pointed to another        *)
(* binding, and uses no other bucket.                                      *)
LEMMA Repoint ==
  ASSUME NEW tab, NEW h, NEW T, NEW T2, NEW N, NEW m, NEW m2, NEW p, NEW c, NEW x,
         CanRepoint(tab, h, T, T2, N, m, m2, p, c, x)
  PROVE  Sound(tab, h, T2, N, m2) /\ Complete(tab, T2, N, m2) /\ Used(T2) = Used(T)
<1>0. /\ h \in Hashes /\ N \in Nat /\ m \in Nat /\ m2 \in Nat
      /\ Sound(tab, h, T, N, m) /\ Complete(tab, T, N, m) /\ p \in NsPrefixes /\ p # NsDefault
      /\ c \in 0..(N - 1) /\ T[c].index # 0 /\ tab[T[c].index].prefix = p
      /\ Carries(tab, p, m, m2) /\ Lst(tab, p, m2, x) /\ Repointed(T, T2, c, x)
  BY DEF CanRepoint
<1>1. T \in Tables(N) /\ x \in Nat /\ T[c] \in Bkt
  BY <1>0 DEF Sound, Lst, Tables
<1>2. LiveOK(tab, h, T, N, m, T[c], c) /\ T[c].hashValue # 0
  <2>1. LiveOK(tab, h, T, N, m, T[c], c)
    BY <1>0 DEF Sound
  <2>2. T[c].hashValue # 0
    BY <1>0, <2>1 DEF LiveOK, Hashes
  <2> QED BY <2>1, <2>2
<1>3. T[c].hashValue = h[p] /\ PathTo(T, N, h[p], c) /\ h[p] \in Nat \ {0}
  BY <1>0, <1>2 DEF LiveOK, Hashes
<1>4. Single(tab, T, N, p, c)
  BY <1>0 DEF Single, Sound
<1>5. Changed(T, T2, N, c, h[p], x)
  BY <1>0, <1>1, <1>3 DEF Changed, Tables, Bkt, Repointed
<1>6. Sound(tab, h, T2, N, m2)
  BY <1>0, <1>3, <1>4, <1>5, Update
<1>7. Complete(tab, T2, N, m2)
  <2> DEFINE hv == h[p]
  <2>1. Changed(T, T2, N, c, hv, x)
    BY <1>5
  <2> HIDE DEF hv
  <2> QED BY <1>0, <1>4, <2>1, UpdateComplete
<1>8. Used(T2) = Used(T)
  <2> DEFINE hv == h[p]
  <2>1. hv \in Nat \ {0} /\ Changed(T, T2, N, c, hv, x)
    BY <1>3, <1>5
  <2> HIDE DEF hv
  <2> QED BY <1>0, <1>1, <1>2, <2>1, UsedUpdate
<1> QED BY <1>6, <1>7, <1>8

(* A bucket for a prefix that has no binding.                              *)
LEMMA Insert ==
  ASSUME NEW tab, NEW h \in Hashes, NEW T, NEW T2, NEW N \in Nat, NEW m \in Nat,
         Sound(tab, h, T, N, m), Complete(tab, T, N, m), NEW p \in NsPrefixes, p # NsDefault,
         Lst(tab, p, m, 0), tab[m + 1].prefix = p,
         NEW c \in 0..(N - 1), T[c].index = 0, PathTo(T, N, h[p], c),
         T2 = [T EXCEPT ![c] = [hashValue |-> h[p], index |-> m + 1]]
  PROVE  /\ Sound(tab, h, T2, N, m + 1) /\ Complete(tab, T2, N, m + 1)
         /\ Cardinality(Used(T2)) <= Cardinality(Used(T)) + 1
<1>1. T \in Tables(N) /\ h[p] \in Nat \ {0} /\ m + 1 \in Nat
  BY DEF Sound, Hashes
<1>2. ASSUME NEW i \in 0..(N - 1), T[i].index # 0, tab[T[i].index].prefix = p PROVE FALSE
  <2>1. LiveOK(tab, h, T, N, m, T[i], i)
    BY <1>2, LiveUsed
  <2>2. Lst(tab, p, m, T[i].index)
    BY <1>2, <2>1 DEF LiveOK
  <2>3. T[i].index = 0
    BY <2>2, LstUnique
  <2> QED BY <1>2, <2>3
<1>3. Single(tab, T, N, p, c)
  BY <1>2 DEF Single
<1>4. Changed(T, T2, N, c, h[p], m + 1)
  BY <1>1 DEF Changed, Tables, Bkt
<1>5. Carries(tab, p, m, m + 1) /\ Lst(tab, p, m + 1, m + 1)
  BY CarriesUp
<1>6. Sound(tab, h, T2, N, m + 1)
  <2> DEFINE x == m + 1
  <2>1. x \in Nat /\ Carries(tab, p, m, x) /\ Lst(tab, p, x, x) /\ Changed(T, T2, N, c, h[p], x)
    BY <1>1, <1>4, <1>5
  <2> HIDE DEF x
  <2>2. Sound(tab, h, T2, N, x)
    BY <1>3, <2>1, Update
  <2> QED BY <2>2 DEF x
<1> DEFINE hv == h[p]
           x == m + 1
<1>7. hv \in Nat \ {0} /\ Changed(T, T2, N, c, hv, x) /\ x \in Nat /\ Carries(tab, p, m, x)
      /\ Lst(tab, p, x, x)
  BY <1>1, <1>4, <1>5
<1> HIDE DEF hv, x
<1>8. Complete(tab, T2, N, x)
  BY <1>3, <1>7, UpdateComplete
<1>9. Cardinality(Used(T2)) <= Cardinality(Used(T)) + 1
  BY <1>1, <1>7, UsedUpdate
<1> QED BY <1>6, <1>8, <1>9 DEF x

-----------------------------------------------------------------------------
(* Taking bindings back.                                                   *)

(* One binding taken back, as in the loop of xmlParserNsPop.               *)
UndoStep(st, b) ==
  IF b.prefix = NsDefault THEN [st EXCEPT !.default = b.old]
  ELSE [st EXCEPT !.hash[HashLookup(st.hash, b.prefix).bucket].index = b.old]

(* The table and the default after each turn.                              *)
IsUndone(f, st, s, nr) ==
  f = [n \in 0..nr |-> IF n = 0 THEN st ELSE UndoStep(f[n - 1], s[Len(s) - n + 1])]

(* The recursive function of Restored exists.                              *)
LEMMA UndoneExists ==
  ASSUME NEW st, NEW s, NEW nr \in Nat
  PROVE  \E f : IsUndone(f, st, s, nr)
<1> DEFINE P == {n \in Nat : \E f : IsUndone(f, st, s, n)}
           b(i) == s[Len(s) - i + 1]
<1>1. 0 \in P
  <2>1. IsUndone([n \in 0..0 |-> st], st, s, 0)
    BY DEF IsUndone
  <2> QED BY <2>1
<1>2. ASSUME NEW n \in Nat, n \in P PROVE n + 1 \in P
  <2>1. PICK f : IsUndone(f, st, s, n)
    BY <1>2
  <2>3. \A i \in 0..n : f[i] = IF i = 0 THEN st ELSE UndoStep(f[i - 1], b(i))
    BY <2>1, Zenon DEF IsUndone
  <2> HIDE DEF b
  <2> DEFINE g == [i \in 0..(n + 1) |-> IF i = n + 1 THEN UndoStep(f[n], b(i)) ELSE f[i]]
  <2>2. \A i \in 0..(n + 1) : i # 0 => i - 1 \in 0..n /\ g[i - 1] = f[i - 1]
    OBVIOUS
  <2>4. \A i \in 0..(n + 1) : g[i] = IF i = 0 THEN st ELSE UndoStep(g[i - 1], b(i))
    BY <2>2, <2>3
  <2>5. IsUndone(g, st, s, n + 1)
    BY <2>4, Zenon DEF IsUndone, b
  <2> HIDE DEF g
  <2>6. \E e : IsUndone(e, st, s, n + 1)
    BY <2>5
  <2> QED BY <2>6
<1> HIDE DEF P
<1>3. nr \in P
  BY <1>1, <1>2, Induct
<1> QED BY <1>3 DEF P

(* Restored is the last of its values.                                     *)
LEMMA RestoredDef ==
  ASSUME NEW nr \in Nat
  PROVE  \E f : /\ IsUndone(f, [hash |-> nsHash, default |-> nsDefault], nsTab, nr)
                /\ Restored(nr) = f[nr]
<1>1. \E f : IsUndone(f, [hash |-> nsHash, default |-> nsDefault], nsTab, nr)
  BY UndoneExists
<1> QED BY <1>1, Zenon DEF IsUndone, Restored, UndoStep

(* Hash table and default as of the lowest m bindings.                     *)
Undone(tab, h, st, N, m, U) ==
  /\ DOMAIN st = {"hash", "default"}
  /\ Sound(tab, h, st.hash, N, m) /\ Complete(tab, st.hash, N, m)
  /\ Lst(tab, NsDefault, m, st.default)
  /\ Used(st.hash) = U

(* The lowest L bindings know the binding they shadow.                     *)
ShadowedBy(tab, L) == \A i \in 1..L : Lst(tab, tab[i].prefix, i - 1, tab[i].old)

(* A turn of the loop finds the bucket of the topmost binding and restores *)
(* what it shadowed.                                                       *)
LEMMA UndoOne ==
  ASSUME NEW st, NEW N \in Nat, NEW m \in Nat \ {0}, NEW U, NEW L \in Nat, m <= L,
         nsHashOf \in Hashes, N # 0 => Cardinality(U) < N, nsTab[m].prefix \in NsPrefixes,
         ShadowedBy(nsTab, L), Undone(nsTab, nsHashOf, st, N, m, U)
  PROVE  Undone(nsTab, nsHashOf, UndoStep(st, nsTab[m]), N, m - 1, U)
<1> DEFINE tab == nsTab
           h == nsHashOf
           T == st.hash
           b == tab[m]
           p == b.prefix
           r == UndoStep(st, b)
           x == b.old
<1>1. m - 1 \in Nat /\ Lst(tab, p, m - 1, x) /\ Carries(tab, p, m, m - 1)
      /\ m \in Nat /\ h \in Hashes /\ p \in NsPrefixes
  BY CarriesDown DEF ShadowedBy
<1>2. DOMAIN st = {"hash", "default"} /\ Sound(tab, h, T, N, m) /\ Complete(tab, T, N, m)
      /\ Lst(tab, NsDefault, m, st.default) /\ Used(T) = U
  BY DEF Undone
<1>3. CASE p = NsDefault
  <2>1. r = [st EXCEPT !.default = x]
    BY <1>3 DEF UndoStep
  <2> HIDE DEF r, x
  <2>2. DOMAIN r = {"hash", "default"} /\ r.hash = T /\ r.default = x
    BY <1>2, <2>1
  <2> DEFINE m2 == m - 1
  <2>3. m2 \in Nat /\ Carries(tab, NsDefault, m, m2)
    BY <1>1, <1>3
  <2> HIDE DEF m2, tab, h, T
  <2>4. Sound(tab, h, T, N, m2) /\ Complete(tab, T, N, m2)
    BY <1>1, <1>2, <2>3, CarryTable
  <2>5. Sound(tab, h, T, N, m - 1) /\ Complete(tab, T, N, m - 1)
    BY <2>4 DEF m2
  <2>6. Undone(tab, h, r, N, m - 1, U)
    BY <1>1, <1>2, <1>3, <2>2, <2>5 DEF Undone
  <2> QED BY <2>6 DEF tab, h, r
<1>4. CASE p # NsDefault
  <2> DEFINE k == PLook(tab, h, T, p)
             c == k.bucket
             T2 == [T EXCEPT ![c].index = x]
  <2>1. r = [st EXCEPT !.hash[c].index = x]
    <3>1. HashLookup(T, p) = k
      BY LookupPure
    <3>2. r = [st EXCEPT !.hash[HashLookup(T, p).bucket].index = x]
      BY <1>4, Zenon DEF UndoStep
    <3> HIDE DEF k
    <3> QED BY <3>1, <3>2
  <2> HIDE DEF r
  <2>2. DOMAIN r = {"hash", "default"} /\ r.hash = T2 /\ r.default = st.default
    <3> HIDE DEF c, x
    <3> QED BY <1>2, <2>1
  <2> HIDE DEF tab, h, T
  <2>3. HasFree(T, N)
    BY <1>2, FreeExists DEF Sound
  <2> HIDE DEF p
  <2>4. /\ Lst(tab, p, m, k.index)
        /\ k.index # 0 => c \in 0..(N - 1) /\ T[c].index = k.index
    BY <1>1, <1>2, <1>4, <2>3, LookRight
  <2> HIDE DEF k, c
  <2>5. Lst(tab, p, m, m)
    BY <1>1 DEF Lst, p, b
  <2>6. k.index = m
    BY <1>1, <2>4, <2>5, LstUnique
  <2>7. c \in 0..(N - 1) /\ T[c].index # 0 /\ tab[T[c].index].prefix = p
    BY <2>4, <2>6 DEF p, b
  <2> DEFINE m2 == m - 1
  <2>8. m2 \in Nat /\ Lst(tab, p, m2, x) /\ Carries(tab, p, m, m2)
    BY <1>1 DEF p
  <2> HIDE DEF m2, x, b
  <2>9. Sound(tab, h, T2, N, m2) /\ Complete(tab, T2, N, m2) /\ Used(T2) = Used(T)
    <3>1. Repointed(T, T2, c, x)
      BY DEF Repointed
    <3> HIDE DEF T2
    <3>2. h \in Hashes /\ p \in NsPrefixes /\ p # NsDefault /\ m \in Nat
      BY <1>1, <1>4 DEF h, p
    <3>3. Sound(tab, h, T, N, m) /\ Complete(tab, T, N, m)
      BY <1>2
    <3>4. CanRepoint(tab, h, T, T2, N, m, m2, p, c, x)
      BY <2>7, <2>8, <3>1, <3>2, <3>3 DEF CanRepoint
    <3> QED BY <3>4, Repoint
  <2>10. Lst(tab, NsDefault, m - 1, st.default)
    <3>1. tab[m].prefix # NsDefault
      BY <1>4 DEF p, b
    <3> QED BY <1>2, <3>1 DEF Lst
  <2> HIDE DEF T2
  <2>11. Undone(tab, h, r, N, m - 1, U)
    BY <1>2, <2>2, <2>9, <2>10 DEF Undone, m2
  <2> QED BY <2>11 DEF tab, h, r, b
<1> QED BY <1>3, <1>4

NsBindings == [prefix : NsPrefixes, uri : NsUris, elementId : Nat, old : Nat]

(* Popping nr bindings leaves the table and the default right for the      *)
(* rest.                                                                   *)
LEMMA UndoAll ==
  ASSUME NEW N \in Nat, nsTab \in Seq(NsBindings),
         nsHashOf \in Hashes, N # 0 => Cardinality(Used(nsHash)) < N,
         ShadowedBy(nsTab, Len(nsTab)), Sound(nsTab, nsHashOf, nsHash, N, Len(nsTab)),
         Complete(nsTab, nsHash, N, Len(nsTab)), Lst(nsTab, NsDefault, Len(nsTab), nsDefault),
         NEW nr \in 0..Len(nsTab)
  PROVE  Undone(nsTab, nsHashOf, Restored(nr), N, Len(nsTab) - nr, Used(nsHash))
<1> DEFINE L == Len(nsTab)
           st0 == [hash |-> nsHash, default |-> nsDefault]
           U == Used(nsHash)
<1>0. L \in Nat /\ nr \in Nat
  OBVIOUS
<1>1. PICK f : IsUndone(f, st0, nsTab, nr) /\ Restored(nr) = f[nr]
  BY <1>0, RestoredDef
<1>2. Undone(nsTab, nsHashOf, st0, N, L, U)
  BY DEF Undone
<1>3. f[0] = st0
  BY <1>0, <1>1 DEF IsUndone
<1>4. \A n \in 0..(nr - 1) : f[n + 1] = UndoStep(f[n], nsTab[L - n])
  <2>1. \A i \in 0..nr : f[i] = IF i = 0 THEN st0 ELSE UndoStep(f[i - 1], nsTab[L - i + 1])
    BY <1>1, Zenon DEF IsUndone
  <2> HIDE DEF L, st0
  <2> SUFFICES ASSUME NEW n \in 0..(nr - 1) PROVE f[n + 1] = UndoStep(f[n], nsTab[L - n])
    OBVIOUS
  <2>2. n + 1 \in 0..nr /\ n + 1 # 0 /\ (n + 1) - 1 = n /\ L - (n + 1) + 1 = L - n
    BY <1>0
  <2>3. f[n + 1] = UndoStep(f[(n + 1) - 1], nsTab[L - (n + 1) + 1])
    BY <2>1, <2>2, Zenon
  <2> QED BY <2>2, <2>3, Zenon
<1>5. \A m \in 1..L : nsTab[m].prefix \in NsPrefixes
  <2> TAKE m \in 1..L
  <2>1. nsTab[m] \in NsBindings
    OBVIOUS
  <2> QED BY <2>1 DEF NsBindings
<1>6. ShadowedBy(nsTab, L)
  OBVIOUS
<1> DEFINE Good(n) == Undone(nsTab, nsHashOf, f[n], N, L - n, U)
           P == {n \in Nat : n <= nr => Good(n)}
<1> HIDE DEF L, U, st0
<1>7. 0 \in P
  <2>1. L - 0 = L
    BY <1>0
  <2> QED BY <1>2, <1>3, <2>1
<1>8. ASSUME NEW n \in Nat, n \in P PROVE n + 1 \in P
  <2> SUFFICES ASSUME n + 1 <= nr PROVE Good(n + 1)
    OBVIOUS
  <2>0. nr <= L
    BY DEF L
  <2> DEFINE m == L - n
             s == f[n]
  <2>1. m \in Nat \ {0} /\ m <= L /\ m - 1 = L - (n + 1) /\ m \in 1..L
    BY <1>0, <2>0
  <2>2. Undone(nsTab, nsHashOf, s, N, m, U) /\ f[n + 1] = UndoStep(s, nsTab[m])
    BY <1>4, <1>8, <1>0
  <2>3. nsTab[m].prefix \in NsPrefixes
    BY <1>5, <2>1
  <2>4. N # 0 => Cardinality(U) < N
    BY DEF U
  <2> HIDE DEF m, s
  <2>5. Undone(nsTab, nsHashOf, UndoStep(s, nsTab[m]), N, m - 1, U)
    BY <1>0, <1>6, <2>1, <2>2, <2>3, <2>4, UndoOne
  <2> QED BY <2>1, <2>2, <2>5
<1>9. nr \in P
  <2> HIDE DEF P
  <2> QED BY <1>0, <1>7, <1>8, Induct
<1> QED BY <1>0, <1>1, <1>9 DEF L, U

(* The first n elements of a sequence.                                     *)
LEMMA Cut ==
  ASSUME NEW S, NEW s \in Seq(S), NEW n \in 0..Len(s)
  PROVE  /\ SubSeq(s, 1, n) \in Seq(S) /\ Len(SubSeq(s, 1, n)) = n
         /\ \A i \in 1..n : SubSeq(s, 1, n)[i] = s[i]
<1>1. \A i \in 1..n : s[i] \in S
  OBVIOUS
<1>2. n \in Int /\ 1 \in Int
  OBVIOUS
<1>3. /\ SubSeq(s, 1, n) \in Seq(S)
      /\ Len(SubSeq(s, 1, n)) = IF 1 <= n THEN n - 1 + 1 ELSE 0
      /\ \A i \in 1..(n - 1 + 1) : SubSeq(s, 1, n)[i] = s[1 + i - 1]
  BY <1>1, <1>2, SubSeqProperties
<1> DEFINE t == SubSeq(s, 1, n)
<1> HIDE DEF t
<1>4. /\ t \in Seq(S) /\ Len(t) = IF 1 <= n THEN n - 1 + 1 ELSE 0
      /\ \A i \in 1..(n - 1 + 1) : t[i] = s[1 + i - 1]
  BY <1>3 DEF t
<1>5. Len(t) = n /\ \A i \in 1..n : t[i] = s[i]
  BY <1>4
<1> QED BY <1>4, <1>5 DEF t

(* The open elements and their bindings.                                   *)

NsOpens == [entity : BOOLEAN, n : Nat]
Takes(e) == IF e.entity THEN 0 ELSE e.n
Declared(tag) == IF tag < 0 THEN 0 ELSE tag

(* The open elements have declared at most total bindings.                 *)
Fits(open, total) ==
  \E f \in [0..Len(open) -> Nat] :
    /\ \A i \in 1..Len(open) : f[i] >= f[i - 1] + Takes(open[i])
    /\ f[Len(open)] <= total

(* Nothing is open.                                                        *)
LEMMA FitsNone ==
  ASSUME NEW t \in Nat PROVE Fits(<<>>, t)
<1> DEFINE f == [i \in 0..0 |-> 0]
<1>1. f \in [0..Len(<<>>) -> Nat] /\ f[Len(<<>>)] <= t
  OBVIOUS
<1>2. \A i \in 1..Len(<<>>) : f[i] >= f[i - 1] + Takes(<<>>[i])
  OBVIOUS
<1> HIDE DEF f
<1> QED BY <1>1, <1>2 DEF Fits

(* More bindings on the stack do no harm.                                  *)
LEMMA FitsMore ==
  ASSUME NEW open, NEW t \in Nat, NEW t2 \in Nat, t <= t2, Len(open) \in Nat, Fits(open, t)
  PROVE  Fits(open, t2)
<1>1. PICK f \in [0..Len(open) -> Nat] :
        /\ \A i \in 1..Len(open) : f[i] >= f[i - 1] + Takes(open[i])
        /\ f[Len(open)] <= t
  BY DEF Fits
<1>2. f[Len(open)] <= t2
  BY <1>1
<1> QED BY <1>1, <1>2 DEF Fits

(* An open element has a number of bindings, an entity none.               *)
LEMMA TakesNat ==
  ASSUME NEW e \in NsOpens PROVE Takes(e) \in Nat
BY DEF NsOpens, Takes

(* The element of a start tag is opened with its bindings.                 *)
LEMMA FitsAppend ==
  ASSUME NEW open \in Seq(NsOpens), NEW e \in NsOpens, NEW t \in Nat, Fits(open, t)
  PROVE  Fits(Append(open, e), t + Takes(e))
<1> DEFINE L == Len(open)
           all == Append(open, e)
           d == Takes(e)
<1>1. PICK f \in [0..L -> Nat] :
        /\ \A i \in 1..L : f[i] >= f[i - 1] + Takes(open[i])
        /\ f[L] <= t
  BY DEF Fits
<1>2. Len(all) = L + 1 /\ all[L + 1] = e /\ L \in Nat /\ \A i \in 1..L : all[i] = open[i]
  OBVIOUS
<1>3. d \in Nat
  BY TakesNat
<1> HIDE DEF L, all, d
<1> DEFINE g == [i \in 0..(L + 1) |-> IF i = L + 1 THEN t + d ELSE f[i]]
<1>4. g \in [0..(L + 1) -> Nat] /\ g[L + 1] = t + d /\ \A i \in 0..L : g[i] = f[i]
  BY <1>2, <1>3
<1> HIDE DEF g
<1>5. \A i \in 1..(L + 1) : g[i] >= g[i - 1] + Takes(all[i])
  <2> TAKE i \in 1..(L + 1)
  <2>1. CASE i = L + 1
    <3>1. i - 1 = L /\ g[L] = f[L] /\ f[L] \in Nat /\ Takes(all[i]) = d
      BY <1>1, <1>2, <1>4, <2>1 DEF d
    <3> QED BY <1>1, <1>3, <1>4, <2>1, <3>1
  <2>2. CASE i # L + 1
    <3>1. i \in 1..L /\ i - 1 \in 0..L /\ i \in 0..L
      BY <1>2, <2>2
    <3> QED BY <1>1, <1>2, <1>4, <3>1
  <2> QED BY <2>1, <2>2
<1>6. Fits(all, t + d)
  <2>1. t + d <= t + d
    BY <1>3
  <2> QED BY <1>2, <1>4, <1>5, <2>1 DEF Fits
<1> QED BY <1>6 DEF all, d

(* The innermost element has its bindings on top of the stack.             *)
LEMMA FitsPop ==
  ASSUME NEW open \in Seq(NsOpens), open # <<>>, NEW t \in Nat, Fits(open, t)
  PROVE  /\ open[Len(open)] \in NsOpens
         /\ Takes(open[Len(open)]) \in 0..t
         /\ SubSeq(open, 1, Len(open) - 1) \in Seq(NsOpens)
         /\ Fits(SubSeq(open, 1, Len(open) - 1), t - Takes(open[Len(open)]))
<1> DEFINE L == Len(open)
           e == open[L]
           rest == SubSeq(open, 1, L - 1)
           d == Takes(e)
<1>1. L \in Nat \ {0} /\ e \in NsOpens /\ rest \in Seq(NsOpens) /\ Len(rest) = L - 1
      /\ \A i \in 1..(L - 1) : rest[i] = open[i]
  <2>1. L \in Nat \ {0}
    OBVIOUS
  <2>2. e \in NsOpens
    BY <2>1
  <2> DEFINE n == L - 1
  <2>3. n \in 0..Len(open)
    BY <2>1
  <2> HIDE DEF n
  <2>4. SubSeq(open, 1, n) \in Seq(NsOpens) /\ Len(SubSeq(open, 1, n)) = n
        /\ \A i \in 1..n : SubSeq(open, 1, n)[i] = open[i]
    BY <2>3, Cut
  <2> QED BY <2>1, <2>2, <2>4, Zenon DEF n
<1>2. d \in Nat
  BY <1>1, TakesNat
<1>3. PICK f \in [0..L -> Nat] :
        /\ \A i \in 1..L : f[i] >= f[i - 1] + Takes(open[i])
        /\ f[L] <= t
  BY DEF Fits
<1> HIDE DEF L, rest
<1>4. f[L] >= f[L - 1] + d /\ f[L - 1] \in Nat /\ f[L] \in Nat
  BY <1>1, <1>3
<1> HIDE DEF d, e
<1>5. d \in 0..t /\ f[L - 1] <= t - d /\ t - d \in Nat
  BY <1>2, <1>3, <1>4
<1> DEFINE g == [i \in 0..(L - 1) |-> f[i]]
<1>6. g \in [0..(L - 1) -> Nat] /\ \A i \in 0..(L - 1) : g[i] = f[i]
  BY <1>1
<1> HIDE DEF g
<1>7. \A i \in 1..(L - 1) : g[i] >= g[i - 1] + Takes(rest[i])
  BY <1>1, <1>3, <1>6
<1>8. g[L - 1] <= t - d
  BY <1>1, <1>5, <1>6
<1>9. Fits(rest, t - d)
  BY <1>1, <1>6, <1>7, <1>8 DEF Fits
<1> QED BY <1>1, <1>5, <1>9 DEF rest, d, e, L

-----------------------------------------------------------------------------
(* The invariant.                                                          *)

(* The values of the variables.                                            *)
NsTypes ==
  /\ nsTab \in Seq(NsBindings) /\ nsHashOf \in Hashes /\ nsElems \in Nat
  /\ nsElement \in Nat /\ nsMin \in Nat /\ nsOpen \in Seq(NsOpens)
  /\ nsTag \in Int /\ nsTag >= -1

(* Table T of size N, with e buckets counted as used, and default d are    *)
(* right for the stack tab, each binding of which knows what it shadows.   *)
TableRight(tab, h, T, N, e, d) ==
  /\ Sound(tab, h, T, N, Len(tab)) /\ Complete(tab, T, N, Len(tab))
  /\ Cardinality(Used(T)) <= e /\ 2 * e <= N
  /\ ShadowedBy(tab, Len(tab)) /\ Lst(tab, NsDefault, Len(tab), d)

(* Some table size is right: the one that nsHash has.                      *)
NsTables == \E N \in Nat : TableRight(nsTab, nsHashOf, nsHash, N, nsElems, nsDefault)

(* The bindings of the open elements and of the start tag are on the       *)
(* stack, so that no pop asks for more than there are.                     *)
OpensFit ==
  /\ Len(nsTab) - Declared(nsTag) \in Nat
  /\ Fits(nsOpen, Len(nsTab) - Declared(nsTag))

(* The inductive invariant.                                                *)
NsInv == NsTypes /\ NsTables /\ OpensFit

(* At most half of a right table is used: it has an empty bucket.          *)
LEMMA RightFree ==
  ASSUME NEW tab, NEW h, NEW T, NEW N \in Nat, NEW e \in Nat, NEW d, TableRight(tab, h, T, N, e, d)
  PROVE  /\ T \in Tables(N) /\ HasFree(T, N) /\ (N # 0 => Cardinality(Used(T)) < N)
         /\ Cardinality(Used(T)) \in Nat
<1>1. T \in Tables(N)
  BY DEF TableRight, Sound
<1>2. Cardinality(Used(T)) \in Nat
  BY <1>1, UsedFinite
<1>3. N # 0 => Cardinality(Used(T)) < N
  BY <1>2 DEF TableRight
<1> QED BY <1>1, <1>2, <1>3, FreeExists

(* A lookup finds the last binding of a prefix.                            *)
Resolves == \A p \in NsPrefixes : Lst(nsTab, p, Len(nsTab), xmlParserNsLookup(p))

(* The invariant's part about the table says so.                           *)
LEMMA LookupResolves == NsTypes /\ NsTables => Resolves
<1> SUFFICES ASSUME NsTypes, NsTables, NEW p \in NsPrefixes
             PROVE  Lst(nsTab, p, Len(nsTab), xmlParserNsLookup(p))
  BY DEF Resolves
<1>1. PICK N \in Nat : TableRight(nsTab, nsHashOf, nsHash, N, nsElems, nsDefault)
  BY DEF NsTables
<1>2. CASE p = NsDefault
  BY <1>1, <1>2 DEF xmlParserNsLookup, TableRight
<1>3. CASE p # NsDefault
  <2>1. xmlParserNsLookup(p) = PLook(nsTab, nsHashOf, nsHash, p).index
    BY <1>3, LookupPure DEF xmlParserNsLookup
  <2>2. Len(nsTab) \in Nat /\ nsHashOf \in Hashes /\ nsElems \in Nat
    BY DEF NsTypes
  <2>3. HasFree(nsHash, N)
    BY <1>1, <2>2, RightFree
  <2>4. Lst(nsTab, p, Len(nsTab), PLook(nsTab, nsHashOf, nsHash, p).index)
    BY <1>1, <1>3, <2>2, <2>3, LookRight DEF TableRight
  <2> QED BY <2>1, <2>4
<1> QED BY <1>2, <1>3

(* The binding b of the stack tab2 is new, and knows what it shadows.      *)
Grows(tab, tab2, b) ==
  /\ tab \in Seq(NsBindings) /\ b \in NsBindings /\ tab2 = Append(tab, b)
  /\ ShadowedBy(tab, Len(tab)) /\ Lst(tab, b.prefix, Len(tab), b.old)

(* What that says of the new stack.                                        *)
Grown(tab, tab2, b, L) ==
  /\ tab2 \in Seq(NsBindings) /\ L = Len(tab) /\ L \in Nat /\ Len(tab2) = L + 1
  /\ \A j \in 1..L : tab2[j].prefix = tab[j].prefix
  /\ tab2[L + 1].prefix = b.prefix /\ ShadowedBy(tab2, L + 1)

(* A stack grows by a binding that knows what it shadows.                  *)
LEMMA GrowsGrown ==
  ASSUME NEW tab, NEW tab2, NEW b, Grows(tab, tab2, b)
  PROVE  Grown(tab, tab2, b, Len(tab))
<1> DEFINE L == Len(tab)
<1>0. tab \in Seq(NsBindings) /\ b \in NsBindings /\ tab2 = Append(tab, b)
      /\ ShadowedBy(tab, L) /\ Lst(tab, b.prefix, L, b.old)
  BY DEF Grows
<1>1. tab2 \in Seq(NsBindings) /\ Len(tab2) = L + 1 /\ L \in Nat
      /\ tab2[L + 1] = b /\ \A j \in 1..L : tab2[j] = tab[j]
  BY <1>0
<1> HIDE DEF L
<1>2. ASSUME NEW i \in 1..(L + 1) PROVE Lst(tab2, tab2[i].prefix, i - 1, tab2[i].old)
  <2> DEFINE q == tab2[i].prefix
             k == tab2[i].old
             m == i - 1
  <2>1. Lst(tab, q, m, k)
    <3>1. CASE i = L + 1
      BY <1>0, <1>1, <3>1
    <3>2. CASE i # L + 1
      <4>1. i \in 1..L /\ tab2[i] = tab[i]
        BY <1>1, <3>2
      <4> QED BY <1>0, <4>1 DEF ShadowedBy
    <3> QED BY <3>1, <3>2
  <2>2. m \in Nat /\ \A j \in 1..m : tab2[j].prefix = tab[j].prefix
    BY <1>1
  <2> HIDE DEF q, k, m
  <2>3. Lst(tab2, q, m, k)
    BY <2>1, <2>2, LstTab
  <2> QED BY <2>3 DEF q, k, m
<1>3. ShadowedBy(tab2, L + 1)
  BY <1>2 DEF ShadowedBy
<1>4. L = Len(tab)
  BY DEF L
<1> QED BY <1>1, <1>3, <1>4 DEF Grown

(* The default namespace stays as it is under another prefix.              *)
LEMMA DefaultKept ==
  ASSUME NEW tab, NEW tab2, NEW b, NEW L \in Nat, Grown(tab, tab2, b, L), b.prefix # NsDefault,
         NEW d, Lst(tab, NsDefault, L, d)
  PROVE  Lst(tab2, NsDefault, L + 1, d)
<1>1. Lst(tab2, NsDefault, L, d)
  BY LstTab DEF Grown
<1> QED BY <1>1 DEF Lst, Grown

(* xmlParserNsPush for the default namespace.                              *)
LEMMA PushDefaultRight ==
  ASSUME NEW tab, NEW tab2, NEW b, NEW h, NEW T, NEW N \in Nat, NEW e \in Nat, NEW d,
         TableRight(tab, h, T, N, e, d), Grows(tab, tab2, b), b.prefix = NsDefault
  PROVE  TableRight(tab2, h, T, N, e, Len(tab) + 1)
<1> DEFINE L == Len(tab)
           m2 == L + 1
<1>1. Grown(tab, tab2, b, L)
  BY GrowsGrown
<1>2. Sound(tab, h, T, N, L) /\ Complete(tab, T, N, L) /\ L \in Nat /\ m2 \in Nat
      /\ \A j \in 1..L : tab2[j].prefix = tab[j].prefix
  BY <1>1 DEF TableRight, Grown
<1>3. Sound(tab2, h, T, N, L) /\ Complete(tab2, T, N, L)
  <2> HIDE DEF L
  <2> QED BY <1>2, SoundTab
<1>4. Carries(tab2, NsDefault, L, m2) /\ Lst(tab2, NsDefault, L + 1, L + 1)
  <2> HIDE DEF L
  <2> QED BY <1>1, <1>2, CarriesUp DEF Grown
<1>5. Sound(tab2, h, T, N, m2) /\ Complete(tab2, T, N, m2)
  <2> HIDE DEF L, m2
  <2> QED BY <1>2, <1>3, <1>4, CarryTable
<1> QED BY <1>1, <1>4, <1>5 DEF TableRight, Grown

(* xmlParserNsPush for a prefix with a binding.                            *)
LEMMA PushShadowRight ==
  ASSUME NEW tab, NEW tab2, NEW b, NEW h \in Hashes, NEW T, NEW T2, NEW N \in Nat, NEW e \in Nat,
         NEW d, TableRight(tab, h, T, N, e, d), Grows(tab, tab2, b), b.prefix # NsDefault,
         NEW c \in 0..(N - 1), T[c].index # 0, tab[T[c].index].prefix = b.prefix,
         Repointed(T, T2, c, Len(tab) + 1)
  PROVE  TableRight(tab2, h, T2, N, e, d)
<1> DEFINE L == Len(tab)
           m2 == L + 1
           p == b.prefix
<1>1. Grown(tab, tab2, b, L) /\ p \in NsPrefixes
  BY GrowsGrown DEF Grows, NsBindings
<1>2. Sound(tab, h, T, N, L) /\ Complete(tab, T, N, L) /\ L \in Nat /\ m2 \in Nat
      /\ \A j \in 1..L : tab2[j].prefix = tab[j].prefix
  BY <1>1 DEF TableRight, Grown
<1>3. Sound(tab2, h, T, N, L) /\ Complete(tab2, T, N, L)
  <2> HIDE DEF L
  <2> QED BY <1>2, SoundTab
<1>4. Carries(tab2, p, L, m2) /\ Lst(tab2, p, m2, m2)
  <2> HIDE DEF L, p
  <2>1. tab2[L + 1].prefix = p
    BY <1>1 DEF Grown, p
  <2> QED BY <1>2, <2>1, CarriesUp
<1>5. tab2[T[c].index].prefix = p
  <2>1. T[c].index \in 1..L
    BY <1>2 DEF Sound, LiveOK
  <2> QED BY <1>2, <2>1
<1>6. CanRepoint(tab2, h, T, T2, N, L, m2, p, c, m2)
  <2> HIDE DEF p
  <2>1. p # NsDefault
    BY DEF p
  <2> QED BY <1>1, <1>2, <1>3, <1>4, <1>5, <2>1 DEF CanRepoint
<1>7. Sound(tab2, h, T2, N, m2) /\ Complete(tab2, T2, N, m2) /\ Used(T2) = Used(T)
  <2> HIDE DEF m2, p, L
  <2> QED BY <1>6, Repoint
<1>8. Lst(tab2, NsDefault, L + 1, d)
  <2>1. Lst(tab, NsDefault, L, d)
    BY DEF TableRight
  <2> HIDE DEF L
  <2> QED BY <1>1, <1>2, <2>1, DefaultKept
<1> QED BY <1>1, <1>7, <1>8 DEF TableRight, Grown

(* A bucket written.                                                       *)
PutAt(T, T2, c, hv, x) == T2 = [T EXCEPT ![c] = [hashValue |-> hv, index |-> x]]

(* xmlParserNsPush for a prefix without one, in the table that has room    *)
(* for it.                                                                 *)
LEMMA PushNewRight ==
  ASSUME NEW tab, NEW tab2, NEW b, NEW h \in Hashes, NEW T, NEW T2, NEW N \in Nat, NEW e \in Nat,
         NEW d, Sound(tab, h, T, N, Len(tab)), Complete(tab, T, N, Len(tab)),
         Cardinality(Used(T)) <= e, 2 * (e + 1) <= N, Lst(tab, NsDefault, Len(tab), d),
         Grows(tab, tab2, b), b.prefix # NsDefault, b.old = 0,
         NEW c \in 0..(N - 1), T[c].index = 0, PathTo(T, N, h[b.prefix], c),
         PutAt(T, T2, c, h[b.prefix], Len(tab) + 1)
  PROVE  TableRight(tab2, h, T2, N, e + 1, d)
<1> DEFINE L == Len(tab)
           p == b.prefix
<1>1. Grown(tab, tab2, b, L) /\ p \in NsPrefixes /\ p # NsDefault
  BY GrowsGrown DEF Grows, NsBindings
<1>2. Sound(tab, h, T, N, L) /\ Complete(tab, T, N, L) /\ L \in Nat
      /\ \A j \in 1..L : tab2[j].prefix = tab[j].prefix
  BY <1>1 DEF Grown
<1>3. Sound(tab2, h, T, N, L) /\ Complete(tab2, T, N, L)
  <2> HIDE DEF L
  <2> QED BY <1>2, SoundTab
<1>4. Lst(tab2, p, L, 0)
  <2>1. Lst(tab, p, L, 0)
    BY DEF Grows
  <2> HIDE DEF L, p
  <2> QED BY <1>2, <2>1, LstTab
<1>5. T2 = [T EXCEPT ![c] = [hashValue |-> h[p], index |-> L + 1]] /\ tab2[L + 1].prefix = p
      /\ PathTo(T, N, h[p], c)
  BY <1>1 DEF PutAt, Grown
<1>6. /\ Sound(tab2, h, T2, N, L + 1) /\ Complete(tab2, T2, N, L + 1)
      /\ Cardinality(Used(T2)) <= Cardinality(Used(T)) + 1
  <2> HIDE DEF L, p
  <2> QED BY <1>1, <1>2, <1>3, <1>4, <1>5, Insert, ZenonT(60)
<1>7. Cardinality(Used(T)) \in Nat /\ Cardinality(Used(T2)) \in Nat
  BY <1>2, <1>6, UsedFinite DEF Sound
<1>8. Lst(tab2, NsDefault, L + 1, d)
  <2>1. Lst(tab, NsDefault, L, d)
    OBVIOUS
  <2> HIDE DEF L
  <2> QED BY <1>1, <1>2, <2>1, DefaultKept
<1>9. Cardinality(Used(T2)) <= e + 1
  BY <1>6, <1>7
<1> QED BY <1>1, <1>6, <1>8, <1>9 DEF TableRight, Grown

(* Bindings popped.                                                        *)
LEMMA PopRight ==
  ASSUME nsTab \in Seq(NsBindings), nsHashOf \in Hashes, nsElems \in Nat, NEW N \in Nat,
         TableRight(nsTab, nsHashOf, nsHash, N, nsElems, nsDefault), NEW nr \in 0..Len(nsTab),
         NEW tab2, tab2 = SubSeq(nsTab, 1, Len(nsTab) - nr)
  PROVE  /\ TableRight(tab2, nsHashOf, Restored(nr).hash, N, nsElems, Restored(nr).default)
         /\ tab2 \in Seq(NsBindings) /\ Len(tab2) = Len(nsTab) - nr
<1> DEFINE r == Restored(nr)
           T == r.hash
           d == r.default
           L == Len(nsTab) - nr
           tab == nsTab
           h == nsHashOf
<1>0. L \in Nat /\ L \in 0..Len(nsTab)
  OBVIOUS
<1>1. tab2 \in Seq(NsBindings) /\ Len(tab2) = L /\ \A j \in 1..L : tab2[j] = tab[j]
  <2> HIDE DEF L, tab
  <2>1. tab2 = SubSeq(nsTab, 1, L)
    BY DEF L
  <2>2. SubSeq(nsTab, 1, L) \in Seq(NsBindings) /\ Len(SubSeq(nsTab, 1, L)) = L
        /\ \A j \in 1..L : SubSeq(nsTab, 1, L)[j] = nsTab[j]
    BY <1>0, Cut
  <2> QED BY <2>1, <2>2, Zenon DEF tab
<1>2. N # 0 => Cardinality(Used(nsHash)) < N
  BY RightFree
<1>3. Undone(nsTab, nsHashOf, Restored(nr), N, Len(nsTab) - nr, Used(nsHash))
  BY <1>2, UndoAll DEF TableRight
<1>4. Sound(tab, h, T, N, L) /\ Complete(tab, T, N, L) /\ Lst(tab, NsDefault, L, d)
      /\ Used(T) = Used(nsHash)
  BY <1>3 DEF Undone
<1>5. ShadowedBy(tab, L)
  BY <1>0 DEF TableRight, ShadowedBy
<1>6. Cardinality(Used(T)) <= nsElems /\ 2 * nsElems <= N
  BY <1>4 DEF TableRight
<1>7. L = Len(nsTab) - nr
  OBVIOUS
<1> HIDE DEF T, d, L, tab, h
<1>8. \A j \in 1..L : tab2[j].prefix = tab[j].prefix /\ tab2[j].old = tab[j].old
  BY <1>1
<1>9. Sound(tab2, h, T, N, L) /\ Complete(tab2, T, N, L)
  BY <1>0, <1>4, <1>8, SoundTab, ZenonT(60)
<1>10. Lst(tab2, NsDefault, L, d)
  BY <1>0, <1>4, <1>8, LstTab, ZenonT(60)
<1>11. ShadowedBy(tab2, L)
  <2> SUFFICES ASSUME NEW i \in 1..L PROVE Lst(tab2, tab2[i].prefix, i - 1, tab2[i].old)
    BY DEF ShadowedBy
  <2> DEFINE q == tab2[i].prefix
             k == tab2[i].old
             m == i - 1
  <2>1. Lst(tab, q, m, k)
    BY <1>5, <1>8 DEF ShadowedBy
  <2>a. m \in Nat /\ \A j \in 1..m : j \in 1..L
    BY <1>0
  <2>2. m \in Nat /\ \A j \in 1..m : tab2[j].prefix = tab[j].prefix
    BY <1>8, <2>a, Zenon
  <2> HIDE DEF q, k, m
  <2>3. Lst(tab2, q, m, k)
    BY <2>1, <2>2, LstTab
  <2> QED BY <2>3 DEF q, k, m
<1>12. TableRight(tab2, h, T, N, nsElems, d)
  BY <1>1, <1>6, <1>9, <1>10, <1>11 DEF TableRight
<1> QED BY <1>1, <1>7, <1>12 DEF T, d, h

(* An empty table is right for an empty stack.                             *)
LEMMA EmptyRight ==
  ASSUME NEW h, NEW T, NEW N \in Nat, T \in Tables(N),
         \A i \in 0..(N - 1) : T[i] = EmptyBucket
  PROVE  TableRight(<<>>, h, T, N, 0, 0)
<1>1. \A i \in 0..(N - 1) : T[i].index = 0 /\ T[i].hashValue = 0
  BY DEF EmptyBucket
<1>2. DOMAIN T = 0..(N - 1)
  BY TableSize
<1>3. Used(T) = {}
  BY <1>1, <1>2 DEF Used
<1>4. Cardinality(Used(T)) = 0
  BY <1>3, FS_EmptySet
<1>5. Len(<<>>) = 0
  OBVIOUS
<1>6. Sound(<<>>, h, T, N, 0) /\ Complete(<<>>, T, N, 0)
  BY <1>1 DEF Sound, Complete
<1>7. ShadowedBy(<<>>, 0) /\ Lst(<<>>, NsDefault, 0, 0)
  BY DEF ShadowedBy, Lst
<1> QED BY <1>4, <1>5, <1>6, <1>7 DEF TableRight

(* A new database is right.                                                *)
LEMMA NsInitInv == NsInit => NsInv
<1> SUFFICES ASSUME NsInit PROVE NsInv
  OBVIOUS
<1>1. NsTypes
  BY NsAssumption DEF NsInit, NsTypes, Hashes
<1>2. NsTables
  <2>1. nsHash \in Tables(0)
    BY DEF NsInit, Tables
  <2>2. \A i \in 0..(0 - 1) : nsHash[i] = EmptyBucket
    OBVIOUS
  <2>3. TableRight(<<>>, nsHashOf, nsHash, 0, 0, 0)
    BY <2>1, <2>2, EmptyRight
  <2>4. TableRight(nsTab, nsHashOf, nsHash, 0, nsElems, nsDefault)
    BY <2>3 DEF NsInit
  <2> QED BY <2>4 DEF NsTables
<1>3. OpensFit
  <2>1. nsTab = <<>> /\ nsOpen = <<>> /\ nsTag = -1
    BY DEF NsInit
  <2>2. Len(nsTab) - Declared(nsTag) = 0
    BY <2>1 DEF Declared
  <2>3. Fits(<<>>, 0)
    BY FitsNone
  <2> QED BY <2>1, <2>2, <2>3 DEF OpensFit
<1> QED BY <1>1, <1>2, <1>3 DEF NsInv

(* Steps that leave the database alone.                                    *)
LEMMA TablesKept ==
  ASSUME NsTables, UNCHANGED <<nsTab, nsHashOf, nsHash, nsElems, nsDefault>>
  PROVE  NsTables'
BY DEF NsTables

(* xmlParserNsStartElement.                                                *)
LEMMA StartElementStep ==
  ASSUME NsInv, xmlParserNsStartElement
  PROVE  NsInv'
<1>1. NsTables'
  BY TablesKept DEF NsInv, xmlParserNsStartElement, nsConfig
<1>2. NsTypes'
  BY DEF NsInv, NsTypes, xmlParserNsStartElement, nsConfig
<1>3. Declared(nsTag') = Declared(nsTag) /\ nsTab' = nsTab /\ nsOpen' = nsOpen
  BY DEF xmlParserNsStartElement, Declared, Parsing
<1>4. OpensFit'
  BY <1>3 DEF NsInv, OpensFit
<1> QED BY <1>1, <1>2, <1>4 DEF NsInv

(* xmlParserNsReset, also when xmlCtxtParseContent calls it.               *)
LEMMA ClearedStep ==
  ASSUME NsInv, AtTopLevel, Cleared, nsTag' \in {0, nsTag}, nsMin' = nsMin, nsHashOf' = nsHashOf
  PROVE  NsInv'
<1>1. nsTag = -1 /\ nsTab' = <<>> /\ nsElems' = 0 /\ nsElement' = 0 /\ nsDefault' = 0
      /\ nsHash' = [i \in DOMAIN nsHash |-> EmptyBucket] /\ nsOpen' = <<>>
  BY DEF AtTopLevel, Cleared
<1>2. NsTypes'
  BY <1>1 DEF NsInv, NsTypes
<1>3. NsTables'
  <2>1. PICK N \in Nat : TableRight(nsTab, nsHashOf, nsHash, N, nsElems, nsDefault)
    BY DEF NsInv, NsTables
  <2>2. DOMAIN nsHash = 0..(N - 1)
    BY <2>1 DEF TableRight, Sound, Tables
  <2>3. nsHash' \in Tables(N) /\ \A i \in 0..(N - 1) : nsHash'[i] = EmptyBucket
    BY <1>1, <2>2 DEF Tables, Bkt, EmptyBucket
  <2>4. TableRight(<<>>, nsHashOf', nsHash', N, 0, 0)
    <3> DEFINE h == nsHashOf'
               T == nsHash'
    <3>1. T \in Tables(N) /\ \A i \in 0..(N - 1) : T[i] = EmptyBucket
      BY <2>3
    <3> HIDE DEF h, T
    <3>2. TableRight(<<>>, h, T, N, 0, 0)
      BY <3>1, EmptyRight
    <3> QED BY <3>2 DEF h, T
  <2>5. TableRight(nsTab', nsHashOf', nsHash', N, nsElems', nsDefault')
    BY <1>1, <2>4
  <2> QED BY <2>5 DEF NsTables
<1>4. OpensFit'
  <2>a. Len(nsTab') = 0
    BY <1>1
  <2>b. nsTag' = 0 \/ nsTag' = -1
    BY <1>1
  <2>c. Declared(nsTag') = 0
    BY <2>b DEF Declared
  <2>1. Len(nsTab') - Declared(nsTag') = 0
    BY <2>a, <2>c
  <2>2. Fits(<<>>, 0)
    BY FitsNone
  <2> QED BY <1>1, <2>1, <2>2 DEF OpensFit
<1> QED BY <1>2, <1>3, <1>4 DEF NsInv

(* What a declaration pushes.                                              *)
LEMMA PushedTypes ==
  ASSUME NsInv, NEW p \in NsPrefixes, NEW u \in NsUris, NEW old \in Nat, NEW moved,
         Lst(nsTab, p, Len(nsTab), old), nsTag >= 0, Pushed(p, u, old, moved),
         UNCHANGED <<nsElement, nsMin, nsOpen, nsConfig>>, nsElems' \in Nat
  PROVE  /\ NsTypes' /\ OpensFit'
         /\ Grows(nsTab, nsTab', Binding(p, u, old))
         /\ nsHash' = moved /\ nsHashOf' = nsHashOf
         /\ nsDefault' = IF p = NsDefault THEN Len(nsTab) + 1 ELSE nsDefault
         /\ Binding(p, u, old).prefix = p /\ Binding(p, u, old).old = old
<1> DEFINE b == Binding(p, u, old)
<1>0. NsTypes /\ OpensFit /\ NsTables
  BY DEF NsInv
<1>1. b \in NsBindings /\ b.prefix = p /\ b.old = old
  BY <1>0 DEF NsTypes, NsBindings, Binding
<1> HIDE DEF b
<1>2. nsTab' = Append(nsTab, b) /\ nsTag' = nsTag + 1 /\ nsHash' = moved
      /\ nsDefault' = IF p = NsDefault THEN Len(nsTab) + 1 ELSE nsDefault
  BY DEF Pushed, b
<1>3. nsTab \in Seq(NsBindings) /\ nsTag \in Int
  BY <1>0 DEF NsTypes
<1>4. nsTab' \in Seq(NsBindings) /\ Len(nsTab') = Len(nsTab) + 1 /\ Len(nsTab) \in Nat
  BY <1>1, <1>2, <1>3
<1>5. NsTypes'
  BY <1>0, <1>2, <1>4 DEF NsTypes, nsConfig
<1>6. OpensFit'
  <2>1. Len(nsTab') - Declared(nsTag') = Len(nsTab) - Declared(nsTag)
    BY <1>2, <1>3, <1>4 DEF Declared
  <2> QED BY <1>0, <2>1 DEF OpensFit
<1>7. ShadowedBy(nsTab, Len(nsTab))
  BY <1>0 DEF NsTables, TableRight
<1>8. Grows(nsTab, nsTab', b)
  BY <1>1, <1>2, <1>3, <1>7 DEF Grows
<1> QED BY <1>1, <1>2, <1>5, <1>6, <1>8 DEF nsConfig, b

(* A declaration that shadows a binding keeps the invariant.               *)
LEMMA PushShadowStep ==
  ASSUME NsInv, NEW p \in NsPrefixes, NEW u \in NsUris, PushShadow(p, u)
  PROVE  NsInv'
<1> DEFINE old == xmlParserNsLookup(p)
           c == HashLookup(nsHash, p).bucket
           moved == IF p = NsDefault THEN nsHash ELSE [nsHash EXCEPT ![c].index = Len(nsTab) + 1]
           b == Binding(p, u, old)
<1>0. NsTypes /\ NsTables /\ nsTab \in Seq(NsBindings) /\ nsHashOf \in Hashes /\ nsElems \in Nat
      /\ Len(nsTab) \in Nat
  BY DEF NsInv, NsTypes
<1>1. Lst(nsTab, p, Len(nsTab), old)
  BY <1>0, LookupResolves DEF Resolves
<1>2. old \in Nat
  BY <1>0, <1>1 DEF Lst
<1>3. nsTag >= 0 /\ Pushed(p, u, old, moved) /\ UNCHANGED <<nsElement, nsMin, nsOpen, nsConfig>>
      /\ nsElems' = nsElems /\ (old # 0 \/ p = NsDefault)
  BY Zenon DEF PushShadow, nsConfig
<1>4. /\ NsTypes' /\ OpensFit' /\ Grows(nsTab, nsTab', b) /\ nsHash' = moved
      /\ nsHashOf' = nsHashOf /\ b.prefix = p
      /\ nsDefault' = IF p = NsDefault THEN Len(nsTab) + 1 ELSE nsDefault
  <2> HIDE DEF moved, old
  <2> QED BY <1>0, <1>1, <1>2, <1>3, PushedTypes DEF b
<1>5. PICK N \in Nat : TableRight(nsTab, nsHashOf, nsHash, N, nsElems, nsDefault)
  BY <1>0 DEF NsTables
<1>6. TableRight(nsTab', nsHashOf, nsHash', N, nsElems, nsDefault')
  <2> DEFINE tab2 == nsTab'
             T2 == nsHash'
  <2>0. Grows(nsTab, tab2, b)
    BY <1>4
  <2>1. CASE p = NsDefault
    <3>1. T2 = nsHash /\ nsDefault' = Len(nsTab) + 1 /\ b.prefix = NsDefault
      BY <1>4, <2>1
    <3> HIDE DEF tab2, b, T2
    <3>2. TableRight(tab2, nsHashOf, nsHash, N, nsElems, Len(nsTab) + 1)
      BY <1>0, <1>5, <2>0, <3>1, PushDefaultRight
    <3> QED BY <3>1, <3>2 DEF tab2, T2
  <2>2. CASE p # NsDefault
    <3>1. old # 0 /\ nsDefault' = nsDefault /\ b.prefix # NsDefault
      BY <1>3, <1>4, <2>2
    <3>2. Repointed(nsHash, T2, c, Len(nsTab) + 1)
      BY <1>4, <2>2 DEF Repointed
    <3>3. HashLookup(nsHash, p) = PLook(nsTab, nsHashOf, nsHash, p)
      BY LookupPure
    <3>4. old = PLook(nsTab, nsHashOf, nsHash, p).index
      BY <2>2, <3>3 DEF xmlParserNsLookup
    <3>5. HasFree(nsHash, N)
      BY <1>0, <1>5, RightFree
    <3>6. c \in 0..(N - 1) /\ nsHash[c].index = old
      BY <1>0, <1>5, <2>2, <3>1, <3>3, <3>4, <3>5, LookRight DEF TableRight
    <3>7. nsHash[c].index # 0 /\ nsTab[nsHash[c].index].prefix = b.prefix
      BY <1>1, <1>2, <1>4, <3>1, <3>6 DEF Lst
    <3> HIDE DEF tab2, T2, b, c, old
    <3>8. TableRight(tab2, nsHashOf, T2, N, nsElems, nsDefault)
      BY <1>0, <1>5, <2>0, <3>1, <3>2, <3>6, <3>7, PushShadowRight
    <3> QED BY <3>1, <3>8 DEF tab2, T2
  <2> QED BY <2>1, <2>2
<1>7. NsTables'
  BY <1>3, <1>4, <1>6 DEF NsTables
<1> QED BY <1>4, <1>7 DEF NsInv

(* Where a declaration of a prefix without a binding goes.                 *)
LEMMA NewBucket ==
  ASSUME NsTypes, NEW N \in Nat, TableRight(nsTab, nsHashOf, nsHash, N, nsElems, nsDefault),
         NEW p \in NsPrefixes, p # NsDefault, xmlParserNsLookup(p) = 0, NEW moved,
         moved = Inserted(p, IF NeedsGrow THEN Rehashed ELSE nsHash, HashLookup(nsHash, p).bucket)
  PROVE  \E T, M, c :
           /\ M \in Nat /\ 2 * (nsElems + 1) <= M
           /\ Sound(nsTab, nsHashOf, T, M, Len(nsTab)) /\ Complete(nsTab, T, M, Len(nsTab))
           /\ Cardinality(Used(T)) <= nsElems
           /\ c \in 0..(M - 1) /\ T[c].index = 0 /\ PathTo(T, M, nsHashOf[p], c)
           /\ PutAt(T, moved, c, nsHashOf[p], Len(nsTab) + 1)
<1> DEFINE L == Len(nsTab)
           h == nsHashOf
           hv == h[p]
<1>0. L \in Nat /\ h \in Hashes /\ hv \in Nat /\ nsElems \in Nat
  BY DEF NsTypes, Hashes
<1>1. Sound(nsTab, h, nsHash, N, L) /\ Complete(nsTab, nsHash, N, L)
      /\ Cardinality(Used(nsHash)) <= nsElems /\ 2 * nsElems <= N
  BY DEF TableRight
<1>2. HashSize = N /\ nsHash \in Tables(N) /\ Cardinality(Used(nsHash)) \in Nat
  BY <1>1, TableSize, UsedFinite DEF Sound, HashSize
<1>3. CASE NeedsGrow
  <2> DEFINE R == Rehashed
             G == GrownSize
             c == FreeBucket(R, G, hv)
  <2>1. /\ G \in Nat /\ G >= 2 /\ N < G /\ 2 * N <= G
        /\ Sound(nsTab, h, R, G, L) /\ Complete(nsTab, R, G, L)
        /\ Cardinality(Used(R)) <= Cardinality(Used(nsHash))
    <3> HIDE DEF L, h
    <3>1. NsInitSize \in Nat \ {0, 1} /\ h = nsHashOf
      BY NsAssumption DEF h
    <3> QED BY <1>0, <1>1, <3>1, RehashedSound
  <2> HIDE DEF R, G, hv
  <2>2. R \in Tables(G) /\ Cardinality(DOMAIN R) = G /\ Cardinality(Used(R)) \in Nat
    BY <2>1, TableSize, UsedFinite DEF Sound
  <2>3. R # nsHash
    BY <1>2, <2>1, <2>2 DEF HashSize
  <2>4. Cardinality(Used(R)) < G /\ Cardinality(Used(R)) <= nsElems /\ 2 * (nsElems + 1) <= G
    BY <1>0, <1>1, <1>2, <2>1, <2>2
  <2>5. HasFree(R, G)
    BY <2>1, <2>2, <2>4, FreeExists
  <2>6. c \in 0..(G - 1) /\ R[c].hashValue = 0 /\ PathTo(R, G, hv, c)
    <3>1. G \in Nat \ {0}
      BY <2>1
    <3> QED BY <1>0, <2>2, <2>5, <3>1, FreeBucketIs
  <2>7. R[c].index = 0
    BY <1>0, <2>1, <2>6, LiveUsed
  <2>8. moved = Inserted(p, R, HashLookup(nsHash, p).bucket)
    BY <1>3 DEF R
  <2>9. moved = [R EXCEPT ![c] = [hashValue |-> nsHashOf[p], index |-> Len(nsTab) + 1]]
    BY <2>2, <2>3, <2>8, Zenon DEF Inserted, hv
  <2>10. PutAt(R, moved, c, hv, L + 1)
    BY <2>9 DEF PutAt, hv
  <2> HIDE DEF c, L, h
  <2> QED BY <1>0, <2>1, <2>4, <2>6, <2>7, <2>10 DEF L, h, hv
<1>4. CASE ~NeedsGrow
  <2> DEFINE k == PLook(nsTab, h, nsHash, p)
             c == k.bucket
  <2>1. HashLookup(nsHash, p) = k
    BY LookupPure
  <2>2. k.index = 0
    BY <2>1 DEF xmlParserNsLookup
  <2>3. 2 * (nsElems + 1) <= N /\ N # 0
    BY <1>0, <1>2, <1>4 DEF NeedsGrow
  <2>4. HasFree(nsHash, N)
    BY <1>0, RightFree
  <2>5. c \in 0..(N - 1) /\ nsHash[c].index = 0 /\ PathTo(nsHash, N, hv, c)
    <3> HIDE DEF L
    <3> QED BY <1>0, <1>1, <2>2, <2>3, <2>4, LookRight
  <2>6. moved = Inserted(p, nsHash, c)
    BY <1>4, <2>1
  <2> HIDE DEF k, hv
  <2>7. moved = [nsHash EXCEPT ![c] = [hashValue |-> nsHashOf[p], index |-> Len(nsTab) + 1]]
    BY <2>6, Zenon DEF Inserted
  <2>8. PutAt(nsHash, moved, c, hv, L + 1)
    BY <2>7 DEF PutAt, hv
  <2> HIDE DEF c, L, h
  <2> QED BY <1>0, <1>1, <2>3, <2>5, <2>8 DEF L, h, hv
<1> QED BY <1>3, <1>4

(* A declaration of a new prefix keeps it too.                             *)
LEMMA PushNewStep ==
  ASSUME NsInv, NEW p \in NsPrefixes, NEW u \in NsUris, PushNew(p, u)
  PROVE  NsInv'
<1> DEFINE moved == Inserted(p, IF NeedsGrow THEN Rehashed ELSE nsHash, HashLookup(nsHash, p).bucket)
           b == Binding(p, u, 0)
<1>0. NsTypes /\ NsTables /\ nsTab \in Seq(NsBindings) /\ nsHashOf \in Hashes /\ nsElems \in Nat
      /\ Len(nsTab) \in Nat
  BY DEF NsInv, NsTypes
<1>1. nsTag >= 0 /\ Pushed(p, u, 0, moved) /\ UNCHANGED <<nsElement, nsMin, nsOpen, nsConfig>>
      /\ nsElems' = nsElems + 1 /\ p # NsDefault /\ xmlParserNsLookup(p) = 0
  BY Zenon DEF PushNew, nsConfig
<1>2. Lst(nsTab, p, Len(nsTab), 0)
  BY <1>0, <1>1, LookupResolves DEF Resolves
<1>3. PICK N \in Nat : TableRight(nsTab, nsHashOf, nsHash, N, nsElems, nsDefault)
  BY <1>0 DEF NsTables
<1>4. \E T, M, c :
        /\ M \in Nat /\ 2 * (nsElems + 1) <= M
        /\ Sound(nsTab, nsHashOf, T, M, Len(nsTab)) /\ Complete(nsTab, T, M, Len(nsTab))
        /\ Cardinality(Used(T)) <= nsElems
        /\ c \in 0..(M - 1) /\ T[c].index = 0 /\ PathTo(T, M, nsHashOf[p], c)
        /\ PutAt(T, moved, c, nsHashOf[p], Len(nsTab) + 1)
  BY <1>0, <1>1, <1>3, NewBucket
<1> HIDE DEF moved
<1>5. /\ NsTypes' /\ OpensFit' /\ Grows(nsTab, nsTab', b) /\ nsHash' = moved
      /\ nsHashOf' = nsHashOf /\ b.prefix = p /\ b.old = 0 /\ nsDefault' = nsDefault
  BY <1>0, <1>1, <1>2, PushedTypes
<1>6. PICK T, M, c :
        /\ M \in Nat /\ 2 * (nsElems + 1) <= M
        /\ Sound(nsTab, nsHashOf, T, M, Len(nsTab)) /\ Complete(nsTab, T, M, Len(nsTab))
        /\ Cardinality(Used(T)) <= nsElems
        /\ c \in 0..(M - 1) /\ T[c].index = 0 /\ PathTo(T, M, nsHashOf[p], c)
        /\ PutAt(T, moved, c, nsHashOf[p], Len(nsTab) + 1)
  BY <1>4
<1>7. Lst(nsTab, NsDefault, Len(nsTab), nsDefault)
  BY <1>3 DEF TableRight
<1>8. TableRight(nsTab', nsHashOf, moved, M, nsElems + 1, nsDefault)
  <2> DEFINE tab2 == nsTab'
  <2>1. Grows(nsTab, tab2, b) /\ b.prefix # NsDefault /\ b.old = 0
        /\ PathTo(T, M, nsHashOf[b.prefix], c)
        /\ PutAt(T, moved, c, nsHashOf[b.prefix], Len(nsTab) + 1)
    BY <1>1, <1>5, <1>6
  <2> HIDE DEF tab2, b
  <2>2. TableRight(tab2, nsHashOf, moved, M, nsElems + 1, nsDefault)
    BY <1>0, <1>6, <1>7, <2>1, PushNewRight
  <2> QED BY <2>2 DEF tab2
<1>9. NsTables'
  BY <1>1, <1>5, <1>6, <1>8 DEF NsTables
<1> QED BY <1>5, <1>9 DEF NsInv

(* A failed start tag leaves its bindings on the stack.                    *)
LEMMA TagFailsStep ==
  ASSUME NsInv, NsTagFails
  PROVE  NsInv'
<1>1. NsTables'
  BY TablesKept DEF NsInv, NsTagFails, nsConfig
<1>2. NsTypes'
  BY DEF NsInv, NsTypes, NsTagFails, nsConfig
<1>3. OpensFit'
  <2>1. nsTab' = nsTab /\ nsOpen' = nsOpen /\ nsTag' = -1 /\ nsTag \in Int /\ nsTag >= 0
        /\ Len(nsTab) \in Nat /\ Len(nsOpen) \in Nat
    BY DEF NsInv, NsTypes, NsTagFails
  <2>2. Declared(nsTag) = nsTag /\ Declared(nsTag') = 0
    BY <2>1 DEF Declared
  <2>3. Len(nsTab) - nsTag \in Nat /\ Fits(nsOpen, Len(nsTab) - nsTag)
    BY <2>2 DEF NsInv, OpensFit
  <2>4. Len(nsTab) - nsTag <= Len(nsTab)
    BY <2>1
  <2>5. Fits(nsOpen, Len(nsTab))
    BY <2>1, <2>3, <2>4, FitsMore
  <2>6. Len(nsTab') - Declared(nsTag') = Len(nsTab)
    BY <2>1, <2>2
  <2> QED BY <2>1, <2>5, <2>6 DEF OpensFit
<1> QED BY <1>1, <1>2, <1>3 DEF NsInv

(* A start tag that opens an element.                                      *)
LEMMA TagOpenStep ==
  ASSUME NsInv, NsTagOpen
  PROVE  NsInv'
<1> DEFINE e == [entity |-> FALSE, n |-> nsTag]
<1>0. nsTab' = nsTab /\ nsOpen' = Append(nsOpen, e) /\ nsTag' = -1 /\ nsTag \in Int /\ nsTag >= 0
      /\ Len(nsTab) \in Nat /\ nsOpen \in Seq(NsOpens)
  BY DEF NsInv, NsTypes, NsTagOpen
<1>1. NsTables'
  BY TablesKept DEF NsInv, NsTagOpen, nsConfig
<1>2. e \in NsOpens /\ Takes(e) = nsTag
  BY <1>0 DEF NsOpens, Takes
<1> HIDE DEF e
<1>3. nsOpen' \in Seq(NsOpens)
  BY <1>0, <1>2
<1>4. NsTypes'
  BY <1>0, <1>3 DEF NsInv, NsTypes, NsTagOpen, nsConfig
<1>5. OpensFit'
  <2>1. Declared(nsTag) = nsTag /\ Declared(nsTag') = 0
    BY <1>0 DEF Declared
  <2> DEFINE t == Len(nsTab) - nsTag
  <2>2. t \in Nat /\ Fits(nsOpen, t) /\ t + Takes(e) = Len(nsTab)
    BY <1>0, <1>2, <2>1 DEF NsInv, OpensFit
  <2> HIDE DEF t
  <2>3. Fits(Append(nsOpen, e), t + Takes(e))
    BY <1>0, <1>2, <2>2, FitsAppend
  <2>4. Fits(nsOpen', Len(nsTab))
    BY <1>0, <2>2, <2>3
  <2>5. Len(nsTab') - Declared(nsTag') = Len(nsTab)
    BY <1>0, <2>1
  <2> QED BY <1>0, <2>4, <2>5 DEF OpensFit
<1> QED BY <1>1, <1>4, <1>5 DEF NsInv

(* Popping bindings.                                                       *)
LEMMA PopTables ==
  ASSUME NsInv, NEW nr \in 0..Len(nsTab), xmlParserNsPop(nr),
         UNCHANGED <<nsElems, nsHashOf>>
  PROVE  NsTables' /\ nsTab' \in Seq(NsBindings) /\ Len(nsTab') = Len(nsTab) - nr
<1>0. nsTab \in Seq(NsBindings) /\ nsHashOf \in Hashes /\ nsElems \in Nat
  BY DEF NsInv, NsTypes
<1>1. PICK N \in Nat : TableRight(nsTab, nsHashOf, nsHash, N, nsElems, nsDefault)
  BY DEF NsInv, NsTables
<1>2. nsHash' = Restored(nr).hash /\ nsDefault' = Restored(nr).default
      /\ nsTab' = SubSeq(nsTab, 1, Len(nsTab) - nr)
  BY DEF xmlParserNsPop
<1> DEFINE tab2 == nsTab'
<1>3. tab2 = SubSeq(nsTab, 1, Len(nsTab) - nr)
  BY <1>2
<1> HIDE DEF tab2
<1>4. /\ TableRight(tab2, nsHashOf, Restored(nr).hash, N, nsElems, Restored(nr).default)
      /\ tab2 \in Seq(NsBindings) /\ Len(tab2) = Len(nsTab) - nr
  BY <1>0, <1>1, <1>3, PopRight
<1>5. TableRight(nsTab', nsHashOf', nsHash', N, nsElems', nsDefault')
  BY <1>2, <1>4 DEF tab2
<1>6. NsTables'
  BY <1>5 DEF NsTables
<1> QED BY <1>4, <1>6 DEF tab2

(* A start tag has declared no more than is on the stack.                  *)
LEMMA TagEmptyPops ==
  ASSUME NsInv, NsTagEmpty
  PROVE  nsTag \in 0..Len(nsTab) /\ xmlParserNsPop(nsTag) /\ UNCHANGED <<nsElems, nsHashOf>>
<1>1. nsTag \in Int /\ nsTag >= 0 /\ Len(nsTab) \in Nat /\ xmlParserNsPop(nsTag)
      /\ UNCHANGED <<nsElems, nsHashOf>>
  BY DEF NsInv, NsTypes, NsTagEmpty, nsConfig
<1>2. Declared(nsTag) = nsTag /\ Len(nsTab) - Declared(nsTag) \in Nat
  BY <1>1 DEF NsInv, OpensFit, Declared
<1> QED BY <1>1, <1>2

(* A start tag that opens nothing.                                         *)
LEMMA TagEmptyStep ==
  ASSUME NsInv, NsTagEmpty
  PROVE  NsInv'
<1>1. nsTag \in 0..Len(nsTab) /\ xmlParserNsPop(nsTag) /\ UNCHANGED <<nsElems, nsHashOf>>
  BY TagEmptyPops
<1>2. NsTables' /\ nsTab' \in Seq(NsBindings) /\ Len(nsTab') = Len(nsTab) - nsTag
  BY <1>1, PopTables
<1>3. nsTag' = -1 /\ nsOpen' = nsOpen /\ nsElement' = nsElement /\ nsMin' = nsMin
  BY DEF NsTagEmpty
<1>4. NsTypes'
  BY <1>1, <1>2, <1>3 DEF NsInv, NsTypes
<1>5. OpensFit'
  <2>1. Declared(nsTag) = nsTag /\ Declared(nsTag') = 0 /\ Len(nsTab) \in Nat
    BY <1>1, <1>3 DEF Declared, NsInv, NsTypes
  <2>2. Len(nsTab') - Declared(nsTag') = Len(nsTab) - Declared(nsTag)
    BY <1>1, <1>2, <2>1
  <2> QED BY <1>3, <2>2 DEF NsInv, OpensFit
<1> QED BY <1>2, <1>4, <1>5 DEF NsInv

(* The element that ends has no more bindings than are on the stack.       *)
LEMMA EndTagPops ==
  ASSUME NsInv, NsEndTag
  PROVE  /\ Innermost.n \in 0..Len(nsTab) /\ xmlParserNsPop(Innermost.n)
         /\ UNCHANGED <<nsElems, nsHashOf>>
         /\ nsOpen' \in Seq(NsOpens) /\ Fits(nsOpen', Len(nsTab) - Innermost.n)
<1> DEFINE e == Innermost
<1>1. nsTag = -1 /\ nsOpen # <<>> /\ ~e.entity /\ xmlParserNsPop(e.n)
      /\ nsOpen' = SubSeq(nsOpen, 1, Len(nsOpen) - 1) /\ UNCHANGED <<nsElems, nsHashOf>>
  BY DEF NsEndTag, nsConfig
<1>2. nsOpen \in Seq(NsOpens) /\ Len(nsTab) \in Nat
  BY DEF NsInv, NsTypes
<1>3. Declared(nsTag) = 0
  BY <1>1 DEF Declared
<1>4. Fits(nsOpen, Len(nsTab))
  BY <1>2, <1>3 DEF NsInv, OpensFit
<1> DEFINE t == Len(nsTab)
<1>5. /\ e \in NsOpens /\ Takes(e) \in 0..t
      /\ SubSeq(nsOpen, 1, Len(nsOpen) - 1) \in Seq(NsOpens)
      /\ Fits(SubSeq(nsOpen, 1, Len(nsOpen) - 1), t - Takes(e))
  BY <1>1, <1>2, <1>4, FitsPop DEF Innermost
<1>6. Takes(e) = e.n
  BY <1>1 DEF Takes
<1> QED BY <1>1, <1>5, <1>6

(* An end tag.                                                             *)
LEMMA EndTagStep ==
  ASSUME NsInv, NsEndTag
  PROVE  NsInv'
<1> DEFINE nr == Innermost.n
<1>1. /\ nr \in 0..Len(nsTab) /\ xmlParserNsPop(nr) /\ UNCHANGED <<nsElems, nsHashOf>>
      /\ nsOpen' \in Seq(NsOpens) /\ Fits(nsOpen', Len(nsTab) - nr)
  BY EndTagPops
<1> HIDE DEF nr
<1>2. NsTables' /\ nsTab' \in Seq(NsBindings) /\ Len(nsTab') = Len(nsTab) - nr
  BY <1>1, PopTables
<1>3. nsTag = -1 /\ nsTag' = nsTag /\ nsElement' = nsElement /\ nsMin' = nsMin
  BY DEF NsEndTag
<1>4. NsTypes'
  BY <1>1, <1>2, <1>3 DEF NsInv, NsTypes
<1>5. OpensFit'
  <2>1. Declared(nsTag') = 0 /\ Len(nsTab') \in Nat
    BY <1>2, <1>3 DEF Declared
  <2>2. Len(nsTab') - Declared(nsTag') = Len(nsTab) - nr /\ Len(nsTab') - Declared(nsTag') \in Nat
    BY <1>2, <2>1
  <2> QED BY <1>1, <2>2 DEF OpensFit
<1> QED BY <1>2, <1>4, <1>5 DEF NsInv

(* Entering an entity.                                                     *)
LEMMA EnterEntityStep ==
  ASSUME NsInv, NsEnterEntity
  PROVE  NsInv'
<1> DEFINE e == [entity |-> TRUE, n |-> nsMin]
<1>0. nsTab' = nsTab /\ nsOpen' = Append(nsOpen, e) /\ nsTag' = nsTag /\ nsMin' = Len(nsTab)
      /\ Len(nsTab) \in Nat /\ nsOpen \in Seq(NsOpens)
      /\ Len(nsTab) - Declared(nsTag) \in Nat
  BY DEF NsInv, NsTypes, NsEnterEntity, OpensFit
<1>1. NsTables'
  BY TablesKept DEF NsInv, NsEnterEntity, nsConfig
<1>2. e \in NsOpens /\ Takes(e) = 0
  BY DEF NsOpens, Takes, NsInv, NsTypes
<1> HIDE DEF e
<1>3. nsOpen' \in Seq(NsOpens)
  BY <1>0, <1>2
<1>4. NsTypes'
  BY <1>0, <1>3 DEF NsInv, NsTypes, NsEnterEntity, nsConfig
<1>5. OpensFit'
  <2> DEFINE t == Len(nsTab) - Declared(nsTag)
  <2>2. t \in Nat /\ Fits(nsOpen, t)
    BY DEF NsInv, OpensFit
  <2> HIDE DEF t
  <2>3. Fits(Append(nsOpen, e), t + Takes(e)) /\ t + Takes(e) = t
    BY <1>0, <1>2, <2>2, FitsAppend
  <2>4. Len(nsTab') - Declared(nsTag') = t
    BY <1>0 DEF t
  <2> QED BY <1>0, <2>2, <2>3, <2>4 DEF OpensFit
<1> QED BY <1>1, <1>4, <1>5 DEF NsInv

(* Leaving an entity.                                                      *)
LEMMA LeaveEntityStep ==
  ASSUME NsInv, NsLeaveEntity
  PROVE  NsInv'
<1> DEFINE e == Innermost
<1>0. nsTab' = nsTab /\ nsOpen' = SubSeq(nsOpen, 1, Len(nsOpen) - 1) /\ nsTag' = nsTag
      /\ nsMin' = e.n /\ nsOpen # <<>> /\ e.entity /\ nsOpen \in Seq(NsOpens)
  BY DEF NsInv, NsTypes, NsLeaveEntity
<1>1. NsTables'
  BY TablesKept DEF NsInv, NsLeaveEntity, nsConfig
<1> DEFINE t == Len(nsTab) - Declared(nsTag)
<1>2. t \in Nat /\ Fits(nsOpen, t)
  BY DEF NsInv, OpensFit
<1>3. t = Len(nsTab') - Declared(nsTag')
  BY <1>0
<1> HIDE DEF t
<1>4. /\ e \in NsOpens
      /\ SubSeq(nsOpen, 1, Len(nsOpen) - 1) \in Seq(NsOpens)
      /\ Fits(SubSeq(nsOpen, 1, Len(nsOpen) - 1), t - Takes(e))
  BY <1>0, <1>2, FitsPop DEF Innermost
<1>5. Takes(e) = 0 /\ t - Takes(e) = t /\ e.n \in Nat
  BY <1>0, <1>2, <1>4 DEF Takes, NsOpens
<1>6. nsOpen' \in Seq(NsOpens) /\ Fits(nsOpen', t) /\ nsMin' \in Nat
  BY <1>0, <1>4, <1>5
<1>7. NsTypes'
  BY <1>0, <1>6 DEF NsInv, NsTypes, NsLeaveEntity, nsConfig
<1>8. OpensFit'
  BY <1>2, <1>3, <1>6 DEF OpensFit
<1> QED BY <1>1, <1>7, <1>8 DEF NsInv

(* Declarations are pairs of a prefix and a URI.                           *)
LEMMA DeclTypes ==
  ASSUME NEW d \in NsDecls PROVE d[1] \in NsPrefixes /\ d[2] \in NsUris
BY NsAssumption

(* Every step keeps the invariant.                                         *)
LEMMA NsStep == NsInv /\ [NsNext]_nsVars => NsInv'
<1> SUFFICES ASSUME NsInv, [NsNext]_nsVars PROVE NsInv'
  OBVIOUS
<1>1. CASE xmlParserNsStartElement
  BY <1>1, StartElementStep
<1>2. CASE NsContext
  BY <1>2, ClearedStep DEF NsContext, nsConfig
<1>3. ASSUME NEW d \in NsDecls, PushIgnored(d[1], d[2]) PROVE NsInv'
  <2>1. UNCHANGED <<nsTab, nsHash, nsElems, nsDefault, nsElement, nsMin, nsOpen, nsTag, nsHashOf>>
    BY <1>3, Zenon DEF PushIgnored, nsConfig
  <2> QED BY <2>1, TablesKept DEF NsInv, NsTypes, OpensFit
<1>4. ASSUME NEW d \in NsDecls, PushShadow(d[1], d[2]) PROVE NsInv'
  BY <1>4, DeclTypes, PushShadowStep
<1>5. ASSUME NEW d \in NsDecls, PushNew(d[1], d[2]) PROVE NsInv'
  BY <1>5, DeclTypes, PushNewStep
<1>6. CASE NsTagFails
  BY <1>6, TagFailsStep
<1>7. CASE NsTagOpen
  BY <1>7, TagOpenStep
<1>8. CASE NsTagEmpty
  BY <1>8, TagEmptyStep
<1>9. CASE NsEndTag
  BY <1>9, EndTagStep
<1>10. CASE NsEnterEntity
  BY <1>10, EnterEntityStep
<1>11. CASE NsLeaveEntity
  BY <1>11, LeaveEntityStep
<1>12. CASE xmlParserNsReset
  BY <1>12, ClearedStep DEF xmlParserNsReset, nsConfig
<1>13. CASE UNCHANGED nsVars
  <2>1. UNCHANGED <<nsTab, nsHash, nsElems, nsDefault, nsElement, nsMin, nsOpen, nsTag, nsHashOf>>
    BY <1>13 DEF nsVars
  <2> QED BY <2>1, TablesKept DEF NsInv, NsTypes, OpensFit
<1> QED BY <1>1, <1>2, <1>3, <1>4, <1>5, <1>6, <1>7, <1>8, <1>9, <1>10, <1>11, <1>12, <1>13
       DEF NsNext

(* The invariant holds throughout.                                         *)
LEMMA NsInvariant == NsSpec => []NsInv
BY NsInitInv, NsStep, PTL DEF NsSpec

(* Every search meets an empty bucket: for any prefixes, hash values and   *)
(* documents the used buckets, tombstones included, are counted by         *)
(* hashElems, which is at most half of the table                           *)
(* (parser.c:1487-1526, 1737).                                             *)
THEOREM NsProbesAlwaysEnd == NsSpec => []NsProbesEnd
<1>1. NsInv => NsProbesEnd
  <2> SUFFICES ASSUME NsInv PROVE NsProbesEnd
    OBVIOUS
  <2>1. PICK N \in Nat : TableRight(nsTab, nsHashOf, nsHash, N, nsElems, nsDefault)
    BY DEF NsInv, NsTables
  <2>2. HashSize = N
    BY <2>1, TableSize DEF TableRight, Sound, HashSize
  <2> QED BY <2>1, <2>2 DEF TableRight, NsProbesEnd, Used
<1> QED BY <1>1, NsInvariant, PTL

(* A lookup finds the innermost binding: for every prefix                  *)
(* xmlParserNsLookup returns the last binding of it on the stack, or none  *)
(* when there is none (parser.c:1487-1526).                                *)
THEOREM NsLookupInnermost == NsSpec => []Resolves
<1>1. NsInv => Resolves
  BY LookupResolves DEF NsInv
<1> QED BY <1>1, NsInvariant, PTL

-----------------------------------------------------------------------------
(* The stack as the index sees it.                                         *)
Rec(b) == [prefix |-> b.prefix, uri |-> b.uri, old |-> b.old]
View(tab) == [i \in 1..Len(tab) |-> Rec(tab[i])]
Recs == [prefix : NsPrefixes, uri : NsUris, old : Nat]
ScopeView == [p \in NsPrefixes |-> xmlParserNsLookup(p)]

(* Sequences with the same elements are equal.                             *)
LEMMA SameSeq ==
  ASSUME NEW S, NEW s \in Seq(S), NEW t \in Seq(S), Len(s) = Len(t),
         \A i \in 1..Len(s) : s[i] = t[i]
  PROVE  s = t
OBVIOUS

(* The view is a sequence of the same length.                              *)
LEMMA ViewIs ==
  ASSUME NEW tab \in Seq(NsBindings)
  PROVE  /\ View(tab) \in Seq(Recs) /\ Len(View(tab)) = Len(tab)
         /\ \A i \in 1..Len(tab) : View(tab)[i] = Rec(tab[i])
<1> DEFINE L == Len(tab)
<1>1. L \in Nat /\ \A i \in 1..L : tab[i] \in NsBindings
  OBVIOUS
<1> HIDE DEF L
<1>2. \A i \in 1..L : Rec(tab[i]) \in Recs
  BY <1>1 DEF Rec, Recs, NsBindings
<1> DEFINE r(i) == Rec(tab[i])
<1>3. \A i \in 1..L : r(i) \in Recs
  BY <1>2
<1> HIDE DEF r
<1>4. [i \in 1..L |-> r(i)] \in Seq(Recs) /\ Len([i \in 1..L |-> r(i)]) = L
  BY <1>1, <1>3
<1>5. \A i \in 1..L : [j \in 1..L |-> r(j)][i] = r(i)
  OBVIOUS
<1> QED BY <1>4, <1>5 DEF View, r, L

(* It grows with the stack.                                                *)
LEMMA ViewAppend ==
  ASSUME NEW tab \in Seq(NsBindings), NEW b \in NsBindings
  PROVE  View(Append(tab, b)) = Append(View(tab), Rec(b))
<1> DEFINE L == Len(tab)
           s == View(Append(tab, b))
           v == View(tab)
           r == Rec(b)
           t == Append(v, r)
           tab2 == Append(tab, b)
<1>1. L \in Nat /\ tab2 \in Seq(NsBindings) /\ Len(tab2) = L + 1 /\ tab2[L + 1] = b
      /\ \A i \in 1..L : tab2[i] = tab[i]
  OBVIOUS
<1>2. v \in Seq(Recs) /\ Len(v) = L /\ \A i \in 1..L : v[i] = Rec(tab[i])
  BY ViewIs
<1> HIDE DEF tab2
<1>3. View(tab2) \in Seq(Recs) /\ Len(View(tab2)) = L + 1
      /\ \A i \in 1..(L + 1) : View(tab2)[i] = Rec(tab2[i])
  <2>1. View(tab2) \in Seq(Recs) /\ Len(View(tab2)) = Len(tab2)
        /\ \A i \in 1..Len(tab2) : View(tab2)[i] = Rec(tab2[i])
    BY <1>1, ViewIs
  <2> QED BY <1>1, <2>1
<1>4. s = View(tab2) /\ r \in Recs
  BY DEF tab2, Rec, Recs, NsBindings
<1> HIDE DEF s, v, r, L
<1>5. t \in Seq(Recs) /\ Len(t) = L + 1 /\ t[L + 1] = r /\ \A i \in 1..L : t[i] = v[i]
  BY <1>1, <1>2, <1>4
<1> HIDE DEF t
<1>6. s \in Seq(Recs) /\ Len(s) = Len(t)
  BY <1>3, <1>4, <1>5
<1>7. \A i \in 1..Len(s) : s[i] = t[i]
  <2> TAKE i \in 1..Len(s)
  <2>1. i \in 1..(L + 1) /\ s[i] = Rec(tab2[i])
    BY <1>3, <1>4
  <2>2. CASE i = L + 1
    BY <1>1, <1>5, <2>1, <2>2 DEF r
  <2>3. CASE i # L + 1
    <3>1. i \in 1..L
      BY <1>1, <2>1, <2>3
    <3> QED BY <1>1, <1>2, <1>5, <2>1, <3>1
  <2> QED BY <2>2, <2>3
<1>8. s = t
  BY <1>5, <1>6, <1>7, SameSeq
<1> QED BY <1>8 DEF s, t, v, r

(* And shrinks with it.                                                    *)
LEMMA ViewCut ==
  ASSUME NEW tab \in Seq(NsBindings), NEW n \in 0..Len(tab)
  PROVE  View(SubSeq(tab, 1, n)) = SubSeq(View(tab), 1, n)
<1> DEFINE L == Len(tab)
           v == View(tab)
           tab2 == SubSeq(tab, 1, n)
           s == View(tab2)
           t == SubSeq(v, 1, n)
<1>1. tab2 \in Seq(NsBindings) /\ Len(tab2) = n /\ \A i \in 1..n : tab2[i] = tab[i]
  BY Cut
<1>2. v \in Seq(Recs) /\ Len(v) = Len(tab) /\ \A i \in 1..Len(tab) : v[i] = Rec(tab[i])
  BY ViewIs
<1> HIDE DEF tab2, v
<1>3. s \in Seq(Recs) /\ Len(s) = n /\ \A i \in 1..n : s[i] = Rec(tab2[i])
  BY <1>1, ViewIs
<1>4. t \in Seq(Recs) /\ Len(t) = n /\ \A i \in 1..n : t[i] = v[i]
  BY <1>2, Cut
<1> HIDE DEF s, t
<1>5. \A i \in 1..Len(s) : s[i] = t[i]
  <2> TAKE i \in 1..Len(s)
  <2>1. i \in 1..n /\ i \in 1..Len(tab)
    BY <1>3
  <2> QED BY <1>1, <1>2, <1>3, <1>4, <2>1
<1>6. s = t
  BY <1>3, <1>4, <1>5, SameSeq
<1> QED BY <1>6 DEF s, t, v, tab2

-----------------------------------------------------------------------------
(* Lookups before and after a step.                                        *)
Right == nsTab \in Seq(NsBindings) /\ Resolves /\ ShadowedBy(nsTab, Len(nsTab))

(* The invariant gives what the steps of the index need.                   *)
LEMMA InvRight == NsInv => Right
BY LookupResolves DEF NsInv, NsTypes, NsTables, TableRight, Right

(* What a lookup finds after the step is determined by the stack.          *)
LEMMA FoundIs ==
  ASSUME Right', NEW p \in NsPrefixes, NEW k, Lst(nsTab', p, Len(nsTab'), k)
  PROVE  xmlParserNsLookup(p)' = k
<1>1. Lst(nsTab', p, Len(nsTab'), xmlParserNsLookup(p)') /\ Len(nsTab') \in Nat
  BY DEF Right, Resolves
<1> QED BY <1>1, LstUnique

(* The stack stays: nothing changes for the index.                         *)
LEMMA SameView ==
  ASSUME Right, Right', nsTab' = nsTab
  PROVE  View(nsTab)' = View(nsTab) /\ ScopeView' = ScopeView
<1>1. \A p \in NsPrefixes : xmlParserNsLookup(p)' = xmlParserNsLookup(p)
  <2> TAKE p \in NsPrefixes
  <2> DEFINE k == xmlParserNsLookup(p)
  <2>1. Lst(nsTab, p, Len(nsTab), k)
    BY DEF Right, Resolves
  <2>2. Lst(nsTab', p, Len(nsTab'), k)
    BY <2>1
  <2> HIDE DEF k
  <2>3. xmlParserNsLookup(p)' = k
    BY <2>2, FoundIs
  <2> QED BY <2>3 DEF k
<1>2. ScopeView' = ScopeView
  BY <1>1, Zenon DEF ScopeView
<1> QED BY <1>2

(* The stack grows: the new binding comes into scope.                      *)
LEMMA DeclareView ==
  ASSUME Right, Right', NEW b \in NsBindings, nsTab' = Append(nsTab, b),
         b.old = xmlParserNsLookup(b.prefix)
  PROVE  /\ View(nsTab)' = Append(View(nsTab), Rec(b))
         /\ ScopeView' = [ScopeView EXCEPT ![b.prefix] = Len(View(nsTab)) + 1]
<1> DEFINE L == Len(nsTab)
<1>1. nsTab \in Seq(NsBindings) /\ b.prefix \in NsPrefixes
  BY DEF Right, NsBindings
<1>2. L \in Nat /\ Len(nsTab') = L + 1 /\ nsTab'[L + 1] = b /\ \A i \in 1..L : nsTab'[i] = nsTab[i]
  BY <1>1
<1>3. View(nsTab') = Append(View(nsTab), Rec(b))
  BY <1>1, ViewAppend
<1>4. Len(View(nsTab)) = L
  BY <1>1, ViewIs
<1>5. ASSUME NEW p \in NsPrefixes
      PROVE  xmlParserNsLookup(p)' = IF p = b.prefix THEN L + 1 ELSE xmlParserNsLookup(p)
  <2>1. CASE p = b.prefix
    <3> DEFINE k == L + 1
    <3>1. Lst(nsTab', p, Len(nsTab'), k)
      BY <1>2, <2>1 DEF Lst
    <3> HIDE DEF k
    <3>2. xmlParserNsLookup(p)' = k
      BY <3>1, FoundIs
    <3> QED BY <2>1, <3>2 DEF k
  <2>2. CASE p # b.prefix
    <3> DEFINE k == xmlParserNsLookup(p)
    <3>1. Lst(nsTab, p, L, k)
      BY DEF Right, Resolves
    <3> HIDE DEF k
    <3>2. Lst(nsTab', p, Len(nsTab'), k)
      BY <1>2, <2>2, <3>1 DEF Lst
    <3>3. xmlParserNsLookup(p)' = k
      BY <3>2, FoundIs
    <3> QED BY <2>2, <3>3 DEF k
  <2> QED BY <2>1, <2>2
<1> HIDE DEF L
<1> DEFINE f == [p \in NsPrefixes |-> IF p = b.prefix THEN L + 1 ELSE xmlParserNsLookup(p)]
<1>6. ScopeView' = f
  BY <1>5, Zenon DEF ScopeView
<1>7. f = [ScopeView EXCEPT ![b.prefix] = L + 1]
  BY Zenon DEF ScopeView
<1> QED BY <1>3, <1>4, <1>6, <1>7

(* The lowest binding of p above position n.                               *)
IsLowest(tab, p, n, i) ==
  /\ i \in (n + 1)..Len(tab) /\ tab[i].prefix = p
  /\ \A j \in (n + 1)..(i - 1) : tab[j].prefix # p

(* Among the bindings that go, each prefix has a lowest one,               *)
LEMMA LowestExists ==
  ASSUME NEW tab, Len(tab) \in Nat, NEW p, NEW n \in Nat,
         \E i \in (n + 1)..Len(tab) : tab[i].prefix = p
  PROVE  \E i : IsLowest(tab, p, n, i)
<1> DEFINE S == {i \in (n + 1)..Len(tab) : tab[i].prefix = p}
<1>1. S \in SUBSET Nat /\ S # {}
  OBVIOUS
<1>2. PICK i \in S : \A j \in S : i <= j
  <2> HIDE DEF S
  <2> QED BY <1>1, LeastNat
<1>3. i \in (n + 1)..Len(tab) /\ tab[i].prefix = p
  BY <1>2
<1>4. \A j \in (n + 1)..(i - 1) : tab[j].prefix # p
  BY <1>2, <1>3
<1> QED BY <1>3, <1>4 DEF IsLowest

(* which shadowed the last one of those that stay.                         *)
LEMMA LowestOld ==
  ASSUME NEW tab, Len(tab) \in Nat, ShadowedBy(tab, Len(tab)), NEW p, NEW n \in Nat, NEW i,
         IsLowest(tab, p, n, i)
  PROVE  Lst(tab, p, n, tab[i].old)
<1>1. i \in (n + 1)..Len(tab) /\ i \in 1..Len(tab) /\ tab[i].prefix = p
      /\ \A j \in (n + 1)..(i - 1) : tab[j].prefix # p
  BY DEF IsLowest
<1>2. Lst(tab, p, i - 1, tab[i].old)
  BY <1>1 DEF ShadowedBy
<1> QED BY <1>1, <1>2 DEF Lst

(* Closing the bindings above n.                                           *)
ClosedScope(p, n) ==
  IF \E i \in (n + 1)..Len(View(nsTab)) : View(nsTab)[i].prefix = p
  THEN View(nsTab)[CHOOSE i \in (n + 1)..Len(View(nsTab)) :
         /\ View(nsTab)[i].prefix = p
         /\ \A j \in (n + 1)..(i - 1) : View(nsTab)[j].prefix # p].old
  ELSE ScopeView[p]

(* The stack shrinks: what the lowest binding above n shadowed comes back. *)
LEMMA CloseView ==
  ASSUME Right, Right', NEW n \in 0..Len(nsTab), nsTab' = SubSeq(nsTab, 1, n)
  PROVE  /\ View(nsTab)' = SubSeq(View(nsTab), 1, n)
         /\ ScopeView' = [p \in NsPrefixes |-> ClosedScope(p, n)]
<1> DEFINE L == Len(nsTab)
           tab == nsTab
           v == View(tab)
<1>0. tab \in Seq(NsBindings) /\ L \in Nat /\ n \in Nat /\ ShadowedBy(tab, L) /\ n <= L
  BY DEF Right
<1>1. View(nsTab') = SubSeq(v, 1, n)
  BY <1>0, ViewCut
<1>2. Len(nsTab') = n /\ \A j \in 1..n : nsTab'[j] = nsTab[j]
  BY <1>0, Cut
<1>3. Len(v) = L /\ \A i \in 1..L : v[i] = Rec(tab[i])
  BY <1>0, ViewIs
<1>4. \A i \in 1..L : v[i].prefix = tab[i].prefix /\ v[i].old = tab[i].old
  <2> TAKE i \in 1..L
  <2>1. v[i] = Rec(tab[i])
    BY <1>3
  <2> HIDE DEF v, tab
  <2> QED BY <2>1 DEF Rec
<1>5. ASSUME NEW p \in NsPrefixes, NEW k, Lst(tab, p, n, k)
      PROVE  xmlParserNsLookup(p)' = k
  <2>1. Lst(nsTab', p, Len(nsTab'), k)
    BY <1>0, <1>2, <1>5 DEF Lst
  <2> QED BY <2>1, FoundIs
<1> HIDE DEF v
<1>6. ASSUME NEW p \in NsPrefixes PROVE xmlParserNsLookup(p)' = ClosedScope(p, n)
  <2>1. CASE \E i \in (n + 1)..L : tab[i].prefix = p
    <3> DEFINE Low(i) == v[i].prefix = p /\ \A j \in (n + 1)..(i - 1) : v[j].prefix # p
               i0 == CHOOSE i \in (n + 1)..Len(v) : Low(i)
    <3>1. PICK i : IsLowest(tab, p, n, i)
      BY <1>0, <2>1, LowestExists
    <3>2. i \in (n + 1)..Len(v) /\ Low(i)
      BY <1>0, <1>3, <1>4, <3>1, SMTT(60) DEF IsLowest
    <3>3. i0 \in (n + 1)..Len(v) /\ Low(i0)
      <4> HIDE DEF Low
      <4> QED BY <3>2
    <3>4. ClosedScope(p, n) = v[i0].old
      <4>1. \E j \in (n + 1)..Len(v) : v[j].prefix = p
        BY <3>3
      <4> QED BY <4>1, Zenon DEF ClosedScope, v
    <3> HIDE DEF i0
    <3>5. IsLowest(tab, p, n, i0) /\ i0 \in 1..L
      BY <1>0, <1>3, <1>4, <3>3 DEF IsLowest
    <3>6. Lst(tab, p, n, tab[i0].old)
      BY <1>0, <3>5, LowestOld
    <3> QED BY <1>4, <1>5, <3>4, <3>5, <3>6
  <2>2. CASE ~ \E i \in (n + 1)..L : tab[i].prefix = p
    <3>1. ~ \E i \in (n + 1)..Len(v) : v[i].prefix = p
      <4> SUFFICES ASSUME NEW i \in (n + 1)..Len(v), v[i].prefix = p PROVE FALSE
        OBVIOUS
      <4>1. i \in (n + 1)..L
        BY <1>3
      <4>2. i \in 1..L
        BY <1>0, <4>1
      <4>3. tab[i].prefix = p
        BY <1>4, <4>2
      <4> QED BY <2>2, <4>1, <4>3
    <3>2. ClosedScope(p, n) = xmlParserNsLookup(p)
      BY <3>1, Zenon DEF ClosedScope, v, ScopeView
    <3> DEFINE k == xmlParserNsLookup(p)
    <3>3. Lst(tab, p, L, k)
      BY DEF Right, Resolves
    <3> HIDE DEF k
    <3>4. Lst(tab, p, n, k)
      BY <1>0, <2>2, <3>3 DEF Lst
    <3> QED BY <1>5, <3>2, <3>4 DEF k
  <2> QED BY <2>1, <2>2
<1>7. ScopeView' = [p \in NsPrefixes |-> ClosedScope(p, n)]
  BY <1>6, Zenon DEF ScopeView
<1> QED BY <1>1, <1>7 DEF v, tab

(* The stack is emptied.                                                   *)
LEMMA ResetView ==
  ASSUME Right', nsTab' = <<>>
  PROVE  View(nsTab)' = <<>> /\ ScopeView' = [p \in NsPrefixes |-> 0]
<1>1. \A p \in NsPrefixes : xmlParserNsLookup(p)' = 0
  <2> TAKE p \in NsPrefixes
  <2>1. Lst(nsTab', p, Len(nsTab'), 0)
    BY DEF Lst
  <2> QED BY <2>1, FoundIs
<1>2. ScopeView' = [p \in NsPrefixes |-> 0]
  BY <1>1, Zenon DEF ScopeView
<1>3. View(<<>>) = <<>>
  BY DEF View
<1> QED BY <1>2, <1>3

-----------------------------------------------------------------------------
(* Steps of the database as steps of the index.                            *)

(* The state of the index, by its two parts.                               *)
LEMMA IndexVarsIs ==
  /\ Index!indexVars = <<View(nsTab), ScopeView>>
  /\ Index!indexVars' = <<View(nsTab)', ScopeView'>>
BY Zenon DEF Index!indexVars, View, Rec, ScopeView

(* Declare, by its two parts.                                              *)
LEMMA DeclareIs ==
  ASSUME NEW p, NEW u,
         View(nsTab)' = Append(View(nsTab), [prefix |-> p, uri |-> u, old |-> ScopeView[p]]),
         ScopeView' = [ScopeView EXCEPT ![p] = Len(View(nsTab)) + 1]
  PROVE  Index!Declare(p, u)
BY Zenon DEF Index!Declare, View, Rec, ScopeView

(* Close, by its two parts.                                                *)
LEMMA CloseIs ==
  ASSUME NEW n, n < Len(View(nsTab)), View(nsTab)' = SubSeq(View(nsTab), 1, n),
         ScopeView' = [p \in NsPrefixes |-> ClosedScope(p, n)]
  PROVE  Index!Close(n)
BY Zenon DEF Index!Close, Index!LowestAbove, ClosedScope, View, Rec, ScopeView

(* IndexReset, by its two parts.                                           *)
LEMMA ResetIs ==
  ASSUME View(nsTab)' = <<>>, ScopeView' = [p \in NsPrefixes |-> 0]
  PROVE  Index!IndexReset
BY Zenon DEF Index!IndexReset, View, Rec, ScopeView

(* A new database is a new index.                                          *)
LEMMA InitIs == NsInit => Index!IndexInit
<1> SUFFICES ASSUME NsInit PROVE Index!IndexInit
  OBVIOUS
<1>0. NsInv
  BY NsInitInv
<1>1. Right /\ nsTab = <<>>
  BY <1>0, InvRight DEF NsInit
<1>2. \A p \in NsPrefixes : xmlParserNsLookup(p) = 0
  BY <1>1 DEF Right, Resolves, Lst
<1>3. ScopeView = [p \in NsPrefixes |-> 0]
  BY <1>2, Zenon DEF ScopeView
<1>4. View(<<>>) = <<>>
  BY DEF View
<1>5. View(nsTab) = <<>>
  BY <1>1, <1>4
<1> QED BY <1>3, <1>5, Zenon DEF Index!IndexInit, View, Rec, ScopeView

(* xmlParserNsPop closes bindings, or none.                                *)
LEMMA PopImplements ==
  ASSUME Right, Right', NEW nr \in 0..Len(nsTab), xmlParserNsPop(nr)
  PROVE  [Index!IndexNext]_(Index!indexVars)
<1> DEFINE v == View(nsTab)
<1>n. PICK n : n = Len(nsTab) - nr
  OBVIOUS
<1>0. nsTab \in Seq(NsBindings) /\ Len(nsTab) \in Nat /\ n \in 0..Len(nsTab)
  BY <1>n DEF Right
<1>1. nsTab' = SubSeq(nsTab, 1, n)
  BY <1>n DEF xmlParserNsPop
<1>2. Len(v) = Len(nsTab)
  BY <1>0, ViewIs
<1>3. CASE nr = 0
  <2>1. nsTab' = nsTab
    BY <1>n, <1>0, <1>1, <1>3
  <2>2. View(nsTab)' = View(nsTab) /\ ScopeView' = ScopeView
    BY <2>1, SameView
  <2> QED BY <2>2, IndexVarsIs, Zenon
<1>4. CASE nr # 0
  <2>1. n < Len(v) /\ n \in 0..Len(v)
    BY <1>n, <1>0, <1>2, <1>4
  <2>2. View(nsTab)' = SubSeq(View(nsTab), 1, n)
        /\ ScopeView' = [p \in NsPrefixes |-> ClosedScope(p, n)]
    BY <1>0, <1>1, CloseView
  <2>3. Index!Close(n)
    BY <2>1, <2>2, CloseIs, Zenon
  <2>4. \E k \in 0..Len(View(nsTab)) : Index!Close(k)
    BY <2>1, <2>3, Zenon
  <2>5. Index!IndexNext
    BY <2>4, Zenon DEF Index!IndexNext, View, Rec
  <2> QED BY <2>5
<1> QED BY <1>3, <1>4

(* xmlParserNsPush declares a binding over the one in scope.               *)
LEMMA PushImplements ==
  ASSUME Right, Right', NsTypes, NEW p \in NsPrefixes, NEW u \in NsUris, NEW old,
         old = xmlParserNsLookup(p), nsTab' = Append(nsTab, Binding(p, u, old))
  PROVE  Index!IndexNext
<1> DEFINE b == Binding(p, u, old)
<1>1. old \in Nat
  <2>1. Lst(nsTab, p, Len(nsTab), old) /\ Len(nsTab) \in Nat
    BY DEF Right, Resolves
  <2> QED BY <2>1 DEF Lst
<1>2. b \in NsBindings /\ b.prefix = p /\ b.old = old /\ b.uri = u
  BY <1>1 DEF NsTypes, NsBindings, Binding
<1> HIDE DEF b
<1>3. b.old = xmlParserNsLookup(b.prefix) /\ nsTab' = Append(nsTab, b)
  BY <1>2 DEF b
<1>4. View(nsTab)' = Append(View(nsTab), Rec(b))
      /\ ScopeView' = [ScopeView EXCEPT ![b.prefix] = Len(View(nsTab)) + 1]
  BY <1>2, <1>3, DeclareView
<1>5. ScopeView[p] = old
  BY DEF ScopeView
<1>6. Rec(b) = [prefix |-> p, uri |-> u, old |-> ScopeView[p]]
  BY <1>2, <1>5 DEF Rec
<1>7. Index!Declare(p, u)
  <2>1. View(nsTab)' = Append(View(nsTab), [prefix |-> p, uri |-> u, old |-> ScopeView[p]])
    BY <1>4, <1>6, Zenon
  <2>2. ScopeView' = [ScopeView EXCEPT ![p] = Len(View(nsTab)) + 1]
    BY <1>2, <1>4, Zenon
  <2> QED BY <2>1, <2>2, DeclareIs
<1> QED BY <1>7 DEF Index!IndexNext

(* Every step of the database is a step of the index or leaves it alone.   *)
LEMMA ImplStep ==
  NsInv /\ NsInv' /\ [NsNext]_nsVars => [Index!IndexNext]_(Index!indexVars)
<1> SUFFICES ASSUME NsInv, NsInv', [NsNext]_nsVars PROVE [Index!IndexNext]_(Index!indexVars)
  OBVIOUS
<1>0. Right /\ Right'
  <2>1. Right
    BY InvRight
  <2>2. NsInv' => Right'
    BY InvRight, PTL
  <2> QED BY <2>1, <2>2
<1>a. ASSUME nsTab' = nsTab PROVE [Index!IndexNext]_(Index!indexVars)
  <2>1. View(nsTab)' = View(nsTab) /\ ScopeView' = ScopeView
    BY <1>0, <1>a, SameView
  <2> QED BY <2>1, IndexVarsIs, Zenon
<1>b. ASSUME Cleared PROVE [Index!IndexNext]_(Index!indexVars)
  <2>1. Index!IndexReset
    BY <1>0, <1>b, ResetView, ResetIs DEF Cleared
  <2> QED BY <2>1 DEF Index!IndexNext
<1>1. CASE xmlParserNsStartElement
  BY <1>1, <1>a DEF xmlParserNsStartElement
<1>2. CASE NsContext
  BY <1>2, <1>b DEF NsContext
<1>3. ASSUME NEW d \in NsDecls, PushIgnored(d[1], d[2])
      PROVE [Index!IndexNext]_(Index!indexVars)
  <2>1. nsTab' = nsTab
    BY <1>3, Zenon DEF PushIgnored
  <2> QED BY <1>a, <2>1
<1>4. ASSUME NEW d \in NsDecls, PushShadow(d[1], d[2])
      PROVE [Index!IndexNext]_(Index!indexVars)
  <2> DEFINE old == xmlParserNsLookup(d[1])
  <2>1. nsTab' = Append(nsTab, Binding(d[1], d[2], old))
    BY <1>4, Zenon DEF PushShadow, Pushed
  <2>2. d[1] \in NsPrefixes /\ d[2] \in NsUris /\ NsTypes
    BY DeclTypes DEF NsInv
  <2> HIDE DEF old
  <2>3. old = xmlParserNsLookup(d[1])
    BY DEF old
  <2>4. Index!IndexNext
    BY <1>0, <2>1, <2>2, <2>3, PushImplements
  <2> QED BY <2>4
<1>5. ASSUME NEW d \in NsDecls, PushNew(d[1], d[2])
      PROVE [Index!IndexNext]_(Index!indexVars)
  <2>1. nsTab' = Append(nsTab, Binding(d[1], d[2], 0)) /\ 0 = xmlParserNsLookup(d[1])
    BY <1>5, Zenon DEF PushNew, Pushed
  <2>2. d[1] \in NsPrefixes /\ d[2] \in NsUris /\ NsTypes
    BY DeclTypes DEF NsInv
  <2>4. Index!IndexNext
    BY <1>0, <2>1, <2>2, PushImplements
  <2> QED BY <2>4
<1>6. CASE NsTagFails
  BY <1>6, <1>a DEF NsTagFails
<1>7. CASE NsTagOpen
  BY <1>7, <1>a DEF NsTagOpen
<1>8. CASE NsTagEmpty
  BY <1>0, <1>8, TagEmptyPops, PopImplements
<1>9. CASE NsEndTag
  BY <1>0, <1>9, EndTagPops, PopImplements
<1>10. CASE NsEnterEntity
  BY <1>10, <1>a DEF NsEnterEntity
<1>11. CASE NsLeaveEntity
  BY <1>11, <1>a DEF NsLeaveEntity
<1>12. CASE xmlParserNsReset
  BY <1>12, <1>b DEF xmlParserNsReset
<1>13. CASE UNCHANGED nsVars
  BY <1>13, <1>a DEF nsVars
<1> QED BY <1>1, <1>2, <1>3, <1>4, <1>5, <1>6, <1>7, <1>8, <1>9, <1>10, <1>11, <1>12, <1>13
       DEF NsNext

(* The database implements the index of the bindings in scope: over growth *)
(* of the table, reused tombstones, colliding hash values and probe        *)
(* sequences that wrap around, every declaration, end tag, failed tag and  *)
(* reset changes the bindings found by lookups exactly as on the abstract  *)
(* index (parser.c:1487-1845).                                             *)
THEOREM NsDbIsIndex == NsSpec => ImplementsNsIndex
<1>1. NsInit => Index!IndexInit
  BY InitIs
<1>2. NsInv /\ NsInv' /\ [NsNext]_nsVars => [Index!IndexNext]_(Index!indexVars)
  BY ImplStep
<1> QED BY <1>1, <1>2, NsInvariant, PTL DEF NsSpec, ImplementsNsIndex, Index!IndexSpec

=============================================================================
